-------------------------- MODULE GitCommandProofs --------------------------
(***************************************************************************)
(* Theorems about GitCommand, for lines of any length: trimming, taking    *)
(* quotes off and splitting change nothing of what a line says, so the     *)
(* command the SSH server runs is the one that was asked for, and an       *)
(* argument in quotes is read as it was before it was quoted.              *)
(***************************************************************************)
EXTENDS GitCommand, Recursion

-----------------------------------------------------------------------------
(* What texts say.                                                         *)

Marks == Quotes \cup {Blank}

LEMMA Single ==
    ASSUME NEW S PROVE <<>> \in Seq(S) /\ \A t \in S : <<t>> \in Seq(S)
OBVIOUS

LEMMA WordPart == IsPart(STRING, STRING, Word)
<1>1. ASSUME NEW t \in STRING
      PROVE  (IF t \in Quotes \cup {Blank} THEN <<>> ELSE <<t>>) \in Seq(STRING)
  <2>1. <<>> \in Seq(STRING) /\ <<t>> \in Seq(STRING)
    BY Single, Zenon
  <2> QED
    BY <2>1
<1> QED
  BY <1>1 DEF IsPart, Word

LEMMA SaidTyped ==
    /\ \A s \in Text : Said(s) \in Text
    /\ Said(<<>>) = <<>>
    /\ \A t \in STRING : Said(<<t>>) = IF t \in Marks THEN <<>> ELSE <<t>>
<1>1. \A t \in STRING : Word[t] = IF t \in Marks THEN <<>> ELSE <<t>>
  BY DEF Word, Marks
<1>2. /\ \A s \in Seq(STRING) : Join(STRING, STRING, Word, s) \in Seq(STRING)
      /\ Join(STRING, STRING, Word, <<>>) = <<>>
      /\ \A t \in STRING : Join(STRING, STRING, Word, <<t>>) = Word[t]
  <2>1. PICK B, w : B = STRING /\ w = Word
    OBVIOUS
  <2>2. IsPart(B, B, w)
    BY <2>1, WordPart, Zenon
  <2>3. /\ \A s \in Seq(B) : Join(B, B, w, s) \in Seq(B)
        /\ Join(B, B, w, <<>>) = <<>>
        /\ \A t \in B : Join(B, B, w, <<t>>) = w[t]
    BY <2>2, JoinTyped
  <2> QED
    BY <2>1, <2>3, Zenon
<1>3. \A s : Said(s) = Join(STRING, STRING, Word, s)
  BY DEF Said
<1>4. \A s \in Text : Said(s) \in Text
  BY <1>2, <1>3 DEF Text
<1>5. \A t \in STRING : Said(<<t>>) = IF t \in Marks THEN <<>> ELSE <<t>>
  BY <1>1, <1>2, <1>3
<1>6. Said(<<>>) = <<>>
  BY <1>2, <1>3
<1> QED
  BY <1>4, <1>5, <1>6

LEMMA SaidConcat ==
    \A s, t \in Text : Said(s \o t) = Said(s) \o Said(t)
<1>1. \A s, t \in Seq(STRING) :
          Join(STRING, STRING, Word, s \o t) =
          Join(STRING, STRING, Word, s) \o Join(STRING, STRING, Word, t)
  BY WordPart, JoinConcat
<1> QED
  BY <1>1 DEF Said, Text

(* Blanks and quotes alone say nothing. *)
LEMMA SaidNothing ==
    ASSUME NEW s \in Text, \A i \in 1 .. Len(s) : s[i] \in Marks
    PROVE  Said(s) = <<>>
<1> DEFINE G == {x \in Text : (\A i \in 1 .. Len(x) : x[i] \in Marks) => Said(x) = <<>>}
<1>1. <<>> \in G
  BY SaidTyped DEF Text
<1>2. ASSUME NEW x \in Text, x # <<>>, Tail(x) \in G
      PROVE  x \in G
  <2> SUFFICES ASSUME \A i \in 1 .. Len(x) : x[i] \in Marks
               PROVE  Said(x) = <<>>
    OBVIOUS
  <2>1. PICK h, f : h = Head(x) /\ f = Tail(x)
    OBVIOUS
  <2>2. /\ h \in STRING /\ f \in Text /\ h = x[1] /\ Len(x) \in Nat \ {0}
        /\ Len(f) = Len(x) - 1 /\ \A i \in 1 .. Len(f) : f[i] = x[i + 1]
    BY <1>2, <2>1, HeadTailProperties, EmptySeq DEF Text
  <2>3. h \in Marks /\ \A i \in 1 .. Len(f) : f[i] \in Marks
    BY <2>2
  <2>4. x = <<h>> \o f /\ <<h>> \in Text
    BY <1>2, <2>1, <2>2 DEF Text
  <2>5. Said(f) = <<>> /\ Said(<<h>>) = <<>>
    BY <1>2, <2>1, <2>2, <2>3, SaidTyped
  <2>6. Said(x) = Said(<<h>>) \o Said(f)
    BY <2>2, <2>4, SaidConcat
  <2> QED
    BY <2>5, <2>6
<1>3. Text \subseteq G
  <2> HIDE DEF G
  <2> QED
    BY <1>1, <1>2, TailInduction DEF Text
<1> QED
  BY <1>3

(* What is left of a text between the places m and n says as much, if      *)
(* there is nothing but blanks and quotes on either side.                  *)
LEMMA SaidBetween ==
    ASSUME NEW s \in Text, NEW m \in 1 .. Len(s) + 1, NEW n \in m - 1 .. Len(s),
           \A i \in 1 .. m - 1 : s[i] \in Marks,
           \A i \in n + 1 .. Len(s) : s[i] \in Marks
    PROVE  SubSeq(s, m, n) \in Text /\ Said(SubSeq(s, m, n)) = Said(s)
<1>1. Len(s) \in Nat /\ \A i \in 1 .. Len(s) : s[i] \in STRING
  BY LenProperties, ElementOfSeq DEF Text
<1>2. PICK a, b, c : /\ a = SubSeq(s, 1, m - 1) /\ b = SubSeq(s, m, n)
                     /\ c = SubSeq(s, n + 1, Len(s))
  OBVIOUS
<1>3. a \in Text /\ Len(a) = m - 1 /\ \A i \in 1 .. m - 1 : a[i] = s[i]
  <2>1. \A i \in 1 .. m - 1 : s[i] \in STRING
    BY <1>1
  <2> QED
    BY <1>1, <1>2, <2>1, SubSeqProperties DEF Text
<1>4. b \in Text
  <2>1. \A i \in m .. n : s[i] \in STRING
    BY <1>1
  <2> QED
    BY <1>1, <1>2, <2>1, SubSeqProperties DEF Text
<1>5. c \in Text /\ Len(c) = Len(s) - n /\ \A i \in 1 .. Len(s) - n : c[i] = s[n + i]
  <2>1. \A i \in n + 1 .. Len(s) : s[i] \in STRING
    BY <1>1
  <2> QED
    BY <1>1, <1>2, <2>1, SubSeqProperties DEF Text
<1>6. Said(a) = <<>> /\ Said(c) = <<>>
  <2>1. \A i \in 1 .. Len(c) : c[i] \in Marks
    BY <1>1, <1>5
  <2> QED
    BY <1>3, <1>5, <2>1, SaidNothing
<1>7. b \o c = SubSeq(s, m, Len(s)) /\ a \o SubSeq(s, m, Len(s)) = s
  <2>1. s \in Seq(STRING)
    BY DEF Text
  <2>2. SubSeq(s, m, n) \o SubSeq(s, n + 1, Len(s)) = SubSeq(s, m, Len(s))
    <3>1. Len(s) \in n .. Len(s)
      BY <1>1
    <3> QED
      BY <2>1, <3>1, ConcatAdjacentSubSeq
  <2>3. SubSeq(s, 1, m - 1) \o SubSeq(s, m, Len(s)) = SubSeq(s, 1, Len(s))
    <3>1. PICK k : k = m - 1
      OBVIOUS
    <3>2. /\ 1 \in 1 .. Len(s) + 1 /\ k \in 1 - 1 .. Len(s) /\ Len(s) \in k .. Len(s)
          /\ k + 1 = m
      BY <1>1, <3>1
    <3>3. SubSeq(s, 1, k) \o SubSeq(s, k + 1, Len(s)) = SubSeq(s, 1, Len(s))
      BY <2>1, <3>2, ConcatAdjacentSubSeq
    <3> QED
      BY <3>1, <3>2, <3>3
  <2>4. SubSeq(s, 1, Len(s)) = s
    BY <2>1, SubSeqFull
  <2> QED
    BY <1>2, <2>2, <2>3, <2>4
<1>8. b \o c \in Text /\ Said(b \o c) = Said(b) /\ Said(b) \in Text
  <2>1. b \o c \in Text
    BY <1>4, <1>5, ConcatProperties DEF Text
  <2>2. Said(b \o c) = Said(b) \o <<>> /\ Said(b) \in Text
    <3>1. Said(b \o c) = Said(b) \o Said(c)
      BY <1>4, <1>5, SaidConcat, Zenon
    <3>2. Said(b) \in Text
      BY <1>4, SaidTyped, Zenon
    <3> QED
      BY <1>6, <3>1, <3>2
  <2>3. Said(b) \o <<>> = Said(b)
    BY <2>2, ConcatEmptySeq DEF Text
  <2> QED
    BY <2>1, <2>2, <2>3
<1>9. Said(s) = Said(b)
  <2>1. Said(a \o (b \o c)) = <<>> \o Said(b)
    BY <1>3, <1>6, <1>8, SaidConcat
  <2>2. <<>> \o Said(b) = Said(b)
    BY <1>8, ConcatEmptySeq DEF Text
  <2> QED
    BY <1>7, <2>1, <2>2
<1> QED
  BY <1>2, <1>4, <1>9

(* Trimming takes away blanks. *)
LEMMA TrimKeeps ==
    ASSUME NEW s \in Text
    PROVE  TrimSpace(s) \in Text /\ Said(TrimSpace(s)) = Said(s)
<1>1. PICK text : text = {i \in DOMAIN s : s[i] # Blank}
  OBVIOUS
<1>2. Len(s) \in Nat /\ DOMAIN s = 1 .. Len(s)
  BY LenProperties DEF Text
<1>3. CASE text = {}
  <2>1. \A i \in 1 .. Len(s) : s[i] \in Marks
    BY <1>1, <1>2, <1>3 DEF Marks
  <2>2. Said(s) = <<>> /\ TrimSpace(s) = <<>>
    BY <1>1, <1>3, <2>1, SaidNothing DEF TrimSpace
  <2>3. <<>> \in Text
    BY Single DEF Text
  <2> QED
    BY <2>2, <2>3, SaidTyped
<1>4. CASE text # {}
  <2>1. Min(text) \in text /\ \A j \in text : Min(text) <= j
    <3>1. \E i \in text : \A j \in text : i <= j
      <4>1. text \in SUBSET Nat
        BY <1>1, <1>2
      <4> QED
        BY <1>4, <4>1, LeastNatural
    <3> QED
      BY <3>1 DEF Min
  <2>2. Max(text) \in text /\ \A j \in text : Max(text) >= j
    <3>1. \E i \in text : \A j \in text : i >= j
      <4>1. text \in SUBSET (1 .. Len(s))
        BY <1>1, <1>2
      <4> QED
        BY <1>2, <1>4, <4>1, GreatestPlace
    <3> QED
      BY <3>1 DEF Max
  <2>3. PICK m, n : m = Min(text) /\ n = Max(text)
    OBVIOUS
  <2>4. m \in 1 .. Len(s) + 1 /\ n \in m - 1 .. Len(s)
    <3>1. m \in text /\ n \in text /\ m <= n
      BY <2>1, <2>2, <2>3
    <3>2. m \in 1 .. Len(s) /\ n \in 1 .. Len(s)
      BY <1>1, <1>2, <3>1
    <3> QED
      BY <1>2, <3>1, <3>2
  <2>5. /\ \A i \in 1 .. m - 1 : s[i] \in Marks
        /\ \A i \in n + 1 .. Len(s) : s[i] \in Marks
    <3>1. \A i \in 1 .. Len(s) : i < m \/ i > n => i \notin text
      <4>1. \A j \in text : m <= j /\ n >= j
        BY <2>1, <2>2, <2>3
      <4> QED
        BY <1>2, <2>4, <4>1
    <3>2. \A i \in 1 .. Len(s) : i \notin text => s[i] \in Marks
      BY <1>1, <1>2 DEF Marks
    <3> QED
      BY <1>2, <2>4, <3>1, <3>2
  <2>6. TrimSpace(s) = SubSeq(s, m, n)
    BY <1>1, <1>4, <2>3 DEF TrimSpace
  <2> QED
    BY <2>4, <2>5, <2>6, SaidBetween
<1> QED
  BY <1>3, <1>4

(* Taking quotes off does, too. *)
LEMMA StripKeeps ==
    ASSUME NEW s \in Text
    PROVE  stripQuotes(s) \in Text /\ Said(stripQuotes(s)) = Said(s)
<1>1. PICK t : t = TrimSpace(s)
  OBVIOUS
<1>2. t \in Text /\ Said(t) = Said(s) /\ Len(t) \in Nat
  BY <1>1, TrimKeeps, LenProperties DEF Text
<1>3. CASE Len(t) >= 2 /\ Head(t) \in Quotes /\ Last(t) = Head(t)
  <2>1. t[1] \in Marks /\ t[Len(t)] \in Marks
    BY <1>2, <1>3 DEF Last, Marks
  <2>2. 2 \in 1 .. Len(t) + 1 /\ Len(t) - 1 \in 2 - 1 .. Len(t)
    BY <1>2, <1>3
  <2>3. /\ \A i \in 1 .. 2 - 1 : t[i] \in Marks
        /\ \A i \in Len(t) - 1 + 1 .. Len(t) : t[i] \in Marks
    BY <1>2, <2>1
  <2>4. SubSeq(t, 2, Len(t) - 1) \in Text /\ Said(SubSeq(t, 2, Len(t) - 1)) = Said(t)
    BY <1>2, <2>2, <2>3, SaidBetween
  <2> QED
    BY <1>1, <1>2, <1>3, <2>4 DEF stripQuotes
<1>4. CASE ~(Len(t) >= 2 /\ Head(t) \in Quotes /\ Last(t) = Head(t))
  BY <1>1, <1>2, <1>4 DEF stripQuotes
<1> QED
  BY <1>3, <1>4

-----------------------------------------------------------------------------
(* Splitting.                                                              *)

(* What parts say in a row, and what the loop has read so far. *)
SaidOf     == [p \in Text |-> Said(p)]
Joined(ps) == Join(STRING, Text, SaidOf, ps)
Read(acc)  == Joined(acc.parts) \o Said(acc.cur)

LEMMA JoinedTyped ==
    /\ \A ps \in Seq(Text) : Joined(ps) \in Text
    /\ Joined(<<>>) = <<>>
    /\ \A p \in Text : Joined(<<p>>) = Said(p)
    /\ \A ps, qs \in Seq(Text) : Joined(ps \o qs) = Joined(ps) \o Joined(qs)
<1>1. IsPart(Text, STRING, SaidOf)
  BY SaidTyped DEF IsPart, SaidOf, Text
<1>2. /\ \A s \in Seq(Text) : Join(STRING, Text, SaidOf, s) \in Seq(STRING)
      /\ Join(STRING, Text, SaidOf, <<>>) = <<>>
      /\ \A p \in Text : Join(STRING, Text, SaidOf, <<p>>) = SaidOf[p]
  BY <1>1, JoinTyped
<1>3. \A s \in Seq(Text), t \in Seq(Text) :
          Join(STRING, Text, SaidOf, s \o t) =
          Join(STRING, Text, SaidOf, s) \o Join(STRING, Text, SaidOf, t)
  BY <1>1, JoinConcat
<1>4. \A p \in Text : SaidOf[p] = Said(p)
  BY DEF SaidOf
<1>5. Text = Seq(STRING)
  BY DEF Text
<1> QED
  BY <1>2, <1>3, <1>4, <1>5 DEF Joined

LEMMA JoinedAppend ==
    ASSUME NEW ps \in Seq(Text), NEW p \in Text
    PROVE  Joined(Append(ps, p)) = Joined(ps) \o Said(p)
<1>1. <<p>> \in Seq(Text) /\ Append(ps, p) = ps \o <<p>>
  BY Single, AppendIsConcat
<1>2. Joined(ps \o <<p>>) = Joined(ps) \o Joined(<<p>>)
  BY <1>1, JoinedTyped
<1> QED
  BY <1>1, <1>2, JoinedTyped

(* A part that ends is read. *)
LEMMA FlushKeeps ==
    ASSUME NEW acc \in Splits
    PROVE  /\ flush(acc) \in Splits /\ flush(acc).cur = <<>>
           /\ Read(flush(acc)) = Read(acc)
<1>1. acc.parts \in Seq(Text) /\ acc.cur \in Text /\ acc.inQuote \in Quotes \cup {""}
  BY DEF Splits
<1>2. CASE acc.cur = <<>>
  BY <1>2 DEF flush
<1>3. CASE acc.cur # <<>>
  <2>1. PICK ps, p : ps = acc.parts /\ p = acc.cur
    OBVIOUS
  <2>2. flush(acc) = [acc EXCEPT !.parts = Append(ps, p), !.cur = <<>>]
    BY <1>3, <2>1 DEF flush
  <2>3. Append(ps, p) \in Seq(Text) /\ <<>> \in Text
    BY <1>1, <2>1, AppendProperties, Single DEF Text
  <2>4. /\ flush(acc) \in Splits /\ flush(acc).cur = <<>>
        /\ flush(acc).parts = Append(ps, p)
    BY <2>2, <2>3 DEF Splits
  <2>5. Joined(Append(ps, p)) = Joined(ps) \o Said(p) /\ Joined(ps) \o Said(p) \in Text
    <3>1. Joined(ps) \in Text /\ Said(p) \in Text
      BY <1>1, <2>1, JoinedTyped, SaidTyped
    <3> QED
      BY <1>1, <2>1, <3>1, JoinedAppend, ConcatProperties DEF Text
  <2>6. Read(flush(acc)) = (Joined(ps) \o Said(p)) \o <<>>
    BY <2>4, <2>5, SaidTyped DEF Read
  <2>7. (Joined(ps) \o Said(p)) \o <<>> = Joined(ps) \o Said(p)
    BY <2>5, ConcatEmptySeq DEF Text
  <2> QED
    BY <2>1, <2>4, <2>6, <2>7 DEF Read
<1> QED
  BY <1>2, <1>3

LEMMA TextAssociative ==
    ASSUME NEW a \in Text, NEW b \in Text, NEW c \in Text
    PROVE  a \o (b \o c) = (a \o b) \o c
BY ConcatAssociative DEF Text

(* So is a token that is kept. *)
LEMMA KeepReads ==
    ASSUME NEW acc \in Splits, NEW t \in STRING, NEW q \in Quotes \cup {""}
    PROVE  keep(acc, t, q) \in Splits /\ Read(keep(acc, t, q)) = Read(acc) \o Said(<<t>>)
<1>1. acc.parts \in Seq(Text) /\ acc.cur \in Text /\ acc.inQuote \in Quotes \cup {""}
  BY DEF Splits
<1>2. PICK p, u : p = acc.cur /\ u = <<t>>
  OBVIOUS
<1>3. u \in Text /\ p \in Text /\ Append(p, t) = p \o u /\ Append(p, t) \in Text
  BY <1>1, <1>2, Single, AppendIsConcat, AppendProperties DEF Text
<1>4. /\ keep(acc, t, q) \in Splits /\ keep(acc, t, q).cur = Append(p, t)
      /\ keep(acc, t, q).parts = acc.parts
  BY <1>1, <1>2, <1>3 DEF keep, Splits
<1>5. Said(p \o u) = Said(p) \o Said(u)
  BY <1>3, SaidConcat
<1>6. PICK a, b, c \in Text : a = Joined(acc.parts) /\ b = Said(p) /\ c = Said(u)
  BY <1>1, <1>3, JoinedTyped, SaidTyped
<1>7. a \o (b \o c) = (a \o b) \o c
  BY TextAssociative
<1> QED
  BY <1>2, <1>3, <1>4, <1>5, <1>6, <1>7 DEF Read

LEMMA TokenReads ==
    ASSUME NEW acc \in Splits, NEW t \in STRING
    PROVE  /\ splitToken(acc, t) \in Splits
           /\ Read(splitToken(acc, t)) = Read(acc) \o Said(<<t>>)
<1>1. acc.inQuote \in Quotes \cup {""}
  BY DEF Splits
<1>2. CASE acc.inQuote # ""
  BY <1>1, <1>2, KeepReads DEF splitToken
<1>3. CASE acc.inQuote = "" /\ t \in Quotes
  <2>1. splitToken(acc, t) = keep(acc, t, t)
    BY <1>3 DEF splitToken, Quotes, Blank
  <2> QED
    BY <1>3, <2>1, KeepReads
<1>4. CASE acc.inQuote = "" /\ t \notin Quotes /\ t = Blank
  <2>1. splitToken(acc, t) = flush(acc)
    BY <1>4 DEF splitToken
  <2>2. Said(<<t>>) = <<>>
    BY <1>4, SaidTyped DEF Marks
  <2>3. Read(acc) \in Text
    <3>1. Joined(acc.parts) \in Text /\ Said(acc.cur) \in Text
      BY JoinedTyped, SaidTyped DEF Splits
    <3> QED
      BY <3>1, ConcatProperties DEF Read, Text
  <2>4. Read(acc) \o <<>> = Read(acc)
    BY <2>3, ConcatEmptySeq DEF Text
  <2> QED
    BY <2>1, <2>2, <2>4, FlushKeeps
<1>5. CASE acc.inQuote = "" /\ t \notin Quotes /\ t # Blank
  <2>1. splitToken(acc, t) = keep(acc, t, "")
    BY <1>5 DEF splitToken
  <2> QED
    BY <2>1, KeepReads
<1> QED
  BY <1>2, <1>3, <1>4, <1>5

SplitStep == [x \in Splits \X STRING |-> splitToken(x[1], x[2])]
NoSplit   == [parts |-> <<>>, cur |-> <<>>, inQuote |-> ""]

LEMMA SplitIsStep == IsStep(Splits, STRING, SplitStep)
BY TokenReads DEF IsStep, SplitStep

(* The loop reads everything. *)
LEMMA SplitReads ==
    \A s \in Text : \A acc \in Splits :
        /\ Scan(Splits, STRING, SplitStep, acc, s) \in Splits
        /\ Read(Scan(Splits, STRING, SplitStep, acc, s)) = Read(acc) \o Said(s)
<1> DEFINE Scanned(acc, s) == Scan(Splits, STRING, SplitStep, acc, s)
           G == {s \in Text : \A acc \in Splits :
                    /\ Scanned(acc, s) \in Splits
                    /\ Read(Scanned(acc, s)) = Read(acc) \o Said(s)}
<1>0. ASSUME NEW acc \in Splits PROVE Read(acc) \in Text
  <2>1. Joined(acc.parts) \in Text /\ Said(acc.cur) \in Text
    BY JoinedTyped, SaidTyped DEF Splits
  <2> QED
    BY <2>1, ConcatProperties DEF Read, Text
<1>1. <<>> \in G
  <2>1. \A acc \in Splits : Scanned(acc, <<>>) = acc
    BY SplitIsStep, ScanSteps
  <2>2. \A acc \in Splits : Read(acc) \o <<>> = Read(acc)
    BY <1>0, ConcatEmptySeq DEF Text
  <2>3. <<>> \in Text /\ Said(<<>>) = <<>>
    BY SaidTyped, Single DEF Text
  <2> QED
    BY <2>1, <2>2, <2>3
<1>2. ASSUME NEW s \in Text, s # <<>>, Tail(s) \in G
      PROVE  s \in G
  <2> SUFFICES ASSUME NEW acc \in Splits
               PROVE  /\ Scanned(acc, s) \in Splits
                      /\ Read(Scanned(acc, s)) = Read(acc) \o Said(s)
    OBVIOUS
  <2>1. PICK t, f : t = Head(s) /\ f = Tail(s)
    OBVIOUS
  <2>2. t \in STRING /\ f \in Text /\ <<t>> \in Text /\ s = <<t>> \o f
    BY <1>2, <2>1, HeadTailProperties, Single DEF Text
  <2>3. PICK b : b = splitToken(acc, t)
    OBVIOUS
  <2>4. b \in Splits /\ Read(b) = Read(acc) \o Said(<<t>>) /\ SplitStep[<<acc, t>>] = b
    BY <2>2, <2>3, TokenReads DEF SplitStep
  <2>5. Scanned(acc, s) = Scanned(SplitStep[<<acc, Head(s)>>], Tail(s))
    BY <1>2, SplitIsStep, ScanSteps DEF Text
  <2>6. Scanned(b, f) \in Splits /\ Read(Scanned(b, f)) = Read(b) \o Said(f)
    BY <1>2, <2>1, <2>4
  <2>7. Said(s) = Said(<<t>>) \o Said(f)
    BY <2>2, SaidConcat
  <2>8. (Read(acc) \o Said(<<t>>)) \o Said(f) = Read(acc) \o (Said(<<t>>) \o Said(f))
    BY <1>0, <2>2, SaidTyped, TextAssociative
  <2> QED
    BY <2>1, <2>4, <2>5, <2>6, <2>7, <2>8
<1>3. Text \subseteq G
  <2> HIDE DEF G
  <2> QED
    BY <1>1, <1>2, TailInduction DEF Text
<1> QED
  BY <1>3

(* The parts of a line say what the line says. *)
LEMMA SplitKeeps ==
    ASSUME NEW s \in Text
    PROVE  /\ splitGitCommand(s) \in Seq(Text)
           /\ Joined(splitGitCommand(s)) = Said(s)
<1>1. PICK acc : acc = Scan(Splits, STRING, SplitStep, NoSplit, s)
  OBVIOUS
<1>2. NoSplit \in Splits /\ Read(NoSplit) = <<>>
  <2>1. <<>> \in Seq(Text) /\ <<>> \in Text
    BY Single DEF Text
  <2>2. NoSplit \in Splits /\ NoSplit.parts = <<>> /\ NoSplit.cur = <<>>
    BY <2>1 DEF NoSplit, Splits
  <2> QED
    BY <2>1, <2>2, JoinedTyped, SaidTyped, ConcatEmptySeq DEF Read
<1>3. acc \in Splits /\ Read(acc) = <<>> \o Said(s) /\ Said(s) \in Text
  BY <1>1, <1>2, SplitReads, SaidTyped
<1>4. <<>> \o Said(s) = Said(s)
  BY <1>3, ConcatEmptySeq DEF Text
<1>5. flush(acc) \in Splits /\ flush(acc).cur = <<>> /\ Read(flush(acc)) = Read(acc)
  BY <1>3, FlushKeeps
<1>6. PICK ps : ps = flush(acc).parts
  OBVIOUS
<1>7. ps \in Seq(Text) /\ Joined(ps) \in Text
  BY <1>5, <1>6, JoinedTyped DEF Splits
<1>8. Read(flush(acc)) = Joined(ps)
  <2>1. Joined(ps) \o <<>> = Joined(ps)
    BY <1>7, ConcatEmptySeq DEF Text
  <2> QED
    BY <1>5, <1>6, <2>1, SaidTyped DEF Read
<1>9. splitGitCommand(s) = ps
  BY <1>1, <1>6 DEF splitGitCommand, SplitStep, NoSplit
<1> QED
  BY <1>3, <1>4, <1>5, <1>7, <1>8, <1>9

-----------------------------------------------------------------------------
(* Parsing.                                                                *)

LEMMA AppendFrontLast ==
    ASSUME NEW B, NEW s \in Seq(B), NEW e \in B
    PROVE  Front(Append(s, e)) = s /\ Last(Append(s, e)) = e
<1>1. PICK ps : ps = Append(s, e)
  OBVIOUS
<1>2. /\ Len(s) \in Nat /\ Len(ps) = Len(s) + 1 /\ ps[Len(s) + 1] = e
      /\ \A i \in 1 .. Len(s) : ps[i] = s[i]
  BY <1>1, AppendProperties, LenProperties
<1>3. Last(ps) = e
  BY <1>2 DEF Last
<1>4. Front(ps) = s
  <2>1. \A i \in 1 .. Len(s) : ps[i] \in B
    BY <1>2, ElementOfSeq
  <2>2. /\ SubSeq(ps, 1, Len(s)) \in Seq(B) /\ Len(SubSeq(ps, 1, Len(s))) = Len(s)
        /\ \A i \in 1 .. Len(s) : SubSeq(ps, 1, Len(s))[i] = s[i]
    BY <1>2, <2>1, SubSeqProperties
  <2>3. SubSeq(ps, 1, Len(s)) = s
    BY <2>2, SeqEqual
  <2> QED
    BY <1>2, <2>3 DEF Front
<1> QED
  BY <1>1, <1>3, <1>4

LEMMA FrontAndLast ==
    ASSUME NEW B, NEW ps \in Seq(B), ps # <<>>
    PROVE  Front(ps) \in Seq(B) /\ Last(ps) \in B /\ ps = Append(Front(ps), Last(ps))
<1>1. PICK s \in Seq(B), e \in B : ps = Append(s, e)
  BY SequenceEmptyOrAppend
<1> QED
  BY <1>1, AppendFrontLast

(* A word says itself, and words in a row say the words in a row. *)
LEMMA SaidWord ==
    ASSUME NEW t, t \notin Marks, <<t>> \in Text
    PROVE  Said(<<t>>) = <<t>>
<1>1. t \in STRING
  BY HeadTailProperties DEF Text
<1> QED
  BY <1>1, SaidTyped

LEMMA JoinedOne ==
    ASSUME NEW t, t \notin Marks, NEW ps \in Seq(Text), ps = <<<<t>>>>
    PROVE  Joined(ps) = <<t>>
<1>1. <<t>> \in Text
  BY ElementOfSeq
<1> QED
  BY <1>1, JoinedTyped, SaidWord

LEMMA Pair ==
    ASSUME NEW B, NEW a \in B, NEW b \in B
    PROVE  <<a>> \o <<b>> = <<a, b>> /\ <<a, b>> \in Seq(B)
<1>1. <<a>> \in Seq(B) /\ <<b>> \in Seq(B) /\ <<a, b>> \in Seq(B)
  OBVIOUS
<1>2. <<a>> \o <<b>> \in Seq(B) /\ Len(<<a>> \o <<b>>) = 2
      /\ (<<a>> \o <<b>>)[1] = a /\ (<<a>> \o <<b>>)[2] = b
  BY <1>1, ConcatProperties
<1>3. \A i \in 1 .. 2 : (<<a>> \o <<b>>)[i] = <<a, b>>[i]
  <2>1. \A i \in 1 .. 2 : i = 1 \/ i = 2
    OBVIOUS
  <2> QED
    BY <1>2, <2>1
<1> QED
  BY <1>1, <1>2, <1>3, SeqEqual

LEMMA JoinedTwo ==
    ASSUME NEW t, NEW u, t \notin Marks, u \notin Marks,
           NEW ps \in Seq(Text), ps = <<<<t>>, <<u>>>>
    PROVE  Joined(ps) = <<t, u>>
<1>1. <<t>> \in Text /\ <<u>> \in Text
  BY ElementOfSeq
<1>2. PICK p, r : p = <<t>> /\ r = <<u>>
  OBVIOUS
<1>3. /\ <<p>> \in Seq(Text) /\ <<r>> \in Seq(Text)
      /\ <<p>> \o <<r>> = <<p, r>> /\ ps = <<p, r>>
  BY <1>1, <1>2, Single, Pair
<1>4. Joined(ps) = Joined(<<p>>) \o Joined(<<r>>)
  <2>1. Joined(<<p>> \o <<r>>) = Joined(<<p>>) \o Joined(<<r>>)
    BY <1>3, JoinedTyped, Zenon
  <2>2. ps = <<p>> \o <<r>>
    BY <1>3
  <2> QED
    BY <2>1, <2>2, Zenon
<1>5. Joined(<<p>>) = <<t>> /\ Joined(<<r>>) = <<u>>
  BY <1>2, <1>3, JoinedOne
<1>6. <<t>> \o <<u>> = <<t, u>>
  <2>1. t \in STRING /\ u \in STRING
    BY <1>1, HeadTailProperties DEF Text
  <2> QED
    BY <2>1, Pair
<1> QED
  BY <1>4, <1>5, <1>6

(* The words of a service. *)
Words == [fetch |-> {<<"git-upload-pack">>, <<"git", "upload-pack">>},
          push  |-> {<<"git-receive-pack">>, <<"git", "receive-pack">>}]

LEMMA ServiceWords ==
    ASSUME NEW words \in Seq(Text), words \in DOMAIN Services
    PROVE  \/ Services[words] = "fetch" /\ Joined(words) \in Words.fetch
           \/ Services[words] = "push" /\ Joined(words) \in Words.push
<1>1. /\ "git" \notin Marks /\ "upload-pack" \notin Marks /\ "receive-pack" \notin Marks
      /\ "git-upload-pack" \notin Marks /\ "git-receive-pack" \notin Marks
  BY DEF Marks, Quotes, Blank
<1>2. CASE words \in FetchWords
  <2>1. words = <<<<"git-upload-pack">>>> \/ words = <<<<"git">>, <<"upload-pack">>>>
    BY <1>2 DEF FetchWords
  <2>2. Joined(words) \in Words.fetch
    BY <1>1, <2>1, JoinedOne, JoinedTwo DEF Words
  <2> QED
    BY <1>2, <2>2 DEF Services
<1>3. CASE words \in PushWords /\ words \notin FetchWords
  <2>1. words = <<<<"git-receive-pack">>>> \/ words = <<<<"git">>, <<"receive-pack">>>>
    BY <1>3 DEF PushWords
  <2>2. Joined(words) \in Words.push
    BY <1>1, <2>1, JoinedOne, JoinedTwo DEF Words
  <2> QED
    BY <1>3, <2>2 DEF Services
<1> QED
  BY <1>2, <1>3 DEF Services

(* A line that is accepted says a service and the argument of the command. *)
THEOREM ParsedSays ==
    ASSUME NEW line \in Text, NEW allowed,
           NEW parsed, parsed = parseGitSSHCommand(line, allowed), parsed # Refused
    PROVE  \E op \in {"fetch", "push"} : \E w \in Words[op] :
               /\ parsed.service = op
               /\ Said(line) = w \o Said(TrimSpace(parsed.repo))
<1>1. PICK parts, words, last :
          /\ parts = splitGitCommand(TrimSpace(line))
          /\ words = Front(parts) /\ last = Last(parts)
  OBVIOUS
<1>2. /\ parts # <<>> /\ words \in DOMAIN Services
      /\ parsed.service = Services[words] /\ parsed.repo = stripQuotes(last)
  BY <1>1 DEF parseGitSSHCommand
<1>3. parts \in Seq(Text) /\ Joined(parts) = Said(line)
  BY <1>1, TrimKeeps, SplitKeeps
<1>4. words \in Seq(Text) /\ last \in Text /\ parts = Append(words, last)
  BY <1>1, <1>2, <1>3, FrontAndLast
<1>5. Said(line) = Joined(words) \o Said(last)
  BY <1>3, <1>4, JoinedAppend
<1>6. Said(TrimSpace(parsed.repo)) = Said(last)
  BY <1>2, <1>4, StripKeeps, TrimKeeps
<1>7. \/ parsed.service = "fetch" /\ Joined(words) \in Words["fetch"]
      \/ parsed.service = "push" /\ Joined(words) \in Words["push"]
  BY <1>2, <1>4, ServiceWords
<1> QED
  BY <1>5, <1>6, <1>7

-----------------------------------------------------------------------------
(* Lines with the argument in quotes.                                      *)

(* A text without blanks at its ends is trimmed. *)
LEMMA TrimNone ==
    ASSUME NEW s \in Text, s # <<>>, s[1] # Blank, s[Len(s)] # Blank
    PROVE  TrimSpace(s) = s
<1>1. PICK text : text = {i \in DOMAIN s : s[i] # Blank}
  OBVIOUS
<1>2. Len(s) \in Nat /\ Len(s) >= 1 /\ DOMAIN s = 1 .. Len(s)
  BY LenProperties, EmptySeq DEF Text
<1>3. 1 \in text /\ Len(s) \in text /\ text \subseteq 1 .. Len(s)
  BY <1>1, <1>2
<1>4. Min(text) = 1
  <2>1. \E i \in text : \A j \in text : i <= j
    BY <1>2, <1>3
  <2>2. Min(text) \in text /\ \A j \in text : Min(text) <= j
    BY <2>1 DEF Min
  <2>3. PICK m : m = Min(text)
    OBVIOUS
  <2>4. m \in 1 .. Len(s) /\ m <= 1
    BY <1>3, <2>2, <2>3
  <2>5. m = 1
    BY <1>2, <2>4
  <2> QED
    BY <2>3, <2>5
<1>5. Max(text) = Len(s)
  <2>1. \E i \in text : \A j \in text : i >= j
    BY <1>2, <1>3
  <2>2. Max(text) \in text /\ \A j \in text : Max(text) >= j
    BY <2>1 DEF Max
  <2>3. PICK m : m = Max(text)
    OBVIOUS
  <2>4. m \in 1 .. Len(s) /\ m >= Len(s)
    BY <1>3, <2>2, <2>3
  <2>5. \A n \in Nat : m \in 1 .. n /\ m >= n => m = n
    OBVIOUS
  <2>6. m = Len(s)
    BY <1>2, <2>4, <2>5
  <2> QED
    BY <2>3, <2>6
<1>6. TrimSpace(s) = SubSeq(s, 1, Len(s))
  BY <1>1, <1>3, <1>4, <1>5 DEF TrimSpace
<1> QED
  BY <1>6, SubSeqFull DEF Text

Splitting(ps, c, q) == [parts |-> ps, cur |-> c, inQuote |-> q]

(* One token is split. *)
LEMMA SplitNext ==
    ASSUME NEW acc \in Splits, NEW s \in Text, s # <<>>
    PROVE  Scan(Splits, STRING, SplitStep, acc, s) =
           Scan(Splits, STRING, SplitStep, splitToken(acc, Head(s)), Tail(s))
<1>1. Head(s) \in STRING
  BY HeadTailProperties DEF Text
<1>2. SplitStep[<<acc, Head(s)>>] = splitToken(acc, Head(s))
  BY <1>1 DEF SplitStep
<1>3. Scan(Splits, STRING, SplitStep, acc, s) =
      Scan(Splits, STRING, SplitStep, SplitStep[<<acc, Head(s)>>], Tail(s))
  BY SplitIsStep, ScanSteps DEF Text
<1> QED
  BY <1>2, <1>3

(* Within quotes everything is kept up to the quote that ends them. *)
LEMMA QuotedIsKept ==
    ASSUME NEW ps \in Seq(Text), NEW q \in Quotes
    PROVE  \A s \in Text : \A c \in Text :
               (\A i \in 1 .. Len(s) : s[i] # q) =>
                   Scan(Splits, STRING, SplitStep, Splitting(ps, c, q), s) =
                   Splitting(ps, c \o s, q)
<1> DEFINE Scanned(c, s) == Scan(Splits, STRING, SplitStep, Splitting(ps, c, q), s)
           G == {s \in Text : \A c \in Text :
                    (\A i \in 1 .. Len(s) : s[i] # q) =>
                        Scanned(c, s) = Splitting(ps, c \o s, q)}
<1>0. \A c \in Text : Splitting(ps, c, q) \in Splits
  BY DEF Splitting, Splits
<1>1. <<>> \in G
  <2>1. \A c \in Text : Scanned(c, <<>>) = Splitting(ps, c, q)
    BY <1>0, SplitIsStep, ScanSteps
  <2>2. \A c \in Text : c \o <<>> = c
    BY ConcatEmptySeq DEF Text
  <2>3. <<>> \in Text
    BY Single DEF Text
  <2> QED
    BY <2>1, <2>2, <2>3
<1>2. ASSUME NEW s \in Text, s # <<>>, Tail(s) \in G
      PROVE  s \in G
  <2> SUFFICES ASSUME NEW c \in Text, \A i \in 1 .. Len(s) : s[i] # q
               PROVE  Scanned(c, s) = Splitting(ps, c \o s, q)
    OBVIOUS
  <2>1. /\ Head(s) \in STRING /\ Tail(s) \in Text /\ Head(s) = s[1] /\ Len(s) \in Nat \ {0}
        /\ Len(Tail(s)) = Len(s) - 1 /\ \A i \in 1 .. Len(Tail(s)) : Tail(s)[i] = s[i + 1]
    BY <1>2, HeadTailProperties, EmptySeq DEF Text
  <2>2. Head(s) # q /\ \A i \in 1 .. Len(Tail(s)) : Tail(s)[i] # q
    BY <2>1
  <2>3. Append(c, Head(s)) \in Text
    BY <2>1, AppendProperties DEF Text
  <2>4. splitToken(Splitting(ps, c, q), Head(s)) = Splitting(ps, Append(c, Head(s)), q)
    BY <2>2 DEF splitToken, keep, Splitting, Quotes
  <2>5. Scanned(c, s) = Scanned(Append(c, Head(s)), Tail(s))
    BY <1>0, <1>2, <2>4, SplitNext
  <2>6. Scanned(Append(c, Head(s)), Tail(s)) =
        Splitting(ps, Append(c, Head(s)) \o Tail(s), q)
    BY <1>2, <2>2, <2>3
  <2>7. Append(c, Head(s)) \o Tail(s) = c \o s
    BY <1>2, AppendConcat DEF Text
  <2> QED
    BY <2>5, <2>6, <2>7
<1>3. Text \subseteq G
  <2> HIDE DEF G
  <2> QED
    BY <1>1, <1>2, TailInduction DEF Text
<1> QED
  BY <1>3

(* The tokens of two texts in a row, and of a part of a text. *)
LEMMA TextEntries ==
    /\ \A a, b \in Text :
          /\ a \o b \in Text /\ Len(a \o b) = Len(a) + Len(b)
          /\ \A i \in 1 .. Len(a) : (a \o b)[i] = a[i]
          /\ \A i \in 1 .. Len(b) : (a \o b)[Len(a) + i] = b[i]
    /\ \A p \in Text : \A m, n \in Nat :
          m >= 1 /\ m <= n + 1 /\ n <= Len(p) =>
              /\ SubSeq(p, m, n) \in Text /\ Len(SubSeq(p, m, n)) = n - m + 1
              /\ \A i \in 1 .. n - m + 1 : SubSeq(p, m, n)[i] = p[m + i - 1]
<1>1. \A a, b \in Seq(STRING) :
          /\ a \o b \in Seq(STRING) /\ Len(a \o b) = Len(a) + Len(b)
          /\ \A i \in 1 .. Len(a) : (a \o b)[i] = a[i]
          /\ \A i \in 1 .. Len(b) : (a \o b)[Len(a) + i] = b[i]
  BY ConcatEntries
<1>2. ASSUME NEW p \in Seq(STRING), NEW m \in Nat, NEW n \in Nat,
             m >= 1, m <= n + 1, n <= Len(p)
      PROVE  /\ SubSeq(p, m, n) \in Seq(STRING) /\ Len(SubSeq(p, m, n)) = n - m + 1
             /\ \A i \in 1 .. n - m + 1 : SubSeq(p, m, n)[i] = p[m + i - 1]
  BY <1>2, SubSeqEntries
<1> QED
  BY <1>1, <1>2 DEF Text

(* What stands in quotes is what stripQuotes leaves of it. *)
LEMMA Unquoted ==
    ASSUME NEW arg \in Text, NEW q \in Quotes, NEW u, u = (<<q>> \o arg) \o <<q>>
    PROVE  u \in Text /\ u # <<>> /\ stripQuotes(u) = arg
<1>0. PICK h : h = <<q>>
  OBVIOUS
<1>1. q \in STRING /\ q # Blank /\ h \in Text /\ Len(h) = 1 /\ h[1] = q
  BY <1>0, TokensAreStrings, Single DEF Text, Quotes, Blank
<1>2. PICK n, b : n = Len(arg) /\ b = h \o arg
  OBVIOUS
<1>3. n \in Nat
  BY <1>2, LenProperties DEF Text
<1>4. /\ b \in Text /\ Len(b) = n + 1
      /\ b[1] = q /\ \A i \in 1 .. n : b[1 + i] = arg[i]
  <2>1. /\ b \in Text /\ Len(b) = 1 + n
        /\ \A i \in 1 .. 1 : b[i] = h[i]
        /\ \A i \in 1 .. n : b[1 + i] = arg[i]
    <3>1. /\ h \o arg \in Text /\ Len(h \o arg) = Len(h) + Len(arg)
          /\ \A i \in 1 .. Len(h) : (h \o arg)[i] = h[i]
          /\ \A i \in 1 .. Len(arg) : (h \o arg)[Len(h) + i] = arg[i]
      BY <1>1, TextEntries
    <3> QED
      BY <1>1, <1>2, <3>1, Zenon
  <2>2. 1 \in 1 .. 1 /\ 1 + n = n + 1
    BY <1>3
  <2> QED
    BY <1>1, <2>1, <2>2
<1>5. /\ u \in Text /\ Len(u) = (n + 1) + 1
      /\ \A i \in 1 .. n + 1 : u[i] = b[i]
      /\ u[(n + 1) + 1] = q
  <2>1. /\ u \in Text /\ Len(u) = (n + 1) + 1
        /\ \A i \in 1 .. n + 1 : u[i] = b[i]
        /\ \A i \in 1 .. 1 : u[(n + 1) + i] = h[i]
    <3>1. u = b \o h /\ n + 1 = Len(b) /\ 1 = Len(h)
      BY <1>0, <1>1, <1>2, <1>4
    <3> QED
      <4>1. /\ b \o h \in Text /\ Len(b \o h) = Len(b) + Len(h)
            /\ \A i \in 1 .. Len(b) : (b \o h)[i] = b[i]
            /\ \A i \in 1 .. Len(h) : (b \o h)[Len(b) + i] = h[i]
        BY <1>1, <1>4, TextEntries
      <4> QED
        BY <3>1, <4>1, Zenon
  <2>2. 1 \in 1 .. 1
    OBVIOUS
  <2> QED
    BY <1>1, <2>1, <2>2
<1>6. /\ u # <<>> /\ u[1] = q /\ u[n + 2] = q /\ Len(u) = n + 2
      /\ \A i \in 1 .. n : u[1 + i] = arg[i]
  <2>1. (n + 1) + 1 = n + 2 /\ n + 2 # 0 /\ 1 \in 1 .. n + 1
    BY <1>3
  <2>2. \A i \in 1 .. n : 1 + i \in 1 .. n + 1
    BY <1>3
  <2> QED
    BY <1>4, <1>5, <2>1, <2>2, EmptySeq DEF Text
<1>7. TrimSpace(u) = u
  BY <1>1, <1>5, <1>6, TrimNone
<1>8. SubSeq(u, 2, n + 1) = arg
  <2>1. PICK s : s = SubSeq(u, 2, n + 1)
    OBVIOUS
  <2>2. 2 \in Nat /\ n + 1 \in Nat /\ 2 <= (n + 1) + 1 /\ n + 1 <= Len(u) /\ (n + 1) - 2 + 1 = n
    BY <1>3, <1>6
  <2>3. s \in Text /\ Len(s) = n /\ \A i \in 1 .. n : s[i] = u[2 + i - 1]
    <3>1. /\ s \in Text /\ Len(s) = (n + 1) - 2 + 1
          /\ \A i \in 1 .. (n + 1) - 2 + 1 : s[i] = u[2 + i - 1]
      <4>1. 2 >= 1
        OBVIOUS
      <4>2. /\ SubSeq(u, 2, n + 1) \in Text /\ Len(SubSeq(u, 2, n + 1)) = (n + 1) - 2 + 1
            /\ \A i \in 1 .. (n + 1) - 2 + 1 : SubSeq(u, 2, n + 1)[i] = u[2 + i - 1]
        BY <1>5, <2>2, <4>1, TextEntries
      <4> QED
        BY <2>1, <4>2, Zenon
    <3> QED
      BY <2>2, <3>1, Zenon
  <2>4. ASSUME NEW i \in 1 .. n PROVE s[i] = arg[i]
    <3>1. 2 + i - 1 = 1 + i
      BY <1>3
    <3> QED
      BY <1>6, <2>3, <3>1
  <2>5. s = arg
    BY <1>2, <2>3, <2>4, SeqEqual DEF Text
  <2> QED
    BY <2>1, <2>5
<1>9. Len(u) >= 2 /\ Head(u) = q /\ Last(u) = q /\ Len(u) - 1 = n + 1
  BY <1>3, <1>5, <1>6 DEF Last, Text
<1> QED
  BY <1>5, <1>6, <1>7, <1>8, <1>9 DEF stripQuotes

(* Three tokens, one after the other. *)
ReadInTurn(B, a, b, c) ==
    \E s3, s2, s1 \in Seq(B) :
        /\ s3 = <<a, b, c>> /\ s3 # <<>> /\ Head(s3) = a /\ Tail(s3) = s2
        /\ s2 # <<>> /\ Head(s2) = b /\ Tail(s2) = s1
        /\ s1 # <<>> /\ Head(s1) = c /\ Tail(s1) = <<>>

LEMMA Triple ==
    ASSUME NEW B, NEW a \in B, NEW b \in B, NEW c \in B
    PROVE  ReadInTurn(B, a, b, c)
<1>1. /\ <<a, b, c>> \in Seq(B) /\ <<b, c>> \in Seq(B) /\ <<c>> \in Seq(B)
      /\ <<a, b, c>> # <<>> /\ Head(<<a, b, c>>) = a /\ Tail(<<a, b, c>>) = <<b, c>>
      /\ <<b, c>> # <<>> /\ Head(<<b, c>>) = b /\ Tail(<<b, c>>) = <<c>>
      /\ <<c>> # <<>> /\ Head(<<c>>) = c /\ Tail(<<c>>) = <<>>
  OBVIOUS
<1> QED
  BY <1>1, Zenon DEF ReadInTurn

LEMMA AppendOne ==
    ASSUME NEW B, NEW a \in B, NEW b \in B PROVE Append(<<a>>, b) = <<a, b>>
BY Single, Pair, AppendIsConcat

LEMMA SplitThree ==
    ASSUME NEW acc \in Splits, NEW a \in STRING, NEW b \in STRING, NEW c \in STRING
    PROVE  Scan(Splits, STRING, SplitStep, acc, <<a, b, c>>) =
           splitToken(splitToken(splitToken(acc, a), b), c)
<1> DEFINE Scanned(x, s) == Scan(Splits, STRING, SplitStep, x, s)
<1>1. ASSUME NEW x \in Splits, NEW t \in STRING
      PROVE  splitToken(x, t) \in Splits
  <2>1. <<x, t>> \in Splits \X STRING
    OBVIOUS
  <2>2. SplitStep[<<x, t>>] \in Splits
    BY <2>1, SplitIsStep DEF IsStep
  <2>3. SplitStep[<<x, t>>] = splitToken(x, t)
    BY <2>1 DEF SplitStep
  <2> QED
    BY <2>2, <2>3
<1>2. PICK s3, s2, s1 \in Text :
          /\ s3 = <<a, b, c>> /\ s3 # <<>> /\ Head(s3) = a /\ Tail(s3) = s2
          /\ s2 # <<>> /\ Head(s2) = b /\ Tail(s2) = s1
          /\ s1 # <<>> /\ Head(s1) = c /\ Tail(s1) = <<>>
  <2>1. ReadInTurn(STRING, a, b, c)
    BY Triple
  <2> QED
    BY <2>1, Zenon DEF ReadInTurn, Text
<1>3. PICK x1, x2, x3 \in Splits :
          x1 = splitToken(acc, a) /\ x2 = splitToken(x1, b) /\ x3 = splitToken(x2, c)
  BY <1>1
<1>4. \A x \in Splits : \A s \in Text :
          s # <<>> => Scanned(x, s) = Scanned(splitToken(x, Head(s)), Tail(s))
  BY SplitNext
<1> HIDE DEF Scanned
<1>5. Scanned(acc, s3) = Scanned(x1, s2) /\ Scanned(x1, s2) = Scanned(x2, s1)
  <2>1. s3 \in Text /\ s3 # <<>> /\ Head(s3) = a /\ Tail(s3) = s2
    BY <1>2
  <2>2. s2 \in Text /\ s2 # <<>> /\ Head(s2) = b /\ Tail(s2) = s1
    BY <1>2
  <2>3. /\ Scanned(acc, s3) = Scanned(splitToken(acc, Head(s3)), Tail(s3))
        /\ Scanned(x1, s2) = Scanned(splitToken(x1, Head(s2)), Tail(s2))
    BY <1>4, <2>1, <2>2, Zenon
  <2> QED
    BY <1>3, <2>1, <2>2, <2>3, Zenon
<1>6. Scanned(x2, s1) = Scanned(x3, <<>>)
  <2>1. s1 \in Text /\ s1 # <<>> /\ Head(s1) = c /\ Tail(s1) = <<>>
    BY <1>2
  <2>2. Scanned(x2, s1) = Scanned(splitToken(x2, Head(s1)), Tail(s1))
    BY <1>4, <2>1, Zenon
  <2> QED
    BY <1>3, <2>1, <2>2, Zenon
<1>7. \A x \in Splits : Scanned(x, <<>>) = x
  BY SplitIsStep, ScanSteps DEF Scanned
<1> QED
  BY <1>2, <1>3, <1>5, <1>6, <1>7 DEF Scanned

(* A service and an argument in quotes are two parts. *)
LEMMA SplitQuoted ==
    ASSUME NEW svc \in STRING, svc \notin Marks, NEW q \in Quotes,
           NEW arg \in Text, \A i \in 1 .. Len(arg) : arg[i] # q
    PROVE  splitGitCommand(<<svc, Blank, q>> \o arg \o <<q>>) =
           <<<<svc>>, <<q>> \o arg \o <<q>>>>
<1>1. q \in STRING /\ Blank \in STRING /\ q # Blank /\ q # "" /\ svc \notin Quotes /\ svc # Blank
  BY TokensAreStrings DEF Quotes, Blank, Marks
<1>2. PICK none : none = Splitting(<<>>, <<>>, "")
  OBVIOUS
<1>3. PICK word : word = <<svc>>
  OBVIOUS
<1>4. PICK h, end, b : h = <<svc, Blank, q>> /\ end = <<q>> /\ b = end \o arg
  OBVIOUS
<1>5. /\ word \in Text /\ <<>> \in Text /\ <<>> \in Seq(Text) /\ <<word>> \in Seq(Text)
      /\ h \in Text /\ end \in Text /\ b \in Text /\ h \o arg \in Text
  <2>1. word \in Text /\ <<>> \in Text /\ end \in Text
    BY <1>1, <1>3, <1>4, Single DEF Text
  <2>2. h \in Text
    <3>1. ReadInTurn(STRING, svc, Blank, q)
      BY <1>1, Triple
    <3> QED
      BY <1>4, <3>1, Zenon DEF ReadInTurn, Text
  <2> QED
    BY <1>4, <2>1, <2>2, Single, TextEntries
<1>6. \A ps \in Seq(Text), c \in Text, r \in Quotes \cup {""} : Splitting(ps, c, r) \in Splits
  BY DEF Splitting, Splits
<1> DEFINE Scanned(acc, s) == Scan(Splits, STRING, SplitStep, acc, s)
<1>16. \A acc \in Splits : Scanned(acc, <<>>) = acc
  BY SplitIsStep, ScanSteps
<1>17. \A acc \in Splits : \A s, t \in Text : Scanned(acc, s \o t) = Scanned(Scanned(acc, s), t)
  BY SplitIsStep, ScanConcat DEF Text
<1>7. Scanned(none, h) = Splitting(<<word>>, end, q)
  <2>3. splitToken(none, svc) = Splitting(<<>>, word, "")
    <3>1. Append(<<>>, svc) = word
      BY <1>3
    <3> QED
      BY <1>1, <1>2, <3>1 DEF splitToken, keep, Splitting
  <2>4. splitToken(Splitting(<<>>, word, ""), Blank) = Splitting(<<word>>, <<>>, "")
    <3>1. Append(<<>>, word) = <<word>> /\ word # <<>>
      BY <1>3
    <3> QED
      BY <3>1 DEF splitToken, flush, Splitting, Quotes, Blank
  <2>5. splitToken(Splitting(<<word>>, <<>>, ""), q) = Splitting(<<word>>, end, q)
    <3>1. Append(<<>>, q) = end
      BY <1>4
    <3> QED
      BY <1>1, <3>1 DEF splitToken, keep, Splitting
  <2>6. Scanned(none, h) = splitToken(splitToken(splitToken(none, svc), Blank), q)
    <3>1. none \in Splits /\ svc \in STRING /\ Blank \in STRING /\ q \in STRING
      BY <1>1, <1>2, <1>5, <1>6
    <3> QED
      BY <1>4, <3>1, SplitThree
  <2> QED
    BY <2>3, <2>4, <2>5, <2>6
<1>8. Scanned(Splitting(<<word>>, end, q), arg) = Splitting(<<word>>, b, q)
  BY <1>4, <1>5, QuotedIsKept
<1>9. Scanned(Splitting(<<word>>, b, q), end) = Splitting(<<word>>, b \o end, "")
  <2>1. end # <<>> /\ Head(end) = q /\ Tail(end) = <<>>
    BY <1>4
  <2>2. splitToken(Splitting(<<word>>, b, q), q) = Splitting(<<word>>, Append(b, q), "")
    BY <1>1 DEF splitToken, keep, Splitting
  <2>3. Append(b, q) = b \o end
    BY <1>1, <1>4, <1>5, AppendIsConcat DEF Text
  <2>4. Scanned(Splitting(<<word>>, b, q), end) = Scanned(Splitting(<<word>>, b \o end, ""), <<>>)
    <3>1. PICK x \in Splits : x = Splitting(<<word>>, b, q)
      BY <1>1, <1>5, <1>6
    <3>2. Scanned(x, end) = Scanned(splitToken(x, Head(end)), Tail(end))
      BY <1>5, <2>1, SplitNext
    <3>3. splitToken(x, Head(end)) = Splitting(<<word>>, b \o end, "")
      BY <2>1, <2>2, <2>3, <3>1, Zenon
    <3> QED
      BY <2>1, <3>1, <3>2, <3>3, Zenon
  <2>5. b \o end \in Text
    BY <1>5, TextEntries
  <2>6. Scanned(Splitting(<<word>>, b \o end, ""), <<>>) = Splitting(<<word>>, b \o end, "")
    BY <1>5, <1>6, <1>16, <2>5
  <2> QED
    BY <2>4, <2>6
<1>10. Scanned(none, (h \o arg) \o end) = Splitting(<<word>>, b \o end, "")
  <2>1. none \in Splits
    BY <1>2, <1>5, <1>6
  <2>2. Scanned(none, (h \o arg) \o end) = Scanned(Scanned(none, h \o arg), end)
    BY <1>5, <1>17, <2>1
  <2>3. Scanned(none, h \o arg) = Scanned(Scanned(none, h), arg)
    BY <1>5, <1>17, <2>1
  <2> HIDE DEF Scanned
  <2> QED
    BY <1>7, <1>8, <1>9, <2>2, <2>3
<1>11. b \o end # <<>>
  <2>1. end # <<>> /\ Len(end) = 1 /\ Len(b) \in Nat
    BY <1>4, <1>5, LenProperties DEF Text
  <2>2. Len(b \o end) = Len(b) + Len(end)
    BY <1>5, TextEntries
  <2>3. Len(b \o end) # 0
    BY <2>1, <2>2
  <2> QED
    BY <2>3, EmptySeq
<1>12. flush(Splitting(<<word>>, b \o end, "")).parts = <<word, b \o end>>
  <2>1. PICK u \in Text : u = b \o end
    BY <1>5, TextEntries
  <2>2. Append(<<word>>, u) = <<word, u>>
    BY <1>5, AppendOne
  <2> QED
    BY <1>11, <2>1, <2>2 DEF flush, Splitting
<1>13. splitGitCommand((h \o arg) \o end) = flush(Scanned(none, (h \o arg) \o end)).parts
  BY <1>2 DEF splitGitCommand, SplitStep, Splitting
<1> HIDE DEF Read
<1>14. splitGitCommand((h \o arg) \o end) = <<word, b \o end>>
  BY <1>10, <1>12, <1>13
<1> QED
  BY <1>3, <1>4, <1>14, Zenon

(* A line with a service and an argument in quotes is that service with    *)
(* that argument, if it is allowed.                                        *)
ServiceName(op) == IF op = "fetch" THEN "git-upload-pack" ELSE "git-receive-pack"

InQuotes(op, q, arg, line) ==
    /\ op \in {"fetch", "push"} /\ q \in Quotes
    /\ arg \in Text /\ arg # <<>> /\ \A i \in 1 .. Len(arg) : arg[i] # q
    /\ line = <<ServiceName(op), Blank, q>> \o arg \o <<q>>

THEOREM ParsedQuoted ==
    ASSUME NEW op, NEW q, NEW arg, NEW line, InQuotes(op, q, arg, line), NEW allowed
    PROVE  parseGitSSHCommand(line, allowed) =
           IF op \in allowed THEN [service |-> op, repo |-> arg] ELSE Refused
<1>0. PICK svc : svc = ServiceName(op)
  OBVIOUS
<1> SUFFICES ASSUME op \in {"fetch", "push"}, q \in Quotes, arg \in Text, arg # <<>>,
                    \A i \in 1 .. Len(arg) : arg[i] # q,
                    svc = IF op = "fetch" THEN "git-upload-pack" ELSE "git-receive-pack",
                    line = <<svc, Blank, q>> \o arg \o <<q>>
             PROVE  parseGitSSHCommand(line, allowed) =
                    IF op \in allowed THEN [service |-> op, repo |-> arg] ELSE Refused
  BY <1>0 DEF InQuotes, ServiceName
<1>1. /\ svc \in STRING /\ Blank \in STRING /\ q \in STRING /\ q # Blank
      /\ svc \notin Marks /\ svc # Blank
  BY TokensAreStrings DEF Quotes, Blank, Marks
<1>2. PICK h, end, b : h = <<svc, Blank, q>> /\ end = <<q>> /\ b = h \o arg
  OBVIOUS
<1>3. h \in Text /\ h[1] = svc /\ Len(h) = 3 /\ end \in Text /\ end[1] = q /\ Len(end) = 1
  <2>1. ReadInTurn(STRING, svc, Blank, q)
    BY <1>1, Triple
  <2>2. h \in Text
    BY <1>2, <2>1, Zenon DEF ReadInTurn, Text
  <2>3. end \in Text
    BY <1>1, <1>2, Single DEF Text
  <2> QED
    BY <1>2, <2>2, <2>3
<1>4. TrimSpace(line) = line
  <2>1. line = b \o end
    BY <1>2
  <2>2. b \in Text /\ Len(b) \in Nat /\ Len(b) >= 3 /\ b[1] = svc
    <3>1. /\ h \o arg \in Text /\ Len(h \o arg) = 3 + Len(arg)
          /\ \A i \in 1 .. 3 : (h \o arg)[i] = h[i]
      <4>1. /\ h \o arg \in Text /\ Len(h \o arg) = Len(h) + Len(arg)
            /\ \A i \in 1 .. Len(h) : (h \o arg)[i] = h[i]
        BY <1>3, TextEntries
      <4> QED
        BY <1>3, <4>1, Zenon
    <3>2. Len(arg) \in Nat /\ 1 \in 1 .. 3
      BY LenProperties DEF Text
    <3> QED
      BY <1>2, <1>3, <3>1, <3>2
  <2>3. /\ line \in Text /\ Len(line) = Len(b) + 1
        /\ \A i \in 1 .. Len(b) : line[i] = b[i]
        /\ \A i \in 1 .. 1 : line[Len(b) + i] = end[i]
    <3>1. /\ b \o end \in Text /\ Len(b \o end) = Len(b) + Len(end)
          /\ \A i \in 1 .. Len(b) : (b \o end)[i] = b[i]
          /\ \A i \in 1 .. Len(end) : (b \o end)[Len(b) + i] = end[i]
      BY <1>3, <2>2, TextEntries
    <3> QED
      BY <1>3, <2>1, <3>1, Zenon
  <2>4. 1 \in 1 .. Len(b) /\ 1 \in 1 .. 1 /\ Len(b) + 1 # 0
    BY <2>2
  <2>5. line # <<>> /\ line[1] = svc /\ line[Len(line)] = q
    BY <1>3, <2>2, <2>3, <2>4, EmptySeq DEF Text
  <2> QED
    BY <1>1, <2>3, <2>5, TrimNone
<1>5. PICK word, u : word = <<svc>> /\ u = <<q>> \o arg \o <<q>>
  OBVIOUS
<1>6. splitGitCommand(line) = <<word, u>>
  BY <1>1, <1>5, SplitQuoted
<1>7. word \in Text /\ u \in Text /\ stripQuotes(u) = arg
  BY <1>1, <1>5, Single, Unquoted DEF Text
<1>8. Front(<<word, u>>) = <<word>> /\ Last(<<word, u>>) = u /\ <<word, u>> # <<>>
  <2>1. Append(<<word>>, u) = <<word, u>>
    BY <1>7, AppendOne
  <2>2. <<word>> \in Seq(Text)
    BY <1>7, Single
  <2> QED
    BY <1>7, <2>1, <2>2, AppendFrontLast
<1>9. <<word>> \in DOMAIN Services /\ Services[<<word>>] = op
  <2>1. CASE op = "fetch"
    BY <1>5, <2>1 DEF Services, FetchWords, PushWords
  <2>2. CASE op = "push"
    <3>1. /\ <<word>>[1][1] = "git-receive-pack"
          /\ <<<<"git-upload-pack">>>>[1][1] = "git-upload-pack"
          /\ <<<<"git">>, <<"upload-pack">>>>[1][1] = "git"
      BY <1>5, <2>2
    <3>2. <<word>> \notin FetchWords
      BY <3>1 DEF FetchWords
    <3>3. <<word>> \in PushWords
      BY <1>5, <2>2 DEF PushWords
    <3> QED
      BY <2>2, <3>2, <3>3 DEF Services
  <2> QED
    BY <2>1, <2>2
<1> QED
  BY <1>4, <1>6, <1>7, <1>8, <1>9 DEF parseGitSSHCommand
=============================================================================
