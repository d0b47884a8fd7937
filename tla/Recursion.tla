------------------------------ MODULE Recursion ------------------------------
(***************************************************************************)
(* Induction, and the unfolding of recursive functions, with sets in the   *)
(* place of predicates and functions in the place of operators: the form   *)
(* in which the provers can use them.                                      *)
(***************************************************************************)
EXTENDS Integers, Scan, SequenceTheorems, WellFoundedInduction, TLAPS

(* A nonempty set of natural numbers has a least element. *)
LEMMA LeastNatural ==
    ASSUME NEW S \in SUBSET Nat, S # {}
    PROVE  \E n \in S : \A m \in S : n <= m
  <1> DEFINE R == OpToRel(<, Nat)
  <1>1. IsWellFoundedOn(R, Nat)
    BY NatLessThanWellFounded
  <1>2. PICK n \in S : \A m \in S : <<m, n>> \notin R
    <2> HIDE DEF R
    <2> QED
      BY <1>1, WFMin
  <1>3. \A m \in S : ~ (m < n)
    BY <1>2 DEF OpToRel
  <1> HIDE DEF R
  <1> QED
    BY <1>3

(* A nonempty set of places has a last one. *)
LEMMA GreatestPlace ==
    ASSUME NEW n \in Nat, NEW S \in SUBSET (1 .. n), S # {}
    PROVE  \E i \in S : \A j \in S : i >= j
  <1> DEFINE D == {d \in Nat : n - d \in S}
  <1>1. D # {}
    <2>1. PICK i \in S : TRUE
      OBVIOUS
    <2>2. n - i \in D
      BY <2>1
    <2> QED
      BY <2>2
  <1>2. PICK d \in D : \A c \in D : d <= c
    BY <1>1, LeastNatural
  <1>3. n - d \in S
    BY <1>2
  <1>4. ASSUME NEW j \in S PROVE n - d >= j
    <2>1. n - j \in D /\ n - j \in Nat
      OBVIOUS
    <2> QED
      BY <1>2, <2>1
  <1> QED
    BY <1>3, <1>4

(* A set of natural numbers that has a number whenever it has all smaller  *)
(* ones has them all.                                                      *)
LEMMA Induction ==
    ASSUME NEW G, \A n \in Nat : (\A m \in Nat : m < n => m \in G) => n \in G
    PROVE  Nat \subseteq G
  <1> SUFFICES ASSUME Nat \ G # {} PROVE FALSE
    OBVIOUS
  <1>1. PICK n \in Nat \ G : \A m \in Nat \ G : n <= m
    BY LeastNatural
  <1>2. \A m \in Nat : m < n => m \in G
    BY <1>1
  <1> QED
    BY <1>1, <1>2

(* Sequences are exhausted by taking away the first element. *)
LEMMA TailInduction ==
    ASSUME NEW B, NEW G, <<>> \in G,
           \A s \in Seq(B) : s # <<>> /\ Tail(s) \in G => s \in G
    PROVE  Seq(B) \subseteq G
  <1> DEFINE N == {n \in Nat : \A s \in Seq(B) : Len(s) = n => s \in G}
  <1>1. ASSUME NEW n \in Nat, \A m \in Nat : m < n => m \in N
        PROVE  n \in N
    <2> SUFFICES ASSUME NEW s \in Seq(B), Len(s) = n PROVE s \in G
      OBVIOUS
    <2>1. CASE s # <<>>
      <3>1. Tail(s) \in Seq(B) /\ Len(Tail(s)) = n - 1 /\ n - 1 \in Nat
        BY <2>1
      <3>2. n - 1 \in N
        BY <1>1, <3>1
      <3> QED
        BY <2>1, <3>1, <3>2
    <2> QED
      BY <2>1
  <1>2. Nat \subseteq N
    <2> HIDE DEF N
    <2> QED
      BY <1>1, Induction
  <1> QED
    BY <1>2

(* The first element of a sequence that another one follows. *)
LEMMA ConcatParts ==
    ASSUME NEW B, NEW r \in Seq(B), NEW q \in Seq(B), r # <<>>
    PROVE  /\ r \o q \in Seq(B) /\ r \o q # <<>>
           /\ Head(r \o q) = Head(r)
           /\ Tail(r \o q) = Tail(r) \o q
  <1>1. r \o q \in Seq(B) /\ Tail(r) \in Seq(B)
    BY ConcatProperties
  <1>2. r \o q # <<>> /\ Head(r \o q) = Head(r)
    BY <1>1, ConcatProperties
  <1>3. Tail(r \o q) \in Seq(B) /\ Tail(r) \o q \in Seq(B)
    BY <1>1, <1>2, ConcatProperties
  <1>4. /\ Len(r) \in Nat \ {0} /\ Len(q) \in Nat
        /\ Len(Tail(r)) = Len(r) - 1
        /\ Len(r \o q) = Len(r) + Len(q)
        /\ Len(Tail(r \o q)) = Len(r) + Len(q) - 1
        /\ Len(Tail(r) \o q) = Len(r) - 1 + Len(q)
    BY <1>1, <1>2, <1>3, ConcatProperties, HeadTailProperties, EmptySeq
  <1>5. ASSUME NEW i \in 1 .. Len(r) + Len(q) - 1
        PROVE  Tail(r \o q)[i] = (Tail(r) \o q)[i]
    <2>1. Tail(r \o q)[i] = (r \o q)[i + 1]
      BY <1>1, <1>2, <1>4, HeadTailProperties
    <2>2. (r \o q)[i + 1] = IF i + 1 <= Len(r) THEN r[i + 1] ELSE q[i + 1 - Len(r)]
      BY <1>4, ConcatProperties
    <2>3. (Tail(r) \o q)[i] = IF i <= Len(r) - 1 THEN Tail(r)[i] ELSE q[i - (Len(r) - 1)]
      BY <1>1, <1>4, ConcatProperties
    <2>4. i <= Len(r) - 1 => Tail(r)[i] = r[i + 1]
      BY <1>4, HeadTailProperties
    <2> QED
      BY <1>4, <2>1, <2>2, <2>3, <2>4
  <1>6. Tail(r \o q) = Tail(r) \o q
    BY <1>3, <1>4, <1>5, SeqEqual
  <1> QED
    BY <1>1, <1>2, <1>6

(* The elements of two sequences in a row. *)
LEMMA ConcatEntries ==
    ASSUME NEW B, NEW a \in Seq(B), NEW b \in Seq(B)
    PROVE  /\ a \o b \in Seq(B) /\ Len(a \o b) = Len(a) + Len(b)
           /\ \A i \in 1 .. Len(a) : (a \o b)[i] = a[i]
           /\ \A i \in 1 .. Len(b) : (a \o b)[Len(a) + i] = b[i]
  <1>1. Len(a) \in Nat /\ Len(b) \in Nat
    BY LenProperties
  <1>2. PICK n \in Nat, k \in Nat : n = Len(a) /\ k = Len(b)
    BY <1>1
  <1>3. PICK c : c = a \o b
    OBVIOUS
  <1>4. /\ c \in Seq(B) /\ Len(c) = n + k
        /\ \A i \in 1 .. n + k : c[i] = IF i <= n THEN a[i] ELSE b[i - n]
    BY <1>2, <1>3, ConcatProperties
  <1>5. \A i \in 1 .. n : i \in 1 .. n + k /\ i <= n
    BY <1>1
  <1>6. ASSUME NEW i \in 1 .. k PROVE c[n + i] = b[i]
    <2>1. PICK j : j = n + i
      OBVIOUS
    <2>2. j \in 1 .. n + k /\ ~(j <= n) /\ j - n = i
      BY <1>1, <2>1
    <2> QED
      BY <1>4, <2>1, <2>2
  <1> QED
    BY <1>2, <1>3, <1>4, <1>5, <1>6

(* A part of a sequence. *)
LEMMA SubSeqEntries ==
    ASSUME NEW B, NEW p \in Seq(B), NEW m \in Nat, NEW n \in Nat,
           m >= 1, m <= n + 1, n <= Len(p)
    PROVE  /\ SubSeq(p, m, n) \in Seq(B) /\ Len(SubSeq(p, m, n)) = n - m + 1
           /\ \A i \in 1 .. n - m + 1 : SubSeq(p, m, n)[i] = p[m + i - 1]
  <1>1. Len(p) \in Nat
    BY LenProperties
  <1>2. \A i \in m .. n : p[i] \in B
    BY <1>1, ElementOfSeq
  <1>3. m \in Int /\ n \in Int
    OBVIOUS
  <1>4. /\ SubSeq(p, m, n) \in Seq(B)
        /\ Len(SubSeq(p, m, n)) = IF m <= n THEN n - m + 1 ELSE 0
        /\ \A i \in 1 .. n - m + 1 : SubSeq(p, m, n)[i] = p[m + i - 1]
    BY <1>2, <1>3, SubSeqProperties
  <1> QED
    BY <1>4

(* An element that moves from the second sequence to the first. *)
LEMMA AppendConcat ==
    ASSUME NEW B, NEW a \in Seq(B), NEW s \in Seq(B), s # <<>>
    PROVE  Append(a, Head(s)) \o Tail(s) = a \o s
  <1>1. PICK h, f : h = <<Head(s)>> /\ f = Tail(s)
    OBVIOUS
  <1>2. Head(s) \in B /\ f \in Seq(B) /\ h \in Seq(B) /\ s = h \o f
    BY <1>1, HeadTailProperties
  <1>3. Append(a, Head(s)) = a \o h
    BY <1>1, <1>2, AppendIsConcat
  <1>4. (a \o h) \o f = a \o (h \o f)
    BY <1>2, ConcatAssociative
  <1> QED
    BY <1>1, <1>2, <1>3, <1>4

(* A recursive function whose calls are in the last place: the members of  *)
(* H have a value, out, and those of S \ H that of the next member.        *)
TailCalls(S, H, T, out, next) ==
    /\ H \in SUBSET S
    /\ out \in [H -> T]
    /\ next \in [S \ H -> S]

Unfolds(f, S, H, out, next) ==
    /\ f = [x \in S |-> f[x]]
    /\ \A x \in S : f[x] = IF x \in H THEN out[x] ELSE f[next[x]]

(* Such a function exists, whether or not the calls come to an end. *)
LEMMA TailRecursion ==
    ASSUME NEW S, NEW H, NEW T, NEW out, NEW next, TailCalls(S, H, T, out, next)
    PROVE  \E f : Unfolds(f, S, H, out, next)
  <1> USE DEF TailCalls
  <1> DEFINE Closed(G) ==
              /\ \A x \in H : <<x, out[x]>> \in G
              /\ \A x \in S \ H, y \in T : <<next[x], y>> \in G => <<x, y>> \in G
             Least == {p \in S \X T : \A G \in SUBSET (S \X T) : Closed(G) => p \in G}
             Values(x) == {y \in T : <<x, y>> \in Least}
             f == [x \in S |-> CHOOSE y : y \in Values(x)]
  <1>1. Least \in SUBSET (S \X T) /\ Closed(Least)
    OBVIOUS
  <1>2. ASSUME NEW x \in H
        PROVE  Values(x) = {out[x]}
    <2>1. ASSUME NEW y \in Values(x), y # out[x]
          PROVE  FALSE
      <3> DEFINE G == Least \ {<<x, y>>}
      <3>1. G \in SUBSET (S \X T) /\ Closed(G)
        BY <1>1, <2>1
      <3> QED
        BY <2>1, <3>1
    <2>2. out[x] \in Values(x)
      BY <1>1
    <2> QED
      BY <2>1, <2>2
  <1>3. ASSUME NEW x \in S \ H
        PROVE  Values(x) = Values(next[x])
    <2>1. ASSUME NEW y \in Values(x), <<next[x], y>> \notin Least
          PROVE  FALSE
      <3> DEFINE G == Least \ {<<x, y>>}
      <3>1. G \in SUBSET (S \X T) /\ Closed(G)
        BY <1>1, <2>1
      <3> QED
        BY <2>1, <3>1
    <2>2. \A y \in T : <<next[x], y>> \in Least => <<x, y>> \in Least
      BY <1>1
    <2> QED
      BY <2>1, <2>2
  <1>4. ASSUME NEW x \in H
        PROVE  f[x] = out[x]
    <2> HIDE DEF Values
    <2> QED
      BY <1>2
  <1>5. ASSUME NEW x \in S \ H
        PROVE  f[x] = f[next[x]]
    <2>1. next[x] \in S
      OBVIOUS
    <2>2. Values(x) = Values(next[x])
      BY <1>3
    <2> HIDE DEF Values
    <2>3. \A z \in S : f[z] = CHOOSE y : y \in Values(z)
      OBVIOUS
    <2> QED
      BY <2>1, <2>2, <2>3
  <1>6. \A x \in S : f[x] = IF x \in H THEN out[x] ELSE f[next[x]]
    <2> HIDE DEF f
    <2> QED
      BY <1>4, <1>5
  <1>7. f = [x \in S |-> f[x]]
    <2> HIDE DEF Values
    <2> QED
      OBVIOUS
  <1> HIDE DEF f
  <1> QED
    BY <1>6, <1>7 DEF Unfolds

-----------------------------------------------------------------------------
(* Scan.                                                                   *)

(* The loop body of a scan.  As a name the provers recognise it. *)
IsStep(A, B, step) == step \in [A \X B -> A]

(* One step of a scan. *)
LEMMA ScanSteps ==
    ASSUME NEW A, NEW B, NEW step, IsStep(A, B, step)
    PROVE  /\ \A a \in A : Scan(A, B, step, a, <<>>) = a
           /\ \A a \in A, s \in Seq(B) : s # <<>> =>
                 Scan(A, B, step, a, s) =
                 Scan(A, B, step, step[<<a, Head(s)>>], Tail(s))
  <1> DEFINE S == A \X Seq(B)
             H == {x \in S : x[2] = <<>>}
             out == [x \in H |-> x[1]]
             next == [x \in S \ H |-> <<step[<<x[1], Head(x[2])>>], Tail(x[2])>>]
             Body(g) == [x \in S |-> IF x[2] = <<>> THEN x[1]
                            ELSE g[<<step[<<x[1], Head(x[2])>>], Tail(x[2])>>]]
             f == CHOOSE g : g = Body(g)
  <1>1. ASSUME NEW x \in S \ H
        PROVE  next[x] \in S
    <2>1. PICK a \in A, s \in Seq(B) : x = <<a, s>> /\ s # <<>>
      OBVIOUS
    <2>2. Head(s) \in B /\ Tail(s) \in Seq(B)
      BY <2>1
    <2> USE DEF IsStep
    <2>3. next[x] = <<step[<<a, Head(s)>>], Tail(s)>>
      BY <2>1
    <2> QED
      BY <2>2, <2>3
  <1>2. TailCalls(S, H, A, out, next)
    BY <1>1 DEF TailCalls
  <1>3. \E g : Unfolds(g, S, H, out, next)
    <2> HIDE DEF S, H, out, next
    <2> QED
      BY <1>2, TailRecursion
  <1>4. ASSUME NEW g, Unfolds(g, S, H, out, next)
        PROVE  g = Body(g)
    <2>1. \A x \in S : g[x] = IF x[2] = <<>> THEN x[1]
                              ELSE g[<<step[<<x[1], Head(x[2])>>], Tail(x[2])>>]
      BY <1>4 DEF Unfolds
    <2> QED
      BY <1>4, <2>1 DEF Unfolds
  <1>5. \E g : g = Body(g)
    <2> HIDE DEF Body
    <2> QED
      BY <1>3, <1>4
  <1>6. f = Body(f)
    BY <1>5
  <1>7. \A a \in A, s \in Seq(B) : Scan(A, B, step, a, s) = f[<<a, s>>]
    BY DEF Scan
  <1> HIDE DEF f
  <1>8. \A x \in S : f[x] = IF x[2] = <<>> THEN x[1]
                            ELSE f[<<step[<<x[1], Head(x[2])>>], Tail(x[2])>>]
    BY <1>6
  <1>9. ASSUME NEW a \in A, NEW s \in Seq(B)
        PROVE  f[<<a, s>>] = IF s = <<>> THEN a
                             ELSE f[<<step[<<a, Head(s)>>], Tail(s)>>]
    <2>1. <<a, s>> \in S
      OBVIOUS
    <2> QED
      BY <1>8, <2>1
  <1>10. ASSUME NEW a \in A, NEW s \in Seq(B), s # <<>>
         PROVE  step[<<a, Head(s)>>] \in A /\ Tail(s) \in Seq(B)
    BY <1>10 DEF IsStep
  <1> HIDE DEF S, H, out, next, Body
  <1>11. ASSUME NEW a \in A
         PROVE  Scan(A, B, step, a, <<>>) = a
    <2>1. <<>> \in Seq(B)
      OBVIOUS
    <2> QED
      BY <1>7, <1>9, <2>1
  <1>12. ASSUME NEW a \in A, NEW s \in Seq(B), s # <<>>
         PROVE  Scan(A, B, step, a, s) =
                Scan(A, B, step, step[<<a, Head(s)>>], Tail(s))
    <2> DEFINE b == step[<<a, Head(s)>>]
               t == Tail(s)
    <2>1. b \in A /\ t \in Seq(B)
      BY <1>10, <1>12
    <2>2. f[<<a, s>>] = f[<<b, t>>]
      BY <1>9, <1>12
    <2> HIDE DEF b, t
    <2>3. Scan(A, B, step, a, s) = Scan(A, B, step, b, t)
      BY <1>7, <2>1, <2>2
    <2> QED
      BY <2>3 DEF b, t
  <1> QED
    BY <1>11, <1>12

(* What every step keeps in a set I, the scan keeps there. *)
LEMMA ScanKeeps ==
    ASSUME NEW A, NEW B, NEW step, IsStep(A, B, step), NEW I \in SUBSET A,
           \A a \in I, e \in B : step[<<a, e>>] \in I
    PROVE  \A a \in I, s \in Seq(B) : Scan(A, B, step, a, s) \in I
  <1> DEFINE G == {s \in Seq(B) : \A a \in I : Scan(A, B, step, a, s) \in I}
  <1>1. <<>> \in G
    <2>1. <<>> \in Seq(B) /\ \A a \in A : Scan(A, B, step, a, <<>>) = a
      BY ScanSteps
    <2> QED
      BY <2>1
  <1>2. ASSUME NEW s \in Seq(B), s # <<>>, Tail(s) \in G
        PROVE  s \in G
    <2> SUFFICES ASSUME NEW a \in I PROVE Scan(A, B, step, a, s) \in I
      OBVIOUS
    <2>1. Head(s) \in B
      BY <1>2
    <2>2. PICK b : b = step[<<a, Head(s)>>]
      OBVIOUS
    <2>3. b \in I
      BY <2>1, <2>2
    <2>4. a \in A /\ s \in Seq(B)
      OBVIOUS
    <2>5. Scan(A, B, step, a, s) = Scan(A, B, step, b, Tail(s))
      BY <1>2, <2>2, <2>4, ScanSteps
    <2> QED
      BY <1>2, <2>3, <2>5
  <1>3. Seq(B) \subseteq G
    <2> HIDE DEF G
    <2> QED
      BY <1>1, <1>2, TailInduction
  <1> QED
    BY <1>3

(* A scan of two sequences goes on where the first one ends. *)
LEMMA ScanConcat ==
    ASSUME NEW A, NEW B, NEW step, IsStep(A, B, step), NEW t \in Seq(B)
    PROVE  \A s \in Seq(B) : \A a \in A :
               Scan(A, B, step, a, s \o t) =
               Scan(A, B, step, Scan(A, B, step, a, s), t)
  <1> DEFINE G == {s \in Seq(B) : \A a \in A :
                      Scan(A, B, step, a, s \o t) =
                      Scan(A, B, step, Scan(A, B, step, a, s), t)}
  <1>1. <<>> \in G
    <2>1. /\ <<>> \in Seq(B) /\ <<>> \o t = t
          /\ \A a \in A : Scan(A, B, step, a, <<>>) = a
      BY ScanSteps, ConcatEmptySeq
    <2> QED
      BY <2>1
  <1>2. ASSUME NEW s \in Seq(B), s # <<>>, Tail(s) \in G
        PROVE  s \in G
    <2> SUFFICES ASSUME NEW a \in A
                 PROVE  Scan(A, B, step, a, s \o t) =
                        Scan(A, B, step, Scan(A, B, step, a, s), t)
      OBVIOUS
    <2>1. PICK u, b, r : u = s \o t /\ b = step[<<a, Head(s)>>] /\ r = Tail(s)
      OBVIOUS
    <2>2. Head(s) \in B /\ r \in Seq(B)
      BY <1>2, <2>1
    <2>3. b \in A
      BY <2>1, <2>2 DEF IsStep
    <2>4. u \in Seq(B) /\ u # <<>> /\ Head(u) = Head(s) /\ Tail(u) = r \o t
      BY <1>2, <2>1, ConcatParts
    <2>5. Scan(A, B, step, a, u) = Scan(A, B, step, b, r \o t)
      <3>1. Scan(A, B, step, a, u) = Scan(A, B, step, step[<<a, Head(u)>>], Tail(u))
        BY <2>4, ScanSteps
      <3> QED
        BY <2>1, <2>4, <3>1
    <2>6. Scan(A, B, step, a, s) = Scan(A, B, step, b, r)
      BY <1>2, <2>1, ScanSteps
    <2>7. Scan(A, B, step, b, r \o t) = Scan(A, B, step, Scan(A, B, step, b, r), t)
      BY <1>2, <2>1, <2>3
    <2> QED
      BY <2>1, <2>5, <2>6, <2>7
  <1>3. Seq(B) \subseteq G
    <2> HIDE DEF G
    <2> QED
      BY <1>1, <1>2, TailInduction
  <1> QED
    BY <1>3

(* One step of a join. *)
LEMMA JoinStep ==
    ASSUME NEW B, NEW C, NEW part \in [B -> Seq(C)]
    PROVE  IsStep(Seq(C), B, [x \in Seq(C) \X B |-> x[1] \o part[x[2]]])
  <1>1. ASSUME NEW a \in Seq(C), NEW e \in B
        PROVE  a \o part[e] \in Seq(C)
    BY ConcatProperties
  <1> QED
    BY <1>1 DEF IsStep

IsPart(B, C, part) == part \in [B -> Seq(C)]

(* The parts of two sequences in a row are in a row themselves. *)
LEMMA JoinTyped ==
    ASSUME NEW B, NEW C, NEW part, IsPart(B, C, part)
    PROVE  /\ \A s \in Seq(B) : Join(C, B, part, s) \in Seq(C)
           /\ Join(C, B, part, <<>>) = <<>>
           /\ \A e \in B : Join(C, B, part, <<e>>) = part[e]
  <1> DEFINE step == [x \in Seq(C) \X B |-> x[1] \o part[x[2]]]
  <1>1. IsStep(Seq(C), B, step)
    BY JoinStep DEF IsPart
  <1>2. <<>> \in Seq(C) /\ <<>> \in Seq(B)
    OBVIOUS
  <1>3. \A a \in Seq(C), e \in B : step[<<a, e>>] = a \o part[e] /\ step[<<a, e>>] \in Seq(C)
    BY <1>1 DEF IsStep
  <1>4. \A s \in Seq(B) : Join(C, B, part, s) = Scan(Seq(C), B, step, <<>>, s)
    BY DEF Join
  <1> HIDE DEF step
  <1>5. \A a \in Seq(C), s \in Seq(B) : Scan(Seq(C), B, step, a, s) \in Seq(C)
    <2>1. Seq(C) \in SUBSET Seq(C)
      OBVIOUS
    <2> QED
      BY <1>1, <1>3, <2>1, ScanKeeps
  <1>6. \A a \in Seq(C) : Scan(Seq(C), B, step, a, <<>>) = a
    BY <1>1, ScanSteps
  <1>7. ASSUME NEW e \in B, NEW s \in Seq(B), s = <<e>>
        PROVE  Join(C, B, part, s) = part[e]
    <2>1. s # <<>> /\ Head(s) = e /\ Tail(s) = <<>>
      BY <1>7
    <2>2. PICK z \in Seq(C) : z = <<>>
      BY <1>2
    <2>3. Scan(Seq(C), B, step, z, s) =
          Scan(Seq(C), B, step, step[<<z, Head(s)>>], Tail(s))
      BY <1>1, <2>1, ScanSteps
    <2>4. part[e] \in Seq(C)
      BY DEF IsPart
    <2>5. step[<<z, e>>] = part[e]
      BY <1>3, <2>2, <2>4, ConcatEmptySeq
    <2>6. Scan(Seq(C), B, step, part[e], <<>>) = part[e]
      BY <1>6, <2>4
    <2> QED
      BY <1>4, <2>1, <2>2, <2>3, <2>5, <2>6
  <1>8. ASSUME NEW e \in B
        PROVE  Join(C, B, part, <<e>>) = part[e]
    <2>1. <<e>> \in Seq(B)
      OBVIOUS
    <2> QED
      BY <1>7, <2>1
  <1>9. Join(C, B, part, <<>>) = <<>>
    BY <1>2, <1>4, <1>6
  <1>10. \A s \in Seq(B) : Join(C, B, part, s) \in Seq(C)
    BY <1>2, <1>4, <1>5
  <1> QED
    BY <1>8, <1>9, <1>10

LEMMA JoinConcat ==
    ASSUME NEW B, NEW C, NEW part, IsPart(B, C, part)
    PROVE  \A s \in Seq(B), t \in Seq(B) :
               Join(C, B, part, s \o t) = Join(C, B, part, s) \o Join(C, B, part, t)
  <1> DEFINE step == [x \in Seq(C) \X B |-> x[1] \o part[x[2]]]
             S(a, s) == Scan(Seq(C), B, step, a, s)
             G == {s \in Seq(B) : \A a, b \in Seq(C) : S(a \o b, s) = a \o S(b, s)}
  <1>1. IsStep(Seq(C), B, step)
    BY JoinStep DEF IsPart
  <1>2. <<>> \in Seq(C) /\ <<>> \in Seq(B)
    OBVIOUS
  <1>3. \A a \in Seq(C), e \in B : step[<<a, e>>] = a \o part[e]
    OBVIOUS
  <1>4. \A s : Join(C, B, part, s) = Scan(Seq(C), B, step, <<>>, s)
    BY DEF Join
  <1> HIDE DEF step
  <1>5. \A s \in Seq(B) : S(<<>>, s) \in Seq(C)
    BY <1>4, JoinTyped
  <1>6. <<>> \in G
    <2>1. \A a \in Seq(C) : S(a, <<>>) = a
      BY <1>1, ScanSteps
    <2>2. \A a, b \in Seq(C) : a \o b \in Seq(C)
      BY ConcatProperties
    <2> QED
      BY <1>2, <2>1, <2>2
  <1>7. ASSUME NEW s \in Seq(B), s # <<>>, Tail(s) \in G
        PROVE  s \in G
    <2>1. Head(s) \in B /\ part[Head(s)] \in Seq(C)
      BY <1>7, HeadTailProperties DEF IsPart
    <2>2. ASSUME NEW a \in Seq(C)
          PROVE  S(a, s) = S(a \o part[Head(s)], Tail(s)) /\ a \o part[Head(s)] \in Seq(C)
      <3>1. S(a, s) = S(step[<<a, Head(s)>>], Tail(s))
        BY <1>1, <1>7, ScanSteps
      <3> QED
        BY <1>3, <2>1, <3>1, ConcatProperties
    <2>3. ASSUME NEW a \in Seq(C), NEW b \in Seq(C)
          PROVE  S(a \o b, s) = a \o S(b, s)
      <3>1. PICK p : p = part[Head(s)]
        OBVIOUS
      <3>2. p \in Seq(C) /\ a \o b \in Seq(C)
        BY <2>1, <3>1, ConcatProperties
      <3>3. (a \o b) \o p = a \o (b \o p) /\ b \o p \in Seq(C)
        BY <3>2, ConcatAssociative, ConcatProperties
      <3>4. S(a \o b, s) = S((a \o b) \o p, Tail(s))
        BY <2>2, <3>1, <3>2
      <3>5. S(a \o (b \o p), Tail(s)) = a \o S(b \o p, Tail(s))
        BY <1>7, <3>3
      <3>6. S(b, s) = S(b \o p, Tail(s))
        BY <2>2, <3>1
      <3> QED
        BY <3>3, <3>4, <3>5, <3>6
    <2> QED
      BY <2>3
  <1>8. Seq(B) \subseteq G
    <2> HIDE DEF G
    <2> QED
      BY <1>6, <1>7, TailInduction
  <1>9. ASSUME NEW s \in Seq(B), NEW t \in Seq(B)
        PROVE  S(<<>>, s \o t) = S(<<>>, s) \o S(<<>>, t)
    <2>1. S(<<>>, s \o t) = S(S(<<>>, s), t)
      <3>1. \A x \in Seq(B) : \A a \in Seq(C) : S(a, x \o t) = S(S(a, x), t)
        BY <1>1, ScanConcat
      <3> QED
        BY <1>2, <3>1
    <2>2. PICK a \in Seq(C) : a = S(<<>>, s)
      BY <1>5
    <2>3. a \o <<>> = a
      BY ConcatEmptySeq
    <2>4. S(a \o <<>>, t) = a \o S(<<>>, t)
      BY <1>2, <1>8
    <2> QED
      BY <2>1, <2>2, <2>3, <2>4
  <1> QED
    BY <1>4, <1>9
=============================================================================
