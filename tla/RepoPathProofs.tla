--------------------------- MODULE RepoPathProofs ---------------------------
(***************************************************************************)
(* Theorems about RepoPath, for every file system and paths of any length: *)
(* what resolving symbolic links returns, and that the two ways in which   *)
(* the HTTP server and the SSH server resolve a path below the folder, by  *)
(* way of the folder's real place or of its name, agree.                   *)
(***************************************************************************)
EXTENDS RepoPath, Recursion

-----------------------------------------------------------------------------
(* EvalSymlinks, step by step.                                             *)

At(b, r, n) == [base |-> b, rest |-> r, links |-> n]

(* A lookup that has not ended goes on with a lookup. *)
LEMMA OnwardLookup ==
    ASSUME NEW t, IsTree(t), NEW s \in Lookups, ~Ended(t, s)
    PROVE  Onward(t, s) \in Lookups
<1>1. PICK b \in Path, r \in Path, n \in Nat : s = At(b, r, n)
  BY DEF Lookups, At
<1>2. /\ r # <<>> /\ Here(s) \in DOMAIN t /\ t[Here(s)].to \in Path
      /\ t[Here(s)].kind = "link" => n - 1 \in Nat
  BY <1>1 DEF Ended, IsTree, At
<1>3. /\ Tail(r) \in Path /\ Here(s) \in Path /\ <<>> \in Path
      /\ t[Here(s)].to \o Tail(r) \in Path
  BY <1>1, <1>2 DEF Path, Here, IsTree, At
<1> QED
  BY <1>1, <1>2, <1>3 DEF Onward, Lookups, At

(* One turn of the loop. *)
LEMMA FollowSteps ==
    ASSUME NEW t, IsTree(t), NEW s \in Lookups
    PROVE  Follow(t, s) = IF Ended(t, s) THEN Result(t, s)
                          ELSE Follow(t, Onward(t, s))
<1> DEFINE H == {x \in Lookups : Ended(t, x)}
           out == [x \in H |-> Result(t, x)]
           next == [x \in Lookups \ H |-> Onward(t, x)]
           Body(g) == [x \in Lookups |-> IF Ended(t, x) THEN Result(t, x)
                                         ELSE g[Onward(t, x)]]
           f == CHOOSE g : g = Body(g)
<1>1. TailCalls(Lookups, H, {out[x] : x \in H}, out, next)
  BY OnwardLookup DEF TailCalls
<1>2. \E g : Unfolds(g, Lookups, H, out, next)
  <2> HIDE DEF H, out, next
  <2> QED
    BY <1>1, TailRecursion
<1>3. ASSUME NEW g, Unfolds(g, Lookups, H, out, next)
      PROVE  g = Body(g)
  BY <1>3 DEF Unfolds
<1>4. \E g : g = Body(g)
  <2> HIDE DEF Body
  <2> QED
    BY <1>2, <1>3
<1>5. f = Body(f)
  BY <1>4
<1>6. \A x : Follow(t, x) = f[x]
  BY DEF Follow
<1> HIDE DEF f
<1>7. f[s] = IF Ended(t, s) THEN Result(t, s) ELSE f[Onward(t, s)]
  BY <1>5
<1> QED
  BY <1>6, <1>7

(* Lookups come to an end: what holds of every lookup that has ended, and  *)
(* of every other when it holds of the next, holds of all.                 *)
LEMMA LookupInduction ==
    ASSUME NEW t, IsTree(t), NEW G,
           \A s \in Lookups : Ended(t, s) => s \in G,
           \A s \in Lookups : ~Ended(t, s) /\ Onward(t, s) \in G => s \in G
    PROVE  Lookups \subseteq G
<1> DEFINE N == {n \in Nat : \A b, r \in Path : At(b, r, n) \in G}
<1>1. ASSUME NEW n \in Nat, \A m \in Nat : m < n => m \in N
      PROVE  n \in N
  <2> DEFINE R == {r \in Path : \A b \in Path : At(b, r, n) \in G}
  <2>1. ASSUME NEW b \in Path, NEW r \in Path, Ended(t, At(b, r, n))
        PROVE  At(b, r, n) \in G
    BY <2>1 DEF At, Lookups
  <2>2. <<>> \in R
    <3>1. <<>> \in Path
      BY DEF Path
    <3>2. \A b : Ended(t, At(b, <<>>, n))
      BY DEF Ended, At
    <3> QED
      BY <2>1, <3>1, <3>2
  <2>3. ASSUME NEW r \in Path, r # <<>>, Tail(r) \in R
        PROVE  r \in R
    <3> SUFFICES ASSUME NEW b \in Path, ~Ended(t, At(b, r, n))
                 PROVE  At(b, r, n) \in G
      BY <2>1
    <3> DEFINE s == At(b, r, n)
    <3>1. s \in Lookups
      BY DEF At, Lookups
    <3>2. PICK c \in Path, q \in Path, m \in Nat : Onward(t, s) = At(c, q, m)
      BY <3>1, OnwardLookup DEF Lookups, At
    <3>3. m < n \/ (m = n /\ q = Tail(r))
      BY <3>2 DEF Onward, At
    <3>4. Onward(t, s) \in G
      BY <1>1, <2>3, <3>2, <3>3
    <3> QED
      BY <3>1, <3>4
  <2>4. Path \subseteq R
    <3> HIDE DEF R
    <3>1. \A r \in Seq(Element) : r # <<>> /\ Tail(r) \in R => r \in R
      BY <2>3 DEF Path
    <3> QED
      BY <2>2, <3>1, TailInduction DEF Path
  <2> QED
    BY <2>4
<1>2. Nat \subseteq N
  <2> HIDE DEF N
  <2> QED
    BY <1>1, Induction
<1>3. ASSUME NEW s \in Lookups PROVE s \in G
  <2>1. PICK b \in Path, r \in Path, n \in Nat : s = At(b, r, n)
    BY DEF Lookups, At
  <2>2. n \in N
    BY <1>2
  <2> QED
    BY <2>1, <2>2
<1> QED
  BY <1>3

(* A lookup ends with a path, or with one of two errors. *)
Results == {Ok(p) : p \in Path} \cup {No("notexist"), No("error")}

LEMMA FollowTyped ==
    ASSUME NEW t, IsTree(t), NEW s \in Lookups
    PROVE  Follow(t, s) \in Results
<1> DEFINE G == {x \in Lookups : Follow(t, x) \in Results}
<1>1. \A x \in Lookups : Ended(t, x) => x \in G
  BY FollowSteps DEF Result, Results, Lookups
<1>2. \A x \in Lookups : ~Ended(t, x) /\ Onward(t, x) \in G => x \in G
  BY FollowSteps
<1>3. Lookups \subseteq G
  <2> HIDE DEF G
  <2> QED
    BY <1>1, <1>2, LookupInduction
<1> QED
  BY <1>3

(* What EvalSymlinks returns for a path is a path again. *)
THEOREM EvalSymlinksTyped ==
    ASSUME NEW t, IsTree(t), NEW p \in Path
    PROVE  EvalSymlinks(t, p) \in Results /\ EvalSymlinks(t, p).path \in Path
<1>1. <<>> \in Path
  BY DEF Path
<1>2. [base |-> <<>>, rest |-> p, links |-> MaxLinks] \in Lookups
  BY <1>1, PathLimits DEF Lookups
<1>3. EvalSymlinks(t, p) \in Results
  BY <1>2, FollowTyped DEF EvalSymlinks
<1> QED
  BY <1>1, <1>3 DEF Results, Ok, No

-----------------------------------------------------------------------------
(* Lookups in two parts.                                                   *)

(* A path that is its own real place: directories all the way. *)
Dirs(t, c) ==
    /\ c \in Path
    /\ \A i \in 1..Len(c) : /\ SubSeq(c, 1, i) \in DOMAIN t
                            /\ t[SubSeq(c, 1, i)].kind = "dir"

LEMMA DirsAppend ==
    ASSUME NEW t, NEW c, Dirs(t, c), NEW e \in Element,
           Append(c, e) \in DOMAIN t, t[Append(c, e)].kind = "dir"
    PROVE  Dirs(t, Append(c, e))
<1> DEFINE d == Append(c, e)
<1>1. c \in Path /\ d \in Path /\ Len(c) \in Nat /\ Len(d) = Len(c) + 1
  BY AppendProperties DEF Dirs, Path
<1>2. d = c \o <<e>> /\ <<e>> \in Seq(Element)
  BY <1>1, AppendIsConcat DEF Path
<1>3. ASSUME NEW i \in 1..Len(c)
      PROVE  SubSeq(d, 1, i) = SubSeq(c, 1, i)
  <2>1. 1 \in 1..Len(c)
    BY <1>1
  <2> QED
    BY <1>1, <1>2, <2>1, SubSeqOfConcat1 DEF Path
<1>4. SubSeq(d, 1, Len(d)) = d
  BY <1>1, SubSeqFull DEF Path
<1>5. ASSUME NEW i \in 1..Len(d)
      PROVE  SubSeq(d, 1, i) \in DOMAIN t /\ t[SubSeq(d, 1, i)].kind = "dir"
  <2>1. CASE i = Len(d)
    BY <1>4, <2>1
  <2>2. CASE i # Len(d)
    <3>1. i \in 1..Len(c)
      BY <1>1, <2>2
    <3> QED
      BY <1>3, <3>1 DEF Dirs
  <2> QED
    BY <2>1, <2>2
<1> QED
  BY <1>1, <1>5 DEF Dirs

LEMMA PathParts ==
    ASSUME NEW r \in Path, r # <<>>
    PROVE  Head(r) \in Element /\ Tail(r) \in Path
BY HeadTailProperties DEF Path

LEMMA PathConcat ==
    ASSUME NEW r \in Path, NEW q \in Path
    PROVE  r \o q \in Path
BY ConcatProperties DEF Path

LEMMA PathConcatParts ==
    ASSUME NEW r \in Path, NEW q \in Path, r # <<>>
    PROVE  /\ r \o q # <<>>
           /\ Head(r \o q) = Head(r)
           /\ Tail(r \o q) = Tail(r) \o q
BY ConcatParts DEF Path

LEMMA PathConcatLong ==
    ASSUME NEW r \in Path, NEW q \in Path, r # <<>>, q # <<>>
    PROVE  Len(r \o q) > 1
BY ConcatProperties, EmptySeq DEF Path

LEMMA PathAssociative ==
    ASSUME NEW p \in Path, NEW r \in Path, NEW q \in Path
    PROVE  (p \o r) \o q = p \o (r \o q)
BY ConcatAssociative DEF Path

(* With more links to follow, a path that was resolved is resolved alike. *)
LEMMA MoreLinks ==
    ASSUME NEW t, IsTree(t), NEW s \in Lookups, Follow(t, s).is = "ok",
           NEW n \in Nat, n >= s.links
    PROVE  Follow(t, At(s.base, s.rest, n)) = Follow(t, s)
<1> DEFINE G == {x \in Lookups : Follow(t, x).is = "ok" =>
                   \A m \in Nat : m >= x.links =>
                      Follow(t, At(x.base, x.rest, m)) = Follow(t, x)}
<1>1. ASSUME NEW x \in Lookups, Ended(t, x)
      PROVE  x \in G
  <2> SUFFICES ASSUME Follow(t, x).is = "ok", NEW m \in Nat
               PROVE  Follow(t, At(x.base, x.rest, m)) = Follow(t, x)
    OBVIOUS
  <2>1. Follow(t, x) = Ok(x.base) /\ x.rest = <<>>
    BY <1>1, FollowSteps DEF Result, Ok, No
  <2>2. /\ At(x.base, x.rest, m) \in Lookups
        /\ Ended(t, At(x.base, x.rest, m))
        /\ Result(t, At(x.base, x.rest, m)) = Ok(x.base)
    BY <2>1 DEF Lookups, At, Ended, Result
  <2> QED
    BY <2>1, <2>2, FollowSteps
<1>2. ASSUME NEW x \in Lookups, ~Ended(t, x), Onward(t, x) \in G
      PROVE  x \in G
  <2> SUFFICES ASSUME Follow(t, x).is = "ok", NEW m \in Nat, m >= x.links
               PROVE  Follow(t, At(x.base, x.rest, m)) = Follow(t, x)
    OBVIOUS
  <2> DEFINE y == At(x.base, x.rest, m)
             z == Onward(t, x)
  <2>1. /\ y \in Lookups /\ Here(y) = Here(x) /\ x.links \in Nat
        /\ z \in Lookups /\ ~Ended(t, y)
    BY <1>2, OnwardLookup DEF Lookups, At, Here, Ended
  <2>2. PICK k \in Nat : k >= z.links /\ Onward(t, y) = At(z.base, z.rest, k)
    <3>1. CASE t[Here(x)].kind = "link"
      <4>1. x.links # 0 /\ m - 1 \in Nat
        BY <1>2, <2>1, <3>1 DEF Ended
      <4>2. /\ z = At(<<>>, t[Here(x)].to \o Tail(x.rest), x.links - 1)
            /\ Onward(t, y) = At(<<>>, t[Here(x)].to \o Tail(x.rest), m - 1)
        <5> HIDE DEF G
        <5> QED
          BY <2>1, <3>1 DEF Onward, At
      <4>3. m - 1 >= z.links /\ Onward(t, y) = At(z.base, z.rest, m - 1)
        <5> HIDE DEF y, z, G
        <5> QED
          BY <2>1, <4>1, <4>2 DEF At
      <4> QED
        BY <4>1, <4>3
    <3>2. CASE t[Here(x)].kind # "link"
      BY <2>1, <3>2 DEF Onward, At
    <3> QED
      BY <3>1, <3>2
  <2>3. Follow(t, x) = Follow(t, z) /\ Follow(t, y) = Follow(t, Onward(t, y))
    BY <1>2, <2>1, FollowSteps
  <2> QED
    BY <1>2, <2>2, <2>3
<1>3. Lookups \subseteq G
  <2> HIDE DEF G
  <2> QED
    BY <1>1, <1>2, LookupInduction
<1> QED
  BY <1>3

(* The steps of a lookup that finds something. *)
LEMMA FollowLink ==
    ASSUME NEW t, IsTree(t), NEW b \in Path, NEW r \in Path, NEW n \in Nat, r # <<>>,
           Append(b, Head(r)) \in DOMAIN t,
           t[Append(b, Head(r))].kind = "link", n > 0
    PROVE  Follow(t, At(b, r, n)) =
           Follow(t, At(<<>>, t[Append(b, Head(r))].to \o Tail(r), n - 1))
<1>1. At(b, r, n) \in Lookups
  BY DEF At, Lookups
<1>2. ~Ended(t, At(b, r, n))
  BY DEF Ended, Here, At
<1>3. Onward(t, At(b, r, n)) = At(<<>>, t[Append(b, Head(r))].to \o Tail(r), n - 1)
  BY DEF Onward, Here, At
<1> QED
  BY <1>1, <1>2, <1>3, FollowSteps

LEMMA FollowDir ==
    ASSUME NEW t, IsTree(t), NEW b \in Path, NEW r \in Path, NEW n \in Nat, r # <<>>,
           Append(b, Head(r)) \in DOMAIN t,
           t[Append(b, Head(r))].kind = "dir"
    PROVE  Follow(t, At(b, r, n)) = Follow(t, At(Append(b, Head(r)), Tail(r), n))
<1>1. At(b, r, n) \in Lookups
  BY DEF At, Lookups
<1>2. ~Ended(t, At(b, r, n))
  BY DEF Ended, Here, At
<1>3. Onward(t, At(b, r, n)) = At(Append(b, Head(r)), Tail(r), n)
  BY DEF Onward, Here, At
<1> QED
  BY <1>1, <1>2, <1>3, FollowSteps

LEMMA FollowFile ==
    ASSUME NEW t, IsTree(t), NEW b \in Path, NEW r \in Path, NEW n \in Nat, Len(r) > 1,
           r # <<>>, Append(b, Head(r)) \in DOMAIN t,
           t[Append(b, Head(r))].kind = "file"
    PROVE  Follow(t, At(b, r, n)) = No("error")
<1>1. At(b, r, n) \in Lookups
  BY DEF At, Lookups
<1>2. Ended(t, At(b, r, n)) /\ Result(t, At(b, r, n)) = No("error")
  BY DEF Ended, Result, Here, At
<1> QED
  BY <1>1, <1>2, FollowSteps

(* Where the first part of a path is resolved to c, the whole is an error, *)
(* or c is a directory and what is left is resolved below it.              *)
SplitAt(t, b, r, n, q) ==
    \/ Follow(t, At(b, r \o q, n)).is = "error"
    \/ /\ Dirs(t, Follow(t, At(b, r, n)).path)
       /\ \E k \in 0..n :
             Follow(t, At(b, r \o q, n)) = Follow(t, At(Follow(t, At(b, r, n)).path, q, k))

(* A step of both lookups alike carries the split back. *)
LEMMA SplitBack ==
    ASSUME NEW t, NEW b, NEW r, NEW n \in Nat, NEW q,
           NEW c, NEW p, NEW m \in 0..n, SplitAt(t, c, p, m, q),
           Follow(t, At(b, r, n)) = Follow(t, At(c, p, m)),
           Follow(t, At(b, r \o q, n)) = Follow(t, At(c, p \o q, m))
    PROVE  SplitAt(t, b, r, n, q)
BY DEF SplitAt

LEMMA FollowSplit ==
    ASSUME NEW t, IsTree(t), NEW b \in Path, NEW r \in Path, NEW n \in Nat, Dirs(t, b),
           Follow(t, At(b, r, n)).is = "ok", NEW q \in Path, q # <<>>
    PROVE  SplitAt(t, b, r, n, q)
<1> DEFINE G == {x \in Lookups : Dirs(t, x.base) /\ Follow(t, x).is = "ok" =>
                    SplitAt(t, x.base, x.rest, x.links, q)}
<1>0. ASSUME NEW u \in Path, NEW v \in Path
      PROVE  (u \o v) \o q = u \o (v \o q)
  BY PathAssociative
<1>1. ASSUME NEW x \in Lookups, Ended(t, x)
      PROVE  x \in G
  <2> SUFFICES ASSUME Dirs(t, x.base), Follow(t, x).is = "ok"
               PROVE  SplitAt(t, x.base, x.rest, x.links, q)
    OBVIOUS
  <2>1. Follow(t, x) = Ok(x.base) /\ x.rest = <<>>
    BY <1>1, FollowSteps DEF Result, Ok, No
  <2>2. x = At(x.base, x.rest, x.links) /\ x.links \in 0..x.links /\ <<>> \o q = q
    BY ConcatEmptySeq DEF At, Lookups, Path
  <2> QED
    BY <2>1, <2>2 DEF SplitAt, Ok
<1>2. ASSUME NEW x \in Lookups, ~Ended(t, x), Onward(t, x) \in G
      PROVE  x \in G
  <2>1. PICK d \in Path, p \in Path, m \in Nat : x = At(d, p, m)
    BY DEF Lookups, At
  <2>2. x.base = d /\ x.rest = p /\ x.links = m
    BY <2>1 DEF At
  <2> SUFFICES ASSUME Dirs(t, d), Follow(t, x).is = "ok"
               PROVE  SplitAt(t, d, p, m, q)
    BY <2>2
  <2>0. PICK h : h = Append(d, Head(p))
    OBVIOUS
  <2>3. /\ p # <<>> /\ Here(x) = h /\ h \in DOMAIN t
        /\ t[h].kind = "link" => m > 0
        /\ t[h].kind \in {"dir", "file", "link"} /\ t[h].to \in Path
    BY <1>2, <2>0, <2>2 DEF Ended, Here, IsTree
  <2>4. PICK e : e = p \o q
    OBVIOUS
  <2>5. PICK f, g : f = Tail(p) /\ g = f \o q
    OBVIOUS
  <2>6. /\ e \in Path /\ e # <<>> /\ Head(e) = Head(p) /\ Tail(e) = g
         /\ f \in Path /\ Head(p) \in Element /\ Len(e) > 1
    BY <2>3, <2>4, <2>5, PathParts, PathConcat, PathConcatParts, PathConcatLong
  <2>7. Follow(t, x) = Follow(t, Onward(t, x))
    BY <1>2, FollowSteps
  <2>8. CASE t[h].kind = "file"
    <3>1. Follow(t, At(d, e, m)) = No("error")
      BY <2>0, <2>3, <2>6, <2>8, FollowFile
    <3> QED
      BY <2>4, <3>1 DEF SplitAt, No
  <2>9. CASE t[h].kind = "link"
    <3>0. PICK u, v, w : u = t[h].to /\ v = u \o f /\ w = u \o g
      OBVIOUS
    <3>1. m - 1 \in 0..m /\ m - 1 \in Nat /\ m > 0 /\ u \in Path /\ v \in Path
      BY <2>3, <2>6, <2>9, <3>0, PathConcat
    <3>2. Onward(t, x) = At(<<>>, v, m - 1)
      BY <2>2, <2>3, <2>5, <2>9, <3>0 DEF Onward, At
    <3>3. Follow(t, At(d, e, m)) = Follow(t, At(<<>>, w, m - 1))
      <4>1. Append(d, Head(e)) \in DOMAIN t /\ t[Append(d, Head(e))].kind = "link"
        BY <2>0, <2>3, <2>6, <2>9
      <4>2. e \in Path /\ e # <<>> /\ m > 0
        BY <2>6, <3>1
      <4>3. Follow(t, At(d, e, m)) =
            Follow(t, At(<<>>, t[Append(d, Head(e))].to \o Tail(e), m - 1))
        BY <4>1, <4>2, FollowLink
      <4> QED
        BY <2>0, <2>6, <3>0, <4>3
    <3>4. v \o q = w
      <4>1. (u \o f) \o q = u \o (f \o q)
        <5>1. u \in Path /\ f \in Path
          BY <2>6, <3>1
        <5> QED
          BY <1>0, <5>1, Zenon
      <4> QED
        BY <2>5, <3>0, <4>1
    <3>5. Dirs(t, <<>>)
      BY DEF Dirs, Path
    <3>6. SplitAt(t, <<>>, v, m - 1, q)
      <4>1. At(<<>>, v, m - 1).base = <<>> /\ At(<<>>, v, m - 1).rest = v
            /\ At(<<>>, v, m - 1).links = m - 1
        BY DEF At
      <4> QED
        BY <1>2, <2>7, <3>2, <3>5, <4>1
    <3> QED
      BY <2>1, <2>4, <2>7, <3>1, <3>2, <3>3, <3>4, <3>6, SplitBack
  <2>10. CASE t[h].kind = "dir"
    <3>1. Onward(t, x) = At(h, f, m)
      BY <2>2, <2>3, <2>5, <2>10 DEF Onward, At
    <3>2. Follow(t, At(d, e, m)) = Follow(t, At(h, g, m))
      <4>1. Append(d, Head(e)) \in DOMAIN t /\ t[Append(d, Head(e))].kind = "dir"
        BY <2>0, <2>3, <2>6, <2>10
      <4>2. e \in Path /\ e # <<>>
        BY <2>6
      <4>3. Follow(t, At(d, e, m)) = Follow(t, At(Append(d, Head(e)), Tail(e), m))
        BY <4>1, <4>2, FollowDir
      <4> QED
        BY <2>0, <2>6, <4>3
    <3>3. Dirs(t, h)
      BY <2>0, <2>3, <2>6, <2>10, DirsAppend
    <3>4. SplitAt(t, h, f, m, q)
      <4>1. At(h, f, m).base = h /\ At(h, f, m).rest = f /\ At(h, f, m).links = m
        BY DEF At
      <4> QED
        BY <1>2, <2>7, <3>1, <3>3, <4>1
    <3> QED
      BY <2>1, <2>4, <2>5, <2>7, <3>1, <3>2, <3>4, SplitBack
  <2> QED
    BY <2>3, <2>8, <2>9, <2>10
<1>3. At(b, r, n) \in G
  <2>1. At(b, r, n) \in Lookups
    BY DEF At, Lookups
  <2> HIDE DEF G
  <2> QED
    BY <1>1, <1>2, <2>1, LookupInduction
<1>4. At(b, r, n).base = b /\ At(b, r, n).rest = r /\ At(b, r, n).links = n
  BY DEF At
<1> QED
  BY <1>3, <1>4

(* The next directory on the way to c. *)
LEMMA DirsNext ==
    ASSUME NEW t, NEW d \in Path, NEW e \in Path, e # <<>>, Dirs(t, d \o e)
    PROVE  /\ Append(d, Head(e)) \in Path
           /\ Append(d, Head(e)) \o Tail(e) = d \o e
           /\ Append(d, Head(e)) \in DOMAIN t
           /\ t[Append(d, Head(e))].kind = "dir"
<1>0. PICK h : h = Append(d, Head(e))
  OBVIOUS
<1>1. PICK a, f : a = <<Head(e)>> /\ f = Tail(e)
  OBVIOUS
<1>2. Head(e) \in Element /\ f \in Path /\ a \in Path /\ e = a \o f
  BY <1>1, PathParts DEF Path
<1>3. h = d \o a /\ h \in Path /\ Len(h) = Len(d) + 1 /\ Len(d) \in Nat
  BY <1>0, <1>1, <1>2, AppendIsConcat, AppendProperties DEF Path
<1>4. h \o f = d \o e
  <2>1. (d \o a) \o f = d \o (a \o f)
    BY <1>2, PathAssociative, Zenon
  <2> QED
    BY <1>2, <1>3, <2>1, Zenon
<1>5. Len(h) \in 1..Len(h) /\ 1 \in 1..Len(h)
  BY <1>3
<1>6. Len(h \o f) = Len(h) + Len(f) /\ Len(f) \in Nat
  BY <1>2, <1>3, ConcatProperties, LenProperties DEF Path
<1>7. SubSeq(h \o f, 1, Len(h)) = SubSeq(h, 1, Len(h))
  BY <1>2, <1>3, <1>5, SubSeqOfConcat1 DEF Path
<1>8. SubSeq(h, 1, Len(h)) = h
  BY <1>3, SubSeqFull DEF Path
<1>9. Len(h) \in 1..Len(d \o e)
  BY <1>3, <1>4, <1>6
<1> QED
  BY <1>0, <1>1, <1>3, <1>4, <1>7, <1>8, <1>9 DEF Dirs

(* Directories are found from the root of the file system. *)
LEMMA FollowDirs ==
    ASSUME NEW t, IsTree(t), NEW c, Dirs(t, c), NEW q \in Path, NEW n \in Nat
    PROVE  Follow(t, At(<<>>, c \o q, n)) = Follow(t, At(c, q, n))
<1> DEFINE G == {e \in Path : \A d \in Path : d \o e = c =>
                    Follow(t, At(d, e \o q, n)) = Follow(t, At(c, q, n))}
<1>1. <<>> \in G
  BY ConcatEmptySeq DEF Path
<1>2. ASSUME NEW e \in Path, e # <<>>, Tail(e) \in G
      PROVE  e \in G
  <2> SUFFICES ASSUME NEW d \in Path, d \o e = c
               PROVE  Follow(t, At(d, e \o q, n)) = Follow(t, At(c, q, n))
    OBVIOUS
  <2>1. PICK h, f, g, k : /\ h = Append(d, Head(e)) /\ f = Tail(e)
                           /\ g = e \o q /\ k = f \o q
    OBVIOUS
  <2>2. h \in Path /\ h \o f = c /\ h \in DOMAIN t /\ t[h].kind = "dir"
    <3>1. Dirs(t, d \o e)
      OBVIOUS
    <3>2. /\ Append(d, Head(e)) \in Path
          /\ Append(d, Head(e)) \o Tail(e) = d \o e
          /\ Append(d, Head(e)) \in DOMAIN t
          /\ t[Append(d, Head(e))].kind = "dir"
      BY <1>2, <3>1, DirsNext, Zenon
    <3> QED
      BY <2>1, <3>2, Zenon
  <2>3. g \in Path /\ g # <<>> /\ Head(g) = Head(e) /\ Tail(g) = k
    BY <1>2, <2>1, PathConcat, PathConcatParts
  <2>4. Follow(t, At(d, g, n)) = Follow(t, At(h, k, n))
    <3>1. Append(d, Head(g)) \in DOMAIN t /\ t[Append(d, Head(g))].kind = "dir"
      BY <2>1, <2>2, <2>3
    <3>2. g \in Path /\ g # <<>>
      BY <2>3
    <3>3. Follow(t, At(d, g, n)) = Follow(t, At(Append(d, Head(g)), Tail(g), n))
      BY <3>1, <3>2, FollowDir
    <3> QED
      BY <2>1, <2>3, <3>3
  <2> QED
    BY <1>2, <2>1, <2>2, <2>4
<1>3. c \in G
  <2> HIDE DEF G
  <2> QED
    BY <1>1, <1>2, TailInduction DEF Dirs, Path
<1>4. <<>> \o c = c /\ <<>> \in Path
  BY ConcatEmptySeq DEF Dirs, Path
<1> QED
  BY <1>3, <1>4

(* The HTTP server resolves the folder first and the path below its real   *)
(* place, the SSH server and git resolve the folder's name and the path    *)
(* together: where the latter finds something, the former finds the same.  *)
THEOREM ResolvedAlike ==
    ASSUME NEW t, IsTree(t), NEW p \in Path, p # <<>>, Root(t).is = "ok",
           EvalSymlinks(t, ReposFolder \o p).is = "ok"
    PROVE  EvalSymlinks(t, Root(t).path \o p) = EvalSymlinks(t, ReposFolder \o p)
<1>1. PICK c : c = Root(t).path
  OBVIOUS
<1>2. <<>> \in Path /\ Dirs(t, <<>>) /\ ReposFolder \in Path /\ MaxLinks \in Nat
  BY PathLimits DEF Dirs, Path
<1>3. \A q : EvalSymlinks(t, q) = Follow(t, At(<<>>, q, MaxLinks))
  BY DEF EvalSymlinks, At
<1>4. /\ Follow(t, At(<<>>, ReposFolder, MaxLinks)).is = "ok"
      /\ Follow(t, At(<<>>, ReposFolder, MaxLinks)).path = c
      /\ Follow(t, At(<<>>, ReposFolder \o p, MaxLinks)).is = "ok"
  BY <1>1, <1>3 DEF Root
<1>5. SplitAt(t, <<>>, ReposFolder, MaxLinks, p)
  BY <1>2, <1>4, FollowSplit
<1>6. PICK k \in 0..MaxLinks :
          Dirs(t, c) /\ Follow(t, At(<<>>, ReposFolder \o p, MaxLinks)) = Follow(t, At(c, p, k))
  BY <1>4, <1>5 DEF SplitAt
<1>7. At(c, p, k) \in Lookups /\ k \in Nat /\ MaxLinks >= k
  BY <1>2, <1>6 DEF At, Lookups, Dirs
<1>8. At(c, p, k).base = c /\ At(c, p, k).rest = p /\ At(c, p, k).links = k
  BY DEF At
<1>9. Follow(t, At(c, p, MaxLinks)) = Follow(t, At(c, p, k))
  BY <1>2, <1>4, <1>6, <1>7, <1>8, MoreLinks
<1>10. Follow(t, At(<<>>, c \o p, MaxLinks)) = Follow(t, At(c, p, MaxLinks))
  BY <1>2, <1>6, FollowDirs
<1> QED
  BY <1>1, <1>3, <1>6, <1>9, <1>10

(* What repoWithinRoot lets pass leads, if anywhere, into the folder with  *)
(* every link on the way resolved, by its name as by its real place.       *)
THEOREM RepoWithinRootInside ==
    ASSUME NEW t, IsTree(t), NEW p \in Path, p # <<>>, repoWithinRoot(t, p)
    PROVE  Inside(t, p)
<1> SUFFICES ASSUME EvalSymlinks(t, ReposFolder \o p).is = "ok"
             PROVE  containedIn(Root(t).path, EvalSymlinks(t, ReposFolder \o p).path)
  BY DEF Inside
<1>1. Root(t).is = "ok"
  BY DEF repoWithinRoot
<1>2. Below(t, p, Len(p)) = EvalSymlinks(t, ReposFolder \o p)
  <2>1. SubSeq(p, 1, Len(p)) = p
    BY SubSeqFull DEF Path
  <2> QED
    BY <1>1, <2>1, ResolvedAlike DEF Below
<1>3. Len(p) \in Nat
  BY LenProperties DEF Path
<1>4. Len(p) \in 0..Len(p) /\ \A m \in Len(p) + 1 .. Len(p) : Below(t, p, m).is = "notexist"
  BY <1>3
<1>5. Below(t, p, Len(p)).is # "notexist"
  BY <1>2
<1>6. containedIn(Root(t).path, Below(t, p, Len(p)).path)
  BY <1>4, <1>5 DEF repoWithinRoot
<1> QED
  BY <1>2, <1>6

-----------------------------------------------------------------------------
(* The lexical operations.                                                 *)

LEMMA PathEnds ==
    ASSUME NEW r \in Path, r # <<>>
    PROVE  Front(r) \in Path /\ Last(r) \in Element
<1>1. Len(r) \in Nat /\ Len(r) > 0
  BY EmptySeq DEF Path
<1>2. \A i \in 1 .. Len(r) : r[i] \in Element
  BY ElementOfSeq DEF Path
<1>3. \A i \in 1 .. Len(r) - 1 : r[i] \in Element
  BY <1>1, <1>2
<1>4. SubSeq(r, 1, Len(r) - 1) \in Path
  BY <1>1, <1>3, SubSeqProperties DEF Path
<1> QED
  BY <1>1, <1>2, <1>4 DEF Front, Last

CleanStep(rooted) == [x \in Path \X Element |-> cleanElement(rooted, x[1], x[2])]

LEMMA CleanIsStep ==
    ASSUME NEW rooted PROVE IsStep(Path, Element, CleanStep(rooted))
<1>1. ASSUME NEW acc \in Path, NEW e \in Element
      PROVE  cleanElement(rooted, acc, e) \in Path
  <2>1. Append(acc, e) \in Path
    BY AppendProperties DEF Path
  <2>2. acc # <<>> => Front(acc) \in Path
    BY PathEnds
  <2> QED
    BY <2>1, <2>2 DEF cleanElement
<1> QED
  BY <1>1 DEF IsStep, CleanStep

(* path.Clean makes a path of a path. *)
LEMMA CleanTyped ==
    ASSUME NEW rooted, NEW p \in Path PROVE CleanFrom(rooted, p) \in Path
<1>1. <<>> \in Path
  BY DEF Path
<1>2. \A a \in Path, e \in Element : CleanStep(rooted)[<<a, e>>] \in Path
  BY CleanIsStep DEF IsStep
<1>3. \A a \in Path, s \in Seq(Element) :
          Scan(Path, Element, CleanStep(rooted), a, s) \in Path
  <2>1. Path \in SUBSET Path
    OBVIOUS
  <2> QED
    BY <1>2, <2>1, CleanIsStep, ScanKeeps
<1> QED
  BY <1>1, <1>3 DEF CleanFrom, CleanStep, Path

(* One element of a path is cleaned. *)
LEMMA CleanNext ==
    ASSUME NEW rooted, NEW acc \in Path, NEW p \in Path, p # <<>>
    PROVE  Scan(Path, Element, CleanStep(rooted), acc, p) =
           Scan(Path, Element, CleanStep(rooted),
                cleanElement(rooted, acc, Head(p)), Tail(p))
<1>1. Head(p) \in Element
  BY PathParts
<1>2. CleanStep(rooted)[<<acc, Head(p)>>] = cleanElement(rooted, acc, Head(p))
  BY <1>1 DEF CleanStep
<1>3. Scan(Path, Element, CleanStep(rooted), acc, p) =
      Scan(Path, Element, CleanStep(rooted),
           CleanStep(rooted)[<<acc, Head(p)>>], Tail(p))
  BY CleanIsStep, ScanSteps DEF Path
<1> QED
  BY <1>2, <1>3

(* A path with a plain name for every element is clean. *)
Plainly == Seq(Element \ {Empty, Dot, DotDot})

LEMMA CleanPlain ==
    ASSUME NEW rooted
    PROVE  \A s \in Plainly : \A a \in Path :
               Scan(Path, Element, CleanStep(rooted), a, s) = a \o s
<1> DEFINE G == {s \in Plainly : \A a \in Path :
                    Scan(Path, Element, CleanStep(rooted), a, s) = a \o s}
<1>1. <<>> \in G
  <2>1. <<>> \in Plainly
    BY DEF Plainly
  <2>2. ASSUME NEW a \in Path PROVE a \o <<>> = a
    BY ConcatEmptySeq DEF Path
  <2>3. ASSUME NEW a \in Path
        PROVE  Scan(Path, Element, CleanStep(rooted), a, <<>>) = a
    BY CleanIsStep, ScanSteps
  <2> QED
    BY <2>1, <2>2, <2>3
<1>2. ASSUME NEW s \in Plainly, s # <<>>, Tail(s) \in G
      PROVE  s \in G
  <2>1. SUFFICES ASSUME NEW a \in Path
                 PROVE  Scan(Path, Element, CleanStep(rooted), a, s) = a \o s
    OBVIOUS
  <2>2. s \in Path /\ Head(s) \in Element \ {Empty, Dot, DotDot} /\ Tail(s) \in Plainly
    BY <1>2, HeadTailProperties DEF Plainly, Path
  <2>3. cleanElement(rooted, a, Head(s)) = Append(a, Head(s))
    BY <2>2 DEF cleanElement
  <2>4. Append(a, Head(s)) \in Path
    BY <2>2, AppendProperties DEF Path
  <2>5. Scan(Path, Element, CleanStep(rooted), a, s) =
        Scan(Path, Element, CleanStep(rooted), Append(a, Head(s)), Tail(s))
    BY <1>2, <2>2, <2>3, CleanNext
  <2>6. Scan(Path, Element, CleanStep(rooted), Append(a, Head(s)), Tail(s)) =
        Append(a, Head(s)) \o Tail(s)
    BY <1>2, <2>4
  <2>7. Append(a, Head(s)) \o Tail(s) = a \o s
    BY <1>2, <2>2, AppendConcat DEF Path
  <2> QED
    BY <2>5, <2>6, <2>7
<1>3. Plainly \subseteq G
  <2> HIDE DEF G
  <2> QED
    BY <1>1, <1>2, TailInduction DEF Plainly
<1> QED
  BY <1>3
=============================================================================
