------------------------------ MODULE Counting ------------------------------
(***************************************************************************)
(* The counting argument the proofs about both servers rest on: a counter  *)
(* equals the number of processes of a class, and a step moves one of them.*)
(***************************************************************************)
EXTENDS Integers, FiniteSetTheorems, TLAPS

Bit(b) == IF b THEN 1 ELSE 0

(* Two sets that differ at most in x differ in cardinality by x alone, and *)
(* a finite set with a member is not counted as zero.                      *)
LEMMA OneMoves ==
    ASSUME NEW T, IsFiniteSet(T), NEW U, NEW x, U \ {x} = T \ {x}
    PROVE  /\ Cardinality(T) \in Nat
           /\ Cardinality(U) = Cardinality(T) + Bit(x \in U) - Bit(x \in T)
           /\ x \in T => Cardinality(T) >= 1
  <1>1. Cardinality(T) \in Nat /\ (x \in T => Cardinality(T) >= 1)
    <2>1. Cardinality(T) \in Nat
      BY FS_CardinalityType
    <2>2. x \in T => Cardinality(T) # 0
      BY FS_EmptySet
    <2> QED
      BY <2>1, <2>2
  <1>2. CASE x \in T /\ x \in U
    <2>1. T = U
      BY <1>2
    <2>2. Cardinality(U) = Cardinality(T)
      BY <2>1, Zenon
    <2> QED
      BY <1>1, <1>2, <2>2 DEF Bit
  <1>3. CASE x \notin T /\ x \notin U
    <2>1. T = U
      BY <1>3
    <2>2. Cardinality(U) = Cardinality(T)
      BY <2>1, Zenon
    <2> QED
      BY <1>1, <1>3, <2>2 DEF Bit
  <1>4. CASE x \in T /\ x \notin U
    <2>1. U = T \ {x}
      BY <1>4
    <2>2. Cardinality(U) = Cardinality(T) - 1
      BY <1>4, <2>1, FS_RemoveElement
    <2> QED
      BY <1>1, <1>4, <2>2 DEF Bit
  <1>5. CASE x \notin T /\ x \in U
    <2>1. U = T \cup {x}
      BY <1>5
    <2>2. Cardinality(U) = Cardinality(T) + 1
      BY <1>5, <2>1, FS_AddElement
    <2> QED
      BY <1>1, <1>5, <2>2 DEF Bit
  <1> QED
    BY <1>1, <1>2, <1>3, <1>4, <1>5
=============================================================================
