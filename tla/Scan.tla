-------------------------------- MODULE Scan --------------------------------
(***************************************************************************)
(* A loop over a sequence from left to right: `step' is a function of the  *)
(* value so far, a member of A, and the next element, a member of B.  It   *)
(* computes what FoldLeft of SequencesExt does; as a function, in place of *)
(* an operator, `step' can be reasoned about by one set of lemmas.         *)
(***************************************************************************)
EXTENDS Sequences

Scan(A, B, step, init, s) ==
    LET Run[x \in A \X Seq(B)] ==
          IF x[2] = <<>> THEN x[1]
          ELSE Run[<<step[<<x[1], Head(x[2])>>], Tail(x[2])>>]
    IN  Run[<<init, s>>]

(* What `part' makes of the elements, sequences over C, in a row. *)
Join(C, B, part, s) ==
    Scan(Seq(C), B, [x \in Seq(C) \X B |-> x[1] \o part[x[2]]], <<>>, s)
=============================================================================
