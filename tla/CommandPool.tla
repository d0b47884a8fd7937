----------------------------- MODULE CommandPool -----------------------------
(***************************************************************************)
(* What a git server promises about the commands it runs on behalf of its  *)
(* clients, whatever the protocol: at most MaxCommands git process groups  *)
(* exist at any time; none is started once the server has seen the last    *)
(* one end; and a server that stops because it was told to leaves behind   *)
(* no group that it has not at least sent SIGKILL.  Where LateStarts, the  *)
(* commands that begin while the server stops are excepted from the last   *)
(* two promises, but not from the first.                                   *)
(***************************************************************************)
EXTENDS Naturals, FiniteSets

CONSTANTS
    Slots,
    MaxCommands,
    LateStarts      \* whether the server lets commands begin while it stops

VARIABLES
    phase,  \* of the server
    life    \* of the process group in each slot

poolVars == <<phase, life>>

Alive == {k \in Slots : life[k] # "none"}

PoolInit == phase = "open" /\ life = [k \in Slots |-> "none"]

Start(k) ==
    /\ phase \in {"open", "stopping"}
    /\ life[k] = "none"
    /\ Cardinality(Alive) < MaxCommands
    /\ life' = [life EXCEPT ![k] = "running"]
    /\ UNCHANGED phase

StartLate(k) ==
    /\ LateStarts /\ phase = "stopping"
    /\ life[k] = "none"
    /\ Cardinality(Alive) < MaxCommands
    /\ life' = [life EXCEPT ![k] = "late"]
    /\ UNCHANGED phase

Kill(k) ==
    /\ phase \in {"open", "stopping"}
    /\ life[k] = "running"
    /\ life' = [life EXCEPT ![k] = "killed"]
    /\ UNCHANGED phase

End(k) ==
    /\ phase \in {"open", "stopping"}
    /\ life[k] # "none"
    /\ life' = [life EXCEPT ![k] = "none"]
    /\ UNCHANGED phase

Stop == phase = "open" /\ phase' = "stopping" /\ UNCHANGED life

(* The clean end: there is nothing left to wait for. *)
Close ==
    /\ phase = "stopping"
    /\ \A k \in Slots : life[k] \in {"none", "late"}
    /\ phase' = "closed"
    /\ UNCHANGED life

(* The hurried end: what is left has been killed and is on its way out. *)
GiveUp ==
    /\ phase = "stopping"
    /\ \A k \in Slots : life[k] # "running"
    /\ phase' = "gaveup"
    /\ UNCHANGED life

(* The server dies of an error and promises nothing. *)
Abort == phase = "open" /\ phase' = "aborted" /\ UNCHANGED life

PoolNext == \/ \E k \in Slots : Start(k) \/ StartLate(k) \/ Kill(k) \/ End(k)
            \/ Stop \/ Close \/ GiveUp \/ Abort

PoolSpec == PoolInit /\ [][PoolNext]_poolVars
=============================================================================
