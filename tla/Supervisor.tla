----------------------------- MODULE Supervisor -----------------------------
(***************************************************************************)
(* simple-git-server and the SSH server it supervises: the select in which *)
(* main waits for a signal, a failing listener or the end of the child,    *)
(* the goroutine that reaps the child, and sshChild.stop.                  *)
(*                                                                         *)
(* The child is the main loop of KeyStore.  Its git commands are reduced   *)
(* to whether a process group is running; SshServer shows what happens to  *)
(* them when the child stops by itself.                                    *)
(***************************************************************************)
EXTENDS KeyStore

VARIABLES
    parent,     \* the main goroutine of simple-git-server
    done,       \* child.done: nothing yet, the result in its buffer, received
    git         \* some git process group of the child is running

supVars == <<parent, done, git>>
vars == <<keyStoreVars, supVars>>

(* up        in the select                                                 *)
(* lost      received the end of the child: sshExited                      *)
(* closing   shutting the HTTP servers down, waiting for their commands    *)
(* stopping  at the first select of sshChild.stop                          *)
(* termed    sent SIGTERM, in the second select                            *)
(* killing   sent SIGKILL, waits for done                                  *)
(* dead      ended by something main has no part in                        *)

(* Types, and: done has a result only once the child has exited. *)
SupervisorTypeOK ==
    /\ KeysTypeOK
    /\ done # "empty" => child = "exited"
    /\ parent \in {"up", "lost", "closing", "stopping", "termed", "killing",
                   "exited", "dead"}
    /\ done \in {"empty", "ready", "received"}
    /\ git \in BOOLEAN

Init ==
    /\ InitKeys
    /\ parent = "up"
    /\ done = "empty"
    /\ git = FALSE

-----------------------------------------------------------------------------
(* The child.                                                              *)

ChildRuns == (KeyStoreStep \/ AskReload \/ EditFile) /\ UNCHANGED supVars

ChildFails == AcceptError /\ UNCHANGED supVars

(* What SshServer proves of a stop by signal: no group is left running. *)
ChildStops == Drained /\ git' = FALSE /\ UNCHANGED <<parent, done>>

(* A stop signal that does not come from the parent. *)
OperatorStops ==
    /\ child \notin {"killed", "exited"}
    /\ Deliver("TERM")
    /\ UNCHANGED <<fileVars, keyVars, offered, supVars>>

KilledDies ==
    /\ child = "killed"
    /\ child' = "exited" /\ ended' = "killed"
    /\ UNCHANGED <<sigCh, fileVars, keyVars, offered, supVars>>

GitStarts ==
    /\ child \in Serving /\ ~git
    /\ git' = TRUE
    /\ UNCHANGED <<keyStoreVars, parent, done>>

GitEnds ==
    /\ git
    /\ git' = FALSE
    /\ UNCHANGED <<keyStoreVars, parent, done>>

(* The goroutine of startSSHReadWrite: child.done <- cmd.Wait(). *)
Reap ==
    /\ child = "exited" /\ done = "empty"
    /\ parent # "dead"
    /\ done' = "ready"
    /\ UNCHANGED <<keyStoreVars, parent, git>>

-----------------------------------------------------------------------------
(* The parent.                                                             *)

(* SIGINT, SIGTERM or the error of a listener. *)
ParentStops ==
    /\ parent = "up"
    /\ parent' = "closing"
    /\ UNCHANGED <<keyStoreVars, done, git>>

ChildLost ==
    /\ parent = "up" /\ done = "ready"
    /\ parent' = "lost" /\ done' = "received"
    /\ UNCHANGED <<keyStoreVars, git>>

(* A signal main is not notified of, or a crash. *)
ParentDies ==
    /\ parent \notin {"exited", "dead"}
    /\ parent' = "dead"
    /\ UNCHANGED <<keyStoreVars, done, git>>

(* Mutant: stop is called whether or not the child has been received. *)
HttpDownStops ==
    /\ parent \in {"lost", "closing"}
    /\ parent' = "stopping"
    /\ UNCHANGED <<keyStoreVars, done, git>>

(* The HTTP side is down; a child that is known to have exited is not      *)
(* stopped.                                                                *)
HttpDown ==
    /\ parent \in {"lost", "closing"}
    /\ parent' = IF parent = "lost" THEN "exited" ELSE "stopping"
    /\ UNCHANGED <<keyStoreVars, done, git>>

(* sshChild.stop finds the result in the buffer of done, ... *)
StopFindsExit ==
    /\ parent = "stopping" /\ done = "ready"
    /\ parent' = "exited" /\ done' = "received"
    /\ UNCHANGED <<keyStoreVars, git>>

(* ... or sends SIGTERM, ... *)
StopTerminates ==
    /\ parent = "stopping" /\ done # "ready"
    /\ parent' = "termed"
    /\ IF child \in {"killed", "exited"}
       THEN UNCHANGED <<child, ended, sigCh>>
       ELSE Deliver("TERM")
    /\ UNCHANGED <<fileVars, keyVars, offered, done, git>>

(* ... receives the result in time, ... *)
StopReceives ==
    /\ parent = "termed" /\ done = "ready"
    /\ parent' = "exited" /\ done' = "received"
    /\ UNCHANGED <<keyStoreVars, git>>

(* ... which a child that has received the signal, or has it in its        *)
(* buffer, manages: its wait is three seconds and sshChildStopTimeout is   *)
(* five; reading the key file is assumed to be fast, ...                   *)
StopsInTime == child \in {"draining", "exited"} \/ sigCh = "TERM"

(* Mutant: stop returns once SIGKILL has been sent. *)
StopKillsAndReturns ==
    /\ parent = "termed" /\ done # "ready"
    /\ ~StopsInTime
    /\ parent' = "exited"
    /\ child' = "killed"
    /\ UNCHANGED <<ended, sigCh, fileVars, keyVars, offered, done, git>>

(* Mutant: stop puts a result into done itself, to be sure of one. *)
StopKillsAndReports ==
    /\ parent = "termed" /\ done # "ready"
    /\ ~StopsInTime
    /\ parent' = "killing"
    /\ child' = "killed" /\ done' = "ready"
    /\ UNCHANGED <<ended, sigCh, fileVars, keyVars, offered, git>>

(* ... or else sends SIGKILL to the child's group, in which no git is, ... *)
StopKills ==
    /\ parent = "termed" /\ done # "ready"
    /\ ~StopsInTime
    /\ parent' = "killing"
    /\ child' = "killed"
    /\ UNCHANGED <<ended, sigCh, fileVars, keyVars, offered, done, git>>

(* ... and waits. *)
StopReaps ==
    /\ parent = "killing" /\ done = "ready"
    /\ parent' = "exited" /\ done' = "received"
    /\ UNCHANGED <<keyStoreVars, git>>

(* Both are gone. *)
Over == /\ parent \in {"exited", "dead"} /\ child = "exited"
        /\ UNCHANGED vars

-----------------------------------------------------------------------------
ParentStep == \/ ParentStops \/ ChildLost \/ ParentDies \/ HttpDown
              \/ StopFindsExit \/ StopTerminates \/ StopReceives
              \/ StopKills \/ StopReaps

Next == \/ ChildRuns \/ ChildFails \/ ChildStops \/ OperatorStops
        \/ KilledDies \/ GitStarts \/ GitEnds \/ Reap
        \/ ParentStep
        \/ Over

Spec == Init /\ [][Next]_vars

(* The two processes are scheduled and timers fire; nothing is assumed of  *)
(* signals, errors, the operator or git.                                   *)
Fairness ==
    /\ WF_vars(newKeyStore /\ UNCHANGED supVars)
    /\ WF_vars(TakeSignal /\ UNCHANGED supVars)
    /\ WF_vars(ReadFile /\ UNCHANGED supVars)
    /\ WF_vars(StoreKeys /\ UNCHANGED supVars)
    /\ \A c \in Clients : WF_vars(HandshakeEnds(c) /\ UNCHANGED supVars)
    /\ WF_vars(ChildStops)
    /\ WF_vars(KilledDies)
    /\ WF_vars(Reap)
    /\ WF_vars(ChildLost)
    /\ WF_vars(HttpDown)
    /\ WF_vars(StopFindsExit \/ StopTerminates)
    /\ WF_vars(StopReceives \/ StopKills)
    /\ WF_vars(StopReaps)

FairSpec == Spec /\ Fairness

-----------------------------------------------------------------------------
(* Properties.                                                             *)

(* When simple-git-server returns from main the SSH server is gone, so the *)
(* address it listens on is free for the next start.                       *)
ChildGone == parent = "exited" => child = "exited"

(* Once it has begun to stop the process ends: whether the child stops,    *)
(* has stopped before, or does not hear the signal, nobody waits twice for *)
(* the one result in done.                                                 *)
ParentEnds == parent \in {"lost", "closing"} ~> parent \in {"exited", "dead"}

-----------------------------------------------------------------------------
(* What the sources say of the program, and the code does not do.          *)

(* main.go of the SSH server: its git process groups are "killed rather    *)
(* than left orphaned" when it is stopped.                                 *)
NoGitOrphaned == parent = "exited" /\ ended # "failed" => ~git
=============================================================================
