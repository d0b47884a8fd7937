-------------------------- MODULE SupervisorProofs --------------------------
(***************************************************************************)
(* Theorems about Supervisor: its types, that simple-git-server does not   *)
(* return from main before the SSH server is gone, and that no reload that *)
(* was asked for is lost, for any number of keys and handshakes and        *)
(* whatever signals arrive.                                                *)
(***************************************************************************)
EXTENDS Supervisor, TLAPS

(* Main takes the result before it gives the child up for gone. *)
GoneReceived == parent \in {"lost", "exited"} => done = "received"

IInv == SupervisorTypeOK /\ GoneReceived /\ ReloadPending

USE DEF Serving, Lines

THEOREM InitInv == Init => IInv
  BY DEF Init, InitKeys, IInv, SupervisorTypeOK, KeysTypeOK, GoneReceived,
         ReloadPending

(* Every step of the child's main loop keeps the types and loses no reload,*)
(* and an exited child stays exited.                                       *)
LEMMA KeysStep ==
    ASSUME KeysTypeOK, ReloadPending,
           \/ newKeyStore \/ TakeSignal \/ ReadFile \/ StoreKeys
           \/ AskReload \/ EditFile \/ AcceptError \/ Drained
           \/ \E c \in Clients : publicKeyCallback(c) \/ HandshakeEnds(c)
    PROVE  /\ KeysTypeOK' /\ ReloadPending'
           /\ child = "exited" => child' = "exited"
<1> USE DEF KeysTypeOK, ReloadPending, parseAuthorizedKeys, fileVars, keyVars
<1>1. CASE newKeyStore
  BY <1>1 DEF newKeyStore
<1>2. CASE TakeSignal
  BY <1>2 DEF TakeSignal, Receives
<1>3. CASE ReadFile
  BY <1>3 DEF ReadFile
<1>4. CASE StoreKeys
  BY <1>4 DEF StoreKeys
<1>5. CASE AskReload
  BY <1>5 DEF AskReload, Deliver, Receives
<1>6. CASE EditFile
  BY <1>6 DEF EditFile
<1>7. CASE AcceptError
  BY <1>7 DEF AcceptError
<1>8. CASE Drained
  BY <1>8 DEF Drained
<1>9. ASSUME NEW c \in Clients, publicKeyCallback(c) \/ HandshakeEnds(c)
      PROVE  /\ KeysTypeOK' /\ ReloadPending'
             /\ child = "exited" => child' = "exited"
  BY <1>9 DEF publicKeyCallback, HandshakeEnds
<1> QED
  BY <1>1, <1>2, <1>3, <1>4, <1>5, <1>6, <1>7, <1>8, <1>9

(* The invariant is inductive. *)
THEOREM StepInv == IInv /\ [Next]_vars => IInv'
<1> SUFFICES ASSUME IInv, [Next]_vars PROVE IInv'
  OBVIOUS
<1> USE DEF IInv, SupervisorTypeOK, GoneReceived, ReloadPending
<1>1. CASE ChildRuns
  BY <1>1, KeysStep DEF ChildRuns, KeyStoreStep, supVars
<1>2. CASE ChildFails
  BY <1>2, KeysStep DEF ChildFails, supVars
<1>3. CASE ChildStops
  BY <1>3, KeysStep DEF ChildStops
<1>4. CASE OperatorStops
  BY <1>4 DEF OperatorStops, Deliver, Receives, KeysTypeOK, fileVars, keyVars,
              supVars, parseAuthorizedKeys
<1>5. CASE KilledDies
  BY <1>5 DEF KilledDies, KeysTypeOK, fileVars, keyVars, supVars
<1>6. CASE GitStarts \/ GitEnds \/ Reap
  <2>1. UNCHANGED <<keyStoreVars, parent>>
    BY <1>6 DEF GitStarts, GitEnds, Reap
  <2>2. KeysTypeOK' /\ ReloadPending'
    BY <2>1 DEF KeysTypeOK, keyStoreVars, fileVars, keyVars,
                parseAuthorizedKeys
  <2>3. CASE GitStarts
    BY <2>1, <2>2, <2>3 DEF GitStarts, keyStoreVars
  <2>4. CASE GitEnds
    BY <2>1, <2>2, <2>4 DEF GitEnds, keyStoreVars
  <2>5. CASE Reap
    BY <2>1, <2>2, <2>5 DEF Reap, keyStoreVars
  <2> QED
    BY <1>6, <2>3, <2>4, <2>5
<1>7. CASE ParentStops \/ ChildLost \/ ParentDies \/ HttpDown
  BY <1>7 DEF ParentStops, ChildLost, ParentDies, HttpDown, KeysTypeOK,
              keyStoreVars, fileVars, keyVars, parseAuthorizedKeys
<1>8. CASE StopFindsExit \/ StopReceives \/ StopReaps
  BY <1>8 DEF StopFindsExit, StopReceives, StopReaps, KeysTypeOK,
              keyStoreVars, fileVars, keyVars, parseAuthorizedKeys
<1>9. CASE StopTerminates
  BY <1>9 DEF StopTerminates, Deliver, Receives, KeysTypeOK, fileVars, keyVars,
              parseAuthorizedKeys
<1>10. CASE StopKills
  BY <1>10 DEF StopKills, StopsInTime, KeysTypeOK, fileVars, keyVars
<1>11. CASE UNCHANGED vars
  BY <1>11 DEF vars, supVars, KeysTypeOK, keyStoreVars, fileVars, keyVars,
               parseAuthorizedKeys
<1> QED
  BY <1>1, <1>2, <1>3, <1>4, <1>5, <1>6, <1>7, <1>8, <1>9, <1>10, <1>11
     DEF Next, ParentStep, Over

THEOREM Invariance == Spec => []IInv
<1> QED
  BY InitInv, StepInv, PTL DEF Spec

(* Every variable of the two processes keeps its type, the way the SSH     *)
(* server ended is recorded exactly when it has ended, and done has a      *)
(* result only then.                                                       *)
THEOREM SupervisorTypeCorrect == Spec => []SupervisorTypeOK
<1>1. IInv => SupervisorTypeOK
  BY DEF IInv
<1> QED
  BY <1>1, Invariance, PTL

(* When main of simple-git-server returns, the SSH server has exited.      *)
THEOREM ChildGoneCorrect == Spec => []ChildGone
<1>1. IInv => ChildGone
  BY DEF IInv, SupervisorTypeOK, GoneReceived, ChildGone
<1> QED
  BY <1>1, Invariance, PTL

(* A reload that was asked for after the last edit has been done, is under *)
(* way, or is to come: the one place in the signal channel is enough.      *)
THEOREM ReloadPendingCorrect == Spec => []ReloadPending
<1>1. IInv => ReloadPending
  BY DEF IInv
<1> QED
  BY <1>1, Invariance, PTL
=============================================================================
