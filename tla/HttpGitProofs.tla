---------------------------- MODULE HttpGitProofs ----------------------------
(***************************************************************************)
(* Proofs about HttpGit for every number of connections and every value of *)
(* the limits, along the lines of SshServerProofs.                         *)
(***************************************************************************)
EXTENDS HttpGit, Counting

-----------------------------------------------------------------------------
(* The inductive invariant.                                                *)

(* A CGI process group belongs to a handler between cmd.Start and cmd.Wait. *)
GitHeld == \A c \in Conns : git[c] # "none" => pc[c] \in {"copying", "waiting"}

(* Only commands that began after appCancel are late. *)
LateOnly == \A c \in Conns : late[c] => Cancelling

(* exitBy is set exactly when waitForGitCommands returns. *)
ExitRecorded == exitBy # "none" <=> main \in {"drained", "exited"}

(* After the poll saw zero, every command is a late one. *)
DrainedIdle == exitBy = "done" => \A c \in Conns : pc[c] \in Counted => late[c]

(* A server that gave up has signalled every group that is not late. *)
GaveUpKilled == exitBy = "gaveup" => GraceCoversKill

(* A write deadline is in force from the first write of a response to the  *)
(* deferred call of serveGit, and at no other time.                        *)
WriteBounded ==
    \A c \in Conns : writeBy[c] = "set" =>
        GitIdleEnabled /\ pc[c] \in {"copying", "waiting", "unwind", "clearing"}

Custody == /\ GitHeld
           /\ LateOnly
           /\ ExitRecorded
           /\ DrainedIdle
           /\ GaveUpKilled
           /\ WriteBounded

IInv == TypeOK /\ CountersExact /\ Custody

LEMMA InitIInv == Init => IInv
  <1> SUFFICES ASSUME Init PROVE IInv
    OBVIOUS
  <1>1. TypeOK
    BY HttpLimitPositive DEF Init, TypeOK, PCs
  <1>2. CountersExact
    <2>1. /\ {c \in Conns : pc[c] \in Holding} = {}
          /\ {c \in Conns : pc[c] \in Counted} = {}
      BY DEF Init, Holding, Counted
    <2> QED
      BY <2>1, FS_EmptySet DEF Count, CountersExact, Init
  <1>3. Custody
    BY DEF Init, Custody, GitHeld, LateOnly, ExitRecorded, DrainedIdle,
           GaveUpKilled, WriteBounded
  <1> QED
    BY <1>1, <1>2, <1>3 DEF IInv

-----------------------------------------------------------------------------
(* What a step does to the counters.                                       *)

(* Who holds a token keeps its counter positive. *)
LEMMA HoldersCount ==
    ASSUME TypeOK, CountersExact
    PROVE  \A c \in Conns : /\ pc[c] \in Holding => gitSem >= 1
                            /\ pc[c] \in Counted => gitActive >= 1
  <1>1. ASSUME NEW P, NEW c \in Conns, pc[c] \in P
        PROVE  Count(P) >= 1
    <2> DEFINE T == {d \in Conns : pc[d] \in P}
    <2>1. IsFiniteSet(T) /\ c \in T
      BY <1>1, HttpConnsFinite, FS_Subset, T \subseteq Conns
    <2> HIDE DEF T
    <2>2. Cardinality(T) >= 1
      BY <2>1, OneMoves
    <2> QED
      BY <2>2 DEF Count, T
  <1> QED
    BY <1>1 DEF CountersExact

(* The handler of c moves to p, taking and returning the tokens of the     *)
(* classes it enters and leaves.                                           *)
Move(c, p) ==
    /\ pc' = [pc EXCEPT ![c] = p]
    /\ gitSem' = gitSem + Bit(p \in Holding) - Bit(pc[c] \in Holding)
    /\ gitActive' = gitActive + Bit(p \in Counted) - Bit(pc[c] \in Counted)

(* Such a move keeps both counters exact. *)
LEMMA MoveCounts ==
    ASSUME TypeOK, CountersExact, NEW c \in Conns, NEW p, Move(c, p)
    PROVE  CountersExact'
  <1>1. pc'[c] = p /\ \A d \in Conns : d # c => pc'[d] = pc[d]
    BY DEF TypeOK, Move
  <1>2. ASSUME NEW P
        PROVE  Count(P)' = Count(P) + Bit(p \in P) - Bit(pc[c] \in P)
    <2> DEFINE T == {d \in Conns : pc[d] \in P}
               U == {d \in Conns : pc'[d] \in P}
    <2>1. IsFiniteSet(T)
      BY HttpConnsFinite, FS_Subset, T \subseteq Conns
    <2>2. U \ {c} = T \ {c}
      BY <1>1
    <2>3. (c \in T <=> pc[c] \in P) /\ (c \in U <=> p \in P)
      BY <1>1
    <2> HIDE DEF T, U
    <2>4. Cardinality(U) = Cardinality(T) + Bit(c \in U) - Bit(c \in T)
      BY <2>1, <2>2, OneMoves
    <2>5. Bit(c \in U) = Bit(p \in P) /\ Bit(c \in T) = Bit(pc[c] \in P)
      BY <2>3 DEF Bit
    <2> QED
      BY <2>4, <2>5 DEF Count, T, U
  <1>3. /\ Count(Holding)' = gitSem'
        /\ Count(Counted)' = gitActive'
    BY <1>2 DEF CountersExact, Move
  <1> QED
    BY <1>3 DEF CountersExact

(* A step in which no handler moves leaves both counters exact. *)
LEMMA NoCounts ==
    ASSUME CountersExact, UNCHANGED <<counters, pc>>
    PROVE  CountersExact'
  BY DEF CountersExact, counters, Count

(* A step in which no handler moves and nothing happens to a process group *)
(* but that it is killed or ends keeps the invariant.                      *)
LEMMA InPlace ==
    ASSUME IInv, TypeOK', UNCHANGED <<mainVars, counters, pc, writeBy, late>>,
           \A c \in Conns : \/ git'[c] = git[c]
                            \/ git[c] # "none" /\ git'[c] # "running"
    PROVE  IInv'
  <1>1. CountersExact'
    BY NoCounts DEF IInv
  <1>2. Custody'
    BY DEF IInv, Custody, GitHeld, LateOnly, ExitRecorded, DrainedIdle,
           GaveUpKilled, GraceCoversKill, WriteBounded, Cancelling, mainVars
  <1> QED
    BY <1>1, <1>2 DEF IInv

-----------------------------------------------------------------------------
(* The inductive step, action by action.                                   *)

(* Steps of the connection and of its client. *)
LEMMA ConnInductive ==
    ASSUME IInv, NEW c \in Conns, ConnStep(c)
    PROVE  IInv'
  <1>a. /\ TypeOK /\ CountersExact /\ Custody
        /\ pc[c] \in Holding => gitSem >= 1
        /\ pc[c] \in Counted => gitActive >= 1
    BY HoldersCount DEF IInv
  <1>1. CASE Connect(c)
    <2>1. TypeOK'
      BY <1>a, <1>1, HttpLimitPositive
         DEF Connect, TypeOK, PCs, Serving, Holding, Counted, Up, Go,
             mainVars, counters, connVars, cmdVars
    <2>2. CountersExact'
      <3>1. Move(c, "new")
        BY <1>a, <1>1
           DEF Connect, Move, Bit, TypeOK, Holding, Counted, Go, mainVars,
               counters, connVars, cmdVars
      <3> QED
        BY <1>a, <3>1, MoveCounts
    <2>3. Custody'
      BY <1>a, <1>1
         DEF Connect, Custody, GitHeld, LateOnly, ExitRecorded, DrainedIdle,
             GaveUpKilled, GraceCoversKill, WriteBounded, TypeOK, Counted,
             Cancelling, Up, Go, mainVars, counters, connVars, cmdVars
    <2> QED
      BY <2>1, <2>2, <2>3 DEF IInv
  <1>2. CASE CloseUnused(c)
    <2>1. TypeOK'
      BY <1>a, <1>2, HttpLimitPositive
         DEF CloseUnused, TypeOK, PCs, Serving, Holding, Counted, Up, Go,
             Closed, mainVars, counters, connVars, cmdVars
    <2>2. CountersExact'
      <3>1. Move(c, "none")
        BY <1>a, <1>2
           DEF CloseUnused, Move, Bit, TypeOK, Holding, Counted, Go, Closed,
               mainVars, counters, connVars, cmdVars
      <3> QED
        BY <1>a, <3>1, MoveCounts
    <2>3. Custody'
      BY <1>a, <1>2
         DEF CloseUnused, Custody, GitHeld, LateOnly, ExitRecorded,
             DrainedIdle, GaveUpKilled, GraceCoversKill, WriteBounded, TypeOK,
             Counted, Cancelling, Up, Go, Closed, mainVars, counters,
             connVars, cmdVars
    <2> QED
      BY <2>1, <2>2, <2>3 DEF IInv
  <1>3. CASE Request(c)
    <2>1. TypeOK'
      BY <1>a, <1>3, HttpLimitPositive
         DEF Request, TypeOK, PCs, Serving, Holding, Counted, Up, Go,
             mainVars, counters, connVars, cmdVars
    <2>2. CountersExact'
      <3>1. Move(c, "checking")
        BY <1>a, <1>3
           DEF Request, Move, Bit, TypeOK, Holding, Counted, Go, mainVars,
               counters, connVars, cmdVars
      <3> QED
        BY <1>a, <3>1, MoveCounts
    <2>3. Custody'
      BY <1>a, <1>3
         DEF Request, Custody, GitHeld, LateOnly, ExitRecorded, DrainedIdle,
             GaveUpKilled, GraceCoversKill, WriteBounded, TypeOK, Counted,
             Cancelling, Up, Go, mainVars, counters, connVars, cmdVars
    <2> QED
      BY <2>1, <2>2, <2>3 DEF IInv
  <1>4. CASE ClientLeaves(c)
    <2>1. TypeOK'
      BY <1>a, <1>4
         DEF ClientLeaves, TypeOK, Up, mainVars, counters, connVars, cmdVars
    <2> QED
      BY <1>4, <2>1, InPlace
         DEF ClientLeaves, mainVars, connVars, cmdVars
  <1>5. CASE DisconnectCancels(c)
    <2>1. TypeOK'
      BY <1>a, <1>5
         DEF DisconnectCancels, TypeOK, Up, mainVars, counters, connVars,
             cmdVars
    <2> QED
      BY <1>5, <2>1, InPlace
         DEF DisconnectCancels, mainVars, connVars, cmdVars
  <1>6. CASE ClientReads(c)
    <2>1. TypeOK'
      BY <1>a, <1>6
         DEF ClientReads, TypeOK, Up, mainVars, counters, connVars, cmdVars
    <2> QED
      BY <1>6, <2>1, InPlace
         DEF ClientReads, mainVars, connVars, cmdVars
  <1>7. CASE BodyEnds(c)
    <2>1. TypeOK'
      BY <1>a, <1>7
         DEF BodyEnds, TypeOK, Up, mainVars, counters, connVars, cmdVars
    <2> QED
      BY <1>7, <2>1, InPlace
         DEF BodyEnds, mainVars, connVars, cmdVars
  <1>8. CASE BodyTooLarge(c)
    <2>1. TypeOK'
      BY <1>a, <1>8
         DEF BodyTooLarge, TypeOK, Up, mainVars, counters, connVars, cmdVars
    <2> QED
      BY <1>8, <2>1, InPlace
         DEF BodyTooLarge, mainVars, connVars, cmdVars
  <1>9. CASE BodyReadFails(c)
    <2>1. TypeOK'
      BY <1>a, <1>9
         DEF BodyReadFails, TypeOK, Up, mainVars, counters, connVars, cmdVars
    <2> QED
      BY <1>9, <2>1, InPlace
         DEF BodyReadFails, mainVars, connVars, cmdVars
  <1>10. CASE Drained(c)
    <2>1. TypeOK'
      BY <1>a, <1>10, HttpLimitPositive
         DEF Drained, TypeOK, PCs, Serving, Holding, Counted, Up, Go, Closed,
             mainVars, counters, connVars, cmdVars
    <2>2. CountersExact'
      <3>1. PICK p \in {"idle", "none"} : Move(c, p)
        BY <1>a, <1>10
           DEF Drained, Move, Bit, TypeOK, Holding, Counted, Go, Closed,
               mainVars, counters, connVars, cmdVars
      <3> QED
        BY <1>a, <3>1, MoveCounts
    <2>3. Custody'
      BY <1>a, <1>10
         DEF Drained, Custody, GitHeld, LateOnly, ExitRecorded, DrainedIdle,
             GaveUpKilled, GraceCoversKill, WriteBounded, TypeOK, Counted,
             Cancelling, Up, Go, Closed, mainVars, counters, connVars, cmdVars
    <2> QED
      BY <2>1, <2>2, <2>3 DEF IInv
  <1>11. CASE DrainFails(c)
    <2>1. TypeOK'
      BY <1>a, <1>11, HttpLimitPositive
         DEF DrainFails, TypeOK, PCs, Serving, Holding, Counted, Up, Go,
             Closed, mainVars, counters, connVars, cmdVars
    <2>2. CountersExact'
      <3>1. Move(c, "none")
        BY <1>a, <1>11
           DEF DrainFails, Move, Bit, TypeOK, Holding, Counted, Go, Closed,
               mainVars, counters, connVars, cmdVars
      <3> QED
        BY <1>a, <3>1, MoveCounts
    <2>3. Custody'
      BY <1>a, <1>11
         DEF DrainFails, Custody, GitHeld, LateOnly, ExitRecorded,
             DrainedIdle, GaveUpKilled, GraceCoversKill, WriteBounded, TypeOK,
             Counted, Cancelling, Up, Go, Closed, mainVars, counters,
             connVars, cmdVars
    <2> QED
      BY <2>1, <2>2, <2>3 DEF IInv
  <1> QED
    BY <1>1, <1>2, <1>3, <1>4, <1>5, <1>6, <1>7, <1>8, <1>9, <1>10,
       <1>11
       DEF ConnStep

(* Steps of the handler. *)
LEMMA HandlerInductive ==
    ASSUME IInv, NEW c \in Conns, HandlerStep(c)
    PROVE  IInv'
  <1>a. /\ TypeOK /\ CountersExact /\ Custody
        /\ pc[c] \in Holding => gitSem >= 1
        /\ pc[c] \in Counted => gitActive >= 1
    BY HoldersCount DEF IInv
  <1>1. CASE Reject(c)
    <2>1. TypeOK'
      BY <1>a, <1>1, HttpLimitPositive
         DEF Reject, TypeOK, PCs, Serving, Holding, Counted, Up, Go, mainVars,
             counters, connVars, cmdVars
    <2>2. CountersExact'
      <3>1. Move(c, "finishing")
        BY <1>a, <1>1
           DEF Reject, Move, Bit, TypeOK, Holding, Counted, Go, mainVars,
               counters, connVars, cmdVars
      <3> QED
        BY <1>a, <3>1, MoveCounts
    <2>3. Custody'
      BY <1>a, <1>1
         DEF Reject, Custody, GitHeld, LateOnly, ExitRecorded, DrainedIdle,
             GaveUpKilled, GraceCoversKill, WriteBounded, TypeOK, Counted,
             Cancelling, Up, Go, mainVars, counters, connVars, cmdVars
    <2> QED
      BY <2>1, <2>2, <2>3 DEF IInv
  <1>2. CASE Admit(c)
    <2>1. TypeOK'
      BY <1>a, <1>2, HttpLimitPositive
         DEF Admit, TypeOK, PCs, Serving, Holding, Counted, Up, Go, mainVars,
             counters, connVars, cmdVars
    <2>2. CountersExact'
      <3>1. Move(c, "admitted")
        BY <1>a, <1>2
           DEF Admit, Move, Bit, TypeOK, Holding, Counted, Go, mainVars,
               counters, connVars, cmdVars
      <3> QED
        BY <1>a, <3>1, MoveCounts
    <2>3. Custody'
      BY <1>a, <1>2
         DEF Admit, Custody, GitHeld, LateOnly, ExitRecorded, DrainedIdle,
             GaveUpKilled, GraceCoversKill, WriteBounded, TypeOK, Counted,
             Cancelling, Up, Go, mainVars, counters, connVars, cmdVars
    <2> QED
      BY <2>1, <2>2, <2>3 DEF IInv
  <1>3. CASE RejectAdmitted(c)
    <2>1. TypeOK'
      BY <1>a, <1>3, HttpLimitPositive
         DEF RejectAdmitted, TypeOK, PCs, Serving, Holding, Counted, Up, Go,
             mainVars, counters, connVars, cmdVars
    <2>2. CountersExact'
      <3>1. Move(c, "clearing")
        BY <1>a, <1>3
           DEF RejectAdmitted, Move, Bit, TypeOK, Holding, Counted, Go,
               mainVars, counters, connVars, cmdVars
      <3> QED
        BY <1>a, <3>1, MoveCounts
    <2>3. Custody'
      BY <1>a, <1>3
         DEF RejectAdmitted, Custody, GitHeld, LateOnly, ExitRecorded,
             DrainedIdle, GaveUpKilled, GraceCoversKill, WriteBounded, TypeOK,
             Counted, Cancelling, Up, Go, mainVars, counters, connVars,
             cmdVars
    <2> QED
      BY <2>1, <2>2, <2>3 DEF IInv
  <1>4. CASE Begin(c)
    <2>1. TypeOK'
      BY <1>a, <1>4, HttpLimitPositive
         DEF Begin, TypeOK, PCs, Serving, Holding, Counted, Up, Cancelling,
             Go, mainVars, counters, connVars, cmdVars
    <2>2. CountersExact'
      <3>1. Move(c, "begun")
        BY <1>a, <1>4
           DEF Begin, Move, Bit, TypeOK, Holding, Counted, Go, mainVars,
               counters, connVars, cmdVars
      <3> QED
        BY <1>a, <3>1, MoveCounts
    <2>3. Custody'
      <3>1. GitHeld' /\ WriteBounded'
        BY <1>a, <1>4
           DEF Begin, Custody, GitHeld, WriteBounded, TypeOK, Go, connVars
      <3>2. LateOnly' /\ ExitRecorded'
        BY <1>a, <1>4
           DEF Begin, Custody, LateOnly, ExitRecorded, TypeOK, Cancelling,
               mainVars
      <3>3. /\ exitBy' = exitBy
            /\ exitBy # "none" => late'[c]
            /\ \A d \in Conns : d # c => /\ pc'[d] = pc[d]
                                        /\ late'[d] = late[d]
        BY <1>a, <1>4
           DEF Begin, Custody, ExitRecorded, TypeOK, Cancelling, Up, Go,
               mainVars
      <3>4. DrainedIdle'
        BY <1>a, <3>3 DEF Custody, DrainedIdle
      <3>5. GaveUpKilled'
        <4>1. git' = git
          BY <1>4 DEF Begin
        <4> QED
          BY <1>a, <3>3, <4>1 DEF Custody, GaveUpKilled, GraceCoversKill
      <3> QED
        BY <3>1, <3>2, <3>4, <3>5 DEF Custody
    <2> QED
      BY <2>1, <2>2, <2>3 DEF IInv
  <1>5. CASE StartCheck(c)
    <2>1. TypeOK'
      BY <1>a, <1>5, HttpLimitPositive
         DEF StartCheck, TypeOK, PCs, Serving, Holding, Counted, Up, Go,
             mainVars, counters, connVars, cmdVars
    <2>2. CountersExact'
      <3>1. Move(c, IF cancelled[c] THEN "unwind" ELSE "forking")
        BY <1>a, <1>5
           DEF StartCheck, Move, Bit, TypeOK, Holding, Counted, Go, mainVars,
               counters, connVars, cmdVars
      <3> QED
        BY <1>a, <3>1, MoveCounts
    <2>3. Custody'
      BY <1>a, <1>5
         DEF StartCheck, Custody, GitHeld, LateOnly, ExitRecorded,
             DrainedIdle, GaveUpKilled, GraceCoversKill, WriteBounded, TypeOK,
             Counted, Cancelling, Up, Go, mainVars, counters, connVars,
             cmdVars
    <2> QED
      BY <2>1, <2>2, <2>3 DEF IInv
  <1>6. CASE Fork(c)
    <2>1. TypeOK'
      BY <1>a, <1>6, HttpLimitPositive
         DEF Fork, TypeOK, PCs, Serving, Holding, Counted, Up, Go, mainVars,
             counters, connVars, cmdVars
    <2>2. CountersExact'
      <3>1. Move(c, "copying")
        BY <1>a, <1>6
           DEF Fork, Move, Bit, TypeOK, Holding, Counted, Go, mainVars,
               counters, connVars, cmdVars
      <3> QED
        BY <1>a, <3>1, MoveCounts
    <2>3. Custody'
      BY <1>a, <1>6
         DEF Fork, Custody, GitHeld, LateOnly, ExitRecorded, DrainedIdle,
             GaveUpKilled, GraceCoversKill, WriteBounded, TypeOK, Counted,
             Cancelling, Up, Go, mainVars, counters, connVars, cmdVars
    <2> QED
      BY <2>1, <2>2, <2>3 DEF IInv
  <1>7. CASE ForkFails(c)
    <2>1. TypeOK'
      BY <1>a, <1>7, HttpLimitPositive
         DEF ForkFails, TypeOK, PCs, Serving, Holding, Counted, Up, Go,
             mainVars, counters, connVars, cmdVars
    <2>2. CountersExact'
      <3>1. Move(c, "unwind")
        BY <1>a, <1>7
           DEF ForkFails, Move, Bit, TypeOK, Holding, Counted, Go, mainVars,
               counters, connVars, cmdVars
      <3> QED
        BY <1>a, <3>1, MoveCounts
    <2>3. Custody'
      BY <1>a, <1>7
         DEF ForkFails, Custody, GitHeld, LateOnly, ExitRecorded, DrainedIdle,
             GaveUpKilled, GraceCoversKill, WriteBounded, TypeOK, Counted,
             Cancelling, Up, Go, mainVars, counters, connVars, cmdVars
    <2> QED
      BY <2>1, <2>2, <2>3 DEF IInv
  <1>8. CASE Write(c)
    <2>1. TypeOK'
      BY <1>a, <1>8, HttpLimitPositive
         DEF Write, TypeOK, PCs, Serving, Holding, Counted, Up, Go, mainVars,
             counters, connVars, cmdVars
    <2>2. CountersExact'
      BY <1>a, <1>8, NoCounts DEF Write, mainVars, counters,
         connVars, cmdVars
    <2>3. Custody'
      BY <1>a, <1>8
         DEF Write, Custody, GitHeld, LateOnly, ExitRecorded, DrainedIdle,
             GaveUpKilled, GraceCoversKill, WriteBounded, TypeOK, Counted,
             Cancelling, Up, Go, mainVars, counters, connVars, cmdVars
    <2> QED
      BY <2>1, <2>2, <2>3 DEF IInv
  <1>9. CASE CopyEnds(c)
    <2>1. TypeOK'
      BY <1>a, <1>9, HttpLimitPositive
         DEF CopyEnds, TypeOK, PCs, Serving, Holding, Counted, Up, Go,
             mainVars, counters, connVars, cmdVars
    <2>2. CountersExact'
      <3>1. Move(c, "waiting")
        BY <1>a, <1>9
           DEF CopyEnds, Move, Bit, TypeOK, Holding, Counted, Go, mainVars,
               counters, connVars, cmdVars
      <3> QED
        BY <1>a, <3>1, MoveCounts
    <2>3. Custody'
      BY <1>a, <1>9
         DEF CopyEnds, Custody, GitHeld, LateOnly, ExitRecorded, DrainedIdle,
             GaveUpKilled, GraceCoversKill, WriteBounded, TypeOK, Counted,
             Cancelling, Up, Go, mainVars, counters, connVars, cmdVars
    <2> QED
      BY <2>1, <2>2, <2>3 DEF IInv
  <1>10. CASE WriteFails(c)
    <2>1. TypeOK'
      BY <1>a, <1>10, HttpLimitPositive
         DEF WriteFails, TypeOK, PCs, Serving, Holding, Counted, Up, Go,
             mainVars, counters, connVars, cmdVars
    <2>2. CountersExact'
      <3>1. Move(c, "waiting")
        BY <1>a, <1>10
           DEF WriteFails, Move, Bit, TypeOK, Holding, Counted, Go, mainVars,
               counters, connVars, cmdVars
      <3> QED
        BY <1>a, <3>1, MoveCounts
    <2>3. Custody'
      BY <1>a, <1>10
         DEF WriteFails, Custody, GitHeld, LateOnly, ExitRecorded,
             DrainedIdle, GaveUpKilled, GraceCoversKill, WriteBounded, TypeOK,
             Counted, Cancelling, Up, Go, mainVars, counters, connVars,
             cmdVars
    <2> QED
      BY <2>1, <2>2, <2>3 DEF IInv
  <1>11. CASE BadHeader(c)
    <2>1. TypeOK'
      BY <1>a, <1>11, HttpLimitPositive
         DEF BadHeader, TypeOK, PCs, Serving, Holding, Counted, Up, Go,
             mainVars, counters, connVars, cmdVars
    <2>2. CountersExact'
      <3>1. Move(c, "waiting")
        BY <1>a, <1>11
           DEF BadHeader, Move, Bit, TypeOK, Holding, Counted, Go, mainVars,
               counters, connVars, cmdVars
      <3> QED
        BY <1>a, <3>1, MoveCounts
    <2>3. Custody'
      BY <1>a, <1>11
         DEF BadHeader, Custody, GitHeld, LateOnly, ExitRecorded, DrainedIdle,
             GaveUpKilled, GraceCoversKill, WriteBounded, TypeOK, Counted,
             Cancelling, Up, Go, mainVars, counters, connVars, cmdVars
    <2> QED
      BY <2>1, <2>2, <2>3 DEF IInv
  <1>12. CASE CommandReturns(c)
    <2>1. TypeOK'
      BY <1>a, <1>12, HttpLimitPositive
         DEF CommandReturns, TypeOK, PCs, Serving, Holding, Counted, Up, Go,
             mainVars, counters, connVars, cmdVars
    <2>2. CountersExact'
      <3>1. Move(c, "unwind")
        BY <1>a, <1>12
           DEF CommandReturns, Move, Bit, TypeOK, Holding, Counted, Go,
               mainVars, counters, connVars, cmdVars
      <3> QED
        BY <1>a, <3>1, MoveCounts
    <2>3. Custody'
      BY <1>a, <1>12
         DEF CommandReturns, Custody, GitHeld, LateOnly, ExitRecorded,
             DrainedIdle, GaveUpKilled, GraceCoversKill, WriteBounded, TypeOK,
             Counted, Cancelling, Up, Go, mainVars, counters, connVars,
             cmdVars
    <2> QED
      BY <2>1, <2>2, <2>3 DEF IInv
  <1>13. CASE Unwind(c)
    <2>1. TypeOK'
      BY <1>a, <1>13, HttpLimitPositive
         DEF Unwind, TypeOK, PCs, Serving, Holding, Counted, Up, Go, mainVars,
             counters, connVars, cmdVars
    <2>2. CountersExact'
      <3>1. Move(c, "clearing")
        BY <1>a, <1>13
           DEF Unwind, Move, Bit, TypeOK, Holding, Counted, Go, mainVars,
               counters, connVars, cmdVars
      <3> QED
        BY <1>a, <3>1, MoveCounts
    <2>3. Custody'
      BY <1>a, <1>13
         DEF Unwind, Custody, GitHeld, LateOnly, ExitRecorded, DrainedIdle,
             GaveUpKilled, GraceCoversKill, WriteBounded, TypeOK, Counted,
             Cancelling, Up, Go, mainVars, counters, connVars, cmdVars
    <2> QED
      BY <2>1, <2>2, <2>3 DEF IInv
  <1>14. CASE ClearAndRelease(c)
    <2>1. TypeOK'
      BY <1>a, <1>14, HttpLimitPositive
         DEF ClearAndRelease, TypeOK, PCs, Serving, Holding, Counted, Up, Go,
             mainVars, counters, connVars, cmdVars
    <2>2. CountersExact'
      <3>1. Move(c, "finishing")
        BY <1>a, <1>14
           DEF ClearAndRelease, Move, Bit, TypeOK, Holding, Counted, Go,
               mainVars, counters, connVars, cmdVars
      <3> QED
        BY <1>a, <3>1, MoveCounts
    <2>3. Custody'
      BY <1>a, <1>14
         DEF ClearAndRelease, Custody, GitHeld, LateOnly, ExitRecorded,
             DrainedIdle, GaveUpKilled, GraceCoversKill, WriteBounded, TypeOK,
             Counted, Cancelling, Up, Go, mainVars, counters, connVars,
             cmdVars
    <2> QED
      BY <2>1, <2>2, <2>3 DEF IInv
  <1>15. CASE Finish(c)
    <2>1. TypeOK'
      BY <1>a, <1>15, HttpLimitPositive
         DEF Finish, TypeOK, PCs, Serving, Holding, Counted, Up, Go, mainVars,
             counters, connVars, cmdVars
    <2>2. CountersExact'
      <3>1. Move(c, "draining")
        BY <1>a, <1>15
           DEF Finish, Move, Bit, TypeOK, Holding, Counted, Go, mainVars,
               counters, connVars, cmdVars
      <3> QED
        BY <1>a, <3>1, MoveCounts
    <2>3. Custody'
      BY <1>a, <1>15
         DEF Finish, Custody, GitHeld, LateOnly, ExitRecorded, DrainedIdle,
             GaveUpKilled, GraceCoversKill, WriteBounded, TypeOK, Counted,
             Cancelling, Up, Go, mainVars, counters, connVars, cmdVars
    <2> QED
      BY <2>1, <2>2, <2>3 DEF IInv
  <1> QED
    BY <1>1, <1>2, <1>3, <1>4, <1>5, <1>6, <1>7, <1>8, <1>9, <1>10,
       <1>11, <1>12, <1>13, <1>14, <1>15
       DEF HandlerStep, WaitReturns, WaitReturnsOpen

(* Steps of git, of its killers and of the watchers. *)
LEMMA ChildInductive ==
    ASSUME IInv, NEW c \in Conns, ChildStep(c)
    PROVE  IInv'
  <1>a. /\ TypeOK /\ CountersExact /\ Custody
        /\ pc[c] \in Holding => gitSem >= 1
        /\ pc[c] \in Counted => gitActive >= 1
    BY HoldersCount DEF IInv
  <1>1. CASE Progress(c)
    <2>1. TypeOK'
      BY <1>a, <1>1
         DEF Progress, TypeOK, Up, mainVars, counters, connVars, cmdVars
    <2> QED
      BY <1>1, <2>1, InPlace
         DEF Progress, mainVars, connVars, cmdVars
  <1>2. CASE FallsQuiet(c)
    <2>1. TypeOK'
      BY <1>a, <1>2
         DEF FallsQuiet, TypeOK, Up, mainVars, counters, connVars, cmdVars
    <2> QED
      BY <1>2, <2>1, InPlace
         DEF FallsQuiet, mainVars, connVars, cmdVars
  <1>3. CASE GitExits(c)
    <2>1. TypeOK'
      BY <1>a, <1>3
         DEF GitExits, TypeOK, Up, mainVars, counters, connVars, cmdVars
    <2> QED
      BY <1>3, <2>1, InPlace
         DEF GitExits, mainVars, connVars, cmdVars, IInv, TypeOK
  <1>4. CASE KillGroup(c)
    <2>1. TypeOK'
      BY <1>a, <1>4
         DEF KillGroup, TypeOK, Up, mainVars, counters, connVars, cmdVars
    <2> QED
      BY <1>4, <2>1, InPlace
         DEF KillGroup, mainVars, connVars, cmdVars, IInv, TypeOK
  <1>5. CASE ProcessDies(c)
    <2>1. TypeOK'
      BY <1>a, <1>5
         DEF ProcessDies, TypeOK, Up, mainVars, counters, connVars, cmdVars
    <2> QED
      BY <1>5, <2>1, InPlace
         DEF ProcessDies, mainVars, connVars, cmdVars, IInv, TypeOK
  <1>6. CASE RelayCancels(c)
    <2>1. TypeOK'
      BY <1>a, <1>6
         DEF RelayCancels, TypeOK, Up, mainVars, counters, connVars, cmdVars
    <2> QED
      BY <1>6, <2>1, InPlace
         DEF RelayCancels, mainVars, connVars, cmdVars
  <1>7. CASE StallFinds(c)
    <2>1. TypeOK'
      BY <1>a, <1>7
         DEF StallFinds, TypeOK, Up, mainVars, counters, connVars, cmdVars
    <2> QED
      BY <1>7, <2>1, InPlace
         DEF StallFinds, mainVars, connVars, cmdVars
  <1>8. CASE StallExpires(c)
    <2>1. TypeOK'
      BY <1>a, <1>8
         DEF StallExpires, TypeOK, Up, mainVars, counters, connVars, cmdVars
    <2> QED
      BY <1>8, <2>1, InPlace
         DEF StallExpires, mainVars, connVars, cmdVars
  <1>9. CASE StallCancels(c)
    <2>1. TypeOK'
      BY <1>a, <1>9
         DEF StallCancels, TypeOK, Up, mainVars, counters, connVars, cmdVars
    <2> QED
      BY <1>9, <2>1, InPlace
         DEF StallCancels, mainVars, connVars, cmdVars
  <1>10. CASE StaleExpires(c)
    <2>1. TypeOK'
      BY <1>a, <1>10
         DEF StaleExpires, TypeOK, Up, mainVars, counters, connVars, cmdVars
    <2> QED
      BY <1>10, <2>1, InPlace
         DEF StaleExpires, mainVars, connVars, cmdVars
  <1> QED
    BY <1>1, <1>2, <1>3, <1>4, <1>5, <1>6, <1>7, <1>8, <1>9, <1>10
       DEF ChildStep

(* What Shutdown closes held no token and ran no git. *)
LEMMA CloseIdleMoves ==
    ASSUME TypeOK, CountersExact, Custody, CloseIdle,
           UNCHANGED <<counters, cmdVars>>
    PROVE  /\ pc' \in [Conns -> PCs]
           /\ client' \in [Conns -> {"there", "gone"}]
           /\ readBy' \in [Conns -> {"unset", "set", "past"}]
           /\ writeBy' \in [Conns -> {"unset", "set"}]
           /\ CountersExact'
           /\ \A c \in Conns : \/ pc'[c] = pc[c] /\ writeBy'[c] = writeBy[c]
                               \/ pc[c] = "idle" /\ pc'[c] = "none"
                                                 /\ writeBy'[c] = "unset"
  <1>1. /\ pc' = [c \in Conns |-> IF pc[c] = "idle" THEN "none" ELSE pc[c]]
        /\ client' = [c \in Conns |-> IF pc[c] = "idle" THEN "gone"
                                                        ELSE client[c]]
        /\ readBy' = [c \in Conns |-> IF pc[c] = "idle" THEN "unset"
                                                        ELSE readBy[c]]
        /\ writeBy' = [c \in Conns |-> IF pc[c] = "idle" THEN "unset"
                                                         ELSE writeBy[c]]
    BY DEF CloseIdle
  <1>2. CountersExact'
    <2>1. /\ {c \in Conns : pc'[c] \in Holding}
               = {c \in Conns : pc[c] \in Holding}
          /\ {c \in Conns : pc'[c] \in Counted}
               = {c \in Conns : pc[c] \in Counted}
      BY <1>1 DEF Holding, Counted
    <2> QED
      BY <2>1 DEF CountersExact, Count, counters
  <1>3. pc' \in [Conns -> PCs]
    BY <1>1 DEF TypeOK, PCs
  <1>4. /\ client' \in [Conns -> {"there", "gone"}]
        /\ readBy' \in [Conns -> {"unset", "set", "past"}]
        /\ writeBy' \in [Conns -> {"unset", "set"}]
    BY <1>1 DEF TypeOK
  <1>5. \A c \in Conns : \/ pc'[c] = pc[c] /\ writeBy'[c] = writeBy[c]
                         \/ pc[c] = "idle" /\ pc'[c] = "none"
                                           /\ writeBy'[c] = "unset"
    BY <1>1
  <1> QED
    BY <1>2, <1>3, <1>4, <1>5

(* Steps of the main goroutine. *)
LEMMA MainInductive ==
    ASSUME IInv, MainStep
    PROVE  IInv'
  <1>a. TypeOK /\ CountersExact /\ Custody
    BY DEF IInv
  <1>1. CASE Stop \/ MainReturns
    <2>1. UNCHANGED <<counters, pc, connVars, cmdVars, exitBy>>
      BY <1>1 DEF Stop, MainReturns
    <2>2. TypeOK'
      BY <1>a, <1>1, <2>1 DEF Stop, MainReturns, TypeOK, counters, connVars,
                              cmdVars
    <2>3. CountersExact'
      BY <1>a, <2>1, NoCounts
    <2>4. Custody'
      BY <1>a, <1>1, <2>1
         DEF Stop, MainReturns, Custody, GitHeld, LateOnly, ExitRecorded,
             DrainedIdle, GaveUpKilled, GraceCoversKill, WriteBounded,
             Cancelling, connVars, cmdVars
    <2> QED
      BY <2>2, <2>3, <2>4 DEF IInv
  <1>2. CASE ShutdownDone \/ ShutdownTimesOut
    <2>1. /\ CloseIdle /\ UNCHANGED <<counters, cmdVars, exitBy>>
          /\ main = "closing" /\ main' = "cancelled"
      BY <1>2 DEF ShutdownDone, ShutdownTimesOut
    <2>2. UNCHANGED <<body, blocked>>
      BY <2>1 DEF CloseIdle
    <2>3. TypeOK'
      BY <1>a, <2>1, <2>2, CloseIdleMoves DEF TypeOK, counters, cmdVars
    <2>4. CountersExact'
      BY <1>a, <2>1, CloseIdleMoves
    <2>5. \A c \in Conns : \/ pc'[c] = pc[c] /\ writeBy'[c] = writeBy[c]
                           \/ pc[c] = "idle" /\ pc'[c] = "none"
                                             /\ writeBy'[c] = "unset"
      BY <1>a, <2>1, CloseIdleMoves
    <2>6. Custody'
      BY <1>a, <2>1, <2>5
         DEF Custody, GitHeld, LateOnly, ExitRecorded, DrainedIdle,
             GaveUpKilled, GraceCoversKill, WriteBounded, Cancelling, Counted,
             cmdVars
    <2> QED
      BY <2>3, <2>4, <2>6 DEF IInv
  <1>3. CASE PollSeesZero \/ GiveUp
    <2>1. UNCHANGED <<counters, pc, connVars, cmdVars>>
      BY <1>3 DEF PollSeesZero, GiveUp
    <2>2. TypeOK'
      BY <1>a, <1>3, <2>1 DEF PollSeesZero, GiveUp, TypeOK, counters,
                              connVars, cmdVars
    <2>3. CountersExact'
      BY <1>a, <2>1, NoCounts
    <2>4. DrainedIdle'
      <3>1. CASE PollSeesZero
        <4>1. \A c \in Conns : pc[c] \notin Counted
          BY <1>a, <3>1, HoldersCount DEF PollSeesZero
        <4> QED
          BY <2>1, <4>1 DEF DrainedIdle
      <3>2. CASE GiveUp
        BY <3>2 DEF GiveUp, DrainedIdle
      <3> QED
        BY <1>3, <3>1, <3>2
    <2>5. GaveUpKilled'
      BY <1>3, <2>1 DEF PollSeesZero, GiveUp, GaveUpKilled, GraceCoversKill,
                        cmdVars
    <2>6. ExitRecorded' /\ LateOnly'
      BY <1>a, <1>3, <2>1 DEF PollSeesZero, GiveUp, Custody, ExitRecorded,
                              LateOnly, Cancelling, cmdVars
    <2>7. GitHeld' /\ WriteBounded'
      BY <1>a, <2>1 DEF Custody, GitHeld, WriteBounded, connVars, cmdVars
    <2> QED
      BY <2>2, <2>3, <2>4, <2>5, <2>6, <2>7 DEF IInv, Custody
  <1> QED
    BY <1>1, <1>2, <1>3 DEF MainStep

LEMMA NextIInv == IInv /\ [Next]_vars => IInv'
  <1> SUFFICES ASSUME IInv, [Next]_vars PROVE IInv'
    OBVIOUS
  <1>1. ASSUME NEW c \in Conns, ConnStep(c) PROVE IInv'
    BY <1>1, ConnInductive
  <1>2. ASSUME NEW c \in Conns, HandlerStep(c) PROVE IInv'
    BY <1>2, HandlerInductive
  <1>3. ASSUME NEW c \in Conns, ChildStep(c) PROVE IInv'
    BY <1>3, ChildInductive
  <1>4. CASE MainStep
    BY <1>4, MainInductive
  <1>5. CASE UNCHANGED vars
    <2>1. UNCHANGED <<mainVars, counters, pc, connVars, cmdVars>>
      BY <1>5 DEF vars
    <2>2. CountersExact'
      BY <2>1, NoCounts DEF IInv
    <2>3. TypeOK'
      BY <2>1 DEF IInv, TypeOK, mainVars, counters, connVars, cmdVars
    <2>4. Custody'
      BY <2>1 DEF IInv, Custody, GitHeld, LateOnly, ExitRecorded, DrainedIdle,
             GaveUpKilled, GraceCoversKill, WriteBounded, Cancelling, mainVars,
             connVars, cmdVars
    <2> QED
      BY <2>2, <2>3, <2>4 DEF IInv
  <1> QED
    BY <1>1, <1>2, <1>3, <1>4, <1>5 DEF Next, Exited

LEMMA Inductive == Spec => []IInv
  BY InitIInv, NextIInv, PTL DEF Spec

-----------------------------------------------------------------------------
(* What follows from the invariant.                                        *)

(* Every variable keeps its type: gitSem never exceeds its capacity, and   *)
(* gitActive never falls below zero.                                       *)
THEOREM TypeCorrect == Spec => []TypeOK
  <1>1. IInv => TypeOK
    BY DEF IInv
  <1> QED
    BY <1>1, Inductive, PTL

(* gitSem and gitActive equal the number of handlers that hold them, on    *)
(* every path through serveGit and runGitCGIRequest.                       *)
THEOREM CountersCorrect == Spec => []CountersExact
  <1>1. IInv => CountersExact
    BY DEF IInv
  <1> QED
    BY <1>1, Inductive, PTL

(* CGI process groups are at most as many as gitSem has tokens. *)
LEMMA AliveBounded ==
    ASSUME IInv
    PROVE  /\ IsFiniteSet({c \in Conns : Alive(c)})
           /\ Cardinality({c \in Conns : Alive(c)}) <= gitSem
  <1> DEFINE A == {c \in Conns : Alive(c)}
             H == {c \in Conns : pc[c] \in Holding}
  <1>1. IsFiniteSet(H)
    BY HttpConnsFinite, FS_Subset, H \subseteq Conns
  <1>2. A \subseteq H
    BY DEF IInv, Custody, GitHeld, Alive, Holding, Counted
  <1>3. gitSem = Cardinality(H)
    BY DEF IInv, CountersExact, Count
  <1> HIDE DEF A, H
  <1>4. IsFiniteSet(A) /\ Cardinality(A) <= Cardinality(H)
    BY <1>1, <1>2, FS_Subset
  <1> QED
    BY <1>3, <1>4 DEF A

(* --git-max-concurrent bounds the CGI processes, for every limit and any  *)
(* number of connections.                                                  *)
THEOREM CapCorrect == Spec => []GitProcessCap
  <1>1. IInv => GitProcessCap
    <2> SUFFICES ASSUME IInv PROVE GitProcessCap
      OBVIOUS
    <2> DEFINE A == {c \in Conns : Alive(c)}
    <2>1. IsFiniteSet(A) /\ Cardinality(A) <= gitSem
      BY AliveBounded
    <2>2. Cardinality(A) \in Nat
      BY <2>1, FS_CardinalityType
    <2>3. gitSem \in 0..GitMaxConcurrent /\ GitMaxConcurrent \in Nat
      BY HttpLimitPositive DEF IInv, TypeOK
    <2> HIDE DEF A
    <2>4. Cardinality(A) <= GitMaxConcurrent
      BY <2>1, <2>2, <2>3
    <2> QED
      BY <2>4 DEF GitProcessCap, A
  <1> QED
    BY <1>1, Inductive, PTL

(* A group the process leaves behind unsignalled belongs to a request that *)
(* passed its checks after the shutdown had been announced.                *)
THEOREM LateCorrect == Spec => []OnlyLateLeftRunning
  <1>1. IInv => OnlyLateLeftRunning
    BY DEF IInv, Custody, OnlyLateLeftRunning, GitHeld, ExitRecorded,
           DrainedIdle, GaveUpKilled, GraceCoversKill, Counted, Up, TypeOK
  <1> QED
    BY <1>1, Inductive, PTL

(* No request starts under the write deadline of the one before it on the  *)
(* same connection.                                                        *)
THEOREM WriteDeadlineCorrect == Spec => []NoStaleWriteDeadline
  <1>1. IInv => NoStaleWriteDeadline
    BY DEF IInv, Custody, NoStaleWriteDeadline, WriteBounded, TypeOK
  <1> QED
    BY <1>1, Inductive, PTL

-----------------------------------------------------------------------------
(* The handlers implement CommandPool.                                     *)

(* A group comes into being only at Fork, and ends its life by dying; its  *)
(* request is marked late only before that.                                *)
LEMMA GitChanges ==
    ASSUME IInv, Next
    PROVE  \/ /\ UNCHANGED <<main, exitBy, git>>
              /\ \A c \in Conns : Alive(c) => late'[c] = late[c]
           \/ \E c \in Conns : \/ Fork(c) \/ GitExits(c) \/ KillGroup(c)
                               \/ ProcessDies(c) \/ CommandReturns(c)
           \/ MainStep
  <1>1. ASSUME NEW c \in Conns, ConnStep(c)
        PROVE  UNCHANGED <<main, exitBy, git, late>>
    BY <1>1 DEF ConnStep, Connect, CloseUnused, Request, ClientLeaves,
           DisconnectCancels, ClientReads, BodyEnds, BodyTooLarge,
           BodyReadFails, Drained, DrainFails, mainVars, cmdVars
  <1>2. ASSUME NEW c \in Conns, Begin(c) \/ Unwind(c)
        PROVE  /\ UNCHANGED <<main, exitBy, git>>
               /\ \A d \in Conns : Alive(d) => late'[d] = late[d]
    <2>1. UNCHANGED <<main, exitBy, git>> /\ pc[c] \in {"admitted", "unwind"}
      BY <1>2 DEF Begin, Unwind, mainVars
    <2>2. \A d \in Conns : d # c => late'[d] = late[d]
      BY <1>2 DEF Begin, Unwind, IInv, TypeOK
    <2>3. ~Alive(c)
      BY <2>1 DEF IInv, Custody, GitHeld, Alive
    <2> QED
      BY <2>1, <2>2, <2>3
  <1>3. ASSUME NEW c \in Conns, HandlerStep(c), ~Begin(c), ~Unwind(c),
               ~Fork(c), ~CommandReturns(c)
        PROVE  UNCHANGED <<main, exitBy, git, late>>
    BY <1>3 DEF HandlerStep, WaitReturns, WaitReturnsOpen, Reject, Admit,
           RejectAdmitted, StartCheck, ForkFails, Write, CopyEnds, WriteFails,
           BadHeader, ClearAndRelease, Finish, mainVars, cmdVars
  <1>4. ASSUME NEW c \in Conns, ChildStep(c),
               ~GitExits(c), ~KillGroup(c), ~ProcessDies(c)
        PROVE  UNCHANGED <<main, exitBy, git, late>>
    BY <1>4 DEF ChildStep, Progress, FallsQuiet, RelayCancels, StallFinds,
           StallExpires, StallCancels, StaleExpires, mainVars
  <1>5. CASE Exited
    BY <1>5 DEF Exited, vars, mainVars, cmdVars
  <1> QED
    BY <1>1, <1>2, <1>3, <1>4, <1>5 DEF Next

(* The life of the group of a connection, as CommandPool sees it. *)
Life(c) == IF ~Alive(c) THEN "none" ELSE IF late[c] THEN "late" ELSE git[c]
Lives   == [c \in Conns |-> Life(c)]

(* The groups of CommandPool are those that are running or dying. *)
LEMMA PoolAlive == Pool!Alive = {c \in Conns : Alive(c)}
  <1>1. \A c \in Conns : Life(c) # "none" <=> Alive(c)
    BY DEF Life, Alive
  <1> QED
    BY <1>1 DEF Pool!Alive, Life

LEMMA InitPool == Init => Pool!PoolInit
  BY DEF Init, Pool!PoolInit, Alive

LEMMA NextPool ==
    ASSUME IInv, [Next]_vars
    PROVE  [Pool!PoolNext]_(Pool!poolVars)
  <1> USE DEF Pool!poolVars
  <1>1. ASSUME UNCHANGED <<main, exitBy, git>>,
               \A c \in Conns : Alive(c) => late'[c] = late[c]
        PROVE  UNCHANGED Pool!poolVars
    <2>1. \A c \in Conns : Life(c)' = Life(c)
      BY <1>1 DEF Life, Alive
    <2> QED
      BY <1>1, <2>1 DEF Life
  <1>2. ASSUME NEW c \in Conns, Up
        PROVE  main \in {"serving", "closing", "cancelled", "drained"}
    BY <1>2 DEF IInv, TypeOK, Up
  <1>3. ASSUME NEW c \in Conns, Fork(c)
        PROVE  Pool!Start(c) \/ Pool!StartLate(c)
    <2>1. main \in {"serving", "closing", "cancelled", "drained"}
      BY <1>2, <1>3 DEF Fork
    <2>2. ~Alive(c) /\ (late[c] => Cancelling)
      BY <1>3 DEF IInv, Custody, GitHeld, LateOnly, Fork, Alive
    <2>3. Pool!Cardinality(Pool!Alive) < GitMaxConcurrent
      <3> DEFINE A == {d \in Conns : Alive(d)}
                 H == {d \in Conns : pc[d] \in Holding}
      <3>1. IsFiniteSet(H)
        BY HttpConnsFinite, FS_Subset, H \subseteq Conns
      <3>2. A \cup {c} \subseteq H /\ c \notin A
        BY <1>3, <2>2 DEF IInv, Custody, GitHeld, Alive, Holding, Counted, Fork
      <3>3. gitSem = Cardinality(H)
        BY DEF IInv, CountersExact, Count
      <3>4. IsFiniteSet(A)
        BY AliveBounded
      <3> HIDE DEF A, H
      <3>5. Cardinality(A \cup {c}) = Cardinality(A) + 1
        BY <3>2, <3>4, FS_AddElement
      <3>6. Cardinality(A \cup {c}) <= Cardinality(H)
        BY <3>1, <3>2, FS_Subset
      <3>7. Cardinality(A) \in Nat
        BY <3>4, FS_CardinalityType
      <3>8. gitSem \in 0..GitMaxConcurrent /\ GitMaxConcurrent \in Nat
        BY HttpLimitPositive DEF IInv, TypeOK
      <3>9. Cardinality(A) < GitMaxConcurrent
        BY <3>3, <3>5, <3>6, <3>7, <3>8
      <3>10. Pool!Cardinality(Pool!Alive) = Cardinality(A)
        BY PoolAlive, Zenon DEF A, Pool!Cardinality, Cardinality,
                                Pool!IsFiniteSet, IsFiniteSet
      <3> QED
        BY <3>9, <3>10, Zenon
    <2>4. /\ UNCHANGED <<main, exitBy, late>>
          /\ git'[c] = "running"
          /\ \A d \in Conns : d # c => git'[d] = git[d]
      BY <1>3 DEF Fork, mainVars, IInv, TypeOK
    <2>5. Lives' = [Lives EXCEPT ![c] = IF late[c] THEN "late" ELSE "running"]
      <3>1. Life(c)' = IF late[c] THEN "late" ELSE "running"
        BY <2>4 DEF Life, Alive
      <3>2. \A d \in Conns : d # c => Life(d)' = Life(d)
        BY <2>4 DEF Life, Alive
      <3> QED
        BY <3>1, <3>2 DEF Lives
    <2>6. Lives[c] = "none"
      BY <2>2 DEF Lives, Life
    <2>7. CASE late[c]
      BY <2>1, <2>2, <2>3, <2>4, <2>5, <2>6, <2>7
         DEF Pool!StartLate, Lives, Life, Cancelling
    <2>8. CASE ~late[c]
      BY <2>1, <2>3, <2>4, <2>5, <2>6, <2>8 DEF Pool!Start, Lives, Life
    <2> QED
      BY <2>7, <2>8
  <1>4. ASSUME NEW c \in Conns, KillGroup(c)
        PROVE  Pool!Kill(c) \/ UNCHANGED Pool!poolVars
    <2>1. /\ UNCHANGED <<main, exitBy, late>>
          /\ git[c] = "running" /\ git'[c] = "killed"
          /\ \A d \in Conns : d # c => git'[d] = git[d]
      BY <1>4 DEF KillGroup, mainVars, IInv, TypeOK
    <2>2. Lives' = [Lives EXCEPT ![c] = IF late[c] THEN "late" ELSE "killed"]
      <3>1. Life(c)' = IF late[c] THEN "late" ELSE "killed"
        BY <2>1 DEF Life, Alive
      <3>2. \A d \in Conns : d # c => Life(d)' = Life(d)
        BY <2>1 DEF Life, Alive
      <3> QED
        BY <3>1, <3>2 DEF Lives
    <2>3. Lives[c] = IF late[c] THEN "late" ELSE "running"
      BY <2>1 DEF Lives, Life, Alive
    <2>4. main \in {"serving", "closing", "cancelled", "drained"}
      BY <1>2, <1>4 DEF KillGroup
    <2>5. CASE late[c]
      <3>1. Lives' = Lives
        BY <2>2, <2>3, <2>5 DEF Lives
      <3> QED
        BY <2>1, <3>1 DEF Lives, Life
    <2>6. CASE ~late[c]
      BY <2>1, <2>2, <2>3, <2>4, <2>6 DEF Pool!Kill, Lives, Life
    <2> QED
      BY <2>5, <2>6
  <1>5. ASSUME NEW c \in Conns, GitExits(c) \/ ProcessDies(c)
        PROVE  Pool!End(c)
    <2>1. /\ UNCHANGED <<main, exitBy, late>>
          /\ Alive(c) /\ git'[c] = "exited"
          /\ \A d \in Conns : d # c => git'[d] = git[d]
      BY <1>5 DEF GitExits, ProcessDies, Alive, mainVars, IInv, TypeOK
    <2>2. Lives' = [Lives EXCEPT ![c] = "none"]
      <3>1. Life(c)' = "none"
        BY <2>1 DEF Life, Alive
      <3>2. \A d \in Conns : d # c => Life(d)' = Life(d)
        BY <2>1 DEF Life, Alive
      <3> QED
        BY <3>1, <3>2 DEF Lives
    <2>3. Lives[c] # "none"
      BY <2>1 DEF Lives, Life, Alive
    <2>4. main \in {"serving", "closing", "cancelled", "drained"}
      BY <1>2, <1>5 DEF GitExits, ProcessDies
    <2> QED
      BY <2>1, <2>2, <2>3, <2>4 DEF Pool!End, Lives, Life
  <1>6. ASSUME NEW c \in Conns, CommandReturns(c)
        PROVE  UNCHANGED Pool!poolVars
    <2>1. UNCHANGED <<main, exitBy, late>>
      BY <1>6 DEF CommandReturns, mainVars
    <2>2. \A d \in Conns : Life(d)' = Life(d)
      BY <1>6, <2>1 DEF CommandReturns, Life, Alive, IInv, TypeOK
    <2> QED
      BY <2>1, <2>2 DEF Life
  <1>7. CASE MainStep
    <2>1. UNCHANGED <<git, late>>
      BY <1>7 DEF MainStep, Stop, ShutdownDone, ShutdownTimesOut,
             PollSeesZero, GiveUp, MainReturns, cmdVars
    <2>2. Lives' = Lives
      BY <2>1 DEF Lives, Life, Alive
    <2>3. CASE Stop \/ PollSeesZero \/ GiveUp
      BY <2>2, <2>3 DEF Stop, PollSeesZero, GiveUp, Lives, Life
    <2>4. CASE ShutdownDone \/ ShutdownTimesOut
      BY <2>2, <2>4 DEF ShutdownDone, ShutdownTimesOut, Pool!PoolNext,
                        Pool!Stop, Lives, Life
    <2>5. CASE MainReturns
      <3>1. main = "drained" /\ main' = "exited" /\ exitBy' = exitBy
        BY <2>5 DEF MainReturns
      <3>2. exitBy \in {"done", "gaveup"}
        BY <3>1 DEF IInv, TypeOK, Custody, ExitRecorded
      <3>3. CASE exitBy = "done"
        <4>1. \A c \in Conns : Lives[c] \in {"none", "late"}
          BY <3>3 DEF IInv, Custody, DrainedIdle, GitHeld, Counted, Alive,
                      Lives, Life
        <4> QED
          BY <2>2, <3>1, <3>3, <4>1 DEF Pool!PoolNext, Pool!Close, Lives, Life
      <3>4. CASE exitBy = "gaveup"
        <4>1. \A c \in Conns : Lives[c] # "running"
          BY <3>4 DEF IInv, Custody, GaveUpKilled, GraceCoversKill, Alive,
                      Lives, Life
        <4> QED
          BY <2>2, <3>1, <3>4, <4>1 DEF Pool!PoolNext, Pool!GiveUp, Lives, Life
      <3> QED
        BY <3>2, <3>3, <3>4
    <2> QED
      BY <1>7, <2>3, <2>4, <2>5 DEF MainStep
  <1>8. CASE UNCHANGED vars
    BY <1>1, <1>8 DEF vars, mainVars, cmdVars
  <1> QED
    BY <1>1, <1>3, <1>4, <1>5, <1>6, <1>7, <1>8, GitChanges DEF Pool!PoolNext

(* Every behaviour of the HTTP side is one of a pool that lets commands    *)
(* begin while it stops: never more than the cap, and nothing left running *)
(* but what began late.                                                    *)
THEOREM Implementation == Spec => ImplementsPool
  BY InitPool, NextPool, Inductive, PTL DEF Spec, Pool!PoolSpec, ImplementsPool
=============================================================================
