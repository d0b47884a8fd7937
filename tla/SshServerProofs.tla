--------------------------- MODULE SshServerProofs ---------------------------
(***************************************************************************)
(* Proofs about SshServer for every number of connections and channels and *)
(* every value of the limits.                                              *)
(***************************************************************************)
EXTENDS SshServer, Counting

-----------------------------------------------------------------------------
(* The channels are finitely many, in all and of each connection. *)
LEMMA ChannelsFinite ==
    /\ IsFiniteSet(Channels)
    /\ \A c \in Conns : IsFiniteSet(Of(c))
  <1>1. IsFiniteSet(Channels)
    BY FS_Product, ConnsFinite, ChanIdsFinite DEF Channels
  <1>2. \A c \in Conns : Of(c) \subseteq Channels
    BY DEF Of
  <1> QED
    BY <1>1, <1>2, FS_Subset

-----------------------------------------------------------------------------
(* The inductive invariant.                                                *)

(* A git process group belongs to a session inside cmd.Run. *)
GitHeld == \A s \in Channels : git[s] # "none" => At(s, "running")

(* exitBy is set exactly when the process ends. *)
ExitRecorded == exitBy = "none" <=> main # "exited"

(* After the wait saw zero, no session is between the check of its context *)
(* and the end of its git.                                                 *)
DrainedIdle ==
    main = "drained" \/ exitBy = "done"
        => \A s \in Channels : ~At(s, "forking") /\ ~At(s, "running")

(* A server that gave up has signalled every group. *)
GaveUpKilled == exitBy = "gaveup" => \A s \in Channels : git[s] # "running"

(* A watchdog runs only beside its connection's handler. *)
WatchdogOwned ==
    \A c \in Conns : watchdog[c] # "off" => conn[c] \in {"serving", "lost"}

IInv == /\ TypeOK
        /\ CountersExact
        /\ GitHeld
        /\ ExitRecorded
        /\ DrainedIdle
        /\ GaveUpKilled
        /\ WatchdogOwned

LEMMA InitIInv == Init => IInv
  <1> SUFFICES ASSUME Init PROVE IInv
    OBVIOUS
  <1>1. TypeOK
    BY LimitsPositive DEF Init, TypeOK, PCs, Live, Holding
  <1>2. \A s \in Channels : pc[s] \notin Holding /\ pc[s] \notin Counted
                            /\ pc[s] \notin Live
    BY DEF Init, Holding, Counted, Live
  <1>3. Cardinality({c \in Conns : conn[c] # "none"}) = 0
    <2>1. {c \in Conns : conn[c] # "none"} = {}
      BY DEF Init
    <2> QED
      BY <2>1, FS_EmptySet
  <1>4. Count(Channels, Holding) = 0 /\ Count(Channels, Counted) = 0
    <2>1. /\ {s \in Channels : pc[s] \in Holding} = {}
          /\ {s \in Channels : pc[s] \in Counted} = {}
      BY <1>2
    <2> QED
      BY <2>1, FS_EmptySet DEF Count
  <1>5. ASSUME NEW c \in Conns
        PROVE  Count(Of(c), Counted) = 0 /\ Count(Of(c), Live) = 0
    <2>1. /\ {s \in Of(c) : pc[s] \in Counted} = {}
          /\ {s \in Of(c) : pc[s] \in Live} = {}
      BY <1>2 DEF Of
    <2> QED
      BY <2>1, FS_EmptySet DEF Count
  <1>6. CountersExact
    BY <1>3, <1>4, <1>5 DEF CountersExact, Init
  <1> QED
    BY <1>1, <1>6 DEF IInv, GitHeld, ExitRecorded, DrainedIdle, GaveUpKilled,
                      WatchdogOwned, Init, At

-----------------------------------------------------------------------------
(* What the move of one session does to the counts.                        *)

LEMMA SessionMoves ==
    ASSUME TypeOK, NEW s \in Channels, NEW p, NEW P,
           pc' = [pc EXCEPT ![s] = p]
    PROVE  /\ Count(Channels, P)' = Count(Channels, P)
                                      + Bit(p \in P) - Bit(pc[s] \in P)
           /\ Count(Of(Owner(s)), P)' = Count(Of(Owner(s)), P)
                                      + Bit(p \in P) - Bit(pc[s] \in P)
           /\ \A c \in Conns : c # Owner(s) =>
                Count(Of(c), P)' = Count(Of(c), P)
  <1>1. /\ \A t \in Channels : t # s => pc'[t] = pc[t]
        /\ pc'[s] = p
    BY DEF TypeOK
  <1>2. ASSUME NEW S, IsFiniteSet(S), S \subseteq Channels, s \in S
        PROVE  Count(S, P)' = Count(S, P) + Bit(p \in P) - Bit(pc[s] \in P)
    <2> DEFINE T == {t \in S : pc[t] \in P}
               U == {t \in S : pc'[t] \in P}
    <2>1. IsFiniteSet(T)
      BY <1>2, FS_Subset, T \subseteq S
    <2>2. U \ {s} = T \ {s}
      BY <1>1, <1>2
    <2>3. (s \in T <=> pc[s] \in P) /\ (s \in U <=> p \in P)
      BY <1>1, <1>2
    <2> HIDE DEF T, U
    <2>4. Cardinality(U) = Cardinality(T) + Bit(s \in U) - Bit(s \in T)
      BY <2>1, <2>2, OneMoves
    <2>5. Bit(s \in U) = Bit(p \in P) /\ Bit(s \in T) = Bit(pc[s] \in P)
      BY <2>3 DEF Bit
    <2> QED
      BY <2>4, <2>5 DEF Count, T, U
  <1>3. ASSUME NEW S, S \subseteq Channels, s \notin S
        PROVE  Count(S, P)' = Count(S, P)
    <2>1. {t \in S : pc'[t] \in P} = {t \in S : pc[t] \in P}
      BY <1>1, <1>3
    <2> QED
      BY <2>1 DEF Count
  <1>4. Owner(s) \in Conns /\ s \in Of(Owner(s))
    BY DEF Of, Owner, Channels
  <1>5. \A c \in Conns : /\ Of(c) \subseteq Channels
                         /\ c # Owner(s) => s \notin Of(c)
    BY DEF Of
  <1> QED
    BY <1>2, <1>3, <1>4, <1>5, ChannelsFinite

-----------------------------------------------------------------------------
(* How each step preserves the counters.                                   *)

(* Who holds a token keeps its counter positive. *)
LEMMA HoldersCount ==
    ASSUME TypeOK, CountersExact
    PROVE  /\ \A s \in Channels :
                /\ Owner(s) \in Conns
                /\ pc[s] \in Holding => gitSem >= 1
                /\ pc[s] \in Counted => gitWG >= 1 /\ active[Owner(s)] >= 1
                /\ pc[s] \in Live => sessions[Owner(s)] >= 1
           /\ \A c \in Conns : conn[c] # "none" => connSem >= 1
  <1>1. ASSUME NEW S, IsFiniteSet(S), NEW P, NEW s \in S, pc[s] \in P
        PROVE  Count(S, P) >= 1
    <2> DEFINE T == {t \in S : pc[t] \in P}
    <2>1. IsFiniteSet(T) /\ s \in T
      BY <1>1, FS_Subset, T \subseteq S
    <2> HIDE DEF T
    <2>2. Cardinality(T) >= 1
      BY <2>1, OneMoves
    <2> QED
      BY <2>2 DEF Count, T
  <1>2. ASSUME NEW c \in Conns, conn[c] # "none"
        PROVE  Cardinality({d \in Conns : conn[d] # "none"}) >= 1
    <2> DEFINE T == {d \in Conns : conn[d] # "none"}
    <2>1. IsFiniteSet(T) /\ c \in T
      BY <1>2, ConnsFinite, FS_Subset, T \subseteq Conns
    <2> HIDE DEF T
    <2>2. Cardinality(T) >= 1
      BY <2>1, OneMoves
    <2> QED
      BY <2>2 DEF T
  <1>3. ASSUME NEW s \in Channels
        PROVE  Owner(s) \in Conns /\ s \in Of(Owner(s))
    BY DEF Of, Owner, Channels
  <1> QED
    BY <1>1, <1>2, <1>3, ChannelsFinite DEF CountersExact

(* The session s moves to p, taking and returning the tokens of the classes *)
(* it enters and leaves.                                                   *)
SessionMove(s, p) ==
    /\ pc' = [pc EXCEPT ![s] = p]
    /\ UNCHANGED <<conn, connSem>>
    /\ gitSem' = gitSem + Bit(p \in Holding) - Bit(pc[s] \in Holding)
    /\ gitWG' = gitWG + Bit(p \in Counted) - Bit(pc[s] \in Counted)
    /\ active'[Owner(s)] = active[Owner(s)]
                             + Bit(p \in Counted) - Bit(pc[s] \in Counted)
    /\ sessions'[Owner(s)] = sessions[Owner(s)]
                               + Bit(p \in Live) - Bit(pc[s] \in Live)
    /\ \A c \in Conns : c # Owner(s) => /\ active'[c] = active[c]
                                        /\ sessions'[c] = sessions[c]

(* Such a move keeps every counter exact. *)
LEMMA SessionCounts ==
    ASSUME TypeOK, CountersExact, NEW s \in Channels, NEW p,
           SessionMove(s, p)
    PROVE  CountersExact'
  <1>1. /\ Count(Channels, Holding)' = gitSem'
        /\ Count(Channels, Counted)' = gitWG'
    BY SessionMoves DEF CountersExact, SessionMove
  <1>2. Owner(s) \in Conns
    BY DEF Owner, Channels
  <1>3. /\ Count(Of(Owner(s)), Counted)' = active'[Owner(s)]
        /\ Count(Of(Owner(s)), Live)' = sessions'[Owner(s)]
    <2>1. /\ active[Owner(s)] = Count(Of(Owner(s)), Counted)
          /\ sessions[Owner(s)] = Count(Of(Owner(s)), Live)
      BY <1>2 DEF CountersExact
    <2>2. Count(Of(Owner(s)), Counted)' = Count(Of(Owner(s)), Counted)
                     + Bit(p \in Counted) - Bit(pc[s] \in Counted)
      BY SessionMoves DEF SessionMove
    <2>3. Count(Of(Owner(s)), Live)' = Count(Of(Owner(s)), Live)
                     + Bit(p \in Live) - Bit(pc[s] \in Live)
      BY SessionMoves DEF SessionMove
    <2> QED
      BY <2>1, <2>2, <2>3, Zenon DEF SessionMove
  <1>4. ASSUME NEW c \in Conns, c # Owner(s)
        PROVE  /\ Count(Of(c), Counted)' = active'[c]
               /\ Count(Of(c), Live)' = sessions'[c]
    BY <1>4, SessionMoves DEF CountersExact, SessionMove
  <1>5. connSem' = Cardinality({c \in Conns : conn'[c] # "none"})
    BY DEF CountersExact, SessionMove
  <1>6. \A c \in Conns : /\ Count(Of(c), Counted)' = active'[c]
                         /\ Count(Of(c), Live)' = sessions'[c]
    BY <1>3, <1>4, Zenon
  <1> QED
    BY <1>1, <1>5, <1>6 DEF CountersExact

(* The handler of c moves to v, taking or returning the slot of c. *)
ConnMove(c, v) ==
    /\ conn' = [conn EXCEPT ![c] = v]
    /\ UNCHANGED <<gitSem, gitWG, active, sessions, pc>>
    /\ connSem' = connSem + Bit(v # "none") - Bit(conn[c] # "none")

(* Such a move keeps every counter exact, too. *)
LEMMA ConnCounts ==
    ASSUME TypeOK, CountersExact, NEW c \in Conns, NEW v, ConnMove(c, v)
    PROVE  CountersExact'
  <1> DEFINE T == {d \in Conns : conn[d] # "none"}
             U == {d \in Conns : conn'[d] # "none"}
  <1>1. IsFiniteSet(T)
    BY ConnsFinite, FS_Subset, T \subseteq Conns
  <1>2. conn'[c] = v /\ \A d \in Conns : d # c => conn'[d] = conn[d]
    BY DEF TypeOK, ConnMove
  <1>3. U \ {c} = T \ {c} /\ (c \in U <=> v # "none")
                          /\ (c \in T <=> conn[c] # "none")
    BY <1>2
  <1> HIDE DEF T, U
  <1>4. Cardinality(U) = Cardinality(T) + Bit(c \in U) - Bit(c \in T)
    BY <1>1, <1>3, OneMoves
  <1>5. Bit(c \in U) = Bit(v # "none") /\ Bit(c \in T) = Bit(conn[c] # "none")
    BY <1>3 DEF Bit
  <1>6. connSem' = Cardinality(U)
    BY <1>4, <1>5 DEF T, CountersExact, ConnMove
  <1> QED
    BY <1>6 DEF U, CountersExact, Count, ConnMove

(* A step that moves neither leaves every counter exact. *)
LEMMA NoCounts ==
    ASSUME CountersExact,
           UNCHANGED <<counters, conn, pc>>
    PROVE  CountersExact'
  BY DEF CountersExact, counters, Count

-----------------------------------------------------------------------------
(* The inductive step, action by action.                                   *)
(* The part of the invariant that says where git processes may be. *)
Custody == /\ GitHeld
           /\ ExitRecorded
           /\ DrainedIdle
           /\ GaveUpKilled
           /\ WatchdogOwned

(* Steps of a connection and of its watchdog. *)
LEMMA ConnInductive ==
    ASSUME IInv, NEW c \in Conns, ConnStep(c)
    PROVE  IInv'
  <1>a. /\ TypeOK /\ CountersExact
        /\ conn[c] # "none" => connSem >= 1
    BY HoldersCount DEF IInv
  <1>1. CASE Accept(c)
    <2>1. TypeOK'
      BY <1>a, <1>1, LimitsPositive
         DEF Accept, TypeOK, At, PCs, Live, Holding, Counted, Up,
             serverVars, connVars, counters, sessVars, Unused
    <2>2. CountersExact'
      <3>1. ConnMove(c, "handshake")
        BY <1>a, <1>1
           DEF Accept, ConnMove, Bit, TypeOK, At, Holding, Counted, Live,
               Up, serverVars, connVars, counters, sessVars, Unused
      <3> QED
        BY <1>a, <3>1, ConnCounts
    <2>3. Custody'
      BY <1>1
         DEF IInv, Custody, GitHeld, ExitRecorded, DrainedIdle,
             GaveUpKilled, WatchdogOwned, TypeOK, Accept, At, Up, serverVars,
             connVars, counters, sessVars, Unused
    <2> QED
      BY <2>1, <2>2, <2>3 DEF IInv, Custody
  <1>2. CASE HandshakeDone(c)
    <2>1. TypeOK'
      BY <1>a, <1>2, LimitsPositive
         DEF HandshakeDone, TypeOK, At, PCs, Live, Holding, Counted, Up,
             serverVars, connVars, counters, sessVars
    <2>2. CountersExact'
      <3>1. ConnMove(c, "serving")
        BY <1>a, <1>2
           DEF HandshakeDone, ConnMove, Bit, TypeOK, At, Holding, Counted,
               Live, Up, serverVars, connVars, counters, sessVars
      <3> QED
        BY <1>a, <3>1, ConnCounts
    <2>3. Custody'
      BY <1>2
         DEF IInv, Custody, GitHeld, ExitRecorded, DrainedIdle,
             GaveUpKilled, WatchdogOwned, TypeOK, HandshakeDone, At, Up,
             serverVars, connVars, counters, sessVars
    <2> QED
      BY <2>1, <2>2, <2>3 DEF IInv, Custody
  <1>3. CASE HandshakeFails(c)
    <2>1. TypeOK'
      BY <1>a, <1>3, LimitsPositive
         DEF HandshakeFails, TypeOK, At, PCs, Live, Holding, Counted, Up,
             serverVars, connVars, counters, sessVars
    <2>2. CountersExact'
      <3>1. ConnMove(c, "none")
        BY <1>a, <1>3
           DEF HandshakeFails, ConnMove, Bit, TypeOK, At, Holding, Counted,
               Live, Up, serverVars, connVars, counters, sessVars
      <3> QED
        BY <1>a, <3>1, ConnCounts
    <2>3. Custody'
      BY <1>3
         DEF IInv, Custody, GitHeld, ExitRecorded, DrainedIdle,
             GaveUpKilled, WatchdogOwned, TypeOK, HandshakeFails, At, Up,
             serverVars, connVars, counters, sessVars
    <2> QED
      BY <2>1, <2>2, <2>3 DEF IInv, Custody
  <1>4. CASE ClientDisconnects(c)
    <2>1. TypeOK'
      BY <1>a, <1>4, LimitsPositive
         DEF ClientDisconnects, TypeOK, At, PCs, Live, Holding, Counted, Up,
             serverVars, connVars, counters, sessVars, Drop
    <2>2. CountersExact'
      <3>1. ConnMove(c, "lost")
        BY <1>a, <1>4
           DEF ClientDisconnects, ConnMove, Bit, TypeOK, At, Holding,
               Counted, Live, Up, serverVars, connVars, counters, sessVars, Drop
      <3> QED
        BY <1>a, <3>1, ConnCounts
    <2>3. Custody'
      BY <1>4
         DEF IInv, Custody, GitHeld, ExitRecorded, DrainedIdle,
             GaveUpKilled, WatchdogOwned, TypeOK, ClientDisconnects, At, Up,
             serverVars, connVars, counters, sessVars, Drop
    <2> QED
      BY <2>1, <2>2, <2>3 DEF IInv, Custody
  <1>5. CASE HandleConnReturns(c)
    <2>1. TypeOK'
      BY <1>a, <1>5, LimitsPositive
         DEF HandleConnReturns, TypeOK, At, PCs, Live, Holding, Counted, Up,
             serverVars, connVars, counters, sessVars
    <2>2. CountersExact'
      <3>1. ConnMove(c, "none")
        BY <1>a, <1>5
           DEF HandleConnReturns, ConnMove, Bit, TypeOK, At, Holding,
               Counted, Live, Up, serverVars, connVars, counters, sessVars
      <3> QED
        BY <1>a, <3>1, ConnCounts
    <2>3. Custody'
      BY <1>5
         DEF IInv, Custody, GitHeld, ExitRecorded, DrainedIdle,
             GaveUpKilled, WatchdogOwned, TypeOK, HandleConnReturns, At, Up,
             serverVars, connVars, counters, sessVars
    <2> QED
      BY <2>1, <2>2, <2>3 DEF IInv, Custody
  <1>6. CASE WatchdogTick(c)
    <2>1. TypeOK'
      BY <1>a, <1>6, LimitsPositive
         DEF WatchdogTick, TypeOK, At, PCs, Live, Holding, Counted, Up,
             serverVars, connVars, counters, sessVars
    <2>2. CountersExact'
      BY <1>a, <1>6, NoCounts
         DEF WatchdogTick, Up, serverVars, connVars, counters, sessVars
    <2>3. Custody'
      BY <1>6
         DEF IInv, Custody, GitHeld, ExitRecorded, DrainedIdle,
             GaveUpKilled, WatchdogOwned, TypeOK, WatchdogTick, At, Up,
             serverVars, connVars, counters, sessVars
    <2> QED
      BY <2>1, <2>2, <2>3 DEF IInv, Custody
  <1>7. CASE WatchdogFindsIdle(c)
    <2>1. TypeOK'
      BY <1>a, <1>7, LimitsPositive
         DEF WatchdogFindsIdle, TypeOK, At, PCs, Live, Holding, Counted, Up,
             serverVars, connVars, counters, sessVars
    <2>2. CountersExact'
      BY <1>a, <1>7, NoCounts
         DEF WatchdogFindsIdle, Up, serverVars, connVars, counters, sessVars
    <2>3. Custody'
      BY <1>7
         DEF IInv, Custody, GitHeld, ExitRecorded, DrainedIdle,
             GaveUpKilled, WatchdogOwned, TypeOK, WatchdogFindsIdle, At, Up,
             serverVars, connVars, counters, sessVars
    <2> QED
      BY <2>1, <2>2, <2>3 DEF IInv, Custody
  <1>8. CASE WatchdogFindsRecent(c)
    <2>1. TypeOK'
      BY <1>a, <1>8, LimitsPositive
         DEF WatchdogFindsRecent, TypeOK, At, PCs, Live, Holding, Counted,
             Up, serverVars, connVars, counters, sessVars
    <2>2. CountersExact'
      BY <1>a, <1>8, NoCounts
         DEF WatchdogFindsRecent, Up, serverVars, connVars, counters,
             sessVars
    <2>3. Custody'
      BY <1>8
         DEF IInv, Custody, GitHeld, ExitRecorded, DrainedIdle,
             GaveUpKilled, WatchdogOwned, TypeOK, WatchdogFindsRecent, At, Up,
             serverVars, connVars, counters, sessVars
    <2> QED
      BY <2>1, <2>2, <2>3 DEF IInv, Custody
  <1>9. CASE WatchdogCloses(c)
    <2>1. TypeOK'
      BY <1>a, <1>9, LimitsPositive
         DEF WatchdogCloses, TypeOK, At, PCs, Live, Holding, Counted, Up,
             serverVars, connVars, counters, sessVars, Drop
    <2>2. CountersExact'
      <3>1. ConnMove(c, "lost")
        BY <1>a, <1>9
           DEF IInv, WatchdogOwned, WatchdogCloses, ConnMove, Bit, TypeOK,
               At, Holding, Counted, Live, Up, serverVars, connVars, counters,
               sessVars, Drop
      <3> QED
        BY <1>a, <3>1, ConnCounts
    <2>3. Custody'
      BY <1>9
         DEF IInv, Custody, GitHeld, ExitRecorded, DrainedIdle,
             GaveUpKilled, WatchdogOwned, TypeOK, WatchdogCloses, At, Up,
             serverVars, connVars, counters, sessVars, Drop
    <2> QED
      BY <2>1, <2>2, <2>3 DEF IInv, Custody
  <1> QED
    BY <1>1, <1>2, <1>3, <1>4, <1>5, <1>6, <1>7, <1>8, <1>9
       DEF ConnStep, WatchdogStep

(* Steps of the peer and of the guard of a channel. *)
LEMMA ChannelInductive ==
    ASSUME IInv, NEW s \in Channels, ChannelStep(s)
    PROVE  IInv'
  <1>a. /\ TypeOK /\ CountersExact /\ Owner(s) \in Conns
        /\ pc[s] \in Holding => gitSem >= 1
        /\ pc[s] \in Counted => gitWG >= 1 /\ active[Owner(s)] >= 1
        /\ pc[s] \in Live => sessions[Owner(s)] >= 1
    BY HoldersCount DEF IInv
  <1>1. CASE OpenChannel(s)
    <2>1. TypeOK'
      BY <1>a, <1>1, LimitsPositive
         DEF OpenChannel, TypeOK, At, PCs, Live, Holding, Counted, Up,
             serverVars, connVars, counters, sessVars
    <2>2. CountersExact'
      <3>1. SessionMove(s, "await")
        BY <1>a, <1>1
           DEF OpenChannel, SessionMove, Bit, TypeOK, At, Holding, Counted,
               Live, Up, serverVars, connVars, counters, sessVars
      <3> QED
        BY <1>a, <3>1, SessionCounts
    <2>3. Custody'
      BY <1>1
         DEF IInv, Custody, GitHeld, ExitRecorded, DrainedIdle,
             GaveUpKilled, WatchdogOwned, OpenChannel, At, Up, serverVars,
             connVars, counters, sessVars
    <2> QED
      BY <2>1, <2>2, <2>3 DEF IInv, Custody
  <1>2. CASE PeerCloses(s)
    <2>1. TypeOK'
      BY <1>a, <1>2, LimitsPositive
         DEF PeerCloses, TypeOK, At, PCs, Live, Holding, Counted, Up,
             serverVars, connVars, counters, sessVars
    <2>2. CountersExact'
      BY <1>a, <1>2, NoCounts
         DEF PeerCloses, Up, serverVars, connVars, counters, sessVars
    <2>3. Custody'
      BY <1>2
         DEF IInv, Custody, GitHeld, ExitRecorded, DrainedIdle,
             GaveUpKilled, WatchdogOwned, PeerCloses, At, Up, serverVars,
             connVars, counters, sessVars
    <2> QED
      BY <2>1, <2>2, <2>3 DEF IInv, Custody
  <1>3. CASE PeerAnswersClose(s)
    <2>1. TypeOK'
      BY <1>a, <1>3, LimitsPositive
         DEF PeerAnswersClose, TypeOK, At, PCs, Live, Holding, Counted, Up,
             serverVars, connVars, counters, sessVars
    <2>2. CountersExact'
      BY <1>a, <1>3, NoCounts
         DEF PeerAnswersClose, Up, serverVars, connVars, counters, sessVars
    <2>3. Custody'
      BY <1>3
         DEF IInv, Custody, GitHeld, ExitRecorded, DrainedIdle,
             GaveUpKilled, WatchdogOwned, PeerAnswersClose, At, Up, serverVars,
             connVars, counters, sessVars
    <2> QED
      BY <2>1, <2>2, <2>3 DEF IInv, Custody
  <1>4. CASE GuardFires(s)
    <2>1. TypeOK'
      BY <1>a, <1>4, LimitsPositive
         DEF GuardFires, TypeOK, At, PCs, Live, Holding, Counted, Up,
             serverVars, connVars, counters, sessVars
    <2>2. CountersExact'
      BY <1>a, <1>4, NoCounts
         DEF GuardFires, Up, serverVars, connVars, counters, sessVars
    <2>3. Custody'
      BY <1>4
         DEF IInv, Custody, GitHeld, ExitRecorded, DrainedIdle,
             GaveUpKilled, WatchdogOwned, GuardFires, At, Up, serverVars,
             connVars, counters, sessVars
    <2> QED
      BY <2>1, <2>2, <2>3 DEF IInv, Custody
  <1>5. CASE GuardCloses(s)
    <2>1. TypeOK'
      BY <1>a, <1>5, LimitsPositive
         DEF GuardCloses, TypeOK, At, PCs, Live, Holding, Counted, Up,
             serverVars, connVars, counters, sessVars, LocalClose
    <2>2. CountersExact'
      BY <1>a, <1>5, NoCounts
         DEF GuardCloses, Up, serverVars, connVars, counters, sessVars,
             LocalClose
    <2>3. Custody'
      BY <1>5
         DEF IInv, Custody, GitHeld, ExitRecorded, DrainedIdle,
             GaveUpKilled, WatchdogOwned, GuardCloses, At, Up, serverVars,
             connVars, counters, sessVars, LocalClose
    <2> QED
      BY <2>1, <2>2, <2>3 DEF IInv, Custody
  <1> QED
    BY <1>1, <1>2, <1>3, <1>4, <1>5
       DEF ChannelStep

(* Steps of a session goroutine. *)
LEMMA SessionInductive ==
    ASSUME IInv, NEW s \in Channels, SessionStep(s)
    PROVE  IInv'
  <1>a. /\ TypeOK /\ CountersExact /\ Owner(s) \in Conns
        /\ pc[s] \in Holding => gitSem >= 1
        /\ pc[s] \in Counted => gitWG >= 1 /\ active[Owner(s)] >= 1
        /\ pc[s] \in Live => sessions[Owner(s)] >= 1
    BY HoldersCount DEF IInv
  <1>1. CASE RequestsEnd(s)
    <2>1. TypeOK'
      BY <1>a, <1>1, LimitsPositive
         DEF RequestsEnd, TypeOK, At, PCs, Live, Holding, Counted, Up,
             serverVars, connVars, counters, sessVars, Finish
    <2>2. CountersExact'
      <3>1. SessionMove(s, "none")
        BY <1>a, <1>1
           DEF RequestsEnd, SessionMove, Bit, TypeOK, At, Holding, Counted,
               Live, Up, serverVars, connVars, counters, sessVars, Finish
      <3> QED
        BY <1>a, <3>1, SessionCounts
    <2>3. Custody'
      BY <1>1
         DEF IInv, Custody, GitHeld, ExitRecorded, DrainedIdle,
             GaveUpKilled, WatchdogOwned, TypeOK, RequestsEnd, At, Up,
             serverVars, connVars, counters, sessVars, Finish
    <2> QED
      BY <2>1, <2>2, <2>3 DEF IInv, Custody
  <1>2. CASE ExecRequest(s)
    <2>1. TypeOK'
      BY <1>a, <1>2, LimitsPositive
         DEF ExecRequest, TypeOK, At, PCs, Live, Holding, Counted, Up,
             serverVars, connVars, counters, sessVars, StopGuard
    <2>2. CountersExact'
      <3>1. SessionMove(s, "exec")
        BY <1>a, <1>2
           DEF ExecRequest, SessionMove, Bit, TypeOK, At, Holding, Counted,
               Live, Up, serverVars, connVars, counters, sessVars, StopGuard
      <3> QED
        BY <1>a, <3>1, SessionCounts
    <2>3. Custody'
      BY <1>2
         DEF IInv, Custody, GitHeld, ExitRecorded, DrainedIdle,
             GaveUpKilled, WatchdogOwned, TypeOK, ExecRequest, At, Up,
             serverVars, connVars, counters, sessVars, StopGuard
    <2> QED
      BY <2>1, <2>2, <2>3 DEF IInv, Custody
  <1>3. CASE BadRequest(s)
    <2>1. TypeOK'
      BY <1>a, <1>3, LimitsPositive
         DEF BadRequest, TypeOK, At, PCs, Live, Holding, Counted, Up,
             serverVars, connVars, counters, sessVars, StopGuard
    <2>2. CountersExact'
      <3>1. SessionMove(s, "status")
        BY <1>a, <1>3
           DEF BadRequest, SessionMove, Bit, TypeOK, At, Holding, Counted,
               Live, Up, serverVars, connVars, counters, sessVars, StopGuard
      <3> QED
        BY <1>a, <3>1, SessionCounts
    <2>3. Custody'
      BY <1>3
         DEF IInv, Custody, GitHeld, ExitRecorded, DrainedIdle,
             GaveUpKilled, WatchdogOwned, TypeOK, BadRequest, At, Up,
             serverVars, connVars, counters, sessVars, StopGuard
    <2> QED
      BY <2>1, <2>2, <2>3 DEF IInv, Custody
  <1>4. CASE Refuse(s)
    <2>1. TypeOK'
      BY <1>a, <1>4, LimitsPositive
         DEF Refuse, TypeOK, At, PCs, Live, Holding, Counted, Up,
             serverVars, connVars, counters, sessVars
    <2>2. CountersExact'
      <3>1. SessionMove(s, "status")
        BY <1>a, <1>4
           DEF Refuse, SessionMove, Bit, TypeOK, At, Holding, Counted, Live,
               Up, serverVars, connVars, counters, sessVars
      <3> QED
        BY <1>a, <3>1, SessionCounts
    <2>3. Custody'
      BY <1>4
         DEF IInv, Custody, GitHeld, ExitRecorded, DrainedIdle,
             GaveUpKilled, WatchdogOwned, TypeOK, Refuse, At, Up, serverVars,
             connVars, counters, sessVars
    <2> QED
      BY <2>1, <2>2, <2>3 DEF IInv, Custody
  <1>5. CASE Admit(s)
    <2>1. TypeOK'
      BY <1>a, <1>5, LimitsPositive
         DEF Admit, TypeOK, At, PCs, Live, Holding, Counted, Up, serverVars,
             connVars, counters, sessVars
    <2>2. CountersExact'
      <3>1. SessionMove(s, "admitted")
        BY <1>a, <1>5
           DEF Admit, SessionMove, Bit, TypeOK, At, Holding, Counted, Live,
               Up, serverVars, connVars, counters, sessVars
      <3> QED
        BY <1>a, <3>1, SessionCounts
    <2>3. Custody'
      BY <1>5
         DEF IInv, Custody, GitHeld, ExitRecorded, DrainedIdle,
             GaveUpKilled, WatchdogOwned, TypeOK, Admit, At, Up, serverVars,
             connVars, counters, sessVars
    <2> QED
      BY <2>1, <2>2, <2>3 DEF IInv, Custody
  <1>6. CASE Register(s)
    <2>1. TypeOK'
      BY <1>a, <1>6, LimitsPositive
         DEF Register, TypeOK, At, PCs, Live, Holding, Counted, Up,
             serverVars, connVars, counters, sessVars
    <2>2. CountersExact'
      <3>1. SessionMove(s, "registered")
        BY <1>a, <1>6
           DEF Register, SessionMove, Bit, TypeOK, At, Holding, Counted,
               Live, Up, serverVars, connVars, counters, sessVars
      <3> QED
        BY <1>a, <3>1, SessionCounts
    <2>3. Custody'
      BY <1>6
         DEF IInv, Custody, GitHeld, ExitRecorded, DrainedIdle,
             GaveUpKilled, WatchdogOwned, TypeOK, Register, At, Up, serverVars,
             connVars, counters, sessVars
    <2> QED
      BY <2>1, <2>2, <2>3 DEF IInv, Custody
  <1>7. CASE StartCheck(s)
    <2>1. TypeOK'
      BY <1>a, <1>7, LimitsPositive
         DEF StartCheck, TypeOK, At, PCs, Live, Holding, Counted, Up,
             serverVars, connVars, counters, sessVars, CtxDone
    <2>2. CountersExact'
      <3>1. SessionMove(s, IF CtxDone(s) THEN "unwind" ELSE "forking")
        BY <1>a, <1>7
           DEF StartCheck, SessionMove, Bit, TypeOK, At, Holding, Counted,
               Live, Up, serverVars, connVars, counters, sessVars, CtxDone
      <3> QED
        BY <1>a, <3>1, SessionCounts
    <2>3. Custody'
      BY <1>7
         DEF IInv, Custody, GitHeld, ExitRecorded, DrainedIdle,
             GaveUpKilled, WatchdogOwned, CtxDone, ShutdownCancelled, TypeOK,
             StartCheck, At, Up, serverVars, connVars, counters, sessVars,
             CtxDone
    <2> QED
      BY <2>1, <2>2, <2>3 DEF IInv, Custody
  <1>8. CASE Fork(s)
    <2>1. TypeOK'
      BY <1>a, <1>8, LimitsPositive
         DEF Fork, TypeOK, At, PCs, Live, Holding, Counted, Up, serverVars,
             connVars, counters, sessVars
    <2>2. CountersExact'
      <3>1. SessionMove(s, "running")
        BY <1>a, <1>8
           DEF Fork, SessionMove, Bit, TypeOK, At, Holding, Counted, Live,
               Up, serverVars, connVars, counters, sessVars
      <3> QED
        BY <1>a, <3>1, SessionCounts
    <2>3. Custody'
      BY <1>8
         DEF IInv, Custody, GitHeld, ExitRecorded, DrainedIdle,
             GaveUpKilled, WatchdogOwned, TypeOK, Fork, At, Up, serverVars,
             connVars, counters, sessVars
    <2> QED
      BY <2>1, <2>2, <2>3 DEF IInv, Custody
  <1>9. CASE ForkFails(s)
    <2>1. TypeOK'
      BY <1>a, <1>9, LimitsPositive
         DEF ForkFails, TypeOK, At, PCs, Live, Holding, Counted, Up,
             serverVars, connVars, counters, sessVars
    <2>2. CountersExact'
      <3>1. SessionMove(s, "unwind")
        BY <1>a, <1>9
           DEF ForkFails, SessionMove, Bit, TypeOK, At, Holding, Counted,
               Live, Up, serverVars, connVars, counters, sessVars
      <3> QED
        BY <1>a, <3>1, SessionCounts
    <2>3. Custody'
      BY <1>9
         DEF IInv, Custody, GitHeld, ExitRecorded, DrainedIdle,
             GaveUpKilled, WatchdogOwned, TypeOK, ForkFails, At, Up, serverVars,
             connVars, counters, sessVars
    <2> QED
      BY <2>1, <2>2, <2>3 DEF IInv, Custody
  <1>10. CASE RunReturns(s)
    <2>1. TypeOK'
      BY <1>a, <1>10, LimitsPositive
         DEF RunReturns, TypeOK, At, PCs, Live, Holding, Counted, Up,
             serverVars, connVars, counters, sessVars
    <2>2. CountersExact'
      <3>1. SessionMove(s, "unwind")
        BY <1>a, <1>10
           DEF RunReturns, SessionMove, Bit, TypeOK, At, Holding, Counted,
               Live, Up, serverVars, connVars, counters, sessVars
      <3> QED
        BY <1>a, <3>1, SessionCounts
    <2>3. Custody'
      BY <1>10
         DEF IInv, Custody, GitHeld, ExitRecorded, DrainedIdle,
             GaveUpKilled, WatchdogOwned, TypeOK, RunReturns, At, Up,
             serverVars, connVars, counters, sessVars
    <2> QED
      BY <2>1, <2>2, <2>3 DEF IInv, Custody
  <1>11. CASE Unwind(s)
    <2>1. TypeOK'
      BY <1>a, <1>11, LimitsPositive
         DEF Unwind, TypeOK, At, PCs, Live, Holding, Counted, Up,
             serverVars, connVars, counters, sessVars
    <2>2. CountersExact'
      <3>1. SessionMove(s, "ending")
        BY <1>a, <1>11
           DEF Unwind, SessionMove, Bit, TypeOK, At, Holding, Counted, Live,
               Up, serverVars, connVars, counters, sessVars
      <3> QED
        BY <1>a, <3>1, SessionCounts
    <2>3. Custody'
      BY <1>11
         DEF IInv, Custody, GitHeld, ExitRecorded, DrainedIdle,
             GaveUpKilled, WatchdogOwned, TypeOK, Unwind, At, Up, serverVars,
             connVars, counters, sessVars
    <2> QED
      BY <2>1, <2>2, <2>3 DEF IInv, Custody
  <1>12. CASE EndActivity(s)
    <2>1. TypeOK'
      BY <1>a, <1>12, LimitsPositive
         DEF EndActivity, TypeOK, At, PCs, Live, Holding, Counted, Up,
             serverVars, connVars, counters, sessVars
    <2>2. CountersExact'
      <3>1. SessionMove(s, "status")
        BY <1>a, <1>12
           DEF EndActivity, SessionMove, Bit, TypeOK, At, Holding, Counted,
               Live, Up, serverVars, connVars, counters, sessVars
      <3> QED
        BY <1>a, <3>1, SessionCounts
    <2>3. Custody'
      BY <1>12
         DEF IInv, Custody, GitHeld, ExitRecorded, DrainedIdle,
             GaveUpKilled, WatchdogOwned, TypeOK, EndActivity, At, Up,
             serverVars, connVars, counters, sessVars
    <2> QED
      BY <2>1, <2>2, <2>3 DEF IInv, Custody
  <1>13. CASE StatusSent(s)
    <2>1. TypeOK'
      BY <1>a, <1>13, LimitsPositive
         DEF StatusSent, TypeOK, At, PCs, Live, Holding, Counted, Up,
             serverVars, connVars, counters, sessVars, Finish
    <2>2. CountersExact'
      <3>1. SessionMove(s, "none")
        BY <1>a, <1>13
           DEF StatusSent, SessionMove, Bit, TypeOK, At, Holding, Counted,
               Live, Up, serverVars, connVars, counters, sessVars, Finish
      <3> QED
        BY <1>a, <3>1, SessionCounts
    <2>3. Custody'
      BY <1>13
         DEF IInv, Custody, GitHeld, ExitRecorded, DrainedIdle,
             GaveUpKilled, WatchdogOwned, TypeOK, StatusSent, At, Up,
             serverVars, connVars, counters, sessVars, Finish
    <2> QED
      BY <2>1, <2>2, <2>3 DEF IInv, Custody
  <1>14. CASE StatusFails(s)
    <2>1. TypeOK'
      BY <1>a, <1>14, LimitsPositive
         DEF StatusFails, TypeOK, At, PCs, Live, Holding, Counted, Up,
             serverVars, connVars, counters, sessVars, Finish
    <2>2. CountersExact'
      <3>1. SessionMove(s, "none")
        BY <1>a, <1>14
           DEF StatusFails, SessionMove, Bit, TypeOK, At, Holding, Counted,
               Live, Up, serverVars, connVars, counters, sessVars, Finish
      <3> QED
        BY <1>a, <3>1, SessionCounts
    <2>3. Custody'
      BY <1>14
         DEF IInv, Custody, GitHeld, ExitRecorded, DrainedIdle,
             GaveUpKilled, WatchdogOwned, TypeOK, StatusFails, At, Up,
             serverVars, connVars, counters, sessVars, Finish
    <2> QED
      BY <2>1, <2>2, <2>3 DEF IInv, Custody
  <1> QED
    BY <1>1, <1>2, <1>3, <1>4, <1>5, <1>6, <1>7, <1>8, <1>9, <1>10, <1>11, <1>12, <1>13, <1>14
       DEF SessionStep, WaitReturns, WaitReturnsOpen

(* Steps of git, of its killer and of the stall watcher. *)
LEMMA ChildInductive ==
    ASSUME IInv, NEW s \in Channels, ChildStep(s)
    PROVE  IInv'
  <1>a. /\ TypeOK /\ CountersExact /\ Owner(s) \in Conns
        /\ pc[s] \in Holding => gitSem >= 1
        /\ pc[s] \in Counted => gitWG >= 1 /\ active[Owner(s)] >= 1
        /\ pc[s] \in Live => sessions[Owner(s)] >= 1
    BY HoldersCount DEF IInv
  <1>1. CASE Progress(s)
    <2>1. TypeOK'
      BY <1>a, <1>1, LimitsPositive
         DEF Progress, TypeOK, At, PCs, Live, Holding, Counted, Up,
             serverVars, connVars, counters, sessVars
    <2>2. CountersExact'
      BY <1>a, <1>1, NoCounts
         DEF Progress, Up, serverVars, connVars, counters, sessVars
    <2>3. Custody'
      BY <1>1
         DEF IInv, Custody, GitHeld, ExitRecorded, DrainedIdle,
             GaveUpKilled, WatchdogOwned, TypeOK, Progress, At, Up, serverVars,
             connVars, counters, sessVars
    <2> QED
      BY <2>1, <2>2, <2>3 DEF IInv, Custody
  <1>2. CASE FallsQuiet(s)
    <2>1. TypeOK'
      BY <1>a, <1>2, LimitsPositive
         DEF FallsQuiet, TypeOK, At, PCs, Live, Holding, Counted, Up,
             serverVars, connVars, counters, sessVars
    <2>2. CountersExact'
      BY <1>a, <1>2, NoCounts
         DEF FallsQuiet, Up, serverVars, connVars, counters, sessVars
    <2>3. Custody'
      BY <1>2
         DEF IInv, Custody, GitHeld, ExitRecorded, DrainedIdle,
             GaveUpKilled, WatchdogOwned, TypeOK, FallsQuiet, At, Up,
             serverVars, connVars, counters, sessVars
    <2> QED
      BY <2>1, <2>2, <2>3 DEF IInv, Custody
  <1>3. CASE FallsSilent(s)
    <2>1. TypeOK'
      BY <1>a, <1>3, LimitsPositive
         DEF FallsSilent, TypeOK, At, PCs, Live, Holding, Counted, Up,
             serverVars, connVars, counters, sessVars
    <2>2. CountersExact'
      BY <1>a, <1>3, NoCounts
         DEF FallsSilent, Up, serverVars, connVars, counters, sessVars
    <2>3. Custody'
      BY <1>3
         DEF IInv, Custody, GitHeld, ExitRecorded, DrainedIdle,
             GaveUpKilled, WatchdogOwned, TypeOK, FallsSilent, At, Up,
             serverVars, connVars, counters, sessVars
    <2> QED
      BY <2>1, <2>2, <2>3 DEF IInv, Custody
  <1>4. CASE GitExits(s)
    <2>1. TypeOK'
      BY <1>a, <1>4, LimitsPositive
         DEF GitExits, TypeOK, At, PCs, Live, Holding, Counted, Up,
             serverVars, connVars, counters, sessVars
    <2>2. CountersExact'
      BY <1>a, <1>4, NoCounts
         DEF GitExits, Up, serverVars, connVars, counters, sessVars
    <2>3. Custody'
      BY <1>4
         DEF IInv, Custody, GitHeld, ExitRecorded, DrainedIdle,
             GaveUpKilled, WatchdogOwned, TypeOK, GitExits, At, Up, serverVars,
             connVars, counters, sessVars
    <2> QED
      BY <2>1, <2>2, <2>3 DEF IInv, Custody
  <1>5. CASE KillGroup(s)
    <2>1. TypeOK'
      BY <1>a, <1>5, LimitsPositive
         DEF KillGroup, TypeOK, At, PCs, Live, Holding, Counted, Up,
             serverVars, connVars, counters, sessVars
    <2>2. CountersExact'
      BY <1>a, <1>5, NoCounts
         DEF KillGroup, Up, serverVars, connVars, counters, sessVars
    <2>3. Custody'
      BY <1>5
         DEF IInv, Custody, GitHeld, ExitRecorded, DrainedIdle,
             GaveUpKilled, WatchdogOwned, TypeOK, KillGroup, At, Up, serverVars,
             connVars, counters, sessVars
    <2> QED
      BY <2>1, <2>2, <2>3 DEF IInv, Custody
  <1>6. CASE ProcessDies(s)
    <2>1. TypeOK'
      BY <1>a, <1>6, LimitsPositive
         DEF ProcessDies, TypeOK, At, PCs, Live, Holding, Counted, Up,
             serverVars, connVars, counters, sessVars
    <2>2. CountersExact'
      BY <1>a, <1>6, NoCounts
         DEF ProcessDies, Up, serverVars, connVars, counters, sessVars
    <2>3. Custody'
      BY <1>6
         DEF IInv, Custody, GitHeld, ExitRecorded, DrainedIdle,
             GaveUpKilled, WatchdogOwned, TypeOK, ProcessDies, At, Up,
             serverVars, connVars, counters, sessVars
    <2> QED
      BY <2>1, <2>2, <2>3 DEF IInv, Custody
  <1>7. CASE StallCancels(s)
    <2>1. TypeOK'
      BY <1>a, <1>7, LimitsPositive
         DEF StallCancels, TypeOK, At, PCs, Live, Holding, Counted, Up,
             serverVars, connVars, counters, sessVars
    <2>2. CountersExact'
      BY <1>a, <1>7, NoCounts
         DEF StallCancels, Up, serverVars, connVars, counters, sessVars
    <2>3. Custody'
      BY <1>7
         DEF IInv, Custody, GitHeld, ExitRecorded, DrainedIdle,
             GaveUpKilled, WatchdogOwned, TypeOK, StallCancels, At, Up,
             serverVars, connVars, counters, sessVars
    <2> QED
      BY <2>1, <2>2, <2>3 DEF IInv, Custody
  <1>8. CASE StallCloses(s)
    <2>1. TypeOK'
      BY <1>a, <1>8, LimitsPositive
         DEF StallCloses, TypeOK, At, PCs, Live, Holding, Counted, Up,
             serverVars, connVars, counters, sessVars, LocalClose
    <2>2. CountersExact'
      BY <1>a, <1>8, NoCounts
         DEF StallCloses, Up, serverVars, connVars, counters, sessVars,
             LocalClose
    <2>3. Custody'
      BY <1>8
         DEF IInv, Custody, GitHeld, ExitRecorded, DrainedIdle,
             GaveUpKilled, WatchdogOwned, TypeOK, StallCloses, At, Up,
             serverVars, connVars, counters, sessVars, LocalClose
    <2> QED
      BY <2>1, <2>2, <2>3 DEF IInv, Custody
  <1>9. CASE StallStops(s)
    <2>1. TypeOK'
      BY <1>a, <1>9, LimitsPositive
         DEF StallStops, TypeOK, At, PCs, Live, Holding, Counted, Up,
             serverVars, connVars, counters, sessVars
    <2>2. CountersExact'
      BY <1>a, <1>9, NoCounts
         DEF StallStops, Up, serverVars, connVars, counters, sessVars
    <2>3. Custody'
      BY <1>9
         DEF IInv, Custody, GitHeld, ExitRecorded, DrainedIdle,
             GaveUpKilled, WatchdogOwned, TypeOK, StallStops, At, Up,
             serverVars, connVars, counters, sessVars
    <2> QED
      BY <2>1, <2>2, <2>3 DEF IInv, Custody
  <1> QED
    BY <1>1, <1>2, <1>3, <1>4, <1>5, <1>6, <1>7, <1>8, <1>9
       DEF ChildStep

(* Steps of the main goroutine. *)
LEMMA MainInductive ==
    ASSUME IInv, MainStep
    PROVE  IInv'
  <1>1. UNCHANGED <<connVars, counters, sessVars>>
    BY DEF MainStep, Signal, ShutdownCancel, WaitSeesZero, MainReturns,
           GiveUp, AcceptFails, MainFails
  <1>2. TypeOK'
    BY <1>1 DEF IInv, MainStep, Signal, ShutdownCancel, WaitSeesZero,
           MainReturns, GiveUp, AcceptFails, MainFails, TypeOK, connVars,
           counters, sessVars
  <1>3. CountersExact'
    BY <1>1, NoCounts DEF IInv, connVars, counters, sessVars
  <1>4. GitHeld' /\ WatchdogOwned'
    BY <1>1 DEF IInv, GitHeld, WatchdogOwned, At, connVars, sessVars
  <1>5. ExitRecorded'
    BY DEF IInv, ExitRecorded, MainStep, Signal, ShutdownCancel,
           WaitSeesZero, MainReturns, GiveUp, AcceptFails, MainFails
  <1>6. DrainedIdle'
    <2>1. CASE WaitSeesZero
      <3>1. \A s \in Channels : pc[s] \notin Counted
        BY <2>1, HoldersCount DEF IInv, WaitSeesZero
      <3> QED
        BY <1>1, <3>1 DEF DrainedIdle, At, Counted, sessVars
    <2>2. CASE ~WaitSeesZero
      BY <1>1, <2>2 DEF IInv, DrainedIdle, ExitRecorded, At, MainStep, Signal,
             ShutdownCancel, MainReturns, GiveUp, AcceptFails, MainFails,
             sessVars
    <2> QED
      BY <2>1, <2>2
  <1>7. GaveUpKilled'
    BY <1>1 DEF IInv, GaveUpKilled, ExitRecorded, GraceCoversKill, MainStep,
           Signal, ShutdownCancel, WaitSeesZero, MainReturns, GiveUp,
           AcceptFails, MainFails, sessVars
  <1> QED
    BY <1>2, <1>3, <1>4, <1>5, <1>6, <1>7 DEF IInv

LEMMA NextIInv == IInv /\ [Next]_vars => IInv'
  <1> SUFFICES ASSUME IInv, [Next]_vars PROVE IInv'
    OBVIOUS
  <1>1. ASSUME NEW c \in Conns, ConnStep(c) PROVE IInv'
    BY <1>1, ConnInductive
  <1>2. ASSUME NEW s \in Channels, ChannelStep(s) PROVE IInv'
    BY <1>2, ChannelInductive
  <1>3. ASSUME NEW s \in Channels, SessionStep(s) PROVE IInv'
    BY <1>3, SessionInductive
  <1>4. ASSUME NEW s \in Channels, ChildStep(s) PROVE IInv'
    BY <1>4, ChildInductive
  <1>5. CASE MainStep
    BY <1>5, MainInductive
  <1>6. CASE UNCHANGED vars
    <2>1. /\ UNCHANGED <<main, exitBy, acceptor, conn, watchdog, idleTicks>>
          /\ UNCHANGED <<connSem, gitSem, gitWG, active, sessions>>
          /\ UNCHANGED <<pc, channel, guard, stall, quiet, cmdCtx, git>>
      BY <1>6 DEF vars, serverVars, connVars, counters, sessVars
    <2>2. TypeOK'
      BY <2>1 DEF IInv, TypeOK
    <2>3. CountersExact'
      BY <2>1, NoCounts DEF IInv, counters
    <2> QED
      BY <2>1, <2>2, <2>3 DEF IInv, GitHeld, ExitRecorded, DrainedIdle,
                              GaveUpKilled, WatchdogOwned, At
  <1> QED
    BY <1>1, <1>2, <1>3, <1>4, <1>5, <1>6 DEF Next, Exited

LEMMA Inductive == Spec => []IInv
  BY InitIInv, NextIInv, PTL DEF Spec

-----------------------------------------------------------------------------
(* What follows from the invariant.                                        *)

(* Every variable keeps its type; in particular no semaphore exceeds its   *)
(* capacity and no counter goes below zero.                                *)
THEOREM TypeCorrect == Spec => []TypeOK
  <1>1. IInv => TypeOK
    BY DEF IInv
  <1> QED
    BY <1>1, Inductive, PTL

(* The semaphores, counters and the WaitGroup of main.go and session.go    *)
(* equal the number of their holders at all times: no path through         *)
(* handleConn, handleSession or runGitCommand leaks or returns one twice.  *)
THEOREM CountersCorrect == Spec => []CountersExact
  <1>1. IInv => CountersExact
    BY DEF IInv
  <1> QED
    BY <1>1, Inductive, PTL

(* Git processes are at most as many as gitSem has tokens. *)
LEMMA AliveBounded ==
    ASSUME IInv
    PROVE  /\ IsFiniteSet({s \in Channels : Alive(s)})
           /\ Cardinality({s \in Channels : Alive(s)}) <= gitSem
  <1> DEFINE A == {s \in Channels : Alive(s)}
             H == {s \in Channels : pc[s] \in Holding}
  <1>1. IsFiniteSet(H)
    BY ChannelsFinite, FS_Subset, H \subseteq Channels
  <1>2. A \subseteq H
    BY DEF IInv, GitHeld, Alive, At, Holding
  <1>3. gitSem = Cardinality(H)
    BY DEF IInv, CountersExact, Count
  <1> HIDE DEF A, H
  <1>4. IsFiniteSet(A) /\ Cardinality(A) <= Cardinality(H)
    BY <1>1, <1>2, FS_Subset
  <1> QED
    BY <1>3, <1>4 DEF A

(* --git-max-concurrent bounds the git processes, for every limit and any  *)
(* number of connections.                                                  *)
THEOREM CapCorrect == Spec => []GitProcessCap
  <1>1. IInv => GitProcessCap
    <2> SUFFICES ASSUME IInv PROVE GitProcessCap
      OBVIOUS
    <2> DEFINE A == {s \in Channels : Alive(s)}
    <2>1. IsFiniteSet(A) /\ Cardinality(A) <= gitSem
      BY AliveBounded
    <2>2. Cardinality(A) \in Nat
      BY <2>1, FS_CardinalityType
    <2>3. gitSem \in 0..GitMaxConcurrent /\ GitMaxConcurrent \in Nat
      BY LimitsPositive DEF IInv, TypeOK
    <2> HIDE DEF A
    <2>4. Cardinality(A) <= GitMaxConcurrent
      BY <2>1, <2>2, <2>3
    <2> QED
      BY <2>4 DEF GitProcessCap, A
  <1> QED
    BY <1>1, Inductive, PTL

(* A server stopped by a signal leaves no git group behind it has not      *)
(* killed, and none at all if its wait saw the last one end.               *)
THEOREM ShutdownCorrect == Spec => []NoGitLeftRunning
  <1>1. IInv => NoGitLeftRunning
    BY DEF IInv, NoGitLeftRunning, GitHeld, DrainedIdle, GaveUpKilled, Alive
  <1> QED
    BY <1>1, Inductive, PTL

-----------------------------------------------------------------------------
(* The server implements CommandPool.                                      *)

(* A group comes into being only at Fork, and ends its life by dying. *)
LEMMA GitChanges ==
    ASSUME Next
    PROVE  \/ UNCHANGED <<main, exitBy, git>>
           \/ \E s \in Channels : \/ Fork(s) \/ GitExits(s) \/ KillGroup(s)
                                  \/ ProcessDies(s) \/ RunReturns(s)
           \/ MainStep
  <1>1. ASSUME NEW c \in Conns, ConnStep(c)
        PROVE  UNCHANGED <<main, exitBy, git>>
    BY <1>1 DEF ConnStep, WatchdogStep, Accept, HandshakeDone, HandshakeFails,
           ClientDisconnects, HandleConnReturns, WatchdogTick,
           WatchdogFindsIdle, WatchdogFindsRecent, WatchdogCloses,
           serverVars, sessVars
  <1>2. ASSUME NEW s \in Channels, ChannelStep(s)
        PROVE  UNCHANGED <<main, exitBy, git>>
    BY <1>2 DEF ChannelStep, OpenChannel, PeerCloses, PeerAnswersClose,
           GuardFires, GuardCloses, serverVars
  <1>3. ASSUME NEW s \in Channels, SessionStep(s),
               ~Fork(s), ~RunReturns(s)
        PROVE  UNCHANGED <<main, exitBy, git>>
    BY <1>3 DEF SessionStep, WaitReturns, WaitReturnsOpen, RequestsEnd,
           ExecRequest, BadRequest, Refuse, Admit, Register, StartCheck,
           ForkFails, Unwind, EndActivity, StatusSent, StatusFails, serverVars
  <1>4. ASSUME NEW s \in Channels, ChildStep(s),
               ~GitExits(s), ~KillGroup(s), ~ProcessDies(s)
        PROVE  UNCHANGED <<main, exitBy, git>>
    BY <1>4 DEF ChildStep, Progress, FallsQuiet, FallsSilent, StallCancels,
           StallCloses, StallStops, serverVars
  <1>5. CASE Exited
    BY <1>5 DEF Exited, vars, serverVars, sessVars
  <1> QED
    BY <1>1, <1>2, <1>3, <1>4, <1>5 DEF Next

(* The groups of CommandPool are those that are running or dying. *)
LEMMA PoolAlive == Pool!Alive = {s \in Channels : Alive(s)}
  BY DEF Pool!Alive, Alive

LEMMA InitPool == Init => Pool!PoolInit
  BY DEF Init, Pool!PoolInit, Alive

LEMMA NextPool ==
    ASSUME IInv, [Next]_vars
    PROVE  [Pool!PoolNext]_(Pool!poolVars)
  <1> USE DEF Pool!poolVars
  <1>1. ASSUME UNCHANGED <<main, exitBy, git>>
        PROVE  UNCHANGED Pool!poolVars
    BY <1>1 DEF Alive
  <1>2. ASSUME NEW s \in Channels, git[s] # "none", Up
        PROVE  main \in {"serving", "stopping", "draining"}
    BY <1>2 DEF IInv, TypeOK, GitHeld, DrainedIdle, Up, At
  <1>3. ASSUME NEW s \in Channels, Fork(s) PROVE Pool!Start(s)
    <2>1. main \in {"serving", "stopping", "draining"}
      BY <1>3 DEF IInv, TypeOK, DrainedIdle, Fork, Up, At
    <2>2. ~Alive(s)
      BY <1>3 DEF IInv, GitHeld, Fork, At, Alive
    <2>3. Pool!Cardinality(Pool!Alive) < GitMaxConcurrent
      <3> DEFINE A == {t \in Channels : Alive(t)}
                 H == {t \in Channels : pc[t] \in Holding}
      <3>1. IsFiniteSet(H)
        BY ChannelsFinite, FS_Subset, H \subseteq Channels
      <3>2. A \cup {s} \subseteq H /\ s \notin A
        BY <1>3, <2>2 DEF IInv, GitHeld, Alive, At, Holding, Fork
      <3>3. gitSem = Cardinality(H)
        BY DEF IInv, CountersExact, Count
      <3>4. IsFiniteSet(A)
        BY AliveBounded
      <3> HIDE DEF A, H
      <3>5. Cardinality(A \cup {s}) = Cardinality(A) + 1
        BY <3>2, <3>4, FS_AddElement
      <3>6. Cardinality(A \cup {s}) <= Cardinality(H)
        BY <3>1, <3>2, FS_Subset
      <3>7. Cardinality(A) \in Nat
        BY <3>4, FS_CardinalityType
      <3>8. gitSem \in 0..GitMaxConcurrent /\ GitMaxConcurrent \in Nat
        BY LimitsPositive DEF IInv, TypeOK
      <3>9. Cardinality(A) < GitMaxConcurrent
        BY <3>3, <3>5, <3>6, <3>7, <3>8
      <3>10. Pool!Cardinality(Pool!Alive) = Cardinality(A)
        BY PoolAlive, Zenon DEF A, Pool!Cardinality, Cardinality,
                                Pool!IsFiniteSet, IsFiniteSet
      <3> QED
        BY <3>9, <3>10, Zenon
    <2>4. git' = [git EXCEPT ![s] = "running"] /\ UNCHANGED <<main, exitBy>>
      BY <1>3 DEF Fork, serverVars
    <2>5. git \in [Channels -> {"none", "running", "killed", "exited"}]
      BY DEF IInv, TypeOK
    <2>6. /\ git'[s] = "running"
          /\ \A t \in Channels : t # s => git'[t] = git[t]
      BY <2>4, <2>5
    <2>7. [t \in Channels |-> IF Alive(t) THEN git[t] ELSE "none"]'
            = [[t \in Channels |-> IF Alive(t) THEN git[t] ELSE "none"]
                 EXCEPT ![s] = "running"]
      BY <2>6 DEF Alive
    <2> HIDE DEF Pool!poolVars
    <2>8. (IF Alive(s) THEN git[s] ELSE "none") = "none"
      BY <2>2
    <2> QED
      BY <2>1, <2>3, <2>4, <2>7, <2>8 DEF Pool!Start
  <1>4. ASSUME NEW s \in Channels, KillGroup(s) PROVE Pool!Kill(s)
    BY <1>2, <1>4 DEF Pool!Kill, KillGroup, Alive, IInv, TypeOK, serverVars
  <1>5. ASSUME NEW s \in Channels, GitExits(s) \/ ProcessDies(s)
        PROVE  Pool!End(s)
    BY <1>2, <1>5 DEF Pool!End, GitExits, ProcessDies, Alive, IInv, TypeOK,
                      serverVars
  <1>6. ASSUME NEW s \in Channels, RunReturns(s)
        PROVE  UNCHANGED Pool!poolVars
    BY <1>6 DEF RunReturns, Alive, IInv, TypeOK, serverVars
  <1>7. CASE MainStep
    <2>1. git' = git
      BY <1>7 DEF MainStep, Signal, ShutdownCancel, WaitSeesZero,
             MainReturns, GiveUp, AcceptFails, MainFails, sessVars
    <2>2. exitBy = "none" <=> main # "exited"
      BY DEF IInv, ExitRecorded
    <2>3. CASE Signal \/ AcceptFails \/ MainReturns
      BY <2>1, <2>2, <2>3 DEF Signal, AcceptFails, MainReturns, Alive
    <2>4. CASE ShutdownCancel
      BY <2>1, <2>4 DEF ShutdownCancel, Pool!PoolNext, Pool!Stop, Alive
    <2>5. CASE WaitSeesZero
      <3>1. \A s \in Channels : ~Alive(s)
        BY <2>5, HoldersCount DEF IInv, WaitSeesZero, GitHeld, At, Counted,
                                  Alive
      <3> QED
        BY <2>1, <2>2, <2>5, <3>1 DEF WaitSeesZero, Pool!PoolNext, Pool!Close,
                                      Alive
    <2>6. CASE GiveUp
      BY <2>1, <2>6 DEF GiveUp, GraceCoversKill, Pool!PoolNext, Pool!GiveUp,
                        Alive
    <2>7. CASE MainFails
      BY <2>1, <2>7 DEF MainFails, Pool!PoolNext, Pool!Abort, Alive
    <2> QED
      BY <1>7, <2>3, <2>4, <2>5, <2>6, <2>7 DEF MainStep
  <1>8. CASE UNCHANGED vars
    BY <1>1, <1>8 DEF vars, serverVars, sessVars
  <1> QED
    BY <1>1, <1>3, <1>4, <1>5, <1>6, <1>7, <1>8, GitChanges DEF Pool!PoolNext

(* Every behaviour of the server is one of CommandPool: the cap on git     *)
(* processes, no start after the clean end, nothing left running.          *)
THEOREM Implementation == Spec => ImplementsPool
  BY InitPool, NextPool, Inductive, PTL DEF Spec, Pool!PoolSpec, ImplementsPool

(* Once the wait of main has seen zero no git process is started. *)
THEOREM NoForkOnceDrainedCorrect == Spec => NoForkOnceDrained
  <1>1. IInv /\ [Next]_vars =>
          [main = "drained" => \A s \in Channels : ~Alive(s) => ~Alive(s)']_vars
    <2> SUFFICES ASSUME IInv, Next, main = "drained",
                        NEW s \in Channels, ~Alive(s)
                 PROVE  ~Alive(s)'
      OBVIOUS
    <2>1. \A t \in Channels : ~At(t, "forking") /\ git[t] = "none"
      BY DEF IInv, DrainedIdle, GitHeld
    <2>2. git' = git
      BY <2>1, GitChanges DEF Fork, GitExits, KillGroup, ProcessDies,
             RunReturns, MainStep, Signal, ShutdownCancel, WaitSeesZero,
             MainReturns, GiveUp, AcceptFails, MainFails, sessVars
    <2> QED
      BY <2>2 DEF Alive
  <1> QED
    BY <1>1, Inductive, PTL DEF Spec, NoForkOnceDrained
=============================================================================
