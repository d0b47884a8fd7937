------------------------------ MODULE SshServer ------------------------------
(***************************************************************************)
(* The concurrent core of the SSH front end (cmd/ssh-read-write): the main *)
(* goroutine and its shutdown sequence, the accept loop, one handler and   *)
(* one watchdog goroutine per connection, and per session channel the      *)
(* session goroutine, its request guard timer, its stall watcher, the      *)
(* goroutine os/exec starts to kill the process group, and the git child.  *)
(*                                                                         *)
(* Time is abstracted to the order of events.  A timer that has been armed *)
(* may fire at any later moment; the watchdog's clock counts quarters of   *)
(* the idle timeout, its ticker period.  The content of commands, paths    *)
(* and transferred bytes is left out: `quiet' records whether the running  *)
(* command has moved no byte for --git-idle-timeout.                       *)
(***************************************************************************)
EXTENDS Naturals, FiniteSets

CONSTANTS
    Conns,              \* identities of TCP connections, reused once free
    ChanIds,            \* identities of the channels within a connection
    MaxConns,           \* --ssh-max-connections
    MaxSessionsPerConn, \* the constant of that name
    GitMaxConcurrent,   \* --git-max-concurrent
    IdleTicks,          \* ticker periods in the connection idle timeout (4)
    GitIdleEnabled,     \* --git-idle-timeout > 0
    Stops               \* what may end the server: a bound of the instance

ASSUME ConnsFinite    == IsFiniteSet(Conns)
ASSUME ChanIdsFinite  == IsFiniteSet(ChanIds)
ASSUME LimitsPositive == /\ MaxConns \in Nat \ {0}
                         /\ MaxSessionsPerConn \in Nat \ {0}
                         /\ GitMaxConcurrent \in Nat \ {0}
                         /\ IdleTicks \in Nat \ {0}
ASSUME GitIdleBoolean == GitIdleEnabled \in BOOLEAN
ASSUME StopsKnown     == Stops \subseteq {"signal", "acceptError"}

VARIABLES
    main,       \* the main goroutine
    exitBy,     \* how the server process ended
    acceptor,   \* the accept loop
    connSem,    \* tokens in the semaphore of acceptLoop
    gitSem,     \* tokens in cfg.gitSem
    gitWG,      \* the counter of cfg.gitWG
    conn,       \* a connection and its handler
    watchdog,   \* the idle watchdog of a connection
    idleTicks,  \* ticker periods since act.lastUsed
    active,     \* act.active
    sessions,   \* tokens in the sessions semaphore of handleConn
    pc,         \* where the session goroutine of a channel is
    channel,    \* the SSH channel as this side sees it
    guard,      \* the time.AfterFunc of handleSession
    stall,      \* the watchGitStall goroutine
    quiet,      \* no byte has moved for the git idle timeout
    cmdCtx,     \* the command's own context has been cancelled
    git         \* the git process group

serverVars == <<main, exitBy, acceptor>>
connVars   == <<conn, watchdog, idleTicks>>
counters   == <<connSem, gitSem, gitWG, active, sessions>>
sessVars   == <<pc, channel, guard, stall, quiet, cmdCtx, git>>
vars == <<serverVars, connVars, counters, sessVars>>

Channels == Conns \X ChanIds
Owner(s) == s[1]
Of(c)    == {s \in Channels : Owner(s) = c}

-----------------------------------------------------------------------------
(* Program points of a session goroutine.                                  *)
(*   await       in the loop over requests                                 *)
(*   exec        an exec was received; command and path are being checked  *)
(*   admitted    holds a gitSem token                                      *)
(*   registered  act.begin and gitWG.Add done, stall watcher started       *)
(*   forking     exec.Cmd.Start has seen a live context                    *)
(*   running     in exec.Cmd.Wait, for git and for the copying to end      *)
(*   unwind      cmd.Run returned, deferred calls pending                  *)
(*   ending      active decremented, lastUsed and gitSem not yet           *)
(*   status      writing an error text or the exit status to the channel   *)

Holding == {"admitted", "registered", "forking", "running", "unwind", "ending"}
Counted == {"registered", "forking", "running", "unwind"}
Live    == {"await", "exec", "status"} \cup Holding
PCs     == {"none"} \cup Live

At(s, p)    == pc[s] = p
Count(S, P) == Cardinality({s \in S : pc[s] \in P})
Alive(s) == git[s] \in {"running", "killed"}

Up == main # "exited"

(* Mutant: gitBase() falls back to context.Background(). *)
NeverCancelled == FALSE

(* gitBase() is cancelled by shutdownCancel and by nothing else. *)
ShutdownCancelled == main \in {"draining", "drained"}

CtxDone(s) == cmdCtx[s] \/ ShutdownCancelled

(* An identity of a connection names nothing any more: no goroutine of an  *)
(* earlier connection of that name is left.                                *)
Unused(c) == /\ conn[c] = "none"
             /\ \A s \in Of(c) : /\ At(s, "none")
                                 /\ guard[s] = "off"
                                 /\ stall[s] = "off"

TypeOK ==
    /\ main \in {"serving", "stopping", "draining", "drained", "exited"}
    /\ exitBy \in {"none", "done", "gaveup", "error"}
    /\ acceptor \in {"accepting", "failed"}
    /\ connSem \in 0..MaxConns
    /\ gitSem \in 0..GitMaxConcurrent
    /\ gitWG \in Nat
    /\ conn \in [Conns -> {"none", "handshake", "serving", "lost"}]
    /\ watchdog \in [Conns -> {"off", "waiting", "checking", "closing"}]
    /\ idleTicks \in [Conns -> 0..(IdleTicks + 1)]
    /\ active \in [Conns -> Nat]
    /\ sessions \in [Conns -> 0..MaxSessionsPerConn]
    /\ pc \in [Channels -> PCs]
    /\ channel \in [Channels -> {"open", "closing", "closed"}]
    /\ guard \in [Channels -> {"off", "armed", "fired"}]
    /\ stall \in [Channels -> {"off", "watching", "closing"}]
    /\ quiet \in [Channels -> BOOLEAN]
    /\ cmdCtx \in [Channels -> BOOLEAN]
    /\ git \in [Channels -> {"none", "running", "killed", "exited"}]

Init ==
    /\ main = "serving" /\ exitBy = "none" /\ acceptor = "accepting"
    /\ connSem = 0 /\ gitSem = 0 /\ gitWG = 0
    /\ conn = [c \in Conns |-> "none"]
    /\ watchdog = [c \in Conns |-> "off"]
    /\ idleTicks = [c \in Conns |-> 0]
    /\ active = [c \in Conns |-> 0]
    /\ sessions = [c \in Conns |-> 0]
    /\ pc = [s \in Channels |-> "none"]
    /\ channel = [s \in Channels |-> "closed"]
    /\ guard = [s \in Channels |-> "off"]
    /\ stall = [s \in Channels |-> "off"]
    /\ quiet = [s \in Channels |-> TRUE]
    /\ cmdCtx = [s \in Channels |-> TRUE]
    /\ git = [s \in Channels |-> "none"]

-----------------------------------------------------------------------------
(* Connections: acceptLoop, handleConn and the watchdog.                   *)

(* Mutant: the default branch of the select is missing. *)
AcceptBeyondCap(c) ==
    /\ main = "serving" /\ acceptor = "accepting"
    /\ Unused(c)
    /\ connSem' = connSem + 1
    /\ conn' = [conn EXCEPT ![c] = "handshake"]
    /\ UNCHANGED <<serverVars, watchdog, idleTicks, gitSem, gitWG, active,
                   sessions, sessVars>>

(* A connection beyond the cap is closed at once, which changes nothing. *)
Accept(c) ==
    /\ main = "serving" /\ acceptor = "accepting"
    /\ Unused(c)
    /\ connSem < MaxConns
    /\ connSem' = connSem + 1
    /\ conn' = [conn EXCEPT ![c] = "handshake"]
    /\ UNCHANGED <<serverVars, watchdog, idleTicks, gitSem, gitWG, active,
                   sessions, sessVars>>

HandshakeDone(c) ==
    /\ Up
    /\ conn[c] = "handshake"
    /\ conn' = [conn EXCEPT ![c] = "serving"]
    /\ watchdog' = [watchdog EXCEPT ![c] = "waiting"]
    /\ idleTicks' = [idleTicks EXCEPT ![c] = 0]
    /\ UNCHANGED <<serverVars, counters, sessVars>>

(* Refused keys, a broken connection or the handshake deadline. *)
HandshakeFails(c) ==
    /\ Up
    /\ conn[c] = "handshake"
    /\ conn' = [conn EXCEPT ![c] = "none"]
    /\ connSem' = connSem - 1
    /\ UNCHANGED <<serverVars, watchdog, idleTicks, gitSem, gitWG, active,
                   sessions, sessVars>>

(* The transport dies: every channel multiplexed on it is closed. *)
Drop(c) ==
    /\ conn' = [conn EXCEPT ![c] = "lost"]
    /\ channel' = [s \in Channels |->
                     IF Owner(s) = c THEN "closed" ELSE channel[s]]

ClientDisconnects(c) ==
    /\ Up
    /\ conn[c] = "serving"
    /\ Drop(c)
    /\ UNCHANGED <<serverVars, watchdog, idleTicks, counters, pc, guard,
                   stall, quiet, cmdCtx, git>>

(* Mutant: any live session counts as activity. *)
WatchdogTickSessions(c) ==
    /\ Up
    /\ watchdog[c] = "waiting"
    /\ IF sessions[c] > 0
       THEN /\ idleTicks' = [idleTicks EXCEPT ![c] = 0]
            /\ UNCHANGED watchdog
       ELSE /\ idleTicks' = [idleTicks EXCEPT
                               ![c] = IF @ > IdleTicks THEN @ ELSE @ + 1]
            /\ watchdog' = [watchdog EXCEPT ![c] = "checking"]
    /\ UNCHANGED <<serverVars, conn, counters, sessVars>>

(* One ticker period passes and the watchdog loads act.active. *)
WatchdogTick(c) ==
    /\ Up
    /\ watchdog[c] = "waiting"
    /\ IF active[c] > 0
       THEN /\ idleTicks' = [idleTicks EXCEPT ![c] = 0]
            /\ UNCHANGED watchdog
       ELSE /\ idleTicks' = [idleTicks EXCEPT
                               ![c] = IF @ > IdleTicks THEN @ ELSE @ + 1]
            /\ watchdog' = [watchdog EXCEPT ![c] = "checking"]
    /\ UNCHANGED <<serverVars, conn, counters, sessVars>>

(* It then compares act.lastUsed with the timeout.  The ticks are not      *)
(* aligned with lastUsed, so at exactly IdleTicks either outcome may be.   *)
WatchdogFindsIdle(c) ==
    /\ Up
    /\ watchdog[c] = "checking"
    /\ idleTicks[c] >= IdleTicks
    /\ watchdog' = [watchdog EXCEPT ![c] = "closing"]
    /\ UNCHANGED <<serverVars, conn, idleTicks, counters, sessVars>>

WatchdogFindsRecent(c) ==
    /\ Up
    /\ watchdog[c] = "checking"
    /\ idleTicks[c] <= IdleTicks
    /\ watchdog' = [watchdog EXCEPT ![c] = "waiting"]
    /\ UNCHANGED <<serverVars, conn, idleTicks, counters, sessVars>>

(* Mutant: the watchdog ends without closing the transport. *)
WatchdogGivesUp(c) ==
    /\ Up
    /\ watchdog[c] = "closing"
    /\ watchdog' = [watchdog EXCEPT ![c] = "off"]
    /\ UNCHANGED <<serverVars, conn, idleTicks, counters, sessVars>>

WatchdogCloses(c) ==
    /\ Up
    /\ watchdog[c] = "closing"
    /\ watchdog' = [watchdog EXCEPT ![c] = "off"]
    /\ Drop(c)
    /\ UNCHANGED <<serverVars, idleTicks, counters, pc, guard, stall, quiet,
                   cmdCtx, git>>

(* The range over chans ends; the deferred calls stop the watchdog and     *)
(* release the connection slot.  The session goroutines are not waited for.*)
HandleConnReturns(c) ==
    /\ Up
    /\ conn[c] = "lost"
    /\ conn' = [conn EXCEPT ![c] = "none"]
    /\ watchdog' = [watchdog EXCEPT ![c] = "off"]
    /\ idleTicks' = [idleTicks EXCEPT ![c] = 0]
    /\ connSem' = connSem - 1
    /\ UNCHANGED <<serverVars, gitSem, gitWG, active, sessions, sessVars>>

(* A channel of another type, or one too many, is rejected: no change. *)
OpenChannel(s) ==
    /\ Up
    /\ conn[Owner(s)] = "serving"
    /\ At(s, "none") /\ guard[s] = "off" /\ stall[s] = "off"
    /\ sessions[Owner(s)] < MaxSessionsPerConn
    /\ sessions' = [sessions EXCEPT ![Owner(s)] = @ + 1]
    /\ pc' = [pc EXCEPT ![s] = "await"]
    /\ channel' = [channel EXCEPT ![s] = "open"]
    /\ guard' = [guard EXCEPT ![s] = "armed"]
    /\ UNCHANGED <<serverVars, connVars, connSem, gitSem, gitWG, active,
                   stall, quiet, cmdCtx, git>>

-----------------------------------------------------------------------------
(* The peer's side of a channel.  A local Close only sends a message: the  *)
(* loop over requests ends when the peer's close arrives or the transport  *)
(* dies.                                                                   *)

PeerCloses(s) ==
    /\ Up
    /\ channel[s] = "open" /\ ~At(s, "none")
    /\ channel' = [channel EXCEPT ![s] = "closed"]
    /\ UNCHANGED <<serverVars, connVars, counters, pc, guard, stall, quiet,
                   cmdCtx, git>>

PeerAnswersClose(s) ==
    /\ Up
    /\ channel[s] = "closing"
    /\ channel' = [channel EXCEPT ![s] = "closed"]
    /\ UNCHANGED <<serverVars, connVars, counters, pc, guard, stall, quiet,
                   cmdCtx, git>>

(* channel.Close() by this side; without effect on a closed channel. *)
LocalClose(s) ==
    channel' = [channel EXCEPT ![s] = IF @ = "open" THEN "closing" ELSE @]

-----------------------------------------------------------------------------
(* The session goroutine: handleSession and runGitCommand.                 *)

(* The deferred calls of handleSession and of its go statement. *)
Finish(s) ==
    /\ pc' = [pc EXCEPT ![s] = "none"]
    /\ guard' = [guard EXCEPT ![s] = IF @ = "armed" THEN "off" ELSE @]
    /\ channel' = [channel EXCEPT ![s] = "closed"]
    /\ sessions' = [sessions EXCEPT ![Owner(s)] = @ - 1]

(* The callback of the guard starts; guard.Stop no longer prevents it. *)
GuardFires(s) ==
    /\ Up
    /\ guard[s] = "armed"
    /\ guard' = [guard EXCEPT ![s] = "fired"]
    /\ UNCHANGED <<serverVars, connVars, counters, pc, channel, stall, quiet,
                   cmdCtx, git>>

(* Mutant: the callback only logs. *)
GuardLogs(s) ==
    /\ Up
    /\ guard[s] = "fired"
    /\ guard' = [guard EXCEPT ![s] = "off"]
    /\ UNCHANGED <<serverVars, connVars, counters, pc, channel, stall, quiet,
                   cmdCtx, git>>

GuardCloses(s) ==
    /\ Up
    /\ guard[s] = "fired"
    /\ guard' = [guard EXCEPT ![s] = "off"]
    /\ LocalClose(s)
    /\ UNCHANGED <<serverVars, connVars, counters, pc, stall, quiet, cmdCtx,
                   git>>

RequestsEnd(s) ==
    /\ Up
    /\ At(s, "await") /\ channel[s] = "closed"
    /\ Finish(s)
    /\ UNCHANGED <<serverVars, connVars, connSem, gitSem, gitWG, active,
                   stall, quiet, cmdCtx, git>>

(* A request already buffered is delivered whatever became of the channel. *)
(* guard.Stop does not report that the timer had fired.                    *)
StopGuard(s) == guard' = [guard EXCEPT ![s] = IF @ = "armed" THEN "off" ELSE @]

ExecRequest(s) ==
    /\ Up
    /\ At(s, "await")
    /\ StopGuard(s)
    /\ pc' = [pc EXCEPT ![s] = "exec"]
    /\ UNCHANGED <<serverVars, connVars, counters, channel, stall, quiet,
                   cmdCtx, git>>

(* A shell request or a malformed exec payload. *)
BadRequest(s) ==
    /\ Up
    /\ At(s, "await")
    /\ StopGuard(s)
    /\ pc' = [pc EXCEPT ![s] = "status"]
    /\ UNCHANGED <<serverVars, connVars, counters, channel, stall, quiet,
                   cmdCtx, git>>

(* The command or the path is refused, or no gitSem token is free. *)
Refuse(s) ==
    /\ Up
    /\ At(s, "exec")
    /\ pc' = [pc EXCEPT ![s] = "status"]
    /\ UNCHANGED <<serverVars, connVars, counters, channel, guard, stall,
                   quiet, cmdCtx, git>>

Admit(s) ==
    /\ Up
    /\ At(s, "exec")
    /\ gitSem < GitMaxConcurrent
    /\ gitSem' = gitSem + 1
    /\ pc' = [pc EXCEPT ![s] = "admitted"]
    /\ UNCHANGED <<serverVars, connVars, connSem, gitWG, active, sessions,
                   channel, guard, stall, quiet, cmdCtx, git>>

(* act.begin, gitWG.Add and the start of the stall watcher. *)
Register(s) ==
    /\ Up
    /\ At(s, "admitted")
    /\ active' = [active EXCEPT ![Owner(s)] = @ + 1]
    /\ gitWG' = gitWG + 1
    /\ quiet' = [quiet EXCEPT ![s] = FALSE]
    /\ cmdCtx' = [cmdCtx EXCEPT ![s] = FALSE]
    /\ stall' = [stall EXCEPT ![s] = IF GitIdleEnabled THEN "watching" ELSE @]
    /\ pc' = [pc EXCEPT ![s] = "registered"]
    /\ UNCHANGED <<serverVars, connVars, connSem, gitSem, sessions, channel,
                   guard, git>>

(* Mutant: the command is started without a context. *)
StartUnchecked(s) ==
    /\ Up
    /\ At(s, "registered")
    /\ pc' = [pc EXCEPT ![s] = "forking"]
    /\ UNCHANGED <<serverVars, connVars, counters, channel, guard, stall,
                   quiet, cmdCtx, git>>

(* exec.Cmd.Start refuses to fork under a cancelled context. *)
StartCheck(s) ==
    /\ Up
    /\ At(s, "registered")
    /\ pc' = [pc EXCEPT ![s] = IF CtxDone(s) THEN "unwind" ELSE "forking"]
    /\ UNCHANGED <<serverVars, connVars, counters, channel, guard, stall,
                   quiet, cmdCtx, git>>

Fork(s) ==
    /\ Up
    /\ At(s, "forking")
    /\ pc' = [pc EXCEPT ![s] = "running"]
    /\ git' = [git EXCEPT ![s] = "running"]
    /\ UNCHANGED <<serverVars, connVars, counters, channel, guard, stall,
                   quiet, cmdCtx>>

(* Mutant: an error path that misses the deferred calls. *)
ForkFailsEarly(s) ==
    /\ Up
    /\ At(s, "forking")
    /\ pc' = [pc EXCEPT ![s] = "status"]
    /\ UNCHANGED <<serverVars, connVars, counters, channel, guard, stall,
                   quiet, cmdCtx, git>>

ForkFails(s) ==
    /\ Up
    /\ At(s, "forking")
    /\ pc' = [pc EXCEPT ![s] = "unwind"]
    /\ UNCHANGED <<serverVars, connVars, counters, channel, guard, stall,
                   quiet, cmdCtx, git>>

(* Bytes move between the child and the channel: prog.mark(). *)
Progress(s) ==
    /\ Up
    /\ git[s] = "running" /\ quiet[s] /\ channel[s] # "closed"
    /\ quiet' = [quiet EXCEPT ![s] = FALSE]
    /\ UNCHANGED <<serverVars, connVars, counters, pc, channel, guard, stall,
                   cmdCtx, git>>

(* The idle timeout passes without a byte: the client or git stops, ...    *)
FallsQuiet(s) ==
    /\ Up
    /\ At(s, "running") /\ ~quiet[s] /\ channel[s] # "closed"
    /\ quiet' = [quiet EXCEPT ![s] = TRUE]
    /\ UNCHANGED <<serverVars, connVars, counters, pc, channel, guard, stall,
                   cmdCtx, git>>

(* ... or no channel, or no git, is left for bytes to move on. *)
FallsSilent(s) ==
    /\ Up
    /\ At(s, "running") /\ ~quiet[s]
    /\ channel[s] = "closed" \/ git[s] = "exited"
    /\ quiet' = [quiet EXCEPT ![s] = TRUE]
    /\ UNCHANGED <<serverVars, connVars, counters, pc, channel, guard, stall,
                   cmdCtx, git>>

(* git ends by itself. *)
GitExits(s) ==
    /\ Up
    /\ git[s] = "running"
    /\ git' = [git EXCEPT ![s] = "exited"]
    /\ UNCHANGED <<serverVars, connVars, counters, pc, channel, guard, stall,
                   quiet, cmdCtx>>

(* Mutant: the command's context is not derived from shutdownCtx. *)
KillGroupUnderived(s) ==
    /\ Up
    /\ git[s] = "running" /\ cmdCtx[s]
    /\ git' = [git EXCEPT ![s] = "killed"]
    /\ UNCHANGED <<serverVars, connVars, counters, pc, channel, guard, stall,
                   quiet, cmdCtx>>

(* Mutant: Run returns once the group is signalled, before it is dead. *)
KillGroupNoWait(s) ==
    /\ Up
    /\ git[s] = "running" /\ CtxDone(s)
    /\ git' = [git EXCEPT ![s] = "killed"]
    /\ pc' = [pc EXCEPT ![s] = "unwind"]
    /\ UNCHANGED <<serverVars, connVars, counters, channel, guard, stall,
                   quiet, cmdCtx>>

(* cmd.Cancel, called by os/exec once the context is done: SIGKILL to the  *)
(* process group.                                                          *)
KillGroup(s) ==
    /\ Up
    /\ git[s] = "running" /\ CtxDone(s)
    /\ git' = [git EXCEPT ![s] = "killed"]
    /\ UNCHANGED <<serverVars, connVars, counters, pc, channel, guard, stall,
                   quiet, cmdCtx>>

ProcessDies(s) ==
    /\ Up
    /\ git[s] = "killed"
    /\ git' = [git EXCEPT ![s] = "exited"]
    /\ UNCHANGED <<serverVars, connVars, counters, pc, channel, guard, stall,
                   quiet, cmdCtx>>

(* cmd.Wait reaps the child, and then waits for the goroutines that copy   *)
(* between the child and the channel.                                      *)
RunReturns(s) ==
    /\ Up
    /\ At(s, "running") /\ git[s] = "exited"
    /\ git' = [git EXCEPT ![s] = "none"]
    /\ pc' = [pc EXCEPT ![s] = "unwind"]
    /\ UNCHANGED <<serverVars, connVars, counters, channel, guard, stall,
                   quiet, cmdCtx>>

(* With no channel left their reads and writes fail. *)
WaitReturns(s) == channel[s] = "closed" /\ RunReturns(s)

(* Otherwise a read waits for the client, also on a channel this side has  *)
(* closed, until it ends its input or sends what git no longer takes.      *)
(* WaitDelay closes the pipes to the child, not the channel: nothing may   *)
(* be expected of it.                                                      *)
WaitReturnsOpen(s) == channel[s] # "closed" /\ RunReturns(s)

(* close(stop), cancel(), gitWG.Done() and the first half of act.end(). *)
Unwind(s) ==
    /\ Up
    /\ At(s, "unwind")
    /\ cmdCtx' = [cmdCtx EXCEPT ![s] = TRUE]
    /\ gitWG' = gitWG - 1
    /\ active' = [active EXCEPT ![Owner(s)] = @ - 1]
    /\ pc' = [pc EXCEPT ![s] = "ending"]
    /\ UNCHANGED <<serverVars, connVars, connSem, gitSem, sessions, channel,
                   guard, stall, quiet, git>>

(* act.lastUsed.Store(now), then the gitSem token is returned. *)
EndActivity(s) ==
    /\ Up
    /\ At(s, "ending")
    /\ idleTicks' = [idleTicks EXCEPT ![Owner(s)] = 0]
    /\ gitSem' = gitSem - 1
    /\ pc' = [pc EXCEPT ![s] = "status"]
    /\ UNCHANGED <<serverVars, conn, watchdog, connSem, gitWG, active,
                   sessions, channel, guard, stall, quiet, cmdCtx, git>>

(* The write of the error text or of the exit status gets through ... *)
StatusSent(s) ==
    /\ Up
    /\ At(s, "status") /\ channel[s] = "open"
    /\ Finish(s)
    /\ UNCHANGED <<serverVars, connVars, connSem, gitSem, gitWG, active,
                   stall, quiet, cmdCtx, git>>

(* ... or fails, because the channel is being closed or is gone.  A write  *)
(* to a full window of a half closed channel may also stay blocked.        *)
StatusFails(s) ==
    /\ Up
    /\ At(s, "status") /\ channel[s] # "open"
    /\ Finish(s)
    /\ UNCHANGED <<serverVars, connVars, connSem, gitSem, gitWG, active,
                   stall, quiet, cmdCtx, git>>

-----------------------------------------------------------------------------
(* The stall watcher of a command.                                         *)

(* Mutant: the watcher closes the channel but does not cancel. *)
StallOnlyCloses(s) ==
    /\ Up
    /\ stall[s] = "watching" /\ quiet[s]
    /\ stall' = [stall EXCEPT ![s] = "closing"]
    /\ UNCHANGED <<serverVars, connVars, counters, pc, channel, guard, quiet,
                   cmdCtx, git>>

(* Mutant: the watcher cancels but does not close the channel. *)
StallOnlyCancels(s) ==
    /\ Up
    /\ stall[s] = "closing"
    /\ stall' = [stall EXCEPT ![s] = "off"]
    /\ quiet' = [quiet EXCEPT ![s] = TRUE]
    /\ UNCHANGED <<serverVars, connVars, counters, pc, channel, guard,
                   cmdCtx, git>>

(* The tick may win against a closed `stop' in the select, hence no        *)
(* condition on pc.                                                        *)
StallCancels(s) ==
    /\ Up
    /\ stall[s] = "watching" /\ quiet[s]
    /\ cmdCtx' = [cmdCtx EXCEPT ![s] = TRUE]
    /\ stall' = [stall EXCEPT ![s] = "closing"]
    /\ UNCHANGED <<serverVars, connVars, counters, pc, channel, guard, quiet,
                   git>>

StallCloses(s) ==
    /\ Up
    /\ stall[s] = "closing"
    /\ stall' = [stall EXCEPT ![s] = "off"]
    /\ quiet' = [quiet EXCEPT ![s] = TRUE]
    /\ LocalClose(s)
    /\ UNCHANGED <<serverVars, connVars, counters, pc, guard, cmdCtx, git>>

StallStops(s) ==
    /\ Up
    /\ stall[s] = "watching" /\ pc[s] \notin Counted
    /\ stall' = [stall EXCEPT ![s] = "off"]
    /\ quiet' = [quiet EXCEPT ![s] = TRUE]
    /\ UNCHANGED <<serverVars, connVars, counters, pc, channel, guard,
                   cmdCtx, git>>

-----------------------------------------------------------------------------
(* The main goroutine.                                                     *)

(* SIGINT or SIGTERM: the listener is closed. *)
Signal ==
    /\ "signal" \in Stops
    /\ main = "serving"
    /\ main' = "stopping"
    /\ UNCHANGED <<exitBy, acceptor, connVars, counters, sessVars>>

(* shutdownCancel(), then waitForGitCommands starts gitWG.Wait(). *)
ShutdownCancel ==
    /\ main = "stopping"
    /\ main' = "draining"
    /\ UNCHANGED <<exitBy, acceptor, connVars, counters, sessVars>>

(* Mutant: the wait is skipped. *)
NoWait ==
    /\ main = "draining"
    /\ main' = "drained"
    /\ UNCHANGED <<exitBy, acceptor, connVars, counters, sessVars>>

WaitSeesZero ==
    /\ main = "draining"
    /\ gitWG = 0
    /\ main' = "drained"
    /\ UNCHANGED <<exitBy, acceptor, connVars, counters, sessVars>>

MainReturns ==
    /\ main = "drained"
    /\ main' = "exited" /\ exitBy' = "done"
    /\ UNCHANGED <<acceptor, connVars, counters, sessVars>>

(* gitShutdownGrace is three seconds, and a cancelled context has its      *)
(* process group killed at once: by then every fork in flight at the       *)
(* cancellation has completed and every group has been signalled.          *)
GraceCoversKill == \A s \in Channels : ~At(s, "forking") /\ git[s] # "running"

GiveUp ==
    /\ main = "draining"
    /\ GraceCoversKill
    /\ main' = "exited" /\ exitBy' = "gaveup"
    /\ UNCHANGED <<acceptor, connVars, counters, sessVars>>

(* listener.Accept fails for another reason than the closed listener. *)
AcceptFails ==
    /\ "acceptError" \in Stops
    /\ main = "serving" /\ acceptor = "accepting"
    /\ acceptor' = "failed"
    /\ UNCHANGED <<main, exitBy, connVars, counters, sessVars>>

(* main receives from errCh: os.Exit(1). *)
MainFails ==
    /\ main = "serving" /\ acceptor = "failed"
    /\ main' = "exited" /\ exitBy' = "error"
    /\ UNCHANGED <<acceptor, connVars, counters, sessVars>>

(* The process is gone; nothing it did continues. *)
Exited == main = "exited" /\ UNCHANGED vars

-----------------------------------------------------------------------------
WatchdogStep(c) == \/ WatchdogTick(c) \/ WatchdogFindsIdle(c)
                   \/ WatchdogFindsRecent(c) \/ WatchdogCloses(c)

ConnStep(c) == \/ Accept(c) \/ HandshakeDone(c) \/ HandshakeFails(c)
               \/ ClientDisconnects(c) \/ HandleConnReturns(c)
               \/ WatchdogStep(c)

ChannelStep(s) == \/ OpenChannel(s) \/ PeerCloses(s) \/ PeerAnswersClose(s)
                  \/ GuardFires(s) \/ GuardCloses(s)

SessionStep(s) == \/ RequestsEnd(s) \/ ExecRequest(s) \/ BadRequest(s)
                  \/ Refuse(s) \/ Admit(s) \/ Register(s) \/ StartCheck(s)
                  \/ Fork(s) \/ ForkFails(s) \/ WaitReturns(s)
                  \/ WaitReturnsOpen(s) \/ Unwind(s) \/ EndActivity(s)
                  \/ StatusSent(s) \/ StatusFails(s)

ChildStep(s) == \/ Progress(s) \/ FallsQuiet(s) \/ FallsSilent(s)
                \/ GitExits(s) \/ KillGroup(s) \/ ProcessDies(s)
                \/ StallCancels(s) \/ StallCloses(s) \/ StallStops(s)

MainStep == \/ Signal \/ ShutdownCancel \/ WaitSeesZero \/ MainReturns
            \/ GiveUp \/ AcceptFails \/ MainFails

Next == \/ \E c \in Conns : ConnStep(c)
        \/ \E s \in Channels : ChannelStep(s) \/ SessionStep(s) \/ ChildStep(s)
        \/ MainStep
        \/ Exited

Spec == Init /\ [][Next]_vars

(* Goroutines are scheduled, timers and tickers fire, deadlines expire,    *)
(* the kernel delivers SIGKILL, a read or write fails once its channel is  *)
(* closed.  Nothing is assumed of clients, of git, of signals or of reads  *)
(* and writes that wait for a client.                                      *)
Fairness ==
    /\ \A c \in Conns : /\ WF_vars(HandshakeFails(c))
                        /\ WF_vars(WatchdogTick(c))
                        /\ WF_vars(WatchdogFindsIdle(c) \/ WatchdogFindsRecent(c))
                        /\ WF_vars(WatchdogCloses(c))
                        /\ WF_vars(HandleConnReturns(c))
    /\ \A s \in Channels : /\ WF_vars(GuardFires(s))
                           /\ WF_vars(GuardCloses(s))
                           /\ WF_vars(RequestsEnd(s))
                           /\ WF_vars(Refuse(s) \/ Admit(s))
                           /\ WF_vars(Register(s))
                           /\ WF_vars(StartCheck(s))
                           /\ WF_vars(Fork(s) \/ ForkFails(s))
                           /\ WF_vars(FallsSilent(s))
                           /\ WF_vars(KillGroup(s))
                           /\ WF_vars(ProcessDies(s))
                           /\ WF_vars(WaitReturns(s))
                           /\ WF_vars(Unwind(s))
                           /\ WF_vars(EndActivity(s))
                           /\ WF_vars(StatusFails(s) /\ channel[s] = "closed")
                           /\ WF_vars(StallCancels(s))
                           /\ WF_vars(StallCloses(s))
                           /\ WF_vars(StallStops(s))
    /\ WF_vars(ShutdownCancel)
    /\ WF_vars(WaitSeesZero)
    /\ WF_vars(MainReturns)
    /\ WF_vars(GiveUp)
    /\ WF_vars(MainFails)

FairSpec == Spec /\ Fairness

-----------------------------------------------------------------------------
(* Properties.                                                             *)

(* Every semaphore, counter and WaitGroup equals the number of goroutines  *)
(* between its acquisition and its deferred release, on every path through *)
(* handleConn, handleSession and runGitCommand, early returns included.    *)
CountersExact ==
    /\ connSem = Cardinality({c \in Conns : conn[c] # "none"})
    /\ gitSem = Count(Channels, Holding)
    /\ gitWG = Count(Channels, Counted)
    /\ \A c \in Conns : /\ active[c] = Count(Of(c), Counted)
                        /\ sessions[c] = Count(Of(c), Live)

(* --git-max-concurrent bounds the git processes of the server, whatever   *)
(* happened to the sessions, channels and connections that started them.   *)
GitProcessCap == Cardinality({s \in Channels : Alive(s)}) <= GitMaxConcurrent

(* A server that stopped on a signal left no git process group behind: all *)
(* are gone if the wait saw zero, and all were sent SIGKILL if it gave up. *)
NoGitLeftRunning ==
    /\ exitBy = "done"   => \A s \in Channels : ~Alive(s)
    /\ exitBy = "gaveup" => \A s \in Channels : git[s] # "running"

(* Once gitWG.Wait has returned no session forks git any more, although    *)
(* sessions still arrive and register until the process is gone.           *)
NoForkOnceDrained ==
    [][main = "drained" => \A s \in Channels : ~Alive(s) => ~Alive(s)']_vars

Busy(s) == pc[s] \in Counted /\ ~quiet[s]

(* All this side can do has been done: git is dead and the channel closed, *)
(* but Run waits for the client to answer.                                 *)
Unanswered(s) ==
    At(s, "running") /\ git[s] = "exited" /\ channel[s] = "closing"

Held(s) == Busy(s) \/ Unanswered(s)

(* A command that moves no bytes does not keep its --git-max-concurrent    *)
(* token: the stall watcher kills git and closes the channel, and only a   *)
(* client that stays connected and answers nothing can keep it from there. *)
GitSlotReclaimed ==
    \A s \in Channels : []<>(pc[s] \notin Holding \/ Held(s) \/ ~Up)

(* A connection on which no command makes progress does not keep its slot, *)
(* unless a close is unanswered: the handshake deadline, the watchdog or   *)
(* the stall watcher, and the watchdog after it, reclaims it.              *)
ConnSlotReclaimed ==
    \A c \in Conns :
        []<>(conn[c] = "none" \/ (\E s \in Of(c) : Held(s)) \/ ~Up)

(* A session ends unless some command on its connection makes progress or  *)
(* has its close unanswered.                                               *)
SessionSlotReclaimed ==
    \A s \in Channels :
        []<>(At(s, "none") \/ (\E t \in Of(Owner(s)) : Held(t)) \/ ~Up)

(* A client that follows the protocol answers a close and reads what it is *)
(* sent.                                                                   *)
ClientConforms ==
    \A s \in Channels : /\ WF_vars(PeerAnswersClose(s))
                        /\ WF_vars(StatusSent(s) \/ StatusFails(s))

(* With a conforming client a session ends unless its own command makes    *)
(* progress: what other sessions do does not matter.                       *)
SessionEnds ==
    ClientConforms
        => \A s \in Channels : []<>(At(s, "none") \/ Busy(s) \/ ~Up)

(* After a signal the process exits, although clients never answer and     *)
(* commands never end by themselves, and every git group has been killed.  *)
ShutdownCompletes ==
    main = "stopping" ~> (~Up /\ \A s \in Channels : git[s] # "running")

(* The server implements the promise of CommandPool: a git process group   *)
(* is in its session's slot until it is dead.                              *)
Pool == INSTANCE CommandPool WITH
    Slots       <- Channels,
    MaxCommands <- GitMaxConcurrent,
    LateStarts  <- FALSE,
    phase       <- IF main \in {"serving", "stopping"} THEN "open"
                   ELSE IF main = "draining" THEN "stopping"
                   ELSE IF exitBy = "gaveup" THEN "gaveup"
                   ELSE IF exitBy = "error" THEN "aborted"
                   ELSE "closed",
    life        <- [s \in Channels |-> IF Alive(s) THEN git[s] ELSE "none"]

ImplementsPool == Pool!PoolSpec

-----------------------------------------------------------------------------
(* What the sources say of the program, and the code does not do.          *)

(* main.go: "connIdleTimeout closes a connection with no git command in    *)
(* flight".  The watchdog closes no connection that has one.               *)
ReapOnlyIdle ==
    [][\A c \in Conns :
         watchdog[c] = "closing" /\ watchdog'[c] = "off" /\ conn[c] = "serving"
         /\ conn'[c] = "lost" => active[c] = 0]_vars

(* main.go: "sessionRequestTimeout closes a channel that never carries an  *)
(* exec".  The guard closes no channel whose command has begun.            *)
GuardSparesExec ==
    [][\A s \in Channels :
         guard[s] = "fired" /\ guard'[s] = "off" /\ channel[s] = "open"
         => pc[s] \notin Holding]_vars

(* main.go: "every git command derives its context from it so none outlive *)
(* the process".                                                           *)
NoGitOutlivesServer == ~Up => \A s \in Channels : git[s] # "running"
=============================================================================
