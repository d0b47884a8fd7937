------------------------------- MODULE HttpGit -------------------------------
(***************************************************************************)
(* Git over HTTP: the handler of githttp.go with its CGI child, the copier *)
(* of the request body, the stall watcher and the goroutine that relays    *)
(* the shutdown, the deadlines of the keep-alive connection below it, and  *)
(* the shutdown sequence of main.go.                                       *)
(*                                                                         *)
(* As in SshServer, time is the order of events, `quiet' records that a    *)
(* request has moved no byte for --git-idle-timeout, and the content of    *)
(* requests and responses is left out.  The net/http server is modelled    *)
(* as far as the handler relies on it: one request at a time on a          *)
(* connection, the request's context, the reading of what a handler left   *)
(* of the body, and Server.Shutdown.                                       *)
(***************************************************************************)
EXTENDS Naturals, FiniteSets

CONSTANTS
    Conns,              \* client connections
    GitMaxConcurrent,   \* --git-max-concurrent
    GitIdleEnabled      \* --git-idle-timeout > 0

ASSUME HttpConnsFinite   == IsFiniteSet(Conns)
ASSUME HttpLimitPositive == GitMaxConcurrent \in Nat \ {0}
ASSUME HttpIdleBoolean   == GitIdleEnabled \in BOOLEAN

VARIABLES
    main,       \* the main goroutine
    exitBy,     \* how it ended its wait for git
    gitSem,     \* tokens in cfg.gitSem
    gitActive,  \* cfg.gitActive
    pc,         \* the connection and the handler of its current request
    client,     \* whether the client is there
    body,       \* the request body
    readBy,     \* the connection's read deadline
    writeBy,    \* the connection's write deadline
    blocked,    \* a write waits for the client, or failed waiting
    cancelled,  \* the context of the command
    stall,      \* the watchStall goroutine of the current request
    stale,      \* one of an earlier request, past its select
    quiet,      \* no byte has moved for the git idle timeout
    git,        \* the CGI child's process group
    late        \* history: the command began after appCancel

mainVars == <<main, exitBy>>
counters == <<gitSem, gitActive>>
connVars == <<client, body, readBy, writeBy, blocked>>
cmdVars  == <<cancelled, stall, stale, quiet, git, late>>
vars == <<mainVars, counters, pc, connVars, cmdVars>>

(* none, new, idle  no request: no connection, never used, kept alive      *)
(* checking         in the handler, before a token is taken                *)
(* admitted         holds a token; path and service are being checked      *)
(* begun            gitBegin done, watcher and relay started               *)
(* forking          exec.Cmd.Start has seen a live context                 *)
(* copying          in writeCGIResponse                                    *)
(* waiting          in cmd.Wait, for git and for the copying of the body   *)
(* unwind           runGitCGI returned; deferred calls pending             *)
(* clearing         the deferred calls of serveGit pending                 *)
(* finishing        the deferred call of the root handler pending          *)
(* draining         the handler returned; the server reads the body's rest *)
Counted == {"begun", "forking", "copying", "waiting", "unwind"}
Holding == {"admitted", "clearing"} \cup Counted
Serving == {"checking", "finishing"} \cup Holding
PCs     == {"none", "new", "idle", "draining"} \cup Serving

Alive(c) == git[c] \in {"running", "killed"}
Up == main # "exited"
Cancelling == main \in {"cancelled", "drained", "exited"}
Go(c, p) == pc' = [pc EXCEPT ![c] = p]

(* The connection is closed; a closed connection has no deadlines. *)
Closed(c) ==
    /\ Go(c, "none")
    /\ client' = [client EXCEPT ![c] = "gone"]
    /\ readBy' = [readBy EXCEPT ![c] = "unset"]
    /\ writeBy' = [writeBy EXCEPT ![c] = "unset"]

TypeOK ==
    /\ main \in {"serving", "closing", "cancelled", "drained", "exited"}
    /\ exitBy \in {"none", "done", "gaveup"}
    /\ gitSem \in 0..GitMaxConcurrent
    /\ gitActive \in Nat
    /\ pc \in [Conns -> PCs]
    /\ client \in [Conns -> {"there", "gone"}]
    /\ body \in [Conns -> {"open", "eof", "failed"}]
    /\ readBy \in [Conns -> {"unset", "set", "past"}]
    /\ writeBy \in [Conns -> {"unset", "set"}]
    /\ blocked \in [Conns -> BOOLEAN]
    /\ cancelled \in [Conns -> BOOLEAN]
    /\ stall \in [Conns -> {"off", "watching", "expiring", "cancelling"}]
    /\ stale \in [Conns -> BOOLEAN]
    /\ quiet \in [Conns -> BOOLEAN]
    /\ git \in [Conns -> {"none", "running", "killed", "exited"}]
    /\ late \in [Conns -> BOOLEAN]

Init ==
    /\ main = "serving" /\ exitBy = "none"
    /\ gitSem = 0 /\ gitActive = 0
    /\ pc = [c \in Conns |-> "none"]
    /\ client = [c \in Conns |-> "gone"]
    /\ body = [c \in Conns |-> "eof"]
    /\ readBy = [c \in Conns |-> "unset"]
    /\ writeBy = [c \in Conns |-> "unset"]
    /\ blocked = [c \in Conns |-> FALSE]
    /\ cancelled = [c \in Conns |-> TRUE]
    /\ stall = [c \in Conns |-> "off"]
    /\ stale = [c \in Conns |-> FALSE]
    /\ quiet = [c \in Conns |-> TRUE]
    /\ git = [c \in Conns |-> "none"]
    /\ late = [c \in Conns |-> FALSE]

-----------------------------------------------------------------------------
(* Connections, as net/http keeps them.                                    *)

(* The listeners are closed one server after the other, so a connection    *)
(* may still be accepted while Shutdown waits for the first.               *)
Connect(c) ==
    /\ main \in {"serving", "closing"}
    /\ pc[c] = "none" /\ ~stale[c]
    /\ Go(c, "new")
    /\ client' = [client EXCEPT ![c] = "there"]
    /\ UNCHANGED <<mainVars, counters, body, readBy, writeBy, blocked, cmdVars>>

(* The client, an idle timeout or Shutdown closes an unused connection. *)
CloseUnused(c) ==
    /\ Up
    /\ pc[c] \in {"new", "idle"}
    /\ Closed(c)
    /\ UNCHANGED <<mainVars, counters, body, blocked, cmdVars>>

(* The server resets the read deadline for every request, and leaves the   *)
(* write deadline alone, because main sets no WriteTimeout.                *)
Request(c) ==
    /\ Up
    /\ pc[c] \in {"new", "idle"}
    /\ Go(c, "checking")
    /\ \E b \in {"open", "eof"} : body' = [body EXCEPT ![c] = b]
    /\ readBy' = [readBy EXCEPT ![c] = "unset"]
    /\ UNCHANGED <<mainVars, counters, client, writeBy, blocked, cmdVars>>

ClientLeaves(c) ==
    /\ Up
    /\ pc[c] \in Serving \cup {"draining"} /\ client[c] = "there"
    /\ client' = [client EXCEPT ![c] = "gone"]
    /\ UNCHANGED <<mainVars, counters, pc, body, readBy, writeBy, blocked, cmdVars>>

(* With the body read to its end the server watches the connection and     *)
(* cancels the request's context.                                          *)
DisconnectCancels(c) ==
    /\ Up
    /\ pc[c] \in Counted /\ client[c] = "gone" /\ body[c] = "eof"
    /\ ~cancelled[c]
    /\ cancelled' = [cancelled EXCEPT ![c] = TRUE]
    /\ UNCHANGED <<mainVars, counters, pc, connVars, stall, stale,
                   quiet, git, late>>

(* The pending write gets through, which is progress. *)
ClientReads(c) ==
    /\ Up
    /\ pc[c] = "copying" /\ blocked[c] /\ client[c] = "there"
    /\ blocked' = [blocked EXCEPT ![c] = FALSE]
    /\ quiet' = [quiet EXCEPT ![c] = FALSE]
    /\ UNCHANGED <<mainVars, counters, pc, client, body, readBy, writeBy,
                   cancelled, stall, stale, git, late>>

(* The rest of the body arrives, and its reader, the copier of os/exec or  *)
(* the server itself, sees its end.                                        *)
BodyEnds(c) ==
    /\ Up
    /\ pc[c] \in {"copying", "waiting", "draining"}
    /\ body[c] = "open" /\ client[c] = "there" /\ readBy[c] # "past"
    /\ body' = [body EXCEPT ![c] = "eof"]
    /\ UNCHANGED <<mainVars, counters, pc, client, readBy, writeBy, blocked,
                   cmdVars>>

(* The size limit is hit, ... *)
BodyTooLarge(c) ==
    /\ Up
    /\ pc[c] \in {"copying", "waiting"}
    /\ body[c] = "open"
    /\ body' = [body EXCEPT ![c] = "failed"]
    /\ UNCHANGED <<mainVars, counters, pc, client, readBy, writeBy, blocked,
                   cmdVars>>

(* ... or a read of the connection fails, which cancels the context too.   *)
BodyReadFails(c) ==
    /\ Up
    /\ pc[c] \in {"copying", "waiting"}
    /\ body[c] = "open" /\ (client[c] = "gone" \/ readBy[c] = "past")
    /\ body' = [body EXCEPT ![c] = "failed"]
    /\ cancelled' = [cancelled EXCEPT ![c] = TRUE]
    /\ UNCHANGED <<mainVars, counters, pc, client, readBy, writeBy, blocked,
                   stall, stale, quiet, git, late>>

(* A request is over.  The connection is kept alive, with a read deadline  *)
(* of the server's own, if it is intact and its server is not yet shutting *)
(* down.                                                                   *)
Drained(c) ==
    /\ Up
    /\ pc[c] = "draining"
    /\ body[c] # "open"
    /\ \/ /\ client[c] = "there" /\ body[c] = "eof" /\ ~blocked[c]
          /\ main \in {"serving", "closing"}
          /\ Go(c, "idle") /\ readBy' = [readBy EXCEPT ![c] = "unset"]
          /\ UNCHANGED <<client, writeBy>>
       \/ /\ client[c] = "gone" \/ body[c] = "failed" \/ blocked[c]
             \/ main # "serving"
          /\ Closed(c)
    /\ body' = [body EXCEPT ![c] = "eof"]
    /\ blocked' = [blocked EXCEPT ![c] = FALSE]
    /\ UNCHANGED <<mainVars, counters, cmdVars>>

(* The rest of the body does not come in time, or its sender has left. *)
DrainFails(c) ==
    /\ Up
    /\ pc[c] = "draining" /\ body[c] = "open"
    /\ readBy[c] # "unset" \/ client[c] = "gone"
    /\ Closed(c)
    /\ body' = [body EXCEPT ![c] = "eof"]
    /\ blocked' = [blocked EXCEPT ![c] = FALSE]
    /\ UNCHANGED <<mainVars, counters, cmdVars>>

-----------------------------------------------------------------------------
(* The handler.                                                            *)

(* Any answer before serveGit takes a token: the path is no git path, a    *)
(* header is too long, or no token is free.                                *)
Reject(c) ==
    /\ Up
    /\ pc[c] = "checking"
    /\ Go(c, "finishing")
    /\ UNCHANGED <<mainVars, counters, connVars, cmdVars>>

(* Mutant: the default branch of the select is missing. *)
AdmitBeyondCap(c) ==
    /\ Up
    /\ pc[c] = "checking"
    /\ gitSem' = gitSem + 1
    /\ Go(c, "admitted")
    /\ UNCHANGED <<mainVars, gitActive, connVars, cmdVars>>

Admit(c) ==
    /\ Up
    /\ pc[c] = "checking"
    /\ gitSem < GitMaxConcurrent
    /\ gitSem' = gitSem + 1
    /\ Go(c, "admitted")
    /\ UNCHANGED <<mainVars, gitActive, connVars, cmdVars>>

(* Mutant: an early return before the release was deferred. *)
RejectLeaks(c) ==
    /\ Up
    /\ pc[c] = "admitted"
    /\ Go(c, "finishing")
    /\ UNCHANGED <<mainVars, counters, connVars, cmdVars>>

(* A bad path, a repository outside the root, a push while pushing is      *)
(* disabled, or a missing helper.                                          *)
RejectAdmitted(c) ==
    /\ Up
    /\ pc[c] = "admitted"
    /\ Go(c, "clearing")
    /\ UNCHANGED <<mainVars, counters, connVars, cmdVars>>

(* runGitCGIRequest up to cmd.Start. *)
Begin(c) ==
    /\ Up
    /\ pc[c] = "admitted"
    /\ gitActive' = gitActive + 1
    /\ cancelled' = [cancelled EXCEPT ![c] = FALSE]
    /\ stall' = [stall EXCEPT ![c] = IF GitIdleEnabled THEN "watching" ELSE @]
    /\ quiet' = [quiet EXCEPT ![c] = FALSE]
    /\ late' = [late EXCEPT ![c] = Cancelling]
    /\ Go(c, "begun")
    /\ UNCHANGED <<mainVars, gitSem, connVars, stale, git>>

StartCheck(c) ==
    /\ Up
    /\ pc[c] = "begun"
    /\ Go(c, IF cancelled[c] THEN "unwind" ELSE "forking")
    /\ UNCHANGED <<mainVars, counters, connVars, cmdVars>>

Fork(c) ==
    /\ Up
    /\ pc[c] = "forking"
    /\ Go(c, "copying")
    /\ git' = [git EXCEPT ![c] = "running"]
    /\ UNCHANGED <<mainVars, counters, connVars, cancelled, stall,
                   stale, quiet, late>>

ForkFails(c) ==
    /\ Up
    /\ pc[c] = "forking"
    /\ Go(c, "unwind")
    /\ UNCHANGED <<mainVars, counters, connVars, cmdVars>>

(* deadlineWriter.Write: the deadline is set anew for each write, which    *)
(* gets through or waits for a client that has stopped reading.            *)
Write(c) ==
    /\ Up
    /\ pc[c] = "copying" /\ git[c] = "running" /\ ~blocked[c]
    /\ client[c] = "there"
    /\ writeBy' = [writeBy EXCEPT ![c] = IF GitIdleEnabled THEN "set" ELSE @]
    /\ \E b \in BOOLEAN :
          /\ blocked' = [blocked EXCEPT ![c] = b]
          /\ quiet' = [quiet EXCEPT ![c] = @ /\ b]
    /\ UNCHANGED <<mainVars, counters, pc, client, body, readBy, cancelled,
                   stall, stale, git, late>>

(* Stdout is at its end: every process of the group has closed it. *)
CopyEnds(c) ==
    /\ Up
    /\ pc[c] = "copying" /\ git[c] = "exited" /\ ~blocked[c]
    /\ Go(c, "waiting")
    /\ UNCHANGED <<mainVars, counters, connVars, cmdVars>>

(* Mutant: the handler returns without cmd.Wait. *)
WriteFailsNoWait(c) ==
    /\ Up
    /\ pc[c] = "copying"
    /\ (blocked[c] /\ writeBy[c] = "set") \/ client[c] = "gone"
    /\ cancelled' = [cancelled EXCEPT ![c] = TRUE]
    /\ Go(c, "unwind")
    /\ UNCHANGED <<mainVars, counters, connVars, stall, stale, quiet, git,
                   late>>

(* Mutant: the writer sets no deadline. *)
WriteFailsIfGone(c) ==
    /\ Up
    /\ pc[c] = "copying"
    /\ client[c] = "gone"
    /\ cancelled' = [cancelled EXCEPT ![c] = TRUE]
    /\ Go(c, "waiting")
    /\ UNCHANGED <<mainVars, counters, connVars, stall, stale, quiet, git,
                   late>>

(* The write deadline of deadlineWriter passes, or the client is gone: the *)
(* handler gives up, and the server cancels the request's context.         *)
WriteFails(c) ==
    /\ Up
    /\ pc[c] = "copying"
    /\ (blocked[c] /\ writeBy[c] = "set") \/ client[c] = "gone"
    /\ cancelled' = [cancelled EXCEPT ![c] = TRUE]
    /\ Go(c, "waiting")
    /\ UNCHANGED <<mainVars, counters, connVars, stall, stale, quiet, git,
                   late>>

(* A malformed CGI header makes the handler give up the response. *)
BadHeader(c) ==
    /\ Up
    /\ pc[c] = "copying" /\ ~blocked[c]
    /\ Go(c, "waiting")
    /\ UNCHANGED <<mainVars, counters, connVars, cmdVars>>

(* cmd.Wait reaps the child, and then waits for the goroutine that copies  *)
(* the request body.                                                       *)
CommandReturns(c) ==
    /\ Up
    /\ pc[c] = "waiting" /\ git[c] = "exited"
    /\ git' = [git EXCEPT ![c] = "none"]
    /\ Go(c, "unwind")
    /\ UNCHANGED <<mainVars, counters, connVars, cancelled, stall,
                   stale, quiet, late>>

(* The body is at its end, or reading it has failed. *)
WaitReturns(c) == body[c] # "open" /\ CommandReturns(c)

(* Otherwise the copier waits in a read for more of the body, and notices  *)
(* that git is gone when some arrives.  WaitDelay closes the pipe to the   *)
(* child, not the body: nothing may be expected of it.                     *)
WaitReturnsOpen(c) == body[c] = "open" /\ CommandReturns(c)

(* close(stop), gitEnd() and cancel().  A watcher that is already past its *)
(* select goes on.                                                         *)
Unwind(c) ==
    /\ Up
    /\ pc[c] = "unwind"
    /\ gitActive' = gitActive - 1
    /\ cancelled' = [cancelled EXCEPT ![c] = TRUE]
    /\ stall' = [stall EXCEPT ![c] = "off"]
    /\ stale' = [stale EXCEPT ![c] = @ \/ (stall[c] = "expiring" /\ body[c] # "eof")]
    /\ quiet' = [quiet EXCEPT ![c] = TRUE]
    /\ late' = [late EXCEPT ![c] = FALSE]
    /\ Go(c, "clearing")
    /\ UNCHANGED <<mainVars, gitSem, connVars, git>>

(* Mutant: only the read deadline is cleared. *)
ClearReadOnly(c) ==
    /\ Up
    /\ pc[c] = "clearing"
    /\ readBy' = [readBy EXCEPT ![c] = IF GitIdleEnabled THEN "unset" ELSE @]
    /\ gitSem' = gitSem - 1
    /\ Go(c, "finishing")
    /\ UNCHANGED <<mainVars, gitActive, client, body, writeBy, blocked, cmdVars>>

(* The deferred calls of serveGit: the deadlines are cleared and the token *)
(* returned.                                                               *)
ClearAndRelease(c) ==
    /\ Up
    /\ pc[c] = "clearing"
    /\ readBy' = [readBy EXCEPT ![c] = IF GitIdleEnabled THEN "unset" ELSE @]
    /\ writeBy' = [writeBy EXCEPT ![c] = IF GitIdleEnabled THEN "unset" ELSE @]
    /\ gitSem' = gitSem - 1
    /\ Go(c, "finishing")
    /\ UNCHANGED <<mainVars, gitActive, client, body, blocked, cmdVars>>

(* Mutant: serveGit's cleanup runs after the root handler's. *)
FinishCleared(c) ==
    /\ Up
    /\ pc[c] = "finishing"
    /\ readBy' = [readBy EXCEPT ![c] = "unset"]
    /\ Go(c, "draining")
    /\ UNCHANGED <<mainVars, counters, client, body, writeBy, blocked, cmdVars>>

(* The deferred call of newRootHandler bounds the reading of the rest. *)
Finish(c) ==
    /\ Up
    /\ pc[c] = "finishing"
    /\ readBy' = [readBy EXCEPT ![c] = IF GitIdleEnabled THEN "set" ELSE @]
    /\ Go(c, "draining")
    /\ UNCHANGED <<mainVars, counters, client, body, writeBy, blocked, cmdVars>>

-----------------------------------------------------------------------------
(* The child, its killer, the relay and the watcher.                       *)

Progress(c) ==
    /\ Up
    /\ git[c] = "running" /\ quiet[c] /\ ~blocked[c] /\ client[c] = "there"
    /\ quiet' = [quiet EXCEPT ![c] = FALSE]
    /\ UNCHANGED <<mainVars, counters, pc, connVars, cancelled, stall,
                   stale, git, late>>

(* No byte moves for the idle timeout, because nobody sends any, ... *)
FallsQuiet(c) ==
    /\ Up
    /\ pc[c] \in {"copying", "waiting"} /\ ~quiet[c]
    /\ quiet' = [quiet EXCEPT ![c] = TRUE]
    /\ UNCHANGED <<mainVars, counters, pc, connVars, cancelled, stall,
                   stale, git, late>>

(* ... or because none can move. *)
Stuck(c) == blocked[c] \/ client[c] = "gone" \/ git[c] # "running"
FallsSilent(c) == Stuck(c) /\ FallsQuiet(c)

GitExits(c) ==
    /\ Up
    /\ git[c] = "running"
    /\ git' = [git EXCEPT ![c] = "exited"]
    /\ UNCHANGED <<mainVars, counters, pc, connVars, cancelled, stall,
                   stale, quiet, late>>

KillGroup(c) ==
    /\ Up
    /\ git[c] = "running" /\ cancelled[c]
    /\ git' = [git EXCEPT ![c] = "killed"]
    /\ UNCHANGED <<mainVars, counters, pc, connVars, cancelled, stall,
                   stale, quiet, late>>

ProcessDies(c) ==
    /\ Up
    /\ git[c] = "killed"
    /\ git' = [git EXCEPT ![c] = "exited"]
    /\ UNCHANGED <<mainVars, counters, pc, connVars, cancelled, stall,
                   stale, quiet, late>>

(* Mutant: the goroutine is not started. *)
RelayMissing(c) == FALSE /\ UNCHANGED vars

(* The goroutine that waits for appCtx until the handler closes `stop'     *)
(* cancels the command.                                                    *)
RelayCancels(c) ==
    /\ Up
    /\ pc[c] \in Counted /\ Cancelling /\ ~cancelled[c]
    /\ cancelled' = [cancelled EXCEPT ![c] = TRUE]
    /\ UNCHANGED <<mainVars, counters, pc, connVars, stall, stale, quiet, git,
                   late>>

(* watchStall: the tick finds a failed body or no progress, ... *)
StallFinds(c) ==
    /\ Up
    /\ stall[c] = "watching" /\ (body[c] = "failed" \/ quiet[c])
    /\ stall' = [stall EXCEPT ![c] = "expiring"]
    /\ UNCHANGED <<mainVars, counters, pc, connVars, cancelled, stale,
                   quiet, git, late>>

(* Mutant: the command is cancelled, and the read deadline left alone. *)
StallExpiresNothing(c) ==
    /\ Up
    /\ stall[c] = "expiring"
    /\ stall' = [stall EXCEPT ![c] = "cancelling"]
    /\ UNCHANGED <<mainVars, counters, pc, connVars, cancelled, stale, quiet,
                   git, late>>

(* ... the read deadline is expired unless the body has been read, ... *)
StallExpires(c) ==
    /\ Up
    /\ stall[c] = "expiring"
    /\ readBy' = [readBy EXCEPT ![c] = IF body[c] # "eof" THEN "past" ELSE @]
    /\ stall' = [stall EXCEPT ![c] = "cancelling"]
    /\ UNCHANGED <<mainVars, counters, pc, client, body, writeBy, blocked,
                   cancelled, stale, quiet, git, late>>

(* ... and the command is cancelled. *)
StallCancels(c) ==
    /\ Up
    /\ stall[c] = "cancelling"
    /\ cancelled' = [cancelled EXCEPT ![c] = TRUE]
    /\ stall' = [stall EXCEPT ![c] = "off"]
    /\ UNCHANGED <<mainVars, counters, pc, connVars, stale, quiet, git,
                   late>>

(* The watcher of a request that is over still expires the deadline. *)
StaleExpires(c) ==
    /\ Up
    /\ stale[c]
    /\ stale' = [stale EXCEPT ![c] = FALSE]
    /\ readBy' = [readBy EXCEPT ![c] = IF pc[c] = "none" THEN @ ELSE "past"]
    /\ UNCHANGED <<mainVars, counters, pc, client, body, writeBy, blocked,
                   cancelled, stall, quiet, git, late>>

-----------------------------------------------------------------------------
(* The main goroutine.                                                     *)

(* A signal, a failing listener or the end of the SSH child. *)
Stop ==
    /\ main = "serving"
    /\ main' = "closing"
    /\ UNCHANGED <<exitBy, counters, pc, connVars, cmdVars>>

(* Shutdown closes what is kept alive without a request. *)
CloseIdle ==
    LET With(f, v) == [c \in Conns |-> IF pc[c] = "idle" THEN v ELSE f[c]]
    IN  /\ pc' = With(pc, "none") /\ client' = With(client, "gone")
        /\ readBy' = With(readBy, "unset") /\ writeBy' = With(writeBy, "unset")
        /\ UNCHANGED <<body, blocked>>

(* Every Shutdown returned because no connection was left; appCancel(). *)
ShutdownDone ==
    /\ main = "closing"
    /\ \A c \in Conns : pc[c] \in {"none", "idle"}
    /\ CloseIdle
    /\ main' = "cancelled"
    /\ UNCHANGED <<exitBy, counters, cmdVars>>

(* shutdownTimeout, which is one for both servers and not longer than the  *)
(* time Shutdown grants a connection without a first request: those are    *)
(* left, and so are the ones in a handler.                                 *)
ShutdownTimesOut ==
    /\ main = "closing"
    /\ CloseIdle
    /\ main' = "cancelled"
    /\ UNCHANGED <<exitBy, counters, cmdVars>>

(* Mutant: the wait is skipped. *)
NoPoll ==
    /\ main = "cancelled"
    /\ main' = "drained" /\ exitBy' = "done"
    /\ UNCHANGED <<counters, pc, connVars, cmdVars>>

(* waitForGitCommands polls the counter. *)
PollSeesZero ==
    /\ main = "cancelled"
    /\ gitActive = 0
    /\ main' = "drained" /\ exitBy' = "done"
    /\ UNCHANGED <<counters, pc, connVars, cmdVars>>

(* gitShutdownGrace is three seconds: by then every command that had begun *)
(* when appCtx was cancelled has been sent SIGKILL.                        *)
GraceCoversKill ==
    \A c \in Conns : late[c] \/ (/\ pc[c] \notin {"begun", "forking"}
                                 /\ git[c] # "running")

GiveUp ==
    /\ main = "cancelled"
    /\ GraceCoversKill
    /\ main' = "drained" /\ exitBy' = "gaveup"
    /\ UNCHANGED <<counters, pc, connVars, cmdVars>>

(* The SSH child has been stopped, which may take seconds. *)
MainReturns ==
    /\ main = "drained"
    /\ main' = "exited"
    /\ UNCHANGED <<exitBy, counters, pc, connVars, cmdVars>>

Exited == main = "exited" /\ UNCHANGED vars

-----------------------------------------------------------------------------
ConnStep(c) == \/ Connect(c) \/ CloseUnused(c) \/ Request(c) \/ ClientLeaves(c)
               \/ DisconnectCancels(c) \/ ClientReads(c)
               \/ BodyEnds(c) \/ BodyTooLarge(c) \/ BodyReadFails(c)
               \/ Drained(c) \/ DrainFails(c)

HandlerStep(c) == \/ Reject(c) \/ Admit(c) \/ RejectAdmitted(c) \/ Begin(c)
                  \/ StartCheck(c) \/ Fork(c) \/ ForkFails(c) \/ Write(c)
                  \/ CopyEnds(c) \/ WriteFails(c) \/ BadHeader(c) \/ WaitReturns(c)
                  \/ WaitReturnsOpen(c) \/ Unwind(c) \/ ClearAndRelease(c) \/ Finish(c)

ChildStep(c) == \/ Progress(c) \/ FallsQuiet(c) \/ GitExits(c) \/ KillGroup(c)
                \/ ProcessDies(c) \/ RelayCancels(c) \/ StallFinds(c)
                \/ StallExpires(c) \/ StallCancels(c) \/ StaleExpires(c)

MainStep == \/ Stop \/ ShutdownDone \/ ShutdownTimesOut \/ PollSeesZero
            \/ GiveUp \/ MainReturns

Next == \/ \E c \in Conns : ConnStep(c) \/ HandlerStep(c) \/ ChildStep(c)
        \/ MainStep
        \/ Exited

Spec == Init /\ [][Next]_vars

(* Goroutines run, timers fire and deadlines pass, and a pending read or   *)
(* write fails with its deadline or connection.  Nothing is assumed of     *)
(* clients, of git or of the size limit.                                   *)
Fairness ==
    /\ \A c \in Conns :
         /\ WF_vars(DisconnectCancels(c))
         /\ WF_vars(BodyReadFails(c))
         /\ WF_vars(Drained(c))
         /\ WF_vars(DrainFails(c))
         /\ WF_vars(Reject(c) \/ Admit(c))
         /\ WF_vars(RejectAdmitted(c) \/ Begin(c))
         /\ WF_vars(StartCheck(c))
         /\ WF_vars(Fork(c) \/ ForkFails(c))
         /\ WF_vars(CopyEnds(c))
         /\ WF_vars(WriteFails(c))
         /\ WF_vars(WaitReturns(c))
         /\ WF_vars(Unwind(c))
         /\ WF_vars(ClearAndRelease(c))
         /\ WF_vars(Finish(c))
         /\ WF_vars(FallsSilent(c))
         /\ WF_vars(KillGroup(c))
         /\ WF_vars(ProcessDies(c))
         /\ WF_vars(RelayCancels(c))
         /\ WF_vars(StallFinds(c))
         /\ WF_vars(StallExpires(c))
         /\ WF_vars(StallCancels(c))
         /\ WF_vars(StaleExpires(c))
    /\ WF_vars(ShutdownTimesOut)
    /\ WF_vars(PollSeesZero)
    /\ WF_vars(GiveUp)
    /\ WF_vars(MainReturns)

FairSpec == Spec /\ Fairness

-----------------------------------------------------------------------------
(* Properties.                                                             *)

(* The semaphore and the counter of running commands equal the number of   *)
(* handlers between acquisition and deferred release, on every path.       *)
Count(P) == Cardinality({c \in Conns : pc[c] \in P})
CountersExact == gitSem = Count(Holding) /\ gitActive = Count(Counted)

(* --git-max-concurrent bounds the CGI process groups. *)
GitProcessCap == Cardinality({c \in Conns : Alive(c)}) <= GitMaxConcurrent

(* When the process ends, a group it did not kill can only belong to a     *)
(* request that passed its checks after the shutdown had been announced.   *)
OnlyLateLeftRunning ==
    ~Up => \A c \in Conns : git[c] = "running" => late[c]

(* The write deadline of a response does not outlive its request: until    *)
(* the next response on the connection is written, none is in force.       *)
NoStaleWriteDeadline ==
    \A c \in Conns :
        pc[c] \in {"new", "idle", "checking", "admitted", "begun", "forking"}
            => writeBy[c] = "unset"

(* HttpGit keeps the promises of a command pool that lets commands begin   *)
(* while it stops, in handlers Shutdown has not waited for.                *)
Pool == INSTANCE CommandPool WITH
    Slots       <- Conns,
    MaxCommands <- GitMaxConcurrent,
    LateStarts  <- TRUE,
    phase       <- IF main \in {"serving", "closing"} THEN "open"
                   ELSE IF main \in {"cancelled", "drained"} THEN "stopping"
                   ELSE IF exitBy = "done" THEN "closed"
                   ELSE "gaveup",
    life        <- [c \in Conns |-> IF ~Alive(c) THEN "none"
                                    ELSE IF late[c] THEN "late" ELSE git[c]]

ImplementsPool == Pool!PoolSpec

(* A request on which nothing moves gives its token back, whether it is    *)
(* the client that stopped sending or reading, or git that hangs: what     *)
(* holds the handler, git, a write and the copying of the body, is ended   *)
(* from this side.                                                         *)
Busy(c) == pc[c] \in Counted /\ ~quiet[c]
GitSlotReclaimed ==
    \A c \in Conns : []<>(pc[c] \notin Holding \/ Busy(c) \/ ~Up)

(* A client that declares a body and does not send it cannot hold the      *)
(* connection once the handler has returned.                               *)
DrainEnds == \A c \in Conns : []<>(pc[c] # "draining" \/ ~Up)

(* The server stops after a signal, and what it leaves running is late.    *)
ShutdownCompletes ==
    main = "closing"
        ~> (~Up /\ \A c \in Conns : git[c] = "running" => late[c])

-----------------------------------------------------------------------------
(* What the sources say of the program, and the code does not do.          *)

(* main.go: "Every git child derives from it, so shutdown reaches          *)
(* in-flight requests instead of orphaning their process groups".          *)
NoGitOutlivesServer == ~Up => \A c \in Conns : git[c] # "running"
=============================================================================
