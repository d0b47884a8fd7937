# A TLA+ development of simple-git-server

This directory holds a formal model of simple-git-server: TLA+ modules translated from its Go
sources, TLC configurations that check them on small instances, and theorems about them that the
TLA+ proof system checks for every value of the parameters. Paths below are relative to the
repository's root (`src/`).

Contents: 1 inventory, 2 modules and how they correspond to the code, 3 what the runs check,
4 bounds, 5 fairness and timing assumptions, 6 proofs, 7 where code and comments disagree,
8 what is not modelled, 9 plan, 10 how to run.

## 1. Inventory

The repository builds three programs from about 2400 lines of Go: `simple-git-server`
(HTTP, and supervision of the SSH server), `simple-git-server-ssh-read-write` (the SSH server) and
`simple-git-server-http-write` (a helper that runs `git http-backend` for pushes).

| Part | Source | State | Operations |
|---|---|---|---|
| SSH server | `cmd/ssh-read-write/main.go`, `session.go` | listener, `connSem`, per connection `sessions` and `connActivity`, per session the SSH channel, a guard timer, a stall watcher and a git child, `gitSem`, `gitWG`, `shutdownCtx` | accept, handshake, open channel, exec, run git, reap, stop |
| Key store | `cmd/ssh-read-write/auth.go`, SIGHUP in `main.go` | the set of authorized keys behind an atomic pointer, the signal channel | load, reload, authorize |
| HTTP git | `githttp.go`, `http_write.go` | `gitSem`, `gitActive`, `appCtx`, per request a context, a CGI child, a body copier, a stall watcher, the connection's deadlines | fetch and push requests, cancel, stall, drain |
| HTTP process | `main.go` | listeners, `errCh`, signals, the supervised SSH child | serve, shut down |
| SSH supervisor | `ssh_supervise.go` | the child process, its `done` channel | start, stop, kill after a grace period |
| Path resolution | `session.go` (`resolveRepoPathOpts`), `githttp.go` (`sanitizeGitPathInfo`, `repoWithinRoot`) | none (reads the file system) | decide which repository a client names |
| Command and request gating | `session.go` (`parseGitSSHCommand`), `main.go` (`isGitRequest`), `githttp.go` (`serveGit`, `isReceivePackRequest`), `http_write.go` | none (reads the options) | accept or refuse an operation |
| Options | `main.go` and SSH `main.go` (`buildConfig`, `main`), `ssh_supervise.go` (`sshReadWriteArgs`) | none once the servers run | accept or refuse a set of flags, pass switches on to the SSH server |
| HTTP push helper | `cmd/http-write/main.go` | none | run `git http-backend` with pushes on |
| go-import pages | `goimport.go` | none | the `?go-get=1` answer |
| Packaging | `install.sh`, `sysadmin/` | none of its own | installation |

How they interact:

* The HTTP process starts the SSH server as a child with a process group of its own. It learns of
  the child's end from a channel of capacity one (`done`), and ends it with SIGTERM, then SIGKILL.
  Each program starts git in further process groups, which a signal to the parent's group does not
  reach.
* In the SSH server a connection handler shares `connActivity` with its watchdog and its sessions;
  a session shares the channel with its guard timer and its stall watcher, and the command's context
  with the stall watcher and with main's `shutdownCancel`. `gitSem` and `gitWG` are shared by all.
* A request passes from its front end through routing, the path checks and the gate to git. The options
  decide at four places: which servers start, which switches the SSH server receives from its parent, which
  commands it accepts, and whether `http-backend` runs with pushes on, directly or through the helper.
* In the HTTP process a request's handler shares the command's context with the stall watcher and
  with a goroutine that relays `appCtx`; it shares the connection's read deadline with the stall
  watcher and with the next request on the same kept-alive connection.
* Signals reach the SSH server's main loop through a channel of capacity one, SIGHUP (reload) and
  SIGTERM (stop) alike.

What is hard, per part, and what makes the part correct:

| Part | Hard behaviour | Correct means |
|---|---|---|
| SSH server | slots and tokens taken and returned by different goroutines; sessions that outlive their connection; timers that fire while the thing they guard against happens; a stop with commands in flight; clients that never answer | the limits hold; whatever the client does, slots, tokens and sessions come back; a stop ends, and leaves no git |
| Key store | signals coalesce and drop while a reload runs; a handshake straddles a reload | a reload that was asked for takes effect |
| HTTP git | six ways out of a handler; a child, two copiers and a watcher that must all end; deadlines on a shared connection; handlers that start late | the limits hold; stalled requests and undelivered bodies end; no request inherits a deadline of the one before; a stop ends |
| Supervisor | one result, several receivers; either process may end first | the parent ends, and never before the child, unless it crashes |
| Paths | links at any depth, dangling, circular; two implementations of the same rule (HTTP and SSH) | what is served lies inside the folder; what is advertised is served |
| Gating and options | the service is read at three places on different grounds (our gate, the parser of the command line, `http-backend`); two programs check the same flags with rules of their own; a switch may be accepted that nothing honours | git does what the switches grant, and nothing else, over each protocol |

`PROJECT.json` lists the hazards at the line where each bites, with the properties that cover it,
or why none does.

## 2. Modules

| Module | Models | Uses |
|---|---|---|
| `CommandPool` | abstract: what a git server promises of the commands it runs | |
| `SshServer` | the SSH server from `Accept` to exit | `CommandPool` (refinement) |
| `HttpGit` | git over HTTP and the HTTP shutdown | `CommandPool` (refinement) |
| `KeyStore` | authorized keys, SIGHUP loop, handshakes | |
| `Supervisor` | the HTTP process as supervisor, composed with the child's loop of `KeyStore` | `KeyStore` |
| `RepoPath` | operators: routing, sanitizing, link resolution, project names | `Scan` |
| `Config` | operators: the options both programs accept, what is passed to the SSH server, who listens | `RepoPath` |
| `GitCommand` | operators: reading the command line of an SSH exec request | `Scan` |
| `GitRequest` | one request from its front end to git, over HTTP, HTTPS and SSH | `Config`, `GitCommand` |
| `Scan` | operators: a loop over a sequence, as a recursive function | |
| `Counting` | the counting lemma both servers' proofs rest on | |
| `Recursion` | lemmas: induction over numbers and sequences, unfolding of recursive functions, `Scan` | `Scan` |
| `SshServerProofs`, `HttpGitProofs`, `SupervisorProofs` | theorems about the modules they are named after | `Counting` |
| `RepoPathProofs`, `GitCommandProofs`, `GitRequestProofs` | theorems about the modules they are named after | `Recursion` |
| `MCSshServer`, `MCHttpGit`, `MCGitRequest` | symmetry sets and inputs for TLC | |

Each handler or step of the code is one action, named after the function or the event. Definitions
marked as mutants in a comment are variants of an action with a plausible bug; no specification
uses them, and each shows that a property notices such a bug.

**SshServer.** `main` follows the select of `main()`, `shutdownCancel`, the wait and the return.
A connection (`conn`) is `handleConn`: handshake, serving, and `lost` once the socket is closed;
`watchdog`, `idleTicks` and `active` are the idle watchdog with its test of `act.active` and its
close as *separate* steps, as in the code. A session (`pc`) goes through `handleSession` and
`runGitCommand`; its program points are listed in the module. The places where another goroutine
can come between two lines are steps of their own: `guard.Stop` against a guard that has fired,
the context test in `exec.Cmd.Start` against the fork, `act.end` (two stores), the stall watcher's
`cancel` and `Close`. A channel goes from `open` over `closing` (we closed, the peer did not
answer) to `closed`. `git` is the process group; `killed` has been sent SIGKILL and is not yet
dead. `cmd.Run` returns when git is dead *and* its copiers have ended: `WaitReturns` once the channel is
closed, `WaitReturnsOpen` while a read from it still waits for the client, also on a channel that this side
has closed (`closing`). A session that is there is `Unanswered`. Connection identities are reused as soon
as no goroutine of the earlier connection is left, which lets the runs be unbounded with finitely many states.

**HttpGit.** `pc` joins what net/http does with a connection (new, idle, draining) to the handler's
program points (checking, admitted, begun, forking, copying, waiting, unwind, clearing, finishing).
`readBy` and `writeBy` are the connection's deadlines, which outlive the request that sets them;
`stall`/`stale` the watcher of the current request and one left from an earlier request that had
already passed its select. As over SSH, `cmd.Wait` returns when git is dead and the copier of the request
body has ended: `WaitReturns` once the body is at its end or reading it has failed, `WaitReturnsOpen` while
the copier waits for the client to send more. `late` is a history variable: the command began after `appCancel`.
`ShutdownTimesOut` and `ShutdownDone` are the two ends of the `Server.Shutdown` calls, which share one
five-second context, followed by `appCancel`, the poll and the return.

**CommandPool** knows slots, a phase and the life of the group in each slot. Both servers are compared
with it. The SSH server, whose sessions register before they test the context, implements it with
`LateStarts` = FALSE. The HTTP side implements it with `LateStarts` = TRUE only: a command that
begins after `appCancel` is excepted from the promises about the stop, but not from the cap. `SshServer`
maps sessions to slots and `main`/`exitBy` to the phase; `HttpGit` maps connections to slots, and
`late` to the life `"late"`.

**KeyStore / Supervisor.** `child` is the SSH server's main goroutine, with `ReadFile` and
`StoreKeys` the two steps of `reload`; `sigCh` is the buffer of the signal channel, and `Deliver`
what the runtime does with a signal: hand it to a waiting select, buffer it, or drop it.
`parent` is the HTTP process from its select to its return, each receive from `done` an action of its
own. `git` reduces the child's commands to whether a group runs; that a stop by signal leaves none is
what `SshServer` establishes (`NoGitLeftRunning`) and `ChildStops` relies on.

**RepoPath.** A path is a sequence of elements, an element a base name with a count of `.git`
suffixes, so that the suffix rules are computed, not postulated. A tree maps paths to directories,
files and links. `sanitizeGitPathInfo`, `resolveRepoPathOpts`, `isGitRequest`, `validProjectName` and
`repoExists` are translated; `path.Clean`, `filepath.EvalSymlinks` and `os.Stat` are given by their
definitions. A lookup (`Lookups`) holds what is resolved, what is still to be looked up and how many
links may still be followed: `filepath.EvalSymlinks` gives up after 255, `MaxLinks` here, so that a circle of
links is an error and not an endless loop. Loops over paths and lines are functions (`Scan`), not RECURSIVE
operators, since the prover can reason about those.

**Config.** A set of options is the program, the switches that are on, what is missing of the things a
switch needs (a flag without value, a file, a number in range, a program on PATH), and the HTTP
prefix as it was written. `buildConfig` and `MainAccepts` are the checks of simple-git-server,
`SshMainAccepts` those of the SSH server, `sshReadWriteArgs` the options of the SSH server as a child.
`Listening` follows from them: a parent whose SSH child refuses its options ends too.

**GitCommand.** A command line is a sequence of tokens: a word, a blank or a quote. A word stands for any
text without blanks and quotes, and words in a row are one text, so splitting, quoting and trimming
are computed on tokens as the code computes them on characters.

**GitRequest.** A request takes the stages of the code. Over HTTP: `Connect`, `Route` (newRootHandler),
`Sanitize`, `ResolveRoot` and one `Walk` for each turn of the loop of `repoWithinRoot`, `Gate` (serveGit with
`isReceivePackRequest`), `HttpBackend`, or `ServeGoImport`. Over SSH: `Connect`, `Parse`, `Locate`, `RunGit`.
What `http-backend` does is modelled from its documented rules and marked external: it takes the
service from the path's end or, for `info/refs`, from the query, and where the query names two, either
may be taken. `did` records what git did. How many requests run at a time and how they end is left to
`SshServer` and `HttpGit`.

## 3. Runs

| Run | Instance | Distinct states | Shows |
|---|---|---|---|
| `ssh_safety` | 2 connection identities, 1 slot, 1 channel each, 1 git token | 1.57 M | `CountersExact`: semaphores, counters and WaitGroup equal their holders on every path. `NoGitLeftRunning`, `NoForkOnceDrained`: a signalled stop leaves no live group, or none unsignalled after giving up, and nothing forks after the wait. `ImplementsPool`: refinement of `CommandPool` |
| `ssh_sessions` | 1 connection, 2 channels, 1 git token | 261 k | `GitProcessCap`; `SessionSlotReclaimed`: a session ends unless some command on its connection makes progress or has its close unanswered; `SessionEnds`: with a client that answers closes, unless its *own* command makes progress |
| `ssh_reclaim` | 1 connection, the 4 watchdog ticks of the code | 53 k | `ConnSlotReclaimed`, `GitSlotReclaimed`: slots and tokens come back, unless a client stays connected and does not answer the close of a command's channel (section 7); `ShutdownCompletes`, whatever clients do |
| `ssh_reap_busy` | 1 connection, 1 channel | violation | the watchdog cuts a command that has just begun (section 7) |
| `ssh_guard_exec` | same | violation | the guard closes a channel whose command runs |
| `ssh_accept_error` | same | violation | git outlives the server after an accept error |
| `http_requests` | 2 connections, 1 token | 3.14 M | `CountersExact`, `GitProcessCap`; `OnlyLateLeftRunning`: what a stop leaves running began after `appCancel`; `NoStaleWriteDeadline`: no request starts under the write deadline of the response before it; `ImplementsPool`: refinement of `CommandPool` with late starts |
| `http_reclaim` | 1 connection | 36 k | `GitSlotReclaimed`: a client that stalls in the middle of its body or a hung git returns the token, by way of the expired read deadline and the kill; `DrainEnds`: an undelivered body does not hold the connection; `ShutdownCompletes` |
| `http_late` | 1 connection | violation | a command that began late outlives the server |
| `control` | 1 key, 1 handshake | 26 k | `ReloadTakesEffect`: a SIGHUP after the last edit brings the file into force although signals coalesce; `ReloadPending`: until then a signal or a reload of what the file says now is pending; `ChildGone`: the parent returns only after the child; `ParentEnds`: nobody waits twice on `done` |
| `control_orphan` | same | violation | a dropped SIGTERM ends in SIGKILL and orphans git |
| `git_requests` | section 4 | 1.98 M | `ServedInside`: what git is given lies inside the folder, links resolved; `WalkDecides`: the loop decides as the deepest existing part of the path does; `AdvertisedIsServed`: a go-import page leads to a URL that is routed and accepted, unless the repository has an entry named as the service; `SwitchesObeyed`: git does only what the switches grant, however the service is named; `ClientsServed`: and it does that for every git client, whatever else is configured; `LineIsCommand`: an accepted command line is a service and one argument and nothing more |

The type invariants are checked along (`TypeOK` in `ssh_safety`, `http_requests` and `git_requests`,
`SupervisorTypeOK` in `control`). Deadlock is checked in every run: the only states without a
successor would be those the modules do not name as final (`Exited`, `Over`, `Answered`).

## 4. Bounds and why they are enough

* *Connections.* `ssh_safety` and `http_requests` have two connections and one token, so there is a
  holder, a waiter that is refused, and, after a disconnect, an old session beside a new connection.
  Each further connection only adds a holder; the proofs of section 6 remove the bound for both
  servers. The liveness runs have one connection: connections meet only in `connSem` and `gitSem`,
  which are never waited for (a full semaphore refuses), so a second one cannot delay the first.
* *Channels.* Two channels per connection are needed only where sessions of one connection affect
  each other (`active`, the watchdog): `ssh_sessions`.
* *Ticks.* `IdleTicks` is 4 in the code (`connIdle()/4`). `ssh_reclaim` uses 4; elsewhere the value
  1 is used, which only lets the watchdog act sooner, so it has more interleavings per state, not
  fewer.
* *Stops.* `Stops` selects what may end the server; `ssh_sessions` leaves it empty because its
  questions concern a server that runs on.
* *Keys.* One key in two option classes, present or absent, in a file readable or not, gives every
  verdict; parsing, reloading and handshakes act on each key alone.
* *Paths.* Paths of up to three elements from: empty, `.`, `..`, `.git`, a name with and without
  `.git`, an entry below it, on every tree; two URL prefixes; `MaxGitPathSegments` = 3 instead of 32, and
  paths of four elements, so that the limit is met and passed. The trees have the folder itself as
  a directory or a link, and a repository or an entry below it absent, a file, a directory, or a
  link inside, outside, through another link, dangling or to itself; in one tree a repository has an entry named
  as a service that leads outside, in which case `repoWithinRoot` rightly refuses what the page
  advertises. The code treats elements below the second alike. `MaxLinks` is 6 instead of 255: no path on
  these trees meets more links without meeting a circle.
* *Options.* Every set of switches, for simple-git-server and for the SSH server started alone, with
  everything the switches need or one thing missing: each check looks at one thing at a time. The
  HTTP prefix is written in six ways (empty, with and without slashes). Needed files are there and good, or not (section 8).
* *Requests.* What git clients send (`info/refs` with its query, the service in the path, quoted exec
  lines), each also over a limit; and what no client sends: a service in the path, in the query, twice.
* *Command lines.* Every line of up to six tokens from four words, the blank and both quotes, which
  takes in the short form (`git-upload-pack '...'`) with a token to spare, and every continuation of `git upload-pack`
  and `git receive-pack` by up to four tokens. The argument that names an existing path is one word; what
  clients send has arguments with a blank and with double quotes too.

The proofs of section 6 remove every bound of `git_requests`: paths, trees, prefixes, option sets and lines are
arbitrary there, and so are `MaxGitPathSegments` from 3 on and `MaxLinks`.

## 5. Fairness and timing assumptions

Fairness is weak and is given to goroutines (Go schedules them), timers, tickers and deadlines (they
fire), the kernel (SIGKILL ends a group), and to a read or write whose channel is closed or whose deadline
has expired (it fails). Nothing is assumed of clients, git, signals, errors, the operator, or a read or
write that waits for a client. The one property that needs a client to behave says so itself: `SessionEnds` has the premise
`ClientConforms` (it answers a channel close and reads the exit status).

In particular `cmd.Run` and `cmd.Wait` are expected to return only where the copier has ended, which needs
the channel closed or the body over: `WaitReturns` is fair, `WaitReturnsOpen` is not. The sources say both
that Wait blocks on a copier although `WaitDelay` is set (`session.go:227-230`, `githttp.go:336-340`) and
that `WaitDelay` can let it return before the copier is done (`githttp.go:552-554`). The safety
properties hold in either case, since `WaitReturnsOpen` may happen; the liveness properties
do not rely on it. A token hence comes back only through what the stall watchers do, `StallCloses` and
`StallExpires`: without either step (the mutants `StallOnlyCancels`, `StallExpiresNothing`) `GitSlotReclaimed` fails.

Of net/http it is assumed that a connection serves one request at a time, that its read deadline is reset
before each request and its write deadline is not (no `WriteTimeout` is configured), and that the
context of a request ends with its client and with a write that fails.

Time is the order of events. Four places compare durations, each in one named definition:

* `GraceCoversKill` (`SshServer`, `HttpGit`): the three seconds of `gitShutdownGrace` suffice for
  every group whose context is cancelled to be *sent* SIGKILL. It does not say that they die in time.
* `StopsInTime` (`Supervisor`): a child that has its SIGTERM exits within `sshChildStopTimeout`
  (five seconds; its own wait is at most three), reading the key file being fast.
* `quiet` (`SshServer`, `HttpGit`): no byte has moved for `--git-idle-timeout`; any byte resets it.
* `idleTicks`: the watchdog's clock, in quarters of the idle timeout.

## 6. Proofs

`SshServerProofs` proves, for any finite sets of connections and channels and any positive limits:

| Theorem | Says |
|---|---|
| `TypeCorrect` | `Spec => []TypeOK`; the semaphores stay within their capacity and no counter becomes negative |
| `CountersCorrect` | `Spec => []CountersExact` |
| `CapCorrect` | `Spec => []GitProcessCap` |
| `ShutdownCorrect` | `Spec => []NoGitLeftRunning` |
| `NoForkOnceDrainedCorrect` | `Spec => NoForkOnceDrained`, an action property |
| `Implementation` | `Spec => ImplementsPool`: every step of the server is a step of `CommandPool` or a stutter |

The inductive invariant `IInv` is `TypeOK`, `CountersExact` and five facts neither contains:

* `GitHeld`: a group belongs to a session inside `cmd.Run`. Hence live groups are at most the
  holders of `gitSem`, which gives the cap from the counters.
* `DrainedIdle`: once the wait saw zero no session is between its context test and the end of its
  git. It is preserved because `gitWG` = 0 means nobody is there at that moment (counters again), and
  whoever registers later sees a cancelled context.
* `GaveUpKilled`: giving up implies every group was signalled, from `GraceCoversKill`.
* `ExitRecorded`: `exitBy` is set exactly when the process ends.
* `WatchdogOwned`: a watchdog runs only beside its handler; without it a watchdog of an ended
  connection could take a fresh one from `none`.

The counting rests on two lemmas: `OneMoves` of `Counting` (two sets that differ in one element differ in
cardinality by that element) and `SessionMoves` (what the move of one session does to each count).
`CountersExact` is then preserved action by action. `TypeOK` needs it: a semaphore is positive when it
is released because its releaser is counted.

`SupervisorProofs` proves, for any keys and handshakes:

| Theorem | Says |
|---|---|
| `SupervisorTypeCorrect` | `Spec => []SupervisorTypeOK` |
| `ChildGoneCorrect` | `Spec => []ChildGone`: main does not return before the SSH server has exited |
| `ReloadPendingCorrect` | `Spec => []ReloadPending`: no reload that was asked for is lost |

`ChildGone` is not inductive. It needs that a result in `done` is that of an exited child, which is a
conjunct of `SupervisorTypeOK`, and `GoneReceived` (main returns, or takes the child for lost, only after it
has received the result). `ReloadPending` is inductive beside them.

`HttpGitProofs` proves, for any finite set of connections and any positive limit:

| Theorem | Says |
|---|---|
| `TypeCorrect` | `Spec => []TypeOK` |
| `CountersCorrect` | `Spec => []CountersExact`: `gitSem` and `gitActive` equal the handlers that hold them |
| `CapCorrect` | `Spec => []GitProcessCap` |
| `LateCorrect` | `Spec => []OnlyLateLeftRunning` |
| `WriteDeadlineCorrect` | `Spec => []NoStaleWriteDeadline` |
| `Implementation` | `Spec => ImplementsPool`, with late starts |

The invariant is `TypeOK`, `CountersExact` and six facts: `GitHeld` (a group belongs to a handler between
`cmd.Start` and `cmd.Wait`), `LateOnly` (only commands begun after `appCancel` are late), `ExitRecorded`,
`DrainedIdle` (once the poll saw zero, every command is a late one), `GaveUpKilled`, and `WriteBounded` (a
write deadline is in force only from the first write of a response to the deferred call of `serveGit`).
`DrainedIdle` is where the HTTP side differs from the SSH side: nobody registers with the poll before its
test of the context, hence the exception for late commands.

`GitRequestProofs` proves, for any options, and for file systems, paths and command lines of any size:

| Theorem | Says |
|---|---|
| `TypeCorrect` | `Spec => []TypeOK` |
| `SwitchesObeyedCorrect` | `Spec => []SwitchesObeyed` |
| `WalkDecidesCorrect` | `Spec => []WalkDecides` |
| `ServedInsideCorrect` | `Spec => []ServedInside` |
| `AdvertisedIsServedCorrect` | `Spec => []AdvertisedIsServed` |
| `LineIsCommandCorrect` | `Spec => []LineIsCommand` |
| `ClientsServedCorrect` | `Spec => []ClientsServed` |

`RequestInv` is the invariant they share: `GateInv`, `LoopInv` and `TypeOK`.

* `GateInv` carries what each stage established: the front end listens, so its read switch is on;
  a command that lets pushes through was gated by the write switch; an SSH command is among those the
  SSH server's own switches allow, which its parent took from the operator's. `SwitchesObeyed` follows.
* `LoopInv` says that `rel` is what `sanitizeGitPathInfo` made of the path, and that every longer part of it was
  found not to exist, so that the part the loop stops at is the deepest existing one (`DeepestDecides`).
  `WalkDecides` follows.
* `ServedInside` adds `LocateInv` (what `resolveRepoPathOpts` found) and rests on `RepoWithinRootInside` of
  `RepoPathProofs`. The check and git's use of a path differ: `repoWithinRoot` resolves the folder
  first and the path below its real place after, git resolves the path in one go. `ResolvedAlike` shows
  that where git finds something the check has found the same. Its induction is over lookups (`LookupInduction`), ordered by the
  links left and then by the path left, which circles of links do not upset; `MoreLinks` shows that a lookup
  that succeeds does so with more links to spare, which the check, starting afresh below the folder, may have.
* `AdvertisedIsServed` adds `PageInv` and shows that the URL survives routing, cleaning and the checks unchanged
  (`ClientPathRouted`, `ClientPathClean`). The proof is what brought out its premise: where the repository has an entry
  named as the service, the entry decides.
* `LineIsCommand` adds `CommandInv` and rests on `ParsedSays` of `GitCommandProofs`: trimming, splitting and
  stripping lose and move nothing but blanks and quotes. The loop of `splitGitCommand` keeps as its invariant that the parts read
  so far, the open part and the rest of the line together say what the line says (`SplitReads`).
* `ClientsServed` has two directions. That nothing is done which is not granted or not there follows from
  the invariants above; that what is granted and there *is* done needs `ServedInv`: such a request is at one of the stages that lead to
  git (`OnTrack`) and never at a refusal. Each check on the way is shown to let it pass: `AcceptedListens` (a
  switch that is accepted has its listener, over SSH through the arguments of the child), `AsksHttp` (routing,
  cleaning and both ways to tell a push agree) and `AsksSsh`, from `ParsedQuoted` of `GitCommandProofs`: a service and an
  argument in quotes are read as that service and that argument, unchanged. An argument that itself holds a single
  quote, which git clients write in a way this parser does not know, and one with a blank at an end, which the server trims,
  are not claimed (`Quotable`).

*Induction.* The library's induction theorems take predicates and operators as parameters, which the provers here cannot
instantiate. `Recursion` states what is needed with sets in the place of predicates (`Induction`,
`TailInduction`) and functions in the place of operators: `TailRecursion` proves the unfolding of a
tail-recursive function from the well-foundedness of its calls, and `ScanSteps`, `ScanKeeps` and `ScanConcat` what
a loop over a sequence does at each element, keeps as an invariant, and does on a line in two parts.

*Assumptions.* Only the named assumptions on constants are used: `ConnsFinite`, `ChanIdsFinite`, `LimitsPositive`,
`GitIdleBoolean` and their counterparts in `HttpGit`; `InputsTyped` (trees, options and requests have the shape section 2
gives them, and an HTTP path begins with a slash); `PathLimits` (the segment limit is at least 3, as 32 is); and
`LiteralsAreStrings` and `TokensAreStrings`, which only tell the provers that the literals the modules mention are strings.
The modelling assumptions of section 5 are guards of actions.

*Model-checked only.* No invariant and no action property is left to TLC alone. What stays with it are the
liveness properties, `ReloadTakesEffect` and `ParentEnds` among them: the prover does not handle fairness and ENABLED.

## 7. Where code and comments disagree

Each is a run TLC finds a counterexample for; the comment is quoted in `PROJECT.json`. Below, SSH
`main.go` is `cmd/ssh-read-write/main.go`.

1. `ssh_reap_busy`. The watchdog loads `active` (SSH `main.go:330`) and closes later (`:336`).
   A command that begins in between is cut. `begin()` does not move `lastUsed`, so the second test does
   not help.
2. `ssh_guard_exec`. `guard.Stop()` (`session.go:51`) does not stop a guard that has fired; its
   result is not looked at.
3. `ssh_accept_error`. After an accept error `main` calls `os.Exit(1)` (SSH `main.go:151`) without
   `shutdownCancel` and without waiting.
4. `http_late`. A handler still in its checks when `Shutdown` times out starts git after
   `appCancel`; the relay goroutine may not run before the process ends.
5. `control_orphan`. SIGHUPs fill the buffer of `sigCh`, SIGTERM is dropped, and the SIGKILL five
   seconds later reaches the child's group but not git's.

Seen while modelling and not made a run:

* `session.go:34-36` says that the watchdog counts any live session as activity; it counts only running
  commands (SSH `main.go:203-206` says so).
* `main.go:455-456` calls the deferred deadline "the last word"; a stall watcher that has passed its
  select (`githttp.go:342`) can still set another. `HttpGit` has this (`stale`, `StaleExpires`).
* `githttp.go:460-462` says that one resolved result covers every intermediate directory; a link out of
  the folder whose target links back inside passes. What is served is then inside, and that is what
  `ServedInside` states.
* `session.go:229-230` says that closing the channel fails the pending read. `channel.Close` only sends the
  close; the library ends the channel, and with it the read, when the peer's close arrives or the
  connection ends. A client that stays connected and answers nothing keeps its token, and since its command
  then still counts in `active`, the watchdog does not end the connection either. In `SshServer` this is
  `Unanswered`, the exception `GitSlotReclaimed`, `ConnSlotReclaimed` and `SessionSlotReclaimed` make;
  `GitSlotReclaimed` with `Busy` for `Held` fails. It is no run because it depends on how
  the ssh library and `WaitDelay` behave, which are outside the repository. `SessionEnds` and
  `ShutdownCompletes` make no such exception: the first because its client answers, the second because
  the stop gives up on its commands.
* `gitWG.Add` may run from zero while `Wait` is waiting (`session.go:143`, SSH `main.go:253`), which the
  documentation of `sync.WaitGroup` excludes. `NoForkOnceDrained` shows that the answer of the wait
  does not matter for git.

## 8. Not modelled

* *Text.* CGI headers and environment, go-import pages, key file syntax, the encoding of exec payloads, log
  wording. What depends on them is a choice of the action they lead to.
* *Bytes.* Transferred data is reduced to progress or silence; exit codes are left out. A git that is killed
  in the middle of a response ends its output like one that is done (`githttp.go:231`); no model
  looks inside a response.
* *net/http and the ssh library* are modelled as far as the handlers rely on them (section 5); channel
  open, close and its answer, and the key query before a signature. The flush of a response after
  the handler is left out, and so is HTTP/2, which multiplexes requests on one HTTPS connection.
* *Methods.* `http-backend` also looks at the request's method and at the repository's own configuration; both can
  only make it do less. Its trying of `.git` suffixes on a repository it does not find is left out as well: in the
  model it opens the path it is given.
* *Bad files.* A file an option needs is good or missing. A file that exists and does not load, which the parent
  accepts and the SSH child refuses (a host key that does not parse, a key file without a usable key: SSH
  `main.go:100-108`), is not distinguished from one that is missing. In the model a child hence never refuses
  what its parent has accepted, and the moment in which HTTP already listens while the child ends is left out.
* *The clock.* Progress is compared in wall-clock time (`githttp.go:273`); a clock that is set while the server runs
  is not expressible where time is the order of events.
* *Some flags*: `--go-import-git-url`, whose template is the operator's responsibility, and
  `--ssh-max-connections`, which is `MaxConns` in `SshServer` and has no part in `Config`. The push helper is looked up
  once per start in the model and once per request in the code.
* *Process ids*: a signal to a child that has exited does nothing; reuse of ids is left out.
* *A changing file system* between a check of a path and git's use of it.
* *The service manager* (restarts, exit codes) and the installation scripts: they are not part of the programs.

## 9. Plan

The core (the SSH server with its abstract specification and proofs, HTTP git, the control processes with proofs,
paths) was followed by the gate and the options (`GitCommand`, `Config`, `GitRequest`), by HTTP git against the
same abstract pool, by the proofs about `HttpGit`, and by those about `GitRequest` and the functions it is built from.
What could come next:

1. Properties of `splitGitCommand` beyond what it says: that each quoted part, wherever in the line, is one argument.
2. HTTP/2 on the HTTPS listener: several handlers over one connection, with deadlines per stream.

## 10. Running it

    tlc -workers 2 -config SshSafety.cfg MCSshServer.tla
    tlapm SshServerProofs.tla

and likewise for the other runs (`PROJECT.json`, "runs") and proof modules. The longest run, `http_requests`,
takes about two minutes on two cores; the proofs of `SshServerProofs` take a few minutes, those of the other
modules at most two minutes each.
