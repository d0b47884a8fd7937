----------------------------- MODULE GitRequest -----------------------------
(***************************************************************************)
(* One request from the front end it comes in by to what git does for it:  *)
(* newRootHandler and serveGit for HTTP and HTTPS, runGitCommand for SSH,  *)
(* under the options the server was started with and on the file system    *)
(* it finds.  Each action is one stage of the code.  How many requests run *)
(* at a time, and how they end, is the matter of HttpGit and SshServer.    *)
(***************************************************************************)
EXTENDS Config, GitCommand

CONSTANT Families  \* records of sets of options, file systems and requests

(* A request names its front end, a path and, over HTTP, the values of the *)
(* query parameter "service" and what in it exceeds a limit; over SSH, the *)
(* command line and the argument in it that stands for the path.  The path *)
(* of an HTTP request begins with a slash.                                 *)
IsRequest(q) ==
    /\ q.over \in {"http", "https", "ssh"}
    /\ q.path \in Path \ {<<>>}
    /\ q.over # "ssh" => Len(q.path) >= 2 /\ Head(q.path) = Empty
    /\ q.line \in Text /\ q.argument \in Text

ASSUME InputsTyped ==
    \A f \in Families :
        /\ \A t \in f.trees : IsTree(t)
        /\ \A o \in f.options : IsOptions(o)
        /\ \A q \in f.requests : IsRequest(q)

VARIABLES
    options, tree, request,     \* the inputs
    pc,         \* the stage
    rel,        \* the path below the repositories' folder
    probe,      \* the path repoWithinRoot tries
    command,    \* what is executed: a service, or http-backend and how
    did         \* what it did

input == <<options, tree, request>>
vars  == <<input, pc, rel, probe, command, did>>

Stages == {"start", "route", "git", "resolve", "walk", "gate", "backend",
           "goimport", "exec", "locate", "run"}
Ends   == {"refused", "forbidden", "done"}
NoCommand == [service |-> "none", receivepack |-> FALSE, getanyfile |-> FALSE]

TypeOK ==
    /\ pc \in Stages \cup Ends
    /\ rel # <<>> => HasGit(Head(rel)) \/ request.over = "ssh"
    /\ probe # <<>> => IsPrefix(Root(tree).path, probe)
    /\ command.service \in {"none", "fetch", "push", "http-backend"}
    /\ did \in {"none", "fetch", "push", "file", "page"}
    /\ did # "none" => pc = "done"

Init ==
    /\ \E f \in Families :
          options \in f.options /\ tree \in f.trees /\ request \in f.requests
    /\ pc = "start" /\ rel = <<>> /\ probe = <<>>
    /\ command = NoCommand /\ did = "none"

Go(stage) == pc' = stage /\ UNCHANGED <<input, rel, probe, command, did>>

Connect ==
    /\ pc = "start"
    /\ Go(IF request.over \notin Listening(options) THEN "refused"
          ELSE IF request.over = "ssh" THEN "exec" ELSE "route")

-----------------------------------------------------------------------------
(* HTTP.                                                                   *)

Pulse == <<Empty, <<"pulse", 0>>>>

(* newRootHandler: 414, git, the banner, go-import or 404. *)
Route ==
    /\ pc = "route"
    /\ Go(IF request.long = "path" THEN "refused"
          ELSE IF isGitRequest(HttpPrefix(options), request.path) THEN "git"
          ELSE IF request.path # Pulse /\ On(options, {"go-import"}) THEN "goimport"
          ELSE "refused")

(* serveGit up to repoWithinRoot: the limits of checkCGIEnvLimits and the  *)
(* lexical checks.                                                         *)
Sanitize ==
    /\ pc = "git"
    /\ rel' = IF request.long = "env" THEN <<>>
              ELSE sanitizeGitPathInfo(PathInfo(HttpPrefix(options), request.path))
    /\ pc' = IF rel' = <<>> THEN "refused" ELSE "resolve"
    /\ UNCHANGED <<input, probe, command, did>>

(* Mutant: only the repository's own segment is checked. *)
ResolveRepository ==
    /\ pc = "resolve"
    /\ IF Root(tree).is = "ok"
       THEN pc' = "walk" /\ probe' = Root(tree).path \o <<Head(rel)>>
       ELSE pc' = "refused" /\ UNCHANGED probe
    /\ UNCHANGED <<input, rel, command, did>>

ResolveRoot ==
    /\ pc = "resolve"
    /\ IF Root(tree).is = "ok"
       THEN pc' = "walk" /\ probe' = Root(tree).path \o rel
       ELSE pc' = "refused" /\ UNCHANGED probe
    /\ UNCHANGED <<input, rel, command, did>>

(* Mutant: a path that does not exist is accepted at once. *)
WalkOnce ==
    /\ pc = "walk"
    /\ LET r == EvalSymlinks(tree, probe) IN
       Go(IF \/ r.is = "ok" /\ ~containedIn(Root(tree).path, r.path)
             \/ r.is = "error"
          THEN "refused" ELSE "gate")

(* One turn of the loop of repoWithinRoot. *)
Walk ==
    /\ pc = "walk"
    /\ LET r == EvalSymlinks(tree, probe)
           root == Root(tree).path
       IN  IF r.is = "notexist" /\ Len(probe) > Len(root)
           THEN probe' = Front(probe) /\ UNCHANGED <<input, pc, rel, command, did>>
           ELSE Go(IF r.is = "notexist" \/ (r.is = "ok" /\ containedIn(root, r.path))
                   THEN "gate" ELSE "refused")

(* Mutant: the query of the advertisement is not looked at. *)
isReceivePackPath(q, r) == Last(r) = <<"git-receive-pack", 0>>

(* The path decides, or the first value of the parameter. *)
isReceivePackRequest(q, r) ==
    \/ Last(r) = <<"git-receive-pack", 0>>
    \/ q.service # <<>> /\ Head(q.service) = "git-receive-pack"

(* Mutant: both commands let pushes through. *)
backendTakesPushes(receivePack) ==
    [service |-> "http-backend", receivepack |-> TRUE, getanyfile |-> FALSE]

(* http-backend as the server runs it, ... *)
gitBackendArgs(receivePack) ==
    [service |-> "http-backend", receivepack |-> receivePack, getanyfile |-> FALSE]

(* ... and as the helper for pushes does. *)
runGitHTTPBackend ==
    [service |-> "http-backend", receivepack |-> TRUE, getanyfile |-> FALSE]

(* serveGit: a push needs the switch and runs the helper. *)
Gate ==
    /\ pc = "gate"
    /\ LET push == isReceivePackRequest(request, rel) IN
       IF push => On(options, {"http-write"}) /\ Has(options, {"http-write-binary"})
       THEN /\ pc' = "backend"
            /\ command' = IF push THEN runGitHTTPBackend ELSE gitBackendArgs(FALSE)
            /\ UNCHANGED <<input, rel, probe, did>>
       ELSE Go("forbidden")

Offered == [fetch |-> "git-upload-pack", push |-> "git-receive-pack"]
InfoRefs == <<<<"info", 0>>, <<"refs", 0>>>>

(* The repository and the services the path and the query name. *)
RepositoryOf(r) == IF IsSuffix(InfoRefs, r) THEN SubSeq(r, 1, Len(r) - 2) ELSE Front(r)
NamedServices(q, r) == IF IsSuffix(InfoRefs, r) THEN ToSet(q.service) ELSE {Last(r)[1]}

(* http-backend takes one of the services, or knows none and has a file to *)
(* serve.                                                                  *)
HttpBackend ==
    /\ pc = "backend"
    /\ LET named == {op \in DOMAIN Offered : Offered[op] \in NamedServices(request, rel)}
           ops == IF ~IsDirectory(tree, RepositoryOf(rel)) THEN {}
                  ELSE (named \ {op \in {"push"} : ~command.receivepack})
                       \cup {op \in {"file"} : named = {} /\ command.getanyfile}
       IN  did' \in IF ops = {} THEN {"none"} ELSE ops
    /\ pc' = "done"
    /\ UNCHANGED <<input, rel, probe, command>>

(* serveGoImport. *)
ServeGoImport ==
    /\ pc = "goimport"
    /\ IF validProjectName(request.path[2]) /\ repoExists(tree, request.path[2])
       THEN pc' = "done" /\ did' = "page" /\ UNCHANGED <<input, rel, probe, command>>
       ELSE Go("refused")

-----------------------------------------------------------------------------
(* SSH.                                                                    *)

(* What the switches of the SSH server that runs allow. *)
Allowed(o) ==
    {op \in {"fetch"} : \E s \in SshServers(o) : On(s, {"ssh-read"})}
    \cup {op \in {"push"} : \E s \in SshServers(o) : On(s, {"ssh-write"})}

(* runGitCommand: the command line, ... *)
Parse ==
    /\ pc = "exec"
    /\ LET parsed == parseGitSSHCommand(request.line, Allowed(options)) IN
       IF parsed # Refused /\ TrimSpace(parsed.repo) = request.argument
       THEN /\ pc' = "locate"
            /\ command' = [NoCommand EXCEPT !.service = parsed.service]
            /\ UNCHANGED <<input, rel, probe, did>>
       ELSE Go("refused")

(* ... resolveRepoPathOpts, ... *)
Locate ==
    /\ pc = "locate"
    /\ rel' = SshRelative(request.path)
    /\ pc' = IF rel' # <<>> /\ IsDirectory(tree, rel') /\ withinRoot(tree, rel')
             THEN "run" ELSE "refused"
    /\ UNCHANGED <<input, probe, command, did>>

(* ... and git upload-pack or git receive-pack. *)
RunGit ==
    /\ pc = "run"
    /\ pc' = "done" /\ did' = command.service
    /\ UNCHANGED <<input, rel, probe, command>>

Answered == pc \in Ends /\ UNCHANGED vars

Next == \/ Connect \/ Route \/ Sanitize \/ ResolveRoot \/ Walk \/ Gate
        \/ HttpBackend \/ ServeGoImport \/ Parse \/ Locate \/ RunGit \/ Answered

Spec == Init /\ [][Next]_vars

-----------------------------------------------------------------------------
(* Properties.                                                             *)

(* The path git serves lies inside --git-repos-folder with every symbolic  *)
(* link resolved, if it exists; over SSH it is a directory.                *)
ServedInside ==
    pc \in {"backend", "run"} =>
        Inside(tree, rel) /\ (request.over = "ssh" => IsDirectory(tree, rel))

(* The loop decides as the deepest existing part of the path does, however *)
(* deep links occur in it.                                                 *)
WalkDecides ==
    request.over # "ssh" /\ rel # <<>> =>
        /\ pc \in {"gate", "backend", "forbidden", "done"} => repoWithinRoot(tree, rel)
        /\ pc = "refused" => ~repoWithinRoot(tree, rel)

(* The repository a go-import page advertises is fetched from the URL the  *)
(* page gives: the request is routed to git and no check refuses it, if    *)
(* the repository has no entry with the name of the service.               *)
FetchUrl(e) == Front(HttpPrefix(options)) \o <<AddGit(e), <<"git-upload-pack", 0>>>>

AdvertisedIsServed ==
    did = "page" =>
        LET url  == FetchUrl(request.path[2])
            path == sanitizeGitPathInfo(PathInfo(HttpPrefix(options), url))
        IN  /\ isGitRequest(HttpPrefix(options), url)
            /\ path # <<>>
            /\ Below(tree, path, 2).is = "notexist" => repoWithinRoot(tree, path)

(* What the operator's switches grant to the clients of a front end.       *)
Grants(o, over) ==
    {op \in {"fetch"} : ReadSwitch[over] \in o.on}
    \cup {op \in {"push"} : IF over = "ssh" THEN "ssh-write" \in o.on
                            ELSE {ReadSwitch[over], "http-write"} \subseteq o.on}
    \cup {op \in {"page"} : "go-import" \in o.on}

(* Git does nothing the switches of the program the operator started do    *)
(* not grant, whatever the path, the query or the command line say, and no *)
(* file of a repository is served by its name.                             *)
SwitchesObeyed == did = "none" \/ did \in Grants(options, request.over)

(* A git client asks for a service in one of these ways: over SSH with the *)
(* argument in quotes, where one that holds a quote is written otherwise   *)
(* and one with a blank at an end is not left as it is.                    *)
Quotable(argument) ==
    /\ argument # <<>> /\ TrimSpace(argument) = argument
    /\ \A i \in DOMAIN argument : argument[i] # "'"

Asks(op) ==
    IF request.over = "ssh"
    THEN /\ request.line = <<Offered[op], Blank, "'">> \o request.argument \o <<"'">>
         /\ Quotable(request.argument)
    ELSE \E repo \in {r \in ToSet(request.path) : HasGit(r) /\ r # DotGit} :
           \/ /\ request.path = Front(HttpPrefix(options)) \o <<repo>> \o InfoRefs
              /\ request.service = <<Offered[op]>>
           \/ /\ request.path = Front(HttpPrefix(options)) \o <<repo, <<Offered[op], 0>>>>
              /\ request.service = <<>>

(* The repository is there for it. *)
Present ==
    IF request.over = "ssh"
    THEN LET r == SshRelative(request.path)
         IN  r # <<>> /\ IsDirectory(tree, r) /\ withinRoot(tree, r)
    ELSE LET r == Tail(PathInfo(HttpPrefix(options), request.path))
         IN  IsDirectory(tree, <<Head(r)>>) /\ repoWithinRoot(tree, r)

Accepted == IF options.program = "simple-git-server" THEN MainAccepts(options)
            ELSE SshMainAccepts(options)

(* Once the program the operator started has accepted its options, what a  *)
(* git client asks for is done if and only if the switches grant it and    *)
(* the repository is there.                                                *)
ClientsServed ==
    pc \in Ends /\ Accepted /\ request.long = "no" =>
        \A op \in {"fetch", "push"} :
            Asks(op) => (did = op <=> op \in Grants(options, request.over) /\ Present)

(* parseGitSSHCommand accepts nothing but a service and one argument: with *)
(* blanks and quotes left out, the line says what git does and where.      *)
LineIsCommand ==
    pc = "done" /\ request.over = "ssh" =>
        LET arg == Said(request.argument)
        IN  Said(request.line) \in
            CASE did = "fetch" -> {<<"git-upload-pack">> \o arg, <<"git", "upload-pack">> \o arg}
              [] did = "push" -> {<<"git-receive-pack">> \o arg, <<"git", "receive-pack">> \o arg}
=============================================================================
