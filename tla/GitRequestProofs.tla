-------------------------- MODULE GitRequestProofs --------------------------
(***************************************************************************)
(* Theorems about GitRequest, for all options, file systems and requests:  *)
(* that git does nothing the operator's switches do not grant, that the    *)
(* loop of repoWithinRoot gives the verdict of the deepest existing part   *)
(* of a path, that what git serves lies inside the folder, that what a     *)
(* go-import page advertises is served, that over SSH the command line     *)
(* says what git does and where, and that what a git client asks for is    *)
(* done exactly when it is granted and there.                              *)
(***************************************************************************)
EXTENDS GitRequest, RepoPathProofs, GitCommandProofs

(* Every stage knows which front end the request came in by, and what the  *)
(* switches granted when it chose a command.                               *)
HttpStages == {"route", "git", "resolve", "walk", "gate", "backend", "goimport"}
SshStages  == {"exec", "locate", "run"}

StageInv ==
    /\ pc \in HttpStages \cup SshStages => request.over \in Listening(options)
    /\ pc \in HttpStages => request.over # "ssh"
    /\ pc \in SshStages => request.over = "ssh"
    /\ pc = "goimport" => "go-import" \in options.on
    /\ pc = "backend" => /\ ~command.getanyfile
                         /\ command.receivepack => "http-write" \in options.on
    /\ pc \in {"locate", "run"} =>
           command.service \in Grants(options, request.over) \cap {"fetch", "push"}
    /\ pc # "done" => did = "none"

GateInv == StageInv /\ SwitchesObeyed

THEOREM InitGate == Init => GateInv
  BY DEF Init, GateInv, StageInv, SwitchesObeyed, HttpStages, SshStages

(* A front end over HTTP listens only with its read switch on. *)
LEMMA ListeningReads ==
    ASSUME NEW o, NEW over \in Listening(o), over # "ssh"
    PROVE  ReadSwitch[over] \in o.on
  BY DEF Listening

(* The switches of the running SSH server are among the operator's. *)
LEMMA AllowedGranted ==
    ASSUME NEW o PROVE Allowed(o) \subseteq Grants(o, "ssh") \cap {"fetch", "push"}
<1>1. ASSUME NEW s \in SshServers(o), NEW w \in SshSwitches, On(s, {w})
      PROVE  w \in o.on
  BY <1>1 DEF SshServers, sshReadWriteArgs, On
<1> QED
  BY <1>1 DEF Allowed, Grants, ReadSwitch, SshSwitches

(* A command line is refused or asks for an allowed service. *)
LEMMA ParsedAllowed ==
    ASSUME NEW line, NEW allowed, parseGitSSHCommand(line, allowed) # Refused
    PROVE  parseGitSSHCommand(line, allowed).service \in allowed
  BY DEF parseGitSSHCommand, Refused

THEOREM StepGate == GateInv /\ [Next]_vars => GateInv'
<1> SUFFICES ASSUME GateInv, [Next]_vars PROVE GateInv'
  OBVIOUS
<1> USE DEF GateInv, StageInv, SwitchesObeyed, HttpStages, SshStages, input
<1>1. CASE Connect
  BY <1>1 DEF Connect, Go, Listening
<1>2. CASE Route
  BY <1>2 DEF Route, Go, On
<1>3. CASE Sanitize
  BY <1>3 DEF Sanitize
<1>4. CASE ResolveRoot
  BY <1>4 DEF ResolveRoot
<1>5. CASE Walk
  BY <1>5 DEF Walk, Go
<1>6. CASE Gate
  BY <1>6 DEF Gate, Go, gitBackendArgs, runGitHTTPBackend, On
<1>7. CASE HttpBackend
  <2>1. ReadSwitch[request.over] \in options.on
    BY <1>7, ListeningReads DEF HttpBackend
  <2>2. did' = "none" \/ did' = "fetch" \/ (did' = "push" /\ command.receivepack)
    BY <1>7 DEF HttpBackend, Offered
  <2> QED
    BY <1>7, <2>1, <2>2 DEF HttpBackend, Grants
<1>8. CASE ServeGoImport
  BY <1>8 DEF ServeGoImport, Go, Grants
<1>9. CASE Parse
  BY <1>9, ParsedAllowed, AllowedGranted DEF Parse, Go, NoCommand
<1>10. CASE Locate
  BY <1>10 DEF Locate
<1>11. CASE RunGit
  BY <1>11 DEF RunGit
<1>12. CASE UNCHANGED vars
  BY <1>12 DEF vars, Grants, Listening
<1> QED
  BY <1>1, <1>2, <1>3, <1>4, <1>5, <1>6, <1>7, <1>8, <1>9, <1>10, <1>11, <1>12
     DEF Next, Answered

(* Whatever a request says, git does nothing for it that the switches of   *)
(* the program the operator started do not grant to its front end.         *)
THEOREM SwitchesObeyedCorrect == Spec => []SwitchesObeyed
<1>1. GateInv => SwitchesObeyed
  BY DEF GateInv
<1> QED
  BY InitGate, StepGate, <1>1, PTL DEF Spec

-----------------------------------------------------------------------------
(* The inputs and the paths made from them.                                *)

FromFamily ==
    \E f \in Families :
        options \in f.options /\ tree \in f.trees /\ request \in f.requests

(* What is assumed of the inputs, for those of a state. *)
LEMMA Inputs ==
    ASSUME FromFamily
    PROVE  /\ IsTree(tree)
           /\ IsOptions(options) /\ options.prefix \in Path \ {<<>>}
           /\ request.over \in {"http", "https", "ssh"}
           /\ request.path \in Path \ {<<>>}
           /\ request.over # "ssh" => Len(request.path) >= 2 /\ Head(request.path) = Empty
           /\ request.line \in Text /\ request.argument \in Text
<1>1. PICK f \in Families :
          options \in f.options /\ tree \in f.trees /\ request \in f.requests
  BY DEF FromFamily
<1> QED
  BY <1>1, InputsTyped DEF IsOptions, IsRequest

LEMMA SlashPaths ==
    Empty \in Element /\ <<Empty>> \in Path /\ <<Empty, Empty>> \in Path
<1>1. Empty \in Element
  BY LiteralsAreStrings DEF Empty, Element
<1> QED
  BY <1>1 DEF Path

(* The prefix has a slash at both ends. *)
LEMMA PrefixPath ==
    ASSUME NEW o, o.prefix \in Path \ {<<>>}
    PROVE  /\ HttpPrefix(o) \in Path /\ Len(HttpPrefix(o)) >= 2
           /\ Head(HttpPrefix(o)) = Empty /\ Last(HttpPrefix(o)) = Empty
<1>1. PICK given : given = IF o.prefix = <<Empty>> THEN <<Empty, Empty>> ELSE o.prefix
  OBVIOUS
<1>2. given \in Path /\ given # <<>> /\ Len(given) \in Nat /\ Len(given) >= 1
  BY <1>1, SlashPaths, LenProperties, EmptySeq DEF Path
<1>3. PICK first : first = IF Len(given) > 1 /\ Head(given) = Empty THEN given
                           ELSE <<Empty>> \o given
  OBVIOUS
<1>4. HttpPrefix(o) = IF Last(first) = Empty THEN first ELSE Append(first, Empty)
  BY <1>1, <1>3 DEF HttpPrefix
<1>5. /\ <<Empty>> \o given \in Path
      /\ Len(<<Empty>> \o given) >= 2
      /\ Head(<<Empty>> \o given) = Empty
  BY <1>2, SlashPaths, ConcatProperties DEF Path
<1>6. first \in Path /\ Len(first) \in Nat /\ Len(first) >= 2 /\ Head(first) = Empty
  BY <1>2, <1>3, <1>5, LenProperties DEF Path
<1>7. /\ Append(first, Empty) \in Path /\ Len(Append(first, Empty)) = Len(first) + 1
      /\ Append(first, Empty)[1] = first[1]
      /\ Append(first, Empty)[Len(first) + 1] = Empty
  BY <1>6, SlashPaths, AppendProperties DEF Path
<1>8. Head(Append(first, Empty)) = Empty /\ Last(Append(first, Empty)) = Empty
  BY <1>6, <1>7 DEF Last, Path
<1> QED
  BY <1>4, <1>6, <1>7, <1>8

(* What serveGit passes on is a path. *)
LEMMA PathInfoPath ==
    ASSUME NEW pre \in Path, Len(pre) >= 1, NEW p \in Path
    PROVE  PathInfo(pre, p) \in Path
<1>1. Len(pre) \in Nat /\ Len(p) \in Nat
  BY LenProperties DEF Path
<1>2. \A i \in Len(pre) .. Len(p) : p[i] \in Element
  BY <1>1, ElementOfSeq DEF Path
<1>3. SubSeq(p, Len(pre), Len(p)) \in Path
  BY <1>1, <1>2, SubSeqProperties DEF Path
<1> QED
  BY <1>3, SlashPaths, PathConcat DEF PathInfo

(* A path that sanitizeGitPathInfo accepts begins with a repository. *)
LEMMA Sanitized ==
    ASSUME NEW p \in Path, sanitizeGitPathInfo(p) # <<>>
    PROVE  /\ sanitizeGitPathInfo(p) \in Path
           /\ HasGit(Head(sanitizeGitPathInfo(p)))
BY CleanTyped DEF sanitizeGitPathInfo

(* So is what serveGit makes of a request. *)
LEMMA SanitizedRequest ==
    ASSUME FromFamily,
           NEW r, r = sanitizeGitPathInfo(PathInfo(HttpPrefix(options), request.path)),
           r # <<>>
    PROVE  r \in Path /\ HasGit(Head(r))
<1>1. options.prefix \in Path \ {<<>>} /\ request.path \in Path
  BY Inputs
<1>2. HttpPrefix(options) \in Path /\ Len(HttpPrefix(options)) >= 1
  BY <1>1, PrefixPath, LenProperties DEF Path
<1>3. PathInfo(HttpPrefix(options), request.path) \in Path
  BY <1>1, <1>2, PathInfoPath
<1> QED
  BY <1>3, Sanitized

-----------------------------------------------------------------------------
(* The loop of repoWithinRoot.                                             *)

(* Nothing below the first n elements of the path exists. *)
NoneBelow(n) ==
    \A m \in n + 1 .. Len(rel) : Below(tree, rel, m).is = "notexist"

(* The loop has tried the longer parts of the path and found none; once it *)
(* is over, or did not begin, its verdict is known.                        *)
LoopInv ==
    /\ FromFamily
    /\ pc \in {"start", "route", "git", "goimport"} => rel = <<>>
    /\ pc \in {"route", "git", "resolve", "walk", "gate", "backend"} =>
           request.over # "ssh"
    /\ pc \in {"resolve", "walk", "gate", "backend"} =>
           /\ rel = sanitizeGitPathInfo(PathInfo(HttpPrefix(options), request.path))
           /\ rel # <<>>
    /\ pc = "walk" =>
           /\ Root(tree).is = "ok"
           /\ \E n \in 0..Len(rel) :
                 /\ probe = Root(tree).path \o SubSeq(rel, 1, n)
                 /\ NoneBelow(n)
    /\ pc \in {"exec", "locate", "run"} => request.over = "ssh"
    /\ WalkDecides

THEOREM InitLoop == Init => LoopInv
  BY DEF Init, LoopInv, FromFamily, WalkDecides

(* The paths of the stages between the lexical checks and git are proper. *)
LEMMA ProperPaths ==
    ASSUME LoopInv, pc \in {"resolve", "walk", "gate", "backend"}
    PROVE  /\ rel \in Path /\ rel # <<>> /\ HasGit(Head(rel))
           /\ IsTree(tree) /\ Root(tree).path \in Path
<1>1. FromFamily /\ IsTree(tree)
  BY Inputs DEF LoopInv
<1>2. rel \in Path /\ rel # <<>> /\ HasGit(Head(rel))
  BY <1>1, SanitizedRequest DEF LoopInv
<1>3. Root(tree).path \in Path
  BY <1>1, PathLimits, EvalSymlinksTyped DEF Root
<1> QED
  BY <1>1, <1>2, <1>3

(* One part tried, with nothing below it, decides for the path. *)
LEMMA DeepestDecides ==
    ASSUME NEW t, NEW p \in Path, NEW n \in 0..Len(p), Root(t).is = "ok",
           \A m \in n + 1 .. Len(p) : Below(t, p, m).is = "notexist",
           Below(t, p, n).is # "notexist" \/ n = 0
    PROVE  repoWithinRoot(t, p) <=>
               \/ Below(t, p, n).is = "notexist"
               \/ /\ Below(t, p, n).is = "ok"
                  /\ containedIn(Root(t).path, Below(t, p, n).path)
<1>1. Len(p) \in Nat
  BY DEF Path
<1>2. ASSUME NEW k \in 0..Len(p), k < n
      PROVE  ~ \A m \in k + 1 .. Len(p) : Below(t, p, m).is = "notexist"
  BY <1>1, <1>2
<1>3. ASSUME NEW k \in 0..Len(p), k > n
      PROVE  Below(t, p, k).is = "notexist"
  BY <1>1, <1>3
<1> QED
  BY <1>1, <1>2, <1>3 DEF repoWithinRoot

(* A shorter part of the path, by one element. *)
LEMMA ShorterProbe ==
    ASSUME NEW root \in Path, NEW p \in Path, NEW n \in 0..Len(p)
    PROVE  /\ Len(root \o SubSeq(p, 1, n)) = Len(root) + n
           /\ n > 0 => Front(root \o SubSeq(p, 1, n)) = root \o SubSeq(p, 1, n - 1)
<1> DEFINE c == root \o SubSeq(p, 1, n)
           d == root \o SubSeq(p, 1, n - 1)
<1>1. Len(root) \in Nat /\ Len(p) \in Nat /\ \A i \in 1..Len(p) : p[i] \in Element
  BY LenProperties, ElementOfSeq DEF Path
<1>2. ASSUME NEW k \in 0..Len(p)
      PROVE  /\ SubSeq(p, 1, k) \in Path /\ Len(SubSeq(p, 1, k)) = k
             /\ \A i \in 1..k : SubSeq(p, 1, k)[i] = p[i]
  <2>1. \A i \in 1..k : p[i] \in Element
    BY <1>1
  <2> QED
    BY <1>1, <2>1, SubSeqProperties DEF Path
<1>3. c \in Path /\ Len(c) = Len(root) + n
  <2>1. SubSeq(p, 1, n) \in Path /\ Len(SubSeq(p, 1, n)) = n
    BY <1>2
  <2> QED
    BY <2>1, ConcatProperties, Zenon DEF Path
<1>4. ASSUME n > 0 PROVE Front(c) = d
  <2>1. d \in Path /\ Len(d) = Len(root) + (n - 1)
    BY <1>1, <1>2, <1>4, ConcatProperties DEF Path
  <2>2. /\ Front(c) \in Path /\ Len(Front(c)) = Len(d)
        /\ \A i \in 1..Len(d) : Front(c)[i] = c[i]
    <3>1. \A i \in 1..Len(c) - 1 : c[i] \in Element
      BY <1>1, <1>3, ElementOfSeq DEF Path
    <3> QED
      BY <1>1, <1>3, <1>4, <2>1, <3>1, SubSeqProperties DEF Path, Front
  <2>3. ASSUME NEW i \in 1..Len(d) PROVE c[i] = d[i]
    <3>1. c[i] = IF i <= Len(root) THEN root[i] ELSE SubSeq(p, 1, n)[i - Len(root)]
      BY <1>1, <1>2, <2>1, ConcatProperties DEF Path
    <3>2. d[i] = IF i <= Len(root) THEN root[i] ELSE SubSeq(p, 1, n - 1)[i - Len(root)]
      BY <1>1, <1>2, <1>4, <2>1, ConcatProperties DEF Path
    <3>3. i > Len(root) => /\ SubSeq(p, 1, n)[i - Len(root)] = p[i - Len(root)]
                           /\ SubSeq(p, 1, n - 1)[i - Len(root)] = p[i - Len(root)]
      BY <1>1, <1>2, <1>4, <2>1
    <3> QED
      BY <1>1, <2>1, <3>1, <3>2, <3>3
  <2> HIDE DEF c, d
  <2> QED
    BY <2>1, <2>2, <2>3, SeqEqual DEF Path
<1> QED
  BY <1>3, <1>4

THEOREM StepLoop == LoopInv /\ [Next]_vars => LoopInv'
<1> SUFFICES ASSUME LoopInv, [Next]_vars PROVE LoopInv'
  OBVIOUS
<1> USE DEF LoopInv, FromFamily, NoneBelow, WalkDecides, input
<1>1. CASE Connect
  BY <1>1 DEF Connect, Go
<1>2. CASE Route
  BY <1>2 DEF Route, Go
<1>3. CASE Sanitize
  <2>1. /\ pc = "git" /\ options' = options /\ tree' = tree /\ request' = request
        /\ pc' = IF rel' = <<>> THEN "refused" ELSE "resolve"
    BY <1>3 DEF Sanitize
  <2>2. pc' = "resolve" =>
            rel' = sanitizeGitPathInfo(PathInfo(HttpPrefix(options), request.path))
    BY <1>3, <2>1 DEF Sanitize
  <2> QED
    BY <2>1, <2>2
<1>4. CASE ResolveRoot
  <2>1. rel \in Path
    BY <1>4, ProperPaths DEF ResolveRoot
  <2>2. Len(rel) \in 0..Len(rel) /\ SubSeq(rel, 1, Len(rel)) = rel
    BY <2>1, LenProperties, SubSeqFull DEF Path
  <2>3. /\ pc = "resolve" /\ rel' = rel
        /\ options' = options /\ tree' = tree /\ request' = request
    BY <1>4 DEF ResolveRoot
  <2>4. CASE Root(tree).is = "ok"
    <3>1. pc' = "walk" /\ probe' = Root(tree).path \o SubSeq(rel, 1, Len(rel))
      BY <1>4, <2>2, <2>4 DEF ResolveRoot
    <3>2. \A m \in Len(rel) + 1 .. Len(rel) : Below(tree, rel, m).is = "notexist"
      BY <2>2
    <3>3. WalkDecides'
      BY <3>1
    <3>4. /\ Root(tree').is = "ok"
          /\ probe' = Root(tree').path \o SubSeq(rel', 1, Len(rel'))
          /\ \A m \in Len(rel') + 1 .. Len(rel') : Below(tree', rel', m).is = "notexist"
      BY <2>3, <2>4, <3>1, <3>2
    <3> QED
      BY <2>2, <2>3, <3>1, <3>3, <3>4
  <2>5. CASE Root(tree).is # "ok"
    <3>1. pc' = "refused" /\ ~repoWithinRoot(tree, rel)
      BY <1>4, <2>5 DEF ResolveRoot, repoWithinRoot
    <3> QED
      BY <2>3, <3>1
  <2> QED
    BY <2>4, <2>5
<1>5. CASE Walk
  <2>1. rel \in Path /\ Root(tree).path \in Path /\ pc = "walk"
    BY <1>5, ProperPaths DEF Walk
  <2>2. PICK n \in 0..Len(rel) :
            probe = Root(tree).path \o SubSeq(rel, 1, n) /\ NoneBelow(n)
    BY <2>1
  <2>3. EvalSymlinks(tree, probe) = Below(tree, rel, n)
    BY <2>2 DEF Below
  <2>4. Len(rel) \in Nat /\ Len(Root(tree).path) \in Nat
    BY <2>1, LenProperties DEF Path
  <2>5. Len(probe) = Len(Root(tree).path) + n
    BY <2>1, <2>2, ShorterProbe
  <2>6. options' = options /\ tree' = tree /\ request' = request /\ rel' = rel
    BY <1>5 DEF Walk, Go
  <2>7. CASE Below(tree, rel, n).is = "notexist" /\ n > 0
    <3>1. pc' = "walk" /\ probe' = Root(tree).path \o SubSeq(rel, 1, n - 1)
      <4>1. pc' = "walk" /\ probe' = Front(probe)
        BY <1>5, <2>3, <2>4, <2>5, <2>7 DEF Walk
      <4> QED
        BY <2>1, <2>2, <2>7, <4>1, ShorterProbe
    <3>2. n - 1 \in 0..Len(rel)
      BY <2>4, <2>7
    <3>3. \A m \in (n - 1) + 1 .. Len(rel) : Below(tree, rel, m).is = "notexist"
      BY <2>2, <2>4, <2>7
    <3>4. WalkDecides'
      BY <3>1
    <3>5. /\ Root(tree').is = "ok"
          /\ probe' = Root(tree').path \o SubSeq(rel', 1, n - 1)
          /\ \A m \in (n - 1) + 1 .. Len(rel') : Below(tree', rel', m).is = "notexist"
      BY <2>1, <2>6, <3>1, <3>3
    <3> QED
      BY <2>1, <2>6, <3>1, <3>2, <3>4, <3>5
  <2>8. CASE Below(tree, rel, n).is # "notexist" \/ n = 0
    <3>1. repoWithinRoot(tree, rel) <=>
              \/ Below(tree, rel, n).is = "notexist"
              \/ /\ Below(tree, rel, n).is = "ok"
                 /\ containedIn(Root(tree).path, Below(tree, rel, n).path)
      BY <2>1, <2>2, <2>8, DeepestDecides
    <3>2. pc' = IF \/ Below(tree, rel, n).is = "notexist"
                   \/ /\ Below(tree, rel, n).is = "ok"
                      /\ containedIn(Root(tree).path, Below(tree, rel, n).path)
                THEN "gate" ELSE "refused"
      BY <1>5, <2>3, <2>4, <2>5, <2>8 DEF Walk, Go
    <3>3. pc' = IF repoWithinRoot(tree, rel) THEN "gate" ELSE "refused"
      BY <3>1, <3>2, Zenon
    <3>4. WalkDecides'
      BY <2>6, <3>3
    <3> QED
      BY <2>1, <2>6, <3>3, <3>4
  <2>9. n > 0 \/ n = 0
    BY <2>4
  <2> QED
    BY <2>7, <2>8, <2>9, Zenon
<1>6. CASE Gate
  BY <1>6 DEF Gate, Go
<1>7. CASE HttpBackend
  BY <1>7 DEF HttpBackend
<1>8. CASE ServeGoImport
  BY <1>8 DEF ServeGoImport, Go
<1>9. CASE Parse
  BY <1>9 DEF Parse, Go
<1>10. CASE Locate
  BY <1>10 DEF Locate
<1>11. CASE RunGit
  BY <1>11 DEF RunGit
<1>12. CASE UNCHANGED vars
  BY <1>12 DEF vars
<1> QED
  BY <1>1, <1>2, <1>3, <1>4, <1>5, <1>6, <1>7, <1>8, <1>9, <1>10, <1>11, <1>12
     DEF Next, Answered

(* The loop, which stops at the first part of the path that exists, gives  *)
(* the verdict of the deepest existing part on every file system.          *)
THEOREM WalkDecidesCorrect == Spec => []WalkDecides
<1>1. LoopInv => WalkDecides
  BY DEF LoopInv
<1> QED
  BY InitLoop, StepLoop, <1>1, PTL DEF Spec

-----------------------------------------------------------------------------
(* Types, and what git serves.                                             *)

(* A path that goes on after the root begins with it. *)
LEMMA PrefixOfConcat ==
    ASSUME NEW r \in Path, NEW q \in Path
    PROVE  IsPrefix(r, r \o q)
<1>1. /\ Len(r) \in Nat /\ Len(q) \in Nat /\ Len(r \o q) = Len(r) + Len(q)
      /\ \A i \in 1 .. Len(r) : (r \o q)[i] = r[i]
  BY LenProperties, ConcatProperties DEF Path
<1>2. SubSeq(r, 1, Len(r)) = r
  BY SubSeqFull DEF Path
<1>3. SubSeq(r \o q, 1, Len(r)) = SubSeq(r, 1, Len(r))
  <2>1. r = <<>> \/ Len(r) \in 1 .. Len(r)
    BY <1>1, EmptySeq DEF Path
  <2>2. CASE r = <<>>
    BY <2>2, SubSeqEmpty, EmptySeq
  <2>3. CASE Len(r) \in 1 .. Len(r)
    BY <2>3, SubSeqOfConcat1 DEF Path
  <2> QED
    BY <2>1, <2>2, <2>3
<1> QED
  BY <1>1, <1>2, <1>3 DEF IsPrefix

(* The type invariant with what it takes from the invariants above: the    *)
(* command a push or a fetch is, and where the loop has come to.           *)
RequestInv == GateInv /\ LoopInv /\ TypeOK

THEOREM InitRequest == Init => RequestInv
<1>1. Init => TypeOK
  BY DEF Init, TypeOK, Stages, Ends, NoCommand
<1> QED
  BY <1>1, InitGate, InitLoop DEF RequestInv

THEOREM StepRequest == RequestInv /\ [Next]_vars => RequestInv'
<1> SUFFICES ASSUME RequestInv, [Next]_vars PROVE TypeOK'
  BY StepGate, StepLoop DEF RequestInv
<1>0. GateInv /\ LoopInv /\ TypeOK /\ LoopInv'
  BY StepLoop DEF RequestInv
<1> USE DEF TypeOK, Stages, Ends, input
<1>1. CASE Connect
  BY <1>0, <1>1 DEF Connect, Go
<1>2. CASE Route
  BY <1>0, <1>2 DEF Route, Go
<1>3. CASE Sanitize
  <2>1. pc' \in {"refused", "resolve"} /\ pc = "git"
    BY <1>3 DEF Sanitize
  <2>2. rel' # <<>> => HasGit(Head(rel'))
    <3>1. rel' # <<>> =>
              rel' = sanitizeGitPathInfo(PathInfo(HttpPrefix(options), request.path))
      BY <1>3 DEF Sanitize
    <3> QED
      BY <1>0, <3>1, SanitizedRequest DEF LoopInv
  <2>3. UNCHANGED <<input, probe, command, did>>
    BY <1>3 DEF Sanitize
  <2> QED
    BY <1>0, <2>1, <2>2, <2>3
<1>4. CASE ResolveRoot
  <2>1. pc' \in {"walk", "refused"} /\ pc = "resolve"
    BY <1>4 DEF ResolveRoot
  <2>2. pc' = "walk" => probe' = Root(tree).path \o rel
    BY <1>4 DEF ResolveRoot
  <2>3. pc' # "walk" => probe' = probe
    BY <1>4 DEF ResolveRoot
  <2>4. IsPrefix(Root(tree).path, Root(tree).path \o rel)
    BY <1>0, <2>1, ProperPaths, PrefixOfConcat
  <2>5. UNCHANGED <<input, rel, command, did>>
    BY <1>4 DEF ResolveRoot
  <2> QED
    BY <1>0, <2>1, <2>2, <2>3, <2>4, <2>5
<1>5. CASE Walk
  <2>1. pc' \in {"walk", "gate", "refused"} /\ pc = "walk"
    BY <1>5 DEF Walk, Go
  <2>2. pc' # "walk" => probe' = probe
    BY <1>5 DEF Walk, Go
  <2>3. UNCHANGED <<input, rel, command, did>>
    BY <1>5 DEF Walk, Go
  <2>4. ASSUME pc' = "walk" PROVE IsPrefix(Root(tree').path, probe')
    <3>1. PICK n \in 0 .. Len(rel') : probe' = Root(tree').path \o SubSeq(rel', 1, n)
      BY <1>0, <2>4 DEF LoopInv
    <3>2. rel' \in Path /\ Root(tree').path \in Path
      BY <1>0, <2>1, <2>3, ProperPaths
    <3>3. SubSeq(rel', 1, n) \in Path
      <4>1. \A i \in 1 .. n : rel'[i] \in Element
        BY <3>2, LenProperties, ElementOfSeq DEF Path
      <4> QED
        BY <3>2, <4>1, LenProperties, SubSeqProperties DEF Path
    <3> QED
      BY <3>1, <3>2, <3>3, PrefixOfConcat
  <2> QED
    BY <1>0, <2>1, <2>2, <2>3, <2>4
<1>6. CASE Gate
  BY <1>0, <1>6 DEF Gate, Go, gitBackendArgs, runGitHTTPBackend
<1>7. CASE HttpBackend
  BY <1>0, <1>7 DEF HttpBackend, Offered
<1>8. CASE ServeGoImport
  BY <1>0, <1>8 DEF ServeGoImport, Go
<1>9. CASE Parse
  BY <1>0, <1>9, ParsedAllowed, AllowedGranted DEF Parse, Go, NoCommand
<1>10. CASE Locate
  BY <1>0, <1>10 DEF Locate, LoopInv
<1>11. CASE RunGit
  BY <1>0, <1>11 DEF RunGit, GateInv, StageInv
<1>12. CASE UNCHANGED vars
  BY <1>0, <1>12 DEF vars
<1> QED
  BY <1>1, <1>2, <1>3, <1>4, <1>5, <1>6, <1>7, <1>8, <1>9, <1>10, <1>11, <1>12
     DEF Next, Answered

(* Every variable has its type: below the folder there is a repository,    *)
(* and the loop stays below the folder's real place.                       *)
THEOREM TypeCorrect == Spec => []TypeOK
<1>1. RequestInv => TypeOK
  BY DEF RequestInv
<1> QED
  BY InitRequest, StepRequest, <1>1, PTL DEF Spec

(* What resolveRepoPathOpts has found when git is started for SSH. *)
LocateInv ==
    pc = "run" => /\ rel = SshRelative(request.path) /\ rel # <<>>
                  /\ withinRoot(tree, rel) /\ IsDirectory(tree, rel)

THEOREM StepLocate == LocateInv /\ [Next]_vars => LocateInv'
<1> SUFFICES ASSUME LocateInv, [Next]_vars PROVE LocateInv'
  OBVIOUS
<1> USE DEF LocateInv, input
<1>1. CASE Connect
  BY <1>1 DEF Connect, Go
<1>2. CASE Route
  BY <1>2 DEF Route, Go
<1>3. CASE Sanitize
  <2>1. pc' # "run"
    BY <1>3 DEF Sanitize
  <2> QED
    BY <2>1
<1>4. CASE ResolveRoot
  BY <1>4 DEF ResolveRoot
<1>5. CASE Walk
  BY <1>5 DEF Walk, Go
<1>6. CASE Gate
  BY <1>6 DEF Gate, Go
<1>7. CASE HttpBackend
  BY <1>7 DEF HttpBackend
<1>8. CASE ServeGoImport
  BY <1>8 DEF ServeGoImport, Go
<1>9. CASE Parse
  BY <1>9 DEF Parse, Go
<1>10. CASE Locate
  BY <1>10 DEF Locate
<1>11. CASE RunGit
  BY <1>11 DEF RunGit
<1>12. CASE UNCHANGED vars
  BY <1>12 DEF vars
<1> QED
  BY <1>1, <1>2, <1>3, <1>4, <1>5, <1>6, <1>7, <1>8, <1>9, <1>10, <1>11, <1>12
     DEF Next, Answered

(* The verdict of the loop over HTTP is about the folder's real place and  *)
(* git opens the path by the folder's name: both lead to the same place.   *)
LEMMA ServedWhenAccepted == RequestInv /\ LocateInv => ServedInside
<1> SUFFICES ASSUME RequestInv, LocateInv, pc \in {"backend", "run"}
             PROVE  Inside(tree, rel) /\ (request.over = "ssh" => IsDirectory(tree, rel))
  BY DEF ServedInside
<1>1. CASE pc = "backend"
  <2>1. rel \in Path /\ rel # <<>> /\ IsTree(tree)
    BY <1>1, ProperPaths DEF RequestInv
  <2>2. request.over # "ssh" /\ repoWithinRoot(tree, rel)
    BY <1>1, <2>1 DEF RequestInv, LoopInv, WalkDecides
  <2> QED
    BY <2>1, <2>2, RepoWithinRootInside
<1>2. CASE pc = "run"
  BY <1>2 DEF LocateInv, withinRoot, Inside
<1> QED
  BY <1>1, <1>2

(* What git serves lies inside the folder with every symbolic link         *)
(* resolved, on every file system; over SSH it is a directory.             *)
THEOREM ServedInsideCorrect == Spec => []ServedInside
<1>1. Init => LocateInv
  BY DEF Init, LocateInv
<1> QED
  BY InitRequest, StepRequest, StepLocate, ServedWhenAccepted, <1>1, PTL DEF Spec

-----------------------------------------------------------------------------
(* Paths that git clients ask for.                                         *)

(* What they ask for below the prefix begins with the repository and has   *)
(* nothing in it to clean.                                                 *)
ClientPath(q) ==
    /\ q \in Plainly /\ q \in Path /\ q # <<>> /\ Len(q) <= MaxGitPathSegments
    /\ HasGit(Head(q)) /\ Head(q) # DotGit

(* It is the clean form of what serveGit passes on for it. *)
LEMMA ClientPathClean ==
    ASSUME NEW q, ClientPath(q)
    PROVE  /\ Tail(<<Empty>> \o q) = q
           /\ sanitizeGitPathInfo(<<Empty>> \o q) = q
<1>1. /\ q \in Plainly /\ q \in Path /\ q # <<>> /\ Len(q) <= MaxGitPathSegments
      /\ HasGit(Head(q)) /\ Head(q) # DotGit /\ Len(q) \in Nat
  BY LenProperties DEF ClientPath, Path
<1>2. PICK p : p = <<Empty>> \o q
  OBVIOUS
<1>3. /\ p \in Path /\ p # <<>> /\ Len(p) = Len(q) + 1
      /\ Head(p) = Empty /\ Tail(p) = q /\ <<>> \o q = q
  <2>1. /\ <<Empty>> # <<>> /\ Head(<<Empty>>) = Empty /\ Tail(<<Empty>>) = <<>>
        /\ Len(<<Empty>>) = 1
    OBVIOUS
  <2>2. p \in Path /\ Len(p) = Len(q) + 1
    BY <1>1, <1>2, <2>1, SlashPaths, ConcatProperties DEF Path
  <2>3. p # <<>> /\ Head(p) = Head(<<Empty>>) /\ Tail(p) = Tail(<<Empty>>) \o q
    BY <1>1, <1>2, <2>1, SlashPaths, PathConcatParts
  <2>4. <<>> \o q = q
    BY <1>1, ConcatEmptySeq DEF Path
  <2> QED
    BY <2>1, <2>2, <2>3, <2>4
<1>4. <<>> \in Path /\ cleanElement(TRUE, <<>>, Empty) = <<>>
  BY DEF Path, cleanElement
<1>5. Scan(Path, Element, CleanStep(TRUE), <<>>, p) =
      Scan(Path, Element, CleanStep(TRUE), cleanElement(TRUE, <<>>, Head(p)), Tail(p))
  BY <1>3, <1>4, CleanNext
<1>6. Scan(Path, Element, CleanStep(TRUE), <<>>, q) = <<>> \o q
  BY <1>1, <1>4, CleanPlain
<1>7. CleanFrom(TRUE, p) = q
  BY <1>3, <1>4, <1>5, <1>6 DEF CleanFrom, CleanStep
<1>8. ~hasDotDotSegment(q)
  <2>1. \A i \in 1 .. Len(q) : q[i] # DotDot
    BY <1>1, ElementOfSeq DEF Plainly
  <2>2. DOMAIN q = 1 .. Len(q)
    BY <1>1, LenProperties DEF Path
  <2> QED
    BY <2>1, <2>2 DEF hasDotDotSegment, ToSet
<1>9. Len(p) - 1 <= MaxGitPathSegments
  BY <1>1, <1>3
<1> QED
  BY <1>1, <1>2, <1>3, <1>7, <1>8, <1>9 DEF sanitizeGitPathInfo

LEMMA PathSubSeq ==
    ASSUME NEW p \in Path, NEW m \in Nat, NEW n \in Nat, m >= 1, m <= n + 1, n <= Len(p)
    PROVE  /\ SubSeq(p, m, n) \in Path /\ Len(SubSeq(p, m, n)) = n - m + 1
           /\ \A i \in 1 .. n - m + 1 : SubSeq(p, m, n)[i] = p[m + i - 1]
BY SubSeqEntries DEF Path

(* Its address is routed to git, which is passed the path. *)
LEMMA ClientPathRouted ==
    ASSUME NEW q, ClientPath(q),
           NEW pre \in Path, Len(pre) >= 2, NEW url, url = Front(pre) \o q
    PROVE  isGitRequest(pre, url) /\ PathInfo(pre, url) = <<Empty>> \o q
<1>1. PICK b, n, k : b = Front(pre) /\ n = Len(pre) /\ k = Len(q)
  OBVIOUS
<1>2. /\ q \in Path /\ k \in Nat /\ k >= 1 /\ Len(q) = k
      /\ HasGit(q[1]) /\ q[1] # DotGit
  BY <1>1, LenProperties, EmptySeq DEF ClientPath, Path
<1>3. n \in Nat /\ n >= 2 /\ pre # <<>>
  BY <1>1, LenProperties, EmptySeq DEF Path
<1>4. b \in Path /\ Len(b) = n - 1
  <2>1. \A i \in 1 .. n - 1 : pre[i] \in Element
    BY <1>1, <1>3, ElementOfSeq DEF Path
  <2>2. /\ SubSeq(pre, 1, n - 1) \in Path /\ Len(SubSeq(pre, 1, n - 1)) = n - 1
    BY <1>1, <1>3, <2>1, SubSeqProperties DEF Path
  <2> QED
    BY <1>1, <2>2 DEF Front
<1>5. url = b \o q
  BY <1>1, Zenon
<1>6. /\ url \in Path /\ Len(url) = n - 1 + k
      /\ \A i \in 1 .. n - 1 + k : url[i] = IF i <= n - 1 THEN b[i] ELSE q[i - (n - 1)]
  <2>1. /\ b \o q \in Path /\ Len(b \o q) = Len(b) + Len(q)
        /\ \A i \in 1 .. Len(b) + Len(q) :
              (b \o q)[i] = IF i <= Len(b) THEN b[i] ELSE q[i - Len(b)]
    BY <1>2, <1>4, ConcatProperties, Zenon DEF Path
  <2> QED
    BY <1>2, <1>4, <1>5, <2>1
<1>7. SubSeq(url, 1, n - 1) = b
  <2>1. n - 1 \in 1 .. Len(b) /\ 1 \in 1 .. Len(b)
    BY <1>3, <1>4
  <2>2. SubSeq(b \o q, 1, n - 1) = SubSeq(b, 1, n - 1)
    BY <1>2, <1>4, <2>1, SubSeqOfConcat1 DEF Path
  <2>3. SubSeq(b, 1, Len(b)) = b
    BY <1>4, SubSeqFull DEF Path
  <2> QED
    BY <1>4, <1>5, <2>2, <2>3
<1>8. SubSeq(url, n, Len(url)) = q
  <2>1. PICK l : l = Len(url)
    OBVIOUS
  <2>2. l = n - 1 + k /\ l \in Nat
    BY <1>2, <1>3, <1>6, <2>1
  <2>4. PICK s : s = SubSeq(url, n, l)
    OBVIOUS
  <2>5. s \in Path /\ Len(s) = k /\ \A i \in 1 .. k : s[i] = url[n + i - 1]
    <3>1. n \in Int /\ l \in Int /\ n <= l /\ l - n + 1 = k
      BY <1>2, <1>3, <2>2
    <3>2. /\ SubSeq(url, n, l) \in Path /\ Len(SubSeq(url, n, l)) = l - n + 1
          /\ \A i \in 1 .. l - n + 1 : SubSeq(url, n, l)[i] = url[n + i - 1]
      <4>1. url \in Path /\ n \in Nat /\ l \in Nat /\ n >= 1 /\ n <= l + 1 /\ l <= Len(url)
        BY <1>3, <1>6, <2>1, <2>2, <3>1
      <4> QED
        BY <4>1, PathSubSeq
    <3> QED
      BY <2>4, <3>1, <3>2
  <2>6. \A i \in 1 .. k : s[i] = q[i]
    <3>1. ASSUME NEW i \in 1 .. k PROVE url[n + i - 1] = q[i]
      <4>1. PICK j : j = n + i - 1
        OBVIOUS
      <4>2. j \in 1 .. n - 1 + k /\ ~(j <= n - 1) /\ j - (n - 1) = i
        BY <1>2, <1>3, <4>1
      <4>3. url[j] = q[j - (n - 1)]
        BY <1>6, <4>2
      <4> QED
        BY <4>1, <4>2, <4>3
    <3> QED
      BY <2>5, <3>1
  <2>7. s = q
    BY <1>2, <2>5, <2>6, SeqEqual DEF Path
  <2> QED
    BY <2>1, <2>4, <2>7
<1>9. isGitRequest(pre, url)
  <2>1. pre = <<Empty, Empty>> => n = 2
    BY <1>1
  <2>2. url[n] = q[1] /\ n <= Len(url)
    BY <1>2, <1>3, <1>6
  <2> QED
    BY <1>1, <1>2, <1>7, <2>1, <2>2 DEF isGitRequest
<1>10. PathInfo(pre, url) = <<Empty>> \o q
  BY <1>1, <1>8 DEF PathInfo
<1> QED
  BY <1>9, <1>10

-----------------------------------------------------------------------------
(* From a go-import page to the fetch of what it advertises.               *)

(* The path below the prefix a client fetches a repository from. *)
FetchPath(e) == <<AddGit(e), <<"git-upload-pack", 0>>>>

LEMMA FetchPathAsked ==
    ASSUME NEW e \in Element, validProjectName(e)
    PROVE  /\ ClientPath(FetchPath(e)) /\ FetchPath(e) \in Path
           /\ Len(FetchPath(e)) = 2 /\ FetchPath(e)[1] = AddGit(e)
<1>1. e[1] \in STRING /\ e[2] \in Nat /\ e[2] + 1 > 0
  BY DEF Element
<1>2. PICK a : a = AddGit(e)
  OBVIOUS
<1>3. a = <<e[1], e[2] + 1>> /\ e[1] # ""
  BY <1>1, <1>2 DEF AddGit, validProjectName
<1>4. a \in Element /\ a \notin {Empty, Dot, DotDot} /\ HasGit(a) /\ a # DotGit
  <2>1. a[1] = e[1] /\ a[2] = e[2] + 1
    BY <1>3
  <2>2. a \in Element /\ HasGit(a)
    <3>1. \A x \in STRING, n \in Nat : <<x, n>> \in Element
      BY DEF Element
    <3>2. PICK x \in STRING, n \in Nat : x = e[1] /\ n = e[2] + 1
      BY <1>1
    <3> QED
      BY <1>1, <1>3, <2>1, <3>1, <3>2 DEF HasGit
  <2>3. a # DotGit
    BY <1>3, <2>1 DEF DotGit
  <2>4. Empty[2] = 0 /\ Dot[2] = 0 /\ DotDot[2] = 0
    BY DEF Empty, Dot, DotDot
  <2>5. a \notin {Empty, Dot, DotDot}
    BY <1>1, <2>1, <2>4
  <2> QED
    BY <2>2, <2>3, <2>5
<1>5. PICK u : u = <<"git-upload-pack", 0>>
  OBVIOUS
<1>6. u \in Element /\ u \notin {Empty, Dot, DotDot}
  BY <1>5, LiteralsAreStrings DEF Element, Empty, Dot, DotDot
<1>7. <<a, u>> \in Plainly /\ <<a, u>> \in Path
  BY <1>4, <1>6 DEF Plainly, Path
<1>8. /\ Head(<<a, u>>) = a /\ <<a, u>> # <<>> /\ Len(<<a, u>>) = 2
      /\ 2 <= MaxGitPathSegments
  BY PathLimits
<1>9. ClientPath(<<a, u>>)
  BY <1>4, <1>7, <1>8 DEF ClientPath
<1> QED
  BY <1>2, <1>5, <1>7, <1>9 DEF FetchPath

(* A repository that the go-import check finds is also served: the two     *)
(* resolve its path from different places, and the walk finds nothing      *)
(* below it that leads elsewhere.                                          *)
LEMMA FoundIsServed ==
    ASSUME NEW t, IsTree(t), NEW e \in Element, validProjectName(e), repoExists(t, e),
           Below(t, FetchPath(e), 2).is = "notexist"
    PROVE  repoWithinRoot(t, FetchPath(e))
<1>1. PICK q, h : q = FetchPath(e) /\ h = <<AddGit(e)>>
  OBVIOUS
<1>2. /\ q \in Path /\ Len(q) = 2 /\ q[1] = AddGit(e)
  BY <1>1, FetchPathAsked
<1>3. AddGit(e) \in Element
  BY <1>2, ElementOfSeq DEF Path
<1>4. h \in Path /\ h # <<>> /\ Len(h) = 1
  BY <1>1, <1>3 DEF Path
<1>5. SubSeq(h, 1, 1) = h /\ SubSeq(q, 1, 1) = h
  <2>1. SubSeq(h, 1, 1) = h
    BY <1>4, SubSeqFull DEF Path
  <2>2. SubSeq(q, 1, 1) = h
    <3>1. \A i \in 1 .. 1 : q[i] \in Element
      BY <1>2, ElementOfSeq DEF Path
    <3>2. /\ SubSeq(q, 1, 1) \in Path /\ Len(SubSeq(q, 1, 1)) = 1
          /\ SubSeq(q, 1, 1)[1] = q[1]
      BY <1>2, <3>1, SubSeqProperties DEF Path
    <3>3. h[1] = q[1]
      BY <1>1, <1>2
    <3>4. \A i \in 1 .. 1 : SubSeq(q, 1, 1)[i] = h[i]
      BY <3>2, <3>3
    <3> QED
      BY <1>4, <3>2, <3>4, SeqEqual DEF Path
  <2> QED
    BY <2>1, <2>2
<1>6. /\ EvalSymlinks(t, ReposFolder \o h).is = "ok" /\ repoWithinRoot(t, h)
      /\ Root(t).is = "ok"
  BY <1>1 DEF repoExists, IsDirectory, repoWithinRoot
<1>7. Below(t, q, 1).is = "ok" /\ Below(t, h, 1) = Below(t, q, 1)
  BY <1>4, <1>5, <1>6, ResolvedAlike DEF Below
<1>8. containedIn(Root(t).path, Below(t, q, 1).path)
  <2>1. 1 \in 0 .. Len(h) /\ \A m \in 1 + 1 .. Len(h) : Below(t, h, m).is = "notexist"
    BY <1>4
  <2>2. \/ Below(t, h, 1).is = "notexist"
        \/ /\ Below(t, h, 1).is = "ok"
           /\ containedIn(Root(t).path, Below(t, h, 1).path)
    BY <1>6, <2>1 DEF repoWithinRoot
  <2> QED
    BY <1>7, <2>2
<1>9. ASSUME NEW n \in 0 .. Len(q),
             \A m \in n + 1 .. Len(q) : Below(t, q, m).is = "notexist"
      PROVE  \/ Below(t, q, n).is = "notexist"
             \/ /\ Below(t, q, n).is = "ok"
                /\ containedIn(Root(t).path, Below(t, q, n).path)
  <2>1. n = 0 \/ n = 1 \/ n = 2
    BY <1>2
  <2>2. n # 0
    BY <1>2, <1>7, <1>9
  <2> QED
    BY <1>1, <1>7, <1>8, <2>1, <2>2
<1> QED
  BY <1>1, <1>6, <1>9 DEF repoWithinRoot

(* What the page advertised. *)
PageInv ==
    did = "page" => /\ validProjectName(request.path[2])
                    /\ repoExists(tree, request.path[2])
                    /\ request.over # "ssh"

THEOREM StepPage == GateInv /\ PageInv /\ [Next]_vars => PageInv'
<1> SUFFICES ASSUME GateInv, PageInv, [Next]_vars PROVE PageInv'
  OBVIOUS
<1> USE DEF GateInv, StageInv, PageInv, HttpStages, SshStages, input
<1>1. CASE Connect
  BY <1>1 DEF Connect, Go
<1>2. CASE Route
  BY <1>2 DEF Route, Go
<1>3. CASE Sanitize
  BY <1>3 DEF Sanitize
<1>4. CASE ResolveRoot
  BY <1>4 DEF ResolveRoot
<1>5. CASE Walk
  BY <1>5 DEF Walk, Go
<1>6. CASE Gate
  BY <1>6 DEF Gate, Go
<1>7. CASE HttpBackend
  BY <1>7 DEF HttpBackend, Offered
<1>8. CASE ServeGoImport
  BY <1>8 DEF ServeGoImport, Go
<1>9. CASE Parse
  BY <1>9 DEF Parse, Go
<1>10. CASE Locate
  BY <1>10 DEF Locate
<1>11. CASE RunGit
  BY <1>11 DEF RunGit, Grants
<1>12. CASE UNCHANGED vars
  BY <1>12 DEF vars
<1> QED
  BY <1>1, <1>2, <1>3, <1>4, <1>5, <1>6, <1>7, <1>8, <1>9, <1>10, <1>11, <1>12
     DEF Next, Answered

LEMMA PageIsServed == RequestInv /\ PageInv => AdvertisedIsServed
<1> SUFFICES ASSUME RequestInv, PageInv, did = "page" PROVE AdvertisedIsServed
  BY DEF AdvertisedIsServed
<1>1. PICK e, pre, url : /\ e = request.path[2] /\ pre = HttpPrefix(options)
                         /\ url = FetchUrl(request.path[2])
  OBVIOUS
<1>2. IsTree(tree) /\ options.prefix \in Path \ {<<>>} /\ request.path \in Path
      /\ Len(request.path) >= 2
  BY Inputs DEF PageInv, RequestInv, LoopInv
<1>3. e \in Element /\ validProjectName(e) /\ repoExists(tree, e)
  BY <1>1, <1>2, ElementOfSeq, LenProperties DEF PageInv, Path
<1>4. pre \in Path /\ Len(pre) >= 2
  BY <1>1, <1>2, PrefixPath
<1>5. url = Front(pre) \o FetchPath(e)
  BY <1>1 DEF FetchUrl, FetchPath
<1>6. isGitRequest(pre, url) /\ PathInfo(pre, url) = <<Empty>> \o FetchPath(e)
  BY <1>3, <1>4, <1>5, FetchPathAsked, ClientPathRouted
<1>7. sanitizeGitPathInfo(PathInfo(pre, url)) = FetchPath(e)
  BY <1>3, <1>6, FetchPathAsked, ClientPathClean
<1>8. FetchPath(e) # <<>>
  BY <1>3, FetchPathAsked DEF ClientPath
<1>9. Below(tree, FetchPath(e), 2).is = "notexist" => repoWithinRoot(tree, FetchPath(e))
  BY <1>2, <1>3, FoundIsServed
<1> QED
  BY <1>1, <1>6, <1>7, <1>8, <1>9 DEF AdvertisedIsServed

(* The repository a go-import page advertises is fetched from the URL the  *)
(* page gives, on every file system.                                       *)
THEOREM AdvertisedIsServedCorrect == Spec => []AdvertisedIsServed
<1>1. Init => PageInv
  BY DEF Init, PageInv
<1>2. RequestInv => GateInv
  BY DEF RequestInv
<1> QED
  BY InitRequest, StepRequest, StepPage, PageIsServed, <1>1, <1>2, PTL DEF Spec

-----------------------------------------------------------------------------
(* What the command line of an SSH request says.                           *)

SaysCommand(op) ==
    /\ op \in {"fetch", "push"}
    /\ \E w \in Words[op] : Said(request.line) = w \o Said(request.argument)

CommandInv ==
    /\ pc \in {"locate", "run"} => SaysCommand(command.service)
    /\ pc = "done" /\ request.over = "ssh" => SaysCommand(did)

THEOREM StepCommand == RequestInv /\ CommandInv /\ [Next]_vars => CommandInv'
<1> SUFFICES ASSUME RequestInv, CommandInv, [Next]_vars PROVE CommandInv'
  OBVIOUS
<1>0. /\ pc \in HttpStages => request.over # "ssh"
      /\ FromFamily
  BY DEF RequestInv, GateInv, StageInv, LoopInv
<1> USE DEF CommandInv, HttpStages, input
<1>1. CASE Connect
  BY <1>1 DEF Connect, Go
<1>2. CASE Route
  BY <1>2 DEF Route, Go
<1>3. CASE Sanitize
  <2>1. pc' \in {"refused", "resolve"}
    BY <1>3 DEF Sanitize
  <2> QED
    BY <2>1
<1>4. CASE ResolveRoot
  BY <1>4 DEF ResolveRoot
<1>5. CASE Walk
  BY <1>5 DEF Walk, Go
<1>6. CASE Gate
  BY <1>6 DEF Gate, Go
<1>7. CASE HttpBackend
  BY <1>0, <1>7 DEF HttpBackend
<1>8. CASE ServeGoImport
  BY <1>0, <1>8 DEF ServeGoImport, Go
<1>9. CASE Parse
  <2>1. PICK parsed : parsed = parseGitSSHCommand(request.line, Allowed(options))
    OBVIOUS
  <2>2. request' = request /\ pc' \in {"locate", "refused"}
    BY <1>9 DEF Parse, Go
  <2>3. CASE pc' = "locate"
    <3>1. /\ parsed # Refused /\ TrimSpace(parsed.repo) = request.argument
          /\ command'.service = parsed.service
      BY <1>9, <2>1, <2>3 DEF Parse, Go, NoCommand
    <3>2. request.line \in Text
      BY <1>0, Inputs
    <3>3. \E op \in {"fetch", "push"} : \E w \in Words[op] :
             /\ parsed.service = op
             /\ Said(request.line) = w \o Said(TrimSpace(parsed.repo))
      BY <2>1, <3>1, <3>2, ParsedSays
    <3> QED
      BY <2>2, <2>3, <3>1, <3>3 DEF SaysCommand
  <2>4. CASE pc' = "refused"
    BY <2>4
  <2> QED
    BY <2>2, <2>3, <2>4
<1>10. CASE Locate
  <2>1. pc = "locate" /\ pc' \in {"run", "refused"} /\ UNCHANGED <<input, command, did>>
    BY <1>10 DEF Locate
  <2> QED
    BY <2>1 DEF SaysCommand
<1>11. CASE RunGit
  BY <1>11 DEF RunGit, SaysCommand
<1>12. CASE UNCHANGED vars
  BY <1>12 DEF vars, SaysCommand
<1> QED
  BY <1>1, <1>2, <1>3, <1>4, <1>5, <1>6, <1>7, <1>8, <1>9, <1>10, <1>11, <1>12
     DEF Next, Answered

(* Of the command lines of any length, those are accepted that say one of  *)
(* the services and the argument the path is made from.                    *)
THEOREM LineIsCommandCorrect == Spec => []LineIsCommand
<1>1. Init => CommandInv
  BY DEF Init, CommandInv
<1>2. CommandInv => LineIsCommand
  <2> SUFFICES ASSUME CommandInv, pc = "done", request.over = "ssh"
               PROVE  LineIsCommand
    BY DEF LineIsCommand
  <2>1. CASE did = "fetch"
    BY <2>1 DEF CommandInv, SaysCommand, Words, LineIsCommand
  <2>2. CASE did = "push"
    BY <2>2 DEF CommandInv, SaysCommand, Words, LineIsCommand
  <2> QED
    BY <2>1, <2>2 DEF CommandInv, SaysCommand
<1> QED
  BY InitRequest, StepRequest, StepCommand, <1>1, <1>2, PTL DEF Spec

-----------------------------------------------------------------------------
(* What git clients ask for is done.                                       *)

(* A program that accepts its options listens where they grant a service,  *)
(* and has what the service needs.                                         *)
LEMMA AcceptedListens ==
    ASSUME NEW o, IsOptions(o),
           IF o.program = "simple-git-server" THEN MainAccepts(o) ELSE SshMainAccepts(o),
           NEW over \in {"http", "https", "ssh"}, NEW op \in {"fetch", "push"},
           op \in Grants(o, over)
    PROVE  /\ over \in Listening(o)
           /\ over = "ssh" => op \in Allowed(o)
           /\ over # "ssh" /\ op = "push" =>
                  On(o, {"http-write"}) /\ Has(o, {"http-write-binary"})
<1>1. /\ op = "fetch" => ReadSwitch[over] \in o.on
      /\ op = "push" /\ over = "ssh" => "ssh-write" \in o.on
      /\ op = "push" /\ over # "ssh" =>
             ReadSwitch[over] \in o.on /\ "http-write" \in o.on
  BY DEF Grants
<1>2. CASE o.program = "simple-git-server"
  <2>1. MainAccepts(o)
    BY <1>2
  <2>2. On(o, {"ssh-read"}) => sshReadWriteArgs(o) \in SshServers(o)
    BY <1>2, <2>1 DEF SshServers, MainAccepts, buildConfig, SshMainAccepts, sshReadWriteArgs,
                      On, Has, SshSwitches, Limits
  <2>3. HttpServes(o)
    BY <1>2, <2>1, <2>2 DEF HttpServes
  <2>4. CASE over # "ssh"
    <3>1. over \in Listening(o)
      BY <1>1, <2>3, <2>4 DEF Listening
    <3> QED
      BY <1>1, <2>1, <2>4, <3>1 DEF MainAccepts, On
  <2>5. CASE over = "ssh"
    <3>1. On(o, {"ssh-read"})
      BY <1>1, <2>1, <2>5 DEF MainAccepts, buildConfig, On, ReadSwitch
    <3>2. op \in Allowed(o)
      BY <1>1, <2>2, <2>5, <3>1 DEF Allowed, On, sshReadWriteArgs, SshSwitches, ReadSwitch
    <3> QED
      BY <2>2, <2>5, <3>1, <3>2 DEF Listening
  <2> QED
    BY <2>4, <2>5
<1>3. CASE o.program = "ssh-read-write"
  <2>1. SshMainAccepts(o) /\ o \in SshServers(o) /\ o.on \subseteq SshSwitches
    BY <1>3 DEF SshServers, IsOptions
  <2>2. over = "ssh"
    BY <1>1, <2>1 DEF ReadSwitch, SshSwitches
  <2>3. op \in Allowed(o)
    BY <1>1, <2>1, <2>2 DEF Allowed, On, ReadSwitch
  <2> QED
    BY <2>1, <2>2, <2>3 DEF Listening
<1> QED
  BY <1>2, <1>3 DEF IsOptions

(* The last two elements of a sequence. *)
LEMMA SuffixOfTwo ==
    ASSUME NEW B, NEW s \in Seq(B), Len(s) = 2, NEW r \in Seq(B), Len(r) >= 2
    PROVE  IsSuffix(s, r) <=> s[1] = r[Len(r) - 1] /\ s[2] = r[Len(r)]
  <1>1. ASSUME NEW t \in Seq(B), Len(t) >= 2
        PROVE  /\ Reverse(t) \in Seq(B) /\ Len(Reverse(t)) = Len(t)
               /\ Reverse(t)[1] = t[Len(t)] /\ Reverse(t)[2] = t[Len(t) - 1]
    <2>1. PICK n \in Nat : n = Len(t)
      BY LenProperties
    <2>2. Reverse(t) = [i \in 1 .. n |-> t[(n - i) + 1]]
      BY <2>1 DEF Reverse
    <2>3. \A i \in 1 .. n : t[(n - i) + 1] \in B
      <3>1. \A i \in 1 .. n : (n - i) + 1 \in 1 .. n
        BY <2>1
      <3> QED
        BY <2>1, <3>1, ElementOfSeq
    <2>4. Reverse(t) \in Seq(B) /\ Len(Reverse(t)) = n
      BY <2>1, <2>2, <2>3
    <2>5. 1 \in 1 .. n /\ 2 \in 1 .. n /\ (n - 1) + 1 = n /\ (n - 2) + 1 = n - 1
      BY <1>1, <2>1
    <2> QED
      BY <2>1, <2>2, <2>4, <2>5
  <1>2. PICK u, v : u = Reverse(s) /\ v = Reverse(r)
    OBVIOUS
  <1>3. /\ u \in Seq(B) /\ Len(u) = 2 /\ u[1] = s[2] /\ u[2] = s[1]
        /\ v \in Seq(B) /\ Len(v) = Len(r)
        /\ v[1] = r[Len(r)] /\ v[2] = r[Len(r) - 1]
    <2>0. Len(s) >= 2
      OBVIOUS
    <2>1. /\ Reverse(s) \in Seq(B) /\ Len(Reverse(s)) = Len(s)
          /\ Reverse(s)[1] = s[Len(s)] /\ Reverse(s)[2] = s[Len(s) - 1]
      BY <1>1, <2>0, Zenon
    <2>2. /\ Reverse(r) \in Seq(B) /\ Len(Reverse(r)) = Len(r)
          /\ Reverse(r)[1] = r[Len(r)] /\ Reverse(r)[2] = r[Len(r) - 1]
      BY <1>1
    <2>3. Len(s) - 1 = 1
      OBVIOUS
    <2> QED
      BY <1>2, <2>1, <2>2, <2>3
  <1>4. PICK a, b : a = SubSeq(u, 1, 2) /\ b = SubSeq(v, 1, 2)
    OBVIOUS
  <1>5. /\ a \in Seq(B) /\ b \in Seq(B)
        /\ Len(a) = 2 /\ a[1] = u[1] /\ a[2] = u[2]
        /\ Len(b) = 2 /\ b[1] = v[1] /\ b[2] = v[2]
    <2>1. \A w \in Seq(B) : Len(w) >= 2 =>
              SubSeq(w, 1, 2) \in Seq(B) /\ Len(SubSeq(w, 1, 2)) = 2 /\ SubSeq(w, 1, 2)[1] = w[1] /\ SubSeq(w, 1, 2)[2] = w[2]
      BY SubSeqEntries
    <2>2. Len(u) >= 2 /\ Len(v) >= 2
      BY <1>3
    <2> QED
      BY <1>3, <1>4, <2>1, <2>2, Zenon
  <1>6. a = b <=> a[1] = b[1] /\ a[2] = b[2]
    <2>1. ASSUME a[1] = b[1], a[2] = b[2] PROVE a = b
      <3>1. \A i \in 1 .. 2 : i = 1 \/ i = 2
        OBVIOUS
      <3>2. \A i \in 1 .. 2 : a[i] = b[i]
        BY <2>1, <3>1
      <3> QED
        BY <1>5, <3>2, SeqEqual
    <2> QED
      BY <2>1
  <1>7. IsSuffix(s, r) <=> a = b
    BY <1>2, <1>3, <1>4 DEF IsSuffix, IsPrefix
  <1> QED
    BY <1>3, <1>5, <1>6, <1>7

(* The path below the prefix in a client's request: it names one           *)
(* repository and one service.                                             *)
Asked(op, req, pre, repo, r) ==
    /\ ClientPath(r) /\ req.path = Front(pre) \o r /\ Head(r) = repo
    /\ RepositoryOf(r) = <<repo>>
    /\ NamedServices(req, r) = {Offered[op]}
    /\ isReceivePackRequest(req, r) <=> op = "push"

LEMMA PathEntries ==
    ASSUME NEW a \in Path, NEW b \in Path
    PROVE  /\ Len(a \o b) = Len(a) + Len(b)
           /\ \A i \in 1 .. Len(a) : (a \o b)[i] = a[i]
           /\ \A i \in 1 .. Len(b) : (a \o b)[Len(a) + i] = b[i]
BY ConcatEntries DEF Path

LEMMA PathSuffix ==
    ASSUME NEW s \in Path, Len(s) = 2, NEW r \in Path, Len(r) >= 2
    PROVE  IsSuffix(s, r) <=> s[1] = r[Len(r) - 1] /\ s[2] = r[Len(r)]
BY SuffixOfTwo DEF Path

LEMMA FirstElement ==
    ASSUME NEW p \in Path, NEW e \in Element, e = p[1], Len(p) >= 1
    PROVE  SubSeq(p, 1, 1) = <<e>>
<1>1. PICK s, h : s = SubSeq(p, 1, 1) /\ h = <<e>>
  OBVIOUS
<1>2. \A i \in 1 .. 1 : i = 1
  OBVIOUS
<1>3. s \in Path /\ Len(s) = 1 /\ s[1] = e
  <2>1. 1 \in Nat /\ 1 >= 1 /\ 1 <= 1 + 1 /\ 1 - 1 + 1 = 1 /\ 1 + 1 - 1 = 1 /\ 1 \in 1 .. 1
    OBVIOUS
  <2>2. /\ SubSeq(p, 1, 1) \in Path /\ Len(SubSeq(p, 1, 1)) = 1 - 1 + 1
        /\ \A i \in 1 .. 1 - 1 + 1 : SubSeq(p, 1, 1)[i] = p[1 + i - 1]
    BY <2>1, PathSubSeq
  <2> QED
    BY <1>1, <2>1, <2>2
<1>4. h \in Path /\ Len(h) = 1 /\ h[1] = e
  BY <1>1, Single DEF Path
<1>5. \A i \in 1 .. 1 : s[i] = h[i]
  BY <1>2, <1>3, <1>4
<1> QED
  BY <1>1, <1>3, <1>4, <1>5, SeqEqual DEF Path

LEMMA ShortClientPath ==
    ASSUME NEW r \in Path, r \in Plainly, Len(r) \in {2, 3},
           NEW repo, repo = r[1], HasGit(repo), repo # DotGit
    PROVE  ClientPath(r) /\ Head(r) = repo
<1>1. Len(r) <= MaxGitPathSegments
  <2>1. PICK n \in {2, 3} : n = Len(r)
    OBVIOUS
  <2>2. n <= MaxGitPathSegments
    BY PathLimits
  <2> QED
    BY <2>1, <2>2
<1>2. r # <<>> /\ Head(r) = r[1]
  BY EmptySeq DEF Path
<1> QED
  BY <1>1, <1>2 DEF ClientPath

LEMMA RepositoryElement ==
    ASSUME NEW repo \in Element, HasGit(repo)
    PROVE  repo \in Element \ {Empty, Dot, DotDot}
<1>1. Empty[2] = 0 /\ Dot[2] = 0 /\ DotDot[2] = 0
  BY DEF Empty, Dot, DotDot
<1> QED
  BY <1>1 DEF HasGit

LEMMA PlainElements ==
    ASSUME NEW x \in {"info", "refs", "git-upload-pack", "git-receive-pack"}
    PROVE  <<x, 0>> \in Element \ {Empty, Dot, DotDot}
<1>1. x \in STRING /\ x \notin {"", ".", ".."}
  BY LiteralsAreStrings
<1>2. <<x, 0>>[1] = x /\ Empty[1] = "" /\ Dot[1] = "." /\ DotDot[1] = ".."
  BY DEF Empty, Dot, DotDot
<1> QED
  BY <1>1, <1>2 DEF Element

(* A first request asks for info/refs and names the service in the query. *)
LEMMA AskedInfoRefs ==
    ASSUME NEW op \in {"fetch", "push"}, NEW req, NEW pre \in Path, Len(pre) >= 2,
           NEW repo \in Element, HasGit(repo), repo # DotGit,
           req.path = Front(pre) \o <<repo>> \o InfoRefs, req.service = <<Offered[op]>>
    PROVE  Asked(op, req, pre, repo, <<repo>> \o InfoRefs)
<1>1. PICK info, refs : info = <<"info", 0>> /\ refs = <<"refs", 0>>
  OBVIOUS
<1>2. PICK S : S = Element \ {Empty, Dot, DotDot}
  OBVIOUS
<1>3. /\ repo \in S /\ info \in S /\ refs \in S
      /\ info \in Element /\ refs \in Element /\ Plainly = Seq(S)
  BY <1>1, <1>2, RepositoryElement, PlainElements DEF Plainly
<1>4. PICK h, f, r : h = <<repo>> /\ f = InfoRefs /\ r = h \o f
  OBVIOUS
<1>5. f = <<info, refs>>
  BY <1>1, <1>4 DEF InfoRefs
<1>6. /\ h \in Path /\ f \in Path /\ h \in Plainly /\ f \in Plainly
      /\ Len(h) = 1 /\ h[1] = repo /\ Len(f) = 2 /\ f[1] = info /\ f[2] = refs
  BY <1>3, <1>4, <1>5, Single, Pair DEF Path
<1>7. /\ r \in Path /\ r \in Plainly /\ Len(r) = 3
      /\ r[1] = repo /\ r[2] = info /\ r[3] = refs
  <2>1. /\ Len(h \o f) = Len(h) + Len(f)
        /\ \A i \in 1 .. Len(h) : (h \o f)[i] = h[i]
        /\ \A i \in 1 .. Len(f) : (h \o f)[Len(h) + i] = f[i]
    BY <1>6, PathEntries
  <2>3. h \o f \in Seq(S) /\ h \o f \in Path
    BY <1>3, <1>6, ConcatProperties, PathConcat
  <2>2. 1 \in 1 .. 1 /\ 1 \in 1 .. 2 /\ 2 \in 1 .. 2 /\ 1 + 1 = 2 /\ 1 + 2 = 3
    OBVIOUS
  <2> QED
    BY <1>3, <1>4, <1>6, <2>1, <2>2, <2>3
<1>8. ClientPath(r) /\ Head(r) = repo
  BY <1>7, ShortClientPath
<1>9. req.path = Front(pre) \o r
  <2>1. Front(pre) \in Path
    BY FrontAndLast, EmptySeq DEF Path
  <2> QED
    BY <1>4, <1>6, <2>1, PathAssociative
<1>10. IsSuffix(InfoRefs, r)
  <2>1. 3 - 1 = 2
    OBVIOUS
  <2> QED
    <3>1. Len(f) = 2 /\ Len(r) >= 2
      BY <1>6, <1>7
    <3>2. IsSuffix(f, r) <=> f[1] = r[Len(r) - 1] /\ f[2] = r[Len(r)]
      BY <1>6, <1>7, <3>1, PathSuffix
    <3>3. r[Len(r) - 1] = info /\ r[Len(r)] = refs
      BY <1>7, <2>1
    <3> QED
      BY <1>4, <1>6, <3>2, <3>3
<1>11. RepositoryOf(r) = <<repo>>
  <2>1. SubSeq(r, 1, 1) = <<repo>>
    BY <1>7, FirstElement
  <2> QED
    BY <1>7, <1>10, <2>1 DEF RepositoryOf
<1>12. NamedServices(req, r) = {Offered[op]}
  BY <1>10 DEF NamedServices, ToSet
<1>13. isReceivePackRequest(req, r) <=> op = "push"
  <2>1. Last(r) # <<"git-receive-pack", 0>>
    <3>1. Last(r) = refs /\ refs[1] = "refs" /\ <<"git-receive-pack", 0>>[1] = "git-receive-pack"
      BY <1>1, <1>7 DEF Last
    <3> QED
      BY <3>1
  <2>2. req.service # <<>> /\ Head(req.service) = Offered[op]
    OBVIOUS
  <2> QED
    BY <2>1, <2>2 DEF isReceivePackRequest, Offered
<1> QED
  BY <1>4, <1>8, <1>9, <1>11, <1>12, <1>13 DEF Asked

(* The requests that follow name the service in the path. *)
LEMMA AskedService ==
    ASSUME NEW op \in {"fetch", "push"}, NEW req, NEW pre \in Path, Len(pre) >= 2,
           NEW repo \in Element, HasGit(repo), repo # DotGit,
           req.path = Front(pre) \o <<repo, <<Offered[op], 0>>>>, req.service = <<>>
    PROVE  Asked(op, req, pre, repo, <<repo, <<Offered[op], 0>>>>)
<1>1. PICK svc : svc = <<Offered[op], 0>>
  OBVIOUS
<1>2. PICK S : S = Element \ {Empty, Dot, DotDot}
  OBVIOUS
<1>3. /\ Offered[op] = IF op = "push" THEN "git-receive-pack" ELSE "git-upload-pack"
      /\ repo \in S /\ svc \in S /\ svc \in Element /\ Plainly = Seq(S)
  <2>1. Offered[op] = IF op = "push" THEN "git-receive-pack" ELSE "git-upload-pack"
    BY DEF Offered
  <2>2. PICK x \in {"info", "refs", "git-upload-pack", "git-receive-pack"} : x = Offered[op]
    BY <2>1
  <2>3. svc \in S /\ svc \in Element
    BY <1>1, <1>2, <2>2, PlainElements
  <2> QED
    BY <1>2, <2>1, <2>3, RepositoryElement DEF Plainly
<1>4. PICK r : r = <<repo, svc>>
  OBVIOUS
<1>5. r \in Path /\ r \in Plainly /\ Len(r) = 2 /\ r[1] = repo /\ r[2] = svc
  BY <1>3, <1>4, Pair DEF Path
<1>6. ClientPath(r) /\ Head(r) = repo
  BY <1>5, ShortClientPath
<1>7. ~IsSuffix(InfoRefs, r)
  <2>1. /\ InfoRefs \in Path /\ Len(InfoRefs) = 2 /\ InfoRefs[2] = <<"refs", 0>>
    <3>1. <<"info", 0>> \in Element /\ <<"refs", 0>> \in Element
      BY PlainElements
    <3> QED
      BY <3>1, Pair DEF InfoRefs, Path
  <2>2. svc[1] # "refs" /\ <<"refs", 0>>[1] = "refs"
    BY <1>1, <1>3
  <2> QED
    <3>1. Len(r) >= 2
      BY <1>5
    <3>2. IsSuffix(InfoRefs, r) => InfoRefs[2] = r[Len(r)]
      BY <1>5, <2>1, <3>1, PathSuffix
    <3> QED
      BY <1>5, <2>1, <2>2, <3>2
<1>8. RepositoryOf(r) = <<repo>> /\ Last(r) = svc
  <2>1. <<repo>> \in Path
    BY Single DEF Path
  <2>2. Append(<<repo>>, svc) = r
    BY <1>3, <1>4, AppendOne
  <2>3. Front(r) = <<repo>>
    BY <1>3, <2>1, <2>2, AppendFrontLast DEF Path
  <2> QED
    BY <1>5, <1>7, <2>3 DEF RepositoryOf, Last
<1>9. NamedServices(req, r) = {Offered[op]}
  BY <1>1, <1>7, <1>8 DEF NamedServices
<1>10. isReceivePackRequest(req, r) <=> op = "push"
  <2>1. svc[1] = Offered[op] /\ <<"git-receive-pack", 0>>[1] = "git-receive-pack"
    BY <1>1
  <2>2. svc = <<"git-receive-pack", 0>> <=> op = "push"
    BY <1>1, <1>3, <2>1
  <2> QED
    BY <1>8, <2>2 DEF isReceivePackRequest
<1> QED
  BY <1>1, <1>4, <1>6, <1>8, <1>9, <1>10 DEF Asked

(* What serveGit is passed for what a client asks for over HTTP. *)
BelowPrefix == Tail(PathInfo(HttpPrefix(options), request.path))

AskedHttp(op) ==
    /\ isGitRequest(HttpPrefix(options), request.path)
    /\ BelowPrefix = sanitizeGitPathInfo(PathInfo(HttpPrefix(options), request.path))
    /\ BelowPrefix # <<>> /\ RepositoryOf(BelowPrefix) = <<Head(BelowPrefix)>>
    /\ NamedServices(request, BelowPrefix) = {Offered[op]}
    /\ isReceivePackRequest(request, BelowPrefix) <=> op = "push"

LEMMA AsksHttp ==
    ASSUME FromFamily, request.over # "ssh", NEW op \in {"fetch", "push"}, Asks(op)
    PROVE  AskedHttp(op)
<1>1. PICK repo \in ToSet(request.path) :
          /\ HasGit(repo) /\ repo # DotGit
          /\ \/ /\ request.path = Front(HttpPrefix(options)) \o <<repo>> \o InfoRefs
                /\ request.service = <<Offered[op]>>
             \/ /\ request.path = Front(HttpPrefix(options)) \o <<repo, <<Offered[op], 0>>>>
                /\ request.service = <<>>
  BY DEF Asks
<1>2. request.path \in Path /\ options.prefix \in Path \ {<<>>}
  BY Inputs
<1>3. repo \in Element
  <2>1. PICK i \in DOMAIN request.path : repo = request.path[i]
    BY <1>1 DEF ToSet
  <2> QED
    BY <1>2, <2>1, ElementOfSeq, LenProperties DEF Path
<1>4. PICK pre, p : pre = HttpPrefix(options) /\ p = request.path
  OBVIOUS
<1>5. pre \in Path /\ Len(pre) >= 2
  BY <1>2, <1>4, PrefixPath
<1>6. PICK r : Asked(op, request, pre, repo, r)
  BY <1>1, <1>3, <1>4, <1>5, AskedInfoRefs, AskedService
<1>7. /\ ClientPath(r) /\ p = Front(pre) \o r /\ RepositoryOf(r) = <<Head(r)>> /\ r # <<>>
      /\ NamedServices(request, r) = {Offered[op]}
      /\ isReceivePackRequest(request, r) <=> op = "push"
  BY <1>4, <1>6 DEF Asked, ClientPath
<1>8. isGitRequest(pre, p) /\ PathInfo(pre, p) = <<Empty>> \o r
  BY <1>5, <1>7, ClientPathRouted
<1>9. Tail(PathInfo(pre, p)) = r /\ sanitizeGitPathInfo(PathInfo(pre, p)) = r
  BY <1>7, <1>8, ClientPathClean
<1>10. BelowPrefix = r
  BY <1>4, <1>9 DEF BelowPrefix
<1> QED
  BY <1>4, <1>7, <1>8, <1>9, <1>10 DEF AskedHttp

(* A request that is to be done, ... *)
Good(op) ==
    /\ Accepted /\ request.long = "no" /\ Asks(op)
    /\ op \in Grants(options, request.over) /\ Present

(* ... and the stages it goes through. *)
OnTrack(op) ==
    /\ pc \in IF request.over = "ssh" THEN {"start", "exec", "locate", "run", "done"}
              ELSE {"start", "route", "git", "resolve", "walk", "gate", "backend", "done"}
    /\ pc = "backend" /\ op = "push" => command.receivepack
    /\ pc \in {"locate", "run"} => command.service = op
    /\ pc = "done" => did = op

ServedInv ==
    \A op \in {"fetch", "push"} :
        /\ Good(op) => OnTrack(op)
        /\ Asks(op) /\ did = op => Present

(* What an SSH client asks for is what the command line is read as. *)
LEMMA AsksSsh ==
    ASSUME FromFamily, request.over = "ssh", NEW op \in {"fetch", "push"}, Asks(op),
           op \in Allowed(options),
           NEW parsed, parsed = parseGitSSHCommand(request.line, Allowed(options))
    PROVE  /\ parsed # Refused /\ parsed.service = op
           /\ TrimSpace(parsed.repo) = request.argument
<1>1. /\ request.line = <<Offered[op], Blank, "'">> \o request.argument \o <<"'">>
      /\ request.argument # <<>> /\ TrimSpace(request.argument) = request.argument
      /\ \A i \in DOMAIN request.argument : request.argument[i] # "'"
  BY DEF Asks, Quotable
<1>2. request.argument \in Text
  BY Inputs
<1>3. \A i \in 1 .. Len(request.argument) : request.argument[i] # "'"
  BY <1>1, <1>2, LenProperties DEF Text
<1>4. Offered[op] = ServiceName(op)
  BY DEF Offered, ServiceName
<1>5. PICK q, arg, line, allowed :
          /\ q = "'" /\ allowed = Allowed(options)
          /\ arg = request.argument /\ line = request.line
  OBVIOUS
<1>6. parseGitSSHCommand(line, allowed) = [service |-> op, repo |-> arg]
  <2>1. InQuotes(op, q, arg, line)
    BY <1>1, <1>2, <1>3, <1>4, <1>5 DEF InQuotes, Quotes
  <2>2. parseGitSSHCommand(line, allowed) =
        IF op \in allowed THEN [service |-> op, repo |-> arg] ELSE Refused
    BY <2>1, ParsedQuoted
  <2> QED
    BY <1>5, <2>2
<1>7. parsed = [service |-> op, repo |-> arg]
  BY <1>5, <1>6
<1>8. parsed.service = op /\ parsed.repo = arg /\ Refused.service = "none"
  BY <1>7 DEF Refused
<1> QED
  BY <1>1, <1>5, <1>8

THEOREM StepServed == RequestInv /\ LocateInv /\ ServedInv /\ [Next]_vars => ServedInv'
<1> SUFFICES ASSUME RequestInv, LocateInv, ServedInv, [Next]_vars,
                    NEW op \in {"fetch", "push"}
             PROVE  /\ Good(op)' => OnTrack(op)'
                    /\ Asks(op)' /\ (did = op)' => Present'
  BY DEF ServedInv
<1>0. /\ GateInv /\ LoopInv /\ LoopInv' /\ FromFamily
      /\ Good(op) => OnTrack(op)
      /\ Asks(op) /\ did = op => Present
      /\ input' = input
  <2>1. input' = input
    BY DEF Next, vars, input, Connect, Route, Sanitize, ResolveRoot, Walk, Gate, Go,
           HttpBackend, ServeGoImport, Parse, Locate, RunGit, Answered
  <2> QED
    BY <2>1, StepLoop DEF RequestInv, LoopInv, ServedInv
<1>a. (Good(op)' <=> Good(op)) /\ (Asks(op)' <=> Asks(op)) /\ (Present' <=> Present)
  BY <1>0 DEF input, Good, Accepted, Asks, Present
<1>b. request.over # "ssh" /\ Asks(op) => AskedHttp(op)
  BY <1>0, AsksHttp
<1> USE DEF input
<1>1. CASE Connect
  <2>1. pc = "start" /\ did' = did /\ command' = command
    BY <1>1 DEF Connect, Go
  <2>2. did # op
    BY <1>0, <2>1 DEF GateInv, StageInv
  <2>3. ASSUME Good(op) PROVE OnTrack(op)'
    <3>1. IsOptions(options) /\ request.over \in {"http", "https", "ssh"}
      BY <1>0, Inputs
    <3>2. request.over \in Listening(options)
      BY <2>3, <3>1, AcceptedListens DEF Good, Accepted
    <3>3. pc' = IF request.over = "ssh" THEN "exec" ELSE "route"
      BY <1>1, <3>2 DEF Connect, Go
    <3> QED
      BY <1>0, <3>3 DEF OnTrack
  <2> QED
    BY <1>a, <2>1, <2>2, <2>3
<1>2. CASE Route
  <2>1. pc = "route" /\ did' = did /\ did # op /\ request.over # "ssh"
    BY <1>0, <1>2 DEF Route, Go, GateInv, StageInv, LoopInv
  <2>2. ASSUME Good(op) PROVE OnTrack(op)'
    <3>1. pc' = "git"
      BY <1>b, <1>2, <2>1, <2>2 DEF Route, Go, Good, AskedHttp
    <3> QED
      BY <1>0, <2>1, <3>1 DEF OnTrack
  <2> QED
    BY <1>a, <2>1, <2>2
<1>3. CASE Sanitize
  <2>1. pc = "git" /\ did' = did /\ did # op /\ request.over # "ssh"
    BY <1>0, <1>3 DEF Sanitize, GateInv, StageInv, LoopInv, HttpStages, SshStages
  <2>2. ASSUME Good(op) PROVE OnTrack(op)'
    <3>1. pc' = "resolve"
      BY <1>b, <1>3, <2>1, <2>2 DEF Sanitize, Good, AskedHttp
    <3> QED
      BY <1>0, <2>1, <3>1 DEF OnTrack
  <2> QED
    BY <1>a, <2>1, <2>2
<1>4. CASE ResolveRoot
  <2>1. pc = "resolve" /\ did' = did /\ did # op /\ request.over # "ssh"
    BY <1>0, <1>4 DEF ResolveRoot, GateInv, StageInv, LoopInv
  <2>2. ASSUME Good(op) PROVE OnTrack(op)'
    <3>1. Root(tree).is = "ok"
      BY <2>1, <2>2 DEF Good, Present, repoWithinRoot
    <3>2. pc' = "walk"
      BY <1>4, <3>1 DEF ResolveRoot
    <3> QED
      BY <1>0, <2>1, <3>2 DEF OnTrack
  <2> QED
    BY <1>a, <2>1, <2>2
<1>5. CASE Walk
  <2>1. /\ pc = "walk" /\ did' = did /\ did # op /\ request.over # "ssh"
        /\ rel' = rel /\ pc' \in {"walk", "gate", "refused"}
    BY <1>0, <1>5 DEF Walk, Go, GateInv, StageInv, LoopInv
  <2>2. ASSUME Good(op) PROVE OnTrack(op)'
    <3>1. AskedHttp(op) /\ repoWithinRoot(tree, BelowPrefix)
      BY <1>b, <2>1, <2>2 DEF Good, Present, BelowPrefix
    <3>2. rel = BelowPrefix /\ rel # <<>>
      BY <1>0, <2>1, <3>1 DEF LoopInv, AskedHttp
    <3>3. pc' # "refused"
      BY <1>0, <2>1, <3>1, <3>2 DEF LoopInv, WalkDecides
    <3> QED
      BY <1>0, <2>1, <3>3 DEF OnTrack
  <2> QED
    BY <1>a, <2>1, <2>2
<1>6. CASE Gate
  <2>1. pc = "gate" /\ did' = did /\ did # op /\ request.over # "ssh"
    BY <1>0, <1>6 DEF Gate, Go, GateInv, StageInv, LoopInv
  <2>2. ASSUME Good(op) PROVE OnTrack(op)'
    <3>1. AskedHttp(op)
      BY <1>b, <2>1, <2>2 DEF Good
    <3>2. rel = BelowPrefix
      BY <1>0, <2>1, <3>1 DEF LoopInv, AskedHttp
    <3>3. isReceivePackRequest(request, rel) <=> op = "push"
      BY <3>1, <3>2 DEF AskedHttp
    <3>4. IsOptions(options) /\ request.over \in {"http", "https", "ssh"}
      BY <1>0, Inputs
    <3>5. op = "push" => On(options, {"http-write"}) /\ Has(options, {"http-write-binary"})
      BY <2>1, <2>2, <3>4, AcceptedListens DEF Good, Accepted
    <3>6. pc' = "backend" /\ (op = "push" => command'.receivepack)
      <4>1. CASE op = "push"
        <5>1. /\ isReceivePackRequest(request, rel)
              /\ On(options, {"http-write"}) /\ Has(options, {"http-write-binary"})
          BY <3>3, <3>5, <4>1
        <5>2. pc' = "backend" /\ command' = runGitHTTPBackend
          BY <1>6, <5>1 DEF Gate
        <5> QED
          BY <5>2 DEF runGitHTTPBackend
      <4>2. CASE op # "push"
        <5>1. ~isReceivePackRequest(request, rel)
          BY <3>3, <4>2
        <5> QED
          BY <1>6, <4>2, <5>1 DEF Gate
      <4> QED
        BY <4>1, <4>2
    <3> QED
      BY <1>0, <2>1, <3>6 DEF OnTrack
  <2> QED
    BY <1>a, <2>1, <2>2
<1>7. CASE HttpBackend
  <2>1. /\ pc = "backend" /\ pc' = "done" /\ request.over # "ssh"
        /\ rel # <<>> /\ repoWithinRoot(tree, rel)
        /\ ~command.getanyfile
        /\ rel = sanitizeGitPathInfo(PathInfo(HttpPrefix(options), request.path))
    BY <1>0, <1>7 DEF HttpBackend, GateInv, StageInv, LoopInv, WalkDecides
  <2>2. SUFFICES ASSUME AskedHttp(op), rel = BelowPrefix
                 PROVE  (Good(op) => did' = op) /\ (did' = op => Present)
    <3>1. Asks(op) => AskedHttp(op) /\ rel = BelowPrefix
      BY <1>b, <2>1 DEF AskedHttp
    <3>2. (Good(op) => Asks(op)) /\ (Good(op) /\ did' = op => OnTrack(op)')
      BY <1>0, <2>1 DEF Good, OnTrack
    <3> QED
      BY <1>a, <3>1, <3>2
  <2>3. {o \in DOMAIN Offered : Offered[o] \in NamedServices(request, rel)} = {op}
    BY <2>2 DEF AskedHttp, Offered
  <2>4. RepositoryOf(rel) = <<Head(rel)>>
    BY <2>2 DEF AskedHttp
  <2>5. ASSUME Good(op) PROVE did' = op
    <3>1. IsDirectory(tree, RepositoryOf(rel)) /\ (op = "push" => command.receivepack)
      BY <1>0, <2>1, <2>2, <2>4, <2>5 DEF Good, Present, OnTrack, BelowPrefix
    <3>2. did' \in ({op} \ {o \in {"push"} : ~command.receivepack})
                   \cup {o \in {"file"} : {op} = {} /\ command.getanyfile}
      BY <1>7, <2>3, <3>1 DEF HttpBackend
    <3> QED
      BY <2>1, <3>2
  <2>6. ASSUME did' = op PROVE Present
    <3>1. IsDirectory(tree, RepositoryOf(rel))
      BY <1>7, <2>6 DEF HttpBackend
    <3> QED
      BY <2>1, <2>2, <2>4, <3>1 DEF Present, BelowPrefix
  <2> QED
    BY <2>5, <2>6
<1>8. CASE ServeGoImport
  <2>1. pc = "goimport" /\ did' # op /\ request.over # "ssh"
    BY <1>0, <1>8 DEF ServeGoImport, Go, GateInv, StageInv, HttpStages
  <2>2. ~Good(op)
    BY <1>0, <2>1 DEF OnTrack
  <2> QED
    BY <1>a, <2>1, <2>2
<1>9. CASE Parse
  <2>1. pc = "exec" /\ did' = did /\ did # op /\ request.over = "ssh"
    BY <1>0, <1>9 DEF Parse, Go, GateInv, StageInv, LoopInv
  <2>2. ASSUME Good(op) PROVE OnTrack(op)'
    <3>1. PICK parsed : parsed = parseGitSSHCommand(request.line, Allowed(options))
      OBVIOUS
    <3>2. IsOptions(options) /\ request.over \in {"http", "https", "ssh"}
      BY <1>0, Inputs
    <3>3. op \in Allowed(options)
      BY <2>1, <2>2, <3>2, AcceptedListens DEF Good, Accepted
    <3>4. /\ parsed # Refused /\ parsed.service = op
          /\ TrimSpace(parsed.repo) = request.argument
      BY <1>0, <2>1, <2>2, <3>1, <3>3, AsksSsh DEF Good
    <3>5. pc' = "locate" /\ command'.service = op
      BY <1>9, <3>1, <3>4 DEF Parse, NoCommand
    <3> QED
      BY <1>0, <2>1, <3>5 DEF OnTrack
  <2> QED
    BY <1>a, <2>1, <2>2
<1>10. CASE Locate
  <2>1. pc = "locate" /\ did' = did /\ did # op /\ request.over = "ssh" /\ command' = command
    BY <1>0, <1>10 DEF Locate, GateInv, StageInv, LoopInv, HttpStages, SshStages
  <2>2. ASSUME Good(op) PROVE OnTrack(op)'
    <3>1. pc' = "run"
      BY <1>10, <2>1, <2>2 DEF Locate, Good, Present
    <3> QED
      BY <1>0, <2>1, <2>2, <3>1 DEF OnTrack
  <2> QED
    BY <1>a, <2>1, <2>2
<1>11. CASE RunGit
  <2>1. /\ pc = "run" /\ pc' = "done" /\ did' = command.service /\ request.over = "ssh"
    BY <1>0, <1>11 DEF RunGit, LoopInv
  <2>2. Present
    BY <2>1 DEF LocateInv, Present
  <2>3. ASSUME Good(op) PROVE OnTrack(op)'
    BY <1>0, <2>1, <2>3 DEF OnTrack
  <2> QED
    BY <1>a, <2>2, <2>3
<1>12. CASE UNCHANGED vars
  BY <1>0, <1>a, <1>12 DEF vars, OnTrack
<1> QED
  BY <1>1, <1>2, <1>3, <1>4, <1>5, <1>6, <1>7, <1>8, <1>9, <1>10, <1>11, <1>12
     DEF Next, Answered

(* Once the program the operator started has accepted its options, what a  *)
(* git client asks for is done if and only if the switches grant it and    *)
(* the repository is there.                                                *)
THEOREM ClientsServedCorrect == Spec => []ClientsServed
<1>1. Init => LocateInv
  BY DEF Init, LocateInv
<1>2. Init => ServedInv
  BY DEF Init, ServedInv, OnTrack
<1>3. RequestInv /\ ServedInv => ClientsServed
  <2> SUFFICES ASSUME RequestInv, ServedInv, pc \in Ends, Accepted, request.long = "no",
                      NEW op \in {"fetch", "push"}, Asks(op)
               PROVE  did = op <=> op \in Grants(options, request.over) /\ Present
    BY DEF ClientsServed
  <2>1. SwitchesObeyed
    BY DEF RequestInv, GateInv
  <2>2. did = op => op \in Grants(options, request.over) /\ Present
    BY <2>1 DEF SwitchesObeyed, ServedInv
  <2>3. ASSUME op \in Grants(options, request.over), Present PROVE did = op
    <3>1. OnTrack(op)
      BY <2>3 DEF ServedInv, Good
    <3> QED
      BY <3>1 DEF OnTrack, Ends
  <2> QED
    BY <2>2, <2>3
<1> QED
  BY InitRequest, StepRequest, StepLocate, StepServed, <1>1, <1>2, <1>3, PTL DEF Spec
=============================================================================
