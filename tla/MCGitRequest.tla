---------------------------- MODULE MCGitRequest ----------------------------
EXTENDS GitRequest

(* Names: the folder and its real place, a directory outside it, the       *)
(* repository a.git, an entry below it, and the element of the prefix.     *)
R == <<"repos", 0>>   Real == <<"real", 0>>   O == <<"outside", 0>>
A == <<"a", 0>>       AGit == <<"a", 1>>      X == <<"info", 0>>
G == <<"git", 0>>

MCReposFolder == <<R>>

-----------------------------------------------------------------------------
(* File systems.  The folder is a directory or a link to one; in it, and   *)
(* below a repository, there is nothing, a file, a directory or a link to  *)
(* a place inside, outside, nowhere or to itself.                          *)
Dir     == [kind |-> "dir", to |-> <<>>]
File    == [kind |-> "file", to |-> <<>>]
Link(p) == [kind |-> "link", to |-> p]

Targets(self) == {<<R, DotGit>>, <<O>>, <<O, AGit>>, <<O, X>>, <<O, A>>, self}
Entries(self) == {Dir, File} \cup {Link(p) : p \in Targets(self)}

Base(linked) == IF linked THEN <<R>> :> Link(<<Real>>) @@ <<Real>> :> Dir
                ELSE <<R>> :> Dir
Outside == <<O>> :> Dir @@ <<O, AGit>> :> Dir @@ <<O, X>> :> File
           @@ <<O, AGit, X>> :> Link(<<R, DotGit>>)

(* A repository with an entry named as a service, which leads outside.     *)
Shadowed == Outside @@ <<R>> :> Dir @@ <<R, AGit>> :> Dir
            @@ <<R, AGit, <<"git-upload-pack", 0>>>> :> Link(<<O>>)

Trees ==
    LET files(linked, repo, below) ==
          LET top == IF linked THEN <<Real>> ELSE <<R>>
          IN  Base(linked) @@ Outside @@ (top \o <<DotGit>>) :> Dir
              @@ (IF repo = {} THEN <<>> ELSE (top \o <<AGit>>) :> CHOOSE e \in repo : TRUE)
              @@ (IF below = {} THEN <<>> ELSE (top \o <<AGit, X>>) :> CHOOSE e \in below : TRUE)
        maybe(S) == {{}} \cup {{e} : e \in S}
    IN  {Outside, Shadowed} \cup
        {files(l, {Dir}, b) : l \in BOOLEAN, b \in maybe(Entries(<<R, AGit, X>>))}
        \cup {files(l, r, {}) : l \in BOOLEAN, r \in maybe(Entries(<<R, AGit>>))}

Plain == <<R>> :> Dir @@ <<R, AGit>> :> Dir
Bare  == <<R>> :> Dir

-----------------------------------------------------------------------------
(* Options and requests.                                                   *)
Options(program, on, lacks, prefix) ==
    [program |-> program, on |-> on, lacks |-> lacks, prefix |-> prefix]
Server(on, prefix) == Options("simple-git-server", on, {}, prefix)
Slash    == <<Empty, Empty>>
Mounted  == <<Empty, G, Empty>>
GivenPrefixes == {<<Empty>>, Slash, Mounted, <<G>>, <<Empty, G>>, <<G, Empty>>}

Http(over, path, service, long) ==
    [over |-> over, path |-> path, service |-> service, long |-> long,
     line |-> <<>>, argument |-> <<>>]
Ssh(path, line, argument) ==
    [over |-> "ssh", path |-> path, service |-> <<>>, long |-> "no",
     line |-> line, argument |-> argument]
Quoted(op, argument) == <<Offered[op], Blank, "'">> \o argument \o <<"'">>

Family(opts, trees, reqs) == [options |-> opts, trees |-> trees, requests |-> reqs]

(* Every path of up to three elements, on every file system, and paths too *)
(* deep for the limit.                                                     *)
Elements == {Empty, Dot, DotDot, DotGit, A, AGit, X}
Paths == UNION {[1..n -> Elements] : n \in 1..3}
HttpPaths == {<<Empty>> \o s : s \in Paths} \cup {<<Empty, G>> \o s : s \in Paths}
PathCases ==
    {Family({Server({"http-read", "go-import"}, p) : p \in {Slash, Mounted}}, Trees,
          {Http("http", p, <<>>, "no") : p \in HttpPaths}),
     Family({Server({"http-read"}, p) : p \in {Slash, Mounted}}, {Plain},
            {Http("http", b \o s, <<>>, "no") : b \in {<<Empty>>, <<Empty, G>>},
                s \in [1..4 -> {Dot, DotDot, AGit, X}]}),
     Family({Server({"http-read", "ssh-read"}, Slash)}, Trees,
            {Ssh(p, Quoted("fetch", <<"repo">>), <<"repo">>) : p \in Paths})}

(* Every set of switches, with everything they need or one thing missing,  *)
(* and what git clients send.                                              *)
ClientRequests ==
    LET Base2 == {Front(HttpPrefix([prefix |-> p])) : p \in {Slash, Mounted}} IN
    {Http(o, b \o <<AGit>> \o InfoRefs, <<Offered[op]>>, l) :
        o \in {"http", "https"}, b \in Base2, op \in DOMAIN Offered, l \in {"no", "env"}}
    \cup {Http(o, b \o <<AGit, <<Offered[op], 0>>>>, <<>>, l) :
        o \in {"http", "https"}, b \in Base2, op \in DOMAIN Offered, l \in {"no", "path"}}
    \cup {Ssh(p, Quoted(op, a), a) : p \in {<<A>>, <<AGit>>, <<Empty, AGit>>},
            op \in DOMAIN Offered, a \in {<<"repo">>, <<"my", Blank, "repo">>, <<"\"", "my", "\"">>}}
Lacking == {{}} \cup {{n} : n \in Needed}
SwitchCases ==
    {Family({Options("simple-git-server", on, lacks, Slash) :
             on \in SUBSET Switches, lacks \in Lacking}
          \cup {Options("ssh-read-write", on, lacks, Slash) :
             on \in SUBSET SshSwitches, lacks \in Lacking}
          \cup {Server({"http-read", "http-write", "go-import"}, p) : p \in GivenPrefixes},
          {Plain}, ClientRequests),
     Family({Server(Switches, Slash)}, {Bare}, ClientRequests)}

(* Requests no client sends: a service in the path, in the query, twice. *)
Names == {Offered[op] : op \in DOMAIN Offered} \cup {"other"}
QueryCases ==
    {Family({Server(on \cup {"http-read"}, Slash) : on \in SUBSET {"http-write", "go-import"}},
          {Plain},
          {Http("http", p, q, "no") :
             p \in {<<Empty, AGit>> \o s : s \in {InfoRefs, <<X>>} \cup {<<<<n, 0>>>> : n \in Names}}
                   \cup {<<Empty, <<"pulse", 0>>>>, <<Empty, A, X>>},
             q \in UNION {[1..n -> Names] : n \in 0..2}})}

(* Every command line of up to six tokens, and every continuation of the   *)
(* form in two words by up to four tokens.                                 *)
Tokens == {"git", "git-upload-pack", "receive-pack", "repo", Blank, "'", "\""}
LineCases ==
    LET upTo(n) == UNION {[1..m -> Tokens] : m \in 0..n}
        lines == upTo(6) \cup {<<"git", Blank, w, Blank>> \o l :
                                  w \in {"upload-pack", "receive-pack"}, l \in upTo(4)}
    IN  {Family({Options("ssh-read-write", on, {}, Slash) : on \in SUBSET SshSwitches},
                {Plain}, {Ssh(<<A>>, l, <<"repo">>) : l \in lines})}

MCFamilies == PathCases \cup SwitchCases \cup QueryCases \cup LineCases
=============================================================================
