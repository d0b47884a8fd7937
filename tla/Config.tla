------------------------------- MODULE Config -------------------------------
(***************************************************************************)
(* From command lines to running servers: the options main of              *)
(* simple-git-server accepts, what it passes to the SSH server it starts,  *)
(* and the options main of the SSH server accepts, which also runs alone.  *)
(*                                                                         *)
(* Options are a record: the program, the switches that are on, the things *)
(* the switches need that are missing (a flag without value, a file that   *)
(* does not exist, a number out of range, a program not on PATH), and      *)
(* --http-git-repos-prefix as it was written.                              *)
(***************************************************************************)
EXTENDS RepoPath

HttpSwitches == {"http-read", "https-read"}
SshSwitches  == {"ssh-read", "ssh-write"}
Switches == HttpSwitches \cup SshSwitches \cup {"http-write", "go-import"}
Keys   == {"ssh-host-key", "ssh-authorized-keys"}
Limits == {"git-max-concurrent", "git-idle-timeout"}
Needed == Keys \cup Limits \cup
          {"https-cert", "https-key", "go-import-domain", "git-max-request-body",
           "git", "http-write-binary", "ssh-read-write-binary"}

(* The SSH server alone has no switches but its own, and a prefix is given *)
(* or has its default.                                                     *)
IsOptions(o) ==
    /\ o.program \in {"simple-git-server", "ssh-read-write"}
    /\ o.program = "ssh-read-write" => o.on \subseteq SshSwitches
    /\ o.prefix \in Path \ {<<>>}

On(o, S)   == o.on \cap S # {}
Has(o, S)  == o.lacks \cap S = {}

(* Mutant: a write switch without its listener is accepted. *)
buildConfigLax(o) ==
    /\ On(o, HttpSwitches \cup {"ssh-read"})
    /\ On(o, {"https-read"}) => Has(o, {"https-cert", "https-key"})
    /\ On(o, {"go-import"})  => Has(o, {"go-import-domain"})
    /\ On(o, {"http-write"}) => On(o, HttpSwitches)
    /\ On(o, {"ssh-read"})   => Has(o, Keys)

(* The checks of buildConfig. *)
buildConfig(o) ==
    /\ On(o, HttpSwitches \cup {"ssh-read"})
    /\ On(o, {"https-read"}) => Has(o, {"https-cert", "https-key"})
    /\ On(o, {"go-import"})  => Has(o, {"go-import-domain"})
    /\ On(o, {"http-write"}) => On(o, HttpSwitches)
    /\ On(o, {"ssh-write"})  => On(o, {"ssh-read"})
    /\ On(o, {"ssh-read"})   => Has(o, Keys)

(* ... and its prefix, which has a slash at both ends. *)
HttpPrefix(o) ==
    LET given == IF o.prefix = <<Empty>> THEN <<Empty, Empty>> ELSE o.prefix
        first == IF Len(given) > 1 /\ Head(given) = Empty THEN given
                 ELSE <<Empty>> \o given
    IN  IF Last(first) = Empty THEN first ELSE Append(first, Empty)

(* What main of simple-git-server checks besides. *)
MainAccepts(o) ==
    /\ buildConfig(o)
    /\ Has(o, Limits \cup {"git-max-request-body", "git"})
    /\ On(o, {"http-write"}) => Has(o, {"http-write-binary"})
    /\ On(o, {"ssh-read"})   => Has(o, {"ssh-read-write-binary"})

(* Mutant: the write switch is passed on whatever it is. *)
sshArgsAlwaysWrite(o) ==
    [program |-> "ssh-read-write", on |-> {"ssh-read", "ssh-write"},
     lacks |-> o.lacks, prefix |-> o.prefix]

(* The options of the SSH server, given to it or set by its parent. *)
sshReadWriteArgs(o) ==
    [program |-> "ssh-read-write", on |-> o.on \cap SshSwitches,
     lacks |-> o.lacks, prefix |-> o.prefix]

SshMainAccepts(o) ==
    Has(o, Keys \cup Limits \cup {"git"}) /\ On(o, SshSwitches)

(* The options of the SSH server that runs, if any does. *)
SshServers(o) ==
    {s \in {o} : o.program = "ssh-read-write" /\ SshMainAccepts(s)}
    \cup {s \in {sshReadWriteArgs(o)} :
            /\ o.program = "simple-git-server" /\ MainAccepts(o)
            /\ On(o, {"ssh-read"}) /\ SshMainAccepts(s)}

(* main of simple-git-server ends with the SSH server it started. *)
HttpServes(o) ==
    /\ o.program = "simple-git-server" /\ MainAccepts(o)
    /\ On(o, {"ssh-read"}) => SshServers(o) # {}

ReadSwitch == [http |-> "http-read", https |-> "https-read", ssh |-> "ssh-read"]

(* The front ends that accept connections. *)
Listening(o) ==
    {f \in {"http", "https"} : HttpServes(o) /\ ReadSwitch[f] \in o.on}
    \cup {f \in {"ssh"} : SshServers(o) # {}}
=============================================================================
