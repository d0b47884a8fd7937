------------------------------ MODULE RepoPath ------------------------------
(***************************************************************************)
(* Which repository a path names: the checks of serveGit for HTTP, those   *)
(* of resolveRepoPathOpts for SSH, and the project names of the go-import  *)
(* pages.  Operators only: GitRequest puts them in the order of the code.  *)
(*                                                                         *)
(* A path is the sequence strings.Split(p, "/") gives, and an element of   *)
(* it a pair: a stem and the number of times ".git" follows it.  A file    *)
(* system maps the absolute, clean paths that exist to a directory, a file *)
(* or a symbolic link with an absolute target; it does not change while a  *)
(* path is checked.                                                        *)
(***************************************************************************)
EXTENDS Naturals, SequencesExt, Scan

CONSTANTS
    ReposFolder,        \* --git-repos-folder
    MaxGitPathSegments,
    MaxLinks            \* the links filepath.EvalSymlinks follows at most

Element == STRING \X Nat
Path    == Seq(Element)

(* A repository and the two elements of info/refs are within the limit. *)
ASSUME PathLimits ==
    /\ ReposFolder \in Path
    /\ MaxGitPathSegments \in Nat /\ MaxGitPathSegments >= 3
    /\ MaxLinks \in Nat

(* A fact of the language, which the provers do not know of a literal. *)
ASSUME LiteralsAreStrings ==
    {"", "info", "refs", "git-upload-pack", "git-receive-pack"} \subseteq STRING

Empty  == <<"", 0>>
Dot    == <<".", 0>>
DotDot == <<"..", 0>>
DotGit == <<"", 1>>
HasGit(e) == e[2] > 0
AddGit(e) == <<e[1], e[2] + 1>>

-----------------------------------------------------------------------------
(* Lexical operations.                                                     *)

(* path.Clean: empty and "." elements go, ".." removes the one before it;  *)
(* at the start of a rooted path it goes too.                              *)
cleanElement(rooted, acc, e) ==
    CASE e \in {Empty, Dot} -> acc
      [] e = DotDot /\ acc # <<>> /\ Last(acc) # DotDot -> Front(acc)
      [] e = DotDot /\ acc = <<>> /\ rooted -> acc
      [] OTHER -> Append(acc, e)

CleanFrom(rooted, p) ==
    LET step == [x \in Path \X Element |-> cleanElement(rooted, x[1], x[2])]
    IN  Scan(Path, Element, step, <<>>, p)

hasDotDotSegment(p) == DotDot \in ToSet(p)

TrimSlash(p) == IF Len(p) > 1 /\ Head(p) = Empty THEN Tail(p) ELSE p

isGitRequest(pre, p) ==
    /\ Len(p) >= Len(pre) /\ SubSeq(p, 1, Len(pre) - 1) = Front(pre)
    /\ pre = <<Empty, Empty>> => p[2] # DotGit /\ HasGit(p[2])

(* What serveGit passes on: the path below the prefix, still rooted. *)
PathInfo(pre, p) == <<Empty>> \o SubSeq(p, Len(pre), Len(p))

(* Mutant: the name of the repository is not looked at. *)
sanitizeAnySegment(p) ==
    IF Len(p) - 1 <= MaxGitPathSegments THEN CleanFrom(TRUE, p) ELSE <<>>

(* Refused is <<>>: a clean path that is accepted has its first element.   *)
sanitizeGitPathInfo(p) ==
    LET cleaned == CleanFrom(TRUE, p)
    IN  IF /\ Len(p) - 1 <= MaxGitPathSegments
           /\ cleaned # <<>>
           /\ ~hasDotDotSegment(cleaned)
           /\ HasGit(Head(cleaned)) /\ Head(cleaned) # DotGit
        THEN cleaned ELSE <<>>

(* resolveRepoPathOpts before it looks at the file system.  What is left   *)
(* of "//repo" after its first slash is absolute.                          *)
SshRelative(p) ==
    LET trimmed == TrimSlash(p)
        repo    == IF Len(trimmed) > 1 /\ Head(trimmed) = Dot
                   THEN Tail(trimmed) ELSE trimmed
        cleaned == CleanFrom(FALSE, repo)
    IN  IF \/ repo = <<Empty>> \/ hasDotDotSegment(repo)
           \/ Head(repo) = Empty \/ cleaned = <<>>
        THEN <<>>
        ELSE IF HasGit(Last(cleaned)) THEN cleaned
        ELSE Append(Front(cleaned), AddGit(Last(cleaned)))

(* Mutant: the path "/" has a project. *)
validProjectNameOrNone(e) == e[1] \notin {".", ".."}

(* A project is one element that does not begin with a dot. *)
validProjectName(e) == e[1] \notin {"", ".", ".."}

-----------------------------------------------------------------------------
(* The file system.                                                        *)

IsTree(t) ==
    /\ DOMAIN t \subseteq Path
    /\ \A p \in DOMAIN t : t[p].kind \in {"dir", "file", "link"} /\ t[p].to \in Path

(* filepath.EvalSymlinks, element by element: `base' is resolved, `rest' is *)
(* still to be looked up below it, and `links' more links may be followed. *)
Lookups == [base : Path, rest : Path, links : Nat]

Here(s) == Append(s.base, Head(s.rest))

Ended(t, s) ==
    \/ s.rest = <<>>
    \/ Here(s) \notin DOMAIN t
    \/ t[Here(s)].kind = "link" /\ s.links = 0
    \/ t[Here(s)].kind = "file" /\ Len(s.rest) > 1

Ok(p)   == [is |-> "ok", path |-> p]
No(why) == [is |-> why, path |-> <<>>]

(* One link too many is an error, and so is a file in the place of a       *)
(* directory.                                                              *)
Result(t, s) ==
    IF s.rest = <<>> THEN Ok(s.base)
    ELSE No(IF Here(s) \in DOMAIN t THEN "error" ELSE "notexist")

Onward(t, s) ==
    IF t[Here(s)].kind = "link"
    THEN [base |-> <<>>, rest |-> t[Here(s)].to \o Tail(s.rest), links |-> s.links - 1]
    ELSE [base |-> Here(s), rest |-> Tail(s.rest), links |-> s.links]

Follow(t, s) ==
    LET From[x \in Lookups] ==
          IF Ended(t, x) THEN Result(t, x) ELSE From[Onward(t, x)]
    IN  From[s]

EvalSymlinks(t, p) ==
    Follow(t, [base |-> <<>>, rest |-> p, links |-> MaxLinks])

Root(t) == EvalSymlinks(t, ReposFolder)

containedIn(root, target) == IsPrefix(root, target)

(* What a path below the folder leads to lies inside the folder, if it     *)
(* leads anywhere.                                                         *)
Inside(t, p) ==
    LET r == EvalSymlinks(t, ReposFolder \o p)
    IN  r.is = "ok" => containedIn(Root(t).path, r.path)

withinRoot(t, p) ==
    LET target == EvalSymlinks(t, ReposFolder \o p)
    IN  /\ Root(t).is = "ok" /\ target.is = "ok"
        /\ containedIn(Root(t).path, target.path)

IsDirectory(t, p) ==
    LET r == EvalSymlinks(t, ReposFolder \o p)
    IN  r.is = "ok" /\ (r.path = <<>> \/ t[r.path].kind = "dir")

(* The loop of repoWithinRoot in one step: the deepest part of the path    *)
(* that exists decides.                                                    *)
Below(t, p, n) == EvalSymlinks(t, Root(t).path \o SubSeq(p, 1, n))

repoWithinRoot(t, p) ==
    /\ Root(t).is = "ok"
    /\ \A n \in 0..Len(p) :
          (\A m \in n + 1 .. Len(p) : Below(t, p, m).is = "notexist") =>
              \/ Below(t, p, n).is = "notexist"
              \/ /\ Below(t, p, n).is = "ok"
                 /\ containedIn(Root(t).path, Below(t, p, n).path)

repoExists(t, e) ==
    IsDirectory(t, <<AddGit(e)>>) /\ repoWithinRoot(t, <<AddGit(e)>>)
=============================================================================
