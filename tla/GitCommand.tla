----------------------------- MODULE GitCommand -----------------------------
(***************************************************************************)
(* How the SSH server reads the command line of an exec request: a         *)
(* sequence of tokens, each a word, a blank or a quote.  A word stands for *)
(* any text without blanks and quotes, so words in a row are one text.     *)
(***************************************************************************)
EXTENDS Integers, SequencesExt, Scan

Blank  == " "
Quotes == {"'", "\""}
Text   == Seq(STRING)

(* A fact of the language, which the provers do not know of a literal. *)
ASSUME TokensAreStrings ==
    Quotes \cup {Blank, "git-upload-pack", "git-receive-pack"} \subseteq STRING

TrimSpace(s) ==
    LET text == {i \in DOMAIN s : s[i] # Blank}
    IN  IF text = {} THEN <<>> ELSE SubSeq(s, Min(text), Max(text))

(* Blanks end a part unless a quote is open; quotes stay in it. *)
Splits == [parts : Seq(Text), cur : Text, inQuote : Quotes \cup {""}]

flush(acc) ==
    IF acc.cur = <<>> THEN acc
    ELSE [acc EXCEPT !.parts = Append(@, acc.cur), !.cur = <<>>]

keep(acc, t, q) == [acc EXCEPT !.cur = Append(@, t), !.inQuote = q]

splitToken(acc, t) ==
    CASE acc.inQuote # "" -> keep(acc, t, IF t = acc.inQuote THEN "" ELSE acc.inQuote)
      [] acc.inQuote = "" /\ t \in Quotes -> keep(acc, t, t)
      [] acc.inQuote = "" /\ t = Blank -> flush(acc)
      [] OTHER -> keep(acc, t, "")

splitGitCommand(s) ==
    LET step == [x \in Splits \X STRING |-> splitToken(x[1], x[2])]
        none == [parts |-> <<>>, cur |-> <<>>, inQuote |-> ""]
    IN  flush(Scan(Splits, STRING, step, none, s)).parts

stripQuotes(s) ==
    LET t == TrimSpace(s)
    IN  IF Len(t) >= 2 /\ Head(t) \in Quotes /\ Last(t) = Head(t)
        THEN SubSeq(t, 2, Len(t) - 1) ELSE t

(* The words before the argument, and the service they ask for. *)
FetchWords == {<<<<"git-upload-pack">>>>, <<<<"git">>, <<"upload-pack">>>>}
PushWords  == {<<<<"git-receive-pack">>>>, <<<<"git">>, <<"receive-pack">>>>}
Services   == [words \in FetchWords \cup PushWords |->
                  IF words \in FetchWords THEN "fetch" ELSE "push"]

Refused == [service |-> "none", repo |-> <<>>]

(* Mutant: what follows the repository is not looked at. *)
parseFirstArgument(line, allowed) ==
    LET parts == splitGitCommand(TrimSpace(line))
        forms == {w \in DOMAIN Services : Len(parts) > Len(w) /\ IsPrefix(w, parts)}
        words == CHOOSE w \in forms : TRUE
        repo  == stripQuotes(parts[Len(words) + 1])
    IN  IF forms # {} /\ Services[words] \in allowed /\ repo # <<>>
        THEN [service |-> Services[words], repo |-> repo] ELSE Refused

(* `allowed' is {"fetch"} for allowFetch and {"push"} for allowPush. *)
parseGitSSHCommand(line, allowed) ==
    LET parts == splitGitCommand(TrimSpace(line))
        words == Front(parts)
        repo  == stripQuotes(Last(parts))
    IN  IF /\ parts # <<>> /\ words \in DOMAIN Services
           /\ Services[words] \in allowed
           /\ repo # <<>>
        THEN [service |-> Services[words], repo |-> repo] ELSE Refused

(* What a text says, with blanks and quotes left out. *)
Word == [t \in STRING |-> IF t \in Quotes \cup {Blank} THEN <<>> ELSE <<t>>]
Said(s) == Join(STRING, STRING, Word, s)
=============================================================================
