------------------------------ MODULE KeyStore ------------------------------
(***************************************************************************)
(* The authorized keys of the SSH server (auth.go) and the loop of its     *)
(* main goroutine that reloads them on SIGHUP (main.go): the file the      *)
(* operator edits, the channel of capacity one that carries the signals,   *)
(* the set in force, and the handshakes that consult it.                   *)
(*                                                                         *)
(* A line of the file is a key with the class of its options; lines that   *)
(* do not parse, blanks and comments contribute nothing and are left out.  *)
(* A handshake remembers the verdict on a key it has asked about, as the   *)
(* ssh library does between a client's query and its signature.            *)
(***************************************************************************)
CONSTANTS
    Keys,       \* public keys
    Clients     \* connections that may be in their handshake

VARIABLES
    child,      \* the main goroutine of the server
    ended,      \* how the process ended
    sigCh,      \* the buffer of sigCh
    file,       \* the lines of the authorized_keys file
    readable,   \* whether the file can be read
    raw,        \* what the current reload has read
    keys,       \* the set behind keyStore.keys
    offered,    \* keys a handshake has been told are acceptable
    asked       \* history: a SIGHUP was sent after the last edit

fileVars == <<file, readable, asked>>
keyVars  == <<raw, keys>>
keyStoreVars == <<child, ended, sigCh, fileVars, keyVars, offered>>

(* free   no option, or only options of allowedOptions                     *)
(* bound  an option the server cannot enforce                              *)
Lines == Keys \X {"free", "bound"}

parseAuthorizedKeys(lines) == {k \in Keys : <<k, "free">> \in lines}

(* loading   before signal.Notify: signals have their default effect       *)
(* loop      in the select                                                 *)
(* reading   a SIGHUP was received, the file not yet read                  *)
(* storing   the file was read, the new set not yet stored                 *)
(* draining  a stop signal was received                                    *)
(* killed    SIGKILL was sent to the process                               *)
Serving == {"loop", "reading", "storing"}

KeysTypeOK ==
    /\ child \in {"loading", "draining", "killed", "exited"} \cup Serving
    /\ ended \in {"no", "stopped", "failed", "killed"}
    /\ ended = "no" <=> child # "exited"
    /\ sigCh \in {"empty", "HUP", "TERM"}
    /\ file \in SUBSET Lines /\ readable \in BOOLEAN /\ asked \in BOOLEAN
    /\ raw \in SUBSET Lines
    /\ keys \in SUBSET Keys
    /\ offered \in [Clients -> SUBSET Keys]

InitKeys ==
    /\ child = "loading" /\ ended = "no"
    /\ sigCh = "empty"
    /\ file \in SUBSET Lines /\ readable \in BOOLEAN /\ asked = FALSE
    /\ raw = {} /\ keys = {}
    /\ offered = [c \in Clients |-> {}]

-----------------------------------------------------------------------------
(* The operator.                                                           *)

EditFile ==
    /\ file' \in SUBSET Lines /\ readable' \in BOOLEAN
    /\ asked' = FALSE
    /\ UNCHANGED <<child, ended, sigCh, keyVars, offered>>

Receives(sig) == IF sig = "HUP" THEN "reading" ELSE "draining"

(* Mutant: sigCh has no buffer. *)
DeliverUnbuffered(sig) ==
    /\ child' = IF child = "loading" THEN "exited"
                ELSE IF child = "loop" /\ sigCh = "empty" THEN Receives(sig)
                ELSE child
    /\ ended' = IF child = "loading" THEN "killed" ELSE ended
    /\ UNCHANGED sigCh

(* Before signal.Notify a signal ends the process.  After it the signal    *)
(* goes to the select if main waits there, else to the buffer; the runtime *)
(* drops a signal the buffer has no room for.                              *)
Deliver(sig) ==
    LET waiting == child = "loop" /\ sigCh = "empty"
    IN  /\ child' = IF child = "loading" THEN "exited"
                    ELSE IF waiting THEN Receives(sig)
                    ELSE child
        /\ ended' = IF child = "loading" THEN "killed" ELSE ended
        /\ sigCh' = IF child = "loading" \/ waiting \/ sigCh # "empty"
                    THEN sigCh ELSE sig

AskReload ==
    /\ child \notin {"killed", "exited"}
    /\ Deliver("HUP")
    /\ asked' = TRUE
    /\ UNCHANGED <<file, readable, keyVars, offered>>

-----------------------------------------------------------------------------
(* The main goroutine.                                                     *)

(* newKeyStore: no file or no usable key is fatal. *)
newKeyStore ==
    /\ child = "loading"
    /\ IF readable /\ parseAuthorizedKeys(file) # {}
       THEN /\ child' = "loop" /\ keys' = parseAuthorizedKeys(file)
            /\ UNCHANGED ended
       ELSE child' = "exited" /\ ended' = "failed" /\ UNCHANGED keys
    /\ UNCHANGED <<sigCh, fileVars, raw, offered>>

(* main comes back to the select and finds a signal in the buffer. *)
TakeSignal ==
    /\ child = "loop" /\ sigCh # "empty"
    /\ child' = Receives(sigCh)
    /\ sigCh' = "empty"
    /\ UNCHANGED <<ended, fileVars, keyVars, offered>>

(* A file that cannot be read leaves the previous set in force. *)
ReadFile ==
    /\ child = "reading"
    /\ IF readable
       THEN child' = "storing" /\ raw' = file
       ELSE child' = "loop" /\ UNCHANGED raw
    /\ UNCHANGED <<ended, sigCh, fileVars, keys, offered>>

(* Mutant: SIGHUPs that came during the reload are taken for answered. *)
StoreKeysCoalesces ==
    /\ child = "storing"
    /\ keys' = parseAuthorizedKeys(raw)
    /\ raw' = {} /\ child' = "loop"
    /\ sigCh' = IF sigCh = "HUP" THEN "empty" ELSE sigCh
    /\ UNCHANGED <<ended, fileVars, offered>>

(* An empty set is stored like any other: everybody is locked out. *)
StoreKeys ==
    /\ child = "storing"
    /\ keys' = parseAuthorizedKeys(raw)
    /\ raw' = {} /\ child' = "loop"
    /\ UNCHANGED <<ended, sigCh, fileVars, offered>>

(* The listener fails: os.Exit(1). *)
AcceptError ==
    /\ child = "loop"
    /\ child' = "exited" /\ ended' = "failed"
    /\ UNCHANGED <<sigCh, fileVars, keyVars, offered>>

(* The wait for git commands is over and main returns. *)
Drained ==
    /\ child = "draining"
    /\ child' = "exited" /\ ended' = "stopped"
    /\ UNCHANGED <<sigCh, fileVars, keyVars, offered>>

-----------------------------------------------------------------------------
(* Handshakes.  They are accepted from the time the keys are loaded until  *)
(* the listener is closed, and those in progress go on.                    *)

(* publicKeyCallback, called for a key the client asks about. *)
publicKeyCallback(c) ==
    /\ child \in Serving \cup {"draining"}
    /\ \E k \in keys : offered' = [offered EXCEPT ![c] = @ \cup {k}]
    /\ UNCHANGED <<child, ended, sigCh, fileVars, keyVars>>

(* The handshake ends: the client signs, leaves, or the deadline passes. *)
HandshakeEnds(c) ==
    /\ offered[c] # {}
    /\ offered' = [offered EXCEPT ![c] = {}]
    /\ UNCHANGED <<child, ended, sigCh, fileVars, keyVars>>

KeyStoreStep ==
    \/ newKeyStore \/ TakeSignal \/ ReadFile \/ StoreKeys
    \/ \E c \in Clients : publicKeyCallback(c) \/ HandshakeEnds(c)

-----------------------------------------------------------------------------
(* Properties.                                                             *)

(* No SIGHUP sent after the last edit is lost, though the buffer holds one  *)
(* signal and the runtime drops the others: until the file is in force     *)
(* there is a signal left to take, or a reload that has not read the file  *)
(* yet or has read what it says now.                                       *)
ReloadPending ==
    asked /\ readable /\ child \in Serving =>
        \/ sigCh # "empty"
        \/ child = "reading"
        \/ child = "storing" /\ raw = file
        \/ child = "loop" /\ keys = parseAuthorizedKeys(file)

(* A SIGHUP sent after the file was edited brings the file into force,     *)
(* revocation of every key included, unless the file changes again or the  *)
(* server stops: also when the SIGHUP arrives during a reload or finds the *)
(* channel full.  No handshake then knows a key the file does not have.    *)
InForce == /\ keys = parseAuthorizedKeys(file)
           /\ \A c \in Clients : offered[c] \subseteq keys

ReloadTakesEffect ==
    asked /\ readable
        ~> InForce \/ ~asked \/ child \notin Serving \cup {"loading"}
=============================================================================
