------------------------------- MODULE Client -------------------------------
(***************************************************************************)
(* The index command of the CLI: it sends the documents of a file one      *)
(* after the other, each as often as three times until the server says     *)
(* that it has it (main.rs).  The client gives up a try after thirty       *)
(* seconds or when the connection breaks; the server may carry it out      *)
(* nevertheless, later.                                                    *)
(*                                                                         *)
(* Requests of others are left out, but for what they do to an insertion   *)
(* under way: one whose collection is dropped behind the check of the      *)
(* handler is ignored, with success.                                       *)
(***************************************************************************)
EXTENDS Naturals, Sequences, FiniteSets

CONSTANTS
  File,      \* the documents' ids, in order
  NotHeld    \* the server has no document of an id

ASSUME FileAssumption == NotHeld \notin Nat

MaxRetries == 3

VARIABLES
  place,     \* the document of the file it is at
  attempt,   \* how often that has been sent
  sending,   \* its try has neither been answered nor given up
  success,   \* documents it counts as indexed
  errors,    \* documents it counts as errors
  atServer,  \* tries that the server has yet to carry out
  answer,    \* what it has answered to the client's try
  held,      \* for each id the document of the file that the server has
  served,    \* observer: documents that the server said it has
  ignored,   \* observer: those of them that the engine ignored
  late       \* observer: a try was given up that may still be carried out

clientVars == <<place, attempt, sending, success, errors, atServer, answer, held,
                served, ignored, late>>

Ids == {File[i] : i \in DOMAIN File}
Try == <<place, attempt>>

ClientInit ==
  /\ place = 1
  /\ attempt = 0
  /\ sending = FALSE
  /\ success = {}
  /\ errors = {}
  /\ atServer = {}
  /\ answer = "none"
  /\ served = {}
  /\ ignored = {}
  /\ held = [k \in Ids |-> NotHeld]
  /\ late = FALSE

Send ==
  /\ ~sending
  /\ place \in DOMAIN File
  /\ attempt < MaxRetries
  /\ sending' = TRUE
  /\ attempt' = attempt + 1
  /\ atServer' = atServer \cup {<<place, attempt + 1>>}
  /\ answer' = "none"
  /\ UNCHANGED <<place, success, errors, held, served, ignored, late>>

\* insert_document_api.  An error: the collection is not known, or the file is
\* not written, after the engine has the document.  A success, though the engine
\* ignored the document: the collection was dropped behind the check, or has no
\* manager.  Nobody waits for the answer to a try that was given up.
Serve(try) ==
  /\ try \in atServer
  /\ atServer' = atServer \ {try}
  /\ \E ok, indexed \in BOOLEAN :
       /\ answer' = IF try = Try /\ sending THEN IF ok THEN "ok" ELSE "error" ELSE answer
       /\ served' = IF ok THEN served \cup {try[1]} ELSE served
       /\ held' = IF indexed THEN [held EXCEPT ![File[try[1]]] = try[1]] ELSE held
       /\ ignored' = IF indexed THEN ignored \ {try[1]}
                     ELSE IF ok THEN ignored \cup {try[1]} ELSE ignored
  /\ UNCHANGED <<place, attempt, sending, success, errors, late>>

Succeeded ==
  /\ sending' = FALSE
  /\ success' = success \cup {place}
  /\ place' = place + 1
  /\ attempt' = 0
  /\ UNCHANGED errors

\* Mutated Failed: the last try's failure is not told from a success.
FailedAsSuccess ==
  /\ sending' = FALSE
  /\ IF attempt = MaxRetries
       THEN success' = success \cup {place} /\ place' = place + 1 /\ attempt' = 0
       ELSE UNCHANGED <<success, place, attempt>>
  /\ UNCHANGED errors

\* An error: another try, if there have not been three.
Failed ==
  /\ sending' = FALSE
  /\ IF attempt = MaxRetries
       THEN errors' = errors \cup {place} /\ place' = place + 1 /\ attempt' = 0
       ELSE UNCHANGED <<errors, place, attempt>>
  /\ UNCHANGED success

Receive ==
  /\ sending
  /\ \/ answer = "ok" /\ Succeeded
     \/ answer = "error" /\ Failed
  /\ answer' = "none"
  /\ UNCHANGED <<atServer, held, served, ignored, late>>

\* The answer does not come in time, or the connection breaks, before the
\* server has the request or after.
GiveUp ==
  /\ sending
  /\ Failed
  /\ \/ atServer' = atServer \ {Try}
     \/ atServer' = atServer
  /\ late' = (late \/ Try \in atServer')
  /\ answer' = "none"
  /\ UNCHANGED <<held, served, ignored>>

ClientNext ==
  \/ Send \/ Receive \/ GiveUp
  \/ \E try \in atServer : Serve(try)

ClientSpec == ClientInit /\ [][ClientNext]_clientVars

-----------------------------------------------------------------------------
\* However answers are lost and tries repeated: what the command counts as
\* indexed the server said it has, and it has it unless it ignored it; the command
\* has counted each document it is through with once; and unless a try that was
\* given up may still be on its way, a document that was counted and not ignored
\* is not replaced by an earlier one of its id.
ReportsTrue ==
  /\ success \subseteq served
  /\ \A i \in success \ ignored : held[File[i]] # NotHeld
  /\ success \cap errors = {}
  /\ success \cup errors = 1 .. place - 1
  /\ ~late => \A i \in success \ ignored : held[File[i]] >= i
=============================================================================
