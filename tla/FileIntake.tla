----------------------------- MODULE FileIntake -----------------------------
(***************************************************************************)
(* The file-intake service: POST /process (main.py) analyses a file        *)
(* (handlers/), saves the result as a Trilium note and attaches the file   *)
(* to it (trilium.py), one coroutine per upload.  Its clients are the bot, *)
(* for voice and audio (media.call_file_intake), and browsers; both may    *)
(* stop waiting while the coroutine runs on.  The user of the notes may    *)
(* edit one in Trilium at any time.                                        *)
(*                                                                         *)
(* A request to Trilium is carried out, or not, or carried out although    *)
(* its answer never arrives.                                               *)
(***************************************************************************)
EXTENDS FiniteSets

CONSTANTS
  Upload,   \* requests to /process
  Audio,    \* those whose file the audio handler takes
  RetryOf,  \* the upload each one repeats with the same file, or None
  None

ASSUME ConstantsAssumption ==
  /\ IsFiniteSet(Upload)
  /\ Audio \subseteq Upload
  /\ None \notin Upload
  /\ RetryOf \in [Upload -> Upload \cup {None}]

VARIABLES
  stage,   \* where the coroutine of each upload is
  outcome, \* what its reply will say
  client,  \* what the client has got
  note,    \* the parts of the upload's note in Trilium, {} if there is none
  copy,    \* the note as append_attachment_link read it
  file     \* the note's attachment

vars == <<stage, outcome, client, note, copy, file>>

Part == {"analysis", "apology", "edit", "link"}
Outcome == {"none", "analysis", "apology", "error", "refused"}
InService == {"accept", "analyse", "save", "attach", "content", "fetch",
              "append", "reply"}

TypeOK ==
  /\ stage \in [Upload -> {"new", "done"} \cup InService]
  /\ outcome \in [Upload -> Outcome]
  /\ client \in [Upload -> Outcome \cup {"waiting", "silence"}]
  /\ note \in [Upload -> SUBSET Part]
  /\ copy \in [Upload -> SUBSET Part]
  /\ file \in [Upload -> {"none", "empty", "full"}]

Init ==
  /\ stage = [u \in Upload |-> "new"]
  /\ outcome = [u \in Upload |-> "none"]
  /\ client = [u \in Upload |-> "none"]
  /\ note = [u \in Upload |-> {}]
  /\ copy = [u \in Upload |-> {}]
  /\ file = [u \in Upload |-> "none"]

Goto(u, from, to) ==
  /\ stage[u] = from
  /\ stage' = [stage EXCEPT ![u] = to]

-----------------------------------------------------------------------------
(* Clients.                                                                *)

\* Who repeats an upload was told that it failed, or heard nothing.
Submit(u) ==
  /\ RetryOf[u] # None =>
       client[RetryOf[u]] \in {"apology", "error", "refused", "silence"}
  /\ Goto(u, "new", "accept")
  /\ client' = [client EXCEPT ![u] = "waiting"]
  /\ UNCHANGED <<outcome, note, copy, file>>

\* The bot's 300 s are over, or the connection breaks.  The service is not
\* told.
GiveUp(u) ==
  /\ client[u] = "waiting"
  /\ client' = [client EXCEPT ![u] = "silence"]
  /\ UNCHANGED <<stage, outcome, note, copy, file>>

-----------------------------------------------------------------------------
(* process_web and the handlers.                                           *)

\* A wrong token or a file that is too large: no "text" in the reply.
Refuse(u) ==
  /\ Goto(u, "accept", "reply")
  /\ outcome' = [outcome EXCEPT ![u] = "refused"]
  /\ UNCHANGED <<client, note, copy, file>>

Accept(u) ==
  /\ Goto(u, "accept", "analyse")
  /\ UNCHANGED <<outcome, client, note, copy, file>>

\* Whisper and Claude, or Claude alone.  A transcript that Claude does not
\* structure is a result as well.
Analyse(u) ==
  /\ Goto(u, "analyse", "save")
  /\ outcome' = [outcome EXCEPT ![u] = "analysis"]
  /\ UNCHANGED <<client, note, copy, file>>

\* The audio handler answers with an apology, which goes the way of a result;
\* the others raise, and process_web reports an error, as it does when an
\* answer of Whisper is not of the form the audio handler expects.
AnalyseFails(u) ==
  /\ \/ u \in Audio
        /\ Goto(u, "analyse", "save")
        /\ outcome' = [outcome EXCEPT ![u] = "apology"]
     \/ /\ Goto(u, "analyse", "reply")
        /\ outcome' = [outcome EXCEPT ![u] = "error"]
  /\ UNCHANGED <<client, note, copy, file>>

Reply(u) ==
  /\ Goto(u, "reply", "done")
  /\ client' = [client EXCEPT ![u] = IF @ = "waiting" THEN outcome[u] ELSE @]
  /\ UNCHANGED <<outcome, note, copy, file>>

\* The container restarts: every coroutine is gone, its client hears nothing.
Restart ==
  LET hit == {u \in Upload : stage[u] \in InService}
  IN  /\ hit # {}
      /\ stage' = [u \in Upload |-> IF u \in hit THEN "done" ELSE stage[u]]
      /\ client' = [u \in Upload |->
                      IF u \in hit /\ client[u] = "waiting"
                        THEN "silence" ELSE client[u]]
      /\ UNCHANGED <<outcome, note, copy, file>>

-----------------------------------------------------------------------------
(* trilium.py.  An error anywhere is printed and ends the saving.          *)

\* save_note
Save(u) ==
  /\ Goto(u, "save", "attach")
  /\ note' = [note EXCEPT ![u] = {outcome[u]}]
  /\ UNCHANGED <<outcome, client, copy, file>>

\* Mutation: the error of a save is reported to the client.
SaveFails_Raises(u) ==
  /\ Goto(u, "save", "reply")
  /\ \/ UNCHANGED note
     \/ note' = [note EXCEPT ![u] = {outcome[u]}]
  /\ outcome' = [outcome EXCEPT ![u] = "error"]
  /\ UNCHANGED <<client, copy, file>>

\* No note id: Trilium is not configured, or the request fails.
SaveFails(u) ==
  /\ Goto(u, "save", "reply")
  /\ \/ UNCHANGED note
     \/ note' = [note EXCEPT ![u] = {outcome[u]}]
  /\ UNCHANGED <<outcome, client, copy, file>>

\* attach_file creates the attachment ...
Attach(u) ==
  /\ Goto(u, "attach", "content")
  /\ file' = [file EXCEPT ![u] = "empty"]
  /\ UNCHANGED <<outcome, client, note, copy>>

AttachFails(u) ==
  /\ Goto(u, "attach", "reply")
  /\ file' \in {file, [file EXCEPT ![u] = "empty"]}
  /\ UNCHANGED <<outcome, client, note, copy>>

\* ... and puts the bytes into it.
PutContent(u) ==
  /\ Goto(u, "content", "fetch")
  /\ file' = [file EXCEPT ![u] = "full"]
  /\ UNCHANGED <<outcome, client, note, copy>>

\* Mutation: the id is returned although the bytes may not have arrived.
PutContentFails_Linked(u) ==
  /\ Goto(u, "content", "fetch")
  /\ file' \in {file, [file EXCEPT ![u] = "full"]}
  /\ UNCHANGED <<outcome, client, note, copy>>

PutContentFails(u) ==
  /\ Goto(u, "content", "reply")
  /\ file' \in {file, [file EXCEPT ![u] = "full"]}
  /\ UNCHANGED <<outcome, client, note, copy>>

\* append_attachment_link reads the note ...
Fetch(u) ==
  /\ Goto(u, "fetch", "append")
  /\ copy' = [copy EXCEPT ![u] = note[u]]
  /\ UNCHANGED <<outcome, client, note, file>>

FetchFails(u) ==
  /\ Goto(u, "fetch", "reply")
  /\ UNCHANGED <<outcome, client, note, copy, file>>

\* ... and writes it back with the link.
Append(u) ==
  /\ Goto(u, "append", "reply")
  /\ note' = [note EXCEPT ![u] = copy[u] \cup {"link"}]
  /\ UNCHANGED <<outcome, client, copy, file>>

AppendFails(u) ==
  /\ Goto(u, "append", "reply")
  /\ \/ UNCHANGED note
     \/ note' = [note EXCEPT ![u] = copy[u] \cup {"link"}]
  /\ UNCHANGED <<outcome, client, copy, file>>

-----------------------------------------------------------------------------
\* The user changes a note in Trilium.
Edit(u) ==
  /\ note[u] # {}
  /\ note' = [note EXCEPT ![u] = @ \cup {"edit"}]
  /\ UNCHANGED <<stage, outcome, client, copy, file>>

SavingStep(u) ==
  \/ Save(u) \/ SaveFails(u) \/ Attach(u) \/ AttachFails(u)
  \/ PutContent(u) \/ PutContentFails(u)
  \/ Fetch(u) \/ FetchFails(u) \/ Append(u) \/ AppendFails(u)

Next ==
  \/ \E u \in Upload :
       \/ Submit(u) \/ GiveUp(u) \/ Edit(u)
       \/ Refuse(u) \/ Accept(u) \/ Analyse(u) \/ AnalyseFails(u) \/ Reply(u)
       \/ SavingStep(u)
  \/ Restart

Spec == Init /\ [][Next]_vars

-----------------------------------------------------------------------------
(* Properties.                                                             *)

\* Whatever fails half-way, a note has its text, an attachment it links to
\* holds the file, and a change that was in Trilium when the service read the
\* note is still there after it wrote the note back (attach_file and
\* append_attachment_link).  A change made between the two is lost.
NotesAreWhole ==
  \A u \in Upload :
    /\ note[u] # {} => note[u] \cap {"analysis", "apology"} # {}
    /\ "link" \in note[u] => file[u] = "full"
    /\ note[u] # {} => copy[u] \subseteq note[u]

\* A file that is sent again gets a second note with its analysis only if the
\* client of the first upload heard nothing: an upload that was answered with
\* an error, or an apology, has saved no analysis (process_web).
SavedOnce ==
  \A u \in Upload :
    RetryOf[u] # None =>
      LET v == RetryOf[u]
      IN  "analysis" \in note[u] \cap note[v] => client[v] = "silence"
=============================================================================
