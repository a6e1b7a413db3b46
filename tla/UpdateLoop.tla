----------------------------- MODULE UpdateLoop -----------------------------
(***************************************************************************)
(* The bridge's main loop (bot/tgbridge/app.py): it polls Telegram for     *)
(* updates, handles a batch one by one, and dies and restarts.  Telegram   *)
(* keeps an update until a poll asks for a later one.  Its text routing    *)
(* (handlers.handle_text) and the mode file (panel.py) are here as far as  *)
(* they decide in which mode's directory a prompt runs, with the media     *)
(* worker that reads the mode when its download is over.                   *)
(*                                                                         *)
(* What an update does to the task registry is TaskRegistry, what it does  *)
(* to an approval request ApprovalGate.                                    *)
(***************************************************************************)
EXTENDS Integers, Sequences

CONSTANTS
  Mode, DefaultMode,  \* CONTEXTS and DEFAULT_MODE
  Update,             \* what users may send: [kind, mode] records
  MaxUpdates,         \* bound: how many updates they send
  Limit,              \* most updates one getUpdates returns (Telegram's 100)
  MaxStarts,          \* bound: how often the bridge is started
  None

\* "idle": other chats, and buttons other than a mode button; "word": a yes or
\* no; "text": any other prompt; "fixed": a prompt with a directory of its own;
\* "command": what runs nothing; "button", "typed": a switch of the mode.
Kind == {"idle", "word", "text", "fixed", "command", "media", "button",
         "typed"}

ASSUME ConstantsAssumption ==
  /\ DefaultMode \in Mode
  /\ None \notin Mode
  /\ Update \subseteq [kind : Kind, mode : Mode]
  /\ MaxUpdates \in Nat
  /\ Limit \in Nat \ {0}
  /\ MaxStarts \in Nat \ {0}

Id == 1..MaxUpdates

VARIABLES
  inbox,      \* all updates sent so far; the index is the update_id
  confirmed,  \* Telegram has forgotten the updates up to this one
  stage,      \* where the main loop is
  starts,     \* how often the bridge was started
  offset,     \* main's offset, 0 for None
  next, last, \* the part of the batch that is still to be handled
  ask,        \* does ASK_PEND exist?
  modeFile,   \* MODE_FILE, None while it is missing or empty
  uploads,    \* media tasks under way, in FIFO order
  times,      \* how often each update was handled
  dropped,    \* updates a start-up drain skipped
  failed,     \* start-up drains that failed
  horizon,    \* updates the present start-up drain was to skip
  want,       \* the mode the user chose last
  before,     \* the mode that stayed in force when the file could not be
              \* opened for that choice, None if it could
  cut,        \* did the write of that mode fail, or the bridge die in it?
  ran         \* the mode each prompt ran in

telegramVars == <<inbox, confirmed>>
loopVars == <<offset, next, last>>
modeVars == <<modeFile, want, before, cut>>
promptVars == <<uploads, ran>>
ghostVars == <<dropped, failed, horizon>>
vars == <<telegramVars, stage, starts, loopVars, ask, modeVars, promptVars,
          times, ghostVars>>

Sent == Len(inbox)
Lesser(a, b) == IF a < b THEN a ELSE b
InBatch == {"handle", "switch"}

TypeOK ==
  /\ inbox \in Seq(Update)
  /\ Sent <= MaxUpdates
  /\ confirmed \in 0..Sent
  /\ stage \in {"down", "drain", "poll"} \cup InBatch
  /\ starts \in 0..MaxStarts
  /\ offset \in 0..MaxUpdates + 1
  /\ next \in 1..MaxUpdates + 1
  /\ last \in 0..MaxUpdates
  /\ ask \in BOOLEAN
  /\ modeFile \in Mode \cup {None}
  /\ uploads \in Seq(Id)
  /\ times \in [Id -> Nat]
  /\ dropped \in SUBSET Id
  /\ failed \in Nat
  /\ horizon \in 0..MaxUpdates
  /\ want \in Mode
  /\ before \in Mode \cup {None}
  /\ cut \in BOOLEAN
  /\ ran \in [Id -> Mode \cup {None}]

Init ==
  /\ inbox = <<>>
  /\ confirmed = 0
  /\ stage = "down"
  /\ starts = 0
  /\ offset = 0
  /\ next = 1
  /\ last = 0
  /\ ask = FALSE
  /\ modeFile = None
  /\ uploads = <<>>
  /\ times = [u \in Id |-> 0]
  /\ dropped = {}
  /\ failed = 0
  /\ horizon = 0
  /\ want = DefaultMode
  /\ before = None
  /\ cut = FALSE
  /\ ran = [u \in Id |-> None]

-----------------------------------------------------------------------------
(* Users, Telegram and the agent that asks through ASK_PEND.               *)

\* A message, an edited message or a button press reaches Telegram.
Send ==
  /\ Sent < MaxUpdates
  /\ \E u \in Update : inbox' = Append(inbox, u)
  /\ UNCHANGED <<confirmed, stage, starts, loopVars, ask, modeVars,
                 promptVars, times, ghostVars>>

\* Nothing in the repository writes ASK_PEND; the bot only answers it.
Ask ==
  /\ stage # "down"
  /\ ~ask
  /\ ask' = TRUE
  /\ UNCHANGED <<telegramVars, stage, starts, loopVars, modeVars, promptVars,
                 times, ghostVars>>

-----------------------------------------------------------------------------
(* Start-up and the polls.                                                 *)

\* main() begins: the files of an earlier life go.
Start ==
  /\ stage = "down"
  /\ stage' = "drain"
  /\ starts' = starts + 1
  /\ ask' = FALSE
  /\ UNCHANGED <<telegramVars, loopVars, modeVars, promptVars, times,
                 ghostVars>>

\* Mutation: the first update of the answer is taken for the last.
Drain_First ==
  LET end == Lesser(Sent, confirmed + Limit)
  IN  /\ stage = "drain"
      /\ offset' = IF end = confirmed THEN 0 ELSE confirmed + 2
      /\ dropped' = dropped \cup (confirmed + 1 .. end)
      /\ horizon' = end
      /\ stage' = "poll"
      /\ UNCHANGED <<telegramVars, starts, next, last, ask, modeVars,
                     promptVars, times, failed>>

\* The poll at start-up looks at the backlog, as far as one answer shows it,
\* and sets the offset behind it.  The next poll makes Telegram forget it.
Drain ==
  LET end == Lesser(Sent, confirmed + Limit)
  IN  /\ stage = "drain"
      /\ offset' = IF end = confirmed THEN 0 ELSE end + 1
      /\ dropped' = dropped \cup (confirmed + 1 .. end)
      /\ horizon' = end
      /\ stage' = "poll"
      /\ UNCHANGED <<telegramVars, starts, next, last, ask, modeVars,
                     promptVars, times, failed>>

\* Its failure is ignored: the offset stays None.
DrainFails ==
  /\ stage = "drain"
  /\ offset' = 0
  /\ failed' = failed + 1
  /\ horizon' = 0
  /\ stage' = "poll"
  /\ UNCHANGED <<telegramVars, starts, next, last, ask, modeVars, promptVars,
                 times, dropped>>

\* What Telegram forgets when it is asked for updates from the offset on.
Confirmed == IF offset > confirmed + 1 THEN offset - 1 ELSE confirmed

\* getUpdates answers with the next updates, or with none after 60 s.
Poll ==
  /\ stage = "poll"
  /\ confirmed' = Confirmed
  /\ IF Confirmed < Sent
       THEN /\ next' = Confirmed + 1
            /\ last' = Lesser(Sent, Confirmed + Limit)
            /\ stage' = "handle"
       ELSE UNCHANGED <<next, last, stage>>
  /\ UNCHANGED <<inbox, starts, offset, ask, modeVars, promptVars, times,
                 ghostVars>>

\* Mutation: the poll that failed is made up for by draining again.
PollFails_Drains ==
  /\ stage = "poll"
  /\ confirmed' = Confirmed
  /\ offset' = Lesser(Sent, Confirmed + Limit) + 1
  /\ UNCHANGED <<inbox, stage, starts, next, last, ask, modeVars, promptVars,
                 times, ghostVars>>

\* Mutation: the loop ends with the first poll that fails.
PollFails_Ends ==
  /\ stage = "poll"
  /\ confirmed' = Confirmed
  /\ stage' = "stopped"
  /\ UNCHANGED <<inbox, starts, loopVars, ask, modeVars, promptVars, times,
                 ghostVars>>

\* The answer is lost; the loop sleeps 3 s and asks again with this offset.
\* (A request that does not even arrive changes nothing.)
PollFails ==
  /\ stage = "poll"
  /\ confirmed' = Confirmed
  /\ UNCHANGED <<inbox, stage, starts, loopVars, ask, modeVars, promptVars,
                 times, ghostVars>>

-----------------------------------------------------------------------------
(* One update of the batch.                                                *)

Current == inbox[next]

\* Mutation: the offset is the id of the update, not the one behind it.
After_Same(u) == u

\* offset = update_id + 1
After(u) == u + 1

\* The loop takes the next update; once handled it goes on, or polls again.
Take(kinds) ==
  /\ stage = "handle"
  /\ Current.kind \in kinds
  /\ offset' = After(next)
  /\ next' = next + 1
  /\ times' = [times EXCEPT ![next] = @ + 1]

GoOn == stage' = IF next = last THEN "poll" ELSE "handle"

\* get_mode(): a missing, empty or torn file is the default mode.
GetMode == IF modeFile = None THEN DefaultMode ELSE modeFile

\* What changes nothing here.  A typed yes or no is one of them when a request
\* is pending, which the loop looks for before it looks for a question.
HandleOther ==
  /\ Take({"idle", "word", "fixed", "command"})
  /\ ask => Current.kind \in {"idle", "word"}
  /\ GoOn
  /\ UNCHANGED <<telegramVars, starts, last, ask, modeVars, promptVars,
                 ghostVars>>

\* ask-IPC: any text is the answer, commands included.
HandleAnswer ==
  /\ ask
  /\ Take({"word", "text", "fixed", "command", "typed"})
  /\ ask' = FALSE
  /\ GoOn
  /\ UNCHANGED <<telegramVars, starts, last, modeVars, promptVars, ghostVars>>

\* The media branch queues a task.
HandleMedia ==
  /\ Take({"media"})
  /\ uploads' = Append(uploads, next)
  /\ GoOn
  /\ UNCHANGED <<telegramVars, starts, last, ask, modeVars, ran, ghostVars>>

\* Plain text, and a yes or no that nobody waits for, is a prompt for claude
\* in the directory of the current mode.
HandlePrompt ==
  /\ ~ask
  /\ Take({"text", "word"})
  /\ ran' = [ran EXCEPT ![next] = GetMode]
  /\ GoOn
  /\ UNCHANGED <<telegramVars, starts, last, ask, modeVars, uploads,
                 ghostVars>>

\* A mode button or /<mode>.  Whatever comes of set_mode, which swallows its
\* failures, the user is told that the mode is the new one.
TakeSwitch ==
  /\ Take(IF ask THEN {"button"} ELSE {"button", "typed"})
  /\ want' = Current.mode
  /\ cut' = FALSE

\* Mutation: the file is written by a thread of its own.
HandleSwitch_Async ==
  /\ TakeSwitch
  /\ before' = None
  /\ modeFile' \in {modeFile, Current.mode}
  /\ GoOn
  /\ UNCHANGED <<telegramVars, starts, last, ask, promptVars, ghostVars>>

\* set_mode opens the file, which empties it ...
HandleSwitch ==
  /\ TakeSwitch
  /\ before' = None
  /\ modeFile' = None
  /\ stage' = "switch"
  /\ UNCHANGED <<telegramVars, starts, last, ask, promptVars, ghostVars>>

\* ... or cannot open it: the file keeps the mode it had.
SwitchFails ==
  /\ TakeSwitch
  /\ before' = GetMode
  /\ GoOn
  /\ UNCHANGED <<telegramVars, starts, last, ask, modeFile, promptVars,
                 ghostVars>>

SwitchDone == stage' = IF next > last THEN "poll" ELSE "handle"

\* It writes the mode into the open file ...
WriteMode ==
  /\ stage = "switch"
  /\ modeFile' = want
  /\ SwitchDone
  /\ UNCHANGED <<telegramVars, starts, loopVars, ask, want, before, cut,
                 promptVars, times, ghostVars>>

\* ... or fails to: the file stays empty.
WriteFails ==
  /\ stage = "switch"
  /\ cut' = TRUE
  /\ SwitchDone
  /\ UNCHANGED <<telegramVars, starts, loopVars, ask, modeFile, want, before,
                 promptVars, times, ghostVars>>

\* The media worker reads the mode once it has the file (media.py); the key
\* "media" serves one upload at a time.
RunUpload ==
  /\ uploads # <<>>
  /\ ran' = [ran EXCEPT ![Head(uploads)] = GetMode]
  /\ uploads' = Tail(uploads)
  /\ UNCHANGED <<telegramVars, stage, starts, loopVars, ask, modeVars, times,
                 ghostVars>>

\* An upload that fails, or is cancelled, runs nothing.
LoseUpload ==
  /\ uploads # <<>>
  /\ uploads' = Tail(uploads)
  /\ UNCHANGED <<telegramVars, stage, starts, loopVars, ask, modeVars, ran,
                 times, ghostVars>>

\* The process ends at any point, by an exception of a handler (none is
\* caught) or from outside, and with it the rest of the batch and the tasks.
Crash ==
  /\ stage # "down"
  /\ starts < MaxStarts
  /\ stage' = "down"
  /\ offset' = 0
  /\ next' = 1
  /\ last' = 0
  /\ uploads' = <<>>
  /\ cut' = (cut \/ stage = "switch")
  /\ UNCHANGED <<telegramVars, starts, ask, modeFile, want, before, ran,
                 times, ghostVars>>

-----------------------------------------------------------------------------
LoopStep ==
  \/ Start \/ Drain \/ DrainFails
  \/ HandleOther \/ HandleAnswer \/ HandleMedia \/ HandlePrompt
  \/ HandleSwitch \/ SwitchFails \/ WriteMode \/ WriteFails

Next ==
  \/ Send \/ Ask \/ Crash
  \/ LoopStep \/ Poll \/ PollFails
  \/ RunUpload \/ LoseUpload

Spec == Init /\ [][Next]_vars

\* The loop runs on, and is restarted when it died (restart: unless-stopped);
\* of the polls it repeats for ever, again and again one succeeds.
FairSpec == Spec /\ WF_vars(LoopStep) /\ SF_vars(Poll)

-----------------------------------------------------------------------------
(* Properties.                                                             *)

\* A command is not carried out twice: the batch in which the bridge died is
\* skipped by the next start-up, because a drain sees as much as a poll
\* returned.  Only a drain that fails, which main() ignores, lets the handled
\* updates of such a batch come again (app.py, offset and start-up poll).
HandledOnce == \A u \in Id : times[u] <= 1 + failed

\* What users sent while the bridge was down, or before it died, is not
\* carried out by the next life: nothing a start-up drain was to skip is.
StaleIsNotRun == [][\A u \in 1..horizon : times'[u] = times[u]]_vars

\* Telegram forgets an update only after the loop handled it or a start-up
\* drain skipped it: no poll, failed or not, acknowledges more than that.
NothingIsForgotten ==
  \A u \in 1..confirmed : times[u] > 0 \/ u \in dropped

\* Every update is handled, or skipped by a start-up, in the end: polls that
\* fail are repeated, and a bridge that died is started again.
EveryUpdateIsTaken ==
  \A u \in Id : u <= Sent ~> times[u] > 0 \/ u \in dropped

\* "Modes (sticky)", "Voice -> command in current mode" (config.HELP): a
\* prompt runs in the mode that was chosen last before its mode is read, also
\* by an earlier life of the bridge.  The exceptions are set_mode's: when it
\* could not open the file, the mode in force before stays; and since it empties
\* the file first, a worker that reads it then, and every prompt after a write
\* that failed or a crash there, gets the default.
ModeIsSticky ==
  [][\A u \in Id : ran'[u] # ran[u] =>
       \/ ran'[u] = want
       \/ before # None /\ ran'[u] = before
       \/ ran'[u] = DefaultMode /\ (stage = "switch" \/ cut)]_vars
=============================================================================
