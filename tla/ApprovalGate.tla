---------------------------- MODULE ApprovalGate ----------------------------
(***************************************************************************)
(* The approval gate: bot/approval-hook.sh, one process per shell command  *)
(* an agent issues, and the bot's side of it (handle_approval_callback and *)
(* the yes/no branch of app.main).  They share two files, PENDING and      *)
(* DECISION, without a lock; each access to a file is one action.          *)
(*                                                                         *)
(* A file that is removed while a process has it open lives on without a   *)
(* name: what is written to it then is lost.  pendingFds and decisionFd    *)
(* say which descriptors still refer to the named file.                    *)
(***************************************************************************)
EXTENDS Naturals, FiniteSets

CONSTANTS
  Hook,      \* the hook processes; the process names its request id
  MaxPolls,  \* polls of DECISION before the hook gives up (300 in the code)
  None

ASSUME ConstantsAssumption ==
  /\ IsFiniteSet(Hook)
  /\ MaxPolls \in Nat \ {0}
  /\ None \notin Hook
  /\ None \notin {"torn", "allow", "deny"}
  /\ "torn" \notin Hook

VARIABLES
  pc,          \* where each hook is
  polls,       \* polls it has made
  got,         \* d, what it read from DECISION; None before
  pending,     \* PENDING: None, the id it holds, or "torn" (not JSON)
  pendingFds,  \* hooks whose descriptor is the named PENDING
  decision,    \* DECISION: None, the answer it holds, or "torn" (empty)
  decisionFd,  \* is the bot's descriptor the named DECISION?
  shown,       \* requests whose buttons are in the chat
  mpc,         \* where the bot's main loop is
  about,       \* the request a button press names; None for a typed answer
  answer,      \* the answer it delivers
  delivered,   \* hooks still waiting when the bot wrote an "allow"
  consented    \* requests the user said yes to

hookVars == <<pc, polls, got>>
fileVars == <<pending, pendingFds, decision, decisionFd>>
botVars == <<mpc, about, answer>>
vars == <<hookVars, fileVars, shown, botVars, delivered, consented>>

\* The hook has cleared DECISION and not yet read an answer.
Waiting == {"open", "write", "send", "poll", "read"}
Asking == Waiting \cup {"consume", "retire", "expire"}
Ended == {"released", "approved", "blocked", "killed"}
Answer == {"allow", "deny"}

TypeOK ==
  /\ pc \in [Hook -> {"new", "clear"} \cup Asking \cup Ended]
  /\ polls \in [Hook -> 0..MaxPolls]
  /\ got \in [Hook -> Answer \cup {"torn", None}]
  /\ pending \in Hook \cup {"torn", None}
  /\ pendingFds \in SUBSET Hook
  /\ decision \in Answer \cup {"torn", None}
  /\ decisionFd \in BOOLEAN
  /\ shown \in SUBSET Hook
  /\ mpc \in {"ready", "open", "write", "remove", "say", "boot", "booting"}
  /\ about \in Hook \cup {None}
  /\ answer \in Answer \cup {None}
  /\ delivered \in SUBSET Hook
  /\ consented \in SUBSET Hook

\* The hook and the bot use the same directory.  (approval-hook.sh:6 names
\* /tmp/agent, config.py:19 takes AGENT_IPC_DIR; otherwise no answer arrives.)
Init ==
  /\ pc = [h \in Hook |-> "new"]
  /\ polls = [h \in Hook |-> 0]
  /\ got = [h \in Hook |-> None]
  /\ pending = None
  /\ pendingFds = {}
  /\ decision = None
  /\ decisionFd = FALSE
  /\ shown = {}
  /\ mpc = "ready"
  /\ about = None
  /\ answer = None
  /\ delivered = {}
  /\ consented = {}

-----------------------------------------------------------------------------
(* The files.                                                              *)

\* rm -f PENDING, os.remove(PENDING)
RemovePending ==
  /\ pending' = None
  /\ pendingFds' = {}

\* rm -f DECISION, os.remove(DECISION)
RemoveDecision ==
  /\ decision' = None
  /\ decisionFd' = FALSE

-----------------------------------------------------------------------------
(* approval-hook.sh                                                        *)

HookStep(h, from, to) ==
  /\ pc[h] = from
  /\ pc' = [pc EXCEPT ![h] = to]

\* An empty command or an allow verdict passes; a deny verdict, a missing
\* classifier or a missing Telegram configuration blocks; the rest asks.
Classify(h) ==
  /\ \/ HookStep(h, "new", "released")
     \/ HookStep(h, "new", "blocked")
     \/ HookStep(h, "new", "clear")
  /\ UNCHANGED <<polls, got, fileVars, shown, botVars, delivered, consented>>

\* Mutation: the decision of an earlier request is left there.
ClearDecision_Keeps(h) ==
  /\ HookStep(h, "clear", "open")
  /\ UNCHANGED <<polls, got, fileVars, shown, botVars, delivered, consented>>

\* rm -f "$DECISION"
ClearDecision(h) ==
  /\ HookStep(h, "clear", "open")
  /\ RemoveDecision
  /\ UNCHANGED <<polls, got, pending, pendingFds, shown, botVars, delivered,
                 consented>>

\* The shell opens PENDING, and empties it, before python3 starts.
OpenPending(h) ==
  /\ HookStep(h, "open", "write")
  /\ pending' = "torn"
  /\ pendingFds' = pendingFds \cup {h}
  /\ UNCHANGED <<polls, got, decision, decisionFd, shown, botVars, delivered,
                 consented>>

\* Two hooks that write the same file may leave a mixture behind.
WritePending(h) ==
  /\ HookStep(h, "write", "send")
  /\ \/ h \notin pendingFds /\ pending' = pending
     \/ h \in pendingFds /\ pending' = h
     \/ h \in pendingFds /\ pending \in Hook /\ pending' = "torn"
  /\ pendingFds' = pendingFds \ {h}
  /\ UNCHANGED <<polls, got, decision, decisionFd, shown, botVars, delivered,
                 consented>>

\* curl's failure is not looked at.
SendButtons(h) ==
  /\ HookStep(h, "send", "poll")
  /\ shown' \in {shown, shown \cup {h}}
  /\ UNCHANGED <<polls, got, fileVars, botVars, delivered, consented>>

\* [ -f "$DECISION" ]
SeeDecision(h) ==
  /\ HookStep(h, "poll", "read")
  /\ decision # None
  /\ UNCHANGED <<polls, got, fileVars, shown, botVars, delivered, consented>>

\* Mutation: the poll loop has no limit.
SeeNothing_Forever(h) ==
  /\ decision = None
  /\ HookStep(h, "poll", "poll")
  /\ UNCHANGED <<polls, got, fileVars, shown, botVars, delivered, consented>>

\* Mutation: the loop polls once more than its limit.
SeeNothing_OneMore(h) ==
  /\ decision = None
  /\ polls' = [polls EXCEPT ![h] = @ + 1]
  /\ HookStep(h, "poll", IF polls'[h] > MaxPolls THEN "expire" ELSE "poll")
  /\ UNCHANGED <<got, fileVars, shown, botVars, delivered, consented>>

SeeNothing(h) ==
  /\ decision = None
  /\ polls' = [polls EXCEPT ![h] = @ + 1]
  /\ HookStep(h, "poll", IF polls'[h] = MaxPolls THEN "expire" ELSE "poll")
  /\ UNCHANGED <<got, fileVars, shown, botVars, delivered, consented>>

\* d="$(cat "$DECISION")": an empty string when the file is empty or gone
ReadDecision(h) ==
  /\ HookStep(h, "read", "consume")
  /\ got' = [got EXCEPT ![h] = IF decision = None THEN "torn" ELSE decision]
  /\ UNCHANGED <<polls, fileVars, shown, botVars, delivered, consented>>

ConsumeDecision(h) ==
  /\ HookStep(h, "consume", "retire")
  /\ RemoveDecision
  /\ UNCHANGED <<polls, got, pending, pendingFds, shown, botVars, delivered,
                 consented>>

RetireRequest(h) ==
  /\ HookStep(h, "retire", IF got[h] = "allow" THEN "approved" ELSE "blocked")
  /\ RemovePending
  /\ UNCHANGED <<polls, got, decision, decisionFd, shown, botVars, delivered,
                 consented>>

\* Mutation: a hook that times out leaves its request.
Expire_KeepsRequest(h) ==
  /\ HookStep(h, "expire", "blocked")
  /\ UNCHANGED <<polls, got, fileVars, shown, botVars, delivered, consented>>

\* Five minutes without an answer: DECISION stays as it is.
Expire(h) ==
  /\ HookStep(h, "expire", "blocked")
  /\ RemovePending
  /\ UNCHANGED <<polls, got, decision, decisionFd, shown, botVars, delivered,
                 consented>>

\* A cancelled or timed-out task's process group is killed, hooks included.
KillHook(h) ==
  /\ pc[h] \notin Ended \cup {"new"}
  /\ pc' = [pc EXCEPT ![h] = "killed"]
  /\ pendingFds' = pendingFds \ {h}
  /\ UNCHANGED <<polls, got, pending, decision, decisionFd, shown, botVars,
                 delivered, consented>>

-----------------------------------------------------------------------------
(* The bot.                                                                *)

BotStep(from, to) ==
  /\ mpc = from
  /\ mpc' = to

\* handle_approval_callback reads PENDING and compares the ids.  A press of
\* a button it no longer waits for may take the buttons away.
PressButton(h, a) ==
  /\ h \in shown
  /\ consented' = IF a = "allow" THEN consented \cup {h} ELSE consented
  /\ \/ /\ pending = h
        /\ BotStep("ready", "open")
        /\ about' = h
        /\ answer' = a
        /\ UNCHANGED shown
     \/ /\ pending # h
        /\ BotStep("ready", "ready")
        /\ shown' \in {shown, shown \ {h}}
        /\ UNCHANGED <<about, answer>>
  /\ UNCHANGED <<hookVars, fileVars, delivered>>

\* A typed yes or no while PENDING exists; its content is not looked at.
\* The user may mean any request that is open or shown.
TypeAnswer(a) ==
  /\ pending # None
  /\ BotStep("ready", "open")
  /\ about' = None
  /\ answer' = a
  /\ consented' = IF a = "allow" THEN consented \cup shown \cup {h \in Hook : pc[h] \in Asking}
                    ELSE consented
  /\ UNCHANGED <<hookVars, fileVars, shown, delivered>>

\* open(DECISION, "w") empties the file or creates it.
OpenDecision ==
  /\ BotStep("open", "write")
  /\ decision' = "torn"
  /\ decisionFd' = TRUE
  /\ UNCHANGED <<hookVars, pending, pendingFds, shown, about, answer,
                 delivered, consented>>

\* "decision write error": a press leaves everything else as it was.
OpenDecisionFails ==
  /\ about # None
  /\ BotStep("open", "ready")
  /\ about' = None
  /\ answer' = None
  /\ UNCHANGED <<hookVars, fileVars, shown, delivered, consented>>

WriteDecision ==
  /\ BotStep("write", "remove")
  /\ decision' = IF decisionFd THEN answer ELSE decision
  /\ decisionFd' = FALSE
  /\ delivered' = IF answer = "allow"
                    THEN delivered \cup {h \in Hook : pc[h] \in Waiting}
                    ELSE delivered
  /\ UNCHANGED <<hookVars, pending, pendingFds, shown, about, answer,
                 consented>>

RemoveRequest ==
  /\ BotStep("remove", "say")
  /\ RemovePending
  /\ UNCHANGED <<hookVars, decision, decisionFd, shown, about, answer,
                 delivered, consented>>

\* The reply; editing the prompt takes its buttons away, unless it fails.
SayAnswer ==
  /\ BotStep("say", "ready")
  /\ shown' \in {shown, shown \ {about}}
  /\ about' = None
  /\ answer' = None
  /\ UNCHANGED <<hookVars, fileVars, delivered, consented>>

\* The bot dies anywhere; the hooks go on.
BotCrashes ==
  /\ mpc' = "boot"
  /\ mpc # "boot"
  /\ decisionFd' = FALSE
  /\ about' = None
  /\ answer' = None
  /\ UNCHANGED <<hookVars, pending, pendingFds, decision, shown, delivered,
                 consented>>

\* main removes PENDING, then DECISION, before its loop.
BootPending ==
  /\ BotStep("boot", "booting")
  /\ RemovePending
  /\ UNCHANGED <<hookVars, decision, decisionFd, shown, about, answer,
                 delivered, consented>>

BootDecision ==
  /\ BotStep("booting", "ready")
  /\ RemoveDecision
  /\ UNCHANGED <<hookVars, pending, pendingFds, shown, about, answer,
                 delivered, consented>>

-----------------------------------------------------------------------------
HookMoves(h) ==
  \/ ClearDecision(h) \/ OpenPending(h) \/ WritePending(h) \/ SendButtons(h)
  \/ SeeDecision(h) \/ SeeNothing(h) \/ ReadDecision(h)
  \/ ConsumeDecision(h) \/ RetireRequest(h) \/ Expire(h)

BotMoves ==
  \/ OpenDecision \/ OpenDecisionFails \/ WriteDecision \/ RemoveRequest
  \/ SayAnswer \/ BotCrashes \/ BootPending \/ BootDecision

UserMoves ==
  \/ \E h \in Hook, a \in Answer : PressButton(h, a)
  \/ \E a \in Answer : TypeAnswer(a)

Next ==
  \/ \E h \in Hook : Classify(h) \/ HookMoves(h) \/ KillHook(h)
  \/ BotMoves
  \/ UserMoves

Spec == Init /\ [][Next]_vars

\* A hook that asks keeps running: every one of its calls is bounded in time.
\* Nothing is asked of the bot or of the user.
FairSpec == Spec /\ \A h \in Hook : WF_vars(HookMoves(h))

-----------------------------------------------------------------------------
(* Properties.                                                             *)

\* A command that had to ask runs only when the bot wrote an "allow" after
\* that command's hook had cleared DECISION: an answer left behind by an
\* earlier request, a crash or an expiry never lets a command pass, whatever
\* hooks overlap.  (approval-hook.sh: rm -f "$DECISION" before PENDING)
AnsweredWhileWaiting ==
  \A h \in Hook : pc[h] = "approved" => h \in delivered

\* A hook that ran to its end leaves no request in its name: from then on no
\* button press and no other hook's answer can be taken for it.
NoRequestOutlivesItsHook ==
  \A h \in Hook : pc[h] \in {"approved", "blocked"} =>
                    pending # h /\ h \notin pendingFds

\* A hook that asks ends, by an answer, by its timeout or killed, even when
\* the bot is down and other hooks and restarts take its files away.
EveryHookEnds ==
  \A h \in Hook : pc[h] \in Asking ~> pc[h] \in Ended

\* "Bridge checks id": the user said yes to every command that had to ask and
\* runs.  Refuted when two hooks ask at once: there is one DECISION, and the
\* hook that polls it first takes it, whatever request it answers.
RunsOnItsOwnAnswer ==
  \A h \in Hook : pc[h] = "approved" => h \in consented
=============================================================================
