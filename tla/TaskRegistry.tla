---------------------------- MODULE TaskRegistry ----------------------------
(***************************************************************************)
(* The Telegram bridge's task registry (bot/tgbridge/state.py) and the     *)
(* threads that share it: one worker thread per started task (workers.py,  *)
(* media.py, claude_runner.py, process.py) and the main loop's dispatch    *)
(* and cancel handlers (workers.dispatch, handlers.handle_cancel).         *)
(*                                                                         *)
(* Every critical section of the code's single lock is one action; between *)
(* two of them any other thread may run.  The live panel and the text of a *)
(* reply are left out.                                                     *)
(***************************************************************************)
EXTENDS Naturals, FiniteSets, SequencesExt

CONSTANTS
  Task,          \* the tasks users ask for; an id names one task
  Key,           \* registry keys: a mode, "ag:<agent>", "media"
  KeyOf,         \* the key each task is dispatched under
  AgentKey,      \* the keys whose tasks run claude with --agent
  MediaKey,      \* the keys whose tasks run _media_worker_task
  RepeatCancel,  \* may a user press the cancel button of a cancelling task?
  None

ASSUME ConstantsAssumption ==
  /\ KeyOf \in [Task -> Key]
  /\ AgentKey \subseteq Key
  /\ MediaKey \subseteq Key
  /\ AgentKey \cap MediaKey = {}
  /\ RepeatCancel \in BOOLEAN
  /\ None \notin Task
  /\ IsFiniteSet(Task)

VARIABLES
  running,     \* key -> its active task, or None          (state.running)
  queues,      \* key -> FIFO of waiting tasks             (state.queues)
  byId,        \* the ids /cancel <id> still finds         (state.tasks_by_id)
  state,       \* Task.state, "new" before dispatch
  enqueuedAt,  \* Task.enqueued_at, 0 before dispatch
  clock,       \* time of the latest dispatch
  handle,      \* Task.proc: the attempt whose Popen it holds, 0 for None
  tries,       \* claude processes spawned for the task so far
  live,        \* is the latest of them still alive?
  pc,          \* where the task's worker thread is
  nxt,         \* the worker's local nxt: the task it has to start
  wasCancelling, \* the worker's local was_cancelling
  mpc,         \* where the main loop is
  cur,         \* the task the main loop is working on
  grabbed,     \* the proc _cancel_task read, as an attempt number
  victims,     \* the active tasks a cancel command has still to kill
  cancelled,   \* tasks the user cancelled while they were active
  answered,    \* tasks of whose end a message reached the chat
  lost         \* task -> such messages that did not reach it

registryVars == <<running, queues, byId, state, enqueuedAt, clock>>
procVars == <<handle, tries, live>>
workerVars == <<pc, nxt, wasCancelling>>
mainVars == <<mpc, cur, grabbed, victims>>
chatVars == <<cancelled, answered, lost>>
vars == <<registryVars, procVars, workerVars, mainVars, chatVars>>

IsMedia(t) == KeyOf[t] \in MediaKey
HasFallback(t) == KeyOf[t] \notin AgentKey

\* The worker is between its first statement and the end of finish(key).
Executing == {"hello", "fetch", "gate", "spawn", "store", "wait", "recheck",
              "check", "send", "final", "finish"}
PC == Executing \cup {"none", "ping", "start", "end"}
TaskState == {"new", "queued", "running", "cancelling", "done"}
MainPC == {"idle", "start", "lookup", "cancelkey", "killing", "kill"}

TypeOK ==
  /\ running \in [Key -> Task \cup {None}]
  /\ queues \in [Key -> Seq(Task)]
  /\ byId \in SUBSET Task
  /\ state \in [Task -> TaskState]
  /\ enqueuedAt \in [Task -> Nat]
  /\ clock \in Nat
  /\ handle \in [Task -> 0..2]
  /\ tries \in [Task -> 0..2]
  /\ live \in [Task -> BOOLEAN]
  /\ pc \in [Task -> PC]
  /\ nxt \in [Task -> Task \cup {None}]
  /\ wasCancelling \in [Task -> BOOLEAN]
  /\ mpc \in MainPC
  /\ cur \in Task \cup {None}
  /\ grabbed \in 0..2
  /\ victims \in SUBSET Task
  /\ cancelled \in SUBSET Task
  /\ answered \in SUBSET Task
  /\ lost \in [Task -> Nat]

Init ==
  /\ running = [k \in Key |-> None]
  /\ queues = [k \in Key |-> <<>>]
  /\ byId = {}
  /\ state = [t \in Task |-> "new"]
  /\ enqueuedAt = [t \in Task |-> 0]
  /\ clock = 0
  /\ handle = [t \in Task |-> 0]
  /\ tries = [t \in Task |-> 0]
  /\ live = [t \in Task |-> FALSE]
  /\ pc = [t \in Task |-> "none"]
  /\ nxt = [t \in Task |-> None]
  /\ wasCancelling = [t \in Task |-> FALSE]
  /\ mpc = "idle"
  /\ cur = None
  /\ grabbed = 0
  /\ victims = {}
  /\ cancelled = {}
  /\ answered = {}
  /\ lost = [t \in Task |-> 0]

-----------------------------------------------------------------------------
(* The main loop: dispatch and the media branch of app.main.               *)

\* Mutation: the queue is a stack.
Enqueue_Front(t) ==
  /\ clock' = clock + 1
  /\ enqueuedAt' = [enqueuedAt EXCEPT ![t] = clock + 1]
  /\ byId' = byId \cup {t}
  /\ \/ /\ running[KeyOf[t]] = None
        /\ running' = [running EXCEPT ![KeyOf[t]] = t]
        /\ state' = [state EXCEPT ![t] = "running"]
        /\ UNCHANGED queues
     \/ /\ running[KeyOf[t]] # None
        /\ queues' = [queues EXCEPT ![KeyOf[t]] = <<t>> \o @]
        /\ state' = [state EXCEPT ![t] = "queued"]
        /\ UNCHANGED running

\* enqueue(task): start at once when the key is free, else join its queue.
Enqueue(t) ==
  /\ clock' = clock + 1
  /\ enqueuedAt' = [enqueuedAt EXCEPT ![t] = clock + 1]
  /\ byId' = byId \cup {t}
  /\ \/ /\ running[KeyOf[t]] = None
        /\ running' = [running EXCEPT ![KeyOf[t]] = t]
        /\ state' = [state EXCEPT ![t] = "running"]
        /\ UNCHANGED queues
     \/ /\ running[KeyOf[t]] # None
        /\ queues' = [queues EXCEPT ![KeyOf[t]] = Append(@, t)]
        /\ state' = [state EXCEPT ![t] = "queued"]
        /\ UNCHANGED running

\* dispatch(): enqueue, then start the worker if enqueue said so.
Dispatch(t) ==
  /\ mpc = "idle"
  /\ state[t] = "new"
  /\ Enqueue(t)
  /\ IF running[KeyOf[t]] = None
       THEN mpc' = "start" /\ cur' = t
       ELSE UNCHANGED <<mpc, cur>>
  /\ UNCHANGED <<grabbed, victims, procVars, workerVars, chatVars>>

StartDispatched ==
  /\ mpc = "start"
  /\ pc' = [pc EXCEPT ![cur] = "hello"]
  /\ mpc' = "idle"
  /\ cur' = None
  /\ UNCHANGED <<nxt, wasCancelling, grabbed, victims, registryVars, procVars,
                 chatVars>>

-----------------------------------------------------------------------------
(* The main loop: /cancel and the cancel buttons.                          *)

\* Mutation: the defect BLOCKER-1 names, cancel frees the key itself.
CancelKeys_FreesKey(ks) ==
  LET active == {running[k] : k \in ks} \ {None}
      dropped == UNION {ToSet(queues[k]) : k \in ks}
  IN  /\ queues' = [k \in Key |-> IF k \in ks THEN <<>> ELSE queues[k]]
      /\ running' = [k \in Key |-> IF k \in ks THEN None ELSE running[k]]
      /\ byId' = byId \ dropped
      /\ state' = [t \in Task |->
                     IF t \in active THEN "cancelling" ELSE state[t]]
      /\ victims' = active
      /\ cancelled' = cancelled \cup active
      /\ mpc' = IF active = {} THEN "idle" ELSE "killing"
      /\ cur' = None
      /\ UNCHANGED <<enqueuedAt, clock, grabbed, procVars, workerVars,
                     answered, lost>>

\* Mutation: the dropped tasks stay in tasks_by_id.
CancelKeys_KeepsIds(ks) ==
  LET active == {running[k] : k \in ks} \ {None}
  IN  /\ queues' = [k \in Key |-> IF k \in ks THEN <<>> ELSE queues[k]]
      /\ state' = [t \in Task |->
                     IF t \in active THEN "cancelling" ELSE state[t]]
      /\ victims' = active
      /\ cancelled' = cancelled \cup active
      /\ mpc' = IF active = {} THEN "idle" ELSE "killing"
      /\ cur' = None
      /\ UNCHANGED <<running, byId, enqueuedAt, clock, grabbed, procVars,
                     workerVars, answered, lost>>

\* The critical section that cancels whole keys: their queues are dropped,
\* their active tasks marked.  The killing comes after the lock is released.
CancelKeys(ks) ==
  LET active == {running[k] : k \in ks} \ {None}
      dropped == UNION {ToSet(queues[k]) : k \in ks}
  IN  /\ queues' = [k \in Key |-> IF k \in ks THEN <<>> ELSE queues[k]]
      /\ byId' = byId \ dropped
      /\ state' = [t \in Task |->
                     IF t \in active THEN "cancelling" ELSE state[t]]
      /\ victims' = active
      /\ cancelled' = cancelled \cup active
      /\ mpc' = IF active = {} THEN "idle" ELSE "killing"
      /\ cur' = None
      /\ UNCHANGED <<running, enqueuedAt, clock, grabbed, procVars,
                     workerVars, answered, lost>>

\* /cancel in a mode, or /cancel <key>: _cancel_key.  A key that is neither
\* running nor queued is left as it is.
CancelKey(k) == mpc = "idle" /\ CancelKeys({k})

CancelAll == mpc = "idle" /\ CancelKeys(Key)

\* _cancel_queued_by_id for a task that is not running: it leaves its queue
\* (a task that is in none, being cancelled already, raises no error).
RemoveQueued(t) ==
  /\ \/ \E i \in DOMAIN queues[KeyOf[t]] :
           /\ queues[KeyOf[t]][i] = t
           /\ queues' = [queues EXCEPT ![KeyOf[t]] = RemoveAt(@, i)]
     \/ t \notin ToSet(queues[KeyOf[t]]) /\ UNCHANGED queues
  /\ byId' = byId \ {t}
  /\ state' = [state EXCEPT ![t] = "done"]

\* A cancel:<id> button; buttons of finished tasks stay in the chat.
CancelById(t) ==
  /\ mpc = "idle"
  /\ t \in byId
  /\ state[t] = "cancelling" => RepeatCancel
  /\ \/ /\ state[t] = "running"
        /\ mpc' = "lookup"
        /\ cur' = t
        /\ UNCHANGED registryVars
     \/ /\ state[t] # "running"
        /\ RemoveQueued(t)
        /\ UNCHANGED <<running, enqueuedAt, clock, mpc, cur>>
  /\ UNCHANGED <<grabbed, victims, procVars, workerVars, chatVars>>

\* Mutation: no answer for a task that is gone by the second look-up.
LookUpKey_Waits ==
  /\ mpc = "lookup"
  /\ cur \in byId
  /\ mpc' = "cancelkey"
  /\ UNCHANGED <<cur, grabbed, victims, registryVars, procVars, workerVars,
                 chatVars>>

\* handle_cancel looks the running task up again, in a critical section of
\* its own, to learn its key.
LookUpKey ==
  /\ mpc = "lookup"
  /\ IF cur \in byId
       THEN mpc' = "cancelkey" /\ UNCHANGED cur
       ELSE mpc' = "idle" /\ cur' = None
  /\ UNCHANGED <<grabbed, victims, registryVars, procVars, workerVars,
                 chatVars>>

CancelFoundKey == mpc = "cancelkey" /\ CancelKeys({KeyOf[cur]})

\* _cancel_task reads task.proc under the lock ...
ReadHandle(t) ==
  /\ mpc = "killing"
  /\ t \in victims
  /\ grabbed' = handle[t]
  /\ victims' = victims \ {t}
  /\ cur' = t
  /\ mpc' = "kill"
  /\ UNCHANGED <<registryVars, procVars, workerVars, chatVars>>

\* ... and kills outside it.  None and a process that is already gone are
\* no-ops of _kill_tree; SIGKILL ends any other.
KillTree ==
  /\ mpc = "kill"
  /\ live' = [live EXCEPT ![cur] = @ /\ grabbed # tries[cur]]
  /\ mpc' = IF victims = {} THEN "idle" ELSE "killing"
  /\ cur' = None
  /\ grabbed' = 0
  /\ UNCHANGED <<victims, handle, tries, registryVars, workerVars, chatVars>>

-----------------------------------------------------------------------------
(* A worker thread: _claude_worker, or _media_worker_task, and run_claude. *)

Goto(t, from, to) ==
  /\ pc[t] = from
  /\ pc' = [pc EXCEPT ![t] = to]
  /\ UNCHANGED <<nxt, wasCancelling>>

\* send(): whatever goes wrong is swallowed, so the caller cannot tell a
\* message that arrived from one that did not.
Say(t) ==
  /\ \/ answered' = answered \cup {t} /\ UNCHANGED lost
     \/ lost' = [lost EXCEPT ![t] = @ + 1] /\ UNCHANGED answered
  /\ UNCHANGED cancelled

\* "Думаю…" (claude) or "Скачиваю…" (media) is on its way to the chat.
Hello(t) ==
  /\ Goto(t, "hello", IF IsMedia(t) THEN "fetch" ELSE "spawn")
  /\ UNCHANGED <<registryVars, procVars, mainVars, chatVars>>

\* Download, then file-intake or a temporary file.
Fetch(t) ==
  /\ Goto(t, "fetch", "gate")
  /\ UNCHANGED <<registryVars, procVars, mainVars, chatVars>>

\* Mutation: the error of a failed download is only logged.
FetchFails_Silent(t) ==
  /\ Goto(t, "fetch", "final")
  /\ UNCHANGED <<registryVars, procVars, mainVars, chatVars>>

\* A failed download or intake: the error goes out whatever the task's state.
FetchFails(t) ==
  /\ Goto(t, "fetch", "final")
  /\ Say(t)
  /\ UNCHANGED <<registryVars, procVars, mainVars>>

\* A media task that was cancelled meanwhile skips run_claude.
Gate(t) ==
  /\ Goto(t, "gate", IF state[t] = "cancelling" THEN "final" ELSE "spawn")
  /\ UNCHANGED <<registryVars, procVars, mainVars, chatVars>>

\* _spawn: the process exists before any other thread can know of it.
Spawn(t) ==
  /\ Goto(t, "spawn", "store")
  /\ tries' = [tries EXCEPT ![t] = @ + 1]
  /\ live' = [live EXCEPT ![t] = TRUE]
  /\ UNCHANGED <<handle, registryVars, mainVars, chatVars>>

\* Popen raises: run_claude returns the error as the output.
SpawnFails(t) ==
  /\ Goto(t, "spawn", "check")
  /\ UNCHANGED <<registryVars, procVars, mainVars, chatVars>>

StoreHandle(t) ==
  /\ Goto(t, "store", "wait")
  /\ handle' = [handle EXCEPT ![t] = tries[t]]
  /\ UNCHANGED <<tries, live, registryVars, mainVars, chatVars>>

\* The claude process ends by itself.
ProcessExits(t) ==
  /\ live[t]
  /\ live' = [live EXCEPT ![t] = FALSE]
  /\ UNCHANGED <<handle, tries, registryVars, workerVars, mainVars, chatVars>>

\* communicate() returns something to report.
Collect(t) ==
  /\ ~live[t]
  /\ Goto(t, "wait", "check")
  /\ UNCHANGED <<registryVars, procVars, mainVars, chatVars>>

\* Mutation: the fallback is tried again and again.
CollectNothing_Repeats(t) ==
  /\ ~live[t]
  /\ HasFallback(t)
  /\ Goto(t, "wait", "recheck")
  /\ UNCHANGED <<registryVars, procVars, mainVars, chatVars>>

\* communicate() returns a failed --continue run without output.
CollectNothing(t) ==
  /\ ~live[t]
  /\ HasFallback(t)
  /\ tries[t] = 1
  /\ Goto(t, "wait", "recheck")
  /\ UNCHANGED <<registryVars, procVars, mainVars, chatVars>>

\* Mutation: TimeoutExpired is reported, the process left running.
TimesOut_NoKill(t) ==
  /\ live[t]
  /\ Goto(t, "wait", "check")
  /\ UNCHANGED <<registryVars, procVars, mainVars, chatVars>>

\* Mutation: communicate() without a timeout.
TimesOut_Never(t) ==
  /\ live[t]
  /\ Goto(t, "wait", "check")
  /\ FALSE
  /\ UNCHANGED <<registryVars, procVars, mainVars, chatVars>>

\* 3600 s are over: _run_once kills the process; no fallback.
TimesOut(t) ==
  /\ live[t]
  /\ Goto(t, "wait", "check")
  /\ live' = [live EXCEPT ![t] = FALSE]
  /\ UNCHANGED <<handle, tries, registryVars, mainVars, chatVars>>

\* Mutation: the fallback does not look at the task's state.
Recheck_Blind(t) ==
  /\ Goto(t, "recheck", "spawn")
  /\ UNCHANGED <<registryVars, procVars, mainVars, chatVars>>

\* The fallback run, unless the task was cancelled between the two.
Recheck(t) ==
  /\ Goto(t, "recheck", IF state[t] = "cancelling" THEN "check" ELSE "spawn")
  /\ UNCHANGED <<registryVars, procVars, mainVars, chatVars>>

\* Mutation: the output is sent whatever the state.
CheckOutput_Blind(t) ==
  /\ Goto(t, "check", "send")
  /\ UNCHANGED <<registryVars, procVars, mainVars, chatVars>>

\* Only the claude worker looks at the state before it sends the output.
CheckOutput(t) ==
  /\ Goto(t, "check", IF state[t] = "cancelling" /\ ~IsMedia(t)
                        THEN "final" ELSE "send")
  /\ UNCHANGED <<registryVars, procVars, mainVars, chatVars>>

SendOutput(t) ==
  /\ Goto(t, "send", "final")
  /\ Say(t)
  /\ UNCHANGED <<registryVars, procVars, mainVars>>

\* finally: was_cancelling is read before, and outside, finish().
ReadCancelling(t) ==
  /\ pc[t] = "final"
  /\ wasCancelling' = [wasCancelling EXCEPT ![t] = state[t] = "cancelling"]
  /\ pc' = [pc EXCEPT ![t] = "finish"]
  /\ UNCHANGED <<nxt, registryVars, procVars, mainVars, chatVars>>

\* finish(key): whatever task runs under the key is done; the head of the
\* queue takes its place, still without a thread.
Finish(t) ==
  LET k == KeyOf[t]
      done == running[k]
      next == IF queues[k] = <<>> THEN None ELSE Head(queues[k])
  IN  /\ pc[t] = "finish"
      /\ running' = [running EXCEPT ![k] = next]
      /\ queues' = [queues EXCEPT ![k] = IF @ = <<>> THEN @ ELSE Tail(@)]
      /\ state' = [u \in Task |-> IF u = next THEN "running"
                                  ELSE IF u = done THEN "done" ELSE state[u]]
      /\ byId' = (byId \ {done}) \cup ({next} \ {None})
      /\ nxt' = [nxt EXCEPT ![t] = next]
      /\ pc' = [pc EXCEPT ![t] = "ping"]
      /\ UNCHANGED <<enqueuedAt, clock, wasCancelling, procVars, mainVars,
                     chatVars>>

\* Mutation: the suppressed ping returns from the whole finally block.
DonePing_Returns(t) ==
  /\ pc[t] = "ping"
  /\ pc' = [pc EXCEPT ![t] = IF nxt[t] = None \/ wasCancelling[t]
                               THEN "end" ELSE "start"]
  /\ wasCancelling' = [wasCancelling EXCEPT ![t] = FALSE]
  /\ IF wasCancelling[t] THEN UNCHANGED chatVars ELSE Say(t)
  /\ UNCHANGED <<nxt, registryVars, procVars, mainVars>>

\* _done_ping: "Готово" goes to the chat unless wasCancelling[t].
DonePing(t) ==
  /\ pc[t] = "ping"
  /\ pc' = [pc EXCEPT ![t] = IF nxt[t] = None THEN "end" ELSE "start"]
  /\ wasCancelling' = [wasCancelling EXCEPT ![t] = FALSE]
  /\ IF wasCancelling[t] THEN UNCHANGED chatVars ELSE Say(t)
  /\ UNCHANGED <<nxt, registryVars, procVars, mainVars>>

StartNext(t) ==
  /\ pc[t] = "start"
  /\ pc' = [pc EXCEPT ![t] = "end", ![nxt[t]] = "hello"]
  /\ nxt' = [nxt EXCEPT ![t] = None]
  /\ UNCHANGED <<wasCancelling, registryVars, procVars, mainVars, chatVars>>

-----------------------------------------------------------------------------
WorkerStep(t) ==
  \/ Hello(t) \/ Fetch(t) \/ FetchFails(t) \/ Gate(t)
  \/ Spawn(t) \/ SpawnFails(t) \/ StoreHandle(t)
  \/ Collect(t) \/ CollectNothing(t) \/ TimesOut(t) \/ Recheck(t)
  \/ CheckOutput(t) \/ SendOutput(t)
  \/ ReadCancelling(t) \/ Finish(t) \/ DonePing(t) \/ StartNext(t)

\* What the main loop does on its own once a command has begun.
MainStep ==
  \/ StartDispatched \/ LookUpKey \/ CancelFoundKey \/ KillTree
  \/ \E t \in Task : ReadHandle(t)

UserStep ==
  \/ \E t \in Task : Dispatch(t) \/ CancelById(t)
  \/ \E k \in Key : CancelKey(k)
  \/ CancelAll

Next ==
  \/ UserStep
  \/ MainStep
  \/ \E t \in Task : WorkerStep(t) \/ ProcessExits(t)

Spec == Init /\ [][Next]_vars

\* Threads are scheduled and every subprocess wait has a timeout, so each
\* thread that can take a step takes one; users owe nothing.
FairSpec ==
  /\ Spec
  /\ WF_vars(MainStep)
  /\ \A t \in Task : WF_vars(WorkerStep(t))
-----------------------------------------------------------------------------
(* Properties.                                                             *)

\* The thread that will start a task that is active but has no worker yet.
StartedByMain(t) == mpc = "start" /\ cur = t
StartedBy(u, t) == pc[u] \in {"ping", "start"} /\ nxt[u] = t

\* The task is in its queue or active.
Registered(t) == \/ t \in ToSet(queues[KeyOf[t]])
              \/ running[KeyOf[t]] = t

\* Two claude processes of one key would work in one directory and continue
\* one conversation: whatever commands, exits and timeouts interleave, a
\* key has at most one live process (enqueue, finish, run_claude, _kill_tree).
OneProcessPerKey ==
  \A t, u \in Task :
    live[t] /\ live[u] /\ KeyOf[t] = KeyOf[u] => t = u

\* finish(key) is given a key, not a task: it must only ever retire the task
\* of the worker that calls it, so a worker owns its key until then.
WorkerOwnsKey ==
  \A t \in Task : pc[t] \in Executing => running[KeyOf[t]] = t

\* A key is never blocked by a task nobody works on: every active task has a
\* worker, or exactly one thread that is about to start it (the contract of
\* enqueue and finish: "caller must start its worker thread").
ActiveIsServed ==
  \A t \in Task :
    running[KeyOf[t]] = t /\ pc[t] \notin Executing =>
      /\ pc[t] = "none"
      /\ StartedByMain(t) \/ \E u \in Task : StartedBy(u, t)
      /\ \A u \in Task : ~(StartedByMain(t) /\ StartedBy(u, t))
      /\ \A u, w \in Task : StartedBy(u, t) /\ StartedBy(w, t) => u = w

\* Nobody waits behind a free key (finish() would never come to promote it).
NoWaitBehindFreeKey ==
  \A k \in Key : queues[k] # <<>> => running[k] # None

\* No key stalls: the two together are what lets every queue move on.
KeysNeverStall == ActiveIsServed /\ NoWaitBehindFreeKey

\* Every id /cancel still finds is waiting or active, and every waiting id
\* can be found: cancel and /queue speak about the same tasks.
IdsAreCurrent ==
  /\ \A t \in byId : Registered(t)
  /\ \A k \in Key : ToSet(queues[k]) \subseteq byId

\* A task that nobody cancelled ends in two messages, its output or error and
\* the final ping, and send() swallows the failure of either: a worker that
\* is done has reached the chat with one of them unless both were lost.
EndIsReported ==
  \A t \in Task : pc[t] \in {"start", "end"} =>
                    t \in answered \cup cancelled \/ lost[t] >= 2

\* The worker of a task that was cancelled while it ran does not send the
\* task's output ("If task was cancelled, suppress output", workers.py).
CancelledIsSilent ==
  [][\A t \in cancelled : pc[t] = "check" /\ ~IsMedia(t) => pc'[t] # "send"]_vars

\* "If task was cancelled between the two _run_once calls, do not start the
\* fallback process" (claude_runner.py).
NoFallbackAfterCancel ==
  [][\A t \in cancelled : pc[t] = "recheck" => pc'[t] # "spawn"]_vars

\* "Store proc handle under lock so cancel can always see it"
\* (claude_runner.py): a cancel that looks for the process of a task finds
\* the one that is alive.
CancelSeesProcess ==
  [][\A t \in victims \ victims' : live[t] => grabbed' = tries[t]]_vars

\* Every dispatched task is retired: it does not stay in its queue, or active
\* under its key, for ever (timeouts bound each wait of its worker, and
\* finish() passes the key on).
EveryTaskIsRetired ==
  \A t \in Task : Registered(t) ~> ~Registered(t)

\* A cancel command comes to its end, so the main loop takes updates again.
MainLoopReturns == mpc # "idle" ~> mpc = "idle"

-----------------------------------------------------------------------------
(* The registry implements the serial executor.                            *)

\* A task is active from the start of its thread to the end of finish().
PhaseOf(t) ==
  IF state[t] = "new" THEN "new"
  ELSE IF pc[t] \in Executing THEN "active"
  ELSE IF pc[t] # "none" THEN "ended"
  ELSE IF Registered(t) THEN "waiting" ELSE "dropped"

Phase == [t \in Task |-> PhaseOf(t)]

Executor == INSTANCE SerialExecutor WITH phase <- Phase, since <- enqueuedAt

\* FIFO per key, one at a time, and no start after a drop.
ImplementsExecutor == Executor!Spec
=============================================================================
