# Claude Agent Studio in TLA+

Models, model-checking runs and proofs about the concurrent and algorithmic core of this repository: the
Telegram bridge (`bot/`), the task-router (`services/task-router/`) and the file-intake service
(`services/file-intake/app/`). Line numbers refer to the sources at this commit; `PROJECT.json` maps every
definition to the lines it stands for.

## 1. The system and its parts

The system is four services: the **bot** (Python), the **task-router** (Go), **file-intake** (FastAPI)
and **whisper**. A chat message becomes a task of the bot, a task becomes a `claude` process in the
directory of its mode, each shell command that process wants to run passes the approval hook, and the
hook asks the user through the bot. Agents ask the task-router over HTTP who should take a task. Voice
messages go through file-intake, which also keeps notes and files in Trilium.

| Component | State | Operations | Talks to |
|---|---|---|---|
| Task registry `tgbridge/state.py` | `running`, `queues`, `tasks_by_id` under one lock; each `Task` | `enqueue`, `finish`, the three cancels | called by the main loop and by every worker thread |
| Workers `workers.py`, `media.py`, `claude_runner.py`, `process.py` | thread position, the `Popen` handle in `Task.proc` | run, fall back from `--continue`, time out, kill, report, pass the key on | registry, Telegram, file-intake, `claude` |
| Approval gate `approval-hook.sh`, `handlers.py`, `app.py` | files PENDING and DECISION, without a lock | classify, ask, poll, expire; button, typed yes/no, boot clean-up | one hook process per command; bot main loop |
| Classifier `classifier.py` | locals of one call | segment, tokenize, resolve, match rules, fold | run by the hook |
| Update loop `app.py`, mode `panel.py` | update offset, the batch; the mode file; the ask-IPC file | drain at start-up, poll, retry, dispatch; switch and read the mode | Telegram; everything above |
| Live panel `panel.py` | message id on disk, time of last edit | debounced edit-or-send | refreshed by main loop and workers |
| Router handlers `httpapi/server.go` | registry pointer (RCU), `triage_cache` in SQLite | `/route`, `/triage/callback`, `/registry/reload` | parser, matcher, store |
| Parser, matcher, registry | immutable catalog snapshot | normalise, score, choose; validate, load | called by the handlers |
| Routing log `server.go`, `store.go` | bounded channel, `routing_log` table | `logRouting`, worker, `flushLog`, `Aggregate`, `Shutdown` | every handler, one worker |
| Dispatcher `dispatcher.go` | locals of one call | `Build`, `schedule` | `/dispatch` |
| Catalog linter `tagcatalog/validate.py` | none | judge `tags.yaml` before the router reads it | contributors, CI |
| File intake `main.py`, handlers, Trilium client `trilium.py` | one coroutine per upload; notes and attachments in Trilium | analyse, save a note, attach the file, link it | bot and browsers; Claude, whisper, Trilium |
| Whisper server | none | transcribe | file-intake |

**What is hard in it.** Worker threads, the main loop and the exits and timeouts of processes meet in a
registry whose lock is released between looking and acting; cancel commands are repeated and come late.
Several hook processes and the bot share two files by name, and each of them may be killed or restarted
between two accesses. HTTP handlers race with catalog reloads and with a shutdown, over a channel that drops
when full. The bridge acknowledges an update to Telegram only with its next poll, and may die, or lose the
answer of a poll, in between. An upload is a chain of requests to Trilium that may stop, or succeed unheard,
at every link, while the client gives up and sends the file again. The planner and the classifier are
sequential, but their case analysis (caps, cycles, repeated ids; quotes, escapes, operators, rule order)
outruns what the tests list. `PROJECT.json` lists the hazards one by one with the property that watches
each.

**What makes each part correct.**

- *Registry*: a key is served by one task at a time, in FIFO order; never stuck; a cancelled task is
  silent, starts nothing, and its process dies; every task is retired, and the user told of its end unless
  every message about it is lost.
- *Approval gate*: a command that has to ask runs only on an answer given to it while it waited; no
  request outlives its hook; every hook ends.
- *Classifier*: the segments judged are those of the command's quotes, escapes and operators; nothing is
  allowed unless each segment, as the command the code finds in it, is vetted; a hard rule is not outvoted.
- *Update loop*: no update is handled twice, or acknowledged without having been handled or skipped; what
  a start-up skips is not run; prompts run in the mode chosen last, apart from failures of the
  mode file; every update is taken.
- *File intake*: a note is whole whatever fails; an analysis is saved twice only if the first client
  heard nothing.
- *Router*: cache rows and answers never mix catalog versions; an agent that is chosen is active and
  covers the task; what the linter passes the router loads, if nothing in it is padded with spaces.
- *Routing log*: metrics and shutdown lose nothing that was queued; readers do not hang.
- *Dispatcher*: heavy cap, dependency order, progress; no task of a batch is left out, except by a cycle or
  because a later one repeats its id.

## 2. Modules

| Module | Models |
|---|---|
| `SerialExecutor` | abstract: what the registry promises its users |
| `TaskRegistry` | registry, workers, processes, dispatch and cancel; refines `SerialExecutor` |
| `ApprovalGate` | hook processes, the two files, the bot's side |
| `UpdateLoop` | polls, offset, batch, start-up drain, mode file, ask-IPC, crashes of the bridge |
| `FileIntake` | `POST /process`, its handlers and the Trilium client |
| `RoutingLog` | channel, worker, `/metrics`, `Shutdown` |
| `Dispatcher` | `Build` and `schedule` |
| `Matching` | operators: registry validation, parser, matcher |
| `CatalogLint` | operators: the linter of `tags.yaml`, over the same catalogs |
| `TriageRouting` | the concurrent handlers over `Matching` and `CatalogLint` |
| `Classifier` | scanner, tokenizer, rules and fold |
| `MC*` | instances for TLC |
| `*Proofs` | inductive invariants and theorems |

Definitions with an underscore in their name (`Worse_Last`, marked *Mutation*) are not part of any
specification. Each is a plausible bug in the definition that follows it; put in its place, it makes
TLC report the property that is meant to catch it.

## 3. How the modules correspond to the code

**`TaskRegistry`.** The three dictionaries under the lock are `running`, `queues`, `byId`; `state` and
`enqueuedAt` are fields of `Task`. One action is one critical section of the lock, or one step outside
it that another thread can observe: a worker's `pc` walks through its thread (`hello` "Думаю…",
`fetch`/`gate` for media, `spawn` (Popen), `store` (the handle under the lock), `wait`
(`communicate`), `recheck` and a second round for the run without `--continue`, `check`, `send`,
`final` (`was_cancelling`), `finish`, `ping`, `start`). `tries`, `live` and `handle` are the processes
spawned for a task, whether the latest lives, and which of them `Task.proc` refers to. The main loop
(`mpc`) is sequential: it dispatches or works off one cancel command, including the two look-ups of
cancel by id and the kills after the lock is released. `_kill_tree` of a dead or missing process is a
no-op; of a live one it ends it, SIGTERM or SIGKILL. A download, file-intake and `Popen` may fail and
are reported; a message to the chat may be lost without anyone noticing, because `send` swallows its
failures (`Say`): `lost` counts those about a task's end, `answered` has the tasks of which one arrived, and
the thread goes on in either case.

`SerialExecutor` has no threads, queues or lock: a task is new, waiting, active, and then ended or
dropped. The refinement mapping (`Phase`) takes a task as active from the start of its thread to the
end of `finish()`, so a promotion by `finish` maps to a stutter and the start of the promoted task's
thread to `Start`.

**`ApprovalGate`.** Each hook is a process with its own `pc`; `Classify` stands for the verdict (the
`Classifier` module says which one). Files are names: a process that opened a file still writes to it
after someone removed the name, hence `pendingFds` and `decisionFd`. `"torn"` is a file that exists
and is still empty. The user presses a button for a request that was shown or types yes or no at
any time, the bot crashes and restarts at any time (removing both files, `app.py:27-31`), a hook may be
killed at any time. The bot handles updates one after another. Both sides are taken to use one directory:
`approval-hook.sh:6` has `/tmp/agent`, `config.py:19` the value of `AGENT_IPC_DIR`, by default
`/tmp/agent-studio`; unless it is set to the former, no hook ever sees an answer and every one expires.

**`UpdateLoop`.** `inbox` is what users sent, an update's id its index; `confirmed` is Telegram's memory of
what it may forget. `offset`, and `next..last` for the rest of the batch, are locals of `main()`. The
start-up poll (`Drain`) sees at most `Limit` updates, as any poll does; a poll confirms what lies before its
offset whether its answer arrives or not (`PollFails`). A crash loses offset, batch and tasks, and keeps the
mode file. Updates are told apart by the branch of the loop they take (`Kind`); a yes or no may also be the
answer to an approval request, which is looked for first. `set_mode` is two actions, since `open(..., "w")`
empties the file another thread may read, and each may fail: it swallows every exception, so a file that
cannot be opened keeps its mode (`SwitchFails`) and one that cannot be written stays empty (`WriteFails`),
while the user reads that the mode is the new one. `want` is what the user chose last, `before` the mode
that stayed in force instead, `cut` says that the write did not end; `times`, `dropped` and `ran` record
what was handled, skipped and run where. What handling an update does to the task registry or to an approval
is in the other two modules of the bot: their main loops (`mpc`, the bot's side) are this loop seen from
there.

**`FileIntake`.** One coroutine per upload (`stage`), each `await` a step. A request to Trilium succeeds,
fails, or succeeds while its answer is lost, so every failing action has both effects. A note is the set of
its parts: the result (an analysis, or the apology of the audio handler when whisper or the recording fails;
an answer of whisper that is no transcript is an error, because it is read outside the handler's `try`), the
user's edits, the link. `client` is what the uploader heard; `GiveUp` is the 300 s limit of the bot,
`Restart` the container. The caption, the HTML and the section of a note are left out.

**`CatalogLint`.** What sections 3 to 8 of `validate()` test, as predicates on a catalog; the code's
passes over lists in file order come to the same, because a word that is met twice is reported whichever
comes first. Words are as the file spells them, and each program reads them its own way: the linter takes
aliases in lower case and everything else as it stands, the loader (`Matching.Norm`, `NameOf`) also trims.
`FitsSchema` is what `tags.schema.json` adds where the two could differ. A padded alias or name can
therefore pass the linter and be refused by the loader; `LintedReloadsLand` names that exception
(`HasNoPadding`) and holds without any other.

**`Classifier`.** A command is a sequence of atoms: words, blanks, quotes, backslash, operators. The
scanner of `_split_segments` is a state machine with one action per branch of its loop; then
`_detect_bypass`, then the fold, one segment a step. Words are raw: `_resolve_command` compares them as they
are spelled with `env`, `sudo` and `doas`, after stripping leading parentheses (`Ungrouped`), and only the
word it ends at is taken to its base name in lower case (`BaseName`). `/usr/bin/env` or `ENV` is thus no
wrapper but a command of its own, by name the allow-listed `env`, and the command behind it an argument. The
properties speak of the command the code finds, and say so. What several atoms of one token read as is left
to the instance (`Glue`). The `-S` sentinel of `env` leaves a segment without a command (`SplitFlags`), also
when the flag is quoted and no pattern of `_detect_bypass` sees it; the segment is then asked about. Rules
are data, as in the code: a deny rule has the commands it is for and the arguments that must and must not be
there, an allow rule likewise, with a bound on their number (a bare `crontab`). That is the shape of nearly
all of `_match_deny` and `_check_segment_allow`; positions of sub-commands, path prefixes and the few regular
expressions inside are abstracted to words, and the bypass patterns to a predicate on the command
(`IsOpaque`). `shlex.split` is external and modelled by its POSIX rules. The reference the scanner is
compared with, `Readings`, does not scan: it asks for a tiling of the command by lexemes, and `Pieces` takes
the text between the bare separators of that tiling. It is a reading of quotes, escapes and operators only:
like the scanner it knows no `#` comments and takes the `&` of `2>&1` for an operator, which a shell would
not.

**`Matching` and `TriageRouting`.** `Matching` has the pure part: `IsValid` (the checks of `BuildRegistry`,
on words and names as it reads them, in lower case and trimmed; rows that are the same in every field count
once), `NormalizeTags`, scores in integers, the pin, low confidence. In `TriageRouting` a handler loads the
registry pointer once and keeps that snapshot; each cache query and each reload step is an action. A catalog
is its own version (the code uses its SHA-256), a text its own hash; `HashText` drops `#` and `@`, so that
in the code texts which differ only in these share a cache row, and are different texts here. `EditCatalog`
is the operator writing `tags.yaml`.

**`RoutingLog`.** Handlers queue one entry each; `/dispatch` logs one entry per task of its batch,
which the model covers as so many requests of one entry (their replies may come in any order, the
code's come together: more behaviours, never fewer). `Aggregate` is the first of the store's two queries,
which counts; either may fail, and the reader then gets an error (`AggregateFails`). `main` is not in the
repository, so `Shutdown` may come at any moment; a send on the closed channel panics and `net/http`
ends that request only.

**`Dispatcher`.** `Build` matches one task a step and `schedule` fills one wave a step, sorted by score
and id, with the greedy heavy cap. What the parser and matcher make of a task is its *fate*. An assignment
remembers which task of the batch it is for, because tasks may carry the same id: the later overwrites the
earlier (`dispatcher.go:93`).

## 4. Runs

| Run | Question | Bounds |
|---|---|---|
| `registry_safety` | serial, FIFO, never stuck; a cancelled task is silent and starts no fallback; implements `SerialExecutor` | 3 tasks of one key, each cancelled once while active |
| `registry_live` | every task is retired, its end reported unless the messages are lost, main loop returns | 2 media tasks, repeated cancels |
| `registry_twice` | *refuted*: comment `claude_runner.py:68-69` | a mode and an agent key, one task each, cancel pressed twice |
| `registry_unseen` | *refuted*: comment `claude_runner.py:39` | the same, cancelled once |
| `approval_pass` | no stale approval, no left-over request, hooks end | 2 hooks, 1 poll each |
| `approval_own_answer` | *refuted*: `bot/README.md:68-69` | 2 hooks |
| `log_pass` | metrics and shutdown lose nothing queued | 2 entries, 2 readers, capacity 2 |
| `dispatcher_pass` | cap, order, progress, completeness, termination | all batches of 3, batches that repeat an id, `max_parallel` 0, 1, 4 |
| `router_pass` | rows and answers keep to one catalog version; linted, unpadded catalogs load | 1 route, 2 callbacks, 2 reloads, 4 catalogs |
| `classifier_pass` | segments, rule order, fold | all strings of at most 5 of 10 atoms; all joins of up to 3 of 26 segments |
| `updates_pass` | no update twice, forgotten, or run stale; the mode sticks but for failures of its file; every update is taken | 3 updates, batches of 2, 2 lives, 3 modes |
| `intake_pass` | notes are whole; one analysis per file | a voice message, an image and its repetition |

*Why the bounds are enough.* Three tasks of one key give an active one and a queue in which order and
removal from the middle of the queue's life matter; keys share nothing but `cancel all` and the look-up by
id, which the two refuted runs exercise with two keys. One poll more only repeats a poll. Two entries and
two readers fill a channel of two and leave a third sender waiting. Two callbacks and two reloads give every
order of load, swap and write for a row under two versions; `BuildRegistry` rejects the third and the fourth
catalog, of which the linter passes the latter, where one agent has the name of another with a space behind
it. Three tasks contain chains, cycles of two and three, and one heavy task more than the smallest cap; a
third task that repeats the id of the first overwrites it behind a task that may wait for it. The 26
segments meet every rule of the excerpted tables, both spellings of a wrapper, `-S` bare and quoted, and
grouping; for all 90,050 commands of the instance the model's verdict was compared with that of `classify()`
itself, without a difference. Five atoms hold a quoted or escaped operator between two words. Three updates
with batches of two give a batch in which the bridge dies, a backlog larger than one answer, and an update
behind both; a third life would repeat the second. Uploads meet only through the retry and the restart, so a
pair of equal files and one that differs are enough. The proofs of section 5 remove these bounds for the
safety properties.

*Symmetry.* `registry_safety` takes tasks of one key, `router_pass` callbacks and reloads, as interchangeable:
their specifications and properties name none of them, and neither run has a liveness property.

*Bounds in the models.* `MaxPolls` (300 in the code), `Capacity` (`logQueueSize`), two claude attempts per
task (the code's own), `MaxUpdates`, `MaxStarts` and `Limit` (100 in Telegram) of `UpdateLoop`,
`RepeatCancel` (whether a cancel button is pressed again while the task is being cancelled) and the sets of
the instances. No guard caps a counter beyond these.

*Fairness.* `TaskRegistry`: weak fairness of each worker thread and of the main loop's own steps. It is
justified because every wait in them is bounded in time: `communicate` by 3600 s, `_kill_tree` by its
grace, network calls by their timeouts. Nothing is assumed of users or of the processes themselves:
they may hang until the timeout. `ApprovalGate`: each hook runs on; nothing is assumed of the bot or
the user. `RoutingLog`: the worker and the readers are goroutines the scheduler runs; no client has to
come, and no `Shutdown`. `Dispatcher`: a function that runs until it returns. `UpdateLoop`: the loop runs
on and is started again when it died (`restart: unless-stopped` in `docker-compose.yml`, or the unit of
`bot/README.md`): weak fairness of its steps. A poll may fail any number of times; strong fairness of
`Poll` says that of polls repeated for ever one succeeds in the end, which is what a network that is not down
for good gives. The other specifications need none.

*Deadlock.* It is checked in the registry, approval and update-loop runs (there is always something a user
or the loop may do) and in `classifier_pass`, where it shows that every command reaches a verdict. The
log, the planner, the router and the intake stop when every request of the instance has been answered.

*The refuted statements.*

1. `registry_twice`. The fallback check looks for the state `cancelling`. A second press of the
   button finds the id still registered, the state neither running nor queued, and sets it to `done`;
   the fallback process then starts for a task that was cancelled twice.
2. `registry_unseen`. A cancel between `Popen` and the store of the handle kills nothing; the process
   runs to its end, and only its output is suppressed.
3. `approval_own_answer`. The id of a request is checked when a button is pressed, but DECISION does
   not carry it, so the hook that polls first takes the answer.

`registry_safety` holds `NoFallbackAfterCancel` for a single cancel: the pair shows how far the statement is
true. In the same way `log_pass` holds `MetricsMissOnlyLost`, which is what remains of the comment at
`server.go:552-554` ("the metrics reflect every decision already returned to clients"): a full channel drops an
entry whose client has its answer, and `/metrics` never counts it.

## 5. Proofs

All of the following hold for every value of the constants that satisfies the named assumption of the
module (`ConstantsAssumption`: finiteness of the sets of tasks, hooks and entries, disjointness;
`TablesAssumption`: types of the rule tables, hard rules first; `SpellingAssumption`: types of the conversions
of words).

- `TaskRegistryProofs`. The safety properties are not inductive: that a worker owns its key depends on
  queues holding only waiting tasks, and that in turn on nobody starting a task that is still queued. `IInv`
  adds: queues hold queued tasks of their key without a worker, sorted by age, behind an older active one; a
  thread that holds a task to start holds one that is active and has no worker, and no two threads hold the
  same; a process lives only while its worker is at `store` or `wait`. From the last and `WorkerOwnsKey`,
  `OneProcessPerKey` follows. Proved: `TypeOK`, `WorkerOwnsKey`, `OneProcessPerKey`, `KeysNeverStall`,
  `IdsAreCurrent`. Two more invariants on top of it. `ReportInv` counts: past its report a worker has told
  the user, or was cancelled, or one message was lost; past the final ping it takes two lost messages for
  the user to hear nothing, which is `EndIsReported`. That the mark of a cancel stays on an active task
  gives, from the assumption that no active task is cancelled twice (`~RepeatCancel`), `CancelledIsSilent`
  and `NoFallbackAfterCancel`. Without the assumption the last is what `registry_twice` refutes. On `IInv`
  alone rests `Implements`, the refinement `ImplementsExecutor`: `Dispatch` maps to `Submit`, the start of a
  worker to `Start`, `Finish` to `End`, a cancel to `Drop` of what it takes out of the queues, and every
  other step to a stutter; FIFO order comes from queues sorted by age behind an older active task.
- `ApprovalGateProofs`. The key conjunct is `FileIsFresh`: an *allow* in DECISION was written after
  every hook now waiting had cleared the file, because `rm` comes before a hook starts to wait.
  Proved: `TypeOK`, `AnsweredWhileWaiting`, `NoRequestOutlivesItsHook`.
- `RoutingLogProofs`. `MarkerIsBehind`: what a reader waits for is settled, in the worker's hands, or
  ahead of its marker in the channel. FIFO keeps it, and when the marker is reached nothing is left.
  Proved: `TypeOK`, `MetricsMissOnlyLost`, `ShutdownDrains`.
- `DispatcherProofs`. The greedy wave is shown to keep the cap and to be non-empty when anything is
  ready and the cap is positive; the cap is positive because of the clamp. Proved: `TypeOK`,
  `HeavyCap`, `DependenciesFirst`, `WavesMakeProgress`, `OnlyCyclesAreLeftOut`; the last needs that while
  `Build` is matching, each task before the next one is on the triage list, has its own assignment, or is
  one that a later task overwrites.
- `TriageRoutingProofs`. Rests on the lemma that normalising canonical tags again changes nothing in a valid
  catalog (no word means two tags), and on handlers keeping the snapshot they loaded. Proved:
  `RowsAreCanonical`, `CacheRepeatsTriage`. `LintedReloadsLand` follows from the lemma that, where nothing
  is padded, the loader reads the words the linter compared (`LoaderReadsAsSpelled`), so that the linter's
  checks imply `BuildRegistry`'s (`LintImpliesValid`), and from a reload swapping in the very file it read.
  `ChosenCovers` needs that two scores always compare, so that the best candidate exists: a score is a sum
  over finitely many postings of whole weights (`IsCatalog`, which says that of a parsed file), and the
  library's recursive sum is shown to be defined, and whole, on every finite set. Proved as well: `TypeOK`.
- `UpdateLoopProofs`. `HandledOnce` needs to know where handled updates can be: `Front` says that all of them
  lie before the offset, or, when the bridge lost its offset, within one answer of what Telegram has
  forgotten, so that the next drain skips them; a drain that fails costs one repetition. Proved: `TypeOK`,
  `HandledOnce`, `NothingIsForgotten`, and `StaleIsNotRun` as an action property of the same invariant.
  `ModeIsSticky` follows from what the mode file holds at each stage (`ModeOK`): the mode chosen last, the one
  before when that choice could not open the file, or nothing while it is open or after a write that did not
  end.
- `FileIntakeProofs`. Each stage of the coroutine determines what has been saved: a link is written only
  after the content, a copy holds only what is in the note, an error is answered only before the note.
  Proved: `TypeOK`, `NotesAreWhole`, `SavedOnce`.
- `ClassifierProofs`, the fold. Its verdict is no milder than that on any segment judged so far (`Folded`),
  and an answer comes after the last one. With the lemma that the first matching rule is hard when any is
  (`HardRuleDenies`; the tables have the hard rules first, none of them for crontab), this gives
  `HardRuleDecides`, and `InstallsAreListedFirst` for any allow rules, whatever the scanner and the
  tokenizer make of the command.
- `ClassifierProofs`, the scanner. `SegmentsAreTheReading` compares two unlike things: a loop over atoms with a
  flag for the open quote, and a tiling of the whole command. `ReadInv` ties them together at every atom
  (`Scanned`): the command up to some place has a reading, whose bare separators are the bars the
  scanner has cut at; the segments are the pieces before the last bar, the open segment is the text after it;
  and from that place on (`Within`) there is nothing, or a string that nothing has closed yet. Inside double
  quotes it also says that an even number of backslashes lies behind the scanner, which is what makes its
  taking them in pairs agree with the count in the definition. That a lexeme has one end (`LexemeEnds`) and
  that no prefix with a reading ends inside another reading's lexeme (`NoCutInside`) give that a
  command has one reading at most (`OneReading`). Proved for commands of any length: `TypeOK`,
  `SegmentsAreTheReading`; that an open quote at the end means there is no reading
  (`OnlyUnreadableIsRefused`); and, with the invariant of the fold, `AllowedIsVetted`.
  How a segment is cut into words (`Shlex`) and which of them is its command (`CommandAt`) is not opened: the
  theorems hold of any functions in their place. They say what is done about the command the code finds,
  not that this is the command a shell would run: behind a wrapper spelled with a path it is not. What the two
  compute is exercised by `classifier_pass` only.

*Recursion in the proofs.* `Readings` and the sum of scores are recursive functions. The induction theorems of
the library cannot be instantiated by the provers, so these proofs name the set of counterexamples, take its
least element (`LeastCounterexample`, from the well-foundedness of the naturals), and contradict it; that
the recursion defines a function at all is shown the same way (`PrefixReadingsAre`, `SumExists`).

*Only model-checked*: liveness (`EveryTaskIsRetired`, `MainLoopReturns`, `EveryHookEnds`, `FlushEnds`,
`PlanEnds`, `EveryUpdateIsTaken`), which is beyond the prover. Every safety property of a passing run is
proved; where `registry_safety` assumes a single cancel, so does the theorem.

## 6. Not modelled

- The **live panel** message: debounce and edit-or-send run unsynchronised in several threads, and may show
  an old state or skip one; it only displays (the mode file of the same module is in `UpdateLoop`).
- **Telegram, configuration, secrets masking, tracing, keyboards, texts, templates, agents' prompts**: I/O,
  formatting or data without state that the properties above depend on. The **whisper server** is a wrapper
  of an external speech model; what file-intake sees of it is in `FileIntake`.
- The **Telegram handlers of file-intake** (`cmd_start`, `cmd_help`, `handle_file`): `main()` starts only the
  web service and registers them nowhere.
- A **restart of the bot in `TaskRegistry`**: the bridge runs as a container or as a systemd unit, and either
  ends the `claude` processes with it, so that a new life starts with an empty registry. `UpdateLoop`
  models the crash and what it does to updates and the mode.
- Of the **linter**: its messages, and what of the JSON schema the loader does not look at.
- Of the **classifier**: shell comments, redirections as such, and the regular expressions behind the opaque
  constructs, which are a predicate of the instance.

Met while modelling:

- A wrapper spelled with a path or in capitals is compared as it stands (`classifier.py:634`, `669`), so the
  command behind it is an argument to the rules, and `/usr/bin/env` passes as the allow-listed `env`. The
  properties of the classifier hold of the command the code resolves and name this limit.
- Of two tasks of one batch with the same id the earlier is dropped without a trace (`dispatcher.go:93`);
  `OnlyCyclesAreLeftOut` names it.
- `set_mode` swallows its failures while the user is told of the switch (`panel.py:30-34`), and `send` those of
  a message (`tgapi.py:41`); `ModeIsSticky` and `EndIsReported` name them.
- `validate.py` compares words untrimmed, the loader trimmed (`validate.py:112`, `registry.go:152`, `165`);
  `LintedReloadsLand` names it.
- Without `AGENT_IPC_DIR=/tmp/agent` the hook and the bot look into different directories (section 3).
- The PDF handler passes `betas` to `messages.create`, which belongs to the beta client.
- The bot sends no `x-auth-token`, so that with `AUTH_TOKEN` set file-intake refuses every voice message, and
  the refusal's missing text becomes the prompt (`media.py:52`).
- While a question of an agent is open, a typed `/cancel` is taken as its answer (`app.py:146`).
- A panel refresh with nothing new to show posts a second panel, because Telegram refuses the edit and
  `panel.py:126` looks for "message is not modified" in the text of urllib's error ("HTTP Error 400: Bad
  Request"), not in the body.

## 7. Plan

Done, in this order: 1. `SerialExecutor`, `TaskRegistry` and its proofs; 2. `ApprovalGate`; 3. `RoutingLog`;
4. `Dispatcher`; 5. `Matching`, `TriageRouting`; 6. `Classifier`; 7. `UpdateLoop`; 8. `FileIntake`;
9. `CatalogLint`.

Next, proofs: what `Shlex` and `CommandAt` compute, so that the theorems about the classifier reach the
words of a segment as they now reach its segments. Next, models: redirections and comments in the reading
the scanner is compared with.
