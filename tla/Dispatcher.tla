----------------------------- MODULE Dispatcher -----------------------------
(***************************************************************************)
(* The fan-out planner of the task-router                                  *)
(* (services/task-router/internal/dispatcher/dispatcher.go): Build sorts a *)
(* batch into assignments and tasks that need triage, schedule layers the  *)
(* assignments into waves.  A task id is its rank in the code's string     *)
(* order; what the parser and the matcher make of a task is its fate.      *)
(***************************************************************************)
EXTENDS Integers, FiniteSets, SequencesExt

CONSTANTS
  TaskId,   \* ids that tasks may have
  Score,    \* scores the matcher may give
  Batch,    \* the batches: sequences of [id, fate, dependsOn]
  Request   \* values of max_parallel in a request

DefaultMaxParallel == 2
MaxAllowedParallel == 3

\* Needs triage, or goes to a heavy or a light agent with a score.  An
\* assignment also carries tags and agent of its task: here, which task of
\* the batch it was made for.
Assignment == [class : {"heavy", "light"}, score : Score, task : Nat]
Fate == [class : {"heavy", "light", "triage"}, score : Score]
TaskInput == [id : TaskId, fate : Fate, dependsOn : SUBSET TaskId]

ASSUME ConstantsAssumption ==
  /\ IsFiniteSet(TaskId)
  /\ TaskId \subseteq Nat
  /\ Score \subseteq Nat
  /\ Batch \subseteq Seq(TaskInput)
  /\ Request \subseteq Int

VARIABLES
  tasks,        \* the request's batch
  maxParallel,  \* the heavy cap of a wave
  next,         \* the task the matching loop is at
  assigns,      \* id -> its assignment
  needsTriage,  \* the tasks of the batch that could not be matched
  deps,         \* scheduled id -> the scheduled ids it waits for
  done,         \* ids planned so far
  waves,        \* the plan: a sequence of sets of ids
  pc            \* "match", "schedule" or "end"

vars == <<tasks, maxParallel, next, assigns, needsTriage, deps, done, waves,
          pc>>

\* Mutation: a limit below one is used as it is.
Clamp_NoDefault(n) == IF n > MaxAllowedParallel THEN MaxAllowedParallel ELSE n

Clamp(n) ==
  IF n <= 0 THEN DefaultMaxParallel
  ELSE IF n > MaxAllowedParallel THEN MaxAllowedParallel
  ELSE n

Scheduled == DOMAIN assigns
Heavy(id) == assigns[id].class = "heavy"

TypeOK ==
  /\ tasks \in Seq(TaskInput)
  /\ maxParallel \in 1..MaxAllowedParallel
  /\ next \in 1..(Len(tasks) + 1)
  /\ Scheduled \subseteq TaskId
  /\ assigns \in [Scheduled -> Assignment]
  /\ needsTriage \in Seq(1..Len(tasks))
  /\ pc # "match" => deps \in [Scheduled -> SUBSET Scheduled]
  /\ done \subseteq Scheduled
  /\ waves \in Seq(SUBSET TaskId)
  /\ pc \in {"match", "schedule", "end"}

Init ==
  /\ tasks \in Batch
  /\ \E n \in Request : maxParallel = Clamp(n)
  /\ next = 1
  /\ assigns = [id \in {} |-> {}]
  /\ needsTriage = <<>>
  /\ deps = [id \in {} |-> {}]
  /\ done = {}
  /\ waves = <<>>
  /\ pc = "match"

-----------------------------------------------------------------------------
(* Build: one pass over the batch.  A repeated id overwrites.              *)

MatchTask ==
  /\ pc = "match"
  /\ next <= Len(tasks)
  /\ LET t == tasks[next]
     IN  \/ /\ t.fate.class = "triage"
            /\ needsTriage' = Append(needsTriage, next)
            /\ UNCHANGED assigns
         \/ /\ t.fate.class # "triage"
            /\ assigns' = [id \in Scheduled \cup {t.id} |->
                             IF id = t.id
                               THEN [class |-> t.fate.class,
                                     score |-> t.fate.score, task |-> next]
                               ELSE assigns[id]]
            /\ UNCHANGED needsTriage
  /\ next' = next + 1
  /\ UNCHANGED <<tasks, maxParallel, deps, done, waves, pc>>

-----------------------------------------------------------------------------
(* schedule.                                                               *)

\* Mutation: dependencies on unknown tasks count.
DependsOn_Unrestricted(id) ==
  LET last == CHOOSE i \in 1..Len(tasks) :
                /\ tasks[i].id = id
                /\ \A j \in i + 1..Len(tasks) : tasks[j].id # id
  IN  tasks[last].dependsOn

\* The last task of that id counts; dependencies on tasks that need triage or
\* are absent are ignored.
DependsOn(id) ==
  LET last == CHOOSE i \in 1..Len(tasks) :
                /\ tasks[i].id = id
                /\ \A j \in i + 1..Len(tasks) : tasks[j].id # id
  IN  tasks[last].dependsOn \cap Scheduled

StartSchedule ==
  /\ pc = "match"
  /\ next > Len(tasks)
  /\ deps' = [id \in Scheduled |-> DependsOn(id)]
  /\ pc' = "schedule"
  /\ UNCHANGED <<tasks, maxParallel, next, assigns, needsTriage, done, waves>>

\* Mutation: one finished dependency is enough.
Ready_AnyDone ==
  {id \in Scheduled \ done : deps[id] = {} \/ deps[id] \cap done # {}}

Ready == {id \in Scheduled \ done : deps[id] \subseteq done}

\* sort.Slice: score descending, then id ascending.
Before(a, b) ==
  \/ assigns[a].score > assigns[b].score
  \/ assigns[a].score = assigns[b].score /\ a < b

HeavyAhead(id, ready) ==
  {b \in ready : Heavy(b) /\ Before(b, id)}

\* Mutation: the cap is checked after the task is added.
Fill_OneMore(ready) ==
  {id \in ready : Heavy(id) =>
                    Cardinality(HeavyAhead(id, ready)) <= maxParallel}

\* The greedy loop takes every light task, and heavy ones up to the cap.
Fill(ready) ==
  {id \in ready : Heavy(id) =>
                    Cardinality(HeavyAhead(id, ready)) < maxParallel}

AddWave ==
  /\ pc = "schedule"
  /\ done # Scheduled
  /\ Ready # {}
  /\ waves' = Append(waves, Fill(Ready))
  /\ done' = done \cup Fill(Ready)
  /\ UNCHANGED <<tasks, maxParallel, next, assigns, needsTriage, deps, pc>>

\* Mutation: a round that schedules nothing does not end the loop.
EndSchedule_NoBreak ==
  /\ pc = "schedule"
  /\ done = Scheduled
  /\ pc' = "end"
  /\ UNCHANGED <<tasks, maxParallel, next, assigns, needsTriage, deps, done,
                 waves>>

\* Everything is planned, or a cycle is left: the loop breaks.
EndSchedule ==
  /\ pc = "schedule"
  /\ done = Scheduled \/ Ready = {}
  /\ pc' = "end"
  /\ UNCHANGED <<tasks, maxParallel, next, assigns, needsTriage, deps, done,
                 waves>>

Next == MatchTask \/ StartSchedule \/ AddWave \/ EndSchedule

Spec == Init /\ [][Next]_vars

\* Build is a sequential function: it runs until it returns.
FairSpec == Spec /\ WF_vars(Next)

-----------------------------------------------------------------------------
(* Properties.                                                             *)

\* No wave runs more heavy agents than the cap allows, and the cap is at most
\* three: the plan respects the memory of the machine, whatever is asked.
HeavyCap ==
  \A w \in 1..Len(waves) :
    Cardinality({id \in waves[w] : Heavy(id)}) <= maxParallel

\* A planned task is in one wave, and every planned task it waits for is in an
\* earlier one.
DependenciesFirst ==
  \A w \in 1..Len(waves) : \A id \in waves[w] :
    /\ \A v \in 1..Len(waves) : id \in waves[v] => v = w
    /\ \A d \in deps[id] : \E v \in 1..Len(waves) : v < w /\ d \in waves[v]

\* No wave is empty, so the loop that fills waves makes progress.
WavesMakeProgress == \A w \in 1..Len(waves) : waves[w] # {}

\* A later task that is assigned under the same id replaces an assignment.
Overwritten(i) ==
  \E j \in i + 1..Len(tasks) :
    tasks[j].id = tasks[i].id /\ tasks[j].fate.class # "triage"

\* Build accounts for every task of the batch, each by itself: one that could
\* not be matched is on the triage list, and any other has its own assignment
\* in a wave or in what a cycle holds (it waits for another assignment that
\* is left out, never for a task that needs triage or is not in the batch).
\* The exception is the code's: an assigned task whose id a later one repeats
\* is overwritten and appears nowhere.
OnlyCyclesAreLeftOut ==
  LET leftOut == Scheduled \ done
      Placed(i) == LET id == tasks[i].id
                   IN  /\ id \in Scheduled /\ assigns[id].task = i
                       /\ \/ \E w \in 1..Len(waves) : id \in waves[w]
                          \/ id \in leftOut /\ deps[id] \cap leftOut # {}
  IN  pc = "end" => \A i \in 1..Len(tasks) :
        IF tasks[i].fate.class = "triage" THEN i \in ToSet(needsTriage)
        ELSE Placed(i) \/ Overwritten(i)

\* Build returns, also for cyclic batches and any max_parallel.
PlanEnds == <>(pc = "end")
=============================================================================
