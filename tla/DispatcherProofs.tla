-------------------------- MODULE DispatcherProofs --------------------------
(***************************************************************************)
(* For every batch, every set of scores and every max_parallel: a plan     *)
(* respects the heavy cap and the dependencies, has no empty wave and      *)
(* leaves out only what a cycle holds or a repeated id replaced.           *)
(***************************************************************************)
EXTENDS Dispatcher, FiniteSetTheorems, SequenceTheorems, TLAPS

\* done is what the waves hold.
DoneIsPlanned ==
  \A id \in TaskId : id \in done <=> \E w \in 1..Len(waves) : id \in waves[w]

\* Before scheduling nothing is planned.
PlanStartsEmpty == pc = "match" => done = {} /\ waves = <<>>

\* The task is on the triage list, or its own assignment is there, or another
\* one that its repetition put in its place.
Settled(i) ==
  IF tasks[i].fate.class = "triage" THEN i \in ToSet(needsTriage)
  ELSE /\ tasks[i].id \in Scheduled
       /\ assigns[tasks[i].id].task = i \/ Overwritten(i)

\* The matching loop has settled every task it passed.
Matched ==
  /\ \A i \in 1..Len(tasks) : i < next => Settled(i)
  /\ pc # "match" => next = Len(tasks) + 1

\* What the end leaves out is held by something else it leaves out.
HeldByCycle ==
  pc = "end" => \A id \in Scheduled \ done :
                  deps[id] \cap (Scheduled \ done) # {}

IInv ==
  /\ TypeOK
  /\ DoneIsPlanned
  /\ PlanStartsEmpty
  /\ Matched
  /\ HeldByCycle
  /\ HeavyCap
  /\ DependenciesFirst
  /\ WavesMakeProgress

-----------------------------------------------------------------------------
(* The wave that the greedy loop fills.                                    *)

\* Among subsets of a finite set there is one with no other inside it.
LEMMA SmallestSubset ==
  ASSUME NEW S, IsFiniteSet(S), NEW F \in SUBSET (SUBSET S), F # {}
  PROVE  \E x \in F : \A y \in F : y \subseteq x => y = x
<1>1. FiniteSubsetsOf(S) = SUBSET S
  BY FS_FiniteSubsetsOfFinite
<1>2. IsWellFoundedOn(StrictSubsetOrdering(S), SUBSET S)
  BY <1>1, FS_StrictSubsetOrderingWellFounded
<1>3. PICK x \in F : \A y \in F : ~ (<<y, x>> \in StrictSubsetOrdering(S))
  BY <1>2, WFMin
<1> QED
  BY <1>3 DEF StrictSubsetOrdering

\* The order in which the loop takes tasks is a strict total order.
LEMMA BeforeIsTotal ==
  ASSUME TypeOK
  PROVE  /\ \A a \in Scheduled : ~ Before(a, a)
         /\ \A a, b, c \in Scheduled :
              Before(a, b) /\ Before(b, c) => Before(a, c)
         /\ \A a, b \in Scheduled : a # b => Before(a, b) \/ Before(b, a)
<1>1. \A a \in Scheduled : a \in Nat /\ assigns[a].score \in Nat
  BY ConstantsAssumption DEF TypeOK, ConstantsAssumption, Assignment
<1> QED
  BY <1>1 DEF Before

\* A wave holds at most maxParallel heavy tasks: all but the last of them are
\* ahead of it, and the loop counts those.
LEMMA FillKeepsCap ==
  ASSUME TypeOK, NEW ready \in SUBSET Scheduled
  PROVE  Cardinality({id \in Fill(ready) : Heavy(id)}) <= maxParallel
<1> DEFINE H == {id \in Fill(ready) : Heavy(id)}
<1> DEFINE NotAhead(id) == ready \ HeavyAhead(id, ready)
<1>1. IsFiniteSet(ready) /\ H \subseteq ready
  BY ConstantsAssumption, FS_Subset DEF TypeOK, ConstantsAssumption, Fill
<1>2. maxParallel \in Nat
  BY DEF TypeOK, MaxAllowedParallel
<1>3. CASE H = {}
  BY <1>2, <1>3, FS_EmptySet
<1>4. CASE H # {}
  <2> DEFINE F == {NotAhead(id) : id \in H}
  <2>1. F \in SUBSET (SUBSET ready) /\ F # {}
    BY <1>4
  <2>2. PICK x \in F : \A y \in F : y \subseteq x => y = x
    <3> HIDE DEF F
    <3> QED
      BY <1>1, <2>1, SmallestSubset
  <2>3. PICK m \in H : x = NotAhead(m)
    BY <2>2
  <2>4. \A id \in H : NotAhead(id) \subseteq NotAhead(m) =>
                        NotAhead(id) = NotAhead(m)
    BY <2>2, <2>3
  <2>5. ASSUME NEW id \in H, id # m PROVE id \in HeavyAhead(m, ready)
    <3>1. m \in ready /\ id \in ready /\ Heavy(m) /\ Heavy(id)
      BY <1>1
    <3>2. m \in Scheduled /\ id \in Scheduled
      BY <3>1
    <3>3. CASE Before(id, m)
      BY <3>1, <3>3 DEF HeavyAhead
    <3>4. CASE Before(m, id)
      <4>1. m \in HeavyAhead(id, ready) /\ m \notin HeavyAhead(m, ready)
        BY <3>1, <3>2, <3>4, BeforeIsTotal DEF HeavyAhead
      <4>2. HeavyAhead(m, ready) \subseteq HeavyAhead(id, ready)
        BY <3>2, <3>4, BeforeIsTotal DEF HeavyAhead
      <4>3. NotAhead(id) \subseteq NotAhead(m)
        BY <4>2
      <4>4. NotAhead(id) = NotAhead(m)
        BY <2>4, <4>3
      <4> QED
        BY <3>1, <4>1, <4>4
    <3> QED
      BY <2>5, <3>2, <3>3, <3>4, BeforeIsTotal
  <2>6. H \subseteq HeavyAhead(m, ready) \cup {m}
    BY <2>5
  <2>7. /\ HeavyAhead(m, ready) \subseteq ready
        /\ IsFiniteSet(HeavyAhead(m, ready))
    BY <1>1, FS_Subset DEF HeavyAhead
  <2>8. Cardinality(HeavyAhead(m, ready)) < maxParallel
    BY <2>3 DEF Fill
  <2>9. /\ IsFiniteSet(HeavyAhead(m, ready) \cup {m})
        /\ Cardinality(HeavyAhead(m, ready) \cup {m})
             <= Cardinality(HeavyAhead(m, ready)) + 1
        /\ Cardinality(HeavyAhead(m, ready)) \in Nat
    <3> DEFINE A == HeavyAhead(m, ready)
    <3>1. Cardinality(A) \in Nat
      BY <2>7, FS_CardinalityType
    <3>2. /\ IsFiniteSet(A \cup {m})
          /\ \/ Cardinality(A \cup {m}) = Cardinality(A)
             \/ Cardinality(A \cup {m}) = Cardinality(A) + 1
      <4> HIDE DEF A
      <4> QED
        BY <2>7, FS_AddElement DEF A
    <3> HIDE DEF A
    <3>3. Cardinality(A \cup {m}) <= Cardinality(A) + 1
      BY <3>1, <3>2
    <3> QED
      BY <3>1, <3>2, <3>3 DEF A
  <2>10. /\ Cardinality(H) <= Cardinality(HeavyAhead(m, ready) \cup {m})
         /\ Cardinality(H) \in Nat
         /\ Cardinality(HeavyAhead(m, ready) \cup {m}) \in Nat
    <3> HIDE DEF H
    <3> QED
      BY <2>6, <2>9, FS_Subset, FS_CardinalityType
  <2>11. Cardinality(H) <= maxParallel
    <3> HIDE DEF H
    <3> QED
      BY <1>2, <2>8, <2>9, <2>10
  <2> QED
    BY <2>11
<1> QED
  BY <1>3, <1>4

\* A wave of ready tasks is not empty: the first heavy one always fits.
LEMMA FillTakesSome ==
  ASSUME TypeOK, NEW ready \in SUBSET Scheduled, ready # {}
  PROVE  Fill(ready) # {}
<1>1. CASE \E id \in ready : ~ Heavy(id)
  BY <1>1 DEF Fill
<1>2. CASE \A id \in ready : Heavy(id)
  <2> DEFINE F == {HeavyAhead(id, ready) : id \in ready}
  <2>1. IsFiniteSet(ready)
    BY ConstantsAssumption, FS_Subset DEF TypeOK, ConstantsAssumption
  <2>2. F \in SUBSET (SUBSET ready) /\ F # {}
    BY DEF HeavyAhead
  <2>3. PICK x \in F : \A y \in F : y \subseteq x => y = x
    <3> HIDE DEF F
    <3> QED
      BY <2>1, <2>2, SmallestSubset
  <2>4. PICK m \in ready : x = HeavyAhead(m, ready)
    BY <2>3
  <2>5. ASSUME NEW b \in HeavyAhead(m, ready) PROVE FALSE
    <3>1. b \in ready /\ Before(b, m) /\ b \in Scheduled /\ m \in Scheduled
      BY <2>5 DEF HeavyAhead
    <3>2. HeavyAhead(b, ready) \subseteq HeavyAhead(m, ready)
      BY <3>1, BeforeIsTotal DEF HeavyAhead
    <3>3. b \notin HeavyAhead(b, ready)
      BY <3>1, BeforeIsTotal DEF HeavyAhead
    <3>4. HeavyAhead(b, ready) = HeavyAhead(m, ready)
      BY <2>3, <2>4, <3>1, <3>2
    <3> QED
      BY <2>5, <3>3, <3>4
  <2>6. Cardinality(HeavyAhead(m, ready)) = 0
    BY <2>5, FS_EmptySet
  <2>7. maxParallel \in Nat \ {0}
    BY DEF TypeOK, MaxAllowedParallel
  <2> QED
    BY <2>4, <2>6, <2>7 DEF Fill
<1> QED
  BY <1>1, <1>2

-----------------------------------------------------------------------------
(* The steps.                                                              *)

\* An id that joins the triage list keeps the others in it.
LEMMA AppendToSet ==
  ASSUME NEW S, NEW s \in Seq(S), NEW x \in S
  PROVE  ToSet(Append(s, x)) = ToSet(s) \cup {x}
<1>1. /\ Len(Append(s, x)) = Len(s) + 1
      /\ \A i \in 1..Len(s) : Append(s, x)[i] = s[i]
      /\ Append(s, x)[Len(s) + 1] = x
      /\ DOMAIN Append(s, x) = 1..(Len(s) + 1)
      /\ DOMAIN s = 1..Len(s)
      /\ Len(s) \in Nat
  OBVIOUS
<1>2. 1..(Len(s) + 1) = 1..Len(s) \cup {Len(s) + 1}
  BY <1>1
<1> QED
  BY <1>1, <1>2 DEF ToSet

\* Initially the batch is untouched and the cap is between one and three.
LEMMA InitInv == Init => IInv
<1> SUFFICES ASSUME Init PROVE IInv
  OBVIOUS
<1>1. maxParallel \in 1..MaxAllowedParallel
  BY ConstantsAssumption
  DEF Init, Clamp, DefaultMaxParallel, MaxAllowedParallel, ConstantsAssumption
<1>2. tasks \in Seq(TaskInput) /\ Len(tasks) \in Nat
  BY ConstantsAssumption DEF Init, ConstantsAssumption
<1>3. Scheduled = {} /\ assigns \in [Scheduled -> Assignment]
  BY DEF Init, Scheduled
<1>4. waves \in Seq(SUBSET TaskId) /\ needsTriage \in Seq(1..Len(tasks))
      /\ Len(waves) = 0
  BY DEF Init
<1>5. next \in 1..(Len(tasks) + 1) /\ pc = "match" /\ done = {} /\ next = 1
  BY <1>2 DEF Init
<1>6. TypeOK
  BY <1>1, <1>2, <1>3, <1>4, <1>5 DEF TypeOK
<1>7. DoneIsPlanned /\ PlanStartsEmpty /\ HeldByCycle
  BY <1>4, <1>5 DEF Init, DoneIsPlanned, PlanStartsEmpty, HeldByCycle
<1>8. Matched
  BY <1>5, <1>2 DEF Matched
<1>9. HeavyCap /\ DependenciesFirst /\ WavesMakeProgress
  BY <1>4 DEF HeavyCap, DependenciesFirst, WavesMakeProgress
<1> QED
  BY <1>6, <1>7, <1>8, <1>9 DEF IInv

\* The matching loop puts one more task in its place.
LEMMA MatchInv == IInv /\ MatchTask => IInv'
<1> SUFFICES ASSUME IInv, MatchTask PROVE IInv'
  OBVIOUS
<1> DEFINE t == tasks[next]
<1>1. /\ tasks \in Seq(TaskInput)
      /\ Len(tasks) \in Nat
      /\ next \in 1..Len(tasks)
      /\ t \in TaskInput
      /\ pc = "match"
  BY DEF IInv, TypeOK, MatchTask
<1>2. /\ UNCHANGED <<tasks, maxParallel, deps, done, waves, pc>>
      /\ next' = next + 1
      /\ done = {} /\ waves = <<>>
  BY <1>1 DEF MatchTask, IInv, PlanStartsEmpty
<1>3. /\ Scheduled \subseteq Scheduled' /\ Scheduled' \subseteq TaskId
      /\ assigns' \in [Scheduled' -> Assignment]
      /\ needsTriage' \in Seq(1..Len(tasks))
      /\ ToSet(needsTriage) \subseteq ToSet(needsTriage')
      /\ IF t.fate.class = "triage"
           THEN next \in ToSet(needsTriage') /\ assigns' = assigns
           ELSE /\ t.id \in Scheduled' /\ assigns'[t.id].task = next
                /\ \A id \in Scheduled \ {t.id} : assigns'[id] = assigns[id]
  <2>1. CASE t.fate.class = "triage"
    <3>1. needsTriage' = Append(needsTriage, next) /\ assigns' = assigns
      BY <2>1 DEF MatchTask
    <3>2. next \in 1..Len(tasks) /\ needsTriage \in Seq(1..Len(tasks))
      BY <1>1 DEF IInv, TypeOK
    <3>3. ToSet(needsTriage') = ToSet(needsTriage) \cup {next}
      BY <3>1, <3>2, AppendToSet
    <3> QED
      BY <2>1, <3>1, <3>2, <3>3 DEF IInv, TypeOK, Scheduled
  <2>2. CASE t.fate.class # "triage"
    <3>1. /\ needsTriage' = needsTriage
          /\ assigns' = [id \in Scheduled \cup {t.id} |->
                           IF id = t.id
                             THEN [class |-> t.fate.class,
                                   score |-> t.fate.score, task |-> next]
                             ELSE assigns[id]]
      BY <2>2 DEF MatchTask
    <3> DEFINE made == [class |-> t.fate.class, score |-> t.fate.score,
                        task |-> next]
    <3>2. t.id \in TaskId /\ made \in Assignment /\ made.task = next
      <4>1. t.id \in TaskId /\ t.fate \in Fate
        BY <1>1 DEF TaskInput
      <4>2. t.fate.class \in {"heavy", "light"} /\ t.fate.score \in Score
        BY <2>2, <4>1 DEF Fate
      <4>3. next \in Nat
        BY <1>1
      <4> QED
        BY <4>1, <4>2, <4>3 DEF Assignment
    <3>3. Scheduled' = Scheduled \cup {t.id}
      BY <3>1 DEF Scheduled
    <3>4. assigns \in [Scheduled -> Assignment] /\ Scheduled \subseteq TaskId
      BY DEF IInv, TypeOK
    <3>5. assigns' = [id \in Scheduled' |->
                        IF id = t.id THEN made ELSE assigns[id]]
      BY <3>1, <3>3
    <3> HIDE DEF made
    <3>6. assigns' \in [Scheduled' -> Assignment]
      BY <3>2, <3>3, <3>4, <3>5
    <3>7. assigns'[t.id].task = next /\ t.id \in Scheduled'
      BY <3>2, <3>3, <3>5
    <3>8. \A id \in Scheduled \ {t.id} : assigns'[id] = assigns[id]
      BY <3>3, <3>5
    <3>9. needsTriage \in Seq(1..Len(tasks))
      BY DEF IInv, TypeOK
    <3> QED
      BY <2>2, <3>1, <3>2, <3>3, <3>4, <3>6, <3>7, <3>8, <3>9
  <2> QED
    BY <2>1, <2>2
<1>4. TypeOK'
  <2>1. next' \in 1..(Len(tasks) + 1)
    BY <1>1, <1>2
  <2>2. done' \subseteq Scheduled'
    BY <1>2
  <2> QED
    BY <1>1, <1>2, <1>3, <2>1, <2>2 DEF IInv, TypeOK
<1>5. DoneIsPlanned' /\ PlanStartsEmpty' /\ HeldByCycle'
  BY <1>1, <1>2 DEF IInv, DoneIsPlanned, PlanStartsEmpty, HeldByCycle
<1>6. Matched'
  <2> SUFFICES ASSUME NEW i \in 1..Len(tasks), i < next + 1
               PROVE  Settled(i)'
    BY <1>1, <1>2 DEF Matched
  <2>0. /\ tasks' = tasks
        /\ Overwritten(i)' <=> Overwritten(i)
    BY <1>2 DEF Overwritten
  <2>1. i < next \/ i = next
    BY <1>1
  <2>2. CASE i < next /\ tasks[i].fate.class = "triage"
    <3>1. i \in ToSet(needsTriage)
      BY <2>2 DEF IInv, Matched, Settled
    <3> QED
      BY <1>3, <2>0, <2>2, <3>1 DEF Settled
  <2>3. CASE i < next /\ tasks[i].fate.class # "triage"
    <3>1. /\ tasks[i].id \in Scheduled
          /\ assigns[tasks[i].id].task = i \/ Overwritten(i)
      BY <2>3 DEF IInv, Matched, Settled
    <3>2. CASE t.fate.class # "triage" /\ t.id = tasks[i].id
      <4>1. Overwritten(i)
        BY <1>1, <2>3, <3>2 DEF Overwritten
      <4> QED
        BY <1>3, <2>0, <2>3, <3>1, <4>1 DEF Settled
    <3>3. CASE ~ (t.fate.class # "triage" /\ t.id = tasks[i].id)
      <4>1. assigns'[tasks[i].id] = assigns[tasks[i].id]
        BY <1>3, <3>1, <3>3
      <4> QED
        BY <1>3, <2>0, <2>3, <3>1, <4>1 DEF Settled
    <3> QED
      BY <3>2, <3>3
  <2>4. CASE i = next
    BY <1>3, <2>0, <2>4 DEF Settled
  <2> QED
    BY <2>1, <2>2, <2>3, <2>4
<1>7. HeavyCap' /\ DependenciesFirst' /\ WavesMakeProgress'
  <2>1. Len(waves') = 0
    BY <1>2
  <2> QED
    BY <2>1 DEF HeavyCap, DependenciesFirst, WavesMakeProgress
<1> QED
  BY <1>4, <1>5, <1>6, <1>7 DEF IInv

\* schedule starts from dependencies among scheduled tasks.
LEMMA StartInv == IInv /\ StartSchedule => IInv'
<1> SUFFICES ASSUME IInv, StartSchedule PROVE IInv'
  OBVIOUS
<1>1. /\ UNCHANGED <<tasks, maxParallel, next, assigns, needsTriage, done,
                     waves>>
      /\ done = {} /\ waves = <<>>
      /\ pc' = "schedule"
  BY DEF StartSchedule, IInv, PlanStartsEmpty
<1>2. Scheduled' = Scheduled
  BY <1>1 DEF Scheduled
<1>3. deps' \in [Scheduled -> SUBSET Scheduled]
  <2>1. \A id \in Scheduled : DependsOn(id) \subseteq Scheduled
    BY DEF DependsOn
  <2> QED
    BY <2>1 DEF StartSchedule
<1>4. TypeOK'
  BY <1>1, <1>2, <1>3 DEF IInv, TypeOK
<1>5. DoneIsPlanned' /\ PlanStartsEmpty' /\ HeldByCycle'
  BY <1>1 DEF IInv, DoneIsPlanned, PlanStartsEmpty, HeldByCycle
<1>6. Matched'
  <2>1. next = Len(tasks) + 1
    <3>1. Len(tasks) \in Nat /\ next \in 1..(Len(tasks) + 1)
      BY DEF IInv, TypeOK
    <3> QED
      BY <3>1 DEF StartSchedule
  <2> QED
    BY <1>1, <1>2, <2>1 DEF IInv, Matched, Settled, Overwritten
<1>7. HeavyCap' /\ DependenciesFirst' /\ WavesMakeProgress'
  <2>1. Len(waves') = 0
    BY <1>1
  <2> QED
    BY <2>1 DEF HeavyCap, DependenciesFirst, WavesMakeProgress
<1> QED
  BY <1>4, <1>5, <1>6, <1>7 DEF IInv

\* A wave of ready tasks joins the plan.
LEMMA WaveInv == IInv /\ AddWave => IInv'
<1> SUFFICES ASSUME IInv, AddWave PROVE IInv'
  OBVIOUS
<1> DEFINE wave == Fill(Ready)
<1>1. /\ UNCHANGED <<tasks, maxParallel, next, assigns, needsTriage, deps, pc>>
      /\ done' = done \cup wave
      /\ waves' = Append(waves, wave)
      /\ pc = "schedule"
  BY DEF AddWave
<1>2. /\ Scheduled' = Scheduled
      /\ \A id : Heavy(id)' = Heavy(id)
  BY <1>1 DEF Scheduled, Heavy
<1>3. /\ wave \subseteq Ready
      /\ Ready \subseteq Scheduled \ done
      /\ \A id \in wave : deps[id] \subseteq done
      /\ Scheduled \subseteq TaskId
  BY DEF Fill, Ready, IInv, TypeOK
<1>4. wave # {}
  BY <1>3, FillTakesSome DEF AddWave, IInv
<1>5. Cardinality({id \in wave : Heavy(id)}) <= maxParallel
  BY <1>3, FillKeepsCap DEF IInv
<1> HIDE DEF wave
<1>6. /\ Len(waves) \in Nat
      /\ Len(waves') = Len(waves) + 1
      /\ \A w \in 1..Len(waves) : waves'[w] = waves[w]
      /\ waves'[Len(waves) + 1] = wave
      /\ waves' \in Seq(SUBSET TaskId)
  <2>1. wave \in SUBSET TaskId /\ waves \in Seq(SUBSET TaskId)
    BY <1>3 DEF IInv, TypeOK
  <2> QED
    BY <1>1, <2>1
<1>7. 1..Len(waves') = 1..Len(waves) \cup {Len(waves) + 1}
  BY <1>6
<1>8. TypeOK'
  <2>1. done' \subseteq Scheduled'
    BY <1>1, <1>2, <1>3 DEF IInv, TypeOK
  <2> QED
    BY <1>1, <1>2, <1>6, <2>1 DEF IInv, TypeOK
<1>9. DoneIsPlanned'
  BY <1>1, <1>6, <1>7 DEF IInv, DoneIsPlanned
<1>10. PlanStartsEmpty' /\ Matched' /\ HeldByCycle'
  BY <1>1, <1>2
  DEF IInv, PlanStartsEmpty, Matched, Settled, Overwritten, HeldByCycle
<1>11. HeavyCap'
  <2> SUFFICES ASSUME NEW w \in 1..Len(waves')
               PROVE  Cardinality({id \in waves'[w] : Heavy(id)})
                        <= maxParallel
    BY <1>1, <1>2 DEF HeavyCap
  <2>1. CASE w \in 1..Len(waves)
    BY <1>6, <2>1 DEF IInv, HeavyCap
  <2>2. CASE w = Len(waves) + 1
    BY <1>5, <1>6, <2>2
  <2> QED
    BY <1>7, <2>1, <2>2
<1>12. DependenciesFirst'
  <2>1. \A w \in 1..Len(waves) : waves[w] \cap wave = {}
    BY <1>3 DEF IInv, DoneIsPlanned
  <2> SUFFICES ASSUME NEW w \in 1..Len(waves'), NEW id \in waves'[w]
               PROVE  /\ \A v \in 1..Len(waves') : id \in waves'[v] => v = w
                      /\ \A d \in deps[id] :
                           \E v \in 1..Len(waves') : v < w /\ d \in waves'[v]
    BY <1>1 DEF DependenciesFirst
  <2>2. CASE w \in 1..Len(waves)
    <3>1. id \in waves[w] /\ id \notin wave
      BY <1>6, <2>1, <2>2
    <3>2. \A v \in 1..Len(waves') : id \in waves'[v] => v = w
      BY <1>6, <1>7, <2>2, <3>1 DEF IInv, DependenciesFirst
    <3>3. ASSUME NEW d \in deps[id]
          PROVE  \E v \in 1..Len(waves') : v < w /\ d \in waves'[v]
      <4>1. PICK v \in 1..Len(waves) : v < w /\ d \in waves[v]
        BY <2>2, <3>1 DEF IInv, DependenciesFirst
      <4> QED
        BY <1>6, <1>7, <4>1
    <3> QED
      BY <3>2, <3>3
  <2>3. CASE w = Len(waves) + 1
    <3>1. id \in wave
      BY <1>6, <2>3
    <3>2. \A v \in 1..Len(waves') : id \in waves'[v] => v = w
      BY <1>6, <1>7, <2>1, <2>3, <3>1
    <3>3. ASSUME NEW d \in deps[id]
          PROVE  \E v \in 1..Len(waves') : v < w /\ d \in waves'[v]
      <4>1. d \in done /\ d \in TaskId
        BY <1>3, <3>1, <3>3 DEF IInv, TypeOK
      <4>2. PICK v \in 1..Len(waves) : d \in waves[v]
        BY <4>1 DEF IInv, DoneIsPlanned
      <4>3. v < w
        BY <1>6, <2>3
      <4> QED
        BY <1>6, <1>7, <4>2, <4>3
    <3> QED
      BY <3>2, <3>3
  <2> QED
    BY <1>7, <2>2, <2>3
<1>13. WavesMakeProgress'
  BY <1>4, <1>6, <1>7 DEF IInv, WavesMakeProgress
<1> QED
  BY <1>8, <1>9, <1>10, <1>11, <1>12, <1>13 DEF IInv

\* The loop ends with everything planned, or with nothing ready: then each
\* task that is left waits for another one.
LEMMA EndInv == IInv /\ EndSchedule => IInv'
<1> SUFFICES ASSUME IInv, EndSchedule PROVE IInv'
  OBVIOUS
<1>1. /\ UNCHANGED <<tasks, maxParallel, next, assigns, needsTriage, deps,
                     done, waves>>
      /\ pc = "schedule" /\ pc' = "end"
      /\ done = Scheduled \/ Ready = {}
  BY DEF EndSchedule
<1>2. Scheduled' = Scheduled /\ \A id : Heavy(id)' = Heavy(id)
  BY <1>1 DEF Scheduled, Heavy
<1>3. deps \in [Scheduled -> SUBSET Scheduled]
  BY <1>1 DEF IInv, TypeOK
<1>4. HeldByCycle'
  BY <1>1, <1>2, <1>3 DEF HeldByCycle, Ready
<1>5. TypeOK'
  BY <1>1, <1>2 DEF IInv, TypeOK
<1>6. DoneIsPlanned' /\ PlanStartsEmpty' /\ Matched'
  BY <1>1, <1>2
  DEF IInv, DoneIsPlanned, PlanStartsEmpty, Matched, Settled, Overwritten
<1>7. HeavyCap' /\ DependenciesFirst' /\ WavesMakeProgress'
  BY <1>1, <1>2 DEF IInv, HeavyCap, DependenciesFirst, WavesMakeProgress
<1> QED
  BY <1>4, <1>5, <1>6, <1>7 DEF IInv

\* Every step keeps the invariant.
LEMMA NextInv == IInv /\ [Next]_vars => IInv'
<1> SUFFICES ASSUME IInv, [Next]_vars PROVE IInv'
  OBVIOUS
<1>1. CASE Next
  BY <1>1, MatchInv, StartInv, WaveInv, EndInv DEF Next
<1>2. CASE UNCHANGED vars
  <2>1. UNCHANGED <<tasks, maxParallel, next, assigns, needsTriage, deps,
                    done, waves, pc>>
    BY <1>2 DEF vars
  <2>2. Scheduled' = Scheduled /\ \A id : Heavy(id)' = Heavy(id)
    BY <2>1 DEF Scheduled, Heavy
  <2>3. TypeOK'
    BY <2>1, <2>2 DEF IInv, TypeOK
  <2>4. DoneIsPlanned' /\ PlanStartsEmpty' /\ Matched' /\ HeldByCycle'
    BY <2>1, <2>2
    DEF IInv, DoneIsPlanned, PlanStartsEmpty, Matched, Settled, Overwritten,
        HeldByCycle
  <2>5. HeavyCap' /\ DependenciesFirst' /\ WavesMakeProgress'
    BY <2>1, <2>2 DEF IInv, HeavyCap, DependenciesFirst, WavesMakeProgress
  <2> QED
    BY <2>3, <2>4, <2>5 DEF IInv
<1> QED
  BY <1>1, <1>2

-----------------------------------------------------------------------------
\* IInv holds in every reachable state.
THEOREM Invariance == Spec => []IInv
  BY InitInv, NextInv, PTL DEF Spec

\* The planner's variables keep their types; the cap is between one and three.
THEOREM TypeCorrect == Spec => []TypeOK
<1>1. IInv => TypeOK
  BY DEF IInv
<1> QED
  BY <1>1, Invariance, PTL

\* Whatever the batch and whatever max_parallel asks, no wave runs more heavy
\* agents than the cap.
THEOREM PlansKeepCap == Spec => []HeavyCap
<1>1. IInv => HeavyCap
  BY DEF IInv
<1> QED
  BY <1>1, Invariance, PTL

\* Every planned task comes once, after the planned tasks it waits for.
THEOREM PlansKeepOrder == Spec => []DependenciesFirst
<1>1. IInv => DependenciesFirst
  BY DEF IInv
<1> QED
  BY <1>1, Invariance, PTL

\* Each pass of the loop plans a task.
THEOREM PlansMakeProgress == Spec => []WavesMakeProgress
<1>1. IInv => WavesMakeProgress
  BY DEF IInv
<1> QED
  BY <1>1, Invariance, PTL

\* A finished plan accounts for every task of the batch: it is on the triage
\* list, its own assignment is planned or held by a cycle, or a repetition of
\* its id has overwritten it.
THEOREM PlansAreComplete == Spec => []OnlyCyclesAreLeftOut
<1>1. IInv => OnlyCyclesAreLeftOut
  <2> SUFFICES ASSUME IInv, pc = "end", NEW i \in 1..Len(tasks),
                      tasks[i].fate.class # "triage", ~ Overwritten(i)
               PROVE  LET id == tasks[i].id
                      IN  /\ id \in Scheduled /\ assigns[id].task = i
                          /\ \/ \E w \in 1..Len(waves) : id \in waves[w]
                             \/ /\ id \in Scheduled \ done
                                /\ deps[id] \cap (Scheduled \ done) # {}
    <3>1. \A i \in 1..Len(tasks) : pc = "end" /\ IInv => Settled(i)
      BY DEF IInv, TypeOK, Matched
    <3> QED
      BY <3>1 DEF OnlyCyclesAreLeftOut, Settled
  <2>1. Settled(i)
    BY DEF IInv, TypeOK, Matched
  <2>2. tasks[i].id \in Scheduled /\ assigns[tasks[i].id].task = i
    BY <2>1 DEF Settled
  <2>3. tasks[i].id \in TaskId
    BY <2>2 DEF IInv, TypeOK
  <2>4. CASE tasks[i].id \in done
    BY <2>2, <2>3, <2>4 DEF IInv, DoneIsPlanned
  <2>5. CASE tasks[i].id \notin done
    BY <2>2, <2>5 DEF IInv, HeldByCycle
  <2> QED
    BY <2>2, <2>4, <2>5
<1> QED
  BY <1>1, Invariance, PTL
=============================================================================
