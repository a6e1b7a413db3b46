------------------------- MODULE TaskRegistryProofs -------------------------
(* What holds of the task registry for any tasks, keys and assignment of   *)
(* tasks to keys.                                                          *)
EXTENDS TaskRegistry, SequenceTheorems, TLAPS

(***************************************************************************)
(* The inductive invariant.  Queues hold waiting tasks only, sorted by     *)
(* their age, behind an older active task; every active task has a worker  *)
(* or exactly one thread that will start it; every process has a worker    *)
(* that waits for it.                                                      *)
(***************************************************************************)
QueueOK ==
  \A k \in Key : \A i \in DOMAIN queues[k] :
    /\ KeyOf[queues[k][i]] = k
    /\ state[queues[k][i]] = "queued"
    /\ pc[queues[k][i]] = "none"
    /\ queues[k][i] \in byId

QueueSorted ==
  \A k \in Key : \A i, j \in DOMAIN queues[k] :
    i < j => enqueuedAt[queues[k][i]] < enqueuedAt[queues[k][j]]

ActiveOK ==
  \A k \in Key : running[k] # None =>
    /\ KeyOf[running[k]] = k
    /\ state[running[k]] \in {"running", "cancelling", "done"}
    /\ \A i \in DOMAIN queues[k] :
         enqueuedAt[running[k]] < enqueuedAt[queues[k][i]]

NewOK ==
  \A t \in Task :
    /\ state[t] = "new" => pc[t] = "none" /\ t \notin byId
    /\ enqueuedAt[t] <= clock

\* What a thread that has to start another one's worker knows.
StarterOK ==
  /\ mpc = "start" => /\ cur \in Task
                      /\ pc[cur] = "none"
                      /\ running[KeyOf[cur]] = cur
  /\ \A u \in Task : pc[u] = "start" => nxt[u] # None
  /\ \A u, t \in Task : StartedBy(u, t) => /\ pc[t] = "none"
                                           /\ running[KeyOf[t]] = t
                                           /\ ~StartedByMain(t)

MainOK == mpc \in {"lookup", "cancelkey", "kill"} => cur \in Task

IdsOK == \A t \in byId : Registered(t)

RegistryInv ==
  /\ QueueOK /\ QueueSorted /\ ActiveOK /\ NewOK /\ StarterOK /\ MainOK
  /\ IdsOK /\ WorkerOwnsKey /\ ActiveIsServed /\ NoWaitBehindFreeKey

ProcessInv ==
  \A t \in Task :
    /\ live[t] => pc[t] \in {"store", "wait"}
    /\ pc[t] \in {"none", "hello", "fetch", "gate"} => tries[t] = 0
    /\ pc[t] \in {"spawn", "recheck"} => tries[t] \in 0..1

IInv == TypeOK /\ RegistryInv /\ ProcessInv
-----------------------------------------------------------------------------
\* The invariant holds when the bot starts: no task, empty queues.
LEMMA InitInv == Init => IInv
<1> SUFFICES ASSUME Init PROVE IInv
  OBVIOUS
<1>1. TypeOK
  BY ConstantsAssumption DEF Init, TypeOK, PC, TaskState, MainPC, Executing
<1>2. RegistryInv
  BY ConstantsAssumption DEF Init, RegistryInv, QueueOK, QueueSorted, ActiveOK,
     NewOK, StarterOK, MainOK, IdsOK, WorkerOwnsKey, ActiveIsServed,
     NoWaitBehindFreeKey, Registered, StartedBy, StartedByMain, Executing
<1>3. ProcessInv
  BY DEF Init, ProcessInv
<1> QED BY <1>1, <1>2, <1>3 DEF IInv

\* A worker that moves on between two statements, and changes neither the
\* registry nor the main loop, keeps the registry's invariant.
LEMMA WorkerMoves ==
  ASSUME IInv, NEW t \in Task, NEW c \in Executing,
         pc[t] \in Executing,
         pc' = [pc EXCEPT ![t] = c],
         UNCHANGED <<registryVars, mainVars, nxt>>
  PROVE  RegistryInv'
<1> USE DEF IInv, RegistryInv, TypeOK, registryVars, mainVars
<1>0. /\ pc' \in [Task -> PC]
      /\ \A u \in Task \ {t} : pc'[u] = pc[u]
      /\ pc'[t] = c /\ pc[t] \notin {"none", "start", "ping"}
      /\ c \notin {"none", "start", "ping"}
  BY DEF Executing, PC
<1>1. QueueOK'
  BY <1>0 DEF QueueOK
<1>2. QueueSorted' /\ ActiveOK' /\ NoWaitBehindFreeKey' /\ MainOK'
  BY DEF QueueSorted, ActiveOK, NoWaitBehindFreeKey, MainOK
<1>3. NewOK'
  BY <1>0 DEF NewOK
<1>4. StarterOK'
  BY <1>0 DEF StarterOK, StartedBy, StartedByMain
<1>5. IdsOK'
  BY DEF IdsOK, Registered
<1>6. WorkerOwnsKey'
  BY <1>0 DEF WorkerOwnsKey
<1>7. ActiveIsServed'
  BY <1>0 DEF ActiveIsServed, StartedBy, StartedByMain
<1> QED BY <1>1, <1>2, <1>3, <1>4, <1>5, <1>6, <1>7

\* A message, arrived or lost, keeps the types of what the chat was told.
LEMMA SayTypes ==
  ASSUME TypeOK, NEW t \in Task, Say(t)
  PROVE  /\ cancelled' \in SUBSET Task /\ answered' \in SUBSET Task
         /\ lost' \in [Task -> Nat]
<1>1. cancelled' \in SUBSET Task /\ answered' \in SUBSET Task
  BY DEF TypeOK, Say
<1>2. lost \in [Task -> Nat]
  BY DEF TypeOK
<1>3. lost' = lost \/ lost' = [lost EXCEPT ![t] = @ + 1]
  BY DEF Say
<1> QED BY <1>1, <1>2, <1>3

\* The statements of a worker between its first and finish().
WorkerMove(t) ==
  \/ Hello(t) \/ Fetch(t) \/ FetchFails(t) \/ Gate(t)
  \/ Spawn(t) \/ SpawnFails(t) \/ StoreHandle(t)
  \/ Collect(t) \/ CollectNothing(t) \/ TimesOut(t) \/ Recheck(t)
  \/ CheckOutput(t) \/ SendOutput(t) \/ ReadCancelling(t)

\* Each step of WorkerMove is one of the moves WorkerMoves is about.
LEMMA WorkerMoveInv ==
  ASSUME IInv, NEW t \in Task, WorkerMove(t)
  PROVE  IInv'
<1>1. PICK c \in Executing :
        /\ pc[t] \in Executing
        /\ pc' = [pc EXCEPT ![t] = c]
        /\ UNCHANGED <<registryVars, mainVars, nxt>>
  <2>1. CASE Hello(t)
    BY <2>1 DEF Hello, Goto, Executing
  <2>2. CASE Fetch(t)
    BY <2>2 DEF Fetch, Goto, Executing
  <2>3. CASE FetchFails(t)
    BY <2>3 DEF FetchFails, Goto, Executing
  <2>4. CASE Gate(t)
    BY <2>4 DEF Gate, Goto, Executing
  <2>5. CASE Spawn(t)
    BY <2>5 DEF Spawn, Goto, Executing
  <2>6. CASE SpawnFails(t)
    BY <2>6 DEF SpawnFails, Goto, Executing
  <2>7. CASE StoreHandle(t)
    BY <2>7 DEF StoreHandle, Goto, Executing
  <2>8. CASE Collect(t)
    BY <2>8 DEF Collect, Goto, Executing
  <2>9. CASE CollectNothing(t)
    BY <2>9 DEF CollectNothing, Goto, Executing
  <2>10. CASE TimesOut(t)
    BY <2>10 DEF TimesOut, Goto, Executing
  <2>11. CASE Recheck(t)
    BY <2>11 DEF Recheck, Goto, Executing
  <2>12. CASE CheckOutput(t)
    BY <2>12 DEF CheckOutput, Goto, Executing
  <2>13. CASE SendOutput(t)
    BY <2>13 DEF SendOutput, Goto, Executing
  <2>14. CASE ReadCancelling(t)
    BY <2>14 DEF ReadCancelling, Goto, Executing
  <2> QED BY <2>1, <2>2, <2>3, <2>4, <2>5, <2>6, <2>7, <2>8, <2>9, <2>10, <2>11, <2>12, <2>13, <2>14 DEF WorkerMove
<1>2. RegistryInv'
  BY <1>1, WorkerMoves
<1>3. TypeOK' /\ ProcessInv'
  <2> USE DEF IInv, TypeOK, ProcessInv, registryVars, mainVars, procVars
  <2>0. pc' \in [Task -> PC]
    BY <1>1 DEF PC
  <2>1. CASE Hello(t)
    BY <1>1, <2>0, <2>1 DEF Hello, Goto, chatVars
  <2>2. CASE Fetch(t)
    BY <1>1, <2>0, <2>2 DEF Fetch, Goto, chatVars
  <2>3. CASE FetchFails(t)
    BY <1>1, <2>0, <2>3, SayTypes DEF FetchFails, Goto
  <2>4. CASE Gate(t)
    BY <1>1, <2>0, <2>4 DEF Gate, Goto, chatVars
  <2>5. CASE Spawn(t)
    <3>1. tries[t] \in 0..1 /\ tries' = [tries EXCEPT ![t] = tries[t] + 1]
      BY <2>5 DEF Spawn, Goto
    <3>2. tries' \in [Task -> 0..2]
      BY <3>1
    <3>3. live' \in [Task -> BOOLEAN]
      BY <2>5 DEF Spawn
    <3> QED BY <1>1, <2>0, <2>5, <3>2, <3>3 DEF Spawn, Goto, chatVars
  <2>6. CASE SpawnFails(t)
    BY <1>1, <2>0, <2>6 DEF SpawnFails, Goto, chatVars
  <2>7. CASE StoreHandle(t)
    BY <1>1, <2>0, <2>7 DEF StoreHandle, Goto, chatVars
  <2>8. CASE Collect(t)
    BY <1>1, <2>0, <2>8 DEF Collect, Goto, chatVars
  <2>9. CASE CollectNothing(t)
    BY <1>1, <2>0, <2>9 DEF CollectNothing, Goto, chatVars
  <2>10. CASE TimesOut(t)
    BY <1>1, <2>0, <2>10 DEF TimesOut, Goto, chatVars
  <2>11. CASE Recheck(t)
    BY <1>1, <2>0, <2>11 DEF Recheck, Goto, chatVars
  <2>12. CASE CheckOutput(t)
    BY <1>1, <2>0, <2>12 DEF CheckOutput, Goto, chatVars
  <2>13. CASE SendOutput(t)
    BY <1>1, <2>0, <2>13, SayTypes DEF SendOutput, Goto
  <2>14. CASE ReadCancelling(t)
    BY <1>1, <2>0, <2>14 DEF ReadCancelling, Goto, chatVars
  <2> QED BY <2>1, <2>2, <2>3, <2>4, <2>5, <2>6, <2>7, <2>8, <2>9, <2>10, <2>11, <2>12, <2>13, <2>14 DEF WorkerMove
<1> QED BY <1>2, <1>3 DEF IInv
-----------------------------------------------------------------------------
(* The other steps of a worker and of its process.                         *)

\* A process that exits by itself changes nothing the registry looks at.
LEMMA ProcessExitsInv ==
  ASSUME IInv, NEW t \in Task, ProcessExits(t)
  PROVE  IInv'
<1> USE DEF ProcessExits, registryVars, workerVars, mainVars, chatVars
<1>1. TypeOK'
  BY DEF IInv, TypeOK
<1>2. ProcessInv'
  BY DEF IInv, TypeOK, ProcessInv
<1>3. RegistryInv'
  BY DEF IInv, RegistryInv, QueueOK, QueueSorted, ActiveOK, NewOK, StarterOK,
     MainOK, IdsOK, WorkerOwnsKey, ActiveIsServed, NoWaitBehindFreeKey,
     Registered, StartedBy, StartedByMain
<1> QED BY <1>1, <1>2, <1>3 DEF IInv

\* The done ping leaves the registry alone; its worker goes on to start what
\* finish() handed it, or ends.
LEMMA DonePingInv ==
  ASSUME IInv, NEW t \in Task, DonePing(t)
  PROVE  IInv'
<1>a. /\ cancelled' \in SUBSET Task /\ answered' \in SUBSET Task
      /\ lost' \in [Task -> Nat]
  BY SayTypes DEF DonePing, chatVars, IInv, TypeOK
<1>b. /\ pc[t] = "ping"
      /\ pc' = [pc EXCEPT ![t] = IF nxt[t] = None THEN "end" ELSE "start"]
      /\ wasCancelling' = [wasCancelling EXCEPT ![t] = FALSE]
      /\ UNCHANGED <<nxt, registryVars, procVars, mainVars>>
  BY DEF DonePing
<1> USE DEF registryVars, mainVars, procVars, IInv, TypeOK
<1>0. /\ pc[t] = "ping"
      /\ \A u \in Task \ {t} : pc'[u] = pc[u]
      /\ pc'[t] = (IF nxt[t] = None THEN "end" ELSE "start")
  BY <1>b
<1>1. TypeOK'
  BY <1>a, <1>b DEF PC
<1>2. ProcessInv'
  BY <1>0, <1>b DEF ProcessInv
<1>3. RegistryInv'
  <2> USE DEF RegistryInv
  <2>1. QueueOK' /\ QueueSorted' /\ ActiveOK' /\ NewOK' /\ MainOK' /\ IdsOK'
        /\ NoWaitBehindFreeKey'
    BY <1>0, <1>b DEF QueueOK, QueueSorted, ActiveOK, NewOK, MainOK, IdsOK,
       NoWaitBehindFreeKey, Registered
  <2>2. \A u, v \in Task : StartedBy(u, v)' <=> StartedBy(u, v)
    BY ConstantsAssumption, <1>0, <1>b DEF StartedBy
  <2>3. \A v \in Task : StartedByMain(v)' <=> StartedByMain(v)
    BY <1>b DEF StartedByMain
  <2>4. StarterOK'
    BY <1>0, <1>b, <2>2, <2>3 DEF StarterOK, StartedBy
  <2>5. WorkerOwnsKey'
    BY <1>0, <1>b DEF WorkerOwnsKey, Executing
  <2>6. ActiveIsServed'
    BY <1>0, <1>b, <2>2, <2>3 DEF ActiveIsServed, Executing
  <2> QED BY <2>1, <2>4, <2>5, <2>6
<1> QED BY <1>1, <1>2, <1>3

\* An active task has been dispatched and is not queued.
LEMMA ActiveState ==
  ASSUME ActiveOK, NEW n \in Task, running[KeyOf[n]] = n
  PROVE  state[n] \in {"running", "cancelling", "done"}
BY ConstantsAssumption DEF ActiveOK

\* The task a worker hands the key on to gets a worker of its own.
LEMMA StartNextInv ==
  ASSUME IInv, NEW t \in Task, StartNext(t)
  PROVE  IInv'
<1>a. ActiveOK
  BY DEF IInv, RegistryInv
<1> USE DEF StartNext, registryVars, mainVars, procVars, chatVars, IInv, TypeOK
<1> DEFINE n == nxt[t]
<1>0. /\ pc[t] = "start" /\ n \in Task /\ StartedBy(t, n)
      /\ pc[n] = "none" /\ running[KeyOf[n]] = n /\ ~StartedByMain(n)
      /\ n # t
  BY DEF RegistryInv, StarterOK, StartedBy
<1>b. state[n] \in {"running", "cancelling", "done"}
  BY ONLY <1>a, <1>0, ActiveState
<1>1. /\ pc' \in [Task -> PC]
      /\ \A u \in Task \ {t, n} : pc'[u] = pc[u]
      /\ pc'[t] = "end" /\ pc'[n] = "hello"
      /\ nxt' = [nxt EXCEPT ![t] = None]
  BY <1>0 DEF PC, Executing
<1>2. TypeOK'
  BY <1>1
<1>3. ProcessInv'
  BY ZenonT(40), <1>0, <1>1 DEF ProcessInv
<1>4. RegistryInv'
  <2> USE DEF RegistryInv
  <2>1. QueueSorted' /\ ActiveOK' /\ MainOK' /\ NoWaitBehindFreeKey' /\ IdsOK'
    BY DEF QueueSorted, ActiveOK, MainOK, NoWaitBehindFreeKey, IdsOK, Registered
  <2>2. NewOK'
    <3>1. state[n] # "new"
      BY <1>b
    <3> QED BY <1>0, <1>1, <3>1 DEF NewOK
  <2>3. QueueOK'
    <3>1. \A k \in Key : \A i \in DOMAIN queues[k] :
            state[queues[k][i]] = "queued" /\ pc[queues[k][i]] = "none"
      BY DEF QueueOK
    <3>2. \A k \in Key : \A i \in DOMAIN queues[k] :
            queues[k][i] \in Task \ {n, t}
      BY SMTT(20), <1>0, <1>b, <3>1
    <3> QED BY <1>1, <3>2 DEF QueueOK
  <2>4. \A u, v \in Task : StartedBy(u, v)' <=> StartedBy(u, v) /\ u # t
    BY ConstantsAssumption, <1>0, <1>1 DEF StartedBy
  <2>5. \A v \in Task : StartedByMain(v)' <=> StartedByMain(v)
    BY DEF StartedByMain
  <2>6. \A u \in Task : StartedBy(u, n) => u = t
    BY <1>0 DEF ActiveIsServed, Executing
  <2>7. StarterOK'
    <3>1. \A u, v \in Task : StartedBy(u, v)' =>
            pc'[v] = "none" /\ running'[KeyOf[v]] = v /\ ~StartedByMain(v)'
      BY <1>0, <1>1, <2>4, <2>5, <2>6 DEF StarterOK
    <3>2. \A u \in Task : pc'[u] = "start" => nxt'[u] # None
      BY <1>0, <1>1 DEF StarterOK
    <3>3. mpc' = "start" => /\ cur' \in Task
                            /\ pc'[cur'] = "none"
                            /\ running'[KeyOf[cur']] = cur'
      BY <1>0, <1>1 DEF StarterOK, StartedByMain
    <3> QED BY ZenonT(40), <3>1, <3>2, <3>3 DEF StarterOK
  <2>8. WorkerOwnsKey'
    BY <1>0, <1>1 DEF WorkerOwnsKey, Executing
  <2>9. ActiveIsServed'
    <3> SUFFICES ASSUME NEW v \in Task,
                        running'[KeyOf[v]] = v, pc'[v] \notin Executing
                 PROVE  /\ pc'[v] = "none"
                        /\ StartedByMain(v)' \/ \E u \in Task : StartedBy(u, v)'
                        /\ \A u \in Task : ~(StartedByMain(v)' /\ StartedBy(u, v)')
                        /\ \A u, w \in Task :
                             StartedBy(u, v)' /\ StartedBy(w, v)' => u = w
      BY DEF ActiveIsServed
    <3>1. v # n /\ v # t
      BY <1>0, <1>1 DEF ActiveIsServed, Executing
    <3>2. pc[v] = pc'[v]
      BY <1>1, <3>1
    <3>3. \A u \in Task : StartedBy(u, v) => u # t
      BY <3>1 DEF StartedBy
    <3>4. /\ pc[v] = "none"
          /\ StartedByMain(v) \/ \E u \in Task : StartedBy(u, v)
          /\ \A u \in Task : ~(StartedByMain(v) /\ StartedBy(u, v))
          /\ \A u, w \in Task : StartedBy(u, v) /\ StartedBy(w, v) => u = w
      BY <3>2 DEF ActiveIsServed
    <3> QED BY <2>4, <2>5, <3>2, <3>3, <3>4
  <2> QED BY <2>1, <2>2, <2>3, <2>7, <2>8, <2>9
<1> QED BY <1>2, <1>3, <1>4

\* What is left of a queue is the rest of it, one place further to the front.
LEMMA TailShifts ==
  ASSUME NEW q \in Seq(Task), q # <<>>
  PROVE  /\ Tail(q) \in Seq(Task)
         /\ DOMAIN Tail(q) = 1 .. (Len(q) - 1)
         /\ \A i \in DOMAIN Tail(q) :
              i + 1 \in DOMAIN q /\ Tail(q)[i] = q[i + 1]
<1>1. Len(q) \in Nat /\ Len(q) > 0
  OBVIOUS
<1>2. Tail(q) \in Seq(Task) /\ Len(Tail(q)) = Len(q) - 1
  OBVIOUS
<1>3. \A i \in 1 .. (Len(q) - 1) : Tail(q)[i] = q[i + 1]
  OBVIOUS
<1> QED
  BY <1>1, <1>2, <1>3

\* finish() retires the caller's own task, and what it promotes is the oldest
\* waiting task of the key, which no other thread will start.
LEMMA FinishInv ==
  ASSUME IInv, NEW t \in Task, Finish(t)
  PROVE  IInv'
<1> USE DEF IInv, TypeOK
<1> DEFINE k == KeyOf[t]
           next == IF queues[k] = <<>> THEN None ELSE Head(queues[k])
<1>1. /\ pc[t] = "finish" /\ k \in Key /\ running[k] = t
      /\ None \notin Task /\ t # None
  BY ConstantsAssumption DEF Finish, RegistryInv, WorkerOwnsKey, Executing
<1>2. /\ running' = [running EXCEPT ![k] = next]
      /\ queues' = [queues EXCEPT ![k] =
                      IF queues[k] = <<>> THEN queues[k] ELSE Tail(queues[k])]
      /\ state' = [u \in Task |-> IF u = next THEN "running"
                                  ELSE IF u = t THEN "done" ELSE state[u]]
      /\ byId' = (byId \ {t}) \cup ({next} \ {None})
      /\ nxt' = [nxt EXCEPT ![t] = next]
      /\ pc' = [pc EXCEPT ![t] = "ping"]
      /\ UNCHANGED <<enqueuedAt, clock, wasCancelling, handle, tries, live,
                     mpc, cur, grabbed, victims, cancelled, answered, lost>>
  BY <1>1 DEF Finish, procVars, mainVars, chatVars
<1>3. queues[k] \in Seq(Task)
  BY <1>1
<1>4. next # None =>
        /\ next \in Task /\ queues[k] # <<>> /\ next = queues[k][1]
        /\ 1 \in DOMAIN queues[k] /\ KeyOf[next] = k
        /\ state[next] = "queued" /\ pc[next] = "none" /\ next # t
  BY <1>1, <1>3 DEF RegistryInv, QueueOK
<1>5. queues[k] # <<>> => next # None
  BY <1>1, <1>3
<1>6. queues[k] # <<>> =>
        /\ Tail(queues[k]) \in Seq(Task)
        /\ DOMAIN Tail(queues[k]) = 1 .. (Len(queues[k]) - 1)
        /\ \A i \in DOMAIN Tail(queues[k]) :
             i + 1 \in DOMAIN queues[k] /\ Tail(queues[k])[i] = queues[k][i + 1]
  BY <1>3, TailShifts
<1>7. TypeOK'
  BY <1>1, <1>2, <1>3, <1>4, <1>6 DEF TaskState, PC
<1>8. ProcessInv'
  BY <1>1, <1>2 DEF ProcessInv
<1>9. RegistryInv'
  <2> USE DEF RegistryInv
  \* Nobody is about to start a task of this key.
  <2>1. \A v \in Task : KeyOf[v] = k =>
          ~StartedByMain(v) /\ \A u \in Task : ~StartedBy(u, v)
    BY <1>1 DEF StarterOK, StartedByMain
  <2>2. \A u, v \in Task :
          StartedBy(u, v)' <=> StartedBy(u, v) \/ (u = t /\ v = next)
    BY <1>1, <1>2 DEF StartedBy
  <2>3. \A v \in Task : StartedByMain(v)' <=> StartedByMain(v)
    BY <1>2 DEF StartedByMain
  <2>4. \A v \in Task : running[KeyOf[v]] = v /\ v # t => KeyOf[v] # k
    BY <1>1
  <2>5. \A v \in Task : KeyOf[v] \in Key
    BY ConstantsAssumption
  \* The queue of another key, and what is left of this one.
  <2>6. \A kk \in Key \ {k} : queues'[kk] = queues[kk] /\ running'[kk] = running[kk]
    BY <1>1, <1>2
  <2>7. /\ running'[k] = next
        /\ queues'[k] = IF queues[k] = <<>> THEN queues[k] ELSE Tail(queues[k])
    BY <1>1, <1>2
  <2>8. ASSUME NEW i \in DOMAIN queues'[k]
        PROVE  /\ i \in Nat /\ i + 1 \in DOMAIN queues[k] /\ next # None
               /\ 1 \in DOMAIN queues[k] /\ next = queues[k][1] /\ 1 < i + 1
               /\ queues'[k][i] = queues[k][i + 1]
    <3>1. queues[k] # <<>>
      BY <2>7
    <3>2. queues'[k] = Tail(queues[k])
      BY <2>7, <3>1
    <3>3. i \in 1 .. (Len(queues[k]) - 1)
      BY <1>6, <3>1, <3>2
    <3>4. i \in Nat /\ 1 < i + 1
      BY <1>3, <3>3
    <3> QED BY <1>4, <1>5, <1>6, <3>1, <3>2, <3>3, <3>4
  <2>9. \A i \in DOMAIN queues'[k] :
          /\ i \in Nat /\ i + 1 \in DOMAIN queues[k] /\ next # None
          /\ queues'[k][i] = queues[k][i + 1]
          /\ enqueuedAt[next] < enqueuedAt[queues[k][i + 1]]
    BY <1>1, <2>8 DEF QueueSorted
  <2>10. \A kk \in Key : \A i \in DOMAIN queues'[kk] :
           /\ queues'[kk][i] \in Task
           /\ queues'[kk][i] # t
           /\ queues'[kk][i] # next
           /\ KeyOf[queues'[kk][i]] = kk
           /\ state[queues'[kk][i]] = "queued"
           /\ pc[queues'[kk][i]] = "none"
           /\ queues'[kk][i] \in byId
    <3> SUFFICES ASSUME NEW kk \in Key, NEW i \in DOMAIN queues'[kk]
                 PROVE  /\ queues'[kk][i] \in Task
                        /\ queues'[kk][i] # t
                        /\ queues'[kk][i] # next
                        /\ KeyOf[queues'[kk][i]] = kk
                        /\ state[queues'[kk][i]] = "queued"
                        /\ pc[queues'[kk][i]] = "none"
                        /\ queues'[kk][i] \in byId
      OBVIOUS
    <3>1. PICK j \in DOMAIN queues[kk] : queues'[kk][i] = queues[kk][j]
                                         /\ (kk = k => j = i + 1)
      <4>1. CASE kk # k
        BY <2>6, <4>1
      <4>2. CASE kk = k
        BY <2>9, <4>2
      <4> QED BY <4>1, <4>2
    <3>2. /\ queues[kk][j] \in Task /\ KeyOf[queues[kk][j]] = kk
          /\ state[queues[kk][j]] = "queued" /\ pc[queues[kk][j]] = "none"
          /\ queues[kk][j] \in byId
      BY DEF QueueOK
    <3>3. queues[kk][j] # t
      BY <1>1, <3>2
    <3>4. queues[kk][j] # next
      <4>1. CASE kk # k
        BY <1>1, <1>4, <3>2, <4>1
      <4>2. CASE kk = k
        <5>1. next \in Task /\ enqueuedAt[next] < enqueuedAt[queues[k][j]]
          BY <1>4, <2>9, <3>1, <4>2
        <5>2. enqueuedAt[next] \in Nat
          BY <5>1
        <5> QED BY <4>2, <5>1, <5>2
      <4> QED BY <4>1, <4>2
    <3> QED BY <3>1, <3>2, <3>3, <3>4
  <2>11. QueueOK'
    <3>1. \A u \in Task : u # t /\ u # next =>
            state'[u] = state[u] /\ pc'[u] = pc[u] /\ (u \in byId => u \in byId')
      BY <1>2
    <3>2. \A kk \in Key : \A i \in DOMAIN queues'[kk] :
            /\ KeyOf[queues'[kk][i]] = kk
            /\ state'[queues'[kk][i]] = "queued"
            /\ pc'[queues'[kk][i]] = "none"
            /\ queues'[kk][i] \in byId'
      BY ONLY <2>10, <3>1
    <3> QED BY ONLY <3>2 DEF QueueOK
  <2>12. QueueSorted'
    <3> SUFFICES ASSUME NEW kk \in Key, NEW i \in DOMAIN queues'[kk],
                        NEW j \in DOMAIN queues'[kk], i < j
                 PROVE  enqueuedAt'[queues'[kk][i]] < enqueuedAt'[queues'[kk][j]]
      BY DEF QueueSorted
    <3>1. CASE kk # k
      BY <1>2, <2>6, <3>1 DEF QueueSorted
    <3>2. CASE kk = k
      <4>1. /\ i + 1 \in DOMAIN queues[k] /\ j + 1 \in DOMAIN queues[k]
            /\ queues'[k][i] = queues[k][i + 1]
            /\ queues'[k][j] = queues[k][j + 1]
            /\ i \in Nat /\ j \in Nat
        BY <2>9, <3>2
      <4>2. i + 1 < j + 1
        BY <4>1
      <4>3. enqueuedAt[queues[k][i + 1]] < enqueuedAt[queues[k][j + 1]]
        BY <1>1, <4>1, <4>2 DEF QueueSorted
      <4> QED BY <1>2, <3>2, <4>1, <4>3
    <3> QED BY <3>1, <3>2
  <2>13. ActiveOK'
    <3> SUFFICES ASSUME NEW kk \in Key, running'[kk] # None
                 PROVE  /\ KeyOf[running'[kk]] = kk
                        /\ state'[running'[kk]] \in {"running", "cancelling", "done"}
                        /\ \A i \in DOMAIN queues'[kk] :
                             enqueuedAt'[running'[kk]] < enqueuedAt'[queues'[kk][i]]
      BY DEF ActiveOK
    <3>1. CASE kk # k
      <4>1. /\ running'[kk] \in Task /\ KeyOf[running'[kk]] = kk
            /\ state[running'[kk]] \in {"running", "cancelling", "done"}
            /\ \A i \in DOMAIN queues'[kk] :
                 enqueuedAt[running'[kk]] < enqueuedAt[queues'[kk][i]]
        BY <2>6, <3>1 DEF ActiveOK
      <4> QED BY <1>2, <4>1
    <3>2. CASE kk = k
      BY <1>2, <1>4, <2>7, <2>9, <3>2
    <3> QED BY <3>1, <3>2
  <2>14. NewOK'
    BY <1>1, <1>2, <1>4 DEF NewOK
  <2>15. StarterOK'
    <3>1. mpc' = "start" => /\ cur' \in Task
                            /\ pc'[cur'] = "none"
                            /\ running'[KeyOf[cur']] = cur'
      BY <1>1, <1>2, <2>4, <2>5, <2>6 DEF StarterOK
    <3>2. \A u \in Task : pc'[u] = "start" => nxt'[u] # None
      BY <1>1, <1>2 DEF StarterOK
    <3>3. \A u, v \in Task : StartedBy(u, v) =>
            pc'[v] = "none" /\ running'[KeyOf[v]] = v /\ ~StartedByMain(v)'
      BY <1>1, <1>2, <2>1, <2>3, <2>5, <2>6 DEF StarterOK
    <3>4. \A v \in Task : v = next =>
            pc'[v] = "none" /\ running'[KeyOf[v]] = v /\ ~StartedByMain(v)'
      <4> SUFFICES ASSUME NEW v \in Task, v = next
                   PROVE  /\ pc'[v] = "none" /\ running'[KeyOf[v]] = v
                          /\ ~StartedByMain(v)'
        OBVIOUS
      <4>1. KeyOf[v] = k /\ pc[v] = "none" /\ v # t
        BY <1>1, <1>4
      <4>2. pc'[v] = "none" /\ running'[KeyOf[v]] = v
        BY <1>2, <2>7, <4>1
      <4> QED BY <2>1, <2>3, <4>1, <4>2
    <3> HIDE DEF next
    <3> QED BY <2>2, <3>1, <3>2, <3>3, <3>4 DEF StarterOK
  <2>16. MainOK'
    BY <1>2 DEF MainOK
  <2>17. WorkerOwnsKey'
    BY <1>1, <1>2, <2>4, <2>5, <2>6 DEF WorkerOwnsKey, Executing
  <2>18. NoWaitBehindFreeKey'
    BY <1>5, <2>6, <2>7 DEF NoWaitBehindFreeKey
  <2>19. IdsOK'
    <3> SUFFICES ASSUME NEW v \in byId' PROVE Registered(v)'
      BY DEF IdsOK
    <3>1. CASE v = next
      <4>1. v \in Task /\ v # None
        BY <1>1, <1>7
      <4>2. KeyOf[v] = k /\ running'[k] = v
        BY <1>4, <2>7, <3>1, <4>1
      <4> QED BY <4>2 DEF Registered
    <3>2. CASE v # next
      <4>1. v \in byId /\ v # t /\ v \in Task
        BY <1>2, <3>2
      <4>2. CASE running[KeyOf[v]] = v
        BY <2>4, <2>5, <2>6, <4>1, <4>2 DEF Registered
      <4>3. CASE v \in ToSet(queues[KeyOf[v]])
        <5>1. PICK i \in DOMAIN queues[KeyOf[v]] : queues[KeyOf[v]][i] = v
          BY <4>3 DEF ToSet
        <5>2. CASE KeyOf[v] # k
          BY <2>5, <2>6, <4>1, <4>3, <5>2 DEF Registered
        <5>3. CASE KeyOf[v] = k
          <6>1. queues[k] # <<>> /\ i # 1
            BY <1>3, <1>5, <1>4, <3>2, <5>1, <5>3
          <6>2. i - 1 \in DOMAIN queues'[k] /\ queues'[k][i - 1] = v
            <7>1. queues'[k] = Tail(queues[k]) /\ i \in 1 .. Len(queues[k])
              BY SMTT(20), <1>3, <2>7, <5>1, <5>3, <6>1
            <7>2. i - 1 \in 1 .. (Len(queues[k]) - 1) /\ (i - 1) + 1 = i
              <8>1. Len(queues[k]) \in Nat
                BY <1>3
              <8> HIDE DEF k
              <8> QED BY ONLY <6>1, <7>1, <8>1
            <7> QED BY <1>6, <5>1, <5>3, <6>1, <7>1, <7>2
          <6> QED BY <5>3, <6>2 DEF Registered, ToSet
        <5> QED BY <5>2, <5>3
      <4> QED BY <4>1, <4>2, <4>3 DEF IdsOK, Registered
    <3> QED BY <3>1, <3>2
  <2>20. ActiveIsServed'
    <3> SUFFICES ASSUME NEW v \in Task,
                        running'[KeyOf[v]] = v, pc'[v] \notin Executing
                 PROVE  /\ pc'[v] = "none"
                        /\ StartedByMain(v)' \/ \E u \in Task : StartedBy(u, v)'
                        /\ \A u \in Task : ~(StartedByMain(v)' /\ StartedBy(u, v)')
                        /\ \A u, w \in Task :
                             StartedBy(u, v)' /\ StartedBy(w, v)' => u = w
      BY DEF ActiveIsServed
    <3>1. CASE KeyOf[v] = k
      <4>1. v = next /\ pc'[v] = "none"
        BY <1>1, <1>2, <1>4, <2>7, <3>1
      <4> QED BY <2>1, <2>2, <2>3, <3>1, <4>1
    <3>2. CASE KeyOf[v] # k
      <4>1. /\ v # t /\ pc[v] = pc'[v] /\ running[KeyOf[v]] = v
            /\ v # next
        BY <1>1, <1>2, <1>4, <2>5, <2>6, <3>2
      <4>2. /\ pc[v] = "none"
            /\ StartedByMain(v) \/ \E u \in Task : StartedBy(u, v)
            /\ \A u \in Task : ~(StartedByMain(v) /\ StartedBy(u, v))
            /\ \A u, w \in Task : StartedBy(u, v) /\ StartedBy(w, v) => u = w
        BY <4>1 DEF ActiveIsServed
      <4> QED BY <2>2, <2>3, <4>1, <4>2
    <3> QED BY <3>1, <3>2
  <2> QED BY <2>11, <2>12, <2>13, <2>14, <2>15, <2>16, <2>17, <2>18, <2>19,
             <2>20
<1> QED BY <1>7, <1>8, <1>9
-----------------------------------------------------------------------------
(* The steps of the main loop.                                             *)

\* The main loop starts the task dispatch() returned, which no worker starts.
LEMMA StartDispatchedInv ==
  ASSUME IInv, StartDispatched
  PROVE  IInv'
<1> USE DEF StartDispatched, registryVars, procVars, chatVars, IInv, TypeOK
<1>0. /\ mpc = "start" /\ cur \in Task /\ pc[cur] = "none"
      /\ running[KeyOf[cur]] = cur
      /\ pc' = [pc EXCEPT ![cur] = "hello"] /\ mpc' = "idle"
  BY DEF RegistryInv, StarterOK
<1>1. TypeOK'
  BY <1>0 DEF PC, Executing, MainPC
<1>2. ProcessInv'
  BY <1>0 DEF ProcessInv
<1>3. RegistryInv'
  <2> USE DEF RegistryInv
  <2>1. QueueSorted' /\ ActiveOK' /\ MainOK' /\ NoWaitBehindFreeKey' /\ IdsOK'
    BY <1>0 DEF QueueSorted, ActiveOK, MainOK, NoWaitBehindFreeKey, IdsOK,
       Registered
  <2>2. state[cur] \in {"running", "cancelling", "done"}
    <3>0. cur \in Task /\ cur # None /\ running[KeyOf[cur]] = cur
      BY <1>0, ConstantsAssumption
    <3>1. KeyOf[cur] \in Key /\ running[KeyOf[cur]] # None
      BY <3>0, ConstantsAssumption
    <3>2. state[running[KeyOf[cur]]] \in {"running", "cancelling", "done"}
      BY <3>1 DEF ActiveOK
    <3> QED BY <1>0, <3>2
  <2>3. NewOK'
    BY <1>0, <2>2 DEF NewOK
  <2>4. QueueOK'
    <3>1. \A k \in Key : \A i \in DOMAIN queues[k] :
            state[queues[k][i]] = "queued" /\ pc[queues[k][i]] = "none"
      BY DEF QueueOK
    <3>2. \A k \in Key : \A i \in DOMAIN queues[k] :
            queues[k][i] \in Task \ {cur}
      BY <2>2, <3>1
    <3> QED BY <1>0, <3>2 DEF QueueOK
  <2>5. \A u, v \in Task : StartedBy(u, v)' <=> StartedBy(u, v)
    BY <1>0 DEF StartedBy
  <2>6. \A u \in Task : ~StartedBy(u, cur)
    BY <1>0 DEF StarterOK, StartedByMain
  <2>7. \A v \in Task : /\ ~StartedByMain(v)'
                        /\ StartedByMain(v) => v = cur
    BY <1>0 DEF StartedByMain
  <2>8. StarterOK'
    BY <1>0, <2>5, <2>6, <2>7 DEF StarterOK
  <2>9. WorkerOwnsKey'
    BY <1>0 DEF WorkerOwnsKey, Executing
  <2>10. ActiveIsServed'
    BY <1>0, <2>5, <2>6, <2>7 DEF ActiveIsServed, Executing
  <2> QED BY <2>1, <2>3, <2>4, <2>8, <2>9, <2>10
<1> QED BY <1>1, <1>2, <1>3

\* LookUpKey and ReadHandle move the main loop only.
LEMMA MainMovesInv ==
  ASSUME IInv, LookUpKey \/ \E t \in Task : ReadHandle(t)
  PROVE  IInv'
<1> USE DEF IInv, TypeOK, registryVars, procVars, workerVars, chatVars
<1>1. /\ UNCHANGED <<registryVars, procVars, workerVars, chatVars>>
      /\ mpc \in {"lookup", "killing"}
      /\ mpc' \in {"cancelkey", "idle", "kill"}
      /\ mpc' \in {"cancelkey", "kill"} => cur' \in Task
      /\ cur' \in Task \cup {None} /\ grabbed' \in 0..2
      /\ victims' \in SUBSET Task
  BY DEF LookUpKey, ReadHandle, RegistryInv, MainOK
<1>2. TypeOK' /\ ProcessInv'
  BY <1>1 DEF MainPC, ProcessInv
<1>3. RegistryInv'
  BY <1>1 DEF RegistryInv, QueueOK, QueueSorted, ActiveOK, NewOK, StarterOK,
     MainOK, IdsOK, WorkerOwnsKey, ActiveIsServed, NoWaitBehindFreeKey,
     Registered, StartedBy, StartedByMain
<1> QED BY <1>2, <1>3

\* Killing a process tree touches processes only, never the queues.
LEMMA KillTreeInv ==
  ASSUME IInv, KillTree
  PROVE  IInv'
<1> USE DEF IInv, TypeOK, registryVars, workerVars, chatVars, KillTree
<1>1. cur \in Task /\ mpc' \in {"idle", "killing"} /\ mpc = "kill"
  BY DEF RegistryInv, MainOK
<1>2. /\ live' \in [Task -> BOOLEAN]
      /\ \A t \in Task : live'[t] => live[t]
  BY <1>1
<1>3. TypeOK'
  BY <1>1, <1>2 DEF MainPC
<1>4. ProcessInv'
  BY <1>2 DEF ProcessInv
<1>5. RegistryInv'
  BY <1>1 DEF RegistryInv, QueueOK, QueueSorted, ActiveOK, NewOK, StarterOK,
     MainOK, IdsOK, WorkerOwnsKey, ActiveIsServed, NoWaitBehindFreeKey,
     Registered, StartedBy, StartedByMain
<1> QED BY <1>3, <1>4, <1>5

\* The cancelled queues are empty afterwards; the active tasks stay active,
\* which is what makes cancel safe against a double start.
LEMMA CancelKeysInv ==
  ASSUME IInv, NEW ks \in SUBSET Key, CancelKeys(ks), mpc # "start"
  PROVE  IInv'
<1> USE DEF IInv, TypeOK
<1> DEFINE active == {running[k] : k \in ks} \ {None}
           dropped == UNION {ToSet(queues[k]) : k \in ks}
<1>1. /\ queues' = [k \in Key |-> IF k \in ks THEN <<>> ELSE queues[k]]
      /\ byId' = byId \ dropped
      /\ state' = [t \in Task |-> IF t \in active THEN "cancelling" ELSE state[t]]
      /\ victims' = active /\ cancelled' = cancelled \cup active
      /\ mpc' \in {"idle", "killing"} /\ cur' = None
      /\ UNCHANGED <<running, enqueuedAt, clock, grabbed, handle, tries, live,
                     pc, nxt, wasCancelling, answered, lost>>
  BY DEF CancelKeys, procVars, workerVars
<1>2. active \in SUBSET Task
  OBVIOUS
<1>3. \A t \in active : \E k \in Key : running[k] = t /\ t # None
  OBVIOUS
<1> HIDE DEF active
<1>4. TypeOK'
  BY <1>1, <1>2 DEF TaskState, MainPC
<1>5. ProcessInv'
  BY <1>1 DEF ProcessInv
<1>6. RegistryInv'
  <2> USE DEF RegistryInv
  <2>0. \A k \in Key : \A i \in DOMAIN queues'[k] :
          k \notin ks /\ queues'[k] = queues[k]
    BY <1>1
  <2>1. QueueOK'
    <3> SUFFICES ASSUME NEW k \in Key, NEW i \in DOMAIN queues'[k]
                 PROVE  /\ KeyOf[queues'[k][i]] = k
                        /\ state'[queues'[k][i]] = "queued"
                        /\ pc'[queues'[k][i]] = "none"
                        /\ queues'[k][i] \in byId'
      BY DEF QueueOK
    <3> DEFINE t == queues[k][i]
    <3>1. /\ k \notin ks /\ queues'[k][i] = t /\ t \in Task /\ i \in DOMAIN queues[k]
          /\ KeyOf[t] = k /\ state[t] = "queued" /\ pc[t] = "none" /\ t \in byId
      BY <2>0 DEF QueueOK
    <3>2. t \notin active
      BY <1>3, <3>1 DEF ActiveOK
    <3>3. t \notin dropped
      <4>1. \A kk \in Key : t \in ToSet(queues[kk]) => kk = k
        BY <3>1 DEF QueueOK, ToSet
      <4> QED BY <3>1, <4>1
    <3> QED BY <1>1, <3>1, <3>2, <3>3
  <2>2. QueueSorted'
    BY <1>1, <2>0 DEF QueueSorted
  <2>3. ActiveOK'
    BY <1>1, <2>0 DEF ActiveOK
  <2>4. NewOK'
    BY <1>1 DEF NewOK
  <2>5. \A u, v \in Task : StartedBy(u, v)' <=> StartedBy(u, v)
    BY <1>1 DEF StartedBy
  <2>6. \A v \in Task : ~StartedByMain(v)' /\ ~StartedByMain(v)
    BY <1>1 DEF StartedByMain
  <2>7. StarterOK'
    BY <1>1, <2>5, <2>6 DEF StarterOK
  <2>8. MainOK' /\ WorkerOwnsKey'
    BY <1>1 DEF MainOK, WorkerOwnsKey
  <2>9. ActiveIsServed'
    BY <1>1, <2>5, <2>6 DEF ActiveIsServed
  <2>10. NoWaitBehindFreeKey'
    BY <1>1 DEF NoWaitBehindFreeKey
  <2>11. IdsOK'
    <3> SUFFICES ASSUME NEW t \in byId' PROVE Registered(t)'
      BY DEF IdsOK
    <3>1. t \in byId /\ t \notin dropped /\ KeyOf[t] \in Key
      BY <1>1, ConstantsAssumption
    <3>2. t \in ToSet(queues[KeyOf[t]]) => KeyOf[t] \notin ks
      BY <3>1
    <3> QED BY <1>1, <3>1, <3>2 DEF IdsOK, Registered
  <2> QED BY <2>1, <2>2, <2>3, <2>4, <2>7, <2>8, <2>9, <2>10, <2>11
<1> QED BY <1>4, <1>5, <1>6

\* What RemoveAt leaves of a sequence.
LEMMA RemoveAtElements ==
  ASSUME NEW S, NEW s \in Seq(S), NEW i \in DOMAIN s
  PROVE  /\ RemoveAt(s, i) \in Seq(S)
         /\ DOMAIN RemoveAt(s, i) = 1 .. (Len(s) - 1)
         /\ \A j \in 1 .. (Len(s) - 1) :
              RemoveAt(s, i)[j] = IF j < i THEN s[j] ELSE s[j + 1]
<1> DEFINE a == SubSeq(s, 1, i - 1)
           b == SubSeq(s, i + 1, Len(s))
<1>1. Len(s) \in Nat /\ i \in 1 .. Len(s)
  OBVIOUS
<1>2. /\ a \in Seq(S) /\ Len(a) = i - 1
      /\ \A j \in 1 .. (i - 1) : a[j] = s[j]
  BY <1>1
<1>3. /\ b \in Seq(S) /\ Len(b) = Len(s) - i
      /\ \A j \in 1 .. (Len(s) - i) : b[j] = s[i + j]
  BY <1>1
<1>4. RemoveAt(s, i) = a \o b
  BY DEF RemoveAt
<1> HIDE DEF a, b
<1>5. /\ a \o b \in Seq(S) /\ Len(a \o b) = Len(s) - 1
      /\ \A j \in 1 .. (Len(s) - 1) :
           (a \o b)[j] = IF j <= i - 1 THEN a[j] ELSE b[j - (i - 1)]
  <2>1. /\ a \o b \in Seq(S) /\ Len(a \o b) = Len(a) + Len(b)
        /\ \A j \in 1 .. (Len(a) + Len(b)) :
             (a \o b)[j] = IF j <= Len(a) THEN a[j] ELSE b[j - Len(a)]
    BY <1>2, <1>3, ConcatProperties
  <2>2. Len(a) + Len(b) = Len(s) - 1
    BY <1>1, <1>2, <1>3
  <2> QED BY <1>2, <2>1, <2>2
<1>6. ASSUME NEW j \in 1 .. (Len(s) - 1)
      PROVE  (a \o b)[j] = IF j < i THEN s[j] ELSE s[j + 1]
  <2>1. CASE j < i
    BY <1>1, <1>2, <1>5, <2>1
  <2>2. CASE ~(j < i)
    <3>1. /\ j - (i - 1) \in 1 .. (Len(s) - i) /\ i + (j - (i - 1)) = j + 1
          /\ ~(j <= i - 1)
      BY <1>1, <2>2
    <3> QED BY <1>3, <1>5, <2>2, <3>1
  <2> QED BY <2>1, <2>2
<1>7. DOMAIN (a \o b) = 1 .. (Len(s) - 1)
  BY <1>5
<1> QED BY <1>4, <1>5, <1>6, <1>7

\* Removing an element of a sequence that some measure f strictly sorts takes
\* that element out and leaves the others, sorted.
LEMMA RemoveAtOrder ==
  ASSUME NEW S, NEW s \in Seq(S), NEW i \in DOMAIN s, NEW f \in [S -> Nat],
         \A a, b \in DOMAIN s : a < b => f[s[a]] < f[s[b]]
  PROVE  /\ \A j \in DOMAIN RemoveAt(s, i) :
              /\ RemoveAt(s, i)[j] # s[i]
              /\ \E m \in DOMAIN s : RemoveAt(s, i)[j] = s[m]
         /\ \A a, b \in DOMAIN RemoveAt(s, i) : a < b =>
              f[RemoveAt(s, i)[a]] < f[RemoveAt(s, i)[b]]
         /\ \A m \in DOMAIN s : s[m] # s[i] =>
              \E j \in DOMAIN RemoveAt(s, i) : RemoveAt(s, i)[j] = s[m]
<1> DEFINE r == RemoveAt(s, i)
           n == Len(s)
           old(j) == IF j < i THEN j ELSE j + 1
<1>1. n \in Nat /\ DOMAIN s = 1 .. n /\ i \in 1 .. n
  OBVIOUS
<1>2. DOMAIN r = 1 .. (n - 1) /\ \A j \in 1 .. (n - 1) : r[j] = s[old(j)]
  <2>1. /\ DOMAIN r = 1 .. (n - 1)
        /\ \A j \in 1 .. (n - 1) : r[j] = IF j < i THEN s[j] ELSE s[j + 1]
    BY RemoveAtElements
  <2> HIDE DEF r, n
  <2>2. ASSUME NEW j \in 1 .. (n - 1) PROVE r[j] = s[old(j)]
    <3>1. CASE j < i
      BY <2>1, <3>1
    <3>2. CASE ~(j < i)
      BY <2>1, <3>2
    <3> QED BY <3>1, <3>2
  <2> QED BY <2>1, <2>2
<1>3. \A a \in 1 .. n : s[a] \in S /\ f[s[a]] \in Nat
  BY <1>1
<1> HIDE DEF r, n
<1>4. \A j \in 1 .. (n - 1) : old(j) \in 1 .. n /\ old(j) # i
  BY <1>1
<1>5. \A a, b \in 1 .. (n - 1) : a < b => old(a) < old(b)
  BY <1>1
<1>6. \A m \in 1 .. n : m # i => \E j \in 1 .. (n - 1) : old(j) = m
  <2> SUFFICES ASSUME NEW m \in 1 .. n, m # i
               PROVE  \E j \in 1 .. (n - 1) : old(j) = m
    OBVIOUS
  <2>1. CASE m < i
    <3>1. m \in 1 .. (n - 1) /\ old(m) = m
      BY <1>1, <2>1
    <3> QED BY <3>1
  <2>2. CASE i < m
    <3>1. m - 1 \in 1 .. (n - 1) /\ old(m - 1) = m
      BY <1>1, <2>2
    <3> QED BY <3>1
  <2> QED BY <1>1, <2>1, <2>2
<1>7. \A m \in 1 .. n : m # i => s[m] # s[i]
  <2> SUFFICES ASSUME NEW m \in 1 .. n, m # i PROVE s[m] # s[i]
    OBVIOUS
  <2>1. m < i \/ i < m
    BY <1>1
  <2>2. f[s[m]] < f[s[i]] \/ f[s[i]] < f[s[m]]
    BY <1>1, <2>1
  <2> QED BY <1>1, <1>3, <2>2
<1> HIDE DEF old
<1>8. \A j \in DOMAIN r : r[j] # s[i] /\ \E m \in DOMAIN s : r[j] = s[m]
  BY <1>1, <1>2, <1>4, <1>7
<1>9. \A a, b \in DOMAIN r : a < b => f[r[a]] < f[r[b]]
  BY SMTT(20), <1>1, <1>2, <1>4, <1>5
<1>10. \A m \in DOMAIN s : s[m] # s[i] => \E j \in DOMAIN r : r[j] = s[m]
  BY <1>1, <1>2, <1>6
<1> QED BY <1>8, <1>9, <1>10 DEF r

\* dispatch() registers a new task: active on a free key, else at the end of
\* the key's queue.
LEMMA DispatchInv ==
  ASSUME IInv, NEW t \in Task, Dispatch(t)
  PROVE  IInv'
<1> USE DEF IInv, TypeOK
<1> DEFINE k == KeyOf[t]
<1>1. /\ mpc = "idle" /\ state[t] = "new" /\ k \in Key
      /\ pc[t] = "none" /\ t \notin byId /\ None \notin Task
  BY ConstantsAssumption DEF Dispatch, RegistryInv, NewOK
<1>2. /\ clock' = clock + 1 /\ clock \in Nat
      /\ enqueuedAt' = [enqueuedAt EXCEPT ![t] = clock + 1]
      /\ byId' = byId \cup {t}
      /\ UNCHANGED <<grabbed, victims, handle, tries, live, pc, nxt,
                     wasCancelling, cancelled, answered, lost>>
  BY DEF Dispatch, Enqueue, procVars, workerVars, chatVars
\* The task is new to every part of the registry.
<1>3. /\ \A kk \in Key : running[kk] # t
      /\ \A kk \in Key : \A i \in DOMAIN queues[kk] : queues[kk][i] # t
  <2>1. \A kk \in Key : running[kk] # None => state[running[kk]] # "new"
    BY DEF RegistryInv, ActiveOK
  <2>2. \A kk \in Key : \A i \in DOMAIN queues[kk] : state[queues[kk][i]] # "new"
    BY DEF RegistryInv, QueueOK
  <2> QED BY <1>1, <2>1, <2>2
<1>4. \A u, v \in Task : StartedBy(u, v)' <=> StartedBy(u, v)
  BY <1>2 DEF StartedBy
<1>5. \A v \in Task : ~StartedByMain(v)
  BY <1>1 DEF StartedByMain
<1>6. \A u \in Task : ~StartedBy(u, t)
  BY <1>1, <1>3 DEF RegistryInv, StarterOK
<1>7. \A v \in Task \ {t} : enqueuedAt'[v] = enqueuedAt[v]
  BY <1>2
<1>8. CASE running[k] = None
  <2>1. /\ running' = [running EXCEPT ![k] = t]
        /\ state' = [state EXCEPT ![t] = "running"]
        /\ queues' = queues /\ mpc' = "start" /\ cur' = t
    BY <1>8 DEF Dispatch, Enqueue
  <2>2. TypeOK' /\ ProcessInv'
    BY <1>1, <1>2, <2>1 DEF TaskState, MainPC, ProcessInv
  <2>3. RegistryInv'
    <3> USE DEF RegistryInv
    <3>1. queues[k] = <<>>
      BY <1>1, <1>8 DEF NoWaitBehindFreeKey
    <3>2. QueueOK' /\ QueueSorted'
      BY <1>2, <1>3, <1>7, <2>1 DEF QueueOK, QueueSorted
    <3>3. ActiveOK'
      <4> SUFFICES ASSUME NEW kk \in Key, running'[kk] # None
                   PROVE  /\ KeyOf[running'[kk]] = kk
                          /\ state'[running'[kk]] \in {"running", "cancelling", "done"}
                          /\ \A i \in DOMAIN queues'[kk] :
                               enqueuedAt'[running'[kk]] < enqueuedAt'[queues'[kk][i]]
        BY DEF ActiveOK
      <4>1. CASE kk = k
        BY <1>1, <2>1, <3>1, <4>1
      <4>2. CASE kk # k
        <5>1. running'[kk] = running[kk] /\ running[kk] \in Task \ {t}
          BY <1>3, <2>1, <4>2
        <5>2. \A i \in DOMAIN queues[kk] : queues[kk][i] \in Task \ {t}
          BY <1>3
        <5> QED BY <1>7, <2>1, <5>1, <5>2 DEF ActiveOK
      <4> QED BY <4>1, <4>2
    <3>4. NewOK'
      BY <1>2, <2>1 DEF NewOK
    <3>5. \A v \in Task \ {t} : running[KeyOf[v]] = v => running'[KeyOf[v]] = v
      BY <1>1, <1>8, <2>1, ConstantsAssumption
    <3>6. \A v \in Task : StartedByMain(v)' <=> v = t
      BY <2>1 DEF StartedByMain
    <3>7. StarterOK'
      BY <1>1, <1>2, <1>4, <1>6, <2>1, <3>5, <3>6 DEF StarterOK
    <3>8. MainOK' /\ NoWaitBehindFreeKey'
      BY <1>1, <2>1 DEF MainOK, NoWaitBehindFreeKey
    <3>9. IdsOK'
      BY <1>1, <1>2, <2>1, <3>5 DEF IdsOK, Registered
    <3>10. WorkerOwnsKey'
      BY <1>1, <1>2, <3>5 DEF WorkerOwnsKey, Executing
    <3>11. ActiveIsServed'
      <4> SUFFICES ASSUME NEW v \in Task,
                          running'[KeyOf[v]] = v, pc'[v] \notin Executing
                   PROVE  /\ pc'[v] = "none"
                          /\ StartedByMain(v)' \/ \E u \in Task : StartedBy(u, v)'
                          /\ \A u \in Task : ~(StartedByMain(v)' /\ StartedBy(u, v)')
                          /\ \A u, w \in Task :
                               StartedBy(u, v)' /\ StartedBy(w, v)' => u = w
        BY DEF ActiveIsServed
      <4>1. CASE v = t
        BY <1>1, <1>2, <1>4, <1>6, <3>6, <4>1
      <4>2. CASE v # t
        <5>1. running[KeyOf[v]] = v /\ pc[v] = pc'[v]
          BY <1>1, <1>2, <2>1, <4>2, ConstantsAssumption
        <5> QED BY <1>4, <1>5, <3>6, <4>2, <5>1 DEF ActiveIsServed
      <4> QED BY <4>1, <4>2
    <3> QED BY <3>2, <3>3, <3>4, <3>7, <3>8, <3>9, <3>10, <3>11
  <2> QED BY <2>2, <2>3
<1>9. CASE running[k] # None
  <2>1. /\ queues' = [queues EXCEPT ![k] = Append(queues[k], t)]
        /\ state' = [state EXCEPT ![t] = "queued"]
        /\ running' = running /\ mpc' = mpc /\ cur' = cur
    BY <1>9 DEF Dispatch, Enqueue
  <2>2. TypeOK' /\ ProcessInv'
    BY <1>1, <1>2, <2>1 DEF TaskState, ProcessInv
  <2>3. RegistryInv'
    <3> USE DEF RegistryInv
    <3>1. /\ queues[k] \in Seq(Task) /\ Len(queues[k]) \in Nat
          /\ queues'[k] = Append(queues[k], t)
      BY <1>1, <2>1
    <3>2. \A i \in DOMAIN queues'[k] :
            \/ i \in DOMAIN queues[k] /\ queues'[k][i] = queues[k][i]
            \/ i = Len(queues[k]) + 1 /\ queues'[k][i] = t
      BY <3>1
    <3>3. \A kk \in Key \ {k} : queues'[kk] = queues[kk]
      BY <2>1
    <3>4. QueueOK'
      <4>1. \A kk \in Key : running'[kk] = running[kk]
        BY <2>1
      <4>2. /\ state'[t] = "queued" /\ pc' = pc /\ byId' = byId \cup {t}
            /\ \A v \in Task \ {t} : state'[v] = state[v]
        BY <1>2, <2>1
      <4>3. ASSUME NEW kk \in Key, NEW i \in DOMAIN queues'[kk]
            PROVE  /\ KeyOf[queues'[kk][i]] = kk
                   /\ state'[queues'[kk][i]] = "queued"
                   /\ pc'[queues'[kk][i]] = "none"
                   /\ queues'[kk][i] \in byId'
        <5>1. CASE kk = k /\ queues'[kk][i] = t
          BY <1>1, <4>2, <5>1
        <5>2. CASE ~ (kk = k /\ queues'[kk][i] = t)
          <6>1. i \in DOMAIN queues[kk] /\ queues'[kk][i] = queues[kk][i]
            BY <3>2, <3>3, <5>2
          <6>2. queues[kk][i] \in Task \ {t}
            BY <1>3, <6>1
          <6> QED BY <4>2, <6>1, <6>2 DEF QueueOK
        <5> QED BY <5>1, <5>2
      <4> QED BY <4>3 DEF QueueOK
    <3>5. \A v \in Task : enqueuedAt[v] < clock + 1
      BY <1>2 DEF NewOK
    <3>6. QueueSorted'
      <4> SUFFICES ASSUME NEW kk \in Key, NEW i \in DOMAIN queues'[kk],
                          NEW j \in DOMAIN queues'[kk], i < j
                   PROVE  enqueuedAt'[queues'[kk][i]] < enqueuedAt'[queues'[kk][j]]
        BY DEF QueueSorted
      <4>1. CASE kk # k
        <5>1. queues'[kk] = queues[kk] /\ queues[kk][i] \in Task \ {t}
              /\ queues[kk][j] \in Task \ {t}
          BY <1>3, <3>3, <4>1
        <5> QED BY <1>7, <5>1 DEF QueueSorted
      <4>2. CASE kk = k
        <5>1. i \in DOMAIN queues[k] /\ queues'[k][i] = queues[k][i]
              /\ queues[k][i] \in Task \ {t}
          <6>1. j \in 1 .. (Len(queues[k]) + 1) /\ i \in 1 .. (Len(queues[k]) + 1)
            BY SMTT(40), <3>1, <4>2
          <6>2. i # Len(queues[k]) + 1
            BY <3>1, <6>1
          <6>3. i \in DOMAIN queues[k] /\ queues'[k][i] = queues[k][i]
            BY <3>2, <4>2, <6>2
          <6> QED BY <1>1, <1>3, <3>1, <6>3
        <5>2. CASE j \in DOMAIN queues[k] /\ queues'[k][j] = queues[k][j]
          <6>1. queues[k][j] \in Task \ {t}
            BY <1>1, <1>3, <3>1, <5>2
          <6> QED BY SMTT(20), <1>1, <1>7, <4>2, <5>1, <5>2, <6>1 DEF QueueSorted
        <5>3. CASE queues'[k][j] = t
          <6>1. enqueuedAt'[t] = clock + 1
            BY <1>2
          <6> QED BY <1>7, <3>5, <4>2, <5>1, <5>3, <6>1
        <5> QED BY <3>2, <4>2, <5>2, <5>3
      <4> QED BY <4>1, <4>2
    <3>7. ActiveOK'
      <4> SUFFICES ASSUME NEW kk \in Key, running[kk] # None
                   PROVE  /\ KeyOf[running[kk]] = kk
                          /\ state'[running[kk]] \in {"running", "cancelling", "done"}
                          /\ \A i \in DOMAIN queues'[kk] :
                               enqueuedAt'[running[kk]] < enqueuedAt'[queues'[kk][i]]
        BY <2>1 DEF ActiveOK
      <4>1. running[kk] \in Task \ {t}
        BY <1>3
      <4>2. \A i \in DOMAIN queues[kk] :
              /\ queues[kk][i] \in Task \ {t}
              /\ enqueuedAt'[running[kk]] < enqueuedAt'[queues[kk][i]]
        BY <1>3, <1>7, <4>1 DEF ActiveOK
      <4>3. enqueuedAt'[running[kk]] < enqueuedAt'[t]
        BY <1>2, <1>7, <3>5, <4>1
      <4>4. \A i \in DOMAIN queues'[kk] :
              enqueuedAt'[running[kk]] < enqueuedAt'[queues'[kk][i]]
        BY <3>2, <3>3, <4>2, <4>3
      <4> QED BY <2>1, <4>1, <4>4 DEF ActiveOK
    <3>8. NewOK'
      BY <1>2, <2>1 DEF NewOK
    <3>9. \A v \in Task : ~StartedByMain(v)'
      BY <1>1, <2>1 DEF StartedByMain
    <3>10. StarterOK' /\ MainOK'
      BY <1>1, <1>2, <1>4, <2>1, <3>9 DEF StarterOK, MainOK
    <3>11. NoWaitBehindFreeKey'
      BY <1>9, <2>1, <3>3 DEF NoWaitBehindFreeKey
    <3>12. IdsOK'
      <4> SUFFICES ASSUME NEW v \in byId' PROVE Registered(v)'
        BY DEF IdsOK
      <4>1. CASE v = t
        <5>1. Len(queues[k]) + 1 \in DOMAIN queues'[k]
              /\ queues'[k][Len(queues[k]) + 1] = t
          BY <3>1
        <5> QED BY <4>1, <5>1 DEF Registered, ToSet
      <4>2. CASE v # t
        <5>1. v \in byId /\ KeyOf[v] \in Key /\ Registered(v)
          BY <1>2, <4>2, ConstantsAssumption DEF IdsOK
        <5>2. CASE running[KeyOf[v]] = v
          BY <2>1, <5>2 DEF Registered
        <5>3. CASE v \in ToSet(queues[KeyOf[v]])
          <6>1. PICK i \in DOMAIN queues[KeyOf[v]] : queues[KeyOf[v]][i] = v
            BY <5>3 DEF ToSet
          <6>2. i \in DOMAIN queues'[KeyOf[v]] /\ queues'[KeyOf[v]][i] = v
            <7>1. CASE KeyOf[v] = k
              <8>1. i \in 1 .. Len(queues[k]) /\ queues[k][i] = v
                BY SMTT(20), <3>1, <6>1, <7>1
              <8> HIDE DEF k
              <8>2. i \in DOMAIN queues'[k] /\ queues'[k][i] = v
                BY <3>1, <8>1
              <8> QED BY <7>1, <8>2
            <7>2. CASE KeyOf[v] # k
              BY <3>3, <5>1, <6>1, <7>2
            <7> QED BY <7>1, <7>2
          <6> QED BY <6>2 DEF Registered, ToSet
        <5> QED BY <5>1, <5>2, <5>3 DEF Registered
      <4> QED BY <4>1, <4>2
    <3>13. WorkerOwnsKey'
      BY <1>2, <2>1 DEF WorkerOwnsKey
    <3>14. ActiveIsServed'
      BY <1>2, <1>4, <1>5, <2>1, <3>9 DEF ActiveIsServed
    <3> QED BY <3>4, <3>6, <3>7, <3>8, <3>10, <3>11, <3>12, <3>13, <3>14
  <2> QED BY <2>2, <2>3
<1> QED BY <1>8, <1>9

\* Removing one waiting task takes that task out of its queue, and nothing
\* else; the order of the others stays.
LEMMA RemoveQueuedQueues ==
  ASSUME IInv, NEW t \in Task, RemoveQueued(t)
  PROVE  /\ queues' \in [Key -> Seq(Task)]
         /\ \A k \in Key : \A j \in DOMAIN queues'[k] :
              /\ queues'[k][j] # t
              /\ \E m \in DOMAIN queues[k] : queues'[k][j] = queues[k][m]
         /\ \A k \in Key : \A i, j \in DOMAIN queues'[k] : i < j =>
              enqueuedAt[queues'[k][i]] < enqueuedAt[queues'[k][j]]
         /\ \A k \in Key : \A v \in ToSet(queues[k]) :
              v # t => v \in ToSet(queues'[k])
<1> USE DEF IInv, TypeOK, RegistryInv
<1> DEFINE key == KeyOf[t]
<1>0. key \in Key
  BY ConstantsAssumption
<1>1. \A k \in Key : \A m \in DOMAIN queues[k] : queues[k][m] = t => k = key
  BY DEF QueueOK
<1>2. CASE t \notin ToSet(queues[key]) /\ UNCHANGED queues
  BY <1>1, <1>2 DEF ToSet, QueueSorted
<1>3. CASE \E i \in DOMAIN queues[key] :
             /\ queues[key][i] = t
             /\ queues' = [queues EXCEPT ![key] = RemoveAt(queues[key], i)]
  <2>1. PICK i \in DOMAIN queues[key] :
          /\ queues[key][i] = t
          /\ queues' = [queues EXCEPT ![key] = RemoveAt(queues[key], i)]
    BY <1>3
  <2> DEFINE q == queues[key]
  <2>2. q \in Seq(Task) /\ Len(q) \in Nat /\ i \in 1 .. Len(q)
    BY SMTT(20), <1>0
  <2>3. /\ RemoveAt(q, i) \in Seq(Task)
        /\ DOMAIN RemoveAt(q, i) = 1 .. (Len(q) - 1)
        /\ \A j \in 1 .. (Len(q) - 1) :
             RemoveAt(q, i)[j] = IF j < i THEN q[j] ELSE q[j + 1]
    BY ZenonT(40), <2>2, RemoveAtElements
  <2>4. queues'[key] = RemoveAt(q, i) /\ \A k \in Key \ {key} : queues'[k] = queues[k]
    BY <1>0, <2>1
  <2>5. queues' \in [Key -> Seq(Task)]
    BY <1>0, <2>1, <2>3
  <2>5a. enqueuedAt \in [Task -> Nat] /\ i \in DOMAIN q
    BY <2>1
  <2>6. \A a, b \in DOMAIN q : a < b => enqueuedAt[q[a]] < enqueuedAt[q[b]]
    BY <1>0 DEF QueueSorted
  <2>7. /\ \A j \in DOMAIN RemoveAt(q, i) :
             /\ RemoveAt(q, i)[j] # q[i]
             /\ \E m \in DOMAIN q : RemoveAt(q, i)[j] = q[m]
        /\ \A a, b \in DOMAIN RemoveAt(q, i) : a < b =>
             enqueuedAt[RemoveAt(q, i)[a]] < enqueuedAt[RemoveAt(q, i)[b]]
        /\ \A m \in DOMAIN q : q[m] # q[i] =>
             \E j \in DOMAIN RemoveAt(q, i) : RemoveAt(q, i)[j] = q[m]
    <3> HIDE DEF q, IInv, TypeOK, RegistryInv
    <3> QED BY <2>2, <2>5a, <2>6, RemoveAtOrder
  <2>8. /\ \A j \in DOMAIN queues'[key] :
             /\ queues'[key][j] # t
             /\ \E m \in DOMAIN q : queues'[key][j] = q[m]
        /\ \A a, b \in DOMAIN queues'[key] : a < b =>
             enqueuedAt[queues'[key][a]] < enqueuedAt[queues'[key][b]]
        /\ \A v \in ToSet(q) : v # t => v \in ToSet(queues'[key])
    BY <2>1, <2>4, <2>7 DEF ToSet
  <2>13. \A k \in Key \ {key} : \A m \in DOMAIN queues[k] : queues[k][m] # t
    BY <1>1
  <2>14. ASSUME NEW k \in Key, k # key
         PROVE  /\ \A j \in DOMAIN queues'[k] :
                     /\ queues'[k][j] # t
                     /\ \E m \in DOMAIN queues[k] : queues'[k][j] = queues[k][m]
                /\ \A a, b \in DOMAIN queues'[k] : a < b =>
                     enqueuedAt[queues'[k][a]] < enqueuedAt[queues'[k][b]]
                /\ ToSet(queues[k]) = ToSet(queues'[k])
    BY <2>4, <2>13, <2>14 DEF QueueSorted
  <2> HIDE DEF IInv, TypeOK, RegistryInv
  <2> QED BY SMTT(20), <2>5, <2>8, <2>14 DEF q
<1> QED BY <1>2, <1>3 DEF RemoveQueued

\* /cancel of one id takes a waiting task out, or marks the active one.
LEMMA CancelByIdInv ==
  ASSUME IInv, NEW t \in Task, CancelById(t)
  PROVE  IInv'
<1> USE DEF IInv, TypeOK
<1>1. mpc = "idle"
  BY DEF CancelById
<1>2. UNCHANGED <<grabbed, victims, handle, tries, live, pc, nxt,
                  wasCancelling, cancelled, answered, lost>>
  BY DEF CancelById, procVars, workerVars, chatVars
<1>3. CASE mpc' = "lookup" /\ cur' = t /\ UNCHANGED registryVars
  <2>1. TypeOK' /\ ProcessInv'
    BY <1>2, <1>3 DEF MainPC, ProcessInv, registryVars
  <2>2. RegistryInv'
    BY <1>1, <1>2, <1>3 DEF RegistryInv, QueueOK, QueueSorted, ActiveOK, NewOK,
       StarterOK, MainOK, IdsOK, WorkerOwnsKey, ActiveIsServed,
       NoWaitBehindFreeKey, Registered, StartedBy, StartedByMain, registryVars
  <2> QED BY <2>1, <2>2
<1>4. CASE /\ RemoveQueued(t) /\ state[t] # "running"
           /\ UNCHANGED <<running, enqueuedAt, clock, mpc, cur>>
  <2>1. byId' = byId \ {t} /\ state' = [state EXCEPT ![t] = "done"]
    BY <1>4 DEF RemoveQueued
  <2>2. /\ queues' \in [Key -> Seq(Task)]
        /\ \A k \in Key : \A j \in DOMAIN queues'[k] :
             /\ queues'[k][j] # t
             /\ \E m \in DOMAIN queues[k] : queues'[k][j] = queues[k][m]
        /\ \A k \in Key : \A i, j \in DOMAIN queues'[k] : i < j =>
             enqueuedAt[queues'[k][i]] < enqueuedAt[queues'[k][j]]
        /\ \A k \in Key : \A v \in ToSet(queues[k]) :
             v # t => v \in ToSet(queues'[k])
    BY <1>4, RemoveQueuedQueues
  <2>3. TypeOK' /\ ProcessInv'
    BY <1>2, <1>4, <2>1, <2>2 DEF TaskState, ProcessInv
  <2>4. RegistryInv'
    <3> USE DEF RegistryInv
    <3>1. QueueOK'
      <4> SUFFICES ASSUME NEW k \in Key, NEW j \in DOMAIN queues'[k]
                   PROVE  /\ KeyOf[queues'[k][j]] = k
                          /\ state'[queues'[k][j]] = "queued"
                          /\ pc'[queues'[k][j]] = "none"
                          /\ queues'[k][j] \in byId'
        BY DEF QueueOK
      <4>1. PICK m \in DOMAIN queues[k] : queues'[k][j] = queues[k][m]
        BY <2>2
      <4>2. queues[k][m] \in Task \ {t}
        BY <2>2, <4>1
      <4> QED BY <1>2, <2>1, <4>1, <4>2 DEF QueueOK
    <3>2. QueueSorted'
      BY <1>4, <2>2 DEF QueueSorted
    <3>3. ActiveOK'
      <4> SUFFICES ASSUME NEW k \in Key, running[k] # None
                   PROVE  /\ KeyOf[running[k]] = k
                          /\ state'[running[k]] \in {"running", "cancelling", "done"}
                          /\ \A i \in DOMAIN queues'[k] :
                               enqueuedAt[running[k]] < enqueuedAt[queues'[k][i]]
        BY <1>4 DEF ActiveOK
      <4>1. \A i \in DOMAIN queues'[k] :
              enqueuedAt[running[k]] < enqueuedAt[queues'[k][i]]
        BY <2>2 DEF ActiveOK
      <4> QED BY <2>1, <4>1 DEF ActiveOK
    <3>4. NewOK'
      BY <1>2, <1>4, <2>1 DEF NewOK
    <3>5. \A u, v \in Task : /\ StartedBy(u, v)' <=> StartedBy(u, v)
                             /\ StartedByMain(v)' <=> StartedByMain(v)
      BY <1>2, <1>4 DEF StartedBy, StartedByMain
    <3>6. StarterOK' /\ MainOK'
      BY <1>2, <1>4, <3>5 DEF StarterOK, MainOK
    <3>7. WorkerOwnsKey'
      BY <1>2, <1>4 DEF WorkerOwnsKey
    <3>8. ActiveIsServed'
      BY <1>2, <1>4, <3>5 DEF ActiveIsServed
    <3>9. NoWaitBehindFreeKey'
      BY <1>4, <2>2 DEF NoWaitBehindFreeKey
    <3>10. IdsOK'
      <4> SUFFICES ASSUME NEW v \in byId' PROVE Registered(v)'
        BY DEF IdsOK
      <4>1. v \in byId /\ v # t /\ KeyOf[v] \in Key
        BY <2>1, ConstantsAssumption
      <4> QED BY <1>4, <2>2, <4>1 DEF IdsOK, Registered
    <3> QED BY <3>1, <3>2, <3>3, <3>4, <3>6, <3>7, <3>8, <3>9, <3>10
  <2> QED BY <2>3, <2>4
<1> QED BY <1>3, <1>4 DEF CancelById

-----------------------------------------------------------------------------
\* Every step, whoever takes it, preserves the invariant.
LEMMA NextInv == IInv /\ [Next]_vars => IInv'
<1> SUFFICES ASSUME IInv, [Next]_vars PROVE IInv'
  OBVIOUS
<1>1. ASSUME NEW t \in Task, Dispatch(t) PROVE IInv'
  BY <1>1, DispatchInv
<1>2. ASSUME NEW t \in Task, CancelById(t) PROVE IInv'
  BY <1>2, CancelByIdInv
<1>3. ASSUME NEW k \in Key, CancelKey(k) PROVE IInv'
  <2>1. {k} \in SUBSET Key /\ CancelKeys({k}) /\ mpc # "start"
    BY <1>3 DEF CancelKey
  <2> QED BY <2>1, CancelKeysInv
<1>4. CASE CancelAll
  <2>1. CancelKeys(Key) /\ mpc # "start"
    BY <1>4 DEF CancelAll
  <2> QED BY <2>1, CancelKeysInv
<1>5. CASE CancelFoundKey
  <2>1. /\ {KeyOf[cur]} \in SUBSET Key /\ CancelKeys({KeyOf[cur]})
        /\ mpc # "start"
    BY <1>5, ConstantsAssumption DEF CancelFoundKey, IInv, RegistryInv, MainOK
  <2> QED BY <2>1, CancelKeysInv
<1>6. CASE StartDispatched
  BY <1>6, StartDispatchedInv
<1>7. CASE LookUpKey \/ \E t \in Task : ReadHandle(t)
  BY <1>7, MainMovesInv
<1>8. CASE KillTree
  BY <1>8, KillTreeInv
<1>9. ASSUME NEW t \in Task, WorkerStep(t) PROVE IInv'
  <2>1. CASE WorkerMove(t)
    BY <2>1, WorkerMoveInv
  <2>2. CASE Finish(t)
    BY <2>2, FinishInv
  <2>3. CASE DonePing(t)
    BY <2>3, DonePingInv
  <2>4. CASE StartNext(t)
    BY <2>4, StartNextInv
  <2> QED BY <1>9, <2>1, <2>2, <2>3, <2>4 DEF WorkerStep, WorkerMove
<1>10. ASSUME NEW t \in Task, ProcessExits(t) PROVE IInv'
  BY <1>10, ProcessExitsInv
<1>11. CASE UNCHANGED vars
  BY <1>11 DEF vars, registryVars, procVars, workerVars, mainVars, chatVars,
     IInv, TypeOK, RegistryInv, ProcessInv, QueueOK, QueueSorted, ActiveOK,
     NewOK, StarterOK, MainOK, IdsOK, WorkerOwnsKey, ActiveIsServed,
     NoWaitBehindFreeKey, Registered, StartedBy, StartedByMain
<1> QED BY <1>1, <1>2, <1>3, <1>4, <1>5, <1>6, <1>7, <1>8, <1>9, <1>10, <1>11
        DEF Next, UserStep, MainStep

\* The inductive invariant holds in every reachable state.
THEOREM Invariance == Spec => []IInv
<1> QED BY InitInv, NextInv, PTL DEF Spec

\* Every variable keeps its type; in particular no task ever spawns a third
\* process.
THEOREM TypeCorrect == Spec => []TypeOK
<1>1. IInv => TypeOK
  BY DEF IInv
<1> QED BY <1>1, Invariance, PTL

\* finish(key) only ever retires the task of the worker that calls it.
THEOREM WorkersOwnTheirKeys == Spec => []WorkerOwnsKey
<1>1. IInv => WorkerOwnsKey
  BY DEF IInv, RegistryInv
<1> QED BY <1>1, Invariance, PTL

\* No two live claude processes share a key, whatever is cancelled, killed
\* or times out.
THEOREM ProcessesAreSerial == Spec => []OneProcessPerKey
<1>1. IInv => OneProcessPerKey
  BY DEF IInv, RegistryInv, ProcessInv, WorkerOwnsKey, OneProcessPerKey, Executing
<1> QED BY <1>1, Invariance, PTL

\* No key is ever blocked by a task that nobody runs or will start, and
\* nobody waits behind a free key.
THEOREM NoStuckKey == Spec => []KeysNeverStall
<1>1. IInv => KeysNeverStall
  BY DEF IInv, RegistryInv, KeysNeverStall
<1> QED BY <1>1, Invariance, PTL

\* /cancel by id and the queues speak of the same tasks.
THEOREM IdsStayCurrent == Spec => []IdsAreCurrent
<1>1. IInv => IdsAreCurrent
  BY DEF IInv, RegistryInv, IdsOK, QueueOK, IdsAreCurrent, ToSet
<1> QED BY <1>1, Invariance, PTL

-----------------------------------------------------------------------------
(* What the chat is told of a task, and what becomes of a cancelled one.   *)

\* Until a message of its end arrives, each one that a worker of a task
\* nobody cancelled has sent is lost: one past its output, two past its ping.
ReportInv ==
  /\ \A t \in Task : pc[t] \in {"final", "finish", "ping"} =>
                       t \in answered \cup cancelled \/ lost[t] >= 1
  /\ \A t \in Task : pc[t] \in {"start", "end"} =>
                       t \in answered \cup cancelled \/ lost[t] >= 2
  /\ \A t \in Task : state[t] = "cancelling" => t \in cancelled
  /\ \A t \in Task : wasCancelling[t] => t \in cancelled

LEMMA ReportStep ==
  ASSUME TypeOK, ReportInv, [Next]_vars
  PROVE  ReportInv'
<1> USE DEF ReportInv, registryVars, procVars, workerVars, mainVars, chatVars
<1>1. ASSUME NEW t \in Task, Dispatch(t) PROVE ReportInv'
  BY <1>1 DEF Dispatch, Enqueue, TypeOK
<1>2. ASSUME NEW t \in Task, CancelById(t) PROVE ReportInv'
  BY <1>2 DEF CancelById, RemoveQueued, TypeOK
<1>3. ASSUME NEW ks \in SUBSET Key, CancelKeys(ks) PROVE ReportInv'
  BY <1>3 DEF CancelKeys, TypeOK
<1>4. CASE (\E k \in Key : CancelKey(k)) \/ CancelAll
  BY <1>3, <1>4 DEF CancelKey, CancelAll
<1>5. CASE CancelFoundKey
  <2>1. state' = [t \in Task |-> IF t \in {running[k] : k \in {KeyOf[cur]}}
                                            \ {None}
                                   THEN "cancelling" ELSE state[t]]
        /\ cancelled' = cancelled \cup ({running[k] : k \in {KeyOf[cur]}}
                                          \ {None})
        /\ UNCHANGED <<pc, wasCancelling, answered, lost>>
    BY <1>5 DEF CancelFoundKey, CancelKeys
  <2> QED BY <2>1
<1>6. CASE StartDispatched
  BY <1>6 DEF StartDispatched, TypeOK
<1>7. CASE LookUpKey \/ KillTree \/ \E t \in Task : ReadHandle(t)
  BY <1>7 DEF LookUpKey, KillTree, ReadHandle
<1>8. ASSUME NEW t \in Task, WorkerStep(t) PROVE ReportInv'
  <2>1. CASE Hello(t) \/ Fetch(t) \/ FetchFails(t) \/ Gate(t)
    BY <2>1 DEF Hello, Fetch, FetchFails, Gate, Goto, Say, TypeOK
  <2>2. CASE Spawn(t) \/ SpawnFails(t) \/ StoreHandle(t)
    BY <2>2 DEF Spawn, SpawnFails, StoreHandle, Goto, TypeOK
  <2>3. CASE Collect(t) \/ CollectNothing(t) \/ TimesOut(t) \/ Recheck(t)
    BY <2>3 DEF Collect, CollectNothing, TimesOut, Recheck, Goto, TypeOK
  <2>4. CASE CheckOutput(t)
    BY <2>4 DEF CheckOutput, Goto, TypeOK
  <2>9. CASE ReadCancelling(t)
    <3>1. \A u \in Task : wasCancelling'[u] => wasCancelling[u] \/ state[u] = "cancelling"
      BY <2>9 DEF ReadCancelling, TypeOK
    <3>2. \A u \in Task : pc'[u] = IF u = t THEN "finish" ELSE pc[u]
      BY <2>9 DEF ReadCancelling, TypeOK
    <3>3. pc[t] = "final" /\ UNCHANGED <<state, cancelled, answered, lost>>
      BY <2>9 DEF ReadCancelling
    <3> QED BY <3>1, <3>2, <3>3
  <2>7. CASE SendOutput(t)
    BY <2>7 DEF SendOutput, Goto, Say, TypeOK
  <2>5. CASE Finish(t)
    <3>1. /\ \A u \in Task : state'[u] \in {"running", "done", state[u]}
          /\ pc' = [pc EXCEPT ![t] = "ping"] /\ pc[t] = "finish"
          /\ UNCHANGED <<wasCancelling, chatVars>>
      BY <2>5 DEF Finish
    <3> QED BY <3>1 DEF TypeOK
  <2>6. CASE StartNext(t)
    BY <2>6 DEF StartNext, TypeOK
  <2>8. CASE DonePing(t)
    <3>1. /\ pc[t] = "ping" /\ state' = state
          /\ pc' = [pc EXCEPT ![t] = IF nxt[t] = None THEN "end" ELSE "start"]
          /\ wasCancelling' = [wasCancelling EXCEPT ![t] = FALSE]
      BY <2>8 DEF DonePing
    <3>2. CASE wasCancelling[t]
      <4>1. UNCHANGED chatVars
        BY <2>8, <3>2 DEF DonePing
      <4> QED BY <3>1, <3>2, <4>1 DEF TypeOK
    <3>3. CASE ~ wasCancelling[t]
      <4>1. Say(t)
        BY <2>8, <3>3 DEF DonePing
      <4>2. CASE answered' = answered \cup {t} /\ UNCHANGED lost
        BY <3>1, <4>1, <4>2 DEF TypeOK, Say
      <4>3. CASE lost' = [lost EXCEPT ![t] = @ + 1] /\ UNCHANGED answered
        BY <3>1, <4>1, <4>3 DEF TypeOK, Say
      <4> QED BY <4>1, <4>2, <4>3 DEF Say
    <3> QED BY <3>2, <3>3
  <2> QED BY <1>8, <2>1, <2>2, <2>3, <2>4, <2>5, <2>6, <2>7, <2>8, <2>9
          DEF WorkerStep
<1>9. CASE \E t \in Task : ProcessExits(t)
  BY <1>9 DEF ProcessExits
<1>10. CASE UNCHANGED vars
  BY <1>10 DEF vars
<1> QED BY <1>1, <1>2, <1>4, <1>5, <1>6, <1>7, <1>8, <1>9, <1>10
        DEF Next, UserStep, MainStep

\* Unless its cancel button is pressed again, a cancelled task stays marked
\* as long as it is active.
MarkInv ==
  /\ \A t \in cancelled : state[t] \in {"cancelling", "done"}
  /\ \A t \in Task : running[KeyOf[t]] = t => state[t] # "done"

LEMMA MarkStep ==
  ASSUME ~ RepeatCancel, IInv, MarkInv, [Next]_vars
  PROVE  MarkInv'
<1> USE DEF MarkInv, registryVars, procVars, workerVars, mainVars, chatVars
<1>0. TypeOK /\ ActiveOK /\ QueueOK
  BY DEF IInv, RegistryInv
<1>a. \A t \in Task : KeyOf[t] \in Key
  BY ConstantsAssumption
<1>1. ASSUME NEW t \in Task, Dispatch(t) PROVE MarkInv'
  <2>1. state' \in {[state EXCEPT ![t] = "running"],
                    [state EXCEPT ![t] = "queued"]}
    BY <1>1 DEF Dispatch, Enqueue
  <2>2. \A u \in Task \ {t} : state'[u] = state[u]
                              /\ (running'[KeyOf[u]] = u =>
                                    running[KeyOf[u]] = u)
    BY <1>0, <1>1, <1>a DEF Dispatch, Enqueue, TypeOK
  <2>3. t \notin cancelled /\ cancelled' = cancelled /\ state'[t] # "done"
    BY <1>0, <1>1, <2>1 DEF Dispatch, TypeOK
  <2>4. cancelled \subseteq Task \ {t}
    BY <1>0, <2>3 DEF TypeOK
  <2>5. \A u \in cancelled' : state'[u] \in {"cancelling", "done"}
    BY <2>2, <2>3, <2>4
  <2>6. \A u \in Task : running'[KeyOf[u]] = u => state'[u] # "done"
    BY <2>2, <2>3
  <2> QED BY <2>5, <2>6
<1>2. ASSUME NEW t \in Task, CancelById(t) PROVE MarkInv'
  <2>1. CASE UNCHANGED registryVars
    BY <1>2, <2>1 DEF CancelById
  <2>2. CASE state[t] # "running" /\ RemoveQueued(t) /\ running' = running
    <3>1. state[t] # "cancelling"
      BY <1>2 DEF CancelById
    <3>2. running[KeyOf[t]] # t
      <4> SUFFICES ASSUME running[KeyOf[t]] = t PROVE FALSE
        OBVIOUS
      <4>1. state[t] \in {"running", "cancelling", "done"}
        BY <1>a, <1>0, ConstantsAssumption DEF ActiveOK
      <4> QED BY <2>2, <3>1, <4>1
    <3>3. state' = [state EXCEPT ![t] = "done"] /\ cancelled' = cancelled
      BY <1>2, <2>2 DEF CancelById, RemoveQueued
    <3> QED BY <1>0, <2>2, <3>2, <3>3 DEF TypeOK
  <2> QED BY <1>2, <2>1, <2>2 DEF CancelById
<1>3. ASSUME NEW ks, CancelKeys(ks) PROVE MarkInv'
  <2> DEFINE active == {running[k] : k \in ks} \ {None}
  <2>1. /\ state' = [t \in Task |-> IF t \in active
                                      THEN "cancelling" ELSE state[t]]
        /\ cancelled' = cancelled \cup active
        /\ running' = running
    BY <1>3 DEF CancelKeys
  <2>2. cancelled' \subseteq Task
    BY <1>0, <2>1, NextInv DEF IInv, TypeOK
  <2> HIDE DEF active
  <2> QED BY <2>1, <2>2
<1>4. CASE (\E k \in Key : CancelKey(k)) \/ CancelAll \/ CancelFoundKey
  BY <1>3, <1>4 DEF CancelKey, CancelAll, CancelFoundKey
<1>5. CASE StartDispatched \/ LookUpKey \/ KillTree
           \/ \E t \in Task : ReadHandle(t) \/ ProcessExits(t)
  BY <1>5 DEF StartDispatched, LookUpKey, KillTree, ReadHandle, ProcessExits
<1>6. ASSUME NEW t \in Task, WorkerStep(t) PROVE MarkInv'
  <2>1. CASE Finish(t)
    <3>1. running[KeyOf[t]] = t
      BY <2>1 DEF IInv, RegistryInv, WorkerOwnsKey, Finish, Executing
    <3>2. PICK n \in Task \cup {None} :
            /\ running' = [running EXCEPT ![KeyOf[t]] = n]
            /\ state' = [u \in Task |-> IF u = n THEN "running"
                                        ELSE IF u = t THEN "done" ELSE state[u]]
            /\ n # None => state[n] = "queued" /\ KeyOf[n] = KeyOf[t]
      <4> DEFINE n == IF queues[KeyOf[t]] = <<>> THEN None
                      ELSE Head(queues[KeyOf[t]])
      <4>1. queues[KeyOf[t]] \in Seq(Task)
        BY <1>0, <1>a DEF TypeOK
      <4>2. queues[KeyOf[t]] # <<>> => 1 \in DOMAIN queues[KeyOf[t]]
                                       /\ n = queues[KeyOf[t]][1]
        BY <4>1
      <4>3. n # None => state[n] = "queued" /\ KeyOf[n] = KeyOf[t]
        BY <1>0, <1>a, <4>2 DEF QueueOK
      <4>4. n \in Task \cup {None}
        BY <4>1
      <4>5. /\ running' = [running EXCEPT ![KeyOf[t]] = n]
            /\ state' = [u \in Task |-> IF u = n THEN "running"
                                        ELSE IF u = t THEN "done" ELSE state[u]]
        BY <2>1, <3>1 DEF Finish
      <4> HIDE DEF n
      <4> QED BY <4>3, <4>4, <4>5
    <3>3. n # t /\ cancelled' = cancelled
      <4>1. state[t] \in {"running", "cancelling", "done"}
        BY <1>0, <1>a, <3>1, ConstantsAssumption DEF ActiveOK
      <4> QED BY <2>1, <3>2, <4>1, ConstantsAssumption DEF Finish
    <3>4. \A u \in cancelled' : state'[u] \in {"cancelling", "done"}
      BY <1>0, <3>2, <3>3, ConstantsAssumption DEF TypeOK
    <3>5. \A u \in Task : running'[KeyOf[u]] = u => state'[u] # "done"
      BY <1>0, <1>a, <3>2, <3>3, ConstantsAssumption DEF TypeOK
    <3> QED BY <3>4, <3>5
  <2>2. CASE ~ Finish(t)
    <3>1. UNCHANGED <<registryVars, cancelled>>
      <4>1. CASE FetchFails(t) \/ SendOutput(t) \/ DonePing(t)
        BY <4>1 DEF FetchFails, SendOutput, DonePing, Say
      <4>2. CASE ~ (FetchFails(t) \/ SendOutput(t) \/ DonePing(t))
        BY <1>6, <2>2, <4>2
           DEF WorkerStep, Hello, Fetch, Gate, Spawn, SpawnFails,
               StoreHandle, Collect, CollectNothing, TimesOut, Recheck,
               CheckOutput, ReadCancelling, StartNext
      <4> QED BY <4>1, <4>2
    <3> QED BY <3>1
  <2> QED BY <2>1, <2>2
<1>7. CASE UNCHANGED vars
  BY <1>7 DEF vars
<1> QED BY <1>1, <1>2, <1>4, <1>5, <1>6, <1>7 DEF Next, UserStep, MainStep

\* A task that is cancelled and under way is marked.
LEMMA MarkedWhileRunning ==
  ASSUME IInv, MarkInv, NEW t \in cancelled, pc[t] \in Executing
  PROVE  t \in Task /\ state[t] = "cancelling"
<1>1. t \in Task /\ running[KeyOf[t]] = t
  BY DEF IInv, TypeOK, RegistryInv, WorkerOwnsKey
<1> QED BY <1>1 DEF MarkInv

\* The worker's own steps out of its two looks at the state.
LEMMA LooksDecide ==
  ASSUME TypeOK, NEW t \in Task, state[t] = "cancelling", [Next]_vars
  PROVE  /\ pc[t] = "check" /\ ~ IsMedia(t) => pc'[t] # "send"
         /\ pc[t] = "recheck" => pc'[t] # "spawn"
<1> USE DEF registryVars, procVars, workerVars, mainVars, chatVars
<1>1. ASSUME NEW u \in Task, WorkerStep(u) PROVE
        /\ pc[t] = "check" /\ ~ IsMedia(t) => pc'[t] # "send"
        /\ pc[t] = "recheck" => pc'[t] # "spawn"
  <2>1. CASE u = t
    BY <1>1, <2>1
       DEF WorkerStep, Hello, Fetch, FetchFails, Gate, Spawn, SpawnFails,
           StoreHandle, Collect, CollectNothing, TimesOut, Recheck,
           CheckOutput, SendOutput, ReadCancelling, Finish, DonePing,
           StartNext, Goto, TypeOK
  <2>2. CASE u # t
    <3>1. pc'[t] \in {pc[t], "hello"}
      BY <1>1, <2>2
         DEF WorkerStep, Hello, Fetch, FetchFails, Gate, Spawn, SpawnFails,
             StoreHandle, Collect, CollectNothing, TimesOut, Recheck,
             CheckOutput, SendOutput, ReadCancelling, Finish, DonePing,
             StartNext, Goto, TypeOK
    <3> QED BY <3>1
  <2> QED BY <2>1, <2>2
<1>2. CASE StartDispatched
  BY <1>2 DEF StartDispatched, TypeOK
<1>3. CASE UserStep \/ LookUpKey \/ CancelFoundKey \/ KillTree
           \/ \E u \in Task : ReadHandle(u) \/ ProcessExits(u)
  <2>1. pc' = pc
    BY <1>3 DEF UserStep, Dispatch, CancelById, CancelKey, CancelAll,
                CancelKeys, LookUpKey, CancelFoundKey, KillTree, ReadHandle,
                ProcessExits
  <2> QED BY <2>1
<1>4. CASE UNCHANGED vars
  BY <1>4 DEF vars
<1> QED BY <1>1, <1>2, <1>3, <1>4 DEF Next, MainStep

\* A worker that ends has reached the chat, unless its task was cancelled or
\* both its output and its ping were lost on the way.
THEOREM EndsAreReported == Spec => []EndIsReported
<1>1. Init => ReportInv
  BY DEF Init, ReportInv
<1>2. ReportInv => EndIsReported
  BY DEF ReportInv, EndIsReported
<1> QED BY <1>1, <1>2, ReportStep, TypeCorrect, PTL DEF Spec

\* A cancelled task stays marked while it runs, if its cancel button is
\* pressed once.
THEOREM MarksStay ==
  ASSUME ~ RepeatCancel
  PROVE  Spec => []MarkInv
<1>1. Init => MarkInv
  BY ConstantsAssumption DEF Init, MarkInv
<1>2. IInv /\ MarkInv /\ [Next]_vars => MarkInv'
  BY MarkStep
<1> QED BY <1>1, <1>2, Invariance, PTL DEF Spec

\* A cancelled task's output is not sent.
THEOREM CancelSilences ==
  ASSUME ~ RepeatCancel
  PROVE  Spec => CancelledIsSilent
<1>1. IInv /\ MarkInv /\ [Next]_vars =>
        [\A t \in cancelled : pc[t] = "check" /\ ~IsMedia(t) =>
                                pc'[t] # "send"]_vars
  BY MarkedWhileRunning, LooksDecide DEF IInv, Executing
<1> QED BY <1>1, Invariance, MarksStay, PTL DEF Spec, CancelledIsSilent

\* A cancelled task's fallback process is not started.
THEOREM CancelStopsFallback ==
  ASSUME ~ RepeatCancel
  PROVE  Spec => NoFallbackAfterCancel
<1>1. IInv /\ MarkInv /\ [Next]_vars =>
        [\A t \in cancelled : pc[t] = "recheck" => pc'[t] # "spawn"]_vars
  BY MarkedWhileRunning, LooksDecide DEF IInv, Executing
<1> QED BY <1>1, Invariance, MarksStay, PTL DEF Spec, NoFallbackAfterCancel

-----------------------------------------------------------------------------
(* The registry implements the serial executor.                            *)

\* Phase, now and after a step.
LEMMA PhaseByTask ==
  /\ Phase = [t \in Task |-> PhaseOf(t)]
  /\ Phase' = [t \in Task |-> PhaseOf(t)']
BY DEF Phase

\* A queued task is waiting, and neither active nor in another queue.
LEMMA QueuedWaits ==
  ASSUME IInv, NEW k \in Key, NEW u \in ToSet(queues[k])
  PROVE  /\ u \in Task /\ KeyOf[u] = k /\ running[k] # u
         /\ state[u] = "queued" /\ pc[u] = "none" /\ PhaseOf(u) = "waiting"
<1>1. PICK i \in DOMAIN queues[k] : queues[k][i] = u
  BY DEF ToSet
<1>2. /\ u \in Task /\ KeyOf[u] = k /\ state[u] = "queued" /\ pc[u] = "none"
  BY <1>1 DEF IInv, TypeOK, RegistryInv, QueueOK
<1>3. running[k] # u
  BY <1>2, ConstantsAssumption, ActiveState DEF IInv, RegistryInv
<1> QED BY <1>2, <1>3 DEF PhaseOf, Registered, Executing

\* A step that changes neither the registry nor, for any task, whether its
\* worker is under way or has retired it is a stutter.
LEMMA MovesStutter ==
  ASSUME UNCHANGED registryVars,
         \A u \in Task : \/ pc'[u] = pc[u]
                         \/ pc[u] \in Executing /\ pc'[u] \in Executing
                         \/ /\ pc[u] \in {"ping", "start", "end"}
                            /\ pc'[u] \in {"ping", "start", "end"}
  PROVE  UNCHANGED Executor!vars
<1>1. ASSUME NEW u \in Task PROVE PhaseOf(u)' = PhaseOf(u)
  BY DEF registryVars, PhaseOf, Registered, Executing
<1>2. Phase' = Phase
  BY <1>1, PhaseByTask
<1> QED BY <1>2 DEF Executor!vars, registryVars

\* The thread of an active task starts: the oldest waiting task of its key.
LEMMA WorkerStarts ==
  ASSUME IInv, NEW n \in Task, pc[n] = "none", running[KeyOf[n]] = n,
         UNCHANGED registryVars, pc'[n] = "hello",
         \A u \in Task \ {n} : \/ pc'[u] = pc[u]
                               \/ pc[u] = "start" /\ pc'[u] = "end"
  PROVE  Executor!Start(n)
<1>1. KeyOf[n] \in Key
  BY ConstantsAssumption
<1>2. state[n] # "new"
  BY ActiveState DEF IInv, RegistryInv
<1>3. Phase[n] = "waiting"
  BY <1>2, PhaseByTask DEF PhaseOf, Registered, Executing
<1>4. ASSUME NEW u \in Task \ {n}, KeyOf[u] = KeyOf[n]
      PROVE  /\ Phase[u] # "active"
             /\ Phase[u] = "waiting" => enqueuedAt[n] < enqueuedAt[u]
  <2>1. pc[u] \notin Executing
    BY <1>4 DEF IInv, RegistryInv, WorkerOwnsKey
  <2>2. Phase[u] = "waiting" => u \in ToSet(queues[KeyOf[n]])
    BY <1>4, <2>1, PhaseByTask DEF PhaseOf, Registered
  <2>3. u \in ToSet(queues[KeyOf[n]]) => enqueuedAt[n] < enqueuedAt[u]
    BY <1>1, ConstantsAssumption DEF ToSet, IInv, RegistryInv, ActiveOK
  <2> QED BY <2>1, <2>2, <2>3, PhaseByTask DEF PhaseOf
<1>5. Phase' = [Phase EXCEPT ![n] = "active"]
  <2>1. PhaseOf(n)' = "active"
    BY <1>2 DEF registryVars, PhaseOf, Executing
  <2>2. \A u \in Task \ {n} : PhaseOf(u)' = PhaseOf(u)
    BY DEF registryVars, PhaseOf, Registered, Executing
  <2> QED BY <2>1, <2>2, PhaseByTask
<1> QED BY <1>3, <1>4, <1>5 DEF Executor!Start, Executor!SameKey, registryVars

\* dispatch() asks for the task, later than every earlier one.
LEMMA DispatchSubmits ==
  ASSUME IInv, NEW t \in Task, Dispatch(t)
  PROVE  Executor!Submit(t)
<1>1. /\ state[t] = "new" /\ pc[t] = "none" /\ KeyOf[t] \in Key
      /\ pc' = pc /\ clock \in Nat
      /\ enqueuedAt' = [enqueuedAt EXCEPT ![t] = clock + 1]
  BY ConstantsAssumption
     DEF Dispatch, Enqueue, IInv, TypeOK, RegistryInv, NewOK, workerVars
<1>2. \A u \in Task : enqueuedAt[u] \in Nat /\ enqueuedAt[u] <= clock
  BY DEF IInv, TypeOK, RegistryInv, NewOK
<1>3. /\ state'[t] \in {"running", "queued"}
      /\ \A u \in Task \ {t} : state'[u] = state[u]
  BY DEF Dispatch, Enqueue, IInv, TypeOK
<1>4. /\ Registered(t)'
      /\ \A u \in Task \ {t} : Registered(u)' <=> Registered(u)
  <2>1. CASE /\ running[KeyOf[t]] = None /\ queues' = queues
             /\ running' = [running EXCEPT ![KeyOf[t]] = t]
    BY <1>1, <2>1, ConstantsAssumption DEF Registered, IInv, TypeOK
  <2>2. CASE /\ running' = running
             /\ queues' = [queues EXCEPT ![KeyOf[t]] =
                             Append(queues[KeyOf[t]], t)]
    <3>1. ToSet(Append(queues[KeyOf[t]], t)) = ToSet(queues[KeyOf[t]]) \cup {t}
      <4> DEFINE q == queues[KeyOf[t]]
      <4>1. q \in Seq(Task)
        BY <1>1 DEF IInv, TypeOK
      <4> HIDE DEF q
      <4>2. /\ DOMAIN Append(q, t) = 1..(Len(q) + 1) /\ DOMAIN q = 1..Len(q)
            /\ Len(q) \in Nat
            /\ \A i \in 1..Len(q) : Append(q, t)[i] = q[i]
            /\ Append(q, t)[Len(q) + 1] = t
        BY <4>1
      <4>3. ToSet(Append(q, t)) = ToSet(q) \cup {t}
        BY <4>2 DEF ToSet
      <4> QED BY <4>3 DEF q
    <3>2. \A k \in Key : ToSet(queues'[k]) = IF k = KeyOf[t]
                                               THEN ToSet(queues[k]) \cup {t}
                                               ELSE ToSet(queues[k])
      BY <1>1, <2>2, <3>1 DEF IInv, TypeOK
    <3>3. ASSUME NEW u \in Task
          PROVE  u \in ToSet(queues'[KeyOf[u]]) <=>
                   u \in ToSet(queues[KeyOf[u]]) \/ u = t
      <4>1. KeyOf[u] \in Key
        BY ConstantsAssumption
      <4> QED BY <3>2, <4>1
    <3> QED BY <2>2, <3>3 DEF Registered
  <2> QED BY <2>1, <2>2 DEF Dispatch, Enqueue
<1>5. Phase[t] = "new"
  BY <1>1, PhaseByTask DEF PhaseOf
<1>6. Phase' = [Phase EXCEPT ![t] = "waiting"]
  <2>1. PhaseOf(t)' = "waiting"
    BY <1>1, <1>3, <1>4 DEF PhaseOf, Executing
  <2>2. \A u \in Task \ {t} : PhaseOf(u)' = PhaseOf(u)
    BY <1>1, <1>3, <1>4 DEF PhaseOf
  <2> QED BY <2>1, <2>2, PhaseByTask
<1>7. /\ enqueuedAt' = [enqueuedAt EXCEPT ![t] = enqueuedAt'[t]]
      /\ \A u \in Task : enqueuedAt[u] < enqueuedAt'[t]
  BY <1>1, <1>2 DEF IInv, TypeOK
<1> QED BY <1>5, <1>6, <1>7 DEF Executor!Submit

\* finish() ends the task of its caller; the task it promotes waits on for its
\* thread.
LEMMA FinishEnds ==
  ASSUME IInv, NEW t \in Task, Finish(t)
  PROVE  Executor!End(t)
<1> DEFINE k == KeyOf[t]
           q == queues[k]
           next == IF q = <<>> THEN None ELSE Head(q)
<1>1. /\ pc[t] = "finish" /\ k \in Key /\ running[k] = t /\ q \in Seq(Task)
      /\ None \notin Task
  BY ConstantsAssumption
     DEF Finish, IInv, TypeOK, RegistryInv, WorkerOwnsKey, Executing
<1>2. /\ running' = [running EXCEPT ![k] = next]
      /\ queues' = [queues EXCEPT ![k] = IF q = <<>> THEN q ELSE Tail(q)]
      /\ state' = [u \in Task |-> IF u = next THEN "running"
                                  ELSE IF u = t THEN "done" ELSE state[u]]
      /\ pc' = [pc EXCEPT ![t] = "ping"]
      /\ enqueuedAt' = enqueuedAt
  BY <1>1 DEF Finish
<1>3. state[t] # "new"
  BY <1>1, ActiveState DEF IInv, RegistryInv
<1>4. next # None => next \in ToSet(q)
  BY <1>1 DEF ToSet
<1>5. /\ next # None => ToSet(q) = {next} \cup ToSet(Tail(q))
      /\ next = None => ToSet(q) = {}
  <2>1. CASE q = <<>>
    BY <2>1 DEF ToSet
  <2>2. CASE q # <<>>
    <3>1. /\ Len(q) \in Nat \ {0} /\ DOMAIN q = 1..Len(q) /\ next = q[1]
          /\ DOMAIN Tail(q) = 1..(Len(q) - 1)
          /\ \A i \in 1..(Len(q) - 1) : Tail(q)[i] = q[i + 1]
      BY <1>1, <2>2
    <3>2. \A j \in 1..Len(q) : j = 1 \/ j - 1 \in 1..(Len(q) - 1)
      BY <3>1
    <3>3. \A j \in 1..Len(q) : j # 1 => q[j] = Tail(q)[j - 1]
      BY <3>1, <3>2
    <3>4. next \in Task
      BY <1>1, <3>1
    <3>5. ToSet(q) = {next} \cup ToSet(Tail(q))
      <4>1. ToSet(q) = {q[j] : j \in 1..Len(q)}
            /\ ToSet(Tail(q)) = {Tail(q)[i] : i \in 1..(Len(q) - 1)}
        BY <3>1 DEF ToSet
      <4>2. \A i \in 1..(Len(q) - 1) : i + 1 \in 1..Len(q)
        BY <3>1
      <4> HIDE DEF q, next
      <4>3. \A j \in 1..Len(q) : q[j] \in {next} \cup ToSet(Tail(q))
        <5> SUFFICES ASSUME NEW j \in 1..Len(q), j # 1
                     PROVE  q[j] \in ToSet(Tail(q))
          BY <3>1
        <5>1. j - 1 \in 1..(Len(q) - 1) /\ q[j] = Tail(q)[j - 1]
          BY <3>2, <3>3
        <5> QED BY <4>1, <5>1
      <4>4. next \in ToSet(q)
        BY <3>1, <4>1
      <4>5. \A i \in 1..(Len(q) - 1) : Tail(q)[i] \in ToSet(q)
        BY <3>1, <4>1, <4>2
      <4> QED BY <4>1, <4>3, <4>4, <4>5
    <3> QED BY <1>1, <3>4, <3>5
  <2> QED BY <2>1, <2>2
<1>6. \A kk \in Key \ {k} : queues'[kk] = queues[kk] /\ running'[kk] = running[kk]
  BY <1>1, <1>2 DEF IInv, TypeOK
<1>7. /\ running'[k] = next
      /\ next # None => ToSet(q) = {next} \cup ToSet(queues'[k])
      /\ next = None => ToSet(queues'[k]) = ToSet(q)
  BY <1>1, <1>2, <1>5 DEF IInv, TypeOK
<1>8. next # None => next # t /\ state[next] # "new"
  BY <1>1, <1>4, QueuedWaits
<1> HIDE DEF next, q, k
<1>9. \A u \in Task \ {t} : Registered(u)' <=> Registered(u)
  <2> SUFFICES ASSUME NEW u \in Task \ {t}
               PROVE  Registered(u)' <=> Registered(u)
    OBVIOUS
  <2>1. CASE KeyOf[u] # k
    BY <1>6, <2>1, ConstantsAssumption DEF Registered
  <2>2. CASE KeyOf[u] = k
    BY <1>1, <1>7, <2>2 DEF Registered, q
  <2> QED BY <2>1, <2>2
<1>10. \A u \in Task \ {t} : PhaseOf(u)' = PhaseOf(u)
  <2>1. \A u \in Task \ {t} : /\ state'[u] = "new" <=> state[u] = "new"
                              /\ pc'[u] = pc[u]
    BY <1>1, <1>2, <1>8 DEF IInv, TypeOK
  <2> QED BY <1>9, <2>1 DEF PhaseOf
<1>11. PhaseOf(t) = "active"
  BY <1>1, <1>3 DEF PhaseOf, Executing
<1>12. PhaseOf(t)' = "ended"
  BY <1>2, <1>8 DEF PhaseOf, Executing, IInv, TypeOK
<1>13. Phase[t] = "active" /\ Phase' = [Phase EXCEPT ![t] = "ended"]
  BY <1>10, <1>11, <1>12, PhaseByTask
<1> QED BY <1>2, <1>13 DEF Executor!End

\* A command that takes the waiting tasks S out of their queues, and leaves
\* the others where they are, drops S.
LEMMA CommandDrops ==
  ASSUME NEW S \in SUBSET Task,
         \A u \in S : PhaseOf(u) = "waiting",
         \A u \in S : ~ Registered(u)',
         \A u \in Task \ S : Registered(u)' <=> Registered(u),
         \A u \in Task : state'[u] = "new" <=> state[u] = "new",
         UNCHANGED <<pc, enqueuedAt>>
  PROVE  [Executor!Next]_(Executor!vars)
<1>1. \A u \in Task : PhaseOf(u)' = IF u \in S THEN "dropped" ELSE PhaseOf(u)
  BY DEF PhaseOf
<1>2. /\ Phase' = [u \in Task |-> IF u \in S THEN "dropped" ELSE Phase[u]]
      /\ \A u \in S : Phase[u] = "waiting"
  BY <1>1, PhaseByTask
<1>3. CASE S = {}
  BY <1>2, <1>3, PhaseByTask DEF Executor!vars
<1>4. CASE S # {}
  <2>1. Executor!Drop(S)
    BY <1>2, <1>4 DEF Executor!Drop
  <2> QED BY <2>1 DEF Executor!Next
<1> QED BY <1>3, <1>4

\* /cancel of keys drops what waits under them.
LEMMA CancelKeysDrops ==
  ASSUME IInv, NEW ks \in SUBSET Key, CancelKeys(ks)
  PROVE  [Executor!Next]_(Executor!vars)
<1> DEFINE active == {running[k] : k \in ks} \ {None}
           S == UNION {ToSet(queues[k]) : k \in ks}
<1>1. /\ queues' = [k \in Key |-> IF k \in ks THEN <<>> ELSE queues[k]]
      /\ state' = [u \in Task |-> IF u \in active THEN "cancelling" ELSE state[u]]
      /\ running' = running /\ pc' = pc /\ enqueuedAt' = enqueuedAt
  BY DEF CancelKeys, workerVars
<1>2. \A u \in S : /\ u \in Task /\ KeyOf[u] \in ks /\ running[KeyOf[u]] # u
                   /\ PhaseOf(u) = "waiting"
  BY QueuedWaits
<1>3. ToSet(<<>>) = {}
  BY DEF ToSet
<1>4. \A k \in Key : ToSet(queues'[k]) = IF k \in ks THEN {} ELSE ToSet(queues[k])
  BY <1>1, <1>3
<1>5. \A u \in S : ~ Registered(u)'
  BY <1>1, <1>2, <1>4 DEF Registered
<1>6. \A u \in Task \ S : Registered(u)' <=> Registered(u)
  BY <1>1, <1>4, ConstantsAssumption DEF Registered
<1>7. \A u \in active : u \in Task /\ state[u] # "new"
  <2>1. \A k \in Key : running[k] # None =>
                          running[k] \in Task /\ state[running[k]] # "new"
    BY DEF IInv, TypeOK, RegistryInv, ActiveOK
  <2> QED BY <2>1
<1>8. \A u \in Task : state'[u] = "new" <=> state[u] = "new"
  BY <1>1, <1>7
<1>9. S \in SUBSET Task
  BY <1>2
<1> HIDE DEF S, active
<1> QED BY <1>1, <1>2, <1>5, <1>6, <1>8, <1>9, CommandDrops

\* /cancel of one id drops that task, or leaves the phases alone.
LEMMA CancelByIdDrops ==
  ASSUME IInv, NEW t \in Task, CancelById(t)
  PROVE  [Executor!Next]_(Executor!vars)
<1>1. pc' = pc /\ KeyOf[t] \in Key
  BY ConstantsAssumption DEF CancelById, workerVars
<1>2. CASE UNCHANGED registryVars
  BY <1>1, <1>2, MovesStutter
<1>3. CASE RemoveQueued(t) /\ UNCHANGED <<running, enqueuedAt>>
  <2>1. /\ \A k \in Key : ToSet(queues'[k]) = ToSet(queues[k]) \ {t}
        /\ state' = [state EXCEPT ![t] = "done"]
    <3>1. \A k \in Key : /\ t \notin ToSet(queues'[k])
                         /\ ToSet(queues'[k]) \subseteq ToSet(queues[k])
                         /\ ToSet(queues[k]) \ {t} \subseteq ToSet(queues'[k])
      <4>1. /\ \A k \in Key : \A j \in DOMAIN queues'[k] :
                 /\ queues'[k][j] # t
                 /\ \E m \in DOMAIN queues[k] : queues'[k][j] = queues[k][m]
            /\ \A k \in Key : \A v \in ToSet(queues[k]) :
                 v # t => v \in ToSet(queues'[k])
        BY <1>3, RemoveQueuedQueues
      <4>2. \A k \in Key : /\ t \notin ToSet(queues'[k])
                           /\ ToSet(queues'[k]) \subseteq ToSet(queues[k])
        BY <4>1 DEF ToSet
      <4> QED BY <4>1, <4>2
    <3> QED BY <1>3, <3>1 DEF RemoveQueued
  <2>2. \A u \in Task \ {t} : Registered(u)' <=> Registered(u)
    BY <1>3, <2>1, ConstantsAssumption DEF Registered
  <2>3. Registered(t)
    BY DEF CancelById, IInv, RegistryInv, IdsOK
  <2>4. CASE t \in ToSet(queues[KeyOf[t]])
    <3>1. PhaseOf(t) = "waiting" /\ running[KeyOf[t]] # t /\ state[t] = "queued"
      BY <1>1, <2>4, QueuedWaits
    <3>2. ~ Registered(t)'
      BY <1>1, <1>3, <2>1, <3>1 DEF Registered
    <3>3. \A u \in Task : state'[u] = "new" <=> state[u] = "new"
      BY <2>1, <3>1 DEF IInv, TypeOK
    <3>4. /\ {t} \in SUBSET Task
          /\ \A u \in {t} : PhaseOf(u) = "waiting"
          /\ \A u \in {t} : ~ Registered(u)'
      BY <3>1, <3>2
    <3>5. UNCHANGED <<pc, enqueuedAt>>
      BY <1>1, <1>3
    <3> QED BY ONLY <2>2, <3>3, <3>4, <3>5, CommandDrops
  <2>5. CASE t \notin ToSet(queues[KeyOf[t]])
    <3>1. running[KeyOf[t]] = t
      BY <2>3, <2>5 DEF Registered
    <3>2. Registered(t)' /\ state[t] # "new"
      BY <1>3, <3>1, ActiveState DEF Registered, IInv, RegistryInv
    <3>3. \A u \in Task : state'[u] = "new" <=> state[u] = "new"
      BY <2>1, <3>2 DEF IInv, TypeOK
    <3>4. \A u \in Task : Registered(u)' <=> Registered(u)
      BY <2>2, <2>3, <3>2
    <3>5. \A u \in Task : PhaseOf(u)' = PhaseOf(u)
      BY <1>1, <3>3, <3>4 DEF PhaseOf
    <3> QED BY <1>3, <3>5, PhaseByTask DEF Executor!vars
  <2> QED BY <2>4, <2>5
<1> QED BY <1>2, <1>3 DEF CancelById

\* Every step of the registry is a step of the executor or a stutter.
LEMMA NextImplements == IInv /\ [Next]_vars => [Executor!Next]_(Executor!vars)
<1> SUFFICES ASSUME IInv, [Next]_vars PROVE [Executor!Next]_(Executor!vars)
  OBVIOUS
<1>1. ASSUME NEW t \in Task, Dispatch(t) PROVE Executor!Next
  BY <1>1, DispatchSubmits DEF Executor!Next
<1>2. ASSUME NEW t \in Task, CancelById(t)
      PROVE  [Executor!Next]_(Executor!vars)
  BY <1>2, CancelByIdDrops
<1>3. ASSUME NEW ks \in SUBSET Key, CancelKeys(ks)
      PROVE  [Executor!Next]_(Executor!vars)
  BY <1>3, CancelKeysDrops
<1>4. CASE (\E k \in Key : CancelKey(k)) \/ CancelAll \/ CancelFoundKey
  <2>1. \E ks \in SUBSET Key : CancelKeys(ks)
    <3>1. CASE CancelFoundKey
      <4>1. {KeyOf[cur]} \in SUBSET Key
        BY <3>1, ConstantsAssumption DEF CancelFoundKey, IInv, RegistryInv, MainOK
      <4> QED BY <3>1, <4>1 DEF CancelFoundKey
    <3>2. CASE CancelAll
      BY <3>2 DEF CancelAll
    <3>3. ASSUME NEW k \in Key, CancelKey(k)
          PROVE  \E ks \in SUBSET Key : CancelKeys(ks)
      <4>1. {k} \in SUBSET Key /\ CancelKeys({k})
        BY <3>3 DEF CancelKey
      <4> QED BY <4>1
    <3> QED BY <1>4, <3>1, <3>2, <3>3
  <2> QED BY <1>3, <2>1
<1>5. CASE StartDispatched
  <2>1. /\ cur \in Task /\ pc[cur] = "none" /\ running[KeyOf[cur]] = cur
        /\ UNCHANGED registryVars
        /\ pc'[cur] = "hello" /\ \A u \in Task \ {cur} : pc'[u] = pc[u]
    BY <1>5 DEF StartDispatched, IInv, TypeOK, RegistryInv, StarterOK
  <2>2. Executor!Start(cur)
    BY <2>1, WorkerStarts
  <2> QED BY <2>1, <2>2 DEF Executor!Next
<1>6. CASE \/ LookUpKey \/ KillTree
           \/ \E t \in Task : ReadHandle(t) \/ ProcessExits(t)
  <2>1. UNCHANGED registryVars /\ pc' = pc
    BY <1>6 DEF LookUpKey, KillTree, ReadHandle, ProcessExits, workerVars
  <2> QED BY <2>1, MovesStutter
<1>7. ASSUME NEW t \in Task, WorkerStep(t)
      PROVE  [Executor!Next]_(Executor!vars)
  <2>1. CASE WorkerMove(t) \/ DonePing(t)
    <3>1. /\ UNCHANGED registryVars
          /\ \/ pc[t] \in Executing /\ pc'[t] \in Executing
             \/ pc[t] = "ping" /\ pc'[t] \in {"start", "end"}
          /\ \A u \in Task \ {t} : pc'[u] = pc[u]
      BY <2>1 DEF WorkerMove, Hello, Fetch, FetchFails, Gate, Spawn, SpawnFails,
         StoreHandle, Collect, CollectNothing, TimesOut, Recheck, CheckOutput,
         SendOutput, ReadCancelling, DonePing, Goto, Executing, IInv, TypeOK
    <3> QED BY <3>1, MovesStutter
  <2>2. CASE Finish(t)
    BY <2>2, FinishEnds DEF Executor!Next
  <2>3. CASE StartNext(t)
    <3> DEFINE n == nxt[t]
    <3>1. /\ pc[t] = "start" /\ n \in Task /\ StartedBy(t, n)
          /\ pc[n] = "none" /\ running[KeyOf[n]] = n
      BY <2>3 DEF StartNext, IInv, TypeOK, RegistryInv, StarterOK, StartedBy
    <3>2. /\ UNCHANGED registryVars /\ pc'[n] = "hello"
          /\ \A u \in Task \ {n} : \/ pc'[u] = pc[u]
                                   \/ pc[u] = "start" /\ pc'[u] = "end"
      BY <2>3, <3>1 DEF StartNext, IInv, TypeOK
    <3> HIDE DEF n
    <3>3. Executor!Start(n)
      BY <3>1, <3>2, WorkerStarts
    <3> QED BY <3>1, <3>3 DEF Executor!Next
  <2> QED BY <1>7, <2>1, <2>2, <2>3 DEF WorkerStep, WorkerMove
<1>8. CASE UNCHANGED vars
  <2>1. UNCHANGED registryVars /\ pc' = pc
    BY <1>8 DEF vars, workerVars
  <2> QED BY <2>1, MovesStutter
<1> QED BY <1>1, <1>2, <1>4, <1>5, <1>6, <1>7, <1>8
        DEF Next, UserStep, MainStep

\* The registry, whatever its threads and its users do, is a serial executor:
\* per key one task at a time, in the order asked, and no start after a drop.
THEOREM Implements == Spec => ImplementsExecutor
<1>1. Init => Executor!Init
  BY DEF Init, Executor!Init, Phase, PhaseOf
<1> QED BY <1>1, NextImplements, Invariance, PTL
        DEF Spec, ImplementsExecutor, Executor!Spec
=============================================================================
