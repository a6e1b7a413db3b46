-------------------------- MODULE RoutingLogProofs --------------------------
(***************************************************************************)
(* For every capacity of the channel and every set of requests: /metrics   *)
(* overlooks nothing that was queued before it, and Shutdown drains.       *)
(***************************************************************************)
EXTENDS RoutingLog, SequenceTheorems, TLAPS

\* The entries the worker is through with, in the table or given up.
Settled == ToSet(rows) \cup dropped \cup failed

\* A decision that was logged is settled, in the worker's hands or queued.
NothingLost ==
  \A e \in Entry : pc[e] \in {"reply", "returned"} =>
    \/ e \in Settled
    \/ e = taken
    \/ \E i \in 1..Len(logCh) : logCh[i] = e

\* What a reader waits for is ahead of its marker.
MarkerIsBehind ==
  \A r \in Reader, i \in 1..Len(logCh) : logCh[i] = r =>
    \A e \in before[r] :
      \/ e \in Settled
      \/ e = taken
      \/ \E j \in 1..Len(logCh) : j < i /\ logCh[j] = e

\* A marker that was reached has nothing left ahead of it.
MarkerIsReached ==
  \A r \in Reader : taken = r \/ r \in acked \/ pc[r] = "read" =>
                      before[r] \subseteq Settled

\* A reader's marker is in the channel only after flushLog sent it, and what
\* it waits for was in clients' hands before.
MarkerIsSent ==
  \A r \in Reader :
    /\ pc[r] \in {"new", "flush"} =>
         /\ taken # r
         /\ r \notin acked
         /\ \A i \in 1..Len(logCh) : logCh[i] # r
    /\ pc[r] = "flush" => before[r] \subseteq Returned

StoppedIsEmpty == done => closed /\ logCh = <<>> /\ taken = None

IInv ==
  /\ TypeOK
  /\ NothingLost
  /\ MarkerIsBehind
  /\ MarkerIsReached
  /\ MarkerIsSent
  /\ StoppedIsEmpty
  /\ MetricsMissOnlyLost

-----------------------------------------------------------------------------
\* A row that is appended joins the table's rows.
LEMMA AppendToSet ==
  ASSUME NEW S, NEW s \in Seq(S), NEW x \in S
  PROVE  ToSet(Append(s, x)) = ToSet(s) \cup {x}
<1>1. /\ Len(Append(s, x)) = Len(s) + 1
      /\ \A i \in 1..Len(s) : Append(s, x)[i] = s[i]
      /\ Append(s, x)[Len(s) + 1] = x
      /\ DOMAIN Append(s, x) = 1..(Len(s) + 1)
      /\ DOMAIN s = 1..Len(s)
      /\ Len(s) \in Nat
  OBVIOUS
<1>2. 1..(Len(s) + 1) = 1..Len(s) \cup {Len(s) + 1}
  BY <1>1
<1> QED
  BY <1>1, <1>2 DEF ToSet

\* Where a request may be.
Place ==
  {"new", "reply", "flush", "await", "read", "returned", "error", "panicked"}

\* A handler that moves on is somewhere.
LEMMA GotoType ==
  ASSUME TypeOK, NEW x \in Item, NEW from, NEW to \in Place, Goto(x, from, to)
  PROVE  pc' \in [Item -> Place]
<1>1. pc \in [Item -> Place] /\ pc' = [pc EXCEPT ![x] = to]
  BY DEF TypeOK, Goto, Place
<1> QED
  BY <1>1

\* Initially nothing is queued.
LEMMA InitInv == Init => IInv
<1> SUFFICES ASSUME Init PROVE IInv
  OBVIOUS
<1> USE ConstantsAssumption DEF ConstantsAssumption, Init
<1>1. TypeOK
  <2>1. pc \in [Item -> {"new", "reply", "flush", "await", "read", "returned",
                         "error", "panicked"}]
    OBVIOUS
  <2>2. Len(logCh) <= Capacity /\ logCh \in Seq(Item) /\ rows \in Seq(Entry)
    OBVIOUS
  <2> QED
    BY <2>1, <2>2 DEF TypeOK
<1>2. NothingLost /\ MarkerIsBehind /\ StoppedIsEmpty
  BY DEF NothingLost, MarkerIsBehind, StoppedIsEmpty, Item
<1>3. MarkerIsReached /\ MarkerIsSent /\ MetricsMissOnlyLost
  BY DEF MarkerIsReached, MarkerIsSent, MetricsMissOnlyLost, Item, Returned
<1> QED
  BY <1>1, <1>2, <1>3 DEF IInv

\* An item that joins the end of the channel disturbs nothing ahead of it.
LEMMA SendInv ==
  ASSUME IInv, NEW x \in Item, logCh' = Append(logCh, x),
         Len(logCh) < Capacity, ~closed,
         \/ x \in Entry /\ Goto(x, "new", "reply")
         \/ x \in Reader /\ Goto(x, "flush", "await"),
         UNCHANGED <<closed, done, workerVars, dropped, readerVars>>
  PROVE  IInv'
<1> USE DEF workerVars, readerVars
<1>1. /\ Len(logCh') = Len(logCh) + 1
      /\ \A i \in 1..Len(logCh) : logCh'[i] = logCh[i]
      /\ logCh'[Len(logCh) + 1] = x
      /\ logCh' \in Seq(Item)
      /\ Len(logCh) \in Nat
  BY DEF IInv, TypeOK
<1>2. 1..Len(logCh') = 1..Len(logCh) \cup {Len(logCh) + 1}
  BY <1>1
<1>3. Settled' = Settled
  BY DEF Settled
<1>4. TypeOK'
  <2>1. pc' \in [Item -> Place]
    <3>1. CASE Goto(x, "new", "reply")
      BY <3>1, GotoType DEF IInv, Place
    <3>2. CASE Goto(x, "flush", "await")
      BY <3>2, GotoType DEF IInv, Place
    <3> QED
      BY <3>1, <3>2
  <2>2. Len(logCh') <= Capacity
    BY <1>1, ConstantsAssumption DEF ConstantsAssumption
  <2> QED
    BY <1>1, <2>1, <2>2 DEF IInv, TypeOK, Place
<1>5. NothingLost'
  BY <1>1, <1>2, <1>3, ConstantsAssumption
  DEF IInv, TypeOK, NothingLost, Goto, Item, ConstantsAssumption
<1>6. MarkerIsBehind'
  <2> SUFFICES ASSUME NEW r \in Reader, NEW i \in 1..Len(logCh'),
                      logCh'[i] = r, NEW e \in before[r],
                      e \notin Settled, e # taken
               PROVE  \E j \in 1..Len(logCh') : j < i /\ logCh'[j] = e
    BY <1>3 DEF MarkerIsBehind
  <2>1. CASE i \in 1..Len(logCh)
    <3>1. logCh[i] = r
      BY <1>1, <2>1
    <3>2. PICK j \in 1..Len(logCh) : j < i /\ logCh[j] = e
      BY <2>1, <3>1 DEF IInv, MarkerIsBehind
    <3> QED
      BY <1>1, <1>2, <3>2
  <2>2. CASE i = Len(logCh) + 1
    <3>1. r = x /\ pc[r] = "flush"
      BY <1>1, <2>2, ConstantsAssumption DEF Goto, ConstantsAssumption
    <3>2. e \in Entry /\ pc[e] = "returned"
      BY <3>1 DEF IInv, MarkerIsSent, Returned
    <3>3. PICK j \in 1..Len(logCh) : logCh[j] = e
      BY <3>2 DEF IInv, NothingLost
    <3>4. j < i
      BY <1>1, <2>2, <3>3
    <3> QED
      BY <1>1, <1>2, <3>3, <3>4
  <2> QED
    BY <1>2, <2>1, <2>2
<1>7. MarkerIsReached'
  BY <1>3, ConstantsAssumption
  DEF IInv, TypeOK, MarkerIsReached, Goto, Item, ConstantsAssumption
<1>8. MarkerIsSent'
  <2>1. Returned \subseteq Returned'
    BY ConstantsAssumption
    DEF IInv, TypeOK, Returned, Goto, Item, ConstantsAssumption
  <2> QED
    BY <1>1, <1>2, <2>1, ConstantsAssumption
    DEF IInv, TypeOK, MarkerIsSent, Goto, Item, ConstantsAssumption
<1>9. StoppedIsEmpty'
  BY DEF IInv, StoppedIsEmpty
<1>10. MetricsMissOnlyLost'
  BY ConstantsAssumption
  DEF IInv, TypeOK, MetricsMissOnlyLost, Goto, Item, ConstantsAssumption
<1> QED
  BY <1>4, <1>5, <1>6, <1>7, <1>8, <1>9, <1>10 DEF IInv

\* The worker takes the oldest item: what was ahead of a marker stays ahead
\* of it, or is in the worker's hands.
LEMMA TakeInv == IInv /\ Take => IInv'
<1> SUFFICES ASSUME IInv, Take PROVE IInv'
  OBVIOUS
<1>1. /\ Len(logCh) \in Nat \ {0}
      /\ Len(logCh') = Len(logCh) - 1
      /\ \A i \in 1..Len(logCh') : logCh'[i] = logCh[i + 1]
      /\ taken' = logCh[1]
      /\ logCh' \in Seq(Item)
      /\ taken' \in Item
  BY DEF IInv, TypeOK, Take
<1>2. \A i \in 1..Len(logCh') : i + 1 \in 1..Len(logCh)
  BY <1>1
<1>3. \A i \in 1..Len(logCh) : i # 1 => i - 1 \in 1..Len(logCh')
  BY <1>1
<1>4. \A i \in 1..Len(logCh) : i # 1 => logCh'[i - 1] = logCh[i]
  BY <1>1, <1>3
<1>5. Settled' = Settled /\ taken = None /\ None \notin Item
  BY ConstantsAssumption DEF Settled, Take, Item, ConstantsAssumption
<1>6. UNCHANGED <<closed, done, rows, dropped, failed, acked, pc, before,
                  observed>>
  BY DEF Take, readerVars
<1>7. TypeOK'
  <2>1. Len(logCh) <= Capacity /\ Capacity \in Nat
    BY ConstantsAssumption DEF IInv, TypeOK, ConstantsAssumption
  <2>2. Len(logCh') <= Capacity
    BY <1>1, <2>1
  <2> QED
    BY <1>1, <1>6, <2>2 DEF IInv, TypeOK
<1>8. NothingLost'
  <2> SUFFICES ASSUME NEW e \in Entry, pc[e] \in {"reply", "returned"},
                      e \notin Settled, e # logCh[1]
               PROVE  \E i \in 1..Len(logCh') : logCh'[i] = e
    BY <1>1, <1>5, <1>6 DEF NothingLost
  <2>1. PICK i \in 1..Len(logCh) : logCh[i] = e
    BY <1>5 DEF IInv, NothingLost, Item
  <2> QED
    BY <1>3, <1>4, <2>1
<1>9. MarkerIsBehind'
  <2> SUFFICES ASSUME NEW r \in Reader, NEW i \in 1..Len(logCh'),
                      logCh'[i] = r, NEW e \in before[r],
                      e \notin Settled, e # logCh[1]
               PROVE  \E j \in 1..Len(logCh') : j < i /\ logCh'[j] = e
    BY <1>1, <1>5, <1>6 DEF MarkerIsBehind
  <2>1. e # taken
    BY <1>5 DEF IInv, TypeOK, Item
  <2>2. i + 1 \in 1..Len(logCh) /\ logCh[i + 1] = r
    BY <1>1, <1>2
  <2>3. PICK j \in 1..Len(logCh) : j < i + 1 /\ logCh[j] = e
    BY <2>1, <2>2 DEF IInv, MarkerIsBehind
  <2>4. j # 1 /\ j - 1 \in 1..Len(logCh') /\ logCh'[j - 1] = e
    BY <1>3, <1>4, <2>3
  <2>5. j - 1 < i
    BY <1>1, <2>3
  <2> QED
    BY <2>4, <2>5
<1>10. MarkerIsReached'
  <2> SUFFICES ASSUME NEW r \in Reader, logCh[1] = r
               PROVE  before[r] \subseteq Settled
    BY <1>1, <1>5, <1>6 DEF IInv, MarkerIsReached
  <2>1. ASSUME NEW e \in before[r], e \notin Settled PROVE FALSE
    <3>1. e # taken
      BY <1>5 DEF IInv, TypeOK, Item
    <3>2. 1 \in 1..Len(logCh)
      BY <1>1
    <3>3. PICK j \in 1..Len(logCh) : j < 1
      BY <2>1, <3>1, <3>2 DEF IInv, MarkerIsBehind
    <3> QED
      BY <3>3
  <2> QED
    BY <2>1
<1>11. MarkerIsSent'
  <2>1. Returned' = Returned
    BY <1>6 DEF Returned
  <2>2. 1 \in 1..Len(logCh)
    BY <1>1
  <2> QED
    BY <1>1, <1>2, <1>6, <2>1, <2>2 DEF IInv, MarkerIsSent
<1>12. StoppedIsEmpty' /\ MetricsMissOnlyLost'
  BY <1>1, <1>6 DEF IInv, StoppedIsEmpty, MetricsMissOnlyLost
<1> QED
  BY <1>7, <1>8, <1>9, <1>10, <1>11, <1>12 DEF IInv

\* The worker settles the entry it holds, or answers the marker it holds.
LEMMA WorkInv == IInv /\ (Acknowledge \/ AppendRow \/ AppendFails) => IInv'
<1> SUFFICES ASSUME IInv, Acknowledge \/ AppendRow \/ AppendFails PROVE IInv'
  OBVIOUS
<1>1. UNCHANGED <<logCh, closed, done, dropped, pc, before, observed>>
  BY DEF Acknowledge, AppendRow, AppendFails, logVars, readerVars
<1>2. /\ taken # None
      /\ taken' = None
      /\ None \notin Item
      /\ rows' \in Seq(Entry)
      /\ failed \subseteq failed' /\ failed' \subseteq Entry
      /\ acked' \subseteq Reader
  <2>1. None \notin Item /\ taken # None /\ taken' = None
    BY ConstantsAssumption
    DEF Acknowledge, AppendRow, AppendFails, Item, ConstantsAssumption
  <2>2. CASE Acknowledge
    BY <2>1, <2>2 DEF Acknowledge, IInv, TypeOK
  <2>3. CASE AppendRow
    BY <2>1, <2>3 DEF AppendRow, IInv, TypeOK
  <2>4. CASE AppendFails
    BY <2>1, <2>4 DEF AppendFails, IInv, TypeOK
  <2> QED
    BY <2>1, <2>2, <2>3, <2>4
<1>3. Settled' = IF taken \in Entry THEN Settled \cup {taken} ELSE Settled
  <2>1. CASE Acknowledge
    BY <1>1, <2>1, ConstantsAssumption
    DEF Acknowledge, Settled, ConstantsAssumption
  <2>2. CASE AppendRow
    <3>1. ToSet(rows') = ToSet(rows) \cup {taken}
      BY <2>2, AppendToSet DEF AppendRow, IInv, TypeOK
    <3>2. failed' = failed /\ taken \in Entry
      BY <2>2 DEF AppendRow
    <3> QED
      BY <1>1, <3>1, <3>2 DEF Settled
  <2>3. CASE AppendFails
    <3>1. rows' = rows /\ failed' = failed \cup {taken} /\ taken \in Entry
      BY <2>3 DEF AppendFails
    <3> QED
      BY <1>1, <3>1 DEF Settled
  <2> QED
    BY <2>1, <2>2, <2>3
<1>4. acked' = IF taken \in Entry THEN acked ELSE acked \cup {taken}
  BY ConstantsAssumption
  DEF Acknowledge, AppendRow, AppendFails, ConstantsAssumption
<1>5. TypeOK'
  BY <1>1, <1>2 DEF IInv, TypeOK
<1>6. NothingLost'
  BY <1>1, <1>3 DEF IInv, NothingLost
<1>7. MarkerIsBehind'
  <2>1. \A r \in Reader : before[r] \subseteq Entry
    BY DEF IInv, TypeOK
  <2> QED
    BY <1>1, <1>3, <2>1 DEF IInv, MarkerIsBehind
<1>8. MarkerIsReached'
  BY <1>1, <1>2, <1>3, <1>4 DEF IInv, MarkerIsReached, Item
<1>9. MarkerIsSent'
  <2>1. Returned' = Returned
    BY <1>1 DEF Returned
  <2> QED
    BY <1>1, <1>2, <1>4, <2>1 DEF IInv, MarkerIsSent, Item
<1>10. StoppedIsEmpty'
  BY <1>1, <1>2 DEF IInv, StoppedIsEmpty
<1>11. MetricsMissOnlyLost'
  BY <1>1, <1>2 DEF IInv, MetricsMissOnlyLost
<1> QED
  BY <1>5, <1>6, <1>7, <1>8, <1>9, <1>10, <1>11 DEF IInv

\* Steps of the requests that leave the channel and the worker alone.
LEMMA RequestInv ==
  ASSUME IInv,
         NEW x \in Item,
         UNCHANGED <<logVars, workerVars>>,
         \/ x \in Entry /\ (LogRouting(x) \/ LogAfterClose(x) \/ Reply(x))
         \/ x \in Reader /\ (\/ CallFlush(x) \/ WorkerStopped(x)
                             \/ FlushAfterClose(x) \/ ReceiveAck(x)
                             \/ Aggregate(x) \/ AggregateFails(x))
  PROVE  IInv'
<1> USE ConstantsAssumption
    DEF ConstantsAssumption, logVars, workerVars, readerVars, Goto, Item
<1>1. UNCHANGED <<logCh, closed, done, taken, rows, failed, acked>>
  OBVIOUS
<1>2. CASE x \in Entry
  <2>1. /\ UNCHANGED <<before, observed>>
        /\ dropped \subseteq dropped' /\ dropped' \subseteq dropped \cup {x}
        /\ pc' \in [Item -> {"new", "reply", "flush", "await", "read",
                             "returned", "error", "panicked"}]
        /\ \A r \in Reader : pc'[r] = pc[r]
    BY <1>2 DEF LogRouting, LogAfterClose, Reply, IInv, TypeOK
  <2>2. Settled \subseteq Settled' /\ Returned \subseteq Returned'
    BY <1>1, <1>2, <2>1
    DEF Settled, Returned, LogRouting, LogAfterClose, Reply, IInv, TypeOK
  <2>3. TypeOK'
    BY <1>1, <1>2, <2>1 DEF IInv, TypeOK
  <2>4. NothingLost'
    <3> SUFFICES ASSUME NEW e \in Entry, pc'[e] \in {"reply", "returned"}
                 PROVE  \/ e \in Settled'
                        \/ e = taken
                        \/ \E i \in 1..Len(logCh) : logCh[i] = e
      BY <1>1 DEF NothingLost
    <3>1. CASE pc[e] \in {"reply", "returned"}
      BY <2>2, <3>1 DEF IInv, NothingLost
    <3>2. CASE pc[e] \notin {"reply", "returned"}
      <4>1. e = x /\ LogRouting(x)
        BY <1>2, <3>2 DEF LogRouting, LogAfterClose, Reply, IInv, TypeOK
      <4>2. Len(logCh) >= Capacity
        <5>1. Len(Append(logCh, x)) = Len(logCh) + 1 /\ Len(logCh) \in Nat
          BY DEF IInv, TypeOK
        <5> QED
          BY <1>1, <4>1, <5>1 DEF LogRouting
      <4>3. Len(logCh) \in Nat /\ Capacity \in Nat
        BY DEF IInv, TypeOK
      <4>4. x \in dropped'
        BY <4>1, <4>2, <4>3 DEF LogRouting
      <4> QED
        BY <4>1, <4>4 DEF Settled
    <3> QED
      BY <3>1, <3>2
  <2>5. MarkerIsBehind'
    BY <1>1, <2>1, <2>2 DEF IInv, MarkerIsBehind
  <2>6. MarkerIsReached'
    BY <1>1, <2>1, <2>2 DEF IInv, MarkerIsReached
  <2>7. MarkerIsSent'
    BY <1>1, <2>1, <2>2 DEF IInv, MarkerIsSent
  <2>8. StoppedIsEmpty' /\ MetricsMissOnlyLost'
    BY <1>1, <2>1 DEF IInv, StoppedIsEmpty, MetricsMissOnlyLost
  <2> QED
    BY <2>3, <2>4, <2>5, <2>6, <2>7, <2>8 DEF IInv
<1>3. CASE x \in Reader
  <2>1. /\ UNCHANGED dropped
        /\ \A e \in Entry : pc'[e] = pc[e]
        /\ \A r \in Reader \ {x} : /\ pc'[r] = pc[r]
                                   /\ before'[r] = before[r]
                                   /\ observed'[r] = observed[r]
    BY <1>3
    DEF CallFlush, WorkerStopped, FlushAfterClose, ReceiveAck, Aggregate, AggregateFails,
        IInv, TypeOK
  <2>2. Settled' = Settled /\ Returned' = Returned
    BY <1>1, <2>1 DEF Settled, Returned
  <2>3. ToSet(rows) \subseteq Entry
    BY DEF IInv, TypeOK, ToSet
  <2>4. TypeOK'
    <3>1. pc' \in [Item -> Place]
      <4>1. \E from : \E to \in Place : Goto(x, from, to)
        BY <1>3 DEF CallFlush, WorkerStopped, FlushAfterClose, ReceiveAck,
                    Aggregate, AggregateFails, LogRouting, LogAfterClose, Reply, Place
      <4> HIDE DEF Goto
      <4> QED
        BY <4>1, GotoType DEF IInv
    <3>2. before' \in [Reader -> SUBSET Entry]
      BY <1>3, <2>1 DEF IInv, TypeOK, CallFlush, WorkerStopped, FlushAfterClose,
                        ReceiveAck, Aggregate, AggregateFails, Returned
    <3>3. observed' \in [Reader -> SUBSET Entry]
      BY <1>1, <1>3, <2>3 DEF IInv, TypeOK, CallFlush, WorkerStopped, FlushAfterClose,
                        ReceiveAck, Aggregate, AggregateFails
    <3> QED
      BY <1>1, <2>1, <3>1, <3>2, <3>3 DEF IInv, TypeOK, Place
  <2>5. NothingLost'
    BY <1>1, <2>1, <2>2 DEF IInv, NothingLost
  <2>6. CASE CallFlush(x)
    <3>1. /\ pc[x] = "new" /\ pc'[x] = "flush"
          /\ before'[x] = Returned
      BY <1>3, <2>6 DEF CallFlush, IInv, TypeOK
    <3>2. /\ taken # x
          /\ x \notin acked
          /\ \A i \in 1..Len(logCh) : logCh[i] # x
      BY <1>3, <3>1 DEF IInv, MarkerIsSent
    <3>3. MarkerIsBehind'
      BY <1>1, <2>1, <2>2, <3>2 DEF IInv, MarkerIsBehind
    <3>4. MarkerIsReached'
      BY <1>1, <2>1, <2>2, <3>1, <3>2 DEF IInv, MarkerIsReached
    <3>5. MarkerIsSent'
      BY <1>1, <2>1, <2>2, <3>1, <3>2 DEF IInv, MarkerIsSent
    <3>6. StoppedIsEmpty' /\ MetricsMissOnlyLost'
      BY <1>1, <2>1, <3>1 DEF IInv, StoppedIsEmpty, MetricsMissOnlyLost
    <3> QED
      BY <2>4, <2>5, <3>3, <3>4, <3>5, <3>6 DEF IInv
  <2>7. CASE ~CallFlush(x)
    <3>1. before' = before /\ pc'[x] \in {"read", "returned", "error", "panicked"}
      BY <1>3, <2>7
      DEF CallFlush, WorkerStopped, FlushAfterClose, ReceiveAck, Aggregate, AggregateFails,
          IInv, TypeOK
    <3>2. MarkerIsBehind'
      BY <1>1, <2>2, <3>1 DEF IInv, MarkerIsBehind
    <3>3. MarkerIsReached'
      <4>1. pc'[x] = "read" => before[x] \subseteq Settled
        <5>1. CASE WorkerStopped(x)
          <6>1. done /\ logCh = <<>> /\ taken = None
            BY <5>1 DEF WorkerStopped, IInv, StoppedIsEmpty
          <6>2. before[x] \subseteq Returned
            BY <1>3, <5>1 DEF WorkerStopped, IInv, MarkerIsSent
          <6> QED
            BY <6>1, <6>2 DEF IInv, NothingLost, Returned
        <5>2. CASE ReceiveAck(x)
          BY <1>3, <5>2 DEF ReceiveAck, IInv, MarkerIsReached
        <5>3. CASE FlushAfterClose(x) \/ Aggregate(x) \/ AggregateFails(x)
          BY <1>3, <5>3 DEF FlushAfterClose, Aggregate, AggregateFails, IInv, TypeOK
        <5> QED
          BY <1>3, <2>7, <5>1, <5>2, <5>3
             DEF LogRouting, LogAfterClose, Reply
      <4> QED
        BY <1>1, <2>1, <2>2, <3>1, <4>1 DEF IInv, MarkerIsReached
    <3>4. MarkerIsSent'
      BY <1>1, <2>1, <2>2, <3>1 DEF IInv, MarkerIsSent
    <3>5. MetricsMissOnlyLost'
      <4>1. pc'[x] = "returned" =>
              before[x] \subseteq observed'[x] \cup dropped \cup failed
        <5>1. CASE Aggregate(x)
          <6>1. observed'[x] = ToSet(rows) /\ pc[x] = "read"
            BY <1>3, <5>1 DEF Aggregate, IInv, TypeOK
          <6> QED
            BY <1>3, <6>1 DEF IInv, MarkerIsReached, Settled
        <5>2. CASE ~Aggregate(x)
          BY <1>3, <2>7, <5>2
          DEF CallFlush, WorkerStopped, FlushAfterClose, ReceiveAck, AggregateFails,
              IInv, TypeOK
        <5> QED
          BY <5>1, <5>2
      <4> QED
        BY <1>1, <2>1, <3>1, <4>1 DEF IInv, MetricsMissOnlyLost
    <3>6. StoppedIsEmpty'
      BY <1>1 DEF IInv, StoppedIsEmpty
    <3> QED
      BY <2>4, <2>5, <3>2, <3>3, <3>4, <3>5, <3>6 DEF IInv
  <2> QED
    BY <2>6, <2>7
<1> QED
  BY <1>2, <1>3

\* Closing the channel and ending the worker touch nothing else.
LEMMA CloseInv == IInv /\ (StopWorker \/ Shutdown \/ UNCHANGED vars) => IInv'
<1> SUFFICES ASSUME IInv, StopWorker \/ Shutdown \/ UNCHANGED vars PROVE IInv'
  OBVIOUS
<1>1. /\ UNCHANGED <<logCh, taken, rows, failed, acked, dropped, pc, before,
                     observed>>
      /\ closed' \in BOOLEAN /\ done' \in BOOLEAN
      /\ StoppedIsEmpty'
  <2>1. CASE StopWorker
    BY <2>1 DEF StopWorker, workerVars, readerVars, IInv, TypeOK,
                StoppedIsEmpty
  <2>2. CASE Shutdown
    BY <2>2 DEF Shutdown, workerVars, readerVars, IInv, TypeOK,
                StoppedIsEmpty
  <2>3. CASE UNCHANGED vars
    BY <2>3 DEF vars, logVars, workerVars, readerVars, IInv, TypeOK,
                StoppedIsEmpty
  <2> QED
    BY <2>1, <2>2, <2>3
<1>2. Settled' = Settled /\ Returned' = Returned
  BY <1>1 DEF Settled, Returned
<1> QED
  BY <1>1, <1>2
  DEF IInv, TypeOK, NothingLost, MarkerIsBehind, MarkerIsReached,
      MarkerIsSent, MetricsMissOnlyLost

\* Every step keeps the invariant.
LEMMA NextInv == IInv /\ [Next]_vars => IInv'
<1> SUFFICES ASSUME IInv, [Next]_vars PROVE IInv'
  OBVIOUS
<1>1. ASSUME NEW e \in Entry, RouteMoves(e) PROVE IInv'
  <2>1. e \in Item
    BY DEF Item
  <2>2. CASE LogRouting(e) /\ Len(logCh) < Capacity
    <3>1. Len(logCh) \in Nat /\ Capacity \in Nat
      BY ConstantsAssumption DEF IInv, TypeOK, ConstantsAssumption
    <3>2. logCh' = Append(logCh, e) /\ UNCHANGED dropped
      BY <2>2, <3>1 DEF LogRouting
    <3> QED
      BY <2>1, <2>2, <3>2, SendInv DEF LogRouting
  <2>3. CASE LogRouting(e) /\ ~(Len(logCh) < Capacity)
    BY <2>1, <2>3, RequestInv DEF LogRouting, logVars
  <2>4. CASE LogAfterClose(e)
    BY <2>1, <2>4, RequestInv DEF LogAfterClose
  <2>5. CASE Reply(e)
    BY <2>1, <2>5, RequestInv DEF Reply
  <2> QED
    BY <1>1, <2>2, <2>3, <2>4, <2>5 DEF RouteMoves
<1>2. ASSUME NEW r \in Reader, CallFlush(r) \/ FlushMoves(r) \/ ReadMoves(r)
      PROVE IInv'
  <2>1. r \in Item
    BY DEF Item
  <2>2. CASE SendMarker(r)
    BY <2>1, <2>2, SendInv DEF SendMarker
  <2>3. CASE CallFlush(r)
    BY <2>1, <2>3, RequestInv DEF CallFlush
  <2>4. CASE WorkerStopped(r)
    BY <2>1, <2>4, RequestInv DEF WorkerStopped
  <2>5. CASE FlushAfterClose(r)
    BY <2>1, <2>5, RequestInv DEF FlushAfterClose
  <2>6. CASE ReceiveAck(r)
    BY <2>1, <2>6, RequestInv DEF ReceiveAck
  <2>7. CASE Aggregate(r)
    BY <2>1, <2>7, RequestInv DEF Aggregate
  <2>8. CASE AggregateFails(r)
    BY <2>1, <2>8, RequestInv DEF AggregateFails
  <2> QED
    BY <1>2, <2>2, <2>3, <2>4, <2>5, <2>6, <2>7, <2>8 DEF FlushMoves, ReadMoves
<1>3. CASE WorkerMoves
  BY <1>3, TakeInv, WorkInv, CloseInv DEF WorkerMoves
<1>4. CASE Shutdown \/ UNCHANGED vars
  BY <1>4, CloseInv
<1> QED
  BY <1>1, <1>2, <1>3, <1>4 DEF Next

-----------------------------------------------------------------------------
\* IInv holds in every reachable state.
THEOREM Invariance == Spec => []IInv
  BY InitInv, NextInv, PTL DEF Spec

\* The channel never holds more than logQueueSize items, and the variables
\* keep their types.
THEOREM TypeCorrect == Spec => []TypeOK
<1>1. IInv => TypeOK
  BY DEF IInv
<1> QED
  BY <1>1, Invariance, PTL

\* /metrics counts every decision clients had when it was asked, but for those
\* that were dropped or failed, whatever is queued or closed meanwhile.
THEOREM MetricsAreComplete == Spec => []MetricsMissOnlyLost
<1>1. IInv => MetricsMissOnlyLost
  BY DEF IInv
<1> QED
  BY <1>1, Invariance, PTL

\* Once the worker has stopped, nothing that was queued is missing.
THEOREM ShutdownLosesNothing == Spec => []ShutdownDrains
<1>1. IInv => ShutdownDrains
  <2> SUFFICES ASSUME IInv, done, NEW e \in Returned
               PROVE  e \in ToSet(rows) \cup dropped \cup failed
    BY DEF ShutdownDrains
  <2>1. logCh = <<>> /\ e # taken
    BY ConstantsAssumption
    DEF IInv, StoppedIsEmpty, Returned, ConstantsAssumption
  <2>2. ~ \E i \in 1..Len(logCh) : logCh[i] = e
    BY <2>1
  <2> QED
    BY <2>1, <2>2 DEF IInv, NothingLost, Returned, Settled
<1> QED
  BY <1>1, Invariance, PTL
=============================================================================
