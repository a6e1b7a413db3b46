----------------------------- MODULE RoutingLog -----------------------------
(***************************************************************************)
(* The task-router's routing log (services/task-router/internal/httpapi):  *)
(* request handlers queue one entry each in a bounded channel, a single    *)
(* worker appends them to SQLite, /metrics flushes the channel before it   *)
(* aggregates, and Shutdown closes it.  An entry is the request that       *)
(* queued it, a flush marker the reader that waits for it.                 *)
(*                                                                         *)
(* The program's main is not part of the repository, so Shutdown may come  *)
(* at any time.  net/http recovers a handler's panic: that request ends.   *)
(***************************************************************************)
EXTENDS Naturals, FiniteSets, SequencesExt

CONSTANTS
  Entry,     \* requests that log a decision
  Reader,    \* /metrics requests
  Capacity,  \* logQueueSize
  None

ASSUME ConstantsAssumption ==
  /\ IsFiniteSet(Entry)
  /\ Entry \cap Reader = {}
  /\ Capacity \in Nat \ {0}
  /\ None \notin Entry \cup Reader

VARIABLES
  logCh,     \* the buffered channel
  closed,    \* has Shutdown closed it?
  done,      \* has the worker closed doneCh?
  taken,     \* the item the worker is working on, or None
  rows,      \* the routing_log table
  dropped,   \* entries the full channel turned away
  failed,    \* entries whose append returned an error
  acked,     \* flush markers the worker has answered
  pc,        \* where each request's handler is
  before,    \* decisions clients had when a reader called flushLog
  observed   \* entries a reader's Aggregate counted

logVars == <<logCh, closed, done>>
workerVars == <<taken, rows, failed, acked>>
readerVars == <<before, observed>>
vars == <<logVars, workerVars, dropped, pc, readerVars>>

Item == Entry \cup Reader
Returned == {e \in Entry : pc[e] = "returned"}

TypeOK ==
  /\ logCh \in Seq(Item)
  /\ Len(logCh) <= Capacity
  /\ closed \in BOOLEAN
  /\ done \in BOOLEAN
  /\ taken \in Item \cup {None}
  /\ rows \in Seq(Entry)
  /\ dropped \in SUBSET Entry
  /\ failed \in SUBSET Entry
  /\ acked \in SUBSET Reader
  /\ pc \in [Item -> {"new", "reply", "flush", "await", "read", "returned",
                      "error", "panicked"}]
  /\ before \in [Reader -> SUBSET Entry]
  /\ observed \in [Reader -> SUBSET Entry]

Init ==
  /\ logCh = <<>>
  /\ closed = FALSE
  /\ done = FALSE
  /\ taken = None
  /\ rows = <<>>
  /\ dropped = {}
  /\ failed = {}
  /\ acked = {}
  /\ pc = [i \in Item |-> "new"]
  /\ before = [r \in Reader |-> {}]
  /\ observed = [r \in Reader |-> {}]

Goto(i, from, to) ==
  /\ pc[i] = from
  /\ pc' = [pc EXCEPT ![i] = to]

-----------------------------------------------------------------------------
(* handleRoute, handleDispatch, handleTriageCallback: logRouting, then     *)
(* writeJSON.                                                              *)

\* Mutation: the channel has no capacity.
LogRouting_Unbounded(e) ==
  /\ ~closed
  /\ Goto(e, "new", "reply")
  /\ logCh' = Append(logCh, e)
  /\ UNCHANGED <<closed, done, workerVars, dropped, readerVars>>

\* logRouting's select: it sends if there is room, else it drops the entry.
LogRouting(e) ==
  /\ ~closed
  /\ Goto(e, "new", "reply")
  /\ \/ /\ Len(logCh) < Capacity
        /\ logCh' = Append(logCh, e)
        /\ UNCHANGED dropped
     \/ /\ Len(logCh) >= Capacity
        /\ dropped' = dropped \cup {e}
        /\ UNCHANGED logCh
  /\ UNCHANGED <<closed, done, workerVars, readerVars>>

\* A send on a closed channel panics, whatever else the select offers.
LogAfterClose(e) ==
  /\ closed
  /\ Goto(e, "new", "panicked")
  /\ UNCHANGED <<logVars, workerVars, dropped, readerVars>>

Reply(e) ==
  /\ Goto(e, "reply", "returned")
  /\ UNCHANGED <<logVars, workerVars, dropped, readerVars>>

-----------------------------------------------------------------------------
(* handleMetrics: flushLog, then Aggregate.                                *)

CallFlush(r) ==
  /\ Goto(r, "new", "flush")
  /\ before' = [before EXCEPT ![r] = Returned]
  /\ UNCHANGED <<logVars, workerVars, dropped, observed>>

\* flushLog's select waits for room, or for the end of the worker.
SendMarker(r) ==
  /\ ~closed
  /\ Len(logCh) < Capacity
  /\ Goto(r, "flush", "await")
  /\ logCh' = Append(logCh, r)
  /\ UNCHANGED <<closed, done, workerVars, dropped, readerVars>>

WorkerStopped(r) ==
  /\ done
  /\ Goto(r, "flush", "read")
  /\ UNCHANGED <<logVars, workerVars, dropped, readerVars>>

\* The send case of a closed channel is ready: picked, also when doneCh is
\* ready too, it panics.
FlushAfterClose(r) ==
  /\ closed
  /\ Goto(r, "flush", "panicked")
  /\ UNCHANGED <<logVars, workerVars, dropped, readerVars>>

ReceiveAck(r) ==
  /\ r \in acked
  /\ Goto(r, "await", "read")
  /\ UNCHANGED <<logVars, workerVars, dropped, readerVars>>

\* What counts is the first of the two queries; the second one is for the
\* percentiles.
Aggregate(r) ==
  /\ Goto(r, "read", "returned")
  /\ observed' = [observed EXCEPT ![r] = ToSet(rows)]
  /\ UNCHANGED <<logVars, workerVars, dropped, before>>

\* Either query fails: the reply is an error (500) without any count.
AggregateFails(r) ==
  /\ Goto(r, "read", "error")
  /\ UNCHANGED <<logVars, workerVars, dropped, readerVars>>

-----------------------------------------------------------------------------
(* logWorker and Shutdown.                                                 *)

\* Mutation: the worker takes the newest entry first.
Take_Newest ==
  /\ taken = None
  /\ logCh # <<>>
  /\ taken' = Last(logCh)
  /\ logCh' = Front(logCh)
  /\ UNCHANGED <<closed, done, rows, dropped, failed, acked, pc, readerVars>>

Take ==
  /\ taken = None
  /\ logCh # <<>>
  /\ taken' = Head(logCh)
  /\ logCh' = Tail(logCh)
  /\ UNCHANGED <<closed, done, rows, dropped, failed, acked, pc, readerVars>>

\* Mutation: a flush is taken and never acknowledged.
Acknowledge_Never ==
  /\ taken \in Reader
  /\ taken' = None
  /\ UNCHANGED <<logVars, rows, dropped, failed, acked, pc, readerVars>>

Acknowledge ==
  /\ taken \in Reader
  /\ acked' = acked \cup {taken}
  /\ taken' = None
  /\ UNCHANGED <<logVars, rows, dropped, failed, pc, readerVars>>

\* The insert has two seconds.
AppendRow ==
  /\ taken \in Entry
  /\ rows' = Append(rows, taken)
  /\ taken' = None
  /\ UNCHANGED <<logVars, dropped, failed, acked, pc, readerVars>>

\* "routing_log append failed": the entry is gone.
AppendFails ==
  /\ taken \in Entry
  /\ failed' = failed \cup {taken}
  /\ taken' = None
  /\ UNCHANGED <<logVars, rows, dropped, acked, pc, readerVars>>

\* Mutation: the worker stops with entries left in the channel.
StopWorker_AtOnce ==
  /\ closed
  /\ ~done
  /\ taken = None
  /\ done' = TRUE
  /\ UNCHANGED <<logCh, closed, workerVars, dropped, pc, readerVars>>

\* A range over a closed channel ends once it is empty.
StopWorker ==
  /\ closed
  /\ ~done
  /\ taken = None
  /\ logCh = <<>>
  /\ done' = TRUE
  /\ UNCHANGED <<logCh, closed, workerVars, dropped, pc, readerVars>>

Shutdown ==
  /\ ~closed
  /\ closed' = TRUE
  /\ UNCHANGED <<logCh, done, workerVars, dropped, pc, readerVars>>

-----------------------------------------------------------------------------
RouteMoves(e) == LogRouting(e) \/ LogAfterClose(e) \/ Reply(e)

FlushMoves(r) ==
  SendMarker(r) \/ WorkerStopped(r) \/ FlushAfterClose(r) \/ ReceiveAck(r)

ReadMoves(r) == Aggregate(r) \/ AggregateFails(r)

WorkerMoves ==
  Take \/ Acknowledge \/ AppendRow \/ AppendFails \/ StopWorker

Next ==
  \/ \E e \in Entry : RouteMoves(e)
  \/ \E r \in Reader : CallFlush(r) \/ FlushMoves(r) \/ ReadMoves(r)
  \/ WorkerMoves
  \/ Shutdown

Spec == Init /\ [][Next]_vars

\* The goroutines the Go scheduler runs: the worker, and a reader once it has
\* called flushLog.  Nothing is asked of clients, nor that Shutdown comes.
FairSpec ==
  /\ Spec
  /\ WF_vars(WorkerMoves)
  /\ \A r \in Reader : WF_vars(FlushMoves(r)) /\ WF_vars(ReadMoves(r))

-----------------------------------------------------------------------------
(* Properties.                                                             *)

\* What /metrics does not count, of the decisions clients had before it was
\* asked, was dropped by a full channel or failed to be appended: nothing
\* that was queued is overlooked, also when the channel is closed meanwhile.
MetricsMissOnlyLost ==
  \A r \in Reader :
    pc[r] = "returned" => before[r] \subseteq observed[r] \cup dropped \cup failed

\* When the worker has stopped, every decision returned to a client is in the
\* table, was dropped or failed: Shutdown loses nothing that was queued.
ShutdownDrains ==
  done => Returned \subseteq ToSet(rows) \cup dropped \cup failed

\* A reader that called flushLog gets on, by its marker's turn, by the end of
\* the worker or by a panic: it does not hang on a full or a closed channel,
\* but gets its counts, an error from the database, or the panic.
FlushEnds ==
  \A r \in Reader :
    pc[r] = "flush" ~> pc[r] \in {"returned", "error", "panicked"}
=============================================================================
