--------------------------- MODULE SerialExecutor ---------------------------
(***************************************************************************)
(* What the task registry promises its users: under each key at most one   *)
(* task executes at a time, tasks start in the order they were asked for,  *)
(* and a task that was dropped from its queue never starts.  There are no  *)
(* queues, threads or locks here, only the phase each task is in.          *)
(***************************************************************************)
EXTENDS Naturals

CONSTANTS Task, KeyOf

VARIABLES
  phase,   \* "new", "waiting", "active", "ended" or "dropped"
  since    \* when the task was asked for

vars == <<phase, since>>

Init ==
  /\ phase = [t \in Task |-> "new"]
  /\ since = [t \in Task |-> 0]

SameKey(t) == {u \in Task \ {t} : KeyOf[u] = KeyOf[t]}

\* A request, later than every earlier one.
Submit(t) ==
  /\ phase[t] = "new"
  /\ phase' = [phase EXCEPT ![t] = "waiting"]
  /\ \A u \in Task : since[u] < since'[t]
  /\ since' = [since EXCEPT ![t] = since'[t]]

\* The oldest waiting task of a key with no active one.
Start(t) ==
  /\ phase[t] = "waiting"
  /\ \A u \in SameKey(t) : /\ phase[u] # "active"
                           /\ phase[u] = "waiting" => since[t] < since[u]
  /\ phase' = [phase EXCEPT ![t] = "active"]
  /\ UNCHANGED since

End(t) ==
  /\ phase[t] = "active"
  /\ phase' = [phase EXCEPT ![t] = "ended"]
  /\ UNCHANGED since

\* One cancel command may drop any number of waiting tasks.
Drop(S) ==
  /\ S # {}
  /\ \A t \in S : phase[t] = "waiting"
  /\ phase' = [t \in Task |-> IF t \in S THEN "dropped" ELSE phase[t]]
  /\ UNCHANGED since

Next ==
  \/ \E t \in Task : Submit(t) \/ Start(t) \/ End(t)
  \/ \E S \in SUBSET Task : Drop(S)

Spec == Init /\ [][Next]_vars
=============================================================================
