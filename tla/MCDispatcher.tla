---------------------------- MODULE MCDispatcher ----------------------------
(***************************************************************************)
(* Dispatcher over every batch of three tasks with distinct ids, and over  *)
(* batches that repeat an id; id 3 is then absent, and may be waited for.  *)
(***************************************************************************)
EXTENDS Dispatcher, TLC

TwoScores == {1, 2}

\* Heavy tasks of two scores, a light one, and one that needs triage.
SomeFates == [class : {"heavy"}, score : {1, 2}]
               \cup [class : {"light", "triage"}, score : {1}]

Others(id) == SUBSET (1..3 \ {id})

Task(id) == [id : {id}, fate : SomeFates, dependsOn : Others(id)]

Batches ==
  {<<a, b, c>> : a \in Task(1), b \in Task(2), c \in Task(3)}
    \cup {<<a, b, c>> : a \in Task(1), b \in Task(2), c \in Task(1)}
    \cup {<<a, b>> : a \in Task(1), b \in Task(1)}

\* None asked for, one, and one too many.
Requests == {0, 1, 4}
=============================================================================
