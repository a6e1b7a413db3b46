--------------------------- MODULE MCTaskRegistry ---------------------------
(* Instances of TaskRegistry for TLC.                                      *)
EXTENDS TaskRegistry, TLC

CONSTANTS t1, t2, t3

\* Three tasks of one mode: two of them wait.
OneMode == t1 :> "dev" @@ t2 :> "dev" @@ t3 :> "dev"

\* Tasks of one key are interchangeable.
Symmetry == Permutations(Task)

\* Two media uploads: one waits.
TwoMedia == t1 :> "media" @@ t2 :> "media"

\* A mode and a specialist, side by side.
TwoKeys == t1 :> "dev" @@ t2 :> "ag"
=============================================================================
