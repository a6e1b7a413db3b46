------------------------- MODULE ApprovalGateProofs -------------------------
(***************************************************************************)
(* For every set of hooks and every number of polls: the approval gate     *)
(* lets a command that asked run only on an answer written while it was    *)
(* waiting, and a finished hook leaves no request behind.                  *)
(***************************************************************************)
EXTENDS ApprovalGate, TLAPS

\* An "allow" in the file is news to every hook that still waits for one.
FileIsFresh ==
  decision = "allow" => \A h \in Hook : pc[h] \in Waiting => h \in delivered

\* What a hook read stays justified.
ReadIsFresh == \A h \in Hook : got[h] = "allow" => h \in delivered

ApprovedRead == \A h \in Hook : pc[h] = "approved" => got[h] = "allow"

\* Only the hook that is about to write holds PENDING open, and the id in
\* PENDING is that of a hook between its write and its end, or killed there.
RequestHasHook ==
  /\ \A h \in pendingFds : pc[h] = "write"
  /\ \A h \in Hook : pending = h =>
       pc[h] \in {"send", "poll", "read", "consume", "retire", "expire",
                  "killed"}

\* A hook that still polls has polls left.
PollsLeft ==
  \A h \in Hook :
    pc[h] \in {"new", "clear", "open", "write", "send", "poll"} =>
      polls[h] < MaxPolls

IInv ==
  /\ TypeOK
  /\ FileIsFresh
  /\ ReadIsFresh
  /\ ApprovedRead
  /\ RequestHasHook
  /\ PollsLeft

\* The invariant holds of the initial state: no file, no hook started.
LEMMA InitInv == Init => IInv
<1> SUFFICES ASSUME Init PROVE IInv
  OBVIOUS
<1> USE ConstantsAssumption DEF ConstantsAssumption, Init
<1>1. TypeOK
  <2>1. pc \in [Hook -> {"new", "clear"} \cup Asking \cup Ended]
    OBVIOUS
  <2>2. polls \in [Hook -> 0..MaxPolls]
    OBVIOUS
  <2>3. got \in [Hook -> Answer \cup {"torn", None}]
    OBVIOUS
  <2> QED
    BY <2>1, <2>2, <2>3 DEF TypeOK
<1>2. FileIsFresh /\ ReadIsFresh /\ ApprovedRead
  BY DEF FileIsFresh, ReadIsFresh, ApprovedRead
<1>3. RequestHasHook /\ PollsLeft
  BY DEF RequestHasHook, PollsLeft
<1> QED
  BY <1>1, <1>2, <1>3 DEF IInv

\* Every step of a hook, of the bot and of the user keeps the invariant.
LEMMA NextInv == IInv /\ [Next]_vars => IInv'
<1> SUFFICES ASSUME IInv, [Next]_vars PROVE IInv'
  OBVIOUS
<1> USE ConstantsAssumption
    DEF ConstantsAssumption, IInv, TypeOK, FileIsFresh, ReadIsFresh,
        ApprovedRead, RequestHasHook, PollsLeft, Answer, Asking, Waiting, Ended,
        HookStep, BotStep, RemovePending, RemoveDecision,
        hookVars, fileVars, botVars
<1>1. ASSUME NEW h \in Hook, Classify(h) PROVE IInv'
  BY <1>1 DEF Classify
<1>2. ASSUME NEW h \in Hook, ClearDecision(h) PROVE IInv'
  BY ZenonT(40), <1>2 DEF ClearDecision
<1>3. ASSUME NEW h \in Hook, OpenPending(h) PROVE IInv'
  BY <1>3 DEF OpenPending
<1>4. ASSUME NEW h \in Hook, WritePending(h) PROVE IInv'
  BY <1>4 DEF WritePending
<1>5. ASSUME NEW h \in Hook, SendButtons(h) PROVE IInv'
  BY <1>5 DEF SendButtons
<1>6. ASSUME NEW h \in Hook, SeeDecision(h) PROVE IInv'
  BY <1>6 DEF SeeDecision
<1>7. ASSUME NEW h \in Hook, SeeNothing(h) PROVE IInv'
  <2>1. polls' \in [Hook -> 0..MaxPolls]
    BY <1>7 DEF SeeNothing
  <2> QED
    BY <1>7, <2>1 DEF SeeNothing
<1>8. ASSUME NEW h \in Hook, ReadDecision(h) PROVE IInv'
  BY <1>8 DEF ReadDecision
<1>9. ASSUME NEW h \in Hook, ConsumeDecision(h) PROVE IInv'
  BY ZenonT(40), <1>9 DEF ConsumeDecision
<1>10. ASSUME NEW h \in Hook, RetireRequest(h) PROVE IInv'
  BY <1>10 DEF RetireRequest
<1>11. ASSUME NEW h \in Hook, Expire(h) PROVE IInv'
  BY <1>11 DEF Expire
<1>12. ASSUME NEW h \in Hook, KillHook(h) PROVE IInv'
  BY <1>12 DEF KillHook
<1>13. ASSUME NEW h \in Hook, NEW a \in Answer, PressButton(h, a) PROVE IInv'
  BY <1>13 DEF PressButton
<1>14. ASSUME NEW a \in Answer, TypeAnswer(a) PROVE IInv'
  BY <1>14 DEF TypeAnswer
<1>15. CASE OpenDecision
  BY <1>15 DEF OpenDecision
<1>16. CASE OpenDecisionFails
  BY <1>16 DEF OpenDecisionFails
<1>17. CASE WriteDecision
  BY <1>17 DEF WriteDecision
<1>18. CASE RemoveRequest
  BY <1>18 DEF RemoveRequest
<1>19. CASE SayAnswer
  BY <1>19 DEF SayAnswer
<1>20. CASE BotCrashes
  BY <1>20 DEF BotCrashes
<1>21. CASE BootPending
  BY <1>21 DEF BootPending
<1>22. CASE BootDecision
  BY <1>22 DEF BootDecision
<1>23. CASE UNCHANGED vars
  BY <1>23 DEF vars
<1> QED
  BY <1>1, <1>2, <1>3, <1>4, <1>5, <1>6, <1>7, <1>8, <1>9, <1>10, <1>11,
     <1>12, <1>13, <1>14, <1>15, <1>16, <1>17, <1>18, <1>19, <1>20, <1>21,
     <1>22, <1>23
  DEF Next, HookMoves, BotMoves, UserMoves

\* IInv holds in every reachable state.
THEOREM Invariance == Spec => []IInv
  BY InitInv, NextInv, PTL DEF Spec

\* The gate's variables keep their types, whatever overlaps.
THEOREM TypeCorrect == Spec => []TypeOK
<1>1. IInv => TypeOK
  BY DEF IInv
<1> QED
  BY <1>1, Invariance, PTL

\* A command that asked runs only on an "allow" written after its hook had
\* cleared DECISION: no number of overlapping hooks, crashes of the bot,
\* kills and expiries lets an older answer through.
THEOREM NoStaleApproval == Spec => []AnsweredWhileWaiting
<1>1. IInv => AnsweredWhileWaiting
  BY DEF IInv, ReadIsFresh, ApprovedRead, AnsweredWhileWaiting
<1> QED
  BY <1>1, Invariance, PTL

\* A hook that ran to its end leaves no request in its name.
THEOREM RequestsEnd == Spec => []NoRequestOutlivesItsHook
<1>1. IInv => NoRequestOutlivesItsHook
  BY DEF IInv, RequestHasHook, NoRequestOutlivesItsHook
<1> QED
  BY <1>1, Invariance, PTL
=============================================================================
