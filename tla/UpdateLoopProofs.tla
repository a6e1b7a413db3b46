-------------------------- MODULE UpdateLoopProofs --------------------------
(***************************************************************************)
(* For every number of updates, batch size and number of restarts: no      *)
(* update is handled twice but for a drain that failed, none is forgotten  *)
(* before it was handled or skipped, and none that a drain was to skip is  *)
(* handled.  The invariant is about Front, the first update this life of   *)
(* the bridge has not taken yet.                                           *)
(***************************************************************************)
EXTENDS UpdateLoop, TLAPS

Running == {"poll"} \cup InBatch

\* While the bridge is down, or drains, the next batch it takes begins behind
\* what the last one may have covered.
Front ==
  IF stage \in InBatch THEN next
  ELSE IF stage = "poll" THEN Confirmed + 1
  ELSE confirmed + Limit + 1

Done(u) == times[u] > 0 \/ u \in dropped

LoopOK ==
  /\ stage = "down" => starts < MaxStarts
  /\ stage \in InBatch =>
       /\ confirmed < next /\ next <= last + 1 /\ confirmed < last
       /\ last <= Sent /\ last <= confirmed + Limit
  /\ stage = "handle" => next <= last
  /\ stage = "switch" => offset = next
  /\ stage = "poll" => offset <= confirmed + Limit + 1 /\ offset <= Sent + 1

\* The updates at the front and beyond were taken in earlier lives only, each
\* of which cost a drain that failed.
TimesOK ==
  \A u \in Id :
    /\ times[u] <= failed + 1
    /\ u >= Front => times[u] <= failed
    /\ u > Sent => times[u] = 0

BehindOK ==
  /\ stage \in Running =>
       horizon < Front /\ \A u \in Id : u < Front => Done(u)
  /\ \A u \in Id : u <= confirmed => Done(u)

-----------------------------------------------------------------------------
(* Types.                                                                  *)

LEMMA InitType == Init => TypeOK
<1> SUFFICES ASSUME Init PROVE TypeOK
  OBVIOUS
<1>1. inbox \in Seq(Update) /\ Sent = 0 /\ uploads \in Seq(Id)
  BY DEF Init, Sent
<1>2. times \in [Id -> Nat] /\ ran \in [Id -> Mode \cup {None}]
  BY DEF Init
<1>3. /\ confirmed \in 0..Sent /\ offset \in 0..MaxUpdates + 1
      /\ next \in 1..MaxUpdates + 1 /\ last \in 0..MaxUpdates
      /\ starts \in 0..MaxStarts /\ horizon \in 0..MaxUpdates
      /\ Sent <= MaxUpdates /\ failed \in Nat
  BY <1>1, ConstantsAssumption DEF Init
<1>4. /\ stage \in {"down", "drain", "poll"} \cup InBatch
      /\ ask \in BOOLEAN /\ cut \in BOOLEAN /\ dropped \in SUBSET Id
      /\ modeFile \in Mode \cup {None} /\ want \in Mode
      /\ before \in Mode \cup {None}
  BY ConstantsAssumption DEF Init
<1> QED BY <1>1, <1>2, <1>3, <1>4 DEF TypeOK

\* Taking an update keeps the types of what it changes.
LEMMA TakeType ==
  ASSUME NEW kinds, TypeOK, LoopOK, Take(kinds)
  PROVE  /\ next \in Id /\ Current \in Update
         /\ offset' \in 0..MaxUpdates + 1
         /\ next' \in 1..MaxUpdates + 1
         /\ times' \in [Id -> Nat]
<1>1. next \in 1..Sent /\ Sent \in Nat /\ Sent <= MaxUpdates
  BY ConstantsAssumption DEF TypeOK, LoopOK, Take, InBatch, Sent
<1>2. next \in Id /\ next + 1 \in 1..MaxUpdates + 1
  BY <1>1, ConstantsAssumption DEF Id
<1>3. Current \in Update
  BY <1>1 DEF TypeOK, Current, Sent
<1>4. times[next] + 1 \in Nat
  BY <1>2 DEF TypeOK
<1> QED BY <1>2, <1>3, <1>4, ConstantsAssumption DEF TypeOK, Take, After

LEMMA TypeStep ==
  ASSUME TypeOK, LoopOK, [Next]_vars
  PROVE  TypeOK'
<1> USE ConstantsAssumption
<1>1. CASE Send
  <2>1. PICK u \in Update : inbox' = Append(inbox, u)
    BY <1>1 DEF Send
  <2>2. inbox' \in Seq(Update) /\ Len(inbox') = Len(inbox) + 1
    BY <2>1 DEF TypeOK
  <2> QED BY <1>1, <2>2 DEF Send, TypeOK, Sent, loopVars, modeVars, promptVars,
            ghostVars, InBatch
<1>2. CASE Ask
  BY <1>2 DEF Ask, TypeOK, Sent, telegramVars, loopVars, modeVars, promptVars,
            ghostVars
<1>3. CASE Crash
  BY <1>3 DEF Crash, TypeOK, Sent, telegramVars, ghostVars
<1>4. CASE Start
  <2>1. starts' \in 0..MaxStarts
    BY <1>4 DEF Start, TypeOK, LoopOK
  <2> QED BY <1>4, <2>1 DEF Start, TypeOK, Sent, telegramVars, loopVars,
            modeVars, promptVars, ghostVars
<1>5. CASE Drain
  <2>1. Lesser(Sent, confirmed + Limit) \in 0..MaxUpdates
    BY DEF Lesser, TypeOK, Sent
  <2>2. confirmed + 1 .. Lesser(Sent, confirmed + Limit) \subseteq Id
    BY <2>1 DEF Id, TypeOK, Sent
  <2> QED BY <1>5, <2>1, <2>2 DEF Drain, TypeOK, Sent, telegramVars, modeVars,
            promptVars
<1>6. CASE DrainFails
  BY <1>6 DEF DrainFails, TypeOK, Sent, telegramVars, modeVars, promptVars
<1>7. CASE Poll
  <2>1. Confirmed \in 0..Sent /\ Sent \in 0..MaxUpdates
    BY <1>7 DEF Confirmed, TypeOK, LoopOK, Sent, Poll
  <2>2. Confirmed < Sent =>
          /\ Confirmed + 1 \in 1..MaxUpdates + 1
          /\ Lesser(Sent, Confirmed + Limit) \in 0..MaxUpdates
    BY <2>1 DEF Lesser
  <2> QED BY <1>7, <2>1, <2>2 DEF Poll, TypeOK, Sent, InBatch, modeVars,
            promptVars, ghostVars
<1>8. CASE PollFails
  <2>1. Confirmed \in 0..Sent
    BY <1>8 DEF Confirmed, TypeOK, LoopOK, Sent, PollFails
  <2> QED BY <1>8, <2>1 DEF PollFails, TypeOK, Sent, loopVars, modeVars,
            promptVars, ghostVars
<1>9. CASE HandleOther
  BY <1>9, TakeType DEF HandleOther, GoOn, TypeOK, Sent, InBatch,
            telegramVars, modeVars, promptVars, ghostVars
<1>10. CASE HandleAnswer
  BY <1>10, TakeType DEF HandleAnswer, GoOn, TypeOK, Sent, InBatch,
            telegramVars, modeVars, promptVars, ghostVars
<1>11. CASE HandleMedia
  <2>1. next \in Id
    BY <1>11, TakeType DEF HandleMedia
  <2>2. uploads' \in Seq(Id)
    BY <1>11, <2>1 DEF HandleMedia, TypeOK
  <2> QED BY <1>11, <2>2, TakeType DEF HandleMedia, GoOn, TypeOK, Sent,
            InBatch, telegramVars, modeVars, ghostVars
<1>12. CASE HandlePrompt
  <2>1. ran' \in [Id -> Mode \cup {None}]
    BY <1>12, TakeType DEF HandlePrompt, GetMode, TypeOK
  <2> QED BY <1>12, <2>1, TakeType DEF HandlePrompt, GoOn, TypeOK, Sent,
            InBatch, telegramVars, modeVars, ghostVars
<1>13. CASE HandleSwitch
  <2>1. Current.mode \in Mode
    BY <1>13, TakeType DEF HandleSwitch, TakeSwitch
  <2> QED BY <1>13, <2>1, TakeType DEF HandleSwitch, TakeSwitch, TypeOK, Sent,
            InBatch, telegramVars, promptVars, ghostVars
<1>18. CASE SwitchFails
  <2>1. Current.mode \in Mode
    BY <1>18, TakeType DEF SwitchFails, TakeSwitch
  <2>2. before' \in Mode \cup {None}
    BY <1>18 DEF SwitchFails, GetMode, TypeOK
  <2> QED BY <1>18, <2>1, <2>2, TakeType DEF SwitchFails, TakeSwitch, GoOn,
            TypeOK, Sent, InBatch, telegramVars, promptVars, ghostVars
<1>14. CASE WriteMode \/ WriteFails
  BY <1>14 DEF WriteMode, WriteFails, SwitchDone, TypeOK, Sent, InBatch,
            telegramVars, loopVars, promptVars, ghostVars
<1>15. CASE RunUpload
  <2>1. Head(uploads) \in Id /\ Tail(uploads) \in Seq(Id)
    BY <1>15 DEF RunUpload, TypeOK
  <2>2. ran' \in [Id -> Mode \cup {None}]
    BY <1>15, <2>1 DEF RunUpload, GetMode, TypeOK
  <2> QED BY <1>15, <2>1, <2>2 DEF RunUpload, TypeOK, Sent, telegramVars,
            loopVars, modeVars, ghostVars
<1>16. CASE LoseUpload
  <2>1. Tail(uploads) \in Seq(Id)
    BY <1>16 DEF LoseUpload, TypeOK
  <2> QED BY <1>16, <2>1 DEF LoseUpload, TypeOK, Sent, telegramVars,
            loopVars, modeVars, ghostVars
<1>17. CASE UNCHANGED vars
  BY <1>17 DEF vars, TypeOK, Sent, telegramVars, loopVars, modeVars,
            promptVars, ghostVars
<1> QED BY <1>1, <1>2, <1>3, <1>4, <1>5, <1>6, <1>7, <1>8, <1>9, <1>10, <1>11,
          <1>12, <1>13, <1>14, <1>15, <1>16, <1>17, <1>18 DEF Next, LoopStep

-----------------------------------------------------------------------------
(* Where the loop is, how often an update was taken, what is behind it.    *)

Core == LoopOK /\ TimesOK /\ BehindOK

coreVars == <<inbox, confirmed, stage, starts, offset, next, last, times,
              dropped, failed, horizon>>

\* What the users' answers, the worker and set_mode do is not part of it.
LEMMA CoreKept ==
  ASSUME Core, UNCHANGED coreVars
  PROVE  Core'
BY DEF Core, coreVars, LoopOK, TimesOK, BehindOK, Front, Done, Confirmed, Sent

\* Taking an update moves the front by one.
LEMMA TakeCore ==
  ASSUME NEW kinds, TypeOK, Core, Take(kinds),
         \/ stage' = IF next = last THEN "poll" ELSE "handle"
         \/ stage' = "switch",
         UNCHANGED <<telegramVars, starts, last, ghostVars>>
  PROVE  Core'
<1> USE DEF telegramVars, ghostVars, Sent, Id
<1>1. /\ stage = "handle" /\ next \in Id /\ next <= last /\ last <= Sent
      /\ confirmed < next /\ last <= confirmed + Limit
      /\ next' = next + 1 /\ offset' = next + 1
  BY ConstantsAssumption
     DEF Take, After, TypeOK, Core, LoopOK, InBatch
<1>2. Front = next /\ Front' = next + 1
  <2>1. CASE stage' = "poll"
    BY <1>1, <2>1 DEF Front, Confirmed, InBatch, TypeOK
  <2>2. CASE stage' \in InBatch
    BY <1>1, <2>2 DEF Front, InBatch
  <2> QED BY <1>1, <2>1, <2>2 DEF InBatch, Front
<1>3. \A u \in Id : times'[u] = IF u = next THEN times[u] + 1 ELSE times[u]
  BY DEF Take, TypeOK
<1>4. LoopOK'
  BY <1>1, ConstantsAssumption DEF Core, LoopOK, TypeOK, InBatch
<1>5. TimesOK'
  <2>1. failed' = failed /\ Sent' = Sent /\ failed \in Nat
    BY DEF TypeOK
  <2>2. \A u \in Id : times[u] \in Nat
    BY DEF TypeOK
  <2>3. \A u \in Id : u >= next => times[u] <= failed
    BY <1>2 DEF Core, TimesOK
  <2>4. ASSUME NEW u \in Id
        PROVE  /\ times'[u] <= failed + 1
               /\ u >= next + 1 => times'[u] <= failed
               /\ u > Len(inbox) => times'[u] = 0
    <3>1. /\ times[u] <= failed + 1
          /\ u >= next => times[u] <= failed
          /\ u > Len(inbox) => times[u] = 0
      BY <1>2 DEF Core, TimesOK
    <3>2. CASE u = next
      <4>1. times'[u] = times[u] + 1 /\ u <= last /\ last <= Len(inbox)
        BY <1>1, <1>3, <3>2
      <4>2. times[u] <= failed /\ Len(inbox) \in Nat /\ last \in Nat
        BY <1>1, <2>3, <3>2 DEF TypeOK
      <4> QED BY <2>1, <2>2, <3>2, <4>1, <4>2
    <3>3. CASE u # next
      BY <1>1, <1>3, <3>1, <3>3
    <3> QED BY <3>2, <3>3
  <2> QED BY <1>2, <2>1, <2>4 DEF TimesOK
<1>6. BehindOK'
  <2>1. \A u \in Id : Done(u) \/ u = next => Done(u)'
    BY <1>3 DEF Done, TypeOK
  <2>2. stage \in Running
    BY <1>1 DEF Running, InBatch
  <2>3. horizon < next' /\ \A u \in Id : u < next' => u < next \/ u = next
    BY <1>1, <1>2, <2>2 DEF Core, BehindOK, TypeOK
  <2> QED BY <1>1, <1>2, <2>1, <2>2, <2>3 DEF Core, BehindOK
<1> QED BY <1>4, <1>5, <1>6 DEF Core

LEMMA InitCore == Init => Core
BY ConstantsAssumption
   DEF Init, Core, LoopOK, TimesOK, BehindOK, Front, Done, Running, InBatch,
       Sent, Id

LEMMA CoreStep ==
  ASSUME TypeOK, Core, [Next]_vars
  PROVE  Core'
<1> USE ConstantsAssumption DEF telegramVars, loopVars, modeVars, promptVars,
                                ghostVars
<1>1. CASE Send
  <2>1. Sent' = Sent + 1 /\ Front' = Front
    <3>1. PICK u \in Update : inbox' = Append(inbox, u)
      BY <1>1 DEF Send
    <3>2. Sent' = Sent + 1
      BY <3>1 DEF TypeOK, Sent
    <3> QED BY <1>1, <3>2 DEF Send, Front, Confirmed
  <2>2. UNCHANGED <<confirmed, stage, starts, offset, next, last, times,
                    dropped, failed, horizon>>
    BY <1>1 DEF Send
  <2>3. Sent \in Nat
    BY DEF TypeOK, Sent
  <2>4. LoopOK'
    BY <2>1, <2>2, <2>3 DEF TypeOK, Core, LoopOK
  <2>5. TimesOK'
    BY <2>1, <2>2, <2>3 DEF Core, TimesOK, Id
  <2>6. BehindOK'
    BY <2>1, <2>2 DEF Core, BehindOK, Done
  <2> QED BY <2>4, <2>5, <2>6 DEF Core
<1>2. CASE Ask
  BY <1>2, CoreKept DEF Ask, coreVars
<1>3. CASE Crash
  <2>1. Front' >= Front /\ stage' \notin Running
    <3>1. Front' = confirmed + Limit + 1 /\ stage' \notin Running
      BY <1>3 DEF Crash, Front, Running, InBatch
    <3>2. CASE stage \in InBatch
      BY <3>1, <3>2 DEF TypeOK, Core, LoopOK, Front, Sent
    <3>3. CASE stage = "poll"
      BY <3>1, <3>3
         DEF TypeOK, Core, LoopOK, Front, Confirmed, InBatch, Sent
    <3>4. CASE stage \notin InBatch \cup {"poll"}
      BY <3>1, <3>4 DEF TypeOK, Front, Sent
    <3> QED BY <3>1, <3>2, <3>3, <3>4
  <2>2. Front \in Int /\ Front' \in Int
    BY <1>3 DEF Crash, Front, Confirmed, TypeOK, Sent, InBatch
  <2>3. LoopOK'
    BY <1>3 DEF Crash, LoopOK, InBatch
  <2>4. TimesOK'
    BY <1>3, <2>1, <2>2 DEF Crash, Core, TimesOK, Sent, Id
  <2>5. BehindOK'
    BY <1>3, <2>1 DEF Crash, Core, BehindOK, Done
  <2> QED BY <2>3, <2>4, <2>5 DEF Core
<1>4. CASE Start
  <2>1. Front' = Front /\ stage' \notin Running
    BY <1>4 DEF Start, Front, Running, InBatch
  <2> QED BY <1>4, <2>1
          DEF Start, TypeOK, Core, LoopOK, TimesOK, BehindOK, Done, Sent,
              InBatch
<1>5. CASE Drain
  <2> DEFINE end == Lesser(Sent, confirmed + Limit)
  <2>1. /\ end \in Nat /\ confirmed <= end /\ end <= confirmed + Limit
        /\ end <= Sent
        /\ end = Sent \/ end = confirmed + Limit
    BY DEF Lesser, TypeOK, Sent
  <2>2. Front = confirmed + Limit + 1 /\ Front' = end + 1
    BY <1>5, <2>1 DEF Drain, Front, Confirmed, InBatch, TypeOK, Sent
  <2>3. LoopOK'
    <3>1. stage' = "poll" /\ offset' \in {0, end + 1}
      BY <1>5 DEF Drain
    <3>2. offset' <= confirmed + Limit + 1 /\ offset' <= Sent + 1
      BY <2>1, <3>1 DEF TypeOK, Sent
    <3> QED BY <1>5, <3>1, <3>2 DEF Drain, LoopOK, InBatch, Sent
  <2>4. TimesOK'
    BY <1>5, <2>1, <2>2 DEF Drain, Core, TimesOK, TypeOK, Sent, Id
  <2>5. BehindOK'
    BY <1>5, <2>1, <2>2 DEF Drain, Core, BehindOK, Done, TypeOK, Sent, Id
  <2> QED BY <2>3, <2>4, <2>5 DEF Core
<1>6. CASE DrainFails
  <2>1. Front' = confirmed + 1
    BY <1>6 DEF DrainFails, Front, Confirmed, InBatch, TypeOK, Sent
  <2> QED BY <1>6, <2>1
          DEF DrainFails, Core, LoopOK, TimesOK, BehindOK, Done, TypeOK, Sent,
              InBatch, Id
<1>7. CASE Poll
  <2>1. Confirmed \in Nat /\ Confirmed <= Sent /\ Front = Confirmed + 1
    BY <1>7 DEF Poll, Confirmed, Front, InBatch, TypeOK, Core, LoopOK, Sent
  <2>2. Front' = Confirmed + 1 /\ stage' \in {"poll", "handle"}
    BY <1>7, <2>1 DEF Poll, Confirmed, Front, InBatch, TypeOK, Sent
  <2>3. LoopOK'
    BY <1>7, <2>1
       DEF Poll, Lesser, Confirmed, Core, LoopOK, InBatch, TypeOK, Sent
  <2> QED BY <1>7, <2>1, <2>2, <2>3
          DEF Poll, Core, TimesOK, BehindOK, Done, TypeOK, Sent, Running, Id
<1>8. CASE PollFails
  <2>1. Confirmed \in Nat /\ Confirmed <= Sent /\ Front = Confirmed + 1
    BY <1>8 DEF PollFails, Confirmed, Front, InBatch, TypeOK, Core, LoopOK,
                Sent
  <2>2. Front' = Confirmed + 1
    BY <1>8, <2>1 DEF PollFails, Confirmed, Front, InBatch, TypeOK, Sent
  <2>3. LoopOK'
    BY <1>8, <2>1
       DEF PollFails, Confirmed, Core, LoopOK, InBatch, TypeOK, Sent
  <2> QED BY <1>8, <2>1, <2>2, <2>3
          DEF PollFails, Core, TimesOK, BehindOK, Done, TypeOK, Sent, Running,
              Id
<1>9. CASE HandleOther
  BY <1>9, TakeCore DEF HandleOther, GoOn
<1>10. CASE HandleAnswer
  BY <1>10, TakeCore DEF HandleAnswer, GoOn
<1>11. CASE HandleMedia
  BY <1>11, TakeCore DEF HandleMedia, GoOn
<1>12. CASE HandlePrompt
  BY <1>12, TakeCore DEF HandlePrompt, GoOn
<1>13. CASE HandleSwitch
  BY <1>13, TakeCore DEF HandleSwitch, TakeSwitch
<1>18. CASE SwitchFails
  BY <1>18, TakeCore DEF SwitchFails, TakeSwitch, GoOn
<1>14. CASE WriteMode \/ WriteFails
  <2>0. /\ stage = "switch" /\ stage' = IF next > last THEN "poll" ELSE "handle"
        /\ UNCHANGED <<inbox, confirmed, starts, offset, next, last, times,
                       dropped, failed, horizon>>
    BY <1>14 DEF WriteMode, WriteFails, SwitchDone
  <2>1. Front = next /\ Front' = next
    BY <2>0 DEF Front, Confirmed, InBatch, TypeOK, Core, LoopOK, Sent
  <2> QED BY <2>0, <2>1
          DEF Core, LoopOK, TimesOK, BehindOK, Done, TypeOK, Sent, Running,
              InBatch
<1>15. CASE RunUpload
  BY <1>15, CoreKept DEF RunUpload, coreVars
<1>16. CASE LoseUpload
  BY <1>16, CoreKept DEF LoseUpload, coreVars
<1>17. CASE UNCHANGED vars
  BY <1>17, CoreKept DEF vars, coreVars
<1> QED BY <1>1, <1>2, <1>3, <1>4, <1>5, <1>6, <1>7, <1>8, <1>9, <1>10, <1>11,
          <1>12, <1>13, <1>14, <1>15, <1>16, <1>17, <1>18 DEF Next, LoopStep

-----------------------------------------------------------------------------
(* The theorems.                                                           *)

IInv == TypeOK /\ Core

\* The invariant holds for every Mode, Update, MaxUpdates, Limit, MaxStarts.
THEOREM Invariance == Spec => []IInv
<1>1. Init => IInv
  BY InitType, InitCore DEF IInv
<1>2. IInv /\ [Next]_vars => IInv'
  BY TypeStep, CoreStep DEF IInv, Core
<1> QED BY <1>1, <1>2, PTL DEF Spec

\* The variables keep their types, and the bridge its number of starts.
THEOREM TypeCorrect == Spec => []TypeOK
<1>1. IInv => TypeOK
  BY DEF IInv
<1> QED BY <1>1, Invariance, PTL

\* No update is handled a second time unless a start-up drain failed.
THEOREM NoDoubleHandling == Spec => []HandledOnce
<1>1. IInv => HandledOnce
  BY DEF IInv, Core, TimesOK, HandledOnce, TypeOK, Id
<1> QED BY <1>1, Invariance, PTL

\* What Telegram has forgotten was handled, or skipped by a drain.
THEOREM NoUpdateForgotten == Spec => []NothingIsForgotten
<1>1. IInv => NothingIsForgotten
  BY ConstantsAssumption
     DEF IInv, Core, BehindOK, Done, TypeOK, Sent, Id, NothingIsForgotten
<1> QED BY <1>1, Invariance, PTL

\* Only an update at the front of a batch is taken.
LEMMA OnlyFrontIsTaken ==
  ASSUME TypeOK, [Next]_vars
  PROVE  \/ times' = times
         \/ stage = "handle" /\ \A u \in Id \ {next} : times'[u] = times[u]
BY DEF Next, LoopStep, Send, Ask, Crash, Start, Drain, DrainFails, Poll,
       PollFails, HandleOther, HandleAnswer, HandleMedia, HandlePrompt,
       HandleSwitch, SwitchFails, TakeSwitch, WriteMode, WriteFails, RunUpload,
       LoseUpload, Take, TypeOK, vars

\* Nothing that the present life's drain was to skip is handled.
THEOREM StaleUpdatesAreSkipped == Spec => StaleIsNotRun
<1>1. IInv /\ [Next]_vars =>
        [\A u \in 1..horizon : times'[u] = times[u]]_vars
  <2> SUFFICES ASSUME IInv, [Next]_vars, NEW u \in 1..horizon
               PROVE  times'[u] = times[u]
    OBVIOUS
  <2>1. u \in Id
    BY ConstantsAssumption DEF IInv, TypeOK, Id
  <2>2. stage = "handle" => horizon < next
    BY DEF IInv, Core, BehindOK, Front, Running, InBatch
  <2>3. next \in Nat /\ horizon \in Nat
    BY ConstantsAssumption DEF IInv, TypeOK
  <2> QED BY <2>1, <2>2, <2>3, OnlyFrontIsTaken DEF IInv
<1> QED BY <1>1, Invariance, PTL DEF Spec, StaleIsNotRun

-----------------------------------------------------------------------------
(* The mode.                                                               *)

\* The mode file is empty while the loop writes it; else it holds the mode
\* chosen last or, if it could not be opened, gives the one before, or it is
\* empty for a reason.
ModeOK ==
  /\ stage = "switch" => modeFile = None
  /\ \/ modeFile = want
     \/ before # None /\ GetMode = before
     \/ modeFile = None /\ (want = DefaultMode \/ cut \/ stage = "switch")

\* What GetMode returns then.
LEMMA GetModeIsWanted ==
  ASSUME ModeOK, TypeOK
  PROVE  \/ GetMode = want
         \/ before # None /\ GetMode = before
         \/ GetMode = DefaultMode /\ (stage = "switch" \/ cut)
BY ConstantsAssumption DEF ModeOK, TypeOK, GetMode

LEMMA ModeStep ==
  ASSUME TypeOK, ModeOK, [Next]_vars
  PROVE  ModeOK'
<1> USE DEF GetMode
<1>1. CASE \/ Send \/ Ask \/ RunUpload \/ LoseUpload \/ PollFails \/ UNCHANGED vars
  BY <1>1 DEF Send, Ask, RunUpload, LoseUpload, PollFails, vars, modeVars, ModeOK
<1>2. CASE Start \/ Drain \/ DrainFails \/ Poll
  BY <1>2 DEF Start, Drain, DrainFails, Poll, modeVars, ModeOK
<1>3. CASE HandleOther \/ HandleAnswer \/ HandleMedia \/ HandlePrompt
  BY <1>3 DEF HandleOther, HandleAnswer, HandleMedia, HandlePrompt, Take, GoOn,
              modeVars, ModeOK
<1>4. CASE HandleSwitch
  BY <1>4 DEF HandleSwitch, ModeOK
<1>5. CASE SwitchFails
  BY <1>5, ConstantsAssumption
     DEF SwitchFails, TakeSwitch, Take, GoOn, TypeOK, ModeOK
<1>6. CASE WriteMode
  BY <1>6 DEF WriteMode, SwitchDone, ModeOK
<1>7. CASE WriteFails
  BY <1>7 DEF WriteFails, SwitchDone, ModeOK
<1>8. CASE Crash
  BY <1>8 DEF Crash, ModeOK
<1> QED BY <1>1, <1>2, <1>3, <1>4, <1>5, <1>6, <1>7, <1>8 DEF Next, LoopStep

\* A prompt that starts to run does so in the mode the file gives.
LEMMA RunsInGetMode ==
  ASSUME TypeOK, [Next]_vars, NEW u \in Id, ran'[u] # ran[u]
  PROVE  ran'[u] = GetMode
<1>1. CASE HandlePrompt
  BY <1>1 DEF HandlePrompt, TypeOK
<1>2. CASE RunUpload
  BY <1>2 DEF RunUpload, TypeOK
<1>3. CASE ~ HandlePrompt /\ ~ RunUpload
  BY <1>3 DEF Next, LoopStep, Send, Ask, Crash, Start, Drain, DrainFails, Poll,
       PollFails, HandleOther, HandleAnswer, HandleMedia, HandleSwitch,
       SwitchFails, WriteMode, WriteFails, LoseUpload, promptVars, vars
<1> QED BY <1>1, <1>2, <1>3

\* A prompt runs in the mode the user chose last; in the one before, if
\* set_mode could not open the file; or in the default one while set_mode has
\* the file open, and after a write that failed or a death of the bridge there.
THEOREM ModeSticks == Spec => ModeIsSticky
<1>1. Init => ModeOK
  BY DEF Init, ModeOK
<1>2. Spec => []ModeOK
  BY <1>1, ModeStep, TypeCorrect, PTL DEF Spec
<1>3. TypeOK /\ ModeOK /\ [Next]_vars =>
        [\A u \in Id : ran'[u] # ran[u] =>
           \/ ran'[u] = want
           \/ before # None /\ ran'[u] = before
           \/ ran'[u] = DefaultMode /\ (stage = "switch" \/ cut)]_vars
  BY GetModeIsWanted, RunsInGetMode
<1> QED BY <1>2, <1>3, TypeCorrect, PTL DEF Spec, ModeIsSticky
=============================================================================
