-------------------------- MODULE FileIntakeProofs --------------------------
(***************************************************************************)
(* For every number of uploads and retries: notes stay whole, and a retry  *)
(* of an upload that was answered with an error repeats no analysis.  The  *)
(* invariant follows one upload through the service.                       *)
(***************************************************************************)
EXTENDS FileIntake, TLAPS

Saving == {"attach", "content", "fetch", "append"}
Refusals == {"apology", "error", "refused"}

\* Before it is saved, an upload has no note and its client no answer.
BeforeOK(u) ==
  /\ stage[u] = "new" => client[u] = "none"
  /\ stage[u] \in {"new", "accept", "analyse", "save"} =>
       note[u] = {} /\ copy[u] = {}
  /\ stage[u] = "save" => outcome[u] \in {"analysis", "apology"}

\* What the note holds; its analysis is the outcome.
NoteOK(u) ==
  /\ stage[u] \in Saving => note[u] # {}
  /\ stage[u] \in {"attach", "content"} => "link" \notin note[u]
  /\ stage[u] \in {"fetch", "append"} => file[u] = "full"
  /\ note[u] # {} => note[u] \cap {"analysis", "apology"} # {}
  /\ copy[u] \subseteq note[u]
  /\ "link" \in note[u] => file[u] = "full"
  /\ "analysis" \in note[u] => outcome[u] = "analysis"

\* What append_attachment_link read is a note.
CopyOK(u) ==
  stage[u] = "append" => copy[u] \cap {"analysis", "apology"} # {}

\* An answer is final and says what happened.
AnswerOK(u) ==
  client[u] \in Refusals => stage[u] = "done" /\ outcome[u] = client[u]

RetryOK(u) ==
  (RetryOf[u] # None /\ stage[u] # "new") =>
    client[RetryOf[u]] \in Refusals \cup {"silence"}

IInv ==
  /\ TypeOK
  /\ \A u \in Upload :
       BeforeOK(u) /\ NoteOK(u) /\ CopyOK(u) /\ AnswerOK(u) /\ RetryOK(u)

LocalOK(u) == BeforeOK(u) /\ NoteOK(u) /\ CopyOK(u) /\ AnswerOK(u)

\* A step of one upload's coroutine, client or reader.
StepOf(u) ==
  \/ Submit(u) \/ GiveUp(u) \/ Edit(u)
  \/ Refuse(u) \/ Accept(u) \/ Analyse(u) \/ AnalyseFails(u) \/ Reply(u)
  \/ SavingStep(u)

\* What a step of u leaves of another upload w.
LEMMA OthersKept ==
  ASSUME NEW u \in Upload, NEW w \in Upload \ {u}, TypeOK, StepOf(u)
  PROVE  /\ stage'[w] = stage[w] /\ outcome'[w] = outcome[w]
         /\ client'[w] = client[w] /\ note'[w] = note[w]
         /\ copy'[w] = copy[w] /\ file'[w] = file[w]
<1>1. CASE Submit(u)
  BY <1>1 DEF Submit, Goto, TypeOK
<1>2. CASE GiveUp(u)
  BY <1>2 DEF GiveUp, TypeOK
<1>3. CASE Edit(u)
  BY <1>3 DEF Edit, TypeOK
<1>4. CASE Refuse(u)
  BY <1>4 DEF Refuse, Goto, TypeOK
<1>5. CASE Accept(u)
  BY <1>5 DEF Accept, Goto, TypeOK
<1>6. CASE Analyse(u)
  BY <1>6 DEF Analyse, Goto, TypeOK
<1>7. CASE AnalyseFails(u)
  BY <1>7 DEF AnalyseFails, Goto, TypeOK
<1>8. CASE Reply(u)
  BY <1>8 DEF Reply, Goto, TypeOK
<1>9. CASE Save(u)
  BY <1>9 DEF Save, Goto, TypeOK
<1>10. CASE SaveFails(u)
  BY <1>10 DEF SaveFails, Goto, TypeOK
<1>11. CASE Attach(u)
  BY <1>11 DEF Attach, Goto, TypeOK
<1>12. CASE AttachFails(u)
  BY <1>12 DEF AttachFails, Goto, TypeOK
<1>13. CASE PutContent(u)
  BY <1>13 DEF PutContent, Goto, TypeOK
<1>14. CASE PutContentFails(u)
  BY <1>14 DEF PutContentFails, Goto, TypeOK
<1>15. CASE Fetch(u)
  BY <1>15 DEF Fetch, Goto, TypeOK
<1>16. CASE FetchFails(u)
  BY <1>16 DEF FetchFails, Goto, TypeOK
<1>17. CASE Append(u)
  BY <1>17 DEF Append, Goto, TypeOK
<1>18. CASE AppendFails(u)
  BY <1>18 DEF AppendFails, Goto, TypeOK
<1> QED BY <1>1, <1>2, <1>3, <1>4, <1>5, <1>6, <1>7, <1>8, <1>9, <1>10, <1>11, <1>12, <1>13, <1>14, <1>15, <1>16, <1>17, <1>18
       DEF StepOf, SavingStep

LEMMA TypeStep ==
  ASSUME TypeOK, NEW u \in Upload, BeforeOK(u), StepOf(u)
  PROVE  TypeOK'
<1>1. CASE Submit(u)
  BY <1>1 DEF Submit, Goto, TypeOK, Outcome, Part, InService
<1>2. CASE GiveUp(u)
  BY <1>2 DEF GiveUp, TypeOK, Outcome, Part, InService
<1>3. CASE Edit(u)
  BY <1>3 DEF Edit, TypeOK, Outcome, Part, InService
<1>4. CASE Refuse(u)
  BY <1>4 DEF Refuse, Goto, TypeOK, Outcome, Part, InService
<1>5. CASE Accept(u)
  BY <1>5 DEF Accept, Goto, TypeOK, Outcome, Part, InService
<1>6. CASE Analyse(u)
  BY <1>6 DEF Analyse, Goto, TypeOK, Outcome, Part, InService
<1>7. CASE AnalyseFails(u)
  BY <1>7 DEF AnalyseFails, Goto, TypeOK, Outcome, Part, InService
<1>8. CASE Reply(u)
  BY <1>8 DEF Reply, Goto, TypeOK, Outcome, Part, InService
<1>9. CASE Save(u)
  BY <1>9 DEF Save, Goto, TypeOK, BeforeOK, Part, InService
<1>10. CASE SaveFails(u)
  BY <1>10 DEF SaveFails, Goto, TypeOK, BeforeOK, Part, InService
<1>11. CASE Attach(u)
  BY <1>11 DEF Attach, Goto, TypeOK, Outcome, Part, InService
<1>12. CASE AttachFails(u)
  BY <1>12 DEF AttachFails, Goto, TypeOK, Outcome, Part, InService
<1>13. CASE PutContent(u)
  BY <1>13 DEF PutContent, Goto, TypeOK, Outcome, Part, InService
<1>14. CASE PutContentFails(u)
  BY <1>14 DEF PutContentFails, Goto, TypeOK, Outcome, Part, InService
<1>15. CASE Fetch(u)
  BY <1>15 DEF Fetch, Goto, TypeOK, Outcome, Part, InService
<1>16. CASE FetchFails(u)
  BY <1>16 DEF FetchFails, Goto, TypeOK, Outcome, Part, InService
<1>17. CASE Append(u)
  BY <1>17 DEF Append, Goto, TypeOK, Outcome, Part, InService
<1>18. CASE AppendFails(u)
  BY <1>18 DEF AppendFails, Goto, TypeOK, Outcome, Part, InService
<1> QED BY <1>1, <1>2, <1>3, <1>4, <1>5, <1>6, <1>7, <1>8, <1>9, <1>10, <1>11, <1>12, <1>13, <1>14, <1>15, <1>16, <1>17, <1>18
       DEF StepOf, SavingStep

\* A step keeps the invariant of the upload it is about.
LEMMA LocalStep ==
  ASSUME TypeOK, NEW u \in Upload, LocalOK(u), StepOf(u)
  PROVE  LocalOK(u)'
<1> USE DEF LocalOK, BeforeOK, NoteOK, CopyOK, AnswerOK, Refusals, Saving
<1>1. CASE Submit(u)
  BY <1>1 DEF Submit, Goto, TypeOK
<1>2. CASE GiveUp(u)
  BY <1>2 DEF GiveUp, TypeOK
<1>3. CASE Edit(u)
  BY <1>3 DEF Edit, TypeOK
<1>4. CASE Refuse(u)
  BY <1>4 DEF Refuse, Goto, TypeOK
<1>5. CASE Accept(u)
  BY <1>5 DEF Accept, Goto, TypeOK
<1>6. CASE Analyse(u)
  BY <1>6 DEF Analyse, Goto, TypeOK
<1>7. CASE AnalyseFails(u)
  BY <1>7 DEF AnalyseFails, Goto, TypeOK
<1>8. CASE Reply(u)
  BY <1>8 DEF Reply, Goto, TypeOK
<1>9. CASE Save(u)
  BY <1>9 DEF Save, Goto, TypeOK
<1>10. CASE SaveFails(u)
  BY <1>10 DEF SaveFails, Goto, TypeOK
<1>11. CASE Attach(u)
  BY <1>11 DEF Attach, Goto, TypeOK
<1>12. CASE AttachFails(u)
  BY <1>12 DEF AttachFails, Goto, TypeOK
<1>13. CASE PutContent(u)
  BY <1>13 DEF PutContent, Goto, TypeOK
<1>14. CASE PutContentFails(u)
  BY <1>14 DEF PutContentFails, Goto, TypeOK
<1>15. CASE Fetch(u)
  BY <1>15 DEF Fetch, Goto, TypeOK
<1>16. CASE FetchFails(u)
  BY <1>16 DEF FetchFails, Goto, TypeOK
<1>17. CASE Append(u)
  BY <1>17 DEF Append, Goto, TypeOK
<1>18. CASE AppendFails(u)
  BY <1>18 DEF AppendFails, Goto, TypeOK
<1> QED BY <1>1, <1>2, <1>3, <1>4, <1>5, <1>6, <1>7, <1>8, <1>9, <1>10, <1>11, <1>12, <1>13, <1>14, <1>15, <1>16, <1>17, <1>18
       DEF StepOf, SavingStep

LEMMA RestartStep ==
  ASSUME IInv, Restart
  PROVE  IInv'
<1>1. /\ stage' = [u \in Upload |-> IF stage[u] \in InService THEN "done"
                                     ELSE stage[u]]
      /\ client' = [u \in Upload |->
                      IF stage[u] \in InService /\ client[u] = "waiting"
                        THEN "silence" ELSE client[u]]
      /\ UNCHANGED <<outcome, note, copy, file>>
  BY Zenon DEF Restart
<1>2. TypeOK'
  BY <1>1 DEF IInv, TypeOK
<1>3. ASSUME NEW u \in Upload
      PROVE  LocalOK(u)' /\ RetryOK(u)'
  <2>1. /\ stage'[u] \in {stage[u], "done"}
        /\ \/ client'[u] = client[u]
           \/ client[u] = "waiting" /\ client'[u] = "silence"
        /\ \/ stage'[u] = stage[u]
           \/ stage[u] # "new" /\ stage'[u] = "done"
    BY <1>1 DEF InService
  <2>2. LocalOK(u)'
    BY <1>1, <2>1 DEF IInv, LocalOK, BeforeOK, NoteOK, CopyOK, AnswerOK,
                      Refusals, Saving, TypeOK
  <2>3. RetryOK(u)'
    <3>1. SUFFICES ASSUME RetryOf[u] # None, stage[u] # "new"
                   PROVE  client'[RetryOf[u]] \in Refusals \cup {"silence"}
      BY <2>1 DEF RetryOK
    <3>2. RetryOf[u] \in Upload
      BY <3>1, ConstantsAssumption
    <3>3. client[RetryOf[u]] \in Refusals \cup {"silence"}
      BY <3>1 DEF IInv, RetryOK
    <3> QED BY <1>1, <3>2, <3>3 DEF Refusals
  <2> QED BY <2>2, <2>3
<1> QED BY <1>2, <1>3 DEF IInv, LocalOK

\* A client that was told, or has given up, stays so.
LEMMA RetryStep ==
  ASSUME IInv, NEW u \in Upload, StepOf(u), NEW w \in Upload
  PROVE  RetryOK(w)'
<1>1. \A v \in Upload :
        client[v] \in Refusals \cup {"silence"} => client'[v] = client[v]
  <2> SUFFICES client[u] \in Refusals \cup {"silence"} =>
                 client'[u] = client[u]
    BY OthersKept DEF IInv
  <2> QED BY DEF StepOf, SavingStep, Submit, GiveUp, Edit, Refuse, Accept,
            Analyse, AnalyseFails, Reply, Save, SaveFails, Attach,
            AttachFails, PutContent, PutContentFails, Fetch, FetchFails,
            Append, AppendFails, Goto, IInv, TypeOK, BeforeOK, Refusals
<1>2. stage'[w] # "new" /\ stage[w] = "new" => u = w /\ Submit(u)
  <2>1. u # w => stage'[w] = stage[w]
    BY OthersKept DEF IInv
  <2>2. u = w /\ ~ Submit(u) => stage[u] # "new" \/ stage'[u] = stage[u]
    BY DEF StepOf, SavingStep, GiveUp, Edit, Refuse, Accept, Analyse,
           AnalyseFails, Reply, Save, SaveFails, Attach, AttachFails,
           PutContent, PutContentFails, Fetch, FetchFails, Append,
           AppendFails, Goto
  <2> QED BY <2>1, <2>2
<1>3. SUFFICES ASSUME RetryOf[w] # None, stage'[w] # "new"
               PROVE  client'[RetryOf[w]] \in Refusals \cup {"silence"}
  BY DEF RetryOK
<1>4. RetryOf[w] \in Upload
  BY <1>3, ConstantsAssumption
<1>5. client[RetryOf[w]] \in Refusals \cup {"silence"}
  BY <1>2, <1>3 DEF IInv, RetryOK, Submit, Refusals
<1> QED BY <1>1, <1>4, <1>5

\* The invariant holds for any uploads and retries.
THEOREM Invariance == Spec => []IInv
<1>1. Init => IInv
  BY DEF Init, IInv, TypeOK, BeforeOK, NoteOK, CopyOK, AnswerOK, RetryOK,
         Outcome, Refusals, Saving, InService
<1>2. IInv /\ [Next]_vars => IInv'
  <2> SUFFICES ASSUME IInv, [Next]_vars PROVE IInv'
    OBVIOUS
  <2>1. ASSUME NEW u \in Upload, StepOf(u) PROVE IInv'
    <3>1. TypeOK'
      BY <2>1, TypeStep DEF IInv
    <3>2. ASSUME NEW w \in Upload PROVE LocalOK(w)'
      <4>1. CASE w = u
        BY <2>1, <4>1, LocalStep DEF IInv, LocalOK
      <4>2. CASE w # u
        BY <2>1, <4>2, OthersKept
           DEF IInv, LocalOK, BeforeOK, NoteOK, CopyOK, AnswerOK
      <4> QED BY <4>1, <4>2
    <3> QED BY <2>1, <3>1, <3>2, RetryStep DEF IInv, LocalOK
  <2>2. CASE Restart
    BY <2>2, RestartStep
  <2>3. CASE UNCHANGED vars
    BY <2>3 DEF vars, IInv, TypeOK, BeforeOK, NoteOK, CopyOK, AnswerOK, RetryOK
  <2> QED BY <2>1, <2>2, <2>3 DEF Next, StepOf
<1> QED BY <1>1, <1>2, PTL DEF Spec

\* Every variable keeps its type.
THEOREM TypeCorrect == Spec => []TypeOK
<1>1. IInv => TypeOK
  BY DEF IInv
<1> QED BY <1>1, Invariance, PTL

\* No failure half-way leaves a link without its file, or costs an edit that
\* the service had read.
THEOREM NotesStayWhole == Spec => []NotesAreWhole
<1>1. IInv => NotesAreWhole
  BY DEF IInv, NoteOK, NotesAreWhole
<1> QED BY <1>1, Invariance, PTL

\* A second analysis of a file means that the first client heard nothing.
THEOREM RetriesSaveOnce == Spec => []SavedOnce
<1>1. IInv => SavedOnce
  <2> SUFFICES ASSUME IInv, NEW u \in Upload, RetryOf[u] # None,
                      "analysis" \in note[u], "analysis" \in note[RetryOf[u]]
               PROVE  client[RetryOf[u]] = "silence"
    BY DEF SavedOnce
  <2>1. RetryOf[u] \in Upload
    BY ConstantsAssumption
  <2>2. client[RetryOf[u]] \in Refusals \cup {"silence"}
    BY DEF IInv, RetryOK, BeforeOK
  <2>3. outcome[RetryOf[u]] = "analysis"
    BY <2>1 DEF IInv, NoteOK
  <2> QED BY <2>1, <2>2, <2>3 DEF IInv, AnswerOK, Refusals
<1> QED BY <1>1, Invariance, PTL
=============================================================================
