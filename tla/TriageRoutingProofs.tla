------------------------- MODULE TriageRoutingProofs -------------------------
(***************************************************************************)
(* Theorems about TriageRouting for any number of handlers, any texts and  *)
(* any catalogs: the rows of the triage cache are canonical tags of their  *)
(* own version, an answer from the cache repeats a triage made under the   *)
(* version it is computed with, the agent chosen is one that may take the  *)
(* task, and the loader takes a catalog that the linter passed and that    *)
(* pads no word.                                                           *)
(***************************************************************************)
EXTENDS TriageRouting, FiniteSetTheorems, TLAPS

-----------------------------------------------------------------------------
(* Lemmas about NormalizeTags.                                             *)

\* Canonical tags are words.
LEMMA CanonsAreWords ==
  ASSUME NEW f \in Catalog, NEW w
  PROVE  NormalizeTags(w, f) \in SUBSET Word
<1>1. \A t \in f.tags : TagWords(t) \subseteq Word
  BY ConstantsAssumption
<1>2. \A t \in f.tags : CanonOf(t) \in Word
  BY <1>1 DEF TagWords
<1> QED
  BY <1>2 DEF NormalizeTags

\* In a catalog that BuildRegistry accepts, normalising canonical tags again
\* changes nothing: no word means two tags.
LEMMA NormalizeIsIdempotent ==
  ASSUME NEW f, IsValid(f), NEW w
  PROVE  NormalizeTags(NormalizeTags(w, f), f) = NormalizeTags(w, f)
<1> DEFINE Means(u, W) == \E x \in W : x \in TagWords(u)
           Meant == {u \in f.tags : Means(u, w)}
           N     == NormalizeTags(w, f)
           Again == {u \in f.tags : Means(u, N)}
<1>1. N = {CanonOf(t) : t \in Meant}
  BY DEF NormalizeTags
<1>2. NormalizeTags(N, f) = {CanonOf(t) : t \in Again}
  BY DEF NormalizeTags
<1>3. ASSUME NEW t \in f.tags, Means(t, N)
      PROVE  t \in Meant
  <2>1. PICK u \in Meant : CanonOf(u) \in TagWords(t)
    BY <1>1, <1>3
  <2>2. CanonOf(u) \in TagWords(t) \cap TagWords(u)
    BY <2>1 DEF TagWords
  <2> QED
    BY <2>1, <2>2 DEF IsValid
<1>4. ASSUME NEW t \in Meant
      PROVE  Means(t, N)
  BY <1>1 DEF TagWords
<1>5. Again = Meant
  <2> HIDE DEF N, Means
  <2> QED
    BY <1>3, <1>4
<1> HIDE DEF N, Meant, Again
<1> QED
  BY <1>1, <1>2, <1>5 DEF N

-----------------------------------------------------------------------------
(* Lemmas about scores: a fold over a finite set of postings.              *)

\* A set of numbers has a least one: the step of an induction, without a
\* parameter for the property that is proved.
LEMMA LeastCounterexample ==
  ASSUME NEW Bad \in SUBSET Nat, Bad # {}
  PROVE  \E n \in Bad : \A m \in Nat : m < n => m \notin Bad
<1>1. \E x \in Bad : \A y \in Bad : ~ (<<y, x>> \in OpToRel(<, Nat))
  BY NatLessThanWellFounded, WFMin
<1> QED
  BY <1>1 DEF OpToRel

\* One round of the recursion of MapThenSumSet.
SumStep(w, s, g) ==
  IF s = {} THEN 0
  ELSE w[CHOOSE x \in s : TRUE] + g[s \ {CHOOSE x \in s : TRUE}]

\* The recursion of MapThenSumSet over a finite set defines a function.
LEMMA SumExists ==
  ASSUME NEW S, IsFiniteSet(S), NEW w
  PROVE  \E g : g = [s \in SUBSET S |-> SumStep(w, s, g)]
<1> DEFINE Small(n) == {s \in SUBSET S : Cardinality(s) <= n}
           Bad == {n \in Nat : ~ \E g : g = [s \in Small(n) |-> SumStep(w, s, g)]}
<1>1. \A s \in SUBSET S : IsFiniteSet(s) /\ Cardinality(s) \in Nat
                          /\ Cardinality(s) <= Cardinality(S)
  BY FS_Subset, FS_CardinalityType
<1>2. ASSUME NEW s \in SUBSET S, s # {}
      PROVE  Cardinality(s \ {CHOOSE x \in s : TRUE}) = Cardinality(s) - 1
  <2>1. (CHOOSE x \in s : TRUE) \in s
    BY <1>2
  <2> QED
    BY <2>1, <1>1, FS_RemoveElement
<1>3. Bad = {}
  <2> SUFFICES ASSUME Bad # {} PROVE FALSE
    OBVIOUS
  <2>1. PICK n \in Bad : \A m \in Nat : m < n => m \notin Bad
    <3>1. Bad \in SUBSET Nat
      OBVIOUS
    <3> HIDE DEF Bad
    <3> QED
      BY <3>1, LeastCounterexample
  <2>2. CASE n = 0
    <3> DEFINE g == [s \in Small(0) |-> 0]
    <3>1. \A s \in Small(0) : s = {}
      BY <1>1, FS_EmptySet
    <3>2. g = [s \in Small(0) |-> SumStep(w, s, g)]
      BY <3>1 DEF SumStep
    <3> QED
      BY <2>1, <2>2, <3>2
  <2>3. CASE n # 0
    <3>0. n \in Nat /\ n - 1 \in Nat /\ n - 1 < n
      BY <2>3
    <3>1. PICK g : g = [s \in Small(n - 1) |-> SumStep(w, s, g)]
      BY <2>1, <3>0
    <3> DEFINE h == [s \in Small(n) |-> IF s \in Small(n - 1) THEN g[s]
                                        ELSE SumStep(w, s, g)]
    <3>2. Small(n - 1) \subseteq Small(n)
      BY <1>1, <3>0
    <3>3. ASSUME NEW s \in Small(n)
          PROVE  h[s] = SumStep(w, s, h)
      <4>1. h[s] = SumStep(w, s, g)
        BY <3>1
      <4>2. CASE s = {}
        BY <4>1, <4>2 DEF SumStep
      <4>3. CASE s # {}
        <5> DEFINE r == s \ {CHOOSE x \in s : TRUE}
        <5>1. r \in Small(n - 1)
          BY <1>1, <1>2, <3>0, <4>3
        <5>2. h[r] = g[r]
          BY <3>2, <5>1
        <5> QED
          BY <4>1, <4>3, <5>2 DEF SumStep
      <4> QED
        BY <4>2, <4>3
    <3>4. h = [s \in Small(n) |-> h[s]]
      OBVIOUS
    <3>5. h = [s \in Small(n) |-> SumStep(w, s, h)]
      <4> HIDE DEF h, Small
      <4> QED
        BY <3>3, <3>4
    <3> HIDE DEF h, Small
    <3> QED
      BY <2>1, <3>5
  <2> QED
    BY <2>2, <2>3
<1>4. SUBSET S = Small(Cardinality(S)) /\ Cardinality(S) \in Nat
  BY <1>1
<1>5. \E g : g = [s \in Small(Cardinality(S)) |-> SumStep(w, s, g)]
  BY <1>3, <1>4
<1> HIDE DEF Small
<1> QED
  BY <1>4, <1>5

\* A sum of whole numbers over a finite set is a whole number.
LEMMA SumIsInt ==
  ASSUME NEW S, IsFiniteSet(S), NEW w, \A x \in S : w[x] \in Int,
         NEW g, g = [s \in SUBSET S |-> SumStep(w, s, g)]
  PROVE  g[S] \in Int
<1> DEFINE Bad == {n \in Nat : \E s \in SUBSET S : Cardinality(s) = n /\ g[s] \notin Int}
<1>1. \A s \in SUBSET S : IsFiniteSet(s) /\ Cardinality(s) \in Nat
  BY FS_Subset, FS_CardinalityType
<1>2. Bad = {}
  <2> SUFFICES ASSUME Bad # {} PROVE FALSE
    OBVIOUS
  <2>1. PICK n \in Bad : \A m \in Nat : m < n => m \notin Bad
    <3>1. Bad \in SUBSET Nat
      OBVIOUS
    <3> HIDE DEF Bad
    <3> QED
      BY <3>1, LeastCounterexample
  <2>2. PICK s \in SUBSET S : Cardinality(s) = n /\ g[s] \notin Int
    BY <2>1
  <2>3. g[s] = SumStep(w, s, g)
    OBVIOUS
  <2>4. s # {}
    BY <2>2, <2>3 DEF SumStep
  <2> DEFINE x == CHOOSE y \in s : TRUE
             r == s \ {x}
  <2>5. x \in s
    BY <2>4
  <2>6. Cardinality(r) = Cardinality(s) - 1 /\ r \in SUBSET S
    BY <2>5, <1>1, FS_RemoveElement
  <2>7. g[r] \in Int
    BY <2>1, <2>2, <2>6, <1>1
  <2>8. g[s] = w[x] + g[r]
    BY <2>3, <2>4 DEF SumStep
  <2> QED
    BY <2>2, <2>5, <2>7, <2>8
<1> QED
  BY <1>1, <1>2

\* What a finite set is mapped to is finite.
LEMMA ImageIsFinite ==
  ASSUME NEW S, IsFiniteSet(S), NEW g
  PROVE  IsFiniteSet({g[x] : x \in S})
<1> DEFINE T == {g[x] : x \in S}
           h == [x \in S |-> g[x]]
<1>1. h \in Surjection(S, T)
  BY DEF Surjection
<1> QED
  BY <1>1, FS_Surjection

\* Finitely many tags and skills make finitely many postings.
LEMMA PostingsAreFinite ==
  ASSUME NEW f, IsCatalog(f), NEW tags
  PROVE  IsFiniteSet(Postings(tags, f))
<1> DEFINE Pairs == f.skills \X f.tags
           P     == [skill : f.skills, tag : f.tags]
           g     == [x \in Pairs |-> [skill |-> x[1], tag |-> x[2]]]
<1>1. IsFiniteSet(Pairs)
  BY FS_Product DEF IsCatalog
<1>2. P = {g[x] : x \in Pairs}
  <2>1. \A p \in P : p = g[<<p.skill, p.tag>>] /\ <<p.skill, p.tag>> \in Pairs
    OBVIOUS
  <2>2. \A x \in Pairs : g[x] \in P
    OBVIOUS
  <2> HIDE DEF P, g, Pairs
  <2> QED
    BY <2>1, <2>2
<1>3. IsFiniteSet(P)
  <2> HIDE DEF P, g, Pairs
  <2> QED
    BY <1>1, <1>2, ImageIsFinite
<1>4. Postings(tags, f) \subseteq P
  BY DEF Postings
<1> QED
  BY <1>3, <1>4, FS_Subset

\* Scores of whole weights are whole numbers, so that any two compare.
LEMMA ScoreIsInt ==
  ASSUME NEW f, IsCatalog(f), NEW name, NEW tags
  PROVE  AgentScore(name, tags, f) \in Int
<1> DEFINE S == PostingsOf(name, tags, f)
           w == [p \in S |-> p.tag.weight * p.skill.weight]
           Sum == CHOOSE g : g = [s \in SUBSET S |-> SumStep(w, s, g)]
<1>1. S \subseteq Postings(tags, f) /\ S \subseteq [skill : f.skills, tag : f.tags]
  BY DEF PostingsOf, Postings
<1>2. IsFiniteSet(S)
  BY <1>1, PostingsAreFinite, FS_Subset
<1>3. \A p \in S : w[p] \in Int
  BY <1>1 DEF IsCatalog
<1>4. AgentScore(name, tags, f) = Sum[S]
  BY ZenonT(60) DEF AgentScore, MapThenSumSet, MapThenFoldSet, SumStep
<1> HIDE DEF S, w
<1>5. Sum = [s \in SUBSET S |-> SumStep(w, s, Sum)]
  BY <1>2, SumExists
<1> HIDE DEF Sum
<1> QED
  BY <1>2, <1>3, <1>4, <1>5, SumIsInt

-----------------------------------------------------------------------------
(* Lemmas about the matcher's choice.                                      *)

Beats(a, b, tags, f) ==
  \/ AgentScore(a, tags, f) > AgentScore(b, tags, f)
  \/ AgentScore(a, tags, f) = AgentScore(b, tags, f) /\ a < b

\* Candidates are active agents that cover a tag.
LEMMA CandidateCovers ==
  ASSUME NEW f, NEW tags, NEW a \in Candidates(tags, f)
  PROVE  IsActiveAgent(a, f) /\ Covered(a, TagCanons(f), f) # {}
<1>1. PICK p \in Postings(tags, f) : p.skill.agent = a
  BY DEF Candidates
<1>2. /\ p \in [skill : f.skills, tag : f.tags]
      /\ CanonOf(p.tag) \in SkillTags(p.skill)
      /\ p.tag.active
      /\ IsIndexed(p.skill, f)
  BY DEF Postings
<1>3. p \in PostingsOf(a, TagCanons(f), f)
  <2>1. p.tag \in f.tags /\ CanonOf(p.tag) \in TagCanons(f)
    BY <1>2 DEF TagCanons
  <2>2. p \in Postings(TagCanons(f), f)
    BY <1>2, <2>1 DEF Postings
  <2> QED
    BY <1>1, <2>2 DEF PostingsOf
<1>4. Covered(a, TagCanons(f), f) # {}
  BY <1>3 DEF Covered
<1>5. IsActiveAgent(a, f)
  BY <1>1, <1>2 DEF IsIndexed, IsActiveAgent
<1> QED
  BY <1>4, <1>5

\* Some candidate beats all the others: the first by name of those with the
\* highest score, so that matcher.Match has exactly one answer to give.
LEMMA SomeCandidateIsBest ==
  ASSUME NEW f, IsCatalog(f), NEW tags, Candidates(tags, f) # {}
  PROVE  \E a \in Candidates(tags, f) :
           \A b \in Candidates(tags, f) \ {a} : Beats(a, b, tags, f)
<1> DEFINE C == Candidates(tags, f)
           Best(T, a) == \A b \in T \ {a} : Beats(a, b, tags, f)
           Bad == {n \in Nat : \E T \in SUBSET C :
                      Cardinality(T) = n /\ T # {} /\ ~ \E a \in T : Best(T, a)}
<1>1. IsFiniteSet(C)
  <2> DEFINE P == Postings(tags, f)
             g == [p \in P |-> p.skill.agent]
  <2>1. C = {g[p] : p \in P}
    BY DEF Candidates
  <2>2. IsFiniteSet(P)
    BY PostingsAreFinite
  <2> HIDE DEF C, P, g
  <2> QED
    BY <2>1, <2>2, ImageIsFinite
<1>2. \A T \in SUBSET C : IsFiniteSet(T) /\ Cardinality(T) \in Nat
  BY <1>1, FS_Subset, FS_CardinalityType
<1>3. \A a \in C : a \in Int /\ AgentScore(a, tags, f) \in Int
  BY ScoreIsInt, CandidateCovers DEF IsCatalog, IsActiveAgent
<1>4. \A a, b, c \in C : /\ a # b => Beats(a, b, tags, f) \/ Beats(b, a, tags, f)
                         /\ Beats(a, b, tags, f) /\ Beats(b, c, tags, f)
                              => Beats(a, c, tags, f)
  BY <1>3 DEF Beats
<1>5. Bad = {}
  <2> SUFFICES ASSUME Bad # {} PROVE FALSE
    OBVIOUS
  <2>1. PICK n \in Bad : \A m \in Nat : m < n => m \notin Bad
    <3>1. Bad \in SUBSET Nat
      OBVIOUS
    <3> HIDE DEF Bad
    <3> QED
      BY <3>1, LeastCounterexample
  <2>2. PICK T \in SUBSET C : Cardinality(T) = n /\ T # {} /\ ~ \E a \in T : Best(T, a)
    BY <2>1
  <2>3. PICK a \in T : TRUE
    BY <2>2
  <2> DEFINE R == T \ {a}
  <2>4. Cardinality(R) = n - 1 /\ R \in SUBSET C /\ n - 1 \in Nat /\ n - 1 < n
    <3>1. R \in SUBSET C
      BY <2>2
    <3>2. Cardinality(R) \in Nat /\ Cardinality(T) \in Nat
      BY <1>2, <3>1
    <3>3. Cardinality(R) = Cardinality(T) - 1
      BY <1>2, FS_RemoveElement
    <3> HIDE DEF R, C
    <3> QED
      BY <2>2, <3>1, <3>2, <3>3
  <2>5. CASE R = {}
    BY <2>2, <2>5
  <2>6. CASE R # {}
    <3>0. n - 1 \notin Bad
      BY <2>1, <2>4
    <3>1. PICK b \in R : Best(R, b)
      BY <3>0, <2>4, <2>6
    <3>2. CASE Beats(a, b, tags, f)
      BY <1>4, <2>2, <3>1, <3>2
    <3>3. CASE Beats(b, a, tags, f)
      BY <1>4, <2>2, <3>1, <3>3
    <3> QED
      BY <1>4, <3>2, <3>3
  <2> QED
    BY <2>5, <2>6
<1>6. Cardinality(C) \in Nat
  BY <1>1, FS_CardinalityType
<1> QED
  BY <1>5, <1>6

\* What matcher.Match answers without a pin is an active agent that covers a
\* tag of the catalog.
LEMMA ChosenIsCandidate ==
  ASSUME NEW f, IsCatalog(f), NEW tags, Chosen(tags, NoAgent, f) # NoAgent
  PROVE  Chosen(tags, NoAgent, f) \in Candidates(tags, f)
<1>1. Candidates(tags, f) # {}
  BY DEF Chosen
<1>2. Chosen(tags, NoAgent, f) =
        CHOOSE a \in Candidates(tags, f) :
          \A b \in Candidates(tags, f) \ {a} : Beats(a, b, tags, f)
  BY <1>1 DEF Chosen, Beats
<1> QED
  BY <1>1, <1>2, SomeCandidateIsBest

-----------------------------------------------------------------------------
(* The inductive invariant.                                                *)

Place == {"new", "load", "cache", "upsert", "store", "end"}

AnswerIsFunction == answer = [h \in Handler |-> answer[h]]

\* What the variables are functions of, and that the active registry is valid.
Shapes ==
  /\ file \in Catalog
  /\ reg \in Catalog
  /\ IsValid(reg)
  /\ cache \in [Text -> Row \cup {None}]
  /\ pc \in [Handler -> Place]
  /\ snap \in [Handler -> Catalog \cup {None}]
  /\ req \in [Handler -> Request \cup {None}]
  /\ AnswerIsFunction

\* What a handler holds at its place.
HandlerHolds(h) ==
  /\ pc[h] \in {"load", "cache", "upsert"} => req[h] \in Request
  /\ pc[h] \in {"cache", "upsert", "store"} => snap[h] \in Catalog
  /\ pc[h] \in {"cache", "upsert"} => IsValid(snap[h])
  /\ pc[h] = "upsert" => NormalizeTags(req[h].tags, snap[h]) # {}
  /\ answer[h].path = "cached" => pc[h] = "end"

\* A row is canonical, and some triage of its text gave what it gives.
RowIsTriaged(x) ==
  cache[x] # None =>
    /\ IsValid(cache[x].version)
    /\ cache[x].tags # {}
    /\ cache[x].tags = NormalizeTags(cache[x].tags, cache[x].version)
    /\ \E t \in triaged :
         /\ t.text = x
         /\ t.version = cache[x].version
         /\ t.chosen = Chosen(cache[x].tags, NoAgent, cache[x].version)

Repeats(h) ==
  answer[h].path = "cached" =>
    \E t \in triaged : /\ t.text = req[h].text
                       /\ t.version = snap[h]
                       /\ t.chosen = answer[h].chosen

IInv ==
  /\ Shapes
  /\ \A h \in Handler : HandlerHolds(h)
  /\ \A x \in Text : RowIsTriaged(x)
  /\ \A h \in Handler : Repeats(h)

\* The invariant holds before the first request arrives.
LEMMA InitIInv == Init => IInv
<1> SUFFICES ASSUME Init PROVE IInv
  OBVIOUS
<1>0. AnswerIsFunction
  BY DEF Init, AnswerIsFunction
<1>1. Shapes
  <2>1. file \in Catalog /\ reg \in Catalog /\ IsValid(reg)
    BY DEF Init
  <2>2. cache \in [Text -> Row \cup {None}]
    BY DEF Init
  <2>3. pc \in [Handler -> Place]
    BY DEF Init, Place
  <2>4. snap \in [Handler -> Catalog \cup {None}]
    BY DEF Init
  <2>5. req \in [Handler -> Request \cup {None}]
    BY DEF Init
  <2> QED
    BY <1>0, <2>1, <2>2, <2>3, <2>4, <2>5 DEF Shapes
<1>2. \A h \in Handler : HandlerHolds(h) /\ Repeats(h)
  BY DEF Init, HandlerHolds, Repeats, NoAnswer
<1>3. \A x \in Text : RowIsTriaged(x)
  BY DEF Init, RowIsTriaged
<1> QED
  BY <1>1, <1>2, <1>3 DEF IInv

\* A handler's own step leaves the other handlers what they hold.
LEMMA OthersHold ==
  ASSUME IInv, NEW h \in Handler, NEW g \in Handler, g # h,
         pc'[g] = pc[g], snap'[g] = snap[g], req'[g] = req[g],
         answer'[g] = answer[g], triaged \subseteq triaged'
  PROVE  HandlerHolds(g)' /\ Repeats(g)'
BY DEF IInv, HandlerHolds, Repeats

\* A reply changes one handler's answer.
LEMMA OneAnswers ==
  ASSUME AnswerIsFunction, NEW h \in Handler, NEW e,
         answer' = [answer EXCEPT ![h] = e]
  PROVE  /\ AnswerIsFunction'
         /\ answer'[h] = e
         /\ \A g \in Handler \ {h} : answer'[g] = answer[g]
<1> DEFINE A == [g \in Handler |-> IF g = h THEN e ELSE answer[g]]
<1>1. answer' = A
  BY DEF AnswerIsFunction
<1> QED
  BY <1>1 DEF AnswerIsFunction

\* Every request, handler step and edit preserves the invariant.
LEMMA NextIInv == IInv /\ [Next]_vars => IInv'
<1> SUFFICES ASSUME IInv, [Next]_vars PROVE IInv'
  OBVIOUS
<1>h. Route \subseteq Handler /\ Callback \subseteq Handler /\ Reload \subseteq Handler
  BY DEF Handler
<1> USE <1>h
<1>s. AnswerIsFunction
  BY DEF IInv, Shapes
<1>u. UNCHANGED answer => AnswerIsFunction'
  BY <1>s DEF AnswerIsFunction
<1>e. ASSUME NEW h \in Handler,
             UNCHANGED answer \/ \E e : answer' = [answer EXCEPT ![h] = e]
      PROVE  AnswerIsFunction' /\ \A g \in Handler \ {h} : answer'[g] = answer[g]
  BY <1>e, <1>s, <1>u, OneAnswers
<1>r. \A x \in Text : (cache'[x] = cache[x] /\ triaged \subseteq triaged')
                         => RowIsTriaged(x)'
  BY DEF IInv, RowIsTriaged
<1>1. ASSUME NEW h \in Route \cup Callback, NEW q \in Request, Receive(h, q)
      PROVE  IInv'
  <2>1. Shapes'
    BY <1>1, <1>u DEF IInv, Shapes, Place, Receive, Goto, sharedVars
  <2>2. HandlerHolds(h)' /\ Repeats(h)'
    BY <1>1 DEF IInv, Shapes, Place, HandlerHolds, Repeats, Receive, Goto
  <2>3. \A g \in Handler \ {h} : HandlerHolds(g)' /\ Repeats(g)'
    BY <1>1, OthersHold DEF IInv, Shapes, Place, Receive, Goto
  <2>4. \A x \in Text : RowIsTriaged(x)'
    BY <1>1, <1>r DEF Receive, sharedVars
  <2> QED
    BY <2>1, <2>2, <2>3, <2>4 DEF IInv
<1>2. ASSUME NEW h \in Route, RouteLoads(h)
      PROVE  IInv'
  <2>a. /\ pc[h] = "load"
        /\ snap' = [snap EXCEPT ![h] = reg]
        /\ UNCHANGED <<file, reg, cache, req, triaged>>
    BY <1>2 DEF RouteLoads, Load, sharedVars
  <2>b. \E to \in Place : pc' = [pc EXCEPT ![h] = to]
    BY <1>2 DEF RouteLoads, Goto, Place
  <2>c. \/ UNCHANGED answer
        \/ \E e : e.path # "cached" /\ answer' = [answer EXCEPT ![h] = e]
    BY <1>2 DEF RouteLoads, Match, Answer, NoAnswer
  <2>d. AnswerIsFunction' /\ \A g \in Handler \ {h} : answer'[g] = answer[g]
    BY <2>c, <1>e
  <2>0. req[h] \in Request /\ answer'[h].path # "cached"
    <3>1. answer[h].path # "cached" /\ req[h] \in Request
      BY <2>a DEF IInv, HandlerHolds
    <3> QED
      BY <3>1, <2>c, <1>s, OneAnswers
  <2>1. Shapes'
    BY <2>a, <2>b, <2>d DEF IInv, Shapes
  <2>2. HandlerHolds(h)' /\ Repeats(h)'
    BY <1>2, <2>0 DEF IInv, Shapes, Place, HandlerHolds, Repeats, RouteLoads, Goto, Load, sharedVars
  <2>3. \A g \in Handler \ {h} : HandlerHolds(g)' /\ Repeats(g)'
    BY <2>a, <2>b, <2>d, OthersHold DEF IInv, Shapes
  <2>4. \A x \in Text : RowIsTriaged(x)'
    BY <1>2, <1>r DEF RouteLoads, sharedVars
  <2> QED
    BY <2>1, <2>2, <2>3, <2>4 DEF IInv
<1>3. ASSUME NEW h \in Route, RouteLooksUp(h)
      PROVE  IInv'
  <2> DEFINE row == cache[req[h].text]
             tags == NormalizeTags(row.tags, snap[h])
             chosen == Chosen(tags, NoAgent, snap[h])
  <2>0. req[h] \in Request /\ pc[h] = "cache" /\ req[h].text \in Text
    BY <1>3 DEF IInv, HandlerHolds, RouteLooksUp, Goto, Request
  <2>a. /\ pc' = [pc EXCEPT ![h] = "end"]
        /\ UNCHANGED <<file, reg, cache, snap, req, triaged>>
    BY <1>3 DEF RouteLooksUp, Goto, sharedVars
  <2>b. \/ answer' = [answer EXCEPT ![h] = [path |-> "slow", chosen |-> NoAgent]]
        \/ /\ answer' = [answer EXCEPT ![h] = [path |-> "cached", chosen |-> chosen]]
           /\ row # None
           /\ row.version = snap[h]
    BY <1>3 DEF RouteLooksUp, Match, Answer
  <2>c. AnswerIsFunction' /\ \A g \in Handler \ {h} : answer'[g] = answer[g]
    BY <2>b, <1>e
  <2> HIDE DEF chosen, row
  <2>1. Shapes'
    BY <2>a, <2>c DEF IInv, Shapes, Place
  <2>2. HandlerHolds(h)'
    BY <2>a DEF IInv, Shapes, Place, HandlerHolds
  <2>3. ASSUME answer'[h].path = "cached"
        PROVE  \E t \in triaged : /\ t.text = req[h].text
                                  /\ t.version = snap[h]
                                  /\ t.chosen = answer'[h].chosen
    <3>1. /\ answer'[h].chosen = chosen
          /\ row # None
          /\ row.version = snap[h]
      BY <2>b, <2>3, <1>s, OneAnswers
    <3>2. PICK t \in triaged : /\ t.text = req[h].text
                               /\ t.version = row.version
                               /\ t.chosen = Chosen(row.tags, NoAgent, row.version)
      BY <2>0, <3>1 DEF IInv, RowIsTriaged, row
    <3>3. row.tags = NormalizeTags(row.tags, row.version)
      BY <2>0, <3>1 DEF IInv, RowIsTriaged, row
    <3>4. chosen = Chosen(row.tags, NoAgent, row.version)
      BY <3>1, <3>3 DEF chosen
    <3> QED
      BY <3>1, <3>2, <3>4
  <2>4. Repeats(h)'
    BY <2>3, <2>a DEF Repeats
  <2>5. \A g \in Handler \ {h} : HandlerHolds(g)' /\ Repeats(g)'
    BY <2>a, <2>c, OthersHold DEF IInv, Shapes
  <2>6. \A x \in Text : RowIsTriaged(x)'
    BY <2>a, <1>r
  <2> QED
    BY <2>1, <2>2, <2>4, <2>5, <2>6 DEF IInv
<1>4. ASSUME NEW c \in Callback, CallbackLoads(c)
      PROVE  IInv'
  <2>a. /\ pc[c] = "load"
        /\ snap' = [snap EXCEPT ![c] = reg]
        /\ UNCHANGED <<file, reg, cache, req, triaged>>
    BY <1>4 DEF CallbackLoads, Load, sharedVars
  <2>b. \E to \in Place : pc' = [pc EXCEPT ![c] = to]
    BY <1>4 DEF CallbackLoads, Goto, Place
  <2>c. \/ UNCHANGED answer
        \/ \E e : e.path # "cached" /\ answer' = [answer EXCEPT ![c] = e]
    BY <1>4 DEF CallbackLoads, Answer, NoAnswer
  <2>d. AnswerIsFunction' /\ \A g \in Handler \ {c} : answer'[g] = answer[g]
    BY <2>c, <1>e
  <2>0. req[c] \in Request /\ answer'[c].path # "cached"
    <3>1. answer[c].path # "cached" /\ req[c] \in Request
      BY <2>a DEF IInv, HandlerHolds
    <3> QED
      BY <3>1, <2>c, <1>s, OneAnswers
  <2>1. Shapes'
    BY <2>a, <2>b, <2>d DEF IInv, Shapes
  <2>2. HandlerHolds(c)' /\ Repeats(c)'
    BY <1>4, <2>0 DEF IInv, Shapes, Place, HandlerHolds, Repeats, CallbackLoads, Goto, Load, sharedVars
  <2>3. \A g \in Handler \ {c} : HandlerHolds(g)' /\ Repeats(g)'
    BY <2>a, <2>b, <2>d, OthersHold DEF IInv, Shapes
  <2>4. \A x \in Text : RowIsTriaged(x)'
    BY <1>4, <1>r DEF CallbackLoads, sharedVars
  <2> QED
    BY <2>1, <2>2, <2>3, <2>4 DEF IInv
<1>5. ASSUME NEW c \in Callback, CallbackStores(c)
      PROVE  IInv'
  <2> DEFINE x == req[c].text
             f == snap[c]
             tags == NormalizeTags(req[c].tags, f)
             chosen == Chosen(tags, NoAgent, f)
             row == [tags |-> tags, version |-> f]
             done == [text |-> x, version |-> f, chosen |-> chosen]
  <2>0. /\ req[c] \in Request
        /\ pc[c] = "upsert"
        /\ x \in Text
        /\ f \in Catalog
        /\ IsValid(f)
        /\ tags # {}
    BY <1>5 DEF IInv, HandlerHolds, CallbackStores, Goto, Request
  <2>a. /\ pc' = [pc EXCEPT ![c] = "end"]
        /\ answer' = [answer EXCEPT ![c] = [path |-> "ok", chosen |-> chosen]]
        /\ UNCHANGED <<file, reg, snap, req>>
        /\ \/ /\ cache' = [cache EXCEPT ![x] = row]
              /\ triaged' = triaged \cup {done}
           \/ UNCHANGED <<cache, triaged>>
    BY <1>5 DEF CallbackStores, Goto, Answer
  <2>b. row \in Row
    BY <2>0, CanonsAreWords DEF Row
  <2>c. NormalizeTags(tags, f) = tags
    BY <2>0, NormalizeIsIdempotent
  <2> HIDE DEF row, done, chosen, tags
  <2>d. AnswerIsFunction' /\ \A g \in Handler \ {c} : answer'[g] = answer[g]
    BY <2>a, <1>e
  <2>1. Shapes'
    BY <2>a, <2>b, <2>d DEF IInv, Shapes, Place
  <2>2. HandlerHolds(c)' /\ Repeats(c)'
    <3> DEFINE e == [path |-> "ok", chosen |-> chosen]
    <3>0. answer'[c] = e
      <4> HIDE DEF e
      <4>1. answer' = [answer EXCEPT ![c] = e]
        BY <2>a DEF e
      <4> QED
        BY <4>1, <1>s, OneAnswers
    <3>1. answer'[c].path = "ok"
      BY <3>0
    <3> QED
      BY <2>a, <3>1 DEF IInv, Shapes, HandlerHolds, Repeats
  <2>3. \A g \in Handler \ {c} : HandlerHolds(g)' /\ Repeats(g)'
    BY <2>a, <2>d, OthersHold DEF IInv, Shapes
  <2>4. \A y \in Text : RowIsTriaged(y)'
    <3> SUFFICES ASSUME NEW y \in Text PROVE RowIsTriaged(y)'
      OBVIOUS
    <3>1. CASE cache'[y] = cache[y]
      BY <3>1, <2>a, <1>r
    <3>2. CASE cache'[y] # cache[y]
      <4>1. y = x /\ cache'[y] = row /\ done \in triaged'
        BY <3>2, <2>a, <2>0 DEF IInv, Shapes
      <4>2. row.tags = tags /\ row.version = f
        BY DEF row
      <4>3. done.text = x /\ done.version = f /\ done.chosen = chosen
        BY DEF done
      <4>4. chosen = Chosen(tags, NoAgent, f)
        BY DEF chosen
      <4>5. tags # {} /\ IsValid(f)
        BY <2>0 DEF tags
      <4> QED
        BY <4>1, <4>2, <4>3, <4>4, <4>5, <2>c DEF RowIsTriaged
    <3> QED
      BY <3>1, <3>2
  <2> QED
    BY <2>1, <2>2, <2>3, <2>4 DEF IInv
<1>6. ASSUME NEW l \in Reload, ReloadReads(l) \/ ReloadSwaps(l)
      PROVE  IInv'
  <2>a. /\ \E to \in {"store", "end"} :
             /\ pc' = [pc EXCEPT ![l] = to]
             /\ to = "store" => snap' = [snap EXCEPT ![l] = file]
        /\ UNCHANGED snap \/ snap' = [snap EXCEPT ![l] = file]
        /\ UNCHANGED <<file, cache, req, triaged>>
    BY <1>6 DEF ReloadReads, ReloadSwaps, Goto, Load, sharedVars
  <2>b. \/ UNCHANGED answer
        \/ \E e : e.path # "cached" /\ answer' = [answer EXCEPT ![l] = e]
    BY <1>6 DEF ReloadReads, ReloadSwaps, Answer
  <2>c. AnswerIsFunction' /\ \A g \in Handler \ {l} : answer'[g] = answer[g]
    BY <2>b, <1>e
  <2>d. reg' \in Catalog /\ IsValid(reg)'
    <3>1. CASE ReloadReads(l)
      BY <3>1 DEF IInv, Shapes, ReloadReads, sharedVars
    <3>2. CASE ReloadSwaps(l)
      <4>1. snap[l] \in Catalog
        BY <3>2 DEF IInv, HandlerHolds, ReloadSwaps, Goto
      <4> QED
        BY <3>2, <4>1 DEF IInv, Shapes, ReloadSwaps
    <3> QED
      BY <1>6, <3>1, <3>2
  <2>1. Shapes'
    BY <2>a, <2>c, <2>d DEF IInv, Shapes, Place
  <2>2. HandlerHolds(l)' /\ Repeats(l)'
    <3>1. pc[l] \in {"new", "store"}
      BY <1>6 DEF ReloadReads, ReloadSwaps, Goto
    <3>2. answer'[l].path # "cached"
      BY <3>1, <2>b, <1>s, OneAnswers DEF IInv, HandlerHolds
    <3> QED
      BY <2>a, <3>2 DEF IInv, Shapes, HandlerHolds, Repeats
  <2>3. \A g \in Handler \ {l} : HandlerHolds(g)' /\ Repeats(g)'
    BY <2>a, <2>c, OthersHold DEF IInv, Shapes
  <2>4. \A x \in Text : RowIsTriaged(x)'
    BY <2>a, <1>r
  <2> QED
    BY <2>1, <2>2, <2>3, <2>4 DEF IInv
<1>7. ASSUME EditCatalog \/ UNCHANGED vars
      PROVE  IInv'
  <2>1. Shapes'
    BY <1>7, <1>u DEF IInv, Shapes, EditCatalog, vars, sharedVars, handlerVars
  <2>2. \A h \in Handler : HandlerHolds(h)' /\ Repeats(h)'
    BY <1>7 DEF IInv, HandlerHolds, Repeats, EditCatalog, vars, sharedVars, handlerVars
  <2>3. \A x \in Text : RowIsTriaged(x)'
    BY <1>7, <1>r DEF EditCatalog, vars, sharedVars
  <2> QED
    BY <2>1, <2>2, <2>3 DEF IInv
<1>8. CASE \E h \in Route : RouteMoves(h)
  BY <1>8, <1>1, <1>2, <1>3 DEF RouteMoves, ReceiveRoute
<1>9. CASE \E c \in Callback : CallbackMoves(c)
  BY <1>9, <1>1, <1>4, <1>5 DEF CallbackMoves, ReceiveCallback
<1> QED
  BY <1>6, <1>7, <1>8, <1>9 DEF Next

\* The inductive invariant holds in every reachable state.
THEOREM Invariance == Spec => []IInv
BY InitIInv, NextIInv, PTL DEF Spec

-----------------------------------------------------------------------------
(* The theorems.                                                           *)

\* The cache stays self-consistent when reloads land between /route and the
\* callback or inside the callback: server.go stores the tags it normalised
\* and the version it normalised them with from one load of the registry.
THEOREM RowsStayCanonical == Spec => []RowsAreCanonical
<1>1. IInv => RowsAreCanonical
  BY DEF IInv, RowIsTriaged, RowsAreCanonical
<1> QED
  BY <1>1, Invariance, PTL

\* /route never answers from a row of another version than the snapshot it
\* matches with, and its answer is the one a triage of that text was given.
THEOREM CacheAnswersAreTriaged == Spec => []CacheRepeatsTriage
<1>1. IInv => CacheRepeatsTriage
  BY DEF IInv, Repeats, CacheRepeatsTriage, Handler
<1> QED
  BY <1>1, Invariance, PTL
-----------------------------------------------------------------------------
(* The linter and the loader.                                              *)

\* Where nothing is padded, the loader reads what the linter compared: canons
\* and names as they are spelled, aliases in lower case.
LEMMA LoaderReadsAsSpelled ==
  ASSUME NEW f, IsCatalog(f), FitsSchema(f), HasNoPadding(f)
  PROVE  /\ \A t \in f.tags : CanonOf(t) = t.canon
         /\ \A t \in f.tags : \A w \in t.aliases : Norm(w) = Lower[w]
         /\ \A a \in f.agents : NameOf(a) = a.name
<1>1. ASSUME NEW t \in f.tags, NEW w \in {t.canon} \cup t.aliases
      PROVE  Norm(w) = Lower[w]
  <2>1. w \in Spelling /\ Trim[w] = w
    BY <1>1 DEF IsCatalog, HasNoPadding
  <2> QED
    BY <2>1 DEF Norm, NormOf
<1>2. \A t \in f.tags : CanonOf(t) = t.canon
  BY <1>1 DEF CanonOf, FitsSchema
<1>3. \A a \in f.agents : NameOf(a) = a.name
  BY DEF NameOf, HasNoPadding
<1> QED
  BY <1>1, <1>2, <1>3

\* BuildRegistry accepts every catalog that validate.py passes and that pads
\* no word and no name.
LEMMA LintImpliesValid ==
  ASSUME NEW f, IsCatalog(f), LintPasses(f), HasNoPadding(f)
  PROVE  IsValid(f)
<1>0. /\ \A t \in f.tags : CanonOf(t) = t.canon
      /\ \A t \in f.tags : \A w \in t.aliases : Norm(w) = Lower[w]
      /\ \A a \in f.agents : NameOf(a) = a.name
  BY LoaderReadsAsSpelled DEF LintPasses
<1>1. ASSUME NEW t \in f.tags, NEW u \in f.tags, t # u
      PROVE  TagWords(t) \cap TagWords(u) = {}
  <2>1. /\ t.canon # u.canon
        /\ \A y \in u.aliases : t.canon # Lower[y]
        /\ \A x \in t.aliases : u.canon # Lower[x]
        /\ \A x \in t.aliases, y \in u.aliases : Lower[x] # Lower[y]
    BY <1>1 DEF LintPasses, WordsAreDistinct
  <2>2. /\ \A x \in TagWords(t) : x = t.canon \/ \E w \in t.aliases : x = Lower[w]
        /\ \A x \in TagWords(u) : x = u.canon \/ \E w \in u.aliases : x = Lower[w]
    BY <1>0 DEF TagWords
  <2> QED
    BY <2>1, <2>2
<1>2. \A a, b \in f.agents : a # b => NameOf(a) # NameOf(b)
  BY <1>0 DEF LintPasses, NamesAreDistinct
<1>3. ASSUME NEW s \in f.skills
      PROVE  /\ \E a \in f.agents : NameOf(a) = s.agent
             /\ SkillTags(s) \subseteq TagCanons(f)
  <2>1. \E a \in f.agents : NameOf(a) = s.agent
    BY <1>0 DEF LintPasses, ReferencesResolve, AgentNames
  <2>2. ASSUME NEW w \in s.tags PROVE Norm(w) \in TagCanons(f)
    <3>1. PICK t \in f.tags : w = t.canon
      BY DEF LintPasses, ReferencesResolve, Canons
    <3> QED
      BY <3>1 DEF CanonOf, TagCanons
  <2> QED
    BY <2>1, <2>2 DEF SkillTags
<1>4. (\A t \in f.tags : CanonOf(t) # NoWord) /\ (\A a \in f.agents : NameOf(a) # NoAgent)
  BY <1>0 DEF LintPasses, FitsSchema, AgentNames
<1> QED
  BY <1>1, <1>2, <1>3, <1>4 DEF IsValid

\* A reload has read no file before it starts, and one that read a valid file
\* ends well.
ReloadEnds(l) ==
  /\ pc[l] = "new" => snap[l] = None
  /\ (pc[l] = "end" /\ snap[l] # None /\ IsValid(snap[l])) => answer[l].path = "ok"

\* A step of another handler leaves a reload as it is.
LEMMA OthersEnd ==
  ASSUME NEW h, NEW l \in Reload, ReloadEnds(l),
         pc'[l] = pc[l], snap'[l] = snap[l], answer'[l] = answer[l]
  PROVE  ReloadEnds(l)'
BY DEF ReloadEnds

\* A step of a route or a callback changes its own places only.
LEMMA ClientsKeepReloads ==
  ASSUME IInv, NEW h \in Route \cup Callback, RouteMoves(h) \/ CallbackMoves(h)
  PROVE  /\ \E to : pc' = [pc EXCEPT ![h] = to]
         /\ UNCHANGED snap \/ \E v : snap' = [snap EXCEPT ![h] = v]
         /\ UNCHANGED answer \/ \E e : answer' = [answer EXCEPT ![h] = e]
<1>1. CASE \E q \in Request : Receive(h, q)
  BY <1>1 DEF Receive, Goto
<1>2. CASE RouteLoads(h)
  BY <1>2 DEF RouteLoads, Goto, Load, Match, Answer
<1>3. CASE RouteLooksUp(h)
  BY <1>3 DEF RouteLooksUp, Goto, Match, Answer
<1>4. CASE CallbackLoads(h)
  BY <1>4 DEF CallbackLoads, Goto, Load, Answer
<1>5. CASE CallbackStores(h)
  BY <1>5 DEF CallbackStores, Goto, Answer
<1> QED
  BY <1>1, <1>2, <1>3, <1>4, <1>5
  DEF RouteMoves, CallbackMoves, ReceiveRoute, ReceiveCallback

\* A green validate.py means the reload lands, if the file pads no word and no
\* name: what the linter passes the loader then takes, whichever requests,
\* edits and other reloads come between the read and the swap.
THEOREM LintedCatalogsLand == Spec => []LintedReloadsLand
<1> DEFINE Ends == \A l \in Reload : ReloadEnds(l)
<1>1. Init => Ends
  BY DEF Init, ReloadEnds, Handler
<1>2. IInv /\ Ends /\ [Next]_vars => Ends'
  <2> SUFFICES ASSUME IInv, Ends, [Next]_vars, NEW l \in Reload
               PROVE  ReloadEnds(l)'
    OBVIOUS
  <2>h. l \in Handler /\ l \notin Route /\ l \notin Callback
    BY ConstantsAssumption DEF Handler
  <2>f. /\ pc \in [Handler -> Place]
        /\ snap \in [Handler -> Catalog \cup {None}]
        /\ AnswerIsFunction
    BY DEF IInv, Shapes
  <2>l. ReloadEnds(l)
    OBVIOUS
  <2>1. ASSUME NEW h \in Route \cup Callback, RouteMoves(h) \/ CallbackMoves(h)
        PROVE  ReloadEnds(l)'
    <3>0. h # l /\ h \in Handler
      BY <2>h DEF Handler
    <3>1. pc'[l] = pc[l] /\ snap'[l] = snap[l]
      BY <2>1, <3>0, <2>f, <2>h, ClientsKeepReloads
    <3>2. answer'[l] = answer[l]
      BY <2>1, <3>0, <2>f, <2>h, ClientsKeepReloads, OneAnswers
    <3> QED
      BY <3>1, <3>2, <2>l, OthersEnd
  <2>2. ASSUME NEW m \in Reload, ReloadReads(m) \/ ReloadSwaps(m), m # l
        PROVE  ReloadEnds(l)'
    <3>0. m \in Handler
      BY DEF Handler
    <3>1. pc'[l] = pc[l] /\ snap'[l] = snap[l]
      BY <2>2, <2>f, <2>h DEF ReloadReads, ReloadSwaps, Goto, Load
    <3>a. UNCHANGED answer \/ \E e : answer' = [answer EXCEPT ![m] = e]
      BY <2>2 DEF ReloadReads, ReloadSwaps, Answer
    <3>2. answer'[l] = answer[l]
      BY <3>a, <3>0, <2>2, <2>f, <2>h, OneAnswers
    <3> QED
      BY <3>1, <3>2, <2>l, OthersEnd
  <2>3. CASE ReloadReads(l)
    <3>1. CASE Goto(l, "new", "store")
      BY <3>1, <2>f, <2>h DEF Goto, ReloadEnds, Place
    <3>2. CASE Goto(l, "new", "end") /\ UNCHANGED snap
      BY <3>2, <2>f, <2>h, <2>l DEF Goto, ReloadEnds, Place
    <3> QED
      BY <2>3, <3>1, <3>2 DEF ReloadReads
  <2>4. CASE ReloadSwaps(l)
    <3>0. pc'[l] = "end" /\ snap' = snap
      BY <2>4, <2>f, <2>h DEF ReloadSwaps, Goto
    <3>1. CASE IsValid(snap[l])
      <4> DEFINE e == [path |-> "ok", chosen |-> NoAgent]
      <4>0. e.path = "ok"
        OBVIOUS
      <4>1. answer' = [answer EXCEPT ![l] = e]
        BY <2>4, <3>1 DEF ReloadSwaps, Answer
      <4> HIDE DEF e
      <4>2. answer'[l] = e
        BY <4>1, <2>f, <2>h, OneAnswers
      <4> QED
        BY <3>0, <4>0, <4>2 DEF ReloadEnds
    <3>2. CASE ~ IsValid(snap[l])
      <4>1. ~ IsValid(snap[l])'
        BY <3>0, <3>2
      <4> QED
        BY <3>0, <4>1 DEF ReloadEnds
    <3> QED
      BY <3>1, <3>2
  <2>5. CASE EditCatalog \/ UNCHANGED vars
    BY <2>5, <2>l DEF EditCatalog, vars, handlerVars, ReloadEnds
  <2> QED
    BY <2>1, <2>2, <2>3, <2>4, <2>5 DEF Next
<1>3. IInv /\ Ends => LintedReloadsLand
  <2> SUFFICES ASSUME IInv, Ends, NEW l \in Reload, pc[l] = "end", snap[l] # None,
                      LintPasses(snap[l]), HasNoPadding(snap[l])
               PROVE  answer[l].path = "ok"
    BY DEF LintedReloadsLand
  <2>1. snap[l] \in Catalog
    BY DEF IInv, Shapes, Handler
  <2>2. IsCatalog(snap[l])
    BY <2>1, ConstantsAssumption
  <2>3. IsValid(snap[l])
    BY <2>2, LintImpliesValid
  <2> QED
    BY <2>3 DEF ReloadEnds
<1> HIDE DEF Ends
<1>4. Spec => []Ends
  BY <1>1, <1>2, Invariance, PTL DEF Spec
<1> QED
  BY <1>3, <1>4, Invariance, PTL

-----------------------------------------------------------------------------
(* What /route answers.                                                    *)

\* An agent that may take a task without being mentioned.
Covers(a, f) ==
  IsActiveAgent(a, f) /\ Covered(a, TagCanons(f), f) # {}

\* The part of ChosenCovers about one request.
ChoiceCovers(h) ==
  (answer[h].path \in {"fast", "cached"} /\ req[h].pin = NoAgent) =>
    LET a == answer[h].chosen
        f == snap[h]
    IN  /\ IsActiveAgent(a, f)
        /\ \/ a = Mention[req[h].text]
           \/ Covered(a, TagCanons(f), f) # {}

\* A route answers once, at its end.
RouteHolds(h) ==
  /\ pc[h] # "end" => answer[h].path \notin {"fast", "cached"}
  /\ ChoiceCovers(h)

\* Match escalates, or repeats the pin, or answers a covering active agent.
LEMMA MatchCovers ==
  ASSUME NEW h, NEW tags, NEW pin, NEW f \in Catalog, NEW path,
         Match(h, tags, pin, f, path)
  PROVE  \E e : /\ answer' = [answer EXCEPT ![h] = e]
                /\ \/ e.path = "slow"
                   \/ pin # NoAgent /\ e.chosen = pin
                   \/ Covers(e.chosen, f)
<1> DEFINE chosen == Chosen(tags, pin, f)
           slow == [path |-> "slow", chosen |-> NoAgent]
           found == [path |-> path, chosen |-> chosen]
<1>1. \/ answer' = [answer EXCEPT ![h] = slow]
      \/ /\ answer' = [answer EXCEPT ![h] = found]
         /\ pin # NoAgent \/ chosen # NoAgent
  BY DEF Match, Answer
<1>2. slow.path = "slow" /\ found.chosen = chosen
  OBVIOUS
<1>3. pin # NoAgent => chosen = pin
  BY DEF Chosen
<1>4. IsCatalog(f)
  BY ConstantsAssumption
<1>5. (pin = NoAgent /\ chosen # NoAgent) => Covers(chosen, f)
  BY <1>4, ChosenIsCandidate, CandidateCovers DEF Covers
<1> HIDE DEF chosen, slow, found
<1> QED
  BY <1>1, <1>2, <1>3, <1>5

\* A step of another handler leaves a route as it is.
LEMMA OthersRoute ==
  ASSUME NEW h, RouteHolds(h), pc'[h] = pc[h], snap'[h] = snap[h],
         req'[h] = req[h], answer'[h] = answer[h]
  PROVE  RouteHolds(h)'
BY DEF RouteHolds, ChoiceCovers

\* The agent /route names is one that may take the task, whatever reloads and
\* callbacks overlap with the request: matcher.Match picks the best of the
\* agents the snapshot's index holds for the tags, and a mention counts only
\* when it is active there.
THEOREM ChosenAgentsCover == Spec => []ChosenCovers
<1> DEFINE Holds == \A h \in Route : RouteHolds(h)
<1>1. Init => Holds
  BY DEF Init, RouteHolds, ChoiceCovers, NoAnswer, Handler
<1>2. IInv /\ Holds /\ [Next]_vars => Holds'
  <2> SUFFICES ASSUME IInv, Holds, [Next]_vars, NEW h \in Route
               PROVE  RouteHolds(h)'
    OBVIOUS
  <2>h. /\ h \in Handler /\ h \notin Callback /\ h \notin Reload
        /\ Callback \subseteq Handler /\ Reload \subseteq Handler /\ Route \subseteq Handler
    BY ConstantsAssumption DEF Handler
  <2>f. /\ pc \in [Handler -> Place]
        /\ snap \in [Handler -> Catalog \cup {None}]
        /\ req \in [Handler -> Request \cup {None}]
        /\ AnswerIsFunction
        /\ reg \in Catalog
    BY DEF IInv, Shapes
  <2>r. RouteHolds(h)
    OBVIOUS
  <2>1. ASSUME NEW g \in Handler \ {h}, RouteMoves(g) \/ CallbackMoves(g), g \in Route \cup Callback
        PROVE  RouteHolds(h)'
    <3>1. pc'[h] = pc[h] /\ snap'[h] = snap[h] /\ answer'[h] = answer[h]
      BY <2>1, <2>f, <2>h, ClientsKeepReloads, OneAnswers
    <3>2. UNCHANGED req \/ \E q : req' = [req EXCEPT ![g] = q]
      BY <2>1 DEF RouteMoves, CallbackMoves, ReceiveRoute, ReceiveCallback, Receive,
                  RouteLoads, RouteLooksUp, CallbackLoads, CallbackStores
    <3> QED
      BY <3>1, <3>2, <2>f, <2>h, <2>r, OthersRoute
  <2>2. ASSUME NEW q \in Request, Receive(h, q)
        PROVE  RouteHolds(h)'
    <3>1. answer'[h].path \notin {"fast", "cached"}
      BY <2>2, <2>r DEF Receive, Goto, RouteHolds
    <3> QED
      BY <3>1 DEF RouteHolds, ChoiceCovers
  <2>3. CASE RouteLoads(h)
    <3> DEFINE pin == Pin(req[h], reg)
    <3>0. /\ pc[h] = "load" /\ req' = req /\ snap'[h] = reg
          /\ answer[h].path \notin {"fast", "cached"}
      BY <2>3, <2>f, <2>h, <2>r DEF RouteLoads, Goto, Load, RouteHolds
    <3>1. CASE IsFast(req[h], reg)
      <4>1. pc'[h] = "end" /\ Match(h, Tags(req[h], reg), pin, reg, "fast")
        BY <2>3, <3>1, <2>f, <2>h DEF RouteLoads, Goto
      <4>2. PICK e : /\ answer' = [answer EXCEPT ![h] = e]
                     /\ \/ e.path = "slow"
                        \/ pin # NoAgent /\ e.chosen = pin
                        \/ Covers(e.chosen, reg)
        <5> DEFINE found == Tags(req[h], reg)
        <5>1. Match(h, found, pin, reg, "fast") /\ reg \in Catalog
          BY <4>1, <2>f
        <5> HIDE DEF found, pin
        <5> QED
          BY <5>1, MatchCovers
      <4>3. answer'[h] = e
        BY <4>2, <2>f, <2>h, OneAnswers
      <4>4. (req[h].pin = NoAgent /\ pin # NoAgent)
               => IsActiveAgent(pin, reg) /\ pin = Mention[req[h].text]
        BY DEF Pin
      <4> HIDE DEF pin
      <4> QED
        BY <3>0, <4>1, <4>2, <4>3, <4>4 DEF RouteHolds, ChoiceCovers, Covers
    <3>2. CASE ~ IsFast(req[h], reg)
      <4>1. answer' = answer
        BY <2>3, <3>2 DEF RouteLoads
      <4> QED
        BY <3>0, <4>1 DEF RouteHolds, ChoiceCovers
    <3> QED
      BY <3>1, <3>2
  <2>4. CASE RouteLooksUp(h)
    <3> DEFINE tags == NormalizeTags(cache[req[h].text].tags, snap[h])
    <3>0. /\ pc'[h] = "end" /\ req' = req /\ snap' = snap /\ snap[h] \in Catalog
      BY <2>4, <2>f, <2>h DEF RouteLooksUp, Goto, IInv, HandlerHolds
    <3>1. CASE Match(h, tags, NoAgent, snap[h], "cached")
      <4>2. PICK e : /\ answer' = [answer EXCEPT ![h] = e]
                     /\ \/ e.path = "slow"
                        \/ Covers(e.chosen, snap[h])
        <5>1. Match(h, tags, NoAgent, snap[h], "cached") /\ snap[h] \in Catalog
          BY <3>0, <3>1
        <5> HIDE DEF tags
        <5> QED
          BY <5>1, MatchCovers
      <4>3. answer'[h] = e
        BY <4>2, <2>f, <2>h, OneAnswers
      <4> QED
        BY <3>0, <4>2, <4>3 DEF RouteHolds, ChoiceCovers, Covers
    <3>2. CASE Answer(h, "slow", NoAgent)
      <4> DEFINE e == [path |-> "slow", chosen |-> NoAgent]
      <4>0. e.path = "slow"
        OBVIOUS
      <4>1. answer' = [answer EXCEPT ![h] = e]
        BY <3>2 DEF Answer
      <4> HIDE DEF e
      <4>2. answer'[h] = e
        BY <4>1, <2>f, <2>h, OneAnswers
      <4> QED
        BY <3>0, <4>0, <4>2 DEF RouteHolds, ChoiceCovers
    <3> QED
      BY <2>4, <3>1, <3>2 DEF RouteLooksUp
  <2>5. ASSUME NEW m \in Reload, ReloadReads(m) \/ ReloadSwaps(m)
        PROVE  RouteHolds(h)'
    <3>1. /\ pc'[h] = pc[h] /\ snap'[h] = snap[h] /\ req' = req
      BY <2>5, <2>f, <2>h DEF ReloadReads, ReloadSwaps, Goto, Load
    <3>a. UNCHANGED answer \/ \E e : answer' = [answer EXCEPT ![m] = e]
      BY <2>5 DEF ReloadReads, ReloadSwaps, Answer
    <3>2. answer'[h] = answer[h]
      BY <3>a, <2>f, <2>h, OneAnswers
    <3> QED
      BY <3>1, <3>2, <2>r, OthersRoute
  <2>6. CASE EditCatalog \/ UNCHANGED vars
    BY <2>6, <2>r, OthersRoute DEF EditCatalog, vars, handlerVars
  <2>7. CASE \E g \in Route : RouteMoves(g)
    BY <2>7, <2>1, <2>2, <2>3, <2>4, <2>h DEF RouteMoves, ReceiveRoute
  <2>8. CASE \E c \in Callback : CallbackMoves(c)
    BY <2>8, <2>1, <2>h
  <2> QED
    BY <2>5, <2>6, <2>7, <2>8 DEF Next
<1>3. Holds => ChosenCovers
  BY DEF RouteHolds, ChoiceCovers, ChosenCovers
<1> HIDE DEF Holds
<1>4. Spec => []Holds
  BY <1>1, <1>2, Invariance, PTL DEF Spec
<1> QED
  BY <1>3, <1>4, PTL

-----------------------------------------------------------------------------
(* Types.                                                                  *)

AnswerType == [path : {"none", "slow", "fast", "cached", "rejected", "ok"},
               chosen : Nat]

\* The matcher returns a pin, an agent of the catalog, or none.
LEMMA ChosenType ==
  ASSUME NEW f \in Catalog, NEW tags, NEW pin \in Nat
  PROVE  Chosen(tags, pin, f) \in Nat
<1>1. IsCatalog(f)
  BY ConstantsAssumption
<1>2. CASE pin = NoAgent /\ Chosen(tags, pin, f) # NoAgent
  <2>1. IsActiveAgent(Chosen(tags, pin, f), f)
    BY <1>1, <1>2, ChosenIsCandidate, CandidateCovers
  <2> QED
    BY <1>1, <2>1 DEF IsActiveAgent, IsCatalog
<1>3. CASE pin # NoAgent
  BY <1>3 DEF Chosen
<1> QED
  BY <1>2, <1>3 DEF NoAgent

\* A request that is escalated answers no agent.
LEMMA MatchType ==
  ASSUME NEW h, NEW f \in Catalog, NEW tags, NEW pin \in Nat,
         NEW path \in {"fast", "cached"}, Match(h, tags, pin, f, path)
  PROVE  \E e \in AnswerType : answer' = [answer EXCEPT ![h] = e]
<1> DEFINE chosen == Chosen(tags, pin, f)
           slow   == [path |-> "slow", chosen |-> NoAgent]
           found  == [path |-> path, chosen |-> chosen]
<1>1. answer' = [answer EXCEPT ![h] = slow] \/ answer' = [answer EXCEPT ![h] = found]
  BY DEF Match, Answer
<1>2. chosen \in Nat
  BY ChosenType
<1> HIDE DEF chosen
<1>3. slow \in AnswerType /\ found \in AnswerType
  BY <1>2 DEF AnswerType, NoAgent
<1> QED
  BY <1>1, <1>3

\* The handlers' variables keep their types: what a route or a callback names
\* is an agent of the version it answers from, the pin, or none.
THEOREM TypeCorrect == Spec => []TypeOK
<1> DEFINE Typed == answer \in [Handler -> AnswerType]
<1>1. Init => Typed
  BY DEF Init, NoAnswer, NoAgent, AnswerType
<1>2. IInv /\ Typed /\ [Next]_vars => Typed'
  <2> SUFFICES ASSUME IInv, Typed, [Next]_vars PROVE Typed'
    OBVIOUS
  <2>f. /\ pc \in [Handler -> Place]
        /\ snap \in [Handler -> Catalog \cup {None}]
        /\ req \in [Handler -> Request \cup {None}]
        /\ reg \in Catalog
    BY DEF IInv, Shapes
  <2>h. /\ Route \subseteq Handler /\ Callback \subseteq Handler
        /\ Reload \subseteq Handler
    BY DEF Handler
  <2>1. ASSUME NEW h \in Handler, NEW e \in AnswerType, answer' = [answer EXCEPT ![h] = e]
        PROVE  Typed'
    BY <2>1
  <2>2. ASSUME NEW h \in Handler, NEW path \in {"slow", "rejected", "ok"}, NEW chosen \in Nat,
               Answer(h, path, chosen)
        PROVE  Typed'
    <3> DEFINE e == [path |-> path, chosen |-> chosen]
    <3>1. e \in AnswerType /\ answer' = [answer EXCEPT ![h] = e]
      BY <2>2 DEF Answer, AnswerType
    <3> HIDE DEF e
    <3> QED
      BY <3>1, <2>1
  <2>3. UNCHANGED answer => Typed'
    OBVIOUS
  <2>n. NoAgent \in Nat
    BY DEF NoAgent
  <2> HIDE DEF Typed
  <2>4. ASSUME NEW h \in Route, RouteMoves(h)
        PROVE  Typed'
    <3>1. CASE \E q \in Request : ReceiveRoute(h, q)
      BY <3>1, <2>3 DEF ReceiveRoute, Receive
    <3>2. CASE RouteLoads(h)
      <4>1. CASE UNCHANGED answer
        BY <4>1, <2>3
      <4>2. CASE pc[h] = "load" /\ Match(h, Tags(req[h], reg), Pin(req[h], reg), reg, "fast")
        <5>1. req[h] \in Request
          BY <4>2, <2>h DEF IInv, HandlerHolds
        <5>2. Pin(req[h], reg) \in Nat
          BY <5>1, <2>n, ConstantsAssumption DEF Pin, Request
        <5> QED
          BY <4>2, <5>2, <2>1, <2>f, <2>h, MatchType
      <4> QED
        BY <3>2, <4>1, <4>2 DEF RouteLoads
    <3>3. CASE RouteLooksUp(h)
      <4> DEFINE tags == NormalizeTags(cache[req[h].text].tags, snap[h])
      <4>1. pc[h] = "cache" /\ (Match(h, tags, NoAgent, snap[h], "cached")
                                \/ Answer(h, "slow", NoAgent))
        BY <3>3 DEF RouteLooksUp, Goto
      <4>2. snap[h] \in Catalog
        BY <4>1, <2>h DEF IInv, HandlerHolds
      <4> HIDE DEF tags
      <4>3. CASE Match(h, tags, NoAgent, snap[h], "cached")
        BY <4>2, <4>3, <2>n, <2>1, <2>h, MatchType
      <4>4. CASE Answer(h, "slow", NoAgent)
        BY <4>4, <2>2, <2>h, <2>n
      <4> QED
        BY <4>1, <4>3, <4>4
    <3> QED
      BY <2>4, <3>1, <3>2, <3>3 DEF RouteMoves
  <2>5. ASSUME NEW c \in Callback, CallbackMoves(c)
        PROVE  Typed'
    <3>1. CASE \E q \in Request : ReceiveCallback(c, q)
      BY <3>1, <2>3 DEF ReceiveCallback, Receive
    <3>2. CASE CallbackLoads(c)
      <4>1. UNCHANGED answer \/ Answer(c, "rejected", NoAgent)
        BY <3>2 DEF CallbackLoads
      <4> QED
        BY <4>1, <2>2, <2>3, <2>h, <2>n
    <3>3. CASE CallbackStores(c)
      <4> DEFINE chosen == Chosen(NormalizeTags(req[c].tags, snap[c]), NoAgent, snap[c])
      <4>1. pc[c] = "upsert" /\ Answer(c, "ok", chosen)
        BY <3>3 DEF CallbackStores, Goto
      <4>2. snap[c] \in Catalog
        BY <4>1, <2>h DEF IInv, HandlerHolds
      <4>3. chosen \in Nat
        BY <4>2, <2>n, ChosenType
      <4> HIDE DEF chosen
      <4> QED
        BY <4>1, <4>3, <2>2, <2>h
    <3> QED
      BY <2>5, <3>1, <3>2, <3>3 DEF CallbackMoves
  <2>6. ASSUME NEW l \in Reload, ReloadReads(l) \/ ReloadSwaps(l)
        PROVE  Typed'
    <3>1. \/ UNCHANGED answer
          \/ Answer(l, "rejected", NoAgent)
          \/ Answer(l, "ok", NoAgent)
      BY <2>6 DEF ReloadReads, ReloadSwaps
    <3> QED
      BY <3>1, <2>2, <2>3, <2>h, <2>n
  <2>7. CASE EditCatalog \/ UNCHANGED vars
    BY <2>7, <2>3 DEF EditCatalog, vars, handlerVars
  <2> QED
    BY <2>4, <2>5, <2>6, <2>7 DEF Next
<1>3. IInv /\ Typed => TypeOK
  BY DEF IInv, Shapes, TypeOK, Place, AnswerType
<1> HIDE DEF Typed
<1> QED
  BY <1>1, <1>2, <1>3, Invariance, PTL DEF Spec
=============================================================================
