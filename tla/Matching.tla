------------------------------ MODULE Matching ------------------------------
(***************************************************************************)
(* The task-router's pure functions: what a tag catalog means              *)
(* (internal/registry), how a task's words become canonical tags           *)
(* (internal/parser) and which agent covers them (internal/matcher).       *)
(*                                                                         *)
(* A catalog f stands for the file tags.yaml and for the index built from  *)
(* it; its version is the file itself, as the code's is the file's hash:   *)
(*   f.tags    a set of [canon, aliases, weight, active]                   *)
(*   f.agents  a set of [name, heavy, active]                              *)
(*   f.skills  a set of [skill, agent, tags, weight, active]               *)
(* Words and names are spelled as the file spells them.  Weights count     *)
(* tenths.  An agent's name is its rank in the string order; 0 is the      *)
(* empty name, or no agent.  A row or a tag of a skill that comes twice    *)
(* in the same spelling is one.                                            *)
(***************************************************************************)
EXTENDS Integers, FiniteSets, FiniteSetsExt

CONSTANTS
  Spelling,     \* the words of catalogs, as they are spelled
  Lower, Trim,  \* a word in lower case, without spaces around it
  TrimName      \* the same for the names of agents

ASSUME SpellingAssumption ==
  /\ Lower \in [Spelling -> Spelling]
  /\ Trim \in [Spelling -> Spelling]

NoAgent == 0
NoWord == ""

-----------------------------------------------------------------------------
(* registry.BuildRegistry.                                                 *)

\* The loader reads a word of the file without its spaces and in lower case,
\* and the name of an agent without its spaces, except where a skill names it.
NormOf == [w \in Spelling |-> Lower[Trim[w]]]
Norm(w) == NormOf[w]
CanonOf(t) == Norm(t.canon)
NameOf(a) == TrimName[a.name]
SkillTags(s) == {Norm(w) : w \in s.tags}

\* A blank alias is skipped.
TagWords(t) == {CanonOf(t)} \cup ({Norm(w) : w \in t.aliases} \ {NoWord})

TagCanons(f) == {CanonOf(t) : t \in f.tags}

\* A skill is indexed when it and its agent are active.
IsIndexed(s, f) ==
  s.active /\ \E a \in f.agents : NameOf(a) = s.agent /\ a.active

\* A parsed file has finitely many rows, whole weights (in tenths) and agents
\* that the order of strings ranks.
IsCatalog(f) ==
  /\ IsFiniteSet(f.tags) /\ IsFiniteSet(f.skills)
  /\ \A t \in f.tags : t.weight \in Int /\ {t.canon} \cup t.aliases \subseteq Spelling
  /\ \A s \in f.skills : s.weight \in Int /\ s.tags \subseteq Spelling
  /\ \A a \in f.agents : NameOf(a) \in Nat

\* What BuildRegistry accepts: no word means two tags, no agent comes twice,
\* no canon or agent is blank, active skills name known agents and indexed
\* ones known tags.
IsValid(f) ==
  /\ \A t \in f.tags : CanonOf(t) # NoWord
  /\ \A t, u \in f.tags : t # u => TagWords(t) \cap TagWords(u) = {}
  /\ \A a \in f.agents : NameOf(a) # NoAgent
  /\ \A a, b \in f.agents : a # b => NameOf(a) # NameOf(b)
  /\ \A s \in f.skills :
       /\ s.active => \E a \in f.agents : NameOf(a) = s.agent
       /\ IsIndexed(s, f) => SkillTags(s) \subseteq TagCanons(f)

\* Registry.Normalize over a list of words, which are given here as Norm
\* leaves them: nothing else of a request's word is looked at.  Unknown words
\* are left out.
NormalizeTags(words, f) ==
  {CanonOf(t) : t \in {u \in f.tags : \E w \in words : w \in TagWords(u)}}

IsActiveAgent(name, f) == \E a \in f.agents : NameOf(a) = name /\ a.active

-----------------------------------------------------------------------------
(* matcher.Match.                                                          *)

\* What the index holds for active tags: one posting per skill and tag.
Postings(tags, f) ==
  {p \in [skill : {s \in f.skills : IsIndexed(s, f)},
          tag   : {t \in f.tags : t.active /\ CanonOf(t) \in tags}] :
     CanonOf(p.tag) \in SkillTags(p.skill)}

PostingsOf(name, tags, f) ==
  {p \in Postings(tags, f) : p.skill.agent = name}

AgentScore(name, tags, f) ==
  MapThenSumSet(LAMBDA p : p.tag.weight * p.skill.weight,
                PostingsOf(name, tags, f))

Covered(name, tags, f) == {CanonOf(p.tag) : p \in PostingsOf(name, tags, f)}

Candidates(tags, f) == {p.skill.agent : p \in Postings(tags, f)}

\* The highest score wins, the first name breaks a tie; a pin wins over both.
Chosen(tags, pin, f) ==
  IF pin # NoAgent THEN pin
  ELSE IF Candidates(tags, f) = {} THEN NoAgent
  ELSE CHOOSE a \in Candidates(tags, f) :
         \A b \in Candidates(tags, f) \ {a} :
           \/ AgentScore(a, tags, f) > AgentScore(b, tags, f)
           \/ AgentScore(a, tags, f) = AgentScore(b, tags, f) /\ a < b

\* 0.7 * (covered / all) + 0.3 * min(1, score / (2.6 * all)) < 0.34, in whole
\* numbers: scores count hundredths.
IsLowConfidence(name, tags, f) ==
  LET n     == Cardinality(tags)
      score == AgentScore(name, tags, f)
      capped == IF score > 260 * n THEN 260 * n ELSE score
  IN  \/ n = 0
      \/ 18200 * Cardinality(Covered(name, tags, f)) + 30 * capped < 8840 * n
=============================================================================
