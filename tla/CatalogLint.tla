----------------------------- MODULE CatalogLint -----------------------------
(***************************************************************************)
(* The linter of tags.yaml (tagcatalog/validate.py, tags.schema.json),     *)
(* which a contributor runs before the router ever reads the file.  It     *)
(* compares words as the file spells them, aliases in lower case; unlike   *)
(* the loader (Matching.IsValid) it trims nothing.                         *)
(***************************************************************************)
EXTENDS Matching

Canons(f) == {t.canon : t \in f.tags}
AgentNames(f) == {a.name : a \in f.agents}

\* The JSON schema: a canon is in lower case, and neither it nor the name of
\* an agent is the empty string.  (Its pattern lets a canon end in a line
\* break, which strip() would remove.)
FitsSchema(f) ==
  /\ \A t \in f.tags : t.canon # NoWord /\ Lower[t.canon] = t.canon
  /\ NoAgent \notin AgentNames(f)

\* Mutation: an alias is compared as it is spelled.
WordsAreDistinct_AsSpelled(f) ==
  /\ \A t, u \in f.tags : t # u => t.canon # u.canon
  /\ \A t, u \in f.tags : t.canon \notin u.aliases
  /\ \A t, u \in f.tags : \A x \in t.aliases, y \in u.aliases :
       x = y => t = u

\* No two tags share a canon, an alias, or the alias of one the canon of the
\* other; nor is a tag its own alias, or an alias there twice.  The order of
\* the file does not matter.
WordsAreDistinct(f) ==
  /\ \A t, u \in f.tags : t # u => t.canon # u.canon
  /\ \A t, u \in f.tags : \A y \in u.aliases : t.canon # Lower[y]
  /\ \A t, u \in f.tags : \A x \in t.aliases, y \in u.aliases :
       Lower[x] = Lower[y] => t = u /\ x = y

\* No name of an agent or of a skill comes twice.
NamesAreDistinct(f) ==
  /\ \A a, b \in f.agents : a # b => a.name # b.name
  /\ \A s, r \in f.skills : s # r => s.skill # r.skill

\* Skills name known tags and agents, whether they are active or not.
ReferencesResolve(f) ==
  \A s \in f.skills : s.tags \subseteq Canons(f) /\ s.agent \in AgentNames(f)

LintPasses(f) ==
  /\ FitsSchema(f)
  /\ WordsAreDistinct(f)
  /\ NamesAreDistinct(f)
  /\ ReferencesResolve(f)
=============================================================================
