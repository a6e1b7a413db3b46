-------------------------- MODULE MCTriageRouting ---------------------------
(***************************************************************************)
(* Two texts (one without tags, one with), a route, two callbacks and      *)
(* two reloads over four catalogs: between the first two the word "db"     *)
(* changes its meaning and an agent is retired; the router refuses the     *)
(* third, as the linter does, and the fourth, which the linter passes.     *)
(***************************************************************************)
EXTENDS TriageRouting, TLC

CONSTANTS h1, c1, c2, l1, l2

TagRow(c, al, w, on) ==
  [canon |-> c, aliases |-> al, weight |-> w, active |-> on]
AgentRow(n, on) == [name |-> n, heavy |-> FALSE, active |-> on]
SkillRow(s, a, ts, w) ==
  [skill |-> s, agent |-> a, tags |-> ts, weight |-> w, active |-> TRUE]

\* Agent 1 covers go and db, agent 2 db only; ui has no agent.
First ==
  [tags |-> {TagRow("go", {"golang"}, 12, TRUE), TagRow("db", {}, 10, TRUE),
             TagRow("ui", {}, 10, TRUE)},
   agents |-> {AgentRow(1, TRUE), AgentRow(2, TRUE)},
   skills |-> {SkillRow("s1", 1, {"go", "db"}, 10),
               SkillRow("s2", 2, {"db"}, 15)}]

\* db, with a space in front, is an alias of go now, and agent 1 is inactive.
Second ==
  [tags |-> {TagRow("go", {" db"}, 12, TRUE), TagRow("ui", {}, 10, FALSE)},
   agents |-> {AgentRow(1, FALSE), AgentRow(2, TRUE)},
   skills |-> {SkillRow("s1", 1, {"go", "gone"}, 10),
               SkillRow("s2", 2, {"go"}, 15)}]

\* Two tags claim one word.
Broken ==
  [First EXCEPT !.tags = @ \cup {TagRow("sql", {"DB"}, 10, TRUE)}]

\* Agent 3 is agent 2 with a space behind its name.
Padded == [First EXCEPT !.agents = @ \cup {AgentRow(3, TRUE)}]

Catalogs == {First, Second, Broken, Padded}
Words == {"go", "golang", "db", "ui", "sql"}
Spellings == Words \cup {"DB", " db", "gone"}
LowerCase == [w \in Spellings |-> IF w = "DB" THEN "db" ELSE w]
Trimmed == [w \in Spellings |-> IF w = " db" THEN "db" ELSE w]
TrimmedNames == [n \in 0..3 |-> IF n = 3 THEN 2 ELSE n]
Texts == {"plain", "tagged"}
TextWords == "plain" :> {} @@ "tagged" :> {"ui"}
Mentions == "plain" :> 0 @@ "tagged" :> 1
TagLists == {{}, {"db"}}

Symmetry == Permutations(Callback) \cup Permutations(Reload)
=============================================================================
