--------------------------- MODULE TriageRouting ----------------------------
(***************************************************************************)
(* The task-router's request handlers (internal/httpapi/server.go): /route *)
(* answers from the catalog or from the triage cache, or asks for triage;  *)
(* /triage/callback stores the tags a triage found and answers from them;  *)
(* /registry/reload swaps the catalog.  Handlers run concurrently: each    *)
(* load of the registry pointer and each query of the cache is one action. *)
(* Matching.tla says what they compute; RoutingLog.tla models their log;   *)
(* CatalogLint.tla is the check an edited catalog should have passed.      *)
(***************************************************************************)
EXTENDS CatalogLint

CONSTANTS
  Route,      \* /route requests
  Callback,   \* /triage/callback requests
  Reload,     \* /registry/reload requests
  Text,       \* task texts of different text_hash (HashText drops # and @,
              \* so that texts may share one though their tags differ)
  Word,       \* words that may be tags
  WordsIn,    \* the words a text holds as #tags and [domains]
  Mention,    \* the @agent a text names, NoAgent for none
  TagList,    \* the tags a request may bring apart from its text
  PinAgent,   \* the pins a /route request may bring, NoAgent among them
  Catalog,    \* contents tags.yaml may have
  None

ASSUME ConstantsAssumption ==
  /\ WordsIn \in [Text -> SUBSET Word]
  /\ Mention \in [Text -> Nat]
  /\ TagList \subseteq SUBSET Word
  /\ PinAgent \subseteq Nat
  /\ Route \cap Callback = {} /\ Route \cap Reload = {}
  /\ Callback \cap Reload = {}
  /\ \A f \in Catalog : IsCatalog(f)
  /\ \A f \in Catalog : \A t \in f.tags : TagWords(t) \subseteq Word
  /\ \E f \in Catalog : IsValid(f)
  /\ None \notin Catalog

VARIABLES
  file,     \* the content of tags.yaml
  reg,      \* the active registry
  cache,    \* triage_cache: text -> [tags, version], or None
  pc,       \* where each handler is
  snap,     \* the registry a handler loaded, the file a reload read
  req,      \* the request: [text, tags, pin], or None
  answer,   \* a handler's reply
  triaged   \* what callbacks cached and answered: [text, version, chosen]

sharedVars == <<file, reg, cache>>
handlerVars == <<pc, snap, req, answer>>
vars == <<sharedVars, handlerVars, triaged>>

Handler == Route \cup Callback \cup Reload

Row == [tags : SUBSET Word, version : Catalog]

Request == [text : Text, tags : TagList, pin : PinAgent \cup {NoAgent}]

TypeOK ==
  /\ file \in Catalog
  /\ reg \in Catalog /\ IsValid(reg)
  /\ cache \in [Text -> Row \cup {None}]
  /\ pc \in [Handler -> {"new", "load", "cache", "upsert", "store", "end"}]
  /\ snap \in [Handler -> Catalog \cup {None}]
  /\ req \in [Handler -> Request \cup {None}]
  /\ answer \in [Handler -> [path : {"none", "slow", "fast", "cached",
                                     "rejected", "ok"}, chosen : Nat]]

NoAnswer == [path |-> "none", chosen |-> NoAgent]

Init ==
  /\ file \in Catalog
  /\ IsValid(file)
  /\ reg = file
  /\ cache = [x \in Text |-> None]
  /\ pc = [h \in Handler |-> "new"]
  /\ snap = [h \in Handler |-> None]
  /\ req = [h \in Handler |-> None]
  /\ answer = [h \in Handler |-> NoAnswer]
  /\ triaged = {}

Goto(h, from, to) ==
  /\ pc[h] = from
  /\ pc' = [pc EXCEPT ![h] = to]

Load(h, v) == snap' = [snap EXCEPT ![h] = v]

Answer(h, path, chosen) ==
  answer' = [answer EXCEPT ![h] = [path |-> path, chosen |-> chosen]]

Receive(h, q) ==
  /\ Goto(h, "new", "load")
  /\ req' = [req EXCEPT ![h] = q]
  /\ UNCHANGED <<sharedVars, snap, answer, triaged>>

-----------------------------------------------------------------------------
(* POST /route.                                                            *)

\* The pin of the request as it is, or the agent the text mentions, which
\* parser.Parse looks up in the snapshot.
Pin(q, f) ==
  IF q.pin # NoAgent THEN q.pin
  ELSE IF IsActiveAgent(Mention[q.text], f) THEN Mention[q.text] ELSE NoAgent

Tags(q, f) == NormalizeTags(WordsIn[q.text] \cup q.tags, f)

IsFast(q, f) == Tags(q, f) # {} \/ Pin(q, f) # NoAgent

\* Mutation: a task no agent covers is routed anyway.
Match_NoEscalation(h, tags, pin, f, path) ==
  Answer(h, path, Chosen(tags, pin, f))

\* Without a pin, no match or one of low confidence is escalated to triage.
Match(h, tags, pin, f, path) ==
  LET chosen   == Chosen(tags, pin, f)
      escalate == /\ pin = NoAgent
                  /\ chosen = NoAgent \/ IsLowConfidence(chosen, tags, f)
  IN  IF escalate THEN Answer(h, "slow", NoAgent) ELSE Answer(h, path, chosen)

ReceiveRoute(h, q) == Receive(h, q)

\* A request with tags or a pin is answered from the snapshot, another one
\* looks into the cache.
RouteLoads(h) ==
  /\ pc[h] = "load"
  /\ Load(h, reg)
  /\ \/ /\ IsFast(req[h], reg)
        /\ Goto(h, "load", "end")
        /\ Match(h, Tags(req[h], reg), Pin(req[h], reg), reg, "fast")
     \/ /\ ~ IsFast(req[h], reg)
        /\ Goto(h, "load", "cache")
        /\ UNCHANGED answer
  /\ UNCHANGED <<sharedVars, req, triaged>>

\* Mutation: the cache key leaves out the catalog version.
RouteLooksUp_AnyVersion(h) ==
  LET row == cache[req[h].text]
  IN  /\ Goto(h, "cache", "end")
      /\ IF row # None
           THEN Match(h, NormalizeTags(row.tags, snap[h]), NoAgent, snap[h],
                      "cached")
           ELSE Answer(h, "slow", NoAgent)
      /\ UNCHANGED <<sharedVars, snap, req, triaged>>

\* A row of the snapshot's version whose tags are known is matched; without
\* one, or when the query fails, the client is sent to triage.
RouteLooksUp(h) ==
  LET row    == cache[req[h].text]
      usable == /\ row # None
                /\ row.version = snap[h]
                /\ NormalizeTags(row.tags, snap[h]) # {}
  IN  /\ Goto(h, "cache", "end")
      /\ \/ /\ usable
            /\ Match(h, NormalizeTags(row.tags, snap[h]), NoAgent, snap[h],
                     "cached")
         \/ Answer(h, "slow", NoAgent)
      /\ UNCHANGED <<sharedVars, snap, req, triaged>>

-----------------------------------------------------------------------------
(* POST /triage/callback.                                                  *)

\* The request names its text by content or by hash; it has no pin.
ReceiveCallback(c, q) == q.pin = NoAgent /\ Receive(c, q)

\* Tags that are all unknown are refused (422).
CallbackLoads(c) ==
  /\ pc[c] = "load"
  /\ Load(c, reg)
  /\ \/ /\ NormalizeTags(req[c].tags, reg) = {}
        /\ Goto(c, "load", "end")
        /\ Answer(c, "rejected", NoAgent)
     \/ /\ NormalizeTags(req[c].tags, reg) # {}
        /\ Goto(c, "load", "upsert")
        /\ UNCHANGED answer
  /\ UNCHANGED <<sharedVars, req, triaged>>

\* Mutation: the row is stored under the catalog loaded last.
CallbackStores_LoadsAgain(c) ==
  LET tags   == NormalizeTags(req[c].tags, snap[c])
      chosen == Chosen(tags, NoAgent, snap[c])
  IN  /\ Goto(c, "upsert", "end")
      /\ cache' = [cache EXCEPT ![req[c].text] =
                     [tags |-> tags, version |-> reg]]
      /\ triaged' = triaged \cup {[text |-> req[c].text, version |-> snap[c],
                                    chosen |-> chosen]}
      /\ Answer(c, "ok", chosen)
      /\ UNCHANGED <<file, reg, snap, req>>

\* UpsertTriage, which may fail, then the match, which is not escalated.
CallbackStores(c) ==
  LET tags   == NormalizeTags(req[c].tags, snap[c])
      chosen == Chosen(tags, NoAgent, snap[c])
  IN  /\ Goto(c, "upsert", "end")
      /\ \/ /\ cache' = [cache EXCEPT ![req[c].text] =
                           [tags |-> tags, version |-> snap[c]]]
            /\ triaged' = triaged \cup {[text |-> req[c].text,
                                          version |-> snap[c],
                                          chosen |-> chosen]}
         \/ UNCHANGED <<cache, triaged>>
      /\ Answer(c, "ok", chosen)
      /\ UNCHANGED <<file, reg, snap, req>>

-----------------------------------------------------------------------------
(* POST /registry/reload, and the editor of tags.yaml.                     *)

EditCatalog ==
  /\ file' \in Catalog \ {file}
  /\ UNCHANGED <<reg, cache, handlerVars, triaged>>

ReloadReads(l) ==
  /\ \/ Goto(l, "new", "store") /\ Load(l, file) /\ UNCHANGED answer
     \/ Goto(l, "new", "end") /\ Answer(l, "rejected", NoAgent) /\ UNCHANGED snap
  /\ UNCHANGED <<sharedVars, req, triaged>>

\* The active version again is a no-op, an invalid catalog is refused.
ReloadSwaps(l) ==
  /\ Goto(l, "store", "end")
  /\ \/ /\ IsValid(snap[l])
        /\ reg' = snap[l]
        /\ Answer(l, "ok", NoAgent)
     \/ /\ ~ IsValid(snap[l])
        /\ UNCHANGED reg
        /\ Answer(l, "rejected", NoAgent)
  /\ UNCHANGED <<file, cache, snap, req, triaged>>

-----------------------------------------------------------------------------
RouteMoves(h) ==
  (\E q \in Request : ReceiveRoute(h, q)) \/ RouteLoads(h) \/ RouteLooksUp(h)

CallbackMoves(c) ==
  \/ \E q \in Request : ReceiveCallback(c, q)
  \/ CallbackLoads(c)
  \/ CallbackStores(c)

Next ==
  \/ \E h \in Route : RouteMoves(h)
  \/ \E c \in Callback : CallbackMoves(c)
  \/ \E l \in Reload : ReloadReads(l) \/ ReloadSwaps(l)
  \/ EditCatalog

Spec == Init /\ [][Next]_vars

-----------------------------------------------------------------------------
(* Properties.                                                             *)

\* The rows of the cache are self-consistent: a row holds canonical tags of the
\* version it carries, also when a reload lands inside the callback, so that
\* normalising them again under that version loses nothing.
RowsAreCanonical ==
  \A x \in Text : cache[x] # None =>
    /\ cache[x].tags # {}
    /\ cache[x].tags = NormalizeTags(cache[x].tags, cache[x].version)

\* An answer from the cache repeats what a triage of that text answered under
\* the very version the answer was computed with: no cross-version mixing,
\* whatever reloads and callbacks overlap.
CacheRepeatsTriage ==
  \A h \in Route : answer[h].path = "cached" =>
    \E t \in triaged : /\ t.text = req[h].text
                       /\ t.version = snap[h]
                       /\ t.chosen = answer[h].chosen

\* Unless the client pinned it, an agent the router chooses is active in the
\* version it answers from, and covers a tag of that version, unless the text
\* mentions it.
ChosenCovers ==
  \A h \in Route :
    (answer[h].path \in {"fast", "cached"} /\ req[h].pin = NoAgent) =>
      LET a == answer[h].chosen
          f == snap[h]
      IN  /\ IsActiveAgent(a, f)
          /\ \/ a = Mention[req[h].text]
             \/ Covered(a, TagCanons(f), f) # {}

\* Neither a word of a tag nor the name of an agent has spaces around it.
HasNoPadding(f) ==
  /\ \A t \in f.tags : \A w \in {t.canon} \cup t.aliases : Trim[w] = w
  /\ \A a \in f.agents : TrimName[a.name] = a.name

\* A catalog the linter passed is one the router takes: a reload that could
\* read such a file ends with its index active, so that a green validate.py
\* means what CONTRIBUTING.md uses it for.  The exception is a padded word or
\* name: BuildRegistry trims before it compares, validate.py does not, so two
\* aliases or agents that differ in padding pass the one and not the other.
LintedReloadsLand ==
  \A l \in Reload :
    (pc[l] = "end" /\ snap[l] # None) =>
      \/ answer[l].path = "ok"
      \/ ~ LintPasses(snap[l])
      \/ ~ HasNoPadding(snap[l])
=============================================================================
