-------------------------------- MODULE Retrieval --------------------------------
(* From a user's text to the context block of the turn: _retrieve_context of the *)
(* proxy with the classifier, the query decomposer, the slot retriever and       *)
(* ContextRetriever.retrieve_multi. Each await is a phase of its own; while the  *)
(* turn waits, the background writer stores and supersedes facts.                *)
(*                                                                               *)
(* RetrievalInit, RetrievalNext, ...: the plain names are those of LeanPayload,  *)
(* and ContextProofs extends both.                                               *)
EXTENDS ContextSearch

CONSTANTS
  Slots,          \* slot keys of the owner (schema v2 is on)
  Worlds,         \* the stores the model starts from: WorldType, `slot`, `dead`, `missed`,
                  \* and `bonds`, the owner's current relationships
  Stored,         \* facts the store holds at first; the others are learnt
  Asks,           \* the questions, see AskType
  MaxAsks,        \* bound on the questions, one after the other
  PrePopK,        \* pipeline.pre_populate_top_k
  ComplexK,       \* top_k of a complex question: 10
  SubK,           \* per_query_top_k: 3
  EnoughFacts     \* the store knows its user: ten facts

(* What a question is, as far as the code looks: the patterns it matches, the    *)
(* slots a slot query is about, by alias, what the decomposer would answer, and  *)
(* which texts, of its own and of the sub-queries, ask for an enumeration or     *)
(* for everything at once.                                                       *)
AskType ==
  [text : Queries, meta : BOOLEAN, bulky : BOOLEAN, l0 : {"yes", "no", "unsure"},
   complex : BOOLEAN, enum : SUBSET Queries, integ : SUBSET Queries, followup : BOOLEAN,
   class : {"generic", "slot_lookup", "temporal_sequence", "multi_hop"},
   preds : Seq(Slots), subs : Seq(Queries)]
ASSUME AsksAssumption ==
  /\ Asks \subseteq AskType
  /\ \A a \in Asks : a.class = "slot_lookup" => a.preds # <<>>
ASSUME WorldsAssumption ==
  \A w \in Worlds :
    /\ [near |-> w.near, sim |-> w.sim, score |-> w.score, ents |-> w.ents,
        related |-> w.related, created |-> w.created, conf |-> w.conf] \in WorldType
    /\ Regular(w)
    /\ w.dead \subseteq Stored /\ w.missed \subseteq Slots /\ w.bonds \subseteq Entities
ASSUME TopsAssumption == {PrePopK, ComplexK, SubK} \subseteq Nat \ {0}

VARIABLES
  world,      \* the fixed attributes of the facts
  status,     \* fact -> "none", or its status in the store
  unknowns,   \* rows of known_unknowns
  rerank,     \* a reranker is available
  phase,      \* where the coroutine of the turn waits
  ask,        \* the question
  summary,    \* extreme_summary_text is not empty
  slots,      \* the SlotRetrievalResult
  plan,       \* the searches to do
  searches,   \* the results of those done
  answer,     \* what _retrieve_context returned
  asked       \* questions so far

retrievalVars == <<world, status, unknowns, rerank, phase, ask, summary, slots, plan, searches, answer, asked>>

Phases == {"idle", "summary", "classify", "decompose", "embed", "episodes", "answered"}
Nothing == [text |-> "none", facts |-> <<>>, current |-> {}, timeline |-> {}, bonds |-> {},
            missing |-> {}, general |-> FALSE, count |-> 0, raised |-> FALSE]
NoSlots == [current |-> {}, timeline |-> {}, bonds |-> {}, missing |-> {}]
NoPlan == [queries |-> <<>>, k |-> 0, multi |-> FALSE, episodes |-> FALSE]
NoAsk == CHOOSE a \in Asks : TRUE

RetrievalInit ==
  /\ world \in Worlds
  /\ status = [f \in Facts |-> IF f \notin Stored THEN "none"
                               ELSE IF f \in world.dead THEN "superseded" ELSE "current"]
  /\ unknowns = world.missed
  /\ rerank \in BOOLEAN
  /\ phase = "idle" /\ ask = NoAsk /\ summary = FALSE /\ slots = NoSlots /\ plan = NoPlan
  /\ searches = <<>> /\ answer = Nothing /\ asked = 0

-----------------------------------------------------------------------------
(* Slot-first retrieval, schema v2: one synchronous call.                        *)

SlotFacts(s) == {f \in Facts : status[f] # "none" /\ world.slot[f] = s}
CurrentFact(s) ==
  LET now == {f \in SlotFacts(s) : status[f] \in Live}
  IN {f \in now : \A g \in now \ {f} : Beats(world, f, g)}
Timeline(s) == SlotFacts(s)

(* A lookup that no alias answers leaves a known unknown for the first of them.  *)
SlotLookup(a) ==
  LET hits == UNION {CurrentFact(s) : s \in Range(a.preds)}
  IN [NoSlots EXCEPT !.current = hits, !.missing = IF hits = {} THEN {Head(a.preds)} ELSE {}]
TemporalSlots(a) ==
  [NoSlots EXCEPT !.timeline = UNION {Timeline(s) : s \in Range(a.preds)}]
MultiHop ==
  [NoSlots EXCEPT !.current = UNION {CurrentFact(s) : s \in Slots}, !.bonds = world.bonds]

(* Whatever the question, every known unknown of the owner is added.             *)
MergeUnknowns(r) == [r EXCEPT !.missing = @ \cup unknowns]
SlotResult(a) ==
  MergeUnknowns(CASE a.class = "slot_lookup" -> SlotLookup(a)
                  [] a.class = "temporal_sequence" -> TemporalSlots(a)
                  [] a.class = "multi_hop" -> MultiHop
                  [] OTHER -> NoSlots)
InsertUnknown(a) ==
  unknowns' = IF a.class = "slot_lookup" THEN unknowns \cup SlotLookup(a).missing ELSE unknowns
IsHit(r) == r # NoSlots

-----------------------------------------------------------------------------
(* What a turn does next, decided between two awaits.                            *)

Reply(r) == phase' = "answered" /\ answer' = r /\ UNCHANGED plan
Await(next) == phase' = next /\ UNCHANGED <<plan, answer>>
Search(queries, k, multi, episodes) ==
  /\ plan' = [queries |-> queries, k |-> k, multi |-> multi, episodes |-> episodes]
  /\ phase' = "embed" /\ UNCHANGED answer

(* The classifier refused. The memory framing goes with the facts when it was    *)
(* sure and the store hardly knows its user.                                     *)
FactCount == Cardinality({f \in Facts : status[f] = "current"})
PureGeneral(sure) == sure /\ FactCount < EnoughFacts
Decline(sure) == Reply([Nothing EXCEPT !.general = PureGeneral(sure)])

(* It agreed: a complex question is decomposed first.                            *)
Retrieve(a) == IF a.complex THEN Await("decompose")
                                 ELSE Search(<<a.text>>, PrePopK, FALSE, a.followup)

(* Level 0 is patterns; level 1, when they are silent, needs an embedding.       *)
Level0(a) ==
  CASE a.l0 = "yes" -> Retrieve(a)
    [] a.l0 = "no" -> Decline(TRUE)
    [] a.l0 = "unsure" -> Await("classify")

(* A slot hit goes past the classifier; a slot retriever that raises is no hit.  *)
SlotFirst(a) ==
  \/ /\ slots' = SlotResult(a) /\ InsertUnknown(a)
     /\ IF IsHit(SlotResult(a)) THEN Search(<<a.text>>, PrePopK, FALSE, FALSE) ELSE Level0(a)
  \/ slots' = NoSlots /\ unknowns' = unknowns /\ Level0(a)

-----------------------------------------------------------------------------
(* A turn.                                                                       *)

(* The question arrives. "How many facts do you know" is answered with the       *)
(* count; a bulky turn has its stripped sections summarised first.               *)
MetaCount(a) ==
  /\ a.meta
  /\ Reply([Nothing EXCEPT !.text = "meta", !.count = FactCount])
  /\ UNCHANGED <<slots, unknowns>>
Ask(a) ==
  /\ phase = "idle" /\ asked < MaxAsks
  /\ ask' = a /\ asked' = asked + 1
  /\ \/ MetaCount(a)
     \/ ~a.meta /\ a.bulky /\ Await("summary") /\ UNCHANGED <<slots, unknowns>>
     \/ ~a.meta /\ ~a.bulky /\ SlotFirst(a)
  /\ UNCHANGED <<world, status, rerank, summary, searches>>

(* The summary is there, or its call failed: the turn goes on in either case.    *)
Summarise ==
  /\ phase = "summary"
  /\ summary' \in BOOLEAN
  /\ SlotFirst(ask)
  /\ UNCHANGED <<world, status, rerank, ask, searches, asked>>

(* Level 1: the nearest fact of any status is close enough, or not. Without an   *)
(* embedding the turn retrieves, better safe than miss.                          *)
Level1 ==
  /\ phase = "classify"
  /\ \/ Retrieve(ask)
     \/ Decline(FALSE)
  /\ UNCHANGED <<world, status, unknowns, rerank, ask, summary, slots, searches, asked>>

(* Two to four sub-queries, each new and not the question, or none at all.       *)
SubQueries(a) ==
  LET given == Take(a.subs, 4)
      new == Repeat([i \in 1..Len(given) |-> [s \in Seq(Queries) |->
                       IF given[i] = a.text \/ given[i] \in Range(s) THEN s
                       ELSE Append(s, given[i])]], <<>>, Len(given))
  IN IF Len(new) < 2 THEN <<>> ELSE new

(* The decomposer answers, or its call fails: then the question is searched.     *)
Decompose ==
  /\ phase = "decompose"
  /\ \/ SubQueries(ask) # <<>> /\ Search(SubQueries(ask), SubK, TRUE, ask.followup)
     \/ Search(<<ask.text>>, ComplexK, FALSE, ask.followup)
  /\ UNCHANGED <<world, status, unknowns, rerank, ask, summary, slots, searches, asked>>

(* retrieve_multi: the facts of the sub-queries, each where it first came.       *)
Merge(results) ==
  Repeat([i \in 1..Len(results) |-> [m \in Seq(Facts) |->
            m \o Kept(results[i].facts, Facts \ Range(m))]], <<>>, Len(results))
Covered(results) == Len(Merge(results)) >= 2 * ComplexK \/ Len(results) = Len(plan.queries)

(* The rendered answer: the v2 block on a slot hit, of which the budget may drop *)
(* the last sections, else the facts. No text for no facts.                      *)
Render(facts, episodes) ==
  IF IsHit(slots)
  THEN \E kept \in 0..3 :
         Reply([Nothing EXCEPT !.text = "slots", !.facts = facts, !.current = slots.current,
                   !.timeline = IF kept >= 1 THEN slots.timeline ELSE {},
                   !.bonds = IF kept >= 2 THEN slots.bonds ELSE {},
                   !.missing = IF kept = 3 THEN slots.missing ELSE {}])
  ELSE Reply([Nothing EXCEPT !.facts = facts,
                 !.text = IF facts = <<>> /\ ~episodes THEN "none" ELSE "legacy"])

(* The facts are final: a follow-up waits for the episodes of earlier turns.     *)
Finish(facts) ==
  IF plan.episodes
  THEN phase' = "episodes" /\ plan' = plan /\ answer' = [answer EXCEPT !.facts = facts]
  ELSE Render(facts, FALSE)

(* The embedding of the next query arrives, or fails, and the store is searched. *)
(* Each text that is searched for is tested for the enumeration patterns.        *)
NextQuery == plan.queries[IF plan.multi THEN Len(searches) + 1 ELSE 1]
Embed(embedded) ==
  /\ phase = "embed"
  /\ \E r \in Searches(world, status, NextQuery, plan.k, NextQuery \in ask.enum,
                       NextQuery \in ask.integ, embedded, rerank) :
       LET results == Append(searches, r) IN
       /\ searches' = results
       /\ IF ~plan.multi THEN Finish(r.facts)
          ELSE IF ~Covered(results) THEN Await("embed")
          ELSE IF Merge(results) = <<>> THEN Search(<<Head(plan.queries)>>, ComplexK, FALSE, FALSE)
          ELSE Finish(Take(Merge(results), ComplexK))
  /\ UNCHANGED <<world, status, unknowns, rerank, ask, summary, slots, asked>>

Episodes ==
  /\ phase = "episodes"
  /\ \E found \in BOOLEAN : Render(answer.facts, found)
  /\ UNCHANGED <<world, status, unknowns, rerank, ask, summary, slots, searches, asked>>

(* Anything raised in a search, in the rendering or in the absence layer is      *)
(* caught at the end of _retrieve_context: the turn goes on without a context.   *)
Raise ==
  /\ phase \in {"embed", "episodes"}
  /\ Reply([Nothing EXCEPT !.raised = TRUE])
  /\ UNCHANGED <<world, status, unknowns, rerank, ask, summary, slots, searches, asked>>

(* The turn goes on to its composition with the answer.                          *)
Deliver ==
  /\ phase = "answered"
  /\ phase' = "idle" /\ ask' = NoAsk /\ summary' = FALSE /\ slots' = NoSlots /\ plan' = NoPlan
  /\ searches' = <<>> /\ answer' = Nothing
  /\ UNCHANGED <<world, status, unknowns, rerank, asked>>

(* The background writer learns a fact, and it may supersede an older one.       *)
Learn(f) ==
  /\ status[f] = "none"
  /\ \E old \in {{}} \cup {{g} : g \in {h \in Facts : status[h] \in Live /\ world.slot[h] = world.slot[f]}},
        new \in Live :
       status' = [g \in Facts |-> IF g = f THEN new ELSE IF g \in old THEN "superseded" ELSE status[g]]
  /\ UNCHANGED <<world, unknowns, rerank, phase, ask, summary, slots, plan, searches, answer, asked>>

RetrievalNext ==
  \/ \E a \in Asks : Ask(a)
  \/ Summarise \/ Level1 \/ Decompose \/ Episodes \/ Raise \/ Deliver
  \/ \E embedded \in BOOLEAN : Embed(embedded)
  \/ \E f \in Facts : Learn(f)

RetrievalSpec == RetrievalInit /\ [][RetrievalNext]_retrievalVars

-----------------------------------------------------------------------------
(* Properties.                                                                   *)

(* A fact comes out of a search only if it was live in the store at that moment, *)
(* by whichever way it came in: superseded vectors stay in the index, the graph  *)
(* hop and the fallback have filters of their own.                               *)
OnlyLive == \A i \in DOMAIN searches : Range(searches[i].facts) \subseteq searches[i].live

(* What a search returns are the newest versions: of the facts it had before the *)
(* last dedup, one of each chain of near-duplicates about a common entity, the   *)
(* one no other of the chain beats. The reference is the transitive closure.     *)
Chained(w, S, f, g) ==
  \A R \in SUBSET S :
    f \in R /\ (\A e \in R : \A h \in S \ {e} : SameSubject(w, e, h) => h \in R) => g \in R
NewestOfEach ==
  \A i \in DOMAIN searches :
    LET pool == Range(searches[i].pool) IN
    Range(searches[i].facts) =
      {f \in pool : \A g \in pool \ {f} : Chained(world, pool, f, g) => Beats(world, f, g)}

(* What a search owes its question. Of the candidates that the filters left,     *)
(* take those that repeat none taken before them (there is one such set D): the  *)
(* first of them, as many as there is room for beside the graph's share, are due *)
(* if the index found them; of an enumeration only the closest one is, since its *)
(* hop may bring as many facts as are returned. Candidates past that room are    *)
(* lost, even when the hop finds nothing to put in the place kept for it.        *)
Distinct(w, s, D) ==
  \A f \in Range(s) : f \in D <=> \A g \in D : At(s, g) < At(s, f) => ~SaysSame(w, f, g)
Due(r, D) ==
  LET ahead(f) == {g \in D : At(r.cands, g) < At(r.cands, f)}
      near == {f \in D \cap Range(r.near) : Cardinality(ahead(f)) < PrimaryCap(r.cap)}
  IN {f \in near : r.enum => \A g \in near : At(r.near, f) <= At(r.near, g)}

(* What is due is not lost to the dedups, the graph hop, the second cap and the  *)
(* diversity re-ranking: it is returned, or a newer version of it is.            *)
BestKept ==
  \A i \in DOMAIN searches : \A D \in SUBSET Range(searches[i].cands) :
    Distinct(world, searches[i].cands, D) =>
      \A f \in Due(searches[i], D) : \E g \in Range(searches[i].facts) :
        g = f \/ (Chained(world, Range(searches[i].pool), f, g) /\ Beats(world, g, f))

(* A question that was searched for comes back empty although a fact it could    *)
(* have used stood in the store all the time only when something was raised on   *)
(* the way, or when the store is crowded: the rows the filters take out          *)
(* afterwards (superseded but still in the index, or hardly believed, and what   *)
(* the reranker puts under its floor once one of those is first) fill the        *)
(* candidates of every search, or the fact is itself one of them.                *)
Believed(f) == OrElse(world.conf[f], 100) >= ConfidenceFloor
Usable(i, f) == HasVector(world, f) /\ f \in searches[i].live /\ Believed(f)
Refused(i) ==
  {f \in searches[i].live : ~Believed(f)} \cup {f \in searches[i].dead : HasVector(world, f)}
Crowd(i) ==
  Refused(i) \cup {f \in searches[i].live : rerank /\ Refused(i) # {} /\ world.score[f] < RerankFloor}
EmptyOnlyIfCrowded ==
  (phase = "answered" /\ ~answer.raised /\ searches # <<>> /\ answer.facts = <<>>) =>
    \A f \in Facts : (\A i \in DOMAIN searches : Usable(i, f)) =>
      \A i \in DOMAIN searches : f \in Crowd(i) \/ Cardinality(Crowd(i)) >= 2 * searches[i].k

=============================================================================
