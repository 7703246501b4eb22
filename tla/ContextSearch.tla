------------------------------ MODULE ContextSearch ------------------------------
(* One search of the fact store for the context of a turn: everything           *)
(* ContextRetriever.retrieve does after the embedding of the query has arrived   *)
(* and before it next awaits. The store does not change while it runs, so the    *)
(* search is a function of the store, the query and the number of facts asked.   *)
(*                                                                               *)
(* Numbers are scaled: similarities and confidences are percentages, the caps    *)
(* are CONSTANTS (15, 3 and 10 in the code).                                     *)
EXTENDS Integers, Sequences, FiniteSets, FiniteSetsExt, Functions

CONSTANTS
  Facts,         \* ids; a smaller number is the lexicographically smaller id
  Entities,
  Queries,       \* texts searched for: the user's query and its sub-queries
  MaxFacts,      \* _MAX_FACTS
  GraphReserve   \* _GRAPH_RESERVE

ASSUME CapsAssumption ==
  /\ MaxFacts \in Nat \ {0} /\ GraphReserve \in Nat \ {0}
  /\ Facts \subseteq Nat /\ IsFiniteSet(Facts)

Live == {"current", "provisional"}

(* What the store knows of each fact and never changes. `near` ranks the facts   *)
(* that have an embedding by distance to each query, `score` is the cross-       *)
(* encoder's, `related` the current relationships between entities. A similarity *)
(* below zero, which texts of one user hardly have, counts as zero.              *)
WorldType ==
  [near : [Queries -> Seq(Facts)], sim : [Facts -> [Facts -> 0..100]], score : [Facts -> Int],
   ents : [Facts -> SUBSET Entities], related : SUBSET SUBSET Entities,
   created : [Facts -> Nat], conf : [Facts -> 0..100]]

(* An embedding is one row of the index, so every query ranks the same facts     *)
(* once; the similarity is a cosine.                                             *)
Regular(w) ==
  /\ \A q, r \in Queries : IsInjective(w.near[q]) /\ Range(w.near[q]) = Range(w.near[r])
  /\ \A f, g \in Facts : w.sim[f][g] = w.sim[g][f]

(* The steps of a loop, one after the other; of a sequence those in a set; and   *)
(* the members of a set in order, given for each the ones that go before it.     *)
Repeat(step, base, n) ==
  LET after[i \in 0..n] == IF i = 0 THEN base ELSE step[i][after[i - 1]] IN after[n]
Kept(s, S) ==
  Repeat([i \in 1..Len(s) |-> [kept \in Seq(Facts) |->
            IF s[i] \in S THEN Append(kept, s[i]) ELSE kept]], <<>>, Len(s))
Ranked(ahead) ==
  [n \in 1..Cardinality(DOMAIN ahead) |->
     CHOOSE f \in DOMAIN ahead : Cardinality(ahead[f]) = n - 1]

OrElse(n, d) == IF n = 0 THEN d ELSE n           \* Python's  n or d
Take(s, n) == SubSeq(s, 1, Min({n, Len(s)}))
At(s, f) == CHOOSE i \in DOMAIN s : s[i] = f
HasVector(w, f) == \E q \in Queries : f \in Range(w.near[q])
Rows(st) == {f \in Facts : st[f] # "none"}
LiveFacts(st) == {f \in Facts : st[f] \in Live}

(* The k nearest rows of vec_facts, whatever their status: superseding a fact    *)
(* does not take its vector out.                                                 *)
Nearest(w, st, q, limit) == Take(Kept(w.near[q], Rows(st)), limit)

(* The newest live facts, when there is no embedding or nothing was near.        *)
Newer(w, f, g) == w.created[f] > w.created[g] \/ (w.created[f] = w.created[g] /\ f < g)
Recent(w, st, limit) ==
  Take(Ranked([f \in LiveFacts(st) |-> {g \in LiveFacts(st) : Newer(w, g, f)}]), limit)

(* The cross-encoder's order, without what it scores below -5; the best stays,   *)
(* and a wide query keeps everything.                                            *)
RerankFloor == -5
Preferred(w, cands, f, g) ==
  w.score[f] > w.score[g] \/ (w.score[f] = w.score[g] /\ At(cands, f) < At(cands, g))
Rerank(w, cands, wide) ==
  LET all == Range(cands)
      ordered == Ranked([f \in all |-> {g \in all : Preferred(w, cands, g, f)}])
  IN IF wide \/ cands = <<>> THEN ordered
     ELSE <<Head(ordered)>> \o Kept(Tail(ordered), {f \in Facts : w.score[f] >= RerankFloor})

(* Live facts above the confidence floor; a confidence of 0 counts as 1.0.       *)
ConfidenceFloor == 40
Eligible(w, st, cands) ==
  Kept(cands, {f \in LiveFacts(st) : OrElse(w.conf[f], 100) >= ConfidenceFloor})

(* Facts that do not repeat one kept before them; at most cap.                   *)
DedupSimilarity == 90
SaysSame(w, f, g) == HasVector(w, f) /\ HasVector(w, g) /\ w.sim[f][g] >= DedupSimilarity
Repeats(w, f, kept) == \E g \in Range(kept) : SaysSame(w, f, g)
DedupByContent(w, cands, cap) ==
  Repeat([i \in 1..Len(cands) |-> [kept \in Seq(Facts) |->
            IF Len(kept) >= cap \/ Repeats(w, cands[i], kept) THEN kept
            ELSE Append(kept, cands[i])]], <<>>, Len(cands))

(* The graph hop forgets the status of the facts it adds.                        *)
OneHopAny(w, st, cands, primary) ==
  {f \in Facts : st[f] # "none" /\ f \notin Range(primary)
     /\ \E c \in Range(cands), e \in Entities, r \in Entities :
          e # r /\ e \in w.ents[c] /\ {e, r} \in w.related /\ r \in w.ents[f]}

(* The facts one hop away: live facts of an entity related to an entity of a     *)
(* candidate. The code walks Python sets, so any of them may come first.         *)
OneHop(w, st, cands, primary) ==
  {f \in LiveFacts(st) : f \notin Range(primary)
     /\ \E c \in Range(cands), e \in Entities, r \in Entities :
          e # r /\ e \in w.ents[c] /\ {e, r} \in w.related /\ r \in w.ents[f]}
GraphPicks(w, st, cands, primary, cap) ==
  LET hop == OneHop(w, st, cands, primary) IN
  {p \in [1..Min({cap, Cardinality(hop)}) -> hop] : IsInjective(p)}

(* The farther, the more relevant.                                               *)
RelevanceSwapped(w, dist, f) ==
  LET ds == {dist[g] : g \in DOMAIN dist}
  IN IF f \notin DOMAIN dist THEN 300
     ELSE IF Max(ds) = Min(ds) THEN 600
     ELSE 600 + (400 * (dist[f] - Min(ds))) \div (Max(ds) - Min(ds))

(* Relevance in thousandths: 600..1000 by distance, 300 for a fact that has      *)
(* none, and a little for confidence.                                            *)
Relevance(w, dist, f) ==
  LET ds == {dist[g] : g \in DOMAIN dist}
      base == IF f \notin DOMAIN dist THEN 300
              ELSE IF Max(ds) = Min(ds) THEN 600
              ELSE 600 + (400 * (Max(ds) - dist[f])) \div (Max(ds) - Min(ds))
      rel == base + (OrElse(w.conf[f], 75) - 75) \div 2
  IN Max({0, Min({1000, rel})})

Redundancy(w, f, sel) ==
  IF ~HasVector(w, f) THEN 0
  ELSE Max({0} \cup {10 * w.sim[f][g] : g \in {h \in Range(sel) : HasVector(w, h)}})

(* Maximal marginal relevance, lambda = 0.7: k times the first of the best.      *)
Score(w, dist, f, sel) == 7 * Relevance(w, dist, f) - 3 * Redundancy(w, f, sel)
Better(w, dist, facts, f, g, sel) ==
  LET a == Score(w, dist, f, sel)
      b == Score(w, dist, g, sel)
  IN a > b \/ (a = b /\ At(facts, f) < At(facts, g))
MMR(w, dist, facts, k) ==
  LET rest(sel) == Range(facts) \ Range(sel)
      Best(sel) == CHOOSE f \in rest(sel) :
                     \A g \in rest(sel) \ {f} : Better(w, dist, facts, f, g, sel)
  IN Repeat([i \in 1..k |-> [sel \in Seq(Facts) |->
               IF rest(sel) = {} THEN sel ELSE Append(sel, Best(sel))]], <<>>, k)

(* Two facts say nearly the same of the same entity.                             *)
TemporalSimilarity == 85
SameSubject(w, f, g) ==
  /\ w.ents[f] \cap w.ents[g] # {}
  /\ HasVector(w, f) /\ HasVector(w, g) /\ w.sim[f][g] >= TemporalSimilarity

(* Joins two positions and not the roots of their clusters.                      *)
UnionNoRoot(parent, i, j) == [parent EXCEPT ![j] = i]

(* Union-find over the positions: the root of i, and every pair joined in order. *)
Root(parent, i) == Repeat([n \in 1..Len(parent) |-> parent], i, Len(parent))
Union(parent, i, j) == [parent EXCEPT ![Root(parent, j)] = Root(parent, i)]
Clusters(w, facts) ==
  LET all == 1..Len(facts)
      Join(parent, i, j) == IF i < j /\ SameSubject(w, facts[i], facts[j])
                            THEN Union(parent, i, j) ELSE parent
      Row(parent, i) ==
        Repeat([j \in all |-> [p \in [all -> all] |-> Join(p, i, j)]], parent, Len(facts))
  IN Repeat([i \in all |-> [p \in [all -> all] |-> Row(p, i)]], [i \in all |-> i], Len(facts))

(* The later of two facts, then the more confident, then the smaller id.         *)
Beats(w, f, g) ==
  \/ w.created[f] > w.created[g]
  \/ w.created[f] = w.created[g] /\ w.conf[f] > w.conf[g]
  \/ w.created[f] = w.created[g] /\ w.conf[f] = w.conf[g] /\ f < g

(* One fact of each cluster, in the order they stood in.                         *)
TemporalDedup(w, facts) ==
  LET parent == Clusters(w, facts)
      Mates(i) == {j \in DOMAIN facts : Root(parent, j) = Root(parent, i)}
      Wins(i) == \A j \in Mates(i) \ {i} : Beats(w, facts[i], facts[j])
  IN Kept(facts, {facts[i] : i \in {j \in DOMAIN facts : Wins(j)}})

(* A wide question asks for more. What the index finds near it are the           *)
(* candidates, or the newest facts where that is nothing.                        *)
Widened(k, wide) == IF wide THEN Max({k, MaxFacts}) ELSE k
NearRows(w, st, q, k, embedded) == IF embedded THEN Nearest(w, st, q, 2 * k) ELSE <<>>

(* A search that finds nothing near has no fallback.                             *)
CandidatesNear(w, st, q, k, embedded) == NearRows(w, st, q, k, embedded)

Candidates(w, st, q, k, embedded) ==
  LET near == NearRows(w, st, q, k, embedded)
  IN IF near = <<>> THEN Recent(w, st, 2 * k) ELSE near

(* The distance to the query is the rank: the code's spacing is abstracted.      *)
Distances(near, facts) == [f \in Range(near) \cap Range(facts) |-> At(near, f)]

(* The room for candidates and for facts of the graph.                           *)
PrimaryCap(cap) == Max({1, cap - GraphReserve})
GraphCap(cap, primary, enum) ==
  Max({GraphReserve, cap - Len(primary)} \cup (IF enum THEN {MaxFacts} ELSE {}))

(* retrieve(query, top_k = k): the results it may have, one for each order of    *)
(* the graph hop. `embedded` is false when the embedding failed, `rerank` true   *)
(* when a reranker answers. A result carries what the properties compare it to:  *)
(* the candidates left by the filters, in order, and the nearest rows, the room  *)
(* there was for them, the facts before the last dedup, and the store's state.   *)
Searches(w, st, q, top, enum, integ, embedded, rerank) ==
  LET k == Widened(top, enum \/ integ)
      cap == Min({k, MaxFacts})
      found == Candidates(w, st, q, k, embedded)
      cands == Eligible(w, st, IF rerank THEN Rerank(w, found, enum \/ integ) ELSE found)
      primary == DedupByContent(w, cands, PrimaryCap(cap))
      near == NearRows(w, st, q, k, embedded)
      dist == Distances(near, primary)
      Result(hop) ==
        LET pool == MMR(w, dist, primary \o hop, cap)
        IN [facts |-> TemporalDedup(w, pool), pool |-> pool, k |-> k,
            cands |-> cands, near |-> near, cap |-> cap, enum |-> enum,
            live |-> LiveFacts(st), dead |-> {f \in Facts : st[f] = "superseded"}]
  IN {Result(hop) : hop \in GraphPicks(w, st, cands, primary, GraphCap(cap, primary, enum))}

=============================================================================
