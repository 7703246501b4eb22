--------------------------- MODULE KnowledgeGraph ---------------------------
(***************************************************************************)
(* The people in the user's life: tables entities and relationships, as    *)
(* the startup seeds them (src/sieve/main.py, _maybe_bootstrap_owner_pin)  *)
(* and the writer task of each turn extends them (src/sieve/writer.py).    *)
(*                                                                         *)
(* For each statement of a turn the writer names entities, awaits an       *)
(* embedding, and adds an edge from the user, unless a contradicting edge  *)
(* is at least as strong.  At the end of the turn a sweep supersedes what  *)
(* contradicts all the same.  Turns interleave at the awaits; a failure    *)
(* may cut the commits anywhere.  Whether the fact itself is stored is     *)
(* FactWriter's matter and a choice here.                                  *)
(*                                                                         *)
(* GraphInit, GraphNext, ...: the plain names are those of StoreFiles, and *)
(* StoreProofs extends both.                                               *)
(***************************************************************************)
EXTENDS Integers, Sequences, FiniteSets

CONSTANTS
    Person,         \* names a statement can be about
    Role,           \* relationships that exclude each other
    Other,          \* relationships that do not
    MaxRank,        \* confidence, as a rank
    Statement,      \* what extraction can say, see GraphStatements
    MaxTurn,        \* turns (a bound)
    MaxStatements,  \* statements extracted from one turn (a bound)
    MaxInFlight,    \* writer tasks alive at once (a bound)
    MaxFailures     \* crashes and exceptions (a bound)

User  == "user"
Owner == "owner"     \* the name and the aliases of the configured owner
Name  == Person \cup {User, Owner}
Alias == {User, Owner}
Rank  == 1..MaxRank

\* `names' are the entities of the fact, `person' the one it relates to.
ASSUME GraphStatements ==
    /\ User \notin Person /\ Owner \notin Person /\ Role \cap Other = {}
    /\ Statement \subseteq [names : Seq(Person \cup {Owner}), relation : Role \cup Other,
                            person : Person, confidence : Rank]

ASSUME GraphBounds ==
    /\ MaxRank \in Nat /\ MaxTurn \in Nat /\ MaxStatements \in Nat
    /\ MaxInFlight \in Nat /\ MaxFailures \in Nat

Turn == 1..MaxTurn
Edge == [relation : Role \cup Other, target : Person, confidence : Rank,
         status : {"current", "superseded"}]

VARIABLES
    entities,   \* names of the rows of table entities, oldest first
    edges,      \* rows of table relationships that start at the user
    disk,       \* the edges as of the last commit
    pinned,     \* is the owner's pin stored as a fact
    pin,        \* is config.profile_owner.pin set
    server,     \* "serving", or the step of the startup
    pc, said, next, failures

graphVars == <<entities, edges, disk, pinned, pin, server, pc, said, next, failures>>
graph == <<entities, edges, disk>>

Statements == UNION {[1..n -> Statement] : n \in 0..MaxStatements}

GraphInit ==
    /\ entities = <<>> /\ edges = <<>> /\ disk = <<>>
    /\ pinned = FALSE /\ pin \in BOOLEAN
    /\ server = "check"
    /\ pc = [t \in Turn |-> "unsent"]
    /\ said = [t \in Turn |-> <<>>]
    /\ next = [t \in Turn |-> 1]
    /\ failures = 0

Known == {entities[i] : i \in DOMAIN entities}
Active == {t \in Turn : pc[t] \in {"extract", "name", "embed", "sweep"}}

\* No task is between two statements it does not await between.
Yielded == \A t \in Turn : pc[t] \notin {"name", "sweep"}

Fail == failures < MaxFailures /\ failures' = failures + 1

Save(rows) == edges' = rows /\ disk' = rows

-----------------------------------------------------------------------------
(***************************************************************************)
(* The startup seeds an empty store.                                       *)
(***************************************************************************)
\* Mutant: a start whose pin is missing seeds again.
BootCheckPin ==
    /\ server = "check"
    /\ server' = IF pin /\ ~pinned THEN "user" ELSE "serving"
    /\ UNCHANGED <<graph, pinned, pin, pc, said, next, failures>>

\* The entity count, and the embedding of the pin, which may fail.
BootCheck ==
    /\ server = "check"
    /\ server' = IF pin /\ entities = <<>> THEN "user" ELSE "serving"
    /\ UNCHANGED <<graph, pinned, pin, pc, said, next, failures>>

SeedEntity(step, name, then) ==
    /\ server = step /\ server' = then
    /\ entities' = Append(entities, name)
    /\ UNCHANGED pinned

\* insert_entity twice and insert_fact, each with its commit.
BootSeed ==
    /\ \/ SeedEntity("user", User, "owner")
       \/ SeedEntity("owner", Owner, "pin")
       \/ /\ server = "pin" /\ server' = "serving"
          /\ pinned' = TRUE
          /\ UNCHANGED entities
    /\ UNCHANGED <<edges, disk, pin, pc, said, next, failures>>

\* An insert raises: the proxy serves with what there is.
BootFails ==
    /\ server \in {"user", "owner", "pin"} /\ Fail
    /\ server' = "serving"
    /\ UNCHANGED <<graph, pinned, pin, pc, said, next>>

-----------------------------------------------------------------------------
(***************************************************************************)
(* The writer.                                                             *)
(***************************************************************************)
Send(t) ==
    /\ server = "serving" /\ Yielded
    /\ pc[t] = "unsent" /\ \A u \in 1..(t - 1) : pc[u] # "unsent"
    /\ Cardinality(Active) < MaxInFlight
    /\ pc' = [pc EXCEPT ![t] = "extract"]
    /\ UNCHANGED <<graph, pinned, pin, server, said, next, failures>>

\* Without a candidate the turn ends and nothing is swept.
Extract(t) ==
    /\ Yielded /\ pc[t] = "extract"
    /\ \E candidates \in Statements :
        /\ said' = [said EXCEPT ![t] = candidates]
        /\ pc' = [pc EXCEPT ![t] = IF candidates = <<>> THEN "done" ELSE "name"]
    /\ UNCHANGED <<graph, pinned, pin, server, next, failures>>

Saying(t) == said[t][next[t]]

\* The entities of a statement in the order they are resolved.
Mentioned(s) == s.names \o <<s.person, User>>

\* _get_or_create_entity for each of them; then the embedding is awaited.  The
\* commit of the insert takes what waits in the open transaction along.
NameEntity(t) ==
    /\ pc[t] = "name"
    /\ LET missing == {k \in DOMAIN Mentioned(Saying(t)) :
                          Mentioned(Saying(t))[k] \notin Known}
       IN  \/ /\ missing = {}
              /\ pc' = [pc EXCEPT ![t] = "embed"]
              /\ UNCHANGED <<entities, disk>>
           \/ \E k \in missing :
              /\ \A j \in missing : k <= j
              /\ entities' = Append(entities, Mentioned(Saying(t))[k])
              /\ disk' = edges
              /\ UNCHANGED pc
    /\ UNCHANGED <<edges, pinned, pin, server, said, next, failures>>

Current(e) == e.status = "current"

\* D41: an edge to the same person in another exclusive role, as strong.
Rejected(s) ==
    \E i \in DOMAIN edges :
        /\ Current(edges[i]) /\ edges[i].target = s.person
        /\ {edges[i].relation, s.relation} \subseteq Role
        /\ edges[i].relation # s.relation
        /\ edges[i].confidence >= s.confidence

\* The current edges that say what the statement says.
Same(s) == {i \in DOMAIN edges :
                /\ Current(edges[i]) /\ edges[i].target = s.person
                /\ edges[i].relation = s.relation}

NewEdge(s) == [relation |-> s.relation, target |-> s.person,
               confidence |-> s.confidence, status |-> "current"]

Merged(old, s) == IF old < s.confidence THEN s.confidence ELSE old

\* insert_relationship (D40).
AddEdge(s) ==
    IF Same(s) = {} THEN Append(edges, NewEdge(s))
    ELSE LET i == CHOOSE i \in Same(s) : TRUE
         IN  [edges EXCEPT ![i].confidence = Merged(@, s)]

\* Mutant: a turn whose last statement is skipped leaves before the sweep.
GoOnSkipping(t, skipped) ==
    /\ next' = [next EXCEPT ![t] = @ + 1]
    /\ pc' = [pc EXCEPT ![t] = IF next[t] < Len(said[t]) THEN "name"
                               ELSE IF skipped THEN "done" ELSE "sweep"]

GoOn(t, skipped) ==
    /\ next' = [next EXCEPT ![t] = @ + 1]
    /\ pc' = [pc EXCEPT ![t] = IF next[t] < Len(said[t]) THEN "name" ELSE "sweep"]

Related(s) == IF Rejected(s) THEN edges ELSE AddEdge(s)

\* The embedding is in.  A duplicate, a boost, a quarantined fact and a nuance
\* go on without an edge, the duplicate without a commit too.  A fact that is
\* stored is committed before the edge, whose statement or commit may raise.
Relate(t) ==
    /\ Yielded /\ pc[t] = "embed"
    /\ \/ /\ GoOn(t, TRUE)
          /\ disk' \in {disk, edges}
          /\ UNCHANGED <<edges, failures>>
       \/ /\ GoOn(t, FALSE)
          /\ Save(Related(Saying(t)))
          /\ UNCHANGED failures
       \/ /\ GoOn(t, FALSE) /\ Fail
          /\ disk' = edges
          /\ edges' \in {edges, Related(Saying(t))}
    /\ UNCHANGED <<entities, pinned, pin, server, said>>

\* The entity whose edges are swept: the first with a name of the owner.
Anchor == LET named == {i \in DOMAIN entities : entities[i] \in Alias}
          IN  IF named = {} THEN "none"
              ELSE entities[CHOOSE i \in named : \A j \in named : i <= j]

Rival(i, j) ==
    /\ Current(edges[i]) /\ Current(edges[j]) /\ edges[i].target = edges[j].target
    /\ {edges[i].relation, edges[j].relation} \subseteq Role

\* Mutant: the newest edge wins.
BetterNewest(i, j) == i > j

\* The stronger one, and of equals the older.
Better(i, j) ==
    \/ edges[i].confidence > edges[j].confidence
    \/ edges[i].confidence = edges[j].confidence /\ i < j

\* Of the exclusive roles of a person, all but the best.
Losers == {j \in DOMAIN edges :
              Anchor = User /\ \E i \in DOMAIN edges : Rival(i, j) /\ Better(i, j)}

Without(lost) ==
    [j \in DOMAIN edges |-> IF j \in lost THEN [edges[j] EXCEPT !.status = "superseded"]
                            ELSE edges[j]]

\* _sweep_polarity_conflicts.
Sweep(t) ==
    /\ pc[t] = "sweep"
    /\ Save(Without(Losers))
    /\ pc' = [pc EXCEPT ![t] = "done"]
    /\ UNCHANGED <<entities, pinned, pin, server, said, next, failures>>

\* The sweep raises, which is logged: the updates it made wait in the open
\* transaction for the next commit.
SweepFails(t) ==
    /\ pc[t] = "sweep" /\ Fail
    /\ \E lost \in SUBSET Losers : edges' = Without(lost)
    /\ pc' = [pc EXCEPT ![t] = "done"]
    /\ UNCHANGED <<entities, disk, pinned, pin, server, said, next>>

\* Any other statement of the task raises: the turn ends without its sweep.
RaiseTurn(t) ==
    /\ pc[t] \in {"name", "embed"} /\ Fail
    /\ pc[t] = "embed" => Yielded
    /\ pc' = [pc EXCEPT ![t] = "lost"]
    /\ UNCHANGED <<graph, pinned, pin, server, said, next>>

\* The proxy dies and is started again.
CrashProxy ==
    /\ Fail
    /\ edges' = disk
    /\ server' = "check"
    /\ pc' = [t \in Turn |-> IF t \in Active THEN "lost" ELSE pc[t]]
    /\ UNCHANGED <<entities, disk, pinned, pin, said, next>>

GraphNext ==
    \/ BootCheck \/ BootSeed \/ BootFails \/ CrashProxy
    \/ \E t \in Turn :
          \/ Send(t) \/ Extract(t) \/ NameEntity(t) \/ Relate(t)
          \/ Sweep(t) \/ SweepFails(t) \/ RaiseTurn(t)

GraphSpec == GraphInit /\ [][GraphNext]_graphVars

-----------------------------------------------------------------------------
GraphTypeOK ==
    /\ entities \in Seq(Name)
    /\ edges \in Seq(Edge) /\ disk \in Seq(Edge)
    /\ pinned \in BOOLEAN /\ pin \in BOOLEAN
    /\ server \in {"check", "user", "owner", "pin", "serving"}
    /\ pc \in [Turn -> {"unsent", "extract", "name", "embed", "sweep", "done", "lost"}]
    /\ said \in [Turn -> Statements]
    /\ next \in [Turn -> Nat \ {0}]
    /\ failures \in 0..MaxFailures

\* The user has one exclusive role with each person (D41).
NoRivals == \A i, j \in DOMAIN edges : i # j => ~Rival(i, j)

\* When every turn has ended, with nothing failed, there are no rivals, where
\* the startup seeded the owner or the sweep looks at the user's edges.
OneRole == failures = 0 /\ Active = {} /\ (pin \/ Anchor = User) => NoRivals

\* An edge is superseded only in favour of one that still holds and is at least
\* as strong: no failure and no interleaving leaves a person without the role
\* that was best supported.
StrongestKept ==
    \A j \in DOMAIN edges :
        edges[j].status = "superseded" =>
            \E i \in DOMAIN edges :
                /\ Current(edges[i]) /\ edges[i].target = edges[j].target
                /\ edges[i].relation \in Role
                /\ edges[i].confidence >= edges[j].confidence

\* However the seed is cut by a failure or a crash, the proxy started again and
\* the turns interleaved, no name gets a second entity: the user's edges are not
\* split between two of them.
OneEntityEach ==
    \A i, j \in DOMAIN entities : entities[i] = entities[j] => i = j
=============================================================================
