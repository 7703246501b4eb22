----------------------------- MODULE ToolCatalog -----------------------------
(***************************************************************************)
(* The tools an agent lists in its requests: the registry table            *)
(* (src/sieve/tool_registry.py), the fingerprint that decides whether a    *)
(* list is ingested at all (src/sieve/fingerprint.py), and the selection   *)
(* offered to the model instead of the list (src/sieve/classifier.py).     *)
(*                                                                         *)
(* An ingest awaits one embedding per tool that is new or changed, and     *)
(* with an embedding server other requests run meanwhile.  (With the       *)
(* in-process embedder the await does not suspend; those behaviours are    *)
(* the ones where an ingest goes on at once.)                              *)
(***************************************************************************)
EXTENDS Integers, Sequences, FiniteSets

CONSTANTS
    Name,         \* names of tools
    Definition,   \* what can be listed under a name (hashed with it)
    Lists,        \* the tool lists agents send, see ListsAssumption
    Mode,         \* values of config.tools.compression
    MaxTools,     \* config.tools.max_tools_injected
    MaxRequest,   \* requests (a bound)
    MaxInFlight,  \* requests handled at once (a bound)
    MaxRestarts,  \* restarts while serving (a bound)
    MaxFailures   \* failed embeddings, statements and startups (a bound)

Recall == "recall"   \* the proxy's own tool, dropped from every list
NoVector == "none"
NoList == <<>>

Tool == [name : Name \cup {Recall}, definition : Definition]

ASSUME ListsAssumption ==
    /\ Recall \notin Name /\ NoVector \notin Definition
    /\ Lists \subseteq Seq(Tool)
    /\ NoList \in Lists

ASSUME CatalogBounds ==
    /\ MaxTools \in Nat /\ MaxRequest \in Nat /\ MaxInFlight \in Nat
    /\ MaxRestarts \in Nat /\ MaxFailures \in Nat

Request == 1..MaxRequest

VARIABLES
    registry,     \* table tool_registry: a row for each name ever ingested
    fingerprint,  \* the list whose hash the in-memory cache holds, or NoList
    mode,         \* compression of the running process
    marker,       \* fingerprint row "config:tool_compression"
    server,       \* "serving", or the startup step it is at
    pc,           \* where the handler of each request is
    list,         \* the tools each request lists
    position,     \* index of the tool its ingest is embedding
    offered,      \* the tools offered to the model in its place
    overlapped,   \* whether a list has come during the ingest of another
    restarts, failures

vars == <<registry, fingerprint, mode, marker, server,
          pc, list, position, offered, overlapped, restarts, failures>>
handlers == <<pc, list, position, offered, overlapped>>

Row == [definition : Definition, vector : Definition \cup {NoVector},
        lean : Mode, active : BOOLEAN, usage : Nat]

Offer == [name : Name, definition : Definition]

-----------------------------------------------------------------------------
(***************************************************************************)
(* ToolRegistry.                                                           *)
(***************************************************************************)

\* Where a list has its tools: those named recall are dropped before anything
\* else.
Listed(l) == {k \in DOMAIN l : l[k].name # Recall}
Names(l) == {l[k].name : k \in Listed(l)}

\* Same hash as the row: nothing to embed.
Unchanged(rows, tool) ==
    tool.name \in DOMAIN rows /\ rows[tool.name].definition = tool.definition

\* Mutant: the same hash is taken to mean that nothing is to be done.
ReactivateNothing(rows, names) == rows

Reactivate(rows, names) ==
    [n \in DOMAIN rows |->
        IF n \in names THEN [rows[n] EXCEPT !.active = TRUE] ELSE rows[n]]

\* INSERT ... ON CONFLICT(name) DO UPDATE: another request may have inserted
\* the row since this one looked for it.
Upsert(rows, tool, vector) ==
    [n \in DOMAIN rows \cup {tool.name} |->
        IF n # tool.name THEN rows[n]
        ELSE [definition |-> tool.definition, vector |-> vector,
              lean |-> mode, active |-> TRUE,
              usage |-> IF n \in DOMAIN rows THEN rows[n].usage ELSE 0]]

\* Mutant: an ingest that saw no tool deactivates all of them.
DeactivateAlways(rows, seen) ==
    [n \in DOMAIN rows |->
        IF n \in seen THEN rows[n] ELSE [rows[n] EXCEPT !.active = FALSE]]

DeactivateMissing(rows, seen) ==
    IF seen = {} THEN rows
    ELSE [n \in DOMAIN rows |->
            IF n \in seen THEN rows[n] ELSE [rows[n] EXCEPT !.active = FALSE]]

\* Tools that need an embedding, from tool k on.
Stale(rows, l, k) == {i \in Listed(l) : i >= k /\ ~Unchanged(rows, l[i])}

\* The loop of ingest from tool k on: reactivate unchanged tools up to the
\* first one that needs an embedding, and await that; at the end of the list
\* deactivate what it does not name.
Proceed(r, rows, l, k) ==
    LET stale == Stale(rows, l, k)
        upTo(end) == Reactivate(rows, {l[i].name : i \in Listed(l) \cap (k..end)})
    IN  \/ /\ stale = {}
           /\ registry' = DeactivateMissing(upTo(Len(l)), Names(l))
           /\ pc' = [pc EXCEPT ![r] = "compose"]
           /\ position' = [position EXCEPT ![r] = 1]
        \/ \E i \in stale :
           /\ \A j \in stale : i <= j
           /\ registry' = upTo(i - 1)
           /\ pc' = [pc EXCEPT ![r] = "embed"]
           /\ position' = [position EXCEPT ![r] = i]

ActiveNames == {n \in DOMAIN registry : registry[n].active}

-----------------------------------------------------------------------------
InFlight == {r \in Request : pc[r] \in {"embed", "compose", "upstream"}}

Init ==
    /\ registry = <<>>
    /\ fingerprint = NoList
    /\ mode \in Mode /\ marker = mode
    /\ server = "serving"
    /\ pc = [r \in Request |-> "unsent"]
    /\ list = [r \in Request |-> NoList]
    /\ position = [r \in Request |-> 1]
    /\ offered = [r \in Request |-> {}]
    /\ overlapped = FALSE
    /\ restarts = 0 /\ failures = 0

\* FingerprintCache.check_and_update, called for a list that is not empty.
FingerprintAfter(l) == IF l = NoList THEN fingerprint ELSE l

\* decompose records the fingerprint at once; only a list that differs from
\* the last one recorded is ingested.
Receive(r, l) ==
    /\ server = "serving"
    /\ pc[r] = "unsent" /\ \A q \in 1..(r - 1) : pc[q] # "unsent"
    /\ Cardinality(InFlight) < MaxInFlight
    /\ list' = [list EXCEPT ![r] = l]
    /\ fingerprint' = FingerprintAfter(l)
    /\ overlapped' = (overlapped \/ \E q \in Request : pc[q] = "embed")
    /\ IF l = NoList \/ l = fingerprint
       THEN pc' = [pc EXCEPT ![r] = "compose"] /\ UNCHANGED <<registry, position>>
       ELSE Proceed(r, registry, l, 1)
    /\ UNCHANGED <<mode, marker, server, offered, restarts, failures>>

Fail == failures < MaxFailures /\ failures' = failures + 1

\* The embedding is in: write the row and go on.
Embedded(r) ==
    /\ server = "serving" /\ pc[r] = "embed"
    /\ LET tool == list[r][position[r]]
           Write(vector) ==
               Proceed(r, Upsert(registry, tool, vector), list[r], position[r] + 1)
       IN  \/ Write(tool.definition) /\ UNCHANGED failures
           \/ Write(NoVector) /\ Fail       \* the embedding failed
    /\ UNCHANGED <<fingerprint, mode, marker, server, list, offered, overlapped,
                   restarts>>

\* A statement of the ingest raises: the rest of the list is skipped and the
\* request goes on; the fingerprint stays.
IngestFails(r) ==
    /\ server = "serving" /\ pc[r] = "embed"
    /\ Fail
    /\ pc' = [pc EXCEPT ![r] = "compose"]
    /\ position' = [position EXCEPT ![r] = 1]
    /\ UNCHANGED <<registry, fingerprint, mode, marker, server,
                   list, offered, overlapped, restarts>>

\* The selection for the query: by category, by similarity or all of them, but
\* always of the rows active when it reads them, whatever the request listed.
\* When the selector raises, the request's own tools pass.
Compose(r) ==
    /\ server = "serving" /\ pc[r] = "compose"
    /\ \/ /\ \E chosen \in SUBSET ActiveNames :
               /\ Cardinality(chosen) <= MaxTools
               /\ offered' = [offered EXCEPT ![r] =
                    {[name |-> n, definition |-> registry[n].definition] : n \in chosen}]
          /\ UNCHANGED failures
       \/ /\ Fail
          /\ offered' = [offered EXCEPT ![r] =
                {list[r][k] : k \in Listed(list[r])}]
    /\ pc' = [pc EXCEPT ![r] = "upstream"]
    /\ UNCHANGED <<registry, fingerprint, mode, marker, server,
                   list, position, overlapped, restarts>>

\* The answer: text, or a call of a tool, which is counted when the registry
\* knows its name (a model may call a tool it was not offered).
Answer(r) ==
    /\ server = "serving" /\ pc[r] = "upstream"
    /\ \/ UNCHANGED registry
       \/ \E n \in DOMAIN registry : registry' = [registry EXCEPT ![n].usage = @ + 1]
    /\ pc' = [pc EXCEPT ![r] = "done"]
    /\ list' = [list EXCEPT ![r] = NoList]
    /\ offered' = [offered EXCEPT ![r] = {}]
    /\ UNCHANGED <<fingerprint, mode, marker, server,
                   position, overlapped, restarts, failures>>

\* A process starts with the compression of its configuration and an empty
\* fingerprint cache (the cache is created before the store is opened).
Start(m) ==
    /\ mode' = m
    /\ server' = IF marker = m THEN "serving" ELSE "recompute"
    /\ fingerprint' = NoList
    /\ pc' = [r \in Request |-> IF r \in InFlight THEN "done" ELSE pc[r]]
    /\ list' = [r \in Request |-> NoList]
    /\ position' = [r \in Request |-> 1]
    /\ offered' = [r \in Request |-> {}]
    /\ UNCHANGED <<registry, marker, overlapped>>

Restart(m) ==
    /\ server = "serving" /\ restarts < MaxRestarts
    /\ restarts' = restarts + 1
    /\ Start(m)
    /\ UNCHANGED failures

\* The process dies between two commits of its startup and is started again.
StartupDies(m) ==
    /\ server # "serving" /\ Fail
    /\ Start(m)
    /\ UNCHANGED restarts

\* Mutant: only active tools are recomputed.
RecomputeActive ==
    /\ server = "recompute"
    /\ registry' = [n \in DOMAIN registry |->
            IF registry[n].active THEN [registry[n] EXCEPT !.lean = mode]
            ELSE registry[n]]
    /\ server' = "mark"
    /\ UNCHANGED <<fingerprint, mode, marker, handlers, restarts, failures>>

Recompute ==
    /\ server = "recompute"
    /\ registry' = [n \in DOMAIN registry |-> [registry[n] EXCEPT !.lean = mode]]
    /\ server' = "mark"
    /\ UNCHANGED <<fingerprint, mode, marker, handlers, restarts, failures>>

Mark ==
    /\ server = "mark"
    /\ marker' = mode
    /\ server' = "serving"
    /\ UNCHANGED <<registry, fingerprint, mode, handlers, restarts, failures>>

Next ==
    \/ \E r \in Request :
        \/ \E l \in Lists : Receive(r, l)
        \/ Embedded(r) \/ IngestFails(r) \/ Compose(r) \/ Answer(r)
    \/ \E m \in Mode : Restart(m) \/ StartupDies(m)
    \/ Recompute \/ Mark

Spec == Init /\ [][Next]_vars

-----------------------------------------------------------------------------
TypeOK ==
    /\ DOMAIN registry \subseteq Name
    /\ \A n \in DOMAIN registry : registry[n] \in Row
    /\ fingerprint \in Lists
    /\ mode \in Mode /\ marker \in Mode
    /\ server \in {"serving", "recompute", "mark"}
    /\ pc \in [Request -> {"unsent", "embed", "compose", "upstream", "done"}]
    /\ list \in [Request -> Lists]
    /\ position \in [Request -> Nat \ {0}]
    /\ offered \in [Request -> SUBSET Offer]
    /\ overlapped \in BOOLEAN
    /\ restarts \in 0..MaxRestarts /\ failures \in 0..MaxFailures

\* However ingests overlap, fail or are cut off, the catalog is never emptied:
\* the last tool an ingest handles is active when it deactivates the others.
NeverEmptied == DOMAIN registry # {} => ActiveNames # {}

\* A tool that every list names stays active once it is in the registry: the
\* deactivation of one ingest may undo what another ingest has done so far,
\* but not to a tool both of them list.
Unanimous == {n \in Name : \A l \in Lists : Names(l) # {} => n \in Names(l)}
UnanimousStay == Unanimous \cap DOMAIN registry \subseteq ActiveNames

\* The tools that define their names: the last one, when a name comes twice.
Defining(l) == {k \in Listed(l) : \A j \in Listed(l) : l[j].name = l[k].name => j <= k}

Idle == server = "serving" /\ \A r \in Request : pc[r] # "embed"

\* When no ingest is under way and none has failed, the active tools are those
\* of the last list, in its definitions: the fingerprint, which lets the next
\* equal list skip its ingest, never vouches for a catalog that is not there.
\* It holds across restarts at any point, as long as no list has come while an
\* ingest awaited an embedding.
CatalogFollowsAgent ==
    Idle /\ ~overlapped /\ failures = 0 /\ Names(fingerprint) # {} =>
        /\ ActiveNames = Names(fingerprint)
        /\ \A k \in Defining(fingerprint) :
            registry[fingerprint[k].name].definition = fingerprint[k].definition

\* Every lean schema is in the compression the process runs with, also those
\* of inactive tools, which a later list may bring back without rewriting them.
\* (Not after a startup that died between the recomputation and its marker, when
\* the next start has the compression of the marker again.)
LeanMatchesMode ==
    server = "serving" /\ failures = 0 =>
        \A n \in DOMAIN registry : registry[n].lean = mode
=============================================================================
