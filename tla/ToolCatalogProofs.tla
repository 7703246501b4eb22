-------------------------- MODULE ToolCatalogProofs --------------------------
(***************************************************************************)
(* Theorems about ToolCatalog: for any tools, lists, number of overlapping *)
(* requests, restarts and failures.                                        *)
(***************************************************************************)
EXTENDS ToolCatalog, TLAPS

Rows(rows) == DOMAIN rows \subseteq Name /\ \A n \in DOMAIN rows : rows[n] \in Row

\* Names a list gives from place j to place k.
Between(l, j, k) == {l[i].name : i \in Listed(l) \cap (j..k)}

\* An ingest that waits is at a tool of its list.
AtTool == \A r \in Request : pc[r] = "embed" => position[r] \in Listed(list[r])

-----------------------------------------------------------------------------
(***************************************************************************)
(* What the statements of an ingest do to the rows.                        *)
(***************************************************************************)

LEMMA ReactivateRows ==
    ASSUME NEW rows, Rows(rows), NEW names
    PROVE  LET new == Reactivate(rows, names)
           IN  /\ Rows(new) /\ DOMAIN new = DOMAIN rows
               /\ \A n \in DOMAIN rows :
                    /\ new[n].definition = rows[n].definition
                    /\ new[n].lean = rows[n].lean
                    /\ new[n].active <=> rows[n].active \/ n \in names
BY DEF Rows, Reactivate, Row

LEMMA DeactivateRows ==
    ASSUME NEW rows, Rows(rows), NEW seen
    PROVE  LET new == DeactivateMissing(rows, seen)
           IN  /\ Rows(new) /\ DOMAIN new = DOMAIN rows
               /\ \A n \in DOMAIN rows :
                    /\ new[n].definition = rows[n].definition
                    /\ new[n].lean = rows[n].lean
                    /\ new[n].active <=> rows[n].active /\ (seen = {} \/ n \in seen)
BY DEF Rows, DeactivateMissing, Row

LEMMA UpsertRows ==
    ASSUME NEW rows, Rows(rows), mode \in Mode,
           NEW tool \in Offer, NEW vector \in Definition \cup {NoVector}
    PROVE  LET new == Upsert(rows, tool, vector)
           IN  /\ Rows(new) /\ DOMAIN new = DOMAIN rows \cup {tool.name}
               /\ new[tool.name].definition = tool.definition
               /\ new[tool.name].lean = mode
               /\ new[tool.name].active
               /\ \A n \in DOMAIN rows : n # tool.name => new[n] = rows[n]
BY DEF Rows, Upsert, Row, Offer

LEMMA ListedTools ==
    ASSUME NEW l \in Lists
    PROVE  /\ Len(l) \in Nat /\ Listed(l) \subseteq 1..Len(l)
           /\ \A k \in Listed(l) : l[k] \in Offer
           /\ Names(l) \subseteq Name
           /\ Between(l, 1, Len(l)) = Names(l)
<1>1. l \in Seq(Tool)
  BY ListsAssumption
<1>2. \A k \in Listed(l) : k \in 1..Len(l) /\ l[k] \in Tool /\ l[k].name # Recall
  BY <1>1 DEF Listed
<1>3. \A k \in Listed(l) : l[k] \in Offer
  BY <1>2 DEF Tool, Offer
<1> QED
  BY <1>1, <1>2, <1>3 DEF Names, Between, Offer

\* The outcomes of running an ingest from place k on: it ends, or it waits at
\* the next tool that needs an embedding.
Ended(r, rows, l, k) ==
    /\ Stale(rows, l, k) = {}
    /\ Rows(registry') /\ DOMAIN registry' = DOMAIN rows
    /\ \A n \in DOMAIN rows :
        /\ registry'[n].definition = rows[n].definition
        /\ registry'[n].lean = rows[n].lean
        /\ registry'[n].active <=>
             /\ rows[n].active \/ n \in Between(l, k, Len(l))
             /\ Names(l) = {} \/ n \in Names(l)
    /\ pc' = [pc EXCEPT ![r] = "compose"]
    /\ position' = [position EXCEPT ![r] = 1]

WaitsAt(r, rows, l, k, i) ==
    /\ i \in Stale(rows, l, k) /\ \A j \in Stale(rows, l, k) : i <= j
    /\ Rows(registry') /\ DOMAIN registry' = DOMAIN rows
    /\ \A n \in DOMAIN rows :
        /\ registry'[n].definition = rows[n].definition
        /\ registry'[n].lean = rows[n].lean
        /\ registry'[n].active <=> rows[n].active \/ n \in Between(l, k, i - 1)
    /\ pc' = [pc EXCEPT ![r] = "embed"]
    /\ position' = [position EXCEPT ![r] = i]

LEMMA ProceedOutcomes ==
    ASSUME NEW r, NEW rows, Rows(rows), NEW l, NEW k, Proceed(r, rows, l, k)
    PROVE  Ended(r, rows, l, k) \/ \E i \in Stale(rows, l, k) : WaitsAt(r, rows, l, k, i)
<1> DEFINE upTo(end) == Reactivate(rows, Between(l, k, end))
<1>1. CASE /\ Stale(rows, l, k) = {}
           /\ registry' = DeactivateMissing(upTo(Len(l)), Names(l))
           /\ pc' = [pc EXCEPT ![r] = "compose"]
           /\ position' = [position EXCEPT ![r] = 1]
  <2>1. /\ Rows(upTo(Len(l))) /\ DOMAIN upTo(Len(l)) = DOMAIN rows
        /\ \A n \in DOMAIN rows :
             /\ upTo(Len(l))[n].definition = rows[n].definition
             /\ upTo(Len(l))[n].lean = rows[n].lean
             /\ upTo(Len(l))[n].active <=> rows[n].active \/ n \in Between(l, k, Len(l))
    BY ReactivateRows
  <2> HIDE DEF upTo
  <2> QED
    BY <1>1, <2>1, DeactivateRows DEF Ended
<1>2. CASE \E i \in Stale(rows, l, k) :
               /\ \A j \in Stale(rows, l, k) : i <= j
               /\ registry' = upTo(i - 1)
               /\ pc' = [pc EXCEPT ![r] = "embed"]
               /\ position' = [position EXCEPT ![r] = i]
  <2> PICK i \in Stale(rows, l, k) :
               /\ \A j \in Stale(rows, l, k) : i <= j
               /\ registry' = upTo(i - 1)
               /\ pc' = [pc EXCEPT ![r] = "embed"]
               /\ position' = [position EXCEPT ![r] = i]
    BY <1>2
  <2>1. /\ Rows(upTo(i - 1)) /\ DOMAIN upTo(i - 1) = DOMAIN rows
        /\ \A n \in DOMAIN rows :
             /\ upTo(i - 1)[n].definition = rows[n].definition
             /\ upTo(i - 1)[n].lean = rows[n].lean
             /\ upTo(i - 1)[n].active <=> rows[n].active \/ n \in Between(l, k, i - 1)
    BY ReactivateRows
  <2> HIDE DEF upTo
  <2>2. WaitsAt(r, rows, l, k, i)
    BY <2>1 DEF WaitsAt
  <2> QED
    BY <2>2
<1> QED
  BY <1>1, <1>2 DEF Proceed, Between

-----------------------------------------------------------------------------
(***************************************************************************)
(* Type correctness.                                                       *)
(***************************************************************************)

TypeInv == TypeOK /\ AtTool

LEMMA InitTypes == Init => TypeInv
<1> SUFFICES ASSUME Init PROVE TypeInv
  OBVIOUS
<1> USE ListsAssumption, CatalogBounds DEF Init
<1>1. DOMAIN registry = {}
  OBVIOUS
<1>2. /\ fingerprint \in Lists /\ marker \in Mode
      /\ list \in [Request -> Lists] /\ position \in [Request -> Nat \ {0}]
      /\ offered \in [Request -> SUBSET Offer]
  OBVIOUS
<1>3. 0 \in 0..MaxRestarts /\ 0 \in 0..MaxFailures
  OBVIOUS
<1>4. /\ pc \in [Request -> {"unsent", "embed", "compose", "upstream", "done"}]
      /\ AtTool
  BY DEF AtTool
<1> QED
  BY <1>1, <1>2, <1>3, <1>4 DEF TypeInv, TypeOK

LEMMA ProceedTypes ==
    ASSUME TypeInv, NEW r \in Request, NEW rows, Rows(rows), NEW l \in Lists, NEW k \in Nat \ {0},
           Proceed(r, rows, l, k), list' = [list EXCEPT ![r] = l]
    PROVE  /\ Rows(registry')
           /\ pc' \in [Request -> {"unsent", "embed", "compose", "upstream", "done"}]
           /\ position' \in [Request -> Nat \ {0}]
           /\ list' \in [Request -> Lists]
           /\ AtTool'
<1>1. CASE Ended(r, rows, l, k)
  BY <1>1 DEF Ended, TypeInv, TypeOK, AtTool
<1>2. CASE \E i \in Stale(rows, l, k) : WaitsAt(r, rows, l, k, i)
  <2> PICK i \in Stale(rows, l, k) : WaitsAt(r, rows, l, k, i)
    BY <1>2
  <2>1. i \in Listed(l) /\ i \in Nat \ {0}
    BY ListedTools DEF Stale
  <2> QED
    BY <2>1 DEF WaitsAt, TypeInv, TypeOK, AtTool
<1> QED
  BY <1>1, <1>2, ProceedOutcomes

LEMMA ReceiveTypes ==
    ASSUME TypeInv, NEW r \in Request, NEW l \in Lists, Receive(r, l)
    PROVE  TypeInv'
<1> USE DEF Receive
<1>1. fingerprint' \in Lists /\ overlapped' \in BOOLEAN
  BY DEF FingerprintAfter, TypeInv, TypeOK
<1>2. CASE l = NoList \/ l = fingerprint
  BY <1>1, <1>2 DEF TypeInv, TypeOK, AtTool
<1>3. CASE ~(l = NoList \/ l = fingerprint)
  <2>1. Proceed(r, registry, l, 1) /\ Rows(registry)
    BY <1>3 DEF TypeInv, TypeOK, Rows
  <2>2. list' = [list EXCEPT ![r] = l] /\ 1 \in Nat \ {0}
    OBVIOUS
  <2> HIDE DEF Receive
  <2>3. /\ Rows(registry')
        /\ pc' \in [Request -> {"unsent", "embed", "compose", "upstream", "done"}]
        /\ position' \in [Request -> Nat \ {0}]
        /\ list' \in [Request -> Lists]
        /\ AtTool'
    BY <2>1, <2>2, ProceedTypes
  <2> QED
    BY <1>1, <2>3 DEF Receive, TypeInv, TypeOK, Rows
<1> QED
  BY <1>2, <1>3

\* The rows an ingest goes on with after an embedding, and its tool.
LEMMA EmbeddedOutcomes ==
    ASSUME TypeInv, NEW r \in Request, Embedded(r)
    PROVE  LET tool == list[r][position[r]]
           IN  /\ list[r] \in Lists /\ position[r] \in Listed(list[r])
               /\ position[r] + 1 \in Nat \ {0} /\ tool \in Offer
               /\ \E vector \in Definition \cup {NoVector} :
                    /\ Rows(Upsert(registry, tool, vector))
                    /\ Proceed(r, Upsert(registry, tool, vector), list[r], position[r] + 1)
<1> DEFINE tool == list[r][position[r]]
<1>1. list[r] \in Lists /\ position[r] \in Listed(list[r]) /\ position[r] \in Nat \ {0}
  BY DEF Embedded, TypeInv, TypeOK, AtTool
<1>2. tool \in Offer
  BY <1>1, ListedTools
<1>3. Rows(registry) /\ mode \in Mode
  BY DEF TypeInv, TypeOK, Rows
<1>4. \A vector \in Definition \cup {NoVector} : Rows(Upsert(registry, tool, vector))
  BY <1>2, <1>3, UpsertRows
<1>5. \E vector \in Definition \cup {NoVector} :
         Proceed(r, Upsert(registry, tool, vector), list[r], position[r] + 1)
  BY <1>2 DEF Embedded, Offer
<1> QED
  BY <1>1, <1>2, <1>4, <1>5

LEMMA EmbeddedTypes ==
    ASSUME TypeInv, NEW r \in Request, Embedded(r)
    PROVE  TypeInv'
<1>1. PICK vector \in Definition \cup {NoVector} :
         /\ Rows(Upsert(registry, list[r][position[r]], vector))
         /\ Proceed(r, Upsert(registry, list[r][position[r]], vector), list[r], position[r] + 1)
  BY EmbeddedOutcomes
<1>2. list' = [list EXCEPT ![r] = list[r]]
  BY DEF Embedded, TypeInv, TypeOK
<1>3. list[r] \in Lists /\ position[r] + 1 \in Nat \ {0}
  BY EmbeddedOutcomes
<1>4. /\ Rows(registry')
      /\ pc' \in [Request -> {"unsent", "embed", "compose", "upstream", "done"}]
      /\ position' \in [Request -> Nat \ {0}]
      /\ list' \in [Request -> Lists]
      /\ AtTool'
  BY <1>1, <1>2, <1>3, ProceedTypes
<1>5. failures' \in 0..MaxFailures
  BY CatalogBounds DEF Embedded, Fail, TypeInv, TypeOK
<1> QED
  BY <1>4, <1>5 DEF Embedded, TypeInv, TypeOK, Rows

\* The steps that are neither a list nor an embedding, in the order of Next.
Rest(r) == IngestFails(r) \/ Compose(r) \/ Answer(r)
Boot == (\E m \in Mode : Restart(m) \/ StartupDies(m)) \/ Recompute \/ Mark

LEMMA RestTypes ==
    ASSUME TypeInv, NEW r \in Request, Rest(r)
    PROVE  TypeInv'
<1>1. ASSUME Fail PROVE failures' \in 0..MaxFailures
  BY <1>1, CatalogBounds DEF Fail, TypeInv, TypeOK
<1>2. CASE IngestFails(r)
  BY <1>1, <1>2 DEF IngestFails, TypeInv, TypeOK, AtTool
<1>3. CASE Compose(r)
  <2>1. offered' \in [Request -> SUBSET Offer]
    <3>1. ASSUME NEW chosen \in SUBSET ActiveNames
          PROVE  {[name |-> n, definition |-> registry[n].definition] : n \in chosen}
                 \in SUBSET Offer
      BY DEF ActiveNames, TypeInv, TypeOK, Row, Offer
    <3>2. {list[r][k] : k \in Listed(list[r])} \in SUBSET Offer
      <4>1. list[r] \in Lists
        BY DEF TypeInv, TypeOK
      <4> QED
        BY <4>1, ListedTools
    <3> QED
      BY <1>3, <3>1, <3>2 DEF Compose, TypeInv, TypeOK
  <2>2. failures' \in 0..MaxFailures
    BY <1>1, <1>3 DEF Compose, TypeInv, TypeOK
  <2> QED
    BY <1>3, <2>1, <2>2 DEF Compose, TypeInv, TypeOK, AtTool
<1>4. CASE Answer(r)
  <2>1. DOMAIN registry' \subseteq Name /\ \A n \in DOMAIN registry' : registry'[n] \in Row
    <3>1. CASE UNCHANGED registry
      BY <3>1 DEF TypeInv, TypeOK
    <3>2. CASE \E n \in DOMAIN registry : registry' = [registry EXCEPT ![n].usage = @ + 1]
      BY <3>2 DEF TypeInv, TypeOK, Row
    <3> QED
      BY <1>4, <3>1, <3>2 DEF Answer
  <2> QED
    BY <1>4, <2>1, ListsAssumption DEF Answer, TypeInv, TypeOK, AtTool
<1> QED
  BY <1>2, <1>3, <1>4 DEF Rest

LEMMA BootTypes == TypeInv /\ Boot => TypeInv'
<1> SUFFICES ASSUME TypeInv, Boot PROVE TypeInv'
  OBVIOUS
<1> USE ListsAssumption DEF TypeInv, TypeOK
<1>1. ASSUME NEW m \in Mode, Restart(m) \/ StartupDies(m) PROVE TypeInv'
  <2>1. restarts' \in 0..MaxRestarts /\ failures' \in 0..MaxFailures
    BY <1>1, CatalogBounds DEF Restart, StartupDies, Fail
  <2>2. Start(m)
    BY <1>1 DEF Restart, StartupDies
  <2> QED
    BY <2>1, <2>2 DEF Start, InFlight, AtTool
<1>2. CASE Recompute
  BY <1>2 DEF Recompute, handlers, AtTool, Row
<1>3. CASE Mark
  BY <1>3 DEF Mark, handlers, AtTool
<1> QED
  BY <1>1, <1>2, <1>3 DEF Boot

LEMMA StutterTypes == TypeInv /\ UNCHANGED vars => TypeInv'
BY DEF TypeInv, TypeOK, AtTool, vars

LEMMA NextCases ==
    Next => \/ \E r \in Request :
                 \/ \E l \in Lists : Receive(r, l)
                 \/ Embedded(r) \/ Rest(r)
            \/ Boot
BY DEF Next, Rest, Boot

LEMMA TypeStep == TypeInv /\ [Next]_vars => TypeInv'
BY NextCases, ReceiveTypes, EmbeddedTypes, RestTypes, BootTypes, StutterTypes

LEMMA TypesKept == Spec => []TypeInv
BY InitTypes, TypeStep, PTL DEF Spec

\* Type correctness, whatever fails, overlaps or is restarted: an ingest never
\* upserts a row that is not a tool's.
THEOREM CatalogTypeCorrect == Spec => []TypeOK
<1>1. TypeInv => TypeOK
  BY DEF TypeInv
<1> QED
  BY <1>1, TypesKept, PTL

-----------------------------------------------------------------------------
(***************************************************************************)
(* The catalog is never emptied, and what all lists name stays.            *)
(***************************************************************************)

\* A tool that the rows have active and the list names, if it names any, is
\* active after each outcome.
LEMMA ActiveStays ==
    ASSUME NEW r, NEW rows, Rows(rows), NEW l, NEW k, Proceed(r, rows, l, k),
           NEW n \in DOMAIN rows, rows[n].active, Names(l) = {} \/ n \in Names(l)
    PROVE  n \in DOMAIN registry' /\ registry'[n].active
BY ProceedOutcomes DEF Ended, WaitsAt

LEMMA NeverEmptiedStep ==
    ASSUME TypeInv, NeverEmptied, Next
    PROVE  NeverEmptied'
<1> USE DEF NeverEmptied, ActiveNames
<1>1. ASSUME NEW r \in Request, NEW l \in Lists, Receive(r, l) PROVE NeverEmptied'
  <2>1. CASE l = NoList \/ l = fingerprint
    BY <1>1, <2>1 DEF Receive
  <2>2. CASE ~(l = NoList \/ l = fingerprint)
    <3>1. Proceed(r, registry, l, 1) /\ Rows(registry)
      BY <1>1, <2>2 DEF Receive, TypeInv, TypeOK, Rows
    <3>2. CASE Ended(r, registry, l, 1)
      <4>1. CASE Names(l) = {}
        BY <3>2, <4>1 DEF Ended
      <4>2. CASE Names(l) # {}
        <5>1. PICK i \in Listed(l) : TRUE
          BY <4>2 DEF Names
        <5>2. l[i].name \in DOMAIN registry
          BY <3>2, <5>1, ListedTools DEF Ended, Stale, Unchanged
        <5>3. l[i].name \in Between(l, 1, Len(l)) /\ l[i].name \in Names(l)
          BY <5>1, ListedTools DEF Names
        <5> QED
          BY <3>2, <5>2, <5>3 DEF Ended
      <4> QED
        BY <4>1, <4>2
    <3>3. CASE \E i \in Stale(registry, l, 1) : WaitsAt(r, registry, l, 1, i)
      BY <3>3 DEF WaitsAt
    <3> QED
      BY <3>1, <3>2, <3>3, ProceedOutcomes
  <2> QED
    BY <2>1, <2>2
<1>2. ASSUME NEW r \in Request, Embedded(r) PROVE NeverEmptied'
  <2> DEFINE tool == list[r][position[r]]
  <2>1. PICK vector \in Definition \cup {NoVector} :
           /\ Rows(Upsert(registry, tool, vector))
           /\ Proceed(r, Upsert(registry, tool, vector), list[r], position[r] + 1)
    BY <1>2, EmbeddedOutcomes
  <2>2. tool.name \in DOMAIN Upsert(registry, tool, vector)
        /\ Upsert(registry, tool, vector)[tool.name].active
    BY DEF Upsert
  <2>3. tool.name \in Names(list[r])
    BY <1>2, EmbeddedOutcomes DEF Names
  <2> HIDE DEF tool
  <2>4. tool.name \in DOMAIN registry' /\ registry'[tool.name].active
    BY <2>1, <2>2, <2>3, ActiveStays
  <2> QED
    BY <2>4
<1>3. ASSUME NEW r \in Request, Rest(r) PROVE NeverEmptied'
  BY <1>3 DEF Rest, IngestFails, Compose, Answer, TypeInv, TypeOK, Row
<1>4. CASE Boot
  BY <1>4 DEF Boot, Restart, StartupDies, Start, Recompute, Mark, TypeInv, TypeOK, Row
<1> QED
  BY <1>1, <1>2, <1>3, <1>4, NextCases

\* However many ingests overlap, fail or are cut off, the catalog is never
\* left without an active tool once it has had one.
THEOREM NeverEmptiedAlways == Spec => []NeverEmptied
<1>1. Init => NeverEmptied
  BY DEF Init, NeverEmptied
<1>2. TypeInv /\ NeverEmptied /\ [Next]_vars => NeverEmptied'
  BY NeverEmptiedStep DEF NeverEmptied, ActiveNames, vars
<1> QED
  BY <1>1, <1>2, TypesKept, PTL DEF Spec

LEMMA UnanimousStayStep ==
    ASSUME TypeInv, UnanimousStay, Next
    PROVE  UnanimousStay'
<1> SUFFICES ASSUME NEW n \in Unanimous, n \in DOMAIN registry'
             PROVE  registry'[n].active
  BY DEF UnanimousStay, ActiveNames, Unanimous
<1>1. \A l \in Lists : Names(l) = {} \/ n \in Names(l)
  BY DEF Unanimous
<1>2. n \in DOMAIN registry => registry[n].active
  BY DEF UnanimousStay, ActiveNames
<1>3. ASSUME NEW r \in Request, NEW l \in Lists, Receive(r, l) PROVE registry'[n].active
  <2>1. CASE l = NoList \/ l = fingerprint
    BY <1>2, <1>3, <2>1 DEF Receive
  <2>2. CASE ~(l = NoList \/ l = fingerprint)
    <3>1. Proceed(r, registry, l, 1) /\ Rows(registry)
      BY <1>3, <2>2 DEF Receive, TypeInv, TypeOK, Rows
    <3>2. n \in DOMAIN registry
      BY <3>1, ProceedOutcomes DEF Ended, WaitsAt
    <3> QED
      BY <1>1, <1>2, <3>1, <3>2, ActiveStays
  <2> QED
    BY <2>1, <2>2
<1>4. ASSUME NEW r \in Request, Embedded(r) PROVE registry'[n].active
  <2> DEFINE tool == list[r][position[r]]
  <2>1. PICK vector \in Definition \cup {NoVector} :
           /\ Rows(Upsert(registry, tool, vector))
           /\ Proceed(r, Upsert(registry, tool, vector), list[r], position[r] + 1)
    BY <1>4, EmbeddedOutcomes
  <2>2. n \in DOMAIN Upsert(registry, tool, vector)
    BY <2>1, ProceedOutcomes DEF Ended, WaitsAt
  <2>3. Upsert(registry, tool, vector)[n].active
    BY <1>2, <2>2 DEF Upsert
  <2>4. list[r] \in Lists
    BY DEF TypeInv, TypeOK
  <2> HIDE DEF tool
  <2> QED
    BY <1>1, <2>1, <2>2, <2>3, <2>4, ActiveStays
<1>5. ASSUME NEW r \in Request, Rest(r) PROVE registry'[n].active
  BY <1>2, <1>5 DEF Rest, IngestFails, Compose, Answer, TypeInv, TypeOK, Row
<1>6. CASE Boot
  BY <1>2, <1>6 DEF Boot, Restart, StartupDies, Start, Recompute, Mark, TypeInv, TypeOK, Row
<1> QED
  BY <1>3, <1>4, <1>5, <1>6, NextCases

\* A tool that every list names, once registered, is active for good: no
\* ingest deactivates what another one lists too.
THEOREM UnanimousStayAlways == Spec => []UnanimousStay
<1>1. Init => UnanimousStay
  BY DEF Init, UnanimousStay
<1>2. TypeInv /\ UnanimousStay /\ [Next]_vars => UnanimousStay'
  BY UnanimousStayStep DEF UnanimousStay, Unanimous, ActiveNames, vars
<1> QED
  BY <1>1, <1>2, TypesKept, PTL DEF Spec

-----------------------------------------------------------------------------
(***************************************************************************)
(* Lean schemas are in the compression of the process.                     *)
(***************************************************************************)

AllLean == \A n \in DOMAIN registry : registry[n].lean = mode

\* LeanMatchesMode with the startup in between: between the two commits the
\* rows are recomputed already, and a marker that says the mode vouches for
\* them as long as no startup has died.
LeanSteps ==
    /\ server = "mark" => AllLean
    /\ server = "serving" /\ failures = 0 => marker = mode /\ AllLean

LEMMA ProceedLean ==
    ASSUME NEW r, NEW rows, Rows(rows), NEW l, NEW k, Proceed(r, rows, l, k),
           \A n \in DOMAIN rows : rows[n].lean = mode
    PROVE  \A n \in DOMAIN registry' : registry'[n].lean = mode
<1>1. CASE Ended(r, rows, l, k)
  BY <1>1 DEF Ended
<1>2. CASE \E i \in Stale(rows, l, k) : WaitsAt(r, rows, l, k, i)
  BY <1>2 DEF WaitsAt
<1> QED
  BY <1>1, <1>2, ProceedOutcomes

LEMMA LeanStepsStep ==
    ASSUME TypeInv, LeanSteps, Next
    PROVE  LeanSteps'
<1> USE DEF LeanSteps, AllLean
<1>1. ASSUME NEW r \in Request, NEW l \in Lists, Receive(r, l) PROVE LeanSteps'
  <2>1. CASE l = NoList \/ l = fingerprint
    BY <1>1, <2>1 DEF Receive
  <2>2. CASE ~(l = NoList \/ l = fingerprint)
    BY <1>1, <2>2, ProceedLean DEF Receive, TypeInv, TypeOK, Rows
  <2> QED
    BY <2>1, <2>2
<1>2. ASSUME NEW r \in Request, Embedded(r) PROVE LeanSteps'
  <2> DEFINE tool == list[r][position[r]]
  <2>1. PICK vector \in Definition \cup {NoVector} :
           /\ Rows(Upsert(registry, tool, vector))
           /\ Proceed(r, Upsert(registry, tool, vector), list[r], position[r] + 1)
    BY <1>2, EmbeddedOutcomes
  <2>2. server = "serving" /\ server' = server /\ mode' = mode /\ marker' = marker
    BY <1>2 DEF Embedded
  <2>3. failures' = 0 => failures = 0
    BY <1>2 DEF Embedded, Fail, TypeInv, TypeOK
  <2>4. AllLean => \A n \in DOMAIN Upsert(registry, tool, vector) :
                      Upsert(registry, tool, vector)[n].lean = mode
    BY DEF Upsert
  <2> HIDE DEF tool
  <2> QED
    BY <2>1, <2>2, <2>3, <2>4, ProceedLean
<1>3. ASSUME NEW r \in Request, Rest(r) PROVE LeanSteps'
  <2>1. failures' = 0 => failures = 0
    BY <1>3 DEF Rest, IngestFails, Compose, Answer, Fail, TypeInv, TypeOK
  <2>2. CASE IngestFails(r) \/ Compose(r)
    BY <2>1, <2>2 DEF IngestFails, Compose
  <2>3. CASE Answer(r)
    BY <2>1, <2>3 DEF Answer, TypeInv, TypeOK, Row
  <2> QED
    BY <1>3, <2>2, <2>3 DEF Rest
<1>4. ASSUME NEW m \in Mode, Restart(m) PROVE LeanSteps'
  BY <1>4 DEF Restart, Start
<1>5. ASSUME NEW m \in Mode, StartupDies(m) PROVE LeanSteps'
  BY <1>5 DEF StartupDies, Start, Fail, TypeInv, TypeOK
<1>6. CASE Recompute
  BY <1>6 DEF Recompute, TypeInv, TypeOK, Row
<1>7. CASE Mark
  BY <1>7 DEF Mark
<1> QED
  BY <1>1, <1>2, <1>3, <1>4, <1>5, <1>6, <1>7, NextCases DEF Boot

\* A proxy that serves offers schemas of the compression it was started with,
\* also of the tools a list has brought back, for any number of restarts.
THEOREM LeanMatchesModeAlways == Spec => []LeanMatchesMode
<1>1. Init => LeanSteps
  BY DEF Init, LeanSteps, AllLean
<1>2. TypeInv /\ LeanSteps /\ [Next]_vars => LeanSteps'
  BY LeanStepsStep DEF LeanSteps, AllLean, vars
<1>3. LeanSteps => LeanMatchesMode
  BY DEF LeanSteps, AllLean, LeanMatchesMode
<1> QED
  BY <1>1, <1>2, <1>3, TypesKept, PTL DEF Spec

-----------------------------------------------------------------------------
(***************************************************************************)
(* The catalog follows the agent.                                          *)
(***************************************************************************)

\* The rows agree with the tools a list has before place k: each is active, and
\* the last one of a name defines it.
Agree(rows, l, k) ==
    \A i \in Listed(l) : i < k =>
        /\ l[i].name \in DOMAIN rows /\ rows[l[i].name].active
        /\ (\A j \in Listed(l) : j < k /\ l[j].name = l[i].name => j <= i)
            => rows[l[i].name].definition = l[i].definition

Follows(l) ==
    Names(l) # {} => ActiveNames = Names(l) /\ Agree(registry, l, Len(l) + 1)

\* CatalogFollowsAgent with the ingest in between: at most one waits, it is the
\* one of the list whose fingerprint is recorded, and the rows agree with that
\* list as far as it has come.
Following ==
    /\ server # "serving" =>
        fingerprint = NoList /\ \A r \in Request : pc[r] # "embed"
    /\ ~overlapped /\ failures = 0 =>
        /\ \A r, q \in Request : pc[r] = "embed" /\ pc[q] = "embed" => r = q
        /\ \A r \in Request : pc[r] = "embed" =>
              fingerprint = list[r] /\ Agree(registry, list[r], position[r])
        /\ (\A r \in Request : pc[r] # "embed") => Follows(fingerprint)

LEMMA EndedFollows ==
    ASSUME NEW r, NEW rows, Rows(rows), NEW l \in Lists, NEW k \in Nat \ {0},
           Agree(rows, l, k), Ended(r, rows, l, k)
    PROVE  Follows(l)'
<1>1. \A i \in Listed(l) : i \in 1..Len(l) /\ i <= Len(l)
  BY ListedTools
<1>2. ASSUME NEW i \in Listed(l)
      PROVE  /\ l[i].name \in DOMAIN rows /\ l[i].name \in Names(l)
             /\ rows[l[i].name].active \/ l[i].name \in Between(l, k, Len(l))
  <2>1. CASE i < k
    BY <2>1 DEF Agree, Names
  <2>2. CASE ~(i < k)
    BY <1>1, <2>2, ListedTools DEF Ended, Stale, Unchanged, Between, Names
  <2> QED
    BY <2>1, <2>2
<1>3. ASSUME NEW i \in Listed(l), \A j \in Listed(l) : l[j].name = l[i].name => j <= i
      PROVE  rows[l[i].name].definition = l[i].definition
  <2>1. CASE i < k
    BY <1>3, <2>1 DEF Agree
  <2>2. CASE ~(i < k)
    BY <1>1, <2>2 DEF Ended, Stale, Unchanged
  <2> QED
    BY <2>1, <2>2
<1>4. Agree(registry', l, Len(l) + 1)
  <2> SUFFICES ASSUME NEW i \in Listed(l)
               PROVE  /\ l[i].name \in DOMAIN registry' /\ registry'[l[i].name].active
                      /\ (\A j \in Listed(l) : j < Len(l) + 1 /\ l[j].name = l[i].name => j <= i)
                          => registry'[l[i].name].definition = l[i].definition
    BY DEF Agree
  <2>1. l[i].name \in DOMAIN registry' /\ registry'[l[i].name].active
    BY <1>2 DEF Ended
  <2>2. ASSUME \A j \in Listed(l) : j < Len(l) + 1 /\ l[j].name = l[i].name => j <= i
        PROVE  registry'[l[i].name].definition = l[i].definition
    <3>1. \A j \in Listed(l) : j < Len(l) + 1
      BY <1>1, ListedTools
    <3>2. \A j \in Listed(l) : l[j].name = l[i].name => j <= i
      BY <2>2, <3>1
    <3> QED
      BY <1>2, <1>3, <3>2 DEF Ended
  <2> QED
    BY <2>1, <2>2
<1>5. ASSUME Names(l) # {} PROVE {n \in DOMAIN registry' : registry'[n].active} = Names(l)
  <2>1. \A n \in DOMAIN registry' : registry'[n].active => n \in Names(l)
    BY <1>5 DEF Ended
  <2>2. \A n \in Names(l) : n \in DOMAIN registry' /\ registry'[n].active
    BY <1>2 DEF Names, Ended
  <2> QED
    BY <2>1, <2>2
<1> QED
  BY <1>4, <1>5 DEF Follows, ActiveNames

LEMMA WaitsAgrees ==
    ASSUME NEW r, NEW rows, Rows(rows), NEW l \in Lists, NEW k \in Nat \ {0},
           Agree(rows, l, k), NEW i \in Stale(rows, l, k), WaitsAt(r, rows, l, k, i)
    PROVE  Agree(registry', l, i)
<1>1. \A j \in Listed(l) : j \in Nat
  BY ListedTools
<1>2. i \in Listed(l) /\ i >= k /\ i \in Nat
  BY <1>1 DEF Stale
<1> SUFFICES ASSUME NEW h \in Listed(l), h < i
             PROVE  /\ l[h].name \in DOMAIN registry' /\ registry'[l[h].name].active
                    /\ (\A j \in Listed(l) : j < i /\ l[j].name = l[h].name => j <= h)
                        => registry'[l[h].name].definition = l[h].definition
  BY DEF Agree
<1>3. CASE h < k
  <2>1. (\A j \in Listed(l) : j < i /\ l[j].name = l[h].name => j <= h)
        => \A j \in Listed(l) : j < k /\ l[j].name = l[h].name => j <= h
    BY <1>1, <1>2
  <2> QED
    BY <1>3, <2>1 DEF Agree, WaitsAt
<1>4. CASE ~(h < k)
  <2>1. h \notin Stale(rows, l, k)
    BY <1>1, <1>2 DEF WaitsAt
  <2>2. Unchanged(rows, l[h])
    BY <1>1, <1>4, <2>1 DEF Stale
  <2>3. l[h].name \in Between(l, k, i - 1)
    BY <1>1, <1>2, <1>4 DEF Between
  <2> QED
    BY <2>2, <2>3 DEF WaitsAt, Unchanged
<1> QED
  BY <1>3, <1>4

\* After the row of its tool is written the rows agree one place further.
LEMMA UpsertAgrees ==
    ASSUME Rows(registry), mode \in Mode, NEW l \in Lists, NEW k \in Listed(l),
           Agree(registry, l, k), NEW vector \in Definition \cup {NoVector}
    PROVE  Agree(Upsert(registry, l[k], vector), l, k + 1)
<1> DEFINE rows == Upsert(registry, l[k], vector)
<1>1. \A j \in Listed(l) : j \in Nat
  BY ListedTools
<1>2. /\ DOMAIN rows = DOMAIN registry \cup {l[k].name}
      /\ rows[l[k].name].definition = l[k].definition
      /\ rows[l[k].name].active
      /\ \A n \in DOMAIN registry : n # l[k].name => rows[n] = registry[n]
  <2>1. l[k] \in Offer
    BY ListedTools
  <2> QED
    BY <2>1, UpsertRows
<1> HIDE DEF rows
<1> SUFFICES ASSUME NEW h \in Listed(l), h < k + 1
             PROVE  /\ l[h].name \in DOMAIN rows /\ rows[l[h].name].active
                    /\ (\A j \in Listed(l) : j < k + 1 /\ l[j].name = l[h].name => j <= h)
                        => rows[l[h].name].definition = l[h].definition
  BY DEF Agree, rows
<1>3. CASE h = k
  BY <1>2, <1>3
<1>4. CASE h # k
  <2>1. h < k /\ k < k + 1 /\ ~(k <= h)
    BY <1>1, <1>4
  <2>2. CASE l[h].name = l[k].name
    BY <1>2, <2>1, <2>2
  <2>3. CASE l[h].name # l[k].name
    <3>1. (\A j \in Listed(l) : j < k + 1 /\ l[j].name = l[h].name => j <= h)
          => \A j \in Listed(l) : j < k /\ l[j].name = l[h].name => j <= h
      BY <1>1
    <3> QED
      BY <1>2, <2>1, <2>3, <3>1 DEF Agree
  <2> QED
    BY <2>2, <2>3
<1> QED
  BY <1>3, <1>4

LEMMA NothingListed == Follows(NoList)
<1>1. NoList \in Lists /\ Listed(NoList) = {}
  BY ListsAssumption DEF NoList, Listed
<1> QED
  BY <1>1 DEF Follows, Names

\* What an ingest that goes on from place k brings about, when no other waits.
LEMMA ProceedFollowing ==
    ASSUME TypeInv, NEW r \in Request, NEW rows, Rows(rows),
           NEW l \in Lists, NEW k \in Nat \ {0}, Agree(rows, l, k), Proceed(r, rows, l, k),
           \A q \in Request : q # r => pc[q] # "embed",
           fingerprint' = l, list' = [list EXCEPT ![r] = l], server' = "serving"
    PROVE  Following'
<1> USE DEF TypeInv, TypeOK
<1>1. CASE Ended(r, rows, l, k)
  <2>1. \A q \in Request : pc'[q] # "embed"
    BY <1>1 DEF Ended
  <2>2. Follows(l)'
    BY <1>1, EndedFollows
  <2>3. Follows(fingerprint)'
    BY <2>2 DEF Follows
  <2> QED
    BY <2>1, <2>3 DEF Following
<1>2. CASE \E i \in Stale(rows, l, k) : WaitsAt(r, rows, l, k, i)
  <2> PICK i \in Stale(rows, l, k) : WaitsAt(r, rows, l, k, i)
    BY <1>2
  <2>1. Agree(registry', l, i)
    BY WaitsAgrees
  <2>2. \A q \in Request : pc'[q] = "embed" <=> q = r
    BY DEF WaitsAt
  <2>3. position'[r] = i /\ list'[r] = l
    BY DEF WaitsAt
  <2>4. \A q \in Request : pc'[q] = "embed" => Agree(registry', list'[q], position'[q])
    BY <2>1, <2>2, <2>3
  <2>5. (\A q \in Request : pc'[q] = "embed" => Agree(registry, list[q], position[q])')
    BY <2>4 DEF Agree
  <2> QED
    BY <2>2, <2>3, <2>5 DEF Following
<1> QED
  BY <1>1, <1>2, ProceedOutcomes

LEMMA FollowingStep ==
    ASSUME TypeInv, Following, Next
    PROVE  Following'
<1> USE DEF TypeInv, TypeOK
<1>1. ASSUME NEW r \in Request, NEW l \in Lists, Receive(r, l) PROVE Following'
  <2>1. server = "serving" /\ server' = "serving" /\ failures' = failures
    BY <1>1 DEF Receive
  <2>2. overlapped' = (overlapped \/ \E q \in Request : pc[q] = "embed")
    BY <1>1 DEF Receive
  <2>3. CASE overlapped' \/ failures # 0
    BY <2>1, <2>3 DEF Following
  <2>4. CASE ~overlapped' /\ failures = 0
    <3>1. (\A q \in Request : pc[q] # "embed") /\ Follows(fingerprint)
      BY <2>1, <2>2, <2>4 DEF Following
    <3>2. CASE l = NoList \/ l = fingerprint
      <4>1. registry' = registry /\ fingerprint' = fingerprint
        BY <1>1, <3>2 DEF Receive, FingerprintAfter
      <4>2. \A q \in Request : pc'[q] # "embed"
        BY <1>1, <3>1, <3>2 DEF Receive
      <4>3. Follows(fingerprint)'
        BY <3>1, <4>1 DEF Follows, Agree, ActiveNames
      <4> QED
        BY <2>1, <4>2, <4>3 DEF Following
    <3>3. CASE ~(l = NoList \/ l = fingerprint)
      <4>1. Proceed(r, registry, l, 1) /\ list' = [list EXCEPT ![r] = l] /\ fingerprint' = l
        BY <1>1, <3>3 DEF Receive, FingerprintAfter
      <4>2. Agree(registry, l, 1)
        BY ListedTools DEF Agree
      <4>3. Rows(registry) /\ 1 \in Nat \ {0}
        BY DEF Rows
      <4> QED
        BY <2>1, <3>1, <4>1, <4>2, <4>3, ProceedFollowing
    <3> QED
      BY <3>2, <3>3
  <2> QED
    BY <2>3, <2>4
<1>2. ASSUME NEW r \in Request, Embedded(r) PROVE Following'
  <2> DEFINE tool == list[r][position[r]]
  <2>1. PICK vector \in Definition \cup {NoVector} :
           /\ Rows(Upsert(registry, tool, vector))
           /\ Proceed(r, Upsert(registry, tool, vector), list[r], position[r] + 1)
    BY <1>2, EmbeddedOutcomes
  <2>2. /\ list[r] \in Lists /\ position[r] \in Listed(list[r])
        /\ position[r] + 1 \in Nat \ {0}
    BY <1>2, EmbeddedOutcomes
  <2>3. /\ server = "serving" /\ server' = "serving" /\ overlapped' = overlapped
        /\ pc[r] = "embed" /\ list' = [list EXCEPT ![r] = list[r]]
        /\ fingerprint' = fingerprint /\ (failures' = 0 => failures = 0)
    BY <1>2 DEF Embedded, Fail
  <2>4. CASE overlapped \/ failures # 0
    BY <2>3, <2>4 DEF Following
  <2>5. CASE ~overlapped /\ failures = 0
    <3>1. /\ \A q \in Request : q # r => pc[q] # "embed"
          /\ fingerprint = list[r] /\ Agree(registry, list[r], position[r])
      BY <2>3, <2>5 DEF Following
    <3>2. Agree(Upsert(registry, tool, vector), list[r], position[r] + 1)
      BY <2>2, <3>1, UpsertAgrees DEF Rows
    <3> HIDE DEF tool
    <3> QED
      BY <2>1, <2>2, <2>3, <3>1, <3>2, ProceedFollowing
  <2> QED
    BY <2>4, <2>5
<1>3. ASSUME NEW r \in Request, IngestFails(r) PROVE Following'
  BY <1>3 DEF IngestFails, Fail, Following
<1>4. ASSUME NEW r \in Request, Compose(r) \/ Answer(r) PROVE Following'
  <2>1. /\ server = "serving" /\ server' = server /\ overlapped' = overlapped
        /\ fingerprint' = fingerprint /\ position' = position
        /\ failures' = 0 => failures = 0
        /\ \A q \in Request : pc'[q] = "embed" <=> pc[q] = "embed"
        /\ \A q \in Request : pc[q] = "embed" => list'[q] = list[q]
    BY <1>4 DEF Compose, Answer, Fail
  <2>2. /\ DOMAIN registry' = DOMAIN registry
        /\ \A n \in DOMAIN registry : registry'[n].active = registry[n].active
                                   /\ registry'[n].definition = registry[n].definition
    BY <1>4 DEF Compose, Answer, Row
  <2>3. \A l, k : Agree(registry, l, k) => Agree(registry', l, k)
    BY <2>2 DEF Agree
  <2>4. {n \in DOMAIN registry' : registry'[n].active} = ActiveNames
    BY <2>2 DEF ActiveNames
  <2>5. Follows(fingerprint) => Follows(fingerprint)'
    <3>1. Agree(registry, fingerprint, Len(fingerprint) + 1)
          => Agree(registry', fingerprint', Len(fingerprint') + 1)
      BY <2>1, <2>3
    <3> QED
      BY <2>1, <2>4, <3>1 DEF Follows, ActiveNames
  <2>6. \A q \in Request : pc[q] = "embed" /\ Agree(registry, list[q], position[q])
                          => Agree(registry, list[q], position[q])'
    BY <2>1, <2>3 DEF Agree
  <2> QED
    BY <2>1, <2>5, <2>6 DEF Following
<1>5. ASSUME NEW m \in Mode, Restart(m) \/ StartupDies(m) PROVE Following'
  <2>1. fingerprint' = NoList /\ \A q \in Request : pc'[q] # "embed"
    BY <1>5 DEF Restart, StartupDies, Start, InFlight
  <2>2. Follows(NoList)'
    BY NothingListed, PTL
  <2>3. Follows(fingerprint)'
    BY <2>1, <2>2 DEF Follows
  <2> QED
    BY <2>1, <2>3 DEF Following
<1>6. CASE Recompute \/ Mark
  <2>1. server # "serving" /\ fingerprint' = fingerprint /\ pc' = pc
    BY <1>6 DEF Recompute, Mark, handlers
  <2>2. fingerprint' = NoList /\ \A q \in Request : pc'[q] # "embed"
    BY <2>1 DEF Following
  <2>3. Follows(NoList)'
    BY NothingListed, PTL
  <2>4. Follows(fingerprint)'
    BY <2>2, <2>3 DEF Follows
  <2> QED
    BY <2>2, <2>4 DEF Following
<1> QED
  BY <1>1, <1>2, <1>3, <1>4, <1>5, <1>6, NextCases DEF Rest, Boot

\* As long as ingests neither overlap nor fail, and whatever restarts there
\* are, the recorded fingerprint vouches for a catalog that is there: the
\* active tools are those of the list, in its last definitions.
THEOREM CatalogFollowsAgentAlways == Spec => []CatalogFollowsAgent
<1>1. Init => Following
  <2> SUFFICES ASSUME Init PROVE Following
    OBVIOUS
  <2> QED
    BY NothingListed DEF Init, Following
<1>2. TypeInv /\ Following /\ [Next]_vars => Following'
  <2> SUFFICES ASSUME TypeInv, Following, UNCHANGED vars PROVE Following'
    BY FollowingStep
  <2> QED
    BY DEF Following, Follows, Agree, ActiveNames, vars
<1>3. TypeInv /\ Following => CatalogFollowsAgent
  <2> SUFFICES ASSUME TypeInv, Following, Idle, ~overlapped, failures = 0, Names(fingerprint) # {}
               PROVE  /\ ActiveNames = Names(fingerprint)
                      /\ \A k \in Defining(fingerprint) :
                          registry[fingerprint[k].name].definition = fingerprint[k].definition
    BY DEF CatalogFollowsAgent
  <2>1. Follows(fingerprint)
    BY DEF Following, Idle
  <2>2. \A k \in Listed(fingerprint) : k < Len(fingerprint) + 1
    BY ListedTools DEF TypeInv, TypeOK
  <2> QED
    BY <2>1, <2>2 DEF Follows, Agree, Defining
<1> QED
  BY <1>1, <1>2, <1>3, TypesKept, PTL DEF Spec

=============================================================================
