----------------------------- MODULE FactWriter -----------------------------
(***************************************************************************)
(* The memory writer (src/sieve/writer.py, MemoryWriter.process) over the  *)
(* facts table of the store (src/sieve/store.py).                          *)
(*                                                                         *)
(* Every chat turn starts one writer task.  A task awaits extraction, then *)
(* for each extracted statement awaits an embedding and, without awaiting  *)
(* again, checks for a duplicate, resolves the conflict with a similar     *)
(* row and writes.  Tasks interleave only where they await; what they do   *)
(* in between is a chain of separately committed SQL statements, which a   *)
(* crash or an exception can cut anywhere.                                 *)
(***************************************************************************)
EXTENDS Integers, Sequences, FiniteSets

CONSTANTS
    Statement,      \* what extraction can say, see StatementAssumption
    MaxTurn,        \* turns of the conversation (a bound)
    MaxCandidates,  \* statements extracted from one turn (a bound)
    MaxInFlight,    \* writer tasks alive at once: 1 when every turn is awaited
    SearchLimit,    \* rows a vector search returns (8 in the code)
    Confirmations,  \* usage_count above which a row is well confirmed (10)
    MaxFailures     \* crashes and exceptions (a bound)

\* Confidence in twentieths: boost_fact_confidence adds exactly one.
Full  == 20
High  == 16
Half  == 10
Hedge == 7

NoPredicate == "none"

\* A statement is what the writer can tell about a text: near-duplicate
\* texts share `wording', texts equal once the subject is stripped share
\* `meaning', texts about one thing share `topic', and `predicate' is the
\* value predicate the text binds, if any, with the `object' it captures.
ASSUME StatementAssumption ==
    Statement \subseteq
        [wording : STRING, meaning : STRING, predicate : STRING,
         object : STRING, topic : STRING, type : {"objective", "subjective", "temporal"},
         hedged : BOOLEAN, numeric : BOOLEAN, confidence : 0..Full]

ASSUME BoundAssumption ==
    /\ MaxTurn \in Nat /\ MaxCandidates \in Nat /\ MaxInFlight \in Nat
    /\ SearchLimit \in Nat /\ Confirmations \in Nat /\ MaxFailures \in Nat

Turn == 1..MaxTurn

VARIABLES
    facts,      \* rows of table facts (and vec_facts) as the connection sees them
    disk,       \* the rows as of the last commit
    pc,         \* where the writer task of each turn is
    said,       \* the statements extracted from each turn
    next,       \* index of the statement the task is working on
    coherent,   \* is the session coherent enough (session_coherence >= 0.3)
    job,        \* the write a task is in the middle of, or NoJob
    failures    \* crashes and exceptions so far

vars == <<facts, disk, pc, said, next, coherent, job, failures>>

NoBody  == 0
Pending == -1   \* superseded_by = "pending"
Status  == {"current", "superseded", "quarantined", "provisional"}
Row     == [text : Statement, confidence : 0..Full, usage : Nat,
            status : Status, superseded_by : Int, vec : BOOLEAN]

NoJob  == [turn |-> 0]
Action == {"store", "supersede", "quarantine", "provisional", "coexist"}
Step   == {"retire", "halve", "insert", "restatus", "link"}
Job    == [turn : Turn, step : Step, action : Action, status : Status,
           confidence : 0..Full, contradicts : BOOLEAN, emb : BOOLEAN,
           old : Nat, new : Nat]

CandidateLists == UNION {[1..n -> Statement] : n \in 0..MaxCandidates}

(***************************************************************************)
(* Reading the store.                                                      *)
(***************************************************************************)

\* search_facts_by_vector joins vec_facts with facts and looks at no status:
\* superseded, quarantined and provisional rows are found like any other.
Searched == {i \in DOMAIN facts : facts[i].vec}

SameWording(a, b) == a.wording = b.wording
SameTopic(a, b)   == a.topic = b.topic
Equivalent(a, b)  == a.meaning = b.meaning
Contradicts(a, b) ==
    /\ a.predicate = b.predicate /\ a.predicate # NoPredicate
    /\ a.object # b.object /\ "" \notin {a.object, b.object}

\* Mutant: duplicates are looked for among current rows only.
IsDuplicateAmongCurrent(s, emb) ==
    \E i \in DOMAIN facts : facts[i].text = s /\ facts[i].status = "current"

\* _is_duplicate: the nearest vector when there is an embedding, else the text.
IsDuplicate(s, emb) ==
    IF emb THEN \E i \in Searched : SameWording(s, facts[i].text)
           ELSE \E i \in DOMAIN facts : facts[i].text = s

\* What find_similar_facts may return.  Which rows of the topic are nearest is
\* a matter of the vectors: any SearchLimit of them.
SimilarSets(s) ==
    LET similar == {i \in Searched : SameTopic(s, facts[i].text)}
    IN  {near \in SUBSET similar :
            \/ near = similar /\ Cardinality(similar) <= SearchLimit
            \/ Cardinality(near) = SearchLimit}

\* The row the new statement is resolved against: an equivalent one, else a
\* contradicting one, else the nearest.
Matches(s, emb) ==
    IF ~emb THEN {NoBody}
    ELSE UNION {LET equal   == {i \in near : Equivalent(s, facts[i].text)}
                    contra  == {i \in near : Contradicts(s, facts[i].text)}
                IN  IF equal # {} THEN equal
                    ELSE IF contra # {} THEN contra
                    ELSE IF near # {} THEN near ELSE {NoBody}
                : near \in SimilarSets(s)}

Outcome(action, status, confidence, contradicts) ==
    [action |-> action, status |-> status, confidence |-> confidence,
     contradicts |-> contradicts]

\* Mutant: a contradiction supersedes before the old row's standing is looked at.
ResolveContradictionFirst(s, i, trusted) ==
    IF i # NoBody /\ Contradicts(s, facts[i].text)
    THEN Outcome("supersede", "current", Half, TRUE)
    ELSE IF i # NoBody /\ Equivalent(s, facts[i].text)
    THEN Outcome("boost", "current", s.confidence, FALSE)
    ELSE Outcome("store", "current", s.confidence, FALSE)

\* resolve_conflict, the decision tree with its early returns in order.
Resolve(s, i, trusted) ==
    LET old == facts[i]
        Keep(action, status) == Outcome(action, status, s.confidence, FALSE)
    IN  IF i = NoBody THEN Keep("store", "current")
        ELSE IF Equivalent(s, old.text) THEN Keep("boost", "current")
        ELSE IF s.type = "subjective" THEN Keep("coexist", "current")
        ELSE IF s.hedged THEN
            Outcome("store", "current",
                    IF s.confidence < Hedge THEN s.confidence ELSE Hedge, FALSE)
        ELSE IF old.confidence > High /\ old.usage > Confirmations THEN
            IF ~trusted THEN Keep("quarantine", "quarantined")
            ELSE IF s.type = "temporal" \/ s.numeric
                 THEN Keep("supersede", "current")
                 ELSE Keep("provisional", "provisional")
        ELSE IF old.confidence < Half THEN Keep("supersede", "current")
        ELSE IF Contradicts(s, old.text)
             THEN Outcome("supersede", "current", Half, TRUE)
        ELSE Keep("store", "current")

(***************************************************************************)
(* Writing it.  Each operation ends in a commit, which also commits        *)
(* whatever an earlier failed operation left in the open transaction.      *)
(***************************************************************************)

Commit(rows) == facts' = rows /\ disk' = rows

UpdateStatus(i, status, by) ==
    [facts EXCEPT ![i].status = status, ![i].superseded_by = by]

\* Mutant: a re-confirmed row is made current again.
BoostedRevived(i) == [facts EXCEPT ![i].status = "current"]

Boosted(i) ==
    [facts EXCEPT ![i].confidence = IF @ < Full THEN @ + 1 ELSE Full,
                  ![i].usage = @ + 1]

NewRow(s, confidence, vec) ==
    [text |-> s, confidence |-> confidence, usage |-> 0, status |-> "current",
     superseded_by |-> NoBody, vec |-> vec]

Active == {t \in Turn : pc[t] \in {"extract", "embed", "sync"}}

\* The task goes on with the next statement of its turn, or is done.
Advance(t) ==
    /\ next' = [next EXCEPT ![t] = @ + 1]
    /\ pc' = [pc EXCEPT ![t] = IF next[t] < Len(said[t]) THEN "embed" ELSE "done"]

Init ==
    /\ facts = <<>> /\ disk = <<>>
    /\ pc = [t \in Turn |-> "unsent"]
    /\ said = [t \in Turn |-> <<>>]
    /\ next = [t \in Turn |-> 1]
    /\ coherent = [t \in Turn |-> TRUE]
    /\ job = NoJob
    /\ failures = 0

\* A turn of the conversation reaches the proxy, which starts its writer.
Send(t) ==
    /\ job = NoJob
    /\ pc[t] = "unsent"
    /\ \A u \in 1..(t - 1) : pc[u] # "unsent"
    /\ Cardinality(Active) < MaxInFlight
    /\ pc' = [pc EXCEPT ![t] = "extract"]
    /\ UNCHANGED <<facts, disk, said, next, coherent, job, failures>>

\* Extraction, validation and coherence are in.  They may leave nothing: the
\* gate is shut, both models failed, or everything was rejected.
Extract(t) ==
    /\ job = NoJob
    /\ pc[t] = "extract"
    /\ \E candidates \in CandidateLists, trusted \in BOOLEAN :
        /\ said' = [said EXCEPT ![t] = candidates]
        /\ coherent' = [coherent EXCEPT ![t] = trusted]
        /\ pc' = [pc EXCEPT ![t] = IF candidates = <<>> THEN "done" ELSE "embed"]
    /\ UNCHANGED <<facts, disk, next, job, failures>>

\* The embedding is in, or failed.  From here to the end of the statement the
\* task does not await: duplicate check, match, resolution.
Decide(t) ==
    /\ job = NoJob
    /\ pc[t] = "embed"
    /\ LET s == said[t][next[t]]
       IN  \E emb \in BOOLEAN :
            IF IsDuplicate(s, emb)
            THEN Advance(t) /\ UNCHANGED <<facts, disk, job>>
            ELSE \E i \in Matches(s, emb) :
                LET r == Resolve(s, i, coherent[t])
                IN  IF r.action = "boost"
                    THEN Advance(t) /\ Commit(Boosted(i)) /\ UNCHANGED job
                    ELSE /\ job' = [turn |-> t, action |-> r.action,
                                    step |-> IF r.action = "supersede"
                                             THEN "retire" ELSE "insert",
                                    status |-> r.status,
                                    confidence |-> r.confidence,
                                    contradicts |-> r.contradicts, emb |-> emb,
                                    old |-> i, new |-> NoBody]
                         /\ pc' = [pc EXCEPT ![t] = "sync"]
                         /\ UNCHANGED <<facts, disk, next>>
    /\ UNCHANGED <<said, coherent, failures>>

Running(step) == job # NoJob /\ job.step = step

Retire ==
    /\ Running("retire")
    /\ Commit(UpdateStatus(job.old, "superseded", Pending))
    /\ job' = [job EXCEPT !.step = IF job.contradicts THEN "halve" ELSE "insert"]
    /\ UNCHANGED <<pc, said, next, coherent, failures>>

Halve ==
    /\ Running("halve")
    /\ Commit([facts EXCEPT ![job.old].confidence = Half])
    /\ job' = [job EXCEPT !.step = "insert"]
    /\ UNCHANGED <<pc, said, next, coherent, failures>>

\* Mutant: the loop does not go on to the next statement.
FinishWithoutAdvance == job' = NoJob /\ UNCHANGED <<next, pc>>

Finish == job' = NoJob /\ Advance(job.turn)

\* insert_fact: the row, then its vector, then the commit.
Insert ==
    /\ Running("insert")
    /\ Commit(Append(facts, NewRow(said[job.turn][next[job.turn]],
                                   job.confidence, job.emb)))
    /\ \/ /\ job.status = "current" /\ job.action # "supersede"
          /\ Finish
       \/ /\ job.status # "current" \/ job.action = "supersede"
          /\ job' = [job EXCEPT !.new = Len(facts) + 1,
                        !.step = IF job.status # "current"
                                 THEN "restatus" ELSE "link"]
          /\ UNCHANGED <<pc, next>>
    /\ UNCHANGED <<said, coherent, failures>>

Restatus ==
    /\ Running("restatus")
    /\ Commit(UpdateStatus(job.new, job.status, facts[job.new].superseded_by))
    /\ Finish
    /\ UNCHANGED <<said, coherent, failures>>

\* Mutant: the ids of the final update are swapped.
LinkSwapped ==
    /\ Running("link")
    /\ Commit(UpdateStatus(job.new, "superseded", job.old))
    /\ Finish
    /\ UNCHANGED <<said, coherent, failures>>

\* Mutant: superseded_by is never updated after the insert.
LinkForgotten ==
    /\ Running("link")
    /\ Commit(facts)
    /\ Finish
    /\ UNCHANGED <<said, coherent, failures>>

Link ==
    /\ Running("link")
    /\ Commit(UpdateStatus(job.old, "superseded", job.new))
    /\ Finish
    /\ UNCHANGED <<said, coherent, failures>>

Fail == failures < MaxFailures /\ failures' = failures + 1

Drop == job' = NoJob /\ pc' = [pc EXCEPT ![job.turn] = "lost"]

\* A statement of the write raises before it changes anything: the task ends,
\* what it committed stays.
Raise ==
    /\ job # NoJob
    /\ Fail /\ Drop
    /\ UNCHANGED <<facts, disk, said, next, coherent>>

\* The vector insert raises after the row insert: the row stays in the open
\* transaction, seen by every reader and committed by the next commit.
RaiseInInsert ==
    /\ Running("insert") /\ job.emb
    /\ Fail /\ Drop
    /\ facts' = Append(facts, NewRow(said[job.turn][next[job.turn]],
                                     job.confidence, FALSE))
    /\ UNCHANGED <<disk, said, next, coherent>>

\* The process dies and is started again: what was committed remains, every
\* writer task is gone.
Crash ==
    /\ Fail
    /\ facts' = disk
    /\ job' = NoJob
    /\ pc' = [t \in Turn |-> IF t \in Active THEN "lost" ELSE pc[t]]
    /\ UNCHANGED <<disk, said, next, coherent>>

Write == Retire \/ Halve \/ Insert \/ Restatus \/ Link

Next ==
    \/ \E t \in Turn : Send(t) \/ Extract(t) \/ Decide(t)
    \/ Write
    \/ Raise \/ RaiseInInsert \/ Crash

\* Every await of a task ends (the LLM and embedding calls have timeouts) and
\* the event loop runs a task until it awaits.  Users need not send, and
\* nothing obliges the program to fail.
Fairness ==
    /\ \A t \in Turn : WF_vars(Extract(t)) /\ WF_vars(Decide(t))
    /\ WF_vars(Write)

Spec     == Init /\ [][Next]_vars
FairSpec == Spec /\ Fairness

-----------------------------------------------------------------------------
TypeOK ==
    /\ facts \in Seq(Row) /\ disk \in Seq(Row)
    /\ pc \in [Turn -> {"unsent", "extract", "embed", "sync", "done", "lost"}]
    /\ said \in [Turn -> CandidateLists]
    /\ next \in [Turn -> Nat \ {0}]
    /\ coherent \in [Turn -> BOOLEAN]
    /\ job \in Job \cup {NoJob}
    /\ failures \in 0..MaxFailures

\* However the tasks of concurrent turns interleave, no text is stored twice
\* behind a vector: a second copy can only shadow a row whose embedding failed.
\* (Between the await of the embedding and the insert nothing else runs.)
NoDuplicates ==
    \A i, j \in DOMAIN facts :
        i < j /\ facts[i].text = facts[j].text => ~facts[i].vec

\* The row a task has retired and not yet linked to its successor.
Retiring == IF job # NoJob /\ job.action = "supersede" /\ job.step # "retire"
            THEN {job.old} ELSE {}

\* superseded_by of a retired row names a later row that took its place, and
\* that was itself current until it was superseded, except while the writer is
\* between its two updates or when a failure cut it there.
SupersessionSound ==
    \A i \in DOMAIN facts :
        facts[i].status = "superseded" =>
            \/ facts[i].superseded_by = Pending
            \/ /\ facts[i].superseded_by \in (i + 1)..Len(facts)
               /\ facts[facts[i].superseded_by].status \in {"current", "superseded"}

\* Each failure leaves at most one row superseded by "pending".
PendingBounded ==
    Cardinality({i \in DOMAIN facts : facts[i].superseded_by = Pending} \ Retiring)
        <= failures

\* What was retired stays retired, whatever later turns and crashes do, and a
\* committed row is never lost.
KeepsRows ==
    /\ Len(disk') >= Len(disk)
    /\ \A i \in DOMAIN disk :
        /\ disk'[i].text = disk[i].text
        /\ disk[i].status = "superseded" => disk'[i].status = "superseded"

RetiredForGood == [][KeepsRows]_vars

\* Every turn that was sent is eventually written or lost to a failure.
EveryTurnEnds == \A t \in Turn : pc[t] = "extract" ~> pc[t] \in {"done", "lost"}
-----------------------------------------------------------------------------
(***************************************************************************)
(* As long as nothing fails, the chain of commits of a write looks like    *)
(* one step of FactLedger, taken when the write starts: the old row is     *)
(* already replaced by the row about to be inserted, and a row about to be *)
(* set aside already is.                                                   *)
(***************************************************************************)
Replacing == job # NoJob /\ job.step \in {"halve", "insert"} /\ Retiring # {}

EntryOf(i) ==
    [text |-> facts[i].text,
     state |-> IF Running("restatus") /\ i = job.new THEN "aside"
               ELSE IF facts[i].status = "superseded" THEN "replaced"
               ELSE IF facts[i].status = "current" THEN "held" ELSE "aside",
     successor |-> IF i \notin Retiring THEN facts[i].superseded_by
                   ELSE IF Replacing THEN Len(facts) + 1 ELSE job.new]

View == LET written == [i \in DOMAIN facts |-> EntryOf(i)]
        IN  IF Replacing
            THEN Append(written, [text |-> said[job.turn][next[job.turn]],
                                  state |-> "held", successor |-> NoBody])
            ELSE written

Ledger == INSTANCE FactLedger WITH ledger <- View

\* With no failure the writer implements the ledger.
ImplementsLedger == Ledger!Spec

\* A row confirmed often and with confidence gives way only to a temporal or
\* numeric statement of a coherent session (resolve_conflict), even though the
\* row may change between the match and the write of other turns.
WellConfirmed(i) == facts[i].confidence > High /\ facts[i].usage > Confirmations

WellConfirmedKept ==
    [][\A i \in DOMAIN facts \cap DOMAIN facts' :
        WellConfirmed(i) /\ facts[i].status = "current"
            /\ facts'[i].status = "superseded"
        => LET s == said[job.turn][next[job.turn]]
           IN  coherent[job.turn] /\ (s.type = "temporal" \/ s.numeric)]_vars
=============================================================================
