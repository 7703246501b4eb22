-------------------------- MODULE FactWriterProofs --------------------------
(***************************************************************************)
(* What holds of the memory writer for every conversation, every degree of *)
(* concurrency and every number of failures.                               *)
(***************************************************************************)
EXTENDS FactWriter, FiniteSetTheorems, SequenceTheorems, TLAPS

JobText == said[job.turn][next[job.turn]]

\* SupersessionSound of any sequence of rows.
Sound(rows) ==
    \A i \in 1..Len(rows) :
        rows[i].status = "superseded" =>
            \/ rows[i].superseded_by = Pending
            \/ /\ rows[i].superseded_by \in (i + 1)..Len(rows)
               /\ rows[rows[i].superseded_by].status \in {"current", "superseded"}

\* A task that is at a statement is at one of its turn's.
TurnsOK ==
    \A t \in Turn :
        /\ pc[t] \in {"unsent", "extract"} => next[t] = 1
        /\ pc[t] \in {"embed", "sync"} => next[t] \in 1..Len(said[t])

\* What the task holds while it writes: the row it retires, the row it has
\* inserted, which nothing points at yet, and that its text has no vector yet.
JobOK ==
    job # NoJob =>
        /\ pc[job.turn] = "sync"
        /\ job.step \in {"retire", "halve", "link"} => job.action = "supersede"
        /\ job.action = "supersede" =>
            /\ job.status = "current"
            /\ job.old \in 1..Len(facts)
        /\ job.old \in 0..Len(facts)
        /\ job.status \in {"current", "quarantined", "provisional"}
        /\ job.step \in {"restatus", "link"} =>
            /\ job.new \in 1..Len(facts)
            /\ facts[job.new].status = "current"
            /\ job.old < job.new
        /\ job.step = "restatus" =>
            /\ job.status # "current"
            /\ \A i \in 1..Len(facts) :
                facts[i].status = "superseded" => facts[i].superseded_by # job.new
        /\ job.step \in {"retire", "halve", "insert"} =>
            \A i \in 1..Len(facts) : facts[i].text = JobText => ~facts[i].vec

\* The open transaction only ever holds appended rows.
DiskOK ==
    /\ Len(disk) <= Len(facts)
    /\ \A i \in 1..Len(disk) : disk[i] = facts[i]

\* NoDuplicates of any sequence of rows.
CopyFree(rows) ==
    \A i, j \in 1..Len(rows) :
        i < j /\ rows[i].text = rows[j].text => ~rows[i].vec

\* The inductive invariant.
IInv ==
    /\ TypeOK
    /\ TurnsOK
    /\ JobOK
    /\ DiskOK
    /\ Sound(facts)
    /\ Sound(disk)
    /\ CopyFree(facts)

-----------------------------------------------------------------------------
\* Replacing one row by another.
LEMMA UpdateRow ==
    ASSUME NEW rows \in Seq(Row), NEW i \in 1..Len(rows), NEW r \in Row
    PROVE  /\ [rows EXCEPT ![i] = r] \in Seq(Row)
           /\ Len([rows EXCEPT ![i] = r]) = Len(rows)
           /\ \A j \in 1..Len(rows) :
                [rows EXCEPT ![i] = r][j] = IF j = i THEN r ELSE rows[j]
  BY ExceptSeq

\* Appending one row.
LEMMA AppendRow ==
    ASSUME NEW rows \in Seq(Row), NEW r \in Row
    PROVE  /\ Append(rows, r) \in Seq(Row)
           /\ Len(Append(rows, r)) = Len(rows) + 1
           /\ \A j \in 1..Len(rows) : Append(rows, r)[j] = rows[j]
           /\ Append(rows, r)[Len(rows) + 1] = r
  BY AppendProperties

\* UpdateStatus in terms of the row it writes.
LEMMA UpdateStatusRow ==
    ASSUME facts \in Seq(Row), NEW i \in 1..Len(facts),
           NEW status \in Status, NEW by \in Int
    PROVE  LET rows == UpdateStatus(i, status, by)
           IN  /\ rows \in Seq(Row)
               /\ Len(rows) = Len(facts)
               /\ \A j \in 1..Len(facts) : j # i => rows[j] = facts[j]
               /\ rows[i].status = status /\ rows[i].superseded_by = by
               /\ rows[i].text = facts[i].text /\ rows[i].vec = facts[i].vec
  <1> DEFINE r == [facts[i] EXCEPT !.status = status, !.superseded_by = by]
  <1>1. facts[i] \in Row
    BY ElementOfSeq
  <1>2. r \in Row /\ r.status = status /\ r.superseded_by = by
                  /\ r.text = facts[i].text /\ r.vec = facts[i].vec
    BY <1>1 DEF Row
  <1>3. UpdateStatus(i, status, by) = [facts EXCEPT ![i] = r]
    BY <1>1, LenProperties DEF UpdateStatus, Row
  <1> QED
    BY <1>2, <1>3, UpdateRow

\* An appended row that is not superseded leaves the links sound.
LEMMA AppendSound ==
    ASSUME NEW rows \in Seq(Row), NEW r \in Row, r.status # "superseded",
           Sound(rows)
    PROVE  Sound(Append(rows, r))
  <1> DEFINE more == Append(rows, r)
  <1>1. /\ Len(rows) \in Nat /\ Len(more) = Len(rows) + 1
        /\ \A j \in 1..Len(rows) : more[j] = rows[j]
        /\ more[Len(rows) + 1] = r
    BY AppendRow, LenProperties
  <1> HIDE DEF more
  <1> SUFFICES ASSUME NEW i \in 1..Len(more), more[i].status = "superseded",
                      more[i].superseded_by # Pending
               PROVE  /\ more[i].superseded_by \in (i + 1)..Len(more)
                      /\ more[more[i].superseded_by].status
                            \in {"current", "superseded"}
    BY DEF Sound, more
  <1>2. i \in 1..Len(rows) /\ more[i] = rows[i]
    BY <1>1
  <1>3. /\ rows[i].superseded_by \in (i + 1)..Len(rows)
        /\ rows[rows[i].superseded_by].status \in {"current", "superseded"}
    BY <1>2 DEF Sound
  <1>4. more[rows[i].superseded_by] = rows[rows[i].superseded_by]
    BY <1>1, <1>2, <1>3
  <1> QED
    BY <1>1, <1>2, <1>3, <1>4

\* Superseding row i keeps the links sound: by "pending", or by a later row
\* that is current.
LEMMA UpdateSound ==
    ASSUME facts \in Seq(Row), Sound(facts), NEW i \in 1..Len(facts),
           NEW by \in Int,
           \/ by = Pending
           \/ by \in (i + 1)..Len(facts) /\ facts[by].status = "current"
    PROVE  Sound(UpdateStatus(i, "superseded", by))
  <1> DEFINE rows == UpdateStatus(i, "superseded", by)
  <1>a. "superseded" \in Status
    BY DEF Status
  <1>b. Len(facts) \in Nat
    BY LenProperties
  <1>1. /\ Len(rows) = Len(facts)
        /\ \A j \in 1..Len(facts) : j # i => rows[j] = facts[j]
        /\ rows[i].status = "superseded" /\ rows[i].superseded_by = by
    BY <1>a, UpdateStatusRow
  <1> HIDE DEF rows
  <1> SUFFICES ASSUME NEW j \in 1..Len(facts), rows[j].status = "superseded",
                      rows[j].superseded_by # Pending
               PROVE  /\ rows[j].superseded_by \in (j + 1)..Len(facts)
                      /\ rows[rows[j].superseded_by].status
                            \in {"current", "superseded"}
    BY <1>1 DEF Sound, rows
  <1>2. CASE j = i
    <2>1. by \in (i + 1)..Len(facts) /\ facts[by].status = "current"
      BY <1>1, <1>2
    <2>2. rows[by] = facts[by]
      BY <1>b, <1>1, <2>1
    <2> QED
      BY <1>b, <1>1, <1>2, <2>1, <2>2
  <1>3. CASE j # i
    <2> DEFINE k == facts[j].superseded_by
    <2>1. rows[j] = facts[j]
      BY <1>1, <1>3
    <2>2. k \in (j + 1)..Len(facts) /\ facts[k].status \in {"current", "superseded"}
      BY <2>1 DEF Sound
    <2>3. rows[k].status \in {"current", "superseded"}
      BY <1>b, <1>1, <2>2
    <2> QED
      BY <2>1, <2>2, <2>3
  <1> QED
    BY <1>2, <1>3

\* Candidate lists are sequences of statements.
LEMMA CandidatesAreSequences ==
    ASSUME NEW c \in CandidateLists
    PROVE  /\ c \in Seq(Statement) /\ Len(c) \in Nat
           /\ c # <<>> => 1 \in 1..Len(c)
  <1>1. c \in Seq(Statement)
    BY SeqDef, BoundAssumption DEF CandidateLists
  <1>2. Len(c) \in Nat
    BY <1>1, LenProperties
  <1>3. c # <<>> => Len(c) \in Nat \ {0}
    BY <1>1, EmptySeq
  <1> QED
    BY <1>1, <1>2, <1>3

\* The statement a task is at is a statement.
LEMMA TextIsStatement ==
    ASSUME TypeOK, TurnsOK, NEW t \in Turn, pc[t] \in {"embed", "sync"}
    PROVE  said[t][next[t]] \in Statement
  <1>1. said[t] \in Seq(Statement) /\ next[t] \in 1..Len(said[t])
    BY CandidatesAreSequences DEF TypeOK, TurnsOK
  <1> QED
    BY <1>1, ElementOfSeq

\* A new row is a row.
LEMMA NewRowType ==
    ASSUME NEW s \in Statement, NEW c \in 0..Full, NEW v \in BOOLEAN
    PROVE  /\ NewRow(s, c, v) \in Row
           /\ NewRow(s, c, v).status = "current"
           /\ NewRow(s, c, v).text = s /\ NewRow(s, c, v).vec = v
  BY DEF NewRow, Row, Status, NoBody

\* The resolution of a conflict is well typed, and supersedes or boosts only
\* an existing row.
LEMMA ResolveType ==
    ASSUME NEW s \in Statement, NEW i, NEW trusted
    PROVE  LET r == Resolve(s, i, trusted)
           IN  /\ r.action \in Action \cup {"boost"}
               /\ r.status \in {"current", "quarantined", "provisional"}
               /\ r.confidence \in 0..Full
               /\ r.contradicts \in BOOLEAN
               /\ r.action \in {"supersede", "boost"} =>
                    r.status = "current" /\ i # NoBody
  <1>1. s.confidence \in 0..Full
    BY StatementAssumption
  <1> QED
    BY <1>1 DEF Resolve, Outcome, Action, Full, Half, Hedge

\* What the conflict is resolved against is a row of the table, or none.
LEMMA MatchType ==
    ASSUME NEW s, NEW emb, NEW i \in Matches(s, emb)
    PROVE  i = NoBody \/ i \in DOMAIN facts
  <1>1. \A near \in SimilarSets(s) : near \subseteq DOMAIN facts
    BY DEF SimilarSets, Searched
  <1> QED
    BY <1>1 DEF Matches

-----------------------------------------------------------------------------
(***************************************************************************)
(* One lemma per action: it preserves the inductive invariant.             *)
(***************************************************************************)

\* The parts of IInv about the table hold again when the table is unchanged.
LEMMA TableUnchanged ==
    ASSUME IInv, UNCHANGED <<facts, disk>>
    PROVE  /\ facts' \in Seq(Row) /\ disk' \in Seq(Row)
           /\ DiskOK' /\ Sound(facts)' /\ Sound(disk)' /\ CopyFree(facts)'
  BY DEF IInv, TypeOK, DiskOK, Sound, CopyFree

LEMMA SendPreserves ==
    ASSUME IInv, NEW t \in Turn, Send(t)
    PROVE  IInv'
  <1> USE DEF Send
  <1>1. TypeOK'
    BY TableUnchanged DEF IInv, TypeOK
  <1>2. TurnsOK'
    BY DEF IInv, TypeOK, TurnsOK
  <1>3. JobOK'
    BY DEF JobOK
  <1> QED
    BY <1>1, <1>2, <1>3, TableUnchanged DEF IInv

LEMMA ExtractPreserves ==
    ASSUME IInv, NEW t \in Turn, Extract(t)
    PROVE  IInv'
  <1> USE DEF Extract
  <1>1. PICK candidates \in CandidateLists, trusted \in BOOLEAN :
            /\ said' = [said EXCEPT ![t] = candidates]
            /\ coherent' = [coherent EXCEPT ![t] = trusted]
            /\ pc' = [pc EXCEPT ![t] = IF candidates = <<>> THEN "done"
                                                             ELSE "embed"]
    OBVIOUS
  <1>2. TypeOK'
    BY <1>1, TableUnchanged DEF IInv, TypeOK
  <1>3. TurnsOK'
    <2>1. candidates # <<>> => next[t] \in 1..Len(candidates)
      BY CandidatesAreSequences DEF IInv, TurnsOK
    <2> QED
      BY <1>1, <2>1 DEF IInv, TypeOK, TurnsOK
  <1>4. JobOK'
    BY DEF JobOK
  <1> QED
    BY <1>2, <1>3, <1>4, TableUnchanged DEF IInv

\* Going on to the next statement, or ending the turn.
LEMMA AdvancePreserves ==
    ASSUME IInv, NEW t \in Turn, pc[t] \in {"embed", "sync"}, Advance(t),
           UNCHANGED said
    PROVE  /\ pc' \in [Turn -> {"unsent", "extract", "embed", "sync", "done", "lost"}]
           /\ next' \in [Turn -> Nat \ {0}]
           /\ TurnsOK'
  <1>1. /\ next[t] \in 1..Len(said[t]) /\ Len(said[t]) \in Nat
    BY CandidatesAreSequences DEF IInv, TypeOK, TurnsOK
  <1>2. /\ pc' \in [Turn -> {"unsent", "extract", "embed", "sync", "done", "lost"}]
        /\ next' \in [Turn -> Nat \ {0}]
    BY <1>1 DEF IInv, TypeOK, Advance
  <1>3. next'[t] = next[t] + 1 /\ pc'[t] \in {"embed", "done"}
        /\ (pc'[t] = "embed" => next[t] < Len(said[t]))
    BY DEF IInv, TypeOK, Advance
  <1>4. \A u \in Turn : u # t => next'[u] = next[u] /\ pc'[u] = pc[u]
    BY DEF IInv, TypeOK, Advance
  <1>5. TurnsOK'
    BY <1>1, <1>3, <1>4 DEF IInv, TypeOK, TurnsOK
  <1> QED
    BY <1>2, <1>5

\* A commit of sound rows free of copies restores the parts about the table.
LEMMA CommitTable ==
    ASSUME NEW rows \in Seq(Row), Commit(rows), Sound(rows), CopyFree(rows)
    PROVE  /\ facts' \in Seq(Row) /\ disk' \in Seq(Row)
           /\ DiskOK' /\ Sound(facts)' /\ Sound(disk)' /\ CopyFree(facts)'
  <1>1. facts' = rows /\ disk' = rows
    BY DEF Commit
  <1>2. Len(rows) \in Nat
    BY LenProperties
  <1> QED
    BY <1>1, <1>2 DEF DiskOK, Sound, CopyFree

\* Rows that differ from the table in confidence and usage only.
Alike(rows) ==
    /\ rows \in Seq(Row) /\ Len(rows) = Len(facts)
    /\ \A i \in 1..Len(facts) :
        /\ rows[i].text = facts[i].text /\ rows[i].vec = facts[i].vec
        /\ rows[i].status = facts[i].status
        /\ rows[i].superseded_by = facts[i].superseded_by

LEMMA AlikeTable ==
    ASSUME IInv, NEW rows, Alike(rows)
    PROVE  Sound(rows) /\ CopyFree(rows)
  <1>1. Len(facts) \in Nat
    BY LenProperties DEF IInv, TypeOK
  <1>2. CopyFree(rows)
    BY <1>1 DEF IInv, CopyFree, Alike
  <1>3. SUFFICES ASSUME NEW i \in 1..Len(facts), rows[i].status = "superseded",
                        rows[i].superseded_by # Pending
                 PROVE  /\ rows[i].superseded_by \in (i + 1)..Len(facts)
                        /\ rows[rows[i].superseded_by].status
                                \in {"current", "superseded"}
    BY <1>2 DEF Alike, Sound
  <1> DEFINE k == facts[i].superseded_by
  <1>4. rows[i].superseded_by = k /\ facts[i].status = "superseded" /\ k # Pending
    BY <1>3 DEF Alike
  <1>5. k \in (i + 1)..Len(facts) /\ facts[k].status \in {"current", "superseded"}
    BY <1>4 DEF IInv, Sound
  <1>6. rows[k].status = facts[k].status
    BY <1>1, <1>5 DEF Alike
  <1> QED
    BY <1>4, <1>5, <1>6

\* A boost, and the halving of a contradicted row's confidence.
LEMMA BoostAlike ==
    ASSUME IInv, NEW i \in 1..Len(facts)
    PROVE  Alike(Boosted(i))
  <1> DEFINE c == IF facts[i].confidence < Full
                  THEN facts[i].confidence + 1 ELSE Full
  <1> DEFINE u == facts[i].usage + 1
  <1> DEFINE r == [facts[i] EXCEPT !.confidence = c, !.usage = u]
  <1>0. facts \in Seq(Row)
    BY DEF IInv, TypeOK
  <1>1. facts[i] \in Row
    BY <1>0, ElementOfSeq
  <1>a. c \in 0..Full /\ u \in Nat
    BY <1>1 DEF Row, Full
  <1>3. Boosted(i) = [facts EXCEPT ![i] = r]
    BY <1>0, <1>1, LenProperties DEF Boosted, Row
  <1> HIDE DEF c, u
  <1>2. /\ r \in Row /\ r.text = facts[i].text /\ r.vec = facts[i].vec
        /\ r.status = facts[i].status /\ r.superseded_by = facts[i].superseded_by
    BY <1>1, <1>a DEF Row
  <1> HIDE DEF r
  <1>4. /\ [facts EXCEPT ![i] = r] \in Seq(Row)
        /\ Len([facts EXCEPT ![i] = r]) = Len(facts)
        /\ \A j \in 1..Len(facts) :
                [facts EXCEPT ![i] = r][j] = IF j = i THEN r ELSE facts[j]
    BY <1>0, <1>2, UpdateRow
  <1> QED
    BY <1>2, <1>3, <1>4 DEF Alike

LEMMA HalveAlike ==
    ASSUME IInv, NEW i \in 1..Len(facts)
    PROVE  Alike([facts EXCEPT ![i].confidence = Half])
  <1> DEFINE r == [facts[i] EXCEPT !.confidence = Half]
  <1>0. facts \in Seq(Row)
    BY DEF IInv, TypeOK
  <1>1. facts[i] \in Row
    BY <1>0, ElementOfSeq
  <1>2. /\ r \in Row /\ r.text = facts[i].text /\ r.vec = facts[i].vec
        /\ r.status = facts[i].status /\ r.superseded_by = facts[i].superseded_by
    BY <1>1 DEF Row, Full, Half
  <1>3. [facts EXCEPT ![i].confidence = Half] = [facts EXCEPT ![i] = r]
    BY <1>0, <1>1, LenProperties DEF Row
  <1> HIDE DEF r
  <1>4. /\ [facts EXCEPT ![i] = r] \in Seq(Row)
        /\ Len([facts EXCEPT ![i] = r]) = Len(facts)
        /\ \A j \in 1..Len(facts) :
                [facts EXCEPT ![i] = r][j] = IF j = i THEN r ELSE facts[j]
    BY <1>0, <1>2, UpdateRow
  <1> QED
    BY <1>2, <1>3, <1>4 DEF Alike

LEMMA DecidePreserves ==
    ASSUME IInv, NEW t \in Turn, Decide(t)
    PROVE  IInv'
  <1> DEFINE s == said[t][next[t]]
  <1>1. /\ job = NoJob /\ pc[t] = "embed"
        /\ UNCHANGED <<said, coherent, failures>>
    BY DEF Decide
  <1>2. s \in Statement
    BY <1>1, TextIsStatement DEF IInv
  <1>3. facts \in Seq(Row) /\ Len(facts) \in Nat /\ DOMAIN facts = 1..Len(facts)
    BY LenProperties DEF IInv, TypeOK
  <1>4. PICK emb \in BOOLEAN :
            \/ /\ IsDuplicate(s, emb)
               /\ Advance(t) /\ UNCHANGED <<facts, disk, job>>
            \/ /\ ~IsDuplicate(s, emb)
               /\ \E i \in Matches(s, emb) :
                    LET r == Resolve(s, i, coherent[t])
                    IN  IF r.action = "boost"
                        THEN Advance(t) /\ Commit(Boosted(i)) /\ UNCHANGED job
                        ELSE /\ job' = [turn |-> t, action |-> r.action,
                                        step |-> IF r.action = "supersede"
                                                 THEN "retire" ELSE "insert",
                                        status |-> r.status,
                                        confidence |-> r.confidence,
                                        contradicts |-> r.contradicts, emb |-> emb,
                                        old |-> i, new |-> NoBody]
                             /\ pc' = [pc EXCEPT ![t] = "sync"]
                             /\ UNCHANGED <<facts, disk, next>>
    BY DEF Decide
  <1>5. CASE Advance(t) /\ UNCHANGED <<facts, disk, job>>
    <2>1. TypeOK' /\ TurnsOK'
      BY <1>1, <1>5, AdvancePreserves, TableUnchanged DEF IInv, TypeOK
    <2>2. JobOK'
      BY <1>1, <1>5 DEF JobOK
    <2> QED
      BY <1>5, <2>1, <2>2, TableUnchanged DEF IInv
  <1>6. ASSUME ~IsDuplicate(s, emb), NEW i \in Matches(s, emb),
               Resolve(s, i, coherent[t]).action = "boost",
               Advance(t), Commit(Boosted(i)), UNCHANGED job
        PROVE  IInv'
    <2>1. i \in 1..Len(facts)
      BY <1>2, <1>3, <1>6, MatchType, ResolveType
    <2>2. Alike(Boosted(i))
      BY <2>1, BoostAlike
    <2>3. Sound(Boosted(i)) /\ CopyFree(Boosted(i)) /\ Boosted(i) \in Seq(Row)
      BY <2>2, AlikeTable DEF Alike
    <2>4. /\ facts' \in Seq(Row) /\ disk' \in Seq(Row)
          /\ DiskOK' /\ Sound(facts)' /\ Sound(disk)' /\ CopyFree(facts)'
      BY <1>6, <2>3, CommitTable
    <2>5. TypeOK' /\ TurnsOK'
      BY <1>1, <1>6, <2>4, AdvancePreserves DEF IInv, TypeOK
    <2>6. JobOK'
      BY <1>1, <1>6 DEF JobOK
    <2> QED
      BY <2>4, <2>5, <2>6 DEF IInv
  <1>7. ASSUME ~IsDuplicate(s, emb), NEW i \in Matches(s, emb),
               NEW r, r = Resolve(s, i, coherent[t]), r.action # "boost",
               job' = [turn |-> t, action |-> r.action,
                       step |-> IF r.action = "supersede"
                                THEN "retire" ELSE "insert",
                       status |-> r.status, confidence |-> r.confidence,
                       contradicts |-> r.contradicts, emb |-> emb,
                       old |-> i, new |-> NoBody],
               pc' = [pc EXCEPT ![t] = "sync"],
               UNCHANGED <<facts, disk, next>>
        PROVE  IInv'
    <2>1. i = NoBody \/ i \in 1..Len(facts)
      BY <1>3, MatchType
    <2>2. /\ r.action \in Action
          /\ r.status \in {"current", "quarantined", "provisional"}
          /\ r.confidence \in 0..Full /\ r.contradicts \in BOOLEAN
          /\ r.action = "supersede" => r.status = "current" /\ i # NoBody
      BY <1>2, <1>7, ResolveType
    <2>3. job' \in Job
      BY <1>3, <1>7, <2>1, <2>2 DEF Job, Step, Status, NoBody
    <2>4. TypeOK'
      BY <1>1, <1>7, <2>3, TableUnchanged DEF IInv, TypeOK
    <2>5. TurnsOK'
      BY <1>1, <1>7 DEF IInv, TypeOK, TurnsOK
    <2>6. \A k \in 1..Len(facts) : facts[k].text = s => ~facts[k].vec
      BY <1>3, <1>7 DEF IsDuplicate, Searched, SameWording
    <2>7. pc'[t] = "sync" /\ JobText' = s
      BY <1>1, <1>7 DEF IInv, TypeOK, JobText
    <2>8. JobOK'
      BY <1>3, <1>7, <2>1, <2>2, <2>6, <2>7 DEF JobOK, NoBody
    <2> QED
      BY <1>7, <2>4, <2>5, <2>8, TableUnchanged DEF IInv
  <1> QED
    BY <1>4, <1>5, <1>6, <1>7

\* Where the running task is, and that a job in hand is a Job.
LEMMA JobFacts ==
    ASSUME IInv, job # NoJob
    PROVE  /\ job \in Job /\ job.turn \in Turn
           /\ pc[job.turn] = "sync"
           /\ JobText \in Statement
  <1>1. job \in Job /\ job.turn \in Turn
    BY DEF IInv, TypeOK, Job
  <1>2. pc[job.turn] = "sync"
    BY DEF IInv, JobOK
  <1> QED
    BY <1>1, <1>2, TextIsStatement DEF IInv, JobText

LEMMA RetirePreserves ==
    ASSUME IInv, Retire
    PROVE  IInv'
  <1> DEFINE rows == UpdateStatus(job.old, "superseded", Pending)
  <1>1. /\ job # NoJob /\ job.step = "retire" /\ Commit(rows)
        /\ job' = [job EXCEPT !.step = IF job.contradicts THEN "halve" ELSE "insert"]
        /\ UNCHANGED <<pc, said, next, coherent, failures>>
    BY DEF Retire, Running
  <1>2. job \in Job /\ job.action = "supersede" /\ job.old \in 1..Len(facts)
    BY <1>1, JobFacts DEF IInv, JobOK
  <1>3. facts \in Seq(Row) /\ Len(facts) \in Nat
    BY LenProperties DEF IInv, TypeOK
  <1>4. "superseded" \in Status /\ Pending \in Int
    BY DEF Status, Pending
  <1>5. /\ rows \in Seq(Row) /\ Len(rows) = Len(facts)
        /\ \A j \in 1..Len(facts) :
                rows[j].text = facts[j].text /\ rows[j].vec = facts[j].vec
    BY <1>2, <1>3, <1>4, UpdateStatusRow
  <1>6. Sound(rows)
    BY <1>2, <1>3, <1>4, UpdateSound DEF IInv
  <1> HIDE DEF rows
  <1>7. CopyFree(rows)
    BY <1>3, <1>5 DEF IInv, CopyFree
  <1>8. /\ facts' \in Seq(Row) /\ disk' \in Seq(Row)
        /\ DiskOK' /\ Sound(facts)' /\ Sound(disk)' /\ CopyFree(facts)'
    BY <1>1, <1>5, <1>6, <1>7, CommitTable
  <1>9. job' \in Job
    BY <1>1, <1>2 DEF Job, Step
  <1>10. TypeOK' /\ TurnsOK'
    BY <1>1, <1>8, <1>9 DEF IInv, TypeOK, TurnsOK
  <1>11. facts' = rows /\ JobText' = JobText
    BY <1>1, <1>2 DEF Commit, JobText, Job
  <1>12. JobOK'
    BY <1>1, <1>2, <1>5, <1>11 DEF IInv, JobOK, Job
  <1> QED
    BY <1>8, <1>10, <1>12 DEF IInv

LEMMA HalvePreserves ==
    ASSUME IInv, Halve
    PROVE  IInv'
  <1> DEFINE rows == [facts EXCEPT ![job.old].confidence = Half]
  <1>1. /\ job # NoJob /\ job.step = "halve" /\ Commit(rows)
        /\ job' = [job EXCEPT !.step = "insert"]
        /\ UNCHANGED <<pc, said, next, coherent, failures>>
    BY DEF Halve, Running
  <1>2. job \in Job /\ job.action = "supersede" /\ job.old \in 1..Len(facts)
    BY <1>1, JobFacts DEF IInv, JobOK
  <1>3. Alike(rows)
    BY <1>2, HalveAlike
  <1> HIDE DEF rows
  <1>4. /\ facts' \in Seq(Row) /\ disk' \in Seq(Row)
        /\ DiskOK' /\ Sound(facts)' /\ Sound(disk)' /\ CopyFree(facts)'
    BY <1>1, <1>3, AlikeTable, CommitTable DEF Alike
  <1>5. job' \in Job
    BY <1>1, <1>2 DEF Job, Step
  <1>6. TypeOK' /\ TurnsOK'
    BY <1>1, <1>4, <1>5 DEF IInv, TypeOK, TurnsOK
  <1>7. facts' = rows /\ JobText' = JobText
    BY <1>1, <1>2 DEF Commit, JobText, Job
  <1>8. JobOK'
    BY <1>1, <1>2, <1>3, <1>7 DEF IInv, JobOK, Job, Alike
  <1> QED
    BY <1>4, <1>6, <1>8 DEF IInv

\* The row an insert appends, with or without its vector, is no copy of a row
\* with a vector: the check that nothing separates from the insert said so.
LEMMA AppendedRow ==
    ASSUME IInv, job # NoJob, job.step = "insert", NEW vec \in BOOLEAN
    PROVE  LET rows == Append(facts, NewRow(JobText, job.confidence, vec))
           IN  /\ rows \in Seq(Row) /\ Len(rows) = Len(facts) + 1
               /\ Len(facts) \in Nat
               /\ \A j \in 1..Len(facts) : rows[j] = facts[j]
               /\ rows[Len(facts) + 1].status = "current"
               /\ Sound(rows) /\ CopyFree(rows)
  <1> DEFINE new == NewRow(JobText, job.confidence, vec)
  <1> DEFINE rows == Append(facts, new)
  <1>1. /\ new \in Row /\ new.status = "current" /\ new.text = JobText
    BY JobFacts, NewRowType DEF Job
  <1>2. facts \in Seq(Row) /\ Len(facts) \in Nat
    BY LenProperties DEF IInv, TypeOK
  <1> HIDE DEF new
  <1>3. Sound(rows)
    BY <1>1, <1>2, AppendSound DEF IInv
  <1>4. /\ rows \in Seq(Row) /\ Len(rows) = Len(facts) + 1
        /\ \A j \in 1..Len(facts) : rows[j] = facts[j]
        /\ rows[Len(facts) + 1] = new
    BY <1>1, <1>2, AppendRow
  <1> HIDE DEF rows
  <1>5. \A i \in 1..Len(facts) : facts[i].text = JobText => ~facts[i].vec
    BY DEF IInv, JobOK
  <1>6. CopyFree(rows)
    BY <1>1, <1>2, <1>4, <1>5 DEF IInv, CopyFree
  <1> QED
    BY <1>1, <1>2, <1>3, <1>4, <1>6 DEF rows, new

LEMMA InsertPreserves ==
    ASSUME IInv, Insert
    PROVE  IInv'
  <1> DEFINE rows == Append(facts, NewRow(JobText, job.confidence, job.emb))
  <1>1. /\ job # NoJob /\ job.step = "insert" /\ Commit(rows)
        /\ UNCHANGED <<said, coherent, failures>>
    BY DEF Insert, Running, JobText
  <1>2. job \in Job /\ job.turn \in Turn /\ pc[job.turn] = "sync"
    BY <1>1, JobFacts
  <1>3. /\ rows \in Seq(Row) /\ Len(rows) = Len(facts) + 1
        /\ Len(facts) \in Nat
        /\ \A j \in 1..Len(facts) : rows[j] = facts[j]
        /\ rows[Len(facts) + 1].status = "current"
        /\ Sound(rows) /\ CopyFree(rows)
    BY <1>1, <1>2, AppendedRow DEF Job
  <1> HIDE DEF rows
  <1>4. /\ facts' \in Seq(Row) /\ disk' \in Seq(Row)
        /\ DiskOK' /\ Sound(facts)' /\ Sound(disk)' /\ CopyFree(facts)'
    BY <1>1, <1>3, CommitTable
  <1>5. CASE Finish
    <2>1. job' = NoJob /\ Advance(job.turn)
      BY <1>5 DEF Finish
    <2>2. TypeOK' /\ TurnsOK'
      BY <1>1, <1>2, <1>4, <2>1, AdvancePreserves DEF IInv, TypeOK
    <2>3. JobOK'
      BY <2>1 DEF JobOK
    <2> QED
      BY <1>4, <2>2, <2>3 DEF IInv
  <1>6. CASE /\ job.status # "current" \/ job.action = "supersede"
             /\ job' = [job EXCEPT !.new = Len(facts) + 1,
                           !.step = IF job.status # "current"
                                    THEN "restatus" ELSE "link"]
             /\ UNCHANGED <<pc, next>>
    <2> DEFINE step == IF job.status # "current" THEN "restatus" ELSE "link"
    <2>a. step \in Step /\ Len(facts) + 1 \in Nat
      BY <1>3 DEF Step
    <2>b. job' = [job EXCEPT !.new = Len(facts) + 1, !.step = step]
      BY <1>6
    <2> HIDE DEF step
    <2>1. job' \in Job
      BY <1>2, <2>a, <2>b DEF Job
    <2>2. TypeOK' /\ TurnsOK'
      BY <1>1, <1>4, <1>6, <2>1 DEF IInv, TypeOK, TurnsOK
    <2>3. facts' = rows
      BY <1>1 DEF Commit
    <2>4. /\ job'.turn = job.turn /\ job'.action = job.action
          /\ job'.status = job.status /\ job'.old = job.old
          /\ job'.new = Len(facts) + 1
          /\ job'.step = IF job.status # "current" THEN "restatus" ELSE "link"
      BY <1>2, <1>6 DEF Job
    <2>5. /\ job.action = "supersede" =>
                job.status = "current" /\ job.old \in 1..Len(facts)
          /\ job.status \in {"current", "quarantined", "provisional"}
      BY <1>1 DEF IInv, JobOK
    <2>6. job.old < Len(facts) + 1
      BY <1>1, <1>2, <1>3 DEF IInv, JobOK
    <2>7. \A i \in 1..Len(rows) : rows[i].status = "superseded"
                => rows[i].superseded_by # Len(facts) + 1
      <3> SUFFICES ASSUME NEW i \in 1..Len(rows), rows[i].status = "superseded"
                   PROVE  rows[i].superseded_by # Len(facts) + 1
        OBVIOUS
      <3>1. i \in 1..Len(facts) /\ rows[i] = facts[i]
        BY <1>3
      <3>2. \/ facts[i].superseded_by = Pending
            \/ facts[i].superseded_by \in (i + 1)..Len(facts)
        BY <3>1 DEF IInv, Sound
      <3> QED
        BY <1>3, <3>1, <3>2 DEF Pending
    <2>8. /\ job'.step \in {"restatus", "link"}
          /\ (job'.step = "link") = (job.status = "current")
          /\ job.status = "current" => job.action = "supersede"
      BY <1>6, <2>4
    <2>9. pc'[job'.turn] = "sync" /\ Len(facts') = Len(facts) + 1
      BY <1>2, <1>3, <1>6, <2>3, <2>4
    <2>10. /\ job'.new \in 1..Len(facts') /\ facts'[job'.new].status = "current"
           /\ job'.old < job'.new /\ job'.old \in 0..Len(facts')
           /\ job'.action = "supersede" => job'.old \in 1..Len(facts')
      BY <1>2, <1>3, <2>3, <2>4, <2>5, <2>6, <2>9 DEF Job
    <2>11. JobOK'
      BY <2>3, <2>4, <2>5, <2>7, <2>8, <2>9, <2>10 DEF JobOK
    <2> QED
      BY <1>4, <2>2, <2>11 DEF IInv
  <1> QED
    BY <1>5, <1>6 DEF Insert

LEMMA RestatusPreserves ==
    ASSUME IInv, Restatus
    PROVE  IInv'
  <1> DEFINE by == facts[job.new].superseded_by
  <1> DEFINE rows == UpdateStatus(job.new, job.status, by)
  <1>1. /\ job # NoJob /\ job.step = "restatus" /\ Commit(rows)
        /\ job' = NoJob /\ Advance(job.turn)
        /\ UNCHANGED <<said, coherent, failures>>
    BY DEF Restatus, Running, Finish
  <1>2. job \in Job /\ job.turn \in Turn /\ pc[job.turn] = "sync"
    BY <1>1, JobFacts
  <1>3. /\ job.new \in 1..Len(facts) /\ facts[job.new].status = "current"
        /\ job.status \in {"quarantined", "provisional"}
        /\ \A i \in 1..Len(facts) :
                facts[i].status = "superseded" => facts[i].superseded_by # job.new
    BY <1>1 DEF IInv, JobOK
  <1>4. facts \in Seq(Row) /\ Len(facts) \in Nat
    BY LenProperties DEF IInv, TypeOK
  <1>5. by \in Int /\ job.status \in Status
    <2>1. facts[job.new] \in Row
      BY <1>3, <1>4, ElementOfSeq
    <2> QED
      BY <1>2, <2>1 DEF Row, Job
  <1> HIDE DEF by
  <1>6. /\ rows \in Seq(Row) /\ Len(rows) = Len(facts)
        /\ \A j \in 1..Len(facts) : j # job.new => rows[j] = facts[j]
        /\ rows[job.new].status = job.status
        /\ \A j \in 1..Len(facts) :
                rows[j].text = facts[j].text /\ rows[j].vec = facts[j].vec
    BY <1>3, <1>4, <1>5, UpdateStatusRow
  <1> HIDE DEF rows
  <1>7. Sound(rows)
    <2> SUFFICES ASSUME NEW i \in 1..Len(facts), rows[i].status = "superseded",
                        rows[i].superseded_by # Pending
                 PROVE  /\ rows[i].superseded_by \in (i + 1)..Len(facts)
                        /\ rows[rows[i].superseded_by].status
                                \in {"current", "superseded"}
      BY <1>6 DEF Sound
    <2> DEFINE k == facts[i].superseded_by
    <2>1. i # job.new /\ rows[i] = facts[i]
      BY <1>3, <1>6
    <2>2. k \in (i + 1)..Len(facts) /\ facts[k].status \in {"current", "superseded"}
      BY <2>1 DEF IInv, Sound
    <2>3. k # job.new
      BY <1>3, <2>1
    <2>4. rows[k] = facts[k]
      BY <1>4, <1>6, <2>2, <2>3
    <2> QED
      BY <2>1, <2>2, <2>4
  <1>8. CopyFree(rows)
    BY <1>4, <1>6 DEF IInv, CopyFree
  <1>9. /\ facts' \in Seq(Row) /\ disk' \in Seq(Row)
        /\ DiskOK' /\ Sound(facts)' /\ Sound(disk)' /\ CopyFree(facts)'
    BY <1>1, <1>6, <1>7, <1>8, CommitTable
  <1>10. TypeOK' /\ TurnsOK'
    BY <1>1, <1>2, <1>9, AdvancePreserves DEF IInv, TypeOK
  <1>11. JobOK'
    BY <1>1 DEF JobOK
  <1> QED
    BY <1>9, <1>10, <1>11 DEF IInv

LEMMA LinkPreserves ==
    ASSUME IInv, Link
    PROVE  IInv'
  <1> DEFINE rows == UpdateStatus(job.old, "superseded", job.new)
  <1>1. /\ job # NoJob /\ job.step = "link" /\ Commit(rows)
        /\ job' = NoJob /\ Advance(job.turn)
        /\ UNCHANGED <<said, coherent, failures>>
    BY DEF Link, Running, Finish
  <1>2. job \in Job /\ job.turn \in Turn /\ pc[job.turn] = "sync"
    BY <1>1, JobFacts
  <1>3. /\ job.old \in 1..Len(facts)
        /\ job.new \in 1..Len(facts) /\ facts[job.new].status = "current"
        /\ job.old < job.new
    BY <1>1 DEF IInv, JobOK
  <1>4. facts \in Seq(Row) /\ Len(facts) \in Nat
    BY LenProperties DEF IInv, TypeOK
  <1>5. /\ "superseded" \in Status /\ job.new \in Int
        /\ job.new \in (job.old + 1)..Len(facts)
    BY <1>3, <1>4 DEF Status
  <1>6. /\ rows \in Seq(Row) /\ Len(rows) = Len(facts)
        /\ \A j \in 1..Len(facts) :
                rows[j].text = facts[j].text /\ rows[j].vec = facts[j].vec
    BY <1>3, <1>4, <1>5, UpdateStatusRow
  <1>7. Sound(rows)
    BY <1>3, <1>4, <1>5, UpdateSound DEF IInv
  <1> HIDE DEF rows
  <1>8. CopyFree(rows)
    BY <1>4, <1>6 DEF IInv, CopyFree
  <1>9. /\ facts' \in Seq(Row) /\ disk' \in Seq(Row)
        /\ DiskOK' /\ Sound(facts)' /\ Sound(disk)' /\ CopyFree(facts)'
    BY <1>1, <1>6, <1>7, <1>8, CommitTable
  <1>10. TypeOK' /\ TurnsOK'
    BY <1>1, <1>2, <1>9, AdvancePreserves DEF IInv, TypeOK
  <1>11. JobOK'
    BY <1>1 DEF JobOK
  <1> QED
    BY <1>9, <1>10, <1>11 DEF IInv

\* Losing tasks keeps the invariants about them.
LEMMA DropPreserves ==
    ASSUME IInv, Fail, job' = NoJob, UNCHANGED <<said, next, coherent>>,
           \/ \E t \in Turn : pc' = [pc EXCEPT ![t] = "lost"]
           \/ pc' = [t \in Turn |-> IF t \in Active THEN "lost" ELSE pc[t]],
           facts' \in Seq(Row), disk' \in Seq(Row)
    PROVE  TypeOK' /\ TurnsOK' /\ JobOK'
  <1>1. failures' \in 0..MaxFailures
    BY BoundAssumption DEF IInv, TypeOK, Fail
  <1>2. TypeOK'
    BY <1>1 DEF IInv, TypeOK
  <1>3. \A t \in Turn : pc'[t] = pc[t] \/ pc'[t] = "lost"
    BY DEF IInv, TypeOK
  <1> QED
    BY <1>2, <1>3 DEF IInv, TurnsOK, JobOK

LEMMA FailurePreserves ==
    ASSUME IInv, Raise \/ RaiseInInsert \/ Crash
    PROVE  IInv'
  <1>1. CASE Raise
    BY <1>1, TableUnchanged, DropPreserves, JobFacts DEF Raise, Drop, IInv
  <1>2. CASE RaiseInInsert
    <2> DEFINE rows == Append(facts, NewRow(JobText, job.confidence, FALSE))
    <2>1. /\ job # NoJob /\ job.step = "insert" /\ Fail /\ Drop
          /\ facts' = rows /\ UNCHANGED <<disk, said, next, coherent>>
      BY <1>2 DEF RaiseInInsert, Running, JobText
    <2>2. /\ rows \in Seq(Row) /\ Len(rows) = Len(facts) + 1
          /\ Len(facts) \in Nat
          /\ \A j \in 1..Len(facts) : rows[j] = facts[j]
          /\ Sound(rows) /\ CopyFree(rows)
      BY <2>1, AppendedRow
    <2> HIDE DEF rows
    <2>3. Len(disk) \in Nat /\ disk' \in Seq(Row)
      BY <2>1, LenProperties DEF IInv, TypeOK
    <2>4. DiskOK'
      BY <2>1, <2>2, <2>3 DEF IInv, DiskOK
    <2>5. Sound(facts)' /\ Sound(disk)' /\ CopyFree(facts)'
      BY <2>1, <2>2 DEF IInv, Sound, CopyFree
    <2>6. TypeOK' /\ TurnsOK' /\ JobOK'
      BY <2>1, <2>2, <2>3, DropPreserves, JobFacts DEF Drop
    <2> QED
      BY <2>4, <2>5, <2>6 DEF IInv
  <1>3. CASE Crash
    <2>1. /\ Fail /\ facts' = disk /\ job' = NoJob
          /\ pc' = [t \in Turn |-> IF t \in Active THEN "lost" ELSE pc[t]]
          /\ UNCHANGED <<disk, said, next, coherent>>
      BY <1>3 DEF Crash
    <2>2. disk \in Seq(Row) /\ Len(disk) \in Nat /\ Len(facts) \in Nat
      BY LenProperties DEF IInv, TypeOK
    <2>3. CopyFree(disk)
      BY <2>2 DEF IInv, DiskOK, CopyFree
    <2>4. DiskOK' /\ Sound(facts)' /\ Sound(disk)' /\ CopyFree(facts)'
      BY <2>1, <2>2, <2>3 DEF IInv, DiskOK, Sound, CopyFree
    <2>5. TypeOK' /\ TurnsOK' /\ JobOK'
      BY <2>1, <2>2, DropPreserves
    <2> QED
      BY <2>4, <2>5 DEF IInv
  <1> QED
    BY <1>1, <1>2, <1>3

-----------------------------------------------------------------------------
(***************************************************************************)
(* The theorems.                                                           *)
(***************************************************************************)

\* IInv is an inductive invariant of the writer.
THEOREM Invariance == Spec => []IInv
  <1>1. Init => IInv
    <2> SUFFICES ASSUME Init PROVE IInv
      OBVIOUS
    <2> USE DEF Init
    <2>1. <<>> \in CandidateLists
      <3>1. <<>> \in [1..0 -> Statement]
        OBVIOUS
      <3> QED
        BY <3>1, BoundAssumption DEF CandidateLists
    <2>2. TypeOK
      BY <2>1, BoundAssumption, EmptySeq DEF TypeOK
    <2>3. TurnsOK /\ JobOK /\ DiskOK /\ Sound(facts) /\ Sound(disk)
            /\ CopyFree(facts)
      BY EmptySeq DEF TurnsOK, JobOK, DiskOK, Sound, CopyFree
    <2> QED
      BY <2>2, <2>3 DEF IInv
  <1>2. IInv /\ [Next]_vars => IInv'
    <2> SUFFICES ASSUME IInv, [Next]_vars PROVE IInv'
      OBVIOUS
    <2>1. ASSUME NEW t \in Turn, Send(t) \/ Extract(t) \/ Decide(t)
          PROVE  IInv'
      BY <2>1, SendPreserves, ExtractPreserves, DecidePreserves
    <2>2. CASE Write
      BY <2>2, RetirePreserves, HalvePreserves, InsertPreserves,
         RestatusPreserves, LinkPreserves DEF Write
    <2>3. CASE Raise \/ RaiseInInsert \/ Crash
      BY <2>3, FailurePreserves
    <2>4. CASE UNCHANGED vars
      BY <2>4 DEF vars, IInv, TypeOK, TurnsOK, JobOK, JobText, DiskOK, Sound,
                  CopyFree
    <2> QED
      BY <2>1, <2>2, <2>3, <2>4 DEF Next
  <1> QED
    BY <1>1, <1>2, PTL DEF Spec

\* Type correctness of the writer's state.
THEOREM TypeCorrect == Spec => []TypeOK
  <1>1. IInv => TypeOK
    BY DEF IInv
  <1> QED
    BY <1>1, Invariance, PTL

\* However many turns are written concurrently and wherever the writer fails,
\* no text is stored a second time behind a row that has its vector.
THEOREM NoDuplicatesEver == Spec => []NoDuplicates
  <1>1. IInv => NoDuplicates
    <2> SUFFICES ASSUME IInv PROVE NoDuplicates
      OBVIOUS
    <2>1. DOMAIN facts = 1..Len(facts)
      BY LenProperties DEF IInv, TypeOK
    <2> QED
      BY <2>1 DEF IInv, CopyFree, NoDuplicates
  <1> QED
    BY <1>1, Invariance, PTL

\* A superseded row points at "pending" or at a later row that took its place.
THEOREM SupersessionAlwaysSound == Spec => []SupersessionSound
  <1>1. IInv => SupersessionSound
    <2> SUFFICES ASSUME IInv PROVE SupersessionSound
      OBVIOUS
    <2>1. DOMAIN facts = 1..Len(facts)
      BY LenProperties DEF IInv, TypeOK
    <2> QED
      BY <2>1 DEF IInv, Sound, SupersessionSound
  <1> QED
    BY <1>1, Invariance, PTL

\* A commit of rows that keep their text, and their retirement, keeps what is
\* on disk.
LEMMA CommitKeeps ==
    ASSUME IInv, NEW rows, Commit(rows), Len(rows) >= Len(facts), Len(rows) \in Nat,
           \A i \in 1..Len(facts) :
                /\ rows[i].text = facts[i].text
                /\ facts[i].status = "superseded" => rows[i].status = "superseded"
    PROVE  KeepsRows
  <1>1. /\ disk' = rows /\ DOMAIN disk = 1..Len(disk)
        /\ Len(disk) \in Nat /\ Len(facts) \in Nat /\ Len(disk) <= Len(facts)
    BY LenProperties DEF Commit, IInv, TypeOK, DiskOK
  <1>2. \A i \in 1..Len(disk) : i \in 1..Len(facts) /\ disk[i] = facts[i]
    BY <1>1 DEF IInv, DiskOK
  <1> QED
    BY <1>1, <1>2 DEF KeepsRows

\* What is committed stays, and what is retired stays retired.
THEOREM RetiredForGoodAlways == Spec => RetiredForGood
  <1>1. ASSUME IInv, [Next]_vars PROVE [KeepsRows]_vars
    <2>0. /\ facts \in Seq(Row) /\ Len(facts) \in Nat
          /\ DOMAIN facts = 1..Len(facts)
      BY <1>1, LenProperties DEF IInv, TypeOK
    <2>1. CASE UNCHANGED disk
      <3>1. Len(disk) \in Nat
        BY <1>1, LenProperties DEF IInv, TypeOK
      <3> QED
        BY <2>1, <3>1 DEF KeepsRows
    <2>2. ASSUME NEW rows, Alike(rows), Commit(rows) PROVE KeepsRows
      BY <1>1, <2>0, <2>2, CommitKeeps DEF Alike
    <2>3. ASSUME NEW t \in Turn, Decide(t), disk' # disk PROVE KeepsRows
      <3> DEFINE s == said[t][next[t]]
      <3>1. pc[t] = "embed" /\ s \in Statement
        BY <1>1, <2>3, TextIsStatement DEF Decide, IInv
      <3>a. PICK emb \in BOOLEAN : \E i \in Matches(s, emb) :
                Resolve(s, i, coherent[t]).action = "boost" /\ Commit(Boosted(i))
        BY <2>3 DEF Decide
      <3>2. PICK i \in Matches(s, emb) :
                Resolve(s, i, coherent[t]).action = "boost" /\ Commit(Boosted(i))
        BY <3>a
      <3>3. i \in 1..Len(facts)
        BY <2>0, <3>1, <3>2, MatchType, ResolveType
      <3> QED
        BY <1>1, <2>2, <3>2, <3>3, BoostAlike
    <2>4. CASE Retire \/ Link
      <3>1. PICK by \in Int : Commit(UpdateStatus(job.old, "superseded", by))
        BY <1>1, <2>4, JobFacts DEF Retire, Link, Running, Pending, Job
      <3>2. job.old \in 1..Len(facts)
        BY <1>1, <2>4 DEF Retire, Link, Running, IInv, JobOK
      <3>3. "superseded" \in Status
        BY DEF Status
      <3> DEFINE rows == UpdateStatus(job.old, "superseded", by)
      <3>4. /\ Len(rows) = Len(facts) /\ rows[job.old].status = "superseded"
            /\ rows[job.old].text = facts[job.old].text
            /\ \A j \in 1..Len(facts) : j # job.old => rows[j] = facts[j]
        BY <2>0, <3>2, <3>3, UpdateStatusRow
      <3> HIDE DEF rows
      <3>5. Commit(rows)
        BY <3>1 DEF rows
      <3> QED
        BY <1>1, <2>0, <3>4, <3>5, CommitKeeps
    <2>5. CASE Halve
      <3>1. job.old \in 1..Len(facts)
        BY <1>1, <2>5 DEF Halve, Running, IInv, JobOK
      <3> QED
        BY <1>1, <2>2, <2>5, <3>1, HalveAlike DEF Halve
    <2>6. CASE Insert
      <3> DEFINE rows == Append(facts, NewRow(JobText, job.confidence, job.emb))
      <3>1. job # NoJob /\ job.step = "insert" /\ Commit(rows)
        BY <2>6 DEF Insert, Running, JobText
      <3>2. job.emb \in BOOLEAN
        BY <1>1, <3>1, JobFacts DEF Job
      <3>3. /\ Len(rows) = Len(facts) + 1
            /\ \A j \in 1..Len(facts) : rows[j] = facts[j]
        BY <1>1, <3>1, <3>2, AppendedRow
      <3> HIDE DEF rows
      <3> QED
        BY <1>1, <2>0, <3>1, <3>3, CommitKeeps
    <2>7. CASE Restatus
      <3> DEFINE by == facts[job.new].superseded_by
      <3> DEFINE rows == UpdateStatus(job.new, job.status, by)
      <3>1. job # NoJob /\ job.step = "restatus" /\ Commit(rows)
        BY <2>7 DEF Restatus, Running
      <3>2. job.new \in 1..Len(facts) /\ facts[job.new].status = "current"
        BY <1>1, <3>1 DEF IInv, JobOK
      <3>3. by \in Int /\ job.status \in Status
        <4>1. facts[job.new] \in Row
          BY <2>0, <3>2, ElementOfSeq
        <4> QED
          BY <1>1, <3>1, <4>1, JobFacts DEF Row, Job
      <3> HIDE DEF by
      <3>4. /\ Len(rows) = Len(facts)
            /\ rows[job.new].text = facts[job.new].text
            /\ \A j \in 1..Len(facts) : j # job.new => rows[j] = facts[j]
        BY <2>0, <3>2, <3>3, UpdateStatusRow
      <3> HIDE DEF rows
      <3> QED
        BY <1>1, <2>0, <3>1, <3>2, <3>4, CommitKeeps
    <2>8. CASE \E t \in Turn : Send(t) \/ Extract(t)
      BY <2>1, <2>8 DEF Send, Extract
    <2>9. CASE Raise \/ RaiseInInsert \/ Crash
      BY <2>1, <2>9 DEF Raise, RaiseInInsert, Crash
    <2> QED
      BY <1>1, <2>1, <2>3, <2>4, <2>5, <2>6, <2>7, <2>8, <2>9 DEF Next, Write, vars
  <1>2. IInv /\ [Next]_vars => [KeepsRows]_vars
    BY <1>1
  <1> QED
    BY <1>2, Invariance, PTL DEF Spec, RetiredForGood

-----------------------------------------------------------------------------
(***************************************************************************)
(* Rows left at "pending": each is the doing of one failure.               *)
(***************************************************************************)

\* The rows left at "pending" by a write that is over.
Stuck == {i \in 1..Len(facts) : facts[i].superseded_by = Pending} \ Retiring

StuckBounded == IsFiniteSet(Stuck) /\ Cardinality(Stuck) <= failures

\* A commit that gives no further row the successor "pending", but for one that
\* is being retired, leaves no more rows stuck.
LEMMA NoMoreStuck ==
    ASSUME NEW rows, facts' = rows, Len(rows) \in Nat, Len(facts) \in Nat,
           \A i \in 1..Len(rows) : rows[i].superseded_by = Pending =>
                \/ i \in 1..Len(facts) /\ facts[i].superseded_by = Pending
                \/ i \in Retiring',
           \A i \in Retiring : i \in Retiring' \/ rows[i].superseded_by # Pending
    PROVE  Stuck' \subseteq Stuck
  BY DEF Stuck

\* A step that does not fail leaves no more rows stuck.
LEMMA WritesLeaveNoneStuck ==
    ASSUME IInv, Next, UNCHANGED failures
    PROVE  Stuck' \subseteq Stuck
  <1>0. /\ facts \in Seq(Row) /\ Len(facts) \in Nat
        /\ DOMAIN facts = 1..Len(facts)
    BY LenProperties DEF IInv, TypeOK
  <1>1. ASSUME UNCHANGED facts, UNCHANGED Retiring PROVE Stuck' \subseteq Stuck
    BY <1>1 DEF Stuck
  <1>2. ASSUME NEW t \in Turn, Send(t) \/ Extract(t) PROVE Stuck' \subseteq Stuck
    BY <1>1, <1>2 DEF Send, Extract, Retiring
  <1>3. ASSUME NEW t \in Turn, Decide(t) PROVE Stuck' \subseteq Stuck
    <2>1. CASE UNCHANGED facts
      <3>1. Retiring = {} /\ Retiring' = {}
        <4>1. \/ UNCHANGED job
              \/ \E a : job'.action = a /\ job'.step = IF a = "supersede"
                                                       THEN "retire" ELSE "insert"
          BY <1>3 DEF Decide
        <4> QED
          BY <1>3, <4>1 DEF Decide, Retiring
      <3> QED
        BY <2>1, <3>1, <1>1
    <2>2. CASE facts' # facts
      <3> DEFINE s == said[t][next[t]]
      <3>1. pc[t] = "embed" /\ job = NoJob /\ s \in Statement
        BY <1>3, TextIsStatement DEF Decide, IInv
      <3>2. PICK emb \in BOOLEAN : \E i \in Matches(s, emb) :
                /\ Resolve(s, i, coherent[t]).action = "boost"
                /\ Commit(Boosted(i)) /\ UNCHANGED job
        BY <1>3, <2>2 DEF Decide
      <3>3. PICK i \in Matches(s, emb) :
                /\ Resolve(s, i, coherent[t]).action = "boost"
                /\ Commit(Boosted(i)) /\ UNCHANGED job
        BY <3>2
      <3>4. i \in 1..Len(facts)
        BY <1>0, <3>1, <3>3, MatchType, ResolveType
      <3>5. Alike(facts')
        BY <3>3, <3>4, BoostAlike DEF Commit
      <3>6. Retiring = {} /\ Retiring' = {}
        BY <3>1, <3>3 DEF Retiring
      <3> QED
        BY <1>0, <3>5, <3>6 DEF Alike, Stuck
    <2> QED
      BY <2>1, <2>2
  <1>4. CASE Retire
    <2>1. /\ job \in Job /\ job # NoJob /\ job.step = "retire"
          /\ job.action = "supersede" /\ job.old \in 1..Len(facts)
          /\ facts' = UpdateStatus(job.old, "superseded", Pending)
          /\ job' = [job EXCEPT !.step = IF job.contradicts THEN "halve" ELSE "insert"]
      BY <1>4, JobFacts DEF Retire, Running, Commit, IInv, JobOK
    <2>2. "superseded" \in Status /\ Pending \in Int
      BY DEF Status, Pending
    <2>3. /\ Len(facts') = Len(facts)
          /\ \A j \in 1..Len(facts) : j # job.old => facts'[j] = facts[j]
      BY <1>0, <2>1, <2>2, UpdateStatusRow
    <2>4. Retiring = {} /\ Retiring' = {job.old}
      BY <2>1 DEF Retiring, Job, NoJob
    <2> QED
      BY <1>0, <2>3, <2>4 DEF Stuck
  <1>5. CASE Halve
    <2>1. /\ job \in Job /\ job # NoJob /\ job.step = "halve"
          /\ job.action = "supersede" /\ job.old \in 1..Len(facts)
          /\ facts' = [facts EXCEPT ![job.old].confidence = Half]
          /\ job' = [job EXCEPT !.step = "insert"]
      BY <1>5, JobFacts DEF Halve, Running, Commit, IInv, JobOK
    <2>2. Alike(facts')
      BY <2>1, HalveAlike
    <2>3. Retiring' = Retiring
      BY <2>1 DEF Retiring, Job, NoJob
    <2> QED
      BY <1>0, <2>2, <2>3 DEF Alike, Stuck
  <1>6. CASE Insert
    <2> DEFINE new == NewRow(JobText, job.confidence, job.emb)
    <2>1. /\ job \in Job /\ job # NoJob /\ job.step = "insert"
          /\ facts' = Append(facts, new)
      BY <1>6, JobFacts DEF Insert, Running, Commit, JobText
    <2>2. new \in Row /\ new.superseded_by = NoBody
      BY <2>1, JobFacts, NewRowType DEF Job, NewRow
    <2> HIDE DEF new
    <2>3. /\ Len(facts') = Len(facts) + 1 /\ facts'[Len(facts) + 1] = new
          /\ \A j \in 1..Len(facts) : facts'[j] = facts[j]
      BY <1>0, <2>1, <2>2, AppendRow
    <2>4. Retiring' = Retiring
      <3>1. CASE job.action = "supersede"
        <4>1. /\ job.status = "current"
              /\ job' = [job EXCEPT !.new = Len(facts) + 1, !.step = "link"]
          BY <1>6, <2>1, <3>1 DEF Insert, IInv, JobOK
        <4> QED
          BY <2>1, <3>1, <4>1 DEF Retiring, Job, NoJob
      <3>2. CASE job.action # "supersede"
        <4>1. job' = NoJob \/ job'.action = job.action
          BY <1>6, <2>1 DEF Insert, Finish, Job
        <4> QED
          BY <3>2, <4>1 DEF Retiring
      <3> QED
        BY <3>1, <3>2
    <2>5. \A i \in 1..Len(facts') : i \in 1..Len(facts) \/ i = Len(facts) + 1
      BY <1>0, <2>3
    <2> QED
      BY <1>0, <2>2, <2>3, <2>4, <2>5 DEF Stuck, NoBody, Pending
  <1>7. CASE Restatus
    <2> DEFINE by == facts[job.new].superseded_by
    <2>1. /\ job \in Job /\ job # NoJob /\ job.step = "restatus" /\ job' = NoJob
          /\ job.new \in 1..Len(facts) /\ job.status # "current"
          /\ facts' = UpdateStatus(job.new, job.status, by)
      BY <1>7, JobFacts DEF Restatus, Running, Commit, Finish, IInv, JobOK
    <2>2. by \in Int /\ job.status \in Status
      <3>1. facts[job.new] \in Row
        BY <1>0, <2>1, ElementOfSeq
      <3> QED
        BY <2>1, <3>1 DEF Row, Job
    <2>3. /\ Len(facts') = Len(facts)
          /\ \A j \in 1..Len(facts) : facts'[j].superseded_by = facts[j].superseded_by
      <3>1. LET rows == UpdateStatus(job.new, job.status, by)
            IN  /\ Len(rows) = Len(facts)
                /\ \A j \in 1..Len(facts) : j # job.new => rows[j] = facts[j]
                /\ rows[job.new].superseded_by = by
        BY <1>0, <2>1, <2>2, UpdateStatusRow
      <3> QED
        BY <2>1, <3>1
    <2>4. Retiring = {} /\ Retiring' = {}
      BY <2>1 DEF Retiring, IInv, JobOK
    <2> QED
      BY <2>3, <2>4 DEF Stuck
  <1>8. CASE Link
    <2>1. /\ job \in Job /\ job # NoJob /\ job.step = "link" /\ job' = NoJob
          /\ job.old \in 1..Len(facts) /\ job.new \in 1..Len(facts)
          /\ job.action = "supersede"
          /\ facts' = UpdateStatus(job.old, "superseded", job.new)
      BY <1>8, JobFacts DEF Link, Running, Commit, Finish, IInv, JobOK
    <2>2. "superseded" \in Status /\ job.new \in Int /\ job.new # Pending
      BY <1>0, <2>1 DEF Status, Pending
    <2>3. /\ Len(facts') = Len(facts)
          /\ \A j \in 1..Len(facts) : j # job.old => facts'[j] = facts[j]
          /\ facts'[job.old].superseded_by # Pending
      BY <1>0, <2>1, <2>2, UpdateStatusRow
    <2>4. Retiring = {job.old} /\ Retiring' = {}
      BY <2>1 DEF Retiring
    <2> QED
      BY <1>0, <2>3, <2>4 DEF Stuck
  <1>9. CASE Raise \/ RaiseInInsert \/ Crash
    <2>1. failures' = failures + 1
      BY <1>9 DEF Raise, RaiseInInsert, Crash, Fail
    <2>2. failures \in Nat
      BY BoundAssumption DEF IInv, TypeOK
    <2> QED
      BY <2>1, <2>2
  <1> QED
    BY <1>2, <1>3, <1>4, <1>5, <1>6, <1>7, <1>8, <1>9 DEF Next, Write

\* A failure leaves at most the row stuck that was being retired.
LEMMA FailureLeavesOneStuck ==
    ASSUME IInv, Raise \/ RaiseInInsert \/ Crash
    PROVE  failures' = failures + 1 /\ Stuck' \subseteq Stuck \cup {job.old}
  <1>0. /\ facts \in Seq(Row) /\ Len(facts) \in Nat
        /\ disk \in Seq(Row) /\ Len(disk) \in Nat
    BY LenProperties DEF IInv, TypeOK
  <1>1. failures' = failures + 1 /\ job' = NoJob
    BY DEF Raise, RaiseInInsert, Crash, Fail, Drop
  <1>2. Retiring' = {} /\ Retiring \subseteq {job.old}
    BY <1>1 DEF Retiring
  <1>3. \A i \in 1..Len(facts') : facts'[i].superseded_by = Pending =>
            i \in 1..Len(facts) /\ facts[i].superseded_by = Pending
    <2>1. CASE Raise
      BY <2>1 DEF Raise
    <2>2. CASE RaiseInInsert
      <3> DEFINE new == NewRow(JobText, job.confidence, FALSE)
      <3>1. job # NoJob /\ facts' = Append(facts, new)
        BY <2>2 DEF RaiseInInsert, Running, JobText
      <3>2. new \in Row /\ new.superseded_by = NoBody
        BY <3>1, JobFacts, NewRowType DEF Job, NewRow
      <3> HIDE DEF new
      <3>3. /\ Len(facts') = Len(facts) + 1 /\ facts'[Len(facts) + 1] = new
            /\ \A j \in 1..Len(facts) : facts'[j] = facts[j]
        BY <1>0, <3>1, <3>2, AppendRow
      <3> QED
        BY <1>0, <3>2, <3>3 DEF NoBody, Pending
    <2>3. CASE Crash
      BY <1>0, <2>3 DEF Crash, IInv, DiskOK
    <2> QED
      BY <2>1, <2>2, <2>3
  <1> QED
    BY <1>1, <1>2, <1>3 DEF Stuck

\* Each failure of a write leaves at most one row superseded by "pending", for
\* any number of turns at once and wherever the failures come.
THEOREM PendingBoundedAlways == Spec => []PendingBounded
  <1>1. Init => StuckBounded
    <2> SUFFICES ASSUME Init PROVE StuckBounded
      OBVIOUS
    <2>1. Stuck = {}
      BY EmptySeq DEF Init, Stuck
    <2> QED
      BY <2>1, FS_EmptySet DEF Init, StuckBounded
  <1>2. IInv /\ StuckBounded /\ [Next]_vars => StuckBounded'
    <2> SUFFICES ASSUME IInv, StuckBounded, [Next]_vars PROVE StuckBounded'
      OBVIOUS
    <2>0. failures \in Nat /\ Cardinality(Stuck) \in Nat
      BY FS_CardinalityType, BoundAssumption DEF IInv, TypeOK, StuckBounded
    <2>1. ASSUME Stuck' \subseteq Stuck, UNCHANGED failures PROVE StuckBounded'
      <3>1. IsFiniteSet(Stuck') /\ Cardinality(Stuck') <= Cardinality(Stuck)
        BY <2>1, FS_Subset DEF StuckBounded
      <3>2. Cardinality(Stuck') \in Nat
        BY <3>1, FS_CardinalityType
      <3> QED
        BY <2>0, <2>1, <3>1, <3>2 DEF StuckBounded
    <2>2. CASE Raise \/ RaiseInInsert \/ Crash
      <3> DEFINE more == Stuck \cup {job.old}
      <3>1. IsFiniteSet(more) /\ Cardinality(more) <= Cardinality(Stuck) + 1
        BY <2>0, FS_AddElement DEF StuckBounded
      <3>2. Stuck' \subseteq more /\ failures' = failures + 1
        BY <2>2, FailureLeavesOneStuck
      <3> HIDE DEF more
      <3>3. /\ IsFiniteSet(Stuck') /\ Cardinality(Stuck') <= Cardinality(more)
            /\ Cardinality(Stuck') \in Nat /\ Cardinality(more) \in Nat
        BY <3>1, <3>2, FS_Subset, FS_CardinalityType
      <3> QED
        BY <2>0, <3>1, <3>2, <3>3 DEF StuckBounded
    <2>3. CASE UNCHANGED vars
      BY <2>1, <2>3 DEF vars, Stuck, Retiring
    <2>4. CASE Next /\ ~(Raise \/ RaiseInInsert \/ Crash)
      <3>1. UNCHANGED failures
        BY <2>4 DEF Next, Send, Extract, Decide, Write, Retire, Halve, Insert,
                    Restatus, Link
      <3> QED
        BY <2>1, <2>4, <3>1, WritesLeaveNoneStuck
    <2> QED
      BY <2>2, <2>3, <2>4
  <1>3. IInv /\ StuckBounded => PendingBounded
    <2> SUFFICES ASSUME IInv, StuckBounded PROVE PendingBounded
      OBVIOUS
    <2>1. DOMAIN facts = 1..Len(facts)
      BY LenProperties DEF IInv, TypeOK
    <2> QED
      BY <2>1 DEF PendingBounded, StuckBounded, Stuck
  <1> QED
    BY <1>1, <1>2, <1>3, Invariance, PTL DEF Spec

-----------------------------------------------------------------------------
(***************************************************************************)
(* The row that is replaced.                                               *)
(***************************************************************************)

\* The row a write replaces is superseded from its first commit on; until then
\* it is as it was when the writer looked, and may be replaced.
MayReplace(i, t) ==
    WellConfirmed(i) =>
        /\ coherent[t]
        /\ said[t][next[t]].type = "temporal" \/ said[t][next[t]].numeric

Replacement ==
    job # NoJob /\ job.action = "supersede" =>
        IF job.step = "retire" THEN MayReplace(job.old, job.turn)
                               ELSE facts[job.old].status = "superseded"

\* resolve_conflict spares a row that is well confirmed, but for a temporal or
\* numeric statement of a coherent session.
LEMMA ResolveSpares ==
    ASSUME facts \in Seq(Row), NEW i \in 1..Len(facts), NEW s, NEW trusted,
           Resolve(s, i, trusted).action = "supersede", WellConfirmed(i)
    PROVE  trusted /\ (s.type = "temporal" \/ s.numeric)
  <1>1. facts[i].confidence \in 0..Full
    <2>1. facts[i] \in Row
      BY ElementOfSeq
    <2> QED
      BY <2>1 DEF Row
  <1>2. /\ facts[i].confidence > High /\ facts[i].usage > Confirmations
        /\ ~(facts[i].confidence < Half) /\ i # NoBody
    BY <1>1 DEF WellConfirmed, Full, High, Half, NoBody
  <1> QED
    BY <1>2 DEF Resolve, Outcome

\* What a step of the writer can do to the status of a row: only the first
\* commit of a replacement supersedes one that is not.
LEMMA OnlyRetireSupersedes ==
    ASSUME IInv, Replacement, [Next]_vars, NEW i \in 1..Len(facts),
           i \in 1..Len(facts'),
           facts[i].status # "superseded", facts'[i].status = "superseded"
    PROVE  Retire /\ i = job.old
  <1>0. /\ facts \in Seq(Row) /\ Len(facts) \in Nat
        /\ disk \in Seq(Row) /\ Len(disk) \in Nat
        /\ DOMAIN facts = 1..Len(facts)
    BY LenProperties DEF IInv, TypeOK
  <1>1. facts' # facts
    OBVIOUS
  <1>2. ASSUME NEW rows, Alike(rows), facts' = rows PROVE FALSE
    BY <1>2 DEF Alike
  <1>3. ASSUME NEW t \in Turn, Send(t) \/ Extract(t) \/ Decide(t) PROVE FALSE
    <2> DEFINE s == said[t][next[t]]
    <2>1. pc[t] = "embed" /\ s \in Statement
      BY <1>1, <1>3, TextIsStatement DEF Send, Extract, Decide, IInv
    <2>2. PICK emb \in BOOLEAN : \E k \in Matches(s, emb) :
            Resolve(s, k, coherent[t]).action = "boost" /\ Commit(Boosted(k))
      BY <1>1, <1>3 DEF Send, Extract, Decide
    <2>3. PICK k \in Matches(s, emb) :
            Resolve(s, k, coherent[t]).action = "boost" /\ Commit(Boosted(k))
      BY <2>2
    <2>4. k \in 1..Len(facts)
      BY <1>0, <2>1, <2>3, MatchType, ResolveType
    <2> QED
      BY <1>2, <2>3, <2>4, BoostAlike DEF Commit
  <1>4. CASE Retire
    <2>1. /\ job.old \in 1..Len(facts)
          /\ facts' = UpdateStatus(job.old, "superseded", Pending)
      BY <1>4, JobFacts DEF Retire, Running, Commit, IInv, JobOK
    <2>2. "superseded" \in Status /\ Pending \in Int
      BY DEF Status, Pending
    <2>3. \A j \in 1..Len(facts) : j # job.old => facts'[j] = facts[j]
      <3> DEFINE k == job.old
                 rows == UpdateStatus(k, "superseded", Pending)
      <3>1. facts \in Seq(Row) /\ k \in 1..Len(facts)
        BY <1>0, <2>1
      <3> HIDE DEF k
      <3>2. \A j \in 1..Len(facts) : j # k => rows[j] = facts[j]
        BY ONLY <2>2, <3>1, UpdateStatusRow
      <3>3. facts' = rows
        BY <2>1 DEF k
      <3> QED
        BY ONLY <3>2, <3>3 DEF k
    <2> QED
      BY <1>4, <2>3
  <1>5. CASE Halve
    <2>1. /\ job.old \in 1..Len(facts)
          /\ facts' = [facts EXCEPT ![job.old].confidence = Half]
      BY <1>5 DEF Halve, Running, Commit, IInv, JobOK
    <2> QED
      BY <1>2, <2>1, HalveAlike
  <1>6. CASE Insert \/ RaiseInInsert
    <2>1. PICK vec \in BOOLEAN :
            /\ job # NoJob /\ job.step = "insert"
            /\ facts' = Append(facts, NewRow(JobText, job.confidence, vec))
      BY <1>6, JobFacts DEF Insert, RaiseInInsert, Running, Commit, JobText, Job
    <2>2. facts'[i] = facts[i]
      BY <2>1, AppendedRow
    <2> QED
      BY <2>2
  <1>7. CASE Restatus
    <2> DEFINE by == facts[job.new].superseded_by
    <2>1. /\ job \in Job /\ job.new \in 1..Len(facts)
          /\ job.status \in {"quarantined", "provisional"}
          /\ facts' = UpdateStatus(job.new, job.status, by)
      BY <1>7, JobFacts DEF Restatus, Running, Commit, IInv, JobOK
    <2>2. by \in Int /\ job.status \in Status
      <3>1. facts[job.new] \in Row
        BY <1>0, <2>1, ElementOfSeq
      <3> QED
        BY <2>1, <3>1 DEF Row, Job
    <2>3. LET rows == UpdateStatus(job.new, job.status, by)
          IN  /\ \A j \in 1..Len(facts) : j # job.new => rows[j] = facts[j]
              /\ rows[job.new].status = job.status
      BY <1>0, <2>1, <2>2, UpdateStatusRow
    <2> QED
      BY <2>1, <2>3
  <1>8. CASE Link
    <2>1. /\ job \in Job /\ job # NoJob /\ job.step = "link"
          /\ job.old \in 1..Len(facts) /\ job.new \in Int
          /\ facts[job.old].status = "superseded"
          /\ facts' = UpdateStatus(job.old, "superseded", job.new)
      BY <1>8, JobFacts DEF Link, Running, Commit, IInv, JobOK, Replacement, Job
    <2>2. "superseded" \in Status
      BY DEF Status
    <2>3. \A j \in 1..Len(facts) : j # job.old => facts'[j] = facts[j]
      BY <1>0, <2>1, <2>2, UpdateStatusRow
    <2> QED
      BY <2>1, <2>3
  <1>9. CASE Crash
    BY <1>0, <1>9 DEF Crash, IInv, DiskOK
  <1> QED
    BY <1>1, <1>3, <1>4, <1>5, <1>6, <1>7, <1>8, <1>9 DEF Next, Write, Raise, vars

LEMMA ReplacementStep ==
    ASSUME IInv, Replacement, [Next]_vars
    PROVE  Replacement'
  <1>0. /\ facts \in Seq(Row) /\ Len(facts) \in Nat
        /\ DOMAIN facts = 1..Len(facts)
    BY LenProperties DEF IInv, TypeOK
  <1>1. ASSUME job' = NoJob PROVE Replacement'
    BY <1>1 DEF Replacement
  <1>2. ASSUME NEW t \in Turn, Send(t) \/ Extract(t) \/ Decide(t)
        PROVE  Replacement'
    <2> DEFINE s == said[t][next[t]]
    <2>1. CASE job' = NoJob
      BY <1>1, <2>1
    <2>2. CASE job' # NoJob
      <3>1. /\ job = NoJob /\ pc[t] = "embed" /\ s \in Statement
            /\ UNCHANGED <<said, coherent, next, facts>>
        BY <1>2, <2>2, TextIsStatement DEF Send, Extract, Decide, IInv
      <3>2. PICK emb \in BOOLEAN : \E i \in Matches(s, emb) :
                /\ job'.turn = t /\ job'.old = i
                /\ job'.action = Resolve(s, i, coherent[t]).action
                /\ job'.step = IF job'.action = "supersede"
                               THEN "retire" ELSE "insert"
        BY <1>2, <2>2, <3>1 DEF Send, Extract, Decide
      <3>3. PICK i \in Matches(s, emb) :
                /\ job'.turn = t /\ job'.old = i
                /\ job'.action = Resolve(s, i, coherent[t]).action
                /\ job'.step = IF job'.action = "supersede"
                               THEN "retire" ELSE "insert"
        BY <3>2
      <3>4. job'.action = "supersede" => i \in 1..Len(facts)
        <4>1. i = NoBody \/ i \in 1..Len(facts)
          BY <1>0, MatchType
        <4>2. Resolve(s, i, coherent[t]).action = "supersede" => i # NoBody
          BY <3>1, ResolveType
        <4> QED
          BY <3>3, <4>1, <4>2
      <3>5. job'.action = "supersede" /\ WellConfirmed(i) =>
                coherent[t] /\ (s.type = "temporal" \/ s.numeric)
        BY <1>0, <3>3, <3>4, ResolveSpares
      <3> QED
        BY <3>1, <3>3, <3>5 DEF Replacement, MayReplace, WellConfirmed
    <2> QED
      BY <2>1, <2>2
  <1>3. CASE Retire
    <2>1. /\ job \in Job /\ job # NoJob /\ job.old \in 1..Len(facts)
          /\ facts' = UpdateStatus(job.old, "superseded", Pending)
          /\ job' = [job EXCEPT !.step = IF job.contradicts THEN "halve" ELSE "insert"]
      BY <1>3, JobFacts DEF Retire, Running, Commit, IInv, JobOK
    <2>2. "superseded" \in Status /\ Pending \in Int
      BY DEF Status, Pending
    <2>3. facts'[job.old].status = "superseded"
      BY <1>0, <2>1, <2>2, UpdateStatusRow
    <2> QED
      BY <2>1, <2>3 DEF Replacement, Job
  <1>4. CASE Halve
    <2>1. /\ job \in Job /\ job # NoJob /\ job.old \in 1..Len(facts)
          /\ job.action = "supersede" /\ job.step = "halve"
          /\ facts' = [facts EXCEPT ![job.old].confidence = Half]
          /\ job' = [job EXCEPT !.step = "insert"]
      BY <1>4, JobFacts DEF Halve, Running, Commit, IInv, JobOK
    <2>2. facts'[job.old].status = facts[job.old].status
      BY <2>1, HalveAlike DEF Alike
    <2> QED
      BY <2>1, <2>2 DEF Replacement, Job
  <1>5. CASE Insert
    <2>1. /\ job \in Job /\ job # NoJob /\ job.step = "insert"
          /\ facts' = Append(facts, NewRow(JobText, job.confidence, job.emb))
      BY <1>5, JobFacts DEF Insert, Running, Commit, JobText
    <2>2. job.emb \in BOOLEAN /\ (job.action = "supersede" => job.old \in 1..Len(facts))
      BY <2>1 DEF Job, IInv, JobOK
    <2>3. job.action = "supersede" => facts'[job.old] = facts[job.old]
      BY <2>1, <2>2, AppendedRow
    <2>4. job' = NoJob \/ (/\ job'.old = job.old /\ job'.action = job.action
                           /\ job'.step \in {"restatus", "link"})
      BY <1>5, <2>1 DEF Insert, Finish, Job
    <2> QED
      BY <2>1, <2>3, <2>4 DEF Replacement
  <1>6. CASE Restatus \/ Link \/ Raise \/ RaiseInInsert \/ Crash
    BY <1>1, <1>6 DEF Restatus, Link, Raise, RaiseInInsert, Crash, Finish, Drop
  <1>7. CASE UNCHANGED vars
    BY <1>7 DEF vars, Replacement, MayReplace, WellConfirmed
  <1> QED
    BY <1>2, <1>3, <1>4, <1>5, <1>6, <1>7 DEF Next, Write

\* A row whose replacement is still open may be replaced by the rules: the guard
\* that was checked when the match was made still holds when the row gives way,
\* however many turns run in between.
THEOREM ReplacementHolds == Spec => [](IInv /\ Replacement)
  <1>1. Init => Replacement
    BY DEF Init, Replacement
  <1>2. IInv /\ Replacement /\ [Next]_vars => Replacement'
    BY ReplacementStep
  <1> QED
    BY <1>1, <1>2, Invariance, PTL DEF Spec

\* A well-confirmed row gives way only to a temporal or numeric statement of a
\* coherent session, with any number of turns between the match and the write.
THEOREM WellConfirmedKeptAlways == Spec => WellConfirmedKept
  <1> DEFINE Spared ==
        \A i \in DOMAIN facts \cap DOMAIN facts' :
            WellConfirmed(i) /\ facts[i].status = "current"
                /\ facts'[i].status = "superseded"
            => LET s == said[job.turn][next[job.turn]]
               IN  coherent[job.turn] /\ (s.type = "temporal" \/ s.numeric)
  <1>1. ASSUME IInv, IInv', Replacement, [Next]_vars PROVE Spared
    <2>1. DOMAIN facts = 1..Len(facts) /\ DOMAIN facts' = 1..Len(facts')
      BY <1>1, LenProperties DEF IInv, TypeOK
    <2> SUFFICES ASSUME NEW i \in 1..Len(facts), i \in 1..Len(facts'),
                        WellConfirmed(i), facts[i].status = "current",
                        facts'[i].status = "superseded"
                 PROVE  /\ coherent[job.turn]
                        /\ \/ said[job.turn][next[job.turn]].type = "temporal"
                           \/ said[job.turn][next[job.turn]].numeric
      BY <2>1
    <2>2. Retire /\ i = job.old
      BY <1>1, OnlyRetireSupersedes
    <2>3. job # NoJob /\ job.action = "supersede" /\ job.step = "retire"
      BY <1>1, <2>2 DEF Retire, Running, IInv, JobOK
    <2> QED
      BY <1>1, <2>2, <2>3 DEF Replacement, MayReplace
  <1>2. IInv /\ IInv' /\ Replacement /\ [Next]_vars => [Spared]_vars
    BY <1>1
  <1> QED
    BY <1>2, ReplacementHolds, PTL DEF Spec, WellConfirmedKept

-----------------------------------------------------------------------------
(***************************************************************************)
(* The refinement.  Every step of a writer that does not fail is a step of *)
(* FactLedger or changes nothing of what is shown.                         *)
(***************************************************************************)

\* The shown entries by their place: the rows, and behind them the row that a
\* replacement is about to insert.
Coming == [text |-> JobText, state |-> "held", successor |-> NoBody]
Size == IF Replacing THEN Len(facts) + 1 ELSE Len(facts)
Shown(i) == IF i <= Len(facts) THEN EntryOf(i) ELSE Coming

\* A finite list given place by place, and one more entry behind it.
LEMMA PlaceByPlace ==
    ASSUME NEW n \in Nat, NEW f, f = [i \in 1..n |-> f[i]], NEW x
    PROVE  /\ Len(f) = n /\ DOMAIN f = 1..n
           /\ Append(f, x) = [i \in 1..(n + 1) |-> IF i <= n THEN f[i] ELSE x]
  <1> DEFINE S == {f[i] : i \in 1..n} \cup {x}
             g == [i \in 1..(n + 1) |-> IF i <= n THEN f[i] ELSE x]
  <1>1. f \in Seq(S) /\ x \in S /\ DOMAIN f = 1..n
    <2>1. f \in [1..n -> S]
      OBVIOUS
    <2> QED
      BY <2>1, SeqDef
  <1>2. Len(f) = n
    BY <1>1, LenProperties
  <1>3. /\ Append(f, x) \in Seq(S) /\ Len(Append(f, x)) = n + 1
        /\ \A i \in 1..n : Append(f, x)[i] = f[i]
        /\ Append(f, x)[n + 1] = x
    BY <1>1, <1>2, AppendProperties
  <1>4. Append(f, x) = [i \in 1..(n + 1) |-> Append(f, x)[i]]
    BY <1>3, LenProperties
  <1>5. \A i \in 1..(n + 1) : Append(f, x)[i] = g[i]
    BY <1>3
  <1>6. Append(f, x) = g
    BY <1>4, <1>5
  <1> QED
    BY <1>1, <1>2, <1>6

ViewByPlace ==
    /\ View = [i \in 1..Size |-> Shown(i)]
    /\ Size \in Nat /\ Len(facts) \in Nat

\* What is shown, place by place.
LEMMA ViewShown == IInv => ViewByPlace
  <1> SUFFICES ASSUME IInv PROVE ViewByPlace
    OBVIOUS
  <1> USE DEF ViewByPlace
  <1> DEFINE written == [i \in DOMAIN facts |-> EntryOf(i)]
             n == Len(facts)
  <1>1. n \in Nat /\ DOMAIN facts = 1..n
    BY LenProperties DEF IInv, TypeOK
  <1>2. written = [i \in 1..n |-> written[i]] /\ \A i \in 1..n : written[i] = EntryOf(i)
    BY <1>1
  <1>3. CASE Replacing
    <2>1. View = Append(written, Coming)
      BY <1>3 DEF View, Coming, JobText
    <2> HIDE DEF written
    <2>2. View = [i \in 1..(n + 1) |-> IF i <= n THEN written[i] ELSE Coming]
      BY <1>1, <1>2, <2>1, PlaceByPlace
    <2>3. \A i \in 1..(n + 1) : (IF i <= n THEN written[i] ELSE Coming) = Shown(i)
      BY <1>1, <1>2 DEF Shown
    <2>4. Size = n + 1
      BY <1>3 DEF Size
    <2> HIDE DEF n
    <2> QED
      BY <1>1, <2>2, <2>3, <2>4 DEF n
  <1>4. CASE ~Replacing
    <2>1. View = written /\ Size = n
      BY <1>4 DEF View, Size
    <2>2. \A i \in 1..n : Shown(i) = EntryOf(i)
      BY <1>1 DEF Shown
    <2> QED
      BY <1>1, <1>2, <2>1, <2>2
  <1> QED
    BY <1>3, <1>4

\* The same of the next state.
LEMMA ViewShownNext == IInv' => ViewByPlace'
  BY ViewShown, PTL

\* Nothing changes for who looks at the ledger.
LEMMA SameView ==
    ASSUME IInv, IInv', Size' = Size, \A i \in 1..Size : Shown(i)' = Shown(i)
    PROVE  View' = View
  BY ViewShown, ViewShownNext DEF ViewByPlace

\* One entry more.
LEMMA LongerView ==
    ASSUME IInv, IInv', NEW x, Size' = Size + 1,
           \A i \in 1..Size : Shown(i)' = Shown(i),
           \A i : i = Size + 1 => Shown(i)' = x
    PROVE  View' = Append(View, x)
  <1> DEFINE f == [i \in 1..Size |-> Shown(i)]
             n == Size
  <1>1. View = f /\ n \in Nat /\ f = [i \in 1..n |-> f[i]]
    BY ViewShown DEF ViewByPlace
  <1>2. \A i \in 1..n : f[i] = Shown(i)
    OBVIOUS
  <1>3. View' = [i \in 1..(n + 1) |-> Shown(i)']
    BY ViewShownNext DEF ViewByPlace
  <1>4. \A i \in 1..(n + 1) : Shown(i)' = IF i <= n THEN Shown(i) ELSE x
    BY <1>1
  <1> HIDE DEF f, n
  <1>5. Append(f, x) = [i \in 1..(n + 1) |-> IF i <= n THEN f[i] ELSE x]
    BY <1>1, PlaceByPlace
  <1>6. View' = [i \in 1..(n + 1) |-> IF i <= n THEN f[i] ELSE x]
    BY <1>1, <1>2, <1>3, <1>4
  <1> QED
    BY <1>1, <1>5, <1>6

\* No write in hand: the rows are shown as they are.
LEMMA AtRest ==
    ASSUME job = NoJob \/ job.action # "supersede" \/ job.step = "retire"
    PROVE  ~Replacing /\ Retiring = {} /\ Size = Len(facts)
  BY DEF Replacing, Retiring, Size

LEMMA AtRestNext ==
    (job = NoJob \/ job.action # "supersede" \/ job.step = "retire")'
        => ~Replacing' /\ Retiring' = {} /\ Size' = Len(facts')
  BY DEF Replacing, Retiring, Size

\* Between two writes, rows that keep text, status and successor are shown as
\* before.
LEMMA RestStutters ==
    ASSUME IInv, IInv', Alike(facts'), job = NoJob,
           job' = NoJob \/ (/\ job'.step \in {"retire", "insert"}
                            /\ job'.step = "insert" => job'.action # "supersede")
    PROVE  View' = View
  <1>1. /\ ~Replacing /\ Retiring = {} /\ Size = Len(facts)
        /\ ~Replacing' /\ Retiring' = {} /\ Size' = Len(facts')
    BY AtRest, AtRestNext
  <1>2. Size' = Size
    BY <1>1 DEF Alike
  <1>3. ASSUME NEW i \in 1..Size PROVE Shown(i)' = Shown(i)
    <2>1. i <= Len(facts) /\ i <= Len(facts') /\ i \in 1..Len(facts)
      BY <1>1, <1>2, <1>3, ViewShown DEF ViewByPlace
    <2>2. ~Running("restatus") /\ ~Running("restatus")'
      BY DEF Running
    <2> QED
      BY <1>1, <2>1, <2>2 DEF Shown, EntryOf, Alike
  <1> QED
    BY <1>2, <1>3, SameView

LEMMA RowsAlike ==
    ASSUME IInv, UNCHANGED facts
    PROVE  Alike(facts')
  BY DEF IInv, TypeOK, Alike

LEMMA TurnStutters ==
    ASSUME IInv, IInv', NEW t \in Turn, Send(t) \/ Extract(t) \/ Decide(t)
    PROVE  View' = View
  <1>1. CASE Send(t) \/ Extract(t)
    BY <1>1, RowsAlike, RestStutters DEF Send, Extract
  <1>2. CASE Decide(t)
    <2> DEFINE s == said[t][next[t]]
    <2>0. job = NoJob /\ pc[t] = "embed" /\ s \in Statement /\ DOMAIN facts = 1..Len(facts)
      BY <1>2, TextIsStatement, LenProperties DEF Decide, IInv, TypeOK
    <2>1. CASE UNCHANGED facts
      <3>1. \/ UNCHANGED job
            \/ \E a : job'.action = a /\ job'.step = IF a = "supersede"
                                                     THEN "retire" ELSE "insert"
        BY <1>2 DEF Decide
      <3> QED
        BY <2>0, <2>1, <3>1, RowsAlike, RestStutters
    <2>2. CASE facts' # facts
      <3>2. PICK emb \in BOOLEAN : \E i \in Matches(s, emb) :
                /\ Resolve(s, i, coherent[t]).action = "boost"
                /\ Commit(Boosted(i)) /\ UNCHANGED job
        BY <1>2, <2>2 DEF Decide
      <3>3. PICK i \in Matches(s, emb) :
                /\ Resolve(s, i, coherent[t]).action = "boost"
                /\ Commit(Boosted(i)) /\ UNCHANGED job
        BY <3>2
      <3>4. i \in 1..Len(facts)
        BY <2>0, <3>3, MatchType, ResolveType
      <3>5. Alike(facts')
        BY <3>3, <3>4, BoostAlike DEF Commit
      <3> QED
        BY <2>0, <3>3, <3>5, RestStutters
    <2> QED
      BY <2>1, <2>2
  <1> QED
    BY <1>1, <1>2

\* The first commit of a replacement: the old row is replaced by the one about
\* to be inserted.
LEMMA RetireReplaces ==
    ASSUME IInv, IInv', Retire
    PROVE  JobText \in Statement /\ job.old \in DOMAIN View
           /\ Ledger!Replace(job.old, JobText)
  <1> DEFINE n == Len(facts)
             old == [EntryOf(job.old) EXCEPT !.state = "replaced", !.successor = n + 1]
             f == [i \in 1..n |-> IF i = job.old THEN old ELSE EntryOf(i)]
  <1>0. facts \in Seq(Row) /\ n \in Nat
    BY LenProperties DEF IInv, TypeOK
  <1>1. /\ job \in Job /\ job # NoJob /\ job.step = "retire"
        /\ job.action = "supersede" /\ job.old \in 1..n /\ JobText \in Statement
        /\ facts' = UpdateStatus(job.old, "superseded", Pending)
        /\ job' = [job EXCEPT !.step = IF job.contradicts THEN "halve" ELSE "insert"]
        /\ UNCHANGED <<said, next>>
    BY JobFacts DEF Retire, Running, Commit, IInv, JobOK
  <1>2. /\ job'.old = job.old /\ job'.action = "supersede" /\ job' # NoJob
        /\ job'.step \in {"halve", "insert"} /\ JobText' = JobText
    BY <1>1 DEF Job, JobText, NoJob
  <1>3. "superseded" \in Status /\ Pending \in Int
    BY DEF Status, Pending
  <1>4. /\ Len(facts') = n
        /\ \A j \in 1..n : j # job.old => facts'[j] = facts[j]
        /\ facts'[job.old].status = "superseded"
        /\ facts'[job.old].text = facts[job.old].text
    BY <1>0, <1>1, <1>3, UpdateStatusRow
  <1>5. /\ ~Replacing /\ Retiring = {} /\ Size = n
        /\ Replacing' /\ Retiring' = {job.old} /\ Size' = n + 1
    BY <1>1, <1>2, <1>4, AtRest DEF Replacing, Retiring, Size
  <1>6. ~Running("restatus") /\ ~Running("restatus")'
    BY <1>1, <1>2 DEF Running
  <1>7. \A i \in 1..n : EntryOf(i)' = IF i = job.old THEN old ELSE EntryOf(i)
    <2> SUFFICES ASSUME NEW i \in 1..n
                 PROVE  EntryOf(i)' = IF i = job.old THEN old ELSE EntryOf(i)
      OBVIOUS
    <2>1. CASE i = job.old
      BY <1>4, <1>5, <1>6, <2>1 DEF EntryOf
    <2>2. CASE i # job.old
      BY <1>4, <1>5, <1>6, <2>2 DEF EntryOf
    <2> QED
      BY <2>1, <2>2
  <1>8. View = [i \in 1..n |-> EntryOf(i)] /\ Len(View) = n /\ DOMAIN View = 1..n
    <2>1. View = [i \in 1..n |-> Shown(i)] /\ \A i \in 1..n : Shown(i) = EntryOf(i)
      BY <1>0, <1>5, ViewShown DEF ViewByPlace, Shown
    <2>2. View = [i \in 1..n |-> EntryOf(i)]
      BY <2>1
    <2>3. View = [i \in 1..n |-> View[i]]
      BY <2>2
    <2> QED
      BY <1>0, <2>2, <2>3, PlaceByPlace
  <1>9. [View EXCEPT ![job.old].state = "replaced",
                     ![job.old].successor = Len(View) + 1] = f
    <2>1. View[job.old] = EntryOf(job.old)
      BY <1>1, <1>8
    <2>2. [View EXCEPT ![job.old].state = "replaced", ![job.old].successor = n + 1]
            = [View EXCEPT ![job.old] = old]
      BY <1>1, <1>8, <2>1 DEF EntryOf
    <2> HIDE DEF old
    <2> QED
      BY <1>8, <2>2
  <1>10. View' = [i \in 1..(n + 1) |-> IF i <= n THEN f[i] ELSE Coming]
    <2>1. View' = [i \in 1..(n + 1) |-> Shown(i)']
      BY <1>5, ViewShownNext DEF ViewByPlace
    <2>2. Coming' = Coming
      BY <1>2 DEF Coming
    <2>3. \A i \in 1..(n + 1) : Shown(i)' = IF i <= n THEN f[i] ELSE Coming
      BY <1>0, <1>4, <1>7, <2>2 DEF Shown
    <2> QED
      BY <2>1, <2>3
  <1>11. Append(f, Coming) = [i \in 1..(n + 1) |-> IF i <= n THEN f[i] ELSE Coming]
    <2>1. f = [i \in 1..n |-> f[i]]
      OBVIOUS
    <2> HIDE DEF f, n
    <2> QED
      BY <1>0, <2>1, PlaceByPlace DEF n
  <1> QED
    BY <1>1, <1>8, <1>9, <1>10, <1>11 DEF Ledger!Replace, Ledger!Entry, Coming, NoBody

\* The other commits of a replacement, and the setting aside of a row that is
\* shown as set aside already, change nothing of it.
LEMMA HalveStutters ==
    ASSUME IInv, IInv', Halve
    PROVE  View' = View
  <1>1. /\ job \in Job /\ job # NoJob /\ job.step = "halve"
        /\ job.action = "supersede" /\ job.old \in 1..Len(facts)
        /\ facts' = [facts EXCEPT ![job.old].confidence = Half]
        /\ job' = [job EXCEPT !.step = "insert"]
        /\ UNCHANGED <<said, next>>
    BY JobFacts DEF Halve, Running, Commit, IInv, JobOK
  <1>2. /\ job'.old = job.old /\ job'.action = "supersede" /\ job' # NoJob
        /\ job'.step = "insert" /\ JobText' = JobText
    BY <1>1 DEF Job, JobText, NoJob
  <1>3. Alike(facts')
    BY <1>1, HalveAlike
  <1>4. /\ Replacing /\ Retiring = {job.old} /\ Size = Len(facts) + 1
        /\ Replacing' /\ Retiring' = {job.old} /\ Size' = Len(facts) + 1
    BY <1>1, <1>2, <1>3 DEF Replacing, Retiring, Size, Alike
  <1>5. ~Running("restatus") /\ ~Running("restatus")' /\ Coming' = Coming
    BY <1>1, <1>2 DEF Running, Coming
  <1>6. ASSUME NEW i \in 1..Size PROVE Shown(i)' = Shown(i)
    <2>1. Len(facts) \in Nat /\ Len(facts') = Len(facts)
      BY <1>3, ViewShown DEF ViewByPlace, Alike
    <2>2. CASE i <= Len(facts)
      <3>1. /\ facts'[i].text = facts[i].text /\ facts'[i].status = facts[i].status
            /\ facts'[i].superseded_by = facts[i].superseded_by
        BY <1>3, <1>4, <1>6, <2>1, <2>2 DEF Alike
      <3> QED
        BY <1>4, <1>5, <2>1, <2>2, <3>1 DEF Shown, EntryOf
    <2>3. CASE ~(i <= Len(facts))
      BY <1>5, <2>1, <2>3 DEF Shown
    <2> QED
      BY <2>2, <2>3
  <1> QED
    BY <1>4, <1>6, SameView

LEMMA RestatusStutters ==
    ASSUME IInv, IInv', Restatus
    PROVE  View' = View
  <1> DEFINE by == facts[job.new].superseded_by
  <1>0. facts \in Seq(Row) /\ Len(facts) \in Nat
    BY LenProperties DEF IInv, TypeOK
  <1>1. /\ job \in Job /\ job # NoJob /\ job.step = "restatus" /\ job' = NoJob
        /\ job.new \in 1..Len(facts) /\ job.action # "supersede"
        /\ job.status \in {"quarantined", "provisional"}
        /\ facts' = UpdateStatus(job.new, job.status, by)
    BY JobFacts DEF Restatus, Running, Commit, Finish, IInv, JobOK
  <1>2. by \in Int /\ job.status \in Status
    <2>1. facts[job.new] \in Row
      BY <1>0, <1>1, ElementOfSeq
    <2> QED
      BY <1>1, <2>1 DEF Row, Job
  <1>3. /\ Len(facts') = Len(facts)
        /\ \A j \in 1..Len(facts) : j # job.new => facts'[j] = facts[j]
        /\ facts'[job.new].status = job.status
        /\ facts'[job.new].superseded_by = facts[job.new].superseded_by
        /\ facts'[job.new].text = facts[job.new].text
    BY <1>0, <1>1, <1>2, UpdateStatusRow
  <1>4. /\ ~Replacing /\ Retiring = {} /\ Size = Len(facts)
        /\ ~Replacing' /\ Retiring' = {} /\ Size' = Len(facts)
    BY <1>1, <1>3, AtRest, AtRestNext
  <1>5. Running("restatus") /\ ~Running("restatus")'
    BY <1>1 DEF Running
  <1>6. ASSUME NEW i \in 1..Size PROVE Shown(i)' = Shown(i)
    <2>1. i \in 1..Len(facts) /\ i <= Len(facts) /\ i <= Len(facts')
      BY <1>0, <1>3, <1>4, <1>6
    <2>2. CASE i = job.new
      BY <1>1, <1>3, <1>4, <1>5, <2>1, <2>2 DEF Shown, EntryOf
    <2>3. CASE i # job.new
      BY <1>3, <1>4, <1>5, <2>1, <2>3 DEF Shown, EntryOf
    <2> QED
      BY <2>2, <2>3
  <1> QED
    BY <1>4, <1>6, SameView

LEMMA LinkStutters ==
    ASSUME IInv, IInv', Replacement, Link
    PROVE  View' = View
  <1>0. facts \in Seq(Row) /\ Len(facts) \in Nat
    BY LenProperties DEF IInv, TypeOK
  <1>1. /\ job \in Job /\ job # NoJob /\ job.step = "link" /\ job' = NoJob
        /\ job.old \in 1..Len(facts) /\ job.new \in 1..Len(facts)
        /\ job.action = "supersede" /\ job.new \in Int
        /\ facts[job.old].status = "superseded"
        /\ facts' = UpdateStatus(job.old, "superseded", job.new)
    BY JobFacts DEF Link, Running, Commit, Finish, IInv, JobOK, Replacement
  <1>2. "superseded" \in Status
    BY DEF Status
  <1>3. /\ Len(facts') = Len(facts)
        /\ \A j \in 1..Len(facts) : j # job.old => facts'[j] = facts[j]
        /\ facts'[job.old].status = "superseded"
        /\ facts'[job.old].superseded_by = job.new
        /\ facts'[job.old].text = facts[job.old].text
    BY <1>0, <1>1, <1>2, UpdateStatusRow
  <1>4. /\ ~Replacing /\ Retiring = {job.old} /\ Size = Len(facts)
        /\ ~Replacing' /\ Retiring' = {} /\ Size' = Len(facts)
    BY <1>1, <1>3, AtRestNext DEF Replacing, Retiring, Size
  <1>5. ~Running("restatus") /\ ~Running("restatus")'
    BY <1>1 DEF Running
  <1>6. ASSUME NEW i \in 1..Size PROVE Shown(i)' = Shown(i)
    <2>1. i \in 1..Len(facts) /\ i <= Len(facts) /\ i <= Len(facts')
      BY <1>0, <1>3, <1>4, <1>6
    <2>2. CASE i = job.old
      BY <1>1, <1>3, <1>4, <1>5, <2>1, <2>2 DEF Shown, EntryOf
    <2>3. CASE i # job.old
      BY <1>3, <1>4, <1>5, <2>1, <2>3 DEF Shown, EntryOf
    <2> QED
      BY <2>2, <2>3
  <1> QED
    BY <1>4, <1>6, SameView

\* The insert: of a replacement it was shown before; else it is the step of the
\* ledger.
LEMMA InsertRecords ==
    ASSUME IInv, IInv', Insert
    PROVE  /\ JobText \in Statement
           /\ \/ View' = View
              \/ Ledger!Remember(JobText)
              \/ Ledger!SetAside(JobText)
  <1> DEFINE n == Len(facts)
             row == NewRow(JobText, job.confidence, job.emb)
  <1>0. facts \in Seq(Row) /\ n \in Nat
    BY LenProperties DEF IInv, TypeOK
  <1>1. /\ job \in Job /\ job # NoJob /\ job.step = "insert" /\ JobText \in Statement
        /\ facts' = Append(facts, row)
    BY JobFacts DEF Insert, Running, Commit, JobText
  <1>2. /\ row \in Row /\ row.status = "current" /\ row.text = JobText
        /\ row.superseded_by = NoBody
    BY <1>1, NewRowType DEF Job, NewRow
  <1> HIDE DEF row
  <1>3. /\ Len(facts') = n + 1 /\ facts'[n + 1] = row
        /\ \A j \in 1..n : facts'[j] = facts[j]
    BY <1>0, <1>1, <1>2, AppendRow
  <1>4. ~Running("restatus")
    BY <1>1 DEF Running
  <1>5. CASE job.action = "supersede"
    <2>1. /\ job.status = "current" /\ job.old \in 1..n
          /\ job' = [job EXCEPT !.new = n + 1, !.step = "link"]
      BY <1>1, <1>5 DEF Insert, IInv, JobOK
    <2>2. /\ job'.old = job.old /\ job'.action = "supersede" /\ job' # NoJob
          /\ job'.step = "link" /\ job'.new = n + 1
      BY <1>1, <1>5, <2>1 DEF Job, NoJob
    <2>3. /\ Replacing /\ Retiring = {job.old} /\ Size = n + 1
          /\ ~Replacing' /\ Retiring' = {job.old} /\ Size' = n + 1
      BY <1>1, <1>3, <1>5, <2>2 DEF Replacing, Retiring, Size
    <2>4. ~Running("restatus")'
      BY <2>2 DEF Running
    <2>5. ASSUME NEW i \in 1..Size PROVE Shown(i)' = Shown(i)
      <3>1. i <= Len(facts')
        BY <1>0, <1>3, <2>3, <2>5
      <3>2. CASE i <= n
        <4>1. facts'[i] = facts[i]
          BY <1>3, <2>3, <2>5, <3>2, <1>0
        <4> QED
          BY <1>4, <2>2, <2>3, <2>4, <3>1, <3>2, <4>1 DEF Shown, EntryOf
      <3>3. CASE ~(i <= n)
        <4>1. i = n + 1 /\ i \notin Retiring'
          BY <1>0, <2>1, <2>3, <2>5, <3>3
        <4> QED
          BY <1>2, <1>3, <2>4, <3>1, <3>3, <4>1 DEF Shown, EntryOf, Coming
      <3> QED
        BY <3>2, <3>3
    <2> QED
      BY <1>1, <2>3, <2>5, SameView
  <1>6. CASE job.action # "supersede"
    <2> DEFINE x == Ledger!Entry(JobText, IF job.status = "current" THEN "held" ELSE "aside")
    <2>1. \/ job.status = "current" /\ job' = NoJob
          \/ job.status # "current" /\ job' = [job EXCEPT !.new = n + 1, !.step = "restatus"]
      BY <1>6 DEF Insert, Finish
    <2>2. \/ job.status = "current" /\ job' = NoJob
          \/ /\ job.status # "current" /\ job' # NoJob /\ job'.new = n + 1
             /\ job'.step = "restatus" /\ job'.action = job.action
      BY <1>1, <2>1 DEF Job, NoJob
    <2>3. /\ ~Replacing /\ Retiring = {} /\ Size = n
          /\ ~Replacing' /\ Retiring' = {} /\ Size' = n + 1
      BY <1>3, <1>6, <2>2, AtRest, AtRestNext
    <2>4. \A i \in 1..Size : Shown(i)' = Shown(i)
      <3> SUFFICES ASSUME NEW i \in 1..n PROVE Shown(i)' = Shown(i)
        BY <2>3
      <3>1. i <= n /\ i <= Len(facts') /\ facts'[i] = facts[i] /\ i # n + 1
        BY <1>0, <1>3
      <3>2. ~(Running("restatus")' /\ i = job'.new)
        BY <2>2, <3>1 DEF Running
      <3> QED
        BY <1>4, <2>3, <3>1, <3>2 DEF Shown, EntryOf
    <2>5. \A i : i = Size + 1 => Shown(i)' = x
      <3> SUFFICES ASSUME NEW i, i = n + 1 PROVE Shown(i)' = x
        BY <2>3
      <3>1. i <= Len(facts') /\ facts'[i] = row /\ i \notin Retiring'
        BY <1>0, <1>3, <2>3
      <3>2. Running("restatus")' <=> job.status # "current"
        BY <2>2 DEF Running
      <3> QED
        BY <1>2, <2>2, <2>3, <3>1, <3>2 DEF Shown, EntryOf, Ledger!Entry, NoBody
    <2> HIDE DEF x
    <2>6. View' = Append(View, x)
      BY <2>3, <2>4, <2>5, LongerView
    <2> QED
      BY <1>1, <2>6 DEF x, Ledger!Remember, Ledger!SetAside
  <1> QED
    BY <1>5, <1>6

\* As long as nothing fails, the writer implements the ledger: whatever it
\* interleaves and however many commits a write takes, each statement is
\* remembered, set aside, or takes the place of a row in one step.
THEOREM WriterImplementsLedger ==
    ASSUME MaxFailures = 0
    PROVE  Spec => ImplementsLedger
  <1>1. Init => Ledger!Init
    <2> SUFFICES ASSUME Init PROVE View = <<>>
      BY DEF Ledger!Init
    <2>1. ~Replacing /\ DOMAIN facts = {}
      BY DEF Init, Replacing
    <2> QED
      BY <2>1 DEF View
  <1>2. IInv /\ IInv' /\ Replacement /\ [Next]_vars => [Ledger!Next]_View
    <2> SUFFICES ASSUME IInv, IInv', Replacement, [Next]_vars
                 PROVE  Ledger!Next \/ View' = View
      OBVIOUS
    <2>1. CASE \E t \in Turn : Send(t) \/ Extract(t) \/ Decide(t)
      BY <2>1, TurnStutters
    <2>2. CASE Retire
      BY <2>2, RetireReplaces DEF Ledger!Next
    <2>3. CASE Halve \/ Restatus \/ Link
      BY <2>3, HalveStutters, RestatusStutters, LinkStutters
    <2>4. CASE Insert
      BY <2>4, InsertRecords DEF Ledger!Next
    <2>5. CASE Raise \/ RaiseInInsert \/ Crash
      <3>1. failures < MaxFailures /\ failures \in 0..MaxFailures
        BY <2>5 DEF Raise, RaiseInInsert, Crash, Fail, IInv, TypeOK
      <3> QED
        BY <3>1
    <2>6. CASE UNCHANGED vars
      <3>1. View' = View
        BY <2>6 DEF vars, View, EntryOf, Replacing, Retiring, Running
      <3> QED
        BY <3>1
    <2> QED
      BY <2>1, <2>2, <2>3, <2>4, <2>5, <2>6 DEF Next, Write
  <1> QED
    BY <1>1, <1>2, ReplacementHolds, PTL DEF Spec, ImplementsLedger, Ledger!Spec

=============================================================================
