------------------------- MODULE TurnPipelineProofs -------------------------
(***************************************************************************)
(* For any number of turns, rounds, failures and stops, TurnPipeline keeps *)
(* its types, writes an OBSERVE turn before it is answered, hides recall   *)
(* calls, bounds what one turn costs the provider and keeps its one row    *)
(* faithful to the writer.                                                 *)
(***************************************************************************)
EXTENDS TurnPipeline, TLAPS

\* What a handler has posted by the place it has come to: one request and one
\* for each round, then a correction, or the two attempts to send the original.
Cost(pc, rounds, sent) ==
    /\ rounds <= MaxRounds
    /\ pc \in {"unsent", "compose"} => sent = 0 /\ rounds = 0
    /\ pc = "ask" => sent = rounds + 1
    /\ pc = "recall" => sent = rounds
    /\ pc = "verify" => sent <= MaxRounds + 1
    /\ pc \in {"correct", "write", "observe", "stream", "original"} =>
           sent <= MaxRounds + 2
    /\ sent <= MaxRounds + 3

Posted(h) == Cost(h.pc, h.rounds, h.sent)

\* A recall call is kept as the reply only when the loop is at its end, or
\* while it goes on.
Hidden(h) ==
    h.reply \in {"recall call", "both calls"} /\ h.pc \notin {"ask", "recall"}
        => h.rounds = MaxRounds \/ h.pc \in {"original", "raw", "dead"}

\* The writer has been started when the handler waits for it, and has ended
\* when an OBSERVE turn is answered.
Begun(h, w) ==
    /\ h.pc \in {"unsent", "compose", "ask", "recall", "verify", "correct", "write",
                 "original", "raw"} => w = "none"
    /\ h.pc \in {"unsent", "compose"} => h.phase = "none"
    /\ h.pc = "observe" => /\ w \in {"running", "written", "failed"}
                           /\ ~h.blank /\ h.phase = "OBSERVE"
    /\ h.pc = "stream" /\ ~h.blank =>
           IF h.phase = "OBSERVE" THEN w \in {"written", "failed"} ELSE w # "none"
    /\ h.pc = "answered" /\ h.phase = "OBSERVE" /\ ~h.blank
           /\ h.reply \notin {"original", "error"} => w \in {"written", "failed"}
    /\ h.pc = "stream" /\ h.blank => w = "none"

\* The row is saved as the handler leaves the places where it can raise, or
\* as the answer ends, and has the result of a writer that ended well.
Recorded(h, w) ==
    /\ h.rows \in {0, Row}
    /\ h.pc \notin {"original", "raw", "answered", "dead"} => h.rows = 0
    /\ h.stats => w = "written"

IInv ==
    /\ TypeOK
    /\ \A t \in Turn : /\ Posted(handler[t]) /\ Hidden(handler[t])
                       /\ Begun(handler[t], writer[t])
                       /\ Recorded(handler[t], writer[t])

WriterState == {"none", "running", "written", "failed", "cancelled", "lost"}

Sound(h, w) == Posted(h) /\ Hidden(h) /\ Begun(h, w) /\ Recorded(h, w)

-----------------------------------------------------------------------------
(***************************************************************************)
(* A step of one turn preserves the invariant when the handler and the     *)
(* writer it leaves are sound.                                             *)
(***************************************************************************)
LEMMA TurnFacts ==
    ASSUME IInv, NEW t \in Turn
    PROVE  /\ handler[t] \in Handler /\ writer[t] \in WriterState
           /\ Sound(handler[t], writer[t])
           /\ handler[t].sent \in Nat /\ handler[t].rounds \in Nat
           /\ handler[t].pc \in Place
           /\ Cost(handler[t].pc, handler[t].rounds, handler[t].sent)
  BY DEF IInv, TypeOK, WriterState, Sound, Posted, Handler

LEMMA Change ==
    ASSUME IInv, NEW t \in Turn, NEW h \in Handler, NEW w \in WriterState,
           Sound(h, w),
           handler' = [handler EXCEPT ![t] = h],
           writer' = [writer EXCEPT ![t] = w],
           failures' \in 0..MaxFailures, stops' \in 0..MaxStops
    PROVE  IInv'
  <1>1. TypeOK'
    BY DEF IInv, TypeOK, WriterState
  <1>2. ASSUME NEW u \in Turn
        PROVE  Sound(handler'[u], writer'[u])
    <2>1. CASE u = t
      BY <2>1 DEF IInv, TypeOK
    <2>2. CASE u # t
      BY <2>2, TurnFacts DEF IInv, TypeOK
    <2> QED BY <2>1, <2>2
  <1> QED BY <1>1, <1>2 DEF IInv, Sound, Posted, Hidden, Begun, Recorded

\* The same when only the handler moves.
LEMMA Move ==
    ASSUME IInv, NEW t \in Turn, NEW h \in Handler, Sound(h, writer[t]),
           Become(t, h), UNCHANGED <<writer, stops>>,
           Fail \/ UNCHANGED failures
    PROVE  IInv'
  <1>1. writer' = [writer EXCEPT ![t] = writer[t]] /\ writer[t] \in WriterState
    BY DEF IInv, TypeOK, WriterState
  <1>2. failures' \in 0..MaxFailures /\ stops' \in 0..MaxStops
    BY PipelineAssumption DEF IInv, TypeOK, Fail
  <1> QED BY <1>1, <1>2, Change DEF Become

-----------------------------------------------------------------------------
LEMMA InitIInv == Init => IInv
  <1> SUFFICES ASSUME Init PROVE IInv
    OBVIOUS
  <1>1. NoHandler \in Handler
    BY DEF NoHandler, Handler, Place, Reply
  <1>2. TypeOK
    BY <1>1, PipelineAssumption DEF Init, TypeOK
  <1>3. /\ Posted(NoHandler) /\ Hidden(NoHandler)
        /\ Begun(NoHandler, "none") /\ Recorded(NoHandler, "none")
    BY PipelineAssumption DEF NoHandler, Posted, Cost, Hidden, Begun, Recorded
  <1> QED BY <1>2, <1>3 DEF Init, IInv

\* How the cost moves from place to place.
LEMMA CostMoves ==
    ASSUME NEW r \in Nat, NEW s \in Nat
    PROVE  /\ Cost("unsent", r, s) => Cost("compose", r, s)
           /\ Cost("compose", r, s) \/ Cost("recall", r, s) =>
                  s + 1 \in Nat /\ Cost("ask", r, s + 1)
           /\ Cost("ask", r, s) /\ r < MaxRounds =>
                  r + 1 \in Nat /\ Cost("recall", r + 1, s)
           /\ Cost("ask", r, s) /\ ~(r < MaxRounds) => r = MaxRounds
           /\ Cost("ask", r, s) => Cost("verify", r, s) /\ Cost("verify", 0, s)
           /\ Cost("verify", r, s) \/ Cost("correct", r, s) => Cost("write", r, s)
           /\ Cost("verify", r, s) => s + 1 \in Nat /\ Cost("correct", r, s + 1)
           /\ Cost("compose", r, s) \/ Cost("ask", r, s) \/ Cost("recall", r, s) =>
                  s + 1 \in Nat /\ Cost("original", r, s + 1)
           /\ Cost("original", r, s) => s + 1 \in Nat /\ Cost("raw", r, s + 1)
           /\ Cost("write", r, s) => Cost("observe", r, s)
           /\ Cost("write", r, s) \/ Cost("observe", r, s) => Cost("stream", r, s)
  BY PipelineAssumption DEF Cost

LEMMA CostEnds ==
    ASSUME NEW pc, NEW r, NEW s, Cost(pc, r, s)
    PROVE  Cost("answered", r, s) /\ Cost("dead", r, s)
  BY DEF Cost

LEMMA ArriveStep == ASSUME IInv, NEW t \in Turn, Arrive(t) PROVE IInv'
  <1>1. At(t, "unsent") /\ handler[t] \in Handler /\ Sound(handler[t], writer[t])
    BY TurnFacts DEF Arrive
  <1>2. /\ Cost("compose", handler[t].rounds, handler[t].sent)
        /\ Cost("answered", handler[t].rounds, handler[t].sent)
    BY <1>1, TurnFacts, CostMoves, CostEnds DEF At
  <1>3. ASSUME NEW stream \in BOOLEAN, NEW blank \in BOOLEAN,
               Become(t, [handler[t] EXCEPT !.pc = "compose",
                                            !.stream = stream, !.blank = blank])
        PROVE  IInv'
    <2> DEFINE h == [handler[t] EXCEPT !.pc = "compose",
                                       !.stream = stream, !.blank = blank]
    <2>1. h \in Handler /\ Sound(h, writer[t])
      BY <1>1, <1>2 DEF Handler, Place, At, Sound, Posted, Hidden, Begun, Recorded
    <2> QED BY <1>3, <2>1, Move DEF Arrive
  <1>4. ASSUME Become(t, [handler[t] EXCEPT !.pc = "answered", !.reply = "status"])
        PROVE  IInv'
    <2> DEFINE h == [handler[t] EXCEPT !.pc = "answered", !.reply = "status"]
    <2>1. h \in Handler /\ Sound(h, writer[t])
      BY <1>1, <1>2 DEF Handler, Place, Reply, At, Sound, Posted, Hidden, Begun, Recorded
    <2> QED BY <1>4, <2>1, Move DEF Arrive
  <1> QED BY <1>3, <1>4 DEF Arrive

LEMMA ComposeStep == ASSUME IInv, NEW t \in Turn, Compose(t) PROVE IInv'
  <1> DEFINE n == handler[t].sent + 1
             phase == PhaseOf(Cardinality(Written))
  <1>1. At(t, "compose") /\ handler[t] \in Handler /\ Sound(handler[t], writer[t])
    BY TurnFacts DEF Compose
  <1>2. n \in Nat /\ Cost("ask", handler[t].rounds, n)
    BY <1>1, TurnFacts, CostMoves DEF At
  <1>3. phase \in {"OBSERVE", "ACCUMULATE", "ACTIVATE"}
    BY DEF PhaseOf
  <1>4. PICK intercepts \in BOOLEAN :
          Become(t, [handler[t] EXCEPT !.pc = "ask", !.sent = n, !.phase = phase,
                                       !.intercepts = intercepts])
    BY DEF Compose
  <1> HIDE DEF n, phase
  <1> DEFINE h == [handler[t] EXCEPT !.pc = "ask", !.sent = n, !.phase = phase,
                                     !.intercepts = intercepts]
  <1>5. h \in Handler
    BY <1>1, <1>2, <1>3 DEF Handler, Place
  <1>6. Sound(h, writer[t])
    BY <1>1, <1>2 DEF Handler, At, Sound, Posted, Hidden, Begun, Recorded
  <1> QED BY <1>4, <1>5, <1>6, Move DEF Compose

LEMMA RepliedStep == ASSUME IInv, NEW t \in Turn, Replied(t) PROVE IInv'
  <1>1. At(t, "ask") /\ handler[t] \in Handler /\ Sound(handler[t], writer[t])
    BY TurnFacts DEF Replied
  <1>2. PICK reply \in Reply :
          /\ reply \in {"recall call", "both calls"} => handler[t].intercepts
          /\ Become(t, IF More(t, reply)
                       THEN [handler[t] EXCEPT !.pc = "recall", !.rounds = @ + 1,
                                               !.reply = reply]
                       ELSE [handler[t] EXCEPT !.pc = "verify", !.reply = reply])
    BY DEF Replied, Reply
  <1>3. CASE More(t, reply)
    <2> DEFINE r == handler[t].rounds + 1
    <2>1. r \in Nat /\ Cost("recall", r, handler[t].sent)
      BY <1>1, <1>3, TurnFacts, CostMoves DEF More, At
    <2>2. Become(t, [handler[t] EXCEPT !.pc = "recall", !.rounds = r, !.reply = reply])
      BY <1>2, <1>3
    <2> HIDE DEF r
    <2> DEFINE h == [handler[t] EXCEPT !.pc = "recall", !.rounds = r, !.reply = reply]
    <2>3. h \in Handler
      BY <1>1, <1>2, <2>1 DEF Handler, Place
    <2>4. Sound(h, writer[t])
      BY <1>1, <2>1 DEF Handler, At, Sound, Posted, Hidden, Begun, Recorded
    <2> QED BY <2>2, <2>3, <2>4, Move DEF Replied
  <1>4. CASE ~More(t, reply)
    <2>1. Cost("verify", handler[t].rounds, handler[t].sent)
      BY <1>1, TurnFacts, CostMoves DEF At
    <2>2. ~(handler[t].rounds < MaxRounds) => handler[t].rounds = MaxRounds
      BY <1>1, TurnFacts, CostMoves DEF At
    <2>3. reply \in {"recall call", "both calls"} => handler[t].rounds = MaxRounds
      BY <1>2, <1>4, <2>2 DEF More, Intercepted
    <2> DEFINE h == [handler[t] EXCEPT !.pc = "verify", !.reply = reply]
    <2>4. h \in Handler
      BY <1>1, <1>2 DEF Handler, Place
    <2>5. Sound(h, writer[t])
      BY <1>1, <2>1, <2>3 DEF Handler, At, Sound, Posted, Hidden, Begun, Recorded
    <2> QED BY <1>2, <1>4, <2>4, <2>5, Move DEF Replied
  <1> QED BY <1>3, <1>4

LEMMA RefusedStep == ASSUME IInv, NEW t \in Turn, Refused(t) PROVE IInv'
  <1>1. /\ At(t, "ask") /\ handler[t] \in Handler /\ Sound(handler[t], writer[t])
        /\ Cost("verify", 0, handler[t].sent)
    BY TurnFacts, CostMoves DEF Refused, At
  <1> DEFINE h == [handler[t] EXCEPT !.pc = "verify", !.reply = "refused",
                                     !.rounds = 0, !.stream = FALSE]
  <1>2. h \in Handler
    BY <1>1 DEF Handler, Place, Reply
  <1>3. Sound(h, writer[t])
    BY <1>1 DEF Handler, At, Sound, Posted, Hidden, Begun, Recorded
  <1> QED BY <1>2, <1>3, Move DEF Refused

LEMMA RecallStep == ASSUME IInv, NEW t \in Turn, Recall(t) PROVE IInv'
  <1> DEFINE n == handler[t].sent + 1
  <1>1. /\ At(t, "recall") /\ handler[t] \in Handler /\ Sound(handler[t], writer[t])
        /\ n \in Nat /\ Cost("ask", handler[t].rounds, n)
    BY TurnFacts, CostMoves DEF Recall, At
  <1>2. Become(t, [handler[t] EXCEPT !.pc = "ask", !.sent = n])
    BY DEF Recall
  <1> HIDE DEF n
  <1> DEFINE h == [handler[t] EXCEPT !.pc = "ask", !.sent = n]
  <1>3. h \in Handler
    BY <1>1 DEF Handler, Place
  <1>4. Sound(h, writer[t])
    BY <1>1 DEF Handler, At, Sound, Posted, Hidden, Begun, Recorded
  <1> QED BY <1>2, <1>3, <1>4, Move DEF Recall

LEMMA VerifyStep == ASSUME IInv, NEW t \in Turn, Verify(t) PROVE IInv'
  <1> DEFINE n == handler[t].sent + 1
  <1>1. /\ At(t, "verify") /\ handler[t] \in Handler /\ Sound(handler[t], writer[t])
        /\ Cost("write", handler[t].rounds, handler[t].sent)
        /\ n \in Nat /\ Cost("correct", handler[t].rounds, n)
    BY TurnFacts, CostMoves DEF Verify, At
  <1>2. \/ Become(t, [handler[t] EXCEPT !.pc = "write"])
        \/ /\ Become(t, [handler[t] EXCEPT !.pc = "correct", !.sent = n])
           /\ handler[t].reply # "refused"
    BY DEF Verify
  <1> HIDE DEF n
  <1>3. CASE Become(t, [handler[t] EXCEPT !.pc = "write"])
    <2> DEFINE h == [handler[t] EXCEPT !.pc = "write"]
    <2>1. h \in Handler /\ Sound(h, writer[t])
      BY <1>1 DEF Handler, Place, At, Sound, Posted, Hidden, Begun, Recorded
    <2> QED BY <1>3, <2>1, Move DEF Verify
  <1>4. CASE Become(t, [handler[t] EXCEPT !.pc = "correct", !.sent = n])
    <2> DEFINE h == [handler[t] EXCEPT !.pc = "correct", !.sent = n]
    <2>1. h \in Handler /\ Sound(h, writer[t])
      BY <1>1 DEF Handler, Place, At, Sound, Posted, Hidden, Begun, Recorded
    <2> QED BY <1>4, <2>1, Move DEF Verify
  <1> QED BY <1>2, <1>3, <1>4

LEMMA CorrectedStep == ASSUME IInv, NEW t \in Turn, Corrected(t) PROVE IInv'
  <1>1. /\ At(t, "correct") /\ handler[t] \in Handler /\ Sound(handler[t], writer[t])
        /\ Cost("write", handler[t].rounds, handler[t].sent)
    BY TurnFacts, CostMoves DEF Corrected, At
  <1> DEFINE h == [handler[t] EXCEPT !.pc = "write"]
  <1>2. h \in Handler /\ Sound(h, writer[t])
    BY <1>1 DEF Handler, Place, At, Sound, Posted, Hidden, Begun, Recorded
  <1> QED BY <1>2, Move DEF Corrected

LEMMA RowIsNat ==
    ASSUME NEW h \in Handler
    PROVE  h.rows + Row \in Nat /\ (h.rows = 0 => h.rows + Row = Row)
  BY DEF Handler, Row

LEMMA RaiseStep == ASSUME IInv, NEW t \in Turn, Raise(t) PROVE IInv'
  <1> DEFINE n == handler[t].sent + 1
             m == handler[t].rows + Row
  <1>1. /\ At(t, "compose") \/ At(t, "ask") \/ At(t, "recall")
        /\ handler[t] \in Handler /\ Sound(handler[t], writer[t])
        /\ m \in Nat /\ m = Row
    BY TurnFacts, RowIsNat DEF Raise, At, Sound, Recorded
  <1>2. n \in Nat /\ Cost("original", handler[t].rounds, n)
    BY <1>1, TurnFacts, CostMoves DEF At
  <1>3. Become(t, [handler[t] EXCEPT !.pc = "original", !.sent = n, !.rows = m])
    BY DEF Raise, ErrorRow
  <1> HIDE DEF n, m
  <1> DEFINE h == [handler[t] EXCEPT !.pc = "original", !.sent = n, !.rows = m]
  <1>4. h \in Handler
    BY <1>1, <1>2 DEF Handler, Place
  <1>5. Sound(h, writer[t])
    BY <1>1, <1>2 DEF Handler, At, Sound, Posted, Hidden, Begun, Recorded
  <1> QED BY <1>3, <1>4, <1>5, Move DEF Raise

LEMMA OriginalRepliedStep ==
    ASSUME IInv, NEW t \in Turn, OriginalReplied(t) PROVE IInv'
  <1>1. /\ At(t, "original") \/ At(t, "raw")
        /\ handler[t] \in Handler /\ Sound(handler[t], writer[t])
        /\ Cost("answered", handler[t].rounds, handler[t].sent)
    BY TurnFacts, CostEnds DEF OriginalReplied, At
  <1> DEFINE h == [handler[t] EXCEPT !.pc = "answered", !.reply = "original"]
  <1>2. h \in Handler /\ Sound(h, writer[t])
    BY <1>1 DEF Handler, Place, Reply, At, Sound, Posted, Hidden, Begun, Recorded
  <1> QED BY <1>2, Move DEF OriginalReplied

LEMMA OriginalFailedStep ==
    ASSUME IInv, NEW t \in Turn, OriginalFailed(t) PROVE IInv'
  <1>1. handler[t] \in Handler /\ Sound(handler[t], writer[t])
    BY TurnFacts
  <1>2. CASE At(t, "original")
    <2> DEFINE n == handler[t].sent + 1
    <2>1. n \in Nat /\ Cost("raw", handler[t].rounds, n)
      BY <1>1, <1>2, TurnFacts, CostMoves DEF At
    <2>2. Become(t, [handler[t] EXCEPT !.pc = "raw", !.sent = n])
      BY <1>2 DEF OriginalFailed, At
    <2> HIDE DEF n
    <2> DEFINE h == [handler[t] EXCEPT !.pc = "raw", !.sent = n]
    <2>3. h \in Handler /\ Sound(h, writer[t])
      BY <1>1, <1>2, <2>1 DEF Handler, Place, At, Sound, Posted, Hidden, Begun, Recorded
    <2> QED BY <2>2, <2>3, Move DEF OriginalFailed
  <1>3. CASE At(t, "raw")
    <2>1. Cost("answered", handler[t].rounds, handler[t].sent)
      BY <1>1, <1>3, TurnFacts, CostEnds DEF At
    <2>2. Become(t, [handler[t] EXCEPT !.pc = "answered", !.reply = "error"])
      BY <1>3 DEF OriginalFailed, At
    <2> DEFINE h == [handler[t] EXCEPT !.pc = "answered", !.reply = "error"]
    <2>3. h \in Handler /\ Sound(h, writer[t])
      BY <1>1, <1>3, <2>1
      DEF Handler, Place, Reply, At, Sound, Posted, Hidden, Begun, Recorded
    <2> QED BY <2>2, <2>3, Move DEF OriginalFailed
  <1> QED BY <1>2, <1>3 DEF OriginalFailed

-----------------------------------------------------------------------------
\* What Return makes of a handler that is done.
LEMMA ReturnSound ==
    ASSUME NEW h \in Handler, NEW w \in WriterState, Posted(h), Hidden(h),
           Recorded(h, w), h.pc \in {"write", "observe"},
           IF h.blank THEN w = "none"
           ELSE IF h.phase = "OBSERVE" THEN w \in {"written", "failed"}
           ELSE w = "running"
    PROVE  Return(h) \in Handler /\ Sound(Return(h), w)
  <1> DEFINE m == h.rows + Row
  <1>1. /\ Cost("stream", h.rounds, h.sent) /\ Cost("answered", h.rounds, h.sent)
        /\ m \in Nat /\ m = Row
    BY CostMoves, CostEnds, RowIsNat DEF Handler, Posted, Recorded
  <1>2. \/ Return(h) = [h EXCEPT !.pc = "answered"]
        \/ Return(h) = [h EXCEPT !.pc = "stream"]
        \/ Return(h) = [h EXCEPT !.pc = "answered", !.rows = m]
    BY DEF Return
  <1> HIDE DEF m
  <1> USE DEF Handler, Place, Sound, Posted, Hidden, Begun, Recorded
  <1>3. CASE Return(h) = [h EXCEPT !.pc = "answered"]
    BY <1>1, <1>3
  <1>4. CASE Return(h) = [h EXCEPT !.pc = "stream"]
    BY <1>1, <1>4
  <1>5. CASE Return(h) = [h EXCEPT !.pc = "answered", !.rows = m]
    BY <1>1, <1>5
  <1> QED BY <1>2, <1>3, <1>4, <1>5

LEMMA WriteStep == ASSUME IInv, NEW t \in Turn, Write(t) PROVE IInv'
  <1>1. At(t, "write") /\ handler[t] \in Handler /\ Sound(handler[t], writer[t])
    BY TurnFacts DEF Write
  <1>2. writer[t] = "none"
    BY <1>1 DEF At, Sound, Begun
  <1>3. failures' \in 0..MaxFailures /\ stops' \in 0..MaxStops
    BY DEF IInv, TypeOK, Write
  <1>4. CASE handler[t].blank
    <2> DEFINE h == Return(handler[t])
    <2>1. h \in Handler /\ Sound(h, writer[t])
      BY <1>1, <1>2, <1>4, ReturnSound DEF At, Sound, WriterState
    <2>2. Become(t, h) /\ UNCHANGED <<writer, failures, stops>>
      BY <1>4 DEF Write
    <2> HIDE DEF h
    <2> QED BY <2>1, <2>2, Move
  <1>5. CASE ~handler[t].blank /\ Inline(t)
    <2> DEFINE h == [handler[t] EXCEPT !.pc = "observe"]
    <2>1. Cost("observe", handler[t].rounds, handler[t].sent)
      BY <1>1, TurnFacts, CostMoves DEF At
    <2>2. h \in Handler /\ Sound(h, "running")
      BY <1>1, <1>2, <1>5, <2>1
      DEF Inline, Handler, Place, At, Sound, Posted, Hidden, Begun, Recorded
    <2>3. handler' = [handler EXCEPT ![t] = h]
          /\ writer' = [writer EXCEPT ![t] = "running"]
      BY <1>5 DEF Write, Become
    <2> HIDE DEF h
    <2> QED BY <1>3, <2>2, <2>3, Change DEF WriterState
  <1>6. CASE ~handler[t].blank /\ ~Inline(t)
    <2> DEFINE h == Return(handler[t])
    <2>1. h \in Handler /\ Sound(h, "running")
      BY <1>1, <1>2, <1>6, ReturnSound DEF At, Inline, Sound, Recorded, WriterState
    <2>2. handler' = [handler EXCEPT ![t] = h]
          /\ writer' = [writer EXCEPT ![t] = "running"]
      BY <1>6 DEF Write, Become
    <2> HIDE DEF h
    <2> QED BY <1>3, <2>1, <2>2, Change DEF WriterState
  <1> QED BY <1>4, <1>5, <1>6

LEMMA ObservedStep == ASSUME IInv, NEW t \in Turn, Observed(t) PROVE IInv'
  <1> DEFINE stats == Validation /\ writer[t] = "written"
             g == [handler[t] EXCEPT !.stats = stats]
             h == Return(g)
  <1>1. /\ At(t, "observe") /\ writer[t] # "running"
        /\ handler[t] \in Handler /\ Sound(handler[t], writer[t])
        /\ writer[t] \in WriterState
    BY TurnFacts DEF Observed
  <1>2. stats \in BOOLEAN
    BY PipelineAssumption
  <1> HIDE DEF stats
  <1>3. /\ g \in Handler /\ Posted(g) /\ Hidden(g) /\ Recorded(g, writer[t])
        /\ g.pc = "observe"
        /\ g.blank = handler[t].blank /\ g.phase = handler[t].phase
    BY <1>1, <1>2 DEF stats, Handler, At, Sound, Posted, Hidden, Recorded
  <1>4. /\ writer[t] \in {"written", "failed"}
        /\ ~handler[t].blank /\ handler[t].phase = "OBSERVE"
    BY <1>1 DEF At, Sound, Begun
  <1>5. h \in Handler /\ Sound(h, writer[t])
    <2> HIDE DEF g
    <2> QED BY <1>1, <1>3, <1>4, ReturnSound
  <1>6. Become(t, h) /\ UNCHANGED <<writer, failures, stops>>
    BY DEF Observed, stats
  <1> HIDE DEF h
  <1> QED BY <1>5, <1>6, Move

\* A writer that ends well or badly leaves its handler sound.
LEMMA WriterEnd ==
    ASSUME IInv, NEW t \in Turn, NEW w \in {"written", "failed"},
           writer[t] = "running",
           handler' = handler, writer' = [writer EXCEPT ![t] = w],
           failures' \in 0..MaxFailures, stops' \in 0..MaxStops
    PROVE  IInv'
  <1>1. handler[t] \in Handler /\ Sound(handler[t], w)
    BY TurnFacts DEF Sound, Begun, Recorded
  <1>2. handler' = [handler EXCEPT ![t] = handler[t]]
    BY DEF IInv, TypeOK
  <1> QED BY <1>1, <1>2, Change DEF WriterState

LEMMA WriterEndsStep == ASSUME IInv, NEW t \in Turn, WriterEnds(t) PROVE IInv'
  BY WriterEnd DEF WriterEnds, IInv, TypeOK

LEMMA WriterFailsStep == ASSUME IInv, NEW t \in Turn, WriterFails(t) PROVE IInv'
  <1>1. failures' \in 0..MaxFailures /\ stops' \in 0..MaxStops
    BY PipelineAssumption DEF WriterFails, Fail, IInv, TypeOK
  <1> QED BY <1>1, WriterEnd DEF WriterFails

\* The end of a streamed response, with the writer as it then stands.
LEMMA SavedSound ==
    ASSUME IInv, NEW t \in Turn, At(t, "stream"), NEW result \in BOOLEAN,
           NEW w \in WriterState,
           handler[t].phase = "OBSERVE" /\ ~handler[t].blank => w = writer[t],
           handler[t].stats \/ result => w = "written"
    PROVE  Saved(handler[t], result) \in Handler /\ Sound(Saved(handler[t], result), w)
  <1> DEFINE m == handler[t].rows + Row
             stats == handler[t].stats \/ result
             h == [handler[t] EXCEPT !.pc = "answered", !.rows = m, !.stats = stats]
  <1>1. handler[t] \in Handler /\ Sound(handler[t], writer[t])
    BY TurnFacts
  <1>2. /\ Cost("answered", handler[t].rounds, handler[t].sent)
        /\ m \in Nat /\ m = Row
    BY <1>1, TurnFacts, CostEnds, RowIsNat DEF At, Sound, Recorded
  <1>3. stats \in BOOLEAN
    BY <1>1 DEF Handler
  <1>4. Saved(handler[t], result) = h
    BY DEF Saved
  <1>5. stats => w = "written"
    BY DEF stats
  <1> HIDE DEF m, stats
  <1>6. h \in Handler
    BY <1>1, <1>2, <1>3 DEF Handler, Place
  <1>7. Sound(h, w)
    BY <1>1, <1>2, <1>3, <1>5 DEF Handler, At, Sound, Posted, Hidden, Begun, Recorded
  <1> QED BY <1>4, <1>6, <1>7

LEMMA RendezvousStep == ASSUME IInv, NEW t \in Turn, Rendezvous(t) PROVE IInv'
  <1> DEFINE h == Saved(handler[t], writer[t] = "written")
  <1>1. h \in Handler /\ Sound(h, writer[t])
    BY TurnFacts, SavedSound DEF Rendezvous, Sound, Recorded
  <1>2. Become(t, h) /\ UNCHANGED <<writer, failures, stops>>
    BY DEF Rendezvous
  <1> HIDE DEF h
  <1> QED BY <1>1, <1>2, Move

LEMMA RendezvousTimeoutStep ==
    ASSUME IInv, NEW t \in Turn, RendezvousTimeout(t) PROVE IInv'
  <1> DEFINE h == Saved(handler[t], FALSE)
  <1>1. ~(handler[t].phase = "OBSERVE" /\ ~handler[t].blank) /\ ~handler[t].stats
    BY TurnFacts DEF RendezvousTimeout, At, Sound, Begun, Recorded
  <1>2. h \in Handler /\ Sound(h, "cancelled")
    BY <1>1, SavedSound DEF RendezvousTimeout, WriterState
  <1>3. /\ handler' = [handler EXCEPT ![t] = h]
        /\ writer' = [writer EXCEPT ![t] = "cancelled"]
    BY DEF RendezvousTimeout, Become
  <1>4. failures' \in 0..MaxFailures /\ stops' \in 0..MaxStops
    BY DEF RendezvousTimeout, IInv, TypeOK
  <1> HIDE DEF h
  <1> QED BY <1>2, <1>3, <1>4, Change DEF WriterState

-----------------------------------------------------------------------------
LEMMA StopStep == ASSUME IInv, Stop PROVE IInv'
  <1>1. stops' \in 0..MaxStops /\ failures' \in 0..MaxFailures
    BY PipelineAssumption DEF Stop, IInv, TypeOK
  <1>2. handler' = handler /\ writer' = [t \in Turn |-> Unfinished(writer[t])]
    BY DEF Stop
  <1>3. TypeOK'
    BY <1>1, <1>2 DEF IInv, TypeOK, Unfinished
  <1>4. ASSUME NEW t \in Turn
        PROVE  Sound(handler'[t], writer'[t])
    <2>1. handler[t].pc \in {"unsent", "answered", "dead"}
      BY DEF Stop, InFlight
    <2>2. handler'[t] = handler[t] /\ writer'[t] = Unfinished(writer[t])
      BY <1>2
    <2> QED BY <2>1, <2>2, TurnFacts DEF Sound, Begun, Recorded, Unfinished
  <1> QED BY <1>3, <1>4 DEF IInv, Sound, Posted, Hidden, Begun, Recorded

LEMMA KillStep == ASSUME IInv, Kill PROVE IInv'
  <1>1. stops' \in 0..MaxStops /\ failures' \in 0..MaxFailures
    BY PipelineAssumption DEF Kill, IInv, TypeOK
  <1>2. ASSUME NEW t \in Turn
        PROVE  handler'[t] \in Handler /\ Sound(handler'[t], writer'[t])
    <2>1. writer'[t] = Unfinished(writer[t])
      BY DEF Kill
    <2>2. handler[t] \in Handler /\ Sound(handler[t], writer[t])
      BY TurnFacts
    <2>3. CASE t \in InFlight
      <3> DEFINE h == [handler[t] EXCEPT !.pc = "dead"]
      <3>1. Cost("dead", handler[t].rounds, handler[t].sent)
        BY TurnFacts, CostEnds
      <3>2. h \in Handler /\ Sound(h, writer'[t])
        BY <2>1, <2>2, <3>1
        DEF Unfinished, Handler, Place, Sound, Posted, Hidden, Begun, Recorded
      <3> QED BY <2>3, <3>2 DEF Kill
    <2>4. CASE t \notin InFlight
      <3>1. handler'[t] = handler[t] /\ handler[t].pc \in {"unsent", "answered", "dead"}
        BY <2>4 DEF Kill, InFlight
      <3> QED BY <2>1, <2>2, <3>1 DEF Sound, Begun, Recorded, Unfinished
    <2> QED BY <2>3, <2>4
  <1>3. handler' \in [Turn -> Handler]
    BY <1>2 DEF Kill
  <1>4. TypeOK'
    BY <1>1, <1>3 DEF Kill, IInv, TypeOK, Unfinished
  <1> QED BY <1>2, <1>4 DEF IInv, Sound, Posted, Hidden, Begun, Recorded

LEMMA NextIInv == IInv /\ [Next]_vars => IInv'
  <1> SUFFICES ASSUME IInv, [Next]_vars PROVE IInv'
    OBVIOUS
  <1>1. CASE UNCHANGED vars
    BY <1>1 DEF vars, IInv, TypeOK, Posted, Hidden, Begun, Recorded
  <1>2. CASE \E t \in Turn :
               \/ Arrive(t) \/ Steps(t) \/ Refused(t) \/ Raise(t) \/ OriginalFailed(t)
               \/ WriterEnds(t) \/ WriterFails(t) \/ RendezvousTimeout(t)
    <2> PICK t \in Turn :
          \/ Arrive(t) \/ Steps(t) \/ Refused(t) \/ Raise(t) \/ OriginalFailed(t)
          \/ WriterEnds(t) \/ WriterFails(t) \/ RendezvousTimeout(t)
      BY <1>2
    <2>1. CASE Steps(t)
      BY <2>1, ComposeStep, RepliedStep, RecallStep, VerifyStep, CorrectedStep,
         OriginalRepliedStep, WriteStep, ObservedStep, RendezvousStep DEF Steps
    <2> QED BY <2>1, ArriveStep, RefusedStep, RaiseStep, OriginalFailedStep,
               WriterEndsStep, WriterFailsStep, RendezvousTimeoutStep
  <1> QED BY <1>1, <1>2, StopStep, KillStep DEF Next

LEMMA Invariance == Spec => []IInv
  BY InitIInv, NextIInv, PTL DEF Spec

-----------------------------------------------------------------------------
\* The handlers and the writers keep their types.
THEOREM TurnTypeCorrect == Spec => []TypeOK
  <1>1. IInv => TypeOK
    BY DEF IInv
  <1> QED BY <1>1, Invariance, PTL

\* A turn answered in the OBSERVE phase has been written, or its writer has
\* failed: the next turn reads its fact, whatever stops, kills and failures
\* there were (_fire_writer).
THEOREM NextTurnSeesAlways == Spec => []NextTurnSees
  <1>1. IInv => NextTurnSees
    BY DEF IInv, NextTurnSees, Answered, Begun
  <1> QED BY <1>1, Invariance, PTL

\* The agent sees a recall call only when the rounds of handle_chat are used up.
THEOREM RecallHiddenAlways == Spec => []RecallHidden
  <1>1. IInv => RecallHidden
    BY DEF IInv, RecallHidden, Answered, Hidden
  <1> QED BY <1>1, Invariance, PTL

\* One chat request costs the provider at most MaxRounds + 3 requests, whatever
\* MAX_ROUNDS is and however the request fails.
THEOREM BoundedPostsAlways == Spec => []BoundedPosts
  <1>1. IInv => BoundedPosts
    BY DEF IInv, BoundedPosts, Posted, Cost
  <1> QED BY <1>1, Invariance, PTL

\* A turn leaves at most one validation row, which claims the writer's result
\* only when the writer ended well (_wrap_validation_response).
THEOREM RowFaithfulAlways == Spec => []RowFaithful
  <1>1. Row \in {0, 1}
    BY DEF Row
  <1>2. IInv => RowFaithful
    BY <1>1 DEF IInv, RowFaithful, Recorded
  <1> QED BY <1>2, Invariance, PTL
-----------------------------------------------------------------------------
(***************************************************************************)
(* The row of a streamed turn.                                             *)
(***************************************************************************)
CompleteRow(h, w, k) == h.stream /\ w = "written" /\ k.rows > h.rows => k.stats

\* A response that is returned at once keeps a streamed turn's row back.
LEMMA ReturnCompletes ==
    ASSUME NEW h \in Handler, NEW w, NEW stats \in BOOLEAN
    PROVE  /\ CompleteRow(h, w, Return(h))
           /\ CompleteRow(h, w, Return([h EXCEPT !.stats = stats]))
  <1>1. h.rows \in Nat
    BY DEF Handler
  <1> QED BY <1>1 DEF CompleteRow, Return, Handler

\* The other handlers are unmoved.
LEMMA OthersKeepRows ==
    ASSUME IInv, NEW t \in Turn, NEW h, Become(t, h),
           CompleteRow(handler[t], writer[t], h), NEW u \in Turn
    PROVE  CompleteRow(handler[u], writer[u], handler'[u])
  <1>1. handler'[u] = IF u = t THEN h ELSE handler[u]
    BY DEF IInv, TypeOK, Become
  <1>2. handler[u].rows \in Nat
    BY TurnFacts DEF Handler
  <1>3. CompleteRow(handler[u], writer[u], handler[u])
    BY <1>2 DEF CompleteRow
  <1> QED BY <1>1, <1>3

\* No row is saved by a step that does not say so.
LEMMA RowsKept ==
    ASSUME IInv, NEW t \in Turn, NEW h, h.rows = handler[t].rows
    PROVE  CompleteRow(handler[t], writer[t], h)
  <1>1. handler[t].rows \in Nat
    BY TurnFacts DEF Handler
  <1> QED BY <1>1 DEF CompleteRow

LEMMA RowOfStep ==
    ASSUME IInv, NEW t \in Turn, NEW u \in Turn,
           \/ Arrive(t) \/ Steps(t) \/ Refused(t) \/ Raise(t) \/ OriginalFailed(t)
           \/ WriterEnds(t) \/ WriterFails(t) \/ RendezvousTimeout(t)
    PROVE  CompleteRow(handler[u], writer[u], handler'[u])
  <1>h. handler[t] \in Handler /\ handler[t].rows \in Nat
    BY TurnFacts DEF Handler
  <1>1. CASE \/ Arrive(t) \/ Compose(t) \/ Replied(t) \/ Recall(t) \/ Verify(t)
             \/ Corrected(t) \/ OriginalReplied(t) \/ Refused(t) \/ OriginalFailed(t)
    <2>1. ASSUME NEW h, Become(t, h), h.rows = handler[t].rows
          PROVE  CompleteRow(handler[u], writer[u], handler'[u])
      BY <2>1, RowsKept, OthersKeepRows
    <2>2. CASE Arrive(t)
      <3>1. ASSUME NEW s, NEW b,
                   Become(t, [handler[t] EXCEPT !.pc = "compose", !.stream = s,
                                                !.blank = b])
            PROVE  CompleteRow(handler[u], writer[u], handler'[u])
        BY <1>h, <2>1, <3>1 DEF Handler
      <3>2. ASSUME Become(t, [handler[t] EXCEPT !.pc = "answered", !.reply = "status"])
            PROVE  CompleteRow(handler[u], writer[u], handler'[u])
        BY <1>h, <2>1, <3>2 DEF Handler
      <3> QED BY <2>2, <3>1, <3>2 DEF Arrive
    <2>3. CASE Compose(t)
      <3> DEFINE n == handler[t].sent + 1
                 phase == PhaseOf(Cardinality(Written))
      <3>1. PICK i : Become(t, [handler[t] EXCEPT !.pc = "ask", !.sent = n,
                                        !.phase = phase, !.intercepts = i])
        BY <2>3 DEF Compose
      <3> HIDE DEF n, phase
      <3> QED BY <1>h, <2>1, <3>1 DEF Handler
    <2>4. CASE Replied(t)
      <3> DEFINE n == handler[t].rounds + 1
      <3>1. PICK reply :
              Become(t, IF More(t, reply)
                        THEN [handler[t] EXCEPT !.pc = "recall", !.rounds = n,
                                                !.reply = reply]
                        ELSE [handler[t] EXCEPT !.pc = "verify", !.reply = reply])
        BY <2>4 DEF Replied
      <3> HIDE DEF n
      <3>2. [handler[t] EXCEPT !.pc = "recall", !.rounds = n, !.reply = reply].rows
            = handler[t].rows
        BY <1>h DEF Handler
      <3>3. [handler[t] EXCEPT !.pc = "verify", !.reply = reply].rows = handler[t].rows
        BY <1>h DEF Handler
      <3> QED BY <2>1, <3>1, <3>2, <3>3
    <2>5. CASE Recall(t)
      <3> DEFINE n == handler[t].sent + 1
      <3>1. Become(t, [handler[t] EXCEPT !.pc = "ask", !.sent = n])
        BY <2>5 DEF Recall
      <3> HIDE DEF n
      <3> QED BY <1>h, <2>1, <3>1 DEF Handler
    <2>6. CASE Verify(t)
      <3> DEFINE n == handler[t].sent + 1
      <3>1. \/ Become(t, [handler[t] EXCEPT !.pc = "write"])
            \/ Become(t, [handler[t] EXCEPT !.pc = "correct", !.sent = n])
        BY <2>6 DEF Verify
      <3> HIDE DEF n
      <3>2. /\ [handler[t] EXCEPT !.pc = "write"].rows = handler[t].rows
            /\ [handler[t] EXCEPT !.pc = "correct", !.sent = n].rows = handler[t].rows
        BY <1>h DEF Handler
      <3> QED BY <2>1, <3>1, <3>2
    <2>7. CASE Corrected(t)
      <3>1. Become(t, [handler[t] EXCEPT !.pc = "write"])
        BY <2>7 DEF Corrected
      <3> QED BY <1>h, <2>1, <3>1 DEF Handler
    <2>8. CASE OriginalReplied(t)
      <3>1. Become(t, [handler[t] EXCEPT !.pc = "answered", !.reply = "original"])
        BY <2>8 DEF OriginalReplied
      <3> QED BY <1>h, <2>1, <3>1 DEF Handler
    <2>9. CASE Refused(t)
      <3>1. Become(t, [handler[t] EXCEPT !.pc = "verify", !.reply = "refused",
                                         !.rounds = 0, !.stream = FALSE])
        BY <2>9 DEF Refused
      <3> QED BY <1>h, <2>1, <3>1 DEF Handler
    <2>10. CASE OriginalFailed(t)
      <3> DEFINE n == handler[t].sent + 1
      <3>1. \/ Become(t, [handler[t] EXCEPT !.pc = "raw", !.sent = n])
            \/ Become(t, [handler[t] EXCEPT !.pc = "answered", !.reply = "error"])
        BY <2>10 DEF OriginalFailed
      <3> HIDE DEF n
      <3>2. /\ [handler[t] EXCEPT !.pc = "raw", !.sent = n].rows = handler[t].rows
            /\ [handler[t] EXCEPT !.pc = "answered", !.reply = "error"].rows
               = handler[t].rows
        BY <1>h DEF Handler
      <3> QED BY <2>1, <3>1, <3>2
    <2> QED BY <1>1, <2>2, <2>3, <2>4, <2>5, <2>6, <2>7, <2>8, <2>9, <2>10
  <1>2. CASE Raise(t)
    <2>1. writer[t] # "written"
      BY <1>2, TurnFacts DEF Raise, At, Sound, Begun
    <2>2. PICK h : Become(t, h)
      BY <1>2 DEF Raise
    <2> QED BY <2>1, <2>2, OthersKeepRows DEF CompleteRow
  <1>3. CASE Write(t)
    <2>1. PICK h : Become(t, h) /\ CompleteRow(handler[t], writer[t], h)
      <3>1. CompleteRow(handler[t], writer[t], Return(handler[t]))
        BY <1>h, ReturnCompletes
      <3>2. CompleteRow(handler[t], writer[t], [handler[t] EXCEPT !.pc = "observe"])
        BY <1>h, RowsKept DEF Handler
      <3> QED BY <1>3, <3>1, <3>2 DEF Write
    <2> QED BY <2>1, OthersKeepRows
  <1>4. CASE Observed(t)
    <2> DEFINE stats == Validation /\ writer[t] = "written"
    <2>1. Become(t, Return([handler[t] EXCEPT !.stats = stats]))
      BY <1>4 DEF Observed
    <2>2. stats \in BOOLEAN
      BY PipelineAssumption
    <2> HIDE DEF stats
    <2> QED BY <1>h, <2>1, <2>2, ReturnCompletes, OthersKeepRows
  <1>5. CASE Rendezvous(t)
    <2>1. Become(t, Saved(handler[t], writer[t] = "written"))
      BY <1>5 DEF Rendezvous
    <2>2. CompleteRow(handler[t], writer[t], Saved(handler[t], writer[t] = "written"))
      BY <1>h DEF CompleteRow, Saved, Handler
    <2> QED BY <2>1, <2>2, OthersKeepRows
  <1>6. CASE RendezvousTimeout(t)
    <2>1. Become(t, Saved(handler[t], FALSE)) /\ writer[t] # "written"
      BY <1>6 DEF RendezvousTimeout
    <2>2. CompleteRow(handler[t], writer[t], Saved(handler[t], FALSE))
      BY <2>1 DEF CompleteRow
    <2> QED BY <2>1, <2>2, OthersKeepRows
  <1>7. CASE WriterEnds(t) \/ WriterFails(t)
    <2>1. handler'[u].rows = handler[u].rows
      BY <1>7 DEF WriterEnds, WriterFails
    <2> QED BY <2>1, RowsKept
  <1> QED BY <1>1, <1>2, <1>3, <1>4, <1>5, <1>6, <1>7 DEF Steps

\* Whenever the row of a streamed turn is saved and its writer has ended well,
\* before the answer or while it streamed, the row has the writer's result
\* (_wrap_validation_response), whatever else runs, fails or stops.
THEOREM RowCompleteAlways == Spec => RowComplete
  <1>1. ASSUME IInv, Next \/ UNCHANGED vars, NEW u \in Turn
        PROVE  CompleteRow(handler[u], writer[u], handler'[u])
    <2>1. CASE Stop \/ UNCHANGED vars
      <3>1. handler'[u].rows = handler[u].rows
        BY <2>1 DEF Stop, vars
      <3> QED BY <1>1, <3>1, RowsKept
    <2>2. CASE Kill
      <3>1. handler'[u].rows = handler[u].rows
        BY <1>1, <2>2, TurnFacts DEF Kill, Handler
      <3> QED BY <1>1, <3>1, RowsKept
    <2> QED BY <1>1, <2>1, <2>2, RowOfStep DEF Next
  <1>2. IInv /\ [Next]_vars =>
          [\A t \in Turn : /\ handler[t].stream /\ writer[t] = "written"
                           /\ handler'[t].rows > handler[t].rows
                           => handler'[t].stats]_vars
    BY <1>1 DEF CompleteRow
  <1> QED BY <1>2, Invariance, PTL DEF Spec, RowComplete
=============================================================================
