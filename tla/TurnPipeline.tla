---------------------------- MODULE TurnPipeline ----------------------------
(***************************************************************************)
(* The life of a chat request in the proxy (src/sieve/main.py, the two     *)
(* intercept handlers), with the recall loop (recall_tool.py), the writer  *)
(* that learns from the turn, and the validation row kept of it.           *)
(*                                                                         *)
(* One event loop runs every handler: a handler loses control only where   *)
(* it awaits, and each action goes from one await to the next.  The writer *)
(* is one step here (FactWriter has its commits), and so is tool ingestion *)
(* (ToolCatalog); both swallow their failures.                             *)
(***************************************************************************)
EXTENDS Integers, FiniteSets

CONSTANTS
    MaxTurns,     \* chat requests (a bound)
    MaxInFlight,  \* handlers at once (a bound)
    MaxRounds,    \* MAX_ROUNDS of the recall loop
    Phase1,       \* config.progression.phase_1_threshold
    Phase2,       \* config.progression.phase_2_threshold
    Validation,   \* config.validation.enabled
    MaxFailures,  \* exceptions (a bound)
    MaxStops      \* stops and kills of the proxy (a bound)

ASSUME PipelineAssumption ==
    /\ MaxTurns \in Nat /\ MaxInFlight \in Nat /\ MaxRounds \in Nat
    /\ Phase1 \in Nat /\ Phase2 \in Nat /\ Phase1 <= Phase2
    /\ Validation \in BOOLEAN
    /\ MaxFailures \in Nat /\ MaxStops \in Nat

Turn == 1..MaxTurns

Place == {"unsent", "compose", "ask", "recall", "verify", "correct", "write",
          "observe", "stream", "original", "raw", "answered", "dead"}

\* What the provider's reply holds, or where the answer came from instead.
Reply == {"none", "text", "tool call", "recall call", "both calls",
          "refused", "original", "status", "error"}

Handler == [pc : Place,
            stream : BOOLEAN,   \* the answer is streamed
            blank : BOOLEAN,    \* the user text is blank
            phase : {"none", "OBSERVE", "ACCUMULATE", "ACTIVATE"},
            intercepts : BOOLEAN,  \* recall is offered, its calls are handled
            rounds : Nat, reply : Reply,
            sent : Nat,         \* requests posted to the provider
            rows : Nat,         \* validation rows saved
            stats : BOOLEAN]    \* the metrics carry the writer's result

VARIABLES
    handler,   \* the handler of each turn
    writer,    \* the writer of each turn
    failures, stops

vars == <<handler, writer, failures, stops>>

NoHandler == [pc |-> "unsent", stream |-> FALSE, blank |-> FALSE, phase |-> "none",
              intercepts |-> FALSE, rounds |-> 0, reply |-> "none", sent |-> 0,
              rows |-> 0, stats |-> FALSE]

Init ==
    /\ handler = [t \in Turn |-> NoHandler]
    /\ writer = [t \in Turn |-> "none"]
    /\ failures = 0 /\ stops = 0

At(t, place) == handler[t].pc = place
InFlight == {t \in Turn : handler[t].pc \notin {"unsent", "answered", "dead"}}
Written == {t \in Turn : writer[t] = "written"}

\* detect_phase of the number of current facts; each written turn states one.
PhaseOf(count) ==
    IF count < Phase1 THEN "OBSERVE"
    ELSE IF count < Phase2 THEN "ACCUMULATE" ELSE "ACTIVATE"

Become(t, h) == handler' = [handler EXCEPT ![t] = h]
Fail == failures < MaxFailures /\ failures' = failures + 1

-----------------------------------------------------------------------------
(***************************************************************************)
(* The request on its way to the provider.                                 *)
(***************************************************************************)

\* A status tag is answered at once, and leaves no row.
Arrive(t) ==
    /\ At(t, "unsent") /\ \A u \in 1..(t - 1) : ~At(u, "unsent")
    /\ Cardinality(InFlight) < MaxInFlight
    /\ \/ \E stream, blank \in BOOLEAN :
            Become(t, [handler[t] EXCEPT !.pc = "compose",
                                         !.stream = stream, !.blank = blank])
       \/ Become(t, [handler[t] EXCEPT !.pc = "answered", !.reply = "status"])
    /\ UNCHANGED <<writer, failures, stops>>

\* Decompose, ingest, retrieve, read the phase, compose, post.  The recall tool
\* is stripped in mode B, when disabled and for a pure general query, and then
\* recall calls are not intercepted.
Compose(t) ==
    /\ At(t, "compose")
    /\ \E intercepts \in BOOLEAN :
         Become(t, [handler[t] EXCEPT !.pc = "ask", !.sent = @ + 1,
                                      !.phase = PhaseOf(Cardinality(Written)),
                                      !.intercepts = intercepts])
    /\ UNCHANGED <<writer, failures, stops>>

Intercepted(t, reply) ==
    handler[t].intercepts /\ reply \in {"recall call", "both calls"}

MoreOnce(t, reply) ==   \* Mutant: an if in place of the while.
    Intercepted(t, reply) /\ handler[t].rounds = 0

\* The while of handle_chat.
More(t, reply) == Intercepted(t, reply) /\ handler[t].rounds < MaxRounds

Replied(t) ==
    /\ At(t, "ask")
    /\ \E reply \in {"text", "tool call"} \cup
                    (IF handler[t].intercepts THEN {"recall call", "both calls"} ELSE {}) :
         Become(t, IF More(t, reply)
                   THEN [handler[t] EXCEPT !.pc = "recall", !.rounds = @ + 1,
                                           !.reply = reply]
                   ELSE [handler[t] EXCEPT !.pc = "verify", !.reply = reply])
    /\ UNCHANGED <<writer, failures, stops>>

\* The recall handler's send raised: it answers 502, and the turn goes on.
Refused(t) ==
    /\ At(t, "ask") /\ handler[t].intercepts /\ Fail
    /\ Become(t, [handler[t] EXCEPT !.pc = "verify", !.reply = "refused",
                                    !.rounds = 0, !.stream = FALSE])
    /\ UNCHANGED <<writer, stops>>

\* Retrieve for each recall call and post the results.
Recall(t) ==
    /\ At(t, "recall")
    /\ Become(t, [handler[t] EXCEPT !.pc = "ask", !.sent = @ + 1])
    /\ UNCHANGED <<writer, failures, stops>>

\* A reply that is not streamed may be corrected with one more request.
Verify(t) ==
    /\ At(t, "verify")
    /\ \/ Become(t, [handler[t] EXCEPT !.pc = "write"])
       \/ /\ ~handler[t].stream /\ handler[t].reply # "refused"
          /\ Become(t, [handler[t] EXCEPT !.pc = "correct", !.sent = @ + 1])
    /\ UNCHANGED <<writer, failures, stops>>

\* Whatever comes of the correction, and its exceptions, ends here.
Corrected(t) ==
    /\ At(t, "correct")
    /\ Become(t, [handler[t] EXCEPT !.pc = "write"])
    /\ UNCHANGED <<writer, failures, stops>>

-----------------------------------------------------------------------------
(***************************************************************************)
(* An exception in any of these: the row is saved as an error and the      *)
(* request goes out as it came, in at most two attempts.                   *)
(***************************************************************************)
Row == IF Validation THEN 1 ELSE 0

NoErrorRow == 0   \* Mutant: an exception leaves no row.
ErrorRow == Row

Raise(t) ==
    /\ At(t, "compose") \/ At(t, "ask") \/ At(t, "recall")
    /\ Fail
    /\ Become(t, [handler[t] EXCEPT !.pc = "original", !.sent = @ + 1,
                                    !.rows = @ + ErrorRow])
    /\ UNCHANGED <<writer, stops>>

OriginalReplied(t) ==
    /\ At(t, "original") \/ At(t, "raw")
    /\ Become(t, [handler[t] EXCEPT !.pc = "answered", !.reply = "original"])
    /\ UNCHANGED <<writer, failures, stops>>

OriginalFailed(t) ==
    /\ Fail
    /\ \/ /\ At(t, "original")
          /\ Become(t, [handler[t] EXCEPT !.pc = "raw", !.sent = @ + 1])
       \/ /\ At(t, "raw")
          /\ Become(t, [handler[t] EXCEPT !.pc = "answered", !.reply = "error"])
    /\ UNCHANGED <<writer, stops>>

-----------------------------------------------------------------------------
(***************************************************************************)
(* The turn is written and the answer returned (_fire_writer and           *)
(* _wrap_validation_response).                                             *)
(***************************************************************************)

ReturnSaved(h) ==   \* Mutant: the row of a streamed response is saved here too.
    IF ~Validation THEN [h EXCEPT !.pc = "answered"]
    ELSE [h EXCEPT !.pc = IF h.stream THEN "stream" ELSE "answered", !.rows = @ + Row]

\* The response goes back: with validation a streamed one is observed to its
\* end, any other has its row saved at once.
Return(h) ==
    IF ~Validation THEN [h EXCEPT !.pc = "answered"]
    ELSE IF h.stream THEN [h EXCEPT !.pc = "stream"]
    ELSE [h EXCEPT !.pc = "answered", !.rows = @ + Row]

InlineNever(t) == FALSE   \* Mutant: every turn is written in the background.
Inline(t) == handler[t].phase = "OBSERVE"

\* The rendezvous of a response that is not streamed finds no result: nothing
\* is awaited between the creation of the task and it.
Write(t) ==
    /\ At(t, "write")
    /\ IF handler[t].blank
       THEN writer' = writer /\ Become(t, Return(handler[t]))
       ELSE /\ writer' = [writer EXCEPT ![t] = "running"]
            /\ IF Inline(t) THEN Become(t, [handler[t] EXCEPT !.pc = "observe"])
               ELSE Become(t, Return(handler[t]))
    /\ UNCHANGED <<failures, stops>>

Observed(t) ==
    /\ At(t, "observe") /\ writer[t] # "running"
    /\ Become(t, Return([handler[t] EXCEPT
                    !.stats = Validation /\ writer[t] = "written"]))
    /\ UNCHANGED <<writer, failures, stops>>

WriterEnds(t) ==
    /\ writer[t] = "running"
    /\ writer' = [writer EXCEPT ![t] = "written"]
    /\ UNCHANGED <<handler, failures, stops>>

WriterFails(t) ==
    /\ writer[t] = "running" /\ Fail
    /\ writer' = [writer EXCEPT ![t] = "failed"]
    /\ UNCHANGED <<handler, stops>>

SavedUnread(h, result) ==   \* Mutant: the result of the task is not copied.
    [h EXCEPT !.pc = "answered", !.rows = @ + Row]

\* The end of a streamed response: await the background writer, copy its
\* result, save the row.
Saved(h, result) ==
    [h EXCEPT !.pc = "answered", !.rows = @ + Row, !.stats = @ \/ result]

Rendezvous(t) ==
    /\ At(t, "stream") /\ writer[t] # "running"
    /\ Become(t, Saved(handler[t], writer[t] = "written"))
    /\ UNCHANGED <<writer, failures, stops>>

\* asyncio.wait_for cancels what it waits for when the time is up.
RendezvousTimeout(t) ==
    /\ At(t, "stream") /\ writer[t] = "running"
    /\ writer' = [writer EXCEPT ![t] = "cancelled"]
    /\ Become(t, Saved(handler[t], FALSE))
    /\ UNCHANGED <<failures, stops>>

-----------------------------------------------------------------------------
Unfinished(status) == IF status = "running" THEN "lost" ELSE status

\* A stop waits for the handlers, not for background writers; the store is
\* closed under them.  The proxy is then started again.
Stop ==
    /\ stops < MaxStops /\ stops' = stops + 1
    /\ InFlight = {}
    /\ writer' = [t \in Turn |-> Unfinished(writer[t])]
    /\ UNCHANGED <<handler, failures>>

Kill ==
    /\ stops < MaxStops /\ stops' = stops + 1
    /\ handler' = [t \in Turn |-> IF t \in InFlight
                                  THEN [handler[t] EXCEPT !.pc = "dead"] ELSE handler[t]]
    /\ writer' = [t \in Turn |-> Unfinished(writer[t])]
    /\ UNCHANGED failures

Steps(t) ==
    \/ Compose(t) \/ Replied(t) \/ Recall(t) \/ Verify(t) \/ Corrected(t)
    \/ OriginalReplied(t) \/ Write(t) \/ Observed(t) \/ Rendezvous(t)

Next ==
    \/ \E t \in Turn :
          \/ Arrive(t) \/ Steps(t) \/ Refused(t) \/ Raise(t) \/ OriginalFailed(t)
          \/ WriterEnds(t) \/ WriterFails(t) \/ RendezvousTimeout(t)
    \/ Stop \/ Kill

Spec == Init /\ [][Next]_vars

\* The event loop runs what can run; the provider answers or its client times
\* out (proxy.py, CLIENT_TIMEOUT), and so do the writer's own calls.
FairSpec == Spec /\ \A t \in Turn : WF_vars(Steps(t)) /\ WF_vars(WriterEnds(t))

-----------------------------------------------------------------------------
TypeOK ==
    /\ handler \in [Turn -> Handler]
    /\ writer \in [Turn -> {"none", "running", "written", "failed", "cancelled", "lost"}]
    /\ failures \in 0..MaxFailures /\ stops \in 0..MaxStops

\* The agent has the headers of its answer.
Answered(t) == handler[t].pc \in {"stream", "answered"}

\* _fire_writer: awaiting the writer in OBSERVE "guarantees the fresh fact is
\* visible on the next turn".  Whoever reads the store after such a turn is
\* answered finds its fact, unless the writer itself failed; a stop or a kill
\* does not lose it.
NextTurnSees ==
    \A t \in Turn :
        Answered(t) /\ handler[t].phase = "OBSERVE" /\ ~handler[t].blank
            /\ handler[t].reply \notin {"original", "error"}
        => writer[t] \in {"written", "failed"}

\* The agent, which never listed it, sees a call of the recall tool only when
\* the rounds are used up.
RecallHidden ==
    \A t \in Turn :
        Answered(t) /\ handler[t].reply \in {"recall call", "both calls"}
        => handler[t].rounds = MaxRounds

\* Whatever fails at whatever point, one chat request costs the provider at
\* most MaxRounds + 3 requests: the first, one for each round, and either one
\* correction or the two attempts to send the original.
BoundedPosts == \A t \in Turn : handler[t].sent <= MaxRounds + 3

\* A turn leaves at most one validation row, on whichever path it ends, and
\* the row never claims a result of a writer that did not end well.
RowFaithful ==
    \A t \in Turn :
        /\ handler[t].rows <= Row
        /\ handler[t].stats => writer[t] = "written"

\* When the row of a streamed turn is saved and its writer has ended well,
\* inline or in the background, the row has the result.
RowComplete ==
    [][\A t \in Turn :
        /\ handler[t].stream /\ writer[t] = "written"
        /\ handler'[t].rows > handler[t].rows
        => handler'[t].stats]_vars

\* Every turn that is not cut off by a kill is answered, and with validation
\* has a row, whatever raised on the way; a status request has none.
EveryTurnEnds ==
    \A t \in Turn :
        At(t, "compose") ~>
            At(t, "dead") \/ (At(t, "answered") /\ handler[t].rows = Row)
=============================================================================
