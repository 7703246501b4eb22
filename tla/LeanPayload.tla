---------------------------- MODULE LeanPayload ----------------------------
(***************************************************************************)
(* How the payload sent to the model is composed (pipeline.py, with        *)
(* history_preamble_adapter.py, fingerprint.py and config.py): the prompt, *)
(* the retrieved context, the last turns of the conversation and the       *)
(* question, with the tools, trimmed to the token budget; then the tools   *)
(* are replaced by the selected ones and the budget is applied again.      *)
(*                                                                         *)
(* A message is its role and where it came from.  Every message weighs     *)
(* MessageSize tokens, the retrieved context `block` tokens more, and each *)
(* tool its full or its compressed size.                                   *)
(***************************************************************************)
EXTENDS Naturals, Sequences, FiniteSets

CONSTANTS Requests,        \* requests of the agent: messages, packed, tools, window
          Contexts,        \* sizes of the retrieved context; 0 is none
          TurnsToKeep,     \* the turn budgets of the phases
          MessageSize, FullTool, LeanTool,
          MaxTools,        \* tools.max_tools of the classifier
          Explicit         \* pipeline.max_outbound_tokens

Roles == {"system", "user", "assistant", "tool"}
Origins == {"prompt", "context", "inbound"}

ASSUME SizesAssumption ==
    /\ MessageSize \in Nat \ {0}
    /\ FullTool \in Nat /\ LeanTool \in Nat /\ LeanTool <= FullTool
    /\ MaxTools \in Nat
    /\ Explicit \in Nat
ASSUME RequestsAssumption ==
    \A r \in Requests : /\ r.messages \in Seq(Roles)
                        /\ r.packed \in Seq(Roles)
                        /\ r.tools \in Nat
                        /\ r.window \in Nat
ASSUME ChoicesAssumption == Contexts \subseteq Nat /\ TurnsToKeep \subseteq Nat \ {0}

VARIABLES pc,        \* where the request stands
          request,   \* the request being composed
          offered,   \* the size of the context retrieved for it
          turns,     \* the turn budget of its phase
          messages, block, tools,  \* the lean payload
          slot,      \* the budget pass takes the second message for the context
          pass       \* 1: with the agent's tools, 2: with the selected ones

vars == <<pc, request, offered, turns, messages, block, tools, slot, pass>>

Prompt == [role |-> "system", origin |-> "prompt", at |-> 0]
Context == [role |-> "system", origin |-> "context", at |-> 0]
Inbound(role, i) == [role |-> role, origin |-> "inbound", at |-> i]

NoTools == [recall |-> FALSE, count |-> 0, size |-> 0]
WithRecall(n) == [recall |-> TRUE, count |-> n, size |-> FullTool]
HasTools(t) == t.recall \/ t.count > 0
ToolTokens(t) == (t.count + IF t.recall THEN 1 ELSE 0) * t.size
Tokens(m, b, t) == Len(m) * MessageSize + b + ToolTokens(t)

\* resolve_budget: an explicit setting as it stands, the default scaled up
\* to half of a large window of the model.
Budget(window) ==
    IF Explicit # 8000 THEN Explicit
    ELSE IF window > 16384
         THEN IF window \div 2 < 32768 THEN window \div 2 ELSE 32768
         ELSE 8000
Limit == Budget(request.window)
Fits(m, b, t) == Limit = 0 \/ Tokens(m, b, t) <= Limit

IsUser(s, i) == s[i].role = "user"
UsersFrom(s, i) == {j \in i..Len(s) : IsUser(s, j)}

\* _last_n_turns, n > 0: the longest end of the history with at most n
\* messages of the user.
KeptPlaces(h, n) == {i \in 1..Len(h) : Cardinality(UsersFrom(h, i)) <= n}
LastTurnsShort(h, n) ==  \* stops at the n-th message of the user
    SubSeq(h, Len(h) - Cardinality({i \in KeptPlaces(h, n) : Cardinality(UsersFrom(h, i)) < n}) + 1, Len(h))
LastTurns(h, n) == SubSeq(h, Len(h) - Cardinality(KeptPlaces(h, n)) + 1, Len(h))

\* The history a client packs into its last message, lifted before it.
LastUser(roles) ==
    Cardinality({i \in 1..Len(roles) : \E j \in i..Len(roles) : roles[j] = "user"})
Lifted(r) ==
    LET k == LastUser(r.messages)
    IN  IF k = 0 THEN r.messages
        ELSE SubSeq(r.messages, 1, k - 1) \o r.packed \o SubSeq(r.messages, k, Len(r.messages))

\* decompose: the first system message is replaced by the lean prompt, the
\* last message is the question if the user sent it, the rest is history.
FirstSystem(roles) ==
    IF \E i \in 1..Len(roles) : roles[i] = "system"
    THEN 1 + Cardinality({i \in 1..Len(roles) : \A j \in 1..i : roles[j] # "system"})
    ELSE 0
EndsWithUser(roles) == Len(roles) > 0 /\ roles[Len(roles)] = "user"
Numbered(roles) == [i \in 1..Len(roles) |-> Inbound(roles[i], i)]
WithoutPlace(s, k) ==
    IF k = 0 THEN s ELSE SubSeq(s, 1, k - 1) \o SubSeq(s, k + 1, Len(s))
History(roles) ==
    LET rest == WithoutPlace(Numbered(roles), FirstSystem(roles))
    IN  IF EndsWithUser(roles) THEN SubSeq(rest, 1, Len(rest) - 1) ELSE rest
Question(roles) ==
    IF EndsWithUser(roles) THEN <<Inbound("user", Len(roles))>> ELSE <<>>

Composed ==
    <<Prompt>> \o (IF offered > 0 THEN <<Context>> ELSE <<>>)
               \o LastTurns(History(Lifted(request)), turns)
               \o Question(Lifted(request))
-----------------------------------------------------------------------------
NoRequest == [messages |-> <<>>, packed |-> <<>>, tools |-> 0, window |-> 0]

Init == /\ pc = "idle" /\ request = NoRequest /\ offered = 0 /\ turns = 1
        /\ messages = <<>> /\ block = 0 /\ tools = NoTools
        /\ slot = FALSE /\ pass = 1

\* The handler: the preamble is lifted, context and phase are looked up.
Receive ==
    /\ pc \in {"idle", "sent"}
    /\ request' \in Requests
    /\ offered' \in Contexts
    /\ turns' \in TurnsToKeep
    /\ pc' = "compose" /\ messages' = <<>> /\ block' = 0 /\ tools' = NoTools
    /\ slot' = FALSE /\ pass' = 1

Compose ==
    /\ pc = "compose"
    /\ messages' = Composed
    /\ block' = offered
    /\ tools' = WithRecall(request.tools)
    /\ pc' = "budget"
    /\ UNCHANGED <<request, offered, turns, slot, pass>>

\* Where a budget pass ends.
Return == pc' = IF pass = 1 THEN "select" ELSE "strip"

CheckBudget ==
    /\ pc = "budget"
    /\ IF Fits(messages, block, tools)
       THEN Return /\ UNCHANGED slot
       ELSE /\ pc' = "history"
            /\ slot' = (Len(messages) > 1 /\ messages[2].role = "system")
    /\ UNCHANGED <<request, offered, turns, messages, block, tools, pass>>

\* Step 1: what stands between the context and the last message is cut to
\* one turn.
HistoryFrom == IF slot THEN 3 ELSE 2
Shortened ==
    LET last == Len(messages)
    IN  IF last > HistoryFrom
        THEN SubSeq(messages, 1, HistoryFrom - 1)
             \o LastTurns(SubSeq(messages, HistoryFrom, last - 1), 1)
             \o <<messages[last]>>
        ELSE messages

TrimHistory ==
    /\ pc = "history"
    /\ messages' = Shortened
    /\ IF messages' # messages /\ Fits(messages', block, tools)
       THEN Return ELSE pc' = "tools"
    /\ UNCHANGED <<request, offered, turns, block, tools, slot, pass>>

\* Step 2a: the tools are compressed, then dropped, recall among them.
TrimToolsLast ==  \* the context before the tools, as before the audit
    /\ pc = "tools" /\ pc' = "context"
    /\ UNCHANGED <<request, offered, turns, messages, block, tools, slot, pass>>
TrimTools ==
    /\ pc = "tools"
    /\ LET compressed == [tools EXCEPT !.size = LeanTool]
       IN  IF HasTools(tools) /\ Fits(messages, block, compressed)
           THEN tools' = compressed /\ Return
           ELSE /\ tools' = NoTools
                /\ IF HasTools(tools) /\ Fits(messages, block, NoTools)
                   THEN Return ELSE pc' = "context"
    /\ UNCHANGED <<request, offered, turns, messages, block, slot, pass>>

\* Step 2: the message in the context's place is halved until the payload
\* fits, and removed when nothing of it is left.
InSlot == IF messages[2].origin = "context" THEN block ELSE 1
TrimContext ==
    /\ pc = "context"
    /\ IF ~slot \/ Fits(messages, block, tools)
       THEN Return /\ UNCHANGED <<messages, block>>
       ELSE IF InSlot \div 2 = 0
            THEN /\ messages' = WithoutPlace(messages, 2)
                 /\ block' = IF messages[2].origin = "context" THEN 0 ELSE block
                 /\ Return
            ELSE /\ block' = block \div 2
                 /\ UNCHANGED <<pc, messages>>
    /\ UNCHANGED <<request, offered, turns, tools, slot, pass>>

\* compose_with_tool_selection: the classifier is awaited; when it fails, or
\* none is configured, the payload stays as it is.
SelectUnchecked ==  \* no second pass
    /\ pc = "select" /\ pc' = "strip"
    /\ \E n \in 0..MaxTools : tools' = WithRecall(n)
    /\ UNCHANGED <<request, offered, turns, messages, block, slot, pass>>
Select ==
    /\ pc = "select"
    /\ \/ /\ \E n \in 0..MaxTools : tools' = WithRecall(n)
          /\ pc' = "budget" /\ pass' = 2
       \/ pc' = "strip" /\ UNCHANGED <<tools, pass>>
    /\ UNCHANGED <<request, offered, turns, messages, block, slot>>

\* The handler takes out the recall tool of a general question, or all tools
\* for a model that cannot call any.
Strip ==
    /\ pc = "strip"
    /\ \/ UNCHANGED tools
       \/ tools' = [tools EXCEPT !.recall = FALSE]
       \/ tools' = NoTools
    /\ pc' = "sent"
    /\ UNCHANGED <<request, offered, turns, messages, block, slot, pass>>

Next == \/ Receive \/ Compose \/ CheckBudget \/ TrimHistory \/ TrimTools
        \/ TrimContext \/ Select \/ Strip

Spec == Init /\ [][Next]_vars
-----------------------------------------------------------------------------
Steps == {"idle", "compose", "budget", "history", "tools", "context", "select",
          "strip", "sent"}
ToolList == [recall : BOOLEAN, count : Nat, size : Nat]
Message == [role : Roles, origin : Origins, at : Nat]

\* The types of the variables.
TypeOK ==
    /\ pc \in Steps
    /\ request \in Requests \cup {NoRequest}
    /\ offered \in Nat /\ turns \in Nat \ {0}
    /\ messages \in Seq(Message) /\ block \in Nat
    /\ tools \in ToolList
    /\ slot \in BOOLEAN /\ pass \in {1, 2}

\* Whatever is trimmed, in two passes, the question is in what is sent: the
\* last thing the user said, be it the last message or one that tool calls
\* and their results follow.
QuestionSent ==
    pc = "sent" =>
        LET roles == Lifted(request)
        IN  LastUser(roles) > 0 =>
                \E k \in 1..Len(messages) : messages[k] = Inbound("user", LastUser(roles))

\* The retrieved facts are the last to go: a request whose context was cut
\* would not have fitted without any tool and with one turn of history.
\* (The comments of step 2a give this as its reason.)
Bare == LET from == IF offered > 0 THEN 3 ELSE 2
            last == Len(Composed)
        IN  IF last > from
            THEN from + Len(LastTurns(SubSeq(Composed, from, last - 1), 1))
            ELSE last
FactsLast ==
    pc \in {"select", "strip", "sent"} /\ block < offered
        => Limit > 0 /\ Bare * MessageSize + offered > Limit

\* What is sent fits the budget, or nothing that may be trimmed is left.
FitsOrBare ==
    pc = "sent" => \/ Fits(messages, block, tools)
                   \/ /\ block = 0 /\ ~HasTools(tools)
                      /\ Cardinality({k \in 1..(Len(messages) - 1) : IsUser(messages, k)}) <= 1
=============================================================================
