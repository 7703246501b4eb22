------------------------------ MODULE ContextProofs ------------------------------
(***************************************************************************)
(* Proofs about the two modules that decide what the model is told.        *)
(*                                                                         *)
(* LeanPayload, for every size of message, tool and context, every budget  *)
(* and every conversation: the types, that the retrieved facts are the     *)
(* last part to be cut, that the question is always sent, and that what is *)
(* sent fits the budget or is bare.                                        *)
(*                                                                         *)
(* Retrieval, for every store, question and number of facts asked: what a  *)
(* search returns is live, is the newest of its chain and leaves out no    *)
(* near candidate, and a turn comes back empty from a crowded store only.  *)
(***************************************************************************)
EXTENDS LeanPayload, Retrieval, FiniteSetTheorems, SequenceTheorems, WellFoundedInduction, TLAPS

-----------------------------------------------------------------------------
(***************************************************************************)
(* LeanPayload.                                                            *)
(***************************************************************************)
\* A part of a sequence that lies within it.
LEMMA PartOf ==
    ASSUME NEW S, NEW s \in Seq(S), NEW m \in 1..(Len(s) + 1), NEW n \in (m - 1)..Len(s)
    PROVE  /\ SubSeq(s, m, n) \in Seq(S)
           /\ Len(SubSeq(s, m, n)) = n - m + 1
           /\ \A i \in 1..(n - m + 1) : SubSeq(s, m, n)[i] = s[m + i - 1]
<1>1. \A i \in m..n : s[i] \in S
  OBVIOUS
<1>2. m \in Int /\ n \in Int
  OBVIOUS
<1> QED
  BY <1>1, <1>2, SubSeqProperties

\* A sequence without one of its elements.
LEMMA OneOut ==
    ASSUME NEW S, NEW s \in Seq(S), NEW k \in 1..Len(s)
    PROVE  WithoutPlace(s, k) \in Seq(S) /\ Len(WithoutPlace(s, k)) = Len(s) - 1
<1> DEFINE before == SubSeq(s, 1, k - 1)
           after == SubSeq(s, k + 1, Len(s))
<1>1. before \in Seq(S) /\ Len(before) = k - 1
  BY PartOf
<1>2. after \in Seq(S) /\ Len(after) = Len(s) - k
  BY PartOf
<1>3. k # 0 /\ Len(s) \in Nat
  OBVIOUS
<1>4. WithoutPlace(s, k) = before \o after
  BY <1>3, Zenon DEF WithoutPlace
<1> HIDE DEF before, after
<1>5. before \o after \in Seq(S) /\ Len(before \o after) = Len(before) + Len(after)
  BY <1>1, <1>2, ConcatProperties
<1> QED
  BY <1>1, <1>2, <1>3, <1>4, <1>5

\* There are as many places at most as the sequence has, and fewer when one
\* is left out.
LEMMA PlacesBound ==
    ASSUME NEW S, NEW s \in Seq(S), NEW K \in SUBSET (1..Len(s))
    PROVE  /\ Cardinality(K) \in 0..Len(s)
           /\ K # 1..Len(s) => Cardinality(K) \in 0..(Len(s) - 1)
<1>1. Len(s) \in Nat
  OBVIOUS
<1>2. IsFiniteSet(1..Len(s)) /\ Cardinality(1..Len(s)) = Len(s)
  BY <1>1, FS_Interval
<1> DEFINE D == 1..Len(s)
<1> HIDE DEF D
<1>3. IsFiniteSet(K) /\ Cardinality(K) <= Len(s) /\ (K # D => Cardinality(K) # Len(s))
  BY <1>2, FS_Subset DEF D
<1>4. Cardinality(K) \in Nat
  BY <1>3, FS_CardinalityType
<1> QED
  BY <1>1, <1>3, <1>4 DEF D

\* The places _last_n_turns keeps are at most the places there are.
LEMMA KeptBounds ==
    ASSUME NEW S, NEW h \in Seq(S), NEW n
    PROVE  Cardinality(KeptPlaces(h, n)) \in 0..Len(h)
<1>1. KeptPlaces(h, n) \in SUBSET (1..Len(h))
  BY DEF KeptPlaces
<1> QED
  BY <1>1, PlacesBound

\* _last_n_turns returns an end of the history.
LEMMA LastTurnsLength ==
    ASSUME NEW S, NEW h \in Seq(S), NEW n
    PROVE  LastTurns(h, n) \in Seq(S) /\ Len(LastTurns(h, n)) \in 0..Len(h)
<1> DEFINE c == Cardinality(KeptPlaces(h, n))
<1>1. c \in 0..Len(h)
  BY KeptBounds
<1> HIDE DEF c
<1>2. /\ SubSeq(h, Len(h) - c + 1, Len(h)) \in Seq(S)
      /\ Len(SubSeq(h, Len(h) - c + 1, Len(h))) = Len(h) - (Len(h) - c + 1) + 1
  BY <1>1, PartOf
<1> QED
  BY <1>1, <1>2 DEF LastTurns, c

\* Tokens grow with the messages.
LEMMA MoreIsHeavier ==
    ASSUME NEW a \in Nat, NEW b \in Nat, NEW m \in Nat, a <= b
    PROVE  a * m <= b * m /\ a * m \in Nat /\ b * m \in Nat
  OBVIOUS

-----------------------------------------------------------------------------
\* What the history and the question are made of.
LEMMA LiftedType ==
    ASSUME TypeOK
    PROVE  Lifted(request) \in Seq(Roles)
<1> DEFINE m == request.messages
           p == request.packed
           k == LastUser(m)
<1>1. m \in Seq(Roles) /\ p \in Seq(Roles)
  <2>1. CASE request \in Requests
    BY <2>1, RequestsAssumption
  <2>2. CASE request = NoRequest
    BY <2>2 DEF NoRequest
  <2> QED
    BY <2>1, <2>2 DEF TypeOK
<1>2. k \in 0..Len(m)
  <2> HIDE DEF m
  <2>1. {i \in 1..Len(m) : \E j \in i..Len(m) : m[j] = "user"} \in SUBSET (1..Len(m))
    OBVIOUS
  <2> QED
    BY <1>1, <2>1, PlacesBound DEF LastUser
<1> HIDE DEF m, p, k
<1>3. CASE k = 0
  BY <1>1, <1>3 DEF Lifted, m, k
<1>4. CASE k # 0
  <2>1. SubSeq(m, 1, k - 1) \in Seq(Roles) /\ SubSeq(m, k, Len(m)) \in Seq(Roles)
    BY <1>1, <1>2, <1>4, PartOf
  <2>2. SubSeq(m, 1, k - 1) \o p \o SubSeq(m, k, Len(m)) \in Seq(Roles)
    BY <2>1, <1>1, ConcatProperties
  <2> QED
    BY <2>2, <1>4, Zenon DEF Lifted, m, p, k
<1> QED
  BY <1>3, <1>4

LEMMA NumberedType ==
    ASSUME NEW roles \in Seq(Roles)
    PROVE  Numbered(roles) \in Seq(Message) /\ Len(Numbered(roles)) = Len(roles)
<1>1. Len(roles) \in Nat /\ \A i \in 1..Len(roles) : Inbound(roles[i], i) \in Message
  BY DEF Inbound, Message, Origins
<1>2. Numbered(roles) \in [1..Len(roles) -> Message]
  BY <1>1 DEF Numbered
<1> QED
  BY <1>1, <1>2

LEMMA HistoryType ==
    ASSUME NEW roles \in Seq(Roles)
    PROVE  History(roles) \in Seq(Message)
<1> DEFINE all == Numbered(roles)
           first == FirstSystem(roles)
           rest == WithoutPlace(all, first)
<1>1. all \in Seq(Message) /\ Len(all) = Len(roles)
  BY NumberedType
<1>2. first \in 0..Len(roles)
  <2> DEFINE before == {i \in 1..Len(roles) : \A j \in 1..i : roles[j] # "system"}
  <2>1. before \in SUBSET (1..Len(roles))
    OBVIOUS
  <2>2. CASE \E i \in 1..Len(roles) : roles[i] = "system"
    <3>1. before # 1..Len(roles)
      BY <2>2
    <3>2. FirstSystem(roles) = 1 + Cardinality(before)
      BY <2>2, Zenon DEF FirstSystem
    <3> HIDE DEF before
    <3>3. Cardinality(before) \in 0..(Len(roles) - 1)
      BY <2>1, <3>1, PlacesBound
    <3> QED
      BY <3>2, <3>3
  <2>3. CASE ~ \E i \in 1..Len(roles) : roles[i] = "system"
    BY <2>3 DEF FirstSystem
  <2> QED
    BY <2>2, <2>3
<1> HIDE DEF all, first
<1>3. rest \in Seq(Message)
  <2>1. CASE first = 0
    BY <2>1, <1>1, Zenon DEF WithoutPlace
  <2>2. CASE first # 0
    BY <2>2, <1>1, <1>2, OneOut
  <2> QED
    BY <2>1, <2>2
<1> HIDE DEF rest
<1>4. SubSeq(rest, 1, Len(rest) - 1) \in Seq(Message)
  <2>1. CASE Len(rest) = 0
    BY <2>1, SubSeqEmpty
  <2>2. CASE Len(rest) # 0
    BY <2>2, <1>3, PartOf
  <2> QED
    BY <2>1, <2>2
<1>5. History(roles) = IF EndsWithUser(roles) THEN SubSeq(rest, 1, Len(rest) - 1) ELSE rest
  BY Zenon DEF History, rest, all, first
<1> QED
  BY <1>3, <1>4, <1>5

\* The composed payload is made of messages, and the context comes second.
LEMMA ComposedType ==
    ASSUME TypeOK
    PROVE  /\ Composed \in Seq(Message)
           /\ offered > 0 => Len(Composed) > 1 /\ Composed[2] = Context
<1> DEFINE ctx == IF offered > 0 THEN <<Context>> ELSE <<>>
           hist == LastTurns(History(Lifted(request)), turns)
           quest == Question(Lifted(request))
           head == <<Prompt>> \o ctx
<1>1. hist \in Seq(Message)
  BY LiftedType, HistoryType, LastTurnsLength
<1>2. quest \in Seq(Message)
  <2>1. \A n \in Nat : Inbound("user", n) \in Message
    BY DEF Inbound, Message, Roles, Origins
  <2>2. Len(Lifted(request)) \in Nat
    BY LiftedType
  <2> QED
    BY <2>1, <2>2 DEF Question
<1>3. /\ head \in Seq(Message) /\ Len(head) \in Nat
      /\ offered > 0 => Len(head) = 2 /\ head[2] = Context
  <2>1. Prompt \in Message /\ Context \in Message
    BY DEF Prompt, Context, Message, Roles, Origins
  <2> QED
    BY <2>1 DEF TypeOK
<1>4. Composed = head \o hist \o quest
  BY Zenon DEF Composed
<1> HIDE DEF head, hist, quest
<1>5. /\ head \o hist \in Seq(Message)
      /\ Len(head \o hist) = Len(head) + Len(hist)
      /\ \A i \in 1..Len(head) + Len(hist) :
            (head \o hist)[i] = IF i <= Len(head) THEN head[i] ELSE hist[i - Len(head)]
  BY <1>1, <1>3, ConcatProperties
<1> DEFINE front == head \o hist
<1> HIDE DEF front
<1>6. /\ front \o quest \in Seq(Message)
      /\ Len(front \o quest) = Len(front) + Len(quest)
      /\ \A i \in 1..Len(front) + Len(quest) :
            (front \o quest)[i] = IF i <= Len(front) THEN front[i] ELSE quest[i - Len(front)]
  BY <1>2, <1>5, ConcatProperties DEF front
<1>7. Len(hist) \in Nat /\ Len(quest) \in Nat
  BY <1>1, <1>2
<1> QED
  BY <1>3, <1>4, <1>5, <1>6, <1>7 DEF front

-----------------------------------------------------------------------------
\* What cutting the history to one turn leaves: a message less or more, the
\* same second message when it is taken for the context, and from the
\* composed payload exactly the bare one.
Between(m, from) == SubSeq(m, from, Len(m) - 1)

LEMMA ShortenedParts ==
    ASSUME NEW m \in Seq(Message), NEW from \in {2, 3}, Len(m) > from
    PROVE  LET cut == LastTurns(Between(m, from), 1)
               all == SubSeq(m, 1, from - 1) \o cut \o <<m[Len(m)]>>
           IN  /\ all \in Seq(Message)
               /\ Len(cut) \in Nat
               /\ Len(all) = from + Len(cut)
               /\ Len(all) <= Len(m)
               /\ from = 3 => all[2] = m[2]
<1> DEFINE front == SubSeq(m, 1, from - 1)
           cut == LastTurns(Between(m, from), 1)
           end == <<m[Len(m)]>>
<1>1. front \in Seq(Message) /\ Len(front) = from - 1 /\ (from = 3 => front[2] = m[2])
  BY PartOf
<1>2. Between(m, from) \in Seq(Message) /\ Len(Between(m, from)) = Len(m) - from
  BY PartOf DEF Between
<1>3. cut \in Seq(Message) /\ Len(cut) \in 0..(Len(m) - from)
  <2> DEFINE h == Between(m, from)
  <2> HIDE DEF h
  <2>1. LastTurns(h, 1) \in Seq(Message) /\ Len(LastTurns(h, 1)) \in 0..Len(h)
    BY <1>2, LastTurnsLength DEF h
  <2> QED
    BY <2>1, <1>2 DEF h
<1>4. end \in Seq(Message) /\ Len(end) = 1
  OBVIOUS
<1> DEFINE n == Len(m)
<1>5. n \in Nat
  OBVIOUS
<1> HIDE DEF front, cut, end
<1>6. /\ front \o cut \in Seq(Message)
      /\ Len(front \o cut) = Len(front) + Len(cut)
      /\ \A i \in 1..Len(front) + Len(cut) :
            (front \o cut)[i] = IF i <= Len(front) THEN front[i] ELSE cut[i - Len(front)]
  BY <1>1, <1>3, ConcatProperties
<1> DEFINE fc == front \o cut
<1> HIDE DEF fc
<1>7. /\ fc \o end \in Seq(Message)
      /\ Len(fc \o end) = Len(fc) + Len(end)
      /\ \A i \in 1..Len(fc) + Len(end) :
            (fc \o end)[i] = IF i <= Len(fc) THEN fc[i] ELSE end[i - Len(fc)]
  <2>1. fc \in Seq(Message)
    BY <1>6 DEF fc
  <2> QED
    BY <1>4, <2>1, ConcatProperties
<1>8. from = 3 => (fc \o end)[2] = m[2]
  BY <1>1, <1>3, <1>4, <1>6, <1>7 DEF fc
<1>9. Len(fc \o end) = from + Len(cut) /\ Len(fc \o end) <= n /\ Len(cut) \in Nat
  <2>1. Len(front) = from - 1 /\ Len(cut) \in 0..(n - from) /\ Len(end) = 1
    BY <1>1, <1>3, <1>4 DEF n
  <2>2. Len(fc) = Len(front) + Len(cut) /\ Len(fc \o end) = Len(fc) + Len(end)
    BY <1>6, <1>7 DEF fc
  <2> QED
    BY <2>1, <2>2, <1>5
<1> QED
  BY <1>7, <1>8, <1>9 DEF fc, front, cut, end, n

LEMMA ShortenedFacts ==
    ASSUME TypeOK
    PROVE  /\ Shortened \in Seq(Message)
           /\ Len(Shortened) <= Len(messages) /\ Len(Shortened) \in Nat
           /\ slot /\ Len(messages) > 1 => Len(Shortened) > 1 /\ Shortened[2] = messages[2]
           /\ slot /\ offered > 0 /\ messages = Composed => Len(Shortened) = Bare
<1> DEFINE from == HistoryFrom
<1>1. from \in {2, 3} /\ (slot <=> from = 3)
  BY DEF HistoryFrom, TypeOK
<1>2. messages \in Seq(Message) /\ Len(messages) \in Nat
  BY DEF TypeOK
<1>3. CASE Len(messages) > from
  <2> DEFINE cut == LastTurns(Between(messages, from), 1)
             all == SubSeq(messages, 1, from - 1) \o cut \o <<messages[Len(messages)]>>
  <2>1. Shortened = all
    BY <1>3 DEF Shortened, Between
  <2>2. /\ all \in Seq(Message) /\ Len(cut) \in Nat /\ Len(all) = from + Len(cut)
        /\ Len(all) <= Len(messages) /\ (from = 3 => all[2] = messages[2])
    BY <1>1, <1>2, <1>3, ShortenedParts
  <2>3. ASSUME slot, offered > 0, messages = Composed PROVE Bare = from + Len(cut)
    BY <2>3, <1>1, <1>3 DEF Bare, Between
  <2> HIDE DEF all, cut
  <2> QED
    BY <2>1, <2>2, <2>3, <1>1
<1>4. CASE ~(Len(messages) > from)
  <2>1. Shortened = messages
    BY <1>4 DEF Shortened
  <2>2. ASSUME slot, offered > 0, messages = Composed PROVE Bare = Len(messages)
    BY <2>2, <1>1, <1>4 DEF Bare
  <2> QED
    BY <2>1, <2>2, <1>2
<1> QED
  BY <1>3, <1>4

-----------------------------------------------------------------------------
\* Every list of tools the steps write is one.
LEMMA ToolLists ==
    /\ NoTools \in ToolList
    /\ \A n \in Nat : WithRecall(n) \in ToolList
    /\ \A t \in ToolList : /\ [t EXCEPT !.size = LeanTool] \in ToolList
                           /\ [t EXCEPT !.recall = FALSE] \in ToolList
  BY SizesAssumption DEF NoTools, WithRecall, ToolList

\* While a pass runs, a message in the context's place is there.
SlotStands == pc \in {"history", "tools", "context"} /\ slot => Len(messages) > 1

LEMMA TypesStep ==
    ASSUME TypeOK, SlotStands, [Next]_vars
    PROVE  TypeOK' /\ SlotStands'
<1> USE DEF SlotStands
<1>1. CASE Receive
  <2>1. messages' \in Seq(Message)
    BY <1>1 DEF Receive
  <2> QED
    BY <1>1, <2>1, ChoicesAssumption, ToolLists DEF Receive, TypeOK, Steps
<1>2. CASE Compose
  <2>1. messages' \in Seq(Message)
    BY <1>2, ComposedType DEF Compose
  <2>2. request.tools \in Nat
    BY RequestsAssumption DEF TypeOK, NoRequest
  <2> QED
    BY <1>2, <2>1, <2>2, ToolLists DEF Compose, TypeOK, Steps
<1>3. CASE CheckBudget
  BY <1>3 DEF CheckBudget, Return, TypeOK, Steps
<1>4. CASE TrimHistory
  <2>1. messages' \in Seq(Message) /\ (slot => Len(messages') > 1)
    BY <1>4, ShortenedFacts DEF TrimHistory
  <2> QED
    BY <1>4, <2>1 DEF TrimHistory, Return, TypeOK, Steps
<1>5. CASE TrimTools
  <2>1. tools' \in ToolList
    BY <1>5, ToolLists DEF TrimTools, TypeOK
  <2> QED
    BY <1>5, <2>1 DEF TrimTools, Return, TypeOK, Steps
<1>6. CASE TrimContext
  <2>1. CASE ~slot \/ Fits(messages, block, tools)
    BY <1>6, <2>1 DEF TrimContext, Return, TypeOK, Steps
  <2>2. CASE slot /\ ~Fits(messages, block, tools) /\ InSlot \div 2 = 0
    <3>1. 2 \in 1..Len(messages)
      BY <1>6, <2>2 DEF TrimContext, TypeOK
    <3>2. messages' \in Seq(Message)
      BY <1>6, <2>2, <3>1, OneOut DEF TrimContext, TypeOK
    <3> QED
      BY <1>6, <2>2, <3>2 DEF TrimContext, Return, TypeOK, Steps
  <2>3. CASE slot /\ ~Fits(messages, block, tools) /\ InSlot \div 2 # 0
    BY <1>6, <2>3 DEF TrimContext, TypeOK, Steps
  <2> QED
    BY <2>1, <2>2, <2>3
<1>7. CASE Select
  <2>1. tools' \in ToolList
    BY <1>7, SizesAssumption, ToolLists DEF Select, TypeOK
  <2> QED
    BY <1>7, <2>1 DEF Select, TypeOK, Steps
<1>8. CASE Strip
  <2>1. tools' \in ToolList
    BY <1>8, ToolLists DEF Strip, TypeOK
  <2> QED
    BY <1>8, <2>1 DEF Strip, TypeOK, Steps
<1>9. CASE UNCHANGED vars
  BY <1>9 DEF vars, TypeOK
<1> QED
  BY <1>1, <1>2, <1>3, <1>4, <1>5, <1>6, <1>7, <1>8, <1>9 DEF Next

LEMMA TypesInit == Init => TypeOK /\ SlotStands
<1>1. <<>> \in Seq(Message)
  OBVIOUS
<1>2. Init => messages \in Seq(Message)
  BY <1>1 DEF Init
<1>3. Init => /\ pc \in Steps /\ request \in Requests \cup {NoRequest} /\ SlotStands
              /\ tools \in ToolList
  BY ToolLists DEF Init, Steps, SlotStands
<1>4. Init => offered = 0 /\ turns = 1 /\ block = 0 /\ slot = FALSE /\ pass = 1
  BY Zenon DEF Init
<1>5. 0 \in Nat /\ 1 \in Nat \ {0} /\ FALSE \in BOOLEAN /\ 1 \in {1, 2}
  OBVIOUS
<1> QED
  BY <1>2, <1>3, <1>4, <1>5, Zenon DEF TypeOK

\* The variables keep their types in every step of composing a payload.
THEOREM TypesKept == Spec => []TypeOK
<1>1. TypeOK /\ SlotStands /\ [Next]_vars => TypeOK' /\ SlotStands'
  BY TypesStep
<1> QED
  BY <1>1, TypesInit, PTL DEF Spec

-----------------------------------------------------------------------------
(***************************************************************************)
(* The retrieved facts are cut last.  Once the bare payload (no tool, one  *)
(* turn of history, the whole context) is known not to fit, the property   *)
(* holds whatever is cut.  Until then nothing of the context was cut, the  *)
(* context stands second, and before the context's turn comes the history  *)
(* is down to the bare one and the tools are gone.                         *)
(***************************************************************************)
CannotFit == Limit > 0 /\ Bare * MessageSize + offered > Limit
Uncut ==
    /\ block = offered
    /\ Len(messages) > 1 /\ messages[2] = Context
    /\ messages = Composed \/ Len(messages) <= Bare
    /\ pc \in {"history", "tools", "context"} => slot /\ Limit > 0
    /\ pc \in {"tools", "context"} => Len(messages) <= Bare
    /\ pc = "context" => tools = NoTools
FactsInv == offered > 0 /\ pc \notin {"idle", "compose"} => CannotFit \/ Uncut

LEMMA SameRequest ==
    ASSUME UNCHANGED <<request, offered, turns>>
    PROVE  Composed' = Composed /\ Bare' = Bare /\ Limit' = Limit
           /\ (CannotFit => CannotFit')
  BY DEF Composed, Bare, Limit, CannotFit

LEMMA LimitType == TypeOK => Limit \in Nat
<1> SUFFICES ASSUME TypeOK PROVE Limit \in Nat
  OBVIOUS
<1>1. request.window \in Nat
  BY RequestsAssumption DEF TypeOK, NoRequest
<1> QED
  BY <1>1, SizesAssumption DEF Limit, Budget

LEMMA BareType == TypeOK => Bare \in Nat
<1> SUFFICES ASSUME TypeOK PROVE Bare \in Nat
  OBVIOUS
<1> DEFINE from == IF offered > 0 THEN 3 ELSE 2
           cut == LastTurns(Between(Composed, from), 1)
<1>1. Composed \in Seq(Message) /\ Len(Composed) \in Nat
  BY ComposedType
<1>2. CASE Len(Composed) > from
  <2>1. Len(cut) \in Nat
    BY <1>1, <1>2, ShortenedParts
  <2>2. Bare = from + Len(cut)
    BY <1>2 DEF Bare, Between
  <2> HIDE DEF cut
  <2> QED
    BY <2>1, <2>2
<1>3. CASE ~(Len(Composed) > from)
  BY <1>1, <1>3 DEF Bare
<1> QED
  BY <1>2, <1>3

LEMMA FactsStep ==
    ASSUME TypeOK, SlotStands, FactsInv, Next
    PROVE  FactsInv'
<1>1. CASE Receive
  BY <1>1 DEF Receive, FactsInv
<1>2. CASE Compose
  <2>1. Composed' = Composed
    BY <1>2, SameRequest DEF Compose
  <2> QED
    BY <1>2, <2>1, ComposedType DEF Compose, FactsInv, Uncut
<1> SUFFICES ASSUME offered > 0, pc \notin {"idle", "compose"}, ~CannotFit, Uncut,
                    UNCHANGED <<request, offered, turns>>,
                    ~Receive, ~Compose
             PROVE  CannotFit' \/ Uncut'
  <2>1. CASE ~(Receive \/ Compose)
    <3>1. UNCHANGED <<request, offered, turns>> /\ pc' # "idle" /\ pc \notin {"idle", "compose"}
      BY <2>1 DEF Next, CheckBudget, TrimHistory, TrimTools, TrimContext, Select, Strip, Return
    <3> QED
      BY <3>1, <2>1, SameRequest DEF FactsInv
  <2> QED
    BY <2>1, <1>1, <1>2
<1>3. Composed' = Composed /\ Bare' = Bare /\ Limit' = Limit
  BY SameRequest
<1>4. Limit \in Nat /\ Bare \in Nat /\ Len(messages) \in Nat /\ offered \in Nat
  BY LimitType, BareType DEF TypeOK
<1>5. CASE CheckBudget
  <2>1. messages[2].role = "system"
    BY DEF Uncut, Context
  <2>2. CASE Fits(messages, block, tools)
    BY <1>3, <1>5, <2>2 DEF CheckBudget, Return, Uncut
  <2>3. CASE ~Fits(messages, block, tools)
    <3>1. Len(messages) > 1 /\ pc' = "history" /\ UNCHANGED <<messages, block, tools>>
      BY <1>5, <2>3 DEF CheckBudget, Uncut
    <3>2. slot'
      BY <1>5, <2>1, <2>3, <3>1 DEF CheckBudget
    <3>3. Limit > 0
      BY <1>4, <2>3 DEF Fits
    <3> QED
      BY <1>3, <3>1, <3>2, <3>3 DEF Uncut
  <2> QED
    BY <2>2, <2>3
<1>6. CASE TrimHistory
  <2>1. messages' = Shortened /\ slot /\ Limit > 0
    BY <1>6 DEF TrimHistory, Uncut
  <2>2. Len(Shortened) > 1 /\ Shortened[2] = Context /\ Len(Shortened) <= Bare
    BY <2>1, <1>4, ShortenedFacts DEF Uncut
  <2> QED
    BY <1>3, <1>6, <2>1, <2>2 DEF TrimHistory, Return, Uncut
<1>7. CASE TrimTools
  BY <1>3, <1>7 DEF TrimTools, Return, Uncut
<1>8. CASE TrimContext
  <2>1. CASE Fits(messages, block, tools)
    BY <1>3, <1>8, <2>1 DEF TrimContext, Return, Uncut
  <2>2. CASE ~Fits(messages, block, tools)
    <3>1. Limit > 0 /\ Len(messages) <= Bare /\ tools = NoTools /\ block = offered
      BY <1>8 DEF TrimContext, Uncut
    <3>2. ToolTokens(NoTools) = 0
      BY DEF ToolTokens, NoTools
    <3>3. Len(messages) * MessageSize \in Nat /\ Bare * MessageSize \in Nat
          /\ Len(messages) * MessageSize <= Bare * MessageSize
      BY <1>4, <3>1, SizesAssumption, MoreIsHeavier
    <3>4. Len(messages) * MessageSize + offered > Limit
      BY <2>2, <3>1, <3>2, <3>3, <1>4 DEF Fits, Tokens
    <3>5. CannotFit
      BY <3>1, <3>3, <3>4, <1>4 DEF CannotFit
    <3> QED
      BY <3>5
  <2> QED
    BY <2>1, <2>2
<1>9. CASE Select
  BY <1>3, <1>9 DEF Select, Uncut
<1>10. CASE Strip
  BY <1>3, <1>10 DEF Strip, Uncut
<1> QED
  BY <1>5, <1>6, <1>7, <1>8, <1>9, <1>10 DEF Next

\* A request whose retrieved facts were cut would not have fitted the budget
\* without any tool and with one turn of history, in whichever of the two
\* passes the cut was made.
THEOREM FactsCutLast == Spec => []FactsLast
<1> DEFINE IInv == TypeOK /\ SlotStands /\ FactsInv
<1>1. Init => IInv
  BY TypesInit DEF Init, FactsInv
<1>2. IInv /\ [Next]_vars => IInv'
  <2>1. ASSUME IInv, UNCHANGED vars PROVE FactsInv'
    <3>1. CannotFit' = CannotFit /\ Uncut' = Uncut
      BY <2>1, SameRequest DEF vars, CannotFit, Uncut, Composed, Bare, Limit
    <3> QED
      BY <2>1, <3>1 DEF vars, FactsInv
  <2> QED
    BY <2>1, TypesStep, FactsStep
<1>3. IInv => FactsLast
  <2> SUFFICES ASSUME IInv, pc \in {"select", "strip", "sent"}, block < offered
               PROVE  CannotFit
    BY DEF FactsLast, CannotFit
  <2> QED
    BY DEF FactsInv, Uncut, TypeOK
<1> QED
  BY <1>1, <1>2, <1>3, PTL DEF Spec

-----------------------------------------------------------------------------
(***************************************************************************)
(* Counting places.  A set of places that is closed towards one end of a   *)
(* sequence is that end, as long as the set is large.                      *)
(***************************************************************************)
LEMMA EndPlaces ==
    ASSUME NEW L \in Nat, NEW K \in SUBSET (1..L), \A i \in K : \A j \in i..L : j \in K
    PROVE  Cardinality(K) \in 0..L /\ K = (L - Cardinality(K) + 1)..L
<1> DEFINE c == Cardinality(K)
<1>1. IsFiniteSet(1..L) /\ Cardinality(1..L) = L
  BY FS_Interval
<1>2. IsFiniteSet(K) /\ c \in 0..L
  <2>1. IsFiniteSet(K) /\ Cardinality(K) <= Cardinality(1..L)
    BY <1>1, FS_Subset
  <2>2. Cardinality(K) \in Nat
    BY <2>1, FS_CardinalityType
  <2> QED
    BY <1>1, <2>1, <2>2
<1>3. ASSUME NEW i \in K PROVE L - i + 1 <= c
  <2>1. i..L \in SUBSET K
    OBVIOUS
  <2>2. Cardinality(i..L) = L - i + 1
    BY FS_Interval
  <2> QED
    BY <1>2, <2>1, <2>2, FS_Subset
<1> DEFINE T == (L - c + 1)..L
<1>4. IsFiniteSet(T) /\ Cardinality(T) = c
  <2> HIDE DEF c
  <2> QED
    BY <1>2, FS_Interval
<1>5. K \in SUBSET T
  <2> SUFFICES ASSUME NEW i \in K PROVE i \in T
    OBVIOUS
  <2>1. L - i + 1 <= c
    BY <1>3
  <2> HIDE DEF c
  <2> QED
    BY <1>2, <2>1
<1>6. T = K
  BY <1>4, <1>5, FS_Subset
<1> QED
  BY <1>2, <1>6

LEMMA FirstPlaces ==
    ASSUME NEW L \in Nat, NEW K \in SUBSET (1..L), \A i \in K : \A j \in 1..i : j \in K
    PROVE  Cardinality(K) \in 0..L /\ K = 1..Cardinality(K)
<1> DEFINE c == Cardinality(K)
<1>1. IsFiniteSet(1..L) /\ Cardinality(1..L) = L
  BY FS_Interval
<1>2. IsFiniteSet(K) /\ c \in 0..L
  <2>1. IsFiniteSet(K) /\ Cardinality(K) <= Cardinality(1..L)
    BY <1>1, FS_Subset
  <2>2. Cardinality(K) \in Nat
    BY <2>1, FS_CardinalityType
  <2> QED
    BY <1>1, <2>1, <2>2
<1>3. ASSUME NEW i \in K PROVE i <= c
  <2>1. 1..i \in SUBSET K
    OBVIOUS
  <2>2. Cardinality(1..i) = i
    BY FS_Interval
  <2> QED
    BY <1>2, <2>1, <2>2, FS_Subset
<1> DEFINE T == 1..c
<1>4. IsFiniteSet(T) /\ Cardinality(T) = c
  <2> HIDE DEF c
  <2> QED
    BY <1>2, FS_Interval
<1>5. K \in SUBSET T
  <2> SUFFICES ASSUME NEW i \in K PROVE i \in T
    OBVIOUS
  <2>1. i <= c
    BY <1>3
  <2> HIDE DEF c
  <2> QED
    BY <1>2, <2>1
<1>6. T = K
  BY <1>4, <1>5, FS_Subset
<1> QED
  BY <1>2, <1>6

\* Places that all move by the same distance are as many as before, at most.
LEMMA MovedPlaces ==
    ASSUME NEW A \in SUBSET Int, NEW B \in SUBSET Int, IsFiniteSet(B), NEW d \in Int,
           \A k \in A : k + d \in B
    PROVE  IsFiniteSet(A) /\ Cardinality(A) <= Cardinality(B)
<1> DEFINE f == [k \in A |-> k + d]
<1>1. f \in [A -> B]
  OBVIOUS
<1>2. \A x, y \in A : f[x] = f[y] => x = y
  OBVIOUS
<1>3. f \in Injection(A, B)
  BY <1>1, <1>2 DEF Injection, IsInjective
<1> QED
  BY <1>3, FS_Injection

\* What _last_n_turns keeps: the places from one on, with at most n messages of
\* the user among them; and every place that has at most n from there on.
LEMMA KeptEnd ==
    ASSUME NEW S, NEW h \in Seq(S), NEW n \in Nat
    PROVE  LET m == Len(h) - Cardinality(KeptPlaces(h, n)) + 1
           IN  /\ m \in 1..(Len(h) + 1)
               /\ KeptPlaces(h, n) = m..Len(h)
               /\ LastTurns(h, n) = SubSeq(h, m, Len(h))
<1>1. Len(h) \in Nat /\ KeptPlaces(h, n) \in SUBSET (1..Len(h))
  BY DEF KeptPlaces
<1>2. ASSUME NEW i \in KeptPlaces(h, n), NEW j \in i..Len(h)
      PROVE  j \in KeptPlaces(h, n)
  <2>1. i \in 1..Len(h) /\ j \in 1..Len(h) /\ Cardinality(UsersFrom(h, i)) <= n
    BY <1>1 DEF KeptPlaces
  <2>2. UsersFrom(h, j) \in SUBSET UsersFrom(h, i)
    BY <2>1 DEF UsersFrom
  <2>3. IsFiniteSet(UsersFrom(h, i))
    <3>1. UsersFrom(h, i) \in SUBSET (i..Len(h)) /\ IsFiniteSet(i..Len(h))
      BY <2>1, FS_Interval DEF UsersFrom
    <3> QED
      BY <3>1, FS_Subset
  <2>4. /\ Cardinality(UsersFrom(h, j)) <= Cardinality(UsersFrom(h, i))
        /\ Cardinality(UsersFrom(h, j)) \in Nat /\ Cardinality(UsersFrom(h, i)) \in Nat
    BY <2>2, <2>3, FS_Subset, FS_CardinalityType
  <2> QED
    BY <2>1, <2>4 DEF KeptPlaces
<1> DEFINE K == KeptPlaces(h, n)
<1> HIDE DEF K
<1>3. Cardinality(K) \in 0..Len(h) /\ K = (Len(h) - Cardinality(K) + 1)..Len(h)
  BY <1>1, <1>2, EndPlaces DEF K
<1> QED
  BY <1>1, <1>3 DEF LastTurns, K

\* _last_n_turns keeps the end of a history: n messages of the user at most,
\* and the last of them whenever there is room for one.
LEMMA LastTurnsPart ==
    ASSUME NEW S, NEW h \in Seq(S), NEW n \in Nat
    PROVE  \E m \in 1..(Len(h) + 1) :
              /\ LastTurns(h, n) \in Seq(S)
              /\ Len(LastTurns(h, n)) = Len(h) - m + 1
              /\ \A i \in 1..(Len(h) - m + 1) : LastTurns(h, n)[i] = h[m + i - 1]
              /\ m <= Len(h) => Cardinality(UsersFrom(h, m)) <= n
              /\ \A i \in 1..Len(h) : Cardinality(UsersFrom(h, i)) <= n => m <= i
<1> DEFINE m == Len(h) - Cardinality(KeptPlaces(h, n)) + 1
<1>1. /\ m \in 1..(Len(h) + 1)
      /\ KeptPlaces(h, n) = m..Len(h)
      /\ LastTurns(h, n) = SubSeq(h, m, Len(h))
  BY KeptEnd
<1> HIDE DEF m
<1>2. Len(h) \in Nat
  OBVIOUS
<1>3. Len(h) \in (m - 1)..Len(h)
  BY <1>1, <1>2
<1>4. /\ SubSeq(h, m, Len(h)) \in Seq(S)
      /\ Len(SubSeq(h, m, Len(h))) = Len(h) - m + 1
      /\ \A i \in 1..(Len(h) - m + 1) : SubSeq(h, m, Len(h))[i] = h[m + i - 1]
  BY <1>1, <1>3, PartOf
<1>5. m <= Len(h) => Cardinality(UsersFrom(h, m)) <= n
  <2> SUFFICES ASSUME m <= Len(h) PROVE m \in KeptPlaces(h, n)
    BY DEF KeptPlaces
  <2> QED
    BY <1>1, <1>2
<1>6. ASSUME NEW i \in 1..Len(h), Cardinality(UsersFrom(h, i)) <= n PROVE m <= i
  <2>1. i \in KeptPlaces(h, n)
    BY <1>6 DEF KeptPlaces
  <2> QED
    BY <1>1, <2>1
<1> QED
  BY <1>1, <1>4, <1>5, <1>6

UsersIn(s) == {k \in 1..Len(s) : IsUser(s, k)}

LEMMA PlacesFinite ==
    ASSUME NEW S, NEW s \in Seq(S), NEW i \in Nat \ {0}
    PROVE  /\ UsersFrom(s, i) \in SUBSET (1..Len(s)) /\ IsFiniteSet(UsersFrom(s, i))
           /\ UsersIn(s) \in SUBSET (1..Len(s)) /\ IsFiniteSet(UsersIn(s))
           /\ Cardinality(UsersFrom(s, i)) \in Nat /\ Cardinality(UsersIn(s)) \in Nat
<1>1. Len(s) \in Nat /\ IsFiniteSet(1..Len(s))
  BY FS_Interval
<1>2. UsersFrom(s, i) \in SUBSET (1..Len(s)) /\ UsersIn(s) \in SUBSET (1..Len(s))
  BY <1>1 DEF UsersFrom, UsersIn
<1>3. IsFiniteSet(UsersFrom(s, i)) /\ IsFiniteSet(UsersIn(s))
  BY <1>1, <1>2, FS_Subset
<1> QED
  BY <1>2, <1>3, FS_CardinalityType

LEMMA LastTurnsUsers ==
    ASSUME NEW S, NEW h \in Seq(S), NEW n \in Nat
    PROVE  Cardinality(UsersIn(LastTurns(h, n))) <= n
<1> DEFINE t == LastTurns(h, n)
<1>1. PICK m \in 1..(Len(h) + 1) :
            /\ t \in Seq(S)
            /\ Len(t) = Len(h) - m + 1
            /\ \A i \in 1..(Len(h) - m + 1) : t[i] = h[m + i - 1]
            /\ m <= Len(h) => Cardinality(UsersFrom(h, m)) <= n
  BY LastTurnsPart
<1> HIDE DEF t
<1>2. Len(h) \in Nat
  OBVIOUS
<1>3. IsFiniteSet(UsersIn(t)) /\ Cardinality(UsersIn(t)) \in Nat
      /\ UsersIn(t) \in SUBSET (1..Len(t))
  BY <1>1, PlacesFinite
<1>4. CASE m > Len(h)
  <2>1. UsersIn(t) = {}
    BY <1>1, <1>2, <1>3, <1>4
  <2> QED
    BY <2>1, FS_EmptySet DEF t
<1>5. CASE m <= Len(h)
  <2>1. UsersFrom(h, m) \in SUBSET (1..Len(h)) /\ IsFiniteSet(UsersFrom(h, m))
        /\ Cardinality(UsersFrom(h, m)) \in Nat
    BY PlacesFinite
  <2>2. ASSUME NEW k \in UsersIn(t) PROVE k + (m - 1) \in UsersFrom(h, m)
    <3>1. k \in 1..(Len(h) - m + 1) /\ t[k].role = "user"
      BY <1>1 DEF UsersIn, IsUser
    <3>2. k + (m - 1) = m + k - 1 /\ k + (m - 1) \in m..Len(h)
      BY <1>2, <3>1
    <3>3. h[k + (m - 1)].role = "user"
      BY <1>1, <3>1, <3>2
    <3> QED
      BY <3>2, <3>3 DEF UsersFrom, IsUser
  <2>3. Cardinality(UsersIn(t)) <= Cardinality(UsersFrom(h, m))
    <3>1. UsersIn(t) \in SUBSET Int /\ UsersFrom(h, m) \in SUBSET Int /\ m - 1 \in Int
      BY <1>3, <2>1
    <3> QED
      BY <2>1, <2>2, <3>1, MovedPlaces
  <2> QED
    BY <1>1, <1>3, <1>5, <2>1, <2>3 DEF t
<1> QED
  BY <1>2, <1>4, <1>5

-----------------------------------------------------------------------------
(***************************************************************************)
(* The last thing the user said, as it stands in a sequence: nothing the   *)
(* user said comes after it.                                               *)
(***************************************************************************)
LastSaid(s, q) ==
    \E k \in 1..Len(s) : s[k] = q /\ \A j \in (k + 1)..Len(s) : ~IsUser(s, j)

LEMMA SaidLast ==
    ASSUME NEW S, NEW a \in Seq(S), NEW b \in Seq(S), NEW q, LastSaid(b, q)
    PROVE  LastSaid(a \o b, q)
<1> DEFINE c == a \o b
<1>1. /\ Len(c) = Len(a) + Len(b) /\ Len(a) \in Nat /\ Len(b) \in Nat
      /\ \A i \in 1..Len(a) + Len(b) : c[i] = IF i <= Len(a) THEN a[i] ELSE b[i - Len(a)]
  BY ConcatProperties
<1> HIDE DEF c
<1>2. PICK k \in 1..Len(b) : b[k] = q /\ \A j \in (k + 1)..Len(b) : ~IsUser(b, j)
  BY DEF LastSaid
<1>3. Len(a) + k \in 1..Len(c) /\ c[Len(a) + k] = q
  BY <1>1, <1>2
<1>4. ASSUME NEW j \in (Len(a) + k + 1)..Len(c) PROVE ~IsUser(c, j)
  <2>1. j - Len(a) \in (k + 1)..Len(b) /\ c[j] = b[j - Len(a)]
    BY <1>1
  <2> QED
    BY <1>2, <2>1 DEF IsUser
<1> QED
  BY <1>3, <1>4 DEF LastSaid, c

LEMMA SaidBefore ==
    ASSUME NEW S, NEW a \in Seq(S), NEW b \in Seq(S), NEW q, LastSaid(a, q),
           \A j \in 1..Len(b) : ~IsUser(b, j)
    PROVE  LastSaid(a \o b, q)
<1> DEFINE c == a \o b
<1>1. /\ Len(c) = Len(a) + Len(b) /\ Len(a) \in Nat /\ Len(b) \in Nat
      /\ \A i \in 1..Len(a) + Len(b) : c[i] = IF i <= Len(a) THEN a[i] ELSE b[i - Len(a)]
  BY ConcatProperties
<1> HIDE DEF c
<1>2. PICK k \in 1..Len(a) : a[k] = q /\ \A j \in (k + 1)..Len(a) : ~IsUser(a, j)
  BY DEF LastSaid
<1>3. k \in 1..Len(c) /\ c[k] = q
  BY <1>1, <1>2
<1>4. ASSUME NEW j \in (k + 1)..Len(c) PROVE ~IsUser(c, j)
  <2>1. CASE j <= Len(a)
    BY <1>1, <1>2, <2>1 DEF IsUser
  <2>2. CASE j > Len(a)
    <3>1. j - Len(a) \in 1..Len(b) /\ c[j] = b[j - Len(a)]
      BY <1>1, <2>2
    <3> QED
      BY <3>1 DEF IsUser
  <2> QED
    BY <1>1, <2>1, <2>2
<1> QED
  BY <1>3, <1>4 DEF LastSaid, c

\* _last_n_turns keeps it, when at least one turn is kept.
LEMMA SaidKept ==
    ASSUME NEW S, NEW h \in Seq(S), NEW n \in Nat \ {0}, NEW q, LastSaid(h, q)
    PROVE  LastSaid(LastTurns(h, n), q)
<1> DEFINE t == LastTurns(h, n)
<1>1. PICK m \in 1..(Len(h) + 1) :
            /\ t \in Seq(S)
            /\ Len(t) = Len(h) - m + 1
            /\ \A i \in 1..(Len(h) - m + 1) : t[i] = h[m + i - 1]
            /\ \A i \in 1..Len(h) : Cardinality(UsersFrom(h, i)) <= n => m <= i
  BY LastTurnsPart
<1> HIDE DEF t
<1>2. PICK k \in 1..Len(h) : h[k] = q /\ \A j \in (k + 1)..Len(h) : ~IsUser(h, j)
  BY DEF LastSaid
<1>3. Cardinality(UsersFrom(h, k)) <= 1 /\ Cardinality(UsersFrom(h, k)) \in Nat
  <2>1. UsersFrom(h, k) \in SUBSET {k}
    BY <1>2 DEF UsersFrom
  <2>2. IsFiniteSet({k}) /\ Cardinality({k}) = 1
    BY FS_Singleton
  <2> QED
    BY <2>1, <2>2, FS_Subset, FS_CardinalityType
<1>4. m <= k
  BY <1>1, <1>3
<1> DEFINE p == k - m + 1
<1>5. p \in 1..Len(t) /\ t[p] = q
  <2>1. Len(h) \in Nat
    OBVIOUS
  <2>2. p \in 1..(Len(h) - m + 1) /\ m + p - 1 = k
    BY <1>4, <2>1
  <2> HIDE DEF p
  <2> QED
    BY <1>1, <1>2, <2>2
<1>6. ASSUME NEW j \in (p + 1)..Len(t) PROVE ~IsUser(t, j)
  <2>1. m + j - 1 \in (k + 1)..Len(h) /\ t[j] = h[m + j - 1]
    BY <1>1, <1>4
  <2> QED
    BY <1>2, <2>1 DEF IsUser
<1> QED
  BY <1>5, <1>6 DEF LastSaid, t

\* A part of the sequence that begins no later has it too.
LEMMA SaidInPart ==
    ASSUME NEW S, NEW s \in Seq(S), NEW q, NEW m \in 1..(Len(s) + 1),
           NEW n \in (m - 1)..Len(s), NEW k \in m..n, s[k] = q,
           \A j \in (k + 1)..Len(s) : ~IsUser(s, j)
    PROVE  LastSaid(SubSeq(s, m, n), q)
<1> DEFINE t == SubSeq(s, m, n)
           p == k - m + 1
<1>1. Len(t) = n - m + 1 /\ \A i \in 1..(n - m + 1) : t[i] = s[m + i - 1]
  BY PartOf
<1> HIDE DEF t
<1>2. p \in 1..Len(t) /\ t[p] = q
  BY <1>1
<1>3. ASSUME NEW j \in (p + 1)..Len(t) PROVE ~IsUser(t, j)
  <2>1. m + j - 1 \in (k + 1)..Len(s) /\ t[j] = s[m + j - 1]
    BY <1>1
  <2> QED
    BY <2>1 DEF IsUser
<1> QED
  BY <1>2, <1>3 DEF LastSaid, t

\* Taking out a message that is not the user's leaves it.
LEMMA SaidWithout ==
    ASSUME NEW S, NEW s \in Seq(S), NEW o \in 1..Len(s), NEW q, LastSaid(s, q),
           s[o].role # "user", q.role = "user"
    PROVE  LastSaid(WithoutPlace(s, o), q)
<1> DEFINE a == SubSeq(s, 1, o - 1)
           b == SubSeq(s, o + 1, Len(s))
<1>1. PICK k \in 1..Len(s) : s[k] = q /\ \A j \in (k + 1)..Len(s) : ~IsUser(s, j)
  BY DEF LastSaid
<1>2. k # o /\ Len(s) \in Nat
  BY <1>1
<1>3. a \in Seq(S) /\ b \in Seq(S) /\ Len(b) = Len(s) - o
      /\ \A i \in 1..(Len(s) - o) : b[i] = s[o + i]
  <2>1. a \in Seq(S)
    BY <1>2, PartOf
  <2>2. /\ b \in Seq(S) /\ Len(b) = Len(s) - (o + 1) + 1
        /\ \A i \in 1..(Len(s) - (o + 1) + 1) : b[i] = s[(o + 1) + i - 1]
    BY <1>2, PartOf
  <2>3. Len(s) - (o + 1) + 1 = Len(s) - o
    BY <1>2
  <2>4. \A i \in 1..(Len(s) - o) : (o + 1) + i - 1 = o + i
    BY <1>2
  <2> HIDE DEF a, b
  <2> QED
    BY <2>1, <2>2, <2>3, <2>4
<1>4. WithoutPlace(s, o) = a \o b
  <2>1. o # 0
    OBVIOUS
  <2> QED
    BY <2>1, Zenon DEF WithoutPlace
<1>5. CASE k < o
  <2>1. LastSaid(a, q)
    <3>1. o - 1 \in (1 - 1)..Len(s) /\ k \in 1..(o - 1) /\ 1 \in 1..(Len(s) + 1)
      BY <1>2, <1>5
    <3> QED
      BY <1>1, <3>1, SaidInPart
  <2> HIDE DEF a, b
  <2>2. \A j \in 1..Len(b) : ~IsUser(b, j)
    <3> SUFFICES ASSUME NEW j \in 1..Len(b) PROVE ~IsUser(b, j)
      OBVIOUS
    <3>1. o + j \in (k + 1)..Len(s) /\ b[j] = s[o + j]
      BY <1>2, <1>3, <1>5
    <3> QED
      BY <1>1, <3>1 DEF IsUser
  <2> QED
    BY <1>3, <1>4, <2>1, <2>2, SaidBefore
<1>6. CASE k > o
  <2>1. LastSaid(b, q)
    <3>1. Len(s) \in ((o + 1) - 1)..Len(s) /\ k \in (o + 1)..Len(s) /\ o + 1 \in 1..(Len(s) + 1)
      BY <1>2, <1>6
    <3> QED
      BY <1>1, <3>1, SaidInPart
  <2> HIDE DEF a, b
  <2> QED
    BY <1>3, <1>4, <2>1, SaidLast
<1> QED
  BY <1>2, <1>5, <1>6

-----------------------------------------------------------------------------
(***************************************************************************)
(* The last message of the user in what the agent sent.                    *)
(***************************************************************************)
LEMMA LastUserPlace ==
    ASSUME NEW roles \in Seq(Roles), LastUser(roles) > 0
    PROVE  /\ LastUser(roles) \in 1..Len(roles)
           /\ roles[LastUser(roles)] = "user"
           /\ \A j \in (LastUser(roles) + 1)..Len(roles) : roles[j] # "user"
<1> DEFINE D == {i \in 1..Len(roles) : \E j \in i..Len(roles) : roles[j] = "user"}
           k == Cardinality(D)
<1>1. Len(roles) \in Nat /\ D \in SUBSET (1..Len(roles)) /\ k = LastUser(roles)
  BY DEF LastUser
<1>2. \A i \in D : \A j \in 1..i : j \in D
  OBVIOUS
<1>3. k \in 0..Len(roles) /\ D = 1..k
  <2> HIDE DEF D
  <2> QED
    BY <1>1, <1>2, FirstPlaces
<1> HIDE DEF k
<1>4. k \in 1..Len(roles)
  BY <1>1, <1>3
<1>5. ASSUME NEW j \in (k + 1)..Len(roles) PROVE roles[j] # "user"
  <2>1. j \notin D /\ j \in 1..Len(roles) /\ j \in j..Len(roles)
    BY <1>1, <1>3, <1>4
  <2> QED
    BY <2>1
<1>6. roles[k] = "user"
  <2>1. k \in D
    BY <1>3, <1>4
  <2>2. PICK j \in k..Len(roles) : roles[j] = "user"
    BY <2>1
  <2>3. j = k
    BY <1>1, <1>4, <1>5, <2>2
  <2> QED
    BY <2>2, <2>3
<1> QED
  BY <1>1, <1>4, <1>5, <1>6

\* The message decompose takes for the agent's system prompt is one.
LEMMA FirstSystemPlace ==
    ASSUME NEW roles \in Seq(Roles)
    PROVE  /\ FirstSystem(roles) \in 0..Len(roles)
           /\ FirstSystem(roles) > 0 => roles[FirstSystem(roles)] = "system"
<1> DEFINE B == {i \in 1..Len(roles) : \A j \in 1..i : roles[j] # "system"}
           k == Cardinality(B)
<1>1. Len(roles) \in Nat /\ B \in SUBSET (1..Len(roles))
  OBVIOUS
<1>2. \A i \in B : \A j \in 1..i : j \in B
  OBVIOUS
<1>3. k \in 0..Len(roles) /\ B = 1..k
  <2> HIDE DEF B
  <2> QED
    BY <1>1, <1>2, FirstPlaces
<1>4. CASE \E i \in 1..Len(roles) : roles[i] = "system"
  <2>1. FirstSystem(roles) = 1 + k
    BY <1>4, Zenon DEF FirstSystem
  <2> HIDE DEF k
  <2>2. k # Len(roles)
    <3> SUFFICES ASSUME k = Len(roles) PROVE FALSE
      OBVIOUS
    <3>1. PICK i \in 1..Len(roles) : roles[i] = "system"
      BY <1>4
    <3>2. i \in B
      BY <1>3, <3>1
    <3> QED
      BY <3>1, <3>2
  <2>3. k + 1 \in 1..Len(roles) /\ k + 1 \notin B
    <3> HIDE DEF B
    <3> QED
      BY <1>1, <1>3, <2>2
  <2>4. PICK j \in 1..(k + 1) : roles[j] = "system"
    BY <2>3
  <2>5. j \notin B
    BY <1>1, <2>3, <2>4
  <2>6. j = k + 1
    BY <1>3, <2>4, <2>5
  <2>7. FirstSystem(roles) = k + 1 /\ k + 1 > 0
    BY <1>3, <2>1
  <2> QED
    BY <2>3, <2>4, <2>6, <2>7
<1>5. CASE ~ \E i \in 1..Len(roles) : roles[i] = "system"
  BY <1>1, <1>5 DEF FirstSystem
<1> QED
  BY <1>4, <1>5

LEMMA NumberedSaid ==
    ASSUME NEW roles \in Seq(Roles), LastUser(roles) > 0
    PROVE  LastSaid(Numbered(roles), Inbound("user", LastUser(roles)))
<1> DEFINE k == LastUser(roles)
<1>1. /\ k \in 1..Len(roles) /\ roles[k] = "user"
      /\ \A j \in (k + 1)..Len(roles) : roles[j] # "user"
  BY LastUserPlace
<1> HIDE DEF k
<1>2. /\ Len(Numbered(roles)) = Len(roles) /\ Len(roles) \in Nat
      /\ \A i \in 1..Len(roles) : Numbered(roles)[i] = Inbound(roles[i], i)
  BY NumberedType DEF Numbered
<1>3. Numbered(roles)[k] = Inbound("user", k)
  BY <1>1, <1>2
<1>4. ASSUME NEW j \in (k + 1)..Len(roles) PROVE ~IsUser(Numbered(roles), j)
  <2>1. j \in 1..Len(roles) /\ roles[j] # "user"
    BY <1>1, <1>2
  <2>2. Numbered(roles)[j] = Inbound(roles[j], j)
    BY <1>2, <2>1
  <2> QED
    BY <2>1, <2>2 DEF IsUser, Inbound
<1> QED
  BY <1>1, <1>2, <1>3, <1>4 DEF LastSaid, k

\* The question, when it is not the last message, is in the history.
LEMMA HistorySaid ==
    ASSUME NEW roles \in Seq(Roles), LastUser(roles) > 0, ~EndsWithUser(roles)
    PROVE  LastSaid(History(roles), Inbound("user", LastUser(roles)))
<1> DEFINE q == Inbound("user", LastUser(roles))
           all == Numbered(roles)
           first == FirstSystem(roles)
<1>1. all \in Seq(Message) /\ Len(all) = Len(roles) /\ LastSaid(all, q)
  BY NumberedType, NumberedSaid
<1>2. History(roles) = WithoutPlace(all, first)
  BY Zenon DEF History
<1>3. first \in 0..Len(roles) /\ (first > 0 => roles[first] = "system")
  BY FirstSystemPlace
<1>4. q.role = "user"
  BY DEF Inbound
<1>5. first > 0 => all[first].role # "user"
  BY <1>3 DEF Numbered, Inbound
<1> HIDE DEF all, first, q
<1>6. CASE first = 0
  BY <1>1, <1>2, <1>6, Zenon DEF WithoutPlace, q
<1>7. CASE first # 0
  <2>1. first \in 1..Len(all) /\ all[first].role # "user"
    BY <1>1, <1>3, <1>5, <1>7
  <2>2. LastSaid(WithoutPlace(all, first), q)
    BY <1>1, <1>4, <2>1, SaidWithout
  <2> QED
    BY <1>2, <2>2 DEF q
<1> QED
  BY <1>6, <1>7

LEMMA ComposedSaid ==
    ASSUME TypeOK, LastUser(Lifted(request)) > 0
    PROVE  LastSaid(Composed, Inbound("user", LastUser(Lifted(request))))
<1> DEFINE roles == Lifted(request)
           q == Inbound("user", LastUser(roles))
           head == <<Prompt>> \o (IF offered > 0 THEN <<Context>> ELSE <<>>)
           hist == LastTurns(History(roles), turns)
           quest == Question(roles)
<1>1. roles \in Seq(Roles)
  BY LiftedType
<1>2. Composed = head \o hist \o quest
  BY Zenon DEF Composed
<1>3. head \in Seq(Message)
  <2>1. Prompt \in Message /\ Context \in Message
    BY DEF Prompt, Context, Message, Roles, Origins
  <2> QED
    BY <2>1
<1> HIDE DEF roles, head
<1>4. History(roles) \in Seq(Message) /\ hist \in Seq(Message)
  BY <1>1, HistoryType, LastTurnsLength
<1>5. turns \in Nat \ {0}
  BY DEF TypeOK
<1>6. CASE EndsWithUser(roles)
  <2>1. Len(roles) \in Nat /\ Len(roles) > 0 /\ roles[Len(roles)] = "user"
    BY <1>1, <1>6 DEF EndsWithUser
  <2>2. LastUser(roles) = Len(roles)
    <3>1. LastUser(roles) \in 1..Len(roles)
          /\ \A j \in (LastUser(roles) + 1)..Len(roles) : roles[j] # "user"
      BY <1>1, LastUserPlace DEF roles
    <3> QED
      BY <2>1, <3>1
  <2>3. quest = <<q>>
    BY <1>6, <2>2 DEF Question
  <2>4. q \in Message
    BY <2>1, <2>2 DEF Inbound, Message, Roles, Origins
  <2> HIDE DEF q, hist, quest
  <2>5. LastSaid(quest, q) /\ quest \in Seq(Message)
    BY <2>3, <2>4 DEF LastSaid
  <2>6. head \o hist \in Seq(Message)
    BY <1>3, <1>4, ConcatProperties
  <2> QED
    BY <1>2, <2>5, <2>6, SaidLast DEF q, roles
<1>7. CASE ~EndsWithUser(roles)
  <2>1. LastSaid(History(roles), q)
    BY <1>1, <1>7, HistorySaid DEF roles
  <2> HIDE DEF q
  <2>2. LastSaid(hist, q)
    BY <1>4, <1>5, <2>1, SaidKept
  <2> HIDE DEF hist
  <2>3. LastSaid(head \o hist, q) /\ head \o hist \in Seq(Message)
    BY <1>3, <1>4, <2>2, SaidLast, ConcatProperties
  <2>4. quest = <<>>
    BY <1>7 DEF Question
  <2>5. head \o hist \o quest = head \o hist
    BY <2>3, <2>4, ConcatEmptySeq
  <2> QED
    BY <1>2, <2>3, <2>5 DEF q, roles
<1> QED
  BY <1>6, <1>7

\* Cutting the history to one turn leaves it, before, in or after the history.
LEMMA ShortenedSaid ==
    ASSUME TypeOK, NEW q, LastSaid(messages, q)
    PROVE  LastSaid(Shortened, q)
<1> DEFINE from == HistoryFrom
           last == Len(messages)
           front == SubSeq(messages, 1, from - 1)
           middle == SubSeq(messages, from, last - 1)
           cut == LastTurns(middle, 1)
           end == <<messages[last]>>
<1>1. from \in {2, 3} /\ messages \in Seq(Message) /\ last \in Nat
  BY DEF HistoryFrom, TypeOK
<1>2. CASE ~(last > from)
  BY <1>2 DEF Shortened
<1>3. CASE last > from
  <2>1. Shortened = front \o cut \o end
    BY <1>3 DEF Shortened
  <2>2. front \in Seq(Message) /\ middle \in Seq(Message)
        /\ Len(middle) = last - from
        /\ \A i \in 1..(last - from) : middle[i] = messages[from + i - 1]
    <3>1. /\ 1 \in 1..(Len(messages) + 1) /\ from - 1 \in (1 - 1)..Len(messages)
          /\ from \in 1..(Len(messages) + 1) /\ last - 1 \in (from - 1)..Len(messages)
          /\ (last - 1) - from + 1 = last - from
      BY <1>1, <1>3
    <3>2. front \in Seq(Message)
      BY <1>1, <3>1, PartOf
    <3>3. /\ middle \in Seq(Message) /\ Len(middle) = (last - 1) - from + 1
          /\ \A i \in 1..((last - 1) - from + 1) : middle[i] = messages[from + i - 1]
      BY <1>1, <3>1, PartOf
    <3> HIDE DEF front, middle, from, last
    <3> QED
      BY <3>1, <3>2, <3>3
  <2>3. PICK k \in 1..last :
           messages[k] = q /\ \A j \in (k + 1)..last : ~IsUser(messages, j)
    BY DEF LastSaid
  <2>4. end \in Seq(Message) /\ Len(end) = 1 /\ end[1] = messages[last]
    BY <1>1, <1>3
  <2>5. cut \in Seq(Message)
    <3> HIDE DEF middle
    <3> QED
      BY <2>2, LastTurnsLength
  <2>6. front \o cut \in Seq(Message)
    <3> HIDE DEF front, cut
    <3> QED
      BY <2>2, <2>5, ConcatProperties
  <2>7. CASE k = last
    <3>1. LastSaid(end, q)
      BY <2>3, <2>4, <2>7 DEF LastSaid
    <3> HIDE DEF front, cut, end
    <3> QED
      BY <2>1, <2>4, <2>6, <3>1, SaidLast
  <2>8. CASE k < last
    <3>1. \A j \in 1..Len(end) : ~IsUser(end, j)
      BY <1>1, <1>3, <2>3, <2>4, <2>8 DEF IsUser
    <3>2. LastSaid(front \o cut, q)
      <4>1. CASE k >= from
        <5>1. LastSaid(middle, q)
          <6>1. /\ from \in 1..(Len(messages) + 1) /\ last - 1 \in (from - 1)..Len(messages)
                /\ k \in from..(last - 1)
            BY <1>1, <1>3, <2>8, <4>1
          <6> HIDE DEF from
          <6> QED
            BY <1>1, <2>3, <6>1, SaidInPart
        <5> HIDE DEF middle, front
        <5>2. LastSaid(cut, q)
          BY <2>2, <5>1, SaidKept
        <5> HIDE DEF cut
        <5> QED
          BY <2>2, <2>5, <5>2, SaidLast
      <4>2. CASE k < from
        <5>1. LastSaid(front, q)
          <6>1. /\ 1 \in 1..(Len(messages) + 1) /\ from - 1 \in (1 - 1)..Len(messages)
                /\ k \in 1..(from - 1)
            BY <1>1, <1>3, <2>3, <4>2
          <6> HIDE DEF from
          <6> QED
            BY <1>1, <2>3, <6>1, SaidInPart
        <5>2. \A j \in 1..Len(cut) : ~IsUser(cut, j)
          <6> HIDE DEF middle, front
          <6>1. PICK m \in 1..(Len(middle) + 1) :
                    /\ Len(cut) = Len(middle) - m + 1
                    /\ \A i \in 1..(Len(middle) - m + 1) : cut[i] = middle[m + i - 1]
            <7>1. middle \in Seq(Message) /\ 1 \in Nat
              BY <2>2
            <7> HIDE DEF last, from
            <7> QED
              BY <7>1, LastTurnsPart
          <6> HIDE DEF cut
          <6> SUFFICES ASSUME NEW j \in 1..Len(cut) PROVE ~IsUser(cut, j)
            OBVIOUS
          <6>2. /\ j \in 1..(Len(middle) - m + 1) /\ m + j - 1 \in 1..(last - from)
                /\ from + (m + j - 1) - 1 \in (k + 1)..last
            BY <1>1, <1>3, <2>2, <2>3, <4>2, <6>1
          <6>3. cut[j] = messages[from + (m + j - 1) - 1]
            BY <2>2, <6>1, <6>2
          <6> QED
            BY <2>3, <6>2, <6>3 DEF IsUser
        <5> HIDE DEF front, cut
        <5> QED
          BY <2>2, <2>5, <5>1, <5>2, SaidBefore
      <4> QED
        BY <1>1, <2>3, <4>1, <4>2
    <3> HIDE DEF front, cut, end
    <3> QED
      BY <2>1, <2>4, <2>6, <3>1, <3>2, SaidBefore
  <2> QED
    BY <2>3, <2>7, <2>8, <1>1
<1> QED
  BY <1>2, <1>3

-----------------------------------------------------------------------------
(***************************************************************************)
(* The turns of the user before the last message.                          *)
(***************************************************************************)
UsersBefore(m) == {k \in 1..(Len(m) - 1) : IsUser(m, k)}
OneTurn(m) == Cardinality(UsersBefore(m)) <= 1

LEMMA UsersBeforeFinite ==
    ASSUME NEW S, NEW m \in Seq(S)
    PROVE  /\ UsersBefore(m) \in SUBSET (1..(Len(m) - 1)) /\ IsFiniteSet(UsersBefore(m))
           /\ Cardinality(UsersBefore(m)) \in Nat /\ UsersBefore(m) \in SUBSET Int
<1>1. Len(m) - 1 \in Int
  OBVIOUS
<1>2. IsFiniteSet(1..(Len(m) - 1))
  BY <1>1, FS_Interval
<1>3. UsersBefore(m) \in SUBSET (1..(Len(m) - 1))
  BY DEF UsersBefore
<1> QED
  BY <1>2, <1>3, FS_Subset, FS_CardinalityType

\* Taking out the second message, which is not the user's, adds none.
LEMMA OneTurnWithout ==
    ASSUME NEW m \in Seq(Message), Len(m) > 1, OneTurn(m), m[1].role # "user"
    PROVE  OneTurn(WithoutPlace(m, 2)) /\ WithoutPlace(m, 2)[1] = m[1]
<1> DEFINE a == SubSeq(m, 1, 2 - 1)
           b == SubSeq(m, 2 + 1, Len(m))
<1>1. Len(m) \in Nat
  OBVIOUS
<1>2. a \in Seq(Message) /\ Len(a) = 1 /\ a[1] = m[1]
  BY <1>1, PartOf
<1>3. b \in Seq(Message) /\ Len(b) = Len(m) - 2 /\ \A i \in 1..(Len(m) - 2) : b[i] = m[i + 2]
  <2>1. /\ b \in Seq(Message) /\ Len(b) = Len(m) - 3 + 1
        /\ \A i \in 1..(Len(m) - 3 + 1) : b[i] = m[3 + i - 1]
    <3>1. 3 \in 1..(Len(m) + 1) /\ Len(m) \in (3 - 1)..Len(m)
      BY <1>1
    <3>2. b = SubSeq(m, 3, Len(m))
      OBVIOUS
    <3> HIDE DEF b
    <3>3. /\ SubSeq(m, 3, Len(m)) \in Seq(Message)
          /\ Len(SubSeq(m, 3, Len(m))) = Len(m) - 3 + 1
          /\ \A i \in 1..(Len(m) - 3 + 1) : SubSeq(m, 3, Len(m))[i] = m[3 + i - 1]
      BY <3>1, PartOf
    <3> QED
      BY <3>2, <3>3
  <2>2. Len(m) - 3 + 1 = Len(m) - 2 /\ \A i \in 1..(Len(m) - 2) : 3 + i - 1 = i + 2
    BY <1>1
  <2> HIDE DEF b
  <2> QED
    BY <2>1, <2>2
<1>4. WithoutPlace(m, 2) = a \o b
  BY DEF WithoutPlace
<1> HIDE DEF a, b
<1> DEFINE w == a \o b
<1>5. /\ w \in Seq(Message) /\ Len(w) = Len(m) - 1
      /\ w[1] = m[1] /\ \A i \in 2..(Len(m) - 1) : w[i] = m[i + 1]
  <2>1. /\ w \in Seq(Message) /\ Len(w) = Len(a) + Len(b)
        /\ \A i \in 1..Len(a) + Len(b) : w[i] = IF i <= Len(a) THEN a[i] ELSE b[i - Len(a)]
    BY <1>2, <1>3, ConcatProperties
  <2> HIDE DEF w
  <2>2. Len(w) = Len(m) - 1 /\ w[1] = a[1]
    BY <1>1, <1>2, <1>3, <2>1
  <2>3. ASSUME NEW i \in 2..(Len(m) - 1) PROVE w[i] = m[i + 1]
    <3>1. i \in 1..Len(a) + Len(b) /\ ~(i <= Len(a)) /\ i - 1 \in 1..(Len(m) - 2)
          /\ (i - 1) + 2 = i + 1
      BY <1>1, <1>2, <1>3
    <3> QED
      BY <1>2, <1>3, <2>1, <3>1
  <2> QED
    BY <1>2, <2>1, <2>2, <2>3
<1> HIDE DEF w
<1>6. ASSUME NEW k \in UsersBefore(w) PROVE k + 1 \in UsersBefore(m)
  <2>1. k \in 1..(Len(w) - 1) /\ w[k].role = "user"
    BY DEF UsersBefore, IsUser
  <2>2. k # 1
    BY <1>5, <2>1
  <2>3. k \in 2..(Len(m) - 1) /\ k + 1 \in 1..(Len(m) - 1)
    BY <1>1, <1>5, <2>1, <2>2
  <2> QED
    BY <1>5, <2>1, <2>3 DEF UsersBefore, IsUser
<1>7. Cardinality(UsersBefore(w)) <= Cardinality(UsersBefore(m))
  <2>1. UsersBefore(w) \in SUBSET Int /\ UsersBefore(m) \in SUBSET Int
        /\ IsFiniteSet(UsersBefore(m)) /\ 1 \in Int
    BY <1>5, UsersBeforeFinite
  <2> QED
    BY <1>6, <2>1, MovedPlaces
<1>8. Cardinality(UsersBefore(w)) \in Nat /\ Cardinality(UsersBefore(m)) \in Nat
  BY <1>5, UsersBeforeFinite
<1>9. OneTurn(w)
  BY <1>7, <1>8 DEF OneTurn
<1> QED
  BY <1>4, <1>5, <1>9 DEF w

\* Cutting the history leaves one turn before the last message at most.
LEMMA ShortenedUsers ==
    ASSUME TypeOK, Len(messages) > 0, messages[1].role # "user",
           slot => Len(messages) > 1 /\ messages[2].role # "user"
    PROVE  /\ OneTurn(Shortened)
           /\ Len(Shortened) > 0 /\ Shortened[1] = messages[1]
<1> DEFINE from == HistoryFrom
           last == Len(messages)
           front == SubSeq(messages, 1, from - 1)
           middle == SubSeq(messages, from, last - 1)
           cut == LastTurns(middle, 1)
           end == <<messages[last]>>
<1>1. from \in {2, 3} /\ (from = 3 => slot) /\ messages \in Seq(Message) /\ last \in Nat
  BY DEF HistoryFrom, TypeOK
<1>2. \A k \in 1..(from - 1) : k <= last => messages[k].role # "user"
  <2>1. \A k \in 1..(from - 1) : k = 1 \/ (k = 2 /\ from = 3)
    BY <1>1
  <2> QED
    BY <1>1, <2>1
<1>3. CASE ~(last > from)
  <2>1. Shortened = messages
    BY <1>3 DEF Shortened
  <2>2. UsersBefore(messages) = {}
    <3> SUFFICES ASSUME NEW k \in 1..(last - 1), messages[k].role = "user" PROVE FALSE
      BY DEF UsersBefore, IsUser
    <3>1. k \in 1..(from - 1) /\ k <= last
      BY <1>1, <1>3
    <3> QED
      BY <1>2, <3>1
  <2> QED
    BY <2>1, <2>2, FS_EmptySet DEF OneTurn
<1>4. CASE last > from
  <2>1. Shortened = front \o cut \o end
    BY <1>4 DEF Shortened
  <2>2. /\ front \in Seq(Message) /\ Len(front) = from - 1
        /\ \A i \in 1..(from - 1) : front[i] = messages[i]
    <3>1. 1 \in 1..(Len(messages) + 1) /\ from - 1 \in (1 - 1)..Len(messages)
      BY <1>1, <1>4
    <3>2. /\ front \in Seq(Message) /\ Len(front) = (from - 1) - 1 + 1
          /\ \A i \in 1..((from - 1) - 1 + 1) : front[i] = messages[1 + i - 1]
      <4> HIDE DEF from
      <4> QED
        BY <1>1, <3>1, PartOf
    <3>3. (from - 1) - 1 + 1 = from - 1 /\ \A i \in 1..(from - 1) : 1 + i - 1 = i
      BY <1>1
    <3> HIDE DEF front, from
    <3> QED
      BY <3>2, <3>3
  <2>3. middle \in Seq(Message)
    <3>1. from \in 1..(Len(messages) + 1) /\ last - 1 \in (from - 1)..Len(messages)
      BY <1>1, <1>4
    <3> QED
      BY <1>1, <3>1, PartOf
  <2> HIDE DEF middle
  <2>4. /\ cut \in Seq(Message) /\ Len(cut) \in Nat
        /\ Cardinality(UsersIn(cut)) <= 1
        /\ UsersIn(cut) \in SUBSET Int /\ IsFiniteSet(UsersIn(cut))
        /\ Cardinality(UsersIn(cut)) \in Nat
    <3>1. cut \in Seq(Message) /\ Len(cut) \in Nat
      BY <2>3, LastTurnsLength
    <3>2. Cardinality(UsersIn(cut)) <= 1
      BY <2>3, LastTurnsUsers
    <3> HIDE DEF cut
    <3>3. /\ UsersIn(cut) \in SUBSET (1..Len(cut)) /\ IsFiniteSet(UsersIn(cut))
          /\ Cardinality(UsersIn(cut)) \in Nat
      BY <3>1, PlacesFinite
    <3> QED
      BY <3>1, <3>2, <3>3
  <2>5. end \in Seq(Message) /\ Len(end) = 1
    BY <1>1, <1>4
  <2> HIDE DEF front, cut, end
  <2> DEFINE fc == front \o cut
  <2>6. /\ fc \in Seq(Message) /\ Len(fc) = from - 1 + Len(cut)
        /\ \A i \in 1..(from - 1 + Len(cut)) :
              fc[i] = IF i <= from - 1 THEN front[i] ELSE cut[i - (from - 1)]
    <3>1. /\ fc \in Seq(Message) /\ Len(fc) = Len(front) + Len(cut)
          /\ \A i \in 1..Len(front) + Len(cut) :
                fc[i] = IF i <= Len(front) THEN front[i] ELSE cut[i - Len(front)]
      BY <2>2, <2>4, ConcatProperties
    <3> HIDE DEF fc, from
    <3> QED
      BY <2>2, <3>1
  <2> HIDE DEF fc
  <2> DEFINE all == fc \o end
  <2>7. /\ all \in Seq(Message) /\ Len(all) = from + Len(cut)
        /\ \A i \in 1..(from - 1 + Len(cut)) : all[i] = fc[i]
    <3>1. /\ all \in Seq(Message) /\ Len(all) = Len(fc) + Len(end)
          /\ \A i \in 1..Len(fc) + Len(end) :
                all[i] = IF i <= Len(fc) THEN fc[i] ELSE end[i - Len(fc)]
      BY <2>5, <2>6, ConcatProperties
    <3> HIDE DEF all, from
    <3>2. Len(all) = from + Len(cut)
      BY <1>1, <2>4, <2>5, <2>6, <3>1
    <3>3. ASSUME NEW i \in 1..(from - 1 + Len(cut)) PROVE all[i] = fc[i]
      <4>1. i \in 1..Len(fc) + Len(end) /\ i <= Len(fc)
        BY <1>1, <2>4, <2>5, <2>6
      <4> QED
        BY <3>1, <4>1
    <3> QED
      BY <3>1, <3>2, <3>3
  <2> HIDE DEF all
  <2>8. ASSUME NEW k \in UsersBefore(all) PROVE k + (1 - from) \in UsersIn(cut)
    <3>1. k \in 1..(from - 1 + Len(cut)) /\ all[k].role = "user"
      BY <1>1, <2>4, <2>7 DEF UsersBefore, IsUser
    <3>2. ~(k <= from - 1)
      <4> SUFFICES ASSUME k <= from - 1 PROVE FALSE
        OBVIOUS
      <4>1. k \in 1..(from - 1) /\ k <= last
        BY <1>1, <1>4, <3>1
      <4>2. all[k] = messages[k]
        BY <2>2, <2>6, <2>7, <3>1, <4>1
      <4> QED
        BY <1>2, <3>1, <4>1, <4>2
    <3>3. all[k] = cut[k - (from - 1)] /\ k - (from - 1) \in 1..Len(cut)
          /\ k + (1 - from) = k - (from - 1)
      <4>1. all[k] = cut[k - (from - 1)]
        BY <2>6, <2>7, <3>1, <3>2
      <4> HIDE DEF from
      <4> QED
        BY <1>1, <2>4, <3>1, <3>2, <4>1
    <3> QED
      BY <3>1, <3>3 DEF UsersIn, IsUser
  <2>9. OneTurn(all)
    <3>1. UsersBefore(all) \in SUBSET Int /\ Cardinality(UsersBefore(all)) \in Nat
      BY <2>7, UsersBeforeFinite
    <3>2. 1 - from \in Int
      BY <1>1
    <3> HIDE DEF from
    <3>3. Cardinality(UsersBefore(all)) <= Cardinality(UsersIn(cut))
      BY <2>4, <2>8, <3>1, <3>2, MovedPlaces
    <3> QED
      BY <2>4, <3>1, <3>3 DEF OneTurn
  <2>10. Len(all) > 0 /\ all[1] = messages[1]
    <3>1. 1 \in 1..(from - 1) /\ 1 \in 1..(from - 1 + Len(cut)) /\ from + Len(cut) > 0
      BY <1>1, <2>4
    <3> QED
      BY <2>2, <2>6, <2>7, <3>1
  <2> QED
    BY <2>1, <2>9, <2>10 DEF all, fc
<1> QED
  BY <1>3, <1>4

-----------------------------------------------------------------------------
(***************************************************************************)
(* What stands where while a payload is trimmed: the prompt first, then    *)
(* the context as long as any of it is left; a message in the context's    *)
(* place is a system message.                                              *)
(***************************************************************************)
Afterwards == pc \notin {"idle", "compose"}
Within == pc \in {"history", "tools", "context"}
Placed ==
    Afterwards =>
        /\ Len(messages) > 0 /\ messages[1] = Prompt
        /\ block > 0 => Len(messages) > 1 /\ messages[2] = Context
        /\ Within => IF slot THEN Len(messages) > 1 /\ messages[2].role = "system"
                     ELSE block = 0

\* How far the trimming has come at each of its steps, and how it ended.
Trimmed ==
    /\ pc \in {"tools", "context"} => OneTurn(messages)
    /\ pc = "context" => tools = NoTools
    /\ pc \in {"select", "strip", "sent"} =>
          \/ Fits(messages, block, tools)
          \/ block = 0 /\ ~HasTools(tools) /\ OneTurn(messages)

Sought == Inbound("user", LastUser(Lifted(request)))
Asked == Afterwards /\ LastUser(Lifted(request)) > 0 => LastSaid(messages, Sought)

TrimInv == TypeOK /\ SlotStands /\ Placed /\ Trimmed /\ Asked

LEMMA ComposedFirst == ASSUME TypeOK PROVE Len(Composed) > 0 /\ Composed[1] = Prompt
<1> DEFINE ctx == IF offered > 0 THEN <<Context>> ELSE <<>>
           hist == LastTurns(History(Lifted(request)), turns)
           quest == Question(Lifted(request))
<1>1. hist \in Seq(Message)
  BY LiftedType, HistoryType, LastTurnsLength
<1>2. quest \in Seq(Message)
  <2>1. \A n \in Nat : Inbound("user", n) \in Message
    BY DEF Inbound, Message, Roles, Origins
  <2>2. Len(Lifted(request)) \in Nat
    BY LiftedType
  <2> QED
    BY <2>1, <2>2 DEF Question
<1> DEFINE head == <<Prompt>> \o ctx
<1>3. head \in Seq(Message) /\ Len(head) > 0 /\ head[1] = Prompt
  <2>1. Prompt \in Message /\ Context \in Message
    BY DEF Prompt, Context, Message, Roles, Origins
  <2> QED
    BY <2>1
<1>4. Composed = head \o hist \o quest
  BY Zenon DEF Composed
<1> HIDE DEF head, hist, quest
<1> DEFINE front == head \o hist
<1>5. front \in Seq(Message) /\ Len(front) > 0 /\ front[1] = Prompt
  <2>1. /\ front \in Seq(Message) /\ Len(front) = Len(head) + Len(hist)
        /\ \A i \in 1..Len(head) + Len(hist) :
              front[i] = IF i <= Len(head) THEN head[i] ELSE hist[i - Len(head)]
    BY <1>1, <1>3, ConcatProperties
  <2>2. Len(head) \in Nat /\ Len(hist) \in Nat
    BY <1>1, <1>3
  <2> HIDE DEF front
  <2> QED
    BY <1>3, <2>1, <2>2
<1> HIDE DEF front
<1> DEFINE all == front \o quest
<1>6. /\ all \in Seq(Message) /\ Len(all) = Len(front) + Len(quest)
      /\ \A i \in 1..Len(front) + Len(quest) :
            all[i] = IF i <= Len(front) THEN front[i] ELSE quest[i - Len(front)]
  BY <1>2, <1>5, ConcatProperties
<1>7. Len(front) \in Nat /\ Len(quest) \in Nat
  BY <1>2, <1>5
<1> HIDE DEF all
<1>8. Len(all) > 0 /\ all[1] = Prompt
  BY <1>5, <1>6, <1>7
<1> QED
  BY <1>4, <1>8 DEF all, front

\* Fewer tools weigh no more.
LEMMA StrippedFits ==
    ASSUME TypeOK, NEW t \in {tools, [tools EXCEPT !.recall = FALSE], NoTools}
    PROVE  /\ Fits(messages, block, tools) => Fits(messages, block, t)
           /\ ~HasTools(tools) => ~HasTools(t)
<1>1. /\ tools.recall \in BOOLEAN /\ tools.count \in Nat /\ tools.size \in Nat
      /\ tools \in ToolList
  BY DEF TypeOK, ToolList
<1>2. CASE t = tools
  BY <1>2
<1>3. CASE t # tools
  <2>1. t.recall = FALSE /\ t.count \in Nat /\ t.size \in Nat /\ t.count <= tools.count
        /\ (t.count = 0 \/ (t.count = tools.count /\ t.size = tools.size))
    BY <1>1, <1>3 DEF NoTools, ToolList
  <2>2. ToolTokens(t) \in Nat /\ ToolTokens(tools) \in Nat /\ ToolTokens(t) <= ToolTokens(tools)
    <3> DEFINE c == tools.count
               z == tools.size
    <3>1. c \in Nat /\ z \in Nat
      BY <1>1
    <3> HIDE DEF c, z
    <3>2. c * z \in Nat /\ (c + 1) * z = c * z + z /\ c + 0 = c
      BY <3>1
    <3>3. ToolTokens(tools) = IF tools.recall THEN (c + 1) * z ELSE c * z
      BY <3>1, <3>2 DEF ToolTokens, c, z
    <3>4. ToolTokens(t) = t.count * t.size
      <4>1. t.count + 0 = t.count
        BY <2>1
      <4>2. ToolTokens(t) = (t.count + 0) * t.size
        BY <2>1 DEF ToolTokens
      <4> QED
        BY <4>1, <4>2
    <3>5. t.count = 0 => t.count * t.size = 0
      BY <2>1
    <3>6. t.count # 0 => t.count * t.size = c * z
      BY <2>1 DEF c, z
    <3> QED
      BY <3>1, <3>2, <3>3, <3>4, <3>5, <3>6
  <2>3. Len(messages) * MessageSize \in Nat /\ block \in Nat /\ Limit \in Nat
    <3>1. Len(messages) \in Nat /\ MessageSize \in Nat
      BY SizesAssumption DEF TypeOK
    <3> QED
      BY <3>1, LimitType DEF TypeOK
  <2>4. Fits(messages, block, tools) => Fits(messages, block, t)
    BY <2>2, <2>3 DEF Fits, Tokens
  <2> QED
    BY <1>1, <2>1, <2>4 DEF HasTools
<1> QED
  BY <1>2, <1>3

LEMMA TrimStep ==
    ASSUME TrimInv, Next
    PROVE  Placed' /\ Trimmed' /\ Asked'
<1> USE DEF TrimInv
<1>p. Prompt.role = "system" /\ Context.role = "system"
  BY DEF Prompt, Context
<1>1. CASE Receive
  BY <1>1 DEF Receive, Placed, Trimmed, Asked, Afterwards
<1>2. CASE Compose
  <2>1. /\ messages' = Composed /\ block' = offered /\ pc' = "budget"
        /\ UNCHANGED <<request, offered>>
    BY <1>2 DEF Compose
  <2>2. Placed'
    BY <2>1, ComposedFirst, ComposedType DEF Placed, Within, TypeOK
  <2>3. LastUser(Lifted(request)) > 0 => LastSaid(Composed, Sought)
    BY ComposedSaid DEF Sought
  <2> QED
    BY <2>1, <2>2, <2>3 DEF Trimmed, Asked, Sought
<1> SUFFICES ASSUME Afterwards, pc' \notin {"idle", "compose"}, UNCHANGED <<request, offered, turns>>,
                    ~Receive, ~Compose
             PROVE  Placed' /\ Trimmed' /\ Asked'
  <2>1. CASE ~(Receive \/ Compose)
    <3>1. UNCHANGED <<request, offered, turns>> /\ pc' \notin {"idle", "compose"} /\ Afterwards
      BY <2>1 DEF Next, CheckBudget, TrimHistory, TrimTools, TrimContext, Select, Strip, Return,
         Afterwards
    <3> QED
      BY <3>1, <2>1
  <2> QED
    BY <2>1, <1>1, <1>2
<1>3. /\ Limit' = Limit /\ Sought' = Sought
      /\ LastUser(Lifted(request))' = LastUser(Lifted(request))
  BY DEF Limit, Sought
<1>4. /\ Len(messages) > 0 /\ messages[1] = Prompt /\ messages \in Seq(Message)
      /\ block \in Nat /\ Len(messages) \in Nat
      /\ block > 0 => Len(messages) > 1 /\ messages[2] = Context
      /\ LastUser(Lifted(request)) > 0 => LastSaid(messages, Sought)
  BY DEF Placed, Asked, TypeOK
<1>5. CASE CheckBudget
  <2>1. UNCHANGED <<messages, block, tools>>
    BY <1>5 DEF CheckBudget
  <2>2. Placed' /\ Asked'
    <3>1. Asked'
      BY <1>3, <1>4, <2>1 DEF Asked
    <3>2. CASE Fits(messages, block, tools)
      <4>1. pc' \in {"select", "strip"}
        BY <1>5, <3>2 DEF CheckBudget, Return
      <4> QED
        BY <1>4, <2>1, <3>1, <4>1 DEF Placed, Within
    <3>3. CASE ~Fits(messages, block, tools)
      <4>1. slot' <=> Len(messages) > 1 /\ messages[2].role = "system"
        BY <1>5, <3>3 DEF CheckBudget
      <4>2. ~slot' => block = 0
        BY <1>4, <1>p, <4>1
      <4> QED
        BY <1>4, <2>1, <3>1, <4>1, <4>2 DEF Placed, Within
    <3> QED
      BY <3>2, <3>3
  <2>3. Trimmed'
    BY <1>3, <1>5, <2>1 DEF CheckBudget, Return, Trimmed, Fits
  <2> QED
    BY <2>2, <2>3
<1>6. CASE TrimHistory
  <2>1. /\ messages' = Shortened /\ UNCHANGED <<block, tools, slot>>
        /\ IF slot THEN Len(messages) > 1 /\ messages[2].role = "system" ELSE block = 0
    BY <1>6 DEF TrimHistory, Placed, Within
  <2>2. /\ OneTurn(Shortened) /\ Len(Shortened) > 0 /\ Shortened[1] = Prompt
    BY <1>4, <1>p, <2>1, ShortenedUsers
  <2>3. slot => Len(Shortened) > 1 /\ Shortened[2] = messages[2]
    BY <2>1, ShortenedFacts
  <2>4. Placed'
    BY <1>4, <2>1, <2>2, <2>3 DEF Placed, Within
  <2>5. Asked'
    BY <1>3, <1>4, <2>1, ShortenedSaid DEF Asked
  <2>6. Trimmed'
    BY <1>3, <1>6, <2>1, <2>2 DEF TrimHistory, Return, Trimmed, Fits
  <2> QED
    BY <2>4, <2>5, <2>6
<1>7. CASE TrimTools
  <2>1. UNCHANGED <<messages, block, slot>> /\ OneTurn(messages)
        /\ IF slot THEN Len(messages) > 1 /\ messages[2].role = "system" ELSE block = 0
    BY <1>7 DEF TrimTools, Trimmed, Placed, Within
  <2>2. Placed' /\ Asked'
    BY <1>3, <1>4, <2>1 DEF Placed, Asked, Within
  <2>3. Trimmed'
    BY <1>3, <1>7, <2>1 DEF TrimTools, Return, Trimmed, Fits
  <2> QED
    BY <2>2, <2>3
<1>8. CASE TrimContext
  <2>1. /\ UNCHANGED <<tools, slot>> /\ OneTurn(messages) /\ tools = NoTools /\ pc = "context"
        /\ IF slot THEN Len(messages) > 1 /\ messages[2].role = "system" ELSE block = 0
    BY <1>8 DEF TrimContext, Trimmed, Placed, Within
  <2>2. ~HasTools(tools)
    BY <2>1 DEF HasTools, NoTools
  <2>3. CASE ~slot \/ Fits(messages, block, tools)
    <3>1. UNCHANGED <<messages, block>> /\ pc' \in {"select", "strip"}
      BY <1>8, <2>3 DEF TrimContext, Return
    <3>2. Placed' /\ Asked'
      BY <1>3, <1>4, <2>1, <3>1 DEF Placed, Asked, Within
    <3>3. Trimmed'
      BY <1>3, <2>1, <2>2, <2>3, <3>1 DEF Trimmed, Fits
    <3> QED
      BY <3>2, <3>3
  <2>4. CASE slot /\ ~Fits(messages, block, tools) /\ InSlot \div 2 = 0
    <3>1. /\ messages' = WithoutPlace(messages, 2) /\ pc' \in {"select", "strip"}
          /\ block' = IF messages[2].origin = "context" THEN 0 ELSE block
      BY <1>8, <2>4 DEF TrimContext, Return
    <3>2. block' = 0
      BY <1>4, <3>1 DEF Context
    <3>3. Len(messages) > 1 /\ messages[2].role # "user" /\ 2 \in 1..Len(messages)
      BY <1>4, <2>1, <2>4
    <3>4. /\ OneTurn(messages') /\ messages'[1] = Prompt
          /\ Len(messages') > 0
      <4>1. messages[1].role # "user"
        BY <1>4, <1>p
      <4>2. OneTurn(WithoutPlace(messages, 2)) /\ WithoutPlace(messages, 2)[1] = messages[1]
        BY <1>4, <2>1, <3>3, <4>1, OneTurnWithout
      <4>3. Len(WithoutPlace(messages, 2)) = Len(messages) - 1
        BY <1>4, <3>3, OneOut
      <4> QED
        BY <1>4, <3>1, <3>3, <4>2, <4>3
    <3>5. LastUser(Lifted(request)) > 0 => LastSaid(messages', Sought)
      <4>1. Sought.role = "user"
        BY DEF Sought, Inbound
      <4> QED
        BY <1>4, <3>1, <3>3, <4>1, SaidWithout
    <3>6. Placed' /\ Asked'
      BY <1>3, <3>1, <3>2, <3>4, <3>5 DEF Placed, Asked, Within
    <3>7. Trimmed'
      BY <2>1, <2>2, <3>1, <3>2, <3>4 DEF Trimmed
    <3> QED
      BY <3>6, <3>7
  <2>5. CASE slot /\ ~Fits(messages, block, tools) /\ InSlot \div 2 # 0
    <3>1. UNCHANGED <<messages, pc>> /\ block' = block \div 2
      BY <1>8, <2>5 DEF TrimContext
    <3>2. messages[2].origin = "context" => block > 0
      BY <1>4, <2>5 DEF InSlot
    <3>3. messages[2].origin = "context"
      BY <2>5 DEF InSlot
    <3>4. messages[2] = Context /\ Len(messages) > 1
      BY <1>4, <3>2, <3>3
    <3>5. Placed' /\ Asked'
      BY <1>3, <1>4, <2>1, <2>5, <3>1, <3>4 DEF Placed, Asked, Within
    <3>6. Trimmed'
      BY <2>1, <3>1 DEF Trimmed
    <3> QED
      BY <3>5, <3>6
  <2> QED
    BY <2>3, <2>4, <2>5
<1>9. CASE Select
  <2>1. UNCHANGED <<messages, block>>
    BY <1>9 DEF Select
  <2>2. Placed' /\ Asked'
    BY <1>3, <1>4, <1>9, <2>1 DEF Select, Placed, Asked, Within
  <2>3. Trimmed'
    BY <1>3, <1>9, <2>1 DEF Select, Trimmed, Fits
  <2> QED
    BY <2>2, <2>3
<1>10. CASE Strip
  <2>1. /\ UNCHANGED <<messages, block>> /\ pc' = "sent" /\ pc = "strip"
        /\ tools' \in {tools, [tools EXCEPT !.recall = FALSE], NoTools}
    BY <1>10 DEF Strip
  <2>2. Placed' /\ Asked'
    BY <1>3, <1>4, <2>1 DEF Placed, Asked, Within
  <2>3. /\ Fits(messages, block, tools) => Fits(messages, block, tools')
        /\ ~HasTools(tools) => ~HasTools(tools')
    BY <2>1, StrippedFits
  <2>4. \/ Fits(messages, block, tools)
        \/ block = 0 /\ ~HasTools(tools) /\ OneTurn(messages)
    BY <2>1 DEF Trimmed
  <2>5. Trimmed'
    BY <1>3, <2>1, <2>3, <2>4 DEF Trimmed, Fits
  <2> QED
    BY <2>2, <2>5
<1> QED
  BY <1>5, <1>6, <1>7, <1>8, <1>9, <1>10 DEF Next

LEMMA TrimInvariance == Spec => []TrimInv
<1>1. Init => TrimInv
  BY TypesInit DEF Init, TrimInv, Placed, Trimmed, Asked, Afterwards
<1>2. TrimInv /\ [Next]_vars => TrimInv'
  <2>1. ASSUME TrimInv, UNCHANGED vars PROVE Placed' /\ Trimmed' /\ Asked'
    <3>1. UNCHANGED <<pc, request, messages, block, tools, slot>>
      BY <2>1 DEF vars
    <3>2. Placed /\ Trimmed /\ Asked
      BY <2>1 DEF TrimInv
    <3>3. Placed'
      BY <3>1, <3>2 DEF Placed, Afterwards, Within
    <3>4. Trimmed'
      BY <3>1, <3>2 DEF Trimmed, Fits, Limit
    <3>5. Asked'
      BY <3>1, <3>2 DEF Asked, Afterwards, Sought
    <3> QED
      BY <3>3, <3>4, <3>5
  <2> QED
    BY <2>1, TypesStep, TrimStep DEF TrimInv
<1> QED
  BY <1>1, <1>2, PTL DEF Spec

\* Whatever is trimmed, in either pass, the last thing the user said is in what
\* is sent, wherever it stands in the request and however many turns are kept.
THEOREM QuestionAlwaysSent == Spec => []QuestionSent
<1>1. TrimInv => QuestionSent
  <2> SUFFICES ASSUME TrimInv, pc = "sent", LastUser(Lifted(request)) > 0
               PROVE  \E k \in 1..Len(messages) : messages[k] = Sought
    BY DEF QuestionSent, Sought
  <2> QED
    BY DEF TrimInv, Asked, Afterwards, LastSaid
<1> QED
  BY <1>1, TrimInvariance, PTL

\* What is sent fits the budget of the model, or the facts, the tools and all
\* but one turn of the history have been cut from it, for all sizes.
THEOREM FitsOrBareAlways == Spec => []FitsOrBare
<1>1. TrimInv => FitsOrBare
  BY DEF TrimInv, Trimmed, FitsOrBare, OneTurn, UsersBefore
<1> QED
  BY <1>1, TrimInvariance, PTL

-----------------------------------------------------------------------------
(***************************************************************************)
(* Retrieval. The loops of the code are `Repeat`; what a loop keeps is     *)
(* RepeatKeeps, an induction over the set of its steps.                    *)
(***************************************************************************)
-----------------------------------------------------------------------------
(***************************************************************************)
(* Induction over a set of numbers, and what it gives for a loop.          *)
(***************************************************************************)
LEMMA LeastOf ==
    ASSUME NEW T, T \subseteq Nat, T # {}
    PROVE  \E n \in T : \A m \in T : n <= m
  <1> DEFINE R == OpToRel(<, Nat)
  <1>1. IsWellFoundedOn(R, Nat)
    BY NatLessThanWellFounded
  <1>2. \A x \in Nat, y \in Nat : y < x => <<y, x>> \in R
    BY DEF OpToRel
  <1> HIDE DEF R
  <1>3. \A S, U : IsWellFoundedOn(R, S) /\ U \subseteq S /\ U # {}
                    => \E x \in U : \A y \in U : ~ (<<y, x>> \in R)
    BY WFMin, Zenon
  <1>4. PICK x \in T : \A y \in T : ~ (<<y, x>> \in R)
    BY <1>1, <1>3, Zenon
  <1>5. ASSUME NEW m \in T PROVE x <= m
    <2>1. x \in Nat /\ m \in Nat /\ ~ (<<m, x>> \in R)
      BY <1>4
    <2> QED BY <1>2, <2>1
  <1> QED BY <1>5

LEMMA AllUpTo ==
    ASSUME NEW L \in Nat, NEW S, 0 \in S, \A n \in 0..L : n \in S /\ n < L => n + 1 \in S
    PROVE  \A n \in 0..L : n \in S
  <1> DEFINE T == {n \in 0..L : n \notin S}
  <1> SUFFICES ASSUME T # {} PROVE FALSE
    OBVIOUS
  <1>1. T \subseteq Nat
    OBVIOUS
  <1>2. PICK n \in T : \A m \in T : n <= m
    <2> HIDE DEF T
    <2> QED BY <1>1, LeastOf
  <1>3. n # 0 /\ n - 1 \in 0..L /\ n - 1 < L /\ (n - 1) + 1 = n /\ ~(n <= n - 1)
    BY <1>2
  <1>4. n - 1 \in S
    BY <1>2, <1>3
  <1> QED BY <1>2, <1>3, <1>4

\* The states a loop goes through.
LEMMA Repeated ==
    ASSUME NEW step, NEW base, NEW n \in Nat
    PROVE  \E after : /\ after[0] = base
                      /\ \A i \in 1..n : after[i] = step[i][after[i - 1]]
                      /\ Repeat(step, base, n) = after[n]
  <1> DEFINE Goes(m, u) ==
               u = [i \in 0..m |-> IF i = 0 THEN base ELSE step[i][u[i - 1]]]
             S == {m \in 0..n : \E u : Goes(m, u)}
             after == CHOOSE u : Goes(n, u)
  <1>1. 0 \in S
    <2> DEFINE u == [i \in 0..0 |-> base]
    <2>1. Goes(0, u)
      OBVIOUS
    <2> HIDE DEF u, Goes
    <2> QED BY <2>1
  <1>2. ASSUME NEW m \in 0..n, m \in S, m < n PROVE m + 1 \in S
    <2>1. PICK u : Goes(m, u)
      BY <1>2
    <2> DEFINE v == [i \in 0..(m + 1) |-> IF i = m + 1 THEN step[i][u[m]] ELSE u[i]]
    <2>2. ASSUME NEW i \in 0..(m + 1)
          PROVE  v[i] = IF i = 0 THEN base ELSE step[i][v[i - 1]]
      <3>1. CASE i = m + 1
        <4>1. v[i] = step[i][u[m]] /\ v[i - 1] = u[m] /\ i # 0
          BY <1>2, <3>1
        <4> QED BY <4>1
      <3>2. CASE i # m + 1
        <4>1. i \in 0..m /\ v[i] = u[i] /\ (i # 0 => v[i - 1] = u[i - 1])
          BY <1>2, <3>2
        <4>2. u[i] = IF i = 0 THEN base ELSE step[i][u[i - 1]]
          BY <2>1, <4>1
        <4> QED BY <4>1, <4>2
      <3> QED BY <3>1, <3>2
    <2>3. Goes(m + 1, v)
      BY <2>2
    <2>4. \E w : Goes(m + 1, w)
      <3> HIDE DEF Goes, v
      <3> QED BY <2>3
    <2> HIDE DEF Goes
    <2> QED BY <1>2, <2>4
  <1>3. n \in S
    <2> HIDE DEF S
    <2>1. \A m \in 0..n : m \in S
      BY <1>1, <1>2, AllUpTo
    <2> QED BY <2>1
  <1>4. Goes(n, after)
    <2>1. \E u : Goes(n, u)
      BY <1>3
    <2> HIDE DEF Goes
    <2> QED BY <2>1
  <1>5. Repeat(step, base, n) = after[n]
    BY DEF Repeat
  <1>6. \A i \in 0..n : after[i] = IF i = 0 THEN base ELSE step[i][after[i - 1]]
    <2> HIDE DEF after
    <2> QED BY <1>4
  <1> HIDE DEF after
  <1>7. after[0] = base /\ \A i \in 1..n : after[i] = step[i][after[i - 1]]
    BY <1>6
  <1> QED BY <1>5, <1>7

\* What every step of a loop passes on, it has at the end.
LEMMA RepeatKeeps ==
    ASSUME NEW step, NEW base, NEW n \in Nat, NEW Holds, base \in Holds[0],
           \A i \in 1..n : \A x \in Holds[i - 1] : step[i][x] \in Holds[i]
    PROVE  Repeat(step, base, n) \in Holds[n]
  <1>1. PICK after : /\ after[0] = base
                     /\ \A i \in 1..n : after[i] = step[i][after[i - 1]]
                     /\ Repeat(step, base, n) = after[n]
    BY Repeated
  <1> DEFINE S == {i \in 0..n : after[i] \in Holds[i]}
  <1>2. 0 \in S
    BY <1>1
  <1>3. ASSUME NEW i \in 0..n, i \in S, i < n PROVE i + 1 \in S
    <2>1. i + 1 \in 1..n /\ (i + 1) - 1 = i
      BY <1>3
    <2>2. after[i + 1] = step[i + 1][after[i]]
      BY <1>1, <2>1
    <2>3. step[i + 1][after[i]] \in Holds[i + 1]
      BY <1>3, <2>1
    <2> QED BY <2>1, <2>2, <2>3
  <1>4. \A i \in 0..n : i \in S
    <2> HIDE DEF S
    <2> QED BY <1>2, <1>3, AllUpTo
  <1> QED BY <1>1, <1>4

-----------------------------------------------------------------------------
(***************************************************************************)
(* Sequences: one more member, what is kept of one, its beginning, and the *)
(* members of a set in order.                                              *)
(***************************************************************************)
LEMMA OneMore ==
    ASSUME NEW S, NEW s \in Seq(S), NEW e \in S
    PROVE  /\ Append(s, e) \in Seq(S) /\ Len(Append(s, e)) = Len(s) + 1
           /\ Range(Append(s, e)) = Range(s) \cup {e}
           /\ IsInjective(s) /\ e \notin Range(s) => IsInjective(Append(s, e))
  <1> DEFINE t == Append(s, e)
  <1>1. t \in Seq(S) /\ Len(t) = Len(s) + 1 /\ Len(s) \in Nat /\ t[Len(s) + 1] = e
        /\ DOMAIN s = 1..Len(s) /\ DOMAIN t = 1..(Len(s) + 1)
    OBVIOUS
  <1>2. \A i \in 1..Len(s) : t[i] = s[i]
    OBVIOUS
  <1> HIDE DEF t
  <1>3. Range(t) = Range(s) \cup {e}
    <2>1. ASSUME NEW x \in Range(t) PROVE x \in Range(s) \cup {e}
      <3>1. PICK i \in 1..(Len(s) + 1) : x = t[i]
        BY <1>1, <2>1 DEF Range
      <3>2. CASE i = Len(s) + 1
        BY <1>1, <3>1, <3>2
      <3>3. CASE i # Len(s) + 1
        <4>1. i \in 1..Len(s)
          BY <1>1, <3>3
        <4> QED BY <1>1, <1>2, <3>1, <4>1 DEF Range
      <3> QED BY <3>2, <3>3
    <2>2. ASSUME NEW x \in Range(s) PROVE x \in Range(t)
      <3>1. PICK i \in 1..Len(s) : x = s[i]
        BY <1>1, <2>2 DEF Range
      <3>2. i \in 1..(Len(s) + 1) /\ t[i] = x
        BY <1>1, <1>2, <3>1
      <3> QED BY <1>1, <3>2 DEF Range
    <2>3. e \in Range(t)
      <3>1. Len(s) + 1 \in DOMAIN t
        BY <1>1
      <3> QED BY <1>1, <3>1 DEF Range
    <2> QED BY <2>1, <2>2, <2>3
  <1>4. ASSUME IsInjective(s), e \notin Range(s) PROVE IsInjective(t)
    <2> SUFFICES ASSUME NEW i \in 1..(Len(s) + 1), NEW j \in 1..(Len(s) + 1), t[i] = t[j]
                 PROVE  i = j
      BY <1>1 DEF IsInjective
    <2>1. \A k \in 1..Len(s) : t[k] # e
      BY <1>1, <1>2, <1>4 DEF Range
    <2>2. i \in 1..Len(s) \/ i = Len(s) + 1
      BY <1>1
    <2>3. j \in 1..Len(s) \/ j = Len(s) + 1
      BY <1>1
    <2>4. CASE i \in 1..Len(s) /\ j \in 1..Len(s)
      <3>1. s[i] = s[j] /\ i \in DOMAIN s /\ j \in DOMAIN s
        BY <1>1, <1>2, <2>4
      <3> QED BY <1>4, <3>1 DEF IsInjective
    <2> QED BY <1>1, <2>1, <2>2, <2>3, <2>4
  <1> QED BY <1>1, <1>3, <1>4 DEF t

LEMMA KeptIs ==
    ASSUME NEW s \in Seq(Facts), NEW S
    PROVE  /\ Kept(s, S) \in Seq(Facts)
           /\ Range(Kept(s, S)) = Range(s) \cap S
           /\ IsInjective(s) => IsInjective(Kept(s, S))
  <1> DEFINE n == Len(s)
             step == [i \in 1..n |-> [kept \in Seq(Facts) |->
                        IF s[i] \in S THEN Append(kept, s[i]) ELSE kept]]
             Past(i) == {s[j] : j \in 1..i}
             Good(x, i) == /\ x \in Seq(Facts) /\ Range(x) = Past(i) \cap S
                           /\ IsInjective(s) => IsInjective(x)
             Holds == [i \in 0..n |-> {x \in Seq(Facts) : Good(x, i)}]
  <1>1. n \in Nat /\ DOMAIN s = 1..n
    OBVIOUS
  <1>2. <<>> \in Holds[0]
    <2>1. Past(0) = {} /\ Range(<<>>) = {} /\ IsInjective(<<>>)
      BY DEF Range, IsInjective
    <2>2. Good(<<>>, 0)
      BY <2>1
    <2> HIDE DEF Good
    <2> QED BY <1>1, <2>2
  <1>3. ASSUME NEW i \in 1..n, NEW x \in Holds[i - 1] PROVE step[i][x] \in Holds[i]
    <2>1. i - 1 \in 0..n /\ i \in 0..n /\ s[i] \in Facts
      BY <1>1
    <2>2. Good(x, i - 1)
      BY <2>1
    <2>3. Past(i) = Past(i - 1) \cup {s[i]}
      BY <1>1
    <2>4. step[i][x] = IF s[i] \in S THEN Append(x, s[i]) ELSE x
      BY <2>2
    <2>5. IsInjective(s) => s[i] \notin Past(i - 1)
      BY <1>1 DEF IsInjective
    <2>6. Good(step[i][x], i)
      <3> HIDE DEF Past, step
      <3>1. CASE s[i] \in S
        <4>1. /\ Append(x, s[i]) \in Seq(Facts)
              /\ Range(Append(x, s[i])) = Range(x) \cup {s[i]}
              /\ IsInjective(x) /\ s[i] \notin Range(x) => IsInjective(Append(x, s[i]))
          BY <2>1, <2>2, OneMore
        <4> QED BY <2>2, <2>3, <2>4, <2>5, <3>1, <4>1
      <3>2. CASE s[i] \notin S
        BY <2>2, <2>3, <2>4, <3>2
      <3> QED BY <3>1, <3>2
    <2> HIDE DEF Good, step
    <2>7. step[i][x] \in Seq(Facts)
      BY <2>6 DEF Good
    <2> QED BY <2>1, <2>6, <2>7
  <1>4. Repeat(step, <<>>, n) \in Holds[n]
    <2> HIDE DEF Holds, step, n
    <2> QED BY <1>1, <1>2, <1>3, RepeatKeeps
  <1>5. Kept(s, S) = Repeat(step, <<>>, n)
    BY DEF Kept
  <1>6. Past(n) = Range(s)
    BY <1>1 DEF Range
  <1>7. Good(Kept(s, S), n)
    <2> HIDE DEF Good, step
    <2> QED BY <1>1, <1>4, <1>5
  <1> QED BY <1>6, <1>7

LEMMA MinOfTwo ==
    ASSUME NEW a \in Int, NEW b \in Int
    PROVE  Min({a, b}) = IF a < b THEN a ELSE b
  <1> DEFINE c == CHOOSE x \in {a, b} : \A y \in {a, b} : x <= y
             d == IF a < b THEN a ELSE b
  <1>1. d \in {a, b} /\ \A y \in {a, b} : d <= y
    OBVIOUS
  <1>2. c \in {a, b} /\ \A y \in {a, b} : c <= y
    <2> HIDE DEF d
    <2> QED BY <1>1
  <1>3. Min({a, b}) = c
    BY DEF Min
  <1> HIDE DEF c
  <1> QED BY <1>2, <1>3

LEMMA TakeIs ==
    ASSUME NEW S, NEW s \in Seq(S), NEW n \in Nat
    PROVE  /\ Take(s, n) \in Seq(S)
           /\ Len(Take(s, n)) = IF n < Len(s) THEN n ELSE Len(s)
           /\ \A i \in 1..Len(Take(s, n)) : i \in 1..Len(s) /\ Take(s, n)[i] = s[i]
           /\ Range(Take(s, n)) \subseteq Range(s)
           /\ Len(s) <= n => Take(s, n) = s
           /\ IsInjective(s) => IsInjective(Take(s, n))
  <1> DEFINE m == IF n < Len(s) THEN n ELSE Len(s)
             t == SubSeq(s, 1, m)
  <1>1. Take(s, n) = t
    BY MinOfTwo DEF Take
  <1>2. t \in Seq(S) /\ Len(t) = m /\ m \in 0..Len(s) /\ Len(s) \in Nat
        /\ DOMAIN s = 1..Len(s) /\ DOMAIN t = 1..m
    OBVIOUS
  <1>3. \A i \in 1..m : i \in 1..Len(s) /\ t[i] = s[i]
    BY <1>2
  <1> HIDE DEF t
  <1>4. Len(s) <= n => t = s
    BY <1>2, <1>3, SeqEqual
  <1>5. Range(t) \subseteq Range(s)
    BY <1>2, <1>3 DEF Range
  <1>6. IsInjective(s) => IsInjective(t)
    BY <1>2, <1>3 DEF IsInjective
  <1> QED BY <1>1, <1>2, <1>3, <1>4, <1>5, <1>6

\* `ahead` gives a strict order of all members of S.
Ordering(S, ahead) ==
    /\ IsFiniteSet(S) /\ ahead \in [S -> SUBSET S]
    /\ \A f, g \in S : f # g => f \in ahead[g] \/ g \in ahead[f]
    /\ \A f \in S : f \notin ahead[f]
    /\ \A f, g, h \in S : g \in ahead[f] /\ h \in ahead[g] => h \in ahead[f]

LEMMA RankedIs ==
    ASSUME NEW S, NEW ahead, Ordering(S, ahead)
    PROVE  /\ Ranked(ahead) \in Seq(S) /\ Len(Ranked(ahead)) = Cardinality(S)
           /\ Cardinality(S) \in Nat
           /\ Range(Ranked(ahead)) = S /\ IsInjective(Ranked(ahead))
           /\ S # {} => ahead[Ranked(ahead)[1]] = {} /\ Ranked(ahead)[1] \in S
  <1> DEFINE c == Cardinality(S)
             behind == [f \in S |-> Cardinality(ahead[f]) + 1]
             s == Ranked(ahead)
  <1>1. IsFiniteSet(S) /\ c \in Nat /\ DOMAIN ahead = S
    BY FS_CardinalityType DEF Ordering
  <1>2. ASSUME NEW f \in S
        PROVE  /\ IsFiniteSet(ahead[f]) /\ Cardinality(ahead[f]) \in Nat
               /\ Cardinality(ahead[f]) < c
    <2>1. ahead[f] \in SUBSET S /\ f \notin ahead[f]
      BY DEF Ordering
    <2>2. IsFiniteSet(ahead[f]) /\ Cardinality(ahead[f]) <= c /\ (c = Cardinality(ahead[f]) => S = ahead[f])
      BY <1>1, <2>1, FS_Subset
    <2>3. Cardinality(ahead[f]) \in Nat
      BY <2>2, FS_CardinalityType
    <2> QED BY <1>1, <2>1, <2>2, <2>3
  <1>3. ASSUME NEW f \in S, NEW g \in S, g \in ahead[f]
        PROVE  Cardinality(ahead[g]) < Cardinality(ahead[f])
    <2>1. ahead[g] \in SUBSET ahead[f] /\ g \notin ahead[g]
      BY <1>3 DEF Ordering
    <2>2. Cardinality(ahead[g]) <= Cardinality(ahead[f])
          /\ (Cardinality(ahead[f]) = Cardinality(ahead[g]) => ahead[f] = ahead[g])
      BY <1>2, <2>1, FS_Subset
    <2> QED BY <1>2, <1>3, <2>1, <2>2
  <1>4. \A f, g \in S : f # g => Cardinality(ahead[f]) # Cardinality(ahead[g])
    BY <1>2, <1>3 DEF Ordering
  <1>5. behind \in Injection(S, 1..c)
    <2>1. behind \in [S -> 1..c]
      BY <1>1, <1>2
    <2>2. \A f, g \in S : behind[f] = behind[g] => f = g
      BY <1>2, <1>4
    <2> QED BY <2>1, <2>2 DEF Injection, IsInjective
  <1>6. ASSUME NEW n \in 1..c
        PROVE  \E f \in S : Cardinality(ahead[f]) = n - 1
    <2>1. IsFiniteSet(1..c) /\ Cardinality(1..c) = c
      BY <1>1, FS_Interval
    <2> HIDE DEF behind
    <2>2. behind \in Surjection(S, 1..c)
      BY <1>5, <2>1, FS_Injection
    <2>3. PICK f \in S : behind[f] = n
      BY <2>2 DEF Surjection
    <2> QED BY <1>1, <1>2, <2>3 DEF behind
  <1>7. s = [n \in 1..c |-> CHOOSE f \in S : Cardinality(ahead[f]) = n - 1]
    BY <1>1 DEF Ranked
  <1>8. \A n \in 1..c : s[n] \in S /\ Cardinality(ahead[s[n]]) = n - 1
    BY <1>6, <1>7
  <1>9. s \in Seq(S) /\ Len(s) = c /\ DOMAIN s = 1..c
    <2>1. s = [n \in 1..c |-> s[n]]
      BY <1>7
    <2> HIDE DEF s
    <2>2. [n \in 1..c |-> s[n]] \in Seq(S) /\ Len([n \in 1..c |-> s[n]]) = c
      BY <1>1, <1>8
    <2> QED BY <1>1, <2>1, <2>2
  <1> HIDE DEF s
  <1>10. IsInjective(s)
    BY <1>1, <1>8, <1>9 DEF IsInjective
  <1>11. Range(s) = S
    <2>1. Range(s) \subseteq S
      BY <1>8, <1>9 DEF Range
    <2>2. ASSUME NEW f \in S PROVE f \in Range(s)
      <3>1. Cardinality(ahead[f]) + 1 \in 1..c
        BY <1>1, <1>2
      <3>2. s[Cardinality(ahead[f]) + 1] = f
        BY <1>2, <1>4, <1>8, <3>1
      <3> QED BY <1>9, <3>1, <3>2 DEF Range
    <2> QED BY <2>1, <2>2
  <1>12. ASSUME S # {} PROVE ahead[s[1]] = {} /\ s[1] \in S
    <2>1. 1 \in 1..c
      BY <1>1, <1>12, FS_EmptySet
    <2>2. s[1] \in S /\ Cardinality(ahead[s[1]]) = 0
      BY <1>8, <2>1
    <2> QED BY <1>2, <2>2, FS_EmptySet
  <1> QED BY <1>1, <1>9, <1>10, <1>11, <1>12 DEF s

LEMMA RangeOfOne ==
    ASSUME NEW S, NEW e \in S
    PROVE  <<e>> \in Seq(S) /\ Range(<<e>>) = {e}
  BY DEF Range

LEMMA RangeOfBoth ==
    ASSUME NEW S, NEW s \in Seq(S), NEW t \in Seq(S)
    PROVE  s \o t \in Seq(S) /\ Range(s \o t) = Range(s) \cup Range(t)
  <1> DEFINE u == s \o t
  <1>1. /\ u \in Seq(S) /\ Len(u) = Len(s) + Len(t) /\ Len(s) \in Nat /\ Len(t) \in Nat
        /\ DOMAIN u = 1..(Len(s) + Len(t)) /\ DOMAIN s = 1..Len(s) /\ DOMAIN t = 1..Len(t)
        /\ \A i \in 1..Len(s) + Len(t) : u[i] = IF i <= Len(s) THEN s[i] ELSE t[i - Len(s)]
    BY ConcatProperties
  <1> HIDE DEF u
  <1>2. ASSUME NEW x \in Range(u) PROVE x \in Range(s) \cup Range(t)
    <2>1. PICK i \in 1..(Len(s) + Len(t)) : x = u[i]
      BY <1>1, <1>2 DEF Range
    <2>2. CASE i <= Len(s)
      BY <1>1, <2>1, <2>2 DEF Range
    <2>3. CASE ~(i <= Len(s))
      <3>1. i - Len(s) \in 1..Len(t) /\ x = t[i - Len(s)]
        BY <1>1, <2>1, <2>3
      <3> QED BY <1>1, <3>1 DEF Range
    <2> QED BY <2>2, <2>3
  <1>3. ASSUME NEW x \in Range(s) PROVE x \in Range(u)
    <2>1. PICK i \in 1..Len(s) : x = s[i]
      BY <1>1, <1>3 DEF Range
    <2>2. i \in 1..(Len(s) + Len(t)) /\ u[i] = x
      BY <1>1, <2>1
    <2> QED BY <1>1, <2>2 DEF Range
  <1>4. ASSUME NEW x \in Range(t) PROVE x \in Range(u)
    <2>1. PICK i \in 1..Len(t) : x = t[i]
      BY <1>1, <1>4 DEF Range
    <2>2. Len(s) + i \in 1..(Len(s) + Len(t)) /\ u[Len(s) + i] = x
      BY <1>1, <2>1
    <2> QED BY <1>1, <2>2 DEF Range
  <1>5. Range(u) = Range(s) \cup Range(t)
    BY <1>2, <1>3, <1>4
  <1> QED BY <1>1, <1>5 DEF u

\* A sequence that has each of its members once.
LEMMA CountOf ==
    ASSUME NEW S, NEW s \in Seq(S), IsInjective(s)
    PROVE  IsFiniteSet(Range(s)) /\ Cardinality(Range(s)) = Len(s)
  <1>1. DOMAIN s = 1..Len(s) /\ Len(s) \in Nat /\ s \in [1..Len(s) -> Range(s)]
    BY DEF Range
  <1>2. s \in Surjection(1..Len(s), Range(s)) /\ s \in Injection(1..Len(s), Range(s))
    BY <1>1 DEF Injection, Surjection, IsInjective, Range
  <1>3. IsFiniteSet(1..Len(s)) /\ Cardinality(1..Len(s)) = Len(s)
    BY <1>1, FS_Interval
  <1> QED BY <1>2, <1>3, FS_Surjection

LEMMA CountAtMost ==
    ASSUME NEW S, NEW s \in Seq(S)
    PROVE  IsFiniteSet(Range(s)) /\ Cardinality(Range(s)) <= Len(s)
  <1>1. DOMAIN s = 1..Len(s) /\ Len(s) \in Nat /\ s \in [1..Len(s) -> Range(s)]
    BY DEF Range
  <1>2. s \in Surjection(1..Len(s), Range(s))
    BY <1>1 DEF Surjection, Range
  <1>3. IsFiniteSet(1..Len(s)) /\ Cardinality(1..Len(s)) = Len(s)
    BY <1>1, FS_Interval
  <1> QED BY <1>2, <1>3, FS_Surjection

LEMMA EmptyIs ==
    ASSUME NEW S, NEW s \in Seq(S)
    PROVE  Range(s) = {} <=> s = <<>>
  <1>1. Range(<<>>) = {}
    BY DEF Range
  <1>2. s # <<>> => 1 \in DOMAIN s
    OBVIOUS
  <1> QED BY <1>1, <1>2 DEF Range

\* The greatest and the least of numbers that have a bound.
LEMMA MaxIs ==
    ASSUME NEW b \in Nat, NEW T \in SUBSET (0..b), T # {}
    PROVE  Max(T) \in T /\ \A n \in T : n <= Max(T)
  <1> DEFINE U == {b - n : n \in T}
  <1>1. U \subseteq Nat /\ U # {}
    <2>1. \A n \in T : n \in Nat /\ n <= b /\ b - n \in Nat
      OBVIOUS
    <2> QED BY <2>1
  <1>2. PICK u \in U : \A v \in U : u <= v
    <2> HIDE DEF U
    <2> QED BY <1>1, LeastOf
  <1>3. PICK m \in T : u = b - m
    BY <1>2
  <1>4. \A n \in T : n <= m
    <2>1. ASSUME NEW n \in T PROVE n <= m
      <3>1. b - n \in U
        OBVIOUS
      <3>2. b - m <= b - n
        BY <1>2, <1>3, <3>1
      <3> QED BY <3>2
    <2> QED BY <2>1
  <1>5. Max(T) = CHOOSE x \in T : \A y \in T : x >= y
    BY DEF Max
  <1>6. \E x \in T : \A y \in T : x >= y
    BY <1>3, <1>4
  <1>7. Max(T) \in T /\ \A y \in T : Max(T) >= y
    BY <1>5, <1>6, Zenon
  <1> QED BY <1>7

LEMMA MinIs ==
    ASSUME NEW T \in SUBSET Nat, T # {}
    PROVE  Min(T) \in T /\ \A n \in T : Min(T) <= n
  <1>1. \E n \in T : \A m \in T : n <= m
    BY LeastOf
  <1> QED BY <1>1, Zenon DEF Min

LEMMA MaxOfTwo ==
    ASSUME NEW a \in Int, NEW b \in Int
    PROVE  Max({a, b}) = IF a < b THEN b ELSE a
  <1> DEFINE c == CHOOSE x \in {a, b} : \A y \in {a, b} : x >= y
             d == IF a < b THEN b ELSE a
  <1>1. d \in {a, b} /\ \A y \in {a, b} : d >= y
    OBVIOUS
  <1>2. c \in {a, b} /\ \A y \in {a, b} : c >= y
    <2> HIDE DEF d
    <2> QED BY <1>1
  <1>3. Max({a, b}) = c
    BY DEF Max
  <1> HIDE DEF c
  <1> QED BY <1>2, <1>3

\* Where a member of a sequence stands.
LEMMA AtIs ==
    ASSUME NEW S, NEW s \in Seq(S), NEW f \in Range(s)
    PROVE  At(s, f) \in 1..Len(s) /\ s[At(s, f)] = f
  <1>1. \E i \in DOMAIN s : s[i] = f
    BY DEF Range
  <1>2. At(s, f) \in DOMAIN s /\ s[At(s, f)] = f
    BY <1>1, Zenon DEF At
  <1> QED BY <1>2

\* By a number, and where it is the same by another that tells all apart.
LEMMA OrderingBy ==
    ASSUME NEW S, IsFiniteSet(S), NEW key \in [S -> Int], NEW tie \in [S -> Int],
           \A f, g \in S : tie[f] = tie[g] => f = g, NEW ahead,
           ahead = [f \in S |-> {g \in S : key[g] > key[f] \/ (key[g] = key[f] /\ tie[g] < tie[f])}]
    PROVE  Ordering(S, ahead)
  <1>1. ahead \in [S -> SUBSET S]
    OBVIOUS
  <1>2. \A f, g \in S : g \in ahead[f] <=> key[g] > key[f] \/ (key[g] = key[f] /\ tie[g] < tie[f])
    OBVIOUS
  <1>3. \A f \in S : key[f] \in Int /\ tie[f] \in Int
    OBVIOUS
  <1>4. \A f, g \in S : f # g => f \in ahead[g] \/ g \in ahead[f]
    BY <1>2, <1>3
  <1>5. \A f \in S : f \notin ahead[f]
    BY <1>2, <1>3
  <1>6. \A f, g, h \in S : g \in ahead[f] /\ h \in ahead[g] => h \in ahead[f]
    BY <1>2, <1>3
  <1> QED BY <1>1, <1>4, <1>5, <1>6 DEF Ordering

\* What is first in such an order.
LEMMA FirstOf ==
    ASSUME NEW S, NEW ahead, Ordering(S, ahead), S # {}
    PROVE  \E f \in S : \A g \in S \ {f} : f \in ahead[g]
  <1>1. Ranked(ahead)[1] \in S /\ ahead[Ranked(ahead)[1]] = {}
    BY RankedIs
  <1> QED BY <1>1 DEF Ordering

-----------------------------------------------------------------------------
(***************************************************************************)
(* The steps of a search: where their facts come from.                     *)
(***************************************************************************)
StatusType == [Facts -> {"none", "current", "provisional", "superseded"}]
World(w) ==
    /\ w.near \in [Queries -> Seq(Facts)] /\ w.sim \in [Facts -> [Facts -> 0..100]]
    /\ w.score \in [Facts -> Int] /\ w.ents \in [Facts -> SUBSET Entities]
    /\ w.created \in [Facts -> Nat] /\ w.conf \in [Facts -> 0..100]
    /\ Regular(w)

LEMMA SomeFacts ==
    ASSUME NEW S \in SUBSET Facts
    PROVE  IsFiniteSet(S) /\ Cardinality(S) \in Nat /\ S \subseteq Nat
  BY CapsAssumption, FS_Subset, FS_CardinalityType

LEMMA RangeIn ==
    ASSUME NEW S, NEW s \in Seq(S)
    PROVE  Range(s) \subseteq S
  <1>1. DOMAIN s = 1..Len(s) /\ \A i \in 1..Len(s) : s[i] \in S
    OBVIOUS
  <1> QED BY <1>1 DEF Range

\* The nearest rows are rows of the store, each once.
LEMMA NearestIs ==
    ASSUME NEW w, World(w), NEW st \in StatusType, NEW q \in Queries, NEW limit \in Nat
    PROVE  /\ Nearest(w, st, q, limit) \in Seq(Facts)
           /\ Range(Nearest(w, st, q, limit)) \subseteq Range(w.near[q]) \cap Rows(st)
           /\ IsInjective(Nearest(w, st, q, limit)) /\ Len(Nearest(w, st, q, limit)) <= limit
           /\ \/ Range(Nearest(w, st, q, limit)) = Range(w.near[q]) \cap Rows(st)
              \/ Len(Nearest(w, st, q, limit)) = limit
  <1> DEFINE s == Kept(w.near[q], Rows(st))
             t == Take(s, limit)
  <1>1. w.near[q] \in Seq(Facts) /\ IsInjective(w.near[q])
    BY DEF World, Regular
  <1>2. s \in Seq(Facts) /\ Range(s) = Range(w.near[q]) \cap Rows(st) /\ IsInjective(s)
    BY <1>1, KeptIs
  <1> HIDE DEF s
  <1>3. /\ t \in Seq(Facts) /\ Len(t) = (IF limit < Len(s) THEN limit ELSE Len(s))
        /\ Range(t) \subseteq Range(s) /\ (Len(s) <= limit => t = s) /\ IsInjective(t)
    BY <1>2, TakeIs
  <1>4. Len(s) \in Nat
    BY <1>2
  <1>5. Nearest(w, st, q, limit) = t
    BY DEF Nearest, s
  <1> HIDE DEF t
  <1> QED BY <1>2, <1>3, <1>4, <1>5

LEMMA RecentIs ==
    ASSUME NEW w, World(w), NEW st \in StatusType, NEW limit \in Nat
    PROVE  /\ Recent(w, st, limit) \in Seq(Facts) /\ IsInjective(Recent(w, st, limit))
           /\ Range(Recent(w, st, limit)) \subseteq LiveFacts(st)
           /\ Len(Recent(w, st, limit)) <= limit
           /\ Range(Recent(w, st, limit)) = LiveFacts(st) \/ Len(Recent(w, st, limit)) = limit
  <1> DEFINE S == LiveFacts(st)
             ahead == [f \in S |-> {g \in S : Newer(w, g, f)}]
             s == Ranked(ahead)
  <1>1. S \in SUBSET Facts /\ IsFiniteSet(S) /\ S \subseteq Nat
    BY SomeFacts DEF LiveFacts
  <1>2. Ordering(S, ahead)
    <2> DEFINE key == [f \in S |-> w.created[f]]
               tie == [f \in S |-> f]
    <2>1. key \in [S -> Int] /\ tie \in [S -> Int]
      BY <1>1 DEF World
    <2>2. ahead = [f \in S |-> {g \in S : key[g] > key[f] \/ (key[g] = key[f] /\ tie[g] < tie[f])}]
      BY DEF Newer
    <2>3. \A f, g \in S : tie[f] = tie[g] => f = g
      OBVIOUS
    <2> HIDE DEF key, tie, S, ahead
    <2> QED BY <1>1, <2>1, <2>2, <2>3, OrderingBy
  <1> HIDE DEF ahead
  <1>3. s \in Seq(S) /\ Range(s) = S /\ IsInjective(s)
    <2> HIDE DEF S
    <2> QED BY <1>2, RankedIs
  <1>4. s \in Seq(Facts) /\ Len(s) \in Nat
    BY <1>1, <1>3
  <1> HIDE DEF s
  <1>5. /\ Take(s, limit) \in Seq(Facts) /\ Range(Take(s, limit)) \subseteq Range(s)
        /\ IsInjective(Take(s, limit)) /\ Len(Take(s, limit)) <= limit
        /\ Take(s, limit) = s \/ Len(Take(s, limit)) = limit
    BY <1>3, <1>4, TakeIs
  <1>6. Recent(w, st, limit) = Take(s, limit)
    BY DEF Recent, s, ahead
  <1> QED BY <1>3, <1>5, <1>6

\* The candidates of a search: the nearest rows, or if there is none the newest
\* live facts; all there are, or as many as were asked for.
LEMMA CandidatesAre ==
    ASSUME NEW w, World(w), NEW st \in StatusType, NEW q \in Queries, NEW k \in Nat,
           NEW embedded \in BOOLEAN
    PROVE  LET found == Candidates(w, st, q, k, embedded) IN
           /\ found \in Seq(Facts) /\ IsInjective(found)
           /\ Range(found) \subseteq {f \in Rows(st) : f \in LiveFacts(st) \/ HasVector(w, f)}
           /\ \/ Len(found) = 2 * k
              \/ \A f \in LiveFacts(st) : HasVector(w, f) => f \in Range(found)
  <1> DEFINE near == Nearest(w, st, q, 2 * k)
             recent == Recent(w, st, 2 * k)
  <1>1. LiveFacts(st) \subseteq Rows(st)
    BY DEF LiveFacts, Rows, Live
  <1>2. 2 * k \in Nat
    OBVIOUS
  <1>3. /\ near \in Seq(Facts) /\ IsInjective(near) /\ Range(near) \subseteq Rows(st)
        /\ \A f \in Range(near) : HasVector(w, f)
        /\ Range(near) = Range(w.near[q]) \cap Rows(st) \/ Len(near) = 2 * k
    BY <1>2, NearestIs DEF HasVector
  <1>4. /\ recent \in Seq(Facts) /\ IsInjective(recent) /\ Range(recent) \subseteq LiveFacts(st)
        /\ Range(recent) = LiveFacts(st) \/ Len(recent) = 2 * k
    BY <1>2, RecentIs
  <1>5. \A f \in Facts : HasVector(w, f) => f \in Range(w.near[q])
    BY DEF HasVector, World, Regular
  <1>6. Candidates(w, st, q, k, embedded) = IF embedded /\ near # <<>> THEN near ELSE recent
    BY DEF Candidates, NearRows
  <1>7. LiveFacts(st) \subseteq Facts
    BY DEF LiveFacts
  <1> HIDE DEF near, recent
  <1>8. \A f \in LiveFacts(st) : HasVector(w, f) => f \in Range(w.near[q]) \cap Rows(st)
    BY <1>1, <1>5, <1>7
  <1> QED BY <1>1, <1>3, <1>4, <1>6, <1>8

\* The reranker takes out only what it puts below its floor, and never its first.
LEMMA RerankIs ==
    ASSUME NEW w, World(w), NEW cands \in Seq(Facts), NEW wide \in BOOLEAN
    PROVE  /\ Rerank(w, cands, wide) \in Seq(Facts)
           /\ Range(Rerank(w, cands, wide)) \subseteq Range(cands) /\ IsInjective(Rerank(w, cands, wide))
           /\ \A f \in Range(cands) \ Range(Rerank(w, cands, wide)) :
                w.score[f] < RerankFloor /\ Range(Rerank(w, cands, wide)) # {}
  <1> DEFINE S == Range(cands)
             ahead == [f \in S |-> {g \in S : Preferred(w, cands, g, f)}]
             s == Ranked(ahead)
             high == {f \in Facts : w.score[f] >= RerankFloor}
  <1>1. S \in SUBSET Facts /\ IsFiniteSet(S)
    BY RangeIn, SomeFacts
  <1>2. \A f \in S : At(cands, f) \in 1..Len(cands) /\ cands[At(cands, f)] = f
    BY AtIs
  <1>3. Ordering(S, ahead)
    <2> DEFINE key == [f \in S |-> w.score[f]]
               tie == [f \in S |-> At(cands, f)]
    <2>1. key \in [S -> Int]
      BY <1>1 DEF World
    <2>2. tie \in [S -> Int]
      BY <1>2
    <2>3. ahead = [f \in S |-> {g \in S : key[g] > key[f] \/ (key[g] = key[f] /\ tie[g] < tie[f])}]
      BY DEF Preferred
    <2>4. \A f, g \in S : tie[f] = tie[g] => f = g
      BY <1>2
    <2> HIDE DEF key, tie, S, ahead
    <2> QED BY <1>1, <2>1, <2>2, <2>3, <2>4, OrderingBy
  <1>4. s \in Seq(S) /\ Range(s) = S /\ IsInjective(s)
    <2> HIDE DEF S, ahead
    <2> QED BY <1>3, RankedIs
  <1> HIDE DEF ahead
  <1>5. s \in Seq(Facts)
    BY <1>1, <1>4
  <1>6. Rerank(w, cands, wide) = IF wide \/ cands = <<>> THEN s ELSE <<Head(s)>> \o Kept(Tail(s), high)
    BY DEF Rerank, ahead
  <1>7. CASE wide \/ cands = <<>>
    BY <1>4, <1>5, <1>6, <1>7
  <1>8. CASE ~(wide \/ cands = <<>>)
    <2> DEFINE t == <<Head(s)>> \o Kept(Tail(s), high)
    <2>1. S # {}
      <3>1. 1 \in DOMAIN cands
        BY <1>8
      <3> QED BY <3>1 DEF Range
    <2>2. s # <<>>
      BY <1>4, <2>1 DEF Range
    <2>3. /\ Head(s) \in Facts /\ Tail(s) \in Seq(Facts) /\ Head(s) = s[1]
          /\ Len(Tail(s)) = Len(s) - 1 /\ \A i \in 1..Len(Tail(s)) : Tail(s)[i] = s[i + 1]
      <3> HIDE DEF s
      <3> QED BY <1>5, <2>2, HeadTailProperties
    <2>4. Range(s) = {Head(s)} \cup Range(Tail(s))
      <3> HIDE DEF s
      <3>1. DOMAIN s = 1..Len(s) /\ DOMAIN Tail(s) = 1..Len(Tail(s)) /\ Len(s) \in Nat /\ Len(s) # 0
        BY <1>5, <2>2, <2>3
      <3>2. ASSUME NEW f \in Range(s) PROVE f \in {Head(s)} \cup Range(Tail(s))
        <4>1. PICK i \in 1..Len(s) : f = s[i]
          BY <3>1 DEF Range
        <4>2. CASE i = 1
          BY <2>3, <4>1, <4>2
        <4>3. CASE i # 1
          <5>1. i - 1 \in 1..Len(Tail(s)) /\ (i - 1) + 1 = i
            BY <2>3, <3>1, <4>3
          <5>2. Tail(s)[i - 1] = f
            BY <2>3, <4>1, <5>1
          <5> QED BY <3>1, <5>1, <5>2 DEF Range
        <4> QED BY <4>2, <4>3
      <3>3. ASSUME NEW f \in Range(Tail(s)) PROVE f \in Range(s)
        <4>1. PICK i \in 1..Len(Tail(s)) : f = Tail(s)[i]
          BY <3>1, <3>3 DEF Range
        <4>2. i + 1 \in 1..Len(s) /\ f = s[i + 1]
          BY <2>3, <3>1, <4>1
        <4> QED BY <3>1, <4>2 DEF Range
      <3>4. Head(s) \in Range(s)
        <4>1. 1 \in DOMAIN s
          BY <3>1
        <4> QED BY <2>3, <4>1 DEF Range
      <3> QED BY <3>2, <3>3, <3>4
    <2>5. /\ Kept(Tail(s), high) \in Seq(Facts) /\ Range(Kept(Tail(s), high)) = Range(Tail(s)) \cap high
          /\ IsInjective(Tail(s)) => IsInjective(Kept(Tail(s), high))
      BY <2>3, KeptIs
    <2>6. t \in Seq(Facts) /\ Range(t) = {Head(s)} \cup Range(Kept(Tail(s), high))
      <3> HIDE DEF s, high
      <3>1. <<Head(s)>> \in Seq(Facts) /\ Range(<<Head(s)>>) = {Head(s)}
        BY <2>3, RangeOfOne
      <3> DEFINE h == <<Head(s)>>
                 v == Kept(Tail(s), high)
      <3>2. h \in Seq(Facts) /\ Range(h) = {Head(s)} /\ v \in Seq(Facts)
        BY <2>5, <3>1
      <3> HIDE DEF h, v
      <3>3. h \o v \in Seq(Facts) /\ Range(h \o v) = Range(h) \cup Range(v)
        BY <3>2, RangeOfBoth
      <3> QED BY <3>2, <3>3 DEF h, v
    <2>7. \A f \in Range(s) \ Range(t) : w.score[f] < RerankFloor
      <3>1. ASSUME NEW f \in Range(s) \ Range(t) PROVE w.score[f] < RerankFloor
        <4>1. f \in Facts /\ f \notin high
          BY <1>1, <1>4, <2>4, <2>5, <2>6
        <4>2. w.score[f] \in Int /\ ~(w.score[f] >= RerankFloor)
          BY <4>1 DEF World
        <4> QED BY <4>2 DEF RerankFloor
      <3> QED BY <3>1
    <2>8. IsInjective(Tail(s)) /\ Head(s) \notin Range(Tail(s))
      <3> HIDE DEF s
      <3>1. DOMAIN s = 1..Len(s) /\ DOMAIN Tail(s) = 1..Len(Tail(s)) /\ Len(s) \in Nat /\ Len(s) # 0
        BY <1>5, <2>2, <2>3
      <3>2. ASSUME NEW i \in DOMAIN Tail(s)
            PROVE  /\ i + 1 \in DOMAIN s /\ 1 \in DOMAIN s /\ i + 1 # 1 /\ Tail(s)[i] = s[i + 1]
                   /\ i \in Int
        BY <2>3, <3>1
      <3>3. ASSUME NEW i \in DOMAIN Tail(s), NEW j \in DOMAIN Tail(s), Tail(s)[i] = Tail(s)[j] PROVE i = j
        <4>1. i + 1 = j + 1
          BY <1>4, <3>2, <3>3 DEF IsInjective
        <4> QED BY <3>2, <4>1
      <3>4. ASSUME NEW i \in DOMAIN Tail(s) PROVE Tail(s)[i] # Head(s)
        BY <1>4, <2>3, <3>2 DEF IsInjective
      <3> QED BY <3>3, <3>4 DEF IsInjective, Range
    <2>9. IsInjective(t)
      <3> DEFINE v == Kept(Tail(s), high)
      <3>1. Head(s) \in Facts /\ v \in Seq(Facts) /\ IsInjective(v) /\ Head(s) \notin Range(v)
        BY <2>3, <2>5, <2>8
      <3> HIDE DEF v, s
      <3> DEFINE u == <<Head(s)>> \o v
      <3>2. /\ DOMAIN u = 1..(Len(v) + 1) /\ DOMAIN v = 1..Len(v) /\ Len(v) \in Nat
            /\ \A i \in 1..(Len(v) + 1) : u[i] = IF i = 1 THEN Head(s) ELSE v[i - 1]
        BY <3>1
      <3> HIDE DEF u
      <3>3. ASSUME NEW i \in 1..(Len(v) + 1), i # 1 PROVE i - 1 \in DOMAIN v /\ u[i] \in Range(v)
        <4>1. i - 1 \in DOMAIN v /\ u[i] = v[i - 1]
          BY <3>2, <3>3
        <4> QED BY <4>1 DEF Range
      <3>4. ASSUME NEW i \in DOMAIN u, NEW j \in DOMAIN u, u[i] = u[j] PROVE i = j
        <4>1. i = 1 <=> j = 1
          BY <3>1, <3>2, <3>3, <3>4
        <4>2. CASE i # 1
          <5>1. i - 1 \in DOMAIN v /\ j - 1 \in DOMAIN v /\ v[i - 1] = v[j - 1]
            BY <3>2, <3>3, <3>4, <4>1, <4>2
          <5>2. i - 1 = j - 1
            BY <3>1, <5>1 DEF IsInjective
          <5> QED BY <3>2, <5>2
        <4> QED BY <4>1, <4>2
      <3>5. IsInjective(u)
        BY <3>4 DEF IsInjective
      <3> QED BY <3>5 DEF u, v
    <2> QED BY <1>4, <1>6, <1>8, <2>4, <2>5, <2>6, <2>7, <2>9
  <1> QED BY <1>7, <1>8

LEMMA EligibleAre ==
    ASSUME NEW w, World(w), NEW st \in StatusType, NEW cands \in Seq(Facts)
    PROVE  /\ Eligible(w, st, cands) \in Seq(Facts)
           /\ Range(Eligible(w, st, cands)) =
                {f \in Range(cands) : f \in LiveFacts(st) /\ OrElse(w.conf[f], 100) >= ConfidenceFloor}
           /\ IsInjective(cands) => IsInjective(Eligible(w, st, cands))
  BY KeptIs DEF Eligible

\* What repeats nothing kept before is kept, as long as there is room: the first
\* fact is, and of those kept none is left out or added.
LEMMA DedupIs ==
    ASSUME NEW w, NEW cands \in Seq(Facts), NEW cap \in Nat \ {0}
    PROVE  /\ DedupByContent(w, cands, cap) \in Seq(Facts)
           /\ Range(DedupByContent(w, cands, cap)) \subseteq Range(cands)
           /\ Len(DedupByContent(w, cands, cap)) <= cap
           /\ DedupByContent(w, cands, cap) = <<>> => cands = <<>>
  <1> DEFINE n == Len(cands)
             step == [i \in 1..n |-> [kept \in Seq(Facts) |->
                        IF Len(kept) >= cap \/ Repeats(w, cands[i], kept) THEN kept
                        ELSE Append(kept, cands[i])]]
             Good(x, i) == Range(x) \subseteq Range(cands) /\ Len(x) <= cap /\ (i # 0 => x # <<>>)
             Holds == [i \in 0..n |-> {x \in Seq(Facts) : Good(x, i)}]
  <1>1. n \in Nat /\ DOMAIN cands = 1..n
    OBVIOUS
  <1>2. <<>> \in Holds[0]
    <2>1. Good(<<>>, 0)
      BY DEF Range
    <2> HIDE DEF Good
    <2> QED BY <1>1, <2>1
  <1>3. ASSUME NEW i \in 1..n, NEW x \in Holds[i - 1] PROVE step[i][x] \in Holds[i]
    <2>1. i - 1 \in 0..n /\ i \in 0..n /\ cands[i] \in Facts /\ cands[i] \in Range(cands)
      BY <1>1 DEF Range
    <2>2. x \in Seq(Facts) /\ Good(x, i - 1) /\ Len(x) \in Nat
      BY <2>1
    <2>3. CASE Len(x) >= cap \/ Repeats(w, cands[i], x)
      <3>1. step[i][x] = x
        BY <2>2, <2>3
      <3>2. x # <<>>
        <4>1. CASE Len(x) >= cap
          BY <4>1
        <4>2. CASE Repeats(w, cands[i], x)
          BY <4>2 DEF Repeats, Range
        <4> QED BY <2>3, <4>1, <4>2
      <3>3. Good(step[i][x], i)
        BY <2>2, <3>1, <3>2
      <3> HIDE DEF Good, step
      <3> QED BY <2>1, <2>2, <3>1, <3>3
    <2>4. CASE ~(Len(x) >= cap \/ Repeats(w, cands[i], x))
      <3>1. step[i][x] = Append(x, cands[i])
        BY <2>2, <2>4
      <3>2. /\ Append(x, cands[i]) \in Seq(Facts) /\ Len(Append(x, cands[i])) = Len(x) + 1
            /\ Range(Append(x, cands[i])) = Range(x) \cup {cands[i]}
        BY <2>1, <2>2, OneMore
      <3>3. Good(Append(x, cands[i]), i)
        BY <2>1, <2>2, <2>4, <3>2
      <3> HIDE DEF Good, step
      <3> QED BY <2>1, <3>1, <3>2, <3>3
    <2> QED BY <2>3, <2>4
  <1>4. Repeat(step, <<>>, n) \in Holds[n]
    <2> HIDE DEF Holds, step, n
    <2> QED BY <1>1, <1>2, <1>3, RepeatKeeps
  <1>5. DedupByContent(w, cands, cap) = Repeat(step, <<>>, n)
    BY DEF DedupByContent
  <1>6. DedupByContent(w, cands, cap) \in Seq(Facts) /\ Good(DedupByContent(w, cands, cap), n)
    <2> HIDE DEF Good, step
    <2> QED BY <1>1, <1>4, <1>5
  <1>7. n = 0 => cands = <<>>
    OBVIOUS
  <1> QED BY <1>6, <1>7

\* A small number of facts found over the graph, each of them live.
LEMMA PicksAre ==
    ASSUME NEW w, World(w), NEW st \in StatusType, NEW cands, NEW primary, NEW cap \in Nat,
           NEW hop \in GraphPicks(w, st, cands, primary, cap)
    PROVE  /\ hop \in Seq(Facts) /\ IsInjective(hop) /\ Len(hop) <= cap
           /\ Range(hop) \subseteq LiveFacts(st) \ Range(primary)
  <1> DEFINE S == OneHop(w, st, cands, primary)
             n == Min({cap, Cardinality(S)})
  <1>1. S \subseteq LiveFacts(st) \ Range(primary) /\ S \in SUBSET Facts
    BY DEF OneHop, LiveFacts
  <1>2. Cardinality(S) \in Nat
    BY <1>1, SomeFacts
  <1>3. hop \in [1..n -> S] /\ IsInjective(hop)
    BY DEF GraphPicks
  <1> HIDE DEF S
  <1>4. n \in Nat /\ n <= cap
    BY <1>2, MinOfTwo
  <1> HIDE DEF n
  <1>5. hop \in Seq(S) /\ Len(hop) = n
    BY <1>3, <1>4
  <1>6. hop \in Seq(Facts)
    BY <1>1, <1>5
  <1>7. Range(hop) \subseteq S
    BY <1>5, RangeIn
  <1> QED BY <1>1, <1>3, <1>4, <1>5, <1>6, <1>7

\* Distances are places among the nearest rows.
Measured(dist) ==
    /\ dist \in [DOMAIN dist -> Nat \ {0}]
    /\ \E b \in Nat : \A f \in DOMAIN dist : dist[f] <= b

LEMMA DistancesAre ==
    ASSUME NEW near \in Seq(Facts), NEW facts \in Seq(Facts)
    PROVE  /\ Measured(Distances(near, facts))
           /\ DOMAIN Distances(near, facts) = Range(near) \cap Range(facts)
           /\ \A f \in DOMAIN Distances(near, facts) : Distances(near, facts)[f] = At(near, f)
           /\ \A f, g \in DOMAIN Distances(near, facts) :
                Distances(near, facts)[f] = Distances(near, facts)[g] => f = g
  <1> DEFINE d == Distances(near, facts)
  <1>1. d = [f \in Range(near) \cap Range(facts) |-> At(near, f)]
    BY DEF Distances
  <1> HIDE DEF d
  <1>2. Len(near) \in Nat /\ \A f \in Range(near) : At(near, f) \in 1..Len(near) /\ near[At(near, f)] = f
    BY AtIs
  <1>3. \A f \in DOMAIN d : d[f] \in 1..Len(near) /\ near[d[f]] = f
    BY <1>1, <1>2
  <1>4. d = [f \in DOMAIN d |-> d[f]]
    BY <1>1
  <1>5. d \in [DOMAIN d -> Nat \ {0}]
    BY <1>2, <1>3, <1>4
  <1>6. \A f \in DOMAIN d : d[f] <= Len(near)
    BY <1>2, <1>3
  <1> QED BY <1>1, <1>2, <1>3, <1>5, <1>6 DEF Measured, d

\* A fact is more or less relevant by a whole number.
LEMMA RelevanceIs ==
    ASSUME NEW w, World(w), NEW dist, Measured(dist), NEW f \in Facts
    PROVE  Relevance(w, dist, f) \in 0..1000
  <1> DEFINE ds == {dist[g] : g \in DOMAIN dist}
             base == IF f \notin DOMAIN dist THEN 300
                     ELSE IF Max(ds) = Min(ds) THEN 600
                     ELSE 600 + (400 * (Max(ds) - dist[f])) \div (Max(ds) - Min(ds))
             rel == base + (OrElse(w.conf[f], 75) - 75) \div 2
  <1>1. base \in Int
    <2>1. CASE f \notin DOMAIN dist
      BY <2>1
    <2>2. CASE f \in DOMAIN dist
      <3>1. PICK b \in Nat : \A g \in DOMAIN dist : dist[g] <= b
        BY DEF Measured
      <3>2. ds \in SUBSET (0..b) /\ ds # {} /\ dist[f] \in Nat
        BY <2>2, <3>1 DEF Measured
      <3> HIDE DEF ds
      <3>3. ds \in SUBSET Nat
        BY <3>2
      <3>4. Max(ds) \in ds /\ \A n \in ds : n <= Max(ds)
        BY <3>1, <3>2, MaxIs
      <3>5. Min(ds) \in ds
        BY <3>2, <3>3, MinIs
      <3>6. Max(ds) \in ds /\ Min(ds) \in ds /\ Min(ds) <= Max(ds)
        BY <3>4, <3>5
      <3>7. Max(ds) \in Nat /\ Min(ds) \in Nat
        BY <3>6, <3>3
      <3>8. CASE Max(ds) = Min(ds)
        BY <2>2, <3>8
      <3>9. CASE Max(ds) # Min(ds)
        <4>1. Max(ds) - Min(ds) \in Nat \ {0} /\ 400 * (Max(ds) - dist[f]) \in Int
          BY <3>2, <3>6, <3>7, <3>9
        <4>2. (400 * (Max(ds) - dist[f])) \div (Max(ds) - Min(ds)) \in Int
          <5> DEFINE a == 400 * (Max(ds) - dist[f])
                     c == Max(ds) - Min(ds)
          <5>1. a \in Int /\ c \in Nat \ {0}
            BY <4>1
          <5> HIDE DEF a, c
          <5>2. a \div c \in Int
            BY <5>1
          <5> QED BY <5>2 DEF a, c
        <4> QED BY <2>2, <3>9, <4>2
      <3> QED BY <3>8, <3>9
    <2> QED BY <2>1, <2>2
  <1> HIDE DEF base
  <1>2. OrElse(w.conf[f], 75) \in Int
    <2>1. w.conf[f] \in 0..100
      BY DEF World
    <2> QED BY <2>1 DEF OrElse
  <1>3. rel \in Int
    BY <1>1, <1>2
  <1> HIDE DEF rel
  <1>4. Min({1000, rel}) \in Int /\ Min({1000, rel}) <= 1000
    BY <1>3, MinOfTwo
  <1>5. Max({0, Min({1000, rel})}) \in 0..1000
    <2> DEFINE m == Min({1000, rel})
    <2>1. m \in Int /\ m <= 1000
      BY <1>4
    <2> HIDE DEF m
    <2>2. Max({0, m}) = IF 0 < m THEN m ELSE 0
      BY <2>1, MaxOfTwo
    <2>3. Max({0, m}) \in 0..1000
      BY <2>1, <2>2
    <2> QED BY <2>3 DEF m
  <1>6. Relevance(w, dist, f) = Max({0, Min({1000, rel})})
    BY DEF Relevance, rel, base
  <1> QED BY <1>5, <1>6

LEMMA RedundancyIs ==
    ASSUME NEW w, World(w), NEW f \in Facts, NEW sel \in Seq(Facts)
    PROVE  /\ Redundancy(w, f, sel) \in 0..1000
           /\ \/ Redundancy(w, f, sel) = 0
              \/ \E g \in Range(sel) :
                   HasVector(w, f) /\ HasVector(w, g) /\ Redundancy(w, f, sel) = 10 * w.sim[f][g]
  <1> DEFINE R == {h \in Range(sel) : HasVector(w, h)}
             T == {0} \cup {10 * w.sim[f][g] : g \in R}
  <1>1. R \subseteq Facts
    BY RangeIn
  <1> HIDE DEF R
  <1>2. \A g \in R : w.sim[f][g] \in 0..100
    BY <1>1 DEF World
  <1>3. T \in SUBSET (0..1000) /\ T # {}
    <2>1. ASSUME NEW g \in R PROVE 10 * w.sim[f][g] \in 0..1000
      <3> DEFINE a == w.sim[f][g]
      <3>1. a \in 0..100
        BY <1>2
      <3> HIDE DEF a
      <3>2. 10 * a \in 0..1000
        BY <3>1
      <3> QED BY <3>2 DEF a
    <2> DEFINE U == {10 * w.sim[f][g] : g \in R}
    <2>2. U \subseteq 0..1000
      BY <2>1
    <2> HIDE DEF U
    <2>3. {0} \cup U \in SUBSET (0..1000) /\ {0} \cup U # {}
      BY <2>2
    <2> QED BY <2>3 DEF U
  <1>4. Max(T) \in T
    <2> HIDE DEF T
    <2>1. 1000 \in Nat
      OBVIOUS
    <2> QED BY <1>3, <2>1, MaxIs
  <1>5. Redundancy(w, f, sel) = IF ~HasVector(w, f) THEN 0 ELSE Max(T)
    BY DEF Redundancy, R
  <1>6. CASE ~HasVector(w, f)
    BY <1>5, <1>6
  <1>7. CASE HasVector(w, f)
    <2>1. Redundancy(w, f, sel) \in T
      BY <1>4, <1>5, <1>7
    <2>2. Redundancy(w, f, sel) = 0 \/ \E g \in R : Redundancy(w, f, sel) = 10 * w.sim[f][g]
      BY <2>1
    <2>3. Redundancy(w, f, sel) \in 0..1000
      <3> HIDE DEF T
      <3> QED BY <1>3, <2>1
    <2> QED BY <1>7, <2>2, <2>3 DEF R
  <1> QED BY <1>6, <1>7

LEMMA ScoreIs ==
    ASSUME NEW w, World(w), NEW dist, Measured(dist), NEW f \in Facts, NEW sel \in Seq(Facts)
    PROVE  Score(w, dist, f, sel) \in Int
  <1> DEFINE a == Relevance(w, dist, f)
             b == Redundancy(w, f, sel)
  <1>1. a \in 0..1000
    BY RelevanceIs
  <1>2. b \in 0..1000
    BY RedundancyIs
  <1>3. Score(w, dist, f, sel) = 7 * a - 3 * b
    BY DEF Score
  <1> HIDE DEF a, b
  <1> QED BY <1>1, <1>2, <1>3

\* Diversity picks k facts, each once, or all there are; and each pick was at its
\* turn at least as good as every fact that was not picked in the end.
LEMMA MMRIs ==
    ASSUME NEW w, World(w), NEW dist, Measured(dist), NEW facts \in Seq(Facts), NEW k \in Nat
    PROVE  LET s == MMR(w, dist, facts, k) IN
           /\ s \in Seq(Facts) /\ Range(s) \subseteq Range(facts) /\ IsInjective(s)
           /\ Len(s) = k \/ Range(s) = Range(facts)
           /\ \A j \in 1..Len(s) : \A g \in Range(facts) \ Range(s) : \E sel \in Seq(Facts) :
                (j = 1 => sel = <<>>) /\ Score(w, dist, s[j], sel) >= Score(w, dist, g, sel)
  <1> DEFINE all == Range(facts)
             rest(sel) == all \ Range(sel)
             Best(sel) == CHOOSE f \in rest(sel) :
                            \A g \in rest(sel) \ {f} : Better(w, dist, facts, f, g, sel)
             step == [i \in 1..k |-> [sel \in Seq(Facts) |->
                        IF rest(sel) = {} THEN sel ELSE Append(sel, Best(sel))]]
             Won(f, g, j) == \E sel \in Seq(Facts) :
                               (j = 1 => sel = <<>>) /\ Score(w, dist, f, sel) >= Score(w, dist, g, sel)
             Good(x, i) == /\ Range(x) \subseteq all /\ IsInjective(x)
                           /\ Len(x) = i \/ Range(x) = all
                           /\ \A j \in 1..Len(x) : \A g \in rest(x) : Won(x[j], g, j)
             Holds == [i \in 0..k |-> {x \in Seq(Facts) : Good(x, i)}]
  <1>1. all \in SUBSET Facts /\ IsFiniteSet(all)
    BY RangeIn, SomeFacts
  <1>2. ASSUME NEW sel \in Seq(Facts), rest(sel) # {}
        PROVE  /\ Best(sel) \in rest(sel)
               /\ \A g \in rest(sel) : Score(w, dist, Best(sel), sel) >= Score(w, dist, g, sel)
    <2> DEFINE S == rest(sel)
               key == [f \in S |-> Score(w, dist, f, sel)]
               tie == [f \in S |-> At(facts, f)]
               ahead == [f \in S |-> {g \in S : key[g] > key[f] \/ (key[g] = key[f] /\ tie[g] < tie[f])}]
    <2>1. S \in SUBSET all /\ IsFiniteSet(S)
      BY <1>1, FS_Subset
    <2> HIDE DEF all
    <2>2. key \in [S -> Int]
      <3>1. \A f \in S : Score(w, dist, f, sel) \in Int
        BY <1>1, <2>1, ScoreIs
      <3> QED BY <3>1
    <2>3. \A f \in S : At(facts, f) \in Nat /\ facts[At(facts, f)] = f
      <3>1. ASSUME NEW f \in S PROVE At(facts, f) \in Nat /\ facts[At(facts, f)] = f
        <4>1. f \in Range(facts)
          BY <2>1 DEF all
        <4>2. At(facts, f) \in 1..Len(facts) /\ facts[At(facts, f)] = f
          BY <4>1, AtIs
        <4> QED BY <4>2
      <3> QED BY <3>1
    <2>4. tie \in [S -> Int] /\ \A f, g \in S : tie[f] = tie[g] => f = g
      BY <2>3
    <2>5. S # {}
      BY <1>2
    <2> HIDE DEF S
    <2>6. Ordering(S, ahead)
      <3> HIDE DEF key, tie
      <3> QED BY <2>1, <2>2, <2>4, OrderingBy
    <2>7. PICK f \in S : \A g \in S \ {f} : f \in ahead[g]
      <3> HIDE DEF ahead
      <3> QED BY <2>5, <2>6, FirstOf
    <2>8. \A g \in S \ {f} : Better(w, dist, facts, f, g, sel)
      BY <2>7 DEF Better
    <2>9. Best(sel) \in S /\ \A g \in S \ {Best(sel)} : Better(w, dist, facts, Best(sel), g, sel)
      <3>1. \E e \in rest(sel) : \A g \in rest(sel) \ {e} : Better(w, dist, facts, e, g, sel)
        BY <2>8 DEF S
      <3>2. /\ Best(sel) \in rest(sel)
            /\ \A g \in rest(sel) \ {Best(sel)} : Better(w, dist, facts, Best(sel), g, sel)
        <4> HIDE DEF rest
        <4> QED BY <3>1
      <3> QED BY <3>2 DEF S
    <2>10. \A g \in S : Score(w, dist, g, sel) \in Int
      BY <1>1, <2>1, ScoreIs
    <2> DEFINE b == Best(sel)
    <2> HIDE DEF Best
    <2>11. \A g \in S : Score(w, dist, b, sel) >= Score(w, dist, g, sel)
      BY <2>9, <2>10 DEF Better
    <2> QED BY <2>9, <2>11 DEF S
  <1>3. <<>> \in Holds[0]
    <2>1. Good(<<>>, 0)
      BY DEF Range, IsInjective
    <2> HIDE DEF Good
    <2> QED BY <2>1
  <1> HIDE DEF Best
  <1>4. ASSUME NEW i \in 1..k, NEW x \in Holds[i - 1] PROVE step[i][x] \in Holds[i]
    <2>1. i - 1 \in 0..k /\ i \in 0..k
      OBVIOUS
    <2>2. x \in Seq(Facts) /\ Good(x, i - 1) /\ Len(x) \in Nat
      BY <2>1
    <2>3. CASE rest(x) = {}
      <3>1. step[i][x] = x
        BY <2>2, <2>3
      <3>2. Range(x) = all
        BY <2>2, <2>3
      <3>3. Good(x, i)
        BY <2>2, <3>2
      <3> HIDE DEF Good, step
      <3> QED BY <2>1, <2>2, <3>1, <3>3
    <2>4. CASE rest(x) # {}
      <3> DEFINE b == Best(x)
                 y == Append(x, b)
      <3>1. b \in all /\ b \notin Range(x) /\ \A g \in rest(x) : Score(w, dist, b, x) >= Score(w, dist, g, x)
        BY <1>2, <2>2, <2>4
      <3>2. step[i][x] = y
        BY <2>2, <2>4
      <3> HIDE DEF b
      <3>3. /\ y \in Seq(Facts) /\ Len(y) = Len(x) + 1 /\ Range(y) = Range(x) \cup {b}
            /\ IsInjective(y)
        BY <1>1, <2>2, <3>1, OneMore
      <3>4. y[Len(x) + 1] = b /\ \A j \in 1..Len(x) : y[j] = x[j]
        BY <2>2, <1>1, <3>1
      <3> HIDE DEF y
      <3>5. Len(x) = i - 1
        BY <2>2, <2>4
      <3>6. ASSUME NEW j \in 1..Len(y), NEW g \in rest(y) PROVE Won(y[j], g, j)
        <4>1. g \in rest(x) /\ Len(x) \in Nat
          BY <2>2, <3>3, <3>6
        <4>2. CASE j = Len(x) + 1
          <5>1. Score(w, dist, b, x) >= Score(w, dist, g, x)
            BY <3>1, <4>1
          <5>2. j = 1 => x = <<>>
            BY <2>2, <4>2
          <5> QED BY <2>2, <3>4, <4>2, <5>1, <5>2
        <4>3. CASE j # Len(x) + 1
          <5>1. j \in 1..Len(x)
            BY <3>3, <4>1, <4>3
          <5> HIDE DEF Won
          <5> QED BY <2>2, <3>4, <4>1, <5>1
        <4> QED BY <4>2, <4>3
      <3>7. Good(y, i)
        <4> HIDE DEF Won
        <4> QED BY <2>2, <3>1, <3>3, <3>5, <3>6
      <3> HIDE DEF Good, step
      <3> QED BY <2>1, <3>2, <3>3, <3>7
    <2> QED BY <2>3, <2>4
  <1>5. Repeat(step, <<>>, k) \in Holds[k]
    <2> HIDE DEF Holds, step
    <2> QED BY <1>3, <1>4, RepeatKeeps
  <1>6. MMR(w, dist, facts, k) = Repeat(step, <<>>, k)
    BY DEF MMR, Best
  <1>7. MMR(w, dist, facts, k) \in Seq(Facts) /\ Good(MMR(w, dist, facts, k), k)
    <2> HIDE DEF Good, step
    <2> QED BY <1>5, <1>6
  <1> QED BY <1>7

LEMMA BeatsIs ==
    ASSUME NEW w, World(w), NEW S \in SUBSET Facts
    PROVE  Ordering(S, [f \in S |-> {g \in S : Beats(w, g, f)}])
  <1> DEFINE ahead == [f \in S |-> {g \in S : Beats(w, g, f)}]
  <1>1. IsFiniteSet(S) /\ ahead \in [S -> SUBSET S] /\ \A f, g \in S : g \in ahead[f] <=> Beats(w, g, f)
    BY SomeFacts
  <1>2. \A f \in S : w.created[f] \in Nat /\ w.conf[f] \in Nat /\ f \in Nat
    <2>1. S \subseteq Nat
      BY SomeFacts
    <2>2. ASSUME NEW f \in S PROVE w.created[f] \in Nat /\ w.conf[f] \in Nat
      <3>1. w.created[f] \in Nat /\ w.conf[f] \in 0..100
        BY DEF World
      <3> QED BY <3>1
    <2> QED BY <2>1, <2>2
  <1> HIDE DEF ahead
  <1>3. \A f, g \in S : f # g => f \in ahead[g] \/ g \in ahead[f]
    BY <1>1, <1>2 DEF Beats
  <1>4. \A f \in S : f \notin ahead[f]
    BY <1>1, <1>2 DEF Beats
  <1>5. \A f, g, h \in S : g \in ahead[f] /\ h \in ahead[g] => h \in ahead[f]
    BY <1>1, <1>2 DEF Beats
  <1> QED BY <1>1, <1>3, <1>4, <1>5 DEF Ordering, ahead

\* What the last dedup keeps: of every cluster the fact that no other beats.
Wins(w, facts, i) ==
    \A j \in DOMAIN facts \ {i} :
      Root(Clusters(w, facts), j) = Root(Clusters(w, facts), i) => Beats(w, facts[i], facts[j])

LEMMA TemporalDedupIs ==
    ASSUME NEW w, NEW facts \in Seq(Facts)
    PROVE  /\ TemporalDedup(w, facts) \in Seq(Facts)
           /\ \A f : f \in Range(TemporalDedup(w, facts)) <=>
                       \E i \in DOMAIN facts : f = facts[i] /\ Wins(w, facts, i)
           /\ Range(TemporalDedup(w, facts)) \subseteq Range(facts)
  <1> DEFINE S == {facts[i] : i \in {j \in DOMAIN facts : Wins(w, facts, j)}}
             T == {i \in DOMAIN facts : \A j \in {m \in DOMAIN facts :
                     Root(Clusters(w, facts), m) = Root(Clusters(w, facts), i)} \ {i} :
                       Beats(w, facts[i], facts[j])}
  <1>1. TemporalDedup(w, facts) = Kept(facts, {facts[i] : i \in T})
    BY DEF TemporalDedup
  <1>2. T = {j \in DOMAIN facts : Wins(w, facts, j)}
    BY DEF Wins
  <1> HIDE DEF T
  <1>3. TemporalDedup(w, facts) = Kept(facts, S)
    BY <1>1, <1>2
  <1>4. S \subseteq Range(facts)
    BY DEF Range
  <1> HIDE DEF S
  <1>5. Kept(facts, S) \in Seq(Facts) /\ Range(Kept(facts, S)) = Range(facts) \cap S
    BY KeptIs
  <1>6. Range(Kept(facts, S)) = S
    BY <1>4, <1>5
  <1>7. \A f : f \in S <=> \E i \in DOMAIN facts : f = facts[i] /\ Wins(w, facts, i)
    BY DEF S
  <1> QED BY <1>3, <1>4, <1>5, <1>6, <1>7

LEMMA WinnerOf ==
    ASSUME NEW w, World(w), NEW facts \in Seq(Facts), IsInjective(facts), NEW i \in DOMAIN facts
    PROVE  \E j \in DOMAIN facts :
             /\ Root(Clusters(w, facts), j) = Root(Clusters(w, facts), i)
             /\ Wins(w, facts, j) /\ (j = i \/ Beats(w, facts[j], facts[i]))
  <1> DEFINE root(j) == Root(Clusters(w, facts), j)
             S == {facts[j] : j \in {m \in DOMAIN facts : root(m) = root(i)}}
             ahead == [f \in S |-> {g \in S : Beats(w, g, f)}]
  <1>1. S \in SUBSET Facts /\ facts[i] \in S
    <2>1. \A j \in DOMAIN facts : facts[j] \in Facts
      OBVIOUS
    <2> QED BY <2>1
  <1>2. \A f : f \in S => \E j \in DOMAIN facts : f = facts[j] /\ root(j) = root(i)
    OBVIOUS
  <1>3. \A j \in DOMAIN facts : root(j) = root(i) => facts[j] \in S
    OBVIOUS
  <1> HIDE DEF S
  <1>4. PICK f \in S : \A g \in S \ {f} : f \in ahead[g]
    <2>1. Ordering(S, ahead)
      BY <1>1, BeatsIs
    <2> HIDE DEF ahead
    <2> QED BY <1>1, <2>1, FirstOf
  <1>5. \A g \in S \ {f} : Beats(w, f, g)
    BY <1>4
  <1>6. PICK j \in DOMAIN facts : f = facts[j] /\ root(j) = root(i)
    BY <1>2
  <1> HIDE DEF root
  <1>7. ASSUME NEW m \in DOMAIN facts, m # j, root(m) = root(j) PROVE Beats(w, facts[j], facts[m])
    <2>1. facts[m] \in S /\ facts[m] # f
      BY <1>3, <1>6, <1>7 DEF IsInjective
    <2> QED BY <1>5, <1>6, <2>1
  <1>8. Wins(w, facts, j)
    BY <1>7 DEF Wins, root
  <1>9. j = i \/ Beats(w, facts[j], facts[i])
    BY <1>6, <1>7
  <1> QED BY <1>6, <1>8, <1>9 DEF root

LEMMA DedupLeaves ==
    ASSUME NEW w, World(w), NEW facts \in Seq(Facts), IsInjective(facts), TemporalDedup(w, facts) = <<>>
    PROVE  facts = <<>>
  <1>1. Range(<<>>) = {}
    BY DEF Range
  <1> SUFFICES ASSUME facts # <<>> PROVE FALSE
    OBVIOUS
  <1>2. 1 \in DOMAIN facts
    OBVIOUS
  <1>3. PICK j \in DOMAIN facts : Wins(w, facts, j)
    BY <1>2, WinnerOf
  <1>4. facts[j] \in Range(TemporalDedup(w, facts))
    BY <1>3, TemporalDedupIs
  <1> QED BY <1>1, <1>4

\* The two caps of a search: there is room for a candidate, and for as many facts
\* of the graph as the candidates leave of it.
LEMMA CapIs ==
    ASSUME NEW cap \in Nat \ {0}, NEW primary \in Seq(Facts), NEW enum \in BOOLEAN
    PROVE  /\ GraphCap(cap, primary, enum) \in Nat
           /\ ~enum => GraphCap(cap, primary, enum) =
                         IF GraphReserve < cap - Len(primary) THEN cap - Len(primary) ELSE GraphReserve
  <1> DEFINE a == cap - Len(primary)
             T == {GraphReserve, a} \cup (IF enum THEN {MaxFacts} ELSE {})
             c == CHOOSE x \in T : \A y \in T : x >= y
  <1>1. a \in Int /\ GraphReserve \in Nat /\ MaxFacts \in Nat
    BY CapsAssumption
  <1>2. GraphCap(cap, primary, enum) = c
    BY DEF GraphCap, Max
  <1> HIDE DEF a
  <1>3. \E x \in T : \A y \in T : x >= y
    <2>1. CASE enum
      <3>1. T = {GraphReserve, a, MaxFacts}
        BY <2>1
      <3> DEFINE b == IF a > GraphReserve THEN a ELSE GraphReserve
                 d == IF b > MaxFacts THEN b ELSE MaxFacts
      <3>2. d \in T /\ \A y \in T : d >= y
        <4> HIDE DEF T
        <4> QED BY <1>1, <3>1
      <3> HIDE DEF T, d
      <3> QED BY <3>2
    <2>2. CASE ~enum
      <3>1. T = {GraphReserve, a}
        BY <2>2
      <3> DEFINE b == IF a > GraphReserve THEN a ELSE GraphReserve
      <3>2. b \in T /\ \A y \in T : b >= y
        <4> HIDE DEF T
        <4> QED BY <1>1, <3>1
      <3> HIDE DEF T, b
      <3> QED BY <3>2
    <2> QED BY <2>1, <2>2
  <1>4. c \in T /\ \A y \in T : c >= y
    <2> HIDE DEF T
    <2> QED BY <1>3
  <1> HIDE DEF c
  <1>5. T \subseteq Int /\ GraphReserve \in T
    BY <1>1
  <1>6. c \in Nat
    <2> HIDE DEF T
    <2> QED BY <1>1, <1>4, <1>5
  <1>7. ~enum => c = IF GraphReserve < a THEN a ELSE GraphReserve
    BY <1>1, <1>4
  <1> QED BY <1>2, <1>6, <1>7 DEF a

LEMMA PrimaryIs ==
    ASSUME NEW w, NEW cands \in Seq(Facts), NEW cap \in Nat \ {0}
    PROVE  LET s == DedupByContent(w, cands, PrimaryCap(cap)) IN
           /\ s \in Seq(Facts) /\ Range(s) \subseteq Range(cands)
           /\ Len(s) <= IF 1 < cap - GraphReserve THEN cap - GraphReserve ELSE 1
           /\ s = <<>> => cands = <<>>
           /\ PrimaryCap(cap) \in Nat \ {0}
  <1> DEFINE m == PrimaryCap(cap)
  <1>1. m = (IF 1 < cap - GraphReserve THEN cap - GraphReserve ELSE 1) /\ m \in Nat \ {0}
    BY CapsAssumption, MaxOfTwo DEF PrimaryCap
  <1> HIDE DEF m
  <1>2. /\ DedupByContent(w, cands, m) \in Seq(Facts)
        /\ Range(DedupByContent(w, cands, m)) \subseteq Range(cands)
        /\ Len(DedupByContent(w, cands, m)) <= m
        /\ DedupByContent(w, cands, m) = <<>> => cands = <<>>
    BY <1>1, DedupIs
  <1> QED BY <1>1, <1>2 DEF m

-----------------------------------------------------------------------------
(***************************************************************************)
(* One search.                                                             *)
(***************************************************************************)
\* The stages `p` a result `r` went through.
Stages(w, st, q, enum, integ, embedded, reranks, r, p) ==
    /\ p.k \in Nat \ {0} /\ p.cap \in Nat \ {0} /\ (enum => p.cap = MaxFacts)
    /\ p.found = Candidates(w, st, q, p.k, embedded) /\ p.found \in Seq(Facts)
    /\ p.kept = (IF reranks THEN Rerank(w, p.found, enum \/ integ) ELSE p.found)
    /\ p.kept \in Seq(Facts) /\ Range(p.kept) \subseteq Range(p.found)
    /\ p.cands = Eligible(w, st, p.kept) /\ p.cands \in Seq(Facts) /\ IsInjective(p.cands)
    /\ p.primary = DedupByContent(w, p.cands, PrimaryCap(p.cap))
    /\ p.primary \in Seq(Facts) /\ p.near \in Seq(Facts)
    /\ p.dist = Distances(p.near, p.primary) /\ Measured(p.dist)
    /\ p.hop \in Seq(Facts) /\ Range(p.hop) \subseteq LiveFacts(st) \ Range(p.primary)
    /\ IsInjective(p.hop) /\ Len(p.hop) <= GraphCap(p.cap, p.primary, enum)
    /\ p.pool = MMR(w, p.dist, p.primary \o p.hop, p.cap) /\ p.pool \in Seq(Facts)
    /\ r = [facts |-> TemporalDedup(w, p.pool), pool |-> p.pool, k |-> p.k,
            cands |-> p.cands, near |-> p.near, cap |-> p.cap, enum |-> enum,
            live |-> LiveFacts(st), dead |-> {f \in Facts : st[f] = "superseded"}]

LEMMA SearchIs ==
    ASSUME NEW w, World(w), NEW st \in StatusType, NEW q \in Queries, NEW top \in Nat \ {0},
           NEW enum \in BOOLEAN, NEW integ \in BOOLEAN, NEW embedded \in BOOLEAN, NEW reranks \in BOOLEAN,
           NEW r \in Searches(w, st, q, top, enum, integ, embedded, reranks)
    PROVE  \E p : Stages(w, st, q, enum, integ, embedded, reranks, r, p)
  <1> DEFINE k == Widened(top, enum \/ integ)
             cap == Min({k, MaxFacts})
             found == Candidates(w, st, q, k, embedded)
             kept == IF reranks THEN Rerank(w, found, enum \/ integ) ELSE found
             cands == Eligible(w, st, kept)
             primary == DedupByContent(w, cands, PrimaryCap(cap))
             near == NearRows(w, st, q, k, embedded)
             dist == Distances(near, primary)
             most == GraphCap(cap, primary, enum)
             pool(h) == MMR(w, dist, primary \o h, cap)
             Result(h) == [facts |-> TemporalDedup(w, pool(h)), pool |-> pool(h), k |-> k,
                     cands |-> cands, near |-> near, cap |-> cap, enum |-> enum,
                     live |-> LiveFacts(st), dead |-> {f \in Facts : st[f] = "superseded"}]
  <1>1. Searches(w, st, q, top, enum, integ, embedded, reranks) =
          {Result(h) : h \in GraphPicks(w, st, cands, primary, most)}
    BY DEF Searches
  <1>2. PICK hop \in GraphPicks(w, st, cands, primary, most) : r = Result(hop)
    <2> HIDE DEF Result, primary, cands, near, most
    <2> QED BY <1>1
  <1>3. k \in Nat \ {0} /\ (enum => k >= MaxFacts)
    <2>1. MaxFacts \in Nat \ {0}
      BY CapsAssumption
    <2>2. Max({top, MaxFacts}) = IF top < MaxFacts THEN MaxFacts ELSE top
      BY <2>1, MaxOfTwo
    <2> QED BY <2>1, <2>2 DEF Widened
  <1> HIDE DEF k
  <1>4. cap \in Nat \ {0} /\ (enum => cap = MaxFacts)
    <2>1. MaxFacts \in Nat \ {0}
      BY CapsAssumption
    <2>2. cap = IF k < MaxFacts THEN k ELSE MaxFacts
      BY <1>3, <2>1, MinOfTwo
    <2> HIDE DEF cap
    <2> QED BY <1>3, <2>1, <2>2
  <1> HIDE DEF cap
  <1>5. found \in Seq(Facts) /\ IsInjective(found)
    BY <1>3, CandidatesAre
  <1> HIDE DEF found
  <1>6. kept \in Seq(Facts) /\ Range(kept) \subseteq Range(found) /\ IsInjective(kept)
    BY <1>5, RerankIs
  <1> HIDE DEF kept
  <1>7. cands \in Seq(Facts) /\ IsInjective(cands)
    BY <1>6, EligibleAre
  <1> HIDE DEF cands
  <1>8. primary \in Seq(Facts)
    BY <1>4, <1>7, PrimaryIs
  <1> HIDE DEF primary
  <1>9. near \in Seq(Facts) /\ Measured(dist)
    <2>1. near \in Seq(Facts)
      <3>1. 2 * k \in Nat
        BY <1>3
      <3> QED BY <3>1, NearestIs DEF NearRows
    <2> HIDE DEF near
    <2> QED BY <1>8, <2>1, DistancesAre
  <1> HIDE DEF dist, near
  <1>10. most \in Nat
    BY <1>4, <1>8, CapIs
  <1> HIDE DEF most
  <1>11. /\ hop \in Seq(Facts) /\ Range(hop) \subseteq LiveFacts(st) \ Range(primary)
         /\ IsInjective(hop) /\ Len(hop) <= most
    BY <1>2, <1>10, PicksAre
  <1>12. primary \o hop \in Seq(Facts)
    BY <1>8, <1>11
  <1> DEFINE got == pool(hop)
  <1>13. got \in Seq(Facts)
    <2>1. cap \in Nat
      BY <1>4
    <2> QED BY <1>9, <1>12, <2>1, MMRIs
  <1>14. /\ got = MMR(w, dist, primary \o hop, cap)
         /\ r = [facts |-> TemporalDedup(w, got), pool |-> got, k |-> k,
                 cands |-> cands, near |-> near, cap |-> cap, enum |-> enum,
                 live |-> LiveFacts(st), dead |-> {f \in Facts : st[f] = "superseded"}]
    BY <1>2
  <1> HIDE DEF got
  <1>15. found = Candidates(w, st, q, k, embedded)
    BY DEF found
  <1>16. kept = (IF reranks THEN Rerank(w, found, enum \/ integ) ELSE found)
    BY DEF kept
  <1>17. cands = Eligible(w, st, kept)
    BY DEF cands
  <1>18. primary = DedupByContent(w, cands, PrimaryCap(cap))
    BY DEF primary
  <1>19. dist = Distances(near, primary)
    BY DEF dist
  <1>20. most = GraphCap(cap, primary, enum)
    BY DEF most
  <1> DEFINE p == [k |-> k, cap |-> cap, found |-> found, kept |-> kept, cands |-> cands,
                   primary |-> primary, near |-> near, dist |-> dist, hop |-> hop, pool |-> got]
  <1>21. Stages(w, st, q, enum, integ, embedded, reranks, r, p)
    BY <1>3, <1>4, <1>5, <1>6, <1>7, <1>8, <1>9, <1>11, <1>13, <1>14, <1>15, <1>16, <1>17, <1>18,
       <1>19, <1>20 DEF Stages
  <1> QED BY <1>21

LEMMA SearchLive ==
    ASSUME NEW w, World(w), NEW st \in StatusType, NEW q \in Queries, NEW enum \in BOOLEAN,
           NEW integ \in BOOLEAN, NEW embedded \in BOOLEAN, NEW reranks \in BOOLEAN, NEW r, NEW p,
           Stages(w, st, q, enum, integ, embedded, reranks, r, p)
    PROVE  Range(r.facts) \subseteq r.live
  <1>1. Stages(w, st, q, enum, integ, embedded, reranks, r, p)
    OBVIOUS
  <1>2. Range(p.cands) \subseteq LiveFacts(st)
    BY <1>1, EligibleAre DEF Stages
  <1>3. Range(p.primary) \subseteq Range(p.cands)
    BY <1>1, PrimaryIs DEF Stages
  <1>4. p.primary \o p.hop \in Seq(Facts) /\ Range(p.primary \o p.hop) \subseteq LiveFacts(st)
    <2>1. p.primary \in Seq(Facts) /\ p.hop \in Seq(Facts) /\ Range(p.hop) \subseteq LiveFacts(st)
      BY <1>1 DEF Stages
    <2>2. /\ p.primary \o p.hop \in Seq(Facts)
          /\ Range(p.primary \o p.hop) = Range(p.primary) \cup Range(p.hop)
      BY <2>1, RangeOfBoth
    <2> QED BY <1>2, <1>3, <2>1, <2>2
  <1>5. Range(p.pool) \subseteq Range(p.primary \o p.hop)
    <2>1. p.pool = MMR(w, p.dist, p.primary \o p.hop, p.cap) /\ p.cap \in Nat /\ Measured(p.dist)
      BY <1>1 DEF Stages
    <2> DEFINE s == p.primary \o p.hop
    <2>2. s \in Seq(Facts)
      BY <1>4
    <2> HIDE DEF s
    <2>3. Range(MMR(w, p.dist, s, p.cap)) \subseteq Range(s)
      BY <2>1, <2>2, MMRIs
    <2> QED BY <2>1, <2>3 DEF s
  <1>6. Range(TemporalDedup(w, p.pool)) \subseteq Range(p.pool)
    BY <1>1, TemporalDedupIs DEF Stages
  <1>7. r.facts = TemporalDedup(w, p.pool) /\ r.live = LiveFacts(st)
    BY <1>1 DEF Stages
  <1> QED BY <1>4, <1>5, <1>6, <1>7

\* A crowd has every row that is not live or hardly believed, and then every
\* fact under the reranker's floor.
Crowds(w, st, reranks, refused, crowd) ==
    /\ crowd \subseteq Facts /\ refused \subseteq crowd
    /\ \A f \in Rows(st) \ refused : f \in LiveFacts(st) \/ HasVector(w, f) =>
         f \in LiveFacts(st) /\ OrElse(w.conf[f], 100) >= ConfidenceFloor
    /\ \A f \in LiveFacts(st) : reranks /\ refused # {} /\ w.score[f] < RerankFloor => f \in crowd

\* A search that finds nothing was crowded: `refused` are the facts its filters
\* take out whatever the query.
LEMMA SearchEmpty ==
    ASSUME NEW w, World(w), NEW st \in StatusType, NEW q \in Queries, NEW enum \in BOOLEAN,
           NEW integ \in BOOLEAN, NEW embedded \in BOOLEAN, NEW reranks \in BOOLEAN, NEW r, NEW p,
           Stages(w, st, q, enum, integ, embedded, reranks, r, p), r.facts = <<>>,
           NEW refused, NEW crowd, Crowds(w, st, reranks, refused, crowd),
           NEW f \in LiveFacts(st), HasVector(w, f), OrElse(w.conf[f], 100) >= ConfidenceFloor
    PROVE  f \in crowd \/ Cardinality(crowd) >= 2 * r.k
  <1>1. Stages(w, st, q, enum, integ, embedded, reranks, r, p)
    OBVIOUS
  <1>2. /\ crowd \subseteq Facts /\ refused \subseteq crowd
         /\ \A g \in LiveFacts(st) : reranks /\ refused # {} /\ w.score[g] < RerankFloor => g \in crowd
    BY DEF Crowds
  <1> DEFINE s == p.primary \o p.hop
             fits(g) == g \in LiveFacts(st) /\ OrElse(w.conf[g], 100) >= ConfidenceFloor
  <1>3. p.primary \in Seq(Facts) /\ p.hop \in Seq(Facts) /\ p.cap \in Nat \ {0} /\ Measured(p.dist)
    BY <1>1 DEF Stages
  <1>4. s \in Seq(Facts) /\ Range(s) = Range(p.primary) \cup Range(p.hop)
    BY <1>3, RangeOfBoth
  <1>5. p.pool = MMR(w, p.dist, s, p.cap) /\ p.pool \in Seq(Facts) /\ r.facts = TemporalDedup(w, p.pool)
    BY <1>1 DEF Stages
  <1> HIDE DEF s
  <1>6. IsInjective(p.pool) /\ (Len(p.pool) = p.cap \/ Range(p.pool) = Range(s))
    <2>1. LET m == MMR(w, p.dist, s, p.cap) IN
          IsInjective(m) /\ (Len(m) = p.cap \/ Range(m) = Range(s))
      BY <1>3, <1>4, MMRIs
    <2> QED BY <1>5, <2>1
  <1>7. p.pool = <<>>
    BY <1>5, <1>6, DedupLeaves
  <1>8. Range(p.primary) = {}
    <2>1. Len(<<>>) = 0 /\ Range(<<>>) = {}
      BY DEF Range
    <2> QED BY <1>3, <1>4, <1>6, <1>7, <2>1
  <1>9. p.primary = <<>>
    BY <1>3, <1>8, EmptyIs
  <1>10. p.cands = <<>>
    <2>1. p.cands \in Seq(Facts) /\ p.primary = DedupByContent(w, p.cands, PrimaryCap(p.cap))
      BY <1>1 DEF Stages
    <2> QED BY <1>3, <1>9, <2>1, PrimaryIs
  <1>11. \A g \in Range(p.kept) : ~fits(g)
    <2>1. /\ p.kept \in Seq(Facts) /\ p.cands = Eligible(w, st, p.kept)
      BY <1>1 DEF Stages
    <2>2. Range(p.cands) = {g \in Range(p.kept) : fits(g)}
      BY <2>1, EligibleAre
    <2>3. Range(p.cands) = {}
      BY <1>10 DEF Range
    <2> QED BY <2>2, <2>3
  <1>12. /\ p.found = Candidates(w, st, q, p.k, embedded) /\ p.found \in Seq(Facts) /\ p.k \in Nat
         /\ p.kept = (IF reranks THEN Rerank(w, p.found, enum \/ integ) ELSE p.found)
         /\ Range(p.kept) \subseteq Range(p.found) /\ r.k = p.k
    BY <1>1 DEF Stages
  <1>13. /\ IsInjective(p.found)
         /\ Range(p.found) \subseteq {g \in Rows(st) : g \in LiveFacts(st) \/ HasVector(w, g)}
         /\ Len(p.found) = 2 * p.k \/ \A g \in LiveFacts(st) : HasVector(w, g) => g \in Range(p.found)
    BY <1>12, CandidatesAre
  <1>14. \A g \in Range(p.found) : fits(g) \/ g \in refused
    BY <1>13 DEF Crowds
  <1> HIDE DEF fits
  <1>15. ASSUME NEW g \in Range(p.found) PROVE g \in crowd
    <2>1. CASE g \in refused
      BY <1>2, <2>1
    <2>2. CASE fits(g)
      <3>1. g \notin Range(p.kept)
        BY <1>11, <2>2
      <3>2. reranks /\ p.kept = Rerank(w, p.found, enum \/ integ)
        BY <1>12, <3>1
      <3>3. w.score[g] < RerankFloor /\ Range(p.kept) # {}
        <4> DEFINE wide == enum \/ integ
        <4>1. wide \in BOOLEAN /\ g \in Range(p.found) \ Range(Rerank(w, p.found, wide))
          BY <1>15, <3>1, <3>2
        <4> HIDE DEF wide
        <4>2. w.score[g] < RerankFloor /\ Range(Rerank(w, p.found, wide)) # {}
          BY <1>12, <4>1, RerankIs
        <4> QED BY <3>2, <4>2 DEF wide
      <3>4. PICK h \in Range(p.kept) : TRUE
        BY <3>3
      <3>5. h \in refused
        BY <1>11, <1>12, <1>13, <1>14, <3>4
      <3> QED BY <1>2, <2>2, <3>2, <3>3, <3>5 DEF fits
    <2> QED BY <1>13, <1>14, <2>1, <2>2
  <1>16. CASE f \in Range(p.found)
    BY <1>15, <1>16
  <1>17. CASE Len(p.found) = 2 * p.k
    <2>1. IsFiniteSet(Range(p.found)) /\ Cardinality(Range(p.found)) = Len(p.found)
      BY <1>12, <1>13, CountOf
    <2>2. Range(p.found) \subseteq crowd
      BY <1>15
    <2>3. IsFiniteSet(crowd)
      BY <1>2, SomeFacts
    <2>4. Cardinality(Range(p.found)) <= Cardinality(crowd)
      BY <2>2, <2>3, FS_Subset
    <2> QED BY <1>12, <1>17, <2>1, <2>4
  <1> QED BY <1>13, <1>16, <1>17

-----------------------------------------------------------------------------
(***************************************************************************)
(* The clusters of near-duplicates. A forest of positions: r[m] is the     *)
(* root of m and h[m] how far it is from it, which is less than its tree   *)
(* has positions. Joining hangs the root of a tree under another root.     *)
(***************************************************************************)
Tree(N, r, m) == {x \in 1..N : r[x] = r[m]}
Forest(N, p, r, h) ==
    /\ p \in [1..N -> 1..N] /\ r \in [1..N -> 1..N] /\ h \in [1..N -> Nat]
    /\ \A m \in 1..N : r[p[m]] = r[m] /\ p[r[m]] = r[m] /\ r[r[m]] = r[m] /\ h[r[m]] = 0
    /\ \A m \in 1..N : m # r[m] => h[p[m]] < h[m]
    /\ \A m \in 1..N : h[m] < Cardinality(Tree(N, r, m))

LEMMA TreeIs ==
    ASSUME NEW N \in Nat, NEW r, NEW m
    PROVE  /\ IsFiniteSet(Tree(N, r, m)) /\ Cardinality(Tree(N, r, m)) \in Nat
           /\ Cardinality(Tree(N, r, m)) <= N
  <1>1. IsFiniteSet(1..N) /\ Cardinality(1..N) = N
    BY FS_Interval
  <1>2. Tree(N, r, m) \in SUBSET (1..N)
    BY DEF Tree
  <1>3. IsFiniteSet(Tree(N, r, m)) /\ Cardinality(Tree(N, r, m)) <= N
    BY <1>1, <1>2, FS_Subset
  <1> QED BY <1>3, FS_CardinalityType

\* As many steps up as there are positions end at the root.
LEMMA RootIs ==
    ASSUME NEW N \in Nat, NEW p, NEW r, NEW h, Forest(N, p, r, h), NEW m \in 1..N
    PROVE  Root(p, m) = r[m]
  <1> DEFINE step == [n \in 1..N |-> p]
             Holds == [i \in 0..N |-> {x \in 1..N : r[x] = r[m] /\ (h[x] + i <= h[m] \/ x = r[m])}]
  <1>1. p \in [1..N -> 1..N] /\ h \in [1..N -> Nat] /\ r \in [1..N -> 1..N]
    BY DEF Forest
  <1>2. p \in Seq(1..N) /\ Len(p) = N
    BY <1>1
  <1>3. m \in Holds[0]
    BY <1>1
  <1>4. ASSUME NEW i \in 1..N, NEW x \in Holds[i - 1] PROVE step[i][x] \in Holds[i]
    <2>1. i - 1 \in 0..N /\ step[i][x] = p[x]
      OBVIOUS
    <2>2. x \in 1..N /\ r[x] = r[m] /\ (h[x] + (i - 1) <= h[m] \/ x = r[m])
      BY <2>1
    <2>3. p[x] \in 1..N /\ r[p[x]] = r[m]
      BY <1>1, <2>2 DEF Forest
    <2>4. h[p[x]] + i <= h[m] \/ p[x] = r[m]
      <3>1. CASE x = r[m]
        BY <3>1 DEF Forest
      <3>2. CASE x # r[m]
        <4>1. h[p[x]] < h[x] /\ h[p[x]] \in Nat /\ h[x] \in Nat /\ h[m] \in Nat
          BY <1>1, <2>2, <2>3, <3>2 DEF Forest
        <4> QED BY <2>2, <3>2, <4>1
      <3> QED BY <3>1, <3>2
    <2>5. p[x] \in Holds[i]
      BY <2>3, <2>4
    <2> QED BY <2>1, <2>5
  <1>5. Repeat(step, m, N) \in Holds[N]
    <2> HIDE DEF Holds, step
    <2> QED BY <1>3, <1>4, RepeatKeeps
  <1>6. Root(p, m) = Repeat(step, m, N)
    BY <1>2 DEF Root
  <1> HIDE DEF step
  <1>7. Root(p, m) \in 1..N /\ (h[Root(p, m)] + N <= h[m] \/ Root(p, m) = r[m])
    BY <1>5, <1>6
  <1>8. h[m] < N /\ h[m] \in Nat /\ h[Root(p, m)] \in Nat
    <2>1. h[m] < Cardinality(Tree(N, r, m)) /\ h[m] \in Nat /\ h[Root(p, m)] \in Nat
      BY <1>1, <1>7 DEF Forest
    <2> QED BY <2>1, TreeIs
  <1> QED BY <1>7, <1>8

LEMMA UnionIs ==
    ASSUME NEW N \in Nat, NEW p, NEW r, NEW h, Forest(N, p, r, h), NEW i \in 1..N, NEW j \in 1..N
    PROVE  \E s, g : Forest(N, Union(p, i, j), s, g)
                     /\ \A m \in 1..N : s[m] = IF r[m] = r[j] THEN r[i] ELSE r[m]
  <1> DEFINE a == r[i]
             b == r[j]
             q == Union(p, i, j)
             s == [m \in 1..N |-> IF r[m] = b THEN a ELSE r[m]]
             g == [m \in 1..N |-> IF r[m] = b THEN h[m] + 1 ELSE h[m]]
  <1>1. /\ p \in [1..N -> 1..N] /\ r \in [1..N -> 1..N] /\ h \in [1..N -> Nat]
        /\ \A m \in 1..N : r[p[m]] = r[m] /\ p[r[m]] = r[m] /\ r[r[m]] = r[m] /\ h[r[m]] = 0
        /\ \A m \in 1..N : m # r[m] => h[p[m]] < h[m]
        /\ \A m \in 1..N : h[m] < Cardinality(Tree(N, r, m))
    BY DEF Forest
  <1>2. q = [p EXCEPT ![b] = a]
    <2>1. Root(p, i) = r[i] /\ Root(p, j) = r[j]
      BY RootIs
    <2> QED BY <2>1 DEF Union
  <1>3. a \in 1..N /\ b \in 1..N /\ p[a] = a /\ p[b] = b /\ r[a] = a /\ r[b] = b /\ h[a] = 0 /\ h[b] = 0
    BY <1>1
  <1> HIDE DEF q, a, b
  <1>4. CASE a = b
    <2>1. q = p
      BY <1>1, <1>2, <1>3, <1>4
    <2>2. s = r
      BY <1>1, <1>4
    <2>3. \A m \in 1..N : s[m] = IF r[m] = b THEN a ELSE r[m]
      OBVIOUS
    <2> HIDE DEF s
    <2>4. Forest(N, q, s, h)
      BY <2>1, <2>2
    <2> QED BY <2>3, <2>4 DEF q, a, b
  <1>5. CASE a # b
    <2>1. q \in [1..N -> 1..N] /\ q[b] = a /\ \A m \in 1..N \ {b} : q[m] = p[m]
      BY <1>1, <1>2, <1>3
    <2>2. /\ s \in [1..N -> 1..N] /\ g \in [1..N -> Nat]
          /\ \A m \in 1..N : s[m] = (IF r[m] = b THEN a ELSE r[m])
          /\ \A m \in 1..N : g[m] = (IF r[m] = b THEN h[m] + 1 ELSE h[m])
      BY <1>1, <1>3
    <2> HIDE DEF s, g
    <2>3. ASSUME NEW m \in 1..N
          PROVE  s[q[m]] = s[m] /\ q[s[m]] = s[m] /\ s[s[m]] = s[m] /\ g[s[m]] = 0
      <3>1. s[a] = a /\ g[a] = 0 /\ q[a] = a
        BY <1>3, <1>5, <2>1, <2>2
      <3>2. CASE r[m] = b
        <4>1. s[m] = a
          BY <2>2, <3>2
        <4>2. s[q[m]] = a
          BY <1>1, <1>3, <2>1, <2>2, <3>1, <3>2
        <4> QED BY <3>1, <4>1, <4>2
      <3>3. CASE r[m] # b
        <4>1. s[m] = r[m] /\ m # b /\ q[m] = p[m] /\ r[m] \in 1..N /\ p[m] \in 1..N
          BY <1>1, <1>3, <2>1, <2>2, <3>3
        <4>2. r[r[m]] = r[m] /\ p[r[m]] = r[m] /\ h[r[m]] = 0 /\ r[p[m]] = r[m]
          BY <1>1
        <4>3. s[r[m]] = r[m] /\ g[r[m]] = 0 /\ q[r[m]] = r[m] /\ s[p[m]] = r[m]
          BY <2>1, <2>2, <3>3, <4>1, <4>2
        <4> QED BY <4>1, <4>3
      <3> QED BY <3>2, <3>3
    <2>4. ASSUME NEW m \in 1..N, m # s[m] PROVE g[q[m]] < g[m]
      <3>1. h[m] \in Nat /\ p[m] \in 1..N /\ h[p[m]] \in Nat /\ r[p[m]] = r[m]
        BY <1>1
      <3>2. CASE m = b
        <4>1. q[m] = a /\ r[m] = b /\ h[m] = 0
          BY <1>3, <2>1, <3>2
        <4>2. g[m] = 1
          <5>1. g[m] = IF r[m] = b THEN h[m] + 1 ELSE h[m]
            BY <2>2
          <5> QED BY <4>1, <5>1
        <4>3. g[a] = 0
          BY <1>3, <1>5, <2>2
        <4> QED BY <4>1, <4>2, <4>3
      <3>3. CASE m # b
        <4>1. q[m] = p[m] /\ m # r[m]
          BY <2>1, <2>2, <2>4, <3>3
        <4>2. h[p[m]] < h[m]
          BY <1>1, <4>1
        <4>3. /\ g[m] = (IF r[m] = b THEN h[m] + 1 ELSE h[m])
              /\ g[p[m]] = (IF r[m] = b THEN h[p[m]] + 1 ELSE h[p[m]])
          BY <2>2, <3>1
        <4> QED BY <3>1, <4>1, <4>2, <4>3
      <3> QED BY <3>2, <3>3
    <2>5. ASSUME NEW m \in 1..N PROVE g[m] < Cardinality(Tree(N, s, m))
      <3>1. h[m] \in Nat /\ h[m] < Cardinality(Tree(N, r, m))
        BY <1>1
      <3>2. IsFiniteSet(Tree(N, r, m)) /\ Cardinality(Tree(N, r, m)) \in Nat
            /\ IsFiniteSet(Tree(N, s, m)) /\ Cardinality(Tree(N, s, m)) \in Nat
        BY TreeIs
      <3>3. Tree(N, r, m) \subseteq Tree(N, s, m)
        BY <2>2 DEF Tree
      <3>4. CASE r[m] = b
        <4>1. a \notin Tree(N, r, m) /\ a \in Tree(N, s, m)
          BY <1>3, <1>5, <2>2, <3>4 DEF Tree
        <4> DEFINE T == Tree(N, r, m) \cup {a}
        <4>2. IsFiniteSet(T) /\ Cardinality(T) = Cardinality(Tree(N, r, m)) + 1
          BY <3>2, <4>1, FS_AddElement
        <4>3. T \in SUBSET Tree(N, s, m)
          BY <3>3, <4>1
        <4> HIDE DEF T
        <4>4. Cardinality(T) <= Cardinality(Tree(N, s, m))
          BY <3>2, <4>3, FS_Subset
        <4>5. g[m] = h[m] + 1
          BY <2>2, <3>4
        <4> QED BY <3>1, <3>2, <4>2, <4>4, <4>5
      <3>5. CASE r[m] # b
        <4>1. Cardinality(Tree(N, r, m)) <= Cardinality(Tree(N, s, m))
          BY <3>2, <3>3, FS_Subset
        <4>2. g[m] = h[m]
          BY <2>2, <3>5
        <4> QED BY <3>1, <3>2, <4>1, <4>2
      <3> QED BY <3>4, <3>5
    <2>6. Forest(N, q, s, g)
      BY <2>1, <2>2, <2>3, <2>4, <2>5 DEF Forest
    <2> QED BY <2>2, <2>6 DEF q, a, b
  <1> QED BY <1>4, <1>5

\* Chains are closed: every fact ends one of itself, two make one, and a pair that
\* says the same makes one either way.
LEMMA ChainsClose ==
    ASSUME NEW w, NEW S
    PROVE  /\ \A f : Chained(w, S, f, f)
           /\ \A f, g, e : Chained(w, S, f, g) /\ Chained(w, S, g, e) => Chained(w, S, f, e)
           /\ \A f, g \in S : f # g /\ SameSubject(w, f, g) => Chained(w, S, f, g)
  BY DEF Chained

LEMMA SameSubjectBothWays ==
    ASSUME NEW w, World(w), NEW f \in Facts, NEW g \in Facts, SameSubject(w, f, g)
    PROVE  SameSubject(w, g, f)
  <1>1. w.sim[f][g] = w.sim[g][f]
    BY DEF World, Regular
  <1> QED BY <1>1 DEF SameSubject

\* What the loops have when they are past the pairs of the positions before i,
\* and of i with those up to j: facts of one tree are chained, and the pairs that
\* say the same are in one tree.
Past(a, b, i, j) == a < i \/ (a = i /\ b <= j)
Clustered(w, facts, p, i, j) ==
    LET N == Len(facts) IN
    \E r, h :
      /\ Forest(N, p, r, h)
      /\ \A a, b \in 1..N : r[a] = r[b] => Chained(w, Range(facts), facts[a], facts[b])
      /\ \A a, b \in 1..N :
           a < b /\ Past(a, b, i, j) /\ SameSubject(w, facts[a], facts[b]) => r[a] = r[b]

LEMMA JoinIs ==
    ASSUME NEW w, World(w), NEW facts \in Seq(Facts), IsInjective(facts),
           NEW i \in 1..Len(facts), NEW j \in 1..Len(facts),
           NEW p, Clustered(w, facts, p, i, j - 1)
    PROVE  Clustered(w, facts, IF i < j /\ SameSubject(w, facts[i], facts[j])
                               THEN Union(p, i, j) ELSE p, i, j)
  <1> DEFINE N == Len(facts)
             S == Range(facts)
             chained(a, b) == Chained(w, S, facts[a], facts[b])
             same(a, b) == SameSubject(w, facts[a], facts[b])
  <1>1. PICK r, h :
          /\ Forest(N, p, r, h)
          /\ \A a, b \in 1..N : r[a] = r[b] => chained(a, b)
          /\ \A a, b \in 1..N : a < b /\ Past(a, b, i, j - 1) /\ same(a, b) => r[a] = r[b]
    BY DEF Clustered
  <1>2. N \in Nat /\ DOMAIN facts = 1..N /\ \A a \in 1..N : facts[a] \in Facts /\ facts[a] \in S
    BY DEF Range
  <1>3. \A a, b \in 1..N : Past(a, b, i, j) => Past(a, b, i, j - 1) \/ (a = i /\ b = j)
    BY <1>2 DEF Past
  <1>4. CASE ~(i < j /\ same(i, j))
    <2>1. \A a, b \in 1..N : a < b /\ Past(a, b, i, j) /\ same(a, b) => r[a] = r[b]
      BY <1>1, <1>3, <1>4
    <2>2. Clustered(w, facts, p, i, j)
      BY <1>1, <2>1 DEF Clustered
    <2> QED BY <1>4, <2>2
  <1>5. CASE i < j /\ same(i, j)
    <2> DEFINE q == Union(p, i, j)
    <2>1. PICK s, g : /\ Forest(N, q, s, g)
                      /\ \A m \in 1..N : s[m] = IF r[m] = r[j] THEN r[i] ELSE r[m]
      <3>1. Forest(N, p, r, h)
        BY <1>1
      <3>2. i \in 1..N /\ j \in 1..N /\ N \in Nat
        BY <1>2
      <3> HIDE DEF N
      <3> QED BY <3>1, <3>2, UnionIs
    <2> HIDE DEF q
    <2>2. \A m \in 1..N : s[m] = IF r[m] = r[j] THEN r[i] ELSE r[m]
      BY <2>1
    <2>3. chained(i, j) /\ chained(j, i)
      <3>1. facts[i] # facts[j]
        BY <1>2, <1>5 DEF IsInjective
      <3>2. same(j, i)
        BY <1>2, <1>5, SameSubjectBothWays
      <3> HIDE DEF S
      <3> QED BY <1>2, <1>5, <3>1, <3>2, ChainsClose
    <2>4. \A a, b, c : chained(a, b) /\ chained(b, c) => chained(a, c)
      <3> HIDE DEF S
      <3> QED BY ChainsClose
    <2> HIDE DEF chained, same, N
    <2>5. ASSUME NEW a \in 1..N, NEW b \in 1..N, s[a] = s[b] PROVE chained(a, b)
      <3>1. CASE r[a] = r[b]
        BY <1>1, <3>1
      <3>2. CASE r[a] = r[j] /\ r[b] = r[i]
        <4>1. chained(a, j) /\ chained(i, b)
          BY <1>1, <1>2, <3>2 DEF N
        <4> QED BY <2>3, <2>4, <4>1
      <3>3. CASE r[a] = r[i] /\ r[b] = r[j]
        <4>1. chained(a, i) /\ chained(j, b)
          BY <1>1, <1>2, <3>3 DEF N
        <4> QED BY <2>3, <2>4, <4>1
      <3> QED BY <2>2, <2>5, <3>1, <3>2, <3>3
    <2>6. ASSUME NEW a \in 1..N, NEW b \in 1..N, a < b, Past(a, b, i, j), same(a, b)
          PROVE  s[a] = s[b]
      <3>1. CASE a = i /\ b = j
        BY <2>2, <3>1
      <3>2. CASE ~(a = i /\ b = j)
        <4>1. r[a] = r[b]
          BY <1>1, <1>3, <2>6, <3>2
        <4> QED BY <2>2, <4>1
      <3> QED BY <3>1, <3>2
    <2>7. Clustered(w, facts, q, i, j)
      BY <2>1, <2>5, <2>6 DEF Clustered, chained, same, N
    <2> QED BY <1>5, <2>7 DEF q, same
  <1> QED BY <1>4, <1>5

LEMMA ClustersAre ==
    ASSUME NEW w, World(w), NEW facts \in Seq(Facts), IsInjective(facts)
    PROVE  Clustered(w, facts, Clusters(w, facts), Len(facts), Len(facts))
  <1> DEFINE N == Len(facts)
             all == 1..Len(facts)
             Join(p, i, j) == IF i < j /\ SameSubject(w, facts[i], facts[j]) THEN Union(p, i, j) ELSE p
             inner(i) == [j \in all |-> [p \in [all -> all] |-> Join(p, i, j)]]
             Row(p, i) == Repeat(inner(i), p, N)
             outer == [i \in all |-> [p \in [all -> all] |-> Row(p, i)]]
             alone == [i \in all |-> i]
             Holds == [i \in 0..N |-> {p \in [all -> all] : Clustered(w, facts, p, i, N)}]
  <1>1. N \in Nat /\ all = 1..N
    OBVIOUS
  <1>2. Clusters(w, facts) = Repeat(outer, alone, N)
    BY DEF Clusters
  <1>3. \A p, i, j : Clustered(w, facts, p, i, j) => p \in [all -> all]
    BY DEF Clustered, Forest
  <1>4. alone \in Holds[0]
    <2> DEFINE h == [m \in all |-> 0]
    <2>1. Forest(N, alone, alone, h)
      <3>1. \A m \in all : h[m] < Cardinality(Tree(N, alone, m))
        <4>1. ASSUME NEW m \in all PROVE 0 < Cardinality(Tree(N, alone, m))
          <5>1. m \in Tree(N, alone, m)
            BY DEF Tree
          <5> HIDE DEF alone
          <5>2. IsFiniteSet(Tree(N, alone, m)) /\ Cardinality(Tree(N, alone, m)) \in Nat
            BY <1>1, TreeIs
          <5> QED BY <5>1, <5>2, FS_EmptySet
        <4> QED BY <4>1
      <3> QED BY <3>1 DEF Forest
    <2>2. \A a, b \in all : alone[a] = alone[b] => Chained(w, Range(facts), facts[a], facts[b])
      <3> HIDE DEF all
      <3>1. \A f : Chained(w, Range(facts), f, f)
        BY ChainsClose
      <3> QED BY <3>1
    <2>3. \A a, b \in all : a < b => ~Past(a, b, 0, N)
      BY DEF Past
    <2> HIDE DEF h
    <2>4. Clustered(w, facts, alone, 0, N)
      <3> HIDE DEF alone
      <3> QED BY <2>1, <2>2, <2>3 DEF Clustered
    <2>5. alone \in [all -> all]
      OBVIOUS
    <2> HIDE DEF alone
    <2> QED BY <2>4, <2>5
  <1>5. ASSUME NEW i \in 1..N, NEW p \in Holds[i - 1] PROVE outer[i][p] \in Holds[i]
    <2> DEFINE In == [j \in 0..N |-> {x \in [all -> all] : Clustered(w, facts, x, i, j)}]
    <2>1. i - 1 \in 0..N /\ i \in 0..N /\ p \in [all -> all] /\ Clustered(w, facts, p, i - 1, N)
      OBVIOUS
    <2>2. p \in In[0]
      <3>1. \A a, b \in 1..N : Past(a, b, i, 0) => Past(a, b, i - 1, N)
        BY DEF Past
      <3>2. Clustered(w, facts, p, i, 0)
        BY <2>1, <3>1 DEF Clustered
      <3> QED BY <2>1, <3>2
    <2>3. ASSUME NEW j \in 1..N, NEW x \in In[j - 1] PROVE inner(i)[j][x] \in In[j]
      <3>1. j - 1 \in 0..N /\ x \in [all -> all] /\ Clustered(w, facts, x, i, j - 1)
        OBVIOUS
      <3>2. inner(i)[j][x] = Join(x, i, j)
        BY <3>1
      <3>3. Clustered(w, facts, Join(x, i, j), i, j)
        BY <3>1, JoinIs
      <3> HIDE DEF Join
      <3>4. Join(x, i, j) \in [all -> all]
        BY <1>3, <3>3
      <3> HIDE DEF inner
      <3> QED BY <3>2, <3>3, <3>4
    <2>4. Row(p, i) \in In[N]
      <3> HIDE DEF In, inner
      <3> QED BY <1>1, <2>2, <2>3, RepeatKeeps
    <2>5. outer[i][p] = Row(p, i)
      BY <2>1
    <2>6. Row(p, i) \in [all -> all] /\ Clustered(w, facts, Row(p, i), i, N)
      <3> HIDE DEF Row
      <3> QED BY <2>4
    <2> HIDE DEF Row, outer
    <2> QED BY <2>1, <2>5, <2>6
  <1>6. Repeat(outer, alone, N) \in Holds[N]
    <2> HIDE DEF outer, alone, Holds
    <2> QED BY <1>1, <1>4, <1>5, RepeatKeeps
  <1> HIDE DEF outer, alone
  <1> QED BY <1>1, <1>2, <1>6

\* Two facts are in one cluster exactly when a chain of near-duplicates joins them.
LEMMA ClustersChain ==
    ASSUME NEW w, World(w), NEW facts \in Seq(Facts), IsInjective(facts),
           NEW i \in 1..Len(facts), NEW j \in 1..Len(facts)
    PROVE  Root(Clusters(w, facts), i) = Root(Clusters(w, facts), j)
             <=> Chained(w, Range(facts), facts[i], facts[j])
  <1> DEFINE N == Len(facts)
             S == Range(facts)
             C == Clusters(w, facts)
  <1>1. PICK r, h :
          /\ Forest(N, C, r, h)
          /\ \A a, b \in 1..N : r[a] = r[b] => Chained(w, S, facts[a], facts[b])
          /\ \A a, b \in 1..N : a < b /\ Past(a, b, N, N) /\ SameSubject(w, facts[a], facts[b])
                                  => r[a] = r[b]
    BY ClustersAre DEF Clustered
  <1>2. N \in Nat /\ DOMAIN facts = 1..N /\ \A a \in 1..N : facts[a] \in Facts
    OBVIOUS
  <1>3. Root(C, i) = r[i] /\ Root(C, j) = r[j]
    BY <1>1, <1>2, RootIs
  <1>4. \A a, b \in 1..N : SameSubject(w, facts[a], facts[b]) => r[a] = r[b]
    <2>1. ASSUME NEW a \in 1..N, NEW b \in 1..N, SameSubject(w, facts[a], facts[b]) PROVE r[a] = r[b]
      <3>1. SameSubject(w, facts[b], facts[a])
        BY <1>2, <2>1, SameSubjectBothWays
      <3>2. a < b \/ b < a \/ a = b
        OBVIOUS
      <3>3. Past(a, b, N, N) /\ Past(b, a, N, N)
        <4>1. a <= N /\ b <= N /\ a \in Int /\ b \in Int
          BY <1>2
        <4> HIDE DEF N
        <4> QED BY <1>2, <4>1 DEF Past
      <3> QED BY <1>1, <2>1, <3>1, <3>2, <3>3
    <2> QED BY <2>1
  <1>5. ASSUME Chained(w, S, facts[i], facts[j]) PROVE r[i] = r[j]
    <2> DEFINE R == {f \in S : \E m \in 1..N : f = facts[m] /\ r[m] = r[i]}
    <2>1. facts[i] \in R
      BY <1>2 DEF Range
    <2>2. ASSUME NEW e \in R, NEW f \in S \ {e}, SameSubject(w, e, f) PROVE f \in R
      <3>1. PICK m \in 1..N : e = facts[m] /\ r[m] = r[i]
        OBVIOUS
      <3>2. PICK n \in 1..N : f = facts[n]
        BY <1>2 DEF Range
      <3>3. r[n] = r[i]
        BY <1>4, <2>2, <3>1, <3>2
      <3> QED BY <3>2, <3>3
    <2>3. R \in SUBSET S
      OBVIOUS
    <2> HIDE DEF R
    <2>4. facts[j] \in R
      BY <1>5, <2>1, <2>2, <2>3 DEF Chained
    <2>5. PICK m \in 1..N : facts[j] = facts[m] /\ r[m] = r[i]
      BY <2>4 DEF R
    <2> QED BY <1>2, <2>5 DEF IsInjective
  <1> QED BY <1>1, <1>3, <1>5

-----------------------------------------------------------------------------
(***************************************************************************)
(* What a search returns, compared to what it had.                         *)
(***************************************************************************)
\* The candidates and the facts of the graph; what diversity picks of them is
\* there once.
Both(p) == p.primary \o p.hop

LEMMA PoolIs ==
    ASSUME NEW w, World(w), NEW st \in StatusType, NEW q \in Queries, NEW enum \in BOOLEAN,
           NEW integ \in BOOLEAN, NEW embedded \in BOOLEAN, NEW reranks \in BOOLEAN, NEW r, NEW p,
           Stages(w, st, q, enum, integ, embedded, reranks, r, p)
    PROVE  /\ Both(p) \in Seq(Facts) /\ Range(Both(p)) = Range(p.primary) \cup Range(p.hop)
           /\ p.pool \in Seq(Facts) /\ Range(p.pool) \subseteq Range(Both(p)) /\ IsInjective(p.pool)
           /\ Len(p.pool) = p.cap \/ Range(p.pool) = Range(Both(p))
           /\ \A j \in 1..Len(p.pool) : \A g \in Range(Both(p)) \ Range(p.pool) : \E sel \in Seq(Facts) :
                (j = 1 => sel = <<>>) /\ Score(w, p.dist, p.pool[j], sel) >= Score(w, p.dist, g, sel)
  <1> DEFINE s == Both(p)
             m == MMR(w, p.dist, s, p.cap)
  <1>1. p.primary \in Seq(Facts) /\ p.hop \in Seq(Facts) /\ p.cap \in Nat /\ Measured(p.dist)
    BY DEF Stages
  <1>2. s \in Seq(Facts) /\ Range(s) = Range(p.primary) \cup Range(p.hop)
    BY <1>1, RangeOfBoth DEF Both
  <1>3. p.pool = m
    BY DEF Stages, Both
  <1> HIDE DEF s
  <1>4. /\ m \in Seq(Facts) /\ Range(m) \subseteq Range(s) /\ IsInjective(m)
        /\ Len(m) = p.cap \/ Range(m) = Range(s)
        /\ \A j \in 1..Len(m) : \A g \in Range(s) \ Range(m) : \E sel \in Seq(Facts) :
             (j = 1 => sel = <<>>) /\ Score(w, p.dist, m[j], sel) >= Score(w, p.dist, g, sel)
    BY <1>1, <1>2, MMRIs
  <1> HIDE DEF m
  <1> QED BY <1>2, <1>3, <1>4 DEF s

LEMMA SearchNewest ==
    ASSUME NEW w, World(w), NEW st \in StatusType, NEW q \in Queries, NEW enum \in BOOLEAN,
           NEW integ \in BOOLEAN, NEW embedded \in BOOLEAN, NEW reranks \in BOOLEAN, NEW r, NEW p,
           Stages(w, st, q, enum, integ, embedded, reranks, r, p)
    PROVE  Range(r.facts) =
             {f \in Range(r.pool) :
                \A g \in Range(r.pool) \ {f} : Chained(w, Range(r.pool), f, g) => Beats(w, f, g)}
  <1> DEFINE s == p.pool
             S == Range(p.pool)
             C == Clusters(w, s)
  <1>1. s \in Seq(Facts) /\ IsInjective(s) /\ r.facts = TemporalDedup(w, s) /\ r.pool = s
    <2>1. r.facts = TemporalDedup(w, s) /\ r.pool = s
      BY DEF Stages
    <2> QED BY <2>1, PoolIs
  <1>2. DOMAIN s = 1..Len(s) /\ \A f : f \in S <=> \E i \in 1..Len(s) : f = s[i]
    BY <1>1 DEF Range
  <1> HIDE DEF s, S
  <1>3. ASSUME NEW i \in 1..Len(s)
        PROVE  Wins(w, s, i) <=> \A g \in S \ {s[i]} : Chained(w, S, s[i], g) => Beats(w, s[i], g)
    <2>1. \A j \in 1..Len(s) : Root(C, j) = Root(C, i) <=> Chained(w, S, s[i], s[j])
      BY <1>1, ClustersChain DEF s, S
    <2>2. \A j \in 1..Len(s) : j # i <=> s[j] # s[i]
      BY <1>1, <1>2 DEF IsInjective
    <2>3. Wins(w, s, i) <=> \A j \in 1..Len(s) : j # i /\ Root(C, j) = Root(C, i) => Beats(w, s[i], s[j])
      BY <1>2 DEF Wins
    <2> HIDE DEF C
    <2> QED BY <1>2, <2>1, <2>2, <2>3
  <1>4. \A f : f \in Range(TemporalDedup(w, s)) <=> \E i \in 1..Len(s) : f = s[i] /\ Wins(w, s, i)
    BY <1>1, <1>2, TemporalDedupIs
  <1>5. Range(TemporalDedup(w, s)) = {f \in S : \A g \in S \ {f} : Chained(w, S, f, g) => Beats(w, f, g)}
    BY <1>2, <1>3, <1>4
  <1> QED BY <1>1, <1>5 DEF s, S

\* What a fact's relevance says of its score.
LEMMA ScoreBounds ==
    ASSUME NEW w, World(w), NEW dist, Measured(dist), NEW f \in Facts, NEW sel \in Seq(Facts),
           NEW n \in Nat
    PROVE  /\ Relevance(w, dist, f) <= n => Score(w, dist, f, sel) <= 7 * n
           /\ Relevance(w, dist, f) >= n => Score(w, dist, f, sel) >= 7 * n - 3000
           /\ Relevance(w, dist, f) >= n /\ Range(sel) = {} => Score(w, dist, f, sel) >= 7 * n
  <1> DEFINE a == Relevance(w, dist, f)
             b == Redundancy(w, f, sel)
  <1>1. a \in 0..1000
    BY RelevanceIs
  <1>2. b \in 0..1000 /\ (Range(sel) = {} => b = 0)
    BY RedundancyIs
  <1>3. Score(w, dist, f, sel) = 7 * a - 3 * b
    BY DEF Score
  <1> HIDE DEF a, b
  <1>4. /\ a <= n => Score(w, dist, f, sel) <= 7 * n
        /\ a >= n => Score(w, dist, f, sel) >= 7 * n - 3000
        /\ a >= n /\ Range(sel) = {} => Score(w, dist, f, sel) >= 7 * n
    BY <1>1, <1>2, <1>3
  <1> QED BY <1>4 DEF a

LEMMA WholeOf ==
    ASSUME NEW x \in Nat \ {0}
    PROVE  (400 * x) \div x = 400
  OBVIOUS

\* A fact of the graph is less relevant than the closest of the candidates, or
\* than the only one.
Closest(dist) == {f \in DOMAIN dist : \A g \in DOMAIN dist : dist[f] <= dist[g]}

LEMMA RelevanceBounds ==
    ASSUME NEW w, World(w), NEW dist, Measured(dist), NEW f \in Facts
    PROVE  /\ f \notin DOMAIN dist => Relevance(w, dist, f) <= 312
           /\ DOMAIN dist = {f} /\ OrElse(w.conf[f], 100) >= ConfidenceFloor
                => Relevance(w, dist, f) >= 582
           /\ \A g \in DOMAIN dist :
                f \in Closest(dist) /\ OrElse(w.conf[f], 100) >= ConfidenceFloor /\ dist[g] # dist[f]
                  => Relevance(w, dist, f) >= 982
  <1> DEFINE ds == {dist[g] : g \in DOMAIN dist}
             base == IF f \notin DOMAIN dist THEN 300
                     ELSE IF Max(ds) = Min(ds) THEN 600
                     ELSE 600 + (400 * (Max(ds) - dist[f])) \div (Max(ds) - Min(ds))
             bonus == (OrElse(w.conf[f], 75) - 75) \div 2
             rel == base + bonus
  <1>1. /\ bonus \in Int /\ bonus <= 12
        /\ OrElse(w.conf[f], 100) >= ConfidenceFloor => bonus >= -18
    <2> DEFINE c == w.conf[f]
    <2>1. c \in 0..100
      BY DEF World
    <2> HIDE DEF c
    <2>2. /\ (OrElse(c, 75) - 75) \div 2 \in Int /\ (OrElse(c, 75) - 75) \div 2 <= 12
          /\ OrElse(c, 100) >= 40 => (OrElse(c, 75) - 75) \div 2 >= -18
      BY <2>1 DEF OrElse
    <2> QED BY <2>2 DEF c, ConfidenceFloor
  <1>2. Relevance(w, dist, f) = Max({0, Min({1000, rel})})
    BY DEF Relevance
  <1>3. ASSUME NEW n \in Int
        PROVE  /\ Max({0, Min({1000, n})}) \in Int
               /\ n >= 0 => Max({0, Min({1000, n})}) <= n
               /\ n >= 0 /\ n <= 1000 => Max({0, Min({1000, n})}) = n
               /\ n > 1000 => Max({0, Min({1000, n})}) = 1000
               /\ n < 0 => Max({0, Min({1000, n})}) = 0
    <2> DEFINE m == Min({1000, n})
    <2>1. m = IF 1000 < n THEN 1000 ELSE n
      BY MinOfTwo
    <2> HIDE DEF m
    <2>2. Max({0, m}) = IF 0 < m THEN m ELSE 0
      BY <2>1, MaxOfTwo
    <2>3. /\ Max({0, m}) \in Int /\ (n >= 0 => Max({0, m}) <= n)
          /\ (n >= 0 /\ n <= 1000 => Max({0, m}) = n)
          /\ (n > 1000 => Max({0, m}) = 1000) /\ (n < 0 => Max({0, m}) = 0)
      BY <2>1, <2>2
    <2> QED BY <2>3 DEF m
  <1> HIDE DEF bonus
  <1>4. ASSUME f \notin DOMAIN dist PROVE Relevance(w, dist, f) <= 312
    <2>1. rel = 300 + bonus
      BY <1>4
    <2> HIDE DEF rel
    <2> QED BY <1>1, <1>2, <1>3, <2>1
  <1>5. ASSUME DOMAIN dist = {f}, OrElse(w.conf[f], 100) >= ConfidenceFloor
        PROVE  Relevance(w, dist, f) >= 582
    <2>1. ds = {dist[f]} /\ dist[f] \in Nat
      BY <1>5 DEF Measured
    <2>2. Max(ds) = Min(ds)
      <3> HIDE DEF ds
      <3>1. ds \in SUBSET (0..dist[f]) /\ ds \in SUBSET Nat /\ ds # {}
        BY <2>1
      <3>2. Max(ds) \in ds /\ Min(ds) \in ds
        BY <2>1, <3>1, MaxIs, MinIs
      <3> QED BY <2>1, <3>2
    <2>3. rel = 600 + bonus
      <3> HIDE DEF ds
      <3> QED BY <1>5, <2>2
    <2> HIDE DEF rel
    <2> QED BY <1>1, <1>2, <1>3, <1>5, <2>3
  <1>6. ASSUME f \in Closest(dist), OrElse(w.conf[f], 100) >= ConfidenceFloor,
               NEW g \in DOMAIN dist, dist[g] # dist[f]
        PROVE  Relevance(w, dist, f) >= 982
    <2>1. PICK b \in Nat : \A e \in DOMAIN dist : dist[e] <= b
      BY DEF Measured
    <2>2. /\ ds \in SUBSET (0..b) /\ ds \in SUBSET Nat /\ ds # {} /\ dist[f] \in ds /\ dist[g] \in ds
          /\ \A n \in ds : dist[f] <= n
      BY <1>6, <2>1 DEF Measured, Closest
    <2> HIDE DEF ds
    <2>3. Max(ds) \in ds /\ (\A n \in ds : n <= Max(ds)) /\ Min(ds) \in ds /\ (\A n \in ds : Min(ds) <= n)
      BY <2>1, <2>2, MaxIs, MinIs
    <2>4. Min(ds) = dist[f] /\ Max(ds) \in Nat /\ Min(ds) \in Nat /\ Max(ds) > Min(ds)
      <3>1. /\ Max(ds) \in Nat /\ Min(ds) \in Nat /\ dist[f] \in Nat /\ dist[g] \in Nat
            /\ Min(ds) <= dist[f] /\ dist[f] <= Min(ds) /\ dist[f] <= dist[g] /\ dist[g] <= Max(ds)
        BY <2>2, <2>3
      <3> QED BY <1>6, <3>1
    <2> DEFINE x == Max(ds) - Min(ds)
    <2>5. x \in Nat \ {0} /\ Max(ds) - dist[f] = x
      BY <2>4
    <2>6. f \in DOMAIN dist /\ Max(ds) # Min(ds)
      BY <1>6, <2>4 DEF Closest
    <2>7. base = 600 + (400 * x) \div x
      BY <2>5, <2>6
    <2> HIDE DEF x, base
    <2>8. rel = 1000 + bonus
      BY <2>5, <2>7, <1>1, WholeOf
    <2> HIDE DEF rel
    <2>9. rel \in Int /\ rel >= 982
      BY <1>1, <1>6, <2>8
    <2>10. Max({0, Min({1000, rel})}) >= 982
      BY <1>3, <2>9
    <2> QED BY <1>2, <2>10
  <1> HIDE DEF rel, base, ds
  <1> QED BY <1>4, <1>5, <1>6

\* Only a fact of the graph could take the place of one of the candidates.
LEMMA SearchKeeps ==
    ASSUME NEW w, World(w), NEW st \in StatusType, NEW q \in Queries, NEW enum \in BOOLEAN,
           NEW integ \in BOOLEAN, NEW embedded \in BOOLEAN, NEW reranks \in BOOLEAN, NEW r, NEW p,
           Stages(w, st, q, enum, integ, embedded, reranks, r, p),
           NEW f \in DOMAIN p.dist, enum => f \in Closest(p.dist)
    PROVE  f \in Range(p.pool)
  <1> DEFINE s == Both(p)
             n == Len(p.primary)
             d == p.dist
             pool == p.pool
             k == p.cap
  <1>1. /\ k \in Nat \ {0} /\ (enum => k = MaxFacts)
        /\ p.primary \in Seq(Facts) /\ p.hop \in Seq(Facts) /\ Measured(d)
        /\ Range(p.hop) \subseteq LiveFacts(st) \ Range(p.primary)
        /\ Len(p.hop) <= GraphCap(k, p.primary, enum) /\ p.k \in Nat
        /\ p.cands = Eligible(w, st, p.kept) /\ p.kept \in Seq(Facts) /\ p.cands \in Seq(Facts)
        /\ p.primary = DedupByContent(w, p.cands, PrimaryCap(k))
        /\ p.near \in Seq(Facts) /\ d = Distances(p.near, p.primary)
    BY DEF Stages
  <1>2. f \in DOMAIN d /\ (enum => f \in Closest(d))
    OBVIOUS
  <1>3. n \in Nat
    BY <1>1
  <1>4. /\ s \in Seq(Facts) /\ Range(s) = Range(p.primary) \cup Range(p.hop)
        /\ pool \in Seq(Facts) /\ Range(pool) \subseteq Range(s) /\ IsInjective(pool)
        /\ Len(pool) = k \/ Range(pool) = Range(s)
        /\ \A j \in 1..Len(pool) : \A g \in Range(s) \ Range(pool) : \E sel \in Seq(Facts) :
             (j = 1 => sel = <<>>) /\ Score(w, d, pool[j], sel) >= Score(w, d, g, sel)
    BY PoolIs
  <1>5. /\ DOMAIN d \subseteq Range(p.primary)
        /\ \A a, b \in DOMAIN d : d[a] = d[b] => a = b
    <2> DEFINE e == Distances(p.near, p.primary)
    <2>1. p.near \in Seq(Facts) /\ p.primary \in Seq(Facts)
      BY <1>1
    <2>2. DOMAIN e = Range(p.near) \cap Range(p.primary)
      BY <2>1, DistancesAre
    <2>3. \A a, b \in DOMAIN e : e[a] = e[b] => a = b
      BY <2>1, DistancesAre, Zenon
    <2>4. d = e
      BY <1>1
    <2> HIDE DEF d, e
    <2> QED BY <2>2, <2>3, <2>4
  <1>6. f \in DOMAIN d /\ (enum => f \in Closest(d)) /\ f \in Range(p.primary) /\ f \in Facts
    <2>1. Range(p.primary) \subseteq Facts
      BY <1>1, RangeIn
    <2> QED BY <1>2, <1>5, <2>1
  <1>7. OrElse(w.conf[f], 100) >= ConfidenceFloor
    <2>1. Range(p.primary) \subseteq Range(p.cands)
      BY <1>1, PrimaryIs
    <2>2. f \in Range(p.cands)
      BY <1>6, <2>1
    <2> QED BY <1>1, <2>2, EligibleAre
  <1>8. n <= (IF 1 < k - GraphReserve THEN k - GraphReserve ELSE 1) /\ GraphReserve \in Nat \ {0}
    BY <1>1, PrimaryIs, CapsAssumption
  <1> SUFFICES ASSUME f \notin Range(pool) PROVE FALSE
    OBVIOUS
  <1> HIDE DEF s, n, d, pool, k
  <1>9. Len(pool) = k /\ f \in Range(s) \ Range(pool)
    BY <1>4, <1>6
  <1>10. ASSUME NEW g \in Facts, g \notin DOMAIN d, NEW sel \in Seq(Facts)
        PROVE  Score(w, d, g, sel) <= 2184 /\ Score(w, d, g, sel) \in Int
    <2>1. Relevance(w, d, g) <= 312
      BY <1>1, <1>10, RelevanceBounds
    <2>2. Score(w, d, g, sel) <= 7 * 312
      BY <1>1, <2>1, ScoreBounds
    <2> QED BY <1>1, <2>2, ScoreIs
  <1>11. \A j \in 1..Len(pool) : pool[j] \in Facts /\ pool[j] \in Range(pool)
    BY <1>4 DEF Range
  <1>12. CASE DOMAIN d = {f}
    <2>1. Relevance(w, d, f) >= 582
      BY <1>1, <1>6, <1>7, <1>12, RelevanceBounds
    <2>2. 1 \in 1..Len(pool)
      BY <1>1, <1>9
    <2>3. PICK sel \in Seq(Facts) : sel = <<>> /\ Score(w, d, pool[1], sel) >= Score(w, d, f, sel)
      BY <1>4, <1>9, <2>2
    <2>4. Score(w, d, f, sel) >= 7 * 582 /\ Score(w, d, f, sel) \in Int
      <3>1. Range(sel) = {}
        BY <2>3 DEF Range
      <3>2. Score(w, d, f, sel) >= 7 * 582
        BY <1>1, <1>6, <2>1, <3>1, ScoreBounds
      <3> QED BY <1>1, <1>6, <3>2, ScoreIs
    <2>5. pool[1] \in DOMAIN d
      <3> SUFFICES ASSUME pool[1] \notin DOMAIN d PROVE FALSE
        OBVIOUS
      <3>1. pool[1] \in Facts
        BY <1>11, <2>2
      <3>2. Score(w, d, pool[1], sel) <= 2184 /\ Score(w, d, pool[1], sel) \in Int
        BY <1>10, <3>1
      <3> QED BY <2>3, <2>4, <3>2
    <2> QED BY <1>9, <1>11, <1>12, <2>2, <2>5
  <1>13. CASE DOMAIN d # {f}
    <2>1. PICK g \in DOMAIN d : g # f
      BY <1>6, <1>13
    <2>2. 1 < k - GraphReserve /\ n <= k - GraphReserve
      <3>1. IsFiniteSet(Range(p.primary)) /\ Cardinality(Range(p.primary)) <= n
        BY <1>1, CountAtMost DEF n
      <3>2. {f, g} \in SUBSET Range(p.primary)
        BY <1>5, <1>6, <2>1
      <3>3. Cardinality({f, g}) = 2
        <4>1. IsFiniteSet({f}) /\ Cardinality({f}) = 1
          BY FS_Singleton
        <4>2. Cardinality({f} \cup {g}) = 2
          BY <2>1, <4>1, FS_AddElement
        <4>3. {f, g} = {f} \cup {g}
          OBVIOUS
        <4> QED BY <4>2, <4>3
      <3>4. Cardinality({f, g}) <= Cardinality(Range(p.primary)) /\ Cardinality(Range(p.primary)) \in Nat
        BY <3>1, <3>2, FS_Subset, FS_CardinalityType
      <3>5. 2 <= n
        BY <1>3, <3>1, <3>3, <3>4
      <3> QED BY <1>1, <1>8, <1>3, <3>5
    <2>3. IsFiniteSet(Range(pool)) /\ Cardinality(Range(pool)) = k
      BY <1>4, <1>9, CountOf
    <2>4. CASE ~enum
      <3>1. Len(p.hop) <= k - n
        <4>1. Len(p.hop) <= IF GraphReserve < k - n THEN k - n ELSE GraphReserve
          BY <1>1, <2>4, CapIs DEF n
        <4> QED BY <1>1, <1>8, <1>3, <2>2, <4>1
      <3>2. Len(s) <= k /\ Len(s) \in Nat
        <4>1. Len(s) = n + Len(p.hop) /\ Len(p.hop) \in Nat
          BY <1>1 DEF s, n, Both
        <4> QED BY <1>1, <1>3, <3>1, <4>1
      <3>3. IsFiniteSet(Range(s)) /\ Cardinality(Range(s)) <= Len(s) /\ Cardinality(Range(s)) \in Nat
        BY <1>4, CountAtMost, FS_CardinalityType
      <3>4. Cardinality(Range(pool)) <= Cardinality(Range(s))
        BY <1>4, <3>3, FS_Subset
      <3>5. Cardinality(Range(pool)) = Cardinality(Range(s))
        BY <1>1, <2>3, <3>2, <3>3, <3>4
      <3>6. Range(s) = Range(pool)
        BY <1>4, <3>3, <3>5, FS_Subset
      <3> QED BY <1>9, <3>6
    <2>5. CASE enum
      <3>1. PICK j \in 1..Len(pool) : pool[j] \notin Range(p.primary)
        <4> SUFFICES ASSUME \A j \in 1..Len(pool) : pool[j] \in Range(p.primary) PROVE FALSE
          OBVIOUS
        <4>1. Range(pool) \in SUBSET Range(p.primary)
          BY <1>4 DEF Range
        <4>2. IsFiniteSet(Range(p.primary)) /\ Cardinality(Range(p.primary)) <= n
              /\ Cardinality(Range(p.primary)) \in Nat
          BY <1>1, CountAtMost, FS_CardinalityType DEF n
        <4>3. Cardinality(Range(pool)) <= Cardinality(Range(p.primary))
          BY <4>1, <4>2, FS_Subset
        <4> QED BY <1>1, <1>8, <1>3, <2>2, <2>3, <4>2, <4>3
      <3>2. PICK sel \in Seq(Facts) : Score(w, d, pool[j], sel) >= Score(w, d, f, sel)
        BY <1>4, <1>9
      <3>3. Score(w, d, pool[j], sel) <= 2184 /\ Score(w, d, pool[j], sel) \in Int
        BY <1>5, <1>10, <1>11, <3>1
      <3>4. Relevance(w, d, f) >= 982
        <4>1. d[g] # d[f]
          BY <1>5, <1>6, <2>1
        <4>2. f \in Closest(d)
          BY <1>6, <2>5
        <4>3. Measured(d) /\ f \in Facts
          BY <1>1, <1>6
        <4>4. \A e \in DOMAIN d :
                f \in Closest(d) /\ OrElse(w.conf[f], 100) >= ConfidenceFloor /\ d[e] # d[f]
                  => Relevance(w, d, f) >= 982
          BY <4>3, RelevanceBounds
        <4> QED BY <1>7, <2>1, <4>1, <4>2, <4>4
      <3>5. Score(w, d, f, sel) >= 7 * 982 - 3000 /\ Score(w, d, f, sel) \in Int
        BY <1>1, <1>6, <3>4, ScoreBounds, ScoreIs
      <3> QED BY <3>2, <3>3, <3>5
    <2> QED BY <2>4, <2>5
  <1> QED BY <1>12, <1>13

LEMMA SearchKept ==
    ASSUME NEW w, World(w), NEW st \in StatusType, NEW q \in Queries, NEW enum \in BOOLEAN,
           NEW integ \in BOOLEAN, NEW embedded \in BOOLEAN, NEW reranks \in BOOLEAN, NEW r, NEW p,
           Stages(w, st, q, enum, integ, embedded, reranks, r, p),
           NEW f \in DOMAIN p.dist, enum => f \in Closest(p.dist)
    PROVE  \E g \in Range(r.facts) : g = f \/ (Chained(w, Range(r.pool), f, g) /\ Beats(w, g, f))
  <1> DEFINE s == p.pool
  <1>1. s \in Seq(Facts) /\ IsInjective(s) /\ r.facts = TemporalDedup(w, s) /\ r.pool = s
    <2>1. r.facts = TemporalDedup(w, s) /\ r.pool = s
      BY DEF Stages
    <2> QED BY <2>1, PoolIs
  <1>2. f \in Range(s)
    BY SearchKeeps
  <1> HIDE DEF s
  <1>3. PICK i \in DOMAIN s : f = s[i]
    BY <1>2 DEF Range
  <1>4. PICK j \in DOMAIN s :
          /\ Root(Clusters(w, s), j) = Root(Clusters(w, s), i)
          /\ Wins(w, s, j) /\ (j = i \/ Beats(w, s[j], s[i]))
    BY <1>1, WinnerOf
  <1>5. s[j] \in Range(TemporalDedup(w, s))
    BY <1>1, <1>4, TemporalDedupIs
  <1>6. Chained(w, Range(s), f, s[j])
    <2>1. DOMAIN s = 1..Len(s)
      BY <1>1
    <2>2. Root(Clusters(w, s), i) = Root(Clusters(w, s), j)
            <=> Chained(w, Range(s), s[i], s[j])
      BY <1>1, <2>1, ClustersChain
    <2> QED BY <1>3, <1>4, <2>2
  <1> QED BY <1>1, <1>3, <1>4, <1>5, <1>6

\* The first dedup takes the candidates that repeat none of themselves before
\* them, the first ones, as many as there is room for.
Taken(s, D, cap) == {f \in D : Cardinality({g \in D : At(s, g) < At(s, f)}) < cap}

LEMMA DedupTakes ==
    ASSUME NEW w, NEW s \in Seq(Facts), IsInjective(s), NEW cap \in Nat \ {0},
           NEW D \in SUBSET Range(s), Distinct(w, s, D)
    PROVE  Range(DedupByContent(w, s, cap)) = Taken(s, D, cap)
  <1> DEFINE n == Len(s)
             step == [i \in 1..n |-> [kept \in Seq(Facts) |->
                        IF Len(kept) >= cap \/ Repeats(w, s[i], kept) THEN kept
                        ELSE Append(kept, s[i])]]
             Upto(i) == {f \in D : At(s, f) <= i}
             Good(x, i) == /\ IsInjective(x) /\ Range(x) = Taken(s, D, cap) \cap Upto(i)
                           /\ Len(x) >= cap \/ Range(x) = Upto(i)
             Holds == [i \in 0..n |-> {x \in Seq(Facts) : Good(x, i)}]
  <1>1. n \in Nat /\ DOMAIN s = 1..n /\ D \in SUBSET Facts
    BY RangeIn
  <1>2. \A f \in Range(s) : At(s, f) \in 1..n /\ s[At(s, f)] = f
    BY AtIs
  <1>3. \A i \in 1..n : s[i] \in Facts /\ s[i] \in Range(s) /\ At(s, s[i]) = i
    <2> TAKE i \in 1..n
    <2>1. s[i] \in Facts /\ s[i] \in Range(s)
      BY <1>1 DEF Range
    <2> QED BY <1>1, <1>2, <2>1 DEF IsInjective
  <1>4. <<>> \in Holds[0]
    <2>1. Upto(0) = {}
      BY <1>1, <1>2
    <2>2. Good(<<>>, 0)
      BY <2>1 DEF Range, IsInjective
    <2> HIDE DEF Good
    <2> QED BY <1>1, <2>2
  <1>5. ASSUME NEW i \in 1..n, NEW x \in Holds[i - 1] PROVE step[i][x] \in Holds[i]
    <2> DEFINE e == s[i]
               before == {g \in D : At(s, g) < At(s, e)}
    <2>1. i - 1 \in 0..n /\ i \in 0..n /\ e \in Facts /\ e \in Range(s) /\ At(s, e) = i
      BY <1>1, <1>3
    <2>2. x \in Seq(Facts) /\ Good(x, i - 1) /\ Len(x) \in Nat
      BY <2>1
    <2>3. before = Upto(i - 1) /\ before \in SUBSET Facts
      <3>1. \A g \in D : At(s, g) \in Int
        BY <1>2
      <3> QED BY <1>1, <2>1, <3>1
    <2>4. Upto(i) = IF e \in D THEN Upto(i - 1) \cup {e} ELSE Upto(i - 1)
      <3>1. \A g \in D : At(s, g) \in Int /\ s[At(s, g)] = g
        BY <1>2
      <3>2. \A g \in D : At(s, g) <= i <=> At(s, g) <= i - 1 \/ g = e
        BY <1>1, <2>1, <3>1
      <3> QED BY <3>2
    <2>5. IsFiniteSet(Range(x)) /\ Cardinality(Range(x)) = Len(x)
      BY <2>2, CountOf
    <2>6. IsFiniteSet(before) /\ Cardinality(before) \in Nat
      BY <2>3, SomeFacts
    <2>7. Range(x) \subseteq before /\ Len(x) <= Cardinality(before)
      BY <2>2, <2>3, <2>5, <2>6, FS_Subset
    <2>8. e \in D <=> \A g \in before : ~SaysSame(w, e, g)
      BY <2>1 DEF Distinct
    <2>9. e \in Taken(s, D, cap) <=> e \in D /\ Cardinality(before) < cap
      BY DEF Taken
    <2>10. CASE Len(x) >= cap
      <3>1. step[i][x] = x
        BY <2>2, <2>10
      <3>2. e \notin Taken(s, D, cap)
        BY <2>2, <2>6, <2>7, <2>9, <2>10
      <3>3. Good(x, i)
        <4>1. Range(x) = Taken(s, D, cap) \cap Upto(i)
          <5> HIDE DEF Upto, e
          <5> QED BY <2>2, <2>4, <3>2
        <4> QED BY <2>2, <2>10, <4>1
      <3> HIDE DEF Good, step
      <3> QED BY <2>1, <2>2, <3>1, <3>3
    <2>11. CASE ~(Len(x) >= cap)
      <3>1. Range(x) = before /\ Cardinality(before) < cap
        BY <2>2, <2>3, <2>5, <2>11
      <3>2. Repeats(w, e, x) <=> e \notin D
        BY <2>8, <3>1 DEF Repeats
      <3>3. CASE e \in D
        <4>1. step[i][x] = Append(x, e)
          BY <2>2, <2>11, <3>2, <3>3
        <4>2. e \notin before
          BY <2>1
        <4>3. /\ Append(x, e) \in Seq(Facts) /\ Range(Append(x, e)) = Range(x) \cup {e}
              /\ IsInjective(Append(x, e))
          BY <2>1, <2>2, <3>1, <4>2, OneMore
        <4>4. Range(Append(x, e)) = Upto(i) /\ Range(Append(x, e)) = Taken(s, D, cap) \cap Upto(i)
          <5> HIDE DEF Upto, e, before
          <5> QED BY <2>2, <2>3, <2>4, <2>9, <3>1, <3>3, <4>3
        <4>5. Good(Append(x, e), i)
          BY <4>3, <4>4
        <4> HIDE DEF Good, step, e
        <4> QED BY <2>1, <4>1, <4>3, <4>5
      <3>4. CASE e \notin D
        <4>1. step[i][x] = x
          BY <2>2, <2>11, <3>2, <3>4
        <4>2. Good(x, i)
          <5>1. Upto(i) = Upto(i - 1)
            BY <2>4, <3>4
          <5> QED BY <2>2, <5>1
        <4> HIDE DEF Good, step
        <4> QED BY <2>1, <2>2, <4>1, <4>2
      <3> QED BY <3>3, <3>4
    <2> QED BY <2>10, <2>11
  <1>6. Repeat(step, <<>>, n) \in Holds[n]
    <2> HIDE DEF Holds, step, n
    <2> QED BY <1>1, <1>4, <1>5, RepeatKeeps
  <1>7. DedupByContent(w, s, cap) = Repeat(step, <<>>, n)
    BY DEF DedupByContent
  <1>8. Good(DedupByContent(w, s, cap), n)
    <2> HIDE DEF Good, step
    <2> QED BY <1>1, <1>6, <1>7
  <1>9. Taken(s, D, cap) \subseteq Upto(n)
    BY <1>2 DEF Taken
  <1> QED BY <1>8, <1>9

\* What a search owes is among its candidates that have a distance, and of an
\* enumeration the closest of them.
LEMMA SearchDue ==
    ASSUME NEW w, World(w), NEW st \in StatusType, NEW q \in Queries, NEW enum \in BOOLEAN,
           NEW integ \in BOOLEAN, NEW embedded \in BOOLEAN, NEW reranks \in BOOLEAN, NEW r, NEW p,
           Stages(w, st, q, enum, integ, embedded, reranks, r, p),
           NEW D \in SUBSET Range(r.cands), Distinct(w, r.cands, D), NEW f \in Due(r, D)
    PROVE  f \in DOMAIN p.dist /\ (enum => f \in Closest(p.dist))
  <1>1. /\ r.cands = p.cands /\ r.near = p.near /\ r.cap = p.cap /\ r.enum = enum
        /\ p.cands \in Seq(Facts) /\ IsInjective(p.cands) /\ p.cap \in Nat \ {0}
        /\ p.primary = DedupByContent(w, p.cands, PrimaryCap(p.cap)) /\ p.primary \in Seq(Facts)
        /\ p.near \in Seq(Facts) /\ p.dist = Distances(p.near, p.primary)
    BY DEF Stages
  <1>2. PrimaryCap(p.cap) \in Nat \ {0}
    BY <1>1, PrimaryIs
  <1>3. Range(p.primary) = Taken(p.cands, D, PrimaryCap(p.cap))
    BY <1>1, <1>2, DedupTakes
  <1>4. /\ DOMAIN p.dist = Range(p.near) \cap Range(p.primary)
        /\ \A g \in DOMAIN p.dist : p.dist[g] = At(p.near, g)
    <2> DEFINE e == Distances(p.near, p.primary)
    <2>1. /\ DOMAIN e = Range(p.near) \cap Range(p.primary)
          /\ \A g \in DOMAIN e : e[g] = At(p.near, g)
      BY <1>1, DistancesAre
    <2>2. p.dist = e
      BY <1>1
    <2> HIDE DEF e
    <2> QED BY <2>1, <2>2
  <1> DEFINE near == {g \in D \cap Range(r.near) :
                        Cardinality({h \in D : At(r.cands, h) < At(r.cands, g)}) < PrimaryCap(r.cap)}
  <1>5. near = DOMAIN p.dist
    BY <1>1, <1>3, <1>4 DEF Taken
  <1>6. f \in near /\ (r.enum => \A g \in near : At(r.near, f) <= At(r.near, g))
    BY DEF Due
  <1> HIDE DEF near
  <1> QED BY <1>1, <1>4, <1>5, <1>6 DEF Closest

-----------------------------------------------------------------------------
(***************************************************************************)
(* The turn.                                                               *)
(***************************************************************************)
LEMMA WorldIs ==
    ASSUME NEW w \in Worlds
    PROVE  World(w)
  <1>1. [near |-> w.near, sim |-> w.sim, score |-> w.score, ents |-> w.ents,
         related |-> w.related, created |-> w.created, conf |-> w.conf] \in WorldType
        /\ Regular(w)
    BY WorldsAssumption
  <1> QED BY <1>1 DEF WorldType, World

LEMMA TopsAre == PrePopK \in Nat \ {0} /\ ComplexK \in Nat \ {0} /\ SubK \in Nat \ {0}
  BY TopsAssumption

LEMMA SubQueriesAre ==
    ASSUME NEW a \in Asks
    PROVE  SubQueries(a) \in Seq(Queries)
  <1> DEFINE given == Take(a.subs, 4)
             step == [i \in 1..Len(given) |-> [s \in Seq(Queries) |->
                        IF given[i] = a.text \/ given[i] \in Range(s) THEN s
                        ELSE Append(s, given[i])]]
             Holds == [i \in 0..Len(given) |-> Seq(Queries)]
  <1>1. a.subs \in Seq(Queries)
    BY AsksAssumption DEF AskType
  <1>2. given \in Seq(Queries) /\ Len(given) \in Nat
    BY <1>1, TakeIs
  <1>3. SubQueries(a) = <<>> \/ SubQueries(a) = Repeat(step, <<>>, Len(given))
    BY DEF SubQueries
  <1> HIDE DEF given
  <1>4. <<>> \in Holds[0]
    BY <1>2
  <1>5. ASSUME NEW i \in 1..Len(given), NEW s \in Holds[i - 1] PROVE step[i][s] \in Holds[i]
    <2>1. s \in Seq(Queries) /\ given[i] \in Queries
      BY <1>2
    <2>2. step[i][s] \in Seq(Queries)
      BY <2>1
    <2> HIDE DEF step
    <2> QED BY <1>2, <2>2
  <1>6. Repeat(step, <<>>, Len(given)) \in Holds[Len(given)]
    <2> HIDE DEF step, Holds
    <2> QED BY <1>2, <1>4, <1>5, RepeatKeeps
  <1>7. Repeat(step, <<>>, Len(given)) \in Seq(Queries)
    BY <1>2, <1>6
  <1>8. <<>> \in Seq(Queries)
    OBVIOUS
  <1>9. SubQueries(a) \in {<<>>, Repeat(step, <<>>, Len(given))}
    <2> HIDE DEF step
    <2> QED BY <1>3
  <1> HIDE DEF step
  <1> DEFINE u == Repeat(step, <<>>, Len(given))
  <1> HIDE DEF u
  <1>10. SubQueries(a) \in {<<>>, u} /\ u \in Seq(Queries)
    BY <1>7, <1>9 DEF u
  <1> QED BY <1>8, <1>10

\* Merging drops no fact.
LEMMA MergeIs ==
    ASSUME NEW results, NEW S, results \in Seq(S), \A r \in S : r.facts \in Seq(Facts)
    PROVE  /\ Merge(results) \in Seq(Facts)
           /\ Merge(results) = <<>> => \A i \in 1..Len(results) : results[i].facts = <<>>
  <1> DEFINE n == Len(results)
             step == [i \in 1..n |-> [m \in Seq(Facts) |->
                        m \o Kept(results[i].facts, Facts \ Range(m))]]
             Good(x, i) == \A j \in 1..i : Range(results[j].facts) \subseteq Range(x)
             Holds == [i \in 0..n |-> {x \in Seq(Facts) : Good(x, i)}]
  <1>1. n \in Nat /\ \A i \in 1..n : results[i].facts \in Seq(Facts)
    OBVIOUS
  <1>2. <<>> \in Holds[0]
    <2>1. Good(<<>>, 0)
      OBVIOUS
    <2> HIDE DEF Good
    <2> QED BY <1>1, <2>1
  <1>3. ASSUME NEW i \in 1..n, NEW x \in Holds[i - 1] PROVE step[i][x] \in Holds[i]
    <2>1. i - 1 \in 0..n /\ i \in 0..n
      BY <1>1
    <2>2. x \in Seq(Facts) /\ Good(x, i - 1)
      BY <2>1
    <2> DEFINE f == results[i].facts
               k == Kept(f, Facts \ Range(x))
               y == x \o k
    <2>3. f \in Seq(Facts) /\ Range(f) \subseteq Facts
      BY <1>1, RangeIn
    <2> HIDE DEF f
    <2>4. k \in Seq(Facts) /\ Range(k) = Range(f) \cap (Facts \ Range(x))
      BY <2>3, KeptIs
    <2> HIDE DEF k
    <2>5. y \in Seq(Facts) /\ Range(y) = Range(x) \cup Range(k)
      BY <2>2, <2>4, RangeOfBoth
    <2>6. step[i][x] = y
      BY <2>2 DEF f, k
    <2> HIDE DEF y
    <2>7. Range(f) \subseteq Range(y) /\ Range(x) \subseteq Range(y)
      BY <2>3, <2>4, <2>5
    <2>8. Good(y, i)
      <3>1. ASSUME NEW j \in 1..i PROVE Range(results[j].facts) \subseteq Range(y)
        <4>1. CASE j = i
          BY <2>7, <4>1 DEF f
        <4>2. CASE j # i
          <5>1. j \in 1..(i - 1)
            BY <4>2
          <5> QED BY <2>2, <2>7, <5>1
        <4> QED BY <4>1, <4>2
      <3> QED BY <3>1
    <2> HIDE DEF Good, step
    <2> QED BY <2>1, <2>5, <2>6, <2>8
  <1>4. Repeat(step, <<>>, n) \in Holds[n]
    <2> HIDE DEF Holds, step, n
    <2> QED BY <1>1, <1>2, <1>3, RepeatKeeps
  <1>5. Merge(results) = Repeat(step, <<>>, n)
    BY DEF Merge
  <1>6. Merge(results) \in Seq(Facts) /\ Good(Merge(results), n)
    <2> HIDE DEF Good, step
    <2> QED BY <1>1, <1>4, <1>5
  <1>7. ASSUME Merge(results) = <<>>, NEW i \in 1..n PROVE results[i].facts = <<>>
    <2>1. Range(results[i].facts) = {}
      <3>1. Range(<<>>) = {}
        BY DEF Range
      <3>2. Range(results[i].facts) \subseteq Range(Merge(results))
        BY <1>6
      <3> QED BY <1>7, <3>1, <3>2
    <2> QED BY <1>1, <2>1, EmptyIs
  <1> QED BY <1>6, <1>7

-----------------------------------------------------------------------------
(***************************************************************************)
(* The invariant: what a turn has searched so far are searches of this     *)
(* store, and when the facts of its answer are none, so are theirs.        *)
(***************************************************************************)
TypesInv ==
    /\ world \in Worlds /\ status \in StatusType /\ rerank \in BOOLEAN
    /\ phase \in Phases
Searching ==
    /\ phase \in {"summary", "classify", "decompose", "embed", "episodes"} => ask \in Asks
    /\ phase = "embed" =>
         /\ plan.k \in {PrePopK, ComplexK, SubK} /\ plan.multi \in BOOLEAN
         /\ plan.queries \in Seq(Queries) /\ plan.queries # <<>>
         /\ plan.multi => Len(searches) < Len(plan.queries)
    /\ phase \in {"idle", "summary", "classify", "decompose"} => searches = <<>>
    /\ phase \notin {"episodes", "answered"} => answer = Nothing
Done(st, q, top, enum, integ, embedded) ==
    Searches(world, st, q, top, enum, integ, embedded, rerank)
Searched ==
    /\ searches \in Seq(Range(searches))
    /\ \A r \in Range(searches) :
         \E st \in StatusType, q \in Queries, top \in {PrePopK, ComplexK, SubK},
            enum \in BOOLEAN, integ \in BOOLEAN, embedded \in BOOLEAN :
           r \in Done(st, q, top, enum, integ, embedded)
NothingFound ==
    (\/ phase = "embed" /\ ~plan.multi
     \/ phase = "episodes" /\ answer.facts = <<>>
     \/ phase = "answered" /\ ~answer.raised /\ answer.facts = <<>>)
      => \A r \in Range(searches) : r.facts = <<>>
TurnInv == TypesInv /\ Searching /\ Searched /\ NothingFound

\* What is true of every search made.
LEMMA StagesOf ==
    ASSUME TypesInv, Searched, NEW r \in Range(searches)
    PROVE  /\ World(world)
           /\ \E st \in StatusType, q \in Queries, enum \in BOOLEAN, integ \in BOOLEAN,
                 embedded \in BOOLEAN :
                \E p : Stages(world, st, q, enum, integ, embedded, rerank, r, p)
  <1>1. World(world) /\ rerank \in BOOLEAN
    BY WorldIs DEF TypesInv
  <1>2. PICK st \in StatusType, q \in Queries, top \in {PrePopK, ComplexK, SubK},
             enum \in BOOLEAN, integ \in BOOLEAN, embedded \in BOOLEAN :
          r \in Searches(world, st, q, top, enum, integ, embedded, rerank)
    BY DEF Searched, Done
  <1>3. top \in Nat \ {0}
    BY TopsAre
  <1>4. \E p : Stages(world, st, q, enum, integ, embedded, rerank, r, p)
    BY <1>1, <1>2, <1>3, SearchIs
  <1> QED BY <1>1, <1>4

-----------------------------------------------------------------------------
(***************************************************************************)
(* The steps.                                                              *)
(***************************************************************************)
LEMMA TurnStart == RetrievalInit => TurnInv
  <1> SUFFICES ASSUME RetrievalInit PROVE TurnInv
    OBVIOUS
  <1> USE DEF RetrievalInit
  <1>1. TypesInv
    BY DEF TypesInv, StatusType, Phases
  <1>2. Searching
    BY DEF Searching
  <1>3. Searched
    BY DEF Searched, Range
  <1>4. NothingFound
    BY DEF NothingFound, Range
  <1> QED BY <1>1, <1>2, <1>3, <1>4 DEF TurnInv

\* A turn that has searched nothing yet goes on with nothing found.
LEMMA BeforeSearch ==
    ASSUME TurnInv, TypesInv', searches = <<>>, searches' = searches, answer = Nothing,
           \/ answer' = answer /\ phase' \in {"summary", "classify", "decompose"} /\ ask' \in Asks
           \/ \E r : answer' = r /\ phase' = "answered"
           \/ /\ answer' = answer /\ phase' = "embed" /\ ask' \in Asks
              /\ plan'.k \in {PrePopK, ComplexK, SubK} /\ plan'.multi \in BOOLEAN
              /\ plan'.queries \in Seq(Queries) /\ plan'.queries # <<>>
    PROVE  TurnInv'
  <1>1. Range(searches') = {}
    BY DEF Range
  <1>2. Searching'
    <2>1. plan'.queries \in Seq(Queries) /\ plan'.queries # <<>> => 0 < Len(plan'.queries)
      OBVIOUS
    <2>2. Len(searches') = 0
      OBVIOUS
    <2> QED BY <2>1, <2>2 DEF Searching
  <1>3. Searched'
    BY <1>1 DEF Searched
  <1>4. NothingFound'
    BY <1>1 DEF NothingFound
  <1> QED BY <1>2, <1>3, <1>4 DEF TurnInv

LEMMA SearchSets ==
    ASSUME NEW queries, NEW k, NEW multi \in BOOLEAN, NEW episodes, Search(queries, k, multi, episodes)
    PROVE  /\ plan'.k = k /\ plan'.queries = queries /\ plan'.multi = multi
           /\ phase' = "embed" /\ answer' = answer
  BY DEF Search

\* Level 0 and what comes before it.
LEMMA FirstSteps ==
    ASSUME TurnInv, NEW a \in Asks, ask' = a, searches = <<>>, searches' = searches, answer = Nothing,
           UNCHANGED <<world, rerank, status>>, SlotFirst(a)
    PROVE  TurnInv'
  <1>1. a.text \in Queries /\ <<a.text>> \in Seq(Queries) /\ <<a.text>> # <<>>
        /\ a.l0 \in {"yes", "no", "unsure"} /\ a.complex \in BOOLEAN
    BY AsksAssumption DEF AskType
  <1>2. \/ answer' = answer /\ phase' \in {"summary", "classify", "decompose"}
        \/ \E r : answer' = r /\ phase' = "answered"
        \/ /\ answer' = answer /\ phase' = "embed"
           /\ plan'.k = PrePopK /\ plan'.multi = FALSE /\ plan'.queries = <<a.text>>
    <2>1. SlotFirst(a) => Search(<<a.text>>, PrePopK, FALSE, FALSE) \/ Retrieve(a) \/ Decline(TRUE)
                          \/ Await("classify")
      BY <1>1 DEF SlotFirst, Level0
    <2>2. Retrieve(a) => Await("decompose") \/ Search(<<a.text>>, PrePopK, FALSE, a.followup)
      BY DEF Retrieve
    <2>3. CASE \E e : Search(<<a.text>>, PrePopK, FALSE, e)
      BY <2>3, SearchSets
    <2>4. CASE Await("classify") \/ Await("decompose")
      BY <2>4 DEF Await
    <2>5. CASE Decline(TRUE)
      BY <2>5 DEF Decline, Reply
    <2> QED BY <2>1, <2>2, <2>3, <2>4, <2>5
  <1>3. TypesInv'
    BY <1>2 DEF TurnInv, TypesInv, Phases, StatusType
  <1> QED BY <1>1, <1>2, <1>3, BeforeSearch

LEMMA AskKeeps ==
    ASSUME TurnInv, NEW a \in Asks, Ask(a)
    PROVE  TurnInv'
  <1>1. phase = "idle" /\ searches = <<>> /\ answer = Nothing /\ searches' = searches /\ ask' = a
        /\ UNCHANGED <<world, rerank, status>>
    BY DEF Ask, TurnInv, Searching
  <1>2. CASE MetaCount(a)
    <2>1. phase' = "answered"
      BY <1>2 DEF MetaCount, Reply
    <2>2. TypesInv'
      BY <1>1, <2>1 DEF TurnInv, TypesInv, Phases, StatusType
    <2> QED BY <1>1, <2>1, <2>2, BeforeSearch
  <1>3. CASE Await("summary")
    <2>1. phase' = "summary" /\ answer' = answer
      BY <1>3 DEF Await
    <2>2. TypesInv'
      BY <1>1, <2>1 DEF TurnInv, TypesInv, Phases, StatusType
    <2> QED BY <1>1, <2>1, <2>2, BeforeSearch
  <1>4. CASE SlotFirst(a)
    BY <1>1, <1>4, FirstSteps
  <1> QED BY <1>2, <1>3, <1>4 DEF Ask

LEMMA SummariseKeeps ==
    ASSUME TurnInv, Summarise
    PROVE  TurnInv'
  <1>1. /\ phase = "summary" /\ searches = <<>> /\ answer = Nothing /\ searches' = searches
        /\ ask \in Asks /\ ask' = ask /\ UNCHANGED <<world, rerank, status>> /\ SlotFirst(ask)
    BY DEF Summarise, TurnInv, Searching
  <1> QED BY <1>1, FirstSteps

LEMMA Level1Keeps ==
    ASSUME TurnInv, Level1
    PROVE  TurnInv'
  <1>1. /\ phase = "classify" /\ searches = <<>> /\ answer = Nothing /\ searches' = searches
        /\ ask \in Asks /\ ask' = ask /\ UNCHANGED <<world, rerank, status>>
    BY DEF Level1, TurnInv, Searching
  <1>2. ask.text \in Queries /\ <<ask.text>> \in Seq(Queries) /\ <<ask.text>> # <<>>
    BY <1>1, AsksAssumption DEF AskType
  <1>3. \/ answer' = answer /\ phase' = "decompose"
        \/ \E r : answer' = r /\ phase' = "answered"
        \/ /\ answer' = answer /\ phase' = "embed"
           /\ plan'.k = PrePopK /\ plan'.multi = FALSE /\ plan'.queries = <<ask.text>>
    <2>1. Await("decompose") \/ Search(<<ask.text>>, PrePopK, FALSE, ask.followup) \/ Decline(FALSE)
      BY DEF Level1, Retrieve
    <2>2. CASE Search(<<ask.text>>, PrePopK, FALSE, ask.followup)
      BY <2>2, SearchSets
    <2>3. CASE Await("decompose")
      BY <2>3 DEF Await
    <2>4. CASE Decline(FALSE)
      BY <2>4 DEF Decline, Reply
    <2> QED BY <2>1, <2>2, <2>3, <2>4
  <1>4. TypesInv'
    BY <1>1, <1>3 DEF TurnInv, TypesInv, Phases, StatusType
  <1> QED BY <1>1, <1>2, <1>3, <1>4, BeforeSearch

LEMMA DecomposeKeeps ==
    ASSUME TurnInv, Decompose
    PROVE  TurnInv'
  <1>1. /\ phase = "decompose" /\ searches = <<>> /\ answer = Nothing /\ searches' = searches
        /\ ask \in Asks /\ ask' = ask /\ UNCHANGED <<world, rerank, status>>
    BY DEF Decompose, TurnInv, Searching
  <1>2. ask.text \in Queries /\ <<ask.text>> \in Seq(Queries) /\ <<ask.text>> # <<>>
    BY <1>1, AsksAssumption DEF AskType
  <1>3. /\ answer' = answer /\ phase' = "embed"
        /\ plan'.k \in {ComplexK, SubK} /\ plan'.multi \in BOOLEAN
        /\ \/ plan'.queries = SubQueries(ask) /\ SubQueries(ask) # <<>>
           \/ plan'.queries = <<ask.text>>
    <2>1. CASE SubQueries(ask) # <<>> /\ Search(SubQueries(ask), SubK, TRUE, ask.followup)
      BY <2>1, SearchSets
    <2>2. CASE Search(<<ask.text>>, ComplexK, FALSE, ask.followup)
      BY <2>2, SearchSets
    <2> QED BY <2>1, <2>2 DEF Decompose
  <1>4. plan'.queries \in Seq(Queries) /\ plan'.queries # <<>>
    BY <1>1, <1>2, <1>3, SubQueriesAre
  <1>5. TypesInv'
    BY <1>1, <1>3 DEF TurnInv, TypesInv, Phases, StatusType
  <1> QED BY <1>1, <1>3, <1>4, <1>5, BeforeSearch

\* What a search returns is a sequence of facts.
LEMMA FoundIs ==
    ASSUME NEW w, World(w), NEW st \in StatusType, NEW q \in Queries,
           NEW top \in {PrePopK, ComplexK, SubK}, NEW enum \in BOOLEAN, NEW integ \in BOOLEAN,
           NEW embedded \in BOOLEAN, NEW reranks \in BOOLEAN,
           NEW r \in Searches(w, st, q, top, enum, integ, embedded, reranks)
    PROVE  r.facts \in Seq(Facts)
  <1>1. top \in Nat \ {0}
    BY TopsAre
  <1>2. PICK p : Stages(w, st, q, enum, integ, embedded, reranks, r, p)
    BY <1>1, SearchIs
  <1>3. p.pool \in Seq(Facts) /\ r.facts = TemporalDedup(w, p.pool)
    BY <1>2 DEF Stages
  <1> QED BY <1>3, TemporalDedupIs

\* A rendered answer has the facts it was made of.
LEMMA RenderSets ==
    ASSUME NEW facts, NEW episodes, Render(facts, episodes)
    PROVE  phase' = "answered" /\ answer'.facts = facts
  BY DEF Render, Reply, Nothing

LEMMA FinishSets ==
    ASSUME NEW facts, answer = Nothing, Finish(facts)
    PROVE  phase' \in {"episodes", "answered"} /\ answer'.facts = facts
  <1>1. CASE Render(facts, FALSE)
    BY <1>1, RenderSets
  <1>2. CASE phase' = "episodes" /\ plan' = plan /\ answer' = [answer EXCEPT !.facts = facts]
    BY <1>2 DEF Nothing
  <1> QED BY <1>1, <1>2 DEF Finish

\* After a search, what it found is one of the searches made.
LEMMA SearchJoins ==
    ASSUME TurnInv, phase = "embed", NEW embedded \in BOOLEAN, UNCHANGED <<world, rerank>>,
           NEW r \in Searches(world, status, NextQuery, plan.k, NextQuery \in ask.enum,
                       NextQuery \in ask.integ, embedded, rerank),
           searches' = Append(searches, r)
    PROVE  /\ Searched' /\ Len(searches') = Len(searches) + 1
           /\ Range(searches') = Range(searches) \cup {r}
  <1>1. /\ plan.k \in {PrePopK, ComplexK, SubK} /\ plan.multi \in BOOLEAN /\ ask \in Asks
        /\ plan.queries \in Seq(Queries) /\ plan.queries # <<>>
        /\ plan.multi => Len(searches) < Len(plan.queries)
        /\ searches \in Seq(Range(searches)) /\ status \in StatusType
    BY DEF TurnInv, Searching, Searched, TypesInv
  <1>2. NextQuery \in Queries
    <2>1. Len(searches) \in Nat /\ Len(plan.queries) \in Nat \ {0}
      BY <1>1
    <2>2. (IF plan.multi THEN Len(searches) + 1 ELSE 1) \in 1..Len(plan.queries)
      BY <1>1, <2>1
    <2> QED BY <1>1, <2>2 DEF NextQuery
  <1>3. /\ searches' \in Seq(Range(searches) \cup {r}) /\ Len(searches') = Len(searches) + 1
        /\ Range(searches') = Range(searches) \cup {r}
    <2>1. searches \in Seq(Range(searches) \cup {r})
      BY <1>1
    <2> QED BY <2>1, OneMore
  <1>4. (NextQuery \in ask.enum) \in BOOLEAN /\ (NextQuery \in ask.integ) \in BOOLEAN
    OBVIOUS
  <1>5. r \in Done(status, NextQuery, plan.k, NextQuery \in ask.enum,
                   NextQuery \in ask.integ, embedded)
    BY DEF Done
  <1>6. \A s \in Range(searches') :
         \E st \in StatusType, q \in Queries, top \in {PrePopK, ComplexK, SubK},
            enum \in BOOLEAN, integ \in BOOLEAN, emb \in BOOLEAN :
           s \in Done(st, q, top, enum, integ, emb)
    <2> HIDE DEF NextQuery
    <2> DEFINE a == NextQuery \in ask.enum
               b == NextQuery \in ask.integ
    <2>1. a \in BOOLEAN /\ b \in BOOLEAN /\ r \in Done(status, NextQuery, plan.k, a, b, embedded)
      BY <1>4, <1>5
    <2> HIDE DEF a, b
    <2>2. \E st \in StatusType, q \in Queries, top \in {PrePopK, ComplexK, SubK},
             enum \in BOOLEAN, integ \in BOOLEAN, emb \in BOOLEAN :
            r \in Done(st, q, top, enum, integ, emb)
      BY <1>1, <1>2, <2>1
    <2> QED BY <1>3, <2>2 DEF TurnInv, Searched
  <1>7. world' = world /\ rerank' = rerank
    OBVIOUS
  <1>8. Searched'
    <2>1. \A st, q, top, enum, integ, emb :
            Done(st, q, top, enum, integ, emb)' = Done(st, q, top, enum, integ, emb)
      BY <1>7 DEF Done
    <2> QED BY <1>3, <1>6, <1>7 DEF Searched, Done
  <1> QED BY <1>3, <1>8

LEMMA EmbedKeeps ==
    ASSUME TurnInv, NEW embedded \in BOOLEAN, Embed(embedded)
    PROVE  TurnInv'
  <1>1. /\ phase = "embed" /\ UNCHANGED <<world, status, rerank, ask>>
        /\ TypesInv /\ Searching /\ Searched /\ NothingFound
    BY DEF Embed, TurnInv
  <1>2. PICK r \in Searches(world, status, NextQuery, plan.k, NextQuery \in ask.enum,
                          NextQuery \in ask.integ, embedded, rerank) :
          LET results == Append(searches, r) IN
          /\ searches' = results
          /\ IF ~plan.multi THEN Finish(r.facts)
             ELSE IF ~Covered(results) THEN Await("embed")
             ELSE IF Merge(results) = <<>> THEN Search(<<Head(plan.queries)>>, ComplexK, FALSE, FALSE)
             ELSE Finish(Take(Merge(results), ComplexK))
    BY DEF Embed
  <1>3. /\ Searched' /\ Len(searches') = Len(searches) + 1
        /\ Range(searches') = Range(searches) \cup {r} /\ searches' = Append(searches, r)
    BY <1>1, <1>2, SearchJoins
  <1>4. /\ plan.k \in {PrePopK, ComplexK, SubK} /\ plan.multi \in BOOLEAN /\ ask \in Asks
        /\ plan.queries \in Seq(Queries) /\ plan.queries # <<>> /\ answer = Nothing
        /\ Len(searches) \in Nat /\ (plan.multi => Len(searches) < Len(plan.queries))
    BY <1>1 DEF Searching, Searched
  <1>5. \A n : phase' = n /\ n \in Phases => TypesInv'
    BY <1>1 DEF TypesInv, StatusType
  <1>6. /\ searches' \in Seq(Range(searches')) /\ \A s \in Range(searches') : s.facts \in Seq(Facts)
    <2>1. World(world) /\ rerank \in BOOLEAN /\ world' = world /\ rerank' = rerank
      BY <1>1, WorldIs DEF TypesInv
    <2>2. ASSUME NEW s \in Range(searches') PROVE s.facts \in Seq(Facts)
      <3>1. PICK st \in StatusType, q \in Queries, top \in {PrePopK, ComplexK, SubK},
                 enum \in BOOLEAN, integ \in BOOLEAN, emb \in BOOLEAN :
              s \in Searches(world, st, q, top, enum, integ, emb, rerank)
        BY <1>3, <2>1 DEF Searched, Done
      <3> QED BY <2>1, <3>1, FoundIs
    <2> QED BY <1>3, <2>2 DEF Searched
  <1>7. CASE ~plan.multi /\ Finish(r.facts)
    <2>1. phase' \in {"episodes", "answered"} /\ answer'.facts = r.facts
      BY <1>4, <1>7, FinishSets
    <2>2. TypesInv' /\ Searching'
      BY <1>1, <1>4, <1>5, <2>1 DEF Phases, Searching
    <2>3. NothingFound'
      BY <1>1, <1>3, <1>7, <2>1 DEF NothingFound
    <2> QED BY <1>3, <2>2, <2>3 DEF TurnInv
  <1>8. CASE plan.multi /\ ~Covered(searches') /\ Await("embed")
    <2>1. phase' = "embed" /\ plan' = plan /\ answer' = answer
      BY <1>8 DEF Await
    <2>2. Len(searches') < Len(plan.queries)
      <3>1. Len(searches') # Len(plan.queries)
        BY <1>8 DEF Covered
      <3>2. Len(plan.queries) \in Nat
        BY <1>4
      <3> QED BY <1>3, <1>4, <1>8, <3>1, <3>2
    <2>3. TypesInv' /\ Searching'
      BY <1>1, <1>4, <1>5, <2>1, <2>2 DEF Phases, Searching
    <2>4. NothingFound'
      BY <1>8, <2>1 DEF NothingFound
    <2> QED BY <1>3, <2>3, <2>4 DEF TurnInv
  <1>9. CASE Merge(searches') = <<>> /\ Search(<<Head(plan.queries)>>, ComplexK, FALSE, FALSE)
    <2>1. /\ phase' = "embed" /\ answer' = answer /\ plan'.k = ComplexK /\ plan'.multi = FALSE
          /\ plan'.queries = <<Head(plan.queries)>>
      BY <1>9, SearchSets
    <2>2. plan'.queries \in Seq(Queries) /\ plan'.queries # <<>>
      BY <1>4, <2>1
    <2>3. TypesInv' /\ Searching'
      BY <1>1, <1>4, <1>5, <2>1, <2>2 DEF Phases, Searching
    <2>4. \A s \in Range(searches') : s.facts = <<>>
      <3>1. \A i \in 1..Len(searches') : searches'[i].facts = <<>>
        BY <1>6, <1>9, MergeIs
      <3>2. DOMAIN (searches') = 1..Len(searches')
        BY <1>6
      <3> QED BY <3>1, <3>2 DEF Range
    <2>5. NothingFound'
      BY <2>4 DEF NothingFound
    <2> QED BY <1>3, <2>3, <2>5 DEF TurnInv
  <1>10. CASE Merge(searches') # <<>> /\ Finish(Take(Merge(searches'), ComplexK))
    <2> DEFINE m == Merge(searches')
    <2>1. m \in Seq(Facts)
      BY <1>6, MergeIs
    <2>2. m # <<>>
      BY <1>10
    <2> HIDE DEF m
    <2>3. Take(m, ComplexK) # <<>>
      <3>1. Len(m) \in Nat \ {0} /\ ComplexK \in Nat \ {0}
        BY <2>1, <2>2, TopsAre
      <3>2. Len(Take(m, ComplexK)) # 0
        BY <2>1, <3>1, TakeIs
      <3> QED BY <3>2
    <2>4. phase' \in {"episodes", "answered"} /\ answer'.facts # <<>>
      <3>1. phase' \in {"episodes", "answered"} /\ answer'.facts = Take(Merge(searches'), ComplexK)
        BY <1>4, <1>10, FinishSets
      <3> QED BY <2>3, <3>1 DEF m
    <2>5. TypesInv' /\ Searching'
      BY <1>1, <1>4, <1>5, <2>4 DEF Phases, Searching
    <2>6. NothingFound'
      BY <2>4 DEF NothingFound
    <2> QED BY <1>3, <2>5, <2>6 DEF TurnInv
  <1> QED BY <1>2, <1>4, <1>7, <1>8, <1>9, <1>10

LEMMA EpisodesKeeps ==
    ASSUME TurnInv, Episodes
    PROVE  TurnInv'
  <1>1. /\ phase = "episodes" /\ UNCHANGED <<world, status, rerank, ask, searches>>
        /\ phase' = "answered" /\ answer'.facts = answer.facts
    BY RenderSets DEF Episodes
  <1>2. TypesInv' /\ Searching'
    BY <1>1 DEF TurnInv, TypesInv, Searching, Phases, StatusType
  <1>3. Searched'
    BY <1>1 DEF TurnInv, Searched, Done
  <1>4. NothingFound'
    BY <1>1 DEF TurnInv, NothingFound
  <1> QED BY <1>2, <1>3, <1>4 DEF TurnInv

\* A turn whose search raised goes on without a context.
LEMMA RaiseKeeps ==
    ASSUME TurnInv, Raise
    PROVE  TurnInv'
  <1>1. /\ UNCHANGED <<world, status, rerank, ask, searches>>
        /\ phase' = "answered" /\ answer'.raised = TRUE
    BY DEF Raise, Reply, Nothing
  <1>2. TypesInv' /\ Searching'
    BY <1>1 DEF TurnInv, TypesInv, Searching, Phases, StatusType
  <1>3. Searched'
    BY <1>1 DEF TurnInv, Searched, Done
  <1>4. NothingFound'
    BY <1>1 DEF NothingFound
  <1> QED BY <1>2, <1>3, <1>4 DEF TurnInv

LEMMA DeliverKeeps ==
    ASSUME TurnInv, Deliver
    PROVE  TurnInv'
  <1>1. /\ phase' = "idle" /\ searches' = <<>> /\ answer' = Nothing /\ UNCHANGED <<world, status, rerank>>
    BY DEF Deliver
  <1>2. Range(searches') = {}
    BY <1>1 DEF Range
  <1>3. TypesInv' /\ Searching'
    BY <1>1 DEF TurnInv, TypesInv, Searching, Phases, StatusType
  <1>4. Searched' /\ NothingFound'
    BY <1>1, <1>2 DEF Searched, NothingFound
  <1> QED BY <1>3, <1>4 DEF TurnInv

\* The writer changes the store, and no search that was made.
LEMMA LearnKeeps ==
    ASSUME TurnInv, NEW f \in Facts, Learn(f)
    PROVE  TurnInv'
  <1>1. /\ UNCHANGED <<world, rerank, phase, ask, plan, searches, answer>> /\ status' \in StatusType
    <2>1. PICK old \in {{}} \cup
                       {{g} : g \in {h \in Facts : status[h] \in Live /\ world.slot[h] = world.slot[f]}},
               new \in Live :
            status' = [g \in Facts |-> IF g = f THEN new ELSE IF g \in old THEN "superseded" ELSE status[g]]
      BY DEF Learn
    <2>2. status \in StatusType
      BY DEF TurnInv, TypesInv
    <2> QED BY <2>1, <2>2 DEF Learn, StatusType, Live
  <1>2. TypesInv' /\ Searching'
    BY <1>1 DEF TurnInv, TypesInv, Searching
  <1>3. Searched' /\ NothingFound'
    BY <1>1 DEF TurnInv, Searched, NothingFound, Done
  <1> QED BY <1>2, <1>3 DEF TurnInv

LEMMA TurnStep == TurnInv /\ [RetrievalNext]_retrievalVars => TurnInv'
  <1> SUFFICES ASSUME TurnInv, [RetrievalNext]_retrievalVars PROVE TurnInv'
    OBVIOUS
  <1>1. CASE \E a \in Asks : Ask(a)
    BY <1>1, AskKeeps
  <1>2. CASE Summarise
    BY <1>2, SummariseKeeps
  <1>3. CASE Level1
    BY <1>3, Level1Keeps
  <1>4. CASE Decompose
    BY <1>4, DecomposeKeeps
  <1>5. CASE Episodes
    BY <1>5, EpisodesKeeps
  <1>6. CASE Deliver
    BY <1>6, DeliverKeeps
  <1>7. CASE \E embedded \in BOOLEAN : Embed(embedded)
    BY <1>7, EmbedKeeps
  <1>8. CASE \E f \in Facts : Learn(f)
    BY <1>8, LearnKeeps
  <1>9. CASE Raise
    BY <1>9, RaiseKeeps
  <1>10. CASE UNCHANGED retrievalVars
    <2>1. UNCHANGED <<world, status, rerank, phase, ask, plan, searches, answer>>
      BY <1>10 DEF retrievalVars
    <2>2. TypesInv' /\ Searching' /\ NothingFound'
      BY <2>1 DEF TurnInv, TypesInv, Searching, NothingFound, StatusType
    <2>3. Searched'
      BY <2>1 DEF TurnInv, Searched, Done
    <2> QED BY <2>2, <2>3 DEF TurnInv
  <1> QED BY <1>1, <1>2, <1>3, <1>4, <1>5, <1>6, <1>7, <1>8, <1>9, <1>10
     DEF RetrievalNext

LEMMA TurnAlways == RetrievalSpec => []TurnInv
  BY TurnStart, TurnStep, PTL DEF RetrievalSpec

-----------------------------------------------------------------------------
(***************************************************************************)
(* The theorems.                                                           *)
(***************************************************************************)
\* A fact comes out of a search only if it was live in the store when the
\* search ran: the index, the hop and the fallback all filter (retriever.py).
THEOREM OnlyLiveAlways == RetrievalSpec => []OnlyLive
  <1>1. TurnInv => OnlyLive
    <2> SUFFICES ASSUME TurnInv, NEW i \in DOMAIN searches
                 PROVE  Range(searches[i].facts) \subseteq searches[i].live
      BY DEF OnlyLive
    <2> DEFINE r == searches[i]
    <2>1. r \in Range(searches)
      BY DEF Range
    <2> HIDE DEF r
    <2>2. PICK st \in StatusType, q \in Queries, enum \in BOOLEAN, integ \in BOOLEAN,
               embedded \in BOOLEAN :
            \E p : Stages(world, st, q, enum, integ, embedded, rerank, r, p)
      BY <2>1, StagesOf DEF TurnInv
    <2>3. PICK p : Stages(world, st, q, enum, integ, embedded, rerank, r, p)
      BY <2>2
    <2>4. World(world) /\ rerank \in BOOLEAN
      BY WorldIs DEF TurnInv, TypesInv
    <2>5. Range(r.facts) \subseteq r.live
      BY <2>3, <2>4, SearchLive
    <2> QED BY <2>5 DEF r
  <1> QED BY <1>1, TurnAlways, PTL

\* Of the facts before the last dedup, a search returns exactly those no other
\* of their chain of near-duplicates beats: the union-find of
\* _temporal_dedup finds the transitive closure, whatever the order.
THEOREM NewestOfEachAlways == RetrievalSpec => []NewestOfEach
  <1>1. TurnInv => NewestOfEach
    <2> SUFFICES ASSUME TurnInv, NEW i \in DOMAIN searches
                 PROVE  Range(searches[i].facts) =
                          {f \in Range(searches[i].pool) :
                             \A g \in Range(searches[i].pool) \ {f} :
                               Chained(world, Range(searches[i].pool), f, g) => Beats(world, f, g)}
      BY DEF NewestOfEach
    <2> DEFINE r == searches[i]
    <2>1. r \in Range(searches)
      BY DEF Range
    <2> HIDE DEF r
    <2>2. PICK st \in StatusType, q \in Queries, enum \in BOOLEAN, integ \in BOOLEAN,
               embedded \in BOOLEAN :
            \E p : Stages(world, st, q, enum, integ, embedded, rerank, r, p)
      BY <2>1, StagesOf DEF TurnInv
    <2>3. PICK p : Stages(world, st, q, enum, integ, embedded, rerank, r, p)
      BY <2>2
    <2>4. World(world) /\ rerank \in BOOLEAN
      BY WorldIs DEF TurnInv, TypesInv
    <2>5. Range(r.facts) = {f \in Range(r.pool) :
            \A g \in Range(r.pool) \ {f} : Chained(world, Range(r.pool), f, g) => Beats(world, f, g)}
      BY <2>1, <2>3, <2>4, SearchNewest
    <2> QED BY <2>5 DEF r
  <1> QED BY <1>1, TurnAlways, PTL

\* Of the candidates that repeat none taken before them, the first ones, as many
\* as _dedup_by_content has room for beside the graph's share, are not lost to
\* the graph hop, the second cap, the diversity re-ranking and the last dedup of
\* retrieve if the index found them: each is returned, or a newer version of it
\* is. Of an enumeration, the same of the closest of them.
THEOREM BestKeptAlways == RetrievalSpec => []BestKept
  <1>1. TurnInv => BestKept
    <2> SUFFICES ASSUME TurnInv, NEW i \in DOMAIN searches, NEW D \in SUBSET Range(searches[i].cands),
                        Distinct(world, searches[i].cands, D), NEW f \in Due(searches[i], D)
                 PROVE  \E g \in Range(searches[i].facts) :
                          g = f \/ (Chained(world, Range(searches[i].pool), f, g) /\ Beats(world, g, f))
      BY DEF BestKept
    <2> DEFINE r == searches[i]
    <2>1. /\ r \in Range(searches) /\ D \in SUBSET Range(r.cands)
          /\ Distinct(world, r.cands, D) /\ f \in Due(r, D)
      BY DEF Range
    <2> HIDE DEF r
    <2>2. PICK st \in StatusType, q \in Queries, enum \in BOOLEAN, integ \in BOOLEAN,
               embedded \in BOOLEAN :
            \E p : Stages(world, st, q, enum, integ, embedded, rerank, r, p)
      BY <2>1, StagesOf DEF TurnInv
    <2>3. PICK p : Stages(world, st, q, enum, integ, embedded, rerank, r, p)
      BY <2>2
    <2>4. World(world) /\ rerank \in BOOLEAN
      BY WorldIs DEF TurnInv, TypesInv
    <2>5. f \in DOMAIN p.dist /\ (enum => f \in Closest(p.dist))
      BY <2>1, <2>3, <2>4, SearchDue
    <2>6. \E g \in Range(r.facts) : g = f \/ (Chained(world, Range(r.pool), f, g) /\ Beats(world, g, f))
      BY <2>3, <2>4, <2>5, SearchKept
    <2> QED BY <2>6 DEF r
  <1> QED BY <1>1, TurnAlways, PTL

\* A turn whose searches all come back empty although the store had a usable
\* fact all the time was crowded: the rows the filters take out afterwards
\* filled the candidates of every search, or the fact was one of them.
THEOREM EmptyOnlyIfCrowdedAlways == RetrievalSpec => []EmptyOnlyIfCrowded
  <1>1. TurnInv => EmptyOnlyIfCrowded
    <2> SUFFICES ASSUME TurnInv, phase = "answered", ~answer.raised, answer.facts = <<>>, NEW f \in Facts,
                        \A i \in DOMAIN searches : Usable(i, f), NEW i \in DOMAIN searches
                 PROVE  f \in Crowd(i) \/ Cardinality(Crowd(i)) >= 2 * searches[i].k
      BY DEF EmptyOnlyIfCrowded
    <2> DEFINE r == searches[i]
               refused == Refused(i)
               crowd == Crowd(i)
    <2>1. r \in Range(searches) /\ r.facts = <<>>
      BY DEF Range, TurnInv, NothingFound
    <2>2. PICK st \in StatusType, q \in Queries, enum \in BOOLEAN, integ \in BOOLEAN,
               embedded \in BOOLEAN :
            \E p : Stages(world, st, q, enum, integ, embedded, rerank, r, p)
      BY <2>1, StagesOf DEF TurnInv
    <2>3. PICK p : Stages(world, st, q, enum, integ, embedded, rerank, r, p)
      BY <2>2
    <2>4. r.live = LiveFacts(st) /\ r.dead = {g \in Facts : st[g] = "superseded"}
      BY <2>3 DEF Stages
    <2>5. Usable(i, f) /\ f \in LiveFacts(st) /\ HasVector(world, f)
          /\ OrElse(world.conf[f], 100) >= ConfidenceFloor
      BY <2>4 DEF Usable, Believed
    <2>6. Crowds(world, st, rerank, refused, crowd)
      BY <2>4 DEF Crowds, Rows, LiveFacts, StatusType, Refused, Crowd, Believed, Live
    <2>7. World(world) /\ rerank \in BOOLEAN
      BY WorldIs DEF TurnInv, TypesInv
    <2> HIDE DEF refused, crowd, r
    <2>8. f \in crowd \/ Cardinality(crowd) >= 2 * r.k
      BY <2>1, <2>3, <2>5, <2>6, <2>7, SearchEmpty
    <2> QED BY <2>8 DEF refused, crowd, r
  <1> QED BY <1>1, TurnAlways, PTL
=============================================================================
