------------------------------- MODULE MCRetrieval -------------------------------
(* Stores and questions for Retrieval. The distances are fixed and the other     *)
(* attributes vary around them.                                                  *)
EXTENDS Retrieval

(* Near2: the embedding of fact 3 had failed; Near3: only 1 and 2 have one.       *)
Near1 == [q |-> <<1, 2, 3, 4>>, a |-> <<2, 1, 4, 3>>, b |-> <<3, 4, 1, 2>>]
Near2 == [q |-> <<2, 4, 1>>, a |-> <<4, 1, 2>>, b |-> <<1, 2, 4>>]
Near3 == [q |-> <<1, 2>>, a |-> <<1, 2>>, b |-> <<2, 1>>]
Pairs == {{1, 2}, {2, 3}, {1, 4}}
Simple(s) == [f \in Facts |-> [g \in Facts |-> IF f = g THEN 100 ELSE s[{f, g}]]]
MCSims == {Simple([p \in SUBSET Facts |-> IF p \in Pairs THEN s[p] ELSE 0]) : s \in [Pairs -> {0, 87, 93}]}

Alike == [f \in Facts |-> {"x"}]
Apart == [f \in Facts |-> CASE f = 1 -> {"x"} [] f = 2 -> {"x", "y"} [] f = 3 -> {"y"} [] OTHER -> {}]
(* 3 and 4 are found over the graph only, both from 1 and from 2.                 *)
Linked == [f \in Facts |-> IF f <= 2 THEN {"x"} ELSE {"y"}]

MCWorlds ==
  {[near |-> n[1], sim |-> s, score |-> sc, ents |-> n[2], related |-> {{"x", "y"}}, created |-> c,
    conf |-> cf, slot |-> sl, dead |-> d,
    missed |-> IF d # {} /\ c[1] = 1 THEN {"home"} ELSE {},
    bonds |-> IF c[1] = 2 THEN {"y"} ELSE {}] :
     n \in ({Near1, Near2} \X {Alike, Apart}) \cup {<<Near3, Linked>>}, s \in MCSims,
     sc \in {<<4, -9, 6, 8>>, <<-7, 5, -8, 2>>},
     c \in {<<1, 2, 2, 3>>, <<2, 1, 1, 3>>}, cf \in {<<90, 90, 50, 0>>, <<30, 90, 70, 90>>},
     sl \in {<<"home", "job", "none", "job">>}, d \in {{}, {1, 2}}}

Plain == [text |-> "q", meta |-> FALSE, bulky |-> FALSE, l0 |-> "yes", complex |-> FALSE, enum |-> {},
          integ |-> {}, followup |-> FALSE, class |-> "generic", preds |-> <<>>, subs |-> <<>>]
MCAsks ==
  {Plain,
   [Plain EXCEPT !.enum = {"q"}, !.l0 = "unsure"],
   [Plain EXCEPT !.integ = {"q"}, !.bulky = TRUE],
   [Plain EXCEPT !.l0 = "no"],
   [Plain EXCEPT !.meta = TRUE],
   [Plain EXCEPT !.complex = TRUE, !.subs = <<"a", "q", "a", "b">>, !.enum = {"a"}],
   [Plain EXCEPT !.complex = TRUE, !.followup = TRUE, !.subs = <<"b", "a">>, !.integ = {"b", "q"}],
   [Plain EXCEPT !.complex = TRUE, !.followup = TRUE, !.subs = <<"a", "a">>],
   [Plain EXCEPT !.class = "slot_lookup", !.preds = <<"job">>],
   [Plain EXCEPT !.class = "temporal_sequence", !.preds = <<"job", "home">>, !.l0 = "unsure"],
   [Plain EXCEPT !.class = "multi_hop", !.l0 = "no"]}
=============================================================================
