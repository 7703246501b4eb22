----------------------------- MODULE FactLedger -----------------------------
(***************************************************************************)
(* What the memory writer promises about the facts table: one turn's       *)
(* statement is remembered, set aside, or takes the place of an earlier    *)
(* row, in one step each, and nothing is ever taken back.                  *)
(***************************************************************************)
EXTENDS Integers, Sequences

CONSTANT Statement

VARIABLE ledger     \* the rows, in the order they were written

Entry(s, state) == [text |-> s, state |-> state, successor |-> 0]

Init == ledger = <<>>

Remember(s) == ledger' = Append(ledger, Entry(s, "held"))

SetAside(s) == ledger' = Append(ledger, Entry(s, "aside"))

\* The new row holds, and the old one points at it.
Replace(i, s) ==
    ledger' = Append([ledger EXCEPT ![i].state = "replaced",
                                    ![i].successor = Len(ledger) + 1],
                     Entry(s, "held"))

Next == \E s \in Statement :
            \/ Remember(s)
            \/ SetAside(s)
            \/ \E i \in DOMAIN ledger : Replace(i, s)

Spec == Init /\ [][Next]_ledger
=============================================================================
