---------------------------- MODULE MCFactWriter ----------------------------
EXTENDS FactWriter

Says(wording, meaning, type, confidence) ==
    [wording |-> wording, meaning |-> meaning, predicate |-> NoPredicate,
     object |-> "", topic |-> "home", type |-> type, hedged |-> FALSE,
     numeric |-> FALSE, confidence |-> confidence]

Lives(wording, meaning, object, confidence) ==
    [Says(wording, meaning, "objective", confidence) EXCEPT
        !.predicate = "residence", !.object = object]

Boston  == Lives("user in boston", "in boston", "boston", 14)
Boston2 == Lives("owner in boston", "in boston", "boston", 14)
Living  == Lives("user living in boston", "living in boston", "boston", 14)
Tokyo   == Lives("user in tokyo", "in tokyo", "tokyo", 14)
Certain == Lives("user in boston", "in boston", "boston", 18)
Moved   == Says("user moved", "moved", "temporal", 9)
Loves   == Says("user loves it", "loves it", "subjective", 14)
Maybe   == [Says("maybe tokyo", "maybe tokyo", "objective", 14) EXCEPT !.hedged = TRUE]

Residences  == {Boston, Boston2, Tokyo}
Kinds       == {Certain, Boston2, Living, Tokyo, Moved, Loves, Maybe}
=============================================================================
