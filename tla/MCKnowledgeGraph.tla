-------------------------- MODULE MCKnowledgeGraph --------------------------
EXTENDS KnowledgeGraph

Says(names, relation, person, confidence) ==
    [names |-> names, relation |-> relation, person |-> person,
     confidence |-> confidence]

\* Claims about Amy that rise and return, a weak repetition of one, one that
\* names the owner first, and a relationship that excludes nothing.
AboutAmy == {Says(<<"amy">>, "friend", "amy", 1),
             Says(<<"amy">>, "friend", "amy", 3),
             Says(<<"amy">>, "sister", "amy", 2),
             Says(<<"owner", "amy">>, "wife", "amy", 2),
             Says(<<"amy">>, "neighbour", "amy", 1),
             Says(<<"bea">>, "sister", "bea", 2)}
=============================================================================
