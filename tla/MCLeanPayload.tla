--------------------------- MODULE MCLeanPayload ---------------------------
(* Conversations of up to four messages, with and without a system message *)
(* of the agent, ending with a question or in the middle of a tool call.   *)
EXTENDS LeanPayload

MCRequests ==
    {[messages |-> m, packed |-> p, tools |-> t, window |-> w] :
        m \in {<<"user">>,
               <<"system", "user">>,
               <<"system", "user", "assistant", "user">>,
               <<"user", "system", "assistant", "user">>,
               <<"user", "assistant", "user", "assistant", "tool">>,
               <<"system", "system", "user", "assistant", "user">>,
               <<"system", "user", "assistant", "user", "assistant", "user", "assistant", "tool">>},
        p \in {<<>>, <<"user", "assistant">>, <<"user", "assistant", "user">>},
        t \in {0, 1, 3},
        w \in {8192, 20000}}
MCContexts == {0, 2500, 9000}
MCTurns == {1, 2, 4}
=============================================================================
