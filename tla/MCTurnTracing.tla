---------------------------- MODULE MCTurnTracing ----------------------------
(* Replies for model-checking TurnTracing.                                 *)
EXTENDS TurnTracing

\* No valid call; single and parallel calls, of one tool and of several, one of
\* which ends with a Command.
MCReplies == {<<>>, <<"add">>, <<"todos">>, <<"add", "add">>, <<"todos", "add">>, <<"add", "todos">>}
MCCommanding == {"todos"}
=============================================================================
