---------------------------- MODULE MCTeamRuns ----------------------------
(* Instances of TeamRuns.                                                  *)
EXTENDS TeamRuns, TLC

CONSTANTS r0, r1, r2, r3

Ask(p, g, who, t, d) ==
    [plan |-> p, graph |-> g, persona |-> who, tool |-> t, done |-> d]
Before(p) == Ask(p, TRUE, None, "memory_store", TRUE)
Graph(p, t) == Ask(p, TRUE, None, t, FALSE)
Chain(p, who) == Ask(p, FALSE, who, "memory_store", FALSE)

MCMixes == {
    \* a session that is not there yet
    (r0 :> Graph(<<"analyst">>, "memory_store") @@ r1 :> Chain(<<"analyst">>, "p")),
    \* a role that is new in an old session, three times
    (r0 :> Before(<<"analyst">>)
        @@ r1 :> Graph(<<"executor">>, "delegate_subtask")
        @@ r2 :> Graph(<<"executor">>, "delegate_subtask")
        @@ r3 :> Graph(<<"executor">>, "delegate_subtask")),
    \* the same entries in another order, and under another persona
    (r0 :> Before(<<"analyst", "executor">>)
        @@ r1 :> Graph(<<"analyst", "executor">>, "delegate_subtask")
        @@ r2 :> Chain(<<"executor">>, "p"))}
=============================================================================
