------------------------------ MODULE TaskBoard ------------------------------
(***************************************************************************)
(* What the work queue promises to whoever drops a task on the board: a    *)
(* task is added once, stays open until it is settled, and is settled once *)
(* with one record of its outcome.  The one exception is a completed task  *)
(* that is turned over to failed while its result is being handed back.    *)
(* Workers, transactions, crashes and retries do not appear here.          *)
(***************************************************************************)
EXTENDS Naturals

CONSTANT Tasks

VARIABLES
    column,   \* "absent", "open", "done" or "failed"
    records   \* outcome records (audit entry and city event) of each task

boardVars == <<column, records>>

Init ==
    /\ column = [t \in Tasks |-> "absent"]
    /\ records = [t \in Tasks |-> 0]

Add(t) ==
    /\ column[t] = "absent"
    /\ column' = [column EXCEPT ![t] = "open"]
    /\ UNCHANGED records

Settle(t, s) ==
    /\ column[t] = "open"
    /\ column' = [column EXCEPT ![t] = s]
    /\ records' = [records EXCEPT ![t] = @ + 1]

\* What the except branch of a tick does to a task that is already done.
Overturn(t) ==
    /\ column[t] = "done"
    /\ column' = [column EXCEPT ![t] = "failed"]
    /\ records' = [records EXCEPT ![t] = @ + 1]

Next == \E t \in Tasks : Add(t) \/ Overturn(t) \/ \E s \in {"done", "failed"} : Settle(t, s)

Spec == Init /\ [][Next]_boardVars
=============================================================================
