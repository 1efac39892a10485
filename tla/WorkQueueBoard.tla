---------------------------- MODULE WorkQueueBoard ----------------------------
(***************************************************************************)
(* The work queue implements the board.  The mapping forgets the           *)
(* transactions: a row is open while it is queued, claimed or in progress, *)
(* and the outcome records are the committed ones.                         *)
(***************************************************************************)
EXTENDS WorkQueue

columnOf == [t \in Tasks |-> IF status[t] \in Open THEN "open" ELSE status[t]]

Board == INSTANCE TaskBoard WITH column <- columnOf, records <- outcomes

\* The queue as the server runs it (daemons and tick requests, no client
\* that commits its own calls) implements the board: whatever crashes, is
\* rolled back or re-queued, each committed step of the queue adds one task,
\* settles one open task with one record, overturns a completed one, or
\* changes nothing on the board.
ImplementsBoard == Board!Spec
=============================================================================
