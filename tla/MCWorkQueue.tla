----------------------------- MODULE MCWorkQueue -----------------------------
(* Instances of the work queue for TLC.                                    *)
EXTENDS WorkQueueBoard, TLC

\* Daemons are interchangeable, and so are clients (safety runs only).
WorkerSymmetry == Permutations(Daemons) \cup Permutations(Clients)
=============================================================================
