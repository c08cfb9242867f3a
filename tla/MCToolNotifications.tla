------------------------ MODULE MCToolNotifications ------------------------
(* ToolNotifications on small instances.                                   *)
EXTENDS ToolNotifications, TLC

\* The two threads of "sidekiq -c 2" are alike.
WorkerSymmetry == Permutations(Workers)
=============================================================================
