------------------------------ MODULE MCRuntime ------------------------------
(***************************************************************************)
(* Small batches for the command journal.                                  *)
(***************************************************************************)
EXTENDS RuntimeControl, TLC

CONSTANTS t1, t2, c1, c2, c3

\* Commands for one task, and for the batch.
OnTask(kinds, t) == [kind : kinds, task : {t}]
OnBatch(kinds) == [kind : kinds, task : {Batch}]

TaskPayloads == OnTask(TaskKinds, t1) \cup OnBatch({"raise", "lower"})
BatchPayloads == OnTask({"pause", "resume"}, t1) \cup OnBatch({"pause", "resume", "stop", "close"})
StopPayloads == OnTask({"stop", "resume"}, t1)

Symmetry == Permutations(CommandIds)
=============================================================================
