----------------------------- MODULE MCAdoption -----------------------------
(***************************************************************************)
(* Two tasks of one source, one of which trains, and a live queue that     *)
(* adopts them.                                                            *)
(***************************************************************************)
EXTENDS BatchAdoption, TLC

CONSTANTS q1, t1, t2

OneQueue == {q1}
TwoTasks == {t1, t2}
FirstTrains == {t1}
=============================================================================
