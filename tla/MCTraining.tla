----------------------------- MODULE MCTraining -----------------------------
(***************************************************************************)
(* Two episodes with a milestone before each and one at the end; the final *)
(* evaluation is of the best model, or of two periodic ones.               *)
(***************************************************************************)
EXTENDS TrainingSession

AllMilestones == {0, 1, 2}
BothEpisodes == {1, 2}
BestOnly == {{}}
BothPlans == {{}, {1, 2}}
=============================================================================
