---------------------------- MODULE MCTaskBoard ----------------------------
(* Model-checking instances of TaskBoard.                                  *)
EXTENDS TaskBoard, TLC

\* Tasks are interchangeable: used only in runs without liveness properties.
TaskSymmetry == Permutations(Task)
=============================================================================
