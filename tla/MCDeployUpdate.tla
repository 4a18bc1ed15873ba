--------------------------- MODULE MCDeployUpdate ---------------------------
(***************************************************************************)
(* Two updaters, three commits of which the last one changes the           *)
(* requirements, and either type of unit.                                  *)
(***************************************************************************)
EXTENDS DeployUpdate, TLC

\* The last commit changes requirements.txt.
LastChanges == [v \in Version |-> IF v = MaxVersion THEN 1 ELSE 0]

UpdaterSymmetry == Permutations(Updater)
=============================================================================
