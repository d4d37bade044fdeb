---------------------------- MODULE MCFuzzStages ----------------------------
(* Three inputs whose scalar order differs from the order of simplicity.      *)
EXTENDS FuzzStages
MCInputs == 1 .. 3
MCRank == <<2, 1, 3>>
=============================================================================
