------------------------------ MODULE MCFuzzRunner ------------------------------
(* Small instances of the runner for TLC: see the MCFuzzRunner*.cfg.              *)
EXTENDS FuzzRunner
================================================================================
