--------------------------- MODULE MCEvidenceRecorder ---------------------------
(* A small instance of the recorder for TLC: see MCEvidenceRecorder.cfg.          *)
EXTENDS EvidenceRecorder
================================================================================
