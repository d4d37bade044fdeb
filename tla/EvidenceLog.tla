------------------------------ MODULE EvidenceLog ------------------------------
(* What evidence recording promises, without threads or queues: a log to which *)
(* records are submitted, that stores them in the order of submission, and     *)
(* whose close may be clean only when nothing submitted is missing.            *)
(*                                                                             *)
(* EvidenceRecorder implements it (EvidenceRecorder!Log).                      *)
EXTENDS Integers, Sequences

VARIABLES
    accepted,   \* what the program has submitted, in order
    stored,     \* what a reader of the output finds, in order
    outcome     \* how the recording ended: "open", "clean" or "failed"

logVars == <<accepted, stored, outcome>>

Init == accepted = <<>> /\ stored = <<>> /\ outcome = "open"

\* A record names at most one earlier record (its context); -1 is "none".
Submit == /\ outcome = "open"
          /\ \E c \in -1 .. Len(accepted) - 1 : accepted' = Append(accepted, c)
          /\ UNCHANGED <<stored, outcome>>

\* Records are stored one at a time, each the oldest one not stored yet. The
\* writer may still be storing after the program gave up on the recording.
Store == /\ Len(stored) < Len(accepted)
         /\ stored' = Append(stored, accepted[Len(stored) + 1])
         /\ UNCHANGED <<accepted, outcome>>

FinishClean == /\ outcome = "open" /\ stored = accepted
               /\ outcome' = "clean"
               /\ UNCHANGED <<accepted, stored>>

FinishFailed == /\ outcome = "open"
                /\ outcome' = "failed"
                /\ UNCHANGED <<accepted, stored>>

Next == Submit \/ Store \/ FinishClean \/ FinishFailed

Spec == Init /\ [][Next]_logVars
================================================================================
