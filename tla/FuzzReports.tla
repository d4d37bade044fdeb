------------------------------ MODULE FuzzReports ------------------------------
(* What one call of fuzz() (extractor/fuzzer.py) tells the process around it: the *)
(* sequence of reports it gives to progress, and the last of them, which it then  *)
(* returns. FuzzRunner takes this for granted of the worker it supervises;        *)
(* FuzzCampaign implements it.                                                    *)
(*                                                                                *)
(* A report is told apart by its status, by whether it retains a disagreement and *)
(* by whether the requested processing is complete.                               *)

VARIABLES
    mode,   \* how the call was asked for (never changes)
    said,   \* the last report given to progress
    over    \* it was the one that fuzz() returns

\* recorded: discovery with evidence; campaign: discovery without; model: one model
\* until its first mismatch; resume: shrink or explain, given a previous mismatch.
Modes == {"recorded", "campaign", "model", "resume"}
Single == mode \in {"model", "resume"}

Report(s, f, p) == [status |-> s, found |-> f, processing |-> p]
Ends == {"incomplete", "complete"}

\* Mutant of Progress: the status is filled in at the end, for a single model too.
ProgressUnnamed(f) == Report("incomplete", f, "incomplete")

\* publish() while sampling: "mismatch" at once for a single model; a campaign fills in
\* its status only when all of its cases are done.
Progress(f) == Report(IF f /\ Single THEN "mismatch" ELSE "incomplete", f, "incomplete")

\* publish() at the end. A mismatch is complete, unless the execution limit struck or it
\* was not reproduced. One model without a mismatch passes, or stopped at the limit; a
\* campaign may have met unusable samples, whether or not the limit stopped it.
Final(f) ==
    IF f THEN {Report("mismatch", TRUE, p) : p \in Ends}
    ELSE IF Single THEN {Report("pass", FALSE, "complete"), Report("incomplete", FALSE, "incomplete")}
    ELSE {Report(s, FALSE, p) : s \in {"pass", "incomplete"}, p \in Ends}

Init ==
    /\ mode \in Modes
    /\ said = Report(IF mode = "resume" THEN "mismatch" ELSE "incomplete", mode = "resume",
                     "incomplete")
    /\ over = FALSE

\* What was found stays found.
Tell ==
    /\ ~over
    /\ \E f \in BOOLEAN : (said.found => f) /\ said' = Progress(f)
    /\ UNCHANGED <<mode, over>>

\* The final report of a campaign may be the first to tell of a disagreement: one that
\* was counted by a sample that raised before its own report.
Return ==
    /\ ~over /\ over' = TRUE
    /\ \E f \in BOOLEAN : /\ said.found => f
                          /\ Single => f = said.found
                          /\ said' \in Final(f)
    /\ UNCHANGED mode

Next == Tell \/ Return

Spec == Init /\ [][Next]_<<mode, said, over>>
================================================================================
