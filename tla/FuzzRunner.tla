------------------------------- MODULE FuzzRunner -------------------------------
(* extractor/fuzz_runner.py: run_bounded, the parent that gives one fuzz action a *)
(* deadline, and _worker, the child process that fuzzes, streams its report over  *)
(* a pipe and drains its evidence (recording_session, evidence_session.py).       *)
(*                                                                                *)
(* The recorder and the fuzzer are abstracted to what the two processes can tell: *)
(* whether a disagreement has been found, and what became of the evidence. The    *)
(* operating system (pipe, signals, the clock) is the environment.                *)
EXTENDS Naturals, Sequences

CONSTANTS
    MaxProgress,    \* bound: progress reports the child sends
    PipeCapacity    \* bound: reports the pipe's buffer holds

ASSUME RunnerAssumption == MaxProgress \in Nat /\ PipeCapacity \in Nat \ {0}

VARIABLES
    mode,       \* how the action was asked for (never changes)
    ppc,        \* the parent's position in run_bounded
    report,     \* the parent's report
    reason,     \* report["reason"]
    failure,    \* worker_failure
    raising,    \* an exception is on its way out of run_bounded
    expired,    \* the time budget is used up
    abandoned,  \* an interrupt left the finally before the child was reaped
    signalled,  \* the parent sent SIGTERM or SIGKILL before it reaped the child
    ctrlC,      \* Ctrl-C reached the process group
    cpc,        \* the child's position in _worker
    out,        \* the kind of the message the child is sending
    said,       \* the last report of the child's fuzz() (at first: the one it begins with)
    over,       \* fuzz() has no more to report
    sent,       \* how many progress reports it has sent, but for the final one
    evidence,   \* what became of the child's evidence
    handler,    \* the child's disposition of each signal
    pending,    \* signals sent to the child and not delivered yet
    exit,       \* how the child ended
    pipe,       \* messages in the pipe, the last one possibly still being written
    streamed    \* history: a report with a disagreement was written to the pipe, "in time"
                \* (before the deadline) or "late"

parentVars == <<ppc, report, reason, failure, raising, abandoned, signalled>>
childVars == <<cpc, out, said, over, sent, evidence, handler, exit, streamed>>
vars == <<mode, parentVars, expired, ctrlC, childVars, pending, pipe>>

--------------------------------------------------------------------------------
\* What the child's fuzz() tells, and its last report.
Told == INSTANCE FuzzReports
NoReport == Told!Report("none", FALSE, "none")

Message(k, r) == [kind |-> k, report |-> r, whole |-> FALSE]

Init ==
    /\ Told!Init
    /\ ppc = "poll"
    /\ report = said
    /\ reason = "none" /\ failure = "none" /\ raising = FALSE
    /\ expired = FALSE /\ abandoned = FALSE /\ signalled = FALSE /\ ctrlC = FALSE
    /\ cpc = "boot" /\ out = Message("none", NoReport)
    /\ sent = 0
    /\ evidence = IF mode = "recorded" THEN "unopened" ELSE "off"
    \* Python turns SIGINT into KeyboardInterrupt; SIGTERM kills.
    /\ handler = [TERM |-> "die", INT |-> "raise", KILL |-> "die"]
    /\ pending = {} /\ exit = "running"
    /\ pipe = <<>> /\ streamed = "no"

--------------------------------------------------------------------------------
(* The child.                                                                     *)

Alive == cpc # "dead"
\* The kernel closes the write end with the process, if connection.close() did not.
WriteEndClosed == cpc \in {"exiting", "dead"}

\* Imports and the request are done, _worker has installed its handlers.
Boot ==
    /\ cpc = "boot"
    /\ cpc' = "fuzz"
    /\ IF mode = "recorded"
         THEN /\ handler' = [handler EXCEPT !.TERM = "once", !.INT = "once"]
              /\ evidence' = "open"
         ELSE UNCHANGED <<handler, evidence>>
    /\ UNCHANGED <<mode, parentVars, expired, ctrlC, out, said, over, sent, exit, streamed, pending, pipe>>

\* An import or the request fails before _worker's try: the process ends by itself.
BootFails ==
    /\ cpc = "boot"
    /\ cpc' = "dead" /\ exit' = "error"
    /\ UNCHANGED <<mode, parentVars, expired, ctrlC, out, said, over, sent, evidence, handler,
                   streamed, pending, pipe>>

\* publish(): the report so far.
Publish ==
    /\ cpc = "fuzz" /\ sent < MaxProgress
    /\ Told!Tell
    /\ sent' = sent + 1
    /\ out' = Message("progress", said')
    /\ cpc' = "send"
    /\ UNCHANGED <<parentVars, expired, ctrlC, evidence, handler, exit, streamed, pending, pipe>>

\* The last publish(), its report being the one that fuzz() returns.
FuzzReturns ==
    /\ cpc = "fuzz"
    /\ Told!Return
    /\ out' = Message("progress", said')
    /\ cpc' = "send"
    /\ UNCHANGED <<parentVars, expired, ctrlC, sent, evidence, handler, exit, streamed, pending, pipe>>

\* The error message: _worker's except clause.
Error == Message("error", NoReport)

\* fuzz() raises: the session closes on the way out.
FuzzRaises ==
    /\ cpc = "fuzz"
    /\ out' = Error
    /\ cpc' = IF mode = "recorded" THEN "drain" ELSE "send"
    /\ UNCHANGED <<mode, parentVars, expired, ctrlC, said, over, sent, evidence, handler, exit,
                   streamed, pending, pipe>>

\* recorder.close() returns: everything recorded is in the file.
Drained ==
    /\ cpc = "drain"
    /\ evidence' = "drained"
    /\ cpc' = "send"
    /\ UNCHANGED <<mode, parentVars, expired, ctrlC, out, said, over, sent, handler, exit,
                   streamed, pending, pipe>>

\* recorder.close() raises (a codec or disk error): reported like any other error.
DrainFails ==
    /\ cpc = "drain"
    /\ evidence' = "failed"
    /\ cpc' = "send" /\ out' = Error
    /\ UNCHANGED <<mode, parentVars, expired, ctrlC, said, over, sent, handler, exit,
                   streamed, pending, pipe>>

\* connection.send blocks on a full pipe. A large message takes several writes.
BeginSend ==
    /\ cpc = "send"
    /\ Len(pipe) < PipeCapacity
    /\ pipe' = Append(pipe, out)
    /\ cpc' = "mid"
    /\ UNCHANGED <<mode, parentVars, expired, ctrlC, out, said, over, sent, evidence, handler, exit,
                   streamed, pending>>

\* Behind the final progress report the recording session closes; then the report is
\* sent once more, as the complete one.
FinishSend ==
    /\ cpc = "mid"
    \* The parent reads nothing behind an unfinished message: it is still the last one.
    /\ pipe' = [pipe EXCEPT ![Len(pipe)].whole = TRUE]
    /\ streamed' = IF ~out.report.found \/ streamed # "no" THEN streamed
                   ELSE IF expired THEN "late" ELSE "in time"
    /\ IF out.kind = "progress" /\ over
         THEN /\ out' = Message("complete", said)
              /\ cpc' = IF mode = "recorded" THEN "drain" ELSE "send"
         ELSE /\ cpc' = IF out.kind = "progress" THEN "fuzz" ELSE "exiting"
              /\ UNCHANGED out
    /\ UNCHANGED <<mode, parentVars, expired, ctrlC, said, over, sent, evidence, handler, exit, pending>>

Exit ==
    /\ cpc = "exiting"
    /\ cpc' = "dead"
    /\ exit' \in {"zero", "error"}
    /\ UNCHANGED <<mode, parentVars, expired, ctrlC, out, said, over, sent, evidence, handler,
                   streamed, pending, pipe>>

\* Evidence of a process that dies without closing its session is cut off.
CutOff == IF evidence = "open" THEN "lost" ELSE evidence

\* Native code aborts the process.
Crash ==
    /\ Alive
    /\ cpc' = "dead" /\ exit' = "crash" /\ evidence' = CutOff
    /\ UNCHANGED <<mode, parentVars, expired, ctrlC, out, said, over, sent, handler,
                   streamed, pending, pipe>>

--------------------------------------------------------------------------------
(* Signals reach the child.                                                       *)

\* KeyboardInterrupt: inside the session it unwinds through recorder.close(); in
\* recorder.close() it aborts the drain; inside the except clause, or later, it only
\* ends the process.
Unwind ==
    CASE cpc = "boot" ->
            cpc' = "dead" /\ exit' = "error" /\ UNCHANGED <<out, evidence>>
      [] cpc = "fuzz" \/ (cpc \in {"send", "mid"} /\ out.kind = "progress") ->
            /\ cpc' = IF mode = "recorded" THEN "drain" ELSE "send"
            /\ out' = Error
            /\ UNCHANGED <<exit, evidence>>
      [] cpc = "drain" ->
            cpc' = "send" /\ out' = Error /\ evidence' = "aborted" /\ UNCHANGED exit
      [] cpc \in {"send", "mid"} /\ out.kind = "complete" ->
            cpc' = "send" /\ out' = Error /\ UNCHANGED <<exit, evidence>>
      [] OTHER -> cpc' = "exiting" /\ UNCHANGED <<out, exit, evidence>>

\* Mutant of Deliver: the handler ignores only the signal it was called for.
DeliverIgnoringOne(s) ==
    /\ Alive /\ s \in pending
    /\ pending' = pending \ {s}
    /\ CASE handler[s] = "die" ->
              /\ cpc' = "dead" /\ evidence' = CutOff
              /\ exit' = IF s = "KILL" THEN "kill" ELSE "term"
              /\ UNCHANGED <<out, handler>>
         [] handler[s] = "once" -> handler' = [handler EXCEPT ![s] = "ignore"] /\ Unwind
         [] handler[s] = "raise" -> Unwind /\ UNCHANGED handler
         [] OTHER -> UNCHANGED <<cpc, exit, evidence, out, handler>>
    /\ UNCHANGED <<mode, parentVars, expired, ctrlC, said, over, sent, streamed, pipe>>

\* The handler first ignores both signals, then raises.
Deliver(s) ==
    /\ Alive /\ s \in pending
    /\ pending' = pending \ {s}
    /\ CASE handler[s] = "die" ->
              /\ cpc' = "dead" /\ evidence' = CutOff
              /\ exit' = IF s = "KILL" THEN "kill" ELSE "term"
              /\ UNCHANGED <<out, handler>>
         [] handler[s] = "once" ->
              /\ handler' = [handler EXCEPT !.TERM = "ignore", !.INT = "ignore"]
              /\ Unwind
         [] handler[s] = "raise" -> Unwind /\ UNCHANGED handler
         [] OTHER -> UNCHANGED <<cpc, exit, evidence, out, handler>>
    /\ UNCHANGED <<mode, parentVars, expired, ctrlC, said, over, sent, streamed, pipe>>

--------------------------------------------------------------------------------
(* The parent.                                                                    *)

Tick ==
    /\ ~expired
    /\ expired' = TRUE
    /\ UNCHANGED <<mode, parentVars, ctrlC, childVars, pending, pipe>>

\* Mutant of Incomplete: what the last report says of its processing stands.
IncompleteAsTold(r) == r

Incomplete(r) == [r EXCEPT !.processing = "incomplete"]

\* Mutant of TimeOut: the report starts afresh.
TimeOutAfresh ==
    /\ ppc = "poll" /\ expired
    /\ report' = Told!Report("incomplete", FALSE, "incomplete") /\ reason' = "time"
    /\ ppc' = "teardown"
    /\ UNCHANGED <<mode, failure, raising, expired, abandoned, signalled, ctrlC, childVars, pending, pipe>>

\* remaining <= 0, or poll(remaining) finds nothing in time. The pipe is not read again.
TimeOut ==
    /\ ppc = "poll" /\ expired
    /\ report' = Incomplete(report) /\ reason' = "time"
    /\ ppc' = "teardown"
    /\ UNCHANGED <<mode, failure, raising, expired, abandoned, signalled, ctrlC, childVars, pending, pipe>>

\* poll is true for data and for an end of file.
Ready ==
    /\ ppc = "poll" /\ ~expired
    /\ pipe # <<>> \/ WriteEndClosed
    /\ ppc' = "recv"
    /\ UNCHANGED <<mode, report, reason, failure, raising, expired, abandoned, signalled, ctrlC,
                   childVars, pending, pipe>>

Receive ==
    /\ ppc = "recv" /\ pipe # <<>> /\ Head(pipe).whole
    /\ pipe' = Tail(pipe)
    /\ IF Head(pipe).kind = "error"
         THEN /\ report' = Incomplete(report) /\ reason' = "error" /\ failure' = "reported"
              /\ ppc' = "teardown"
         ELSE /\ report' = Head(pipe).report
              /\ ppc' = IF Head(pipe).kind = "complete" THEN "teardown" ELSE "poll"
              /\ UNCHANGED <<reason, failure>>
    /\ UNCHANGED <<mode, raising, expired, abandoned, signalled, ctrlC, childVars, pending>>

\* Mutant of Ended: a dead child means the end, whatever is left in the pipe.
EndedEarly == WriteEndClosed

Ended == WriteEndClosed /\ (pipe = <<>> \/ (Len(pipe) = 1 /\ ~Head(pipe).whole))

\* EOFError: at a message boundary, or right behind the header of a large message.
EndOfFile ==
    /\ ppc = "recv" /\ Ended
    /\ report' = Incomplete(report) /\ reason' = "exit" /\ failure' = "exit"
    /\ ppc' = "teardown"
    /\ UNCHANGED <<mode, raising, expired, abandoned, signalled, ctrlC, childVars, pending, pipe>>

\* Inside a message recv raises OSError, and anything else when another message
\* follows the torn one: neither is caught.
ReceiveRaises ==
    /\ ppc = "recv" /\ pipe # <<>> /\ ~Head(pipe).whole
    /\ WriteEndClosed \/ Len(pipe) > 1
    /\ raising' = TRUE
    /\ ppc' = "teardown"
    /\ UNCHANGED <<mode, report, reason, failure, expired, abandoned, signalled, ctrlC, childVars,
                   pending, pipe>>

\* Ctrl-C reaches both processes; Popen.wait lets the exception out of the finally.
CtrlC ==
    /\ ~ctrlC /\ ctrlC' = TRUE
    /\ ppc \notin {"returned", "raised"}
    /\ pending' = IF Alive THEN pending \union {"INT"} ELSE pending
    /\ raising' = TRUE
    /\ IF ppc \in {"poll", "recv"}
         THEN ppc' = "teardown" /\ UNCHANGED abandoned
         ELSE ppc' = "raised" /\ abandoned' = TRUE
    /\ UNCHANGED <<mode, report, reason, failure, signalled, expired, childVars, pipe>>

\* The finally: a dead child is only reaped; after a failure it gets a second to end by
\* itself; otherwise it is told to end.
Send(s) == pending' = IF Alive THEN pending \union {s} ELSE pending

TeardownUnchanged == UNCHANGED <<mode, report, reason, failure, raising, expired, abandoned, ctrlC,
                                 childVars, pipe>>

Teardown ==
    /\ ppc = "teardown"
    /\ IF Alive /\ failure = "none"
         THEN Send("TERM") /\ signalled' = TRUE /\ ppc' = "wait"
         ELSE /\ ppc' = IF Alive THEN "grace" ELSE "wait"
              /\ UNCHANGED <<pending, signalled>>
    /\ TeardownUnchanged

\* worker.wait(timeout=1): the child ends in time.
Reaped ==
    /\ ppc \in {"grace", "wait", "final"} /\ ~Alive
    /\ ppc' = IF ppc = "grace" THEN "wait" ELSE "close"
    /\ UNCHANGED <<pending, signalled>>
    /\ TeardownUnchanged

\* Mutant of GraceTimesOut: the terminated child is not waited for.
GraceTimesOutUnreaped ==
    /\ ppc = "grace" /\ Alive
    /\ Send("TERM") /\ signalled' = TRUE
    /\ ppc' = "close"
    /\ TeardownUnchanged

\* It does not: terminate after the grace period, kill after the second wait.
GraceTimesOut ==
    /\ ppc = "grace" /\ Alive
    /\ Send("TERM") /\ signalled' = TRUE
    /\ ppc' = "wait"
    /\ TeardownUnchanged

\* Mutant of WaitTimesOut: SIGTERM once more.
WaitTimesOutPolitely ==
    /\ ppc = "wait" /\ Alive
    /\ Send("TERM") /\ signalled' = TRUE
    /\ ppc' = "final"
    /\ TeardownUnchanged

WaitTimesOut ==
    /\ ppc = "wait" /\ Alive
    /\ Send("KILL") /\ signalled' = TRUE
    /\ ppc' = "final"
    /\ TeardownUnchanged

\* receiver.close(), then the exit code goes into the report, or the exception on.
Leave ==
    /\ ppc = "close"
    /\ ppc' = IF raising THEN "raised" ELSE "returned"
    /\ UNCHANGED <<pending, signalled>>
    /\ TeardownUnchanged

--------------------------------------------------------------------------------
Parent == \/ TimeOut \/ Ready \/ Receive \/ EndOfFile \/ ReceiveRaises
          \/ Teardown \/ Reaped \/ GraceTimesOut \/ WaitTimesOut \/ Leave

Child == \/ Boot \/ BootFails \/ Publish \/ FuzzReturns \/ FuzzRaises
         \/ Drained \/ DrainFails \/ BeginSend \/ FinishSend \/ Exit

Environment == Tick \/ CtrlC \/ Crash \/ (\E s \in {"TERM", "INT", "KILL"} : Deliver(s))

Next == Parent \/ Child \/ Environment

Spec == Init /\ [][Next]_vars

\* Time passes, the parent runs, SIGKILL works, and a write into a pipe whose reader
\* waits in recv finishes. Nothing is assumed of the child otherwise: it may hang.
FairSpec == /\ Spec
            /\ WF_vars(Tick) /\ WF_vars(Parent)
            /\ WF_vars(FinishSend) /\ WF_vars(Deliver("KILL"))

--------------------------------------------------------------------------------
(* Properties.                                                                    *)

Statuses == {"none", "incomplete", "pass", "mismatch"}
Reports == [status : Statuses, found : BOOLEAN, processing : {"none", "incomplete", "complete"}]
Messages == [kind : {"none", "progress", "complete", "error"}, report : Reports, whole : BOOLEAN]

\* The types of the two processes' state and of the pipe between them.
TypeOK ==
    /\ mode \in Told!Modes
    /\ ppc \in {"poll", "recv", "teardown", "grace", "wait", "final", "close", "returned", "raised"}
    /\ report \in Reports
    /\ reason \in {"none", "time", "error", "exit"}
    /\ failure \in {"none", "reported", "exit"}
    /\ raising \in BOOLEAN /\ expired \in BOOLEAN /\ abandoned \in BOOLEAN
    /\ signalled \in BOOLEAN /\ ctrlC \in BOOLEAN
    /\ cpc \in {"boot", "fuzz", "send", "mid", "drain", "exiting", "dead"}
    /\ out \in Messages /\ said \in Reports /\ over \in BOOLEAN /\ sent \in 0 .. MaxProgress
    /\ evidence \in {"off", "unopened", "open", "drained", "failed", "aborted", "lost"}
    /\ handler \in [{"TERM", "INT", "KILL"} -> {"die", "raise", "once", "ignore"}]
    /\ pending \subseteq {"TERM", "INT", "KILL"}
    /\ exit \in {"running", "zero", "error", "crash", "term", "kill"}
    /\ pipe \in Seq(Messages) /\ Len(pipe) <= PipeCapacity
    /\ streamed \in {"no", "in time", "late"}

\* run_bounded leaves no process behind, whatever the child did: it returns or raises
\* only after the child is dead, except when Ctrl-C strikes inside its finally.
NoOrphan == ppc \in {"returned", "raised"} /\ ~abandoned => cpc = "dead"

\* A report whose processing is complete stands for evidence that is in the file: fuzz()
\* streams such a report before its recording session closes, but the parent takes its
\* word only when the child sends it once more.
CompleteMeansDrained ==
    ppc = "returned" /\ report.processing = "complete" /\ mode = "recorded"
        => evidence = "drained"

\* A report that retains a mismatch of a single model says so in its status, at
\* whatever point the deadline cuts the stream.
MismatchHasStatus ==
    report.found /\ mode \in {"model", "resume"} => report.status = "mismatch"

\* As long as the deadline does not strike, every disagreement the child managed to
\* write to the pipe is in the report, however the child ended.
StreamedIsRetained ==
    ppc = "returned" /\ reason # "time" /\ streamed # "no" => report.found

\* A finding in the parent's report is never overwritten by a later report.
FindingsAreKept == [][report.found => report'.found]_vars

\* A second signal does not interrupt the drain the first one started (the comment in
\* _worker's handler). The drain of a call that returned normally is not protected: the
\* first signal it meets aborts it.
SecondSignalIgnored ==
    [][cpc = "drain" /\ (\E s \in {"TERM", "INT"} : handler[s] = "ignore")
           => evidence' # "aborted"]_vars

\* run_bounded ends, even if the child hangs, ignores SIGTERM, or never starts.
RunEnds == <>(ppc \in {"returned", "raised"})

--------------------------------------------------------------------------------
(* Claims of the repository that the code does not keep.                          *)

\* "Bound one fuzz action while retaining streamed findings on timeout": what the child
\* has written to the pipe before the time is up is in the report.
StreamedFindingsSurviveTimeout == ppc = "returned" /\ streamed = "in time" => report.found

\* "mismatch: at least one concrete disagreement was retained".
RetainedDisagreementIsMismatch == ppc = "returned" /\ report.found => report.status = "mismatch"
================================================================================
