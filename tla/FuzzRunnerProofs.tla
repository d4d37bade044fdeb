--------------------------- MODULE FuzzRunnerProofs ---------------------------
(* Proofs, for every number of progress reports and every capacity of the pipe,  *)
(* of the safety properties of run_bounded and its child.                        *)
EXTENDS FuzzRunner, SequenceTheorems, TLAPS

--------------------------------------------------------------------------------
(* Types.                                                                        *)

\* The reports that fuzz() tells are reports, with what they say of the disagreement.
LEMMA ChildReports ==
    ASSUME NEW e \in BOOLEAN
    PROVE  /\ NoReport \in Reports
           /\ Told!Progress(e) \in Reports
           /\ Told!Progress(e).found = e
           /\ e /\ Told!Single => Told!Progress(e).status = "mismatch"
           /\ \A r \in Told!Final(e) :
                 r \in Reports /\ r.found = e /\ (e => r.status = "mismatch")
<1>1. ASSUME NEW t \in Statuses, NEW g \in BOOLEAN, NEW q \in {"none", "incomplete", "complete"}
      PROVE  /\ Told!Report(t, g, q) \in Reports
             /\ Told!Report(t, g, q).status = t
             /\ Told!Report(t, g, q).found = g
  BY DEF Told!Report, Reports
<1>2. NoReport \in Reports
  BY <1>1 DEF NoReport, Statuses
<1>3. Told!Progress(e) = Told!Report(IF e /\ Told!Single THEN "mismatch" ELSE "incomplete", e,
                                     "incomplete")
  BY DEF Told!Progress
<1>4. /\ Told!Progress(e) \in Reports /\ Told!Progress(e).found = e
      /\ e /\ Told!Single => Told!Progress(e).status = "mismatch"
  <2>1. CASE e /\ Told!Single
    BY <1>1, <1>3, <2>1 DEF Statuses
  <2>2. CASE ~(e /\ Told!Single)
    <3>1. Told!Progress(e) = Told!Report("incomplete", e, "incomplete")
      BY <1>3, <2>2
    <3> QED
      BY <1>1, <2>2, <3>1 DEF Statuses
  <2> QED
    BY <2>1, <2>2
<1>5. ASSUME NEW r \in Told!Final(e)
      PROVE  r \in Reports /\ r.found = e /\ (e => r.status = "mismatch")
  <2>1. PICK t \in Statuses, q \in {"incomplete", "complete"} :
            r = Told!Report(t, e, q) /\ (e => t = "mismatch")
    <3>1. CASE e = TRUE
      <4>1. r \in Told!Final(TRUE)
        BY <1>5, <3>1
      <4>2. PICK q \in {"incomplete", "complete"} : r = Told!Report("mismatch", TRUE, q)
        BY <4>1 DEF Told!Final, Told!Ends, Told!Report
      <4> QED
        BY <3>1, <4>2 DEF Statuses
    <3>2. CASE e = FALSE
      <4>1. r \in Told!Final(FALSE)
        BY <1>5, <3>2
      <4>2. PICK t \in {"pass", "incomplete"}, q \in {"incomplete", "complete"} :
                r = Told!Report(t, FALSE, q)
        BY <4>1 DEF Told!Final, Told!Ends, Told!Report
      <4> QED
        BY <3>2, <4>2 DEF Statuses
    <3> QED
      BY <3>1, <3>2
  <2> QED
    BY <1>1, <2>1
<1> QED
  BY <1>2, <1>4, <1>5

\* A step of what the child's fuzz() tells: what it has found stays found, and a single
\* model's disagreement has its name.
LEMMA SaidStep ==
    ASSUME said \in Reports, Told!Tell \/ Told!Return
    PROVE  /\ said' \in Reports /\ mode' = mode
           /\ said.found => said'.found
           /\ said'.found /\ Told!Single => said'.status = "mismatch"
<1>1. CASE Told!Tell
  <2>1. PICK e \in BOOLEAN : (said.found => e) /\ said' = Told!Progress(e)
    BY <1>1 DEF Told!Tell
  <2>2. mode' = mode
    BY <1>1 DEF Told!Tell
  <2>3. said' \in Reports /\ said'.found = e /\ (e /\ Told!Single => said'.status = "mismatch")
    BY <2>1, ChildReports
  <2> QED
    BY <2>1, <2>2, <2>3
<1>2. CASE Told!Return
  <2>1. PICK e \in BOOLEAN : (said.found => e) /\ said' \in Told!Final(e)
    BY <1>2 DEF Told!Return
  <2>2. mode' = mode
    BY <1>2 DEF Told!Return
  <2>3. said' \in Reports /\ said'.found = e /\ (e => said'.status = "mismatch")
    BY <2>1, ChildReports
  <2> QED
    BY <2>1, <2>2, <2>3
<1> QED
  BY <1>1, <1>2

\* The parent's amendment of a report changes nothing but its processing.
LEMMA IncompleteType ==
    ASSUME NEW r \in Reports
    PROVE  /\ Incomplete(r) \in Reports
           /\ Incomplete(r).status = r.status
           /\ Incomplete(r).found = r.found
           /\ Incomplete(r).processing = "incomplete"
BY DEF Incomplete, Reports

\* Initially and for good, a message carries its kind and its report.
LEMMA MessageType ==
    ASSUME NEW k \in {"none", "progress", "complete", "error"}, NEW r \in Reports
    PROVE  /\ Message(k, r) \in Messages
           /\ Message(k, r).kind = k
           /\ Message(k, r).report = r
           /\ Message(k, r).whole = FALSE
BY DEF Message, Messages

\* BeginSend puts the child's message, unfinished, behind the others.
LEMMA BeginSendPipe ==
    ASSUME TypeOK, BeginSend
    PROVE  /\ pipe' \in Seq(Messages)
           /\ Len(pipe') = Len(pipe) + 1
           /\ pipe'[Len(pipe) + 1] = out
           /\ \A i \in 1 .. Len(pipe) : pipe'[i] = pipe[i]
<1>1. pipe \in Seq(Messages) /\ out \in Messages /\ pipe' = Append(pipe, out)
  BY DEF TypeOK, BeginSend
<1> QED
  BY <1>1, AppendProperties

\* FinishSend changes the completeness of the last message and nothing else.
LEMMA FinishSendPipe ==
    ASSUME TypeOK, FinishSend
    PROVE  /\ pipe' \in Seq(Messages)
           /\ Len(pipe') = Len(pipe)
           /\ \A i \in 1 .. Len(pipe) :
                 /\ pipe'[i].kind = pipe[i].kind
                 /\ pipe'[i].report = pipe[i].report
                 /\ i # Len(pipe) => pipe'[i].whole = pipe[i].whole
                 /\ i = Len(pipe) => pipe'[i].whole = TRUE
<1>1. pipe \in Seq(Messages) /\ Len(pipe) \in Nat /\ DOMAIN pipe = 1 .. Len(pipe)
  <2>1. pipe \in Seq(Messages)
    BY DEF TypeOK
  <2> QED
    BY <2>1, LenProperties
<1>2. pipe' = [i \in 1 .. Len(pipe) |->
                 IF i = Len(pipe) THEN [pipe[i] EXCEPT !.whole = TRUE] ELSE pipe[i]]
  BY <1>1 DEF FinishSend
<1>3. ASSUME NEW m \in Messages
      PROVE  /\ [m EXCEPT !.whole = TRUE] \in Messages
             /\ [m EXCEPT !.whole = TRUE].kind = m.kind
             /\ [m EXCEPT !.whole = TRUE].report = m.report
             /\ [m EXCEPT !.whole = TRUE].whole = TRUE
  BY DEF Messages
<1>4. \A i \in 1 .. Len(pipe) : pipe[i] \in Messages
  BY <1>1
<1>5. \A i \in 1 .. Len(pipe) : pipe'[i] \in Messages
  BY <1>2, <1>3, <1>4
<1>6. pipe' \in [1 .. Len(pipe) -> Messages]
  BY <1>2, <1>5
<1>7. pipe' \in Seq(Messages) /\ Len(pipe') = Len(pipe)
  BY <1>1, <1>6, SeqDef, LenProperties
<1> QED
  BY <1>2, <1>3, <1>4, <1>7

\* Receive takes the first message and moves the others up.
LEMMA ReceivePipe ==
    ASSUME TypeOK, Receive
    PROVE  /\ pipe' \in Seq(Messages)
           /\ Len(pipe) > 0
           /\ Len(pipe') = Len(pipe) - 1
           /\ Head(pipe) = pipe[1] /\ pipe[1] \in Messages
           /\ \A i \in 1 .. Len(pipe) - 1 : pipe'[i] = pipe[i + 1]
<1>1. pipe \in Seq(Messages) /\ pipe # <<>> /\ pipe' = Tail(pipe)
  BY DEF TypeOK, Receive
<1> QED
  BY <1>1, HeadTailProperties, EmptySeq

\* A delivered signal ends the child, starts its way out, or is ignored.
LEMMA UnwindCases ==
    ASSUME TypeOK, Unwind
    PROVE  \/ cpc = "boot" /\ cpc' = "dead" /\ exit' = "error" /\ UNCHANGED <<out, evidence>>
           \/ /\ cpc = "fuzz" \/ (cpc \in {"send", "mid"} /\ out.kind = "progress")
              /\ cpc' = IF mode = "recorded" THEN "drain" ELSE "send"
              /\ out' = Error /\ UNCHANGED <<exit, evidence>>
           \/ /\ cpc = "drain" /\ cpc' = "send" /\ out' = Error
              /\ evidence' = "aborted" /\ UNCHANGED exit
           \/ /\ cpc \in {"send", "mid"} /\ out.kind = "complete"
              /\ cpc' = "send" /\ out' = Error /\ UNCHANGED <<exit, evidence>>
           \/ /\ cpc \notin {"boot", "fuzz", "drain"}
              /\ cpc' = "exiting" /\ UNCHANGED <<out, exit, evidence>>
BY DEF Unwind

\* The effect of one delivery.
LEMMA DeliverCases ==
    ASSUME TypeOK, NEW s \in {"TERM", "INT", "KILL"}, Deliver(s)
    PROVE  \/ /\ handler[s] = "die" /\ cpc' = "dead" /\ evidence' = CutOff
              /\ exit' \in {"kill", "term"} /\ UNCHANGED <<out, handler>>
           \/ /\ handler[s] = "once" /\ Unwind
              /\ handler' = [handler EXCEPT !.TERM = "ignore", !.INT = "ignore"]
           \/ handler[s] = "raise" /\ Unwind /\ UNCHANGED handler
           \/ handler[s] = "ignore" /\ UNCHANGED <<cpc, exit, evidence, out, handler>>
BY DEF Deliver, TypeOK

\* The types in parts that the provers can handle one at a time.
Switches ==
    /\ raising \in BOOLEAN /\ expired \in BOOLEAN /\ abandoned \in BOOLEAN
    /\ signalled \in BOOLEAN /\ ctrlC \in BOOLEAN /\ over \in BOOLEAN
ParentTypes ==
    /\ mode \in Told!Modes
    /\ ppc \in {"poll", "recv", "teardown", "grace", "wait", "final", "close", "returned", "raised"}
    /\ reason \in {"none", "time", "error", "exit"}
    /\ failure \in {"none", "reported", "exit"}
ReportTypes ==
    /\ report \in Reports /\ out \in Messages
    /\ said \in Reports /\ sent \in 0 .. MaxProgress
ChildTypes ==
    /\ cpc \in {"boot", "fuzz", "send", "mid", "drain", "exiting", "dead"}
    /\ evidence \in {"off", "unopened", "open", "drained", "failed", "aborted", "lost"}
    /\ streamed \in {"no", "in time", "late"}
SignalTypes ==
    /\ handler \in [{"TERM", "INT", "KILL"} -> {"die", "raise", "once", "ignore"}]
    /\ pending \subseteq {"TERM", "INT", "KILL"}
    /\ exit \in {"running", "zero", "error", "crash", "term", "kill"}
PipeTypes == pipe \in Seq(Messages) /\ Len(pipe) <= PipeCapacity

\* Together they are the type invariant.
LEMMA TypeParts ==
    TypeOK <=> Switches /\ ParentTypes /\ ReportTypes /\ ChildTypes /\ SignalTypes /\ PipeTypes
BY DEF TypeOK, Switches, ParentTypes, ReportTypes, ChildTypes, SignalTypes, PipeTypes

\* The parts one by one, first the flags: they stay Boolean.
LEMMA SwitchesInv == Switches /\ [Next]_vars => Switches'
<1> SUFFICES ASSUME Switches, [Next]_vars PROVE Switches'
  OBVIOUS
<1>1. CASE Parent
  BY <1>1 DEF Switches, Parent, TimeOut, Ready, Receive, EndOfFile, ReceiveRaises, Teardown,
              Reaped, GraceTimesOut, WaitTimesOut, Leave, TeardownUnchanged, childVars
<1>2. CASE Child
  BY <1>2 DEF Switches, Child, Boot, BootFails, Publish, FuzzReturns, FuzzRaises, Drained,
              DrainFails, BeginSend, FinishSend, Exit, Told!Tell, Told!Return, parentVars
<1>3. CASE Environment
  BY <1>3 DEF Switches, Environment, Tick, CtrlC, Crash, Deliver, parentVars, childVars
<1>4. CASE UNCHANGED vars
  BY <1>4 DEF Switches, vars, parentVars, childVars
<1> QED
  BY <1>1, <1>2, <1>3, <1>4 DEF Next

\* run_bounded's own variables keep their types.
LEMMA ParentInv == ParentTypes /\ [Next]_vars => ParentTypes'
<1> SUFFICES ASSUME ParentTypes, [Next]_vars PROVE ParentTypes'
  OBVIOUS
<1>1. CASE TimeOut \/ Ready \/ Receive \/ EndOfFile \/ ReceiveRaises
  BY <1>1 DEF ParentTypes, TimeOut, Ready, Receive, EndOfFile, ReceiveRaises, childVars
<1>2. CASE Teardown \/ Reaped \/ GraceTimesOut \/ WaitTimesOut \/ Leave
  BY <1>2 DEF ParentTypes, Teardown, Reaped, GraceTimesOut, WaitTimesOut, Leave,
              TeardownUnchanged, childVars
<1>3. CASE Child
  BY <1>3 DEF ParentTypes, Child, Boot, BootFails, Publish, FuzzReturns, FuzzRaises, Drained,
              DrainFails, BeginSend, FinishSend, Exit, Told!Tell, Told!Return, parentVars
<1>4. CASE Environment
  BY <1>4 DEF ParentTypes, Environment, Tick, CtrlC, Crash, Deliver, parentVars, childVars
<1>5. CASE UNCHANGED vars
  BY <1>5 DEF ParentTypes, vars, parentVars, childVars
<1> QED
  BY <1>1, <1>2, <1>3, <1>4, <1>5 DEF Next, Parent

\* The parent's report and the child's message stay reports and messages.
LEMMA ReportInv == TypeOK /\ [Next]_vars => ReportTypes'
<1> SUFFICES ASSUME TypeOK, [Next]_vars PROVE ReportTypes'
  OBVIOUS
<1> USE RunnerAssumption
<1>0. ReportTypes /\ Error \in Messages
  BY TypeParts, MessageType, ChildReports DEF Error
<1>1. CASE TimeOut \/ Ready \/ EndOfFile \/ ReceiveRaises
  <2>1. Incomplete(report) \in Reports
    BY <1>0, IncompleteType DEF ReportTypes
  <2> QED
    BY <1>0, <1>1, <2>1 DEF ReportTypes, TimeOut, Ready, EndOfFile, ReceiveRaises, childVars
<1>2. CASE Receive
  <2>1. Head(pipe).report \in Reports
    BY <1>2, ReceivePipe DEF Messages
  <2>2. Incomplete(report) \in Reports
    BY <1>0, IncompleteType DEF ReportTypes
  <2> QED
    BY <1>0, <1>2, <2>1, <2>2 DEF ReportTypes, Receive, childVars
<1>3. CASE Teardown \/ Reaped \/ GraceTimesOut \/ WaitTimesOut \/ Leave
  BY <1>0, <1>3 DEF ReportTypes, Teardown, Reaped, GraceTimesOut, WaitTimesOut, Leave,
                    TeardownUnchanged, childVars
<1>4. CASE Publish \/ FuzzReturns
  <2>1. said' \in Reports /\ out' = Message("progress", said')
    BY <1>0, <1>4, SaidStep DEF Publish, FuzzReturns, ReportTypes
  <2>2. report' \in Reports /\ sent' \in 0 .. MaxProgress
    BY <1>0, <1>4 DEF Publish, FuzzReturns, ReportTypes, parentVars
  <2>3. out' \in Messages
    BY <2>1, MessageType
  <2> QED
    BY <2>1, <2>2, <2>3 DEF ReportTypes
<1>5. CASE FinishSend
  <2>1. out' = out \/ out' = Message("complete", said)
    BY <1>5 DEF FinishSend
  <2>2. Message("complete", said) \in Messages
    BY <1>0, MessageType DEF ReportTypes
  <2> QED
    BY <1>0, <1>5, <2>1, <2>2 DEF ReportTypes, FinishSend, parentVars
<1>6. CASE Boot \/ BootFails \/ FuzzRaises \/ Drained \/ DrainFails \/ BeginSend \/ Exit
  BY <1>0, <1>6 DEF ReportTypes, Boot, BootFails, FuzzRaises, Drained, DrainFails, BeginSend,
                    Exit, parentVars
<1>7. CASE Tick \/ CtrlC \/ Crash
  BY <1>0, <1>7 DEF ReportTypes, Tick, CtrlC, Crash, parentVars, childVars
<1>8. ASSUME NEW s \in {"TERM", "INT", "KILL"}, Deliver(s) PROVE ReportTypes'
  <2>1. out' = out \/ out' = Error
    BY <1>8, DeliverCases, UnwindCases
  <2> QED
    BY <1>0, <1>8, <2>1 DEF ReportTypes, Deliver, parentVars
<1>9. CASE UNCHANGED vars
  BY <1>0, <1>9 DEF ReportTypes, vars, parentVars, childVars
<1> QED
  BY <1>1, <1>2, <1>3, <1>4, <1>5, <1>6, <1>7, <1>8, <1>9 DEF Next, Parent, Child, Environment

\* The child's position, its evidence and the streamed flag keep their types.
LEMMA ChildInv == TypeOK /\ [Next]_vars => ChildTypes'
<1> SUFFICES ASSUME TypeOK, ChildTypes, [Next]_vars PROVE ChildTypes'
  BY TypeParts
<1>1. CASE Parent
  BY <1>1 DEF ChildTypes, Parent, TimeOut, Ready, Receive, EndOfFile, ReceiveRaises, Teardown,
              Reaped, GraceTimesOut, WaitTimesOut, Leave, TeardownUnchanged, childVars
<1>2. CASE Child
  BY <1>2 DEF ChildTypes, Child, Boot, BootFails, Publish, FuzzReturns, FuzzRaises, Drained,
              DrainFails, BeginSend, FinishSend, Exit, parentVars
<1>3. CASE Tick \/ CtrlC \/ Crash
  BY <1>3 DEF ChildTypes, Tick, CtrlC, Crash, CutOff, parentVars, childVars
<1>4. ASSUME NEW s \in {"TERM", "INT", "KILL"}, Deliver(s) PROVE ChildTypes'
  <2>1. Unwind => ChildTypes'
    BY <1>4, UnwindCases DEF ChildTypes, Deliver
  <2> QED
    BY <1>4, <2>1, DeliverCases DEF ChildTypes, Deliver, CutOff
<1>5. CASE UNCHANGED vars
  BY <1>5 DEF ChildTypes, vars, parentVars, childVars
<1> QED
  BY <1>1, <1>2, <1>3, <1>4, <1>5 DEF Next, Environment

\* So do the handlers, the pending signals and the way the child ended.
LEMMA SignalInv == TypeOK /\ [Next]_vars => SignalTypes'
<1> SUFFICES ASSUME TypeOK, SignalTypes, [Next]_vars PROVE SignalTypes'
  BY TypeParts
<1>1. CASE Parent
  BY <1>1 DEF SignalTypes, Parent, TimeOut, Ready, Receive, EndOfFile, ReceiveRaises, Teardown,
              Reaped, GraceTimesOut, WaitTimesOut, Leave, Send, TeardownUnchanged, childVars
<1>2. CASE Boot
  <2>1. handler' = handler \/ handler' = [[handler EXCEPT !.TERM = "once"] EXCEPT !.INT = "once"]
    BY <1>2 DEF Boot
  <2> QED
    BY <1>2, <2>1 DEF SignalTypes, Boot
<1>3. CASE Child /\ ~Boot
  BY <1>3 DEF SignalTypes, Child, BootFails, Publish, FuzzReturns, FuzzRaises, Drained,
              DrainFails, BeginSend, FinishSend, Exit, parentVars
<1>4. CASE Tick \/ CtrlC \/ Crash
  BY <1>4 DEF SignalTypes, Tick, CtrlC, Crash, parentVars, childVars
<1>5. ASSUME NEW s \in {"TERM", "INT", "KILL"}, Deliver(s) PROVE SignalTypes'
  <2>1. exit' \in {"running", "zero", "error", "crash", "term", "kill"}
    <3>1. Unwind => exit' = exit \/ exit' = "error"
      BY UnwindCases
    <3> QED
      BY <1>5, <3>1, DeliverCases DEF SignalTypes
  <2>2. pending' = pending \ {s}
    BY <1>5 DEF Deliver
  <2>3. handler' = handler
        \/ handler' = [[handler EXCEPT !.TERM = "ignore"] EXCEPT !.INT = "ignore"]
    BY <1>5, DeliverCases
  <2> QED
    BY <2>1, <2>2, <2>3 DEF SignalTypes
<1>6. CASE UNCHANGED vars
  BY <1>6 DEF SignalTypes, vars, parentVars, childVars
<1> QED
  BY <1>1, <1>2, <1>3, <1>4, <1>5, <1>6 DEF Next, Environment

\* The pipe holds messages, and no more than its capacity.
LEMMA PipeInv == TypeOK /\ [Next]_vars => PipeTypes'
<1> SUFFICES ASSUME TypeOK, PipeTypes, [Next]_vars PROVE PipeTypes'
  BY TypeParts
<1> USE RunnerAssumption DEF PipeTypes
<1>1. CASE Receive
  BY <1>1, ReceivePipe
<1>2. CASE BeginSend
  <2>1. Len(pipe) \in Nat /\ Len(pipe) < PipeCapacity
    BY <1>2, LenProperties DEF BeginSend
  <2> QED
    BY <1>2, <2>1, BeginSendPipe
<1>3. CASE FinishSend
  BY <1>3, FinishSendPipe
<1>4. CASE Parent /\ ~Receive
  BY <1>4 DEF Parent, TimeOut, Ready, EndOfFile, ReceiveRaises, Teardown, Reaped,
              GraceTimesOut, WaitTimesOut, Leave, TeardownUnchanged
<1>5. CASE Child /\ ~BeginSend /\ ~FinishSend
  BY <1>5 DEF Child, Boot, BootFails, Publish, FuzzReturns, FuzzRaises, Drained, DrainFails, Exit
<1>6. CASE Environment
  BY <1>6 DEF Environment, Tick, CtrlC, Crash, Deliver
<1>7. CASE UNCHANGED vars
  BY <1>7 DEF vars
<1> QED
  BY <1>1, <1>2, <1>3, <1>4, <1>5, <1>6, <1>7 DEF Next

\* Every step keeps the types.
LEMMA TypeInv == TypeOK /\ [Next]_vars => TypeOK'
<1> SUFFICES ASSUME TypeOK, [Next]_vars PROVE TypeOK'
  OBVIOUS
<1>1. Switches' /\ ParentTypes' /\ ReportTypes' /\ ChildTypes' /\ SignalTypes' /\ PipeTypes'
  BY TypeParts, SwitchesInv, ParentInv, ReportInv, ChildInv, SignalInv, PipeInv
<1> QED
  BY <1>1 DEF TypeOK, Switches, ParentTypes, ReportTypes, ChildTypes, SignalTypes, PipeTypes

\* The initial state is typed.
LEMMA TypeInit == Init => TypeOK
<1> SUFFICES ASSUME Init PROVE TypeOK
  OBVIOUS
<1>1. Switches /\ ParentTypes
  BY DEF Init, Told!Init, Switches, ParentTypes
<1>2. ReportTypes
  <2>1. report \in Reports /\ said \in Reports
    BY DEF Init, Told!Init, Told!Report, Reports, Statuses
  <2>2. out \in Messages
    BY MessageType, ChildReports DEF Init
  <2> QED
    BY <2>1, <2>2, RunnerAssumption DEF Init, ReportTypes
<1>3. ChildTypes
  BY DEF Init, ChildTypes
<1>4. SignalTypes
  <2>1. handler = [TERM |-> "die", INT |-> "raise", KILL |-> "die"]
    BY DEF Init
  <2>2. handler \in [{"TERM", "INT", "KILL"} -> {"die", "raise", "once", "ignore"}]
    BY <2>1
  <2> QED
    BY <2>2 DEF Init, SignalTypes
<1>5. PipeTypes
  BY RunnerAssumption, EmptySeq DEF Init, PipeTypes
<1> QED
  BY <1>1, <1>2, <1>3, <1>4, <1>5, TypeParts

--------------------------------------------------------------------------------
(* The inductive invariant. It follows a report from the child, through the pipe, *)
(* to the parent, and says of each place what is known of the report there.       *)

Sending == cpc \in {"send", "mid"}
InSession == cpc \in {"fuzz", "drain"} \/ (Sending /\ out.kind = "progress")

\* The parent leaves its finally with a dead child, or was interrupted there.
Reaping ==
    /\ ppc = "close" => cpc = "dead"
    /\ ppc = "returned" => ~raising
    /\ NoOrphan

\* The evidence is open as long as the session is, and drained before the child sends
\* the complete report; the parent leaves its loop with a report that says so only if it
\* is this one, or else an exception is on its way.
Durable ==
    /\ cpc = "drain" => mode = "recorded" /\ out.kind # "progress"
    /\ mode = "recorded" =>
          /\ InSession => evidence = "open"
          /\ Sending /\ out.kind = "complete" => evidence = "drained"
          /\ evidence = "drained" => cpc \in {"send", "mid", "exiting", "dead"}
          /\ \A i \in 1 .. Len(pipe) : pipe[i].kind = "complete" => evidence = "drained"
          /\ ppc \notin {"poll", "recv"} /\ report.processing = "complete" =>
                raising \/ evidence = "drained"

\* A single model's report names its mismatch wherever it is.
Naming ==
    mode \in {"model", "resume"} =>
        /\ report.found => report.status = "mismatch"
        /\ said.found => said.status = "mismatch"
        /\ out.report.found => out.report.status = "mismatch"
        /\ \A i \in 1 .. Len(pipe) :
              pipe[i].report.found => pipe[i].report.status = "mismatch"

\* Later reports have found what earlier ones had.
Chain ==
    /\ report.found => said.found
    /\ Sending \/ cpc = "drain" => out.kind = "error" \/ (out.report.found <=> said.found)
    /\ out.kind = "error" => ~out.report.found
    /\ \A i \in 1 .. Len(pipe) :
          /\ pipe[i].report.found => said.found
          /\ pipe[i].kind = "error" => ~pipe[i].report.found
          /\ report.found => pipe[i].kind = "error" \/ pipe[i].report.found
    /\ \A i, j \in 1 .. Len(pipe) :
          i < j /\ pipe[i].report.found => pipe[j].kind = "error" \/ pipe[j].report.found

\* The message being written is the last one; a final message ends the child, and
\* the parent leaves its loop with a reason or behind a child that has ended.
Order ==
    /\ out.whole = FALSE
    /\ cpc = "mid" => /\ Len(pipe) > 0 /\ pipe[Len(pipe)].whole = FALSE
                      /\ pipe[Len(pipe)].kind = out.kind
                      /\ pipe[Len(pipe)].report = out.report
    /\ \A i \in 1 .. Len(pipe) :
          pipe[i].whole = TRUE /\ pipe[i].kind # "progress" =>
              i = Len(pipe) /\ cpc \in {"exiting", "dead"}
    /\ ppc \notin {"poll", "recv"} => raising \/ reason = "time" \/ cpc \in {"exiting", "dead"}

\* What was streamed is in the report or can still be received, unless something
\* takes precedence.
Retained ==
    /\ ppc \in {"poll", "recv"} => reason = "none"
    /\ streamed # "no" =>
          \/ report.found \/ raising \/ reason = "time"
          \/ /\ ppc \in {"poll", "recv"}
             /\ \E i \in 1 .. Len(pipe) : pipe[i].whole = TRUE /\ pipe[i].report.found

\* One signal silences the other.
Handlers ==
    /\ handler["KILL"] = "die"
    /\ handler["TERM"] = "ignore" <=> handler["INT"] = "ignore"

IInv == /\ TypeOK /\ Reaping /\ Durable /\ Naming
        /\ Chain /\ Order /\ Retained /\ Handlers

\* What a signal leaves alone.
LEMMA DeliverFrame ==
    ASSUME NEW s \in {"TERM", "INT", "KILL"}, Deliver(s)
    PROVE  UNCHANGED <<mode, ppc, report, reason, failure, raising, abandoned, signalled,
                       expired, ctrlC, said, over, sent, streamed, pipe>>
BY DEF Deliver, parentVars

\* The error message carries no report: it has found nothing.
LEMMA ErrorFields ==
    /\ Error.kind = "error" /\ Error.whole = FALSE
    /\ Error.report = NoReport /\ NoReport.found = FALSE
BY DEF Error, Message, NoReport, Told!Report

\* The invariant holds when run_bounded has started its child.
LEMMA InitInv == Init => IInv
<1> SUFFICES ASSUME Init PROVE IInv
  OBVIOUS
<1>1. TypeOK
  BY TypeInit
<1>2. pipe = <<>> /\ Len(pipe) = 0
  BY DEF Init
<1>3. out.kind = "none" /\ out.whole = FALSE /\ out.report.found = FALSE
  BY DEF Init, Message, NoReport, Told!Report
<1>4. /\ report = said
      /\ report.found <=> mode = "resume"
      /\ report.status = IF mode = "resume" THEN "mismatch" ELSE "incomplete"
  BY DEF Init, Told!Init, Told!Report
<1>5. Reaping /\ Retained /\ Handlers
  BY DEF Init, Reaping, NoOrphan, Retained, Handlers
<1>6. Durable
  BY <1>2, <1>3, <1>4 DEF Init, Durable, InSession, Sending
<1>7. Naming
  BY <1>2, <1>3, <1>4 DEF Naming
<1>8. Chain
  <2>1. cpc = "boot"
    BY DEF Init
  <2> QED
    BY <1>2, <1>3, <1>4, <2>1 DEF Chain, Sending
<1>9. Order
  BY <1>2, <1>3 DEF Init, Order
<1> QED
  BY <1>1, <1>5, <1>6, <1>7, <1>8, <1>9 DEF IInv

\* The parent returns or raises only behind a dead child.
LEMMA ReapingStep == IInv /\ [Next]_vars => Reaping'
<1> SUFFICES ASSUME TypeOK, Reaping, [Next]_vars PROVE Reaping'
  BY DEF IInv
<1> USE DEF Reaping, NoOrphan
<1>1. CASE TimeOut \/ Ready \/ Receive \/ EndOfFile \/ ReceiveRaises
  BY <1>1 DEF TimeOut, Ready, Receive, EndOfFile, ReceiveRaises, childVars
<1>2. CASE Teardown \/ Reaped \/ GraceTimesOut \/ WaitTimesOut \/ Leave
  <2>1. UNCHANGED <<raising, abandoned, cpc>>
    BY <1>2 DEF Teardown, Reaped, GraceTimesOut, WaitTimesOut, Leave, TeardownUnchanged, childVars
  <2>2. \/ ppc' \in {"wait", "grace", "final"}
        \/ ppc' = "close" /\ cpc = "dead"
        \/ ppc = "close" /\ ppc' = IF raising THEN "raised" ELSE "returned"
    BY <1>2 DEF Teardown, Reaped, GraceTimesOut, WaitTimesOut, Leave, Alive
  <2> QED
    BY <2>1, <2>2
<1>3. CASE Child
  <2>1. UNCHANGED <<ppc, raising, abandoned>> /\ cpc # "dead"
    BY <1>3 DEF Child, Boot, BootFails, Publish, FuzzReturns, FuzzRaises, Drained,
                DrainFails, BeginSend, FinishSend, Exit, parentVars
  <2> QED
    BY <2>1
<1>4. CASE Tick \/ CtrlC \/ Crash
  BY <1>4 DEF Tick, CtrlC, Crash, Alive, parentVars, childVars
<1>5. ASSUME NEW s \in {"TERM", "INT", "KILL"}, Deliver(s) PROVE Reaping'
  BY <1>5, DeliverFrame DEF Deliver, Alive
<1>6. CASE UNCHANGED vars
  BY <1>6 DEF vars, parentVars, childVars
<1> QED
  BY <1>1, <1>2, <1>3, <1>4, <1>5, <1>6 DEF Next, Parent, Environment

\* The steps of the parent and of the clock that leave the reports, the pipe and the
\* child alone.
Elsewhere == \/ Ready \/ Teardown \/ Reaped \/ GraceTimesOut \/ WaitTimesOut \/ Leave
             \/ ReceiveRaises \/ Tick \/ CtrlC \/ UNCHANGED vars

\* What those steps leave alone.
LEMMA ElsewhereFrame ==
    ASSUME Elsewhere
    PROVE  UNCHANGED <<mode, report, cpc, out, said, over, evidence, handler, pipe, streamed, reason>>
BY DEF Elsewhere, Ready, Teardown, Reaped, GraceTimesOut, WaitTimesOut, Leave, ReceiveRaises,
       Tick, CtrlC, TeardownUnchanged, parentVars, childVars, vars

\* The parent gives up reading: the report is amended.
GivesUp == TimeOut \/ EndOfFile

\* Its effect, and what it leaves alone.
LEMMA GivesUpFrame ==
    ASSUME GivesUp
    PROVE  /\ report' = Incomplete(report) /\ ppc' = "teardown"
           /\ UNCHANGED <<mode, cpc, out, said, over, evidence, handler, pipe, streamed, raising>>
BY DEF GivesUp, TimeOut, EndOfFile, childVars

\* The steps of the child besides its messages.
ChildMoves == \/ Boot \/ BootFails \/ Drained \/ Exit \/ Crash

\* What those steps leave alone.
LEMMA ChildMovesFrame ==
    ASSUME ChildMoves
    PROVE  UNCHANGED <<mode, report, ppc, reason, raising, out, said, over, pipe, streamed>>
BY DEF ChildMoves, Boot, BootFails, Drained, Exit, Crash, parentVars

\* The steps of the child that write a message.
Composes == Publish \/ FuzzReturns \/ FuzzRaises \/ DrainFails

\* What those steps leave alone.
LEMMA ComposesFrame ==
    ASSUME Composes
    PROVE  UNCHANGED <<mode, report, ppc, reason, raising, pipe, streamed>>
BY DEF Composes, Publish, FuzzReturns, FuzzRaises, DrainFails, Told!Tell, Told!Return, parentVars

\* Every step is of one of these kinds.
LEMMA Kinds ==
    ASSUME [Next]_vars
    PROVE  \/ Elsewhere \/ GivesUp \/ Receive \/ ChildMoves \/ Composes
           \/ BeginSend \/ FinishSend \/ \E s \in {"TERM", "INT", "KILL"} : Deliver(s)
BY DEF Next, Parent, Child, Environment, Elsewhere, GivesUp, ChildMoves, Composes

\* The message a child composes.
LEMMA Composed ==
    ASSUME TypeOK, Composes
    PROVE  /\ out' \in Messages /\ out'.whole = FALSE
           /\ said.found => said'.found
           /\ \/ /\ out'.kind = "progress" /\ out'.report = said'
                 /\ cpc = "fuzz" /\ cpc' = "send" /\ evidence' = evidence
                 /\ mode \in {"model", "resume"} /\ said'.found => said'.status = "mismatch"
              \/ /\ out' = Error /\ cpc \in {"fuzz", "drain"} /\ said' = said
                 /\ \/ /\ cpc = "fuzz" /\ cpc' = IF mode = "recorded" THEN "drain" ELSE "send"
                       /\ evidence' = evidence
                    \/ cpc = "drain" /\ cpc' = "send" /\ evidence' = "failed"
<1> said \in Reports
  BY DEF TypeOK
<1>1. CASE Publish \/ FuzzReturns
  <2>1. /\ said' \in Reports /\ (said.found => said'.found)
        /\ mode \in {"model", "resume"} /\ said'.found => said'.status = "mismatch"
    BY <1>1, SaidStep DEF Publish, FuzzReturns, Told!Single
  <2>2. /\ out' = Message("progress", said')
        /\ cpc = "fuzz" /\ cpc' = "send" /\ evidence' = evidence
    BY <1>1 DEF Publish, FuzzReturns
  <2>3. /\ out' \in Messages /\ out'.kind = "progress" /\ out'.whole = FALSE
        /\ out'.report = said'
    BY <2>1, <2>2, MessageType
  <2> QED
    BY <2>1, <2>2, <2>3
<1>2. CASE FuzzRaises \/ DrainFails
  <2>1. Error \in Messages /\ Error.whole = FALSE
    BY MessageType, ChildReports DEF Error
  <2> QED
    BY <1>2, <2>1 DEF FuzzRaises, DrainFails
<1> QED
  BY <1>1, <1>2 DEF Composes

\* What the child does behind a message: with its final report it goes on to close its
\* session, and to send that report once more.
LEMMA Finished ==
    ASSUME TypeOK, FinishSend
    PROVE  /\ cpc = "mid"
           /\ UNCHANGED <<mode, ppc, report, reason, raising, said, evidence, handler>>
           /\ \/ /\ out.kind = "progress" /\ over
                 /\ cpc' = IF mode = "recorded" THEN "drain" ELSE "send"
                 /\ out'.kind = "complete" /\ out'.report = said /\ out'.whole = FALSE
              \/ out.kind = "progress" /\ cpc' = "fuzz" /\ out' = out
              \/ out.kind # "progress" /\ cpc' = "exiting" /\ out' = out
<1>1. /\ Message("complete", said).kind = "complete"
      /\ Message("complete", said).report = said
      /\ Message("complete", said).whole = FALSE
  BY DEF Message
<1> QED
  BY <1>1 DEF FinishSend, parentVars

\* What a delivered signal makes of the child.
LEMMA Delivered ==
    ASSUME TypeOK, NEW s \in {"TERM", "INT", "KILL"}, Deliver(s)
    PROVE  \/ /\ cpc' = "dead" /\ out' = out
              /\ evidence' = evidence \/ (evidence = "open" /\ evidence' = "lost")
           \/ /\ cpc' = "exiting" /\ out' = out /\ evidence' = evidence
              /\ cpc \notin {"boot", "fuzz", "drain"}
           \/ /\ out' = Error /\ evidence' = evidence /\ InSession /\ cpc # "drain"
              /\ cpc' = IF mode = "recorded" THEN "drain" ELSE "send"
           \/ out' = Error /\ cpc = "drain" /\ cpc' = "send" /\ evidence' = "aborted"
           \/ /\ out' = Error /\ evidence' = evidence /\ Sending /\ out.kind = "complete"
              /\ cpc' = "send"
           \/ UNCHANGED <<cpc, out, evidence>>
BY DeliverCases, UnwindCases DEF CutOff, InSession, Sending

\* What is known of the evidence stays known.
LEMMA DurableStep == IInv /\ [Next]_vars => Durable'
<1> SUFFICES ASSUME TypeOK, Durable, Order, Naming, [Next]_vars PROVE Durable'
  BY DEF IInv
<1> USE DEF Durable, InSession, Sending
<1>1. CASE Elsewhere
  <2>1. /\ raising => raising'
        /\ ppc' \notin {"poll", "recv"} => ppc \notin {"poll", "recv"} \/ raising'
    BY <1>1 DEF Elsewhere, Ready, Teardown, Reaped, GraceTimesOut, WaitTimesOut, Leave,
                ReceiveRaises, Tick, CtrlC, TeardownUnchanged, parentVars, childVars, vars
  <2> QED
    BY <1>1, <2>1, ElsewhereFrame
<1>2. CASE GivesUp
  <2>1. Incomplete(report).processing = "incomplete"
    BY IncompleteType, TypeParts DEF ReportTypes
  <2> QED
    BY <1>2, <2>1, GivesUpFrame
<1>3. CASE Receive
  <2>1. UNCHANGED <<mode, cpc, out, evidence>>
    BY <1>3 DEF Receive, childVars
  <2>2. \/ report' = Incomplete(report)
        \/ ppc' = "poll"
        \/ pipe[1].kind = "complete"
    BY <1>3, ReceivePipe DEF Receive
  <2>3. Incomplete(report).processing = "incomplete"
    BY IncompleteType, TypeParts DEF ReportTypes
  <2>4. \A i \in 1 .. Len(pipe') : i + 1 \in 1 .. Len(pipe) /\ pipe'[i] = pipe[i + 1]
    BY <1>3, ReceivePipe
  <2>5. 1 \in 1 .. Len(pipe)
    BY <1>3, ReceivePipe
  <2> QED
    BY <2>1, <2>2, <2>3, <2>4, <2>5
<1>4. CASE ChildMoves
  <2>1. \/ cpc = "boot" /\ cpc' = "fuzz" /\ evidence' = IF mode = "recorded" THEN "open" ELSE evidence
        \/ cpc' = "dead" /\ evidence' = evidence
        \/ cpc' = "dead" /\ evidence = "open" /\ evidence' = "lost"
        \/ cpc = "drain" /\ cpc' = "send" /\ evidence' = "drained"
    BY <1>4 DEF ChildMoves, Boot, BootFails, Drained, Exit, Crash, CutOff
  <2> QED
    BY <1>4, <2>1, ChildMovesFrame
<1>5. CASE Composes
  BY <1>5, ComposesFrame, Composed, ErrorFields
<1>6. CASE BeginSend
  <2>1. UNCHANGED <<mode, ppc, report, raising, out, evidence>> /\ cpc = "send" /\ cpc' = "mid"
    BY <1>6 DEF BeginSend, parentVars
  <2>2. \A i \in 1 .. Len(pipe') : \/ i \in 1 .. Len(pipe) /\ pipe'[i] = pipe[i]
                                   \/ pipe'[i] = out
    BY <1>6, BeginSendPipe, TypeParts DEF PipeTypes
  <2> QED
    BY <2>1, <2>2
<1>7. CASE FinishSend
  <2>1. \A i \in 1 .. Len(pipe') : i \in 1 .. Len(pipe) /\ pipe'[i].kind = pipe[i].kind
    BY <1>7, FinishSendPipe
  <2> QED
    BY <1>7, <2>1, Finished
<1>8. ASSUME NEW s \in {"TERM", "INT", "KILL"}, Deliver(s) PROVE Durable'
  BY <1>8, DeliverFrame, Delivered, ErrorFields
<1> QED
  BY <1>1, <1>2, <1>3, <1>4, <1>5, <1>6, <1>7, <1>8, Kinds

\* A mismatch keeps its name on its way.
LEMMA NamingStep == IInv /\ [Next]_vars => Naming'
<1> SUFFICES ASSUME TypeOK, Naming, [Next]_vars PROVE Naming'
  BY DEF IInv
<1> USE DEF Naming
<1>0. Incomplete(report).found = report.found /\ Incomplete(report).status = report.status
  BY IncompleteType, TypeParts DEF ReportTypes
<1>1. CASE Elsewhere
  BY <1>1, ElsewhereFrame
<1>2. CASE GivesUp
  BY <1>0, <1>2, GivesUpFrame
<1>3. CASE Receive
  <2>1. UNCHANGED <<mode, out, said>>
    BY <1>3 DEF Receive, childVars
  <2>2. report' = pipe[1].report \/ report' = Incomplete(report)
    BY <1>3, ReceivePipe DEF Receive
  <2>3. \A i \in 1 .. Len(pipe') : i + 1 \in 1 .. Len(pipe) /\ pipe'[i] = pipe[i + 1]
    BY <1>3, ReceivePipe
  <2>4. 1 \in 1 .. Len(pipe)
    BY <1>3, ReceivePipe
  <2> QED
    BY <1>0, <2>1, <2>2, <2>3, <2>4
<1>4. CASE ChildMoves
  BY <1>4, ChildMovesFrame
<1>5. CASE Composes
  <2>1. mode \in {"model", "resume"} =>
            /\ out'.report.found => out'.report.status = "mismatch"
            /\ said'.found => said'.status = "mismatch"
    BY <1>5, Composed, ErrorFields
  <2> QED
    BY <1>5, <2>1, ComposesFrame
<1>6. CASE BeginSend
  <2>1. UNCHANGED <<mode, report, out, said>>
    BY <1>6 DEF BeginSend, parentVars
  <2>2. \A i \in 1 .. Len(pipe') : \/ i \in 1 .. Len(pipe) /\ pipe'[i] = pipe[i]
                                   \/ pipe'[i] = out
    BY <1>6, BeginSendPipe, TypeParts DEF PipeTypes
  <2> QED
    BY <2>1, <2>2
<1>7. CASE FinishSend
  <2>1. \A i \in 1 .. Len(pipe') : i \in 1 .. Len(pipe) /\ pipe'[i].report = pipe[i].report
    BY <1>7, FinishSendPipe
  <2> QED
    BY <1>7, <2>1, Finished
<1>8. ASSUME NEW s \in {"TERM", "INT", "KILL"}, Deliver(s) PROVE Naming'
  <2>1. out' = out \/ out' = Error
    BY <1>8, Delivered
  <2> QED
    BY <1>8, <2>1, DeliverFrame, ErrorFields
<1> QED
  BY <1>1, <1>2, <1>3, <1>4, <1>5, <1>6, <1>7, <1>8, Kinds

\* Later reports have found what earlier ones had, after every step.
LEMMA ChainStep == IInv /\ [Next]_vars => Chain'
<1> SUFFICES ASSUME TypeOK, Chain, [Next]_vars PROVE Chain'
  BY DEF IInv
<1> USE DEF Chain, Sending
<1>0. Incomplete(report).found = report.found
  BY IncompleteType, TypeParts DEF ReportTypes
<1>1. CASE Elsewhere
  BY <1>1, ElsewhereFrame
<1>2. CASE GivesUp
  BY <1>0, <1>2, GivesUpFrame
<1>3. CASE Receive
  <2>1. UNCHANGED <<cpc, out, said>>
    BY <1>3 DEF Receive, childVars
  <2>2. report'.found = pipe[1].report.found
        \/ (pipe[1].kind = "error" /\ report'.found = report.found)
    BY <1>0, <1>3, ReceivePipe DEF Receive
  <2>3. \A i \in 1 .. Len(pipe') :
            i + 1 \in 1 .. Len(pipe) /\ 1 < i + 1 /\ pipe'[i] = pipe[i + 1]
    BY <1>3, ReceivePipe
  <2>4. 1 \in 1 .. Len(pipe)
    BY <1>3, ReceivePipe
  <2>5. \A i \in 1 .. Len(pipe') :
            /\ pipe'[i].report.found => said'.found
            /\ pipe'[i].kind = "error" => ~pipe'[i].report.found
            /\ report'.found => pipe'[i].kind = "error" \/ pipe'[i].report.found
    BY <2>1, <2>2, <2>3, <2>4
  <2>6. \A i, j \in 1 .. Len(pipe') :
            i < j /\ pipe'[i].report.found => pipe'[j].kind = "error" \/ pipe'[j].report.found
    BY <2>3
  <2> QED
    BY <2>1, <2>2, <2>4, <2>5, <2>6
<1>4. CASE ChildMoves
  <2>1. cpc' \in {"fuzz", "dead"} \/ (cpc = "drain" /\ cpc' = "send")
    BY <1>4 DEF ChildMoves, Boot, BootFails, Drained, Exit, Crash
  <2> QED
    BY <1>4, <2>1, ChildMovesFrame
<1>5. CASE Composes
  <2>1. /\ said.found => said'.found
        /\ out'.kind = "error" \/ (out'.report.found <=> said'.found)
        /\ out'.kind = "error" => ~out'.report.found
    BY <1>5, Composed, ErrorFields
  <2> QED
    BY <1>5, <2>1, ComposesFrame
<1>6. CASE BeginSend
  <2>1. UNCHANGED <<report, out, said>> /\ cpc = "send" /\ cpc' = "mid"
    BY <1>6 DEF BeginSend, parentVars
  <2>2. /\ Len(pipe) \in Nat /\ Len(pipe') = Len(pipe) + 1
        /\ pipe'[Len(pipe) + 1] = out
        /\ \A i \in 1 .. Len(pipe) : pipe'[i] = pipe[i]
    BY <1>6, BeginSendPipe, LenProperties, TypeParts DEF PipeTypes
  <2>3. \A i \in 1 .. Len(pipe') : i \in 1 .. Len(pipe) \/ i = Len(pipe) + 1
    BY <2>2
  <2>4. /\ out.report.found => said.found
        /\ said.found => out.kind = "error" \/ out.report.found
    BY <2>1
  <2>5. \A i \in 1 .. Len(pipe') :
            /\ pipe'[i].report.found => said'.found
            /\ pipe'[i].kind = "error" => ~pipe'[i].report.found
            /\ report'.found => pipe'[i].kind = "error" \/ pipe'[i].report.found
    BY <2>1, <2>2, <2>3, <2>4
  <2>6. ASSUME NEW i \in 1 .. Len(pipe'), NEW j \in 1 .. Len(pipe'),
               i < j, pipe'[i].report.found
        PROVE  pipe'[j].kind = "error" \/ pipe'[j].report.found
    <3>1. i \in 1 .. Len(pipe)
      BY <2>2, <2>6
    <3>2. CASE j \in 1 .. Len(pipe)
      BY <2>2, <2>6, <3>1, <3>2
    <3>3. CASE j = Len(pipe) + 1
      BY <2>2, <2>4, <2>6, <3>1, <3>3
    <3> QED
      BY <2>3, <3>2, <3>3
  <2> QED
    BY <2>1, <2>5, <2>6
<1>7. CASE FinishSend
  <2>1. /\ UNCHANGED <<report, said>>
        /\ \/ out' = out /\ cpc' \in {"fuzz", "exiting"}
           \/ out'.kind = "complete" /\ out'.report = said
    BY <1>7, Finished
  <2>2. /\ Len(pipe') = Len(pipe)
        /\ \A i \in 1 .. Len(pipe) :
              pipe'[i].report = pipe[i].report /\ pipe'[i].kind = pipe[i].kind
    BY <1>7, FinishSendPipe
  <2> QED
    BY <2>1, <2>2
<1>8. ASSUME NEW s \in {"TERM", "INT", "KILL"}, Deliver(s) PROVE Chain'
  <2>1. UNCHANGED <<report, said, pipe>>
    BY <1>8, DeliverFrame
  <2>2. \/ cpc' \in {"dead", "exiting"} /\ out' = out
        \/ out' = Error
        \/ UNCHANGED <<cpc, out>>
    BY <1>8, Delivered
  <2> QED
    BY <2>1, <2>2, ErrorFields
<1> QED
  BY <1>1, <1>2, <1>3, <1>4, <1>5, <1>6, <1>7, <1>8, Kinds

\* The order of the messages in the pipe, and the reason to leave the loop.
LEMMA OrderStep == IInv /\ [Next]_vars => Order'
<1> SUFFICES ASSUME TypeOK, Order, [Next]_vars PROVE Order'
  BY DEF IInv
<1> USE DEF Order
<1>0. Len(pipe) \in Nat
  BY LenProperties, TypeParts DEF PipeTypes
<1>1. CASE Elsewhere
  <2>1. ppc' \notin {"poll", "recv"} =>
            \/ ppc \notin {"poll", "recv"} /\ (raising => raising')
            \/ raising'
    BY <1>1 DEF Elsewhere, Ready, Teardown, Reaped, GraceTimesOut, WaitTimesOut, Leave,
                ReceiveRaises, Tick, CtrlC, TeardownUnchanged, parentVars, childVars, vars
  <2> QED
    BY <1>1, <2>1, ElsewhereFrame
<1>2. CASE GivesUp
  <2>1. reason' = "time" \/ cpc \in {"exiting", "dead"}
    BY <1>2 DEF GivesUp, TimeOut, EndOfFile, Ended, WriteEndClosed
  <2> QED
    BY <1>2, <2>1, GivesUpFrame
<1>3. CASE Receive
  <2>1. UNCHANGED <<cpc, out>>
    BY <1>3 DEF Receive, childVars
  <2>2. /\ Len(pipe) > 0 /\ Len(pipe') = Len(pipe) - 1
        /\ \A i \in 1 .. Len(pipe') : i + 1 \in 1 .. Len(pipe) /\ pipe'[i] = pipe[i + 1]
    BY <1>0, <1>3, ReceivePipe
  <2>3. Head(pipe) = pipe[1] /\ pipe[1].whole = TRUE /\ 1 \in 1 .. Len(pipe)
    <3>1. Head(pipe) = pipe[1] /\ pipe[1] \in Messages /\ Head(pipe).whole
      BY <1>3, ReceivePipe DEF Receive
    <3> QED
      BY <1>0, <2>2, <3>1 DEF Messages
  <2>4. cpc' = "mid" => /\ Len(pipe') > 0 /\ pipe'[Len(pipe')].whole = FALSE
                        /\ pipe'[Len(pipe')].kind = out'.kind
                        /\ pipe'[Len(pipe')].report = out'.report
    <3>1. ASSUME cpc = "mid" PROVE Len(pipe) # 1
      BY <2>3, <3>1
    <3> QED
      BY <1>0, <2>1, <2>2, <3>1
  <2>5. \A i \in 1 .. Len(pipe') :
            pipe'[i].whole = TRUE /\ pipe'[i].kind # "progress" =>
                i = Len(pipe') /\ cpc' \in {"exiting", "dead"}
    BY <1>0, <2>1, <2>2
  <2>6. ppc' \notin {"poll", "recv"} => pipe[1].kind \in {"error", "complete"}
    BY <1>3, <2>3 DEF Receive
  <2>7. ppc' \notin {"poll", "recv"} => cpc' \in {"exiting", "dead"}
    BY <2>1, <2>3, <2>6
  <2> QED
    BY <2>1, <2>4, <2>5, <2>7
<1>4. CASE ChildMoves
  <2>1. \/ cpc \in {"boot", "drain"} /\ cpc' \in {"fuzz", "send"}
        \/ cpc' = "dead"
    BY <1>4 DEF ChildMoves, Boot, BootFails, Drained, Exit, Crash
  <2> QED
    BY <1>4, <2>1, ChildMovesFrame
<1>5. CASE Composes
  <2>1. out'.whole = FALSE /\ cpc \in {"fuzz", "drain"} /\ cpc' \in {"drain", "send"}
    BY <1>5, Composed
  <2> QED
    BY <1>5, <2>1, ComposesFrame
<1>6. CASE BeginSend
  <2>1. UNCHANGED <<ppc, raising, reason, out>> /\ cpc = "send" /\ cpc' = "mid"
    BY <1>6 DEF BeginSend, parentVars
  <2>2. /\ Len(pipe') = Len(pipe) + 1
        /\ pipe'[Len(pipe) + 1] = out
        /\ \A i \in 1 .. Len(pipe) : pipe'[i] = pipe[i]
    BY <1>6, BeginSendPipe
  <2>3. \A i \in 1 .. Len(pipe') : i \in 1 .. Len(pipe) \/ i = Len(pipe) + 1
    BY <1>0, <2>2
  <2>4. \A i \in 1 .. Len(pipe') : ~(pipe'[i].whole = TRUE /\ pipe'[i].kind # "progress")
    BY <2>1, <2>2, <2>3
  <2> QED
    BY <1>0, <2>1, <2>2, <2>4
<1>7. CASE FinishSend
  <2>1. /\ UNCHANGED <<ppc, raising, reason>> /\ cpc = "mid"
        /\ cpc' \in {"drain", "send", "fuzz", "exiting"} /\ out'.whole = FALSE
        /\ out.kind # "progress" => cpc' = "exiting"
    BY <1>7, Finished
  <2>2. /\ Len(pipe') = Len(pipe)
        /\ \A i \in 1 .. Len(pipe) :
              /\ pipe'[i].kind = pipe[i].kind
              /\ i # Len(pipe) => pipe'[i].whole = pipe[i].whole
    BY <1>7, FinishSendPipe
  <2>3. ASSUME NEW i \in 1 .. Len(pipe'),
               pipe'[i].whole = TRUE, pipe'[i].kind # "progress"
        PROVE  i = Len(pipe') /\ cpc' \in {"exiting", "dead"}
    <3>1. i = Len(pipe)
      BY <2>1, <2>2, <2>3
    <3> QED
      BY <2>1, <2>2, <2>3, <3>1
  <2> QED
    BY <2>1, <2>3
<1>8. ASSUME NEW s \in {"TERM", "INT", "KILL"}, Deliver(s) PROVE Order'
  <2>1. UNCHANGED <<ppc, raising, reason, pipe>>
    BY <1>8, DeliverFrame
  <2>2. \/ cpc' \in {"dead", "exiting"} /\ out' = out
        \/ out' = Error /\ cpc \notin {"exiting", "dead"} /\ cpc' \in {"drain", "send"}
        \/ UNCHANGED <<cpc, out>>
    BY <1>8, Delivered DEF InSession, Sending
  <2> QED
    BY <2>1, <2>2, ErrorFields
<1> QED
  BY <1>1, <1>2, <1>3, <1>4, <1>5, <1>6, <1>7, <1>8, Kinds

\* What was streamed stays in the report or in reach, after every step.
LEMMA RetainedStep == IInv /\ [Next]_vars => Retained'
<1> SUFFICES ASSUME TypeOK, Retained, Order, Chain, [Next]_vars PROVE Retained'
  BY DEF IInv
<1> USE DEF Retained
<1>0. Incomplete(report).found = report.found
  BY IncompleteType, TypeParts DEF ReportTypes
<1>a. Len(pipe) \in Nat
  BY LenProperties, TypeParts DEF PipeTypes
<1>1. CASE Elsewhere
  <2>1. /\ ppc' \in {"poll", "recv"} => ppc \in {"poll", "recv"}
        /\ raising => raising'
        /\ ppc \in {"poll", "recv"} => ppc' \in {"poll", "recv"} \/ raising'
    BY <1>1 DEF Elsewhere, Ready, Teardown, Reaped, GraceTimesOut, WaitTimesOut, Leave,
                ReceiveRaises, Tick, CtrlC, TeardownUnchanged, parentVars, childVars, vars
  <2> QED
    BY <1>1, <2>1, ElsewhereFrame
<1>2. CASE GivesUp
  <2>1. \/ reason' = "time"
        \/ /\ ppc = "recv"
           /\ \A i \in 1 .. Len(pipe) : ~(pipe[i].whole = TRUE)
    <3>1. CASE TimeOut
      BY <3>1 DEF TimeOut
    <3>2. CASE EndOfFile
      <4>1. pipe = <<>> \/ (Len(pipe) = 1 /\ ~Head(pipe).whole)
        BY <3>2 DEF EndOfFile, Ended
      <4>2. Len(pipe) = 1 => Head(pipe) = pipe[1]
        BY HeadTailProperties, EmptySeq, TypeParts DEF PipeTypes
      <4>3. pipe = <<>> => Len(pipe) = 0
        OBVIOUS
      <4> QED
        BY <1>a, <3>2, <4>1, <4>2, <4>3 DEF EndOfFile
    <3> QED
      BY <1>2, <3>1, <3>2 DEF GivesUp
  <2> QED
    BY <1>0, <1>2, <2>1, GivesUpFrame
<1>3. CASE Receive
  <2>1. /\ UNCHANGED <<raising, streamed>> /\ ppc = "recv"
        /\ ppc' \in {"poll", "recv"} => reason' = reason
    BY <1>3 DEF Receive, childVars
  <2>2. /\ Len(pipe) > 0 /\ Len(pipe') = Len(pipe) - 1
        /\ \A i \in 1 .. Len(pipe') : i + 1 \in 1 .. Len(pipe) /\ pipe'[i] = pipe[i + 1]
    BY <1>a, <1>3, ReceivePipe
  <2>3. Head(pipe) = pipe[1] /\ pipe[1].whole = TRUE /\ 1 \in 1 .. Len(pipe)
    <3>1. Head(pipe) = pipe[1] /\ pipe[1] \in Messages /\ Head(pipe).whole
      BY <1>3, ReceivePipe DEF Receive
    <3> QED
      BY <1>a, <2>2, <3>1 DEF Messages
  <2>4. \/ pipe[1].kind = "error" /\ report'.found = report.found
        \/ /\ pipe[1].kind # "error" /\ report' = pipe[1].report
           /\ ppc' = IF pipe[1].kind = "complete" THEN "teardown" ELSE "poll"
    BY <1>0, <1>3, <2>3 DEF Receive
  <2>5. report.found => report'.found
    BY <2>3, <2>4 DEF Chain
  <2>6. ASSUME NEW i \in 1 .. Len(pipe), pipe[i].whole = TRUE, pipe[i].report.found
        PROVE  \/ report'.found
               \/ /\ ppc' \in {"poll", "recv"}
                  /\ \E j \in 1 .. Len(pipe') : pipe'[j].whole = TRUE /\ pipe'[j].report.found
    <3>1. CASE i = 1
      BY <2>4, <2>6, <3>1 DEF Chain
    <3>2. CASE i # 1
      <4>1. i - 1 \in 1 .. Len(pipe') /\ pipe'[i - 1] = pipe[i]
        BY <1>a, <2>2, <3>2
      <4>2. pipe[1].kind = "progress"
        BY <1>a, <2>3, <3>2 DEF Order
      <4> QED
        BY <2>4, <2>6, <4>1, <4>2
    <3> QED
      BY <3>1, <3>2
  <2> QED
    BY <2>1, <2>5, <2>6
<1>4. CASE ChildMoves
  BY <1>4, ChildMovesFrame
<1>5. CASE Composes
  BY <1>5, ComposesFrame
<1>6. CASE BeginSend
  <2>1. UNCHANGED <<ppc, report, raising, reason, streamed>>
    BY <1>6 DEF BeginSend, parentVars
  <2>2. \A i \in 1 .. Len(pipe) : i \in 1 .. Len(pipe') /\ pipe'[i] = pipe[i]
    BY <1>a, <1>6, BeginSendPipe
  <2> QED
    BY <2>1, <2>2
<1>7. CASE FinishSend
  <2>1. /\ UNCHANGED <<ppc, report, raising, reason>> /\ cpc = "mid"
        /\ streamed' = streamed \/ out.report.found
    BY <1>7 DEF FinishSend, parentVars
  <2>2. /\ Len(pipe') = Len(pipe)
        /\ \A i \in 1 .. Len(pipe) :
              /\ pipe'[i].report = pipe[i].report
              /\ i # Len(pipe) => pipe'[i].whole = pipe[i].whole
              /\ i = Len(pipe) => pipe'[i].whole = TRUE
    BY <1>7, FinishSendPipe
  <2>3. \A i \in 1 .. Len(pipe) : pipe[i].whole = TRUE => pipe'[i].whole = TRUE
    BY <2>2
  <2>4. CASE out.report.found
    <3>1. Len(pipe') \in 1 .. Len(pipe') /\ pipe'[Len(pipe')].whole = TRUE
          /\ pipe'[Len(pipe')].report.found
      BY <1>a, <2>1, <2>2, <2>4 DEF Order
    <3>2. ppc \in {"poll", "recv"} \/ raising \/ reason = "time"
      BY <2>1 DEF Order
    <3> QED
      BY <2>1, <3>1, <3>2
  <2> QED
    BY <2>1, <2>2, <2>3, <2>4
<1>8. ASSUME NEW s \in {"TERM", "INT", "KILL"}, Deliver(s) PROVE Retained'
  BY <1>8, DeliverFrame
<1> QED
  BY <1>1, <1>2, <1>3, <1>4, <1>5, <1>6, <1>7, <1>8, Kinds

\* The child's handlers are set and silenced together.
LEMMA HandlersStep == IInv /\ [Next]_vars => Handlers'
<1> SUFFICES ASSUME TypeOK, Handlers, [Next]_vars PROVE Handlers'
  BY DEF IInv
<1>0. handler \in [{"TERM", "INT", "KILL"} -> {"die", "raise", "once", "ignore"}]
  BY TypeParts DEF SignalTypes
<1>1. CASE handler' = handler
  BY <1>1 DEF Handlers
<1>2. CASE Boot
  <2>1. handler' = handler \/ handler' = [[handler EXCEPT !.TERM = "once"] EXCEPT !.INT = "once"]
    BY <1>2 DEF Boot
  <2> QED
    BY <1>0, <2>1 DEF Handlers
<1>3. ASSUME NEW s \in {"TERM", "INT", "KILL"}, Deliver(s) PROVE Handlers'
  <2>1. handler' = handler
        \/ handler' = [[handler EXCEPT !.TERM = "ignore"] EXCEPT !.INT = "ignore"]
    BY <1>3, DeliverCases
  <2> QED
    BY <1>0, <2>1 DEF Handlers
<1>4. ASSUME Elsewhere \/ GivesUp \/ Receive \/ (ChildMoves /\ ~Boot) \/ Composes
             \/ BeginSend \/ FinishSend
      PROVE  handler' = handler
  BY <1>4, ElsewhereFrame, GivesUpFrame
  DEF Receive, ChildMoves, BootFails, Drained, Exit, Crash, Composes, Publish, FuzzReturns,
      FuzzRaises, DrainFails, BeginSend, FinishSend, childVars
<1> QED
  BY <1>1, <1>2, <1>3, <1>4, Kinds

\* The invariant is inductive.
LEMMA Invariance == IInv /\ [Next]_vars => IInv'
BY TypeInv, ReapingStep, DurableStep, NamingStep, ChainStep, OrderStep, RetainedStep, HandlersStep
DEF IInv

\* It holds in every state the two processes reach.
LEMMA SpecInv == Spec => []IInv
BY InitInv, Invariance, PTL DEF Spec

--------------------------------------------------------------------------------
(* The theorems.                                                                  *)

\* The parent, the child and the pipe have the types the model gives them, for any
\* number of progress reports and any capacity of the pipe.
THEOREM TypesHold == Spec => []TypeOK
<1>1. IInv => TypeOK
  BY DEF IInv
<1> QED
  BY <1>1, SpecInv, PTL

\* run_bounded returns or raises only behind a dead child, unless Ctrl-C strikes in its
\* finally.
THEOREM NoOrphanHolds == Spec => []NoOrphan
<1>1. IInv => NoOrphan
  BY DEF IInv, Reaping
<1> QED
  BY <1>1, SpecInv, PTL

\* A returned report that says its processing is complete stands for evidence that is
\* in the file.
THEOREM CompletenessIsDurable == Spec => []CompleteMeansDrained
<1>1. IInv => CompleteMeansDrained
  BY DEF IInv, Reaping, Durable, CompleteMeansDrained
<1> QED
  BY <1>1, SpecInv, PTL

\* Wherever the stream is cut, the report of a single model that retains a mismatch has
\* the status "mismatch".
THEOREM MismatchIsNamed == Spec => []MismatchHasStatus
<1>1. IInv => MismatchHasStatus
  BY DEF IInv, Naming, MismatchHasStatus
<1> QED
  BY <1>1, SpecInv, PTL

\* Unless the deadline struck, a returned report retains what the child streamed: no
\* order of its messages, its death and the parent's reading loses it.
THEOREM StreamedIsNotLost == Spec => []StreamedIsRetained
<1>1. IInv => StreamedIsRetained
  BY DEF IInv, Reaping, Retained, StreamedIsRetained
<1> QED
  BY <1>1, SpecInv, PTL

\* No step of any process takes a finding out of the parent's report.
THEOREM FindingsStay == Spec => FindingsAreKept
<1>1. ASSUME IInv, [Next]_vars, report.found PROVE report'.found
  <2>1. TypeOK /\ Chain
    BY <1>1 DEF IInv
  <2>2. Incomplete(report).found = report.found
    BY <2>1, IncompleteType, TypeParts DEF ReportTypes
  <2>3. CASE Elsewhere \/ ChildMoves \/ Composes
    BY <1>1, <2>3, ElsewhereFrame, ChildMovesFrame, ComposesFrame
  <2>4. CASE GivesUp
    BY <1>1, <2>2, <2>4, GivesUpFrame
  <2>5. CASE Receive
    <3>1. Head(pipe) = pipe[1] /\ 1 \in 1 .. Len(pipe)
      BY <2>1, <2>5, ReceivePipe, LenProperties, TypeParts DEF PipeTypes
    <3>2. \/ pipe[1].kind = "error" /\ report' = Incomplete(report)
          \/ pipe[1].kind # "error" /\ report' = pipe[1].report
      BY <2>5, <3>1 DEF Receive
    <3> QED
      BY <1>1, <2>1, <2>2, <3>1, <3>2 DEF Chain
  <2>6. CASE BeginSend \/ FinishSend
    BY <1>1, <2>6 DEF BeginSend, FinishSend, parentVars
  <2>7. ASSUME NEW s \in {"TERM", "INT", "KILL"}, Deliver(s) PROVE report'.found
    BY <1>1, <2>7, DeliverFrame
  <2> QED
    BY <1>1, <2>3, <2>4, <2>5, <2>6, <2>7, Kinds
<1>2. IInv /\ [Next]_vars => [report.found => report'.found]_vars
  BY <1>1
<1>3. Spec => [][report.found => report'.found]_vars
  BY <1>2, SpecInv, PTL DEF Spec
<1> QED
  BY <1>3 DEF FindingsAreKept

\* Once a first signal has been handled, nothing but the end of the child keeps its
\* drain from its end: the second signal finds both handlers silenced.
THEOREM DrainIsProtected == Spec => SecondSignalIgnored
<1>1. ASSUME IInv, [Next]_vars, cpc = "drain", NEW t \in {"TERM", "INT"}, handler[t] = "ignore"
      PROVE  evidence' # "aborted"
  <2>1. TypeOK /\ evidence = "open"
    BY <1>1 DEF IInv, Durable, InSession
  <2>2. handler["KILL"] = "die" /\ handler["TERM"] = "ignore" /\ handler["INT"] = "ignore"
    BY <1>1 DEF IInv, Handlers
  <2>3. CASE Elsewhere \/ GivesUp
    BY <2>1, <2>3, ElsewhereFrame, GivesUpFrame
  <2>4. CASE Receive \/ ChildMoves \/ Composes \/ BeginSend \/ FinishSend
    BY <1>1, <2>1, <2>4
    DEF Receive, ChildMoves, Boot, BootFails, Drained, Exit, Crash, CutOff, Composes, Publish,
        FuzzReturns, FuzzRaises, DrainFails, BeginSend, FinishSend, childVars
  <2>5. ASSUME NEW s \in {"TERM", "INT", "KILL"}, Deliver(s) PROVE evidence' # "aborted"
    BY <2>1, <2>2, <2>5 DEF Deliver, CutOff
  <2> QED
    BY <1>1, <2>3, <2>4, <2>5, Kinds
<1>2. IInv /\ [Next]_vars =>
        [cpc = "drain" /\ (\E s \in {"TERM", "INT"} : handler[s] = "ignore")
           => evidence' # "aborted"]_vars
  BY <1>1
<1>3. Spec => [][cpc = "drain" /\ (\E s \in {"TERM", "INT"} : handler[s] = "ignore")
                   => evidence' # "aborted"]_vars
  BY <1>2, SpecInv, PTL DEF Spec
<1> QED
  BY <1>3 DEF SecondSignalIgnored
================================================================================
