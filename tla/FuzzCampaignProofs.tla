--------------------------- MODULE FuzzCampaignProofs ---------------------------
(* The account a campaign keeps, for any catalog, budget and number of rejected   *)
(* draws: what its reports count is what was executed, and a disagreement it has  *)
(* reported stays reported. Both need a bridge from the tallies of the campaign   *)
(* to the report that fuzz() publishes, which lags behind them by a sample.       *)
(* Nothing here depends on what the preparation made of the catalog.              *)
EXTENDS FuzzCampaign, TLAPS

--------------------------------------------------------------------------------
(* The inductive invariant.                                                       *)

Counts == [Outcomes -> Nat]
Statuses == {"incomplete", "mismatch", "pass"}
Ends == {"incomplete", "complete"}

\* The numbers of the account.
Numbers ==
    /\ executions \in Nat /\ counts \in Counts /\ first \in Nat
    /\ replaying \in BOOLEAN

\* The report has its fields, and its execution count is published with the sample.
Published ==
    /\ report \in [executions : Nat, counts : Counts, active : BOOLEAN, first : Nat,
                   status : Statuses, processing : Ends]
    /\ report.executions = executions

Idle == {"prepare", "keep", "case", "draw", "returned"}

\* How far the tallies and the report are behind the executions at each place, until a
\* sample raises.
Account ==
    ~replaying =>
        /\ pc \in Idle =>
              /\ ~report.active /\ Counted(counts) = executions
              /\ report.counts = counts
        /\ pc \in {"input", "judge"} =>
              /\ report.active /\ Counted(counts) = executions - 1
              /\ report.counts = counts
        /\ pc = "conclude" =>
              /\ report.active /\ Counted(counts) = executions
              /\ Counted(report.counts) = executions - 1
        /\ pc = "raised" => ReportAccounts

Places == pc \in Idle \union {"input", "judge", "conclude", "raised"}

\* Nobody has a witness before the first execution, and a witness that has been
\* reported is the campaign's, whose tallies only run ahead of the report.
Witnessed ==
    /\ pc \in {"input", "judge"} => executions > 0
    /\ report.first # 0 => report.first = first
    /\ report.counts["disagreement"] <= counts["disagreement"]

IInv == Numbers /\ Published /\ Places /\ Account /\ Witnessed

--------------------------------------------------------------------------------
(* Its induction.                                                                 *)

\* Counting one sample adds one, to its outcome alone.
LEMMA CountOne ==
    ASSUME NEW c \in Counts, NEW o \in Outcomes
    PROVE  LET d == [c EXCEPT ![o] = @ + 1]
           IN  /\ d \in Counts /\ Counted(d) = Counted(c) + 1
               /\ d["disagreement"] >= c["disagreement"]
BY SMT DEF Counts, Counted, Outcomes

LEMMA InitInv == Init => IInv
<1> SUFFICES ASSUME Init PROVE IInv
  OBVIOUS
<1>1. /\ NoCounts \in Counts /\ Counted(NoCounts) = 0 /\ NoCounts["disagreement"] = 0
  BY DEF NoCounts, Counts, Counted, Outcomes
<1>2. /\ report.executions = 0 /\ report.counts = NoCounts /\ ~report.active
      /\ report.first = 0
      /\ report \in [executions : Nat, counts : Counts, active : BOOLEAN, first : Nat,
                     status : Statuses, processing : Ends]
  BY <1>1 DEF Init, Report, Statuses, Ends
<1>3. /\ executions = 0 /\ counts = NoCounts /\ first = 0 /\ replaying = FALSE
      /\ pc = "prepare"
  BY DEF Init
<1>4. Numbers /\ Places
  BY <1>1, <1>3 DEF Numbers, Places, Idle
<1>5. Published
  BY <1>2, <1>3 DEF Published
<1>6. Account
  BY <1>1, <1>2, <1>3 DEF Account, Idle
<1>7. Witnessed
  BY <1>1, <1>2, <1>3 DEF Witnessed
<1> QED
  BY <1>4, <1>5, <1>6, <1>7 DEF IInv

\* The steps of the preparation, which leave the account alone.
Prepares == \/ Observe \/ Generalize \/ FallBack \/ Keep \/ FinishPreparation
            \/ \E k \in Keys : PrepareGeneralized(k)

LEMMA PrepareFrame ==
    ASSUME Prepares
    PROVE  /\ UNCHANGED <<inputs, index, runs, replaying, executions, tallies, modelId, sample,
                          report>>
           /\ UNCHANGED <<counts, generationFindings, allocations, first>>
           /\ pc \in {"prepare", "keep"}
           /\ pc' \in {"prepare", "keep", "case", "returned"}
BY DEF Prepares, Observe, Generalize, FallBack, Keep, FinishPreparation, PrepareGeneralized,
       Preparing, Aside, tallies

\* The steps of the engine, the preparation and a rejected draw keep the account.
LEMMA EngineStep ==
    ASSUME IInv, Prepares \/ RunCase \/ StopRun \/ Reject \/ UNCHANGED vars
    PROVE  IInv'
<1>1. UNCHANGED <<counts, first, executions, replaying, report>>
  BY PrepareFrame DEF RunCase, StopRun, Reject, vars, tallies, inputs
<1>2. \/ pc' = pc
      \/ pc \in Idle /\ pc' \in Idle
      \/ pc \in Idle /\ pc' = "raised" /\ replaying
  BY PrepareFrame DEF RunCase, StopRun, Reject, Called, vars, inputs, tallies, Idle, IInv, Numbers
<1>3. ReportAccounts' <=> ReportAccounts
  BY <1>1 DEF ReportAccounts, Counted
<1> QED
  BY <1>1, <1>2, <1>3
     DEF IInv, Numbers, Published, Places, Account, Witnessed, Idle, Counted

\* What beginning a sample makes of a report.
LEMMA BeginReport ==
    ASSUME NEW r \in [executions : Nat, counts : Counts, active : BOOLEAN, first : Nat,
                      status : Statuses, processing : Ends],
           NEW n \in Nat
    PROVE  LET s == [r EXCEPT !.executions = n, !.active = TRUE]
           IN  /\ s.executions = n /\ s.active = TRUE
               /\ s.counts = r.counts /\ s.first = r.first
               /\ s \in [executions : Nat, counts : Counts, active : BOOLEAN, first : Nat,
                         status : Statuses, processing : Ends]
<1> DEFINE s == [[r EXCEPT !.executions = n] EXCEPT !.active = TRUE]
<1>1. s = [r EXCEPT !.executions = n, !.active = TRUE]
  OBVIOUS
<1>2. [r EXCEPT !.executions = n] \in [executions : Nat, counts : Counts, active : BOOLEAN,
                                      first : Nat, status : Statuses, processing : Ends]
  OBVIOUS
<1>3. /\ s.executions = n /\ s.active = TRUE
      /\ s.counts = r.counts /\ s.first = r.first
  OBVIOUS
<1>4. s \in [executions : Nat, counts : Counts, active : BOOLEAN, first : Nat,
             status : Statuses, processing : Ends]
  BY <1>2
<1> QED
  BY <1>1, <1>3, <1>4

\* A sample begins: it is counted and announced at once.
LEMMA BeginStep ==
    ASSUME IInv, Begin
    PROVE  IInv'
<1>1. /\ executions' = executions + 1 /\ pc' = "input" /\ pc = "draw"
      /\ UNCHANGED <<counts, first, replaying>>
      /\ report' = [report EXCEPT !.executions = executions + 1, !.active = TRUE]
  BY DEF Begin, Called
<1>2. /\ report'.executions = executions' /\ report'.active = TRUE
      /\ report'.counts = report.counts /\ report'.first = report.first
      /\ report' \in [executions : Nat, counts : Counts, active : BOOLEAN, first : Nat,
                      status : Statuses, processing : Ends]
  <2>1. /\ executions + 1 \in Nat
        /\ report \in [executions : Nat, counts : Counts, active : BOOLEAN, first : Nat,
                       status : Statuses, processing : Ends]
    BY DEF IInv, Published, Numbers
  <2> QED
    BY <1>1, <2>1, BeginReport
<1>3. Numbers' /\ Places'
  BY <1>1 DEF IInv, Numbers, Places, Idle
<1>4. Published'
  BY <1>1, <1>2 DEF IInv, Published
<1>5. Account'
  BY <1>1, <1>2 DEF IInv, Numbers, Published, Account, Idle, Counted, Counts, Outcomes
<1>6. Witnessed'
  BY <1>1, <1>2 DEF IInv, Numbers, Published, Witnessed, Counts, Outcomes
<1> QED
  BY <1>3, <1>4, <1>5, <1>6 DEF IInv

\* The input is recorded: nothing of the account moves.
LEMMA CaptureStep ==
    ASSUME IInv, CaptureInput
    PROVE  IInv'
<1>1. pc = "input" /\ pc' = "judge" /\ UNCHANGED <<counts, first, executions, replaying, report>>
  BY DEF CaptureInput, tallies
<1>2. Numbers' /\ Places'
  BY <1>1 DEF IInv, Numbers, Places, Idle
<1>3. Published'
  BY <1>1 DEF IInv, Published
<1>4. Account'
  BY <1>1 DEF IInv, Account, Idle, Counted
<1>5. executions > 0
  BY <1>1 DEF IInv, Numbers, Witnessed
<1>6. Witnessed'
  BY <1>1, <1>5 DEF IInv, Witnessed
<1> QED
  BY <1>2, <1>3, <1>4, <1>6 DEF IInv

\* The verdict is counted: the tallies run ahead of the report.
LEMMA JudgeStep ==
    ASSUME IInv, NEW r \in {"continued", "error", "unusable"}, NEW a \in BOOLEAN,
           NEW d \in BOOLEAN, Judge(r, a, d)
    PROVE  IInv'
<1>1. PICK o \in Outcomes :
          /\ counts' = [counts EXCEPT ![o] = @ + 1]
          /\ first' = IF o = "disagreement" /\ first = 0 THEN executions ELSE first
  BY DEF Judge, Verdict, Outcomes
<1>2. pc = "judge" /\ pc' = "conclude" /\ UNCHANGED <<executions, replaying, report>>
  BY DEF Judge
<1>3. /\ counts' \in Counts /\ Counted(counts') = Counted(counts) + 1
      /\ counts'["disagreement"] >= counts["disagreement"]
  BY <1>1, CountOne DEF IInv, Numbers
<1>4. first' \in Nat /\ (report.first # 0 => first' = first)
  BY <1>1 DEF IInv, Numbers, Published, Witnessed
<1>5. Numbers' /\ Published' /\ Places'
  BY <1>2, <1>3, <1>4 DEF IInv, Numbers, Published, Places
<1>6. Account'
  BY <1>2, <1>3 DEF IInv, Numbers, Account, Counted, Idle
<1>7. Witnessed'
  <2>1. /\ counts["disagreement"] \in Nat /\ counts'["disagreement"] \in Nat
        /\ report.counts["disagreement"] \in Nat
    BY <1>3 DEF IInv, Numbers, Published, Counts, Outcomes
  <2> QED
    BY <1>2, <1>3, <1>4, <2>1 DEF IInv, Witnessed
<1> QED
  BY <1>5, <1>6, <1>7 DEF IInv

\* The summary of the campaign replaces the report's counts and witness.
LEMMA ConcludeStep ==
    ASSUME IInv, Conclude
    PROVE  IInv'
<1>1. /\ pc = "conclude" /\ pc' \in {"raised", "draw"} /\ (pc' = "raised" <=> replaying)
      /\ UNCHANGED <<counts, first, executions, replaying>>
      /\ report' = [report EXCEPT !.counts = counts, !.first = first, !.active = FALSE]
  BY DEF Conclude, tallies, IInv, Numbers
<1>2. /\ report'.executions = report.executions /\ ~report'.active
      /\ report'.counts = counts /\ report'.first = first
      /\ report' \in [executions : Nat, counts : Counts, active : BOOLEAN, first : Nat,
                      status : Statuses, processing : Ends]
  BY <1>1 DEF IInv, Published, Numbers
<1>3. Numbers' /\ Places'
  BY <1>1 DEF IInv, Numbers, Places, Idle
<1>4. Published'
  BY <1>1, <1>2 DEF IInv, Published
<1>5. Account'
  BY <1>1, <1>2 DEF IInv, Numbers, Published, Account, Idle, Counted, Counts, Outcomes
<1>6. Witnessed'
  BY <1>1, <1>2 DEF IInv, Numbers, Published, Witnessed, Counts, Outcomes
<1> QED
  BY <1>3, <1>4, <1>5, <1>6 DEF IInv

\* An exception leaves the account as the last report told it.
LEMMA FailureStep ==
    ASSUME IInv, Fail \/ Abort
    PROVE  IInv'
<1>1. /\ UNCHANGED <<counts, first, executions, report>>
      /\ \/ replaying' /\ pc' \in {"raised", "draw"}
         \/ replaying' = replaying /\ pc' = "raised"
      /\ replaying' \in BOOLEAN
  BY DEF Fail, Abort, tallies, IInv, Numbers
<1>2. Numbers' /\ Published' /\ Places' /\ Witnessed'
  BY <1>1 DEF IInv, Numbers, Published, Places, Witnessed, Idle
<1>3. Account'
  <2>1. CASE replaying'
    BY <2>1 DEF Account
  <2>2. CASE ~replaying'
    <3>1. Abort /\ ~replaying /\ pc' = "raised"
      BY <1>1, <2>2 DEF Fail, Abort
    <3>2. ReportAccounts
      BY <3>1 DEF IInv, Published, Account, Places, Idle, ReportAccounts, Numbers, Counted
    <3>3. ReportAccounts'
      BY <1>1, <3>1, <3>2 DEF ReportAccounts, Counted
    <3> QED
      BY <3>1, <3>3 DEF Account, Idle
  <2> QED
    BY <2>1, <2>2
<1> QED
  BY <1>2, <1>3 DEF IInv

\* The end publishes the tallies once more, at the last case or at the limit.
LEMMA FinishStep ==
    ASSUME IInv, FinishCases \/ StopAtLimit
    PROVE  IInv'
<1>1. PICK p \in Ends :
          /\ report' = [report EXCEPT !.counts = counts, !.first = first,
                                      !.status = FinalStatus, !.processing = p]
          /\ UNCHANGED <<counts, first, executions, replaying>>
          /\ pc \in {"case", "draw"} /\ pc' = "returned"
  BY DEF FinishCases, StopAtLimit, Finish, Called, tallies, Ends
<1>2. FinalStatus \in Statuses
  BY DEF FinalStatus, Statuses
<1>3. /\ report'.executions = report.executions /\ report'.active = report.active
      /\ report'.counts = counts /\ report'.first = first
      /\ report' \in [executions : Nat, counts : Counts, active : BOOLEAN, first : Nat,
                      status : Statuses, processing : Ends]
  BY <1>1, <1>2 DEF IInv, Published, Numbers
<1>4. Numbers' /\ Places'
  BY <1>1 DEF IInv, Numbers, Places, Idle
<1>5. Published'
  BY <1>1, <1>3 DEF IInv, Published
<1>6. Account'
  BY <1>1, <1>3 DEF IInv, Numbers, Published, Account, Idle, Counted, Counts, Outcomes
<1>7. Witnessed'
  BY <1>1, <1>3 DEF IInv, Numbers, Published, Witnessed, Counts, Outcomes
<1> QED
  BY <1>4, <1>5, <1>6, <1>7 DEF IInv

LEMMA Invariance == IInv /\ [Next]_vars => IInv'
BY EngineStep, BeginStep, CaptureStep, JudgeStep, ConcludeStep, FailureStep, FinishStep
   DEF Next, Prepares

LEMMA SpecInv == Spec => []IInv
BY InitInv, Invariance, PTL DEF Spec

--------------------------------------------------------------------------------
(* The theorems.                                                                  *)

\* For every catalog and budget a report accounts for each execution, or names the one
\* sample under way.
THEOREM AccountHolds == Spec => []ReportAccounts
<1>1. IInv => ReportAccounts
  BY DEF IInv, Published, Places, Account, ReportAccounts, Idle, Counted, Numbers
<1> QED
  BY <1>1, SpecInv, PTL

\* No step of a campaign takes a reported disagreement or its witness back, whatever
\* raises in it.
THEOREM DisagreementsStay == Spec => DisagreementsAreKept
<1>1. IInv /\ IInv' /\ [Next]_vars =>
        [report.first # 0 => /\ report'.first = report.first
                             /\ report'.counts["disagreement"] >= report.counts["disagreement"]]_vars
  <2> SUFFICES ASSUME IInv, IInv', Next, report.first # 0
               PROVE  /\ report'.first = report.first
                      /\ report'.counts["disagreement"] >= report.counts["disagreement"]
    OBVIOUS
  <2>1. /\ counts["disagreement"] \in Nat /\ report.counts["disagreement"] \in Nat
        /\ report.first = first /\ report.counts["disagreement"] <= counts["disagreement"]
    BY DEF IInv, Numbers, Published, Counts, Outcomes, Witnessed
  <2>2. CASE UNCHANGED report
    BY <2>1, <2>2
  <2>3. CASE Begin
    BY <2>1, <2>3 DEF Begin, IInv, Published
  <2>4. CASE Conclude \/ FinishCases \/ StopAtLimit
    <3>1. report'.first = first /\ report'.counts = counts
      BY <2>4 DEF Conclude, FinishCases, StopAtLimit, Finish, IInv, Published
    <3> QED
      BY <2>1, <3>1
  <2>5. Begin \/ Conclude \/ FinishCases \/ StopAtLimit \/ UNCHANGED report
    BY PrepareFrame DEF Prepares, Next, RunCase, StopRun, Reject, CaptureInput, Judge, Fail, Abort
  <2> QED
    BY <2>2, <2>3, <2>4, <2>5
<1>2. Spec => [][report.first # 0 => /\ report'.first = report.first
                   /\ report'.counts["disagreement"] >= report.counts["disagreement"]]_vars
  BY <1>1, SpecInv, PTL DEF Spec
<1> QED
  BY <1>2, PTL DEF DisagreementsAreKept

--------------------------------------------------------------------------------
(* What its supervisor hears.                                                     *)

\* No report is final before the last one, and none has a disagreement before a sample.
Open ==
    /\ pc # "returned" => report.status = "incomplete" /\ report.processing = "incomplete"
    /\ pc \in {"prepare", "keep"} => report.counts["disagreement"] = 0

LEMMA OpenStep == IInv /\ Open /\ [Next]_vars => Open'
<1> SUFFICES ASSUME IInv, Open, [Next]_vars PROVE Open'
  OBVIOUS
<1>1. CASE UNCHANGED vars
  BY <1>1 DEF vars, Open
<1>2. CASE Prepares
  <2>1. UNCHANGED report /\ pc # "returned"
    BY <1>2, PrepareFrame
  <2>2. pc \in {"prepare", "keep"}
    BY <1>2, PrepareFrame
  <2> QED
    BY <2>1, <2>2 DEF Open
<1>3. CASE RunCase \/ StopRun \/ Reject \/ CaptureInput \/ Fail \/ Abort
           \/ \E r \in {"continued", "error", "unusable"}, a, d \in BOOLEAN : Judge(r, a, d)
  <2>1. UNCHANGED report /\ pc # "returned" /\ pc' \notin {"prepare", "keep"}
    BY <1>3 DEF RunCase, StopRun, Reject, Called, CaptureInput, Fail, Abort, Judge, IInv, Numbers
  <2> QED
    BY <2>1 DEF Open
<1>4. CASE Begin \/ Conclude
  <2>1. pc # "returned" /\ pc' \notin {"prepare", "keep"}
    BY <1>4 DEF Begin, Conclude, Called
  <2>2. report'.status = report.status /\ report'.processing = report.processing
    BY <1>4 DEF Begin, Conclude, IInv, Published
  <2> QED
    BY <2>1, <2>2 DEF Open
<1>5. CASE FinishCases \/ StopAtLimit
  BY <1>5 DEF FinishCases, StopAtLimit, Finish, Open
<1> QED
  BY <1>1, <1>2, <1>3, <1>4, <1>5 DEF Next, Prepares

\* What a supervisor can tell of a report.
Said == [status |-> report.status, found |-> report.counts["disagreement"] > 0,
         processing |-> report.processing]
Kind == IF recording THEN "recorded" ELSE "campaign"
Returned == pc = "returned"

LEMMA SaidFields ==
    ASSUME report.counts["disagreement"] \in Nat
    PROVE  /\ Said.found \in BOOLEAN
           /\ Said.found <=> report.counts["disagreement"] > 0
           /\ Said = [status |-> report.status, found |-> Said.found,
                      processing |-> report.processing]
<1> DEFINE f == report.counts["disagreement"] > 0
<1>1. Said = [status |-> report.status, found |-> f, processing |-> report.processing]
  BY DEF Said
<1>2. f \in BOOLEAN
  OBVIOUS
<1>3. Said.found = f
  BY <1>1, Zenon
<1> QED
  BY <1>1, <1>2, <1>3

LEMMA ReportingDefs ==
    /\ Reporting!Init <=>
          /\ Kind \in {"recorded", "campaign", "model", "resume"}
          /\ Said = [status |-> IF Kind = "resume" THEN "mismatch" ELSE "incomplete",
                     found |-> Kind = "resume", processing |-> "incomplete"]
          /\ Returned = FALSE
    /\ Reporting!Tell <=>
          /\ ~Returned /\ Kind' = Kind /\ Returned' = Returned
          /\ \E f \in BOOLEAN : (Said.found => f) /\ Said' = Reporting!Progress(f)
    /\ Reporting!Return <=>
          /\ ~Returned /\ Returned' = TRUE /\ Kind' = Kind
          /\ \E f \in BOOLEAN : /\ Said.found => f
                                /\ Reporting!Single => f = Said.found
                                /\ Said' \in Reporting!Final(f)
    /\ Reporting!Next <=> Reporting!Tell \/ Reporting!Return
BY DEF Reporting!Init, Reporting!Tell, Reporting!Return, Reporting!Next, Reporting!Modes,
       Reporting!Report, Said, Kind, Returned

LEMMA FinalReports ==
    /\ \A e \in Reporting!Ends : Reporting!Report("mismatch", TRUE, e) \in Reporting!Final(TRUE)
    /\ ~Reporting!Single => \A t \in {"pass", "incomplete"}, e \in Reporting!Ends :
          Reporting!Report(t, FALSE, e) \in Reporting!Final(FALSE)
BY DEF Reporting!Final, Reporting!Ends, Reporting!Report

\* A campaign's steps either leave what was said alone, say more of it, or end it.
LEMMA ReportingStep ==
    ASSUME IInv, IInv', Open, Open', [Next]_vars
    PROVE  \/ Reporting!Next
           \/ Said' = Said /\ Kind' = Kind /\ Returned' = Returned
<1>1. Kind' = Kind /\ Kind \in {"recorded", "campaign"}
  BY PrepareFrame DEF Next, Prepares, RunCase, StopRun, Begin, Reject, CaptureInput, Judge,
     Conclude, Fail, Abort, FinishCases, StopAtLimit, Finish, vars, inputs, Kind
<1>2. ~Reporting!Single
  BY <1>1 DEF Reporting!Single, Kind
<1>3. /\ report.counts["disagreement"] \in Nat /\ counts["disagreement"] \in Nat
      /\ report.counts["disagreement"] <= counts["disagreement"]
  BY DEF IInv, Numbers, Published, Counts, Outcomes, Witnessed
<1>a. /\ Said.found <=> report.counts["disagreement"] > 0
      /\ Said.found \in BOOLEAN
      /\ Said = [status |-> report.status, found |-> Said.found, processing |-> report.processing]
  BY <1>3, SaidFields
<1>4. CASE UNCHANGED vars
  BY <1>1, <1>4 DEF vars, Said, Returned
<1>5. CASE Observe \/ Generalize \/ FallBack \/ Keep \/ \E k \in Keys : PrepareGeneralized(k)
  BY <1>1, <1>5 DEF Observe, Generalize, FallBack, Keep, PrepareGeneralized, Preparing, Aside,
     Said, Returned
<1>6. CASE FinishPreparation
  <2>1. Said' = Said /\ ~Returned /\ pc = "prepare"
    BY <1>6 DEF FinishPreparation, Aside, Said, Returned
  <2>2. ASSUME pc' = "returned" PROVE Reporting!Return
    <3>1. Returned' = TRUE
      BY <2>2 DEF Returned
    <3>2. Said.status = "incomplete" /\ Said.processing = "incomplete"
      BY <2>1 DEF Open, Said
    <3>3. Said \in Reporting!Final(Said.found)
      <4>0. Said = [status |-> "incomplete", found |-> Said.found, processing |-> "incomplete"]
        BY <1>a, <2>1 DEF Open
      <4>2. Said.found = FALSE
        BY <1>3, <1>a, <2>1 DEF Open
      <4> QED
        BY <1>2, <4>0, <4>2 DEF Reporting!Final, Reporting!Report, Reporting!Ends
    <3> QED
      BY <1>1, <1>a, <2>1, <3>1, <3>3, ReportingDefs
  <2>3. ASSUME pc' # "returned" PROVE Returned' = Returned
    BY <2>1, <2>3 DEF Returned
  <2> QED
    BY <1>1, <2>1, <2>2, <2>3, ReportingDefs
<1>7. CASE RunCase \/ StopRun \/ Reject \/ CaptureInput \/ Fail \/ Abort
           \/ \E r \in {"continued", "error", "unusable"}, a, d \in BOOLEAN : Judge(r, a, d)
  BY <1>1, <1>7 DEF RunCase, StopRun, Reject, Called, CaptureInput, Fail, Abort, Judge, Said,
     Returned
<1>8. CASE Begin
  <2>1. report'.status = report.status /\ report'.processing = report.processing
        /\ report'.counts = report.counts
    BY <1>8 DEF Begin, IInv, Published
  <2> QED
    BY <1>1, <1>8, <2>1 DEF Begin, Called, Said, Returned
<1>9. CASE Conclude
  <2>1. report'.status = report.status /\ report'.processing = report.processing
        /\ report'.counts = counts
    BY <1>9 DEF Conclude, IInv, Published
  <2>2. ~Returned /\ ~Returned' /\ Returned' = Returned
    BY <1>9 DEF Conclude, Returned
  <2> DEFINE f == counts["disagreement"] > 0
  <2>3. Said' = Reporting!Progress(f) /\ f \in BOOLEAN /\ (Said.found => f)
    BY <1>2, <1>3, <1>a, <2>1, <2>2
       DEF Said, Reporting!Progress, Reporting!Report, Open, Returned
  <2> HIDE DEF f
  <2> QED
    BY <1>1, <2>2, <2>3, ReportingDefs
<1>10. CASE FinishCases \/ StopAtLimit
  <2>1. PICK p \in Ends :
          /\ report' = [report EXCEPT !.counts = counts, !.first = first,
                                      !.status = FinalStatus, !.processing = p]
          /\ pc \in {"case", "draw"} /\ pc' = "returned"
    BY <1>10 DEF FinishCases, StopAtLimit, Finish, Called, Ends
  <2>2. report'.status = FinalStatus /\ report'.processing = p /\ report'.counts = counts
    BY <2>1 DEF IInv, Published
  <2>3. ~Returned /\ Returned' = TRUE
    BY <2>1 DEF Returned
  <2> DEFINE f == counts["disagreement"] > 0
  <2>4. f \in BOOLEAN /\ (Said.found => f)
    BY <1>3, <1>a
  <2>5. Said' = [status |-> FinalStatus, found |-> f, processing |-> p]
    BY <2>2 DEF Said
  <2>6. Said' \in Reporting!Final(f)
    <3>a. FinalStatus = IF f THEN "mismatch" ELSE IF counts["unusable"] > 0 THEN "incomplete" ELSE "pass"
      BY DEF FinalStatus
    <3> HIDE DEF f
    <3>0. Said' = Reporting!Report(FinalStatus, f, p) /\ p \in Reporting!Ends
      BY <2>1, <2>5 DEF Reporting!Report, Reporting!Ends, Ends
    <3>1. CASE f = TRUE
      <4>1. Said' = Reporting!Report("mismatch", TRUE, p)
        BY <3>0, <3>a, <3>1
      <4> QED
        BY <3>0, <3>1, <4>1, FinalReports
    <3>2. CASE f = FALSE
      <4>1. FinalStatus \in {"pass", "incomplete"}
        BY <3>a, <3>2
      <4>2. Said' = Reporting!Report(FinalStatus, FALSE, p)
        BY <3>0, <3>2
      <4> QED
        BY <1>2, <3>0, <3>2, <4>1, <4>2, FinalReports
    <3> QED
      BY <2>4, <3>1, <3>2
  <2> HIDE DEF f
  <2> QED
    BY <1>1, <1>2, <2>3, <2>4, <2>6, ReportingDefs
<1> QED
  BY <1>4, <1>5, <1>6, <1>7, <1>8, <1>9, <1>10 DEF Next

\* For every catalog and budget, and whatever is rejected, raised or replayed, a campaign
\* tells its supervisor what FuzzReports promises: the supervision of FuzzRunner, which
\* takes that for granted, may be read with this campaign in it.
THEOREM CampaignReports == Spec => ReportsAreTold
<1>1. Init => Open /\ Reporting!Init
  <2> SUFFICES ASSUME Init PROVE Open /\ Reporting!Init
    OBVIOUS
  <2>1. /\ report.status = "incomplete" /\ report.processing = "incomplete"
        /\ report.counts["disagreement"] = 0 /\ pc = "prepare"
    BY DEF Init, Report, NoCounts, Outcomes
  <2>2. Open
    BY <2>1 DEF Open
  <2>3. Said = [status |-> "incomplete", found |-> FALSE, processing |-> "incomplete"]
        /\ Returned = FALSE /\ Kind \in {"recorded", "campaign"}
    <3>1. Said.found = FALSE
      BY <2>1, SaidFields
    <3> QED
      BY <2>1, <3>1, SaidFields DEF Returned, Kind
  <2> QED
    BY <2>2, <2>3, ReportingDefs
<1>2. IInv /\ IInv' /\ Open /\ Open' /\ [Next]_vars
        => [Reporting!Next]_<<Kind, Said, Returned>>
  BY ReportingStep
<1>3. [Reporting!Next]_<<Kind, Said, Returned>>
        => [Reporting!Next]_<<IF recording THEN "recorded" ELSE "campaign",
                              [status |-> report.status, found |-> report.counts["disagreement"] > 0,
                               processing |-> report.processing],
                              pc = "returned">>
  BY DEF Kind, Said, Returned
<1> QED
  BY <1>1, <1>2, <1>3, OpenStep, SpecInv, PTL DEF Spec, ReportsAreTold, Reporting!Spec
================================================================================
