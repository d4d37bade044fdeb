------------------------------ MODULE FuzzCampaign ------------------------------
(* A cumulative discovery campaign: fuzz() of extractor/fuzzer.py with            *)
(* continue_on_findings, and the Campaign of extractor/fuzz_campaign.py that      *)
(* freezes the prepared models, gives each sample a model, judges it and counts.  *)
(*                                                                                *)
(* One thread, but control alternates between fuzz(), the Hypothesis engine it    *)
(* hands its test function to (external: it may reject, stop early, and replays a *)
(* failing example once), and callbacks that record evidence and stream reports.  *)
(* An action is what happens between two points where an exception can strike.    *)
EXTENDS Integers, Sequences, SequencesExt

CONSTANTS
    Keys,         \* encodings at a source: what a model, and an allocation, is for
    Catalogs,     \* what prepare_catalog, or an acquisition, can hand over
    MaxExamples,  \* bound: the examples and the execution limit asked for
    MaxRejects    \* bound: draws that the encoder rejects

\* A case's observations are the encodings that were acquired for it, never none;
\* its template is there if they could be generalized.
Cases == [template : BOOLEAN, observations : Seq(Keys) \ {<<>>}]

ASSUME CampaignAssumption ==
    /\ Catalogs \subseteq Seq(Cases)
    /\ MaxExamples \in Nat \ {0}
    /\ MaxRejects \in Nat

VARIABLES
    examples,   \* the examples asked for (never changes)
    limit,      \* max_executions, 0 standing for None (never changes)
    vary,       \* vary_inputs (never changes)
    recording,  \* evidence is recorded (never changes)
    pc,         \* where fuzz() is
    plan,       \* what prepare still has to look at, case by case
    observed,   \* identifiers of the observations of the case at hand, in order
    comparable, \* what of a case that falls back can be compared
    models,     \* campaign.models
    index,      \* the case whose Hypothesis run is next, or under way
    runs,       \* valid examples of that run
    replaying,  \* Hypothesis replays an example that raised
    executions,
    counts,     \* campaign.agreements, disagreements and unusable
    generationFindings,
    allocations,
    first,      \* the sample of campaign.first_disagreement, 0 for None
    modelId,    \* campaign.model_id
    sample,     \* the sample being compared: its FuzzInput's identifier and its outcome
    records,    \* the evidence, in order
    report      \* the last report given to progress

inputs == <<examples, limit, vary, recording>>
preparation == <<plan, observed, comparable, models>>
tallies == <<counts, generationFindings, allocations, first>>
vars == <<inputs, pc, preparation, index, runs, replaying, executions, tallies, modelId, sample,
          records, report>>

Outcomes == {"agreement", "disagreement", "unusable"}
NoId == -1

Minimum(a, b) == IF a <= b THEN a ELSE b

Total == IF limit = 0 THEN examples ELSE Minimum(examples, limit)

--------------------------------------------------------------------------------
(* Evidence. A record's identifier is its position, from 0. "key" is told of a     *)
(* model and of the input it is given, "model" of an acquisition and an input,    *)
(* "sample" of an input, "outcome" of a comparison.                               *)

Blank == [kind |-> "finding", context |-> NoId, key |-> "none", model |-> NoId,
          sample |-> 0, outcome |-> "none"]
ModelRecord(k) == [Blank EXCEPT !.kind = "model", !.key = k]
AcquisitionRecord(m) == [Blank EXCEPT !.kind = "acquisition", !.model = m]
GeneralizationRecord == [Blank EXCEPT !.kind = "generalization"]
InstantiationRecord(m) == [Blank EXCEPT !.kind = "instantiation", !.context = m]
FindingRecord(c) == [Blank EXCEPT !.context = c]
InputRecord(k, m, n) == [Blank EXCEPT !.kind = "input", !.key = k, !.model = m, !.sample = n]
ComparisonRecord(c, o) == [Blank EXCEPT !.kind = "comparison", !.context = c, !.outcome = o]

Emit(rs) == records' = IF recording THEN records \o rs ELSE records
NextId == IF recording THEN Len(records) ELSE NoId

--------------------------------------------------------------------------------
(* Preparation.                                                                   *)

Model(r, k, i, t) == [route |-> r, key |-> k, id |-> i, template |-> t]
Identifier(i) == IF recording THEN i ELSE NoId

\* EvidenceHooks.model: a model is recorded once, each acquisition of it anew.
Recorded(k) == \E i \in DOMAIN records : records[i] = ModelRecord(k)
ModelId(k) ==
    IF Recorded(k) THEN (CHOOSE i \in DOMAIN records : records[i] = ModelRecord(k)) - 1
                   ELSE Len(records)
EmitModel(k) ==
    Emit((IF Recorded(k) THEN <<>> ELSE <<ModelRecord(k)>>) \o <<AcquisitionRecord(ModelId(k))>>)

\* prepare without vary_encodings: the concrete models retained are looked at like one
\* case without a template, all of them comparable.
Retained == {<<k>> : k \in Keys}
            \union {<<p[1], p[2]>> : p \in {q \in Keys \X Keys : q[1] # q[2]}}
Plans == IF vary THEN Catalogs
         ELSE {<<>>} \union {<<[template |-> FALSE, observations |-> o]>> : o \in Retained}

Report(e, c, a, f, s, p) ==
    [executions |-> e, counts |-> c, active |-> a, first |-> f, status |-> s, processing |-> p]
NoCounts == [o \in Outcomes |-> 0]

Init ==
    /\ examples \in 1 .. MaxExamples /\ limit \in 0 .. MaxExamples
    /\ vary \in BOOLEAN /\ recording \in BOOLEAN
    /\ pc = "prepare" /\ plan \in Plans /\ observed = <<>> /\ comparable = {}
    /\ models = <<>> /\ index = 0 /\ runs = 0 /\ replaying = FALSE
    /\ executions = 0 /\ counts = NoCounts /\ generationFindings = 0
    /\ allocations = [k \in Keys |-> 0] /\ first = 0
    /\ modelId = NoId /\ sample = [context |-> NoId, outcome |-> "none"]
    /\ records = <<>>
    /\ report = Report(0, NoCounts, FALSE, 0, "incomplete", "incomplete")

Observations == Head(plan).observations
Preparing == pc = "prepare" /\ plan # <<>>
AllObserved == Len(observed) = Len(Observations)
Aside == <<inputs, index, runs, replaying, executions, tallies, modelId, sample, report>>

\* An observation is recorded.
Observe ==
    /\ Preparing /\ ~AllObserved
    /\ LET k == Observations[Len(observed) + 1]
       IN  EmitModel(k) /\ observed' = Append(observed, Identifier(ModelId(k)))
    /\ UNCHANGED <<Aside, pc, plan, comparable, models>>

\* A template whose observations are all comparable becomes one generalized model.
Generalize ==
    /\ Preparing /\ AllObserved /\ Head(plan).template
    /\ models' = Append(models, Model("generalized", Observations[1], NextId, TRUE))
    /\ Emit(<<GeneralizationRecord>>)
    /\ plan' = Tail(plan) /\ observed' = <<>>
    /\ UNCHANGED <<Aside, pc, comparable>>

\* Otherwise its observations are kept one by one, as far as they can be compared.
FallBack ==
    /\ Preparing /\ AllObserved
    /\ comparable' \in SUBSET ToSet(Observations)
    /\ Head(plan).template => comparable' # ToSet(Observations)
    /\ ~vary => comparable' = ToSet(Observations)
    /\ pc' = "keep"
    /\ UNCHANGED <<Aside, plan, observed, models, records>>

\* Mutant of Seen: only the model kept last is looked at.
SeenLast(k) == models # <<>> /\ models[Len(models)].key = k

\* seen_fallback
Seen(k) == \E i \in DOMAIN models : models[i].route = "fallback" /\ models[i].key = k

Keep ==
    /\ pc = "keep"
    /\ LET k == Observations[1]
       IN  models' = IF k \in comparable /\ ~Seen(k)
                       THEN Append(models, Model("fallback", k, observed[1], FALSE)) ELSE models
    /\ observed' = Tail(observed)
    /\ IF Len(Observations) = 1
         THEN pc' = "prepare" /\ plan' = Tail(plan) /\ comparable' = {}
         ELSE /\ plan' = <<[Head(plan) EXCEPT !.observations = Tail(@)]>> \o Tail(plan)
              /\ UNCHANGED <<pc, comparable>>
    /\ UNCHANGED <<Aside, records>>

\* prepare without vary_encodings, when the instruction generalizes: its model
\* alone, whatever concrete models were acquired for it.
PrepareGeneralized(k) ==
    /\ pc = "prepare" /\ ~vary /\ models = <<>>
    /\ plan # <<>> => AllObserved
    /\ EmitModel(k)
    /\ models' = <<Model("generalized", k, Identifier(ModelId(k)), FALSE)>>
    /\ plan' = <<>> /\ observed' = <<>>
    /\ UNCHANGED <<Aside, pc, comparable>>

\* A campaign without models returns at once, its status still "incomplete".
FinishPreparation ==
    /\ pc = "prepare" /\ plan = <<>>
    /\ pc' = IF models = <<>> THEN "returned" ELSE "case"
    /\ UNCHANGED <<Aside, preparation, records>>

--------------------------------------------------------------------------------
(* The Hypothesis runs, one for each model, and the draw of a sample.              *)

\* The two places that divide the budget: the shares the report announces, and the
\* shares the runs get.
Share(i) == Total \div Len(models) + (IF i < Total % Len(models) THEN 1 ELSE 0)

Planned == [k \in {models[j].key : j \in {j \in DOMAIN models : models[j].route = "fallback"}} |->
              LET last == CHOOSE j \in DOMAIN models :
                            /\ models[j].route = "fallback" /\ models[j].key = k
                            /\ \A l \in j + 1 .. Len(models) :
                                  models[l].route = "fallback" => models[l].key # k
              IN  Share(last - 1)]

\* Mutant of CaseBudget: every model is tried at least once.
CaseBudgetAtLeastOne(i) ==
    LET share == Total \div Len(models) + (IF i < Total % Len(models) THEN 1 ELSE 0)
    IN  IF share = 0 THEN 1 ELSE share

CaseBudget(i) == Total \div Len(models) + (IF i < Total % Len(models) THEN 1 ELSE 0)

RunCase ==
    /\ pc = "case" /\ index < Len(models)
    /\ IF CaseBudget(index) > 0
         THEN pc' = "draw" /\ runs' = 0 /\ UNCHANGED index
         ELSE index' = index + 1 /\ UNCHANGED <<pc, runs>>
    /\ UNCHANGED <<inputs, preparation, replaying, executions, tallies, modelId, sample, records, report>>

\* External: a run ends after its examples, or earlier when too few draws are valid.
StopRun ==
    /\ pc = "draw" /\ ~replaying /\ runs > 0
    /\ pc' = "case" /\ index' = index + 1
    /\ UNCHANGED <<inputs, preparation, runs, replaying, executions, tallies, modelId, sample,
                   records, report>>

Selected == models[index + 1]

Exhausted == limit # 0 /\ executions >= limit

\* External: the engine calls the test function.
Called == pc = "draw" /\ (replaying \/ runs < CaseBudget(index))

\* campaign.select counts what a fallback model is given.
Allocate ==
    allocations' = IF Selected.route = "fallback"
                     THEN [allocations EXCEPT ![Selected.key] = @ + 1] ELSE allocations

\* campaign.bind draws another member of a generalized case.
Binds == vary /\ Selected.template

\* Mutant of Begin: the identifier of the instantiation is not kept.
BeginUnbound ==
    /\ Called /\ ~Exhausted
    /\ Allocate
    /\ modelId' = Selected.id
    /\ IF Binds THEN Emit(<<InstantiationRecord(Selected.id)>>) ELSE UNCHANGED records
    /\ executions' = executions + 1
    /\ report' = [report EXCEPT !.executions = executions + 1, !.active = TRUE]
    /\ pc' = "input"
    /\ UNCHANGED <<inputs, preparation, index, runs, replaying, counts, generationFindings, first, sample>>

\* A sample is drawn, counted, and announced with its input.
Begin ==
    /\ Called /\ ~Exhausted
    /\ Allocate
    /\ IF Binds THEN modelId' = NextId /\ Emit(<<InstantiationRecord(Selected.id)>>)
                ELSE modelId' = Selected.id /\ UNCHANGED records
    /\ executions' = executions + 1
    /\ report' = [report EXCEPT !.executions = executions + 1, !.active = TRUE]
    /\ pc' = "input"
    /\ UNCHANGED <<inputs, preparation, index, runs, replaying, counts, generationFindings, first, sample>>

\* The encoder rejects the draw: assume(False) takes the example back. In a replay
\* Hypothesis calls that flaky, and raises.
Reject ==
    /\ Called /\ ~Exhausted /\ Binds
    /\ generationFindings < MaxRejects
    /\ generationFindings' = generationFindings + 1
    /\ modelId' = Selected.id
    /\ Emit(<<FindingRecord(Selected.id)>>)
    /\ pc' = IF replaying THEN "raised" ELSE "draw"
    /\ UNCHANGED <<inputs, preparation, index, runs, replaying, executions, counts, allocations,
                   first, sample, report>>

--------------------------------------------------------------------------------
(* campaign.compare.                                                              *)

\* The encoding of the input: an instantiation has its own.
InputKey == IF Binds THEN "none" ELSE Selected.key

\* Mutant of CaptureInput: the identifier of an earlier input is kept.
CaptureInputStale ==
    /\ pc = "input"
    /\ sample' = [context |-> IF sample.context = NoId THEN NextId ELSE sample.context,
                  outcome |-> "none"]
    /\ Emit(<<InputRecord(InputKey, modelId, executions)>>)
    /\ pc' = "judge"
    /\ UNCHANGED <<inputs, preparation, index, runs, replaying, executions, tallies, modelId, report>>

CaptureInput ==
    /\ pc = "input"
    /\ sample' = [context |-> NextId, outcome |-> "none"]
    /\ Emit(<<InputRecord(InputKey, modelId, executions)>>)
    /\ pc' = "judge"
    /\ UNCHANGED <<inputs, preparation, index, runs, replaying, executions, tallies, modelId, report>>

Verdict(reference, available, differs) ==
    IF ~available \/ reference = "unusable" THEN "unusable"
    ELSE IF differs THEN "disagreement" ELSE "agreement"

Findings(reference, available) ==
    (IF reference = "continued" THEN <<>> ELSE <<FindingRecord(sample.context)>>)
        \o (IF available THEN <<>> ELSE <<FindingRecord(sample.context)>>)

\* Mutant of Judge: the latest disagreement becomes the witness.
JudgeLatest(reference, available, differs) ==
    LET outcome == Verdict(reference, available, differs)
    IN  /\ pc = "judge"
        /\ Emit(Findings(reference, available))
        /\ counts' = [counts EXCEPT ![outcome] = @ + 1]
        /\ first' = IF outcome = "disagreement" THEN executions ELSE first
        /\ sample' = [sample EXCEPT !.outcome = outcome]
        /\ pc' = "conclude"
        /\ UNCHANGED <<inputs, preparation, index, runs, replaying, executions, generationFindings,
                       allocations, modelId, report>>

\* Mutant of Judge: a comparison that is not available is not counted.
JudgeUsable(reference, available, differs) ==
    LET outcome == Verdict(reference, available, differs)
    IN  /\ pc = "judge"
        /\ Emit(Findings(reference, available))
        /\ counts' = IF available THEN [counts EXCEPT ![outcome] = @ + 1] ELSE counts
        /\ first' = IF outcome = "disagreement" /\ first = 0 THEN executions ELSE first
        /\ sample' = [sample EXCEPT !.outcome = outcome]
        /\ pc' = "conclude"
        /\ UNCHANGED <<inputs, preparation, index, runs, replaying, executions, generationFindings,
                       allocations, modelId, report>>

\* The emulator and the model answer: continued, a CPU error, or an emulator failure;
\* one enabled edge, or a comparison that is not available; a difference, or none.
Judge(reference, available, differs) ==
    LET outcome == Verdict(reference, available, differs)
    IN  /\ pc = "judge"
        /\ Emit(Findings(reference, available))
        /\ counts' = [counts EXCEPT ![outcome] = @ + 1]
        /\ first' = IF outcome = "disagreement" /\ first = 0 THEN executions ELSE first
        /\ sample' = [sample EXCEPT !.outcome = outcome]
        /\ pc' = "conclude"
        /\ UNCHANGED <<inputs, preparation, index, runs, replaying, executions, generationFindings,
                       allocations, modelId, report>>

\* Mutant of Conclude: only what could be compared is recorded.
ConcludeUsable ==
    /\ pc = "conclude"
    /\ Emit(IF sample.outcome = "unusable" THEN <<>>
            ELSE <<ComparisonRecord(sample.context, sample.outcome)>>)
    /\ report' = [report EXCEPT !.counts = counts, !.first = first, !.active = FALSE]
    /\ runs' = runs + 1
    /\ pc' = IF replaying THEN "raised" ELSE "draw"
    /\ UNCHANGED <<inputs, preparation, index, replaying, executions, tallies, modelId, sample>>

\* Mutant of Conclude: the summary names a witness only for the sample at hand.
ConcludeAfresh ==
    /\ pc = "conclude"
    /\ Emit(<<ComparisonRecord(sample.context, sample.outcome)>>)
    /\ report' = [report EXCEPT !.counts = counts, !.active = FALSE,
                                !.first = IF sample.outcome = "disagreement" THEN first ELSE 0]
    /\ runs' = runs + 1
    /\ pc' = IF replaying THEN "raised" ELSE "draw"
    /\ UNCHANGED <<inputs, preparation, index, replaying, executions, tallies, modelId, sample>>

\* The Comparison is recorded, the summary merged into the report and published. A
\* replay that does not raise is flaky to Hypothesis.
Conclude ==
    /\ pc = "conclude"
    /\ Emit(<<ComparisonRecord(sample.context, sample.outcome)>>)
    /\ report' = [report EXCEPT !.counts = counts, !.first = first, !.active = FALSE]
    /\ runs' = runs + 1
    /\ pc' = IF replaying THEN "raised" ELSE "draw"
    /\ UNCHANGED <<inputs, preparation, index, replaying, executions, tallies, modelId, sample>>

--------------------------------------------------------------------------------
(* Failures and the end.                                                          *)

\* An exception leaves the test function: the recorder has failed, or the emulator or
\* the comparison raised something unexpected. Hypothesis stops generating and replays
\* the example; what the replay raises leaves fuzz().
Fail ==
    /\ pc \in {"input", "judge", "conclude"}
    /\ replaying' = TRUE
    /\ pc' = IF replaying THEN "raised" ELSE "draw"
    /\ UNCHANGED <<inputs, preparation, index, runs, executions, tallies, modelId, sample,
                   records, report>>

\* A KeyboardInterrupt, an error of the preparation, or Hypothesis giving up on a run
\* without valid examples: fuzz() raises at once.
Abort ==
    /\ pc \in {"prepare", "keep", "draw", "input", "judge", "conclude"}
    /\ pc' = "raised"
    /\ UNCHANGED <<inputs, preparation, index, runs, replaying, executions, tallies, modelId, sample,
                   records, report>>

\* Mutant of FinalStatus: what could not be compared outweighs what differs.
FinalStatusUnusableFirst ==
    IF counts["unusable"] > 0 THEN "incomplete"
    ELSE IF counts["disagreement"] > 0 THEN "mismatch" ELSE "pass"

FinalStatus == IF counts["disagreement"] > 0 THEN "mismatch"
               ELSE IF counts["unusable"] > 0 THEN "incomplete" ELSE "pass"

Finish(processing) ==
    /\ report' = [report EXCEPT !.counts = counts, !.first = first,
                                !.status = FinalStatus, !.processing = processing]
    /\ pc' = "returned"
    /\ UNCHANGED <<inputs, preparation, index, runs, replaying, executions, tallies, modelId, sample,
                   records>>

FinishCases == pc = "case" /\ index = Len(models) /\ Finish("complete")

\* _ExecutionBudget is raised past Hypothesis and caught by fuzz(), replay or not.
StopAtLimit == Called /\ Exhausted /\ Finish("incomplete")

Next == \/ Observe \/ Generalize \/ FallBack \/ Keep
        \/ \E k \in Keys : PrepareGeneralized(k)
        \/ FinishPreparation \/ RunCase \/ StopRun \/ Begin \/ Reject \/ CaptureInput
        \/ \E r \in {"continued", "error", "unusable"}, a, d \in BOOLEAN : Judge(r, a, d)
        \/ Conclude \/ Fail \/ Abort \/ FinishCases \/ StopAtLimit

Spec == Init /\ [][Next]_vars

--------------------------------------------------------------------------------
(* Properties.                                                                    *)

Counted(c) == c["agreement"] + c["disagreement"] + c["unusable"]

\* The types of the campaign's state.
TypeOK ==
    /\ pc \in {"prepare", "keep", "case", "draw", "input", "judge", "conclude", "returned", "raised"}
    /\ plan \in Seq(Cases) /\ observed \in Seq(Int) /\ comparable \subseteq Keys
    /\ models \in Seq([route : {"generalized", "fallback"}, key : Keys, id : Int,
                       template : BOOLEAN])
    /\ index \in 0 .. Len(models) /\ runs \in Nat /\ replaying \in BOOLEAN
    /\ executions \in Nat /\ counts \in [Outcomes -> Nat]
    /\ generationFindings \in 0 .. MaxRejects
    /\ allocations \in [Keys -> Nat] /\ first \in Nat
    /\ modelId \in Int
    /\ sample \in [context : Int, outcome : Outcomes \union {"none"}]
    /\ report \in [executions : Nat, counts : [Outcomes -> Nat], active : BOOLEAN, first : Nat,
                   status : {"incomplete", "mismatch", "pass"},
                   processing : {"incomplete", "complete"}]

\* However the budget divides over the models, and whatever is rejected, no campaign
\* executes more samples than asked for, but for the one replay of a sample that raised,
\* which the execution limit still stops (run_case, max_executions).
WithinBudget ==
    /\ executions <= Total + (IF replaying THEN 1 ELSE 0)
    /\ limit # 0 => executions <= limit

\* Until a sample raises, a report without an active input accounts for every execution,
\* and otherwise the active input is the one that is missing: a report cut off by the
\* deadline says which sample was lost (fuzz, "active_input").
ReportAccounts ==
    ~replaying => Counted(report.counts) = report.executions - (IF report.active THEN 1 ELSE 0)

\* A report agrees with the evidence: one input for each execution, and one comparison
\* for each outcome it counts. Until a sample raises that goes for every report without
\* an active input, and for a complete report always, so that no sample was replayed
\* behind its numbers (compare, evidence_integration_test.py).
Positions(kind) == {i \in DOMAIN records : records[i].kind = kind}
Compared(outcome) == {i \in Positions("comparison") : records[i].outcome = outcome}
EvidenceMatchesReport ==
    recording /\ (report.processing = "complete" \/ ~(replaying \/ report.active)) =>
        /\ Cardinality(Positions("input")) = report.executions
        /\ \A o \in Outcomes : Cardinality(Compared(o)) = report.counts[o]

\* Every input names the model it was given to: for a generalized case its own, fresh
\* instantiation, and otherwise the record of the model of its encoding. No identifier
\* is left over from an earlier sample, a rejected draw or the template (model_id).
InputNamesItsModel ==
    \A i \in Positions("input") :
        LET m == records[i].model + 1
        IN  /\ m \in 1 .. i - 1
            /\ \/ records[m].kind = "model" /\ records[m].key = records[i].key
               \/ records[m].kind = "instantiation" /\ m = i - 1

\* What is recorded of a sample hangs on its own input, until the next input.
SamplesAreGrouped ==
    \A i \in Positions("comparison") :
        /\ records[i].context + 1 \in Positions("input")
        /\ \A j \in Positions("input") : j < i => j <= records[i].context + 1

\* The witness of the report is the first disagreement in the evidence, whatever came
\* after it (first_disagreement).
WitnessIsFirst ==
    recording =>
        \A i \in Positions("comparison") :
            records[i].outcome = "disagreement" =>
                /\ report.first # 0 \/ pc # "returned"
                /\ report.first <= records[records[i].context + 1].sample

\* Nothing a later report says takes a disagreement, or its witness, back.
DisagreementsAreKept ==
    [][report.first # 0 => /\ report'.first = report.first
                           /\ report'.counts["disagreement"] >= report.counts["disagreement"]]_vars

\* A complete report gave no fallback model more samples than it announced, and exactly
\* as many if every sample asked for was executed: the shares of the runs and the
\* announced shares are computed apart, the latter in a dictionary.
SharesAreKept ==
    pc = "returned" /\ report.processing = "complete" =>
        /\ executions <= Total
        /\ \A k \in DOMAIN Planned :
              /\ allocations[k] <= Planned[k]
              /\ executions = Total => allocations[k] = Planned[k]

\* The supervisor of a campaign hears what it takes for granted (FuzzReports): nothing
\* final before the last report, no disagreement withdrawn, and every last report with a
\* disagreement a mismatch, whatever was unusable, rejected or replayed (publish).
Reporting == INSTANCE FuzzReports WITH
    mode <- IF recording THEN "recorded" ELSE "campaign",
    said <- [status |-> report.status, found |-> report.counts["disagreement"] > 0,
             processing |-> report.processing],
    over <- (pc = "returned")
ReportsAreTold == Reporting!Spec

--------------------------------------------------------------------------------
(* A claim of the repository that the code does not keep.                         *)

\* "incomplete: the requested work could not all be completed": a report that says
\* "pass" is not about work cut short.
PassIsComplete ==
    pc = "returned" /\ report.status = "pass" => report.processing = "complete"
================================================================================
