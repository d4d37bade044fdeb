----------------------------- MODULE FuzzStages -----------------------------
(***************************************************************************)
(* One instruction's lane through the three fuzzing stages (discover, then   *)
(* shrink, then explain): the command of each stage (extractor/fuzz_cli.py   *)
(* main), the single-model mode of fuzz with its replay database             *)
(* (extractor/fuzzer.py), and the cut that run_bounded may make at any        *)
(* published message (extractor/fuzz_runner.py).  Only the report passes from  *)
(* one stage to the next.                                                     *)
(*                                                                         *)
(* An input is a number, in the order in which Hypothesis finds inputs        *)
(* simpler; Rank orders them as fuzz does, by their scalars.  Hypothesis      *)
(* itself is external: it chooses the inputs and edits the database.  Which   *)
(* inputs differ may change between stages, as the emulator may.              *)
(***************************************************************************)
EXTENDS Naturals

CONSTANTS Inputs,         \* a set of naturals, simplest first
          Rank,           \* Rank[i]: the order of the inputs' scalars
          MaxExecutions,  \* --max-executions
          None

\* What a stage writes, and its messages: the replay database is part of them.
Report == [status : {"incomplete", "pass", "mismatch", "not_applicable", "unsupported"},
           processing : {"incomplete", "complete", "not_applicable", "absent"},
           identity : {None, "first", "later", "campaign"},
           witness : Inputs \cup {None}, differences : Inputs \cup {None},
           primary : SUBSET Inputs, secondary : SUBSET Inputs]

ASSUME StagesAssumption ==
    /\ Inputs \subseteq Nat
    /\ Rank \in [Inputs -> Nat]
    /\ MaxExecutions \in Nat \ {0}
    /\ None \notin Inputs \cup Report

VARIABLES
    stage,      \* the stage of the lane
    tools,      \* what a checkpoint's identity pins: model, strategy, Hypothesis
    pc,         \* "cli", an engine phase, "returned" after fuzz, or "done" after explain
    previous,   \* the report the last stage wrote
    report,     \* fuzz's report
    received,   \* the last message run_bounded read
    primary, secondary,  \* the database: entries under the key and key.secondary
    executions,
    reproduced,
    best,       \* the simplest failure Hypothesis holds
    pending,    \* the saved entries not replayed yet
    minimized,  \* whether Hypothesis takes its failure for already shrunk
    differing,  \* the inputs that differ in this stage
    tested,     \* the inputs executed before any failure in this stage
    seen        \* every input that ever differed when executed

engine == <<primary, secondary, executions, reproduced, best, pending, minimized, tested>>
vars == <<stage, tools, pc, previous, report, received, engine, differing, seen>>

Blank == [status |-> "incomplete", processing |-> "incomplete", identity |-> None,
          witness |-> None, differences |-> None, primary |-> {}, secondary |-> {}]
Entries(r) == r.primary \cup r.secondary

Init ==
    /\ stage = "discover" /\ tools = "first" /\ pc = "cli" /\ previous = None
    /\ report = Blank /\ received = Blank
    /\ primary = {} /\ secondary = {}
    /\ executions = 0 /\ reproduced = FALSE
    /\ best = None /\ pending = {} /\ minimized = FALSE
    /\ differing = {} /\ tested = {} /\ seen = {}

-----------------------------------------------------------------------------
(* The command                                                              *)

\* The stage's report is written and the next stage of the lane begins, which
\* may be days later and with other tools.
WriteReport(r) ==
    /\ previous' = r
    /\ tools' \in {tools, "later"}
    /\ stage' = CASE stage = "discover" -> "shrink"
                  [] stage = "shrink" -> "explain"
                  [] OTHER -> "done"
    /\ pc' = IF stage = "explain" THEN "done" ELSE "cli"

Resting == <<report, received, engine, differing, seen>>

\* What stands without a word of the worker: the finding the stage was given, or a
\* blank report.
Initial == IF previous = None THEN Blank ELSE [previous EXCEPT !.processing = "incomplete"]

\* No model was acquired and the inputs are fixed: there is nothing to run, whatever
\* the lane has found. "unsupported" stands for "acquisition_error" too; both come
\* without a processing entry.
NotAcquired ==
    /\ pc = "cli"
    /\ WriteReport([Blank EXCEPT !.status = "unsupported", !.processing = "absent"])
    /\ UNCHANGED Resting

\* Only a mismatch is processed further.
NotApplicable ==
    /\ pc = "cli" /\ previous # None /\ previous.status # "mismatch"
    /\ WriteReport([Blank EXCEPT !.status = "not_applicable",
                                 !.processing = "not_applicable"])
    /\ UNCHANGED Resting

\* A mismatch without saved entries is passed on with its witness.
PassOn ==
    /\ pc = "cli" /\ previous # None /\ previous.status = "mismatch"
    /\ Entries(previous) = {}
    /\ WriteReport(Initial)
    /\ UNCHANGED Resting

Phases == CASE stage = "discover" -> {"generate"}
            [] stage = "shrink" -> {"reuse", "shrink"}
            [] stage = "explain" -> {"reuse", "shrink", "explain"}

\* Mutant of FetchPrimary: the database answers for the key as it stands.
FetchPrimaryAsSaved == primary

\* _ReplayDatabase.fetch when resuming: nothing under the key itself, what
\* Hypothesis calls primary; the entries of both keys as its secondary corpus.
FetchPrimary == IF stage = "discover" THEN primary ELSE {}
FetchSecondary == IF stage = "discover" THEN secondary ELSE secondary \cup primary

\* Mutant of Resumed: a resumed stage starts from a blank status.
ResumedBlank == [Blank EXCEPT !.identity = tools,
                              !.witness = previous.witness,
                              !.differences = previous.differences]

\* What fuzz starts from: the previous mismatch, witness and entries.
Resumed == [Blank EXCEPT !.status = "mismatch", !.identity = tools,
                         !.witness = previous.witness,
                         !.differences = previous.differences]

\* publish: the report with the database as it stands.
Message(r, p, s) == [r EXCEPT !.primary = p, !.secondary = s]

\* run_bounded starts fuzz, whose first message it may read or miss.
Start ==
    /\ pc = "cli"
    /\ previous # None => previous.status = "mismatch" /\ Entries(previous) # {}
    /\ previous # None => previous.identity = tools
    /\ UNCHANGED <<stage, tools, previous, seen>>
    /\ primary' = IF previous = None THEN {} ELSE previous.primary
    /\ secondary' = IF previous = None THEN {} ELSE previous.secondary
    /\ report' = IF previous = None THEN [Blank EXCEPT !.identity = tools] ELSE Resumed
    /\ received' \in {Initial, Message(report', primary', secondary')}
    /\ executions' = 0 /\ reproduced' = FALSE /\ best' = None /\ minimized' = FALSE
    /\ tested' = {}
    /\ pc' = IF previous = None THEN "generate" ELSE "reuse"
    /\ pending' = IF previous = None THEN {}
                  ELSE (FetchPrimary \cup FetchSecondary)'
    /\ differing' \in SUBSET Inputs

\* A checkpoint of another model, strategy or Hypothesis, or of a campaign,
\* whose identity also names its prepared models: the worker raises and the
\* runner keeps the finding it was given.
RefuseCheckpoint ==
    /\ pc = "cli" /\ previous # None
    /\ previous.status = "mismatch" /\ Entries(previous) # {}
    /\ previous.identity # tools
    /\ WriteReport(Initial)
    /\ UNCHANGED Resting

\* The command's own discovery is a campaign.  It keeps its first disagreement
\* without raising.  Only an input that raises is saved, which need not have
\* differed; the campaign then ends in an error or, where the replay of that
\* input exceeds the budget, with any status, but is never complete.
CampaignDiscovers ==
    /\ pc = "cli" /\ stage = "discover"
    /\ \E s \in {"pass", "incomplete", "mismatch"}, w \in Inputs \cup {None},
          p \in SUBSET Inputs, done \in {"complete", "incomplete"} :
       /\ s = "mismatch" => w # None
       /\ s = "pass" => w = None
       /\ p # {} => done = "incomplete"
       /\ WriteReport([Blank EXCEPT !.identity = "campaign", !.status = s,
             !.processing = done, !.primary = p, !.witness = w, !.differences = w])
       /\ seen' = IF w # None THEN seen \cup {w} ELSE seen
    /\ UNCHANGED <<report, received, engine, differing>>

-----------------------------------------------------------------------------
(* fuzz                                                                     *)

Running == pc \in {"generate", "reuse", "shrink", "explain", "final"}

\* What is published is read by run_bounded now, or not before it is cut off.
Publish(messages) == received' \in {received} \cup messages

\* Mutants of Keep: the differences are always the latest; the latest wins.
KeepDifferences(x) ==
    LET better == report.witness = None \/ Rank[x] < Rank[report.witness]
    IN [report EXCEPT !.status = "mismatch",
                      !.witness = IF better THEN x ELSE report.witness,
                      !.differences = x]
KeepLatest(x) ==
    [report EXCEPT !.status = "mismatch", !.witness = x, !.differences = x]

\* Mutant of Keep: the witness is kept and the status filled in at the end.
KeepUnnamed(x) == [report EXCEPT !.witness = x, !.differences = x]

\* agrees on a differing input: the lexicographically least witness of the
\* report is kept with its differences.
Keep(x) ==
    LET better == report.witness = None \/ Rank[x] < Rank[report.witness]
    IN [report EXCEPT !.status = "mismatch",
                      !.witness = IF better THEN x ELSE report.witness,
                      !.differences = IF better THEN x ELSE report.differences]

\* Executing an input within the budget.  Hypothesis saves a failure that is
\* simpler than its own, after it has moved that one to the secondary key; an
\* entry that no longer fails is deleted.  Every edit publishes.
Test(x) ==
    /\ executions < MaxExecutions
    /\ executions' = executions + 1
    /\ tested' = IF best = None THEN tested \cup {x} ELSE tested
    /\ IF x \in differing
       THEN /\ report' = Keep(x)
            /\ seen' = seen \cup {x}
            /\ reproduced' = TRUE
            /\ IF best = None \/ x < best
               THEN /\ best' = x
                    /\ minimized' = (best = None /\ pc = "reuse" /\ x \in FetchPrimary)
                    /\ secondary' = IF best = None THEN secondary
                                    ELSE secondary \cup {best}
                    /\ primary' = (primary \ {best}) \cup {x}
                    /\ Publish({Message(report, primary, secondary),
                                Message(report', primary, secondary),
                                Message(report', primary \ {best}, secondary),
                                Message(report', primary \ {best}, secondary'),
                                Message(report', primary', secondary')})
               ELSE /\ UNCHANGED <<best, minimized, primary, secondary>>
                    /\ Publish({Message(report', primary, secondary)})
       ELSE /\ primary' = IF x \in pending THEN primary \ {x} ELSE primary
            /\ secondary' = IF x \in pending THEN secondary \ {x} ELSE secondary
            /\ Publish({Message(report, primary, secondary),
                        Message(report, primary', secondary')})
            /\ UNCHANGED <<report, seen, reproduced, best, minimized>>

Generate ==
    /\ pc = "generate" /\ best = None
    /\ \E x \in Inputs : Test(x)
    /\ pc' = IF best' # None THEN "final" ELSE pc
    /\ UNCHANGED <<stage, tools, previous, pending, differing>>

\* The saved entries, simplest first, until one fails again.
Replay ==
    /\ pc = "reuse" /\ best = None
    /\ \E x \in pending :
       /\ \A y \in pending : x <= y
       /\ Test(x)
       /\ pending' = pending \ {x}
    /\ pc' = IF best' = None THEN pc ELSE IF minimized' THEN "final" ELSE "shrink"
    /\ UNCHANGED <<stage, tools, previous, differing>>

\* fuzz returns: its last report is published like the others before it, and
\* then sent once more as the result of the call.
Returns(r) ==
    /\ report' = r
    /\ Publish({Message(report, primary, secondary), r})
    /\ pc' = "returned"
    /\ UNCHANGED <<stage, tools, previous, engine, differing, seen>>

\* Where no saved entry fails, a stage that does not generate ends as it began.
ReplayFails ==
    /\ pc = "reuse" /\ pending = {} /\ best = None
    /\ "generate" \notin Phases
    /\ Returns(Message(report, primary, secondary))

Shrink ==
    /\ pc = "shrink"
    /\ \/ /\ \E x \in Inputs : x < best /\ Test(x)
          /\ UNCHANGED pc
       \/ /\ pc' = IF "explain" \in Phases THEN "explain" ELSE "final"
          /\ UNCHANGED <<report, received, primary, secondary, executions, reproduced,
                         best, minimized, tested, seen>>
    /\ UNCHANGED <<stage, tools, previous, pending, differing>>

\* Probes that vary parts of the minimal failure, larger ones too.
Explain ==
    /\ pc = "explain"
    /\ \/ /\ \E x \in Inputs : Test(x)
          /\ UNCHANGED pc
       \/ /\ pc' = "final"
          /\ UNCHANGED <<report, received, primary, secondary, executions, reproduced,
                         best, minimized, tested, seen>>
    /\ UNCHANGED <<stage, tools, previous, pending, differing>>

\* Hypothesis replays its failure and lets it escape: that input, not the
\* incumbent, is the witness of a completed stage.
Conclude ==
    /\ pc = "final" /\ executions < MaxExecutions
    /\ Returns([Message(report, primary, secondary) EXCEPT
                   !.processing = "complete", !.witness = best, !.differences = best])

\* Generation found nothing: the pass of a discovery.
Pass ==
    /\ pc = "generate" /\ best = None
    /\ Returns([Message(report, primary, secondary) EXCEPT
                   !.processing = "complete", !.status = "pass"])

\* _ExecutionBudget ends the stage with what is in the report.
BudgetExhausted ==
    /\ Running /\ executions = MaxExecutions
    /\ Returns(Message(report, primary, secondary))

-----------------------------------------------------------------------------
(* The end of the call                                                      *)

Called == Running \/ pc = "returned"

\* run_bounded reads the result.
Complete ==
    /\ pc = "returned"
    /\ WriteReport(report)
    /\ UNCHANGED Resting

\* The runner's time is over, or the worker failed or died: the last message it
\* read, fuzz's last report included, as an incomplete one.
CutOff ==
    /\ Called
    /\ WriteReport([received EXCEPT !.processing = "incomplete"])
    /\ UNCHANGED Resting

Next ==
    \/ NotAcquired \/ NotApplicable \/ PassOn
    \/ Start \/ RefuseCheckpoint \/ CampaignDiscovers
    \/ Generate \/ Replay \/ ReplayFails \/ Shrink \/ Explain
    \/ Conclude \/ Pass \/ BudgetExhausted \/ Complete \/ CutOff

Spec == Init /\ [][Next]_vars
-----------------------------------------------------------------------------
(* Properties                                                               *)

TypeOK ==
    /\ stage \in {"discover", "shrink", "explain", "done"}
    /\ tools \in {"first", "later"}
    /\ pc \in {"cli", "generate", "reuse", "shrink", "explain", "final", "returned",
              "done"}
    /\ previous \in Report \cup {None}
    /\ report \in Report /\ received \in Report
    /\ primary \subseteq Inputs /\ secondary \subseteq Inputs
    /\ executions \in 0 .. MaxExecutions
    /\ reproduced \in BOOLEAN /\ minimized \in BOOLEAN
    /\ best \in Inputs \cup {None}
    /\ pending \subseteq Inputs /\ differing \subseteq Inputs
    /\ tested \subseteq Inputs /\ seen \subseteq Inputs

\* A mismatch that one stage wrote is a mismatch with a witness in whatever the
\* next stage writes, wherever it is cut off, refuses the checkpoint, finds
\* nothing to resume or fails to reproduce ("Failures survive independent,
\* bounded discovery and processing actions", fuzz_stages_test.py:4).  Only the
\* command for an instruction without any model to run, which does not look at
\* the previous report, replaces it.
MismatchSurvives ==
    [][previous # None /\ previous.status = "mismatch" =>
         \/ previous'.status = "mismatch" /\ previous'.witness # None
         \/ previous'.status = "unsupported"]_previous

\* The witness of every message and report was executed and differed, and the
\* differences beside it are its own; every entry that a stage may resume from was
\* a failure when it was saved (a campaign's checkpoint is never resumed from).
WitnessIsGenuine ==
    \A r \in {received} \cup (IF previous = None THEN {} ELSE {previous}) :
        /\ r.witness # None => r.witness \in seen
        /\ r.differences = r.witness
        /\ r.status = "mismatch" /\ r.identity # "campaign" => Entries(r) \subseteq seen

\* No saved entry that still fails is simpler.
Simplest(w) == \A x \in Entries(previous) \cap differing : w <= x

\* Processing never makes a finding worse: a completed stage leaves a witness that
\* is no less simple than any saved entry that still fails.  So does a stage that
\* was interrupted when its last report was told already; any other interrupted
\* stage leaves a witness that is no larger than the one it was given.
WitnessOnlyImproves ==
    [][previous # None /\ previous.status = "mismatch" =>
         /\ previous'.processing = "incomplete" =>
              Rank[previous'.witness] <= Rank[previous.witness] \/ Simplest(previous'.witness)
         /\ previous'.processing = "complete" => Simplest(previous'.witness)]_previous

\* A stage that resumes first replays what its own tools saved and nothing
\* else; where a failure came back it is shrunk, and where none did the stage
\* stays incomplete.
ResumeOnlyReplays ==
    Called /\ stage # "discover" =>
        /\ tested \subseteq Entries(previous)
        /\ previous.identity = tools
        /\ pc = "final" \/ report.processing = "complete" => best # None /\ ~minimized

-----------------------------------------------------------------------------
(* What a stage tells its supervisor.                                        *)

\* The report of the call of fuzz under way, or the one the last stage wrote, as
\* FuzzReports tells reports apart.
Told(r) == [status |-> r.status, found |-> r.witness # None, processing |-> r.processing]
Said == Told(IF Called \/ previous = None THEN report ELSE previous)
Discovery == INSTANCE FuzzReports WITH mode <- "model", said <- Said, over <- ~Running
Resumption == INSTANCE FuzzReports WITH mode <- "resume", said <- Said, over <- ~Running

\* The first report of a call, its further reports and the one it returns.  Where the call
\* is cut off, what is written is a report that it told, the last one included, and is
\* marked as incomplete.
CallStep ==
    /\ Start => IF stage = "discover" THEN Discovery!Init' ELSE Resumption!Init'
    /\ Called =>
          \/ IF stage = "discover" THEN [Discovery!Next]_<<Said, Running>>
                                   ELSE [Resumption!Next]_<<Said, Running>>
          \/ /\ CutOff
             /\ \E f \in BOOLEAN : /\ f => Said.found
                                   /\ Told(received) \in {Said, Resumption!Progress(f)}
             /\ Said' = [Told(received) EXCEPT !.processing = "incomplete"]

\* A stage of one model is a call of fuzz as FuzzRunner takes it for granted: it begins
\* with a blank report or with the mismatch it resumes, every report it tells keeps
\* the finding under the status "mismatch", and it ends with a report that only
\* then may be complete or a pass.
CallsTellReports == [][CallStep]_vars
=============================================================================
