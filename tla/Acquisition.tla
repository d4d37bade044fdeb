---------------------------- MODULE Acquisition ----------------------------
(***************************************************************************)
(* One run of the acquisition command (extractor/acquire_cli.py main): the  *)
(* requested instruction is extracted and generalised from separating       *)
(* inputs (extractor.py extract), then every constructor case of its        *)
(* catalog is acquired (prepared_cases.py prepare_catalog) and one report    *)
(* is written.  The process is sequential; what is hard is that any of its   *)
(* acquisitions may fail, that failures are cached across cases and forms,   *)
(* and that what was acquired must outlive what failed.                      *)
(*                                                                         *)
(* A key is an encoding at an address.  Whether it can be acquired is        *)
(* decided at each attempt.                                                  *)
(***************************************************************************)
EXTENDS Naturals, Sequences, FiniteSets

CONSTANTS Keys,        \* encodings at an address
          Requested,   \* the key of the requested instruction
          Inputs,      \* the keys of instruction_inputs, in order
          Requests,    \* Requests[form][case]: the keys of the case's rows
          None         \* no error, no route, no status yet

\* Amd64AdapterError and UnsupportedTheoryError give the status "unsupported";
\* the rest of EXPECTED_ACQUISITION gives "acquisition_error".
Errors == {"unsupported", "limit"}

ASSUME KeysAssumption ==
    /\ Requested \in Keys
    /\ Inputs \in Seq(Keys)
    /\ None \notin Errors \cup {"direct", "generalized"}
    /\ Requests \in Seq(Seq(Seq(Keys)))

Forms == DOMAIN Requests
CasesOf(f) == DOMAIN Requests[f]

VARIABLES
    pc,          \* the next step of the command
    at,          \* position in Inputs
    stage,       \* the stage last announced by extract, with its key
    direct,      \* extract's own models
    failed,      \* extract's failures, oldest first: <<key, error>>
    retained,    \* requested_retained, the report's retained_models
    announced,   \* every <<key, route>> handed to on_model
    findings,    \* every finding of the report
    status,      \* the report's status
    route,       \* the report's model_route
    form, case, row,   \* prepare_catalog's three loops
    cache,       \* prepare_catalog's cache: "absent", "model" or "failed"
    observations,      \* rows of the case whose model was obtained
    incomplete,
    template,    \* whether the case was generalised
    comparisons, \* comparison_available by key: "absent", "yes" or "no"
    cases        \* the prepared cases of the report

requestVars == <<at, stage, direct, failed, retained, status, route>>
catalogVars == <<form, case, row, cache, observations, incomplete, template,
                 comparisons, cases>>
vars == <<pc, requestVars, announced, findings, catalogVars>>

Stages == {"acquisition", "extraction", "generation", "generalization"}

\* The requests of the case the loops stand at.
Rows == Requests[form][case]

Finding(name, f, c, key, error) ==
    [stage |-> name, form |-> f, case |-> c, key |-> key, error |-> error]

-----------------------------------------------------------------------------
Init ==
    /\ pc = "request" /\ at = 1
    /\ stage = <<"acquisition", Requested>>
    /\ direct = {} /\ failed = <<>> /\ retained = {}
    /\ announced = {} /\ findings = {}
    /\ status = "pass" /\ route = None
    /\ form = 1 /\ case = 1 /\ row = 1
    /\ cache = [k \in Keys |-> "absent"]
    /\ observations = {} /\ incomplete = FALSE /\ template = FALSE
    /\ comparisons = [k \in Keys |-> "absent"]
    /\ cases = {}

-----------------------------------------------------------------------------
(* extract                                                                  *)

Attempted(key) == key \in direct \/ \E i \in DOMAIN failed : failed[i][1] = key

\* acquire: one attempt per key; its model or its failure is remembered and
\* the failure is a finding.
Acquire(key) ==
    IF Attempted(key)
    THEN UNCHANGED <<stage, direct, failed, retained, announced, findings>>
    ELSE /\ stage' = <<"extraction", key>>
         /\ \/ /\ direct' = direct \cup {key}
               /\ retained' = retained \cup {key}
               /\ announced' = announced \cup {<<key, "direct">>}
               /\ UNCHANGED <<failed, findings>>
            \/ \E error \in Errors :
               /\ failed' = Append(failed, <<key, error>>)
               /\ findings' = findings
                    \cup {Finding("extraction", 0, 0, key, error)}
               /\ UNCHANGED <<direct, retained, announced>>

\* The requested encoding is acquired before anything else can fail.
AcquireRequested ==
    /\ pc = "request"
    /\ Acquire(Requested)
    /\ pc' = "generate"
    /\ UNCHANGED <<at, status, route, catalogVars>>

\* Mutant of Fail: any retained model is offered as the requested one.
FailDirect(error, where) ==
    /\ findings' = findings \cup {Finding(where[1], 0, 0, where[2], error)}
    /\ status' = IF error = "unsupported" THEN "unsupported" ELSE "acquisition_error"
    /\ route' = IF retained # {} THEN "direct" ELSE None
    /\ pc' = "form"

\* main's handler of an expected error: a finding under the last stage that
\* was announced, a failing status, and the requested model when it was kept.
\* The report's retained models are those of now.
Fail(error, where) ==
    /\ findings' = findings \cup {Finding(where[1], 0, 0, where[2], error)}
    /\ status' = IF error = "unsupported" THEN "unsupported" ELSE "acquisition_error"
    /\ route' = IF Requested \in retained THEN "direct" ELSE None
    /\ pc' = "form"

\* instruction_inputs: the separating encodings, or no such encodings.
Generate ==
    /\ pc = "generate"
    /\ stage' = <<"generation", Requested>>
    /\ \/ pc' = "input" /\ UNCHANGED <<findings, status, route>>
       \/ Fail("limit", stage')
    /\ UNCHANGED <<at, direct, failed, retained, announced, catalogVars>>

AcquireInput ==
    /\ pc = "input" /\ at <= Len(Inputs)
    /\ Acquire(Inputs[at])
    /\ at' = at + 1
    /\ UNCHANGED <<pc, status, route, catalogVars>>

Acquired == SelectSeq(Inputs, LAMBDA k : k \in direct)

\* Generalisation needs every attempt of this extraction, the requested one
\* included; with no model at all the first failure is the error.
Judge ==
    /\ pc = "input" /\ at > Len(Inputs)
    /\ \/ /\ Acquired # <<>> /\ failed = <<>>
          /\ stage' = <<"generalization", Requested>>
          /\ pc' = "generalize"
          /\ UNCHANGED <<findings, status, route>>
       \/ /\ Acquired = <<>> \/ failed # <<>>
          /\ Fail(IF Acquired = <<>> /\ failed # <<>> THEN failed[1][2] ELSE "limit",
                  stage)
          /\ UNCHANGED stage
    /\ UNCHANGED <<at, direct, failed, retained, announced, catalogVars>>

\* Bind, normalise, anti-unify and instantiate.  The normalised models are
\* announced before the parameters are checked and anti-unified.
Generalize ==
    /\ pc = "generalize"
    /\ LET normalized == {<<Inputs[i], "normalized">> : i \in DOMAIN Inputs}
       IN \/ /\ \E error \in Errors : Fail(error, stage)
             /\ announced' \in {announced, announced \cup normalized}
          \/ /\ announced' = announced \cup normalized
                               \cup {<<Requested, "generalized">>}
             /\ route' = "generalized"
             /\ pc' = "form"
             /\ UNCHANGED <<findings, status>>
    /\ UNCHANGED <<at, stage, direct, failed, retained, catalogVars>>

-----------------------------------------------------------------------------
(* prepare_catalog                                                          *)

\* The for statement over the cases of a form, and over the forms.
NextForm ==
    /\ form' = form + 1 /\ case' = 1 /\ row' = 1 /\ pc' = "form"
    /\ observations' = {} /\ incomplete' = FALSE /\ template' = FALSE
NextCase ==
    /\ case' = case + 1 /\ row' = 1 /\ pc' = "case"
    /\ observations' = {} /\ incomplete' = FALSE /\ template' = FALSE
    /\ UNCHANGED form

\* Before the first form: decoding the instruction, listing its forms and loading the
\* project are not guarded, and their failure ends the command.
PrepareFails ==
    /\ pc = "form" /\ form = 1
    /\ pc' = "crashed"
    /\ UNCHANGED <<requestVars, announced, findings, catalogVars>>

\* A form whose domains, canonical arguments or lifting fail is skipped.
PrepareForm ==
    /\ pc = "form" /\ form \in Forms
    /\ \/ /\ pc' = "case"
          /\ UNCHANGED <<findings, form, case, row, observations, incomplete, template>>
       \/ \E name \in {"generation:constructor", "extraction:constructor"} :
          \E error \in Errors :
          /\ name = "generation:constructor" => error = "limit"
          /\ findings' = findings \cup {Finding(name, form, 0, None, error)}
          /\ NextForm
    /\ UNCHANGED <<requestVars, announced, cache, comparisons, cases>>

\* A structural case without a canonical encoding is skipped.
PrepareCase ==
    /\ pc = "case" /\ case \in CasesOf(form)
    /\ \/ pc' = "row" /\ UNCHANGED <<findings, form, case, row, observations, incomplete, template>>
       \/ /\ findings' = findings
               \cup {Finding("generation:case", form, case, None, "limit")}
          /\ NextCase
    /\ UNCHANGED <<requestVars, announced, cache, comparisons, cases>>

CasesExhausted ==
    /\ pc = "case" /\ case \notin CasesOf(form)
    /\ NextForm
    /\ UNCHANGED <<requestVars, announced, findings, cache, comparisons, cases>>

\* A row that cannot be encoded leaves the case incomplete.
RowNotEncoded ==
    /\ pc = "row" /\ row \in DOMAIN Rows
    /\ incomplete' = TRUE
    /\ findings' = findings
         \cup {Finding("generation:row", form, case, Rows[row], "limit")}
    /\ row' = row + 1
    /\ UNCHANGED <<pc, requestVars, announced, form, case, cache, observations,
                   template, comparisons, cases>>

\* Mutant of ExtractKey: the failed key is cached without a finding.
ExtractKeySilently(key, outcome) ==
    /\ cache[key] = "absent"
    /\ cache' = [cache EXCEPT ![key] = outcome]
    /\ announced' = IF outcome = "model" THEN announced \cup {<<key, "direct">>}
                    ELSE announced
    /\ UNCHANGED findings

\* The first case that needs a key extracts it, for every later case and form;
\* a failure is a finding only then.
ExtractKey(key, outcome) ==
    /\ cache[key] = "absent"
    /\ cache' = [cache EXCEPT ![key] = outcome]
    /\ announced' = IF outcome = "model" THEN announced \cup {<<key, "direct">>}
                    ELSE announced
    /\ \E error \in Errors :
       findings' = IF outcome = "model" THEN findings
                   ELSE findings \cup {Finding("extraction:row", form, 0, key, error)}

AcquireRow ==
    /\ pc = "row" /\ row \in DOMAIN Rows
    /\ \E outcome \in {"model", "failed"} :
       /\ \/ ExtractKey(Rows[row], outcome)
          \/ cache[Rows[row]] = outcome /\ UNCHANGED <<cache, announced, findings>>
       /\ observations' = IF outcome = "model" THEN observations \cup {row}
                          ELSE observations
       /\ incomplete' = (incomplete \/ outcome = "failed")
    /\ row' = row + 1
    /\ UNCHANGED <<pc, requestVars, form, case, template, comparisons, cases>>

\* Mutant of RowsExhausted: an incomplete case is dropped with its observations.
RowsExhaustedDropping ==
    /\ pc = "row" /\ row \notin DOMAIN Rows
    /\ IF observations = {} \/ incomplete
       THEN NextCase
       ELSE /\ pc' = "template"
            /\ UNCHANGED <<form, case, row, observations, incomplete, template>>
    /\ UNCHANGED <<requestVars, announced, findings, cache, comparisons, cases>>

RowsExhausted ==
    /\ pc = "row" /\ row \notin DOMAIN Rows
    /\ IF observations = {}
       THEN NextCase
       ELSE /\ pc' = "template"
            /\ UNCHANGED <<form, case, row, observations, incomplete, template>>
    /\ UNCHANGED <<requestVars, announced, findings, cache, comparisons, cases>>

\* Mutant of Template: an incomplete case is generalised from what it has.
TemplateOfSome ==
    /\ pc = "template"
    /\ template' = TRUE
    /\ pc' = "compare"
    /\ UNCHANGED <<requestVars, announced, findings, form, case, row, cache,
                   observations, incomplete, comparisons, cases>>

\* An incomplete case, or one whose generalisation fails, keeps its
\* observations without a template; the finding is about the first of them.
Template ==
    /\ pc = "template"
    /\ \/ ~incomplete /\ template' = TRUE /\ UNCHANGED findings
       \/ \E first \in observations, error \in Errors :
          /\ \A i \in observations : first <= i
          /\ incomplete => error = "limit"
          /\ findings' = findings \cup {Finding("generalization:constructor",
                                               form, 0, Rows[first], error)}
          /\ UNCHANGED template
    /\ pc' = "compare"
    /\ UNCHANGED <<requestVars, announced, form, case, row, cache, observations,
                   incomplete, comparisons, cases>>

\* comparison_available, once per key: a CPU exception is an outcome, another
\* emulator error a finding, and anything else ends the command.
Compare ==
    /\ pc = "compare"
    /\ \E i \in observations :
       /\ comparisons[Rows[i]] = "absent"
       /\ \A j \in observations : j < i => comparisons[Rows[j]] # "absent"
       /\ \/ /\ comparisons' = [comparisons EXCEPT ![Rows[i]] = "yes"]
             /\ UNCHANGED <<pc, findings>>
          \/ /\ comparisons' = [comparisons EXCEPT ![Rows[i]] = "no"]
             /\ findings' = findings
                  \cup {Finding("comparison", 0, 0, Rows[i], "limit")}
             /\ UNCHANGED pc
          \/ pc' = "crashed" /\ UNCHANGED <<comparisons, findings>>
    /\ UNCHANGED <<requestVars, announced, form, case, row, cache, observations,
                   incomplete, template, cases>>

\* The case is appended with what its observations can be compared on.
AppendCase ==
    /\ pc = "compare"
    /\ \A i \in observations : comparisons[Rows[i]] # "absent"
    /\ cases' = cases \cup
         {[form |-> form, case |-> case, rows |-> observations,
           template |-> template,
           comparable |-> {i \in observations : comparisons[Rows[i]] = "yes"}]}
    /\ NextCase
    /\ UNCHANGED <<requestVars, announced, findings, cache, comparisons>>

\* main writes the model and the report.
Write ==
    /\ pc = "form" /\ form \notin Forms
    /\ pc' = "written"
    /\ UNCHANGED <<requestVars, announced, findings, catalogVars>>

Next ==
    \/ AcquireRequested \/ Generate \/ AcquireInput \/ Judge \/ Generalize
    \/ PrepareFails \/ PrepareForm \/ PrepareCase \/ CasesExhausted
    \/ RowNotEncoded \/ AcquireRow \/ RowsExhausted
    \/ Template \/ Compare \/ AppendCase \/ Write

Spec == Init /\ [][Next]_vars
-----------------------------------------------------------------------------
(* Properties                                                               *)

FindingNames == Stages \cup
    {"generation:constructor", "extraction:constructor", "generation:case",
     "generation:row", "extraction:row", "generalization:constructor", "comparison"}
Done == pc = "written"
Extracted == pc \notin {"request", "generate", "input", "generalize"}
RowsOf(c) == Requests[c.form][c.case]

TypeOK ==
    /\ pc \in {"request", "generate", "input", "generalize", "form", "case",
               "row", "template", "compare", "written", "crashed"}
    /\ at \in 1 .. Len(Inputs) + 1
    /\ stage \in Stages \X Keys
    /\ direct \subseteq Keys /\ retained \subseteq Keys
    /\ failed \in Seq(Keys \X Errors)
    /\ announced \subseteq Keys \X {"direct", "normalized", "generalized"}
    /\ findings \subseteq [stage : FindingNames, form : Nat, case : Nat,
                           key : Keys \cup {None}, error : Errors]
    /\ status \in {"pass", "unsupported", "acquisition_error"}
    /\ route \in {None, "direct", "generalized"}
    /\ form \in Nat /\ case \in Nat /\ row \in Nat
    /\ cache \in [Keys -> {"absent", "model", "failed"}]
    /\ observations \subseteq Nat
    /\ incomplete \in BOOLEAN /\ template \in BOOLEAN
    /\ comparisons \in [Keys -> {"absent", "yes", "no"}]
    /\ cases \subseteq [form : Nat, case : Nat, rows : SUBSET Nat,
                        template : BOOLEAN, comparable : SUBSET Nat]

\* Every model that was ever acquired is in the report, whatever failed before
\* or after it: among the retained models of the request, or among the
\* observations of a prepared case ("retain models independently of AU
\* success", prepared_cases.py:3).
DirectModelsSurvive ==
    Done => \A key \in Keys :
        <<key, "direct">> \in announced =>
            \/ key \in retained
            \/ \E c \in cases : \E i \in c.rows : RowsOf(c)[i] = key

\* Nothing is generalised from part of what it was to be generalised from: a
\* template only where every row of its case has its model, through the cache
\* shared with other cases too, and a generalised request only when neither
\* the request nor any separating input failed.
OnlyCompleteSetsGeneralize ==
    /\ \A c \in cases : c.template => c.rows = DOMAIN RowsOf(c)
    /\ route = "generalized" =>
         {Requested} \cup {Inputs[i] : i \in DOMAIN Inputs} \subseteq direct

\* What the report lacks it explains.  A form without cases, a case without a
\* row, a case without a template and a row that is not comparable each have a
\* finding; the finding about a key that failed once stands for every later
\* case and form that asks the cache for it.
Has(name, f, c, key) ==
    \E x \in findings : x.stage = name /\ x.form = f /\ x.case = c /\ x.key = key
RowExplained(f, c, i) ==
    \/ Has("generation:row", f, c, Requests[f][c][i])
    \/ \E g \in Forms : Has("extraction:row", g, 0, Requests[f][c][i])
GapsAreExplained ==
    Done => \A f \in Forms :
        \/ Has("generation:constructor", f, 0, None)
        \/ Has("extraction:constructor", f, 0, None)
        \/ \A c \in CasesOf(f) :
             \/ Has("generation:case", f, c, None)
             \/ \A i \in DOMAIN Requests[f][c] : RowExplained(f, c, i)
             \/ \E x \in cases :
                /\ x.form = f /\ x.case = c
                /\ \A i \in DOMAIN RowsOf(x) \ x.rows : RowExplained(f, c, i)
                /\ \A i \in x.rows \ x.comparable :
                      Has("comparison", 0, 0, RowsOf(x)[i])
                /\ ~x.template =>
                      \E i \in x.rows :
                         Has("generalization:constructor", f, 0, RowsOf(x)[i])

\* The status, the route and the retained models of a report agree: passing is
\* being generalised; a failure is a finding under one of extract's stages and
\* still offers the requested model exactly when it was acquired.
RouteMatchesStatus ==
    Extracted =>
        /\ status = "pass" <=> route = "generalized"
        /\ status # "pass" =>
             /\ \E x \in findings : x.stage \in Stages /\ x.form = 0
             /\ route = "direct" <=> Requested \in retained
=============================================================================
