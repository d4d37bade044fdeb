# A verification project for ixyk

ixyk acquires models of x86-64 instructions from angr, generalizes them by
anti-unification, and validates them differentially against Unicorn. This
directory holds TLA+ modules for the program's own logic: the recording of evidence, the
supervision of fuzzing, the campaign and the lane of stages, the acquisition, and the
algebra from the lifter's statements to a template that is instantiated. TLC checks
small instances; TLAPS proves the safety of the five stateful modules, and that a
constructor's structural cases and rows suffice to recover a template, for every instance.

## The system

| part | state it keeps | operations | talks to |
|---|---|---|---|
| evidence recorder (`evidence_recording.py`) | bounded queue, sequence, error, closed; the process's collector switch | `emit`, `capture`, `sample_complete`, `close`; the writer thread `_consume` | producer thread, adapter |
| evidence framing (`evidence.py`) | adapter sequence, failed flag, output | `emit`, `flush`, reading | recorder's writer; readers |
| evidence session, events (`evidence_session.py`, `evidence_events.py`) | which models were recorded | open and close a recorder; `model`, `finding` | campaign, acquisition |
| fuzz runner (`fuzz_runner.py`) | report, deadline, child process, pipe | `run_bounded`, `_worker`, its signal handler | the fuzzer in the child |
| fuzzer (`fuzzer.py`) | report, executions, replay database | `fuzz`, `_input_state`, `emulate`, `CompiledModel.differences` | Hypothesis, campaign, Unicorn |
| campaign (`fuzz_campaign.py`) | prepared models, tallies, allocations, first disagreement, current model | `prepare`, `select`, `bind`, `compare`, `summary` | fuzzer, recorder |
| CLI stages (`fuzz_cli.py`) | the report handed from stage to stage | discover, shrink, explain | runner |
| acquisition (`acquire_cli.py`, `extractor.py`, `prepared_cases.py`) | retained models, caches, findings | `main`, `extract`, `prepare_catalog` | angr, XED, anti-unification |
| extraction (`extractor.py`, `amd64_state.py`, `typed_z3.py`) | symbolic registers, memory, reads, writes, exits | the memory hooks, `_extract_concrete` | angr |
| inputs (`constructor_inputs.py`, `au_inputs.py`, `operand_slots.py`) | none | domains, structural cases, separating rows | XED |
| algebra (`antiunification/`, `model_syntax.py`, `normalization.py`, `concrete_eval.py`) | none | pure functions on terms | |

The rest - the JSON and Lean forms of an artifact, the wrappers of angr, Unicorn and
XED, the build - is data conversion or lies outside the program; `PROJECT.json` lists
every part with its status.

How they interact: `fuzz_cli` starts `run_bounded`, which runs `fuzz` in a child and
reads its messages; `fuzz` runs one model against its replay database or, with
`continue_on_findings`, a `Campaign`, which gets its models from an acquisition or from
`prepare_catalog` and records each sample in the recorder. `acquire_cli` calls `extract`
for the request and `prepare_catalog` for every constructor; both extract single
encodings and generalize rows of them.

What is hard: two threads and a signal handler share the recorder; a parent, a
child, a pipe, a clock and the user's Ctrl-C share a fuzz action; in the campaign
one thread's control bounces between `fuzz`, the Hypothesis engine (which may
reject, stop and replay) and callbacks that stream reports and record evidence,
and an exception may strike between any two of them; the stages of a lane may be cut
anywhere and continued with other tools; an acquisition's failures are cached and shared;
and a model is only as good as the order in which overlapping loads and stores, lifter
scratch, exits and the choice of separating inputs are put together.

What makes each part correct:

- recorder: nothing accepted is lost, reordered or renamed without an exception
  the producer sees; every call ends; nothing follows a torn frame.
- runner: it ends and leaves no process behind, whatever the child does; what it
  received it keeps; a complete report stands for evidence in the file.
- campaign: every execution is accounted for in the report and in the evidence;
  every record names the right record; the budget is shared as announced; the
  witness is the first disagreement.
- stages: a mismatch and a genuine witness survive every later stage that has a model
  to run; a resumed stage replays only what was saved.
- acquisition: every model acquired is retained, what is missing is explained by a
  finding, nothing is generalized from a part.
- extraction: the model predicts a concrete execution from every input; normalizing
  it changes nothing.
- templates: an instance is the model that extracting the encoding would give; cases
  partition the assignments; what parameters explain is generalized.

## The modules

| module | what it models |
|---|---|
| `EvidenceLog` | what a recorder promises: submissions are stored in order, a clean end means all are stored, a failed end stores no more than was submitted |
| `EvidenceRecorder` | `BackgroundRecorder` with its writer thread and `EvidenceAdapter`; implements `EvidenceLog` |
| `FuzzReports` | what one call of `fuzz()` tells its caller: reports that keep every finding, and one last that it returns |
| `FuzzRunner` | `run_bounded` and `_worker` as two processes with a pipe, signals and a deadline |
| `FuzzCampaign` | `fuzz()` with `continue_on_findings`, and `Campaign` |
| `FuzzStages` | one lane: `fuzz_cli.main` for its three stages, `fuzz()` for one model with its replay database |
| `Acquisition` | `acquire_cli.main` with `extract` and `prepare_catalog` |
| `TypedTerms` | typed terms, their conversion from the solver, `concrete_eval.py`, `normalization.py` |
| `SymbolicStep` (extends it) | `_extract_concrete` and the hooks on memory |
| `ModelComparison` (extends that) | `_input_state`, `emulate`, `CompiledModel.differences` |
| `ConstructorInputs` | register domains, structural cases, representatives, separating rows and candidates |
| `Patterns` | `antiunify_many` and `instantiate`, one layer of syntax at a time |
| `AntiUnification` (extends it and `TypedTerms`) | the recursion over the layers, and `model_syntax.py` |
| `Templates` (extends it and `ConstructorInputs`) | generalization and instantiation on the request's and the prepared route |
| `...Proofs` | the inductive invariant of the module of that name and the theorems about it |
| `TemplateProofs` | structural cases, rows and patterns: `ConstructorInputs` with `Patterns` |
| `CampaignEvidenceProofs`, `CampaignBudgetProofs` | what a campaign records and what it executes, each on top of the one before |
| `MC...` | the instances TLC checks |

### EvidenceRecorder

The producer's position `pc` and the writer's `wpc` advance from one point where
the other thread, or an exception, can be seen to the next. `emit`,
`sample_complete` and `close` share the steps of `_put`: `check`, `put` (the
`put_nowait`), `blocked` and `timed` (the retry loop), `verify` (the final
`_check`). The identifier is fixed at `Emit` and the sequence advanced only at
`Advance`, after the put. The writer takes an item (`Get`), encodes it, writes it
- `BeginWrite` sets `_failed`, which only a completed write resets - compares the
identifiers, and dies with `error` set in a step of its own. A write may raise or
stop inside a frame (`torn`). A record is its number and its context; payload,
timestamps and metrics are left out. The markers `_FLUSH` and `_STOP` carry, in
the model only, how many records were submitted before them, so that the flush
property can be stated.

`Interrupt` is the `KeyboardInterrupt` of the worker's handler, which strikes once,
between any two steps; a caller that is interrupted does not emit again but
unwinds to `close`. The writer is a daemon thread: while a call is under way or may come
it is scheduled, and when `close` has ended, interrupted or not, it may go on or be
killed with the process. So `RecordsResolve` promises a record nothing after a close that
failed; a close that returned has stored it (`CleanCloseStoresAll`).

### FuzzRunner

`mode` tells how the action was asked for: a recorded campaign, a campaign, one
model, or a resumed failure. The parent polls, receives, and tears down (`grace`,
`wait`, `final` are the three waits of the `finally`). The child boots, fuzzes,
sends, drains and exits; it may fail or crash at any point and is never assumed to
go on. What `fuzz()` reports is what `FuzzReports` allows (`said` is its last report,
`over` that it has returned one); a report that is to be returned is streamed like the
others before the worker drains the recorder, completes it and sends it once more. A message becomes readable when it is whole: `BeginSend` and `FinishSend`
are the two ends of a write, so that a child can die in the middle. `handler` is
the disposition of each signal, `pending` what was sent and not delivered. Of a
report only its status, whether it retains a disagreement, and its processing are
kept.

### FuzzCampaign

`prepare` takes the cases of a catalog (`plan`) one after the other: `Observe` records
the model of an encoding and keeps its identifier in `observed`; `Generalize` makes a
template whose observations are all comparable one generalized model; otherwise
`FallBack` chooses which of them are `comparable`, and `Keep` keeps those one by one,
each encoding once in the campaign. Without `vary_encodings` the instruction may
generalize and replace what was acquired (`PrepareGeneralized`). The user's Ctrl-C can
strike in between. `RunCase` starts a Hypothesis run with its share of the budget,
`Begin` is the head of the test function (`select`, `bind`, the count, the first
publish), `CaptureInput`, `Judge` and `Conclude` are `compare` cut at the places
where an exception can leave it. `Fail` is such an exception: Hypothesis, with only
its generate phase, replays the example once, and whatever the replay raises
leaves `fuzz`; a replay that does not raise is flaky, which raises too.
`StopAtLimit` is `_ExecutionBudget`, a `BaseException`
that Hypothesis lets through. `records` is the evidence in order; a record's
identifier is its position. The model of the engine comes from how `run_case` uses
it and is external; so are the pipe, the clock and process deaths in `FuzzRunner`.

The reports of `FuzzCampaign` are the messages of `FuzzRunner`. `FuzzReports` is the
contract between the two: `FuzzRunner` assumes it of the child, and `ReportsAreTold`
says that a campaign keeps it - no report takes a finding back, every status names what
the report retains, and nothing is told after the report that is returned.

### FuzzStages

The lane's only memory between stages is the report the last one wrote (`previous`).
A stage refuses (`NotApplicable`), passes a mismatch without entries on (`PassOn`),
writes the status of an acquisition that left it no model, without a look at what came
before (`NotAcquired`, with `--fixed-inputs` only), or
starts `fuzz`, whose replay database (`primary`, `secondary`) is part of what it
publishes; `received` is the last message `run_bounded` read, at first the finding it was
given, so a cut may be made before, between and after any two. `Returns` is the end of `fuzz`: the report
it returns is published like the others and sent once more as the result (`Complete`); a
cut between the two (`CutOff`) writes that report as an incomplete one, a pass or the
witness of a concluded stage included. An input is a number in the order in which Hypothesis finds inputs
simpler; `Rank` is the order `fuzz` itself keeps its witness by, which is another.
Between stages the tools may change, and which inputs differ may change. Hypothesis
is external: it chooses inputs, and edits the database by a delete and a save, between
which a checkpoint may lack the entry. On an interruption `report["input"]` is the last
input that differed, kept only if its rank is no larger. What a campaign
saves is an input that raised, not one that differed, and it has a disagreement and saved
entries only if an input raised on the last allowed execution, after an earlier
disagreement. Its checkpoint identity names its prepared models, so a resumed stage
refuses it (`RefuseCheckpoint`) and writes the mismatch on as incomplete. That is why
`WitnessIsGenuine` speaks of the entries of other checkpoints only.

`MismatchSurvives` holds for every stage that has a model to run; `NotAcquired` replaces a
mismatch, and the property excepts exactly that. `WitnessOnlyImproves` distinguishes two
orders: a completed stage ends on Hypothesis's best failure, which is no less simple than any
saved entry that still fails but may be larger in `fuzz`'s own order; an interrupted
stage keeps a witness no larger than the one it was given, unless the cut came after the
last report, which has Hypothesis's best.

A stage's `fuzz` is the other caller of the runner, with one model. `Said` is what the
report under way says, of the finding and of the status; `CallsTellReports` says that a
stage, too, keeps the contract `FuzzReports`, a discovery as a call in mode `model`, a
shrink or explain stage as one in mode `resume`.

### Acquisition

Sequential, but everything may fail at each attempt. `at` walks the separating inputs of
the request, `form`, `case` and `row` those of the catalog. `direct` and `failed` are
`extract`'s own memory; `cache` and `comparisons` are shared by every later case and
form. `announced` is what `on_model` was given. What the code does where one would look
twice, and the model does too: what precedes the first form, decoding and loading, is not
guarded and ends the command without a report (`PrepareFails`); a request that failed keeps its generalization from
succeeding even if all separating inputs did; the finding of that error is filed under
the stage last announced, with its key; a case all of whose keys failed earlier is
dropped with only the earlier form's finding, which is why `GapsAreExplained` accepts
one; and an unexpected error of the emulator in `comparison_available` loses the whole
report (`crashed`).

### TypedTerms, SymbolicStep, ModelComparison

A term is a record of operator, sort, name, numbers and arguments; widths are
parameters, because wrap-around, overlap and aliasing exist at any width. An instruction
is the sequence of statements the lifter makes of it (put, load, store, exit); lifter,
symbolic executor and emulator are external. Every load becomes a placeholder that
remembers the memory of its moment; stores extend a chain; a store that fits the pattern
of the lifter's scratch is dropped; exits fork successors. `Extract` resolves the
placeholders, makes guards, targets and updates, and rejects what is unsupported.
`ModelComparison` places code, operand and data in memory in the order of `_input_state`
and compares the model with the emulator, whose operators are defined a second time,
over sets of bits and by repetition, so that the evaluator is compared with something.

### ConstructorInputs, Patterns, AntiUnification, Templates

A form is a constructor of the encoder with arguments - registers, numbers, choices -
and implicit registers; a register is a place in the encoder's bank and a view of a parent.
A structural case is a part of each argument's domain (`Around` one of its values) and a
partition of the register arguments into groups of one parent; `Canonical` is its
representative, `Separating` the rows it is observed at. `Templates` runs one
generalization: the rows (on the prepared route a structural case's, observed at the
source and, for the prepared rows, at another source too; on the request's route the
separating inputs at one source), an extraction of each that may fail, anti-unification
of the exposed syntax column by column, and an instantiation at any other assignment
and source. The instance of a request is normalized, as `extract` does at its end; one of a
prepared case is what the template gives, as a campaign executes it, and agrees with the
direct model up to normalization. What extraction would give is the constant `Direct`. Names are separated,
not arbitrary semantics: `parametric` marks the forms all of whose differences come from
a parameter as such, and the code says so itself (`many.py`). `lea` with base equal to
index is such an exception: it is normalized to `(1 + scale) * index` and refused.

A tree, in `Patterns`, is a layer above its parts; the entries of a finite map, which
`SparseWrites` takes from the declarations in their order, are a set of pairs.
`Generalize1` and `Fill1` are one call of the two `visit`s with the recursive call as a
parameter; `AntiUnification` closes the recursion for TLC, and the proofs speak of any
function that satisfies the equations. Where `antiunify_many` raises, the pattern has a hole that no
parameter names, and `Generalize` refuses it. `RefusalsAreExplained` says that
nothing else is ever refused of a completely observed case: no instruction whose
differences all come from parameters, and no pattern without an unexplained hole, so the
final reconstruction of the observations never fails. Of a case, `CasesPartition` says three
things: every assignment has exactly one, the rows stay in theirs, and they tell its
registers apart (`RowsTellApart`), which is what makes the writes of two rows correspond
in one way only.

## The runs

| run | instance | result |
|---|---|---|
| `recorder` | queue of 2, 3 records, interrupts; 85 thousand states | all properties hold |
| `runner` | 3 progress reports, a pipe of 2, the four modes; 672 thousand states | all properties hold |
| `campaign` | 2 encodings, 5 catalogs, budgets and limits up to 3, one rejected draw; 841 thousand states | all properties hold |
| `acquisition` | the request, 2 separating inputs, 2 forms with 3 cases that share keys; 1.2 million states | all properties hold |
| `stages` | 3 inputs, 3 executions, two orders of the inputs; 21 thousand states | all properties hold |
| `semantics` | 3-bit words of 1-bit bytes, instructions of up to 8 statements, every register value; 12 thousand states | all properties hold |
| `templates` | 4-bit words, 5 registers with low and 3 with high halves, 12 forms; 10 thousand states | all properties hold |
| `runner_timeout` | as `runner` | a finding in the pipe is dropped at the deadline |
| `runner_status` | as `runner` | a cut-off campaign reports `incomplete` with a disagreement |
| `campaign_pass` | as `campaign` | an exception on the last execution ends in `pass` |
| `high_byte` | as `templates`, moves and exchanges requested with high bytes | the request is instantiated with low bytes |

The four violations are disagreements between the code and what the repository says
of it; `PROJECT.json` quotes both under "findings".

What the passing runs show: `recorder`, every interleaving of producer, writer and
signal keeps the stream an honest prefix, and the recorder implements the abstract log;
`runner`, no order of messages, deaths, signals and deadline loses what was received or
leaves a child; `campaign`, report and evidence agree however samples are drawn,
rejected, raised and replayed; `acquisition`, what was acquired is in the report and what
is missing is explained; `stages`, a finding is not lost or made worse by processing it, unless
the lane's acquisition leaves nothing to run;
`semantics`, the model predicts the emulator on every register value (an overlap of two
exits that can both be taken gives `enabled edges: 2`, which the program reports as
unusable, and is the only exception), and normalization preserves every field; `templates`,
an accepted template gives the direct model of every other assignment, up to
normalization.

Deadlock checking is off in all of them: a closed recorder, a returned
`run_bounded`, a finished campaign, lane, acquisition, extraction or template stop for
good, and a program may never call the recorder again. That calls end is stated as
`CallsReturn`, `RecordsResolve` and `RunEnds` instead.

Bounds. Two slots and three records let the queue fill, block, drain and fill
again, with a marker between records; the proofs remove the bound. Three progress
reports against a pipe of two let the child block, and let a report be followed by
another that must not lose its finding. A campaign over at most two or three
models with budgets from 1 to 3 has shares of zero, equal shares and remainders,
limits below, at and above the examples, and room for a disagreement before and
after other outcomes. The catalogs hold an empty one, one that generalizes, one
that does not, a mixture that shares encodings, and one with an encoding twice;
comparability is chosen freely for each encoding. Three keys in three cases of two forms
give a key shared by two cases of a form, one shared by two forms, and one that is also
a separating input. Three inputs whose two orders differ let a simpler witness be a
larger one. At three bits a word, every pair of register values, all eight addresses, an
instruction that wraps around the end of memory and operands that overlap it are
enumerated; flags vary where an instruction looks at them. A template needs one
register more than the groups it separates, so five are used for the largest case;
four bits hold an immediate seeded 1 and 2 with its sign.

Fairness. Recorder: both threads are scheduled and file operations return or raise
(`WF` on the steps of a call under way, and on the writer until a close has ended, for it
is a daemon thread); nothing makes the program call. Runner: time passes, the parent runs, `SIGKILL` is delivered, and a write into a
pipe whose reader is waiting finishes; the child is otherwise under no obligation,
which is why `RunEnds` rests on the kill. The other modules are sequential programs whose
loops are bounded by their inputs; no liveness is stated of them.

Each property of a passing run has a mutant, an operator next to the definition it
replaces ("Mutant of ..."), with a bug that TLC finds with that property.

## The proofs

Eight modules of theorems. Seven are an induction over the steps of one specification,
three of them over the campaign's; the eighth is about structural cases and patterns,
which have no steps. In each induction the inductive invariant (`IInv`, `EInv`, `BInv`) is a
conjunction of named parts; one lemma per action, or per group of actions with the same
frame, shows which parts it can disturb. The only assumptions are the named ones on the
constants.

`EvidenceRecorderProofs`, for every `Capacity > 0`, every `MaxEmits` and both
values of `Interruptible` (`ConstantsAssumption`):

- `TypeCorrect`, the types of its state, which only the proof states, and
  `PrefixSafety`, `CleanCloseSafety`, `ContextSafety`, `FlushSafety`,
  `CollectorSafety`: the invariants of the run `recorder`;
- `TornSafety`: the action property `TornIsLast`;
- `Refinement`: `Spec => LogSpec`, the recorder implements `EvidenceLog` with the
  stream's contexts as what is stored.

None of the invariants is inductive by itself: that the stream is a prefix of what
was accepted depends on what is still in the queue, and that depends on what the
producer is about to put. `IInv` adds this chain link by link: `QueueOrder` says that
neighbours in the queue carry consecutive numbers, that the oldest item is the one
the writer expects and the newest the last one accepted; `StopIsLast` that nothing
is behind a stop marker; `WriterInv` and `ProducerInv` what each position implies about
the item in hand; `CloseInv` how a close can have ended; `ContextInv` that a context
names an earlier identifier. No conjunct counts the records of the queue, so no
induction over data is needed. `PutStep`, `GetStep` and `FinishWriteStep` are the
three steps that move a record; `QuietStep` and `QuietWriterStep` dispose of the
rest at once.

`FuzzRunnerProofs`, for any number of progress reports and any pipe that holds one
(`RunnerAssumption`): `TypesHold`, `NoOrphanHolds`, `CompletenessIsDurable`,
`MismatchIsNamed`, `StreamedIsNotLost`, `FindingsStay` and `DrainIsProtected`, all the
safety properties of `runner`. Of the fuzzer they use no more than `FuzzReports` says
(`ChildReports`, `SaidStep`). What the parent holds depends on what is in the pipe,
and that on what the child has said: `Chain` says that findings only grow from the
parent's report through the pipe to the child's last, `Order` that a message under way is the
last one and a final one ends the child, `Retained` that what was streamed is in the
report or can still be received, `Durable` that a complete message is only composed
after the drain, `Naming` that every report on the way has its status, `Reaping` which
of the parent's positions imply a dead child, `Handlers` that one signal silences the
other.

`FuzzCampaignProofs`, for any catalog and budget (`CampaignAssumption`): `AccountHolds`,
`DisagreementsStay` and `CampaignReports`, the refinement `Spec => Reporting!Spec`: a
campaign implements `FuzzReports`, so that what is proved of the runner is proved of a
runner with this campaign in its child. Each step tells a report, returns one, or
stutters; that nothing is found in the report that opens a campaign, nor a final status
in one before the end, is `Open`. The report lags behind the tallies by a sample; `Account` says
by how much at each place, `Witnessed` that it lags in nothing else. Neither depends on
what the preparation made of the catalog.

`CampaignEvidenceProofs` adds what does: `TypesHold`, `InputsNameTheirModel`,
`SamplesStayGrouped` and `WitnessStaysFirst`. A record's identifier is its position, and
the evidence only grows, so whatever names a record keeps naming it; each action appends
at most two records, and one lemma says what an append does to the positions of each
kind. `EInv` adds to `IInv` where the campaign is in its list of models (`Shape`,
`Pending`), `Named`, that what is observed and every model that is not instantiated anew
carries the identifier of a record of its own encoding, `Announced`, that an input about
to be captured names such a record, `Captured`, that the sample being judged is the last
input, and
`Foremost`, that the witness is no later than any comparison recorded or about to be.

`CampaignBudgetProofs` adds the arithmetic: `BudgetIsKept`, `SharesStayKept` and
`EvidenceStaysComplete`. The
lemma `Division` relates quotient and remainder of the budget; `Upto(i)` is what the first
`i` runs may execute by it, and `Within` and `Course` in `BInv` bound the executions by `Upto(index)`
and what the run under way has taken. `Unique` says that an encoding is a fallback model
at most once, so that a lot in `allocations` belongs to one run, and `Allotted` what each
run has left there.

`FuzzStagesProofs`, for any inputs and ranks (`StagesAssumption`): `TypesHold`,
`WitnessesAreGenuine`, `ResumingReplays`, `MismatchesSurvive`, `WitnessesImprove`. `Lane`
relates the stage to what precedes it, `Genuine` says that whatever could become a
witness was seen to differ, `Improving` that no message of a stage under way is worse
than the report it was given, and what it has returned is as simple as any entry that still
fails or no worse, and `Resuming` that what remains to be replayed, with the
best failure so far, bounds every saved entry that still fails. `StagesTellReports` is
`CallsTellReports`: while a stage runs, its status, its finding and the engine's best
failure agree (`Naming`), so that every publication and the report returned are steps of
the contract. `FuzzRunner`'s theorems, which assume no more than that contract, thus
hold with a campaign (`CampaignReports`) and with a single model in its child.

`AcquisitionProofs`, for any keys, inputs and catalog (`KeysAssumption`): `TypesHold`,
`ModelsSurvive`, `PartsAreNotGeneralized`, `GapsHaveFindings`, `RouteFits`. `Attempts`
relates `extract`'s models and failures to what was announced, `Whole` the case at hand
to its incompleteness, `Kept` every announcement to the place where its model is kept,
`Caches` each failure in a cache to its finding, `RowsAccounted` and `Past` carry
`GapsAreExplained` through the three loops.

`TemplateProofs`, for any bank and any forms (`BankAssumption`, `FormsAssumption`: places
and choices are numbers, a range is not empty, a register has a name), goes in three parts.

Structural cases: `AssignmentsHaveOneCase`, `RowsAreInCase`, `RowsAreTold` and, from these,
`CasesArePartitioned`, which is `CasesPartition` of the run `templates` in every state. An
assignment's case is written down (`CaseOf`: the parts around its values and
its registers grouped by parent), shown to be a structural case, and shown to be equal to
any case the assignment belongs to. That a row stays in its case rests on the order of the
choices only so far as there is a first one: `LeastIsMember` gets it from the
well-foundedness of the naturals, `AscendingMembers` says that a list of places
is made of those places, by counting. `GroupChangeInCase` is the step an alias could be
lost at: a group moves to a parent that no group of the row has. `ImplicitIsAlone` and
`ChangeIsUnused` add that a group moves only away from and to registers the instruction
does not imply.

Patterns, for any syntax, any number of observations and any parameters.
`ReconstructionLaw`: the pattern of a column, filled with what its holes stood for in an
observation, is that observation, and no map gets a key twice; so the check at the end of
`antiunify_many` cannot fail where `expose` and `reconstruct` are inverse, whatever is
observed and whatever holes are left unexplained. `TemplateIsRecovered`: if the
observations are the instances of some template, the pattern of their column is that
template. Its hypotheses are what the program arranges: `Independent`, that parameters
vary, differ from each other and are atoms (`Columns` keeps only such), and
`KeysSeparate`, that a key of a map is a constant that is no parameter in the first row, or
a parameter that is the only one to begin so and that takes in some row a value that is no
key of the first. Neither can be dropped: equal columns leave their hole without a name,
and two registers that only ever change places may leave a map the same in every row.

Their composition, `CaseRecoversTemplate`: for any form and any of its structural cases,
the separating rows of that case make its keys separate (`CaseKeysSeparate`, by
`RowsTellApart`), so generalizing what the case is observed to be recovers whatever
template its instructions have. `OfCase` is what the theorem assumes of them: every row is
observed, different parents are different variables, and the template writes registers
that its arguments name or that are fixed in the case. That is what remains an
assumption on the instruction. It is not an idle one: the run `templates` checks
`Independent`, `KeysSeparate` and `OfCase` of every template that is accepted
(`TemplateIsOfCase`, a part of `TemplateInstantiates`).

The two theorems about patterns are inductions over trees without recursion: a set of
trees is `Grounded`, every set of them has a member no part of which is in the set, so a
column at which the claim fails has one below which it does not. What a tree
exposes of itself is finite, so this is no restriction. `GenStep` and `FillStep` are the
equations of one layer, `EntriesCorrespond` says that maps of one size whose keys correspond
one to one have no entries left over, `ConstantIsGround` that a part of a template which is
the same in every row has no hole, which is where a constant could be taken for a parameter.

Only model-checked: the liveness properties (`CallsReturn`, `RecordsResolve`,
`RunEnds`), which need fairness and are beyond the prover; and what is computed on terms
(`ModelAgrees`, `NormalizationPreserves`, `OperandIsStimulated`, `TemplateInstantiates`,
`RefusalsAreExplained`): their definitions are RECURSIVE operators, and what
they compute needs an induction over data. Of the last two the proofs have the part that
lies in the choice of rows and in the algebra; that the exposed syntax, the normal form and
the bindings of the twelve forms meet its hypotheses is left to TLC.

## Not modelled

- Reading evidence back, its byte layout and its JSON codec; the JSON form of an
  artifact and of a case: sequential conversion of data.
- The conversion of typed terms back to the solver, and the solver.
- angr's lifter and engine, Unicorn, XED, Hypothesis, the operating system's pipes and
  signals: external; what the program uses of them is stated where it is used.
- 32-bit address sizes and `eip`; what the program itself never sets or calls
  (`_ghot_fixed_byte_reads`, `source_rip_guard`, `require_mirrored_rip`).
- `antiunify_values`, the form for two models, and `instruction_schema.py`, which only tests
  and tools use.
- Several recorders at once, or a constructor of one that fails: a session opens one.
- `src/tools/lean_differential.py`, the Lean embedding, build and continuous
  integration: proofs or tools of their own around the program.
- The diagnostic fields of a report (signals, exit codes, messages).

What could come next: `EvidenceReader` over a stream cut at any point, composed with the
recorder's; 32-bit address sizes in `ModelComparison`.
