---------------------------- MODULE FuzzStagesProofs ----------------------------
(* Proofs, for every set of inputs, every order of their scalars and every budget, *)
(* of what a finding goes through in its lane.                                     *)
EXTENDS FuzzStages, TLAPS

--------------------------------------------------------------------------------
(* Reports and messages.                                                           *)

\* A message is a report that differs in its database only.
LEMMA MessageFields ==
    ASSUME NEW r \in Report, NEW p \in SUBSET Inputs, NEW s \in SUBSET Inputs
    PROVE  /\ Message(r, p, s) \in Report
           /\ Message(r, p, s).status = r.status
           /\ Message(r, p, s).processing = r.processing
           /\ Message(r, p, s).identity = r.identity
           /\ Message(r, p, s).witness = r.witness
           /\ Message(r, p, s).differences = r.differences
           /\ Entries(Message(r, p, s)) = p \cup s
BY DEF Message, Report, Entries

\* The report fuzz starts with.
LEMMA BlankFields ==
    /\ Blank \in Report /\ Blank.status = "incomplete" /\ Blank.processing = "incomplete"
    /\ Blank.witness = None /\ Blank.differences = None /\ Entries(Blank) = {}
BY DEF Blank, Report, Entries

\* The report a resumed stage starts with has the finding it was given.
LEMMA ResumedFields ==
    ASSUME previous \in Report, tools \in {"first", "later"}
    PROVE  /\ Resumed \in Report /\ Resumed.status = "mismatch"
           /\ Resumed.processing = "incomplete" /\ Entries(Resumed) = {}
           /\ Resumed.witness = previous.witness
           /\ Resumed.differences = previous.differences
BY DEF Resumed, Blank, Report, Entries

\* agrees keeps the least of the two witnesses, with its own differences.
LEMMA KeepFields ==
    ASSUME report \in Report, NEW x \in Inputs
    PROVE  /\ Keep(x) \in Report /\ Keep(x).status = "mismatch"
           /\ Keep(x).processing = report.processing
           /\ Entries(Keep(x)) = Entries(report)
           /\ \/ Keep(x).witness = x /\ Keep(x).differences = x
                 /\ (report.witness = None \/ Rank[x] < Rank[report.witness])
              \/ /\ Keep(x).witness = report.witness /\ report.witness # None
                 /\ Keep(x).differences = report.differences
BY DEF Keep, Report, Entries

\* A report that is passed on has another processing and is the same otherwise.
LEMMA PassedOnFields ==
    ASSUME NEW r \in Report
    PROVE  LET a == [r EXCEPT !.processing = "incomplete"] IN
           /\ a \in Report /\ a.processing = "incomplete" /\ a.status = r.status
           /\ a.witness = r.witness /\ a.differences = r.differences
           /\ a.identity = r.identity /\ Entries(a) = Entries(r)
BY DEF Report, Entries

\* A passing report differs in its status too.
LEMMA PassedFields ==
    ASSUME NEW r \in Report
    PROVE  LET a == [r EXCEPT !.processing = "complete", !.status = "pass"] IN
           /\ a \in Report /\ a.status = "pass" /\ a.processing = "complete"
           /\ a.witness = r.witness /\ a.differences = r.differences
           /\ Entries(a) = Entries(r)
BY DEF Report, Entries

\* A concluded report has the witness Hypothesis replayed.
LEMMA ConcludedFields ==
    ASSUME NEW r \in Report, NEW w \in Inputs \cup {None}
    PROVE  LET a == [r EXCEPT !.processing = "complete", !.witness = w, !.differences = w] IN
           /\ a \in Report /\ a.processing = "complete" /\ a.status = r.status
           /\ a.witness = w /\ a.differences = w /\ Entries(a) = Entries(r)
BY DEF Report, Entries

--------------------------------------------------------------------------------
(* The invariant.                                                                  *)

\* The lane begins with a discovery; the later stages run only on a mismatch, and what
\* follows the reuse phase holds a failure.
Lane ==
    /\ stage = "discover" <=> previous = None
    /\ stage = "done" <=> pc = "done"
    /\ Called /\ previous # None => previous.status = "mismatch"
    /\ pc = "generate" => previous = None
    /\ pc = "reuse" => previous # None
    /\ pc \in {"shrink", "explain", "final"} => best # None
    /\ pc = "returned" /\ previous # None /\ report.processing = "complete" => best # None

\* A report's witness differed, its differences are the witness's own, and what its
\* database holds differed too.
Sound(r) ==
    /\ r.witness # None => r.witness \in seen
    /\ r.differences = r.witness
    /\ r.status = "mismatch" => r.witness # None
    /\ Entries(r) \subseteq seen
Genuine ==
    /\ Sound(report) /\ Sound(received)
    /\ primary \cup secondary \subseteq seen /\ (best # None => best \in seen)
    /\ previous # None =>
          /\ previous.witness # None => previous.witness \in seen
          /\ previous.differences = previous.witness
          /\ previous.status = "mismatch" => previous.witness # None
          /\ previous.status = "mismatch" /\ previous.identity # "campaign" =>
                Entries(previous) \subseteq seen

\* A report of a stage under way is incomplete and no worse than the one it was given.
NoWorse(r) ==
    previous # None => /\ r.status = "mismatch" /\ r.witness # None
                       /\ Rank[r.witness] <= Rank[previous.witness]

\* What a stage has returned is no worse either, or as simple as what still fails.
Kept(r) ==
    previous # None => /\ r.status = "mismatch" /\ r.witness # None
                       /\ \/ Simplest(r.witness)
                          \/ /\ r.processing = "incomplete"
                             /\ Rank[r.witness] <= Rank[previous.witness]
Improving ==
    /\ Running => /\ report.processing = "incomplete" /\ received.processing = "incomplete"
                  /\ NoWorse(report) /\ NoWorse(received)
    /\ pc = "returned" => Kept(report) /\ Kept(received)

\* A resumed stage replays the entries it was given, simplest first, and holds the
\* simplest that still fails.
Resuming ==
    Called /\ previous # None =>
        /\ tested \subseteq Entries(previous) /\ pending \subseteq Entries(previous)
        /\ previous.identity = tools /\ minimized = FALSE
        /\ best = None => \A x \in Entries(previous) \cap differing : x \in pending
        /\ best # None => \A x \in Entries(previous) \cap differing : best <= x

IInv == TypeOK /\ Lane /\ Genuine /\ Improving /\ Resuming

\* The invariant holds before the first stage.
LEMMA InitInv == Init => IInv
<1> SUFFICES ASSUME Init PROVE IInv
  OBVIOUS
<1> USE DEF Init
<1>1. TypeOK
  <2>1. report \in Report /\ received \in Report /\ 0 \in 0 .. MaxExecutions
    BY BlankFields, StagesAssumption
  <2> QED
    BY <2>1 DEF TypeOK
<1>2. Lane /\ Resuming
  BY DEF Lane, Resuming, Called, Running
<1>3. Genuine /\ Improving
  BY BlankFields DEF Genuine, Sound, Improving, Running
<1> QED
  BY <1>1, <1>2, <1>3 DEF IInv

--------------------------------------------------------------------------------
(* What a stage writes.                                                            *)

Writes == \/ NotAcquired \/ NotApplicable \/ PassOn \/ RefuseCheckpoint
          \/ CampaignDiscovers \/ Complete \/ CutOff

\* What may be said of a report r that the current stage writes.
Proper(r) ==
    /\ r \in Report
    /\ r.witness # None => r.witness \in seen'
    /\ r.differences = r.witness
    /\ r.status = "mismatch" => r.witness # None
    /\ r.status = "mismatch" /\ r.identity # "campaign" => Entries(r) \subseteq seen'
    /\ previous # None /\ previous.status = "mismatch" =>
          /\ r.status = "mismatch" \/ r.status = "unsupported"
          /\ r.processing = "incomplete" =>
                Rank[r.witness] <= Rank[previous.witness] \/ Simplest(r.witness)
          /\ r.processing = "complete" => Simplest(r.witness)

\* What a stage has returned may be written.
LEMMA KeptReport ==
    ASSUME seen' = seen, NEW r \in Report, Sound(r), Kept(r)
    PROVE  Proper(r)
BY DEF Proper, Sound, Kept

\* Everything a stage writes is proper, and writing changes nothing else.
LEMMA WriteProper ==
    ASSUME IInv, Writes
    PROVE  /\ \E r \in Report : WriteReport(r) /\ Proper(r)
           /\ UNCHANGED <<report, received, engine, differing>> /\ seen \subseteq seen'
<1> USE DEF IInv
<1>0. /\ report \in Report /\ received \in Report /\ (previous # None => previous \in Report)
      /\ primary \subseteq Inputs /\ secondary \subseteq Inputs /\ best \in Inputs \cup {None}
  BY DEF TypeOK
<1>r. \A x \in Inputs : Rank[x] \in Nat /\ Rank[x] <= Rank[x]
  BY StagesAssumption
<1>m. LET m == Message(report, primary, secondary) IN
      /\ m \in Report /\ m.status = report.status /\ m.processing = report.processing
      /\ m.witness = report.witness /\ m.differences = report.differences
      /\ Entries(m) = primary \cup secondary
  BY <1>0, MessageFields
<1>0a. CASE NotAcquired
  <2> DEFINE r == [Blank EXCEPT !.status = "unsupported", !.processing = "absent"]
  <2>1. /\ r \in Report /\ r.status = "unsupported" /\ r.processing = "absent"
        /\ r.witness = None /\ r.differences = None
    BY DEF Blank, Report
  <2>2. WriteReport(r) /\ UNCHANGED Resting
    BY <1>0a DEF NotAcquired
  <2> HIDE DEF r
  <2>3. Proper(r)
    BY <2>1 DEF Proper
  <2> QED
    BY <2>1, <2>2, <2>3 DEF Resting
<1>1. CASE NotApplicable
  <2> DEFINE r == [Blank EXCEPT !.status = "not_applicable", !.processing = "not_applicable"]
  <2>1. r \in Report /\ r.status = "not_applicable" /\ r.witness = None /\ r.differences = None
    BY DEF Blank, Report
  <2> HIDE DEF r
  <2>2. Proper(r)
    BY <1>1, <2>1 DEF NotApplicable, Proper
  <2> QED
    BY <1>1, <2>1, <2>2 DEF NotApplicable, Resting, r
<1>2. CASE PassOn \/ RefuseCheckpoint
  <2> DEFINE r == [previous EXCEPT !.processing = "incomplete"]
  <2>1. previous \in Report /\ previous # None /\ previous.status = "mismatch"
    BY <1>0, <1>2 DEF PassOn, RefuseCheckpoint
  <2>2. /\ r \in Report /\ r.processing = "incomplete" /\ r.status = previous.status
        /\ r.witness = previous.witness /\ r.differences = previous.differences
        /\ r.identity = previous.identity /\ Entries(r) = Entries(previous)
    BY <2>1, PassedOnFields
  <2>3. WriteReport(r) /\ UNCHANGED Resting
    BY <1>2, <2>1 DEF PassOn, RefuseCheckpoint, Initial
  <2> HIDE DEF r
  <2>4. seen' = seen /\ previous.witness \in Inputs
    BY <2>1, <2>3 DEF Genuine, Report, Resting
  <2>5. Rank[r.witness] <= Rank[previous.witness]
    BY <1>r, <2>2, <2>4
  <2>6. Proper(r)
    BY <2>1, <2>2, <2>4, <2>5 DEF Proper, Genuine
  <2> QED
    BY <2>2, <2>3, <2>6 DEF Resting
<1>3. CASE CampaignDiscovers
  <2>1. previous = None
    BY <1>3 DEF CampaignDiscovers, Lane
  <2>2. PICK s \in {"pass", "incomplete", "mismatch"}, w \in Inputs \cup {None},
          p \in SUBSET Inputs, done \in {"complete", "incomplete"} :
            /\ s = "mismatch" => w # None
            /\ WriteReport([Blank EXCEPT !.identity = "campaign", !.status = s,
                  !.processing = done, !.primary = p, !.witness = w, !.differences = w])
            /\ seen' = IF w # None THEN seen \cup {w} ELSE seen
    BY <1>3 DEF CampaignDiscovers
  <2> DEFINE r == [Blank EXCEPT !.identity = "campaign", !.status = s,
                  !.processing = done, !.primary = p, !.witness = w, !.differences = w]
  <2>3. /\ r \in Report /\ r.status = s /\ r.witness = w /\ r.differences = w
        /\ r.identity = "campaign"
    BY DEF Blank, Report
  <2>4. WriteReport(r)
    BY <2>2
  <2> HIDE DEF r
  <2>5. Proper(r)
    BY <2>1, <2>2, <2>3 DEF Proper
  <2> QED
    BY <1>3, <2>2, <2>3, <2>4, <2>5 DEF CampaignDiscovers
<1>4. CASE Complete
  <2>1. WriteReport(report) /\ UNCHANGED Resting /\ pc = "returned"
    BY <1>4 DEF Complete
  <2>2. Proper(report)
    BY <1>0, <2>1, KeptReport DEF Genuine, Improving, Resting
  <2> QED
    BY <1>0, <2>1, <2>2 DEF Resting
<1>5. CASE CutOff
  <2> DEFINE r == [received EXCEPT !.processing = "incomplete"]
  <2>1. WriteReport(r) /\ UNCHANGED Resting /\ Called
    BY <1>5 DEF CutOff
  <2>2. /\ r \in Report /\ r.processing = "incomplete" /\ r.status = received.status
        /\ r.witness = received.witness /\ r.differences = received.differences
        /\ Entries(r) = Entries(received)
    BY <1>0, PassedOnFields
  <2> HIDE DEF r
  <2>3. Sound(r)
    BY <2>2 DEF Genuine, Sound
  <2>4. Kept(r)
    BY <2>1, <2>2 DEF Improving, Called, NoWorse, Kept
  <2>5. Proper(r)
    BY <2>1, <2>2, <2>3, <2>4, KeptReport DEF Resting
  <2> QED
    BY <2>1, <2>2, <2>5 DEF Resting
<1> QED
  BY <1>0a, <1>1, <1>2, <1>3, <1>4, <1>5 DEF Writes

--------------------------------------------------------------------------------
(* What a call of fuzz returns.                                                    *)

Ending == ReplayFails \/ Conclude \/ Pass \/ BudgetExhausted

\* The report it returns is sound and no worse than the one the stage was given.
LEMMA EndReport ==
    ASSUME IInv, Ending
    PROVE  /\ Running
           /\ \E r \in Report :
                 /\ Returns(r) /\ Sound(r) /\ Kept(r)
                 /\ r.processing = "complete" /\ previous # None => best # None
<1> USE DEF IInv
<1>0. /\ report \in Report /\ primary \subseteq Inputs /\ secondary \subseteq Inputs
      /\ best \in Inputs \cup {None} /\ Running
  BY DEF TypeOK, Ending, ReplayFails, Conclude, Pass, BudgetExhausted, Running
<1> DEFINE m == Message(report, primary, secondary)
<1>m. /\ m \in Report /\ m.status = report.status /\ m.processing = report.processing
      /\ m.witness = report.witness /\ m.differences = report.differences
      /\ Entries(m) = primary \cup secondary
  BY <1>0, MessageFields
<1>1. CASE ReplayFails \/ BudgetExhausted
  <2>1. Returns(m)
    BY <1>1 DEF ReplayFails, BudgetExhausted
  <2> HIDE DEF m
  <2>2. Sound(m)
    BY <1>m DEF Genuine, Sound
  <2>3. Kept(m) /\ m.processing = "incomplete"
    BY <1>0, <1>m DEF Improving, NoWorse, Kept
  <2> QED
    BY <1>0, <1>m, <2>1, <2>2, <2>3
<1>2. CASE Conclude
  <2> DEFINE r == [m EXCEPT !.processing = "complete", !.witness = best, !.differences = best]
  <2>1. Returns(r) /\ pc = "final"
    BY <1>2 DEF Conclude
  <2> HIDE DEF m
  <2>2. /\ r \in Report /\ r.processing = "complete" /\ r.status = report.status
        /\ r.witness = best /\ r.differences = best /\ Entries(r) = primary \cup secondary
    BY <1>0, <1>m, ConcludedFields
  <2> HIDE DEF r
  <2>3. best # None
    BY <2>1 DEF Lane
  <2>4. previous # None => report.status = "mismatch" /\ Simplest(best)
    BY <1>0, <2>3 DEF Improving, NoWorse, Resuming, Called, Simplest
  <2>5. Sound(r) /\ Kept(r)
    BY <2>2, <2>3, <2>4 DEF Sound, Kept, Genuine
  <2> QED
    BY <1>0, <2>1, <2>2, <2>3, <2>5
<1>3. CASE Pass
  <2> DEFINE r == [m EXCEPT !.processing = "complete", !.status = "pass"]
  <2>1. Returns(r) /\ previous = None
    BY <1>3 DEF Pass, Lane
  <2> HIDE DEF m
  <2>2. /\ r \in Report /\ r.status = "pass" /\ Entries(r) = primary \cup secondary
        /\ r.witness = report.witness /\ r.differences = report.differences
    BY <1>m, PassedFields
  <2> HIDE DEF r
  <2>3. Sound(r) /\ Kept(r)
    BY <2>1, <2>2 DEF Sound, Kept, Genuine
  <2> QED
    BY <1>0, <2>1, <2>2, <2>3
<1> QED
  BY <1>1, <1>2, <1>3 DEF Ending

\* Returning keeps the invariant.
LEMMA EndingStep == IInv /\ Ending => IInv'
<1> SUFFICES ASSUME IInv, Ending PROVE IInv'
  OBVIOUS
<1>1. PICK r \in Report :
            /\ Returns(r) /\ Sound(r) /\ Kept(r)
            /\ r.processing = "complete" /\ previous # None => best # None
  BY EndReport
<1>2. Running
  BY EndReport
<1> DEFINE m == Message(report, primary, secondary)
<1>3. /\ report' = r /\ received' \in {received, m, r} /\ pc' = "returned"
      /\ UNCHANGED <<stage, tools, previous, primary, secondary, executions, reproduced, best,
                     pending, minimized, tested, differing, seen>>
  BY <1>1 DEF Returns, Publish, engine
<1>4. /\ m \in Report /\ m.status = report.status /\ m.processing = report.processing
      /\ m.witness = report.witness /\ m.differences = report.differences
      /\ Entries(m) = primary \cup secondary
  BY MessageFields DEF IInv, TypeOK
<1> HIDE DEF m
<1>5. /\ Sound(m) /\ Kept(m) /\ Sound(received) /\ Kept(received)
  BY <1>2, <1>4 DEF IInv, Genuine, Sound, Improving, NoWorse, Kept
<1>6. TypeOK'
  <2>1. report' \in Report /\ received' \in Report
    BY <1>3, <1>4 DEF IInv, TypeOK
  <2> QED
    BY <1>3, <2>1 DEF IInv, TypeOK
<1>7. Lane'
  <2>1. Called /\ stage # "done"
    BY <1>2 DEF Called, Running, IInv, Lane
  <2> QED
    BY <1>1, <1>3, <2>1 DEF IInv, Lane, Running, Called
<1>8. Sound(report)' /\ Sound(received)' /\ Kept(report)' /\ Kept(received)'
  BY <1>1, <1>3, <1>5 DEF Sound, Kept, Simplest
<1>9. Genuine'
  BY <1>3, <1>8 DEF IInv, Genuine
<1>10. Improving'
  BY <1>3, <1>8 DEF Improving, Running
<1>11. Resuming'
  BY <1>2, <1>3 DEF IInv, Resuming, Called
<1> QED
  BY <1>6, <1>7, <1>9, <1>10, <1>11 DEF IInv

--------------------------------------------------------------------------------
(* What executing an input does.                                                   *)

\* A failure is never lost: what Hypothesis holds only gets simpler.
LEMMA TestBest ==
    ASSUME TypeOK, NEW x \in Inputs, Test(x)
    PROVE  /\ best' \in Inputs \cup {None} /\ executions' \in 0 .. MaxExecutions
           /\ reproduced' \in BOOLEAN /\ minimized' \in BOOLEAN
           /\ seen \subseteq seen' /\ seen' \subseteq seen \cup {x}
           /\ tested' = IF best = None THEN tested \cup {x} ELSE tested
           /\ \/ x \notin differing /\ best' = best /\ minimized' = minimized
              \/ /\ x \in differing /\ x \in seen' /\ best' = x
                 /\ (minimized' <=> best = None /\ pc = "reuse" /\ x \in FetchPrimary)
                 /\ best = None \/ x < best
              \/ /\ x \in differing /\ best # None /\ best' = best /\ minimized' = minimized
<1>1. /\ executions \in 0 .. MaxExecutions /\ reproduced \in BOOLEAN
      /\ minimized \in BOOLEAN /\ best \in Inputs \cup {None}
  BY DEF TypeOK
<1>2. executions' \in 0 .. MaxExecutions
  BY <1>1, StagesAssumption DEF Test
<1>3. seen \subseteq seen' /\ seen' \subseteq seen \cup {x}
  BY DEF Test
<1>4. tested' = IF best = None THEN tested \cup {x} ELSE tested
  BY DEF Test
<1>5. reproduced' \in BOOLEAN /\ minimized' \in BOOLEAN
  BY <1>1 DEF Test
<1>6. CASE x \notin differing
  BY <1>1, <1>2, <1>3, <1>4, <1>5, <1>6 DEF Test
<1>7. CASE x \in differing
  BY <1>1, <1>2, <1>3, <1>4, <1>5, <1>7 DEF Test
<1> QED
  BY <1>6, <1>7

\* The database only ever holds what differed, and so does every message about it.
LEMMA TestDatabase ==
    ASSUME IInv, NEW x \in Inputs, Test(x)
    PROVE  /\ primary' \subseteq Inputs /\ secondary' \subseteq Inputs
           /\ primary' \cup secondary' \subseteq seen'
           /\ report' \in {report, Keep(x)} /\ (report' # report => x \in seen')
           /\ received' = received
              \/ \E r \in {report, report'}, p \in SUBSET Inputs, s \in SUBSET Inputs :
                    received' = Message(r, p, s) /\ p \cup s \subseteq seen'
<1>0. /\ primary \subseteq Inputs /\ secondary \subseteq Inputs /\ best \in Inputs \cup {None}
      /\ primary \cup secondary \subseteq seen /\ (best # None => best \in seen)
  BY DEF IInv, TypeOK, Genuine
<1>1. CASE x \in differing /\ (best = None \/ x < best)
  <2>1. /\ report' = Keep(x) /\ seen' = seen \cup {x}
        /\ secondary' = IF best = None THEN secondary ELSE secondary \cup {best}
        /\ primary' = (primary \ {best}) \cup {x}
    BY <1>1 DEF Test
  <2>2. /\ primary' \subseteq Inputs /\ secondary' \subseteq Inputs
        /\ primary' \cup secondary' \subseteq seen'
        /\ primary \ {best} \subseteq Inputs /\ primary \ {best} \subseteq seen'
    BY <1>0, <2>1
  <2>3. received' \in {received} \cup
              {Message(report, primary, secondary), Message(report', primary, secondary),
               Message(report', primary \ {best}, secondary),
               Message(report', primary \ {best}, secondary'),
               Message(report', primary', secondary')}
    BY <1>1 DEF Test, Publish
  <2> QED
    BY <1>0, <2>1, <2>2, <2>3
<1>2. CASE x \in differing /\ ~(best = None \/ x < best)
  <2>1. /\ report' = Keep(x) /\ seen' = seen \cup {x} /\ UNCHANGED <<primary, secondary>>
        /\ received' \in {received, Message(report', primary, secondary)}
    BY <1>2 DEF Test, Publish
  <2> QED
    BY <1>0, <2>1
<1>3. CASE x \notin differing
  <2>1. /\ report' = report /\ seen' = seen
        /\ primary' \subseteq primary /\ secondary' \subseteq secondary
        /\ received' \in {received, Message(report, primary, secondary),
                          Message(report, primary', secondary')}
    BY <1>3 DEF Test, Publish
  <2> QED
    BY <1>0, <2>1
<1> QED
  BY <1>1, <1>2, <1>3

\* A report that was sound and no worse stays so when an input was kept in it.
LEMMA TestReport ==
    ASSUME IInv, Running, NEW x \in Inputs, Test(x), UNCHANGED previous
    PROVE  /\ report' \in Report /\ report'.processing = "incomplete"
           /\ \A r \in {report, report'} :
                 /\ r.witness # None => r.witness \in seen'
                 /\ r.differences = r.witness
                 /\ r.status = "mismatch" => r.witness # None
                 /\ NoWorse(r)
           /\ Entries(report') \subseteq seen'
<1>0. /\ report \in Report /\ report.witness \in Inputs \cup {None}
      /\ Sound(report) /\ NoWorse(report) /\ report.processing = "incomplete" /\ seen \subseteq seen'
      /\ previous # None => previous.witness \in Inputs
  <2>1. report \in Report /\ (previous # None => previous \in Report)
    BY DEF IInv, TypeOK
  <2>2. seen \subseteq seen'
    BY TestBest DEF IInv
  <2> QED
    BY <2>1, <2>2 DEF IInv, Genuine, Improving, Report, Lane, Called
<1>1. CASE report' = report
  BY <1>0, <1>1 DEF Sound
<1>2. CASE report' = Keep(x) /\ report' # report
  <2>1. x \in seen'
    BY <1>2, TestDatabase
  <2>2. \A a \in Inputs : Rank[a] \in Nat
    BY StagesAssumption
  <2>3. NoWorse(report')
    <3> SUFFICES ASSUME previous # None
                 PROVE  /\ report'.status = "mismatch" /\ report'.witness # None
                        /\ Rank[report'.witness] <= Rank[previous.witness]
      BY DEF NoWorse
    <3>1. report.witness \in Inputs /\ Rank[report.witness] <= Rank[previous.witness]
      BY <1>0 DEF NoWorse
    <3>2. CASE Keep(x).witness = x /\ Rank[x] < Rank[report.witness]
      <4>1. Rank[x] <= Rank[previous.witness]
        BY <1>0, <2>2, <3>1, <3>2
      <4> QED
        BY <1>0, <1>2, <3>2, <4>1, KeepFields, StagesAssumption
    <3>3. CASE Keep(x).witness = report.witness
      <4>1. None \notin Inputs
        BY StagesAssumption
      <4> QED
        BY <1>0, <1>2, <3>1, <3>3, <4>1, KeepFields
    <3> QED
      BY <1>0, <3>1, <3>2, <3>3, KeepFields, StagesAssumption
  <2>4. /\ report' \in Report /\ report'.processing = "incomplete"
        /\ report'.witness # None => report'.witness \in seen'
        /\ report'.differences = report'.witness /\ report'.witness # None
        /\ Entries(report') \subseteq seen'
    BY <1>0, <1>2, <2>1, KeepFields, StagesAssumption DEF Sound
  <2> QED
    BY <1>0, <2>3, <2>4 DEF Sound
<1> QED
  BY <1>1, <1>2, TestDatabase

\* So do the messages that run_bounded may read.
LEMMA TestReceived ==
    ASSUME IInv, Running, NEW x \in Inputs, Test(x), UNCHANGED previous
    PROVE  /\ received' \in Report /\ received'.processing = "incomplete"
           /\ Sound(received)' /\ NoWorse(received)' /\ Sound(report)' /\ NoWorse(report)'
<1>0. /\ report \in Report /\ report' \in Report
      /\ report.processing = "incomplete" /\ report'.processing = "incomplete"
      /\ received \in Report /\ received.processing = "incomplete"
      /\ Sound(received) /\ NoWorse(received) /\ seen \subseteq seen'
  BY TestReport, TestBest DEF IInv, TypeOK, Genuine, Improving
<1>1. Sound(report)' /\ NoWorse(report)'
  BY TestReport DEF Sound, NoWorse
<1>2. CASE received' = received
  BY <1>0, <1>1, <1>2 DEF Sound, NoWorse
<1>3. ASSUME NEW r \in {report, report'}, NEW p \in SUBSET Inputs, NEW s \in SUBSET Inputs,
             received' = Message(r, p, s), p \cup s \subseteq seen'
      PROVE  /\ received' \in Report /\ received'.processing = "incomplete"
             /\ Sound(received)' /\ NoWorse(received)'
  <2>1. r \in Report /\ r.processing = "incomplete"
    BY <1>0
  <2>2. /\ received' \in Report /\ received'.status = r.status
        /\ received'.processing = r.processing /\ received'.witness = r.witness
        /\ received'.differences = r.differences /\ Entries(received') = p \cup s
    BY <1>3, <2>1, MessageFields
  <2>3. /\ r.witness # None => r.witness \in seen'
        /\ r.differences = r.witness
        /\ r.status = "mismatch" => r.witness # None
        /\ NoWorse(r)
    BY TestReport
  <2> QED
    BY <1>3, <2>1, <2>2, <2>3 DEF Sound, NoWorse
<1> QED
  BY <1>0, <1>1, <1>2, <1>3, TestDatabase

--------------------------------------------------------------------------------
(* The steps.                                                                      *)

\* A phase ends, or hands over to the next, without executing anything.
Turns == /\ pc \in {"shrink", "explain"} /\ pc' \in {"explain", "final"}
         /\ UNCHANGED <<stage, tools, previous, report, received, engine, differing, seen>>
Tests == Generate \/ Replay \/ (Shrink /\ pc' = pc) \/ (Explain /\ pc' = pc)

\* Every step writes, starts a stage, executes an input, turns to the next phase or returns.
LEMMA Kinds ==
    ASSUME IInv, [Next]_vars
    PROVE  Writes \/ Start \/ Tests \/ Turns \/ Ending \/ UNCHANGED vars
<1>1. ASSUME Shrink \/ Explain, pc' # pc PROVE Turns
  BY <1>1 DEF Shrink, Explain, Turns, engine
<1> QED
  BY <1>1 DEF Next, Writes, Tests, Ending

\* The input a step executes.
LEMMA TestStep ==
    ASSUME IInv, Tests
    PROVE  \E x \in Inputs :
             /\ Test(x) /\ Running /\ Running' /\ UNCHANGED <<stage, tools, previous, differing>>
             /\ \/ /\ pc = "generate" /\ pc' \in {"generate", "final"} /\ UNCHANGED pending
                   /\ pc' = "final" => best' # None
                \/ /\ pc = "reuse" /\ pc' \in {"reuse", "shrink", "final"} /\ best = None
                   /\ x \in pending /\ pending' = pending \ {x}
                   /\ \A y \in pending : x <= y
                   /\ pc' # "reuse" => best' # None
                \/ /\ pc \in {"shrink", "explain"} /\ pc' = pc /\ UNCHANGED pending
<1>0. pending \subseteq Inputs
  BY DEF IInv, TypeOK
<1>1. CASE Generate
  BY <1>1 DEF Generate, Running
<1>2. CASE Replay
  <2>1. PICK x \in pending : /\ \A y \in pending : x <= y
                            /\ Test(x) /\ pending' = pending \ {x}
    BY <1>2 DEF Replay
  <2>2. /\ pc = "reuse" /\ best = None /\ UNCHANGED <<stage, tools, previous, differing>>
        /\ pc' \in {"reuse", "final", "shrink"} /\ (best' = None => pc' = "reuse")
    BY <1>2 DEF Replay
  <2> QED
    BY <1>0, <2>1, <2>2 DEF Running
<1>3. CASE Shrink /\ pc' = pc
  BY <1>3 DEF Shrink, Running
<1>4. CASE Explain /\ pc' = pc
  BY <1>4 DEF Explain, Running
<1> QED
  BY <1>1, <1>2, <1>3, <1>4 DEF Tests

\* Executing an input keeps the invariant.
LEMMA TestsStep == IInv /\ Tests => IInv'
<1> SUFFICES ASSUME IInv, Tests PROVE IInv'
  OBVIOUS
<1>1. PICK x \in Inputs :
             /\ Test(x) /\ Running /\ Running' /\ UNCHANGED <<stage, tools, previous, differing>>
             /\ \/ /\ pc = "generate" /\ pc' \in {"generate", "final"} /\ UNCHANGED pending
                   /\ pc' = "final" => best' # None
                \/ /\ pc = "reuse" /\ pc' \in {"reuse", "shrink", "final"} /\ best = None
                   /\ x \in pending /\ pending' = pending \ {x}
                   /\ \A y \in pending : x <= y
                   /\ pc' # "reuse" => best' # None
                \/ /\ pc \in {"shrink", "explain"} /\ pc' = pc /\ UNCHANGED pending
  BY TestStep
<1>2. /\ best' \in Inputs \cup {None} /\ executions' \in 0 .. MaxExecutions
      /\ reproduced' \in BOOLEAN /\ minimized' \in BOOLEAN
      /\ seen \subseteq seen' /\ seen' \subseteq seen \cup {x}
      /\ tested' \subseteq tested \cup {x} /\ (best # None => tested' = tested)
      /\ (best # None => best' # None)
  BY <1>1, TestBest, StagesAssumption DEF IInv
<1>3. TypeOK'
  <2>1. report' \in Report /\ received' \in Report /\ primary' \subseteq Inputs /\ secondary' \subseteq Inputs
    BY <1>1, TestReport, TestReceived, TestDatabase
  <2>2. /\ tested' \subseteq Inputs /\ seen' \subseteq Inputs /\ pending' \subseteq Inputs
        /\ differing' \subseteq Inputs
    BY <1>1, <1>2 DEF IInv, TypeOK
  <2>3. /\ pc' \in {"cli", "generate", "reuse", "shrink", "explain", "final", "done"}
        /\ stage' \in {"discover", "shrink", "explain", "done"} /\ tools' \in {"first", "later"}
        /\ previous' \in Report \cup {None}
    BY <1>1 DEF IInv, TypeOK
  <2> QED
    BY <1>2, <2>1, <2>2, <2>3 DEF TypeOK
<1>4. Lane'
  BY <1>1, <1>2 DEF IInv, Lane, Called, Running
<1>5. Genuine'
  <2>1. Sound(report)' /\ Sound(received)'
    BY <1>1, TestReceived
  <2>2. primary' \cup secondary' \subseteq seen' /\ (best' # None => best' \in seen')
    BY <1>1, <1>2, TestBest, TestDatabase DEF IInv, Genuine
  <2> QED
    BY <1>1, <1>2, <2>1, <2>2 DEF IInv, Genuine
<1>6. Improving'
  BY <1>1, TestReport, TestReceived DEF Improving, Running
<1>7. Resuming'
  <2> SUFFICES ASSUME previous # None PROVE
        /\ tested' \subseteq Entries(previous) /\ pending' \subseteq Entries(previous)
        /\ previous.identity = tools /\ minimized' = FALSE
        /\ best' = None => \A y \in Entries(previous) \cap differing : y \in pending'
        /\ best' # None => \A y \in Entries(previous) \cap differing : best' <= y
    BY <1>1 DEF Resuming
  <2>1. /\ tested \subseteq Entries(previous) /\ pending \subseteq Entries(previous)
        /\ previous.identity = tools /\ minimized = FALSE
        /\ best = None => \A y \in Entries(previous) \cap differing : y \in pending
        /\ best # None => \A y \in Entries(previous) \cap differing : best <= y
    BY <1>1 DEF IInv, Resuming, Called
  <2>2. pc # "generate" /\ stage # "discover"
    BY DEF IInv, Lane
  <2>3. minimized' = FALSE
    <3>1. pc = "reuse" => x \in pending /\ FetchPrimary = {}
      BY <1>1, <2>2 DEF FetchPrimary
    <3>2. minimized \in BOOLEAN
      BY DEF IInv, TypeOK
    <3> QED
      BY <1>1, <2>1, <3>1, <3>2, TestBest DEF IInv
  <2>4. tested' \subseteq Entries(previous) /\ pending' \subseteq Entries(previous)
    BY <1>1, <1>2, <2>1, <2>2 DEF IInv, Lane
  <2>5. Entries(previous) \subseteq Inputs /\ Inputs \subseteq Nat /\ pending \subseteq Inputs
    BY StagesAssumption DEF IInv, TypeOK, Report, Entries
  <2>6. best' = None => \A y \in Entries(previous) \cap differing : y \in pending'
    BY <1>1, <1>2, <2>1, <2>2, TestBest, StagesAssumption DEF IInv
  <2>7. ASSUME best' # None, NEW y \in Entries(previous) \cap differing PROVE best' <= y
    <3>1. CASE best = None
      <4>1. y \in pending /\ pc = "reuse"
        BY <1>1, <2>1, <2>2, <2>7, <3>1 DEF IInv, Lane
      <4>2. best' = x
        BY <1>1, <2>7, <3>1, TestBest DEF IInv
      <4> QED
        BY <1>1, <4>1, <4>2
    <3>2. CASE best # None
      <4>1. best <= y /\ best \in Nat /\ y \in Nat
        BY <2>1, <2>5, <2>7, <3>2 DEF IInv, TypeOK
      <4>2. best' = best \/ (best' = x /\ x < best)
        BY <1>1, <3>2, TestBest DEF IInv
      <4> QED
        BY <2>5, <4>1, <4>2
    <3> QED
      BY <3>1, <3>2
  <2> QED
    BY <2>1, <2>3, <2>4, <2>6, <2>7
<1> QED
  BY <1>3, <1>4, <1>5, <1>6, <1>7 DEF IInv

\* Writing ends the stage; the next one has only what was written.
LEMMA WritesStep == IInv /\ Writes => IInv'
<1> SUFFICES ASSUME IInv, Writes PROVE IInv'
  OBVIOUS
<1>1. /\ UNCHANGED <<report, received, engine, differing>> /\ seen \subseteq seen'
      /\ \E r \in Report : WriteReport(r) /\ Proper(r)
  BY WriteProper
<1>2. PICK r \in Report : WriteReport(r) /\ Proper(r)
  BY <1>1
<1>3. /\ previous' = r /\ previous' \in Report /\ previous' # None
      /\ stage' \in {"shrink", "explain", "done"} /\ pc' \in {"cli", "done"}
      /\ tools' \in {"first", "later"} /\ ~Called' /\ ~Running'
  BY <1>2, StagesAssumption DEF WriteReport, IInv, TypeOK, Running, Called
<1>4. UNCHANGED <<primary, secondary, executions, reproduced, best, pending, minimized, tested>>
  BY <1>1 DEF engine
<1>5. seen' \subseteq Inputs
  BY <1>1 DEF Writes, NotAcquired, NotApplicable, PassOn, RefuseCheckpoint, CampaignDiscovers,
              Complete, CutOff, Resting, IInv, TypeOK
<1>6. TypeOK'
  BY <1>1, <1>3, <1>4, <1>5 DEF IInv, TypeOK
<1>7. Lane'
  <2>1. stage # "done"
    BY DEF Writes, NotAcquired, NotApplicable, PassOn, RefuseCheckpoint, CampaignDiscovers,
           Complete, CutOff, Called, Running, IInv, Lane
  <2>2. stage' = "done" <=> pc' = "done"
    BY <1>2, <2>1 DEF WriteReport, IInv, TypeOK
  <2> QED
    BY <1>3, <2>2 DEF Lane, Called
<1>8. Genuine'
  <2>1. Sound(report)' /\ Sound(received)'
    BY <1>1 DEF IInv, Genuine, Sound
  <2>2. primary' \cup secondary' \subseteq seen' /\ (best' # None => best' \in seen')
    BY <1>1, <1>4 DEF IInv, Genuine
  <2>3. /\ r.witness # None => r.witness \in seen'
        /\ r.differences = r.witness
        /\ r.status = "mismatch" => r.witness # None
        /\ r.status = "mismatch" /\ r.identity # "campaign" => Entries(r) \subseteq seen'
    BY <1>2 DEF Proper
  <2> QED
    BY <1>3, <2>1, <2>2, <2>3 DEF Genuine
<1>9. Improving' /\ Resuming'
  BY <1>1, <1>3 DEF IInv, Improving, Resuming, Called
<1> QED
  BY <1>6, <1>7, <1>8, <1>9 DEF IInv

\* A stage starts from the finding it was given, or from nothing.
LEMMA StartStep == IInv /\ Start => IInv'
<1> SUFFICES ASSUME IInv, Start PROVE IInv'
  OBVIOUS
<1>0. /\ UNCHANGED <<stage, tools, previous, seen>> /\ pc = "cli" /\ stage # "done"
      /\ primary' = IF previous = None THEN {} ELSE previous.primary
      /\ secondary' = IF previous = None THEN {} ELSE previous.secondary
      /\ report' = IF previous = None THEN [Blank EXCEPT !.identity = tools] ELSE Resumed
      /\ received' \in {Initial, Message(report', primary', secondary')}
      /\ executions' = 0 /\ reproduced' = FALSE /\ best' = None /\ minimized' = FALSE
      /\ tested' = {}
      /\ pc' = IF previous = None THEN "generate" ELSE "reuse"
      /\ pending' = IF previous = None THEN {} ELSE (FetchPrimary \cup FetchSecondary)'
      /\ differing' \in SUBSET Inputs
      /\ previous # None => previous.status = "mismatch" /\ previous.identity = tools
  BY DEF Start, IInv, Lane
<1>1. /\ previous # None => previous \in Report /\ previous.primary \subseteq Inputs
                            /\ previous.secondary \subseteq Inputs
                            /\ Entries(previous) = previous.primary \cup previous.secondary
      /\ tools \in {"first", "later"} /\ seen \subseteq Inputs
  BY DEF IInv, TypeOK, Report, Entries
<1>2. previous # None => previous.witness \in Inputs /\ previous.witness \in seen
                         /\ previous.differences = previous.witness
                         /\ Entries(previous) \subseteq seen
  BY <1>0, <1>1 DEF IInv, Genuine
<1>1i. /\ Initial \in Report /\ Initial.processing = "incomplete"
       /\ previous = None => Initial.witness = None /\ Initial.differences = None
                             /\ Initial.status # "mismatch" /\ Entries(Initial) = {}
       /\ previous # None => Initial.witness = previous.witness /\ Initial.status = "mismatch"
                             /\ Initial.differences = previous.differences
                             /\ Entries(Initial) = Entries(previous)
  BY <1>0, <1>1, BlankFields, PassedOnFields DEF Initial
<1>3. primary' \subseteq Inputs /\ secondary' \subseteq Inputs /\ primary' \cup secondary' \subseteq seen
  BY <1>0, <1>1, <1>2
<1>4. /\ report' \in Report /\ report'.processing = "incomplete" /\ Entries(report') = {}
      /\ report'.differences = report'.witness
      /\ previous = None => report'.witness = None /\ report'.status # "mismatch"
      /\ previous # None => report'.witness = previous.witness /\ report'.status = "mismatch"
  <2>1. CASE previous = None
    <3>1. report' = [Blank EXCEPT !.identity = tools]
      BY <1>0, <2>1
    <3> QED
      BY <1>1, <2>1, <3>1 DEF Blank, Report, Entries
  <2>2. CASE previous # None
    BY <1>0, <1>1, <1>2, <2>2, ResumedFields
  <2> QED
    BY <2>1, <2>2
<1>5. /\ received' \in Report /\ received'.processing = "incomplete"
      /\ received'.differences = received'.witness /\ received'.witness = report'.witness
      /\ received'.status = "mismatch" <=> previous # None
      /\ Entries(received') \subseteq seen
  <2>1. CASE received' = Initial
    BY <1>0, <1>1i, <1>2, <1>4, <2>1
  <2>2. CASE received' = Message(report', primary', secondary')
    <3>1. report' \in Report /\ primary' \in SUBSET Inputs /\ secondary' \in SUBSET Inputs
      BY <1>3, <1>4
    <3>2. /\ received' \in Report /\ received'.status = report'.status
          /\ received'.processing = report'.processing /\ received'.witness = report'.witness
          /\ received'.differences = report'.differences
          /\ Entries(received') = primary' \cup secondary'
      BY <2>2, <3>1, MessageFields
    <3> QED
      BY <1>3, <1>4, <3>2
  <2> QED
    BY <1>0, <2>1, <2>2
<1>6. previous # None => pending' = Entries(previous)
  <2>1. previous # None => pending' = secondary' \cup primary'
    BY <1>0 DEF FetchPrimary, FetchSecondary, IInv, Lane
  <2> QED
    BY <1>0, <1>1, <2>1
<1>7. TypeOK'
  <2>1. pending' \subseteq Inputs
    BY <1>0, <1>1, <1>6
  <2>2. stage' \in {"discover", "shrink", "explain", "done"} /\ previous' \in Report \cup {None}
    BY <1>0 DEF IInv, TypeOK
  <2>3. 0 \in 0 .. MaxExecutions
    BY StagesAssumption
  <2> QED
    BY <1>0, <1>1, <1>3, <1>4, <1>5, <2>1, <2>2, <2>3 DEF TypeOK
<1>8. Lane'
  BY <1>0 DEF IInv, Lane, Called, Running
<1>9. Genuine'
  <2>1. Sound(report)' /\ Sound(received)'
    BY <1>0, <1>2, <1>3, <1>4, <1>5, StagesAssumption DEF Sound
  <2> QED
    BY <1>0, <1>2, <1>3, <2>1 DEF IInv, Genuine
<1>10. Improving'
  <2>1. previous # None => Rank[previous.witness] <= Rank[previous.witness]
    <3>1. \A x \in Inputs : Rank[x] <= Rank[x]
      BY StagesAssumption
    <3> QED
      BY <1>2, <3>1
  <2>2. previous # None => previous.witness # None
    BY <1>2, StagesAssumption
  <2> QED
    BY <1>0, <1>4, <1>5, <2>1, <2>2 DEF Improving, NoWorse, Running
<1>11. Resuming'
  BY <1>0, <1>6 DEF Resuming
<1> QED
  BY <1>7, <1>8, <1>9, <1>10, <1>11 DEF IInv

\* Turning to the next phase, or doing nothing, changes nothing the invariant is about.
LEMMA TurnsStep == IInv /\ (Turns \/ UNCHANGED vars) => IInv'
<1> SUFFICES ASSUME IInv, Turns \/ UNCHANGED vars PROVE IInv'
  OBVIOUS
<1>1. /\ UNCHANGED <<stage, tools, previous, report, received, primary, secondary, executions,
                     reproduced, best, pending, minimized, tested, differing, seen>>
      /\ pc' = pc \/ (pc \in {"shrink", "explain"} /\ pc' \in {"explain", "final"})
  BY DEF Turns, vars, engine
<1>2. TypeOK'
  BY <1>1 DEF IInv, TypeOK
<1>3. Lane'
  BY <1>1 DEF IInv, Lane, Called, Running
<1>4. Genuine'
  BY <1>1 DEF IInv, Genuine, Sound
<1>5. (Running' => Running) /\ (Called' => Called) /\ (pc' = "returned" <=> pc = "returned")
  BY <1>1 DEF Running, Called
<1>6. Improving'
  BY <1>1, <1>5 DEF IInv, Improving, NoWorse, Kept, Simplest
<1>7. Resuming'
  BY <1>1, <1>5 DEF IInv, Resuming
<1> QED
  BY <1>2, <1>3, <1>4, <1>6, <1>7 DEF IInv

\* The invariant is inductive.
LEMMA Invariance == IInv /\ [Next]_vars => IInv'
BY Kinds, WritesStep, StartStep, TestsStep, TurnsStep, EndingStep

\* It holds in the whole lane.
LEMMA SpecInv == Spec => []IInv
BY InitInv, Invariance, PTL DEF Spec

--------------------------------------------------------------------------------
(* The theorems.                                                                   *)

\* The lane's state has the types the model gives it.
THEOREM TypesHold == Spec => []TypeOK
<1>1. IInv => TypeOK
  BY DEF IInv
<1> QED
  BY <1>1, SpecInv, PTL

\* Every witness that is written or may be read really differed, and its differences
\* are its own, however the stages were cut off.
THEOREM WitnessesAreGenuine == Spec => []WitnessIsGenuine
<1>1. IInv => WitnessIsGenuine
  BY DEF IInv, Genuine, Sound, WitnessIsGenuine
<1> QED
  BY <1>1, SpecInv, PTL

\* A resumed stage executes nothing before a failure but what it was given, under the
\* tools that saved it, and what it completes it has shrunk.
THEOREM ResumingReplays == Spec => []ResumeOnlyReplays
<1>1. IInv => ResumeOnlyReplays
  BY DEF IInv, Lane, Improving, Resuming, ResumeOnlyReplays, Called
<1> QED
  BY <1>1, SpecInv, PTL

\* Only a write changes the lane's report.
LEMMA OnlyWrites ==
    ASSUME IInv, [Next]_vars, previous' # previous
    PROVE  Writes
<1>1. CASE Start
  BY <1>1 DEF Start
<1>2. CASE Tests
  BY <1>2, TestStep
<1>3. CASE Turns \/ UNCHANGED vars
  BY <1>3 DEF Turns, vars
<1>4. CASE Ending
  BY <1>4, EndReport DEF Returns
<1> QED
  BY <1>1, <1>2, <1>3, <1>4, Kinds

\* What a write says of the report before it.
LEMMA Written ==
    ASSUME IInv, [Next]_vars, previous' # previous
    PROVE  Proper(previous')
<1>1. PICK r \in Report : WriteReport(r) /\ Proper(r)
  BY OnlyWrites, WriteProper
<1> QED
  BY <1>1 DEF WriteReport

\* A mismatch is never lost in its lane, for any budget and any cut, unless a stage had no
\* model to run.
THEOREM MismatchesSurvive == Spec => MismatchSurvives
<1>1. IInv /\ [Next]_vars =>
        [previous # None /\ previous.status = "mismatch" =>
            \/ previous'.status = "mismatch" /\ previous'.witness # None
            \/ previous'.status = "unsupported"]_previous
  BY Written DEF Proper
<1>2. Spec => [][previous # None /\ previous.status = "mismatch" =>
                    \/ previous'.status = "mismatch" /\ previous'.witness # None
                    \/ previous'.status = "unsupported"]_previous
  BY <1>1, SpecInv, PTL DEF Spec
<1> QED
  BY <1>2 DEF MismatchSurvives

\* Processing never makes a finding worse.
THEOREM WitnessesImprove == Spec => WitnessOnlyImproves
<1>1. IInv /\ [Next]_vars =>
        [previous # None /\ previous.status = "mismatch" =>
            /\ previous'.processing = "incomplete" =>
                 Rank[previous'.witness] <= Rank[previous.witness] \/ Simplest(previous'.witness)
            /\ previous'.processing = "complete" => Simplest(previous'.witness)]_previous
  BY Written DEF Proper
<1>2. Spec => [][previous # None /\ previous.status = "mismatch" =>
            /\ previous'.processing = "incomplete" =>
                 Rank[previous'.witness] <= Rank[previous.witness] \/ Simplest(previous'.witness)
            /\ previous'.processing = "complete" => Simplest(previous'.witness)]_previous
  BY <1>1, SpecInv, PTL DEF Spec
<1> QED
  BY <1>2 DEF WitnessOnlyImproves
--------------------------------------------------------------------------------
(* What a stage tells its supervisor.                                              *)

\* The reports of a call for one model, written out.
Telling(f) == [status |-> IF f THEN "mismatch" ELSE "incomplete", found |-> f,
               processing |-> "incomplete"]
Returning(f) ==
    IF f THEN {[status |-> "mismatch", found |-> TRUE, processing |-> p] :
                   p \in {"incomplete", "complete"}}
    ELSE {[status |-> "pass", found |-> FALSE, processing |-> "complete"], Telling(FALSE)}

\* The contract of FuzzReports for such a call.
LEMMA ContractStarts ==
    /\ Discovery!Init' <=> Said' = Telling(FALSE) /\ Running'
    /\ Resumption!Init' <=> Said' = Telling(TRUE) /\ Running'
    /\ \A f \in BOOLEAN : Resumption!Progress(f) = Telling(f)
BY DEF Discovery!Init, Resumption!Init, Discovery!Modes, Resumption!Modes, Discovery!Report,
       Resumption!Report, Resumption!Progress, Resumption!Single, Telling

LEMMA ContractSteps ==
    ASSUME Running, NEW f \in BOOLEAN, Said.found => f,
           \/ Said' = Telling(f) /\ Running'
           \/ Said' \in Returning(f) /\ f = Said.found /\ ~Running'
    PROVE  Discovery!Next /\ Resumption!Next
<1> USE DEF Discovery!Single, Resumption!Single, Discovery!Report, Resumption!Report,
            Discovery!Ends, Resumption!Ends
<1>1. Resumption!Progress(f) = Telling(f) /\ Discovery!Progress(f) = Telling(f)
  BY DEF Discovery!Progress, Resumption!Progress, Telling
<1>2. Discovery!Final(f) = Returning(f) /\ Resumption!Final(f) = Returning(f)
  BY DEF Discovery!Final, Resumption!Final, Returning, Telling
<1>3. CASE Said' = Telling(f) /\ Running'
  BY <1>1, <1>3 DEF Discovery!Next, Discovery!Tell, Resumption!Next, Resumption!Tell
<1>4. CASE Said' \in Returning(f) /\ f = Said.found /\ ~Running'
  BY <1>2, <1>4 DEF Discovery!Next, Discovery!Return, Resumption!Next, Resumption!Return
<1> QED
  BY <1>3, <1>4

\* While a stage is under way its report, and the message its supervisor read last, are
\* reports of a call that goes on, and whether something was found is known to both the
\* engine and the report. When fuzz has returned, the message is one of those or the
\* report it returned.
Found(r) == r.witness # None
Naming ==
    /\ Running =>
        /\ Told(report) = Telling(Found(report)) /\ Told(received) = Telling(Found(received))
        /\ Found(received) => Found(report)
        /\ best # None => Found(report)
        /\ previous = None /\ best = None => ~Found(report)
    /\ pc = "returned" =>
        /\ Found(received) => Found(report)
        /\ Told(received) \in {Told(report), Telling(Found(received))}

\* What tells two reports apart.
LEMMA ToldFields ==
    ASSUME NEW r \in Report, NEW s \in Report
    PROVE  /\ Told(r) = [status |-> r.status, found |-> Found(r), processing |-> r.processing]
           /\ Told(r).found = Found(r) /\ Found(r) \in BOOLEAN
           /\ (r.status = s.status /\ r.witness = s.witness /\ r.processing = s.processing)
                 => Told(r) = Told(s) /\ Found(r) = Found(s)
BY DEF Told, Found

\* A stage begins with a report of that kind.
LEMMA NamingStart ==
    ASSUME IInv, Start
    PROVE  /\ Running' /\ UNCHANGED <<stage, previous>> /\ Naming'
           /\ Told(report)' = Telling(previous # None) /\ Called'
<1>1. /\ pc = "cli" /\ UNCHANGED <<stage, previous>> /\ best' = None
      /\ pc' \in {"generate", "reuse"}
      /\ report' = IF previous = None THEN [Blank EXCEPT !.identity = tools] ELSE Resumed
      /\ received' \in {Initial, Message(report', primary', secondary')}
      /\ previous # None => previous.status = "mismatch"
  BY DEF Start
<1>2. IInv'
  BY StartStep
<1>3. /\ report' \in Report /\ primary' \in SUBSET Inputs /\ secondary' \in SUBSET Inputs
  BY <1>2 DEF IInv, TypeOK
<1>4. /\ report'.processing = "incomplete"
      /\ report'.status = IF previous = None THEN "incomplete" ELSE "mismatch"
      /\ report'.witness # None <=> previous # None
  <2>1. CASE previous = None
    <3>1. report' = [Blank EXCEPT !.identity = tools]
      BY <1>1, <2>1
    <3> QED
      BY <2>1, <3>1, BlankFields DEF Blank
  <2>2. CASE previous # None
    BY <1>1, <2>2, ResumedFields DEF IInv, TypeOK, Genuine
  <2> QED
    BY <2>1, <2>2
<1>5. /\ received' \in Report /\ received'.status = report'.status
      /\ received'.witness # None <=> report'.witness # None
      /\ received'.processing = report'.processing
  <2>1. CASE received' = Initial
    <3>1. CASE previous = None
      BY <1>4, <2>1, <3>1, BlankFields DEF Initial
    <3>2. CASE previous # None
      BY <1>1, <1>4, <2>1, <3>2, PassedOnFields DEF Initial, IInv, TypeOK, Genuine
    <3> QED
      BY <3>1, <3>2
  <2>2. CASE received' = Message(report', primary', secondary')
    BY <1>3, <2>2, MessageFields
  <2> QED
    BY <1>1, <2>1, <2>2
<1>6. Told(report') = Telling(Found(report')) /\ Found(report') = (previous # None)
  BY <1>4 DEF Told, Telling, Found
<1>7. Told(received') = Told(report') /\ Found(received') = Found(report')
  BY <1>5 DEF Told, Found
<1> QED
  BY <1>1, <1>6, <1>7 DEF Running, Called, Naming, Told, Found

\* Executing an input keeps it so.
LEMMA NamingTest ==
    ASSUME IInv, Naming, Tests
    PROVE  /\ Running /\ Running' /\ UNCHANGED <<stage, previous>> /\ Naming'
           /\ Found(report) => Found(report)'
<1>1. PICK x \in Inputs : Test(x) /\ Running /\ Running' /\ UNCHANGED <<stage, previous>>
  BY TestStep
<1>2. /\ report \in Report /\ received \in Report /\ Keep(x) \in Report
      /\ Keep(x).status = "mismatch" /\ Keep(x).processing = report.processing
      /\ Keep(x).witness # None /\ report.processing = "incomplete"
  BY <1>1, KeepFields, StagesAssumption DEF IInv, TypeOK, Improving
<1>3. Told(report) = Telling(Found(report)) /\ Told(Keep(x)) = Telling(TRUE) /\ Found(Keep(x))
  BY <1>1, <1>2 DEF Naming, Told, Telling, Found
<1>4. /\ report' \in {report, Keep(x)}
      /\ \/ received' = received
         \/ \E r \in {report, report'}, p \in SUBSET Inputs, s \in SUBSET Inputs :
                received' = Message(r, p, s)
  BY <1>1, TestDatabase
<1>5. \/ x \notin differing /\ best' = best /\ report' = report
      \/ x \in differing /\ best' # None /\ report' = Keep(x)
  <2>1. x \in differing => report' = Keep(x)
    BY <1>1 DEF Test
  <2>2. x \notin differing => report' = report
    BY <1>1 DEF Test
  <2> QED
    BY <1>1, <2>1, <2>2, TestBest, StagesAssumption DEF IInv
<1>6. Told(report') = Telling(Found(report')) /\ (Found(report) => Found(report'))
  BY <1>3, <1>4
<1>7. Told(received') = Telling(Found(received')) /\ (Found(received') => Found(report'))
  <2>1. CASE received' = received
    BY <1>1, <1>6, <2>1 DEF Naming
  <2>2. ASSUME NEW r \in {report, report'}, NEW p \in SUBSET Inputs, NEW s \in SUBSET Inputs,
               received' = Message(r, p, s)
        PROVE  Told(received') = Telling(Found(received')) /\ (Found(received') => Found(report'))
    <3>1. r \in Report /\ Told(r) = Telling(Found(r)) /\ (Found(r) => Found(report'))
      BY <1>2, <1>3, <1>4, <1>6
    <3>2. /\ received' \in Report /\ received'.status = r.status
          /\ received'.witness = r.witness /\ received'.processing = r.processing
      BY <2>2, <3>1, MessageFields
    <3>3. Told(received') = Told(r) /\ Found(received') = Found(r)
      BY <3>1, <3>2, ToldFields
    <3> QED
      BY <3>1, <3>3
  <2> QED
    BY <1>4, <2>1, <2>2
<1>8. (best' # None => Found(report')) /\ (previous = None /\ best' = None => ~Found(report'))
  BY <1>1, <1>3, <1>5 DEF Naming
<1>9. Naming'
  BY <1>1, <1>6, <1>7, <1>8 DEF Naming, Running, Told, Found
<1> QED
  BY <1>1, <1>6, <1>9 DEF Found

\* What fuzz returns is a report that ends a call, about what the call has found.
LEMMA NamingEnding ==
    ASSUME IInv, Naming, Ending
    PROVE  /\ Running /\ pc' = "returned" /\ UNCHANGED previous
           /\ Found(report') = Found(report) /\ Told(report') \in Returning(Found(report))
           /\ Naming'
<1>0. /\ Running /\ report \in Report /\ best \in Inputs \cup {None}
      /\ primary \in SUBSET Inputs /\ secondary \in SUBSET Inputs
      /\ Told(report) = Telling(Found(report)) /\ Found(report) \in BOOLEAN
      /\ report.processing = "incomplete"
  BY EndReport, ToldFields DEF IInv, TypeOK, Naming, Improving
<1> DEFINE m == Message(report, primary, secondary)
<1>m. /\ m \in Report /\ m.status = report.status /\ m.processing = report.processing
      /\ m.witness = report.witness /\ Told(m) = Told(report) /\ Found(m) = Found(report)
  BY <1>0, MessageFields DEF Told, Found
<1>s. report.status = IF Found(report) THEN "mismatch" ELSE "incomplete"
  BY <1>0 DEF Told, Telling
<1>1. ASSUME NEW r \in Report, Returns(r), Found(r) = Found(report),
             Told(r) \in Returning(Found(report))
      PROVE  /\ pc' = "returned" /\ UNCHANGED previous
             /\ Found(report') = Found(report) /\ Told(report') \in Returning(Found(report))
             /\ Naming'
  <2>1. report' = r /\ received' \in {received, m, r} /\ pc' = "returned" /\ UNCHANGED previous
    BY <1>1 DEF Returns, Publish
  <2> HIDE DEF m
  <2>2. /\ Found(received') => Found(report')
        /\ Told(received') \in {Told(report'), Telling(Found(received'))}
    BY <1>0, <1>1, <1>m, <2>1 DEF Naming
  <2> QED
    BY <1>1, <2>1, <2>2 DEF Naming, Running, Told, Found
<1>2. CASE ReplayFails \/ BudgetExhausted
  <2>1. Returns(m)
    BY <1>2 DEF ReplayFails, BudgetExhausted
  <2> HIDE DEF m
  <2>2. Told(m) \in Returning(Found(report))
    BY <1>0, <1>m DEF Telling, Returning
  <2> QED
    BY <1>0, <1>1, <1>m, <2>1, <2>2
<1>3. CASE Conclude
  <2> DEFINE r == [m EXCEPT !.processing = "complete", !.witness = best, !.differences = best]
  <2>1. Returns(r) /\ best # None /\ Found(report)
    BY <1>0, <1>3 DEF Conclude, IInv, Lane, Naming
  <2> HIDE DEF m
  <2>2. r \in Report /\ r.status = "mismatch" /\ r.processing = "complete" /\ r.witness = best
    BY <1>0, <1>m, <1>s, <2>1, ConcludedFields
  <2> HIDE DEF r
  <2>3. Told(r) = [status |-> "mismatch", found |-> TRUE, processing |-> "complete"]
    BY <2>1, <2>2 DEF Told
  <2>4. Found(r) = Found(report) /\ Found(report) = TRUE
    BY <1>0, <2>1, <2>2 DEF Found
  <2>5. Told(r) \in Returning(Found(report))
    BY <2>3, <2>4 DEF Returning
  <2> QED
    BY <1>0, <1>1, <2>1, <2>2, <2>4, <2>5
<1>4. CASE Pass
  <2> DEFINE r == [m EXCEPT !.processing = "complete", !.status = "pass"]
  <2>1. Returns(r) /\ best = None /\ previous = None /\ ~Found(report)
    BY <1>0, <1>4 DEF Pass, IInv, Lane, Naming
  <2> HIDE DEF m
  <2>2. r \in Report /\ r.status = "pass" /\ r.processing = "complete" /\ r.witness = None
    BY <1>m, <2>1, PassedFields DEF Found
  <2> HIDE DEF r
  <2>3. Told(r) = [status |-> "pass", found |-> FALSE, processing |-> "complete"]
    BY <2>2 DEF Told
  <2>4. Found(r) = Found(report) /\ Found(report) = FALSE
    BY <1>0, <2>1, <2>2 DEF Found
  <2>5. Told(r) \in Returning(Found(report))
    BY <2>3, <2>4 DEF Returning
  <2> QED
    BY <1>0, <1>1, <2>1, <2>2, <2>4, <2>5
<1> QED
  BY <1>0, <1>2, <1>3, <1>4 DEF Ending

\* So does every step.
LEMMA NamingStep == IInv /\ Naming /\ [Next]_vars => Naming'
<1> SUFFICES ASSUME IInv, Naming, [Next]_vars PROVE Naming'
  OBVIOUS
<1>1. CASE Writes
  <2>1. ~Running' /\ pc' # "returned"
    BY <1>1, WriteProper DEF WriteReport, Running
  <2> QED
    BY <2>1 DEF Naming
<1>2. CASE Turns \/ UNCHANGED vars
  BY <1>2 DEF Turns, vars, engine, Naming, Running, Told, Found
<1> QED
  BY <1>1, <1>2, NamingStart, NamingTest, NamingEnding, Kinds

\* Before the first stage none is under way.
LEMMA SpecNaming == Spec => []Naming
<1>1. Init => Naming
  BY DEF Init, Naming, Running
<1> QED
  BY <1>1, NamingStep, SpecInv, PTL DEF Spec

\* A stage under way speaks through its report; what it writes is its last word.
LEMMA SaidWhileRunning ==
    ASSUME IInv, Naming, Running
    PROVE  Said = Told(report) /\ Said = Telling(Found(report)) /\ Said.found = Found(report)
           /\ Found(report) \in BOOLEAN
BY ToldFields DEF IInv, TypeOK, Naming, Said, Called

\* Reports that differ in their databases and identities only are the same to the contract.
LEMMA SaidWhenWritten ==
    ASSUME NEW r \in Report, WriteReport(r)
    PROVE  ~Running' /\ Said' = Told(r)
<1>1. previous' = r /\ r # None /\ pc' \in {"cli", "done"}
  BY StagesAssumption DEF WriteReport
<1> QED
  BY <1>1 DEF Called, Running, Said, Told

\* A step of a call tells a report, returns one, changes nothing of either, or is a cut.
LEMMA TellingStep ==
    ASSUME IInv, Naming, Called, [Next]_vars
    PROVE  \/ Discovery!Next /\ Resumption!Next
           \/ UNCHANGED <<Said, Running>>
           \/ /\ CutOff
              /\ \E f \in BOOLEAN : /\ f => Said.found
                                    /\ Told(received) \in {Said, Resumption!Progress(f)}
              /\ Said' = [Told(received) EXCEPT !.processing = "incomplete"]
<1>0. /\ report \in Report /\ received \in Report
      /\ Said = Told(report) /\ Said.found = Found(report) /\ Found(report) \in BOOLEAN
  BY ToldFields DEF IInv, TypeOK, Said
<1>1. CASE Tests
  <2>1. /\ Running /\ Running' /\ Naming' /\ (Found(report) => Found(report)')
        /\ report' \in Report
    BY <1>1, NamingTest, TestsStep DEF IInv, TypeOK
  <2>2. Said' = Telling(Found(report')) /\ Found(report') \in BOOLEAN
    BY <2>1 DEF Said, Called, Naming, Found
  <2> QED
    BY <1>0, <2>1, <2>2, ContractSteps DEF Found
<1>2. CASE Turns \/ UNCHANGED vars
  BY <1>2 DEF Turns, vars, Said, Called, Running
<1>3. CASE Ending
  <2>1. /\ Running /\ pc' = "returned" /\ Told(report') \in Returning(Found(report))
    BY <1>3, NamingEnding
  <2>2. ~Running' /\ Said' \in Returning(Found(report))
    BY <2>1 DEF Said, Called, Running, Told
  <2> QED
    BY <1>0, <2>1, <2>2, ContractSteps
<1>4. CASE Complete
  <2>1. WriteReport(report) /\ ~Running
    BY <1>4 DEF Complete, Running
  <2>2. ~Running' /\ Said' = Told(report)
    BY <1>0, <2>1, SaidWhenWritten
  <2> QED
    BY <1>0, <2>1, <2>2 DEF Running
<1>5. CASE CutOff
  <2> DEFINE r == [received EXCEPT !.processing = "incomplete"]
  <2>1. WriteReport(r)
    BY <1>5 DEF CutOff
  <2>2. /\ r \in Report /\ r.processing = "incomplete" /\ r.status = received.status
        /\ r.witness = received.witness
    BY <1>0, PassedOnFields
  <2> HIDE DEF r
  <2>3. Said' = Told(r)
    BY <2>1, <2>2, SaidWhenWritten
  <2>4. Told(r) = [Told(received) EXCEPT !.processing = "incomplete"]
    BY <2>2 DEF Told
  <2>5. /\ Told(received) \in {Said, Telling(Found(received))}
        /\ (Found(received) => Found(report)) /\ Found(received) \in BOOLEAN
    BY <1>0, ToldFields DEF Naming, Called
  <2>6. Told(received) \in {Said, Resumption!Progress(Found(received))}
    BY <2>5, ContractStarts
  <2> QED
    BY <1>0, <1>5, <2>3, <2>4, <2>5, <2>6
<1>6. ~Start /\ ~NotAcquired /\ ~NotApplicable /\ ~PassOn /\ ~RefuseCheckpoint
      /\ ~CampaignDiscovers
  BY DEF Start, NotAcquired, NotApplicable, PassOn, RefuseCheckpoint, CampaignDiscovers, Called,
         Running
<1> QED
  BY <1>1, <1>2, <1>3, <1>4, <1>5, <1>6, Kinds DEF Writes

\* Every stage of one model, whatever it resumes and wherever it is cut, keeps to the
\* contract its supervisor relies on: the theorems about FuzzRunner hold with this fuzz
\* in its child.
THEOREM StagesTellReports == Spec => CallsTellReports
<1>1. ASSUME IInv, Naming, Naming', [Next]_vars PROVE CallStep
  <2>1. ASSUME Start
        PROVE  IF stage = "discover" THEN Discovery!Init' ELSE Resumption!Init'
    <3>1. /\ Running' /\ Called' /\ Told(report)' = Telling(previous # None)
          /\ stage = "discover" <=> previous = None
      BY <1>1, <2>1, NamingStart DEF IInv, Lane
    <3>2. Said' = Telling(previous # None)
      BY <3>1 DEF Said, Told
    <3>3. CASE stage = "discover"
      <4>1. Said' = Telling(FALSE)
        BY <3>1, <3>2, <3>3
      <4> QED
        BY <3>1, <3>3, <4>1, ContractStarts
    <3>4. CASE stage # "discover"
      <4>1. Said' = Telling(TRUE)
        BY <3>1, <3>2, <3>4
      <4> QED
        BY <3>1, <3>4, <4>1, ContractStarts
    <3> QED
      BY <3>3, <3>4
  <2>2. ASSUME Called
        PROVE  \/ IF stage = "discover" THEN [Discovery!Next]_<<Said, Running>>
                                        ELSE [Resumption!Next]_<<Said, Running>>
               \/ /\ CutOff
                  /\ \E f \in BOOLEAN : /\ f => Said.found
                                        /\ Told(received) \in {Said, Resumption!Progress(f)}
                  /\ Said' = [Told(received) EXCEPT !.processing = "incomplete"]
    BY <1>1, <2>2, TellingStep
  <2> QED
    BY <2>1, <2>2 DEF CallStep
<1>2. Spec => [][CallStep]_vars
  BY <1>1, SpecInv, SpecNaming, PTL DEF Spec
<1> QED
  BY <1>2 DEF CallsTellReports
================================================================================
