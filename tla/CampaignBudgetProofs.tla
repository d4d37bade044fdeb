-------------------------- MODULE CampaignBudgetProofs --------------------------
(* What a campaign gives its models, for any budget and any number of models: no   *)
(* more samples than asked for, and to each fallback model the share the report    *)
(* announced. The invariant bounds the executions by the shares of the runs that   *)
(* are over and the samples of the run under way, and carries along, for each      *)
(* fallback model, what its run left of its share.                                 *)
EXTENDS CampaignEvidenceProofs

--------------------------------------------------------------------------------
(* The division of the budget.                                                    *)

\* What the first i runs may execute.
Upto(i) == i * (Total \div Len(models)) + Minimum(i, Total % Len(models))

\* The shares of all the runs add up to the budget.
LEMMA Division ==
    ASSUME NEW t \in Nat, NEW n \in Nat \ {0}
    PROVE  LET q == t \div n
               r == t % n
           IN  /\ q \in Nat /\ r \in 0 .. n - 1 /\ t = n * q + r
               /\ \A i \in 0 .. n - 1 : i * q \in Nat /\ (i + 1) * q = i * q + q
               /\ \A i \in 0 .. n : i * q \in Nat /\ i * q <= n * q
<1> DEFINE q == t \div n
           r == t % n
<1>1. q \in Nat
  OBVIOUS
<1>2. r \in 0 .. n - 1
  OBVIOUS
<1>3. t = n * q + r
  BY Z3T(30)
<1> HIDE DEF q, r
<1>4. \A i \in 0 .. n - 1 : i * q \in Nat /\ (i + 1) * q = i * q + q
  BY <1>1
<1>5. ASSUME NEW i \in 0 .. n PROVE i * q \in Nat /\ i * q <= n * q
  BY <1>1
<1> QED
  BY <1>1, <1>2, <1>3, <1>4, <1>5 DEF q, r

LEMMA Shares ==
    ASSUME Total \in Nat, models \in Seq(ModelSet), models # <<>>
    PROVE  /\ Len(models) \in Nat \ {0}
           /\ Upto(0) = 0 /\ Upto(Len(models)) = Total
           /\ \A i \in 0 .. Len(models) - 1 :
                 /\ CaseBudget(i) \in Nat /\ Upto(i + 1) = Upto(i) + CaseBudget(i)
           /\ \A i \in 0 .. Len(models) : Upto(i) \in Nat /\ Upto(i) <= Total
<1> DEFINE n == Len(models)
           q == Total \div n
           r == Total % n
<1>1. n \in Nat \ {0}
  BY EmptySeq
<1>2. /\ q \in Nat /\ r \in 0 .. n - 1 /\ Total = n * q + r
      /\ \A i \in 0 .. n - 1 : i * q \in Nat /\ (i + 1) * q = i * q + q
      /\ \A i \in 0 .. n : i * q \in Nat /\ i * q <= n * q
  <2> HIDE DEF n
  <2> QED
    BY <1>1, Division
<1>3. \A i : Upto(i) = i * q + Minimum(i, r)
  BY DEF Upto
<1>4. \A i : CaseBudget(i) = q + (IF i < r THEN 1 ELSE 0)
  BY DEF CaseBudget
<1> HIDE DEF n, q, r
<1>5. Upto(0) = 0
  BY <1>1, <1>2, <1>3 DEF Minimum
<1>6. Upto(n) = Total
  BY <1>1, <1>2, <1>3 DEF Minimum
<1>7. ASSUME NEW i \in 0 .. n - 1
      PROVE  CaseBudget(i) \in Nat /\ Upto(i + 1) = Upto(i) + CaseBudget(i)
  <2>1. (i + 1) * q = i * q + q /\ i * q \in Nat
    BY <1>2
  <2>2. Minimum(i + 1, r) = Minimum(i, r) + (IF i < r THEN 1 ELSE 0)
    BY <1>1, <1>2 DEF Minimum
  <2>3. Upto(i + 1) = (i * q + q) + Minimum(i + 1, r)
    BY <1>3, <2>1
  <2>4. Minimum(i, r) \in Nat
    BY <1>1, <1>2 DEF Minimum
  <2> QED
    BY <1>2, <1>3, <1>4, <2>1, <2>2, <2>3, <2>4
<1>8. ASSUME NEW i \in 0 .. n PROVE Upto(i) \in Nat /\ Upto(i) <= Total
  <2>1. i * q \in Nat /\ i * q <= n * q /\ n * q \in Nat
    <3>1. n \in 0 .. n
      BY <1>1
    <3> QED
      BY <1>2, <3>1
  <2>2. Minimum(i, r) \in Nat /\ Minimum(i, r) <= r
    BY <1>1, <1>2 DEF Minimum
  <2> QED
    BY <1>2, <1>3, <2>1, <2>2
<1> QED
  BY <1>1, <1>5, <1>6, <1>7, <1>8 DEF n

--------------------------------------------------------------------------------
(* The invariant, in parts.                                                       *)

Asked == examples \in 1 .. MaxExamples /\ limit \in 0 .. MaxExamples

Busy == {"input", "judge", "conclude"}

\* The samples of the run under way.
Taken == IF pc = "draw" THEN runs ELSE IF pc \in Busy THEN runs + 1 ELSE 0

Closed == pc = "returned" /\ report.processing = "complete"
Underway == pc = "case" \/ pc \in Sampling \/ Closed

\* seen_fallback at work: no encoding has two fallback models.
Unique ==
    \A i, j \in DOMAIN models :
        /\ models[i].route = "fallback" /\ models[j].route = "fallback"
        /\ models[i].key = models[j].key
        => i = j

\* Nothing is executed before the runs, and nothing replayed between them.
Opening ==
    /\ pc \in Preparations => executions = 0 /\ \A k \in Keys : allocations[k] = 0
    /\ pc \in Preparations \union {"case"} => replaying = FALSE
    /\ Underway => models # <<>>
    /\ pc # "returned" => report.processing = "incomplete"
    /\ Closed => index = Len(models) /\ replaying = FALSE

Within ==
    /\ executions <= Total + (IF replaying THEN 1 ELSE 0)
    /\ pc = "draw" /\ replaying => executions <= Total
    /\ limit # 0 => executions <= limit

\* The runs so far have executed no more than their shares.
Course ==
    Underway /\ ~replaying =>
        /\ executions <= Upto(index) + Taken
        /\ pc \in Sampling => Taken <= CaseBudget(index)

\* A fallback model, given so many samples, gets them in its own run, at most its share;
\* what its run left of the share is missing from the executions for good.
LotOf(j, a) ==
    /\ j - 1 < index => /\ a <= CaseBudget(j - 1)
                        /\ executions + (CaseBudget(j - 1) - a) <= Upto(index) + Taken
    /\ j - 1 = index => a = Taken
    /\ j - 1 > index => a = 0

Allotted ==
    Underway /\ ~replaying =>
        \A j \in DOMAIN models :
            models[j].route = "fallback" => LotOf(j, allocations[models[j].key])

BInv == EInv /\ Asked /\ Unique /\ Opening /\ Within /\ Course /\ Allotted

--------------------------------------------------------------------------------
(* Its induction.                                                                 *)

LEMMA TotalTyped == Asked => Total \in Nat
BY CampaignAssumption DEF Asked, Total, Minimum

\* The numbers the parts are about.
LEMMA Figures ==
    ASSUME EInv, Asked
    PROVE  /\ executions \in Nat /\ runs \in Nat /\ Taken \in Nat /\ Total \in Nat /\ limit \in Nat
           /\ index \in Nat /\ Len(models) \in Nat /\ index <= Len(models)
           /\ DOMAIN models = 1 .. Len(models) /\ models \in Seq(ModelSet)
           /\ replaying \in BOOLEAN
           /\ allocations \in [Keys -> Nat]
           /\ \A j \in DOMAIN models : /\ models[j].key \in Keys
                                       /\ allocations[models[j].key] \in Nat
<1>1. /\ executions \in Nat /\ runs \in Nat /\ models \in Seq(ModelSet)
      /\ index \in 0 .. Len(models) /\ replaying \in BOOLEAN /\ allocations \in [Keys -> Nat]
  BY DEF EInv, IInv, Numbers, Shape, Rest
<1>2. Len(models) \in Nat /\ DOMAIN models = 1 .. Len(models)
  BY <1>1, LenProperties
<1>3. ASSUME NEW j \in DOMAIN models PROVE models[j].key \in Keys
  <2>1. j \in 1 .. Len(models)
    BY <1>2
  <2>2. models[j] \in ModelSet
    BY <1>1, <2>1, ElementOfSeq
  <2> QED
    BY <2>2 DEF ModelSet
<1>4. limit \in Nat
  BY DEF Asked
<1> QED
  BY <1>1, <1>2, <1>3, <1>4, TotalTyped DEF Taken

LEMMA InitBudget == Init => BInv
<1> SUFFICES ASSUME Init PROVE BInv
  OBVIOUS
<1>1. pc = "prepare" /\ executions = 0 /\ replaying = FALSE /\ models = <<>>
  BY DEF Init
<1>2. Asked
  BY DEF Init, Asked
<1>3. Unique
  BY <1>1 DEF Unique
<1>4. Opening
  BY <1>1 DEF Init, Opening, Underway, Closed, Sampling, Report
<1>5. Within
  BY <1>1, <1>2, TotalTyped DEF Within, Asked
<1>6. ~Underway
  BY <1>1 DEF Underway, Closed, Sampling
<1> QED
  BY <1>2, <1>3, <1>4, <1>5, <1>6, InitEvidence DEF BInv, Course, Allotted

\* What never changes.
LEMMA Fixed ==
    ASSUME Next
    PROVE  /\ UNCHANGED <<examples, limit, vary, recording>>
           /\ Total' = Total
           /\ ~Prepares => UNCHANGED models /\ (pc \notin Preparations \/ pc' = "raised")
<1>1. UNCHANGED <<examples, limit, vary, recording>>
  BY PrepareFrame DEF Next, Prepares, RunCase, StopRun, Begin, Reject, CaptureInput, Judge,
     Conclude, Fail, Abort, FinishCases, StopAtLimit, Finish, inputs
<1>2. Total' = Total
  BY <1>1 DEF Total
<1> QED
  BY <1>1, <1>2 DEF Next, Prepares, RunCase, StopRun, Begin, Reject, CaptureInput, Judge,
     Conclude, Fail, Abort, FinishCases, StopAtLimit, Finish, Called, preparation, Preparations

LEMMA AppendAt ==
    ASSUME NEW S, NEW s \in Seq(S), NEW e
    PROVE  /\ Len(s) \in Nat /\ DOMAIN s = 1 .. Len(s)
           /\ DOMAIN Append(s, e) = 1 .. Len(s) + 1
           /\ \A j \in 1 .. Len(s) + 1 : Append(s, e)[j] = IF j <= Len(s) THEN s[j] ELSE e
<1> DEFINE T == S \union {e}
<1>1. S \subseteq T /\ e \in T
  OBVIOUS
<1> HIDE DEF T
<1>2. s \in Seq(T)
  BY <1>1, SeqMonotonic
<1>3. /\ Append(s, e) \in Seq(T) /\ Len(Append(s, e)) = Len(s) + 1
      /\ \A j \in 1 .. Len(s) : Append(s, e)[j] = s[j]
      /\ Append(s, e)[Len(s) + 1] = e
  BY <1>1, <1>2, AppendProperties
<1>4. /\ DOMAIN Append(s, e) = 1 .. Len(s) + 1 /\ Len(s) \in Nat
      /\ DOMAIN s = 1 .. Len(s)
  BY <1>2, <1>3, LenProperties
<1> QED
  BY <1>3, <1>4

LEMMA UniqueStep ==
    ASSUME EInv, Unique, Next
    PROVE  Unique'
<1>1. CASE UNCHANGED models
  BY <1>1 DEF Unique
<1>2. CASE Keep
  <2> DEFINE m == Model("fallback", Observations[1], observed[1], FALSE)
  <2>1. \/ models' = models
        \/ models' = Append(models, m) /\ ~Seen(Observations[1])
    BY <1>2 DEF Keep
  <2>2. CASE models' = Append(models, m) /\ ~Seen(Observations[1])
    <3>1. models \in Seq(ModelSet)
      BY DEF EInv, Shape
    <3>2. /\ DOMAIN models = 1 .. Len(models) /\ Len(models) \in Nat
          /\ DOMAIN models' = 1 .. Len(models) + 1
          /\ \A j \in 1 .. Len(models) + 1 : models'[j] = IF j <= Len(models) THEN models[j] ELSE m
      BY <2>2, <3>1, AppendAt
    <3>3. m.key = Observations[1]
      BY DEF Model
    <3>4. \A i \in DOMAIN models : models[i].route = "fallback" => models[i].key # Observations[1]
      BY <2>2 DEF Seen
    <3> HIDE DEF m
    <3>5. ASSUME NEW i \in DOMAIN models', NEW j \in DOMAIN models',
                 models'[i].route = "fallback", models'[j].route = "fallback",
                 models'[i].key = models'[j].key
          PROVE  i = j
      <4>1. CASE i <= Len(models) /\ j <= Len(models)
        <5>1. /\ i \in DOMAIN models /\ j \in DOMAIN models
              /\ models'[i] = models[i] /\ models'[j] = models[j]
          BY <3>2, <4>1
        <5> QED
          BY <3>5, <5>1 DEF Unique
      <4>2. CASE i <= Len(models) /\ ~(j <= Len(models))
        <5>1. i \in DOMAIN models /\ models'[i] = models[i] /\ models'[j] = m
          BY <3>2, <4>2
        <5> QED
          BY <3>3, <3>4, <3>5, <5>1
      <4>3. CASE ~(i <= Len(models)) /\ j <= Len(models)
        <5>1. j \in DOMAIN models /\ models'[j] = models[j] /\ models'[i] = m
          BY <3>2, <4>3
        <5> QED
          BY <3>3, <3>4, <3>5, <5>1
      <4>4. CASE ~(i <= Len(models)) /\ ~(j <= Len(models))
        BY <3>2, <4>4
      <4> QED
        BY <4>1, <4>2, <4>3, <4>4
    <3> QED
      BY <3>5 DEF Unique
  <2> QED
    BY <1>1, <2>1, <2>2
<1>3. CASE Generalize
  <2> DEFINE m == Model("generalized", Observations[1], NextId, TRUE)
  <2>1. models' = Append(models, m) /\ m.route = "generalized"
    BY <1>3 DEF Generalize, Model
  <2>2. models \in Seq(ModelSet)
    BY DEF EInv, Shape
  <2>3. /\ DOMAIN models = 1 .. Len(models) /\ Len(models) \in Nat
        /\ DOMAIN models' = 1 .. Len(models) + 1
        /\ \A j \in 1 .. Len(models) + 1 : models'[j] = IF j <= Len(models) THEN models[j] ELSE m
    BY <2>1, <2>2, AppendAt
  <2> HIDE DEF m
  <2>4. ASSUME NEW i \in DOMAIN models', models'[i].route = "fallback"
        PROVE  i \in DOMAIN models /\ models'[i] = models[i]
    BY <2>1, <2>3, <2>4
  <2> QED
    BY <2>4 DEF Unique
<1>4. ASSUME NEW k \in Keys, PrepareGeneralized(k) PROVE Unique'
  <2>1. PICK m : models' = <<m>>
    BY <1>4 DEF PrepareGeneralized
  <2>2. DOMAIN models' = {1}
    BY <2>1
  <2> QED
    BY <2>2 DEF Unique
<1>5. CASE Observe \/ FallBack \/ FinishPreparation
  BY <1>1, <1>5 DEF Observe, FallBack, FinishPreparation, preparation
<1> QED
  BY <1>1, <1>2, <1>3, <1>4, <1>5, Fixed DEF Next, Prepares, RunCase, StopRun, Begin, Reject,
     CaptureInput, Judge, Conclude, Fail, Abort, FinishCases, StopAtLimit, Finish, preparation

LEMMA OpeningStep ==
    ASSUME EInv, Opening, Next
    PROVE  Opening'
<1>1. CASE Prepares
  <2>1. /\ UNCHANGED <<executions, allocations, replaying, report>>
        /\ pc \in Preparations /\ pc' \in {"prepare", "keep", "case", "returned"}
    BY <1>1, PrepareFrame DEF Preparations
  <2>2. pc' = "case" => models' # <<>>
    BY <1>1 DEF Prepares, Observe, Generalize, FallBack, Keep, FinishPreparation,
       PrepareGeneralized, preparation, Preparing
  <2>3. report.processing = "incomplete" /\ report'.processing = "incomplete"
    BY <2>1 DEF Opening, Preparations
  <2> QED
    BY <2>1, <2>2, <2>3 DEF Opening, Preparations, Underway, Closed, Sampling
<1>2. CASE RunCase \/ StopRun \/ Reject \/ CaptureInput
  BY <1>2 DEF RunCase, StopRun, Reject, CaptureInput, Called, preparation, tallies, Opening,
     Preparations, Underway, Closed, Sampling
<1>3. CASE Begin
  <2>1. report'.processing = report.processing
    BY <1>3 DEF Begin, EInv, IInv, Published
  <2> QED
    BY <1>3, <2>1 DEF Begin, Called, preparation, Opening, Preparations, Underway, Closed, Sampling
<1>4. ASSUME NEW r, NEW a, NEW d, Judge(r, a, d) PROVE Opening'
  BY <1>4 DEF Judge, preparation, Opening, Preparations, Underway, Closed, Sampling
<1>5. CASE Conclude
  <2>1. report'.processing = report.processing
    BY <1>5 DEF Conclude, EInv, IInv, Published
  <2> QED
    BY <1>5, <2>1 DEF Conclude, preparation, Opening, Preparations, Underway, Closed, Sampling
<1>6. CASE Fail \/ Abort
  BY <1>6 DEF Fail, Abort, preparation, Opening, Preparations, Underway, Closed, Sampling
<1>7. CASE FinishCases
  BY <1>7 DEF FinishCases, Finish, preparation, Opening, Preparations, Underway, Closed, Sampling
<1>8. CASE StopAtLimit
  <2>1. report'.processing = "incomplete"
    BY <1>8 DEF StopAtLimit, Finish, EInv, IInv, Published
  <2> QED
    BY <1>8, <2>1 DEF StopAtLimit, Finish, Opening, Preparations, Underway, Closed, Sampling
<1> QED
  BY <1>1, <1>2, <1>3, <1>4, <1>5, <1>6, <1>7, <1>8 DEF Next, Prepares

\* The steps of the runs, as the shares see them: a sample begins, a run is over, and
\* otherwise nothing of either.
Quiet == /\ UNCHANGED <<index, executions, allocations, replaying, models>>
         /\ Taken' = Taken
         /\ pc \in Sampling /\ pc' \in Sampling
         /\ pc' = "draw" /\ pc # "draw" => replaying = FALSE
Begins == /\ pc = "draw" /\ pc' = "input" /\ UNCHANGED <<index, replaying, models>>
          /\ executions' = executions + 1 /\ Taken' = Taken + 1 /\ Taken = runs
          /\ Called /\ ~Exhausted /\ Allocate
Opens == /\ UNCHANGED <<index, executions, allocations, replaying, models>>
         /\ pc = "case" /\ pc' = "draw" /\ index < Len(models) /\ Taken = 0 /\ Taken' = 0
Advances == /\ UNCHANGED <<executions, allocations, replaying, models>>
            /\ index < Len(models) /\ index' = index + 1 /\ pc' = "case" /\ Taken' = 0
            /\ \/ pc = "case" /\ ~(CaseBudget(index) > 0) /\ Taken = 0
               \/ pc = "draw" /\ replaying = FALSE
Raises == /\ UNCHANGED <<index, executions, allocations, models>>
          /\ \/ pc' = "raised" /\ replaying' = replaying
             \/ pc \in Busy /\ replaying' /\ ((pc' = "draw" /\ ~replaying) \/ pc' = "raised")
Concludes == /\ UNCHANGED <<index, executions, allocations, replaying, models>>
         /\ pc' = "returned"
         /\ \/ pc = "case" /\ index = Len(models)
            \/ pc = "draw" /\ report'.processing = "incomplete"

LEMMA StepKinds ==
    ASSUME EInv, Next
    PROVE  Prepares \/ Quiet \/ Begins \/ Opens \/ Advances \/ Raises \/ Concludes
<1> USE DEF Taken, Busy, Sampling, preparation, tallies
<1>0. /\ runs \in Nat /\ index \in 0 .. Len(models) /\ (pc \in Sampling => index < Len(models))
      /\ replaying \in BOOLEAN
  BY DEF EInv, Rest, Shape, IInv, Numbers
<1>1. CASE RunCase
  <2>1. CASE CaseBudget(index) > 0
    BY <1>1, <2>1 DEF RunCase, Opens
  <2>2. CASE ~(CaseBudget(index) > 0)
    BY <1>1, <2>2 DEF RunCase, Advances
  <2> QED
    BY <2>1, <2>2
<1>2. CASE StopRun
  BY <1>0, <1>2 DEF StopRun, Advances
<1>3. CASE Begin
  BY <1>0, <1>3 DEF Begin, Begins, Called
<1>4. CASE Reject
  BY <1>0, <1>4 DEF Reject, Called, Quiet, Raises
<1>5. CASE CaptureInput
  BY <1>5 DEF CaptureInput, Quiet
<1>6. ASSUME NEW r, NEW a, NEW d, Judge(r, a, d) PROVE Quiet
  BY <1>6 DEF Judge, Quiet
<1>7. CASE Conclude
  BY <1>0, <1>7 DEF Conclude, Quiet, Raises
<1>8. CASE Fail \/ Abort
  BY <1>0, <1>8 DEF Fail, Abort, Raises
<1>9. CASE FinishCases
  BY <1>9 DEF FinishCases, Finish, Concludes
<1>10. CASE StopAtLimit
  <2>1. report'.processing = "incomplete"
    BY <1>10 DEF StopAtLimit, Finish, EInv, IInv, Published
  <2> QED
    BY <1>10, <2>1 DEF StopAtLimit, Finish, Called, Concludes
<1> QED
  BY <1>1, <1>2, <1>3, <1>4, <1>5, <1>6, <1>7, <1>8, <1>9, <1>10 DEF Next, Prepares

\* The shares do not move with a step that keeps the models.
LEMMA SharesFixed ==
    ASSUME Next, UNCHANGED models
    PROVE  /\ \A i : Upto(i)' = Upto(i)
           /\ \A i : CaseBudget(i)' = CaseBudget(i)
BY Fixed DEF Upto, CaseBudget, Minimum

\* What the shares are while the runs are under way.
LEMMA AtRuns ==
    ASSUME EInv, Asked, models # <<>>
    PROVE  /\ Len(models) \in Nat \ {0} /\ Upto(0) = 0
           /\ Upto(index) \in Nat /\ Upto(index) <= Total
           /\ index < Len(models) => /\ CaseBudget(index) \in Nat
                                    /\ Upto(index + 1) = Upto(index) + CaseBudget(index)
                                    /\ Upto(index + 1) <= Total /\ Upto(index + 1) \in Nat
           /\ \A j \in DOMAIN models : CaseBudget(j - 1) \in Nat
<1>1. /\ Len(models) \in Nat \ {0} /\ Upto(0) = 0
      /\ \A i \in 0 .. Len(models) - 1 :
            CaseBudget(i) \in Nat /\ Upto(i + 1) = Upto(i) + CaseBudget(i)
      /\ \A i \in 0 .. Len(models) : Upto(i) \in Nat /\ Upto(i) <= Total
  BY Figures, Shares
<1>2. index \in 0 .. Len(models) /\ DOMAIN models = 1 .. Len(models)
  BY Figures
<1>3. Upto(index) \in Nat /\ Upto(index) <= Total
  BY <1>1, <1>2
<1>4. ASSUME index < Len(models)
      PROVE  /\ CaseBudget(index) \in Nat /\ Upto(index + 1) = Upto(index) + CaseBudget(index)
             /\ Upto(index + 1) <= Total /\ Upto(index + 1) \in Nat
  <2>1. index \in 0 .. Len(models) - 1 /\ index + 1 \in 0 .. Len(models)
    BY <1>1, <1>2, <1>4
  <2> QED
    BY <1>1, <2>1
<1>5. ASSUME NEW j \in DOMAIN models PROVE CaseBudget(j - 1) \in Nat
  <2>1. j - 1 \in 0 .. Len(models) - 1
    BY <1>1, <1>2
  <2> QED
    BY <1>1, <2>1
<1> QED
  BY <1>1, <1>3, <1>4, <1>5

LEMMA CourseStep ==
    ASSUME EInv, Asked, Opening, Course, Next
    PROVE  Course'
<1>0. /\ executions \in Nat /\ runs \in Nat /\ Taken \in Nat /\ index \in Nat
      /\ replaying \in BOOLEAN
  BY Figures
<1> SUFFICES ASSUME Underway', ~replaying'
             PROVE  /\ executions' <= Upto(index)' + Taken'
                    /\ pc' \in Sampling => Taken' <= CaseBudget(index)'
  BY DEF Course
<1>1. CASE Prepares
  <2>1. /\ pc' \in {"prepare", "keep", "case", "returned"} /\ executions' = 0 /\ index' = 0
        /\ report'.processing = "incomplete"
    <3>1. /\ pc \in Preparations /\ UNCHANGED <<executions, index, report>>
          /\ pc' \in {"prepare", "keep", "case", "returned"}
      BY <1>1, PrepareFrame DEF Preparations
    <3>2. executions = 0 /\ index = 0 /\ report.processing = "incomplete"
      BY <3>1 DEF Opening, EInv, Shape, Preparations
    <3> QED
      BY <3>1, <3>2
  <2>2. pc' = "case" /\ Taken' = 0
    BY <2>1 DEF Underway, Closed, Sampling, Taken, Busy
  <2>3. FinishPreparation /\ models # <<>> /\ UNCHANGED models
    BY <1>1, <2>2 DEF Prepares, Observe, Generalize, FallBack, Keep, PrepareGeneralized,
       FinishPreparation, preparation, Preparing
  <2>4. Upto(0)' = Upto(0) /\ Upto(0) = 0
    BY <2>3, SharesFixed, AtRuns
  <2>5. Upto(index)' = 0
    BY <2>1, <2>4 DEF Upto
  <2> QED
    BY <2>1, <2>2, <2>5 DEF Sampling
<1>2. CASE Quiet
  <2>1. Underway /\ ~replaying
    BY <1>2 DEF Quiet, Underway
  <2>2. Upto(index)' = Upto(index) /\ CaseBudget(index)' = CaseBudget(index)
    BY <1>2, SharesFixed DEF Quiet, Upto, CaseBudget
  <2> QED
    BY <1>2, <2>1, <2>2 DEF Quiet, Course
<1>3. CASE Begins
  <2>1. Underway /\ ~replaying /\ models # <<>>
    BY <1>3 DEF Begins, Underway, Sampling, Opening
  <2>2. Upto(index)' = Upto(index) /\ CaseBudget(index)' = CaseBudget(index)
    BY <1>3, SharesFixed DEF Begins, Upto, CaseBudget
  <2>3. runs < CaseBudget(index) /\ CaseBudget(index) \in Nat
    <3>1. index < Len(models)
      BY <1>3 DEF Begins, EInv, Shape, Sampling
    <3> QED
      BY <1>3, <2>1, <3>1, AtRuns DEF Begins, Called
  <2>4. executions <= Upto(index) + Taken /\ Upto(index) \in Nat
    BY <2>1, AtRuns DEF Course
  <2> QED
    BY <1>0, <1>3, <2>2, <2>3, <2>4 DEF Begins
<1>4. CASE Opens
  <2>1. Underway /\ ~replaying /\ models # <<>>
    BY <1>4 DEF Opens, Underway, Opening
  <2>2. Upto(index)' = Upto(index) /\ CaseBudget(index)' = CaseBudget(index)
    BY <1>4, SharesFixed DEF Opens, Upto, CaseBudget
  <2>3. CaseBudget(index) \in Nat
    BY <1>4, <2>1, AtRuns DEF Opens
  <2> QED
    BY <1>0, <1>4, <2>1, <2>2, <2>3 DEF Opens, Course
<1>5. CASE Advances
  <2>1. Underway /\ ~replaying /\ models # <<>>
    BY <1>5 DEF Advances, Underway, Opening, Sampling
  <2>2. Upto(index)' = Upto(index + 1)
    BY <1>5, SharesFixed DEF Advances, Upto
  <2>3. /\ CaseBudget(index) \in Nat /\ Upto(index) \in Nat
        /\ Upto(index + 1) = Upto(index) + CaseBudget(index)
    BY <1>5, <2>1, AtRuns DEF Advances
  <2>4. Taken <= CaseBudget(index)
    BY <1>5, <2>1, <2>3 DEF Advances, Course, Sampling
  <2>5. executions <= Upto(index) + Taken
    BY <2>1 DEF Course
  <2> QED
    BY <1>0, <1>5, <2>2, <2>3, <2>4, <2>5 DEF Advances, Sampling
<1>6. CASE Raises
  BY <1>6 DEF Raises, Underway, Closed, Sampling
<1>7. CASE Concludes
  <2>1. pc = "case"
    BY <1>7 DEF Concludes, Underway, Closed, Sampling
  <2>2. Underway /\ ~replaying /\ Taken = 0 /\ Taken' = 0
    BY <1>7, <2>1 DEF Concludes, Underway, Taken, Busy
  <2>3. Upto(index)' = Upto(index)
    BY <1>7, SharesFixed DEF Concludes, Upto
  <2> QED
    BY <1>7, <2>2, <2>3 DEF Concludes, Course, Sampling
<1> QED
  BY <1>1, <1>2, <1>3, <1>4, <1>5, <1>6, <1>7, StepKinds

LEMMA WithinStep ==
    ASSUME EInv, Asked, Opening, Course, Within, Next
    PROVE  Within'
<1>0. /\ executions \in Nat /\ runs \in Nat /\ Taken \in Nat /\ index \in Nat /\ Total \in Nat
      /\ replaying \in BOOLEAN /\ limit \in Nat
  BY Figures
<1>1. Total' = Total /\ limit' = limit
  BY Fixed
<1>2. CASE Prepares
  <2>1. UNCHANGED <<executions, replaying>> /\ pc' # "draw"
    BY <1>2, PrepareFrame
  <2> QED
    BY <1>1, <2>1 DEF Within
<1>3. CASE Quiet
  <2>1. UNCHANGED <<executions, replaying>> /\ (pc' = "draw" /\ replaying => pc = "draw")
    BY <1>3 DEF Quiet
  <2> QED
    BY <1>1, <2>1 DEF Within
<1>4. CASE Opens \/ Advances \/ Concludes
  <2>1. UNCHANGED <<executions, replaying>> /\ (pc' = "draw" => replaying = FALSE)
    BY <1>4 DEF Opens, Advances, Concludes, Opening
  <2> QED
    BY <1>1, <2>1 DEF Within
<1>5. CASE Begins
  <2>1. limit # 0 => executions < limit
    BY <1>0, <1>5 DEF Begins, Exhausted
  <2>2. CASE replaying
    BY <1>0, <1>1, <1>5, <2>1, <2>2 DEF Begins, Within
  <2>3. CASE ~replaying
    <3>1. executions' <= Upto(index) + (runs + 1)
      <4>1. Underway
        BY <1>5 DEF Begins, Underway, Sampling
      <4>2. executions <= Upto(index) + Taken /\ models # <<>>
        BY <2>3, <4>1 DEF Course, Opening
      <4> QED
        BY <1>0, <1>5, <4>2, AtRuns DEF Begins
    <3>2. runs + 1 <= CaseBudget(index) /\ Upto(index) + CaseBudget(index) <= Total
      <4>1. index < Len(models) /\ models # <<>>
        BY <1>5 DEF Begins, EInv, Shape, Sampling, Opening, Underway
      <4> QED
        BY <1>0, <1>5, <2>3, <4>1, AtRuns DEF Begins, Called
    <3>3. Upto(index) \in Nat /\ CaseBudget(index) \in Nat
      <4>1. index < Len(models) /\ models # <<>>
        BY <1>5 DEF Begins, EInv, Shape, Sampling, Opening, Underway
      <4> QED
        BY <4>1, AtRuns
    <3>4. executions' <= Total
      BY <1>0, <1>5, <3>1, <3>2, <3>3 DEF Begins
    <3> QED
      BY <1>0, <1>1, <1>5, <2>1, <2>3, <3>4 DEF Begins, Within
  <2> QED
    BY <2>2, <2>3
<1>6. CASE Raises
  <2>1. executions' = executions /\ (replaying => replaying')
    BY <1>6 DEF Raises
  <2>2. CASE pc' = "draw"
    <3>1. pc \in Busy /\ ~replaying /\ replaying'
      BY <1>6, <2>2 DEF Raises
    <3>2. executions <= Upto(index) + Taken /\ Taken <= CaseBudget(index)
      BY <3>1 DEF Course, Underway, Sampling, Busy
    <3>3. index < Len(models) /\ models # <<>>
      BY <3>1 DEF EInv, Shape, Sampling, Busy, Opening, Underway
    <3>4. executions <= Total
      BY <1>0, <3>2, <3>3, AtRuns
    <3> QED
      BY <1>0, <1>1, <2>1, <3>4 DEF Within
  <2>3. CASE pc' # "draw"
    BY <1>0, <1>1, <2>1, <2>3 DEF Within
  <2> QED
    BY <2>2, <2>3
<1> QED
  BY <1>2, <1>3, <1>4, <1>5, <1>6, StepKinds

LEMMA AllottedStep ==
    ASSUME EInv, Asked, Unique, Opening, Course, Allotted, Next
    PROVE  Allotted'
<1>0. /\ executions \in Nat /\ runs \in Nat /\ Taken \in Nat /\ index \in Nat
      /\ replaying \in BOOLEAN /\ DOMAIN models = 1 .. Len(models) /\ Len(models) \in Nat
      /\ allocations \in [Keys -> Nat] /\ index <= Len(models)
  BY Figures
<1> SUFFICES ASSUME Underway', ~replaying', NEW j \in DOMAIN models',
                    models'[j].route = "fallback"
             PROVE  LotOf(j, allocations[models[j].key])'
  BY DEF Allotted
<1>1. CASE Prepares
  <2>1. /\ pc' = "case" /\ index' = 0 /\ FinishPreparation /\ UNCHANGED <<models, allocations>>
        /\ pc \in Preparations
    <3>1. /\ pc \in Preparations /\ UNCHANGED <<index, report, allocations>>
          /\ pc' \in {"prepare", "keep", "case", "returned"}
      BY <1>1, PrepareFrame DEF Preparations
    <3>2. index = 0 /\ report.processing = "incomplete"
      BY <3>1 DEF Opening, EInv, Shape, Preparations
    <3>3. pc' = "case"
      BY <3>1, <3>2 DEF Underway, Closed, Sampling
    <3>4. FinishPreparation
      BY <1>1, <3>3 DEF Prepares, Observe, Generalize, FallBack, Keep, PrepareGeneralized,
         Preparing
    <3> QED
      BY <3>1, <3>2, <3>3, <3>4 DEF FinishPreparation, preparation
  <2>2. allocations'[models'[j].key] = 0
    <3>1. models[j].key \in Keys
      BY <2>1, Figures
    <3> QED
      BY <2>1, <3>1 DEF Opening
  <2>3. Taken' = 0 /\ j \in 1 .. Len(models)
    BY <1>0, <2>1 DEF Taken, Busy
  <2> QED
    BY <2>1, <2>2, <2>3 DEF LotOf
<1>2. ASSUME UNCHANGED models
      PROVE  /\ j \in DOMAIN models /\ models'[j] = models[j] /\ models[j].route = "fallback"
             /\ models[j].key \in Keys /\ allocations[models[j].key] \in Nat
             /\ \A i : Upto(i)' = Upto(i) /\ CaseBudget(i)' = CaseBudget(i)
             /\ j \in 1 .. Len(models) /\ models # <<>> /\ CaseBudget(j - 1) \in Nat
  <2>1. j \in DOMAIN models /\ models'[j] = models[j] /\ models[j].route = "fallback"
    BY <1>2
  <2>2. models[j].key \in Keys /\ allocations[models[j].key] \in Nat /\ j \in 1 .. Len(models)
    BY <2>1, Figures
  <2>3. models # <<>>
    BY <2>1
  <2> QED
    BY <1>2, <2>1, <2>2, <2>3, AtRuns, SharesFixed
<1> DEFINE a == allocations[models[j].key]
<1>3. CASE Quiet \/ Opens \/ Concludes
  <2>1. /\ UNCHANGED <<index, executions, allocations, models>> /\ ~replaying /\ Underway
        /\ Taken' = Taken
    <3>1. CASE Quiet
      BY <3>1 DEF Quiet, Underway
    <3>2. CASE Opens
      BY <3>2 DEF Opens, Underway
    <3>3. CASE Concludes
      <4>1. pc = "case"
        BY <3>3 DEF Concludes, Underway, Closed, Sampling
      <4> QED
        BY <3>3, <4>1 DEF Concludes, Underway, Taken, Busy
    <3> QED
      BY <1>3, <3>1, <3>2, <3>3
  <2>2. LotOf(j, a)
    BY <1>2, <2>1 DEF Allotted
  <2>3. /\ Upto(index)' = Upto(index) /\ CaseBudget(j - 1)' = CaseBudget(j - 1)
        /\ (allocations[models[j].key])' = a
    BY <1>2, <2>1 DEF Upto, CaseBudget
  <2> QED
    BY <2>1, <2>2, <2>3 DEF LotOf
<1>4. CASE Begins
  <2>1. ~replaying /\ Underway /\ UNCHANGED models /\ index' = index /\ index < Len(models)
    BY <1>4 DEF Begins, Underway, Sampling, EInv, Shape
  <2>2. LotOf(j, a)
    BY <1>2, <2>1 DEF Allotted
  <2>3. Upto(index)' = Upto(index) /\ CaseBudget(j - 1)' = CaseBudget(j - 1)
    BY <1>2, <2>1 DEF Upto, CaseBudget
  <2>4. Upto(index) \in Nat /\ CaseBudget(j - 1) \in Nat /\ a \in Nat
    BY <1>2, <2>1, AtRuns
  <2>5. CASE j - 1 = index
    <3>1. Selected = models[j]
      BY <1>0, <1>2, <2>1, <2>5 DEF Selected
    <3>2. allocations' = [allocations EXCEPT ![models[j].key] = @ + 1]
      BY <1>2, <1>4, <2>1, <3>1 DEF Begins, Allocate
    <3>3. allocations'[models'[j].key] = a + 1
      BY <1>0, <1>2, <2>1, <3>2
    <3> QED
      BY <1>0, <1>4, <2>1, <2>2, <2>5, <3>3 DEF Begins, LotOf
  <2>6. CASE j - 1 # index
    <3>1. allocations'[models'[j].key] = a
      <4>1. CASE Selected.route = "fallback"
        <5>1. index + 1 \in DOMAIN models /\ index + 1 # j
          BY <1>0, <1>2, <2>1, <2>6
        <5>2. Selected.key # models[j].key
          BY <1>2, <2>1, <4>1, <5>1 DEF Unique, Selected
        <5>3. allocations' = [allocations EXCEPT ![Selected.key] = @ + 1]
          BY <1>4, <4>1 DEF Begins, Allocate
        <5> QED
          BY <1>0, <1>2, <2>1, <5>2, <5>3
      <4>2. CASE Selected.route # "fallback"
        BY <1>2, <1>4, <2>1, <4>2 DEF Begins, Allocate
      <4> QED
        BY <4>1, <4>2
    <3>2. executions' = executions + 1 /\ Taken' = Taken + 1
      BY <1>4 DEF Begins
    <3> HIDE DEF a
    <3> QED
      BY <1>0, <2>1, <2>2, <2>3, <2>4, <2>6, <3>1, <3>2 DEF LotOf
  <2> QED
    BY <2>5, <2>6
<1>5. CASE Advances
  <2>1. /\ ~replaying /\ Underway /\ UNCHANGED <<models, executions, allocations>>
        /\ index' = index + 1 /\ index < Len(models) /\ Taken' = 0
    BY <1>5 DEF Advances, Underway, Sampling, Opening
  <2>2. LotOf(j, a)
    BY <1>2, <2>1 DEF Allotted
  <2>3. /\ Upto(index)' = Upto(index + 1) /\ CaseBudget(j - 1)' = CaseBudget(j - 1)
        /\ (allocations[models[j].key])' = a
    BY <1>2, <2>1 DEF Upto, CaseBudget
  <2>4. /\ Upto(index) \in Nat /\ CaseBudget(j - 1) \in Nat /\ a \in Nat
        /\ CaseBudget(index) \in Nat /\ Upto(index + 1) = Upto(index) + CaseBudget(index)
    BY <1>2, <2>1, AtRuns
  <2>5. Taken <= CaseBudget(index)
    BY <1>5, <2>1, <2>4 DEF Advances, Course, Sampling
  <2>6. executions <= Upto(index) + Taken
    BY <2>1 DEF Course
  <2> HIDE DEF a
  <2>7. CASE j - 1 < index
    BY <1>0, <1>2, <2>1, <2>2, <2>3, <2>4, <2>5, <2>7 DEF LotOf
  <2>8. CASE j - 1 = index
    <3>1. a = Taken /\ a <= CaseBudget(j - 1) /\ CaseBudget(j - 1) = CaseBudget(index)
      BY <2>2, <2>5, <2>8 DEF LotOf
    <3>2. executions + (CaseBudget(j - 1) - a) <= Upto(index + 1)
      BY <1>0, <2>4, <2>6, <3>1
    <3>3. ~(j - 1 = index') /\ ~(j - 1 > index')
      BY <1>0, <1>2, <2>1, <2>8
    <3>4. (allocations[models[j].key] <= CaseBudget(j - 1))'
      BY <2>3, <3>1
    <3>5. Upto(index)' + Taken' = Upto(index + 1)
      BY <1>0, <2>1, <2>3, <2>4
    <3>6. (executions + (CaseBudget(j - 1) - allocations[models[j].key]) <= Upto(index) + Taken)'
      BY <2>1, <2>3, <3>2, <3>5
    <3> QED
      BY <3>3, <3>4, <3>6 DEF LotOf
  <2>9. CASE j - 1 > index
    BY <1>0, <1>2, <2>1, <2>2, <2>3, <2>9 DEF LotOf
  <2> QED
    BY <1>0, <1>2, <2>1, <2>7, <2>8, <2>9
<1>6. CASE Raises
  BY <1>6 DEF Raises, Underway, Closed, Sampling
<1> QED
  BY <1>1, <1>3, <1>4, <1>5, <1>6, StepKinds

LEMMA NextBudget == BInv /\ Next => BInv'
<1> SUFFICES ASSUME BInv, Next PROVE BInv'
  OBVIOUS
<1>1. Asked'
  BY Fixed DEF BInv, Asked
<1> QED
  BY <1>1, NextEvidence, UniqueStep, OpeningStep, WithinStep, CourseStep, AllottedStep DEF BInv

LEMMA StutterBudget == BInv /\ UNCHANGED vars => BInv'
<1> SUFFICES ASSUME BInv, UNCHANGED vars PROVE BInv'
  OBVIOUS
<1>1. /\ UNCHANGED <<examples, limit, vary, recording, pc, models, index, runs, replaying>>
      /\ UNCHANGED <<executions, allocations, report>>
  BY DEF vars, inputs, preparation, tallies
<1>2. EInv'
  BY StutterEvidence DEF BInv
<1>3. Asked' /\ Unique' /\ Opening'
  BY <1>1 DEF BInv, Asked, Unique, Opening, Underway, Closed
<1>4. Total' = Total /\ Taken' = Taken /\ Underway' = Underway
  BY <1>1 DEF Total, Taken, Underway, Closed
<1>5. Within'
  BY <1>1, <1>4 DEF BInv, Within
<1>6. \A i : Upto(i)' = Upto(i) /\ CaseBudget(i)' = CaseBudget(i)
  BY <1>1, <1>4 DEF Upto, CaseBudget
<1>7. Upto(index)' = Upto(index) /\ CaseBudget(index)' = CaseBudget(index)
  BY <1>1, <1>4 DEF Upto, CaseBudget
<1>8. Course'
  BY <1>1, <1>4, <1>7 DEF BInv, Course
<1>9. Allotted'
  BY <1>1, <1>4, <1>6, <1>7 DEF BInv, Allotted, LotOf
<1> QED
  BY <1>2, <1>3, <1>5, <1>8, <1>9 DEF BInv

LEMMA SpecBudget == Spec => []BInv
<1>1. BInv /\ [Next]_vars => BInv'
  BY NextBudget, StutterBudget
<1> QED
  BY <1>1, InitBudget, PTL DEF Spec

--------------------------------------------------------------------------------
(* The theorems.                                                                  *)

\* For any budget, any limit and any number of models a campaign executes no more than
\* asked for, but for the one replay, which the limit still stops.
THEOREM BudgetIsKept == Spec => []WithinBudget
<1>1. BInv => WithinBudget
  BY DEF BInv, Within, WithinBudget
<1> QED
  BY <1>1, SpecBudget, PTL

\* For any budget and any number of models a complete report gave each fallback model
\* what it announced, if every sample was executed, and never more.
THEOREM SharesStayKept == Spec => []SharesAreKept
<1>1. BInv => SharesAreKept
  <2> SUFFICES ASSUME BInv, pc = "returned", report.processing = "complete"
               PROVE  /\ executions <= Total
                      /\ \A k \in DOMAIN Planned :
                            /\ allocations[k] <= Planned[k]
                            /\ executions = Total => allocations[k] = Planned[k]
    BY DEF SharesAreKept
  <2>1. /\ index = Len(models) /\ replaying = FALSE /\ models # <<>> /\ Underway
        /\ Taken = 0 /\ pc \notin Sampling
    BY DEF BInv, Opening, Underway, Closed, Taken, Busy, Sampling
  <2>2. /\ executions \in Nat /\ DOMAIN models = 1 .. Len(models) /\ Len(models) \in Nat
        /\ Total \in Nat
    BY Figures DEF BInv
  <2>3. Upto(index) = Total
    BY <2>1, <2>2, Figures, Shares DEF BInv
  <2>4. executions <= Total
    BY <2>1, <2>2, <2>3 DEF BInv, Course
  <2>5. ASSUME NEW k \in DOMAIN Planned
        PROVE  /\ allocations[k] <= Planned[k]
               /\ executions = Total => allocations[k] = Planned[k]
    <3>1. PICK j \in DOMAIN models : models[j].route = "fallback" /\ models[j].key = k
      BY DEF Planned
    <3> DEFINE P(l) == /\ models[l].route = "fallback" /\ models[l].key = k
                       /\ \A m \in l + 1 .. Len(models) :
                             models[m].route = "fallback" => models[m].key # k
               last == CHOOSE l \in DOMAIN models : P(l)
    <3>2. P(j)
      <4>1. ASSUME NEW m \in j + 1 .. Len(models), models[m].route = "fallback",
                   models[m].key = k
            PROVE  FALSE
        <5>1. m \in DOMAIN models /\ m # j
          BY <2>2, <4>1
        <5> QED
          BY <3>1, <4>1, <5>1 DEF BInv, Unique
      <4> QED
        BY <3>1, <4>1
    <3>3. last \in DOMAIN models /\ P(last)
      BY <3>2
    <3>4. last = j
      <4>1. models[last].route = "fallback" /\ models[last].key = k
        BY <3>3
      <4> HIDE DEF last
      <4> QED
        BY <3>1, <3>3, <4>1 DEF BInv, Unique
    <3>5. Planned[k] = CaseBudget(j - 1)
      <4>1. Planned[k] = Share(last - 1)
        BY DEF Planned
      <4> HIDE DEF last
      <4> QED
        BY <3>4, <4>1 DEF Share, CaseBudget
    <3>6. j - 1 < index
      BY <2>1, <2>2
    <3>7. /\ allocations[k] <= CaseBudget(j - 1)
          /\ executions + (CaseBudget(j - 1) - allocations[k]) <= Total
      BY <2>1, <2>2, <2>3, <3>1, <3>6, AtRuns DEF BInv, Allotted, LotOf
    <3>8. CaseBudget(j - 1) \in Nat /\ allocations[k] \in Nat
      BY <2>1, <3>1, AtRuns, Figures DEF BInv
    <3> QED
      BY <2>2, <3>5, <3>7, <3>8
  <2> QED
    BY <2>4, <2>5
<1> QED
  BY <1>1, SpecBudget, PTL

\* For any catalog, budget and number of rejected draws, a report between two samples
\* counts exactly the inputs and the comparisons that were recorded, outcome by outcome,
\* and so does a complete report: none stands for a run in which a sample was replayed.
THEOREM EvidenceStaysComplete == Spec => []EvidenceMatchesReport
<1>1. BInv => EvidenceMatchesReport
  <2> SUFFICES ASSUME BInv, recording,
                      report.processing = "complete" \/ ~(replaying \/ report.active)
               PROVE  Agrees
    BY DEF EvidenceMatchesReport, Agrees
  <2>1. IInv /\ Tallied /\ Opening
    BY DEF BInv, EInv
  <2>2. ~replaying /\ ~report.active
    <3>1. CASE report.processing = "complete"
      <4>1. pc = "returned" /\ ~replaying
        BY <2>1, <3>1 DEF Opening, Closed
      <4> QED
        BY <2>1, <4>1 DEF IInv, Account, Idle
    <3> QED
      BY <3>1
  <2>3. pc \in Idle \/ pc = "raised"
    BY <2>1, <2>2 DEF IInv, Account, Places
  <2>4. CASE pc \in Idle
    <3>1. report.counts = counts /\ report.executions = executions
      BY <2>1, <2>2, <2>4 DEF IInv, Account, Published
    <3> QED
      BY <2>1, <2>2, <2>4, <3>1 DEF Tallied, Agrees
  <2>5. CASE pc = "raised"
    BY <2>1, <2>2, <2>5 DEF Tallied
  <2> QED
    BY <2>3, <2>4, <2>5
<1> QED
  BY <1>1, SpecBudget, PTL
================================================================================
