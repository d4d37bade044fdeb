------------------------- MODULE CampaignEvidenceProofs -------------------------
(* What a campaign records, for any catalog: which model an input names, which     *)
(* input a comparison hangs on, and which disagreement is the witness. The         *)
(* invariant follows an identifier from the preparation that records a model,      *)
(* through the case that keeps it, to the sample that is given it; every step      *)
(* only adds to the evidence, so that an identifier keeps naming its record.       *)
EXTENDS FuzzCampaignProofs, SequenceTheorems, FiniteSetTheorems

--------------------------------------------------------------------------------
(* The invariant, in parts.                                                       *)

ModelSet == [route : {"generalized", "fallback"}, key : Keys, id : Int, template : BOOLEAN]
Kinds == {"model", "acquisition", "generalization", "instantiation", "finding", "input",
          "comparison"}
Evidence == [kind : Kinds, context : Int, key : Keys \union {"none"}, model : Int,
             sample : Nat, outcome : Outcomes \union {"none"}]

Preparations == {"prepare", "keep"}
Sampling == {"draw", "input", "judge", "conclude"}

\* Where the campaign is in the list of its models, which only its preparation makes.
Shape ==
    /\ models \in Seq(ModelSet)
    /\ index \in 0 .. Len(models)
    /\ pc \in Preparations => index = 0 /\ first = 0
    /\ pc \in Sampling => index < Len(models)
    /\ recording \in BOOLEAN /\ vary \in BOOLEAN

\* What prepare has left to do.
Pending ==
    /\ plan \in Seq(Cases) /\ observed \in Seq(Int) /\ comparable \subseteq Keys
    /\ plan # <<>> => Len(observed) <= Len(Observations)
    /\ pc = "keep" => plan # <<>> /\ AllObserved
    /\ ~vary => \A i \in DOMAIN plan : plan[i].template = FALSE

--------------------------------------------------------------------------------
(* The preparation and the models.                                                *)

LEMMA CaseFields ==
    ASSUME NEW c \in Cases
    PROVE  /\ c.template \in BOOLEAN
           /\ c.observations \in Seq(Keys) /\ c.observations # <<>>
           /\ Len(c.observations) \in Nat \ {0}
<1>1. /\ c.template \in BOOLEAN
      /\ c.observations \in Seq(Keys) /\ c.observations # <<>>
  BY DEF Cases
<1> QED
  BY <1>1, EmptySeq

\* The case at hand, and the cases after it.
LEMMA PlanHead ==
    ASSUME plan \in Seq(Cases), plan # <<>>
    PROVE  /\ Head(plan) \in Cases
           /\ Observations \in Seq(Keys) /\ Observations # <<>>
           /\ Len(Observations) \in Nat \ {0}
           /\ Tail(plan) \in Seq(Cases)
           /\ Tail(plan) # <<>> => Len(Head(Tail(plan)).observations) \in Nat
           /\ (\A i \in DOMAIN plan : plan[i].template = FALSE) =>
                 /\ Head(plan).template = FALSE
                 /\ \A i \in DOMAIN Tail(plan) : Tail(plan)[i].template = FALSE
<1>1. Head(plan) \in Cases /\ Tail(plan) \in Seq(Cases)
  BY HeadTailProperties
<1>2. /\ Observations \in Seq(Keys) /\ Observations # <<>>
      /\ Len(Observations) \in Nat \ {0}
  BY <1>1, CaseFields DEF Observations
<1>3. Tail(plan) # <<>> => Len(Head(Tail(plan)).observations) \in Nat
  BY <1>1, CaseFields, HeadTailProperties
<1>4. ASSUME \A i \in DOMAIN plan : plan[i].template = FALSE
      PROVE  /\ Head(plan).template = FALSE
             /\ \A i \in DOMAIN Tail(plan) : Tail(plan)[i].template = FALSE
  <2>1. Len(plan) \in Nat \ {0} /\ DOMAIN plan = 1 .. Len(plan)
    BY EmptySeq, LenProperties
  <2>2. Head(plan) = plan[1] /\ Head(plan).template = FALSE
    BY <1>4, <2>1
  <2>3. /\ Len(Tail(plan)) = Len(plan) - 1
        /\ \A i \in 1 .. Len(Tail(plan)) : Tail(plan)[i] = plan[i + 1]
        /\ DOMAIN Tail(plan) = 1 .. Len(Tail(plan))
    BY <1>1, HeadTailProperties, LenProperties
  <2> QED
    BY <1>4, <2>1, <2>2, <2>3
<1> QED
  BY <1>1, <1>2, <1>3, <1>4

\* Every plan is a sequence of cases, and without vary_encodings none has a template.
LEMMA PlansTyped ==
    ASSUME NEW p \in Plans, vary \in BOOLEAN
    PROVE  /\ p \in Seq(Cases)
           /\ ~vary => \A i \in DOMAIN p : p[i].template = FALSE
<1>1. CASE vary
  BY <1>1, CampaignAssumption DEF Plans
<1>2. CASE ~vary
  <2>1. ASSUME NEW o \in Retained PROVE o \in Seq(Keys) \ {<<>>}
    <3>1. \/ \E k \in Keys : o = <<k>>
          \/ \E q \in Keys \X Keys : o = <<q[1], q[2]>>
      BY DEF Retained
    <3>2. CASE \E k \in Keys : o = <<k>>
      BY <3>2
    <3>3. ASSUME NEW q \in Keys \X Keys, o = <<q[1], q[2]>> PROVE o \in Seq(Keys) \ {<<>>}
      <4>1. q[1] \in Keys /\ q[2] \in Keys
        OBVIOUS
      <4> QED
        BY <3>3, <4>1
    <3> QED
      BY <3>1, <3>2, <3>3
  <2>2. p = <<>> \/ \E o \in Retained : p = <<[template |-> FALSE, observations |-> o]>>
    BY <1>2 DEF Plans
  <2>3. CASE p = <<>>
    BY <2>3
  <2>4. ASSUME NEW o \in Retained, p = <<[template |-> FALSE, observations |-> o]>>
        PROVE  p \in Seq(Cases) /\ \A i \in DOMAIN p : p[i].template = FALSE
    <3>1. [template |-> FALSE, observations |-> o] \in Cases
      BY <2>1 DEF Cases
    <3> QED
      BY <2>4, <3>1
  <2> QED
    BY <2>2, <2>3, <2>4
<1> QED
  BY <1>1, <1>2

LEMMA InitShape == Init => Shape /\ Pending
<1> SUFFICES ASSUME Init PROVE Shape /\ Pending
  OBVIOUS
<1>1. Shape
  BY DEF Init, Shape, Preparations, Sampling
<1>2. plan \in Seq(Cases) /\ (~vary => \A i \in DOMAIN plan : plan[i].template = FALSE)
  BY PlansTyped DEF Init
<1>3. plan # <<>> => Len(Observations) \in Nat
  BY <1>2, PlanHead
<1>4. observed = <<>> /\ comparable = {} /\ pc = "prepare"
  BY DEF Init
<1> QED
  BY <1>1, <1>2, <1>3, <1>4 DEF Pending

\* The identifier of a record is a number, recorded or not.
LEMMA IdTyped ==
    ASSUME records \in Seq(Evidence), NEW k
    PROVE  ModelId(k) \in Nat /\ Identifier(ModelId(k)) \in Int /\ NextId \in Int
<1>1. Len(records) \in Nat /\ DOMAIN records = 1 .. Len(records)
  BY LenProperties
<1>2. ModelId(k) \in Nat
  <2>1. CASE Recorded(k)
    <3>1. (CHOOSE i \in DOMAIN records : records[i] = ModelRecord(k)) \in DOMAIN records
      BY <2>1 DEF Recorded
    <3> QED
      BY <1>1, <2>1, <3>1 DEF ModelId
  <2>2. CASE ~Recorded(k)
    BY <1>1, <2>2 DEF ModelId
  <2> QED
    BY <2>1, <2>2
<1> QED
  BY <1>1, <1>2 DEF Identifier, NextId, NoId

LEMMA ModelsGrow ==
    ASSUME models \in Seq(ModelSet), NEW m \in ModelSet
    PROVE  /\ Append(models, m) \in Seq(ModelSet)
           /\ Len(Append(models, m)) = Len(models) + 1
           /\ Len(models) \in Nat
           /\ \A j \in DOMAIN Append(models, m) :
                 Append(models, m)[j] = IF j <= Len(models) THEN models[j] ELSE m
           /\ DOMAIN Append(models, m) = 1 .. Len(models) + 1
           /\ DOMAIN models = 1 .. Len(models)
<1>1. /\ Len(models) \in Nat /\ DOMAIN models = 1 .. Len(models)
      /\ Append(models, m) \in Seq(ModelSet) /\ Len(Append(models, m)) = Len(models) + 1
      /\ DOMAIN Append(models, m) = 1 .. Len(models) + 1
  BY LenProperties, AppendProperties
<1> QED
  BY <1>1

LEMMA ObservationTyped ==
    ASSUME Pending, plan # <<>>, NEW j \in Nat, j < Len(Observations)
    PROVE  Observations[j + 1] \in Keys
<1>1. Observations \in Seq(Keys) /\ Len(Observations) \in Nat
  BY PlanHead DEF Pending
<1> QED
  BY <1>1, ElementOfSeq

\* What each step of the preparation does to the models.
LEMMA PrepareModels ==
    ASSUME Shape, Pending, records \in Seq(Evidence), Prepares
    PROVE  /\ models' \in Seq(ModelSet)
           /\ models' = models \/ \E m \in ModelSet : models' = Append(models, m) \/ models' = <<m>>
<1>1. CASE Observe \/ FallBack \/ FinishPreparation
  BY <1>1 DEF Observe, FallBack, FinishPreparation, preparation, Shape
<1>2. CASE Generalize
  <2>1. Observations[1] \in Keys
    <3>1. plan # <<>> /\ 0 < Len(Observations)
      BY <1>2, PlanHead DEF Generalize, Preparing, Pending
    <3>2. 0 \in Nat /\ 0 + 1 = 1
      OBVIOUS
    <3> QED
      BY <3>1, <3>2, ObservationTyped
  <2>2. Model("generalized", Observations[1], NextId, TRUE) \in ModelSet
    BY <2>1, IdTyped DEF Model, ModelSet
  <2> QED
    BY <1>2, <2>2, AppendProperties DEF Generalize, Shape
<1>3. CASE Keep
  <2>1. plan # <<>> /\ 0 < Len(Observations) /\ AllObserved
    BY <1>3, PlanHead DEF Keep, Pending
  <2>2. 0 \in Nat /\ 0 + 1 = 1
    OBVIOUS
  <2>3. Observations[1] \in Keys
    BY <2>1, <2>2, ObservationTyped
  <2>4. observed[1] \in Int
    <3>1. 1 \in 1 .. Len(observed) /\ observed \in Seq(Int)
      BY <2>1, PlanHead DEF AllObserved, Pending
    <3> QED
      BY <3>1, ElementOfSeq
  <2>5. Model("fallback", Observations[1], observed[1], FALSE) \in ModelSet
    BY <2>3, <2>4 DEF Model, ModelSet
  <2> QED
    BY <1>3, <2>5, AppendProperties DEF Keep, Shape
<1>4. ASSUME NEW k \in Keys, PrepareGeneralized(k)
      PROVE  /\ models' \in Seq(ModelSet)
             /\ \E m \in ModelSet : models' = <<m>>
  <2> DEFINE m == Model("generalized", k, Identifier(ModelId(k)), FALSE)
  <2>1. m \in ModelSet
    BY IdTyped DEF Model, ModelSet
  <2>2. models' = <<m>>
    BY <1>4 DEF PrepareGeneralized
  <2> HIDE DEF m
  <2> QED
    BY <2>1, <2>2
<1> QED
  BY <1>1, <1>2, <1>3, <1>4 DEF Prepares

LEMMA ShapeStep ==
    ASSUME Shape, Pending, records \in Seq(Evidence), Next
    PROVE  Shape'
<1>1. recording' = recording /\ vary' = vary
  BY PrepareFrame DEF Next, Prepares, RunCase, StopRun, Begin, Reject, CaptureInput, Judge,
     Conclude, Fail, Abort, FinishCases, StopAtLimit, Finish, inputs
<1>2. CASE Prepares
  <2>1. models' \in Seq(ModelSet)
    BY <1>2, PrepareModels
  <2>2. index' = 0 /\ first' = 0 /\ pc' \notin Sampling
    BY <1>2, PrepareFrame DEF Shape, Preparations, Sampling
  <2>3. Len(models') \in Nat
    BY <2>1, LenProperties
  <2> QED
    BY <1>1, <2>1, <2>2, <2>3 DEF Shape
<1>3. CASE RunCase \/ StopRun
  <2>1. /\ models' = models /\ first' = first /\ pc' \in {"case", "draw"}
        /\ index < Len(models) /\ index' \in {index, index + 1}
        /\ pc' = "draw" => index' = index
    BY <1>3 DEF RunCase, StopRun, preparation, tallies, Shape, Sampling
  <2>2. Len(models) \in Nat
    BY LenProperties DEF Shape
  <2> QED
    BY <1>1, <2>1, <2>2 DEF Shape, Preparations, Sampling
<1>4. CASE ~Prepares /\ ~RunCase /\ ~StopRun
  <2>1. /\ models' = models /\ index' = index
        /\ pc' \in Sampling => pc \in Sampling
        /\ pc' \notin Preparations
    BY <1>4 DEF Next, Prepares, Begin, Reject, CaptureInput, Judge, Conclude, Fail, Abort,
       FinishCases, StopAtLimit, Finish, Called, preparation, Sampling, Preparations
  <2> QED
    BY <1>1, <2>1 DEF Shape
<1> QED
  BY <1>2, <1>3, <1>4

\* The case at hand without the observation kept.
LEMMA KeepOn ==
    ASSUME Pending, Keep, Len(Observations) # 1
    PROVE  /\ pc' = "keep" /\ plan' \in Seq(Cases) /\ plan' # <<>>
           /\ Observations' = Tail(Observations)
           /\ Len(Tail(Observations)) = Len(Observations) - 1
           /\ ~vary => \A i \in DOMAIN plan' : plan'[i].template = FALSE
<1>0. plan # <<>> /\ plan \in Seq(Cases)
  BY DEF Pending, Keep
<1> DEFINE c == [Head(plan) EXCEPT !.observations = Tail(Observations)]
<1>1. plan' = <<c>> \o Tail(plan) /\ pc' = "keep"
  BY DEF Keep, Observations
<1>2. /\ Tail(Observations) \in Seq(Keys)
      /\ Len(Tail(Observations)) = Len(Observations) - 1
  BY <1>0, PlanHead, HeadTailProperties
<1>3. Tail(Observations) # <<>>
  <2>1. Len(Observations) \in Nat \ {0} /\ Len(<<>>) = 0
    BY <1>0, PlanHead
  <2> DEFINE n == Len(Observations)
             t == Tail(Observations)
  <2>2. n \in Nat \ {0} /\ n # 1 /\ Len(t) = n - 1
    BY <1>2, <2>1
  <2> HIDE DEF n, t
  <2>3. t # <<>>
    BY <2>1, <2>2
  <2> QED
    BY <2>3 DEF t
<1>4. c \in Cases /\ c.observations = Tail(Observations) /\ c.template = Head(plan).template
  BY <1>0, <1>2, <1>3, PlanHead DEF Cases
<1>5. /\ plan' \in Seq(Cases) /\ Len(plan') = 1 + Len(Tail(plan))
      /\ \A i \in 1 .. 1 + Len(Tail(plan)) : plan'[i] = IF i <= 1 THEN c ELSE Tail(plan)[i - 1]
  <2>1. <<c>> \in Seq(Cases) /\ Len(<<c>>) = 1 /\ <<c>>[1] = c
    BY <1>4
  <2> HIDE DEF c
  <2>2. Tail(plan) \in Seq(Cases)
    BY <1>0, PlanHead
  <2>3. \A i \in 1 .. Len(<<c>>) : <<c>>[i] = c
    BY <2>1
  <2> QED
    BY <1>1, <2>1, <2>2, <2>3, ConcatProperties, LenProperties
<1>6. Head(plan') = c /\ plan' # <<>>
  <2>1. 1 \in 1 .. 1 + Len(Tail(plan))
    BY <1>0, PlanHead, LenProperties
  <2> HIDE DEF c
  <2>2. plan'[1] = c
    BY <1>5, <2>1
  <2>3. plan' # <<>>
    BY <1>0, <1>5, PlanHead, LenProperties, EmptySeq
  <2> QED
    BY <1>5, <2>2, <2>3
<1>7. Observations' = Tail(Observations)
  BY <1>4, <1>6 DEF Observations
<1>8. ~vary => \A i \in DOMAIN plan' : plan'[i].template = FALSE
  <2>1. DOMAIN plan' = 1 .. 1 + Len(Tail(plan)) /\ DOMAIN Tail(plan) = 1 .. Len(Tail(plan))
        /\ Len(Tail(plan)) \in Nat
    BY <1>0, <1>5, PlanHead, LenProperties
  <2>2. ~vary => /\ c.template = FALSE
                 /\ \A i \in DOMAIN Tail(plan) : Tail(plan)[i].template = FALSE
    BY <1>0, <1>4, PlanHead DEF Pending
  <2> HIDE DEF c
  <2>3. ASSUME ~vary, NEW i \in 1 .. 1 + Len(Tail(plan)) PROVE plan'[i].template = FALSE
    <3>1. CASE i = 1
      BY <1>5, <2>2, <2>3, <3>1
    <3>2. CASE i # 1
      <4>1. i - 1 \in DOMAIN Tail(plan) /\ ~(i <= 1)
        BY <2>1, <3>2
      <4>2. plan'[i] = Tail(plan)[i - 1]
        BY <1>5, <4>1
      <4> QED
        BY <2>2, <2>3, <4>1, <4>2
    <3> QED
      BY <3>1, <3>2
  <2> QED
    BY <2>1, <2>3
<1> QED
  BY <1>1, <1>2, <1>5, <1>6, <1>7, <1>8

LEMMA PendingStep ==
    ASSUME Shape, Pending, records \in Seq(Evidence), Next
    PROVE  Pending'
<1>1. vary' = vary
  BY PrepareFrame DEF Next, Prepares, RunCase, StopRun, Begin, Reject, CaptureInput, Judge,
     Conclude, Fail, Abort, FinishCases, StopAtLimit, Finish, inputs
<1>2. CASE Observe
  <2>1. /\ plan' = plan /\ comparable' = comparable /\ pc' = "prepare" /\ plan # <<>>
        /\ Len(observed) # Len(Observations)
        /\ \E i \in Int : observed' = Append(observed, i)
    <3>1. \A k : Identifier(ModelId(k)) \in Int
      BY IdTyped
    <3> QED
      BY <1>2, <3>1 DEF Observe, Preparing, AllObserved
  <2>2. observed' \in Seq(Int) /\ Len(observed') = Len(observed) + 1 /\ Len(observed) \in Nat
    BY <2>1, AppendProperties, LenProperties DEF Pending
  <2>3. Observations' = Observations /\ Len(Observations) \in Nat
    BY <2>1, PlanHead DEF Observations, Pending
  <2> QED
    BY <1>1, <2>1, <2>2, <2>3 DEF Pending
<1>3. CASE Generalize
  <2>1. plan' = Tail(plan) /\ observed' = <<>> /\ comparable' = comparable /\ pc' = "prepare"
        /\ plan # <<>>
    BY <1>3 DEF Generalize, Preparing
  <2>2. plan' # <<>> => Len(Observations') \in Nat
    BY <2>1, PlanHead DEF Pending, Observations
  <2> QED
    BY <1>1, <2>1, <2>2, PlanHead DEF Pending
<1>4. CASE FallBack
  <2>1. plan' = plan /\ observed' = observed /\ pc' = "keep" /\ plan # <<>> /\ AllObserved
        /\ comparable' \subseteq ToSet(Observations)
    BY <1>4 DEF FallBack, Preparing
  <2>2. ToSet(Observations) \subseteq Keys
    BY <2>1, PlanHead, LenProperties DEF Pending, ToSet
  <2> QED
    BY <1>1, <2>1, <2>2 DEF Pending, AllObserved, Observations
<1>5. CASE Keep
  <2>1. /\ plan # <<>> /\ Len(observed) = Len(Observations) /\ observed' = Tail(observed)
        /\ plan \in Seq(Cases) /\ observed \in Seq(Int)
        /\ comparable' \subseteq Keys
    BY <1>5 DEF Keep, Pending, AllObserved
  <2>2. observed # <<>> /\ Len(observed) \in Nat \ {0}
    BY <2>1, PlanHead
  <2>3. observed' \in Seq(Int) /\ Len(observed') = Len(observed) - 1
    BY <2>1, <2>2, HeadTailProperties
  <2>4. CASE Len(Observations) = 1
    <3>1. plan' = Tail(plan) /\ pc' = "prepare"
      BY <1>5, <2>4 DEF Keep
    <3>2. plan' # <<>> => Len(Observations') \in Nat
      BY <2>1, <3>1, PlanHead DEF Observations
    <3>3. /\ plan' \in Seq(Cases)
          /\ ~vary => \A i \in DOMAIN plan' : plan'[i].template = FALSE
      BY <2>1, <3>1, PlanHead DEF Pending
    <3>4. plan' # <<>> => Len(observed') <= Len(Observations')
      <4>1. Len(observed) = 1
        BY <2>1, <2>4
      <4>2. Len(observed') = 0
        BY <2>3, <4>1
      <4>3. \A n \in Nat : 0 <= n
        OBVIOUS
      <4> QED
        BY <3>2, <4>2, <4>3
    <3>5. vary' = vary /\ pc' # "keep"
      BY <1>1, <3>1
    <3> QED
      BY <2>1, <2>3, <3>3, <3>4, <3>5 DEF Pending
  <2>5. CASE Len(Observations) # 1
    <3>1. /\ pc' = "keep" /\ plan' \in Seq(Cases) /\ plan' # <<>>
          /\ Observations' = Tail(Observations)
          /\ Len(Tail(Observations)) = Len(Observations) - 1
          /\ ~vary => \A i \in DOMAIN plan' : plan'[i].template = FALSE
      BY <1>5, <2>5, KeepOn
    <3>2. Len(observed') = Len(Observations') /\ Len(observed') \in Nat
      BY <2>1, <2>2, <2>3, <3>1
    <3> QED
      BY <1>1, <2>1, <2>3, <3>1, <3>2 DEF Pending, AllObserved
  <2> QED
    BY <2>4, <2>5
<1>6. ASSUME NEW k \in Keys, PrepareGeneralized(k) PROVE Pending'
  BY <1>1, <1>6 DEF PrepareGeneralized, Pending
<1>7. CASE FinishPreparation
  BY <1>1, <1>7 DEF FinishPreparation, preparation, Pending, AllObserved, Observations
<1>8. CASE ~Prepares
  <2>1. UNCHANGED preparation /\ pc' # "keep"
    BY <1>8 DEF Next, Prepares, RunCase, StopRun, Begin, Reject, CaptureInput, Judge, Conclude,
       Fail, Abort, FinishCases, StopAtLimit, Finish, Called
  <2> QED
    BY <1>1, <2>1 DEF preparation, Pending, Observations
<1> QED
  BY <1>2, <1>3, <1>4, <1>5, <1>6, <1>7, <1>8 DEF Prepares

--------------------------------------------------------------------------------
(* The evidence only grows.                                                       *)

Evid == records \in Seq(Evidence) /\ (~recording => records = <<>>)

\* What is held for the sample, and the tallies beside the account.
Rest ==
    /\ runs \in Nat /\ generationFindings \in 0 .. MaxRejects
    /\ allocations \in [Keys -> Nat]
    /\ modelId \in Int
    /\ sample \in [context : Int, outcome : Outcomes \union {"none"}]

Others == Kinds \ {"input", "comparison"}

\* A step adds records of these kinds, and changes none.
Grown(kinds) ==
    /\ Len(records') >= Len(records)
    /\ \A i \in DOMAIN records : i \in DOMAIN records' /\ records'[i] = records[i]
    /\ \A i \in DOMAIN records' : i \notin DOMAIN records => records'[i].kind \in kinds

LEMMA EmitGrows ==
    ASSUME Evid, NEW rs \in Seq(Evidence), NEW kinds,
           \A i \in 1 .. Len(rs) : rs[i].kind \in kinds,
           Emit(rs)
    PROVE  /\ records' \in Seq(Evidence) /\ (~recording => records' = <<>>)
           /\ Grown(kinds)
           /\ Len(records) \in Nat /\ Len(rs) \in Nat
           /\ recording => /\ Len(records') = Len(records) + Len(rs)
                           /\ \A i \in 1 .. Len(rs) : records'[Len(records) + i] = rs[i]
<1>1. /\ Len(records) \in Nat /\ DOMAIN records = 1 .. Len(records)
      /\ Len(rs) \in Nat
  BY LenProperties DEF Evid
<1>2. CASE ~recording
  BY <1>1, <1>2 DEF Evid, Emit, Grown
<1>3. CASE recording
  <2>1. records' = records \o rs
    BY <1>3 DEF Emit
  <2>2. /\ records' \in Seq(Evidence) /\ Len(records') = Len(records) + Len(rs)
        /\ \A i \in 1 .. Len(records) + Len(rs) : records'[i] =
              IF i <= Len(records) THEN records[i] ELSE rs[i - Len(records)]
    BY <2>1, ConcatProperties DEF Evid
  <2>3. DOMAIN records' = 1 .. Len(records) + Len(rs)
    BY <2>2, LenProperties
  <2>4. \A i \in 1 .. Len(records) : records'[i] = records[i]
    BY <1>1, <2>2
  <2>5. \A i \in 1 .. Len(rs) : records'[Len(records) + i] = rs[i]
    <3> SUFFICES ASSUME NEW i \in 1 .. Len(rs) PROVE records'[Len(records) + i] = rs[i]
      OBVIOUS
    <3>1. /\ Len(records) + i \in 1 .. Len(records) + Len(rs) /\ ~(Len(records) + i <= Len(records))
          /\ (Len(records) + i) - Len(records) = i
      BY <1>1
    <3> QED
      BY <2>2, <3>1
  <2>6. \A i \in DOMAIN records' : i \notin DOMAIN records => records'[i].kind \in kinds
    <3> SUFFICES ASSUME NEW i \in DOMAIN records', i \notin DOMAIN records
                 PROVE  records'[i].kind \in kinds
      OBVIOUS
    <3>1. i - Len(records) \in 1 .. Len(rs) /\ i = Len(records) + (i - Len(records))
      BY <1>1, <2>3
    <3>2. records'[i] = rs[i - Len(records)]
      BY <2>5, <3>1
    <3> QED
      BY <3>1, <3>2
  <2>7. Grown(kinds)
    BY <1>1, <2>2, <2>3, <2>4, <2>6 DEF Grown
  <2> QED
    BY <1>1, <1>3, <2>2, <2>5, <2>7
<1> QED
  BY <1>2, <1>3

\* The same of a single record, which is the last then.
LEMMA EmitOne ==
    ASSUME Evid, NEW r \in Evidence, Emit(<<r>>)
    PROVE  /\ records' \in Seq(Evidence) /\ (~recording => records' = <<>>)
           /\ Grown({r.kind})
           /\ Len(records) \in Nat
           /\ recording => /\ Len(records') = Len(records) + 1
                           /\ records'[Len(records) + 1] = r
<1>1. <<r>> \in Seq(Evidence) /\ Len(<<r>>) = 1
  OBVIOUS
<1>2. \A i \in 1 .. Len(<<r>>) : <<r>>[i] = r /\ <<r>>[i].kind \in {r.kind}
  BY <1>1
<1>3. 1 \in 1 .. Len(<<r>>) /\ <<r>>[1] = r
  BY <1>1
<1> QED
  BY <1>1, <1>2, <1>3, EmitGrows

\* The fields of the records.
LEMMA BlankTyped == Blank \in Evidence
BY DEF Blank, Evidence, Kinds, NoId

LEMMA ModelRecordTyped ==
    ASSUME NEW k \in Keys
    PROVE  /\ ModelRecord(k) \in Evidence
           /\ ModelRecord(k).kind = "model" /\ ModelRecord(k).key = k
<1> DEFINE e == [[Blank EXCEPT !.kind = "model"] EXCEPT !.key = k]
<1>1. e = ModelRecord(k)
  BY DEF ModelRecord
<1>2. [Blank EXCEPT !.kind = "model"] \in Evidence
  BY BlankTyped DEF Evidence, Kinds
<1>3. e \in Evidence /\ e.kind = "model" /\ e.key = k
  BY <1>2 DEF Evidence, Kinds
<1> QED
  BY <1>1, <1>3

\* One field of a record at a time.
LEMMA SetField ==
    ASSUME NEW A, NEW B, NEW C, NEW D, NEW E, NEW F,
           NEW e \in [kind : A, context : B, key : C, model : D, sample : E, outcome : F]
    PROVE  /\ \A v \in A : LET d == [e EXCEPT !.kind = v] IN
                 /\ d \in [kind : A, context : B, key : C, model : D, sample : E, outcome : F]
                 /\ d.kind = v /\ d.context = e.context /\ d.key = e.key /\ d.model = e.model
                 /\ d.sample = e.sample /\ d.outcome = e.outcome
           /\ \A v \in B : LET d == [e EXCEPT !.context = v] IN
                 /\ d \in [kind : A, context : B, key : C, model : D, sample : E, outcome : F]
                 /\ d.context = v /\ d.kind = e.kind /\ d.key = e.key /\ d.model = e.model
                 /\ d.sample = e.sample /\ d.outcome = e.outcome
           /\ \A v \in C : LET d == [e EXCEPT !.key = v] IN
                 /\ d \in [kind : A, context : B, key : C, model : D, sample : E, outcome : F]
                 /\ d.key = v /\ d.kind = e.kind /\ d.context = e.context /\ d.model = e.model
                 /\ d.sample = e.sample /\ d.outcome = e.outcome
           /\ \A v \in D : LET d == [e EXCEPT !.model = v] IN
                 /\ d \in [kind : A, context : B, key : C, model : D, sample : E, outcome : F]
                 /\ d.model = v /\ d.kind = e.kind /\ d.context = e.context /\ d.key = e.key
                 /\ d.sample = e.sample /\ d.outcome = e.outcome
           /\ \A v \in E : LET d == [e EXCEPT !.sample = v] IN
                 /\ d \in [kind : A, context : B, key : C, model : D, sample : E, outcome : F]
                 /\ d.sample = v /\ d.kind = e.kind /\ d.context = e.context /\ d.key = e.key
                 /\ d.model = e.model /\ d.outcome = e.outcome
           /\ \A v \in F : LET d == [e EXCEPT !.outcome = v] IN
                 /\ d \in [kind : A, context : B, key : C, model : D, sample : E, outcome : F]
                 /\ d.outcome = v /\ d.kind = e.kind /\ d.context = e.context /\ d.key = e.key
                 /\ d.model = e.model /\ d.sample = e.sample
OBVIOUS

\* A record of a kind, with nothing else told of it.
LEMMA KindTyped ==
    ASSUME NEW v \in Kinds
    PROVE  LET d == [Blank EXCEPT !.kind = v] IN d \in Evidence /\ d.kind = v
BY BlankTyped, SetField DEF Evidence

LEMMA PlainRecordsTyped ==
    ASSUME NEW m \in Int
    PROVE  /\ AcquisitionRecord(m) \in Evidence /\ AcquisitionRecord(m).kind = "acquisition"
           /\ InstantiationRecord(m) \in Evidence /\ InstantiationRecord(m).kind = "instantiation"
           /\ FindingRecord(m) \in Evidence /\ FindingRecord(m).kind = "finding"
           /\ GeneralizationRecord \in Evidence /\ GeneralizationRecord.kind = "generalization"
<1>1. ASSUME NEW v \in {"acquisition", "instantiation", "generalization"}
      PROVE  LET d == [Blank EXCEPT !.kind = v] IN d \in Evidence /\ d.kind = v
  BY KindTyped DEF Kinds
<1>2. AcquisitionRecord(m) \in Evidence /\ AcquisitionRecord(m).kind = "acquisition"
  <2> DEFINE b == [Blank EXCEPT !.kind = "acquisition"]
             d == [b EXCEPT !.model = m]
  <2>1. AcquisitionRecord(m) = d
    BY DEF AcquisitionRecord
  <2>2. b \in Evidence /\ b.kind = "acquisition"
    BY <1>1
  <2> HIDE DEF b
  <2> QED
    BY <2>1, <2>2, SetField DEF Evidence
<1>3. InstantiationRecord(m) \in Evidence /\ InstantiationRecord(m).kind = "instantiation"
  <2> DEFINE b == [Blank EXCEPT !.kind = "instantiation"]
             d == [b EXCEPT !.context = m]
  <2>1. InstantiationRecord(m) = d
    BY DEF InstantiationRecord
  <2>2. b \in Evidence /\ b.kind = "instantiation"
    BY <1>1
  <2> HIDE DEF b
  <2> QED
    BY <2>1, <2>2, SetField DEF Evidence
<1>4. FindingRecord(m) \in Evidence /\ FindingRecord(m).kind = "finding"
  <2>1. Blank.kind = "finding"
    BY DEF Blank
  <2> QED
    BY <2>1, BlankTyped, SetField DEF Evidence, FindingRecord
<1>5. GeneralizationRecord \in Evidence /\ GeneralizationRecord.kind = "generalization"
  BY <1>1 DEF GeneralizationRecord
<1> QED
  BY <1>2, <1>3, <1>4, <1>5

LEMMA InputRecordTyped ==
    ASSUME NEW k \in Keys \union {"none"}, NEW m \in Int, NEW n \in Nat
    PROVE  /\ InputRecord(k, m, n) \in Evidence
           /\ InputRecord(k, m, n).kind = "input" /\ InputRecord(k, m, n).key = k
           /\ InputRecord(k, m, n).model = m /\ InputRecord(k, m, n).sample = n
<1> DEFINE b == [Blank EXCEPT !.kind = "input"]
           c == [b EXCEPT !.key = k]
           d == [c EXCEPT !.model = m]
           e == [d EXCEPT !.sample = n]
<1>1. InputRecord(k, m, n) = e
  BY DEF InputRecord
<1>2. b \in Evidence /\ b.kind = "input"
  BY KindTyped DEF Kinds
<1> HIDE DEF b
<1>3. c \in Evidence /\ c.kind = "input" /\ c.key = k
  BY <1>2, SetField DEF Evidence
<1> HIDE DEF c
<1>4. d \in Evidence /\ d.kind = "input" /\ d.key = k /\ d.model = m
  BY <1>3, SetField DEF Evidence
<1> HIDE DEF d
<1>5. e \in Evidence /\ e.kind = "input" /\ e.key = k /\ e.model = m /\ e.sample = n
  BY <1>4, SetField DEF Evidence
<1> QED
  BY <1>1, <1>5

LEMMA ComparisonRecordTyped ==
    ASSUME NEW c \in Int, NEW o \in Outcomes \union {"none"}
    PROVE  /\ ComparisonRecord(c, o) \in Evidence
           /\ ComparisonRecord(c, o).kind = "comparison"
           /\ ComparisonRecord(c, o).context = c /\ ComparisonRecord(c, o).outcome = o
<1> DEFINE b == [Blank EXCEPT !.kind = "comparison"]
           d == [b EXCEPT !.context = c]
           e == [d EXCEPT !.outcome = o]
<1>1. ComparisonRecord(c, o) = e
  BY DEF ComparisonRecord
<1>2. b \in Evidence /\ b.kind = "comparison"
  BY KindTyped DEF Kinds
<1> HIDE DEF b
<1>3. d \in Evidence /\ d.kind = "comparison" /\ d.context = c
  BY <1>2, SetField DEF Evidence
<1> HIDE DEF d
<1>4. e \in Evidence /\ e.kind = "comparison" /\ e.context = c /\ e.outcome = o
  BY <1>3, SetField DEF Evidence
<1> QED
  BY <1>1, <1>4

\* A record of a model is at this place.
ModelAt(rs, i, k) == i \in DOMAIN rs /\ rs[i].kind = "model" /\ rs[i].key = k

LEMMA EmitModelGrows ==
    ASSUME Evid, NEW k \in Keys, EmitModel(k)
    PROVE  /\ records' \in Seq(Evidence) /\ (~recording => records' = <<>>)
           /\ Grown(Others)
           /\ recording => ModelAt(records', ModelId(k) + 1, k)
<1> DEFINE m == ModelRecord(k)
           a == AcquisitionRecord(ModelId(k))
           head == IF Recorded(k) THEN <<>> ELSE <<m>>
           rs == head \o <<a>>
<1>1. /\ m \in Evidence /\ a \in Evidence
      /\ m.kind = "model" /\ m.key = k /\ a.kind = "acquisition"
  BY IdTyped, ModelRecordTyped, PlainRecordsTyped DEF Evid
<1>2. Emit(rs)
  BY DEF EmitModel
<1>3. /\ rs \in Seq(Evidence)
      /\ \A i \in 1 .. Len(rs) : rs[i].kind \in Others
      /\ ~Recorded(k) => 1 \in 1 .. Len(rs) /\ rs[1] = m
  <2> HIDE DEF m, a
  <2>1. CASE Recorded(k)
    <3>1. rs = <<a>>
      BY <1>1, <2>1
    <3>2. rs \in Seq(Evidence) /\ Len(rs) = 1 /\ rs[1] = a
      BY <1>1, <3>1
    <3>3. \A i \in 1 .. Len(rs) : rs[i].kind = "acquisition"
      BY <1>1, <3>2
    <3>4. "acquisition" \in Others
      BY DEF Others, Kinds
    <3> HIDE DEF rs
    <3> QED
      BY <2>1, <3>2, <3>3, <3>4
  <2>2. CASE ~Recorded(k)
    <3>1. /\ <<m>> \in Seq(Evidence) /\ Len(<<m>>) = 1 /\ <<m>>[1] = m
          /\ <<a>> \in Seq(Evidence) /\ Len(<<a>>) = 1 /\ <<a>>[1] = a
      BY <1>1
    <3> DEFINE x == <<m>>
               y == <<a>>
    <3> HIDE DEF x, y
    <3>2. /\ x \o y \in Seq(Evidence) /\ Len(x \o y) = 2
          /\ (x \o y)[1] = m /\ (x \o y)[2] = a
      <4>1. /\ x \in Seq(Evidence) /\ Len(x) = 1 /\ x[1] = m
            /\ y \in Seq(Evidence) /\ Len(y) = 1 /\ y[1] = a
        BY <3>1 DEF x, y
      <4>2. /\ x \o y \in Seq(Evidence) /\ Len(x \o y) = Len(x) + Len(y)
            /\ \A i \in 1 .. Len(x) + Len(y) : (x \o y)[i] = IF i <= Len(x) THEN x[i] ELSE y[i - Len(x)]
        BY <4>1, ConcatProperties
      <4> DEFINE z == x \o y
      <4> HIDE DEF z
      <4>3. /\ z \in Seq(Evidence) /\ Len(z) = 2
            /\ \A i \in 1 .. 2 : z[i] = IF i <= 1 THEN x[i] ELSE y[i - 1]
        BY <4>1, <4>2 DEF z
      <4>4. z[1] = m /\ z[2] = a
        BY <4>1, <4>3
      <4> QED
        BY <4>3, <4>4 DEF z
    <3>5. rs = x \o y
      BY <2>2 DEF x, y
    <3> HIDE DEF rs
    <3>6. rs \in Seq(Evidence) /\ Len(rs) = 2 /\ rs[1] = m /\ rs[2] = a
      BY <3>2, <3>5
    <3>3. \A i \in 1 .. Len(rs) : rs[i].kind \in {"model", "acquisition"}
      BY <1>1, <3>6
    <3>4. "model" \in Others /\ "acquisition" \in Others
      BY DEF Others, Kinds
    <3> QED
      BY <3>3, <3>4, <3>6
  <2> QED
    BY <2>1, <2>2
<1> HIDE DEF rs
<1>4. /\ records' \in Seq(Evidence) /\ (~recording => records' = <<>>) /\ Grown(Others)
      /\ Len(records) \in Nat /\ Len(rs) \in Nat
      /\ recording => /\ Len(records') = Len(records) + Len(rs)
                      /\ \A i \in 1 .. Len(rs) : records'[Len(records) + i] = rs[i]
  BY <1>2, <1>3, EmitGrows
<1>5. ASSUME recording PROVE ModelAt(records', ModelId(k) + 1, k)
  <2>1. CASE Recorded(k)
    <3>1. PICK i \in DOMAIN records : records[i] = m /\ ModelId(k) = i - 1 /\ i \in Nat
      <4>1. PICK i : i = CHOOSE j \in DOMAIN records : records[j] = m
        OBVIOUS
      <4>2. i \in DOMAIN records /\ records[i] = m
        BY <2>1, <4>1 DEF Recorded
      <4>3. i \in Nat
        BY <4>2, LenProperties DEF Evid
      <4> QED
        BY <2>1, <4>1, <4>2, <4>3 DEF ModelId
    <3>2. i \in DOMAIN records' /\ records'[i] = m
      BY <1>4, <3>1 DEF Grown
    <3>3. ModelId(k) + 1 = i
      BY <3>1
    <3>4. records'[ModelId(k) + 1].kind = "model" /\ records'[ModelId(k) + 1].key = k
      BY <1>1, <3>2, <3>3
    <3> QED
      BY <3>2, <3>3, <3>4 DEF ModelAt
  <2>2. CASE ~Recorded(k)
    <3>1. ModelId(k) = Len(records)
      BY <2>2 DEF ModelId
    <3>2. Len(records) + 1 \in DOMAIN records'
      BY <1>3, <1>4, <1>5, <2>2, LenProperties
    <3>3. records'[Len(records) + 1] = m
      BY <1>3, <1>4, <1>5, <2>2
    <3> QED
      BY <1>1, <3>1, <3>2, <3>3 DEF ModelAt
  <2> QED
    BY <2>1, <2>2
<1> QED
  BY <1>4, <1>5

LEMMA GrownKept ==
    ASSUME Evid, UNCHANGED records, NEW kinds
    PROVE  Grown(kinds)
BY LenProperties DEF Grown, Evid

LEMMA SelectedTyped ==
    ASSUME Shape, pc \in Sampling
    PROVE  /\ Selected \in ModelSet /\ index + 1 \in DOMAIN models
           /\ Selected.key \in Keys /\ Selected.id \in Int /\ Selected.template \in BOOLEAN
<1>1. index + 1 \in 1 .. Len(models) /\ DOMAIN models = 1 .. Len(models)
  BY LenProperties DEF Shape
<1>2. Selected \in ModelSet
  BY <1>1, ElementOfSeq DEF Selected, Shape
<1> QED
  BY <1>1, <1>2 DEF ModelSet

\* What the steps of a sample record.
LEMMA JudgeGrows ==
    ASSUME Evid, Rest, NEW r, NEW a, NEW d, Judge(r, a, d)
    PROVE  records' \in Seq(Evidence) /\ (~recording => records' = <<>>) /\ Grown(Others)
<1> DEFINE f == FindingRecord(sample.context)
           x == IF r = "continued" THEN <<>> ELSE <<f>>
           y == IF a THEN <<>> ELSE <<f>>
<1>1. f \in Evidence /\ f.kind = "finding"
  <2>1. sample.context \in Int
    BY DEF Rest
  <2> QED
    BY <2>1, PlainRecordsTyped
<1>2. Emit(x \o y)
  BY DEF Judge, Findings
<1> HIDE DEF f
<1>3. /\ x \in Seq(Evidence) /\ Len(x) \in {0, 1} /\ (Len(x) = 1 => x[1] = f)
      /\ y \in Seq(Evidence) /\ Len(y) \in {0, 1} /\ (Len(y) = 1 => y[1] = f)
  BY <1>1
<1> HIDE DEF x, y
<1>4. /\ x \o y \in Seq(Evidence) /\ Len(x \o y) = Len(x) + Len(y)
      /\ \A i \in 1 .. Len(x) + Len(y) : (x \o y)[i] = IF i <= Len(x) THEN x[i] ELSE y[i - Len(x)]
  BY <1>3, ConcatProperties
<1> DEFINE z == x \o y
<1> HIDE DEF z
<1>5. \A i \in 1 .. Len(z) : z[i].kind \in Others
  <2>0. "finding" \in Others
    BY DEF Others, Kinds
  <2> SUFFICES ASSUME NEW i \in 1 .. Len(z) PROVE z[i] = f
    BY <1>1, <2>0
  <2>4. /\ i \in 1 .. Len(x) + Len(y)
        /\ z[i] = IF i <= Len(x) THEN x[i] ELSE y[i - Len(x)]
    BY <1>4 DEF z
  <2>1. CASE i <= Len(x)
    <3>1. i = 1 /\ Len(x) = 1
      BY <1>3, <2>4, <2>1
    <3>2. z[i] = x[i]
      BY <2>4, <2>1
    <3> QED
      BY <1>3, <3>1, <3>2
  <2>2. CASE ~(i <= Len(x))
    <3>1. i - Len(x) = 1 /\ Len(y) = 1
      BY <1>3, <2>4, <2>2
    <3>2. z[i] = y[i - Len(x)]
      BY <2>4, <2>2
    <3> QED
      BY <1>3, <3>1, <3>2
  <2> QED
    BY <2>1, <2>2
<1> QED
  BY <1>2, <1>4, <1>5, EmitGrows DEF z

LEMMA CaptureGrows ==
    ASSUME Shape, Evid, Rest, Numbers, CaptureInput
    PROVE  /\ records' \in Seq(Evidence) /\ (~recording => records' = <<>>)
           /\ Grown({"input"}) /\ Len(records) \in Nat
           /\ recording => /\ Len(records') = Len(records) + 1
                           /\ records'[Len(records) + 1] = InputRecord(InputKey, modelId, executions)
           /\ InputRecord(InputKey, modelId, executions) \in Evidence
           /\ InputRecord(InputKey, modelId, executions).kind = "input"
           /\ InputRecord(InputKey, modelId, executions).key = InputKey
           /\ InputRecord(InputKey, modelId, executions).model = modelId
           /\ InputRecord(InputKey, modelId, executions).sample = executions
<1>1. InputKey \in Keys \union {"none"} /\ modelId \in Int /\ executions \in Nat
  BY SelectedTyped DEF InputKey, CaptureInput, Sampling, Rest, Numbers
<1>2. /\ InputRecord(InputKey, modelId, executions) \in Evidence
      /\ InputRecord(InputKey, modelId, executions).kind = "input"
      /\ InputRecord(InputKey, modelId, executions).key = InputKey
      /\ InputRecord(InputKey, modelId, executions).model = modelId
      /\ InputRecord(InputKey, modelId, executions).sample = executions
  BY <1>1, InputRecordTyped
<1>3. Emit(<<InputRecord(InputKey, modelId, executions)>>)
  BY DEF CaptureInput
<1> QED
  BY <1>2, <1>3, EmitOne

LEMMA ConcludeGrows ==
    ASSUME Evid, Rest, Conclude
    PROVE  /\ records' \in Seq(Evidence) /\ (~recording => records' = <<>>)
           /\ Grown({"comparison"}) /\ Len(records) \in Nat
           /\ recording => Len(records') = Len(records) + 1
           /\ recording => LET c == records'[Len(records) + 1] IN
                 c.kind = "comparison" /\ c.context = sample.context /\ c.outcome = sample.outcome
<1>1. sample.context \in Int /\ sample.outcome \in Outcomes \union {"none"}
  BY DEF Rest
<1> DEFINE c == ComparisonRecord(sample.context, sample.outcome)
<1>2. /\ c \in Evidence /\ c.kind = "comparison"
      /\ c.context = sample.context /\ c.outcome = sample.outcome
  BY <1>1, ComparisonRecordTyped
<1>3. Emit(<<c>>)
  BY DEF Conclude
<1> HIDE DEF c
<1> QED
  BY <1>2, <1>3, EmitOne

\* Every step only adds to the evidence; inputs and comparisons are added by one each.
LEMMA GrownStep ==
    ASSUME Shape, Pending, Evid, Rest, Numbers, Next
    PROVE  /\ Evid'
           /\ \/ Grown(Others)
              \/ CaptureInput /\ Grown({"input"})
              \/ Conclude /\ Grown({"comparison"})
<1>1. recording' = recording
  BY PrepareFrame DEF Next, Prepares, RunCase, StopRun, Begin, Reject, CaptureInput, Judge,
     Conclude, Fail, Abort, FinishCases, StopAtLimit, Finish, inputs
<1>2. CASE UNCHANGED records
  BY <1>1, <1>2, GrownKept DEF Evid
<1>3. ASSUME NEW k \in Keys, EmitModel(k) PROVE Evid' /\ Grown(Others)
  BY <1>1, <1>3, EmitModelGrows DEF Evid
<1>4. CASE Observe
  <2>1. Observations[Len(observed) + 1] \in Keys
    <3>1. plan # <<>> /\ Len(observed) < Len(Observations) /\ Len(observed) \in Nat
      BY <1>4, PlanHead, LenProperties DEF Observe, Preparing, AllObserved, Pending
    <3> QED
      BY <3>1, ObservationTyped
  <2> QED
    BY <1>3, <1>4, <2>1 DEF Observe
<1>5. ASSUME NEW r \in Evidence, r.kind \in Others, Emit(<<r>>) PROVE Evid' /\ Grown(Others)
  <2>1. Evid' /\ Grown({r.kind})
    BY <1>1, <1>5, EmitOne DEF Evid
  <2> QED
    BY <1>5, <2>1 DEF Grown
<1>6. CASE Generalize
  <2>1. GeneralizationRecord \in Evidence /\ GeneralizationRecord.kind = "generalization"
    <3>1. 0 \in Int
      OBVIOUS
    <3> QED
      BY <3>1, PlainRecordsTyped
  <2>2. "generalization" \in Others
    BY DEF Others, Kinds
  <2> QED
    BY <1>5, <1>6, <2>1, <2>2 DEF Generalize
<1>7. CASE Begin \/ Reject
  <2>1. Selected.id \in Int
    BY <1>7, SelectedTyped DEF Begin, Reject, Called, Sampling
  <2>2. /\ InstantiationRecord(Selected.id) \in Evidence
        /\ InstantiationRecord(Selected.id).kind = "instantiation"
        /\ FindingRecord(Selected.id) \in Evidence
        /\ FindingRecord(Selected.id).kind = "finding"
    BY <2>1, PlainRecordsTyped
  <2>3. "instantiation" \in Others /\ "finding" \in Others
    BY DEF Others, Kinds
  <2>4. \/ UNCHANGED records
        \/ Emit(<<InstantiationRecord(Selected.id)>>)
        \/ Emit(<<FindingRecord(Selected.id)>>)
    BY <1>7 DEF Begin, Reject
  <2> QED
    BY <1>2, <1>5, <2>2, <2>3, <2>4
<1>8. CASE CaptureInput
  BY <1>1, <1>8, CaptureGrows DEF Evid
<1>9. CASE Conclude
  BY <1>1, <1>9, ConcludeGrows DEF Evid
<1>10. ASSUME NEW r, NEW a, NEW d, Judge(r, a, d) PROVE Evid' /\ Grown(Others)
  BY <1>1, <1>10, JudgeGrows DEF Evid
<1>11. ASSUME NEW k \in Keys, PrepareGeneralized(k) PROVE Evid' /\ Grown(Others)
  BY <1>3, <1>11 DEF PrepareGeneralized
<1>12. CASE FallBack \/ Keep \/ FinishPreparation \/ RunCase \/ StopRun \/ Fail \/ Abort
            \/ FinishCases \/ StopAtLimit
  BY <1>2, <1>12 DEF FallBack, Keep, FinishPreparation, RunCase, StopRun, Fail, Abort,
     FinishCases, StopAtLimit, Finish
<1> QED
  BY <1>4, <1>6, <1>7, <1>8, <1>9, <1>10, <1>11, <1>12 DEF Next

\* A count more of an encoding leaves a count for each encoding.
LEMMA CountKey ==
    ASSUME NEW f \in [Keys -> Nat], NEW k \in Keys
    PROVE  [f EXCEPT ![k] = @ + 1] \in [Keys -> Nat]
<1>1. f[k] + 1 \in Nat
  OBVIOUS
<1> QED
  BY <1>1

LEMMA RestStep ==
    ASSUME Shape, Evid, Rest, Next
    PROVE  Rest'
<1>0. NextId \in Int
  BY LenProperties DEF Evid, NextId, NoId
<1>1. CASE Prepares
  BY <1>1, PrepareFrame DEF Rest
<1>2. CASE RunCase \/ StopRun \/ Fail \/ Abort \/ FinishCases \/ StopAtLimit \/ Conclude
  <2>1. runs' \in Nat
    BY <1>2 DEF RunCase, StopRun, Fail, Abort, FinishCases, StopAtLimit, Conclude, Finish, Rest
  <2>2. UNCHANGED <<generationFindings, allocations, modelId, sample>>
    BY <1>2 DEF RunCase, StopRun, Fail, Abort, FinishCases, StopAtLimit, Conclude, Finish, tallies
  <2> QED
    BY <2>1, <2>2 DEF Rest
<1>3. CASE Begin
  <2>1. Selected.key \in Keys /\ Selected.id \in Int
    BY <1>3, SelectedTyped DEF Begin, Called, Sampling
  <2>2. allocations' \in [Keys -> Nat]
    BY <1>3, <2>1, CountKey DEF Begin, Allocate, Rest
  <2>3. modelId' \in Int
    BY <1>0, <1>3, <2>1 DEF Begin
  <2>4. UNCHANGED <<runs, generationFindings, sample>>
    BY <1>3 DEF Begin
  <2> QED
    BY <2>2, <2>3, <2>4 DEF Rest
<1>4. CASE Reject
  <2>1. Selected.id \in Int
    BY <1>4, SelectedTyped DEF Reject, Called, Sampling
  <2>2. generationFindings' \in 0 .. MaxRejects /\ modelId' \in Int
    BY <1>4, <2>1, CampaignAssumption DEF Reject, Rest
  <2>3. UNCHANGED <<runs, allocations, sample>>
    BY <1>4 DEF Reject
  <2> QED
    BY <2>2, <2>3 DEF Rest
<1>5. CASE CaptureInput
  <2>1. sample' \in [context : Int, outcome : Outcomes \union {"none"}]
    BY <1>0, <1>5 DEF CaptureInput
  <2>2. UNCHANGED <<runs, generationFindings, allocations, modelId>>
    BY <1>5 DEF CaptureInput, tallies
  <2> QED
    BY <2>1, <2>2 DEF Rest
<1>6. ASSUME NEW r, NEW a, NEW d, Judge(r, a, d) PROVE Rest'
  <2>1. PICK o \in Outcomes : sample' = [sample EXCEPT !.outcome = o]
    BY <1>6 DEF Judge, Verdict, Outcomes
  <2>2. sample' \in [context : Int, outcome : Outcomes \union {"none"}]
    BY <2>1 DEF Rest
  <2>3. UNCHANGED <<runs, generationFindings, allocations, modelId>>
    BY <1>6 DEF Judge
  <2> QED
    BY <2>2, <2>3 DEF Rest
<1> QED
  BY <1>1, <1>2, <1>3, <1>4, <1>5, <1>6 DEF Next, Prepares

--------------------------------------------------------------------------------
(* Which model an input names: the identifiers of the models.                     *)

\* What is observed, and every model that is not instantiated anew for each sample,
\* carries the identifier of the record of the model of its encoding.
Named ==
    recording =>
        /\ plan # <<>> =>
              \A j \in 1 .. Len(observed) : ModelAt(records, observed[j] + 1, Observations[j])
        /\ \A j \in DOMAIN models :
              ~(vary /\ models[j].template) => ModelAt(records, models[j].id + 1, models[j].key)

LEMMA KeptModel ==
    ASSUME NEW kinds, Grown(kinds), NEW i, NEW k, ModelAt(records, i, k)
    PROVE  ModelAt(records', i, k)
BY DEF Grown, ModelAt

LEMMA NamedStep ==
    ASSUME Shape, Pending, Evid, Rest, Numbers, Named, Next
    PROVE  Named'
<1>1. PICK kinds : Grown(kinds)
  BY GrownStep
<1>2. recording' = recording /\ vary' = vary
  BY PrepareFrame DEF Next, Prepares, RunCase, StopRun, Begin, Reject, CaptureInput, Judge,
     Conclude, Fail, Abort, FinishCases, StopAtLimit, Finish, inputs
<1> SUFFICES ASSUME recording PROVE Named'
  BY <1>2 DEF Named
<1>3. /\ \A j \in DOMAIN models :
            ~(vary /\ models[j].template) => ModelAt(records', models[j].id + 1, models[j].key)
      /\ plan # <<>> =>
            \A j \in 1 .. Len(observed) : ModelAt(records', observed[j] + 1, Observations[j])
  BY <1>1, KeptModel DEF Named
<1>4. Len(observed) \in Nat /\ observed \in Seq(Int)
  BY LenProperties DEF Pending
<1>5. CASE UNCHANGED <<models, plan, observed>>
  BY <1>2, <1>3, <1>5 DEF Named, Observations
<1>6. CASE Observe
  <2> DEFINE k == Observations[Len(observed) + 1]
             m == ModelId(k)
  <2>1. plan # <<>> /\ Len(observed) < Len(Observations)
    BY <1>4, <1>6, PlanHead DEF Observe, Preparing, AllObserved, Pending
  <2>2. k \in Keys
    BY <1>4, <2>1, ObservationTyped
  <2>3. ModelAt(records', m + 1, k)
    BY <1>6, <2>2, EmitModelGrows DEF Observe
  <2>4. /\ observed' = Append(observed, m) /\ m \in Int
        /\ plan' = plan /\ models' = models
    BY <1>6, IdTyped DEF Observe, Identifier, Evid
  <2> HIDE DEF m
  <2>5. /\ Len(observed') = Len(observed) + 1
        /\ \A j \in 1 .. Len(observed) + 1 :
              observed'[j] = IF j <= Len(observed) THEN observed[j] ELSE m
    BY <1>4, <2>4, AppendProperties
  <2>6. ASSUME NEW j \in 1 .. Len(observed')
        PROVE  ModelAt(records', observed'[j] + 1, Observations[j])
    <3>1. CASE j <= Len(observed)
      BY <1>3, <1>4, <2>1, <2>5, <3>1
    <3>2. CASE ~(j <= Len(observed))
      <4>1. j = Len(observed) + 1 /\ observed'[j] = m
        BY <1>4, <2>5, <3>2
      <4> QED
        BY <2>3, <4>1
    <3> QED
      BY <3>1, <3>2
  <2> QED
    BY <1>2, <1>3, <2>4, <2>6 DEF Named, Observations
<1>7. CASE Generalize
  <2> DEFINE m == Model("generalized", Observations[1], NextId, TRUE)
  <2>1. plan # <<>> /\ models' = Append(models, m) /\ observed' = <<>>
    BY <1>7 DEF Generalize, Preparing
  <2>2. m \in ModelSet /\ m.template = TRUE
    <3>1. Observations[1] \in Keys
      <4>1. 0 \in Nat /\ 0 < Len(Observations) /\ 0 + 1 = 1
        BY <2>1, PlanHead DEF Pending
      <4> QED
        BY <2>1, <4>1, ObservationTyped
    <3> QED
      BY <3>1, IdTyped DEF Model, ModelSet, Evid
  <2>3. vary
    <3>1. Head(plan).template /\ (~vary => Head(plan).template = FALSE)
      BY <1>7, <2>1, PlanHead DEF Generalize, Pending
    <3> QED
      BY <3>1 DEF Shape
  <2> HIDE DEF m
  <2>4. ASSUME NEW j \in DOMAIN models', ~(vary /\ models'[j].template)
        PROVE  ModelAt(records', models'[j].id + 1, models'[j].key)
    <3>1. /\ DOMAIN models' = 1 .. Len(models) + 1 /\ DOMAIN models = 1 .. Len(models)
          /\ models'[j] = IF j <= Len(models) THEN models[j] ELSE m
          /\ Len(models) \in Nat
      BY <2>1, <2>2, ModelsGrow DEF Shape
    <3>2. j \in DOMAIN models /\ models'[j] = models[j]
      BY <2>2, <2>3, <2>4, <3>1
    <3> QED
      BY <1>3, <2>4, <3>2
  <2>5. Len(observed') = 0
    BY <2>1
  <2> QED
    BY <1>2, <2>4, <2>5 DEF Named
<1>8. CASE Keep
  <2> DEFINE m == Model("fallback", Observations[1], observed[1], FALSE)
  <2>1. /\ plan # <<>> /\ Len(observed) = Len(Observations) /\ Len(Observations) \in Nat \ {0}
        /\ observed' = Tail(observed)
        /\ models' = models \/ models' = Append(models, m)
    BY <1>8, PlanHead DEF Keep, Pending, AllObserved
  <2>2. m \in ModelSet /\ m.id = observed[1] /\ m.key = Observations[1]
    <3>1. 0 \in Nat /\ 0 < Len(Observations) /\ 0 + 1 = 1
      BY <2>1
    <3>2. Observations[1] \in Keys
      BY <2>1, <3>1, ObservationTyped
    <3>3. observed[1] \in Int
      BY <1>4, <2>1, ElementOfSeq
    <3> QED
      BY <3>2, <3>3 DEF Model, ModelSet
  <2> HIDE DEF m
  <2>3. ModelAt(records', m.id + 1, m.key)
    <3>1. 1 \in 1 .. Len(observed)
      BY <2>1
    <3>2. ModelAt(records', observed[1] + 1, Observations[1])
      BY <1>3, <2>1, <3>1
    <3> QED
      BY <2>2, <3>2
  <2>4. ASSUME NEW j \in DOMAIN models', ~(vary' /\ models'[j].template)
        PROVE  ModelAt(records', models'[j].id + 1, models'[j].key)
    <3>1. CASE models' = models
      BY <1>2, <1>3, <2>4, <3>1
    <3>2. CASE models' = Append(models, m)
      <4>1. /\ DOMAIN models' = 1 .. Len(models) + 1 /\ DOMAIN models = 1 .. Len(models)
            /\ models'[j] = IF j <= Len(models) THEN models[j] ELSE m
            /\ Len(models) \in Nat
        BY <2>2, <3>2, ModelsGrow DEF Shape
      <4>2. CASE j <= Len(models)
        BY <1>2, <1>3, <2>4, <4>1, <4>2
      <4>3. CASE ~(j <= Len(models))
        BY <2>3, <4>1, <4>3
      <4> QED
        BY <4>2, <4>3
    <3> QED
      BY <2>1, <3>1, <3>2
  <2>5. observed # <<>>
    BY <2>1
  <2>6. /\ Len(observed') = Len(observed) - 1
        /\ \A j \in 1 .. Len(observed') : observed'[j] = observed[j + 1]
    BY <1>4, <2>1, <2>5, HeadTailProperties
  <2>7. ASSUME plan' # <<>>, NEW j \in 1 .. Len(observed')
        PROVE  ModelAt(records', observed'[j] + 1, Observations'[j])
    <3>1. Len(Observations) # 1 /\ j + 1 \in 1 .. Len(observed)
      BY <2>1, <2>6
    <3>2. Observations' = Tail(Observations)
      BY <1>8, <3>1, KeepOn
    <3>3. Tail(Observations)[j] = Observations[j + 1]
      <4>1. Observations \in Seq(Keys) /\ Observations # <<>>
        BY <2>1, PlanHead DEF Pending
      <4>2. j \in 1 .. Len(Tail(Observations))
        BY <2>1, <2>6, <4>1, HeadTailProperties
      <4> QED
        BY <4>1, <4>2, HeadTailProperties
    <3>4. ModelAt(records', observed[j + 1] + 1, Observations[j + 1])
      BY <1>3, <2>1, <3>1
    <3> QED
      BY <2>6, <3>2, <3>3, <3>4
  <2> QED
    BY <2>4, <2>7 DEF Named
<1>9. ASSUME NEW k \in Keys, PrepareGeneralized(k) PROVE Named'
  <2> DEFINE i == ModelId(k)
             m == Model("generalized", k, i, FALSE)
  <2>1. models' = <<m>> /\ plan' = <<>>
    BY <1>9 DEF PrepareGeneralized, Identifier
  <2>2. ModelAt(records', i + 1, k)
    BY <1>9, EmitModelGrows DEF PrepareGeneralized
  <2>3. m.id = i /\ m.key = k
    BY DEF Model
  <2> HIDE DEF i, m
  <2>4. DOMAIN models' = {1} /\ models'[1] = m
    BY <2>1
  <2> QED
    BY <2>1, <2>2, <2>3, <2>4 DEF Named
<1>10. CASE FallBack \/ FinishPreparation \/ ~Prepares
  <2>1. UNCHANGED <<models, plan, observed>>
    BY <1>10 DEF FallBack, FinishPreparation, Next, Prepares, RunCase, StopRun, Begin, Reject,
       CaptureInput, Judge, Conclude, Fail, Abort, FinishCases, StopAtLimit, Finish, preparation
  <2> QED
    BY <1>5, <2>1
<1> QED
  BY <1>6, <1>7, <1>8, <1>9, <1>10 DEF Prepares

--------------------------------------------------------------------------------
(* Inputs and comparisons.                                                        *)

\* An input announced is about to name its model: the instantiation just recorded for
\* it, or the record of the model of its encoding.
Announced ==
    recording /\ pc = "input" =>
        IF Binds THEN /\ modelId + 1 = Len(records) /\ modelId + 1 \in DOMAIN records
                      /\ records[modelId + 1].kind = "instantiation"
                 ELSE ModelAt(records, modelId + 1, Selected.key)

\* The sample being judged is the last input, and the last execution.
Captured ==
    recording /\ pc \in {"judge", "conclude"} =>
        /\ sample.context + 1 \in Positions("input")
        /\ records[sample.context + 1].sample = executions
        /\ \A j \in Positions("input") : j <= sample.context + 1

LEMMA SamePositions ==
    ASSUME Evid, NEW kinds, Grown(kinds), NEW kind, kind \notin kinds
    PROVE  /\ Positions(kind)' = Positions(kind)
           /\ \A i \in Positions(kind) : records'[i] = records[i]
BY DEF Grown, Positions

LEMMA OthersKept ==
    ASSUME Evid, Grown(Others)
    PROVE  /\ Positions("input")' = Positions("input")
           /\ Positions("comparison")' = Positions("comparison")
           /\ \A i \in DOMAIN records : records'[i] = records[i]
<1>1. "input" \notin Others /\ "comparison" \notin Others
  BY DEF Others
<1> QED
  BY <1>1, SamePositions DEF Grown

\* The input recorded is the last record, and the only new input.
LEMMA CapturePositions ==
    ASSUME Shape, Evid, Rest, Numbers, CaptureInput, recording
    PROVE  /\ Len(records) \in Nat
           /\ Positions("input")' = Positions("input") \union {Len(records) + 1}
           /\ Positions("comparison")' = Positions("comparison")
           /\ \A i \in DOMAIN records : i <= Len(records) /\ records'[i] = records[i]
           /\ LET r == records'[Len(records) + 1]
              IN  r.key = InputKey /\ r.model = modelId /\ r.sample = executions
<1> DEFINE r == InputRecord(InputKey, modelId, executions)
<1>1. /\ records' \in Seq(Evidence) /\ Grown({"input"}) /\ Len(records) \in Nat
      /\ Len(records') = Len(records) + 1 /\ records'[Len(records) + 1] = r
      /\ r.kind = "input" /\ r.key = InputKey /\ r.model = modelId /\ r.sample = executions
  BY CaptureGrows
<1> HIDE DEF r
<1>2. DOMAIN records' = 1 .. Len(records) + 1 /\ DOMAIN records = 1 .. Len(records)
  BY <1>1, LenProperties DEF Evid
<1>3. \A i \in DOMAIN records : i <= Len(records) /\ records'[i] = records[i]
  BY <1>1, <1>2 DEF Grown
<1>4. Positions("comparison")' = Positions("comparison")
  BY <1>1, SamePositions
<1>5. Positions("input")' = Positions("input") \union {Len(records) + 1}
  <2>1. ASSUME NEW i \in 1 .. Len(records) + 1
        PROVE  records'[i].kind = "input" <=> i \in Positions("input") \union {Len(records) + 1}
    <3>1. CASE i = Len(records) + 1
      BY <1>1, <3>1
    <3>2. CASE i # Len(records) + 1
      <4>1. i \in DOMAIN records
        BY <1>1, <1>2, <3>2
      <4> QED
        BY <1>3, <3>2, <4>1 DEF Positions
    <3> QED
      BY <3>1, <3>2
  <2>2. Positions("input") \union {Len(records) + 1} \subseteq 1 .. Len(records) + 1
    BY <1>1, <1>2 DEF Positions
  <2> QED
    BY <1>2, <2>1, <2>2 DEF Positions
<1> QED
  BY <1>1, <1>3, <1>4, <1>5

LEMMA AnnouncedStep ==
    ASSUME Shape, Pending, Evid, Rest, Numbers, Named, Announced, Next
    PROVE  Announced'
<1>1. PICK kinds : Grown(kinds)
  BY GrownStep
<1>2. recording' = recording /\ vary' = vary
  BY PrepareFrame DEF Next, Prepares, RunCase, StopRun, Begin, Reject, CaptureInput, Judge,
     Conclude, Fail, Abort, FinishCases, StopAtLimit, Finish, inputs
<1>3. pc' = "input" => Begin
  BY PrepareFrame DEF Next, Prepares, RunCase, StopRun, Begin, Reject, CaptureInput, Judge,
     Conclude, Fail, Abort, FinishCases, StopAtLimit, Finish
<1> SUFFICES ASSUME recording, Begin PROVE Announced'
  BY <1>2, <1>3 DEF Announced
<1>4. UNCHANGED <<models, index>> /\ Selected' = Selected /\ Binds' = Binds
  BY <1>2 DEF Begin, preparation, Selected, Binds
<1>5. index + 1 \in DOMAIN models /\ Selected.id \in Int
  BY SelectedTyped DEF Begin, Called, Sampling
<1>6. CASE Binds
  <2> DEFINE r == InstantiationRecord(Selected.id)
  <2>1. modelId' = Len(records) /\ Emit(<<r>>)
    BY <1>6 DEF Begin, NextId
  <2>2. r \in Evidence /\ r.kind = "instantiation"
    BY <1>5, PlainRecordsTyped
  <2> HIDE DEF r
  <2>3. /\ Len(records) \in Nat /\ Len(records') = Len(records) + 1
        /\ records'[Len(records) + 1] = r /\ records' \in Seq(Evidence)
    BY <2>1, <2>2, EmitOne
  <2>4. modelId' + 1 \in DOMAIN records'
    BY <2>1, <2>3, LenProperties
  <2> QED
    BY <1>4, <1>6, <2>1, <2>2, <2>3, <2>4 DEF Announced
<1>7. CASE ~Binds
  <2>1. modelId' = Selected.id
    BY <1>7 DEF Begin
  <2>2. ModelAt(records, Selected.id + 1, Selected.key)
    BY <1>5, <1>7 DEF Named, Selected, Binds
  <2>3. ModelAt(records', Selected.id + 1, Selected.key)
    BY <1>1, <2>2, KeptModel
  <2> QED
    BY <1>4, <1>7, <2>1, <2>3 DEF Announced
<1> QED
  BY <1>6, <1>7

LEMMA CapturedStep ==
    ASSUME Shape, Pending, Evid, Rest, Numbers, Captured, Next
    PROVE  Captured'
<1>2. recording' = recording
  BY PrepareFrame DEF Next, Prepares, RunCase, StopRun, Begin, Reject, CaptureInput, Judge,
     Conclude, Fail, Abort, FinishCases, StopAtLimit, Finish, inputs
<1> SUFFICES ASSUME recording, pc' \in {"judge", "conclude"} PROVE Captured'
  BY <1>2 DEF Captured
<1>3. CaptureInput \/ \E r, a, d : Judge(r, a, d)
  BY PrepareFrame DEF Next, Prepares, RunCase, StopRun, Begin, Reject, Conclude, Fail, Abort,
     FinishCases, StopAtLimit, Finish
<1>4. CASE CaptureInput
  <2>1. /\ Len(records) \in Nat
        /\ Positions("input")' = Positions("input") \union {Len(records) + 1}
        /\ \A i \in DOMAIN records : i <= Len(records)
        /\ records'[Len(records) + 1].sample = executions
    BY <1>4, CapturePositions
  <2>2. sample'.context = Len(records) /\ executions' = executions
    BY <1>4 DEF CaptureInput, NextId
  <2>3. \A j \in Positions("input") : j <= Len(records) + 1
    BY <2>1, LenProperties DEF Positions, Evid
  <2> QED
    BY <2>1, <2>2, <2>3 DEF Captured
<1>5. ASSUME NEW r, NEW a, NEW d, Judge(r, a, d) PROVE Captured'
  <2>1. /\ Positions("input")' = Positions("input")
        /\ \A i \in DOMAIN records : records'[i] = records[i]
    BY <1>5, JudgeGrows, OthersKept
  <2>2. pc = "judge" /\ executions' = executions
    BY <1>5 DEF Judge
  <2>3. sample'.context = sample.context
    <3>1. PICK o : sample' = [sample EXCEPT !.outcome = o]
      BY <1>5 DEF Judge
    <3> QED
      BY <3>1 DEF Rest
  <2>4. sample.context + 1 \in DOMAIN records
    BY <2>2 DEF Captured, Positions
  <2> QED
    BY <2>1, <2>2, <2>3, <2>4 DEF Captured
<1> QED
  BY <1>3, <1>4, <1>5

LEMMA InputsStep ==
    ASSUME Shape, Pending, Evid, Rest, Numbers, Announced, InputNamesItsModel, Next
    PROVE  InputNamesItsModel'
<1> DEFINE Fine(rs, i) ==
             LET m == rs[i].model + 1
             IN  /\ m \in 1 .. i - 1
                 /\ \/ rs[m].kind = "model" /\ rs[m].key = rs[i].key
                    \/ rs[m].kind = "instantiation" /\ m = i - 1
<1>1. DOMAIN records = 1 .. Len(records) /\ Len(records) \in Nat
  BY LenProperties DEF Evid
<1>2. \A i \in Positions("input") : Fine(records, i)
  BY DEF InputNamesItsModel
<1>3. ASSUME NEW kinds, Grown(kinds), NEW i \in Positions("input")
      PROVE  Fine(records', i)
  <2> DEFINE m == records[i].model + 1
  <2>1. i \in 1 .. Len(records) /\ records'[i] = records[i]
    BY <1>1, <1>3 DEF Positions, Grown
  <2>2. m \in 1 .. i - 1
    BY <1>2
  <2>3. m \in 1 .. Len(records)
    BY <1>1, <2>1, <2>2
  <2>4. records'[m] = records[m]
    BY <1>1, <1>3, <2>3 DEF Grown
  <2>5. \/ records[m].kind = "model" /\ records[m].key = records[i].key
        \/ records[m].kind = "instantiation" /\ m = i - 1
    BY <1>2
  <2> QED
    BY <2>1, <2>2, <2>4, <2>5
<1>4. CASE Positions("input")' = Positions("input")
  <2>1. PICK kinds : Grown(kinds)
    BY GrownStep
  <2>2. \A i \in Positions("input")' : Fine(records', i)
    BY <1>3, <1>4, <2>1
  <2> QED
    BY <2>2 DEF InputNamesItsModel
<1>5. CASE CaptureInput /\ recording
  <2> DEFINE n == Len(records) + 1
  <2>1. /\ Positions("input")' = Positions("input") \union {n}
        /\ \A i \in DOMAIN records : i <= Len(records) /\ records'[i] = records[i]
        /\ records'[n].key = InputKey /\ records'[n].model = modelId
    BY <1>5, CapturePositions
  <2>2. pc = "input"
    BY <1>5 DEF CaptureInput
  <2>3. Fine(records', n)
    <3>1. CASE Binds
      <4>1. /\ modelId + 1 = Len(records) /\ modelId + 1 \in DOMAIN records
            /\ records[modelId + 1].kind = "instantiation"
        BY <1>5, <2>2, <3>1 DEF Announced
      <4>2. modelId + 1 \in 1 .. n - 1 /\ modelId + 1 = n - 1
        BY <1>1, <4>1
      <4>3. records'[modelId + 1].kind = "instantiation"
        BY <2>1, <4>1
      <4> QED
        BY <2>1, <4>2, <4>3
    <3>2. CASE ~Binds
      <4>1. ModelAt(records, modelId + 1, InputKey)
        BY <1>5, <2>2, <3>2 DEF Announced, InputKey
      <4>2. modelId + 1 \in 1 .. n - 1
        BY <1>1, <4>1 DEF ModelAt
      <4>3. ModelAt(records', modelId + 1, InputKey)
        <5>1. PICK kinds : Grown(kinds)
          BY GrownStep
        <5> QED
          BY <4>1, <5>1, KeptModel
      <4> QED
        BY <2>1, <4>2, <4>3 DEF ModelAt
    <3> QED
      BY <3>1, <3>2
  <2>4. PICK kinds : Grown(kinds)
    BY GrownStep
  <2>5. \A i \in Positions("input")' : Fine(records', i)
    BY <1>3, <2>1, <2>3, <2>4
  <2> QED
    BY <2>5 DEF InputNamesItsModel
<1>6. CASE CaptureInput /\ ~recording
  <2>1. records' = <<>>
    BY <1>6, CaptureGrows
  <2>2. Positions("input")' = {}
    BY <2>1 DEF Positions
  <2> QED
    BY <2>2 DEF InputNamesItsModel
<1>7. CASE ~CaptureInput
  <2>1. Grown(Others) \/ Grown({"comparison"})
    BY <1>7, GrownStep
  <2>2. Positions("input")' = Positions("input")
    BY <2>1, OthersKept, SamePositions
  <2> QED
    BY <1>4, <2>2
<1> QED
  BY <1>5, <1>6, <1>7

\* The comparison recorded is the last record, and the only new comparison.
LEMMA ConcludePositions ==
    ASSUME Evid, Rest, Conclude, recording
    PROVE  /\ Len(records) \in Nat
           /\ Positions("input")' = Positions("input")
           /\ Positions("comparison")' = Positions("comparison") \union {Len(records) + 1}
           /\ \A i \in DOMAIN records : i <= Len(records) /\ records'[i] = records[i]
           /\ LET c == records'[Len(records) + 1]
              IN  c.context = sample.context /\ c.outcome = sample.outcome
<1> DEFINE c == records'[Len(records) + 1]
<1>1. /\ records' \in Seq(Evidence) /\ Grown({"comparison"}) /\ Len(records) \in Nat
      /\ Len(records') = Len(records) + 1
      /\ c.kind = "comparison" /\ c.context = sample.context /\ c.outcome = sample.outcome
  BY ConcludeGrows
<1>2. DOMAIN records' = 1 .. Len(records) + 1 /\ DOMAIN records = 1 .. Len(records)
  BY <1>1, LenProperties DEF Evid
<1>3. \A i \in DOMAIN records : i <= Len(records) /\ records'[i] = records[i]
  BY <1>1, <1>2 DEF Grown
<1>4. Positions("input")' = Positions("input")
  BY <1>1, SamePositions
<1>5. Positions("comparison")' = Positions("comparison") \union {Len(records) + 1}
  <2>1. ASSUME NEW i \in 1 .. Len(records) + 1
        PROVE  records'[i].kind = "comparison"
                 <=> i \in Positions("comparison") \union {Len(records) + 1}
    <3>1. CASE i = Len(records) + 1
      BY <1>1, <3>1
    <3>2. CASE i # Len(records) + 1
      <4>1. i \in DOMAIN records
        BY <1>1, <1>2, <3>2
      <4> QED
        BY <1>3, <3>2, <4>1 DEF Positions
    <3> QED
      BY <3>1, <3>2
  <2>2. Positions("comparison") \union {Len(records) + 1} \subseteq 1 .. Len(records) + 1
    BY <1>1, <1>2 DEF Positions
  <2> QED
    BY <1>2, <2>1, <2>2 DEF Positions
<1> QED
  BY <1>1, <1>3, <1>4, <1>5

\* A record of an input or a comparison is below the records to come.
LEMMA PositionBound ==
    ASSUME Evid, NEW kind, NEW i \in Positions(kind)
    PROVE  i \in DOMAIN records /\ i \in Nat /\ i <= Len(records) /\ Len(records) \in Nat
BY LenProperties DEF Evid, Positions

LEMMA GroupedStep ==
    ASSUME Shape, Pending, Evid, Rest, Numbers, Captured, SamplesAreGrouped, Next
    PROVE  SamplesAreGrouped'
<1> DEFINE n == Len(records) + 1
<1>1. CASE Grown(Others)
  <2>1. /\ Positions("input")' = Positions("input")
        /\ Positions("comparison")' = Positions("comparison")
        /\ \A i \in DOMAIN records : records'[i] = records[i]
    BY <1>1, OthersKept
  <2> QED
    BY <2>1, PositionBound DEF SamplesAreGrouped
<1>2. CASE CaptureInput /\ recording
  <2>1. /\ Positions("input")' = Positions("input") \union {n}
        /\ Positions("comparison")' = Positions("comparison")
        /\ \A i \in DOMAIN records : records'[i] = records[i]
        /\ n \in Nat
    BY <1>2, CapturePositions
  <2>2. ASSUME NEW i \in Positions("comparison")
        PROVE  /\ records'[i].context + 1 \in Positions("input")'
               /\ \A j \in Positions("input")' : j < i => j <= records'[i].context + 1
    <3>1. i \in DOMAIN records /\ i \in Nat /\ i < n /\ records'[i] = records[i]
      BY <2>1, PositionBound
    <3> QED
      BY <2>1, <3>1 DEF SamplesAreGrouped
  <2> QED
    BY <2>1, <2>2 DEF SamplesAreGrouped
<1>3. CASE Conclude /\ recording
  <2>1. /\ Positions("input")' = Positions("input")
        /\ Positions("comparison")' = Positions("comparison") \union {n}
        /\ \A i \in DOMAIN records : records'[i] = records[i]
        /\ records'[n].context = sample.context
    BY <1>3, ConcludePositions
  <2>2. ASSUME NEW i \in Positions("comparison")
        PROVE  /\ records'[i].context + 1 \in Positions("input")
               /\ \A j \in Positions("input") : j < i => j <= records'[i].context + 1
    BY <2>1, PositionBound DEF SamplesAreGrouped
  <2>3. /\ sample.context + 1 \in Positions("input")
        /\ \A j \in Positions("input") : j <= sample.context + 1
    BY <1>3 DEF Conclude, Captured
  <2> QED
    BY <2>1, <2>2, <2>3 DEF SamplesAreGrouped
<1>4. CASE (CaptureInput \/ Conclude) /\ ~recording
  <2>1. records' = <<>>
    BY <1>4, CaptureGrows, ConcludeGrows
  <2>2. Positions("comparison")' = {}
    BY <2>1 DEF Positions
  <2> QED
    BY <2>2 DEF SamplesAreGrouped
<1> QED
  BY <1>1, <1>2, <1>3, <1>4, GrownStep DEF Shape

--------------------------------------------------------------------------------
(* The witness.                                                                   *)

\* The campaign's witness is at or before every disagreement, recorded or about to be.
Foremost ==
    /\ first <= executions
    /\ pc = "conclude" /\ sample.outcome = "disagreement" => first # 0
    /\ pc = "returned" => report.first = first
    /\ recording => \A i \in Positions("comparison") :
          records[i].outcome = "disagreement" =>
              first # 0 /\ first <= records[records[i].context + 1].sample

\* A witness once found is not changed.
LEMMA FirstKept ==
    ASSUME IInv, Next
    PROVE  /\ first # 0 => first' = first
           /\ executions' >= executions
BY PrepareFrame DEF Next, Prepares, RunCase, StopRun, Begin, Reject, CaptureInput, Judge,
   Conclude, Fail, Abort, FinishCases, StopAtLimit, Finish, tallies, IInv, Numbers

LEMMA ForemostStep ==
    ASSUME IInv, Shape, Pending, Evid, Rest, Captured, SamplesAreGrouped, Foremost, Next
    PROVE  Foremost'
<1> USE DEF IInv
<1>1. /\ first \in Nat /\ executions \in Nat /\ first' \in Nat
      /\ executions' \in Nat
  BY Invariance DEF Numbers
<1>2. recording' = recording
  BY PrepareFrame DEF Next, Prepares, RunCase, StopRun, Begin, Reject, CaptureInput, Judge,
     Conclude, Fail, Abort, FinishCases, StopAtLimit, Finish, inputs
<1>3. first' <= executions'
  <2>1. CASE UNCHANGED first
    BY <1>1, <2>1, FirstKept DEF Foremost
  <2>2. ASSUME NEW r, NEW a, NEW d, Judge(r, a, d) PROVE first' <= executions'
    BY <1>1, <2>2 DEF Judge, Foremost
  <2> QED
    BY <2>1, <2>2, PrepareFrame DEF Next, Prepares, RunCase, StopRun, Begin, Reject,
       CaptureInput, Conclude, Fail, Abort, FinishCases, StopAtLimit, Finish, tallies
<1>4. pc' = "conclude" /\ sample'.outcome = "disagreement" => first' # 0
  <2> SUFFICES ASSUME pc' = "conclude", sample'.outcome = "disagreement" PROVE first' # 0
    OBVIOUS
  <2>1. PICK r, a, d : Judge(r, a, d)
    BY PrepareFrame DEF Next, Prepares, RunCase, StopRun, Begin, Reject, CaptureInput, Conclude,
       Fail, Abort, FinishCases, StopAtLimit, Finish
  <2>2. Verdict(r, a, d) = "disagreement"
    BY <2>1 DEF Judge, Rest
  <2>3. executions > 0
    BY <2>1 DEF Judge, Witnessed
  <2> QED
    BY <1>1, <2>1, <2>2, <2>3 DEF Judge
<1>5. pc' = "returned" => report'.first = first'
  <2> SUFFICES ASSUME pc' = "returned" PROVE report'.first = first'
    OBVIOUS
  <2>1. FinishPreparation \/ FinishCases \/ StopAtLimit
    BY PrepareFrame DEF Next, Prepares, Observe, Generalize, FallBack, Keep, PrepareGeneralized,
       RunCase, StopRun, Begin, Reject, CaptureInput, Judge, Conclude, Fail, Abort,
       Preparing
  <2>2. CASE FinishPreparation
    <3>1. first = 0 /\ UNCHANGED <<first, report>>
      BY <2>2 DEF FinishPreparation, Aside, tallies, Shape, Preparations
    <3> QED
      BY <3>1 DEF Witnessed
  <2>3. CASE FinishCases \/ StopAtLimit
    BY <2>3 DEF FinishCases, StopAtLimit, Finish, Published, tallies
  <2> QED
    BY <2>1, <2>2, <2>3
<1>6. ASSUME recording, NEW i \in Positions("comparison")',
             records'[i].outcome = "disagreement"
      PROVE  first' # 0 /\ first' <= records'[records'[i].context + 1].sample
  <2>1. PICK kinds : Grown(kinds)
    BY GrownStep
  <2>2. CASE i \in Positions("comparison")
    <3>1. i \in DOMAIN records /\ records'[i] = records[i]
      BY <2>1, <2>2, PositionBound DEF Grown
    <3>2. records[i].context + 1 \in Positions("input")
      BY <2>2 DEF SamplesAreGrouped
    <3>3. records'[records[i].context + 1] = records[records[i].context + 1]
      BY <2>1, <3>2, PositionBound DEF Grown
    <3>4. first # 0 /\ first <= records[records[i].context + 1].sample
      BY <1>6, <2>2, <3>1 DEF Foremost
    <3> QED
      BY <3>1, <3>3, <3>4, FirstKept
  <2>3. CASE i \notin Positions("comparison")
    <3>1. Conclude
      <4>1. Grown(Others) => Positions("comparison")' = Positions("comparison")
        BY OthersKept
      <4>2. CaptureInput => Positions("comparison")' = Positions("comparison")
        BY <1>6, CapturePositions
      <4> QED
        BY <1>6, <2>3, <4>1, <4>2, GrownStep
    <3>2. /\ i = Len(records) + 1 /\ records'[i].context = sample.context
          /\ records'[i].outcome = sample.outcome
      BY <1>6, <2>3, <3>1, ConcludePositions
    <3>3. /\ sample.context + 1 \in Positions("input")
          /\ records[sample.context + 1].sample = executions
      BY <1>6, <3>1 DEF Conclude, Captured
    <3>4. records'[sample.context + 1] = records[sample.context + 1]
      BY <2>1, <3>3, PositionBound DEF Grown
    <3>5. first # 0 /\ first <= executions /\ first' = first
      BY <1>6, <3>1, <3>2 DEF Conclude, Foremost, tallies
    <3> QED
      BY <3>2, <3>3, <3>4, <3>5
  <2> QED
    BY <2>2, <2>3
<1> QED
  BY <1>2, <1>3, <1>4, <1>5, <1>6 DEF Foremost

--------------------------------------------------------------------------------
(* The evidence counted.                                                          *)

\* The evidence has as many inputs and comparisons as a report counts.
Agrees ==
    /\ Cardinality(Positions("input")) = report.executions
    /\ \A o \in Outcomes : Cardinality(Compared(o)) = report.counts[o]

\* How far the evidence is behind the tallies at each place, until a sample raises: by an
\* input before it is captured, and by a comparison between its verdict and its record.
Tallied ==
    recording /\ ~replaying =>
        /\ pc \in Idle \union {"judge", "conclude"} =>
              Cardinality(Positions("input")) = executions
        /\ pc = "input" => Cardinality(Positions("input")) = executions - 1
        /\ pc \in Idle \union {"input", "judge"} =>
              \A o \in Outcomes : Cardinality(Compared(o)) = counts[o]
        /\ pc = "conclude" =>
              /\ sample.outcome \in Outcomes
              /\ \A o \in Outcomes :
                    Cardinality(Compared(o)) = counts[o] - (IF o = sample.outcome THEN 1 ELSE 0)
        /\ pc = "raised" /\ ~report.active => Agrees

\* One place more counts one more.
LEMMA OneMore ==
    ASSUME records \in Seq(Evidence), NEW S, S \subseteq DOMAIN records
    PROVE  /\ Len(records) \in Nat /\ Cardinality(S) \in Nat
           /\ Cardinality(S \union {Len(records) + 1}) = Cardinality(S) + 1
<1>1. Len(records) \in Nat /\ DOMAIN records = 1 .. Len(records)
  BY LenProperties
<1>2. IsFiniteSet(1 .. Len(records))
  BY <1>1, FS_Interval
<1>3. IsFiniteSet(S)
  BY <1>1, <1>2, FS_Subset
<1>4. Len(records) + 1 \notin S
  BY <1>1
<1> QED
  BY <1>1, <1>3, <1>4, FS_AddElement, FS_CardinalityType

\* What the places of the comparisons with an outcome become.
LEMMA ComparedKept ==
    ASSUME Positions("comparison")' = Positions("comparison"),
           \A i \in DOMAIN records : records'[i] = records[i],
           NEW o
    PROVE  Compared(o)' = Compared(o)
BY DEF Compared, Positions

LEMMA ComparedOne ==
    ASSUME Evid, Rest, Conclude, recording, NEW o
    PROVE  Compared(o)' = IF o = sample.outcome THEN Compared(o) \union {Len(records) + 1}
                                                ELSE Compared(o)
<1> DEFINE n == Len(records) + 1
<1>1. /\ Positions("comparison")' = Positions("comparison") \union {n}
      /\ \A i \in DOMAIN records : i <= Len(records) /\ records'[i] = records[i]
      /\ records'[n].outcome = sample.outcome
  BY ConcludePositions
<1>2. \A i \in Positions("comparison") : records'[i] = records[i]
  BY <1>1 DEF Positions
<1>3. Compared(o)' = {i \in Positions("comparison") \union {n} : records'[i].outcome = o}
  BY <1>1 DEF Compared
<1> HIDE DEF n
<1> QED
  BY <1>1, <1>2, <1>3 DEF Compared, n

LEMMA TalliedStep ==
    ASSUME IInv, Shape, Pending, Evid, Rest, Tallied, Next
    PROVE  Tallied'
<1> USE DEF IInv
<1>1. recording' = recording
  BY PrepareFrame DEF Next, Prepares, RunCase, StopRun, Begin, Reject, CaptureInput, Judge,
     Conclude, Fail, Abort, FinishCases, StopAtLimit, Finish, inputs
<1> SUFFICES ASSUME recording, ~replaying' PROVE Tallied'
  BY <1>1 DEF Tallied
<1>2. ~replaying
  BY PrepareFrame DEF Next, Prepares, RunCase, StopRun, Begin, Reject, CaptureInput, Judge,
     Conclude, Fail, Abort, FinishCases, StopAtLimit, Finish
<1>3. /\ executions \in Nat /\ counts \in Counts
      /\ \A kind : Cardinality(Positions(kind)) \in Nat
  BY OneMore DEF Numbers, Evid, Positions
\* The steps that record neither an input nor a comparison.
<1>4. ASSUME Grown(Others)
      PROVE  /\ Positions("input")' = Positions("input")
             /\ \A o : Compared(o)' = Compared(o)
  BY <1>4, OthersKept, ComparedKept
<1>5. CASE Prepares \/ RunCase \/ StopRun \/ Reject
  <2>1. /\ Grown(Others) /\ pc \in Idle /\ pc' \in Idle
        /\ UNCHANGED <<executions, counts>>
    <3>1. ~CaptureInput /\ ~Conclude
      BY <1>5, PrepareFrame DEF RunCase, StopRun, Reject, Called, CaptureInput, Conclude
    <3> QED
      BY <1>2, <1>5, <3>1, GrownStep, PrepareFrame DEF RunCase, StopRun, Reject, Called, Idle, tallies
  <2> QED
    BY <1>2, <1>4, <2>1 DEF Tallied, Idle
<1>6. CASE Begin
  <2>1. /\ Grown(Others) /\ pc = "draw" /\ pc' = "input"
        /\ executions' = executions + 1 /\ counts' = counts
    <3>1. pc = "draw"
      BY <1>6 DEF Begin, Called
    <3> QED
      BY <1>6, <3>1, GrownStep DEF Begin, CaptureInput, Conclude
  <2>2. pc \in Idle /\ pc' \notin Idle
    BY <2>1 DEF Idle
  <2> QED
    BY <1>2, <1>3, <1>4, <2>1, <2>2 DEF Tallied
<1>7. CASE CaptureInput
  <2>1. /\ pc = "input" /\ pc' = "judge" /\ UNCHANGED <<executions, counts>>
    BY <1>7 DEF CaptureInput, tallies
  <2>2. /\ Positions("input")' = Positions("input") \union {Len(records) + 1}
        /\ \A o : Compared(o)' = Compared(o)
    BY <1>7, CapturePositions, ComparedKept
  <2>3. Cardinality(Positions("input")') = Cardinality(Positions("input")) + 1
    BY <2>2, OneMore DEF Positions, Evid
  <2>4. pc' \notin Idle
    BY <2>1 DEF Idle
  <2> QED
    BY <1>2, <1>3, <2>1, <2>2, <2>3, <2>4 DEF Tallied
<1>8. ASSUME NEW r, NEW a, NEW d, Judge(r, a, d) PROVE Tallied'
  <2> DEFINE v == Verdict(r, a, d)
  <2>1. /\ pc = "judge" /\ pc' = "conclude" /\ executions' = executions
        /\ counts' = [counts EXCEPT ![v] = @ + 1]
        /\ sample' = [sample EXCEPT !.outcome = v]
    BY <1>8 DEF Judge
  <2>2. v \in Outcomes
    BY DEF Verdict, Outcomes
  <2> HIDE DEF v
  <2>3. sample'.outcome = v
    BY <2>1 DEF Rest
  <2>4. Grown(Others)
    BY <1>8, JudgeGrows
  <2>5. \A o \in Outcomes : counts'[o] - (IF o = v THEN 1 ELSE 0) = counts[o]
    BY <1>3, <2>1 DEF Counts
  <2>6. pc' \notin Idle
    BY <2>1 DEF Idle
  <2> QED
    BY <1>2, <1>4, <2>1, <2>2, <2>3, <2>4, <2>5, <2>6 DEF Tallied
<1>9. CASE Conclude
  <2>1. /\ pc = "conclude" /\ pc' = "draw" /\ UNCHANGED <<executions, counts>>
        /\ sample' = sample
    BY <1>2, <1>9 DEF Conclude, tallies
  <2>2. Positions("input")' = Positions("input")
    BY <1>9, ConcludePositions
  <2>3. ASSUME NEW o \in Outcomes PROVE Cardinality(Compared(o)') = counts[o]
    <3>1. /\ Cardinality(Compared(o)) \in Nat
          /\ Cardinality(Compared(o) \union {Len(records) + 1}) = Cardinality(Compared(o)) + 1
      BY OneMore DEF Compared, Positions, Evid
    <3>2. Compared(o)' = IF o = sample.outcome THEN Compared(o) \union {Len(records) + 1}
                                               ELSE Compared(o)
      BY <1>9, ComparedOne
    <3>3. Cardinality(Compared(o)) = counts[o] - (IF o = sample.outcome THEN 1 ELSE 0)
      BY <1>2, <2>1 DEF Tallied
    <3>4. counts[o] \in Nat
      BY <1>3 DEF Counts
    <3> QED
      BY <3>1, <3>2, <3>3, <3>4
  <2> QED
    BY <1>2, <2>1, <2>2, <2>3 DEF Tallied, Idle
<1>10. CASE Fail
  BY <1>10 DEF Fail
<1>11. CASE Abort
  <2>1. /\ Grown(Others) /\ pc' = "raised" /\ report' = report
        /\ pc \in Idle \union {"input", "judge", "conclude"}
    BY <1>11, GrownKept DEF Abort, Idle
  <2>2. ASSUME ~report.active PROVE Agrees
    <3>1. pc \in Idle
      BY <1>2, <2>1, <2>2 DEF Account
    <3>2. report.counts = counts /\ report.executions = executions
      BY <1>2, <3>1 DEF Account, Published
    <3> QED
      BY <1>2, <3>1, <3>2 DEF Tallied, Agrees
  <2> QED
    BY <1>2, <1>4, <2>1, <2>2 DEF Tallied, Agrees, Idle
<1>12. CASE FinishCases \/ StopAtLimit
  <2>1. /\ Grown(Others) /\ UNCHANGED <<executions, counts>>
        /\ pc \in Idle /\ pc' = "returned"
    BY <1>12, GrownKept DEF FinishCases, StopAtLimit, Finish, Called, tallies, Idle
  <2> QED
    BY <1>2, <1>4, <2>1 DEF Tallied, Idle
<1> QED
  BY <1>5, <1>6, <1>7, <1>8, <1>9, <1>10, <1>11, <1>12 DEF Next, Prepares

--------------------------------------------------------------------------------
(* The theorems.                                                                  *)

EInv == /\ IInv /\ Shape /\ Pending /\ Evid /\ Rest /\ Named /\ Announced /\ Captured
        /\ InputNamesItsModel /\ SamplesAreGrouped /\ Foremost /\ Tallied

LEMMA InitEvidence == Init => EInv
<1> SUFFICES ASSUME Init PROVE EInv
  OBVIOUS
<1>1. records = <<>> /\ pc = "prepare" /\ models = <<>> /\ observed = <<>>
  BY DEF Init
<1>2. Evid /\ Positions("input") = {} /\ Positions("comparison") = {}
  BY <1>1 DEF Evid, Positions
<1>3. Rest
  BY CampaignAssumption DEF Init, Rest, NoId
<1>4. Named /\ Announced /\ Captured
  BY <1>1 DEF Named, Announced, Captured
<1>5. InputNamesItsModel /\ SamplesAreGrouped
  BY <1>2 DEF InputNamesItsModel, SamplesAreGrouped
<1>6. Foremost
  BY <1>1, <1>2 DEF Init, Foremost
<1>7. Tallied
  <2>1. \A o : Compared(o) = {}
    BY <1>2 DEF Compared
  <2>2. executions = 0 /\ \A o \in Outcomes : counts[o] = 0
    BY DEF Init, NoCounts
  <2> QED
    BY <1>1, <1>2, <2>1, <2>2, FS_EmptySet DEF Tallied
<1> QED
  BY <1>2, <1>3, <1>4, <1>5, <1>6, <1>7, InitInv, InitShape DEF EInv

LEMMA StutterEvidence == EInv /\ UNCHANGED vars => EInv'
<1> SUFFICES ASSUME EInv, UNCHANGED vars PROVE EInv'
  OBVIOUS
<1>1. /\ UNCHANGED <<examples, limit, vary, recording, pc, plan, observed, comparable, models,
                     index, runs>>
      /\ UNCHANGED <<executions, counts, generationFindings, allocations, first, modelId,
                     sample, records, report>>
  BY DEF vars, inputs, preparation, tallies
<1>2. IInv'
  BY Invariance DEF EInv
<1>3. Shape' /\ Pending'
  BY <1>1 DEF EInv, Shape, Pending, AllObserved, Observations
<1>4. Evid' /\ Rest'
  BY <1>1 DEF EInv, Evid, Rest
<1>5. Named' /\ Announced' /\ Captured'
  BY <1>1 DEF EInv, Named, Announced, Captured, Observations, Binds, Selected, Positions, ModelAt
<1>6. InputNamesItsModel' /\ SamplesAreGrouped' /\ Foremost'
  BY <1>1 DEF EInv, InputNamesItsModel, SamplesAreGrouped, Foremost, Positions
<1>7. Tallied'
  <2>1. replaying' = replaying
    BY DEF vars
  <2>2. Agrees' <=> Agrees
    BY <1>1 DEF Agrees, Positions, Compared
  <2> QED
    BY <1>1, <2>1, <2>2 DEF EInv, Tallied, Positions, Compared
<1> QED
  BY <1>2, <1>3, <1>4, <1>5, <1>6, <1>7 DEF EInv

LEMMA NextEvidence == EInv /\ Next => EInv'
BY Invariance, ShapeStep, PendingStep, GrownStep, RestStep, NamedStep, AnnouncedStep,
   CapturedStep, InputsStep, GroupedStep, ForemostStep, TalliedStep DEF EInv, IInv, Evid

LEMMA SpecEvidence == Spec => []EInv
<1>1. EInv /\ [Next]_vars => EInv'
  BY NextEvidence, StutterEvidence
<1> QED
  BY <1>1, InitEvidence, PTL DEF Spec

\* The types of the campaign's state, whatever it prepares, records and raises.
THEOREM TypesHold == Spec => []TypeOK
<1>1. EInv => TypeOK
  <2> SUFFICES ASSUME EInv PROVE TypeOK
    OBVIOUS
  <2>1. /\ plan \in Seq(Cases) /\ observed \in Seq(Int) /\ comparable \subseteq Keys
        /\ models \in Seq([route : {"generalized", "fallback"}, key : Keys, id : Int,
                           template : BOOLEAN])
        /\ index \in 0 .. Len(models)
    BY DEF EInv, Pending, Shape, ModelSet
  <2>2. /\ runs \in Nat /\ generationFindings \in 0 .. MaxRejects
        /\ allocations \in [Keys -> Nat] /\ modelId \in Int
        /\ sample \in [context : Int, outcome : Outcomes \union {"none"}]
    BY DEF EInv, Rest
  <2>3. /\ pc \in {"prepare", "keep", "case", "draw", "input", "judge", "conclude", "returned",
                   "raised"}
        /\ replaying \in BOOLEAN /\ executions \in Nat /\ first \in Nat
        /\ counts \in [Outcomes -> Nat]
    BY DEF EInv, IInv, Numbers, Places, Idle, Counts
  <2>4. report \in [executions : Nat, counts : [Outcomes -> Nat], active : BOOLEAN, first : Nat,
                    status : {"incomplete", "mismatch", "pass"},
                    processing : {"incomplete", "complete"}]
    BY DEF EInv, IInv, Published, Counts, Statuses, Ends
  <2> QED
    BY <2>1, <2>2, <2>3, <2>4 DEF TypeOK
<1> QED
  BY <1>1, SpecEvidence, PTL

\* For any catalog, no input is ever recorded under the identifier of another model:
\* none of an earlier sample, of a rejected draw, or of the template it is drawn from.
THEOREM InputsNameTheirModel == Spec => []InputNamesItsModel
<1>1. EInv => InputNamesItsModel
  BY DEF EInv
<1> QED
  BY <1>1, SpecEvidence, PTL

\* For any catalog, what is compared is recorded with the input that was compared.
THEOREM SamplesStayGrouped == Spec => []SamplesAreGrouped
<1>1. EInv => SamplesAreGrouped
  BY DEF EInv
<1> QED
  BY <1>1, SpecEvidence, PTL

\* For any catalog, the witness a report names is no later than any disagreement in the
\* evidence, and a returned campaign with a disagreement in its evidence names one.
THEOREM WitnessStaysFirst == Spec => []WitnessIsFirst
<1>1. EInv => WitnessIsFirst
  <2> SUFFICES ASSUME EInv, recording, NEW i \in Positions("comparison"),
                      records[i].outcome = "disagreement"
               PROVE  /\ report.first # 0 \/ pc # "returned"
                      /\ report.first <= records[records[i].context + 1].sample
    BY DEF WitnessIsFirst
  <2>1. first # 0 /\ first <= records[records[i].context + 1].sample /\ first \in Nat
    BY DEF EInv, Foremost, IInv, Numbers
  <2>2. records[records[i].context + 1].sample \in Nat
    <3>1. records[i].context + 1 \in Positions("input")
      BY DEF EInv, SamplesAreGrouped
    <3>2. records[i].context + 1 \in 1 .. Len(records) /\ records \in Seq(Evidence)
      BY <3>1, LenProperties DEF EInv, Evid, Positions
    <3>3. records[records[i].context + 1] \in Evidence
      BY <3>2, ElementOfSeq
    <3> QED
      BY <3>3 DEF Evidence
  <2>3. report.first = 0 \/ report.first = first
    BY DEF EInv, IInv, Witnessed
  <2>4. pc = "returned" => report.first = first
    BY DEF EInv, Foremost
  <2> QED
    BY <2>1, <2>2, <2>3, <2>4
<1> QED
  BY <1>1, SpecEvidence, PTL
================================================================================
