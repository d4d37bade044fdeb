---------------------------- MODULE AcquisitionProofs ----------------------------
(* Proofs, for every set of keys, every sequence of separating inputs and every   *)
(* catalog, of what a run of the acquisition command reports.                     *)
EXTENDS Acquisition, SequenceTheorems, TLAPS

--------------------------------------------------------------------------------
(* The shape of the request, and the effects the actions share.                   *)

\* The loops of prepare_catalog run over initial segments of the naturals.
LEMMA Shape ==
    /\ Inputs \in Seq(Keys) /\ Len(Inputs) \in Nat
    /\ DOMAIN Inputs = 1 .. Len(Inputs) /\ \A i \in 1 .. Len(Inputs) : Inputs[i] \in Keys
    /\ Len(Requests) \in Nat /\ Forms = 1 .. Len(Requests)
    /\ \A f \in Forms :
          /\ Len(Requests[f]) \in Nat /\ CasesOf(f) = 1 .. Len(Requests[f])
          /\ \A c \in CasesOf(f) :
                /\ Len(Requests[f][c]) \in Nat
                /\ DOMAIN Requests[f][c] = 1 .. Len(Requests[f][c])
                /\ \A i \in DOMAIN Requests[f][c] : Requests[f][c][i] \in Keys
<1>1. Inputs \in Seq(Keys) /\ Requests \in Seq(Seq(Seq(Keys)))
  BY KeysAssumption
<1>2. /\ Len(Inputs) \in Nat /\ DOMAIN Inputs = 1 .. Len(Inputs)
      /\ \A i \in 1 .. Len(Inputs) : Inputs[i] \in Keys
  BY <1>1
<1>3. /\ Len(Requests) \in Nat /\ Forms = 1 .. Len(Requests)
      /\ \A f \in Forms : Requests[f] \in Seq(Seq(Keys))
  BY <1>1 DEF Forms
<1>4. ASSUME NEW f \in Forms
      PROVE  /\ Len(Requests[f]) \in Nat /\ CasesOf(f) = 1 .. Len(Requests[f])
             /\ \A c \in CasesOf(f) : Requests[f][c] \in Seq(Keys)
  BY <1>3, <1>4 DEF CasesOf
<1>5. ASSUME NEW f \in Forms, NEW c \in CasesOf(f)
      PROVE  /\ Len(Requests[f][c]) \in Nat
             /\ DOMAIN Requests[f][c] = 1 .. Len(Requests[f][c])
             /\ \A i \in DOMAIN Requests[f][c] : Requests[f][c][i] \in Keys
  <2>1. Requests[f][c] \in Seq(Keys)
    BY <1>4, <1>5
  <2> QED
    BY <2>1
<1> QED
  BY <1>1, <1>2, <1>3, <1>4, <1>5

\* The fields of a finding, and its type.
LEMMA FindingFields ==
    ASSUME NEW n \in FindingNames, NEW f \in Nat, NEW c \in Nat,
           NEW k \in Keys \cup {None}, NEW e \in Errors
    PROVE  /\ Finding(n, f, c, k, e).stage = n /\ Finding(n, f, c, k, e).form = f
           /\ Finding(n, f, c, k, e).case = c /\ Finding(n, f, c, k, e).key = k
           /\ Finding(n, f, c, k, e) \in [stage : FindingNames, form : Nat, case : Nat,
                                          key : Keys \cup {None}, error : Errors]
BY DEF Finding

Requesting == {"request", "generate", "input", "generalize"}
Cataloguing == {"form", "case", "row", "template", "compare"}

\* The steps of extract, and those of prepare_catalog and main.
Request == AcquireRequested \/ Generate \/ AcquireInput \/ Judge \/ Generalize
Catalog == \/ PrepareForm \/ PrepareCase \/ CasesExhausted
           \/ RowNotEncoded \/ AcquireRow \/ RowsExhausted
           \/ Template \/ Compare \/ AppendCase \/ Write \/ PrepareFails

\* Every step is of one of the two kinds.
LEMMA Kinds == [Next]_vars => Request \/ Catalog \/ UNCHANGED vars
BY DEF Next, Request, Catalog

\* extract does not touch the catalog, and leaves its stages by the end or by an error.
LEMMA RequestFrame ==
    ASSUME Request
    PROVE  /\ UNCHANGED catalogVars /\ pc \in Requesting
           /\ pc' \in Requesting \cup {"form"}
BY DEF Request, AcquireRequested, Generate, AcquireInput, Judge, Generalize, Fail, Requesting

\* prepare_catalog does not touch what extract left.
LEMMA CatalogFrame ==
    ASSUME Catalog
    PROVE  /\ UNCHANGED requestVars /\ pc \in Cataloguing
           /\ pc' \in Cataloguing \cup {"written", "crashed"}
BY DEF Catalog, PrepareForm, PrepareCase, CasesExhausted, RowNotEncoded, AcquireRow,
       RowsExhausted, Template, Compare, AppendCase, Write, PrepareFails, NextForm, NextCase, Cataloguing

\* Findings are only added.
LEMMA FindingsGrow == [Next]_vars => findings \subseteq findings'
<1> SUFFICES ASSUME [Next]_vars PROVE findings \subseteq findings'
  OBVIOUS
<1>1. ASSUME NEW k, Acquire(k) PROVE findings \subseteq findings'
  BY <1>1 DEF Acquire
<1>2. CASE Request
  BY <1>1, <1>2 DEF Request, AcquireRequested, Generate, AcquireInput, Judge, Generalize, Fail
<1>3. CASE AcquireRow
  BY <1>3 DEF AcquireRow, ExtractKey
<1>4. CASE Catalog /\ ~AcquireRow
  BY <1>4 DEF Catalog, PrepareForm, PrepareCase, CasesExhausted, RowNotEncoded,
              RowsExhausted, Template, Compare, AppendCase, Write, PrepareFails
<1>5. CASE UNCHANGED vars
  BY <1>5 DEF vars
<1> QED
  BY <1>2, <1>3, <1>4, <1>5, Kinds

\* The three outcomes of an acquisition.
LEMMA AcquireCases ==
    ASSUME NEW k \in Keys, Acquire(k)
    PROVE  \/ /\ Attempted(k)
              /\ UNCHANGED <<stage, direct, failed, retained, announced, findings>>
           \/ /\ stage' = <<"extraction", k>>
              /\ direct' = direct \cup {k} /\ retained' = retained \cup {k}
              /\ announced' = announced \cup {<<k, "direct">>}
              /\ UNCHANGED <<failed, findings>>
           \/ /\ stage' = <<"extraction", k>>
              /\ UNCHANGED <<direct, retained, announced>>
              /\ \E e \in Errors :
                    /\ failed' = Append(failed, <<k, e>>)
                    /\ findings' = findings \cup {Finding("extraction", 0, 0, k, e)}
BY DEF Acquire

\* An acquisition is remembered, and so are the earlier ones.
LEMMA AcquireRemembers ==
    ASSUME NEW k \in Keys, Acquire(k), failed \in Seq(Keys \X Errors)
    PROVE  \A l \in Keys : Attempted(l) \/ l = k => Attempted(l)'
<1>1. CASE UNCHANGED <<direct, failed>> /\ Attempted(k)
  BY <1>1 DEF Attempted
<1>2. CASE direct' = direct \cup {k} /\ failed' = failed
  BY <1>2 DEF Attempted
<1>3. ASSUME NEW e \in Errors, failed' = Append(failed, <<k, e>>), direct' = direct
      PROVE  \A l \in Keys : Attempted(l) \/ l = k => Attempted(l)'
  <2>1. /\ Len(failed) \in Nat /\ DOMAIN failed = 1 .. Len(failed)
        /\ DOMAIN failed' = 1 .. Len(failed) + 1
        /\ \A i \in 1 .. Len(failed) : failed'[i] = failed[i]
        /\ failed'[Len(failed) + 1] = <<k, e>>
    BY <1>3, AppendProperties
  <2>2. failed'[Len(failed) + 1][1] = k
    BY <2>1
  <2>3. \A i \in DOMAIN failed : i \in DOMAIN failed' /\ failed'[i] = failed[i]
    BY <2>1
  <2>4. Len(failed) + 1 \in DOMAIN failed'
    BY <2>1
  <2> QED
    BY <1>3, <2>2, <2>3, <2>4 DEF Attempted
<1> QED
  BY <1>1, <1>2, <1>3, AcquireCases

--------------------------------------------------------------------------------
(* Types, in parts.                                                               *)

RequestTypes ==
    /\ at \in 1 .. Len(Inputs) + 1
    /\ stage \in Stages \X Keys
    /\ direct \subseteq Keys /\ retained \subseteq Keys
    /\ failed \in Seq(Keys \X Errors)
    /\ status \in {"pass", "unsupported", "acquisition_error"}
    /\ route \in {None, "direct", "generalized"}
PlaceTypes ==
    /\ pc \in Requesting \cup Cataloguing \cup {"written", "crashed"}
    /\ form \in Nat /\ case \in Nat /\ row \in Nat
    /\ observations \subseteq Nat
    /\ incomplete \in BOOLEAN /\ template \in BOOLEAN
LogTypes ==
    /\ announced \subseteq Keys \X {"direct", "normalized", "generalized"}
    /\ findings \subseteq [stage : FindingNames, form : Nat, case : Nat,
                           key : Keys \cup {None}, error : Errors]
CacheTypes ==
    /\ cache \in [Keys -> {"absent", "model", "failed"}]
    /\ comparisons \in [Keys -> {"absent", "yes", "no"}]
    /\ cases \subseteq [form : Nat, case : Nat, rows : SUBSET Nat,
                        template : BOOLEAN, comparable : SUBSET Nat]

\* Together they are the type invariant.
LEMMA TypeParts == TypeOK <=> RequestTypes /\ PlaceTypes /\ LogTypes /\ CacheTypes
BY DEF TypeOK, RequestTypes, PlaceTypes, LogTypes, CacheTypes, Requesting, Cataloguing

\* Initially every part has its type.
LEMMA TypeInit == Init => TypeOK
<1> SUFFICES ASSUME Init PROVE TypeOK
  OBVIOUS
<1>1. RequestTypes
  <2>1. <<>> \in Seq(Keys \X Errors)
    BY EmptySeq
  <2>2. <<"acquisition", Requested>> \in Stages \X Keys
    BY KeysAssumption DEF Stages
  <2> QED
    BY <2>1, <2>2, Shape DEF Init, RequestTypes
<1>2. PlaceTypes /\ LogTypes /\ CacheTypes
  BY DEF Init, PlaceTypes, LogTypes, CacheTypes, Requesting, Cataloguing
<1> QED
  BY <1>1, <1>2, TypeParts

\* extract keeps its own types.
LEMMA RequestTypesStep == TypeOK /\ [Next]_vars => RequestTypes'
<1> SUFFICES ASSUME RequestTypes, [Next]_vars PROVE RequestTypes'
  BY TypeParts
<1>1. ASSUME NEW k \in Keys, Acquire(k)
      PROVE  /\ stage' \in Stages \X Keys /\ direct' \subseteq Keys /\ retained' \subseteq Keys
             /\ failed' \in Seq(Keys \X Errors)
  <2>1. \A e \in Errors : Append(failed, <<k, e>>) \in Seq(Keys \X Errors)
    BY AppendProperties DEF RequestTypes
  <2>2. <<"extraction", k>> \in Stages \X Keys
    BY DEF Stages
  <2>3. stage' \in Stages \X Keys
    BY <1>1, <2>2, AcquireCases DEF RequestTypes
  <2>4. failed' \in Seq(Keys \X Errors)
    BY <1>1, <2>1, AcquireCases DEF RequestTypes
  <2>5. direct' \subseteq Keys /\ retained' \subseteq Keys
    BY <1>1, AcquireCases DEF RequestTypes
  <2> QED
    BY <2>3, <2>4, <2>5
<1>2. CASE AcquireRequested
  BY <1>1, <1>2, KeysAssumption DEF AcquireRequested, RequestTypes
<1>3. CASE AcquireInput
  <2>1. /\ Inputs[at] \in Keys /\ Acquire(Inputs[at]) /\ at' \in 1 .. Len(Inputs) + 1
        /\ UNCHANGED <<status, route>>
    BY <1>3, Shape DEF AcquireInput, RequestTypes
  <2> QED
    BY <1>1, <2>1 DEF RequestTypes
<1>4. CASE Generate \/ Judge \/ Generalize
  <2>1. UNCHANGED <<at, direct, failed, retained>>
    BY <1>4 DEF Generate, Judge, Generalize
  <2>2. stage' \in Stages \X Keys
    BY <1>4, KeysAssumption DEF Generate, Judge, Generalize, Stages, RequestTypes
  <2>3. /\ status' \in {"pass", "unsupported", "acquisition_error"}
        /\ route' \in {None, "direct", "generalized"}
    BY <1>4 DEF Generate, Judge, Generalize, Fail, RequestTypes
  <2> QED
    BY <2>1, <2>2, <2>3 DEF RequestTypes
<1>5. CASE Catalog \/ UNCHANGED vars
  BY <1>5, CatalogFrame DEF requestVars, vars, RequestTypes
<1> QED
  BY <1>2, <1>3, <1>4, <1>5, Kinds DEF Request

\* The loops of prepare_catalog keep theirs.
LEMMA PlaceTypesStep == TypeOK /\ [Next]_vars => PlaceTypes'
<1> SUFFICES ASSUME PlaceTypes, [Next]_vars PROVE PlaceTypes'
  BY TypeParts
<1>1. pc' \in Requesting \cup Cataloguing \cup {"written", "crashed"}
  BY RequestFrame, CatalogFrame, Kinds DEF PlaceTypes, Cataloguing, vars
<1>0. ASSUME \/ NextForm \/ NextCase
             \/ UNCHANGED <<form, case, row, observations, incomplete, template>>,
             pc' \in Requesting \cup Cataloguing \cup {"written", "crashed"}
      PROVE  PlaceTypes'
  <2>1. form' \in Nat /\ case' \in Nat /\ row' \in Nat
    BY <1>0 DEF PlaceTypes, NextForm, NextCase
  <2>2. observations' \subseteq Nat
    BY <1>0 DEF PlaceTypes, NextForm, NextCase
  <2>3. incomplete' \in BOOLEAN /\ template' \in BOOLEAN
    BY <1>0 DEF PlaceTypes, NextForm, NextCase
  <2> QED
    BY <1>0, <2>1, <2>2, <2>3 DEF PlaceTypes
<1>2. CASE Request \/ UNCHANGED vars
  <2>1. UNCHANGED <<form, case, row, observations, incomplete, template>>
    BY <1>2, RequestFrame DEF catalogVars, vars
  <2> QED
    BY <1>0, <1>1, <2>1
<1>3. CASE PrepareForm \/ PrepareCase \/ CasesExhausted
  <2>1. NextForm \/ NextCase
        \/ UNCHANGED <<form, case, row, observations, incomplete, template>>
    BY <1>3 DEF PrepareForm, PrepareCase, CasesExhausted
  <2> QED
    BY <1>0, <1>1, <2>1
<1>4. CASE RowNotEncoded \/ AcquireRow
  <2>1. /\ row' = row + 1 /\ observations' \subseteq observations \cup {row}
        /\ incomplete' \in BOOLEAN /\ UNCHANGED <<form, case, template>>
    BY <1>4 DEF RowNotEncoded, AcquireRow, PlaceTypes
  <2> QED
    BY <1>1, <2>1 DEF PlaceTypes
<1>5. CASE RowsExhausted \/ Template \/ Compare
  <2>1. \/ NextCase
        \/ UNCHANGED <<form, case, row, observations, incomplete>> /\ template' \in {template, TRUE}
    BY <1>5 DEF RowsExhausted, Template, Compare
  <2> QED
    BY <1>0, <1>1, <2>1 DEF PlaceTypes
<1>6. CASE AppendCase \/ Write \/ PrepareFails
  BY <1>0, <1>1, <1>6 DEF AppendCase, Write, PrepareFails, catalogVars
<1> QED
  BY <1>2, <1>3, <1>4, <1>5, <1>6, Kinds DEF Catalog

\* What the catalog's cases are keyed by: the loops stand at one of the rows.
AtCase == pc \in {"row", "template", "compare"} => form \in Forms /\ case \in CasesOf(form)
AtForm == pc \in {"case", "row", "template", "compare"} => form \in Forms
InLoops ==
    /\ AtForm /\ AtCase
    /\ form >= 1 /\ case >= 1 /\ row >= 1
    /\ pc \notin {"case", "row", "template", "compare", "written", "crashed"} => case = 1
    /\ pc = "row" => row <= Len(Rows) + 1 /\ observations \subseteq 1 .. row - 1
    /\ pc \in {"template", "compare"} => observations \subseteq DOMAIN Rows
    /\ pc \notin {"row", "template", "compare", "crashed"} =>
          observations = {} /\ incomplete = FALSE /\ row = 1
    /\ pc \notin {"compare", "crashed"} => template = FALSE
    /\ pc = "written" => form \notin Forms

\* The rows of the case the loops stand at.
LEMMA RowShape ==
    ASSUME AtCase, pc \in {"row", "template", "compare"}
    PROVE  /\ Len(Rows) \in Nat /\ DOMAIN Rows = 1 .. Len(Rows)
           /\ \A i \in DOMAIN Rows : Rows[i] \in Keys
BY Shape DEF AtCase, Rows

\* The loops stay within the catalog.
LEMMA LoopsStep == TypeOK /\ InLoops /\ [Next]_vars => InLoops'
<1> SUFFICES ASSUME PlaceTypes, InLoops, [Next]_vars PROVE InLoops'
  BY TypeParts
<1> USE DEF InLoops, AtForm, AtCase, PlaceTypes
<1>1. CASE Request \/ UNCHANGED vars
  BY <1>1, RequestFrame DEF catalogVars, vars, Requesting, Rows
<1>2. CASE PrepareForm \/ CasesExhausted
  <2>1. CASE NextForm
    BY <2>1 DEF NextForm
  <2>2. /\ pc = "form" /\ form \in Forms /\ pc' = "case"
        /\ UNCHANGED <<form, case, row, observations, incomplete, template>>
        \/ NextForm
    BY <1>2 DEF PrepareForm, CasesExhausted
  <2> QED
    BY <2>1, <2>2
<1>3. CASE PrepareCase
  <2>1. CASE NextCase
    BY <1>3, <2>1 DEF PrepareCase, NextCase
  <2>2. CASE pc' = "row" /\ UNCHANGED <<form, case, row, observations, incomplete, template>>
    <3>1. Len(Requests[form][case]) \in Nat
      BY <1>3, Shape DEF PrepareCase
    <3> QED
      BY <1>3, <2>2, <3>1 DEF PrepareCase, Rows
  <2> QED
    BY <1>3, <2>1, <2>2 DEF PrepareCase
<1>4. CASE RowNotEncoded \/ AcquireRow
  <2>1. /\ pc = "row" /\ pc' = "row" /\ row \in DOMAIN Rows /\ row' = row + 1
        /\ observations' \subseteq observations \cup {row}
        /\ UNCHANGED <<form, case, template>>
    BY <1>4 DEF RowNotEncoded, AcquireRow
  <2>2. Len(Rows) \in Nat /\ DOMAIN Rows = 1 .. Len(Rows) /\ Rows' = Rows
    BY <2>1, RowShape DEF Rows
  <2> QED
    BY <2>1, <2>2
<1>5. CASE RowsExhausted
  <2>1. Len(Rows) \in Nat /\ DOMAIN Rows = 1 .. Len(Rows)
    BY <1>5, RowShape DEF RowsExhausted
  <2>2. CASE NextCase
    BY <1>5, <2>2 DEF RowsExhausted, NextCase
  <2>3. CASE pc' = "template" /\ UNCHANGED <<form, case, row, observations, incomplete, template>>
    BY <1>5, <2>1, <2>3 DEF RowsExhausted, Rows
  <2> QED
    BY <1>5, <2>2, <2>3 DEF RowsExhausted
<1>6. CASE Template \/ Compare
  <2>1. /\ UNCHANGED <<form, case, row, observations>> /\ pc \in {"template", "compare"}
        /\ pc' \in {"compare", "crashed"}
    BY <1>6 DEF Template, Compare
  <2> QED
    BY <2>1 DEF Rows
<1>7. CASE AppendCase
  BY <1>7 DEF AppendCase, NextCase
<1>8. CASE Write \/ PrepareFails
  BY <1>8 DEF Write, PrepareFails, catalogVars, Rows
<1> QED
  BY <1>1, <1>2, <1>3, <1>4, <1>5, <1>6, <1>7, <1>8, Kinds DEF Catalog

\* What extract attempts is a key.
LEMMA Acquires ==
    ASSUME TypeOK, AcquireRequested \/ AcquireInput
    PROVE  \E k \in Keys : Acquire(k)
<1>1. CASE AcquireRequested
  BY <1>1, KeysAssumption DEF AcquireRequested
<1>2. CASE AcquireInput
  <2>1. at \in 1 .. Len(Inputs) + 1 /\ at <= Len(Inputs)
    BY <1>2, TypeParts DEF AcquireInput, RequestTypes
  <2>2. Inputs[at] \in Keys
    BY <2>1, Shape
  <2> QED
    BY <1>2, <2>2 DEF AcquireInput
<1> QED
  BY <1>1, <1>2

\* A step adds at most one finding, and it is one about a key or about none.
LEMMA OneFinding ==
    ASSUME TypeOK, InLoops, [Next]_vars
    PROVE  \/ findings' = findings
           \/ \E n \in FindingNames, f \in Nat, c \in Nat, k \in Keys \cup {None}, e \in Errors :
                 findings' = findings \cup {Finding(n, f, c, k, e)}
<1> DEFINE Adds == \E n \in FindingNames, f \in Nat, c \in Nat, k \in Keys \cup {None}, e \in Errors :
                      findings' = findings \cup {Finding(n, f, c, k, e)}
<1>0. RequestTypes /\ PlaceTypes
  BY TypeParts
<1>1. ASSUME NEW k \in Keys, Acquire(k) PROVE findings' = findings \/ Adds
  BY <1>1, AcquireCases DEF FindingNames, Stages
<1>2. ASSUME NEW e \in Errors, NEW w \in Stages \X Keys, Fail(e, w) PROVE Adds
  <2>1. w[1] \in FindingNames /\ w[2] \in Keys
    BY DEF FindingNames
  <2> QED
    BY <1>2, <2>1 DEF Fail
<1>3. CASE AcquireRequested \/ AcquireInput
  BY <1>1, <1>3, Acquires
<1>4. CASE Generate
  <2>1. stage' \in Stages \X Keys /\ "limit" \in Errors
    BY <1>4, KeysAssumption DEF Generate, Stages, Errors
  <2> QED
    BY <1>2, <1>4, <2>1 DEF Generate
<1>5. CASE Judge
  <2>1. stage \in Stages \X Keys /\ "limit" \in Errors
    BY <1>0 DEF RequestTypes, Errors
  <2>2. failed # <<>> => failed[1] \in Keys \X Errors
    BY <1>0, EmptySeq DEF RequestTypes
  <2>3. failed # <<>> => failed[1][2] \in Errors
    BY <2>2
  <2> QED
    BY <1>2, <1>5, <2>1, <2>3 DEF Judge
<1>6. CASE Generalize
  BY <1>0, <1>2, <1>6 DEF Generalize, RequestTypes
<1>7. CASE PrepareForm \/ PrepareCase
  BY <1>0, <1>7 DEF PrepareForm, PrepareCase, PlaceTypes, FindingNames, Errors
<1>8. CASE RowNotEncoded \/ AcquireRow
  <2>1. Rows[row] \in Keys
    BY <1>8, RowShape DEF RowNotEncoded, AcquireRow, InLoops
  <2> QED
    <3>1. CASE RowNotEncoded
      BY <1>0, <2>1, <3>1 DEF RowNotEncoded, PlaceTypes, FindingNames, Errors
    <3>2. CASE AcquireRow
      <4>1. findings' = findings \/ \E e \in Errors :
                findings' = findings \cup {Finding("extraction:row", form, 0, Rows[row], e)}
        BY <3>2 DEF AcquireRow, ExtractKey
      <4> QED
        BY <1>0, <2>1, <4>1 DEF PlaceTypes, FindingNames
    <3> QED
      BY <1>8, <3>1, <3>2
<1>9. CASE Template \/ Compare
  <2>1. \A i \in observations : Rows[i] \in Keys
    BY <1>9, RowShape DEF Template, Compare, InLoops
  <2> QED
    BY <1>0, <1>9, <2>1 DEF Template, Compare, PlaceTypes, FindingNames, Errors
<1>10. CASE CasesExhausted \/ RowsExhausted \/ AppendCase \/ Write \/ PrepareFails \/ UNCHANGED vars
  BY <1>10 DEF CasesExhausted, RowsExhausted, AppendCase, Write, PrepareFails, vars
<1> QED
  BY <1>3, <1>4, <1>5, <1>6, <1>7, <1>8, <1>9, <1>10, Kinds DEF Request, Catalog

\* The models handed out are of keys.
LEMMA LogTypesStep == TypeOK /\ InLoops /\ [Next]_vars => LogTypes'
<1> SUFFICES ASSUME TypeOK, InLoops, [Next]_vars PROVE LogTypes'
  OBVIOUS
<1>1. findings' \subseteq [stage : FindingNames, form : Nat, case : Nat,
                          key : Keys \cup {None}, error : Errors]
  BY OneFinding, FindingFields, TypeParts DEF LogTypes
<1>2. announced' \subseteq Keys \X {"direct", "normalized", "generalized"}
  <2>0. RequestTypes /\ announced \subseteq Keys \X {"direct", "normalized", "generalized"}
    BY TypeParts DEF LogTypes
  <2>1. ASSUME NEW k \in Keys, Acquire(k)
        PROVE  announced' = announced \/ announced' = announced \cup {<<k, "direct">>}
    BY <2>1, AcquireCases
  <2>2. CASE AcquireRequested \/ AcquireInput
    <3>1. PICK k \in Keys : Acquire(k)
      BY <2>2, Acquires
    <3> QED
      BY <2>0, <2>1, <3>1
  <2>3. CASE Generalize
    BY <2>0, <2>3, Shape, KeysAssumption DEF Generalize
  <2>4. CASE AcquireRow
    <3>1. Rows[row] \in Keys
      BY <2>4, RowShape DEF AcquireRow, InLoops
    <3> QED
      BY <2>0, <2>4, <3>1 DEF AcquireRow, ExtractKey
  <2>5. CASE Generate \/ Judge \/ (Catalog /\ ~AcquireRow) \/ UNCHANGED vars
    BY <2>0, <2>5 DEF Generate, Judge, Catalog, PrepareForm, PrepareCase, CasesExhausted,
                      RowNotEncoded, RowsExhausted, Template, Compare, AppendCase, Write, PrepareFails, vars
  <2> QED
    BY <2>2, <2>3, <2>4, <2>5, Kinds DEF Request
<1> QED
  BY <1>1, <1>2 DEF LogTypes

\* The caches and the cases keep their types.
LEMMA CacheTypesStep == TypeOK /\ InLoops /\ [Next]_vars => CacheTypes'
<1> SUFFICES ASSUME PlaceTypes, CacheTypes, InLoops, [Next]_vars PROVE CacheTypes'
  BY TypeParts
<1>1. CASE AcquireRow
  <2>1. cache' = cache \/ \E o \in {"model", "failed"} : cache' = [cache EXCEPT ![Rows[row]] = o]
    BY <1>1 DEF AcquireRow, ExtractKey
  <2> QED
    BY <1>1, <2>1 DEF AcquireRow, CacheTypes
<1>2. CASE Compare
  <2>1. comparisons' = comparisons
        \/ \E i \in observations, o \in {"yes", "no"} :
              comparisons' = [comparisons EXCEPT ![Rows[i]] = o]
    BY <1>2 DEF Compare
  <2> QED
    BY <1>2, <2>1 DEF Compare, CacheTypes
<1>3. CASE AppendCase
  <2>1. \A o : {i \in observations : comparisons[Rows[i]] = o} \subseteq Nat
    BY DEF PlaceTypes
  <2> QED
    BY <1>3, <2>1 DEF AppendCase, PlaceTypes, CacheTypes
<1>4. CASE Request \/ (Catalog /\ ~AcquireRow /\ ~Compare /\ ~AppendCase) \/ UNCHANGED vars
  <2>1. UNCHANGED <<cache, comparisons, cases>>
    BY <1>4, RequestFrame DEF Catalog, PrepareForm, PrepareCase, CasesExhausted, RowNotEncoded,
                              RowsExhausted, Template, Write, PrepareFails, vars, catalogVars
  <2> QED
    BY <2>1 DEF CacheTypes
<1> QED
  BY <1>1, <1>2, <1>3, <1>4, Kinds

\* Every step keeps the types.
LEMMA TypeStep == TypeOK /\ InLoops /\ [Next]_vars => TypeOK'
<1> SUFFICES ASSUME TypeOK, InLoops, [Next]_vars PROVE TypeOK'
  OBVIOUS
<1>1. RequestTypes' /\ PlaceTypes' /\ LogTypes' /\ CacheTypes'
  BY RequestTypesStep, PlaceTypesStep, LogTypesStep, CacheTypesStep
<1> QED
  BY <1>1 DEF TypeOK, RequestTypes, PlaceTypes, LogTypes, CacheTypes, Requesting, Cataloguing

--------------------------------------------------------------------------------
(* What holds of extract.                                                         *)

\* The keys a generalised request was obtained from.
Separated == {Requested} \cup {Inputs[i] : i \in DOMAIN Inputs} \subseteq direct

\* What was attempted so far, and what becomes of it.
Attempts ==
    /\ retained = direct
    /\ pc \in {"request", "generate"} => at = 1
    /\ pc \in {"generate", "input"} => Attempted(Requested)
    /\ pc = "input" => \A i \in 1 .. at - 1 : Attempted(Inputs[i])
    /\ pc = "generalize" => Separated
    /\ ~Extracted => status = "pass" /\ route = None
    /\ route = "generalized" => Separated

\* An error ends extract with a finding, and with the requested model if it was kept.
LEMMA FailEffect ==
    ASSUME NEW e \in Errors, NEW w \in Stages \X Keys, Fail(e, w), UNCHANGED retained
    PROVE  /\ pc' = "form" /\ status' # "pass" /\ route' # "generalized"
           /\ \E x \in findings' : x.stage \in Stages /\ x.form = 0
           /\ route' = "direct" <=> Requested \in retained'
<1>1. w[1] \in FindingNames /\ w[1] \in Stages /\ w[2] \in Keys
  BY DEF FindingNames
<1>2. /\ Finding(w[1], 0, 0, w[2], e).stage \in Stages
      /\ Finding(w[1], 0, 0, w[2], e).form = 0
  BY <1>1, FindingFields
<1>3. \E x \in findings' : x.stage \in Stages /\ x.form = 0
  BY <1>2 DEF Fail
<1> QED
  BY <1>3, KeysAssumption DEF Fail

\* The errors extract can end with.
LEMMA FailArguments ==
    ASSUME TypeOK
    PROVE  /\ "limit" \in Errors /\ stage \in Stages \X Keys
           /\ <<"generation", Requested>> \in Stages \X Keys
           /\ failed # <<>> => failed[1][2] \in Errors
<1>1. RequestTypes
  BY TypeParts
<1>2. failed # <<>> => failed[1] \in Keys \X Errors
  BY <1>1, EmptySeq DEF RequestTypes
<1> QED
  BY <1>1, <1>2, KeysAssumption DEF RequestTypes, Errors, Stages

\* Judge lets generalisation start only when nothing failed: then what was attempted
\* was acquired.
LEMMA AttemptsStep == TypeOK /\ Attempts /\ [Next]_vars => Attempts'
<1> SUFFICES ASSUME TypeOK, Attempts, [Next]_vars PROVE Attempts'
  OBVIOUS
<1> USE DEF Attempts, Extracted
<1>0. RequestTypes /\ Requested \in Keys
  BY TypeParts, KeysAssumption
<1>a. \A i \in DOMAIN Inputs : Inputs[i] \in Keys
  BY Shape
<1>1. CASE AcquireRequested
  <2>1. Attempted(Requested)'
    BY <1>0, <1>1, AcquireRemembers DEF AcquireRequested, RequestTypes
  <2>2. retained' = direct'
    BY <1>0, <1>1, AcquireCases DEF AcquireRequested
  <2>3. pc = "request" /\ pc' = "generate" /\ UNCHANGED <<at, status, route>>
    BY <1>1 DEF AcquireRequested
  <2> QED
    BY <2>1, <2>2, <2>3, KeysAssumption
<1>2. CASE AcquireInput
  <2>1. /\ at \in 1 .. Len(Inputs) /\ at' = at + 1 /\ pc = "input" /\ pc' = "input"
        /\ Acquire(Inputs[at]) /\ UNCHANGED <<status, route>>
    BY <1>0, <1>2, Shape DEF AcquireInput, RequestTypes
  <2>2. Inputs[at] \in Keys /\ failed \in Seq(Keys \X Errors)
    BY <1>0, <1>a, <2>1, Shape DEF RequestTypes
  <2>3. \A l \in Keys : Attempted(l) \/ l = Inputs[at] => Attempted(l)'
    BY <2>1, <2>2, AcquireRemembers
  <2>4. ASSUME NEW i \in 1 .. at PROVE Attempted(Inputs[i])'
    <3>1. Inputs[i] \in Keys /\ (i = at \/ i \in 1 .. at - 1)
      BY <1>a, <2>1, Shape
    <3> QED
      BY <2>1, <2>3, <3>1
  <2>5. Attempted(Requested)'
    BY <1>0, <2>1, <2>3
  <2>6. retained' = direct'
    BY <2>1, <2>2, AcquireCases
  <2> QED
    BY <2>1, <2>4, <2>5, <2>6, KeysAssumption
<1>3. CASE Generate
  <2>1. /\ pc = "generate" /\ UNCHANGED <<at, direct, failed, retained>>
        /\ stage' = <<"generation", Requested>>
    BY <1>3 DEF Generate
  <2>2. CASE pc' = "input" /\ UNCHANGED <<status, route>>
    <3>1. at = 1
      BY <2>1
    <3>2. Attempted(Requested)'
      BY <2>1 DEF Attempted
    <3> QED
      BY <2>1, <2>2, <3>1, <3>2, KeysAssumption
  <2>3. CASE Fail("limit", stage')
    BY <2>1, <2>3, FailArguments, FailEffect
  <2> QED
    BY <1>3, <2>2, <2>3 DEF Generate
<1>4. CASE Judge
  <2>1. pc = "input" /\ at > Len(Inputs) /\ UNCHANGED <<at, direct, failed, retained>>
    BY <1>4 DEF Judge
  <2>2. CASE failed = <<>> /\ pc' = "generalize" /\ UNCHANGED <<status, route>>
    <3>1. \A k \in Keys : Attempted(k) => k \in direct
      BY <2>2 DEF Attempted
    <3>2. \A i \in DOMAIN Inputs : Attempted(Inputs[i])
      BY <1>0, <2>1, Shape DEF RequestTypes
    <3>3. Separated
      BY <1>0, <1>a, <2>1, <3>1, <3>2 DEF Separated
    <3>4. Separated'
      BY <2>1, <3>3 DEF Separated
    <3> QED
      BY <2>1, <2>2, <3>4
  <2>3. ASSUME NEW e \in Errors, Fail(e, stage) PROVE Attempts'
    BY <2>1, <2>3, FailArguments, FailEffect
  <2> QED
    BY <1>4, <2>2, <2>3, FailArguments DEF Judge
<1>5. CASE Generalize
  <2>1. /\ pc = "generalize" /\ UNCHANGED <<at, stage, direct, failed, retained>> /\ Separated
        /\ status = "pass"
    BY <1>5 DEF Generalize
  <2>2. Separated'
    BY <2>1 DEF Separated
  <2>3. CASE pc' = "form"
    BY <2>1, <2>2, <2>3
  <2> QED
    BY <1>5, <2>3 DEF Generalize, Fail
<1>6. CASE Catalog \/ UNCHANGED vars
  <2>1. UNCHANGED requestVars /\ (Extracted => Extracted') /\ (pc' = pc \/ pc' \notin Requesting)
    BY <1>6, CatalogFrame DEF vars, Cataloguing, Requesting
  <2>2. /\ UNCHANGED <<at, direct, failed, retained, status, route>>
        /\ \A k : Attempted(k)' <=> Attempted(k)
        /\ Separated' <=> Separated
    BY <2>1 DEF requestVars, Attempted, Separated
  <2> QED
    BY <2>1, <2>2 DEF Requesting
<1> QED
  BY <1>1, <1>2, <1>3, <1>4, <1>5, <1>6, Kinds DEF Request

\* A failing status comes with a finding and with the requested model if it was kept;
\* success is generalisation.
LEMMA RouteStep == TypeOK /\ Attempts /\ RouteMatchesStatus /\ [Next]_vars => RouteMatchesStatus'
<1> SUFFICES ASSUME TypeOK, Attempts, RouteMatchesStatus, [Next]_vars PROVE RouteMatchesStatus'
  OBVIOUS
<1>1. ASSUME NEW e \in Errors, NEW w \in Stages \X Keys, Fail(e, w), UNCHANGED retained
      PROVE  RouteMatchesStatus'
  BY <1>1, FailEffect DEF RouteMatchesStatus
<1>2. CASE AcquireRequested \/ AcquireInput
  BY <1>2 DEF AcquireRequested, AcquireInput, RouteMatchesStatus, Extracted
<1>3. CASE Generate
  BY <1>1, <1>3, FailArguments DEF Generate, RouteMatchesStatus, Extracted
<1>4. CASE Judge
  BY <1>1, <1>4, FailArguments DEF Judge, RouteMatchesStatus, Extracted
<1>5. CASE Generalize
  BY <1>1, <1>5, FailArguments DEF Generalize, RouteMatchesStatus, Extracted, Attempts
<1>6. CASE Catalog \/ UNCHANGED vars
  <2>1. UNCHANGED <<status, route, retained>> /\ (Extracted' => Extracted)
    BY <1>6, CatalogFrame DEF vars, requestVars, Extracted, Cataloguing
  <2> QED
    BY <2>1, FindingsGrow DEF RouteMatchesStatus
<1> QED
  BY <1>2, <1>3, <1>4, <1>5, <1>6, Kinds DEF Request

--------------------------------------------------------------------------------
(* What holds of the catalog.                                                     *)

\* The rows of the case at hand that lack their model make it incomplete, and the
\* cases of the report have rows of their requests.
Whole ==
    /\ pc = "row" /\ ~incomplete => observations = 1 .. row - 1
    /\ pc = "template" /\ ~incomplete => observations = DOMAIN Rows
    /\ pc = "compare" /\ template => observations = DOMAIN Rows
    /\ \A x \in cases :
          /\ x.form \in Forms /\ x.case \in CasesOf(x.form)
          /\ x.rows \subseteq DOMAIN RowsOf(x)
          /\ x.template => x.rows = DOMAIN RowsOf(x)

\* The effect of a row.
LEMMA RowCases ==
    ASSUME TypeOK, RowNotEncoded \/ AcquireRow
    PROVE  /\ pc = "row" /\ pc' = "row" /\ row \in DOMAIN Rows /\ row' = row + 1
           /\ UNCHANGED <<form, case, template, comparisons, cases>>
           /\ \/ observations' = observations \cup {row} /\ (incomplete' <=> incomplete)
              \/ observations' = observations /\ incomplete' = TRUE
<1>1. incomplete \in BOOLEAN
  BY TypeParts DEF PlaceTypes
<1> QED
  BY <1>1 DEF RowNotEncoded, AcquireRow

\* The case that is appended.
NewCase == [form |-> form, case |-> case, rows |-> observations, template |-> template,
            comparable |-> {i \in observations : comparisons[Rows[i]] = "yes"}]

\* Its fields.
LEMMA NewCaseFields ==
    /\ NewCase.form = form /\ NewCase.case = case /\ NewCase.rows = observations
    /\ (NewCase.template <=> template) /\ RowsOf(NewCase) = Rows
    /\ NewCase.comparable = {i \in observations : comparisons[Rows[i]] = "yes"}
BY DEF NewCase, RowsOf, Rows

\* A template is made only of a case all of whose rows have their model.
LEMMA WholeStep == TypeOK /\ InLoops /\ Whole /\ [Next]_vars => Whole'
<1> SUFFICES ASSUME TypeOK, InLoops, Whole, [Next]_vars PROVE Whole'
  OBVIOUS
<1> DEFINE Fits(x) == /\ x.form \in Forms /\ x.case \in CasesOf(x.form)
                      /\ x.rows \subseteq DOMAIN RowsOf(x)
                      /\ x.template => x.rows = DOMAIN RowsOf(x)
<1>0. /\ \A x \in cases : Fits(x)
      /\ row \in Nat /\ incomplete \in BOOLEAN /\ template \in BOOLEAN
  BY TypeParts DEF Whole, PlaceTypes
<1>1. CASE RowNotEncoded \/ AcquireRow
  <2>1. /\ pc = "row" /\ pc' = "row" /\ row' = row + 1 /\ cases' = cases /\ row >= 1
    BY <1>1, RowCases DEF InLoops
  <2>2. (1 .. row - 1) \cup {row} = 1 .. row' - 1
    BY <1>0, <2>1
  <2>3. ~incomplete' => observations' = 1 .. row' - 1
    BY <1>0, <1>1, <2>1, <2>2, RowCases DEF Whole
  <2> QED
    BY <1>0, <2>1, <2>3 DEF Whole
<1>2. CASE RowsExhausted
  <2>1. /\ pc = "row" /\ row \notin DOMAIN Rows /\ UNCHANGED cases
        /\ \/ pc' = "case"
           \/ pc' = "template" /\ UNCHANGED <<form, case, row, observations, incomplete, template>>
    BY <1>2 DEF RowsExhausted, NextCase
  <2>2. DOMAIN Rows = 1 .. row - 1
    BY <1>0, <2>1, RowShape DEF InLoops
  <2> QED
    BY <2>1, <2>2 DEF Whole, Rows
<1>3. CASE Template
  <2>1. /\ pc = "template" /\ pc' = "compare" /\ UNCHANGED <<form, case, observations, cases>>
        /\ (template' => ~incomplete \/ template)
    BY <1>0, <1>3 DEF Template
  <2> QED
    BY <2>1 DEF Whole, Rows, InLoops
<1>4. CASE Compare
  BY <1>4 DEF Compare, Whole, Rows
<1>5. CASE AppendCase
  <2>1. pc = "compare" /\ pc' = "case" /\ cases' = cases \cup {NewCase}
    BY <1>5 DEF AppendCase, NextCase, NewCase
  <2>2. Fits(NewCase)
    BY <2>1, NewCaseFields DEF InLoops, AtCase, Whole
  <2>3. \A x \in cases' : Fits(x)
    BY <1>0, <2>1, <2>2
  <2> QED
    BY <2>1, <2>3 DEF Whole
<1>6. CASE PrepareForm \/ PrepareCase \/ CasesExhausted \/ Write \/ PrepareFails
  <2>1. UNCHANGED cases /\ pc \in {"form", "case"} /\ pc' \in {"form", "case", "row", "written", "crashed"}
        /\ (pc' = "row" => row' = row /\ observations' = observations)
    BY <1>6 DEF PrepareForm, PrepareCase, CasesExhausted, Write, PrepareFails, NextForm, NextCase, catalogVars
  <2>2. pc' = "row" => observations' = 1 .. row' - 1
    <3>1. observations = {} /\ row = 1
      BY <2>1 DEF InLoops
    <3>2. 1 .. 1 - 1 = {}
      OBVIOUS
    <3> QED
      BY <2>1, <3>1, <3>2
  <2>3. pc' # "template" /\ pc' # "compare" /\ \A x \in cases' : Fits(x)
    BY <1>0, <2>1
  <2> QED
    BY <2>2, <2>3 DEF Whole
<1>7. CASE Request \/ UNCHANGED vars
  <2>1. UNCHANGED catalogVars /\ (pc' = pc \/ pc' \in Requesting \cup {"form"})
    BY <1>7, RequestFrame DEF vars
  <2> QED
    BY <2>1 DEF catalogVars, Requesting, Whole, Rows
<1> QED
  BY <1>1, <1>2, <1>3, <1>4, <1>5, <1>6, <1>7, Kinds DEF Catalog

\* A model that was handed out is among the retained ones, in a case of the report or
\* in the case at hand.
InReport(k) == k \in retained \/ \E x \in cases : \E i \in x.rows : RowsOf(x)[i] = k
AtHand(k) == pc \in {"row", "template", "compare"} /\ \E i \in observations : Rows[i] = k
\* What has its model in the cache was handed out.
Kept ==
    pc # "crashed" =>
        \A k \in Keys : <<k, "direct">> \in announced => InReport(k) \/ AtHand(k)

\* No failure loses a model.
LEMMA KeptStep == TypeOK /\ InLoops /\ Kept /\ [Next]_vars => Kept'
<1> SUFFICES ASSUME TypeOK, InLoops, Kept, [Next]_vars, NEW k \in Keys,
                    <<k, "direct">> \in announced', pc' # "crashed"
             PROVE  InReport(k)' \/ AtHand(k)'
  BY DEF Kept
<1>0. /\ <<k, "direct">> \in announced => InReport(k) \/ AtHand(k) \/ pc = "crashed"
      /\ InReport(k) /\ retained \subseteq retained' /\ cases \subseteq cases' => InReport(k)'
  BY DEF Kept, InReport
<1>1. CASE AcquireRequested \/ AcquireInput
  <2>1. PICK l \in Keys : Acquire(l)
    BY <1>1, Acquires
  <2>2. /\ retained \subseteq retained' /\ (k = l /\ announced' # announced => k \in retained')
        /\ (<<k, "direct">> \in announced \/ (k = l /\ k \in retained'))
    BY <2>1, AcquireCases
  <2>3. cases' = cases /\ pc \in Requesting
    BY <1>1, RequestFrame DEF Request, catalogVars
  <2> QED
    BY <1>0, <2>2, <2>3 DEF AtHand, InReport, Requesting
<1>2. CASE Generate \/ Judge \/ Generalize
  <2>1. retained' = retained /\ <<k, "direct">> \in announced
    BY <1>2 DEF Generate, Judge, Generalize
  <2>2. cases' = cases /\ pc \in Requesting
    BY <1>2, RequestFrame DEF Request, catalogVars
  <2> QED
    BY <1>0, <2>1, <2>2 DEF AtHand, Requesting
<1>3. CASE AcquireRow
  <2>1. /\ UNCHANGED <<form, case, cases, retained>> /\ pc = "row" /\ pc' = "row"
        /\ observations \subseteq observations'
        /\ \/ <<k, "direct">> \in announced
           \/ k = Rows[row] /\ row \in observations'
    BY <1>3 DEF AcquireRow, ExtractKey, requestVars
  <2>2. Rows' = Rows
    BY <2>1 DEF Rows
  <2> QED
    BY <1>0, <2>1, <2>2 DEF AtHand
<1>4. CASE Catalog /\ ~AcquireRow
  <2>1. <<k, "direct">> \in announced /\ UNCHANGED retained /\ cases \subseteq cases'
    BY <1>4 DEF Catalog, PrepareForm, PrepareCase, CasesExhausted, RowNotEncoded, RowsExhausted,
                Template, Compare, AppendCase, Write, PrepareFails, requestVars, catalogVars
  <2>2. InReport(k) => InReport(k)'
    BY <1>0, <2>1
  <2>3. CASE RowNotEncoded \/ Template \/ Compare
    <3>1. UNCHANGED <<form, case, observations>> /\ pc' \in {"row", "template", "compare", "crashed"}
      BY <2>3 DEF RowNotEncoded, Template, Compare
    <3>2. AtHand(k) => AtHand(k)'
      BY <3>1 DEF AtHand, Rows
    <3> QED
      BY <1>0, <2>1, <2>2, <2>3, <3>2 DEF RowNotEncoded, Template, Compare
  <2>4. CASE RowsExhausted
    <3>1. AtHand(k) => AtHand(k)'
      BY <2>4 DEF RowsExhausted, AtHand, Rows
    <3> QED
      BY <1>0, <2>1, <2>2, <2>4, <3>1 DEF RowsExhausted
  <2>5. CASE AppendCase
    <3>1. cases' = cases \cup {NewCase} /\ pc = "compare"
      BY <2>5 DEF AppendCase, NewCase
    <3>2. AtHand(k) => \E i \in NewCase.rows : RowsOf(NewCase)[i] = k
      BY NewCaseFields DEF AtHand
    <3>3. AtHand(k) => InReport(k)'
      BY <3>1, <3>2 DEF InReport
    <3> QED
      BY <1>0, <2>1, <2>2, <3>1, <3>3
  <2>6. CASE PrepareForm \/ PrepareCase \/ CasesExhausted \/ Write \/ PrepareFails
    <3>1. pc \in {"form", "case"}
      BY <2>6 DEF PrepareForm, PrepareCase, CasesExhausted, Write, PrepareFails
    <3> QED
      BY <1>0, <2>1, <2>2, <3>1 DEF AtHand
  <2> QED
    BY <1>4, <2>3, <2>4, <2>5, <2>6 DEF Catalog
<1>5. CASE UNCHANGED vars
  <2>1. UNCHANGED <<announced, retained, cases, pc, form, case, observations>>
    BY <1>5 DEF vars, requestVars, catalogVars
  <2>2. (AtHand(k) => AtHand(k)') /\ (InReport(k) => InReport(k)')
    BY <1>0, <2>1 DEF AtHand, Rows
  <2> QED
    BY <1>0, <2>1, <2>2
<1> QED
  BY <1>1, <1>2, <1>3, <1>4, <1>5, Kinds DEF Request

--------------------------------------------------------------------------------
(* What the findings account for.                                                 *)

\* A case, and a form, the report has or explains (the parts of GapsAreExplained).
Accounts(x, f, c) ==
    /\ x.form = f /\ x.case = c
    /\ \A i \in DOMAIN RowsOf(x) \ x.rows : RowExplained(f, c, i)
    /\ \A i \in x.rows \ x.comparable : Has("comparison", 0, 0, RowsOf(x)[i])
    /\ ~x.template =>
          \E i \in x.rows : Has("generalization:constructor", f, 0, RowsOf(x)[i])
CaseExplained(f, c) ==
    \/ Has("generation:case", f, c, None)
    \/ \A i \in DOMAIN Requests[f][c] : RowExplained(f, c, i)
    \/ \E x \in cases : Accounts(x, f, c)
FormExplained(f) ==
    \/ Has("generation:constructor", f, 0, None)
    \/ Has("extraction:constructor", f, 0, None)
    \/ \A c \in CasesOf(f) : CaseExplained(f, c)

\* The forms and cases the loops have left, the rows of the case at hand, and the two
\* caches: what is missing has its finding.
Caches ==
    /\ \A k \in Keys : cache[k] = "failed" => \E g \in Forms : Has("extraction:row", g, 0, k)
    /\ \A k \in Keys : comparisons[k] = "no" => Has("comparison", 0, 0, k)
RowsAccounted ==
    /\ pc = "row" => \A i \in (1 .. row - 1) \ observations : RowExplained(form, case, i)
    /\ pc \in {"template", "compare"} =>
          \A i \in DOMAIN Rows \ observations : RowExplained(form, case, i)
    /\ pc = "compare" /\ ~template =>
          \E i \in observations : Has("generalization:constructor", form, 0, Rows[i])
Past ==
    /\ \A f \in Forms : f < form => FormExplained(f)
    /\ pc \in {"case", "row", "template", "compare"} =>
          \A c \in CasesOf(form) : c < case => CaseExplained(form, c)

\* What is explained stays explained.
LEMMA StaysExplained ==
    ASSUME findings \subseteq findings', cases \subseteq cases'
    PROVE  /\ \A n, f, c, k : Has(n, f, c, k) => Has(n, f, c, k)'
           /\ \A f, c, i : RowExplained(f, c, i) => RowExplained(f, c, i)'
           /\ \A f, c : CaseExplained(f, c) => CaseExplained(f, c)'
           /\ \A f : FormExplained(f) => FormExplained(f)'
<1>1. \A n, f, c, k : Has(n, f, c, k) => Has(n, f, c, k)'
  BY DEF Has
<1>2. \A f, c, i : RowExplained(f, c, i) => RowExplained(f, c, i)'
  BY <1>1 DEF RowExplained
<1>3. \A x, f, c : Accounts(x, f, c) => Accounts(x, f, c)'
  BY <1>1, <1>2 DEF Accounts, RowsOf
<1>4. \A f, c : CaseExplained(f, c) => CaseExplained(f, c)'
  BY <1>1, <1>2, <1>3 DEF CaseExplained
<1> QED
  BY <1>1, <1>2, <1>4 DEF FormExplained

\* A finding that was added is there.
LEMMA Added ==
    ASSUME NEW n \in FindingNames, NEW f \in Nat, NEW c \in Nat, NEW k \in Keys \cup {None},
           NEW e \in Errors, findings' = findings \cup {Finding(n, f, c, k, e)}
    PROVE  Has(n, f, c, k)'
BY FindingFields DEF Has

\* Cases are only added.
LEMMA CasesGrow == [Next]_vars => cases \subseteq cases'
<1> SUFFICES ASSUME [Next]_vars PROVE cases \subseteq cases'
  OBVIOUS
<1>1. CASE Request \/ UNCHANGED vars
  BY <1>1, RequestFrame DEF catalogVars, vars
<1>2. CASE Catalog
  BY <1>2 DEF Catalog, PrepareForm, PrepareCase, CasesExhausted, RowNotEncoded, AcquireRow,
              RowsExhausted, Template, Compare, AppendCase, Write, PrepareFails, catalogVars
<1> QED
  BY <1>1, <1>2, Kinds

\* A failure enters a cache together with its finding.
LEMMA CachesStep == TypeOK /\ InLoops /\ Caches /\ [Next]_vars => Caches'
<1> SUFFICES ASSUME TypeOK, InLoops, Caches, [Next]_vars PROVE Caches'
  OBVIOUS
<1>0. \A n, f, c, k : Has(n, f, c, k) => Has(n, f, c, k)'
  BY FindingsGrow, CasesGrow, StaysExplained
<1>a. /\ form \in Nat /\ cache \in [Keys -> {"absent", "model", "failed"}]
      /\ comparisons \in [Keys -> {"absent", "yes", "no"}]
  BY TypeParts DEF PlaceTypes, CacheTypes
<1>1. CASE AcquireRow
  <2>1. form \in Forms /\ Rows[row] \in Keys /\ comparisons' = comparisons
    BY <1>1, RowShape DEF AcquireRow, InLoops, AtForm
  <2>2. CASE cache' = cache
    BY <1>0, <2>1, <2>2 DEF Caches
  <2>3. ASSUME NEW o \in {"model", "failed"}, ExtractKey(Rows[row], o) PROVE Caches'
    <3>1. cache' = [cache EXCEPT ![Rows[row]] = o]
      BY <2>3 DEF ExtractKey
    <3>2. ASSUME o = "failed", NEW k \in Keys, k = Rows[row]
          PROVE  \E g \in Forms : Has("extraction:row", g, 0, k)'
      <4>1. \E g \in Forms, e \in Errors :
                findings' = findings \cup {Finding("extraction:row", g, 0, k, e)}
        BY <2>1, <2>3, <3>2 DEF ExtractKey
      <4>2. \A g \in Forms : g \in Nat
        BY Shape
      <4> QED
        BY <4>1, <4>2, Added DEF FindingNames
    <3>4. ASSUME NEW k \in Keys, cache'[k] = "failed"
          PROVE  \E g \in Forms : Has("extraction:row", g, 0, k)'
      <4>1. CASE k = Rows[row]
        BY <1>a, <2>1, <3>1, <3>2, <3>4, <4>1
      <4>2. CASE k # Rows[row]
        BY <1>0, <1>a, <3>1, <3>4, <4>2 DEF Caches
      <4> QED
        BY <4>1, <4>2
    <3> QED
      BY <1>0, <2>1, <3>4 DEF Caches
  <2> QED
    BY <1>1, <2>2, <2>3 DEF AcquireRow
<1>2. CASE Compare
  <2>1. cache' = cache /\ \A i \in observations : Rows[i] \in Keys
    BY <1>2, RowShape DEF Compare, InLoops
  <2>2. \/ comparisons' = comparisons
        \/ \E i \in observations : comparisons' = [comparisons EXCEPT ![Rows[i]] = "yes"]
        \/ \E i \in observations :
              /\ comparisons' = [comparisons EXCEPT ![Rows[i]] = "no"]
              /\ findings' = findings \cup {Finding("comparison", 0, 0, Rows[i], "limit")}
    BY <1>2 DEF Compare
  <2>3. ASSUME NEW i \in observations,
               findings' = findings \cup {Finding("comparison", 0, 0, Rows[i], "limit")}
        PROVE  \A k : k = Rows[i] => Has("comparison", 0, 0, k)'
    BY <2>1, <2>3, FindingFields DEF FindingNames, Has, Errors
  <2> QED
    BY <1>0, <1>a, <2>1, <2>2, <2>3 DEF Caches
<1>3. CASE Request \/ (Catalog /\ ~AcquireRow /\ ~Compare) \/ UNCHANGED vars
  <2>1. UNCHANGED <<cache, comparisons>>
    BY <1>3, RequestFrame DEF Catalog, PrepareForm, PrepareCase, CasesExhausted, RowNotEncoded,
                              RowsExhausted, Template, AppendCase, Write, PrepareFails, vars, catalogVars
  <2> QED
    BY <1>0, <2>1 DEF Caches
<1> QED
  BY <1>1, <1>2, <1>3, Kinds

\* A row that is passed has its model, its own finding, or that of its key.
LEMMA RowsStep ==
    TypeOK /\ InLoops /\ Caches /\ RowsAccounted /\ [Next]_vars => RowsAccounted'
<1> SUFFICES ASSUME TypeOK, InLoops, Caches, RowsAccounted, [Next]_vars PROVE RowsAccounted'
  OBVIOUS
<1>0. /\ \A n, f, c, k : Has(n, f, c, k) => Has(n, f, c, k)'
      /\ \A f, c, i : RowExplained(f, c, i) => RowExplained(f, c, i)'
  BY FindingsGrow, CasesGrow, StaysExplained
<1>a. form \in Nat /\ case \in Nat /\ row \in Nat /\ observations \subseteq Nat
  BY TypeParts DEF PlaceTypes
<1>1. CASE RowNotEncoded \/ AcquireRow
  <2>1. /\ pc = "row" /\ pc' = "row" /\ row \in DOMAIN Rows /\ row' = row + 1
        /\ UNCHANGED <<form, case>> /\ observations \subseteq observations'
    BY <1>1, RowCases
  <2>2. /\ form \in Forms /\ case \in CasesOf(form) /\ Rows[row] \in Keys
        /\ Rows = Requests[form][case]
    BY <2>1, RowShape DEF InLoops, AtCase, Rows
  <2>3. ASSUME row \notin observations', NEW f, f = form, NEW c, c = case, NEW i, i = row
        PROVE  RowExplained(f, c, i)'
    <3>1. f \in Nat /\ c \in Nat /\ Requests[f][c][i] = Rows[row]
      BY <1>a, <2>2, <2>3
    <3>2. CASE RowNotEncoded
      <4>1. findings' = findings
              \cup {Finding("generation:row", f, c, Requests[f][c][i], "limit")}
        BY <2>3, <3>1, <3>2 DEF RowNotEncoded
      <4>2. Has("generation:row", f, c, Requests[f][c][i])'
        BY <2>2, <3>1, <4>1, Added DEF FindingNames, Errors
      <4> QED
        BY <4>2 DEF RowExplained
    <3>3. CASE AcquireRow
      <4>1. cache'[Rows[row]] = "failed"
        <5>1. cache \in [Keys -> {"absent", "model", "failed"}]
          BY TypeParts DEF CacheTypes
        <5> QED
          BY <2>2, <2>3, <3>3, <5>1 DEF AcquireRow, ExtractKey
      <4>2. \A k \in Keys : cache'[k] = "failed" => \E g \in Forms : Has("extraction:row", g, 0, k)'
        BY CachesStep DEF Caches
      <4>3. \E g \in Forms : Has("extraction:row", g, 0, Requests[f][c][i])'
        BY <2>2, <3>1, <4>1, <4>2
      <4> QED
        BY <4>3 DEF RowExplained
    <3> QED
      BY <1>1, <3>2, <3>3
  <2>4. ASSUME NEW i \in (1 .. row' - 1) \ observations' PROVE RowExplained(form, case, i)'
    <3>1. CASE i = row
      BY <2>1, <2>3, <2>4, <3>1
    <3>2. CASE i # row
      <4>1. i \in (1 .. row - 1) \ observations
        BY <1>a, <2>1, <2>4, <3>2
      <4> QED
        BY <1>0, <2>1, <4>1 DEF RowsAccounted
    <3> QED
      BY <3>1, <3>2
  <2> QED
    BY <2>1, <2>4 DEF RowsAccounted
<1>2. CASE RowsExhausted
  <2>1. CASE pc' = "template" /\ UNCHANGED <<form, case, row, observations>>
    <3>1. DOMAIN Rows = 1 .. row - 1
      BY <1>2, <1>a, RowShape DEF RowsExhausted, InLoops
    <3>2. \A i \in DOMAIN Rows \ observations : RowExplained(form, case, i)'
      BY <1>0, <1>2, <2>1, <3>1 DEF RowsExhausted, RowsAccounted
    <3> QED
      BY <2>1, <3>2 DEF RowsAccounted, Rows
  <2> QED
    BY <1>2, <2>1 DEF RowsExhausted, NextCase, RowsAccounted
<1>3. CASE Template
  <2>1. /\ pc = "template" /\ pc' = "compare" /\ UNCHANGED <<form, case, row, observations>>
        /\ Rows' = Rows
    BY <1>3 DEF Template, Rows
  <2>2. \A i \in DOMAIN Rows \ observations : RowExplained(form, case, i)'
    BY <1>0, <2>1 DEF RowsAccounted
  <2>3. ASSUME ~template'
        PROVE  \E i \in observations : Has("generalization:constructor", form, 0, Rows[i])'
    <3>1. PICK i \in observations, e \in Errors :
              findings' = findings \cup {Finding("generalization:constructor", form, 0, Rows[i], e)}
      BY <1>3, <2>3 DEF Template
    <3>2. Rows[i] \in Keys
      BY <2>1, RowShape DEF InLoops
    <3>3. \A f, k : f = form /\ k = Rows[i] => Has("generalization:constructor", f, 0, k)'
      BY <1>a, <3>1, <3>2, Added DEF FindingNames
    <3> QED
      BY <2>1, <3>3
  <2> QED
    BY <2>1, <2>2, <2>3 DEF RowsAccounted
<1>4. CASE Compare
  <2>1. /\ UNCHANGED <<form, case, observations, template>> /\ Rows' = Rows
        /\ pc = "compare" /\ pc' \in {"compare", "crashed"}
    BY <1>4 DEF Compare, Rows
  <2> QED
    BY <1>0, <2>1 DEF RowsAccounted
<1>5. CASE PrepareForm \/ PrepareCase \/ CasesExhausted \/ AppendCase \/ Write \/ PrepareFails
  <2>1. pc' \in {"form", "case", "written", "crashed"} \/ (pc = "case" /\ pc' = "row" /\ row' = row)
    BY <1>5 DEF PrepareForm, PrepareCase, CasesExhausted, AppendCase, Write, PrepareFails, NextForm, NextCase
  <2>2. pc' = "row" => (1 .. row' - 1) = {}
    BY <2>1 DEF InLoops
  <2> QED
    BY <2>1, <2>2 DEF RowsAccounted
<1>6. CASE Request
  BY <1>6, RequestFrame DEF RowsAccounted, Requesting
<1>7. CASE UNCHANGED vars
  BY <1>0, <1>7 DEF vars, catalogVars, RowsAccounted, Rows
<1> QED
  BY <1>1, <1>2, <1>3, <1>4, <1>5, <1>6, <1>7, Kinds DEF Catalog

\* A case or a form that is left behind is in the report or explained.
LEMMA PastStep ==
    TypeOK /\ InLoops /\ Caches /\ RowsAccounted /\ Past /\ [Next]_vars => Past'
<1> SUFFICES ASSUME TypeOK, InLoops, Caches, RowsAccounted, Past, [Next]_vars PROVE Past'
  OBVIOUS
<1>0. /\ \A n, f, c, k : Has(n, f, c, k) => Has(n, f, c, k)'
      /\ \A f, c, i : RowExplained(f, c, i) => RowExplained(f, c, i)'
      /\ \A f, c : CaseExplained(f, c) => CaseExplained(f, c)'
      /\ \A f : FormExplained(f) => FormExplained(f)'
  BY FindingsGrow, CasesGrow, StaysExplained
<1>a. form \in Nat /\ case \in Nat /\ Forms \subseteq Nat /\ \A f \in Forms : CasesOf(f) \subseteq Nat
  BY TypeParts, Shape DEF PlaceTypes
<1>b. \A f \in Forms : f < form => FormExplained(f)'
  BY <1>0 DEF Past
<1>1. ASSUME UNCHANGED <<form, case>>,
             pc' \in {"case", "row", "template", "compare"} =>
                 pc \in {"case", "row", "template", "compare"} \/ case = 1
      PROVE  Past'
  <2>1. ASSUME NEW f, f = form, NEW c \in CasesOf(f), c < case,
               pc' \in {"case", "row", "template", "compare"}
        PROVE  CaseExplained(f, c)'
    <3>1. f \in Forms
      BY <1>1, <2>1, LoopsStep DEF InLoops, AtForm
    <3>2. case # 1
      BY <2>1, <3>1, Shape
    <3> QED
      BY <1>0, <1>1, <2>1, <3>2 DEF Past
  <2> QED
    BY <1>1, <1>b, <2>1 DEF Past
<1>2. ASSUME NextForm, \A f : f = form => FormExplained(f)' PROVE Past'
  <2>1. form' = form + 1 /\ pc' = "form"
    BY <1>2 DEF NextForm
  <2>2. \A f \in Forms : f < form + 1 => f < form \/ f = form
    BY <1>a
  <2>3. \A f \in Forms : f < form' => FormExplained(f)'
    BY <1>2, <1>b, <2>1, <2>2
  <2> QED
    BY <2>1, <2>3 DEF Past
<1>3. ASSUME NextCase, \A f, c : f = form /\ c = case => CaseExplained(f, c)',
             pc \in {"case", "row", "template", "compare"}
      PROVE  Past'
  <2>1. form' = form /\ case' = case + 1 /\ form \in Forms
    BY <1>3 DEF NextCase, InLoops, AtForm
  <2>2. ASSUME NEW f \in Forms, f = form, NEW c \in CasesOf(f), c < case + 1
        PROVE  CaseExplained(f, c)'
    <3>1. c < case \/ c = case
      BY <1>a, <2>2
    <3> QED
      BY <1>0, <1>3, <2>1, <2>2, <3>1 DEF Past
  <2>3. \A f \in Forms : f < form' => FormExplained(f)'
    BY <1>b, <2>1
  <2>4. \A c \in CasesOf(form') : c < case' => CaseExplained(form, c)'
    BY <2>1, <2>2
  <2> QED
    BY <2>1, <2>3, <2>4 DEF Past
<1>4. CASE Request \/ RowNotEncoded \/ AcquireRow \/ Template \/ Compare \/ Write \/ PrepareFails \/ UNCHANGED vars
  <2>1. UNCHANGED <<form, case>> /\
        (pc' \in {"case", "row", "template", "compare"} => pc \in {"case", "row", "template", "compare"})
    BY <1>4, RequestFrame DEF RowNotEncoded, AcquireRow, Template, Compare, Write, PrepareFails, vars, catalogVars,
                              Requesting
  <2> QED
    BY <1>1, <2>1
<1>5. CASE PrepareForm
  <2>1. CASE pc' = "case" /\ UNCHANGED <<form, case>>
    BY <1>1, <1>5, <2>1 DEF PrepareForm, InLoops
  <2>2. ASSUME NEW n \in {"generation:constructor", "extraction:constructor"}, NEW e \in Errors,
               findings' = findings \cup {Finding(n, form, 0, None, e)}, NextForm
        PROVE  Past'
    <3>1. ASSUME NEW f, f = form PROVE Has(n, f, 0, None)'
      BY <1>a, <2>2, <3>1, Added DEF FindingNames
    <3> QED
      BY <1>2, <2>2, <3>1 DEF FormExplained
  <2> QED
    BY <1>5, <2>1, <2>2 DEF PrepareForm
<1>6. CASE PrepareCase
  <2>1. CASE pc' = "row" /\ UNCHANGED <<form, case>>
    BY <1>1, <1>6, <2>1 DEF PrepareCase
  <2>2. CASE NextCase /\ findings' = findings
                \cup {Finding("generation:case", form, case, None, "limit")}
    <3>1. ASSUME NEW f, f = form, NEW c, c = case PROVE Has("generation:case", f, c, None)'
      BY <1>a, <2>2, <3>1, Added DEF FindingNames, Errors
    <3> QED
      BY <1>3, <1>6, <2>2, <3>1 DEF CaseExplained, PrepareCase
  <2> QED
    BY <1>6, <2>1, <2>2 DEF PrepareCase
<1>7. CASE CasesExhausted
  <2>1. form \in Forms /\ pc = "case" /\ case \notin CasesOf(form) /\ case >= 1 /\ NextForm
    BY <1>7 DEF CasesExhausted, InLoops, AtForm
  <2>2. \A c \in CasesOf(form) : c < case
    BY <1>a, <2>1, Shape
  <2>3. ASSUME NEW f, f = form PROVE FormExplained(f)'
    <3>1. \A c \in CasesOf(f) : CaseExplained(f, c)'
      BY <1>0, <2>1, <2>2, <2>3 DEF Past
    <3> QED
      BY <3>1 DEF FormExplained
  <2> QED
    BY <1>2, <2>1, <2>3
<1>8. CASE RowsExhausted
  <2>1. pc = "row" /\ DOMAIN Rows = 1 .. row - 1
    BY <1>8, RowShape, TypeParts DEF RowsExhausted, InLoops, PlaceTypes
  <2>2. CASE observations = {} /\ NextCase
    <3>1. \A i \in DOMAIN Requests[form][case] : RowExplained(form, case, i)
      BY <2>1, <2>2 DEF RowsAccounted, Rows
    <3>2. CaseExplained(form, case)
      BY <3>1 DEF CaseExplained
    <3> QED
      BY <1>0, <1>3, <2>1, <2>2, <3>2
  <2>3. CASE pc' = "template" /\ UNCHANGED <<form, case>>
    BY <1>1, <2>1, <2>3
  <2> QED
    BY <1>8, <2>2, <2>3 DEF RowsExhausted
<1>9. CASE AppendCase
  <2>1. /\ pc = "compare" /\ NextCase /\ cases' = cases \cup {NewCase}
        /\ \A i \in observations : comparisons[Rows[i]] # "absent"
    BY <1>9 DEF AppendCase, NewCase
  <2>2. \A i \in observations : Rows[i] \in Keys
    BY <2>1, RowShape DEF InLoops
  <2>3. \A i \in NewCase.rows \ NewCase.comparable : Has("comparison", 0, 0, RowsOf(NewCase)[i])
    <3>1. comparisons \in [Keys -> {"absent", "yes", "no"}]
      BY TypeParts DEF CacheTypes
    <3> QED
      BY <2>1, <2>2, <3>1, NewCaseFields DEF Caches
  <2>4. Accounts(NewCase, form, case)
    BY <2>1, <2>3, NewCaseFields DEF Accounts, RowsAccounted
  <2>5. ASSUME NEW x, NEW f, NEW c, Accounts(x, f, c) PROVE Accounts(x, f, c)'
    BY <1>0, <2>5 DEF Accounts, RowsOf
  <2>6. ASSUME NEW f, f = form, NEW c, c = case PROVE CaseExplained(f, c)'
    <3>1. PICK x : x = NewCase
      OBVIOUS
    <3>2. x \in cases' /\ Accounts(x, f, c)'
      BY <2>1, <2>4, <2>5, <2>6, <3>1
    <3> QED
      BY <3>2 DEF CaseExplained
  <2> QED
    BY <1>3, <2>1, <2>6
<1> QED
  BY <1>4, <1>5, <1>6, <1>7, <1>8, <1>9, Kinds DEF Catalog

--------------------------------------------------------------------------------
(* The invariant and the theorems.                                                *)

IInv ==
    /\ TypeOK /\ InLoops
    /\ Attempts /\ RouteMatchesStatus
    /\ Whole /\ Kept
    /\ Caches /\ RowsAccounted /\ Past

\* It holds when the command starts: nothing is attempted, cached or left behind.
LEMMA InitInv == Init => IInv
<1> SUFFICES ASSUME Init PROVE IInv
  OBVIOUS
<1>1. TypeOK /\ InLoops
  BY TypeInit DEF Init, InLoops, AtForm, AtCase
<1>2. Attempts /\ RouteMatchesStatus
  BY KeysAssumption DEF Init, Attempts, Extracted, RouteMatchesStatus, Separated
<1>3. Whole /\ Kept
  BY DEF Init, Whole, Kept
<1>4. Caches /\ RowsAccounted
  BY DEF Init, Caches, RowsAccounted
<1>5. Past
  <2>1. form = 1 /\ pc = "request"
    BY DEF Init
  <2> QED
    BY <2>1, Shape DEF Past
<1> QED
  BY <1>1, <1>2, <1>3, <1>4, <1>5 DEF IInv

\* Every step keeps it.
LEMMA Invariance == IInv /\ [Next]_vars => IInv'
BY TypeStep, LoopsStep, AttemptsStep, RouteStep, WholeStep, KeptStep, CachesStep, RowsStep, PastStep
DEF IInv

\* So it holds throughout.
LEMMA SpecInv == Spec => []IInv
BY InitInv, Invariance, PTL DEF Spec

\* The report, its caches and the loops have the types the model gives them.
THEOREM TypesHold == Spec => []TypeOK
<1>1. IInv => TypeOK
  BY DEF IInv
<1> QED
  BY <1>1, SpecInv, PTL

\* Whatever fails, in whatever order and for whatever catalog, a written report retains
\* every model that was handed out.
THEOREM ModelsSurvive == Spec => []DirectModelsSurvive
<1>1. IInv => DirectModelsSurvive
  BY DEF IInv, Kept, InReport, AtHand, Done, DirectModelsSurvive
<1> QED
  BY <1>1, SpecInv, PTL

\* Nothing is generalised from a part: neither a case nor the request.
THEOREM PartsAreNotGeneralized == Spec => []OnlyCompleteSetsGeneralize
<1>1. IInv => OnlyCompleteSetsGeneralize
  BY DEF IInv, Whole, Attempts, Separated, OnlyCompleteSetsGeneralize
<1> QED
  BY <1>1, SpecInv, PTL

\* What a written report lacks, one of its findings explains, although a failure is
\* reported once and cached for every later case and form.
THEOREM GapsHaveFindings == Spec => []GapsAreExplained
<1>1. IInv => GapsAreExplained
  <2> SUFFICES ASSUME IInv, Done, NEW f \in Forms PROVE FormExplained(f)
    BY DEF GapsAreExplained, FormExplained, CaseExplained, Accounts
  <2>1. form \in Nat /\ form >= 1 /\ form \notin Forms
    BY TypeParts DEF IInv, PlaceTypes, InLoops, Done
  <2>2. f < form
    BY <2>1, Shape
  <2> QED
    BY <2>2 DEF IInv, Past
<1> QED
  BY <1>1, SpecInv, PTL

\* The status, the route and the retained models of a report agree.
THEOREM RouteFits == Spec => []RouteMatchesStatus
<1>1. IInv => RouteMatchesStatus
  BY DEF IInv
<1> QED
  BY <1>1, SpecInv, PTL
================================================================================
