----------------------------- MODULE Templates -----------------------------
(***************************************************************************)
(* Generalising an instruction and instantiating the result, on both routes   *)
(* of the program: a prepared case of a constructor, which a campaign          *)
(* instantiates at the values and sources it draws (extractor/prepared_cases.  *)
(* py), and one requested instruction (extractor.py, extract).                 *)
(*                                                                         *)
(* The concrete extraction of an encoding is external here (SymbolicStep       *)
(* models it): Direct gives its model.  The failures of encodings, extractions *)
(* and comparisons between the rows are Acquisition's; here every extraction   *)
(* succeeds and an encoding exists or not.                                     *)
(***************************************************************************)
EXTENDS ConstructorInputs, AntiUnification
LOCAL INSTANCE SequencesExt

CONSTANTS Requests(_),   \* the values a form [id, args, implicit, bytes, length] is requested with
          Source, Elsewhere,  \* the source, and the other one of a prepared case
          Direct(_, _, _)     \* the model of a form's encoding at a source

VARIABLES
    route,          \* "prepared" or "request"
    requested,      \* the values of the requested instruction
    pending,        \* the rows still to be observed, as <<values, source>>
    observations,   \* [row, model], the model normalised
    incomplete,     \* some row had no encoding
    template,       \* the pattern
    asked,          \* the values and the source it is instantiated at
    result
\* The form, the case and pc are declared with their inputs. After the rows pc is
\* "observe", "generalize", "instantiate", "done" or "refused".

vars == <<form, route, arguments, requested, pending, observations, incomplete, template,
          asked, result, pc>>

None == [none |-> TRUE]

Init ==
    /\ form \in Forms
    /\ \/ route = "prepared" /\ arguments \in StructuralCases(form) /\ requested = <<>>
       \/ route = "request" /\ arguments = None /\ requested \in Requests(form)
            /\ Encodes(form, requested)
    /\ pending = <<>> /\ observations = <<>> /\ incomplete = FALSE
    /\ template = None /\ asked = <<>> /\ result = None /\ pc = "rows"
-----------------------------------------------------------------------------
(* Bindings                                                                  *)

Name(field, part, offset) == <<field, part, offset>>
Base(values) == {i \in DOMAIN form.args : form.args[i].field = "BASE0" /\ View(values[i]).name \in Sentinels}
Value(field, values) == values[CHOOSE i \in DOMAIN form.args : form.args[i].field = field]
HasField(field) == \E i \in DOMAIN form.args : form.args[i].field = field

\* An immediate as the operand reads it: the encoded number, sign-extended.
Immediate(arg, value) ==
    LET raw == value % 2 ^ arg.encoded
    IN IF arg.signed /\ raw >= 2 ^ (arg.encoded - 1) THEN raw - 2 ^ arg.encoded ELSE raw

ImmediateOf(values) ==
    LET i == CHOOSE k \in DOMAIN form.args : form.args[k].field = "IMM0"
    IN Immediate(form.args[i], values[i])

\* canonical_bindings: the atoms of the explicit operands.
OperandAtoms(values, source, i) ==
    LET arg == form.args[i]
        target == (source + form.length + values[i]) % 2 ^ Word
    IN CASE arg.kind = "register" ->
              << <<Name(arg.field, "", 0), Variable(Parent(values[i]), Word)>> >>
         [] arg.field = "RELBR" -> << <<Name("RELBR", "address", 0), Address(target)>>,
                                      <<Name("RELBR", "bv", 0), Literal(Word, target)>> >>
         [] arg.field = "IMM0" ->
              << <<Name("IMM0", "", 0), Literal(Word, Immediate(arg, values[i]) % 2 ^ Word)>> >>
         [] OTHER -> << <<Name(arg.field, "", 0), Literal(Word, values[i] % 2 ^ Word)>> >>
CanonicalBindings(values, source) ==
    LET order == ParameterOrder(form, values)
    IN FlattenSeq([k \in DOMAIN order |-> OperandAtoms(values, source, order[k])])

\* bindings: also the source, what follows it, and the bytes and slices that
\* stores may expose.
Numbers(field, number) ==
    << <<Name(field, "bv", 0), Literal(Word, number % 2 ^ Word)>>,
       <<Name(field, "address", 0), Address(number % 2 ^ Word)>> >>
Bytes(field, number) ==
    [k \in 1 .. form.bytes - 1 |->
        <<Name(field, "byte", k), Literal(Word, (number + k) % 2 ^ Word)>>]
Slices(field, number) ==
    [k \in 1 .. Word \div Byte |->
        <<Name(field, "slice", k), Literal(Byte, (number \div 2 ^ ((k - 1) * Byte)) % 2 ^ Byte)>>]
PreparedBindings(values, source) ==
    LET next == source + form.length
        disp == IF HasField("DISP") THEN Value("DISP", values) ELSE 0
    IN  CanonicalBindings(values, source)
        \o Numbers("SOURCE", source) \o Numbers("NEXT", next)
        \o (IF Base(values) = {} THEN <<>>
            ELSE Numbers("MEM_ADDRESS", next + disp) \o Bytes("MEM_ADDRESS", next + disp))
        \o (IF HasField("DISP") THEN Numbers("DISPLACEMENT", disp) \o Bytes("DISPLACEMENT", disp)
            ELSE <<>>)
        \o (IF HasField("IMM0") THEN Slices("IMM0", ImmediateOf(values) % 2 ^ Word) ELSE <<>>)
        \o Slices("NEXT", next % 2 ^ Word)
Bindings(values, source) ==
    LET pairs == IF route = "prepared" THEN PreparedBindings(values, source)
                 ELSE CanonicalBindings(values, source)
    IN [order |-> [k \in DOMAIN pairs |-> pairs[k][1]],
        atom |-> [n \in {p[1] : p \in Range(pairs)} |->
                     pairs[CHOOSE k \in DOMAIN pairs : pairs[k][1] = n][2]]]

\* normalization_labels: a variable is ordered by the first of its roles, a
\* variable without one after those by its name.
Roles == <<"BASE0", "INDEX", "REG0", "REG1">>
Labels(row) ==
    [n \in {d[1] : d \in Range(Declarations)} |->
        LET roles == {i \in DOMAIN Roles : Name(Roles[i], "", 0) \in DOMAIN row.atom
                         /\ row.atom[Name(Roles[i], "", 0)] = Variable(n, Word)}
        IN IF roles # {} THEN LeastOf(roles)
           ELSE Len(Roles) + CHOOSE i \in DOMAIN Declarations : Declarations[i][1] = n]
NormalModel(model, row) ==
    [model EXCEPT !.steps = NormalizeModel(model.steps, Labels(row))]
-----------------------------------------------------------------------------
(* The steps of an acquisition                                               *)

\* prepare_catalog, the requests of a case; extract, instruction_inputs.
ChooseRows ==
    /\ pc = "rows"
    /\ LET rows == IF route = "request" THEN Rows(form, requested)
                   ELSE IF HasCanonical(arguments) /\ Encodes(form, Canonical(arguments))
                        THEN Separating(arguments, Canonical(arguments)) ELSE <<>>
           at == [k \in DOMAIN rows |-> <<rows[k], Source>>]
       IN /\ pending' = IF route = "request" \/ rows = <<>> THEN at
                        ELSE Append(at, <<rows[1], Elsewhere>>)
          /\ pc' = IF rows = <<>> THEN "refused" ELSE "observe"
    /\ UNCHANGED <<form, route, arguments, requested, observations, incomplete, template,
                   asked, result>>

\* One row: encoded, extracted, and normalised under its own labels.
Observe ==
    /\ pc = "observe" /\ pending # <<>>
    /\ pending' = Tail(pending)
    /\ LET values == Head(pending)[1]
           source == Head(pending)[2]
           row == Bindings(values, source)
       IN IF Encodes(form, values)
          THEN /\ observations' = Append(observations,
                    [row |-> row, model |-> NormalModel(Direct(form, values, source), row)])
               /\ UNCHANGED incomplete
          ELSE incomplete' = TRUE /\ UNCHANGED observations
    /\ UNCHANGED <<form, route, arguments, requested, template, asked, result, pc>>
EndObservations ==
    /\ pc = "observe" /\ pending = <<>>
    /\ pc' = IF incomplete THEN "refused" ELSE "generalize"
    /\ UNCHANGED <<form, route, arguments, requested, pending, observations, incomplete,
                   template, asked, result>>

ColumnOf(n) == [k \in DOMAIN observations |-> observations[k].row.atom[n]]
Varies(column) == \E k \in DOMAIN column : column[k] # column[1]

\* generalize: of the columns that vary and are equal the first counts.
\* extract: every column counts.
Columns ==
    LET order == observations[1].row.order
        kept(k) == route = "request" \/
            (Varies(ColumnOf(order[k])) /\ \A j \in 1 .. k - 1 : ColumnOf(order[j]) # ColumnOf(order[k]))
    IN [n \in {order[k] : k \in {j \in DOMAIN order : kept(j)}} |-> ColumnOf(n)]
SameBindings ==
    \A k \in DOMAIN observations : observations[k].row.order = observations[1].row.order
Pattern ==
    Generalized([k \in DOMAIN observations |-> Expose(observations[k].model)], Columns)

\* generalize; extract up to its own instantiation.
Generalize ==
    /\ pc = "generalize"
    /\ IF /\ SameBindings
          /\ route = "request" => \A n \in DOMAIN Columns : Varies(Columns[n])
          /\ HolesOf(Pattern) \subseteq DOMAIN Columns
          /\ \A k \in DOMAIN observations :
                Reconstructs(Pattern, observations[k].row.atom, observations[k].model)
       THEN template' = Pattern /\ pc' = "instantiate"
       ELSE pc' = "refused" /\ UNCHANGED template
    /\ UNCHANGED <<form, route, arguments, requested, pending, observations, incomplete,
                   asked, result>>

\* PreparedCase.instantiate, whose model a campaign executes as the template gives it;
\* the end of extract, which normalises the model of the request.
Instantiated(values, source) ==
    /\ asked' = <<values, source>>
    /\ LET row == Bindings(values, source)
       IN IF Malformed(template, row.atom) THEN pc' = "refused" /\ UNCHANGED result
          ELSE /\ LET model == Reconstruct(Filled(template, row.atom))
                  IN result' = IF route = "request" THEN NormalModel(model, row) ELSE model
               /\ pc' = "done"
    /\ UNCHANGED <<form, route, arguments, requested, pending, observations, incomplete, template>>
InstantiateCase ==
    /\ pc = "instantiate" /\ route = "prepared"
    /\ \E values \in CaseAssignments(arguments), source \in {Source, Elsewhere} :
          Encodes(form, values) /\ Instantiated(values, source)
InstantiateRequest ==
    /\ pc = "instantiate" /\ route = "request"
    /\ Instantiated(requested, Source)

Next == ChooseRows \/ Observe \/ EndObservations \/ Generalize
            \/ InstantiateCase \/ InstantiateRequest

Spec == Init /\ [][Next]_vars
-----------------------------------------------------------------------------
(* Properties                                                               *)

\* The model a campaign executes is compared up to normalisation, which preserves
\* what a model does (NormalizationPreserves); a request's is normal itself.
Agrees ==
    LET row == Bindings(asked[1], asked[2])
        direct == NormalModel(Direct(form, asked[1], asked[2]), row)
    IN  (IF route = "request" THEN result ELSE NormalModel(result, row)) = direct

TemplateIsOfCase ==
    LET patterns == WithParts(template)
        count == Len(observations)
        instances == [i \in 1 .. count |->
                         [p \in patterns |-> Filled(p, ParameterRow(Columns, i))]]
        variable == [name \in {d[1] : d \in Range(Declarations)} |->
                        Variable(name, (CHOOSE d \in Range(Declarations) : d[1] = name)[2])]
    IN /\ Independent(Columns, count)
       /\ \A p \in patterns :
             p.con = "hole" => \E n \in DOMAIN Columns : p = Hole(n, Columns[n][1].sort)
       /\ KeysSeparate(instances, patterns, Columns, count)
       /\ OfCase(form, Separating(arguments, Canonical(arguments)), Slots(arguments.domains),
                 variable, [i \in 1 .. count |-> IF i = count THEN 1 ELSE i], count,
                 Columns, patterns)

\* An accepted template gives, at every assignment and source, the model that
\* extracting that very encoding would give, up to normalisation.  That holds of every
\* instruction whose model has in each place something a parameter determines:
\* register halves, implicit registers and aliases are told apart by the cases,
\* and what no parameter explains is refused.  The template of a case has only the
\* case's parameters for holes, and writes no register but those its arguments name and
\* those fixed in the case; so no other pattern has the same observations.
TemplateInstantiates ==
    /\ pc = "done" => Agrees
    /\ pc = "instantiate" /\ route = "prepared" => TemplateIsOfCase

\* A case that was observed completely is refused only if the rows bind different
\* parameters or differ where no parameter does, and an instruction all of whose
\* differences come from its parameters is never refused: commutative operands are
\* ordered by role, equal columns are one parameter, the writes of the rows correspond,
\* and every pattern without an unexplained hole reconstructs its observations.
RefusalsAreExplained ==
    route = "prepared" /\ pc = "refused" /\ observations # <<>> /\ ~incomplete =>
        /\ ~form.parametric
        /\ SameBindings => ~(HolesOf(Pattern) \subseteq DOMAIN Columns)

\* The model extracted for a request is the request's own, normalised: "assert
\* actual == expected" (n_plus_one_test.py:51).
RequestIsInstantiated == route = "request" /\ pc = "done" => Agrees
=============================================================================
