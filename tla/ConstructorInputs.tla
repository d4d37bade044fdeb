-------------------------- MODULE ConstructorInputs --------------------------
(***************************************************************************)
(* What an instruction's arguments range over (extractor/constructor_inputs.py)*)
(* and the separating inputs its model is generalised from                     *)
(* (also extractor/au_inputs.py).                                              *)
(*                                                                         *)
(* A form is a constructor of the encoder: its arguments and the parents of    *)
(* its implicit registers.  An argument is a register, a number, a scale or a  *)
(* control mode, and every value is a number: a register's is its place in the *)
(* encoder's bank.  A register is a view: AL and RAX are views of one parent.  *)
(***************************************************************************)
EXTENDS Integers, Sequences, FiniteSets
Lists == INSTANCE SequencesExt

CONSTANTS Bank,          \* the encoder's registers, in its order: name, parent, class, width, high
          ToolNames,     \* the names both the executor and the emulator know
          Sentinels,     \* RIP, INVALID
          Stack,         \* RSP, ESP
          Encodes(_, _), \* whether a form has an encoding with these values
          Forms          \* records [args, implicit, ...]

Kinds == {"register", "number", "scale", "mode"}

\* A range is not empty (argument_domain makes it of a width and a sign), a list of
\* choices neither. A parent has a name.
ASSUME FormsAssumption ==
    \A form \in Forms :
        /\ "" \notin form.implicit
        /\ IsFiniteSet(DOMAIN form.args) /\ DOMAIN form.args \subseteq Nat
        /\ \A i \in DOMAIN form.args :
              LET arg == form.args[i]
              IN /\ arg.kind \in Kinds /\ arg.choices \subseteq Nat
                 /\ arg.kind = "number" => arg.low \in Int /\ arg.high \in Int /\ arg.low <= arg.high
                 /\ arg.kind \in {"scale", "mode"} => arg.choices # {}

ASSUME BankAssumption == DOMAIN Bank \subseteq Nat

LeastOf(S) == CHOOSE i \in S : \A j \in S : i <= j

\* A finite set of naturals, in ascending order.
Ascending(S) ==
    [k \in 1 .. Cardinality(S) |->
        CHOOSE i \in S : Cardinality({j \in S : j <= i}) = k]

\* The functions that choose one member of each of the sets.
Product(sets) ==
    {f \in [DOMAIN sets -> UNION {sets[i] : i \in DOMAIN sets}] :
        \A i \in DOMAIN sets : f[i] \in sets[i]}

View(value) == Bank[value]
Parent(value) == View(value).parent

\* supported_register_values: no wider than a view of the same parent that
\* both tools name.
Supported(r) ==
    \E i \in DOMAIN Bank :
        Bank[i].parent = r.parent /\ Bank[i].name \in ToolNames /\ r.width <= Bank[i].width

\* register_domains and _register_key
RegisterDomain(arg) ==
    {v \in DOMAIN Bank :
        LET r == View(v)
        IN \/ Supported(r) /\ r.class = arg.class /\ (r.class = "GPR" => r.width = arg.width)
                /\ (arg.role = "index" => r.name \notin Stack)
                /\ (arg.nonzero => r.name # "K0")
           \/ arg.role = "base" /\ r.name \in Sentinels}

\* argument_domain: the choices of a register, a scale or a mode, or a range.
ArgumentDomain(arg) ==
    [kind |-> arg.kind, low |-> arg.low, high |-> arg.high,
     choices |-> IF arg.kind = "register" THEN RegisterDomain(arg) ELSE arg.choices]
Unmapped(form) ==
    \E i \in DOMAIN form.args :
        form.args[i].kind = "register" /\ RegisterDomain(form.args[i]) = {}

\* Domain.strategy: what a value is drawn from.
Members(domain) == IF domain.kind = "number" THEN domain.low .. domain.high ELSE domain.choices

\* Domain.seed. The lists of choices are ascending.
Seed(domain) ==
    IF domain.kind # "number" THEN LeastOf(domain.choices)
    ELSE CASE domain.low > 1 -> domain.low [] domain.high < 1 -> domain.high [] OTHER -> 1

\* The first of Domain.alternatives, if there is one.
Alternatives(domain, value) ==
    {v \in Members(domain) \ {value} :
        domain.kind = "number" => v \in {2, 0, -1, domain.low, domain.high}}
Alternative(domain, value) ==
    LET offered == Alternatives(domain, value)
        order == <<2, 0, -1, domain.low, domain.high>>
    IN IF domain.kind = "number" THEN order[LeastOf({k \in 1 .. 5 : order[k] \in offered})]
       ELSE LeastOf(offered)
-----------------------------------------------------------------------------
(* Structural cases                                                          *)

Numbered == {"GPR", "XMM", "YMM", "ZMM"}

\* Mutant of Category: a high byte is a byte like another.
CategoryIgnoringHalves(value, fixed) ==
    LET r == View(value)
    IN <<IF r.name \in Sentinels \/ r.class \notin Numbered THEN r.name ELSE "",
         r.class, r.width, FALSE, IF r.parent \in fixed THEN r.parent ELSE "">>

\* structural_cases: what tells two choices of one register argument apart.
Category(value, fixed) ==
    LET r == View(value)
    IN <<IF r.name \in Sentinels \/ r.class \notin Numbered THEN r.name ELSE "",
         r.class, r.width, r.high, IF r.parent \in fixed THEN r.parent ELSE "">>

\* The part of an argument's domain that one of its values stands for.
Around(arg, fixed, value) ==
    LET domain == ArgumentDomain(arg)
    IN CASE arg.kind = "register" ->
              [domain EXCEPT !.choices = {v \in @ : Category(v, fixed) = Category(value, fixed)}]
         [] arg.kind = "mode" -> [domain EXCEPT !.choices = {value}]
         [] OTHER -> domain
Narrowed(arg, fixed) ==
    {Around(arg, fixed, value) : value \in Members(ArgumentDomain(arg))}

Slots(domains) == {i \in DOMAIN domains : domains[i].kind = "register"}
ParentsOf(domain) == {Parent(v) : v \in domain.choices}
Common(domains, group) == {p \in UNION {ParentsOf(domains[i]) : i \in group} :
                              \A i \in group : p \in ParentsOf(domains[i])}

\* _partitions: the register arguments grouped by the parent they share.
Partitions(domains) ==
    {P \in SUBSET ((SUBSET Slots(domains)) \ {{}}) :
        /\ UNION P = Slots(domains)
        /\ \A g, h \in P : g = h \/ g \cap h = {}
        /\ \A g \in P : Common(domains, g) # {}}
StructuralCases(form) ==
    IF Unmapped(form) THEN {}
    ELSE UNION {{[domains |-> d, groups |-> P] : P \in Partitions(d)} :
                   d \in Product([i \in DOMAIN form.args |-> Narrowed(form.args[i], form.implicit)])}

\* _parent_values: a parent has one view in a category.
ViewIn(domain, parent) == CHOOSE v \in domain.choices : Parent(v) = parent
Assign(case, values, group, parent) ==
    [i \in DOMAIN values |-> IF i \in group THEN ViewIn(case.domains[i], parent) ELSE values[i]]

\* _common_parents, parent_choices: in the order of the first argument's choices.
Earlier(case, group, p, q) ==
    LET first == case.domains[LeastOf(group)].choices
        place(r) == LeastOf({v \in first : Parent(v) = r})
    IN place(p) < place(q)
ParentChoices(case, group) == Common(case.domains, group)
FirstParent(case, group, S) == CHOOSE p \in S : ~\E q \in S : Earlier(case, group, q, p)

\* ArgumentCase.canonical. Groups with fewer parents come first; each takes the parent
\* behind as many of its parents as groups of its family have been placed.
Family(case, group) ==
    LET parent == FirstParent(case, group, ParentChoices(case, group))
    IN Bank[CHOOSE i \in DOMAIN Bank : Bank[i].name = parent].class
Sooner(case, g, h) ==
    LET n(group) == Cardinality(ParentChoices(case, group))
    IN n(g) < n(h) \/ (n(g) = n(h) /\ LeastOf(g) < LeastOf(h))
Placed(case, group) ==
    {p \in ParentChoices(case, group) :
        Cardinality({q \in ParentChoices(case, group) : Earlier(case, group, q, p)})
          = Cardinality({g \in case.groups : /\ Sooner(case, g, group)
                                             /\ Family(case, g) = Family(case, group)})}
Chosen(case, group) == CHOOSE p \in Placed(case, group) : TRUE
HasCanonical(case) ==
    /\ \A g \in case.groups : Placed(case, g) # {}
    /\ \A g, h \in case.groups : Chosen(case, g) = Chosen(case, h) => g = h
Canonical(case) ==
    [i \in DOMAIN case.domains |->
        IF i \in Slots(case.domains)
        THEN ViewIn(case.domains[i], Chosen(case, CHOOSE g \in case.groups : i \in g))
        ELSE Seed(case.domains[i])]

\* Mutant of Unused: only the group's own parent is taken.
UnusedByItself(case, baseline, group) ==
    ParentChoices(case, group) \ {Parent(baseline[LeastOf(group)])}

\* The parents a group may change to: those no group of the baseline has.
Unused(case, baseline, group) ==
    ParentChoices(case, group) \ {Parent(baseline[LeastOf(g)]) : g \in case.groups}

\* ArgumentCase.separating: the representative and one change per group and number.
Separating(case, baseline) ==
    LET group(i) == CHOOSE g \in case.groups : LeastOf(g) = i
        unused(g) == Unused(case, baseline, g)
        groups == Ascending({LeastOf(g) : g \in {h \in case.groups : unused(h) # {}}})
        numbers == Ascending({i \in DOMAIN baseline \ Slots(case.domains) :
                                 Alternatives(case.domains[i], baseline[i]) # {}})
    IN <<baseline>>
         \o [k \in DOMAIN groups |->
               LET g == group(groups[k])
               IN Assign(case, baseline, g, FirstParent(case, g, unused(g)))]
         \o [k \in DOMAIN numbers |->
               [baseline EXCEPT ![numbers[k]] = Alternative(case.domains[numbers[k]], @)]]

\* ArgumentCase.strategy: the assignments a campaign draws from.
Assignments(domains) == Product([i \in DOMAIN domains |-> Members(domains[i])])
Aliases(case, v) ==
    \A i, j \in Slots(case.domains) :
        (Parent(v[i]) = Parent(v[j])) <=> \E g \in case.groups : {i, j} \subseteq g
CaseAssignments(case) == {v \in Assignments(case.domains) : Aliases(case, v)}
InCase(case, v) ==
    /\ DOMAIN v = DOMAIN case.domains
    /\ \A i \in DOMAIN v : v[i] \in Members(case.domains[i])
    /\ Aliases(case, v)
AllAssignments(form) ==
    Assignments([i \in DOMAIN form.args |-> ArgumentDomain(form.args[i])])
-----------------------------------------------------------------------------
(* Candidates for one requested instruction (au_inputs.py)                   *)

\* parameters: the explicit operands, except modes and the sentinels.
Parameters(form, values) ==
    {i \in DOMAIN values : form.args[i].kind # "mode"
        /\ ~(form.args[i].kind = "register" /\ View(values[i]).name \in Sentinels)}
ParameterOrder(form, values) == Ascending(Parameters(form, values))
RegistersAmong(form, S) == {i \in S : form.args[i].kind = "register"}

\* instruction_inputs.alternative: the first encodable candidate, if any.
Candidates(form, requested, row, i) ==
    LET used == form.implicit
                  \cup {Parent(row[j]) : j \in RegistersAmong(form, Parameters(form, requested))}
                  \cup {Parent(requested[i])}
        original == View(requested[i])
        among == CASE form.args[i].kind = "register" ->
                        {v \in DOMAIN Bank : LET r == View(v) IN
                            r.class = original.class /\ r.width = original.width /\ r.parent \notin used}
                   [] form.args[i].kind = "scale" -> {1, 2, 4, 8}
                   [] OTHER -> 1 .. 32
    IN {c \in among \ {requested[i], row[i]} : Encodes(form, [row EXCEPT ![i] = c])}

\* instruction_inputs and separating_inputs: a baseline away from the request
\* in every parameter, and one further change per parameter.
Rows(form, requested) ==
    LET order == ParameterOrder(form, requested)
        Away(row, i) == IF row = <<>> \/ Candidates(form, requested, row, i) = {} THEN <<>>
                        ELSE [row EXCEPT ![i] = LeastOf(Candidates(form, requested, row, i))]
        baseline == Lists!FoldLeft(Away, requested, order)
        changes == [k \in DOMAIN order |-> Away(baseline, order[k])]
    IN CASE order = <<>> -> <<requested>>
         [] order # <<>> /\ (baseline = <<>> \/ <<>> \in Lists!Range(changes)) -> <<>>
         [] OTHER -> <<baseline>> \o changes
-----------------------------------------------------------------------------
(* Properties                                                                *)

VARIABLES form,       \* the form being acquired
          arguments,  \* its structural case, if the acquisition is of one
          pc          \* "rows" until the rows are chosen

AssignmentsAreDivided ==
    LET cases == StructuralCases(form)
    IN \A v \in AllAssignments(form) :
          \E case \in cases : {c \in cases : InCase(c, v)} = {case}
RowsStayInCase ==
    HasCanonical(arguments) =>
        LET rows == Separating(arguments, Canonical(arguments))
        IN \A k \in DOMAIN rows : InCase(arguments, rows[k])

RowsTellApart ==
    HasCanonical(arguments) =>
        LET rows == Separating(arguments, Canonical(arguments))
            at(i, k) == Parent(rows[k][i])
        IN \A i \in Slots(arguments.domains) :
              /\ \A j \in Slots(arguments.domains) :
                    at(i, 1) = at(j, 1) => \A k \in DOMAIN rows : at(i, k) = at(j, k)
              /\ (\E k \in DOMAIN rows : at(i, k) # at(i, 1)) =>
                    /\ \E k \in DOMAIN rows :
                          \A j \in Slots(arguments.domains) : at(i, k) # at(j, 1)
                    /\ \A k \in DOMAIN rows : at(i, k) \notin form.implicit

\* The column of a register argument, by the variables of the parents.
RegisterColumn(variable, rows, seen, n, i) == [k \in 1 .. n |-> variable[Parent(rows[seen[k]][i])]]

\* A variable that is no parameter: an implicit register, one that an argument has in every
\* row, or none of an argument's, as the memory.
Fixed(p, F, rows, places) ==
    \/ p \in F.implicit
    \/ \E j \in places : \A k \in DOMAIN rows : Parent(rows[k][j]) = p
    \/ \A j \in places : \A k \in DOMAIN rows : Parent(rows[k][j]) # p

\* The observations of a structural case: every row, in the order seen, the first row first
\* (prepare_catalog observes it again at another source). Different parents have different
\* variables, a parameter is a register argument or stands for no variable, and the template
\* writes registers its arguments name and fixed ones.
OfCase(F, rows, places, variable, seen, n, columns, Q) ==
    /\ \A p, q \in DOMAIN variable : variable[p] = variable[q] => p = q
    /\ \A p \in DOMAIN variable : variable[p].con = "atom"
    /\ \A k \in DOMAIN rows : \A i \in places : Parent(rows[k][i]) \in DOMAIN variable
    /\ seen \in [1 .. n -> DOMAIN rows] /\ seen[1] = 1
    /\ \A r \in DOMAIN rows : \E k \in 1 .. n : seen[k] = r
    /\ \A m \in DOMAIN columns :
          \/ \E i \in places : columns[m] = RegisterColumn(variable, rows, seen, n, i)
          \/ \A p \in DOMAIN variable : columns[m][1] # variable[p]
    /\ \A q \in Q : \A e \in q.entries :
          \/ /\ e[1].con = "hole"
             /\ \E i \in places : columns[e[1].atom[2]] = RegisterColumn(variable, rows, seen, n, i)
          \/ \E p \in DOMAIN variable : e[1] = variable[p] /\ Fixed(p, F, rows, places)

\* Every assignment of a constructor's arguments belongs to exactly one of its
\* structural cases: a campaign that draws from all cases reaches every assignment, and
\* each under one template. The rows a case is observed at belong to it as well: a
\* separating change moves no register onto the parent of another and none to another
\* kind of view, so that an alias or a register half is never generalised over.  And
\* they tell the registers apart: what is one register in the first row is one in all,
\* one that changes takes a register no argument has in the first row, and is never one
\* the instruction implies, so that the writes of the rows correspond in one way only.
CasesPartition ==
    pc = "rows" /\ form \in Forms =>
        /\ AssignmentsAreDivided
        /\ arguments \in StructuralCases(form) => RowsStayInCase /\ RowsTellApart
=============================================================================
