--------------------- MODULE TemplateProofs ---------------------
(* Proofs, for every bank of registers and every set of forms, that the structural *)
(* cases of a form divide its assignments and that the rows a case is observed at   *)
(* belong to it and tell its registers apart; for every syntax, that a pattern      *)
(* reconstructs its observations; and that a case's rows recover its template.      *)
EXTENDS ConstructorInputs, Patterns, FiniteSetTheorems, FunctionTheorems, SequenceTheorems,
        WellFoundedInduction, TLAPS

--------------------------------------------------------------------------------
(* Orders                                                                          *)

\* A nonempty set of naturals has a least member.
LEMMA LeastIsMember ==
    ASSUME NEW S \in SUBSET Nat, S # {}
    PROVE  LeastOf(S) \in S /\ \A j \in S : LeastOf(S) <= j
<1> DEFINE R == OpToRel(<, Nat)
<1>0. IsWellFoundedOn(R, Nat) /\ S \subseteq Nat
  BY NatLessThanWellFounded
<1> HIDE DEF R
<1>1. PICK x \in S : \A y \in S : ~(<<y, x>> \in R)
  BY <1>0, WFMin
<1>2. \A y \in S : x <= y
  <2>1. TAKE y \in S
  <2>2. y \in Nat /\ x \in Nat
    OBVIOUS
  <2>3. ~(y < x)
    BY <1>1, <2>2 DEF R, OpToRel
  <2> QED BY <2>2, <2>3
<1> QED BY <1>2 DEF LeastOf

\* The members of a set that are at most i.
UpTo(S, i) == {j \in S : j <= i}

\* Of two members of a finite set of naturals the smaller has the lower rank.
LEMMA RanksDiffer ==
    ASSUME NEW S \in SUBSET Nat, IsFiniteSet(S), NEW i \in S, NEW j \in S,
           Cardinality(UpTo(S, i)) = Cardinality(UpTo(S, j)), i <= j
    PROVE  i = j
<1>1. UpTo(S, j) \in SUBSET S /\ IsFiniteSet(UpTo(S, j))
  BY FS_Subset DEF UpTo
<1>2. UpTo(S, i) \in SUBSET UpTo(S, j)
  <2>1. SUFFICES ASSUME NEW k \in UpTo(S, i) PROVE k \in UpTo(S, j)
    OBVIOUS
  <2>2. k \in S /\ k <= i /\ k \in Nat /\ i \in Nat /\ j \in Nat
    BY <2>1 DEF UpTo
  <2> QED BY <2>2 DEF UpTo
<1>3. UpTo(S, i) = UpTo(S, j)
  BY <1>1, <1>2, FS_Subset
<1>4. j \in UpTo(S, j)
  BY DEF UpTo
<1> QED BY <1>3, <1>4 DEF UpTo

\* The ranks of a finite set of naturals are 1 up to its size: Ascending lists members.
LEMMA AscendingMembers ==
    ASSUME NEW S \in SUBSET Nat, IsFiniteSet(S)
    PROVE  /\ Cardinality(S) \in Nat
           /\ DOMAIN Ascending(S) = 1 .. Cardinality(S)
           /\ \A k \in 1 .. Cardinality(S) : Ascending(S)[k] \in S
<1> DEFINE n == Cardinality(S)
           rank == [i \in S |-> Cardinality(UpTo(S, i))]
<1>1. n \in Nat
  BY FS_CardinalityType
<1>2. \A i \in S : rank[i] \in 1 .. n
  <2>1. TAKE i \in S
  <2>2. UpTo(S, i) \in SUBSET S
    BY DEF UpTo
  <2>3. IsFiniteSet(UpTo(S, i)) /\ Cardinality(UpTo(S, i)) <= n
    BY <2>2, FS_Subset
  <2>4. i \in UpTo(S, i)
    BY DEF UpTo
  <2>5. Cardinality(UpTo(S, i)) \in Nat
    BY <2>3, FS_CardinalityType
  <2>6. Cardinality(UpTo(S, i)) # 0
    BY <2>3, <2>4, FS_EmptySet
  <2> QED BY <1>1, <2>3, <2>5, <2>6
<1>3. rank \in [S -> 1 .. n]
  BY <1>2
<1>4. \A i, j \in S : rank[i] = rank[j] => i = j
  <2>1. TAKE i, j \in S
  <2>2. HAVE rank[i] = rank[j]
  <2>3. i \in Nat /\ j \in Nat /\ (i <= j \/ j <= i)
    OBVIOUS
  <2> QED BY <2>2, <2>3, RanksDiffer
<1>5. rank \in Injection(S, 1 .. n)
  BY <1>3, <1>4 DEF Injection, IsInjective
<1>6. IsFiniteSet(1 .. n) /\ Cardinality(1 .. n) = n
  BY <1>1, FS_Interval
<1> HIDE DEF rank
<1>7. rank \in Surjection(S, 1 .. n)
  BY <1>5, <1>6, FS_Injection, Zenon
<1>8. \A k \in 1 .. n : \E i \in S : Cardinality(UpTo(S, i)) = k
  BY <1>7 DEF Surjection, rank
<1>9. Ascending(S) = [k \in 1 .. n |-> CHOOSE i \in S : Cardinality(UpTo(S, i)) = k]
  BY DEF Ascending, UpTo
<1> QED BY <1>1, <1>8, <1>9

--------------------------------------------------------------------------------
(* The assignments of a form                                                       *)

\* The places of a form's register arguments.
RegisterPlaces(F) == {i \in DOMAIN F.args : F.args[i].kind = "register"}

\* What the assumption says of one argument.
LEMMA ArgumentFields ==
    ASSUME NEW F \in Forms, NEW i \in DOMAIN F.args
    PROVE  /\ F.args[i].kind \in Kinds /\ F.args[i].choices \subseteq Nat
           /\ F.args[i].kind = "number" =>
                 F.args[i].low \in Int /\ F.args[i].high \in Int /\ F.args[i].low <= F.args[i].high
           /\ F.args[i].kind \in {"scale", "mode"} => F.args[i].choices # {}
BY FormsAssumption

\* A domain is of its argument's kind and range, and its choices are naturals.
LEMMA DomainFields ==
    ASSUME NEW F \in Forms, NEW i \in DOMAIN F.args
    PROVE  LET domain == ArgumentDomain(F.args[i])
           IN /\ domain.kind = F.args[i].kind /\ domain.low = F.args[i].low
              /\ domain.high = F.args[i].high /\ domain.choices \subseteq Nat
              /\ domain.kind = "register" => domain.choices = RegisterDomain(F.args[i])
              /\ domain.kind # "register" => domain.choices = F.args[i].choices
<1>1. RegisterDomain(F.args[i]) \subseteq Nat
  BY BankAssumption DEF RegisterDomain
<1> QED BY <1>1, ArgumentFields DEF ArgumentDomain

\* The part around a value keeps the domain's kind and range.
LEMMA AroundKeeps ==
    ASSUME NEW F \in Forms, NEW i \in DOMAIN F.args, NEW w
    PROVE  /\ Around(F.args[i], F.implicit, w).kind = F.args[i].kind
           /\ Around(F.args[i], F.implicit, w).low = F.args[i].low
           /\ Around(F.args[i], F.implicit, w).high = F.args[i].high
BY DomainFields DEF Around, ArgumentDomain
\* Of a register's domain it keeps the values of one category,
LEMMA AroundRegister ==
    ASSUME NEW F \in Forms, NEW i \in DOMAIN F.args, NEW w, F.args[i].kind = "register"
    PROVE  Around(F.args[i], F.implicit, w).choices =
              {u \in ArgumentDomain(F.args[i]).choices :
                  Category(u, F.implicit) = Category(w, F.implicit)}
BY DEF Around, ArgumentDomain
\* of a mode's the value alone,
LEMMA AroundMode ==
    ASSUME NEW F \in Forms, NEW i \in DOMAIN F.args, NEW w, F.args[i].kind = "mode"
    PROVE  Around(F.args[i], F.implicit, w).choices = {w}
BY DEF Around, ArgumentDomain
\* and of any other all.
LEMMA AroundOther ==
    ASSUME NEW F \in Forms, NEW i \in DOMAIN F.args, NEW w, F.args[i].kind \in {"number", "scale"}
    PROVE  Around(F.args[i], F.implicit, w) = ArgumentDomain(F.args[i])
BY DEF Around

\* A value lies in the part of the domain around it.
LEMMA ValueIsAround ==
    ASSUME NEW F \in Forms, NEW i \in DOMAIN F.args, NEW w \in Members(ArgumentDomain(F.args[i]))
    PROVE  w \in Members(Around(F.args[i], F.implicit, w))
<1> DEFINE arg == F.args[i]
           domain == ArgumentDomain(arg)
           around == Around(arg, F.implicit, w)
<1>a. arg.kind \in Kinds
  BY ArgumentFields
<1>b. domain.kind = arg.kind
  BY DomainFields
<1>c. around.kind = arg.kind
  BY AroundKeeps
<1>1. arg.kind \in Kinds /\ domain.kind = arg.kind /\ around.kind = arg.kind
  BY <1>a, <1>b, <1>c
<1>2. CASE arg.kind = "register"
  <2>1. w \in domain.choices
    BY <1>1, <1>2 DEF Members
  <2>2. around.choices = {u \in domain.choices : Category(u, F.implicit) = Category(w, F.implicit)}
    BY <1>2, AroundRegister
  <2> QED BY <1>1, <1>2, <2>1, <2>2 DEF Members
<1>3. CASE arg.kind = "mode"
  BY <1>1, <1>3, AroundMode DEF Members
<1>4. CASE arg.kind \in {"number", "scale"}
  BY <1>4, AroundOther
<1> QED BY <1>1, <1>2, <1>3, <1>4 DEF Kinds

\* The parts do not overlap: the one a value lies in is the one around it.
LEMMA PartsAreDisjoint ==
    ASSUME NEW F \in Forms, NEW i \in DOMAIN F.args, NEW w,
           NEW u \in Members(Around(F.args[i], F.implicit, w))
    PROVE  Around(F.args[i], F.implicit, w) = Around(F.args[i], F.implicit, u)
<1> DEFINE arg == F.args[i]
           domain == ArgumentDomain(arg)
           around == Around(arg, F.implicit, w)
<1>a. arg.kind \in Kinds
  BY ArgumentFields
<1>b. around.kind = arg.kind
  BY AroundKeeps
<1>1. arg.kind \in Kinds /\ around.kind = arg.kind
  BY <1>a, <1>b
<1>2. CASE arg.kind = "register"
  <2>1. u \in around.choices
    BY <1>1, <1>2 DEF Members
  <2>2. Category(u, F.implicit) = Category(w, F.implicit)
    BY <1>2, <2>1, AroundRegister
  <2> QED BY <1>2, <2>2 DEF Around
<1>3. CASE arg.kind = "mode"
  <2>1. around.choices = {w}
    BY <1>3, AroundMode
  <2>2. u = w
    BY <1>1, <1>3, <2>1 DEF Members
  <2> QED BY <2>2
<1>4. CASE arg.kind \in {"number", "scale"}
  BY <1>4, AroundOther
<1> QED BY <1>1, <1>2, <1>3, <1>4 DEF Kinds

--------------------------------------------------------------------------------
(* The structural cases                                                            *)

\* What a structural case of a form is made of: its domains are parts of the arguments'
\* domains, and its groups divide the register arguments into groups with a common parent.
IsCase(F, c) ==
    /\ DOMAIN c.domains = DOMAIN F.args
    /\ \A i \in DOMAIN F.args :
          \E w \in Members(ArgumentDomain(F.args[i])) :
              c.domains[i] = Around(F.args[i], F.implicit, w)
    /\ c.groups \subseteq SUBSET RegisterPlaces(F)
    /\ UNION c.groups = RegisterPlaces(F)
    /\ \A g \in c.groups : g # {} /\ Common(c.domains, g) # {}
    /\ \A g, h \in c.groups : g = h \/ g \cap h = {}

\* The places of a case's registers are those of its form.
LEMMA SlotsOfParts ==
    ASSUME NEW F \in Forms, NEW d, DOMAIN d = DOMAIN F.args,
           \A i \in DOMAIN F.args : \E w : d[i] = Around(F.args[i], F.implicit, w)
    PROVE  Slots(d) = RegisterPlaces(F)
<1>1. \A i \in DOMAIN F.args : d[i].kind = F.args[i].kind
  BY AroundKeeps
<1> QED BY <1>1 DEF Slots, RegisterPlaces

\* The partitions are the sets of groups that IsCase describes.
LEMMA PartitionFields ==
    ASSUME NEW d, NEW P
    PROVE  P \in Partitions(d) <=>
              /\ P \subseteq SUBSET Slots(d) /\ UNION P = Slots(d)
              /\ \A g \in P : g # {} /\ Common(d, g) # {}
              /\ \A g, h \in P : g = h \/ g \cap h = {}
<1>1. P \in SUBSET ((SUBSET Slots(d)) \ {{}}) <=>
          P \subseteq SUBSET Slots(d) /\ \A g \in P : g # {}
  <2>1. ASSUME P \in SUBSET ((SUBSET Slots(d)) \ {{}})
        PROVE  P \subseteq SUBSET Slots(d) /\ \A g \in P : g # {}
    BY <2>1
  <2>2. ASSUME P \subseteq SUBSET Slots(d), \A g \in P : g # {}
        PROVE  P \in SUBSET ((SUBSET Slots(d)) \ {{}})
    <3>1. \A g \in P : g \in (SUBSET Slots(d)) \ {{}}
      BY <2>2
    <3> QED BY <3>1, Zenon
  <2> QED BY <2>1, <2>2, Zenon
<1>2. P \in Partitions(d) <=>
          /\ P \in SUBSET ((SUBSET Slots(d)) \ {{}})
          /\ UNION P = Slots(d)
          /\ \A g, h \in P : g = h \/ g \cap h = {}
          /\ \A g \in P : Common(d, g) # {}
  BY Zenon DEF Partitions
<1> QED BY <1>1, <1>2, Zenon

\* The structural cases are such cases.
LEMMA CasesAreCases ==
    ASSUME NEW F \in Forms, NEW c \in StructuralCases(F)
    PROVE  /\ IsCase(F, c) /\ c = [domains |-> c.domains, groups |-> c.groups]
           /\ Slots(c.domains) = RegisterPlaces(F)
           /\ c.domains = [i \in DOMAIN F.args |-> c.domains[i]]
<1> DEFINE parts == [i \in DOMAIN F.args |-> Narrowed(F.args[i], F.implicit)]
<1>1. ~Unmapped(F) /\ c \in UNION {{[domains |-> d, groups |-> P] : P \in Partitions(d)} :
                                      d \in Product(parts)}
  BY DEF StructuralCases
<1>2. PICK d \in Product(parts) : c \in {[domains |-> d, groups |-> P] : P \in Partitions(d)}
  BY <1>1
<1>3. PICK P \in Partitions(d) : c = [domains |-> d, groups |-> P]
  BY <1>2
<1>4. DOMAIN d = DOMAIN F.args /\ d = [i \in DOMAIN F.args |-> d[i]]
        /\ \A i \in DOMAIN F.args : d[i] \in Narrowed(F.args[i], F.implicit)
  BY DEF Product
<1>5. \A i \in DOMAIN F.args :
          \E w \in Members(ArgumentDomain(F.args[i])) : d[i] = Around(F.args[i], F.implicit, w)
  BY <1>4 DEF Narrowed
<1>6. Slots(d) = RegisterPlaces(F)
  BY <1>4, <1>5, SlotsOfParts
<1>7. /\ P \subseteq SUBSET Slots(d) /\ UNION P = Slots(d)
      /\ \A g \in P : g # {} /\ Common(d, g) # {}
      /\ \A g, h \in P : g = h \/ g \cap h = {}
  BY PartitionFields, Zenon
<1>8. c.domains = d /\ c.groups = P
  BY <1>3
<1> HIDE DEF parts
<1>9. IsCase(F, c)
  BY <1>4, <1>5, <1>6, <1>7, <1>8 DEF IsCase
<1> QED BY <1>3, <1>4, <1>6, <1>8, <1>9

\* And every such case of a form with no unmapped argument is a structural case.
LEMMA CasesAreStructural ==
    ASSUME NEW F \in Forms, ~Unmapped(F), NEW c, IsCase(F, c),
           c = [domains |-> c.domains, groups |-> c.groups],
           c.domains = [i \in DOMAIN F.args |-> c.domains[i]]
    PROVE  c \in StructuralCases(F)
<1> DEFINE parts == [i \in DOMAIN F.args |-> Narrowed(F.args[i], F.implicit)]
           d == c.domains
           P == c.groups
<1>1. Slots(d) = RegisterPlaces(F)
  BY SlotsOfParts DEF IsCase
<1> HIDE DEF P, d
<1>2. P \in Partitions(d)
  <2>1. /\ P \subseteq SUBSET Slots(d) /\ UNION P = Slots(d)
        /\ \A g \in P : g # {} /\ Common(d, g) # {}
        /\ \A g, h \in P : g = h \/ g \cap h = {}
    BY <1>1, Zenon DEF IsCase, P, d
  <2> QED BY <2>1, PartitionFields, Zenon
<1>3. \A i \in DOMAIN F.args : d[i] \in Narrowed(F.args[i], F.implicit)
  BY DEF IsCase, Narrowed, d
<1>4. DOMAIN parts = DOMAIN F.args /\ d = [i \in DOMAIN F.args |-> d[i]]
        /\ \A i \in DOMAIN F.args : d[i] \in parts[i]
  BY <1>3, Zenon DEF d
<1> HIDE DEF parts
<1>5. d \in [DOMAIN parts -> UNION {parts[i] : i \in DOMAIN parts}]
  BY <1>4
<1>6. d \in Product(parts)
  BY <1>4, <1>5 DEF Product
<1>7. c = [domains |-> d, groups |-> P]
  BY Zenon DEF d, P
<1> QED BY <1>2, <1>6, <1>7 DEF StructuralCases, parts

--------------------------------------------------------------------------------
(* Each assignment has one case                                                    *)

\* What an assignment of a form's arguments is.
LEMMA AssignmentFields ==
    ASSUME NEW F \in Forms, NEW v \in AllAssignments(F)
    PROVE  /\ DOMAIN v = DOMAIN F.args /\ ~Unmapped(F)
           /\ \A i \in DOMAIN F.args : v[i] \in Members(ArgumentDomain(F.args[i]))
<1> DEFINE domains == [i \in DOMAIN F.args |-> ArgumentDomain(F.args[i])]
           sets == [i \in DOMAIN domains |-> Members(domains[i])]
<1>1. v \in Product(sets)
  BY DEF AllAssignments, Assignments
<1>2. /\ v \in [DOMAIN sets -> UNION {sets[i] : i \in DOMAIN sets}]
      /\ \A i \in DOMAIN sets : v[i] \in sets[i]
  BY <1>1 DEF Product
<1>3. DOMAIN v = DOMAIN F.args
  BY <1>2
<1>4. \A i \in DOMAIN F.args : v[i] \in Members(ArgumentDomain(F.args[i]))
  BY <1>2
<1> HIDE DEF domains, sets
<1>5. ASSUME NEW i \in DOMAIN F.args, F.args[i].kind = "register"
      PROVE  RegisterDomain(F.args[i]) # {}
  <2>1. ArgumentDomain(F.args[i]).kind = "register"
        /\ ArgumentDomain(F.args[i]).choices = RegisterDomain(F.args[i])
    BY <1>5, DomainFields
  <2> QED BY <1>4, <2>1 DEF Members
<1> QED BY <1>3, <1>4, <1>5 DEF Unmapped

\* The register places whose parent is that of place i.
Sharing(F, v, i) == {j \in RegisterPlaces(F) : Parent(v[j]) = Parent(v[i])}

\* The case of an assignment: the parts around its values, its registers grouped by parent.
CaseOf(F, v) ==
    [domains |-> [i \in DOMAIN F.args |-> Around(F.args[i], F.implicit, v[i])],
     groups |-> {Sharing(F, v, i) : i \in RegisterPlaces(F)}]

\* A register value of an assignment is among the choices of a part it lies in.
LEMMA RegisterValue ==
    ASSUME NEW F \in Forms, NEW i \in RegisterPlaces(F), NEW w,
           NEW u \in Members(Around(F.args[i], F.implicit, w))
    PROVE  u \in Around(F.args[i], F.implicit, w).choices
<1>1. i \in DOMAIN F.args /\ F.args[i].kind = "register"
  BY DEF RegisterPlaces
<1>2. Around(F.args[i], F.implicit, w).kind = "register"
  BY <1>1, AroundKeeps
<1> QED BY <1>2 DEF Members

\* The case of an assignment is a structural case, and the assignment belongs to it.
LEMMA CaseOfAssignment ==
    ASSUME NEW F \in Forms, NEW v \in AllAssignments(F)
    PROVE  CaseOf(F, v) \in StructuralCases(F) /\ InCase(CaseOf(F, v), v)
<1> DEFINE c == CaseOf(F, v)
           d == [i \in DOMAIN F.args |-> Around(F.args[i], F.implicit, v[i])]
           P == {Sharing(F, v, i) : i \in RegisterPlaces(F)}
<1>1. c = [domains |-> d, groups |-> P] /\ c.domains = d /\ c.groups = P
  BY DEF CaseOf
<1>2. /\ DOMAIN v = DOMAIN F.args /\ ~Unmapped(F)
      /\ \A i \in DOMAIN F.args : v[i] \in Members(ArgumentDomain(F.args[i]))
  BY AssignmentFields
<1>3. \A i \in DOMAIN F.args : v[i] \in Members(d[i])
  BY <1>2, ValueIsAround
<1>4. Slots(d) = RegisterPlaces(F)
  BY SlotsOfParts
<1>5. ASSUME NEW g \in P
      PROVE  g # {} /\ g \subseteq RegisterPlaces(F) /\ Common(d, g) # {}
  <2>1. PICK i \in RegisterPlaces(F) : g = Sharing(F, v, i)
    OBVIOUS
  <2>2. i \in g /\ g \subseteq RegisterPlaces(F)
    BY <2>1 DEF Sharing
  <2>3. \A j \in g : Parent(v[i]) \in ParentsOf(d[j])
    <3>1. TAKE j \in g
    <3>2. j \in RegisterPlaces(F) /\ Parent(v[j]) = Parent(v[i])
      BY <2>1 DEF Sharing
    <3>3. j \in DOMAIN F.args
      BY <3>2 DEF RegisterPlaces
    <3>4. v[j] \in Members(Around(F.args[j], F.implicit, v[j]))
      BY <1>3, <3>3
    <3>5. v[j] \in Around(F.args[j], F.implicit, v[j]).choices
      BY <3>2, <3>4, RegisterValue
    <3>6. v[j] \in d[j].choices
      BY <3>3, <3>5
    <3> QED BY <3>2, <3>6 DEF ParentsOf
  <2>4. Parent(v[i]) \in Common(d, g)
    BY <2>2, <2>3 DEF Common
  <2> QED BY <2>2, <2>4
<1>6. UNION P = RegisterPlaces(F)
  <2>1. \A i \in RegisterPlaces(F) : i \in Sharing(F, v, i)
    BY DEF Sharing
  <2> QED BY <1>5, <2>1
<1>7. \A g, h \in P : g = h \/ g \cap h = {}
  BY DEF Sharing
<1>8. \A i, j \in RegisterPlaces(F) :
          (Parent(v[i]) = Parent(v[j])) <=> \E g \in P : {i, j} \subseteq g
  <2>1. TAKE i, j \in RegisterPlaces(F)
  <2>2. ASSUME Parent(v[i]) = Parent(v[j])
        PROVE  \E g \in P : {i, j} \subseteq g
    <3>1. {i, j} \subseteq Sharing(F, v, i)
      BY <2>2 DEF Sharing
    <3> QED BY <3>1
  <2>3. ASSUME NEW g \in P, {i, j} \subseteq g
        PROVE  Parent(v[i]) = Parent(v[j])
    BY <2>3 DEF Sharing
  <2> QED BY <2>2, <2>3
<1> HIDE DEF d, P, c
<1>9. DOMAIN d = DOMAIN F.args
  BY DEF d
<1>10. IsCase(F, c)
  <2>1. \A i \in DOMAIN F.args : \E w \in Members(ArgumentDomain(F.args[i])) :
            d[i] = Around(F.args[i], F.implicit, w)
    BY <1>2 DEF d
  <2>2. P \subseteq SUBSET RegisterPlaces(F) /\ \A g \in P : g # {} /\ Common(d, g) # {}
    BY <1>5
  <2> QED BY <1>1, <1>6, <1>7, <1>9, <2>1, <2>2 DEF IsCase
<1>11. c.domains = [i \in DOMAIN F.args |-> c.domains[i]]
  BY <1>1 DEF d
<1>12. c \in StructuralCases(F)
  BY <1>1, <1>2, <1>10, <1>11, CasesAreStructural
<1>13. InCase(c, v)
  BY <1>1, <1>2, <1>3, <1>4, <1>8, <1>9 DEF InCase, Aliases
<1> QED BY <1>12, <1>13 DEF c

\* A structural case that an assignment belongs to is the case of the assignment.
LEMMA CaseIsUnique ==
    ASSUME NEW F \in Forms, NEW v \in AllAssignments(F), NEW c \in StructuralCases(F), InCase(c, v)
    PROVE  c = CaseOf(F, v)
<1>1. /\ IsCase(F, c) /\ c = [domains |-> c.domains, groups |-> c.groups]
      /\ Slots(c.domains) = RegisterPlaces(F)
      /\ c.domains = [i \in DOMAIN F.args |-> c.domains[i]]
  BY CasesAreCases
<1>2. \A i \in DOMAIN F.args : v[i] \in Members(c.domains[i])
  BY <1>1 DEF InCase, IsCase
<1>3. \A i \in DOMAIN F.args : c.domains[i] = Around(F.args[i], F.implicit, v[i])
  <2>1. TAKE i \in DOMAIN F.args
  <2>2. PICK w : c.domains[i] = Around(F.args[i], F.implicit, w)
    BY <1>1 DEF IsCase
  <2> QED BY <1>2, <2>2, PartsAreDisjoint
<1>4. c.domains = [i \in DOMAIN F.args |-> Around(F.args[i], F.implicit, v[i])]
  BY <1>1, <1>3
<1>5. \A i, j \in RegisterPlaces(F) :
          (Parent(v[i]) = Parent(v[j])) <=> \E g \in c.groups : {i, j} \subseteq g
  BY <1>1 DEF InCase, Aliases
<1>6. ASSUME NEW g \in c.groups, NEW i \in g PROVE g = Sharing(F, v, i)
  <2>1. g \subseteq RegisterPlaces(F) /\ \A h \in c.groups : g = h \/ g \cap h = {}
    BY <1>1 DEF IsCase
  <2>2. \A j \in RegisterPlaces(F) : j \in g <=> Parent(v[j]) = Parent(v[i])
    BY <1>5, <2>1
  <2> QED BY <2>1, <2>2 DEF Sharing
<1>7. c.groups = {Sharing(F, v, i) : i \in RegisterPlaces(F)}
  <2>1. ASSUME NEW g \in c.groups PROVE \E i \in RegisterPlaces(F) : g = Sharing(F, v, i)
    BY <1>1, <1>6 DEF IsCase
  <2>2. ASSUME NEW i \in RegisterPlaces(F) PROVE Sharing(F, v, i) \in c.groups
    <3>1. PICK g \in c.groups : i \in g
      BY <1>1 DEF IsCase
    <3> QED BY <1>6, <3>1
  <2> QED BY <2>1, <2>2
<1> QED BY <1>1, <1>4, <1>7 DEF CaseOf

\* Every assignment of a form's arguments belongs to exactly one of its structural cases
\* (structural_cases).
THEOREM AssignmentsHaveOneCase ==
    form \in Forms => AssignmentsAreDivided
<1> SUFFICES ASSUME form \in Forms, NEW v \in AllAssignments(form)
             PROVE  \E c \in StructuralCases(form) :
                        {k \in StructuralCases(form) : InCase(k, v)} = {c}
  BY DEF AssignmentsAreDivided
<1>1. CaseOf(form, v) \in StructuralCases(form) /\ InCase(CaseOf(form, v), v)
  BY CaseOfAssignment
<1>2. \A k \in StructuralCases(form) : InCase(k, v) => k = CaseOf(form, v)
  BY CaseIsUnique
<1> QED BY <1>1, <1>2

--------------------------------------------------------------------------------
(* The rows of a case                                                              *)

\* A group is a nonempty set of register places, and each register is in one group.
LEMMA GroupFields ==
    ASSUME NEW F \in Forms, NEW c \in StructuralCases(F)
    PROVE  /\ DOMAIN c.domains = DOMAIN F.args /\ Slots(c.domains) = RegisterPlaces(F)
           /\ RegisterPlaces(F) \subseteq DOMAIN F.args /\ DOMAIN F.args \subseteq Nat
           /\ \A i \in RegisterPlaces(F) : \E g \in c.groups : i \in g
           /\ \A g \in c.groups : /\ g \subseteq RegisterPlaces(F)
                                  /\ LeastOf(g) \in g
           /\ \A g, h \in c.groups : \A i \in g : i \in h => g = h
<1>1. IsCase(F, c) /\ Slots(c.domains) = RegisterPlaces(F)
  BY CasesAreCases
<1>2. RegisterPlaces(F) \subseteq DOMAIN F.args /\ DOMAIN F.args \subseteq Nat
  BY FormsAssumption DEF RegisterPlaces
<1>3. ASSUME NEW g \in c.groups PROVE g \subseteq RegisterPlaces(F) /\ LeastOf(g) \in g
  <2>1. g \subseteq RegisterPlaces(F) /\ g # {}
    BY <1>1 DEF IsCase
  <2>2. g \in SUBSET Nat
    BY <1>2, <2>1
  <2> QED BY <2>1, <2>2, LeastIsMember
<1>4. \A g, h \in c.groups : \A i \in g : i \in h => g = h
  BY <1>1 DEF IsCase
<1>5. \A i \in RegisterPlaces(F) : \E g \in c.groups : i \in g
  BY <1>1 DEF IsCase
<1> QED BY <1>1, <1>2, <1>3, <1>4, <1>5 DEF IsCase

\* A part has its argument's kind; a register has its choices as members.
LEMMA PartFields ==
    ASSUME NEW F \in Forms, NEW c \in StructuralCases(F), NEW i \in DOMAIN F.args
    PROVE  /\ c.domains[i].kind = F.args[i].kind
           /\ c.domains[i].low = F.args[i].low /\ c.domains[i].high = F.args[i].high
           /\ c.domains[i].choices \subseteq Nat
           /\ c.domains[i].kind \in {"scale", "mode"} => c.domains[i].choices # {}
<1> DEFINE Choices == /\ c.domains[i].choices \subseteq Nat
                      /\ F.args[i].kind \in {"scale", "mode"} => c.domains[i].choices # {}
<1>0. IsCase(F, c)
  BY CasesAreCases
<1>1. PICK w \in Members(ArgumentDomain(F.args[i])) :
          c.domains[i] = Around(F.args[i], F.implicit, w)
  BY <1>0 DEF IsCase
<1>2. /\ c.domains[i].kind = F.args[i].kind
      /\ c.domains[i].low = F.args[i].low /\ c.domains[i].high = F.args[i].high
  BY <1>1, AroundKeeps
<1>3. /\ ArgumentDomain(F.args[i]).kind = F.args[i].kind
      /\ ArgumentDomain(F.args[i]).choices \subseteq Nat
      /\ F.args[i].kind # "register" => ArgumentDomain(F.args[i]).choices = F.args[i].choices
  BY DomainFields
<1>4. /\ F.args[i].kind \in Kinds
      /\ F.args[i].kind \in {"scale", "mode"} => F.args[i].choices # {}
  BY ArgumentFields
<1>5. ASSUME F.args[i].kind = "register" PROVE Choices
  <2>1. Around(F.args[i], F.implicit, w).choices \subseteq ArgumentDomain(F.args[i]).choices
    <3>1. Around(F.args[i], F.implicit, w).choices =
              {u \in ArgumentDomain(F.args[i]).choices :
                  Category(u, F.implicit) = Category(w, F.implicit)}
      BY <1>5, AroundRegister
    <3> QED BY <3>1
  <2> QED BY <1>1, <1>3, <1>5, <2>1
<1>6. ASSUME F.args[i].kind = "mode" PROVE Choices
  <2>1. w \in ArgumentDomain(F.args[i]).choices
    BY <1>1, <1>3, <1>6 DEF Members
  <2>2. Around(F.args[i], F.implicit, w).choices = {w}
    BY <1>6, AroundMode
  <2> QED BY <1>1, <1>3, <2>1, <2>2
<1>7. ASSUME F.args[i].kind \in {"number", "scale"} PROVE Choices
  <2>1. Around(F.args[i], F.implicit, w) = ArgumentDomain(F.args[i])
    BY <1>7, AroundOther
  <2> QED BY <1>1, <1>3, <1>4, <1>7, <2>1
<1> QED BY <1>2, <1>4, <1>5, <1>6, <1>7 DEF Kinds

\* What a group's registers have in common each of them can be: its view is a choice.
LEMMA ViewIsChoice ==
    ASSUME NEW F \in Forms, NEW c \in StructuralCases(F), NEW g \in c.groups, NEW i \in g,
           NEW q \in ParentChoices(c, g)
    PROVE  /\ ViewIn(c.domains[i], q) \in Members(c.domains[i])
           /\ Parent(ViewIn(c.domains[i], q)) = q
<1>1. q \in ParentsOf(c.domains[i])
  BY DEF ParentChoices, Common
<1>2. \E v \in c.domains[i].choices : Parent(v) = q
  BY <1>1 DEF ParentsOf
<1>3. ViewIn(c.domains[i], q) \in c.domains[i].choices /\ Parent(ViewIn(c.domains[i], q)) = q
  BY <1>2 DEF ViewIn
<1>4. i \in RegisterPlaces(F) /\ i \in DOMAIN F.args
  BY GroupFields
<1>5. c.domains[i].kind = "register"
  BY <1>4, PartFields DEF RegisterPlaces
<1> QED BY <1>3, <1>5 DEF Members

\* A seed is a member of its domain.
LEMMA SeedIsMember ==
    ASSUME NEW F \in Forms, NEW c \in StructuralCases(F), NEW i \in DOMAIN F.args,
           F.args[i].kind # "register"
    PROVE  Seed(c.domains[i]) \in Members(c.domains[i])
<1> DEFINE d == c.domains[i]
<1>1. /\ d.kind = F.args[i].kind /\ d.low = F.args[i].low /\ d.high = F.args[i].high
      /\ d.choices \in SUBSET Nat
      /\ d.kind \in {"scale", "mode"} => d.choices # {}
  BY PartFields
<1>2. /\ F.args[i].kind \in Kinds
      /\ F.args[i].kind = "number" =>
            F.args[i].low \in Int /\ F.args[i].high \in Int /\ F.args[i].low <= F.args[i].high
  BY ArgumentFields
<1> HIDE DEF d
<1>3. CASE d.kind = "number"
  <2>1. d.low \in Int /\ d.high \in Int /\ d.low <= d.high
    BY <1>1, <1>2, <1>3
  <2>2. Seed(d) \in d.low .. d.high
    BY <1>3, <2>1 DEF Seed
  <2> QED BY <1>3, <2>2 DEF Members, d
<1>4. CASE d.kind # "number"
  <2>1. d.choices # {}
    BY <1>1, <1>2, <1>4 DEF Kinds
  <2>2. LeastOf(d.choices) \in d.choices
    BY <1>1, <2>1, LeastIsMember
  <2> QED BY <1>4, <2>2 DEF Seed, Members, d
<1> QED BY <1>3, <1>4

\* An alternative is another member of its domain.
LEMMA AlternativeIsMember ==
    ASSUME NEW F \in Forms, NEW c \in StructuralCases(F), NEW i \in DOMAIN F.args,
           NEW v, Alternatives(c.domains[i], v) # {}
    PROVE  Alternative(c.domains[i], v) \in Members(c.domains[i])
<1> DEFINE d == c.domains[i]
           offered == Alternatives(d, v)
           order == <<2, 0, -1, d.low, d.high>>
           places == {k \in 1 .. 5 : order[k] \in offered}
<1>1. offered \subseteq Members(d) /\ offered # {}
  BY DEF Alternatives
<1>2. d.choices \in SUBSET Nat
  BY PartFields
<1>3. CASE d.kind = "number"
  <2>1. \A u \in offered : u \in {2, 0, -1, d.low, d.high}
    BY <1>3 DEF Alternatives
  <2>2. order[1] = 2 /\ order[2] = 0 /\ order[3] = -1 /\ order[4] = d.low /\ order[5] = d.high
    OBVIOUS
  <2>3. places # {} /\ places \in SUBSET Nat
    BY <1>1, <2>1, <2>2
  <2>4. LeastOf(places) \in places
    BY <2>3, LeastIsMember
  <2>5. Alternative(d, v) = order[LeastOf(places)]
    BY <1>3 DEF Alternative
  <2>6. order[LeastOf(places)] \in offered
    BY <2>4
  <2> QED BY <1>1, <2>5, <2>6
<1>4. CASE d.kind # "number"
  <2>1. offered \in SUBSET Nat
    BY <1>1, <1>2, <1>4 DEF Members
  <2>2. LeastOf(offered) \in offered
    BY <1>1, <2>1, LeastIsMember
  <2> QED BY <1>1, <1>4, <2>2 DEF Alternative
<1> QED BY <1>3, <1>4

\* The place of a parent among the choices of a group's first argument.
PlaceOf(c, g, q) == LeastOf({v \in c.domains[LeastOf(g)].choices : Parent(v) = q})

\* The first of some of a group's parents is one of them.
LEMMA FirstIsMember ==
    ASSUME NEW F \in Forms, NEW c \in StructuralCases(F), NEW g \in c.groups,
           NEW S \in SUBSET ParentChoices(c, g), S # {}
    PROVE  FirstParent(c, g, S) \in S
<1>1. LeastOf(g) \in g /\ LeastOf(g) \in DOMAIN F.args
  BY GroupFields
<1>2. c.domains[LeastOf(g)].choices \subseteq Nat
  BY <1>1, PartFields
<1>3. ASSUME NEW q \in S PROVE PlaceOf(c, g, q) \in Nat
  <2> DEFINE views == {v \in c.domains[LeastOf(g)].choices : Parent(v) = q}
  <2>1. q \in ParentsOf(c.domains[LeastOf(g)])
    BY <1>1 DEF ParentChoices, Common
  <2>2. views # {} /\ views \in SUBSET Nat
    BY <1>2, <2>1 DEF ParentsOf
  <2>3. LeastOf(views) \in views
    BY <2>2, LeastIsMember
  <2> QED BY <2>2, <2>3 DEF PlaceOf
<1> DEFINE N == {PlaceOf(c, g, q) : q \in S}
<1>4. N \in SUBSET Nat /\ N # {}
  BY <1>3
<1>5. LeastOf(N) \in N /\ \A m \in N : LeastOf(N) <= m
  BY <1>4, LeastIsMember
<1>6. PICK q \in S : PlaceOf(c, g, q) = LeastOf(N)
  BY <1>5
<1>7. \A r \in S : ~(PlaceOf(c, g, r) < PlaceOf(c, g, q))
  <2>1. TAKE r \in S
  <2>2. PlaceOf(c, g, r) \in N /\ PlaceOf(c, g, r) \in Nat /\ PlaceOf(c, g, q) \in Nat
    BY <1>3
  <2>3. PlaceOf(c, g, q) <= PlaceOf(c, g, r)
    BY <1>5, <1>6, <2>2
  <2> QED BY <2>2, <2>3
<1>8. \A r \in S : ~Earlier(c, g, r, q)
  BY <1>7 DEF Earlier, PlaceOf
<1>9. FirstParent(c, g, S) = CHOOSE r \in S : ~\E x \in S : Earlier(c, g, x, r)
  BY DEF FirstParent
<1> QED BY <1>8, <1>9

\* The representative of a case belongs to it.
LEMMA CanonicalInCase ==
    ASSUME NEW F \in Forms, NEW c \in StructuralCases(F), HasCanonical(c)
    PROVE  InCase(c, Canonical(c))
<1> DEFINE v == Canonical(c)
           group(i) == CHOOSE g \in c.groups : i \in g
<1>1. DOMAIN v = DOMAIN F.args /\ DOMAIN c.domains = DOMAIN F.args
      /\ Slots(c.domains) = RegisterPlaces(F)
  BY GroupFields DEF Canonical
<1>2. ASSUME NEW i \in RegisterPlaces(F)
      PROVE  /\ i \in DOMAIN F.args /\ group(i) \in c.groups /\ i \in group(i)
             /\ v[i] \in Members(c.domains[i]) /\ Parent(v[i]) = Chosen(c, group(i))
  <2>1. i \in DOMAIN F.args /\ \E g \in c.groups : i \in g
    BY GroupFields
  <2>2. group(i) \in c.groups /\ i \in group(i)
    BY <2>1
  <2>3. v[i] = ViewIn(c.domains[i], Chosen(c, group(i)))
    BY <1>1, <2>1 DEF Canonical
  <2>4. Placed(c, group(i)) # {}
    BY <2>2 DEF HasCanonical
  <2>5. Chosen(c, group(i)) \in Placed(c, group(i))
    BY <2>4 DEF Chosen
  <2>6. Chosen(c, group(i)) \in ParentChoices(c, group(i))
    BY <2>5 DEF Placed
  <2> HIDE DEF group, v
  <2>7. /\ ViewIn(c.domains[i], Chosen(c, group(i))) \in Members(c.domains[i])
        /\ Parent(ViewIn(c.domains[i], Chosen(c, group(i)))) = Chosen(c, group(i))
    BY <2>2, <2>6, ViewIsChoice
  <2> QED BY <2>1, <2>2, <2>3, <2>7
<1>3. ASSUME NEW i \in DOMAIN F.args, i \notin RegisterPlaces(F)
      PROVE  v[i] \in Members(c.domains[i])
  <2>1. v[i] = Seed(c.domains[i])
    BY <1>1, <1>3 DEF Canonical
  <2>2. F.args[i].kind # "register"
    BY <1>3 DEF RegisterPlaces
  <2> QED BY <2>1, <2>2, SeedIsMember
<1> HIDE DEF group, v
<1>4. ASSUME NEW i \in RegisterPlaces(F), NEW j \in RegisterPlaces(F)
      PROVE  (Parent(v[i]) = Parent(v[j])) <=> \E g \in c.groups : {i, j} \subseteq g
  <2>1. (Parent(v[i]) = Parent(v[j])) <=> group(i) = group(j)
    BY <1>2 DEF HasCanonical
  <2>2. ASSUME NEW g \in c.groups, i \in g, j \in g PROVE group(i) = g /\ group(j) = g
    BY <1>2, <2>2, GroupFields
  <2> QED BY <1>2, <2>1, <2>2
<1> QED BY <1>1, <1>2, <1>3, <1>4 DEF InCase, Aliases, v

\* Moving a group to a parent no group of the row has keeps the row in its case.
LEMMA GroupChangeInCase ==
    ASSUME NEW F \in Forms, NEW c \in StructuralCases(F), NEW b, InCase(c, b),
           NEW g \in c.groups, NEW q \in Unused(c, b, g)
    PROVE  InCase(c, Assign(c, b, g, q))
<1> DEFINE v == Assign(c, b, g, q)
<1>1. /\ DOMAIN c.domains = DOMAIN F.args /\ Slots(c.domains) = RegisterPlaces(F)
      /\ DOMAIN b = DOMAIN F.args
      /\ \A i \in DOMAIN F.args : b[i] \in Members(c.domains[i])
      /\ \A i, j \in RegisterPlaces(F) :
            (Parent(b[i]) = Parent(b[j])) <=> \E h \in c.groups : {i, j} \subseteq h
  BY GroupFields DEF InCase, Aliases
<1>2. /\ DOMAIN v = DOMAIN F.args
      /\ \A i \in DOMAIN F.args : i \in g => v[i] = ViewIn(c.domains[i], q)
      /\ \A i \in DOMAIN F.args : i \notin g => v[i] = b[i]
  BY <1>1 DEF Assign
<1>3. q \in ParentChoices(c, g) /\ \A h \in c.groups : Parent(b[LeastOf(h)]) # q
  BY DEF Unused
<1> HIDE DEF v
<1>4. ASSUME NEW i \in g
      PROVE  i \in DOMAIN F.args /\ v[i] \in Members(c.domains[i]) /\ Parent(v[i]) = q
  <2>1. i \in DOMAIN F.args
    BY GroupFields
  <2> QED BY <1>2, <1>3, <2>1, ViewIsChoice
<1>5. \A i \in DOMAIN F.args : v[i] \in Members(c.domains[i])
  BY <1>1, <1>2, <1>4
<1>6. ASSUME NEW i \in RegisterPlaces(F), i \notin g
      PROVE  v[i] = b[i] /\ Parent(b[i]) # q
  <2>1. v[i] = b[i]
    BY <1>2, <1>6 DEF RegisterPlaces
  <2>2. PICK h \in c.groups : i \in h
    BY GroupFields
  <2>3. LeastOf(h) \in h /\ h \subseteq RegisterPlaces(F)
    BY GroupFields
  <2>4. {i, LeastOf(h)} \subseteq h
    BY <2>2, <2>3
  <2>5. Parent(b[i]) = Parent(b[LeastOf(h)])
    BY <1>1, <2>3, <2>4
  <2> QED BY <1>3, <2>1, <2>5
<1>7. ASSUME NEW i \in RegisterPlaces(F), NEW j \in RegisterPlaces(F)
      PROVE  (Parent(v[i]) = Parent(v[j])) <=> \E h \in c.groups : {i, j} \subseteq h
  <2>1. CASE i \in g /\ j \in g
    BY <1>4, <2>1
  <2>2. CASE (i \in g) # (j \in g)
    <3>1. Parent(v[i]) # Parent(v[j])
      BY <1>4, <1>6, <2>2
    <3>2. \A h \in c.groups : ~({i, j} \subseteq h)
      BY <2>2, GroupFields
    <3> QED BY <3>1, <3>2
  <2>3. CASE i \notin g /\ j \notin g
    BY <1>1, <1>6, <2>3
  <2> QED BY <2>1, <2>2, <2>3
<1> QED BY <1>1, <1>2, <1>5, <1>7 DEF InCase, Aliases, v

\* So does changing a number to one of its alternatives.
LEMMA NumberChangeInCase ==
    ASSUME NEW F \in Forms, NEW c \in StructuralCases(F), NEW b, InCase(c, b),
           NEW i \in DOMAIN b \ Slots(c.domains), NEW u \in Members(c.domains[i])
    PROVE  InCase(c, [b EXCEPT ![i] = u])
<1> DEFINE v == [b EXCEPT ![i] = u]
<1>1. DOMAIN v = DOMAIN b /\ v[i] = u /\ \A j \in DOMAIN b : j # i => v[j] = b[j]
  OBVIOUS
<1>2. Slots(c.domains) \subseteq DOMAIN b
  BY DEF Slots, InCase
<1> HIDE DEF v
<1>3. \A j \in DOMAIN v : v[j] \in Members(c.domains[j])
  BY <1>1 DEF InCase
<1>4. \A j \in Slots(c.domains) : v[j] = b[j]
  BY <1>1, <1>2
<1> QED BY <1>1, <1>3, <1>4 DEF InCase, Aliases, v

\* A row is the representative or one change of it.
IsRow(c, b, row) ==
    \/ row = b
    \/ \E g \in c.groups : \E q \in Unused(c, b, g) : row = Assign(c, b, g, q)
    \/ \E i \in DOMAIN b \ Slots(c.domains) : \E u \in Members(c.domains[i]) :
          row = [b EXCEPT ![i] = u]

\* The separating rows are such rows, and the first is the representative.
LEMMA SeparatingRows ==
    ASSUME NEW F \in Forms, NEW c \in StructuralCases(F), NEW b, InCase(c, b)
    PROVE  /\ \A k \in DOMAIN Separating(c, b) : IsRow(c, b, Separating(c, b)[k])
           /\ 1 \in DOMAIN Separating(c, b) /\ Separating(c, b)[1] = b
<1> DEFINE group(i) == CHOOSE g \in c.groups : LeastOf(g) = i
           movable == {LeastOf(g) : g \in {h \in c.groups : Unused(c, b, h) # {}}}
           groups == Ascending(movable)
           varied == {i \in DOMAIN b \ Slots(c.domains) : Alternatives(c.domains[i], b[i]) # {}}
           numbers == Ascending(varied)
           moves == [k \in DOMAIN groups |->
                        Assign(c, b, group(groups[k]),
                               FirstParent(c, group(groups[k]), Unused(c, b, group(groups[k]))))]
           changes == [k \in DOMAIN numbers |->
                          [b EXCEPT ![numbers[k]] = Alternative(c.domains[numbers[k]], @)]]
           R == {b} \cup {moves[k] : k \in DOMAIN groups} \cup {changes[k] : k \in DOMAIN numbers}
<1>1. Separating(c, b) = <<b>> \o moves \o changes
  BY DEF Separating
<1>2. DOMAIN b = DOMAIN F.args /\ IsFiniteSet(DOMAIN F.args) /\ DOMAIN F.args \in SUBSET Nat
  BY GroupFields, FormsAssumption DEF InCase
<1>3. movable \in SUBSET DOMAIN F.args /\ varied \in SUBSET DOMAIN F.args
  BY <1>2, GroupFields
<1>4. /\ movable \in SUBSET Nat /\ IsFiniteSet(movable)
      /\ varied \in SUBSET Nat /\ IsFiniteSet(varied)
  BY <1>2, <1>3, FS_Subset
<1> HIDE DEF movable, varied
<1>5. /\ Cardinality(movable) \in Nat /\ DOMAIN groups = 1 .. Cardinality(movable)
      /\ \A k \in DOMAIN groups : groups[k] \in movable
  BY <1>4, AscendingMembers
<1>6. /\ Cardinality(varied) \in Nat /\ DOMAIN numbers = 1 .. Cardinality(varied)
      /\ \A k \in DOMAIN numbers : numbers[k] \in varied
  BY <1>4, AscendingMembers
<1> HIDE DEF groups, numbers
<1>7. ASSUME NEW k \in DOMAIN groups PROVE IsRow(c, b, moves[k])
  <2>1. PICK h \in c.groups : LeastOf(h) = groups[k] /\ Unused(c, b, h) # {}
    BY <1>5 DEF movable
  <2>2. group(groups[k]) \in c.groups /\ LeastOf(group(groups[k])) = LeastOf(h)
    BY <2>1
  <2>3. group(groups[k]) = h
    BY <2>1, <2>2, GroupFields
  <2>4. moves[k] = Assign(c, b, h, FirstParent(c, h, Unused(c, b, h)))
    BY <2>3
  <2>5. Unused(c, b, h) \in SUBSET ParentChoices(c, h)
    BY DEF Unused
  <2>6. FirstParent(c, h, Unused(c, b, h)) \in Unused(c, b, h)
    BY <2>1, <2>5, FirstIsMember
  <2> QED BY <2>1, <2>4, <2>6 DEF IsRow
<1>8. ASSUME NEW k \in DOMAIN numbers PROVE IsRow(c, b, changes[k])
  <2> DEFINE i == numbers[k]
  <2>1. i \in DOMAIN b \ Slots(c.domains) /\ Alternatives(c.domains[i], b[i]) # {}
    BY <1>6 DEF varied
  <2>2. Alternative(c.domains[i], b[i]) \in Members(c.domains[i])
    BY <1>2, <2>1, AlternativeIsMember
  <2>3. changes[k] = [b EXCEPT ![i] = Alternative(c.domains[i], b[i])]
    BY <2>1
  <2> QED BY <2>1, <2>2, <2>3 DEF IsRow
<1> HIDE DEF group
<1>9. \A r \in R : IsRow(c, b, r)
  <2>1. IsRow(c, b, b)
    BY DEF IsRow
  <2> QED BY <1>7, <1>8, <2>1
<1>10. <<b>> \in Seq(R) /\ moves \in Seq(R) /\ changes \in Seq(R)
  <2>1. b \in R /\ (\A k \in DOMAIN groups : moves[k] \in R)
           /\ \A k \in DOMAIN numbers : changes[k] \in R
    OBVIOUS
  <2>2. /\ moves = [k \in 1 .. Cardinality(movable) |-> moves[k]]
        /\ changes = [k \in 1 .. Cardinality(varied) |-> changes[k]]
    BY <1>5, <1>6
  <2> HIDE DEF R, moves, changes
  <2> QED BY <1>5, <1>6, <2>1, <2>2
<1> HIDE DEF R, moves, changes
<1>11. <<b>> \o moves \o changes \in Seq(R)
  BY <1>10, ConcatProperties
<1>12. \A k \in DOMAIN (<<b>> \o moves \o changes) : (<<b>> \o moves \o changes)[k] \in R
  BY <1>11
<1>13. 1 \in DOMAIN (<<b>> \o moves \o changes) /\ (<<b>> \o moves \o changes)[1] = b
  <2>1. /\ <<b>> \o moves \in Seq(R) /\ Len(<<b>> \o moves) = 1 + Len(moves)
        /\ (<<b>> \o moves)[1] = b
    BY <1>10, ConcatProperties
  <2> QED BY <1>10, <2>1, ConcatProperties
<1> QED BY <1>1, <1>9, <1>12, <1>13

\* Every such row belongs to the case.
LEMMA SeparatingInCase ==
    ASSUME NEW F \in Forms, NEW c \in StructuralCases(F), NEW b, InCase(c, b), NEW row, IsRow(c, b, row)
    PROVE  InCase(c, row)
BY GroupChangeInCase, NumberChangeInCase DEF IsRow

\* The members of a register's part are not views of implicit registers, or of one.
LEMMA ImplicitIsAlone ==
    ASSUME NEW F \in Forms, NEW c \in StructuralCases(F), NEW i \in RegisterPlaces(F),
           NEW u \in Members(c.domains[i]), NEW v \in Members(c.domains[i]), Parent(u) \in F.implicit
    PROVE  Parent(v) = Parent(u)
<1>1. i \in DOMAIN F.args /\ F.args[i].kind = "register" /\ "" \notin F.implicit
  BY FormsAssumption DEF RegisterPlaces
<1>0. IsCase(F, c)
  BY CasesAreCases
<1>2. PICK w : c.domains[i] = Around(F.args[i], F.implicit, w)
  BY <1>0, <1>1 DEF IsCase
<1>3. c.domains[i].kind = "register"
  BY <1>1, PartFields
<1>4. Category(u, F.implicit) = Category(w, F.implicit) /\ Category(v, F.implicit) = Category(w, F.implicit)
  <2> DEFINE parts == {x \in ArgumentDomain(F.args[i]).choices :
                          Category(x, F.implicit) = Category(w, F.implicit)}
  <2>0. Around(F.args[i], F.implicit, w).choices = parts
    BY <1>1, AroundRegister
  <2>1. c.domains[i].choices = parts
    <3> HIDE DEF parts
    <3> QED BY <1>2, <2>0
  <2>2. u \in c.domains[i].choices /\ v \in c.domains[i].choices
    BY <1>3 DEF Members
  <2> QED BY <2>1, <2>2
<1>5. Category(u, F.implicit)[5] = Category(v, F.implicit)[5]
  BY <1>4
<1>6. (IF Parent(u) \in F.implicit THEN Parent(u) ELSE "")
        = (IF Parent(v) \in F.implicit THEN Parent(v) ELSE "")
  BY <1>5 DEF Category, Parent
<1> QED BY <1>1, <1>6

\* A register that a row changes takes a parent of none of the representative's.
LEMMA ChangeIsUnused ==
    ASSUME NEW F \in Forms, NEW c \in StructuralCases(F), NEW b, InCase(c, b), NEW row, IsRow(c, b, row),
           NEW i \in RegisterPlaces(F), Parent(row[i]) # Parent(b[i])
    PROVE  \A j \in RegisterPlaces(F) : Parent(row[i]) # Parent(b[j])
<1>1. /\ Slots(c.domains) = RegisterPlaces(F) /\ DOMAIN b = DOMAIN F.args /\ i \in DOMAIN b
      /\ \A j, k \in RegisterPlaces(F) :
            (Parent(b[j]) = Parent(b[k])) <=> \E g \in c.groups : {j, k} \subseteq g
  BY GroupFields DEF InCase, Aliases
<1>2. ~(row = b) /\ ~\E k \in DOMAIN b \ Slots(c.domains) : \E u \in Members(c.domains[k]) :
                        row = [b EXCEPT ![k] = u]
  BY <1>1
<1>3. PICK g \in c.groups : \E q \in Unused(c, b, g) : row = Assign(c, b, g, q)
  BY <1>2 DEF IsRow
<1>4. PICK q \in Unused(c, b, g) : row = Assign(c, b, g, q)
  BY <1>3
<1>5. i \in g /\ row[i] = ViewIn(c.domains[i], q)
  BY <1>1, <1>4 DEF Assign
<1>6. q \in ParentChoices(c, g) /\ \A h \in c.groups : Parent(b[LeastOf(h)]) # q
  BY DEF Unused
<1>7. Parent(row[i]) = q
  BY <1>5, <1>6, ViewIsChoice
<1>8. TAKE j \in RegisterPlaces(F)
<1>9. PICK h \in c.groups : j \in h
  BY GroupFields
<1>10. LeastOf(h) \in RegisterPlaces(F) /\ {j, LeastOf(h)} \subseteq h
  BY <1>9, GroupFields
<1>11. Parent(b[j]) = Parent(b[LeastOf(h)])
  BY <1>1, <1>10
<1> QED BY <1>6, <1>7, <1>11


\* The rows a structural case is observed at belong to it (ArgumentCase.canonical and
\* separating).
THEOREM RowsAreInCase ==
    form \in Forms /\ arguments \in StructuralCases(form) => RowsStayInCase
<1> SUFFICES ASSUME form \in Forms, arguments \in StructuralCases(form), HasCanonical(arguments)
             PROVE  \A k \in DOMAIN Separating(arguments, Canonical(arguments)) :
                        InCase(arguments, Separating(arguments, Canonical(arguments))[k])
  BY DEF RowsStayInCase
<1>1. InCase(arguments, Canonical(arguments))
  BY CanonicalInCase
<1> QED BY <1>1, SeparatingRows, SeparatingInCase

\* They tell its registers apart.
THEOREM RowsAreTold ==
    form \in Forms /\ arguments \in StructuralCases(form) => RowsTellApart
<1> SUFFICES ASSUME form \in Forms, arguments \in StructuralCases(form), HasCanonical(arguments)
             PROVE  RowsTellApart
  BY DEF RowsTellApart
<1> DEFINE c == arguments
           b == Canonical(arguments)
           rows == Separating(arguments, b)
<1>1. InCase(c, b)
  BY CanonicalInCase
<1>2. /\ \A k \in DOMAIN rows : IsRow(c, b, rows[k])
      /\ 1 \in DOMAIN rows /\ rows[1] = b
  BY <1>1, SeparatingRows
<1>3. \A k \in DOMAIN rows : InCase(c, rows[k])
  BY <1>1, <1>2, SeparatingInCase
<1>4. Slots(c.domains) = RegisterPlaces(form) /\ RegisterPlaces(form) \subseteq DOMAIN form.args
      /\ DOMAIN c.domains = DOMAIN form.args
  BY GroupFields
<1> HIDE DEF b, rows
<1>5. ASSUME NEW i \in RegisterPlaces(form), NEW j \in RegisterPlaces(form),
             Parent(rows[1][i]) = Parent(rows[1][j]), NEW k \in DOMAIN rows
      PROVE  Parent(rows[k][i]) = Parent(rows[k][j])
  BY <1>2, <1>3, <1>4, <1>5 DEF InCase, Aliases
<1>6. ASSUME NEW i \in RegisterPlaces(form), NEW k \in DOMAIN rows,
             Parent(rows[k][i]) # Parent(rows[1][i])
      PROVE  \A j \in RegisterPlaces(form) : Parent(rows[k][i]) # Parent(rows[1][j])
  BY <1>1, <1>2, <1>6, ChangeIsUnused
<1>7. ASSUME NEW i \in RegisterPlaces(form), NEW k \in DOMAIN rows,
             Parent(rows[k][i]) # Parent(rows[1][i]), NEW l \in DOMAIN rows
      PROVE  Parent(rows[l][i]) \notin form.implicit
  <2>1. \A m \in DOMAIN rows : rows[m][i] \in Members(c.domains[i])
    BY <1>3, <1>4 DEF InCase
  <2> QED BY <1>2, <1>7, <2>1, ImplicitIsAlone
<1>8. \A i \in Slots(c.domains) :
          /\ \A j \in Slots(c.domains) :
                Parent(rows[1][i]) = Parent(rows[1][j])
                    => \A k \in DOMAIN rows : Parent(rows[k][i]) = Parent(rows[k][j])
          /\ (\E k \in DOMAIN rows : Parent(rows[k][i]) # Parent(rows[1][i])) =>
                /\ \E k \in DOMAIN rows : \A j \in Slots(c.domains) :
                      Parent(rows[k][i]) # Parent(rows[1][j])
                /\ \A k \in DOMAIN rows : Parent(rows[k][i]) \notin form.implicit
  BY <1>4, <1>5, <1>6, <1>7
<1> QED BY <1>8 DEF RowsTellApart, b, rows

\* In every state, whatever form is acquired: its assignments are divided among its
\* structural cases, and the rows of the case acquired stay in that case and tell its
\* registers apart.
THEOREM CasesArePartitioned == CasesPartition
BY AssignmentsHaveOneCase, RowsAreInCase, RowsAreTold DEF CasesPartition

--------------------------------------------------------------------------------
(* Trees, patterns and their layers                                           *)

\* Nothing is made of itself: every set of trees has a member with no part in it, as every
\* value that expose takes apart is finite.
Grounded(S) == \A T \in SUBSET S : T # {} => \E t \in T : Parts(t) \cap T = {}

\* What a layer may have, and that its parts belong to the same trees.
Shaped(S) ==
    \A t \in S : /\ t = Tree(t.con, t.sort, t.atom, t.args, t.entries)
                 /\ t.args \in Seq(S) /\ (t.con # "app" => t.args = <<>>)
                 /\ t.entries \in SUBSET (S \X S) /\ IsFiniteSet(t.entries)
                 /\ (t.con # "map" => t.entries = {})

\* Closed trees, as QFAbvSyntax exposes them. The keys of a finite map are distinct: expose
\* takes one from each declaration, and antiunify_many refuses another.
Syntax(S) ==
    /\ Grounded(S) /\ Shaped(S)
    /\ \A t \in S : /\ t.con \in {"app", "atom", "map"}
                    /\ \A d, e \in t.entries : d[1] = e[1] => d = e

\* The columns of n observations, and the parameters' among them.
ColumnsOf(S, n) == [1 .. n -> S]
ParametersIn(columns, S, n) == \A m \in DOMAIN columns : columns[m] \in ColumnsOf(S, n)

\* g is the pattern that antiunify_many makes of every column, and f what instantiate makes
\* of every pattern at a row: both are determined layer by layer.
Generalizes(g, C, columns) ==
    \A c \in C : g[c] = Generalize1(c, columns, LAMBDA below : g[below])
Fills(f, P, row) == \A p \in P : f[p] = Fill1(p, row, LAMBDA below : f[below])

\* A pattern other than a hole with its parts filled.
FilledArgs(f, p) == [k \in DOMAIN p.args |-> f[p.args[k]]]
FilledEntries(f, p) == {<<f[e[1]], f[e[2]]>> : e \in p.entries}
Rebuilt(f, p) == [p EXCEPT !.args = FilledArgs(f, p), !.entries = FilledEntries(f, p)]

\* The fields of a filled layer.
LEMMA RebuiltFields ==
    ASSUME NEW f, NEW p, p = Tree(p.con, p.sort, p.atom, p.args, p.entries)
    PROVE  /\ Rebuilt(f, p) = Tree(p.con, p.sort, p.atom, FilledArgs(f, p), FilledEntries(f, p))
           /\ Rebuilt(f, p).con = p.con /\ Rebuilt(f, p).sort = p.sort /\ Rebuilt(f, p).atom = p.atom
           /\ Rebuilt(f, p).args = FilledArgs(f, p) /\ Rebuilt(f, p).entries = FilledEntries(f, p)
<1> DEFINE a == FilledArgs(f, p)
           b == FilledEntries(f, p)
<1>0. Rebuilt(f, p) = [p EXCEPT !.args = a, !.entries = b]
  BY DEF Rebuilt
<1> HIDE DEF a, b
<1>1. Rebuilt(f, p) = Tree(p.con, p.sort, p.atom, a, b)
  BY <1>0 DEF Tree
<1>2. /\ Rebuilt(f, p).con = p.con /\ Rebuilt(f, p).sort = p.sort /\ Rebuilt(f, p).atom = p.atom
      /\ Rebuilt(f, p).args = a /\ Rebuilt(f, p).entries = b
  BY <1>1 DEF Tree
<1> QED BY <1>1, <1>2 DEF a, b

\* A layer whose parts are filled with themselves is unchanged,
LEMMA RebuiltSame ==
    ASSUME NEW f, NEW S, NEW p, p = Tree(p.con, p.sort, p.atom, p.args, p.entries),
           p.args \in Seq(S), p.entries \in SUBSET (S \X S),
           \A k \in DOMAIN p.args : f[p.args[k]] = p.args[k],
           \A e \in p.entries : f[e[1]] = e[1] /\ f[e[2]] = e[2]
    PROVE  Rebuilt(f, p) = p
<1>1. FilledArgs(f, p) = p.args
  BY DEF FilledArgs
<1>2. FilledEntries(f, p) = p.entries
  <2>1. \A e \in p.entries : <<f[e[1]], f[e[2]]>> = e
    OBVIOUS
  <2> QED BY <2>1 DEF FilledEntries
<1> QED BY <1>1, <1>2, RebuiltFields

\* an atom in particular.
LEMMA RebuiltLeaf ==
    ASSUME NEW f, NEW p, p = Tree(p.con, p.sort, p.atom, p.args, p.entries),
           p.args = <<>>, p.entries = {}
    PROVE  Rebuilt(f, p) = p
<1>1. FilledArgs(f, p) = p.args /\ FilledEntries(f, p) = p.entries
  BY DEF FilledArgs, FilledEntries
<1> QED BY <1>1, RebuiltFields

\* One layer of instantiation.
LEMMA FillStep ==
    ASSUME NEW f, NEW P, NEW row, Fills(f, P, row), NEW p \in P
    PROVE  /\ p.con = "hole" => f[p] = row[p.atom[2]]
           /\ p.con # "hole" => f[p] = Rebuilt(f, p)
BY DEF Fills, Fill1, Rebuilt, FilledArgs, FilledEntries

\* One layer of generalisation, with the cases apart.
LayerOf(g, c, columns) ==
    /\ AllEqual(c) => g[c] = c[1]
    /\ ~AllEqual(c) /\ SameConstructor(c) /\ ~SameKeys(c, columns) =>
          g[c] = [c[1] EXCEPT !.args = [k \in DOMAIN c[1].args |-> g[Argument(c, k)]]]
    /\ ~AllEqual(c) /\ SameKeys(c, columns) /\ ~SameConstructor(c) =>
          g[c] = [c[1] EXCEPT !.entries =
                    {<<g[KeyColumn(c, columns, key)], g[ValueColumn(c, columns, key)]>> :
                        key \in Keys(c[1])}]
    /\ ~AllEqual(c) /\ ~SameConstructor(c) /\ ~SameKeys(c, columns) => g[c] = Fresh(c, columns)

\* A layer of g is of one of these kinds.
LEMMA GenStep ==
    ASSUME NEW g, NEW C, NEW columns, Generalizes(g, C, columns), NEW c \in C
    PROVE  LayerOf(g, c, columns)
<1>1. g[c] = CASE AllEqual(c) -> c[1]
      [] ~AllEqual(c) /\ SameConstructor(c) ->
             [c[1] EXCEPT !.args =
                 [k \in DOMAIN c[1].args |-> g[Argument(c, k)]]]
      [] ~AllEqual(c) /\ SameKeys(c, columns) ->
             [c[1] EXCEPT !.entries =
                 {<<g[KeyColumn(c, columns, key)], g[ValueColumn(c, columns, key)]>> :
                     key \in Keys(c[1])}]
      [] OTHER -> Fresh(c, columns)
  BY DEF Generalizes, Generalize1
<1>2. AllEqual(c) => g[c] = c[1]
  BY <1>1
<1>3. ~AllEqual(c) /\ SameConstructor(c) /\ ~SameKeys(c, columns) =>
                 g[c] = [c[1] EXCEPT !.args = [k \in DOMAIN c[1].args |-> g[Argument(c, k)]]]
  BY <1>1
<1>4. ~AllEqual(c) /\ SameKeys(c, columns) /\ ~SameConstructor(c) =>
                 g[c] = [c[1] EXCEPT !.entries = {<<g[KeyColumn(c, columns, key)], g[ValueColumn(c, columns, key)]>> :
                     key \in Keys(c[1])}]
  BY <1>1
<1>5. ~AllEqual(c) /\ ~SameConstructor(c) /\ ~SameKeys(c, columns) => g[c] = Fresh(c, columns)
  BY <1>1
<1> QED BY <1>2, <1>3, <1>4, <1>5 DEF LayerOf

\* The fields of a tree and its parts.
LEMMA SyntaxFields ==
    ASSUME NEW S, Shaped(S), NEW t \in S
    PROVE  /\ t = Tree(t.con, t.sort, t.atom, t.args, t.entries)
           /\ t.args \in Seq(S) /\ (t.con # "app" => t.args = <<>>)
           /\ t.entries \in SUBSET (S \X S) /\ IsFiniteSet(t.entries)
           /\ (t.con # "map" => t.entries = {})
           /\ \A k \in DOMAIN t.args : t.args[k] \in S /\ t.args[k] \in Parts(t)
           /\ \A e \in t.entries : /\ e[1] \in S /\ e[2] \in S /\ e = <<e[1], e[2]>>
                                  /\ e[1] \in Parts(t) /\ e[2] \in Parts(t) /\ e[1] \in Keys(t)
<1>1. /\ t = Tree(t.con, t.sort, t.atom, t.args, t.entries)
      /\ t.args \in Seq(S) /\ (t.con # "app" => t.args = <<>>)
      /\ t.entries \in SUBSET (S \X S) /\ IsFiniteSet(t.entries)
      /\ (t.con # "map" => t.entries = {})
  BY DEF Shaped
<1> QED BY <1>1 DEF Parts, Keys

--------------------------------------------------------------------------------
(* Reconstruction                                                             *)

\* If the keys of a map correspond to different keys of another of the same size, every entry
\* of the other corresponds to one.
LEMMA EntriesCorrespond ==
    ASSUME NEW S, NEW A, NEW B, A.entries \in SUBSET (S \X S), B.entries \in SUBSET (S \X S),
           IsFiniteSet(A.entries), IsFiniteSet(B.entries),
           Cardinality(A.entries) = Cardinality(B.entries),
           \A d, e \in A.entries : d[1] = e[1] => d = e,
           \A d, e \in B.entries : d[1] = e[1] => d = e,
           NEW w, \A k \in Keys(A) : w[k] \in Keys(B),
           \A j, k \in Keys(A) : j # k => w[j] # w[k]
    PROVE  /\ \A k \in Keys(A) : <<w[k], ValueOf(B, w[k])>> \in B.entries
           /\ \A b \in B.entries : \E k \in Keys(A) : b = <<w[k], ValueOf(B, w[k])>>
<1>1. ASSUME NEW k \in Keys(B) PROVE <<k, ValueOf(B, k)>> \in B.entries
  <2>1. \E e \in B.entries : e[1] = k
    BY DEF Keys
  <2> DEFINE e == CHOOSE e \in B.entries : e[1] = k
  <2>2. e \in B.entries /\ e[1] = k
    BY <2>1
  <2>3. e = <<e[1], e[2]>>
    BY <2>2
  <2> QED BY <2>2, <2>3 DEF ValueOf
<1> DEFINE m == [d \in A.entries |-> <<w[d[1]], ValueOf(B, w[d[1]])>>]
<1>2. m \in [A.entries -> B.entries]
  BY <1>1 DEF Keys
<1>3. m \in Injection(A.entries, B.entries)
  <2>1. ASSUME NEW d \in A.entries, NEW e \in A.entries, m[d] = m[e] PROVE d = e
    <3>1. w[d[1]] = w[e[1]] /\ d[1] \in Keys(A) /\ e[1] \in Keys(A)
      BY <2>1 DEF Keys
    <3> QED BY <3>1
  <2> QED BY <1>2, <2>1, Fun_IsInj
<1>4. m \in Surjection(A.entries, B.entries)
  BY <1>3, FS_Injection
<1>5. \A b \in B.entries : \E d \in A.entries : m[d] = b
  BY <1>4 DEF Surjection
<1>6. \A k \in Keys(A) : <<w[k], ValueOf(B, w[k])>> \in B.entries
  BY <1>1
<1>7. \A b \in B.entries : \E k \in Keys(A) : b = <<w[k], ValueOf(B, w[k])>>
  BY <1>5 DEF Keys
<1> QED BY <1>6, <1>7

\* A tree without holes is its own instance.
LEMMA GroundFill ==
    ASSUME NEW S, Syntax(S), NEW P, S \subseteq P, NEW f, NEW row, Fills(f, P, row)
    PROVE  \A t \in S : f[t] = t
<1> DEFINE bad == {t \in S : f[t] # t}
<1>1. SUFFICES ASSUME bad # {} PROVE FALSE
  OBVIOUS
<1>2. PICK t \in bad : Parts(t) \cap bad = {}
  BY <1>1 DEF Syntax, Grounded
<1>3. t \in S /\ t \in P /\ t.con # "hole"
  BY DEF Syntax
<1>4. f[t] = Rebuilt(f, t)
  BY <1>3, FillStep
<1>5. /\ t = Tree(t.con, t.sort, t.atom, t.args, t.entries)
      /\ t.args \in Seq(S) /\ t.entries \in SUBSET (S \X S)
  BY <1>3 DEF Syntax, Shaped
<1>6. \A k \in DOMAIN t.args : t.args[k] \in S /\ t.args[k] \in Parts(t)
  BY <1>5 DEF Parts
<1>7. \A k \in DOMAIN t.args : f[t.args[k]] = t.args[k]
  BY <1>2, <1>6
<1>8. \A e \in t.entries : e[1] \in S /\ e[2] \in S /\ e[1] \in Parts(t) /\ e[2] \in Parts(t)
  BY <1>5 DEF Parts, Keys
<1>9. \A e \in t.entries : f[e[1]] = e[1] /\ f[e[2]] = e[2]
  BY <1>2, <1>8
<1>13. Rebuilt(f, t) = t
  BY <1>5, <1>7, <1>9, RebuiltSame
<1> QED BY <1>2, <1>4, <1>13

\* The value of a key is that of its entry.
LEMMA ValueOfEntry ==
    ASSUME NEW A, NEW k \in Keys(A)
    PROVE  \E e \in A.entries : e[1] = k /\ ValueOf(A, k) = e[2]
<1>1. \E e \in A.entries : e[1] = k
  BY DEF Keys
<1> QED BY <1>1 DEF ValueOf

\* The column a key corresponds to begins with that key.
LEMMA KeyColumnBegins ==
    ASSUME NEW S, NEW n \in Nat \ {0}, NEW c \in ColumnsOf(S, n),
           NEW columns, ParametersIn(columns, S, n),
           NEW key \in S
    PROVE  KeyColumn(c, columns, key) \in ColumnsOf(S, n) /\ KeyColumn(c, columns, key)[1] = key
<1>0. DOMAIN c = 1 .. n /\ 1 \in 1 .. n
  BY DEF ColumnsOf
<1>1. CASE Signatures(key, columns) = {}
  <2>1. KeyColumn(c, columns, key) = [i \in 1 .. n |-> key]
    BY <1>0, <1>1 DEF KeyColumn
  <2> QED BY <1>0, <2>1 DEF ColumnsOf
<1>2. CASE Signatures(key, columns) # {}
  <2>1. KeyColumn(c, columns, key) \in Signatures(key, columns)
    BY <1>2 DEF KeyColumn
  <2>2. PICK m \in DOMAIN columns : columns[m] = KeyColumn(c, columns, key) /\ columns[m][1] = key
    BY <2>1 DEF Signatures
  <2> QED BY <2>2 DEF ParametersIn
<1> QED BY <1>1, <1>2

\* The columns below a constructor begin with parts of its first tree,
LEMMA ArgumentsAreColumns ==
    ASSUME NEW S, Shaped(S), NEW n \in Nat \ {0}, NEW c \in ColumnsOf(S, n), SameConstructor(c),
           NEW k \in DOMAIN c[1].args
    PROVE  Argument(c, k) \in ColumnsOf(S, n) /\ Argument(c, k)[1] \in Parts(c[1])
<1>1. DOMAIN c = 1 .. n /\ 1 \in 1 .. n
  BY DEF ColumnsOf
<1>2. ASSUME NEW i \in 1 .. n PROVE c[i].args[k] \in S
  <2>1. c[i].args \in Seq(S) /\ c[1].args \in Seq(S) /\ Len(c[i].args) = Len(c[1].args)
    BY <1>1 DEF ColumnsOf, Shaped, SameConstructor
  <2> QED BY <2>1
<1>3. Argument(c, k)[1] = c[1].args[k]
  BY <1>1 DEF Argument
<1> QED BY <1>1, <1>2, <1>3 DEF Argument, ColumnsOf, Parts

\* and so do those below a finite map.
LEMMA EntriesAreColumns ==
    ASSUME NEW S, Shaped(S), NEW n \in Nat \ {0}, NEW c \in ColumnsOf(S, n),
           NEW columns, ParametersIn(columns, S, n),
           SameKeys(c, columns), NEW key \in Keys(c[1])
    PROVE  /\ key \in Parts(c[1])
           /\ KeyColumn(c, columns, key) \in ColumnsOf(S, n)
           /\ KeyColumn(c, columns, key)[1] = key
           /\ ValueColumn(c, columns, key) \in ColumnsOf(S, n)
           /\ ValueColumn(c, columns, key)[1] \in Parts(c[1])
<1>1. DOMAIN c = 1 .. n /\ 1 \in 1 .. n
  BY DEF ColumnsOf
<1>2. \A i \in 1 .. n : c[i].entries \in SUBSET (S \X S)
  BY DEF Shaped, ColumnsOf
<1>3. key \in S /\ key \in Parts(c[1])
  BY <1>1, <1>2 DEF Keys, Parts
<1>4. KeyColumn(c, columns, key) \in ColumnsOf(S, n) /\ KeyColumn(c, columns, key)[1] = key
  BY <1>3, KeyColumnBegins
<1>5. \A i \in 1 .. n : KeyColumn(c, columns, key)[i] \in Keys(c[i])
  BY <1>1 DEF SameKeys
<1>6. \A i \in 1 .. n : ValueOf(c[i], KeyColumn(c, columns, key)[i]) \in S
  BY <1>2, <1>5, ValueOfEntry
<1>7. ValueOf(c[1], KeyColumn(c, columns, key)[1]) \in Parts(c[1])
  BY <1>1, <1>5, ValueOfEntry DEF Parts
<1> QED BY <1>1, <1>3, <1>4, <1>6, <1>7 DEF ValueColumn, ColumnsOf

\* Filled with what its holes stood for in an observation, a pattern is what was observed.
\* By induction on the first tree of the column.
LEMMA Reconstructed ==
    ASSUME NEW S, Syntax(S), NEW n \in Nat \ {0},
           NEW columns, ParametersIn(columns, S, n),
           NEW g, Generalizes(g, ColumnsOf(S, n), columns),
           NEW i \in 1 .. n, NEW row,
           \A c \in ColumnsOf(S, n) : row[HoleName(c, columns)] = c[i],
           NEW f, Fills(f, S \cup {g[c] : c \in ColumnsOf(S, n)}, row)
    PROVE  \A c \in ColumnsOf(S, n) : f[g[c]] = c[i]
<1> DEFINE C == ColumnsOf(S, n)
           P == S \cup {g[c] : c \in C}
           bad == {c \in C : f[g[c]] # c[i]}
           firsts == {c[1] : c \in bad}
<1>0. 1 \in 1 .. n /\ Shaped(S) /\ Grounded(S)
  BY DEF Syntax
<1>1. SUFFICES ASSUME bad # {} PROVE FALSE
  OBVIOUS
<1>2. firsts \in SUBSET S /\ firsts # {}
  BY <1>0, <1>1 DEF ColumnsOf
<1>3. PICK t \in firsts : Parts(t) \cap firsts = {}
  BY <1>0, <1>2 DEF Grounded
<1>4. PICK c \in bad : c[1] = t
  OBVIOUS
<1>5. c \in C /\ f[g[c]] # c[i] /\ c[1] \in S /\ c[i] \in S /\ g[c] \in P
      /\ DOMAIN c = 1 .. n
  BY <1>0, <1>4 DEF ColumnsOf
<1>6. \A d \in C : d[1] \in Parts(c[1]) => f[g[d]] = d[i]
  BY <1>3, <1>4
<1>s. /\ c[1] = Tree(c[1].con, c[1].sort, c[1].atom, c[1].args, c[1].entries)
      /\ c[i] = Tree(c[i].con, c[i].sort, c[i].atom, c[i].args, c[i].entries)
      /\ c[1].args \in Seq(S) /\ c[i].args \in Seq(S)
      /\ c[1].entries \in SUBSET (S \X S) /\ c[i].entries \in SUBSET (S \X S)
      /\ IsFiniteSet(c[1].entries) /\ IsFiniteSet(c[i].entries)
      /\ (c[1].con # "app" => c[1].args = <<>>) /\ (c[i].con # "app" => c[i].args = <<>>)
      /\ (c[1].con # "map" => c[1].entries = {}) /\ (c[i].con # "map" => c[i].entries = {})
      /\ c[1].con # "hole"
      /\ \A d, e \in c[1].entries : d[1] = e[1] => d = e
      /\ \A d, e \in c[i].entries : d[1] = e[1] => d = e
  BY <1>0, <1>5 DEF Syntax, Shaped
<1>g. LayerOf(g, c, columns)
  BY <1>5, GenStep
<1>f. (\A u \in S : f[u] = u) /\ Fills(f, P, row)
  <2>1. S \subseteq P /\ Fills(f, P, row)
    OBVIOUS
  <2> HIDE DEF P
  <2> QED BY <2>1, GroundFill
<1> HIDE DEF P, C, bad, firsts
<1>7. CASE AllEqual(c)
  <2>1. g[c] = c[1] /\ c[i] = c[1]
    BY <1>5, <1>7, <1>g DEF LayerOf, AllEqual
  <2> QED BY <1>5, <1>f, <2>1
<1>8. CASE ~AllEqual(c) /\ SameConstructor(c)
  <2>0. c[1].con = "app" /\ c[i].con = "app" /\ c[i].sort = c[1].sort /\ c[i].atom = c[1].atom
        /\ Len(c[i].args) = Len(c[1].args)
    BY <1>0, <1>5, <1>8 DEF SameConstructor
  <2>1. ~SameKeys(c, columns)
    BY <1>0, <1>5, <2>0 DEF SameKeys
  <2>2. g[c] = [c[1] EXCEPT !.args = [k \in DOMAIN c[1].args |-> g[Argument(c, k)]]]
    BY <1>8, <2>1, <1>g DEF LayerOf
  <2>3. \A k \in DOMAIN c[1].args : f[g[Argument(c, k)]] = c[i].args[k]
    <3>1. TAKE k \in DOMAIN c[1].args
    <3>2. Argument(c, k) \in C /\ Argument(c, k)[1] \in Parts(c[1])
      BY <1>0, <1>5, <1>8, ArgumentsAreColumns DEF C
    <3>3. Argument(c, k)[i] = c[i].args[k]
      BY <1>5 DEF Argument
    <3> QED BY <1>6, <3>2, <3>3
  <2>4. g[c].con = "app" /\ g[c].entries = {} /\ DOMAIN g[c].args = DOMAIN c[1].args
        /\ \A k \in DOMAIN c[1].args : g[c].args[k] = g[Argument(c, k)]
    BY <1>s, <2>0, <2>2 DEF Tree
  <2>5. FilledArgs(f, g[c]) = c[i].args
    BY <1>s, <2>0, <2>3, <2>4 DEF FilledArgs
  <2>6. f[g[c]] = Rebuilt(f, g[c])
    BY <1>5, <2>4, <1>f, FillStep
  <2>7. FilledEntries(f, g[c]) = {}
    BY <2>4 DEF FilledEntries
  <2>8. f[g[c]] = [g[c] EXCEPT !.args = c[i].args, !.entries = {}]
    BY <2>5, <2>6, <2>7 DEF Rebuilt
  <2>9. f[g[c]] = [c[1] EXCEPT !.args = c[i].args, !.entries = {}]
    BY <1>s, <2>2, <2>8 DEF Tree
  <2>10. c[i].entries = {}
    BY <1>s, <2>0
  <2> QED BY <1>5, <1>s, <2>0, <2>9, <2>10 DEF Tree
<1>9. CASE ~AllEqual(c) /\ SameKeys(c, columns)
  <2> DEFINE w == [k \in Keys(c[1]) |-> KeyColumn(c, columns, k)[i]]
  <2>0. c[1].con = "map" /\ c[i].con = "map" /\ c[i].sort = c[1].sort /\ c[i].atom = c[1].atom
        /\ Cardinality(c[i].entries) = Cardinality(c[1].entries)
        /\ (\A k \in Keys(c[1]) : w[k] \in Keys(c[i]))
        /\ \A j, k \in Keys(c[1]) : j # k => w[j] # w[k]
    BY <1>0, <1>5, <1>9 DEF SameKeys
  <2>1. ~SameConstructor(c)
    BY <1>0, <1>5, <2>0 DEF SameConstructor
  <2>2. g[c] = [c[1] EXCEPT !.entries = {<<g[KeyColumn(c, columns, key)], g[ValueColumn(c, columns, key)]>> :
                     key \in Keys(c[1])}]
    BY <1>9, <2>1, <1>g DEF LayerOf
  <2>3. \A k \in Keys(c[1]) : /\ f[g[KeyColumn(c, columns, k)]] = w[k]
                             /\ f[g[ValueColumn(c, columns, k)]] = ValueOf(c[i], w[k])
    <3>1. TAKE k \in Keys(c[1])
    <3>2. /\ KeyColumn(c, columns, k) \in C /\ KeyColumn(c, columns, k)[1] \in Parts(c[1])
          /\ ValueColumn(c, columns, k) \in C /\ ValueColumn(c, columns, k)[1] \in Parts(c[1])
      BY <1>0, <1>5, <1>9, EntriesAreColumns DEF C
    <3>3. ValueColumn(c, columns, k)[i] = ValueOf(c[i], w[k])
      BY <1>5 DEF ValueColumn
    <3> QED BY <1>6, <3>2, <3>3
  <2>4. g[c].con = "map" /\ g[c].args = <<>>
        /\ g[c].entries = {<<g[KeyColumn(c, columns, key)], g[ValueColumn(c, columns, key)]>> :
                     key \in Keys(c[1])}
    BY <1>s, <2>0, <2>2 DEF Tree
  <2>5. c[i].entries = {<<w[k], ValueOf(c[i], w[k])>> : k \in Keys(c[1])}
    <3> DEFINE A == c[1]
               B == c[i]
    <3>1. /\ A.entries \in SUBSET (S \X S) /\ B.entries \in SUBSET (S \X S)
          /\ IsFiniteSet(A.entries) /\ IsFiniteSet(B.entries)
          /\ Cardinality(A.entries) = Cardinality(B.entries)
          /\ \A d, e \in A.entries : d[1] = e[1] => d = e
          /\ \A d, e \in B.entries : d[1] = e[1] => d = e
          /\ \A k \in Keys(A) : w[k] \in Keys(B)
          /\ \A j, k \in Keys(A) : j # k => w[j] # w[k]
      BY <1>s, <2>0
    <3> HIDE DEF w, A, B
    <3>2. /\ \A k \in Keys(A) : <<w[k], ValueOf(B, w[k])>> \in B.entries
          /\ \A b \in B.entries : \E k \in Keys(A) : b = <<w[k], ValueOf(B, w[k])>>
      BY <3>1, EntriesCorrespond
    <3>3. B.entries = {<<w[k], ValueOf(B, w[k])>> : k \in Keys(A)}
      BY <3>2
    <3> QED BY <3>3 DEF A, B
  <2>6. FilledEntries(f, g[c]) = c[i].entries
    <3>1. {<<f[e[1]], f[e[2]]>> : e \in g[c].entries} =
            {<<f[g[KeyColumn(c, columns, k)]], f[g[ValueColumn(c, columns, k)]]>> : k \in Keys(c[1])}
      <4> DEFINE K == Keys(c[1])
                 a == [k \in K |-> g[KeyColumn(c, columns, k)]]
                 b == [k \in K |-> g[ValueColumn(c, columns, k)]]
                 E == g[c].entries
      <4>1. E = {<<a[k], b[k]>> : k \in K}
        BY <2>4
      <4> HIDE DEF a, b, E, K
      <4>2. {<<f[e[1]], f[e[2]]>> : e \in E} = {<<f[a[k]], f[b[k]]>> : k \in K}
        <5>1. ASSUME NEW e \in E PROVE \E k \in K : <<f[e[1]], f[e[2]]>> = <<f[a[k]], f[b[k]]>>
          <6>1. PICK k \in K : e = <<a[k], b[k]>>
            BY <4>1
          <6> QED BY <6>1
        <5>2. ASSUME NEW k \in K PROVE \E e \in E : <<f[e[1]], f[e[2]]>> = <<f[a[k]], f[b[k]]>>
          <6>1. <<a[k], b[k]>> \in E
            BY <4>1
          <6> QED BY <6>1
        <5> QED BY <5>1, <5>2
      <4> QED BY <4>2 DEF a, b, E, K
    <3> HIDE DEF w
    <3> QED BY <2>3, <2>5, <3>1 DEF FilledEntries
  <2>7. f[g[c]] = Rebuilt(f, g[c])
    BY <1>5, <2>4, <1>f, FillStep
  <2>8. FilledArgs(f, g[c]) = <<>>
    BY <2>4 DEF FilledArgs
  <2>9. f[g[c]] = [g[c] EXCEPT !.args = <<>>, !.entries = c[i].entries]
    BY <2>6, <2>7, <2>8 DEF Rebuilt
  <2>10. f[g[c]] = [c[1] EXCEPT !.args = <<>>, !.entries = c[i].entries]
    BY <1>s, <2>2, <2>9 DEF Tree
  <2>11. c[i].args = <<>>
    BY <1>s, <2>0
  <2> QED BY <1>5, <1>s, <2>0, <2>10, <2>11 DEF Tree
<1>10. CASE ~AllEqual(c) /\ ~SameConstructor(c) /\ ~SameKeys(c, columns)
  <2>1. g[c] = Fresh(c, columns)
    BY <1>10, <1>g DEF LayerOf
  <2>2. g[c].con = "hole" /\ g[c].atom[2] = HoleName(c, columns)
    BY <2>1 DEF Fresh, Hole, Tree
  <2>3. f[g[c]] = row[HoleName(c, columns)]
    BY <1>5, <2>2, <1>f, FillStep
  <2> QED BY <1>5, <2>3 DEF C
<1> QED BY <1>7, <1>8, <1>9, <1>10

\* A hole's name tells its column: fresh gives two columns different names.
LEMMA NamesDiffer ==
    ASSUME NEW columns, NEW c, NEW d, <<"V", c>> \notin DOMAIN columns,
           <<"V", d>> \notin DOMAIN columns,
           HoleName(c, columns) = HoleName(d, columns)
    PROVE  c = d
<1> DEFINE names(b) == {m \in DOMAIN columns : columns[m] = b}
<1>1. ASSUME NEW b, Cardinality(names(b)) = 1
      PROVE  (CHOOSE m \in names(b) : TRUE) \in names(b)
  <2>1. names(b) # {}
    BY <1>1, FS_EmptySet
  <2> QED BY <2>1
<1>2. \A b : \/ HoleName(b, columns) \in DOMAIN columns /\ columns[HoleName(b, columns)] = b
            \/ HoleName(b, columns) = <<"V", b>>
  <2>1. TAKE b
  <2>2. CASE Cardinality(names(b)) = 1
    <3>1. HoleName(b, columns) = CHOOSE m \in names(b) : TRUE
      BY <2>2 DEF HoleName
    <3> QED BY <2>2, <3>1, <1>1
  <2>3. CASE Cardinality(names(b)) # 1
    BY <2>3 DEF HoleName
  <2> QED BY <2>2, <2>3
<1> QED BY <1>2

\* The substitution of observation i: what each hole stood for there.
RowOfHoles(C, columns, i) ==
    [name \in {HoleName(c, columns) : c \in C} |->
        (CHOOSE c \in C : HoleName(c, columns) = name)[i]]

\* It gives every hole what its column has there.
LEMMA RowIsColumn ==
    ASSUME NEW columns, NEW C, \A b \in C : <<"V", b>> \notin DOMAIN columns, NEW i, NEW c \in C
    PROVE  RowOfHoles(C, columns, i)[HoleName(c, columns)] = c[i]
<1> DEFINE d == CHOOSE d \in C : HoleName(d, columns) = HoleName(c, columns)
<1>1. d \in C /\ HoleName(d, columns) = HoleName(c, columns)
  OBVIOUS
<1>2. d = c
  BY <1>1, NamesDiffer
<1>3. RowOfHoles(C, columns, i)[HoleName(c, columns)] = d[i]
  BY DEF RowOfHoles
<1> QED BY <1>2, <1>3

\* Whatever is observed, the pattern of a column reconstructs every observation, with no key
\* of a filled map twice: where expose and reconstruct are inverse, "reconstruction law
\* failed" (antiunify_many) is unreachable. No parameter's name is one of a fresh hole's,
\* which antiunify_many refuses ("reserved").
THEOREM ReconstructionLaw ==
    ASSUME NEW S, Syntax(S), NEW n \in Nat \ {0},
           NEW columns, ParametersIn(columns, S, n),
           NEW g, Generalizes(g, ColumnsOf(S, n), columns),
           \A c \in ColumnsOf(S, n) : <<"V", c>> \notin DOMAIN columns,
           NEW i \in 1 .. n, NEW f,
           Fills(f, S \cup {g[c] : c \in ColumnsOf(S, n)}, RowOfHoles(ColumnsOf(S, n), columns, i))
    PROVE  \A c \in ColumnsOf(S, n) :
              /\ f[g[c]] = c[i]
              /\ \A d, e \in g[c].entries : f[d[1]] = f[e[1]] => d = e
<1> DEFINE C == ColumnsOf(S, n)
           P == S \cup {g[c] : c \in C}
           row == RowOfHoles(C, columns, i)
<1>0. \A c \in C : row[HoleName(c, columns)] = c[i]
  BY RowIsColumn
<1>6. Fills(f, P, row) /\ S \subseteq P
  OBVIOUS
<1> HIDE DEF row
<1>1. \A c \in C : f[g[c]] = c[i]
  BY <1>0, <1>6, Reconstructed
<1>2. SUFFICES ASSUME NEW c \in C, NEW d \in g[c].entries, NEW e \in g[c].entries, f[d[1]] = f[e[1]]
              PROVE  d = e
  BY <1>1
<1>3. 1 \in 1 .. n /\ DOMAIN c = 1 .. n /\ c[1] \in S /\ Shaped(S)
  BY DEF ColumnsOf, Syntax
<1>4. /\ c[1] = Tree(c[1].con, c[1].sort, c[1].atom, c[1].args, c[1].entries)
      /\ c[1].entries \in SUBSET (S \X S)
      /\ (c[1].con # "map" => c[1].entries = {})
      /\ \A a, b \in c[1].entries : a[1] = b[1] => a = b
  BY <1>3 DEF Syntax, Shaped
<1>5. LayerOf(g, c, columns)
  BY GenStep
<1> HIDE DEF P
<1>7. \A u \in S : f[u] = u
  BY <1>6, GroundFill
<1>8. CASE AllEqual(c)
  <2>1. d \in c[1].entries /\ e \in c[1].entries
    BY <1>2, <1>5, <1>8 DEF LayerOf
  <2>2. d[1] \in S /\ e[1] \in S
    BY <1>4, <2>1
  <2> QED BY <1>2, <1>4, <1>7, <2>1, <2>2
<1>9. CASE ~AllEqual(c) /\ SameConstructor(c)
  <2>1. c[1].con = "app"
    BY <1>3, <1>9 DEF SameConstructor
  <2>2. ~SameKeys(c, columns)
    BY <1>3, <2>1 DEF SameKeys
  <2>3. g[c] = [c[1] EXCEPT !.args = [k \in DOMAIN c[1].args |-> g[Argument(c, k)]]]
    BY <1>5, <1>9, <2>2 DEF LayerOf
  <2>4. g[c].entries = {}
    BY <1>4, <2>1, <2>3 DEF Tree
  <2> QED BY <2>4
<1>10. CASE ~AllEqual(c) /\ ~SameConstructor(c) /\ SameKeys(c, columns)
  <2>1. g[c] = [c[1] EXCEPT !.entries = {<<g[KeyColumn(c, columns, key)], g[ValueColumn(c, columns, key)]>> :
                     key \in Keys(c[1])}]
    BY <1>5, <1>10 DEF LayerOf
  <2>2. g[c].entries = {<<g[KeyColumn(c, columns, key)], g[ValueColumn(c, columns, key)]>> :
                     key \in Keys(c[1])}
    BY <1>4, <2>1 DEF Tree
  <2>3. PICK j \in Keys(c[1]) : d = <<g[KeyColumn(c, columns, j)], g[ValueColumn(c, columns, j)]>>
    BY <2>2
  <2>4. PICK k \in Keys(c[1]) : e = <<g[KeyColumn(c, columns, k)], g[ValueColumn(c, columns, k)]>>
    BY <2>2
  <2>5. KeyColumn(c, columns, j) \in C /\ KeyColumn(c, columns, k) \in C
    BY <1>3, <1>10, EntriesAreColumns
  <2>6. KeyColumn(c, columns, j)[i] = KeyColumn(c, columns, k)[i]
    BY <1>1, <1>2, <2>3, <2>4, <2>5
  <2>7. j = k
    BY <1>3, <1>10, <2>6 DEF SameKeys
  <2> QED BY <2>3, <2>4, <2>7
<1>11. CASE ~AllEqual(c) /\ ~SameConstructor(c) /\ ~SameKeys(c, columns)
  <2>1. g[c] = Fresh(c, columns)
    BY <1>5, <1>11 DEF LayerOf
  <2>2. g[c].entries = {}
    BY <2>1 DEF Fresh, Hole, Tree
  <2> QED BY <2>2
<1> QED BY <1>8, <1>9, <1>10, <1>11

--------------------------------------------------------------------------------
(* Templates recovered                                                        *)

\* A set of patterns, with the patterns they are made of, whose holes are parameters.
IsTemplate(Q, columns) ==
    /\ Grounded(Q) /\ Shaped(Q)
    /\ \A q \in Q : /\ q.con \in {"app", "atom", "map", "hole"}
                    /\ q.con = "hole" => \E m \in DOMAIN columns : q = Hole(m, columns[m][1].sort)

\* Each h[i] the instances at the parameters of observation i.
InstancesOf(h, S, Q, columns, n) ==
    \A i \in 1 .. n : /\ Fills(h[i], Q, ParameterRow(columns, i))
                     /\ \A q \in Q : /\ h[i][q] \in S
                                     /\ \A d, e \in q.entries : h[i][d[1]] = h[i][e[1]] => d = e

\* The column of a pattern's instances.
Observations(h, n, q) == [i \in 1 .. n |-> h[i][q]]

\* One layer of the instances.
InstanceLayer(h, q, columns, n) ==
    /\ q.con = "hole" => /\ q.atom[2] \in DOMAIN columns
                         /\ q = Hole(q.atom[2], columns[q.atom[2]][1].sort)
                         /\ \A i \in 1 .. n : h[i][q] = columns[q.atom[2]][i]
    /\ q.con # "hole" => \A i \in 1 .. n : h[i][q] = Rebuilt(h[i], q)

\* Every pattern of a template has such instances.
LEMMA InstanceLayers ==
    ASSUME NEW S, NEW n \in Nat \ {0}, NEW columns, NEW Q, IsTemplate(Q, columns),
           NEW h, InstancesOf(h, S, Q, columns, n), NEW q \in Q
    PROVE  Observations(h, n, q) \in ColumnsOf(S, n) /\ InstanceLayer(h, q, columns, n)
<1>1. ASSUME NEW i \in 1 .. n
      PROVE  /\ h[i][q] \in S
             /\ q.con = "hole" => h[i][q] = ParameterRow(columns, i)[q.atom[2]]
             /\ q.con # "hole" => h[i][q] = Rebuilt(h[i], q)
  <2>1. Fills(h[i], Q, ParameterRow(columns, i)) /\ h[i][q] \in S
    BY DEF InstancesOf
  <2> QED BY <2>1, FillStep
<1>2. ASSUME q.con = "hole"
      PROVE  q.atom[2] \in DOMAIN columns /\ q = Hole(q.atom[2], columns[q.atom[2]][1].sort)
  <2>1. PICK m \in DOMAIN columns : q = Hole(m, columns[m][1].sort)
    BY <1>2 DEF IsTemplate
  <2>2. q.atom[2] = m
    BY <2>1 DEF Hole, Tree
  <2> QED BY <2>1, <2>2
<1> QED BY <1>1, <1>2 DEF Observations, ColumnsOf, ParameterRow, InstanceLayer

\* An atom of a template is the same in every row.
LEMMA ConstantLeaf ==
    ASSUME NEW S, NEW n \in Nat \ {0}, NEW columns, NEW Q, IsTemplate(Q, columns),
           NEW h, InstancesOf(h, S, Q, columns, n), NEW q \in Q, q.con = "atom"
    PROVE  \A i \in 1 .. n : h[i][q] = q
<1>1. q = Tree(q.con, q.sort, q.atom, q.args, q.entries) /\ q.args = <<>> /\ q.entries = {}
  BY SyntaxFields DEF IsTemplate
<1>2. InstanceLayer(h, q, columns, n)
  BY InstanceLayers
<1>3. TAKE i \in 1 .. n
<1>4. h[i][q] = Rebuilt(h[i], q)
  BY <1>2 DEF InstanceLayer
<1> QED BY <1>1, <1>4, RebuiltLeaf

\* A pattern whose instances are all one has no hole: independent parameters show.
LEMMA ConstantIsGround ==
    ASSUME NEW S, Syntax(S), NEW n \in Nat \ {0}, NEW columns, ParametersIn(columns, S, n),
           Independent(columns, n), NEW Q, IsTemplate(Q, columns), NEW h, InstancesOf(h, S, Q, columns, n),
           KeysSeparate(h, Q, columns, n)
    PROVE  \A q \in Q : AllEqual(Observations(h, n, q)) => h[1][q] = q
<1> DEFINE bad == {q \in Q : AllEqual(Observations(h, n, q)) /\ h[1][q] # q}
<1>1. SUFFICES ASSUME bad # {} PROVE FALSE
  OBVIOUS
<1>2. PICK q \in bad : Parts(q) \cap bad = {}
  BY <1>1 DEF IsTemplate, Grounded
<1>0. 1 \in 1 .. n
  OBVIOUS
<1>3. /\ q \in Q /\ AllEqual(Observations(h, n, q)) /\ h[1][q] # q /\ 1 \in 1 .. n
      /\ \A i \in 1 .. n : h[i][q] = h[1][q]
  BY <1>0 DEF AllEqual, Observations
<1>i. \A p \in Q : InstanceLayer(h, p, columns, n)
  BY InstanceLayers
<1>4. \A p \in Q : p \in Parts(q) /\ (\A i \in 1 .. n : h[i][p] = h[1][p]) => h[1][p] = p
  BY <1>2 DEF AllEqual, Observations
<1> HIDE DEF bad
<1>5. q.con # "hole"
  <2>1. SUFFICES ASSUME q.con = "hole" PROVE FALSE
    OBVIOUS
  <2>2. q.atom[2] \in DOMAIN columns /\ \A i \in 1 .. n : h[i][q] = columns[q.atom[2]][i]
    BY <1>3, <2>1, <1>i DEF InstanceLayer
  <2>3. AllEqual(columns[q.atom[2]])
    BY <1>3, <2>2 DEF AllEqual, ParametersIn, ColumnsOf
  <2> QED BY <2>2, <2>3 DEF Independent
<1>6. \A i \in 1 .. n : h[i][q] = Rebuilt(h[i], q)
  BY <1>3, <1>5, <1>i DEF InstanceLayer
<1>7. Shaped(Q)
  BY DEF IsTemplate
<1>8. /\ q = Tree(q.con, q.sort, q.atom, q.args, q.entries)
      /\ q.args \in Seq(Q) /\ q.entries \in SUBSET (Q \X Q)
      /\ \A k \in DOMAIN q.args : q.args[k] \in Q /\ q.args[k] \in Parts(q)
      /\ \A e \in q.entries : /\ e[1] \in Q /\ e[2] \in Q /\ e = <<e[1], e[2]>>
                             /\ e[1] \in Parts(q) /\ e[2] \in Parts(q)
  BY <1>3, <1>7, SyntaxFields
<1>9. \A i \in 1 .. n : /\ h[i][q].args = [k \in DOMAIN q.args |-> h[i][q.args[k]]]
                       /\ h[i][q].entries = {<<h[i][e[1]], h[i][e[2]]>> : e \in q.entries}
  <2>1. TAKE i \in 1 .. n
  <2>2. h[i][q].args = FilledArgs(h[i], q) /\ h[i][q].entries = FilledEntries(h[i], q)
    BY <1>6, <1>8, RebuiltFields
  <2> QED BY <2>2 DEF FilledArgs, FilledEntries
<1>10. \A k \in DOMAIN q.args : h[1][q.args[k]] = q.args[k]
  <2>1. TAKE k \in DOMAIN q.args
  <2>2. ASSUME NEW i \in 1 .. n PROVE h[i][q.args[k]] = h[1][q.args[k]]
    <3>1. h[i][q].args[k] = h[i][q.args[k]] /\ h[1][q].args[k] = h[1][q.args[k]]
      BY <1>3, <1>9
    <3> QED BY <1>3, <3>1
  <2> QED BY <1>4, <1>8, <2>2
<1>11. ASSUME NEW e \in q.entries PROVE \A i \in 1 .. n : h[i][e[1]] = e[1]
  <2>1. CASE e[1].con = "atom"
    <3>1. TAKE i \in 1 .. n
    <3>2. h[i][e[1]] = Rebuilt(h[i], e[1])
      BY <1>8, <2>1, <1>i DEF InstanceLayer
    <3>3. /\ e[1] = Tree(e[1].con, e[1].sort, e[1].atom, e[1].args, e[1].entries)
          /\ e[1].args = <<>> /\ e[1].entries = {} /\ e[1].args \in Seq(Q)
      BY <1>7, <1>8, <2>1, SyntaxFields
    <3>4. Rebuilt(h[i], e[1]) = e[1]
      <4> DEFINE p == e[1]
      <4>1. p = Tree(p.con, p.sort, p.atom, p.args, p.entries) /\ p.args = <<>> /\ p.entries = {}
        BY <3>3
      <4> HIDE DEF p
      <4>2. Rebuilt(h[i], p) = p
        BY <4>1, RebuiltLeaf
      <4> QED BY <4>2 DEF p
    <3> QED BY <3>2, <3>4
  <2>2. CASE e[1].con = "hole"
    <3>1. PICK i \in 1 .. n : columns[e[1].atom[2]][i] \notin Keys(h[1][q])
      BY <1>3, <2>2 DEF KeysSeparate
    <3>2. h[i][e[1]] = columns[e[1].atom[2]][i]
      BY <1>8, <2>2, <1>i DEF InstanceLayer
    <3>3. <<h[i][e[1]], h[i][e[2]]>> \in h[i][q].entries
      BY <1>9
    <3>4. h[i][e[1]] \in Keys(h[i][q])
      BY <3>3 DEF Keys
    <3> QED BY <1>3, <3>1, <3>2, <3>4
  <2> QED BY <1>3, <2>1, <2>2 DEF KeysSeparate
<1>12. ASSUME NEW e \in q.entries PROVE h[1][e[2]] = e[2]
  <2>1. ASSUME NEW i \in 1 .. n PROVE h[i][e[2]] = h[1][e[2]]
    <3>1. <<e[1], h[i][e[2]]>> \in h[i][q].entries /\ <<e[1], h[1][e[2]]>> \in h[1][q].entries
      BY <1>3, <1>9, <1>11
    <3>2. h[1][q] \in S
      BY <1>3 DEF InstancesOf
    <3>3. \A a, b \in h[1][q].entries : a[1] = b[1] => a = b
      BY <3>2 DEF Syntax
    <3> DEFINE x == <<e[1], h[i][e[2]]>>
               y == <<e[1], h[1][e[2]]>>
    <3>4. x \in h[1][q].entries /\ y \in h[1][q].entries /\ x[1] = y[1]
      BY <1>3, <3>1
    <3>5. x = y
      BY <3>3, <3>4
    <3> QED BY <3>5
  <2> QED BY <1>4, <1>8, <2>1
<1>13. Rebuilt(h[1], q) = q
  <2>1. \A e \in q.entries : h[1][e[1]] = e[1] /\ h[1][e[2]] = e[2]
    BY <1>3, <1>11, <1>12
  <2> QED BY <1>8, <1>10, <2>1, RebuiltSame
<1> QED BY <1>3, <1>6, <1>13

\* A map with its keys filled differently keeps its size.
LEMMA FilledCount ==
    ASSUME NEW f, NEW p, IsFiniteSet(p.entries),
           \A d, e \in p.entries : f[d[1]] = f[e[1]] => d = e
    PROVE  Cardinality(FilledEntries(f, p)) = Cardinality(p.entries)
<1> DEFINE m == [e \in p.entries |-> <<f[e[1]], f[e[2]]>>]
           T == FilledEntries(f, p)
<1>1. m \in [p.entries -> T] /\ \A t \in T : \E e \in p.entries : m[e] = t
  BY DEF FilledEntries
<1>2. \A d, e \in p.entries : m[d] = m[e] => d = e
  OBVIOUS
<1> HIDE DEF m, T
<1>3. m \in Surjection(p.entries, T) /\ m \in Injection(p.entries, T)
  BY <1>1, <1>2, Fun_IsSurj, Fun_IsInj
<1>4. Cardinality(T) = Cardinality(p.entries)
  BY <1>3, FS_Surjection
<1> QED BY <1>4 DEF T

\* The entries of a template's map are aligned as they were in the template.
LEMMA TemplateEntries ==
    ASSUME NEW S, Syntax(S), NEW n \in Nat \ {0}, NEW columns, ParametersIn(columns, S, n),
           NEW Q, IsTemplate(Q, columns), NEW h, InstancesOf(h, S, Q, columns, n),
           KeysSeparate(h, Q, columns, n), NEW q \in Q, q.con = "map", NEW e \in q.entries
    PROVE  /\ h[1][e[1]] \in Keys(Observations(h, n, q)[1])
           /\ Cardinality(Signatures(h[1][e[1]], columns)) <= 1
           /\ KeyColumn(Observations(h, n, q), columns, h[1][e[1]]) = Observations(h, n, e[1])
           /\ ValueColumn(Observations(h, n, q), columns, h[1][e[1]]) = Observations(h, n, e[2])
<1> DEFINE c == Observations(h, n, q)
<1>0. 1 \in 1 .. n /\ DOMAIN c = 1 .. n /\ \A i \in 1 .. n : c[i] = h[i][q]
  BY DEF Observations
<1>1. Shaped(Q)
  BY DEF IsTemplate
<1>2. /\ q = Tree(q.con, q.sort, q.atom, q.args, q.entries)
      /\ e[1] \in Q /\ e[2] \in Q
  BY <1>1, SyntaxFields
<1>3. InstanceLayer(h, e[1], columns, n) /\ InstanceLayer(h, q, columns, n)
  BY <1>2, InstanceLayers
<1>4. \A i \in 1 .. n : h[i][q].entries = FilledEntries(h[i], q)
  <2>1. TAKE i \in 1 .. n
  <2>2. h[i][q] = Rebuilt(h[i], q)
    BY <1>3 DEF InstanceLayer
  <2> QED BY <1>2, <2>2, RebuiltFields
<1>5. \A i \in 1 .. n : <<h[i][e[1]], h[i][e[2]]>> \in c[i].entries
  BY <1>0, <1>4 DEF FilledEntries
<1> HIDE DEF c
<1>6. \A i \in 1 .. n : h[i][e[1]] \in Keys(c[i])
  <2>1. TAKE i \in 1 .. n
  <2> DEFINE x == <<h[i][e[1]], h[i][e[2]]>>
  <2>2. x \in c[i].entries /\ x[1] = h[i][e[1]]
    BY <1>5
  <2> HIDE DEF x
  <2> QED BY <2>2 DEF Keys
<1>7. ASSUME NEW i \in 1 .. n PROVE ValueOf(c[i], h[i][e[1]]) = h[i][e[2]]
  <2>1. PICK d \in c[i].entries : d[1] = h[i][e[1]] /\ ValueOf(c[i], h[i][e[1]]) = d[2]
    BY <1>6, ValueOfEntry
  <2>2. c[i] \in S
    BY <1>0 DEF InstancesOf
  <2>3. \A a, b \in c[i].entries : a[1] = b[1] => a = b
    BY <2>2 DEF Syntax
  <2> DEFINE x == <<h[i][e[1]], h[i][e[2]]>>
  <2>4. x \in c[i].entries /\ x[1] = d[1] /\ x[2] = h[i][e[2]]
    BY <1>5, <2>1
  <2>5. x = d
    BY <2>1, <2>3, <2>4
  <2> QED BY <2>1, <2>4, <2>5
<1>8. /\ Cardinality(Signatures(h[1][e[1]], columns)) <= 1
      /\ KeyColumn(c, columns, h[1][e[1]]) = Observations(h, n, e[1])
  <2>1. CASE e[1].con = "atom" /\ Signatures(e[1], columns) = {}
    <3>1. \A i \in 1 .. n : h[i][e[1]] = e[1]
      <4>1. TAKE i \in 1 .. n
      <4>2. h[i][e[1]] = Rebuilt(h[i], e[1])
        BY <1>3, <2>1 DEF InstanceLayer
      <4> DEFINE p == e[1]
      <4>3. p = Tree(p.con, p.sort, p.atom, p.args, p.entries) /\ p.args = <<>> /\ p.entries = {}
        BY <1>1, <1>2, <2>1, SyntaxFields
      <4> HIDE DEF p
      <4>4. Rebuilt(h[i], p) = p
        BY <4>3, RebuiltLeaf
      <4> QED BY <4>2, <4>4 DEF p
    <3>2. h[1][e[1]] = e[1] /\ Signatures(h[1][e[1]], columns) = {}
      BY <1>0, <2>1, <3>1
    <3>3. KeyColumn(c, columns, h[1][e[1]]) = [i \in 1 .. n |-> h[1][e[1]]]
      BY <1>0, <3>2 DEF KeyColumn
    <3>4. Cardinality(Signatures(h[1][e[1]], columns)) = 0
      BY <3>2, FS_EmptySet
    <3> QED BY <3>1, <3>2, <3>3, <3>4 DEF Observations
  <2>2. CASE e[1].con = "hole" /\ Signatures(h[1][e[1]], columns) = {columns[e[1].atom[2]]}
    <3> DEFINE m == e[1].atom[2]
    <3>1. m \in DOMAIN columns /\ \A i \in 1 .. n : h[i][e[1]] = columns[m][i]
      BY <1>3, <2>2 DEF InstanceLayer
    <3>2. columns[m] = Observations(h, n, e[1])
      BY <3>1 DEF ParametersIn, ColumnsOf, Observations
    <3>3. KeyColumn(c, columns, h[1][e[1]]) = columns[m]
      BY <2>2 DEF KeyColumn
    <3>4. Cardinality(Signatures(h[1][e[1]], columns)) = 1
      BY <2>2, FS_Singleton
    <3> QED BY <3>2, <3>3, <3>4
  <2> QED BY <2>1, <2>2 DEF KeysSeparate
<1>9. ValueColumn(c, columns, h[1][e[1]]) = Observations(h, n, e[2])
  <2>1. \A i \in 1 .. n : ValueOf(c[i], KeyColumn(c, columns, h[1][e[1]])[i]) = h[i][e[2]]
    BY <1>7, <1>8 DEF Observations
  <2> QED BY <1>0, <2>1 DEF ValueColumn, Observations
<1> QED BY <1>0, <1>6, <1>8, <1>9 DEF c

\* The pattern of a template's instances is the template: at independent parameters, with
\* keys that separate, generalising finds exactly the holes there were (algebra_property_test.py,
\* the law of held-out observations). So what it instantiates at a row never observed is what
\* the template would.
THEOREM TemplateIsRecovered ==
    ASSUME NEW S, Syntax(S), NEW n \in Nat \ {0}, NEW columns, ParametersIn(columns, S, n),
           Independent(columns, n), NEW g, Generalizes(g, ColumnsOf(S, n), columns),
           NEW Q, IsTemplate(Q, columns), NEW h, InstancesOf(h, S, Q, columns, n),
           KeysSeparate(h, Q, columns, n)
    PROVE  \A q \in Q : g[Observations(h, n, q)] = q
<1> DEFINE bad == {q \in Q : g[Observations(h, n, q)] # q}
<1>1. SUFFICES ASSUME bad # {} PROVE FALSE
  OBVIOUS
<1>2. PICK q \in bad : Parts(q) \cap bad = {}
  BY <1>1 DEF IsTemplate, Grounded
<1>3. q \in Q /\ g[Observations(h, n, q)] # q /\ \A p \in Q : p \in Parts(q) => g[Observations(h, n, p)] = p
  BY <1>2
<1> HIDE DEF bad
<1> DEFINE c == Observations(h, n, q)
<1>0. 1 \in 1 .. n /\ DOMAIN c = 1 .. n /\ (\A i \in 1 .. n : c[i] = h[i][q]) /\ Shaped(Q)
  BY DEF Observations, IsTemplate
<1>4. c \in ColumnsOf(S, n) /\ InstanceLayer(h, q, columns, n)
  BY <1>3, InstanceLayers
<1>5. /\ q = Tree(q.con, q.sort, q.atom, q.args, q.entries)
      /\ q.args \in Seq(Q) /\ q.entries \in SUBSET (Q \X Q) /\ IsFiniteSet(q.entries)
      /\ (q.con # "app" => q.args = <<>>) /\ (q.con # "map" => q.entries = {})
      /\ \A k \in DOMAIN q.args : q.args[k] \in Q /\ q.args[k] \in Parts(q)
      /\ \A e \in q.entries : /\ e[1] \in Q /\ e[2] \in Q /\ e = <<e[1], e[2]>>
                             /\ e[1] \in Parts(q) /\ e[2] \in Parts(q)
  BY <1>0, <1>3, SyntaxFields
<1>6. LayerOf(g, c, columns)
  BY <1>4, GenStep
<1>7. ~AllEqual(c)
  <2>1. SUFFICES ASSUME AllEqual(c) PROVE FALSE
    OBVIOUS
  <2>2. h[1][q] = q
    BY <1>3, <2>1, ConstantIsGround
  <2>3. g[c] = c[1]
    BY <1>6, <2>1 DEF LayerOf
  <2> QED BY <1>0, <1>3, <2>2, <2>3
<1>8. q.con \in {"app", "atom", "map", "hole"}
  BY <1>3 DEF IsTemplate
<1> HIDE DEF c
<1>9. ASSUME q.con # "hole", NEW i \in 1 .. n
      PROVE  /\ c[i] = Rebuilt(h[i], q) /\ c[i].con = q.con /\ c[i].sort = q.sort /\ c[i].atom = q.atom
             /\ c[i].args = FilledArgs(h[i], q) /\ c[i].entries = FilledEntries(h[i], q)
             /\ c[i] = Tree(q.con, q.sort, q.atom, FilledArgs(h[i], q), FilledEntries(h[i], q))
  <2>1. c[i] = Rebuilt(h[i], q)
    BY <1>0, <1>4, <1>9 DEF InstanceLayer
  <2> QED BY <1>5, <2>1, RebuiltFields
<1>10. CASE q.con = "hole"
  <2> DEFINE m == q.atom[2]
  <2>1. m \in DOMAIN columns /\ q = Hole(m, columns[m][1].sort) /\ \A i \in 1 .. n : c[i] = columns[m][i]
    BY <1>0, <1>4, <1>10 DEF InstanceLayer
  <2>2. c = columns[m]
    BY <1>4, <2>1 DEF ParametersIn, ColumnsOf
  <2>3. c[1].con = "atom"
    BY <1>0, <2>1, <2>2 DEF Independent
  <2>4. ~SameConstructor(c) /\ ~SameKeys(c, columns)
    BY <1>0, <2>3 DEF SameConstructor, SameKeys
  <2>5. g[c] = Fresh(c, columns)
    BY <1>6, <1>7, <2>4 DEF LayerOf
  <2>6. {l \in DOMAIN columns : columns[l] = c} = {m}
    BY <2>1, <2>2 DEF Independent
  <2>7. HoleName(c, columns) = m
    BY <2>6, FS_Singleton DEF HoleName
  <2>8. Fresh(c, columns) = q
    BY <2>1, <2>2, <2>7 DEF Fresh
  <2> QED BY <1>3, <2>5, <2>8 DEF c
<1>11. CASE q.con = "app"
  <2>1. SameConstructor(c)
    <3>1. \A i \in 1 .. n : c[i].con = "app" /\ c[i].sort = q.sort /\ c[i].atom = q.atom
                           /\ Len(c[i].args) = Len(q.args)
      <4>1. TAKE i \in 1 .. n
      <4>2. c[i].args = [k \in DOMAIN q.args |-> h[i][q.args[k]]]
        BY <1>9, <1>11 DEF FilledArgs
      <4>3. Len(q.args) \in Nat /\ DOMAIN q.args = 1 .. Len(q.args)
        BY <1>5
      <4>4. Len(c[i].args) = Len(q.args)
        BY <4>2, <4>3
      <4> QED BY <1>9, <1>11, <4>4
    <3> QED BY <1>0, <3>1 DEF SameConstructor
  <2>2. ~SameKeys(c, columns)
    BY <1>0, <1>9, <1>11 DEF SameKeys
  <2>3. g[c] = [c[1] EXCEPT !.args = [k \in DOMAIN c[1].args |-> g[Argument(c, k)]]]
    BY <1>6, <1>7, <2>1, <2>2 DEF LayerOf
  <2>4. DOMAIN c[1].args = DOMAIN q.args
    BY <1>0, <1>9, <1>11 DEF FilledArgs
  <2>5. \A k \in DOMAIN q.args : g[Argument(c, k)] = q.args[k]
    <3>1. TAKE k \in DOMAIN q.args
    <3>2. \A i \in 1 .. n : c[i].args[k] = h[i][q.args[k]]
      BY <1>9, <1>11 DEF FilledArgs
    <3>3. Argument(c, k) = Observations(h, n, q.args[k])
      BY <1>0, <3>2 DEF Argument, Observations
    <3> QED BY <1>3, <1>5, <3>3
  <2>6. [k \in DOMAIN c[1].args |-> g[Argument(c, k)]] = q.args
    BY <1>5, <2>4, <2>5
  <2>7. g[c] = [c[1] EXCEPT !.args = q.args]
    BY <2>3, <2>6
  <2>8. FilledEntries(h[1], q) = q.entries
    BY <1>5, <1>11 DEF FilledEntries
  <2>9. c[1] = Tree(q.con, q.sort, q.atom, FilledArgs(h[1], q), q.entries)
    BY <1>0, <1>9, <1>11, <2>8
  <2>10. g[c] = Tree(q.con, q.sort, q.atom, q.args, q.entries)
    BY <2>7, <2>9 DEF Tree
  <2> QED BY <1>3, <1>5, <2>10 DEF c
<1>12. CASE q.con = "atom"
  <2>1. q.args = <<>> /\ q.entries = {}
    BY <1>5, <1>12
  <2>2. ASSUME NEW i \in 1 .. n PROVE c[i] = q
    BY <1>5, <1>9, <1>12, <2>1, RebuiltLeaf
  <2> QED BY <1>0, <1>7, <2>2 DEF AllEqual
<1>13. CASE q.con = "map"
  <2>1. ASSUME NEW e \in q.entries
        PROVE  /\ h[1][e[1]] \in Keys(c[1])
               /\ Cardinality(Signatures(h[1][e[1]], columns)) <= 1
               /\ KeyColumn(c, columns, h[1][e[1]]) = Observations(h, n, e[1])
               /\ ValueColumn(c, columns, h[1][e[1]]) = Observations(h, n, e[2])
    BY <1>3, <1>13, TemplateEntries DEF c
  <2>2. \A key \in Keys(c[1]) : \E e \in q.entries : key = h[1][e[1]]
    <3>1. TAKE key \in Keys(c[1])
    <3>2. PICK d \in FilledEntries(h[1], q) : d[1] = key
      BY <1>0, <1>9, <1>13 DEF Keys
    <3> QED BY <3>2 DEF FilledEntries
  <2>3. ASSUME NEW i \in 1 .. n
        PROVE  /\ Cardinality(c[i].entries) = Cardinality(q.entries)
               /\ \A d, e \in q.entries : h[i][d[1]] = h[i][e[1]] => d = e
               /\ \A e \in q.entries : h[i][e[1]] \in Keys(c[i])
    <3>1. \A d, e \in q.entries : h[i][d[1]] = h[i][e[1]] => d = e
      BY <1>3 DEF InstancesOf
    <3>2. Cardinality(FilledEntries(h[i], q)) = Cardinality(q.entries)
      BY <1>5, <3>1, FilledCount
    <3>3. \A e \in q.entries : h[i][e[1]] \in Keys(c[i])
      <4>1. TAKE e \in q.entries
      <4> DEFINE x == <<h[i][e[1]], h[i][e[2]]>>
      <4>2. x \in c[i].entries /\ x[1] = h[i][e[1]]
        BY <1>9, <1>13 DEF FilledEntries
      <4> HIDE DEF x
      <4> QED BY <4>2 DEF Keys
    <3> QED BY <1>9, <1>13, <3>1, <3>2, <3>3
  <2>4. SameKeys(c, columns)
    <3>1. \A i \in 1 .. n :
             /\ c[i].con = "map" /\ c[i].sort = c[1].sort /\ c[i].atom = c[1].atom
             /\ Cardinality(c[i].entries) = Cardinality(c[1].entries)
      BY <1>0, <1>9, <1>13, <2>3
    <3>2. ASSUME NEW key \in Keys(c[1])
          PROVE  /\ Cardinality(Signatures(key, columns)) <= 1
                 /\ \A i \in 1 .. n :
                      /\ KeyColumn(c, columns, key)[i] \in Keys(c[i])
                      /\ \A other \in Keys(c[1]) \ {key} :
                            KeyColumn(c, columns, key)[i] # KeyColumn(c, columns, other)[i]
      <4>1. PICK e \in q.entries : key = h[1][e[1]]
        BY <2>2
      <4>2. ASSUME NEW i \in 1 .. n
            PROVE  KeyColumn(c, columns, key)[i] = h[i][e[1]]
        <5>1. KeyColumn(c, columns, key) = Observations(h, n, e[1])
          BY <2>1, <4>1
        <5> QED BY <5>1 DEF Observations
      <4>3. ASSUME NEW i \in 1 .. n, NEW other \in Keys(c[1]) \ {key}
            PROVE  KeyColumn(c, columns, key)[i] # KeyColumn(c, columns, other)[i]
        <5>1. PICK d \in q.entries : other = h[1][d[1]]
          BY <2>2
        <5>2. KeyColumn(c, columns, other)[i] = h[i][d[1]]
          BY <2>1, <5>1 DEF Observations
        <5> QED BY <2>3, <4>1, <4>2, <5>1, <5>2
      <4> QED BY <2>1, <2>3, <4>1, <4>2, <4>3
    <3> QED BY <1>0, <3>1, <3>2 DEF SameKeys
  <2>5. ~SameConstructor(c)
    BY <1>0, <1>9, <1>13 DEF SameConstructor
  <2>6. g[c] = [c[1] EXCEPT !.entries =
                   {<<g[KeyColumn(c, columns, key)], g[ValueColumn(c, columns, key)]>> : key \in Keys(c[1])}]
    BY <1>6, <1>7, <2>4, <2>5 DEF LayerOf
  <2>7. {<<g[KeyColumn(c, columns, key)], g[ValueColumn(c, columns, key)]>> : key \in Keys(c[1])}
          = q.entries
    <3>1. ASSUME NEW e \in q.entries
          PROVE  /\ h[1][e[1]] \in Keys(c[1])
                 /\ <<g[KeyColumn(c, columns, h[1][e[1]])], g[ValueColumn(c, columns, h[1][e[1]])]>> = e
      <4>1. g[Observations(h, n, e[1])] = e[1] /\ g[Observations(h, n, e[2])] = e[2]
        BY <1>3, <1>5
      <4> QED BY <1>5, <2>1, <4>1
    <3> QED BY <2>2, <3>1
  <2>8. g[c] = [c[1] EXCEPT !.entries = q.entries]
    BY <2>6, <2>7
  <2>9. FilledArgs(h[1], q) = q.args
    BY <1>5, <1>13 DEF FilledArgs
  <2>10. c[1] = Tree(q.con, q.sort, q.atom, q.args, FilledEntries(h[1], q))
    BY <1>0, <1>9, <1>13, <2>9
  <2>11. g[c] = Tree(q.con, q.sort, q.atom, q.args, q.entries)
    BY <2>8, <2>10 DEF Tree
  <2> QED BY <1>3, <1>5, <2>11 DEF c
<1> QED BY <1>8, <1>10, <1>11, <1>12, <1>13

--------------------------------------------------------------------------------
(* The rows of a structural case separate                                     *)

\* The separating rows of a structural case separate the keys of its template.
LEMMA CaseKeysSeparate ==
    ASSUME form \in Forms, arguments \in StructuralCases(form), HasCanonical(arguments),
           NEW S, NEW n \in Nat \ {0}, NEW columns, Independent(columns, n),
           NEW Q, IsTemplate(Q, columns), NEW h, InstancesOf(h, S, Q, columns, n),
           NEW variable, NEW seen,
           OfCase(form, Separating(arguments, Canonical(arguments)), Slots(arguments.domains),
                  variable, seen, n, columns, Q)
    PROVE  KeysSeparate(h, Q, columns, n)
<1> DEFINE rows == Separating(arguments, Canonical(arguments))
           places == Slots(arguments.domains)
           at(i, k) == Parent(rows[k][i])
           varies(i) == \E k \in DOMAIN rows : at(i, k) # at(i, 1)
           column(i) == RegisterColumn(variable, rows, seen, n, i)
<1>1. \A i \in places :
        /\ \A j \in places : at(i, 1) = at(j, 1) => \A k \in DOMAIN rows : at(i, k) = at(j, k)
        /\ varies(i) =>
             /\ \E k \in DOMAIN rows : \A j \in places : at(i, k) # at(j, 1)
             /\ \A k \in DOMAIN rows : at(i, k) \notin form.implicit
  BY RowsAreTold DEF RowsTellApart
<1>2. OfCase(form, rows, places, variable, seen, n, columns, Q)
  OBVIOUS
<1> HIDE DEF rows, places
<1>3. /\ \A p, q \in DOMAIN variable : variable[p] = variable[q] => p = q
      /\ \A p \in DOMAIN variable : variable[p].con = "atom"
      /\ \A k \in DOMAIN rows : \A i \in places : at(i, k) \in DOMAIN variable
      /\ seen \in [1 .. n -> DOMAIN rows] /\ seen[1] = 1 /\ 1 \in 1 .. n /\ 1 \in DOMAIN rows
      /\ \A r \in DOMAIN rows : \E k \in 1 .. n : seen[k] = r
      /\ \A m \in DOMAIN columns :
            \/ \E i \in places : columns[m] = column(i)
            \/ \A p \in DOMAIN variable : columns[m][1] # variable[p]
      /\ \A q \in Q : \A e \in q.entries :
            \/ e[1].con = "hole" /\ \E i \in places : columns[e[1].atom[2]] = column(i)
            \/ \E p \in DOMAIN variable : e[1] = variable[p] /\ Fixed(p, form, rows, places)
  <2>1. 1 \in 1 .. n
    OBVIOUS
  <2> QED BY <1>2, <2>1 DEF OfCase
<1>c. ASSUME NEW x \in Q, x.con = "atom", NEW k \in 1 .. n PROVE h[k][x] = x
  BY <1>c, ConstantLeaf
<1>d. \A p, q \in DOMAIN variable : variable[p] = variable[q] => p = q
  BY <1>3
<1>4. \A i \in places : \A k \in 1 .. n : column(i)[k] = variable[at(i, seen[k])]
  BY DEF RegisterColumn
<1>5. ASSUME NEW i \in places, NEW m \in DOMAIN columns, columns[m] = column(i) PROVE varies(i)
  <2>1. PICK k \in 1 .. n : columns[m][k] # columns[m][1]
    BY <1>5 DEF Independent, AllEqual, RegisterColumn
  <2>2. at(i, seen[k]) # at(i, 1) /\ seen[k] \in DOMAIN rows
    BY <1>3, <1>4, <1>5, <2>1
  <2> QED BY <2>2
<1>6. ASSUME NEW i \in places, NEW p, varies(i), at(i, 1) = p PROVE ~Fixed(p, form, rows, places)
  BY <1>1, <1>3, <1>6 DEF Fixed
<1>7. ASSUME NEW i \in places, varies(i), NEW r \in DOMAIN rows, \A j \in places : at(i, r) # at(j, 1),
             NEW p, Fixed(p, form, rows, places)
      PROVE  at(i, r) # p
  BY <1>1, <1>3, <1>7 DEF Fixed
<1>8. ASSUME NEW i \in places, NEW m \in DOMAIN columns, columns[m] = column(i)
      PROVE  Signatures(columns[m][1], columns) = {columns[m]}
  <2>1. ASSUME NEW l \in DOMAIN columns, columns[l][1] = columns[m][1] PROVE columns[l] = columns[m]
    <3>1. columns[l][1] = variable[at(i, 1)] /\ at(i, 1) \in DOMAIN variable
      BY <1>3, <1>4, <1>8, <2>1
    <3>2. PICK j \in places : columns[l] = column(j)
      BY <1>3, <3>1
    <3>3. columns[l][1] = variable[at(j, 1)] /\ at(j, 1) \in DOMAIN variable
      BY <1>3, <1>4, <3>2
    <3>4. at(j, 1) = at(i, 1)
      BY <1>3, <3>1, <3>3
    <3>5. \A k \in 1 .. n : at(i, seen[k]) = at(j, seen[k])
      BY <1>1, <1>3, <3>4
    <3>6. column(i) = column(j)
      BY <3>5 DEF RegisterColumn
    <3> QED BY <1>8, <3>2, <3>6
  <2> QED BY <2>1 DEF Signatures
<1>9. ASSUME NEW q \in Q, NEW e \in q.entries
      PROVE  /\ q.con = "map" /\ e[1] \in Q /\ InstanceLayer(h, e[1], columns, n)
             /\ h[1][q].entries = FilledEntries(h[1], q)
  <2>1. Shaped(Q)
    BY DEF IsTemplate
  <2>2. q = Tree(q.con, q.sort, q.atom, q.args, q.entries) /\ q.con = "map" /\ e[1] \in Q
    BY <2>1, <1>9, SyntaxFields
  <2>3. InstanceLayer(h, e[1], columns, n) /\ InstanceLayer(h, q, columns, n)
    BY <2>2, InstanceLayers
  <2>4. h[1][q] = Rebuilt(h[1], q)
    BY <1>3, <2>2, <2>3 DEF InstanceLayer
  <2> QED BY <2>2, <2>3, <2>4, RebuiltFields
<1> HIDE DEF column
<1>10. SUFFICES ASSUME NEW q \in Q, NEW e \in q.entries
               PROVE  \/ e[1].con = "atom" /\ Signatures(e[1], columns) = {}
                      \/ /\ e[1].con = "hole"
                         /\ Signatures(h[1][e[1]], columns) = {columns[e[1].atom[2]]}
                         /\ \E k \in 1 .. n : columns[e[1].atom[2]][k] \notin Keys(h[1][q])
  BY DEF KeysSeparate
<1>11. ASSUME NEW p \in DOMAIN variable, e[1] = variable[p], Fixed(p, form, rows, places)
       PROVE  e[1].con = "atom" /\ Signatures(e[1], columns) = {}
  <2>1. e[1].con = "atom"
    BY <1>3, <1>11
  <2>2. ASSUME NEW l \in DOMAIN columns, columns[l][1] = e[1] PROVE FALSE
    <3>1. PICK j \in places : columns[l] = column(j)
      BY <1>3, <1>11, <2>2
    <3>2. columns[l][1] = variable[at(j, 1)] /\ at(j, 1) \in DOMAIN variable
      BY <1>3, <1>4, <3>1
    <3>3. at(j, 1) = p
      <4>1. variable[at(j, 1)] = variable[p]
        BY <1>11, <2>2, <3>2
      <4> QED BY <1>d, <1>11, <3>2, <4>1
    <3>4. varies(j)
      BY <1>5, <3>1
    <3> QED BY <1>6, <1>11, <3>3, <3>4
  <2> QED BY <2>1, <2>2 DEF Signatures
<1>12. ASSUME e[1].con = "hole", NEW i \in places, columns[e[1].atom[2]] = column(i)
       PROVE  /\ Signatures(h[1][e[1]], columns) = {columns[e[1].atom[2]]}
              /\ \E k \in 1 .. n : columns[e[1].atom[2]][k] \notin Keys(h[1][q])
  <2> DEFINE m == e[1].atom[2]
  <2>1. m \in DOMAIN columns /\ h[1][e[1]] = columns[m][1]
    BY <1>3, <1>9, <1>12 DEF InstanceLayer
  <2>2. Signatures(h[1][e[1]], columns) = {columns[m]}
    BY <1>8, <1>12, <2>1
  <2>3. varies(i)
    BY <1>5, <1>12, <2>1
  <2>4. PICK r \in DOMAIN rows : \A j \in places : at(i, r) # at(j, 1)
    BY <1>1, <2>3
  <2>5. PICK k \in 1 .. n : seen[k] = r
    BY <1>3
  <2>6. columns[m][k] = variable[at(i, r)] /\ at(i, r) \in DOMAIN variable
    BY <1>3, <1>4, <1>12, <2>5
  <2>7. ASSUME NEW d \in q.entries PROVE h[1][d[1]] # variable[at(i, r)]
    <3>1. InstanceLayer(h, d[1], columns, n) /\ d[1] \in Q
      BY <1>9
    <3>2. ASSUME NEW p \in DOMAIN variable, d[1] = variable[p], Fixed(p, form, rows, places)
          PROVE  h[1][d[1]] # variable[at(i, r)]
      <4>1. d[1].con = "atom"
        BY <1>3, <3>2
      <4>2. h[1][d[1]] = d[1]
        BY <1>3, <1>c, <3>1, <4>1
      <4>3. at(i, r) # p
        BY <1>7, <2>3, <2>4, <3>2
      <4> QED BY <1>3, <2>6, <3>2, <4>2, <4>3
    <3>3. ASSUME d[1].con = "hole", NEW j \in places, columns[d[1].atom[2]] = column(j)
          PROVE  h[1][d[1]] # variable[at(i, r)]
      <4>1. h[1][d[1]] = columns[d[1].atom[2]][1]
        BY <1>3, <3>1, <3>3 DEF InstanceLayer
      <4>2. h[1][d[1]] = variable[at(j, 1)] /\ at(j, 1) \in DOMAIN variable
        BY <1>3, <1>4, <3>3, <4>1
      <4> QED BY <1>3, <2>4, <2>6, <4>2
    <3> QED BY <1>3, <3>2, <3>3
  <2>8. columns[m][k] \notin Keys(h[1][q])
    <3>1. ASSUME NEW x \in h[1][q].entries PROVE x[1] # columns[m][k]
      <4>1. PICK d \in q.entries : x = <<h[1][d[1]], h[1][d[2]]>>
        BY <1>9, <3>1 DEF FilledEntries
      <4> QED BY <2>6, <2>7, <4>1
    <3> QED BY <3>1 DEF Keys
  <2> QED BY <2>2, <2>8
<1> QED BY <1>3, <1>11, <1>12

\* A structural case observed at its separating rows gives back the template that its models
\* are instances of, whatever the template, the bank and the form: no implicit register, no
\* alias and no exchange of two registers is mistaken for another (ArgumentCase.separating,
\* antiunify_many).
THEOREM CaseRecoversTemplate ==
    ASSUME form \in Forms, arguments \in StructuralCases(form), HasCanonical(arguments),
           NEW S, Syntax(S), NEW n \in Nat \ {0}, NEW columns, ParametersIn(columns, S, n),
           Independent(columns, n), NEW g, Generalizes(g, ColumnsOf(S, n), columns),
           NEW Q, IsTemplate(Q, columns), NEW h, InstancesOf(h, S, Q, columns, n),
           NEW variable, NEW seen,
           OfCase(form, Separating(arguments, Canonical(arguments)), Slots(arguments.domains),
                  variable, seen, n, columns, Q)
    PROVE  \A q \in Q : g[Observations(h, n, q)] = q
<1>1. KeysSeparate(h, Q, columns, n)
  BY CaseKeysSeparate
<1> QED BY <1>1, TemplateIsRecovered
=============================================================================
