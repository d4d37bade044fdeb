--------------------------- MODULE AntiUnification ---------------------------
(***************************************************************************)
(* Anti-unification of instruction models (antiunification/many.py,           *)
(* algebra.py) over their exposed syntax (extractor/model_syntax.py).  The     *)
(* layers of a tree are those of Patterns.                                    *)
(***************************************************************************)
EXTENDS TypedTerms, Patterns
LOCAL INSTANCE SequencesExt
LOCAL INSTANCE Functions

CONSTANT Declarations  \* the declared names in their order, as <<name, sort>>

Leaf(kind, termSort, name, value) ==
    Atom(<<kind, termSort>>, <<kind, name, value>>)
Variable(name, sort) == Leaf("variable", sort, name, 0)
Literal(sort, value) == Leaf("literal", sort, "", value)
Address(value) == Leaf("address", Word, "", value)
ExpressionSort(sort) == <<"expression", sort>>
NaturalKinds(op) == IF op = "extract" THEN <<"hi", "lo">> ELSE <<"amount">>

-----------------------------------------------------------------------------
(* Exposing and reconstructing                                               *)

\* QFAbvSyntax.expose
RECURSIVE ExposeTerm(_)
ExposeTerm(t) ==
    App(ExpressionSort(t.sort), t.op,
        CASE t.op = "var" -> <<Variable(t.name, t.sort)>>
          [] t.op \in {"bv_lit", "bool_lit"} -> <<Literal(t.sort, t.nums[1])>>
          [] OTHER -> [i \in DOMAIN t.args |-> ExposeTerm(t.args[i])]
                        \o [i \in DOMAIN t.nums |->
                               Leaf("natural", Bool, NaturalKinds(t.op)[i], t.nums[i])])
ExposeTarget(target) ==
    CASE target[1] = "address" -> App(<<"target", Bool>>, "address", <<Address(target[2].nums[1])>>)
      [] target[1] = "symbolic" -> App(<<"target", Bool>>, "symbolic", <<ExposeTerm(target[2])>>)
      [] OTHER -> App(<<"target", Bool>>, target[1], <<>>)

\* SparseWrites: the writes that change something.
SparseWrites(updates) == {d \in Range(Declarations) : updates[d[1]] # Var(d[1], d[2])}
ExposeStep(step) ==
    App(<<"step", Bool>>, "step",
        <<ExposeTerm(step.guard),
          FiniteMap(<<"writes", Bool>>,
                    {<<Variable(d[1], d[2]), ExposeTerm(step.updates[d[1]])>> :
                        d \in SparseWrites(step.updates)}),
          ExposeTarget(step.target), ExposeTerm(step.pc)>>)
Expose(model) ==
    App(<<"model", Bool>>, "instruction_model",
        <<Address(model.source),
          App(<<"steps", Bool>>, "steps",
              [i \in DOMAIN model.steps |-> ExposeStep(model.steps[i])])>>)

\* QFAbvSyntax.reconstruct, _reconstruct_expression: of an exposed term with
\* variables and literals of the right sorts.
RECURSIVE TermOf(_)
TermOf(tree) ==
    LET sub == SelectSeq(tree.args, LAMBDA a : a.con = "app")
        naturals == SelectSeq(tree.args, LAMBDA a : a.con = "atom")
        leaf == tree.args[1].atom
    IN  CASE tree.atom[1] = "var" -> Var(leaf[2], tree.sort[2])
          [] tree.atom[1] \in {"bv_lit", "bool_lit"} ->
                 Term(tree.atom[1], tree.sort[2], "", <<leaf[3]>>, <<>>)
          [] OTHER -> Term(tree.atom[1], tree.sort[2], "",
                           [i \in DOMAIN naturals |-> naturals[i].atom[3]],
                           [i \in DOMAIN sub |-> TermOf(sub[i])])
TargetOf(tree) ==
    CASE tree.atom[1] = "address" -> <<"address", BvLit(Word, tree.args[1].atom[3])>>
      [] tree.atom[1] = "symbolic" -> <<"symbolic", TermOf(tree.args[1])>>
      [] OTHER -> <<tree.atom[1]>>

\* _reconstruct_step: what is not written keeps its value.
StepOf(tree) ==
    LET writes == tree.args[2].entries
        written(name) == {write \in writes : write[1].atom[2] = name}
    IN [guard |-> TermOf(tree.args[1]),
        updates |-> [name \in {d[1] : d \in Range(Declarations)} |->
            LET sort == (CHOOSE d \in Range(Declarations) : d[1] = name)[2]
            IN IF written(name) = {} THEN Var(name, sort)
               ELSE TermOf((CHOOSE write \in written(name) : TRUE)[2])],
        target |-> TargetOf(tree.args[3]), pc |-> TermOf(tree.args[4])]
Reconstruct(tree) ==
    [source |-> tree.args[1].atom[3],
     steps |-> [i \in DOMAIN tree.args[2].args |-> StepOf(tree.args[2].args[i])]]

-----------------------------------------------------------------------------
(* Generalisation                                                            *)

\* antiunify_many: the pattern of a column of trees.
RECURSIVE Generalized(_, _)
Generalized(column, columns) ==
    Generalize1(column, columns, LAMBDA below : Generalized(below, columns))

RECURSIVE HolesOf(_)
HolesOf(pattern) ==
    {name \in {pattern.atom[2]} : pattern.con = "hole"}
        \cup UNION {HolesOf(part) : part \in Parts(pattern)}

\* A pattern and all it is made of.
RECURSIVE WithParts(_)
WithParts(pattern) == {pattern} \cup UNION {WithParts(part) : part \in Parts(pattern)}

\* Generalization.instantiate, before reconstruction.
RECURSIVE Filled(_, _)
Filled(pattern, row) == Fill1(pattern, row, LAMBDA below : Filled(below, row))

\* What reconstruction refuses: a register written twice in one step.
RECURSIVE Malformed(_, _)
Malformed(pattern, row) ==
    \/ \E d, e \in pattern.entries : d # e /\ Filled(d[1], row) = Filled(e[1], row)
    \/ \E part \in Parts(pattern) : Malformed(part, row)

\* The end of antiunify_many: every observation is reconstructed.
Reconstructs(pattern, row, model) ==
    ~Malformed(pattern, row) /\ Reconstruct(Filled(pattern, row)) = model
=============================================================================
