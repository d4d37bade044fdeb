----------------------------- MODULE TypedTerms -----------------------------
(***************************************************************************)
(* The typed expressions of an instruction model (extractor/artifact.py      *)
(* TypedExpr), how they are obtained from solver expressions                  *)
(* (extractor/typed_z3.py), how they are evaluated                            *)
(* (extractor/concrete_eval.py) and normalised (extractor/normalization.py).  *)
(*                                                                         *)
(* A term is a record of its operator, its sort, a name, its numbers and its  *)
(* arguments.  A sort is the width of a bit-vector, Bool, or Memory.  A       *)
(* Boolean value is 0 or 1.                                                   *)
(***************************************************************************)
EXTENDS Integers, Sequences, FiniteSets
LOCAL INSTANCE SequencesExt
LOCAL INSTANCE Functions

CONSTANTS Word,   \* the width of registers and addresses
          Byte    \* the width of a cell of memory

ASSUME WidthAssumption == Byte \in Nat \ {0} /\ Word \in Nat /\ Word % Byte = 0

Bool == 0
Memory == -1
MemoryName == "memory"

Term(op, sort, name, nums, args) ==
    [op |-> op, sort |-> sort, name |-> name, nums |-> nums, args |-> args]
Var(name, sort) == Term("var", sort, name, <<>>, <<>>)
BoolLit(value) == Term("bool_lit", Bool, "", <<value>>, <<>>)
BvLit(width, value) == Term("bv_lit", width, "", <<value>>, <<>>)
Binary(op, left, right) == Term(op, left.sort, "", <<>>, <<left, right>>)
Predicate(op, args) == Term(op, Bool, "", <<>>, args)
Ite(guard, yes, no) == Term("ite", yes.sort, "", <<>>, <<guard, yes, no>>)
Extract(hi, lo, of) == Term("extract", hi - lo + 1, "", <<hi, lo>>, <<of>>)
Extend(op, amount, of) == Term(op, of.sort + amount, "", <<amount>>, <<of>>)
Select(array, index) == Term("select", Byte, "", <<>>, <<array, index>>)
Store(array, index, value) == Term("store", Memory, "", <<>>, <<array, index, value>>)

Arithmetic == {"bv_add", "bv_sub", "bv_mul", "bv_udiv", "bv_urem", "bv_and", "bv_or",
               "bv_xor", "bv_shl", "bv_lshr", "bv_ashr"}
Comparisons == {"bv_ult", "bv_ule", "bv_slt", "bv_sle"}
IsBv(sort) == sort > 0

\* TypedExpr.__post_init__: what a typed expression may be made of.
RECURSIVE WellFormed(_)
WellFormed(t) ==
    LET sorts == [i \in DOMAIN t.args |-> t.args[i].sort]
    IN  /\ \A i \in DOMAIN t.args : WellFormed(t.args[i])
        /\ CASE t.op = "var" -> sorts = <<>>
             [] t.op = "bool_lit" -> t.sort = Bool /\ t.nums \in {<<0>>, <<1>>}
             [] t.op = "bv_lit" -> IsBv(t.sort) /\ t.nums[1] \in 0 .. 2 ^ t.sort - 1
             [] t.op = "bool_not" -> t.sort = Bool /\ sorts = <<Bool>>
             [] t.op = "bv_not" -> IsBv(t.sort) /\ sorts = <<t.sort>>
             [] t.op \in {"bool_and", "bool_or"} -> t.sort = Bool /\ sorts = <<Bool, Bool>>
             [] t.op \in Arithmetic -> IsBv(t.sort) /\ sorts = <<t.sort, t.sort>>
             [] t.op \in Comparisons ->
                    t.sort = Bool /\ Len(sorts) = 2 /\ sorts[1] = sorts[2] /\ IsBv(sorts[1])
             [] t.op = "eq" ->
                    t.sort = Bool /\ Len(sorts) = 2 /\ sorts[1] = sorts[2] /\ sorts[1] # Memory
             [] t.op = "ite" -> sorts = <<Bool, t.sort, t.sort>>
             [] t.op \in {"zero_extend", "sign_extend"} ->
                    /\ t.nums[1] > 0 /\ Len(sorts) = 1 /\ IsBv(sorts[1])
                    /\ t.sort = sorts[1] + t.nums[1]
             [] t.op = "extract" ->
                    /\ Len(sorts) = 1 /\ IsBv(sorts[1])
                    /\ 0 <= t.nums[2] /\ t.nums[2] <= t.nums[1] /\ t.nums[1] < sorts[1]
                    /\ t.sort = t.nums[1] - t.nums[2] + 1
             [] t.op = "concat" ->
                    Len(sorts) = 2 /\ IsBv(sorts[1]) /\ IsBv(sorts[2])
                    /\ t.sort = sorts[1] + sorts[2]
             [] t.op = "select" -> t.sort = Byte /\ sorts = <<Memory, Word>>
             [] t.op = "store" -> t.sort = Memory /\ sorts = <<Memory, Word, Byte>>
             [] OTHER -> FALSE

RECURSIVE VariablesOf(_)
VariablesOf(t) ==
    IF t.op = "var" THEN {<<t.name, t.sort>>}
    ELSE UNION {VariablesOf(t.args[i]) : i \in DOMAIN t.args}

-----------------------------------------------------------------------------
(* Solver expressions: terms whose operators also take several arguments.     *)

FoldLeftOp(op, args) == FoldLeft(LAMBDA l, r : Binary(op, l, r), args[1], Tail(args))
Concat(l, r) == Term("concat", l.sort + r.sort, "", <<>>, <<l, r>>)
FoldBool(op, args, identity) == IF args = <<>> THEN BoolLit(identity) ELSE FoldLeftOp(op, args)

\* expr_from_z3: the typed expression of a solver expression.
RECURSIVE FromZ3(_)
FromZ3(e) ==
    LET a == [i \in DOMAIN e.args |-> FromZ3(e.args[i])]
    IN  CASE e.op = "and" -> FoldBool("bool_and", a, 1)
          [] e.op = "or" -> FoldBool("bool_or", a, 0)
          [] e.op = "eq" -> FoldBool("bool_and",
                 [i \in 1 .. Len(a) - 1 |-> Predicate("eq", <<a[1], a[i + 1]>>)], 1)
          [] e.op \in {"bv_add", "bv_mul", "bv_and", "bv_or", "bv_xor"} -> FoldLeftOp(e.op, a)
          [] e.op = "bv_uge" -> Predicate("bv_ule", <<a[2], a[1]>>)
          [] e.op = "distinct" -> Predicate("bool_not", <<Predicate("eq", a)>>)
          [] e.op = "concat" -> FoldLeft(Concat, a[1], Tail(a))
          [] OTHER -> [e EXCEPT !.args = a]

\* z3.substitute of one variable.
RECURSIVE Substitute(_, _, _)
Substitute(e, name, by) ==
    IF e.op = "var" THEN (IF e.name = name THEN by ELSE e)
    ELSE [e EXCEPT !.args = [i \in DOMAIN e.args |-> Substitute(e.args[i], name, by)]]

-----------------------------------------------------------------------------
(* Concrete evaluation                                                       *)

\* ConcreteArray: a default and the cells that differ from it.
Cells(values) == [default |-> 0,
                  values |-> Restrict(values, {i \in DOMAIN values : values[i] # 0})]
SelectCell(array, index) ==
    IF index \in DOMAIN array.values THEN array.values[index] ELSE array.default
StoreCell(array, index, value) ==
    LET kept == IF value = array.default THEN DOMAIN array.values \ {index}
                ELSE DOMAIN array.values \cup {index}
    IN [array EXCEPT !.values =
            [i \in kept |-> IF i = index THEN value ELSE array.values[i]]]

Signed(value, width) == IF value >= 2 ^ (width - 1) THEN value - 2 ^ width ELSE value
Truth(b) == IF b THEN 1 ELSE 0
BitAt(x, i) == (x \div 2 ^ i) % 2
And == [p \in (0 .. 1) \X (0 .. 1) |-> p[1] * p[2]]
Or == [p \in (0 .. 1) \X (0 .. 1) |-> Truth(p[1] + p[2] > 0)]
Xor == [p \in (0 .. 1) \X (0 .. 1) |-> (p[1] + p[2]) % 2]
Combined(x, y, width, op) ==
    FoldFunction(LAMBDA v, s : v + s, 0,
                 [i \in 0 .. width - 1 |-> 2 ^ i * op[BitAt(x, i), BitAt(y, i)]])

\* evaluator: the value of a term, of its width.
RECURSIVE Evaluate(_, _)
Evaluate(t, environment) ==
    LET a == [i \in DOMAIN t.args |-> Evaluate(t.args[i], environment)]
        width == t.args[1].sort
        mask == 2 ^ t.sort - 1
        result ==
          CASE t.op = "bv_not" -> mask - a[1]
            [] t.op = "bv_add" -> a[1] + a[2]
            [] t.op = "bv_sub" -> a[1] - a[2]
            [] t.op = "bv_mul" -> a[1] * a[2]
            [] t.op = "bv_udiv" -> IF a[2] # 0 THEN a[1] \div a[2] ELSE mask
            [] t.op = "bv_urem" -> IF a[2] # 0 THEN a[1] % a[2] ELSE a[1]
            [] t.op = "bv_and" -> Combined(a[1], a[2], width, And)
            [] t.op = "bv_or" -> Combined(a[1], a[2], width, Or)
            [] t.op = "bv_xor" -> Combined(a[1], a[2], width, Xor)
            [] t.op = "bv_shl" -> IF a[2] < width THEN a[1] * 2 ^ a[2] ELSE 0
            [] t.op = "bv_lshr" -> IF a[2] < width THEN a[1] \div 2 ^ a[2] ELSE 0
            [] t.op = "bv_ashr" ->
                   Signed(a[1], width) \div 2 ^ (IF a[2] < width THEN a[2] ELSE width)
            [] t.op = "zero_extend" -> a[1]
            [] t.op = "sign_extend" -> Signed(a[1], width)
            [] t.op = "extract" -> a[1] \div 2 ^ t.nums[2]
            [] t.op = "concat" -> a[1] * 2 ^ t.args[2].sort + a[2]
    IN  CASE t.op = "var" -> environment[t.name]
          [] t.op \in {"bool_lit", "bv_lit"} -> t.nums[1]
          [] t.op = "ite" -> IF a[1] = 1 THEN a[2] ELSE a[3]
          [] t.op = "bool_not" -> 1 - a[1]
          [] t.op = "bool_and" -> a[1] * a[2]
          [] t.op = "bool_or" -> Truth(a[1] + a[2] > 0)
          [] t.op = "eq" -> Truth(a[1] = a[2])
          [] t.op = "store" -> StoreCell(a[1], a[2], a[3])
          [] t.op = "select" -> SelectCell(a[1], a[2])
          [] t.op = "bv_ult" -> Truth(a[1] < a[2])
          [] t.op = "bv_ule" -> Truth(a[1] <= a[2])
          [] t.op = "bv_slt" -> Truth(Signed(a[1], width) < Signed(a[2], width))
          [] t.op = "bv_sle" -> Truth(Signed(a[1], width) <= Signed(a[2], width))
          [] OTHER -> result % 2 ^ t.sort

-----------------------------------------------------------------------------
(* Normalisation                                                             *)

\* The operators in the alphabetical order the keys compare them in.
Operators == <<"bool_and", "bool_lit", "bool_not", "bool_or", "bv_add", "bv_and",
    "bv_ashr", "bv_lit", "bv_lshr", "bv_mul", "bv_not", "bv_or", "bv_shl", "bv_sle",
    "bv_slt", "bv_sub", "bv_udiv", "bv_ule", "bv_ult", "bv_urem", "bv_xor", "concat",
    "eq", "extract", "ite", "select", "sign_extend", "store", "var", "zero_extend">>
OperatorRank == [o \in Range(Operators) |-> CHOOSE i \in DOMAIN Operators : Operators[i] = o]

\* order_key, as a sequence of numbers of which none is a prefix of another.
\* A label is a number; names without one come after those that have one.
RECURSIVE OrderKey(_, _)
OrderKey(t, labels) ==
    <<OperatorRank[t.op], t.sort, IF t.op = "var" THEN labels[t.name] ELSE 0>>
        \o t.nums
        \o FoldLeft(LAMBDA k, a : k \o OrderKey(a, labels), <<>>, t.args)
Before(left, right, labels) ==
    LET l == OrderKey(left, labels)
        r == OrderKey(right, labels)
    IN \E i \in DOMAIN l \cap DOMAIN r :
          l[i] < r[i] /\ \A j \in 1 .. i - 1 : l[j] = r[j]

\* Mutant of Complement: a literal is negated instead.
ComplementNegates(value) ==
    CASE value.op = "bv_not" -> value.args[1]
      [] value.op = "bv_lit" -> BvLit(value.sort, (2 ^ value.sort - value.nums[1]) % 2 ^ value.sort)
      [] OTHER -> Term("bv_not", value.sort, "", <<>>, <<value>>)

Complement(value) ==
    CASE value.op = "bv_not" -> value.args[1]
      [] value.op = "bv_lit" -> BvLit(value.sort, 2 ^ value.sort - 1 - value.nums[1])
      [] OTHER -> Term("bv_not", value.sort, "", <<>>, <<value>>)

\* scaling: <<factor, term>> when the node is a multiple by a constant.
NotScaled == <<>>
Scaling(node) ==
    LET l == node.args[1]
        r == node.args[2]
    IN  CASE node.op = "bv_mul" /\ l.op = "bv_lit" -> <<l.nums[1], r>>
          [] node.op = "bv_mul" /\ l.op # "bv_lit" /\ r.op = "bv_lit" -> <<r.nums[1], l>>
          [] node.op = "bv_shl" /\ r.op = "bv_lit" ->
                 <<IF r.nums[1] < node.sort THEN 2 ^ r.nums[1] ELSE 0, l>>
          [] /\ node.op = "concat" /\ l.op = "extract" /\ r.op = "bv_lit"
             /\ r.nums = <<0>> /\ l.args[1].sort = node.sort
             /\ l.nums = <<node.sort - r.sort - 1, 0>> -> <<2 ^ r.sort, l.args[1]>>
          [] OTHER -> NotScaled

\* collect: the summands of a term as <<coefficient, term>>, literals as
\* <<value, None>>.
Constant == Term("constant", Bool, "", <<>>, <<>>)
RECURSIVE Collect(_, _)
Collect(term, coefficient) ==
    LET scaled == Scaling(term)
    IN  CASE term.op = "bv_lit" -> << <<coefficient * term.nums[1], Constant>> >>
          [] term.op = "bv_add" ->
                 Collect(term.args[1], coefficient) \o Collect(term.args[2], coefficient)
          [] term.op = "bv_sub" ->
                 Collect(term.args[1], coefficient) \o Collect(term.args[2], -coefficient)
          [] term.op \notin {"bv_lit", "bv_add", "bv_sub"} /\ scaled # NotScaled ->
                 Collect(scaled[2], coefficient * scaled[1])
          [] OTHER -> << <<coefficient, term>> >>

\* arithmetic: the sum of each term with its coefficient, the constant last.
SumOver(summands, term) ==
    FoldLeft(LAMBDA s, x : IF x[2] = term THEN s + x[1] ELSE s, 0, summands)
LinearSum(node, labels) ==
    LET width == node.sort
        summands == Collect(node, 1)
        total(term) == SumOver(summands, term) % 2 ^ width
        terms == {s[2] : s \in Range(summands)} \ {Constant}
        kept == SetToSortSeq({t \in terms : total(t) # 0},
                             LAMBDA l, r : Before(l, r, labels))
        products == [i \in DOMAIN kept |->
                        Binary("bv_mul", BvLit(width, total(kept[i])), kept[i])]
    IN FoldLeftOp("bv_add",
          IF total(Constant) # 0 \/ kept = <<>>
          THEN Append(products, BvLit(width, total(Constant))) ELSE products)

NormalizeXor(node) ==
    LET l == node.args[1]
        r == node.args[2]
        ones == 2 ^ node.sort - 1
        Is(t, v) == t.op = "bv_lit" /\ t.nums[1] = v
    IN  CASE l = r -> BvLit(node.sort, 0)
          [] l # r /\ l.op = "bv_lit" /\ r.op = "bv_lit" ->
                 BvLit(node.sort, Combined(l.nums[1], r.nums[1], node.sort, Xor))
          [] OTHER -> CASE Is(l, 0) -> r
                        [] Is(l, ones) -> Complement(r)
                        [] Is(r, 0) -> l
                        [] Is(r, ones) -> Complement(l)
                        [] OTHER -> node

\* normalize_expression, bottom up.
RECURSIVE Normalize(_, _)
Normalize(node, labels) ==
    LET args == [i \in DOMAIN node.args |-> Normalize(node.args[i], labels)]
        plain == [node EXCEPT !.args = args]
        value == CASE node.op = "bv_not" -> Complement(args[1])
                   [] node.op = "bv_mul" /\ Before(args[2], args[1], labels) ->
                          [plain EXCEPT !.args = <<args[2], args[1]>>]
                   [] node.op = "bv_xor" -> NormalizeXor(plain)
                   [] OTHER -> plain
        scaled == Len(value.args) = 2 /\ IsBv(value.sort) /\ Scaling(value) # NotScaled
    IN IF value.op \in {"bv_add", "bv_sub"} \/ scaled THEN LinearSum(value, labels)
       ELSE value

\* normalize_model
NormalizeStep(step, labels) ==
    [guard |-> Normalize(step.guard, labels), pc |-> Normalize(step.pc, labels),
     updates |-> [n \in DOMAIN step.updates |-> Normalize(step.updates[n], labels)],
     target |-> IF step.target[1] = "symbolic"
                THEN <<step.target[1], Normalize(step.target[2], labels)>> ELSE step.target]
NormalizeModel(steps, labels) == [i \in DOMAIN steps |-> NormalizeStep(steps[i], labels)]
=============================================================================
