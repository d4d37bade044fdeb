---------------------------- MODULE MCTemplates ----------------------------
(* Words of four bits over two-bit bytes; five registers, three of them with a *)
(* high half, which no encoding has together with d or its low half (as AH has  *)
(* no encoding with R8).                                                        *)
EXTENDS Templates

HighBytes == {"ah", "bh", "ch"}
Views == << "a", "b", "c", "d", "e", "al", "ah", "bl", "bh", "cl", "ch", "dl", "rip", "k1" >>
Parents == << "a", "b", "c", "d", "e", "a", "a", "b", "b", "c", "c", "d", "rip", "k1" >>
MCBank ==
    [i \in 1 .. 14 |->
        [name |-> Views[i], parent |-> Parents[i], high |-> Views[i] \in HighBytes,
         class |-> CASE i = 13 -> "IP" [] i = 14 -> "MASK" [] OTHER -> "GPR",
         width |-> IF i \in 6 .. 12 THEN 2 ELSE 4]]
MCDeclarations == <<<<"a", 4>>, <<"b", 4>>, <<"c", 4>>, <<"d", 4>>, <<"e", 4>>,
                    <<"memory", Memory>>, <<"rip", 4>>>>
MCEncodes(f, values) ==
    /\ \A i \in DOMAIN values : f.args[i].kind = "number" => values[i] \in f.args[i].low .. f.args[i].high
    /\ ~\E i, j \in DOMAIN values : /\ f.args[i].kind = "register" /\ View(values[i]).high
                                    /\ f.args[j].kind = "register" /\ Parent(values[j]) = "d"

Register(field, class, width, role) ==
    [field |-> field, kind |-> "register", class |-> class, width |-> width, role |-> role,
     nonzero |-> FALSE, choices |-> {}, low |-> 0, high |-> 0]
Full(field) == Register(field, "GPR", 4, "operand")
Half(field) == Register(field, "GPR", 2, "operand")
Range_(field, low, high) ==
    [field |-> field, kind |-> "number", choices |-> {}, low |-> low, high |-> high,
     encoded |-> 3, signed |-> low < 0]
Choice(field, kind, choices) ==
    [field |-> field, kind |-> kind, choices |-> choices, low |-> 0, high |-> 0]
Form(id, args) ==
    [id |-> id, args |-> args, implicit |-> {}, bytes |-> 0, length |-> 3, parametric |-> TRUE]

Imm == Range_("IMM0", -4, 3)
Disp == Range_("DISP", 0, 3)
Memory2(f) == [f EXCEPT !.bytes = 2]
MCForms ==
    { Form("mov", <<Half("REG0"), Half("REG1")>>),
      Form("muladd", <<Full("REG0"), Full("REG1")>>),
      Form("xchg", <<Full("REG0"), Full("REG1")>>),
      Form("addimm", <<Full("REG0"), Imm>>),
      [Form("subimm", <<Full("REG0"), Imm>>) EXCEPT !.parametric = FALSE],
      [Form("mul", <<Full("REG0")>>) EXCEPT !.implicit = {"a"}],
      Memory2(Form("load", <<Full("REG0"), Register("BASE0", "GPR", 4, "base"), Disp>>)),
      Memory2(Form("store", <<Register("BASE0", "GPR", 4, "base"), Disp, Imm>>)),
      \* base = index is normalised to (1 + scale) * index: no parameter's number
      [Form("lea", <<Full("REG0"), Register("BASE0", "GPR", 4, "base"),
                     Register("INDEX", "GPR", 4, "index"),
                     Choice("SCALE", "scale", {1, 2, 4, 8})>>)
          EXCEPT !.bytes = 2, !.parametric = FALSE],
      Form("branch", <<Choice("MODE", "mode", {0, 1}), Range_("RELBR", -2, 3)>>),
      Form("call", <<Range_("RELBR", -2, 3)>>),
      Form("kmov", <<Register("REG0", "MASK", 4, "operand")>>) }

Arg(f, values, field) == values[CHOOSE i \in DOMAIN values : f.args[i].field = field]
Lit(v) == BvLit(Word, v % 2 ^ Word)
Read(value) ==
    LET r == View(value)
        parent == Var(r.parent, Word)
    IN CASE r.width = Word -> parent
         [] r.high -> Extract(2 * Byte - 1, Byte, parent)
         [] OTHER -> Extract(Byte - 1, 0, parent)
Joined(high, low) == Term("concat", Word, "", <<>>, <<high, low>>)
Written(value, t) ==
    LET r == View(value)
        parent == Var(r.parent, Word)
    IN CASE r.width = Word -> t
         [] r.high -> Joined(t, Extract(Byte - 1, 0, parent))
         [] OTHER -> Joined(Extract(2 * Byte - 1, Byte, parent), t)
Mem == Var("memory", Memory)
At(base, offset) == Binary("bv_add", base, Lit(offset))
Stored(n, address(_)) ==
    Store(Store(Mem, address(0), Extract(Byte - 1, 0, Lit(n))),
          address(1), Extract(2 * Byte - 1, Byte, Lit(n)))

MCDirect(f, values, source) ==
    LET next == (source + f.length) % 2 ^ Word
        V(field) == Arg(f, values, field)
        R(field) == Read(V(field))
        immediate == Immediate(Imm, V("IMM0")) % 2 ^ Word
        target == (next + V("RELBR")) % 2 ^ Word
        place(k) == IF View(V("BASE0")).name = "rip" THEN Lit(next + V("DISP") + k)
                    ELSE At(R("BASE0"), V("DISP") + k)
        base == IF View(V("BASE0")).name = "rip" THEN Lit(next) ELSE R("BASE0")
        written == CASE f.id = "mov" -> {<<V("REG0"), R("REG1")>>}
              [] f.id = "muladd" -> {<<V("REG0"), Binary("bv_sub",
                     Binary("bv_mul", R("REG0"), R("REG1")), R("REG0"))>>}
              [] f.id = "xchg" -> {<<V("REG0"), R("REG1")>>, <<V("REG1"), R("REG0")>>}
              [] f.id = "addimm" -> {<<V("REG0"), Binary("bv_add", R("REG0"), Lit(immediate))>>}
              [] f.id = "subimm" -> {<<V("REG0"), Binary("bv_sub", R("REG0"), Lit(immediate))>>}
              [] f.id = "mul" -> {<<1, Binary("bv_mul", Var("a", Word), R("REG0"))>>}
              [] f.id = "load" -> {<<V("REG0"), Joined(Select(Mem, place(1)), Select(Mem, place(0)))>>}
              [] f.id = "lea" -> {<<V("REG0"), Binary("bv_add", base,
                     Binary("bv_mul", R("INDEX"), Lit(V("SCALE"))))>>}
              [] f.id = "call" -> {<<4, At(Var("d", Word), -2)>>}
              [] f.id \in {"store", "branch"} -> {}
        memory == CASE f.id = "store" -> Stored(immediate, place)
                    [] f.id = "call" -> Stored(next, LAMBDA k : At(Var("d", Word), k - 2))
                    [] OTHER -> Mem
        goal == IF f.id = "call" THEN target ELSE next
        Step(guard, to) ==
            [guard |-> guard, target |-> <<"address", Lit(to)>>, pc |-> Lit(to),
             updates |-> [n \in {d[1] : d \in {MCDeclarations[i] : i \in DOMAIN MCDeclarations}} |->
                 CASE n = "rip" -> Lit(to)
                   [] n = "memory" -> memory
                   [] \E w \in written : Parent(w[1]) = n ->
                        LET w == CHOOSE x \in written : Parent(x[1]) = n IN Written(w[1], w[2])
                   [] OTHER -> Var(n, Word)]]
        zero == Predicate("eq", <<Var(IF V("MODE") = 0 THEN "c" ELSE "b", Word), Lit(0)>>)
    IN [source |-> source,
        steps |-> IF f.id = "branch"
                  THEN <<Step(zero, target), Step(Predicate("bool_not", <<zero>>), next)>>
                  ELSE <<Step(BoolLit(1), goal)>>]

LowRequests(f) ==
    {v \in AllAssignments(f) :
        \A i \in DOMAIN v : f.args[i].kind = "register" => ~View(v[i]).high}
AllRequests(f) == AllAssignments(f)
MCHighForms == {f \in MCForms : f.id \in {"mov", "xchg"}}
=============================================================================
