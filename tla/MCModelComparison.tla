------------------------- MODULE MCModelComparison -------------------------
(* Words of three bits over one-bit bytes: eight addresses, a word is three     *)
(* bytes, the two bytes of the instruction wrap around the end of memory.       *)
EXTENDS ModelComparison

MCRegisters == {"a", "b"}
MCRegisterOrder == [r \in MCRegisters |-> IF r = "a" THEN 1 ELSE 2]
MCFlagBit == [f \in {"CF", "DF", "AC"} |-> CASE f = "CF" -> 0 [] f = "DF" -> 1 [] OTHER -> 2]
MCNames == <<"a", "b", "memory", "AC", "CF", "DF", "rip">>
MCNameOrder == [n \in {MCNames[i] : i \in DOMAIN MCNames} |->
                   CHOOSE i \in DOMAIN MCNames : MCNames[i] = n]
MCCode == <<1, 0>>
MCData == {<<1, 0, 1>>}

A == Var("a", Word)
B == Var("b", Word)
Lit(v) == BvLit(Word, v)
Put_(r, v) == [kind |-> "put", to |-> r, value |-> v]
Load_(r, a, n) == [kind |-> "load", to |-> r, address |-> a, size |-> n]
Store_(a, v, n) ==
    [kind |-> "store", address |-> a, value |-> v, size |-> n, scratch |-> FALSE]
Exit_(g, j) == [kind |-> "exit", guard |-> g, jump |-> j, goal |-> Lit(5)]
NoLayout == [base |-> "none", index |-> "none", scale |-> 1, disp |-> 0]
Fall == [jump |-> "boring", goal |-> Lit(1)]
Jump == [jump |-> "boring", goal |-> A]
Trap == [jump |-> "signal", goal |-> Lit(1)]
Syscall == [jump |-> "syscall", goal |-> Lit(1)]
AllClear == [f \in DOMAIN MCFlagBit |-> 0]
Instruction(layout, body, last) ==
    [layout |-> layout, body |-> body, last |-> last, flags |-> {AllClear}]
OnFlags(body, last) ==
    [Instruction(NoLayout, body, last) EXCEPT !.flags = [DOMAIN MCFlagBit -> 0 .. 1]]

\* Arithmetic: two operations in a row on every pair of operands.
Operations == Arithmetic \cup {"double", "sum3", "not", "mulhi", "smulhi"}
High(extension, x, y) ==
    Extract(2 * Word - 1, Word,
            Binary("bv_mul", Extend(extension, Word, x), Extend(extension, Word, y)))
Apply(op, x, y) ==
    CASE op = "double" -> Term("concat", Word, "", <<>>, <<Extract(Word - 2, 0, x), BvLit(1, 0)>>)
      [] op = "sum3" -> Term("bv_add", Word, "", <<>>, <<x, y, x>>)
      [] op = "mulhi" -> High("zero_extend", x, y)
      [] op = "smulhi" -> High("sign_extend", x, y)
      [] op = "not" -> Term("bv_not", Word, "", <<>>, <<x>>)
      [] OTHER -> Binary(op, x, y)
ArithmeticBodies ==
    {<<Put_("a", Apply(o, A, y)), Put_("b", Apply(p, z, A))>> :
        o \in Operations, p \in Operations, y \in {B, Lit(3), Lit(7)}, z \in {B, Lit(0)}}

\* Memory: a store, then loads through the same, another or a changed address.
MemoryBodies ==
    {<<Store_(x, y, m), Load_("b", z, n), Load_("a", u, k)>> :
        x \in {A, B}, y \in {A, B, Lit(2)}, z \in {A, B, Binary("bv_add", A, Lit(7))},
        u \in {A, B}, m \in 2 .. 3, n \in {1, 3}, k \in 1 .. 2}
    \cup {<<Load_("b", A, n), Store_(B, A, m), Load_("a", x, k)>> :
        x \in {A, B}, m \in 1 .. 3, n \in 1 .. 3, k \in 1 .. 2}

\* Control: exits under every comparison, before and after a store.
Guards == {Predicate(op, <<A, y>>) : op \in Comparisons \cup {"eq", "distinct", "bv_uge"},
                                     y \in {B, Lit(4)}}
ControlBodies ==
    {<<Exit_(g, j), Store_(A, B, 1), Exit_(h, "boring")>> :
        g \in Guards, h \in {Predicate("eq", <<B, Lit(1)>>)}, j \in {"boring", "signal"}}
    \cup {<<Load_("b", A, 1), Exit_(g, "boring"), Put_("a", Ite(h, A, B))>> :
        g \in Guards, h \in Guards}

\* Memory operands, and registers and operators that are not declared.
Layouts == {[base |-> b, index |-> i, scale |-> s, disp |-> d] :
    b \in {"a", "rip", "none"}, i \in {"b", "none"}, s \in {1, 2, 4}, d \in {0, 6}}
OperandTerm(l) ==
    LET base == CASE l.base = "a" -> A [] l.base = "rip" -> Lit(1) [] OTHER -> Lit(0)
        index == IF l.index = "b" THEN B ELSE Lit(0)
    IN Term("bv_add", Word, "", <<>>, <<base, Binary("bv_mul", index, Lit(l.scale)), Lit(l.disp)>>)

\* Flags: the packed word and the direction, kept, computed with and set; an
\* exit on one of them.
F == Var("rflags", Word)
D == Var("d", Word)
FlagBodies ==
    {<<Put_("a", x), Put_("rflags", y), Put_("d", z), Exit_(Predicate("bv_slt", <<D, F>>), "boring")>> :
        x \in {A, Binary("bv_add", A, D), Binary("bv_and", F, Lit(5))},
        y \in {F, A, Binary("bv_xor", F, Lit(1)), Term("bv_not", Word, "", <<>>, <<F>>)},
        z \in {D, Lit(1), Lit(7)}}
    \cup {<<Put_("ac", B), Put_("rflags", Binary("bv_or", F, Var("ac", Word)))>>}

\* The lifter's stack scratch, and sequences that only look like it.
T(n) == Var(n, Word)
ScratchBody(down, up, back, scratch) ==
    <<Put_("t1", A), Put_("t2", Binary("bv_sub", T("t1"), Lit(down))), Put_("a", T("t2")),
      [Store_(T("t2"), B, 3) EXCEPT !.scratch = scratch], Load_("b", T("t2"), 3),
      Store_(T("t1"), B, 1),
      Put_("t3", Binary("bv_add", T("t2"), Lit(up))), Put_(back, T("t3"))>>
ScratchBodies ==
    {ScratchBody(5, 5, "a", TRUE), ScratchBody(5, 5, "b", FALSE),
     ScratchBody(5, 4, "a", FALSE), ScratchBody(4, 4, "a", FALSE)}

MCInstructions ==
    {Instruction(NoLayout, body, Fall) : body \in ArithmeticBodies}
    \cup {Instruction(NoLayout, body, Jump) : body \in MemoryBodies}
    \cup {Instruction(NoLayout, body, Fall) : body \in ScratchBodies}
    \cup {OnFlags(body, Jump) : body \in FlagBodies}
    \cup {Instruction(NoLayout, body, last) : body \in ControlBodies, last \in {Fall, Trap}}
    \cup {Instruction(l, <<Load_("a", OperandTerm(l), n)>>, Fall) : l \in Layouts, n \in 1 .. 3}
    \cup {Instruction(NoLayout, <<Put_(r, v)>>, last) : last \in {Fall, Syscall},
             r \in {"a", "u"}, v \in {A, Var("u", Word), Term("bv_sdiv", Word, "", <<>>, <<A, B>>)}}
=============================================================================
