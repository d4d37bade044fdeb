-------------------------- MODULE ModelComparison --------------------------
(***************************************************************************)
(* The extracted model against a concrete execution: the fuzzer's input       *)
(* states, the execution of one instruction by the emulator, and              *)
(* CompiledModel.differences (extractor/fuzzer.py).                           *)
(*                                                                         *)
(* The emulator is external.  Its reference meaning of the operators is       *)
(* stated here a second time, over sets of bits and by repetition, so that    *)
(* the evaluator of TypedTerms is compared with something.                    *)
(***************************************************************************)
EXTENDS SymbolicStep
LOCAL INSTANCE SequencesExt
LOCAL INSTANCE Functions
LOCAL INSTANCE TLC

CONSTANTS RegisterOrder,  \* the fuzzer's order of the registers
          NameOrder       \* the order of the declared names

-----------------------------------------------------------------------------
(* Inputs                                                                    *)

\* Mutant of OperandAddress: the index is not scaled.
OperandAddressUnscaled(layout, values) ==
    LET base == CASE layout.base = "rip" -> Next_pc
                  [] layout.base \in Registers -> values[layout.base]
                  [] OTHER -> 0
        index == IF layout.index \in Registers THEN values[layout.index] ELSE 0
    IN (base + index + layout.disp) % 2 ^ Word

\* The address of the instruction's memory operand; a register that is not
\* among the scalars counts as zero.
OperandAddress(layout, values) ==
    LET base == CASE layout.base = "rip" -> Next_pc
                  [] layout.base \in Registers -> values[layout.base]
                  [] OTHER -> 0
        index == IF layout.index \in Registers THEN values[layout.index] ELSE 0
    IN (base + index * layout.scale + layout.disp) % 2 ^ Word

PlaceAt(address, block) ==
    [a \in {(address + k - 1) % 2 ^ Word : k \in DOMAIN block} |->
        block[CHOOSE k \in DOMAIN block :
                 /\ (address + k - 1) % 2 ^ Word = a
                 /\ \A j \in DOMAIN block : (address + j - 1) % 2 ^ Word = a => j <= k]]
Over(old, new) ==
    [a \in DOMAIN old \cup DOMAIN new |-> IF a \in DOMAIN new THEN new[a] ELSE old[a]]

\* _input_state: a block at every register's address and at the operand's, in
\* the order of the dictionary, and the instruction's own bytes over all.
InputMemory(layout, values, data) ==
    LET wanted == [i \in 1 .. Cardinality(Registers) |->
                      values[SetToSortSeq(Registers, LAMBDA r, s : RegisterOrder[r] < RegisterOrder[s])[i]]]
                  \o <<OperandAddress(layout, values)>>
        keys == FoldLeft(LAMBDA k, a : IF a \in Range(k) THEN k ELSE Append(k, a), <<>>, wanted)
    IN Over(FoldLeft(LAMBDA m, a : Over(m, PlaceAt(a, data)), <<>>, keys),
            PlaceAt(Source, Code))
InputState(layout, values, flags, data) ==
    [regs |-> values, flags |-> flags, memory |-> InputMemory(layout, values, data)]
Inputs ==
    {InputState(instruction.layout, values, flags, data) :
        values \in [Registers -> Addresses], flags \in instruction.flags, data \in Data}

-----------------------------------------------------------------------------
(* The emulator                                                              *)

Bits(x) == {i \in 0 .. 2 * Word - 1 : BitAt(x, i) = 1}
FromBits(bits) == FoldFunction(LAMBDA v, s : v + s, 0, [i \in bits |-> 2 ^ i])
Times(n, F(_), x) == FoldLeft(LAMBDA v, i : F(v), x, [i \in 1 .. n |-> i])

\* The value of a statement's term in the machine's registers.
RECURSIVE Value(_, _)
Value(t, r) ==
    LET x == Value(t.args[1], r)
        y == Value(t.args[2], r)
        w == t.args[1].sort
        top == 2 ^ (w - 1)
        all == 0 .. 2 ^ w - 1
        Double(v) == (v + v) % 2 ^ w
        Halve(v) == v \div 2
        HalveSigned(v) == (v \div 2) + (IF v >= top THEN top ELSE 0)
        Biased(v) == (v + top) % 2 ^ w
    IN  CASE t.op = "var" -> r[t.name]
          [] t.op \in {"bv_lit", "bool_lit"} -> t.nums[1]
          [] t.op = "bv_not" -> FromBits((0 .. w - 1) \ Bits(x))
          [] t.op = "bv_add" ->
                 FoldLeft(LAMBDA v, a : Times(Value(a, r), LAMBDA u : (u + 1) % 2 ^ w, v),
                          0, t.args)
          [] t.op = "bv_sub" -> CHOOSE z \in all : (z + y) % 2 ^ w = x
          [] t.op = "bv_mul" -> Times(y, LAMBDA v : (v + x) % 2 ^ w, 0)
          [] t.op = "bv_udiv" ->
                 IF y = 0 THEN 2 ^ w - 1 ELSE CHOOSE q \in all : q * y <= x /\ x < q * y + y
          [] t.op = "bv_urem" ->
                 IF y = 0 THEN x ELSE CHOOSE m \in 0 .. y - 1 : \E q \in all : q * y + m = x
          [] t.op = "bv_and" -> FromBits(Bits(x) \cap Bits(y))
          [] t.op = "bv_or" -> FromBits(Bits(x) \cup Bits(y))
          [] t.op = "bv_xor" -> FromBits((Bits(x) \cup Bits(y)) \ (Bits(x) \cap Bits(y)))
          [] t.op = "bv_shl" -> Times(y, Double, x)
          [] t.op = "bv_lshr" -> Times(y, Halve, x)
          [] t.op = "bv_ashr" -> Times(y, HalveSigned, x)
          [] t.op = "extract" ->
                 FromBits({i - t.nums[2] : i \in {j \in Bits(x) : t.nums[2] <= j /\ j <= t.nums[1]}})
          [] t.op = "concat" ->
                 FromBits(Bits(y) \cup {i + t.args[2].sort : i \in Bits(x)})
          [] t.op = "zero_extend" -> x
          [] t.op = "sign_extend" ->
                 IF x >= top THEN FromBits(Bits(x) \cup (w .. t.sort - 1)) ELSE x
          [] t.op = "ite" -> IF x = 1 THEN y ELSE Value(t.args[3], r)
          [] t.op = "eq" -> Truth(x = y)
          [] t.op = "distinct" -> Truth(x # y)
          [] t.op = "bool_not" -> Truth(x = 0)
          [] t.op = "bv_ult" -> Truth(x < y)
          [] t.op = "bv_ule" -> Truth(x <= y)
          [] t.op = "bv_uge" -> Truth(x >= y)
          [] t.op = "bv_slt" -> Truth(Biased(x) < Biased(y))
          [] t.op = "bv_sle" -> Truth(Biased(x) <= Biased(y))

ByteAt(cells, a) == IF a \in DOMAIN cells THEN cells[a] ELSE 0
LoadBytes(cells, address, size) ==
    FoldLeft(LAMBDA v, k : v * 2 ^ Byte + ByteAt(cells, (address + size - k) % 2 ^ Word),
             0, [k \in 1 .. size |-> k])

\* record_write: zero bytes are not kept.
WriteBytes(cells, address, size, value) ==
    LET block == [k \in 1 .. size |-> (value \div 2 ^ ((k - 1) * Byte)) % 2 ^ Byte]
    IN Over(cells, PlaceAt(address, block))

\* The flags in rflags, the direction as a step, and the lifter's variables.
MachineRegisters(before) ==
    before.regs @@ [r \in Internal |->
        CASE r = "rflags" -> FromBits({FlagBit[f] : f \in {g \in Flags : before.flags[g] = 1}})
          [] r = "d" -> IF before.flags["DF"] = 1 THEN 2 ^ Word - 1 ELSE 1
          [] r = "ac" -> before.flags["AC"]
          [] OTHER -> 0]
FlagAfter(f, registers) ==
    CASE f = "DF" -> Truth(registers["d"] = 2 ^ Word - 1)
      [] f = "AC" -> registers["ac"] % 2
      [] OTHER -> Truth(FlagBit[f] \in Bits(registers["rflags"]))

\* emulate: one instruction, up to the first exit that is taken.
Leave(state, outcome) ==
    [state EXCEPT !.rip = Value(outcome.goal, state.regs), !.jump = outcome.jump]
Execute(state, s) ==
    CASE state.jump # "none" -> state
      [] state.jump = "none" /\ s.kind = "put" ->
            [state EXCEPT !.regs[s.to] = Value(s.value, state.regs)]
      [] state.jump = "none" /\ s.kind = "load" ->
            [state EXCEPT !.regs[s.to] =
                LoadBytes(state.memory, Value(s.address, state.regs), s.size)]
      [] state.jump = "none" /\ s.kind = "store" ->
            LET Written(cells) == WriteBytes(cells, Value(s.address, state.regs), s.size,
                                             Value(s.value, state.regs))
            IN [state EXCEPT !.memory = Written(@),
                             !.visible = IF s.scratch THEN @ ELSE Written(@)]
      [] state.jump = "none" /\ s.kind = "exit" ->
            IF Value(s.guard, state.regs) = 1 THEN Leave(state, s) ELSE state
Emulate(i, before) ==
    LET after == FoldLeft(Execute, [regs |-> MachineRegisters(before),
                                    memory |-> before.memory, visible |-> before.memory,
                                    rip |-> Source, jump |-> "none"], i.body)
    IN IF after.jump = "none" THEN Leave(after, i.last) ELSE after

-----------------------------------------------------------------------------
(* Comparison                                                                *)

Environment(before) ==
    [n \in Registers \cup Flags \cup {"rip", MemoryName} |->
        CASE n = "rip" -> Source
          [] n = MemoryName -> Cells(before.memory)
          [] n \in Flags -> before.flags[n]
          [] OTHER -> before.regs[n]]
Enabled(steps, environment) ==
    {i \in DOMAIN steps : Evaluate(steps[i].guard, environment) = 1}

\* CompiledModel.differences: nothing is compared without a unique edge.
Differences(steps, before, after) ==
    LET environment == Environment(before)
        enabled == Enabled(steps, environment)
        step == steps[CHOOSE i \in enabled : TRUE]
        predicted(n) == Evaluate(step.updates[n], environment)
    IN  CASE Cardinality(enabled) # 1 -> {"edges"}
          [] Cardinality(enabled) = 1 /\ (after.jump = "signal" \/ step.target[1] = "error") ->
                 IF after.jump = "signal" /\ step.target[1] = "error" THEN {} ELSE {"target"}
          [] OTHER ->
                 {r \in Registers : predicted(r) # after.regs[r]}
                     \cup {f \in Flags : predicted(f) # FlagAfter(f, after.regs)}
                     \cup {n \in {"rip"} : predicted("rip") # after.rip \/
                                             Evaluate(step.pc, environment) # after.rip}
                     \cup {n \in {MemoryName} : predicted(MemoryName) # Cells(after.visible)}
-----------------------------------------------------------------------------
(* Properties                                                               *)

Overlapping(before) ==
    \E i, j \in DOMAIN exits : i # j /\ {i, j} \subseteq Enabled(model, Environment(before))

\* A model that was extracted predicts the emulator from every input, memory
\* included, through loads that follow stores to the same, an overlapping or a
\* wrapped-around address; some edge is always enabled, and more than one only
\* where two exits of the instruction can both be taken.
ModelAgrees ==
    pc = "extracted" => \A before \in Inputs :
        \E differences \in {Differences(model, before, Emulate(instruction, before))} :
            \/ differences = {}
            \/ differences = {"edges"} /\ Overlapping(before)

\* A normalised model evaluates as the model it was made from.
Preserves(normal) ==
    \A before \in Inputs, i \in DOMAIN model :
        LET environment == Environment(before)
            Same(t, u) == Evaluate(t, environment) = Evaluate(u, environment)
        IN  /\ Same(model[i].guard, normal[i].guard)
            /\ \A n \in DOMAIN model[i].updates :
                  Same(model[i].updates[n], normal[i].updates[n])

\* Normalisation keeps the meaning of every field of a model ("semantics-
\* preserving normalization of typed QF_ABV syntax", normalization.py:4), and
\* what it returns is a model again, which it leaves as it is.
NormalizationPreserves ==
    pc = "extracted" =>
        \E normal \in {NormalizeModel(model, NameOrder)} :
            /\ \A i \in DOMAIN normal : Valid(normal[i])
            /\ NormalizeModel(normal, NameOrder) = normal
            /\ Preserves(normal)

\* Every byte the instruction's operand is read from was placed by the input,
\* whatever the registers and however the address wraps: a load never meets the
\* emulator's default zeros only.
OperandIsStimulated ==
    pc = "extracted" /\ instruction.body[1].kind = "load" =>
        LET first == instruction.body[1]
        IN \A before \in Inputs : \A k \in 0 .. first.size - 1 :
              (Value(first.address, MachineRegisters(before)) + k) % 2 ^ Word \in DOMAIN before.memory
=============================================================================
