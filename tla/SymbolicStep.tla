---------------------------- MODULE SymbolicStep ----------------------------
(***************************************************************************)
(* One instruction executed symbolically, its model extracted, normalised    *)
(* and compared with a concrete execution of the same instruction:            *)
(* extractor/amd64_state.py (the hooks on memory), extractor/extractor.py     *)
(* (_extract_concrete), extractor/typed_z3.py and extractor/fuzzer.py         *)
(* (_input_state, emulate, CompiledModel).                                    *)
(*                                                                         *)
(* An instruction is the sequence of statements the lifter makes of it; the   *)
(* lifter, the symbolic executor that runs the statements and the emulator     *)
(* are external.  Statements read registers and compute with the operators of  *)
(* TypedTerms.  The widths are the module's parameters: the properties are     *)
(* about wrap-around, overlap and aliasing, which small widths have.           *)
(***************************************************************************)
EXTENDS TypedTerms
LOCAL INSTANCE SequencesExt
LOCAL INSTANCE Functions

CONSTANTS Registers,    \* the declared registers
          StackPointer, \* one of them
          FlagBit,      \* the bit of every flag in rflags, DF's and AC's too
          Undeclared,   \* registers of the machine that are not declared
          Temporaries,  \* the lifter's own variables
          Distance,     \* how far below the stack pointer the lifter's scratch is
          Instructions, \* records [layout, body, last], last the default outcome
          Code,         \* the instruction's bytes
          Source,       \* its address
          Data          \* the blocks the fuzzer places in memory

Addresses == 0 .. 2 ^ Word - 1
Next_pc == (Source + Len(Code)) % 2 ^ Word

VARIABLES
    instruction,
    pc,        \* "closure", "step", "extract", "extracted" or "rejected"
    at,        \* the next statement
    regs,      \* the symbolic registers, rip among them
    memory,    \* "_ghot_memory_expr"
    reads,     \* "_ghot_memory_reads": placeholder, address, size, memory then
    writes,    \* "_ghot_memory_writes"
    exits,     \* the successors of the exits passed so far
    model      \* the extracted steps, in outcome order

vars == <<instruction, pc, at, regs, memory, reads, writes, exits, model>>

Statement == instruction.body[at]
Canonical(r) == Var(r, Word)
CanonicalMemory == Var(MemoryName, Memory)
Number(value) == BvLit(Word, value % 2 ^ Word)
Flags == DOMAIN FlagBit
Internal == {"rflags", "d", "ac"} \cup Temporaries

\* _initial_cc_dep1: every flag at its bit.
PackedFlags ==
    Term("concat", Word, "", <<>>, [i \in 1 .. Word |->
        IF \E f \in Flags : FlagBit[f] = Word - i
        THEN Var(CHOOSE f \in Flags : FlagBit[f] = Word - i, 1) ELSE BvLit(1, 0)])

\* fresh_instruction_state
Init ==
    /\ instruction \in Instructions
    /\ pc = "closure" /\ at = 1
    /\ regs = [r \in Registers \cup Internal \cup {"rip"} |->
           CASE r = "rip" -> Number(Source)
             [] r = "rflags" -> PackedFlags
             [] r = "d" -> Ite(Predicate("eq", <<Var("DF", 1), BvLit(1, 1)>>),
                               Number(2 ^ Word - 1), Number(1))
             [] r = "ac" -> Extend("zero_extend", Word - 1, Var("AC", 1))
             [] r \in Temporaries -> Number(0)
             [] OTHER -> Canonical(r)]
    /\ memory = CanonicalMemory
    /\ reads = <<>> /\ writes = <<>> /\ exits = <<>> /\ model = <<>>

-----------------------------------------------------------------------------
(* Symbolic execution and the hooks                                          *)

\* A statement's term over the current registers.
RECURSIVE InState(_)
InState(t) ==
    IF t.op = "var" THEN regs[t.name]
    ELSE [t EXCEPT !.args = [i \in DOMAIN t.args |-> InState(t.args[i])]]

TermsOf(s) == CASE s.kind = "put" -> {s.value}
                [] s.kind = "load" -> {s.address}
                [] s.kind = "store" -> {s.address, s.value}
                [] s.kind = "exit" -> {s.guard}

\* _require_register_closure: nothing undeclared is read or written.
Closed(i) ==
    \A k \in DOMAIN i.body :
        /\ \A t \in TermsOf(i.body[k]) : \A v \in VariablesOf(t) : v[1] \notin Undeclared
        /\ i.body[k].kind \in {"put", "load"} => i.body[k].to \notin Undeclared
CheckClosure ==
    /\ pc = "closure"
    /\ pc' = IF Closed(instruction) THEN "step" ELSE "rejected"
    /\ UNCHANGED <<instruction, at, regs, memory, reads, writes, exits, model>>

Executes(kind) ==
    /\ pc = "step" /\ at \in DOMAIN instruction.body /\ Statement.kind = kind
    /\ at' = at + 1
    /\ UNCHANGED <<instruction, pc, model>>

Put ==
    /\ Executes("put")
    /\ regs' = [regs EXCEPT ![Statement.to] = InState(Statement.value)]
    /\ UNCHANGED <<memory, reads, writes, exits>>

Widened(t) == IF t.sort = Word THEN t ELSE Extend("zero_extend", Word - t.sort, t)
Placeholder(k, size) == Var(<<"read1", "read2", "read3">>[k], size * Byte)

\* Mutant of MemoryRead: the read is resolved in the memory before the instruction.
MemoryReadInitial(address, size) ==
    <<[name |-> Placeholder(Len(reads) + 1, size).name,
       address |-> address, size |-> size, memory |-> CanonicalMemory]>>

\* _memory_read_hook: the value is a placeholder; what it stands for is
\* remembered with the memory as it is now.
MemoryRead(address, size) ==
    <<[name |-> Placeholder(Len(reads) + 1, size).name,
       address |-> address, size |-> size, memory |-> memory]>>
Load ==
    /\ Executes("load")
    /\ reads' = reads \o MemoryRead(InState(Statement.address), Statement.size)
    /\ regs' = [regs EXCEPT ![Statement.to] =
                    Widened(Placeholder(Len(reads) + 1, Statement.size))]
    /\ UNCHANGED <<memory, writes, exits>>

Offset(address, offset) == Binary("bv_add", address, Number(offset))

\* load_le: bytes from high to low; store_le: bytes from low to high.
LoadLe(array, address, size) ==
    LET bytes == [i \in 1 .. size |-> Select(array, Offset(address, size - i))]
    IN IF size = 1 THEN bytes[1] ELSE Term("concat", size * Byte, "", <<>>, bytes)
StoreLe(array, address, value, size) ==
    FoldLeft(LAMBDA m, offset :
                 Store(m, Offset(address, offset),
                       Extract((offset + 1) * Byte - 1, offset * Byte, value)),
             array, [i \in 1 .. size |-> i - 1])

\* _memory_write_hook
MemoryWrite ==
    /\ Executes("store")
    /\ LET address == InState(Statement.address)
           value == Extract(Statement.size * Byte - 1, 0, InState(Statement.value))
       IN /\ memory' = StoreLe(memory, address, value, Statement.size)
          /\ writes' = Append(writes, <<address, value, Statement.size, at>>)
    /\ UNCHANGED <<regs, reads, exits>>

\* The state of a successor; reads and writes are those so far.
Post(guard, outcome) ==
    [guard |-> guard, regs |-> [regs EXCEPT !["rip"] = InState(outcome.goal)],
     reads |-> reads, writes |-> writes, jump |-> outcome.jump]

\* A conditional exit: its successor has the exit's own guard.
Exit ==
    /\ Executes("exit")
    /\ exits' = Append(exits, Post(InState(Statement.guard), Statement))
    /\ UNCHANGED <<regs, memory, reads, writes>>

-----------------------------------------------------------------------------
(* Extraction                                                                *)

\* resolve_memory_reads: earlier reads are resolved in the addresses and
\* memories of later ones.
ResolveReads(e, known) ==
    LET Resolved(t, done) == FoldLeft(LAMBDA u, d : Substitute(u, d[1], d[2]), t, done)
        replacements == FoldLeft(
            LAMBDA done, r : Append(done,
                <<r.name, LoadLe(Resolved(r.memory, done), Resolved(r.address, done), r.size)>>),
            <<>>, known)
    IN Resolved(e, replacements)

\* _vex_stack_scratch_writes: a store through a temporary that is the stack
\* pointer less Distance, to which the stack pointer is set and from which it is
\* set back afterwards.
Assigns(k, to, value) ==
    instruction.body[k].kind = "put" /\ instruction.body[k].to = to
    /\ instruction.body[k].value = value
SetsStack(k, t) ==
    \E j \in DOMAIN instruction.body : j >= k /\ Assigns(j, StackPointer, Canonical(t))
Shifted(op, t) == Binary(op, Canonical(t), Number(Distance))
ScratchWrites ==
    {k \in DOMAIN instruction.body : instruction.body[k].kind = "store" /\
        \E t, u, w \in Temporaries, g, s, e \in DOMAIN instruction.body :
            /\ instruction.body[k].address = Canonical(t)
            /\ g < s /\ s < k /\ k < e
            /\ Assigns(g, u, Canonical(StackPointer))
            /\ Assigns(s, t, Shifted("bv_sub", u)) /\ SetsStack(s + 1, t)
            /\ Assigns(e, w, Shifted("bv_add", t)) /\ SetsStack(e + 1, w)}

\* architectural_memory_expression: without the lifter's scratch.
ArchitecturalMemory(stored) ==
    FoldLeft(LAMBDA m, w : StoreLe(m, w[1], w[2], w[3]), CanonicalMemory,
             SelectSeq(stored, LAMBDA w : w[4] \notin ScratchWrites))

\* _extract_flag_updates
FlagUpdate(f, registers) ==
    CASE f = "DF" -> Ite(Predicate("eq", <<registers["d"], Number(2 ^ Word - 1)>>),
                         BvLit(1, 1), BvLit(1, 0))
      [] f = "AC" -> Extract(0, 0, registers["ac"])
      [] OTHER -> Extract(FlagBit[f], FlagBit[f], registers["rflags"])

\* _extract_updates and _complete_update: what is not updated is itself.
Updates(post) ==
    [r \in Registers \cup Flags \cup {"rip", MemoryName} |->
        FromZ3(ResolveReads(CASE r = MemoryName -> ArchitecturalMemory(post.writes)
                              [] r \in Flags -> FlagUpdate(r, post.regs)
                              [] OTHER -> post.regs[r], post.reads))]

\* _extract_target and _terminal_target: an error, an address or a term.
Target(post) ==
    LET target == FromZ3(ResolveReads(post.regs["rip"], post.reads))
    IN CASE post.jump = "signal" -> <<"error">>
         [] post.jump = "boring" /\ target.op = "bv_lit" -> <<"address", target>>
         [] OTHER -> <<"symbolic", target>>

\* _extract_step, step_summary_from_z3
Step(post, guard) ==
    [guard |-> FromZ3(guard), updates |-> Updates(post), target |-> Target(post),
     pc |-> Updates(post)["rip"]]

ExitGuard(post) == ResolveReads(post.guard, post.reads)
Not(e) == Predicate("bool_not", <<e>>)

\* _extract_concrete: the exits in their order, then the default outcome under
\* the negation of all exit guards.
DefaultGuard ==
    IF exits = <<>> THEN BoolLit(1)
    ELSE Predicate("and", [i \in DOMAIN exits |-> Not(ExitGuard(exits[i]))])
Posts == Append(exits, Post(DefaultGuard, instruction.last))
Steps ==
    [i \in DOMAIN Posts |->
        Step(Posts[i], IF i \in DOMAIN exits THEN ExitGuard(Posts[i]) ELSE DefaultGuard)]

TermsIn(step) ==
    {step.guard, step.pc} \cup Range(step.updates) \cup {step.target[i] : i \in DOMAIN step.target \ {1}}
Declared == {<<r, Word>> : r \in Registers \cup {"rip"}} \cup {<<f, 1>> : f \in Flags}
                \cup {<<MemoryName, Memory>>}

\* StepSummary.validate; a term outside the theory is an expected failure.
Valid(step) ==
    \A t \in TermsIn(step) : WellFormed(t) /\ VariablesOf(t) \subseteq Declared

ExtractModel ==
    /\ pc = "step" /\ at \notin DOMAIN instruction.body
    /\ IF \A i \in DOMAIN Steps : Posts[i].jump # "syscall" /\ Valid(Steps[i])
       THEN model' = Steps /\ pc' = "extracted"
       ELSE pc' = "rejected" /\ UNCHANGED model
    /\ UNCHANGED <<instruction, at, regs, memory, reads, writes, exits>>

Next == CheckClosure \/ Put \/ Load \/ MemoryWrite \/ Exit \/ ExtractModel

Spec == Init /\ [][Next]_vars
=============================================================================
