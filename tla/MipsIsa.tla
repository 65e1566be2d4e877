------------------------------- MODULE MipsIsa -------------------------------
(***************************************************************************)
(* The instructions the interpreter knows, by what they do to registers,   *)
(* memory and control.  One opcode stands for a family of handlers of      *)
(* InstructionHandlers.hpp:                                                *)
(*    ADD    writes a register, may overflow (ALU, shifts, LUI, MFHI)      *)
(*    LOAD   loads a register, may meet a bad address                      *)
(*    LWX    merges memory into a register (LWL, LWR)                      *)
(*    MFC    moves a register of coprocessor 2 (MFC2, CFC2)                *)
(*    STORE  writes memory, may meet a bad address                         *)
(*    MTC    writes SR (MTC0, LWC0)                                        *)
(*    JAL    jumps, with a link register unless rt is 0 (J, JAL)           *)
(*    JR     jumps to the address in a register (JR, JALR)                 *)
(*    BNE    branches on a register (all conditional branches)             *)
(*    GTE    executes a command of coprocessor 2                           *)
(*    COP    is of a coprocessor that does not exist, or one that its      *)
(*           coprocessor does not know (COP1, COP3, LWC3, bad COP0)        *)
(*    TRAP   raises an exception (SYSCALL, BREAK, reserved)                *)
(* Addresses count words.  Values are small; what matters is that another  *)
(* value in a register makes another result.                               *)
(***************************************************************************)
EXTENDS Integers

CONSTANTS
    N,            \* words of the program
    R,            \* registers 1..R besides the zero register
    Instructions, \* the instructions programs are made of
    Sr            \* what a value means when it is written to SR

END == N          \* the program leaves its code
BAD == N + 1      \* an address that is not aligned
VECTOR == N + 2   \* GENERAL_VECTORS, where the handler begins

\* What a register can hold: any address of the program as well.
Values == 0..(N + 1)
Wrap(v) == v % (N + 2)
Highest == N + 1

Instr == [op : {"ADD", "LOAD", "LWX", "MFC", "STORE", "MTC", "JAL", "JR", "BNE", "GTE",
                "COP", "TRAP"},
          rs : 0..R, rt : 0..R, to : 0..N]

\* SR: a stack of three levels, each with interrupts enabled or not in user or in
\* kernel mode, and the coprocessors that are enabled.
Level == [ie : BOOLEAN, user : BOOLEAN]
StatusRegister == [curr : Level, prev : Level, old : Level, enabled : SUBSET {0, 2}]
Kernel == [ie |-> FALSE, user |-> FALSE]

ASSUME IsaAssumption ==
    /\ N \in Nat \ {0} /\ R \in Nat \ {0}
    /\ Instructions \subseteq Instr
    /\ Sr \in [Values -> StatusRegister]

IsBranch(i) == i.op \in {"JAL", "JR", "BNE"}

\* CheckInstructionGTE takes every COP2 instruction for a command.
IsCop2(i) == i.op \in {"GTE", "MFC"}

\* Rules of the assembler: no branch in a delay slot, and a link register that is
\* not the one the jump reads.  And, because the handler of the BIOS steps over the
\* GTE command it was called at, no GTE command that is executed right after another
\* COP2 instruction, and, in a program that writes SR, no COP2 instruction in a slot.
WellFormed(code) ==
    \A a \in 0..(N - 1) :
        /\ IsBranch(code[a]) => a + 1 < N /\ ~IsBranch(code[a + 1])
        /\ code[a].op = "JR" => code[a].rt # code[a].rs
        /\ IsCop2(code[a]) /\ a + 1 < N => code[a + 1].op # "GTE"
        /\ IsBranch(code[a]) /\ IsCop2(code[a + 1])
             => /\ code[a].op # "JR"
                /\ code[a].to < N => code[code[a].to].op # "GTE"
                /\ \A b \in 0..(N - 1) : code[b].op # "MTC"

Programs == {code \in [0..(N - 1) -> Instructions] : WellFormed(code)}

\* A register that is about to be written, or none.
Pending == [dest : -1..R, value : Values]
None == [dest |-> -1, value |-> 0]

\* The zero register is reset after every instruction.
Apply(regs, p) == [r \in 0..R |-> IF r = p.dest /\ r # 0 THEN p.value ELSE regs[r]]

\* What the running program may use: its mode and the coprocessors SR enables.
RightsType == [user : BOOLEAN, enabled : SUBSET {0, 2}]
Rights(level, sr) == [user |-> level.user, enabled |-> sr.enabled]

\* The instruction's coprocessor does not exist or may not be used.
Unusable(i, rights) ==
    \/ i.op = "COP"
    \/ IsCop2(i) /\ 2 \notin rights.enabled
    \/ i.op = "MTC" /\ rights.user /\ 0 \notin rights.enabled

\* The instruction cannot be completed.
Excepts(i, regs) ==
    \/ i.op = "TRAP"
    \/ i.op \in {"ADD", "LOAD", "STORE"} /\ regs[i.rs] = Highest

Result(i, regs, pc) ==
    CASE i.op = "ADD" -> [dest |-> i.rt, value |-> Wrap(regs[i.rs] + 1)]
      [] i.op \in {"JAL", "JR"} /\ i.rt # 0 -> [dest |-> i.rt, value |-> Wrap(pc + 2)]
      [] OTHER -> None

\* LWL and LWR take a value that is still on its way to the register.
Merge(i, regs, p, mem) == Wrap((IF p.dest = i.rt THEN p.value ELSE regs[i.rt]) + mem + 1)

Loaded(i, regs, p, gte, mem) ==
    CASE i.op = "LOAD" /\ i.rt # 0 -> [dest |-> i.rt, value |-> mem]
      [] i.op = "LWX" /\ i.rt # 0 -> [dest |-> i.rt, value |-> Merge(i, regs, p, mem)]
      [] i.op = "MFC" -> [dest |-> i.rt, value |-> gte]
      [] OTHER -> None

Stored(i, regs, mem) == IF i.op = "STORE" THEN regs[i.rt] ELSE mem
Command(i, gte) == IF i.op = "GTE" THEN Wrap(gte + 1) ELSE gte

Taken(i, regs) == i.op \in {"JAL", "JR"} \/ (i.op = "BNE" /\ regs[i.rs] # 0)
Target(i, regs) == IF i.op = "JR" THEN regs[i.rs] ELSE i.to
=============================================================================
