------------------------------- MODULE MipsArch -------------------------------
(***************************************************************************)
(* What a program may rely on, whatever interrupts it: every instruction   *)
(* has its effect once and in order, a branch together with the            *)
(* instruction in its delay slot, and a loaded value arrives one           *)
(* instruction late or, after an interrupt, at once.                       *)
(*                                                                         *)
(* This is the machine the interpreter is, not the one MIPS promises: an   *)
(* instruction whose coprocessor is unusable enters the handler at its     *)
(* second word, and in the slot of a branch that is taken its exception is *)
(* lost, and the program goes on in kernel mode.                           *)
(***************************************************************************)
EXTENDS MipsIsa

VARIABLES
    code,   \* the program
    pc,     \* the next instruction
    regs,
    pend,   \* the load that has not arrived yet
    gte,    \* state of coprocessor 2
    mem,    \* a word of memory
    rights, \* mode of the program and coprocessors it may use
    trap    \* the exception that ended the program and the word at which the
            \* handler is entered, or NoTrap

vars == <<code, pc, regs, pend, gte, mem, rights, trap>>

NoTrap == [epc |-> -1, bd |-> FALSE, from |-> 0]

Machine(r, p, g, m) == [regs |-> r, pend |-> p, gte |-> g, mem |-> m]
Here == Machine(regs, pend, gte, mem)
Becomes(s) == regs' = s.regs /\ pend' = s.pend /\ gte' = s.gte /\ mem' = s.mem

\* A load that is followed by one to the same register is dropped.
Overtaken(i, p) == i.op \in {"LOAD", "LWX"} /\ i.rt # 0 /\ i.rt = p.dest

\* A move from a coprocessor may drop it or not.
Arrived(i, s) ==
    IF Overtaken(i, s.pend) THEN {s.regs}
    ELSE IF i.op = "MFC" /\ i.rt = s.pend.dest THEN {s.regs, Apply(s.regs, s.pend)}
    ELSE {Apply(s.regs, s.pend)}

\* The states after instruction i at address a.
Effects(i, a, s) ==
    {Machine(Apply(r, Result(i, s.regs, a)), Loaded(i, s.regs, s.pend, s.gte, s.mem),
             Command(i, s.gte), Stored(i, s.regs, s.mem)) : r \in Arrived(i, s)}

\* A write to SR.
Granted(i, s) ==
    IF i.op = "MTC" THEN Rights(Sr[s.regs[i.rt]].curr, Sr[s.regs[i.rt]]) ELSE rights

Running == pc < N /\ trap = NoTrap
Completes(i, s) == ~Excepts(i, s.regs) /\ ~Unusable(i, rights)

\* One instruction outside a delay slot.
Instruction ==
    /\ Running /\ ~IsBranch(code[pc]) /\ Completes(code[pc], Here)
    /\ \E s \in Effects(code[pc], pc, Here) : Becomes(s)
    /\ rights' = Granted(code[pc], Here)
    /\ pc' = pc + 1
    /\ UNCHANGED <<code, trap>>

\* A branch and its delay slot.
BranchAndSlot ==
    /\ Running /\ IsBranch(code[pc])
    /\ \E s \in Effects(code[pc], pc, Here) :
          /\ Completes(code[pc + 1], s)
          /\ rights' = Granted(code[pc + 1], s)
          /\ \E t \in Effects(code[pc + 1], pc + 1, s) : Becomes(t)
    /\ pc' = IF Taken(code[pc], regs) THEN Target(code[pc], regs) ELSE pc + 2
    /\ UNCHANGED <<code, trap>>

\* A taken branch whose slot holds an unusable instruction: the instruction does
\* nothing, its exception leaves nothing but kernel mode.
LostException ==
    /\ Running /\ IsBranch(code[pc]) /\ Taken(code[pc], regs)
    /\ Unusable(code[pc + 1], rights)
    /\ \E s \in Effects(code[pc], pc, Here) : regs' = Apply(s.regs, s.pend)
    /\ pend' = None
    /\ rights' = [rights EXCEPT !.user = FALSE]
    /\ pc' = Target(code[pc], regs)
    /\ UNCHANGED <<code, gte, mem, trap>>

\* Everything on its way arrives, and a link register that the branch at pc will
\* write may be written already.
Interrupted ==
    /\ trap = NoTrap
    /\ LET r == Apply(regs, pend) IN
       \/ regs' = r
       \/ pc < N /\ IsBranch(code[pc]) /\ regs' = Apply(r, Result(code[pc], regs, pc))
    /\ pend' = None
    /\ UNCHANGED <<code, pc, gte, mem, rights, trap>>

\* An exception ends the program at the instruction that raised it, or at the
\* branch before it.
Exception ==
    /\ trap = NoTrap
    /\ pend' = None
    /\ \/ /\ pc = BAD
          /\ regs' = Apply(regs, pend)
          /\ trap' = [epc |-> pc, bd |-> FALSE, from |-> 0]
       \/ /\ Running /\ ~IsBranch(code[pc]) /\ Excepts(code[pc], regs)
          /\ regs' = Apply(regs, pend)
          /\ trap' = [epc |-> pc, bd |-> FALSE, from |-> 0]
       \/ /\ Running /\ IsBranch(code[pc])
          /\ \E s \in Effects(code[pc], pc, Here) :
                Excepts(code[pc + 1], s.regs) /\ regs' = Apply(s.regs, s.pend)
          /\ trap' = [epc |-> pc, bd |-> TRUE, from |-> 0]
    /\ UNCHANGED <<code, pc, gte, mem, rights>>

\* An unusable instruction ends it as well, unless it is in the slot of a branch
\* that is taken, but the handler is entered at its second word.
UnusableException ==
    /\ Running
    /\ pend' = None
    /\ \/ /\ ~IsBranch(code[pc]) /\ Unusable(code[pc], rights)
          /\ regs' = Apply(regs, pend)
          /\ trap' = [epc |-> pc, bd |-> FALSE, from |-> 1]
       \/ /\ IsBranch(code[pc]) /\ ~Taken(code[pc], regs)
          /\ Unusable(code[pc + 1], rights)
          /\ \E s \in Effects(code[pc], pc, Here) : regs' = Apply(s.regs, s.pend)
          /\ trap' = [epc |-> pc, bd |-> TRUE, from |-> 1]
    /\ UNCHANGED <<code, pc, gte, mem, rights>>

Init ==
    /\ code \in Programs
    /\ pc = 0
    /\ regs = [r \in 0..R |-> Wrap(r)]
    /\ pend = None
    /\ gte = 0 /\ mem = 0
    /\ rights = [user |-> FALSE, enabled |-> {2}]
    /\ trap = NoTrap

Next ==
    \/ Instruction \/ BranchAndSlot \/ LostException
    \/ Interrupted \/ Exception \/ UnusableException

Spec == Init /\ [][Next]_vars
=============================================================================
