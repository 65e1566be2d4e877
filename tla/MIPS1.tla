-------------------------------- MODULE MIPS1 --------------------------------
(***************************************************************************)
(* The interpreter's core: MIPS1::StepInstruction with the load delay, the *)
(* register write-back, the branch flags of system_status and the          *)
(* exceptions of coprocessor 0.  next_delay and reg_writeback are empty    *)
(* between two steps and exist within one only.                            *)
(*                                                                         *)
(* The exception handler is the guest's (the BIOS): it saves and restores  *)
(* the registers and returns to EPC, after a GTE command at EPC to the     *)
(* next instruction.  An exception that is not an interrupt ends the       *)
(* program, unless the interpreter loses it.                               *)
(***************************************************************************)
EXTENDS MipsIsa

VARIABLES
    code,     \* memory: the program
    pc,       \* m_pc
    regs,     \* m_regs
    delay,    \* curr_delay
    branch,   \* branch_delay, branch_taken, branch_dest
    cop0,     \* SR, EPC, CAUSE
    irq,      \* I_STAT and I_MASK have a bit in common
    rerun,    \* m_rerun_gte_for_interrupt
    gte,      \* state of coprocessor 2
    mem,      \* a word of memory
    before    \* history: registers and delay before the last branch

vars == <<code, pc, regs, delay, branch, cop0, irq, rerun, gte, mem, before>>

NoBranch == [delay |-> FALSE, taken |-> FALSE, dest |-> 0]

Init ==
    /\ code \in Programs
    /\ pc = 0
    /\ regs = [r \in 0..R |-> Wrap(r)]
    /\ delay = None
    /\ branch = NoBranch
    /\ cop0 = [sr |-> [curr |-> [ie |-> TRUE, user |-> FALSE], prev |-> Kernel,
                       old |-> Kernel, enabled |-> {2}],
               epc |-> 0, bd |-> FALSE, excode |-> "NONE"]
    /\ irq = FALSE /\ rerun = FALSE
    /\ gte = 0 /\ mem = 0
    /\ before = [regs |-> [r \in 0..R |-> Wrap(r)], delay |-> None]
-----------------------------------------------------------------------------
\* Bug: the enable bit from before the last exception is asked.
CheckInterruptsStale == cop0.sr.prev.ie /\ irq

\* m_sys_status and coprocessor 0 are asked before every instruction.
CheckInterrupts == cop0.sr.curr.ie /\ irq

\* cop0::Exception and Rfe.
Pushed(sr) == [sr EXCEPT !.curr = Kernel, !.prev = sr.curr, !.old = sr.prev]
Popped(sr) == [sr EXCEPT !.curr = sr.prev, !.prev = sr.old]

\* Bug: EPC is always the current instruction.
ExceptionNoBranch(excode) ==
    cop0' = [sr |-> Pushed(cop0.sr), epc |-> pc, bd |-> branch.delay, excode |-> excode]

\* system_status::Exception.
Exception(excode) ==
    cop0' = [sr |-> Pushed(cop0.sr), epc |-> IF branch.delay THEN pc - 1 ELSE pc,
             bd |-> branch.delay, excode |-> excode]

\* What a handler does to the delay that is under way: a load of the same register
\* takes its place, a move from a coprocessor does not.
CurrDelay(i) ==
    IF \/ i.op = "LOAD" /\ i.rt # 0 /\ i.rt = delay.dest /\ ~Excepts(i, regs)
       \/ i.op = "LWX" /\ i.rt = delay.dest
      THEN None ELSE delay

NextDelay(i) ==
    IF Excepts(i, regs) THEN None ELSE Loaded(i, regs, delay, gte, mem)

RegWriteback(i) ==
    IF Excepts(i, regs) THEN None ELSE Result(i, regs, pc)

\* UpdateLoadDelay, then UpdateRegWriteback.
UpdateRegs(i) ==
    /\ regs' = Apply(Apply(regs, CurrDelay(i)), RegWriteback(i))
    /\ delay' = NextDelay(i)

FlushLoadDelay(i) ==
    /\ regs' = Apply(Apply(Apply(regs, CurrDelay(i)), RegWriteback(i)), NextDelay(i))
    /\ delay' = None

\* Jump, Branch and system_status::Jump.
Branched(i) ==
    IF ~IsBranch(i) THEN branch
    ELSE IF Taken(i, regs) THEN [delay |-> TRUE, taken |-> TRUE, dest |-> Target(i, regs)]
    ELSE [branch EXCEPT !.delay = TRUE]

\* WriteCOP0 to SR.
Status(i) == IF i.op = "MTC" THEN [cop0 EXCEPT !.sr = Sr[regs[i.rt]]] ELSE cop0

Fetch == code[pc]

\* The handlers that call Exception at once, for a coprocessor that cannot be used.
Refused == Unusable(Fetch, Rights(cop0.sr.curr, cop0.sr))
-----------------------------------------------------------------------------
(***************************************************************************)
(* One StepInstruction.  After an interrupt or a bad PC, and after the     *)
(* handler was entered, the instruction it executes is the handler's first *)
(* one, which changes nothing of the program's.                            *)
(***************************************************************************)

\* An interrupt is taken, but not in front of a COP2 instruction.
TakeInterrupt ==
    /\ pc < N /\ CheckInterrupts
    /\ ~IsCop2(Fetch) \/ rerun
    /\ Exception("INT")
    /\ regs' = Apply(regs, delay) /\ delay' = None
    /\ branch' = NoBranch
    /\ rerun' = FALSE
    /\ pc' = VECTOR + 1
    /\ UNCHANGED <<code, irq, gte, mem, before>>

\* The PC is not aligned.
UnalignedPc ==
    /\ pc = BAD
    /\ Exception("ADEL")
    /\ regs' = Apply(regs, delay) /\ delay' = None
    /\ branch' = NoBranch
    /\ pc' = VECTOR + 1
    /\ UNCHANGED <<code, irq, rerun, gte, mem, before>>

\* The interpreter reaches the instruction at pc; in front of a COP2 instruction it
\* remembers that an interrupt waits.
Reached ==
    /\ pc < N
    /\ CheckInterrupts => IsCop2(Fetch) /\ ~rerun
    /\ rerun' = (rerun \/ CheckInterrupts)

\* The instruction raises an exception.
StepException ==
    /\ Reached
    /\ Excepts(Fetch, regs)
    /\ FlushLoadDelay(Fetch)
    /\ Exception("EXC")
    /\ branch' = NoBranch
    /\ pc' = VECTOR
    /\ UNCHANGED <<code, irq, gte, mem, before>>

\* It calls Exception itself, and m_pc is advanced like after any other: the
\* handler is entered at its second word.
StepRefused ==
    /\ Reached
    /\ Refused /\ ~branch.taken
    /\ Exception("COP")
    /\ regs' = Apply(regs, delay) /\ delay' = None
    /\ branch' = NoBranch
    /\ pc' = VECTOR + 1
    /\ UNCHANGED <<code, irq, gte, mem, before>>

\* In the slot of a taken branch m_pc becomes the branch's target instead.
StepRefusedTaken ==
    /\ Reached
    /\ Refused /\ branch.taken
    /\ Exception("COP")
    /\ regs' = Apply(regs, delay) /\ delay' = None
    /\ branch' = NoBranch
    /\ pc' = branch.dest
    /\ UNCHANGED <<code, irq, gte, mem, before>>

\* It was in the delay slot of a branch that is taken.
StepBranch ==
    /\ Reached
    /\ ~Excepts(Fetch, regs) /\ ~Refused /\ branch.taken
    /\ UpdateRegs(Fetch)
    /\ gte' = Command(Fetch, gte) /\ mem' = Stored(Fetch, regs, mem)
    /\ cop0' = Status(Fetch)
    /\ branch' = NoBranch
    /\ pc' = Branched(Fetch).dest
    /\ UNCHANGED <<code, irq, before>>

\* Bug: the flags of a branch that is not taken stay.
StepNextKeepsDelay ==
    /\ Reached
    /\ ~Excepts(Fetch, regs) /\ ~Refused /\ ~branch.taken
    /\ UpdateRegs(Fetch)
    /\ gte' = Command(Fetch, gte) /\ mem' = Stored(Fetch, regs, mem)
    /\ cop0' = Status(Fetch)
    /\ branch' = Branched(Fetch)
    /\ pc' = pc + 1
    /\ before' = IF IsBranch(Fetch) THEN [regs |-> regs, delay |-> delay] ELSE before
    /\ UNCHANGED <<code, irq>>

\* It is any other instruction, perhaps in the slot of a branch that is not taken.
StepNext ==
    /\ Reached
    /\ ~Excepts(Fetch, regs) /\ ~Refused /\ ~branch.taken
    /\ UpdateRegs(Fetch)
    /\ gte' = Command(Fetch, gte) /\ mem' = Stored(Fetch, regs, mem)
    /\ branch' = [Branched(Fetch) EXCEPT !.delay = Branched(Fetch).delay /\ ~branch.delay]
    /\ pc' = pc + 1
    /\ before' = IF IsBranch(Fetch) THEN [regs |-> regs, delay |-> delay] ELSE before
    /\ cop0' = Status(Fetch)
    /\ UNCHANGED <<code, irq>>

\* The first instruction of the handler after an exception.
StepHandler ==
    /\ pc = VECTOR
    /\ regs' = Apply(regs, delay) /\ delay' = None
    /\ pc' = VECTOR + 1
    /\ UNCHANGED <<code, branch, cop0, irq, rerun, gte, mem, before>>

StepInstruction ==
    \/ TakeInterrupt \/ UnalignedPc
    \/ StepException \/ StepRefused \/ StepRefusedTaken
    \/ StepBranch \/ StepNext \/ StepHandler
-----------------------------------------------------------------------------
\* The rest of the interrupt handler, down to the RFE.
HandlerReturns ==
    /\ pc = VECTOR + 1 /\ cop0.excode = "INT"
    /\ irq' = FALSE
    /\ pc' = IF code[cop0.epc].op = "GTE" THEN cop0.epc + 1 ELSE cop0.epc
    /\ cop0' = [cop0 EXCEPT !.sr = Popped(cop0.sr)]
    /\ UNCHANGED <<code, regs, delay, branch, rerun, gte, mem, before>>

\* A device requests an interrupt.
Interrupt ==
    /\ ~irq /\ pc # END
    /\ irq' = TRUE
    /\ UNCHANGED <<code, pc, regs, delay, branch, cop0, rerun, gte, mem, before>>

Next == StepInstruction \/ HandlerReturns \/ Interrupt

Spec == Init /\ [][Next]_vars

\* The interpreter goes on, and so does the handler.
FairSpec == Spec /\ WF_vars(StepInstruction) /\ WF_vars(HandlerReturns)
-----------------------------------------------------------------------------
Handling == pc >= VECTOR /\ cop0.excode = "INT"
Trapped == pc >= VECTOR /\ cop0.excode # "INT"

\* Every variable has its type.
TypeOK ==
    /\ code \in Programs
    /\ pc \in 0..(VECTOR + 1)
    /\ regs \in [0..R -> Values] /\ regs[0] = 0
    /\ delay \in Pending
    /\ branch \in [delay : BOOLEAN, taken : BOOLEAN, dest : 0..BAD]
    /\ cop0 \in [sr : StatusRegister, epc : 0..BAD, bd : BOOLEAN,
                 excode : {"NONE", "INT", "ADEL", "EXC", "COP"}]
    /\ irq \in BOOLEAN /\ rerun \in BOOLEAN
    /\ gte \in Values /\ mem \in Values
    /\ before \in [regs : [0..R -> Values], delay : Pending]

\* The flags of system_status say what the last instruction was: a branch is in
\* its delay slot exactly if branch_delay is set, only such a branch can be taken,
\* and while the handler runs nothing of the interrupted program is left behind in
\* them.
SlotFlags ==
    /\ branch.taken => branch.delay
    /\ branch.delay => pc \in 1..(N - 1) /\ IsBranch(code[pc - 1])
    /\ pc >= VECTOR => branch = NoBranch

\* The program sees MipsArch, whatever interrupts it: no instruction is lost or
\* executed twice, also in a delay slot, next to a load or at a GTE command, except
\* an unusable one in the slot of a taken branch, of which nothing is left but the
\* mode.
ArchPc ==
    IF Handling THEN (IF code[cop0.epc].op = "GTE" THEN cop0.epc + 1 ELSE cop0.epc)
    ELSE IF Trapped THEN cop0.epc
    ELSE IF branch.delay THEN pc - 1 ELSE pc

Arch == INSTANCE MipsArch WITH
    pc <- ArchPc,
    regs <- IF branch.delay THEN before.regs ELSE regs,
    pend <- IF branch.delay THEN before.delay ELSE delay,
    rights <- Rights(IF pc >= VECTOR THEN cop0.sr.prev ELSE cop0.sr.curr, cop0.sr),
    trap <- IF Trapped
            THEN [epc |-> cop0.epc, bd |-> cop0.bd,
                  from |-> IF cop0.excode = "COP" THEN 1 ELSE 0]
            ELSE [epc |-> -1, bd |-> FALSE, from |-> 0]

ImplementsArchitecture == Arch!Spec

\* An interrupt that is requested and not masked is taken, also at a GTE command,
\* unless the program ends first.
InterruptTaken == (irq /\ cop0.sr.curr.ie) ~> (Handling \/ Trapped \/ pc = END)
=============================================================================
