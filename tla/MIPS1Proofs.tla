----------------------------- MODULE MIPS1Proofs -----------------------------
(***************************************************************************)
(* For every set of instructions, every number of registers and every      *)
(* program: the interpreter implements the architecture.                   *)
(*                                                                         *)
(* The argument: in a delay slot the registers are those that the branch   *)
(* made of the remembered ones, the flags say what the branch decided, and *)
(* a deferred interrupt is taken before the next GTE command.  A lost      *)
(* exception defers none, because in a program that never writes SR        *)
(* coprocessor 2 stays enabled, and in the others it is not in a slot.     *)
(***************************************************************************)
EXTENDS MIPS1, TLAPS

USE IsaAssumption

Regs == [0..R -> Values]

\* A value stays a value when it wraps.
LEMMA WrapType == \A v \in Nat : Wrap(v) \in Values
<1> SUFFICES ASSUME NEW v \in Nat PROVE v % (N + 2) \in 0..(N + 1)
  BY DEF Wrap, Values
<1> DEFINE m == N + 2
<1>1. m \in Nat /\ m > 0 /\ m - 1 = N + 1
  OBVIOUS
<1> HIDE DEF m
<1>2. v % m \in 0..(m - 1)
  BY <1>1
<1> QED BY <1>1, <1>2 DEF m

\* A write to a register, and none.
LEMMA ApplyType ==
  ASSUME NEW r \in Regs, NEW p \in Pending
  PROVE  Apply(r, p) \in Regs /\ Apply(r, p)[0] = r[0]
<1>1. \A x \in 0..R : (IF x = p.dest /\ x # 0 THEN p.value ELSE r[x]) \in Values
  BY DEF Pending, Regs
<1>2. 0 \in 0..R
  OBVIOUS
<1> QED BY <1>1, <1>2 DEF Apply, Regs

LEMMA ApplyNone == \A r \in Regs : Apply(r, None) = r
<1> SUFFICES ASSUME NEW r \in Regs PROVE Apply(r, None) = r
  OBVIOUS
<1>1. \A x \in 0..R : x # -1
  OBVIOUS
<1> QED BY <1>1 DEF Apply, None, Regs

LEMMA NoneType == None \in Pending
BY DEF None, Pending, Values

\* The instructions of a program.
LEMMA CodeType ==
  ASSUME NEW c \in Programs, NEW a \in 0..(N - 1)
  PROVE  /\ c[a] \in Instr
         /\ IsBranch(c[a]) => a + 1 < N /\ ~IsBranch(c[a + 1])
         /\ c[a].op = "JR" => c[a].rt # c[a].rs
BY DEF Programs, WellFormed

\* What an instruction writes.
LEMMA ResultType ==
  ASSUME NEW i \in Instr, NEW r \in Regs, NEW a \in 0..(N - 1)
  PROVE  Result(i, r, a) \in Pending
<1>1. i.rt \in -1..R /\ i.rs \in 0..R
  BY DEF Instr
<1>2. r[i.rs] \in Values
  BY <1>1 DEF Regs
<1>3. r[i.rs] + 1 \in Nat /\ a + 2 \in Nat
  BY <1>2 DEF Values
<1>4. Wrap(r[i.rs] + 1) \in Values /\ Wrap(a + 2) \in Values
  BY <1>3, WrapType
<1>5. [dest |-> i.rt, value |-> Wrap(r[i.rs] + 1)] \in Pending
  BY <1>1, <1>4 DEF Pending
<1>6. [dest |-> i.rt, value |-> Wrap(a + 2)] \in Pending
  BY <1>1, <1>4 DEF Pending
<1>7. \/ Result(i, r, a) = [dest |-> i.rt, value |-> Wrap(r[i.rs] + 1)]
      \/ Result(i, r, a) = [dest |-> i.rt, value |-> Wrap(a + 2)]
      \/ Result(i, r, a) = None
  BY DEF Result
<1> QED BY <1>5, <1>6, <1>7, NoneType

LEMMA LoadedType ==
  ASSUME NEW i \in Instr, NEW r \in Regs, NEW p \in Pending, NEW g \in Values, NEW w \in Values
  PROVE  Loaded(i, r, p, g, w) \in Pending
<1> DEFINE mg == Merge(i, r, p, w)
<1>1. i.rt \in -1..R /\ i.rt \in 0..R
  BY DEF Instr
<1>2. r[i.rt] \in Nat /\ p.value \in Nat /\ w \in Nat
  BY <1>1 DEF Regs, Values, Pending
<1>3. (IF p.dest = i.rt THEN p.value ELSE r[i.rt]) + w + 1 \in Nat
  BY <1>2
<1>4. mg \in Values
  BY <1>3, WrapType DEF Merge
<1>5. [dest |-> i.rt, value |-> mg] \in Pending
  BY <1>1, <1>4 DEF Pending
<1>6. [dest |-> i.rt, value |-> w] \in Pending
  BY <1>1 DEF Pending
<1>7. [dest |-> i.rt, value |-> g] \in Pending
  BY <1>1 DEF Pending
<1>8. \/ Loaded(i, r, p, g, w) = [dest |-> i.rt, value |-> w]
      \/ Loaded(i, r, p, g, w) = [dest |-> i.rt, value |-> mg]
      \/ Loaded(i, r, p, g, w) = [dest |-> i.rt, value |-> g]
      \/ Loaded(i, r, p, g, w) = None
  BY DEF Loaded
<1> QED BY <1>5, <1>6, <1>7, <1>8, NoneType

LEMMA StoredType ==
  ASSUME NEW i \in Instr, NEW r \in Regs, NEW g \in Values, NEW w \in Values
  PROVE  Stored(i, r, w) \in Values /\ Command(i, g) \in Values
<1>1. r[i.rt] \in Values
  BY DEF Instr, Regs
<1>2. g + 1 \in Nat
  BY DEF Values
<1> QED BY <1>1, <1>2, WrapType DEF Stored, Command

LEMMA TargetType ==
  ASSUME NEW i \in Instr, NEW r \in Regs
  PROVE  Target(i, r) \in 0..BAD /\ (i.op # "JR" => Target(i, r) \in 0..N)
<1>1. r[i.rs] \in 0..(N + 1) /\ i.to \in 0..N
  BY DEF Instr, Regs, Values
<1> QED BY <1>1 DEF Target, BAD
-----------------------------------------------------------------------------
(***************************************************************************)
(* The invariant.                                                          *)
(***************************************************************************)

\* In a delay slot everything is as the branch left it.
Slot ==
    branch.delay =>
        LET b == code[pc - 1] IN
        /\ pc \in 1..(N - 1) /\ IsBranch(b)
        /\ delay = None
        /\ regs = Apply(Apply(before.regs, before.delay), Result(b, before.regs, pc - 1))
        /\ branch.taken <=> Taken(b, before.regs)
        /\ branch.taken => branch.dest = Target(b, before.regs)

\* While the program runs, an interrupt that was deferred at a COP2 instruction is
\* still requested and meets no GTE command.
Deferred ==
    rerun /\ pc < VECTOR => /\ irq /\ cop0.sr.curr.ie /\ ~branch.delay
                            /\ pc \in 0..N
                            /\ pc < N => code[pc].op # "GTE"

\* Only a write to SR disables coprocessor 2.
Enabled ==
    (\A b \in 0..(N - 1) : code[b].op # "MTC") => 2 \in cop0.sr.enabled

\* In the handler, the cause register tells whether it was reached from an interrupt
\* or at the end of the program.
Mode ==
    /\ pc = VECTOR => cop0.excode = "EXC" /\ delay = None
    /\ pc >= VECTOR /\ cop0.excode = "INT" => /\ cop0.epc \in 0..(N - 1)
                                             /\ code[cop0.epc].op # "GTE"
                                             /\ ~rerun
    /\ branch.taken => branch.delay
    /\ pc >= VECTOR => branch = NoBranch

Inv == TypeOK /\ Slot /\ Deferred /\ Enabled /\ Mode

BranchType == [delay : BOOLEAN, taken : BOOLEAN, dest : 0..BAD]
CopType == [sr : StatusRegister, epc : 0..BAD, bd : BOOLEAN,
            excode : {"NONE", "INT", "ADEL", "EXC", "COP"}]

\* An exception pushes a level of SR, RFE pops one.
LEMMA StackType ==
  ASSUME NEW sr \in StatusRegister
  PROVE  /\ Pushed(sr) \in StatusRegister /\ Pushed(sr).enabled = sr.enabled
         /\ Pushed(sr).curr = Kernel /\ Pushed(sr).prev = sr.curr
         /\ Popped(sr) \in StatusRegister /\ Popped(sr).enabled = sr.enabled
         /\ Popped(sr).curr = sr.prev
<1> DEFINE k == Kernel
<1>1. k \in Level
  BY DEF Kernel, Level
<1>2. sr.curr \in Level /\ sr.prev \in Level /\ sr.old \in Level
  BY DEF StatusRegister
<1> HIDE DEF k
<1> DEFINE y == [sr EXCEPT !.curr = k, !.prev = sr.curr, !.old = sr.prev]
           z == [sr EXCEPT !.curr = sr.prev, !.prev = sr.old]
<1>3. y \in StatusRegister /\ y.enabled = sr.enabled /\ y.curr = k /\ y.prev = sr.curr
  BY <1>1, <1>2 DEF StatusRegister
<1>4. z \in StatusRegister /\ z.enabled = sr.enabled /\ z.curr = sr.prev
  BY <1>2 DEF StatusRegister
<1>5. Pushed(sr) = y /\ Popped(sr) = z
  BY DEF Pushed, Popped, k
<1> QED BY <1>3, <1>4, <1>5 DEF k

LEMMA NoBranchType ==
  /\ NoBranch \in BranchType
  /\ NoBranch.delay = FALSE /\ NoBranch.taken = FALSE
BY DEF NoBranch, BranchType, BAD

LEMMA InitRegs ==
  /\ [r \in 0..R |-> Wrap(r)] \in Regs
  /\ [r \in 0..R |-> Wrap(r)][0] = 0
<1>1. \A r \in 0..R : Wrap(r) \in Values
  BY WrapType
<1>2. 0 \in 0..R
  OBVIOUS
<1>3. Wrap(0) = 0
  <2> DEFINE m == N + 2
  <2>1. m \in Nat /\ m > 0
    OBVIOUS
  <2> HIDE DEF m
  <2>2. 0 % m = 0
    BY <2>1
  <2> QED BY <2>2 DEF m, Wrap
<1> QED BY <1>1, <1>2, <1>3 DEF Regs

LEMMA InitInv == Init => Inv
<1> SUFFICES ASSUME Init PROVE Inv
  OBVIOUS
<1> USE DEF Init
<1>1. regs \in Regs /\ regs[0] = 0 /\ before.regs \in Regs
  BY InitRegs
<1>2. before \in [regs : [0..R -> Values], delay : Pending]
  BY <1>1, NoneType DEF Regs
<1>3. branch \in BranchType
  BY NoBranchType
<1>4. cop0 \in CopType /\ 2 \in cop0.sr.enabled
  <2> DEFINE lv == [ie |-> TRUE, user |-> FALSE]
             k == Kernel
             sr == [curr |-> lv, prev |-> k, old |-> k, enabled |-> {2}]
             x == [sr |-> sr, epc |-> 0, bd |-> FALSE, excode |-> "NONE"]
  <2>1. lv \in Level /\ k \in Level
    BY DEF Kernel, Level
  <2> HIDE DEF lv, k
  <2>2. sr \in StatusRegister /\ 2 \in sr.enabled
    BY <2>1 DEF StatusRegister
  <2> HIDE DEF sr
  <2>3. x \in CopType /\ x.sr = sr
    BY <2>2 DEF CopType, BAD
  <2>4. cop0 = x
    BY DEF x, sr, lv, k
  <2> QED BY <2>2, <2>3, <2>4
<1>5. pc \in 0..(VECTOR + 1) /\ gte \in Values /\ mem \in Values
  BY DEF VECTOR, Values
<1>6. TypeOK
  BY <1>1, <1>2, <1>3, <1>4, <1>5, NoneType DEF TypeOK, Regs, BranchType, CopType
<1>7. Mode
  BY DEF Mode, NoBranch, VECTOR
<1> QED BY <1>4, <1>6, <1>7, NoBranchType DEF Inv, Slot, Deferred, Enabled
-----------------------------------------------------------------------------
(***************************************************************************)
(* Every step preserves the invariant.                                     *)
(***************************************************************************)

\* The types, by the names used here.
LEMMA Types ==
  ASSUME TypeOK
  PROVE  /\ code \in Programs /\ pc \in 0..(VECTOR + 1) /\ pc \in Int
         /\ regs \in Regs /\ regs[0] = 0
         /\ delay \in Pending
         /\ branch \in BranchType /\ cop0 \in CopType
         /\ irq \in BOOLEAN /\ rerun \in BOOLEAN
         /\ gte \in Values /\ mem \in Values
         /\ before.regs \in Regs /\ before.delay \in Pending
         /\ branch.delay \in BOOLEAN /\ branch.taken \in BOOLEAN /\ branch.dest \in 0..BAD
         /\ cop0.sr \in StatusRegister
         /\ cop0.sr.curr.ie \in BOOLEAN /\ cop0.sr.prev.ie \in BOOLEAN
<1> USE DEF TypeOK
<1>1. pc \in Int
  BY DEF VECTOR
<1>2. branch \in BranchType /\ cop0 \in CopType
  BY DEF BranchType, CopType
<1>3. branch.delay \in BOOLEAN /\ branch.taken \in BOOLEAN /\ branch.dest \in 0..BAD
  BY <1>2 DEF BranchType
<1>4. cop0.sr \in StatusRegister
  BY <1>2 DEF CopType
<1>6. cop0.sr.curr.ie \in BOOLEAN /\ cop0.sr.prev.ie \in BOOLEAN
  BY <1>4 DEF StatusRegister, Level
<1>5. before.regs \in Regs /\ before.delay \in Pending /\ regs \in Regs
  BY DEF Regs
<1> QED BY <1>1, <1>2, <1>3, <1>4, <1>5, <1>6

\* What UpdateRegs and FlushLoadDelay write.
LEMMA UpdateType ==
  ASSUME TypeOK, pc < N
  PROVE  /\ pc \in 0..(N - 1) /\ Fetch \in Instr
         /\ CurrDelay(Fetch) \in Pending /\ NextDelay(Fetch) \in Pending
         /\ RegWriteback(Fetch) \in Pending
         /\ UpdateRegs(Fetch) => regs' \in Regs /\ regs'[0] = 0 /\ delay' \in Pending
         /\ FlushLoadDelay(Fetch) => regs' \in Regs /\ regs'[0] = 0 /\ delay' \in Pending
<1>1. pc \in 0..(N - 1)
  BY Types DEF VECTOR
<1>2. Fetch \in Instr
  BY <1>1, Types, CodeType DEF Fetch
<1>3. CurrDelay(Fetch) \in Pending
  BY Types, NoneType DEF CurrDelay
<1>4. NextDelay(Fetch) \in Pending
  BY <1>2, Types, NoneType, LoadedType DEF NextDelay
<1>5. RegWriteback(Fetch) \in Pending
  BY <1>1, <1>2, Types, NoneType, ResultType DEF RegWriteback
<1> DEFINE r1 == Apply(regs, CurrDelay(Fetch))
           r2 == Apply(r1, RegWriteback(Fetch))
           r3 == Apply(r2, NextDelay(Fetch))
<1>6. r1 \in Regs /\ r1[0] = 0
  BY <1>3, Types, ApplyType
<1>7. r2 \in Regs /\ r2[0] = 0
  <2> HIDE DEF r1
  <2> QED BY <1>6, <1>5, ApplyType
<1>8. r3 \in Regs /\ r3[0] = 0
  <2> HIDE DEF r2
  <2> QED BY <1>7, <1>4, ApplyType
<1>9. UpdateRegs(Fetch) => regs' = r2 /\ delay' \in Pending
  BY <1>4 DEF UpdateRegs
<1>10. FlushLoadDelay(Fetch) => regs' = r3 /\ delay' \in Pending
  BY NoneType DEF FlushLoadDelay
<1> QED BY <1>1, <1>2, <1>3, <1>4, <1>5, <1>7, <1>8, <1>9, <1>10

\* An exception.
LEMMA ExceptionType ==
  ASSUME TypeOK, Slot, NEW e \in {"INT", "ADEL", "EXC", "COP"}, Exception(e), pc \in 0..BAD
  PROVE  /\ cop0' \in CopType /\ cop0'.excode = e
         /\ cop0'.epc = (IF branch.delay THEN pc - 1 ELSE pc)
         /\ cop0'.bd = branch.delay
         /\ cop0'.sr = Pushed(cop0.sr)
<1>1. (IF branch.delay THEN pc - 1 ELSE pc) \in 0..BAD
  <2>1. CASE branch.delay
    BY <2>1 DEF Slot, BAD
  <2>2. CASE ~branch.delay
    BY <2>2
  <2> QED BY <2>1, <2>2
<1> DEFINE x == IF branch.delay THEN pc - 1 ELSE pc
           y == Pushed(cop0.sr)
<1>2. x \in 0..BAD /\ y \in StatusRegister
  BY <1>1, Types, StackType
<1>3. branch.delay \in BOOLEAN
  BY Types
<1>4. cop0' = [sr |-> y, epc |-> x, bd |-> branch.delay, excode |-> e]
  BY DEF Exception
<1> HIDE DEF x, y
<1>5. /\ cop0' \in CopType /\ cop0'.excode = e /\ cop0'.epc = x /\ cop0'.bd = branch.delay
      /\ cop0'.sr = y
  BY <1>2, <1>3, <1>4 DEF CopType
<1> QED BY <1>5 DEF x, y

\* Nothing but a write to SR changes what it enables.
LEMMA EnabledKept ==
  ASSUME Enabled, code' = code, cop0'.sr.enabled = cop0.sr.enabled
  PROVE  Enabled'
BY DEF Enabled

\* The types again, from their parts.
LEMMA TypesPrime ==
  ASSUME code' \in Programs, pc' \in 0..(VECTOR + 1),
         regs' \in Regs, regs'[0] = 0, delay' \in Pending,
         branch' \in BranchType, cop0' \in CopType,
         irq' \in BOOLEAN, rerun' \in BOOLEAN, gte' \in Values, mem' \in Values,
         before' \in [regs : [0..R -> Values], delay : Pending]
  PROVE  TypeOK'
BY DEF TypeOK, Regs, BranchType, CopType

LEMMA TakeInterruptInv == Inv /\ TakeInterrupt => Inv'
<1> SUFFICES ASSUME Inv, TakeInterrupt PROVE Inv'
  OBVIOUS
<1> USE DEF Inv, TakeInterrupt
<1>1. regs' \in Regs /\ regs'[0] = 0
  BY Types, ApplyType
<1>2. pc \in 0..(N - 1)
  BY Types DEF VECTOR
<1>3. /\ cop0' \in CopType /\ cop0'.excode = "INT"
      /\ cop0'.epc = (IF branch.delay THEN pc - 1 ELSE pc)
      /\ cop0'.sr = Pushed(cop0.sr)
  BY <1>2, ExceptionType DEF BAD
<1>4. branch' \in BranchType /\ branch'.delay = FALSE /\ branch'.taken = FALSE
  BY NoBranchType
<1>5. pc' = VECTOR + 1 /\ pc' \in 0..(VECTOR + 1)
  BY DEF VECTOR
<1>6. TypeOK'
  BY <1>1, <1>3, <1>4, <1>5, Types, TypesPrime, NoneType DEF TypeOK
<1>7. cop0'.epc \in 0..(N - 1) /\ code[cop0'.epc].op # "GTE"
  <2>1. CASE branch.delay
    BY <2>1, <1>2, <1>3 DEF Slot, IsBranch
  <2>2. CASE ~branch.delay
    BY <2>2, <1>2, <1>3 DEF Deferred, Fetch, IsCop2, VECTOR
  <2> QED BY <2>1, <2>2
<1>8. Mode'
  BY <1>3, <1>4, <1>5, <1>7 DEF Mode, VECTOR
<1>9. Slot' /\ Deferred'
  BY <1>4 DEF Slot, Deferred
<1>10. Enabled'
  BY <1>3, Types, StackType, EnabledKept
<1> QED BY <1>6, <1>8, <1>9, <1>10

LEMMA UnalignedPcInv == Inv /\ UnalignedPc => Inv'
<1> SUFFICES ASSUME Inv, UnalignedPc PROVE Inv'
  OBVIOUS
<1> USE DEF Inv, UnalignedPc
<1>1. regs' \in Regs /\ regs'[0] = 0
  BY Types, ApplyType
<1>2. pc \in 0..BAD
  BY DEF BAD
<1>3. cop0' \in CopType /\ cop0'.excode = "ADEL" /\ cop0'.sr = Pushed(cop0.sr)
  BY <1>2, ExceptionType
<1>4. branch' \in BranchType /\ branch'.delay = FALSE /\ branch'.taken = FALSE
  BY NoBranchType
<1>5. pc' = VECTOR + 1 /\ pc' \in 0..(VECTOR + 1)
  BY DEF VECTOR
<1>6. TypeOK'
  BY <1>1, <1>3, <1>4, <1>5, Types, TypesPrime, NoneType DEF TypeOK
<1>7. Mode'
  BY <1>3, <1>4, <1>5 DEF Mode, VECTOR
<1>8. Slot' /\ Deferred'
  BY <1>4, <1>5 DEF Slot, Deferred, VECTOR
<1>9. Enabled'
  BY <1>3, Types, StackType, EnabledKept
<1> QED BY <1>6, <1>7, <1>8, <1>9

\* What the interpreter knows when it executes an instruction.
LEMMA ReachedFacts ==
  ASSUME Inv, Reached
  PROVE  /\ pc \in 0..(N - 1) /\ pc < N /\ pc < VECTOR /\ Fetch \in Instr
         /\ ~rerun /\ rerun' \in BOOLEAN
         /\ rerun' => IsCop2(Fetch) /\ irq /\ cop0.sr.curr.ie
         /\ branch.delay => ~IsBranch(Fetch)
         /\ IsBranch(Fetch) => pc + 1 < N
<1> USE DEF Inv, Reached
<1>1. pc \in 0..(N - 1) /\ Fetch \in Instr
  BY UpdateType
<1>2. pc < VECTOR
  BY <1>1 DEF VECTOR
<1>3. ~rerun
  BY <1>2 DEF Deferred, CheckInterrupts
<1>4. rerun' = CheckInterrupts
  BY <1>3, Types DEF CheckInterrupts
<1>5. rerun' \in BOOLEAN
  BY <1>4, Types DEF CheckInterrupts
<1>6. rerun' => IsCop2(Fetch) /\ irq /\ cop0.sr.curr.ie
  BY <1>4 DEF CheckInterrupts
<1>7. branch.delay => ~IsBranch(Fetch)
  <2> SUFFICES ASSUME branch.delay PROVE ~IsBranch(Fetch)
    OBVIOUS
  <2>1. pc - 1 \in 0..(N - 1) /\ IsBranch(code[pc - 1]) /\ (pc - 1) + 1 = pc
    BY DEF Slot
  <2> QED BY <2>1, CodeType, Types DEF Fetch
<1>8. IsBranch(Fetch) => pc + 1 < N
  BY <1>1, CodeType, Types DEF Fetch
<1> QED BY <1>1, <1>2, <1>3, <1>5, <1>6, <1>7, <1>8

\* A write to SR.
LEMMA StatusType ==
  ASSUME TypeOK, NEW i \in Instr
  PROVE  /\ Status(i) \in CopType
         /\ Status(i).sr = IF i.op = "MTC" THEN Sr[regs[i.rt]] ELSE cop0.sr
         /\ i.op # "MTC" => Status(i) = cop0
<1> DEFINE x == Sr[regs[i.rt]]
           y == [cop0 EXCEPT !.sr = x]
<1>1. x \in StatusRegister
  <2>1. regs[i.rt] \in Values
    BY Types DEF Instr, Regs
  <2> QED BY <2>1
<1>2. Status(i) = (IF i.op = "MTC" THEN y ELSE cop0)
  BY DEF Status
<1> HIDE DEF x
<1>3. cop0 \in CopType
  BY Types
<1>4. y \in CopType /\ y.sr = x
  BY <1>1, <1>3 DEF CopType
<1> HIDE DEF y
<1> QED BY <1>2, <1>3, <1>4 DEF x

\* A program that writes SR says so.
LEMMA StatusEnabled ==
  ASSUME Inv, pc \in 0..(N - 1), code' = code, cop0' = Status(Fetch)
  PROVE  Enabled'
<1>1. CASE Fetch.op = "MTC"
  BY <1>1 DEF Enabled, Fetch
<1>2. CASE Fetch.op # "MTC"
  BY <1>2, EnabledKept DEF Inv, Status
<1> QED BY <1>1, <1>2

\* The flags after an instruction.
LEMMA BranchedType ==
  ASSUME TypeOK, NEW i \in Instr
  PROVE  /\ Branched(i) \in BranchType
         /\ ~IsBranch(i) => Branched(i) = branch
         /\ IsBranch(i) => /\ Branched(i).delay
                           /\ Taken(i, regs) => Branched(i).taken /\ Branched(i).dest = Target(i, regs)
                           /\ ~Taken(i, regs) => Branched(i).taken = branch.taken
<1> DEFINE yes == TRUE
           y == [delay |-> yes, taken |-> yes, dest |-> Target(i, regs)]
           z == [branch EXCEPT !.delay = yes]
<1>1. yes \in BOOLEAN /\ yes
  OBVIOUS
<1>2. Branched(i) = (IF ~IsBranch(i) THEN branch ELSE IF Taken(i, regs) THEN y ELSE z)
  BY DEF Branched
<1>3. Target(i, regs) \in 0..BAD
  BY TargetType, Types
<1>4. branch \in BranchType
  BY Types
<1> HIDE DEF yes
<1>5. y \in BranchType /\ y.delay /\ y.taken /\ y.dest = Target(i, regs)
  BY <1>1, <1>3 DEF BranchType
<1>6. z \in BranchType /\ z.delay /\ z.taken = branch.taken
  BY <1>1, <1>4 DEF BranchType
<1> HIDE DEF y, z
<1> QED BY <1>2, <1>4, <1>5, <1>6

LEMMA StepExceptionInv == Inv /\ StepException => Inv'
<1> SUFFICES ASSUME Inv, StepException PROVE Inv'
  OBVIOUS
<1> USE DEF Inv, StepException
<1>0. /\ pc \in 0..(N - 1) /\ pc < N /\ ~rerun /\ rerun' \in BOOLEAN
      /\ rerun' => IsCop2(Fetch)
  BY ReachedFacts
<1>1. regs' \in Regs /\ regs'[0] = 0 /\ delay' \in Pending
  BY <1>0, UpdateType
<1>2. cop0' \in CopType /\ cop0'.excode = "EXC" /\ cop0'.sr = Pushed(cop0.sr)
  BY <1>0, ExceptionType DEF BAD
<1>3. branch' \in BranchType /\ branch'.delay = FALSE /\ branch'.taken = FALSE
  BY NoBranchType
<1>4. pc' = VECTOR /\ pc' \in 0..(VECTOR + 1)
  BY DEF VECTOR
<1>5. TypeOK'
  BY <1>0, <1>1, <1>2, <1>3, <1>4, Types, TypesPrime DEF TypeOK
<1>6. delay' = None
  BY DEF FlushLoadDelay
<1>7. Mode'
  BY <1>2, <1>3, <1>4, <1>6 DEF Mode, VECTOR
<1>8. Slot' /\ Deferred'
  BY <1>3, <1>4 DEF Slot, Deferred
<1>9. Enabled'
  BY <1>2, Types, StackType, EnabledKept
<1> QED BY <1>5, <1>7, <1>8, <1>9

\* The instruction in a slot that is refused deferred no interrupt.
LEMMA RefusedSlot ==
  ASSUME Inv, Reached, Refused, branch.delay
  PROVE  ~rerun'
<1> SUFFICES ASSUME rerun' PROVE FALSE
  OBVIOUS
<1>1. IsCop2(Fetch)
  BY ReachedFacts
<1> DEFINE a == pc - 1
<1>2. a \in 0..(N - 1) /\ a + 1 = pc /\ IsBranch(code[a])
  BY DEF Inv, Slot
<1>3. code \in Programs
  BY Types DEF Inv
<1>4. IsCop2(code[a + 1])
  BY <1>1, <1>2 DEF Fetch
<1> HIDE DEF a
<1>5. \A b \in 0..(N - 1) : code[b].op # "MTC"
  BY <1>2, <1>3, <1>4 DEF Programs, WellFormed
<1>6. 2 \in cop0.sr.enabled
  BY <1>5 DEF Inv, Enabled
<1>7. Fetch.op # "COP" /\ Fetch.op # "MTC"
  BY <1>1 DEF IsCop2
<1> QED BY <1>6, <1>7 DEF Refused, Unusable, Rights

\* What an unusable instruction leaves.
LEMMA RefusedParts ==
  ASSUME Inv, Reached, Refused, Exception("COP"),
         regs' = Apply(regs, delay), delay' = None, branch' = NoBranch,
         pc' \in 0..(VECTOR + 1), pc' # VECTOR,
         UNCHANGED <<code, irq, gte, mem, before>>
  PROVE  TypeOK' /\ Slot' /\ Enabled' /\ Mode'
<1>1. pc \in 0..(N - 1) /\ rerun' \in BOOLEAN
  BY ReachedFacts
<1>2. regs' \in Regs /\ regs'[0] = 0
  BY Types, ApplyType DEF Inv
<1>3. cop0' \in CopType /\ cop0'.excode = "COP" /\ cop0'.sr = Pushed(cop0.sr)
  BY <1>1, ExceptionType DEF BAD, Inv
<1>4. branch' \in BranchType /\ branch'.delay = FALSE /\ branch'.taken = FALSE
  BY NoBranchType
<1>5. TypeOK'
  BY <1>1, <1>2, <1>3, <1>4, Types, TypesPrime, NoneType DEF TypeOK, Inv
<1>6. Mode'
  BY <1>3, <1>4 DEF Mode
<1>7. Slot'
  BY <1>4 DEF Slot
<1>8. Enabled'
  BY <1>3, Types, StackType, EnabledKept DEF Inv
<1> QED BY <1>5, <1>6, <1>7, <1>8

LEMMA StepRefusedInv == Inv /\ StepRefused => Inv'
<1> SUFFICES ASSUME Inv, StepRefused PROVE Inv'
  OBVIOUS
<1> USE DEF StepRefused
<1>1. pc' \in 0..(VECTOR + 1) /\ pc' > VECTOR
  BY DEF VECTOR
<1>2. TypeOK' /\ Slot' /\ Enabled' /\ Mode'
  BY <1>1, RefusedParts DEF VECTOR
<1>3. Deferred'
  BY <1>1 DEF Deferred, VECTOR
<1> QED BY <1>2, <1>3 DEF Inv

LEMMA StepRefusedTakenInv == Inv /\ StepRefusedTaken => Inv'
<1> SUFFICES ASSUME Inv, StepRefusedTaken PROVE Inv'
  OBVIOUS
<1> USE DEF StepRefusedTaken
<1>1. pc' \in 0..(VECTOR + 1) /\ pc' # VECTOR
  BY Types DEF VECTOR, BAD, Inv
<1>2. TypeOK' /\ Slot' /\ Enabled' /\ Mode'
  BY <1>1, RefusedParts
<1>3. branch.delay
  BY DEF Inv, Mode
<1>4. Deferred'
  BY <1>3, RefusedSlot DEF Deferred
<1> QED BY <1>2, <1>4 DEF Inv

LEMMA StepBranchInv == Inv /\ StepBranch => Inv'
<1> SUFFICES ASSUME Inv, StepBranch PROVE Inv'
  OBVIOUS
<1> USE DEF Inv, StepBranch
<1>0. /\ pc \in 0..(N - 1) /\ pc < N /\ Fetch \in Instr /\ rerun' \in BOOLEAN
      /\ rerun' => IsCop2(Fetch) /\ irq /\ cop0.sr.curr.ie
      /\ branch.delay => ~IsBranch(Fetch)
  BY ReachedFacts
<1>1. regs' \in Regs /\ regs'[0] = 0 /\ delay' \in Pending
  BY <1>0, UpdateType
<1>2. branch.delay
  BY DEF Mode
<1>3. cop0' \in CopType
  BY <1>0, StatusType
<1>4. pc' = branch.dest /\ pc' \in 0..BAD
  BY <1>0, <1>2, BranchedType, Types
<1>5. branch' \in BranchType /\ branch'.delay = FALSE /\ branch'.taken = FALSE
  BY NoBranchType
<1>6. pc' \in 0..(VECTOR + 1) /\ pc' < VECTOR
  BY <1>4 DEF VECTOR, BAD
<1>7. gte' \in Values /\ mem' \in Values
  BY <1>0, Types, StoredType
<1>8. TypeOK'
  BY <1>0, <1>1, <1>3, <1>5, <1>6, <1>7, Types, TypesPrime DEF TypeOK
<1>9. Mode'
  BY <1>3, <1>5, <1>6 DEF Mode, VECTOR
<1>10. Slot'
  BY <1>5 DEF Slot
<1>11. ASSUME rerun' PROVE pc' \in 0..N /\ (pc' < N => code[pc'].op # "GTE")
  <2> DEFINE a == pc - 1
  <2>1. a \in 0..(N - 1) /\ a + 1 = pc /\ IsBranch(code[a])
    BY <1>2 DEF Slot
  <2>2. IsCop2(code[a + 1])
    BY <1>11, <1>0, <2>1 DEF Fetch
  <2>3. code \in Programs /\ code[a] \in Instr
    BY <2>1, CodeType, Types
  <2> HIDE DEF a
  <2>4. code[a].op # "JR" /\ (code[a].to < N => code[code[a].to].op # "GTE")
    BY <2>1, <2>2, <2>3 DEF Programs, WellFormed
  <2>5. pc' = code[a].to
    BY <1>2, <1>4, <2>4 DEF Slot, Target, a
  <2>6. code[a].to \in 0..N
    BY <2>3 DEF Instr
  <2> QED BY <2>4, <2>5, <2>6
<1>12. rerun' => irq' /\ cop0'.sr.curr.ie
  <2>1. IsCop2(Fetch) => cop0' = cop0
    BY <1>0, StatusType DEF IsCop2
  <2> QED BY <2>1, <1>0
<1>13. Deferred'
  BY <1>5, <1>11, <1>12 DEF Deferred
<1>14. Enabled'
  BY <1>0, StatusEnabled
<1> QED BY <1>8, <1>9, <1>10, <1>13, <1>14

\* The flags after StepNext.
LEMMA StepNextFlags ==
  ASSUME Inv, StepNext
  PROVE  /\ branch' \in BranchType
         /\ ~IsBranch(Fetch) => branch'.delay = FALSE /\ branch'.taken = FALSE
         /\ IsBranch(Fetch) => /\ ~branch.delay /\ branch'.delay = TRUE
                               /\ branch'.taken <=> Taken(Fetch, regs)
                               /\ branch'.taken => branch'.dest = Target(Fetch, regs)
<1> USE DEF Inv, StepNext
<1>0. Fetch \in Instr /\ (branch.delay => ~IsBranch(Fetch))
  BY ReachedFacts
<1> DEFINE b == Branched(Fetch)
           d == b.delay /\ ~branch.delay
           y == [b EXCEPT !.delay = d]
<1>1. b \in BranchType
  BY <1>0, BranchedType
<1>2. d \in BOOLEAN
  OBVIOUS
<1>3. branch' = y
  OBVIOUS
<1>4. ~IsBranch(Fetch) => b = branch
  BY <1>0, BranchedType
<1>5. IsBranch(Fetch) => /\ b.delay
                         /\ Taken(Fetch, regs) => b.taken /\ b.dest = Target(Fetch, regs)
                         /\ ~Taken(Fetch, regs) => ~b.taken
  BY <1>0, BranchedType
<1>6. branch.delay \in BOOLEAN /\ branch.taken \in BOOLEAN /\ ~branch.taken
  BY Types
<1>7. ~IsBranch(Fetch) => d = FALSE
  BY <1>4
<1>8. IsBranch(Fetch) => d = TRUE
  BY <1>0, <1>5
<1> HIDE DEF b, d
<1>9. y \in BranchType /\ y.delay = d /\ y.taken = b.taken /\ y.dest = b.dest
  BY <1>1, <1>2 DEF BranchType
<1> HIDE DEF y
<1>10. ~IsBranch(Fetch) => branch'.delay = FALSE /\ branch'.taken = FALSE
  BY <1>3, <1>4, <1>6, <1>7, <1>9
<1>11. ASSUME IsBranch(Fetch)
       PROVE  /\ ~branch.delay /\ branch'.delay = TRUE
              /\ branch'.taken <=> Taken(Fetch, regs)
              /\ branch'.taken => branch'.dest = Target(Fetch, regs)
  BY <1>11, <1>0, <1>3, <1>5, <1>8, <1>9
<1> QED BY <1>3, <1>9, <1>10, <1>11

\* A branch loads nothing and cannot except.
LEMMA BranchUpdates ==
  ASSUME TypeOK, IsBranch(Fetch), UpdateRegs(Fetch)
  PROVE  /\ delay' = None
         /\ regs' = Apply(Apply(regs, delay), Result(Fetch, regs, pc))
<1>1. ~Excepts(Fetch, regs)
  BY DEF IsBranch, Excepts
<1>2. Loaded(Fetch, regs, delay, gte, mem) = None
  BY DEF IsBranch, Loaded
<1>3. CurrDelay(Fetch) = delay
  BY DEF CurrDelay, IsBranch
<1> QED BY <1>1, <1>2, <1>3 DEF UpdateRegs, NextDelay, RegWriteback

LEMMA StepNextInv == Inv /\ StepNext => Inv'
<1> SUFFICES ASSUME Inv, StepNext PROVE Inv'
  OBVIOUS
<1> USE DEF Inv, StepNext
<1>0. /\ pc \in 0..(N - 1) /\ pc < N /\ Fetch \in Instr /\ rerun' \in BOOLEAN
      /\ rerun' => IsCop2(Fetch) /\ irq /\ cop0.sr.curr.ie
      /\ IsBranch(Fetch) => pc + 1 < N
  BY ReachedFacts
<1>1. regs' \in Regs /\ regs'[0] = 0 /\ delay' \in Pending
  BY <1>0, UpdateType
<1>2. cop0' \in CopType /\ Enabled'
  BY <1>0, StatusType, StatusEnabled
<1>3. pc' = pc + 1 /\ pc' \in 1..N /\ pc' \in 0..(VECTOR + 1) /\ pc' < VECTOR
  BY <1>0 DEF VECTOR
<1>4. branch' \in BranchType
  BY StepNextFlags
<1>5. gte' \in Values /\ mem' \in Values
  BY <1>0, Types, StoredType
<1>6. before' \in [regs : [0..R -> Values], delay : Pending]
  <2>1. CASE IsBranch(Fetch)
    BY <2>1, Types DEF Regs
  <2>2. CASE ~IsBranch(Fetch)
    BY <2>2 DEF TypeOK
  <2> QED BY <2>1, <2>2
<1>7. TypeOK'
  BY <1>0, <1>1, <1>2, <1>3, <1>4, <1>5, <1>6, Types, TypesPrime DEF TypeOK
<1>8. CASE ~IsBranch(Fetch)
  <2>1. ~branch'.delay /\ ~branch'.taken
    BY <1>8, StepNextFlags
  <2>2. Slot' /\ Mode'
    BY <2>1, <1>2, <1>3 DEF Slot, Mode, VECTOR
  <2>3. ASSUME rerun' PROVE pc' < N => code[pc'].op # "GTE"
    <3>1. IsCop2(code[pc]) /\ code \in Programs
      BY <2>3, <1>0, Types DEF Fetch
    <3> QED BY <3>1, <1>0, <1>3 DEF Programs, WellFormed
  <2>4. rerun' => irq' /\ cop0'.sr.curr.ie
    <3>1. IsCop2(Fetch) => cop0' = cop0
      BY <1>0, StatusType DEF IsCop2
    <3> QED BY <3>1, <1>0
  <2>5. Deferred'
    BY <2>1, <2>3, <2>4, <1>3 DEF Deferred
  <2> QED BY <1>2, <1>7, <2>2, <2>5
<1>9. CASE IsBranch(Fetch)
  <2>1. /\ branch'.delay = TRUE
        /\ branch'.taken <=> Taken(Fetch, regs)
        /\ branch'.taken => branch'.dest = Target(Fetch, regs)
    BY <1>9, StepNextFlags
  <2>2. before' = [regs |-> regs, delay |-> delay]
    BY <1>9
  <2>3. before'.regs = regs /\ before'.delay = delay
    BY <2>2
  <2>4. delay' = None /\ regs' = Apply(Apply(regs, delay), Result(Fetch, regs, pc))
    BY <1>9, BranchUpdates
  <2>5. pc' - 1 = pc /\ pc' \in 1..(N - 1) /\ code'[pc' - 1] = Fetch
    BY <1>0, <1>3, <1>9 DEF Fetch
  <2>6. Slot'
    BY <1>9, <2>1, <2>3, <2>4, <2>5 DEF Slot
  <2>7. Mode'
    BY <2>1, <1>2, <1>3 DEF Mode, VECTOR
  <2>8. ~rerun'
    BY <1>0, <1>9 DEF IsBranch, IsCop2
  <2>9. Deferred'
    BY <2>8 DEF Deferred
  <2> QED BY <1>2, <1>7, <2>6, <2>7, <2>9
<1> QED BY <1>8, <1>9

LEMMA StepHandlerInv == Inv /\ StepHandler => Inv'
<1> SUFFICES ASSUME Inv, StepHandler PROVE Inv'
  OBVIOUS
<1> USE DEF Inv, StepHandler
<1>1. regs' \in Regs /\ regs'[0] = 0
  BY Types, ApplyType
<1>2. pc' = VECTOR + 1 /\ pc' \in 0..(VECTOR + 1) /\ pc >= VECTOR
  BY DEF VECTOR
<1>3. TypeOK'
  BY <1>1, <1>2, Types, TypesPrime, NoneType DEF TypeOK
<1>4. cop0.excode = "EXC" /\ branch = NoBranch
  BY <1>2 DEF Mode
<1>5. Mode'
  BY <1>2, <1>4, NoBranchType DEF Mode, VECTOR
<1>6. Slot' /\ Deferred'
  BY <1>2, <1>4, NoBranchType DEF Slot, Deferred, VECTOR
<1>7. Enabled'
  BY EnabledKept
<1> QED BY <1>3, <1>5, <1>6, <1>7

\* RFE.
LEMMA HandlerReturnsCop ==
  ASSUME TypeOK, HandlerReturns
  PROVE  cop0' \in CopType /\ cop0'.sr = Popped(cop0.sr) /\ cop0'.epc = cop0.epc
<1> DEFINE x == Popped(cop0.sr)
           y == [cop0 EXCEPT !.sr = x]
<1>1. x \in StatusRegister
  BY Types, StackType
<1>2. cop0' = y
  BY DEF HandlerReturns
<1>3. cop0 \in CopType
  BY Types
<1> HIDE DEF x
<1>4. y \in CopType /\ y.sr = x /\ y.epc = cop0.epc
  BY <1>1, <1>3 DEF CopType
<1> HIDE DEF y
<1> QED BY <1>2, <1>4 DEF x

LEMMA HandlerReturnsInv == Inv /\ HandlerReturns => Inv'
<1> SUFFICES ASSUME Inv, HandlerReturns PROVE Inv'
  OBVIOUS
<1> USE DEF Inv, HandlerReturns
<1>1. cop0.epc \in 0..(N - 1) /\ code[cop0.epc].op # "GTE" /\ ~rerun
  BY DEF Mode, VECTOR
<1>2. pc' = cop0.epc /\ pc' \in 0..(VECTOR + 1) /\ pc' < VECTOR /\ pc >= VECTOR
  BY <1>1 DEF VECTOR
<1>3. cop0' \in CopType /\ cop0'.sr = Popped(cop0.sr)
  BY HandlerReturnsCop
<1>4. TypeOK'
  BY <1>2, <1>3, Types, TypesPrime DEF TypeOK
<1>5. branch = NoBranch
  BY <1>2 DEF Mode
<1>6. Mode'
  BY <1>2, <1>3, <1>5, NoBranchType DEF Mode, VECTOR
<1>7. Slot' /\ Deferred'
  BY <1>1, <1>5, NoBranchType DEF Slot, Deferred
<1>8. Enabled'
  BY <1>3, Types, StackType, EnabledKept
<1> QED BY <1>4, <1>6, <1>7, <1>8

LEMMA InterruptInv == Inv /\ Interrupt => Inv'
<1> SUFFICES ASSUME Inv, Interrupt PROVE Inv'
  OBVIOUS
<1> USE DEF Inv, Interrupt
<1>1. TypeOK'
  BY Types, TypesPrime DEF TypeOK
<1>2. Slot' /\ Deferred' /\ Enabled' /\ Mode'
  BY DEF Slot, Deferred, Enabled, Mode
<1> QED BY <1>1, <1>2

LEMMA NextInv == Inv /\ [Next]_vars => Inv'
<1> SUFFICES ASSUME Inv, [Next]_vars PROVE Inv'
  OBVIOUS
<1>1. CASE UNCHANGED vars
  BY <1>1 DEF vars, Inv, TypeOK, Slot, Deferred, Enabled, Mode
<1> QED BY <1>1, TakeInterruptInv, UnalignedPcInv, StepExceptionInv, StepRefusedInv,
           StepRefusedTakenInv, StepBranchInv, StepNextInv, StepHandlerInv, HandlerReturnsInv, InterruptInv
        DEF Next, StepInstruction

\* The inductive invariant: where the flags, the delayed load and the deferred
\* interrupt of StepInstruction can stand in each mode.
THEOREM MIPS1Inv == Spec => []Inv
BY InitInv, NextInv, PTL DEF Spec

\* In every program, whatever interrupts it, the variables have their types and the
\* branch flags of system_status say what the last instruction was.
THEOREM MIPS1Safety == Spec => [](TypeOK /\ SlotFlags)
<1>1. Inv => TypeOK /\ SlotFlags
  <2> SUFFICES ASSUME Inv PROVE TypeOK /\ SlotFlags
    OBVIOUS
  <2>1. branch.delay => pc \in 1..(N - 1) /\ IsBranch(code[pc - 1])
    BY DEF Inv, Slot
  <2> QED BY <2>1 DEF Inv, Mode, SlotFlags
<1> QED BY <1>1, MIPS1Inv, PTL
-----------------------------------------------------------------------------
(***************************************************************************)
(* The interpreter implements the architecture.  These are the variables   *)
(* of MipsArch; its instructions are those of MipsIsa.                     *)
(***************************************************************************)
ARegs == IF branch.delay THEN before.regs ELSE regs
APend == IF branch.delay THEN before.delay ELSE delay
ARights == Rights(IF pc >= VECTOR THEN cop0.sr.prev ELSE cop0.sr.curr, cop0.sr)
ATrap ==
    IF Trapped
    THEN [epc |-> cop0.epc, bd |-> cop0.bd, from |-> IF cop0.excode = "COP" THEN 1 ELSE 0]
    ELSE [epc |-> -1, bd |-> FALSE, from |-> 0]
NoTrap == [epc |-> -1, bd |-> FALSE, from |-> 0]

LEMMA SameIsa ==
  /\ Arch!None = None /\ Arch!Programs = Programs
  /\ \A i : Arch!IsBranch(i) = IsBranch(i)
  /\ \A r, p : Arch!Apply(r, p) = Apply(r, p)
  /\ \A i, r : Arch!Excepts(i, r) = Excepts(i, r)
  /\ \A i, x : Arch!Unusable(i, x) = Unusable(i, x)
  /\ \A l, x : Arch!Rights(l, x) = Rights(l, x)
  /\ \A i, r, a : Arch!Result(i, r, a) = Result(i, r, a)
  /\ \A i, r, p, g, w : Arch!Loaded(i, r, p, g, w) = Loaded(i, r, p, g, w)
  /\ \A i, r, w : Arch!Stored(i, r, w) = Stored(i, r, w)
  /\ \A i, g : Arch!Command(i, g) = Command(i, g)
  /\ \A i, r : Arch!Taken(i, r) = Taken(i, r)
  /\ \A i, r : Arch!Target(i, r) = Target(i, r)
  /\ Arch!BAD = BAD
BY DEF Arch!None, None, Arch!Programs, Programs, Arch!WellFormed, WellFormed, Arch!IsBranch,
       IsBranch, Arch!Apply, Apply, Arch!Excepts, Excepts, Arch!Highest, Highest, Arch!Result,
       Result, Arch!Wrap, Wrap, Arch!Loaded, Loaded, Arch!Merge, Merge, Arch!Stored, Stored,
       Arch!IsCop2, IsCop2, Arch!Unusable, Unusable, Arch!Rights, Rights,
       Arch!Command, Command, Arch!Taken, Taken, Arch!Target, Target, Arch!BAD, BAD

\* A write to the zero register.
LEMMA ApplyZero == \A r \in Regs, p \in Pending : p.dest = 0 => Apply(r, p) = r
BY DEF Apply, Regs

\* An instruction of the interpreter has an effect of the architecture.
LEMMA StepEffects ==
  ASSUME TypeOK, pc < N, ~Excepts(Fetch, regs), UpdateRegs(Fetch),
         gte' = Command(Fetch, gte), mem' = Stored(Fetch, regs, mem)
  PROVE  Arch!Machine(regs', delay', gte', mem')
           \in Arch!Effects(Fetch, pc, Arch!Machine(regs, delay, gte, mem))
<1> DEFINE s == Arch!Machine(regs, delay, gte, mem)
           r == Apply(regs, CurrDelay(Fetch))
<1>1. s.regs = regs /\ s.pend = delay /\ s.gte = gte /\ s.mem = mem
  BY DEF Arch!Machine
<1>2. regs' = Apply(r, Result(Fetch, regs, pc))
  BY DEF UpdateRegs, RegWriteback
<1>3. delay' = Loaded(Fetch, regs, delay, gte, mem)
  BY DEF UpdateRegs, NextDelay
<1> HIDE DEF s
<1>4. r \in Arch!Arrived(Fetch, s)
  <2>1. Fetch.rt \in 0..R /\ regs \in Regs /\ delay \in Pending
    BY UpdateType, Types DEF Instr
  <2>2. CASE CurrDelay(Fetch) = delay
    <3>1. CASE Arch!Overtaken(Fetch, delay)
      <4>1. delay = None /\ delay.dest = Fetch.rt
        BY <3>1, <2>2 DEF Arch!Overtaken, CurrDelay
      <4>2. delay.dest = -1
        BY <4>1 DEF None
      <4> QED BY <4>1, <4>2, <2>1
    <3>2. CASE ~Arch!Overtaken(Fetch, delay)
      BY <3>2, <2>2, <1>1, SameIsa DEF Arch!Arrived
    <3> QED BY <3>1, <3>2
  <2>3. CASE CurrDelay(Fetch) # delay
    <3>1. CurrDelay(Fetch) = None /\ Fetch.rt = delay.dest /\ Fetch.op \in {"LOAD", "LWX"}
      BY <2>3 DEF CurrDelay
    <3>2. r = regs
      BY <3>1, <2>1, ApplyNone
    <3>3. CASE Fetch.rt # 0
      BY <3>1, <3>2, <3>3, <1>1 DEF Arch!Arrived, Arch!Overtaken
    <3>4. CASE Fetch.rt = 0
      <4>1. Apply(regs, delay) = regs
        BY <3>1, <3>4, <2>1, ApplyZero
      <4> QED BY <3>1, <3>2, <4>1, <1>1, SameIsa DEF Arch!Arrived
    <3> QED BY <3>3, <3>4
  <2> QED BY <2>2, <2>3
<1> HIDE DEF r
<1>5. Arch!Machine(regs', delay', gte', mem')
        = Arch!Machine(Arch!Apply(r, Arch!Result(Fetch, s.regs, pc)),
                       Arch!Loaded(Fetch, s.regs, s.pend, s.gte, s.mem),
                       Arch!Command(Fetch, s.gte), Arch!Stored(Fetch, s.regs, s.mem))
  BY <1>1, <1>2, <1>3, SameIsa
<1> QED BY <1>4, <1>5 DEF Arch!Effects, s

\* In a delay slot, the branch had its effect.
LEMMA SlotEffects ==
  ASSUME Inv, branch.delay
  PROVE  /\ delay = None /\ pc \in 1..(N - 1) /\ IsBranch(code[pc - 1])
         /\ Arch!Machine(regs, delay, gte, mem)
              \in Arch!Effects(code[pc - 1], pc - 1,
                               Arch!Machine(before.regs, before.delay, gte, mem))
<1> DEFINE b == code[pc - 1]
           s == Arch!Machine(before.regs, before.delay, gte, mem)
           r == Apply(before.regs, before.delay)
<1>1. /\ delay = None /\ pc \in 1..(N - 1) /\ IsBranch(b)
      /\ regs = Apply(r, Result(b, before.regs, pc - 1))
  BY DEF Inv, Slot
<1>2. s.regs = before.regs /\ s.pend = before.delay /\ s.gte = gte /\ s.mem = mem
  BY DEF Arch!Machine
<1>3. Loaded(b, before.regs, before.delay, gte, mem) = None
  BY <1>1 DEF IsBranch, Loaded
<1>4. Command(b, gte) = gte /\ Stored(b, before.regs, mem) = mem
  BY <1>1 DEF IsBranch, Command, Stored
<1> HIDE DEF s, b
<1>5. r \in Arch!Arrived(b, s)
  BY <1>1, <1>2, SameIsa DEF Arch!Arrived, Arch!Overtaken, IsBranch
<1> HIDE DEF r
<1>6. Arch!Machine(regs, delay, gte, mem)
        = Arch!Machine(Arch!Apply(r, Arch!Result(b, s.regs, pc - 1)),
                       Arch!Loaded(b, s.regs, s.pend, s.gte, s.mem),
                       Arch!Command(b, s.gte), Arch!Stored(b, s.regs, s.mem))
  BY <1>1, <1>2, <1>3, <1>4, SameIsa
<1> QED BY <1>1, <1>5, <1>6 DEF Arch!Effects, s, b

\* What the program sees in a state in which it runs, in and outside a delay slot.
LEMMA RunningState ==
  ASSUME Inv, pc < VECTOR
  PROVE  /\ ATrap = NoTrap /\ ARights = Rights(cop0.sr.curr, cop0.sr)
         /\ ~branch.delay => ArchPc = pc /\ ARegs = regs /\ APend = delay
         /\ branch.delay => ArchPc = pc - 1 /\ ARegs = before.regs /\ APend = before.delay
<1>1. ~(pc >= VECTOR)
  BY Types DEF Inv, VECTOR
<1> QED BY <1>1 DEF ATrap, NoTrap, ARights, Trapped, ArchPc, Handling, ARegs, APend

\* An exception does not change what the program may use when it returns.
LEMMA PushedRights ==
  ASSUME Inv, pc < VECTOR, pc' >= VECTOR, cop0'.sr = Pushed(cop0.sr)
  PROVE  ARights' = ARights
BY RunningState, Types, StackType DEF Inv, ARights, Rights

LEMMA TakeInterruptArch == Inv /\ Inv' /\ TakeInterrupt => Arch!Interrupted
<1> SUFFICES ASSUME Inv, Inv', TakeInterrupt PROVE Arch!Interrupted
  OBVIOUS
<1> USE DEF TakeInterrupt
<1>1. pc \in 0..(N - 1) /\ pc < VECTOR /\ pc' >= VECTOR
  BY Types DEF Inv, VECTOR
<1>2. /\ cop0'.excode = "INT" /\ cop0'.epc = (IF branch.delay THEN pc - 1 ELSE pc)
      /\ cop0'.sr = Pushed(cop0.sr)
  BY <1>1, ExceptionType DEF Inv, BAD
<1>3. code'[cop0'.epc].op # "GTE"
  BY <1>1, <1>2 DEF Inv, Mode
<1>4. ArchPc' = ArchPc /\ ARights' = ARights
  BY <1>1, <1>2, <1>3, RunningState, PushedRights DEF ArchPc, Handling
<1>5. branch'.delay = FALSE
  BY NoBranchType
<1>6. ARegs' = Apply(regs, delay) /\ APend' = None
  BY <1>5 DEF ARegs, APend
<1>7. ATrap = NoTrap /\ ATrap' = ATrap
  BY <1>1, <1>2, RunningState DEF ATrap, NoTrap, Trapped
<1>8. \/ ARegs' = Apply(ARegs, APend)
      \/ /\ ArchPc < N /\ IsBranch(code[ArchPc])
         /\ ARegs' = Apply(Apply(ARegs, APend), Result(code[ArchPc], ARegs, ArchPc))
  <2>1. CASE branch.delay
    <3>1. /\ delay = None /\ IsBranch(code[pc - 1])
          /\ regs = Apply(Apply(before.regs, before.delay),
                          Result(code[pc - 1], before.regs, pc - 1))
      BY <2>1 DEF Inv, Slot
    <3>2. ARegs' = regs
      BY <3>1, <1>6, ApplyNone, Types DEF Inv
    <3> QED BY <2>1, <3>1, <3>2, <1>1, RunningState
  <2>2. CASE ~branch.delay
    BY <2>2, <1>1, <1>6, RunningState
  <2> QED BY <2>1, <2>2
<1> QED BY <1>4, <1>6, <1>7, <1>8, SameIsa
     DEF Arch!Interrupted, Arch!NoTrap, NoTrap, ARegs, APend, ARights, ATrap

LEMMA UnalignedPcArch == Inv /\ UnalignedPc => Arch!Exception
<1> SUFFICES ASSUME Inv, UnalignedPc PROVE Arch!Exception
  OBVIOUS
<1> USE DEF UnalignedPc
<1>1. pc < VECTOR /\ pc' >= VECTOR /\ ~branch.delay
  BY DEF Inv, Slot, VECTOR, BAD
<1>2. /\ cop0'.excode = "ADEL" /\ cop0'.epc = pc /\ cop0'.bd = FALSE
      /\ cop0'.sr = Pushed(cop0.sr)
  BY <1>1, ExceptionType, Types DEF Inv, BAD
<1>3. branch'.delay = FALSE
  BY NoBranchType
<1>4. ArchPc = BAD /\ ArchPc' = ArchPc /\ ARights' = ARights
  BY <1>1, <1>2, RunningState, PushedRights DEF ArchPc, Handling, Trapped
<1>5. ARegs' = Apply(ARegs, APend) /\ APend' = None
  BY <1>1, <1>3, RunningState DEF ARegs, APend
<1>6. ATrap = NoTrap /\ ATrap' = [epc |-> ArchPc, bd |-> FALSE, from |-> 0]
  BY <1>1, <1>2, <1>4, RunningState DEF ATrap, Trapped
<1> QED BY <1>4, <1>5, <1>6, SameIsa
     DEF Arch!Exception, Arch!NoTrap, NoTrap, ARegs, APend, ARights, ATrap

LEMMA StepExceptionArch == Inv /\ StepException => Arch!Exception
<1> SUFFICES ASSUME Inv, StepException PROVE Arch!Exception
  OBVIOUS
<1> USE DEF StepException
<1>1. pc < VECTOR /\ pc' >= VECTOR /\ pc \in 0..(N - 1) /\ Fetch \in Instr
  BY ReachedFacts DEF VECTOR
<1>2. /\ cop0'.excode = "EXC" /\ cop0'.bd = branch.delay
      /\ cop0'.epc = (IF branch.delay THEN pc - 1 ELSE pc)
      /\ cop0'.sr = Pushed(cop0.sr)
  BY <1>1, ExceptionType DEF Inv, BAD
<1>3. branch'.delay = FALSE
  BY NoBranchType
<1>4. ArchPc' = ArchPc /\ ARights' = ARights
  BY <1>1, <1>2, RunningState, PushedRights DEF ArchPc, Handling, Trapped
<1>5. ARegs' = Apply(regs, delay) /\ APend' = None
  <2>1. CurrDelay(Fetch) = delay
    BY DEF CurrDelay, Excepts
  <2>2. RegWriteback(Fetch) = None /\ NextDelay(Fetch) = None
    BY DEF RegWriteback, NextDelay
  <2>3. Apply(regs, delay) \in Regs
    BY ApplyType, Types DEF Inv
  <2> QED BY <2>1, <2>2, <2>3, <1>3, ApplyNone DEF FlushLoadDelay, ARegs, APend
<1>6. /\ ATrap = NoTrap
      /\ ATrap' = [epc |-> ArchPc, bd |-> branch.delay, from |-> 0]
  BY <1>1, <1>2, <1>4, RunningState DEF ATrap, ArchPc, Handling, Trapped
<1>7. UNCHANGED <<code, ArchPc, gte, mem, ARights>>
  BY <1>4
<1>8. CASE ~branch.delay
  <2>1. branch.delay = FALSE
    BY <1>8, Types DEF Inv
  <2>2. /\ ArchPc < N /\ ~IsBranch(code[ArchPc]) /\ Excepts(code[ArchPc], ARegs)
        /\ ARegs' = Apply(ARegs, APend)
        /\ ATrap' = [epc |-> ArchPc, bd |-> FALSE, from |-> 0]
    <3>1. ArchPc = pc /\ ARegs = regs /\ APend = delay
      BY <1>1, <1>8, RunningState
    <3>2. ~IsBranch(Fetch) /\ Excepts(Fetch, regs)
      BY DEF IsBranch, Excepts
    <3>3. ATrap' = [epc |-> ArchPc, bd |-> FALSE, from |-> 0]
      BY <2>1, <1>6
    <3> QED BY <3>1, <3>2, <3>3, <1>1, <1>5 DEF Fetch
  <2> QED BY <2>2, <1>5, <1>6, <1>7, SameIsa
       DEF Arch!Exception, Arch!Running, Arch!NoTrap, NoTrap, ARegs, APend, ARights, ATrap
<1>9. CASE branch.delay
  <2>1. branch.delay = TRUE
    BY <1>9, Types DEF Inv
  <2> DEFINE s == Arch!Machine(regs, delay, gte, mem)
  <2>2. /\ ArchPc = pc - 1 /\ ArchPc + 1 = pc /\ IsBranch(code[ArchPc])
        /\ s \in Arch!Effects(code[ArchPc], ArchPc, Arch!Machine(ARegs, APend, gte, mem))
    BY <1>1, <1>9, SlotEffects, RunningState
  <2>3. s.regs = regs /\ s.pend = delay
    BY DEF Arch!Machine
  <2> HIDE DEF s
  <2>4. Excepts(code[ArchPc + 1], s.regs) /\ ARegs' = Apply(s.regs, s.pend)
    BY <2>2, <2>3, <1>5 DEF Fetch
  <2>5. ATrap' = [epc |-> ArchPc, bd |-> TRUE, from |-> 0]
    BY <1>6, <2>1
  <2>6. ArchPc < N
    BY <2>2, <1>1
  <2>7. \E t \in Arch!Effects(code[ArchPc], ArchPc, Arch!Here) :
           Arch!Excepts(code[ArchPc + 1], t.regs) /\ ARegs' = Arch!Apply(t.regs, t.pend)
    BY <2>2, <2>4, SameIsa DEF Arch!Here, ARegs, APend
  <2> QED BY <2>2, <2>5, <2>6, <2>7, <1>5, <1>6, <1>7, SameIsa
       DEF Arch!Exception, Arch!Running, Arch!NoTrap, NoTrap, ARegs, APend, ARights, ATrap
<1> QED BY <1>8, <1>9

\* The program may use what the interpreter lets it use, and a write to SR means the
\* same to both.
LEMMA CompletesArch ==
  ASSUME Inv, pc < VECTOR, ~Excepts(Fetch, regs), ~Refused, NEW s, s.regs = regs
  PROVE  Arch!Completes(Fetch, s)
BY RunningState, SameIsa DEF Arch!Completes, ARights, Refused

LEMMA GrantedArch ==
  ASSUME Inv, pc < VECTOR, ~(pc' >= VECTOR), Fetch \in Instr, cop0' = Status(Fetch),
         NEW s, s.regs = regs
  PROVE  ARights' = Arch!Granted(Fetch, s)
<1>1. ARights' = Rights(cop0'.sr.curr, cop0'.sr)
  BY DEF ARights
<1>2. cop0'.sr = IF Fetch.op = "MTC" THEN Sr[regs[Fetch.rt]] ELSE cop0.sr
  BY StatusType DEF Inv
<1> QED BY <1>1, <1>2, RunningState, SameIsa DEF Arch!Granted, ARights

\* The end of a delay slot.
LEMMA SlotEnds ==
  ASSUME Inv, branch.delay, Reached, ~Excepts(Fetch, regs), ~Refused, UpdateRegs(Fetch),
         gte' = Command(Fetch, gte), mem' = Stored(Fetch, regs, mem),
         cop0' = Status(Fetch), code' = code, branch'.delay = FALSE,
         pc' = IF branch.taken THEN branch.dest ELSE pc + 1
  PROVE  Arch!BranchAndSlot
<1>1. pc < VECTOR /\ pc \in 0..(N - 1) /\ pc < N /\ Fetch \in Instr
  BY ReachedFacts
<1>2. pc' < VECTOR /\ ~(pc' >= VECTOR)
  BY <1>1, Types DEF Inv, VECTOR, BAD
<1> DEFINE s == Arch!Machine(regs, delay, gte, mem)
           t == Arch!Machine(regs', delay', gte', mem')
<1>3. /\ ArchPc = pc - 1 /\ ArchPc + 1 = pc /\ IsBranch(code[ArchPc])
      /\ s \in Arch!Effects(code[ArchPc], ArchPc, Arch!Machine(ARegs, APend, gte, mem))
  BY <1>1, SlotEffects, RunningState
<1>4. t \in Arch!Effects(Fetch, pc, s)
  BY <1>1, StepEffects DEF Inv
<1>5. s.regs = regs
  BY DEF Arch!Machine
<1>6. t.regs = regs' /\ t.pend = delay' /\ t.gte = gte' /\ t.mem = mem'
  BY DEF Arch!Machine
<1>7. ARegs' = regs' /\ APend' = delay' /\ ArchPc' = pc'
  BY <1>2 DEF ARegs, APend, ArchPc, Handling, Trapped
<1>8. ATrap = NoTrap /\ ATrap' = ATrap
  BY <1>1, <1>2, RunningState DEF ATrap, NoTrap, Trapped
<1>9. ArchPc' = IF Taken(code[ArchPc], ARegs) THEN Target(code[ArchPc], ARegs) ELSE ArchPc + 2
  <2>1. /\ branch.taken <=> Taken(code[pc - 1], before.regs)
        /\ branch.taken => branch.dest = Target(code[pc - 1], before.regs)
    BY DEF Inv, Slot
  <2>2. ARegs = before.regs
    BY <1>1, RunningState
  <2> QED BY <1>1, <1>3, <1>7, <2>1, <2>2
<1> HIDE DEF s, t
<1>10. \E x \in Arch!Effects(code[ArchPc], ArchPc, Arch!Here) :
          /\ Arch!Completes(code[ArchPc + 1], x)
          /\ ARights' = Arch!Granted(code[ArchPc + 1], x)
          /\ \E y \in Arch!Effects(code[ArchPc + 1], ArchPc + 1, x) : Arch!Becomes(y)
  <2>1. s \in Arch!Effects(code[ArchPc], ArchPc, Arch!Here)
    BY <1>3 DEF Arch!Here, ARegs, APend
  <2>2. Arch!Completes(code[ArchPc + 1], s) /\ ARights' = Arch!Granted(code[ArchPc + 1], s)
    BY <1>1, <1>2, <1>3, <1>5, CompletesArch, GrantedArch DEF Fetch
  <2>3. t \in Arch!Effects(code[ArchPc + 1], ArchPc + 1, s)
    BY <1>3, <1>4 DEF Fetch
  <2>4. Arch!Becomes(t)
    BY <1>6, <1>7 DEF Arch!Becomes, ARegs, APend
  <2> QED BY <2>1, <2>2, <2>3, <2>4
<1>11. Arch!Running /\ Arch!IsBranch(code[ArchPc])
  BY <1>1, <1>3, <1>8, SameIsa DEF Arch!Running, Arch!NoTrap, NoTrap, ATrap
<1> QED BY <1>8, <1>9, <1>10, <1>11, SameIsa DEF Arch!BranchAndSlot, ARegs, ARights, ATrap

LEMMA StepBranchArch == Inv /\ StepBranch => Arch!BranchAndSlot
<1> SUFFICES ASSUME Inv, StepBranch PROVE Arch!BranchAndSlot
  OBVIOUS
<1> USE DEF StepBranch
<1>1. branch.delay
  BY DEF Inv, Mode
<1>2. Branched(Fetch) = branch
  BY <1>1, ReachedFacts, BranchedType DEF Inv
<1>3. branch'.delay = FALSE
  BY NoBranchType
<1> QED BY <1>1, <1>2, <1>3, SlotEnds

LEMMA StepNextArch == Inv /\ StepNext => Arch!Next \/ UNCHANGED Arch!vars
<1> SUFFICES ASSUME Inv, StepNext PROVE Arch!Next \/ UNCHANGED Arch!vars
  OBVIOUS
<1> USE DEF StepNext
<1>1. pc < VECTOR /\ pc \in 0..(N - 1) /\ pc < N /\ Fetch \in Instr
  BY ReachedFacts
<1>2. pc' < VECTOR /\ ~(pc' >= VECTOR)
  BY <1>1, Types DEF Inv, VECTOR, BAD
<1>3. ATrap = NoTrap /\ ATrap' = ATrap
  BY <1>1, <1>2, RunningState DEF ATrap, NoTrap, Trapped
<1>4. CASE branch.delay
  <2>1. branch'.delay = FALSE
    BY <1>4, ReachedFacts, StepNextFlags
  <2>2. Arch!BranchAndSlot
    BY <1>4, <2>1, SlotEnds
  <2> QED BY <2>2 DEF Arch!Next
<1>5. CASE ~branch.delay /\ IsBranch(Fetch)
  <2>1. branch'.delay = TRUE
    BY <1>5, StepNextFlags
  <2>2. before' = [regs |-> regs, delay |-> delay]
    BY <1>5
  <2>3. before'.regs = regs /\ before'.delay = delay
    BY <2>2
  <2>4. ARegs' = ARegs /\ APend' = APend
    BY <1>1, <1>5, <2>1, <2>3, RunningState DEF ARegs, APend
  <2>5. ArchPc' = ArchPc
    <3>1. ArchPc' = pc' - 1
      BY <1>2, <2>1 DEF ArchPc, Handling, Trapped
    <3> QED BY <3>1, <1>1, <1>5, RunningState
  <2>6. gte' = gte /\ mem' = mem
    BY <1>5 DEF IsBranch, Command, Stored
  <2>7. ARights' = ARights
    <3>1. cop0' = cop0
      BY <1>5 DEF IsBranch, Status
    <3>2. ~(pc >= VECTOR)
      BY <1>1 DEF VECTOR
    <3> QED BY <3>1, <3>2, <1>2 DEF ARights
  <2> QED BY <1>3, <2>4, <2>5, <2>6, <2>7 DEF Arch!vars, ARegs, APend, ARights, ATrap
<1>6. CASE ~branch.delay /\ ~IsBranch(Fetch)
  <2> DEFINE t == Arch!Machine(regs', delay', gte', mem')
  <2>1. branch'.delay = FALSE
    BY <1>6, StepNextFlags
  <2>2. ARegs' = regs' /\ APend' = delay' /\ ArchPc' = pc'
    BY <1>2, <2>1 DEF ARegs, APend, ArchPc, Handling, Trapped
  <2>3. ArchPc = pc /\ ARegs = regs /\ APend = delay
    BY <1>1, <1>6, RunningState
  <2>4. t \in Arch!Effects(code[ArchPc], ArchPc, Arch!Here)
    <3>1. t \in Arch!Effects(Fetch, pc, Arch!Machine(regs, delay, gte, mem))
      BY <1>1, StepEffects DEF Inv
    <3>2. Arch!Here = Arch!Machine(regs, delay, gte, mem)
      BY <2>3 DEF Arch!Here, ARegs, APend
    <3> QED BY <3>1, <3>2, <2>3 DEF Fetch
  <2>5. t.regs = regs' /\ t.pend = delay' /\ t.gte = gte' /\ t.mem = mem'
    BY DEF Arch!Machine
  <2> HIDE DEF t
  <2>6. Arch!Becomes(t)
    BY <2>2, <2>5 DEF Arch!Becomes, ARegs, APend
  <2>7. /\ Arch!Running /\ ~Arch!IsBranch(code[ArchPc])
        /\ ArchPc' = ArchPc + 1
    BY <1>1, <1>3, <1>6, <2>2, <2>3, SameIsa DEF Arch!Running, Arch!NoTrap, NoTrap, ATrap, Fetch
  <2>8. /\ Arch!Completes(code[ArchPc], Arch!Here)
        /\ ARights' = Arch!Granted(code[ArchPc], Arch!Here)
    <3>1. Arch!Here.regs = regs
      BY <2>3 DEF Arch!Here, Arch!Machine, ARegs
    <3> QED BY <3>1, <1>1, <1>2, <2>3, CompletesArch, GrantedArch DEF Fetch
  <2>9. Arch!Instruction
    BY <1>3, <2>4, <2>6, <2>7, <2>8 DEF Arch!Instruction, ATrap, ARegs, ARights
  <2> QED BY <2>9 DEF Arch!Next
<1> QED BY <1>4, <1>5, <1>6

\* The registers after an unusable instruction.
LEMMA RefusedArch ==
  ASSUME Inv, Reached, Exception("COP"),
         regs' = Apply(regs, delay), delay' = None, branch' = NoBranch, pc' \in Nat
  PROVE  /\ pc < VECTOR /\ pc \in 0..(N - 1)
         /\ APend' = None /\ ARegs' = Apply(regs, delay)
         /\ ATrap = NoTrap /\ ArchPc < N
         /\ cop0'.sr = Pushed(cop0.sr)
         /\ cop0'.excode = "COP" /\ cop0'.bd = branch.delay /\ cop0'.epc = ArchPc
         /\ branch.delay =>
              /\ ArchPc + 1 = pc /\ IsBranch(code[ArchPc])
              /\ branch.taken <=> Taken(code[ArchPc], ARegs)
              /\ branch.taken => branch.dest = Target(code[ArchPc], ARegs)
              /\ \E s \in Arch!Effects(code[ArchPc], ArchPc, Arch!Here) :
                    ARegs' = Apply(s.regs, s.pend)
<1>1. pc < VECTOR /\ pc \in 0..(N - 1)
  BY ReachedFacts
<1>2. branch'.delay = FALSE
  BY NoBranchType
<1>3. APend' = None /\ ARegs' = Apply(regs, delay)
  BY <1>2 DEF APend, ARegs
<1>4. ATrap = NoTrap
  BY <1>1, RunningState
<1>5. /\ cop0'.sr = Pushed(cop0.sr) /\ cop0'.excode = "COP" /\ cop0'.bd = branch.delay
      /\ cop0'.epc = (IF branch.delay THEN pc - 1 ELSE pc)
  BY <1>1, ExceptionType DEF Inv, BAD
<1>6. cop0'.epc = ArchPc /\ ArchPc < N
  BY <1>1, <1>5, RunningState
<1>7. ASSUME branch.delay
      PROVE  /\ ArchPc + 1 = pc /\ IsBranch(code[ArchPc])
             /\ branch.taken <=> Taken(code[ArchPc], ARegs)
             /\ branch.taken => branch.dest = Target(code[ArchPc], ARegs)
             /\ \E s \in Arch!Effects(code[ArchPc], ArchPc, Arch!Here) :
                   ARegs' = Apply(s.regs, s.pend)
  <2> DEFINE t == Arch!Machine(regs, delay, gte, mem)
  <2>1. ArchPc = pc - 1 /\ ARegs = before.regs /\ APend = before.delay
    BY <1>1, <1>7, RunningState
  <2>2. /\ pc \in 1..(N - 1) /\ IsBranch(code[pc - 1])
        /\ t \in Arch!Effects(code[pc - 1], pc - 1,
                             Arch!Machine(before.regs, before.delay, gte, mem))
    BY <1>7, SlotEffects
  <2>3. Arch!Here = Arch!Machine(before.regs, before.delay, gte, mem)
    BY <2>1 DEF Arch!Here, ARegs, APend
  <2>4. t.regs = regs /\ t.pend = delay
    BY DEF Arch!Machine
  <2> HIDE DEF t
  <2>5. /\ branch.taken <=> Taken(code[pc - 1], before.regs)
        /\ branch.taken => branch.dest = Target(code[pc - 1], before.regs)
    BY <1>7 DEF Inv, Slot
  <2>6. ARegs' = Apply(t.regs, t.pend)
    BY <1>3, <2>4
  <2> QED BY <2>1, <2>2, <2>3, <2>5, <2>6
<1> QED BY <1>1, <1>3, <1>4, <1>5, <1>6, <1>7

LEMMA StepRefusedArch == Inv /\ StepRefused => Arch!UnusableException
<1> SUFFICES ASSUME Inv, StepRefused PROVE Arch!UnusableException
  OBVIOUS
<1> USE DEF StepRefused
<1>0. pc' >= VECTOR /\ pc' \in Nat
  BY DEF VECTOR
<1>1. /\ pc < VECTOR /\ pc \in 0..(N - 1)
      /\ APend' = None /\ ARegs' = Apply(regs, delay)
      /\ ATrap = NoTrap /\ ArchPc < N /\ cop0'.sr = Pushed(cop0.sr)
      /\ cop0'.excode = "COP" /\ cop0'.bd = branch.delay /\ cop0'.epc = ArchPc
  BY <1>0, RefusedArch
<1>2. ArchPc' = ArchPc /\ ARights' = ARights
  BY <1>0, <1>1, PushedRights DEF ArchPc, Handling, Trapped
<1>3. ATrap' = [epc |-> ArchPc, bd |-> branch.delay, from |-> 1]
  BY <1>0, <1>1 DEF ATrap, Trapped
<1>4. Unusable(code[pc], ARights)
  BY <1>1, RunningState DEF Refused, Fetch
<1>5. Arch!Running
  BY <1>1 DEF Arch!Running, Arch!NoTrap, NoTrap, ATrap
<1>6. CASE ~branch.delay
  <2>1. ArchPc = pc /\ ARegs = regs /\ APend = delay
    BY <1>1, <1>6, RunningState
  <2>2. ~IsBranch(code[pc])
    BY <1>4 DEF Unusable, IsCop2, IsBranch
  <2>3. ATrap' = [epc |-> ArchPc, bd |-> FALSE, from |-> 1]
    BY <1>3, <1>6, Types DEF Inv
  <2>4. /\ ~Arch!IsBranch(code[ArchPc]) /\ Arch!Unusable(code[ArchPc], ARights)
        /\ ARegs' = Arch!Apply(ARegs, APend)
    BY <1>1, <1>4, <2>1, <2>2, SameIsa
  <2> QED BY <1>1, <1>2, <1>5, <2>3, <2>4, SameIsa
       DEF Arch!UnusableException, ARegs, APend, ARights, ATrap
<1>7. CASE branch.delay
  <2>1. /\ ArchPc + 1 = pc /\ IsBranch(code[ArchPc])
        /\ ~Taken(code[ArchPc], ARegs)
        /\ \E s \in Arch!Effects(code[ArchPc], ArchPc, Arch!Here) :
              ARegs' = Apply(s.regs, s.pend)
    BY <1>0, <1>7, RefusedArch
  <2>2. ATrap' = [epc |-> ArchPc, bd |-> TRUE, from |-> 1]
    BY <1>3, <1>7, Types DEF Inv
  <2>3. /\ Arch!IsBranch(code[ArchPc]) /\ ~Arch!Taken(code[ArchPc], ARegs)
        /\ Arch!Unusable(code[ArchPc + 1], ARights)
        /\ \E s \in Arch!Effects(code[ArchPc], ArchPc, Arch!Here) :
              ARegs' = Arch!Apply(s.regs, s.pend)
    BY <1>4, <2>1, SameIsa
  <2> QED BY <1>1, <1>2, <1>5, <2>2, <2>3, SameIsa
       DEF Arch!UnusableException, ARegs, APend, ARights, ATrap
<1> QED BY <1>6, <1>7

LEMMA StepRefusedTakenArch == Inv /\ StepRefusedTaken => Arch!LostException
<1> SUFFICES ASSUME Inv, StepRefusedTaken PROVE Arch!LostException
  OBVIOUS
<1> USE DEF StepRefusedTaken
<1>0. pc' \in 0..BAD /\ pc' \in Nat /\ ~(pc' >= VECTOR) /\ branch.delay
  BY Types DEF Inv, Mode, BAD, VECTOR
<1>1. /\ pc < VECTOR /\ pc \in 0..(N - 1)
      /\ APend' = None
      /\ ATrap = NoTrap /\ ArchPc < N /\ cop0'.sr = Pushed(cop0.sr)
      /\ ArchPc + 1 = pc /\ IsBranch(code[ArchPc])
      /\ Taken(code[ArchPc], ARegs) /\ branch.dest = Target(code[ArchPc], ARegs)
      /\ \E s \in Arch!Effects(code[ArchPc], ArchPc, Arch!Here) :
            ARegs' = Apply(s.regs, s.pend)
  BY <1>0, RefusedArch
<1>2. branch'.delay = FALSE
  BY NoBranchType
<1>3. ArchPc' = Target(code[ArchPc], ARegs) /\ ATrap' = ATrap
  BY <1>0, <1>1, <1>2 DEF ArchPc, Handling, Trapped, ATrap, NoTrap
<1>4. ARights' = [ARights EXCEPT !.user = FALSE]
  <2>1. cop0'.sr.curr.user = FALSE /\ cop0'.sr.enabled = cop0.sr.enabled
    BY <1>1, Types, StackType DEF Inv, Kernel
  <2>2. ARights' = [user |-> cop0'.sr.curr.user, enabled |-> cop0'.sr.enabled]
    BY <1>0 DEF ARights, Rights
  <2>3. ARights = [user |-> cop0.sr.curr.user, enabled |-> cop0.sr.enabled]
    BY <1>1, RunningState DEF Rights
  <2> DEFINE e == cop0.sr.enabled
             u == cop0.sr.curr.user
             no == FALSE
  <2>4. ARights' = [user |-> no, enabled |-> e] /\ ARights = [user |-> u, enabled |-> e]
    BY <2>1, <2>2, <2>3
  <2> HIDE DEF e, u, no
  <2>5. ARights' = [ARights EXCEPT !.user = no]
    BY <2>4
  <2> QED BY <2>5 DEF no
<1>5. Unusable(code[ArchPc + 1], ARights)
  BY <1>1, RunningState DEF Refused, Fetch
<1>6. /\ Arch!Running /\ Arch!IsBranch(code[ArchPc]) /\ Arch!Taken(code[ArchPc], ARegs)
      /\ Arch!Unusable(code[ArchPc + 1], ARights)
      /\ \E s \in Arch!Effects(code[ArchPc], ArchPc, Arch!Here) :
            ARegs' = Arch!Apply(s.regs, s.pend)
      /\ ArchPc' = Arch!Target(code[ArchPc], ARegs)
  BY <1>1, <1>3, <1>5, SameIsa DEF Arch!Running, Arch!NoTrap, NoTrap, ATrap
<1> QED BY <1>1, <1>3, <1>4, <1>6, SameIsa
     DEF Arch!LostException, ARegs, APend, ARights, ATrap

LEMMA StepHandlerArch == Inv /\ StepHandler => UNCHANGED Arch!vars
<1> SUFFICES ASSUME Inv, StepHandler PROVE UNCHANGED Arch!vars
  OBVIOUS
<1> USE DEF StepHandler
<1>1. delay = None /\ regs' = regs
  BY ApplyNone, Types DEF Inv, Mode
<1>2. cop0.excode = "EXC" /\ ~branch.delay /\ pc >= VECTOR /\ pc' >= VECTOR
  BY NoBranchType DEF Inv, Mode, VECTOR
<1>3. ArchPc' = ArchPc
  BY <1>2 DEF ArchPc, Handling, Trapped
<1>4. ARegs' = ARegs /\ APend' = APend /\ ATrap' = ATrap /\ ARights' = ARights
  BY <1>1, <1>2 DEF ARegs, APend, ATrap, Trapped, ARights
<1> QED BY <1>3, <1>4 DEF Arch!vars, ARegs, APend, ARights, ATrap

LEMMA HandlerReturnsArch == Inv /\ HandlerReturns => UNCHANGED Arch!vars
<1> SUFFICES ASSUME Inv, HandlerReturns PROVE UNCHANGED Arch!vars
  OBVIOUS
<1> USE DEF HandlerReturns
<1>1. ~branch.delay /\ branch' = branch /\ pc >= VECTOR
  BY NoBranchType DEF Inv, Mode, VECTOR
<1>2. cop0'.sr = Popped(cop0.sr) /\ cop0.sr \in StatusRegister
  BY HandlerReturnsCop, Types DEF Inv
<1>3. pc' = cop0.epc /\ ~(pc' >= VECTOR)
  BY <1>1 DEF Inv, Mode, VECTOR
<1>4. ArchPc' = ArchPc
  BY <1>1, <1>3 DEF ArchPc, Handling, Trapped
<1>5. ARegs' = ARegs /\ APend' = APend /\ ATrap' = ATrap
  BY <1>1, <1>3 DEF ARegs, APend, ATrap, Trapped
<1>6. ARights' = ARights
  BY <1>1, <1>2, <1>3, StackType DEF ARights, Rights
<1> QED BY <1>4, <1>5, <1>6 DEF Arch!vars, ARegs, APend, ARights, ATrap

\* Nothing the program sees is changed by a request.
LEMMA UnchangedArch ==
  UNCHANGED <<code, pc, regs, delay, branch, cop0, gte, mem, before>> => UNCHANGED Arch!vars
BY DEF Arch!vars, ArchPc, Handling, Trapped

LEMMA InitArch == Init => Arch!Init
<1> SUFFICES ASSUME Init PROVE Arch!Init
  OBVIOUS
<1> USE DEF Init
<1>1. ~branch.delay /\ ~(pc >= VECTOR)
  BY NoBranchType DEF VECTOR
<1>2. ArchPc = 0 /\ ATrap = NoTrap /\ ARegs = regs /\ APend = None
  BY <1>1 DEF ArchPc, ATrap, NoTrap, ARegs, APend, Handling, Trapped
<1>3. ARights = [user |-> FALSE, enabled |-> {2}]
  BY <1>1 DEF ARights, Rights
<1> QED BY <1>2, <1>3, SameIsa
     DEF Arch!Init, Arch!NoTrap, NoTrap, ARegs, APend, ARights, ATrap, Arch!Wrap, Wrap

\* Every program runs on the interpreter as the architecture says, whatever
\* interrupts it: each instruction has its effect once and in order, also in a delay
\* slot, next to a load or at a GTE command, and an exception names the instruction
\* that raised it.  What MipsArch says of an unusable coprocessor is the code's own:
\* its exception skips a word of the handler or, in the slot of a taken branch, is
\* lost.
THEOREM MIPS1ImplementsArchitecture == Spec => ImplementsArchitecture
<1>1. Inv /\ Inv' /\ [Next]_vars => [Arch!Next]_(Arch!vars)
  <2> SUFFICES ASSUME Inv, Inv', [Next]_vars PROVE Arch!Next \/ UNCHANGED Arch!vars
    OBVIOUS
  <2>1. CASE TakeInterrupt
    BY <2>1, TakeInterruptArch DEF Arch!Next
  <2>2. CASE UnalignedPc
    BY <2>2, UnalignedPcArch DEF Arch!Next
  <2>3. CASE StepException
    BY <2>3, StepExceptionArch DEF Arch!Next
  <2>4. CASE StepBranch
    BY <2>4, StepBranchArch DEF Arch!Next
  <2>5. CASE StepRefused
    BY <2>5, StepRefusedArch DEF Arch!Next
  <2>6. CASE StepRefusedTaken
    BY <2>6, StepRefusedTakenArch DEF Arch!Next
  <2>7. CASE StepNext
    BY <2>7, StepNextArch
  <2>8. CASE StepHandler
    BY <2>8, StepHandlerArch
  <2>9. CASE HandlerReturns
    BY <2>9, HandlerReturnsArch
  <2>10. CASE Interrupt \/ UNCHANGED vars
    BY <2>10, UnchangedArch DEF Interrupt, vars
  <2> QED BY <2>1, <2>2, <2>3, <2>4, <2>5, <2>6, <2>7, <2>8, <2>9, <2>10
       DEF Next, StepInstruction
<1> QED BY <1>1, InitArch, MIPS1Inv, PTL DEF Spec, ImplementsArchitecture, Arch!Spec
=============================================================================
