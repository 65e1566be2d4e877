# A TLA+ verification of the psx emulator

This directory models the parts of the emulator in which control is hard: events, interrupts,
delay slots, protocols, batched drawing, queues and threads. Every module is translated from the C++ under `src/psxemu`; TLC checks the
modules on small instances and TLAPS proves the main safety properties for all values of the
constants. `PROJECT.json` maps each definition to the lines it models and lists the runs, the
mutants that show that each property can fail, the findings, the hazards and the theorems.

To repeat a check: `tlc -config MCGpu.cfg MCGpu` model-checks an instance and `tlapm DmaProofs.tla` checks
the proofs of a module.

## 1. The system

The emulator runs one PlayStation program, the *guest*. One thread executes an endless loop
(`platform/main.cpp:208-274`): commands from the debugger, then a frame of the guest, then the user
interface. Within a frame `System::InterpreterSingleStep` (`System.cpp:148-183`) executes one instruction, or one
word of a DMA transfer if one is active, and lets the scheduler's clock pass the cycles it took.
All devices hang on that scheduler: they schedule callbacks, change their registers in them and
raise bits of `I_STAT`, which the CPU looks at before the next instruction.

So there are three kinds of interleaving. A callback runs in the middle of `Scheduler::Advance` and
schedules, removes or precedes other callbacks. The guest accesses a register between any two
callbacks. And a second thread, the GDB server, exchanges commands with the first through two queues.
(A third, the MDEC decoding thread, exists in the code but its start is commented out at `platform/main.cpp:193`.)
Nothing is persisted but memory cards, so there is no crash recovery; connections to the debugger may
break.

### Inventory

| Component | State | Operations | Talks to | What is hard, what must hold |
|---|---|---|---|---|
| Event scheduler (`Scheduler.cpp`) | binary heap of events, clock, last id | Schedule, Deschedule, Advance, NextEvent | called by all devices, calls back | callbacks change the heap while its root is being fired; every event fires once, in order, never late beyond the call that passes it |
| CD drive (`CDDrive.cpp`, `DriveCommands.cpp`, `TestCommands.cpp`) | response FIFO, interrupt flag and enable, queued command, read event, sector buffer | register writes, commands, acknowledge, interrupt and read callbacks | scheduler, `I_STAT`, DMA, disc image | who raises the next response; a queued command runs inside the acknowledge of another; Pause, Stop and Init race a read that is pending |
| DMA (`DmaController.cpp`, `DmaBase.cpp`, channel classes) | list of active transfers, per channel registers, block and node counters, DPCR, DICR | register writes, request lines, AdvanceTransfer | devices, CPU (stalled), `I_STAT` | a device raises another channel's line in the middle of a word; no lost request, no lost word, the stall ends |
| Root counters (`RootCounters.cpp`) | value, target, mode, last update, event | register access, blankings, two callbacks | scheduler, GPU timing, `I_STAT` | lazily updated value, late events, wrap-around; one event while running, right value, one interrupt in one-shot mode |
| GDB server (`Server.cpp`, `Server.hpp`, `ServerAsyncCommands.cpp`) | two command queues with mutexes, `m_open`, stop token | packets, handshake, breakpoints, start, stop | main loop, network | two threads; right answer to each request, no deadlock, breakpoints reported, the thread stops |
| SIO port (`SIOPort.cpp`) | control, mode, transmit latch, transfer flag, receive FIFO | register access, transfer event | pads, cards, `I_STAT` | a byte written during a transfer; every byte is exchanged once |
| Pads and memory cards (`StandardController.cpp`, `OfficialMemcard.cpp`, `SIOPadMemcardDriver.cpp`) | protocol state, buffers | one call per byte, acknowledge | SIO port, card file | aborted sequences; a sector is written whole or not at all |
| MDEC (`MDEC.cpp`) | command, input FIFO, output ring, busy flags, optional thread | register access, decode | DMA 0 and 1 | the thread's condition variable, a full ring |
| GPU (`GPU.cpp`, `GP0Commands.cpp`, `GP1Commands.cpp`, `DrawCalls.cpp`, `GPUCommandTracking.cpp`) | command FIFO and state, two transfers, page, status, line and frame timing | GP0, GP1, GPUREAD, GPUSTAT, HBLANK events | DMA 2, counters, renderer | words are counted in one function and consumed in others, with resets and frames between them; the request line |
| Renderer (`GLRenderer.cpp`, `Vram.cpp`, `FrameBuffer.cpp`) | vertex buffers of five pipelines, the batch, framebuffer, texture, CPU copy | draw, fill, copy, upload, download, flush, synchronise | GPU, OpenGL | primitives are drawn later than they are sent, with settings kept outside the batch and textures from a copy |
| SPU (`SPU.cpp`, `SPUVoice.cpp`) | voices, envelopes, sound RAM, transfer FIFO, interrupt | register access, sample event | DMA 4, CD audio | transfer events that pile up, interrupt address |
| CPU (`MIPS1.cpp`, `Interpreter.cpp`, `cop0.cpp`) | registers, pending load and branch, COP0, deferred interrupt | one instruction, exceptions, return | bus, `I_STAT`, GTE | exceptions and interrupts in delay slots, behind loads and at GTE commands; exceptions of coprocessors that cannot be used, raised by another path than all others |
| GTE (`GTE.cpp`) | vector registers | fixed-point commands | CPU | saturation |
| System bus and memory control (`SystemBus.*`, `MemoryControl.cpp`) | memory, `I_STAT`, `I_MASK`, cache isolation | reads and writes | everything | interrupts that arrive with an acknowledge |
| Memory mapper (`MemoryMapper.cpp`) | OS mappings | map, unmap | OS | mirrors |
| Code cache (`CodeCache.cpp`) | blocks per page, arena | lookup, insert, invalidate | future recompiler | stale code |
| Kernel inspection (`Kernel*.cpp`, `Syscalls.cpp`) | hooks | dump, hook, log | guest memory | hooks removed while called |
| Card file system (`MCFilesystem.cpp`) | directory frames | list, read | card image | chains |
| Disc images (`CueSheet.cpp`, `CueBin.cpp`, `CDFilesystem.cpp`) | tracks, files | locate, read | CD drive | sector numbers and times |
| Logger, user interface, audio, input, TTY console, wave files, configuration | - | input and output | - | - |

## 2. Modules

| Module | Models |
|---|---|
| `TimerService` | abstract specification of the scheduler: a set of timers; each fires at most once, when due and earliest first, or is cancelled |
| `SchedulerState` | the bounds and the state that the next two share: clock, last id, where Advance or NextEvent stands |
| `Scheduler` | `Scheduler.cpp`; the heap is the set of its events and its root, which is all that the clients and the algorithm see; a callback is a phase in which any client operation may happen |
| `SchedulerHeap` | the same with the array: sift-up, sift-down and `make_heap` as recursive functions; refines `Scheduler` |
| `CDDrive` | the drive controller: registers, all commands, responses, acknowledges, reads |
| `Dma` | the controller, six channels, the devices' request lines and DICR |
| `RootCounter` | one of the three counters with its scheduler event; a ghost counter that counts every cycle runs along |
| `Server` | the GDB server thread, the emulator's thread, their queues and the connection |
| `MipsIsa` | the instructions by what they do to registers, memory and control, the coprocessors they need and the meaning of SR, shared by the two modules below |
| `MipsArch` | abstract specification of the CPU: every instruction has its effect once and in order, a branch together with its delay slot, a load one instruction late; what the code does instead when a coprocessor cannot be used is part of it, as two actions of their own |
| `MIPS1` | `MIPS1::StepInstruction` with delayed loads, branch flags, the mode stack of SR, exceptions by the flag and by a direct call, and deferred interrupts; refines `MipsArch` |
| `PadCard` | pad, memory card and the driver that selects one of them, as functions of their state |
| `SIOPort` | the serial port, its transfer event and its guest, composed with `PadCard` |
| `GpuCommands` | the commands of GP0, their layouts and what primitives they are |
| `Painter` | abstract specification of the GPU: a command is painted when its last word arrives, into one video memory |
| `Renderer` | `GLRenderer.cpp` as functions on its state |
| `Gpu` | the GPU's ports, composed with `Renderer` and a guest; refines `Painter` |
| `SchedulerProofs`, `CDDriveProofs`, `DmaProofs`, `RootCounterProofs`, `MIPS1Proofs`, `SIOPortProofs`, `ServerProofs`, `GpuProofs` | the theorems |
| `MC...` | instances for TLC |

Correspondence of state and actions:

- **Scheduler.** `m_events`, `m_top`, `m_curr_timestamp`, `m_last_id` are the members. `phase`, `caller`,
  `final_time`, `firing` are the local variables of `Advance` and `NextEvent` that live across a callback. `AdvanceFire` is one
  round of the loop up to the call, `CallbackReturn` the pop after it. `fired` and `removed` are ghosts.
  `make_heap` and ties leave the root undetermined among the earliest; `SchedulerHeap` determines it.
- **CDDrive.** `ch` is the response FIFO with the interrupt flag and the event that will raise the head. Events are counted in cycles
  left, `Tick` lets time pass. An action is a whole register write, including the command that a
  write or an acknowledge executes. `ch.stray` holds events that the drive has forgotten the handle of.
  `silence` is history: what the last Pause, Stop or Init found, until the next read.
  Response bytes, the motor, shell and error bits, sector bytes and the volume registers are left out, and so are `OpenLid` and `CloseLid` (`CDDrive.cpp:571-583`), which
  push INT5 and switch the motor: nothing in the program calls them.
- **Dma.** `q.ch[c]` are the registers and counters of a channel, `q.slots` and `q.n` the array `m_active_dmas` with its stale entries.
  One step of `AdvanceTransfer` moves one word or ends a block or node. Devices change
  their lines when they get or give a word and between instructions. Addresses and data are left out:
  a linked list is the sequence of its node sizes. `moved` and `goal` are ghosts.
- **RootCounter.** `c` is the object with `elapsed` (clock minus last update) and `due` (trigger minus clock) instead of absolute
  times, so that the state space is finite. `Advance` may pass the event; a blanking may then be
  handled before the late event. `g` is the ghost.
- **Server.** A step is what a thread does between two accesses to shared state. Mutexes are held through the phases
  `async` and `drain`; the others protect single steps. Packets are reduced to the command they
  push and the answer they wait for. A send may find the connection broken. `fresh` marks the newest request and its answer and
  is a ghost; `fate` records undefined behaviour and uncaught exceptions.
- **MIPS1.** A step is one call of `StepInstruction`, split by its outcome: an interrupt is taken, the address is bad, the instruction raises an
  exception, branches, or is followed by the next one. `next_delay` and `reg_writeback` live within a step only. The exception handler
  is the guest's: it saves and restores the registers and returns, behind a GTE command at EPC, as the BIOS does.
  `cop0.sr` is the stack of three interrupt and mode bits and the set of coprocessors that are enabled; `Sr` says which of these a value means when a program writes it, so that user mode,
  a disabled GTE and a disabled COP0 all occur. An instruction whose coprocessor cannot be used is `Refused`: its handler calls `status->Exception` itself, and `StepInstruction`, which
  knows nothing of it, adds 4 to the vector (`StepRefused`) or goes on to the target of the branch in whose slot it stands (`StepRefusedTaken`). `MipsArch` calls these `UnusableException` and `LostException`.
  MFC0, MTC2, CTC2, LWC2 and the stores of coprocessors are left out, and LWC1, SWC1 and SWC3 end in `error::DebugBreak`.
  `before` is a ghost, the registers in front of the last branch, because in `MipsArch` a branch and its delay slot are one step.
  One opcode stands for a family of handlers; values are small. `MipsArch` lets a load that is followed by a move from a coprocessor to the same register arrive
  or not, since the code does one or the other depending on the coprocessor.
- **SIOPort, PadCard.** `port` holds the members of `SIOPort`, `dev` the driver with pad and card. A register access
  is one action with everything it calls: a read of the status may complete a transfer early, whose completion sends the pending byte and calls the device.
  Replies of the pad are counted; data of the card are kept, with a checksum that tells one wrong byte. `owed`, `unread`, `misframed` and `written` are ghosts.
- **Gpu, Renderer.** `gpu` holds the members of `Gpu` with the renderer's record `ren` inside; one action is one access to a port, or the end of a frame.
  A word is a pair of a command and an index. A pixel is the sequence of what was painted there, so that two pictures are equal only if the same things were
  painted in the same order and mixed in the same way. A triangle covers one pixel and a texture is one texel: what is at stake is order and which copy is read, not coverage. A drawing area whose corners cross
  by more than one column is treated as empty, as one that crosses by one is.
  `Image`, the framebuffer after the collected primitives, is what the refinement maps to the painter's video memory. OpenGL executes what it is given in order and is external.

Deliberate choices. Widths are constants (`U16` stands for 2^16, capacities for 8, 16, 32) and every wrap is
a `%` with them. Undefined cases of the code (front of an empty queue, an uncaught exception) end the behaviour in a named state rather
than being excluded. Breakpoints of the emulator's own (`error::DebugBreak`) stop the modelled device where
the code would go on in a state its authors ruled out; they are named in the module comments.

### Assumptions about the environment

Some properties hold only for a guest or a user that respects a rule. The rules are constants, so that
both sides can be checked:

- `TieGuard` (Scheduler): inside a callback no other event is descheduled while a third event is tied with the one being fired.
- `Care` (CDDrive): `acks`, an acknowledge clears all bits; `init`, Init is not issued while responses wait; `queue`, commands that
  answer at once are not issued while another runs; `reads`, no second read is started. Pause, Stop and Init are free to come while a read is pending.
- `Careful` (Dma): channels are enabled before they are started and busy channels left alone. In every instance the guest does not
  change the sync mode of a started transfer.
- `Guests` (SIOPort), subsets of `Cares`: `wait`, a byte is written when the last one has been sent; `read`, its reply has been read; `hold`, the
  control register is left alone during a transfer; `finish`, a configuration command of the pad is not cut short. `CardHoldsWrites` and `AckInterrupts` hold without them.
- `WellFormed` (MIPS1): no branch in a delay slot, no link register that the jump reads, and no GTE command executed right after another COP2 instruction, in a row or over a branch. (The code puts an
  interrupt off at every COP2 instruction. Put off at a MFC2 or at a command, it is taken with EPC at the next instruction; if that is a GTE command the handler of the BIOS, which
  steps over a GTE command at EPC, skips it.) In a program that writes SR there is no COP2 instruction in a delay slot: an exception that is lost there leaves
  `m_rerun_gte_for_interrupt` set, and the next GTE command is skipped by the same handler. Without either rule TLC finds a counterexample to `ImplementsArchitecture`.
- `Care` (Gpu): `cache`, what was painted is used as a texture after the cache was cleared; `page`, a page is not selected again with a textured polygon of another page in between; `copy`, copies stay
  inside the video memory; `pair`, the two pixels of a word do not lie at opposite edges; `read`, pictures read back lie inside, have rows of whole
  words and are read to the end; `polyline`, polylines have a vertex and fit the queue. Dropping any of them from `MCGpu.cfg` gives a counterexample to `InStep` or `ImplementsPainter` that shows what the code does then.

## 3. Runs

| Run | Question and result |
|---|---|
| `scheduler` | Three slots, four events, clock to 3, harmless callbacks: nothing overdue when Advance returns, every event waiting, fired or removed exactly once, and refinement of `TimerService`. |
| `heap` | Five slots (two inner nodes, one half full), any callbacks: the array stays a heap under pushes, pops and removals from the middle, and refines `Scheduler`. |
| `cd_careful` | Eight commands, seeks among them, a careful guest: no stranded response, the flag belongs to the head of the FIFO; after Stop, Init and Pause no sector comes in until the next read, except after a Pause that comes before the reading bit is set (section 4); every response is delivered and every queued command runs although sectors keep coming. |
| `cd_any` | A guest that respects nothing, a FIFO of two: the queued command is never overrun, an announced sector not overwritten, the status says reading only while a read is scheduled. |
| `cd_queued_getid` | *Violation.* GetID queued behind another command raises its INT3 inside the acknowledge, whose bits clear it: its responses wait for ever. |
| `dma_any` | Any guest on the two MDEC channels, which start and resume each other in the middle of a word, or on SPU (in burst and slice mode, started while its channel is enabled) and ordering table with block interrupts and bus errors: list and running flags agree, the master flag agrees with what it summarises, the CPU stall ends. |
| `dma_careful` | GPU and CDROM with pauses, SPU, ordering table, counts of 0: no request is lost, transfers move what they accepted over their pauses and complete eventually. |
| `counter` | All three counters, all modes, a counter of two bits: exactly one event while running, one-shot interrupts once, every cycle counted in the cases listed at the property, no event later than the instruction that passes it. |
| `server` | Two kinds of requests, breakpoints, interrupts, two broken connections, and a user who stops and starts the thread at any time: each request gets its own answer, the handshake stops the emulator, every waiting thread is answered or is to stop, the queue of reports is emptied, and a request to stop is obeyed if it does not meet the thread at its condition variable. |
| `cpu` | Every well-formed program of four words over eighteen instructions, with writes to SR that disable coprocessors, interrupted at any moment: the branch flags describe the instruction about to run, the interpreter implements `MipsArch`, and an interrupt that is not masked is taken. |
| `sio` | A guest that only waits for its bytes, on the card, and a careful one that switches transmitter and DTR together, on pad and card, with early completions, disabled transmitter, aborts and port changes: one reply per byte, frames of the pad of the right length through all configuration commands, the card holds what complete writes wrote, acknowledges become interrupts. |
| `gpu` | All layouts, polylines with no vertex to the longest that fit, wrapped fills and transfers, copies, settings; three that paint in every order, with frames, resets and register reads between any two words: GPU and guest agree on the words, the GPU implements `Painter`, pictures read back are what was painted, the request line is up while words are due. |

**Bounds.** They are chosen so that the interesting case occurs with one to spare. A tie during a callback needs three events. A heap
of five is the smallest with a half-filled inner node below the root. A response FIFO of two is full after two
commands, so `cd_any` exercises the drop; three holds a command's two responses and a sector, and is full when one more comes. Three parameters are what SetLoc takes. Two-bit
counters reach target, overflow and target + 1 = 0 in few steps. Two MDEC channels are the only ones that can
start each other; GPU and CDROM are the two kinds of line (edge and level); SPU and ordering table the two with code of their
own. In `server` a queue of two holds a stale answer and a breakpoint, and two lost connections are needed for
the case that `AnswerIsFresh` excludes. Four words
are enough for a load or a branch with its delay slot between a GTE command and the end. A card of two sectors of two bytes tells a half-written
sector and a wrong address from right ones. A video memory of four columns and two rows with fills aligned to two is the smallest in which a picture can cross
each edge, cover a side, and miss both; vertex buffers of two primitives overflow within three commands; three painting commands let one be collected, one be read as a texture
and one be painted over. Bounds that only keep the model finite (`MaxId`, `MaxTimestamp`,
`MaxStray`, `MaxElapsed`, `MaxQueue`, `MaxLosses`, `MaxCommands`) are guards, and the theorems of section 5 hold for all values of theirs.
Deadlock is checked where the system always has a next step; it is switched off where a bound or the end
of the program stops it.

**Fairness.** `Tick`, callbacks and `AdvanceTransfer` are weakly fair: the main loop executes one instruction after the other and lets the clock pass its
cycles (`System.cpp:148-183`). `Acknowledge` is strongly fair in `cd_careful`: a guest that handles interrupts acknowledges
each of them; a guest that does not is covered by `cd_any`. Devices are strongly fair in `dma_careful` only: the property is about a
device that asks again and again. In `server` both threads are strongly fair: the operating system
runs them and a mutex that is released again and again is obtained. That a client connects or sends is
never assumed. In `cpu` the interpreter's step and the return of the handler are weakly fair, in `sio` the transfer's event: the main loop and the scheduler run them. `gpu` needs no fairness. A linked list that ends is assumed by `StallEnds` through the constant `Nodes`.

## 4. Findings

One violation run shows that the code does not do what a comment of its own says (`cd_queued_getid`; the quotation is in `PROJECT.json`):

- GetID, Test and commands with wrong parameters raise their first interrupt at once. Queued behind another command they do so inside the acknowledge of that one, which clears it.

Seen on the way, recorded among the hazards, and stated by a property or excluded by a named assumption where a property needs it:

- StopThread, called from the button or at the end of `main` by the thread that would have to answer, joins a server thread that sleeps in AwaitEmuResponse: a request to stop does not notify the
  condition variable (`Server.hpp:92`), and both threads wait for ever. A request that comes between the check of the loop and the wait, or a spurious wake-up after it, makes the
  thread take the front of an empty queue (`Server.hpp:98`; `fate` = `undefined` in the model). A connected client that has asked for anything, or has just
  said hello, is enough, and the user cannot see it. The line that says `Exit requested from the application, stop the
  thread` (`Server.cpp:839`) is then never reached. Drop the `srv.at` conjunct from `StopObeyed` to see it; the counterexample is a client that connects and a user who stops the thread.
- A Pause that comes while ReadN still seeks, or after SeekL has cleared the reading bit of a pending read, takes the branch for a drive that is not reading (`DriveCommands.cpp:214`): it answers with INT3 and INT2, the
  read event stays, and its sectors are announced with INT1 afterwards. Stop and Init end such a read (`SilenceOrdered` says both).
- The handlers of coprocessor instructions call `status->Exception` themselves when the coprocessor does not exist, is disabled or does not know the instruction (`InstructionHandlers.hpp:355-473`, 840-889;
  `MIPS1.cpp:176`, 221, 324-330, 363-367), where all others set the flag that `StepInstruction` looks at. `StepInstruction` takes the instruction for completed: it adds 4 to the vector, so that the
  first word of the exception handler is skipped, or, in the slot of a taken branch, jumps to the branch's target, so that the exception is lost, with the mode stack pushed: interrupts off, kernel mode.
- `CheckInstructionGTE` (`MIPS1.cpp:73-87`) puts an interrupt off at every COP2 instruction, also at moves and at commands that will be refused. At a MFC2 in front of a GTE command the interrupt arrives at the
  command, which the handler of the BIOS skips; and an exception that is lost leaves `m_rerun_gte_for_interrupt` set.
- `CopStoreOpcode` compares with LWC3 where SWC3 is meant (`InstructionHandlers.hpp:900`), so that SWC3 ends in `error::DebugBreak`, as LWC1 and SWC1 do after their exception.
- A bus error never requests the DMA interrupt, since the master flag is recomputed before it is tested, and enabling the master bit while a flag is up does not request it either (`DmaController.cpp:239`).
- A blanking that is handled before the overdue event of a root counter computes a new one from a value beyond the target, and the interrupt of the target is skipped (`RootCounters.cpp:262`).

- A callback that deschedules another event while its own is tied with a third one makes `Advance` drop the third unfired and fire its own twice, because
  `make_heap` may change the root that is popped afterwards (`Scheduler.cpp:88`; set `TieGuard = FALSE` and `MAX_EVENTS = 4` in `MCScheduler.cfg`). `Gpu::HBlank` reaches `Deschedule` through
  `RootCounter::UpdateEvents`.
- After a target event a read of a root counter counts the cycles before the event a second time (`RootCounters.cpp:428`); `CountsEveryCycle` is stated for the cases in which
  it does not.
- Init removes the scheduled INT1 and leaves its response in the FIFO (`DriveCommands.cpp:251`; drop `"init"` from `Care` in `MCCDDrive.cfg`).
- After two broken connections a client may get the registers its predecessor asked for (drop `losses <= 1` from `AnswerIsFresh`).
- A breakpoint sent on a broken connection ends the process when HandleEmuCommands or the handshake sends it (`ServerAsyncCommands.cpp:35`).
- A partial acknowledge pops a second response (`CDDrive.cpp:254`).
- A byte written to the serial port during a transfer is repeated after every later one (`SIOPort.cpp:291`).
- A polyline longer than the command queue loses its terminator, and one without a vertex reads an empty queue (`GPU.cpp:44`, `DrawCalls.cpp:406`); a reset does not end the reading of a picture (`GP1Commands.cpp:34`);
  the second pixel of a word lands in the next row at the right edge (`GPU.cpp:614`), and copies and pictures read back do not wrap; selecting the page of the last page command again after a
  textured polygon of another page does nothing (`GP0Commands.cpp:63`); the request line is down during polylines (`GPU.cpp:376`).
- Counter 2 stops in both free-running sync modes (`RootCounters.hpp:29-34` against `RootCounters.cpp:461-464`), paused time is counted
  when a pause ends, and mode PAUSE_AND_SWITCH never pauses.

## 5. Proofs

All theorems hold for every value of the constants that satisfies the `ASSUME` of the module; none assumes
anything else but the rules of section 2 where stated.

| Theorem | Statement |
|---|---|
| `SchedulerSafety` | types, unique handles, nothing overdue |
| `SchedulerClock` | the clock never goes back |
| `SchedulerExactlyOnce` | with `TieGuard`, every event handed out is waiting, fired or removed, and never back after that |
| `SchedulerImplementsTimer` | with `TieGuard`, `Scheduler` implements `TimerService` |
| `SchedulerHeapOrdered` | for every capacity, `HeapOrdered`: the array stays a heap |
| `SchedulerHeapImplementsScheduler` | `SchedulerHeap` implements `Scheduler` (`ImplementsScheduler`), so that the theorems above hold of the array |
| `CDDriveAnyGuest` | types, `CommandSlot`, `AnnouncedSectorIntact`, `ReadingIsLive` |
| `CDDriveCarefulGuest` | with `Care = Cares`: `NoOrphanResponse`, `FlagMatchesHead`, `OneInterruptAtATime`, `SilenceOrdered` |
| `DmaAnyGuest` | types, `ActiveAreRunning`, `MasterFlagAgrees` |
| `DmaCarefulGuest` | with `Careful`: `NoIdleRequest` |
| `DmaCompletedInFull` | with `Careful`: `CompletedInFull` |
| `RootCounterSafety` | `EventIffRunning`, `OneshotOnce` |
| `RootCounterOnTime` | `CountsEveryCycle`, `EventOnTime` |
| `SIOPortTypeOK`, `SIOPortCardHoldsWrites` | types; for every guest the card holds the complete writes |
| `SIOPortOneReplyPerByte`, `SIOPortPadFrames` | for a guest that respects all of `Cares`, which is a hypothesis inside the properties: one reply per byte, frames of the pad of the right length |
| `ServerTypeOK`, `ServerAnswerIsFresh`, `ServerStoppedOnHello` | types and the two action properties, for a user who stops the thread at any time |
| `GpuInStep`, `GpuDmaFed` | with `pair`, `read` and `polyline` in `Care`: `InStep`, `DmaFed` |
| `GpuPictureInv` | with `Care = Cares`: the renderer's invariant, on which the next two rest |
| `GpuImplementsPainter` | with `Care = Cares`: `Gpu`, with its renderer, implements `Painter` |
| `GpuReadsImage` | with `Care = Cares`: `ReadsImage` |
| `MIPS1Safety` | types, `SlotFlags` |
| `MIPS1ImplementsArchitecture` | `MIPS1` implements `MipsArch` |

- **Scheduler.** `NothingOverdue` is not inductive: inside Advance events are overdue. `IInv` adds that the root is an
  earliest event (`RootIsEarliest`) and how far clock, final time and triggers may be apart in each phase (`ClockInv`). `GInv` adds
  that during a callback the root is the event being fired (`RootIsFiring`), which is what TieGuard
  preserves and what makes the pop after the callback right, and `EveryEventAccounted` extended to that phase (`Ledger`).
  The refinement maps the event being fired to a timer that has fired already.
- **SchedulerHeap.** `HeapOrdered` is not preserved inside a sift, so that the lemmas speak of an array with a hole: `Ordered` leaves out the comparisons with one slot
  and those above another. A hole that sinks along the earlier child leaves an ordered array around it (`SinkSunk`), a value that rises from a leaf ends where it belongs (`RiseOrdered`, with `Below`: halving the slot leads
  back to where the sinking began, so that rising stops there), hence `RefillGood`, and by it `MakeHeapGood`, from the last slot with a child back to the root. `Shuffled`, `Replaced` and `Permuted` say that nothing is lost and nothing
  doubled on the way. Each is a statement about a recursive function, shown by the smallest or largest slot it would fail for. `HeapPushed`, `HeapPopped` and `HeapRemoved` are the result, in the words of `Scheduler`: what becomes of the set and of
  the root. `HeapInv` adds to the ordered array that its events are distinct (so that its length is the size of the set), older than the next id (so that a new one is distinct too), and that the event
  whose callback runs is still in it, so that the pop finds a slot.
- **CDDrive.** `AnyInv` is the four properties and the types. `CareInv` adds `Sound`: either the head is raised and nothing
  scheduled, or nothing is raised and the delivery of the head is scheduled for when it is due or later; the proof goes through the helpers of the response channel
  one by one, with `HalfSound` for the moment inside an acknowledge before its bits are cleared.
  `SilenceOrdered` is not inductive: the latch `m_read_paused` also decides what Pause does, and survives until the next read. `ReadOk` adds that it is set only after an order that was
  obeyed, so that the branch it leads to leaves nothing running, and that no read event is a stray, which is where `reads` is needed.
- **Dma.** `QInv` (types of channels and list, `ListOK`, request lines of careful guests) is a predicate on the record `q`, so that the nested
  calls of one step, a word that raises a line that starts a transfer, are chained by lemmas. `DInv` is about DICR.
  That the list has room follows from the distinctness of its entries (`RoomLeft`). `FInv` counts the words of a careful guest's transfers: what was moved and what is left of the block,
  of the blocks and of the nodes after it is what the registers asked for (`Account`, one disjunct per sync mode, running or paused), and a channel that is not active owes nothing. The words of a linked list of any length are a
  recursive function, `Sum`; what it computes is shown by the smallest number it would fail for (`SmallestNumber`, `SumRecursive`), since a set, unlike a predicate, can be handed to the library's theorem on well-founded relations.
- **RootCounter.** `StateOK` says that the part of an increment that is carried over is smaller than an increment, that a counter that was
  set up is stopped exactly when `Halts` says so and has an event exactly while it is not stopped, and what
  the one-shot flag promises. It is proved for each helper and composed. `TimedInv` adds `GInv`, the relation of the counter and its ghost: while the ghost is exact, value,
  partial count and elapsed time add up to its cycles; while it is timed, the event that is scheduled is due less than one increment after the ghost gets to its goal, and the
  counter has not passed that goal. The sums with products (increments of any length, counters of any width) are lemmas of their own, so that each helper is only substituted into them.
- **SIOPort.** `Inv` has a part for every guest, `XInv`: the types, and `CardInv`, which says for each state of the card's protocol which bytes of the running command
  it has taken (number, data, checksum) and that the data on the card are what the complete writes left. `CardHoldsWrites` alone is not inductive, since the sector is
  stored many bytes after its number was checked. The part for careful guests, `CInv`, adds `PortOK` (nothing owed, no second byte waiting, a transfer in flight exactly while its event is
  scheduled, replies not read = received + in flight) and `PadOK`: between exchanges the pad is at rest in the mode that the complete exchanges left it in (`Rest`), inside one its
  queue of replies and its counter fit the bytes heard so far (`Mid`). Every byte of every command is a case of `Mid`.
- **Server.** What an answer means depends on what else is in the two queues, so that the invariant is about their contents. `FreshLast`: what is fresh was asked last, nothing in the
  queues was asked after it, and the answer to it is behind all others. `CleanInv`: after at most one broken connection, while the thread is not about to end, a thread that talks to a
  client finds only stops in the queues (`AllStop`), one that waits for the answer to a request only stops besides it (`StaleStop`), and one between two clients or in a handshake finds
  nothing asked for behind a stop (`StopLast`), which is why the answer to the handshake means that all before it is gone; before the first break nothing stale is there at all (`NoStale`).
  `HelloInv` says that the connection is open during a handshake, so that the user cannot start the emulator, and that a fresh answer to a stop means that it is stopped. One lemma per
  operation on the queues (`PushFacts`, `ExecuteFacts`, `BreakFacts`, `TakeFacts`) says what it does to each of these predicates, and one per action follows from it.
- **Gpu.** `Inv` relates the fields of the GPU to the words that the guest has sent and read (`Standing`, one disjunct per state of the command processor) and says when the request lines
  are up (`LinesUp`). `InStep` alone is not inductive: it does not say that the queue begins with the guest's own command, which width and height a transfer wraps at (`BlitAt`), or that
  a guest that is not reading has no picture half read. Three groups of lemmas carry it. `PolygonWords` to `QueuedWords`: the parameters that `CommandStart` counts, the words the
  handlers take out and the words of the layout are the same number, at most 12, so that the queue has room. `PixelFacts`, `Meets` and `BlitStep`: division and remainder by sizes of any value, and that
  a transfer's comparisons modulo the size of the video memory recognise the end of a row and of the picture exactly. `BlitInside` and `NotAtEdge`: both pixels of a word lie in the memory, which is where `pair` is needed.
  One lemma per handler and per action substitutes into records. The renderer's content plays no part in this.
- **Gpu and Painter.** `Holding` is about that content. `Sound`: the commands of the batch count, pipeline by pipeline, exactly the primitives that were collected (`AllDrawn`), and the texture is the
  framebuffer unless something is due. `Pictured` adds that the renderer is `Clean` unless the guest painted since it last cleared the cache, and that during a transfer the buffer of the CPU holds the pixels sent
  so far, or the picture to read (`Buffers`). The argument goes through `Image`, the framebuffer as it would be with the batch drawn. `BatchExtended` and `CollectedKeeps`: a primitive that joins the last command or starts one
  is painted after all others, so that collecting a command paints its primitives on `Image` in their order; drawing the batch, the fence and the copy to the texture leave `Image` alone, which is why
  a frame may end between any two words. `FilledCells`, `CopyIsPainted` and `UploadCovers`: what the renderer does in up to four parts inside the edges is the painter's rectangle that wraps around, for every position and size, and
  the pixels of a picture lie on distinct cells (`PixelsDistinct`). `Painted` says of each word that it leaves everything alone or, if it is the last one, carries the command out (`Ended`), and there is
  one lemma for each kind of word: `StartPaints`, `ParameterPaints`, `VertexPaints`, `PerformPaints`. From these follow the steps of the refinement (`WordMaps`, `ReadMaps`, `AbortMaps`; all else stutters).
  The rules of `Cares` are needed here: `cache` where textures are read (`CollectedKeeps`), `page` in `PageEnds`, `copy` in `CopyIsPainted`, `pair` in `NotAtEdge`, `read` in `VramCpuBlitKeeps`, `RowInside`, `WholeWords` and for resets (`ResetCommandInv`), `polyline` in `CommandStarts` and `VertexStands`.
  The folds of the model are recursive functions on sets of positions. That one more element is applied last needs that two such functions agree (`FoldsAgree`), which is shown by the smallest position where they would not, as for `Sum`.
- **MIPS1.** `Inv` adds to the types: in a delay slot the registers, the delayed load and the branch flags are what the branch made of the state in
  front of it (`Slot`); a deferred interrupt is still requested and does not meet another GTE command (`Deferred`); the cause register and the program counter tell program, handler and end apart (`Mode`), where a lost exception leaves its cause behind in the program; an
  interrupt that is enabled tells that the program runs in the mode it had before (`Enabled`).
  The refinement maps a state in a delay slot back to the state in front of the branch, and a state in the handler to the instruction it will return to, so that a branch
  and an interrupt are stuttering steps and the slot completes the branch. The proof has one lemma per outcome of a step and one (`SameIsa`) that the operators of `MipsIsa` mean the same in both modules.

Only model-checked: the liveness properties (temporal proofs under fairness and `ENABLED` are out of the prover's reach). Every other property of a passing run is stated by a theorem.

## 6. Not modelled, and the plan

Left out for good: arithmetic on samples, pixels and vectors (SPU filters, ADPCM, IDCT, GTE), OpenGL, the operating system's memory
manager, formatting and logging, the text of debugger packets, windows and input. The vendored libraries under `src/thirdparty` are not part of the
emulator's own logic. `MDEC`'s decoding thread is never started (`platform/main.cpp:193` is commented out), so that its notification without a lock cannot go wrong in this build. What is left, in this order:

1. `SPU`: the events of the manual transfer that pile up (`SPU.cpp:234`), the interrupt address, envelope stepping as operators.
2. The interrupt registers of the system bus, `I_STAT` and `I_MASK` with an acknowledge in the same step as a request, composed with `MIPS1`.
3. The HBLANK/VBLANK chain of the GPU, composed with `RootCounter`; the addresses of resumed DMA transfers (`DmaBase.cpp:84`), composed with `Gpu`'s request line.
4. `CodeCache`, `MCFilesystem`, and the conversions of `CdLocation` and `CueSheet`, as operators checked against reference
   definitions over bounded inputs.
