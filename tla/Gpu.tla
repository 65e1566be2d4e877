--------------------------------- MODULE Gpu ---------------------------------
(***************************************************************************)
(* The GPU behind its ports GP0, GP1, GPUREAD and GPUSTAT (GPU.cpp,         *)
(* GP0Commands.cpp, GP1Commands.cpp, DrawCalls.cpp) with its renderer, and  *)
(* a guest that sends commands word by word.                                *)
(*                                                                         *)
(* gpu: status (m_cmd_status), fifo (m_cmd_fifo), rem (m_rem_params), read  *)
(*   (m_read_status), wblit and rblit (m_cpu_vram_blit, m_vram_cpu_blit),   *)
(*   page (texture page and transparency of GPUSTAT), raw                   *)
(*   (m_raw_conf.texpage), ren (m_renderer).  dreq is the level of the      *)
(*   request line for each direction that GP1 may have selected: UpdateDreq *)
(*   computes it, and selecting a direction calls UpdateDreq again.  A      *)
(*   blit that is over is NoBlit; its fields are set before they are used.  *)
(*   The status BROKEN stands for undefined behaviour and breakpoints.      *)
(* guest: the command being sent, the words sent and read back, the last    *)
(*   word if it was a command of its own, the number of commands, and       *)
(*   whether it painted since it last cleared the texture cache.  It has    *)
(*   set the drawing area to the whole memory before.                       *)
(*                                                                         *)
(* A word is the i-th word of a command, i from 0.  Recording of commands,  *)
(* the display settings, IRQ1 and the mask bits are left out.  The corners  *)
(* of the drawing area are at most one column past each other.              *)
(***************************************************************************)
EXTENDS Renderer

CONSTANTS FIFO_SIZE,    \* capacity of m_cmd_fifo
          MaxCommands,  \* bound on the commands that are not free
          Care          \* the rules the guest keeps, of Cares

Cares == {"cache",      \* textures are used after the cache was cleared
          "page",       \* a page is not selected twice with another one between
          "copy",       \* copies stay inside the video memory
          "pair",       \* the two pixels of a word do not lie at both edges
          "read",       \* pictures read back lie inside, rows have whole words,
                        \* and they are read to the end
          "polyline"}   \* polylines have a vertex and fit the queue

ASSUME GpuAssumption ==
    /\ FIFO_SIZE \in Nat /\ FIFO_SIZE >= 12
    /\ MaxCommands \in Nat
    /\ Care \subseteq Cares

VARIABLES gpu, guest

vars == <<gpu, guest>>

Directions == {"OFF", "IDK", "CPU_GP0", "GPUREAD_CPU"}

NoBlit == [x |-> 0, y |-> 0, w |-> 0, h |-> 0, curr_x |-> 0, curr_y |-> 0]

Init ==
    /\ gpu = [status |-> "IDLE", fifo |-> << >>, rem |-> 0, read |-> "NONE",
              wblit |-> NoBlit, rblit |-> NoBlit, dreq |-> [d \in Directions |-> FALSE],
              page |-> 0, raw |-> 0, ren |-> NewRenderer]
    /\ guest = [cmd |-> NONE, sent |-> 0, reads |-> 0, last |-> NONE, number |-> 0,
                stale |-> FALSE]

Broken(s) == [s EXCEPT !.status = "BROKEN"]

-----------------------------------------------------------------------------
(* Transfers between CPU and video memory. *)

Blit(c) ==
    [x |-> c.x % VX, y |-> c.y % VY, w |-> Size(c.w, VX), h |-> Size(c.h, VY),
     curr_x |-> c.x % VX, curr_y |-> c.y % VY]

RowEnds(b) == (b.curr_x + 1) % VX = (b.x + b.w) % VX

NextPixel(b) ==
    IF RowEnds(b) THEN [b EXCEPT !.curr_x = b.x, !.curr_y = (@ + 1) % VY]
                  ELSE [b EXCEPT !.curr_x = (@ + 1) % VX]

LastPixel(b) == RowEnds(b) /\ (b.curr_y + 1) % VY = (b.y + b.h) % VY

Index(b) == b.curr_y * VX + b.curr_x

CellAt(i) == <<i % VX, i \div VX>>

FinalizeCpuVramBlit(s) ==
    LET b == s.wblit
        end_x == b.x + b.w
        end_y == b.y + b.h
        over_x == end_x >= VX
        over_y == end_y >= VY
        Part(q, on, x, y, w, h) == IF on THEN CpuVramBlit(q, x, y, w, h) ELSE q
        one == CpuVramBlit(PrepareBlit(s.ren), b.x, b.y, b.w, b.h)
        two == Part(one, over_x, 0, b.y, end_x % VX, b.h)
        three == Part(two, over_y, b.x, 0, b.w, end_y % VY)
        four == Part(three, over_x /\ over_y, 0, 0, end_x % VX, end_y % VY)
    IN  [s EXCEPT !.status = "IDLE", !.wblit = NoBlit, !.ren = SyncTextures(four)]

Poke(s, i, datum, b) ==
    IF CellAt(i) \in Cells THEN [s EXCEPT !.ren.cpu[CellAt(i)] = datum, !.wblit = b]
                           ELSE Broken(s)

\* A word of data: its first pixel, and its second unless the picture ended.
PerformCpuVramBlit(s, lo, hi) ==
    LET b == s.wblit
        b1 == NextPixel(b)
        s1 == Poke(s, Index(b), lo, b1)
        s2 == Poke(s1, IF RowEnds(b) THEN Index(b1) ELSE Index(b) + 1, hi, NextPixel(b1))
    IN  CASE LastPixel(b)                             -> FinalizeCpuVramBlit(s1)
          [] ~LastPixel(b) /\ LastPixel(b1)
                           /\ s2.status # "BROKEN"    -> FinalizeCpuVramBlit(s2)
          [] OTHER                                    -> s2

\* What a read of GPUREAD returns during a transfer, as a sequence of pixels:
\* the second one is the next in memory, and missing at its end.
ReadValue(s) ==
    LET b == s.rblit
        next == CellAt(Index(b) + 1)
    IN  IF LastPixel(b) \/ next \notin Cells THEN <<s.ren.cpu[CellAt(Index(b))]>>
        ELSE <<s.ren.cpu[CellAt(Index(b))], s.ren.cpu[next]>>

ReadData(s) ==
    LET b == s.rblit
        b1 == NextPixel(b)
    IN  CASE s.read # "READ_VRAM" -> s
          [] s.read = "READ_VRAM" /\ (LastPixel(b) \/ LastPixel(b1)) ->
                [s EXCEPT !.rblit = NoBlit, !.status = "IDLE", !.read = "NONE"]
          [] OTHER -> [s EXCEPT !.rblit = NextPixel(b1)]

-----------------------------------------------------------------------------
(* Commands. *)

\* Bug: a colour is counted for every vertex, also for the first one, whose
\* colour is in the command word.
RequiredParamsAllColours(c) ==
    CASE c.op = "POLYGON" -> (IF c.quad THEN 4 ELSE 3) * (1 + Bit(c.tex) + Bit(c.gouraud))
      [] c.op = "LINE" -> 2 * (1 + Bit(c.gouraud)) - Bit(c.gouraud)
      [] c.op = "RECTANGLE" -> 1 + Bit(c.variable) + Bit(c.tex)
      [] c.op = "VRAM_BLIT" -> 3
      [] OTHER -> 2

\* The parameters that CommandStart asks for.
RequiredParams(c) ==
    CASE c.op = "POLYGON" ->
            (IF c.quad THEN 4 ELSE 3) * (1 + Bit(c.tex) + Bit(c.gouraud)) - Bit(c.gouraud)
      [] c.op = "LINE" -> 2 * (1 + Bit(c.gouraud)) - Bit(c.gouraud)
      [] c.op = "RECTANGLE" -> 1 + Bit(c.variable) + Bit(c.tex)
      [] c.op = "VRAM_BLIT" -> 3
      [] OTHER -> 2

\* The words that the handlers take out of the queue.
Dequeued(c, len) ==
    CASE c.op = "POLYGON" ->
            LET n == IF c.quad THEN 4 ELSE 3
            IN  1 + n + (IF c.tex THEN n ELSE 0) + (IF c.gouraud THEN n - 1 ELSE 0)
      [] c.op = "LINE" /\ ~c.poly -> 3 + Bit(c.gouraud)
      [] c.op = "LINE" /\ c.poly -> IF len < 2 THEN 2 ELSE len
      [] c.op = "RECTANGLE" -> 2 + Bit(c.tex) + Bit(c.variable)
      [] c.op = "VRAM_BLIT" -> 4
      [] OTHER -> 3

Draw(s, c, n) ==
    LET prims == Primitives(c, s.page, n)
    IN  [s EXCEPT !.status = "IDLE", !.page = IF c.op = "POLYGON" THEN PageOf(c, @) ELSE @,
                  !.ren = FoldLeft(DrawPrimitive, @, prims)]

QuickFill(s, c, n) ==
    LET w == Aligned((c.w % VX) + ALIGN - 1)
        h == c.h % VY
        q == SyncTextures(FlushCommands(s.ren))
    IN  [s EXCEPT !.status = "IDLE",
                  !.ren = IF w = 0 \/ h = 0 THEN q
                          ELSE Fill(q, Aligned(c.x % VX), c.y % VY, w, h, Datum(n, 0))]

\* The command at the head of the queue is complete; n numbers what it paints.
CommandEnd(s, n) ==
    LET c == s.fifo[1].cmd
        len == Len(s.fifo)
        t == [s EXCEPT !.fifo = SubSeq(@, Dequeued(c, len) + 1, len)]
    IN  CASE Dequeued(c, len) > len -> Broken(s)
          [] Dequeued(c, len) <= len /\ Draws(c) -> Draw(t, c, n)
          [] c.op = "QUICK_FILL" -> QuickFill(t, c, n)
          [] c.op = "VRAM_BLIT" ->
                [t EXCEPT !.status = "IDLE",
                          !.ren = VramVramBlit(@, c.sx % VX, c.sy % VY, c.x % VX, c.y % VY,
                                               Size(c.w, VX), Size(c.h, VY))]
          [] c.op = "CPU_VRAM_BLIT" ->
                [t EXCEPT !.status = "CPU_VRAM_BLIT", !.wblit = Blit(c),
                          !.ren = BeginCpuVramBlit(@)]
          [] c.op = "VRAM_CPU_BLIT" ->
                LET b == Blit(c)
                IN  [t EXCEPT !.status = "VRAM_CPU_BLIT", !.read = "READ_VRAM", !.rblit = b,
                              !.ren = VramCpuBlit(@, b.x, b.y, b.w, b.h)]

Texpage(s, c) ==
    IF c.page = s.raw THEN s
    ELSE [s EXCEPT !.raw = c.page, !.page = c.page, !.ren = SyncTextures(FlushCommands(@))]

\* The drawing area and the offset are changed after what was collected is drawn.
DrawAreaTopLeft(s, c) ==
    IF s.ren.area.left = c.x /\ s.ren.area.top = c.y THEN s
    ELSE [s EXCEPT !.ren = [FlushCommands(@) EXCEPT !.area.left = c.x, !.area.top = c.y]]

DrawAreaBottomRight(s, c) ==
    IF s.ren.area.right = c.x /\ s.ren.area.bottom = c.y THEN s
    ELSE [s EXCEPT !.ren = [FlushCommands(@) EXCEPT !.area.right = c.x, !.area.bottom = c.y]]

DrawOffset(s, c) ==
    IF s.ren.offset = c.x THEN s
    ELSE [s EXCEPT !.ren = [FlushCommands(@) EXCEPT !.offset = c.x]]

\* A word that is not the first of a command is some other command here.
CommandStart(s, word) ==
    LET c == word.cmd
        q == [s EXCEPT !.fifo = Append(@, word)]
    IN  CASE word.i > 0               -> Broken(s)
          [] word.i = 0 /\ c.op = "NOP" -> s
          [] c.op = "CLEAR_CACHE"     -> [s EXCEPT !.ren = SyncTextures(FlushCommands(@))]
          [] c.op = "TEXPAGE"         -> Texpage(s, c)
          [] c.op = "SET_DRAW_TOP"    -> DrawAreaTopLeft(s, c)
          [] c.op = "SET_DRAW_BOTTOM" -> DrawAreaBottomRight(s, c)
          [] c.op = "SET_DRAW_OFFSET" -> DrawOffset(s, c)
          [] c.op = "LINE" /\ c.poly  ->
                [q EXCEPT !.status = IF c.gouraud THEN "POLYLINE_GOURAUD" ELSE "POLYLINE"]
          [] OTHER -> [q EXCEPT !.status = "WAITING_PARAMETERS", !.rem = RequiredParams(c)]

-----------------------------------------------------------------------------
(* The registers. *)

\* Bug: the line is down while parameters are missing.
UpdateDreqIdleOnly(s) ==
    [s EXCEPT !.dreq = [d \in Directions |->
        CASE d = "OFF"     -> FALSE
          [] d = "IDK"     -> Len(s.fifo) < FIFO_SIZE
          [] d = "CPU_GP0" -> s.status \in {"IDLE", "CPU_VRAM_BLIT", "VRAM_CPU_BLIT"}
          [] d = "GPUREAD_CPU" -> s.status = "VRAM_CPU_BLIT"]]

UpdateDreq(s) ==
    [s EXCEPT !.dreq = [d \in Directions |->
        CASE d = "OFF"     -> FALSE
          [] d = "IDK"     -> Len(s.fifo) < FIFO_SIZE
          [] d = "CPU_GP0" -> s.status \in {"IDLE", "WAITING_PARAMETERS",
                                            "CPU_VRAM_BLIT", "VRAM_CPU_BLIT"}
          [] d = "GPUREAD_CPU" -> s.status = "VRAM_CPU_BLIT"]]

IsTerminator(word) == word.cmd.op = "LINE" /\ word.cmd.poly /\ word.i = Words(word.cmd) - 1

Parameter(s, word, n) ==
    LET q == [s EXCEPT !.rem = @ - 1, !.fifo = Append(@, word)]
    IN  IF q.rem = 0 THEN CommandEnd(q, n) ELSE q

Vertex(s, word, n) ==
    IF IsTerminator(word) /\ (s.status = "POLYLINE" \/ Len(s.fifo) % 2 = 0)
    THEN CommandEnd(s, n)
    ELSE [s EXCEPT !.fifo = Append(@, word)]

\* Pixel k of the picture that a data word carries.
Data(word, n, k) == Datum(n, 2 * (word.i - HeaderWords(word.cmd)) + k)

WriteGP0(s, word, n) ==
    IF Len(s.fifo) = FIFO_SIZE THEN s
    ELSE UpdateDreq(
        CASE s.status = "IDLE"               -> CommandStart(s, word)
          [] s.status = "WAITING_PARAMETERS" -> Parameter(s, word, n)
          [] s.status = "CPU_VRAM_BLIT"      ->
                PerformCpuVramBlit(s, Data(word, n, 0), Data(word, n, 1))
          [] s.status \in {"POLYLINE", "POLYLINE_GOURAUD"} -> Vertex(s, word, n)
          [] OTHER                           -> s)

\* Reset also switches the DMA off and resets the display.
ResetFifo(s) == [s EXCEPT !.fifo = << >>, !.status = "IDLE", !.rem = 0, !.wblit = NoBlit]

\* GPUREAD returns a latch from now on (READ_REG), which changes nothing.
GpuReadInternal(s) == [s EXCEPT !.read = "NONE"]

-----------------------------------------------------------------------------
(* The guest. *)

Reading == guest.cmd.op = "VRAM_CPU_BLIT" /\ guest.sent = Words(guest.cmd)

Straddles(c) ==
    \E k \in 0 .. Width(c) * Height(c) - 1 :
        k % 2 = 0 /\ (k + 1) % Width(c) # 0 /\ CellOf(c, k)[1] = VX - 1

\* The rules of Care, for the command the guest is about to send.
Careful(c) ==
    /\ "cache" \in Care /\ Textured(c) => ~guest.stale
    /\ "page" \in Care /\ c.op = "TEXPAGE" => gpu.page = c.page \/ gpu.raw # c.page
    /\ "copy" \in Care /\ c.op = "VRAM_BLIT" =>
            /\ Inside(c.sx % VX, c.sy % VY, Width(c), Height(c))
            /\ Inside(c.x % VX, c.y % VY, Width(c), Height(c))
    /\ "pair" \in Care /\ c.op = "CPU_VRAM_BLIT" => ~Straddles(c)
    /\ "read" \in Care /\ c.op = "VRAM_CPU_BLIT" =>
            /\ Inside(c.x % VX, c.y % VY, Width(c), Height(c))
            /\ Width(c) % 2 = 0 \/ Height(c) = 1
    /\ "polyline" \in Care /\ c.op = "LINE" /\ c.poly =>
            c.n > 0 /\ HeaderWords(c) <= FIFO_SIZE

Number(c) == guest.number + Bit(guest.sent = 0 /\ ~Free(c))

\* The guest after the next word of c.
After(c) ==
    LET last == guest.sent + 1 = Words(c)
        kept == ~last \/ c.op = "VRAM_CPU_BLIT"
    IN  [cmd    |-> IF kept THEN c ELSE NONE,
         sent   |-> IF kept THEN guest.sent + 1 ELSE 0,
         reads  |-> 0,
         last   |-> IF Words(c) = 1 THEN c ELSE NONE,
         number |-> Number(c),
         stale  |-> IF last /\ Paints(c) THEN TRUE ELSE guest.stale /\ c.op # "CLEAR_CACHE"]

SendWord(c) ==
    /\ gpu.status # "BROKEN"
    /\ gpu' = WriteGP0(gpu, [cmd |-> c, i |-> guest.sent], Number(c))
    /\ guest' = After(c)

StartCommand(c) ==
    /\ guest.cmd = NONE
    /\ Careful(c)
    /\ Number(c) <= MaxCommands
    /\ SendWord(c)

ContinueCommand ==
    /\ guest.cmd # NONE /\ ~Reading
    /\ SendWord(guest.cmd)

ReadWord ==
    /\ Reading /\ gpu.status # "BROKEN"
    /\ gpu' = ReadData(gpu)
    /\ guest' = IF guest.reads + 1 = DataWords(guest.cmd)
                THEN [guest EXCEPT !.cmd = NONE, !.sent = 0, !.reads = 0]
                ELSE [guest EXCEPT !.reads = @ + 1]

ResetCommand ==
    /\ gpu.status # "BROKEN"
    /\ "read" \in Care => ~Reading
    /\ gpu' = UpdateDreq(ResetFifo(gpu))
    /\ guest' = [guest EXCEPT !.cmd = NONE, !.sent = 0, !.reads = 0]

ReadGpuRegister ==
    /\ gpu.status # "BROKEN"
    /\ "read" \in Care => ~Reading
    /\ gpu' = UpdateDreq(GpuReadInternal(gpu))
    /\ UNCHANGED guest

\* A read of GPUSTAT, a new DMA direction or another command of GP1.
ReadStat ==
    /\ gpu.status # "BROKEN"
    /\ gpu' = UpdateDreq(gpu)
    /\ UNCHANGED guest

\* The end of a frame, between any two accesses.
FrameEnds ==
    /\ gpu.status # "BROKEN"
    /\ gpu' = [gpu EXCEPT !.ren = VBlank(@)]
    /\ UNCHANGED guest

Next ==
    \/ \E c \in Commands : StartCommand(c)
    \/ ContinueCommand
    \/ ReadWord
    \/ ResetCommand
    \/ ReadGpuRegister
    \/ ReadStat
    \/ FrameEnds

Spec == Init /\ [][Next]_vars

-----------------------------------------------------------------------------
(* Properties. *)

\* GPU and guest agree on where a command stands: the GPU waits for exactly
\* the words that the guest has still to send or to read, and when it is idle
\* its queue is empty.  GPU.cpp logs "Status is idle but command fifo is not
\* empty" when it is not so.  What is counted in CommandStart, taken out in
\* DrawCalls.cpp and stepped through in a transfer must add up, also after
\* resets in the middle.
InStep ==
    LET c == guest.cmd
        pixels == Width(c) * Height(c)
        At(b, k) == <<b.curr_x, b.curr_y>> = CellOf(c, k)
    IN  CASE gpu.status = "IDLE" -> c = NONE /\ gpu.fifo = << >>
          [] gpu.status = "WAITING_PARAMETERS" ->
                c # NONE /\ Len(gpu.fifo) = guest.sent /\ gpu.rem = HeaderWords(c) - guest.sent
          [] gpu.status \in {"POLYLINE", "POLYLINE_GOURAUD"} ->
                c # NONE /\ c.op = "LINE" /\ Len(gpu.fifo) = guest.sent
          [] gpu.status = "CPU_VRAM_BLIT" ->
                c.op = "CPU_VRAM_BLIT" /\ At(gpu.wblit, 2 * (guest.sent - HeaderWords(c)))
          [] gpu.status = "VRAM_CPU_BLIT" ->
                Reading /\ gpu.read = "READ_VRAM" /\ At(gpu.rblit, 2 * guest.reads)
          [] OTHER -> FALSE

P == INSTANCE Painter WITH
        image <- Image(gpu.ren), page <- gpu.page,
        area <- gpu.ren.area, offset <- gpu.ren.offset,
        cmd <- guest.cmd, sent <- guest.sent, reads <- guest.reads,
        last <- guest.last, number <- guest.number

\* The GPU implements the painter: although primitives are collected in
\* several buffers and drawn in batches, with settings kept outside of them,
\* from a texture that is brought up to date now and then, and pictures are
\* written to a buffer first and uploaded in parts, the framebuffer becomes
\* what it would be if each command were painted when its last word arrives.
ImplementsPainter == P!Spec

\* A word that the guest reads back holds the next two pixels of the picture
\* as painted by the commands before.
ReadsImage ==
    [][ ReadWord =>
        LET c == guest.cmd
            k == 2 * guest.reads
            Pixel(j) == Image(gpu.ren)[CellOf(c, j)]
        IN  ReadValue(gpu) = IF k + 1 = Width(c) * Height(c) THEN <<Pixel(k)>>
                             ELSE <<Pixel(k), Pixel(k + 1)>> ]_vars

\* The request line is up when the GPU can be fed or has words to give, so that
\* the DMA channel that waits for it goes on.  (During a polyline the line is
\* down: UpdateDreq knows nothing of these states.)
DmaFed ==
    /\ guest.cmd # NONE /\ (guest.cmd.op = "LINE" => ~guest.cmd.poly) => gpu.dreq["CPU_GP0"]
    /\ Reading => gpu.dreq["GPUREAD_CPU"]

=============================================================================
