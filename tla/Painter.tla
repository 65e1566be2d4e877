------------------------------- MODULE Painter -------------------------------
(***************************************************************************)
(* What the guest relies on: the GPU paints a command as soon as its last   *)
(* word is there, with the page, drawing area and offset of that moment,    *)
(* into one video memory that textures, copies and transfers read.  A reset *)
(* in the middle of a command paints nothing of it.                         *)
(***************************************************************************)
EXTENDS GpuCommands

VARIABLES image,      \* the video memory
          page,       \* the selected page
          area,       \* the drawing area
          offset,     \* the drawing offset
          cmd, sent,  \* the command being sent and how many of its words were
          reads,      \* the words of a picture read back so far
          last,       \* the command of the last word, if it has only that one
          number      \* the commands started, without those that are free

painter == <<cmd, sent, reads, last, page, area, offset, number, image>>

Init ==
    /\ image = Blank
    /\ page = 0
    /\ area = Whole
    /\ offset = 0
    /\ cmd = NONE /\ sent = 0 /\ reads = 0 /\ last = NONE /\ number = 0

\* The video memory now after c.
Drawn(c, now) ==
    FoldLeft(LAMBDA img, p : Rasterised(img, now, area, offset, p, p.mode),
             now, Primitives(c, page, number))

Filled(c, now) ==
    LET cells == Wrapped(Aligned(c.x), c.y, Aligned((c.w % VX) + ALIGN - 1), c.h % VY)
    IN  [p \in Cells |-> IF p \in cells THEN Datum(number, 0) ELSE now[p]]

Moved(c, now) ==
    [p \in Cells |->
        IF p \in Wrapped(c.x, c.y, Width(c), Height(c))
        THEN now[<<(p[1] - c.x + c.sx) % VX, (p[2] - c.y + c.sy) % VY>>]
        ELSE now[p]]

Sent(c, now) ==
    [p \in Cells |->
        LET ks == {k \in 0 .. Width(c) * Height(c) - 1 : CellOf(c, k) = p}
        IN  IF ks = {} THEN now[p] ELSE Datum(number, CHOOSE k \in ks : TRUE)]

Execute(c) ==
    /\ page' = CASE c.op = "TEXPAGE"         -> c.page
                 [] c.op = "POLYGON"         -> PageOf(c, page)
                 [] OTHER                    -> page
    /\ area' = CASE c.op = "SET_DRAW_TOP"    -> [area EXCEPT !.left = c.x, !.top = c.y]
                 [] c.op = "SET_DRAW_BOTTOM" -> [area EXCEPT !.right = c.x, !.bottom = c.y]
                 [] OTHER                    -> area
    /\ offset' = IF c.op = "SET_DRAW_OFFSET" THEN c.x ELSE offset
    /\ LET now == image
       IN  image' = CASE Draws(c)               -> Drawn(c, now)
                      [] c.op = "QUICK_FILL"    -> Filled(c, now)
                      [] c.op = "VRAM_BLIT"     -> Moved(c, now)
                      [] c.op = "CPU_VRAM_BLIT" -> Sent(c, now)
                      [] OTHER                  -> now

\* The guest sends the next word of c; a picture to read back follows the
\* last one.
Word(c) ==
    /\ cmd = NONE \/ (cmd = c /\ sent < Words(c))
    /\ reads' = 0
    /\ last' = IF Words(c) = 1 THEN c ELSE NONE
    /\ number' = number + Bit(sent = 0 /\ ~Free(c))
    /\ IF sent + 1 < Words(c) \/ c.op = "VRAM_CPU_BLIT"
       THEN cmd' = c /\ sent' = sent + 1
       ELSE cmd' = NONE /\ sent' = 0
    /\ IF sent + 1 < Words(c) THEN UNCHANGED <<page, area, offset, image>>
                              ELSE Execute(c)

Read ==
    /\ cmd.op = "VRAM_CPU_BLIT" /\ sent = Words(cmd)
    /\ IF reads + 1 < DataWords(cmd)
       THEN reads' = reads + 1 /\ UNCHANGED <<cmd, sent>>
       ELSE reads' = 0 /\ cmd' = NONE /\ sent' = 0
    /\ UNCHANGED <<last, page, area, offset, number, image>>

Abort ==
    /\ cmd' = NONE /\ sent' = 0 /\ reads' = 0
    /\ UNCHANGED <<last, page, area, offset, number, image>>

Next == (\E c \in Commands : Word(c)) \/ Read \/ Abort

Spec == Init /\ [][Next]_painter

=============================================================================
