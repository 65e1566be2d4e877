------------------------------- MODULE Renderer ------------------------------
(***************************************************************************)
(* The renderer (GLRenderer.cpp, Vram.cpp, FrameBuffer.cpp): it collects    *)
(* primitives, draws them later in batches, and keeps three copies of the   *)
(* video memory: the framebuffer it draws to, the texture it samples and    *)
(* the buffer that the CPU reads and writes.                                *)
(*                                                                         *)
(* The operators take the renderer's record q:                              *)
(*   vertices   the primitives of each pipeline's vertex buffer             *)
(*   commands   m_commands: how many of which pipeline are drawn in turn    *)
(*   fbo, tex   the output framebuffer and the input texture                *)
(*   cpu        m_buffer_ptr                                                *)
(*   need       m_need_gpu_to_host_copy, the texture is behind              *)
(*   busy       m_processing_cmd, work was given out and not waited for     *)
(*   area       m_scissor            offset   draw_x_off of the uniforms    *)
(* OpenGL is external: drawing takes effect in the order it is asked for.   *)
(***************************************************************************)
EXTENDS GpuCommands

CONSTANT MAX_PRIMITIVES   \* MAX_VERTEX_COUNT, in primitives

ASSUME RendererAssumption == MAX_PRIMITIVES \in Nat \ {0}

PipelineType == {"UNTEXTURED_OPAQUE_FLAT_TRIANGLE", "BASIC_GOURAUD_TRIANGLE",
                 "TEXTURED_TRIANGLE", "MONO_LINE", "SHADED_LINE"}

NewRenderer ==
    [vertices |-> [t \in PipelineType |-> << >>], commands |-> << >>,
     fbo |-> Blank, tex |-> Blank, cpu |-> Blank, need |-> FALSE, busy |-> FALSE,
     area |-> Whole, offset |-> 0]

SyncTextures(q) == IF q.need THEN [q EXCEPT !.tex = q.fbo, !.need = FALSE] ELSE q

CommandFenceSync(q) == IF q.busy THEN [q EXCEPT !.busy = FALSE, !.need = TRUE] ELSE q

\* One command of the batch draws the next primitives of its pipeline; s holds
\* the framebuffer and how many primitives each pipeline has drawn.
DrawCommands(q, s, k) ==
    LET first == s.drawn[k.type]
        piece == SubSeq(q.vertices[k.type], first + 1, first + k.count)
    IN  [fbo   |-> FoldLeft(LAMBDA img, p : Rasterised(img, q.tex, q.area, q.offset, p, k.mode),
                            s.fbo, piece),
         drawn |-> [s.drawn EXCEPT ![k.type] = @ + k.count]]

Batched(q) ==
    FoldLeft(LAMBDA s, k : DrawCommands(q, s, k),
             [fbo |-> q.fbo, drawn |-> [t \in PipelineType |-> 0]], q.commands).fbo

DrawBatch(q) ==
    IF q.commands = << >> THEN q
    ELSE [q EXCEPT !.fbo = Batched(q), !.commands = << >>,
                   !.vertices = [t \in PipelineType |-> << >>], !.busy = TRUE]

FlushCommands(q) == CommandFenceSync(DrawBatch(q))

\* Bug: the way transparent colours are added is not compared.
AppendCommandAnyMode(q, p) ==
    LET n == Len(q.commands)
    IN  IF n > 0 /\ q.commands[n].type = p.type
        THEN [q EXCEPT !.commands[n].count = @ + 1]
        ELSE [q EXCEPT !.commands = Append(@, [type |-> p.type, mode |-> p.mode, count |-> 1])]

\* A primitive joins the last command if it is drawn in the same way.
AppendCommand(q, p) ==
    LET n == Len(q.commands)
    IN  IF n > 0 /\ q.commands[n].type = p.type /\ q.commands[n].mode = p.mode
        THEN [q EXCEPT !.commands[n].count = @ + 1]
        ELSE [q EXCEPT !.commands = Append(@, [type |-> p.type, mode |-> p.mode, count |-> 1])]

DrawPrimitive(q, p) ==
    LET room == IF Len(q.vertices[p.type]) >= MAX_PRIMITIVES THEN FlushCommands(q) ELSE q
    IN  AppendCommand([room EXCEPT !.vertices[p.type] = Append(@, p)], p)

VBlank(q) == SyncTextures(FlushCommands(q))

\* A fill that crosses an edge is cleared in two or four parts.
FillParts(x, y, w, h) ==
    LET over_x == x + w > VX
        over_y == y + h > VY
    IN  Clipped(x, y, w, h)
        \cup (IF over_x THEN Clipped(0, y, x + w - VX, h) ELSE {})
        \cup (IF over_y THEN Clipped(x, 0, w, y + h - VY) ELSE {})
        \cup (IF over_x /\ over_y THEN Clipped(0, 0, x + w - VX, y + h - VY) ELSE {})

Fill(q, x, y, w, h, colour) ==
    LET cells == FillParts(x, y, w, h)
    IN  [q EXCEPT !.need = TRUE,
                  !.fbo = [p \in Cells |-> IF p \in cells THEN colour ELSE q.fbo[p]]]

\* A copy reads the texture, which is black outside, and is clipped.
VramVramBlit(q, sx, sy, x, y, w, h) ==
    LET s == SyncTextures(FlushCommands(q))
        source(p) == <<p[1] - x + sx, p[2] - y + sy>>
        d == [s EXCEPT !.busy = TRUE,
                !.fbo = [p \in Cells |->
                    IF p \notin Clipped(x, y, w, h) THEN s.fbo[p]
                    ELSE IF source(p) \in Cells THEN s.tex[source(p)] ELSE BLACK]]
    IN  SyncTextures(CommandFenceSync(d))

BeginCpuVramBlit(q) == DrawBatch(q)

PrepareBlit(q) == SyncTextures(CommandFenceSync(q))

CpuVramBlit(q, x, y, w, h) ==
    LET cells == Clipped(x, y, w, h)
    IN  CommandFenceSync([q EXCEPT !.busy = TRUE,
            !.fbo = [p \in Cells |-> IF p \in cells THEN q.cpu[p] ELSE q.fbo[p]]])

\* Bug: what was collected is not drawn before the download.
VramCpuBlitUnflushed(q, x, y, w, h) ==
    [q EXCEPT !.cpu = [p \in Cells |-> IF p \in Clipped(x, y, w, h) THEN q.fbo[p]
                                       ELSE q.cpu[p]]]

\* The driver refuses to download a rectangle that crosses an edge.
VramCpuBlit(q, x, y, w, h) ==
    LET f == FlushCommands(q)
    IN  IF Inside(x, y, w, h)
        THEN [f EXCEPT !.cpu = [p \in Cells |-> IF p \in Clipped(x, y, w, h) THEN f.fbo[p]
                                                ELSE f.cpu[p]]]
        ELSE f

\* The video memory as it will be when the collected primitives are drawn.
Image(q) == Batched(q)

=============================================================================
