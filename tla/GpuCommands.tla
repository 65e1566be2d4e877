----------------------------- MODULE GpuCommands -----------------------------
(***************************************************************************)
(* The commands of the GPU's port GP0, as a guest composes them and as the *)
(* painter and the emulated GPU take them (GPUCommands.hpp, DrawCalls.cpp). *)
(*                                                                         *)
(* The video memory has VX columns and VY rows.  A pixel is the sequence of *)
(* what was painted there: an opaque colour replaces it, a transparent one  *)
(* is added.  A triangle or a segment covers one pixel.  Colours,          *)
(* coordinates of vertices, texture windows, dithering and mask bits are   *)
(* left out.                                                               *)
(***************************************************************************)
EXTENDS Integers, Sequences, FiniteSets, SequencesExt

CONSTANTS VX, VY,       \* VRAM_X_SIZE, VRAM_Y_SIZE
          ALIGN,        \* fills are aligned to 16 columns
          Commands      \* the commands the guest uses

\* A simple line has two vertices.
CommandType ==
    [op : {"POLYGON"}, quad : BOOLEAN, tex : BOOLEAN, gouraud : BOOLEAN, trans : BOOLEAN,
     large : BOOLEAN, x : Nat, y : Nat, page : Nat]
    \cup {c \in [op : {"LINE"}, gouraud : BOOLEAN, poly : BOOLEAN, n : Nat, trans : BOOLEAN,
                 large : BOOLEAN, x : Nat, y : Nat] : c.poly \/ c.n = 2}
    \cup [op : {"RECTANGLE"}, variable : BOOLEAN, tex : BOOLEAN, trans : BOOLEAN,
          large : BOOLEAN, x : Nat, y : Nat]
    \cup [op : {"QUICK_FILL", "CPU_VRAM_BLIT", "VRAM_CPU_BLIT"}, x : Nat, y : Nat,
          w : Nat, h : Nat]
    \cup [op : {"VRAM_BLIT"}, sx : Nat, sy : Nat, x : Nat, y : Nat, w : Nat, h : Nat]
    \cup [op : {"TEXPAGE"}, page : Nat]
    \cup [op : {"SET_DRAW_TOP", "SET_DRAW_BOTTOM"}, x : Nat, y : Nat]
    \cup [op : {"SET_DRAW_OFFSET"}, x : Int]
    \cup [op : {"NOP", "CLEAR_CACHE"}]

ASSUME GpuCommandsAssumption ==
    /\ VX \in Nat \ {0, 1} /\ VY \in Nat \ {0}
    /\ ALIGN \in Nat \ {0} /\ VX % ALIGN = 0
    /\ Commands \subseteq CommandType

NONE == [op |-> "NONE"]
OPAQUE == -1
BLACK == << >>

Bit(b) == IF b THEN 1 ELSE 0

Cells == (0 .. VX - 1) \X (0 .. VY - 1)

Blank == [p \in Cells |-> BLACK]

Whole == [left |-> 0, right |-> VX - 1, top |-> 0, bottom |-> VY - 1]

\* What a rectangle covers: with wrap-around, and clipped at the edges.
Wrapped(x, y, w, h) ==
    {<<(x + i) % VX, (y + j) % VY>> : i \in 0 .. w - 1, j \in 0 .. h - 1}

Clipped(x, y, w, h) ==
    {p \in Cells : p[1] \in x .. x + w - 1 /\ p[2] \in y .. y + h - 1}

Inside(x, y, w, h) == x + w <= VX /\ y + h <= VY

Aligned(x) == x - (x % ALIGN)

\* The size fields of transfers: 0 is the full size, larger ones wrap.
Size(s, v) == IF s = 0 THEN v ELSE ((s - 1) % v) + 1

Width(c) == Size(c.w, VX)

Height(c) == Size(c.h, VY)

\* Two pixels travel in a word.
DataWords(c) == (Width(c) * Height(c) + 1) \div 2

\* The k-th pixel of a transfer, k from 0: rows from left to right.
CellOf(c, k) == <<(c.x + (k % Width(c))) % VX, (c.y + (k \div Width(c))) % VY>>

\* The k-th pixel of the n-th picture.
Datum(n, k) == << <<n, k + 1>> >>

-----------------------------------------------------------------------------
(* The words of a command, from the layout of its vertices. *)

Vertices(c) == CASE c.op = "POLYGON" -> IF c.quad THEN 4 ELSE 3
                 [] c.op = "LINE"    -> c.n

\* The words before the data of a transfer.
HeaderWords(c) ==
    CASE c.op = "POLYGON"   -> 1 + Vertices(c) + (IF c.tex THEN Vertices(c) ELSE 0)
                                 + (IF c.gouraud THEN Vertices(c) - 1 ELSE 0)
      [] c.op = "LINE"      -> 1 + c.n + (IF c.gouraud /\ c.n > 0 THEN c.n - 1 ELSE 0) + Bit(c.poly)
      [] c.op = "RECTANGLE" -> 2 + Bit(c.tex) + Bit(c.variable)
      [] c.op \in {"QUICK_FILL", "CPU_VRAM_BLIT", "VRAM_CPU_BLIT"} -> 3
      [] c.op = "VRAM_BLIT" -> 4
      [] OTHER              -> 1

Words(c) == HeaderWords(c) + (IF c.op = "CPU_VRAM_BLIT" THEN DataWords(c) ELSE 0)

Draws(c) == c.op \in {"POLYGON", "LINE", "RECTANGLE"}

Textured(c) == c.op \in {"POLYGON", "RECTANGLE"} /\ c.tex

\* Primitives with a side longer than the video memory are not drawn.
Paints(c) ==
    \/ Draws(c) /\ ~c.large
    \/ c.op \in {"QUICK_FILL", "VRAM_BLIT", "CPU_VRAM_BLIT"}

\* Commands that leave no trace: the others are numbered as they are started.
Free(c) == c.op \in {"NOP", "CLEAR_CACHE", "VRAM_CPU_BLIT"}

-----------------------------------------------------------------------------
(* The primitives of a drawing command while page is selected.  A page is  *)
(* where textures are and how transparent colours are added; a textured    *)
(* polygon names its own.                                                   *)

PageOf(c, page) == IF c.op = "POLYGON" /\ c.tex THEN c.page ELSE page

Texel(page) == <<page % VX, 0>>

Pipeline(c) ==
    CASE Textured(c)                       -> "TEXTURED_TRIANGLE"
      [] c.op = "POLYGON" /\ c.gouraud     -> "BASIC_GOURAUD_TRIANGLE"
      [] c.op = "LINE" /\ c.gouraud        -> "SHADED_LINE"
      [] c.op = "LINE"                     -> "MONO_LINE"
      [] OTHER                             -> "UNTEXTURED_OPAQUE_FLAT_TRIANGLE"

Pieces(c) ==
    IF c.large THEN 0
    ELSE CASE c.op = "POLYGON"   -> IF c.quad THEN 2 ELSE 1
           [] c.op = "LINE"      -> IF c.n > 1 THEN c.n - 1 ELSE 0
           [] c.op = "RECTANGLE" -> 2

Primitives(c, page, n) ==
    [i \in 1 .. Pieces(c) |->
        [type |-> Pipeline(c), x |-> c.x + i - 1, y |-> c.y, n |-> n,
         mode |-> IF c.trans THEN PageOf(c, page) ELSE OPAQUE,
         texel |-> Texel(PageOf(c, page))]]

\* One primitive, drawn in the given mode within the drawing area, with
\* textures from tex.
Rasterised(image, tex, area, offset, p, mode) ==
    LET cell == <<p.x + offset, p.y>>
        colour == IF p.type = "TEXTURED_TRIANGLE" THEN tex[p.texel] ELSE Datum(p.n, 0)
    IN  IF /\ cell \in Cells
           /\ cell[1] \in area.left .. area.right
           /\ cell[2] \in area.top .. area.bottom
        THEN [image EXCEPT ![cell] = IF mode = OPAQUE THEN colour
                                     ELSE @ \o << <<0, mode>> >> \o colour]
        ELSE image

=============================================================================
