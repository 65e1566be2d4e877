-------------------------------- MODULE MCGpu --------------------------------
(***************************************************************************)
(* A video memory of four columns and two rows.  Every layout of a command  *)
(* occurs at least once without painting (the primitive is too large); the  *)
(* commands that paint are few, so that three of them can follow each other *)
(* in every order with settings, frames and resets between them.            *)
(***************************************************************************)
EXTENDS Gpu

Polygon(quad, tex, gouraud, trans, large, x, p) ==
    [op |-> "POLYGON", quad |-> quad, tex |-> tex, gouraud |-> gouraud, trans |-> trans,
     large |-> large, x |-> x, y |-> 0, page |-> p]

Line(gouraud, poly, n, trans, large) ==
    [op |-> "LINE", gouraud |-> gouraud, poly |-> poly, n |-> n, trans |-> trans,
     large |-> large, x |-> 0, y |-> 0]

Rectangle(variable, tex, trans, large) ==
    [op |-> "RECTANGLE", variable |-> variable, tex |-> tex, trans |-> trans,
     large |-> large, x |-> 0, y |-> 0]

Transfer(op, x, y, w, h) == [op |-> op, x |-> x, y |-> y, w |-> w, h |-> h]

Copy(sx, sy, x, y, w, h) ==
    [op |-> "VRAM_BLIT", sx |-> sx, sy |-> sy, x |-> x, y |-> y, w |-> w, h |-> h]

\* Framing: all layouts, and the longest polylines that fit 16 words.
Layouts ==
    {Polygon(quad, tex, gouraud, FALSE, TRUE, 0, 1) : quad, tex, gouraud \in BOOLEAN}
    \cup {Line(gouraud, FALSE, 2, FALSE, TRUE) : gouraud \in BOOLEAN}
    \cup {Line(FALSE, TRUE, n, FALSE, TRUE) : n \in {0, 1, 15}}
    \cup {Line(TRUE, TRUE, n, FALSE, TRUE) : n \in {0, 2, 7, 8}}
    \cup {Rectangle(variable, tex, FALSE, TRUE) : variable, tex \in BOOLEAN}

Painting ==
    {Polygon(FALSE, FALSE, FALSE, FALSE, FALSE, 0, 0),
     Polygon(FALSE, FALSE, FALSE, TRUE, FALSE, 0, 0),
     Polygon(FALSE, TRUE, FALSE, FALSE, FALSE, 0, 1),
     Line(FALSE, TRUE, 2, FALSE, FALSE),
     Rectangle(FALSE, TRUE, FALSE, FALSE)}

Settings ==
    {[op |-> "TEXPAGE", page |-> p] : p \in {0, 1}}
    \cup {[op |-> "SET_DRAW_BOTTOM", x |-> 0, y |-> 1], [op |-> "SET_DRAW_TOP", x |-> 1, y |-> 0],
          [op |-> "SET_DRAW_OFFSET", x |-> 1],
          [op |-> "CLEAR_CACHE"], [op |-> "NOP"]}

Transfers ==
    {Transfer("QUICK_FILL", 3, 1, 3, 1), Transfer("QUICK_FILL", 0, 1, 0, 1)}
    \cup {Copy(1, 0, 0, 1, 3, 1), Copy(2, 0, 0, 1, 3, 1)}
    \cup {Transfer("CPU_VRAM_BLIT", 2, 1, 0, 2), Transfer("CPU_VRAM_BLIT", 1, 1, 1, 2),
          Transfer("CPU_VRAM_BLIT", 2, 0, 7, 1), Transfer("CPU_VRAM_BLIT", 3, 0, 2, 1)}
    \cup {Transfer("VRAM_CPU_BLIT", 0, 0, 0, 0), Transfer("VRAM_CPU_BLIT", 1, 1, 3, 1)}

MCCommands == Layouts \cup Painting \cup Settings \cup Transfers

=============================================================================
