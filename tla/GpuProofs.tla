------------------------------ MODULE GpuProofs ------------------------------
(***************************************************************************)
(* Proofs about the GPU: it stays in step with a guest that sends its      *)
(* commands word by word (GpuInStep), the DMA's request line is up when     *)
(* words are due (GpuDmaFed), it implements the painter                     *)
(* (GpuImplementsPainter), and what is read back is the picture             *)
(* (GpuReadsImage).                                                        *)
(*                                                                         *)
(* Standing ties the fields of the GPU to the words that the guest has sent *)
(* and read: it adds to InStep that the queue holds the command itself, the *)
(* size of the picture in a transfer, which InStep does not mention, and    *)
(* what the guest's rules exclude.  The renderer's content plays no part in *)
(* it.  Pictured is the invariant of the renderer: what it has collected    *)
(* and what is due, and what the buffer of the CPU holds.                   *)
(***************************************************************************)
EXTENDS Gpu, NaturalsInduction, WellFoundedInduction, SequenceTheorems, TLAPS

(***************************************************************************)
(* Division with remainder.                                                *)
(***************************************************************************)
LEMMA DivMod ==
    ASSUME NEW a \in Nat, NEW b \in Nat \ {0}
    PROVE  /\ a \div b \in Nat
           /\ a % b \in Nat /\ a % b < b
           /\ (a \div b) * b + (a % b) = a
<1>1. a \div b \in Nat
  OBVIOUS
<1>2. a % b \in Nat /\ a % b < b
  OBVIOUS
<1>3. (a \div b) * b + (a % b) = a
  OBVIOUS
<1> QED BY <1>1, <1>2, <1>3

LEMMA Distributes ==
    ASSUME NEW a \in Int, NEW b \in Int, NEW k \in Int
    PROVE  (a + b) * k = a * k + b * k /\ (a - b) * k = a * k - b * k /\ a * k \in Int
  BY SMT

LEMMA Products == \A a, b \in Nat : a * b \in Nat /\ a * b = b * a
  BY SMT

\* A multiple that is smaller is smaller by b at least.
LEMMA NextMultiple ==
    ASSUME NEW p \in Nat, NEW q \in Nat, NEW b \in Nat \ {0}, p < q
    PROVE  p * b + b <= q * b
<1> DEFINE d == q - p - 1
           pb == p * b
           qb == q * b
           db == d * b
<1>1. d \in Nat /\ q = (p + 1) + d
  OBVIOUS
<1>2. (p + 1) * b = pb + b
  BY Distributes
<1>3. qb = (p + 1) * b + db
  BY <1>1, Distributes
<1>4. db \in Nat /\ pb \in Nat /\ qb \in Nat
  BY <1>1, Products
<1> HIDE DEF d, pb, qb, db
<1>5. pb + b <= qb
  BY <1>2, <1>3, <1>4
<1> QED BY <1>5 DEF pb, qb

LEMMA DivModUnique ==
    ASSUME NEW a \in Nat, NEW b \in Nat \ {0}, NEW q \in Nat, NEW r \in Nat,
           r < b, a = q * b + r
    PROVE  a \div b = q /\ a % b = r
<1> DEFINE p == a \div b
           m == a % b
           pb == p * b
           qb == q * b
<1>1. p \in Nat /\ m \in Nat /\ m < b /\ pb + m = a
  BY DivMod
<1>2. pb \in Nat /\ qb \in Nat /\ a = qb + r
  BY <1>1, Products
<1>3. p < q => pb + b <= qb
  BY <1>1, NextMultiple
<1>4. q < p => qb + b <= pb
  BY <1>1, NextMultiple
<1>5. p = q => pb = qb
  OBVIOUS
<1> HIDE DEF p, m, pb, qb
<1>6. p = q /\ m = r
  BY <1>1, <1>2, <1>3, <1>4, <1>5
<1> QED BY <1>6 DEF p, m

LEMMA ModPlus ==
    ASSUME NEW a \in Nat, NEW d \in Nat, NEW v \in Nat \ {0}
    PROVE  ((a % v) + d) % v = (a + d) % v
<1> DEFINE q == a \div v
           r == a % v
           p == (r + d) \div v
           m == (r + d) % v
<1>1. q \in Nat /\ r \in Nat /\ q * v + r = a
  BY DivMod
<1>2. p \in Nat /\ m \in Nat /\ m < v /\ p * v + m = r + d
  BY <1>1, DivMod
<1>3. (q + p) * v = q * v + p * v
  BY <1>1, <1>2, Distributes
<1> HIDE DEF q, r, p, m
<1>4. q * v \in Nat /\ p * v \in Nat /\ (q + p) * v \in Nat /\ q + p \in Nat
  BY <1>1, <1>2, Products
<1>5. a + d = (q + p) * v + m
  BY <1>1, <1>2, <1>3, <1>4
<1>6. (a + d) % v = m
  BY <1>2, <1>4, <1>5, DivModUnique
<1> QED BY <1>6 DEF m, r

LEMMA ModSame ==
    ASSUME NEW a \in Nat, NEW d \in Nat, NEW v \in Nat \ {0}, d < v, a % v = (a + d) % v
    PROVE  d = 0
<1> DEFINE q == a \div v
           r == a % v
           p == (a + d) \div v
           qv == q * v
           pv == p * v
<1>1. q \in Nat /\ r \in Nat /\ qv + r = a
  BY DivMod
<1>2. p \in Nat /\ pv + r = a + d
  BY DivMod
<1>3. qv \in Nat /\ pv \in Nat
  BY <1>1, <1>2, Products
<1>4. (q < p => qv + v <= pv) /\ (p < q => pv + v <= qv) /\ (p = q => pv = qv)
  BY <1>1, <1>2, NextMultiple
<1> HIDE DEF q, r, p, qv, pv
<1> QED BY <1>1, <1>2, <1>3, <1>4

(***************************************************************************)
(* The invariant.                                                          *)
(***************************************************************************)
\* The fields of a transfer.
Blits == [x : Nat, y : Nat, w : Nat, h : Nat, curr_x : Nat, curr_y : Nat]

\* A transfer that has got to pixel k of the picture of c.
BlitAt(b, c, k) ==
    /\ b \in Blits
    /\ b.x = c.x % VX /\ b.y = c.y % VY /\ b.w = Width(c) /\ b.h = Height(c)
    /\ b.curr_x = (c.x + (k % Width(c))) % VX
    /\ b.curr_y = (c.y + (k \div Width(c))) % VY

Transferring(c) == c.op \in {"CPU_VRAM_BLIT", "VRAM_CPU_BLIT"}

Word == [cmd : Commands, i : Nat]

\* Where the GPU stands when the guest has sent and read these words of c.
Standing(status, fifo, rem, read, wblit, rblit, c, sent, reads) ==
    /\ status # "VRAM_CPU_BLIT" => read = "NONE"
    /\ fifo \in Seq(Word)
    /\ \/ status = "IDLE" /\ c = NONE /\ sent = 0 /\ fifo = << >>
       \/ /\ status = "WAITING_PARAMETERS" /\ c \in Commands
          /\ c.op = "LINE" => ~c.poly
          /\ sent \in 1 .. HeaderWords(c) - 1
          /\ Len(fifo) = sent /\ fifo[1].cmd = c /\ rem = HeaderWords(c) - sent
          /\ c.op = "CPU_VRAM_BLIT" => ~Straddles(c)
       \/ /\ status = (IF c.gouraud THEN "POLYLINE_GOURAUD" ELSE "POLYLINE") /\ c \in Commands
          /\ c.op = "LINE" /\ c.poly /\ c.n > 0
          /\ HeaderWords(c) <= FIFO_SIZE
          /\ sent \in 1 .. HeaderWords(c) - 1
          /\ Len(fifo) = sent /\ fifo[1].cmd = c
       \/ /\ status = "CPU_VRAM_BLIT" /\ c \in Commands
          /\ c.op = "CPU_VRAM_BLIT" /\ fifo = << >>
          /\ sent \in 3 .. 2 + DataWords(c)
          /\ BlitAt(wblit, c, 2 * (sent - 3)) /\ ~Straddles(c)
       \/ /\ status = "VRAM_CPU_BLIT" /\ c \in Commands
          /\ c.op = "VRAM_CPU_BLIT" /\ fifo = << >>
          /\ sent = 3 /\ reads \in 0 .. DataWords(c) - 1
          /\ BlitAt(rblit, c, 2 * reads)
          /\ read = "READ_VRAM"

StandsAt(s, c, sent, reads) ==
    Standing(s.status, s.fifo, s.rem, s.read, s.wblit, s.rblit, c, sent, reads)

\* The request lines are up where the GPU can be fed or read.
LinesUp(s) ==
    /\ s.status \in {"WAITING_PARAMETERS", "CPU_VRAM_BLIT", "VRAM_CPU_BLIT"} => s.dreq["CPU_GP0"]
    /\ s.status = "VRAM_CPU_BLIT" => s.dreq["GPUREAD_CPU"]

\* A record with the fields of the GPU.
Gpus(status, fifo, rem, read, wblit, rblit, dreq, page, raw, ren) ==
    [status : {status}, fifo : {fifo}, rem : {rem}, read : {read}, wblit : {wblit},
     rblit : {rblit}, dreq : {dreq}, page : {page}, raw : {raw}, ren : {ren}]

GpuRecord(s) ==
    s \in Gpus(s.status, s.fifo, s.rem, s.read, s.wblit, s.rblit, s.dreq, s.page, s.raw, s.ren)

GuestType ==
    [cmd : Commands \cup {NONE}, sent : Nat, reads : Nat, last : Commands \cup {NONE},
     number : Nat, stale : BOOLEAN]

Inv ==
    /\ GpuRecord(gpu) /\ guest \in GuestType
    /\ StandsAt(gpu, guest.cmd, guest.sent, guest.reads)
    /\ LinesUp(gpu)

(***************************************************************************)
(* The pixels of a transfer.                                               *)
(***************************************************************************)
LEMMA SizeFacts ==
    ASSUME NEW s \in Nat, NEW v \in Nat \ {0}
    PROVE  Size(s, v) \in 1 .. v
<1>1. CASE s = 0
  BY <1>1 DEF Size
<1>2. CASE s # 0
  <2> DEFINE m == (s - 1) % v
  <2>1. m \in Nat /\ m < v
    BY <1>2, DivMod
  <2> HIDE DEF m
  <2>2. Size(s, v) = m + 1
    BY <1>2 DEF Size, m
  <2> QED BY <2>1, <2>2
<1> QED BY <1>1, <1>2

LEMMA TransferFacts ==
    ASSUME NEW c \in Commands, Transferring(c)
    PROVE  /\ c.x \in Nat /\ c.y \in Nat
           /\ Width(c) \in 1 .. VX /\ Height(c) \in 1 .. VY
           /\ Width(c) \in Nat \ {0} /\ Height(c) \in Nat \ {0}
           /\ VX \in Nat \ {0} /\ VY \in Nat \ {0}
<1>1. c \in CommandType /\ VX \in Nat \ {0} /\ VY \in Nat \ {0}
  BY GpuCommandsAssumption
<1>2. c.x \in Nat /\ c.y \in Nat /\ c.w \in Nat /\ c.h \in Nat
  BY <1>1 DEF CommandType, Transferring
<1>3. Width(c) \in 1 .. VX /\ Height(c) \in 1 .. VY
  BY <1>1, <1>2, SizeFacts DEF Width, Height
<1> QED BY <1>1, <1>2, <1>3

LEMMA PixelFacts ==
    ASSUME NEW W \in Nat \ {0}, NEW H \in Nat \ {0}, NEW k \in Nat
    PROVE  /\ (k % W) + 1 = W => (k + 1) % W = 0 /\ (k + 1) \div W = (k \div W) + 1
           /\ (k % W) + 1 # W => (k + 1) % W = (k % W) + 1 /\ (k + 1) \div W = k \div W
           /\ k < W * H => k \div W < H
           /\ k < W * H => (k + 1 = W * H <=> (k % W) + 1 = W /\ (k \div W) + 1 = H)
<1> DEFINE q == k \div W
           r == k % W
           qw == q * W
           wh == H * W
<1>1. q \in Nat /\ r \in Nat /\ r < W /\ qw + r = k
  BY DivMod
<1>2. (q + 1) * W = qw + W
  BY <1>1, Distributes
<1>3. qw \in Nat /\ wh \in Nat /\ (q + 1) * W \in Nat
  BY <1>1, Products
<1>4. W * H = wh
  BY Products
<1>5. r + 1 = W => (k + 1) % W = 0 /\ (k + 1) \div W = q + 1
  <2> SUFFICES ASSUME r + 1 = W PROVE (k + 1) % W = 0 /\ (k + 1) \div W = q + 1
    OBVIOUS
  <2>1. k + 1 = (q + 1) * W + 0
    <3> HIDE DEF q, r, qw
    <3> QED BY <1>1, <1>2, <1>3
  <2>2. q + 1 \in Nat /\ 0 < W
    BY <1>1
  <2> HIDE DEF q, r, qw
  <2> QED BY <2>1, <2>2, DivModUnique
<1>6. r + 1 # W => (k + 1) % W = r + 1 /\ (k + 1) \div W = q
  <2> SUFFICES ASSUME r + 1 # W PROVE (k + 1) % W = r + 1 /\ (k + 1) \div W = q
    OBVIOUS
  <2>1. k + 1 = q * W + (r + 1)
    <3>1. k + 1 = qw + (r + 1)
      <4> HIDE DEF q, r, qw
      <4> QED BY <1>1, <1>3
    <3> QED BY <3>1
  <2>2. r + 1 \in Nat /\ r + 1 < W /\ k + 1 \in Nat
    BY <1>1
  <2> HIDE DEF q, r, qw
  <2> QED BY <1>1, <2>1, <2>2, DivModUnique
<1>7. k < wh => q < H
  <2>1. H < q => wh + W <= qw
    BY <1>1, NextMultiple
  <2>2. H = q => wh = qw
    OBVIOUS
  <2> HIDE DEF q, r, qw, wh
  <2> QED BY <1>1, <1>3, <2>1, <2>2
<1>8. k < wh => (k + 1 = wh <=> r + 1 = W /\ q + 1 = H)
  <2>1. q + 1 < H => (q + 1) * W + W <= wh
    BY <1>1, NextMultiple
  <2>2. q + 1 = H => (q + 1) * W = wh
    OBVIOUS
  <2> HIDE DEF q, r, qw, wh
  <2> QED BY <1>1, <1>2, <1>3, <1>7, <2>1, <2>2
<1> QED BY <1>4, <1>5, <1>6, <1>7, <1>8

\* Two positions along a side meet modulo its length only where they are equal.
Meeting(X, v, n, i) == (((X + i) % v) + 1) % v = ((X % v) + n) % v <=> i + 1 = n

LEMMA Meets ==
    ASSUME NEW X \in Nat, NEW v \in Nat \ {0}, NEW n \in 1 .. v, NEW i \in Nat, i < n
    PROVE  Meeting(X, v, n, i)
<1>1. (((X + i) % v) + 1) % v = (X + i + 1) % v
  BY ModPlus, SMTT(30)
<1>2. ((X % v) + n) % v = (X + n) % v
  <2>1. n \in Nat
    OBVIOUS
  <2> QED BY <2>1, ModPlus
<1> DEFINE a == X + i + 1
           d == n - (i + 1)
<1>3. a \in Nat /\ d \in Nat /\ d < v /\ X + n = a + d
  OBVIOUS
<1>4. ASSUME a % v = (X + n) % v PROVE i + 1 = n
  <2>1. a % v = (a + d) % v
    BY <1>3, <1>4
  <2> HIDE DEF a, d
  <2>2. d = 0
    BY <1>3, <2>1, ModSame
  <2> QED BY <2>2 DEF d
<1>5. i + 1 = n => a = X + n
  OBVIOUS
<1> QED BY <1>1, <1>2, <1>4, <1>5 DEF Meeting

LEMMA BlitStep ==
    ASSUME NEW c \in Commands, Transferring(c), NEW k \in Nat, NEW b, BlitAt(b, c, k)
    PROVE  /\ RowEnds(b) <=> (k % Width(c)) + 1 = Width(c)
           /\ BlitAt(NextPixel(b), c, k + 1)
           /\ k < Width(c) * Height(c) => (LastPixel(b) <=> k + 1 = Width(c) * Height(c))
<1> DEFINE W == Width(c)
           H == Height(c)
           X == c.x
           Y == c.y
           i == k % W
           j == k \div W
<1>1. /\ X \in Nat /\ Y \in Nat /\ W \in 1 .. VX /\ H \in 1 .. VY
      /\ W \in Nat \ {0} /\ H \in Nat \ {0} /\ VX \in Nat \ {0} /\ VY \in Nat \ {0}
  BY TransferFacts
<1>2. /\ b \in Blits /\ b.x = X % VX /\ b.y = Y % VY /\ b.w = W /\ b.h = H
      /\ b.curr_x = (X + i) % VX /\ b.curr_y = (Y + j) % VY
  BY DEF BlitAt, Blits
<1>3. i \in Nat /\ i < W /\ j \in Nat
  BY <1>1, DivMod
<1>4. /\ i + 1 = W => (k + 1) % W = 0 /\ (k + 1) \div W = j + 1
      /\ i + 1 # W => (k + 1) % W = i + 1 /\ (k + 1) \div W = j
      /\ k < W * H => j < H
      /\ k < W * H => (k + 1 = W * H <=> i + 1 = W /\ j + 1 = H)
  BY <1>1, PixelFacts
<1> HIDE DEF W, H, X, Y, i, j
<1>5. RowEnds(b) <=> i + 1 = W
  <2>1. Meeting(X, VX, W, i)
    BY <1>1, <1>3, Meets
  <2> QED BY <1>2, <2>1 DEF RowEnds, Meeting
<1>6. k < W * H => (LastPixel(b) <=> k + 1 = W * H)
  <2>1. j < H => ((b.curr_y + 1) % VY = (b.y + b.h) % VY <=> j + 1 = H)
    <3>1. j < H => Meeting(Y, VY, H, j)
      BY <1>1, <1>3, Meets
    <3> QED BY <1>2, <3>1 DEF Meeting
  <2> QED BY <1>4, <1>5, <2>1 DEF LastPixel
<1>7. BlitAt(NextPixel(b), c, k + 1)
  <2>1. CASE RowEnds(b)
    <3> DEFINE y1 == (b.curr_y + 1) % VY
               n == [b EXCEPT !.curr_x = b.x, !.curr_y = y1]
    <3>1. NextPixel(b) = n
      BY <2>1 DEF NextPixel
    <3>2. y1 = (Y + (j + 1)) % VY /\ y1 \in Nat
      <4>0. Y + j \in Nat
        BY <1>1, <1>3
      <4>1. y1 = (Y + j + 1) % VY
        BY <1>1, <1>2, <4>0, ModPlus
      <4>2. Y + j + 1 = Y + (j + 1) /\ Y + (j + 1) \in Nat
        BY <1>1, <1>3
      <4> HIDE DEF y1
      <4> QED BY <1>1, <4>1, <4>2, DivMod
    <3> HIDE DEF y1
    <3>3. b.x = (X + 0) % VX
      BY <1>1, <1>2
    <3>4. n \in Blits /\ n.x = b.x /\ n.y = b.y /\ n.w = b.w /\ n.h = b.h
          /\ n.curr_x = b.x /\ n.curr_y = y1
      BY <1>2, <3>2 DEF Blits
    <3> HIDE DEF n
    <3>5. i + 1 = W
      BY <1>5, <2>1
    <3> QED BY <1>2, <1>4, <3>1, <3>2, <3>3, <3>4, <3>5 DEF BlitAt, Blits, W, H, X, Y
  <2>2. CASE ~RowEnds(b)
    <3> DEFINE x1 == (b.curr_x + 1) % VX
               n == [b EXCEPT !.curr_x = x1]
    <3>1. NextPixel(b) = n
      BY <2>2 DEF NextPixel
    <3>2. x1 = (X + (i + 1)) % VX /\ x1 \in Nat
      <4>1. x1 = (X + i + 1) % VX
        BY <1>1, <1>2, <1>3, ModPlus
      <4>2. X + i + 1 = X + (i + 1) /\ X + (i + 1) \in Nat
        BY <1>1, <1>3
      <4> HIDE DEF x1
      <4> QED BY <1>1, <4>1, <4>2, DivMod
    <3> HIDE DEF x1
    <3>4. n \in Blits /\ n.x = b.x /\ n.y = b.y /\ n.w = b.w /\ n.h = b.h
          /\ n.curr_x = x1 /\ n.curr_y = b.curr_y
      BY <1>2, <3>2 DEF Blits
    <3> HIDE DEF n
    <3>5. i + 1 # W
      BY <1>5, <2>2
    <3> QED BY <1>2, <1>4, <3>1, <3>2, <3>4, <3>5 DEF BlitAt, Blits, W, H, X, Y
  <2> QED BY <2>1, <2>2
<1> QED BY <1>5, <1>6, <1>7 DEF W, H, i

LEMMA BlitStarts ==
    ASSUME NEW c \in Commands, Transferring(c)
    PROVE  BlitAt(Blit(c), c, 0)
<1> DEFINE W == Width(c)
           x == c.x % VX
           y == c.y % VY
<1>1. c.x \in Nat /\ c.y \in Nat /\ W \in Nat \ {0} /\ Height(c) \in Nat
      /\ VX \in Nat \ {0} /\ VY \in Nat \ {0}
  BY TransferFacts
<1>2. 0 % W = 0 /\ 0 \div W = 0
  BY <1>1
<1>3. x \in Nat /\ y \in Nat /\ x = (c.x + 0) % VX /\ y = (c.y + 0) % VY
  BY <1>1, DivMod
<1>4. Blit(c) = [x |-> x, y |-> y, w |-> W, h |-> Height(c), curr_x |-> x, curr_y |-> y]
  BY DEF Blit, Width, Height
<1> HIDE DEF W, x, y
<1>5. Blit(c) \in Blits /\ Blit(c).x = x /\ Blit(c).y = y /\ Blit(c).w = W
      /\ Blit(c).h = Height(c) /\ Blit(c).curr_x = x /\ Blit(c).curr_y = y
  BY <1>1, <1>3, <1>4 DEF Blits
<1> QED BY <1>2, <1>3, <1>5 DEF BlitAt, Blits, W, x, y

(***************************************************************************)
(* The words of a transfer.                                                *)
(***************************************************************************)
LEMMA LastWord ==
    ASSUME NEW c \in Commands, Transferring(c), NEW m \in Nat
    PROVE  LET pixels == Width(c) * Height(c) IN
           /\ pixels \in Nat \ {0} /\ DataWords(c) \in Nat \ {0}
           /\ m < DataWords(c) <=> 2 * m < pixels
           /\ 2 * m + 1 = pixels \/ 2 * m + 2 = pixels => m + 1 = DataWords(c)
           /\ 2 * m + 2 < pixels => m + 1 < DataWords(c)
<1> DEFINE pixels == Width(c) * Height(c)
<1>1. pixels \in Nat \ {0}
  BY TransferFacts
<1>2. DataWords(c) = (pixels + 1) \div 2
  BY DEF DataWords
<1> HIDE DEF pixels
<1> QED BY <1>1, <1>2 DEF pixels

LEMMA NotAtEdge ==
    ASSUME NEW c \in Commands, Transferring(c), ~Straddles(c), NEW m \in Nat,
           2 * m < Width(c) * Height(c), ((2 * m) % Width(c)) + 1 # Width(c)
    PROVE  (c.x + ((2 * m) % Width(c))) % VX # VX - 1
<1> DEFINE k == 2 * m
           pixels == Width(c) * Height(c)
<1>1. pixels \in Nat \ {0} /\ Width(c) \in Nat \ {0}
  BY TransferFacts
<1>2. k \in 0 .. pixels - 1 /\ k \in Nat /\ k % 2 = 0
  <2> HIDE DEF pixels
  <2> QED BY <1>1 DEF pixels
<1>3. (k + 1) % Width(c) # 0
  <2>1. (k + 1) % Width(c) = (k % Width(c)) + 1 /\ k % Width(c) \in Nat
    BY <1>1, <1>2, PixelFacts, DivMod
  <2> QED BY <2>1
<1>4. CellOf(c, k)[1] # VX - 1
  BY <1>2, <1>3 DEF Straddles
<1> QED BY <1>4 DEF CellOf

(***************************************************************************)
(* The record of the GPU.                                                  *)
(***************************************************************************)
Shows(t, status, fifo, rem, read, wblit, rblit, dreq) ==
    /\ GpuRecord(t)
    /\ t.status = status /\ t.fifo = fifo /\ t.rem = rem /\ t.read = read
    /\ t.wblit = wblit /\ t.rblit = rblit /\ t.dreq = dreq

LEMMA ShowsFields ==
    ASSUME NEW a, NEW b, NEW c, NEW d, NEW e, NEW f, NEW g, NEW h, NEW i, NEW j,
           NEW t \in Gpus(a, b, c, d, e, f, g, h, i, j)
    PROVE  Shows(t, a, b, c, d, e, f, g)
<1>1. /\ t.status = a /\ t.fifo = b /\ t.rem = c /\ t.read = d /\ t.wblit = e /\ t.rblit = f
      /\ t.dreq = g /\ t.page = h /\ t.raw = i /\ t.ren = j
  BY DEF Gpus
<1> QED BY <1>1 DEF Shows, GpuRecord

LEMMA SetPage ==
    ASSUME NEW s, GpuRecord(s), NEW pg, NEW rw, NEW rn
    PROVE  Shows([s EXCEPT !.raw = rw, !.page = pg, !.ren = rn],
                 s.status, s.fifo, s.rem, s.read, s.wblit, s.rblit, s.dreq)
<1>1. [s EXCEPT !.raw = rw, !.page = pg, !.ren = rn]
        \in Gpus(s.status, s.fifo, s.rem, s.read, s.wblit, s.rblit, s.dreq, pg, rw, rn)
  BY DEF GpuRecord, Gpus
<1> QED BY <1>1, ShowsFields

LEMMA SetRenderer ==
    ASSUME NEW s, GpuRecord(s), NEW rn
    PROVE  Shows([s EXCEPT !.ren = rn],
                 s.status, s.fifo, s.rem, s.read, s.wblit, s.rblit, s.dreq)
<1>1. [s EXCEPT !.ren = rn]
        \in Gpus(s.status, s.fifo, s.rem, s.read, s.wblit, s.rblit, s.dreq, s.page, s.raw, rn)
  BY DEF GpuRecord, Gpus
<1> QED BY <1>1, ShowsFields

LEMMA SetBlit ==
    ASSUME NEW s, GpuRecord(s), NEW st, NEW rd, NEW wb, NEW rb, NEW rn
    PROVE  /\ Shows([s EXCEPT !.status = st, !.wblit = wb, !.ren = rn],
                    st, s.fifo, s.rem, s.read, wb, s.rblit, s.dreq)
           /\ Shows([s EXCEPT !.ren = rn, !.wblit = wb],
                    s.status, s.fifo, s.rem, s.read, wb, s.rblit, s.dreq)
           /\ Shows([s EXCEPT !.status = st, !.read = rd, !.rblit = rb, !.ren = rn],
                    st, s.fifo, s.rem, rd, s.wblit, rb, s.dreq)
           /\ Shows([s EXCEPT !.rblit = rb, !.status = st, !.read = rd],
                    st, s.fifo, s.rem, rd, s.wblit, rb, s.dreq)
           /\ Shows([s EXCEPT !.rblit = rb],
                    s.status, s.fifo, s.rem, s.read, s.wblit, rb, s.dreq)
<1>1. [s EXCEPT !.status = st, !.wblit = wb, !.ren = rn]
        \in Gpus(st, s.fifo, s.rem, s.read, wb, s.rblit, s.dreq, s.page, s.raw, rn)
  BY DEF GpuRecord, Gpus
<1>2. [s EXCEPT !.ren = rn, !.wblit = wb]
        \in Gpus(s.status, s.fifo, s.rem, s.read, wb, s.rblit, s.dreq, s.page, s.raw, rn)
  BY DEF GpuRecord, Gpus
<1>3. [s EXCEPT !.status = st, !.read = rd, !.rblit = rb, !.ren = rn]
        \in Gpus(st, s.fifo, s.rem, rd, s.wblit, rb, s.dreq, s.page, s.raw, rn)
  BY DEF GpuRecord, Gpus
<1>4. [s EXCEPT !.rblit = rb, !.status = st, !.read = rd]
        \in Gpus(st, s.fifo, s.rem, rd, s.wblit, rb, s.dreq, s.page, s.raw, s.ren)
  BY DEF GpuRecord, Gpus
<1>5. [s EXCEPT !.rblit = rb]
        \in Gpus(s.status, s.fifo, s.rem, s.read, s.wblit, rb, s.dreq, s.page, s.raw, s.ren)
  BY DEF GpuRecord, Gpus
<1> QED BY <1>1, <1>2, <1>3, <1>4, <1>5, ShowsFields

LEMMA SetQueue ==
    ASSUME NEW s, GpuRecord(s), NEW st, NEW q, NEW rm, NEW rd, NEW wb, NEW dr
    PROVE  /\ Shows([s EXCEPT !.fifo = q],
                    s.status, q, s.rem, s.read, s.wblit, s.rblit, s.dreq)
           /\ Shows([s EXCEPT !.rem = rm, !.fifo = q],
                    s.status, q, rm, s.read, s.wblit, s.rblit, s.dreq)
           /\ Shows([s EXCEPT !.status = st],
                    st, s.fifo, s.rem, s.read, s.wblit, s.rblit, s.dreq)
           /\ Shows([s EXCEPT !.status = st, !.rem = rm],
                    st, s.fifo, rm, s.read, s.wblit, s.rblit, s.dreq)
           /\ Shows([s EXCEPT !.fifo = q, !.status = st, !.rem = rm, !.wblit = wb],
                    st, q, rm, s.read, wb, s.rblit, s.dreq)
           /\ Shows([s EXCEPT !.read = rd],
                    s.status, s.fifo, s.rem, rd, s.wblit, s.rblit, s.dreq)
           /\ Shows([s EXCEPT !.dreq = dr],
                    s.status, s.fifo, s.rem, s.read, s.wblit, s.rblit, dr)
<1>1. [s EXCEPT !.fifo = q]
        \in Gpus(s.status, q, s.rem, s.read, s.wblit, s.rblit, s.dreq, s.page, s.raw, s.ren)
  BY DEF GpuRecord, Gpus
<1>2. [s EXCEPT !.rem = rm, !.fifo = q]
        \in Gpus(s.status, q, rm, s.read, s.wblit, s.rblit, s.dreq, s.page, s.raw, s.ren)
  BY DEF GpuRecord, Gpus
<1>3. [s EXCEPT !.status = st]
        \in Gpus(st, s.fifo, s.rem, s.read, s.wblit, s.rblit, s.dreq, s.page, s.raw, s.ren)
  BY DEF GpuRecord, Gpus
<1>4. [s EXCEPT !.status = st, !.rem = rm]
        \in Gpus(st, s.fifo, rm, s.read, s.wblit, s.rblit, s.dreq, s.page, s.raw, s.ren)
  BY DEF GpuRecord, Gpus
<1>5. [s EXCEPT !.fifo = q, !.status = st, !.rem = rm, !.wblit = wb]
        \in Gpus(st, q, rm, s.read, wb, s.rblit, s.dreq, s.page, s.raw, s.ren)
  BY DEF GpuRecord, Gpus
<1>6. [s EXCEPT !.read = rd]
        \in Gpus(s.status, s.fifo, s.rem, rd, s.wblit, s.rblit, s.dreq, s.page, s.raw, s.ren)
  BY DEF GpuRecord, Gpus
<1>7. [s EXCEPT !.dreq = dr]
        \in Gpus(s.status, s.fifo, s.rem, s.read, s.wblit, s.rblit, dr, s.page, s.raw, s.ren)
  BY DEF GpuRecord, Gpus
<1> QED BY <1>1, <1>2, <1>3, <1>4, <1>5, <1>6, <1>7, ShowsFields

LEMMA DrawShows ==
    ASSUME NEW s, GpuRecord(s), NEW c, NEW n
    PROVE  Shows(Draw(s, c, n), "IDLE", s.fifo, s.rem, s.read, s.wblit, s.rblit, s.dreq)
<1> DEFINE pg == IF c.op = "POLYGON" THEN PageOf(c, s.page) ELSE s.page
           rn == FoldLeft(DrawPrimitive, s.ren, Primitives(c, s.page, n))
<1>1. Draw(s, c, n) = [s EXCEPT !.status = "IDLE", !.page = pg, !.ren = rn]
  BY DEF Draw
<1> HIDE DEF pg, rn
<1>2. [s EXCEPT !.status = "IDLE", !.page = pg, !.ren = rn]
        \in Gpus("IDLE", s.fifo, s.rem, s.read, s.wblit, s.rblit, s.dreq, pg, s.raw, rn)
  BY DEF GpuRecord, Gpus
<1> QED BY <1>1, <1>2, ShowsFields

LEMMA QuickFillShows ==
    ASSUME NEW s, GpuRecord(s), NEW c, NEW n
    PROVE  Shows(QuickFill(s, c, n), "IDLE", s.fifo, s.rem, s.read, s.wblit, s.rblit, s.dreq)
<1> DEFINE w == Aligned((c.w % VX) + ALIGN - 1)
           h == c.h % VY
           q == SyncTextures(FlushCommands(s.ren))
           rn == IF w = 0 \/ h = 0 THEN q
                 ELSE Fill(q, Aligned(c.x % VX), c.y % VY, w, h, Datum(n, 0))
<1>1. QuickFill(s, c, n) = [s EXCEPT !.status = "IDLE", !.ren = rn]
  BY DEF QuickFill
<1> HIDE DEF rn
<1>2. [s EXCEPT !.status = "IDLE", !.ren = rn]
        \in Gpus("IDLE", s.fifo, s.rem, s.read, s.wblit, s.rblit, s.dreq, s.page, s.raw, rn)
  BY DEF GpuRecord, Gpus
<1> QED BY <1>1, <1>2, ShowsFields

(***************************************************************************)
(* The words of a command.                                                 *)
(***************************************************************************)
LEMMA NoCommand == NONE \notin Commands
<1>1. NONE \notin CommandType
  BY DEF CommandType, NONE
<1> QED BY <1>1, GpuCommandsAssumption

\* Commands of one word, and commands whose words wait in the queue.
Short(c) ==
    c.op \in {"NOP", "CLEAR_CACHE", "TEXPAGE", "SET_DRAW_TOP", "SET_DRAW_BOTTOM", "SET_DRAW_OFFSET"}

Polyline(c) == c.op = "LINE" /\ c.poly

LEMMA Bits == \A b \in BOOLEAN : Bit(b) \in {0, 1} /\ (b => Bit(b) = 1) /\ (~b => Bit(b) = 0)
  BY DEF Bit

LEMMA ShortWords ==
    ASSUME NEW c \in Commands, Short(c)
    PROVE  Words(c) = 1
  BY DEF Short, Words, HeaderWords

LEMMA PolygonWords ==
    ASSUME NEW c \in Commands, c.op = "POLYGON"
    PROVE  /\ HeaderWords(c) \in 2 .. 12 /\ RequiredParams(c) = HeaderWords(c) - 1
           /\ \A len \in Nat : Dequeued(c, len) = HeaderWords(c)
<1> DEFINE v == IF c.quad THEN 4 ELSE 3
           t == Bit(c.tex)
           g == Bit(c.gouraud)
<1>1. c \in CommandType
  BY GpuCommandsAssumption
<1>2. c.quad \in BOOLEAN /\ c.tex \in BOOLEAN /\ c.gouraud \in BOOLEAN
  BY <1>1 DEF CommandType
<1>3. v \in {3, 4}
  OBVIOUS
<1>4. /\ c.tex => t = 1 
      /\ ~c.tex => t = 0
      /\ c.gouraud => g = 1
      /\ ~c.gouraud => g = 0
  BY <1>2, Bits
<1>5. RequiredParams(c) = v * (1 + t + g) - g
  BY DEF RequiredParams
<1>6. \A len \in Nat : Dequeued(c, len) = 1 + v + (IF c.tex THEN v ELSE 0) + (IF c.gouraud THEN v - 1 ELSE 0)
  BY DEF Dequeued
<1>7. HeaderWords(c) = 1 + v + (IF c.tex THEN v ELSE 0) + (IF c.gouraud THEN v - 1 ELSE 0)
  BY DEF HeaderWords, Vertices
<1> HIDE DEF v, t, g
<1>a. CASE c.tex /\ c.gouraud
  BY <1>a, <1>3, <1>4, <1>5, <1>6, <1>7
<1>b. CASE c.tex /\ ~c.gouraud
  BY <1>b, <1>3, <1>4, <1>5, <1>6, <1>7
<1>c. CASE ~c.tex /\ c.gouraud
  BY <1>c, <1>3, <1>4, <1>5, <1>6, <1>7
<1>d. CASE ~c.tex /\ ~c.gouraud
  BY <1>d, <1>3, <1>4, <1>5, <1>6, <1>7
<1> QED BY <1>a, <1>b, <1>c, <1>d

LEMMA LineWords ==
    ASSUME NEW c \in Commands, c.op = "LINE", ~c.poly
    PROVE  /\ HeaderWords(c) \in 2 .. 12 /\ RequiredParams(c) = HeaderWords(c) - 1
           /\ \A len \in Nat : Dequeued(c, len) = HeaderWords(c)
<1> DEFINE g == Bit(c.gouraud)
<1>1. c \in CommandType
  BY GpuCommandsAssumption
<1>2. c.poly \in BOOLEAN /\ c.gouraud \in BOOLEAN /\ (c.poly \/ c.n = 2)
  BY <1>1 DEF CommandType
<1>3. c.n = 2
  BY <1>2
<1>4. (c.gouraud => g = 1) /\ (~c.gouraud => g = 0)
  BY <1>2, Bits
<1>5. Bit(c.poly) = 0
  BY <1>2, Bits
<1>6. RequiredParams(c) = 2 * (1 + g) - g
  BY DEF RequiredParams
<1>7. \A len \in Nat : Dequeued(c, len) = 3 + g
  BY DEF Dequeued
<1>8. HeaderWords(c) = 1 + c.n + (IF c.gouraud /\ c.n > 0 THEN c.n - 1 ELSE 0) + Bit(c.poly)
  BY DEF HeaderWords
<1> HIDE DEF g
<1>a. CASE c.gouraud
  BY <1>a, <1>3, <1>4, <1>5, <1>6, <1>7, <1>8
<1>b. CASE ~c.gouraud
  BY <1>b, <1>3, <1>4, <1>5, <1>6, <1>7, <1>8
<1> QED BY <1>a, <1>b

LEMMA RectangleWords ==
    ASSUME NEW c \in Commands, c.op = "RECTANGLE"
    PROVE  /\ HeaderWords(c) \in 2 .. 12 /\ RequiredParams(c) = HeaderWords(c) - 1
           /\ \A len \in Nat : Dequeued(c, len) = HeaderWords(c)
<1> DEFINE v == Bit(c.variable)
           t == Bit(c.tex)
<1>1. c \in CommandType
  BY GpuCommandsAssumption
<1>2. c.variable \in BOOLEAN /\ c.tex \in BOOLEAN
  BY <1>1 DEF CommandType
<1>3. v \in {0, 1} /\ t \in {0, 1}
  BY <1>2, Bits
<1>4. RequiredParams(c) = 1 + v + t
  BY DEF RequiredParams
<1>5. \A len \in Nat : Dequeued(c, len) = 2 + t + v
  BY DEF Dequeued
<1>6. HeaderWords(c) = 2 + t + v
  BY DEF HeaderWords
<1> HIDE DEF v, t
<1> QED BY <1>3, <1>4, <1>5, <1>6

LEMMA FixedWords ==
    ASSUME NEW c \in Commands,
           c.op \in {"QUICK_FILL", "CPU_VRAM_BLIT", "VRAM_CPU_BLIT", "VRAM_BLIT"}
    PROVE  /\ HeaderWords(c) \in 2 .. 12 /\ RequiredParams(c) = HeaderWords(c) - 1
           /\ \A len \in Nat : Dequeued(c, len) = HeaderWords(c)
           /\ c.op # "VRAM_BLIT" => HeaderWords(c) = 3
  BY DEF HeaderWords, RequiredParams, Dequeued

LEMMA PolylineWords ==
    ASSUME NEW c \in Commands, Polyline(c), c.n > 0
    PROVE  /\ HeaderWords(c) \in Nat /\ HeaderWords(c) >= 3
           /\ \A len \in Nat : len >= 2 => Dequeued(c, len) = len
           /\ c.gouraud => (HeaderWords(c) - 1) % 2 = 0
<1>1. c \in CommandType
  BY GpuCommandsAssumption
<1>2. c.op = "LINE" /\ c.poly /\ c.poly \in BOOLEAN /\ c.gouraud \in BOOLEAN /\ c.n \in Nat
  BY <1>1 DEF CommandType, Polyline
<1>3. Bit(c.poly) = 1
  BY <1>2, Bits
<1>4. HeaderWords(c) = 1 + c.n + (IF c.gouraud /\ c.n > 0 THEN c.n - 1 ELSE 0) + Bit(c.poly)
  BY <1>2 DEF HeaderWords
<1>5. \A len \in Nat : len >= 2 => Dequeued(c, len) = len
  BY <1>2 DEF Dequeued
<1>a. CASE c.gouraud
  <2>1. HeaderWords(c) = 2 * c.n + 1
    BY <1>a, <1>2, <1>3, <1>4
  <2> QED BY <1>2, <1>5, <2>1
<1>b. CASE ~c.gouraud
  BY <1>b, <1>2, <1>3, <1>4, <1>5
<1> QED BY <1>a, <1>b

\* Commands of a fixed number of words: what CommandStart counts is what the
\* guest sends and what the handlers take out.
LEMMA QueuedWords ==
    ASSUME NEW c \in Commands, ~Short(c), ~Polyline(c)
    PROVE  /\ HeaderWords(c) \in 2 .. 12 /\ RequiredParams(c) = HeaderWords(c) - 1
           /\ \A len \in Nat : Dequeued(c, len) = HeaderWords(c)
<1>1. c \in CommandType
  BY GpuCommandsAssumption
<1>2. c.op \in {"POLYGON", "LINE", "RECTANGLE", "QUICK_FILL",
               "CPU_VRAM_BLIT", "VRAM_CPU_BLIT", "VRAM_BLIT"}
  BY <1>1 DEF CommandType, Short
<1>3. c.op = "LINE" => ~c.poly
  BY DEF Polyline
<1> QED BY <1>2, <1>3, PolygonWords, LineWords, RectangleWords, FixedWords

(***************************************************************************)
(* The handlers.                                                           *)
(***************************************************************************)
Good(s, c, sent, reads) == GpuRecord(s) /\ StandsAt(s, c, sent, reads) /\ LinesUp(s)

LEMMA Updated ==
    ASSUME NEW s, GpuRecord(s), NEW c, NEW sent, NEW reads, StandsAt(s, c, sent, reads)
    PROVE  Good(UpdateDreq(s), c, sent, reads)
<1> DEFINE dr == [d \in Directions |->
        CASE d = "OFF"     -> FALSE
          [] d = "IDK"     -> Len(s.fifo) < FIFO_SIZE
          [] d = "CPU_GP0" -> s.status \in {"IDLE", "WAITING_PARAMETERS",
                                            "CPU_VRAM_BLIT", "VRAM_CPU_BLIT"}
          [] d = "GPUREAD_CPU" -> s.status = "VRAM_CPU_BLIT"]
           t == [s EXCEPT !.dreq = dr]
<1>1. UpdateDreq(s) = t
  BY DEF UpdateDreq
<1>2. /\ dr["CPU_GP0"] = (s.status \in {"IDLE", "WAITING_PARAMETERS", "CPU_VRAM_BLIT", "VRAM_CPU_BLIT"})
      /\ dr["GPUREAD_CPU"] = (s.status = "VRAM_CPU_BLIT")
  BY DEF Directions
<1> HIDE DEF dr
<1>3. Shows(t, s.status, s.fifo, s.rem, s.read, s.wblit, s.rblit, dr)
  BY SetQueue, ZenonT(20)
<1> HIDE DEF t
<1>4. GpuRecord(t) /\ StandsAt(t, c, sent, reads)
  BY <1>3 DEF Shows, StandsAt
<1>5. LinesUp(t)
  <2>1. t.status = s.status /\ t.dreq = dr
    BY <1>3 DEF Shows
  <2> QED BY <1>2, <2>1 DEF LinesUp
<1> QED BY <1>1, <1>4, <1>5 DEF Good

LEMMA ShownStands ==
    ASSUME NEW t, NEW st, NEW f, NEW rm, NEW rd, NEW wb, NEW rb, NEW dr,
           Shows(t, st, f, rm, rd, wb, rb, dr),
           NEW c, NEW sent, NEW reads,
           Standing(st, f, rm, rd, wb, rb, c, sent, reads)
    PROVE  GpuRecord(t) /\ StandsAt(t, c, sent, reads)
  BY DEF Shows, StandsAt

\* An idle GPU.
LEMMA IdleStands ==
    ASSUME NEW rm, NEW wb, NEW rb, NEW reads
    PROVE  Standing("IDLE", << >>, rm, "NONE", wb, rb, NONE, 0, reads)
  BY DEF Standing

LEMMA Emptied ==
    ASSUME NEW f \in Seq(Word)
    PROVE  SubSeq(f, Len(f) + 1, Len(f)) = << >>
<1>1. Len(f) \in Nat
  OBVIOUS
<1> QED BY <1>1

\* The GPU after word number sent of c: the command is over after its last
\* word, except for a picture that is read back.
NextStands(s, c, sent) ==
    IF sent + 1 = Words(c) /\ c.op # "VRAM_CPU_BLIT"
    THEN StandsAt(s, NONE, 0, 0)
    ELSE StandsAt(s, c, sent + 1, 0)

\* The handlers of complete commands leave the GPU idle, or in a transfer.
LEMMA CommandEnds ==
    ASSUME NEW s, GpuRecord(s), NEW n, NEW c \in Commands, s.fifo \in Seq(Word),
           Len(s.fifo) > 0, s.fifo[1].cmd = c, s.read = "NONE", ~Short(c),
           Dequeued(c, Len(s.fifo)) = Len(s.fifo),
           c.op = "CPU_VRAM_BLIT" => ~Straddles(c)
    PROVE  LET t == CommandEnd(s, n)
           IN  /\ GpuRecord(t)
               /\ c.op = "CPU_VRAM_BLIT" => StandsAt(t, c, 3, 0)
               /\ c.op = "VRAM_CPU_BLIT" => StandsAt(t, c, 3, 0)
               /\ ~Transferring(c) => StandsAt(t, NONE, 0, 0)
<1> DEFINE len == Len(s.fifo)
           u == [s EXCEPT !.fifo = SubSeq(@, Dequeued(c, len) + 1, len)]
           t == CommandEnd(s, n)
<1>1. Shows(u, s.status, << >>, s.rem, "NONE", s.wblit, s.rblit, s.dreq)
  <2>1. SubSeq(s.fifo, Dequeued(c, len) + 1, len) = << >>
    BY Emptied
  <2>2. u = [s EXCEPT !.fifo = << >>]
    BY <2>1, ZenonT(20)
  <2> DEFINE e == << >>
  <2>3. u = [s EXCEPT !.fifo = e]
    BY <2>2
  <2> HIDE DEF e
  <2>4. Shows(u, s.status, e, s.rem, s.read, s.wblit, s.rblit, s.dreq)
    BY <2>3, SetQueue, ZenonT(20)
  <2> QED BY <2>4 DEF e
<1>2. GpuRecord(u) /\ u.fifo = << >> /\ u.read = "NONE"
  BY <1>1 DEF Shows
<1>3. len \in Nat /\ ~(Dequeued(c, len) > len) /\ Dequeued(c, len) <= len
  OBVIOUS
<1>4. c \in CommandType
  BY GpuCommandsAssumption
<1>5. c.op \in {"POLYGON", "LINE", "RECTANGLE", "QUICK_FILL",
               "CPU_VRAM_BLIT", "VRAM_CPU_BLIT", "VRAM_BLIT"}
  BY <1>4 DEF CommandType, Short
<1>a. CASE Draws(c)
  <2>1. t = Draw(u, c, n)
    BY <1>3, <1>a DEF CommandEnd, Draws
  <2> HIDE DEF u
  <2>2. Shows(t, "IDLE", << >>, u.rem, "NONE", u.wblit, u.rblit, u.dreq)
    BY <1>2, <2>1, DrawShows
  <2>3. ~Transferring(c)
    BY <1>a DEF Draws, Transferring
  <2> QED BY <2>2, <2>3, IdleStands, ShownStands DEF Transferring
<1>b. CASE c.op = "QUICK_FILL"
  <2>1. t = QuickFill(u, c, n)
    BY <1>3, <1>b DEF CommandEnd, Draws
  <2> HIDE DEF u
  <2>2. Shows(t, "IDLE", << >>, u.rem, "NONE", u.wblit, u.rblit, u.dreq)
    BY <1>2, <2>1, QuickFillShows
  <2> QED BY <1>b, <2>2, IdleStands, ShownStands DEF Transferring
<1>c. CASE c.op = "VRAM_BLIT"
  <2> DEFINE rn == VramVramBlit(u.ren, c.sx % VX, c.sy % VY, c.x % VX, c.y % VY,
                                Size(c.w, VX), Size(c.h, VY))
             v == [u EXCEPT !.status = "IDLE", !.ren = rn]
  <2>1. t = v
    BY <1>3, <1>c DEF CommandEnd, Draws
  <2> HIDE DEF rn, u
  <2>2. v \in Gpus("IDLE", u.fifo, u.rem, u.read, u.wblit, u.rblit, u.dreq, u.page, u.raw, rn)
    BY <1>2 DEF GpuRecord, Gpus
  <2> HIDE DEF v
  <2>3. Shows(v, "IDLE", u.fifo, u.rem, u.read, u.wblit, u.rblit, u.dreq)
    BY <2>2, ShowsFields
  <2>4. Shows(t, "IDLE", << >>, u.rem, "NONE", u.wblit, u.rblit, u.dreq)
    BY <1>2, <2>1, <2>3
  <2> QED BY <1>c, <2>4, IdleStands, ShownStands DEF Transferring
<1>d. CASE c.op = "CPU_VRAM_BLIT"
  <2> DEFINE rn == BeginCpuVramBlit(u.ren)
             b == Blit(c)
             v == [u EXCEPT !.status = "CPU_VRAM_BLIT", !.wblit = b, !.ren = rn]
  <2>1. t = v
    BY <1>3, <1>d DEF CommandEnd, Draws
  <2>0. BlitAt(b, c, 0) /\ DataWords(c) \in Nat \ {0}
    BY <1>d, BlitStarts, LastWord DEF Transferring
  <2> HIDE DEF rn, u, b
  <2>2. v \in Gpus("CPU_VRAM_BLIT", u.fifo, u.rem, u.read, b, u.rblit, u.dreq, u.page, u.raw, rn)
    BY <1>2 DEF GpuRecord, Gpus
  <2> HIDE DEF v
  <2>3. Shows(v, "CPU_VRAM_BLIT", u.fifo, u.rem, u.read, b, u.rblit, u.dreq)
    BY <2>2, ShowsFields
  <2>4. Shows(t, "CPU_VRAM_BLIT", << >>, u.rem, "NONE", b, u.rblit, u.dreq)
    BY <1>2, <2>1, <2>3
  <2>5. Standing("CPU_VRAM_BLIT", << >>, u.rem, "NONE", b, u.rblit, c, 3, 0)
    <3>1. 3 \in 3 .. 2 + DataWords(c) /\ 2 * (3 - 3) = 0
      BY <2>0
    <3> QED BY <1>d, <2>0, <3>1 DEF Standing
  <2> QED BY <1>d, <2>4, <2>5, ShownStands DEF Transferring
<1>e. CASE c.op = "VRAM_CPU_BLIT"
  <2> DEFINE b == Blit(c)
             rn == VramCpuBlit(u.ren, b.x, b.y, b.w, b.h)
             v == [u EXCEPT !.status = "VRAM_CPU_BLIT", !.read = "READ_VRAM", !.rblit = b, !.ren = rn]
  <2>1. t = v
    BY <1>3, <1>e DEF CommandEnd, Draws
  <2>0. BlitAt(b, c, 0) /\ DataWords(c) \in Nat \ {0}
    BY <1>e, BlitStarts, LastWord DEF Transferring
  <2> HIDE DEF rn, u, b
  <2>2. v \in Gpus("VRAM_CPU_BLIT", u.fifo, u.rem, "READ_VRAM", u.wblit, b, u.dreq, u.page, u.raw, rn)
    BY <1>2 DEF GpuRecord, Gpus
  <2> HIDE DEF v
  <2>3. Shows(v, "VRAM_CPU_BLIT", u.fifo, u.rem, "READ_VRAM", u.wblit, b, u.dreq)
    BY <2>2, ShowsFields
  <2>4. Shows(t, "VRAM_CPU_BLIT", << >>, u.rem, "READ_VRAM", u.wblit, b, u.dreq)
    BY <1>2, <2>1, <2>3
  <2>5. Standing("VRAM_CPU_BLIT", << >>, u.rem, "READ_VRAM", u.wblit, b, c, 3, 0)
    <3>1. 0 \in 0 .. DataWords(c) - 1 /\ 2 * 0 = 0
      BY <2>0
    <3> QED BY <1>e, <2>0, <3>1 DEF Standing
  <2> QED BY <1>e, <2>4, <2>5, ShownStands DEF Transferring
<1> QED BY <1>5, <1>a, <1>b, <1>c, <1>d, <1>e DEF Draws

\* The commands of one word change settings and the renderer only.
LEMMA ShortStarts ==
    ASSUME NEW s, GpuRecord(s), NEW c \in Commands, Short(c)
    PROVE  Shows(CommandStart(s, [cmd |-> c, i |-> 0]),
                 s.status, s.fifo, s.rem, s.read, s.wblit, s.rblit, s.dreq)
<1> DEFINE word == [cmd |-> c, i |-> 0]
           t == CommandStart(s, word)
           R(v) == Shows(v, s.status, s.fifo, s.rem, s.read, s.wblit, s.rblit, s.dreq)
<1>1. word.cmd = c /\ word.i = 0 /\ ~(word.i > 0)
  OBVIOUS
<1>2. R(s)
  BY DEF Shows
<1> HIDE DEF word
<1>a. CASE c.op = "NOP"
  <2>1. t = s
    BY <1>1, <1>a DEF CommandStart
  <2> QED BY <1>2, <2>1 DEF word
<1>b. CASE c.op = "CLEAR_CACHE"
  <2> DEFINE rn == SyncTextures(FlushCommands(s.ren))
  <2>1. t = [s EXCEPT !.ren = rn]
    BY <1>1, <1>b DEF CommandStart
  <2> HIDE DEF rn
  <2> QED BY <2>1, SetRenderer DEF word
<1>c. CASE c.op = "TEXPAGE"
  <2> DEFINE rn == SyncTextures(FlushCommands(s.ren))
  <2>1. t = Texpage(s, c)
    BY <1>1, <1>c DEF CommandStart
  <2>2. t = s \/ t = [s EXCEPT !.raw = c.page, !.page = c.page, !.ren = rn]
    BY <2>1 DEF Texpage
  <2> HIDE DEF rn
  <2>3. R([s EXCEPT !.raw = c.page, !.page = c.page, !.ren = rn])
    BY SetPage, ZenonT(20)
  <2> QED BY <1>2, <2>2, <2>3 DEF word
<1>d. CASE c.op = "SET_DRAW_TOP"
  <2> DEFINE rn == [FlushCommands(s.ren) EXCEPT !.area.left = c.x, !.area.top = c.y]
  <2>1. t = DrawAreaTopLeft(s, c)
    BY <1>1, <1>d DEF CommandStart
  <2>2. t = s \/ t = [s EXCEPT !.ren = rn]
    BY <2>1 DEF DrawAreaTopLeft
  <2> HIDE DEF rn
  <2>3. R([s EXCEPT !.ren = rn])
    BY SetRenderer
  <2> QED BY <1>2, <2>2, <2>3 DEF word
<1>e. CASE c.op = "SET_DRAW_BOTTOM"
  <2> DEFINE rn == [FlushCommands(s.ren) EXCEPT !.area.right = c.x, !.area.bottom = c.y]
  <2>1. t = DrawAreaBottomRight(s, c)
    BY <1>1, <1>e DEF CommandStart
  <2>2. t = s \/ t = [s EXCEPT !.ren = rn]
    BY <2>1 DEF DrawAreaBottomRight
  <2> HIDE DEF rn
  <2>3. R([s EXCEPT !.ren = rn])
    BY SetRenderer
  <2> QED BY <1>2, <2>2, <2>3 DEF word
<1>f. CASE c.op = "SET_DRAW_OFFSET"
  <2> DEFINE rn == [FlushCommands(s.ren) EXCEPT !.offset = c.x]
  <2>1. t = DrawOffset(s, c)
    BY <1>1, <1>f DEF CommandStart
  <2>2. t = s \/ t = [s EXCEPT !.ren = rn]
    BY <2>1 DEF DrawOffset
  <2> HIDE DEF rn
  <2>3. R([s EXCEPT !.ren = rn])
    BY SetRenderer
  <2> QED BY <1>2, <2>2, <2>3 DEF word
<1> QED BY <1>a, <1>b, <1>c, <1>d, <1>e, <1>f DEF Short

LEMMA QueueOfOne ==
    ASSUME NEW c \in Commands
    PROVE  LET word == [cmd |-> c, i |-> 0]
               f == Append(<< >>, word)
           IN  f \in Seq(Word) /\ Len(f) = 1 /\ f[1].cmd = c
<1> DEFINE word == [cmd |-> c, i |-> 0]
<1>1. word \in Word /\ word.cmd = c
  BY DEF Word
<1> HIDE DEF word
<1>2. Append(<< >>, word) = <<word>>
  OBVIOUS
<1>3. <<word>> \in Seq(Word) /\ Len(<<word>>) = 1 /\ <<word>>[1] = word
  BY <1>1
<1> QED BY <1>1, <1>2, <1>3 DEF word

LEMMA CommandStarts ==
    ASSUME NEW s, GpuRecord(s), s.status = "IDLE", s.fifo = << >>, s.read = "NONE",
           NEW c \in Commands,
           c.op = "CPU_VRAM_BLIT" => ~Straddles(c),
           Polyline(c) => c.n > 0 /\ HeaderWords(c) <= FIFO_SIZE
    PROVE  LET t == CommandStart(s, [cmd |-> c, i |-> 0])
           IN  GpuRecord(t) /\ NextStands(t, c, 0)
<1> DEFINE word == [cmd |-> c, i |-> 0]
           f == Append(<< >>, word)
           q == [s EXCEPT !.fifo = Append(@, word)]
           t == CommandStart(s, word)
<1>1. word.cmd = c /\ word.i = 0 /\ ~(word.i > 0)
  OBVIOUS
<1>2. f \in Seq(Word) /\ Len(f) = 1 /\ f[1].cmd = c
  BY QueueOfOne
<1>3. q = [s EXCEPT !.fifo = f]
  OBVIOUS
<1> HIDE DEF f
<1>4. Shows(q, "IDLE", f, s.rem, "NONE", s.wblit, s.rblit, s.dreq)
  BY <1>3, SetQueue, ZenonT(20)
<1>a. CASE Short(c)
  <2>1. Shows(t, "IDLE", << >>, s.rem, "NONE", s.wblit, s.rblit, s.dreq)
    BY <1>a, ShortStarts
  <2>2. GpuRecord(t) /\ StandsAt(t, NONE, 0, 0)
    BY <2>1, IdleStands, ShownStands
  <2>3. Words(c) = 1 /\ c.op # "VRAM_CPU_BLIT"
    BY <1>a, ShortWords DEF Short
  <2> QED BY <2>2, <2>3 DEF NextStands
<1>b. CASE Polyline(c)
  <2> DEFINE st == IF c.gouraud THEN "POLYLINE_GOURAUD" ELSE "POLYLINE"
  <2>1. t = [q EXCEPT !.status = st]
    <3> HIDE DEF word
    <3> QED BY <1>1, <1>b DEF CommandStart, Polyline, word
  <2>2. st # "VRAM_CPU_BLIT"
    OBVIOUS
  <2> HIDE DEF st, q
  <2>3. GpuRecord(q) /\ q.fifo = f /\ q.rem = s.rem /\ q.read = "NONE"
    BY <1>4 DEF Shows
  <2>4. Shows(t, st, f, q.rem, "NONE", q.wblit, q.rblit, q.dreq)
    BY <2>1, <2>3, SetQueue, ZenonT(20)
  <2>5. HeaderWords(c) \in Nat /\ HeaderWords(c) >= 3
    BY <1>b, PolylineWords
  <2>6. 1 \in 1 .. HeaderWords(c) - 1
    BY <2>5
  <2>7. Standing(st, f, q.rem, "NONE", q.wblit, q.rblit, c, 1, 0)
    BY <1>2, <1>b, <2>2, <2>6 DEF Standing, Polyline, st
  <2>8. Words(c) = HeaderWords(c)
    BY <1>b, <2>5 DEF Words, Polyline
  <2>9. GpuRecord(t) /\ StandsAt(t, c, 0 + 1, 0)
    BY <2>4, <2>7, ShownStands
  <2> QED BY <2>5, <2>8, <2>9 DEF NextStands
<1>c. CASE ~Short(c) /\ ~Polyline(c)
  <2> DEFINE st == "WAITING_PARAMETERS"
             rm == RequiredParams(c)
  <2>1. t = [q EXCEPT !.status = st, !.rem = rm]
    <3> HIDE DEF word
    <3> QED BY <1>1, <1>c DEF CommandStart, Polyline, Short, word
  <2>2. st # "VRAM_CPU_BLIT"
    OBVIOUS
  <2> HIDE DEF st, q, rm
  <2>3. GpuRecord(q) /\ q.fifo = f /\ q.read = "NONE"
    BY <1>4 DEF Shows
  <2>4. Shows(t, st, f, rm, "NONE", q.wblit, q.rblit, q.dreq)
    <3>1. Shows([q EXCEPT !.status = st, !.rem = rm],
                st, q.fifo, rm, q.read, q.wblit, q.rblit, q.dreq)
      BY <2>3, SetQueue, ZenonT(20)
    <3> HIDE DEF t
    <3> QED BY <2>1, <2>3, <3>1
  <2>5. HeaderWords(c) \in 2 .. 12 /\ rm = HeaderWords(c) - 1
    BY <1>c, QueuedWords DEF rm
  <2>6. 1 \in 1 .. HeaderWords(c) - 1
    BY <2>5
  <2>7. Standing(st, f, rm, "NONE", q.wblit, q.rblit, c, 1, 0)
    BY <1>2, <1>c, <2>2, <2>5, <2>6 DEF Standing, Polyline, st
  <2>8. ~(0 + 1 = Words(c))
    <3>1. c.op = "CPU_VRAM_BLIT" => DataWords(c) \in Nat
      BY LastWord DEF Transferring
    <3> QED BY <2>5, <3>1 DEF Words
  <2>9. GpuRecord(t) /\ StandsAt(t, c, 0 + 1, 0)
    BY <2>4, <2>7, ShownStands
  <2> QED BY <2>8, <2>9 DEF NextStands
<1> QED BY <1>a, <1>b, <1>c

\* A word appended to the queue.
LEMMA QueueGrows ==
    ASSUME NEW f \in Seq(Word), NEW c \in Commands, NEW k \in Nat, Len(f) = k, k > 0,
           f[1].cmd = c
    PROVE  LET g == Append(f, [cmd |-> c, i |-> k])
           IN  g \in Seq(Word) /\ Len(g) = k + 1 /\ g[1].cmd = c
<1> DEFINE word == [cmd |-> c, i |-> k]
<1>1. word \in Word
  BY DEF Word
<1> HIDE DEF word
<1>2. Append(f, word) \in Seq(Word) /\ Len(Append(f, word)) = k + 1 /\ Append(f, word)[1] = f[1]
  BY <1>1
<1> QED BY <1>2 DEF word

LEMMA ParameterStands ==
    ASSUME NEW s, GpuRecord(s), NEW c, NEW sent \in Nat, NEW n,
           s.status = "WAITING_PARAMETERS", StandsAt(s, c, sent, 0)
    PROVE  LET t == Parameter(s, [cmd |-> c, i |-> sent], n)
           IN  GpuRecord(t) /\ NextStands(t, c, sent)
<1> DEFINE word == [cmd |-> c, i |-> sent]
           g == Append(s.fifo, word)
           rm == s.rem - 1
           q == [s EXCEPT !.rem = @ - 1, !.fifo = Append(@, word)]
           t == Parameter(s, word, n)
<1>1. /\ c \in Commands /\ ~Polyline(c) /\ s.read = "NONE" /\ s.fifo \in Seq(Word)
      /\ sent \in 1 .. HeaderWords(c) - 1
      /\ Len(s.fifo) = sent /\ s.fifo[1].cmd = c /\ s.rem = HeaderWords(c) - sent
      /\ c.op = "CPU_VRAM_BLIT" => ~Straddles(c)
  BY DEF StandsAt, Standing, Polyline
<1>2. ~Short(c)
  <2>1. ASSUME Short(c) PROVE FALSE
    <3>1. HeaderWords(c) = 1
      BY <2>1 DEF Short, HeaderWords
    <3> QED BY <1>1, <3>1
  <2> QED BY <2>1
<1>3. /\ HeaderWords(c) \in 2 .. 12
      /\ \A len \in Nat : Dequeued(c, len) = HeaderWords(c)
  BY <1>1, <1>2, QueuedWords
<1>4. g \in Seq(Word) /\ Len(g) = sent + 1 /\ g[1].cmd = c
  BY <1>1, QueueGrows
<1>5. q = [s EXCEPT !.rem = rm, !.fifo = g]
  OBVIOUS
<1>6. t = IF q.rem = 0 THEN CommandEnd(q, n) ELSE q
  BY DEF Parameter
<1>7. rm = HeaderWords(c) - (sent + 1)
  <2>1. s.rem = HeaderWords(c) - sent /\ HeaderWords(c) \in Nat /\ sent \in Nat
    BY <1>1, <1>3
  <2> QED BY <2>1
<1> HIDE DEF g, rm, word
<1>8. Shows(q, "WAITING_PARAMETERS", g, rm, "NONE", s.wblit, s.rblit, s.dreq)
  <2>1. Shows([s EXCEPT !.rem = rm, !.fifo = g], s.status, g, rm, s.read, s.wblit, s.rblit, s.dreq)
    BY SetQueue, ZenonT(20)
  <2> HIDE DEF q
  <2> QED BY <1>1, <1>5, <2>1
<1> HIDE DEF q, t
<1>9. GpuRecord(q) /\ q.rem = rm /\ q.fifo = g /\ q.read = "NONE"
  BY <1>8 DEF Shows
<1>10. c.op = "CPU_VRAM_BLIT" => DataWords(c) \in Nat \ {0}
  BY <1>1, LastWord DEF Transferring
<1>a. CASE rm # 0
  <2>1. t = q
    BY <1>6, <1>9, <1>a
  <2>2. sent + 1 \in 1 .. HeaderWords(c) - 1
    <3>1. HeaderWords(c) \in Nat /\ sent \in 1 .. HeaderWords(c) - 1
      BY <1>1, <1>3
    <3>2. sent + 1 # HeaderWords(c)
      BY <1>7, <1>a, <3>1
    <3> QED BY <3>1, <3>2
  <2>3. Standing("WAITING_PARAMETERS", g, rm, "NONE", s.wblit, s.rblit, c, sent + 1, 0)
    BY <1>1, <1>4, <1>7, <2>2 DEF Standing, Polyline
  <2>4. GpuRecord(t) /\ StandsAt(t, c, sent + 1, 0)
    BY <1>8, <2>1, <2>3, ShownStands
  <2>5. sent + 1 # Words(c)
    BY <1>3, <1>10, <2>2 DEF Words
  <2> QED BY <2>4, <2>5 DEF NextStands, t, word
<1>b. CASE rm = 0
  <2>1. t = CommandEnd(q, n)
    BY <1>6, <1>9, <1>b
  <2>2. sent + 1 = HeaderWords(c)
    BY <1>1, <1>3, <1>7, <1>b
  <2>3. Len(q.fifo) = HeaderWords(c) /\ Len(q.fifo) \in Nat /\ Len(q.fifo) > 0
    BY <1>3, <1>4, <1>9, <2>2
  <2>4. Dequeued(c, Len(q.fifo)) = Len(q.fifo)
    BY <1>3, <2>3
  <2>5. /\ GpuRecord(t)
        /\ c.op = "CPU_VRAM_BLIT" => StandsAt(t, c, 3, 0)
        /\ c.op = "VRAM_CPU_BLIT" => StandsAt(t, c, 3, 0)
        /\ ~Transferring(c) => StandsAt(t, NONE, 0, 0)
    <3>1. q.fifo \in Seq(Word) /\ q.fifo[1].cmd = c
      BY <1>4, <1>9
    <3> QED BY <1>1, <1>2, <1>9, <2>1, <2>3, <2>4, <3>1, CommandEnds
  <2>6. Transferring(c) => HeaderWords(c) = 3
    BY <1>1, FixedWords DEF Transferring
  <2>c. CASE c.op = "CPU_VRAM_BLIT"
    <3>1. sent + 1 = 3 /\ Words(c) = 3 + DataWords(c)
      BY <2>2, <2>6, <2>c DEF Words, Transferring
    <3> QED BY <1>10, <2>5, <2>c, <3>1 DEF NextStands, t, word
  <2>d. CASE c.op = "VRAM_CPU_BLIT"
    <3>1. sent + 1 = 3
      BY <2>2, <2>6, <2>d DEF Transferring
    <3> QED BY <2>5, <2>d, <3>1 DEF NextStands, t, word
  <2>e. CASE ~Transferring(c)
    <3>1. sent + 1 = Words(c) /\ c.op # "VRAM_CPU_BLIT"
      BY <1>3, <2>2, <2>e DEF Words, Transferring
    <3> QED BY <2>5, <2>e, <3>1 DEF NextStands, t, word
  <2> QED BY <2>c, <2>d, <2>e DEF Transferring
<1> QED BY <1>a, <1>b

LEMMA VertexStands ==
    ASSUME NEW s, GpuRecord(s), NEW c, NEW sent \in Nat, NEW n,
           s.status \in {"POLYLINE", "POLYLINE_GOURAUD"}, StandsAt(s, c, sent, 0)
    PROVE  LET t == Vertex(s, [cmd |-> c, i |-> sent], n)
           IN  GpuRecord(t) /\ NextStands(t, c, sent)
<1> DEFINE word == [cmd |-> c, i |-> sent]
           g == Append(s.fifo, word)
           t == Vertex(s, word, n)
<1>1. /\ c \in Commands /\ Polyline(c) /\ s.read = "NONE" /\ s.fifo \in Seq(Word)
      /\ s.status = (IF c.gouraud THEN "POLYLINE_GOURAUD" ELSE "POLYLINE")
      /\ c.n > 0 /\ HeaderWords(c) <= FIFO_SIZE
      /\ sent \in 1 .. HeaderWords(c) - 1
      /\ Len(s.fifo) = sent /\ s.fifo[1].cmd = c
  BY DEF StandsAt, Standing, Polyline
<1>2. /\ HeaderWords(c) \in Nat /\ HeaderWords(c) >= 3
      /\ \A len \in Nat : len >= 2 => Dequeued(c, len) = len
      /\ c.gouraud => (HeaderWords(c) - 1) % 2 = 0
  BY <1>1, PolylineWords
<1>3. Words(c) = HeaderWords(c)
  BY <1>1, <1>2 DEF Words, Polyline
<1>4. word.cmd = c /\ word.i = sent
  OBVIOUS
<1>5. IsTerminator(word) <=> sent = HeaderWords(c) - 1
  BY <1>1, <1>3, <1>4 DEF IsTerminator, Polyline
<1>a. CASE sent = HeaderWords(c) - 1
  <2>1. s.status = "POLYLINE" \/ Len(s.fifo) % 2 = 0
    BY <1>1, <1>2, <1>a
  <2>2. t = CommandEnd(s, n)
    BY <1>5, <1>a, <2>1 DEF Vertex
  <2>3. Len(s.fifo) > 0 /\ Dequeued(c, Len(s.fifo)) = Len(s.fifo)
    BY <1>1, <1>2, <1>a
  <2>4. ~Short(c) /\ ~Transferring(c) /\ c.op # "CPU_VRAM_BLIT" /\ c.op # "VRAM_CPU_BLIT"
    BY <1>1 DEF Short, Transferring, Polyline
  <2>5. GpuRecord(t) /\ StandsAt(t, NONE, 0, 0)
    BY <1>1, <2>2, <2>3, <2>4, CommandEnds
  <2>6. sent + 1 = Words(c)
    BY <1>2, <1>3, <1>a
  <2> QED BY <2>4, <2>5, <2>6 DEF NextStands
<1>b. CASE sent # HeaderWords(c) - 1
  <2>1. t = [s EXCEPT !.fifo = g]
    BY <1>5, <1>b, ZenonT(20) DEF Vertex
  <2>2. g \in Seq(Word) /\ Len(g) = sent + 1 /\ g[1].cmd = c
    BY <1>1, QueueGrows
  <2> HIDE DEF g, t, word
  <2>3. Shows(t, s.status, g, s.rem, "NONE", s.wblit, s.rblit, s.dreq)
    BY <1>1, <2>1, SetQueue, ZenonT(20)
  <2>4. sent + 1 \in 1 .. HeaderWords(c) - 1
    BY <1>1, <1>2, <1>b
  <2>5. Standing(s.status, g, s.rem, "NONE", s.wblit, s.rblit, c, sent + 1, 0)
    BY <1>1, <2>2, <2>4 DEF Standing, Polyline
  <2>6. GpuRecord(t) /\ StandsAt(t, c, sent + 1, 0)
    BY <2>3, <2>5, ShownStands
  <2>7. sent + 1 # Words(c)
    BY <1>2, <1>3, <2>4
  <2> QED BY <2>6, <2>7 DEF NextStands, t, word
<1> QED BY <1>a, <1>b

(***************************************************************************)
(* Transfers.                                                              *)
(***************************************************************************)
LEMMA FinalizeShows ==
    ASSUME NEW s, GpuRecord(s)
    PROVE  Shows(FinalizeCpuVramBlit(s), "IDLE", s.fifo, s.rem, s.read, NoBlit, s.rblit, s.dreq)
<1> DEFINE b == s.wblit
           end_x == b.x + b.w
           end_y == b.y + b.h
           over_x == end_x >= VX
           over_y == end_y >= VY
           Part(q, on, x, y, w, h) == IF on THEN CpuVramBlit(q, x, y, w, h) ELSE q
           one == CpuVramBlit(PrepareBlit(s.ren), b.x, b.y, b.w, b.h)
           two == Part(one, over_x, 0, b.y, end_x % VX, b.h)
           three == Part(two, over_y, b.x, 0, b.w, end_y % VY)
           four == Part(three, over_x /\ over_y, 0, 0, end_x % VX, end_y % VY)
           rn == SyncTextures(four)
           t == [s EXCEPT !.status = "IDLE", !.wblit = NoBlit, !.ren = rn]
<1>1. FinalizeCpuVramBlit(s) = t
  BY DEF FinalizeCpuVramBlit
<1> HIDE DEF rn
<1>2. t \in Gpus("IDLE", s.fifo, s.rem, s.read, NoBlit, s.rblit, s.dreq, s.page, s.raw, rn)
  BY DEF GpuRecord, Gpus
<1> HIDE DEF t
<1> QED BY <1>1, <1>2, ShowsFields

LEMMA PokeShows ==
    ASSUME NEW s, GpuRecord(s), NEW i, CellAt(i) \in Cells, NEW d, NEW b
    PROVE  Shows(Poke(s, i, d, b), s.status, s.fifo, s.rem, s.read, b, s.rblit, s.dreq)
<1> DEFINE rn == [s.ren EXCEPT !.cpu[CellAt(i)] = d]
           t == [s EXCEPT !.ren = rn, !.wblit = b]
<1>1. Poke(s, i, d, b) = t
  BY DEF Poke
<1> HIDE DEF rn
<1> QED BY <1>1, SetBlit, ZenonT(40)

\* The pixel at a position of the video memory, and the one after it.
LEMMA PositionInside ==
    ASSUME NEW x \in 0 .. VX - 1, NEW y \in 0 .. VY - 1
    PROVE  CellAt(y * VX + x) \in Cells
<1>1. VX \in Nat \ {0} /\ VY \in Nat \ {0} /\ x \in Nat /\ y \in Nat /\ x < VX
  BY GpuCommandsAssumption
<1> DEFINE i == y * VX + x
<1>2. i \in Nat
  BY <1>1, Products
<1>3. i \div VX = y /\ i % VX = x
  BY <1>1, <1>2, DivModUnique
<1> QED BY <1>3 DEF CellAt, Cells

LEMMA BlitInside ==
    ASSUME NEW c \in Commands, Transferring(c), NEW k \in Nat, NEW b, BlitAt(b, c, k)
    PROVE  /\ b.curr_x \in 0 .. VX - 1 /\ b.curr_y \in 0 .. VY - 1
           /\ CellAt(Index(b)) \in Cells
           /\ b.curr_x # VX - 1 => CellAt(Index(b) + 1) \in Cells
<1>1. /\ c.x \in Nat /\ c.y \in Nat /\ Width(c) \in Nat \ {0}
      /\ VX \in Nat \ {0} /\ VY \in Nat \ {0}
  BY TransferFacts
<1> DEFINE X == c.x + (k % Width(c))
           Y == c.y + (k \div Width(c))
           x == b.curr_x
           y == b.curr_y
<1>2. X \in Nat /\ Y \in Nat
  BY <1>1, DivMod
<1>3. x = X % VX /\ y = Y % VY
  BY DEF BlitAt
<1> HIDE DEF X, Y, x, y
<1>4. x \in Nat /\ x < VX /\ y \in Nat /\ y < VY
  BY <1>1, <1>2, <1>3, DivMod
<1>5. x \in 0 .. VX - 1 /\ y \in 0 .. VY - 1
  BY <1>1, <1>4
<1>6. Index(b) = y * VX + x
  BY DEF Index, x, y
<1>7. CellAt(Index(b)) \in Cells
  BY <1>5, <1>6, PositionInside
<1>8. ASSUME x # VX - 1 PROVE CellAt(Index(b) + 1) \in Cells
  <2> DEFINE x1 == x + 1
             yv == y * VX
  <2>1. x1 \in 0 .. VX - 1
    BY <1>1, <1>4, <1>8
  <2>2. yv \in Nat
    BY <1>1, <1>4, Products
  <2>3. CellAt(y * VX + x1) \in Cells
    <3> HIDE DEF x1
    <3> QED BY <1>5, <2>1, PositionInside
  <2>4. Index(b) + 1 = yv + x1
    <3>1. Index(b) = yv + x
      BY <1>6
    <3> HIDE DEF yv
    <3> QED BY <1>4, <2>2, <3>1
  <2> QED BY <2>3, <2>4
<1> QED BY <1>5, <1>7, <1>8 DEF x, y

LEMMA PerformStands ==
    ASSUME NEW s, GpuRecord(s), NEW c, NEW sent \in Nat, NEW lo, NEW hi,
           s.status = "CPU_VRAM_BLIT", StandsAt(s, c, sent, 0)
    PROVE  LET t == PerformCpuVramBlit(s, lo, hi)
           IN  GpuRecord(t) /\ NextStands(t, c, sent)
<1> DEFINE m == sent - 3
           k == 2 * m
           pixels == Width(c) * Height(c)
           b == s.wblit
           b1 == NextPixel(b)
           b2 == NextPixel(b1)
           j == IF RowEnds(b) THEN Index(b1) ELSE Index(b) + 1
           s1 == Poke(s, Index(b), lo, b1)
           s2 == Poke(s1, j, hi, b2)
           t == PerformCpuVramBlit(s, lo, hi)
<1>1. /\ c \in Commands /\ c.op = "CPU_VRAM_BLIT" /\ s.read = "NONE" /\ s.fifo = << >>
      /\ sent \in 3 .. 2 + DataWords(c) /\ BlitAt(b, c, k) /\ ~Straddles(c)
  BY DEF StandsAt, Standing
<1>2. Transferring(c)
  BY <1>1 DEF Transferring
<1>3. m \in Nat /\ k \in Nat /\ k + 1 \in Nat /\ k + 2 = (k + 1) + 1
  BY <1>1
<1>4. /\ pixels \in Nat \ {0} /\ DataWords(c) \in Nat \ {0}
      /\ m < DataWords(c) <=> 2 * m < pixels
      /\ 2 * m + 1 = pixels \/ 2 * m + 2 = pixels => m + 1 = DataWords(c)
      /\ 2 * m + 2 < pixels => m + 1 < DataWords(c)
  BY <1>1, <1>2, <1>3, LastWord
<1>5. k < pixels
  <2> HIDE DEF pixels
  <2> QED BY <1>1, <1>4
<1>6. /\ RowEnds(b) <=> (k % Width(c)) + 1 = Width(c)
      /\ BlitAt(b1, c, k + 1)
      /\ LastPixel(b) <=> k + 1 = pixels
  BY <1>1, <1>2, <1>3, <1>5, BlitStep
<1>7. /\ BlitAt(b2, c, k + 2)
      /\ k + 1 < pixels => (LastPixel(b1) <=> k + 2 = pixels)
  <2>1. /\ BlitAt(b2, c, (k + 1) + 1)
        /\ k + 1 < pixels => (LastPixel(b1) <=> (k + 1) + 1 = pixels)
    BY <1>1, <1>2, <1>3, <1>6, BlitStep
  <2> QED BY <1>3, <2>1
<1>8. CellAt(Index(b)) \in Cells
  BY <1>1, <1>2, <1>3, BlitInside
<1>9. CellAt(j) \in Cells
  <2>1. CASE RowEnds(b)
    BY <1>1, <1>2, <1>3, <1>6, <2>1, BlitInside
  <2>2. CASE ~RowEnds(b)
    <3>1. (c.x + (k % Width(c))) % VX # VX - 1
      BY <1>1, <1>2, <1>3, <1>5, <1>6, <2>2, NotAtEdge
    <3>2. b.curr_x # VX - 1
      BY <1>1, <3>1 DEF BlitAt
    <3> QED BY <1>1, <1>2, <1>3, <2>2, <3>2, BlitInside
  <2> QED BY <2>1, <2>2
<1>10. t = CASE LastPixel(b)                             -> FinalizeCpuVramBlit(s1)
             [] ~LastPixel(b) /\ LastPixel(b1)
                              /\ s2.status # "BROKEN"    -> FinalizeCpuVramBlit(s2)
             [] OTHER                                    -> s2
  BY DEF PerformCpuVramBlit
<1>11. Shows(s1, "CPU_VRAM_BLIT", << >>, s.rem, "NONE", b1, s.rblit, s.dreq)
  <2> HIDE DEF b1
  <2> QED BY <1>1, <1>8, PokeShows
<1> HIDE DEF s1, b2, j
<1>12. GpuRecord(s1) /\ s1.status = "CPU_VRAM_BLIT" /\ s1.fifo = << >> /\ s1.read = "NONE"
  BY <1>11 DEF Shows
<1>13. Shows(s2, "CPU_VRAM_BLIT", << >>, s1.rem, "NONE", b2, s1.rblit, s1.dreq)
  BY <1>9, <1>12, PokeShows
<1> HIDE DEF s2, t, b, b1, pixels, k, m
<1>14. GpuRecord(s2) /\ s2.status = "CPU_VRAM_BLIT" /\ s2.fifo = << >> /\ s2.read = "NONE"
  BY <1>13 DEF Shows
<1>15. Words(c) = 3 + DataWords(c)
  BY <1>1, FixedWords DEF Words
<1>a. CASE k + 1 = pixels \/ k + 2 = pixels
  <2>1. t = FinalizeCpuVramBlit(s1) \/ t = FinalizeCpuVramBlit(s2)
    <3>1. CASE LastPixel(b)
      BY <1>10, <3>1
    <3>2. CASE ~LastPixel(b)
      <4>1. k + 1 # pixels /\ k + 2 = pixels /\ k + 1 < pixels
        BY <1>3, <1>4, <1>6, <1>a, <3>2
      <4>2. LastPixel(b1)
        BY <1>7, <4>1
      <4>3. s2.status # "BROKEN"
        BY <1>14
      <4> QED BY <1>10, <3>2, <4>2, <4>3
    <3> QED BY <3>1, <3>2
  <2>2. \E u : /\ GpuRecord(u) /\ u.fifo = << >> /\ u.read = "NONE"
               /\ t = FinalizeCpuVramBlit(u)
    BY <1>12, <1>14, <2>1
  <2>3. PICK u : /\ GpuRecord(u) /\ u.fifo = << >> /\ u.read = "NONE"
                 /\ t = FinalizeCpuVramBlit(u)
    BY <2>2
  <2>4. Shows(t, "IDLE", << >>, u.rem, "NONE", NoBlit, u.rblit, u.dreq)
    BY <2>3, FinalizeShows
  <2>5. GpuRecord(t) /\ StandsAt(t, NONE, 0, 0)
    BY <2>4, IdleStands, ShownStands
  <2>6. sent + 1 = Words(c)
    <3>1. m + 1 = DataWords(c)
      BY <1>4, <1>a DEF k
    <3> QED BY <1>1, <1>4, <1>15, <3>1 DEF m
  <2> QED BY <1>1, <2>5, <2>6 DEF NextStands, t
<1>b. CASE ~(k + 1 = pixels \/ k + 2 = pixels)
  <2>1. k + 1 < pixels /\ k + 2 < pixels
    BY <1>3, <1>4, <1>5, <1>b
  <2>2. ~LastPixel(b) /\ ~LastPixel(b1)
    BY <1>6, <1>7, <1>b, <2>1
  <2>3. t = s2
    BY <1>10, <2>2
  <2>4. m + 1 < DataWords(c)
    BY <1>4, <2>1 DEF k
  <2>5. sent + 1 \in 3 .. 2 + DataWords(c) /\ 2 * ((sent + 1) - 3) = k + 2
    BY <1>1, <1>4, <2>4 DEF m, k
  <2>6. Standing("CPU_VRAM_BLIT", << >>, s1.rem, "NONE", b2, s1.rblit, c, sent + 1, 0)
    BY <1>1, <1>7, <2>5 DEF Standing
  <2>7. GpuRecord(t) /\ StandsAt(t, c, sent + 1, 0)
    BY <1>13, <2>3, <2>6, ShownStands
  <2>8. sent + 1 # Words(c)
    BY <1>4, <1>15, <2>5
  <2> QED BY <2>7, <2>8 DEF NextStands, t
<1> QED BY <1>a, <1>b

LEMMA ReadStands ==
    ASSUME NEW s, GpuRecord(s), NEW c, NEW sent, NEW reads \in Nat,
           s.status = "VRAM_CPU_BLIT", StandsAt(s, c, sent, reads)
    PROVE  LET t == ReadData(s)
           IN  /\ Shows(t, t.status, t.fifo, t.rem, t.read, t.wblit, t.rblit, s.dreq)
               /\ IF reads + 1 = DataWords(c) THEN t.status = "IDLE" /\ StandsAt(t, NONE, 0, 0)
                  ELSE t.status = s.status /\ StandsAt(t, c, sent, reads + 1)
<1> DEFINE k == 2 * reads
           pixels == Width(c) * Height(c)
           b == s.rblit
           b1 == NextPixel(b)
           b2 == NextPixel(b1)
           t == ReadData(s)
<1>1. /\ c \in Commands /\ c.op = "VRAM_CPU_BLIT" /\ s.read = "READ_VRAM" /\ s.fifo = << >>
      /\ sent = 3 /\ reads \in 0 .. DataWords(c) - 1 /\ BlitAt(b, c, k)
  BY DEF StandsAt, Standing
<1>2. Transferring(c)
  BY <1>1 DEF Transferring
<1>3. k \in Nat /\ k + 1 \in Nat /\ k + 2 = (k + 1) + 1
  OBVIOUS
<1>4. /\ pixels \in Nat \ {0} /\ DataWords(c) \in Nat \ {0}
      /\ reads < DataWords(c) <=> 2 * reads < pixels
      /\ 2 * reads + 1 = pixels \/ 2 * reads + 2 = pixels => reads + 1 = DataWords(c)
      /\ 2 * reads + 2 < pixels => reads + 1 < DataWords(c)
  BY <1>1, <1>2, LastWord
<1>5. k < pixels
  <2> HIDE DEF pixels
  <2> QED BY <1>1, <1>4
<1>6. /\ BlitAt(b1, c, k + 1)
      /\ LastPixel(b) <=> k + 1 = pixels
  BY <1>1, <1>2, <1>3, <1>5, BlitStep
<1>7. /\ BlitAt(b2, c, k + 2)
      /\ k + 1 < pixels => (LastPixel(b1) <=> k + 2 = pixels)
  <2>1. /\ BlitAt(b2, c, (k + 1) + 1)
        /\ k + 1 < pixels => (LastPixel(b1) <=> (k + 1) + 1 = pixels)
    BY <1>1, <1>2, <1>3, <1>6, BlitStep
  <2> QED BY <1>3, <2>1
<1> DEFINE i == [s EXCEPT !.rblit = NoBlit, !.status = "IDLE", !.read = "NONE"]
           o == [s EXCEPT !.rblit = b2]
<1>8. t = IF LastPixel(b) \/ LastPixel(b1) THEN i ELSE o
  BY <1>1 DEF ReadData
<1>9. Shows(i, "IDLE", << >>, s.rem, "NONE", s.wblit, NoBlit, s.dreq)
  <2>1. i \in Gpus("IDLE", s.fifo, s.rem, "NONE", s.wblit, NoBlit, s.dreq, s.page, s.raw, s.ren)
    BY ZenonT(20) DEF GpuRecord, Gpus
  <2> HIDE DEF i
  <2> QED BY <1>1, <2>1, ShowsFields
<1> HIDE DEF b2
<1>10. Shows(o, "VRAM_CPU_BLIT", << >>, s.rem, "READ_VRAM", s.wblit, b2, s.dreq)
  <2>1. Shows(o, s.status, s.fifo, s.rem, s.read, s.wblit, b2, s.dreq)
    BY SetBlit, ZenonT(20)
  <2> QED BY <1>1, <2>1
<1> HIDE DEF i, o, t, b, b1, pixels, k
<1>a. CASE k + 1 = pixels \/ k + 2 = pixels
  <2>1. LastPixel(b) \/ LastPixel(b1)
    BY <1>3, <1>4, <1>6, <1>7, <1>a
  <2>2. t = i
    BY <1>8, <2>1
  <2>3. reads + 1 = DataWords(c)
    BY <1>4, <1>a DEF k
  <2>4. GpuRecord(t) /\ StandsAt(t, NONE, 0, 0)
    BY <1>9, <2>2, IdleStands, ShownStands
  <2>5. t.status = "IDLE" /\ t.dreq = s.dreq
    BY <1>9, <2>2 DEF Shows
  <2> QED BY <2>3, <2>4, <2>5 DEF Shows, t
<1>b. CASE ~(k + 1 = pixels \/ k + 2 = pixels)
  <2>1. k + 1 < pixels /\ k + 2 < pixels
    BY <1>3, <1>4, <1>5, <1>b
  <2>2. t = o
    BY <1>6, <1>7, <1>8, <1>b, <2>1
  <2>4. reads + 1 < DataWords(c)
    BY <1>4, <2>1 DEF k
  <2>5. reads + 1 \in 0 .. DataWords(c) - 1 /\ 2 * (reads + 1) = k + 2 /\ reads + 1 # DataWords(c)
    BY <1>4, <2>4 DEF k
  <2>6. Standing("VRAM_CPU_BLIT", << >>, s.rem, "READ_VRAM", s.wblit, b2, c, sent, reads + 1)
    BY <1>1, <1>7, <2>5 DEF Standing
  <2>7. GpuRecord(t) /\ StandsAt(t, c, sent, reads + 1)
    BY <1>10, <2>2, <2>6, ShownStands
  <2>8. t.status = "VRAM_CPU_BLIT" /\ t.dreq = s.dreq
    BY <1>10, <2>2 DEF Shows
  <2> QED BY <2>5, <2>7, <2>8 DEF Shows, t
<1> QED BY <1>a, <1>b

(***************************************************************************)
(* The guest.                                                              *)
(***************************************************************************)
LEMMA AfterWord ==
    ASSUME guest \in GuestType, NEW c \in Commands
    PROVE  /\ After(c) \in GuestType
           /\ \A t : NextStands(t, c, guest.sent)
                     => StandsAt(t, After(c).cmd, After(c).sent, After(c).reads)
<1> DEFINE final == guest.sent + 1 = Words(c)
           kept == ~final \/ c.op = "VRAM_CPU_BLIT"
           cm == IF kept THEN c ELSE NONE
           st == IF kept THEN guest.sent + 1 ELSE 0
           ls == IF Words(c) = 1 THEN c ELSE NONE
           nr == Number(c)
           sl == IF final /\ Paints(c) THEN TRUE ELSE guest.stale /\ c.op # "CLEAR_CACHE"
           a == [cmd |-> cm, sent |-> st, reads |-> 0, last |-> ls, number |-> nr, stale |-> sl]
<1>1. After(c) = a
  BY DEF After
<1>2. guest.sent \in Nat /\ guest.number \in Nat
  BY DEF GuestType
<1>3. cm \in Commands \cup {NONE} /\ st \in Nat /\ ls \in Commands \cup {NONE}
  BY <1>2
<1>4. nr \in Nat
  BY <1>2 DEF Number, Bit
<1>5. sl \in BOOLEAN
  <2>1. (guest.stale /\ c.op # "CLEAR_CACHE") \in BOOLEAN
    OBVIOUS
  <2> QED BY <2>1
<1>6. (final /\ c.op # "VRAM_CPU_BLIT") => cm = NONE /\ st = 0
  OBVIOUS
<1>7. ~(final /\ c.op # "VRAM_CPU_BLIT") => cm = c /\ st = guest.sent + 1
  OBVIOUS
<1> HIDE DEF cm, st, ls, nr, sl
<1>8. a \in GuestType /\ a.cmd = cm /\ a.sent = st /\ a.reads = 0
  BY <1>3, <1>4, <1>5 DEF GuestType
<1> HIDE DEF a
<1> QED BY <1>1, <1>6, <1>7, <1>8 DEF NextStands

LEMMA InvIsGood ==
    Inv <=> guest \in GuestType /\ Good(gpu, guest.cmd, guest.sent, guest.reads)
  BY DEF Inv, Good

LEMMA InitInv == Init => Inv
<1> SUFFICES ASSUME Init PROVE Inv
  OBVIOUS
<1>1. GpuRecord(gpu)
  BY DEF Init, GpuRecord, Gpus
<1>2. gpu.status = "IDLE" /\ gpu.fifo = << >> /\ gpu.read = "NONE"
  BY DEF Init
<1>3. guest \in GuestType /\ guest.cmd = NONE /\ guest.sent = 0
  BY DEF Init, GuestType
<1>4. StandsAt(gpu, NONE, 0, guest.reads)
  BY <1>2, IdleStands DEF StandsAt
<1> QED BY <1>1, <1>2, <1>3, <1>4 DEF Inv, LinesUp

\* The rules that the guest must keep.
Rules == {"pair", "read", "polyline"}

LEMMA StartCommandInv ==
    ASSUME Inv, Rules \subseteq Care, NEW c \in Commands, StartCommand(c)
    PROVE  Inv'
<1> DEFINE word == [cmd |-> c, i |-> guest.sent]
           t == CommandStart(gpu, word)
<1>1. guest.cmd = NONE /\ guest.cmd \notin Commands
  BY NoCommand DEF StartCommand
<1>2. GpuRecord(gpu) /\ gpu.status = "IDLE" /\ gpu.fifo = << >> /\ gpu.read = "NONE" /\ guest.sent = 0
  BY <1>1 DEF Inv, StandsAt, Standing
<1>3. Len(gpu.fifo) # FIFO_SIZE
  <2>1. Len(gpu.fifo) = 0
    BY <1>2
  <2> QED BY <2>1, GpuAssumption
<1>4. gpu' = UpdateDreq(t)
  BY <1>2, <1>3 DEF StartCommand, SendWord, WriteGP0
<1>5. c.op = "CPU_VRAM_BLIT" => ~Straddles(c)
  BY DEF StartCommand, Careful, Rules
<1>6. Polyline(c) => c.n > 0 /\ HeaderWords(c) <= FIFO_SIZE
  BY DEF StartCommand, Careful, Rules, Polyline
<1>7. GpuRecord(t) /\ NextStands(t, c, guest.sent)
  BY <1>2, <1>5, <1>6, CommandStarts
<1> HIDE DEF t
<1>8. guest' = After(c) /\ guest \in GuestType
  BY DEF StartCommand, SendWord, Inv
<1>9. guest' \in GuestType /\ StandsAt(t, guest'.cmd, guest'.sent, guest'.reads)
  BY <1>7, <1>8, AfterWord
<1>10. Good(gpu', guest'.cmd, guest'.sent, guest'.reads)
  BY <1>4, <1>7, <1>9, Updated
<1> QED BY <1>9, <1>10, InvIsGood DEF Inv, Good

\* While the guest has words to send, the GPU takes them.
LEMMA FedRoom ==
    ASSUME Inv, guest.cmd # NONE, ~Reading
    PROVE  /\ gpu.status \in {"WAITING_PARAMETERS", "POLYLINE", "POLYLINE_GOURAUD", "CPU_VRAM_BLIT"}
           /\ Len(gpu.fifo) # FIFO_SIZE
<1> DEFINE c == guest.cmd
<1>1. c # NONE /\ ~Reading
  OBVIOUS
<1>2. guest \in GuestType /\ GpuRecord(gpu) /\ StandsAt(gpu, c, guest.sent, guest.reads)
  BY DEF Inv
<1>3. guest.sent \in Nat /\ c \in Commands
  BY <1>1, <1>2 DEF GuestType
<1>4. gpu.status \in {"WAITING_PARAMETERS", "POLYLINE", "POLYLINE_GOURAUD", "CPU_VRAM_BLIT"}
  <2>1. gpu.status # "IDLE"
    BY <1>1, <1>2 DEF StandsAt, Standing
  <2>2. gpu.status # "VRAM_CPU_BLIT"
    <3>1. ASSUME gpu.status = "VRAM_CPU_BLIT" PROVE FALSE
      <4>1. c.op = "VRAM_CPU_BLIT" /\ guest.sent = 3
        BY <1>2, <3>1 DEF StandsAt, Standing
      <4>2. Words(c) = 3
        BY <1>3, <4>1, FixedWords DEF Words
      <4> QED BY <1>1, <4>1, <4>2 DEF Reading
    <3> QED BY <3>1
  <2> QED BY <1>2, <2>1, <2>2 DEF StandsAt, Standing
<1>5. Len(gpu.fifo) # FIFO_SIZE
  <2>1. CASE gpu.status = "WAITING_PARAMETERS"
    <3>1. ~Polyline(c) /\ guest.sent \in 1 .. HeaderWords(c) - 1 /\ Len(gpu.fifo) = guest.sent
      BY <1>2, <2>1 DEF StandsAt, Standing, Polyline
    <3>2. HeaderWords(c) \in 1 .. 12
      <4>1. CASE Short(c)
        BY <4>1 DEF Short, HeaderWords
      <4>2. CASE ~Short(c)
        BY <1>3, <3>1, <4>2, QueuedWords
      <4> QED BY <4>1, <4>2
    <3> QED BY <3>1, <3>2, GpuAssumption
  <2>2. CASE gpu.status \in {"POLYLINE", "POLYLINE_GOURAUD"}
    <3>1. /\ Polyline(c) /\ c.n > 0 /\ HeaderWords(c) <= FIFO_SIZE
          /\ guest.sent \in 1 .. HeaderWords(c) - 1 /\ Len(gpu.fifo) = guest.sent
      BY <1>2, <2>2 DEF StandsAt, Standing, Polyline
    <3>2. HeaderWords(c) \in Nat
      BY <1>3, <3>1, PolylineWords
    <3> QED BY <3>1, <3>2, GpuAssumption
  <2>3. CASE gpu.status = "CPU_VRAM_BLIT"
    <3>1. gpu.fifo = << >>
      BY <1>2, <2>3 DEF StandsAt, Standing
    <3>2. Len(gpu.fifo) = 0
      BY <3>1
    <3> QED BY <3>2, GpuAssumption
  <2> QED BY <1>4, <2>1, <2>2, <2>3
<1> QED BY <1>4, <1>5

LEMMA ContinueCommandInv ==
    ASSUME Inv, ContinueCommand
    PROVE  Inv'
<1> DEFINE c == guest.cmd
           n == Number(c)
           word == [cmd |-> c, i |-> guest.sent]
           lo == Data(word, n, 0)
           hi == Data(word, n, 1)
<1>1. /\ c # NONE /\ ~Reading /\ gpu' = WriteGP0(gpu, word, n) /\ guest' = After(c)
  BY DEF ContinueCommand, SendWord
<1>2. guest \in GuestType /\ GpuRecord(gpu) /\ StandsAt(gpu, c, guest.sent, guest.reads)
  BY DEF Inv
<1>3. guest.sent \in Nat /\ c \in Commands
  BY <1>1, <1>2 DEF GuestType
<1>4. gpu.status \in {"WAITING_PARAMETERS", "POLYLINE", "POLYLINE_GOURAUD", "CPU_VRAM_BLIT"}
  BY <1>1, FedRoom
<1>5. Len(gpu.fifo) # FIFO_SIZE
  BY <1>1, FedRoom
<1>6. \E t : gpu' = UpdateDreq(t) /\ GpuRecord(t) /\ NextStands(t, c, guest.sent)
  <2>0. gpu.status # "VRAM_CPU_BLIT" => StandsAt(gpu, c, guest.sent, 0)
    BY <1>2 DEF StandsAt, Standing
  <2>1. CASE gpu.status = "WAITING_PARAMETERS"
    <3>1. gpu' = UpdateDreq(Parameter(gpu, word, n))
      BY <1>1, <1>5, <2>1 DEF WriteGP0
    <3> QED BY <1>2, <1>3, <2>0, <2>1, <3>1, ParameterStands
  <2>2. CASE gpu.status \in {"POLYLINE", "POLYLINE_GOURAUD"}
    <3>1. gpu' = UpdateDreq(Vertex(gpu, word, n))
      BY <1>1, <1>5, <2>2 DEF WriteGP0
    <3> QED BY <1>2, <1>3, <2>0, <2>2, <3>1, VertexStands
  <2>3. CASE gpu.status = "CPU_VRAM_BLIT"
    <3>1. gpu' = UpdateDreq(PerformCpuVramBlit(gpu, lo, hi))
      BY <1>1, <1>5, <2>3 DEF WriteGP0
    <3> HIDE DEF lo, hi
    <3> QED BY <1>2, <1>3, <2>0, <2>3, <3>1, PerformStands
  <2> QED BY <1>4, <2>1, <2>2, <2>3
<1>7. PICK t : gpu' = UpdateDreq(t) /\ GpuRecord(t) /\ NextStands(t, c, guest.sent)
  BY <1>6
<1>8. guest' \in GuestType /\ StandsAt(t, guest'.cmd, guest'.sent, guest'.reads)
  BY <1>1, <1>2, <1>3, <1>7, AfterWord
<1>9. Good(gpu', guest'.cmd, guest'.sent, guest'.reads)
  BY <1>7, <1>8, Updated
<1> QED BY <1>8, <1>9 DEF Inv, Good

\* While the guest reads, the GPU has a picture to give.
LEMMA ReadingStands ==
    ASSUME Inv
    PROVE  Reading <=> gpu.status = "VRAM_CPU_BLIT"
<1> DEFINE c == guest.cmd
<1>1. StandsAt(gpu, c, guest.sent, guest.reads) /\ guest \in GuestType
  BY DEF Inv
<1>2. ASSUME gpu.status = "VRAM_CPU_BLIT" PROVE Reading
  <2>1. c.op = "VRAM_CPU_BLIT" /\ guest.sent = 3 /\ c \in Commands
    BY <1>1, <1>2 DEF StandsAt, Standing
  <2>2. Words(c) = 3
    BY <2>1, FixedWords DEF Words
  <2> QED BY <2>1, <2>2 DEF Reading
<1>3. ASSUME Reading PROVE gpu.status = "VRAM_CPU_BLIT"
  <2>1. c.op = "VRAM_CPU_BLIT" /\ guest.sent = Words(c)
    BY <1>3 DEF Reading
  <2>2. c \in Commands
    BY <1>1, <2>1 DEF GuestType, NONE
  <2>3. HeaderWords(c) = 3 /\ Words(c) = 3
    BY <2>1, <2>2, FixedWords DEF Words
  <2>4. ~(guest.sent \in 1 .. HeaderWords(c) - 1)
    BY <2>1, <2>3
  <2>5. guest.sent # 0
    BY <2>1, <2>3
  <2> QED BY <1>1, <2>1, <2>4, <2>5 DEF StandsAt, Standing
<1> QED BY <1>2, <1>3

LEMMA ReadWordInv ==
    ASSUME Inv, ReadWord
    PROVE  Inv'
<1> DEFINE c == guest.cmd
           t == ReadData(gpu)
<1>1. Reading /\ gpu' = t
  BY DEF ReadWord
<1>2. gpu.status = "VRAM_CPU_BLIT"
  BY <1>1, ReadingStands
<1>3. /\ guest \in GuestType /\ GpuRecord(gpu) /\ LinesUp(gpu) /\ guest.reads \in Nat
      /\ StandsAt(gpu, c, guest.sent, guest.reads)
  BY DEF Inv, GuestType
<1>4. /\ Shows(t, t.status, t.fifo, t.rem, t.read, t.wblit, t.rblit, gpu.dreq)
      /\ IF guest.reads + 1 = DataWords(c) THEN t.status = "IDLE" /\ StandsAt(t, NONE, 0, 0)
         ELSE t.status = gpu.status /\ StandsAt(t, c, guest.sent, guest.reads + 1)
  BY <1>2, <1>3, ReadStands
<1> HIDE DEF t
<1>5. GpuRecord(t) /\ t.dreq = gpu.dreq
  BY <1>4 DEF Shows
<1>6. LinesUp(t)
  <2>1. t.status = "IDLE" \/ t.status = gpu.status
    BY <1>4
  <2> QED BY <1>3, <1>5, <2>1 DEF LinesUp
<1>a. CASE guest.reads + 1 = DataWords(c)
  <2>1. guest' = [guest EXCEPT !.cmd = NONE, !.sent = 0, !.reads = 0]
    BY <1>a DEF ReadWord
  <2>2. guest' \in GuestType /\ guest'.cmd = NONE /\ guest'.sent = 0 /\ guest'.reads = 0
    BY <1>3, <2>1 DEF GuestType
  <2> QED BY <1>1, <1>4, <1>5, <1>6, <1>a, <2>2 DEF Inv
<1>b. CASE guest.reads + 1 # DataWords(c)
  <2>1. guest' = [guest EXCEPT !.reads = @ + 1]
    BY <1>b DEF ReadWord
  <2>2. /\ guest' \in GuestType /\ guest'.cmd = c /\ guest'.sent = guest.sent
        /\ guest'.reads = guest.reads + 1
    BY <1>3, <2>1 DEF GuestType
  <2> QED BY <1>1, <1>4, <1>5, <1>6, <1>b, <2>2 DEF Inv
<1> QED BY <1>a, <1>b

LEMMA ResetCommandInv ==
    ASSUME Inv, Rules \subseteq Care, ResetCommand
    PROVE  Inv'
<1> DEFINE t == ResetFifo(gpu)
           z == 0
           e == << >>
           st == "IDLE"
<1>1. ~Reading /\ gpu' = UpdateDreq(t)
  BY DEF ResetCommand, Rules
<1>2. GpuRecord(gpu) /\ guest \in GuestType /\ gpu.read = "NONE"
  <2>1. gpu.status # "VRAM_CPU_BLIT"
    BY <1>1, ReadingStands
  <2> QED BY <2>1 DEF Inv, StandsAt, Standing
<1>3. t = [gpu EXCEPT !.fifo = e, !.status = st, !.rem = z, !.wblit = NoBlit]
  BY DEF ResetFifo
<1> HIDE DEF t, e, st, z
<1>4. Shows(t, st, e, z, gpu.read, NoBlit, gpu.rblit, gpu.dreq)
  BY <1>2, <1>3, SetQueue, ZenonT(20)
<1>5. GpuRecord(t) /\ StandsAt(t, NONE, 0, 0)
  <2>1. Shows(t, "IDLE", << >>, 0, "NONE", NoBlit, gpu.rblit, gpu.dreq)
    BY <1>2, <1>4 DEF st, e, z
  <2> QED BY <2>1, IdleStands, ShownStands
<1>6. guest' = [guest EXCEPT !.cmd = NONE, !.sent = 0, !.reads = 0]
  BY DEF ResetCommand
<1>7. guest' \in GuestType /\ guest'.cmd = NONE /\ guest'.sent = 0 /\ guest'.reads = 0
  BY <1>2, <1>6 DEF GuestType
<1>8. Good(gpu', NONE, 0, 0)
  BY <1>1, <1>5, Updated
<1> QED BY <1>7, <1>8 DEF Inv, Good

LEMMA ReadGpuRegisterInv ==
    ASSUME Inv, Rules \subseteq Care, ReadGpuRegister
    PROVE  Inv'
<1> DEFINE t == GpuReadInternal(gpu)
           rd == "NONE"
<1>1. ~Reading /\ gpu' = UpdateDreq(t) /\ guest' = guest
  BY DEF ReadGpuRegister, Rules
<1>2. /\ GpuRecord(gpu) /\ guest \in GuestType /\ gpu.read = "NONE"
      /\ StandsAt(gpu, guest.cmd, guest.sent, guest.reads)
  <2>1. gpu.status # "VRAM_CPU_BLIT"
    BY <1>1, ReadingStands
  <2> QED BY <2>1 DEF Inv, StandsAt, Standing
<1>3. t = [gpu EXCEPT !.read = rd]
  BY DEF GpuReadInternal
<1> HIDE DEF t, rd
<1>4. Shows(t, gpu.status, gpu.fifo, gpu.rem, rd, gpu.wblit, gpu.rblit, gpu.dreq)
  BY <1>2, <1>3, SetQueue, ZenonT(20)
<1>5. GpuRecord(t) /\ StandsAt(t, guest.cmd, guest.sent, guest.reads)
  BY <1>2, <1>4, ShownStands DEF StandsAt, rd
<1>6. Good(gpu', guest.cmd, guest.sent, guest.reads)
  BY <1>1, <1>5, Updated
<1> QED BY <1>1, <1>2, <1>6 DEF Inv, Good

LEMMA ReadStatInv ==
    ASSUME Inv, ReadStat
    PROVE  Inv'
<1>1. gpu' = UpdateDreq(gpu) /\ guest' = guest
  BY DEF ReadStat
<1>2. Good(gpu', guest.cmd, guest.sent, guest.reads)
  BY <1>1, Updated DEF Inv
<1> QED BY <1>1, <1>2 DEF Inv, Good

LEMMA FrameEndsInv ==
    ASSUME Inv, FrameEnds
    PROVE  Inv'
<1> DEFINE rn == VBlank(gpu.ren)
<1>1. gpu' = [gpu EXCEPT !.ren = rn] /\ guest' = guest
  BY DEF FrameEnds
<1> HIDE DEF rn
<1>2. Shows(gpu', gpu.status, gpu.fifo, gpu.rem, gpu.read, gpu.wblit, gpu.rblit, gpu.dreq)
  BY <1>1, SetRenderer DEF Inv
<1>3. GpuRecord(gpu') /\ StandsAt(gpu', guest.cmd, guest.sent, guest.reads)
  BY <1>2, ShownStands DEF Inv, StandsAt
<1>4. LinesUp(gpu')
  <2>1. gpu'.status = gpu.status /\ gpu'.dreq = gpu.dreq
    BY <1>2 DEF Shows
  <2> QED BY <2>1 DEF Inv, LinesUp
<1> QED BY <1>1, <1>3, <1>4 DEF Inv

LEMMA NextInv ==
    ASSUME Inv, Rules \subseteq Care, [Next]_vars
    PROVE  Inv'
<1>1. CASE UNCHANGED vars
  BY <1>1 DEF vars, Inv
<1>2. ASSUME NEW c \in Commands, StartCommand(c) PROVE Inv'
  BY <1>2, StartCommandInv
<1>3. CASE ContinueCommand
  BY <1>3, ContinueCommandInv
<1>4. CASE ReadWord
  BY <1>4, ReadWordInv
<1>5. CASE ResetCommand
  BY <1>5, ResetCommandInv
<1>6. CASE ReadGpuRegister
  BY <1>6, ReadGpuRegisterInv
<1>7. CASE ReadStat
  BY <1>7, ReadStatInv
<1>8. CASE FrameEnds
  BY <1>8, FrameEndsInv
<1> QED BY <1>1, <1>2, <1>3, <1>4, <1>5, <1>6, <1>7, <1>8 DEF Next

(***************************************************************************)
(* What the invariant says.                                                *)
(***************************************************************************)
LEMMA InvInStep ==
    ASSUME Inv
    PROVE  InStep
<1> DEFINE c == guest.cmd
           status == gpu.status
<1>1. StandsAt(gpu, c, guest.sent, guest.reads)
  BY DEF Inv
<1>a. CASE status = "IDLE"
  BY <1>1, <1>a DEF StandsAt, Standing, InStep
<1>b. CASE status = "WAITING_PARAMETERS"
  <2>1. c \in Commands /\ Len(gpu.fifo) = guest.sent /\ gpu.rem = HeaderWords(c) - guest.sent
    BY <1>1, <1>b DEF StandsAt, Standing
  <2> QED BY <1>b, <2>1, NoCommand DEF InStep
<1>c. CASE status \in {"POLYLINE", "POLYLINE_GOURAUD"}
  <2>1. c \in Commands /\ c.op = "LINE" /\ Len(gpu.fifo) = guest.sent
    BY <1>1, <1>c DEF StandsAt, Standing
  <2> QED BY <1>c, <2>1, NoCommand DEF InStep
<1>d. CASE status = "CPU_VRAM_BLIT"
  <2>1. c \in Commands /\ c.op = "CPU_VRAM_BLIT" /\ BlitAt(gpu.wblit, c, 2 * (guest.sent - 3))
    BY <1>1, <1>d DEF StandsAt, Standing
  <2>2. HeaderWords(c) = 3
    BY <2>1, FixedWords
  <2>3. <<gpu.wblit.curr_x, gpu.wblit.curr_y>> = CellOf(c, 2 * (guest.sent - HeaderWords(c)))
    BY <2>1, <2>2 DEF BlitAt, CellOf
  <2> QED BY <1>d, <2>1, <2>3 DEF InStep
<1>e. CASE status = "VRAM_CPU_BLIT"
  <2>1. gpu.read = "READ_VRAM" /\ BlitAt(gpu.rblit, c, 2 * guest.reads)
    BY <1>1, <1>e DEF StandsAt, Standing
  <2>2. Reading
    BY <1>e, ReadingStands
  <2>3. <<gpu.rblit.curr_x, gpu.rblit.curr_y>> = CellOf(c, 2 * guest.reads)
    BY <2>1 DEF BlitAt, CellOf
  <2> QED BY <1>e, <2>1, <2>2, <2>3 DEF InStep
<1>6. status \in {"IDLE", "WAITING_PARAMETERS", "POLYLINE", "POLYLINE_GOURAUD",
                  "CPU_VRAM_BLIT", "VRAM_CPU_BLIT"}
  BY <1>1 DEF StandsAt, Standing
<1> QED BY <1>6, <1>a, <1>b, <1>c, <1>d, <1>e

LEMMA InvDmaFed ==
    ASSUME Inv
    PROVE  DmaFed
<1> DEFINE c == guest.cmd
<1>1. StandsAt(gpu, c, guest.sent, guest.reads) /\ LinesUp(gpu)
  BY DEF Inv
<1>2. ASSUME c # NONE, c.op = "LINE" => ~c.poly PROVE gpu.dreq["CPU_GP0"]
  <2>1. gpu.status \in {"WAITING_PARAMETERS", "CPU_VRAM_BLIT", "VRAM_CPU_BLIT"}
    BY <1>1, <1>2 DEF StandsAt, Standing
  <2> QED BY <1>1, <2>1 DEF LinesUp
<1>3. ASSUME Reading PROVE gpu.dreq["GPUREAD_CPU"]
  <2>1. gpu.status = "VRAM_CPU_BLIT"
    BY <1>3, ReadingStands
  <2> QED BY <1>1, <2>1 DEF LinesUp
<1> QED BY <1>2, <1>3 DEF DmaFed

\* For every size of the video memory and of the queue and every set of
\* commands: the GPU stays in step with a guest that writes no pair of pixels
\* across both edges of the video memory, reads pictures to the end and sends
\* polylines that fit the queue.  The parameters that CommandStart counts, the
\* words that the handlers take out and the pixels that a transfer steps over
\* are the words that the guest sends and reads, also after resets.
THEOREM GpuInStep == Rules \subseteq Care => (Spec => []InStep)
<1> SUFFICES ASSUME Rules \subseteq Care PROVE Spec => []InStep
  OBVIOUS
<1>1. Init => Inv
  BY InitInv
<1>2. Inv /\ [Next]_vars => Inv'
  BY NextInv
<1>3. Inv => InStep
  BY InvInStep
<1> QED BY <1>1, <1>2, <1>3, PTL DEF Spec

\* Under the same rules the request line for the DMA is up whenever the GPU
\* waits for words of a command other than a polyline or has words to give.
THEOREM GpuDmaFed == Rules \subseteq Care => (Spec => []DmaFed)
<1> SUFFICES ASSUME Rules \subseteq Care PROVE Spec => []DmaFed
  OBVIOUS
<1>1. Init => Inv
  BY InitInv
<1>2. Inv /\ [Next]_vars => Inv'
  BY NextInv
<1>3. Inv => DmaFed
  BY InvDmaFed
<1> QED BY <1>1, <1>2, <1>3, PTL DEF Spec

(***************************************************************************)
(* Folds: a fold over a sequence is the base with the elements applied one *)
(* after the other.  The folds of the model are kept apart by a record o, so*)
(* that one induction serves them all.                                     *)
(***************************************************************************)
\* A set of naturals has a smallest one.
LEMMA SmallestNumber ==
    ASSUME NEW T \in SUBSET Nat, T # {}
    PROVE  \E m \in T : \A k \in T : m <= k
<1> DEFINE R == OpToRel(<, Nat)
<1>1. PICK m \in T : \A k \in T : ~(<<k, m>> \in R)
  BY NatLessThanWellFounded, WFMin, ZenonT(20)
<1>2. \A k \in T : ~(k < m)
  BY <1>1 DEF OpToRel
<1> QED BY <1>2

\* o.q is what primitives are drawn with.
Apply(o, s, e) ==
    CASE o.fold = "collect" -> DrawPrimitive(s, e)
      [] o.fold = "draw"    -> DrawCommands(o.q, s, e)
      [] o.fold = "piece"   -> Rasterised(s, o.tex, o.area, o.offset, e, o.mode)
      [] o.fold = "paint"   -> Rasterised(s, o.tex, o.area, o.offset, e, e.mode)

\* f gives, for a set of positions, the fold of the elements at them.
Folds(o, f, n, base, seq) ==
    f = [s \in SUBSET (1 .. n) |->
            IF s = {} THEN base ELSE Apply(o, f[s \ {Max(s)}], seq[Max(s)])]

\* v is base with the elements of seq applied one after the other.
FoldedBy(o, base, seq, v) ==
    \E f : Folds(o, f, Len(seq), base, seq) /\ v = f[1 .. Len(seq)]

\* Max gives the largest number of a range.
LEMMA Largest ==
    ASSUME NEW n \in Nat, NEW s \in SUBSET (1 .. n), s # {}
    PROVE  Max(s) \in s /\ \A y \in s : Max(s) >= y
<1> DEFINE T == {m \in Nat : \A y \in s : m >= y}
<1>1. n \in T
  OBVIOUS
<1>2. PICK m \in T : \A k \in T : m <= k
  <2>1. T \in SUBSET Nat /\ T # {}
    BY <1>1
  <2> HIDE DEF T
  <2> QED BY <2>1, SmallestNumber
<1>3. m \in s
  <2> SUFFICES ASSUME m \notin s PROVE FALSE
    OBVIOUS
  <2>1. PICK y \in s : TRUE
    OBVIOUS
  <2>2. m \in Nat /\ m >= y /\ y \in 1 .. n /\ m # y
    BY <2>1
  <2>3. m - 1 \in T
    BY <2>2
  <2>4. m <= m - 1
    BY <1>2, <2>3
  <2> QED BY <2>2, <2>4
<1>4. \E x \in s : \A y \in s : x >= y
  BY <1>3
<1> QED BY <1>4 DEF Max

LEMMA LargestOfAll ==
    ASSUME NEW n \in Nat
    PROVE  Max(1 .. n + 1) = n + 1 /\ (1 .. n + 1) \ {n + 1} = 1 .. n /\ 1 .. n + 1 # {}
<1>1. n + 1 \in 1 .. n + 1 /\ n + 1 \in Nat
  OBVIOUS
<1>2. Max(1 .. n + 1) \in 1 .. n + 1 /\ \A y \in 1 .. n + 1 : Max(1 .. n + 1) >= y
  BY <1>1, Largest
<1>3. Max(1 .. n + 1) >= n + 1
  BY <1>1, <1>2
<1>4. Max(1 .. n + 1) = n + 1
  BY <1>2, <1>3
<1>5. (1 .. n + 1) \ {n + 1} = 1 .. n
  OBVIOUS
<1> QED BY <1>1, <1>4, <1>5

\* The function that computes a fold exists.
LEMMA FoldExists ==
    ASSUME NEW o, NEW n \in Nat, NEW base, NEW seq
    PROVE  \E f : Folds(o, f, n, base, seq)
<1> DEFINE T == {m \in Nat : ~ \E f : Folds(o, f, m, base, seq)}
<1> SUFFICES ASSUME T # {} PROVE FALSE
  OBVIOUS
<1>1. PICK m \in T : \A k \in T : m <= k
  <2>1. T \in SUBSET Nat
    OBVIOUS
  <2> HIDE DEF T
  <2> QED BY <2>1, SmallestNumber
<1>2. m # 0
  <2> DEFINE f == [s \in SUBSET (1 .. 0) |-> base]
  <2>1. \A s \in SUBSET (1 .. 0) : s = {}
    OBVIOUS
  <2>2. f = [s \in SUBSET (1 .. 0) |->
                IF s = {} THEN base ELSE Apply(o, f[s \ {Max(s)}], seq[Max(s)])]
    BY <2>1
  <2>3. Folds(o, f, 0, base, seq)
    BY <2>2 DEF Folds
  <2> HIDE DEF f
  <2>4. 0 \notin T
    BY <2>3
  <2> QED BY <2>4
<1> DEFINE k == m - 1
<1>3. k \in Nat /\ m = k + 1 /\ k \notin T
  BY <1>1, <1>2
<1>4. PICK f : Folds(o, f, k, base, seq)
  BY <1>3
<1> DEFINE g == [s \in SUBSET (1 .. m) |->
                    IF m \in s THEN Apply(o, f[s \ {m}], seq[m]) ELSE f[s]]
<1> HIDE DEF k
<1>5. ASSUME NEW s \in SUBSET (1 .. m)
      PROVE  g[s] = IF s = {} THEN base ELSE Apply(o, g[s \ {Max(s)}], seq[Max(s)])
  <2>a. CASE m \in s
    <3>1. Max(s) = m
      <4>1. Max(s) \in s /\ Max(s) >= m
        BY <1>3, <2>a, Largest
      <4>2. Max(s) \in 1 .. m
        BY <4>1
      <4> QED BY <1>3, <4>1, <4>2
    <3>2. s \ {m} \in SUBSET (1 .. m) /\ m \notin s \ {m}
      OBVIOUS
    <3>3. g[s \ {m}] = f[s \ {m}]
      BY <3>2
    <3>4. g[s] = Apply(o, f[s \ {m}], seq[m])
      BY <2>a
    <3> HIDE DEF g
    <3> QED BY <2>a, <3>1, <3>3, <3>4
  <2>b. CASE m \notin s
    <3>1. s \in SUBSET (1 .. k)
      BY <1>3, <2>b
    <3>2. f[s] = IF s = {} THEN base ELSE Apply(o, f[s \ {Max(s)}], seq[Max(s)])
      BY <1>4, <3>1 DEF Folds
    <3>3. g[s] = f[s]
      BY <2>b
    <3>4. s \ {Max(s)} \in SUBSET (1 .. m) /\ m \notin s \ {Max(s)}
      BY <2>b
    <3>5. g[s \ {Max(s)}] = f[s \ {Max(s)}]
      BY <3>4
    <3> HIDE DEF g
    <3> QED BY <3>2, <3>3, <3>5
  <2> QED BY <2>a, <2>b
<1>6. g = [s \in SUBSET (1 .. m) |->
              IF s = {} THEN base ELSE Apply(o, g[s \ {Max(s)}], seq[Max(s)])]
  BY <1>5
<1>7. Folds(o, g, m, base, seq)
  BY <1>6 DEF Folds
<1> QED BY <1>1, <1>7

\* Folds of sequences that begin alike begin alike.
LEMMA FoldsAgree ==
    ASSUME NEW o, NEW base, NEW n \in Nat, NEW m \in Nat, n <= m,
           NEW t, NEW u, NEW f, NEW g,
           Folds(o, f, n, base, t), Folds(o, g, m, base, u),
           \A i \in 1 .. n : t[i] = u[i]
    PROVE  f[1 .. n] = g[1 .. n]
<1> DEFINE T == {i \in 0 .. n : f[1 .. i] # g[1 .. i]}
<1> SUFFICES ASSUME T # {} PROVE FALSE
  OBVIOUS
<1>1. PICK i \in T : \A j \in T : i <= j
  <2>1. T \in SUBSET Nat
    OBVIOUS
  <2> HIDE DEF T
  <2> QED BY <2>1, SmallestNumber
<1>2. i \in 0 .. n /\ f[1 .. i] # g[1 .. i]
  BY <1>1
<1>3. f[{}] = base /\ g[{}] = base
  BY DEF Folds
<1>4. i # 0
  <2>1. 1 .. 0 = {}
    OBVIOUS
  <2> QED BY <1>2, <1>3, <2>1
<1> DEFINE j == i - 1
<1>5. j \in Nat /\ i = j + 1 /\ j \in 0 .. n /\ j \notin T
  <2>1. j \notin T
    <3>1. ~(i <= j)
      BY <1>2
    <3> QED BY <1>1, <3>1
  <2> QED BY <1>2, <1>4, <2>1
<1>6. f[1 .. j] = g[1 .. j]
  BY <1>5
<1> HIDE DEF T, j
<1>7. Max(1 .. i) = i /\ (1 .. i) \ {i} = 1 .. j /\ 1 .. i # {}
  BY <1>5, LargestOfAll
<1>8. 1 .. i \in SUBSET (1 .. n) /\ 1 .. i \in SUBSET (1 .. m) /\ i \in 1 .. n
  BY <1>2, <1>4
<1>9. f[1 .. i] = Apply(o, f[1 .. j], t[i]) /\ g[1 .. i] = Apply(o, g[1 .. j], u[i])
  BY <1>7, <1>8 DEF Folds
<1> QED BY <1>2, <1>6, <1>8, <1>9

LEMMA FoldedEmpty ==
    ASSUME NEW o, NEW base, NEW v, FoldedBy(o, base, << >>, v)
    PROVE  v = base
<1>1. PICK f : Folds(o, f, 0, base, << >>) /\ v = f[1 .. 0]
  BY DEF FoldedBy
<1>2. f[{}] = base
  BY <1>1 DEF Folds
<1>3. 1 .. 0 = {}
  OBVIOUS
<1> QED BY <1>1, <1>2, <1>3

\* One element more.
LEMMA FoldedAppend ==
    ASSUME NEW o, NEW base, NEW E, NEW seq \in Seq(E), NEW e \in E, NEW v, NEW w,
           FoldedBy(o, base, seq, v), FoldedBy(o, base, Append(seq, e), w)
    PROVE  w = Apply(o, v, e)
<1> DEFINE n == Len(seq)
           long == Append(seq, e)
<1>1. /\ n \in Nat /\ Len(long) = n + 1 /\ long[n + 1] = e
      /\ \A i \in 1 .. n : seq[i] = long[i]
  OBVIOUS
<1>2. PICK f : Folds(o, f, n, base, seq) /\ v = f[1 .. n]
  BY DEF FoldedBy
<1>3. PICK g : Folds(o, g, n + 1, base, long) /\ w = g[1 .. n + 1]
  BY <1>1 DEF FoldedBy
<1> HIDE DEF n, long
<1>4. f[1 .. n] = g[1 .. n]
  <2>1. n + 1 \in Nat /\ n <= n + 1
    BY <1>1
  <2> QED BY <1>1, <1>2, <1>3, <2>1, FoldsAgree
<1>5. Max(1 .. n + 1) = n + 1 /\ (1 .. n + 1) \ {n + 1} = 1 .. n /\ 1 .. n + 1 # {}
  BY <1>1, LargestOfAll
<1>6. g[1 .. n + 1] = Apply(o, g[1 .. n], long[n + 1])
  BY <1>3, <1>5 DEF Folds
<1> QED BY <1>1, <1>2, <1>3, <1>4, <1>6

\* The folds of the model: the collected primitives drawn command by command,
\* the primitives of one such command, the primitives of a command given to
\* the renderer, and the same painted at once.
DrawnFrom(q, base, seq) == FoldLeft(LAMBDA s, k : DrawCommands(q, s, k), base, seq)

PieceDrawn(tex, area, offset, mode, base, seq) ==
    FoldLeft(LAMBDA img, p : Rasterised(img, tex, area, offset, p, mode), base, seq)

Collected(base, seq) == FoldLeft(DrawPrimitive, base, seq)

PaintedOn(tex, area, offset, base, seq) ==
    FoldLeft(LAMBDA img, p : Rasterised(img, tex, area, offset, p, p.mode), base, seq)

\* Each of the folds is one in the sense above: it has its base for the empty
\* sequence, and one element more is applied last.
LEMMA DrawnFromFolds ==
    ASSUME NEW q, NEW base, NEW E, NEW seq \in Seq(E)
    PROVE  FoldedBy([fold |-> "draw", q |-> q], base, seq, DrawnFrom(q, base, seq))
<1> DEFINE o == [fold |-> "draw", q |-> q]
           n == Len(seq)
           F(f) == f = [s \in SUBSET (1 .. n) |->
                           IF s = {} THEN base
                           ELSE DrawCommands(q, f[s \ {Max(s)}], seq[Max(s)])]
           f == CHOOSE f : F(f)
<1>1. n \in Nat /\ DOMAIN seq = 1 .. n
  OBVIOUS
<1>2. DrawnFrom(q, base, seq) = f[1 .. n]
  BY <1>1 DEF DrawnFrom, FoldLeft, MapThenFoldSet
<1>3. \A s, e : Apply(o, s, e) = DrawCommands(q, s, e)
  BY DEF Apply
<1>4. PICK g : Folds(o, g, n, base, seq)
  BY <1>1, FoldExists
<1>5. F(g)
  BY <1>3, <1>4, ZenonT(40) DEF Folds
<1>6. F(f)
  BY <1>5
<1> HIDE DEF f, o
<1>7. Folds(o, f, n, base, seq)
  BY <1>3, <1>6, ZenonT(40) DEF Folds
<1> QED BY <1>2, <1>7 DEF FoldedBy, o

LEMMA DrawnFromNone ==
    ASSUME NEW q, NEW base
    PROVE  DrawnFrom(q, base, << >>) = base
<1> DEFINE o == [fold |-> "draw", q |-> q]
<1> HIDE DEF o
<1>1. << >> \in Seq({})
  OBVIOUS
<1>2. FoldedBy(o, base, << >>, DrawnFrom(q, base, << >>))
  BY <1>1, DrawnFromFolds DEF o
<1> QED BY <1>2, FoldedEmpty

LEMMA DrawnFromMore ==
    ASSUME NEW q, NEW base, NEW E, NEW seq \in Seq(E), NEW e \in E
    PROVE  DrawnFrom(q, base, Append(seq, e)) = DrawCommands(q, DrawnFrom(q, base, seq), e)
<1> DEFINE o == [fold |-> "draw", q |-> q]
<1>1. \A s, x : Apply(o, s, x) = DrawCommands(q, s, x)
  BY DEF Apply
<1> HIDE DEF o
<1>2. Append(seq, e) \in Seq(E)
  OBVIOUS
<1>3. FoldedBy(o, base, seq, DrawnFrom(q, base, seq))
  BY DrawnFromFolds DEF o
<1>4. FoldedBy(o, base, Append(seq, e), DrawnFrom(q, base, Append(seq, e)))
  BY <1>2, DrawnFromFolds DEF o
<1> QED BY <1>1, <1>3, <1>4, FoldedAppend

LEMMA PieceDrawnFolds ==
    ASSUME NEW tex, NEW area, NEW offset, NEW mode, NEW base, NEW E, NEW seq \in Seq(E)
    PROVE  FoldedBy([fold |-> "piece", tex |-> tex, area |-> area, offset |-> offset, mode |-> mode], base, seq, PieceDrawn(tex, area, offset, mode, base, seq))
<1> DEFINE o == [fold |-> "piece", tex |-> tex, area |-> area, offset |-> offset, mode |-> mode]
           n == Len(seq)
           F(f) == f = [s \in SUBSET (1 .. n) |->
                           IF s = {} THEN base
                           ELSE Rasterised(f[s \ {Max(s)}], tex, area, offset, seq[Max(s)], mode)]
           f == CHOOSE f : F(f)
<1>1. n \in Nat /\ DOMAIN seq = 1 .. n
  OBVIOUS
<1>2. PieceDrawn(tex, area, offset, mode, base, seq) = f[1 .. n]
  BY <1>1 DEF PieceDrawn, FoldLeft, MapThenFoldSet
<1>3. \A s, e : Apply(o, s, e) = Rasterised(s, tex, area, offset, e, mode)
  BY DEF Apply
<1>4. PICK g : Folds(o, g, n, base, seq)
  BY <1>1, FoldExists
<1>5. F(g)
  BY <1>3, <1>4, ZenonT(40) DEF Folds
<1>6. F(f)
  BY <1>5
<1> HIDE DEF f, o
<1>7. Folds(o, f, n, base, seq)
  BY <1>3, <1>6, ZenonT(40) DEF Folds
<1> QED BY <1>2, <1>7 DEF FoldedBy, o

LEMMA PieceDrawnNone ==
    ASSUME NEW tex, NEW area, NEW offset, NEW mode, NEW base
    PROVE  PieceDrawn(tex, area, offset, mode, base, << >>) = base
<1> DEFINE o == [fold |-> "piece", tex |-> tex, area |-> area, offset |-> offset, mode |-> mode]
<1> HIDE DEF o
<1>1. << >> \in Seq({})
  OBVIOUS
<1>2. FoldedBy(o, base, << >>, PieceDrawn(tex, area, offset, mode, base, << >>))
  BY <1>1, PieceDrawnFolds DEF o
<1> QED BY <1>2, FoldedEmpty

LEMMA PieceDrawnMore ==
    ASSUME NEW tex, NEW area, NEW offset, NEW mode, NEW base, NEW E, NEW seq \in Seq(E), NEW e \in E
    PROVE  PieceDrawn(tex, area, offset, mode, base, Append(seq, e)) = Rasterised(PieceDrawn(tex, area, offset, mode, base, seq), tex, area, offset, e, mode)
<1> DEFINE o == [fold |-> "piece", tex |-> tex, area |-> area, offset |-> offset, mode |-> mode]
<1>1. \A s, x : Apply(o, s, x) = Rasterised(s, tex, area, offset, x, mode)
  BY DEF Apply
<1> HIDE DEF o
<1>2. Append(seq, e) \in Seq(E)
  OBVIOUS
<1>3. FoldedBy(o, base, seq, PieceDrawn(tex, area, offset, mode, base, seq))
  BY PieceDrawnFolds DEF o
<1>4. FoldedBy(o, base, Append(seq, e), PieceDrawn(tex, area, offset, mode, base, Append(seq, e)))
  BY <1>2, PieceDrawnFolds DEF o
<1> QED BY <1>1, <1>3, <1>4, FoldedAppend

LEMMA CollectedFolds ==
    ASSUME NEW base, NEW E, NEW seq \in Seq(E)
    PROVE  FoldedBy([fold |-> "collect"], base, seq, Collected(base, seq))
<1> DEFINE o == [fold |-> "collect"]
           n == Len(seq)
           F(f) == f = [s \in SUBSET (1 .. n) |->
                           IF s = {} THEN base
                           ELSE DrawPrimitive(f[s \ {Max(s)}], seq[Max(s)])]
           f == CHOOSE f : F(f)
<1>1. n \in Nat /\ DOMAIN seq = 1 .. n
  OBVIOUS
<1>2. Collected(base, seq) = f[1 .. n]
  BY <1>1 DEF Collected, FoldLeft, MapThenFoldSet
<1>3. \A s, e : Apply(o, s, e) = DrawPrimitive(s, e)
  BY DEF Apply
<1>4. PICK g : Folds(o, g, n, base, seq)
  BY <1>1, FoldExists
<1>5. F(g)
  BY <1>3, <1>4, ZenonT(40) DEF Folds
<1>6. F(f)
  BY <1>5
<1> HIDE DEF f, o
<1>7. Folds(o, f, n, base, seq)
  BY <1>3, <1>6, ZenonT(40) DEF Folds
<1> QED BY <1>2, <1>7 DEF FoldedBy, o

LEMMA CollectedNone ==
    ASSUME NEW base
    PROVE  Collected(base, << >>) = base
<1> DEFINE o == [fold |-> "collect"]
<1> HIDE DEF o
<1>1. << >> \in Seq({})
  OBVIOUS
<1>2. FoldedBy(o, base, << >>, Collected(base, << >>))
  BY <1>1, CollectedFolds DEF o
<1> QED BY <1>2, FoldedEmpty

LEMMA CollectedMore ==
    ASSUME NEW base, NEW E, NEW seq \in Seq(E), NEW e \in E
    PROVE  Collected(base, Append(seq, e)) = DrawPrimitive(Collected(base, seq), e)
<1> DEFINE o == [fold |-> "collect"]
<1>1. \A s, x : Apply(o, s, x) = DrawPrimitive(s, x)
  BY DEF Apply
<1> HIDE DEF o
<1>2. Append(seq, e) \in Seq(E)
  OBVIOUS
<1>3. FoldedBy(o, base, seq, Collected(base, seq))
  BY CollectedFolds DEF o
<1>4. FoldedBy(o, base, Append(seq, e), Collected(base, Append(seq, e)))
  BY <1>2, CollectedFolds DEF o
<1> QED BY <1>1, <1>3, <1>4, FoldedAppend

LEMMA PaintedOnFolds ==
    ASSUME NEW tex, NEW area, NEW offset, NEW base, NEW E, NEW seq \in Seq(E)
    PROVE  FoldedBy([fold |-> "paint", tex |-> tex, area |-> area, offset |-> offset], base, seq, PaintedOn(tex, area, offset, base, seq))
<1> DEFINE o == [fold |-> "paint", tex |-> tex, area |-> area, offset |-> offset]
           n == Len(seq)
           F(f) == f = [s \in SUBSET (1 .. n) |->
                           IF s = {} THEN base
                           ELSE Rasterised(f[s \ {Max(s)}], tex, area, offset, seq[Max(s)], seq[Max(s)].mode)]
           f == CHOOSE f : F(f)
<1>1. n \in Nat /\ DOMAIN seq = 1 .. n
  OBVIOUS
<1>2. PaintedOn(tex, area, offset, base, seq) = f[1 .. n]
  BY <1>1 DEF PaintedOn, FoldLeft, MapThenFoldSet
<1>3. \A s, e : Apply(o, s, e) = Rasterised(s, tex, area, offset, e, e.mode)
  BY DEF Apply
<1>4. PICK g : Folds(o, g, n, base, seq)
  BY <1>1, FoldExists
<1>5. F(g)
  BY <1>3, <1>4, ZenonT(40) DEF Folds
<1>6. F(f)
  BY <1>5
<1> HIDE DEF f, o
<1>7. Folds(o, f, n, base, seq)
  BY <1>3, <1>6, ZenonT(40) DEF Folds
<1> QED BY <1>2, <1>7 DEF FoldedBy, o

LEMMA PaintedOnNone ==
    ASSUME NEW tex, NEW area, NEW offset, NEW base
    PROVE  PaintedOn(tex, area, offset, base, << >>) = base
<1> DEFINE o == [fold |-> "paint", tex |-> tex, area |-> area, offset |-> offset]
<1> HIDE DEF o
<1>1. << >> \in Seq({})
  OBVIOUS
<1>2. FoldedBy(o, base, << >>, PaintedOn(tex, area, offset, base, << >>))
  BY <1>1, PaintedOnFolds DEF o
<1> QED BY <1>2, FoldedEmpty

LEMMA PaintedOnMore ==
    ASSUME NEW tex, NEW area, NEW offset, NEW base, NEW E, NEW seq \in Seq(E), NEW e \in E
    PROVE  PaintedOn(tex, area, offset, base, Append(seq, e)) = Rasterised(PaintedOn(tex, area, offset, base, seq), tex, area, offset, e, e.mode)
<1> DEFINE o == [fold |-> "paint", tex |-> tex, area |-> area, offset |-> offset]
<1>1. \A s, x : Apply(o, s, x) = Rasterised(s, tex, area, offset, x, x.mode)
  BY DEF Apply
<1> HIDE DEF o
<1>2. Append(seq, e) \in Seq(E)
  OBVIOUS
<1>3. FoldedBy(o, base, seq, PaintedOn(tex, area, offset, base, seq))
  BY PaintedOnFolds DEF o
<1>4. FoldedBy(o, base, Append(seq, e), PaintedOn(tex, area, offset, base, Append(seq, e)))
  BY <1>2, PaintedOnFolds DEF o
<1> QED BY <1>1, <1>3, <1>4, FoldedAppend

(***************************************************************************)
(* The batch: what the renderer has collected and not drawn yet.           *)
(***************************************************************************)
\* A primitive, and a command of a batch.
Primitive == [type : PipelineType, x : Int, y : Int, n : Nat, mode : Int, texel : Cells]

Entry == [type : PipelineType, mode : Int, count : Nat]

Areas == [left : Int, right : Int, top : Int, bottom : Int]

\* A record with the fields of the renderer.
Forms(vertices, commands, fbo, tex, cpu, need, busy, area, offset) ==
    [vertices : {vertices}, commands : {commands}, fbo : {fbo}, tex : {tex}, cpu : {cpu},
     need : {need}, busy : {busy}, area : {area}, offset : {offset}]

\* The type of the renderer.
Typed(q) ==
    /\ q \in Forms(q.vertices, q.commands, q.fbo, q.tex, q.cpu, q.need, q.busy, q.area, q.offset)
    /\ q.vertices \in [PipelineType -> Seq(Primitive)]
    /\ q.commands \in Seq(Entry)
    /\ q.area \in Areas /\ q.offset \in Int

\* The start of a batch: nothing of it is drawn.
Undrawn(q) == [fbo |-> q.fbo, drawn |-> [t \in PipelineType |-> 0]]

\* The batch after its first i commands.
Upto(q, i) == DrawnFrom(q, Undrawn(q), SubSeq(q.commands, 1, i))

\* The commands of the batch count every collected primitive.
AllDrawn(q) ==
    \A t \in PipelineType : Upto(q, Len(q.commands)).drawn[t] = Len(q.vertices[t])

LEMMA Prefix ==
    ASSUME NEW E, NEW s \in Seq(E)
    PROVE  /\ SubSeq(s, 1, 0) = << >> /\ SubSeq(s, 1, Len(s)) = s
           /\ \A i \in 0 .. Len(s) - 1 :
                /\ SubSeq(s, 1, i) \in Seq(E)
                /\ SubSeq(s, 1, i + 1) = Append(SubSeq(s, 1, i), s[i + 1])
  OBVIOUS

\* The picture is the framebuffer after the commands of the batch.
LEMMA BatchedIs ==
    ASSUME NEW q, Typed(q)
    PROVE  /\ Image(q) = Upto(q, Len(q.commands)).fbo
           /\ q.commands = << >> => Image(q) = q.fbo
           /\ Upto(q, 0) = Undrawn(q)
           /\ \A i \in 0 .. Len(q.commands) - 1 :
                Upto(q, i + 1) = DrawCommands(q, Upto(q, i), q.commands[i + 1])
<1>0. q.commands \in Seq(Entry) /\ Len(q.commands) \in Nat
  BY DEF Typed
<1>1. SubSeq(q.commands, 1, 0) = << >> /\ SubSeq(q.commands, 1, Len(q.commands)) = q.commands
  BY <1>0, Prefix
<1>2. Image(q) = DrawnFrom(q, Undrawn(q), q.commands).fbo
  BY DEF Image, Batched, DrawnFrom, Undrawn
<1>3. Image(q) = Upto(q, Len(q.commands)).fbo
  BY <1>1, <1>2 DEF Upto
<1>4. Upto(q, 0) = Undrawn(q)
  BY <1>1, DrawnFromNone DEF Upto
<1>5. q.commands = << >> => Image(q) = q.fbo
  <2>1. Undrawn(q).fbo = q.fbo
    BY DEF Undrawn
  <2> QED BY <1>2, <2>1, DrawnFromNone
<1>6. ASSUME NEW i \in 0 .. Len(q.commands) - 1
      PROVE  Upto(q, i + 1) = DrawCommands(q, Upto(q, i), q.commands[i + 1])
  <2>1. /\ SubSeq(q.commands, 1, i) \in Seq(Entry)
        /\ SubSeq(q.commands, 1, i + 1) = Append(SubSeq(q.commands, 1, i), q.commands[i + 1])
    BY <1>0, Prefix
  <2>2. q.commands[i + 1] \in Entry
    BY <1>0
  <2> DEFINE p == SubSeq(q.commands, 1, i)
             k == q.commands[i + 1]
  <2>3. DrawnFrom(q, Undrawn(q), Append(p, k)) = DrawCommands(q, DrawnFrom(q, Undrawn(q), p), k)
    <3>1. p \in Seq(Entry) /\ k \in Entry
      BY <2>1, <2>2
    <3> HIDE DEF p, k
    <3> QED BY <3>1, DrawnFromMore
  <2> QED BY <2>1, <2>3 DEF Upto
<1> QED BY <1>3, <1>4, <1>5, <1>6

\* Which primitives a command draws, and how many.
LEMMA CommandDraws ==
    ASSUME NEW q, NEW s, NEW k
    PROVE  DrawCommands(q, s, k).fbo
                = PieceDrawn(q.tex, q.area, q.offset, k.mode, s.fbo,
                             SubSeq(q.vertices[k.type], s.drawn[k.type] + 1,
                                    s.drawn[k.type] + k.count))
  BY DEF DrawCommands, PieceDrawn

LEMMA CommandCounts ==
    ASSUME NEW q, NEW s, NEW k
    PROVE  DrawCommands(q, s, k).drawn = [s.drawn EXCEPT ![k.type] = @ + k.count]
  BY DEF DrawCommands

LEMMA DrawnCounts ==
    ASSUME NEW q, Typed(q)
    PROVE  \A i \in 0 .. Len(q.commands) : Upto(q, i).drawn \in [PipelineType -> Nat]
<1> DEFINE n == Len(q.commands)
           T == {i \in 0 .. n : Upto(q, i).drawn \notin [PipelineType -> Nat]}
<1> SUFFICES ASSUME T # {} PROVE FALSE
  OBVIOUS
<1>0. n \in Nat /\ q.commands \in Seq(Entry)
  BY DEF Typed
<1>1. PICK i \in T : \A j \in T : i <= j
  <2>1. T \in SUBSET Nat
    BY <1>0
  <2> HIDE DEF T
  <2> QED BY <2>1, SmallestNumber
<1>2. i \in 0 .. n /\ Upto(q, i).drawn \notin [PipelineType -> Nat]
  BY <1>1
<1>3. i # 0
  <2>1. Upto(q, 0).drawn = [t \in PipelineType |-> 0]
    BY BatchedIs DEF Undrawn
  <2> QED BY <1>2, <2>1
<1> DEFINE j == i - 1
           k == q.commands[j + 1]
           b == Upto(q, j).drawn
<1>4. j \in 0 .. n - 1 /\ i = j + 1 /\ j \in 0 .. n /\ ~(i <= j)
  BY <1>0, <1>2, <1>3
<1>5. b \in [PipelineType -> Nat]
  BY <1>1, <1>4
<1>6. k \in Entry
  BY <1>0, <1>4
<1> HIDE DEF T, n
<1>7. Upto(q, j + 1) = DrawCommands(q, Upto(q, j), k)
  BY <1>4, BatchedIs DEF n
<1>8. Upto(q, j + 1).drawn = [b EXCEPT ![k.type] = @ + k.count]
  BY <1>7, CommandCounts
<1> HIDE DEF j, k, b
<1>9. k.type \in PipelineType /\ k.count \in Nat
  BY <1>6 DEF Entry
<1>10. [b EXCEPT ![k.type] = @ + k.count] \in [PipelineType -> Nat]
  BY <1>5, <1>9
<1> QED BY <1>2, <1>4, <1>8, <1>10

LEMMA DrawnStep ==
    ASSUME NEW q, Typed(q), NEW i \in 0 .. Len(q.commands) - 1, NEW t \in PipelineType,
           NEW k, k = q.commands[i + 1]
    PROVE  /\ k \in Entry /\ k.count \in Nat
           /\ Upto(q, i).drawn[t] \in Nat
           /\ Upto(q, i + 1).drawn[t] = Upto(q, i).drawn[t] + (IF k.type = t THEN k.count ELSE 0)
<1> DEFINE b == Upto(q, i).drawn
<1>1. q.commands \in Seq(Entry) /\ i + 1 \in 1 .. Len(q.commands) /\ i \in 0 .. Len(q.commands)
  BY DEF Typed
<1>2. k \in Entry
  BY <1>1
<1>3. k.type \in PipelineType /\ k.count \in Nat
  BY <1>2 DEF Entry
<1>4. b \in [PipelineType -> Nat]
  BY <1>1, DrawnCounts
<1>5. Upto(q, i + 1).drawn = [b EXCEPT ![k.type] = @ + k.count]
  <2>1. Upto(q, i + 1) = DrawCommands(q, Upto(q, i), k)
    BY BatchedIs
  <2>2. \A s, e : DrawCommands(q, s, e).drawn = [s.drawn EXCEPT ![e.type] = @ + e.count]
    BY CommandCounts, ZenonT(20)
  <2> QED BY <2>1, <2>2
<1> HIDE DEF b
<1>6. [b EXCEPT ![k.type] = @ + k.count][t] = b[t] + (IF k.type = t THEN k.count ELSE 0)
  BY <1>3, <1>4
<1> QED BY <1>2, <1>3, <1>4, <1>5, <1>6 DEF b

\* Each command takes its primitives after those of the commands before.
LEMMA DrawnGrows ==
    ASSUME NEW q, Typed(q), NEW t \in PipelineType, NEW i \in 0 .. Len(q.commands)
    PROVE  Upto(q, i).drawn[t] <= Upto(q, Len(q.commands)).drawn[t]
<1> DEFINE n == Len(q.commands)
           T == {d \in 0 .. n : ~(Upto(q, n - d).drawn[t] <= Upto(q, n).drawn[t])}
<1>0. n \in Nat
  BY DEF Typed
<1>a. \A j \in 0 .. n : Upto(q, j).drawn[t] \in Nat
  BY DrawnCounts
<1>1. T = {}
  <2> SUFFICES ASSUME T # {} PROVE FALSE
    OBVIOUS
  <2>1. PICK d \in T : \A j \in T : d <= j
    <3>1. T \in SUBSET Nat
      BY <1>0
    <3> HIDE DEF T
    <3> QED BY <3>1, SmallestNumber
  <2>2. d \in 0 .. n /\ ~(Upto(q, n - d).drawn[t] <= Upto(q, n).drawn[t])
    BY <2>1
  <2>3. d # 0
    <3>1. n \in 0 .. n /\ n - 0 = n
      BY <1>0
    <3>2. Upto(q, n).drawn[t] \in Nat
      BY <1>a, <3>1
    <3>3. d = 0 => Upto(q, n - d).drawn[t] = Upto(q, n).drawn[t]
      BY <3>1
    <3> HIDE DEF n
    <3> QED BY <2>2, <3>2, <3>3
  <2> DEFINE e == n - d
  <2>4. e \in 0 .. n - 1 /\ e + 1 = n - (d - 1) /\ d - 1 \in 0 .. n /\ ~(d <= d - 1)
        /\ e \in 0 .. n /\ e + 1 \in 0 .. n /\ n \in 0 .. n
    BY <1>0, <2>2, <2>3
  <2>5. d - 1 \notin T
    BY <2>1, <2>4
  <2>6. Upto(q, e + 1).drawn[t] <= Upto(q, n).drawn[t]
    BY <2>4, <2>5
  <2> HIDE DEF T
  <2>7. Upto(q, e).drawn[t] <= Upto(q, e + 1).drawn[t]
    <3> HIDE DEF e
    <3>1. PICK k : k = q.commands[e + 1]
      OBVIOUS
    <3>2. /\ k \in Entry /\ k.count \in Nat
          /\ Upto(q, e).drawn[t] \in Nat
          /\ Upto(q, e + 1).drawn[t] = Upto(q, e).drawn[t] + (IF k.type = t THEN k.count ELSE 0)
      BY <2>4, <3>1, DrawnStep
    <3> QED BY <3>2
  <2>8. Upto(q, e).drawn[t] \in Nat /\ Upto(q, e + 1).drawn[t] \in Nat /\ Upto(q, n).drawn[t] \in Nat
    BY <1>a, <2>4
  <2> QED BY <2>2, <2>6, <2>7, <2>8
<1>2. n - i \in 0 .. n /\ n - (n - i) = i
  BY <1>0
<1>3. n - i \notin T
  BY <1>1
<1> QED BY <1>2, <1>3

(***************************************************************************)
(* A batch that grew draws what it drew before.                            *)
(***************************************************************************)
\* What two renderers draw with and on.
SameSettings(q, r) ==
    r.fbo = q.fbo /\ r.tex = q.tex /\ r.area = q.area /\ r.offset = q.offset

LEMMA SameDraw ==
    ASSUME NEW q, Typed(q), NEW r, Typed(r), SameSettings(q, r), NEW s, NEW k \in Entry,
           s.drawn \in [PipelineType -> Nat],
           s.drawn[k.type] + k.count <= Len(q.vertices[k.type]),
           Len(q.vertices[k.type]) <= Len(r.vertices[k.type]),
           \A i \in 1 .. Len(q.vertices[k.type]) : q.vertices[k.type][i] = r.vertices[k.type][i]
    PROVE  DrawCommands(r, s, k) = DrawCommands(q, s, k)
<1> DEFINE u == q.vertices[k.type]
           v == r.vertices[k.type]
           a == s.drawn[k.type] + 1
           b == s.drawn[k.type] + k.count
<1>1. k.type \in PipelineType /\ k.count \in Nat
  BY DEF Entry
<1>2. u \in Seq(Primitive) /\ v \in Seq(Primitive)
  BY <1>1 DEF Typed
<1>3. a \in Nat \ {0} /\ b \in Nat
  BY <1>1
<1>4. b <= Len(u) /\ Len(u) <= Len(v) /\ \A i \in 1 .. Len(u) : u[i] = v[i]
  OBVIOUS
<1> HIDE DEF u, v, a, b
<1>5. SubSeq(u, a, b) = SubSeq(v, a, b)
  <2>1. b <= Len(v)
    BY <1>2, <1>3, <1>4
  <2> DEFINE x == SubSeq(u, a, b)
             y == SubSeq(v, a, b)
             n == IF a <= b THEN b - a + 1 ELSE 0
  <2>2. x \in Seq(Primitive) /\ Len(x) = n /\ \A i \in 1 .. n : x[i] = u[a + i - 1]
    BY <1>2, <1>3, <1>4
  <2>3. y \in Seq(Primitive) /\ Len(y) = n /\ \A i \in 1 .. n : y[i] = v[a + i - 1]
    BY <1>2, <1>3, <2>1
  <2>4. \A i \in 1 .. n : u[a + i - 1] = v[a + i - 1]
    <3> SUFFICES ASSUME NEW i \in 1 .. n PROVE u[a + i - 1] = v[a + i - 1]
      OBVIOUS
    <3>1. a + i - 1 \in 1 .. Len(u)
      BY <1>2, <1>3, <1>4
    <3> QED BY <1>4, <3>1
  <2> HIDE DEF x, y, n
  <2>5. x = y
    BY <2>2, <2>3, <2>4, SeqEqual
  <2> QED BY <2>5 DEF x, y
<1>6. SubSeq(r.vertices[k.type], s.drawn[k.type] + 1, s.drawn[k.type] + k.count)
        = SubSeq(q.vertices[k.type], s.drawn[k.type] + 1, s.drawn[k.type] + k.count)
  BY <1>5 DEF u, v, a, b
<1>7. r.tex = q.tex /\ r.area = q.area /\ r.offset = q.offset
  BY DEF SameSettings
<1>8. DrawCommands(r, s, k).fbo = DrawCommands(q, s, k).fbo
  <2>1. \A z : DrawCommands(z, s, k).fbo
                = PieceDrawn(z.tex, z.area, z.offset, k.mode, s.fbo,
                             SubSeq(z.vertices[k.type], s.drawn[k.type] + 1,
                                    s.drawn[k.type] + k.count))
    BY CommandDraws
  <2> QED BY <1>6, <1>7, <2>1
<1>9. \A z : DrawCommands(z, s, k) = [fbo |-> DrawCommands(z, s, k).fbo,
                                     drawn |-> [s.drawn EXCEPT ![k.type] = @ + k.count]]
  BY DEF DrawCommands
<1> QED BY <1>8, <1>9

\* Vertex buffers to which primitives were appended.
Longer(q, r) ==
    \A t \in PipelineType :
        /\ Len(q.vertices[t]) <= Len(r.vertices[t])
        /\ \A i \in 1 .. Len(q.vertices[t]) : q.vertices[t][i] = r.vertices[t][i]

\* A longer renderer has the primitives of each command where they were.
LEMMA BatchFits ==
    ASSUME NEW q, Typed(q), AllDrawn(q), NEW i \in 0 .. Len(q.commands) - 1
    PROVE  LET k == q.commands[i + 1]
           IN  Upto(q, i).drawn[k.type] + k.count <= Len(q.vertices[k.type])
<1>0. PICK k : k = q.commands[i + 1]
  OBVIOUS
<1>1. q.commands \in Seq(Entry) /\ i + 1 \in 0 .. Len(q.commands) /\ i + 1 \in 1 .. Len(q.commands)
  BY DEF Typed
<1>2. k \in Entry /\ k.type \in PipelineType
  <2>1. k \in Entry
    BY <1>0, <1>1
  <2> QED BY <2>1 DEF Entry
<1>3. Upto(q, i + 1).drawn[k.type] = Upto(q, i).drawn[k.type] + k.count
  BY <1>0, <1>2, DrawnStep
<1>4. Upto(q, i + 1).drawn[k.type] <= Upto(q, Len(q.commands)).drawn[k.type]
  BY <1>1, <1>2, DrawnGrows
<1>5. Upto(q, Len(q.commands)).drawn[k.type] = Len(q.vertices[k.type])
  BY <1>2 DEF AllDrawn
<1> QED BY <1>0, <1>3, <1>4, <1>5

\* A batch begins as before when primitives are appended.
LEMMA BatchExtended ==
    ASSUME NEW q, Typed(q), AllDrawn(q), NEW r, Typed(r), SameSettings(q, r), Longer(q, r),
           NEW m \in Nat, m <= Len(q.commands), m <= Len(r.commands),
           \A i \in 1 .. m : r.commands[i] = q.commands[i]
    PROVE  Upto(r, m) = Upto(q, m)
<1> DEFINE T == {i \in 0 .. m : Upto(r, i) # Upto(q, i)}
<1>0. q.commands \in Seq(Entry) /\ Len(q.commands) \in Nat /\ Len(r.commands) \in Nat
  BY DEF Typed
<1>1. T = {}
  <2> SUFFICES ASSUME T # {} PROVE FALSE
    OBVIOUS
  <2>1. PICK i \in T : \A j \in T : i <= j
    <3>1. T \in SUBSET Nat
      OBVIOUS
    <3> HIDE DEF T
    <3> QED BY <3>1, SmallestNumber
  <2>2. i \in 0 .. m /\ Upto(r, i) # Upto(q, i)
    BY <2>1
  <2>3. i # 0
    <3>1. Upto(q, 0) = Undrawn(q) /\ Upto(r, 0) = Undrawn(r)
      BY BatchedIs
    <3>2. Undrawn(q) = Undrawn(r)
      BY DEF SameSettings, Undrawn
    <3> QED BY <2>2, <3>1, <3>2
  <2>4. PICK j : j = i - 1
    OBVIOUS
  <2>5. /\ j \in 0 .. m /\ i = j + 1 /\ ~(i <= j) /\ j + 1 \in 1 .. m
        /\ j \in 0 .. Len(q.commands) - 1 /\ j \in 0 .. Len(r.commands) - 1
        /\ j + 1 \in 1 .. Len(q.commands) /\ j \in 0 .. Len(q.commands)
    BY <1>0, <2>2, <2>3, <2>4
  <2>6. Upto(r, j) = Upto(q, j)
    BY <2>1, <2>5
  <2> HIDE DEF T
  <2>7. PICK k : k = q.commands[j + 1]
    OBVIOUS
  <2>8. k = r.commands[j + 1]
    BY <2>5, <2>7
  <2>9. k \in Entry
    BY <1>0, <2>5, <2>7
  <2>10. Upto(q, j + 1) = DrawCommands(q, Upto(q, j), k) /\ Upto(r, j + 1) = DrawCommands(r, Upto(r, j), k)
    BY <2>5, <2>7, <2>8, BatchedIs
  <2>11. DrawCommands(r, Upto(q, j), k) = DrawCommands(q, Upto(q, j), k)
    <3>1. Upto(q, j).drawn \in [PipelineType -> Nat]
      BY <2>5, DrawnCounts
    <3>2. Upto(q, j).drawn[k.type] + k.count <= Len(q.vertices[k.type])
      BY <2>5, <2>7, BatchFits
    <3>3. k.type \in PipelineType
      BY <2>9 DEF Entry
    <3>4. /\ Len(q.vertices[k.type]) <= Len(r.vertices[k.type])
          /\ \A x \in 1 .. Len(q.vertices[k.type]) : q.vertices[k.type][x] = r.vertices[k.type][x]
      BY <3>3 DEF Longer
    <3> QED BY <2>9, <3>1, <3>2, <3>4, SameDraw
  <2> QED BY <2>2, <2>5, <2>6, <2>10, <2>11
<1>2. m \in 0 .. m
  OBVIOUS
<1> QED BY <1>1, <1>2

(***************************************************************************)
(* A primitive that joins the last command of the batch or starts a command.*)
(***************************************************************************)
LEMMA LastPiece ==
    ASSUME NEW v \in Seq(Primitive), NEW p \in Primitive, NEW a \in Nat, a <= Len(v)
    PROVE  /\ SubSeq(v, a + 1, Len(v)) \in Seq(Primitive)
           /\ a = Len(v) => SubSeq(v, a + 1, Len(v)) = << >>
           /\ SubSeq(Append(v, p), a + 1, Len(v) + 1) = Append(SubSeq(v, a + 1, Len(v)), p)
<1> DEFINE n == Len(v)
           long == Append(v, p)
           x == SubSeq(long, a + 1, n + 1)
           s == SubSeq(v, a + 1, n)
           y == Append(s, p)
<1>1. n \in Nat /\ long \in Seq(Primitive) /\ Len(long) = n + 1
      /\ (\A i \in 1 .. n : long[i] = v[i]) /\ long[n + 1] = p
  OBVIOUS
<1>2. s \in Seq(Primitive) /\ Len(s) = n - a /\ \A i \in 1 .. n - a : s[i] = v[a + i]
  BY <1>1
<1>3. a = n => s = << >>
  BY <1>2
<1> HIDE DEF n, s
<1>4. y \in Seq(Primitive) /\ Len(y) = (n - a) + 1 /\ (\A i \in 1 .. n - a : y[i] = s[i])
      /\ y[(n - a) + 1] = p
  BY <1>1, <1>2
<1> HIDE DEF long
<1>5. x \in Seq(Primitive) /\ Len(x) = (n - a) + 1 /\ \A i \in 1 .. (n - a) + 1 : x[i] = long[a + i]
  BY <1>1 DEF n
<1> HIDE DEF x, y
<1>6. ASSUME NEW i \in 1 .. (n - a) + 1 PROVE x[i] = y[i]
  <2>1. CASE i \in 1 .. n - a
    <3>1. a + i \in 1 .. n
      BY <1>1, <2>1 DEF n
    <3> QED BY <1>1, <1>2, <1>4, <1>5, <2>1, <3>1
  <2>2. CASE i = (n - a) + 1
    <3>1. a + i = n + 1
      BY <1>1, <2>2
    <3> QED BY <1>1, <1>4, <1>5, <2>2, <3>1
  <2>3. n - a \in Nat
    BY <1>1 DEF n
  <2> QED BY <2>1, <2>2, <2>3
<1>7. x = y
  BY <1>4, <1>5, <1>6, SeqEqual
<1> QED BY <1>2, <1>3, <1>7 DEF n, s, x, y, long

\* A command that draws one primitive more.
LEMMA DrawsOneMore ==
    ASSUME NEW r, NEW s, NEW k, NEW v \in Seq(Primitive), NEW p \in Primitive,
           s.drawn[k.type] \in Nat, s.drawn[k.type] <= Len(v),
           r.vertices[k.type] = Append(v, p), s.drawn[k.type] + k.count = Len(v) + 1
    PROVE  DrawCommands(r, s, k).fbo
             = Rasterised(PieceDrawn(r.tex, r.area, r.offset, k.mode, s.fbo,
                                     SubSeq(v, s.drawn[k.type] + 1, Len(v))),
                          r.tex, r.area, r.offset, p, k.mode)
<1> DEFINE a == s.drawn[k.type]
           piece == SubSeq(v, a + 1, Len(v))
<1>1. piece \in Seq(Primitive) /\ SubSeq(Append(v, p), a + 1, Len(v) + 1) = Append(piece, p)
  BY LastPiece
<1>2. DrawCommands(r, s, k).fbo
        = PieceDrawn(r.tex, r.area, r.offset, k.mode, s.fbo,
                     SubSeq(r.vertices[k.type], s.drawn[k.type] + 1, s.drawn[k.type] + k.count))
  BY CommandDraws
<1>3. DrawCommands(r, s, k).fbo
        = PieceDrawn(r.tex, r.area, r.offset, k.mode, s.fbo, Append(piece, p))
  BY <1>1, <1>2
<1> HIDE DEF piece
<1>4. PieceDrawn(r.tex, r.area, r.offset, k.mode, s.fbo, Append(piece, p))
        = Rasterised(PieceDrawn(r.tex, r.area, r.offset, k.mode, s.fbo, piece),
                     r.tex, r.area, r.offset, p, k.mode)
  BY <1>1, PieceDrawnMore
<1> QED BY <1>3, <1>4 DEF piece

\* r is q with p appended to its vertex buffer.
WithVertex(q, r, p) ==
    /\ Typed(q) /\ AllDrawn(q) /\ p \in Primitive /\ Typed(r) /\ SameSettings(q, r)
    /\ r.vertices = [q.vertices EXCEPT ![p.type] = Append(@, p)]

LEMMA WithVertexFacts ==
    ASSUME NEW q, NEW r, NEW p, WithVertex(q, r, p)
    PROVE  /\ p.type \in PipelineType
           /\ q.vertices[p.type] \in Seq(Primitive)
           /\ r.vertices[p.type] = Append(q.vertices[p.type], p)
           /\ \A t \in PipelineType : t # p.type => r.vertices[t] = q.vertices[t]
           /\ Len(r.vertices[p.type]) = Len(q.vertices[p.type]) + 1
           /\ Longer(q, r)
<1>1. p.type \in PipelineType
  BY DEF WithVertex, Primitive
<1>2. q.vertices \in [PipelineType -> Seq(Primitive)]
  BY DEF WithVertex, Typed
<1> DEFINE v == q.vertices[p.type]
<1>3. v \in Seq(Primitive) /\ p \in Primitive
  BY <1>1, <1>2 DEF WithVertex
<1>4. r.vertices[p.type] = Append(v, p)
  BY <1>1, <1>2 DEF WithVertex
<1>5. \A t \in PipelineType : t # p.type => r.vertices[t] = q.vertices[t]
  BY <1>1, <1>2 DEF WithVertex
<1> HIDE DEF v
<1>6. Len(Append(v, p)) = Len(v) + 1 /\ \A i \in 1 .. Len(v) : Append(v, p)[i] = v[i]
  BY <1>3
<1>7. Len(v) \in Nat /\ Len(v) <= Len(v) + 1
  BY <1>3
<1>8. Longer(q, r)
  <2> SUFFICES ASSUME NEW t \in PipelineType
               PROVE  /\ Len(q.vertices[t]) <= Len(r.vertices[t])
                      /\ \A i \in 1 .. Len(q.vertices[t]) : q.vertices[t][i] = r.vertices[t][i]
    BY DEF Longer
  <2>1. CASE t = p.type
    BY <1>4, <1>6, <1>7, <2>1 DEF v
  <2>2. CASE t # p.type
    <3>1. Len(q.vertices[t]) \in Nat
      BY <1>2
    <3> QED BY <1>5, <2>2, <3>1
  <2> QED BY <2>1, <2>2
<1> QED BY <1>1, <1>3, <1>4, <1>5, <1>6, <1>8 DEF v

\* What the batch draws when p is drawn after it.
Adds(q, r, p) ==
    /\ AllDrawn(r)
    /\ Image(r) = Rasterised(Image(q), q.tex, q.area, q.offset, p, p.mode)

\* r has a command of its own for p, or one more primitive in its last command.
Starts(q, r, p) ==
    r.commands = Append(q.commands, [type |-> p.type, mode |-> p.mode, count |-> 1])

Joins(q, r, p) ==
    LET n == Len(q.commands)
    IN  /\ n > 0 /\ q.commands[n].type = p.type /\ q.commands[n].mode = p.mode
        /\ r.commands = [q.commands EXCEPT ![n].count = @ + 1]

\* A primitive of its own command is painted last.
LEMMA NewCommand ==
    ASSUME NEW q, NEW r, NEW p, WithVertex(q, r, p), Starts(q, r, p)
    PROVE  Adds(q, r, p)
<1> DEFINE n == Len(q.commands)
           k == [type |-> p.type, mode |-> p.mode, count |-> 1]
           v == q.vertices[p.type]
           s == Upto(q, n)
<1>1. /\ Typed(q) /\ AllDrawn(q) /\ p \in Primitive /\ Typed(r) /\ SameSettings(q, r)
      /\ p.type \in PipelineType
      /\ v \in Seq(Primitive) /\ r.vertices[p.type] = Append(v, p)
      /\ \A t \in PipelineType : t # p.type => r.vertices[t] = q.vertices[t]
      /\ Len(r.vertices[p.type]) = Len(v) + 1 /\ Longer(q, r)
  <2>1. Typed(q) /\ AllDrawn(q) /\ p \in Primitive /\ Typed(r) /\ SameSettings(q, r)
    BY DEF WithVertex
  <2> QED BY <2>1, WithVertexFacts
<1>2. k \in Entry /\ k.type = p.type /\ k.mode = p.mode /\ k.count = 1
  BY <1>1 DEF Entry, Primitive
<1>3. q.commands \in Seq(Entry)
  BY <1>1 DEF Typed
<1> HIDE DEF k
<1>4. /\ n \in Nat /\ Len(r.commands) = n + 1 /\ r.commands[n + 1] = k
      /\ \A i \in 1 .. n : r.commands[i] = q.commands[i]
  BY <1>2, <1>3 DEF k, Starts
<1>5. Upto(r, n) = s
  <2>1. n <= Len(q.commands) /\ n <= Len(r.commands) /\ \A i \in 1 .. n : r.commands[i] = q.commands[i]
    BY <1>4
  <2> HIDE DEF n
  <2>2. Upto(r, n) = Upto(q, n)
    BY <1>1, <1>4, <2>1, BatchExtended
  <2> QED BY <2>2
<1>6. Upto(r, n + 1) = DrawCommands(r, s, k)
  <2>1. n \in 0 .. Len(r.commands) - 1
    BY <1>4
  <2> HIDE DEF n, s
  <2> QED BY <1>1, <1>4, <1>5, <2>1, BatchedIs
<1>7. s.drawn \in [PipelineType -> Nat] /\ \A t \in PipelineType : s.drawn[t] = Len(q.vertices[t])
  <2>1. n \in 0 .. n
    BY <1>4
  <2> QED BY <1>1, <2>1, DrawnCounts DEF AllDrawn
<1>8. s.fbo = Image(q) /\ Image(r) = Upto(r, n + 1).fbo
  BY <1>1, <1>4, BatchedIs
<1> HIDE DEF s, n, v
<1>9. Image(r) = Rasterised(Image(q), q.tex, q.area, q.offset, p, p.mode)
  <2>1. s.drawn[k.type] \in Nat /\ s.drawn[k.type] = Len(v) /\ s.drawn[k.type] + k.count = Len(v) + 1
    BY <1>1, <1>2, <1>7 DEF v
  <2>2. s.drawn[k.type] <= Len(v) /\ r.vertices[k.type] = Append(v, p)
    BY <1>1, <1>2, <2>1
  <2>3. DrawCommands(r, s, k).fbo
          = Rasterised(PieceDrawn(r.tex, r.area, r.offset, k.mode, s.fbo,
                                  SubSeq(v, s.drawn[k.type] + 1, Len(v))),
                       r.tex, r.area, r.offset, p, k.mode)
    <3>1. v \in Seq(Primitive) /\ p \in Primitive
      BY <1>1
    <3> QED BY <2>1, <2>2, <3>1, DrawsOneMore
  <2>4. SubSeq(v, s.drawn[k.type] + 1, Len(v)) = << >>
    BY <1>1, <2>1, LastPiece
  <2>5. PieceDrawn(r.tex, r.area, r.offset, k.mode, s.fbo, << >>) = s.fbo
    BY PieceDrawnNone
  <2> QED BY <1>1, <1>2, <1>6, <1>8, <2>3, <2>4, <2>5 DEF SameSettings
<1>10. AllDrawn(r)
  <2> SUFFICES ASSUME NEW t \in PipelineType
               PROVE  Upto(r, n + 1).drawn[t] = Len(r.vertices[t])
    BY <1>4 DEF AllDrawn
  <2>1. n \in 0 .. Len(r.commands) - 1
    BY <1>4
  <2>2. Upto(r, n + 1).drawn[t] = s.drawn[t] + (IF k.type = t THEN k.count ELSE 0)
    BY <1>1, <1>4, <1>5, <2>1, DrawnStep
  <2>3. s.drawn[t] = Len(q.vertices[t]) /\ s.drawn[t] \in Nat
    BY <1>7
  <2>4. CASE t = p.type
    <3>1. Len(r.vertices[t]) = Len(q.vertices[t]) + 1
      BY <1>1, <2>4 DEF v
    <3> QED BY <1>2, <2>2, <2>3, <2>4, <3>1
  <2>5. CASE t # p.type
    <3>1. r.vertices[t] = q.vertices[t]
      BY <1>1, <2>5
    <3>2. k.type # t
      BY <1>2, <2>5
    <3>3. Upto(r, n + 1).drawn[t] = s.drawn[t] + 0
      BY <2>2, <3>2
    <3> QED BY <2>3, <3>1, <3>3
  <2> QED BY <2>4, <2>5
<1> QED BY <1>9, <1>10 DEF Adds

\* So is one that is counted to the last command, whose pipeline and mode it has.
LEMMA JoinedCommand ==
    ASSUME NEW q, NEW r, NEW p, WithVertex(q, r, p), Joins(q, r, p)
    PROVE  Adds(q, r, p)
<1> DEFINE n == Len(q.commands)
           m == n - 1
           v == q.vertices[p.type]
           s == Upto(q, m)
<1>1. /\ Typed(q) /\ AllDrawn(q) /\ p \in Primitive /\ Typed(r) /\ SameSettings(q, r)
      /\ p.type \in PipelineType
      /\ v \in Seq(Primitive) /\ r.vertices[p.type] = Append(v, p)
      /\ \A t \in PipelineType : t # p.type => r.vertices[t] = q.vertices[t]
      /\ Len(r.vertices[p.type]) = Len(v) + 1 /\ Longer(q, r)
  <2>1. Typed(q) /\ AllDrawn(q) /\ p \in Primitive /\ Typed(r) /\ SameSettings(q, r)
    BY DEF WithVertex
  <2> QED BY <2>1, WithVertexFacts
<1>2. q.commands \in Seq(Entry) /\ n \in Nat /\ n \in 1 .. n
  BY <1>1 DEF Typed, Joins
<1>3. PICK k : k = q.commands[n]
  OBVIOUS
<1>4. k \in Entry /\ k.type = p.type /\ k.mode = p.mode
  BY <1>2, <1>3 DEF Joins
<1>5. PICK j : j = [k EXCEPT !.count = @ + 1]
  OBVIOUS
<1>6. j.type = p.type /\ j.mode = p.mode /\ j.count = k.count + 1 /\ k.count \in Nat
  BY <1>4, <1>5 DEF Entry
<1>7. /\ Len(r.commands) = n /\ r.commands[n] = j
      /\ \A i \in 1 .. n : i # n => r.commands[i] = q.commands[i]
  <2>1. r.commands = [q.commands EXCEPT ![n] = j]
    BY <1>3, <1>5 DEF Joins
  <2>2. Len([q.commands EXCEPT ![n] = j]) = n
    <3>1. DOMAIN q.commands = 1 .. n
      BY <1>2
    <3>2. DOMAIN r.commands = 1 .. n
      BY <2>1, <3>1
    <3>3. r.commands \in Seq(Entry)
      BY <1>1 DEF Typed
    <3> QED BY <1>2, <2>1, <3>2, <3>3
  <2> QED BY <1>2, <2>1, <2>2
<1>0. n = Len(q.commands)
  OBVIOUS
<1> HIDE DEF n
<1>8. m \in Nat /\ m + 1 = n /\ m \in 0 .. n - 1 /\ m <= n /\ \A i \in 1 .. m : i \in 1 .. n /\ i # n
  BY <1>2
<1>9. Upto(r, m) = s
  <2>1. \A i \in 1 .. m : r.commands[i] = q.commands[i]
    BY <1>0, <1>7, <1>8
  <2> HIDE DEF m
  <2> QED BY <1>0, <1>1, <1>7, <1>8, <2>1, BatchExtended
<1> HIDE DEF m
<1>10. Upto(r, n) = DrawCommands(r, s, j) /\ Upto(q, n) = DrawCommands(q, s, k)
  <2>1. Upto(r, m + 1) = DrawCommands(r, Upto(r, m), r.commands[m + 1])
    BY <1>0, <1>1, <1>7, <1>8, BatchedIs
  <2>2. Upto(q, m + 1) = DrawCommands(q, Upto(q, m), q.commands[m + 1])
    BY <1>0, <1>1, <1>7, <1>8, BatchedIs
  <2> QED BY <1>3, <1>7, <1>8, <1>9, <2>1, <2>2
<1>11. Upto(q, n).fbo = Image(q) /\ Image(r) = Upto(r, n).fbo
  BY <1>0, <1>1, <1>7, BatchedIs
<1>12. \A t \in PipelineType :
         /\ s.drawn[t] \in Nat
         /\ s.drawn[t] + (IF k.type = t THEN k.count ELSE 0) = Len(q.vertices[t])
         /\ Upto(r, n).drawn[t] = s.drawn[t] + (IF j.type = t THEN j.count ELSE 0)
  <2> SUFFICES ASSUME NEW t \in PipelineType
               PROVE  /\ s.drawn[t] \in Nat
                      /\ s.drawn[t] + (IF k.type = t THEN k.count ELSE 0) = Len(q.vertices[t])
                      /\ Upto(r, n).drawn[t] = s.drawn[t] + (IF j.type = t THEN j.count ELSE 0)
    OBVIOUS
  <2>1. m \in 0 .. Len(q.commands) - 1 /\ m \in 0 .. Len(r.commands) - 1
    BY <1>0, <1>7, <1>8
  <2>2. s.drawn[t] \in Nat
        /\ Upto(q, m + 1).drawn[t] = s.drawn[t] + (IF k.type = t THEN k.count ELSE 0)
    BY <1>0, <1>1, <1>3, <1>8, <2>1, DrawnStep
  <2>3. Upto(r, m + 1).drawn[t] = Upto(r, m).drawn[t] + (IF j.type = t THEN j.count ELSE 0)
    <3>1. j = r.commands[m + 1] /\ Typed(r)
      BY <1>0, <1>1, <1>7, <1>8
    <3> HIDE DEF s
    <3>2. /\ j \in Entry /\ j.count \in Nat
          /\ Upto(r, m).drawn[t] \in Nat
          /\ Upto(r, m + 1).drawn[t] = Upto(r, m).drawn[t] + (IF j.type = t THEN j.count ELSE 0)
      BY <2>1, <3>1, DrawnStep
    <3> QED BY <3>2
  <2>4. Upto(q, n).drawn[t] = Len(q.vertices[t])
    BY <1>0, <1>1 DEF AllDrawn
  <2> QED BY <1>8, <1>9, <2>2, <2>3, <2>4
<1> HIDE DEF s, v
<1>13. Image(r) = Rasterised(Image(q), q.tex, q.area, q.offset, p, p.mode)
  <2> DEFINE a == s.drawn[p.type]
             piece == SubSeq(v, a + 1, Len(v))
  <2>1. a \in Nat /\ a + k.count = Len(v) /\ Len(v) \in Nat
    BY <1>1, <1>4, <1>12 DEF v
  <2>2. a <= Len(v) /\ a + j.count = Len(v) + 1
    BY <1>6, <2>1
  <2>3. DrawCommands(r, s, j).fbo
          = Rasterised(PieceDrawn(r.tex, r.area, r.offset, j.mode, s.fbo,
                                  SubSeq(v, s.drawn[j.type] + 1, Len(v))),
                       r.tex, r.area, r.offset, p, j.mode)
    <3>1. s.drawn[j.type] \in Nat /\ s.drawn[j.type] <= Len(v)
          /\ s.drawn[j.type] + j.count = Len(v) + 1
      BY <1>6, <2>1, <2>2
    <3>2. r.vertices[j.type] = Append(v, p) /\ v \in Seq(Primitive) /\ p \in Primitive
      BY <1>1, <1>6
    <3> QED BY <3>1, <3>2, DrawsOneMore
  <2>4. DrawCommands(q, s, k).fbo
          = PieceDrawn(q.tex, q.area, q.offset, k.mode, s.fbo,
                       SubSeq(q.vertices[k.type], s.drawn[k.type] + 1, s.drawn[k.type] + k.count))
    BY CommandDraws
  <2>5. DrawCommands(q, s, k).fbo = PieceDrawn(q.tex, q.area, q.offset, p.mode, s.fbo, piece)
    BY <1>4, <2>1, <2>4 DEF v
  <2>6. DrawCommands(r, s, j).fbo
          = Rasterised(PieceDrawn(q.tex, q.area, q.offset, p.mode, s.fbo, piece),
                       q.tex, q.area, q.offset, p, p.mode)
    BY <1>1, <1>6, <2>3 DEF SameSettings
  <2> QED BY <1>10, <1>11, <2>5, <2>6
<1>14. AllDrawn(r)
  <2> SUFFICES ASSUME NEW t \in PipelineType
               PROVE  Upto(r, n).drawn[t] = Len(r.vertices[t])
    BY <1>0, <1>7 DEF AllDrawn
  <2>0. /\ s.drawn[t] \in Nat
        /\ s.drawn[t] + (IF k.type = t THEN k.count ELSE 0) = Len(q.vertices[t])
        /\ Upto(r, n).drawn[t] = s.drawn[t] + (IF j.type = t THEN j.count ELSE 0)
    BY <1>12
  <2>1. CASE t = p.type
    <3>1. Len(r.vertices[t]) = Len(q.vertices[t]) + 1
      BY <1>1, <2>1 DEF v
    <3>2. k.type = t /\ j.type = t
      BY <1>4, <1>6, <2>1
    <3>3. s.drawn[t] + k.count = Len(q.vertices[t]) /\ Upto(r, n).drawn[t] = s.drawn[t] + j.count
      BY <2>0, <3>2
    <3>4. \A a, c \in Nat : a + (c + 1) = (a + c) + 1
      OBVIOUS
    <3>5. s.drawn[t] \in Nat /\ k.count \in Nat /\ j.count = k.count + 1
      BY <1>6, <2>0
    <3>6. s.drawn[t] + (k.count + 1) = (s.drawn[t] + k.count) + 1
      BY <3>4, <3>5
    <3> QED BY <2>1, <3>1, <3>3, <3>5, <3>6, Zenon
  <2>2. CASE t # p.type
    <3>1. r.vertices[t] = q.vertices[t]
      BY <1>1, <2>2
    <3>2. k.type # t /\ j.type # t
      BY <1>4, <1>6, <2>2
    <3>3. s.drawn[t] + 0 = Len(q.vertices[t]) /\ Upto(r, n).drawn[t] = s.drawn[t] + 0
      BY <2>0, <3>2
    <3> QED BY <3>1, <3>3
  <2> QED BY <2>1, <2>2
<1> QED BY <1>13, <1>14 DEF Adds

(***************************************************************************)
(* The renderer's invariant, and the operations that draw and synchronise. *)
(***************************************************************************)
\* The fields of a typed renderer.
Parts(r, v, c, f, t, m, d, b, a, o) ==
    /\ r.vertices = v /\ r.commands = c /\ r.fbo = f /\ r.tex = t /\ r.cpu = m
    /\ r.need = d /\ r.busy = b /\ r.area = a /\ r.offset = o
    /\ Typed(r)

LEMMA FormFields ==
    ASSUME NEW v \in [PipelineType -> Seq(Primitive)], NEW c \in Seq(Entry), NEW f, NEW t, NEW m,
           NEW d, NEW b, NEW a \in Areas, NEW o \in Int,
           NEW r \in Forms(v, c, f, t, m, d, b, a, o)
    PROVE  Parts(r, v, c, f, t, m, d, b, a, o)
<1>1. /\ r.vertices = v /\ r.commands = c /\ r.fbo = f /\ r.tex = t /\ r.cpu = m
      /\ r.need = d /\ r.busy = b /\ r.area = a /\ r.offset = o
  BY DEF Forms
<1> QED BY <1>1, Zenon DEF Typed, Parts

\* A function that gives each pixel something.
IsImage(f) == f = [p \in Cells |-> f[p]]

\* The renderer's invariant: each command of the batch has its primitives, and
\* when nothing is due the texture is what was drawn.
Sound(q) ==
    /\ Typed(q) /\ AllDrawn(q)
    /\ q.need \in BOOLEAN /\ q.busy \in BOOLEAN
    /\ IsImage(Image(q)) /\ IsImage(q.cpu)
    /\ ~q.need /\ ~q.busy => q.tex = q.fbo

\* r shows what q shows.
Same(q, r) ==
    /\ Sound(r) /\ Image(r) = Image(q)
    /\ r.area = q.area /\ r.offset = q.offset /\ r.cpu = q.cpu

\* Nothing is collected, given out or due.
Clean(q) == q.commands = << >> /\ ~q.busy /\ ~q.need

LEMMA CleanTexture ==
    ASSUME NEW q, Sound(q), Clean(q)
    PROVE  q.tex = Image(q) /\ q.fbo = Image(q)
<1>1. Typed(q) /\ q.commands = << >> /\ q.tex = q.fbo
  BY Zenon DEF Sound, Clean
<1> QED BY <1>1, BatchedIs

\* An empty batch.
LEMMA NothingCollected ==
    ASSUME NEW q, Typed(q), q.commands = << >>
    PROVE  /\ Image(q) = q.fbo
           /\ AllDrawn(q) <=> q.vertices = [t \in PipelineType |-> << >>]
<1>1. Image(q) = q.fbo
  BY BatchedIs
<1>2. Upto(q, 0) = Undrawn(q)
  BY BatchedIs
<1>3. Len(q.commands) = 0
  OBVIOUS
<1>4. \A t \in PipelineType : Upto(q, Len(q.commands)).drawn[t] = 0
  BY <1>2, <1>3 DEF Undrawn
<1>5. AllDrawn(q) <=> \A t \in PipelineType : Len(q.vertices[t]) = 0
  BY <1>4 DEF AllDrawn
<1>6. q.vertices \in [PipelineType -> Seq(Primitive)]
  BY DEF Typed
<1>7. (\A t \in PipelineType : Len(q.vertices[t]) = 0)
        <=> q.vertices = [t \in PipelineType |-> << >>]
  <2>1. ASSUME \A t \in PipelineType : Len(q.vertices[t]) = 0
        PROVE  q.vertices = [t \in PipelineType |-> << >>]
    <3>1. \A t \in PipelineType : q.vertices[t] = << >>
      BY <1>6, <2>1
    <3> QED BY <1>6, <3>1
  <2>2. ASSUME q.vertices = [t \in PipelineType |-> << >>]
        PROVE  \A t \in PipelineType : Len(q.vertices[t]) = 0
    <3>1. \A t \in PipelineType : q.vertices[t] = << >>
      BY <2>2
    <3> QED BY <3>1
  <2> QED BY <2>1, <2>2
<1> QED BY <1>1, <1>5, <1>7

\* A renderer of which one part differs.
LEMMA SetFields ==
    ASSUME NEW q, Typed(q), NEW f, NEW t, NEW m, NEW d, NEW b
    PROVE  /\ [q EXCEPT !.tex = t, !.need = d]
                \in Forms(q.vertices, q.commands, q.fbo, t, q.cpu, d, q.busy, q.area, q.offset)
           /\ [q EXCEPT !.busy = b, !.need = d]
                \in Forms(q.vertices, q.commands, q.fbo, q.tex, q.cpu, d, b, q.area, q.offset)
           /\ [q EXCEPT !.need = d, !.fbo = f]
                \in Forms(q.vertices, q.commands, f, q.tex, q.cpu, d, q.busy, q.area, q.offset)
           /\ [q EXCEPT !.busy = b, !.fbo = f]
                \in Forms(q.vertices, q.commands, f, q.tex, q.cpu, q.need, b, q.area, q.offset)
           /\ [q EXCEPT !.cpu = m]
                \in Forms(q.vertices, q.commands, q.fbo, q.tex, m, q.need, q.busy, q.area, q.offset)
<1>1. q \in Forms(q.vertices, q.commands, q.fbo, q.tex, q.cpu, q.need, q.busy, q.area, q.offset)
  BY DEF Typed
<1> QED BY <1>1 DEF Forms

LEMMA SetBatch ==
    ASSUME NEW q, Typed(q), NEW f, NEW v, NEW c, NEW b, NEW a, NEW o
    PROVE  /\ [q EXCEPT !.fbo = f, !.commands = c, !.vertices = v, !.busy = b]
                \in Forms(v, c, f, q.tex, q.cpu, q.need, b, q.area, q.offset)
           /\ [q EXCEPT !.vertices = v]
                \in Forms(v, q.commands, q.fbo, q.tex, q.cpu, q.need, q.busy, q.area, q.offset)
           /\ [q EXCEPT !.commands = c]
                \in Forms(q.vertices, c, q.fbo, q.tex, q.cpu, q.need, q.busy, q.area, q.offset)
           /\ [q EXCEPT !.area = a]
                \in Forms(q.vertices, q.commands, q.fbo, q.tex, q.cpu, q.need, q.busy, a, q.offset)
           /\ [q EXCEPT !.offset = o]
                \in Forms(q.vertices, q.commands, q.fbo, q.tex, q.cpu, q.need, q.busy, q.area, o)
<1>1. q \in Forms(q.vertices, q.commands, q.fbo, q.tex, q.cpu, q.need, q.busy, q.area, q.offset)
  BY DEF Typed
<1> QED BY <1>1 DEF Forms

\* What a renderer shows depends on the rest only.
LEMMA SameBatch ==
    ASSUME NEW q, NEW r, r.vertices = q.vertices, r.commands = q.commands, r.fbo = q.fbo,
           r.tex = q.tex, r.area = q.area, r.offset = q.offset, Typed(q), Typed(r), AllDrawn(q)
    PROVE  Image(r) = Image(q) /\ AllDrawn(r)
<1> DEFINE n == Len(q.commands)
<1>1. n \in Nat /\ n <= Len(q.commands) /\ n <= Len(r.commands)
      /\ \A i \in 1 .. n : r.commands[i] = q.commands[i]
  BY DEF Typed
<1>2. Upto(r, n) = Upto(q, n)
  <2>1. SameSettings(q, r)
    BY DEF SameSettings
  <2>2. Longer(q, r)
    <3>1. q.vertices \in [PipelineType -> Seq(Primitive)]
      BY DEF Typed
    <3> QED BY <3>1 DEF Longer
  <2> HIDE DEF n
  <2> QED BY <1>1, <2>1, <2>2, BatchExtended
<1>3. Image(r) = Image(q)
  BY <1>2, BatchedIs
<1> QED BY <1>2, <1>3 DEF AllDrawn

\* Drawing the batch, the fence and the copy to the texture keep the picture.
LEMMA DrawBatchKeeps ==
    ASSUME NEW q, Sound(q)
    PROVE  LET r == DrawBatch(q)
           IN  /\ Same(q, r) /\ r.commands = << >> /\ r.tex = q.tex /\ r.need = q.need
               /\ q.commands = << >> => r = q
<1> DEFINE r == DrawBatch(q)
<1>0. Typed(q) /\ AllDrawn(q) /\ q.need \in BOOLEAN /\ IsImage(Image(q)) /\ IsImage(q.cpu)
  BY Zenon DEF Sound
<1>1. CASE q.commands = << >>
  BY <1>1 DEF DrawBatch, Same
<1>2. CASE q.commands # << >>
  <2> DEFINE v == [t \in PipelineType |-> << >>]
             f == Batched(q)
  <2>1. r = [q EXCEPT !.fbo = f, !.commands = << >>, !.vertices = v, !.busy = TRUE]
    BY <1>2 DEF DrawBatch
  <2>2. v \in [PipelineType -> Seq(Primitive)] /\ << >> \in Seq(Entry)
    OBVIOUS
  <2>3. q.area \in Areas /\ q.offset \in Int
    BY <1>0 DEF Typed
  <2>4. f = Image(q)
    BY DEF Image
  <2> HIDE DEF r, v, f
  <2>5. r \in Forms(v, << >>, f, q.tex, q.cpu, q.need, TRUE, q.area, q.offset)
    BY <1>0, <2>1, SetBatch, ZenonT(20)
  <2>6. /\ r.vertices = v /\ r.commands = << >> /\ r.fbo = f /\ r.tex = q.tex /\ r.cpu = q.cpu
        /\ r.need = q.need /\ r.busy = TRUE /\ r.area = q.area /\ r.offset = q.offset
        /\ Typed(r)
    <3>1. Parts(r, v, << >>, f, q.tex, q.cpu, q.need, TRUE, q.area, q.offset)
      BY <2>2, <2>3, <2>5, FormFields, Zenon
    <3> QED BY <3>1, Zenon DEF Parts
  <2>7. Image(r) = f /\ AllDrawn(r)
    BY <2>6, NothingCollected DEF v
  <2>8. Sound(r)
    BY <1>0, <2>4, <2>6, <2>7, Zenon DEF Sound
  <2> QED BY <1>2, <2>4, <2>6, <2>7, <2>8, Zenon DEF Same, r
<1> QED BY <1>1, <1>2

LEMMA FenceKeeps ==
    ASSUME NEW q, Sound(q)
    PROVE  LET r == CommandFenceSync(q)
           IN  /\ Same(q, r) /\ r.commands = q.commands /\ r.tex = q.tex /\ ~r.busy
               /\ r.fbo = q.fbo
<1> DEFINE r == CommandFenceSync(q)
<1>0. Typed(q) /\ AllDrawn(q) /\ q.need \in BOOLEAN /\ IsImage(Image(q)) /\ IsImage(q.cpu)
  BY Zenon DEF Sound
<1>1. CASE ~q.busy
  <2>1. r = q
    BY <1>1, Zenon DEF CommandFenceSync
  <2> QED BY <1>1, <2>1, Zenon DEF Same
<1>2. CASE q.busy
  <2>1. r = [q EXCEPT !.busy = FALSE, !.need = TRUE]
    BY <1>2, Zenon DEF CommandFenceSync
  <2>2. q.vertices \in [PipelineType -> Seq(Primitive)] /\ q.commands \in Seq(Entry)
        /\ q.area \in Areas /\ q.offset \in Int
    BY <1>0 DEF Typed
  <2> HIDE DEF r
  <2>3. r \in Forms(q.vertices, q.commands, q.fbo, q.tex, q.cpu, TRUE, FALSE, q.area, q.offset)
    BY <1>0, <2>1, SetFields, ZenonT(20)
  <2>4. /\ r.vertices = q.vertices /\ r.commands = q.commands /\ r.fbo = q.fbo /\ r.tex = q.tex
        /\ r.cpu = q.cpu /\ r.need = TRUE /\ r.busy = FALSE /\ r.area = q.area
        /\ r.offset = q.offset /\ Typed(r)
    <3>1. Parts(r, q.vertices, q.commands, q.fbo, q.tex, q.cpu, TRUE, FALSE, q.area,
                q.offset)
      BY <2>2, <2>3, FormFields, Zenon
    <3> QED BY <3>1, Zenon DEF Parts
  <2>5. Image(r) = Image(q) /\ AllDrawn(r)
    BY <1>0, <2>4, SameBatch
  <2>6. Sound(r)
    BY <1>0, <2>4, <2>5, Zenon DEF Sound
  <2> QED BY <2>4, <2>5, <2>6, Zenon DEF Same, r
<1>3. q.busy \in BOOLEAN
  BY Zenon DEF Sound
<1> QED BY <1>1, <1>2, <1>3, Zenon

LEMMA SyncKeeps ==
    ASSUME NEW q, Sound(q), ~q.busy, q.commands = << >>
    PROVE  LET r == SyncTextures(q)
           IN  Same(q, r) /\ Clean(r)
<1> DEFINE r == SyncTextures(q)
<1>0. Typed(q) /\ AllDrawn(q) /\ q.need \in BOOLEAN /\ IsImage(Image(q)) /\ IsImage(q.cpu)
  BY Zenon DEF Sound
<1>1. CASE ~q.need
  <2>1. r = q
    BY <1>1, Zenon DEF SyncTextures
  <2> QED BY <1>1, <2>1, Zenon DEF Same, Clean
<1>2. CASE q.need
  <2>1. r = [q EXCEPT !.tex = q.fbo, !.need = FALSE]
    BY <1>2, Zenon DEF SyncTextures
  <2>2. q.vertices \in [PipelineType -> Seq(Primitive)] /\ q.commands \in Seq(Entry)
        /\ q.area \in Areas /\ q.offset \in Int
    BY <1>0 DEF Typed
  <2> HIDE DEF r
  <2>3. r \in Forms(q.vertices, q.commands, q.fbo, q.fbo, q.cpu, FALSE, q.busy, q.area, q.offset)
    BY <1>0, <2>1, SetFields, ZenonT(20)
  <2>4. /\ r.vertices = q.vertices /\ r.commands = q.commands /\ r.fbo = q.fbo /\ r.tex = q.fbo
        /\ r.cpu = q.cpu /\ r.need = FALSE /\ r.busy = q.busy /\ r.area = q.area
        /\ r.offset = q.offset /\ Typed(r)
    <3>1. Parts(r, q.vertices, q.commands, q.fbo, q.fbo, q.cpu, FALSE, q.busy, q.area,
                q.offset)
      BY <2>2, <2>3, FormFields, Zenon
    <3> QED BY <3>1, Zenon DEF Parts
  <2>5. Image(r) = Image(q) /\ AllDrawn(r)
    <3>1. Image(q) = q.fbo /\ q.vertices = [t \in PipelineType |-> << >>]
      BY <1>0, NothingCollected
    <3>2. Image(r) = r.fbo /\ AllDrawn(r)
      BY <2>4, <3>1, NothingCollected
    <3> QED BY <2>4, <3>1, <3>2
  <2>6. Sound(r)
    <3>1. r.busy \in BOOLEAN
      BY <2>4, Zenon DEF Sound
    <3> QED BY <1>0, <2>4, <2>5, <3>1, Zenon DEF Sound
  <2> QED BY <2>4, <2>5, <2>6, Zenon DEF Same, Clean, r
<1> QED BY <1>0, <1>1, <1>2, Zenon

LEMMA FlushKeeps ==
    ASSUME NEW q, Sound(q)
    PROVE  LET r == FlushCommands(q)
           IN  Same(q, r) /\ r.commands = << >> /\ r.tex = q.tex /\ ~r.busy
<1> DEFINE d == DrawBatch(q)
           r == FlushCommands(q)
<1>1. Same(q, d) /\ d.commands = << >> /\ d.tex = q.tex
  BY DrawBatchKeeps
<1>2. r = CommandFenceSync(d)
  BY DEF FlushCommands
<1>3. Sound(d)
  BY <1>1 DEF Same
<1> HIDE DEF d
<1>4. Same(d, CommandFenceSync(d)) /\ CommandFenceSync(d).commands = d.commands
      /\ CommandFenceSync(d).tex = d.tex /\ ~CommandFenceSync(d).busy
  BY <1>3, FenceKeeps, Zenon
<1> QED BY <1>1, <1>2, <1>4, Zenon DEF Same

\* After it the texture is what is shown.
LEMMA CleanedKeeps ==
    ASSUME NEW q, Sound(q)
    PROVE  LET r == SyncTextures(FlushCommands(q))
           IN  Same(q, r) /\ Clean(r)
<1> DEFINE f == FlushCommands(q)
           r == SyncTextures(f)
<1>1. Same(q, f) /\ f.commands = << >> /\ ~f.busy
  BY FlushKeeps
<1>2. Sound(f)
  BY <1>1, Zenon DEF Same
<1> HIDE DEF f
<1>3. Same(f, r) /\ Clean(r)
  BY <1>1, <1>2, SyncKeeps, Zenon
<1> QED BY <1>1, <1>3, Zenon DEF Same, f

(***************************************************************************)
(* Collecting the primitives of a command.                                 *)
(***************************************************************************)
\* r is q after it has become image.
Becomes(q, r, image) ==
    /\ Sound(r) /\ Image(r) = image
    /\ r.area = q.area /\ r.offset = q.offset /\ r.cpu = q.cpu

LEMMA RasterisedImage ==
    ASSUME NEW f, IsImage(f), NEW tex, NEW area, NEW offset, NEW p, NEW mode
    PROVE  IsImage(Rasterised(f, tex, area, offset, p, mode))
<1>1. f = [x \in Cells |-> f[x]]
  BY DEF IsImage
<1>2. \A v : \A cell \in Cells : IsImage([f EXCEPT ![cell] = v])
  BY <1>1 DEF IsImage
<1> QED BY <1>2 DEF Rasterised

\* AppendCommand and DrawPrimitive add a primitive to the picture.
LEMMA AppendCommandAdds ==
    ASSUME NEW q, NEW a, NEW p, WithVertex(q, a, p), a.commands = q.commands
    PROVE  LET r == AppendCommand(a, p)
           IN  \E c \in Seq(Entry) :
                  /\ r \in Forms(a.vertices, c, a.fbo, a.tex, a.cpu, a.need, a.busy, a.area, a.offset)
                  /\ WithVertex(q, r, p) /\ r.commands = c
                  /\ Starts(q, r, p) \/ Joins(q, r, p)
<1> DEFINE n == Len(a.commands)
           r == AppendCommand(a, p)
           joins == n > 0 /\ a.commands[n].type = p.type /\ a.commands[n].mode = p.mode
           started == Append(a.commands, [type |-> p.type, mode |-> p.mode, count |-> 1])
           joined == [a.commands EXCEPT ![n].count = @ + 1]
           c == IF joins THEN joined ELSE started
<1>1. Typed(q) /\ AllDrawn(q) /\ p \in Primitive /\ Typed(a) /\ SameSettings(q, a)
      /\ a.vertices = [q.vertices EXCEPT ![p.type] = Append(@, p)]
  BY DEF WithVertex
<1>2. a.commands \in Seq(Entry) /\ a.vertices \in [PipelineType -> Seq(Primitive)]
      /\ a.area \in Areas /\ a.offset \in Int
  BY <1>1 DEF Typed
<1>3. started \in Seq(Entry)
  BY <1>1, <1>2 DEF Entry, Primitive
<1>4. joins => joined \in Seq(Entry)
  <2> SUFFICES ASSUME joins PROVE joined \in Seq(Entry)
    OBVIOUS
  <2>1. n \in 1 .. n /\ a.commands[n] \in Entry
    BY <1>2
  <2>2. [a.commands[n] EXCEPT !.count = @ + 1] \in Entry
    BY <2>1 DEF Entry
  <2>3. PICK e \in Entry : e = [a.commands[n] EXCEPT !.count = @ + 1]
    BY <2>2
  <2>4. joined = [a.commands EXCEPT ![n] = e]
    BY <2>3
  <2> HIDE DEF joined
  <2>5. \A u \in Seq(Entry) : \A i \in 1 .. Len(u) : [u EXCEPT ![i] = e] \in Seq(Entry)
    OBVIOUS
  <2> QED BY <1>2, <2>1, <2>4, <2>5
<1>5. c \in Seq(Entry)
  BY <1>3, <1>4
<1>6. r = [a EXCEPT !.commands = c]
  <2>1. CASE joins
    <3>1. r = [a EXCEPT !.commands[n].count = @ + 1]
      BY <2>1 DEF AppendCommand
    <3> QED BY <2>1, <3>1
  <2>2. CASE ~joins
    <3>1. r = [a EXCEPT !.commands = Append(@, [type |-> p.type, mode |-> p.mode, count |-> 1])]
      BY <2>2 DEF AppendCommand
    <3> QED BY <2>2, <3>1
  <2> QED BY <2>1, <2>2
<1>7. (joins => c = joined) /\ (~joins => c = started)
  OBVIOUS
<1> HIDE DEF c, r
<1>8. r \in Forms(a.vertices, c, a.fbo, a.tex, a.cpu, a.need, a.busy, a.area, a.offset)
  BY <1>1, <1>6, SetBatch, ZenonT(20)
<1>9. Parts(r, a.vertices, c, a.fbo, a.tex, a.cpu, a.need, a.busy, a.area, a.offset)
  BY <1>2, <1>5, <1>8, FormFields, Zenon
<1>10. r.vertices = a.vertices /\ r.commands = c /\ r.fbo = a.fbo /\ r.tex = a.tex
       /\ r.area = a.area /\ r.offset = a.offset /\ Typed(r)
  BY <1>9, Zenon DEF Parts
<1>11. WithVertex(q, r, p)
  BY <1>1, <1>10, Zenon DEF WithVertex, SameSettings
<1>12. Starts(q, r, p) \/ Joins(q, r, p)
  <2>1. CASE joins
    BY <1>7, <1>10, <2>1 DEF Joins
  <2>2. CASE ~joins
    BY <1>7, <1>10, <2>2 DEF Starts
  <2> QED BY <2>1, <2>2
<1> QED BY <1>5, <1>8, <1>10, <1>11, <1>12, Zenon DEF r

LEMMA DrawPrimitiveAdds ==
    ASSUME NEW q, Sound(q), NEW p \in Primitive
    PROVE  LET r == DrawPrimitive(q, p)
           IN  /\ Becomes(q, r, Rasterised(Image(q), q.tex, q.area, q.offset, p, p.mode))
               /\ r.tex = q.tex
<1> DEFINE room == IF Len(q.vertices[p.type]) >= MAX_PRIMITIVES THEN FlushCommands(q) ELSE q
           v == [room.vertices EXCEPT ![p.type] = Append(@, p)]
           a == [room EXCEPT !.vertices = v]
           r == AppendCommand(a, p)
<1>1. DrawPrimitive(q, p) = r
  <2>1. a = [room EXCEPT !.vertices[p.type] = Append(@, p)]
    OBVIOUS
  <2> HIDE DEF a
  <2> QED BY <2>1 DEF DrawPrimitive
<1>2. Same(q, room) /\ room.tex = q.tex
  <2>1. CASE Len(q.vertices[p.type]) >= MAX_PRIMITIVES
    <3>1. room = FlushCommands(q)
      BY <2>1
    <3> HIDE DEF room
    <3> QED BY <3>1, FlushKeeps, Zenon
  <2>2. CASE ~(Len(q.vertices[p.type]) >= MAX_PRIMITIVES)
    <3>1. room = q
      BY <2>2
    <3> HIDE DEF room
    <3> QED BY <3>1, Zenon DEF Same
  <2> QED BY <2>1, <2>2
<1> HIDE DEF room
<1>3. Sound(room) /\ Image(room) = Image(q)
      /\ room.area = q.area /\ room.offset = q.offset /\ room.cpu = q.cpu
  BY <1>2, Zenon DEF Same
<1>4. Typed(room) /\ AllDrawn(room) /\ room.need \in BOOLEAN /\ room.busy \in BOOLEAN
      /\ IsImage(Image(room)) /\ IsImage(room.cpu)
      /\ (~room.need /\ ~room.busy => room.tex = room.fbo)
  BY <1>3, Zenon DEF Sound
<1>5. room.vertices \in [PipelineType -> Seq(Primitive)] /\ room.commands \in Seq(Entry)
      /\ room.area \in Areas /\ room.offset \in Int
  BY <1>4 DEF Typed
<1>6. v \in [PipelineType -> Seq(Primitive)]
  <2>1. p.type \in PipelineType
    BY DEF Primitive
  <2> QED BY <1>5, <2>1
<1> HIDE DEF v
<1>7. a \in Forms(v, room.commands, room.fbo, room.tex, room.cpu, room.need, room.busy, room.area,
                  room.offset)
  BY <1>4, SetBatch, ZenonT(20)
<1> HIDE DEF a
<1>8. Parts(a, v, room.commands, room.fbo, room.tex, room.cpu, room.need, room.busy, room.area,
            room.offset)
  BY <1>5, <1>6, <1>7, FormFields, Zenon
<1>9. /\ a.vertices = v /\ a.commands = room.commands /\ a.fbo = room.fbo /\ a.tex = room.tex
      /\ a.cpu = room.cpu /\ a.need = room.need /\ a.busy = room.busy /\ a.area = room.area
      /\ a.offset = room.offset /\ Typed(a)
  BY <1>8, Zenon DEF Parts
<1>10. WithVertex(room, a, p)
  BY <1>4, <1>9, Zenon DEF WithVertex, SameSettings, v
<1>11. PICK c \in Seq(Entry) :
          /\ r \in Forms(a.vertices, c, a.fbo, a.tex, a.cpu, a.need, a.busy, a.area, a.offset)
          /\ WithVertex(room, r, p) /\ r.commands = c
          /\ Starts(room, r, p) \/ Joins(room, r, p)
  BY <1>9, <1>10, AppendCommandAdds, Zenon
<1> HIDE DEF r
<1>12. Parts(r, v, c, room.fbo, room.tex, room.cpu, room.need, room.busy, room.area, room.offset)
  BY <1>5, <1>6, <1>9, <1>11, FormFields, Zenon
<1>13. /\ r.fbo = room.fbo /\ r.tex = room.tex /\ r.cpu = room.cpu /\ r.need = room.need
       /\ r.busy = room.busy /\ r.area = room.area /\ r.offset = room.offset /\ Typed(r)
  BY <1>12, Zenon DEF Parts
<1>14. Adds(room, r, p)
  BY <1>11, NewCommand, JoinedCommand, Zenon
<1>15. AllDrawn(r)
       /\ Image(r) = Rasterised(Image(room), room.tex, room.area, room.offset, p, p.mode)
  BY <1>14, Zenon DEF Adds
<1>16. IsImage(Image(r))
  BY <1>4, <1>15, RasterisedImage, Zenon
<1>17. Sound(r)
  BY <1>4, <1>13, <1>15, <1>16, Zenon DEF Sound
<1>18. Image(r) = Rasterised(Image(q), q.tex, q.area, q.offset, p, p.mode)
  BY <1>2, <1>3, <1>15, Zenon
<1> QED BY <1>1, <1>2, <1>3, <1>13, <1>17, <1>18, Zenon DEF Becomes

\* Primitives collected one after the other are painted one after the other.
LEMMA CollectedKeeps ==
    ASSUME NEW q, Sound(q), NEW prims \in Seq(Primitive), NEW now,
           (\A i \in 1 .. Len(prims) : prims[i].type # "TEXTURED_TRIANGLE") \/ now = q.tex
    PROVE  LET r == Collected(q, prims)
           IN  /\ Becomes(q, r, PaintedOn(now, q.area, q.offset, Image(q), prims))
               /\ r.tex = q.tex
<1> DEFINE n == Len(prims)
           C(i) == Collected(q, SubSeq(prims, 1, i))
           I(i) == PaintedOn(now, q.area, q.offset, Image(q), SubSeq(prims, 1, i))
           Fine(i) == Becomes(q, C(i), I(i)) /\ C(i).tex = q.tex
           T == {i \in 0 .. n : ~Fine(i)}
<1>0. n \in Nat /\ SubSeq(prims, 1, 0) = << >> /\ SubSeq(prims, 1, n) = prims
  BY Prefix
<1>1. Fine(0)
  <2>1. C(0) = q
    BY <1>0, CollectedNone
  <2>2. I(0) = Image(q)
    <3>1. I(0) = PaintedOn(now, q.area, q.offset, Image(q), << >>)
      BY <1>0
    <3>2. \A x, y, z, u : PaintedOn(x, y, z, u, << >>) = u
      BY PaintedOnNone, Zenon
    <3> HIDE DEF I
    <3> QED BY <3>1, <3>2
  <2> HIDE DEF C, I
  <2> QED BY <2>1, <2>2, Zenon DEF Becomes
<1>2. ASSUME NEW i \in 0 .. n - 1, Fine(i) PROVE Fine(i + 1)
  <2> DEFINE p == prims[i + 1]
  <2>1. SubSeq(prims, 1, i) \in Seq(Primitive) /\ p \in Primitive
        /\ SubSeq(prims, 1, i + 1) = Append(SubSeq(prims, 1, i), p)
    BY <1>0, Prefix
  <2> HIDE DEF p
  <2> DEFINE some == SubSeq(prims, 1, i)
  <2>a. some \in Seq(Primitive) /\ SubSeq(prims, 1, i + 1) = Append(some, p)
    BY <2>1
  <2>2. C(i + 1) = DrawPrimitive(C(i), p)
    <3>1. C(i + 1) = Collected(q, Append(some, p)) /\ C(i) = Collected(q, some)
      BY <2>a
    <3> HIDE DEF C, some
    <3>2. Collected(q, Append(some, p)) = DrawPrimitive(Collected(q, some), p)
      BY <2>a, <2>1, CollectedMore, ZenonT(30)
    <3> QED BY <3>1, <3>2
  <2>3. I(i + 1) = Rasterised(I(i), now, q.area, q.offset, p, p.mode)
    <3>1. /\ I(i + 1) = PaintedOn(now, q.area, q.offset, Image(q), Append(some, p))
          /\ I(i) = PaintedOn(now, q.area, q.offset, Image(q), some)
      BY <2>a
    <3> HIDE DEF I, some
    <3>2. PaintedOn(now, q.area, q.offset, Image(q), Append(some, p))
            = Rasterised(PaintedOn(now, q.area, q.offset, Image(q), some), now, q.area, q.offset,
                         p, p.mode)
      <4>1. \A tex, area, offset, base : \A u \in Seq(Primitive) : \A e \in Primitive :
              PaintedOn(tex, area, offset, base, Append(u, e))
                = Rasterised(PaintedOn(tex, area, offset, base, u), tex, area, offset, e, e.mode)
        BY PaintedOnMore
      <4> QED BY <2>a, <2>1, <4>1
    <3> QED BY <3>1, <3>2
  <2>4. i + 1 \in 1 .. n
    BY <1>0
  <2>5. p.type # "TEXTURED_TRIANGLE" \/ now = q.tex
    BY <2>4 DEF p
  <2> HIDE DEF some, C, I, n
  <2>6. /\ Sound(C(i)) /\ Image(C(i)) = I(i) /\ C(i).tex = q.tex
        /\ C(i).area = q.area /\ C(i).offset = q.offset /\ C(i).cpu = q.cpu
    BY <1>2, Zenon DEF Becomes
  <2>7. /\ Becomes(C(i), C(i + 1), Rasterised(I(i), q.tex, q.area, q.offset, p, p.mode))
        /\ C(i + 1).tex = q.tex
    BY <2>1, <2>2, <2>6, DrawPrimitiveAdds, Zenon
  <2>8. Rasterised(I(i), q.tex, q.area, q.offset, p, p.mode)
            = Rasterised(I(i), now, q.area, q.offset, p, p.mode)
    <3>1. CASE now = q.tex
      BY <3>1, Zenon
    <3>2. CASE p.type # "TEXTURED_TRIANGLE"
      BY <3>2 DEF Rasterised
    <3> QED BY <2>5, <3>1, <3>2, Zenon
  <2> QED BY <2>3, <2>6, <2>7, <2>8, Zenon DEF Becomes
<1> HIDE DEF Fine
<1>3. T = {}
  <2> SUFFICES ASSUME T # {} PROVE FALSE
    OBVIOUS
  <2>1. PICK i \in T : \A j \in T : i <= j
    <3>1. T \in SUBSET Nat
      OBVIOUS
    <3> HIDE DEF T
    <3> QED BY <3>1, SmallestNumber
  <2>2. i \in 0 .. n /\ ~Fine(i)
    BY <2>1
  <2>3. i # 0
    BY <1>1, <2>2
  <2>4. i - 1 \in 0 .. n - 1 /\ i - 1 \in 0 .. n /\ (i - 1) + 1 = i /\ ~(i <= i - 1)
    BY <1>0, <2>2, <2>3
  <2>5. Fine(i - 1)
    BY <2>1, <2>4
  <2> QED BY <1>2, <2>2, <2>4, <2>5
<1>4. Fine(n)
  BY <1>0, <1>3
<1> QED BY <1>0, <1>4 DEF Fine

(***************************************************************************)
(* Fills, copies and transfers in the renderer.                            *)
(***************************************************************************)
\* The texture is behind, or work was given out.
Due(d, b) == d \in BOOLEAN /\ b \in BOOLEAN /\ (d \/ b)

\* What is painted over the framebuffer while nothing is collected.
LEMMA PaintedOver ==
    ASSUME NEW q, Sound(q), q.commands = << >>, NEW f, IsImage(f),
           NEW d, NEW b, Due(d, b),
           NEW r \in Forms(q.vertices, q.commands, f, q.tex, q.cpu, d, b, q.area, q.offset)
    PROVE  Becomes(q, r, f) /\ r.commands = << >> /\ r.fbo = f /\ r.need = d /\ r.busy = b
           /\ r.tex = q.tex
<1>1. Typed(q) /\ AllDrawn(q) /\ IsImage(q.cpu)
  BY Zenon DEF Sound
<1>2. q.vertices \in [PipelineType -> Seq(Primitive)] /\ q.commands \in Seq(Entry)
      /\ q.area \in Areas /\ q.offset \in Int
  BY <1>1 DEF Typed
<1>3. Parts(r, q.vertices, q.commands, f, q.tex, q.cpu, d, b, q.area, q.offset)
  BY <1>2, FormFields, Zenon
<1>4. /\ r.vertices = q.vertices /\ r.commands = << >> /\ r.fbo = f /\ r.tex = q.tex
      /\ r.cpu = q.cpu /\ r.need = d /\ r.busy = b /\ r.area = q.area /\ r.offset = q.offset
      /\ Typed(r)
  BY <1>3, Zenon DEF Parts
<1>5. q.vertices = [t \in PipelineType |-> << >>]
  BY <1>1, NothingCollected
<1>6. Image(r) = f /\ AllDrawn(r)
  BY <1>4, <1>5, NothingCollected
<1>7. Sound(r)
  BY <1>1, <1>4, <1>6, Zenon DEF Sound, Due
<1> QED BY <1>4, <1>6, <1>7, Zenon DEF Becomes

\* The image with the pixels of cells from another one.
Over(image, cells, other) == [p \in Cells |-> IF p \in cells THEN other[p] ELSE image[p]]

LEMMA OverImage ==
    ASSUME NEW image, NEW cells, NEW other
    PROVE  IsImage(Over(image, cells, other))
  BY DEF IsImage, Over

\* A fill paints its parts over the picture.
LEMMA FillPaints ==
    ASSUME NEW q, Sound(q), q.commands = << >>, NEW x, NEW y, NEW w, NEW h, NEW colour
    PROVE  Becomes(q, Fill(q, x, y, w, h, colour),
                   Over(Image(q), FillParts(x, y, w, h), [p \in Cells |-> colour]))
<1> DEFINE cells == FillParts(x, y, w, h)
           f == [p \in Cells |-> IF p \in cells THEN colour ELSE q.fbo[p]]
           over == Over(Image(q), cells, [p \in Cells |-> colour])
           r == Fill(q, x, y, w, h, colour)
<1>1. Typed(q) /\ q.busy \in BOOLEAN
  BY Zenon DEF Sound
<1>2. Image(q) = q.fbo
  BY <1>1, NothingCollected
<1>3. r = [q EXCEPT !.need = TRUE, !.fbo = f]
  BY DEF Fill
<1>4. f = over
  BY <1>2 DEF Over
<1>5. IsImage(over)
  BY OverImage
<1> HIDE DEF f, r, over
<1>6. r \in Forms(q.vertices, q.commands, over, q.tex, q.cpu, TRUE, q.busy, q.area, q.offset)
  BY <1>1, <1>3, <1>4, SetFields, ZenonT(20)
<1>7. Becomes(q, r, over)
  <2>1. Due(TRUE, q.busy)
    BY <1>1, Zenon DEF Due
  <2> QED BY <1>5, <1>6, <2>1, PaintedOver, Zenon
<1> QED BY <1>7 DEF r, over

\* An upload paints its rectangle from the buffer of the CPU.
LEMMA CpuVramBlitPaints ==
    ASSUME NEW q, Sound(q), q.commands = << >>, NEW x, NEW y, NEW w, NEW h
    PROVE  LET r == CpuVramBlit(q, x, y, w, h)
           IN  Becomes(q, r, Over(Image(q), Clipped(x, y, w, h), q.cpu))
               /\ r.commands = << >> /\ ~r.busy
<1> DEFINE cells == Clipped(x, y, w, h)
           f == [p \in Cells |-> IF p \in cells THEN q.cpu[p] ELSE q.fbo[p]]
           over == Over(Image(q), cells, q.cpu)
           d == [q EXCEPT !.busy = TRUE, !.fbo = f]
           r == CpuVramBlit(q, x, y, w, h)
<1>1. Typed(q) /\ q.need \in BOOLEAN
  BY Zenon DEF Sound
<1>2. Image(q) = q.fbo
  BY <1>1, NothingCollected
<1>3. r = CommandFenceSync(d)
  BY DEF CpuVramBlit
<1>4. f = over
  BY <1>2 DEF Over
<1>5. IsImage(over)
  BY OverImage
<1> HIDE DEF f, r, over
<1>6. d \in Forms(q.vertices, q.commands, over, q.tex, q.cpu, q.need, TRUE, q.area, q.offset)
  BY <1>1, <1>4, SetFields, ZenonT(20)
<1> HIDE DEF d
<1>7. Becomes(q, d, over) /\ d.commands = << >>
  <2>1. Due(q.need, TRUE)
    BY <1>1, Zenon DEF Due
  <2>2. Becomes(q, d, over)
    BY <1>5, <1>6, <2>1, PaintedOver, Zenon
  <2>3. d.commands = << >>
    BY <1>6 DEF Forms
  <2> QED BY <2>2, <2>3
<1>8. Sound(d)
  BY <1>7, Zenon DEF Becomes
<1>9. Same(d, r) /\ r.commands = d.commands /\ ~r.busy
  BY <1>3, <1>8, FenceKeeps, Zenon
<1>10. Becomes(q, r, over) /\ r.commands = << >> /\ ~r.busy
  BY <1>7, <1>9, Zenon DEF Becomes, Same
<1> QED BY <1>10 DEF r, over

\* Before an upload what is collected is drawn.
LEMMA PrepareKeeps ==
    ASSUME NEW q, Sound(q), q.commands = << >>
    PROVE  Same(q, PrepareBlit(q)) /\ Clean(PrepareBlit(q))
<1> DEFINE f == CommandFenceSync(q)
<1>1. Same(q, f) /\ f.commands = << >> /\ ~f.busy
  BY FenceKeeps
<1>2. PrepareBlit(q) = SyncTextures(f)
  BY DEF PrepareBlit
<1>3. Sound(f)
  BY <1>1, Zenon DEF Same
<1> HIDE DEF f
<1>4. Same(f, SyncTextures(f)) /\ Clean(SyncTextures(f))
  BY <1>1, <1>3, SyncKeeps, Zenon
<1> QED BY <1>1, <1>2, <1>4, Zenon DEF Same

\* The image after a copy of sx, sy to x, y.
Copied(image, sx, sy, x, y, w, h) ==
    [p \in Cells |->
        IF p \notin Clipped(x, y, w, h) THEN image[p]
        ELSE IF <<p[1] - x + sx, p[2] - y + sy>> \in Cells THEN image[<<p[1] - x + sx, p[2] - y + sy>>]
        ELSE BLACK]

\* A copy paints its rectangle from the picture before it.
LEMMA VramVramBlitPaints ==
    ASSUME NEW q, Sound(q), NEW sx, NEW sy, NEW x, NEW y, NEW w, NEW h
    PROVE  Becomes(q, VramVramBlit(q, sx, sy, x, y, w, h), Copied(Image(q), sx, sy, x, y, w, h))
<1> DEFINE s == SyncTextures(FlushCommands(q))
           source(p) == <<p[1] - x + sx, p[2] - y + sy>>
           f == [p \in Cells |->
                    IF p \notin Clipped(x, y, w, h) THEN s.fbo[p]
                    ELSE IF source(p) \in Cells THEN s.tex[source(p)] ELSE BLACK]
           d == [s EXCEPT !.busy = TRUE, !.fbo = f]
           e == CommandFenceSync(d)
           r == VramVramBlit(q, sx, sy, x, y, w, h)
           copy == Copied(Image(q), sx, sy, x, y, w, h)
<1>1. r = SyncTextures(e)
  BY DEF VramVramBlit
<1>2. Same(q, s) /\ Clean(s)
  BY CleanedKeeps
<1>3. Sound(s) /\ Image(s) = Image(q)
  BY <1>2, Zenon DEF Same
<1>4. Typed(s) /\ s.commands = << >> /\ s.need = FALSE
  <2>1. Typed(s) /\ s.need \in BOOLEAN
    BY <1>3, Zenon DEF Sound
  <2>2. s.commands = << >> /\ ~s.need
    BY <1>2, Zenon DEF Clean
  <2> HIDE DEF s
  <2> QED BY <2>1, <2>2, Zenon
<1>5. s.tex = Image(q) /\ s.fbo = Image(q)
  BY <1>2, <1>3, CleanTexture, Zenon
<1> HIDE DEF s
<1>6. f = copy
  BY <1>5, Zenon DEF Copied
<1>7. IsImage(copy)
  BY DEF Copied, IsImage
<1> HIDE DEF f, r, copy
<1>8. d \in Forms(s.vertices, s.commands, copy, s.tex, s.cpu, s.need, TRUE, s.area, s.offset)
  BY <1>4, <1>6, SetFields, ZenonT(20)
<1> HIDE DEF d
<1>10. Becomes(s, d, copy) /\ d.commands = << >>
  <2>1. s.need \in BOOLEAN
    BY <1>3, Zenon DEF Sound
  <2>2. Due(s.need, TRUE)
    BY <2>1, Zenon DEF Due
  <2>3. Becomes(s, d, copy)
    BY <1>3, <1>4, <1>7, <1>8, <2>2, PaintedOver, Zenon
  <2>4. d.commands = << >>
    BY <1>4, <1>8 DEF Forms
  <2> QED BY <2>3, <2>4
<1>11. Sound(d)
  BY <1>10, Zenon DEF Becomes
<1>12. Same(d, e) /\ e.commands = << >> /\ ~e.busy
  BY <1>10, <1>11, FenceKeeps, Zenon
<1> HIDE DEF e
<1>13. Sound(e)
  BY <1>12, Zenon DEF Same
<1>14. Same(e, r)
  BY <1>1, <1>12, <1>13, SyncKeeps, Zenon
<1>15. Becomes(q, r, copy)
  BY <1>2, <1>10, <1>12, <1>14, Zenon DEF Becomes, Same
<1> QED BY <1>15 DEF r, copy

\* A clean renderer stays as it is.
LEMMA NothingToFlush ==
    ASSUME NEW q, Clean(q)
    PROVE  FlushCommands(q) = q /\ SyncTextures(q) = q
<1>1. DrawBatch(q) = q
  BY Zenon DEF Clean, DrawBatch
<1>2. CommandFenceSync(q) = q
  BY Zenon DEF Clean, CommandFenceSync
<1>3. SyncTextures(q) = q
  BY Zenon DEF Clean, SyncTextures
<1> QED BY <1>1, <1>2, <1>3, Zenon DEF FlushCommands

\* A download changes what the CPU reads only.
LEMMA VramCpuBlitKeeps ==
    ASSUME NEW q, Sound(q), NEW x, NEW y, NEW w, NEW h
    PROVE  LET r == VramCpuBlit(q, x, y, w, h)
           IN  /\ Sound(r) /\ Image(r) = Image(q) /\ r.area = q.area /\ r.offset = q.offset
               /\ r.commands = << >> /\ (Clean(q) => Clean(r))
               /\ Inside(x, y, w, h) => \A p \in Clipped(x, y, w, h) : r.cpu[p] = Image(q)[p]
<1> DEFINE f == FlushCommands(q)
           m == [p \in Cells |-> IF p \in Clipped(x, y, w, h) THEN f.fbo[p] ELSE f.cpu[p]]
           r == VramCpuBlit(q, x, y, w, h)
<1>1. Same(q, f) /\ f.commands = << >>
  BY FlushKeeps
<1>2. Sound(f) /\ Image(f) = Image(q) /\ f.area = q.area /\ f.offset = q.offset
  BY <1>1, Zenon DEF Same
<1>3. /\ Typed(f) /\ AllDrawn(f) /\ f.need \in BOOLEAN /\ f.busy \in BOOLEAN
      /\ IsImage(Image(f)) /\ (~f.need /\ ~f.busy => f.tex = f.fbo)
  BY <1>2, Zenon DEF Sound
<1>4. Image(f) = f.fbo
  BY <1>1, <1>3, NothingCollected
<1>7. Clean(q) => f = q
  BY NothingToFlush
<1>5. CASE ~Inside(x, y, w, h)
  <2>1. r = f
    BY <1>5, Zenon DEF VramCpuBlit
  <2>2. Clean(q) => Clean(f)
    BY <1>7, Zenon
  <2> HIDE DEF f, r
  <2> QED BY <1>1, <1>2, <1>5, <2>1, <2>2, Zenon DEF r
<1>6. CASE Inside(x, y, w, h)
  <2>1. r = [f EXCEPT !.cpu = m]
    BY <1>6 DEF VramCpuBlit
  <2>2. IsImage(m) /\ \A p \in Clipped(x, y, w, h) : m[p] = f.fbo[p]
    BY DEF IsImage, Clipped
  <2>3. f.vertices \in [PipelineType -> Seq(Primitive)] /\ f.commands \in Seq(Entry)
        /\ f.area \in Areas /\ f.offset \in Int
    BY <1>3 DEF Typed
  <2> HIDE DEF f, m, r
  <2>4. r \in Forms(f.vertices, f.commands, f.fbo, f.tex, m, f.need, f.busy, f.area, f.offset)
    BY <1>3, <2>1, SetFields, ZenonT(20)
  <2>5. Parts(r, f.vertices, f.commands, f.fbo, f.tex, m, f.need, f.busy, f.area, f.offset)
    BY <2>3, <2>4, FormFields, Zenon
  <2>6. /\ r.vertices = f.vertices /\ r.commands = f.commands /\ r.fbo = f.fbo /\ r.tex = f.tex
        /\ r.cpu = m /\ r.need = f.need /\ r.busy = f.busy /\ r.area = f.area
        /\ r.offset = f.offset /\ Typed(r)
    BY <2>5, Zenon DEF Parts
  <2>7. Image(r) = Image(f) /\ AllDrawn(r)
    BY <1>3, <2>6, SameBatch
  <2>8. Sound(r)
    BY <1>3, <2>2, <2>6, <2>7, Zenon DEF Sound
  <2>9. \A p \in Clipped(x, y, w, h) : r.cpu[p] = Image(q)[p]
    BY <1>2, <1>4, <2>2, <2>6, Zenon
  <2>10. Clean(q) => Clean(r)
    BY <1>7, <2>6, Zenon DEF Clean
  <2> QED BY <1>1, <1>2, <2>6, <2>7, <2>8, <2>9, <2>10, Zenon DEF r
<1> QED BY <1>5, <1>6, Zenon

(***************************************************************************)
(* Settings, and the primitives of a command.                              *)
(***************************************************************************)
\* r draws elsewhere, after what was collected is drawn.
Redirected(q, r, area, offset) ==
    /\ Sound(r) /\ Image(r) = Image(q) /\ r.area = area /\ r.offset = offset
    /\ Clean(q) => Clean(r)

LEMMA Redirects ==
    ASSUME NEW q, Sound(q), NEW area \in Areas, NEW offset \in Int,
           NEW r, r \in Forms(FlushCommands(q).vertices, FlushCommands(q).commands,
                              FlushCommands(q).fbo, FlushCommands(q).tex, FlushCommands(q).cpu,
                              FlushCommands(q).need, FlushCommands(q).busy, area, offset)
    PROVE  Redirected(q, r, area, offset)
<1> DEFINE f == FlushCommands(q)
<1>1. Same(q, f) /\ f.commands = << >>
  BY FlushKeeps
<1>2. Sound(f) /\ Image(f) = Image(q)
  BY <1>1, Zenon DEF Same
<1>3. /\ Typed(f) /\ AllDrawn(f) /\ f.need \in BOOLEAN /\ f.busy \in BOOLEAN
      /\ IsImage(Image(f)) /\ IsImage(f.cpu) /\ (~f.need /\ ~f.busy => f.tex = f.fbo)
  BY <1>2, Zenon DEF Sound
<1>4. Clean(q) => f = q
  BY NothingToFlush
<1>5. r \in Forms(f.vertices, f.commands, f.fbo, f.tex, f.cpu, f.need, f.busy, area, offset)
  OBVIOUS
<1> HIDE DEF f
<1>6. f.vertices \in [PipelineType -> Seq(Primitive)] /\ f.commands \in Seq(Entry)
  BY <1>3 DEF Typed
<1>7. Parts(r, f.vertices, f.commands, f.fbo, f.tex, f.cpu, f.need, f.busy, area, offset)
  BY <1>5, <1>6, FormFields, Zenon
<1>8. /\ r.vertices = f.vertices /\ r.commands = << >> /\ r.fbo = f.fbo /\ r.tex = f.tex
      /\ r.cpu = f.cpu /\ r.need = f.need /\ r.busy = f.busy /\ r.area = area
      /\ r.offset = offset /\ Typed(r)
  BY <1>1, <1>7, Zenon DEF Parts
<1>9. f.vertices = [t \in PipelineType |-> << >>] /\ Image(f) = f.fbo
  BY <1>1, <1>3, NothingCollected
<1>10. Image(r) = r.fbo /\ AllDrawn(r)
  BY <1>8, <1>9, NothingCollected
<1>11. Image(r) = Image(q)
  BY <1>2, <1>8, <1>9, <1>10
<1>12. Sound(r)
  <2>1. IsImage(Image(r))
    BY <1>2, <1>3, <1>11
  <2> QED BY <1>3, <1>8, <1>10, <2>1, Zenon DEF Sound
<1>13. Clean(q) => Clean(r)
  BY <1>4, <1>8, Zenon DEF Clean
<1> QED BY <1>8, <1>11, <1>12, <1>13, Zenon DEF Redirected

\* A corner of the drawing area moves after what was collected is drawn.
LEMMA MovedCorner ==
    ASSUME NEW q, Sound(q), NEW x \in Int, NEW y \in Int
    PROVE  /\ Redirected(q, [FlushCommands(q) EXCEPT !.area.left = x, !.area.top = y],
                         [q.area EXCEPT !.left = x, !.top = y], q.offset)
           /\ Redirected(q, [FlushCommands(q) EXCEPT !.area.right = x, !.area.bottom = y],
                         [q.area EXCEPT !.right = x, !.bottom = y], q.offset)
           /\ Redirected(q, [FlushCommands(q) EXCEPT !.offset = x], q.area, x)
<1> DEFINE f == FlushCommands(q)
           lt == [q.area EXCEPT !.left = x, !.top = y]
           rb == [q.area EXCEPT !.right = x, !.bottom = y]
<1>1. Same(q, f)
  BY FlushKeeps
<1>2. Sound(f) /\ f.area = q.area /\ f.offset = q.offset
  BY <1>1, Zenon DEF Same
<1>3. Typed(f)
  BY <1>2, Zenon DEF Sound
<1>4. q.area \in Areas /\ q.offset \in Int
  BY <1>2, <1>3 DEF Typed
<1>5. lt \in Areas /\ rb \in Areas
  BY <1>4 DEF Areas
<1>6. /\ [f EXCEPT !.area.left = x, !.area.top = y] = [f EXCEPT !.area = lt]
      /\ [f EXCEPT !.area.right = x, !.area.bottom = y] = [f EXCEPT !.area = rb]
  <2>1. f \in Forms(f.vertices, f.commands, f.fbo, f.tex, f.cpu, f.need, f.busy, f.area, f.offset)
    BY <1>3 DEF Typed
  <2> HIDE DEF f
  <2> QED BY <1>2, <2>1 DEF Forms
<1> HIDE DEF f, lt, rb
<1>7. /\ [f EXCEPT !.area = lt]
            \in Forms(f.vertices, f.commands, f.fbo, f.tex, f.cpu, f.need, f.busy, lt, q.offset)
      /\ [f EXCEPT !.area = rb]
            \in Forms(f.vertices, f.commands, f.fbo, f.tex, f.cpu, f.need, f.busy, rb, q.offset)
      /\ [f EXCEPT !.offset = x]
            \in Forms(f.vertices, f.commands, f.fbo, f.tex, f.cpu, f.need, f.busy, q.area, x)
  BY <1>2, <1>3, SetBatch, ZenonT(20)
<1>8. /\ Redirected(q, [f EXCEPT !.area = lt], lt, q.offset)
      /\ Redirected(q, [f EXCEPT !.area = rb], rb, q.offset)
      /\ Redirected(q, [f EXCEPT !.offset = x], q.area, x)
  <2>1. Redirected(q, [f EXCEPT !.area = lt], lt, q.offset)
    BY <1>4, <1>5, <1>7, Redirects, Zenon DEF f
  <2>2. Redirected(q, [f EXCEPT !.area = rb], rb, q.offset)
    BY <1>4, <1>5, <1>7, Redirects, Zenon DEF f
  <2>3. Redirected(q, [f EXCEPT !.offset = x], q.area, x)
    BY <1>4, <1>7, Redirects, Zenon DEF f
  <2> QED BY <2>1, <2>2, <2>3
<1> QED BY <1>6, <1>8 DEF f, lt, rb

\* The primitives of a command.
LEMMA PrimitivesFacts ==
    ASSUME NEW c \in Commands, Draws(c), NEW page \in Nat, NEW n \in Nat
    PROVE  LET prims == Primitives(c, page, n)
           IN  /\ prims \in Seq(Primitive)
               /\ ~Textured(c) => \A i \in 1 .. Len(prims) : prims[i].type # "TEXTURED_TRIANGLE"
               /\ c.large => prims = << >>
<1> DEFINE pg == PageOf(c, page)
           pieces == Pieces(c)
           mode == IF c.trans THEN pg ELSE OPAQUE
           texel == Texel(pg)
           prims == Primitives(c, page, n)
<1>1. c \in CommandType
  BY GpuCommandsAssumption
<1>2. pg \in Nat
  BY <1>1 DEF PageOf, CommandType
<1>3. texel \in Cells
  <2>1. VX \in Nat \ {0} /\ VY \in Nat \ {0}
    BY GpuCommandsAssumption
  <2> HIDE DEF pg
  <2>2. pg % VX \in 0 .. VX - 1 /\ 0 \in 0 .. VY - 1
    BY <1>2, <2>1, DivMod
  <2> QED BY <2>2 DEF texel, Texel, Cells
<1>4. pieces \in Nat /\ (c.large => pieces = 0)
  <2>1. c.op = "LINE" => c.n \in Nat
    BY <1>1 DEF CommandType
  <2> QED BY <2>1 DEF Pieces, Draws
<1>5. Pipeline(c) \in PipelineType
  BY DEF Pipeline, PipelineType
<1>6. ~Textured(c) => Pipeline(c) # "TEXTURED_TRIANGLE"
  BY DEF Pipeline
<1>7. c.x \in Int /\ c.y \in Int
  BY <1>1 DEF CommandType, Draws
<1>8. mode \in Int
  <2>1. OPAQUE \in Int
    BY DEF OPAQUE
  <2> HIDE DEF pg
  <2> QED BY <1>2, <2>1
<1>9. prims = [i \in 1 .. pieces |-> [type |-> Pipeline(c), x |-> c.x + i - 1, y |-> c.y, n |-> n,
                                      mode |-> mode, texel |-> texel]]
  BY DEF Primitives
<1> HIDE DEF pg, pieces, mode, texel, prims
<1>10. \A i \in 1 .. pieces : [type |-> Pipeline(c), x |-> c.x + i - 1, y |-> c.y, n |-> n,
                               mode |-> mode, texel |-> texel] \in Primitive
  BY <1>3, <1>4, <1>5, <1>7, <1>8 DEF Primitive
<1>11. prims \in [1 .. pieces -> Primitive]
  BY <1>9, <1>10
<1>12. prims \in Seq(Primitive) /\ Len(prims) = pieces
  BY <1>4, <1>11
<1>13. ~Textured(c) => \A i \in 1 .. Len(prims) : prims[i].type # "TEXTURED_TRIANGLE"
  BY <1>6, <1>9, <1>12
<1>14. c.large => prims = << >>
  BY <1>4, <1>12
<1> QED BY <1>12, <1>13, <1>14 DEF prims

\* The drawing area, the offset and the page of a command that draws.
DrawnOn(c, q, page, n) ==
    PaintedOn(Image(q), q.area, q.offset, Image(q), Primitives(c, page, n))

\* The primitives of a drawing command are painted over the picture.
LEMMA DrawPaints ==
    ASSUME NEW q, Sound(q), NEW c \in Commands, Draws(c), NEW page \in Nat, NEW n \in Nat,
           Textured(c) => Clean(q)
    PROVE  LET r == Collected(q, Primitives(c, page, n))
           IN  /\ Becomes(q, r, DrawnOn(c, q, page, n))
               /\ ~Paints(c) => r = q
<1> DEFINE prims == Primitives(c, page, n)
           r == Collected(q, prims)
           now == Image(q)
<1>1. /\ prims \in Seq(Primitive)
      /\ ~Textured(c) => \A i \in 1 .. Len(prims) : prims[i].type # "TEXTURED_TRIANGLE"
      /\ c.large => prims = << >>
  BY PrimitivesFacts
<1> HIDE DEF prims
<1>2. (\A i \in 1 .. Len(prims) : prims[i].type # "TEXTURED_TRIANGLE") \/ now = q.tex
  BY <1>1, CleanTexture, Zenon
<1> HIDE DEF now
<1>3. Becomes(q, r, PaintedOn(now, q.area, q.offset, Image(q), prims))
  BY <1>1, <1>2, CollectedKeeps, Zenon
<1>4. ~Paints(c) => c.large
  BY DEF Paints
<1>5. ~Paints(c) => r = q
  BY <1>1, <1>4, CollectedNone
<1> QED BY <1>3, <1>5 DEF DrawnOn, now, prims

(***************************************************************************)
(* Rectangles: what is painted in up to four parts inside the edges is the *)
(* rectangle that wraps around.                                            *)
(***************************************************************************)
LEMMA IntModUnique ==
    ASSUME NEW a \in Int, NEW v \in Nat \ {0}, NEW q \in Int, NEW r \in Nat, r < v, a = q * v + r
    PROVE  a % v = r
<1> DEFINE p == a \div v
           m == a % v
           pv == p * v
           qv == q * v
<1>1. p \in Int /\ m \in Int /\ 0 <= m /\ m < v /\ pv + m = a
  OBVIOUS
<1>2. a = qv + r
  OBVIOUS
<1>3. pv \in Int /\ qv \in Int
  BY <1>1
<1> DEFINE d == p - q
           e == q - p
<1>4. (p - q) * v = pv - qv /\ (q - p) * v = qv - pv
  BY <1>1, Distributes
<1>5. p < q => d \in Int /\ e \in Nat \ {0}
  BY <1>1
<1>6. q < p => d \in Nat \ {0}
  BY <1>1
<1>7. \A k \in Nat \ {0} : k * v >= v
  <2> SUFFICES ASSUME NEW k \in Nat \ {0} PROVE k * v >= v
    OBVIOUS
  <2>1. 0 * v + v <= k * v
    BY NextMultiple
  <2>2. 0 * v = 0
    OBVIOUS
  <2> QED BY <2>1, <2>2
<1>8. (p < q => qv - pv >= v) /\ (q < p => pv - qv >= v)
  BY <1>4, <1>5, <1>6, <1>7
<1> HIDE DEF p, m, pv, qv
<1>9. p = q => pv = qv
  BY DEF pv, qv
<1>10. m = r
  BY <1>1, <1>2, <1>3, <1>8, <1>9
<1> QED BY <1>10 DEF m

\* The remainder of what is less than twice the divisor.
LEMMA ModSmall ==
    ASSUME NEW a \in Nat, NEW v \in Nat \ {0}
    PROVE  /\ a < v => a % v = a
           /\ v <= a /\ a < v + v => a % v = a - v
<1>1. ASSUME a < v PROVE a % v = a
  <2>1. a = 0 * v + a
    OBVIOUS
  <2> QED BY <1>1, <2>1, DivModUnique
<1>2. ASSUME v <= a, a < v + v PROVE a % v = a - v
  <2>1. a = 1 * v + (a - v) /\ a - v \in Nat /\ a - v < v
    BY <1>2
  <2>2. \A r \in Nat : r < v /\ a = 1 * v + r => a % v = r
    BY DivModUnique
  <2> QED BY <2>1, <2>2
<1> QED BY <1>1, <1>2

\* What a row of w from x covers in a memory of v.
LEMMA Span ==
    ASSUME NEW x \in Nat, NEW v \in Nat \ {0}, NEW w \in 0 .. v, NEW u \in 0 .. v - 1
    PROVE  (\E i \in 0 .. w - 1 : (x + i) % v = u)
             <=> \/ u \in x % v .. (x % v) + w - 1
                 \/ (x % v) + w > v /\ u \in 0 .. (x % v) + w - v - 1
<1> DEFINE X == x % v
<1>1. X \in Nat /\ X < v
  BY DivMod
<1>2. \A i \in Nat : (x + i) % v = (X + i) % v
  BY ModPlus
<1> HIDE DEF X
<1>3. \A i \in 0 .. w - 1 : (x + i) % v = IF X + i < v THEN X + i ELSE X + i - v
  <2> SUFFICES ASSUME NEW i \in 0 .. w - 1
               PROVE  (X + i) % v = IF X + i < v THEN X + i ELSE X + i - v
    BY <1>2
  <2>1. X + i \in Nat /\ X + i < v + v
    BY <1>1
  <2>2. PICK s \in Nat : s = X + i
    BY <2>1
  <2>3. s < v => s % v = s
    BY ModSmall
  <2>4. v <= s /\ s < v + v => s % v = s - v
    BY ModSmall
  <2> QED BY <1>1, <2>1, <2>2, <2>3, <2>4
<1>4. (\E i \in 0 .. w - 1 : (x + i) % v = u)
        => \/ u \in X .. X + w - 1
           \/ X + w > v /\ u \in 0 .. X + w - v - 1
  <2> SUFFICES ASSUME NEW i \in 0 .. w - 1, (x + i) % v = u
               PROVE  \/ u \in X .. X + w - 1
                      \/ X + w > v /\ u \in 0 .. X + w - v - 1
    OBVIOUS
  <2>1. u = IF X + i < v THEN X + i ELSE X + i - v
    BY <1>3
  <2> QED BY <1>1, <2>1
<1>5. ASSUME u \in X .. X + w - 1 PROVE \E i \in 0 .. w - 1 : (x + i) % v = u
  <2>1. u - X \in 0 .. w - 1 /\ X + (u - X) = u /\ X + (u - X) < v
    BY <1>1, <1>5
  <2>2. (x + (u - X)) % v = u
    BY <1>3, <2>1
  <2> QED BY <2>1, <2>2
<1>6. ASSUME X + w > v, u \in 0 .. X + w - v - 1 PROVE \E i \in 0 .. w - 1 : (x + i) % v = u
  <2>1. u + v - X \in 0 .. w - 1 /\ X + (u + v - X) = u + v /\ ~(X + (u + v - X) < v)
        /\ (u + v) - v = u
    BY <1>1, <1>6
  <2>2. (x + (u + v - X)) % v = u
    <3>1. PICK i \in 0 .. w - 1 : i = u + v - X
      BY <2>1
    <3>2. X + i = u + v /\ ~(X + i < v) /\ (u + v) - v = u
      BY <2>1, <3>1
    <3>3. (x + i) % v = X + i - v
      BY <1>3, <3>2
    <3>4. X + i - v = u
      BY <1>1, <3>2
    <3>5. (x + i) % v = u
      BY <3>3, <3>4, Zenon
    <3> QED BY <3>1, <3>5
  <2> QED BY <2>1, <2>2
<1> QED BY <1>4, <1>5, <1>6 DEF X

\* A rectangle with wrap-around is the union of its clipped parts.
Between(p, x, y, w, h) == p[1] \in x .. x + w - 1 /\ p[2] \in y .. y + h - 1

\* The parts inside the edges are the rectangle that wraps around.
LEMMA WrappedParts ==
    ASSUME NEW x \in Nat, NEW y \in Nat, NEW w \in 0 .. VX, NEW h \in 0 .. VY, NEW p \in Cells
    PROVE  LET X == x % VX
               Y == y % VY
           IN  p \in Wrapped(x, y, w, h)
                 <=> \/ Between(p, X, Y, w, h)
                     \/ X + w > VX /\ Between(p, 0, Y, X + w - VX, h)
                     \/ Y + h > VY /\ Between(p, X, 0, w, Y + h - VY)
                     \/ X + w > VX /\ Y + h > VY /\ Between(p, 0, 0, X + w - VX, Y + h - VY)
<1> DEFINE X == x % VX
           Y == y % VY
           a == p[1]
           b == p[2]
           Row == \E i \in 0 .. w - 1 : (x + i) % VX = a
           Column == \E j \in 0 .. h - 1 : (y + j) % VY = b
<1>1. VX \in Nat \ {0} /\ VY \in Nat \ {0}
  BY GpuCommandsAssumption
<1>2. a \in 0 .. VX - 1 /\ b \in 0 .. VY - 1 /\ p = <<a, b>>
  BY DEF Cells
<1>3. p \in Wrapped(x, y, w, h) <=> Row /\ Column
  <2>1. p \in Wrapped(x, y, w, h)
          <=> \E i \in 0 .. w - 1, j \in 0 .. h - 1 : p = <<(x + i) % VX, (y + j) % VY>>
    BY DEF Wrapped
  <2> HIDE DEF a, b
  <2>2. \A i, j : p = <<(x + i) % VX, (y + j) % VY>>
                    <=> (x + i) % VX = a /\ (y + j) % VY = b
    BY <1>2
  <2> QED BY <2>1, <2>2
<1>4. Row <=> \/ a \in X .. X + w - 1
              \/ X + w > VX /\ a \in 0 .. X + w - VX - 1
  BY <1>1, <1>2, Span
<1>5. Column <=> \/ b \in Y .. Y + h - 1
                 \/ Y + h > VY /\ b \in 0 .. Y + h - VY - 1
  BY <1>1, <1>2, Span
<1> HIDE DEF Row, Column
<1>6. X \in Int /\ Y \in Int
  BY <1>1, DivMod
<1> HIDE DEF X, Y
<1>7. 0 + (X + w - VX) - 1 = X + w - VX - 1 /\ 0 + (Y + h - VY) - 1 = Y + h - VY - 1
  BY <1>1, <1>6
<1>8. /\ Between(p, X, Y, w, h) <=> a \in X .. X + w - 1 /\ b \in Y .. Y + h - 1
      /\ Between(p, 0, Y, X + w - VX, h) <=> a \in 0 .. X + w - VX - 1 /\ b \in Y .. Y + h - 1
      /\ Between(p, X, 0, w, Y + h - VY) <=> a \in X .. X + w - 1 /\ b \in 0 .. Y + h - VY - 1
      /\ Between(p, 0, 0, X + w - VX, Y + h - VY)
            <=> a \in 0 .. X + w - VX - 1 /\ b \in 0 .. Y + h - VY - 1
  BY <1>7 DEF Between
<1> QED BY <1>3, <1>4, <1>5, <1>8 DEF X, Y

\* The parts of a fill, and of a rectangle inside the video memory.
LEMMA FillCovers ==
    ASSUME NEW x \in Nat, NEW y \in Nat, NEW w \in 0 .. VX, NEW h \in 0 .. VY, NEW p \in Cells
    PROVE  p \in FillParts(x % VX, y % VY, w, h) <=> p \in Wrapped(x, y, w, h)
<1> DEFINE X == x % VX
           Y == y % VY
<1>1. \A s, t, m, n : p \in Clipped(s, t, m, n) <=> Between(p, s, t, m, n)
  BY DEF Clipped, Between
<1>2. p \in Wrapped(x, y, w, h)
         <=> \/ Between(p, X, Y, w, h)
             \/ X + w > VX /\ Between(p, 0, Y, X + w - VX, h)
             \/ Y + h > VY /\ Between(p, X, 0, w, Y + h - VY)
             \/ X + w > VX /\ Y + h > VY /\ Between(p, 0, 0, X + w - VX, Y + h - VY)
  BY WrappedParts
<1> HIDE DEF X, Y
<1>3. p \in FillParts(X, Y, w, h)
         <=> \/ p \in Clipped(X, Y, w, h)
             \/ X + w > VX /\ p \in Clipped(0, Y, X + w - VX, h)
             \/ Y + h > VY /\ p \in Clipped(X, 0, w, Y + h - VY)
             \/ X + w > VX /\ Y + h > VY /\ p \in Clipped(0, 0, X + w - VX, Y + h - VY)
  BY DEF FillParts
<1> QED BY <1>1, <1>2, <1>3 DEF X, Y

LEMMA InsideCovers ==
    ASSUME NEW x \in Nat, NEW y \in Nat, NEW w \in 0 .. VX, NEW h \in 0 .. VY, NEW p \in Cells,
           Inside(x % VX, y % VY, w, h)
    PROVE  p \in Wrapped(x, y, w, h) <=> p \in Clipped(x % VX, y % VY, w, h)
<1> DEFINE X == x % VX
           Y == y % VY
<1>1. VX \in Nat \ {0} /\ VY \in Nat \ {0}
  BY GpuCommandsAssumption
<1>2. p \in Wrapped(x, y, w, h)
         <=> \/ Between(p, X, Y, w, h)
             \/ X + w > VX /\ Between(p, 0, Y, X + w - VX, h)
             \/ Y + h > VY /\ Between(p, X, 0, w, Y + h - VY)
             \/ X + w > VX /\ Y + h > VY /\ Between(p, 0, 0, X + w - VX, Y + h - VY)
  BY WrappedParts
<1>3. X \in Int /\ Y \in Int
  BY <1>1, DivMod
<1>4. X + w <= VX /\ Y + h <= VY
  BY DEF Inside
<1> HIDE DEF X, Y
<1>5. ~(X + w > VX) /\ ~(Y + h > VY)
  BY <1>1, <1>3, <1>4
<1>6. p \in Clipped(X, Y, w, h) <=> Between(p, X, Y, w, h)
  BY DEF Clipped, Between
<1> QED BY <1>2, <1>5, <1>6 DEF X, Y

\* Alignment: the video memory is as wide as a number of aligned blocks.
LEMMA AlignedDown ==
    ASSUME NEW a \in Nat
    PROVE  /\ Aligned(a) \in Nat /\ Aligned(a) = (a \div ALIGN) * ALIGN
           /\ Aligned(a) = a - (a % ALIGN) /\ a % ALIGN \in Nat
<1>1. ALIGN \in Nat \ {0}
  BY GpuCommandsAssumption
<1> DEFINE q == a \div ALIGN
           r == a % ALIGN
           qa == q * ALIGN
<1>2. q \in Nat /\ r \in Nat /\ qa + r = a
  BY <1>1, DivMod
<1>3. qa \in Nat
  BY <1>1, <1>2, Products
<1>4. Aligned(a) = a - r
  BY DEF Aligned
<1> HIDE DEF q, r, qa
<1>5. a - r = qa
  BY <1>2, <1>3
<1> QED BY <1>2, <1>3, <1>4, <1>5 DEF q, r, qa

LEMMA AlignedColumn ==
    ASSUME NEW x \in Nat
    PROVE  Aligned(x % VX) = Aligned(x) % VX
<1>0. ALIGN \in Nat \ {0} /\ VX \in Nat \ {0} /\ VX % ALIGN = 0
  BY GpuCommandsAssumption
<1> DEFINE m == VX \div ALIGN
           a == x \div VX
           X == x % VX
           d == X \div ALIGN
           e == X % ALIGN
<1>1. m \in Nat /\ m * ALIGN = VX
  <2>1. m \in Nat /\ m * ALIGN + (VX % ALIGN) = VX
    BY <1>0, DivMod
  <2>2. m * ALIGN \in Nat
    BY <1>0, <2>1, Products
  <2> HIDE DEF m
  <2>3. PICK n \in Nat : n = m * ALIGN
    BY <2>2
  <2>4. n + 0 = VX
    BY <1>0, <2>1, <2>3
  <2> QED BY <2>1, <2>3, <2>4
<1>2. a \in Nat /\ X \in Nat /\ X < VX /\ a * VX + X = x
  BY <1>0, DivMod
<1>3. d \in Nat /\ e \in Nat /\ e < ALIGN /\ d * ALIGN + e = X
  BY <1>0, <1>2, DivMod
<1>4. Aligned(X) = d * ALIGN /\ d * ALIGN \in Nat
  BY <1>0, <1>2, <1>3, AlignedDown, Products
<1> HIDE DEF m, a, X, d, e
<1> DEFINE k == a * m + d
<1>5. k \in Nat /\ k * ALIGN = a * VX + d * ALIGN
  <2>1. a * m \in Nat
    BY <1>1, <1>2, Products
  <2>2. (a * m + d) * ALIGN = (a * m) * ALIGN + d * ALIGN
    BY <1>0, <1>3, <2>1, Distributes
  <2>3. (a * m) * ALIGN = a * (m * ALIGN)
    BY <1>0, <1>1, <1>2, SMT
  <2> QED BY <1>1, <1>3, <2>1, <2>2, <2>3
<1> HIDE DEF k
<1>6. x = k * ALIGN + e
  <2>1. PICK av \in Nat : av = a * VX
    BY <1>0, <1>2, Products
  <2>2. PICK da \in Nat : da = d * ALIGN
    BY <1>4
  <2>3. PICK ka \in Nat : ka = k * ALIGN
    BY <1>0, <1>5, Products
  <2> QED BY <1>2, <1>3, <1>5, <2>1, <2>2, <2>3
<1>7. x % ALIGN = e
  BY <1>0, <1>3, <1>5, <1>6, DivModUnique
<1>8. Aligned(x) = a * VX + d * ALIGN
  <2>1. PICK av \in Nat : av = a * VX
    BY <1>0, <1>2, Products
  <2>2. PICK da \in Nat : da = d * ALIGN
    BY <1>4
  <2>3. Aligned(x) = x - e
    BY <1>7 DEF Aligned
  <2> QED BY <1>2, <1>3, <2>1, <2>2, <2>3
<1>9. d * ALIGN < VX
  <2>1. PICK da \in Nat : da = d * ALIGN
    BY <1>4
  <2> QED BY <1>0, <1>2, <1>3, <2>1
<1>10. Aligned(x) % VX = d * ALIGN
  <2>1. Aligned(x) \in Nat
    BY AlignedDown
  <2> QED BY <1>0, <1>2, <1>4, <1>8, <1>9, <2>1, DivModUnique
<1> QED BY <1>4, <1>10 DEF X

LEMMA AlignedWidth ==
    ASSUME NEW w \in Nat
    PROVE  Aligned((w % VX) + ALIGN - 1) \in 0 .. VX
<1>0. ALIGN \in Nat \ {0} /\ VX \in Nat \ {0} /\ VX % ALIGN = 0
  BY GpuCommandsAssumption
<1> DEFINE m == VX \div ALIGN
           z == (w % VX) + ALIGN - 1
           q == z \div ALIGN
           r == z % ALIGN
           qa == q * ALIGN
           ma == m * ALIGN
<1>1. m \in Nat /\ ma \in Nat /\ ma = VX
  <2>1. m \in Nat /\ ma + (VX % ALIGN) = VX
    BY <1>0, DivMod
  <2>2. ma \in Nat
    BY <1>0, <2>1, Products
  <2> HIDE DEF m, ma
  <2>3. ma + 0 = VX
    BY <1>0, <2>1
  <2> QED BY <2>1, <2>2, <2>3
<1>2. z \in Nat /\ z < VX + ALIGN - 1
  <2>1. w % VX \in Nat /\ w % VX < VX
    BY <1>0, DivMod
  <2> QED BY <1>0, <2>1
<1> HIDE DEF z
<1>3. q \in Nat /\ r \in Nat /\ qa + r = z
  BY <1>0, <1>2, DivMod
<1>4. qa \in Nat /\ Aligned(z) = qa
  BY <1>0, <1>2, <1>3, AlignedDown, Products
<1>5. m < q => ma + ALIGN <= qa
  BY <1>0, <1>1, <1>3, NextMultiple
<1>6. q < m => qa + ALIGN <= ma
  BY <1>0, <1>1, <1>3, NextMultiple
<1>7. q = m => qa = ma
  OBVIOUS
<1> HIDE DEF q, m, r, qa, ma
<1> QED BY <1>0, <1>1, <1>2, <1>3, <1>4, <1>5, <1>6, <1>7 DEF z

\* What a fill covers, and what it should.
LEMMA FilledCells ==
    ASSUME NEW x \in Nat, NEW y \in Nat, NEW w \in Nat, NEW h \in Nat, NEW p \in Cells
    PROVE  LET width == Aligned((w % VX) + ALIGN - 1)
               height == h % VY
           IN  /\ p \in FillParts(Aligned(x % VX), y % VY, width, height)
                    <=> p \in Wrapped(Aligned(x), y, width, height)
               /\ width = 0 \/ height = 0 => p \notin Wrapped(Aligned(x), y, width, height)
<1> DEFINE width == Aligned((w % VX) + ALIGN - 1)
           height == h % VY
           X == Aligned(x)
<1>1. VX \in Nat \ {0} /\ VY \in Nat \ {0}
  BY GpuCommandsAssumption
<1>2. height \in 0 .. VY
  <2>1. h % VY \in Nat /\ h % VY < VY
    BY <1>1, DivMod
  <2> QED BY <1>1, <2>1
<1>3. width \in 0 .. VX
  BY AlignedWidth
<1>4. X \in Nat /\ Aligned(x % VX) = X % VX
  BY AlignedDown, AlignedColumn
<1> HIDE DEF width, height, X
<1>5. p \in FillParts(X % VX, y % VY, width, height) <=> p \in Wrapped(X, y, width, height)
  BY <1>2, <1>3, <1>4, FillCovers
<1>6. width = 0 \/ height = 0 => p \notin Wrapped(X, y, width, height)
  BY <1>2, <1>3 DEF Wrapped
<1> QED BY <1>4, <1>5, <1>6 DEF width, height, X

(***************************************************************************)
(* The pixels of a picture are a rectangle, each pixel once.               *)
(***************************************************************************)
\* The picture of a transfer: its pixels are the rectangle, and no two of them
\* are the same pixel of the video memory.
Picture(c) == 0 .. Width(c) * Height(c) - 1

LEMMA PicturePixels ==
    ASSUME NEW c \in Commands, Transferring(c)
    PROVE  /\ Width(c) * Height(c) \in Nat \ {0}
           /\ \A k \in Picture(c) : /\ k \in Nat /\ CellOf(c, k) \in Cells
                                    /\ k % Width(c) \in 0 .. Width(c) - 1
                                    /\ k \div Width(c) \in 0 .. Height(c) - 1
<1> DEFINE W == Width(c)
           H == Height(c)
<1>1. /\ c.x \in Nat /\ c.y \in Nat /\ W \in Nat \ {0} /\ H \in Nat \ {0}
      /\ VX \in Nat \ {0} /\ VY \in Nat \ {0}
  BY TransferFacts
<1>2. W * H \in Nat \ {0}
  BY LastWord
<1>3. ASSUME NEW k \in Picture(c)
      PROVE  /\ k \in Nat /\ CellOf(c, k) \in Cells
             /\ k % W \in 0 .. W - 1 /\ k \div W \in 0 .. H - 1
  <2>1. k \in Nat /\ k < W * H
    <3>1. k \in 0 .. W * H - 1
      BY DEF Picture
    <3> QED BY <1>2, <3>1
  <2> HIDE DEF W, H
  <2>2. k % W \in Nat /\ k % W < W /\ k \div W \in Nat /\ k \div W < H
    BY <1>1, <2>1, DivMod, PixelFacts
  <2>3. PICK i \in Nat : i = c.x + (k % W)
    BY <1>1, <2>2
  <2>4. PICK j \in Nat : j = c.y + (k \div W)
    BY <1>1, <2>2
  <2>5. i % VX \in 0 .. VX - 1 /\ j % VY \in 0 .. VY - 1
    BY <1>1, DivMod
  <2>6. CellOf(c, k) = <<i % VX, j % VY>>
    BY <2>3, <2>4 DEF CellOf, W
  <2>7. CellOf(c, k) \in Cells
    BY <2>5, <2>6 DEF Cells
  <2> QED BY <1>1, <2>1, <2>2, <2>7
<1> QED BY <1>2, <1>3

\* The pixels of a picture are its rectangle, and no two are the same cell.
LEMMA PictureCovers ==
    ASSUME NEW c \in Commands, Transferring(c), NEW p
    PROVE  p \in Wrapped(c.x, c.y, Width(c), Height(c)) <=> \E k \in Picture(c) : CellOf(c, k) = p
<1> DEFINE W == Width(c)
           H == Height(c)
<1>1. /\ c.x \in Nat /\ c.y \in Nat /\ W \in Nat \ {0} /\ H \in Nat \ {0}
      /\ VX \in Nat \ {0} /\ VY \in Nat \ {0}
  BY TransferFacts
<1>2. W * H \in Nat \ {0}
  BY LastWord
<1>3. p \in Wrapped(c.x, c.y, W, H)
        <=> \E i \in 0 .. W - 1, j \in 0 .. H - 1 : p = <<(c.x + i) % VX, (c.y + j) % VY>>
  BY DEF Wrapped
<1>4. ASSUME NEW k \in Picture(c), CellOf(c, k) = p
      PROVE  p \in Wrapped(c.x, c.y, W, H)
  <2>1. k % W \in 0 .. W - 1 /\ k \div W \in 0 .. H - 1
    BY PicturePixels
  <2>2. p = <<(c.x + (k % W)) % VX, (c.y + (k \div W)) % VY>>
    BY <1>4 DEF CellOf
  <2> HIDE DEF W, H
  <2> QED BY <1>3, <2>1, <2>2
<1>5. ASSUME NEW i \in 0 .. W - 1, NEW j \in 0 .. H - 1
      PROVE  \E k \in Picture(c) : CellOf(c, k) = <<(c.x + i) % VX, (c.y + j) % VY>>
  <2> HIDE DEF W, H
  <2> DEFINE jw == j * W
             hw == H * W
             k == jw + i
  <2>1. i \in Nat /\ j \in Nat /\ i < W /\ j < H
    BY <1>1
  <2>2. jw \in Nat /\ hw \in Nat /\ W * H = hw
    BY <1>1, <2>1, Products
  <2>3. jw + W <= hw
    BY <1>1, <2>1, NextMultiple
  <2>4. k \in Nat /\ k < W * H
    <3> HIDE DEF jw, hw
    <3> QED BY <1>1, <2>1, <2>2, <2>3
  <2>5. k \div W = j /\ k % W = i
    BY <1>1, <2>1, <2>4, DivModUnique
  <2> HIDE DEF k
  <2>6. k \in Picture(c)
    BY <1>2, <2>4 DEF Picture, W, H
  <2>7. CellOf(c, k) = <<(c.x + i) % VX, (c.y + j) % VY>>
    BY <2>5 DEF CellOf, W
  <2> QED BY <2>6, <2>7
<1> HIDE DEF W, H
<1>6. p \in Wrapped(c.x, c.y, W, H) => \E k \in Picture(c) : CellOf(c, k) = p
  BY <1>3, <1>5
<1> QED BY <1>4, <1>6 DEF W, H

LEMMA PixelsDistinct ==
    ASSUME NEW c \in Commands, Transferring(c), NEW j \in Picture(c), NEW k \in Picture(c),
           CellOf(c, j) = CellOf(c, k)
    PROVE  j = k
<1> DEFINE W == Width(c)
           H == Height(c)
           ji == j % W
           jr == j \div W
           ki == k % W
           kr == k \div W
<1>1. /\ c.x \in Nat /\ c.y \in Nat /\ W \in 1 .. VX /\ H \in 1 .. VY
      /\ VX \in Nat \ {0} /\ VY \in Nat \ {0} /\ W \in Nat \ {0}
  BY TransferFacts
<1>2. /\ j \in Nat /\ k \in Nat
      /\ ji \in 0 .. W - 1 /\ jr \in 0 .. H - 1
      /\ ki \in 0 .. W - 1 /\ kr \in 0 .. H - 1
  BY PicturePixels
<1>3. (c.x + ji) % VX = (c.x + ki) % VX /\ (c.y + jr) % VY = (c.y + kr) % VY
  BY DEF CellOf
<1>4. jr * W + ji = j /\ kr * W + ki = k
  BY <1>1, <1>2, DivMod
<1> HIDE DEF W, H, ji, jr, ki, kr
<1>5. ASSUME NEW z \in Nat, NEW v \in Nat \ {0}, NEW a \in 0 .. v - 1, NEW b \in 0 .. v - 1,
             (z + a) % v = (z + b) % v
      PROVE  a = b
  <2>1. ASSUME NEW s \in 0 .. v - 1, NEW t \in 0 .. v - 1, (z + s) % v = (z + t) % v, s <= t
        PROVE  s = t
    <3> DEFINE d == t - s
               y == z + s
    <3>1. d \in Nat /\ d < v /\ y \in Nat /\ y + d = z + t
      BY <2>1
    <3>2. y % v = (y + d) % v
      BY <2>1, <3>1
    <3> HIDE DEF d, y
    <3>3. d = 0
      BY <3>1, <3>2, ModSame
    <3> QED BY <3>3 DEF d
  <2>2. a <= b \/ b <= a
    OBVIOUS
  <2> QED BY <1>5, <2>1, <2>2
<1>6. ji \in 0 .. VX - 1 /\ ki \in 0 .. VX - 1 /\ jr \in 0 .. VY - 1 /\ kr \in 0 .. VY - 1
  BY <1>1, <1>2
<1>7. ji = ki /\ jr = kr
  BY <1>1, <1>3, <1>5, <1>6
<1> QED BY <1>4, <1>7

\* A transfer to the video memory is uploaded in parts; they cover its picture.
UploadParts(b) ==
    LET end_x == b.x + b.w
        end_y == b.y + b.h
    IN  Clipped(b.x, b.y, b.w, b.h)
        \cup (IF end_x >= VX THEN Clipped(0, b.y, end_x % VX, b.h) ELSE {})
        \cup (IF end_y >= VY THEN Clipped(b.x, 0, b.w, end_y % VY) ELSE {})
        \cup (IF end_x >= VX /\ end_y >= VY THEN Clipped(0, 0, end_x % VX, end_y % VY) ELSE {})

LEMMA PastEnd ==
    ASSUME NEW X \in Nat, NEW v \in Nat \ {0}, NEW w \in 1 .. v, X < v
    PROVE  X + w >= v => (X + w) % v = X + w - v
<1>1. PICK n \in Nat : n = X + w
  OBVIOUS
<1>2. n < v + v
  BY <1>1
<1>3. v <= n /\ n < v + v => n % v = n - v
  BY ModSmall
<1> QED BY <1>1, <1>2, <1>3

\* The parts of an upload are the picture.
LEMMA UploadCovers ==
    ASSUME NEW c \in Commands, Transferring(c), NEW b, b.x = c.x % VX, b.y = c.y % VY,
           b.w = Width(c), b.h = Height(c), NEW p \in Cells
    PROVE  p \in UploadParts(b) <=> \E k \in Picture(c) : CellOf(c, k) = p
<1> DEFINE W == Width(c)
           H == Height(c)
           X == c.x % VX
           Y == c.y % VY
           ex == (X + W) % VX
           ey == (Y + H) % VY
           OverX == X + W >= VX
           OverY == Y + H >= VY
<1>1. /\ c.x \in Nat /\ c.y \in Nat /\ W \in 1 .. VX /\ H \in 1 .. VY
      /\ VX \in Nat \ {0} /\ VY \in Nat \ {0}
  BY TransferFacts
<1>2. X \in Nat /\ X < VX /\ Y \in Nat /\ Y < VY
  BY <1>1, DivMod
<1>3. (OverX => ex = X + W - VX) /\ (OverY => ey = Y + H - VY)
  <2> HIDE DEF X, Y, W, H
  <2> QED BY <1>1, <1>2, PastEnd
<1>4. W \in 0 .. VX /\ H \in 0 .. VY
  BY <1>1
<1>5. p \in Wrapped(c.x, c.y, W, H)
         <=> \/ Between(p, X, Y, W, H)
             \/ X + W > VX /\ Between(p, 0, Y, X + W - VX, H)
             \/ Y + H > VY /\ Between(p, X, 0, W, Y + H - VY)
             \/ X + W > VX /\ Y + H > VY /\ Between(p, 0, 0, X + W - VX, Y + H - VY)
  BY <1>1, <1>4, WrappedParts
<1>6. \A s, t, m, n : p \in Clipped(s, t, m, n) <=> Between(p, s, t, m, n)
  BY DEF Clipped, Between
<1>7. p \in UploadParts(b)
         <=> \/ p \in Clipped(X, Y, W, H)
             \/ OverX /\ p \in Clipped(0, Y, ex, H)
             \/ OverY /\ p \in Clipped(X, 0, W, ey)
             \/ OverX /\ OverY /\ p \in Clipped(0, 0, ex, ey)
  BY DEF UploadParts
<1> HIDE DEF X, Y, W, H, ex, ey, OverX, OverY
\* A part that ends at the edge has no successor: nothing is in a part of width 0.
<1>8. \A s, t \in Int : \A n : ~Between(p, s, t, 0, n) /\ ~Between(p, s, t, n, 0)
  <2>1. p[1] \in Int /\ p[2] \in Int
    BY <1>1 DEF Cells
  <2> SUFFICES ASSUME NEW s \in Int, NEW t \in Int, NEW n PROVE ~Between(p, s, t, 0, n) /\ ~Between(p, s, t, n, 0)
    OBVIOUS
  <2> QED BY <2>1 DEF Between
<1>a. X \in Int /\ Y \in Int /\ 0 \in Int
  BY <1>2
<1>9. /\ OverX <=> X + W > VX \/ X + W - VX = 0
      /\ OverY <=> Y + H > VY \/ Y + H - VY = 0
  BY <1>1, <1>2 DEF OverX, OverY
<1>10. p \in UploadParts(b) <=> p \in Wrapped(c.x, c.y, W, H)
  <2>1. OverX /\ Between(p, 0, Y, ex, H) <=> X + W > VX /\ Between(p, 0, Y, X + W - VX, H)
    BY <1>3, <1>8, <1>9, <1>a
  <2>2. OverY /\ Between(p, X, 0, W, ey) <=> Y + H > VY /\ Between(p, X, 0, W, Y + H - VY)
    BY <1>3, <1>8, <1>9, <1>a
  <2>3. OverX /\ OverY /\ Between(p, 0, 0, ex, ey)
          <=> X + W > VX /\ Y + H > VY /\ Between(p, 0, 0, X + W - VX, Y + H - VY)
    BY <1>3, <1>8, <1>9, <1>a
  <2> QED BY <1>5, <1>6, <1>7, <2>1, <2>2, <2>3
<1> QED BY <1>10, PictureCovers DEF W, H

(***************************************************************************)
(* What commands paint, as the painter has it.                             *)
(***************************************************************************)
\* The video memory after a fill, a copy or a transfer, as the painter has it.
FilledOn(c, now, n) ==
    LET cells == Wrapped(Aligned(c.x), c.y, Aligned((c.w % VX) + ALIGN - 1), c.h % VY)
    IN  [p \in Cells |-> IF p \in cells THEN Datum(n, 0) ELSE now[p]]

MovedOn(c, now) ==
    [p \in Cells |->
        IF p \in Wrapped(c.x, c.y, Width(c), Height(c))
        THEN now[<<(p[1] - c.x + c.sx) % VX, (p[2] - c.y + c.sy) % VY>>]
        ELSE now[p]]

SentOn(c, now, n) ==
    [p \in Cells |->
        LET ks == {k \in 0 .. Width(c) * Height(c) - 1 : CellOf(c, k) = p}
        IN  IF ks = {} THEN now[p] ELSE Datum(n, CHOOSE k \in ks : TRUE)]

\* A fill in the renderer is a fill of the painter.
LEMMA FillIsPainted ==
    ASSUME NEW q, Sound(q), NEW c \in Commands, c.op = "QUICK_FILL", NEW n
    PROVE  LET w == Aligned((c.w % VX) + ALIGN - 1)
               h == c.h % VY
               s == SyncTextures(FlushCommands(q))
               r == IF w = 0 \/ h = 0 THEN s
                    ELSE Fill(s, Aligned(c.x % VX), c.y % VY, w, h, Datum(n, 0))
           IN  Becomes(q, r, FilledOn(c, Image(q), n))
<1> DEFINE w == Aligned((c.w % VX) + ALIGN - 1)
           h == c.h % VY
           s == SyncTextures(FlushCommands(q))
           fill == Fill(s, Aligned(c.x % VX), c.y % VY, w, h, Datum(n, 0))
           r == IF w = 0 \/ h = 0 THEN s ELSE fill
           parts == FillParts(Aligned(c.x % VX), c.y % VY, w, h)
           cells == Wrapped(Aligned(c.x), c.y, w, h)
           datum == Datum(n, 0)
           image == Image(q)
<1>1. c.x \in Nat /\ c.y \in Nat /\ c.w \in Nat /\ c.h \in Nat
  BY GpuCommandsAssumption DEF CommandType
<1>2. \A p \in Cells : /\ p \in parts <=> p \in cells
                       /\ w = 0 \/ h = 0 => p \notin cells
  BY <1>1, FilledCells
<1>3. FilledOn(c, image, n) = [p \in Cells |-> IF p \in cells THEN datum ELSE image[p]]
  BY DEF FilledOn
<1>4. Same(q, s) /\ Clean(s)
  BY CleanedKeeps
<1> HIDE DEF s, w, h
<1>5. Sound(s) /\ Image(s) = image /\ s.commands = << >>
  BY <1>4, Zenon DEF Same, Clean
<1>6. IsImage(image)
  BY <1>5, Zenon DEF Sound
<1> DEFINE Painted == Becomes(q, r, FilledOn(c, image, n))
<1>7. ASSUME w = 0 \/ h = 0 PROVE Painted
  <2>1. r = s
    BY <1>7
  <2>2. image = [p \in Cells |-> image[p]]
    BY <1>6 DEF IsImage
  <2> HIDE DEF image, cells, datum
  <2>3. \A p \in Cells : p \notin cells
    BY <1>2, <1>7, Zenon
  <2>4. FilledOn(c, image, n) = [p \in Cells |-> image[p]]
    BY <1>3, <2>3
  <2>5. Same(q, s) => Becomes(q, s, image)
    BY Zenon DEF Same, Becomes, image
  <2> QED BY <1>4, <2>1, <2>2, <2>4, <2>5 DEF image
<1>8. ASSUME ~(w = 0 \/ h = 0) PROVE Painted
  <2>1. r = fill
    BY <1>8
  <2> DEFINE over == Over(image, parts, [p \in Cells |-> datum])
  <2>2. Becomes(s, fill, Over(Image(s), parts, [p \in Cells |-> datum]))
    BY <1>5, FillPaints
  <2>3. over = FilledOn(c, image, n)
    <3> HIDE DEF image, cells, datum, parts
    <3> QED BY <1>2, <1>3 DEF Over
  <2> HIDE DEF image, parts, datum, fill
  <2>4. Becomes(s, fill, over)
    BY <1>5, <2>2, Zenon
  <2>5. Becomes(q, fill, over)
    BY <1>4, <2>4, Zenon DEF Same, Becomes
  <2> QED BY <2>1, <2>3, <2>5 DEF image
<1>9. Painted
  BY <1>7, <1>8
<1> QED BY <1>9 DEF s, w, h

\* A copy that stays inside the video memory.
CopyInside(c) ==
    /\ Inside(c.sx % VX, c.sy % VY, Width(c), Height(c))
    /\ Inside(c.x % VX, c.y % VY, Width(c), Height(c))

\* A column of the target of a copy, and the column it is copied from.
InTarget(a, x, sx, v, w) ==
    a \in x % v .. (x % v) + w - 1 /\ (sx % v) + w <= v

HasSource(a, x, sx, v) ==
    /\ a - (x % v) + (sx % v) \in 0 .. v - 1
    /\ (a - x + sx) % v = a - (x % v) + (sx % v)

LEMMA SourceOf ==
    ASSUME NEW x \in Nat, NEW sx \in Nat, NEW v \in Nat \ {0}, NEW w \in 1 .. v, NEW a \in Nat,
           InTarget(a, x, sx, v, w)
    PROVE  HasSource(a, x, sx, v)
<1> DEFINE X == x % v
           S == sx % v
           i == x \div v
           j == sx \div v
           iv == i * v
           jv == j * v
           d == a - X + S
<1>1. X \in Nat /\ S \in Nat /\ i \in Nat /\ j \in Nat /\ iv + X = x /\ jv + S = sx
  BY DivMod
<1>2. iv \in Nat /\ jv \in Nat
  BY <1>1, Products
<1>3. (j - i) * v = jv - iv
  BY <1>1, Distributes
<1> HIDE DEF X, S, i, j, iv, jv
<1>4. d \in 0 .. v - 1
  BY <1>1 DEF X, S, InTarget
<1>5. a - x + sx = (jv - iv) + d
  BY <1>1, <1>2
<1> HIDE DEF d
<1>6. a - x + sx = (j - i) * v + d
  BY <1>3, <1>5
<1>7. d \in Nat /\ d < v /\ a - x + sx \in Int /\ j - i \in Int
  BY <1>1, <1>4
<1>8. (a - x + sx) % v = d
  BY <1>6, <1>7, IntModUnique
<1> QED BY <1>4, <1>8 DEF d, X, S, HasSource

\* A copy inside the video memory is a copy of the painter.
LEMMA CopyIsPainted ==
    ASSUME NEW q, Sound(q), NEW c \in Commands, c.op = "VRAM_BLIT", CopyInside(c)
    PROVE  Becomes(q, VramVramBlit(q, c.sx % VX, c.sy % VY, c.x % VX, c.y % VY,
                                   Size(c.w, VX), Size(c.h, VY)),
                   MovedOn(c, Image(q)))
<1> DEFINE W == Width(c)
           H == Height(c)
           X == c.x % VX
           Y == c.y % VY
           SX == c.sx % VX
           SY == c.sy % VY
           image == Image(q)
<1>1. /\ c.x \in Nat /\ c.y \in Nat /\ c.sx \in Nat /\ c.sy \in Nat /\ c.w \in Nat /\ c.h \in Nat
      /\ VX \in Nat \ {0} /\ VY \in Nat \ {0}
  BY GpuCommandsAssumption DEF CommandType
<1>2. W = Size(c.w, VX) /\ H = Size(c.h, VY) /\ W \in 1 .. VX /\ H \in 1 .. VY
  BY <1>1, SizeFacts DEF Width, Height
<1>3. Inside(SX, SY, W, H) /\ Inside(X, Y, W, H)
  BY DEF CopyInside
<1>4. W \in 0 .. VX /\ H \in 0 .. VY
  BY <1>1, <1>2
<1>5. \A p \in Cells : p \in Wrapped(c.x, c.y, W, H) <=> p \in Clipped(X, Y, W, H)
  BY <1>1, <1>3, <1>4, InsideCovers
<1>6. ASSUME NEW p \in Cells, p \in Clipped(X, Y, W, H)
      PROVE  /\ <<p[1] - X + SX, p[2] - Y + SY>> \in Cells
             /\ <<p[1] - X + SX, p[2] - Y + SY>>
                    = <<(p[1] - c.x + c.sx) % VX, (p[2] - c.y + c.sy) % VY>>
  <2>1. p[1] \in Nat /\ p[2] \in Nat
    BY <1>1 DEF Cells
  <2>2. p[1] \in X .. X + W - 1 /\ p[2] \in Y .. Y + H - 1
    BY <1>6 DEF Clipped
  <2>3. SX + W <= VX /\ SY + H <= VY
    BY <1>3 DEF Inside
  <2>4. HasSource(p[1], c.x, c.sx, VX) /\ HasSource(p[2], c.y, c.sy, VY)
    <3>1. InTarget(p[1], c.x, c.sx, VX, W) /\ InTarget(p[2], c.y, c.sy, VY, H)
      BY <2>2, <2>3, Zenon DEF InTarget
    <3> HIDE DEF W, H
    <3> QED BY <1>1, <1>2, <2>1, <3>1, SourceOf, Zenon
  <2>5. /\ p[1] - X + SX \in 0 .. VX - 1
        /\ (p[1] - c.x + c.sx) % VX = p[1] - X + SX
        /\ p[2] - Y + SY \in 0 .. VY - 1
        /\ (p[2] - c.y + c.sy) % VY = p[2] - Y + SY
    BY <2>4, Zenon DEF HasSource
  <2> HIDE DEF X, Y, SX, SY
  <2> QED BY <2>5 DEF Cells
<1> HIDE DEF X, Y, SX, SY, W, H
<1>7. Copied(image, SX, SY, X, Y, W, H) = MovedOn(c, image)
  <2>1. \A p \in Cells : p \in Wrapped(c.x, c.y, Width(c), Height(c)) <=> p \in Clipped(X, Y, W, H)
    BY <1>5 DEF W, H
  <2> HIDE DEF image
  <2> QED BY <1>6, <2>1 DEF Copied, MovedOn
<1>8. Becomes(q, VramVramBlit(q, SX, SY, X, Y, W, H), Copied(image, SX, SY, X, Y, W, H))
  BY VramVramBlitPaints
<1> HIDE DEF image
<1>9. Becomes(q, VramVramBlit(q, SX, SY, X, Y, W, H), MovedOn(c, image))
  BY <1>7, <1>8, Zenon
<1> QED BY <1>2, <1>9 DEF X, Y, SX, SY, image

(***************************************************************************)
(* A picture that was sent is uploaded in up to four parts.                *)
(***************************************************************************)
\* r is q after cells of image were uploaded from the buffer of the CPU.
Uploaded(q, r, image, cells) ==
    Becomes(q, r, Over(image, cells, q.cpu)) /\ r.commands = << >> /\ ~r.busy

LEMMA UploadPart ==
    ASSUME NEW q, NEW r, NEW image, NEW cells, Uploaded(q, r, image, cells), NEW on \in BOOLEAN,
           NEW x, NEW y, NEW w, NEW h
    PROVE  Uploaded(q, IF on THEN CpuVramBlit(r, x, y, w, h) ELSE r, image,
                    cells \cup (IF on THEN Clipped(x, y, w, h) ELSE {}))
<1> DEFINE part == Clipped(x, y, w, h)
           t == CpuVramBlit(r, x, y, w, h)
           over == Over(image, cells, q.cpu)
<1>1. Becomes(q, r, over) /\ r.commands = << >> /\ ~r.busy
  BY Zenon DEF Uploaded
<1>2. Sound(r) /\ Image(r) = over /\ r.area = q.area /\ r.offset = q.offset /\ r.cpu = q.cpu
  BY <1>1, Zenon DEF Becomes
<1>3. CASE ~on
  <2>1. cells \cup {} = cells
    OBVIOUS
  <2> QED BY <1>3, <2>1
<1>4. CASE on
  <2>1. Becomes(r, t, Over(Image(r), part, r.cpu)) /\ t.commands = << >> /\ ~t.busy
    BY <1>1, <1>2, CpuVramBlitPaints
  <2>2. Over(over, part, q.cpu) = Over(image, cells \cup part, q.cpu)
    <3> HIDE DEF part
    <3> QED BY DEF Over
  <2> HIDE DEF over, part, t
  <2>3. Becomes(q, t, Over(image, cells \cup part, q.cpu))
    BY <1>2, <2>1, <2>2, Zenon DEF Becomes
  <2>4. Uploaded(q, t, image, cells \cup part)
    BY <2>1, <2>3, Zenon DEF Uploaded
  <2> QED BY <1>4, <2>4 DEF part, t
<1> QED BY <1>3, <1>4

\* The buffer of the CPU holds the picture of c.
Buffered(c, cpu, n) == \A k \in Picture(c) : cpu[CellOf(c, k)] = Datum(n, k)

\* An upload of a full buffer is a picture sent to the painter.
LEMMA BufferIsSent ==
    ASSUME NEW c \in Commands, Transferring(c), NEW b, b.x = c.x % VX, b.y = c.y % VY,
           b.w = Width(c), b.h = Height(c), NEW image, NEW cpu, NEW n, Buffered(c, cpu, n)
    PROVE  Over(image, UploadParts(b), cpu) = SentOn(c, image, n)
<1> DEFINE Ks(p) == {k \in 0 .. Width(c) * Height(c) - 1 : CellOf(c, k) = p}
           sent == SentOn(c, image, n)
<1>1. sent = [p \in Cells |-> IF Ks(p) = {} THEN image[p] ELSE Datum(n, CHOOSE k \in Ks(p) : TRUE)]
  BY DEF SentOn
<1>2. ASSUME NEW p \in Cells
      PROVE  (IF p \in UploadParts(b) THEN cpu[p] ELSE image[p])
                = IF Ks(p) = {} THEN image[p] ELSE Datum(n, CHOOSE k \in Ks(p) : TRUE)
  <2>1. p \in UploadParts(b) <=> \E k \in Picture(c) : CellOf(c, k) = p
    BY UploadCovers
  <2>2. p \in UploadParts(b) <=> Ks(p) # {}
    BY <2>1 DEF Picture
  <2>3. CASE Ks(p) = {}
    BY <2>2, <2>3
  <2>4. CASE Ks(p) # {}
    <3> DEFINE j == CHOOSE k \in Ks(p) : TRUE
    <3>1. j \in Ks(p)
      BY <2>4
    <3>2. j \in Picture(c) /\ CellOf(c, j) = p
      BY <3>1 DEF Picture
    <3> HIDE DEF j
    <3>3. cpu[p] = Datum(n, j)
      BY <3>2 DEF Buffered
    <3> QED BY <2>2, <2>4, <3>3 DEF j
  <2> QED BY <2>3, <2>4
<1> HIDE DEF Ks, sent
<1>3. sent = [p \in Cells |-> IF p \in UploadParts(b) THEN cpu[p] ELSE image[p]]
  BY <1>1, <1>2
<1> QED BY <1>3 DEF Over, sent

\* The fields of the GPU's record.
LEMMA GpuFields ==
    ASSUME NEW a, NEW b, NEW c, NEW d, NEW e, NEW f, NEW g, NEW h, NEW i, NEW j,
           NEW t \in Gpus(a, b, c, d, e, f, g, h, i, j)
    PROVE  t.status = a /\ t.page = h /\ t.ren = j
  BY DEF Gpus

\* The upload at the end of a transfer paints the picture.
LEMMA FinalizePaints ==
    ASSUME NEW s, GpuRecord(s), Sound(s.ren), s.ren.commands = << >>,
           NEW c \in Commands, Transferring(c), s.wblit.x = c.x % VX, s.wblit.y = c.y % VY,
           s.wblit.w = Width(c), s.wblit.h = Height(c), NEW n, Buffered(c, s.ren.cpu, n)
    PROVE  LET t == FinalizeCpuVramBlit(s)
           IN  /\ t.status = "IDLE" /\ t.page = s.page
               /\ Becomes(s.ren, t.ren, SentOn(c, Image(s.ren), n))
<1> DEFINE b == s.wblit
           ren == s.ren
           image == Image(s.ren)
           end_x == b.x + b.w
           end_y == b.y + b.h
           over_x == end_x >= VX
           over_y == end_y >= VY
           Part(q, on, x, y, w, h) == IF on THEN CpuVramBlit(q, x, y, w, h) ELSE q
           zero == PrepareBlit(s.ren)
           one == CpuVramBlit(zero, b.x, b.y, b.w, b.h)
           two == Part(one, over_x, 0, b.y, end_x % VX, b.h)
           three == Part(two, over_y, b.x, 0, b.w, end_y % VY)
           four == Part(three, over_x /\ over_y, 0, 0, end_x % VX, end_y % VY)
           five == SyncTextures(four)
           A == Clipped(b.x, b.y, b.w, b.h)
           B == A \cup (IF over_x THEN Clipped(0, b.y, end_x % VX, b.h) ELSE {})
           C == B \cup (IF over_y THEN Clipped(b.x, 0, b.w, end_y % VY) ELSE {})
           D == C \cup (IF over_x /\ over_y THEN Clipped(0, 0, end_x % VX, end_y % VY) ELSE {})
           t == FinalizeCpuVramBlit(s)
<1>1. t = [s EXCEPT !.status = "IDLE", !.wblit = NoBlit, !.ren = five]
  BY DEF FinalizeCpuVramBlit
<1>2. over_x \in BOOLEAN /\ over_y \in BOOLEAN /\ (over_x /\ over_y) \in BOOLEAN
  OBVIOUS
<1>3. D = UploadParts(b)
  BY DEF UploadParts
<1>4. Uploaded(ren, one, image, A)
  <2>1. Same(ren, zero) /\ Clean(zero)
    BY PrepareKeeps
  <2> HIDE DEF zero
  <2>2. Sound(zero) /\ Image(zero) = image /\ zero.cpu = ren.cpu /\ zero.commands = << >>
        /\ zero.area = ren.area /\ zero.offset = ren.offset
    BY <2>1, Zenon DEF Same, Clean
  <2>3. Becomes(zero, one, Over(Image(zero), A, zero.cpu)) /\ one.commands = << >> /\ ~one.busy
    BY <2>2, CpuVramBlitPaints
  <2> HIDE DEF one, A, image, ren
  <2> QED BY <2>2, <2>3, Zenon DEF Becomes, Uploaded
<1> HIDE DEF one, ren, image, A
<1>5. Uploaded(ren, two, image, B)
  <2> HIDE DEF over_x, end_x
  <2> QED BY <1>2, <1>4, UploadPart DEF over_x
<1> HIDE DEF two, B
<1>6. Uploaded(ren, three, image, C)
  <2> HIDE DEF over_y, end_y
  <2> QED BY <1>2, <1>5, UploadPart DEF over_y
<1> HIDE DEF three, C
<1>7. Uploaded(ren, four, image, D)
  <2> DEFINE both == over_x /\ over_y
  <2>1. both \in BOOLEAN
    BY <1>2
  <2>2. four = Part(three, both, 0, 0, end_x % VX, end_y % VY)
    OBVIOUS
  <2>3. D = C \cup (IF both THEN Clipped(0, 0, end_x % VX, end_y % VY) ELSE {})
    OBVIOUS
  <2> HIDE DEF both, four, D, end_x, end_y
  <2> QED BY <1>6, <2>1, <2>2, <2>3, UploadPart
<1> HIDE DEF four, D
<1>8. Becomes(ren, four, Over(image, D, ren.cpu)) /\ four.commands = << >> /\ ~four.busy
  BY <1>7, Zenon DEF Uploaded
<1>9. Sound(four)
  BY <1>8, Zenon DEF Becomes
<1>10. Same(four, five)
  BY <1>8, <1>9, SyncKeeps, Zenon
<1> HIDE DEF five
<1>11. Becomes(ren, five, Over(image, D, ren.cpu))
  BY <1>8, <1>10, Zenon DEF Becomes, Same
<1>12. Over(image, D, ren.cpu) = SentOn(c, image, n)
  BY <1>3, BufferIsSent DEF b, ren
<1> HIDE DEF t
<1>13. t \in Gpus("IDLE", s.fifo, s.rem, s.read, NoBlit, s.rblit, s.dreq, s.page, s.raw, five)
  <2> HIDE DEF b, end_x, end_y, over_x, over_y
  <2> QED BY <1>1 DEF GpuRecord, Gpus
<1>14. t.status = "IDLE" /\ t.page = s.page /\ t.ren = five
  BY <1>13, GpuFields
<1>15. Becomes(ren, t.ren, SentOn(c, image, n))
  BY <1>11, <1>12, <1>14
<1> QED BY <1>14, <1>15 DEF t, ren, image

(***************************************************************************)
(* What a command does to the video memory and the settings.               *)
(***************************************************************************)
NextPage(c, page) ==
    CASE c.op = "TEXPAGE" -> c.page
      [] c.op = "POLYGON" -> PageOf(c, page)
      [] OTHER            -> page

NextArea(c, area) ==
    CASE c.op = "SET_DRAW_TOP"    -> [area EXCEPT !.left = c.x, !.top = c.y]
      [] c.op = "SET_DRAW_BOTTOM" -> [area EXCEPT !.right = c.x, !.bottom = c.y]
      [] OTHER                    -> area

NextOffset(c, offset) == IF c.op = "SET_DRAW_OFFSET" THEN c.x ELSE offset

NextImage(c, q, page, n) ==
    CASE Draws(c)               -> DrawnOn(c, q, page, n)
      [] c.op = "QUICK_FILL"    -> FilledOn(c, Image(q), n)
      [] c.op = "VRAM_BLIT"     -> MovedOn(c, Image(q))
      [] c.op = "CPU_VRAM_BLIT" -> SentOn(c, Image(q), n)
      [] OTHER                  -> Image(q)

\* From s to t, c is carried out; or a word of it is taken that is not the last.
Ended(s, t, c, n) ==
    /\ Sound(t.ren)
    /\ t.page = NextPage(c, s.page)
    /\ t.ren.area = NextArea(c, s.ren.area)
    /\ t.ren.offset = NextOffset(c, s.ren.offset)
    /\ Image(t.ren) = NextImage(c, s.ren, s.page, n)
    /\ ~Paints(c) /\ (Clean(s.ren) \/ c.op = "CLEAR_CACHE") => Clean(t.ren)

Passed(s, t) ==
    /\ Sound(t.ren) /\ t.page = s.page /\ Image(t.ren) = Image(s.ren)
    /\ t.ren.area = s.ren.area /\ t.ren.offset = s.ren.offset
    /\ Clean(s.ren) => Clean(t.ren)

\* A command that changes the picture only.
LEMMA PictureEnds ==
    ASSUME NEW s, NEW t, NEW c, NEW n,
           c.op \notin {"TEXPAGE", "POLYGON", "SET_DRAW_TOP", "SET_DRAW_BOTTOM", "SET_DRAW_OFFSET"},
           t.page = s.page,
           Becomes(s.ren, t.ren, NextImage(c, s.ren, s.page, n)), Paints(c)
    PROVE  Ended(s, t, c, n)
<1>1. NextPage(c, s.page) = s.page
  BY DEF NextPage
<1>2. NextArea(c, s.ren.area) = s.ren.area
  BY DEF NextArea
<1>3. NextOffset(c, s.ren.offset) = s.ren.offset
  BY DEF NextOffset
<1> QED BY <1>1, <1>2, <1>3, Zenon DEF Ended, Becomes

\* Drawing commands, fills and copies are carried out when they are complete.
LEMMA DrawEnds ==
    ASSUME NEW s, GpuRecord(s), Sound(s.ren), s.page \in Nat, NEW c \in Commands, Draws(c),
           NEW n \in Nat, Textured(c) => Clean(s.ren)
    PROVE  Draw(s, c, n).status = "IDLE" /\ Ended(s, Draw(s, c, n), c, n)
<1> DEFINE pg == IF c.op = "POLYGON" THEN PageOf(c, s.page) ELSE s.page
           prims == Primitives(c, s.page, n)
           r == Collected(s.ren, prims)
           t == Draw(s, c, n)
<1>1. t = [s EXCEPT !.status = "IDLE", !.page = pg, !.ren = r]
  BY DEF Draw, Collected
<1>2. pg = NextPage(c, s.page)
  BY DEF NextPage, Draws
<1>3. NextArea(c, s.ren.area) = s.ren.area /\ NextOffset(c, s.ren.offset) = s.ren.offset
  BY DEF NextArea, NextOffset, Draws
<1>4. NextImage(c, s.ren, s.page, n) = DrawnOn(c, s.ren, s.page, n)
  <2>1. c.op \notin {"QUICK_FILL", "VRAM_BLIT", "CPU_VRAM_BLIT"}
    BY DEF Draws
  <2> QED BY <2>1 DEF NextImage
<1>5. Becomes(s.ren, r, DrawnOn(c, s.ren, s.page, n)) /\ (~Paints(c) => r = s.ren)
  BY DrawPaints
<1>6. ~Paints(c) /\ (Clean(s.ren) \/ c.op = "CLEAR_CACHE") => Clean(r)
  <2>1. c.op # "CLEAR_CACHE"
    BY DEF Draws
  <2> HIDE DEF r
  <2> QED BY <1>5, <2>1, Zenon
<1> HIDE DEF r, pg, t
<1>7. t \in Gpus("IDLE", s.fifo, s.rem, s.read, s.wblit, s.rblit, s.dreq, pg, s.raw, r)
  BY <1>1 DEF GpuRecord, Gpus
<1>8. t.status = "IDLE" /\ t.page = pg /\ t.ren = r
  BY <1>7, GpuFields
<1>9. Ended(s, t, c, n)
  BY <1>2, <1>3, <1>4, <1>5, <1>6, <1>8, Zenon DEF Ended, Becomes
<1> QED BY <1>8, <1>9 DEF t

LEMMA FillEnds ==
    ASSUME NEW s, GpuRecord(s), Sound(s.ren), NEW c \in Commands, c.op = "QUICK_FILL", NEW n
    PROVE  QuickFill(s, c, n).status = "IDLE" /\ Ended(s, QuickFill(s, c, n), c, n)
<1> DEFINE w == Aligned((c.w % VX) + ALIGN - 1)
           h == c.h % VY
           q == SyncTextures(FlushCommands(s.ren))
           r == IF w = 0 \/ h = 0 THEN q
                ELSE Fill(q, Aligned(c.x % VX), c.y % VY, w, h, Datum(n, 0))
           t == QuickFill(s, c, n)
<1>1. t = [s EXCEPT !.status = "IDLE", !.ren = r]
  BY DEF QuickFill
<1>2. Becomes(s.ren, r, FilledOn(c, Image(s.ren), n))
  BY FillIsPainted
<1>3. NextImage(c, s.ren, s.page, n) = FilledOn(c, Image(s.ren), n)
  BY DEF NextImage, Draws
<1>4. Paints(c)
  BY DEF Paints
<1> HIDE DEF r, t
<1>5. t \in Gpus("IDLE", s.fifo, s.rem, s.read, s.wblit, s.rblit, s.dreq, s.page, s.raw, r)
  BY <1>1 DEF GpuRecord, Gpus
<1>6. t.status = "IDLE" /\ t.page = s.page /\ t.ren = r
  BY <1>5, GpuFields
<1>7. c.op \notin {"TEXPAGE", "POLYGON", "SET_DRAW_TOP", "SET_DRAW_BOTTOM", "SET_DRAW_OFFSET"}
  OBVIOUS
<1>8. Becomes(s.ren, t.ren, NextImage(c, s.ren, s.page, n))
  BY <1>2, <1>3, <1>6, Zenon
<1>9. Ended(s, t, c, n)
  BY <1>4, <1>6, <1>7, <1>8, PictureEnds, Zenon
<1> QED BY <1>6, <1>9 DEF t

LEMMA CopyEnds ==
    ASSUME NEW s, GpuRecord(s), Sound(s.ren), NEW c \in Commands, c.op = "VRAM_BLIT",
           CopyInside(c), NEW n
    PROVE  LET t == [s EXCEPT !.status = "IDLE",
                         !.ren = VramVramBlit(@, c.sx % VX, c.sy % VY, c.x % VX, c.y % VY,
                                              Size(c.w, VX), Size(c.h, VY))]
           IN  t.status = "IDLE" /\ Ended(s, t, c, n)
<1> DEFINE r == VramVramBlit(s.ren, c.sx % VX, c.sy % VY, c.x % VX, c.y % VY,
                             Size(c.w, VX), Size(c.h, VY))
           t == [s EXCEPT !.status = "IDLE", !.ren = r]
<1>2. Becomes(s.ren, r, MovedOn(c, Image(s.ren)))
  BY CopyIsPainted
<1>3. NextImage(c, s.ren, s.page, n) = MovedOn(c, Image(s.ren))
  BY DEF NextImage, Draws
<1>4. Paints(c)
  BY DEF Paints
<1> HIDE DEF r
<1>5. t \in Gpus("IDLE", s.fifo, s.rem, s.read, s.wblit, s.rblit, s.dreq, s.page, s.raw, r)
  BY DEF GpuRecord, Gpus
<1> HIDE DEF t
<1>6. t.status = "IDLE" /\ t.page = s.page /\ t.ren = r
  BY <1>5, GpuFields
<1>7. c.op \notin {"TEXPAGE", "POLYGON", "SET_DRAW_TOP", "SET_DRAW_BOTTOM", "SET_DRAW_OFFSET"}
  OBVIOUS
<1>8. Becomes(s.ren, t.ren, NextImage(c, s.ren, s.page, n))
  BY <1>2, <1>3, <1>6, Zenon
<1>9. Ended(s, t, c, n)
  BY <1>4, <1>6, <1>7, <1>8, PictureEnds, Zenon
<1> QED BY <1>6, <1>9 DEF t, r

\* A command of one word changes settings and clears the texture cache.
LEMMA SettingEnds ==
    ASSUME NEW s, NEW t, NEW c \in Commands, Short(c), NEW n, Sound(t.ren),
           t.page = NextPage(c, s.page), t.ren.area = NextArea(c, s.ren.area),
           t.ren.offset = NextOffset(c, s.ren.offset), Image(t.ren) = Image(s.ren),
           Clean(s.ren) \/ c.op = "CLEAR_CACHE" => Clean(t.ren)
    PROVE  Ended(s, t, c, n)
<1>1. NextImage(c, s.ren, s.page, n) = Image(s.ren)
  BY DEF NextImage, Short, Draws
<1> QED BY <1>1, Zenon DEF Ended

\* The renderer of a GPU record is replaced.
LEMMA RendererSet ==
    ASSUME NEW s, GpuRecord(s), NEW rn, NEW t, t = [s EXCEPT !.ren = rn]
    PROVE  t.status = s.status /\ t.page = s.page /\ t.ren = rn
<1>1. t \in Gpus(s.status, s.fifo, s.rem, s.read, s.wblit, s.rblit, s.dreq, s.page, s.raw, rn)
  BY DEF GpuRecord, Gpus
<1> QED BY <1>1, GpuFields

\* The rule for pages: what was selected before is selected, or not the last
\* page that TEXPAGE wrote.
PageRule(s, c) == c.op = "TEXPAGE" => s.page = c.page \/ s.raw # c.page

\* The commands of one word.
LEMMA NopEnds ==
    ASSUME NEW s, GpuRecord(s), Sound(s.ren), NEW c \in Commands, NEW n, c.op = "NOP"
    PROVE  Ended(s, s, c, n)
<1>1. /\ NextPage(c, s.page) = s.page /\ NextArea(c, s.ren.area) = s.ren.area
      /\ NextOffset(c, s.ren.offset) = s.ren.offset /\ Short(c)
  BY DEF NextPage, NextArea, NextOffset, Short
<1>2. Clean(s.ren) \/ c.op = "CLEAR_CACHE" => Clean(s.ren)
  OBVIOUS
<1> QED BY <1>1, <1>2, SettingEnds

LEMMA CacheEnds ==
    ASSUME NEW s, GpuRecord(s), Sound(s.ren), NEW c \in Commands, NEW n, c.op = "CLEAR_CACHE"
    PROVE  LET t == [s EXCEPT !.ren = SyncTextures(FlushCommands(@))]
           IN  t.status = s.status /\ Ended(s, t, c, n)
<1> DEFINE rn == SyncTextures(FlushCommands(s.ren))
           t == [s EXCEPT !.ren = rn]
<1>1. /\ NextPage(c, s.page) = s.page /\ NextArea(c, s.ren.area) = s.ren.area
      /\ NextOffset(c, s.ren.offset) = s.ren.offset /\ Short(c)
  BY DEF NextPage, NextArea, NextOffset, Short
<1>2. Same(s.ren, rn) /\ Clean(rn)
  BY CleanedKeeps
<1> HIDE DEF rn
<1>3. t \in Gpus(s.status, s.fifo, s.rem, s.read, s.wblit, s.rblit, s.dreq, s.page, s.raw, rn)
  BY DEF GpuRecord, Gpus
<1> HIDE DEF t
<1>4. t.status = s.status /\ t.page = s.page /\ t.ren = rn
  BY <1>3, GpuFields
<1>5. /\ Sound(t.ren) /\ t.ren.area = s.ren.area /\ t.ren.offset = s.ren.offset
      /\ Image(t.ren) = Image(s.ren) /\ Clean(t.ren)
  BY <1>2, <1>4, Zenon DEF Same
<1>6. Ended(s, t, c, n)
  BY <1>1, <1>4, <1>5, SettingEnds
<1> QED BY <1>4, <1>6 DEF t, rn

LEMMA PageEnds ==
    ASSUME NEW s, GpuRecord(s), Sound(s.ren), NEW c \in Commands, NEW n,
           c.op = "TEXPAGE", PageRule(s, c)
    PROVE  Texpage(s, c).status = s.status /\ Ended(s, Texpage(s, c), c, n)
<1> DEFINE rn == SyncTextures(FlushCommands(s.ren))
           t == Texpage(s, c)
<1>1. /\ NextPage(c, s.page) = c.page /\ NextArea(c, s.ren.area) = s.ren.area
      /\ NextOffset(c, s.ren.offset) = s.ren.offset /\ Short(c)
  BY DEF NextPage, NextArea, NextOffset, Short
<1>2. CASE c.page = s.raw
  <2>1. t = s
    BY <1>2 DEF Texpage
  <2>2. t.page = c.page
    BY <1>2, <2>1 DEF PageRule
  <2>3. Clean(s.ren) \/ c.op = "CLEAR_CACHE" => Clean(t.ren)
    BY <2>1
  <2> HIDE DEF t
  <2> QED BY <1>1, <2>1, <2>2, <2>3, SettingEnds DEF t
<1>3. CASE c.page # s.raw
  <2>1. Same(s.ren, rn) /\ Clean(rn)
    BY CleanedKeeps
  <2>2. t = [s EXCEPT !.raw = c.page, !.page = c.page, !.ren = rn]
    BY <1>3 DEF Texpage
  <2> HIDE DEF rn, t
  <2>3. t \in Gpus(s.status, s.fifo, s.rem, s.read, s.wblit, s.rblit, s.dreq, c.page, c.page, rn)
    BY <2>2 DEF GpuRecord, Gpus
  <2>4. t.status = s.status /\ t.page = c.page /\ t.ren = rn
    BY <2>3, GpuFields
  <2>5. /\ Sound(t.ren) /\ t.ren.area = s.ren.area /\ t.ren.offset = s.ren.offset
        /\ Image(t.ren) = Image(s.ren) /\ Clean(t.ren)
    BY <2>1, <2>4, Zenon DEF Same
  <2>6. Ended(s, t, c, n)
    BY <1>1, <2>4, <2>5, SettingEnds
  <2> QED BY <2>4, <2>6 DEF t
<1> QED BY <1>2, <1>3

\* The drawing area and the offset.
LEMMA TargetEnds ==
    ASSUME NEW s, GpuRecord(s), Sound(s.ren), NEW c \in Commands, NEW n,
           c.op \in {"SET_DRAW_TOP", "SET_DRAW_BOTTOM", "SET_DRAW_OFFSET"},
           NEW rn, Redirected(s.ren, rn, NextArea(c, s.ren.area), NextOffset(c, s.ren.offset)),
           NEW t, t = [s EXCEPT !.ren = rn]
    PROVE  t.status = s.status /\ Ended(s, t, c, n)
<1>1. NextPage(c, s.page) = s.page /\ Short(c) /\ c.op # "CLEAR_CACHE"
  BY DEF NextPage, Short
<1>2. t.status = s.status /\ t.page = s.page /\ t.ren = rn
  BY RendererSet
<1>3. /\ Sound(t.ren) /\ t.ren.area = NextArea(c, s.ren.area)
      /\ t.ren.offset = NextOffset(c, s.ren.offset)
      /\ Image(t.ren) = Image(s.ren) /\ (Clean(s.ren) => Clean(t.ren))
  BY <1>2, Zenon DEF Redirected
<1> QED BY <1>1, <1>2, <1>3, SettingEnds

LEMMA AreaEnds ==
    ASSUME NEW s, GpuRecord(s), Sound(s.ren), NEW c \in Commands, NEW n,
           c.op \in {"SET_DRAW_TOP", "SET_DRAW_BOTTOM", "SET_DRAW_OFFSET"},
           NEW t, t = CASE c.op = "SET_DRAW_TOP"    -> DrawAreaTopLeft(s, c)
                        [] c.op = "SET_DRAW_BOTTOM" -> DrawAreaBottomRight(s, c)
                        [] c.op = "SET_DRAW_OFFSET" -> DrawOffset(s, c)
    PROVE  t.status = s.status /\ Ended(s, t, c, n)
<1> DEFINE f == FlushCommands(s.ren)
           area == NextArea(c, s.ren.area)
           offset == NextOffset(c, s.ren.offset)
<1>1. Typed(s.ren)
  BY Zenon DEF Sound
<1>2. s.ren.area \in Areas /\ s.ren.offset \in Int
  BY <1>1 DEF Typed
<1>3. c \in CommandType
  BY GpuCommandsAssumption
<1>a. ASSUME t = s, area = s.ren.area, offset = s.ren.offset
      PROVE  t.status = s.status /\ Ended(s, t, c, n)
  <2>1. NextPage(c, s.page) = s.page /\ Short(c) /\ c.op # "CLEAR_CACHE"
    BY DEF NextPage, Short
  <2>2. Clean(s.ren) \/ c.op = "CLEAR_CACHE" => Clean(t.ren)
    BY <1>a, <2>1, Zenon
  <2> HIDE DEF area, offset
  <2> QED BY <1>a, <2>1, <2>2, SettingEnds DEF area, offset
<1>b. CASE c.op = "SET_DRAW_TOP"
  <2> DEFINE rn == [f EXCEPT !.area.left = c.x, !.area.top = c.y]
  <2>1. c.x \in Int /\ c.y \in Int
    BY <1>3, <1>b DEF CommandType
  <2>2. area = [s.ren.area EXCEPT !.left = c.x, !.top = c.y] /\ offset = s.ren.offset
    BY <1>b DEF NextArea, NextOffset
  <2>3. t = DrawAreaTopLeft(s, c)
    BY <1>b
  <2>4. CASE s.ren.area.left = c.x /\ s.ren.area.top = c.y
    <3>1. t = s
      BY <2>3, <2>4 DEF DrawAreaTopLeft
    <3>2. area = s.ren.area
      <4> HIDE DEF area
      <4> QED BY <1>2, <2>2, <2>4 DEF Areas
    <3> HIDE DEF area, offset
    <3> QED BY <1>a, <2>2, <3>1, <3>2
  <2>5. CASE ~(s.ren.area.left = c.x /\ s.ren.area.top = c.y)
    <3>1. t = [s EXCEPT !.ren = rn]
      BY <2>3, <2>5 DEF DrawAreaTopLeft
    <3>2. Redirected(s.ren, rn, [s.ren.area EXCEPT !.left = c.x, !.top = c.y], s.ren.offset)
      BY <2>1, MovedCorner, ZenonT(20)
    <3> HIDE DEF rn, area, offset
    <3>3. Redirected(s.ren, rn, area, offset)
      BY <2>2, <3>2, Zenon
    <3> QED BY <3>1, <3>3, TargetEnds DEF area, offset
  <2> QED BY <2>4, <2>5
<1>c. CASE c.op = "SET_DRAW_BOTTOM"
  <2> DEFINE rn == [f EXCEPT !.area.right = c.x, !.area.bottom = c.y]
  <2>1. c.x \in Int /\ c.y \in Int
    BY <1>3, <1>c DEF CommandType
  <2>2. area = [s.ren.area EXCEPT !.right = c.x, !.bottom = c.y] /\ offset = s.ren.offset
    BY <1>c DEF NextArea, NextOffset
  <2>3. t = DrawAreaBottomRight(s, c)
    BY <1>c
  <2>4. CASE s.ren.area.right = c.x /\ s.ren.area.bottom = c.y
    <3>1. t = s
      BY <2>3, <2>4 DEF DrawAreaBottomRight
    <3>2. area = s.ren.area
      <4> HIDE DEF area
      <4> QED BY <1>2, <2>2, <2>4 DEF Areas
    <3> HIDE DEF area, offset
    <3> QED BY <1>a, <2>2, <3>1, <3>2
  <2>5. CASE ~(s.ren.area.right = c.x /\ s.ren.area.bottom = c.y)
    <3>1. t = [s EXCEPT !.ren = rn]
      BY <2>3, <2>5 DEF DrawAreaBottomRight
    <3>2. Redirected(s.ren, rn, [s.ren.area EXCEPT !.right = c.x, !.bottom = c.y], s.ren.offset)
      BY <2>1, MovedCorner, ZenonT(20)
    <3> HIDE DEF rn, area, offset
    <3>3. Redirected(s.ren, rn, area, offset)
      BY <2>2, <3>2, Zenon
    <3> QED BY <3>1, <3>3, TargetEnds DEF area, offset
  <2> QED BY <2>4, <2>5
<1>d. CASE c.op = "SET_DRAW_OFFSET"
  <2> DEFINE rn == [f EXCEPT !.offset = c.x]
  <2>1. c.x \in Int
    BY <1>3, <1>d DEF CommandType
  <2>2. area = s.ren.area /\ offset = c.x
    BY <1>d DEF NextArea, NextOffset
  <2>3. t = DrawOffset(s, c)
    BY <1>d
  <2>4. CASE s.ren.offset = c.x
    <3>1. t = s
      BY <2>3, <2>4 DEF DrawOffset
    <3> HIDE DEF area, offset
    <3> QED BY <1>a, <2>2, <2>4, <3>1
  <2>5. CASE s.ren.offset # c.x
    <3>1. t = [s EXCEPT !.ren = rn]
      BY <2>3, <2>5 DEF DrawOffset
    <3>2. Redirected(s.ren, rn, s.ren.area, c.x)
      BY <2>1, MovedCorner, ZenonT(20)
    <3> HIDE DEF rn, area, offset
    <3>3. Redirected(s.ren, rn, area, offset)
      BY <2>2, <3>2, Zenon
    <3> QED BY <3>1, <3>3, TargetEnds DEF area, offset
  <2> QED BY <2>4, <2>5
<1> QED BY <1>b, <1>c, <1>d

(***************************************************************************)
(* The handlers: what each word paints.                                    *)
(***************************************************************************)
\* CommandStart carries out a command of one word.
LEMMA ShortEnds ==
    ASSUME NEW s, GpuRecord(s), Sound(s.ren), NEW c \in Commands, NEW n, Short(c), PageRule(s, c)
    PROVE  LET t == CommandStart(s, [cmd |-> c, i |-> 0])
           IN  t.status = s.status /\ Ended(s, t, c, n)
<1> DEFINE word == [cmd |-> c, i |-> 0]
           t == CommandStart(s, word)
           Done(v) == v.status = s.status /\ Ended(s, v, c, n)
<1>1. word.cmd = c /\ word.i = 0 /\ ~(word.i > 0)
  OBVIOUS
<1> HIDE DEF word
<1>a. CASE c.op = "NOP"
  <2>1. t = s
    BY <1>1, <1>a DEF CommandStart
  <2> QED BY <1>a, <2>1, NopEnds DEF word
<1>b. CASE c.op = "CLEAR_CACHE"
  <2> DEFINE u == [s EXCEPT !.ren = SyncTextures(FlushCommands(@))]
  <2>1. t = u
    BY <1>1, <1>b DEF CommandStart
  <2>2. Done(u)
    BY <1>b, CacheEnds
  <2> HIDE DEF u
  <2> QED BY <2>1, <2>2 DEF word
<1>c. CASE c.op = "TEXPAGE"
  <2>1. t = Texpage(s, c)
    BY <1>1, <1>c DEF CommandStart
  <2>2. Done(Texpage(s, c))
    BY <1>c, PageEnds
  <2> QED BY <2>1, <2>2 DEF word
<1>d. CASE c.op \in {"SET_DRAW_TOP", "SET_DRAW_BOTTOM", "SET_DRAW_OFFSET"}
  <2> DEFINE u == CASE c.op = "SET_DRAW_TOP"    -> DrawAreaTopLeft(s, c)
                    [] c.op = "SET_DRAW_BOTTOM" -> DrawAreaBottomRight(s, c)
                    [] c.op = "SET_DRAW_OFFSET" -> DrawOffset(s, c)
  <2>1. t = u
    <3>1. CASE c.op = "SET_DRAW_TOP"
      BY <1>1, <3>1 DEF CommandStart
    <3>2. CASE c.op = "SET_DRAW_BOTTOM"
      BY <1>1, <3>2 DEF CommandStart
    <3>3. CASE c.op = "SET_DRAW_OFFSET"
      BY <1>1, <3>3 DEF CommandStart
    <3> QED BY <1>d, <3>1, <3>2, <3>3
  <2>2. Done(u)
    BY <1>d, AreaEnds
  <2> HIDE DEF u
  <2> QED BY <2>1, <2>2 DEF word
<1> QED BY <1>a, <1>b, <1>c, <1>d DEF Short

\* A word that waits in the queue paints nothing.
LEMMA QueuedPasses ==
    ASSUME NEW s, NEW t, Sound(s.ren), t.page = s.page, t.ren = s.ren
    PROVE  Passed(s, t)
  BY Zenon DEF Passed

\* The renderer changes without a trace.
LEMMA SamePasses ==
    ASSUME NEW s, NEW t, t.page = s.page, Same(s.ren, t.ren), Clean(s.ren) => Clean(t.ren)
    PROVE  Passed(s, t)
  BY Zenon DEF Passed, Same

\* What the buffer of the CPU holds during a transfer of c: the pixels sent so
\* far, or the picture to read.
Buffers(s, c, sent, n) ==
    /\ s.status = "CPU_VRAM_BLIT" =>
            /\ s.ren.commands = << >>
            /\ \A k \in Picture(c) : k < 2 * (sent - 3) => s.ren.cpu[CellOf(c, k)] = Datum(n, k)
    /\ s.status = "VRAM_CPU_BLIT" =>
            \A k \in Picture(c) : s.ren.cpu[CellOf(c, k)] = Image(s.ren)[CellOf(c, k)]

\* Outside of transfers the buffer of the CPU does not matter.
LEMMA NoBuffers ==
    ASSUME NEW s, s.status \notin {"CPU_VRAM_BLIT", "VRAM_CPU_BLIT"}, NEW c, NEW sent, NEW n
    PROVE  Buffers(s, c, sent, n)
  BY DEF Buffers

\* A guest that keeps the rules: textures after the cache was cleared, copies
\* and pictures to read inside the video memory.
Kept(c, clean) ==
    /\ Textured(c) => clean
    /\ c.op = "VRAM_BLIT" => CopyInside(c)
    /\ c.op = "VRAM_CPU_BLIT" => Inside(c.x % VX, c.y % VY, Width(c), Height(c))

\* The start of a transfer.
LEMMA UploadStarts ==
    ASSUME NEW s, GpuRecord(s), Sound(s.ren), NEW c \in Commands, c.op = "CPU_VRAM_BLIT", NEW n
    PROVE  LET t == [s EXCEPT !.status = "CPU_VRAM_BLIT", !.wblit = Blit(c),
                              !.ren = BeginCpuVramBlit(@)]
           IN  Passed(s, t) /\ Buffers(t, c, 3, n)
<1> DEFINE b == Blit(c)
           r == DrawBatch(s.ren)
           t == [s EXCEPT !.status = "CPU_VRAM_BLIT", !.wblit = b, !.ren = r]
<1>1. [s EXCEPT !.status = "CPU_VRAM_BLIT", !.wblit = Blit(c), !.ren = BeginCpuVramBlit(@)] = t
  BY DEF BeginCpuVramBlit
<1>2. Same(s.ren, r) /\ r.commands = << >> /\ (s.ren.commands = << >> => r = s.ren)
  BY DrawBatchKeeps
<1> HIDE DEF b, r
<1>3. t \in Gpus("CPU_VRAM_BLIT", s.fifo, s.rem, s.read, b, s.rblit, s.dreq, s.page, s.raw, r)
  BY DEF GpuRecord, Gpus
<1> HIDE DEF t
<1>4. t.status = "CPU_VRAM_BLIT" /\ t.page = s.page /\ t.ren = r
  BY <1>3, GpuFields
<1>5. Clean(s.ren) => Clean(t.ren)
  BY <1>2, <1>4, Zenon DEF Clean
<1>6. Passed(s, t)
  BY <1>2, <1>4, <1>5, SamePasses
<1>7. \A k \in Picture(c) : ~(k < 2 * (3 - 3))
  BY TransferFacts, PicturePixels DEF Transferring
<1>8. Buffers(t, c, 3, n)
  BY <1>2, <1>4, <1>7 DEF Buffers
<1> QED BY <1>1, <1>6, <1>8

LEMMA DownloadStarts ==
    ASSUME NEW s, GpuRecord(s), Sound(s.ren), NEW c \in Commands, c.op = "VRAM_CPU_BLIT", NEW n,
           Inside(c.x % VX, c.y % VY, Width(c), Height(c))
    PROVE  LET b == Blit(c)
               t == [s EXCEPT !.status = "VRAM_CPU_BLIT", !.read = "READ_VRAM", !.rblit = b,
                              !.ren = VramCpuBlit(@, b.x, b.y, b.w, b.h)]
           IN  Ended(s, t, c, n) /\ Buffers(t, c, 3, n)
<1> DEFINE b == Blit(c)
           r == VramCpuBlit(s.ren, b.x, b.y, b.w, b.h)
           t == [s EXCEPT !.status = "VRAM_CPU_BLIT", !.read = "READ_VRAM", !.rblit = b, !.ren = r]
           x == c.x % VX
           y == c.y % VY
           W == Width(c)
           H == Height(c)
<1>1. Transferring(c)
  BY DEF Transferring
<1>2. c.x \in Nat /\ c.y \in Nat /\ W \in 0 .. VX /\ H \in 0 .. VY
  <2>1. c.x \in Nat /\ c.y \in Nat /\ W \in 1 .. VX /\ H \in 1 .. VY
        /\ VX \in Nat \ {0} /\ VY \in Nat \ {0}
    BY <1>1, TransferFacts
  <2> HIDE DEF W, H
  <2> QED BY <2>1
<1>3. b.x = x /\ b.y = y /\ b.w = W /\ b.h = H
  BY DEF Blit, Width, Height
<1>4. /\ Sound(r) /\ Image(r) = Image(s.ren) /\ r.area = s.ren.area /\ r.offset = s.ren.offset
      /\ (Clean(s.ren) => Clean(r))
      /\ Inside(x, y, W, H) => \A p \in Clipped(x, y, W, H) : r.cpu[p] = Image(s.ren)[p]
  <2>1. r = VramCpuBlit(s.ren, x, y, W, H)
    BY <1>3
  <2> HIDE DEF r, x, y, W, H
  <2> QED BY <2>1, VramCpuBlitKeeps
<1> HIDE DEF b, r
<1>5. t \in Gpus("VRAM_CPU_BLIT", s.fifo, s.rem, "READ_VRAM", s.wblit, b, s.dreq, s.page, s.raw, r)
  BY DEF GpuRecord, Gpus
<1> HIDE DEF t
<1>6. t.status = "VRAM_CPU_BLIT" /\ t.page = s.page /\ t.ren = r
  BY <1>5, GpuFields
<1>7. Ended(s, t, c, n)
  <2>1. /\ NextPage(c, s.page) = s.page /\ NextArea(c, s.ren.area) = s.ren.area
        /\ NextOffset(c, s.ren.offset) = s.ren.offset /\ c.op # "CLEAR_CACHE"
    BY DEF NextPage, NextArea, NextOffset
  <2>2. NextImage(c, s.ren, s.page, n) = Image(s.ren)
    BY DEF NextImage, Draws
  <2> QED BY <1>4, <1>6, <2>1, <2>2, Zenon DEF Ended
<1>8. \A k \in Picture(c) : t.ren.cpu[CellOf(c, k)] = Image(t.ren)[CellOf(c, k)]
  <2> TAKE k \in Picture(c)
  <2>1. CellOf(c, k) \in Cells
    BY <1>1, PicturePixels
  <2>2. CellOf(c, k) \in Wrapped(c.x, c.y, W, H)
    BY <1>1, PictureCovers
  <2>3. CellOf(c, k) \in Clipped(x, y, W, H)
    BY <1>2, <2>1, <2>2, InsideCovers
  <2> HIDE DEF x, y, W, H
  <2> QED BY <1>4, <1>6, <2>3 DEF x, y, W, H
<1>9. Buffers(t, c, 3, n)
  BY <1>6, <1>8 DEF Buffers
<1> QED BY <1>7, <1>9 DEF t, r, b

\* Taking words out of the queue paints nothing.
LEMMA FromSame ==
    ASSUME NEW s, NEW u, u.ren = s.ren, u.page = s.page, NEW t, NEW c, NEW n
    PROVE  /\ Ended(u, t, c, n) => Ended(s, t, c, n)
           /\ Passed(u, t) => Passed(s, t)
<1>1. Ended(u, t, c, n) => Ended(s, t, c, n)
  BY Zenon DEF Ended
<1>2. Passed(u, t) => Passed(s, t)
  BY Zenon DEF Passed
<1> QED BY <1>1, <1>2

\* A complete command: carried out, or the header of a transfer.
CarriedOut(s, t, c, n) ==
    /\ IF c.op = "CPU_VRAM_BLIT" THEN Passed(s, t) ELSE Ended(s, t, c, n)
    /\ IF Transferring(c) THEN Buffers(t, c, 3, n) ELSE t.status = "IDLE"

\* A complete command is carried out.
LEMMA CommandEndPaints ==
    ASSUME NEW s, GpuRecord(s), Sound(s.ren), s.page \in Nat, NEW n \in Nat, NEW c \in Commands,
           s.fifo[1].cmd = c, s.fifo \in Seq(Word), ~Short(c),
           Dequeued(c, Len(s.fifo)) = Len(s.fifo), Kept(c, Clean(s.ren))
    PROVE  CarriedOut(s, CommandEnd(s, n), c, n)
<1> DEFINE len == Len(s.fifo)
           f == SubSeq(s.fifo, Dequeued(c, len) + 1, len)
           u == [s EXCEPT !.fifo = f]
           t == CommandEnd(s, n)
<1>0. u = [s EXCEPT !.fifo = SubSeq(@, Dequeued(c, len) + 1, len)]
  OBVIOUS
<1>1. GpuRecord(u) /\ u.ren = s.ren /\ u.page = s.page
  <2> HIDE DEF f
  <2>1. u \in Gpus(s.status, f, s.rem, s.read, s.wblit, s.rblit, s.dreq, s.page, s.raw, s.ren)
    BY DEF GpuRecord, Gpus
  <2> HIDE DEF u
  <2>2. Shows(u, s.status, f, s.rem, s.read, s.wblit, s.rblit, s.dreq)
    BY <2>1, ShowsFields
  <2>3. u.ren = s.ren /\ u.page = s.page
    BY <2>1, GpuFields
  <2> QED BY <2>2, <2>3 DEF Shows
<1>2. Sound(u.ren) /\ u.page \in Nat
  BY <1>1
<1>3. len \in Nat /\ ~(Dequeued(c, len) > len) /\ Dequeued(c, len) <= len
  OBVIOUS
<1>4. c \in CommandType
  BY GpuCommandsAssumption
<1>5. c.op \in {"POLYGON", "LINE", "RECTANGLE", "QUICK_FILL",
               "CPU_VRAM_BLIT", "VRAM_CPU_BLIT", "VRAM_BLIT"}
  BY <1>4 DEF CommandType, Short
<1>6. (Textured(c) => Clean(u.ren)) /\ (c.op = "VRAM_BLIT" => CopyInside(c))
      /\ (c.op = "VRAM_CPU_BLIT" => Inside(c.x % VX, c.y % VY, Width(c), Height(c)))
  BY <1>1, Zenon DEF Kept
<1> HIDE DEF u, f
<1>a. CASE Draws(c)
  <2>1. t = Draw(u, c, n)
    BY <1>3, <1>a DEF CommandEnd, Draws, u, f
  <2>2. t.status = "IDLE" /\ Ended(u, t, c, n)
    BY <1>1, <1>2, <1>6, <1>a, <2>1, DrawEnds
  <2>3. c.op \notin {"CPU_VRAM_BLIT", "VRAM_CPU_BLIT"}
    BY <1>a DEF Draws
  <2> QED BY <1>1, <2>2, <2>3, FromSame DEF CarriedOut, Transferring
<1>b. CASE c.op = "QUICK_FILL"
  <2>1. t = QuickFill(u, c, n)
    BY <1>3, <1>b DEF CommandEnd, Draws, u, f
  <2>2. t.status = "IDLE" /\ Ended(u, t, c, n)
    BY <1>1, <1>2, <1>b, <2>1, FillEnds
  <2> QED BY <1>1, <1>b, <2>2, FromSame DEF CarriedOut, Transferring
<1>c. CASE c.op = "VRAM_BLIT"
  <2> DEFINE v == [u EXCEPT !.status = "IDLE",
                      !.ren = VramVramBlit(@, c.sx % VX, c.sy % VY, c.x % VX, c.y % VY,
                                           Size(c.w, VX), Size(c.h, VY))]
  <2>1. t = v
    BY <1>3, <1>c DEF CommandEnd, Draws, u, f
  <2>2. v.status = "IDLE" /\ Ended(u, v, c, n)
    BY <1>1, <1>2, <1>6, <1>c, CopyEnds, ZenonT(20)
  <2> HIDE DEF v
  <2> QED BY <1>1, <1>c, <2>1, <2>2, FromSame DEF CarriedOut, Transferring
<1>d. CASE c.op = "CPU_VRAM_BLIT"
  <2> DEFINE v == [u EXCEPT !.status = "CPU_VRAM_BLIT", !.wblit = Blit(c),
                            !.ren = BeginCpuVramBlit(@)]
  <2>1. t = v
    BY <1>3, <1>d DEF CommandEnd, Draws, u, f
  <2>2. Passed(u, v) /\ Buffers(v, c, 3, n)
    BY <1>1, <1>2, <1>d, UploadStarts, ZenonT(20)
  <2> HIDE DEF v
  <2> QED BY <1>1, <1>d, <2>1, <2>2, FromSame DEF CarriedOut, Transferring
<1>e. CASE c.op = "VRAM_CPU_BLIT"
  <2> DEFINE b == Blit(c)
             v == [u EXCEPT !.status = "VRAM_CPU_BLIT", !.read = "READ_VRAM", !.rblit = b,
                            !.ren = VramCpuBlit(@, b.x, b.y, b.w, b.h)]
  <2>1. t = v
    BY <1>3, <1>e DEF CommandEnd, Draws, u, f
  <2>2. Ended(u, v, c, n) /\ Buffers(v, c, 3, n)
    BY <1>1, <1>2, <1>6, <1>e, DownloadStarts, ZenonT(20)
  <2> HIDE DEF v
  <2> QED BY <1>1, <1>e, <2>1, <2>2, FromSame DEF CarriedOut, Transferring
<1> QED BY <1>5, <1>a, <1>b, <1>c, <1>d, <1>e DEF Draws

\* Word number sent of c is taken.
Painted(s, t, c, sent, n) ==
    /\ IF sent + 1 = Words(c) THEN Ended(s, t, c, n) ELSE Passed(s, t)
    /\ Buffers(t, c, sent + 1, n)

\* The first word, a parameter, and a word of a polyline.
LEMMA StartPaints ==
    ASSUME NEW s, GpuRecord(s), Sound(s.ren), s.status = "IDLE", NEW c \in Commands, NEW n,
           PageRule(s, c), Polyline(c) => c.n > 0
    PROVE  Painted(s, CommandStart(s, [cmd |-> c, i |-> 0]), c, 0, n)
<1> DEFINE word == [cmd |-> c, i |-> 0]
           f == Append(s.fifo, word)
           t == CommandStart(s, word)
<1>1. word.cmd = c /\ word.i = 0 /\ ~(word.i > 0)
  OBVIOUS
<1>a. CASE Short(c)
  <2>1. t.status = "IDLE" /\ Ended(s, t, c, n)
    BY <1>a, ShortEnds
  <2>2. 0 + 1 = Words(c)
    BY <1>a, ShortWords
  <2>3. Buffers(t, c, 0 + 1, n)
    BY <2>1, NoBuffers
  <2> QED BY <2>1, <2>2, <2>3 DEF Painted
<1>b. CASE ~Short(c)
  <2> DEFINE st == IF Polyline(c) THEN IF c.gouraud THEN "POLYLINE_GOURAUD" ELSE "POLYLINE"
                   ELSE "WAITING_PARAMETERS"
             rm == IF Polyline(c) THEN s.rem ELSE RequiredParams(c)
             q == [s EXCEPT !.fifo = f]
  <2>1. t = IF Polyline(c) THEN [q EXCEPT !.status = st] ELSE [q EXCEPT !.status = st, !.rem = rm]
    <3> HIDE DEF word
    <3>1. CASE Polyline(c)
      BY <1>1, <3>1 DEF CommandStart, Polyline, word
    <3>2. CASE ~Polyline(c)
      BY <1>1, <1>b, <3>2 DEF CommandStart, Polyline, Short, word
    <3> QED BY <3>1, <3>2
  <2>2. st \notin {"CPU_VRAM_BLIT", "VRAM_CPU_BLIT"}
    OBVIOUS
  <2> HIDE DEF f, t, st, rm
  <2>3. \E d : t \in Gpus(st, f, d, s.read, s.wblit, s.rblit, s.dreq, s.page, s.raw, s.ren)
    <3>1. q \in Gpus(s.status, f, s.rem, s.read, s.wblit, s.rblit, s.dreq, s.page, s.raw, s.ren)
      BY DEF GpuRecord, Gpus
    <3>2. [q EXCEPT !.status = st]
            \in Gpus(st, f, s.rem, s.read, s.wblit, s.rblit, s.dreq, s.page, s.raw, s.ren)
      BY <3>1 DEF Gpus
    <3>3. [q EXCEPT !.status = st, !.rem = rm]
            \in Gpus(st, f, rm, s.read, s.wblit, s.rblit, s.dreq, s.page, s.raw, s.ren)
      BY <3>1 DEF Gpus
    <3> HIDE DEF q
    <3> QED BY <2>1, <3>2, <3>3
  <2>4. t.status = st /\ t.page = s.page /\ t.ren = s.ren
    <3>1. PICK d : t \in Gpus(st, f, d, s.read, s.wblit, s.rblit, s.dreq, s.page, s.raw, s.ren)
      BY <2>3
    <3> QED BY <3>1, GpuFields
  <2>5. Passed(s, t) /\ Buffers(t, c, 0 + 1, n)
    BY <2>2, <2>4, QueuedPasses, NoBuffers
  <2>6. 0 + 1 # Words(c)
    <3>1. HeaderWords(c) \in Nat /\ HeaderWords(c) >= 2
      <4>1. CASE Polyline(c)
        BY <4>1, PolylineWords
      <4>2. CASE ~Polyline(c)
        BY <1>b, <4>2, QueuedWords
      <4> QED BY <4>1, <4>2
    <3>2. c.op = "CPU_VRAM_BLIT" => DataWords(c) \in Nat
      BY LastWord DEF Transferring
    <3> QED BY <3>1, <3>2 DEF Words
  <2> QED BY <2>5, <2>6 DEF Painted, t, word
<1> QED BY <1>a, <1>b

LEMMA ParameterPaints ==
    ASSUME NEW s, GpuRecord(s), Sound(s.ren), s.page \in Nat, NEW c, NEW sent \in Nat,
           NEW n \in Nat, s.status = "WAITING_PARAMETERS", StandsAt(s, c, sent, 0),
           Kept(c, Clean(s.ren))
    PROVE  Painted(s, Parameter(s, [cmd |-> c, i |-> sent], n), c, sent, n)
<1> DEFINE word == [cmd |-> c, i |-> sent]
           g == Append(s.fifo, word)
           rm == s.rem - 1
           q == [s EXCEPT !.rem = @ - 1, !.fifo = Append(@, word)]
           t == Parameter(s, word, n)
<1>1. /\ c \in Commands /\ ~Polyline(c) /\ s.fifo \in Seq(Word)
      /\ sent \in 1 .. HeaderWords(c) - 1
      /\ Len(s.fifo) = sent /\ s.fifo[1].cmd = c /\ s.rem = HeaderWords(c) - sent
  BY DEF StandsAt, Standing, Polyline
<1>2. ~Short(c)
  <2>1. ASSUME Short(c) PROVE FALSE
    <3>1. HeaderWords(c) = 1
      BY <2>1 DEF Short, HeaderWords
    <3> QED BY <1>1, <3>1
  <2> QED BY <2>1
<1>3. /\ HeaderWords(c) \in 2 .. 12
      /\ \A len \in Nat : Dequeued(c, len) = HeaderWords(c)
  BY <1>1, <1>2, QueuedWords
<1>4. g \in Seq(Word) /\ Len(g) = sent + 1 /\ g[1].cmd = c
  BY <1>1, QueueGrows
<1>5. q = [s EXCEPT !.rem = rm, !.fifo = g]
  OBVIOUS
<1>6. t = IF q.rem = 0 THEN CommandEnd(q, n) ELSE q
  BY DEF Parameter
<1>7. rm = HeaderWords(c) - (sent + 1)
  <2>1. s.rem = HeaderWords(c) - sent /\ HeaderWords(c) \in Nat /\ sent \in Nat
    BY <1>1, <1>3
  <2> QED BY <2>1
<1>8. Words(c) = HeaderWords(c) + (IF c.op = "CPU_VRAM_BLIT" THEN DataWords(c) ELSE 0)
  BY DEF Words
<1>9. c.op = "CPU_VRAM_BLIT" => DataWords(c) \in Nat \ {0}
  BY <1>1, LastWord DEF Transferring
<1> HIDE DEF g, rm, word
<1>10. q \in Gpus(s.status, g, rm, s.read, s.wblit, s.rblit, s.dreq, s.page, s.raw, s.ren)
  BY <1>5 DEF GpuRecord, Gpus
<1> HIDE DEF q, t
<1>11. /\ GpuRecord(q) /\ q.rem = rm /\ q.fifo = g /\ q.status = "WAITING_PARAMETERS"
       /\ q.page = s.page /\ q.ren = s.ren
  <2>1. Shows(q, s.status, g, rm, s.read, s.wblit, s.rblit, s.dreq)
    BY <1>10, ShowsFields
  <2>2. q.page = s.page /\ q.ren = s.ren
    BY <1>10, GpuFields
  <2> QED BY <2>1, <2>2 DEF Shows
<1>a. CASE rm # 0
  <2>1. t = q
    BY <1>6, <1>11, <1>a
  <2>2. sent + 1 < HeaderWords(c)
    BY <1>1, <1>3, <1>7, <1>a
  <2>3. sent + 1 # Words(c)
    BY <1>1, <1>3, <1>8, <1>9, <2>2
  <2>4. Passed(s, t) /\ Buffers(t, c, sent + 1, n)
    BY <1>11, <2>1, QueuedPasses, NoBuffers
  <2> QED BY <2>3, <2>4 DEF Painted, t, word
<1>b. CASE rm = 0
  <2>1. t = CommandEnd(q, n)
    BY <1>6, <1>11, <1>b
  <2>2. sent + 1 = HeaderWords(c)
    BY <1>1, <1>3, <1>7, <1>b
  <2>3. Dequeued(c, Len(q.fifo)) = Len(q.fifo)
    BY <1>3, <1>4, <1>11, <2>2
  <2>4. CarriedOut(q, t, c, n)
    <3>1. q.fifo \in Seq(Word) /\ q.fifo[1].cmd = c /\ Sound(q.ren) /\ q.page \in Nat
          /\ Kept(c, Clean(q.ren))
      BY <1>4, <1>11
    <3> QED BY <1>1, <1>2, <1>11, <2>1, <2>3, <3>1, CommandEndPaints
  <2>5. IF c.op = "CPU_VRAM_BLIT" THEN Passed(s, t) ELSE Ended(s, t, c, n)
    BY <1>11, <2>4, FromSame DEF CarriedOut
  <2>6. Buffers(t, c, sent + 1, n)
    <3>1. CASE Transferring(c)
      <4>1. sent + 1 = 3
        BY <1>1, <2>2, <3>1, FixedWords DEF Transferring
      <4> QED BY <2>4, <3>1, <4>1 DEF CarriedOut
    <3>2. CASE ~Transferring(c)
      <4>1. t.status = "IDLE"
        BY <2>4, <3>2 DEF CarriedOut
      <4> QED BY <4>1, NoBuffers
    <3> QED BY <3>1, <3>2
  <2>7. c.op = "CPU_VRAM_BLIT" <=> sent + 1 # Words(c)
    BY <1>3, <1>8, <1>9, <2>2
  <2> QED BY <2>5, <2>6, <2>7 DEF Painted, t, word
<1> QED BY <1>a, <1>b

LEMMA VertexPaints ==
    ASSUME NEW s, GpuRecord(s), Sound(s.ren), s.page \in Nat, NEW c, NEW sent \in Nat,
           NEW n \in Nat, s.status \in {"POLYLINE", "POLYLINE_GOURAUD"}, StandsAt(s, c, sent, 0),
           Kept(c, Clean(s.ren))
    PROVE  Painted(s, Vertex(s, [cmd |-> c, i |-> sent], n), c, sent, n)
<1> DEFINE word == [cmd |-> c, i |-> sent]
           g == Append(s.fifo, word)
           t == Vertex(s, word, n)
<1>1. /\ c \in Commands /\ Polyline(c) /\ s.fifo \in Seq(Word)
      /\ s.status = (IF c.gouraud THEN "POLYLINE_GOURAUD" ELSE "POLYLINE")
      /\ c.n > 0
      /\ sent \in 1 .. HeaderWords(c) - 1
      /\ Len(s.fifo) = sent /\ s.fifo[1].cmd = c
  BY DEF StandsAt, Standing, Polyline
<1>2. /\ HeaderWords(c) \in Nat /\ HeaderWords(c) >= 3
      /\ \A len \in Nat : len >= 2 => Dequeued(c, len) = len
      /\ c.gouraud => (HeaderWords(c) - 1) % 2 = 0
  BY <1>1, PolylineWords
<1>3. Words(c) = HeaderWords(c)
  BY <1>1, <1>2 DEF Words, Polyline
<1>4. word.cmd = c /\ word.i = sent
  OBVIOUS
<1>5. IsTerminator(word) <=> sent = HeaderWords(c) - 1
  BY <1>1, <1>3, <1>4 DEF IsTerminator, Polyline
<1>6. ~Short(c) /\ ~Transferring(c) /\ c.op # "CPU_VRAM_BLIT"
  BY <1>1 DEF Short, Transferring, Polyline
<1>a. CASE sent = HeaderWords(c) - 1
  <2>1. s.status = "POLYLINE" \/ Len(s.fifo) % 2 = 0
    BY <1>1, <1>2, <1>a
  <2>2. t = CommandEnd(s, n)
    BY <1>5, <1>a, <2>1 DEF Vertex
  <2>3. Dequeued(c, Len(s.fifo)) = Len(s.fifo)
    BY <1>1, <1>2, <1>a
  <2> HIDE DEF t
  <2>4. CarriedOut(s, t, c, n)
    BY <1>1, <1>6, <2>2, <2>3, CommandEndPaints
  <2>5. Ended(s, t, c, n) /\ t.status = "IDLE"
    BY <1>6, <2>4 DEF CarriedOut
  <2>6. sent + 1 = Words(c)
    BY <1>2, <1>3, <1>a
  <2>7. Buffers(t, c, sent + 1, n)
    BY <2>5, NoBuffers
  <2> QED BY <2>5, <2>6, <2>7 DEF Painted, t
<1>b. CASE sent # HeaderWords(c) - 1
  <2>1. t = [s EXCEPT !.fifo = g]
    BY <1>5, <1>b DEF Vertex
  <2> HIDE DEF g, t, word
  <2>2. t \in Gpus(s.status, g, s.rem, s.read, s.wblit, s.rblit, s.dreq, s.page, s.raw, s.ren)
    BY <2>1 DEF GpuRecord, Gpus
  <2>3. t.status = s.status /\ t.page = s.page /\ t.ren = s.ren
    BY <2>2, GpuFields
  <2>4. Passed(s, t) /\ Buffers(t, c, sent + 1, n)
    BY <2>3, QueuedPasses, NoBuffers
  <2>5. sent + 1 # Words(c)
    BY <1>1, <1>2, <1>3, <1>b
  <2> QED BY <2>4, <2>5 DEF Painted, t, word
<1> QED BY <1>a, <1>b

(***************************************************************************)
(* Words of data, two pixels each.                                         *)
(***************************************************************************)
\* Datum d is written to the buffer of the CPU at p.
Poked(s, t, p, d, b) ==
    /\ GpuRecord(t) /\ Passed(s, t) /\ t.status = s.status /\ t.wblit = b
    /\ t.ren.commands = s.ren.commands
    /\ t.ren.cpu = [s.ren.cpu EXCEPT ![p] = d]

\* A pixel written to the buffer paints nothing.
LEMMA PokePaints ==
    ASSUME NEW s, GpuRecord(s), Sound(s.ren), NEW i, NEW p \in Cells, CellAt(i) = p, NEW d, NEW b
    PROVE  Poked(s, Poke(s, i, d, b), p, d, b)
<1> DEFINE q == s.ren
           m == [q.cpu EXCEPT ![p] = d]
           r == [q EXCEPT !.cpu = m]
           t == [s EXCEPT !.ren = r, !.wblit = b]
<1>1. Poke(s, i, d, b) = t
  <2>1. Poke(s, i, d, b) = [s EXCEPT !.ren.cpu[p] = d, !.wblit = b]
    BY Zenon DEF Poke
  <2>2. [s EXCEPT !.ren.cpu[p] = d, !.wblit = b] = t
    OBVIOUS
  <2> HIDE DEF t
  <2> QED BY <2>1, <2>2
<1>2. /\ Typed(q) /\ AllDrawn(q) /\ q.need \in BOOLEAN /\ q.busy \in BOOLEAN
      /\ IsImage(Image(q)) /\ IsImage(q.cpu) /\ (~q.need /\ ~q.busy => q.tex = q.fbo)
  BY Zenon DEF Sound
<1>3. IsImage(m)
  <2>1. q.cpu = [x \in Cells |-> q.cpu[x]]
    BY <1>2 DEF IsImage
  <2> QED BY <2>1 DEF IsImage
<1>4. q.vertices \in [PipelineType -> Seq(Primitive)] /\ q.commands \in Seq(Entry)
      /\ q.area \in Areas /\ q.offset \in Int
  BY <1>2 DEF Typed
<1>5. t \in Gpus(s.status, s.fifo, s.rem, s.read, b, s.rblit, s.dreq, s.page, s.raw, r)
  <2> HIDE DEF r
  <2> QED BY ZenonT(20) DEF GpuRecord, Gpus
<1> HIDE DEF q, m
<1>6. r \in Forms(q.vertices, q.commands, q.fbo, q.tex, m, q.need, q.busy, q.area, q.offset)
  BY <1>2, SetFields, ZenonT(20)
<1> HIDE DEF r, t
<1>7. Parts(r, q.vertices, q.commands, q.fbo, q.tex, m, q.need, q.busy, q.area, q.offset)
  BY <1>4, <1>6, FormFields, Zenon
<1>8. /\ r.vertices = q.vertices /\ r.commands = q.commands /\ r.fbo = q.fbo /\ r.tex = q.tex
      /\ r.cpu = m /\ r.need = q.need /\ r.busy = q.busy /\ r.area = q.area
      /\ r.offset = q.offset /\ Typed(r)
  BY <1>7, Zenon DEF Parts
<1>9. Image(r) = Image(q) /\ AllDrawn(r)
  BY <1>2, <1>8, SameBatch
<1>10. Sound(r)
  BY <1>2, <1>3, <1>8, <1>9, Zenon DEF Sound
<1>11. Clean(q) => Clean(r)
  BY <1>8, Zenon DEF Clean
<1>12. GpuRecord(t) /\ t.status = s.status /\ t.wblit = b /\ t.page = s.page /\ t.ren = r
  <2>1. Shows(t, s.status, s.fifo, s.rem, s.read, b, s.rblit, s.dreq)
    BY <1>5, ShowsFields
  <2>2. t.page = s.page /\ t.ren = r
    BY <1>5, GpuFields
  <2> QED BY <2>1, <2>2 DEF Shows
<1>13. Passed(s, t)
  BY <1>8, <1>9, <1>10, <1>11, <1>12, Zenon DEF Passed, q
<1>14. t.ren.commands = s.ren.commands /\ t.ren.cpu = [s.ren.cpu EXCEPT ![p] = d]
  BY <1>8, <1>12 DEF q, m
<1> QED BY <1>1, <1>12, <1>13, <1>14, Zenon DEF Poked

LEMMA PassedTwice ==
    ASSUME NEW s, NEW t, NEW u, Passed(s, t), Passed(t, u)
    PROVE  Passed(s, u)
  BY Zenon DEF Passed

\* The first m pixels of the picture are in the buffer.
BufferUpto(c, cpu, n, m) == \A j \in Picture(c) : j < m => cpu[CellOf(c, j)] = Datum(n, j)

\* One pixel more is in the buffer.
LEMMA BufferGrows ==
    ASSUME NEW c \in Commands, Transferring(c), NEW cpu, IsImage(cpu), NEW n,
           NEW k \in Picture(c), BufferUpto(c, cpu, n, k), NEW d, d = Datum(n, k)
    PROVE  BufferUpto(c, [cpu EXCEPT ![CellOf(c, k)] = d], n, k + 1)
<1> DEFINE p == CellOf(c, k)
           new == [cpu EXCEPT ![p] = d]
<1>1. cpu = [x \in Cells |-> cpu[x]]
  BY DEF IsImage
<1>2. p \in Cells /\ k \in Nat
  BY PicturePixels
<1>3. ASSUME NEW j \in Picture(c), j < k + 1 PROVE new[CellOf(c, j)] = Datum(n, j)
  <2>1. CellOf(c, j) \in Cells /\ j \in Nat
    BY PicturePixels
  <2>2. CASE j = k
    BY <1>1, <1>2, <2>2
  <2>3. CASE j # k
    <3>1. j < k
      BY <1>2, <1>3, <2>1, <2>3
    <3>2. CellOf(c, j) # p
      BY <2>3, PixelsDistinct
    <3>3. cpu[CellOf(c, j)] = Datum(n, j)
      BY <3>1 DEF BufferUpto
    <3> HIDE DEF p
    <3> QED BY <1>1, <1>2, <2>1, <3>2, <3>3
  <2> QED BY <2>2, <2>3
<1> HIDE DEF new
<1>4. BufferUpto(c, new, n, k + 1)
  BY <1>3 DEF BufferUpto
<1> QED BY <1>4 DEF new

\* The last word of a transfer.
LEMMA FinalizeEnds ==
    ASSUME NEW s, NEW u, Passed(s, u), GpuRecord(u), u.ren.commands = << >>,
           NEW c \in Commands, c.op = "CPU_VRAM_BLIT", NEW k, BlitAt(u.wblit, c, k),
           NEW n, Buffered(c, u.ren.cpu, n)
    PROVE  FinalizeCpuVramBlit(u).status = "IDLE" /\ Ended(s, FinalizeCpuVramBlit(u), c, n)
<1> DEFINE t == FinalizeCpuVramBlit(u)
<1>1. Sound(u.ren) /\ u.page = s.page /\ Image(u.ren) = Image(s.ren)
      /\ u.ren.area = s.ren.area /\ u.ren.offset = s.ren.offset
  BY Zenon DEF Passed
<1>2. u.wblit.x = c.x % VX /\ u.wblit.y = c.y % VY /\ u.wblit.w = Width(c)
      /\ u.wblit.h = Height(c) /\ Transferring(c)
  BY DEF BlitAt, Transferring
<1>3. t.status = "IDLE" /\ t.page = u.page
      /\ Becomes(u.ren, t.ren, SentOn(c, Image(u.ren), n))
  BY <1>1, <1>2, FinalizePaints
<1> HIDE DEF t
<1>4. /\ NextPage(c, s.page) = s.page /\ NextArea(c, s.ren.area) = s.ren.area
      /\ NextOffset(c, s.ren.offset) = s.ren.offset /\ Paints(c)
  BY DEF NextPage, NextArea, NextOffset, Paints
<1>5. NextImage(c, s.ren, s.page, n) = SentOn(c, Image(s.ren), n)
  BY DEF NextImage, Draws
<1>6. /\ Sound(t.ren) /\ Image(t.ren) = SentOn(c, Image(s.ren), n)
      /\ t.ren.area = s.ren.area /\ t.ren.offset = s.ren.offset
  BY <1>1, <1>3, Zenon DEF Becomes
<1>7. Ended(s, t, c, n)
  BY <1>1, <1>3, <1>4, <1>5, <1>6, Zenon DEF Ended
<1> QED BY <1>3, <1>7 DEF t

\* The position of a transfer, as an address of the buffer.
LEMMA PositionCell ==
    ASSUME NEW x \in 0 .. VX - 1, NEW y \in 0 .. VY - 1
    PROVE  CellAt(y * VX + x) = <<x, y>>
<1>1. VX \in Nat \ {0} /\ VY \in Nat \ {0} /\ x \in Nat /\ y \in Nat /\ x < VX
  BY GpuCommandsAssumption
<1> DEFINE i == y * VX + x
<1>2. i \in Nat
  BY <1>1, Products
<1>3. i \div VX = y /\ i % VX = x
  BY <1>1, <1>2, DivModUnique
<1> QED BY <1>3 DEF CellAt

\* The address of a transfer is the cell of its pixel.
LEMMA BlitCell ==
    ASSUME NEW c \in Commands, Transferring(c), NEW k \in Nat, NEW b, BlitAt(b, c, k)
    PROVE  CellAt(Index(b)) = CellOf(c, k)
<1>1. b.curr_x \in 0 .. VX - 1 /\ b.curr_y \in 0 .. VY - 1
  BY BlitInside
<1>2. CellAt(Index(b)) = <<b.curr_x, b.curr_y>>
  BY <1>1, PositionCell DEF Index
<1> QED BY <1>2 DEF BlitAt, CellOf

\* Away from the right edge the next pixel of a row is the next in memory.
LEMMA NextCell ==
    ASSUME NEW c \in Commands, Transferring(c), NEW k \in Nat, NEW b, BlitAt(b, c, k),
           ~RowEnds(b), b.curr_x # VX - 1
    PROVE  CellAt(Index(b) + 1) = CellOf(c, k + 1)
<1> DEFINE b1 == NextPixel(b)
           x == b.curr_x
           y == b.curr_y
           x1 == x + 1
           yv == y * VX
<1>1. x \in 0 .. VX - 1 /\ y \in 0 .. VY - 1
  BY BlitInside
<1>2. VX \in Nat \ {0} /\ VY \in Nat \ {0}
  BY GpuCommandsAssumption
<1>3. x1 \in 0 .. VX - 1 /\ x1 \in Nat /\ x1 < VX
  BY <1>1, <1>2
<1>4. CellAt(y * VX + x1) = <<x1, y>>
  <2> HIDE DEF x1
  <2> QED BY <1>1, <1>3, PositionCell
<1>5. Index(b) + 1 = y * VX + x1
  <2>1. yv \in Nat /\ x \in Nat
    BY <1>1, <1>2, Products
  <2>2. Index(b) = yv + x
    BY DEF Index
  <2> HIDE DEF yv, x
  <2>3. Index(b) + 1 = yv + (x + 1)
    BY <2>1, <2>2
  <2> QED BY <2>3 DEF yv, x
<1>6. x1 % VX = x1
  <2> HIDE DEF x1
  <2> QED BY <1>2, <1>3, ModSmall
<1>7. b1 = [b EXCEPT !.curr_x = x1]
  <2>1. b1 = [b EXCEPT !.curr_x = (@ + 1) % VX]
    BY DEF NextPixel
  <2> QED BY <1>6, <2>1
<1>8. b1.curr_x = x1 /\ b1.curr_y = y
  <2>1. b \in Blits
    BY DEF BlitAt
  <2> HIDE DEF b1, x1
  <2> QED BY <1>7, <2>1 DEF Blits
<1>9. BlitAt(b1, c, k + 1)
  BY BlitStep
<1>10. CellOf(c, k + 1) = <<b1.curr_x, b1.curr_y>>
  <2> HIDE DEF b1
  <2> QED BY <1>9 DEF BlitAt, CellOf
<1> QED BY <1>4, <1>5, <1>8, <1>10

\* A word of data, and at the end the picture.
LEMMA PerformPaints ==
    ASSUME NEW s, GpuRecord(s), Sound(s.ren), NEW c, NEW sent \in Nat, NEW n,
           NEW lo, NEW hi, lo = Datum(n, 2 * (sent - 3)), hi = Datum(n, 2 * (sent - 3) + 1),
           s.status = "CPU_VRAM_BLIT", StandsAt(s, c, sent, 0), Buffers(s, c, sent, n)
    PROVE  Painted(s, PerformCpuVramBlit(s, lo, hi), c, sent, n)
<1> DEFINE m == sent - 3
           k == 2 * m
           pixels == Width(c) * Height(c)
           b == s.wblit
           b1 == NextPixel(b)
           b2 == NextPixel(b1)
           j == IF RowEnds(b) THEN Index(b1) ELSE Index(b) + 1
           s1 == Poke(s, Index(b), lo, b1)
           s2 == Poke(s1, j, hi, b2)
           t == PerformCpuVramBlit(s, lo, hi)
<1>1. /\ c \in Commands /\ c.op = "CPU_VRAM_BLIT"
      /\ sent \in 3 .. 2 + DataWords(c) /\ BlitAt(b, c, k) /\ ~Straddles(c)
  BY DEF StandsAt, Standing
<1>2. Transferring(c)
  BY <1>1 DEF Transferring
<1>3. m \in Nat /\ k \in Nat /\ k + 1 \in Nat /\ k + 2 = (k + 1) + 1
  BY <1>1
<1>4. /\ pixels \in Nat \ {0} /\ DataWords(c) \in Nat \ {0}
      /\ m < DataWords(c) <=> 2 * m < pixels
      /\ 2 * m + 1 = pixels \/ 2 * m + 2 = pixels => m + 1 = DataWords(c)
      /\ 2 * m + 2 < pixels => m + 1 < DataWords(c)
  BY <1>1, <1>2, <1>3, LastWord
<1>5. k < pixels
  <2> HIDE DEF pixels
  <2> QED BY <1>1, <1>4
<1>6. /\ RowEnds(b) <=> (k % Width(c)) + 1 = Width(c)
      /\ BlitAt(b1, c, k + 1)
      /\ LastPixel(b) <=> k + 1 = pixels
  BY <1>1, <1>2, <1>3, <1>5, BlitStep
<1>7. /\ BlitAt(b2, c, k + 2)
      /\ k + 1 < pixels => (LastPixel(b1) <=> k + 2 = pixels)
  <2>1. /\ BlitAt(b2, c, (k + 1) + 1)
        /\ k + 1 < pixels => (LastPixel(b1) <=> (k + 1) + 1 = pixels)
    BY <1>1, <1>2, <1>3, <1>6, BlitStep
  <2> QED BY <1>3, <2>1
<1>8. CellAt(Index(b)) = CellOf(c, k)
  BY <1>1, <1>2, <1>3, BlitCell
<1>9. CellAt(j) = CellOf(c, k + 1)
  <2>1. CASE RowEnds(b)
    BY <1>1, <1>2, <1>3, <1>6, <2>1, BlitCell
  <2>2. CASE ~RowEnds(b)
    <3>1. (c.x + (k % Width(c))) % VX # VX - 1
      BY <1>1, <1>2, <1>3, <1>5, <1>6, <2>2, NotAtEdge
    <3>2. b.curr_x # VX - 1
      BY <1>1, <3>1 DEF BlitAt
    <3> QED BY <1>1, <1>2, <1>3, <2>2, <3>2, NextCell
  <2> QED BY <2>1, <2>2
<1>10. t = CASE LastPixel(b)                             -> FinalizeCpuVramBlit(s1)
             [] ~LastPixel(b) /\ LastPixel(b1)
                              /\ s2.status # "BROKEN"    -> FinalizeCpuVramBlit(s2)
             [] OTHER                                    -> s2
  BY DEF PerformCpuVramBlit
<1>p. k \in Picture(c) /\ (k + 1 < pixels => k + 1 \in Picture(c))
  <2>1. Picture(c) = 0 .. pixels - 1
    BY DEF Picture
  <2> HIDE DEF pixels, k
  <2> QED BY <1>3, <1>4, <1>5, <2>1
<1>q. CellOf(c, k) \in Cells /\ (k + 1 < pixels => CellOf(c, k + 1) \in Cells)
  BY <1>1, <1>2, <1>p, PicturePixels
<1>r. s.ren.commands = << >> /\ BufferUpto(c, s.ren.cpu, n, k)
  BY DEF Buffers, BufferUpto
<1>s. Words(c) = 3 + DataWords(c)
  BY <1>1, FixedWords DEF Words
<1>t. lo = Datum(n, k) /\ hi = Datum(n, k + 1)
  OBVIOUS
<1>11. Poked(s, s1, CellOf(c, k), lo, b1)
  <2> HIDE DEF b1, k, b
  <2> QED BY <1>8, <1>q, PokePaints
<1>12. Passed(s, s1) /\ GpuRecord(s1) /\ s1.status = "CPU_VRAM_BLIT" /\ s1.wblit = b1
       /\ s1.ren.commands = << >> /\ BufferUpto(c, s1.ren.cpu, n, k + 1) /\ Sound(s1.ren)
  <2> HIDE DEF s1, b1, k, b
  <2>1. s1.ren.cpu = [s.ren.cpu EXCEPT ![CellOf(c, k)] = lo] /\ IsImage(s.ren.cpu)
    BY <1>11, Zenon DEF Poked, Sound
  <2>2. BufferUpto(c, s1.ren.cpu, n, k + 1)
    BY <1>1, <1>2, <1>p, <1>r, <1>t, <2>1, BufferGrows
  <2>3. Passed(s, s1) /\ GpuRecord(s1) /\ s1.status = s.status /\ s1.wblit = b1
        /\ s1.ren.commands = s.ren.commands /\ Sound(s1.ren)
    BY <1>11, Zenon DEF Poked, Passed
  <2> QED BY <1>r, <2>2, <2>3
<1> HIDE DEF s1, b2, j, b, b1, k
<1>13. ASSUME k + 1 < pixels
       PROVE  Passed(s, s2) /\ GpuRecord(s2) /\ s2.status = "CPU_VRAM_BLIT" /\ s2.wblit = b2
              /\ s2.ren.commands = << >> /\ BufferUpto(c, s2.ren.cpu, n, k + 2)
  <2>1. Poked(s1, s2, CellOf(c, k + 1), hi, b2)
    BY <1>9, <1>12, <1>13, <1>q, PokePaints
  <2> HIDE DEF s2
  <2>2. s2.ren.cpu = [s1.ren.cpu EXCEPT ![CellOf(c, k + 1)] = hi] /\ IsImage(s1.ren.cpu)
    BY <1>12, <2>1, Zenon DEF Poked, Sound
  <2>3. BufferUpto(c, s2.ren.cpu, n, (k + 1) + 1)
    BY <1>1, <1>2, <1>12, <1>13, <1>p, <1>t, <2>2, BufferGrows
  <2>4. Passed(s1, s2) /\ GpuRecord(s2) /\ s2.status = s1.status /\ s2.wblit = b2
        /\ s2.ren.commands = s1.ren.commands
    BY <2>1, Zenon DEF Poked
  <2>5. Passed(s, s2)
    BY <1>12, <2>4, PassedTwice
  <2> QED BY <1>3, <1>12, <2>3, <2>4, <2>5
<1> HIDE DEF s2, t
<1>14. ASSUME NEW cpu, BufferUpto(c, cpu, n, pixels)
       PROVE  Buffered(c, cpu, n)
  <2>1. \A i \in Picture(c) : i < pixels
    <3>1. Picture(c) = 0 .. pixels - 1
      BY DEF Picture
    <3> HIDE DEF pixels
    <3> QED BY <1>4, <3>1
  <2> QED BY <1>14, <2>1 DEF BufferUpto, Buffered
<1>15. k + 1 = pixels \/ k + 2 = pixels => sent + 1 = Words(c)
  <2> HIDE DEF pixels
  <2> QED BY <1>1, <1>4, <1>s DEF k
<1>a. CASE k + 1 = pixels
  <2>1. t = FinalizeCpuVramBlit(s1)
    BY <1>6, <1>10, <1>a
  <2>2. Buffered(c, s1.ren.cpu, n)
    BY <1>12, <1>14, <1>a
  <2>3. t.status = "IDLE" /\ Ended(s, t, c, n)
    BY <1>1, <1>6, <1>12, <2>1, <2>2, FinalizeEnds
  <2> QED BY <1>15, <1>a, <2>3, NoBuffers DEF Painted, t
<1>b. CASE k + 2 = pixels
  <2>0. k + 1 < pixels /\ k + 1 # pixels
    <3> HIDE DEF pixels
    <3> QED BY <1>3, <1>b
  <2>1. t = FinalizeCpuVramBlit(s2)
    <3>1. ~LastPixel(b) /\ LastPixel(b1) /\ s2.status # "BROKEN"
      BY <1>6, <1>7, <1>13, <1>b, <2>0
    <3> QED BY <1>10, <3>1
  <2>2. Buffered(c, s2.ren.cpu, n)
    BY <1>13, <1>14, <1>b, <2>0
  <2>3. t.status = "IDLE" /\ Ended(s, t, c, n)
    BY <1>1, <1>7, <1>13, <2>0, <2>1, <2>2, FinalizeEnds
  <2> QED BY <1>15, <1>b, <2>3, NoBuffers DEF Painted, t
<1>c. CASE ~(k + 1 = pixels \/ k + 2 = pixels)
  <2>0. k + 1 < pixels /\ k + 2 < pixels
    BY <1>3, <1>4, <1>5, <1>c
  <2>1. ~LastPixel(b) /\ ~LastPixel(b1)
    BY <1>6, <1>7, <1>c, <2>0
  <2>2. t = s2
    BY <1>10, <2>1
  <2>3. m + 1 < DataWords(c)
    BY <1>4, <2>0 DEF k
  <2>4. sent + 1 # Words(c) /\ 2 * ((sent + 1) - 3) = k + 2
    BY <1>1, <1>4, <1>s, <2>3 DEF m, k
  <2>5. Buffers(t, c, sent + 1, n)
    BY <1>13, <2>0, <2>2, <2>4 DEF Buffers, BufferUpto
  <2> QED BY <1>13, <2>0, <2>2, <2>4, <2>5 DEF Painted, t
<1> QED BY <1>a, <1>b, <1>c

(***************************************************************************)
(* The invariant of the picture.                                           *)
(***************************************************************************)
\* A picture to read has whole words in its rows.
Readable(c) == c.op = "VRAM_CPU_BLIT" => Width(c) % 2 = 0 \/ Height(c) = 1

\* What the renderer holds while the guest has sent these words of c, the n-th
\* command; stale if it painted since it last cleared the texture cache.
Pictured(s, c, sent, n, stale) ==
    /\ Sound(s.ren) /\ s.page \in Nat
    /\ ~stale => Clean(s.ren)
    /\ Kept(c, ~stale) /\ Readable(c)
    /\ Buffers(s, c, sent, n)

\* The invariant of the picture, for GPU and guest.
Holding == Pictured(gpu, guest.cmd, guest.sent, guest.number, guest.stale)

\* A step takes the next word of c.
Taken(c) ==
    /\ guest' = After(c) /\ Kept(c, ~guest.stale) /\ Readable(c)
    /\ \E t : /\ gpu' = UpdateDreq(t) /\ GpuRecord(t) /\ NextStands(t, c, guest.sent)
              /\ Painted(gpu, t, c, guest.sent, Number(c))

\* It depends on the GPU's status, page and renderer only.
LEMMA PicturedFrom ==
    ASSUME NEW s, NEW t, t.status = s.status, t.page = s.page, t.ren = s.ren,
           NEW c, NEW sent, NEW n, NEW stale, Pictured(s, c, sent, n, stale)
    PROVE  Pictured(t, c, sent, n, stale)
<1>1. Buffers(s, c, sent, n) => Buffers(t, c, sent, n)
  BY Zenon DEF Buffers
<1> QED BY <1>1, Zenon DEF Pictured

LEMMA UpdatedKeeps ==
    ASSUME NEW s, GpuRecord(s)
    PROVE  LET t == UpdateDreq(s)
           IN  t.status = s.status /\ t.page = s.page /\ t.ren = s.ren
<1> DEFINE dr == [d \in Directions |->
        CASE d = "OFF"     -> FALSE
          [] d = "IDK"     -> Len(s.fifo) < FIFO_SIZE
          [] d = "CPU_GP0" -> s.status \in {"IDLE", "WAITING_PARAMETERS",
                                            "CPU_VRAM_BLIT", "VRAM_CPU_BLIT"}
          [] d = "GPUREAD_CPU" -> s.status = "VRAM_CPU_BLIT"]
<1>1. UpdateDreq(s) = [s EXCEPT !.dreq = dr]
  BY DEF UpdateDreq
<1> HIDE DEF dr
<1> QED BY <1>1 DEF GpuRecord, Gpus

LEMMA NextPageType ==
    ASSUME NEW c \in Commands, NEW page \in Nat
    PROVE  NextPage(c, page) \in Nat
<1>1. c \in CommandType
  BY GpuCommandsAssumption
<1>2. c.op = "TEXPAGE" => c.page \in Nat
  BY <1>1 DEF CommandType
<1>3. c.op = "POLYGON" => c.page \in Nat
  BY <1>1 DEF CommandType
<1> QED BY <1>2, <1>3 DEF NextPage, PageOf

LEMMA NoneKept == \A clean : Kept(NONE, clean) /\ Readable(NONE)
  BY DEF Kept, Readable, NONE, Textured

\* A word that the GPU takes keeps the invariant of the picture.
LEMMA WordHolds ==
    ASSUME NEW c \in Commands, guest \in GuestType, Holding, Taken(c)
    PROVE  Holding'
<1> DEFINE final == guest.sent + 1 = Words(c)
           kept == ~final \/ c.op = "VRAM_CPU_BLIT"
           s == gpu
<1>1. PICK t : /\ gpu' = UpdateDreq(t) /\ GpuRecord(t) /\ NextStands(t, c, guest.sent)
               /\ Painted(gpu, t, c, guest.sent, Number(c))
  BY DEF Taken
<1>2. /\ Sound(s.ren) /\ s.page \in Nat /\ (~guest.stale => Clean(s.ren))
      /\ Kept(c, ~guest.stale) /\ Readable(c)
  BY DEF Holding, Pictured, Taken
<1>3. Sound(t.ren) /\ t.page \in Nat
  <2>1. NextPage(c, s.page) \in Nat
    BY <1>2, NextPageType
  <2>2. CASE final
    BY <1>1, <2>1, <2>2, Zenon DEF Painted, Ended
  <2>3. CASE ~final
    BY <1>1, <1>2, <2>3, Zenon DEF Painted, Passed
  <2> QED BY <2>2, <2>3
<1>4. /\ guest'.cmd = (IF kept THEN c ELSE NONE) /\ guest'.sent = (IF kept THEN guest.sent + 1 ELSE 0)
      /\ guest'.number = Number(c)
      /\ guest'.stale = (IF final /\ Paints(c) THEN TRUE ELSE guest.stale /\ c.op # "CLEAR_CACHE")
  BY DEF After, Taken
<1>5. ~guest'.stale => Clean(t.ren)
  <2>1. CASE final /\ Paints(c)
    BY <1>4, <2>1
  <2>2. CASE final /\ ~Paints(c)
    <3>1. ~Paints(c) /\ (Clean(s.ren) \/ c.op = "CLEAR_CACHE") => Clean(t.ren)
      BY <1>1, <2>2, Zenon DEF Painted, Ended
    <3>2. ~guest'.stale => ~guest.stale \/ c.op = "CLEAR_CACHE"
      BY <1>4, <2>2, Zenon
    <3> QED BY <1>2, <2>2, <3>1, <3>2, Zenon
  <2>3. CASE ~final
    <3>1. Clean(s.ren) => Clean(t.ren)
      BY <1>1, <2>3, Zenon DEF Painted, Passed
    <3>2. c.op # "CLEAR_CACHE"
      <4>1. ASSUME c.op = "CLEAR_CACHE" PROVE FALSE
        <5>1. HeaderWords(c) = 1 /\ c # NONE
          BY <4>1, NoCommand DEF HeaderWords
        <5>2. StandsAt(t, c, guest.sent + 1, 0)
          BY <1>1, <2>3 DEF NextStands
        <5> QED BY <4>1, <5>1, <5>2 DEF StandsAt, Standing
      <4> QED BY <4>1
    <3>3. ~guest'.stale => ~guest.stale
      BY <1>4, <2>3, <3>2, Zenon
    <3> QED BY <1>2, <3>1, <3>3, Zenon
  <2> QED BY <2>1, <2>2, <2>3
<1>6. /\ Kept(guest'.cmd, ~guest'.stale) /\ Readable(guest'.cmd)
      /\ Buffers(t, guest'.cmd, guest'.sent, guest'.number)
  <2>1. CASE kept
    <3>1. guest'.cmd = c /\ guest'.sent = guest.sent + 1 /\ guest'.number = Number(c)
      BY <1>4, <2>1
    <3>2. Buffers(t, c, guest.sent + 1, Number(c))
      BY <1>1, Zenon DEF Painted
    <3>3. Kept(c, ~guest'.stale)
      <4>1. Textured(c) => ~guest'.stale
        <5>1. ASSUME Textured(c) PROVE ~guest'.stale
          <6>1. ~guest.stale
            BY <1>2, <5>1, Zenon DEF Kept
          <6>2. ~final
            BY <2>1, <5>1 DEF Textured
          <6> QED BY <1>4, <6>1, <6>2
        <5> QED BY <5>1
      <4> QED BY <1>2, <4>1, Zenon DEF Kept
    <3> QED BY <1>2, <3>1, <3>2, <3>3, Zenon
  <2>2. CASE ~kept
    <3>1. guest'.cmd = NONE
      BY <1>4, <2>2
    <3>2. StandsAt(t, guest'.cmd, guest'.sent, guest'.reads)
      BY <1>1, AfterWord DEF Taken
    <3>3. t.status = "IDLE"
      BY <3>1, <3>2, NoCommand DEF StandsAt, Standing
    <3> QED BY <3>1, <3>3, NoBuffers, NoneKept
  <2> QED BY <2>1, <2>2
<1>7. Pictured(t, guest'.cmd, guest'.sent, guest'.number, guest'.stale)
  BY <1>3, <1>5, <1>6, Zenon DEF Pictured
<1>8. Pictured(gpu', guest'.cmd, guest'.sent, guest'.number, guest'.stale)
  <2>1. gpu'.status = t.status /\ gpu'.page = t.page /\ gpu'.ren = t.ren
    BY <1>1, UpdatedKeeps
  <2> QED BY <1>7, <2>1, PicturedFrom
<1> QED BY <1>8 DEF Holding

\* Under the guest's rules the GPU takes every word.
LEMMA StartTakes ==
    ASSUME Inv, Holding, Care = Cares, NEW c \in Commands, StartCommand(c)
    PROVE  Taken(c)
<1> DEFINE word == [cmd |-> c, i |-> guest.sent]
           t == CommandStart(gpu, word)
<1>1. guest.cmd = NONE /\ guest.cmd \notin Commands
  BY NoCommand DEF StartCommand
<1>2. GpuRecord(gpu) /\ gpu.status = "IDLE" /\ gpu.fifo = << >> /\ gpu.read = "NONE" /\ guest.sent = 0
  BY <1>1 DEF Inv, StandsAt, Standing
<1>3. Len(gpu.fifo) # FIFO_SIZE
  <2>1. Len(gpu.fifo) = 0
    BY <1>2
  <2> QED BY <2>1, GpuAssumption
<1>4. gpu' = UpdateDreq(t)
  BY <1>2, <1>3 DEF StartCommand, SendWord, WriteGP0
<1>5. Careful(c) /\ guest' = After(c)
  BY DEF StartCommand, SendWord
<1>6. c.op = "CPU_VRAM_BLIT" => ~Straddles(c)
  BY <1>5 DEF Careful, Cares
<1>7. Polyline(c) => c.n > 0 /\ HeaderWords(c) <= FIFO_SIZE
  BY <1>5 DEF Careful, Cares, Polyline
<1>8. GpuRecord(t) /\ NextStands(t, c, guest.sent)
  BY <1>2, <1>6, <1>7, CommandStarts
<1>9. Kept(c, ~guest.stale) /\ Readable(c)
  <2>1. Textured(c) => ~guest.stale
    BY <1>5 DEF Careful, Cares
  <2>2. c.op = "VRAM_BLIT" => CopyInside(c)
    BY <1>5 DEF Careful, Cares, CopyInside
  <2>3. c.op = "VRAM_CPU_BLIT" =>
            /\ Inside(c.x % VX, c.y % VY, Width(c), Height(c))
            /\ Width(c) % 2 = 0 \/ Height(c) = 1
    BY <1>5 DEF Careful, Cares
  <2> QED BY <2>1, <2>2, <2>3, Zenon DEF Kept, Readable
<1>10. PageRule(gpu, c)
  BY <1>5 DEF Careful, Cares, PageRule
<1>11. Sound(gpu.ren)
  BY DEF Holding, Pictured
<1>12. Painted(gpu, t, c, guest.sent, Number(c))
  <2>1. Painted(gpu, CommandStart(gpu, [cmd |-> c, i |-> 0]), c, 0, Number(c))
    BY <1>2, <1>7, <1>10, <1>11, StartPaints
  <2> QED BY <1>2, <2>1
<1> QED BY <1>4, <1>5, <1>8, <1>9, <1>12, Zenon DEF Taken

LEMMA NumberType ==
    ASSUME guest \in GuestType, NEW c
    PROVE  Number(c) \in Nat /\ (guest.sent # 0 => Number(c) = guest.number)
<1>1. guest.number \in Nat
  BY DEF GuestType
<1>2. Bit(guest.sent = 0 /\ ~Free(c)) \in {0, 1} /\ (guest.sent # 0 => Bit(guest.sent = 0 /\ ~Free(c)) = 0)
  BY DEF Bit
<1> QED BY <1>1, <1>2 DEF Number

LEMMA ContinueTakes ==
    ASSUME Inv, Holding, ContinueCommand
    PROVE  Taken(guest.cmd)
<1> DEFINE c == guest.cmd
           n == Number(c)
           word == [cmd |-> c, i |-> guest.sent]
           lo == Data(word, n, 0)
           hi == Data(word, n, 1)
<1>1. /\ c # NONE /\ ~Reading /\ gpu' = WriteGP0(gpu, word, n) /\ guest' = After(c)
  BY DEF ContinueCommand, SendWord
<1>2. guest \in GuestType /\ GpuRecord(gpu) /\ StandsAt(gpu, c, guest.sent, guest.reads)
  BY DEF Inv
<1>3. guest.sent \in Nat /\ c \in Commands
  BY <1>1, <1>2 DEF GuestType
<1>4. /\ gpu.status \in {"WAITING_PARAMETERS", "POLYLINE", "POLYLINE_GOURAUD", "CPU_VRAM_BLIT"}
      /\ Len(gpu.fifo) # FIFO_SIZE
  BY <1>1, FedRoom
<1>5. /\ Sound(gpu.ren) /\ gpu.page \in Nat /\ Kept(c, ~guest.stale) /\ Readable(c)
      /\ (~guest.stale => Clean(gpu.ren)) /\ Buffers(gpu, c, guest.sent, guest.number)
  BY DEF Holding, Pictured
<1>6. Kept(c, Clean(gpu.ren))
  BY <1>5, Zenon DEF Kept
<1>7. guest.sent # 0 /\ n \in Nat /\ n = guest.number
  <2>1. guest.sent # 0
    BY <1>2, <1>4 DEF StandsAt, Standing
  <2> QED BY <1>2, <2>1, NumberType
<1>8. StandsAt(gpu, c, guest.sent, 0)
  BY <1>2, <1>4 DEF StandsAt, Standing
<1>9. \E t : /\ gpu' = UpdateDreq(t) /\ GpuRecord(t) /\ NextStands(t, c, guest.sent)
             /\ Painted(gpu, t, c, guest.sent, n)
  <2>1. CASE gpu.status = "WAITING_PARAMETERS"
    <3>1. gpu' = UpdateDreq(Parameter(gpu, word, n))
      BY <1>1, <1>4, <2>1 DEF WriteGP0
    <3>2. GpuRecord(Parameter(gpu, word, n)) /\ NextStands(Parameter(gpu, word, n), c, guest.sent)
      BY <1>2, <1>3, <1>8, <2>1, ParameterStands
    <3>3. Painted(gpu, Parameter(gpu, word, n), c, guest.sent, n)
      <4> HIDE DEF c, n
      <4> QED BY <1>2, <1>3, <1>5, <1>6, <1>7, <1>8, <2>1, ParameterPaints
    <3> QED BY <3>1, <3>2, <3>3
  <2>2. CASE gpu.status \in {"POLYLINE", "POLYLINE_GOURAUD"}
    <3>1. gpu' = UpdateDreq(Vertex(gpu, word, n))
      BY <1>1, <1>4, <2>2 DEF WriteGP0
    <3>2. GpuRecord(Vertex(gpu, word, n)) /\ NextStands(Vertex(gpu, word, n), c, guest.sent)
      BY <1>2, <1>3, <1>8, <2>2, VertexStands
    <3>3. Painted(gpu, Vertex(gpu, word, n), c, guest.sent, n)
      <4> HIDE DEF c, n
      <4> QED BY <1>2, <1>3, <1>5, <1>6, <1>7, <1>8, <2>2, VertexPaints
    <3> QED BY <3>1, <3>2, <3>3
  <2>3. CASE gpu.status = "CPU_VRAM_BLIT"
    <3> DEFINE t == PerformCpuVramBlit(gpu, lo, hi)
    <3>1. gpu' = UpdateDreq(t)
      BY <1>1, <1>4, <2>3 DEF WriteGP0
    <3>2. c.op = "CPU_VRAM_BLIT" /\ HeaderWords(c) = 3
      BY <1>2, <1>3, <2>3, FixedWords DEF StandsAt, Standing
    <3>3. lo = Datum(n, 2 * (guest.sent - 3)) /\ hi = Datum(n, 2 * (guest.sent - 3) + 1)
      <4>1. word.cmd = c /\ word.i = guest.sent
        OBVIOUS
      <4>2. 2 * (guest.sent - 3) + 0 = 2 * (guest.sent - 3)
        BY <1>3
      <4> HIDE DEF word, n, c
      <4> QED BY <3>2, <4>1, <4>2 DEF Data
    <3>4. Buffers(gpu, c, guest.sent, n)
      BY <1>5, <1>7
    <3> HIDE DEF lo, hi
    <3>5. GpuRecord(t) /\ NextStands(t, c, guest.sent)
      BY <1>2, <1>3, <1>8, <2>3, PerformStands
    <3>6. Painted(gpu, t, c, guest.sent, n)
      <4> HIDE DEF c, n
      <4> QED BY <1>2, <1>3, <1>5, <1>8, <2>3, <3>3, <3>4, PerformPaints
    <3> QED BY <3>1, <3>5, <3>6
  <2> QED BY <1>4, <2>1, <2>2, <2>3
<1> QED BY <1>1, <1>5, <1>9, Zenon DEF Taken

(***************************************************************************)
(* The other steps leave the picture alone.                                *)
(***************************************************************************)
\* A step leaves the picture and the settings as they are.
Undisturbed ==
    /\ gpu'.page = gpu.page /\ Image(gpu'.ren) = Image(gpu.ren)
    /\ gpu'.ren.area = gpu.ren.area /\ gpu'.ren.offset = gpu.ren.offset

\* The renderer starts with a blank picture.
LEMMA NewIsSound ==
    Sound(NewRenderer) /\ Clean(NewRenderer) /\ Image(NewRenderer) = Blank
<1> DEFINE q == NewRenderer
           vs == [t \in PipelineType |-> << >>]
           no == << >>
           z == 0
           d == FALSE
<1>1. vs \in [PipelineType -> Seq(Primitive)] /\ no \in Seq(Entry) /\ z \in Int
  OBVIOUS
<1>2. Whole \in Areas
  BY GpuCommandsAssumption DEF Whole, Areas
<1>3. q \in Forms(vs, no, Blank, Blank, Blank, d, d, Whole, z)
  BY DEF NewRenderer, Forms
<1>4. \A t \in PipelineType : vs[t] = << >>
  OBVIOUS
<1>5. no = << >> /\ z = 0 /\ d = FALSE
  OBVIOUS
<1> HIDE DEF q, vs, no, z, d
<1>6. Parts(q, vs, no, Blank, Blank, Blank, d, d, Whole, z)
  BY <1>1, <1>2, <1>3, FormFields
<1>7. /\ q.vertices = vs /\ q.commands = << >> /\ q.fbo = Blank /\ q.tex = Blank /\ q.cpu = Blank
      /\ q.need = FALSE /\ q.busy = FALSE /\ q.area = Whole /\ q.offset = 0 /\ Typed(q)
  BY <1>5, <1>6, Zenon DEF Parts
<1>8. Image(q) = Blank /\ Upto(q, 0) = Undrawn(q)
  BY <1>7, BatchedIs
<1>9. AllDrawn(q)
  <2>1. Len(q.commands) = 0
    BY <1>7
  <2>2. ASSUME NEW t \in PipelineType PROVE Undrawn(q).drawn[t] = 0 /\ Len(q.vertices[t]) = 0
    BY <1>4, <1>7 DEF Undrawn
  <2> QED BY <1>8, <2>1, <2>2 DEF AllDrawn
<1>10. IsImage(Blank)
  BY DEF IsImage, Blank
<1>11. Sound(q)
  <2>1. IsImage(Image(q)) /\ IsImage(q.cpu) /\ q.tex = q.fbo
    BY <1>7, <1>8, <1>10
  <2>2. q.need \in BOOLEAN /\ q.busy \in BOOLEAN
    BY <1>7
  <2> QED BY <1>7, <1>9, <2>1, <2>2, Zenon DEF Sound
<1>12. Clean(q)
  BY <1>7 DEF Clean
<1> QED BY <1>8, <1>11, <1>12 DEF q

LEMMA InitHolds == Init => Holding
<1> SUFFICES ASSUME Init PROVE Holding
  OBVIOUS
<1>1. /\ gpu.status = "IDLE" /\ gpu.page = 0 /\ gpu.ren = NewRenderer
      /\ guest.cmd = NONE /\ guest.stale = FALSE
  BY DEF Init
<1>2. Sound(NewRenderer) /\ Clean(NewRenderer)
  BY NewIsSound
<1>3. Buffers(gpu, guest.cmd, guest.sent, guest.number)
  BY <1>1, NoBuffers
<1>4. Kept(guest.cmd, ~guest.stale) /\ Readable(guest.cmd)
  BY <1>1, NoneKept
<1> QED BY <1>1, <1>2, <1>3, <1>4 DEF Holding, Pictured

\* The renderer is left alone, and the command goes on or is over.
LEMMA IdleHolds ==
    ASSUME Holding, gpu'.status = "IDLE", gpu'.page = gpu.page, gpu'.ren = gpu.ren,
           guest'.cmd = NONE, guest'.stale = guest.stale
    PROVE  Holding' /\ Undisturbed
<1>1. Buffers(gpu', guest'.cmd, guest'.sent, guest'.number)
  BY NoBuffers
<1>2. Kept(guest'.cmd, ~guest'.stale) /\ Readable(guest'.cmd)
  BY NoneKept
<1>3. Sound(gpu'.ren) /\ gpu'.page \in Nat /\ (~guest'.stale => Clean(gpu'.ren))
  BY Zenon DEF Holding, Pictured
<1>4. Pictured(gpu', guest'.cmd, guest'.sent, guest'.number, guest'.stale)
  BY <1>1, <1>2, <1>3, Zenon DEF Pictured
<1>5. Undisturbed
  BY Zenon DEF Undisturbed
<1> QED BY <1>4, <1>5 DEF Holding

LEMMA SameHolds ==
    ASSUME Holding, gpu'.status = gpu.status, gpu'.page = gpu.page, gpu'.ren = gpu.ren,
           guest'.cmd = guest.cmd, guest'.sent = guest.sent, guest'.number = guest.number,
           guest'.stale = guest.stale
    PROVE  Holding' /\ Undisturbed
<1>1. Pictured(gpu', guest.cmd, guest.sent, guest.number, guest.stale)
  BY PicturedFrom DEF Holding
<1>2. Undisturbed
  BY Zenon DEF Undisturbed
<1> QED BY <1>1, <1>2 DEF Holding

\* Reads, resets, the other registers and the end of a frame.
LEMMA ReadWordHolds ==
    ASSUME Inv, Holding, ReadWord
    PROVE  Holding' /\ Undisturbed
<1> DEFINE c == guest.cmd
           t == ReadData(gpu)
<1>1. Reading /\ gpu' = t
  BY DEF ReadWord
<1>2. gpu.status = "VRAM_CPU_BLIT"
  BY <1>1, ReadingStands
<1>3. guest \in GuestType /\ GpuRecord(gpu) /\ StandsAt(gpu, c, guest.sent, guest.reads)
  BY DEF Inv
<1>4. /\ Shows(t, t.status, t.fifo, t.rem, t.read, t.wblit, t.rblit, gpu.dreq)
      /\ IF guest.reads + 1 = DataWords(c) THEN t.status = "IDLE" /\ StandsAt(t, NONE, 0, 0)
         ELSE t.status = gpu.status /\ StandsAt(t, c, guest.sent, guest.reads + 1)
  <2>1. guest.reads \in Nat
    BY <1>3 DEF GuestType
  <2> QED BY <1>2, <1>3, <2>1, ReadStands
<1>5. t.page = gpu.page /\ t.ren = gpu.ren
  <2> DEFINE b == gpu.rblit
             b1 == NextPixel(b)
             b2 == NextPixel(b1)
  <2>1. \/ t = gpu
        \/ t = [gpu EXCEPT !.rblit = NoBlit, !.status = "IDLE", !.read = "NONE"]
        \/ t = [gpu EXCEPT !.rblit = b2]
    BY <1>2 DEF ReadData
  <2> HIDE DEF b2, t
  <2> QED BY <1>3, <2>1 DEF GpuRecord, Gpus
<1> HIDE DEF t
<1>a. CASE guest.reads + 1 = DataWords(c)
  <2>1. guest' = [guest EXCEPT !.cmd = NONE, !.sent = 0, !.reads = 0]
    BY <1>a DEF ReadWord
  <2>2. guest'.cmd = NONE /\ guest'.stale = guest.stale
    BY <1>3, <2>1 DEF GuestType
  <2> QED BY <1>1, <1>4, <1>5, <1>a, <2>2, IdleHolds
<1>b. CASE guest.reads + 1 # DataWords(c)
  <2>1. guest' = [guest EXCEPT !.reads = @ + 1]
    BY <1>b DEF ReadWord
  <2>2. /\ guest'.cmd = guest.cmd /\ guest'.sent = guest.sent /\ guest'.number = guest.number
        /\ guest'.stale = guest.stale
    BY <1>3, <2>1 DEF GuestType
  <2> QED BY <1>1, <1>4, <1>5, <1>b, <2>2, SameHolds
<1> QED BY <1>a, <1>b

LEMMA ResetCommandHolds ==
    ASSUME Inv, Holding, ResetCommand
    PROVE  Holding' /\ Undisturbed
<1> DEFINE t == ResetFifo(gpu)
<1>1. gpu' = UpdateDreq(t) /\ guest' = [guest EXCEPT !.cmd = NONE, !.sent = 0, !.reads = 0]
  BY DEF ResetCommand
<1>2. GpuRecord(gpu) /\ guest \in GuestType
  BY DEF Inv
<1>3. GpuRecord(t) /\ t.status = "IDLE" /\ t.page = gpu.page /\ t.ren = gpu.ren
  BY <1>2 DEF ResetFifo, GpuRecord, Gpus
<1> HIDE DEF t
<1>4. gpu'.status = "IDLE" /\ gpu'.page = gpu.page /\ gpu'.ren = gpu.ren
  BY <1>1, <1>3, UpdatedKeeps
<1>5. guest'.cmd = NONE /\ guest'.stale = guest.stale
  BY <1>1, <1>2 DEF GuestType
<1> QED BY <1>4, <1>5, IdleHolds

LEMMA ReadGpuRegisterHolds ==
    ASSUME Inv, Holding, ReadGpuRegister
    PROVE  Holding' /\ Undisturbed
<1> DEFINE t == GpuReadInternal(gpu)
<1>1. gpu' = UpdateDreq(t) /\ guest' = guest
  BY DEF ReadGpuRegister
<1>2. GpuRecord(gpu)
  BY DEF Inv
<1>3. GpuRecord(t) /\ t.status = gpu.status /\ t.page = gpu.page /\ t.ren = gpu.ren
  BY <1>2 DEF GpuReadInternal, GpuRecord, Gpus
<1> HIDE DEF t
<1>4. gpu'.status = gpu.status /\ gpu'.page = gpu.page /\ gpu'.ren = gpu.ren
  BY <1>1, <1>3, UpdatedKeeps
<1> QED BY <1>1, <1>4, SameHolds

LEMMA ReadStatHolds ==
    ASSUME Inv, Holding, ReadStat
    PROVE  Holding' /\ Undisturbed
<1>1. gpu' = UpdateDreq(gpu) /\ guest' = guest
  BY DEF ReadStat
<1>2. gpu'.status = gpu.status /\ gpu'.page = gpu.page /\ gpu'.ren = gpu.ren
  BY <1>1, UpdatedKeeps DEF Inv
<1> QED BY <1>1, <1>2, SameHolds

LEMMA FrameEndsHolds ==
    ASSUME Inv, Holding, FrameEnds
    PROVE  Holding' /\ Undisturbed
<1> DEFINE rn == VBlank(gpu.ren)
<1>1. gpu' = [gpu EXCEPT !.ren = rn] /\ guest' = guest
  BY DEF FrameEnds
<1>2. Sound(gpu.ren) /\ gpu.page \in Nat /\ Kept(guest.cmd, ~guest.stale) /\ Readable(guest.cmd)
      /\ Buffers(gpu, guest.cmd, guest.sent, guest.number)
  BY DEF Holding, Pictured
<1>3. Same(gpu.ren, rn) /\ Clean(rn)
  BY <1>2, CleanedKeeps DEF VBlank
<1> HIDE DEF rn
<1>4. gpu'.status = gpu.status /\ gpu'.page = gpu.page /\ gpu'.ren = rn
  BY <1>1 DEF Inv, GpuRecord, Gpus
<1>5. Sound(rn) /\ Image(rn) = Image(gpu.ren) /\ rn.area = gpu.ren.area
      /\ rn.offset = gpu.ren.offset /\ rn.cpu = gpu.ren.cpu
  BY <1>3 DEF Same
<1>6. Buffers(gpu', guest.cmd, guest.sent, guest.number)
  <2>1. rn.commands = << >>
    BY <1>3 DEF Clean
  <2> QED BY <1>2, <1>4, <1>5, <2>1, Zenon DEF Buffers
<1>7. Pictured(gpu', guest.cmd, guest.sent, guest.number, guest.stale)
  BY <1>2, <1>3, <1>4, <1>5, <1>6, Zenon DEF Pictured
<1>8. Undisturbed
  BY <1>4, <1>5, Zenon DEF Undisturbed
<1> QED BY <1>1, <1>7, <1>8 DEF Holding

(***************************************************************************)
(* What is read back.                                                      *)
(***************************************************************************)
\* In a picture of whole words the first pixel of a word does not end a row,
\* unless it is the last pixel.
LEMMA WholeWords ==
    ASSUME NEW W \in Nat \ {0}, NEW H \in Nat \ {0}, NEW m \in Nat, 2 * m + 1 < W * H,
           W % 2 = 0 \/ H = 1
    PROVE  ((2 * m) % W) + 1 # W
<1> DEFINE k == 2 * m
           q == k \div W
           r == k % W
           qw == q * W
<1>1. q \in Nat /\ r \in Nat /\ r < W /\ qw + r = k /\ k \in Nat
  BY DivMod
<1>a. CASE W % 2 = 0
  <2>1. PICK v \in Nat : W = 2 * v
    <3>1. (W \div 2) \in Nat /\ W = 2 * (W \div 2)
      BY <1>a
    <3> QED BY <3>1
  <2>2. v * q \in Nat
    BY <1>1, Products
  <2>3. PICK u \in Nat : u = v * q
    BY <2>2
  <2>4. qw = 2 * u
    <3>1. W = v + v
      BY <2>1
    <3>2. qw = W * q
      BY <1>1, Products
    <3>3. (v + v) * q = v * q + v * q
      BY <1>1, Distributes
    <3> HIDE DEF q, qw
    <3> QED BY <2>3, <3>1, <3>2, <3>3
  <2> HIDE DEF q, r, qw
  <2>5. 2 * u + r = 2 * m
    BY <1>1, <2>4
  <2> QED BY <1>1, <2>1, <2>5 DEF r, k
<1>b. CASE H = 1
  <2>1. k + 1 < W
    BY <1>b
  <2>2. k % W = k
    BY <2>1, <1>1
  <2> QED BY <2>1, <2>2
<1> QED BY <1>a, <1>b

\* In a picture inside the video memory only the end of a row is at the edge.
LEMMA RowInside ==
    ASSUME NEW x \in Nat, NEW W \in Nat \ {0}, NEW r \in Nat, r + 1 < W,
           (x % VX) + W <= VX
    PROVE  (x + r) % VX # VX - 1
<1>1. VX \in Nat \ {0}
  BY GpuCommandsAssumption
<1>2. (x + r) % VX = ((x % VX) + r) % VX
  BY <1>1, ModPlus
<1> DEFINE a == x % VX
<1>3. a \in Nat /\ a < VX
  BY <1>1, DivMod
<1> HIDE DEF a
<1>4. a + r < VX - 1
  BY <1>1, <1>3 DEF a
<1>5. (a + r) % VX = a + r
  BY <1>1, <1>3, <1>4
<1> QED BY <1>1, <1>2, <1>4, <1>5, <1>3 DEF a

\* What the register gives is the picture.
LEMMA ReadsPicture ==
    ASSUME Inv, Holding, Reading
    PROVE  LET c == guest.cmd
               k == 2 * guest.reads
               Pixel(j) == Image(gpu.ren)[CellOf(c, j)]
           IN  ReadValue(gpu) = IF k + 1 = Width(c) * Height(c) THEN <<Pixel(k)>>
                                ELSE <<Pixel(k), Pixel(k + 1)>>
<1> DEFINE c == guest.cmd
           m == guest.reads
           k == 2 * m
           b == gpu.rblit
           W == Width(c)
           pixels == Width(c) * Height(c)
           Pixel(i) == Image(gpu.ren)[CellOf(c, i)]
           next == CellAt(Index(b) + 1)
<1>1. gpu.status = "VRAM_CPU_BLIT"
  BY ReadingStands
<1>2. /\ c \in Commands /\ c.op = "VRAM_CPU_BLIT" /\ m \in 0 .. DataWords(c) - 1
      /\ BlitAt(b, c, k)
  BY <1>1 DEF Inv, StandsAt, Standing
<1>3. /\ \A i \in Picture(c) : gpu.ren.cpu[CellOf(c, i)] = Pixel(i)
      /\ Inside(c.x % VX, c.y % VY, Width(c), Height(c)) /\ (W % 2 = 0 \/ Height(c) = 1)
  BY <1>1, <1>2 DEF Holding, Pictured, Buffers, Kept, Readable
<1>4. Transferring(c)
  BY <1>2 DEF Transferring
<1>5. /\ W \in Nat \ {0} /\ Height(c) \in Nat \ {0} /\ VX \in Nat \ {0} /\ c.x \in Nat
      /\ pixels \in Nat \ {0} /\ DataWords(c) \in Nat \ {0}
      /\ \A d \in Nat : d < DataWords(c) <=> 2 * d < pixels
  BY <1>2, <1>4, TransferFacts, LastWord
<1>6. m \in Nat /\ k \in Nat /\ k + 1 \in Nat /\ k < pixels
  <2> HIDE DEF pixels
  <2>1. m \in Nat /\ m < DataWords(c)
    BY <1>2, <1>5
  <2> QED BY <1>5, <2>1
<1>7. k \in Picture(c) /\ (k + 1 < pixels => k + 1 \in Picture(c))
  <2>1. Picture(c) = 0 .. pixels - 1
    BY DEF Picture
  <2> HIDE DEF pixels, k
  <2> QED BY <1>5, <1>6, <2>1
<1>8. gpu.ren.cpu[CellAt(Index(b))] = Pixel(k)
  <2>1. CellAt(Index(b)) = CellOf(c, k)
    BY <1>2, <1>4, <1>6, BlitCell
  <2> QED BY <1>3, <1>7, <2>1
<1>9. /\ RowEnds(b) <=> (k % W) + 1 = W
      /\ LastPixel(b) <=> k + 1 = pixels
  BY <1>2, <1>4, <1>6, BlitStep
<1>a. CASE k + 1 = pixels
  <2>1. ReadValue(gpu) = <<gpu.ren.cpu[CellAt(Index(b))]>>
    BY <1>9, <1>a DEF ReadValue
  <2> QED BY <1>8, <1>a, <2>1
<1>b. CASE k + 1 # pixels
  <2>0. k + 1 < pixels
    <3> HIDE DEF k, pixels
    <3> QED BY <1>5, <1>6, <1>b
  <2>1. (k % W) + 1 # W
    BY <1>3, <1>5, <1>6, <2>0, WholeWords
  <2>2. b.curr_x # VX - 1
    <3> DEFINE r == k % W
    <3>1. r \in Nat /\ r < W
      BY <1>5, <1>6, DivMod
    <3>2. r + 1 < W
      <4> HIDE DEF W, r
      <4> QED BY <1>5, <2>1, <3>1 DEF r
    <3>3. (c.x % VX) + W <= VX
      BY <1>3 DEF Inside
    <3> HIDE DEF r
    <3>4. (c.x + r) % VX # VX - 1
      BY <1>5, <3>1, <3>2, <3>3, RowInside
    <3> QED BY <1>2, <3>4 DEF BlitAt, r
  <2>3. ~RowEnds(b) /\ ~LastPixel(b)
    BY <1>9, <1>b, <2>1
  <2>4. next \in Cells
    BY <1>2, <1>4, <1>6, <2>2, BlitInside
  <2>5. next = CellOf(c, k + 1)
    BY <1>2, <1>4, <1>6, <2>2, <2>3, NextCell
  <2>6. gpu.ren.cpu[next] = Pixel(k + 1)
    BY <1>3, <1>7, <2>0, <2>5
  <2>7. ReadValue(gpu) = <<gpu.ren.cpu[CellAt(Index(b))], gpu.ren.cpu[next]>>
    BY <2>3, <2>4 DEF ReadValue
  <2> QED BY <1>8, <1>b, <2>6, <2>7
<1> QED BY <1>a, <1>b

(***************************************************************************)
(* The painter.                                                            *)
(***************************************************************************)
\* The instance of the painter has the commands of the GPU.
LEMMA PainterCommands ==
    /\ P!NONE = NONE /\ P!Blank = Blank /\ P!Whole = Whole /\ P!Cells = Cells
    /\ \A b : P!Bit(b) = Bit(b)
    /\ \A c : P!Words(c) = Words(c)
    /\ \A c : P!DataWords(c) = DataWords(c)
    /\ \A c : P!Free(c) = Free(c)
    /\ \A c : P!Draws(c) = Draws(c)
    /\ \A c, page : P!PageOf(c, page) = PageOf(c, page)
<1>1. P!NONE = NONE /\ P!Blank = Blank /\ P!Whole = Whole /\ P!Cells = Cells
  BY DEF P!NONE, NONE, P!Blank, Blank, P!Whole, Whole, P!BLACK, BLACK, P!Cells, Cells
<1>2. \A b : P!Bit(b) = Bit(b)
  BY DEF P!Bit, Bit
<1>3. ASSUME NEW c PROVE P!DataWords(c) = DataWords(c)
  BY DEF P!DataWords, DataWords, P!Width, Width, P!Height, Height, P!Size, Size
<1>4. ASSUME NEW c PROVE P!Words(c) = Words(c)
  BY <1>3 DEF P!Words, Words, P!HeaderWords, HeaderWords, P!Vertices, Vertices, P!Bit, Bit
<1>5. ASSUME NEW c PROVE P!Free(c) = Free(c)
  BY DEF P!Free, Free
<1>6. ASSUME NEW c PROVE P!Draws(c) = Draws(c)
  BY DEF P!Draws, Draws
<1>7. ASSUME NEW c, NEW page PROVE P!PageOf(c, page) = PageOf(c, page)
  BY DEF P!PageOf, PageOf
<1> QED BY <1>1, <1>2, <1>3, <1>4, <1>5, <1>6, <1>7

\* What the painter's commands paint.
LEMMA PainterDraws ==
    ASSUME NEW c, NEW now
    PROVE  P!Drawn(c, now) = PaintedOn(now, gpu.ren.area, gpu.ren.offset, now,
                                       Primitives(c, gpu.page, guest.number))
<1> DEFINE seq == Primitives(c, gpu.page, guest.number)
<1>1. P!Primitives(c, gpu.page, guest.number) = seq
  BY DEF P!Primitives, Primitives, P!Pieces, Pieces, P!Pipeline, Pipeline, P!Textured, Textured,
         P!PageOf, PageOf, P!OPAQUE, OPAQUE, P!Texel, Texel
<1>2. P!Drawn(c, now) = PaintedOn(now, gpu.ren.area, gpu.ren.offset, now,
                                   P!Primitives(c, gpu.page, guest.number))
  BY DEF P!Drawn, PaintedOn, P!FoldLeft, FoldLeft, P!MapThenFoldSet, MapThenFoldSet, P!Max, Max,
         P!Rasterised, Rasterised, P!Cells, Cells, P!Datum, Datum, P!OPAQUE, OPAQUE
<1> HIDE DEF seq
<1> QED BY <1>1, <1>2 DEF seq

LEMMA PainterFills ==
    ASSUME NEW c, NEW now
    PROVE  P!Filled(c, now) = FilledOn(c, now, guest.number)
  BY DEF P!Filled, FilledOn, P!Wrapped, Wrapped, P!Aligned, Aligned, P!Cells, Cells, P!Datum, Datum

LEMMA PainterMoves ==
    ASSUME NEW c, NEW now
    PROVE  P!Moved(c, now) = MovedOn(c, now)
  BY DEF P!Moved, MovedOn, P!Wrapped, Wrapped, P!Cells, Cells, P!Width, Width, P!Height, Height,
         P!Size, Size

LEMMA PainterSends ==
    ASSUME NEW c, NEW now
    PROVE  P!Sent(c, now) = SentOn(c, now, guest.number)
  BY DEF P!Sent, SentOn, P!Cells, Cells, P!Width, Width, P!Height, Height, P!Size, Size,
         P!CellOf, CellOf, P!Datum, Datum

\* A command that is carried out is executed by the painter.
LEMMA ExecuteMaps ==
    ASSUME NEW c, NEW n, n = guest.number \/ (~Paints(c) /\ ~Draws(c)),
           gpu'.page = NextPage(c, gpu.page), gpu'.ren.area = NextArea(c, gpu.ren.area),
           gpu'.ren.offset = NextOffset(c, gpu.ren.offset),
           Image(gpu'.ren) = NextImage(c, gpu.ren, gpu.page, n)
    PROVE  P!Execute(c)
<1> DEFINE now == Image(gpu.ren)
<1>1. gpu'.page = CASE c.op = "TEXPAGE"         -> c.page
                    [] c.op = "POLYGON"         -> P!PageOf(c, gpu.page)
                    [] OTHER                    -> gpu.page
  BY PainterCommands DEF NextPage
<1>2. gpu'.ren.area = CASE c.op = "SET_DRAW_TOP"    -> [gpu.ren.area EXCEPT !.left = c.x, !.top = c.y]
                        [] c.op = "SET_DRAW_BOTTOM" -> [gpu.ren.area EXCEPT !.right = c.x, !.bottom = c.y]
                        [] OTHER                    -> gpu.ren.area
  BY DEF NextArea
<1>3. gpu'.ren.offset = IF c.op = "SET_DRAW_OFFSET" THEN c.x ELSE gpu.ren.offset
  BY DEF NextOffset
<1>4. Image(gpu'.ren) = CASE P!Draws(c)             -> P!Drawn(c, now)
                          [] c.op = "QUICK_FILL"    -> P!Filled(c, now)
                          [] c.op = "VRAM_BLIT"     -> P!Moved(c, now)
                          [] c.op = "CPU_VRAM_BLIT" -> P!Sent(c, now)
                          [] OTHER                  -> now
  <2>1. P!Draws(c) = Draws(c)
    BY PainterCommands
  <2>a. CASE Draws(c)
    <3>1. n = guest.number /\ Image(gpu'.ren) = DrawnOn(c, gpu.ren, gpu.page, n)
      BY <2>a DEF NextImage, Draws
    <3>2. Image(gpu'.ren) = P!Drawn(c, now)
      BY <3>1, PainterDraws DEF DrawnOn
    <3>3. c.op \notin {"QUICK_FILL", "VRAM_BLIT", "CPU_VRAM_BLIT"}
      BY <2>a DEF Draws
    <3> QED BY <2>1, <2>a, <3>2, <3>3
  <2>b. CASE c.op = "QUICK_FILL"
    <3>1. n = guest.number /\ ~Draws(c) /\ Image(gpu'.ren) = FilledOn(c, now, n)
      BY <2>b DEF NextImage, Draws, Paints
    <3>2. Image(gpu'.ren) = P!Filled(c, now)
      BY <3>1, PainterFills
    <3> QED BY <2>1, <2>b, <3>1, <3>2
  <2>c. CASE c.op = "VRAM_BLIT"
    <3>1. ~Draws(c) /\ Image(gpu'.ren) = MovedOn(c, now)
      BY <2>c DEF NextImage, Draws
    <3>2. Image(gpu'.ren) = P!Moved(c, now)
      BY <3>1, PainterMoves
    <3> QED BY <2>1, <2>c, <3>1, <3>2
  <2>d. CASE c.op = "CPU_VRAM_BLIT"
    <3>1. n = guest.number /\ ~Draws(c) /\ Image(gpu'.ren) = SentOn(c, now, n)
      BY <2>d DEF NextImage, Draws, Paints
    <3>2. Image(gpu'.ren) = P!Sent(c, now)
      BY <3>1, PainterSends
    <3> QED BY <2>1, <2>d, <3>1, <3>2
  <2>e. CASE ~Draws(c) /\ c.op \notin {"QUICK_FILL", "VRAM_BLIT", "CPU_VRAM_BLIT"}
    <3>1. Image(gpu'.ren) = now
      BY <2>e DEF NextImage
    <3> QED BY <2>1, <2>e, <3>1
  <2> QED BY <2>a, <2>b, <2>c, <2>d, <2>e
<1> HIDE DEF now
<1> QED BY <1>1, <1>2, <1>3, <1>4 DEF P!Execute, now

\* Commands have a word, those that wait in the queue have two.
LEMMA WordCounts ==
    ASSUME NEW c \in Commands
    PROVE  /\ HeaderWords(c) \in Nat /\ HeaderWords(c) > 0
           /\ ~Short(c) => HeaderWords(c) > 1
           /\ c.op = "CPU_VRAM_BLIT" => DataWords(c) \in Nat
           /\ Words(c) \in Nat /\ Words(c) >= HeaderWords(c)
<1>1. c.op = "CPU_VRAM_BLIT" => DataWords(c) \in Nat
  BY LastWord DEF Transferring
<1>2. HeaderWords(c) \in Nat /\ HeaderWords(c) > 0 /\ (~Short(c) => HeaderWords(c) > 1)
  <2>1. CASE Short(c)
    BY <2>1 DEF Short, HeaderWords
  <2>2. CASE Polyline(c)
    <3>1. c.n \in Nat /\ c.gouraud \in BOOLEAN /\ c.poly \in BOOLEAN
      <4>1. c \in CommandType
        BY GpuCommandsAssumption
      <4> QED BY <2>2, <4>1 DEF CommandType, Polyline
    <3>2. Bit(c.poly) = 1
      BY <2>2 DEF Polyline, Bit
    <3>3. HeaderWords(c) = 1 + c.n + (IF c.gouraud /\ c.n > 0 THEN c.n - 1 ELSE 0) + Bit(c.poly)
      BY <2>2 DEF Polyline, HeaderWords
    <3>4. CASE c.gouraud /\ c.n > 0
      BY <3>1, <3>2, <3>3, <3>4
    <3>5. CASE ~(c.gouraud /\ c.n > 0)
      BY <3>1, <3>2, <3>3, <3>5
    <3> QED BY <3>4, <3>5
  <2>3. CASE ~Short(c) /\ ~Polyline(c)
    BY <2>3, QueuedWords
  <2> QED BY <2>1, <2>2, <2>3
<1>3. Words(c) \in Nat /\ Words(c) >= HeaderWords(c)
  BY <1>1, <1>2 DEF Words
<1> QED BY <1>1, <1>2, <1>3

\* A command that paints has more than one word.
LEMMA PaintingWords ==
    ASSUME NEW c \in Commands, Words(c) = 1
    PROVE  ~Paints(c) /\ ~Draws(c)
<1>1. Short(c)
  BY WordCounts
<1> QED BY <1>1 DEF Short, Draws, Paints

\* A word that the GPU takes is a word for the painter.
LEMMA WordMaps ==
    ASSUME NEW c \in Commands, guest \in GuestType, guest.sent < Words(c), Words(c) \in Nat,
           guest.cmd = NONE \/ guest.cmd = c, Taken(c)
    PROVE  P!Word(c)
<1> DEFINE sent == guest.sent
           n == Number(c)
           final == sent + 1 = Words(c)
<1>1. PICK t : /\ gpu' = UpdateDreq(t) /\ GpuRecord(t) /\ NextStands(t, c, sent)
               /\ Painted(gpu, t, c, sent, n)
  BY DEF Taken
<1>2. gpu'.page = t.page /\ gpu'.ren = t.ren
  BY <1>1, UpdatedKeeps
<1>3. sent \in Nat /\ (sent + 1 < Words(c) <=> ~final)
  BY DEF GuestType
<1>4. P!NONE = NONE /\ P!Words(c) = Words(c) /\ P!Free(c) = Free(c)
      /\ \A b : P!Bit(b) = Bit(b)
  BY PainterCommands
<1>5. /\ guest'.cmd = (IF ~final \/ c.op = "VRAM_CPU_BLIT" THEN c ELSE NONE)
      /\ guest'.sent = (IF ~final \/ c.op = "VRAM_CPU_BLIT" THEN sent + 1 ELSE 0)
      /\ guest'.reads = 0 /\ guest'.last = (IF Words(c) = 1 THEN c ELSE NONE)
      /\ guest'.number = n
  BY DEF Taken, After
<1>6. guest'.number = guest.number + P!Bit(sent = 0 /\ ~P!Free(c))
  BY <1>4, <1>5 DEF Number
<1>7. IF sent + 1 < P!Words(c) \/ c.op = "VRAM_CPU_BLIT"
      THEN guest'.cmd = c /\ guest'.sent = sent + 1
      ELSE guest'.cmd = P!NONE /\ guest'.sent = 0
  BY <1>3, <1>4, <1>5
<1>8. IF sent + 1 < P!Words(c)
      THEN /\ gpu'.page = gpu.page /\ gpu'.ren.area = gpu.ren.area
           /\ gpu'.ren.offset = gpu.ren.offset /\ Image(gpu'.ren) = Image(gpu.ren)
      ELSE P!Execute(c)
  <2>1. CASE final
    <3>1. Ended(gpu, t, c, n)
      BY <1>1, <2>1 DEF Painted
    <3>2. n = guest.number \/ (~Paints(c) /\ ~Draws(c))
      <4>1. CASE sent = 0
        <5>1. Words(c) = 1
          BY <2>1, <4>1
        <5> QED BY <5>1, PaintingWords
      <4>2. CASE sent # 0
        BY <4>2, NumberType
      <4> QED BY <4>1, <4>2
    <3>3. /\ gpu'.page = NextPage(c, gpu.page) /\ gpu'.ren.area = NextArea(c, gpu.ren.area)
          /\ gpu'.ren.offset = NextOffset(c, gpu.ren.offset)
          /\ Image(gpu'.ren) = NextImage(c, gpu.ren, gpu.page, n)
      BY <1>2, <3>1, Zenon DEF Ended
    <3>4. P!Execute(c)
      <4> HIDE DEF n
      <4> QED BY <3>2, <3>3, ExecuteMaps
    <3> QED BY <1>3, <1>4, <2>1, <3>4
  <2>2. CASE ~final
    <3>1. Passed(gpu, t)
      BY <1>1, <2>2 DEF Painted
    <3>2. /\ gpu'.page = gpu.page /\ gpu'.ren.area = gpu.ren.area
          /\ gpu'.ren.offset = gpu.ren.offset /\ Image(gpu'.ren) = Image(gpu.ren)
      BY <1>2, <3>1, Zenon DEF Passed
    <3> QED BY <1>3, <1>4, <2>2, <3>2
  <2> QED BY <2>1, <2>2
<1>9. guest.cmd = P!NONE \/ (guest.cmd = c /\ sent < P!Words(c))
  BY <1>4
<1> QED BY <1>4, <1>5, <1>6, <1>7, <1>8, <1>9 DEF P!Word

\* Words are left while the guest sends.
LEMMA SentSoFar ==
    ASSUME Inv
    PROVE  /\ \A c \in Commands : guest.cmd = NONE => guest.sent < Words(c) /\ Words(c) \in Nat
           /\ guest.cmd # NONE /\ ~Reading
                => /\ guest.cmd \in Commands /\ Words(guest.cmd) \in Nat
                   /\ guest.sent < Words(guest.cmd)
<1>1. ASSUME NEW c \in Commands PROVE Words(c) \in Nat /\ Words(c) > 0
  BY WordCounts
<1>2. /\ StandsAt(gpu, guest.cmd, guest.sent, guest.reads) /\ guest \in GuestType
      /\ guest.sent \in Nat
  BY DEF Inv, GuestType
<1>3. guest.cmd = NONE => guest.sent = 0
  BY <1>2, NoCommand DEF StandsAt, Standing
<1>4. ASSUME guest.cmd # NONE, ~Reading PROVE guest.sent < Words(guest.cmd) /\ guest.cmd \in Commands
  <2> DEFINE c == guest.cmd
  <2>1. c \in Commands /\ HeaderWords(c) \in Nat /\ (c.op = "CPU_VRAM_BLIT" => DataWords(c) \in Nat)
    BY <1>2, <1>4, WordCounts DEF GuestType
  <2>2. \/ guest.sent \in 1 .. HeaderWords(c) - 1
        \/ c.op = "CPU_VRAM_BLIT" /\ guest.sent \in 3 .. 2 + DataWords(c)
    BY <1>2, <1>4, FedRoom DEF StandsAt, Standing
  <2>3. c.op = "CPU_VRAM_BLIT" => HeaderWords(c) = 3
    BY <2>1, FixedWords
  <2> QED BY <1>2, <2>1, <2>2, <2>3 DEF Words
<1> QED BY <1>1, <1>2, <1>3, <1>4

\* The inductive invariant.
PictureInv == Inv /\ Holding

LEMMA InitPictureInv == Init => PictureInv
  BY InitInv, InitHolds DEF PictureInv

LEMMA NextPictureInv ==
    ASSUME PictureInv, Care = Cares, [Next]_vars
    PROVE  PictureInv'
<1>0. Inv /\ Holding /\ guest \in GuestType
  BY DEF PictureInv, Inv
<1>1. Inv'
  <2>1. Rules \subseteq Care
    BY DEF Rules, Cares
  <2> QED BY <1>0, <2>1, NextInv
<1>2. Holding'
  <2>1. CASE UNCHANGED vars
    BY <1>0, <2>1 DEF vars, Holding
  <2>2. ASSUME NEW c \in Commands, StartCommand(c) PROVE Holding'
    BY <1>0, <2>2, StartTakes, WordHolds
  <2>3. CASE ContinueCommand
    <3>1. guest.cmd \in Commands
      BY <1>0, <2>3 DEF ContinueCommand, GuestType
    <3> QED BY <1>0, <2>3, <3>1, ContinueTakes, WordHolds
  <2>4. CASE ReadWord
    BY <1>0, <2>4, ReadWordHolds
  <2>5. CASE ResetCommand
    BY <1>0, <2>5, ResetCommandHolds
  <2>6. CASE ReadGpuRegister
    BY <1>0, <2>6, ReadGpuRegisterHolds
  <2>7. CASE ReadStat
    BY <1>0, <2>7, ReadStatHolds
  <2>8. CASE FrameEnds
    BY <1>0, <2>8, FrameEndsHolds
  <2> QED BY <2>1, <2>2, <2>3, <2>4, <2>5, <2>6, <2>7, <2>8 DEF Next
<1> QED BY <1>1, <1>2 DEF PictureInv

LEMMA InitMaps == Init => P!Init
<1> SUFFICES ASSUME Init PROVE P!Init
  OBVIOUS
<1>1. /\ gpu.page = 0 /\ gpu.ren = NewRenderer
      /\ guest = [cmd |-> NONE, sent |-> 0, reads |-> 0, last |-> NONE, number |-> 0, stale |-> FALSE]
  BY DEF Init
<1>2. Image(gpu.ren) = Blank
  BY <1>1, NewIsSound
<1>3. gpu.ren.area = Whole /\ gpu.ren.offset = 0
  BY <1>1 DEF NewRenderer
<1> QED BY <1>1, <1>2, <1>3, PainterCommands DEF P!Init

LEMMA ReadMaps ==
    ASSUME PictureInv, ReadWord
    PROVE  P!Read
<1> DEFINE c == guest.cmd
<1>1. Reading
  BY DEF ReadWord
<1>2. Undisturbed /\ guest \in GuestType
  BY ReadWordHolds DEF PictureInv, Inv
<1>3. guest.reads \in 0 .. DataWords(c) - 1 /\ c \in Commands /\ c.op = "VRAM_CPU_BLIT"
  BY <1>1, ReadingStands DEF PictureInv, Inv, StandsAt, Standing
<1>4. DataWords(c) \in Nat
  BY <1>3, LastWord DEF Transferring
<1>5. guest.reads + 1 < DataWords(c) <=> guest.reads + 1 # DataWords(c)
  BY <1>3, <1>4
<1>6. IF guest.reads + 1 < DataWords(c)
      THEN guest'.reads = guest.reads + 1 /\ guest'.cmd = c /\ guest'.sent = guest.sent
      ELSE guest'.reads = 0 /\ guest'.cmd = NONE /\ guest'.sent = 0
  <2>1. guest' = IF guest.reads + 1 = DataWords(c)
                 THEN [guest EXCEPT !.cmd = NONE, !.sent = 0, !.reads = 0]
                 ELSE [guest EXCEPT !.reads = @ + 1]
    BY DEF ReadWord
  <2> QED BY <1>2, <1>5, <2>1 DEF GuestType
<1>7. guest'.last = guest.last /\ guest'.number = guest.number
  <2>1. \/ guest' = [guest EXCEPT !.cmd = NONE, !.sent = 0, !.reads = 0]
        \/ guest' = [guest EXCEPT !.reads = @ + 1]
    BY DEF ReadWord
  <2> QED BY <1>2, <2>1 DEF GuestType
<1> QED BY <1>1, <1>2, <1>6, <1>7, PainterCommands DEF P!Read, Undisturbed, Reading

LEMMA AbortMaps ==
    ASSUME PictureInv, ResetCommand
    PROVE  P!Abort
<1>1. Undisturbed /\ guest \in GuestType
  BY ResetCommandHolds DEF PictureInv, Inv
<1>2. guest' = [guest EXCEPT !.cmd = NONE, !.sent = 0, !.reads = 0]
  BY DEF ResetCommand
<1>3. /\ guest'.cmd = NONE /\ guest'.sent = 0 /\ guest'.reads = 0
      /\ guest'.last = guest.last /\ guest'.number = guest.number
  BY <1>1, <1>2 DEF GuestType
<1> QED BY <1>1, <1>3, PainterCommands DEF P!Abort, Undisturbed

LEMMA StutterMaps ==
    ASSUME Undisturbed, guest' = guest
    PROVE  UNCHANGED P!painter
  BY DEF Undisturbed, P!painter

\* Every step is a step of the painter or changes nothing there.
LEMMA StepMaps ==
    ASSUME PictureInv, Care = Cares, [Next]_vars
    PROVE  [P!Next]_(P!painter)
<1>0. Inv /\ Holding /\ guest \in GuestType
  BY DEF PictureInv, Inv
<1>1. CASE UNCHANGED vars
  <2>1. Undisturbed /\ guest' = guest
    BY <1>1 DEF vars, Undisturbed
  <2> QED BY <2>1, StutterMaps
<1>2. ASSUME NEW c \in Commands, StartCommand(c) PROVE P!Word(c)
  <2>1. guest.cmd = NONE
    BY <1>2 DEF StartCommand
  <2> QED BY <1>0, <1>2, <2>1, StartTakes, SentSoFar, WordMaps
<1>3. CASE ContinueCommand
  <2>1. guest.cmd # NONE /\ ~Reading
    BY <1>3 DEF ContinueCommand
  <2>2. guest.cmd \in Commands /\ P!Word(guest.cmd)
    BY <1>0, <1>3, <2>1, ContinueTakes, SentSoFar, WordMaps
  <2> QED BY <2>2 DEF P!Next
<1>4. CASE ReadWord
  BY <1>4, ReadMaps DEF P!Next
<1>5. CASE ResetCommand
  BY <1>5, AbortMaps DEF P!Next
<1>6. CASE ReadGpuRegister
  <2>1. guest' = guest
    BY <1>6 DEF ReadGpuRegister
  <2> QED BY <1>0, <1>6, <2>1, ReadGpuRegisterHolds, StutterMaps
<1>7. CASE ReadStat
  <2>1. guest' = guest
    BY <1>7 DEF ReadStat
  <2> QED BY <1>0, <1>7, <2>1, ReadStatHolds, StutterMaps
<1>8. CASE FrameEnds
  <2>1. guest' = guest
    BY <1>8 DEF FrameEnds
  <2> QED BY <1>0, <1>8, <2>1, FrameEndsHolds, StutterMaps
<1>9. ASSUME NEW c \in Commands, StartCommand(c) PROVE P!Next
  BY <1>2, <1>9 DEF P!Next
<1> QED BY <1>1, <1>3, <1>4, <1>5, <1>6, <1>7, <1>8, <1>9 DEF Next

\* For every size of the video memory, of the queue and of the renderer's
\* buffers and every set of commands: while the guest keeps its rules, the
\* renderer's commands count what it has collected, the texture is up to date
\* when nothing is due, the texture cache is clean unless something was
\* painted since it was cleared, and during a transfer the buffer of the CPU
\* holds the pixels sent so far or the picture to read.
THEOREM GpuPictureInv == Care = Cares => (Spec => []PictureInv)
<1> SUFFICES ASSUME Care = Cares PROVE Spec => []PictureInv
  OBVIOUS
<1>1. Init => PictureInv
  BY InitPictureInv
<1>2. PictureInv /\ [Next]_vars => PictureInv'
  BY NextPictureInv
<1> QED BY <1>1, <1>2, PTL DEF Spec

\* The GPU implements the painter: whatever is collected in how many buffers,
\* however often frames end between the words of a command and resets cut
\* commands short, the framebuffer with what is still collected is what it
\* would be if each command were painted when its last word arrives, with the
\* page, the drawing area and the offset selected then.
THEOREM GpuImplementsPainter == Care = Cares => (Spec => ImplementsPainter)
<1> SUFFICES ASSUME Care = Cares PROVE Spec => ImplementsPainter
  OBVIOUS
<1>1. Init => P!Init
  BY InitMaps
<1>2. PictureInv /\ [Next]_vars => [P!Next]_(P!painter)
  BY StepMaps
<1>3. Spec => []PictureInv
  BY GpuPictureInv
<1> QED BY <1>1, <1>2, <1>3, PTL DEF Spec, ImplementsPainter, P!Spec

\* Each word that the guest reads back through GPUREAD holds the next two
\* pixels of the picture, or its last one, as painted by the commands before,
\* although the GPU reads them from a buffer that it filled when the transfer
\* began, and takes the second pixel from the next address.
THEOREM GpuReadsImage == Care = Cares => (Spec => ReadsImage)
<1> SUFFICES ASSUME Care = Cares PROVE Spec => ReadsImage
  OBVIOUS
<1> DEFINE c == guest.cmd
           k == 2 * guest.reads
           Pixel(j) == Image(gpu.ren)[CellOf(c, j)]
           A == ReadWord => ReadValue(gpu) = IF k + 1 = Width(c) * Height(c) THEN <<Pixel(k)>>
                                             ELSE <<Pixel(k), Pixel(k + 1)>>
<1>1. PictureInv /\ [Next]_vars => [A]_vars
  <2> SUFFICES ASSUME PictureInv, ReadWord PROVE A
    OBVIOUS
  <2>1. Inv /\ Holding /\ Reading
    BY DEF PictureInv, ReadWord
  <2> QED BY <2>1, ReadsPicture
<1>2. Spec => []PictureInv
  BY GpuPictureInv
<1> QED BY <1>1, <1>2, PTL DEF Spec, ReadsImage
=============================================================================
