------------------------------ MODULE DmaProofs ------------------------------
(***************************************************************************)
(* Proofs about Dma, for every set of channels, every linked list and every *)
(* value the guest may write.                                              *)
(***************************************************************************)
EXTENDS Dma, TLAPS, WellFoundedInduction

QType == [ch : [Channels -> Channel], slots : [Slots -> Transfer], n : 0..6]
DType == [Channels -> [enable : BOOLEAN, prio : 0..7]]

\* ActiveAreRunning as a predicate on the channels and the list.
ListOK(x) ==
    /\ \A i \in 0..(x.n - 1) : x.slots[i].id \in Channels /\ x.ch[x.slots[i].id].running
    /\ \A i, j \in 0..(x.n - 1) : i # j => x.slots[i].id # x.slots[j].id
    /\ \A c \in Channels : x.ch[c].running => \E i \in 0..(x.n - 1) : x.slots[i].id = c
-----------------------------------------------------------------------------
\* A transfer finds a place among the active ones, whatever the slots hold.
LEMMA InsertAtPlace ==
    ASSUME NEW s, NEW n \in 0..6, NEW c, NEW prio
    PROVE  InsertAt(s, n, c, prio) \in 0..n
<1> DEFINE P(p) == Before(s[p], c, prio)
           R(p) == (p = 0 \/ P(p)) /\ \A r \in (p + 1)..n : ~P(r)
<1> SUFFICES \E p \in 0..n : R(p)
  BY DEF InsertAt
<1> HIDE DEF P
<1>6. CASE n >= 6 /\ P(6)
  <2>1. 6 \in 0..n /\ R(6) BY <1>6
  <2> QED BY <2>1
<1>5. CASE n >= 5 /\ P(5) /\ ~(n >= 6 /\ P(6))
  <2>1. 5 \in 0..n /\ R(5) BY <1>5
  <2> QED BY <2>1
<1>4. CASE n >= 4 /\ P(4) /\ ~(n >= 5 /\ P(5)) /\ ~(n >= 6 /\ P(6))
  <2>1. 4 \in 0..n /\ R(4) BY <1>4
  <2> QED BY <2>1
<1>3. CASE /\ n >= 3 /\ P(3)
           /\ ~(n >= 4 /\ P(4)) /\ ~(n >= 5 /\ P(5)) /\ ~(n >= 6 /\ P(6))
  <2>1. 3 \in 0..n /\ R(3) BY <1>3
  <2> QED BY <2>1
<1>2. CASE /\ n >= 2 /\ P(2) /\ ~(n >= 3 /\ P(3))
           /\ ~(n >= 4 /\ P(4)) /\ ~(n >= 5 /\ P(5)) /\ ~(n >= 6 /\ P(6))
  <2>1. 2 \in 0..n /\ R(2) BY <1>2
  <2> QED BY <2>1
<1>1. CASE /\ n >= 1 /\ P(1) /\ ~(n >= 2 /\ P(2)) /\ ~(n >= 3 /\ P(3))
           /\ ~(n >= 4 /\ P(4)) /\ ~(n >= 5 /\ P(5)) /\ ~(n >= 6 /\ P(6))
  <2>1. 1 \in 0..n /\ R(1) BY <1>1
  <2> QED BY <2>1
<1>0. CASE /\ ~(n >= 1 /\ P(1)) /\ ~(n >= 2 /\ P(2)) /\ ~(n >= 3 /\ P(3))
           /\ ~(n >= 4 /\ P(4)) /\ ~(n >= 5 /\ P(5)) /\ ~(n >= 6 /\ P(6))
  <2>1. 0 \in 0..n /\ R(0) BY <1>0
  <2> QED BY <2>1
<1> HIDE DEF R
<1> QED BY <1>0, <1>1, <1>2, <1>3, <1>4, <1>5, <1>6

\* With a channel that does not run there is room in the list.
LEMMA RoomLeft ==
    ASSUME NEW x \in QType, ListOK(x), NEW c \in Channels, ~x.ch[c].running
    PROVE  x.n \in 0..5
<1>1. SUFFICES ASSUME x.n = 6 PROVE FALSE
  BY DEF QType
<1> DEFINE id(i) == x.slots[i].id
<1>a. x.n - 1 = 5
  BY <1>1
<1>2. \A i \in 0..5 : id(i) \in Channels /\ x.ch[id(i)].running
  BY <1>a, SMTT(30) DEF ListOK
<1>3. \A i \in 0..5 : id(i) \in AllChannels /\ id(i) # c
  BY <1>2, DmaAssumption
<1>4. \A i, j \in 0..5 : i # j => id(i) # id(j)
  BY <1>a, SMTT(30) DEF ListOK
<1>5. c \in AllChannels
  BY DmaAssumption
<1> HIDE DEF id
<1>6. /\ id(0) # id(1) /\ id(0) # id(2) /\ id(0) # id(3) /\ id(0) # id(4) /\ id(0) # id(5)
      /\ id(1) # id(2) /\ id(1) # id(3) /\ id(1) # id(4) /\ id(1) # id(5)
      /\ id(2) # id(3) /\ id(2) # id(4) /\ id(2) # id(5)
      /\ id(3) # id(4) /\ id(3) # id(5) /\ id(4) # id(5)
  BY <1>4
<1>7. /\ id(0) \in AllChannels \ {c} /\ id(1) \in AllChannels \ {c}
      /\ id(2) \in AllChannels \ {c} /\ id(3) \in AllChannels \ {c}
      /\ id(4) \in AllChannels \ {c} /\ id(5) \in AllChannels \ {c}
  BY <1>3
<1> QED BY <1>5, <1>6, <1>7 DEF AllChannels

\* AddTransfer of a channel that starts to run.
LEMMA ListAdd ==
    ASSUME NEW x \in QType, ListOK(x), dpcr \in DType,
           NEW c \in Channels, ~x.ch[c].running,
           NEW ch \in Channel, ch.running
    PROVE  LET y == AddTransfer(Set(x, c, ch), c)
           IN  y \in QType /\ ListOK(y) /\ y.ch = [x.ch EXCEPT ![c] = ch]
<1> DEFINE z == Set(x, c, ch)
           y == AddTransfer(z, c)
           prio == dpcr[c].prio
           p == InsertAt(x.slots, x.n, c, prio)
<1>1. x.n \in 0..5
  BY RoomLeft
<1>2. p \in 0..x.n
  BY <1>1, InsertAtPlace
<1>3. /\ z.n = x.n /\ z.slots = x.slots /\ z.ch = [x.ch EXCEPT ![c] = ch]
      /\ z \in QType
  BY DEF QType, Set
<1>4. /\ y.n = x.n + 1 /\ y.ch = z.ch
      /\ y.slots = [i \in Slots |-> IF i < p THEN x.slots[i]
                                    ELSE IF i = p THEN [id |-> c, prio |-> prio]
                                    ELSE x.slots[i - 1]]
  BY <1>3 DEF AddTransfer, QType
<1>5. [id |-> c, prio |-> prio] \in Transfer
  BY DmaAssumption DEF Transfer, DType
<1>6. y.slots \in [Slots -> Transfer]
  <2> HIDE DEF p
  <2>1. x.slots \in [Slots -> Transfer] BY DEF QType
  <2>2. SUFFICES ASSUME NEW i \in Slots PROVE y.slots[i] \in Transfer
    BY <1>4
  <2>3. CASE i < p BY <2>1, <2>3, <1>4
  <2>4. CASE i = p
    <3>1. y.slots[i] = [id |-> c, prio |-> prio]
      <4> HIDE DEF y
      <4> QED BY <2>4, <1>4, <1>1, <1>2 DEF Slots
    <3> QED BY <3>1, <1>5
  <2>5. CASE i > p
    <3>1. i - 1 \in Slots BY <2>5, <1>1, <1>2 DEF Slots
    <3> QED BY <3>1, <2>1, <2>5, <1>4, <1>2, <1>1 DEF Slots
  <2> QED BY <2>3, <2>4, <2>5, <1>1, <1>2 DEF Slots
<1>7. y \in QType
  BY <1>1, <1>3, <1>4, <1>6 DEF QType, AddTransfer
<1>8. ListOK(y)
  <2> HIDE DEF p, y, z
  <2>1. \A i \in 0..x.n : /\ i < p => y.slots[i] = x.slots[i]
                          /\ i = p => y.slots[i].id = c
                          /\ i > p => y.slots[i] = x.slots[i - 1]
    BY <1>1, <1>2, <1>4 DEF Slots
  <2>2. \A d \in Channels : y.ch[d].running <=> (d = c \/ x.ch[d].running)
    BY <1>3, <1>4 DEF QType
  <2>3. \A i \in 0..(x.n - 1) : /\ x.slots[i].id \in Channels /\ x.slots[i].id # c
                                /\ x.ch[x.slots[i].id].running
    BY DEF ListOK
  <2>4. ASSUME NEW i \in 0..(y.n - 1) PROVE y.slots[i].id \in Channels /\ y.ch[y.slots[i].id].running
    <3>1. i \in 0..x.n BY <1>1, <1>4
    <3>2. CASE i < p BY <3>1, <3>2, <1>1, <1>2, <2>1, <2>2, <2>3
    <3>3. CASE i = p
      <4>1. y.slots[i].id = c BY <3>1, <3>3, <2>1
      <4> QED BY <4>1, <2>2
    <3>4. CASE i > p BY <3>1, <3>4, <1>1, <1>2, <2>1, <2>2, <2>3
    <3> QED BY <3>1, <3>2, <3>3, <3>4, <1>1, <1>2
  <2>5. ASSUME NEW i \in 0..(y.n - 1), NEW j \in 0..(y.n - 1), i < j
        PROVE  y.slots[i].id # y.slots[j].id
    <3>1. \A k, l \in 0..(x.n - 1) : k # l => x.slots[k].id # x.slots[l].id
      BY DEF ListOK
    <3>2. i \in 0..x.n /\ j \in 0..x.n BY <1>1, <1>4
    <3>3. CASE i < p /\ j < p BY <3>1, <3>2, <3>3, <2>1, <2>5, <1>1, <1>2
    <3>4. CASE i < p /\ j = p BY <3>2, <3>4, <2>1, <2>3, <1>1, <1>2
    <3>5. CASE i < p /\ j > p BY <3>1, <3>2, <3>5, <2>1, <1>1, <1>2
    <3>6. CASE i = p BY <3>2, <3>6, <2>1, <2>3, <2>5, <1>1, <1>2
    <3>7. CASE i > p BY <3>1, <3>2, <3>7, <2>1, <2>5, <1>1, <1>2
    <3> QED BY <3>2, <3>3, <3>4, <3>5, <3>6, <3>7, <1>1, <1>2
  <2>6. ASSUME NEW d \in Channels, y.ch[d].running
        PROVE  \E i \in 0..(y.n - 1) : y.slots[i].id = d
    <3>1. CASE d = c
      <4>1. p \in 0..(y.n - 1) /\ y.slots[p].id = c BY <1>1, <1>2, <1>4, <2>1
      <4> QED BY <4>1, <3>1
    <3>2. CASE d # c
      <4>1. PICK i \in 0..(x.n - 1) : x.slots[i].id = d
        BY <2>2, <2>6, <3>2 DEF ListOK
      <4>2. CASE i < p
        <5>1. i \in 0..(y.n - 1) /\ y.slots[i].id = d BY <1>1, <1>2, <1>4, <2>1, <4>1, <4>2
        <5> QED BY <5>1
      <4>3. CASE i >= p
        <5>1. i + 1 \in 0..(y.n - 1) /\ y.slots[i + 1].id = d
          BY <1>1, <1>2, <1>4, <2>1, <4>1, <4>3
        <5> QED BY <5>1
      <4> QED BY <4>2, <4>3, <1>1, <1>2
    <3> QED BY <3>1, <3>2
  <2>7. \A i, j \in 0..(y.n - 1) : i # j => y.slots[i].id # y.slots[j].id
    BY <2>5, <1>1, <1>4, SMTT(30)
  <2> QED BY <2>4, <2>6, <2>7 DEF ListOK
<1> QED BY <1>3, <1>4, <1>7, <1>8

\* RemoveTransfer when the first channel stops.
LEMMA ListRemove ==
    ASSUME NEW x \in QType, ListOK(x), x.n > 0,
           NEW c \in Channels, x.slots[0].id = c,
           NEW ch \in Channel, ~ch.running
    PROVE  LET y == RemoveTransfer(Set(x, c, ch))
           IN  y \in QType /\ ListOK(y) /\ y.ch = [x.ch EXCEPT ![c] = ch]
<1> DEFINE z == Set(x, c, ch)
           y == RemoveTransfer(z)
<1>1. /\ z.n = x.n /\ z.slots = x.slots /\ z.ch = [x.ch EXCEPT ![c] = ch]
      /\ z \in QType /\ x.n \in 1..6
  BY DEF QType, Set
<1>2. /\ y.n = x.n - 1 /\ y.ch = z.ch
      /\ y.slots = [i \in Slots |-> IF i < 7 THEN x.slots[i + 1] ELSE x.slots[i]]
  BY <1>1 DEF RemoveTransfer, QType
<1>3. y.slots \in [Slots -> Transfer]
  BY <1>2 DEF QType, Slots
<1>4. y \in QType
  BY <1>1, <1>2, <1>3 DEF QType, RemoveTransfer
<1>5. ListOK(y)
  <2> HIDE DEF y, z
  <2>1. \A i \in 0..(y.n - 1) : i + 1 \in 0..(x.n - 1) /\ y.slots[i] = x.slots[i + 1]
    BY <1>1, <1>2 DEF Slots
  <2>2. \A d \in Channels : y.ch[d].running <=> (d # c /\ x.ch[d].running)
    BY <1>1, <1>2 DEF QType
  <2>3. \A i, j \in 0..(x.n - 1) : i # j => x.slots[i].id # x.slots[j].id
    BY DEF ListOK
  <2>4. ASSUME NEW i \in 0..(y.n - 1) PROVE y.slots[i].id \in Channels /\ y.ch[y.slots[i].id].running
    <3>1. x.slots[i + 1].id # c BY <2>1, <2>3, <1>1
    <3> QED BY <3>1, <2>1, <2>2 DEF ListOK
  <2>5. \A i, j \in 0..(y.n - 1) : i # j => y.slots[i].id # y.slots[j].id
    BY <2>1, <2>3
  <2>6. ASSUME NEW d \in Channels, y.ch[d].running
        PROVE  \E i \in 0..(y.n - 1) : y.slots[i].id = d
    <3>1. PICK i \in 0..(x.n - 1) : x.slots[i].id = d
      BY <2>2, <2>6 DEF ListOK
    <3>2. i # 0 BY <3>1, <2>2, <2>6
    <3>3. i - 1 \in 0..(y.n - 1) /\ y.slots[i - 1].id = d
      BY <3>1, <3>2, <2>1, <1>1, <1>2
    <3> QED BY <3>3
  <2> QED BY <2>4, <2>5, <2>6 DEF ListOK
<1> QED BY <1>1, <1>2, <1>4, <1>5
-----------------------------------------------------------------------------
(***************************************************************************)
(* The inductive invariant: a paused linked transfer has a node to go on   *)
(* with, the ordering table runs only while it has entries, and, if the    *)
(* guest is careful, a busy channel is enabled and waits only for a device *)
(* that asks for nothing.                                                  *)
(***************************************************************************)
ChanOK(c, r) ==
    /\ r \in Channel
    /\ r.active /\ ~r.running /\ r.sync = "LINKED" => r.next # END
    /\ c = 6 => r.sync = "BURST" /\ (r.running => r.words > 0)

Care(c, r, enable) ==
    /\ r.start => enable
    /\ r.running => r.start
    /\ r.start /\ ~r.running => ~r.dreq /\ c # 6

QInv(x, d) ==
    /\ x \in QType
    /\ d \in DType
    /\ ListOK(x)
    /\ \A c \in Channels : ChanOK(c, x.ch[c]) /\ (Careful => Care(c, x.ch[c], d[c].enable))

LEMMA EndNat == END \in Nat /\ END > 1 /\ Len(Nodes) \in Nat /\ END = Len(Nodes) + 1
BY DmaAssumption DEF END

\* A change of a channel that leaves it running or not running.
LEMMA SetKeeps ==
    ASSUME NEW x, QInv(x, dpcr), NEW c \in Channels, NEW r,
           r.running = x.ch[c].running, ChanOK(c, r),
           Careful => Care(c, r, dpcr[c].enable)
    PROVE  QInv(Set(x, c, r), dpcr)
<1> DEFINE y == Set(x, c, r)
<1>1. x \in QType /\ r \in Channel /\ dpcr \in DType
  BY DEF QInv, ChanOK
<1>2. /\ y.n = x.n /\ y.slots = x.slots /\ y \in QType
      /\ y.ch = [x.ch EXCEPT ![c] = r]
  BY <1>1 DEF QType, Set
<1>3. \A d \in Channels : y.ch[d].running = x.ch[d].running
  BY <1>1, <1>2 DEF QType
<1>4. ListOK(y)
  <2> HIDE DEF y
  <2>1. ListOK(x) BY DEF QInv
  <2> QED BY <2>1, <1>2, <1>3 DEF ListOK
<1>5. ASSUME NEW d \in Channels
      PROVE  ChanOK(d, y.ch[d]) /\ (Careful => Care(d, y.ch[d], dpcr[d].enable))
  <2> HIDE DEF y
  <2>1. CASE d = c
    <3>1. y.ch[d] = r BY <1>1, <1>2, <2>1 DEF QType
    <3> QED BY <3>1, <2>1
  <2>2. CASE d # c
    <3>1. y.ch[d] = x.ch[d] BY <1>1, <1>2, <2>2 DEF QType
    <3> QED BY <3>1 DEF QInv
  <2> QED BY <2>1, <2>2
<1> QED BY <1>1, <1>2, <1>4, <1>5 DEF QInv

LEMMA GoalType ==
    ASSUME NEW c, NEW r \in Channel
    PROVE  Goal(c, r) \in Nat \cup {ListWords}
<1>1. /\ r.size \in Nat /\ r.count \in Nat /\ U16 \in Nat
      /\ r.sync \in {"BURST", "SLICE", "LINKED"}
  BY DmaAssumption DEF Channel
<1>2. WordCount(r.size) \in Nat
  BY <1>1 DEF WordCount
<1>3. r.size * BlockCount(r.count) \in Nat
  BY <1>1 DEF BlockCount
<1>4. CASE Rejected(c, r)
  BY <1>4 DEF Goal
<1>5. CASE ~Rejected(c, r) /\ r.sync = "BURST"
  BY <1>2, <1>5 DEF Goal
<1>6. CASE ~Rejected(c, r) /\ r.sync = "SLICE"
  BY <1>3, <1>6 DEF Goal
<1>7. CASE ~Rejected(c, r) /\ r.sync = "LINKED"
  BY <1>7 DEF Goal
<1> QED BY <1>1, <1>4, <1>5, <1>6, <1>7

\* What TransferStart makes of a channel.
LEMMA LoadedType ==
    ASSUME NEW c, NEW r \in Channel, NEW resume \in BOOLEAN,
           resume /\ r.sync = "LINKED" => r.next # END
    PROVE  LET l == Loaded(c, r, resume) IN
           /\ l \in Channel /\ l.running = TRUE
           /\ l.start = r.start /\ l.sync = r.sync
           /\ r.sync = "BURST" => l.words > 0
<1> DEFINE node == IF resume THEN r.next ELSE 1
           w == CASE r.sync = "BURST" -> WordCount(r.size)
                  [] r.sync = "SLICE" -> r.size
                  [] r.sync = "LINKED" -> Nodes[node]
           b == IF r.sync = "SLICE" /\ ~resume THEN r.count ELSE r.blocks
           nx == IF r.sync = "LINKED" THEN node + 1 ELSE r.next
           mv == IF resume THEN r.moved ELSE 0
           g == IF resume THEN r.goal ELSE Goal(c, r)
<1>1. /\ r.size \in Nat /\ r.count \in Nat /\ r.blocks \in Int /\ r.moved \in Nat
      /\ r.sync \in {"BURST", "SLICE", "LINKED"} /\ r.next \in 1..END
      /\ r.goal \in Nat \cup {ListWords} /\ U16 \in Nat /\ U16 > 0
  BY DmaAssumption DEF Channel
<1>2. WordCount(r.size) \in Nat /\ WordCount(r.size) > 0
  BY <1>1 DEF WordCount
<1>3. r.sync = "LINKED" => node \in 1..Len(Nodes)
  BY <1>1, EndNat
<1>4. r.sync = "LINKED" => Nodes[node] \in Nat
  <2> HIDE DEF node
  <2> QED BY <1>3, DmaAssumption
<1>5. w \in Nat /\ (r.sync = "BURST" => w > 0)
  <2> HIDE DEF node
  <2> QED BY <1>1, <1>2, <1>4
<1>6. b \in Int /\ nx \in 1..END /\ mv \in Nat /\ g \in Nat \cup {ListWords}
  <2>1. nx \in 1..END
    <3> HIDE DEF node
    <3> QED BY <1>1, <1>3, EndNat
  <2>2. g \in Nat \cup {ListWords}
    BY <1>1, GoalType
  <2> QED BY <1>1, <2>1, <2>2
<1>7. Loaded(c, r, resume) =
         [r EXCEPT !.active = TRUE, !.running = TRUE, !.force = FALSE,
                   !.words = w, !.blocks = b, !.next = nx, !.moved = mv, !.goal = g]
  BY DEF Loaded
<1> HIDE DEF w, b, nx, mv, g
<1> QED BY <1>5, <1>6, <1>7, ZenonT(120) DEF Channel

\* TransferStart of a channel that does not run, after a change of its registers.
LEMMA StartGood ==
    ASSUME NEW x, QInv(x, dpcr), NEW c \in Channels, ~x.ch[c].running,
           NEW r, ChanOK(c, r), r.running = FALSE,
           NEW resume \in BOOLEAN, resume => r.active,
           Careful => r.start /\ dpcr[c].enable
    PROVE  QInv(TransferStart(Set(x, c, r), c, resume), dpcr)
<1> DEFINE z == Set(x, c, r)
           l == Loaded(c, r, resume)
           y == AddTransfer(Set(x, c, l), c)
<1>1. /\ x \in QType /\ r \in Channel /\ dpcr \in DType /\ ListOK(x)
      /\ x.ch[c] \in Channel
  BY DEF QInv, ChanOK, QType
<1>2. x.ch[c].running = FALSE
  BY <1>1 DEF Channel
<1>3. CASE ~dpcr[c].enable
  <2>1. QInv(z, dpcr)
    <3>1. Careful => Care(c, r, dpcr[c].enable)
      BY <1>3
    <3> HIDE DEF z
    <3> QED BY <3>1, <1>2, SetKeeps DEF z
  <2> QED BY <2>1, <1>3 DEF TransferStart
<1>4. CASE dpcr[c].enable
  <2>1. z.ch[c] = r /\ Set(z, c, l) = Set(x, c, l)
    BY <1>1 DEF Set, QType
  <2>2. TransferStart(z, c, resume) = y
    <3> HIDE DEF z, l
    <3> QED BY <2>1, <1>4 DEF TransferStart, l
  <2>3. /\ l \in Channel /\ l.running = TRUE /\ l.start = r.start /\ l.sync = r.sync
        /\ r.sync = "BURST" => l.words > 0
    <3>1. resume /\ r.sync = "LINKED" => r.next # END
      BY DEF ChanOK
    <3>2. CASE resume
      <4>1. resume = TRUE BY <3>2
      <4>2. r.sync = "LINKED" => r.next # END BY <3>1, <3>2
      <4>3. /\ Loaded(c, r, TRUE) \in Channel /\ Loaded(c, r, TRUE).running = TRUE
            /\ Loaded(c, r, TRUE).start = r.start /\ Loaded(c, r, TRUE).sync = r.sync
            /\ r.sync = "BURST" => Loaded(c, r, TRUE).words > 0
        BY <4>2, <1>1, LoadedType
      <4> QED BY <4>1, <4>3
    <3>3. CASE ~resume
      <4>1. resume = FALSE BY <3>3
      <4>3. /\ Loaded(c, r, FALSE) \in Channel /\ Loaded(c, r, FALSE).running = TRUE
            /\ Loaded(c, r, FALSE).start = r.start /\ Loaded(c, r, FALSE).sync = r.sync
            /\ r.sync = "BURST" => Loaded(c, r, FALSE).words > 0
        BY <1>1, LoadedType
      <4> QED BY <4>1, <4>3
    <3> QED BY <3>2, <3>3
  <2>4. y \in QType /\ ListOK(y) /\ y.ch = [x.ch EXCEPT ![c] = l]
    <3> HIDE DEF l
    <3> QED BY <1>1, <2>3, ListAdd
  <2>5. ASSUME NEW d \in Channels
        PROVE  ChanOK(d, y.ch[d]) /\ (Careful => Care(d, y.ch[d], dpcr[d].enable))
    <3> HIDE DEF y, l
    <3>1. CASE d = c
      <4>1. y.ch[d] = l BY <1>1, <2>4, <3>1 DEF QType
      <4>2. ChanOK(c, l) BY <2>3 DEF ChanOK
      <4>3. Careful => Care(c, l, dpcr[c].enable) BY <2>3, <1>4 DEF Care
      <4> QED BY <4>1, <4>2, <4>3, <3>1
    <3>2. CASE d # c
      <4>1. y.ch[d] = x.ch[d] BY <1>1, <2>4, <3>2 DEF QType
      <4> QED BY <4>1 DEF QInv
    <3> QED BY <3>1, <3>2
  <2> HIDE DEF y
  <2> QED BY <1>1, <2>2, <2>4, <2>5 DEF QInv
<1> QED BY <1>3, <1>4

\* TransferEnd of the first channel, after a change of its counters.
LEMMA EndGood ==
    ASSUME NEW x, QInv(x, dpcr), x.n > 0, NEW c \in Channels, x.slots[0].id = c,
           NEW r \in Channel, c = 6 => r.sync = "BURST",
           NEW last \in BOOLEAN,
           ~last /\ r.sync = "LINKED" => r.next # END,
           Careful => (r.start => dpcr[c].enable),
           Careful /\ ~last => ~r.dreq /\ c # 6
    PROVE  QInv(TransferEnd(Set(x, c, r), c, last), dpcr)
<1> DEFINE z == Set(x, c, r)
           e == [r EXCEPT !.start = r.start /\ ~last, !.active = r.active /\ ~last,
                          !.running = FALSE,
                          !.dreq = r.dreq /\ ~(c = 4 /\ last /\ ~Rejected(c, r))]
           y == RemoveTransfer(Set(x, c, e))
<1>1. /\ x \in QType /\ dpcr \in DType /\ ListOK(x)
  BY DEF QInv
<1>2. z.ch[c] = r /\ Set(z, c, e) = Set(x, c, e)
  BY <1>1 DEF Set, QType
<1>3. TransferEnd(z, c, last) = y
  <2> HIDE DEF z
  <2> QED BY <1>2 DEF TransferEnd
<1>4. /\ e.start = (r.start /\ ~last) /\ e.active = (r.active /\ ~last)
      /\ e.running = FALSE /\ e.sync = r.sync /\ e.next = r.next
      /\ e.dreq = (r.dreq /\ ~(c = 4 /\ last /\ ~Rejected(c, r)))
  BY DEF Channel
<1>5. e \in Channel
  <2> DEFINE st == r.start /\ ~last
             ac == r.active /\ ~last
             dr == r.dreq /\ ~(c = 4 /\ last /\ ~Rejected(c, r))
  <2>1. st \in BOOLEAN /\ ac \in BOOLEAN /\ dr \in BOOLEAN
    OBVIOUS
  <2> HIDE DEF st, ac, dr
  <2>2. [r EXCEPT !.start = st, !.active = ac, !.running = FALSE, !.dreq = dr] \in Channel
    BY <2>1 DEF Channel
  <2> QED BY <2>2 DEF st, ac, dr
<1> HIDE DEF e
<1>6. y \in QType /\ ListOK(y) /\ y.ch = [x.ch EXCEPT ![c] = e]
  BY <1>1, <1>4, <1>5, ListRemove
<1>7. ASSUME NEW d \in Channels
      PROVE  ChanOK(d, y.ch[d]) /\ (Careful => Care(d, y.ch[d], dpcr[d].enable))
  <2> HIDE DEF y
  <2>1. CASE d = c
    <3>1. y.ch[d] = e BY <1>1, <1>6, <2>1 DEF QType
    <3>2. ChanOK(c, e) BY <1>4, <1>5 DEF ChanOK
    <3>3. Careful => Care(c, e, dpcr[c].enable) BY <1>4 DEF Care
    <3> QED BY <3>1, <3>2, <3>3, <2>1
  <2>2. CASE d # c
    <3>1. y.ch[d] = x.ch[d] BY <1>1, <1>6, <2>2 DEF QType
    <3> QED BY <3>1 DEF QInv
  <2> QED BY <2>1, <2>2
<1> HIDE DEF y
<1> QED BY <1>1, <1>3, <1>6, <1>7 DEF QInv

\* A request line may change at any time.
LEMMA SignalGood ==
    ASSUME NEW x, QInv(x, dpcr), NEW c, NEW level \in BOOLEAN
    PROVE  QInv(Signal(x, c, level), dpcr)
<1>1. CASE c \notin Channels
  BY <1>1 DEF Signal
<1>2. CASE c \in Channels
  <2> DEFINE o == x.ch[c]
             r == [o EXCEPT !.dreq = level]
             y == Set(x, c, r)
  <2>1. o \in Channel /\ ChanOK(c, o) /\ (Careful => Care(c, o, dpcr[c].enable))
    BY <1>2 DEF QInv, ChanOK
  <2> HIDE DEF o
  <2>2. /\ r \in Channel /\ r.dreq = level
        /\ r.start = o.start /\ r.running = o.running /\ r.active = o.active
        /\ r.sync = o.sync /\ r.words = o.words /\ r.next = o.next
    BY <2>1 DEF Channel
  <2> HIDE DEF r
  <2>3. ChanOK(c, r)
    BY <2>1, <2>2 DEF ChanOK
  <2>4. x.ch[c] = o /\ x \in QType /\ y.ch[c] = r
    BY <1>2 DEF o, QInv, QType, Set
  <2>5. (~level \/ ~o.start \/ o.running \/ o.dreq) => QInv(y, dpcr)
    <3>1. SUFFICES ASSUME ~level \/ ~o.start \/ o.running \/ o.dreq PROVE QInv(y, dpcr)
      OBVIOUS
    <3>2. Careful => Care(c, r, dpcr[c].enable)
      BY <2>1, <2>2, <3>1 DEF Care
    <3> QED BY <1>2, <2>2, <2>3, <2>4, <3>2, SetKeeps
  <2>6. CASE level /\ (c = 2 => ~o.dreq)
    <3>1. Signal(x, c, level) = DreqRisingEdge(y, c)
      BY <1>2, <2>4, <2>6 DEF Signal, r, o
    <3>2. CASE ~o.start \/ o.running
      <4>1. DreqRisingEdge(y, c) = y
        <5> HIDE DEF y
        <5> QED BY <2>2, <2>4, <3>2 DEF DreqRisingEdge
      <4> QED BY <4>1, <3>1, <3>2, <2>5
    <3>3. CASE o.start /\ ~o.running
      <4>1. DreqRisingEdge(y, c) = TransferStart(y, c, r.active)
        <5> HIDE DEF y
        <5> QED BY <2>2, <2>4, <3>3 DEF DreqRisingEdge
      <4>2. r.active \in BOOLEAN /\ r.running = FALSE
        BY <2>1, <2>2, <3>3 DEF Channel
      <4>3. Careful => r.start /\ dpcr[c].enable
        BY <2>1, <2>2, <3>3 DEF Care
      <4>4. QInv(TransferStart(y, c, r.active), dpcr)
        BY <1>2, <2>3, <2>4, <3>3, <4>2, <4>3, StartGood
      <4> QED BY <4>1, <4>4, <3>1
    <3> QED BY <3>2, <3>3
  <2>7. CASE ~(level /\ (c = 2 => ~o.dreq))
    <3>1. Signal(x, c, level) = y
      BY <1>2, <2>4, <2>7 DEF Signal, r, o
    <3> QED BY <3>1, <2>5, <2>7
  <2> QED BY <2>6, <2>7
<1> QED BY <1>1, <1>2

LEMMA RefreshGood ==
    ASSUME NEW x, QInv(x, dpcr), NEW c
    PROVE  QInv(Refresh(x, c), dpcr)
<1>1. c \in Channels => x.ch[c].dreq \in BOOLEAN
  BY DEF QInv, ChanOK, Channel
<1> QED BY <1>1, SignalGood DEF Refresh

\* Whatever the devices do with a word.
LEMMA AfterWordGood ==
    ASSUME NEW x, QInv(x, dpcr), NEW c \in Channels, AfterWord(x, c)
    PROVE  QInv(q', dpcr)
<1>1. CASE c = 0 /\ q' = Refresh(x, 0)
  BY <1>1, RefreshGood
<1>2. CASE c = 0 /\ q' = Refresh(Signal(x, 1, TRUE), 0)
  <2>1. QInv(Signal(x, 1, TRUE), dpcr)
    BY SignalGood
  <2> QED BY <1>2, <2>1, RefreshGood
<1>3. CASE c = 1 /\ \E out \in {x.ch[1].dreq, FALSE} : q' = Signal(Refresh(x, 0), 1, out)
  <2>1. x.ch[1].dreq \in BOOLEAN
    BY <1>3 DEF QInv, ChanOK, Channel
  <2>2. QInv(Refresh(x, 0), dpcr)
    BY RefreshGood
  <2>3. \A out \in BOOLEAN : QInv(Signal(Refresh(x, 0), 1, out), dpcr)
    BY <2>2, SignalGood
  <2> QED BY <1>3, <2>1, <2>3
<1>4. CASE c = 2 /\ \E level \in BOOLEAN : q' = Signal(x, 2, level)
  <2>1. \A level \in BOOLEAN : QInv(Signal(x, 2, level), dpcr)
    BY SignalGood
  <2> QED BY <1>4, <2>1
<1>5. CASE q' = x
  BY <1>5
<1> QED BY <1>1, <1>2, <1>3, <1>4, <1>5 DEF AfterWord

LEMMA SetSame ==
    ASSUME NEW x \in QType, NEW c \in Channels
    PROVE  Set(x, c, x.ch[c]) = x
BY DEF Set, QType
-----------------------------------------------------------------------------
(***************************************************************************)
(* The steps.                                                              *)
(***************************************************************************)

\* The guest's instructions meet no channel that runs.
LEMMA GuestMeetsIdle ==
    ASSUME QInv(q, dpcr), GuestRuns, NEW c \in Channels
    PROVE  q.ch[c].running = FALSE
<1>1. q \in QType /\ ListOK(q) /\ q.n = 0 /\ q.ch[c] \in Channel
  BY DEF QInv, GuestRuns, ChanOK
<1>2. ~q.ch[c].running
  <2>1. ~\E i \in 0..(q.n - 1) : TRUE BY <1>1
  <2> QED BY <1>1, <2>1 DEF ListOK
<1> QED BY <1>1, <1>2 DEF Channel

LEMMA WriteControlGood ==
    ASSUME QInv(q, dpcr), NEW enabled \in SUBSET Channels,
           NEW prio \in [Channels -> Priorities], WriteControl(enabled, prio)
    PROVE  QInv(q', dpcr')
<1>1. q' = q /\ dpcr' = [c \in Channels |-> [enable |-> c \in enabled, prio |-> prio[c]]]
  BY DEF WriteControl
<1>2. dpcr' \in DType
  <2>1. \A c \in Channels : prio[c] \in 0..7
    BY DmaAssumption
  <2>2. \A c \in Channels : (c \in enabled) \in BOOLEAN
    BY SMT
  <2>3. \A c \in Channels : [enable |-> c \in enabled, prio |-> prio[c]]
                              \in [enable : BOOLEAN, prio : 0..7]
    BY <2>1, <2>2, Zenon
  <2> QED BY <1>1, <2>3, Zenon DEF DType
<1>3. \A c \in Channels : Careful /\ q.ch[c].start => dpcr'[c].enable
  <2>1. \A c \in Channels : dpcr'[c].enable = (c \in enabled)
    BY <1>1, Zenon
  <2> QED BY <2>1, Zenon DEF WriteControl
<1>4. \A c \in Channels : Careful => Care(c, q.ch[c], dpcr'[c].enable)
  BY <1>3 DEF QInv, Care
<1> QED BY <1>1, <1>2, <1>4 DEF QInv

LEMMA WriteBlockControlGood ==
    ASSUME QInv(q, dpcr), NEW c \in Channels, NEW size \in Sizes, NEW count \in Counts,
           WriteBlockControl(c, size, count)
    PROVE  QInv(q', dpcr')
<1> DEFINE o == q.ch[c]
           r == [o EXCEPT !.size = size, !.count = count]
<1>1. ChanOK(c, o) /\ (Careful => Care(c, o, dpcr[c].enable))
  BY DEF QInv
<1>2. q' = Set(q, c, r) /\ dpcr' = dpcr
  BY DEF WriteBlockControl
<1>3. /\ r \in Channel
      /\ r.start = o.start /\ r.running = o.running /\ r.active = o.active
      /\ r.sync = o.sync /\ r.words = o.words /\ r.next = o.next /\ r.dreq = o.dreq
  <2> HIDE DEF o
  <2>1. size \in 0..(U16 - 1) /\ count \in 0..(U16 - 1) BY DmaAssumption
  <2> QED BY <1>1, <2>1 DEF Channel, ChanOK
<1> HIDE DEF r
<1>4. ChanOK(c, r) /\ (Careful => Care(c, r, dpcr[c].enable))
  BY <1>1, <1>3 DEF ChanOK, Care
<1>5. QInv(Set(q, c, r), dpcr)
  BY <1>3, <1>4, SetKeeps
<1> QED BY <1>2, <1>5

LEMMA WriteChannelGood ==
    ASSUME QInv(q, dpcr), NEW c \in Channels, NEW sync \in SyncModes(c),
           NEW start \in BOOLEAN, NEW force \in BOOLEAN,
           WriteChannel(c, sync, start, force)
    PROVE  QInv(q', dpcr')
<1> DEFINE o == q.ch[c]
           r == [o EXCEPT !.sync = sync, !.start = start, !.force = force]
           x == Set(q, c, r)
           go == \/ force /\ ~o.force
                 \/ (start /\ ~o.start) /\ sync = "BURST"
                 \/ (start /\ ~o.start) /\ Dreq(c)
<1>1. ChanOK(c, o) /\ (Careful => Care(c, o, dpcr[c].enable)) /\ o \in Channel
  BY DEF QInv, ChanOK
<1>2. /\ dpcr' = dpcr /\ GuestRuns
      /\ Careful => ~o.start /\ ~force /\ dpcr[c].enable
      /\ o.active => sync = o.sync
      /\ go => q' = TransferStart(x, c, FALSE)
      /\ ~go => q' = x
  BY DEF WriteChannel
<1>3. o.running = FALSE
  BY <1>2, GuestMeetsIdle
<1>4. sync \in {"BURST", "SLICE", "LINKED"} /\ (c = 6 => sync = "BURST")
  <2>1. c \in {0, 1, 2, 3, 4, 6} BY DmaAssumption DEF AllChannels
  <2> QED BY <2>1 DEF SyncModes
<1>5. Dreq(c) = (c = 6 \/ o.dreq)
  BY DEF Dreq
<1>6. /\ r \in Channel /\ r.start = start /\ r.sync = sync
      /\ r.running = o.running /\ r.active = o.active /\ r.words = o.words
      /\ r.next = o.next /\ r.dreq = o.dreq
  <2> HIDE DEF o
  <2> QED BY <1>1, <1>4 DEF Channel
<1> HIDE DEF r, o
<1>7. ChanOK(c, r)
  BY <1>1, <1>2, <1>3, <1>4, <1>6 DEF ChanOK
<1>8. CASE go
  <2>1. Careful => start /\ dpcr[c].enable
    BY <1>2, <1>8
  <2>2. Careful => r.start /\ dpcr[c].enable
    BY <1>6, <2>1
  <2>3. QInv(TransferStart(x, c, FALSE), dpcr)
    BY <1>3, <1>6, <1>7, <2>2, StartGood DEF o
  <2> QED BY <2>3, <1>2, <1>8
<1>9. CASE ~go
  <2>1. Careful => Care(c, r, dpcr[c].enable)
    <3>1. Careful /\ start => ~o.dreq /\ c # 6
      BY <1>2, <1>5, <1>9
    <3> QED BY <3>1, <1>2, <1>3, <1>6 DEF Care
  <2>2. QInv(x, dpcr)
    BY <1>6, <1>7, <2>1, SetKeeps DEF o
  <2> QED BY <2>2, <1>2, <1>9
<1> QED BY <1>8, <1>9

LEMMA DevicesGood ==
    ASSUME QInv(q, dpcr)
    PROVE  /\ \A in, out \in BOOLEAN : DeviceMDEC(in, out) => QInv(q', dpcr')
           /\ \A level \in BOOLEAN : DeviceGPU(level) => QInv(q', dpcr')
           /\ \A c \in Channels : DeviceReady(c) => QInv(q', dpcr')
<1>1. ASSUME NEW in \in BOOLEAN, NEW out \in BOOLEAN, DeviceMDEC(in, out)
      PROVE  QInv(q', dpcr')
  <2>1. QInv(Signal(q, 0, in), dpcr) /\ QInv(Signal(q, 1, out), dpcr)
    BY SignalGood
  <2>2. /\ QInv(Signal(Signal(q, 0, in), 1, out), dpcr)
        /\ QInv(Signal(Signal(q, 1, out), 0, in), dpcr)
    BY <2>1, SignalGood
  <2>3. dpcr' = dpcr /\ q' \in {Signal(Signal(q, 0, in), 1, out), Signal(Signal(q, 1, out), 0, in)}
    BY <1>1 DEF DeviceMDEC
  <2> QED BY <2>2, <2>3
<1>2. ASSUME NEW level \in BOOLEAN, DeviceGPU(level) PROVE QInv(q', dpcr')
  BY <1>2, SignalGood DEF DeviceGPU
<1>3. ASSUME NEW c \in Channels, DeviceReady(c) PROVE QInv(q', dpcr')
  BY <1>3, SignalGood DEF DeviceReady
<1> QED BY <1>1, <1>2, <1>3

\* The first channel of the list runs.
LEMMA LeadingRuns ==
    ASSUME QInv(q, dpcr), NEW c, Leading(c)
    PROVE  /\ c \in Channels /\ q.n > 0 /\ q.slots[0].id = c
           /\ ChanOK(c, q.ch[c]) /\ q.ch[c] \in Channel /\ q.ch[c].running
           /\ Careful => Care(c, q.ch[c], dpcr[c].enable)
           /\ q \in QType
<1>1. q \in QType /\ ListOK(q) /\ q.n > 0 /\ q.slots[0].id = c
  BY DEF QInv, Leading
<1>2. 0 \in 0..(q.n - 1)
  BY <1>1 DEF QType
<1>3. c \in Channels /\ q.ch[c].running
  BY <1>1, <1>2 DEF ListOK
<1> QED BY <1>1, <1>3 DEF QInv, ChanOK

LEMMA EndUnchanged ==
    ASSUME QInv(q, dpcr), NEW c, Leading(c), NEW last \in BOOLEAN,
           ~last /\ q.ch[c].sync = "LINKED" => q.ch[c].next # END,
           Careful /\ ~last => ~q.ch[c].dreq /\ c # 6
    PROVE  QInv(TransferEnd(q, c, last), dpcr)
<1> DEFINE r == q.ch[c]
<1>1. /\ c \in Channels /\ q.n > 0 /\ q.slots[0].id = c /\ q \in QType
      /\ r \in Channel /\ (c = 6 => r.sync = "BURST")
      /\ Careful => (r.start => dpcr[c].enable)
  BY LeadingRuns DEF ChanOK, Care
<1>2. Set(q, c, r) = q
  BY <1>1, SetSame
<1> HIDE DEF r
<1>3. QInv(TransferEnd(Set(q, c, r), c, last), dpcr)
  BY <1>1, EndGood DEF r
<1> QED BY <1>2, <1>3

LEMMA MoveWordGood ==
    ASSUME QInv(q, dpcr), NEW c \in Channels, NEW fault, MoveWord(c, fault)
    PROVE  QInv(q', dpcr')
<1> DEFINE o == q.ch[c]
           r == [o EXCEPT !.words = o.words - 1, !.moved = o.moved + 1]
<1>1. /\ ChanOK(c, o) /\ o \in Channel
      /\ Careful => Care(c, o, dpcr[c].enable)
  BY DEF QInv, ChanOK
<1>2. c # 6 /\ o.words > 0 /\ dpcr' = dpcr /\ AfterWord(Set(q, c, r), c)
  BY DEF MoveWord, Counted
<1>3. /\ r \in Channel
      /\ r.start = o.start /\ r.running = o.running /\ r.active = o.active
      /\ r.sync = o.sync /\ r.next = o.next /\ r.dreq = o.dreq
  <2> HIDE DEF o
  <2>1. o.words - 1 \in Nat /\ o.moved + 1 \in Nat BY <1>1, <1>2 DEF Channel
  <2> QED BY <1>1, <2>1 DEF Channel
<1> HIDE DEF r
<1>4. ChanOK(c, r) /\ (Careful => Care(c, r, dpcr[c].enable))
  BY <1>1, <1>2, <1>3 DEF ChanOK, Care
<1>5. QInv(Set(q, c, r), dpcr)
  BY <1>3, <1>4, SetKeeps
<1>6. QInv(q', dpcr)
  BY <1>2, <1>5, AfterWordGood
<1> QED BY <1>2, <1>6

LEMMA MoveEntryGood ==
    ASSUME QInv(q, dpcr), NEW fault, MoveEntry(fault)
    PROVE  QInv(q', dpcr')
<1> DEFINE o == q.ch[6]
           r == [o EXCEPT !.words = o.words - 1, !.moved = o.moved + 1]
           x == Set(q, 6, r)
<1>1. /\ 6 \in Channels /\ q.n > 0 /\ q.slots[0].id = 6 /\ q \in QType
      /\ ChanOK(6, o) /\ o \in Channel /\ o.running
      /\ Careful => Care(6, o, dpcr[6].enable)
  BY LeadingRuns DEF MoveEntry
<1>2. x.ch[6] = r
  BY <1>1 DEF Set, QType
<1>3. /\ dpcr' = dpcr
      /\ r.words = 0 => q' = TransferEnd(x, 6, TRUE)
      /\ r.words # 0 => q' = x
  <2> HIDE DEF r
  <2> QED BY <1>2 DEF MoveEntry, Counted, r
<1>4. /\ r \in Channel /\ r.words = o.words - 1 /\ r.words \in Nat
      /\ r.start = o.start /\ r.running = o.running /\ r.active = o.active
      /\ r.sync = o.sync /\ r.next = o.next /\ r.dreq = o.dreq
  <2>1. o.words > 0 BY <1>1 DEF ChanOK
  <2> HIDE DEF o
  <2>2. o.words - 1 \in Nat /\ o.moved + 1 \in Nat BY <1>1, <2>1 DEF Channel
  <2> QED BY <1>1, <2>2 DEF Channel
<1> HIDE DEF r
<1>5. CASE r.words = 0
  <2>1. r.sync = "BURST" /\ (Careful => (r.start => dpcr[6].enable))
    BY <1>1, <1>4 DEF ChanOK, Care
  <2>2. QInv(TransferEnd(x, 6, TRUE), dpcr)
    BY <1>1, <1>4, <2>1, EndGood
  <2> QED BY <1>3, <1>5, <2>2
<1>6. CASE r.words # 0
  <2>1. ChanOK(6, r) /\ (Careful => Care(6, r, dpcr[6].enable))
    <3> HIDE DEF o
    <3> DEFINE n == r.words
    <3>0. n \in Nat /\ n # 0 BY <1>4, <1>6
    <3>1. n > 0
      <4> HIDE DEF n
      <4> QED BY <3>0
    <3>2. ChanOK(6, r) BY <1>1, <1>4, <3>1 DEF ChanOK
    <3>3. Careful => Care(6, r, dpcr[6].enable) BY <1>1, <1>4 DEF Care
    <3> QED BY <3>2, <3>3
  <2>2. QInv(x, dpcr)
    BY <1>1, <1>4, <2>1, SetKeeps
  <2> QED BY <1>3, <1>6, <2>2
<1> QED BY <1>5, <1>6

LEMMA EndSliceGood ==
    ASSUME QInv(q, dpcr), NEW c \in Channels, EndSlice(c)
    PROVE  QInv(q', dpcr')
<1> DEFINE o == q.ch[c]
           blocks == o.blocks - 1
           last == blocks \in {0, -1}
           r == [o EXCEPT !.blocks = blocks]
           x == Set(q, c, r)
           w == [r EXCEPT !.words = r.size]
<1>1. /\ q.n > 0 /\ q.slots[0].id = c /\ q \in QType
      /\ ChanOK(c, o) /\ o \in Channel /\ o.running
      /\ Careful => Care(c, o, dpcr[c].enable)
  BY LeadingRuns DEF EndSlice
<1>2. x.ch[c] = r /\ Set(x, c, w) = Set(q, c, w)
  BY <1>1 DEF Set, QType
<1>3. Dreq(c) = (c = 6 \/ o.dreq)
  BY DEF Dreq
<1>4. /\ c # 6 /\ o.sync = "SLICE" /\ dpcr' = dpcr
      /\ q' = IF last THEN TransferEnd(x, c, TRUE)
              ELSE IF c = 4 \/ Dreq(c) THEN Set(x, c, [x.ch[c] EXCEPT !.words = x.ch[c].size])
              ELSE TransferEnd(x, c, FALSE)
  BY DEF EndSlice
<1>5. /\ r \in Channel
      /\ r.start = o.start /\ r.running = o.running /\ r.active = o.active
      /\ r.sync = o.sync /\ r.next = o.next /\ r.dreq = o.dreq /\ r.size = o.size
  <2> HIDE DEF o
  <2>1. blocks \in Int BY <1>1 DEF Channel
  <2> HIDE DEF blocks
  <2> QED BY <1>1, <2>1 DEF Channel
<1> HIDE DEF r, o
<1>6. Careful => (r.start => dpcr[c].enable)
  BY <1>1, <1>5 DEF Care
<1>7. CASE last
  <2>1. QInv(TransferEnd(x, c, TRUE), dpcr)
    BY <1>1, <1>4, <1>5, <1>6, EndGood
  <2> QED BY <1>4, <1>7, <2>1
<1>8. CASE ~last /\ (c = 4 \/ Dreq(c))
  <2>1. /\ w \in Channel /\ w.start = r.start /\ w.running = r.running
        /\ w.active = r.active /\ w.sync = r.sync /\ w.next = r.next /\ w.dreq = r.dreq
    <3>1. r.size \in Nat BY <1>5, DmaAssumption DEF Channel
    <3> QED BY <1>5, <3>1 DEF Channel
  <2>2. q' = Set(q, c, w)
    BY <1>2, <1>4, <1>8
  <2> HIDE DEF w
  <2>3. ChanOK(c, w) /\ (Careful => Care(c, w, dpcr[c].enable))
    BY <1>1, <1>4, <1>5, <2>1 DEF ChanOK, Care
  <2>4. QInv(Set(q, c, w), dpcr)
    BY <1>5, <2>1, <2>3, SetKeeps DEF o
  <2> QED BY <1>4, <2>2, <2>4
<1>9. CASE ~last /\ ~(c = 4 \/ Dreq(c))
  <2>1. ~r.dreq
    BY <1>3, <1>5, <1>9
  <2>2. QInv(TransferEnd(x, c, FALSE), dpcr)
    BY <1>1, <1>4, <1>5, <1>6, <2>1, EndGood
  <2> QED BY <1>4, <1>9, <2>2
<1> QED BY <1>7, <1>8, <1>9

LEMMA EndNodeGood ==
    ASSUME QInv(q, dpcr), NEW c \in Channels, EndNode(c)
    PROVE  QInv(q', dpcr')
<1> DEFINE o == q.ch[c]
           r == [o EXCEPT !.words = Nodes[o.next], !.next = o.next + 1]
<1>1. /\ ChanOK(c, o) /\ o \in Channel /\ o.running
      /\ Careful => Care(c, o, dpcr[c].enable)
  BY LeadingRuns DEF EndNode
<1>2. Dreq(c) = (c = 6 \/ o.dreq)
  BY DEF Dreq
<1>3. /\ c # 6 /\ Leading(c) /\ dpcr' = dpcr
      /\ q' = IF o.next = END THEN TransferEnd(q, c, TRUE)
              ELSE IF Dreq(c) THEN Set(q, c, r)
              ELSE TransferEnd(q, c, FALSE)
  BY DEF EndNode
<1>4. CASE o.next = END
  <2>1. QInv(TransferEnd(q, c, TRUE), dpcr)
    BY <1>3, EndUnchanged
  <2> QED BY <1>3, <1>4, <2>1
<1>5. CASE o.next # END /\ Dreq(c)
  <2>1. o.next \in 1..Len(Nodes)
    BY <1>1, <1>5, EndNat DEF Channel
  <2>2. Nodes[o.next] \in Nat /\ o.next + 1 \in 1..END
    BY <2>1, EndNat, DmaAssumption, SMTT(30)
  <2>3. /\ r \in Channel
        /\ r.start = o.start /\ r.running = o.running /\ r.active = o.active
        /\ r.sync = o.sync /\ r.dreq = o.dreq
    <3> HIDE DEF o
    <3> QED BY <1>1, <2>2 DEF Channel
  <2>4. q' = Set(q, c, r)
    BY <1>3, <1>5
  <2> HIDE DEF r
  <2>5. ChanOK(c, r) /\ (Careful => Care(c, r, dpcr[c].enable))
    BY <1>1, <1>3, <2>3 DEF ChanOK, Care
  <2>6. QInv(Set(q, c, r), dpcr)
    BY <2>3, <2>5, SetKeeps
  <2> QED BY <1>3, <2>4, <2>6
<1>6. CASE o.next # END /\ ~Dreq(c)
  <2>1. ~o.dreq
    BY <1>2, <1>6
  <2>2. QInv(TransferEnd(q, c, FALSE), dpcr)
    BY <1>3, <1>6, <2>1, EndUnchanged
  <2> QED BY <1>3, <1>6, <2>2
<1> QED BY <1>4, <1>5, <1>6

LEMMA EndWholeGood ==
    ASSUME QInv(q, dpcr), NEW c \in Channels, EndBurst(c) \/ Reject(c)
    PROVE  QInv(q', dpcr')
<1>1. Leading(c) /\ q' = TransferEnd(q, c, TRUE) /\ dpcr' = dpcr
  BY DEF EndBurst, Reject
<1>2. QInv(TransferEnd(q, c, TRUE), dpcr)
  BY <1>1, EndUnchanged
<1> QED BY <1>1, <1>2
-----------------------------------------------------------------------------
(***************************************************************************)
(* The interrupt register.                                                 *)
(***************************************************************************)
DICRType == [interrupt_on_block : SUBSET Channels, bus_error : BOOLEAN,
             channel_int_enable : SUBSET Channels, master_int_enable : BOOLEAN,
             channel_int_req : SUBSET Channels, master_irq : BOOLEAN]

DInv == dicr \in DICRType /\ i_stat \in BOOLEAN /\ MasterFlagAgrees

LEMMA MasterUpToDate ==
    ASSUME NEW d \in DICRType
    PROVE  /\ UpdateMasterIRQ(d) \in DICRType
           /\ UpdateMasterIRQ(UpdateMasterIRQ(d)) = UpdateMasterIRQ(d)
<1> DEFINE m == d.bus_error \/ (d.master_int_enable
                                 /\ d.channel_int_req \cap d.channel_int_enable # {})
           e == [d EXCEPT !.master_irq = m]
<1>1. m \in BOOLEAN
  OBVIOUS
<1>2. UpdateMasterIRQ(d) = e
  BY DEF UpdateMasterIRQ
<1>3. UpdateMasterIRQ(e) = [e EXCEPT !.master_irq =
         e.bus_error \/ (e.master_int_enable
                          /\ e.channel_int_req \cap e.channel_int_enable # {})]
  BY DEF UpdateMasterIRQ
<1>4. /\ e.bus_error = d.bus_error /\ e.master_int_enable = d.master_int_enable
      /\ e.channel_int_req = d.channel_int_req
      /\ e.channel_int_enable = d.channel_int_enable
  BY DEF DICRType
<1>5. UpdateMasterIRQ(e) = [e EXCEPT !.master_irq = m]
  <2> HIDE DEF e
  <2> QED BY <1>3, <1>4
<1> HIDE DEF m
<1>6. e \in DICRType /\ [e EXCEPT !.master_irq = m] = e
  BY <1>1 DEF DICRType
<1> QED BY <1>2, <1>5, <1>6

LEMMA InterruptRequestGood ==
    ASSUME NEW d \in DICRType, UpdateMasterIRQ(d) = d, i_stat \in BOOLEAN,
           NEW c \in Channels, NEW last \in BOOLEAN, InterruptRequest(d, c, last)
    PROVE  dicr' \in DICRType /\ i_stat' \in BOOLEAN /\ dicr' = UpdateMasterIRQ(dicr')
<1>1. i_stat' \in BOOLEAN
  BY Zenon DEF InterruptRequest
<1>2. Requested(d, c) \in DICRType
  <2>1. d.channel_int_req \cup {c} \in SUBSET Channels
    BY DEF DICRType
  <2>2. [d EXCEPT !.channel_int_req = d.channel_int_req \cup {c}] \in DICRType
    BY <2>1 DEF DICRType
  <2> QED BY <2>2 DEF Requested
<1>3. dicr' = d \/ dicr' = UpdateMasterIRQ(Requested(d, c))
  BY DEF InterruptRequest
<1> QED BY <1>1, <1>2, <1>3, MasterUpToDate

LEMMA AfterAccessGood ==
    ASSUME DInv, NEW fault
    PROVE  /\ AfterAccess(fault) \in DICRType
           /\ UpdateMasterIRQ(AfterAccess(fault)) = AfterAccess(fault)
<1>1. [dicr EXCEPT !.bus_error = TRUE] \in DICRType
  BY DEF DInv, DICRType
<1> QED BY <1>1, MasterUpToDate DEF AfterAccess, SignalException, DInv, MasterFlagAgrees

\* Every step leaves the master flag up to date.
LEMMA DInvStep ==
    ASSUME QInv(q, dpcr), DInv, [Next]_vars
    PROVE  DInv'
<1>1. UNCHANGED <<dicr, i_stat>> => DInv'
  BY DEF DInv, MasterFlagAgrees, UpdateMasterIRQ
<1>2. ASSUME NEW v \in IntControls, NEW ack \in SUBSET Channels, WriteInt(v, ack)
      PROVE  DInv'
  <2> DEFINE d == [interrupt_on_block |-> v.interrupt_on_block, bus_error |-> v.bus_error,
                   channel_int_enable |-> v.channel_int_enable,
                   master_int_enable |-> v.master_int_enable,
                   channel_int_req |-> dicr.channel_int_req \ ack,
                   master_irq |-> dicr.master_irq]
  <2>1. dicr' = UpdateMasterIRQ(d) /\ i_stat' = i_stat
    BY <1>2 DEF WriteInt
  <2>2. v \in [interrupt_on_block : SUBSET Channels, bus_error : BOOLEAN,
               channel_int_enable : SUBSET Channels, master_int_enable : BOOLEAN]
    BY DmaAssumption
  <2>3. d \in DICRType
    BY <2>2 DEF DInv, DICRType
  <2> HIDE DEF d
  <2>4. dicr' \in DICRType /\ UpdateMasterIRQ(dicr') = dicr'
    BY <2>1, <2>3, MasterUpToDate
  <2> QED BY <2>1, <2>4 DEF DInv, MasterFlagAgrees, UpdateMasterIRQ
<1>3. CASE ReadInt
  <2>1. UNCHANGED <<dicr, i_stat>>
    BY <1>3 DEF ReadInt, DInv, MasterFlagAgrees
  <2> QED BY <1>1, <2>1
<1>4. CASE ClearIStat
  BY <1>4 DEF ClearIStat, DInv, MasterFlagAgrees, UpdateMasterIRQ
<1>5. ASSUME NEW c \in Channels, NEW fault, MoveWord(c, fault) PROVE DInv'
  <2>1. dicr' = AfterAccess(fault) /\ i_stat' = i_stat
    BY <1>5 DEF MoveWord
  <2>2. dicr' \in DICRType /\ UpdateMasterIRQ(dicr') = dicr'
    BY <2>1, AfterAccessGood
  <2> QED BY <2>1, <2>2 DEF DInv, MasterFlagAgrees, UpdateMasterIRQ
<1>6. ASSUME NEW fault, MoveEntry(fault) PROVE DInv'
  <2> DEFINE d == AfterAccess(fault)
  <2>1. 6 \in Channels
    BY <1>6, LeadingRuns DEF MoveEntry
  <2>2. d \in DICRType /\ UpdateMasterIRQ(d) = d /\ i_stat \in BOOLEAN
    BY AfterAccessGood DEF DInv
  <2>3. InterruptRequest(d, 6, TRUE) \/ (dicr' = d /\ i_stat' = i_stat)
    BY <1>6 DEF MoveEntry
  <2> HIDE DEF d
  <2>4. dicr' \in DICRType /\ i_stat' \in BOOLEAN /\ dicr' = UpdateMasterIRQ(dicr')
    BY <2>1, <2>2, <2>3, InterruptRequestGood
  <2> QED BY <2>4 DEF DInv, MasterFlagAgrees, UpdateMasterIRQ
<1>7. ASSUME NEW c \in Channels, NEW last \in BOOLEAN, InterruptRequest(dicr, c, last)
      PROVE  DInv'
  <2>1. dicr' \in DICRType /\ i_stat' \in BOOLEAN /\ dicr' = UpdateMasterIRQ(dicr')
    BY <1>7, InterruptRequestGood DEF DInv, MasterFlagAgrees
  <2> QED BY <2>1 DEF DInv, MasterFlagAgrees, UpdateMasterIRQ
<1>8. ASSUME NEW c \in Channels, EndBurst(c) \/ EndSlice(c) \/ EndNode(c) \/ Reject(c)
      PROVE  DInv'
  <2>1. \E last \in BOOLEAN : InterruptRequest(dicr, c, last)
    <3>1. CASE EndBurst(c) \/ Reject(c)
      BY <3>1 DEF EndBurst, Reject
    <3>2. CASE EndSlice(c)
      <4>1. InterruptRequest(dicr, c, (q.ch[c].blocks - 1) \in {0, -1})
        BY <3>2 DEF EndSlice
      <4>2. ((q.ch[c].blocks - 1) \in {0, -1}) \in BOOLEAN
        OBVIOUS
      <4> QED BY <4>1, <4>2, Zenon
    <3>3. CASE EndNode(c)
      <4>1. InterruptRequest(dicr, c, q.ch[c].next = END)
        BY <3>3 DEF EndNode
      <4>2. (q.ch[c].next = END) \in BOOLEAN
        OBVIOUS
      <4> QED BY <4>1, <4>2, Zenon
    <3> QED BY <1>8, <3>1, <3>2, <3>3
  <2> QED BY <1>7, <2>1
<1>9. CASE Next
  BY <1>9, <1>1, <1>2, <1>3, <1>4, <1>5, <1>6, <1>8
     DEF Next, AdvanceTransfer, WriteControl, WriteBlockControl, WriteChannel,
         DeviceMDEC, DeviceGPU, DeviceReady
<1>10. CASE UNCHANGED vars
  BY <1>1, <1>10 DEF vars
<1> QED BY <1>9, <1>10
-----------------------------------------------------------------------------
LEMMA QInvStep ==
    ASSUME QInv(q, dpcr), [Next]_vars
    PROVE  QInv(q', dpcr')
<1>1. UNCHANGED <<dpcr, q>> => QInv(q', dpcr')
  BY Zenon
<1>2. ASSUME NEW enabled \in SUBSET Channels, NEW prio \in [Channels -> Priorities],
             WriteControl(enabled, prio)
      PROVE  QInv(q', dpcr')
  BY <1>2, WriteControlGood
<1>3. ASSUME NEW c \in Channels, NEW size \in Sizes, NEW count \in Counts,
             WriteBlockControl(c, size, count)
      PROVE  QInv(q', dpcr')
  BY <1>3, WriteBlockControlGood
<1>4. ASSUME NEW c \in Channels, NEW sync \in SyncModes(c),
             NEW start \in BOOLEAN, NEW force \in BOOLEAN,
             WriteChannel(c, sync, start, force)
      PROVE  QInv(q', dpcr')
  BY <1>4, WriteChannelGood
<1>5. ASSUME \/ \E in, out \in BOOLEAN : DeviceMDEC(in, out)
             \/ \E level \in BOOLEAN : DeviceGPU(level)
             \/ \E c \in Channels \cap {3, 4} : DeviceReady(c)
      PROVE  QInv(q', dpcr')
  BY <1>5, DevicesGood
<1>6. ASSUME \/ \E v \in IntControls, ack \in SUBSET Channels : WriteInt(v, ack)
             \/ ReadInt \/ ClearIStat
      PROVE  QInv(q', dpcr')
  BY <1>1, <1>6 DEF WriteInt, ReadInt, ClearIStat
<1>7. CASE AdvanceTransfer
  BY <1>7, MoveWordGood, MoveEntryGood, EndSliceGood, EndNodeGood, EndWholeGood
     DEF AdvanceTransfer
<1>8. CASE Next
  BY <1>8, <1>2, <1>3, <1>4, <1>5, <1>6, <1>7 DEF Next
<1>9. CASE UNCHANGED vars
  BY <1>1, <1>9 DEF vars
<1> QED BY <1>8, <1>9

LEMMA InitGood ==
    ASSUME Init
    PROVE  QInv(q, dpcr) /\ DInv
<1>1. dpcr \in DType
  <2>1. \A c \in Channels : (c + 1) % 8 \in 0..7
    BY DmaAssumption DEF AllChannels
  <2> QED BY <2>1 DEF Init, DType
<1>2. ASSUME NEW c \in Channels
      PROVE  /\ IdleChannel(c) \in Channel
             /\ ChanOK(c, IdleChannel(c)) /\ Care(c, IdleChannel(c), dpcr[c].enable)
             /\ ~IdleChannel(c).running
  <2>1. IdleChannel(c) \in Channel
    BY EndNat, DmaAssumption DEF IdleChannel, Channel
  <2> QED BY <2>1 DEF IdleChannel, ChanOK, Care
<1>3. q \in QType
  <2>1. [id |-> 0, prio |-> 0] \in Transfer BY DEF Transfer, AllChannels
  <2>2. [c \in Channels |-> IdleChannel(c)] \in [Channels -> Channel] BY <1>2
  <2>3. [i \in Slots |-> [id |-> 0, prio |-> 0]] \in [Slots -> Transfer] BY <2>1
  <2>4. 0 \in 0..6 OBVIOUS
  <2>5. q = [ch |-> [c \in Channels |-> IdleChannel(c)],
             slots |-> [i \in Slots |-> [id |-> 0, prio |-> 0]], n |-> 0]
    BY DEF Init
  <2> QED BY <2>2, <2>3, <2>4, <2>5, Zenon DEF QType
<1>4. /\ q.n = 0 /\ \A c \in Channels : q.ch[c] = IdleChannel(c)
  BY DEF Init
<1>5. ListOK(q)
  <2>1. 0..(q.n - 1) = {} BY <1>4
  <2> QED BY <1>2, <1>4, <2>1 DEF ListOK
<1>6. DInv
  <2>1. /\ dicr.bus_error = FALSE /\ dicr.master_int_enable = FALSE
        /\ dicr.master_irq = FALSE /\ dicr \in DICRType /\ i_stat \in BOOLEAN
    BY DEF Init, DICRType
  <2>2. (dicr.bus_error \/ (dicr.master_int_enable
           /\ dicr.channel_int_req \cap dicr.channel_int_enable # {})) = dicr.master_irq
    BY <2>1, Zenon
  <2>3. [dicr EXCEPT !.master_irq = dicr.master_irq] = dicr
    BY <2>1 DEF DICRType
  <2>4. MasterFlagAgrees
    BY <2>2, <2>3, Zenon DEF MasterFlagAgrees, UpdateMasterIRQ
  <2> QED BY <2>1, <2>4 DEF DInv
<1> QED BY <1>1, <1>2, <1>3, <1>4, <1>5, <1>6 DEF QInv

\* For every guest the list of active transfers holds the running channels, each
\* once, the master flag agrees with the flags below it, and the types hold.
THEOREM DmaAnyGuest == Spec => [](TypeOK /\ ActiveAreRunning /\ MasterFlagAgrees)
<1>1. Init => QInv(q, dpcr) /\ DInv
  BY InitGood
<1>2. QInv(q, dpcr) /\ DInv /\ [Next]_vars => (QInv(q, dpcr) /\ DInv)'
  BY QInvStep, DInvStep
<1>3. QInv(q, dpcr) /\ DInv => TypeOK /\ ActiveAreRunning /\ MasterFlagAgrees
  <2> SUFFICES ASSUME QInv(q, dpcr), DInv PROVE TypeOK /\ ActiveAreRunning /\ MasterFlagAgrees
    OBVIOUS
  <2>1. TypeOK
    BY DEF QInv, DInv, TypeOK, QType, DType, DICRType
  <2>2. ActiveAreRunning
    BY DEF QInv, QType, ListOK, ActiveAreRunning, Running
  <2> QED BY <2>1, <2>2 DEF DInv
<1> QED BY <1>1, <1>2, <1>3, PTL DEF Spec

\* For a careful guest no request is lost: a channel that was started and does not
\* run waits for a device that asks for nothing.
THEOREM DmaCarefulGuest == Careful => (Spec => []NoIdleRequest)
<1> SUFFICES ASSUME Careful PROVE Spec => []NoIdleRequest
  OBVIOUS
<1>1. Init => QInv(q, dpcr)
  BY InitGood
<1>2. QInv(q, dpcr) /\ [Next]_vars => QInv(q, dpcr)'
  BY QInvStep
<1>3. QInv(q, dpcr) => NoIdleRequest
  BY DEF QInv, Care, NoIdleRequest, Dreq
<1> QED BY <1>1, <1>2, <1>3, PTL DEF Spec
-----------------------------------------------------------------------------
(***************************************************************************)
(* The words of a transfer.  The library's theorems on induction have an   *)
(* operator as a parameter; the sums over the nodes of a linked list are   *)
(* treated with the smallest number they fail for instead.                  *)
(***************************************************************************)
\* A set of numbers has a smallest one.
LEMMA SmallestNumber ==
    ASSUME NEW T \in SUBSET Nat, T # {}
    PROVE  \E m \in T : \A k \in T : m <= k
<1> DEFINE R == OpToRel(<, Nat)
<1>1. PICK m \in T : \A k \in T : ~(<<k, m>> \in R)
  BY NatLessThanWellFounded, WFMin
<1>2. \A k \in T : ~(k < m)
  BY <1>1 DEF OpToRel
<1> QED BY <1>2

\* The sums over the first m nodes.
Partial(f, m) == f = [i \in 0..m |-> IF i = 0 THEN 0 ELSE f[i - 1] + Nodes[i]]

LEMMA PartialExists == \A m \in Nat : \E f : Partial(f, m)
<1> DEFINE T == {m \in Nat : ~\E f : Partial(f, m)}
<1> SUFFICES ASSUME T # {} PROVE FALSE
  OBVIOUS
<1>1. PICK m \in T : \A k \in T : m <= k
  BY SmallestNumber
<1>2. m \in Nat /\ ~\E f : Partial(f, m)
  OBVIOUS
<1>3. CASE m = 0
  <2> DEFINE f == [i \in 0..0 |-> 0]
  <2>1. Partial(f, 0)
    BY DEF Partial
  <2> QED BY <1>2, <1>3, <2>1
<1>4. CASE m # 0
  <2>1. m - 1 \in Nat /\ m - 1 \notin T
    BY <1>1, <1>2, <1>4
  <2>2. PICK f : Partial(f, m - 1)
    BY <2>1
  <2> DEFINE g == [i \in 0..m |-> IF i = m THEN f[m - 1] + Nodes[m] ELSE f[i]]
  <2>3. \A i \in 0..(m - 1) : f[i] = IF i = 0 THEN 0 ELSE f[i - 1] + Nodes[i]
    BY <2>2 DEF Partial
  <2>4. \A i \in 0..m : g[i] = IF i = 0 THEN 0 ELSE g[i - 1] + Nodes[i]
    BY <1>2, <1>4, <2>3
  <2>5. Partial(g, m)
    <3>1. g = [i \in 0..m |-> g[i]]
      OBVIOUS
    <3> HIDE DEF g
    <3> QED BY <2>4, <3>1 DEF Partial
  <2> QED BY <1>2, <2>5
<1> QED BY <1>3, <1>4

\* What the recursive definition of Sum computes.
LEMMA SumRecursive ==
    /\ Sum[0] = 0
    /\ \A i \in 1..Len(Nodes) : Sum[i] = Sum[i - 1] + Nodes[i]
<1> DEFINE n == Len(Nodes)
<1>1. n \in Nat
  BY DmaAssumption
<1>2. \E f : f = [i \in 0..n |-> IF i = 0 THEN 0 ELSE f[i - 1] + Nodes[i]]
  BY <1>1, PartialExists DEF Partial
<1>3. Sum = CHOOSE f : f = [i \in 0..n |-> IF i = 0 THEN 0 ELSE f[i - 1] + Nodes[i]]
  BY DEF Sum
<1>4. Sum = [i \in 0..n |-> IF i = 0 THEN 0 ELSE Sum[i - 1] + Nodes[i]]
  BY <1>2, <1>3
<1> QED BY <1>1, <1>4

LEMMA SumType == \A i \in 0..Len(Nodes) : Sum[i] \in Nat
<1> DEFINE n == Len(Nodes)
           T == {i \in Nat : i <= n /\ Sum[i] \notin Nat}
<1>1. n \in Nat /\ Nodes \in Seq(Nat)
  BY DmaAssumption
<1> SUFFICES ASSUME T # {} PROVE FALSE
  BY <1>1
<1>2. PICK m \in T : \A k \in T : m <= k
  BY SmallestNumber
<1>3. m \in Nat /\ m <= n /\ Sum[m] \notin Nat
  OBVIOUS
<1>4. m # 0
  BY <1>3, SumRecursive
<1>5. Sum[m] = Sum[m - 1] + Nodes[m] /\ Nodes[m] \in Nat
  BY <1>1, <1>3, <1>4, SumRecursive
<1>6. m - 1 \in Nat /\ m - 1 <= n /\ m - 1 \notin T
  BY <1>1, <1>2, <1>3, <1>4
<1>7. Sum[m - 1] \in Nat
  BY <1>6
<1> QED BY <1>3, <1>5, <1>7

\* What is left of an active transfer.  While a block is being moved, its words
\* are counted down; blocks or nodes follow.  A transfer that pauses does so
\* between two blocks, a burst never.
Account(c, r) ==
    \/ Rejected(c, r) /\ r.moved = r.goal
    \/ /\ ~Rejected(c, r) /\ r.sync = "BURST"
       /\ r.running /\ r.moved + r.words = r.goal
    \/ /\ ~Rejected(c, r) /\ r.sync = "SLICE" /\ r.running
       /\ r.blocks \in Nat
       /\ r.moved + r.words + r.size * (BlockCount(r.blocks) - 1) = r.goal
    \/ /\ ~Rejected(c, r) /\ r.sync = "SLICE" /\ ~r.running
       /\ r.blocks \in Nat \ {0}
       /\ r.moved + r.size * r.blocks = r.goal
    \/ /\ ~Rejected(c, r) /\ r.sync = "LINKED"
       /\ r.goal = ListWords
       /\ r.moved + (IF r.running THEN r.words ELSE 0) = Sum[r.next - 1]

\* A channel of a careful guest owes nothing unless it is active.
Fulfils(c, r) ==
    /\ r.running => r.active
    /\ r.active => r.start
    /\ ~r.active => r.moved = r.goal
    /\ r.active => Account(c, r)

FInv(x) == \A c \in Channels : Fulfils(c, x.ch[c])

LEMMA BlockProducts ==
    ASSUME NEW a \in Nat, NEW b \in Nat
    PROVE  /\ a * b \in Nat /\ a * (b + 1) = a * b + a /\ a * 0 = 0
           /\ a * (BlockCount(b) - 1) \in Nat
           /\ a + a * (BlockCount(b) - 1) = a * BlockCount(b)
           /\ b # 0 => a + a * (b - 1) = a * b
<1>1. a * b \in Nat /\ a * (b + 1) = a * b + a /\ a * 0 = 0
  BY SMT
<1>2. CASE b = 0
  <2>1. BlockCount(b) = 1 /\ a * (1 - 1) = 0 /\ a * 1 = a
    BY <1>2 DEF BlockCount
  <2> QED BY <1>1, <1>2, <2>1
<1>3. CASE b # 0
  <2>1. BlockCount(b) = b
    BY <1>3 DEF BlockCount
  <2>2. a * (b - 1) \in Nat /\ a + a * (b - 1) = a * b
    BY <1>3, SMT
  <2> QED BY <1>1, <2>1, <2>2
<1> QED BY <1>2, <1>3

\* Fulfils does not look at the request line, FORCE or the block count register.
LEMMA SameFulfils ==
    ASSUME NEW c, NEW o, NEW r, Fulfils(c, o),
           r.running = o.running, r.active = o.active, r.start = o.start,
           r.sync = o.sync, r.size = o.size, r.blocks = o.blocks, r.words = o.words,
           r.moved = o.moved, r.goal = o.goal, r.next = o.next
    PROVE  Fulfils(c, r)
<1>1. Rejected(c, r) = Rejected(c, o)
  BY DEF Rejected
<1>2. Account(c, o) => Account(c, r)
  BY <1>1 DEF Account
<1> QED BY <1>2 DEF Fulfils

LEMMA SetFulfils ==
    ASSUME NEW x \in QType, FInv(x), NEW c \in Channels, NEW r, Fulfils(c, r),
           NEW y, y.ch = [x.ch EXCEPT ![c] = r]
    PROVE  FInv(y)
<1> SUFFICES ASSUME NEW d \in Channels PROVE Fulfils(d, y.ch[d])
  BY DEF FInv
<1>1. CASE d = c
  <2>1. y.ch[d] = r BY <1>1 DEF QType
  <2> QED BY <1>1, <2>1
<1>2. CASE d # c
  <2>1. y.ch[d] = x.ch[d] BY <1>2 DEF QType
  <2> QED BY <2>1 DEF FInv
<1> QED BY <1>1, <1>2

\* A transfer that starts owes what the registers ask for; one that goes on owes
\* what it owed when it paused.
LEMMA LoadedFulfils ==
    ASSUME NEW c, NEW r \in Channel, r.start, ~r.running, NEW resume \in BOOLEAN,
           resume => r.active /\ Fulfils(c, r),
           resume /\ r.sync = "LINKED" => r.next # END
    PROVE  Fulfils(c, Loaded(c, r, resume))
<1> DEFINE node == IF resume THEN r.next ELSE 1
           w == CASE r.sync = "BURST" -> WordCount(r.size)
                  [] r.sync = "SLICE" -> r.size
                  [] r.sync = "LINKED" -> Nodes[node]
           b == IF r.sync = "SLICE" /\ ~resume THEN r.count ELSE r.blocks
           nx == IF r.sync = "LINKED" THEN node + 1 ELSE r.next
           mv == IF resume THEN r.moved ELSE 0
           g == IF resume THEN r.goal ELSE Goal(c, r)
           l == [r EXCEPT !.active = TRUE, !.running = TRUE, !.force = FALSE,
                   !.words = w, !.blocks = b, !.next = nx, !.moved = mv, !.goal = g]
<1>1. /\ r.size \in Nat /\ r.count \in Nat /\ r.blocks \in Int /\ r.moved \in Nat
      /\ r.sync \in {"BURST", "SLICE", "LINKED"} /\ r.next \in 1..END
      /\ U16 \in Nat /\ U16 > 0
  BY DmaAssumption DEF Channel
<1>2. Loaded(c, r, resume) = l
  BY DEF Loaded
<1>3. r.sync = "LINKED" => node \in 1..Len(Nodes)
  BY <1>1, EndNat
<1>4. /\ r.sync = "BURST" => w = WordCount(r.size)
      /\ r.sync = "SLICE" => w = r.size
      /\ r.sync = "LINKED" => w = Nodes[node] /\ nx = node + 1
  <2> HIDE DEF node
  <2> QED OBVIOUS
<1>5. /\ ~resume => mv = 0 /\ g = Goal(c, r) /\ node = 1
      /\ resume => mv = r.moved /\ g = r.goal /\ node = r.next
      /\ r.sync = "SLICE" => b = (IF resume THEN r.blocks ELSE r.count)
  OBVIOUS
<1> HIDE DEF w, b, nx, mv, g, node
<1>6. /\ l.active = TRUE /\ l.running = TRUE /\ l.start = r.start /\ l.sync = r.sync
      /\ l.size = r.size /\ l.words = w /\ l.blocks = b /\ l.next = nx
      /\ l.moved = mv /\ l.goal = g
  BY DEF Channel
<1> HIDE DEF l
<1>7. Rejected(c, l) = Rejected(c, r)
  BY <1>6 DEF Rejected
<1>8. Account(c, l)
  <2>a. CASE Rejected(c, r)
    <3>1. mv = g
      <4>1. CASE resume
        BY <1>5, <2>a, <4>1 DEF Fulfils, Account
      <4>2. CASE ~resume
        BY <1>5, <2>a, <4>2 DEF Goal
      <4> QED BY <4>1, <4>2
    <3> QED BY <1>6, <1>7, <2>a, <3>1 DEF Account
  <2>b. CASE ~Rejected(c, r) /\ r.sync = "BURST"
    <3>1. ~resume
      BY <2>b DEF Fulfils, Account
    <3>2. mv = 0 /\ g = WordCount(r.size)
      BY <1>5, <2>b, <3>1 DEF Goal
    <3>3. mv + w = g
      BY <1>1, <1>4, <2>b, <3>2 DEF WordCount
    <3> QED BY <1>6, <1>7, <2>b, <3>3 DEF Account
  <2>c. CASE ~Rejected(c, r) /\ r.sync = "SLICE"
    <3>1. b \in Nat /\ mv + w + r.size * (BlockCount(b) - 1) = g
      <4>1. CASE resume
        <5>1. r.blocks \in Nat \ {0} /\ r.moved + r.size * r.blocks = r.goal /\ b = r.blocks
          BY <1>5, <2>c, <4>1 DEF Fulfils, Account
        <5>2. BlockCount(b) = b /\ b \in Nat /\ b # 0
          BY <5>1 DEF BlockCount
        <5> DEFINE m == r.size * (b - 1)
                   k == r.size * b
        <5>3. m \in Nat /\ r.size + m = k
          BY <1>1, <5>2, BlockProducts
        <5>4. mv = r.moved /\ w = r.size /\ g = r.moved + k
          BY <1>4, <1>5, <2>c, <4>1, <5>1
        <5> HIDE DEF m, k
        <5>5. mv + w + m = g
          BY <1>1, <5>3, <5>4
        <5> QED BY <5>2, <5>5 DEF m
      <4>2. CASE ~resume
        <5>1. mv = 0 /\ w = r.size /\ b = r.count /\ g = r.size * BlockCount(b)
          BY <1>4, <1>5, <2>c, <4>2 DEF Goal
        <5> DEFINE m == r.size * (BlockCount(b) - 1)
        <5>2. m \in Nat /\ r.size + m = g
          BY <1>1, <5>1, BlockProducts
        <5> HIDE DEF m
        <5>3. mv + w + m = g
          BY <1>1, <5>1, <5>2
        <5> QED BY <1>1, <5>1, <5>3 DEF m
      <4> QED BY <4>1, <4>2
    <3> QED BY <1>6, <1>7, <2>c, <3>1 DEF Account
  <2>d. CASE ~Rejected(c, r) /\ r.sync = "LINKED"
    <3>1. node \in 1..Len(Nodes) /\ w = Nodes[node] /\ nx = node + 1
      BY <1>3, <1>4, <2>d
    <3>2. Len(Nodes) \in Nat /\ node \in Nat /\ nx - 1 = node /\ node - 1 \in 0..Len(Nodes)
      BY <3>1, EndNat
    <3>3. Sum[node] = Sum[node - 1] + w /\ Sum[node - 1] \in Nat
      BY <3>1, <3>2, SumRecursive, SumType
    <3>4. g = ListWords /\ mv = Sum[node - 1]
      <4>1. CASE resume
        <5>1. r.goal = ListWords /\ r.moved + 0 = Sum[r.next - 1]
          BY <2>d, <4>1 DEF Fulfils, Account
        <5> QED BY <1>1, <1>5, <4>1, <5>1
      <4>2. CASE ~resume
        <5>1. node - 1 = 0
          BY <1>5, <4>2
        <5> QED BY <1>5, <2>d, <4>2, <5>1, SumRecursive DEF Goal
      <4> QED BY <4>1, <4>2
    <3>5. mv + w = Sum[nx - 1]
      BY <3>2, <3>3, <3>4
    <3> QED BY <1>6, <1>7, <2>d, <3>4, <3>5 DEF Account
  <2> QED BY <1>1, <2>a, <2>b, <2>c, <2>d
<1> QED BY <1>2, <1>6, <1>8 DEF Fulfils

LEMMA StartFulfils ==
    ASSUME NEW x, QInv(x, dpcr), FInv(x), NEW c \in Channels,
           NEW r, ChanOK(c, r), r.running = FALSE, r.start, dpcr[c].enable,
           NEW resume \in BOOLEAN, resume => r.active /\ Fulfils(c, r)
    PROVE  FInv(TransferStart(Set(x, c, r), c, resume))
<1> DEFINE z == Set(x, c, r)
           l == Loaded(c, r, resume)
           y == AddTransfer(Set(x, c, l), c)
<1>1. x \in QType /\ r \in Channel
  BY DEF QInv, ChanOK
<1>2. z.ch[c] = r /\ Set(z, c, l) = Set(x, c, l)
  BY <1>1 DEF Set, QType
<1>3. TransferStart(z, c, resume) = y
  <2> HIDE DEF z, l
  <2> QED BY <1>2 DEF TransferStart, l
<1>4. resume /\ r.sync = "LINKED" => r.next # END
  BY DEF ChanOK
<1>5. Fulfils(c, l)
  BY <1>1, <1>4, LoadedFulfils
<1>6. y.ch = [x.ch EXCEPT ![c] = l]
  BY DEF AddTransfer, Set
<1> HIDE DEF y, l
<1>7. FInv(y)
  BY <1>1, <1>5, <1>6, SetFulfils
<1> QED BY <1>3, <1>7

\* A request line that changes does not disturb what is left of a transfer.
LEMMA SignalFulfils ==
    ASSUME Careful, NEW x, QInv(x, dpcr), FInv(x), NEW c, NEW level \in BOOLEAN
    PROVE  FInv(Signal(x, c, level))
<1>1. CASE c \notin Channels
  BY <1>1 DEF Signal
<1>2. CASE c \in Channels
  <2> DEFINE o == x.ch[c]
             r == [o EXCEPT !.dreq = level]
             y == Set(x, c, r)
  <2>1. /\ o \in Channel /\ ChanOK(c, o) /\ Care(c, o, dpcr[c].enable)
        /\ Fulfils(c, o) /\ x \in QType
    BY <1>2 DEF QInv, ChanOK, FInv
  <2>2. x.ch[c] = o
    OBVIOUS
  <2> HIDE DEF o
  <2>3. /\ r \in Channel
        /\ r.start = o.start /\ r.running = o.running /\ r.active = o.active
        /\ r.sync = o.sync /\ r.words = o.words /\ r.next = o.next /\ r.size = o.size
        /\ r.blocks = o.blocks /\ r.moved = o.moved /\ r.goal = o.goal
    BY <2>1 DEF Channel
  <2>4. y.ch = [x.ch EXCEPT ![c] = r] /\ y.ch[c] = r
    BY <1>2, <2>1 DEF Set, QType
  <2> HIDE DEF r
  <2>5. ChanOK(c, r)
    BY <2>1, <2>3 DEF ChanOK
  <2>6. Fulfils(c, r)
    BY <2>1, <2>3, SameFulfils
  <2>7. FInv(y)
    <3> HIDE DEF y
    <3> QED BY <1>2, <2>1, <2>4, <2>6, SetFulfils
  <2>8. CASE level /\ (c = 2 => ~o.dreq)
    <3>1. Signal(x, c, level) = DreqRisingEdge(y, c)
      BY <1>2, <2>2, <2>8 DEF Signal, r, o
    <3>2. CASE ~o.start \/ o.running
      <4>1. DreqRisingEdge(y, c) = y
        <5> HIDE DEF y
        <5> QED BY <2>3, <2>4, <3>2 DEF DreqRisingEdge
      <4> QED BY <4>1, <3>1, <2>7
    <3>3. CASE o.start /\ ~o.running
      <4>1. DreqRisingEdge(y, c) = TransferStart(y, c, r.active)
        <5> HIDE DEF y
        <5> QED BY <2>3, <2>4, <3>3 DEF DreqRisingEdge
      <4>2. r.active \in BOOLEAN /\ r.running = FALSE
        BY <2>1, <2>3, <3>3 DEF Channel
      <4>3. r.start /\ dpcr[c].enable
        BY <2>1, <2>3, <3>3 DEF Care
      <4>4. FInv(TransferStart(y, c, r.active))
        BY <1>2, <2>5, <2>6, <4>2, <4>3, StartFulfils
      <4> QED BY <4>1, <4>4, <3>1
    <3> QED BY <3>2, <3>3
  <2>9. CASE ~(level /\ (c = 2 => ~o.dreq))
    <3>1. Signal(x, c, level) = y
      BY <1>2, <2>2, <2>9 DEF Signal, r, o
    <3> QED BY <3>1, <2>7
  <2> QED BY <2>8, <2>9
<1> QED BY <1>1, <1>2

LEMMA RefreshFulfils ==
    ASSUME Careful, NEW x, QInv(x, dpcr), FInv(x), NEW c
    PROVE  FInv(Refresh(x, c))
<1>1. c \in Channels => x.ch[c].dreq \in BOOLEAN
  BY DEF QInv, ChanOK, Channel
<1> QED BY <1>1, SignalFulfils DEF Refresh

LEMMA AfterWordFulfils ==
    ASSUME Careful, NEW x, QInv(x, dpcr), FInv(x), NEW c \in Channels, AfterWord(x, c)
    PROVE  FInv(q')
<1>1. CASE c = 0 /\ q' = Refresh(x, 0)
  BY <1>1, RefreshFulfils
<1>2. CASE c = 0 /\ q' = Refresh(Signal(x, 1, TRUE), 0)
  <2>1. QInv(Signal(x, 1, TRUE), dpcr) /\ FInv(Signal(x, 1, TRUE))
    BY SignalGood, SignalFulfils
  <2> QED BY <1>2, <2>1, RefreshFulfils
<1>3. CASE c = 1 /\ \E out \in {x.ch[1].dreq, FALSE} : q' = Signal(Refresh(x, 0), 1, out)
  <2>1. x.ch[1].dreq \in BOOLEAN
    BY <1>3 DEF QInv, ChanOK, Channel
  <2>2. QInv(Refresh(x, 0), dpcr) /\ FInv(Refresh(x, 0))
    BY RefreshGood, RefreshFulfils
  <2>3. \A out \in BOOLEAN : FInv(Signal(Refresh(x, 0), 1, out))
    BY <2>2, SignalFulfils
  <2> QED BY <1>3, <2>1, <2>3
<1>4. CASE c = 2 /\ \E level \in BOOLEAN : q' = Signal(x, 2, level)
  <2>1. \A level \in BOOLEAN : FInv(Signal(x, 2, level))
    BY SignalFulfils
  <2> QED BY <1>4, <2>1
<1>5. CASE q' = x
  BY <1>5
<1> QED BY <1>1, <1>2, <1>3, <1>4, <1>5 DEF AfterWord

\* What is left of a transfer between two blocks or two nodes.
Paused(r) ==
    \/ /\ r.sync = "SLICE" /\ r.blocks \in Nat \ {0}
       /\ r.moved + r.size * r.blocks = r.goal
    \/ /\ r.sync = "LINKED" /\ r.goal = ListWords
       /\ r.moved = Sum[r.next - 1]

\* A transfer ends when all its words are moved, and pauses only between blocks.
LEMMA EndFulfils ==
    ASSUME NEW x \in QType, FInv(x), NEW c \in Channels, NEW r \in Channel,
           NEW last \in BOOLEAN, last => r.moved = r.goal,
           ~last => r.active /\ r.start /\ ~Rejected(c, r) /\ Paused(r)
    PROVE  FInv(TransferEnd(Set(x, c, r), c, last))
<1> DEFINE z == Set(x, c, r)
           st == r.start /\ ~last
           ac == r.active /\ ~last
           dr == r.dreq /\ ~(c = 4 /\ last /\ ~Rejected(c, r))
           e == [r EXCEPT !.start = st, !.active = ac, !.running = FALSE, !.dreq = dr]
           y == RemoveTransfer(Set(x, c, e))
<1>1. z.ch[c] = r /\ Set(z, c, e) = Set(x, c, e)
  BY DEF Set, QType
<1>2. TransferEnd(z, c, last) = y
  <2> HIDE DEF z
  <2> QED BY <1>1 DEF TransferEnd
<1>3. y.ch = [x.ch EXCEPT ![c] = e]
  BY DEF RemoveTransfer, Set
<1>4. /\ ac => r.active /\ ~last
      /\ ~last => st /\ ac
  OBVIOUS
<1> HIDE DEF st, ac, dr
<1>5. /\ e.start = st /\ e.active = ac /\ e.running = FALSE /\ e.sync = r.sync
      /\ e.size = r.size /\ e.blocks = r.blocks /\ e.next = r.next
      /\ e.moved = r.moved /\ e.goal = r.goal /\ r.moved \in Nat
  BY DEF Channel
<1> HIDE DEF e, y
<1>6. Fulfils(c, e)
  <2>1. CASE last
    BY <1>4, <1>5, <2>1 DEF Fulfils
  <2>2. CASE ~last
    <3>1. Rejected(c, e) = Rejected(c, r)
      BY <1>5 DEF Rejected
    <3>2. Account(c, e)
      <4>1. CASE r.sync = "SLICE"
        BY <1>5, <2>2, <3>1, <4>1 DEF Account, Paused
      <4>2. CASE r.sync # "SLICE"
        <5>1. r.sync = "LINKED" /\ r.goal = ListWords /\ r.moved = Sum[r.next - 1]
          BY <2>2, <4>2 DEF Paused
        <5>2. e.moved + (IF e.running THEN e.words ELSE 0) = Sum[e.next - 1]
          BY <1>5, <5>1
        <5> QED BY <1>5, <2>2, <3>1, <5>1, <5>2 DEF Account
      <4> QED BY <4>1, <4>2
    <3> QED BY <1>4, <1>5, <2>2, <3>2 DEF Fulfils
  <2> QED BY <2>1, <2>2
<1>7. FInv(y)
  BY <1>3, <1>6, SetFulfils
<1> QED BY <1>2, <1>7

LEMMA EndUnchangedFulfils ==
    ASSUME QInv(q, dpcr), FInv(q), NEW c \in Channels, NEW last \in BOOLEAN,
           last => q.ch[c].moved = q.ch[c].goal,
           ~last => /\ q.ch[c].active /\ q.ch[c].start
                    /\ ~Rejected(c, q.ch[c]) /\ Paused(q.ch[c])
    PROVE  FInv(TransferEnd(q, c, last))
<1> DEFINE r == q.ch[c]
<1>1. q \in QType /\ r \in Channel
  BY DEF QInv, ChanOK
<1>2. Set(q, c, r) = q
  BY <1>1, SetSame
<1> HIDE DEF r
<1>3. FInv(TransferEnd(Set(q, c, r), c, last))
  BY <1>1, EndFulfils DEF r
<1> QED BY <1>2, <1>3
-----------------------------------------------------------------------------
(***************************************************************************)
(* The steps of a careful guest, of the devices and of the controller.     *)
(***************************************************************************)

\* The registers of a channel that a careful guest writes have no transfer left.
LEMMA WritesFulfil ==
    ASSUME Careful, QInv(q, dpcr), FInv(q), NEW c \in Channels
    PROVE  /\ \A size \in Sizes, count \in Counts :
                 WriteBlockControl(c, size, count) => FInv(q')
           /\ \A sync \in SyncModes(c), start, force \in BOOLEAN :
                 WriteChannel(c, sync, start, force) => FInv(q')
<1> DEFINE o == q.ch[c]
<1>1. o \in Channel /\ ChanOK(c, o) /\ Fulfils(c, o) /\ q \in QType
  BY DEF QInv, ChanOK, FInv
<1>2. ASSUME NEW size \in Sizes, NEW count \in Counts, WriteBlockControl(c, size, count)
      PROVE  FInv(q')
  <2> DEFINE r == [o EXCEPT !.size = size, !.count = count]
  <2>1. q' = Set(q, c, r) /\ ~o.start
    BY <1>2 DEF WriteBlockControl
  <2>2. q'.ch = [q.ch EXCEPT ![c] = r]
    BY <2>1 DEF Set
  <2> HIDE DEF o
  <2>3. /\ r.running = o.running /\ r.active = o.active /\ r.start = o.start
        /\ r.moved = o.moved /\ r.goal = o.goal
    BY <1>1 DEF Channel
  <2> HIDE DEF r
  <2>4. Fulfils(c, r)
    BY <1>1, <2>1, <2>3 DEF Fulfils
  <2> QED BY <1>1, <2>2, <2>4, SetFulfils
<1>3. ASSUME NEW sync \in SyncModes(c), NEW start \in BOOLEAN, NEW force \in BOOLEAN,
             WriteChannel(c, sync, start, force)
      PROVE  FInv(q')
  <2> DEFINE r == [o EXCEPT !.sync = sync, !.start = start, !.force = force]
             x == Set(q, c, r)
             go == \/ force /\ ~o.force
                   \/ (start /\ ~o.start) /\ sync = "BURST"
                   \/ (start /\ ~o.start) /\ Dreq(c)
  <2>1. /\ GuestRuns /\ ~o.start /\ ~force /\ dpcr[c].enable
        /\ go => q' = TransferStart(x, c, FALSE)
        /\ ~go => q' = x
    BY <1>3 DEF WriteChannel
  <2>2. o.running = FALSE
    BY <2>1, GuestMeetsIdle
  <2>3. sync \in {"BURST", "SLICE", "LINKED"} /\ (c = 6 => sync = "BURST")
    <3>1. c \in {0, 1, 2, 3, 4, 6} BY DmaAssumption DEF AllChannels
    <3> QED BY <3>1 DEF SyncModes
  <2>4. x.ch = [q.ch EXCEPT ![c] = r]
    BY DEF Set
  <2> HIDE DEF o
  <2>5. /\ r \in Channel /\ r.start = start /\ r.sync = sync
        /\ r.running = o.running /\ r.active = o.active
        /\ r.next = o.next /\ r.moved = o.moved /\ r.goal = o.goal
    BY <1>1, <2>3 DEF Channel
  <2> HIDE DEF r
  <2>6. ~o.active /\ o.moved = o.goal
    BY <1>1, <2>1 DEF Fulfils
  <2>7. CASE go
    <3>1. r.start
      BY <2>1, <2>5, <2>7
    <3>2. ChanOK(c, r) /\ r.running = FALSE
      BY <2>2, <2>3, <2>5, <2>6 DEF ChanOK
    <3>3. FInv(TransferStart(x, c, FALSE))
      BY <2>1, <3>1, <3>2, StartFulfils
    <3> QED BY <2>1, <2>7, <3>3
  <2>8. CASE ~go
    <3>1. Fulfils(c, r)
      BY <2>2, <2>5, <2>6 DEF Fulfils
    <3>2. FInv(x)
      <4> HIDE DEF x
      <4> QED BY <1>1, <2>4, <3>1, SetFulfils
    <3> QED BY <2>1, <2>8, <3>2
  <2> QED BY <2>7, <2>8
<1> QED BY <1>2, <1>3

LEMMA DevicesFulfil ==
    ASSUME Careful, QInv(q, dpcr), FInv(q)
    PROVE  /\ \A in, out \in BOOLEAN : DeviceMDEC(in, out) => FInv(q')
           /\ \A level \in BOOLEAN : DeviceGPU(level) => FInv(q')
           /\ \A c \in Channels : DeviceReady(c) => FInv(q')
<1>1. ASSUME NEW in \in BOOLEAN, NEW out \in BOOLEAN, DeviceMDEC(in, out)
      PROVE  FInv(q')
  <2>1. /\ QInv(Signal(q, 0, in), dpcr) /\ QInv(Signal(q, 1, out), dpcr)
        /\ FInv(Signal(q, 0, in)) /\ FInv(Signal(q, 1, out))
    BY SignalGood, SignalFulfils
  <2>2. FInv(Signal(Signal(q, 0, in), 1, out)) /\ FInv(Signal(Signal(q, 1, out), 0, in))
    BY <2>1, SignalFulfils
  <2>3. q' \in {Signal(Signal(q, 0, in), 1, out), Signal(Signal(q, 1, out), 0, in)}
    BY <1>1 DEF DeviceMDEC
  <2> QED BY <2>2, <2>3
<1>2. ASSUME NEW level \in BOOLEAN, DeviceGPU(level) PROVE FInv(q')
  BY <1>2, SignalFulfils DEF DeviceGPU
<1>3. ASSUME NEW c \in Channels, DeviceReady(c) PROVE FInv(q')
  BY <1>3, SignalFulfils DEF DeviceReady
<1> QED BY <1>1, <1>2, <1>3

\* A word that is moved leaves the sum of those moved and those left.
LEMMA CountedFulfils ==
    ASSUME NEW c, NEW o \in Channel, Fulfils(c, o), o.running, ~Rejected(c, o), o.words > 0
    PROVE  LET r == [o EXCEPT !.words = o.words - 1, !.moved = o.moved + 1]
           IN  /\ r \in Channel /\ Fulfils(c, r)
               /\ r.start = o.start /\ r.running = o.running /\ r.active = o.active
               /\ r.sync = o.sync /\ r.next = o.next /\ r.dreq = o.dreq
               /\ r.words = o.words - 1 /\ r.goal = o.goal
<1> DEFINE r == [o EXCEPT !.words = o.words - 1, !.moved = o.moved + 1]
<1>1. /\ o.words \in Nat /\ o.moved \in Nat /\ o.size \in Nat
      /\ o.words - 1 \in Nat /\ o.moved + 1 \in Nat
  BY DmaAssumption DEF Channel
<1>2. /\ r \in Channel
      /\ r.start = o.start /\ r.running = o.running /\ r.active = o.active
      /\ r.sync = o.sync /\ r.next = o.next /\ r.dreq = o.dreq /\ r.size = o.size
      /\ r.blocks = o.blocks /\ r.goal = o.goal
      /\ r.words = o.words - 1 /\ r.moved = o.moved + 1
  BY <1>1 DEF Channel
<1> HIDE DEF r
<1>3. Rejected(c, r) = Rejected(c, o)
  BY <1>2 DEF Rejected
<1>4. r.moved + r.words = o.moved + o.words
  BY <1>1, <1>2
<1>5. o.active /\ o.start /\ Account(c, o)
  BY DEF Fulfils
<1>6. Account(c, r)
  <2>1. CASE o.sync = "BURST"
    BY <1>2, <1>3, <1>4, <1>5, <2>1 DEF Account
  <2>2. CASE o.sync = "SLICE"
    <3> DEFINE m == o.size * (BlockCount(o.blocks) - 1)
    <3>1. o.blocks \in Nat /\ o.moved + o.words + m = o.goal
      BY <1>5, <2>2 DEF Account
    <3>2. m \in Nat
      BY <1>1, <3>1, BlockProducts
    <3>3. r.moved + r.words + m = r.goal
      <4> HIDE DEF m
      <4> QED BY <1>1, <1>2, <3>1, <3>2
    <3> QED BY <1>2, <1>3, <2>2, <3>1, <3>3 DEF Account
  <2>3. CASE o.sync = "LINKED"
    BY <1>2, <1>3, <1>4, <1>5, <2>3 DEF Account
  <2> QED BY <2>1, <2>2, <2>3 DEF Channel
<1>7. Fulfils(c, r)
  BY <1>2, <1>5, <1>6 DEF Fulfils
<1> QED BY <1>2, <1>7, Zenon DEF r

LEMMA MoveWordFulfils ==
    ASSUME Careful, QInv(q, dpcr), FInv(q), NEW c \in Channels, NEW fault, MoveWord(c, fault)
    PROVE  FInv(q')
<1> DEFINE o == q.ch[c]
           r == [o EXCEPT !.words = o.words - 1, !.moved = o.moved + 1]
           x == Set(q, c, r)
<1>1. /\ q \in QType /\ ChanOK(c, o) /\ o \in Channel /\ o.running
      /\ Care(c, o, dpcr[c].enable) /\ Fulfils(c, o)
  BY LeadingRuns DEF MoveWord, FInv
<1>2. c # 6 /\ o.words > 0 /\ ~Rejected(c, o) /\ AfterWord(x, c)
  BY DEF MoveWord, Counted
<1>3. x.ch = [q.ch EXCEPT ![c] = r]
  BY DEF Set
<1>4. /\ r \in Channel /\ Fulfils(c, r)
      /\ r.start = o.start /\ r.running = o.running /\ r.active = o.active
      /\ r.sync = o.sync /\ r.next = o.next /\ r.dreq = o.dreq
  <2> HIDE DEF o
  <2> QED BY <1>1, <1>2, CountedFulfils
<1> HIDE DEF r
<1>5. ChanOK(c, r) /\ Care(c, r, dpcr[c].enable)
  BY <1>1, <1>2, <1>4 DEF ChanOK, Care
<1>6. QInv(x, dpcr)
  BY <1>4, <1>5, SetKeeps
<1> HIDE DEF x
<1>7. FInv(x)
  BY <1>1, <1>3, <1>4, SetFulfils
<1> QED BY <1>2, <1>6, <1>7, AfterWordFulfils

LEMMA MoveEntryFulfils ==
    ASSUME Careful, QInv(q, dpcr), FInv(q), NEW fault, MoveEntry(fault)
    PROVE  FInv(q')
<1> DEFINE o == q.ch[6]
           r == [o EXCEPT !.words = o.words - 1, !.moved = o.moved + 1]
           x == Set(q, 6, r)
<1>1. /\ 6 \in Channels /\ q \in QType /\ ChanOK(6, o) /\ o \in Channel /\ o.running
      /\ Fulfils(6, o)
  BY LeadingRuns DEF MoveEntry, FInv
<1>2. x.ch[6] = r /\ x.ch = [q.ch EXCEPT ![6] = r]
  BY <1>1 DEF Set, QType
<1>3. /\ r.words = 0 => q' = TransferEnd(x, 6, TRUE)
      /\ r.words # 0 => q' = x
  <2> HIDE DEF r
  <2> QED BY <1>2 DEF MoveEntry, Counted, r
<1>4. /\ r \in Channel /\ Fulfils(6, r) /\ r.sync = o.sync /\ r.running = o.running
      /\ r.words = o.words - 1 /\ o.sync = "BURST"
  <2>1. o.words > 0 /\ ~Rejected(6, o) /\ o.sync = "BURST"
    BY <1>1 DEF ChanOK, Rejected
  <2> HIDE DEF o
  <2> QED BY <1>1, <2>1, CountedFulfils
<1> HIDE DEF r, o
<1>5. CASE r.words = 0
  <2>1. r.moved + r.words = r.goal /\ r.moved \in Nat
    <3>1. Account(6, r) /\ ~Rejected(6, r)
      BY <1>1, <1>4 DEF Fulfils, Rejected
    <3> QED BY <1>4, <3>1 DEF Account, Channel
  <2>2. r.moved = r.goal
    BY <1>5, <2>1
  <2>3. FInv(TransferEnd(x, 6, TRUE))
    BY <1>1, <1>4, <2>2, EndFulfils
  <2> QED BY <1>3, <1>5, <2>3
<1>6. CASE r.words # 0
  <2> HIDE DEF x
  <2>1. FInv(x)
    BY <1>1, <1>2, <1>4, SetFulfils
  <2> QED BY <1>3, <1>6, <2>1
<1> QED BY <1>5, <1>6

\* The last block of a slice has moved the last of its words.
LEMMA EndSliceFulfils ==
    ASSUME Careful, QInv(q, dpcr), FInv(q), NEW c \in Channels, EndSlice(c)
    PROVE  FInv(q')
<1> DEFINE o == q.ch[c]
           blocks == o.blocks - 1
           last == blocks \in {0, -1}
           r == [o EXCEPT !.blocks = blocks]
           x == Set(q, c, r)
           w == [r EXCEPT !.words = r.size]
           m == o.size * blocks
<1>1. /\ q \in QType /\ o \in Channel /\ o.running /\ Fulfils(c, o)
  BY LeadingRuns DEF EndSlice, FInv
<1>2. x.ch[c] = r /\ Set(x, c, w) = Set(q, c, w)
  BY <1>1 DEF Set, QType
<1>3. /\ o.sync = "SLICE" /\ o.words = 0 /\ ~Rejected(c, o)
      /\ q' = IF last THEN TransferEnd(x, c, TRUE)
              ELSE IF c = 4 \/ Dreq(c) THEN Set(x, c, [x.ch[c] EXCEPT !.words = x.ch[c].size])
              ELSE TransferEnd(x, c, FALSE)
  BY DEF EndSlice
<1>4. Set(q, c, w).ch = [q.ch EXCEPT ![c] = w]
  BY DEF Set
<1> HIDE DEF o
<1>5. o.size \in Nat /\ o.moved \in Nat
  BY <1>1, DmaAssumption DEF Channel
<1>6. /\ o.active /\ o.start /\ o.blocks \in Nat
      /\ o.moved + o.words + o.size * (BlockCount(o.blocks) - 1) = o.goal
  BY <1>1, <1>3 DEF Fulfils, Account
<1>7. /\ r \in Channel /\ r.size = o.size /\ r.blocks = blocks /\ r.sync = o.sync
      /\ r.start = o.start /\ r.running = o.running /\ r.active = o.active
      /\ r.moved = o.moved /\ r.goal = o.goal
  <2>1. blocks \in Int BY <1>6
  <2> HIDE DEF blocks
  <2> QED BY <1>1, <2>1 DEF Channel
<1> HIDE DEF r
<1>8. Rejected(c, r) = Rejected(c, o)
  BY <1>7 DEF Rejected
<1>9. CASE last
  <2>1. BlockCount(o.blocks) - 1 = 0
    BY <1>6, <1>9 DEF BlockCount
  <2>2. o.size * 0 = 0
    BY <1>5
  <2>3. o.moved + 0 + 0 = o.goal
    BY <1>3, <1>6, <2>1, <2>2
  <2>4. r.moved = r.goal
    BY <1>5, <1>7, <2>3
  <2>5. FInv(TransferEnd(x, c, TRUE))
    BY <1>1, <1>7, <2>4, EndFulfils
  <2> QED BY <1>3, <1>9, <2>5
<1>10. CASE ~last
  <2>1. blocks \in Nat \ {0} /\ BlockCount(o.blocks) - 1 = blocks /\ BlockCount(blocks) = blocks
    BY <1>6, <1>10 DEF BlockCount
  <2>2. o.moved + 0 + m = o.goal
    BY <1>3, <1>6, <2>1
  <2> HIDE DEF blocks
  <2>3. /\ m \in Nat /\ o.size * (blocks - 1) \in Nat
        /\ o.size + o.size * (blocks - 1) = m
    BY <1>5, <2>1, BlockProducts
  <2> HIDE DEF m
  <2>4. o.moved + m = o.goal
    BY <1>5, <2>2, <2>3
  <2>5. CASE c = 4 \/ Dreq(c)
    <3>1. /\ w.size = r.size /\ w.blocks = blocks /\ w.sync = r.sync /\ w.words = r.size
          /\ w.start = r.start /\ w.running = r.running /\ w.active = r.active
          /\ w.moved = r.moved /\ w.goal = r.goal
      BY <1>7 DEF Channel
    <3>2. q' = Set(q, c, w)
      BY <1>2, <1>3, <1>10, <2>5
    <3> HIDE DEF w
    <3>3. Rejected(c, w) = Rejected(c, o)
      BY <1>7, <3>1 DEF Rejected
    <3>4. w.moved + w.words + w.size * (BlockCount(w.blocks) - 1) = w.goal
      <4> DEFINE k == o.size * (blocks - 1)
      <4>1. k \in Nat /\ o.size + k = m
        BY <2>3
      <4> HIDE DEF k
      <4>2. o.moved + o.size + k = o.goal
        BY <1>5, <2>3, <2>4, <4>1
      <4> QED BY <1>7, <2>1, <3>1, <4>2 DEF k
    <3>5. Account(c, w)
      BY <1>1, <1>3, <1>7, <2>1, <3>1, <3>3, <3>4 DEF Account
    <3>6. Fulfils(c, w)
      BY <1>6, <1>7, <3>1, <3>5 DEF Fulfils
    <3> QED BY <1>1, <1>4, <3>2, <3>6, SetFulfils
  <2>6. CASE ~(c = 4 \/ Dreq(c))
    <3>1. Paused(r)
      BY <1>3, <1>7, <2>1, <2>4 DEF Paused, m
    <3>2. FInv(TransferEnd(x, c, FALSE))
      BY <1>1, <1>3, <1>6, <1>7, <1>8, <3>1, EndFulfils
    <3> QED BY <1>3, <1>10, <2>6, <3>2
  <2> QED BY <2>5, <2>6
<1> QED BY <1>9, <1>10

\* At the end of the list the nodes so far are all of them.
LEMMA EndNodeFulfils ==
    ASSUME Careful, QInv(q, dpcr), FInv(q), NEW c \in Channels, EndNode(c)
    PROVE  FInv(q')
<1> DEFINE o == q.ch[c]
           r == [o EXCEPT !.words = Nodes[o.next], !.next = o.next + 1]
<1>1. /\ q \in QType /\ o \in Channel /\ o.running /\ Fulfils(c, o)
  BY LeadingRuns DEF EndNode, FInv
<1>2. /\ o.sync = "LINKED" /\ o.words = 0 /\ ~Rejected(c, o)
      /\ q' = IF o.next = END THEN TransferEnd(q, c, TRUE)
              ELSE IF Dreq(c) THEN Set(q, c, r)
              ELSE TransferEnd(q, c, FALSE)
  BY DEF EndNode
<1>3. /\ o.active /\ o.start /\ o.goal = ListWords
      /\ o.moved + o.words = Sum[o.next - 1]
  BY <1>1, <1>2 DEF Fulfils, Account
<1>4. o.moved \in Nat /\ o.moved = Sum[o.next - 1] /\ o.next \in 1..END
  BY <1>1, <1>2, <1>3 DEF Channel
<1>5. CASE o.next = END
  <2>1. o.moved = o.goal
    <3>1. o.next - 1 = Len(Nodes) BY <1>5, EndNat
    <3> QED BY <1>3, <1>4, <3>1 DEF ListWords
  <2>2. FInv(TransferEnd(q, c, TRUE))
    BY <2>1, EndUnchangedFulfils
  <2> QED BY <1>2, <1>5, <2>2
<1>6. CASE o.next # END /\ Dreq(c)
  <2>1. o.next \in 1..Len(Nodes)
    BY <1>4, <1>6, EndNat
  <2>2. Nodes[o.next] \in Nat /\ o.next + 1 \in 1..END /\ (o.next + 1) - 1 = o.next
    BY <2>1, EndNat, DmaAssumption, SMTT(30)
  <2>3. Sum[o.next] = Sum[o.next - 1] + Nodes[o.next]
    BY <2>1, SumRecursive
  <2>4. q' = Set(q, c, r)
    BY <1>2, <1>6
  <2>5. q'.ch = [q.ch EXCEPT ![c] = r]
    BY <2>4 DEF Set
  <2> HIDE DEF o
  <2>6. /\ r.start = o.start /\ r.running = o.running /\ r.active = o.active
        /\ r.sync = o.sync /\ r.size = o.size /\ r.moved = o.moved /\ r.goal = o.goal
        /\ r.words = Nodes[o.next] /\ r.next = o.next + 1
    BY <1>1, <2>2 DEF Channel
  <2> HIDE DEF r
  <2>7. Rejected(c, r) = Rejected(c, o)
    BY <2>6 DEF Rejected
  <2>8. r.moved + (IF r.running THEN r.words ELSE 0) = Sum[r.next - 1]
    BY <1>1, <1>4, <2>2, <2>3, <2>6
  <2>9. Account(c, r)
    BY <1>2, <1>3, <2>6, <2>7, <2>8 DEF Account
  <2>10. Fulfils(c, r)
    BY <1>3, <2>6, <2>9 DEF Fulfils
  <2> QED BY <1>1, <2>5, <2>10, SetFulfils
<1>7. CASE o.next # END /\ ~Dreq(c)
  <2>1. Paused(o)
    BY <1>2, <1>3, <1>4 DEF Paused
  <2>2. FInv(TransferEnd(q, c, FALSE))
    BY <1>2, <1>3, <2>1, EndUnchangedFulfils
  <2> QED BY <1>2, <1>7, <2>2
<1> QED BY <1>5, <1>6, <1>7

LEMMA EndWholeFulfils ==
    ASSUME QInv(q, dpcr), FInv(q), NEW c \in Channels, EndBurst(c) \/ Reject(c)
    PROVE  FInv(q')
<1> DEFINE o == q.ch[c]
<1>1. q' = TransferEnd(q, c, TRUE)
  BY DEF EndBurst, Reject
<1>2. o \in Channel /\ o.running /\ Fulfils(c, o)
  BY LeadingRuns DEF EndBurst, Reject, FInv
<1>3. o.moved = o.goal
  <2>1. Account(c, o) /\ o.moved \in Nat
    BY <1>2 DEF Fulfils, Channel
  <2>2. CASE Reject(c)
    <3>1. Rejected(c, o) BY <2>2 DEF Reject
    <3> QED BY <2>1, <3>1 DEF Account
  <2>3. CASE EndBurst(c)
    <3>1. ~Rejected(c, o) /\ o.sync = "BURST" /\ o.words = 0 BY <2>3 DEF EndBurst
    <3>2. o.moved + o.words = o.goal BY <2>1, <3>1 DEF Account
    <3> HIDE DEF o
    <3> QED BY <2>1, <3>1, <3>2
  <2> QED BY <2>2, <2>3
<1>4. FInv(TransferEnd(q, c, TRUE))
  BY <1>3, EndUnchangedFulfils
<1> QED BY <1>1, <1>4

LEMMA FInvStep ==
    ASSUME Careful, QInv(q, dpcr), FInv(q), [Next]_vars
    PROVE  FInv(q')
<1>1. UNCHANGED q => FInv(q')
  BY Zenon
<1>2. ASSUME \/ \E enabled \in SUBSET Channels, prio \in [Channels -> Priorities] :
                  WriteControl(enabled, prio)
             \/ \E v \in IntControls, ack \in SUBSET Channels : WriteInt(v, ack)
             \/ ReadInt \/ ClearIStat
      PROVE  FInv(q')
  BY <1>1, <1>2 DEF WriteControl, WriteInt, ReadInt, ClearIStat
<1>3. ASSUME \/ \E c \in Channels, size \in Sizes, count \in Counts :
                  WriteBlockControl(c, size, count)
             \/ \E c \in Channels : \E sync \in SyncModes(c), start, force \in BOOLEAN :
                  WriteChannel(c, sync, start, force)
      PROVE  FInv(q')
  BY <1>3, WritesFulfil
<1>4. ASSUME \/ \E in, out \in BOOLEAN : DeviceMDEC(in, out)
             \/ \E level \in BOOLEAN : DeviceGPU(level)
             \/ \E c \in Channels \cap {3, 4} : DeviceReady(c)
      PROVE  FInv(q')
  BY <1>4, DevicesFulfil
<1>5. CASE AdvanceTransfer
  BY <1>5, MoveWordFulfils, MoveEntryFulfils, EndSliceFulfils, EndNodeFulfils,
     EndWholeFulfils DEF AdvanceTransfer
<1>6. CASE Next
  BY <1>6, <1>2, <1>3, <1>4, <1>5 DEF Next
<1>7. CASE UNCHANGED vars
  BY <1>1, <1>7 DEF vars
<1> QED BY <1>6, <1>7

\* For a careful guest a transfer that completes has moved the words its registers
\* asked for, over all the blocks, nodes, pauses and resumptions in between.
THEOREM DmaCompletedInFull == Careful => (Spec => CompletedInFull)
<1> SUFFICES ASSUME Careful PROVE Spec => CompletedInFull
  OBVIOUS
<1>1. Init => QInv(q, dpcr) /\ FInv(q)
  <2> SUFFICES ASSUME Init PROVE QInv(q, dpcr) /\ FInv(q)
    OBVIOUS
  <2>1. ASSUME NEW c \in Channels PROVE Fulfils(c, q.ch[c])
    <3>1. q.ch[c] = IdleChannel(c) BY DEF Init
    <3> QED BY <3>1 DEF IdleChannel, Fulfils
  <2> QED BY <2>1, InitGood DEF FInv
<1>2. QInv(q, dpcr) /\ FInv(q) /\ [Next]_vars => (QInv(q, dpcr) /\ FInv(q))'
  BY QInvStep, FInvStep
<1>3. QInv(q, dpcr) /\ FInv(q) /\ [Next]_vars
        => [\A c \in Channels : q.ch[c].active /\ ~q'.ch[c].active
                                  => q'.ch[c].moved = q'.ch[c].goal]_q
  <2> SUFFICES ASSUME QInv(q, dpcr), FInv(q), [Next]_vars, NEW c \in Channels,
                      q.ch[c].active, ~q'.ch[c].active
               PROVE  q'.ch[c].moved = q'.ch[c].goal
    OBVIOUS
  <2>1. FInv(q')
    BY FInvStep
  <2> QED BY <2>1 DEF FInv, Fulfils
<1> QED BY <1>1, <1>2, <1>3, PTL DEF Spec, CompletedInFull
=============================================================================
