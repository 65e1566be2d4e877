---------------------------- MODULE ServerProofs -----------------------------
(***************************************************************************)
(* Proofs about the GDB stub and its two queues.                           *)
(***************************************************************************)
EXTENDS Server, SequenceTheorems, TLAPS

Places == {"none", "outer", "accept", "greet", "poll", "data", "emu_commands",
           "drain", "leave", "gone"} \cup Waiting
Backs == {"none", "hello", "ctrl_c", "data"}
SrvType == [at : Places, want : Answered \cup {"none"}, back : Backs, batch : 0..MaxBatch]

ToEmu == Message(Commands)
ToServer == Message(Answered \cup {"break"})

(***************************************************************************)
(* The queues.                                                             *)
(***************************************************************************)
LEMMA KindFacts ==
    /\ "stop" \notin Requests /\ "break" \notin Requests /\ "continue" \notin Requests
    /\ "set" \notin Requests /\ "none" \notin Requests
    /\ "break" \notin Answered /\ "continue" \notin Answered /\ "set" \notin Answered
    /\ "stop" \in Answered
  BY ServerAssumption DEF Answered

LEMMA AppendQueue ==
    ASSUME NEW S, NEW q \in Seq(S), NEW m \in S
    PROVE  /\ Append(q, m) \in Seq(S) /\ Len(Append(q, m)) = Len(q) + 1 /\ Len(q) \in Nat
           /\ \A i \in 1..Len(q) : Append(q, m)[i] = q[i]
           /\ Append(q, m)[Len(q) + 1] = m
  OBVIOUS

LEMMA TailQueue ==
    ASSUME NEW S, NEW q \in Seq(S), q # <<>>
    PROVE  /\ Tail(q) \in Seq(S) /\ Len(Tail(q)) = Len(q) - 1 /\ Len(q) \in Nat
           /\ Len(q) >= 1 /\ Head(q) = q[1] /\ Head(q) \in S
           /\ \A i \in 1..(Len(q) - 1) : Tail(q)[i] = q[i + 1]
  OBVIOUS

LEMMA EmptyQueue ==
    /\ \A S : <<>> \in Seq(S)
    /\ Len(<<>>) = 0
  OBVIOUS

LEMMA AgedQueue ==
    ASSUME NEW S, NEW q \in Seq(Message(S))
    PROVE  /\ Aged(q) \in Seq(Message(S)) /\ Len(Aged(q)) = Len(q) /\ Len(q) \in Nat
           /\ \A i \in 1..Len(q) : Aged(q)[i].kind = q[i].kind /\ Aged(q)[i].fresh = FALSE
<1> DEFINE n == Len(q)
           old == FALSE
           a == [i \in 1..n |-> [q[i] EXCEPT !.fresh = old]]
<1>1. n \in Nat /\ DOMAIN q = 1..n /\ \A i \in 1..n : q[i] \in Message(S)
  OBVIOUS
<1>2. Aged(q) = a
  BY <1>1 DEF Aged
<1>3. old \in BOOLEAN
  OBVIOUS
<1> HIDE DEF n, old
<1>4. \A i \in 1..n : /\ [q[i] EXCEPT !.fresh = old] \in Message(S)
                      /\ [q[i] EXCEPT !.fresh = old].kind = q[i].kind
                      /\ [q[i] EXCEPT !.fresh = old].fresh = old
  BY <1>1, <1>3 DEF Message
<1>5. a \in [1..n -> Message(S)]
  BY <1>4
<1>6. \A i \in 1..n : a[i].kind = q[i].kind /\ a[i].fresh = old
  BY <1>4
<1>7. DOMAIN a = 1..n
  OBVIOUS
<1> HIDE DEF a
<1>8. a \in Seq(Message(S))
  BY <1>1, <1>5, SeqDef
<1>9. Len(a) = n
  <2>1. Len(a) \in Nat /\ 1..Len(a) = 1..n
    BY <1>7, <1>8, LenProperties
  <2>2. Len(a) < n => n \in 1..n /\ n \notin 1..Len(a)
    BY <1>1, <2>1
  <2>3. n < Len(a) => Len(a) \in 1..Len(a) /\ Len(a) \notin 1..n
    BY <1>1, <2>1
  <2> QED BY <1>1, <2>1, <2>2, <2>3
<1> QED BY <1>1, <1>2, <1>6, <1>8, <1>9 DEF n, old

\* A message that the server waits for an answer to, or an answer; one that is not
\* about stopping.
Mine(m) == m.kind \in Answered
Other(m) == m.kind \in Requests

\* What is fresh was asked last: nothing in the queues was asked after it.
FreshLast(e, s) ==
    /\ \A i \in 1..Len(s) : s[i].fresh => i = Len(s)
    /\ \A i \in 1..Len(e) : e[i].fresh /\ Mine(e[i]) =>
          Len(s) = 0 /\ \A j \in 1..Len(e) : i < j => ~Mine(e[j])

NoneWaits(e, s) ==
    /\ \A i \in 1..Len(e) : ~Mine(e[i])
    /\ \A i \in 1..Len(s) : ~Mine(s[i])

NoStale(e, s) ==
    /\ \A i \in 1..Len(e) : Mine(e[i]) => e[i].fresh
    /\ \A i \in 1..Len(s) : Mine(s[i]) => s[i].fresh

StaleStop(e, s) ==
    /\ \A i \in 1..Len(e) : Other(e[i]) => e[i].fresh
    /\ \A i \in 1..Len(s) : Other(s[i]) => s[i].fresh

AllStop(e, s) ==
    /\ \A i \in 1..Len(e) : ~Other(e[i])
    /\ \A i \in 1..Len(s) : ~Other(s[i])

\* What an earlier client asked for is gone when an answer about stopping is in front.
StopLast(e, s) ==
    /\ \A i, j \in 1..Len(e) : i < j /\ e[i].kind = "stop" => ~Other(e[j])
    /\ \A i \in 1..Len(e), j \in 1..Len(s) : e[i].kind = "stop" => ~Other(s[j])
    /\ \A i, j \in 1..Len(s) : i < j /\ s[i].kind = "stop" => ~Other(s[j])

LEMMA Implications ==
    ASSUME NEW e, NEW s
    PROVE  /\ NoneWaits(e, s) => NoStale(e, s) /\ AllStop(e, s)
           /\ AllStop(e, s) => StaleStop(e, s) /\ StopLast(e, s)
<1>1. \A m : Other(m) => Mine(m)
  BY DEF Other, Mine, Answered
<1> QED BY <1>1 DEF NoneWaits, NoStale, AllStop, StaleStop, StopLast

LEMMA AloneIsSorted ==
    ASSUME NEW e \in Seq(ToServer), NEW s \in Seq(ToEmu), FreshLast(e, s), NoStale(e, s)
    PROVE  StopLast(e, s)
<1>0. Len(e) \in Nat /\ Len(s) \in Nat
  OBVIOUS
<1>1. \A m : (m.kind = "stop" => Mine(m)) /\ (Other(m) => Mine(m))
  BY DEF Other, Mine, Answered
<1>2. ASSUME NEW i \in 1..Len(e), NEW j \in 1..Len(e), i < j, e[i].kind = "stop"
      PROVE  ~Other(e[j])
  BY <1>1, <1>2 DEF FreshLast, NoStale
<1>3. ASSUME NEW i \in 1..Len(e), NEW j \in 1..Len(s), e[i].kind = "stop"
      PROVE  ~Other(s[j])
  BY <1>0, <1>1, <1>3 DEF FreshLast, NoStale
<1>4. ASSUME NEW i \in 1..Len(s), NEW j \in 1..Len(s), i < j, s[i].kind = "stop"
      PROVE  ~Other(s[j])
  BY <1>0, <1>1, <1>4 DEF FreshLast, NoStale
<1> QED BY <1>2, <1>3, <1>4 DEF StopLast

\* The server asks.
LEMMA PushFacts ==
    ASSUME NEW e \in Seq(ToServer), NEW s \in Seq(ToEmu), NEW kind \in Commands
    PROVE  LET a == Aged(e)
               t == Append(Aged(s), [kind |-> kind, fresh |-> TRUE]) IN
           /\ a \in Seq(ToServer) /\ t \in Seq(ToEmu)
           /\ FreshLast(a, t)
           /\ \A i \in 1..Len(a) : ~a[i].fresh
           /\ NoneWaits(e, s) => NoStale(a, t)
           /\ NoneWaits(e, s) /\ kind \notin Answered => NoneWaits(a, t)
           /\ AllStop(e, s) => StaleStop(a, t)
           /\ AllStop(e, s) /\ kind \notin Requests => AllStop(a, t)
           /\ StopLast(e, s) /\ kind \notin Requests => StopLast(a, t)
<1> DEFINE a == Aged(e)
           b == Aged(s)
           m == [kind |-> kind, fresh |-> TRUE]
           t == Append(b, m)
           n == Len(s)
<1>1. /\ a \in Seq(ToServer) /\ Len(a) = Len(e) /\ Len(e) \in Nat
      /\ \A i \in 1..Len(e) : a[i].kind = e[i].kind /\ a[i].fresh = FALSE
  BY AgedQueue DEF ToServer
<1>2. /\ b \in Seq(ToEmu) /\ Len(b) = n /\ n \in Nat
      /\ \A i \in 1..n : b[i].kind = s[i].kind /\ b[i].fresh = FALSE
  BY AgedQueue DEF ToEmu
<1>3. m \in ToEmu /\ m.kind = kind /\ m.fresh = TRUE
  BY DEF ToEmu, Message
<1> HIDE DEF a, b, m
<1>4. /\ t \in Seq(ToEmu) /\ Len(t) = n + 1
      /\ \A i \in 1..n : t[i] = b[i]
      /\ t[n + 1] = m
  BY <1>2, <1>3, AppendQueue
<1> HIDE DEF t, n
<1>5. /\ \A i \in 1..n : t[i].kind = s[i].kind /\ t[i].fresh = FALSE
      /\ t[n + 1].kind = kind /\ t[n + 1].fresh = TRUE
      /\ \A i \in 1..Len(t) : i \in 1..n \/ i = n + 1
  BY <1>2, <1>3, <1>4
<1>6. FreshLast(a, t)
  BY <1>1, <1>2, <1>4, <1>5 DEF FreshLast
<1>7. NoneWaits(e, s) => NoStale(a, t)
  BY <1>1, <1>2, <1>5 DEF NoneWaits, NoStale, Mine, n
<1>8. NoneWaits(e, s) /\ kind \notin Answered => NoneWaits(a, t)
  BY <1>1, <1>2, <1>5 DEF NoneWaits, Mine, n
<1>9. AllStop(e, s) => StaleStop(a, t)
  BY <1>1, <1>2, <1>5 DEF AllStop, StaleStop, Other, n
<1>10. AllStop(e, s) /\ kind \notin Requests => AllStop(a, t)
  BY <1>1, <1>2, <1>5 DEF AllStop, Other, n
<1>11. StopLast(e, s) /\ kind \notin Requests => StopLast(a, t)
  <2> SUFFICES ASSUME StopLast(e, s), kind \notin Requests PROVE StopLast(a, t)
    OBVIOUS
  <2>1. ASSUME NEW i \in 1..Len(a), NEW j \in 1..Len(a), i < j, a[i].kind = "stop"
        PROVE  ~Other(a[j])
    BY <1>1, <2>1 DEF StopLast, Other
  <2>2. ASSUME NEW i \in 1..Len(a), NEW j \in 1..Len(t), a[i].kind = "stop"
        PROVE  ~Other(t[j])
    BY <1>1, <1>2, <1>5, <2>2, SMTT(30) DEF StopLast, Other, n
  <2>3. ASSUME NEW i \in 1..Len(t), NEW j \in 1..Len(t), i < j, t[i].kind = "stop"
        PROVE  ~Other(t[j])
    <3>1. CASE j = n + 1
      BY <1>5, <3>1 DEF Other
    <3>2. CASE j \in 1..n
      <4>1. i \in 1..n
        BY <1>2, <1>5, <2>3, <3>2
      <4> QED BY <1>5, <2>3, <3>2, <4>1 DEF StopLast, Other, n
    <3> QED BY <1>5, <3>1, <3>2
  <2> QED BY <2>1, <2>2, <2>3 DEF StopLast
<1> QED BY <1>1, <1>4, <1>6, <1>7, <1>8, <1>9, <1>10, <1>11 DEF a, t, b, m

\* The emulator executes the command in front, and answers it or does not.
LEMMA ExecuteFacts ==
    ASSUME NEW e \in Seq(ToServer), NEW s \in Seq(ToEmu), s # <<>>, FreshLast(e, s),
           NEW f,
           IF Mine(Head(s)) THEN f = Append(e, [kind |-> Head(s).kind, fresh |-> Head(s).fresh])
                            ELSE f = e
    PROVE  LET t == Tail(s) IN
           /\ f \in Seq(ToServer) /\ t \in Seq(ToEmu)
           /\ FreshLast(f, t)
           /\ \A i \in 1..Len(e) : ~(Mine(e[i]) /\ e[i].fresh)
           /\ \A i \in 1..Len(f) : Mine(f[i]) /\ f[i].fresh => f[i].kind = Head(s).kind
           /\ NoneWaits(e, s) => NoneWaits(f, t)
           /\ NoStale(e, s) => NoStale(f, t)
           /\ StaleStop(e, s) => StaleStop(f, t)
           /\ AllStop(e, s) => AllStop(f, t)
           /\ StopLast(e, s) => StopLast(f, t)
<1> DEFINE t == Tail(s)
           h == Head(s)
           m == [kind |-> h.kind, fresh |-> h.fresh]
           n == Len(e)
<1>1. /\ t \in Seq(ToEmu) /\ Len(t) = Len(s) - 1 /\ Len(s) \in Nat /\ Len(s) >= 1
      /\ h = s[1] /\ h \in ToEmu /\ n \in Nat
      /\ \A i \in 1..(Len(s) - 1) : t[i] = s[i + 1]
  BY TailQueue
<1>2. /\ \A i \in 1..Len(t) : i + 1 \in 1..Len(s) /\ t[i] = s[i + 1]
      /\ 1 \in 1..Len(s)
  BY <1>1
<1>3. Mine(h) => m \in ToServer /\ m.kind = h.kind /\ m.fresh = h.fresh
  BY <1>1 DEF ToServer, ToEmu, Message, Mine
<1> HIDE DEF t, h, m
<1>4. \A i \in 1..n : ~(Mine(e[i]) /\ e[i].fresh)
  <2>1. Len(s) # 0
    BY <1>1
  <2> QED BY <2>1 DEF FreshLast
<1>5. h.fresh => Len(t) = 0
  <2>1. s[1].fresh => 1 = Len(s)
    BY <1>2 DEF FreshLast
  <2> QED BY <1>1, <2>1
<1>6. \A i \in 1..Len(t) : t[i].fresh => i = Len(t)
  <2> SUFFICES ASSUME NEW i \in 1..Len(t), t[i].fresh PROVE i = Len(t)
    OBVIOUS
  <2>1. s[i + 1].fresh /\ i + 1 \in 1..Len(s)
    BY <1>2
  <2>2. i + 1 = Len(s)
    BY <2>1 DEF FreshLast
  <2>3. i \in Nat
    BY <1>1
  <2> QED BY <1>1, <2>2, <2>3
<1>7. CASE Mine(h)
  <2>1. f = Append(e, m)
    BY <1>7 DEF h, m
  <2>2. /\ f \in Seq(ToServer) /\ Len(f) = n + 1 /\ f[n + 1] = m
        /\ \A i \in 1..n : f[i] = e[i]
    BY <1>3, <1>7, <2>1, AppendQueue
  <2>3. \A i \in 1..Len(f) : (i \in 1..n /\ f[i] = e[i]) \/ (i = n + 1 /\ f[i] = m)
    BY <1>1, <2>2
  <2> HIDE DEF n
  <2>4. m.kind = h.kind /\ m.fresh = h.fresh
    BY <1>3, <1>7
  <2>5. FreshLast(f, t)
    <3>1. ASSUME NEW i \in 1..Len(f), f[i].fresh, Mine(f[i])
          PROVE  Len(t) = 0 /\ \A j \in 1..Len(f) : i < j => ~Mine(f[j])
      <4>1. i = n + 1 /\ f[i] = m
        BY <1>4, <2>3, <3>1 DEF n
      <4>2. Len(t) = 0
        BY <1>5, <2>4, <3>1, <4>1
      <4> QED BY <1>1, <2>2, <4>1, <4>2
    <3> QED BY <1>6, <3>1 DEF FreshLast
  <2>6. \A i \in 1..Len(f) : Mine(f[i]) /\ f[i].fresh => f[i].kind = h.kind
    BY <1>4, <2>3, <2>4 DEF n
  <2>7. NoneWaits(e, s) => NoneWaits(f, t)
    BY <1>1, <1>2, <1>7 DEF NoneWaits
  <2>8. NoStale(e, s) => NoStale(f, t)
    BY <1>1, <1>2, <1>7, <2>3, <2>4 DEF NoStale, n
  <2>9. StaleStop(e, s) => StaleStop(f, t)
    BY <1>1, <1>2, <2>3, <2>4 DEF StaleStop, Other, n
  <2>10. AllStop(e, s) => AllStop(f, t)
    BY <1>1, <1>2, <2>3, <2>4 DEF AllStop, Other, n
  <2>11. StopLast(e, s) => StopLast(f, t)
    <3> SUFFICES ASSUME StopLast(e, s) PROVE StopLast(f, t)
      OBVIOUS
    <3>1. ASSUME NEW i \in 1..Len(f), NEW j \in 1..Len(f), i < j, f[i].kind = "stop"
          PROVE  ~Other(f[j])
      <4>1. i \in 1..n /\ f[i] = e[i]
        BY <1>1, <2>2, <2>3, <3>1 DEF n
      <4>2. CASE j \in 1..n /\ f[j] = e[j]
        BY <3>1, <4>1, <4>2 DEF StopLast, n
      <4>3. CASE f[j] = m
        BY <1>1, <1>2, <2>4, <3>1, <4>1, <4>3 DEF StopLast, Other, n
      <4> QED BY <2>3, <4>2, <4>3
    <3>2. ASSUME NEW i \in 1..Len(f), NEW j \in 1..Len(t), f[i].kind = "stop"
          PROVE  ~Other(t[j])
      <4>0. t[j] = s[j + 1] /\ j + 1 \in 1..Len(s) /\ 1 \in 1..Len(s) /\ 1 < j + 1
        BY <1>1, <1>2
      <4>1. CASE i \in 1..n /\ f[i] = e[i]
        BY <3>2, <4>0, <4>1 DEF StopLast, n
      <4>2. CASE f[i] = m
        <5>1. s[1].kind = "stop"
          BY <1>1, <2>4, <3>2, <4>2
        <5> QED BY <4>0, <5>1 DEF StopLast
      <4> QED BY <2>3, <4>1, <4>2
    <3>3. ASSUME NEW i \in 1..Len(t), NEW j \in 1..Len(t), i < j, t[i].kind = "stop"
          PROVE  ~Other(t[j])
      <4>1. t[i] = s[i + 1] /\ t[j] = s[j + 1] /\ i + 1 \in 1..Len(s) /\ j + 1 \in 1..Len(s)
            /\ i + 1 < j + 1
        BY <1>2, <3>3
      <4> QED BY <3>3, <4>1 DEF StopLast
    <3> QED BY <3>1, <3>2, <3>3 DEF StopLast
  <2> QED BY <1>1, <1>4, <2>2, <2>5, <2>6, <2>7, <2>8, <2>9, <2>10, <2>11 DEF t, h, n
<1>8. CASE ~Mine(h)
  <2>1. f = e
    BY <1>8 DEF h
  <2>2. FreshLast(f, t)
    BY <1>4, <1>6, <2>1 DEF FreshLast, n
  <2>3. NoneWaits(e, s) => NoneWaits(f, t)
    BY <1>2, <2>1 DEF NoneWaits
  <2>4. NoStale(e, s) => NoStale(f, t)
    BY <1>2, <2>1 DEF NoStale
  <2>5. StaleStop(e, s) => StaleStop(f, t)
    BY <1>2, <2>1 DEF StaleStop
  <2>6. AllStop(e, s) => AllStop(f, t)
    BY <1>2, <2>1 DEF AllStop
  <2>7. StopLast(e, s) => StopLast(f, t)
    <3> SUFFICES ASSUME StopLast(e, s) PROVE StopLast(f, t)
      OBVIOUS
    <3>1. ASSUME NEW i \in 1..Len(f), NEW j \in 1..Len(t), f[i].kind = "stop"
          PROVE  ~Other(t[j])
      BY <1>2, <2>1, <3>1 DEF StopLast
    <3>2. ASSUME NEW i \in 1..Len(t), NEW j \in 1..Len(t), i < j, t[i].kind = "stop"
          PROVE  ~Other(t[j])
      <4>1. t[i] = s[i + 1] /\ t[j] = s[j + 1] /\ i + 1 \in 1..Len(s) /\ j + 1 \in 1..Len(s)
            /\ i + 1 < j + 1
        BY <1>2, <3>2
      <4> QED BY <3>2, <4>1 DEF StopLast
    <3> QED BY <2>1, <3>1, <3>2 DEF StopLast
  <2> QED BY <1>1, <1>4, <2>1, <2>2, <2>3, <2>4, <2>5, <2>6, <2>7 DEF t, h, n
<1> QED BY <1>7, <1>8

\* A breakpoint is reported.
LEMMA BreakFacts ==
    ASSUME NEW e \in Seq(ToServer), NEW s \in Seq(ToEmu), FreshLast(e, s)
    PROVE  LET f == Append(e, [kind |-> "break", fresh |-> TRUE]) IN
           /\ f \in Seq(ToServer)
           /\ FreshLast(f, s)
           /\ \A i \in 1..Len(f) : Mine(f[i]) => i \in 1..Len(e) /\ f[i] = e[i]
           /\ NoneWaits(e, s) => NoneWaits(f, s)
           /\ NoStale(e, s) => NoStale(f, s)
           /\ StaleStop(e, s) => StaleStop(f, s)
           /\ AllStop(e, s) => AllStop(f, s)
           /\ StopLast(e, s) => StopLast(f, s)
<1> DEFINE m == [kind |-> "break", fresh |-> TRUE]
           f == Append(e, m)
           n == Len(e)
<1>1. m \in ToServer /\ m.kind = "break"
  BY DEF ToServer, Message
<1>2. ~Mine(m) /\ ~Other(m) /\ m.kind # "stop"
  BY <1>1, KindFacts DEF Mine, Other
<1> HIDE DEF m
<1>3. /\ f \in Seq(ToServer) /\ Len(f) = n + 1 /\ f[n + 1] = m /\ n \in Nat
      /\ \A i \in 1..n : f[i] = e[i]
  BY <1>1, AppendQueue
<1> HIDE DEF f
<1>4. \A i \in 1..Len(f) : (i \in 1..Len(e) /\ f[i] = e[i]) \/ f[i] = m
  BY <1>3
<1>5. FreshLast(f, s)
  BY <1>2, <1>4 DEF FreshLast
<1>6. NoneWaits(e, s) => NoneWaits(f, s)
  BY <1>2, <1>4 DEF NoneWaits
<1>7. NoStale(e, s) => NoStale(f, s)
  BY <1>2, <1>4 DEF NoStale
<1>8. StaleStop(e, s) => StaleStop(f, s)
  BY <1>2, <1>4 DEF StaleStop
<1>9. AllStop(e, s) => AllStop(f, s)
  BY <1>2, <1>4 DEF AllStop
<1>10. StopLast(e, s) => StopLast(f, s)
  BY <1>2, <1>4 DEF StopLast
<1> QED BY <1>2, <1>3, <1>4, <1>5, <1>6, <1>7, <1>8, <1>9, <1>10 DEF f, m

\* The server takes the front.
LEMMA TakeFacts ==
    ASSUME NEW e \in Seq(ToServer), NEW s \in Seq(ToEmu), FreshLast(e, s), e # <<>>
    PROVE  LET f == Tail(e) IN
           /\ f \in Seq(ToServer) /\ Head(e) = e[1] /\ 1 \in 1..Len(e)
           /\ FreshLast(f, s)
           /\ \A i \in 1..Len(f) : i + 1 \in 1..Len(e) /\ f[i] = e[i + 1]
           /\ NoneWaits(e, s) => NoneWaits(f, s)
           /\ NoStale(e, s) => NoStale(f, s)
           /\ StaleStop(e, s) => StaleStop(f, s)
           /\ AllStop(e, s) => AllStop(f, s)
           /\ StopLast(e, s) => StopLast(f, s)
           /\ Head(e).fresh /\ Mine(Head(e)) => NoneWaits(f, s)
           /\ StopLast(e, s) /\ Head(e).kind = "stop" => AllStop(f, s)
<1> DEFINE f == Tail(e)
           n == Len(e)
<1>1. /\ f \in Seq(ToServer) /\ Len(f) = n - 1 /\ n \in Nat /\ n >= 1 /\ Head(e) = e[1]
      /\ \A i \in 1..(n - 1) : f[i] = e[i + 1]
  BY TailQueue
<1> HIDE DEF f
<1>2. /\ 1 \in 1..Len(e)
      /\ \A i \in 1..Len(f) : i + 1 \in 1..Len(e) /\ f[i] = e[i + 1] /\ 1 < i + 1
  BY <1>1
<1>3. FreshLast(f, s)
  <2>1. ASSUME NEW i \in 1..Len(f), f[i].fresh, Mine(f[i])
        PROVE  Len(s) = 0 /\ \A j \in 1..Len(f) : i < j => ~Mine(f[j])
    <3>1. i + 1 \in 1..Len(e) /\ e[i + 1].fresh /\ Mine(e[i + 1])
      BY <1>2, <2>1
    <3>2. Len(s) = 0 /\ \A j \in 1..Len(e) : i + 1 < j => ~Mine(e[j])
      BY <3>1 DEF FreshLast
    <3>3. ASSUME NEW j \in 1..Len(f), i < j PROVE ~Mine(f[j])
      <4>1. j + 1 \in 1..Len(e) /\ f[j] = e[j + 1] /\ i + 1 < j + 1
        BY <1>2, <3>3
      <4> QED BY <3>2, <4>1
    <3> QED BY <3>2, <3>3
  <2> QED BY <2>1 DEF FreshLast
<1>4. NoneWaits(e, s) => NoneWaits(f, s)
  BY <1>2 DEF NoneWaits
<1>5. NoStale(e, s) => NoStale(f, s)
  BY <1>2 DEF NoStale
<1>6. StaleStop(e, s) => StaleStop(f, s)
  BY <1>2 DEF StaleStop
<1>7. AllStop(e, s) => AllStop(f, s)
  BY <1>2 DEF AllStop
<1>8. StopLast(e, s) => StopLast(f, s)
  <2> SUFFICES ASSUME StopLast(e, s) PROVE StopLast(f, s)
    OBVIOUS
  <2>1. ASSUME NEW i \in 1..Len(f), NEW j \in 1..Len(f), i < j, f[i].kind = "stop"
        PROVE  ~Other(f[j])
    <3>1. f[i] = e[i + 1] /\ f[j] = e[j + 1] /\ i + 1 \in 1..Len(e) /\ j + 1 \in 1..Len(e)
          /\ i + 1 < j + 1
      BY <1>2, <2>1
    <3> QED BY <2>1, <3>1 DEF StopLast
  <2>2. ASSUME NEW i \in 1..Len(f), NEW j \in 1..Len(s), f[i].kind = "stop"
        PROVE  ~Other(s[j])
    BY <1>2, <2>2 DEF StopLast
  <2> QED BY <2>1, <2>2 DEF StopLast
<1>9. Head(e).fresh /\ Mine(Head(e)) => NoneWaits(f, s)
  <2> SUFFICES ASSUME e[1].fresh, Mine(e[1]) PROVE NoneWaits(f, s)
    BY <1>1
  <2>1. Len(s) = 0 /\ \A j \in 1..Len(e) : 1 < j => ~Mine(e[j])
    BY <1>2 DEF FreshLast
  <2> QED BY <1>2, <2>1 DEF NoneWaits
<1>10. StopLast(e, s) /\ Head(e).kind = "stop" => AllStop(f, s)
  <2> SUFFICES ASSUME StopLast(e, s), e[1].kind = "stop" PROVE AllStop(f, s)
    BY <1>1
  <2>1. \A j \in 1..Len(e) : 1 < j => ~Other(e[j])
    BY <1>2 DEF StopLast
  <2>2. \A j \in 1..Len(s) : ~Other(s[j])
    BY <1>2 DEF StopLast
  <2> QED BY <1>2, <2>1, <2>2 DEF AllStop
<1> QED BY <1>1, <1>2, <1>3, <1>4, <1>5, <1>6, <1>7, <1>8, <1>9, <1>10 DEF f

(***************************************************************************)
(* The invariant.                                                          *)
(***************************************************************************)
Between == {"none", "outer", "accept", "greet", "leave", "gone"}
Talking == {"poll", "data", "emu_commands", "drain"}

\* What may be left in the queues while the thread is at a place and waits for what
\* back says, after l broken connections.
Clean(e, s, at, back, l) ==
    /\ l = 0 => NoStale(e, s) /\ (at \notin Waiting => NoneWaits(e, s))
    /\ at \in Between \/ (at \in Waiting /\ back = "hello") => StopLast(e, s)
    /\ at \in Talking \/ (at \in Waiting /\ back = "ctrl_c") => AllStop(e, s)
    /\ at \in Waiting /\ back = "data" => StaleStop(e, s)

\* The thread was not told to stop, or did not look yet.
GoesOn == stop => srv.at \in {"wait", "asleep"}

WaitsFor ==
    srv.at \in Waiting =>
        \/ srv.back = "data" /\ srv.want \in Requests
        \/ srv.back \in {"hello", "ctrl_c"} /\ srv.want = "stop"

Hello == srv.at \in Waiting /\ srv.back = "hello"

\* The emulator stays stopped once it executed the command of the handshake.
HelloInv ==
    /\ srv.at = "greet" /\ ~stop => open
    /\ Hello /\ GoesOn =>
          /\ open
          /\ \A i \in 1..Len(e2s) : e2s[i].kind = "stop" /\ e2s[i].fresh => stopped

CleanInv == GoesOn /\ losses <= 1 => Clean(e2s, s2e, srv.at, srv.back, losses)

Inv ==
    /\ TypeOK /\ FreshLast(e2s, s2e)
    /\ WaitsFor /\ CleanInv /\ HelloInv

LEMMA PlaceFacts ==
    ASSUME NEW p \in Places
    PROVE  At(p) \in SrvType /\ At(p).at = p /\ At(p).back = "none"
<1>1. 0 \in 0..MaxBatch
  BY ServerAssumption
<1> DEFINE zero == 0
<1>2. zero \in 0..MaxBatch
  BY <1>1
<1>3. At(p) = [at |-> p, want |-> "none", back |-> "none", batch |-> zero]
  BY DEF At
<1> HIDE DEF zero
<1> QED BY <1>2, <1>3 DEF SrvType, Backs

LEMMA DataFacts ==
    ASSUME NEW b \in 0..MaxBatch
    PROVE  Data(b) \in SrvType /\ Data(b).at = "data" /\ Data(b).back = "none"
  BY DEF Data, SrvType, Backs, Places

LEMMA AwaitFacts ==
    ASSUME NEW w \in Answered, NEW k \in Backs, NEW b \in 0..MaxBatch
    PROVE  /\ Await(w, k, b) \in SrvType /\ Await(w, k, b).at = "await"
           /\ Await(w, k, b).back = k /\ Await(w, k, b).want = w
  BY DEF Await, SrvType, Places, Waiting

LEMMA MoveFacts ==
    ASSUME NEW r \in SrvType, NEW p \in Places
    PROVE  /\ [r EXCEPT !.at = p] \in SrvType /\ [r EXCEPT !.at = p].at = p
           /\ [r EXCEPT !.at = p].want = r.want /\ [r EXCEPT !.at = p].back = r.back
  BY DEF SrvType

\* The thread is talking to a client, between two clients, or waiting for an answer.
LEMMA PlacesAre ==
    /\ \A p \in Places : p \in Between \/ p \in Talking \/ p \in Waiting
    /\ \A p \in Between : p \in Places /\ p \notin Waiting /\ p \notin Talking
    /\ \A p \in Talking : p \in Places /\ p \notin Waiting /\ p \notin Between
    /\ \A p \in Waiting : p \in Places
    /\ {"wait", "asleep", "await"} \subseteq Waiting
    /\ "greet" \in Between
  BY DEF Places, Between, Talking, Waiting

EmuPlaces == {"loop", "async", "run", "signal", "ui", "start", "exit"} \cup Joining

LEMMA TypeIs ==
    TypeOK <=>
      /\ emu \in EmuPlaces
      /\ srv \in SrvType
      /\ stop \in BOOLEAN /\ open \in BOOLEAN /\ running \in BOOLEAN
      /\ s2e \in Seq(ToEmu) /\ e2s \in Seq(ToServer)
      /\ stopped \in BOOLEAN /\ losses \in 0..MaxLosses
      /\ fate \in {"alive", "terminated", "undefined"}
  BY DEF TypeOK, EmuPlaces, SrvType, ToEmu, ToServer, Places, Backs

LEMMA TypeIsNext ==
    TypeOK' <=>
      /\ emu' \in EmuPlaces
      /\ srv' \in SrvType
      /\ stop' \in BOOLEAN /\ open' \in BOOLEAN /\ running' \in BOOLEAN
      /\ s2e' \in Seq(ToEmu) /\ e2s' \in Seq(ToServer)
      /\ stopped' \in BOOLEAN /\ losses' \in 0..MaxLosses
      /\ fate' \in {"alive", "terminated", "undefined"}
  BY DEF TypeOK, EmuPlaces, SrvType, ToEmu, ToServer, Places, Backs

LEMMA SrvFacts ==
    ASSUME TypeOK
    PROVE  srv.at \in Places /\ srv.want \in Answered \cup {"none"} /\ srv.back \in Backs
           /\ srv.batch \in 0..MaxBatch
  BY TypeIs DEF SrvType

\* A thread that waits for nothing goes on while it is not told to stop.
LEMMA GoesOnIs ==
    /\ srv.at \notin Waiting => (GoesOn <=> ~stop)
    /\ srv.at = "await" => (GoesOn <=> ~stop)
    /\ srv.at \in {"wait", "asleep"} => GoesOn
    /\ ~stop => GoesOn
  BY DEF GoesOn, Waiting

LEMMA GoesOnIsNext ==
    /\ srv'.at \notin Waiting => (GoesOn' <=> ~stop')
    /\ srv'.at = "await" => (GoesOn' <=> ~stop')
    /\ srv'.at \in {"wait", "asleep"} => GoesOn'
    /\ ~stop' => GoesOn'
  BY DEF GoesOn, Waiting

\* What is in empty queues.
LEMMA NothingLeft ==
    ASSUME NEW at, NEW back, NEW l
    PROVE  FreshLast(<<>>, <<>>) /\ NoneWaits(<<>>, <<>>) /\ Clean(<<>>, <<>>, at, back, l)
<1>1. \A i \in 1..Len(<<>>) : FALSE
  BY EmptyQueue
<1>2. FreshLast(<<>>, <<>>) /\ NoneWaits(<<>>, <<>>) /\ NoStale(<<>>, <<>>)
      /\ StaleStop(<<>>, <<>>) /\ AllStop(<<>>, <<>>) /\ StopLast(<<>>, <<>>)
  BY <1>1 DEF FreshLast, NoneWaits, NoStale, StaleStop, AllStop, StopLast
<1> QED BY <1>2 DEF Clean

LEMMA InitInv == Init => Inv
<1> SUFFICES ASSUME Init PROVE Inv
  OBVIOUS
<1>1. "none" \in Places /\ "none" \notin Waiting /\ "none" # "greet"
  BY DEF Places, Waiting
<1>2. srv \in SrvType /\ srv.at = "none"
  BY <1>1, PlaceFacts DEF Init
<1>3. s2e = <<>> /\ e2s = <<>> /\ fate = "alive" /\ losses = 0
  BY DEF Init
<1>4. losses \in 0..MaxLosses
  BY <1>3, ServerAssumption
<1>5. s2e \in Seq(ToEmu) /\ e2s \in Seq(ToServer)
  BY <1>3, EmptyQueue
<1>6. stop \in BOOLEAN /\ open \in BOOLEAN /\ running \in BOOLEAN /\ stopped \in BOOLEAN
  BY DEF Init
<1>7. emu \in EmuPlaces /\ fate \in {"alive", "terminated", "undefined"}
  BY DEF Init, EmuPlaces
<1>8. TypeOK
  BY <1>2, <1>4, <1>5, <1>6, <1>7, TypeIs
<1>9. FreshLast(e2s, s2e) /\ CleanInv
  BY <1>3, NothingLeft DEF CleanInv
<1>10. WaitsFor /\ HelloInv
  BY <1>1, <1>2 DEF WaitsFor, HelloInv, Hello
<1> QED BY <1>8, <1>9, <1>10 DEF Inv

(***************************************************************************)
(* The server thread: steps that leave the queues alone.                   *)
(***************************************************************************)
\* The thread waits for nothing before and after the step.
LEMMA Walk ==
    ASSUME Inv, fate = "alive", srv.at \notin Waiting,
           srv' \in SrvType, srv'.at \notin Waiting,
           srv'.at \in Between \/ (srv'.at \in Talking /\ srv.at \in Talking),
           open' \in BOOLEAN, srv'.at = "greet" /\ ~stop => open',
           losses' \in 0..MaxLosses, losses' = losses \/ losses' = losses + 1,
           UNCHANGED <<emu, stop, running, s2e, e2s, stopped, fate>>
    PROVE  Inv'
<1>1. TypeOK' /\ FreshLast(e2s, s2e)'
  BY TypeIs, TypeIsNext DEF Inv
<1>2. srv.at \in Places /\ losses \in Nat
  BY SrvFacts, TypeIs, ServerAssumption DEF Inv
<1>3. CleanInv'
  <2> SUFFICES ASSUME GoesOn', losses' <= 1
               PROVE  Clean(e2s, s2e, srv'.at, srv'.back, losses')
    BY DEF CleanInv
  <2>1. GoesOn
    BY GoesOnIs, GoesOnIsNext
  <2>2. losses <= 1 /\ (losses' = 0 => losses = 0)
    BY <1>2
  <2>3. Clean(e2s, s2e, srv.at, srv.back, losses)
    BY <2>1, <2>2 DEF Inv, CleanInv
  <2>4. losses' = 0 => NoneWaits(e2s, s2e) /\ NoStale(e2s, s2e)
    BY <2>2, <2>3 DEF Clean
  <2>5. srv.at \in Talking => AllStop(e2s, s2e)
    BY <2>3 DEF Clean
  <2>6. StopLast(e2s, s2e)
    <3>1. CASE srv.at \in Talking
      BY <2>5, <3>1, Implications
    <3>2. CASE srv.at \in Between
      BY <2>3, <3>2 DEF Clean
    <3> QED BY <1>2, <3>1, <3>2, PlacesAre
  <2> QED BY <2>4, <2>5, <2>6, PlacesAre DEF Clean
<1>4. WaitsFor' /\ HelloInv'
  BY PlacesAre DEF Inv, WaitsFor, HelloInv, Hello
<1> QED BY <1>1, <1>3, <1>4 DEF Inv

\* The thread waits for the same before and after the step.
LEMMA Stay ==
    ASSUME Inv, srv.at \in Waiting,
           srv' \in SrvType, srv'.at \in Waiting, srv'.want = srv.want, srv'.back = srv.back,
           GoesOn' => GoesOn,
           fate' \in {"alive", "terminated", "undefined"},
           UNCHANGED <<emu, stop, open, running, s2e, e2s, stopped, losses>>
    PROVE  Inv'
<1>1. TypeOK' /\ FreshLast(e2s, s2e)'
  BY TypeIs, TypeIsNext DEF Inv
<1>2. CleanInv'
  <2> SUFFICES ASSUME GoesOn', losses <= 1
               PROVE  Clean(e2s, s2e, srv'.at, srv'.back, losses)
    BY DEF CleanInv
  <2>1. Clean(e2s, s2e, srv.at, srv.back, losses)
    BY DEF Inv, CleanInv
  <2> QED BY <2>1, PlacesAre DEF Clean
<1>3. WaitsFor'
  BY DEF Inv, WaitsFor
<1>4. srv'.at # "greet"
  BY PlacesAre
<1>5. HelloInv'
  <2> SUFFICES ASSUME Hello', GoesOn'
               PROVE  open /\ \A i \in 1..Len(e2s) : e2s[i].kind = "stop" /\ e2s[i].fresh => stopped
    BY <1>4 DEF HelloInv
  <2> QED BY DEF Inv, HelloInv, Hello
<1> QED BY <1>1, <1>2, <1>3, <1>5 DEF Inv

\* What sending a packet does to the number of broken connections.
LEMMA SentFacts ==
    ASSUME TypeOK, NEW ok \in BOOLEAN, Sent(ok)
    PROVE  /\ losses' \in 0..MaxLosses /\ losses \in Nat
           /\ ok => losses' = losses
           /\ ~ok => losses' = losses + 1
<1>1. losses \in Nat /\ losses <= MaxLosses /\ MaxLosses \in Nat
  BY TypeIs, ServerAssumption
<1>2. CASE ok /\ UNCHANGED losses
  BY <1>1, <1>2
<1>3. CASE ~ok /\ losses < MaxLosses /\ losses' = losses + 1
  BY <1>1, <1>3
<1> QED BY <1>2, <1>3 DEF Sent

LEMMA LossesKept ==
    ASSUME TypeOK, UNCHANGED losses
    PROVE  losses' \in 0..MaxLosses /\ (losses' = losses \/ losses' = losses + 1)
  BY TypeIs

\* A thread that is at a place, and goes to a place.
LEMMA GoTo ==
    ASSUME Inv, fate = "alive", NEW p \in Places, NEW q \in Places,
           p \notin Waiting, q \notin Waiting, q \in Between \/ (q \in Talking /\ p \in Talking),
           srv.at = p, srv' = At(q),
           open' \in BOOLEAN, q = "greet" /\ ~stop => open',
           losses' \in 0..MaxLosses, losses' = losses \/ losses' = losses + 1,
           UNCHANGED <<emu, stop, running, s2e, e2s, stopped, fate>>
    PROVE  Inv'
<1>1. srv' \in SrvType /\ srv'.at = q
  BY PlaceFacts
<1> QED BY <1>1, Walk

LEMMA OuterInv == ASSUME Inv, fate = "alive", Outer PROVE Inv'
<1> DEFINE q == IF stop THEN "leave" ELSE "accept"
<1>1. q \in Places /\ q \notin Waiting /\ q \in Between /\ q # "greet"
  BY DEF Places, Waiting, Between
<1>2. srv.at = "outer" /\ "outer" \in Places /\ "outer" \notin Waiting /\ srv' = At(q)
      /\ UNCHANGED <<emu, stop, open, running, s2e, e2s, stopped, losses, fate>>
  BY DEF Outer, Places, Waiting
<1>3. open' \in BOOLEAN
  BY <1>2, TypeIs DEF Inv
<1> HIDE DEF q
<1> QED BY <1>1, <1>2, <1>3, LossesKept, GoTo DEF Inv

LEMMA AcceptInv == ASSUME Inv, fate = "alive", Accept PROVE Inv'
<1>1. "greet" \in Places /\ "greet" \notin Waiting /\ "greet" \in Between
      /\ "accept" \in Places /\ "accept" \notin Waiting
  BY DEF Places, Waiting, Between
<1>2. open' = TRUE /\ open' \in BOOLEAN /\ losses' \in 0..MaxLosses
  BY TypeIs DEF Accept, Inv
<1> QED BY <1>1, <1>2, GoTo DEF Accept

LEMMA AcceptStoppedInv == ASSUME Inv, fate = "alive", AcceptStopped PROVE Inv'
<1>1. "greet" \in Places /\ "greet" \notin Waiting /\ "greet" \in Between
      /\ "accept" \in Places /\ "accept" \notin Waiting
  BY DEF Places, Waiting, Between
<1>2. open' \in BOOLEAN /\ losses' \in 0..MaxLosses
  BY TypeIs DEF AcceptStopped, Inv
<1> QED BY <1>1, <1>2, GoTo DEF AcceptStopped

LEMMA LeaveInv == ASSUME Inv, fate = "alive", Leave PROVE Inv'
<1>1. "gone" \in Places /\ "gone" \notin Waiting /\ "gone" \in Between /\ "gone" # "greet"
      /\ "leave" \in Places /\ "leave" \notin Waiting
  BY DEF Places, Waiting, Between
<1>2. open' \in BOOLEAN /\ losses' \in 0..MaxLosses
  BY TypeIs DEF Leave, Inv
<1> QED BY <1>1, <1>2, GoTo DEF Leave

LEMMA InnerFacts ==
    /\ Inner \in SrvType /\ (Inner.at = "poll" \/ Inner.at = "outer")
    /\ "poll" \in Talking /\ "outer" \in Between
<1>1. "poll" \in Places /\ "outer" \in Places
  BY DEF Places
<1> QED BY <1>1, PlaceFacts DEF Inner, Talking, Between

LEMMA PollInv == ASSUME Inv, fate = "alive", Poll PROVE Inv'
<1>1. "poll" \in Talking /\ "outer" \in Between /\ "emu_commands" \in Talking /\ "data" \in Talking
  BY DEF Talking, Between
<1>2. /\ "poll" \in Places /\ "poll" \notin Waiting /\ "outer" \in Places /\ "outer" \notin Waiting
      /\ "emu_commands" \in Places /\ "emu_commands" \notin Waiting /\ "data" \notin Waiting
  BY <1>1, PlacesAre
<1>3. srv.at = "poll" /\ UNCHANGED <<emu, stop, open, running, s2e, e2s, stopped, fate>>
  BY DEF Poll
<1>4. TypeOK /\ open' \in BOOLEAN
  BY <1>3, TypeIs DEF Inv
<1>5. CASE srv' = At("outer") /\ UNCHANGED losses
  BY <1>1, <1>2, <1>3, <1>4, <1>5, LossesKept, GoTo
<1>6. CASE srv' = At("emu_commands") /\ UNCHANGED losses
  BY <1>1, <1>2, <1>3, <1>4, <1>6, LossesKept, GoTo
<1>7. CASE Sent(FALSE) /\ srv' = At("outer")
  BY <1>1, <1>2, <1>3, <1>4, <1>7, SentFacts, GoTo
<1>8. CASE UNCHANGED losses /\ \E batch \in 1..MaxBatch : srv' = Data(batch)
  <2>1. PICK batch \in 1..MaxBatch : srv' = Data(batch)
    BY <1>8
  <2>2. batch \in 0..MaxBatch
    BY ServerAssumption
  <2>3. srv' \in SrvType /\ srv'.at = "data"
    BY <2>1, <2>2, DataFacts
  <2>4. losses' \in 0..MaxLosses /\ losses' = losses
    BY <1>4, <1>8, LossesKept
  <2> QED BY <1>1, <1>2, <1>3, <1>4, <2>3, <2>4, Walk
<1> QED BY <1>5, <1>6, <1>7, <1>8 DEF Poll

LEMMA PacketsEndInv == ASSUME Inv, fate = "alive", PacketsEnd PROVE Inv'
<1> DEFINE q == IF open THEN "emu_commands" ELSE "outer"
<1>1. q \in Places /\ q \notin Waiting /\ (q \in Between \/ q \in Talking) /\ q # "greet"
  BY DEF Places, Waiting, Between, Talking
<1>2. srv.at = "data" /\ "data" \in Places /\ "data" \notin Waiting /\ "data" \in Talking /\ srv' = At(q)
      /\ UNCHANGED <<emu, stop, open, running, s2e, e2s, stopped, losses, fate>>
  BY DEF PacketsEnd, Places, Waiting, Talking
<1>3. open' \in BOOLEAN
  BY <1>2, TypeIs DEF Inv
<1> HIDE DEF q
<1> QED BY <1>1, <1>2, <1>3, LossesKept, GoTo DEF Inv

LEMMA DataPlace ==
    /\ "data" \in Places /\ "data" \notin Waiting /\ "data" \in Talking /\ "data" \notin Between
    /\ "outer" \in Places /\ "outer" \notin Waiting /\ "outer" \in Between /\ "outer" \notin Talking
  BY DEF Places, Waiting, Talking, Between

LEMMA SendAckFailsInv == ASSUME Inv, fate = "alive", SendAckFails PROVE Inv'
<1>1. TypeOK /\ srv.at = "data" /\ open' \in BOOLEAN
  BY TypeIs DEF SendAckFails, HasPacket, Inv
<1>2. losses' \in 0..MaxLosses /\ losses' = losses + 1
  BY <1>1, SentFacts DEF SendAckFails
<1> QED BY <1>1, <1>2, DataPlace, GoTo DEF SendAckFails

LEMMA NextBatch ==
    ASSUME TypeOK, HasPacket
    PROVE  /\ srv.at = "data" /\ ~stop /\ open
           /\ srv.batch - 1 \in 0..MaxBatch
           /\ Data(srv.batch - 1) \in SrvType /\ Data(srv.batch - 1).at = "data"
<1>1. srv.batch \in 0..MaxBatch /\ srv.batch > 0
  BY SrvFacts DEF HasPacket
<1>2. srv.batch - 1 \in 0..MaxBatch
  BY <1>1, ServerAssumption
<1> QED BY <1>2, DataFacts DEF HasPacket

LEMMA HandleQueryInv == ASSUME Inv, fate = "alive", HandleQuery PROVE Inv'
<1>1. srv.at = "data" /\ srv' \in SrvType /\ srv'.at = "data"
  BY NextBatch DEF HandleQuery, Inv
<1>2. open' \in BOOLEAN /\ losses' \in 0..MaxLosses
  BY TypeIs DEF HandleQuery, Inv
<1> QED BY <1>1, <1>2, DataPlace, Walk DEF HandleQuery

LEMMA HandleDetachInv == ASSUME Inv, fate = "alive", HandleDetach PROVE Inv'
<1>1. srv.at = "data" /\ srv' \in SrvType /\ srv'.at = "data"
  BY NextBatch DEF HandleDetach, Inv
<1>2. open' \in BOOLEAN /\ losses' \in 0..MaxLosses
  BY TypeIs DEF HandleDetach, Inv
<1> QED BY <1>1, <1>2, DataPlace, Walk DEF HandleDetach

LEMMA HandleEmuCommandsInv == ASSUME Inv, fate = "alive", HandleEmuCommands PROVE Inv'
<1>1. "emu_commands" \in Talking /\ "drain" \in Talking
  BY DEF Talking
<1>2. open' \in BOOLEAN /\ losses' \in 0..MaxLosses
  BY TypeIs DEF HandleEmuCommands, Inv
<1>3. srv' \in SrvType /\ (srv'.at = "drain" \/ srv'.at = "poll" \/ srv'.at = "outer")
  <2>1. At("drain") \in SrvType /\ At("drain").at = "drain"
    BY <1>1, PlaceFacts, PlacesAre
  <2> QED BY <2>1, InnerFacts DEF HandleEmuCommands
<1>4. srv'.at \in Between \/ srv'.at \in Talking
  BY <1>1, <1>3, InnerFacts
<1>5. srv'.at \notin Waiting /\ srv'.at # "greet"
  BY <1>3, <1>4, PlacesAre
<1> QED BY <1>1, <1>2, <1>3, <1>4, <1>5, PlacesAre, Walk DEF HandleEmuCommands

LEMMA AwaitCheckInv == ASSUME Inv, fate = "alive", AwaitCheck PROVE Inv'
<1>1. srv.at = "await" /\ UNCHANGED <<emu, stop, open, running, s2e, e2s, stopped, losses, fate>>
  BY DEF AwaitCheck
<1>2. srv \in SrvType /\ stop \in BOOLEAN /\ "wait" \in Places /\ "wait" \in Waiting /\ "await" \in Waiting
  BY TypeIs, PlacesAre DEF Inv
<1>3. CASE ~stop
  <2>1. srv' = [srv EXCEPT !.at = "wait"]
    BY <1>3 DEF AwaitCheck
  <2>2. srv' \in SrvType /\ srv'.at = "wait" /\ srv'.want = srv.want /\ srv'.back = srv.back
    BY <1>2, <2>1, MoveFacts
  <2>3. GoesOn /\ fate' \in {"alive", "terminated", "undefined"}
    BY <1>1, <1>3, GoesOnIs
  <2> QED BY <1>1, <1>2, <1>3, <2>2, <2>3, Stay
<1>4. CASE stop
  <2>1. srv' = At("leave") \/ srv' = At("emu_commands")
    <3>1. CASE srv.back = "hello"
      BY <1>4, <3>1 DEF AwaitCheck
    <3>2. CASE srv.back # "hello"
      BY <1>4, <3>2 DEF AwaitCheck
    <3> QED BY <3>1, <3>2
  <2>2. "leave" \in Places /\ "emu_commands" \in Places
    BY DEF Places
  <2>3. srv' \in SrvType /\ (srv'.at = "leave" \/ srv'.at = "emu_commands")
    BY <2>1, <2>2, PlaceFacts
  <2>4. srv'.at \notin Waiting /\ srv'.at # "greet"
    BY <2>3 DEF Waiting
  <2>5. ~GoesOn'
    BY <1>1, <1>4, <2>4, GoesOnIsNext
  <2>6. TypeOK' /\ FreshLast(e2s, s2e)'
    BY <1>1, <2>3, TypeIs, TypeIsNext DEF Inv
  <2>7. WaitsFor' /\ CleanInv' /\ HelloInv'
    BY <2>4, <2>5 DEF WaitsFor, CleanInv, HelloInv
  <2> QED BY <2>6, <2>7 DEF Inv
<1> QED BY <1>2, <1>3, <1>4

LEMMA AwaitEmptyInv == ASSUME Inv, fate = "alive", AwaitEmpty PROVE Inv'
<1>1. srv.at = "wait" /\ UNCHANGED <<emu, stop, open, running, s2e, e2s, stopped, losses>>
  BY DEF AwaitEmpty
<1>2. srv \in SrvType /\ "wait" \in Waiting /\ "asleep" \in Waiting /\ "asleep" \in Places
  BY TypeIs, PlacesAre DEF Inv
<1>3. GoesOn
  BY <1>1, GoesOnIs
<1>4. CASE stop /\ fate' = "undefined" /\ UNCHANGED srv
  BY <1>1, <1>2, <1>3, <1>4, Stay
<1>5. CASE ~stop /\ srv' = [srv EXCEPT !.at = "asleep"] /\ UNCHANGED fate
  <2>1. srv' \in SrvType /\ srv'.at = "asleep" /\ srv'.want = srv.want /\ srv'.back = srv.back
    BY <1>2, <1>5, MoveFacts
  <2>2. fate' \in {"alive", "terminated", "undefined"}
    BY <1>5
  <2> QED BY <1>1, <1>2, <1>3, <1>5, <2>1, <2>2, Stay
<1> QED BY <1>4, <1>5 DEF AwaitEmpty

LEMMA SpuriousWakeUpInv == ASSUME Inv, fate = "alive", SpuriousWakeUp PROVE Inv'
<1>1. srv.at = "asleep" /\ UNCHANGED <<emu, stop, open, running, s2e, e2s, stopped, losses, fate>>
  BY DEF SpuriousWakeUp
<1>2. srv \in SrvType /\ "wait" \in Waiting /\ "asleep" \in Waiting /\ "wait" \in Places
  BY TypeIs, PlacesAre DEF Inv
<1>3. GoesOn
  BY <1>1, GoesOnIs
<1>4. srv' \in SrvType /\ srv'.at = "wait" /\ srv'.want = srv.want /\ srv'.back = srv.back
  BY <1>2, MoveFacts DEF SpuriousWakeUp
<1>5. fate' \in {"alive", "terminated", "undefined"}
  BY <1>1
<1> QED BY <1>1, <1>2, <1>3, <1>4, <1>5, Stay

(***************************************************************************)
(* The server thread: steps that ask and steps that take an answer.        *)
(***************************************************************************)
\* The thread asks for something, and waits for the answer or goes on.
LEMMA Ask ==
    ASSUME Inv, fate = "alive", srv.at \notin Waiting,
           NEW kind \in Commands, PushServerToEmuCommand(kind),
           srv' \in SrvType,
           \/ /\ srv.at = "greet" /\ kind = "stop"
              /\ srv'.at = "await" /\ srv'.back = "hello" /\ srv'.want = "stop"
              /\ losses' = losses
           \/ /\ srv.at = "data" /\ kind = "stop"
              /\ srv'.at = "await" /\ srv'.back = "ctrl_c" /\ srv'.want = "stop"
              /\ losses' = losses
           \/ /\ srv.at = "data" /\ kind \in Requests
              /\ srv'.at = "await" /\ srv'.back = "data" /\ srv'.want = kind
              /\ losses' = losses
           \/ /\ srv.at = "data" /\ kind \notin Answered
              /\ srv'.at = "data" \/ srv'.at = "outer"
              /\ losses' = losses \/ losses' = losses + 1,
           losses' \in 0..MaxLosses,
           UNCHANGED <<emu, stop, open, running, stopped, fate>>
    PROVE  Inv'
<1> DEFINE m == [kind |-> kind, fresh |-> TRUE]
<1>1. TypeOK /\ e2s \in Seq(ToServer) /\ s2e \in Seq(ToEmu) /\ losses \in Nat
  BY TypeIs, ServerAssumption DEF Inv
<1>2. e2s' = Aged(e2s) /\ s2e' = Append(Aged(s2e), m)
  BY DEF PushServerToEmuCommand
<1>3. /\ e2s' \in Seq(ToServer) /\ s2e' \in Seq(ToEmu)
      /\ FreshLast(e2s', s2e')
      /\ \A i \in 1..Len(e2s') : ~e2s'[i].fresh
      /\ NoneWaits(e2s, s2e) => NoStale(e2s', s2e')
      /\ NoneWaits(e2s, s2e) /\ kind \notin Answered => NoneWaits(e2s', s2e')
      /\ AllStop(e2s, s2e) => StaleStop(e2s', s2e')
      /\ AllStop(e2s, s2e) /\ kind \notin Requests => AllStop(e2s', s2e')
      /\ StopLast(e2s, s2e) /\ kind \notin Requests => StopLast(e2s', s2e')
  BY <1>1, <1>2, PushFacts
<1> HIDE DEF m
<1>4. TypeOK'
  BY <1>1, <1>3, TypeIs, TypeIsNext
<1>5. /\ "await" \in Waiting /\ "await" \notin Between /\ "await" \notin Talking
      /\ "greet" \in Between /\ "await" # "greet" /\ "await" \notin {"wait", "asleep"}
  BY DEF Waiting, Between, Talking
<1>6. ~(srv'.at \in {"wait", "asleep"}) /\ srv'.at # "greet"
  BY <1>5, DataPlace, PlacesAre
<1>7. GoesOn' => GoesOn /\ ~stop
  <2>1. srv'.at = "await" \/ srv'.at \notin Waiting
    BY DataPlace
  <2> QED BY <2>1, GoesOnIs, GoesOnIsNext
<1>8. WaitsFor'
  <2>1. srv'.at \in Waiting => srv'.at = "await"
    BY DataPlace
  <2> QED BY <2>1, DataPlace, <1>5 DEF WaitsFor
<1>9. HelloInv'
  <2> SUFFICES ASSUME Hello', GoesOn' PROVE open
    BY <1>3, <1>6 DEF HelloInv
  <2>1. srv.at = "greet"
    BY <1>5, DataPlace, KindFacts DEF Hello
  <2> QED BY <1>7, <2>1 DEF Inv, HelloInv
<1>10. CleanInv'
  <2> SUFFICES ASSUME GoesOn', losses' <= 1
               PROVE  Clean(e2s', s2e', srv'.at, srv'.back, losses')
    BY DEF CleanInv
  <2>1. losses <= 1 /\ (losses' = 0 => losses = 0)
    BY <1>1
  <2>2. Clean(e2s, s2e, srv.at, srv.back, losses)
    BY <1>7, <2>1 DEF Inv, CleanInv
  <2>3. losses = 0 => NoneWaits(e2s, s2e)
    BY <2>2 DEF Clean
  <2>4. "stop" \notin Requests /\ (kind \notin Answered => kind \notin Requests)
    BY KindFacts DEF Answered
  <2>5. CASE srv.at = "greet" /\ kind = "stop" /\ srv'.at = "await" /\ srv'.back = "hello"
    <3>1. StopLast(e2s', s2e')
      BY <1>3, <1>5, <2>2, <2>4, <2>5 DEF Clean
    <3> QED BY <1>3, <1>5, <2>1, <2>3, <2>5, <3>1 DEF Clean
  <2>6. CASE srv.at = "data" /\ kind = "stop" /\ srv'.at = "await" /\ srv'.back = "ctrl_c"
    <3>1. AllStop(e2s', s2e')
      BY <1>3, <2>2, <2>4, <2>6, DataPlace DEF Clean
    <3> QED BY <1>3, <1>5, <2>1, <2>3, <2>6, <3>1 DEF Clean
  <2>7. CASE srv.at = "data" /\ kind \in Requests /\ srv'.at = "await" /\ srv'.back = "data"
    <3>1. StaleStop(e2s', s2e')
      BY <1>3, <2>2, <2>7, DataPlace DEF Clean
    <3> QED BY <1>3, <1>5, <2>1, <2>3, <2>7, <3>1 DEF Clean
  <2>8. CASE srv.at = "data" /\ kind \notin Answered /\ (srv'.at = "data" \/ srv'.at = "outer")
    <3>1. AllStop(e2s', s2e')
      BY <1>3, <2>2, <2>4, <2>8, DataPlace DEF Clean
    <3>2. StopLast(e2s', s2e')
      BY <3>1, Implications
    <3>3. losses' = 0 => NoneWaits(e2s', s2e') /\ NoStale(e2s', s2e')
      BY <1>3, <2>1, <2>3, <2>8
    <3> QED BY <2>8, <3>1, <3>2, <3>3, DataPlace DEF Clean
  <2> QED BY <2>5, <2>6, <2>7, <2>8
<1> QED BY <1>3, <1>4, <1>8, <1>9, <1>10 DEF Inv

LEMMA KindsAsked ==
    /\ "stop" \in Commands /\ "set" \in Commands /\ "continue" \in Commands
    /\ Requests \subseteq Commands /\ Requests \subseteq Answered
    /\ 0 \in 0..MaxBatch
    /\ "hello" \in Backs /\ "ctrl_c" \in Backs /\ "data" \in Backs
  BY ServerAssumption DEF Commands, Answered, Backs

LEMMA GreetInv == ASSUME Inv, fate = "alive", Greet PROVE Inv'
<1>1. srv' \in SrvType /\ srv'.at = "await" /\ srv'.back = "hello" /\ srv'.want = "stop"
  BY KindsAsked, KindFacts, AwaitFacts DEF Greet
<1>2. srv.at = "greet" /\ srv.at \notin Waiting /\ losses' \in 0..MaxLosses
  BY TypeIs DEF Greet, Waiting, Inv
<1> QED BY <1>1, <1>2, KindsAsked, Ask DEF Greet

LEMMA HandleCtrlCInv == ASSUME Inv, fate = "alive", HandleCtrlC PROVE Inv'
<1>1. srv' \in SrvType /\ srv'.at = "await" /\ srv'.back = "ctrl_c" /\ srv'.want = "stop"
  BY KindsAsked, KindFacts, AwaitFacts DEF HandleCtrlC
<1>2. srv.at = "data" /\ srv.at \notin Waiting /\ losses' \in 0..MaxLosses
  BY TypeIs DEF HandleCtrlC, HasPacket, Waiting, Inv
<1> QED BY <1>1, <1>2, KindsAsked, Ask DEF HandleCtrlC

LEMMA HandleRequestInv ==
    ASSUME Inv, fate = "alive", NEW kind \in Requests, HandleRequest(kind) PROVE Inv'
<1>1. srv.batch - 1 \in 0..MaxBatch
  BY NextBatch DEF HandleRequest, Inv
<1>2. srv' \in SrvType /\ srv'.at = "await" /\ srv'.back = "data" /\ srv'.want = kind
  BY <1>1, KindsAsked, AwaitFacts DEF HandleRequest
<1>3. srv.at = "data" /\ srv.at \notin Waiting /\ losses' \in 0..MaxLosses
  BY TypeIs DEF HandleRequest, HasPacket, Waiting, Inv
<1> QED BY <1>2, <1>3, KindsAsked, Ask DEF HandleRequest

LEMMA HandleSetInv ==
    ASSUME Inv, fate = "alive", NEW kind \in {"set", "continue"}, HandleSet(kind) PROVE Inv'
<1>1. TypeOK /\ HasPacket /\ srv.at = "data" /\ srv.at \notin Waiting
  BY DEF HandleSet, HasPacket, Waiting, Inv
<1>2. kind \in Commands /\ kind \notin Answered
  BY KindsAsked, KindFacts
<1>3. PushServerToEmuCommand(kind) /\ UNCHANGED <<emu, stop, open, running, stopped, fate>>
  BY DEF HandleSet
<1>4. CASE Sent(TRUE) /\ srv' = Data(srv.batch - 1)
  <2>1. losses' \in 0..MaxLosses /\ losses' = losses
    BY <1>1, <1>4, SentFacts
  <2>2. srv' \in SrvType /\ srv'.at = "data"
    BY <1>1, <1>4, NextBatch
  <2> QED BY <1>1, <1>2, <1>3, <2>1, <2>2, Ask
<1>5. CASE Sent(FALSE) /\ srv' = At("outer")
  <2>1. losses' \in 0..MaxLosses /\ losses' = losses + 1
    BY <1>1, <1>5, SentFacts
  <2>2. srv' \in SrvType /\ srv'.at = "outer"
    BY <1>5, DataPlace, PlaceFacts
  <2> QED BY <1>1, <1>2, <1>3, <2>1, <2>2, Ask
<1> QED BY <1>4, <1>5 DEF HandleSet

\* What the front of the queue is, and what is left without it.
LEMMA Taken ==
    ASSUME Inv, e2s # <<>>, e2s' = Tail(e2s), UNCHANGED s2e
    PROVE  /\ e2s' \in Seq(ToServer) /\ s2e' \in Seq(ToEmu)
           /\ Head(e2s) = e2s[1] /\ 1 \in 1..Len(e2s)
           /\ FreshLast(e2s', s2e')
           /\ \A i \in 1..Len(e2s') : i + 1 \in 1..Len(e2s) /\ e2s'[i] = e2s[i + 1]
           /\ NoneWaits(e2s, s2e) => NoneWaits(e2s', s2e')
           /\ NoStale(e2s, s2e) => NoStale(e2s', s2e')
           /\ StaleStop(e2s, s2e) => StaleStop(e2s', s2e')
           /\ AllStop(e2s, s2e) => AllStop(e2s', s2e')
           /\ StopLast(e2s, s2e) => StopLast(e2s', s2e')
           /\ Head(e2s).fresh /\ Mine(Head(e2s)) => NoneWaits(e2s', s2e')
           /\ StopLast(e2s, s2e) /\ Head(e2s).kind = "stop" => AllStop(e2s', s2e')
<1>1. e2s \in Seq(ToServer) /\ s2e \in Seq(ToEmu) /\ FreshLast(e2s, s2e)
  BY TypeIs DEF Inv
<1> QED BY <1>1, TakeFacts

\* The answer that a request waits for is fresh; so is every answer before the first
\* connection broke.
LEMMA FreshAnswer ==
    ASSUME Inv, srv.at = "wait", e2s # <<>>, Answers(Head(e2s)), losses <= 1,
           srv.back = "data" \/ losses = 0
    PROVE  Head(e2s).fresh /\ Mine(Head(e2s))
<1>1. Clean(e2s, s2e, srv.at, srv.back, losses) /\ srv.at \in Waiting
  BY GoesOnIs, PlacesAre DEF Inv, CleanInv
<1>2. Head(e2s) = e2s[1] /\ 1 \in 1..Len(e2s)
  <2>1. e2s \in Seq(ToServer)
    BY TypeIs DEF Inv
  <2> QED BY <2>1, TailQueue
<1>3. srv.want \in Answered /\ (srv.back = "data" => srv.want \in Requests)
  BY <1>1, KindFacts DEF Inv, WaitsFor, Answered
<1>4. Mine(e2s[1]) /\ (srv.back = "data" => Other(e2s[1]))
  BY <1>2, <1>3 DEF Answers, Mine, Other
<1>5. CASE srv.back = "data"
  BY <1>1, <1>2, <1>4, <1>5 DEF Clean, StaleStop
<1>6. CASE losses = 0
  BY <1>1, <1>2, <1>4, <1>6 DEF Clean, NoStale
<1> QED BY <1>5, <1>6

\* Whatever the thread waited for, it is not waiting for it any more.
LEMMA AwaitAnswerInv == ASSUME Inv, fate = "alive", AwaitAnswer PROVE Inv'
<1>1. /\ srv.at = "wait" /\ e2s # <<>> /\ Answers(Head(e2s)) /\ e2s' = Tail(e2s)
      /\ UNCHANGED <<emu, stop, open, running, s2e, stopped, fate>>
  BY DEF AwaitAnswer
<1>2. TypeOK /\ srv.at \in Waiting /\ losses \in Nat /\ srv.batch \in 0..MaxBatch
  BY <1>1, TypeIs, SrvFacts, ServerAssumption, PlacesAre DEF Inv
<1>3. /\ srv' \in SrvType
      /\ \/ srv.back = "hello" /\ (srv'.at = "poll" \/ srv'.at = "outer") /\ losses' = losses
         \/ srv.back = "ctrl_c" /\ srv'.at = "emu_commands" /\ losses' = losses
         \/ srv.back = "data" /\ srv'.at = "data" /\ losses' = losses
         \/ srv'.at = "outer" /\ losses' = losses + 1
      /\ losses' \in 0..MaxLosses
  <2>1. CASE srv.back = "hello" /\ srv' = Inner /\ UNCHANGED losses
    BY <1>2, <2>1, InnerFacts, LossesKept
  <2>2. CASE srv.back = "ctrl_c" /\ Sent(TRUE) /\ srv' = At("emu_commands")
    <3>1. "emu_commands" \in Places
      BY DEF Places
    <3> QED BY <1>2, <2>2, <3>1, PlaceFacts, SentFacts
  <2>3. CASE srv.back = "data" /\ Sent(TRUE) /\ srv' = Data(srv.batch)
    BY <1>2, <2>3, DataFacts, SentFacts
  <2>4. CASE Sent(FALSE) /\ srv' = At("outer")
    BY <1>2, <2>4, PlaceFacts, DataPlace, SentFacts
  <2> QED BY <2>1, <2>2, <2>3, <2>4 DEF AwaitAnswer
<1>4. /\ srv'.at \in Between \/ srv'.at \in Talking
      /\ srv'.at \in Between => srv'.at = "outer"
  BY <1>3 DEF Between, Talking
<1>5. srv'.at \notin Waiting /\ srv'.at # "greet"
  BY <1>3 DEF Waiting
<1>6. TypeOK'
  BY <1>1, <1>2, <1>3, Taken, TypeIs, TypeIsNext
<1>7. WaitsFor' /\ HelloInv'
  BY <1>1, <1>5, PlacesAre DEF Inv, WaitsFor, HelloInv, Hello
<1>8. CleanInv'
  <2> SUFFICES ASSUME GoesOn', losses' <= 1
               PROVE  Clean(e2s', s2e', srv'.at, srv'.back, losses')
    BY DEF CleanInv
  <2>1. GoesOn /\ losses <= 1 /\ (losses' = 0 => losses = 0)
    BY <1>1, <1>2, <1>3, GoesOnIs
  <2>2. Clean(e2s, s2e, srv.at, srv.back, losses)
    BY <2>1 DEF Inv, CleanInv
  <2>3. losses = 0 => NoneWaits(e2s', s2e')
    BY <1>1, <2>1, FreshAnswer, Taken
  <2>4. AllStop(e2s', s2e')
    <3>1. CASE srv.back = "hello" /\ losses' = losses
      <4>1. StopLast(e2s, s2e)
        BY <1>2, <2>2, <3>1 DEF Clean
      <4>2. srv.want = "stop"
        BY <1>2, <3>1 DEF Inv, WaitsFor
      <4> QED BY <1>1, <4>1, <4>2, Taken DEF Answers
    <3>2. CASE srv.back = "ctrl_c" /\ losses' = losses
      BY <1>1, <1>2, <2>2, <3>2, Taken DEF Clean
    <3>3. CASE srv.back = "data" /\ losses' = losses
      BY <1>1, <2>1, <3>3, FreshAnswer, Taken, Implications
    <3>4. CASE losses' = losses + 1
      <4>1. losses = 0
        BY <1>2, <3>4
      <4> QED BY <2>3, <4>1, Implications
    <3> QED BY <1>3, <3>1, <3>2, <3>3, <3>4
  <2> QED BY <1>5, <2>1, <2>3, <2>4, Implications DEF Clean
<1> QED BY <1>1, <1>6, <1>7, <1>8, Taken DEF Inv

LEMMA AwaitOtherInv == ASSUME Inv, fate = "alive", AwaitOther PROVE Inv'
<1>1. /\ srv.at = "wait" /\ e2s # <<>> /\ e2s' = Tail(e2s)
      /\ UNCHANGED <<emu, stop, open, running, s2e, stopped>>
  BY DEF AwaitOther
<1>2. TypeOK /\ srv \in SrvType /\ srv.at \in Waiting /\ losses \in Nat /\ GoesOn
  BY <1>1, TypeIs, ServerAssumption, PlacesAre, GoesOnIs DEF Inv
<1>3. CASE Sent(TRUE) /\ srv' = [srv EXCEPT !.at = "await"] /\ UNCHANGED fate
  <2>1. "await" \in Places /\ "await" \in Waiting
    BY PlacesAre
  <2>2. srv' \in SrvType /\ srv'.at = "await" /\ srv'.want = srv.want /\ srv'.back = srv.back
    BY <1>2, <1>3, <2>1, MoveFacts
  <2>3. losses' \in 0..MaxLosses /\ losses' = losses
    BY <1>2, <1>3, SentFacts
  <2>4. TypeOK'
    BY <1>1, <1>2, <1>3, <2>2, <2>3, Taken, TypeIs, TypeIsNext
  <2>5. CleanInv'
    <3> SUFFICES ASSUME losses <= 1
                 PROVE  Clean(e2s', s2e', srv'.at, srv'.back, losses)
      BY <2>3 DEF CleanInv
    <3>1. Clean(e2s, s2e, srv.at, srv.back, losses)
      BY <1>2 DEF Inv, CleanInv
    <3>2. "await" \notin Between /\ "await" \notin Talking
      BY DEF Between, Talking
    <3> QED BY <1>1, <1>2, <2>1, <2>2, <3>1, <3>2, Taken DEF Clean
  <2>6. WaitsFor'
    BY <1>2, <2>2 DEF Inv, WaitsFor
  <2>7. HelloInv'
    <3> SUFFICES ASSUME Hello'
                 PROVE  /\ open
                        /\ \A i \in 1..Len(e2s') : e2s'[i].kind = "stop" /\ e2s'[i].fresh => stopped
      BY <1>1, <2>2 DEF HelloInv
    <3>1. /\ open
          /\ \A i \in 1..Len(e2s) : e2s[i].kind = "stop" /\ e2s[i].fresh => stopped
      BY <1>2, <2>2 DEF Inv, HelloInv, Hello
    <3>2. \A i \in 1..Len(e2s') : i + 1 \in 1..Len(e2s) /\ e2s'[i] = e2s[i + 1]
      BY <1>1, Taken
    <3> QED BY <3>1, <3>2
  <2> QED BY <1>1, <2>4, <2>5, <2>6, <2>7, Taken DEF Inv
<1>4. CASE /\ Sent(FALSE) /\ srv' = At("outer")
           /\ fate' = IF srv.back = "hello" THEN "terminated" ELSE fate
  <2>1. srv' \in SrvType /\ srv'.at = "outer"
    BY <1>4, DataPlace, PlaceFacts
  <2>2. losses' \in 0..MaxLosses /\ losses' = losses + 1
    BY <1>2, <1>4, SentFacts
  <2>3. fate' \in {"alive", "terminated", "undefined"}
    BY <1>4
  <2>4. TypeOK'
    BY <1>1, <1>2, <2>1, <2>2, <2>3, Taken, TypeIs, TypeIsNext
  <2>5. CleanInv'
    <3> SUFFICES ASSUME losses' <= 1
                 PROVE  Clean(e2s', s2e', srv'.at, srv'.back, losses')
      BY DEF CleanInv
    <3>1. losses = 0 /\ losses <= 1 /\ losses' # 0
      BY <1>2, <2>2
    <3>2. NoStale(e2s, s2e)
      BY <1>2, <3>1 DEF Inv, CleanInv, Clean
    <3>3. NoStale(e2s', s2e') /\ FreshLast(e2s', s2e') /\ e2s' \in Seq(ToServer) /\ s2e' \in Seq(ToEmu)
      BY <1>1, <3>2, Taken
    <3>4. StopLast(e2s', s2e')
      BY <3>3, AloneIsSorted
    <3> QED BY <2>1, <3>1, <3>4, DataPlace DEF Clean
  <2>6. srv'.at # "greet" /\ srv'.at \notin Waiting
    BY <2>1, DataPlace
  <2>7. WaitsFor' /\ HelloInv'
    BY <2>3, <2>6 DEF WaitsFor, HelloInv, Hello
  <2> QED BY <1>1, <2>4, <2>5, <2>7, Taken DEF Inv
<1> QED BY <1>3, <1>4 DEF AwaitOther

LEMMA DrainInv == ASSUME Inv, fate = "alive", Drain PROVE Inv'
<1>1. srv.at = "drain" /\ UNCHANGED <<emu, stop, open, running, s2e, stopped>>
  BY DEF Drain
<1>2. "drain" \in Talking /\ "drain" \notin Waiting /\ "drain" # "greet" /\ "drain" \notin Between
  BY DEF Talking, Waiting, Between
<1>3. TypeOK /\ losses \in Nat /\ open' \in BOOLEAN
  BY <1>1, TypeIs, ServerAssumption DEF Inv
<1>4. CASE e2s = <<>> /\ srv' = Inner /\ UNCHANGED <<e2s, losses, fate>>
  <2>1. srv' \in SrvType /\ (srv'.at = "poll" \/ srv'.at = "outer")
        /\ "poll" \in Talking /\ "outer" \in Between
    BY <1>4, InnerFacts
  <2>2. srv'.at \notin Waiting /\ srv'.at # "greet"
    BY <2>1 DEF Waiting
  <2> QED BY <1>1, <1>2, <1>3, <1>4, <2>1, <2>2, LossesKept, Walk
<1>5. CASE /\ e2s # <<>> /\ e2s' = Tail(e2s) /\ UNCHANGED srv
           /\ \/ Sent(TRUE) /\ UNCHANGED fate
              \/ Sent(FALSE) /\ fate' = "terminated"
  <2>1. losses' \in 0..MaxLosses /\ (losses' = losses \/ losses' = losses + 1)
    BY <1>3, <1>5, SentFacts
  <2>2. fate' \in {"alive", "terminated", "undefined"}
    BY <1>5
  <2>3. TypeOK'
    BY <1>1, <1>3, <1>5, <2>1, <2>2, Taken, TypeIs, TypeIsNext
  <2>4. CleanInv'
    <3> SUFFICES ASSUME GoesOn', losses' <= 1
                 PROVE  Clean(e2s', s2e', srv.at, srv.back, losses')
      BY <1>5 DEF CleanInv
    <3>1. GoesOn /\ losses <= 1 /\ (losses' = 0 => losses = 0)
      BY <1>1, <1>2, <1>3, <1>5, <2>1, GoesOnIs, GoesOnIsNext
    <3>2. Clean(e2s, s2e, srv.at, srv.back, losses)
      BY <3>1 DEF Inv, CleanInv
    <3>3. AllStop(e2s', s2e') /\ (losses = 0 => NoneWaits(e2s', s2e') /\ NoStale(e2s', s2e'))
      BY <1>1, <1>2, <1>5, <3>2, Taken DEF Clean
    <3> QED BY <1>1, <1>2, <3>1, <3>3 DEF Clean
  <2>5. WaitsFor' /\ HelloInv'
    BY <1>1, <1>2, <1>5, <2>2, PlacesAre DEF WaitsFor, HelloInv, Hello
  <2> QED BY <1>1, <1>5, <2>3, <2>4, <2>5, Taken DEF Inv
<1> QED BY <1>4, <1>5 DEF Drain

(***************************************************************************)
(* The emulator's thread.                                                  *)
(***************************************************************************)
\* The server thread is woken up if it sleeps.
LEMMA WakeUp ==
    ASSUME TypeOK, srv' = IF srv.at = "asleep" THEN [srv EXCEPT !.at = "wait"] ELSE srv
    PROVE  /\ srv' \in SrvType /\ srv'.want = srv.want /\ srv'.back = srv.back
           /\ srv'.at = srv.at \/ (srv.at = "asleep" /\ srv'.at = "wait")
<1>1. srv \in SrvType /\ "wait" \in Places
  BY TypeIs, PlacesAre
<1>2. CASE srv.at = "asleep"
  BY <1>1, <1>2, MoveFacts
<1>3. CASE srv.at # "asleep"
  BY <1>1, <1>3
<1> QED BY <1>2, <1>3

\* The emulator does something to the queues that brings back nothing that was asked
\* for before, and nothing that says it is stopped when it is not.
LEMMA EmuActs ==
    ASSUME Inv, fate = "alive",
           emu' \in EmuPlaces, srv' \in SrvType,
           srv'.want = srv.want, srv'.back = srv.back,
           srv'.at = srv.at \/ (srv.at = "asleep" /\ srv'.at = "wait"),
           s2e' \in Seq(ToEmu), e2s' \in Seq(ToServer), FreshLast(e2s', s2e'),
           NoneWaits(e2s, s2e) => NoneWaits(e2s', s2e'),
           NoStale(e2s, s2e) => NoStale(e2s', s2e'),
           StaleStop(e2s, s2e) => StaleStop(e2s', s2e'),
           AllStop(e2s, s2e) => AllStop(e2s', s2e'),
           StopLast(e2s, s2e) => StopLast(e2s', s2e'),
           open
             /\ (\A i \in 1..Len(e2s) : e2s[i].kind = "stop" /\ e2s[i].fresh => stopped)
             => (\A i \in 1..Len(e2s') : e2s'[i].kind = "stop" /\ e2s'[i].fresh => stopped'),
           running' \in BOOLEAN, stopped' \in BOOLEAN,
           UNCHANGED <<stop, open, losses, fate>>
    PROVE  Inv'
<1>1. TypeOK'
  BY TypeIs, TypeIsNext DEF Inv
<1>2. /\ srv.at \in Waiting <=> srv'.at \in Waiting
      /\ srv.at \in Talking <=> srv'.at \in Talking
      /\ srv.at \in Between <=> srv'.at \in Between
      /\ srv.at \in {"wait", "asleep"} <=> srv'.at \in {"wait", "asleep"}
      /\ srv.at = "greet" <=> srv'.at = "greet"
  BY DEF Waiting, Talking, Between
<1>3. GoesOn <=> GoesOn'
  BY <1>2 DEF GoesOn
<1>4. WaitsFor'
  BY <1>2 DEF Inv, WaitsFor
<1>5. HelloInv'
  <2>1. srv'.at = "greet" /\ ~stop => open
    BY <1>2 DEF Inv, HelloInv
  <2> SUFFICES ASSUME Hello', GoesOn'
               PROVE  /\ open
                      /\ \A i \in 1..Len(e2s') : e2s'[i].kind = "stop" /\ e2s'[i].fresh => stopped'
    BY <2>1 DEF HelloInv
  <2>2. /\ open
        /\ \A i \in 1..Len(e2s) : e2s[i].kind = "stop" /\ e2s[i].fresh => stopped
    BY <1>2, <1>3 DEF Inv, HelloInv, Hello
  <2> QED BY <2>2
<1>6. CleanInv'
  <2> SUFFICES ASSUME GoesOn', losses <= 1
               PROVE  Clean(e2s', s2e', srv'.at, srv'.back, losses)
    BY DEF CleanInv
  <2>1. Clean(e2s, s2e, srv.at, srv.back, losses)
    BY <1>3 DEF Inv, CleanInv
  <2> QED BY <1>2, <2>1 DEF Clean
<1> QED BY <1>1, <1>4, <1>5, <1>6 DEF Inv

LEMMA ExecuteInv == ASSUME Inv, fate = "alive", Execute PROVE Inv'
<1>1. /\ emu = "async" /\ s2e # <<>> /\ s2e' = Tail(s2e)
      /\ stopped' \in StoppedBy(Head(s2e).kind)
      /\ UNCHANGED <<emu, stop, open, running, losses, fate>>
  BY DEF Execute
<1>2. TypeOK /\ e2s \in Seq(ToServer) /\ s2e \in Seq(ToEmu) /\ FreshLast(e2s, s2e)
      /\ stopped \in BOOLEAN /\ running \in BOOLEAN /\ emu \in EmuPlaces
  BY TypeIs DEF Inv
<1>3. IF Mine(Head(s2e))
        THEN e2s' = Append(e2s, [kind |-> Head(s2e).kind, fresh |-> Head(s2e).fresh])
        ELSE e2s' = e2s
  BY DEF Execute, Mine, PushEmuToServerCommand
<1>4. /\ e2s' \in Seq(ToServer) /\ s2e' \in Seq(ToEmu) /\ FreshLast(e2s', s2e')
      /\ \A i \in 1..Len(e2s') : Mine(e2s'[i]) /\ e2s'[i].fresh => e2s'[i].kind = Head(s2e).kind
      /\ NoneWaits(e2s, s2e) => NoneWaits(e2s', s2e')
      /\ NoStale(e2s, s2e) => NoStale(e2s', s2e')
      /\ StaleStop(e2s, s2e) => StaleStop(e2s', s2e')
      /\ AllStop(e2s, s2e) => AllStop(e2s', s2e')
      /\ StopLast(e2s, s2e) => StopLast(e2s', s2e')
  BY <1>1, <1>2, <1>3, ExecuteFacts
<1>5. stopped' \in BOOLEAN /\ (Head(s2e).kind = "stop" => stopped')
  <2>1. CASE Head(s2e).kind = "stop"
    BY <1>1, <2>1 DEF StoppedBy
  <2>2. CASE Head(s2e).kind = "continue"
    BY <1>1, <2>2 DEF StoppedBy
  <2>3. CASE Head(s2e).kind = "step"
    <3>1. stopped' \in {stopped, TRUE}
      BY <1>1, <2>3 DEF StoppedBy
    <3> QED BY <1>2, <2>3, <3>1
  <2>4. CASE Head(s2e).kind \notin {"stop", "continue", "step"}
    <3>1. stopped' \in {stopped}
      BY <1>1, <2>4 DEF StoppedBy
    <3> QED BY <1>2, <2>4, <3>1
  <2> QED BY <2>1, <2>2, <2>3, <2>4
<1>6. \A i \in 1..Len(e2s') : e2s'[i].kind = "stop" /\ e2s'[i].fresh => stopped'
  <2>1. \A m : m.kind = "stop" => Mine(m)
    BY KindFacts DEF Mine
  <2> QED BY <1>4, <1>5, <2>1
<1>7. /\ srv' \in SrvType /\ srv'.want = srv.want /\ srv'.back = srv.back
      /\ srv'.at = srv.at \/ (srv.at = "asleep" /\ srv'.at = "wait")
  <2>1. CASE Head(s2e).kind \in Answered
    BY <1>2, <2>1, WakeUp DEF Execute, PushEmuToServerCommand
  <2>2. CASE Head(s2e).kind \notin Answered
    BY <1>2, <2>2, TypeIs DEF Execute
  <2> QED BY <2>1, <2>2
<1> QED BY <1>1, <1>2, <1>4, <1>5, <1>6, <1>7, EmuActs

LEMMA SignalBreakpointInv == ASSUME Inv, fate = "alive", SignalBreakpoint PROVE Inv'
<1>1. /\ emu' = "ui" /\ UNCHANGED <<stop, open, running, s2e, stopped, losses, fate>>
      /\ e2s' = Append(e2s, [kind |-> "break", fresh |-> TRUE])
  BY DEF SignalBreakpoint, PushEmuToServerCommand
<1>2. TypeOK /\ e2s \in Seq(ToServer) /\ s2e \in Seq(ToEmu) /\ FreshLast(e2s, s2e)
      /\ stopped \in BOOLEAN /\ running \in BOOLEAN
  BY TypeIs DEF Inv
<1>3. /\ e2s' \in Seq(ToServer) /\ FreshLast(e2s', s2e)
      /\ \A i \in 1..Len(e2s') : Mine(e2s'[i]) => i \in 1..Len(e2s) /\ e2s'[i] = e2s[i]
      /\ NoneWaits(e2s, s2e) => NoneWaits(e2s', s2e)
      /\ NoStale(e2s, s2e) => NoStale(e2s', s2e)
      /\ StaleStop(e2s, s2e) => StaleStop(e2s', s2e)
      /\ AllStop(e2s, s2e) => AllStop(e2s', s2e)
      /\ StopLast(e2s, s2e) => StopLast(e2s', s2e)
  BY <1>1, <1>2, BreakFacts
<1>4. (\A i \in 1..Len(e2s) : e2s[i].kind = "stop" /\ e2s[i].fresh => stopped)
      => (\A i \in 1..Len(e2s') : e2s'[i].kind = "stop" /\ e2s'[i].fresh => stopped')
  <2>1. \A m : m.kind = "stop" => Mine(m)
    BY KindFacts DEF Mine
  <2> QED BY <1>1, <1>3, <2>1
<1>5. /\ srv' \in SrvType /\ srv'.want = srv.want /\ srv'.back = srv.back
      /\ srv'.at = srv.at \/ (srv.at = "asleep" /\ srv'.at = "wait")
  BY <1>2, WakeUp DEF SignalBreakpoint, PushEmuToServerCommand
<1>6. emu' \in EmuPlaces
  BY <1>1 DEF EmuPlaces
<1> QED BY <1>1, <1>2, <1>3, <1>4, <1>5, <1>6, EmuActs

\* The emulator goes on without touching the queues.
LEMMA EmuMoves ==
    ASSUME Inv, fate = "alive", emu' \in EmuPlaces, running' \in BOOLEAN, stopped' \in BOOLEAN,
           open => (stopped => stopped'),
           UNCHANGED <<srv, stop, open, s2e, e2s, losses, fate>>
    PROVE  Inv'
<1>1. srv \in SrvType /\ e2s \in Seq(ToServer) /\ s2e \in Seq(ToEmu) /\ FreshLast(e2s, s2e)
  BY TypeIs DEF Inv
<1> QED BY <1>1, EmuActs

LEMMA EmuStepsInv ==
    ASSUME Inv, fate = "alive",
           \/ HandleAsyncCommands \/ ExecutedAll \/ RunInterpreterUntilBreakpoint
           \/ DrawGui \/ Started \/ Exit
    PROVE  Inv'
<1>1. stopped \in BOOLEAN /\ running \in BOOLEAN /\ open \in BOOLEAN
  BY TypeIs DEF Inv
<1>2. CASE HandleAsyncCommands
  <2>1. emu' \in EmuPlaces
    BY <1>2 DEF HandleAsyncCommands, EmuPlaces
  <2> QED BY <1>1, <1>2, <2>1, EmuMoves DEF HandleAsyncCommands
<1>3. CASE ExecutedAll
  <2>1. emu' \in EmuPlaces
    BY <1>3 DEF ExecutedAll, EmuPlaces
  <2> QED BY <1>1, <1>3, <2>1, EmuMoves DEF ExecutedAll
<1>4. CASE RunInterpreterUntilBreakpoint
  <2>1. emu' \in EmuPlaces
    BY <1>4 DEF RunInterpreterUntilBreakpoint, EmuPlaces
  <2>2. stopped' \in BOOLEAN /\ (stopped => stopped')
    BY <1>1, <1>4 DEF RunInterpreterUntilBreakpoint
  <2> QED BY <1>1, <1>4, <2>1, <2>2, EmuMoves DEF RunInterpreterUntilBreakpoint
<1>5. CASE DrawGui
  <2>1. emu' \in EmuPlaces
    BY <1>5 DEF DrawGui, EmuPlaces
  <2>2. stopped' \in BOOLEAN /\ (open => (stopped => stopped'))
    <3>1. CASE UNCHANGED stopped
      BY <1>1, <3>1
    <3>2. CASE ~open /\ stopped' = ~stopped
      BY <1>1, <3>2
    <3> QED BY <1>5, <3>1, <3>2 DEF DrawGui
  <2> QED BY <1>1, <1>5, <2>1, <2>2, EmuMoves DEF DrawGui
<1>6. CASE Started
  <2>1. emu' \in EmuPlaces /\ running' \in BOOLEAN
    BY <1>6 DEF Started, EmuPlaces
  <2> QED BY <1>1, <1>6, <2>1, EmuMoves DEF Started
<1>7. CASE Exit
  <2>1. emu' \in EmuPlaces
    BY <1>7 DEF Exit, EmuPlaces
  <2> QED BY <1>1, <1>7, <2>1, EmuMoves DEF Exit
<1> QED BY <1>2, <1>3, <1>4, <1>5, <1>6, <1>7

\* The queues are emptied while no thread uses them.
LEMMA Emptied ==
    ASSUME Inv, fate = "alive", NEW p \in Places, p \notin Waiting, p # "greet",
           srv' = At(p), s2e' = <<>>, e2s' = <<>>,
           emu' \in EmuPlaces, stop' \in BOOLEAN, running' \in BOOLEAN,
           UNCHANGED <<open, stopped, losses, fate>>
    PROVE  Inv'
<1>1. srv' \in SrvType /\ srv'.at = p
  BY PlaceFacts
<1>2. e2s' \in Seq(ToServer) /\ s2e' \in Seq(ToEmu)
  BY EmptyQueue
<1>3. TypeOK'
  BY <1>1, <1>2, TypeIs, TypeIsNext DEF Inv
<1>4. FreshLast(e2s', s2e') /\ CleanInv'
  BY NothingLeft DEF CleanInv
<1>5. WaitsFor' /\ HelloInv'
  BY <1>1 DEF WaitsFor, HelloInv, Hello
<1> QED BY <1>3, <1>4, <1>5 DEF Inv

LEMMA StartThreadInv == ASSUME Inv, fate = "alive", StartThread PROVE Inv'
<1>1. emu' \in EmuPlaces /\ stop' \in BOOLEAN /\ running' \in BOOLEAN /\ "outer" # "greet"
  BY TypeIs DEF StartThread, EmuPlaces, Inv
<1> QED BY <1>1, DataPlace, Emptied DEF StartThread

LEMMA JoinInv == ASSUME Inv, fate = "alive", Join PROVE Inv'
<1>1. emu' \in EmuPlaces
  BY DEF Join, EmuPlaces
<1>2. stop' \in BOOLEAN /\ running' \in BOOLEAN
  BY TypeIs DEF Join, Inv
<1>3. "none" \in Places /\ "none" \notin Waiting /\ "none" # "greet"
  BY DEF Places, Waiting
<1> QED BY <1>1, <1>2, <1>3, Emptied DEF Join

LEMMA StopThreadInv ==
    ASSUME Inv, fate = "alive", NEW after \in Joining, StopThread(after) PROVE Inv'
<1>1. /\ stop' = TRUE /\ emu' = after
      /\ UNCHANGED <<srv, open, running, s2e, e2s, stopped, losses, fate>>
  BY DEF StopThread
<1>2. TypeOK'
  <2>1. emu' \in EmuPlaces /\ stop' \in BOOLEAN
    BY <1>1 DEF EmuPlaces
  <2> QED BY <1>1, <2>1, TypeIs, TypeIsNext DEF Inv
<1>3. GoesOn' => GoesOn
  BY <1>1 DEF GoesOn
<1>4. CleanInv' /\ WaitsFor'
  BY <1>1, <1>3 DEF Inv, CleanInv, WaitsFor
<1>5. HelloInv'
  BY <1>1, <1>3 DEF Inv, HelloInv, Hello
<1> QED BY <1>1, <1>2, <1>4, <1>5 DEF Inv

LEMMA NextInv == Inv /\ [Next]_vars => Inv'
<1> SUFFICES ASSUME Inv, [Next]_vars PROVE Inv'
  OBVIOUS
<1>1. CASE ServerStep
  BY <1>1, OuterInv, AcceptStoppedInv, GreetInv, AwaitCheckInv, AwaitAnswerInv, AwaitOtherInv,
     AwaitEmptyInv, PollInv, PacketsEndInv, SendAckFailsInv, HandleCtrlCInv, HandleRequestInv,
     HandleSetInv, HandleQueryInv, HandleDetachInv, HandleEmuCommandsInv, DrainInv, LeaveInv
     DEF ServerStep
<1>2. CASE EmuStep
  BY <1>2, ExecuteInv, SignalBreakpointInv, EmuStepsInv, StartThreadInv, StopThreadInv, JoinInv
     DEF EmuStep
<1>3. CASE fate = "alive" /\ Accept
  BY <1>3, AcceptInv
<1>4. CASE fate = "alive" /\ SpuriousWakeUp
  BY <1>4, SpuriousWakeUpInv
<1>5. CASE UNCHANGED vars
  BY <1>5 DEF vars, Inv, TypeOK, WaitsFor, CleanInv, HelloInv, Hello, GoesOn
<1> QED BY <1>1, <1>2, <1>3, <1>4, <1>5 DEF Next

LEMMA AlwaysInv == Spec => []Inv
  BY InitInv, NextInv, PTL DEF Spec

(***************************************************************************)
(* The theorems.                                                           *)
(***************************************************************************)
\* Every variable of the two threads has its type, whatever the order of their steps.
THEOREM ServerTypeOK == Spec => []TypeOK
<1>1. Inv => TypeOK
  BY DEF Inv
<1> QED BY <1>1, AlwaysInv, PTL

\* A request is answered by its own answer until the connection broke twice, however
\* many requests, breakpoints and handshakes went through the queues before.
THEOREM ServerAnswerIsFresh == Spec => AnswerIsFresh
<1>1. Inv => [srv.at = "wait" /\ srv.back = "data" /\ srv' # srv /\ e2s # <<>>
                /\ Answers(Head(e2s)) /\ losses <= 1 => Head(e2s).fresh]_vars
  BY FreshAnswer
<1> QED BY <1>1, AlwaysInv, PTL DEF AnswerIsFresh

\* Only the answer that it waits for brings the thread from a handshake to the packets.
LEMMA HelloEnds ==
    ASSUME Inv, [Next]_vars, srv.at = "wait", srv'.at = "poll"
    PROVE  AwaitAnswer
<1>1. srv \in SrvType /\ "wait" # "poll" /\ "poll" \in Places
  BY TypeIs, PlacesAre DEF Inv, Places
<1>2. CASE ServerStep
  <2>1. ~AwaitOther
    <3>1. "await" \in Places /\ "outer" \in Places /\ "await" # "poll" /\ "outer" # "poll"
      BY DEF Places, Waiting
    <3> QED BY <1>1, <3>1, MoveFacts, PlaceFacts DEF AwaitOther
  <2>2. ~AwaitEmpty
    <3>1. "asleep" \in Places /\ "asleep" # "poll"
      BY DEF Places, Waiting
    <3> QED BY <1>1, <3>1, MoveFacts DEF AwaitEmpty
  <2>3. \A kind : ~HandleRequest(kind) /\ ~HandleSet(kind)
    BY DEF HandleRequest, HandleSet, HasPacket
  <2>4. ~HandleCtrlC /\ ~HandleQuery /\ ~HandleDetach /\ ~SendAckFails /\ ~PacketsEnd
    BY DEF HandleCtrlC, HandleQuery, HandleDetach, SendAckFails, PacketsEnd, HasPacket
  <2>5. ~Outer /\ ~AcceptStopped /\ ~Greet /\ ~AwaitCheck /\ ~Poll /\ ~HandleEmuCommands
        /\ ~Drain /\ ~Leave
    BY DEF Outer, AcceptStopped, Greet, AwaitCheck, Poll, HandleEmuCommands, Drain, Leave
  <2> QED BY <1>2, <2>1, <2>2, <2>3, <2>4, <2>5 DEF ServerStep
<1>3. CASE EmuStep
  <2>1. ~Execute /\ ~SignalBreakpoint
    BY <1>1 DEF Execute, SignalBreakpoint, PushEmuToServerCommand
  <2>2. ~Join /\ ~StartThread
    <3>1. "outer" \in Places /\ "outer" # "poll"
      BY DEF Places
    <3> QED BY <3>1, PlaceFacts DEF Join, StartThread
  <2>3. \A after : ~StopThread(after)
    BY <1>1 DEF StopThread
  <2>4. ~HandleAsyncCommands /\ ~ExecutedAll /\ ~RunInterpreterUntilBreakpoint /\ ~DrawGui
        /\ ~Started /\ ~Exit
    BY <1>1 DEF HandleAsyncCommands, ExecutedAll, RunInterpreterUntilBreakpoint, DrawGui,
               Started, Exit
  <2> QED BY <1>3, <2>1, <2>2, <2>3, <2>4 DEF EmuStep
<1>4. ~Accept /\ ~SpuriousWakeUp
  BY DEF Accept, SpuriousWakeUp
<1>5. ~UNCHANGED vars
  BY <1>1 DEF vars
<1> QED BY <1>2, <1>3, <1>4, <1>5 DEF Next

\* The emulator is stopped at the end of a handshake that its own answer ended: nothing
\* that the user, an earlier client or a breakpoint did in between started it again.
THEOREM ServerStoppedOnHello == Spec => StoppedOnHello
<1>1. Inv /\ [Next]_vars =>
        [srv.at = "wait" /\ srv.back = "hello" /\ srv'.at = "poll" /\ Head(e2s).fresh
           => stopped]_vars
  <2> SUFFICES ASSUME Inv, [Next]_vars, srv.at = "wait", srv.back = "hello", srv'.at = "poll",
                      Head(e2s).fresh
               PROVE  stopped
    OBVIOUS
  <2>1. e2s # <<>> /\ Head(e2s).kind = srv.want
    BY HelloEnds DEF AwaitAnswer, Answers
  <2>2. e2s \in Seq(ToServer) /\ srv.at \in Waiting
    BY TypeIs, PlacesAre DEF Inv
  <2>3. Head(e2s) = e2s[1] /\ 1 \in 1..Len(e2s)
    BY <2>1, <2>2, TailQueue
  <2>4. srv.want = "stop" /\ GoesOn /\ Hello
    BY <2>2, GoesOnIs DEF Inv, WaitsFor, Hello
  <2> QED BY <2>1, <2>3, <2>4 DEF Inv, HelloInv
<1> QED BY <1>1, AlwaysInv, PTL DEF Spec, StoppedOnHello
=============================================================================
