------------------------- MODULE VideoForwardProofs -------------------------
(***************************************************************************)
(* Proofs about VideoForward for any layers, frames and sequence numbers.  *)
(*                                                                         *)
(* The ForwardState is that of the last packet that began an epoch         *)
(* (LastBegan), and as long as nothing was delayed its layer is the one    *)
(* the destination gets (Follows).  An older packet of the epoch has a     *)
(* number of another residue than the first's (WireInjective) and so       *)
(* either a smaller one, and checked_sub() fails, or one that was misread. *)
(*                                                                         *)
(* Numbering speaks of all pairs of packets.  What carries it (Numbered)   *)
(* is that the largest number expanded so far is less than half the        *)
(* modulus above the first, so the next is expanded rightly (ExpandExact); *)
(* that the last epoch is numbered from where its ForwardState says; and   *)
(* that all before it stays below.                                         *)
(*                                                                         *)
(* ResendsRight is about numbers that are used again after W.  What carries*)
(* it (Cached) is that every packet of the last W full numbers is in one of*)
(* the two generations, and in the older one alone only if it was sent     *)
(* before the last swap.                                                   *)
(***************************************************************************)
EXTENDS VideoForward, TLAPS

USE DEF Packets, Message, Numbers

LastBegan ==
    /\ fwd.layer = None <=> opened = <<>>
    /\ opened # <<>> =>
         /\ fwd.layer = opened[Len(opened)].layer
         /\ fwd.first = [seq |-> Wire(fwd.layer, opened[Len(opened)].n),
                         ts  |-> Frame[opened[Len(opened)].n]]

Follows ==
    delays = 0 =>
        /\ held = {}
        /\ route # None /\ ~fresh => fwd.layer = route.from

Numbered ==
    ~misread =>
        /\ opened # <<>> => fwd.max - fwd.first.seq \in 0..MaxSent-1
        /\ \A q \in DOMAIN sent :
             /\ sent[q] \in [seq : Nat, ts : Nat, age : Nat]
             /\ sent[q].seq <= maxOut.seq /\ sent[q].ts <= maxOut.ts
             /\ IF q[1] = Len(opened)
                THEN LET first == opened[q[1]].n IN
                     /\ q[2] >= first
                     /\ sent[q].seq = fwd.out.seq + (q[2] - first)
                     /\ sent[q].ts = fwd.out.ts + (Frame[q[2]] - Frame[first])
                ELSE /\ sent[q].seq + 1 < fwd.out.seq
                     /\ sent[q].ts < fwd.out.ts

Packet(q) == [layer |-> LayerOf(q[1]), n |-> q[2]]

\* The cache has the packet q, and if only in the older generation, then
\* because q was sent before the last swap.
Found(q) ==
    LET x == sent[q].seq % W IN
    \/ x \in DOMAIN young /\ young[x] = Packet(q)
    \/ /\ x \notin DOMAIN young /\ x \in DOMAIN old /\ old[x] = Packet(q)
       /\ sent[q].age >= age

SentUnder(x, packet) ==
    \E q \in DOMAIN sent : sent[q].seq % W = x /\ packet = Packet(q)

Cached ==
    ~misread =>
        /\ \A q \in DOMAIN sent :
             sent[q].age < Keep /\ maxOut.seq < sent[q].seq + W => Found(q)
        /\ \A x \in DOMAIN young : SentUnder(x, young[x])
        /\ \A x \in DOMAIN old : SentUnder(x, old[x])

Inv ==
    /\ TypeOK /\ LastBegan /\ Follows
    /\ CleanSwitch /\ Numbered /\ Numbering /\ Cached

-----------------------------------------------------------------------------
\* The assumptions, as far as they are arithmetic.
LEMMA Modulus == W \in Nat \ {0, 1} /\ MaxSent \in Nat \ {0} /\ 2 * MaxSent <= W
BY VideoAssumption

\* Below twice the modulus % takes it away at most once.
LEMMA ModTwice ==
    ASSUME NEW w \in Nat \ {0}, NEW a \in Nat, a < 2 * w
    PROVE  (a < w => a % w = a) /\ (~(a < w) => a % w = a - w)
<1>1. CASE a < w
  BY <1>1
<1>2. CASE ~(a < w)
  BY <1>2
<1> QED BY <1>1, <1>2

\* Wire numbers are below W.
LEMMA WireType ==
    ASSUME NEW l \in Layers, NEW n \in Packets
    PROVE  Wire(l, n) \in 0..W-1
<1>1. Start[l] \in 0..W-1
  BY VideoAssumption
<1> QED BY <1>1, Modulus DEF Wire

\* A wire number without %.
LEMMA WireIs ==
    ASSUME NEW l \in Layers, NEW n \in Packets
    PROVE  /\ Start[l] + n - 1 < W => Wire(l, n) = Start[l] + n - 1
           /\ ~(Start[l] + n - 1 < W) => Wire(l, n) = (Start[l] + n - 1) - W
<1>1. Start[l] \in 0..W-1
  BY VideoAssumption
<1>2. Start[l] + n - 1 \in Nat /\ Start[l] + n - 1 < 2 * W
  BY <1>1, Modulus
<1>3. W \in Nat \ {0}
  BY Modulus
<1>4. \A a \in Nat : a < 2 * W => (a < W => a % W = a) /\ (~(a < W) => a % W = a - W)
  BY <1>3, ModTwice, Zenon
<1> QED BY <1>2, <1>4, Zenon DEF Wire

\* Two packets of a layer have two wire numbers.
LEMMA WireInjective ==
    ASSUME NEW l \in Layers, NEW m \in Packets, NEW n \in Packets,
           Wire(l, m) = Wire(l, n)
    PROVE  m = n
<1>1. Start[l] \in 0..W-1
  BY VideoAssumption
<1>2. m \in Nat /\ n \in Nat /\ m >= 1 /\ n >= 1 /\ 2 * m <= W /\ 2 * n <= W
  BY Modulus
<1>3. \A s \in 0..W-1, x \in Int :
        /\ s + m - 1 < W => x = s + m - 1
        /\ ~(s + m - 1 < W) => x = (s + m - 1) - W
        /\ s + n - 1 < W => x = s + n - 1
        /\ ~(s + n - 1 < W) => x = (s + n - 1) - W
        => m = n
  BY <1>2, Modulus
<1>4. Wire(l, m) \in Int
  BY WireType
<1>5. /\ Start[l] + m - 1 < W => Wire(l, m) = Start[l] + m - 1
      /\ ~(Start[l] + m - 1 < W) => Wire(l, m) = (Start[l] + m - 1) - W
  BY WireIs, Zenon
<1>6. /\ Start[l] + n - 1 < W => Wire(l, m) = Start[l] + n - 1
      /\ ~(Start[l] + n - 1 < W) => Wire(l, m) = (Start[l] + n - 1) - W
  BY WireIs, Zenon
<1> QED BY <1>1, <1>3, <1>4, <1>5, <1>6, Zenon

\* A product with a positive number is no smaller.
LEMMA Product ==
    ASSUME NEW k \in Nat, NEW w \in Nat
    PROVE  k * w \in Nat /\ (k # 0 => k * w >= w) /\ (k = 0 => k * w = 0)
OBVIOUS

\* expand_truncated_counter() returns a number of the residue it was given.
LEMMA ExpandShape ==
    ASSUME NEW x \in 0..W-1, NEW max \in Nat
    PROVE  \E k \in Nat : Expand(x, max) = k * W + x
<1>1. max \div W \in Nat
  BY Modulus
<1>2. CASE (max % W) > x /\ (max % W) - x > W \div 2
  <2>1. Expand(x, max) = ((max \div W) + 1) * W + x
    BY <1>2 DEF Expand
  <2> QED BY <1>1, <2>1
<1>3. CASE ~((max % W) > x /\ (max % W) - x > W \div 2)
  <2>1. CASE (max \div W) > 0 /\ x > (max % W) /\ x - (max % W) > W \div 2
    <3>1. Expand(x, max) = ((max \div W) - 1) * W + x
      BY <1>3, <2>1 DEF Expand
    <3>2. (max \div W) - 1 \in Nat
      BY <1>1, <2>1
    <3> QED BY <3>1, <3>2
  <2>2. CASE ~((max \div W) > 0 /\ x > (max % W) /\ x - (max % W) > W \div 2)
    <3>1. Expand(x, max) = (max \div W) * W + x
      BY <1>3, <2>2 DEF Expand
    <3> QED BY <1>1, <3>1
  <2> QED BY <2>1, <2>2
<1> QED BY <1>2, <1>3

LEMMA ExpandType ==
    ASSUME NEW x \in 0..W-1, NEW max \in Nat
    PROVE  /\ Expand(x, max) \in Nat
           /\ \A y \in 0..W-1 : Expand(x, max) = y => x = y
<1>1. PICK k \in Nat : Expand(x, max) = k * W + x
  BY ExpandShape
<1>2. k * W \in Nat /\ (k # 0 => k * W >= W) /\ (k = 0 => k * W = 0)
  BY Modulus, Product
<1> QED BY <1>1, <1>2, Modulus

\* Division below twice the modulus.
LEMMA DivTwice ==
    ASSUME NEW w \in Nat \ {0}, NEW a \in Nat, a < 2 * w
    PROVE  (a < w => a \div w = 0) /\ (~(a < w) => a \div w = 1)
<1>1. CASE a < w
  BY <1>1
<1>2. CASE ~(a < w)
  BY <1>2
<1> QED BY <1>1, <1>2

\* The wire number of a later packet, from that of an earlier one.
LEMMA WireLater ==
    ASSUME NEW l \in Layers, NEW f \in Packets, NEW n \in Packets, n >= f
    PROVE  LET t == Wire(l, f) + (n - f) IN
           /\ t < W => Wire(l, n) = t
           /\ ~(t < W) => Wire(l, n) = t - W
<1>1. Start[l] \in 0..W-1
  BY VideoAssumption
<1>2. f \in Nat /\ n \in Nat /\ f >= 1 /\ 2 * f <= W /\ 2 * n <= W
  BY Modulus
<1>3. \A s \in 0..W-1, x \in Int, y \in Int :
        /\ s + f - 1 < W => x = s + f - 1
        /\ ~(s + f - 1 < W) => x = (s + f - 1) - W
        /\ s + n - 1 < W => y = s + n - 1
        /\ ~(s + n - 1 < W) => y = (s + n - 1) - W
        => /\ x + (n - f) < W => y = x + (n - f)
           /\ ~(x + (n - f) < W) => y = (x + (n - f)) - W
  BY <1>2, Modulus
<1>4. Wire(l, f) \in Int /\ Wire(l, n) \in Int
  BY WireType
<1>5. /\ Start[l] + f - 1 < W => Wire(l, f) = Start[l] + f - 1
      /\ ~(Start[l] + f - 1 < W) => Wire(l, f) = (Start[l] + f - 1) - W
  BY WireIs, Zenon
<1>6. /\ Start[l] + n - 1 < W => Wire(l, n) = Start[l] + n - 1
      /\ ~(Start[l] + n - 1 < W) => Wire(l, n) = (Start[l] + n - 1) - W
  BY WireIs, Zenon
<1> QED BY <1>1, <1>3, <1>4, <1>5, <1>6, Zenon

\* Less than half the modulus away from max, it returns the number itself.
LEMMA ExpandExact ==
    ASSUME NEW s \in 0..W-1, NEW c \in 0..MaxSent-1, NEW d \in 0..MaxSent-1,
           NEW x \in Int,
           s + c < W => x = s + c,
           ~(s + c < W) => x = (s + c) - W
    PROVE  Expand(x, s + d) = s + c
<1> DEFINE h == W \div 2
<1>1. h \in Nat /\ 2 * h <= W /\ W <= 2 * h + 1 /\ MaxSent <= h
  BY Modulus
<1>2. s + d \in Nat /\ s + d < 2 * W /\ s + c \in Nat /\ s + c < 2 * W /\ W \in Nat \ {0}
  BY Modulus
<1>3. \A a \in Nat : a < 2 * W =>
        /\ a < W => a % W = a /\ a \div W = 0
        /\ ~(a < W) => a % W = a - W /\ a \div W = 1
  BY <1>2, ModTwice, DivTwice, Zenon
<1>4. CASE s + d < W
  <2>1. (s + d) % W = s + d /\ (s + d) \div W = 0
    BY <1>2, <1>3, <1>4, Zenon
  <2>2. Expand(x, s + d) = IF s + d > x /\ (s + d) - x > h THEN (0 + 1) * W + x ELSE 0 * W + x
    BY <2>1 DEF Expand
  <2>3. (0 + 1) * W + x = W + x /\ 0 * W + x = x
    BY <1>2
  <2> HIDE DEF h
  <2>4. CASE s + c < W
    <3>1. x = s + c /\ ~((s + d) - x > h)
      BY <1>1, <2>4, Modulus
    <3> QED BY <2>2, <2>3, <3>1, Zenon
  <2>5. CASE ~(s + c < W)
    <3>1. W + x = s + c /\ s + d > x /\ (s + d) - x > h
      BY <1>1, <2>5, Modulus
    <3> QED BY <2>2, <2>3, <3>1, Zenon
  <2> QED BY <2>4, <2>5
<1>5. CASE ~(s + d < W)
  <2> DEFINE top == (s + d) - W
  <2>1. (s + d) % W = top /\ (s + d) \div W = 1
    BY <1>2, <1>3, <1>5, Zenon
  <2>2. Expand(x, s + d) = IF top > x /\ top - x > h THEN (1 + 1) * W + x
                           ELSE IF x > top /\ x - top > h THEN (1 - 1) * W + x
                           ELSE 1 * W + x
    BY <2>1 DEF Expand
  <2>3. (1 - 1) * W + x = x /\ 1 * W + x = W + x
    BY <1>2
  <2> HIDE DEF h
  <2>4. CASE s + c < W
    <3>1. x = s + c /\ x > top /\ x - top > h /\ ~(top > x)
      BY <1>1, <2>4, Modulus
    <3> QED BY <2>2, <2>3, <3>1, Zenon
  <2>5. CASE ~(s + c < W)
    <3>1. W + x = s + c /\ ~(top - x > h) /\ ~(x - top > h)
      BY <1>1, <2>5, Modulus
    <3> QED BY <2>2, <2>3, <3>1, Zenon
  <2> QED BY <2>4, <2>5
<1> QED BY <1>4, <1>5

-----------------------------------------------------------------------------
(* What ReceiveRtp works with.                                             *)
New(p)    == p.layer # fwd.layer
State(p)  == IF New(p) THEN Begun(p) ELSE fwd
Number(p) == Expand(Wire(p.layer, p.n), State(p).max)
Epoch(p)  == Len(opened) + IF New(p) THEN 1 ELSE 0
First(p)  == IF New(p) THEN p ELSE opened[Len(opened)]
Fails(p)  == Number(p) < State(p).first.seq \/ Frame[p.n] < State(p).first.ts
Top(p)    == IF New(p) THEN State(p).out ELSE maxOut
OutSeq(p) == State(p).out.seq + Number(p) - State(p).first.seq
OutTs(p)  == State(p).out.ts + Frame[p.n] - State(p).first.ts

States == [layer : Layers, first : Numbers, out : Numbers, max : Nat]

\* The last of a sequence that is not empty.
LEMMA LastIn ==
    ASSUME TypeOK, opened # <<>>
    PROVE  Len(opened) # 0 /\ opened[Len(opened)] \in Message
<1>1. \A S : \A s \in Seq(S) : s # <<>> => Len(s) # 0 /\ s[Len(s)] \in S
  OBVIOUS
<1> QED BY <1>1 DEF TypeOK

\* Types of these, and the first packet they are about.
LEMMA Received ==
    ASSUME TypeOK, LastBegan, NEW p \in Message
    PROVE  /\ State(p) \in States /\ State(p).layer = p.layer
           /\ First(p) \in Message /\ First(p).layer = p.layer
           /\ State(p).first = [seq |-> Wire(p.layer, First(p).n), ts |-> Frame[First(p).n]]
           /\ Number(p) \in Nat
           /\ Epoch(p) \in Nat \ {0}
           /\ Frame[p.n] \in Nat
<1>1. p.layer \in Layers /\ p.n \in Packets /\ Frame[p.n] \in Nat
  BY VideoAssumption
<1>2. Wire(p.layer, p.n) \in 0..W-1
  BY <1>1, WireType
<1>3. Len(opened) \in Nat
  BY DEF TypeOK
<1>4. /\ State(p) \in States /\ State(p).layer = p.layer
      /\ First(p) \in Message /\ First(p).layer = p.layer
      /\ State(p).first = [seq |-> Wire(p.layer, First(p).n), ts |-> Frame[First(p).n]]
      /\ Epoch(p) \in Nat \ {0}
  <2>1. CASE New(p)
    <3>1. State(p) = Begun(p) /\ First(p) = p /\ Epoch(p) = Len(opened) + 1
      BY <2>1 DEF State, First, Epoch
    <3>2. Wire(p.layer, p.n) \in Nat
      BY <1>2
    <3>3. /\ Begun(p) \in States /\ Begun(p).layer = p.layer
          /\ Begun(p).first = [seq |-> Wire(p.layer, p.n), ts |-> Frame[p.n]]
      BY <1>1, <3>2 DEF Begun, States, TypeOK
    <3> QED BY <3>1, <3>3, <1>3
  <2>2. CASE ~New(p)
    <3>1. State(p) = fwd /\ First(p) = opened[Len(opened)] /\ Epoch(p) = Len(opened)
      BY <2>2, <1>3 DEF State, First, Epoch
    <3>2. fwd.layer = p.layer /\ fwd.layer # None
      BY <2>2, <1>1, VideoAssumption DEF New
    <3>3. opened # <<>> /\ fwd \in States
      BY <3>2 DEF TypeOK, LastBegan, States
    <3>4. Len(opened) # 0 /\ opened[Len(opened)] \in Message
      BY <3>3, LastIn
    <3> QED BY <3>1, <3>2, <3>3, <3>4, <1>3 DEF LastBegan
  <2> QED BY <2>1, <2>2
<1>5. Number(p) \in Nat
  <2>1. State(p).max \in Nat
    BY <1>4 DEF States
  <2> QED BY <2>1, <1>2, ExpandType DEF Number
<1> QED BY <1>1, <1>4, <1>5

\* An older packet than the first is sent only if it was misread.
LEMMA OlderIsMisread ==
    ASSUME TypeOK, LastBegan, NEW p \in Message, ~Fails(p), p.n < First(p).n
    PROVE  /\ Number(p) > State(p).first.seq
           /\ First(p).n \notin Keys
           /\ Frame[p.n] = Frame[First(p).n]
<1>1. /\ State(p) \in States /\ First(p) \in Message
      /\ State(p).first = [seq |-> Wire(p.layer, First(p).n), ts |-> Frame[First(p).n]]
      /\ Number(p) \in Nat /\ Frame[p.n] \in Nat
  BY Received
<1>2. p.layer \in Layers /\ p.n \in Packets /\ First(p).n \in Packets
  BY <1>1
<1>3. Frame[p.n] <= Frame[First(p).n] /\ (First(p).n \in Keys => Frame[p.n] < Frame[First(p).n])
  BY <1>2, VideoAssumption
<1>4. Frame[First(p).n] \in Nat /\ ~(Frame[p.n] < Frame[First(p).n])
  BY <1>1, <1>2, VideoAssumption DEF Fails
<1>5. Wire(p.layer, First(p).n) \in 0..W-1 /\ Wire(p.layer, p.n) \in 0..W-1
  BY <1>2, WireType
<1>6. Number(p) # Wire(p.layer, First(p).n)
  <2>1. State(p).max \in Nat
    BY <1>1 DEF States
  <2>2. Number(p) = Wire(p.layer, First(p).n) => Wire(p.layer, p.n) = Wire(p.layer, First(p).n)
    BY <2>1, <1>5, ExpandType DEF Number
  <2>3. Wire(p.layer, p.n) = Wire(p.layer, First(p).n) => p.n = First(p).n
    BY <1>2, WireInjective
  <2>4. p.n # First(p).n
    BY <1>2
  <2> QED BY <2>2, <2>3, <2>4
<1>7. ~(Number(p) < Wire(p.layer, First(p).n))
  BY <1>1 DEF Fails
<1> QED BY <1>1, <1>3, <1>4, <1>5, <1>6, <1>7

\* What ReceiveRtp does.
LEMMA Receiving ==
    ASSUME TypeOK, LastBegan, NEW p \in Message, ReceiveRtp(p)
    PROVE  /\ fwd' = [State(p) EXCEPT !.max = Larger(@, Number(p))]
           /\ opened' = IF New(p) THEN Append(opened, p) ELSE opened
           /\ opened'[Epoch(p)] = First(p)
           /\ misread' = (misread \/ (Number(p) > State(p).first.seq /\ p.n < First(p).n))
           /\ maxOut' \in Numbers
           /\ age' \in 0..Keep
           /\ DOMAIN sent' \subseteq DOMAIN sent \cup (IF Fails(p) THEN {} ELSE {<<Epoch(p), p.n>>})
<1>1. /\ State(p) \in States /\ First(p) \in Message
      /\ Number(p) \in Nat /\ Epoch(p) \in Nat \ {0} /\ Frame[p.n] \in Nat
  BY Received
<1>2. /\ fwd' = [State(p) EXCEPT !.max = Larger(@, Number(p))]
      /\ opened' = IF New(p) THEN Append(opened, p) ELSE opened
      /\ misread' = (misread \/ (Number(p) > State(p).first.seq /\ p.n < opened'[Epoch(p)].n))
  BY DEF ReceiveRtp, New, State, Number, Epoch
<1>3. opened'[Epoch(p)] = First(p)
  <2>1. opened \in Seq(Message)
    BY DEF TypeOK
  <2>2. CASE New(p)
    BY <1>2, <2>1, <2>2 DEF Epoch, First
  <2>3. CASE ~New(p)
    BY <1>2, <2>1, <2>3 DEF Epoch, First
  <2> QED BY <2>2, <2>3
<1>4. /\ maxOut' \in Numbers
      /\ age' \in 0..Keep
      /\ DOMAIN sent' \subseteq DOMAIN sent \cup (IF Fails(p) THEN {} ELSE {<<Epoch(p), p.n>>})
  <2> DEFINE top == IF New(p) THEN State(p).out ELSE maxOut
             seq == State(p).out.seq + Number(p) - State(p).first.seq
             ts  == State(p).out.ts + Frame[p.n] - State(p).first.ts
  <2>1. top \in Numbers
    BY <1>1 DEF TypeOK, States
  <2>2. CASE Fails(p)
    <3>1. maxOut' = top /\ age' = age /\ sent' = sent
      BY <2>2 DEF ReceiveRtp, New, State, Number, Epoch, Fails, cache
    <3> QED BY <2>1, <2>2, <3>1 DEF TypeOK
  <2>3. CASE ~Fails(p)
    <3>1. /\ maxOut' = [seq |-> Larger(top.seq, seq), ts |-> Larger(top.ts, ts)]
          /\ age' = IF age >= Keep THEN 0 ELSE age
          /\ DOMAIN sent' = DOMAIN sent \cup {<<Epoch(p), p.n>>}
      BY <2>3 DEF ReceiveRtp, Remember, New, State, Number, Epoch, Fails
    <3>2. seq \in Nat /\ ts \in Nat
      BY <1>1, <2>3 DEF Fails, States
    <3>3. Larger(top.seq, seq) \in Nat /\ Larger(top.ts, ts) \in Nat
      BY <2>1, <3>2 DEF Larger
    <3> HIDE DEF top, seq, ts
    <3>4. age' \in 0..Keep
      BY <3>1, VideoAssumption DEF TypeOK
    <3> QED BY <2>3, <3>1, <3>3, <3>4
  <2> QED BY <2>2, <2>3
<1> QED BY <1>2, <1>3, <1>4

\* A packet that is not older than the first is expanded rightly.
LEMMA Exact ==
    ASSUME TypeOK, LastBegan, Numbered, ~misread,
           NEW p \in Message, p.n >= First(p).n
    PROVE  /\ State(p).max - State(p).first.seq \in 0..MaxSent-1
           /\ Number(p) - State(p).first.seq = p.n - First(p).n
           /\ ~Fails(p)
<1>1. /\ State(p) \in States
      /\ First(p) \in Message /\ First(p).layer = p.layer
      /\ State(p).first = [seq |-> Wire(p.layer, First(p).n), ts |-> Frame[First(p).n]]
      /\ Frame[p.n] \in Nat
  BY Received
<1>2. p.layer \in Layers /\ p.n \in Packets /\ First(p).n \in Packets
  BY <1>1
<1>3. State(p).first.seq \in 0..W-1
  BY <1>1, <1>2, WireType
<1>4. State(p).max - State(p).first.seq \in 0..MaxSent-1
  <2>1. CASE New(p)
    <3>1. State(p).max = State(p).first.seq
      BY <2>1 DEF State, Begun
    <3> QED BY <1>3, <3>1, Modulus
  <2>2. CASE ~New(p)
    <3>1. State(p) = fwd /\ fwd.layer # None
      BY <1>2, <2>2, VideoAssumption DEF State, New
    <3> QED BY <3>1 DEF Numbered, LastBegan
  <2> QED BY <2>1, <2>2
<1>5. Number(p) = State(p).first.seq + (p.n - First(p).n)
  <2> DEFINE s == State(p).first.seq
             c == p.n - First(p).n
             d == State(p).max - State(p).first.seq
             x == Wire(p.layer, p.n)
  <2>1. s \in 0..W-1 /\ c \in 0..MaxSent-1 /\ d \in 0..MaxSent-1
    BY <1>2, <1>3, <1>4, Modulus
  <2>2. x \in Int
    BY <1>2, WireType
  <2>3. s = Wire(p.layer, First(p).n)
    BY <1>1
  <2>4. /\ s + c < W => x = s + c
        /\ ~(s + c < W) => x = (s + c) - W
    BY <1>2, <2>3, WireLater
  <2>5. s + d = State(p).max
    BY <1>1, <1>3, Modulus DEF States
  <2>6. Number(p) = Expand(x, s + d)
    BY <2>5 DEF Number
  <2> HIDE DEF s, c, d, x
  <2>7. Expand(x, s + d) = s + c
    BY <2>1, <2>2, <2>4, ExpandExact
  <2> QED BY <2>6, <2>7 DEF s, c
<1>6. Frame[First(p).n] <= Frame[p.n] /\ Frame[First(p).n] \in Nat
  BY <1>2, VideoAssumption
<1>7. ~Fails(p)
  BY <1>1, <1>2, <1>3, <1>5, <1>6, Modulus DEF Fails
<1> QED BY <1>2, <1>3, <1>4, <1>5, <1>7, Modulus

\* What it sends.
LEMMA Sending ==
    ASSUME NEW p \in Message, ReceiveRtp(p)
    PROVE  /\ Fails(p) => maxOut' = Top(p) /\ sent' = sent /\ UNCHANGED cache
           /\ ~Fails(p) =>
                /\ Remember(OutSeq(p) % W, [layer |-> p.layer, n |-> p.n])
                /\ maxOut' = [seq |-> Larger(Top(p).seq, OutSeq(p)),
                              ts  |-> Larger(Top(p).ts, OutTs(p))]
                /\ sent' = [q \in DOMAIN sent \cup {<<Epoch(p), p.n>>} |->
                              IF q = <<Epoch(p), p.n>>
                              THEN [seq |-> OutSeq(p), ts |-> OutTs(p), age |-> 0]
                              ELSE sent[q]]
<1>1. CASE Fails(p)
  BY <1>1 DEF ReceiveRtp, New, State, Number, Epoch, Fails, Top
<1>2. CASE ~Fails(p)
  BY <1>2 DEF ReceiveRtp, New, State, Number, Epoch, Fails, Top, OutSeq, OutTs
<1> QED BY <1>1, <1>2

\* What Numbering says of two packets, and then of those before the last epoch.
Apart(p, q) ==
    IF p[1] = q[1]
    THEN /\ sent[p].seq + q[2] = sent[q].seq + p[2]
         /\ sent[p].ts + Frame[q[2]] = sent[q].ts + Frame[p[2]]
    ELSE p[1] < q[1] =>
           /\ sent[p].seq + 1 < sent[q].seq
           /\ sent[p].ts < sent[q].ts

OlderApart ==
    /\ ~misread => \A p, q \in DOMAIN sent :
                     p[1] < Len(opened) /\ q[1] < Len(opened) => Apart(p, q)
    /\ opened \in Seq(Message)
    /\ DOMAIN sent \subseteq (DOMAIN opened) \X Packets
    /\ opened # <<>> => fwd.out \in Numbers

\* The last epoch adds pairs of which Numbered speaks.
LEMMA Pairs == Numbered /\ OlderApart => Numbering
<1> SUFFICES ASSUME Numbered, OlderApart, ~misread,
                    NEW p \in DOMAIN sent, NEW q \in DOMAIN sent
             PROVE  Apart(p, q)
  BY DEF Numbering, Apart
<1>1. /\ p[1] \in DOMAIN opened /\ q[1] \in DOMAIN opened
      /\ p[2] \in Packets /\ q[2] \in Packets
  BY DEF OlderApart
<1>2. Len(opened) \in Nat /\ p[1] \in 1..Len(opened) /\ q[1] \in 1..Len(opened)
  BY <1>1 DEF OlderApart
<1>3. opened # <<>> /\ fwd.out.seq \in Nat /\ fwd.out.ts \in Nat
  BY <1>1 DEF OlderApart
<1>4. /\ sent[p].seq \in Nat /\ sent[p].ts \in Nat
      /\ sent[q].seq \in Nat /\ sent[q].ts \in Nat
  BY DEF Numbered
<1>5. /\ Frame[p[2]] \in Nat /\ Frame[q[2]] \in Nat
      /\ \A m, n \in Packets : m <= n => Frame[m] <= Frame[n]
  BY <1>1, VideoAssumption
<1>6. CASE p[1] < Len(opened) /\ q[1] < Len(opened)
  BY <1>6 DEF OlderApart
<1>7. CASE q[1] = Len(opened)
  <2> DEFINE f == opened[q[1]].n
  <2>1. f \in Packets
    <3>1. \A S : \A s \in Seq(S) : \A e \in DOMAIN s : s[e] \in S
      OBVIOUS
    <3>2. opened[q[1]] \in Message
      BY <1>1, <3>1 DEF OlderApart
    <3> QED BY <3>2
  <2>2. /\ q[2] >= f
        /\ sent[q].seq = fwd.out.seq + (q[2] - f)
        /\ sent[q].ts = fwd.out.ts + (Frame[q[2]] - Frame[f])
    BY <1>7 DEF Numbered
  <2>3. Frame[f] \in Nat /\ Frame[f] <= Frame[q[2]]
    BY <1>1, <1>5, <2>1, <2>2, VideoAssumption
  <2> HIDE DEF f
  <2>4. CASE p[1] = q[1]
    <3>1. /\ sent[p].seq = fwd.out.seq + (p[2] - f)
          /\ sent[p].ts = fwd.out.ts + (Frame[p[2]] - Frame[f])
      BY <1>7, <2>4 DEF Numbered, f
    <3>2. sent[p].seq + q[2] = sent[q].seq + p[2]
      <4>1. /\ fwd.out.seq \in Int /\ p[2] \in Int /\ q[2] \in Int /\ f \in Int
            /\ sent[p].seq \in Int /\ sent[q].seq \in Int
        BY <1>1, <1>3, <1>4, <2>1
      <4> QED BY <2>2, <3>1, <4>1
    <3>3. sent[p].ts + Frame[q[2]] = sent[q].ts + Frame[p[2]]
      <4>1. /\ fwd.out.ts \in Int /\ Frame[p[2]] \in Int /\ Frame[q[2]] \in Int
            /\ Frame[f] \in Int /\ sent[p].ts \in Int /\ sent[q].ts \in Int
        BY <1>3, <1>4, <1>5, <2>3
      <4> QED BY <2>2, <3>1, <4>1
    <3> QED BY <2>4, <3>2, <3>3 DEF Apart
  <2>5. CASE p[1] # q[1]
    <3>1. sent[p].seq + 1 < fwd.out.seq /\ sent[p].ts < fwd.out.ts
      BY <1>7, <2>5 DEF Numbered
    <3>2. fwd.out.seq <= sent[q].seq
      BY <1>1, <1>3, <2>1, <2>2
    <3>3. fwd.out.ts <= sent[q].ts
      BY <1>3, <1>5, <2>2, <2>3
    <3> QED BY <1>3, <1>4, <2>5, <3>1, <3>2, <3>3 DEF Apart
  <2> QED BY <2>4, <2>5
<1>8. CASE p[1] = Len(opened) /\ q[1] < Len(opened)
  BY <1>2, <1>8 DEF Apart
<1> QED BY <1>2, <1>6, <1>7, <1>8

LEMMA PairsNext == Numbered' /\ OlderApart' => Numbering'
BY Pairs, PTL

\* A sequence with one more element.
LEMMA Appended ==
    ASSUME NEW S, NEW s \in Seq(S), NEW x \in S
    PROVE  LET t == Append(s, x) IN
           /\ t \in Seq(S) /\ t # <<>> /\ Len(t) = Len(s) + 1
           /\ DOMAIN s \subseteq DOMAIN t
           /\ \A e \in DOMAIN s : t[e] = s[e]
           /\ \A e \in DOMAIN t : e \in DOMAIN s \/ t[e] = x
OBVIOUS

\* It keeps its part of the invariant if an epoch begins where it may.
LEMMA ReceiveKeeps ==
    ASSUME TypeOK, LastBegan, CleanSwitch, NEW p \in Message, ReceiveRtp(p),
           delays' = 0 => delays = 0 /\ (New(p) => p.fresh \/ p.n \in Keys)
    PROVE  /\ fwd' \in States /\ fwd'.layer = p.layer
           /\ maxOut' \in Numbers /\ age' \in 0..Keep /\ misread' \in BOOLEAN
           /\ opened' \in Seq(Message)
           /\ DOMAIN sent' \subseteq (DOMAIN opened') \X Packets
           /\ LastBegan' /\ CleanSwitch'
<1>1. /\ fwd' = [State(p) EXCEPT !.max = Larger(@, Number(p))]
      /\ opened' = IF New(p) THEN Append(opened, p) ELSE opened
      /\ opened'[Epoch(p)] = First(p)
      /\ misread' = (misread \/ (Number(p) > State(p).first.seq /\ p.n < First(p).n))
      /\ maxOut' \in Numbers
      /\ age' \in 0..Keep
      /\ DOMAIN sent' \subseteq DOMAIN sent \cup (IF Fails(p) THEN {} ELSE {<<Epoch(p), p.n>>})
  BY Receiving
<1>2. /\ State(p) \in States /\ State(p).layer = p.layer
      /\ First(p) \in Message /\ First(p).layer = p.layer
      /\ State(p).first = [seq |-> Wire(p.layer, First(p).n), ts |-> Frame[First(p).n]]
      /\ Number(p) \in Nat /\ Epoch(p) \in Nat \ {0}
  BY Received
<1>3. /\ fwd' \in States /\ fwd'.layer = p.layer
      /\ fwd'.first = State(p).first
  BY <1>1, <1>2 DEF States, Larger
<1>4. /\ opened' \in Seq(Message)
      /\ opened' # <<>> /\ Len(opened') = Epoch(p)
      /\ DOMAIN opened \subseteq DOMAIN opened'
      /\ \A e \in DOMAIN opened : opened'[e] = opened[e]
      /\ \A e \in DOMAIN opened' : e \in DOMAIN opened \/ (New(p) /\ opened'[e] = p)
  <2>1. opened \in Seq(Message)
    BY DEF TypeOK
  <2>2. CASE New(p)
    <3>1. opened' = Append(opened, p) /\ Epoch(p) = Len(opened) + 1
      BY <1>1, <2>2 DEF Epoch
    <3> QED BY <2>1, <2>2, <3>1, Appended
  <2>3. CASE ~New(p)
    <3>1. opened # <<>>
      <4>1. fwd.layer # None
        BY <1>2, <2>3, VideoAssumption DEF New
      <4> QED BY <4>1 DEF LastBegan
    <3>2. Epoch(p) = Len(opened)
      BY <2>1, <2>3 DEF Epoch
    <3> QED BY <1>1, <2>1, <2>3, <3>1, <3>2
  <2> QED BY <2>2, <2>3
<1>5. Epoch(p) \in DOMAIN opened'
  <2>1. \A S : \A s \in Seq(S) : s # <<>> => Len(s) \in DOMAIN s
    OBVIOUS
  <2> QED BY <1>4, <2>1
<1>6. \A q \in DOMAIN sent' :
         \/ q \in DOMAIN sent
         \/ q = <<Epoch(p), p.n>> /\ ~Fails(p)
  BY <1>1
<1>7. DOMAIN sent \subseteq (DOMAIN opened) \X Packets
  BY DEF TypeOK
<1>8. DOMAIN sent' \subseteq (DOMAIN opened') \X Packets
  BY <1>4, <1>5, <1>6, <1>7
<1>9. misread' \in BOOLEAN /\ (misread => misread')
  BY <1>1
<1>10. LastBegan'
  <2>1. fwd'.layer # None
    BY <1>2, <1>3, VideoAssumption
  <2>2. opened'[Len(opened')] = First(p)
    BY <1>1, <1>4
  <2> QED BY <1>2, <1>3, <1>4, <2>1, <2>2 DEF LastBegan
<1>11. CleanSwitch'
  <2>1. ASSUME delays' = 0, NEW e \in DOMAIN opened'
        PROVE  opened'[e].fresh \/ opened'[e].n \in Keys
    <3>1. CASE e \in DOMAIN opened
      BY <1>4, <2>1, <3>1 DEF CleanSwitch
    <3>2. CASE e \notin DOMAIN opened
      BY <1>4, <2>1, <3>2
    <3> QED BY <3>1, <3>2
  <2>2. ASSUME NEW q \in DOMAIN sent', q[2] < opened'[q[1]].n
        PROVE  /\ misread'
               /\ opened'[q[1]].n \notin Keys
               /\ Frame[q[2]] = Frame[opened'[q[1]].n]
    <3>1. CASE q \in DOMAIN sent
      <4>1. q[1] \in DOMAIN opened
        BY <1>7, <3>1
      <4>2. opened'[q[1]] = opened[q[1]]
        BY <1>4, <4>1
      <4> QED BY <1>9, <2>2, <3>1, <4>2 DEF CleanSwitch
    <3>2. CASE q = <<Epoch(p), p.n>> /\ ~Fails(p)
      <4>1. q[1] = Epoch(p) /\ q[2] = p.n /\ opened'[q[1]] = First(p)
        BY <1>1, <3>2
      <4>2. p.n < First(p).n
        BY <2>2, <4>1
      <4>3. /\ Number(p) > State(p).first.seq
            /\ First(p).n \notin Keys
            /\ Frame[p.n] = Frame[First(p).n]
        BY <3>2, <4>2, OlderIsMisread
      <4> QED BY <1>1, <4>1, <4>2, <4>3
    <3> QED BY <1>6, <3>1, <3>2
  <2> QED BY <2>1, <2>2 DEF CleanSwitch
<1> QED BY <1>1, <1>3, <1>4, <1>8, <1>9, <1>10, <1>11

\* A packet older than the first of its epoch leaves everything as it is.
LEMMA OlderIsDropped ==
    ASSUME TypeOK, LastBegan, Numbered, NEW p \in Message, ReceiveRtp(p),
           ~misread', p.n < First(p).n
    PROVE  UNCHANGED <<fwd, maxOut, opened, sent, misread, cache>>
<1>1. /\ fwd' = [State(p) EXCEPT !.max = Larger(@, Number(p))]
      /\ opened' = IF New(p) THEN Append(opened, p) ELSE opened
      /\ misread' = (misread \/ (Number(p) > State(p).first.seq /\ p.n < First(p).n))
  BY Receiving
<1>2. /\ State(p) \in States /\ First(p) \in Message /\ Number(p) \in Nat
  BY Received
<1>3. ~New(p)
  BY <1>2 DEF First
<1>4. State(p) = fwd /\ fwd.layer # None
  BY <1>3, VideoAssumption DEF State, New
<1>5. ~misread /\ misread' = FALSE /\ ~(Number(p) > fwd.first.seq)
  BY <1>1, <1>4 DEF TypeOK
<1>6. Fails(p)
  BY <1>4, <1>5, OlderIsMisread
<1>7. maxOut' = maxOut /\ sent' = sent /\ cache' = cache
  BY <1>3, <1>6, Sending DEF Top
<1>8. fwd.first.seq <= fwd.max
  BY <1>2, <1>4, <1>5, Modulus DEF Numbered, LastBegan, States
<1>9. Larger(fwd.max, Number(p)) = fwd.max
  BY <1>2, <1>4, <1>5, <1>8 DEF Larger, States
<1>10. fwd' = fwd
  BY <1>1, <1>2, <1>4, <1>9 DEF States
<1>11. misread' = misread
  BY <1>5 DEF TypeOK
<1> QED BY <1>1, <1>3, <1>7, <1>10, <1>11

\* Receiving keeps the numbers right.
LEMMA NumberedKept ==
    ASSUME TypeOK, LastBegan, Numbered, Numbering, NEW p \in Message, ReceiveRtp(p),
           fwd' \in States, opened' \in Seq(Message),
           DOMAIN sent' \subseteq (DOMAIN opened') \X Packets
    PROVE  Numbered' /\ Numbering'
<1> SUFFICES ASSUME ~misread' PROVE Numbered' /\ Numbering'
  BY DEF Numbered, Numbering
<1>1. /\ fwd' = [State(p) EXCEPT !.max = Larger(@, Number(p))]
      /\ opened' = IF New(p) THEN Append(opened, p) ELSE opened
      /\ opened'[Epoch(p)] = First(p)
      /\ misread' = (misread \/ (Number(p) > State(p).first.seq /\ p.n < First(p).n))
  BY Receiving
<1>2. /\ State(p) \in States
      /\ First(p) \in Message /\ First(p).layer = p.layer
      /\ State(p).first = [seq |-> Wire(p.layer, First(p).n), ts |-> Frame[First(p).n]]
      /\ Number(p) \in Nat /\ Frame[p.n] \in Nat
  BY Received
<1>3. ~misread /\ p.n \in Packets /\ First(p).n \in Packets
  BY <1>1, <1>2
<1>4. CASE p.n < First(p).n
  <2>1. UNCHANGED <<fwd, maxOut, opened, sent, misread>>
    BY <1>4, OlderIsDropped
  <2> QED BY <2>1 DEF Numbered, Numbering
<1>5. CASE p.n >= First(p).n
  <2> DEFINE out == State(p).out
             c == p.n - First(p).n
             t == Frame[p.n] - Frame[First(p).n]
             e == Epoch(p)
             new == <<Epoch(p), p.n>>
  <2>1. /\ State(p).max - State(p).first.seq \in 0..MaxSent-1
        /\ Number(p) - State(p).first.seq = c
        /\ ~Fails(p)
    BY <1>3, <1>5, Exact
  <2>2. c \in 0..MaxSent-1 /\ t \in Nat /\ Frame[First(p).n] \in Nat
    <3>1. c \in 0..MaxSent-1
      BY <1>3, <1>5, Modulus
    <3>2. Frame[First(p).n] \in Nat /\ Frame[First(p).n] <= Frame[p.n]
      BY <1>3, <1>5, VideoAssumption
    <3> QED BY <1>2, <3>1, <3>2
  <2>3. /\ fwd'.out = out /\ fwd'.first = State(p).first
        /\ fwd'.max - fwd'.first.seq \in 0..MaxSent-1
    <3>1. fwd'.out = out /\ fwd'.first = State(p).first /\ fwd'.max = Larger(State(p).max, Number(p))
      BY <1>1, <1>2 DEF States
    <3>2. State(p).first.seq \in Nat /\ State(p).max \in Nat
      BY <1>2 DEF States
    <3>3. Larger(State(p).max, Number(p)) - State(p).first.seq \in 0..MaxSent-1
      BY <1>2, <2>1, <2>2, <3>2, Modulus DEF Larger
    <3> QED BY <3>1, <3>3
  <2>4. OutSeq(p) = out.seq + c /\ OutTs(p) = out.ts + t
    BY <1>2, <2>1 DEF OutSeq, OutTs, States
  <2>5. out.seq \in Nat /\ out.ts \in Nat
    BY <1>2 DEF States
  <2>6. /\ maxOut' = [seq |-> Larger(Top(p).seq, out.seq + c), ts |-> Larger(Top(p).ts, out.ts + t)]
        /\ sent' = [q \in DOMAIN sent \cup {new} |->
                      IF q = new
                      THEN [seq |-> out.seq + c, ts |-> out.ts + t, age |-> 0]
                      ELSE sent[q]]
    BY <2>1, <2>4, Sending
  <2>7. /\ Len(opened') = e /\ opened' # <<>> /\ opened'[e] = First(p)
        /\ Len(opened) \in Nat
        /\ New(p) => e = Len(opened) + 1
        /\ ~New(p) => e = Len(opened) /\ opened' = opened /\ State(p) = fwd
    <3>1. opened \in Seq(Message)
      BY DEF TypeOK
    <3>2. CASE New(p)
      BY <1>1, <3>1, <3>2, Appended DEF Epoch
    <3>3. CASE ~New(p)
      <4>1. opened # <<>>
        BY <1>2, <3>3, VideoAssumption DEF New, LastBegan
      <4> QED BY <1>1, <3>1, <3>3, <4>1 DEF Epoch, State
    <3> QED BY <3>2, <3>3
  <2>8. \A q \in DOMAIN sent : q[1] \in 1..Len(opened) /\ q[2] \in Packets
    BY <2>7, SMTT(30) DEF TypeOK
  <2>9. /\ Top(p).seq \in Nat /\ Top(p).ts \in Nat
        /\ maxOut.seq \in Nat /\ maxOut.ts \in Nat
        /\ maxOut.seq <= Top(p).seq /\ maxOut.ts <= Top(p).ts
        /\ New(p) => out.seq = maxOut.seq + 2 /\ out.ts = maxOut.ts + 1
    <3>1. maxOut.seq \in Nat /\ maxOut.ts \in Nat
      BY DEF TypeOK
    <3>2. CASE New(p)
      <4>1. out = [seq |-> maxOut.seq + 2, ts |-> maxOut.ts + 1] /\ Top(p) = out
        BY <3>2 DEF State, Begun, Top
      <4> QED BY <3>1, <3>2, <4>1
    <3>3. CASE ~New(p)
      BY <3>1, <3>3 DEF Top
    <3> QED BY <3>2, <3>3
  <2>10. /\ out.seq + c \in Nat /\ out.ts + t \in Nat
         /\ out.seq + c <= maxOut'.seq /\ out.ts + t <= maxOut'.ts
         /\ maxOut.seq <= maxOut'.seq /\ maxOut.ts <= maxOut'.ts
         /\ maxOut'.seq \in Nat /\ maxOut'.ts \in Nat
    <3>1. out.seq + c \in Nat /\ out.ts + t \in Nat
      BY <2>2, <2>5
    <3>2. \A x, y \in Nat : x <= Larger(x, y) /\ y <= Larger(x, y) /\ Larger(x, y) \in Nat
      BY DEF Larger
    <3>3. maxOut'.seq = Larger(Top(p).seq, out.seq + c) /\ maxOut'.ts = Larger(Top(p).ts, out.ts + t)
      BY <2>6
    <3> HIDE DEF out, c, t
    <3>4. /\ Top(p).seq <= maxOut'.seq /\ out.seq + c <= maxOut'.seq /\ maxOut'.seq \in Nat
          /\ Top(p).ts <= maxOut'.ts /\ out.ts + t <= maxOut'.ts /\ maxOut'.ts \in Nat
      BY <2>9, <3>1, <3>2, <3>3, Zenon
    <3> QED BY <2>9, <3>1, <3>4
  <2>11. ASSUME NEW q \in DOMAIN sent', q # new
         PROVE  /\ q \in DOMAIN sent /\ sent'[q] = sent[q]
                /\ q[1] = e => ~New(p)
    BY <2>6, <2>7, <2>8, <2>11
  <2>12. Numbered'
    <3>1. ASSUME NEW q \in DOMAIN sent'
          PROVE  /\ sent'[q] \in [seq : Nat, ts : Nat, age : Nat]
                 /\ sent'[q].seq <= maxOut'.seq /\ sent'[q].ts <= maxOut'.ts
                 /\ IF q[1] = e
                    THEN /\ q[2] >= First(p).n
                         /\ sent'[q].seq = out.seq + (q[2] - First(p).n)
                         /\ sent'[q].ts = out.ts + (Frame[q[2]] - Frame[First(p).n])
                    ELSE sent'[q].seq + 1 < out.seq /\ sent'[q].ts < out.ts
      <4>1. CASE q = new
        <5>1. sent'[q] = [seq |-> out.seq + c, ts |-> out.ts + t, age |-> 0]
              /\ q[1] = e /\ q[2] = p.n
          BY <2>6, <4>1
        <5> HIDE DEF new
        <5> QED BY <1>5, <2>10, <5>1
      <4>2. CASE q # new
        <5>1. q \in DOMAIN sent /\ sent'[q] = sent[q] /\ (q[1] = e => ~New(p))
          BY <2>11, <4>2
        <5>2. /\ sent[q] \in [seq : Nat, ts : Nat, age : Nat]
              /\ sent[q].seq <= maxOut.seq /\ sent[q].ts <= maxOut.ts
          BY <1>3, <5>1 DEF Numbered
        <5>3. sent[q].seq <= maxOut'.seq /\ sent[q].ts <= maxOut'.ts
          <6>1. sent[q].seq \in Nat /\ sent[q].ts \in Nat
            BY <5>2
          <6>2. \A x, y, z \in Nat : x <= y /\ y <= z => x <= z
            OBVIOUS
          <6> QED BY <2>9, <2>10, <5>2, <6>1, <6>2, Zenon
        <5>4. CASE New(p)
          BY <2>9, <5>1, <5>2, <5>3, <5>4, SMTT(30)
        <5>5. CASE ~New(p)
          BY <1>3, <2>7, <5>1, <5>2, <5>3, <5>5 DEF Numbered
        <5> QED BY <5>4, <5>5
      <4> QED BY <4>1, <4>2
    <3> QED BY <2>3, <2>7, <3>1 DEF Numbered
  <2>13. OlderApart'
    <3>1. ASSUME NEW q \in DOMAIN sent', NEW r \in DOMAIN sent',
                 q[1] < Len(opened'), r[1] < Len(opened')
          PROVE  Apart(q, r)'
      <4>1. q # new /\ r # new
        BY <2>7, <3>1
      <4>2. /\ q \in DOMAIN sent /\ sent'[q] = sent[q]
            /\ r \in DOMAIN sent /\ sent'[r] = sent[r]
        BY <2>11, <4>1
      <4> QED BY <1>3, <4>2 DEF Apart, Numbering
    <3>2. fwd'.out \in Numbers
      BY DEF States
    <3> QED BY <3>1, <3>2 DEF OlderApart
  <2> QED BY <2>12, <2>13, PairsNext
<1> QED BY <1>2, <1>3, <1>4, <1>5

\* Two numbers less than a modulus apart have different residues.
LEMMA ModApart ==
    ASSUME NEW w \in Nat \ {0}, NEW a \in Nat, NEW b \in Nat, a < b, b < a + w
    PROVE  a % w # b % w
<1>0. \A n \in Nat : n % w \in Nat /\ \E k \in Nat : n = w * k + (n % w)
  <2> TAKE n \in Nat
  <2>1. n \div w \in Nat /\ n % w \in Nat
    OBVIOUS
  <2>2. n = w * (n \div w) + (n % w)
    OBVIOUS
  <2> QED BY <2>1, <2>2, Zenon
<1>1. PICK i \in Nat : a = w * i + (a % w)
  BY <1>0
<1>2. PICK j \in Nat : b = w * j + (b % w)
  BY <1>0
<1> SUFFICES ASSUME a % w = b % w PROVE FALSE
  OBVIOUS
<1> DEFINE r == a % w
<1>3. a = i * w + r /\ b = j * w + r /\ r \in Nat
  BY <1>0, <1>1, <1>2
<1> HIDE DEF r
<1>4. i * w \in Nat /\ j * w \in Nat
  BY Product
<1>5. CASE i < j
  <2>1. PICK k \in Nat : j = i + 1 + k
    <3>1. j - i - 1 \in Nat
      BY <1>5
    <3> QED BY <3>1
  <2>2. j * w = i * w + w + k * w
    BY <2>1
  <2>3. k * w \in Nat
    BY Product
  <2> QED BY <1>3, <1>4, <2>2, <2>3
<1>6. CASE j <= i
  <2>1. PICK k \in Nat : i = j + k
    <3>1. i - j \in Nat
      BY <1>6
    <3> QED BY <3>1
  <2>2. i * w = j * w + k * w
    BY <2>1
  <2>3. k * w \in Nat
    BY Product
  <2> QED BY <1>3, <1>4, <2>2, <2>3
<1> QED BY <1>5, <1>6

\* A packet that is sent is found under its number, and no other packet less
\* than W numbers behind was sent under that number.
LEMMA SentApart ==
    ASSUME TypeOK, LastBegan, Numbered, Numbered', Numbering', ~misread', ~misread,
           NEW p \in Message, ReceiveRtp(p), p.n >= First(p).n,
           opened' \in Seq(Message), DOMAIN sent' \subseteq (DOMAIN opened') \X Packets,
           NEW e, e = Epoch(p)
    PROVE  LET new == <<e, p.n>> IN
           /\ new \in DOMAIN sent' /\ sent'[new].seq = OutSeq(p) /\ sent'[new].age = 0
           /\ Packet(new)' = [layer |-> p.layer, n |-> p.n]
           /\ \A q \in DOMAIN sent' : q # new => q \in DOMAIN sent /\ sent'[q] = sent[q]
           /\ \A q \in DOMAIN sent : /\ q \in DOMAIN sent' /\ sent'[q].seq = sent[q].seq
                                     /\ Packet(q)' = Packet(q)
           /\ maxOut.seq <= maxOut'.seq
           /\ \A q \in DOMAIN sent' : q # new /\ maxOut'.seq < sent'[q].seq + W =>
                 sent'[q].seq % W # OutSeq(p) % W
<1> DEFINE new == <<e, p.n>>
<1>1. /\ opened' = IF New(p) THEN Append(opened, p) ELSE opened
      /\ opened'[e] = First(p)
  BY Receiving
<1>2. /\ State(p) \in States
      /\ First(p) \in Message /\ First(p).layer = p.layer
      /\ Frame[p.n] \in Nat /\ Number(p) \in Nat
  BY Received
<1>3. ~Fails(p) /\ Number(p) - State(p).first.seq = p.n - First(p).n
  BY Exact
<1>4. /\ sent' = [q \in DOMAIN sent \cup {new} |->
                     IF q = new THEN [seq |-> OutSeq(p), ts |-> OutTs(p), age |-> 0]
                     ELSE sent[q]]
      /\ maxOut'.seq = Larger(Top(p).seq, OutSeq(p))
  <2>1. /\ maxOut' = [seq |-> Larger(Top(p).seq, OutSeq(p)),
                      ts  |-> Larger(Top(p).ts, OutTs(p))]
        /\ sent' = [q \in DOMAIN sent \cup {<<Epoch(p), p.n>>} |->
                      IF q = <<Epoch(p), p.n>>
                      THEN [seq |-> OutSeq(p), ts |-> OutTs(p), age |-> 0]
                      ELSE sent[q]]
    BY <1>3, Sending
  <2> QED BY <2>1
<1>5. OutSeq(p) = State(p).out.seq + (p.n - First(p).n)
  BY <1>2, <1>3 DEF OutSeq, States
<1>6. /\ Len(opened') = e /\ Len(opened) \in Nat /\ opened \in Seq(Message)
      /\ New(p) => e = Len(opened) + 1
      /\ ~New(p) => e = Len(opened) /\ opened' = opened /\ State(p) = fwd
      /\ \A i \in 1..Len(opened) : opened'[i] = opened[i]
  <2>1. opened \in Seq(Message)
    BY DEF TypeOK
  <2>2. CASE New(p)
    BY <1>1, <2>1, <2>2, Appended DEF Epoch
  <2>3. CASE ~New(p)
    BY <1>1, <2>1, <2>3 DEF Epoch, State
  <2> QED BY <2>1, <2>2, <2>3
<1>7. \A q \in DOMAIN sent : q[1] \in 1..Len(opened) /\ q[2] \in Packets
  BY <1>6, SMTT(30) DEF TypeOK
<1>8. \A q \in DOMAIN sent' : q = <<q[1], q[2]>> /\ q[1] \in 1..e /\ q[2] \in Packets
  BY <1>6, SMTT(30)
<1>9. new \in DOMAIN sent' /\ sent'[new].seq = OutSeq(p) /\ sent'[new].age = 0
  BY <1>4
<1>10. Packet(new)' = [layer |-> p.layer, n |-> p.n]
  BY <1>1, <1>2 DEF Packet, LayerOf
<1>11. \A q \in DOMAIN sent' : q # new => q \in DOMAIN sent /\ sent'[q] = sent[q]
  BY <1>4
<1>12. ASSUME NEW q \in DOMAIN sent
       PROVE  q \in DOMAIN sent' /\ sent'[q].seq = sent[q].seq /\ Packet(q)' = Packet(q)
  <2>1. q \in DOMAIN sent'
    BY <1>4
  <2>2. opened'[q[1]] = opened[q[1]]
    BY <1>6, <1>7
  <2>3. CASE q = new
    <3>1. q[1] = e /\ q[2] = p.n
      BY <2>3
    <3>2. ~New(p) /\ e = Len(opened) /\ State(p) = fwd
      BY <1>6, <1>7, <3>1
    <3>3. opened[q[1]] = First(p)
      BY <1>1, <2>2, <3>1
    <3>4. sent[q].seq = fwd.out.seq + (p.n - First(p).n)
      BY <3>1, <3>2, <3>3 DEF Numbered
    <3> QED BY <1>4, <1>5, <2>1, <2>2, <2>3, <3>2, <3>4 DEF Packet, LayerOf
  <2>4. CASE q # new
    BY <1>4, <2>1, <2>2, <2>4 DEF Packet, LayerOf
  <2> QED BY <2>3, <2>4
<1>13. /\ \A q \in DOMAIN sent' : sent'[q].seq \in Nat /\ sent'[q].seq <= maxOut'.seq
       /\ OutSeq(p) \in Nat /\ maxOut'.seq \in Nat
  <2>1. \A q \in DOMAIN sent' : sent'[q].seq \in Nat /\ sent'[q].seq <= maxOut'.seq
    BY DEF Numbered
  <2>2. maxOut' \in Numbers
    BY Receiving
  <2> QED BY <1>9, <2>1, <2>2
<1>14. maxOut.seq <= maxOut'.seq
  <2>1. maxOut.seq \in Nat
    BY DEF TypeOK
  <2>2. Top(p).seq \in Nat /\ maxOut.seq <= Top(p).seq
    BY <2>1, <1>2 DEF Top, State, Begun, States
  <2> QED BY <1>4, <1>13, <2>1, <2>2 DEF Larger
<1>15. ASSUME NEW q \in DOMAIN sent', q # new, maxOut'.seq < sent'[q].seq + W
       PROVE  sent'[q].seq % W # OutSeq(p) % W
  <2>1. W \in Nat \ {0} /\ MaxSent < W /\ MaxSent \in Nat
    BY Modulus
  <2>2. /\ sent'[q].seq \in Nat /\ OutSeq(p) \in Nat
        /\ OutSeq(p) <= maxOut'.seq /\ maxOut'.seq \in Nat
    BY <1>9, <1>13
  <2>3. CASE q[1] = e
    <3>1. q[2] # p.n /\ q[2] \in Packets /\ p.n \in Packets
      BY <1>2, <1>8, <1>15, <2>3
    <3>2. sent'[q].seq + p.n = OutSeq(p) + q[2]
      BY <1>9, <2>3 DEF Numbering
    <3>3. \/ sent'[q].seq < OutSeq(p) /\ OutSeq(p) < sent'[q].seq + W
          \/ OutSeq(p) < sent'[q].seq /\ sent'[q].seq < OutSeq(p) + W
      <4>1. \A a, b \in Nat, m, n \in Packets : m # n /\ a + n = b + m =>
               (a < b /\ b < a + W) \/ (b < a /\ a < b + W)
        BY <2>1
      <4> QED BY <2>2, <3>1, <3>2, <4>1, Zenon
    <3> QED BY <2>1, <2>2, <3>3, ModApart
  <2>4. CASE q[1] # e
    <3>1. q[1] < e
      BY <1>6, <1>8, <2>4
    <3>2. sent'[q].seq + 1 < OutSeq(p)
      BY <1>9, <2>4, <3>1 DEF Numbering
    <3>3. sent'[q].seq < OutSeq(p) /\ OutSeq(p) < sent'[q].seq + W
      <4>1. \A a, b, m \in Nat : a + 1 < b /\ b <= m /\ m < a + W => a < b /\ b < a + W
        BY <2>1
      <4> QED BY <1>15, <2>2, <3>2, <4>1, Zenon
    <3> QED BY <2>1, <2>2, <3>3, ModApart
  <2> QED BY <2>3, <2>4
<1> QED BY <1>9, <1>10, <1>11, <1>12, <1>14, <1>15

\* Receiving keeps the cache right.
LEMMA CachedKept ==
    ASSUME TypeOK, LastBegan, Numbered, Cached, Numbered', Numbering',
           NEW p \in Message, ReceiveRtp(p),
           opened' \in Seq(Message), DOMAIN sent' \subseteq (DOMAIN opened') \X Packets
    PROVE  Cached'
<1> SUFFICES ASSUME ~misread' PROVE Cached'
  BY DEF Cached
<1>1. ~misread /\ p.n \in Packets /\ First(p).n \in Packets
  BY Receiving, Received
<1>2. CASE p.n < First(p).n
  <2>1. UNCHANGED <<fwd, maxOut, opened, sent, misread, cache>>
    BY <1>2, OlderIsDropped
  <2> QED BY <2>1 DEF cache, Cached, Found, SentUnder, Packet, LayerOf
<1>3. CASE p.n >= First(p).n
  <2> PICK e : e = Epoch(p)
    OBVIOUS
  <2> DEFINE new == <<e, p.n>>
             x == OutSeq(p) % W
             packet == [layer |-> p.layer, n |-> p.n]
  <2>1. /\ new \in DOMAIN sent' /\ sent'[new].seq = OutSeq(p) /\ sent'[new].age = 0
        /\ Packet(new)' = packet
        /\ \A q \in DOMAIN sent' : q # new => q \in DOMAIN sent /\ sent'[q] = sent[q]
        /\ \A q \in DOMAIN sent : /\ q \in DOMAIN sent' /\ sent'[q].seq = sent[q].seq
                                  /\ Packet(q)' = Packet(q)
        /\ maxOut.seq <= maxOut'.seq
        /\ \A q \in DOMAIN sent' : q # new /\ maxOut'.seq < sent'[q].seq + W =>
              sent'[q].seq % W # x
    BY <1>1, <1>3, SentApart
  <2>2. Remember(x, packet)
    BY <1>1, <1>3, Exact, Sending
  <2> HIDE DEF x, packet
  <2>3. x \in DOMAIN young' /\ young'[x] = packet
    BY <2>2 DEF Remember
  <2>4. \/ /\ age >= Keep /\ age' = 0
           /\ DOMAIN young' = {x} /\ old' = young
        \/ /\ age < Keep /\ age' = age
           /\ DOMAIN young' = DOMAIN young \cup {x} /\ old' = old
           /\ \A y \in DOMAIN young : y # x => young'[y] = young[y]
    <3>1. age \in Nat /\ Keep \in Nat
      BY VideoAssumption DEF TypeOK
    <3>2. CASE age >= Keep
      BY <2>2, <3>2 DEF Remember
    <3>3. CASE age < Keep
      BY <2>2, <3>1, <3>3 DEF Remember
    <3> QED BY <3>1, <3>2, <3>3
  <2>5. ASSUME NEW q \in DOMAIN sent', sent'[q].age < Keep, maxOut'.seq < sent'[q].seq + W
        PROVE  Found(q)'
    <3>1. CASE q = new
      BY <2>1, <2>3, <3>1 DEF Found, x
    <3>2. CASE q # new
      <4> DEFINE y == sent[q].seq % W
      <4>1. /\ q \in DOMAIN sent /\ sent'[q] = sent[q]
            /\ Packet(q)' = Packet(q) /\ y # x
        BY <2>1, <2>5, <3>2
      <4>2. sent[q].seq \in Nat /\ sent[q].age \in Nat /\ maxOut.seq \in Nat /\ maxOut'.seq \in Nat
        BY <1>1, <4>1, Receiving DEF Numbered, TypeOK
      <4>3. Found(q)
        <5>1. \A a, b, c \in Nat : a <= b /\ b < c + W => a < c + W
          BY Modulus
        <5>2. maxOut.seq < sent[q].seq + W
          BY <2>1, <2>5, <4>1, <4>2, <5>1
        <5> QED BY <1>1, <2>5, <4>1, <5>2 DEF Cached
      <4>4. \/ y \in DOMAIN young' /\ young'[y] = Packet(q)
            \/ /\ y \notin DOMAIN young' /\ y \in DOMAIN old' /\ old'[y] = Packet(q)
               /\ sent[q].age >= age'
        <5>1. age \in Nat /\ Keep \in Nat
          BY VideoAssumption DEF TypeOK
        <5>2. \/ y \in DOMAIN young /\ young[y] = Packet(q)
              \/ /\ y \notin DOMAIN young /\ y \in DOMAIN old /\ old[y] = Packet(q)
                 /\ sent[q].age >= age
          BY <4>3 DEF Found
        <5> HIDE DEF y
        <5>3. CASE age >= Keep /\ age' = 0 /\ DOMAIN young' = {x} /\ old' = young
          BY <2>5, <4>1, <4>2, <5>1, <5>2, <5>3
        <5>4. CASE /\ age < Keep /\ age' = age
                   /\ DOMAIN young' = DOMAIN young \cup {x} /\ old' = old
                   /\ \A z \in DOMAIN young : z # x => young'[z] = young[z]
          BY <4>1, <5>2, <5>4
        <5> QED BY <2>4, <5>3, <5>4
      <4> QED BY <4>1, <4>4 DEF Found
    <3> QED BY <3>1, <3>2
  <2>6. \A y, k : SentUnder(y, k) =>
           \E q \in DOMAIN sent' : sent'[q].seq % W = y /\ k = Packet(q)'
    BY <2>1 DEF SentUnder
  <2>7. ASSUME NEW y \in DOMAIN young'
        PROVE  \E q \in DOMAIN sent' : sent'[q].seq % W = y /\ young'[y] = Packet(q)'
    <3>1. CASE y = x
      BY <2>1, <2>3, <3>1 DEF x
    <3>2. CASE y # x
      <4>1. y \in DOMAIN young /\ young'[y] = young[y]
        BY <2>4, <2>7, <3>2
      <4>2. SentUnder(y, young[y])
        BY <1>1, <4>1 DEF Cached
      <4> QED BY <4>1, <4>2, <2>6
    <3> QED BY <3>1, <3>2
  <2>8. ASSUME NEW y \in DOMAIN old'
        PROVE  \E q \in DOMAIN sent' : sent'[q].seq % W = y /\ old'[y] = Packet(q)'
    <3>1. \/ y \in DOMAIN young /\ old'[y] = young[y]
          \/ y \in DOMAIN old /\ old'[y] = old[y]
      BY <2>4, <2>8
    <3>2. SentUnder(y, old'[y])
      <4>1. CASE y \in DOMAIN young /\ old'[y] = young[y]
        BY <1>1, <4>1 DEF Cached, SentUnder
      <4>2. CASE y \in DOMAIN old /\ old'[y] = old[y]
        BY <1>1, <4>2 DEF Cached, SentUnder
      <4> QED BY <3>1, <4>1, <4>2
    <3> QED BY <2>6, <3>2
  <2> QED BY <2>5, <2>7, <2>8 DEF Cached, SentUnder
<1> QED BY <1>1, <1>2, <1>3

\* So does time, which ages what was sent as fast as the cache.
LEMMA CachedTick ==
    ASSUME TypeOK, Numbered, Cached, Tick
    PROVE  Cached'
<1> SUFFICES ASSUME ~misread' PROVE Cached'
  BY DEF Cached
<1>1. /\ UNCHANGED <<maxOut, opened, misread, young, old>>
      /\ DOMAIN sent' = DOMAIN sent
      /\ age' = IF age < Keep THEN age + 1 ELSE age
  BY DEF Tick, sender
<1>2. age \in Nat /\ Keep \in Nat
  BY VideoAssumption DEF TypeOK
<1>3. ASSUME NEW q \in DOMAIN sent
      PROVE  /\ sent'[q].seq = sent[q].seq /\ sent[q].age \in Nat
             /\ sent'[q].age = IF sent[q].age < Keep THEN sent[q].age + 1 ELSE sent[q].age
             /\ Packet(q)' = Packet(q)
  <2>1. sent[q] \in [seq : Nat, ts : Nat, age : Nat]
    BY <1>1, <1>3 DEF Numbered
  <2>2. sent'[q] = [sent[q] EXCEPT !.age = IF @ < Keep THEN @ + 1 ELSE @]
    BY <1>3 DEF Tick
  <2> QED BY <1>1, <2>1, <2>2 DEF Packet, LayerOf
<1>4. ASSUME NEW q \in DOMAIN sent', sent'[q].age < Keep, maxOut'.seq < sent'[q].seq + W
      PROVE  Found(q)'
  <2>1. /\ q \in DOMAIN sent
        /\ sent'[q].seq = sent[q].seq /\ Packet(q)' = Packet(q)
    BY <1>1, <1>3
  <2>2. sent[q].age < Keep /\ (sent[q].age >= age => sent'[q].age >= age')
    BY <1>1, <1>2, <1>3, <1>4
  <2>3. Found(q)
    BY <1>1, <1>4, <2>1, <2>2 DEF Cached
  <2> QED BY <1>1, <2>1, <2>2, <2>3 DEF Found
<1>5. \A y, k : SentUnder(y, k) =>
         \E q \in DOMAIN sent' : sent'[q].seq % W = y /\ k = Packet(q)'
  BY <1>1, <1>3 DEF SentUnder
<1>6. ASSUME NEW y \in DOMAIN young'
      PROVE  \E q \in DOMAIN sent' : sent'[q].seq % W = y /\ young'[y] = Packet(q)'
  <2>1. SentUnder(y, young[y])
    BY <1>1, <1>6 DEF Cached
  <2> QED BY <1>1, <1>5, <2>1
<1>7. ASSUME NEW y \in DOMAIN old'
      PROVE  \E q \in DOMAIN sent' : sent'[q].seq % W = y /\ old'[y] = Packet(q)'
  <2>1. SentUnder(y, old[y])
    BY <1>1, <1>7 DEF Cached
  <2> QED BY <1>1, <1>5, <2>1
<1> QED BY <1>4, <1>6, <1>7 DEF Cached, SentUnder

-----------------------------------------------------------------------------
LEMMA InitInv == Init => Inv
<1> SUFFICES ASSUME Init PROVE Inv
  OBVIOUS
<1>1. TypeOK
  <2>1. opened \in Seq(Message) /\ maxOut \in Numbers /\ fwd \in [layer : {None}]
    BY DEF Init
  <2>2. age \in 0..Keep
    BY VideoAssumption DEF Init
  <2>3. DOMAIN sent \subseteq (DOMAIN opened) \X Packets
    BY DEF Init
  <2> QED BY <2>1, <2>2, <2>3 DEF Init, TypeOK
<1>2. LastBegan
  BY DEF Init, LastBegan
<1>3. Follows
  BY DEF Init, Follows
<1>4. CleanSwitch
  BY DEF Init, CleanSwitch
<1>5. Numbered /\ Numbering
  BY DEF Init, Numbered, Numbering
<1>6. Cached
  BY DEF Init, Cached
<1> QED BY <1>1, <1>2, <1>3, <1>4, <1>5, <1>6 DEF Inv

\* The steps that leave the sending end alone, but for the age of what was sent.
LEMMA QuietInv ==
    ASSUME Inv, UNCHANGED sender, DOMAIN sent' = DOMAIN sent,
           delays' = 0 => delays = 0
    PROVE  LastBegan' /\ CleanSwitch'
BY DEF Inv, sender, LastBegan, CleanSwitch

LEMMA QuietNumbered ==
    ASSUME Inv, UNCHANGED sender, DOMAIN sent' = DOMAIN sent,
           \A q \in DOMAIN sent :
              sent'[q] = sent[q] \/ (~misread => sent'[q] \in
                 {[seq |-> sent[q].seq, ts |-> sent[q].ts, age |-> a] : a \in Nat})
    PROVE  Numbered' /\ Numbering'
<1>1. ~misread => \A q \in DOMAIN sent : /\ sent'[q] \in [seq : Nat, ts : Nat, age : Nat]
                                        /\ sent'[q].seq = sent[q].seq /\ sent'[q].ts = sent[q].ts
  BY DEF Inv, Numbered
<1>2. UNCHANGED <<fwd, maxOut, opened, misread>>
  BY DEF sender
<1>3. Numbered'
  BY <1>1, <1>2 DEF Inv, Numbered
<1>4. Numbering'
  BY <1>1, <1>2 DEF Inv, Numbering
<1> QED BY <1>3, <1>4

LEMMA QuietCached ==
    ASSUME Cached, UNCHANGED <<sender, cache, sent>>
    PROVE  Cached'
BY DEF sender, cache, Cached, Found, SentUnder, Packet, LayerOf

LEMMA NextInv == Inv /\ [Next]_vars => Inv'
<1> SUFFICES ASSUME Inv, [Next]_vars PROVE Inv'
  OBVIOUS
<1>0. TypeOK /\ LastBegan /\ Follows /\ CleanSwitch /\ Numbered /\ Numbering /\ Cached
  BY DEF Inv
<1>1. ASSUME NEW l \in Layers, Choose(l) PROVE Inv'
  <2>1. TypeOK'
    BY <1>0, <1>1 DEF Choose, TypeOK, cache, sender
  <2>2. LastBegan' /\ CleanSwitch'
    BY <1>1, QuietInv DEF Choose
  <2>4. Numbered' /\ Numbering'
    BY <1>1, QuietNumbered DEF Choose
  <2>5. Cached'
    BY <1>0, <1>1, QuietCached DEF Choose, cache, sender
  <2>3. Follows'
    BY <1>0, <1>1 DEF Choose, TypeOK, Follows, sender
  <2> QED BY <2>1, <2>2, <2>3, <2>4, <2>5 DEF Inv
<1>2. ASSUME Remove PROVE Inv'
  <2>1. TypeOK'
    BY <1>0, <1>2 DEF Remove, TypeOK, cache, sender
  <2>2. LastBegan' /\ CleanSwitch'
    BY <1>2, QuietInv DEF Remove
  <2>4. Numbered' /\ Numbering'
    BY <1>2, QuietNumbered DEF Remove
  <2>5. Cached'
    BY <1>0, <1>2, QuietCached DEF Remove, cache, sender
  <2>3. Follows'
    BY <1>0, <1>2 DEF Remove, Follows, sender
  <2> QED BY <2>1, <2>2, <2>3, <2>4, <2>5 DEF Inv
<1>3. ASSUME NEW l \in Layers, NEW n \in Packets, Arrive(l, n) PROVE Inv'
  <2> DEFINE p == [layer |-> l, n |-> n, fresh |-> fresh]
  <2>1. p \in Message /\ p.layer = l /\ p.n = n /\ p.fresh = fresh
    BY <1>0 DEF TypeOK
  <2>2. /\ route \in [from : Layers, to : Layers] /\ route # None
        /\ l = route.from \/ n \in Keys
        /\ route' = IF l = route.from THEN route ELSE [from |-> l, to |-> l]
        /\ fresh' = FALSE
        /\ came' = came + 1
    BY <1>0, <1>3 DEF Arrive, Forwards, TypeOK
  <2>3. route' \in [from : Layers, to : Layers] /\ route'.from = l
    BY <2>2
  <2>4. came' \in Nat
    BY <1>0, <2>2 DEF TypeOK
  <2>5. CASE ReceiveRtp(p) /\ UNCHANGED <<held, delays>>
    <3>1. delays = 0 => (New(p) => p.fresh \/ p.n \in Keys)
      BY <1>0, <2>1, <2>2, VideoAssumption DEF Follows, New, TypeOK
    <3> HIDE DEF p
    <3>2. /\ fwd' \in States /\ fwd'.layer = p.layer
          /\ maxOut' \in Numbers /\ age' \in 0..Keep /\ misread' \in BOOLEAN
          /\ opened' \in Seq(Message)
          /\ DOMAIN sent' \subseteq (DOMAIN opened') \X Packets
          /\ LastBegan' /\ CleanSwitch'
      BY <1>0, <2>1, <2>5, <3>1, ReceiveKeeps
    <3>3. TypeOK'
      BY <1>0, <2>2, <2>3, <2>4, <2>5, <3>2 DEF TypeOK, States
    <3>4. Follows'
      BY <1>0, <2>1, <2>3, <2>5, <3>2 DEF Follows
    <3>5. Numbered' /\ Numbering'
      BY <1>0, <2>1, <2>5, <3>2, NumberedKept
    <3>6. Cached'
      BY <1>0, <2>1, <2>5, <3>2, <3>5, CachedKept
    <3> QED BY <3>2, <3>3, <3>4, <3>5, <3>6 DEF Inv
  <2>6. CASE /\ delays' = delays + 1
             /\ held' = held \cup {p}
             /\ UNCHANGED <<sender, cache, sent>>
    <3>1. delays' \in Nat /\ delays' # 0
      BY <1>0, <2>6 DEF TypeOK
    <3>2. TypeOK'
      BY <1>0, <2>1, <2>2, <2>3, <2>4, <2>6, <3>1 DEF TypeOK, cache, sender
    <3>3. LastBegan' /\ CleanSwitch'
      BY <2>6, <3>1, QuietInv
    <3>4. Numbered' /\ Numbering'
      BY <2>6, QuietNumbered
    <3>5. Cached'
      BY <1>0, <2>6, QuietCached
    <3> QED BY <3>1, <3>2, <3>3, <3>4, <3>5 DEF Inv, Follows
  <2> QED BY <1>3, <2>5, <2>6 DEF Arrive
<1>4. ASSUME NEW p \in held, Late(p) PROVE Inv'
  <2>1. p \in Message /\ delays # 0
    BY <1>0, <1>4 DEF TypeOK, Follows
  <2>2. ReceiveRtp(p) /\ held' = held \ {p} /\ UNCHANGED <<route, fresh, delays, came>>
    BY <1>4 DEF Late
  <2>3. /\ fwd' \in States
        /\ maxOut' \in Numbers /\ age' \in 0..Keep /\ misread' \in BOOLEAN
        /\ opened' \in Seq(Message)
        /\ DOMAIN sent' \subseteq (DOMAIN opened') \X Packets
        /\ LastBegan' /\ CleanSwitch'
    BY <1>0, <2>1, <2>2, ReceiveKeeps
  <2>4. TypeOK'
    BY <1>0, <2>2, <2>3 DEF TypeOK, States
  <2>5. Follows'
    BY <2>1, <2>2 DEF Follows
  <2>6. Numbered' /\ Numbering'
    BY <1>0, <2>1, <2>2, <2>3, NumberedKept
  <2>7. Cached'
    BY <1>0, <2>1, <2>2, <2>3, <2>6, CachedKept
  <2> QED BY <2>3, <2>4, <2>5, <2>6, <2>7 DEF Inv
<1>5. ASSUME Tick PROVE Inv'
  <2>1. DOMAIN sent' = DOMAIN sent
    BY <1>5 DEF Tick
  <2>2. age' \in 0..Keep
    BY <1>0, <1>5, VideoAssumption DEF Tick, TypeOK
  <2>3. TypeOK'
    BY <1>0, <1>5, <2>1, <2>2 DEF Tick, TypeOK, sender
  <2>4. LastBegan' /\ CleanSwitch'
    BY <1>5, <2>1, QuietInv DEF Tick
  <2>5. Follows'
    BY <1>0, <1>5 DEF Tick, Follows, sender
  <2>6. ASSUME ~misread, NEW q \in DOMAIN sent
        PROVE  sent'[q] \in {[seq |-> sent[q].seq, ts |-> sent[q].ts, age |-> a] : a \in Nat}
    <3>1. sent[q] \in [seq : Nat, ts : Nat, age : Nat]
      BY <1>0, <2>6 DEF Numbered
    <3>2. sent'[q] = [sent[q] EXCEPT !.age = IF @ < Keep THEN @ + 1 ELSE @]
      BY <1>5, <2>6 DEF Tick
    <3>3. sent'[q] = [seq |-> sent[q].seq, ts |-> sent[q].ts,
                      age |-> IF sent[q].age < Keep THEN sent[q].age + 1 ELSE sent[q].age]
      BY <3>1, <3>2
    <3>4. (IF sent[q].age < Keep THEN sent[q].age + 1 ELSE sent[q].age) \in Nat
      BY <3>1
    <3> QED BY <3>3, <3>4
  <2>7. Numbered' /\ Numbering'
    BY <1>5, <2>1, <2>6, QuietNumbered DEF Tick
  <2>8. Cached'
    BY <1>0, <1>5, CachedTick
  <2> QED BY <2>3, <2>4, <2>5, <2>7, <2>8 DEF Inv
<1>6. CASE UNCHANGED vars
  <2>1. Cached'
    BY <1>0, <1>6, QuietCached DEF vars, sender, cache
  <2> QED BY <1>0, <1>6, <2>1 DEF vars, Inv, TypeOK, LastBegan, Follows, CleanSwitch,
                                  Numbered, Numbering
<1> QED BY <1>1, <1>2, <1>3, <1>4, <1>5, <1>6 DEF Next

LEMMA SpecInv == Spec => []Inv
BY InitInv, NextInv, PTL DEF Spec

(* The state of both ends keeps its types, and every number sent belongs   *)
(* to a packet of an epoch that has begun.                                 *)
THEOREM TypeCorrect == Spec => []TypeOK
<1>1. Inv => TypeOK
  BY DEF Inv
<1> QED BY <1>1, SpecInv, PTL

(* Whatever layers are chosen and whatever comes in whatever order, the    *)
(* picture changes over at key frames, and nothing older than the first    *)
(* packet of a layer follows it unless it was misread.                     *)
THEOREM CleanSwitchHolds == Spec => []CleanSwitch
<1>1. Inv => CleanSwitch
  BY DEF Inv
<1> QED BY <1>1, SpecInv, PTL

(* Whatever comes in whatever order, the destination gets one numbered     *)
(* stream unless a packet was misread: receive_rtp() with the arithmetic   *)
(* of expand_truncated_counter(), for every modulus at least twice the     *)
(* number of packets of a layer and wherever their numbers start.          *)
THEOREM NumberingHolds == Spec => []Numbering
<1>1. Inv => Numbering
  BY DEF Inv
<1> QED BY <1>1, SpecInv, PTL

(* A NACK brings the packet sent under the number it is about, whatever    *)
(* layers, duplicates and swaps of the cache came since, and never another *)
(* one: RtxSender::remember_sent() and the TwoGenerationCache, for every   *)
(* lifetime, modulus and order of arrival.                                 *)
THEOREM ResendsRightHolds == Spec => []ResendsRight
<1>1. Inv => ResendsRight
  <2> SUFFICES ASSUME Inv, ~misread PROVE ResendsRight
    BY DEF ResendsRight
  <2>1. Cached
    BY DEF Inv
  <2>2. ASSUME NEW q \in DOMAIN sent, sent[q].age < Keep, maxOut.seq < sent[q].seq + W
        PROVE  Resend(sent[q].seq % W) = Packet(q)
    <3>1. Found(q)
      BY <2>1, <2>2 DEF Cached
    <3> QED BY <3>1 DEF Found, Resend
  <2>3. ASSUME NEW x \in 0..W-1, Resend(x) # None
        PROVE  SentUnder(x, Resend(x))
    BY <2>1, <2>3 DEF Cached, Resend
  <2> QED BY <2>2, <2>3 DEF ResendsRight, SentUnder, Packet
<1> QED BY <1>1, SpecInv, PTL
=============================================================================
