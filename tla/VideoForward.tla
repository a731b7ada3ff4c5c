---------------------------- MODULE VideoForward ----------------------------
(***************************************************************************)
(* How one participant's video reaches another (media/src/stream.rs).      *)
(*                                                                         *)
(* The sender of the video sends it in several layers of different size,   *)
(* each a stream of RTP packets with numbers of its own.  The receiving    *)
(* end of the media server forwards one layer to a destination and goes    *)
(* over to another at a key frame.  The sending end, on the same server or *)
(* on another, renumbers what it gets so that the destination sees one     *)
(* stream, and keeps it for a while to answer the destination's NACKs.     *)
(*                                                                         *)
(* Packet n of a layer is the n-th its sender sent.  The network delivers  *)
(* any packet at any time, never, or (retransmitted) more than once; what  *)
(* comes while the receiver is muted is a packet never delivered.  Of the  *)
(* four numbers in Vp8RewrittenIds the model has the sequence number and   *)
(* the timestamp, and the timestamp does not wrap.  There is one sender    *)
(* and one destination.  A retransmission has the SSRC of its layer: that  *)
(* is so for layers with a rid, once a packet of the rid has come.         *)
(***************************************************************************)
EXTENDS Integers, Sequences

CONSTANTS
    Layers,     \* the rids of the simulcast layers
    W,          \* sequence numbers are modulo W (65536)
    Start,      \* the sequence number of each layer's first packet
    MaxSent,    \* the packets of a layer
    Frame,      \* the frame (timestamp) of the n-th packet
    Keys,       \* the packets that begin a key frame
    Keep,       \* the lifetime of a generation of the cache (10 s)
    MaxCame,    \* the bound on packets forwarded
    MaxDelays,  \* the bound on packets delayed between two servers
    None

ASSUME VideoAssumption ==
    /\ W \in Nat /\ MaxSent \in Nat \ {0} /\ 2 * MaxSent <= W
    /\ Start \in [Layers -> 0..W-1]
    /\ Frame \in [1..MaxSent -> Nat]
    /\ \A m, n \in 1..MaxSent : m < n => Frame[m] <= Frame[n]
    /\ Keys \subseteq 1..MaxSent
    /\ \A n \in Keys : \A m \in 1..n-1 : Frame[m] < Frame[n]
    /\ Keep \in Nat \ {0} /\ MaxCame \in Nat /\ MaxDelays \in Nat
    /\ None \notin Layers

VARIABLES
    route,      \* destination_layers[destination]: the layer it gets and the one it waits for
    held,       \* forwarded packets that others overtake on the way to the sending end
    fwd,        \* its ForwardState for this sender
    maxOut,     \* its max_outgoing
    young, old, \* the generations of its RtxSender's cache, packets by number
    age,        \* ticks since they were last swapped
    fresh,      \* nothing was forwarded since the destination was inserted
    opened,     \* the packets that began a renumbering, in order
    sent,       \* what was sent: by epoch and packet, its numbers and its age
    misread,    \* a packet from before a wrap came in an epoch begun behind it
    delays,     \* packets delayed so far
    came        \* packets forwarded so far

vars == <<route, held, fwd, maxOut, young, old, age, fresh, opened, sent, misread, delays, came>>

cache == <<young, old, age>>
sender == <<fwd, maxOut, opened, misread>>

-----------------------------------------------------------------------------
Packets == 1..MaxSent
Wire(l, n) == (Start[l] + n - 1) % W
Larger(x, y) == IF x > y THEN x ELSE y

Message == [layer : Layers, n : Packets, fresh : BOOLEAN]
Numbers == [seq : Nat, ts : Nat]

TypeOK ==
    /\ route \in [from : Layers, to : Layers] \cup {None}
    /\ held \subseteq Message
    /\ fwd \in [layer : {None}] \cup
              [layer : Layers, first : Numbers, out : Numbers, max : Nat]
    /\ maxOut \in Numbers
    /\ age \in 0..Keep
    /\ fresh \in BOOLEAN /\ misread \in BOOLEAN
    /\ opened \in Seq(Message)
    /\ DOMAIN sent \subseteq (DOMAIN opened) \X Packets
    /\ delays \in Nat /\ came \in Nat

Init ==
    /\ route = None
    /\ held = {}
    /\ fwd = [layer |-> None]
    /\ maxOut = [seq |-> 0, ts |-> 0]
    /\ young = <<>> /\ old = <<>> /\ age = 0
    /\ fresh = FALSE
    /\ opened = <<>>
    /\ sent = <<>>
    /\ misread = FALSE
    /\ delays = 0
    /\ came = 0

-----------------------------------------------------------------------------
(* The receiving end.                                                      *)

\* What would break CleanSwitch: the new layer holds at once.
Choose_AtOnce(l) ==
    /\ route' = [from |-> l, to |-> l]
    /\ fresh' = (fresh \/ route = None)
    /\ UNCHANGED <<held, sender, cache, sent, delays, came>>

\* update_destination_layer(): the first choice holds at once, a later one
\* when a key frame of the layer comes.
Choose(l) ==
    /\ route' = IF route = None THEN [from |-> l, to |-> l]
                ELSE [route EXCEPT !.to = l]
    /\ fresh' = (fresh \/ route = None)
    /\ UNCHANGED <<held, sender, cache, sent, delays, came>>

\* The same without a rid.
Remove ==
    /\ route # None
    /\ route' = None
    /\ UNCHANGED <<held, sender, cache, fresh, sent, delays, came>>

\* receive_rtp_packet(), its loop over the destinations.
Forwards(l, n) ==
    /\ route # None
    /\ \/ l = route.from
       \/ l = route.to /\ n \in Keys

-----------------------------------------------------------------------------
(* The sending end.                                                        *)

\* expand_truncated_counter(): the number that x stands for, near max.
Expand(x, max) ==
    LET top == max % W
        turns == max \div W
    IN  IF top > x /\ top - x > W \div 2 THEN (turns + 1) * W + x
        ELSE IF turns > 0 /\ x > top /\ x - top > W \div 2 THEN (turns - 1) * W + x
        ELSE turns * W + x

\* What would break Numbering: no number is left out.
Begun_NoHole(p) ==
    [layer   |-> p.layer,
     first   |-> [seq |-> Wire(p.layer, p.n), ts |-> Frame[p.n]],
     out     |-> [seq |-> maxOut.seq + 1, ts |-> maxOut.ts + 1],
     max     |-> Wire(p.layer, p.n)]

\* The ForwardState that a packet of another layer (SSRC) begins.
Begun(p) ==
    [layer   |-> p.layer,
     first   |-> [seq |-> Wire(p.layer, p.n), ts |-> Frame[p.n]],
     out     |-> [seq |-> maxOut.seq + 2, ts |-> maxOut.ts + 1],
     max     |-> Wire(p.layer, p.n)]

\* What would break ResendsRight: a swap drops both generations.
Remember_DropsBoth(number, packet) ==
    LET swap == age >= Keep
        base == IF swap THEN <<>> ELSE young
    IN  /\ young' = [x \in DOMAIN base \cup {number} |->
                        IF x = number THEN packet ELSE base[x]]
        /\ old' = IF swap THEN <<>> ELSE old
        /\ age' = IF swap THEN 0 ELSE age

\* RtxSender::remember_sent() and TwoGenerationCache::insert().
Remember(number, packet) ==
    LET swap == age >= Keep
        base == IF swap THEN <<>> ELSE young
    IN  /\ young' = [x \in DOMAIN base \cup {number} |->
                        IF x = number THEN packet ELSE base[x]]
        /\ old' = IF swap THEN young ELSE old
        /\ age' = IF swap THEN 0 ELSE age

\* VideoStreamSenderLocal::receive_rtp() of the packet p.
ReceiveRtp(p) ==
    LET new    == p.layer # fwd.layer
        state  == IF new THEN Begun(p) ELSE fwd
        top    == IF new THEN state.out ELSE maxOut
        number == Expand(Wire(p.layer, p.n), state.max)
        seq    == state.out.seq + number - state.first.seq
        ts     == state.out.ts + Frame[p.n] - state.first.ts
        epoch  == Len(opened) + IF new THEN 1 ELSE 0
    IN  /\ fwd' = [state EXCEPT !.max = Larger(@, number)]
        /\ opened' = IF new THEN Append(opened, p) ELSE opened
        /\ misread' = (misread \/ (number > state.first.seq /\ p.n < opened'[epoch].n))
        /\ IF number < state.first.seq \/ Frame[p.n] < state.first.ts
           THEN \* checked_sub() fails: the packet is from before the first
                /\ maxOut' = top
                /\ UNCHANGED <<cache, sent>>
           ELSE /\ maxOut' = [seq |-> Larger(top.seq, seq), ts |-> Larger(top.ts, ts)]
                /\ Remember(seq % W, [layer |-> p.layer, n |-> p.n])
                /\ sent' = [q \in DOMAIN sent \cup {<<epoch, p.n>>} |->
                              IF q = <<epoch, p.n>>
                              THEN [seq |-> seq, ts |-> ts, age |-> 0]
                              ELSE sent[q]]

\* A packet comes, is forwarded, and reaches the sending end at once (all that
\* is between them is a queue), or later or never if UDP is between them.
Arrive(l, n) ==
    LET p == [layer |-> l, n |-> n, fresh |-> fresh] IN
    /\ Forwards(l, n)
    /\ came < MaxCame
    /\ came' = came + 1
    /\ route' = IF l = route.from THEN route ELSE [from |-> l, to |-> l]
    /\ fresh' = FALSE
    /\ \/ /\ ReceiveRtp(p)
          /\ UNCHANGED <<held, delays>>
       \/ /\ delays < MaxDelays
          /\ delays' = delays + 1
          /\ held' = held \cup {p}
          /\ UNCHANGED <<sender, cache, sent>>

Late(p) ==
    /\ held' = held \ {p}
    /\ ReceiveRtp(p)
    /\ UNCHANGED <<route, fresh, delays, came>>

\* process_transportnack(): what a NACK of the number x brings.
Resend(x) ==
    IF x \in DOMAIN young THEN young[x]
    ELSE IF x \in DOMAIN old THEN old[x]
    ELSE None

Tick ==
    /\ age' = IF age < Keep THEN age + 1 ELSE age
    /\ sent' = [q \in DOMAIN sent |->
                  [sent[q] EXCEPT !.age = IF @ < Keep THEN @ + 1 ELSE @]]
    /\ UNCHANGED <<route, held, sender, young, old, fresh, delays, came>>

Next ==
    \/ \E l \in Layers : Choose(l)
    \/ Remove
    \/ \E l \in Layers, n \in Packets : Arrive(l, n)
    \/ \E p \in held : Late(p)
    \/ Tick

Spec == Init /\ [][Next]_vars

-----------------------------------------------------------------------------
\* The layer of the packets of an epoch.
LayerOf(e) == opened[e].layer

(* Vp8RewrittenIds and max_outgoing: within an epoch numbers and           *)
(* timestamps differ as the sender's do, so a hole is a packet that is     *)
(* missing; and a later epoch comes after everything before it, with at    *)
(* least one number left out.  So no number is used twice until W are      *)
(* used.  All of it unless a packet was misread: expand_truncated_counter() *)
(* takes no number below the first turn, and one from before the wrap      *)
(* moves the maximum a turn ahead.                                         *)
Numbering ==
    ~misread =>
        \A p, q \in DOMAIN sent :
            IF p[1] = q[1]
            THEN /\ sent[p].seq + q[2] = sent[q].seq + p[2]
                 /\ sent[p].ts + Frame[q[2]] = sent[q].ts + Frame[p[2]]
            ELSE p[1] < q[1] =>
                   /\ sent[p].seq + 1 < sent[q].seq
                   /\ sent[p].ts < sent[q].ts

(* receive_rtp_packet(), update_destination_layer() and checked_sub():     *)
(* unless packets are delayed, the picture changes over at a key           *)
(* frame only, or where the destination has just been inserted; and        *)
(* whatever happens, nothing from before the first packet of a layer is    *)
(* sent after it, but for a misread packet of the frame in whose middle a  *)
(* new destination began.                                                  *)
CleanSwitch ==
    /\ delays = 0 => \A e \in DOMAIN opened : opened[e].fresh \/ opened[e].n \in Keys
    /\ \A q \in DOMAIN sent :
         LET first == opened[q[1]] IN
         q[2] < first.n => /\ misread
                           /\ first.n \notin Keys
                           /\ Frame[q[2]] = Frame[first.n]

(* RtxSender and its two generations: a NACK for a number sent less than   *)
(* one lifetime and less than W numbers ago is answered with the packet    *)
(* sent under it, whatever layers and swaps came since; and a NACK is      *)
(* never answered with what was not sent under its number.                 *)
ResendsRight ==
    ~misread =>
        /\ \A q \in DOMAIN sent :
             sent[q].age < Keep /\ maxOut.seq < sent[q].seq + W =>
                Resend(sent[q].seq % W) = [layer |-> LayerOf(q[1]), n |-> q[2]]
        /\ \A x \in 0..W-1 : Resend(x) # None =>
             \E q \in DOMAIN sent :
                /\ sent[q].seq % W = x
                /\ Resend(x) = [layer |-> LayerOf(q[1]), n |-> q[2]]
=============================================================================
