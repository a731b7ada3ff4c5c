--------------------------- MODULE RpcStreamProofs ---------------------------
(***************************************************************************)
(* Proofs about RpcStream for any readers, batches and faults.             *)
(*                                                                         *)
(* Low(r) is where the next batch of r begins, or the rest of this one.    *)
(* Whatever r has passed on lies at or below it, unless r is caught before *)
(* a malformed entry (Below), so an entry is passed on twice only by a     *)
(* reader that is caught (Copies).  With a group nobody is caught, because *)
(* the group's cursor is behind the batch at once, and what two readers    *)
(* have is apart (Apart).                                                  *)
(*                                                                         *)
(* GroupDealsOut shows that a group implements WorkGroup: the rest of a    *)
(* batch, a channel and the tasks together are what a reader has in hand.  *)
(***************************************************************************)
EXTENDS RpcStream, TLAPS

\* Where the entries lie that readers and the group have come to.
Order ==
    /\ cursor <= sent
    /\ \A p \in pending : grouped /\ p <= cursor
    /\ \A r \in Readers :
        /\ key[r] <= sent
        /\ pc[r] # "idle" => from[r] <= sent
        /\ pc[r] = "reading" => ~grouped /\ tail[r]
        /\ pc[r] = "batch" =>
              /\ from[r] <= upto[r] /\ upto[r] <= sent /\ upto[r] <= from[r] + Count
              /\ grouped => upto[r] <= cursor
              /\ ~grouped /\ ~tail[r] => key[r] <= from[r]

\* No batch goes over a malformed entry.
NoneSkipped ==
    \A r \in Readers : ~grouped /\ ~tail[r] /\ pc[r] = "batch" =>
        \A b \in bad : ~(key[r] < b /\ b <= from[r])

\* What r has passed on to the service.
Done(r)   == {p \in Ids : handled[r][p] > 0}
Passed(r) == Queued(r) \cup taken[r] \cup acked[r] \cup Done(r)
Rest(r)   == IF pc[r] = "batch" THEN (from[r] + 1)..upto[r] ELSE {}

Range ==
    \A r \in Readers : \A p \in Passed(r) : p <= sent /\ (grouped => p <= cursor)

\* r may pass p on again: it is caught before a malformed entry behind p.
Caught(r, p) ==
    ~grouped /\ \E b \in bad : p < b /\ b <= sent /\ (faults > 0 \/ (~tail[r] /\ key[r] < b))

Low(r) ==
    IF pc[r] # "idle" THEN from[r]
    ELSE IF grouped THEN cursor
    ELSE IF tail[r] THEN sent
    ELSE key[r]

Below ==
    \A r \in Readers : \A p \in Passed(r) : p <= Low(r) \/ Caught(r, p)

Copies ==
    \A r \in Readers :
        /\ taken[r] \cap acked[r] = {}
        /\ \A p \in Ids : handled[r][p] = Many => Caught(r, p)
        /\ \A p \in Done(r) : p \in Queued(r) \cup taken[r] \cup acked[r] => Caught(r, p)
        /\ \A p \in Queued(r) : p \in taken[r] \cup acked[r] => Caught(r, p)
        /\ \A i, j \in DOMAIN queue[r] :
              i # j /\ queue[r][i] = queue[r][j] => Caught(r, queue[r][i])

Apart ==
    grouped => \A r, s \in Readers :
        r # s => (Passed(r) \cup Rest(r)) \cap (Passed(s) \cup Rest(s)) = {}

\* What has been acknowledged is not pending.
AckEnds ==
    \A r \in Readers : \A p \in acked[r] \cup Done(r) : p \notin pending

Inv ==
    /\ TypeOK
    /\ Order
    /\ NoneSkipped
    /\ Range
    /\ Below
    /\ Copies
    /\ Apart
    /\ AckEnds
    /\ LostOnlyByFault

-----------------------------------------------------------------------------
\* The elements of a channel.
Elems(q) == {q[i] : i \in DOMAIN q}

\* A send adds one at the end.
LEMMA AppendElems ==
    ASSUME NEW q \in Seq(Ids), NEW p \in Ids
    PROVE  /\ Append(q, p) \in Seq(Ids)
           /\ \A i \in DOMAIN Append(q, p) :
                  \/ i \in DOMAIN q /\ Append(q, p)[i] = q[i]
                  \/ i = Len(q) + 1 /\ Append(q, p)[i] = p
           /\ Elems(Append(q, p)) = Elems(q) \cup {p}
  <1>1. /\ Append(q, p) \in Seq(Ids)
        /\ DOMAIN q = 1..Len(q) /\ DOMAIN Append(q, p) = 1..(Len(q) + 1)
        /\ Len(q) \in Nat
        /\ \A i \in 1..Len(q) : Append(q, p)[i] = q[i]
        /\ Append(q, p)[Len(q) + 1] = p
    OBVIOUS
  <1>2. \A i \in DOMAIN Append(q, p) : i \in DOMAIN q \/ i = Len(q) + 1
    BY <1>1
  <1>3. DOMAIN q \subseteq DOMAIN Append(q, p) /\ Len(q) + 1 \in DOMAIN Append(q, p)
    BY <1>1
  <1> QED BY <1>1, <1>2, <1>3 DEF Elems

\* A receive takes the first.
LEMMA TailElems ==
    ASSUME NEW q \in Seq(Ids), q # <<>>
    PROVE  /\ Tail(q) \in Seq(Ids) /\ Head(q) \in Ids
           /\ 1 \in DOMAIN q /\ Head(q) = q[1]
           /\ \A i \in DOMAIN Tail(q) : i + 1 \in DOMAIN q /\ i + 1 # 1 /\ Tail(q)[i] = q[i + 1]
           /\ Elems(q) = Elems(Tail(q)) \cup {Head(q)}
  <1>1. Len(q) \in Nat /\ Len(q) > 0 /\ DOMAIN q = 1..Len(q)
    OBVIOUS
  <1>2. Tail(q) \in Seq(Ids) /\ Len(Tail(q)) = Len(q) - 1 /\ Head(q) = q[1]
    BY <1>1
  <1>3. \A i \in 1..(Len(q) - 1) : Tail(q)[i] = q[i + 1]
    BY <1>1, <1>2
  <1>4. DOMAIN Tail(q) = 1..(Len(q) - 1)
    BY <1>1, <1>2
  <1>5. \A i \in 1..Len(q) : i = 1 \/ (i - 1 \in 1..(Len(q) - 1) /\ Tail(q)[i - 1] = q[i])
    BY <1>1, <1>3
  <1>6. Elems(q) = Elems(Tail(q)) \cup {Head(q)}
    <2>1. \A x : x \in Elems(q) <=> \E i \in 1..Len(q) : x = q[i]
      BY <1>1 DEF Elems
    <2>2. \A x : x \in Elems(Tail(q)) <=> \E i \in 1..(Len(q) - 1) : x = Tail(q)[i]
      BY <1>4 DEF Elems
    <2>3. ASSUME NEW x \in Elems(Tail(q)) PROVE x \in Elems(q)
      <3>1. PICK i \in 1..(Len(q) - 1) : x = Tail(q)[i]
        BY <2>2
      <3>2. i + 1 \in 1..Len(q) /\ x = q[i + 1]
        BY <1>1, <1>3, <3>1
      <3> QED BY <2>1, <3>2
    <2>4. ASSUME NEW x \in Elems(q) PROVE x = Head(q) \/ x \in Elems(Tail(q))
      <3>1. PICK i \in 1..Len(q) : x = q[i]
        BY <2>1
      <3> QED BY <1>2, <1>5, <2>2, <3>1
    <2>5. Head(q) \in Elems(q)
      BY <1>1, <1>2, <2>1
    <2> QED BY <2>3, <2>4, <2>5
  <1> QED BY <1>1, <1>2, <1>3, <1>4, <1>6

\* The invariant holds at the start, of a stream without entries.
LEMMA InitInv == Init => Inv
  <1> SUFFICES ASSUME Init PROVE Inv OBVIOUS
  <1> USE CountAssumption DEF CountAssumption
  <1>1. TypeOK
    <2>1. bad \subseteq Ids BY DEF Init
    <2>2. \A r \in Readers : queue[r] = <<>> BY DEF Init
    <2>3. handled \in [Readers -> [Ids -> 0..Many]] BY DEF Init, Many
    <2>4. queue \in [Readers -> Seq(Ids)] BY DEF Init
    <2>5. /\ sent \in 0..MaxSent /\ cursor \in 0..MaxSent /\ faults \in 0..MaxFaults
          /\ key \in [Readers -> 0..MaxSent] /\ from \in [Readers -> 0..MaxSent]
          /\ upto \in [Readers -> 0..MaxSent]
      BY DEF Init
    <2> QED BY <2>1, <2>3, <2>4, <2>5 DEF Init, TypeOK
  <1>2. \A r \in Readers : Passed(r) = {} /\ Rest(r) = {} /\ pc[r] = "idle"
    BY DEF Init, Passed, Rest, Queued, Done
  <1>3. pending = {} /\ cursor <= sent /\ \A r \in Readers : key[r] <= sent
    BY DEF Init
  <1>4. Order /\ NoneSkipped /\ Range /\ Below /\ Apart /\ LostOnlyByFault
    BY <1>2, <1>3 DEF Order, NoneSkipped, Range, Below, Apart, LostOnlyByFault
  <1>5. Copies /\ AckEnds
    BY DEF Init, Copies, AckEnds, Done, Queued, Many
  <1> QED BY <1>1, <1>4, <1>5 DEF Inv


\* Every action keeps the types.
LEMMA TypeStep == Inv /\ [Next]_vars => TypeOK'
  <1> SUFFICES ASSUME Inv, [Next]_vars PROVE TypeOK' OBVIOUS
  <1> USE CountAssumption DEF CountAssumption, Inv, TypeOK, Ids, Upto, Many
  <1>1. ASSUME Send PROVE TypeOK'
    BY <1>1 DEF Send, stream, reader, tasks
  <1>2. ASSUME NEW r \in Readers, CreateGroup(r) PROVE TypeOK'
    BY <1>2 DEF CreateGroup, stream, reader, tasks
  <1>3. ASSUME NEW r \in Readers, ReadGroup(r) PROVE TypeOK'
    BY <1>3 DEF ReadGroup, GiveOut, Batch, stream, reader, tasks
  <1>4. ASSUME NEW r \in Readers, ReadTail(r) PROVE TypeOK'
    BY <1>4 DEF ReadTail, stream, reader, tasks
  <1>5. ASSUME NEW r \in Readers, ReadTailReturns(r) PROVE TypeOK'
    BY <1>5 DEF ReadTailReturns, Batch, stream, reader, tasks
  <1>6. ASSUME NEW r \in Readers, ReadTailEmpty(r) PROVE TypeOK'
    BY <1>6 DEF ReadTailEmpty, stream, reader, tasks
  <1>7. ASSUME NEW r \in Readers, ReadKey(r) PROVE TypeOK'
    BY <1>7, SMTT(30) DEF ReadKey, Batch, stream, reader, tasks
  <1>8. ASSUME NEW r \in Readers, Entry(r) PROVE TypeOK'
    <2>1. from[r] + 1 \in Ids /\ from[r] + 1 \in 0..MaxSent
      BY <1>8 DEF Entry
    <2>2. queue' \in [Readers -> Seq(Ids)]
      BY <1>8, <2>1, AppendElems DEF Entry
    <2> QED BY <1>8, <2>1, <2>2 DEF Entry, stream, tasks
  <1>9. ASSUME NEW r \in Readers, EntryBad(r) PROVE TypeOK'
    BY <1>9 DEF EntryBad, stream, reader, tasks
  <1>10. ASSUME NEW r \in Readers, BatchEnd(r) PROVE TypeOK'
    BY <1>10 DEF BatchEnd, stream, reader, tasks
  <1>11. ASSUME NEW r \in Readers, Receive(r) PROVE TypeOK'
    <2>1. queue' \in [Readers -> Seq(Ids)] /\ Head(queue[r]) \in Ids
      BY <1>11, TailElems DEF Receive
    <2> QED BY <1>11, <2>1 DEF Receive, stream, reader
  <1>12. ASSUME NEW r \in Readers, Crash(r) PROVE TypeOK'
    BY <1>12 DEF Crash, stream, reader, tasks
  <1>13. ASSUME NEW r \in Readers, ReplyLost(r) PROVE TypeOK'
    <2>1. /\ faults' = faults + 1 /\ faults' > 0 /\ faults' \in 0..MaxFaults
          /\ UNCHANGED <<sent, tail, key, from, upto, queue, taken, acked, handled>>
      BY <1>13 DEF ReplyLost, tasks
    <2>2. CASE grouped /\ made /\ pc[r] = "idle" /\ GiveOut /\ UNCHANGED pc
      BY <2>1, <2>2 DEF GiveOut
    <2>3. CASE pc[r] = "reading" /\ pc' = [pc EXCEPT ![r] = "idle"] /\ UNCHANGED stream
      BY <2>1, <2>3 DEF stream
    <2> QED BY <1>13, <2>2, <2>3 DEF ReplyLost
  <1>14. ASSUME NEW r \in Readers, NEW p \in Ids, Ack(r, p) PROVE TypeOK'
    BY <1>14 DEF Ack, stream, reader, tasks
  <1>15. ASSUME NEW r \in Readers, NEW p \in Ids, Handle(r, p) PROVE TypeOK'
    <2>1. handled[r] \in [Ids -> 0..2]
      OBVIOUS
    <2> DEFINE n == IF handled[r][p] < Many THEN handled[r][p] + 1 ELSE Many
    <2>2. handled' = [handled EXCEPT ![r] = [handled[r] EXCEPT ![p] = n]]
      BY <1>15 DEF Handle
    <2>5. handled[r][p] \in 0..2
      BY <2>1
    <2>4. n \in 0..2
      BY <2>5
    <2> HIDE DEF n
    <2>3. handled' \in [Readers -> [Ids -> 0..2]]
      BY <2>1, <2>2, <2>4
    <2> QED BY <1>15, <2>3 DEF Handle, stream, reader
  <1>16. CASE UNCHANGED vars
    BY <1>16 DEF vars
  <1> QED BY <1>1, <1>2, <1>3, <1>4, <1>5, <1>6, <1>7, <1>8, <1>9, <1>10, <1>11, <1>12, <1>13, <1>14, <1>15, <1>16 DEF Next, ReaderStep

\* Readers and the group come to what has been added.
LEMMA OrderStep == Inv /\ [Next]_vars => Order'
  <1> SUFFICES ASSUME Inv, [Next]_vars PROVE Order' OBVIOUS
  <1> USE CountAssumption DEF CountAssumption, Inv, TypeOK, Ids, Order, Upto
  <1>1. ASSUME Send PROVE Order'
    BY <1>1 DEF Send, stream, reader, tasks
  <1>2. ASSUME NEW r \in Readers, CreateGroup(r) PROVE Order'
    BY <1>2 DEF CreateGroup, stream, reader, tasks
  <1>3. ASSUME NEW r \in Readers, ReadGroup(r) PROVE Order'
    BY <1>3, SMTT(30) DEF ReadGroup, GiveOut, Batch, stream, reader, tasks
  <1>4. ASSUME NEW r \in Readers, ReadTail(r) PROVE Order'
    BY <1>4 DEF ReadTail, stream, reader, tasks
  <1>5. ASSUME NEW r \in Readers, ReadTailReturns(r) PROVE Order'
    BY <1>5 DEF ReadTailReturns, Batch, stream, reader, tasks
  <1>6. ASSUME NEW r \in Readers, ReadTailEmpty(r) PROVE Order'
    BY <1>6 DEF ReadTailEmpty, stream, reader, tasks
  <1>7. ASSUME NEW r \in Readers, ReadKey(r) PROVE Order'
    BY <1>7 DEF ReadKey, Batch, stream, reader, tasks
  <1>8. ASSUME NEW r \in Readers, Entry(r) PROVE Order'
    <2>1. /\ UNCHANGED <<grouped, bad, made, cursor, pending, sent, pc, tail, key, upto>>
          /\ from' = [from EXCEPT ![r] = from[r] + 1]
          /\ pc[r] = "batch" /\ from[r] < upto[r]
      BY <1>8 DEF Entry, stream
    <2>2. ASSUME NEW s \in Readers
          PROVE  /\ pc[s] # "idle" => from'[s] <= sent
                 /\ pc[s] = "batch" =>
                      /\ from'[s] <= upto[s] /\ upto[s] <= sent /\ upto[s] <= from'[s] + Count
                      /\ ~grouped /\ ~tail[s] => key[s] <= from'[s]
      <3>1. CASE s = r
        BY <2>1, <3>1
      <3>2. CASE s # r
        BY <2>1, <3>2
      <3> QED BY <3>1, <3>2
    <2> QED BY <2>1, <2>2
  <1>9. ASSUME NEW r \in Readers, EntryBad(r) PROVE Order'
    BY <1>9 DEF EntryBad, stream, reader, tasks
  <1>10. ASSUME NEW r \in Readers, BatchEnd(r) PROVE Order'
    BY <1>10 DEF BatchEnd, stream, reader, tasks
  <1>11. ASSUME NEW r \in Readers, Receive(r) PROVE Order'
    BY <1>11 DEF Receive, stream, reader, tasks
  <1>12. ASSUME NEW r \in Readers, Crash(r) PROVE Order'
    BY <1>12 DEF Crash, stream, reader, tasks
  <1>13. ASSUME NEW r \in Readers, ReplyLost(r) PROVE Order'
    <2>1. /\ faults' = faults + 1 /\ faults' > 0 /\ faults' \in Nat
          /\ UNCHANGED <<sent, tail, key, from, upto, queue, taken, acked, handled>>
      BY <1>13 DEF ReplyLost, tasks
    <2>2. CASE grouped /\ made /\ pc[r] = "idle" /\ GiveOut /\ UNCHANGED pc
      BY <2>1, <2>2 DEF GiveOut
    <2>3. CASE pc[r] = "reading" /\ pc' = [pc EXCEPT ![r] = "idle"] /\ UNCHANGED stream
      BY <2>1, <2>3 DEF stream
    <2> QED BY <1>13, <2>2, <2>3 DEF ReplyLost
  <1>14. ASSUME NEW r \in Readers, NEW p \in Ids, Ack(r, p) PROVE Order'
    BY <1>14 DEF Ack, stream, reader, tasks
  <1>15. ASSUME NEW r \in Readers, NEW p \in Ids, Handle(r, p) PROVE Order'
    BY <1>15 DEF Handle, stream, reader, tasks
  <1>16. CASE UNCHANGED vars
    BY <1>16 DEF vars
  <1> QED BY <1>1, <1>2, <1>3, <1>4, <1>5, <1>6, <1>7, <1>8, <1>9, <1>10, <1>11, <1>12, <1>13, <1>14, <1>15, <1>16 DEF Next, ReaderStep

\* What a step that leaves the channels and the tasks alone leaves alone.
LEMMA Same ==
    ASSUME UNCHANGED <<queue, taken, acked, handled>>
    PROVE  \A s \in Readers :
              Queued(s)' = Queued(s) /\ Done(s)' = Done(s) /\ Passed(s)' = Passed(s)
  BY DEF Queued, Done, Passed

\* The sets of a reader after an entry has been put on its channel.
LEMMA EntrySets ==
    ASSUME Inv, NEW r \in Readers, Entry(r)
    PROVE  /\ from[r] + 1 \in Ids /\ from[r] + 1 <= sent
           /\ Queued(r)' = Queued(r) \cup {from[r] + 1}
           /\ \A s \in Readers : s # r => Queued(s)' = Queued(s)
           /\ \A s \in Readers : Done(s)' = Done(s)
           /\ Passed(r)' = Passed(r) \cup {from[r] + 1}
           /\ \A s \in Readers : s # r => Passed(s)' = Passed(s)
  <1> USE CountAssumption DEF CountAssumption, Inv, TypeOK, Order, Ids
  <1>1. from[r] + 1 \in Ids /\ from[r] + 1 <= sent
    BY DEF Entry
  <1>2. queue'[r] = Append(queue[r], from[r] + 1) /\ \A s \in Readers : s # r => queue'[s] = queue[s]
    BY DEF Entry
  <1>3. Queued(r)' = Queued(r) \cup {from[r] + 1}
    <2>1. Elems(Append(queue[r], from[r] + 1)) = Elems(queue[r]) \cup {from[r] + 1}
      BY <1>1, AppendElems
    <2>2. Queued(r)' = Elems(queue'[r]) /\ Queued(r) = Elems(queue[r])
      BY DEF Queued, Elems
    <2> QED BY <1>2, <2>1, <2>2
  <1>4. \A s \in Readers : s # r => Queued(s)' = Queued(s)
    <2> TAKE s \in Readers
    <2> HAVE s # r
    <2>1. queue'[s] = queue[s]
      BY <1>2
    <2> QED BY <2>1 DEF Queued
  <1>5. UNCHANGED <<taken, acked, handled>>
    BY DEF Entry, tasks
  <1>6. \A s \in Readers : Done(s)' = Done(s)
    BY <1>5 DEF Done
  <1> QED BY <1>1, <1>3, <1>4, <1>5, <1>6 DEF Passed

\* The sets of a reader after its service has received an entry.
LEMMA ReceiveSets ==
    ASSUME Inv, NEW r \in Readers, Receive(r)
    PROVE  \E p \in Ids :
           /\ p = queue[r][1] /\ 1 \in DOMAIN queue[r] /\ p \in Queued(r)
           /\ p \notin taken[r] \cup acked[r]
           /\ taken' = [taken EXCEPT ![r] = @ \cup {p}]
           /\ Queued(r) = Queued(r)' \cup {p}
           /\ \A i \in DOMAIN queue'[r] :
                 i + 1 \in DOMAIN queue[r] /\ i + 1 # 1 /\ queue'[r][i] = queue[r][i + 1]
           /\ \A s \in Readers : s # r => Queued(s)' = Queued(s) /\ queue'[s] = queue[s]
           /\ \A s \in Readers : Done(s)' = Done(s)
           /\ \A s \in Readers : Passed(s)' = Passed(s)
           /\ UNCHANGED <<stream, reader, sent, acked, handled, faults>>
  <1> USE DEF Inv, TypeOK
  <1> DEFINE p == Head(queue[r])
  <1>1. queue[r] \in Seq(Ids) /\ queue[r] # <<>>
    BY DEF Receive
  <1>2. p \in Ids /\ p = queue[r][1] /\ 1 \in DOMAIN queue[r]
    BY <1>1, TailElems
  <1>3. queue'[r] = Tail(queue[r]) /\ \A s \in Readers : s # r => queue'[s] = queue[s]
    BY DEF Receive
  <1>4. \A i \in DOMAIN queue'[r] :
            i + 1 \in DOMAIN queue[r] /\ i + 1 # 1 /\ queue'[r][i] = queue[r][i + 1]
    BY <1>1, <1>3, TailElems
  <1>6. Queued(r) = Queued(r)' \cup {p}
    <2>1. Queued(r)' = Elems(queue'[r]) /\ Queued(r) = Elems(queue[r])
      BY DEF Queued, Elems
    <2> QED BY <1>1, <1>3, <2>1, TailElems
  <1>7. \A s \in Readers : s # r => Queued(s)' = Queued(s)
    BY <1>3 DEF Queued
  <1>8. \A s \in Readers : Done(s)' = Done(s)
    BY DEF Receive, Done
  <1>9. /\ p \notin taken[r] \cup acked[r]
        /\ taken' = [taken EXCEPT ![r] = @ \cup {p}]
        /\ UNCHANGED <<stream, reader, sent, acked, handled, faults>>
    BY DEF Receive
  <1>10. \A s \in Readers : Passed(s)' = Passed(s)
    <2> TAKE s \in Readers
    <2>1. CASE s = r
      BY <1>6, <1>8, <1>9, <2>1 DEF Passed
    <2>2. CASE s # r
      BY <1>7, <1>8, <1>9, <2>2 DEF Passed
    <2> QED BY <2>1, <2>2
  <1> QED BY <1>2, <1>3, <1>4, <1>6, <1>7, <1>8, <1>9, <1>10

\* The sets of a reader after a task has acknowledged its entry.
LEMMA AckSets ==
    ASSUME Inv, NEW r \in Readers, NEW p \in Ids, Ack(r, p)
    PROVE  /\ p \in taken[r]
           /\ taken' = [taken EXCEPT ![r] = @ \ {p}]
           /\ acked' = [acked EXCEPT ![r] = @ \cup {p}]
           /\ \A s \in Readers : Queued(s)' = Queued(s) /\ Done(s)' = Done(s)
           /\ \A s \in Readers : Passed(s)' = Passed(s)
           /\ UNCHANGED <<grouped, bad, made, cursor, reader, sent, queue, handled, faults>>
           /\ pending' = IF grouped THEN pending \ {p} ELSE pending
  <1> USE DEF Inv, TypeOK
  <1>1. /\ p \in taken[r]
        /\ taken' = [taken EXCEPT ![r] = @ \ {p}]
        /\ acked' = [acked EXCEPT ![r] = @ \cup {p}]
        /\ UNCHANGED <<grouped, bad, made, cursor, reader, sent, queue, handled, faults>>
        /\ pending' = IF grouped THEN pending \ {p} ELSE pending
    BY DEF Ack
  <1>2. \A s \in Readers : Queued(s)' = Queued(s) /\ Done(s)' = Done(s)
    BY <1>1 DEF Queued, Done
  <1>3. \A s \in Readers : taken'[s] \cup acked'[s] = taken[s] \cup acked[s]
    BY <1>1
  <1> QED BY <1>1, <1>2, <1>3 DEF Passed

\* The sets of a reader after a task has handled its entry.
LEMMA HandleSets ==
    ASSUME Inv, NEW r \in Readers, NEW p \in Ids, Handle(r, p)
    PROVE  /\ p \in acked[r]
           /\ acked' = [acked EXCEPT ![r] = @ \ {p}]
           /\ Done(r)' = Done(r) \cup {p}
           /\ \A s \in Readers : s # r => Done(s)' = Done(s)
           /\ \A s \in Readers : Queued(s)' = Queued(s)
           /\ \A s \in Readers : Passed(s)' = Passed(s)
           /\ \A s \in Readers, q \in Ids :
                 handled'[s][q] = Many => handled[s][q] = Many \/ (s = r /\ q = p /\ p \in Done(r))
           /\ UNCHANGED <<stream, reader, sent, queue, taken, faults>>
  <1> USE DEF Inv, TypeOK
  <1>1. /\ p \in acked[r]
        /\ acked' = [acked EXCEPT ![r] = @ \ {p}]
        /\ UNCHANGED <<stream, reader, sent, queue, taken, faults>>
    BY DEF Handle
  <1>2. handled[r] \in [Ids -> 0..2]
    BY DEF Many
  <1> DEFINE n == IF handled[r][p] < Many THEN handled[r][p] + 1 ELSE Many
  <1>31. handled' = [handled EXCEPT ![r] = [handled[r] EXCEPT ![p] = n]]
    BY DEF Handle
  <1>32. n \in 1..2 /\ (n = 2 => handled[r][p] > 0)
    <2>1. handled[r][p] \in 0..2
      BY <1>2
    <2> QED BY <2>1 DEF Many
  <1> HIDE DEF n
  <1>3. /\ n \in 1..2
        /\ handled' = [handled EXCEPT ![r] = [handled[r] EXCEPT ![p] = n]]
        /\ n = 2 => handled[r][p] > 0
    BY <1>31, <1>32
  <1>4. /\ handled'[r][p] = n
        /\ \A q \in Ids : q # p => handled'[r][q] = handled[r][q]
        /\ \A s \in Readers : s # r => handled'[s] = handled[s]
    BY <1>2, <1>3
  <1>5. Done(r)' = Done(r) \cup {p} /\ \A s \in Readers : s # r => Done(s)' = Done(s)
    <2>1. \A q \in Ids : handled'[r][q] > 0 <=> q = p \/ handled[r][q] > 0
      BY <1>3, <1>4
    <2>2. Done(r)' = Done(r) \cup {p}
      BY <2>1 DEF Done
    <2>3. \A s \in Readers : s # r => Done(s)' = Done(s)
      BY <1>4 DEF Done
    <2> QED BY <2>2, <2>3
  <1>6. \A s \in Readers : Queued(s)' = Queued(s)
    BY <1>1 DEF Queued
  <1>7. \A s \in Readers, q \in Ids :
            handled'[s][q] = Many => handled[s][q] = Many \/ (s = r /\ q = p /\ p \in Done(r))
    BY <1>3, <1>4 DEF Done, Many
  <1>8. \A s \in Readers : Passed(s)' = Passed(s)
    <2> TAKE s \in Readers
    <2>1. CASE s = r
      BY <1>1, <1>5, <1>6, <2>1 DEF Passed
    <2>2. CASE s # r
      BY <1>1, <1>5, <1>6, <2>2 DEF Passed
    <2> QED BY <2>1, <2>2
  <1> QED BY <1>1, <1>5, <1>6, <1>7, <1>8

\* The sets of a reader after its process has restarted.
LEMMA CrashSets ==
    ASSUME Inv, NEW r \in Readers, Crash(r)
    PROVE  /\ queue'[r] = <<>> /\ taken'[r] = {} /\ acked'[r] = {} /\ Queued(r)' = {}
           /\ pc'[r] = "idle" /\ tail'[r] = TRUE /\ faults' > 0
           /\ \A s \in Readers : Done(s)' = Done(s) /\ handled'[s] = handled[s]
           /\ \A s \in Readers : s # r =>
                 /\ queue'[s] = queue[s] /\ taken'[s] = taken[s] /\ acked'[s] = acked[s]
                 /\ pc'[s] = pc[s] /\ tail'[s] = tail[s] /\ Queued(s)' = Queued(s)
           /\ \A s \in Readers : Passed(s)' \subseteq Passed(s)
           /\ UNCHANGED <<stream, sent, key, from, upto>>
  <1> USE DEF Inv, TypeOK
  <1>1. /\ queue'[r] = <<>> /\ taken'[r] = {} /\ acked'[r] = {}
        /\ pc'[r] = "idle" /\ tail'[r] = TRUE /\ faults' > 0
        /\ UNCHANGED <<stream, sent, key, from, upto, handled>>
        /\ \A s \in Readers : s # r =>
                 /\ queue'[s] = queue[s] /\ taken'[s] = taken[s] /\ acked'[s] = acked[s]
                 /\ pc'[s] = pc[s] /\ tail'[s] = tail[s]
    BY DEF Crash
  <1>2. Queued(r)' = {}
    BY <1>1 DEF Queued
  <1>3. \A s \in Readers : s # r => Queued(s)' = Queued(s)
    BY <1>1, SMTT(30) DEF Queued
  <1>4. \A s \in Readers : Done(s)' = Done(s) /\ handled'[s] = handled[s]
    BY <1>1 DEF Done
  <1>5. \A s \in Readers : Passed(s)' \subseteq Passed(s)
    <2> TAKE s \in Readers
    <2>1. CASE s = r
      BY <1>1, <1>2, <1>4, <2>1 DEF Passed
    <2>2. CASE s # r
      BY <1>1, <1>3, <1>4, <2>2 DEF Passed
    <2> QED BY <2>1, <2>2
  <1> QED BY <1>1, <1>2, <1>3, <1>4, <1>5


\* A batch stops at a malformed entry.
LEMMA NoneSkippedStep == Inv /\ [Next]_vars => NoneSkipped'
  <1> SUFFICES ASSUME Inv, [Next]_vars PROVE NoneSkipped' OBVIOUS
  <1> USE CountAssumption DEF CountAssumption, Inv, TypeOK, Ids, Order, NoneSkipped
  <1>1. ASSUME Send PROVE NoneSkipped'
    BY <1>1 DEF Send, stream, reader, tasks
  <1>2. ASSUME NEW r \in Readers, CreateGroup(r) PROVE NoneSkipped'
    BY <1>2 DEF CreateGroup, stream, reader, tasks
  <1>3. ASSUME NEW r \in Readers, ReadGroup(r) PROVE NoneSkipped'
    BY <1>3 DEF ReadGroup, GiveOut, Batch, stream, reader, tasks
  <1>4. ASSUME NEW r \in Readers, ReadTail(r) PROVE NoneSkipped'
    BY <1>4 DEF ReadTail, stream, reader, tasks
  <1>5. ASSUME NEW r \in Readers, ReadTailReturns(r) PROVE NoneSkipped'
    BY <1>5 DEF ReadTailReturns, Batch, stream, reader, tasks
  <1>6. ASSUME NEW r \in Readers, ReadTailEmpty(r) PROVE NoneSkipped'
    BY <1>6 DEF ReadTailEmpty, stream, reader, tasks
  <1>7. ASSUME NEW r \in Readers, ReadKey(r) PROVE NoneSkipped'
    BY <1>7, SMTT(30) DEF ReadKey, Batch, stream, reader, tasks
  <1>8. ASSUME NEW r \in Readers, Entry(r) PROVE NoneSkipped'
    BY <1>8 DEF Entry, stream, reader, tasks
  <1>9. ASSUME NEW r \in Readers, EntryBad(r) PROVE NoneSkipped'
    BY <1>9 DEF EntryBad, stream, reader, tasks
  <1>10. ASSUME NEW r \in Readers, BatchEnd(r) PROVE NoneSkipped'
    BY <1>10 DEF BatchEnd, stream, reader, tasks
  <1>11. ASSUME NEW r \in Readers, Receive(r) PROVE NoneSkipped'
    BY <1>11 DEF Receive, stream, reader, tasks
  <1>12. ASSUME NEW r \in Readers, Crash(r) PROVE NoneSkipped'
    BY <1>12 DEF Crash, stream, reader, tasks
  <1>13. ASSUME NEW r \in Readers, ReplyLost(r) PROVE NoneSkipped'
    <2>1. /\ faults' = faults + 1 /\ faults' > 0 /\ faults' \in Nat
          /\ UNCHANGED <<sent, tail, key, from, upto, queue, taken, acked, handled>>
      BY <1>13 DEF ReplyLost, tasks
    <2>2. CASE grouped /\ made /\ pc[r] = "idle" /\ GiveOut /\ UNCHANGED pc
      BY <2>1, <2>2 DEF GiveOut
    <2>3. CASE pc[r] = "reading" /\ pc' = [pc EXCEPT ![r] = "idle"] /\ UNCHANGED stream
      BY <2>1, <2>3 DEF stream
    <2> QED BY <1>13, <2>2, <2>3 DEF ReplyLost
  <1>14. ASSUME NEW r \in Readers, NEW p \in Ids, Ack(r, p) PROVE NoneSkipped'
    BY <1>14 DEF Ack, stream, reader, tasks
  <1>15. ASSUME NEW r \in Readers, NEW p \in Ids, Handle(r, p) PROVE NoneSkipped'
    BY <1>15 DEF Handle, stream, reader, tasks
  <1>16. CASE UNCHANGED vars
    BY <1>16 DEF vars
  <1> QED BY <1>1, <1>2, <1>3, <1>4, <1>5, <1>6, <1>7, <1>8, <1>9, <1>10, <1>11, <1>12, <1>13, <1>14, <1>15, <1>16 DEF Next, ReaderStep

\* A reader that is caught stays so, or has restarted.
LEMMA CaughtStep == Inv /\ [Next]_vars => (\A s \in Readers, q \in Ids : Caught(s, q) => Caught(s, q)')
  <1> DEFINE Goal ==\A s \in Readers, q \in Ids : Caught(s, q) => Caught(s, q)'
  <1> SUFFICES ASSUME Inv, [Next]_vars PROVE Goal OBVIOUS
  <1> USE CountAssumption DEF CountAssumption, Inv, TypeOK, Ids, Order, NoneSkipped, Caught
  <1>1. ASSUME Send PROVE Goal
    BY <1>1 DEF Send, stream, reader, tasks
  <1>2. ASSUME NEW r \in Readers, CreateGroup(r) PROVE Goal
    BY <1>2 DEF CreateGroup, stream, reader, tasks
  <1>3. ASSUME NEW r \in Readers, ReadGroup(r) PROVE Goal
    BY <1>3 DEF ReadGroup, GiveOut, Batch, stream, reader, tasks
  <1>4. ASSUME NEW r \in Readers, ReadTail(r) PROVE Goal
    BY <1>4 DEF ReadTail, stream, reader, tasks
  <1>5. ASSUME NEW r \in Readers, ReadTailReturns(r) PROVE Goal
    BY <1>5 DEF ReadTailReturns, Batch, stream, reader, tasks
  <1>6. ASSUME NEW r \in Readers, ReadTailEmpty(r) PROVE Goal
    BY <1>6 DEF ReadTailEmpty, stream, reader, tasks
  <1>7. ASSUME NEW r \in Readers, ReadKey(r) PROVE Goal
    BY <1>7 DEF ReadKey, Batch, stream, reader, tasks
  <1>8. ASSUME NEW r \in Readers, Entry(r) PROVE Goal
    BY <1>8 DEF Entry, stream, reader, tasks
  <1>9. ASSUME NEW r \in Readers, EntryBad(r) PROVE Goal
    BY <1>9 DEF EntryBad, stream, reader, tasks
  <1>10. ASSUME NEW r \in Readers, BatchEnd(r) PROVE Goal
    BY <1>10 DEF BatchEnd, stream, reader, tasks
  <1>11. ASSUME NEW r \in Readers, Receive(r) PROVE Goal
    BY <1>11 DEF Receive, stream, reader, tasks
  <1>12. ASSUME NEW r \in Readers, Crash(r) PROVE Goal
    BY <1>12 DEF Crash, stream, reader, tasks
  <1>13. ASSUME NEW r \in Readers, ReplyLost(r) PROVE Goal
    <2>1. /\ faults' = faults + 1 /\ faults' > 0 /\ faults' \in Nat
          /\ UNCHANGED <<sent, tail, key, from, upto, queue, taken, acked, handled>>
      BY <1>13 DEF ReplyLost, tasks
    <2>2. CASE grouped /\ made /\ pc[r] = "idle" /\ GiveOut /\ UNCHANGED pc
      BY <2>1, <2>2 DEF GiveOut
    <2>3. CASE pc[r] = "reading" /\ pc' = [pc EXCEPT ![r] = "idle"] /\ UNCHANGED stream
      BY <2>1, <2>3 DEF stream
    <2> QED BY <1>13, <2>2, <2>3 DEF ReplyLost
  <1>14. ASSUME NEW r \in Readers, NEW p \in Ids, Ack(r, p) PROVE Goal
    BY <1>14 DEF Ack, stream, reader, tasks
  <1>15. ASSUME NEW r \in Readers, NEW p \in Ids, Handle(r, p) PROVE Goal
    BY <1>15 DEF Handle, stream, reader, tasks
  <1>16. CASE UNCHANGED vars
    BY <1>16 DEF vars
  <1> QED BY <1>1, <1>2, <1>3, <1>4, <1>5, <1>6, <1>7, <1>8, <1>9, <1>10, <1>11, <1>12, <1>13, <1>14, <1>15, <1>16 DEF Next, ReaderStep

\* The channels and the tasks change in five actions.
LEMMA TaskSteps ==
    Inv /\ [Next]_vars =>
        \/ UNCHANGED <<queue, taken, acked, handled>>
        \/ \E r \in Readers :
              \/ Entry(r) \/ Receive(r) \/ Crash(r)
              \/ \E p \in Ids : Ack(r, p) \/ Handle(r, p)
  BY DEF Next, ReaderStep, vars, tasks, Send, CreateGroup, ReadGroup, ReadTail, ReadTailReturns, ReadTailEmpty, ReadKey, EntryBad, BatchEnd, ReplyLost, GiveOut, Batch

\* A reader passes on what its batch has, and only that.
LEMMA PassedStep ==
    Inv /\ [Next]_vars => \A s \in Readers : Passed(s)' \subseteq Passed(s) \/ Entry(s)
  <1> SUFFICES ASSUME Inv, [Next]_vars, NEW s \in Readers
               PROVE  Passed(s)' \subseteq Passed(s) \/ Entry(s)
    OBVIOUS
  <1>1. CASE UNCHANGED <<queue, taken, acked, handled>>
    BY <1>1, Same
  <1>2. ASSUME NEW r \in Readers, Entry(r) PROVE Passed(s)' \subseteq Passed(s) \/ Entry(s)
    BY <1>2, EntrySets
  <1>3. ASSUME NEW r \in Readers, Receive(r) PROVE Passed(s)' \subseteq Passed(s)
    BY <1>3, ReceiveSets
  <1>4. ASSUME NEW r \in Readers, Crash(r) PROVE Passed(s)' \subseteq Passed(s)
    BY <1>4, CrashSets
  <1>5. ASSUME NEW r \in Readers, NEW p \in Ids, Ack(r, p) PROVE Passed(s)' \subseteq Passed(s)
    BY <1>5, AckSets
  <1>6. ASSUME NEW r \in Readers, NEW p \in Ids, Handle(r, p) PROVE Passed(s)' \subseteq Passed(s)
    BY <1>6, HandleSets
  <1> QED BY <1>1, <1>2, <1>3, <1>4, <1>5, <1>6, TaskSteps

\* What is passed on are entries.
LEMMA PassedIds == Inv => \A s \in Readers : Passed(s) \subseteq Ids
  <1> SUFFICES ASSUME Inv, NEW s \in Readers PROVE Passed(s) \subseteq Ids OBVIOUS
  <1>1. queue[s] \in Seq(Ids) /\ taken[s] \subseteq Ids /\ acked[s] \subseteq Ids
    BY DEF Inv, TypeOK
  <1>2. \A i \in DOMAIN queue[s] : queue[s][i] \in Ids
    BY <1>1
  <1> QED BY <1>1, <1>2 DEF Passed, Queued, Done


\* The stream grows, and what is given out comes after the cursor.
LEMMA MonoStep == Inv /\ [Next]_vars => (
    /\ sent' >= sent /\ cursor' >= cursor /\ faults' >= faults
    /\ grouped' = grouped /\ bad' = bad
    /\ \A p \in pending' : p \in pending \/ p > cursor)
  <1> DEFINE Goal ==
      /\ sent' >= sent /\ cursor' >= cursor /\ faults' >= faults
      /\ grouped' = grouped /\ bad' = bad
      /\ \A p \in pending' : p \in pending \/ p > cursor
  <1> SUFFICES ASSUME Inv, [Next]_vars PROVE Goal OBVIOUS
  <1> USE CountAssumption DEF CountAssumption, Inv, TypeOK, Ids, Order, Upto
  <1>1. ASSUME Send PROVE Goal
    BY <1>1 DEF Send, stream, reader, tasks
  <1>2. ASSUME NEW r \in Readers, CreateGroup(r) PROVE Goal
    BY <1>2 DEF CreateGroup, stream, reader, tasks
  <1>3. ASSUME NEW r \in Readers, ReadGroup(r) PROVE Goal
    BY <1>3 DEF ReadGroup, GiveOut, Batch, stream, reader, tasks
  <1>4. ASSUME NEW r \in Readers, ReadTail(r) PROVE Goal
    BY <1>4 DEF ReadTail, stream, reader, tasks
  <1>5. ASSUME NEW r \in Readers, ReadTailReturns(r) PROVE Goal
    BY <1>5 DEF ReadTailReturns, Batch, stream, reader, tasks
  <1>6. ASSUME NEW r \in Readers, ReadTailEmpty(r) PROVE Goal
    BY <1>6 DEF ReadTailEmpty, stream, reader, tasks
  <1>7. ASSUME NEW r \in Readers, ReadKey(r) PROVE Goal
    BY <1>7 DEF ReadKey, Batch, stream, reader, tasks
  <1>8. ASSUME NEW r \in Readers, Entry(r) PROVE Goal
    BY <1>8 DEF Entry, stream, reader, tasks
  <1>9. ASSUME NEW r \in Readers, EntryBad(r) PROVE Goal
    BY <1>9 DEF EntryBad, stream, reader, tasks
  <1>10. ASSUME NEW r \in Readers, BatchEnd(r) PROVE Goal
    BY <1>10 DEF BatchEnd, stream, reader, tasks
  <1>11. ASSUME NEW r \in Readers, Receive(r) PROVE Goal
    BY <1>11 DEF Receive, stream, reader, tasks
  <1>12. ASSUME NEW r \in Readers, Crash(r) PROVE Goal
    BY <1>12 DEF Crash, stream, reader, tasks
  <1>13. ASSUME NEW r \in Readers, ReplyLost(r) PROVE Goal
    <2>1. /\ faults' = faults + 1 /\ faults' > 0 /\ faults' \in Nat
          /\ UNCHANGED <<sent, tail, key, from, upto, queue, taken, acked, handled>>
      BY <1>13 DEF ReplyLost, tasks
    <2>2. CASE grouped /\ made /\ pc[r] = "idle" /\ GiveOut /\ UNCHANGED pc
      BY <2>1, <2>2 DEF GiveOut
    <2>3. CASE pc[r] = "reading" /\ pc' = [pc EXCEPT ![r] = "idle"] /\ UNCHANGED stream
      BY <2>1, <2>3 DEF stream
    <2> QED BY <1>13, <2>2, <2>3 DEF ReplyLost
  <1>14. ASSUME NEW r \in Readers, NEW p \in Ids, Ack(r, p) PROVE Goal
    BY <1>14 DEF Ack, stream, reader, tasks
  <1>15. ASSUME NEW r \in Readers, NEW p \in Ids, Handle(r, p) PROVE Goal
    BY <1>15 DEF Handle, stream, reader, tasks
  <1>16. CASE UNCHANGED vars
    BY <1>16 DEF vars
  <1> QED BY <1>1, <1>2, <1>3, <1>4, <1>5, <1>6, <1>7, <1>8, <1>9, <1>10, <1>11, <1>12, <1>13, <1>14, <1>15, <1>16 DEF Next, ReaderStep

\* What has been passed on has been added, and given out.
LEMMA RangeStep == Inv /\ [Next]_vars => Range'
  <1> SUFFICES ASSUME Inv, [Next]_vars, NEW s \in Readers, NEW p \in Passed(s)'
               PROVE  p <= sent' /\ (grouped' => p <= cursor')
    BY DEF Range
  <1>1. sent' >= sent /\ cursor' >= cursor /\ grouped' = grouped
    BY MonoStep
  <1>2. /\ sent \in Nat /\ cursor \in Nat /\ sent' \in Nat /\ cursor' \in Nat
        /\ from[s] \in Nat /\ upto[s] \in Nat
    <2>1. TypeOK /\ TypeOK'
      BY TypeStep DEF Inv
    <2> QED BY <2>1, CountAssumption DEF TypeOK, CountAssumption
  <1>3. CASE p \in Passed(s)
    <2>1. p \in Nat /\ p <= sent /\ (grouped => p <= cursor)
      <3>1. p \in Ids
        BY <1>3, PassedIds
      <3>2. Range
        BY DEF Inv
      <3> QED BY <1>3, <3>1, <3>2, CountAssumption DEF Range, Ids, CountAssumption
    <2> QED BY <1>1, <1>2, <2>1
  <1>4. CASE p \notin Passed(s)
    <2>1. Entry(s)
      BY <1>4, PassedStep
    <2>2. p = from[s] + 1
      BY <1>4, <2>1, EntrySets
    <2>3. from[s] < upto[s] /\ upto[s] <= sent /\ (grouped => upto[s] <= cursor)
      BY <2>1 DEF Entry, Order, Inv
    <2> QED BY <1>1, <1>2, <2>2, <2>3
  <1> QED BY <1>3, <1>4


\* A reader goes back only where it is caught.
LEMMA LowStep == Inv /\ [Next]_vars => (
    \A s \in Readers, q \in Ids :
        q <= Low(s) /\ q <= sent /\ (grouped => q <= cursor) => q <= Low(s)' \/ Caught(s, q)')
  <1> DEFINE Goal ==
      \A s \in Readers, q \in Ids :
          q <= Low(s) /\ q <= sent /\ (grouped => q <= cursor) => q <= Low(s)' \/ Caught(s, q)'
  <1> SUFFICES ASSUME Inv, [Next]_vars PROVE Goal OBVIOUS
  <1> USE CountAssumption DEF CountAssumption, Inv, TypeOK, Ids, Order, NoneSkipped, Low, Caught, Upto
  <1>1. ASSUME Send PROVE Goal
    BY <1>1 DEF Send, stream, reader, tasks
  <1>2. ASSUME NEW r \in Readers, CreateGroup(r) PROVE Goal
    BY <1>2 DEF CreateGroup, stream, reader, tasks
  <1>3. ASSUME NEW r \in Readers, ReadGroup(r) PROVE Goal
    BY <1>3 DEF ReadGroup, GiveOut, Batch, stream, reader, tasks
  <1>4. ASSUME NEW r \in Readers, ReadTail(r) PROVE Goal
    BY <1>4 DEF ReadTail, stream, reader, tasks
  <1>5. ASSUME NEW r \in Readers, ReadTailReturns(r) PROVE Goal
    BY <1>5 DEF ReadTailReturns, Batch, stream, reader, tasks
  <1>6. ASSUME NEW r \in Readers, ReadTailEmpty(r) PROVE Goal
    BY <1>6 DEF ReadTailEmpty, stream, reader, tasks
  <1>7. ASSUME NEW r \in Readers, ReadKey(r) PROVE Goal
    BY <1>7 DEF ReadKey, Batch, stream, reader, tasks
  <1>8. ASSUME NEW r \in Readers, Entry(r) PROVE Goal
    BY <1>8, SMTT(30) DEF Entry, stream, reader, tasks
  <1>9. ASSUME NEW r \in Readers, EntryBad(r) PROVE Goal
    <2>1. /\ UNCHANGED <<grouped, bad, cursor, sent, tail, key, from, upto, faults>>
          /\ pc' = [pc EXCEPT ![r] = "idle"]
          /\ pc[r] = "batch" /\ from[r] < upto[r] /\ upto[r] <= sent /\ from[r] + 1 \in bad
          /\ grouped => upto[r] <= cursor
          /\ ~grouped /\ ~tail[r] => key[r] <= from[r]
      BY <1>9 DEF EntryBad, stream
    <2> SUFFICES ASSUME NEW s \in Readers, NEW q \in Ids,
                        q <= Low(s), q <= sent, grouped => q <= cursor
                 PROVE  q <= Low(s)' \/ Caught(s, q)'
      OBVIOUS
    <2>2. CASE s # r
      BY <2>1, <2>2
    <2>3. CASE s = r /\ (grouped \/ tail[r])
      BY <2>1, <2>3
    <2>4. CASE s = r /\ ~grouped /\ ~tail[r]
      <3>1. q < from[r] + 1 /\ from[r] + 1 <= sent /\ key[r] < from[r] + 1
        BY <2>1, <2>4
      <3> QED BY <2>1, <2>4, <3>1
    <2> QED BY <2>2, <2>3, <2>4
  <1>10. ASSUME NEW r \in Readers, BatchEnd(r) PROVE Goal
    BY <1>10 DEF BatchEnd, stream, reader, tasks
  <1>11. ASSUME NEW r \in Readers, Receive(r) PROVE Goal
    BY <1>11 DEF Receive, stream, reader, tasks
  <1>12. ASSUME NEW r \in Readers, Crash(r) PROVE Goal
    BY <1>12 DEF Crash, stream, reader, tasks
  <1>13. ASSUME NEW r \in Readers, ReplyLost(r) PROVE Goal
    <2>1. /\ faults' = faults + 1 /\ faults' > 0 /\ faults' \in Nat
          /\ UNCHANGED <<sent, tail, key, from, upto, queue, taken, acked, handled>>
      BY <1>13 DEF ReplyLost, tasks
    <2>2. CASE grouped /\ made /\ pc[r] = "idle" /\ GiveOut /\ UNCHANGED pc
      BY <2>1, <2>2 DEF GiveOut
    <2>3. CASE pc[r] = "reading" /\ pc' = [pc EXCEPT ![r] = "idle"] /\ UNCHANGED stream
      BY <2>1, <2>3 DEF stream
    <2> QED BY <1>13, <2>2, <2>3 DEF ReplyLost
  <1>14. ASSUME NEW r \in Readers, NEW p \in Ids, Ack(r, p) PROVE Goal
    BY <1>14 DEF Ack, stream, reader, tasks
  <1>15. ASSUME NEW r \in Readers, NEW p \in Ids, Handle(r, p) PROVE Goal
    BY <1>15 DEF Handle, stream, reader, tasks
  <1>16. CASE UNCHANGED vars
    BY <1>16 DEF vars
  <1> QED BY <1>1, <1>2, <1>3, <1>4, <1>5, <1>6, <1>7, <1>8, <1>9, <1>10, <1>11, <1>12, <1>13, <1>14, <1>15, <1>16 DEF Next, ReaderStep

\* What has been passed on lies below, or its reader is caught.
LEMMA BelowStep == Inv /\ [Next]_vars => Below'
  <1> SUFFICES ASSUME Inv, [Next]_vars, NEW s \in Readers, NEW p \in Passed(s)'
               PROVE  p <= Low(s)' \/ Caught(s, p)'
    BY DEF Below
  <1> USE DEF Inv
  <1>1. CASE p \in Passed(s)
    <2>1. p \in Ids /\ p <= sent /\ (grouped => p <= cursor)
      BY <1>1, PassedIds DEF Range
    <2>2. p <= Low(s) \/ Caught(s, p)
      BY <1>1 DEF Below
    <2>3. CASE p <= Low(s)
      BY <2>1, <2>3, LowStep
    <2>4. CASE Caught(s, p)
      BY <2>1, <2>4, CaughtStep
    <2> QED BY <2>2, <2>3, <2>4
  <1>2. CASE p \notin Passed(s)
    <2>1. Entry(s)
      BY <1>2, PassedStep
    <2>2. p = from[s] + 1
      BY <1>2, <2>1, EntrySets
    <2>3. pc'[s] = "batch" /\ from'[s] = from[s] + 1
      BY <2>1 DEF Entry, TypeOK
    <2>4. from[s] \in Int
      BY CountAssumption DEF TypeOK, CountAssumption
    <2> QED BY <2>2, <2>3, <2>4 DEF Low
  <1> QED BY <1>1, <1>2


\* An entry that is passed on twice was passed on by a reader that is caught.
LEMMA CopiesStep == Inv /\ [Next]_vars => Copies'
  <1> SUFFICES ASSUME Inv, [Next]_vars PROVE Copies' OBVIOUS
  <1>1. \A s \in Readers, p \in Ids : Caught(s, p) => Caught(s, p)'
    BY CaughtStep
  <1>2. Copies /\ Below
    BY DEF Inv
  <1>3. /\ \A s \in Readers : taken[s] \subseteq Ids /\ acked[s] \subseteq Ids /\ Done(s) \subseteq Ids
        /\ \A s \in Readers : \A p \in Queued(s) : p \in Ids
        /\ \A s \in Readers : \A j \in DOMAIN queue[s] : queue[s][j] \in Queued(s)
        /\ taken \in [Readers -> SUBSET Ids] /\ acked \in [Readers -> SUBSET Ids]
    <2>1. \A s \in Readers : Passed(s) \subseteq Ids
      BY PassedIds
    <2> QED BY <2>1 DEF Passed, Queued, Done, Inv, TypeOK
  <1>4. CASE UNCHANGED <<queue, taken, acked, handled>>
    <2>1. \A s \in Readers : Queued(s)' = Queued(s) /\ Done(s)' = Done(s)
      BY <1>4, Same
    <2> QED BY <1>1, <1>2, <1>3, <1>4, <2>1 DEF Copies
  <1>5. ASSUME NEW r \in Readers, Entry(r) PROVE Copies'
    <2> DEFINE p == from[r] + 1
    <2>1. /\ p \in Ids
          /\ Queued(r)' = Queued(r) \cup {p}
          /\ \A s \in Readers : s # r => Queued(s)' = Queued(s)
          /\ \A s \in Readers : Done(s)' = Done(s)
      BY <1>5, EntrySets
    <2>2. UNCHANGED <<taken, acked, handled>> /\ \A s \in Readers : s # r => queue'[s] = queue[s]
      BY <1>5 DEF Entry, tasks, Inv, TypeOK
    <2>3. p \in Passed(r) => Caught(r, p)
      <3>1. Low(r) = from[r] /\ from[r] \in Int
        BY <1>5, CountAssumption DEF Entry, Low, Inv, TypeOK, CountAssumption
      <3>2. ~(p <= Low(r))
        BY <3>1
      <3> HIDE DEF p
      <3> QED BY <1>2, <3>2 DEF Below
    <2>4. \A i \in DOMAIN queue'[r] :
              \/ i \in DOMAIN queue[r] /\ queue'[r][i] = queue[r][i]
              \/ i = Len(queue[r]) + 1 /\ queue'[r][i] = p
      <3>1. queue'[r] = Append(queue[r], p) /\ queue[r] \in Seq(Ids)
        BY <1>5 DEF Entry, Inv, TypeOK
      <3> HIDE DEF p
      <3> QED BY <2>1, <3>1, AppendElems
    <2> HIDE DEF p
    <2>5. p \in Queued(r) \cup taken[r] \cup acked[r] \cup Done(r) => Caught(r, p)
      BY <2>3 DEF Passed
    <2>6. \A i, j \in DOMAIN queue'[r] :
              i # j /\ queue'[r][i] = queue'[r][j] => Caught(r, queue'[r][i]) /\ queue'[r][i] \in Ids
      <3> SUFFICES ASSUME NEW i \in DOMAIN queue'[r], NEW j \in DOMAIN queue'[r],
                          i # j, queue'[r][i] = queue'[r][j]
                   PROVE  Caught(r, queue'[r][i]) /\ queue'[r][i] \in Ids
        OBVIOUS
      <3>1. CASE i \in DOMAIN queue[r] /\ j \in DOMAIN queue[r]
                 /\ queue'[r][i] = queue[r][i] /\ queue'[r][j] = queue[r][j]
        BY <1>2, <1>3, <3>1 DEF Copies
      <3>2. CASE queue'[r][i] = p /\ queue'[r][j] = p /\ p \in Queued(r)
        BY <2>1, <2>5, <3>2
      <3>3. CASE i = Len(queue[r]) + 1 /\ j = Len(queue[r]) + 1
        BY <3>3
      <3> QED BY <1>3, <2>4, <3>1, <3>2, <3>3
    <2> QED BY <1>1, <1>2, <1>3, <2>1, <2>2, <2>5, <2>6 DEF Copies
  <1>6. ASSUME NEW r \in Readers, Receive(r) PROVE Copies'
    <2>1. PICK p \in Ids :
           /\ p = queue[r][1] /\ 1 \in DOMAIN queue[r] /\ p \in Queued(r)
           /\ p \notin taken[r] \cup acked[r]
           /\ taken' = [taken EXCEPT ![r] = @ \cup {p}]
           /\ Queued(r) = Queued(r)' \cup {p}
           /\ \A i \in DOMAIN queue'[r] :
                 i + 1 \in DOMAIN queue[r] /\ i + 1 # 1 /\ queue'[r][i] = queue[r][i + 1]
           /\ \A s \in Readers : s # r => Queued(s)' = Queued(s) /\ queue'[s] = queue[s]
           /\ \A s \in Readers : Done(s)' = Done(s)
           /\ UNCHANGED <<acked, handled>>
      BY <1>6, ReceiveSets
    <2>2. p \in Queued(r)' => Caught(r, p)
      <3> SUFFICES ASSUME p \in Queued(r)' PROVE Caught(r, p) OBVIOUS
      <3>1. PICK i \in DOMAIN queue'[r] : queue'[r][i] = p
        BY DEF Queued
      <3>2. i + 1 \in DOMAIN queue[r] /\ i + 1 # 1 /\ queue[r][i + 1] = queue[r][1]
        BY <2>1, <3>1
      <3> QED BY <1>2, <2>1, <3>2 DEF Copies
    <2>3. p \in Done(r) => Caught(r, p)
      BY <1>2, <2>1 DEF Copies
    <2>4. \A i, j \in DOMAIN queue'[r] :
              i # j /\ queue'[r][i] = queue'[r][j] => Caught(r, queue'[r][i]) /\ queue'[r][i] \in Ids
      <3> SUFFICES ASSUME NEW i \in DOMAIN queue'[r], NEW j \in DOMAIN queue'[r],
                          i # j, queue'[r][i] = queue'[r][j]
                   PROVE  Caught(r, queue'[r][i]) /\ queue'[r][i] \in Ids
        OBVIOUS
      <3>1. i \in Int /\ j \in Int
        <4>1. queue'[r] \in Seq(Ids)
          BY TypeStep DEF Inv, TypeOK
        <4> QED BY <4>1
      <3>2. i + 1 \in DOMAIN queue[r] /\ j + 1 \in DOMAIN queue[r] /\ i + 1 # j + 1
            /\ queue[r][i + 1] = queue[r][j + 1] /\ queue'[r][i] = queue[r][i + 1]
        BY <2>1, <3>1
      <3> QED BY <1>2, <1>3, <3>2 DEF Copies
    <2> QED BY <1>1, <1>2, <1>3, <2>1, <2>2, <2>3, <2>4 DEF Copies
  <1>7. ASSUME NEW r \in Readers, Crash(r) PROVE Copies'
    <2>1. queue'[r] = <<>> /\ taken'[r] = {} /\ acked'[r] = {} /\ Queued(r)' = {}
      BY <1>7, CrashSets
    <2>2. \A s \in Readers : Done(s)' = Done(s) /\ handled'[s] = handled[s]
      BY <1>7, CrashSets
    <2>3. \A s \in Readers : s # r => queue'[s] = queue[s] /\ taken'[s] = taken[s]
                                      /\ acked'[s] = acked[s] /\ Queued(s)' = Queued(s)
      BY <1>7, CrashSets
    <2>4. DOMAIN queue'[r] = {}
      <3>1. DOMAIN <<>> = {}
        OBVIOUS
      <3> QED BY <2>1, <3>1
    <2> QED BY <1>1, <1>2, <1>3, <2>1, <2>2, <2>3, <2>4 DEF Copies
  <1>8. ASSUME NEW r \in Readers, NEW p \in Ids, Ack(r, p) PROVE Copies'
    BY <1>1, <1>2, <1>3, <1>8, AckSets DEF Copies
  <1>9. ASSUME NEW r \in Readers, NEW p \in Ids, Handle(r, p) PROVE Copies'
    <2>1. p \in Done(r) => Caught(r, p)
      BY <1>2, <1>9, HandleSets DEF Copies
    <2>2. p \in Queued(r) => Caught(r, p)
      BY <1>2, <1>9, HandleSets DEF Copies
    <2>3. p \notin taken[r]
      BY <1>2, <1>9, HandleSets DEF Copies
    <2> QED BY <1>1, <1>2, <1>3, <1>9, <2>1, <2>2, <2>3, HandleSets DEF Copies
  <1> QED BY <1>4, <1>5, <1>6, <1>7, <1>8, <1>9, TaskSteps

\* What has been acknowledged is never given out again.
LEMMA AckEndsStep == Inv /\ [Next]_vars => AckEnds'
  <1> SUFFICES ASSUME Inv, [Next]_vars,
                      NEW s \in Readers, NEW p \in acked'[s] \cup Done(s)', p \in pending'
               PROVE  FALSE
    BY DEF AckEnds
  <1>1. p \in pending \/ p > cursor
    BY MonoStep
  <1>2. grouped /\ grouped' = grouped
    BY OrderStep, MonoStep DEF Order
  <1>3. CASE p \in acked[s] \cup Done(s)
    <2>1. p \in Passed(s)
      BY <1>3 DEF Passed
    <2>2. p \notin pending
      BY <1>3 DEF Inv, AckEnds
    <2>3. p \in Ids /\ p <= cursor
      BY <1>2, <2>1, PassedIds DEF Range, Inv
    <2> QED BY <1>1, <2>2, <2>3, CountAssumption DEF Ids, Inv, TypeOK, CountAssumption
  <1>4. CASE p \notin acked[s] \cup Done(s)
    <2>1. ~UNCHANGED <<queue, taken, acked, handled>>
      BY <1>4, Same
    <2>2. ASSUME NEW r \in Readers, Entry(r) PROVE FALSE
      BY <1>4, <2>2, EntrySets DEF Entry, tasks
    <2>3. ASSUME NEW r \in Readers, Receive(r) PROVE FALSE
      BY <1>4, <2>3, ReceiveSets
    <2>4. ASSUME NEW r \in Readers, Crash(r) PROVE FALSE
      <3>1. CASE s = r
        BY <1>4, <2>4, <3>1, CrashSets
      <3>2. CASE s # r
        BY <1>4, <2>4, <3>2, CrashSets
      <3> QED BY <3>1, <3>2
    <2>5. ASSUME NEW r \in Readers, NEW q \in Ids, Ack(r, q) PROVE FALSE
      <3>1. acked'[s] \subseteq acked[s] \cup {q} /\ Done(s)' = Done(s) /\ pending' = pending \ {q}
        <4>1. acked' = [acked EXCEPT ![r] = acked[r] \cup {q}] /\ acked \in [Readers -> SUBSET Ids]
          BY <2>5 DEF Ack, Inv, TypeOK
        <4>2. acked'[s] \subseteq acked[s] \cup {q}
          BY <4>1
        <4> QED BY <1>2, <2>5, <4>2, AckSets
      <3> QED BY <1>4, <3>1
    <2>6. ASSUME NEW r \in Readers, NEW q \in Ids, Handle(r, q) PROVE FALSE
      <3>1. acked'[s] \subseteq acked[s]
        <4>1. acked' = [acked EXCEPT ![r] = acked[r] \ {q}] /\ acked \in [Readers -> SUBSET Ids]
          BY <2>6 DEF Handle, Inv, TypeOK
        <4> QED BY <4>1
      <3>2. Done(s)' \subseteq Done(s) \cup acked[s]
        BY <2>6, HandleSets
      <3> QED BY <1>4, <3>1, <3>2
    <2> QED BY <2>1, <2>2, <2>3, <2>4, <2>5, <2>6, TaskSteps
  <1> QED BY <1>3, <1>4


\* A batch only goes on.
LEMMA RestStep == Inv /\ [Next]_vars => (
    \A t \in Readers : pc[t] = "batch" /\ pc'[t] = "batch" =>
        from'[t] >= from[t] /\ upto'[t] = upto[t])
  <1> DEFINE Goal ==
      \A t \in Readers : pc[t] = "batch" /\ pc'[t] = "batch" =>
          from'[t] >= from[t] /\ upto'[t] = upto[t]
  <1> SUFFICES ASSUME Inv, [Next]_vars PROVE Goal OBVIOUS
  <1> USE CountAssumption DEF CountAssumption, Inv, TypeOK, Ids, Order
  <1>1. ASSUME Send PROVE Goal
    BY <1>1 DEF Send, stream, reader, tasks
  <1>2. ASSUME NEW r \in Readers, CreateGroup(r) PROVE Goal
    BY <1>2 DEF CreateGroup, stream, reader, tasks
  <1>3. ASSUME NEW r \in Readers, ReadGroup(r) PROVE Goal
    BY <1>3 DEF ReadGroup, GiveOut, Batch, stream, reader, tasks
  <1>4. ASSUME NEW r \in Readers, ReadTail(r) PROVE Goal
    BY <1>4 DEF ReadTail, stream, reader, tasks
  <1>5. ASSUME NEW r \in Readers, ReadTailReturns(r) PROVE Goal
    BY <1>5, SMTT(30) DEF ReadTailReturns, Batch, stream, reader, tasks
  <1>6. ASSUME NEW r \in Readers, ReadTailEmpty(r) PROVE Goal
    BY <1>6 DEF ReadTailEmpty, stream, reader, tasks
  <1>7. ASSUME NEW r \in Readers, ReadKey(r) PROVE Goal
    BY <1>7, SMTT(30) DEF ReadKey, Batch, stream, reader, tasks
  <1>8. ASSUME NEW r \in Readers, Entry(r) PROVE Goal
    <2> TAKE t \in Readers
    <2>1. from' = [from EXCEPT ![r] = from[r] + 1] /\ upto' = upto
      BY <1>8 DEF Entry
    <2>2. CASE t = r
      BY <2>1, <2>2
    <2>3. CASE t # r
      BY <2>1, <2>3
    <2> QED BY <2>2, <2>3
  <1>9. ASSUME NEW r \in Readers, EntryBad(r) PROVE Goal
    BY <1>9 DEF EntryBad, stream, reader, tasks
  <1>10. ASSUME NEW r \in Readers, BatchEnd(r) PROVE Goal
    BY <1>10 DEF BatchEnd, stream, reader, tasks
  <1>11. ASSUME NEW r \in Readers, Receive(r) PROVE Goal
    BY <1>11 DEF Receive, stream, reader, tasks
  <1>12. ASSUME NEW r \in Readers, Crash(r) PROVE Goal
    BY <1>12 DEF Crash, stream, reader, tasks
  <1>13. ASSUME NEW r \in Readers, ReplyLost(r) PROVE Goal
    <2>1. /\ faults' = faults + 1 /\ faults' > 0 /\ faults' \in Nat
          /\ UNCHANGED <<sent, tail, key, from, upto, queue, taken, acked, handled>>
      BY <1>13 DEF ReplyLost, tasks
    <2>2. CASE grouped /\ made /\ pc[r] = "idle" /\ GiveOut /\ UNCHANGED pc
      BY <2>1, <2>2 DEF GiveOut
    <2>3. CASE pc[r] = "reading" /\ pc' = [pc EXCEPT ![r] = "idle"] /\ UNCHANGED stream
      BY <2>1, <2>3 DEF stream
    <2> QED BY <1>13, <2>2, <2>3 DEF ReplyLost
  <1>14. ASSUME NEW r \in Readers, NEW p \in Ids, Ack(r, p) PROVE Goal
    BY <1>14 DEF Ack, stream, reader, tasks
  <1>15. ASSUME NEW r \in Readers, NEW p \in Ids, Handle(r, p) PROVE Goal
    BY <1>15 DEF Handle, stream, reader, tasks
  <1>16. CASE UNCHANGED vars
    BY <1>16 DEF vars
  <1> QED BY <1>1, <1>2, <1>3, <1>4, <1>5, <1>6, <1>7, <1>8, <1>9, <1>10, <1>11, <1>12, <1>13, <1>14, <1>15, <1>16 DEF Next, ReaderStep

\* With a group, what one reader has is given to no other.
LEMMA ApartStep == Inv /\ [Next]_vars => Apart'
  <1> SUFFICES ASSUME Inv, [Next]_vars, grouped',
                      NEW r \in Readers, NEW s \in Readers, r # s,
                      NEW p \in Passed(r)' \cup Rest(r)', p \in Passed(s)' \cup Rest(s)'
               PROVE  FALSE
    BY DEF Apart
  <1>1. grouped
    BY MonoStep
  <1>2. /\ TypeOK /\ sent \in Nat /\ cursor \in Nat /\ Count \in Nat
        /\ \A t \in Readers : from[t] \in Nat /\ upto[t] \in Nat
    BY CountAssumption DEF Inv, TypeOK, CountAssumption
  <1>3. ASSUME NEW t \in Readers, NEW q \in Passed(t) \cup Rest(t)
        PROVE  q \in Nat /\ q <= cursor
    <2>1. CASE q \in Passed(t)
      <3>1. q \in Ids
        BY <2>1, PassedIds
      <3> QED BY <1>1, <2>1, <3>1, CountAssumption DEF Range, Inv, Ids, CountAssumption
    <2>2. CASE q \in Rest(t)
      <3>1. pc[t] = "batch" /\ q \in (from[t] + 1)..upto[t]
        BY <2>2 DEF Rest
      <3> QED BY <1>1, <1>2, <3>1 DEF Inv, Order
    <2> QED BY <2>1, <2>2
  <1>4. ASSUME NEW t \in Readers, NEW q \in Passed(t)' \cup Rest(t)', q \notin Passed(t) \cup Rest(t)
        PROVE  ReadGroup(t) /\ q > cursor
    <2>1. CASE q \in Passed(t)'
      <3>1. Entry(t) /\ q = from[t] + 1
        BY <1>4, <2>1, PassedStep, EntrySets
      <3>2. q \in Rest(t)
        BY <1>2, <3>1 DEF Entry, Rest
      <3> QED BY <1>4, <3>2
    <2>2. CASE q \in Rest(t)' /\ q \notin Rest(t)
      <3>1. pc'[t] = "batch" /\ q \in (from'[t] + 1)..upto'[t]
        BY <2>2 DEF Rest
      <3>2. CASE pc[t] = "batch"
        <4>1. from'[t] >= from[t] /\ upto'[t] = upto[t]
          BY <3>1, <3>2, RestStep
        <4>2. from'[t] \in Nat /\ upto'[t] \in Nat
          BY TypeStep, CountAssumption DEF Inv, TypeOK, CountAssumption
        <4>3. q \in (from[t] + 1)..upto[t]
          BY <1>2, <3>1, <4>1, <4>2
        <4> QED BY <2>2, <3>2, <4>3 DEF Rest
      <3>3. CASE pc[t] # "batch"
        <4>1. ReadGroup(t)
          <5> USE <1>1, <1>2, <3>1, <3>3 DEF TypeOK, Inv, Order, stream, reader, tasks
          <5>1. ASSUME NEW u \in Readers, CreateGroup(u) \/ ReadTail(u) \/ ReadTailEmpty(u) PROVE FALSE
            BY <5>1 DEF CreateGroup, ReadTail, ReadTailEmpty
          <5>2. ASSUME NEW u \in Readers, ReadTailReturns(u) \/ ReadKey(u) PROVE FALSE
            BY <5>2 DEF ReadTailReturns, ReadKey, Batch
          <5>3. ASSUME NEW u \in Readers, Entry(u) \/ EntryBad(u) \/ BatchEnd(u) PROVE FALSE
            BY <5>3 DEF Entry, EntryBad, BatchEnd
          <5>4. ASSUME NEW u \in Readers, Receive(u) \/ Crash(u) \/ ReplyLost(u) PROVE FALSE
            BY <5>4 DEF Receive, Crash, ReplyLost
          <5>5. ASSUME NEW u \in Readers, NEW o \in Ids, Ack(u, o) \/ Handle(u, o) PROVE FALSE
            BY <5>5 DEF Ack, Handle
          <5>6. ASSUME NEW u \in Readers, ReadGroup(u) PROVE u = t
            BY <5>6 DEF ReadGroup, Batch
          <5>7. ~Send /\ ~UNCHANGED vars
            BY DEF Send, vars
          <5> QED BY <5>1, <5>2, <5>3, <5>4, <5>5, <5>6, <5>7 DEF Next, ReaderStep
        <4>2. from'[t] = cursor
          BY <1>2, <4>1 DEF ReadGroup, Batch, TypeOK
        <4> QED BY <1>2, <3>1, <4>1, <4>2
      <3> QED BY <3>2, <3>3
    <2> QED BY <1>4, <2>1, <2>2
  <1>5. ~(ReadGroup(r) /\ ReadGroup(s))
    BY <1>2 DEF ReadGroup, Batch, TypeOK
  <1>6. CASE p \in Passed(r) \cup Rest(r)
    <2>1. CASE p \in Passed(s) \cup Rest(s)
      BY <1>1, <1>6, <2>1 DEF Inv, Apart
    <2>2. CASE p \notin Passed(s) \cup Rest(s)
      BY <1>2, <1>3, <1>4, <1>6, <2>2
    <2> QED BY <2>1, <2>2
  <1>7. CASE p \notin Passed(r) \cup Rest(r)
    <2>1. ReadGroup(r) /\ p > cursor
      BY <1>4, <1>7
    <2>2. CASE p \in Passed(s) \cup Rest(s)
      BY <1>2, <1>3, <2>1, <2>2
    <2>3. CASE p \notin Passed(s) \cup Rest(s)
      BY <1>4, <1>5, <2>1, <2>3
    <2> QED BY <2>2, <2>3
  <1> QED BY <1>6, <1>7


\* What a batch is left by.
LEMMA EndStep == Inv /\ [Next]_vars => (
    \A t \in Readers : pc[t] = "batch" /\ ~Crash(t) /\ ~ReplyLost(t)
            /\ (pc'[t] # "batch" \/ from'[t] # from[t] \/ upto'[t] # upto[t]) =>
        Entry(t) \/ EntryBad(t) \/ BatchEnd(t))
  <1> DEFINE Goal ==
      \A t \in Readers : pc[t] = "batch" /\ ~Crash(t) /\ ~ReplyLost(t)
              /\ (pc'[t] # "batch" \/ from'[t] # from[t] \/ upto'[t] # upto[t]) =>
          Entry(t) \/ EntryBad(t) \/ BatchEnd(t)
  <1> SUFFICES ASSUME Inv, [Next]_vars PROVE Goal OBVIOUS
  <1> USE CountAssumption DEF CountAssumption, Inv, TypeOK, Ids, Order
  <1>1. ASSUME Send PROVE Goal
    BY <1>1 DEF Send, stream, reader, tasks
  <1>2. ASSUME NEW r \in Readers, CreateGroup(r) PROVE Goal
    BY <1>2 DEF CreateGroup, stream, reader, tasks
  <1>3. ASSUME NEW r \in Readers, ReadGroup(r) PROVE Goal
    BY <1>3 DEF ReadGroup, GiveOut, Batch, stream, reader, tasks
  <1>4. ASSUME NEW r \in Readers, ReadTail(r) PROVE Goal
    BY <1>4 DEF ReadTail, stream, reader, tasks
  <1>5. ASSUME NEW r \in Readers, ReadTailReturns(r) PROVE Goal
    BY <1>5 DEF ReadTailReturns, Batch, stream, reader, tasks
  <1>6. ASSUME NEW r \in Readers, ReadTailEmpty(r) PROVE Goal
    BY <1>6 DEF ReadTailEmpty, stream, reader, tasks
  <1>7. ASSUME NEW r \in Readers, ReadKey(r) PROVE Goal
    BY <1>7 DEF ReadKey, Batch, stream, reader, tasks
  <1>8. ASSUME NEW r \in Readers, Entry(r) PROVE Goal
    BY <1>8 DEF Entry, stream, reader, tasks
  <1>9. ASSUME NEW r \in Readers, EntryBad(r) PROVE Goal
    BY <1>9 DEF EntryBad, stream, reader, tasks
  <1>10. ASSUME NEW r \in Readers, BatchEnd(r) PROVE Goal
    BY <1>10 DEF BatchEnd, stream, reader, tasks
  <1>11. ASSUME NEW r \in Readers, Receive(r) PROVE Goal
    BY <1>11 DEF Receive, stream, reader, tasks
  <1>12. ASSUME NEW r \in Readers, Crash(r) PROVE Goal
    BY <1>12 DEF Crash, stream, reader, tasks
  <1>13. ASSUME NEW r \in Readers, ReplyLost(r) PROVE Goal
    <2>1. /\ faults' = faults + 1 /\ faults' > 0 /\ faults' \in Nat
          /\ UNCHANGED <<sent, tail, key, from, upto, queue, taken, acked, handled>>
      BY <1>13 DEF ReplyLost, tasks
    <2>2. CASE grouped /\ made /\ pc[r] = "idle" /\ GiveOut /\ UNCHANGED pc
      BY <2>1, <2>2 DEF GiveOut
    <2>3. CASE pc[r] = "reading" /\ pc' = [pc EXCEPT ![r] = "idle"] /\ UNCHANGED stream
      BY <2>1, <2>3 DEF stream
    <2> QED BY <1>13, <2>2, <2>3 DEF ReplyLost
  <1>14. ASSUME NEW r \in Readers, NEW p \in Ids, Ack(r, p) PROVE Goal
    BY <1>14 DEF Ack, stream, reader, tasks
  <1>15. ASSUME NEW r \in Readers, NEW p \in Ids, Handle(r, p) PROVE Goal
    BY <1>15 DEF Handle, stream, reader, tasks
  <1>16. CASE UNCHANGED vars
    BY <1>16 DEF vars
  <1> QED BY <1>1, <1>2, <1>3, <1>4, <1>5, <1>6, <1>7, <1>8, <1>9, <1>10, <1>11, <1>12, <1>13, <1>14, <1>15, <1>16 DEF Next, ReaderStep

\* What entries are given out by.
LEMMA OutStep == Inv /\ [Next]_vars => (
    (\A r \in Readers : ~ReplyLost(r)) /\ (\E p \in pending' : p \notin pending) =>
        \E r \in Readers : ReadGroup(r))
  <1> DEFINE Goal ==
      (\A r \in Readers : ~ReplyLost(r)) /\ (\E p \in pending' : p \notin pending) =>
          \E r \in Readers : ReadGroup(r)
  <1> SUFFICES ASSUME Inv, [Next]_vars PROVE Goal OBVIOUS
  <1> USE CountAssumption DEF CountAssumption, Inv, TypeOK, Ids, Order
  <1>1. ASSUME Send PROVE Goal
    BY <1>1 DEF Send, stream, reader, tasks
  <1>2. ASSUME NEW r \in Readers, CreateGroup(r) PROVE Goal
    BY <1>2 DEF CreateGroup, stream, reader, tasks
  <1>3. ASSUME NEW r \in Readers, ReadGroup(r) PROVE Goal
    BY <1>3 DEF ReadGroup, GiveOut, Batch, stream, reader, tasks
  <1>4. ASSUME NEW r \in Readers, ReadTail(r) PROVE Goal
    BY <1>4 DEF ReadTail, stream, reader, tasks
  <1>5. ASSUME NEW r \in Readers, ReadTailReturns(r) PROVE Goal
    BY <1>5 DEF ReadTailReturns, Batch, stream, reader, tasks
  <1>6. ASSUME NEW r \in Readers, ReadTailEmpty(r) PROVE Goal
    BY <1>6 DEF ReadTailEmpty, stream, reader, tasks
  <1>7. ASSUME NEW r \in Readers, ReadKey(r) PROVE Goal
    BY <1>7 DEF ReadKey, Batch, stream, reader, tasks
  <1>8. ASSUME NEW r \in Readers, Entry(r) PROVE Goal
    BY <1>8 DEF Entry, stream, reader, tasks
  <1>9. ASSUME NEW r \in Readers, EntryBad(r) PROVE Goal
    BY <1>9 DEF EntryBad, stream, reader, tasks
  <1>10. ASSUME NEW r \in Readers, BatchEnd(r) PROVE Goal
    BY <1>10 DEF BatchEnd, stream, reader, tasks
  <1>11. ASSUME NEW r \in Readers, Receive(r) PROVE Goal
    BY <1>11 DEF Receive, stream, reader, tasks
  <1>12. ASSUME NEW r \in Readers, Crash(r) PROVE Goal
    BY <1>12 DEF Crash, stream, reader, tasks
  <1>13. ASSUME NEW r \in Readers, ReplyLost(r) PROVE Goal
    BY <1>13
  <1>14. ASSUME NEW r \in Readers, NEW p \in Ids, Ack(r, p) PROVE Goal
    BY <1>14 DEF Ack, stream, reader, tasks
  <1>15. ASSUME NEW r \in Readers, NEW p \in Ids, Handle(r, p) PROVE Goal
    BY <1>15 DEF Handle, stream, reader, tasks
  <1>16. CASE UNCHANGED vars
    BY <1>16 DEF vars
  <1> QED BY <1>1, <1>2, <1>3, <1>4, <1>5, <1>6, <1>7, <1>8, <1>9, <1>10, <1>11, <1>12, <1>13, <1>14, <1>15, <1>16 DEF Next, ReaderStep

\* What Redis waits to be acknowledged is on its way, or its loss is explained.
LEMMA LostStep == Inv /\ [Next]_vars => LostOnlyByFault'
  <1> SUFFICES ASSUME Inv, [Next]_vars, grouped', NEW p \in pending', ~(faults' > 0), ~Behind(p)'
               PROVE  \E r \in Readers : p \in InHand(r)'
    BY DEF LostOnlyByFault
  <1>1. /\ TypeOK /\ sent \in Nat /\ cursor \in Nat /\ Count \in Nat /\ faults \in Nat /\ faults' \in Nat
        /\ \A t \in Readers : from[t] \in Nat /\ upto[t] \in Nat
    BY TypeStep, CountAssumption DEF Inv, TypeOK, CountAssumption
  <1>2. grouped /\ ~(faults > 0) /\ ~Behind(p) /\ bad' = bad
    <2>1. bad' = bad /\ faults' >= faults /\ grouped
      BY MonoStep
    <2>2. Behind(p)' <=> Behind(p)
      BY <2>1 DEF Behind
    <2> QED BY <1>1, <2>1, <2>2
  <1>3. \A r \in Readers : ~Crash(r) /\ ~ReplyLost(r)
    BY <1>1, <1>2 DEF Crash, ReplyLost
  <1>4. ASSUME NEW t \in Readers, p \in InHand(t), p \in pending
        PROVE  p \in InHand(t)'
    <2>1. CASE p \in Rest(t) /\ p \in Rest(t)'
      BY <2>1 DEF InHand, Rest
    <2>2. CASE p \in Rest(t) /\ p \notin Rest(t)'
      <3>1. pc[t] = "batch" /\ p \in (from[t] + 1)..upto[t]
        BY <2>2 DEF Rest
      <3>2. pc'[t] # "batch" \/ from'[t] # from[t] \/ upto'[t] # upto[t]
        BY <2>2, <3>1 DEF Rest
      <3>3. Entry(t) \/ EntryBad(t) \/ BatchEnd(t)
        BY <1>1, <1>3, <3>1, <3>2, EndStep
      <3>4. CASE Entry(t)
        <4>1. Queued(t)' = Queued(t) \cup {from[t] + 1}
          BY <3>4, EntrySets
        <4>2. pc'[t] = "batch" /\ from'[t] = from[t] + 1 /\ upto'[t] = upto[t]
          BY <1>1, <3>4 DEF Entry, TypeOK
        <4>3. p \in (from[t] + 2)..upto[t] \/ p = from[t] + 1
          BY <1>1, <3>1
        <4>4. p \in (from'[t] + 1)..upto'[t] \/ p \in Queued(t)'
          BY <1>1, <4>1, <4>2, <4>3
        <4> QED BY <4>2, <4>4 DEF InHand
      <3>5. CASE EntryBad(t)
        <4>1. from[t] + 1 \in bad /\ from[t] + 1 <= p /\ p < from[t] + 1 + Count
          BY <1>1, <3>1, <3>5 DEF EntryBad, Inv, Order
        <4> QED BY <1>2, <4>1 DEF Behind
      <3>6. CASE BatchEnd(t)
        BY <1>1, <3>1, <3>6 DEF BatchEnd
      <3> QED BY <3>3, <3>4, <3>5, <3>6
    <2>3. CASE p \in Queued(t) \cup taken[t] \cup acked[t]
      <3>1. p \notin acked[t]
        BY <1>4 DEF Inv, AckEnds
      <3>2. CASE UNCHANGED <<queue, taken, acked, handled>>
        BY <2>3, <3>2, Same DEF InHand
      <3>3. ASSUME NEW r \in Readers, Entry(r) PROVE p \in InHand(t)'
        <4>1. UNCHANGED <<taken, acked>> /\ Queued(t) \subseteq Queued(t)'
          BY <3>3, EntrySets DEF Entry, tasks
        <4> QED BY <2>3, <4>1 DEF InHand
      <3>4. ASSUME NEW r \in Readers, Receive(r) PROVE p \in InHand(t)'
        <4>1. Queued(t) \cup taken[t] \subseteq Queued(t)' \cup taken'[t]
          <5>1. CASE t = r
            BY <1>1, <3>4, <5>1, ReceiveSets DEF TypeOK
          <5>2. CASE t # r
            BY <1>1, <3>4, <5>2, ReceiveSets DEF TypeOK
          <5> QED BY <5>1, <5>2
        <4> QED BY <2>3, <3>1, <4>1 DEF InHand
      <3>5. ASSUME NEW r \in Readers, NEW q \in Ids, Ack(r, q) PROVE p \in InHand(t)'
        <4>1. q # p
          BY <1>2, <3>5, AckSets
        <4>2. taken[t] \ {q} \subseteq taken'[t] /\ Queued(t)' = Queued(t)
          <5>1. taken' = [taken EXCEPT ![r] = taken[r] \ {q}]
            BY <3>5 DEF Ack
          <5> QED BY <1>1, <3>5, <5>1, AckSets DEF TypeOK
        <4> QED BY <2>3, <3>1, <4>1, <4>2 DEF InHand
      <3>6. ASSUME NEW r \in Readers, NEW q \in Ids, Handle(r, q) PROVE p \in InHand(t)'
        BY <2>3, <3>1, <3>6, HandleSets DEF InHand
      <3> QED BY <1>3, <3>2, <3>3, <3>4, <3>5, <3>6, TaskSteps
    <2> QED BY <1>4, <2>1, <2>2, <2>3 DEF InHand, Rest
  <1>5. CASE p \in pending
    BY <1>2, <1>4, <1>5 DEF Inv, LostOnlyByFault
  <1>6. CASE p \notin pending
    <2>1. PICK r \in Readers : ReadGroup(r)
      BY <1>3, <1>6, OutStep
    <2>2. p \in (cursor + 1)..Upto(cursor)
      BY <1>6, <2>1 DEF ReadGroup, GiveOut
    <2>3. pc'[r] = "batch" /\ from'[r] = cursor /\ upto'[r] = Upto(cursor)
      BY <1>1, <2>1 DEF ReadGroup, Batch, TypeOK
    <2> QED BY <2>2, <2>3 DEF InHand
  <1> QED BY <1>5, <1>6

\* Every step of the readers, the services and Redis keeps the invariant.
LEMMA StepInv == Inv /\ [Next]_vars => Inv'
  <1> SUFFICES ASSUME Inv, [Next]_vars PROVE Inv' OBVIOUS
  <1> QED
    BY TypeStep, OrderStep, NoneSkippedStep, RangeStep, BelowStep, CopiesStep, ApartStep,
       AckEndsStep, LostStep DEF Inv

\* The invariant holds in every state.
LEMMA Invariance == Spec => []Inv
  BY InitInv, StepInv, PTL DEF Spec

\* The types of the stream, the readers and the tasks.
THEOREM TypeCorrect == Spec => []TypeOK
  <1>1. Inv => TypeOK
    BY DEF Inv
  <1> QED BY <1>1, Invariance, PTL

\* With a group every entry is handled at most once.
THEOREM OnceInGroupHolds == Spec => []OnceInGroup
  <1>1. Inv => OnceInGroup
    <2> SUFFICES ASSUME Inv, grouped, NEW r \in Readers, NEW s \in Readers, NEW p \in Ids
                 PROVE  /\ handled[r][p] < Many
                        /\ handled[r][p] > 0 => p \notin InHand(s)
                        /\ r # s => handled[r][p] = 0 \/ handled[s][p] = 0
      BY DEF OnceInGroup
    <2>1. \A t \in Readers : handled[t][p] \in 0..2 /\ (p \in Done(t) <=> handled[t][p] > 0) /\ ~Caught(t, p)
      BY DEF Inv, TypeOK, Many, Done, Caught
    <2>2. handled[r][p] < Many
      BY <2>1 DEF Inv, Copies, Many
    <2>3. ASSUME p \in Done(r) PROVE p \notin InHand(s)
      <3>1. CASE s = r
        <4>1. p \notin Queued(r) \cup taken[r] \cup acked[r]
          BY <2>1, <2>3 DEF Inv, Copies
        <4>2. p <= Low(r)
          BY <2>1, <2>3 DEF Inv, Below, Passed
        <4>3. p \notin Rest(r)
          BY <4>2, CountAssumption, SMTT(30) DEF Rest, Low, Inv, TypeOK, Ids, CountAssumption
        <4> QED BY <3>1, <4>1, <4>3 DEF InHand, Rest
      <3>2. CASE s # r
        <4>1. p \notin Passed(s) \cup Rest(s)
          BY <2>3, <3>2 DEF Inv, Apart, Passed
        <4> QED BY <4>1 DEF InHand, Passed, Rest
      <3> QED BY <3>1, <3>2
    <2>4. r # s => p \notin Done(r) \/ p \notin Done(s)
      BY DEF Inv, Apart, Passed
    <2> QED BY <2>1, <2>2, <2>3, <2>4
  <1> QED BY <1>1, Invariance, PTL

\* With a group an entry is lost only by a fault, or behind a malformed entry.
THEOREM LostOnlyByFaultHolds == Spec => []LostOnlyByFault
  <1>1. Inv => LostOnlyByFault
    BY DEF Inv
  <1> QED BY <1>1, Invariance, PTL

\* Without a group an entry is handled twice only before a malformed one.
THEOREM AgainOnlyBeforeBadHolds == Spec => []AgainOnlyBeforeBad
  <1>1. Inv => AgainOnlyBeforeBad
    BY DEF Inv, Copies, Caught, AgainOnlyBeforeBad
  <1> QED BY <1>1, Invariance, PTL

-----------------------------------------------------------------------------
(* The refinement of WorkGroup.  With a group what a reader has in hand is *)
(* what it has passed on and not finished and the rest of its batch, apart *)
(* from what is done (Apart, Below); only ReadGroup adds to it.            *)

Added    == IF grouped THEN 1..sent ELSE {}
Open     == IF grouped THEN (cursor + 1)..sent ELSE {}
Hand     == [r \in Readers |-> IF grouped THEN InHand(r) ELSE {}]
Finished == {p \in Ids : grouped /\ \E r \in Readers : handled[r][p] > 0}
Fault    == faults > 0
Spoilt   == {p \in Ids : Behind(p)}

\* A group that does not exist has given nothing out.
Unbegun == grouped /\ ~made => cursor = 0

\* Only a group that exists moves its cursor.
LEMMA UnbegunStep == Inv /\ Unbegun /\ [Next]_vars => Unbegun'
  <1> SUFFICES ASSUME Inv, Unbegun, [Next]_vars PROVE Unbegun' OBVIOUS
  <1>1. UNCHANGED <<grouped, made, cursor>> \/ made'
    BY DEF Next, ReaderStep, vars, stream, Send, CreateGroup, ReadGroup, GiveOut, ReadTail,
           ReadTailReturns, ReadTailEmpty, ReadKey, Entry, EntryBad, BatchEnd, Receive, Crash,
           ReplyLost, Ack, Handle
  <1> QED BY <1>1 DEF Unbegun

\* What r has in hand, without a reader's batch and with it.
LEMMA InHandIs ==
    \A r \in Readers : InHand(r) = Queued(r) \cup taken[r] \cup acked[r] \cup Rest(r)
  BY DEF InHand, Rest

\* The hands when one of them changes.
LEMMA HandOf ==
    ASSUME grouped, grouped', NEW r \in Readers, NEW S, InHand(r)' = S,
           \A s \in Readers : s # r => InHand(s)' = InHand(s)
    PROVE  Hand' = [Hand EXCEPT ![r] = S]
  <1>1. \A s \in Readers : Hand'[s] = InHand(s)' /\ Hand[s] = InHand(s)
    BY DEF Hand
  <1>2. Hand \in [Readers -> {Hand[s] : s \in Readers}] /\ Hand' = [s \in Readers |-> Hand'[s]]
    BY DEF Hand
  <1>3. [Hand EXCEPT ![r] = S] = [s \in Readers |-> IF s = r THEN S ELSE Hand[s]]
    BY DEF Hand
  <1> QED BY <1>1, <1>2, <1>3

\* The hands when none changes.
LEMMA HandKept ==
    ASSUME UNCHANGED grouped, \A s \in Readers : InHand(s)' = InHand(s)
    PROVE  Hand' = Hand
  BY DEF Hand

\* What is done is what some reader has done.
LEMMA FinishedIs ==
    grouped => Finished = UNION {Done(r) : r \in Readers}
  BY DEF Finished, Done

\* XADD adds an entry that waits.
LEMMA SendAdds ==
    ASSUME Inv, grouped, Send
    PROVE  \E p \in Ids : Group!Add(p)
  <1>1. /\ sent \in Nat /\ cursor \in Nat /\ cursor <= sent /\ sent + 1 \in Ids
        /\ sent' = sent + 1 /\ grouped' /\ cursor' = cursor
        /\ UNCHANGED <<reader, queue, tasks>>
    BY CountAssumption DEF Send, stream, Inv, TypeOK, Order, Ids, CountAssumption
  <1>2. /\ sent + 1 \notin Added
        /\ Added' = Added \cup {sent + 1} /\ Open' = Open \cup {sent + 1}
    BY <1>1 DEF Added, Open
  <1>3. Hand' = Hand
    BY <1>1, HandKept DEF InHand, Queued, reader, tasks
  <1>4. Finished' = Finished
    BY <1>1 DEF Finished, tasks
  <1>5. Group!Add(sent + 1)
    BY <1>1, <1>2, <1>3, <1>4 DEF Group!Add, Added, Open, Hand, Finished
  <1> QED BY <1>1, <1>5

\* The group begins behind what there is, and nobody has anything yet.
LEMMA CreateMisses ==
    ASSUME Inv, Unbegun, NEW r \in Readers, CreateGroup(r)
    PROVE  \E ps \in SUBSET Ids : Group!Miss(ps)
  <1>1. /\ sent \in Nat /\ cursor = 0 /\ cursor' = sent /\ sent' = sent /\ 1..sent \subseteq Ids
        /\ grouped /\ grouped' /\ UNCHANGED <<reader, queue, tasks>>
    BY CountAssumption DEF CreateGroup, Inv, TypeOK, Unbegun, Ids, CountAssumption
  <1>2. ASSUME NEW s \in Readers PROVE InHand(s) = {} /\ Done(s) = {}
    <2>1. \A p \in Passed(s) : p \in Ids /\ p <= 0
      BY <1>1, PassedIds DEF Inv, Range
    <2>2. Passed(s) = {}
      BY <2>1 DEF Ids
    <2>3. Rest(s) = {}
      <3>1. CASE pc[s] = "batch"
        <4>1. from[s] \in Nat /\ upto[s] \in Nat /\ upto[s] <= 0
          BY <1>1, <3>1, CountAssumption DEF Inv, TypeOK, Order, CountAssumption
        <4> QED BY <4>1 DEF Rest
      <3> QED BY <3>1 DEF Rest
    <2> QED BY <2>2, <2>3, InHandIs DEF Passed
  <1>3. Finished = {} /\ Hand = [s \in Readers |-> {}]
    BY <1>1, <1>2, FinishedIs DEF Hand
  <1>4. Hand' = Hand
    BY <1>1, HandKept DEF InHand, Queued, reader, tasks
  <1>5. Finished' = Finished /\ Added' = Added
    BY <1>1 DEF Finished, Added, tasks
  <1>6. Open' = Open \ (1..sent)
    BY <1>1 DEF Open
  <1>7. \A s \in Readers : Hand[s] = {}
    BY <1>3
  <1>8. Group!Unused
    BY <1>3, <1>7 DEF Group!Unused, Hand, Finished
  <1>9. Group!Miss(1..sent)
    BY <1>4, <1>5, <1>6, <1>8 DEF Group!Miss, Added, Open, Hand, Finished
  <1> QED BY <1>1, <1>9

\* What comes after the cursor is given out up to the end of the read.
LEMMA OpenAfter ==
    ASSUME Inv, grouped, GiveOut, UNCHANGED sent
    PROVE  /\ grouped' /\ (cursor + 1)..Upto(cursor) \subseteq Open
           /\ Open' = Open \ ((cursor + 1)..Upto(cursor))
           /\ (cursor + 1)..Upto(cursor) \in SUBSET Ids
  <1>1. /\ sent \in Nat /\ cursor \in Nat /\ sent <= MaxSent /\ MaxSent \in Nat
        /\ cursor' = Upto(cursor) /\ grouped' /\ cursor < sent
    BY CountAssumption DEF GiveOut, Inv, TypeOK, CountAssumption
  <1>2. Upto(cursor) \in Nat /\ Upto(cursor) <= sent /\ cursor <= Upto(cursor)
    BY <1>1, CountAssumption DEF Upto, CountAssumption
  <1> QED BY <1>1, <1>2 DEF Open, Ids

\* XREADGROUP gives a batch of what waits to one reader.
LEMMA ReadGives ==
    ASSUME Inv, NEW r \in Readers, ReadGroup(r)
    PROVE  \E ps \in SUBSET Ids : Group!Give(r, ps)
  <1> DEFINE ps == (cursor + 1)..Upto(cursor)
  <1>1. grouped /\ GiveOut /\ Batch(r, cursor) /\ pc[r] = "idle" /\ UNCHANGED <<sent, queue, tasks>>
    BY DEF ReadGroup
  <1>2. /\ grouped' /\ ps \subseteq Open /\ Open' = Open \ ps /\ ps \in SUBSET Ids
    BY <1>1, OpenAfter
  <1>3. /\ Rest(r) = {} /\ Rest(r)' = ps
        /\ \A s \in Readers : s # r => Rest(s)' = Rest(s)
    BY <1>1 DEF Batch, Rest, Inv, TypeOK
  <1>4. \A s \in Readers : Queued(s)' = Queued(s) /\ taken'[s] = taken[s] /\ acked'[s] = acked[s]
    BY <1>1 DEF Queued, tasks
  <1>5. InHand(r)' = InHand(r) \cup ps
    <2>1. InHand(r)' = Queued(r)' \cup taken'[r] \cup acked'[r] \cup Rest(r)'
      BY DEF InHand, Rest
    <2> QED BY <1>3, <1>4, <2>1, InHandIs
  <1>6. \A s \in Readers : s # r => InHand(s)' = InHand(s)
    BY <1>3, <1>4 DEF InHand, Rest
  <1>7. Hand' = [Hand EXCEPT ![r] = InHand(r) \cup ps]
    BY <1>1, <1>2, <1>5, <1>6, HandOf
  <1>8. Hand[r] = InHand(r)
    BY <1>1 DEF Hand
  <1>9. Added' = Added /\ Finished' = Finished
    BY <1>1, <1>2 DEF Added, Finished, tasks
  <1> HIDE DEF ps
  <1>10. Hand' = [Hand EXCEPT ![r] = Hand[r] \cup ps]
    BY <1>7, <1>8
  <1>11. Group!Give(r, ps)
    BY <1>2, <1>9, <1>10 DEF Group!Give, Added, Open, Hand, Finished
  <1> QED BY <1>2, <1>11

\* A reply that is lost takes what Redis gave out with it.
LEMMA ReplyMisses ==
    ASSUME Inv, grouped, NEW r \in Readers, ReplyLost(r)
    PROVE  \E ps \in SUBSET Ids : Group!Miss(ps)
  <1> DEFINE ps == (cursor + 1)..Upto(cursor)
  <1>1. pc[r] # "reading"
    BY DEF Inv, Order
  <1>2. /\ GiveOut /\ faults' = faults + 1 /\ faults \in Nat
        /\ UNCHANGED <<sent, reader, queue, tasks>>
    BY <1>1, CountAssumption DEF ReplyLost, reader, Inv, TypeOK, CountAssumption
  <1>3. grouped' /\ Open' = Open \ ps /\ ps \in SUBSET Ids
    BY <1>2, OpenAfter
  <1>4. Hand' = Hand
    BY <1>2, <1>3, HandKept DEF InHand, Queued, reader, tasks
  <1>5. Added' = Added /\ Finished' = Finished
    BY <1>2, <1>3 DEF Added, Finished, tasks
  <1>6. Fault'
    BY <1>2 DEF Fault
  <1> HIDE DEF ps
  <1>7. Group!Miss(ps)
    BY <1>3, <1>4, <1>5, <1>6 DEF Group!Miss, Added, Open, Hand, Finished, Fault
  <1> QED BY <1>3, <1>7

\* With a group no entry comes twice to one reader (Copies), nor behind its batch.
LEMMA OnceInHand ==
    ASSUME Inv, grouped, NEW r \in Readers
    PROVE  /\ taken[r] \cap acked[r] = {}
           /\ Queued(r) \cap (taken[r] \cup acked[r]) = {}
           /\ Passed(r) \cap Rest(r) = {}
  <1>1. \A p \in Ids : ~Caught(r, p)
    BY DEF Caught
  <1>2. Passed(r) \subseteq Ids
    BY PassedIds
  <1>3. Queued(r) \cap (taken[r] \cup acked[r]) = {}
    BY <1>1, <1>2 DEF Inv, Copies, Passed
  <1>4. ASSUME NEW p \in Passed(r), p \in Rest(r) PROVE FALSE
    <2>1. pc[r] = "batch" /\ p \in (from[r] + 1)..upto[r]
      BY <1>4 DEF Rest
    <2>2. p <= from[r] /\ from[r] \in Nat
      BY <1>1, <1>2, <2>1, CountAssumption DEF Inv, TypeOK, Below, Low, CountAssumption
    <2> QED BY <2>1, <2>2
  <1> QED BY <1>3, <1>4 DEF Inv, Copies

\* The steps of an entry within a reader's process leave it in hand.
LEMMA WithinKeeps ==
    ASSUME Inv, grouped, NEW r \in Readers,
           Entry(r) \/ BatchEnd(r) \/ Receive(r) \/ \E p \in Ids : Ack(r, p)
    PROVE  UNCHANGED <<Added, Open, Hand, Finished>>
  <1>1. UNCHANGED <<grouped, cursor, sent, handled>>
    BY DEF Entry, BatchEnd, Receive, Ack, stream, tasks
  <1>2. UNCHANGED <<Added, Open, Finished>>
    BY <1>1 DEF Added, Open, Finished
  <1>3. /\ from[r] \in Nat /\ upto[r] \in Nat
        /\ pc \in [Readers -> {"idle", "reading", "batch"}] /\ from \in [Readers -> 0..MaxSent]
        /\ taken \in [Readers -> SUBSET Ids] /\ acked \in [Readers -> SUBSET Ids]
    BY CountAssumption DEF Inv, TypeOK, CountAssumption
  <1>4. \A s \in Readers : InHand(s)' = Queued(s)' \cup taken'[s] \cup acked'[s] \cup Rest(s)'
    BY DEF InHand, Rest
  <1>5. CASE Entry(r)
    <2>1. /\ Queued(r)' = Queued(r) \cup {from[r] + 1}
          /\ \A s \in Readers : s # r => Queued(s)' = Queued(s)
          /\ UNCHANGED <<taken, acked>>
      BY <1>5, EntrySets DEF Entry, tasks
    <2>2. /\ pc[r] = "batch" /\ from[r] < upto[r] /\ UNCHANGED <<pc, upto>>
          /\ from' = [from EXCEPT ![r] = from[r] + 1]
      BY <1>5 DEF Entry
    <2>3. Rest(r) = Rest(r)' \cup {from[r] + 1}
      <3>1. Rest(r) = (from[r] + 1)..upto[r] /\ Rest(r)' = (from[r] + 2)..upto[r]
        BY <1>3, <2>2 DEF Rest
      <3> QED BY <1>3, <2>2, <3>1
    <2>4. \A s \in Readers : s # r => Rest(s)' = Rest(s)
      BY <1>3, <2>2 DEF Rest
    <2>5. \A s \in Readers : InHand(s)' = InHand(s)
      BY <1>4, <2>1, <2>3, <2>4, InHandIs
    <2> QED BY <1>1, <1>2, <2>5, HandKept
  <1>6. CASE BatchEnd(r)
    <2>1. /\ pc[r] = "batch" /\ from[r] = upto[r] /\ pc' = [pc EXCEPT ![r] = "idle"]
          /\ UNCHANGED <<from, upto, queue, tasks>>
      BY <1>6 DEF BatchEnd
    <2>2. Rest(r) = {} /\ Rest(r)' = {}
      BY <1>3, <2>1 DEF Rest
    <2>3. \A s \in Readers : Rest(s)' = Rest(s)
      BY <1>3, <2>1, <2>2 DEF Rest
    <2>5. \A s \in Readers : Queued(s)' = Queued(s) /\ taken'[s] = taken[s] /\ acked'[s] = acked[s]
      BY <2>1, Same DEF tasks
    <2>4. \A s \in Readers : InHand(s)' = InHand(s)
      BY <1>4, <2>3, <2>5, InHandIs
    <2> QED BY <1>1, <1>2, <2>4, HandKept
  <1>7. CASE Receive(r)
    <2>1. UNCHANGED reader
      BY <1>7 DEF Receive
    <2>2. \A s \in Readers : Rest(s)' = Rest(s)
      BY <2>1 DEF Rest, reader
    <2>3. \A s \in Readers : Queued(s)' \cup taken'[s] = Queued(s) \cup taken[s]
      <3>1. PICK p \in Ids : /\ taken' = [taken EXCEPT ![r] = @ \cup {p}]
                             /\ Queued(r) = Queued(r)' \cup {p}
                             /\ \A s \in Readers : s # r => Queued(s)' = Queued(s)
        BY <1>7, ReceiveSets
      <3>2. taken'[r] = taken[r] \cup {p} /\ \A s \in Readers : s # r => taken'[s] = taken[s]
        BY <1>3, <3>1
      <3> QED BY <3>1, <3>2
    <2>4. acked' = acked
      BY <1>7 DEF Receive
    <2>5. \A s \in Readers : InHand(s)' = InHand(s)
      BY <1>4, <2>2, <2>3, <2>4, InHandIs
    <2> QED BY <1>1, <1>2, <2>5, HandKept
  <1>8. ASSUME NEW p \in Ids, Ack(r, p) PROVE UNCHANGED <<Added, Open, Hand, Finished>>
    <2>1. UNCHANGED reader
      BY <1>8 DEF Ack
    <2>2. \A s \in Readers : Rest(s)' = Rest(s)
      BY <2>1 DEF Rest, reader
    <2>3. /\ p \in taken[r] /\ taken' = [taken EXCEPT ![r] = @ \ {p}]
          /\ acked' = [acked EXCEPT ![r] = @ \cup {p}]
          /\ \A s \in Readers : Queued(s)' = Queued(s)
      BY <1>8, AckSets
    <2>4. \A s \in Readers : taken'[s] \cup acked'[s] = taken[s] \cup acked[s]
      BY <1>3, <2>3
    <2>5. \A s \in Readers : InHand(s)' = InHand(s)
      BY <1>4, <2>2, <2>3, <2>4, InHandIs
    <2> QED BY <1>1, <1>2, <2>5, HandKept
  <1> QED BY <1>5, <1>6, <1>7, <1>8

\* A malformed entry takes the rest of its read with it.
LEMMA BadLoses ==
    ASSUME Inv, grouped, NEW r \in Readers, EntryBad(r)
    PROVE  \E ps \in SUBSET Ids : Group!Lose(r, ps)
  <1> DEFINE ps == InHand(r) \ InHand(r)'
  <1>1. /\ pc[r] = "batch" /\ from[r] < upto[r] /\ from[r] + 1 \in bad
        /\ pc' = [pc EXCEPT ![r] = "idle"]
        /\ UNCHANGED <<stream, sent, from, upto, queue, tasks>> /\ grouped'
    BY DEF EntryBad, stream
  <1>2. /\ from[r] \in Nat /\ upto[r] \in Nat /\ upto[r] <= MaxSent /\ MaxSent \in Nat
        /\ upto[r] <= from[r] + Count /\ Count \in Nat
    BY <1>1, CountAssumption DEF Inv, TypeOK, Order, CountAssumption
  <1>3. Rest(r) \in SUBSET Spoilt
    <2>1. Rest(r) = (from[r] + 1)..upto[r]
      BY <1>1 DEF Rest
    <2> QED BY <1>1, <1>2, <2>1 DEF Spoilt, Behind, Ids
  <1>4. \A s \in Readers : s # r => Rest(s)' = Rest(s)
    BY <1>1 DEF Rest, Inv, TypeOK
  <1>5. Rest(r)' = {}
    BY <1>1 DEF Rest, Inv, TypeOK
  <1>6. \A s \in Readers : InHand(s)' = Queued(s) \cup taken[s] \cup acked[s] \cup Rest(s)'
    BY <1>1 DEF InHand, Rest, Queued, tasks
  <1>7. \A s \in Readers : s # r => InHand(s)' = InHand(s)
    BY <1>4, <1>6, InHandIs
  <1>8. ps \subseteq Spoilt /\ InHand(r)' = InHand(r) \ ps
    BY <1>3, <1>5, <1>6, InHandIs
  <1>9. Hand' = [Hand EXCEPT ![r] = InHand(r) \ ps]
    BY <1>1, <1>7, <1>8, HandOf
  <1>10. Hand[r] = InHand(r)
    BY DEF Hand
  <1>11. UNCHANGED <<Added, Open, Finished>>
    BY <1>1 DEF Added, Open, Finished, stream, tasks
  <1> HIDE DEF ps
  <1>12. Hand' = [Hand EXCEPT ![r] = Hand[r] \ ps]
    BY <1>9, <1>10
  <1>13. Group!Lose(r, ps)
    BY <1>8, <1>11, <1>12 DEF Group!Lose, Added, Open, Hand, Finished, Spoilt
  <1>14. ps \in SUBSET Ids
    BY <1>8 DEF Spoilt
  <1> QED BY <1>13, <1>14

\* A process that restarts has nothing in hand.
LEMMA CrashLoses ==
    ASSUME Inv, grouped, NEW r \in Readers, Crash(r)
    PROVE  \E ps \in SUBSET Ids : Group!Lose(r, ps)
  <1>1. /\ taken'[r] = {} /\ acked'[r] = {} /\ Queued(r)' = {} /\ pc'[r] = "idle" /\ faults' > 0
        /\ \A s \in Readers : s # r =>
              /\ taken'[s] = taken[s] /\ acked'[s] = acked[s] /\ pc'[s] = pc[s]
              /\ Queued(s)' = Queued(s)
        /\ UNCHANGED <<stream, sent, from, upto>>
    BY CrashSets
  <1>2. grouped' /\ handled' = handled
    BY <1>1 DEF stream, Crash
  <1>3. InHand(r)' = {}
    BY <1>1 DEF InHand
  <1>4. \A s \in Readers : s # r => InHand(s)' = InHand(s)
    BY <1>1 DEF InHand
  <1>5. Hand' = [Hand EXCEPT ![r] = {}]
    BY <1>2, <1>3, <1>4, HandOf
  <1>6. Hand[r] = InHand(r)
    BY DEF Hand
  <1>7. UNCHANGED <<Added, Open, Finished>>
    BY <1>1, <1>2 DEF Added, Open, Finished, stream
  <1>8. InHand(r) \in SUBSET Ids
    <2>1. Passed(r) \subseteq Ids
      BY PassedIds
    <2>2. Rest(r) \subseteq Ids
      <3>1. from[r] \in Nat /\ upto[r] \in 0..MaxSent /\ MaxSent \in Nat
        BY CountAssumption DEF Inv, TypeOK, CountAssumption
      <3>2. (from[r] + 1)..upto[r] \subseteq 1..MaxSent
        BY <3>1
      <3> QED BY <3>2 DEF Rest, Ids
    <2> QED BY <2>1, <2>2, InHandIs DEF Passed
  <1>9. Hand[r] \ InHand(r) = {}
    BY <1>6
  <1>10. Hand' = [Hand EXCEPT ![r] = Hand[r] \ InHand(r)]
    BY <1>5, <1>9
  <1>11. Fault'
    BY <1>1 DEF Fault
  <1>12. Group!Lose(r, InHand(r))
    BY <1>7, <1>10, <1>11 DEF Group!Lose, Added, Open, Hand, Finished, Fault
  <1> QED BY <1>8, <1>12

\* A task that ends has handled an entry that its reader had in hand, and has no more.
LEMMA HandleHandles ==
    ASSUME Inv, grouped, NEW r \in Readers, NEW p \in Ids, Handle(r, p)
    PROVE  Group!Handle(r, p)
  <1>1. /\ p \in acked[r] /\ acked' = [acked EXCEPT ![r] = @ \ {p}]
        /\ Done(r)' = Done(r) \cup {p} /\ \A s \in Readers : s # r => Done(s)' = Done(s)
        /\ \A s \in Readers : Queued(s)' = Queued(s)
        /\ UNCHANGED <<stream, reader, sent, queue, taken>>
    BY HandleSets
  <1>2. grouped'
    BY <1>1 DEF stream
  <1>3. acked'[r] = acked[r] \ {p} /\ \A s \in Readers : s # r => acked'[s] = acked[s]
    BY <1>1 DEF Inv, TypeOK
  <1>4. \A s \in Readers : Rest(s)' = Rest(s)
    BY <1>1 DEF Rest, reader
  <1>5. \A s \in Readers : InHand(s)' = Queued(s) \cup taken[s] \cup acked'[s] \cup Rest(s)
    BY <1>1, <1>4 DEF InHand, Rest
  <1>6. \A s \in Readers : s # r => InHand(s)' = InHand(s)
    BY <1>3, <1>5, InHandIs
  <1>7. p \notin Queued(r) \cup taken[r] \cup Rest(r)
    BY <1>1, OnceInHand DEF Passed
  <1>8. InHand(r)' = InHand(r) \ {p} /\ p \in InHand(r)
    BY <1>1, <1>3, <1>5, <1>7, InHandIs
  <1>9. Hand[r] = InHand(r)
    BY DEF Hand
  <1>10. Hand' = [Hand EXCEPT ![r] = InHand(r) \ {p}]
    BY <1>2, <1>6, <1>8, HandOf
  <1>11. Finished' = Finished \cup {p}
    <2>1. \A q \in Ids : q \in Finished <=> \E s \in Readers : q \in Done(s)
      BY DEF Finished, Done
    <2>2. \A q \in Ids : q \in Finished' <=> \E s \in Readers : q \in Done(s)'
      BY <1>2 DEF Finished, Done
    <2>3. \A q \in Ids : q \in Finished' <=> q \in Finished \/ q = p
      BY <1>1, <2>1, <2>2
    <2>4. Finished \subseteq Ids /\ Finished' \subseteq Ids
      BY DEF Finished
    <2> QED BY <2>3, <2>4
  <1>12. Added' = Added /\ Open' = Open
    BY <1>1 DEF Added, Open, stream
  <1>13. Hand' = [Hand EXCEPT ![r] = Hand[r] \ {p}] /\ p \in Hand[r]
    BY <1>8, <1>9, <1>10
  <1> QED BY <1>11, <1>12, <1>13 DEF Group!Handle, Added, Open, Hand, Finished

\* Without a group nobody is dealt anything.
LEMMA AloneKeeps ==
    ASSUME Inv, ~grouped, grouped' = grouped
    PROVE  UNCHANGED <<Added, Open, Hand, Finished>>
  BY DEF Added, Open, Hand, Finished

\* Every step of the stream, its readers and its services is one of WorkGroup.
LEMMA StepDeals ==
    Inv /\ Unbegun /\ [Next]_vars =>
        [Group!Next]_<<Added, Open, Hand, Finished, Fault, Spoilt>>
  <1> SUFFICES ASSUME Inv, Unbegun, [Next]_vars
               PROVE  Group!Next \/ UNCHANGED <<Added, Open, Hand, Finished, Fault, Spoilt>>
    OBVIOUS
  <1>1. /\ grouped' = grouped /\ Spoilt' = Spoilt /\ (Fault => Fault')
    <2>1. grouped' = grouped /\ bad' = bad /\ faults' >= faults
      BY MonoStep
    <2>2. faults \in Nat /\ faults' \in Nat
      BY TypeStep, CountAssumption DEF Inv, TypeOK, CountAssumption
    <2> QED BY <2>1, <2>2 DEF Spoilt, Behind, Fault
  <1>2. ASSUME UNCHANGED <<Added, Open, Hand, Finished>>
        PROVE  Group!Next \/ UNCHANGED <<Added, Open, Hand, Finished, Fault, Spoilt>>
    <2>1. CASE Fault' = Fault
      BY <1>1, <1>2, <2>1
    <2>2. CASE Fault' # Fault
      <3>1. Fault' /\ {} \in SUBSET Ids
        BY <1>1, <2>2 DEF Fault
      <3>2. Group!Miss({})
        BY <1>2, <3>1 DEF Group!Miss, Added, Open, Hand, Finished, Fault
      <3> QED BY <1>1, <3>1, <3>2 DEF Group!Next, Fault, Spoilt
    <2> QED BY <2>1, <2>2
  <1>3. CASE ~grouped
    BY <1>1, <1>2, <1>3, AloneKeeps
  <1>4. CASE grouped /\ Next
    <2>1. ASSUME Send PROVE Group!Next
      BY <1>1, <1>4, <2>1, SendAdds DEF Group!Next, Fault, Spoilt
    <2>2. ASSUME NEW r \in Readers, CreateGroup(r) \/ ReplyLost(r) PROVE Group!Next
      BY <1>1, <1>4, <2>2, CreateMisses, ReplyMisses DEF Group!Next, Fault, Spoilt
    <2>3. ASSUME NEW r \in Readers, ReadGroup(r) PROVE Group!Next
      BY <1>1, <1>4, <2>3, ReadGives DEF Group!Next, Fault, Spoilt
    <2>4. ASSUME NEW r \in Readers, EntryBad(r) \/ Crash(r) PROVE Group!Next
      BY <1>1, <1>4, <2>4, BadLoses, CrashLoses DEF Group!Next, Fault, Spoilt
    <2>5. ASSUME NEW r \in Readers, NEW p \in Ids, Handle(r, p) PROVE Group!Next
      BY <1>1, <1>4, <2>5, HandleHandles DEF Group!Next, Fault, Spoilt
    <2>6. ASSUME NEW r \in Readers, Entry(r) \/ BatchEnd(r) \/ Receive(r) \/ \E p \in Ids : Ack(r, p)
          PROVE  UNCHANGED <<Added, Open, Hand, Finished>>
      BY <1>4, <2>6, WithinKeeps
    <2>7. ASSUME NEW r \in Readers, ReadTail(r) \/ ReadTailReturns(r) \/ ReadTailEmpty(r) \/ ReadKey(r)
          PROVE  FALSE
      BY <1>4, <2>7 DEF ReadTail, ReadTailReturns, ReadTailEmpty, ReadKey, Inv, Order
    <2> QED BY <1>2, <1>4, <2>1, <2>2, <2>3, <2>4, <2>5, <2>6, <2>7 DEF Next, ReaderStep
  <1>5. CASE UNCHANGED vars
    BY <1>1, <1>2, <1>5 DEF vars, Added, Open, Hand, InHand, Queued, Finished
  <1> QED BY <1>3, <1>4, <1>5

\* RpcServer::listen with a group, its batches, channels, restarts and lost replies,
\* deals every entry to one reader once, and loses only what a fault or a malformed
\* entry explains.
THEOREM GroupDealsOut == Spec => DealsOut
  <1>1. Init => Group!Init /\ Unbegun
    <2> SUFFICES ASSUME Init PROVE Group!Init /\ Unbegun OBVIOUS
    <2>1. sent = 0 /\ cursor = 0 /\ faults = 0
      BY DEF Init
    <2>2. \A r \in Readers : InHand(r) = {} /\ Done(r) = {}
      BY DEF Init, InHand, Queued, Done
    <2>3. Added = {} /\ Open = {} /\ ~Fault /\ Spoilt \subseteq Ids
      BY <2>1 DEF Added, Open, Fault, Spoilt
    <2>4. Hand = [r \in Readers |-> {}] /\ Finished = {}
      BY <2>2 DEF Hand, Finished, Done
    <2> QED BY <2>1, <2>3, <2>4 DEF Group!Init, Unbegun, Added, Open, Hand, Finished, Fault, Spoilt
  <1>2. Spec => []Unbegun
    BY <1>1, UnbegunStep, Invariance, PTL DEF Spec
  <1> QED BY <1>1, <1>2, Invariance, StepDeals, PTL
       DEF Spec, DealsOut, Group!Spec, Group!vars, Added, Open, Hand, Finished, Fault, Spoilt
=============================================================================
