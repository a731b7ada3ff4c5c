------------------------------ MODULE RpcStream ------------------------------
(***************************************************************************)
(* Requests between the services (rpc/src/server.rs, and the loops of the  *)
(* proxy, the switchboard and the media server that read from it).         *)
(*                                                                         *)
(* A client XADDs to a Redis stream.  An RpcServer reads batches, parses   *)
(* the entries and puts them on a bounded channel; for each the service    *)
(* starts a task that acknowledges it and then handles it.  A stream with  *)
(* a consumer group has a reader in every process of a service, and Redis  *)
(* gives each entry to one of them; a stream without (of one proxy, or of  *)
(* one media stream) is read from the id that the reader has come to, and  *)
(* from "$" before it has come to any.                                     *)
(*                                                                         *)
(* Entries are numbered as they are added.  What XADD trims, at a million  *)
(* entries, is not modelled.                                               *)
(***************************************************************************)
EXTENDS Integers, FiniteSets, Sequences

CONSTANTS
    Readers,    \* the RpcServers of the stream
    Alone,      \* those that read it when it has no group
    MaxSent,    \* the bound on the entries
    Count,      \* the most entries a read returns (1000)
    Capacity,   \* of the channel to the service (100)
    MaxFaults   \* the bound on crashes and lost replies

ASSUME CountAssumption ==
    /\ Alone \subseteq Readers
    /\ MaxSent \in Nat /\ MaxFaults \in Nat
    /\ Count \in Nat \ {0} /\ Capacity \in Nat \ {0}

VARIABLES
    grouped,  \* the stream has a consumer group (never changes)
    bad,      \* the entries no reader can parse (never changes)
    sent,     \* how many entries there are
    made,     \* the group has been created
    cursor,   \* the last entry given to a reader of the group
    pending,  \* the entries given out and not acknowledged
    pc,       \* the place of each reader
    tail,     \* the reader's key_id is "$"
    key,      \* its key_id otherwise
    from,     \* the entry that its read, or the rest of its batch, comes after
    upto,     \* the last entry of its batch
    queue,    \* its channel
    taken,    \* the entries with a task that has not acknowledged
    acked,    \* those whose task has acknowledged and not finished
    handled,  \* how often each reader's service has handled an entry, to Many
    faults    \* crashes and lost replies so far

vars == <<grouped, bad, sent, made, cursor, pending, pc, tail, key, from, upto,
          queue, taken, acked, handled, faults>>

stream == <<grouped, bad, made, cursor, pending>>
reader == <<pc, tail, key, from, upto>>
tasks  == <<taken, acked, handled>>

-----------------------------------------------------------------------------
Ids  == 1..MaxSent
Many == 2

TypeOK ==
    /\ grouped \in BOOLEAN /\ made \in BOOLEAN
    /\ bad \subseteq Ids /\ pending \subseteq Ids
    /\ sent \in 0..MaxSent /\ cursor \in 0..MaxSent
    /\ pc \in [Readers -> {"idle", "reading", "batch"}]
    /\ tail \in [Readers -> BOOLEAN]
    /\ key \in [Readers -> 0..MaxSent]
    /\ from \in [Readers -> 0..MaxSent]
    /\ upto \in [Readers -> 0..MaxSent]
    /\ queue \in [Readers -> Seq(Ids)]
    /\ taken \in [Readers -> SUBSET Ids]
    /\ acked \in [Readers -> SUBSET Ids]
    /\ handled \in [Readers -> [Ids -> 0..Many]]
    /\ faults \in 0..MaxFaults

\* At most one entry of a version that this reader does not know.
Init ==
    /\ grouped \in BOOLEAN
    /\ bad \in {{}} \cup {{b} : b \in Ids}
    /\ sent = 0 /\ made = FALSE /\ cursor = 0 /\ pending = {}
    /\ pc = [r \in Readers |-> "idle"]
    /\ tail = [r \in Readers |-> TRUE]
    /\ key = [r \in Readers |-> 0]
    /\ from = [r \in Readers |-> 0]
    /\ upto = [r \in Readers |-> 0]
    /\ queue = [r \in Readers |-> <<>>]
    /\ taken = [r \in Readers |-> {}]
    /\ acked = [r \in Readers |-> {}]
    /\ handled = [r \in Readers |-> [p \in Ids |-> 0]]
    /\ faults = 0

\* send_to_stream().  do_query repeats an XADD whose reply is lost: such a request
\* is two entries, and two of these steps.
Send ==
    /\ sent < MaxSent
    /\ sent' = sent + 1
    /\ UNCHANGED <<stream, reader, queue, tasks, faults>>

-----------------------------------------------------------------------------
(* Reading.                                                                *)

\* The last entry of a read that comes after entry p.
Upto(p) == IF sent - p < Count THEN sent ELSE p + Count

\* r goes through the entries after p.
Batch(r, p) ==
    /\ pc' = [pc EXCEPT ![r] = "batch"]
    /\ from' = [from EXCEPT ![r] = p]
    /\ upto' = [upto EXCEPT ![r] = Upto(p)]
    /\ UNCHANGED <<tail, key>>

\* The first XREADGROUP fails, and the group is created at "$".
CreateGroup(r) ==
    /\ grouped /\ ~made /\ pc[r] = "idle"
    /\ made' = TRUE
    /\ cursor' = sent
    /\ UNCHANGED <<grouped, bad, sent, pending, reader, queue, tasks, faults>>

\* XREADGROUP ">": what has been given to nobody yet.
GiveOut ==
    /\ cursor < sent
    /\ cursor' = Upto(cursor)
    /\ pending' = pending \cup ((cursor + 1)..Upto(cursor))
    /\ UNCHANGED <<grouped, bad, made>>

\* A mutant: a reader that starts asks for what is pending ("0" for ">").
ReadGroup_Pending(r) ==
    /\ grouped /\ made /\ pc[r] = "idle"
    /\ IF tail[r] /\ pending # {}
       THEN \E p \in pending : Batch(r, p - 1) /\ UNCHANGED <<grouped, bad, made, cursor, pending>>
       ELSE GiveOut /\ Batch(r, cursor)
    /\ UNCHANGED <<sent, queue, tasks, faults>>

ReadGroup(r) ==
    /\ grouped /\ made /\ pc[r] = "idle"
    /\ GiveOut
    /\ Batch(r, cursor)
    /\ UNCHANGED <<sent, queue, tasks, faults>>

\* XREAD from "$" waits for what is added after the command.
ReadTail(r) ==
    /\ r \in Alone /\ ~grouped /\ tail[r] /\ pc[r] = "idle"
    /\ pc' = [pc EXCEPT ![r] = "reading"]
    /\ from' = [from EXCEPT ![r] = sent]
    /\ UNCHANGED <<stream, sent, tail, key, upto, queue, tasks, faults>>

\* A mutant: only the newest entry is read.
ReadTailReturns_Newest(r) ==
    /\ pc[r] = "reading" /\ from[r] < sent
    /\ Batch(r, sent - 1)
    /\ UNCHANGED <<stream, sent, queue, tasks, faults>>

ReadTailReturns(r) ==
    /\ pc[r] = "reading" /\ from[r] < sent
    /\ Batch(r, from[r])
    /\ UNCHANGED <<stream, sent, queue, tasks, faults>>

\* A second without an entry: the next read is from "$" again.
ReadTailEmpty(r) ==
    /\ pc[r] = "reading" /\ from[r] = sent
    /\ pc' = [pc EXCEPT ![r] = "idle"]
    /\ UNCHANGED <<stream, sent, tail, key, from, upto, queue, tasks, faults>>

\* XREAD from the id of the last entry of the last batch.
ReadKey(r) ==
    /\ ~grouped /\ ~tail[r] /\ pc[r] = "idle"
    /\ key[r] < sent
    /\ Batch(r, key[r])
    /\ UNCHANGED <<stream, sent, queue, tasks, faults>>

\* The connection breaks before the reply has come, and do_query() sends the
\* command again: what the group gave out stays pending.
ReplyLost(r) ==
    /\ faults < MaxFaults
    /\ faults' = faults + 1
    /\ \/ /\ grouped /\ made /\ pc[r] = "idle"
          /\ GiveOut
          /\ UNCHANGED pc
       \/ /\ pc[r] = "reading"
          /\ pc' = [pc EXCEPT ![r] = "idle"]
          /\ UNCHANGED stream
    /\ UNCHANGED <<sent, tail, key, from, upto, queue, tasks>>

-----------------------------------------------------------------------------
(* The entries of a batch.  One that does not parse ends it at once: a     *)
(* reader of a group goes on behind the batch, another one reads the batch *)
(* again, because key_id is set at its end only.                           *)

\* A mutant: what does not fit into the channel is dropped (try_send for send).
Entry_Drops(r) ==
    /\ pc[r] = "batch" /\ from[r] < upto[r]
    /\ from[r] + 1 \notin bad
    /\ queue' = IF Len(queue[r]) < Capacity
                THEN [queue EXCEPT ![r] = Append(@, from[r] + 1)] ELSE queue
    /\ from' = [from EXCEPT ![r] = @ + 1]
    /\ UNCHANGED <<stream, sent, pc, tail, key, upto, tasks, faults>>

Entry(r) ==
    /\ pc[r] = "batch" /\ from[r] < upto[r]
    /\ from[r] + 1 \notin bad
    /\ Len(queue[r]) < Capacity
    /\ queue' = [queue EXCEPT ![r] = Append(@, from[r] + 1)]
    /\ from' = [from EXCEPT ![r] = @ + 1]
    /\ UNCHANGED <<stream, sent, pc, tail, key, upto, tasks, faults>>

EntryBad(r) ==
    /\ pc[r] = "batch" /\ from[r] < upto[r]
    /\ from[r] + 1 \in bad
    /\ pc' = [pc EXCEPT ![r] = "idle"]
    /\ UNCHANGED <<stream, sent, tail, key, from, upto, queue, tasks, faults>>

\* A mutant: key_id is not kept.
BatchEnd_Forgets(r) ==
    /\ pc[r] = "batch" /\ from[r] = upto[r]
    /\ pc' = [pc EXCEPT ![r] = "idle"]
    /\ tail' = [tail EXCEPT ![r] = FALSE]
    /\ UNCHANGED <<stream, sent, key, from, upto, queue, tasks, faults>>

BatchEnd(r) ==
    /\ pc[r] = "batch" /\ from[r] = upto[r]
    /\ pc' = [pc EXCEPT ![r] = "idle"]
    /\ tail' = [tail EXCEPT ![r] = FALSE]
    /\ key' = [key EXCEPT ![r] = upto[r]]
    /\ UNCHANGED <<stream, sent, from, upto, queue, tasks, faults>>

-----------------------------------------------------------------------------
(* The service.  A second task for the same entry starts when the first is *)
(* done (a bound).                                                         *)

Receive(r) ==
    /\ queue[r] # <<>>
    /\ Head(queue[r]) \notin taken[r] \cup acked[r]
    /\ taken' = [taken EXCEPT ![r] = @ \cup {Head(queue[r])}]
    /\ queue' = [queue EXCEPT ![r] = Tail(@)]
    /\ UNCHANGED <<stream, sent, reader, acked, handled, faults>>

\* RpcEntry::ack()
Ack(r, p) ==
    /\ p \in taken[r]
    /\ pending' = IF grouped THEN pending \ {p} ELSE pending
    /\ taken' = [taken EXCEPT ![r] = @ \ {p}]
    /\ acked' = [acked EXCEPT ![r] = @ \cup {p}]
    /\ UNCHANGED <<grouped, bad, made, cursor, sent, reader, queue, handled, faults>>

Handle(r, p) ==
    /\ p \in acked[r]
    /\ acked' = [acked EXCEPT ![r] = @ \ {p}]
    /\ handled' = [handled EXCEPT ![r][p] = IF @ < Many THEN @ + 1 ELSE Many]
    /\ UNCHANGED <<stream, sent, reader, queue, taken, faults>>

\* The process of a reader restarts.
Crash(r) ==
    /\ faults < MaxFaults
    /\ faults' = faults + 1
    /\ pc' = [pc EXCEPT ![r] = "idle"]
    /\ tail' = [tail EXCEPT ![r] = TRUE]
    /\ queue' = [queue EXCEPT ![r] = <<>>]
    /\ taken' = [taken EXCEPT ![r] = {}]
    /\ acked' = [acked EXCEPT ![r] = {}]
    /\ UNCHANGED <<stream, sent, key, from, upto, handled>>

-----------------------------------------------------------------------------
ReaderStep(r) ==
    \/ CreateGroup(r) \/ ReadGroup(r)
    \/ ReadTail(r) \/ ReadTailReturns(r) \/ ReadTailEmpty(r)
    \/ ReadKey(r)
    \/ Entry(r) \/ EntryBad(r) \/ BatchEnd(r)

Next ==
    \/ Send
    \/ \E r \in Readers :
        \/ ReaderStep(r) \/ Receive(r) \/ Crash(r) \/ ReplyLost(r)
        \/ \E p \in Ids : Ack(r, p) \/ Handle(r, p)

Spec == Init /\ [][Next]_vars

\* The loop of a reader and that of its service run on, and tasks end.
Fairness ==
    \A r \in Readers :
        /\ WF_vars(ReaderStep(r))
        /\ WF_vars(Receive(r))
        /\ \A p \in Ids : WF_vars(Ack(r, p)) /\ WF_vars(Handle(r, p))

FairSpec == Spec /\ Fairness

-----------------------------------------------------------------------------
(* Properties                                                              *)

Queued(r) == {queue[r][i] : i \in DOMAIN queue[r]}

\* The entries on their way through the process of r.
InHand(r) ==
    Queued(r) \cup taken[r] \cup acked[r] \cup
    (IF pc[r] = "batch" THEN (from[r] + 1)..upto[r] ELSE {})

\* With a group an entry is handled once, by one service, whatever crashes: what
\* a dead process had is never given out again, acknowledged or not.
OnceInGroup ==
    grouped => \A r, s \in Readers, p \in Ids :
        /\ handled[r][p] < Many
        /\ handled[r][p] > 0 => p \notin InHand(s)
        /\ r # s => handled[r][p] = 0 \/ handled[s][p] = 0

\* An entry at or before p, near enough to come in the same read, is malformed.
Behind(p) == \E b \in bad : b <= p /\ p < b + Count

\* With a group an entry given out and not acknowledged that nobody has in hand
\* is lost for good, and it takes a fault, or a malformed entry that the same
\* read returned before it.
LostOnlyByFault ==
    grouped => \A p \in pending :
        \/ \E r \in Readers : p \in InHand(r)
        \/ faults > 0
        \/ Behind(p)

\* Without a group a service handles an entry again only while its reader runs
\* against a malformed entry that it cannot get past.
AgainOnlyBeforeBad ==
    ~grouped => \A r \in Readers, p \in Ids :
        handled[r][p] = Many =>
            \E b \in bad : p < b /\ b <= sent /\ (key[r] < b \/ faults > 0)

\* What a reader is bound to get: everything that a group gives out, and for a
\* reader without one everything after its key_id, or after the "$" it waits at.
Bound(r, p) ==
    /\ p <= sent
    /\ IF grouped THEN made /\ cursor < p
       ELSE IF tail[r] THEN pc[r] = "reading" /\ from[r] < p
       ELSE key[r] < p

\* That is handled, unless there is a fault or a malformed entry before it (with a
\* group, in the same read).
Delivered ==
    \A r \in Readers, p \in Ids :
        Bound(r, p) ~> \/ \E s \in Readers : handled[s][p] > 0
                       \/ faults > 0
                       \/ IF grouped THEN Behind(p) ELSE \E b \in bad : b <= p

\* A group deals every entry out once, and what a reader loses, by a crash, a lost
\* reply or a malformed entry, is dealt to nobody again.
Group == INSTANCE WorkGroup
           WITH Entries <- Ids,
                added   <- IF grouped THEN 1..sent ELSE {},
                open    <- IF grouped THEN (cursor + 1)..sent ELSE {},
                hand    <- [r \in Readers |-> IF grouped THEN InHand(r) ELSE {}],
                done    <- {p \in Ids : grouped /\ \E r \in Readers : handled[r][p] > 0},
                fault   <- faults > 0,
                spoilt  <- {p \in Ids : Behind(p)}

DealsOut == Group!Spec
=============================================================================
