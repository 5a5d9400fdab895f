------------------------------- MODULE Buses --------------------------------
(***************************************************************************)
(* The two transports behind bus/base.py, InMemoryBus and RedisBus, for    *)
(* one topic and one consumer group, under the calls run_once makes: on    *)
(* either of them, or on both side by side to compare their answers.       *)
(*                                                                         *)
(* Redis itself is external: XADD trims, XREADGROUP and XPENDING read in   *)
(* stream order, XCLAIM counts a delivery and drops from the pending list  *)
(* what was trimmed (Redis 7, docker-compose.yml).  An entry is named by   *)
(* its position in the stream.                                             *)
(***************************************************************************)
EXTENDS Integers, Sequences, FiniteSets, SequencesExt, FiniteSetsExt

CONSTANTS
  Consumers,    \* consumer names of the group
  Deployments,  \* the sets of consumers that may run
  N,            \* bound: entries ever published
  Count,        \* how many messages a call of subscribe may claim
  Limits,       \* the values of maxlen; N stands for no trimming
  Ranks,        \* the orders ids may have as strings: position -> rank
  MaxNacks,     \* bound: deliveries handed back
  MaxLost       \* bound: batches abandoned, and reclaims

Entries == 1 .. N
NoOne == "no one"

ASSUME BusConstants ==
  /\ NoOne \notin Consumers
  /\ N \in Nat \ {0} /\ Count \in Nat \ {0}
  /\ \A D \in Deployments : D # {} /\ D \subseteq Consumers
  /\ Limits \subseteq Entries
  /\ Ranks \subseteq [Entries -> Nat]
  /\ MaxNacks \in Nat /\ MaxLost \in Nat

VARIABLES
  used,      \* the transports that are called
  deployed,  \* the consumers that run
  limit,     \* RedisBus._maxlen
  rank,      \* how the ids compare as strings
  joined,    \* the group exists
  tail,      \* entries published
  kept,      \* the oldest entry of the Redis stream
  mem,       \* InMemoryBus: _Group
  red,       \* RedisBus: the group's last-delivered id and pending entries list
  last,      \* per transport: the answer of the last call that claims
  given,     \* per transport and entry: how often it was really delivered
  batch,     \* per consumer: the entries run_once has still to process
  idle,      \* per transport: pending for longer than min_idle_ms
  nacks, lost

world == <<used, deployed, limit, rank>>
vars == <<used, deployed, limit, rank, joined, tail, kept, mem, red, last, given, batch,
          idle, nacks, lost>>

Transports == {"memory", "redis"}
Sole(D) == \E c \in D : D = {c}

\* The numbers of a set in ascending order; what of a sequence is in a set, in its
\* order there.
Nth(S, k) == CHOOSE e \in S : Cardinality({f \in S : f <= e}) = k
InOrder(S) == [k \in 1 .. Cardinality(S) |-> Nth(S, k)]
Among(seq, S) ==
  LET at == InOrder({i \in DOMAIN seq : seq[i] \in S}) IN [k \in DOMAIN at |-> seq[at[k]]]

Init ==
  /\ deployed \in Deployments
  /\ used \in {{"memory"}, {"redis"}} \cup {U \in {Transports} : Sole(deployed)}
  /\ limit \in Limits
  /\ rank \in Ranks
  /\ joined = FALSE
  /\ tail = 0
  /\ kept = 1
  /\ mem = [cursor |-> 0, pending |-> <<>>, retry |-> <<>>, count |-> [e \in Entries |-> 0]]
  /\ red = [cursor |-> 0, owner |-> [e \in Entries |-> NoOne],
            count |-> [e \in Entries |-> 0]]
  /\ last = [b \in Transports |-> <<>>]
  /\ given = [b \in Transports |-> [e \in Entries |-> 0]]
  /\ batch = [c \in Consumers |-> <<>>]
  /\ idle = [b \in Transports |-> {}]
  /\ nacks = 0
  /\ lost = 0

\* Client code has the same next call only after the same answers.
Agreed == \A a, b \in used : last[a] = last[b]

OnRedis == "redis" \in used
OnMemory == "memory" \in used

-----------------------------------------------------------------------------
(* What both transports do without a consumer. *)

\* XADD with an approximate maxlen may trim, or not, down to the newest `limit'.
Publish ==
  /\ tail < N
  /\ tail' = tail + 1
  /\ \E k \in kept .. Max({kept, tail + 2 - limit}) : kept' = IF OnRedis THEN k ELSE kept
  /\ UNCHANGED <<world, joined, mem, red, last, given, batch, idle, nacks, lost>>

\* Both start a group at the tail.
\* Mutant: RedisBus starts it at "0", with the backlog.
X_CreateGroup ==
  /\ ~joined
  /\ joined' = TRUE
  /\ mem' = IF OnMemory THEN [mem EXCEPT !.cursor = tail] ELSE mem
  /\ UNCHANGED <<world, tail, kept, red, last, given, batch, idle, nacks, lost>>
CreateGroup ==
  /\ ~joined
  /\ joined' = TRUE
  /\ mem' = IF OnMemory THEN [mem EXCEPT !.cursor = tail] ELSE mem
  /\ red' = IF OnRedis THEN [red EXCEPT !.cursor = tail] ELSE red
  /\ UNCHANGED <<world, tail, kept, last, given, batch, idle, nacks, lost>>

\* The pending entries list of a state r of the group.
PendingIn(r) == {e \in Entries : r.owner[e] # NoOne}
RedPending == PendingIn(red)

\* Time passes: what is pending is idle for longer than min_idle_ms.
Wait ==
  /\ idle' = [memory |-> ToSet(mem.pending), redis |-> RedPending]
  /\ UNCHANGED <<world, joined, tail, kept, mem, red, last, given, batch, nacks, lost>>

-----------------------------------------------------------------------------
(* InMemoryBus. *)

MemCount(e) == mem.count[e] + 1

\* Redeliveries first, then new entries.
Again == SubSeq(mem.retry, 1, Min({Count, Len(mem.retry)}))
MemNew == Min({Count - Len(Again), tail - mem.cursor})
MemClaims == Again \o [i \in 1 .. MemNew |-> mem.cursor + i]
MemAnswer == [i \in DOMAIN MemClaims |-> [entry |-> MemClaims[i], count |-> MemCount(MemClaims[i])]]

\* Mutant: what is redelivered stays queued.
X_MemSubscribed ==
  [ cursor |-> mem.cursor + MemNew,
    pending |-> mem.pending \o MemClaims,
    retry |-> mem.retry,
    count |-> [e \in Entries |-> IF e \in ToSet(MemClaims) THEN MemCount(e) ELSE mem.count[e]] ]
MemSubscribed ==
  [ cursor |-> mem.cursor + MemNew,
    pending |-> mem.pending \o MemClaims,
    retry |-> SubSeq(mem.retry, Len(Again) + 1, Len(mem.retry)),
    count |-> [e \in Entries |-> IF e \in ToSet(MemClaims) THEN MemCount(e) ELSE mem.count[e]] ]

\* The oldest claim first.
MemReclaims == Among(mem.pending, idle.memory)
MemReclaimAnswer ==
  [i \in DOMAIN MemReclaims |-> [entry |-> MemReclaims[i], count |-> MemCount(MemReclaims[i])]]

MemReclaimed ==
  [mem EXCEPT !.pending = Among(@, Entries \ idle.memory) \o MemReclaims,
              !.count = [e \in Entries |-> IF e \in ToSet(MemReclaims) THEN MemCount(e) ELSE @[e]]]

-----------------------------------------------------------------------------
(* RedisBus. *)

\* XPENDING: at most n entries of S in stream order.
FirstOf(S, n) == {e \in S : Cardinality({f \in S : f < e}) < n}

\* The least and the greatest id as strings: min(ids) and max(ids) in Python.
Least(S) == CHOOSE e \in S : \A f \in S : rank[e] <= rank[f]
Greatest(S) == CHOOSE e \in S : \A f \in S : rank[f] <= rank[e]

\* _delivery_counts: the rows between them, as many as ids were asked for, are
\* read from the pending list P with its counts; an id that is not read counts 1.
\* Mutant: a count is looked up one row too far.
X_Reported(ids, P, counts, e) ==
  IF e \in FirstOf({f \in P : Least(ids) <= f /\ f <= Greatest(ids)}, Cardinality(ids))
  THEN counts[e] + 1 ELSE 1
Reported(ids, P, counts, e) ==
  IF e \in FirstOf({f \in P : Least(ids) <= f /\ f <= Greatest(ids)}, Cardinality(ids))
  THEN counts[e] ELSE 1

\* The entry is still in the stream.
Kept(S) == {e \in S : kept <= e}

\* XCLAIM and XAUTOCLAIM: the entries of S go to c, but for the trimmed ones,
\* which leave the pending list.
Claimed(c, S) ==
  [red EXCEPT
    !.owner = [e \in Entries |-> IF e \notin S THEN @[e] ELSE IF kept <= e THEN c ELSE NoOne],
    !.count = [e \in Entries |-> IF e \in Kept(S) THEN @[e] + 1 ELSE @[e]]]

\* What c claimed of S, with the counts read for the ids `asked'.
Answer(r, S, asked) ==
  LET seq == InOrder(Kept(S))
  IN  [i \in DOMAIN seq |->
         [entry |-> seq[i], count |-> Reported(asked, PendingIn(r), r.count, seq[i])]]

\* _drain_own_pending: c's own pending entries come before new ones.
Own(c) == FirstOf({e \in RedPending : red.owner[e] = c}, Count)

\* _read_new: XREADGROUP skips what was trimmed before it was delivered.
RedNew(c) ==
  FirstOf({e \in kept .. tail : red.cursor < e}, Count - Cardinality(Kept(Own(c))))

RedSubscribed(c) ==
  LET r == Claimed(c, Own(c)) IN
  [ cursor |-> Max({red.cursor} \cup RedNew(c)),
    owner |-> [e \in Entries |-> IF e \in RedNew(c) THEN c ELSE r.owner[e]],
    count |-> [e \in Entries |-> IF e \in RedNew(c) THEN 1 ELSE r.count[e]] ]

RedAnswer(c) ==
  Answer(Claimed(c, Own(c)), Own(c), Own(c))
    \o [i \in 1 .. Cardinality(RedNew(c)) |->
          [entry |-> InOrder(RedNew(c))[i], count |-> 1]]

\* reclaim: XAUTOCLAIM over everything pending for long enough.
RedReclaimAnswer(c) == Answer(Claimed(c, idle.redis), idle.redis, Kept(idle.redis))

-----------------------------------------------------------------------------
(* The calls of a consumer. *)

\* The entries of an answer, and what one more answer adds to the deliveries.
EntriesOf(answer) == [i \in DOMAIN answer |-> answer[i].entry]
Given(b, answer) ==
  [e \in Entries |-> IF e \in ToSet(EntriesOf(answer)) THEN given[b][e] + 1 ELSE given[b][e]]

\* A call that claims: what each transport becomes and answers.
Receive(c, m, mAnswer, r, rAnswer) ==
  /\ mem' = IF OnMemory THEN m ELSE mem
  /\ red' = IF OnRedis THEN r ELSE red
  /\ last' = [ memory |-> IF OnMemory THEN mAnswer ELSE <<>>,
               redis |-> IF OnRedis THEN rAnswer ELSE <<>> ]
  /\ given' = [b \in Transports |-> Given(b, last'[b])]
  /\ idle' = [b \in Transports |-> idle[b] \ ToSet(EntriesOf(last'[b]))]
  /\ batch' = [batch EXCEPT ![c] = EntriesOf(IF OnRedis THEN last'.redis ELSE last'.memory)]

\* run_once asks for more only when it is through with what it has.
Subscribe(c) ==
  /\ joined /\ Agreed
  /\ batch[c] = <<>>
  /\ Receive(c, MemSubscribed, MemAnswer, RedSubscribed(c), RedAnswer(c))
  /\ UNCHANGED <<world, joined, tail, kept, nacks, lost>>

\* No process of the repository calls it.
Reclaim(c) ==
  /\ joined /\ Agreed
  /\ batch[c] = <<>>
  /\ \E b \in used : idle[b] # {}
  /\ lost < MaxLost
  /\ lost' = lost + 1
  /\ Receive(c, MemReclaimed, MemReclaimAnswer, Claimed(c, idle.redis), RedReclaimAnswer(c))
  /\ UNCHANGED <<world, joined, tail, kept, nacks>>

\* The entry is pending with every transport that is called: ack and nack raise
\* otherwise, and run_forever goes on with nothing of the batch.
IsPending(e) ==
  /\ OnMemory => e \in ToSet(mem.pending)
  /\ OnRedis => red.owner[e] # NoOne

After(c) == [batch EXCEPT ![c] = IF IsPending(Head(@)) THEN Tail(@) ELSE <<>>]

Ack(c) ==
  /\ Agreed
  /\ batch[c] # <<>>
  /\ batch' = After(c)
  /\ LET e == Head(batch[c]) IN
       /\ mem' = [mem EXCEPT !.pending = Among(@, Entries \ {e})]
       /\ red' = [red EXCEPT !.owner[e] = NoOne]
       /\ idle' = [b \in Transports |-> idle[b] \ {e}]
  /\ UNCHANGED <<world, joined, tail, kept, last, given, nacks, lost>>

\* InMemoryBus queues the entry for redelivery; RedisBus leaves it pending.
\* Mutant: the queue is last in, first out.
X_Nack(c) ==
  /\ Agreed
  /\ batch[c] # <<>>
  /\ nacks < MaxNacks
  /\ nacks' = nacks + 1
  /\ batch' = After(c)
  /\ LET e == Head(batch[c]) IN
       /\ mem' = IF e \in ToSet(mem.pending)
                 THEN [mem EXCEPT !.pending = Among(@, Entries \ {e}), !.retry = <<e>> \o @]
                 ELSE mem
       /\ idle' = [idle EXCEPT !.memory = @ \ {e}]
  /\ UNCHANGED <<world, joined, tail, kept, red, last, given, lost>>
Nack(c) ==
  /\ Agreed
  /\ batch[c] # <<>>
  /\ nacks < MaxNacks
  /\ nacks' = nacks + 1
  /\ batch' = After(c)
  /\ LET e == Head(batch[c]) IN
       /\ mem' = IF e \in ToSet(mem.pending)
                 THEN [mem EXCEPT !.pending = Among(@, Entries \ {e}),
                                  !.retry = Append(@, e)]
                 ELSE mem
       /\ idle' = [idle EXCEPT !.memory = @ \ {e}]
  /\ UNCHANGED <<world, joined, tail, kept, red, last, given, lost>>

\* The loop catches an exception of _process: the rest of the batch is neither
\* acked nor handed back.
Drop(c) ==
  /\ batch[c] # <<>>
  /\ lost < MaxLost
  /\ lost' = lost + 1
  /\ batch' = [batch EXCEPT ![c] = <<>>]
  /\ UNCHANGED <<world, joined, tail, kept, mem, red, last, given, idle, nacks>>

Next ==
  \/ Publish \/ CreateGroup \/ Wait
  \/ \E c \in deployed :
       Subscribe(c) \/ Reclaim(c) \/ Ack(c) \/ Nack(c) \/ Drop(c)

Spec == Init /\ [][Next]_vars

-----------------------------------------------------------------------------
(* Properties. *)

\* Types. What a batch holds was delivered, what InMemoryBus queues is not
\* pending as well, and no entry is pending or queued twice.
TypeOK ==
  /\ used \subseteq Transports
  /\ deployed \in Deployments /\ limit \in Limits /\ rank \in Ranks
  /\ joined \in BOOLEAN
  /\ tail \in 0 .. N
  /\ kept \in 1 .. N
  /\ mem.cursor \in 0 .. tail /\ red.cursor \in 0 .. tail
  /\ IsInjective(mem.pending \o mem.retry)
  /\ ToSet(mem.pending \o mem.retry) \subseteq 1 .. mem.cursor
  /\ red.owner \in [Entries -> deployed \cup {NoOne}]
  /\ RedPending \subseteq 1 .. red.cursor
  /\ mem.count \in [Entries -> Nat] /\ red.count \in [Entries -> Nat]
  /\ \A b \in Transports : idle[b] \subseteq Entries
  /\ \A c \in Consumers : ToSet(batch[c]) \subseteq {e \in Entries : \E b \in used : given[b][e] > 0}
  /\ nacks \in 0 .. MaxNacks /\ lost \in 0 .. MaxLost

\* redis.py:12, tests/test_bus_redis.py:347: for a consumer that has its group to
\* itself and acks or nacks whatever it is given, RedisBus, whose nack does nothing,
\* answers every call as InMemoryBus does: the same entries in the same order with
\* the same counts. It takes an untrimmed stream and ids in the order of their text.
SameAnswers ==
  used = Transports /\ lost = 0 /\ kept = 1 /\ rank = [e \in Entries |-> e] => Agreed

\* base.py:13: a count never makes an entry poison before its time, whoever
\* shares the group, whatever was trimmed, reclaimed or abandoned; and it is exact
\* in memory.py, and in redis.py:276-294 as long as one consumer has the group,
\* nothing was reclaimed and the ids compare as text in their order.
CountsHonest ==
  \A b \in used : \A i \in DOMAIN last[b] :
    LET entry == last[b][i].entry
        exact == \/ b = "memory"
                 \/ Sole(deployed) /\ lost = 0 /\ rank = [e \in Entries |-> e]
    IN  \/ last[b][i].count = given[b][entry]
        \/ ~exact /\ last[b][i].count < given[b][entry]

\* base.py:8-12: each transport is DeliveryContract over a stream that keeps its
\* newest entries, InMemoryBus over one that keeps everything: nothing published
\* before the group joined is delivered, nothing after it is passed over unless it
\* was trimmed, and what was delivered stays outstanding until it is acked.
InMemory ==
  INSTANCE BoundedContract WITH
    joined <- joined /\ OnMemory, tail <- IF OnMemory THEN tail ELSE 0,
    cursor <- mem.cursor, outstanding <- ToSet(mem.pending \o mem.retry), limit <- N

OverRedis ==
  INSTANCE BoundedContract WITH
    joined <- joined /\ OnRedis, tail <- IF OnRedis THEN tail ELSE 0,
    cursor <- IF joined /\ OnRedis THEN Max({red.cursor, kept - 1}) ELSE 0,
    outstanding <- Kept(RedPending), limit <- limit

KeepsContract == InMemory!BoundedSpec /\ OverRedis!BoundedSpec
=============================================================================
