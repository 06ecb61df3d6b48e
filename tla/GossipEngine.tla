---------------------------- MODULE GossipEngine ----------------------------
(***************************************************************************)
(* network.GossipEngine with consensus.SeenSet: what is passed on and what *)
(* is taken in, one token bucket per peer for both directions, the bounded *)
(* set of hashes that suppresses duplicates, and the goroutine that drops  *)
(* the buckets of peers that are gone.                                     *)
(*                                                                         *)
(* A message is its hash.  A tick is the time one token takes to come      *)
(* back; a bucket that is refilled when it is asked holds what one that is *)
(* refilled at every tick holds.  Module P2P has the table of connections  *)
(* that a send looks the peer up in.                                       *)
(***************************************************************************)
EXTENDS Naturals, Sequences, FiniteSets, SequencesExt

CONSTANTS
    GossipPeers,
    Hashes,
    SeenMax,      \* SeenSet.max
    BurstTokens,  \* tokens of a full bucket
    MaxMarks,     \* bound: hashes marked in a behaviour
    MaxTicks      \* bound: ticks of a behaviour

ASSUME GossipAssumption ==
    /\ SeenMax \in Nat \ {0} /\ BurstTokens \in Nat \ {0}
    /\ MaxMarks \in Nat /\ MaxTicks \in Nat

VARIABLES
    online,   \* the peers the manager has as connected
    bucket,   \* tokens of a peer's bucket; NoTokens when it has none
    order,    \* SeenSet.order, whose elements are the keys of SeenSet.hashes
    toSend,   \* the peers a message is still to be sent to
    asked,    \* a send or a receipt that has its bucket and not its token
    ticks,    \* the clock
    marked,   \* the hashes in the order they were marked (history)
    passed    \* tokens a peer took per tick since it connected (history)

gossipVars == <<online, bucket, order, toSend, asked, ticks, marked, passed>>

NoTokens == BurstTokens + 1
NewTokenBucket == BurstTokens
Unasked == [peer |-> "none", of |-> "none", dropped |-> FALSE]

GossipInit ==
    /\ online = {} /\ bucket = [p \in GossipPeers |-> NoTokens]
    /\ order = <<>> /\ toSend = [h \in Hashes |-> {}]
    /\ asked = Unasked
    /\ ticks = 0 /\ marked = <<>>
    /\ passed = [p \in GossipPeers |-> [t \in 0 .. MaxTicks |-> 0]]

Seen(h) == h \in Range(order)

\* Mutant of Mark: the set is cut when it is full, not when it is over.
MarkCutsFull(h) ==
    LET marks == Append(order, h)
    IN  IF Seen(h) THEN order
        ELSE IF Len(marks) >= SeenMax THEN Tail(marks) ELSE marks

\* SeenSet.Mark: the oldest hash goes when there is one too many.
Mark(h) ==
    LET marks == Append(order, h)
    IN  IF Seen(h) THEN order
        ELSE IF Len(marks) > SeenMax THEN Tail(marks) ELSE marks

\* Seen and Mark under the engine's lock.
MarkFirst(h) ==
    /\ ~ Seen(h) /\ Len(marked) < MaxMarks
    /\ order' = Mark(h) /\ marked' = Append(marked, h)

\* selectPeers: max(3, sqrt(N)) of the peers, or all of them.
BlockFanOut(S) ==
    LET n == Cardinality(S)
        root == CHOOSE k \in 0 .. n : k * k <= n /\ n < (k + 1) * (k + 1)
    IN  {T \in SUBSET S : Cardinality(T) = Min({n, Max({3, root})})}
-----------------------------------------------------------------------------
\* What the peer manager does; a peer that comes back finds its bucket unless
\* it was dropped in the meantime.
PeerConnects(p) ==
    /\ p \notin online /\ online' = online \cup {p}
    /\ passed' = [passed EXCEPT ![p] = [t \in 0 .. MaxTicks |-> 0]]
    /\ UNCHANGED <<bucket, order, toSend, asked, ticks, marked>>

PeerLeaves(p) ==
    /\ p \in online /\ online' = online \ {p}
    /\ UNCHANGED <<bucket, order, toSend, asked, ticks, marked, passed>>

\* TokenBucket.refill.
Refill ==
    /\ ticks < MaxTicks /\ ticks' = ticks + 1
    /\ bucket' = [p \in GossipPeers |->
                    IF bucket[p] < BurstTokens THEN bucket[p] + 1 ELSE bucket[p]]
    /\ UNCHANGED <<online, order, toSend, asked, marked, passed>>

GossipBlock(h) ==
    /\ MarkFirst(h)
    /\ \E T \in BlockFanOut(online) : toSend' = [toSend EXCEPT ![h] = T]
    /\ UNCHANGED <<online, bucket, asked, ticks, passed>>

GossipTransaction(h) ==
    /\ MarkFirst(h)
    /\ toSend' = [toSend EXCEPT ![h] = online]
    /\ UNCHANGED <<online, bucket, asked, ticks, passed>>

\* getBucket, for the next peer of a message (of is its hash) or for a
\* message that came in (of is "in").
getBucket(p, of) ==
    /\ asked = Unasked
    /\ \/ of = "in" /\ p \in online /\ UNCHANGED toSend
       \/ /\ of \in Hashes /\ p \in toSend[of]
          /\ toSend' = [toSend EXCEPT ![of] = @ \ {p}]
    /\ bucket' = [bucket EXCEPT ![p] = IF @ = NoTokens THEN NewTokenBucket ELSE @]
    /\ asked' = [peer |-> p, of |-> of, dropped |-> FALSE]
    /\ UNCHANGED <<online, order, ticks, marked, passed>>

\* TokenBucket.Allow, on the bucket that was handed out.  A bucket that was
\* dropped has or has not a token.
Taken(p) ==
    IF asked.dropped THEN UNCHANGED <<bucket, passed>>
    ELSE /\ bucket[p] >= 1
         /\ bucket' = [bucket EXCEPT ![p] = @ - 1]
         /\ passed' = [passed EXCEPT ![p][ticks] = @ + 1]

\* A peer without a token is skipped, a message over the limit refused.
Refused ==
    /\ asked # Unasked /\ (asked.dropped \/ bucket[asked.peer] < 1)
    /\ asked' = Unasked
    /\ UNCHANGED <<online, bucket, order, toSend, ticks, marked, passed>>

\* The message goes to SendTo, which fails when the peer has no connection.
Send ==
    /\ asked.of \in Hashes /\ Taken(asked.peer)
    /\ asked' = Unasked
    /\ UNCHANGED <<online, order, toSend, ticks, marked>>

\* HandleIncoming: a block that was not seen is marked, which also keeps
\* GossipBlock from passing it on; the other kinds are accepted.
HandleIncoming(h, isBlock) ==
    /\ asked.of = "in" /\ Taken(asked.peer)
    /\ IF isBlock /\ ~ Seen(h) THEN MarkFirst(h) ELSE UNCHANGED <<order, marked>>
    /\ asked' = Unasked
    /\ UNCHANGED <<online, toSend, ticks>>

\* Mutant of cleanupStaleBuckets: the condition is turned around.
cleanupStaleBucketsOnline ==
    /\ bucket' = [p \in GossipPeers |-> IF p \in online THEN NoTokens ELSE bucket[p]]
    /\ asked' = IF asked.peer \in online THEN [asked EXCEPT !.dropped = TRUE] ELSE asked
    /\ UNCHANGED <<online, order, toSend, ticks, marked, passed>>

\* The buckets of peers that are not connected are dropped, every five
\* minutes until Stop.
cleanupStaleBuckets ==
    /\ bucket' = [p \in GossipPeers |-> IF p \in online THEN bucket[p] ELSE NoTokens]
    /\ asked' = IF asked # Unasked /\ asked.peer \notin online
                THEN [asked EXCEPT !.dropped = TRUE] ELSE asked
    /\ UNCHANGED <<online, order, toSend, ticks, marked, passed>>

GossipNext ==
    \/ Refill \/ Refused \/ Send \/ cleanupStaleBuckets
    \/ \E p \in GossipPeers : PeerConnects(p) \/ PeerLeaves(p)
    \/ \E h \in Hashes : GossipBlock(h) \/ GossipTransaction(h)
    \/ \E h \in Hashes, b \in BOOLEAN : HandleIncoming(h, b)
    \/ \E p \in GossipPeers, of \in Hashes \cup {"in"} : getBucket(p, of)

GossipSpec == GossipInit /\ [][GossipNext]_gossipVars
-----------------------------------------------------------------------------

\* A hash is gossiped or accepted again only after as many others as the seen
\* set holds: what came in and what went out, blocks and transactions, push
\* each other out in the order they came (SeenSet.Mark, GossipBlock,
\* GossipTransaction and HandleIncoming).
NoRepeatWithinCapacity ==
    \A i, j \in DOMAIN marked : i < j /\ marked[i] = marked[j] => j - i > SeenMax

TakenSince(p, t) ==
    LET sum[s \in t .. ticks] == passed[p][s] + IF s = ticks THEN 0 ELSE sum[s + 1]
    IN  sum[t]

\* In every window of time a peer that stays connected takes at most a burst
\* and the tokens that came back, counting what it sends and what it is sent:
\* the cleanup never gives a connected peer a fresh bucket.  Tokens of a
\* bucket that was dropped between getBucket and Allow are not counted.
PeerWithinRate ==
    \A p \in online, t \in 0 .. ticks : TakenSince(p, t) <= BurstTokens + (ticks - t)
=============================================================================
