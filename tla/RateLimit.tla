----------------------------- MODULE RateLimit -----------------------------
(***************************************************************************)
(* The per-address token buckets in front of the JSON-RPC handler          *)
(* (rpc/middleware/ratelimit.go): requests of one address served by        *)
(* concurrent goroutines that look the bucket up, create it when it is     *)
(* missing and consume a token in separate critical sections, and the      *)
(* cleanup goroutine that drops buckets nobody used.  A tick is the time   *)
(* one token takes to come back (1/RequestsPerSecond).                     *)
(***************************************************************************)
EXTENDS Naturals, FiniteSets

CONSTANTS Requests,   \* goroutines serving requests of one address
          BurstSize,  \* tokens of a full bucket
          IdleLimit,  \* ticks without use after which cleanup drops a bucket
          MaxTime,    \* bound: ticks of a behaviour
          MaxBuckets  \* bound: buckets made in a behaviour

ASSUME RateAssumption == /\ BurstSize \in Nat \ {0} /\ MaxTime \in Nat
                         /\ IdleLimit \in Nat /\ IdleLimit >= BurstSize

VARIABLES now,      \* the clock
          buckets,  \* every bucket ever made
          current,  \* buckets[ip], 0 when the map has no entry
          rq,       \* what each goroutine is doing
          admitted  \* history: requests admitted per tick

rvars == <<now, buckets, current, rq, admitted>>

NoBucket == [tokens |-> 0, last |-> 0, made |-> FALSE, dropped |-> FALSE]
newTokenBucket == [tokens |-> BurstSize, last |-> now, made |-> TRUE, dropped |-> FALSE]

RateInit ==
  /\ now = 0 /\ current = 0
  /\ buckets = [i \in 1 .. MaxBuckets |-> NoBucket]
  /\ rq = [r \in Requests |-> [at |-> "idle", bucket |-> 0]]
  /\ admitted = [i \in 0 .. MaxTime |-> 0]

Tick == /\ now < MaxTime /\ now' = now + 1
        /\ UNCHANGED <<buckets, current, rq, admitted>>

(* RateLimiter.allow, the read-locked lookup.                              *)
Lookup(r) ==
  /\ rq[r].at = "idle"
  /\ rq' = [rq EXCEPT ![r] = [at |-> IF current = 0 THEN "create" ELSE "consume",
                              bucket |-> current]]
  /\ UNCHANGED <<now, buckets, current, admitted>>

Fresh == CHOOSE i \in 1 .. MaxBuckets : ~buckets[i].made

CreateUnchecked(r) ==
  /\ rq[r].at = "create" /\ \E i \in 1 .. MaxBuckets : ~buckets[i].made
  /\ buckets' = [buckets EXCEPT ![Fresh] = newTokenBucket]
  /\ current' = Fresh
  /\ rq' = [rq EXCEPT ![r] = [at |-> "consume", bucket |-> Fresh]]
  /\ UNCHANGED <<now, admitted>>

(* The write-locked part looks again before it makes a bucket.             *)
Create(r) ==
  /\ rq[r].at = "create"
  /\ IF current # 0
       THEN /\ rq' = [rq EXCEPT ![r] = [at |-> "consume", bucket |-> current]]
            /\ UNCHANGED <<buckets, current>>
       ELSE /\ \E i \in 1 .. MaxBuckets : ~buckets[i].made
            /\ buckets' = [buckets EXCEPT ![Fresh] = newTokenBucket]
            /\ current' = Fresh
            /\ rq' = [rq EXCEPT ![r] = [at |-> "consume", bucket |-> Fresh]]
  /\ UNCHANGED <<now, admitted>>

AtMostBurst(n) == IF n > BurstSize THEN BurstSize ELSE n

(* tokenBucket.consume: refill for the time passed, then take a token.  A  *)
(* refused request asks retryAfterSeconds, which changes nothing.          *)
Consume(r) ==
  LET b == rq[r].bucket
      have == AtMostBurst(buckets[b].tokens + (now - buckets[b].last))
      ok == have >= 1
  IN  /\ rq[r].at = "consume"
      /\ buckets' = [buckets EXCEPT ![b].tokens = IF ok THEN have - 1 ELSE have,
                                    ![b].last = now]
      /\ admitted' = [admitted EXCEPT
           ![now] = IF ok /\ ~buckets[b].dropped THEN @ + 1 ELSE @]
      /\ rq' = [rq EXCEPT ![r].at = "idle"]
      /\ UNCHANGED <<now, current>>

(* RateLimiter.cleanup: a bucket nobody used for the idle time goes.       *)
Cleanup ==
  /\ current # 0 /\ now - buckets[current].last > IdleLimit
  /\ current' = 0
  /\ buckets' = [buckets EXCEPT ![current].dropped = TRUE]
  /\ UNCHANGED <<now, rq, admitted>>

RateNext == Tick \/ Cleanup \/ \E r \in Requests : Lookup(r) \/ Create(r) \/ Consume(r)

AdmittedFrom[t \in 0 .. MaxTime] ==
  admitted[t] + IF t = now THEN 0 ELSE AdmittedFrom[t + 1]

(* In every window of time an address is admitted at most the burst and    *)
(* the tokens that came back during the window, although its first         *)
(* requests race to make the bucket and the cleanup gives a fresh, full    *)
(* bucket to an address that was idle.  Requests that found the bucket     *)
(* just before the cleanup dropped it, one per goroutine, are not counted. *)
RateBound == \A t \in 0 .. now : AdmittedFrom[t] <= BurstSize + (now - t)
=============================================================================
