-------------------------------- MODULE Rpc --------------------------------
(***************************************************************************)
(* Sending a transaction over JSON-RPC: the SDK's client (sdk/client.go,   *)
(* sdk/retry.go), dsn_sendTransaction of the node's service                *)
(* (rpc/service/node_service.go, reached through module Requests) and the  *)
(* node's transaction pool behind it.  The client retries a transaction    *)
(* after a lost request or a lost answer, so the service may see it again  *)
(* at any later time: while it is pending, after it was included in a      *)
(* block and after it expired.  Transactions are those of one sender, a    *)
(* transaction is its nonce.                                               *)
(***************************************************************************)
EXTENDS Naturals, FiniteSets

CONSTANTS MaxNonce,   \* transactions 1 .. MaxNonce
          MaxTries,   \* maxRetries of the client
          PoolCap     \* maxSize of the pool

ASSUME RpcAssumption == {MaxNonce, MaxTries, PoolCap} \subseteq Nat

VARIABLES pool,      \* IntentIDs in Mempool.txs
          nextNonce, \* Mempool.nextNonce of the sender
          nonce,     \* the sender's nonce in the state
          accepted,  \* history: how often the pool took each transaction
          call,      \* the client's call for each transaction
          wire,      \* requests under way: transaction and attempt
          answers    \* answers under way

pvars == <<pool, nextNonce, nonce, accepted, call, wire, answers>>

Txns == 1 .. MaxNonce
NotCalled == [at |-> "idle", attempt |-> 0]

RpcInit ==
  /\ pool = {} /\ nextNonce = 0 /\ nonce = 0
  /\ accepted = [t \in Txns |-> 0]
  /\ call = [t \in Txns |-> NotCalled]
  /\ wire = {} /\ answers = {}

node == <<pool, nextNonce, nonce, accepted>>

(* Client.call and the first doRequest of doWithRetry.                     *)
Call(t) ==
  /\ call[t].at = "idle"
  /\ call' = [call EXCEPT ![t] = [at |-> "waiting", attempt |-> 0]]
  /\ wire' = wire \cup {[tx |-> t, attempt |-> 0]}
  /\ UNCHANGED <<node, answers>>

(* The next attempt, when the back-off of 2^(attempt-1) units is over; the *)
(* last of maxRetries + 1 attempts has none.                               *)
Retry(t) ==
  /\ call[t].at = "backoff" /\ call[t].attempt < MaxTries
  /\ call' = [call EXCEPT ![t] = [at |-> "waiting", attempt |-> @.attempt + 1]]
  /\ wire' = wire \cup {[tx |-> t, attempt |-> call[t].attempt + 1]}
  /\ UNCHANGED <<node, answers>>

(* "max retries exceeded", or the context is done during the back-off.     *)
GiveUp(t) ==
  /\ call[t].at = "backoff"
  /\ call' = [call EXCEPT ![t].at = "error"]
  /\ UNCHANGED <<node, wire, answers>>

(* doRequest fails.  isRetryableError knows a refused or reset connection, *)
(* an i/o timeout and a status of 500 and above; any other error, such as  *)
(* the client's own deadline, ends the call.  The request may have been    *)
(* lost, be at the server or have been answered.                           *)
RequestFails(t, retryable, lost) ==
  LET mine == {m \in wire : m.tx = t /\ m.attempt = call[t].attempt}
  IN  /\ call[t].at = "waiting"
      /\ call' = [call EXCEPT ![t].at = IF retryable THEN "backoff" ELSE "error"]
      /\ wire' = IF lost THEN wire \ mine ELSE wire
      /\ answers' = {a \in answers : a.tx # t}
      /\ UNCHANGED <<node>>

SubmitNoNonce(t) ==
  IF Cardinality(pool) >= PoolCap \/ t \in pool THEN FALSE ELSE TRUE

(* Mempool.Submit: room, not there yet, and the nonce that follows the     *)
(* last one pooled, or the account's when none was.                        *)
Submit(t) ==
  /\ Cardinality(pool) < PoolCap
  /\ t \notin pool
  /\ t = (IF nextNonce = 0 THEN nonce ELSE nextNonce) + 1

(* A dsn_sendTransaction that parses reaches SendTransaction and the pool; *)
(* an answer to a request the client no longer waits for is dropped.       *)
SendTransaction(m) ==
  LET t == m.tx  ok == Submit(t)
  IN  /\ m \in wire /\ wire' = wire \ {m}
      /\ pool' = IF ok THEN pool \cup {t} ELSE pool
      /\ nextNonce' = IF ok THEN t ELSE nextNonce
      /\ accepted' = IF ok THEN [accepted EXCEPT ![t] = @ + 1] ELSE accepted
      /\ answers' = IF call[t].at = "waiting" /\ call[t].attempt = m.attempt
                      THEN answers \cup {[tx |-> t, ok |-> ok]} ELSE answers
      /\ UNCHANGED <<nonce, call>>

(* The rate limiter answers 429, a status below 500 with an error body.    *)
Limited(m) ==
  /\ m \in wire /\ wire' = wire \ {m}
  /\ answers' = IF call[m.tx].at = "waiting" /\ call[m.tx].attempt = m.attempt
                  THEN answers \cup {[tx |-> m.tx, ok |-> FALSE]} ELSE answers
  /\ UNCHANGED <<node, call>>

(* doRequest returns a body and call parses it: a result or an RPC error.  *)
Answered(a) ==
  /\ a \in answers /\ answers' = answers \ {a}
  /\ call' = [call EXCEPT ![a.tx].at = IF a.ok THEN "sent" ELSE "error"]
  /\ UNCHANGED <<node, wire>>

(* The node includes the pending transaction its state accepts next.       *)
Include(t) ==
  /\ t \in pool /\ t = nonce + 1
  /\ nonce' = t /\ pool' = pool \ {t}
  /\ UNCHANGED <<nextNonce, accepted, call, wire, answers>>

(* PendingTxs drops what is past its time to live; nextNonce stays.        *)
Expire(t) ==
  /\ t \in pool /\ pool' = pool \ {t}
  /\ UNCHANGED <<nextNonce, nonce, accepted, call, wire, answers>>

RpcNext ==
  \/ \E t \in Txns : \/ Call(t) \/ Retry(t) \/ GiveUp(t) \/ Include(t) \/ Expire(t)
                     \/ \E retryable, lost \in BOOLEAN : RequestFails(t, retryable, lost)
  \/ \E m \in wire : SendTransaction(m) \/ Limited(m)
  \/ \E a \in answers : Answered(a)

(* However often a transaction is sent, the pool takes it once: a retry of *)
(* one that is pending is a duplicate, a retry of one that was included or *)
(* expired no longer has the next nonce (pool.go 135, 143, 190).           *)
AcceptedOnce == \A t \in Txns : accepted[t] <= 1
=============================================================================
