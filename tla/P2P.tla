-------------------------------- MODULE P2P --------------------------------
(***************************************************************************)
(* network.P2PNode: the connection limiter, the                            *)
(* accept loop, one handleConnection goroutine per inbound connection, the *)
(* table of connections with the outbound ones of network.Discovery, the   *)
(* single block processor and Close; and network.GossipEngine, which picks *)
(* peers from the manager and sends through the table.                     *)
(*                                                                         *)
(* A handler is a goroutine, so it is modelled in the steps between which  *)
(* others run: it enters its connection in the table, registers with the   *)
(* limiter and the manager, reads a message, handles it, and on its way    *)
(* out removes what is stored under its address.  A message is its kind;   *)
(* whether a token bucket has a token is left open.                        *)
(*                                                                         *)
(* Nothing here reads the peer manager but GossipBlock, which asks it for  *)
(* the connected peers: any set of addresses, as far as this module is     *)
(* concerned.  What the handlers report to it (AddPeer, ReportFailure and  *)
(* Ban) are steps that Peers allows at any time.                           *)
(***************************************************************************)
EXTENDS Integers, FiniteSets

CONSTANTS
    Remotes,      \* addresses of remote nodes
    NoConn,
    Bootstraps, \* Discovery.bootstrapPeers
    Conns,      \* inbound connections remote nodes open
    AddrOf,     \* the remote address of an inbound connection
    MaxPeers,   \* connectionLimiter.maxPeers
    BlockChSize,\* capacity of blockCh
    Dialers,    \* connectWithBackoff goroutines of Discovery
    Blocks      \* blocks to gossip

ASSUME P2PAssumption ==
    /\ AddrOf \in [Conns -> Remotes]
    /\ MaxPeers \in Nat /\ BlockChSize \in Nat
    /\ Conns \cap Dialers = {}

VARIABLES
    handler,      \* where the handler of a connection is
    failures,     \* its consecutive rate limit failures
    sockets,         \* the sockets that are open on this side
    connections,  \* P2PNode.connections: the connection of an address, or NoConn
    limiter,      \* connectionLimiter.peers
    rateLimiters, \* the addresses with a token bucket
    dialer,       \* where a connectWithBackoff goroutine is
    connected,    \* Discovery.connected
    blockCh,      \* number of queued block jobs
    stage,         \* "running", "closed" (stopCh closed), "stopped" (blockCh
                  \* closed too) or "panicked"
    seen,         \* GossipEngine.seenSet
    sending       \* the blocks being gossiped: the addresses still to send to

connVars == <<handler, failures, sockets, connections, limiter, rateLimiters>>
outVars == <<dialer, connected>>
gossipVars == <<seen, sending>>
p2pVars == <<connVars, outVars, gossipVars, blockCh, stage>>

P2PInit ==
    /\ handler = [c \in Conns |-> "none"]
    /\ failures = [c \in Conns |-> 0]
    /\ sockets = {}
    /\ connections = [a \in Remotes |-> NoConn]
    /\ limiter = {} /\ rateLimiters = {}
    /\ dialer = [d \in Dialers |-> [at |-> "idle", addr |-> NoConn]]
    /\ connected = {}
    /\ blockCh = 0
    /\ stage = "running"
    /\ seen = {}
    /\ sending = [b \in Blocks |-> {}]

Goto(c, h) == handler' = [handler EXCEPT ![c] = h]

Running == stage \in {"running", "closed", "stopped"}

(***************************************************************************)
(* Inbound connections                                                     *)
(***************************************************************************)

\* acceptConnections and connectionLimiter.allow: the limit is checked here,
\* the handler registers later.  tempBans is never filled.
Accept(c) ==
    /\ stage = "running" /\ handler[c] = "none"
    /\ \/ /\ Cardinality(limiter) < MaxPeers
          /\ Goto(c, "accepted")
          /\ sockets' = sockets \cup {c}
       \/ \* refused: at the limit, or the IP has no token left
          Goto(c, "done") /\ UNCHANGED sockets
    /\ UNCHANGED <<failures, connections, limiter, rateLimiters, outVars, gossipVars, blockCh,
                   stage>>

\* An earlier connection from the same address is closed and replaced.
EnterTable(c) ==
    LET a == AddrOf[c]
    IN  /\ Running /\ handler[c] = "accepted"
        /\ sockets' = sockets \ {connections[a]}
        /\ connections' = [connections EXCEPT ![a] = c]
        /\ Goto(c, "tabled")
        /\ UNCHANGED <<failures, limiter, rateLimiters, outVars, gossipVars, blockCh, stage>>

\* connectionLimiter.addPeer and PeerManager.AddPeer.
Register(c) ==
    /\ Running /\ handler[c] = "tabled"
    /\ limiter' = limiter \cup {AddrOf[c]}
    /\ Goto(c, "reading")
    /\ UNCHANGED <<failures, sockets, connections, rateLimiters, outVars, gossipVars, blockCh, stage>>

\* The top of the loop: the stop channel, then the read with its deadline.
\* A closed socket, an oversized message or a silent peer ends the handler.
ReadMessage(c) ==
    /\ Running /\ handler[c] = "reading"
    /\ \/ Goto(c, "leaving")
       \/ /\ stage = "running" /\ c \in sockets
          /\ \E m \in {"block", "message"} : Goto(c, m)
    /\ UNCHANGED <<failures, sockets, connections, limiter, rateLimiters, outVars, gossipVars,
                   blockCh, stage>>

\* A message over the rate limit: a penalty, and at the third in a row a ban
\* and the end of the connection.
OverLimit(c) ==
    LET n == failures[c] + 1
    IN  /\ Running /\ handler[c] \in {"block", "message"}
        /\ rateLimiters' = rateLimiters \cup {AddrOf[c]}
        /\ failures' = [failures EXCEPT ![c] = IF n >= 3 THEN 0 ELSE n]
        /\ Goto(c, IF n >= 3 THEN "leaving" ELSE "reading")
        /\ UNCHANGED <<sockets, connections, limiter, outVars, gossipVars, blockCh, stage>>

\* A transaction that does not decode is penalised; the other kinds are handed to
\* goroutines of their own or have no handler.
HandleMessage(c) ==
    /\ Running /\ handler[c] = "message"
    /\ rateLimiters' = rateLimiters \cup {AddrOf[c]}
    /\ failures' = [failures EXCEPT ![c] = 0]
    /\ Goto(c, "reading")
    /\ UNCHANGED <<sockets, connections, limiter, outVars, gossipVars, blockCh, stage>>

\* handleBlock: a full queue drops the job; a closed one panics.
HandleBlock(c) ==
    /\ Running /\ handler[c] = "block"
    /\ rateLimiters' = rateLimiters \cup {AddrOf[c]}
    /\ failures' = [failures EXCEPT ![c] = 0]
    /\ stage' = IF stage = "stopped" THEN "panicked" ELSE stage
    /\ blockCh' = IF stage # "stopped" /\ blockCh < BlockChSize THEN blockCh + 1 ELSE blockCh
    /\ Goto(c, "reading")
    /\ UNCHANGED <<sockets, connections, limiter, outVars, gossipVars>>

\* A handler that leaves its limiter slot behind.
LeaveKeepsSlot(c) ==
    /\ Running /\ handler[c] = "leaving"
    /\ connections' = [connections EXCEPT ![AddrOf[c]] = NoConn]
    /\ rateLimiters' = rateLimiters \ {AddrOf[c]}
    /\ sockets' = sockets \ {c}
    /\ Goto(c, "done")
    /\ UNCHANGED <<failures, limiter, outVars, gossipVars, blockCh, stage>>

\* The deferred cleanup, by address: it does not look whether the entry is
\* still its own.
Leave(c) ==
    /\ Running /\ handler[c] = "leaving"
    /\ connections' = [connections EXCEPT ![AddrOf[c]] = NoConn]
    /\ rateLimiters' = rateLimiters \ {AddrOf[c]}
    /\ limiter' = limiter \ {AddrOf[c]}
    /\ sockets' = sockets \ {c}
    /\ Goto(c, "done")
    /\ UNCHANGED <<failures, outVars, gossipVars, blockCh, stage>>

(***************************************************************************)
(* The block processor, Close and the senders                              *)
(***************************************************************************)

BlockProcessor ==
    /\ \/ stage \in {"running", "closed"} /\ blockCh > 0
          /\ blockCh' = blockCh - 1 /\ UNCHANGED stage
       \/ stage = "closed" /\ stage' = "stopped" /\ UNCHANGED blockCh
    /\ UNCHANGED <<connVars, outVars, gossipVars>>

Close ==
    /\ stage = "running"
    /\ stage' = "closed"
    /\ sockets' = sockets \ {connections[a] : a \in Remotes}
    /\ connections' = [a \in Remotes |-> NoConn]
    /\ rateLimiters' = {}
    /\ UNCHANGED <<handler, failures, limiter, outVars, gossipVars, blockCh>>

\* Broadcast and GossipTransaction write to every connection under the lock
\* and drop the ones that fail.
BroadcastTo(F) ==
    /\ Running
    /\ F # {} /\ F \subseteq {a \in Remotes : connections[a] # NoConn}
    /\ sockets' = sockets \ {connections[a] : a \in F}
    /\ connections' = [a \in Remotes |-> IF a \in F THEN NoConn ELSE connections[a]]
    /\ UNCHANGED <<handler, failures, limiter, rateLimiters, outVars, gossipVars, blockCh, stage>>

(***************************************************************************)
(* Discovery                                                               *)
(***************************************************************************)

\* Start and maintainConnections: a goroutine for a bootstrap peer that is
\* not marked as connected.  The mark is never taken back.
DiscoveryStart(d, a) ==
    /\ stage = "running" /\ dialer[d].at = "idle"
    /\ a \in Bootstraps \ connected
    /\ dialer' = [dialer EXCEPT ![d] = [at |-> "looking", addr |-> a]]
    /\ UNCHANGED <<connVars, connected, gossipVars, blockCh, stage>>

\* connectBootstrap looks at the table first.
ConnectBootstrap(d) ==
    LET a == dialer[d].addr
    IN  /\ stage = "running" /\ dialer[d].at = "looking"
        /\ IF connections[a] # NoConn
           THEN /\ connected' = connected \cup {a}
                /\ dialer' = [dialer EXCEPT ![d] = [at |-> "idle", addr |-> NoConn]]
           ELSE dialer' = [dialer EXCEPT ![d].at = "dialing"] /\ UNCHANGED connected
        /\ UNCHANGED <<connVars, gossipVars, blockCh, stage>>

\* Connect's dial ends: the connection is stored under its address, whatever is
\* there by now.  A failed dial is retried after a delay.
Connect(d, ok) ==
    LET a == dialer[d].addr
    IN  /\ Running /\ dialer[d].at = "dialing"
        /\ IF ok THEN /\ connections' = [connections EXCEPT ![a] = d]
                      /\ sockets' = sockets \cup {d}
                      /\ connected' = connected \cup {a}
                      /\ dialer' = [dialer EXCEPT ![d].at = "done"]
                 ELSE /\ dialer' = [dialer EXCEPT ![d].at = "looking"]
                      /\ UNCHANGED <<connections, sockets, connected>>
        /\ UNCHANGED <<handler, failures, limiter, rateLimiters, gossipVars, blockCh, stage>>

(***************************************************************************)
(* GossipEngine                                                            *)
(***************************************************************************)

\* Fan-out is max(3, sqrt(N)): with fewer than four peers, all of them.
FanOut(S) == IF Cardinality(S) <= 3 THEN {S}
             ELSE {T \in SUBSET S : Cardinality(T) = 3}

\* GossipBlock: seen and marked under one lock; the peers are those the
\* manager has as connected.
GossipBlock(b, S) ==
    /\ Running /\ b \notin seen
    /\ seen' = seen \cup {b}
    /\ \E T \in FanOut(S) : sending' = [sending EXCEPT ![b] = T]
    /\ UNCHANGED <<connVars, outVars, blockCh, stage>>

\* SendTo looks the address up in the table of connections; a rate limited or
\* unknown address is skipped.
GossipSend(b, a) ==
    /\ Running /\ a \in sending[b]
    /\ sending' = [sending EXCEPT ![b] = @ \ {a}]
    /\ UNCHANGED <<seen, connVars, outVars, blockCh, stage>>

(***************************************************************************)
(* The specification                                                       *)
(***************************************************************************)

Handling(c) ==
    \/ EnterTable(c) \/ Register(c) \/ ReadMessage(c) \/ Leave(c)
    \/ OverLimit(c) \/ HandleMessage(c) \/ HandleBlock(c)

P2PNext ==
    \/ \E c \in Conns : Accept(c) \/ Handling(c)
    \/ BlockProcessor \/ Close
    \/ \E F \in SUBSET Remotes : BroadcastTo(F)
    \/ \E d \in Dialers, a \in Remotes : DiscoveryStart(d, a)
    \/ \E d \in Dialers, ok \in BOOLEAN : ConnectBootstrap(d) \/ Connect(d, ok)
    \/ \E b \in Blocks, S \in SUBSET Remotes : GossipBlock(b, S)
    \/ \E b \in Blocks, a \in Remotes : GossipSend(b, a)

(***************************************************************************)
(* Properties                                                              *)
(***************************************************************************)

\* Once every handler has returned nothing is left in the limiter, the rate
\* limiters or the table of connections for them, whichever handlers replaced
\* each other and whenever Close came (handleConnection's deferred cleanup).
NothingLeftBehind ==
    (\A c \in Conns : handler[c] \in {"none", "done"}) =>
        /\ limiter = {} /\ rateLimiters = {}
        /\ \A a \in Remotes : connections[a] \notin Conns
=============================================================================
