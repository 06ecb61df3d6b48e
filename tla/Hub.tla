--------------------------------- MODULE Hub ---------------------------------
(***************************************************************************)
(* The WebSocket hub (rpc/ws/hub.go): the goroutine of Run, the upgrade    *)
(* handler of each request and the two pumps of each client.  The message  *)
(* payloads are left out: a client's send channel is its length, and a     *)
(* queued broadcast is its event.                                          *)
(***************************************************************************)
EXTENDS Naturals, Sequences, FiniteSets

CONSTANTS Clients,           \* connections, each used once
          Events,            \* event names a client may subscribe to
          MaxConnections,    \* capacity of connectionLimit
          MaxSubscriptions,  \* subscriptions of one client
          SendCap,           \* capacity of a client's send channel
          BroadcastCap       \* capacity of the broadcast channel

ASSUME HubAssumption ==
    /\ MaxConnections \in Nat \ {0}
    /\ MaxSubscriptions \in Nat
    /\ SendCap \in Nat \ {0}
    /\ BroadcastCap \in Nat \ {0}

VARIABLES connectionLimit,  \* slots taken
          subscribers,      \* event -> clients, the map Run and the readers share
          subs,             \* client -> its own subscriptions
          made,             \* clients whose subs map exists (it is nil before)
          reader,           \* client -> where its handler or readPump stands
          writer,           \* clients whose writePump runs
          open,             \* clients whose connection is not closed
          send,             \* client -> messages in its send channel
          broadcast,        \* queued broadcasts
          hub,              \* where Run stands
          crashed           \* a goroutine panicked: the process is gone

hubVars == <<connectionLimit, subscribers, subs, made, reader, writer, open,
             send, broadcast, hub, crashed>>

ReaderAt == {"none", "upgrade", "register", "read", "subscribe",
             "unsubscribe", "reply", "leave", "gone"}

\* A reader inside Subscribe or Unsubscribe remembers the event it works on.
At(s) == [at |-> s, ev |-> CHOOSE e \in Events : TRUE]

Select == [at |-> "select"]

HubInit ==
    /\ connectionLimit = 0
    /\ subscribers = [e \in Events |-> {}]
    /\ subs = [c \in Clients |-> {}]
    /\ made = {}
    /\ reader = [c \in Clients |-> At("none")]
    /\ writer = {}
    /\ open = {}
    /\ send = [c \in Clients |-> 0]
    /\ broadcast = <<>>
    /\ hub = Select
    /\ crashed = FALSE

Moves(c, s) == reader' = [reader EXCEPT ![c] = At(s)]

(***************************************************************************)
(* HandleWebSocket: take a slot, upgrade, hand the client to Run.          *)
(***************************************************************************)
AcquireConnection(c) ==
    /\ reader[c].at = "none"
    /\ connectionLimit < MaxConnections
    /\ connectionLimit' = connectionLimit + 1
    /\ Moves(c, "upgrade")
    /\ UNCHANGED <<subscribers, subs, made, writer, open, send, broadcast,
                   hub, crashed>>

UpgradeSucceeds(c) ==
    /\ reader[c].at = "upgrade"
    /\ Moves(c, "register")
    /\ open' = open \cup {c}
    /\ UNCHANGED <<connectionLimit, subscribers, subs, made, writer, send,
                   broadcast, hub, crashed>>

ReleaseConnection(c) ==
    /\ reader[c].at = "upgrade"
    /\ Moves(c, "gone")
    /\ connectionLimit' = IF connectionLimit > 0 THEN connectionLimit - 1
                                                 ELSE 0
    /\ UNCHANGED <<subscribers, subs, made, writer, open, send, broadcast,
                   hub, crashed>>

(***************************************************************************)
(* Run receives the client: the register channel is unbuffered, so from    *)
(* here on the pumps run beside registerClient.                            *)
(***************************************************************************)
RunRegister(c) ==
    /\ hub.at = "select"
    /\ reader[c].at = "register"
    /\ hub' = [at |-> "register", client |-> c]
    /\ Moves(c, "read")
    /\ writer' = writer \cup {c}
    /\ UNCHANGED <<connectionLimit, subscribers, subs, made, open, send,
                   broadcast, crashed>>

\* The loop over client.subs ranges over the map made two lines above.
registerClient ==
    /\ hub.at = "register"
    /\ made' = made \cup {hub.client}
    /\ subs' = [subs EXCEPT ![hub.client] = {}]
    /\ hub' = Select
    /\ UNCHANGED <<connectionLimit, subscribers, reader, writer, open, send,
                   broadcast, crashed>>

(***************************************************************************)
(* readPump.  Subscribe takes the client's lock and then the hub's; a      *)
(* write to a map that is still nil panics.                                *)
(***************************************************************************)
Reading(c) == reader[c].at = "read" /\ c \in open

Subscribe(c, e) ==
    /\ Reading(c)
    /\ \/ /\ Cardinality(subs[c]) >= MaxSubscriptions
          /\ Moves(c, "reply")
          /\ UNCHANGED <<subs, crashed>>
       \/ /\ Cardinality(subs[c]) < MaxSubscriptions
          /\ c \notin made
          /\ crashed' = TRUE
          /\ UNCHANGED <<subs, reader>>
       \/ /\ Cardinality(subs[c]) < MaxSubscriptions
          /\ c \in made
          /\ subs' = [subs EXCEPT ![c] = @ \cup {e}]
          /\ reader' = [reader EXCEPT ![c] = [at |-> "subscribe", ev |-> e]]
          /\ UNCHANGED crashed
    /\ UNCHANGED <<connectionLimit, subscribers, made, writer, open, send,
                   broadcast, hub>>

Unsubscribe(c, e) ==
    /\ Reading(c)
    /\ subs' = [subs EXCEPT ![c] = @ \ {e}]
    /\ reader' = [reader EXCEPT ![c] = [at |-> "unsubscribe", ev |-> e]]
    /\ UNCHANGED <<connectionLimit, subscribers, made, writer, open, send,
                   broadcast, hub, crashed>>

\* broadcastMessage ranges over the event's map after it gave the lock back: a
\* write meanwhile adds a client it did not visit yet, or drops one, or is
\* caught by the runtime, which ends the process.
Iterated(c, added) ==
    IF hub.at = "cast" /\ hub.ev = reader[c].ev
      THEN \/ /\ hub' \in IF added
                            THEN {hub, [hub EXCEPT !.left = @ \cup ({c} \ hub.done)]}
                            ELSE {[hub EXCEPT !.left = @ \ {c}]}
              /\ UNCHANGED crashed
           \/ crashed' = TRUE /\ UNCHANGED hub
      ELSE UNCHANGED <<hub, crashed>>

SubscribeHub(c) ==
    /\ reader[c].at = "subscribe"
    /\ subscribers' = [subscribers EXCEPT ![reader[c].ev] = @ \cup {c}]
    /\ Iterated(c, TRUE)
    /\ Moves(c, "reply")
    /\ UNCHANGED <<connectionLimit, subs, made, writer, open, send, broadcast>>

UnsubscribeHub(c) ==
    /\ reader[c].at = "unsubscribe"
    /\ subscribers' = [subscribers EXCEPT ![reader[c].ev] = @ \ {c}]
    /\ Iterated(c, FALSE)
    /\ Moves(c, "reply")
    /\ UNCHANGED <<connectionLimit, subs, made, writer, open, send, broadcast>>

\* A message that does not parse, or of another type: only an error is queued.
InvalidMessage(c) ==
    /\ Reading(c)
    /\ Moves(c, "reply")
    /\ UNCHANGED <<connectionLimit, subscribers, subs, made, writer, open,
                   send, broadcast, hub, crashed>>

\* The confirmation or error goes to the client's own channel and waits for room.
Reply(c) ==
    /\ reader[c].at = "reply"
    /\ send[c] < SendCap
    /\ send' = [send EXCEPT ![c] = @ + 1]
    /\ Moves(c, "read")
    /\ UNCHANGED <<connectionLimit, subscribers, subs, made, writer, open,
                   broadcast, hub, crashed>>

\* ReadMessage fails: the remote left, the deadline passed or writePump closed
\* the connection.  The deferred call then waits for Run.
ReadFails(c) ==
    /\ reader[c].at = "read"
    /\ Moves(c, "leave")
    /\ UNCHANGED <<connectionLimit, subscribers, subs, made, writer, open,
                   send, broadcast, hub, crashed>>

RunUnregister(c) ==
    /\ hub.at = "select"
    /\ reader[c].at = "leave"
    /\ hub' = [at |-> "unregister", client |-> c]
    /\ Moves(c, "gone")
    /\ open' = open \ {c}
    /\ UNCHANGED <<connectionLimit, subscribers, subs, made, writer, send,
                   broadcast, crashed>>

\* Mutant of unregisterClient: the slot is not given back.
unregisterClientKeepsSlot ==
    /\ hub.at = "unregister"
    /\ subscribers' = [e \in Events |->
                          IF e \in subs[hub.client]
                            THEN subscribers[e] \ {hub.client}
                            ELSE subscribers[e]]
    /\ hub' = Select
    /\ UNCHANGED <<connectionLimit, subs, made, reader, writer, open, send,
                   broadcast, crashed>>

unregisterClient ==
    /\ hub.at = "unregister"
    /\ subscribers' = [e \in Events |->
                          IF e \in subs[hub.client]
                            THEN subscribers[e] \ {hub.client}
                            ELSE subscribers[e]]
    /\ connectionLimit' = IF connectionLimit > 0 THEN connectionLimit - 1
                                                 ELSE 0
    /\ hub' = Select
    /\ UNCHANGED <<subs, made, reader, writer, open, send, broadcast, crashed>>

(***************************************************************************)
(* writePump: one frame carries every queued message; a failed write or    *)
(* ping closes the connection and ends the pump.                           *)
(***************************************************************************)
WriteFrame(c) ==
    /\ c \in writer /\ c \in open
    /\ send[c] > 0
    /\ send' = [send EXCEPT ![c] = 0]
    /\ UNCHANGED <<connectionLimit, subscribers, subs, made, reader, writer,
                   open, broadcast, hub, crashed>>

WriteFails(c) ==
    /\ c \in writer
    /\ writer' = writer \ {c}
    /\ open' = open \ {c}
    /\ send' \in {send, [send EXCEPT ![c] = 0]}
    /\ UNCHANGED <<connectionLimit, subscribers, subs, made, reader,
                   broadcast, hub, crashed>>

(***************************************************************************)
(* Broadcast and broadcastMessage.                                         *)
(***************************************************************************)
Broadcast(e) ==
    /\ Len(broadcast) < BroadcastCap
    /\ broadcast' = Append(broadcast, e)
    /\ UNCHANGED <<connectionLimit, subscribers, subs, made, reader, writer,
                   open, send, hub, crashed>>

RunBroadcast ==
    /\ hub.at = "select"
    /\ broadcast # <<>>
    /\ hub' = [at |-> "cast", ev |-> Head(broadcast),
               left |-> subscribers[Head(broadcast)], done |-> {}]
    /\ broadcast' = Tail(broadcast)
    /\ UNCHANGED <<connectionLimit, subscribers, subs, made, reader, writer,
                   open, send, crashed>>

\* Mutant of CastTo: a plain channel send that waits for room.
CastToWaits(c) ==
    /\ hub.at = "cast"
    /\ c \in hub.left
    /\ send[c] < SendCap
    /\ send' = [send EXCEPT ![c] = @ + 1]
    /\ hub' = [hub EXCEPT !.left = @ \ {c}, !.done = @ \cup {c}]
    /\ UNCHANGED <<connectionLimit, subscribers, subs, made, reader, writer,
                   open, broadcast, crashed>>

\* A full channel: Run sends to unregister, which only Run receives from.
CastTo(c) ==
    /\ hub.at = "cast"
    /\ c \in hub.left
    /\ IF send[c] < SendCap
         THEN /\ send' = [send EXCEPT ![c] = @ + 1]
              /\ hub' = [hub EXCEPT !.left = @ \ {c}, !.done = @ \cup {c}]
         ELSE /\ hub' = [at |-> "blocked"]
              /\ UNCHANGED send
    /\ UNCHANGED <<connectionLimit, subscribers, subs, made, reader, writer,
                   open, broadcast, crashed>>

CastDone ==
    /\ hub.at = "cast"
    /\ hub.left = {}
    /\ hub' = Select
    /\ UNCHANGED <<connectionLimit, subscribers, subs, made, reader, writer,
                   open, send, broadcast, crashed>>

Pumps(c) ==
    \/ UpgradeSucceeds(c) \/ ReleaseConnection(c)
    \/ \E e \in Events : Subscribe(c, e) \/ Unsubscribe(c, e)
    \/ SubscribeHub(c) \/ UnsubscribeHub(c)
    \/ InvalidMessage(c) \/ Reply(c) \/ ReadFails(c)
    \/ WriteFrame(c) \/ WriteFails(c)

Run ==
    \/ \E c \in Clients : RunRegister(c) \/ RunUnregister(c) \/ CastTo(c)
    \/ registerClient \/ unregisterClient \/ RunBroadcast \/ CastDone

HubNext ==
    /\ ~crashed
    /\ \/ \E c \in Clients : AcquireConnection(c) \/ Pumps(c)
       \/ \E e \in Events : Broadcast(e)
       \/ Run

HubSpec == HubInit /\ [][HubNext]_hubVars

(***************************************************************************)
(* The scheduler runs every goroutine that can run.  Run's select picks    *)
(* among the ready channels at random, so each of them is picked again and *)
(* again while it stays ready: strong fairness for a waiting unregister.   *)
(***************************************************************************)
HubFairness ==
    /\ WF_hubVars(~crashed /\ (\/ registerClient \/ unregisterClient
                                \/ CastDone \/ \E c \in Clients : CastTo(c)))
    /\ \A c \in Clients : SF_hubVars(~crashed /\ RunUnregister(c))

----------------------------------------------------------------------------

\* Connections that hold a slot: between AcquireConnection and the end of
\* unregisterClient (or the failed upgrade).
Holding == {c \in Clients : \/ reader[c].at \notin {"none", "gone"}
                            \/ hub = [at |-> "unregister", client |-> c]}

\* Every slot of connectionLimit belongs to exactly one live connection, so the
\* limit of 100 is neither leaked away nor exceeded (hub.go, AcquireConnection
\* and the release in unregisterClient, "should not happen" in its default).
SlotsExact == connectionLimit = Cardinality(Holding)

\* A client that left is in no subscriber map, so no broadcast is offered to a
\* dead channel; a live one is there only for events its own map lists, which is
\* what unregisterClient relies on to find them.
NoGhostSubscribers ==
    \A e \in Events : \A c \in subscribers[e] :
        /\ c \in Holding
        /\ \/ e \in subs[c]
           \/ reader[c] = [at |-> "unsubscribe", ev |-> e]

\* A reader that leaves is unregistered, unless Run blocked itself on a full
\* send channel or the process is gone.
LeavingIsServed ==
    \A c \in Clients :
        (reader[c].at = "leave") ~>
            (reader[c].at = "gone" \/ hub.at = "blocked" \/ crashed)
=============================================================================
