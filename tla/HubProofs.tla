----------------------------- MODULE HubProofs -----------------------------
(***************************************************************************)
(* Every slot of the hub's connection limit belongs to one connection, and *)
(* no subscriber map keeps a client that left, for any number of clients,  *)
(* events and capacities.                                                  *)
(*                                                                         *)
(* NoGhostSubscribers needs to know where a reader stands between writing  *)
(* its own map and the hub's, and that registerClient, which runs beside   *)
(* the pumps, empties a map no subscription was written to (HubBase).      *)
(***************************************************************************)
EXTENDS Hub, FiniteSetTheorems, TLAPS

\* The reader has not been handed to Run yet.
Early == {"none", "upgrade", "register"}

HubBase ==
    /\ subscribers \in [Events -> SUBSET Clients]
    /\ subs \in [Clients -> SUBSET Events]
    /\ reader \in [Clients -> [at : ReaderAt, ev : Events \cup {CHOOSE e \in Events : TRUE}]]
    /\ broadcast \in Seq(Events)
    /\ \/ hub \in [at : {"select", "blocked"}]
       \/ hub \in [at : {"register", "unregister"}, client : Clients]
       \/ hub \in [at : {"cast"}, ev : Events, left : SUBSET Clients,
                   done : SUBSET Clients]
    /\ hub.at = "unregister" => reader[hub.client].at = "gone"
    /\ hub.at = "register" => reader[hub.client].at \notin Early /\ hub.client \notin made
    /\ \A c \in Clients :
          /\ reader[c].at = "subscribe" => reader[c].ev \in subs[c]
          /\ reader[c].at \in Early => c \notin made
          /\ c \notin made => subs[c] = {}

Counted == SlotsExact /\ connectionLimit \in Nat /\ IsFiniteSet(Holding)

\* A client's reader moves on.
LEMMA ReaderMoves ==
    ASSUME HubBase, NEW c \in Clients, NEW s \in ReaderAt, Moves(c, s)
    PROVE  /\ reader' \in [Clients -> [at : ReaderAt, ev : Events \cup {CHOOSE e \in Events : TRUE}]]
           /\ reader'[c].at = s
           /\ \A x \in Clients : x # c => reader'[x] = reader[x]
BY DEF HubBase, Moves, At

\* HandleWebSocket and the parts of readPump that only move the reader.
LEMMA HandlersKeepBase ==
    ASSUME HubBase, NEW c \in Clients,
           \/ AcquireConnection(c) \/ UpgradeSucceeds(c) \/ ReleaseConnection(c)
           \/ InvalidMessage(c) \/ Reply(c) \/ ReadFails(c)
    PROVE  HubBase'
<1>1. /\ UNCHANGED <<subscribers, subs, made, broadcast, hub>>
      /\ \E s \in ReaderAt \ {"subscribe"} :
            /\ Moves(c, s)
            /\ s \in Early => reader[c].at \in Early
            /\ reader[c].at \in Early => s \in Early \cup {"gone"}
      /\ reader[c].at # "gone"
  BY DEF AcquireConnection, UpgradeSucceeds, ReleaseConnection, InvalidMessage, Reply,
         ReadFails, Reading, ReaderAt, Early
<1>2. PICK s \in ReaderAt \ {"subscribe"} :
            /\ Moves(c, s)
            /\ s \in Early => reader[c].at \in Early
            /\ reader[c].at \in Early => s \in Early \cup {"gone"}
  BY <1>1
<1>3. /\ reader' \in [Clients -> [at : ReaderAt, ev : Events \cup {CHOOSE e \in Events : TRUE}]]
      /\ reader'[c].at = s
      /\ \A x \in Clients : x # c => reader'[x] = reader[x]
  BY <1>2, ReaderMoves
<1> QED  BY <1>1, <1>2, <1>3 DEF HubBase

\* A reader that works on a subscription.
LEMMA SubscribersKeepBase ==
    ASSUME HubBase, NEW c \in Clients, NEW e \in Events,
           Subscribe(c, e) \/ Unsubscribe(c, e)
    PROVE  HubBase'
<1>1. reader[c].at = "read" /\ UNCHANGED <<subscribers, made, broadcast, hub>>
  BY DEF Subscribe, Unsubscribe, Reading
<1>2. CASE UNCHANGED <<subs, reader>>
  BY <1>1, <1>2 DEF HubBase
<1>3. CASE Moves(c, "reply") /\ UNCHANGED subs
  <2>1. "reply" \in ReaderAt
    BY DEF ReaderAt
  <2>2. /\ reader' \in [Clients -> [at : ReaderAt, ev : Events \cup {CHOOSE x \in Events : TRUE}]]
        /\ reader'[c].at = "reply"
        /\ \A x \in Clients : x # c => reader'[x] = reader[x]
    BY <1>3, <2>1, ReaderMoves
  <2> QED  BY <1>1, <1>3, <2>2 DEF HubBase, Early
<1>4. CASE /\ c \in made /\ subs' = [subs EXCEPT ![c] = @ \cup {e}]
           /\ reader' = [reader EXCEPT ![c] = [at |-> "subscribe", ev |-> e]]
  BY <1>1, <1>4 DEF HubBase, Early, ReaderAt
<1>5. CASE /\ subs' = [subs EXCEPT ![c] = @ \ {e}]
           /\ reader' = [reader EXCEPT ![c] = [at |-> "unsubscribe", ev |-> e]]
  BY <1>1, <1>5 DEF HubBase, Early, ReaderAt
<1>6. CASE Subscribe(c, e)
  BY <1>2, <1>3, <1>4, <1>6, Zenon DEF Subscribe
<1>7. CASE Unsubscribe(c, e)
  BY <1>5, <1>7, Zenon DEF Unsubscribe
<1> QED  BY <1>6, <1>7

\* The writes to the hub's map: a range over the map stays a range.
LEMMA HubMapsKeepBase ==
    ASSUME HubBase, NEW c \in Clients, SubscribeHub(c) \/ UnsubscribeHub(c)
    PROVE  HubBase'
<1>1. /\ UNCHANGED <<subs, made, broadcast>> /\ Moves(c, "reply")
      /\ reader[c].at \in {"subscribe", "unsubscribe"}
      /\ Iterated(c, TRUE) \/ Iterated(c, FALSE)
  BY DEF SubscribeHub, UnsubscribeHub
<1>2. subscribers' \in [Events -> SUBSET Clients]
  <2>1. /\ \A e \in Events : /\ subscribers[e] \cup {c} \in SUBSET Clients
                             /\ subscribers[e] \ {c} \in SUBSET Clients
        /\ subscribers \in [Events -> SUBSET Clients]
    BY DEF HubBase
  <2>2. CASE SubscribeHub(c)
    BY <2>1, <2>2 DEF SubscribeHub
  <2>3. CASE UnsubscribeHub(c)
    BY <2>1, <2>3 DEF UnsubscribeHub
  <2> QED  BY <2>2, <2>3
<1>3. /\ reader' \in [Clients -> [at : ReaderAt, ev : Events \cup {CHOOSE e \in Events : TRUE}]]
      /\ reader'[c].at = "reply"
      /\ \A x \in Clients : x # c => reader'[x] = reader[x]
  <2>1. "reply" \in ReaderAt
    BY DEF ReaderAt
  <2> QED  BY <1>1, <2>1, ReaderMoves
<1>4. \/ hub' = hub
      \/ /\ hub.at = "cast"
         /\ hub' \in [at : {"cast"}, ev : Events, left : SUBSET Clients,
                       done : SUBSET Clients]
  <2>1. CASE hub.at = "cast"
    <3>1. hub \in [at : {"cast"}, ev : Events, left : SUBSET Clients, done : SUBSET Clients]
      BY <2>1 DEF HubBase
    <3>2. \/ hub' = hub
          \/ hub' = [hub EXCEPT !.left = @ \cup ({c} \ hub.done)]
          \/ hub' = [hub EXCEPT !.left = @ \ {c}]
      BY <1>1, Zenon DEF Iterated
    <3> QED  BY <2>1, <3>1, <3>2
  <2>2. CASE hub.at # "cast"
    BY <1>1, <2>2 DEF Iterated
  <2> QED  BY <2>1, <2>2
<1>5. CASE hub' = hub
  BY <1>1, <1>2, <1>3, <1>5 DEF HubBase, Early
<1>6. CASE /\ hub.at = "cast"
           /\ hub' \in [at : {"cast"}, ev : Events, left : SUBSET Clients,
                         done : SUBSET Clients]
  BY <1>1, <1>2, <1>3, <1>6 DEF HubBase, Early
<1> QED  BY <1>4, <1>5, <1>6

\* broadcastMessage goes on to the next subscriber, or waits for itself.
LEMMA CastToKeepsBase ==
    ASSUME HubBase, NEW c \in Clients, CastTo(c)
    PROVE  HubBase'
<1>1. UNCHANGED <<subscribers, subs, made, reader, broadcast>>
  BY DEF CastTo
<1>2. hub \in [at : {"cast"}, ev : Events, left : SUBSET Clients, done : SUBSET Clients]
  BY DEF HubBase, CastTo
<1>3. hub.left \ {c} \in SUBSET Clients /\ hub.done \cup {c} \in SUBSET Clients
  BY <1>2
<1>4. \/ hub' = [hub EXCEPT !.left = @ \ {c}, !.done = @ \cup {c}]
      \/ hub' = [at |-> "blocked"]
  BY Zenon DEF CastTo
<1>5. CASE hub' = [hub EXCEPT !.left = @ \ {c}, !.done = @ \cup {c}]
  <2>1. hub' \in [at : {"cast"}, ev : Events, left : SUBSET Clients, done : SUBSET Clients]
    BY <1>2, <1>3, <1>5
  <2> QED  BY <1>1, <2>1 DEF HubBase
<1>6. CASE hub' = [at |-> "blocked"]
  <2>1. hub' \in [at : {"select", "blocked"}]
    BY <1>6
  <2> QED  BY <1>1, <2>1 DEF HubBase
<1> QED  BY <1>4, <1>5, <1>6

\* Run takes a client in and lets it go.
LEMMA RunKeepsBase ==
    ASSUME HubBase, NEW c \in Clients,
           RunRegister(c) \/ registerClient \/ RunUnregister(c) \/ unregisterClient
    PROVE  HubBase'
<1>1. CASE RunRegister(c)
  BY <1>1 DEF HubBase, RunRegister, Moves, At, Early, ReaderAt
<1>2. CASE registerClient
  <2>1. hub.client \in Clients /\ hub.client \notin made /\ subs' = subs
    BY <1>2 DEF HubBase, registerClient
  <2> QED  BY <1>2, <2>1 DEF HubBase, registerClient, Select
<1>3. CASE RunUnregister(c)
  BY <1>3 DEF HubBase, RunUnregister, Moves, At, Early, ReaderAt
<1>4. CASE unregisterClient
  BY <1>4 DEF HubBase, unregisterClient, Select
<1> QED  BY <1>1, <1>2, <1>3, <1>4

LEMMA HubBaseStep ==
    ASSUME HubBase, [HubNext]_hubVars
    PROVE  HubBase'
<1>1. CASE UNCHANGED hubVars
  BY <1>1 DEF HubBase, hubVars
<1>2. ASSUME NEW c \in Clients, AcquireConnection(c) \/ Pumps(c) \/ RunRegister(c)
                                \/ RunUnregister(c) \/ CastTo(c)
      PROVE  HubBase'
  <2>1. CASE \E e \in Events : Subscribe(c, e) \/ Unsubscribe(c, e)
    BY <2>1, SubscribersKeepBase
  <2>2. CASE \/ AcquireConnection(c) \/ UpgradeSucceeds(c) \/ ReleaseConnection(c)
             \/ InvalidMessage(c) \/ Reply(c) \/ ReadFails(c)
    BY <2>2, HandlersKeepBase
  <2>3. CASE SubscribeHub(c) \/ UnsubscribeHub(c)
    BY <2>3, HubMapsKeepBase
  <2>4. CASE WriteFrame(c) \/ WriteFails(c)
    BY <2>4 DEF HubBase, WriteFrame, WriteFails
  <2>5. CASE RunRegister(c) \/ RunUnregister(c)
    BY <2>5, RunKeepsBase
  <2>6. CASE CastTo(c)
    BY <2>6, CastToKeepsBase
  <2> QED  BY <1>2, <2>1, <2>2, <2>3, <2>4, <2>5, <2>6 DEF Pumps
<1>3. CASE \E e \in Events : Broadcast(e)
  <2> PICK e \in Events : Broadcast(e)
    BY <1>3
  <2>1. broadcast' \in Seq(Events)
    BY DEF Broadcast, HubBase
  <2> QED  BY <2>1 DEF Broadcast, HubBase
<1>4. CASE registerClient \/ unregisterClient
  <2>1. hub.client \in Clients
    BY <1>4 DEF registerClient, unregisterClient, HubBase
  <2> QED  BY <1>4, <2>1, RunKeepsBase
<1>5. CASE RunBroadcast \/ CastDone
  <2>1. hub' \in [at : {"select", "blocked"}]
        \/ hub' \in [at : {"cast"}, ev : Events, left : SUBSET Clients, done : SUBSET Clients]
    <3>1. CASE RunBroadcast
      <4>1. Head(broadcast) \in Events
        BY <3>1 DEF HubBase, RunBroadcast
      <4>2. subscribers[Head(broadcast)] \in SUBSET Clients
        BY <4>1 DEF HubBase
      <4> QED  BY <3>1, <4>1, <4>2 DEF RunBroadcast
    <3>2. CASE CastDone
      BY <3>2 DEF CastDone, Select
    <3> QED  BY <1>5, <3>1, <3>2
  <2>2. broadcast' \in Seq(Events)
    BY <1>5 DEF HubBase, RunBroadcast, CastDone
  <2>3. UNCHANGED <<subscribers, subs, made, reader>>
    BY <1>5 DEF RunBroadcast, CastDone
  <2> QED  BY <2>1, <2>2, <2>3 DEF HubBase
<1> QED  BY <1>1, <1>2, <1>3, <1>4, <1>5 DEF HubNext, Run

\* Who holds a slot, without the records of Run.
LEMMA HoldingIs ==
    ASSUME HubBase
    PROVE  Holding = {c \in Clients : \/ reader[c].at \notin {"none", "gone"}
                                      \/ hub.at = "unregister" /\ hub.client = c}
<1>1. \A c \in Clients : hub = [at |-> "unregister", client |-> c]
                          <=> hub.at = "unregister" /\ hub.client = c
  BY DEF HubBase
<1> QED  BY <1>1 DEF Holding

\* A step that leaves the holders and the limit alone, one that adds a holder
\* and one that drops a holder.
LEMMA CountKeeps ==
    ASSUME Counted, Holding' = Holding, connectionLimit' = connectionLimit
    PROVE  Counted'
BY DEF Counted, SlotsExact

LEMMA CountAdds ==
    ASSUME Counted, NEW c, c \notin Holding, Holding' = Holding \cup {c},
           connectionLimit' = connectionLimit + 1
    PROVE  Counted'
<1>1. /\ IsFiniteSet(Holding \cup {c})
      /\ Cardinality(Holding \cup {c}) = Cardinality(Holding) + 1
  BY FS_AddElement DEF Counted
<1> QED  BY <1>1 DEF Counted, SlotsExact

LEMMA CountDrops ==
    ASSUME Counted, NEW c \in Holding, Holding' = Holding \ {c},
           connectionLimit' = IF connectionLimit > 0 THEN connectionLimit - 1 ELSE 0
    PROVE  Counted'
<1>1. /\ IsFiniteSet(Holding \ {c})
      /\ Cardinality(Holding \ {c}) = Cardinality(Holding) - 1
  BY FS_RemoveElement DEF Counted
<1>2. Cardinality(Holding) \in Nat /\ Cardinality(Holding \ {c}) \in Nat
  BY <1>1, FS_CardinalityType DEF Counted
<1> QED  BY <1>1, <1>2 DEF Counted, SlotsExact

\* The limit counts the holders after every step.
LEMMA CountStep ==
    ASSUME HubBase, HubBase', Counted, [HubNext]_hubVars
    PROVE  Counted'
<1> DEFINE Holds(c) == \/ reader[c].at \notin {"none", "gone"}
                       \/ hub.at = "unregister" /\ hub.client = c
<1>1. Holding = {c \in Clients : Holds(c)} /\ Holding' = {c \in Clients : Holds(c)'}
  <2>1. Holding = {c \in Clients : Holds(c)}
    BY HoldingIs
  <2>2. \A c \in Clients : hub' = [at |-> "unregister", client |-> c]
                            <=> hub'.at = "unregister" /\ hub'.client = c
    BY DEF HubBase
  <2>3. Holding' = {c \in Clients : Holds(c)'}
    BY <2>2 DEF Holding
  <2> QED  BY <2>1, <2>3
<1>2. reader \in [Clients -> [at : ReaderAt, ev : Events \cup {CHOOSE e \in Events : TRUE}]]
  BY DEF HubBase
<1>3. ASSUME connectionLimit' = connectionLimit, \A c \in Clients : Holds(c)' <=> Holds(c)
      PROVE  Counted'
  BY <1>1, <1>3, CountKeeps
<1>4. ASSUME NEW c \in Clients, AcquireConnection(c)
      PROVE  Counted'
  <2>1. c \notin Holding /\ Holding' = Holding \cup {c}
    BY <1>1, <1>2, <1>4 DEF AcquireConnection, Moves, At, HubBase
  <2> QED  BY <1>4, <2>1, CountAdds DEF AcquireConnection
<1>5. ASSUME NEW c \in Clients, ReleaseConnection(c)
      PROVE  Counted'
  <2>1. c \in Holding /\ Holding' = Holding \ {c}
    BY <1>1, <1>2, <1>5 DEF ReleaseConnection, Moves, At, HubBase
  <2> QED  BY <1>5, <2>1, CountDrops DEF ReleaseConnection
<1>6. CASE unregisterClient
  <2>1. hub.client \in Holding /\ Holding' = Holding \ {hub.client}
    BY <1>1, <1>2, <1>6 DEF unregisterClient, Select, HubBase
  <2> QED  BY <1>6, <2>1, CountDrops DEF unregisterClient
<1>7. ASSUME NEW c \in Clients, RunUnregister(c)
      PROVE  Counted'
  <2>1. \A x \in Clients : Holds(x)' <=> Holds(x)
    BY <1>2, <1>7 DEF RunUnregister, Moves, At, HubBase
  <2> QED  BY <1>3, <1>7, <2>1 DEF RunUnregister
<1>8. ASSUME NEW c \in Clients, NEW e \in Events, Subscribe(c, e) \/ Unsubscribe(c, e)
      PROVE  Counted'
  <2>1. \A x \in Clients : Holds(x)' <=> Holds(x)
    BY <1>2, <1>8 DEF Subscribe, Unsubscribe, Reading, Moves, At
  <2> QED  BY <1>3, <1>8, <2>1 DEF Subscribe, Unsubscribe
<1>9. ASSUME NEW c \in Clients,
             UpgradeSucceeds(c) \/ InvalidMessage(c) \/ Reply(c) \/ ReadFails(c) \/ RunRegister(c)
      PROVE  Counted'
  <2>1. /\ \E s \in ReaderAt \ {"none", "gone"} : Moves(c, s)
        /\ reader[c].at \notin {"none", "gone"}
        /\ hub.at = "unregister" => hub' = hub
        /\ hub' = hub \/ hub'.at # "unregister"
        /\ connectionLimit' = connectionLimit
    BY <1>9 DEF UpgradeSucceeds, InvalidMessage, Reply, ReadFails, RunRegister, Reading, ReaderAt
  <2>2. \A x \in Clients : Holds(x)' <=> Holds(x)
    BY <1>2, <2>1 DEF Moves, At
  <2> QED  BY <1>3, <2>1, <2>2
<1>10. ASSUME NEW c \in Clients, SubscribeHub(c) \/ UnsubscribeHub(c)
       PROVE  Counted'
  <2>1. /\ Moves(c, "reply") /\ reader[c].at \notin {"none", "gone"}
        /\ Iterated(c, TRUE) \/ Iterated(c, FALSE)
        /\ connectionLimit' = connectionLimit
    BY <1>10 DEF SubscribeHub, UnsubscribeHub
  <2>2. hub.at # "cast" => hub' = hub
    BY <2>1 DEF Iterated
  <2>3. hub.at = "cast" => hub'.at = "cast"
    <3> SUFFICES ASSUME hub.at = "cast" PROVE hub'.at = "cast"
      OBVIOUS
    <3>1. hub \in [at : {"cast"}, ev : Events, left : SUBSET Clients, done : SUBSET Clients]
      BY DEF HubBase
    <3>2. \/ hub' = hub
          \/ hub' = [hub EXCEPT !.left = @ \cup ({c} \ hub.done)]
          \/ hub' = [hub EXCEPT !.left = @ \ {c}]
      BY <2>1, Zenon DEF Iterated
    <3> QED  BY <3>1, <3>2
  <2>4. \A x \in Clients : Holds(x)' <=> Holds(x)
    BY <1>2, <2>1, <2>2, <2>3 DEF Moves, At
  <2> QED  BY <1>3, <2>1, <2>4
<1>11. ASSUME NEW c \in Clients, WriteFrame(c) \/ WriteFails(c) \/ CastTo(c)
       PROVE  Counted'
  <2>1. UNCHANGED <<reader, connectionLimit>>
    BY <1>11 DEF WriteFrame, WriteFails, CastTo
  <2>2. hub' = hub \/ (hub.at = "cast" /\ hub'.at \in {"cast", "blocked"})
    <3>1. CASE CastTo(c)
      <4>1. hub \in [at : {"cast"}, ev : Events, left : SUBSET Clients, done : SUBSET Clients]
        BY <3>1 DEF HubBase, CastTo
      <4>2. \/ hub' = [hub EXCEPT !.left = @ \ {c}, !.done = @ \cup {c}]
            \/ hub' = [at |-> "blocked"]
        BY <3>1, Zenon DEF CastTo
      <4>3. CASE hub' = [at |-> "blocked"]
        BY <4>1, <4>3
      <4>4. CASE hub' = [hub EXCEPT !.left = @ \ {c}, !.done = @ \cup {c}]
        BY <4>1, <4>4
      <4> QED  BY <4>2, <4>3, <4>4
    <3> QED  BY <1>11, <3>1 DEF WriteFrame, WriteFails
  <2>3. \A x \in Clients : Holds(x)' <=> Holds(x)
    BY <2>1, <2>2
  <2> QED  BY <1>3, <2>1, <2>3
<1>12. CASE registerClient \/ RunBroadcast \/ CastDone \/ (\E e \in Events : Broadcast(e))
            \/ UNCHANGED hubVars
  <2>1. UNCHANGED <<reader, connectionLimit>>
    BY <1>12 DEF registerClient, RunBroadcast, CastDone, Broadcast, hubVars
  <2>2. hub' = hub \/ (hub.at # "unregister" /\ hub'.at # "unregister")
    <3>1. CASE RunBroadcast
      BY <3>1 DEF RunBroadcast
    <3>2. CASE registerClient \/ CastDone
      BY <3>2 DEF registerClient, CastDone, Select
    <3> QED  BY <1>12, <3>1, <3>2 DEF Broadcast, hubVars
  <2>3. \A x \in Clients : Holds(x)' <=> Holds(x)
    BY <2>1, <2>2
  <2> QED  BY <1>3, <2>1, <2>3
<1> QED
  BY <1>4, <1>5, <1>6, <1>7, <1>8, <1>9, <1>10, <1>11, <1>12 DEF HubNext, Pumps, Run

\* A subscriber may stay where it is.
Placed(c, e) ==
    /\ c \in Holding
    /\ e \in subs[c] \/ reader[c] = [at |-> "unsubscribe", ev |-> e]

\* No subscriber map keeps a client that left.
LEMMA GhostStep ==
    ASSUME HubBase, HubBase', NoGhostSubscribers, [HubNext]_hubVars
    PROVE  NoGhostSubscribers'
<1> SUFFICES ASSUME NEW f \in Events, NEW x \in subscribers'[f]
             PROVE  Placed(x, f)'
  BY DEF NoGhostSubscribers, Placed
<1> DEFINE R == [at |-> "unsubscribe", ev |-> f]
<1>1. /\ subscribers \in [Events -> SUBSET Clients]
      /\ subs \in [Clients -> SUBSET Events]
      /\ reader \in [Clients -> [at : ReaderAt, ev : Events \cup {CHOOSE e \in Events : TRUE}]]
      /\ x \in Clients
  BY DEF HubBase
<1>2. x \in subscribers[f] => Placed(x, f)
  BY DEF NoGhostSubscribers, Placed
<1>3. ASSUME x \in subscribers[f], x \in Holding => x \in Holding',
             f \in subs[x] => f \in subs'[x], reader[x] = R => reader'[x] = R
      PROVE  Placed(x, f)'
  BY <1>2, <1>3 DEF Placed
<1>4. ASSUME UNCHANGED <<subscribers, subs, reader>>,
             hub.at = "unregister" => hub' = hub
      PROVE  Placed(x, f)'
  <2>1. x \in Holding => x \in Holding'
    BY <1>4 DEF Holding
  <2> QED  BY <1>3, <1>4, <2>1
<1>5. CASE UNCHANGED hubVars
  BY <1>4, <1>5 DEF hubVars
<1>6. ASSUME NEW c \in Clients, WriteFrame(c) \/ WriteFails(c) \/ CastTo(c)
      PROVE  Placed(x, f)'
  BY <1>4, <1>6 DEF WriteFrame, WriteFails, CastTo
<1>7. CASE RunBroadcast \/ CastDone \/ \E e \in Events : Broadcast(e)
  <2>1. UNCHANGED <<subscribers, subs, reader>>
    BY <1>7 DEF RunBroadcast, CastDone, Broadcast
  <2>2. hub.at = "unregister" => hub' = hub
    BY <1>7 DEF RunBroadcast, CastDone, Broadcast
  <2> QED  BY <1>4, <2>1, <2>2
<1>8. CASE registerClient
  <2>1. hub.client \in Clients /\ subs' = subs /\ hub.at # "unregister"
    BY <1>8 DEF HubBase, registerClient
  <2> QED  BY <1>4, <1>8, <2>1 DEF registerClient
<1>9. ASSUME NEW c \in Clients,
             \/ AcquireConnection(c) \/ UpgradeSucceeds(c) \/ InvalidMessage(c)
             \/ Reply(c) \/ ReadFails(c) \/ RunRegister(c)
      PROVE  Placed(x, f)'
  <2>1. /\ UNCHANGED <<subscribers, subs>>
        /\ \E s \in ReaderAt \ {"none", "gone"} : reader' = [reader EXCEPT ![c] = At(s)]
        /\ reader[c].at # "unsubscribe"
        /\ hub.at = "unregister" => hub' = hub
    BY <1>9 DEF AcquireConnection, UpgradeSucceeds, InvalidMessage, Reply, ReadFails,
                RunRegister, Reading, Moves, ReaderAt
  <2>2. x \in Holding => x \in Holding'
    BY <1>1, <2>1 DEF Holding, At
  <2>3. reader[x] = R => reader'[x] = R
    BY <1>1, <2>1
  <2> QED  BY <1>3, <2>1, <2>2, <2>3
<1>10. ASSUME NEW c \in Clients, ReleaseConnection(c)
       PROVE  Placed(x, f)'
  <2>1. /\ UNCHANGED <<subscribers, subs, hub>> /\ reader' = [reader EXCEPT ![c] = At("gone")]
        /\ subs[c] = {} /\ reader[c].at = "upgrade"
    BY <1>10 DEF ReleaseConnection, Moves, HubBase, Early
  <2>2. x # c
    BY <1>2, <2>1 DEF Placed
  <2>3. reader'[x] = reader[x]
    BY <1>1, <2>1, <2>2
  <2>4. x \in Holding => x \in Holding'
    BY <2>1, <2>3 DEF Holding
  <2> QED  BY <1>3, <2>1, <2>3, <2>4
<1>11. ASSUME NEW c \in Clients, RunUnregister(c)
       PROVE  Placed(x, f)'
  <2>1. /\ UNCHANGED <<subscribers, subs>> /\ reader' = [reader EXCEPT ![c] = At("gone")]
        /\ reader[c].at = "leave" /\ hub.at = "select"
        /\ hub' = [at |-> "unregister", client |-> c]
    BY <1>11 DEF RunUnregister, Moves
  <2>2. reader[x] = R => reader'[x] = R
    BY <1>1, <2>1
  <2>3. x # c => reader'[x] = reader[x]
    BY <1>1, <2>1
  <2>4. hub # [at |-> "unregister", client |-> x]
    BY <2>1
  <2>5. x \in Holding => x \in Holding'
    BY <2>1, <2>3, <2>4 DEF Holding
  <2> QED  BY <1>3, <2>1, <2>2, <2>5
<1>12. CASE unregisterClient
  <2> DEFINE c == hub.client
  <2>1. /\ c \in Clients /\ reader[c].at = "gone" /\ UNCHANGED <<subs, reader>>
        /\ hub.at = "unregister"
        /\ subscribers'[f] = IF f \in subs[c] THEN subscribers[f] \ {c} ELSE subscribers[f]
    BY <1>12 DEF unregisterClient, HubBase
  <2>2. x \in subscribers[f] /\ x # c
    BY <1>2, <2>1 DEF Placed
  <2>3. hub # [at |-> "unregister", client |-> x]
    BY <2>2
  <2>4. x \in Holding => x \in Holding'
    BY <2>1, <2>3 DEF Holding
  <2> QED  BY <1>3, <2>1, <2>2, <2>4
<1>13. ASSUME NEW c \in Clients, NEW e \in Events, Subscribe(c, e) \/ Unsubscribe(c, e)
       PROVE  Placed(x, f)'
  <2>1. reader[c].at = "read" /\ UNCHANGED <<subscribers, hub>>
    BY <1>13 DEF Subscribe, Unsubscribe, Reading
  <2>2. \/ UNCHANGED <<subs, reader>>
        \/ reader' = [reader EXCEPT ![c] = At("reply")] /\ UNCHANGED subs
        \/ /\ subs' = [subs EXCEPT ![c] = @ \cup {e}]
           /\ reader' = [reader EXCEPT ![c] = [at |-> "subscribe", ev |-> e]]
        \/ /\ subs' = [subs EXCEPT ![c] = @ \ {e}]
           /\ reader' = [reader EXCEPT ![c] = [at |-> "unsubscribe", ev |-> e]]
    BY <1>13, Zenon DEF Subscribe, Unsubscribe, Moves
  <2>3. x \in Holding => x \in Holding'
    BY <1>1, <2>1, <2>2 DEF Holding, At
  <2>4. f \in subs[x] \/ reader[x] = R => f \in subs'[x] \/ reader'[x] = R
    BY <1>1, <2>1, <2>2 DEF At
  <2> QED  BY <1>2, <2>1, <2>3, <2>4 DEF Placed
<1>14. ASSUME NEW c \in Clients, SubscribeHub(c) \/ UnsubscribeHub(c)
       PROVE  Placed(x, f)'
  <2> DEFINE e == reader[c].ev
  <2>1. /\ reader' = [reader EXCEPT ![c] = At("reply")] /\ UNCHANGED subs
        /\ reader[c].at \in {"subscribe", "unsubscribe"}
        /\ hub.at = "unregister" => hub' = hub
    BY <1>14 DEF SubscribeHub, UnsubscribeHub, Moves, Iterated
  <2>2. reader'[c].at = "reply" /\ \A y \in Clients : y # c => reader'[y] = reader[y]
    BY <1>1, <2>1 DEF At
  <2>3. (x = c \/ x \in Holding) => x \in Holding'
    BY <1>1, <2>1, <2>2 DEF Holding
  <2>4. CASE x # c
    <3>1. x \in subscribers[f]
      <4>1. subscribers'[f] \subseteq subscribers[f] \cup {c}
        <5>1. CASE SubscribeHub(c)
          BY <1>1, <5>1 DEF SubscribeHub
        <5>2. CASE UnsubscribeHub(c)
          BY <1>1, <5>2 DEF UnsubscribeHub
        <5> QED  BY <1>14, <5>1, <5>2
      <4> QED  BY <2>4, <4>1
    <3> QED  BY <1>3, <2>1, <2>2, <2>3, <2>4, <3>1
  <2>5. CASE x = c
    <3>1. f \in subs[c]
      <4>1. CASE SubscribeHub(c)
        <5>1. e \in subs[c] /\ reader[c].at = "subscribe"
          BY <4>1 DEF SubscribeHub, HubBase
        <5>2. f = e \/ x \in subscribers[f]
          BY <1>1, <4>1 DEF SubscribeHub
        <5> QED  BY <1>2, <2>5, <5>1, <5>2 DEF Placed
      <4>2. CASE UnsubscribeHub(c)
        <5>1. f # e /\ x \in subscribers[f]
          BY <1>1, <2>5, <4>2 DEF UnsubscribeHub
        <5> QED  BY <1>2, <2>5, <5>1 DEF Placed
      <4> QED  BY <1>14, <4>1, <4>2
    <3> QED  BY <2>1, <2>3, <2>5, <3>1 DEF Placed
  <2> QED  BY <2>4, <2>5
<1> QED
  BY <1>5, <1>6, <1>7, <1>8, <1>9, <1>10, <1>11, <1>12, <1>13, <1>14
  DEF HubNext, Pumps, Run

\* Every slot of the connection limit belongs to one live connection, and a
\* client that left is in no subscriber map, whatever the clients, the hub's
\* goroutine and the pumps do to each other (AcquireConnection,
\* unregisterClient, Subscribe, Unsubscribe).
THEOREM HubCorrect == HubSpec => [](SlotsExact /\ NoGhostSubscribers)
<1> DEFINE Inv == HubBase /\ Counted /\ NoGhostSubscribers
<1>1. HubInit => Inv
  <2> SUFFICES ASSUME HubInit PROVE Inv
    OBVIOUS
  <2>1. HubBase
    BY DEF HubInit, HubBase, Select, At, ReaderAt, Early
  <2>2. Holding = {}
    BY <2>1, HoldingIs DEF HubInit, At, Select
  <2>3. Counted
    BY <2>2, FS_EmptySet DEF HubInit, Counted, SlotsExact
  <2>4. NoGhostSubscribers
    BY DEF HubInit, NoGhostSubscribers
  <2> QED  BY <2>1, <2>3, <2>4
<1>2. Inv /\ [HubNext]_hubVars => Inv'
  BY HubBaseStep, CountStep, GhostStep
<1>3. Inv => SlotsExact /\ NoGhostSubscribers
  BY DEF Counted
<1> QED  BY <1>1, <1>2, <1>3, PTL DEF HubSpec
=============================================================================
