------------------------------ MODULE WSClient ------------------------------
(***************************************************************************)
(* The SDK's reconnecting WebSocket client (sdk/ws.go, WSClient): one or   *)
(* more application threads call Subscribe, Unsubscribe and Close while    *)
(* the reader goroutine dispatches frames and reconnects.  A frame is the  *)
(* sequence of messages the server's writePump put into it; a message is   *)
(* the event it is about.                                                  *)
(***************************************************************************)
EXTENDS Naturals, Sequences, FiniteSets

CONSTANTS Topics,       \* event names
          NSockets,     \* bound on the connections dialled
          NChans,       \* bound on the subscription channels made
          MaxRetries,   \* maxRetries of the client
          ChanCap       \* capacity of a subscription channel

ASSUME WSAssumption ==
    /\ NSockets \in Nat /\ NChans \in Nat
    /\ MaxRetries \in Nat
    /\ ChanCap \in Nat

Sockets == 1..NSockets
Chans == 1..NChans
NoSock == 0
NoChan == 0

VARIABLES conn,      \* ws.conn, NoSock before the first Connect
          live,      \* sockets that are open
          dialled,   \* how many sockets were dialled
          wsubs,     \* topic -> its channel, NoChan when not subscribed
          chanOf,    \* how many channels were made
          closedCh,  \* closed channels
          queue,     \* channel -> messages waiting in it
          done,      \* ctx is cancelled
          loop,      \* the goroutine of readLoop
          telling,   \* socket -> the goroutine that dialled it, resubscribing
          heard,     \* topics the server of each socket was told of
          panicked   \* a send on a closed channel: the process is gone

wsVars == <<conn, live, dialled, wsubs, chanOf, closedCh, queue, done, loop,
            telling, heard, panicked>>

Idle == [at |-> "off"]

WSInit ==
    /\ conn = NoSock /\ live = {} /\ dialled = 0
    /\ wsubs = [t \in Topics |-> NoChan]
    /\ chanOf = 0 /\ closedCh = {} /\ queue = [c \in Chans |-> 0]
    /\ done = FALSE
    /\ loop = Idle /\ telling = [s \in Sockets |-> Idle]
    /\ heard = [s \in Sockets |-> {}]
    /\ panicked = FALSE

Subscribed == {t \in Topics : wsubs[t] # NoChan}

\* Dialling makes a new socket the connection; the old one is not closed.
Dial ==
    /\ dialled + 1 \in Sockets
    /\ dialled' = dialled + 1
    /\ conn' = dialled + 1
    /\ live' = live \cup {dialled + 1}

\* Connect, called once by the application.
Connect ==
    /\ dialled = 0
    /\ Dial
    /\ loop' = [at |-> "read"]
    /\ UNCHANGED <<wsubs, chanOf, closedCh, queue, done, heard, telling, panicked>>

\* The subscription is told to the server of the current socket.  A write to a
\* dropped socket fails and takes the entry back, or is buffered and lost.
SubscribeTopic(t) ==
    /\ conn # NoSock
    /\ chanOf + 1 \in Chans
    /\ chanOf' = chanOf + 1
    /\ IF conn \in live
         THEN /\ wsubs' = [wsubs EXCEPT ![t] = chanOf + 1]
              /\ heard' = [heard EXCEPT ![conn] = @ \cup {t}]
         ELSE /\ \E c \in {NoChan, chanOf + 1} :
                      wsubs' = [wsubs EXCEPT ![t] = c]
              /\ UNCHANGED heard
    /\ UNCHANGED <<telling, conn, live, dialled, closedCh, queue, done, loop, panicked>>

UnsubscribeTopic(t) ==
    /\ t \in Subscribed
    /\ closedCh' = closedCh \cup {wsubs[t]}
    /\ wsubs' = [wsubs EXCEPT ![t] = NoChan]
    /\ heard' = IF conn \in live THEN [heard EXCEPT ![conn] = @ \ {t}]
                                 ELSE heard
    /\ UNCHANGED <<telling, conn, live, dialled, chanOf, queue, done, loop, panicked>>

\* Close cancels the context, then (under the lock) closes every channel and
\* the connection it finds.
Cancel ==
    /\ ~done
    /\ done' = TRUE
    /\ UNCHANGED <<telling, conn, live, dialled, wsubs, chanOf, closedCh, queue, loop,
                   heard, panicked>>

Close ==
    /\ done
    /\ Subscribed # {} \/ conn \in live
    /\ closedCh' = closedCh \cup {wsubs[t] : t \in Subscribed}
    /\ wsubs' = [t \in Topics |-> NoChan]
    /\ live' = live \ {conn}
    /\ UNCHANGED <<telling, conn, dialled, chanOf, queue, done, loop, heard, panicked>>

\* The network or the server drops the connection.
Drop ==
    /\ conn \in live
    /\ live' = live \ {conn}
    /\ UNCHANGED <<telling, conn, dialled, wsubs, chanOf, closedCh, queue, done, loop,
                   heard, panicked>>

(***************************************************************************)
(* readLoop.  The select looks at the context between two reads only.      *)
(***************************************************************************)
LoopEnds ==
    /\ loop.at = "read"
    /\ done
    /\ loop' = Idle
    /\ UNCHANGED <<telling, conn, live, dialled, wsubs, chanOf, closedCh, queue, done,
                   heard, panicked>>

\* One frame: with a single message it is looked up in subs under the lock;
\* with more the JSON does not parse and the frame is skipped.
ReadFrame(frame) ==
    /\ loop.at = "read"
    /\ conn \in live
    /\ \A i \in 1..Len(frame) : frame[i] \in heard[conn]
    /\ loop' = IF Len(frame) = 1 /\ frame[1] \in Subscribed
                 THEN [at |-> "dispatch", ch |-> wsubs[frame[1]]]
                 ELSE loop
    /\ UNCHANGED <<telling, conn, live, dialled, wsubs, chanOf, closedCh, queue, done,
                   heard, panicked>>

\* The send happens after the lock is given back.
Dispatch ==
    /\ loop.at = "dispatch"
    /\ IF loop.ch \in closedCh
         THEN panicked' = TRUE /\ UNCHANGED queue
         ELSE /\ queue' = [queue EXCEPT ![loop.ch] =
                              IF @ < ChanCap THEN @ + 1 ELSE @]
              /\ UNCHANGED panicked
    /\ loop' = [at |-> "read"]
    /\ UNCHANGED <<telling, conn, live, dialled, wsubs, chanOf, closedCh, done, heard>>

ReadError ==
    /\ loop.at = "read"
    /\ conn \notin live
    /\ loop' = [at |-> "retry", i |-> 0]
    /\ UNCHANGED <<telling, conn, live, dialled, wsubs, chanOf, closedCh, queue, done,
                   heard, panicked>>

(***************************************************************************)
(* reconnectLoop: wait, dial, collect the events under the lock and tell   *)
(* the server behind ws.conn.  Connect starts a new reader, so the         *)
(* goroutine that resubscribes runs beside it and then ends.               *)
(***************************************************************************)
Redial ==
    /\ loop.at = "retry"
    /\ \/ done /\ loop' = Idle
       \/ /\ loop.i < MaxRetries
          /\ loop' = [at |-> "dial", i |-> loop.i]
       \/ loop.i >= MaxRetries /\ loop' = Idle
    /\ UNCHANGED <<conn, live, dialled, wsubs, chanOf, closedCh, queue, done,
                   telling, heard, panicked>>

DialFails ==
    /\ loop.at = "dial"
    /\ loop' = [at |-> "retry", i |-> loop.i + 1]
    /\ UNCHANGED <<conn, live, dialled, wsubs, chanOf, closedCh, queue, done,
                   telling, heard, panicked>>

Reconnect ==
    /\ loop.at = "dial"
    /\ Dial
    /\ loop' = [at |-> "read"]
    /\ telling' = [telling EXCEPT ![dialled + 1] = [at |-> "collect"]]
    /\ UNCHANGED <<wsubs, chanOf, closedCh, queue, done, heard, panicked>>

Collect(s) ==
    /\ telling[s].at = "collect"
    /\ telling' = [telling EXCEPT ![s] = [at |-> "tell", events |-> Subscribed]]
    /\ UNCHANGED <<conn, live, dialled, wsubs, chanOf, closedCh, queue, done,
                   loop, heard, panicked>>

\* A slip of reconnectLoop: the subscriptions are told to the socket it dialled
\* first instead of the current one.
ResubscribeFirst(s) ==
    /\ telling[s].at = "tell"
    /\ heard' = [heard EXCEPT ![1] = @ \cup telling[s].events]
    /\ telling' = [telling EXCEPT ![s] = Idle]
    /\ UNCHANGED <<conn, live, dialled, wsubs, chanOf, closedCh, queue, done,
                   loop, panicked>>

Resubscribe(s) ==
    /\ telling[s].at = "tell"
    /\ heard' = IF conn \in live
                  THEN [heard EXCEPT ![conn] = @ \cup telling[s].events]
                  ELSE heard
    /\ telling' = [telling EXCEPT ![s] = Idle]
    /\ UNCHANGED <<conn, live, dialled, wsubs, chanOf, closedCh, queue, done,
                   loop, panicked>>

\* The application takes a message off a channel.
TakeMessage(c) ==
    /\ queue[c] > 0
    /\ queue' = [queue EXCEPT ![c] = @ - 1]
    /\ UNCHANGED <<telling, conn, live, dialled, wsubs, chanOf, closedCh, done, loop,
                   heard, panicked>>

WSNext ==
    /\ ~panicked
    /\ \/ Connect \/ Cancel \/ Close \/ Drop
       \/ \E t \in Topics : SubscribeTopic(t) \/ UnsubscribeTopic(t)
       \/ LoopEnds \/ Dispatch \/ ReadError
       \/ \E t, u \in Topics : ReadFrame(<<t>>) \/ ReadFrame(<<t, u>>)
       \/ Redial \/ DialFails \/ Reconnect
       \/ \E s \in Sockets : Collect(s) \/ Resubscribe(s)
       \/ \E c \in Chans : TakeMessage(c)

----------------------------------------------------------------------------

\* Once no goroutine is resubscribing, the server behind a live connection has
\* been told of every subscription the client still holds: a reconnect, even one
\* that overlaps another or a call of Subscribe, loses none.
ReconnectRestoresSubscriptions ==
    (conn \in live /\ \A s \in Sockets : telling[s] = Idle)
        => Subscribed \subseteq heard[conn]
=============================================================================
