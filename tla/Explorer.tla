------------------------------ MODULE Explorer ------------------------------
(***************************************************************************)
(* Reading the explorer's lists page by page (explorer/handlers.go,        *)
(* sdk/pagination.go) while the indexer goes on: the blocks are listed     *)
(* newest first, the events in the order of their index keys, and both     *)
(* lists grow between two pages.  A single block, transaction, account or  *)
(* contract is looked up beside them.  The indexer is enabled; without it  *)
(* the lists and lookups answer "indexer not available".                   *)
(***************************************************************************)
EXTENDS Naturals, FiniteSets

CONSTANTS MaxListed,     \* bound on the heights indexed
          EventKeys,     \* the keys events may be indexed under, naturals
          DefaultLimit,  \* page size when none is given
          MaxLimit       \* cap on the page size

ASSUME ExplorerAssumption ==
    /\ MaxListed \in Nat /\ EventKeys \subseteq Nat
    /\ DefaultLimit \in 1..MaxLimit /\ MaxLimit \in Nat

VARIABLES listed,  \* heights with an indexed block
          latest,  \* idx.GetLatestHeight
          logged,  \* event keys indexed
          walk,    \* a reader going through one of the lists
          page     \* a single thing being looked up

expVars == <<listed, latest, logged, walk, page>>

AtRest == [list |-> "none", offset |-> 0, limit |-> 0, seen |-> {}, due |-> {}]

NoPage == [kind |-> "none", id |-> 0, status |-> 0, txs |-> {}]

ExplorerInit ==
    listed = {} /\ latest = 0 /\ logged = {} /\ walk = AtRest /\ page = NoPage

(* Blocks are indexed at increasing heights; those the node proposed       *)
(* itself are left out.                                                    *)
Index(h, keys) ==
    /\ h > latest
    /\ listed' = listed \cup {h} /\ latest' = h
    /\ logged' = logged \cup keys
    /\ UNCHANGED <<walk, page>>

(* Pagination.Normalize, and parsePagination's cap on the server's side.   *)
Normalize(limit) ==
    IF limit = 0 THEN DefaultLimit ELSE IF limit > MaxLimit THEN MaxLimit ELSE limit

BlocksFrom(offset) == IF latest >= offset THEN latest - offset ELSE 0

BlocksPageOpenEnd(offset, limit) ==
    LET start == BlocksFrom(offset)
    IN  {h \in listed : h <= start /\ h > (IF start >= limit THEN start - limit + 1 ELSE 0)}

(* handleBlocks: heights start down to end; below zero the height wraps    *)
(* round to a number that is not below latest + 1.                         *)
BlocksPage(offset, limit) ==
    LET start == BlocksFrom(offset)
        end   == IF start >= limit THEN start - limit + 1 ELSE 0
    IN  {h \in listed : end <= h /\ h <= start}

Rank(k) == Cardinality({j \in logged : j < k})

(* handleEvents: the slice from offset to offset + limit.                  *)
EventsPage(offset, limit) ==
    {k \in logged : offset <= Rank(k) /\ Rank(k) < offset + limit}

Page(w) == IF w.list = "blocks" THEN BlocksPage(w.offset, w.limit)
           ELSE EventsPage(w.offset, w.limit)
Total(list) == IF list = "events" THEN Cardinality(logged)
               ELSE IF latest = 0 THEN 0 ELSE latest + 1

(* A reader starts at offset zero and is owed what is indexed by then.     *)
Open(list, limit) ==
    /\ walk.list = "none"
    /\ walk' = [list |-> list, offset |-> 0, limit |-> Normalize(limit), seen |-> {},
                due |-> IF list = "blocks" THEN listed ELSE logged]
    /\ UNCHANGED <<listed, latest, logged, page>>

(* One page; HasMore of the total it came with decides whether Next        *)
(* follows.  A finished reader keeps what it has seen.                     *)
ReadPage ==
    /\ walk.list \in {"blocks", "events"}
    /\ LET w == [walk EXCEPT !.seen = @ \cup Page(walk)]
       IN  walk' = IF walk.offset + walk.limit < Total(walk.list)
                     THEN [w EXCEPT !.offset = @ + walk.limit]
                     ELSE [w EXCEPT !.list = "done"]
    /\ UNCHANGED <<listed, latest, logged, page>>

(* The transactions of block h: their receipts are indexed with the block, *)
(* in one database transaction.                                            *)
TxsOf(h) == {<<h, i>> : i \in 1..2}
Receipts == UNION {TxsOf(h) : h \in listed}

(* Asking for a page: an identifier that does not parse is refused.        *)
Ask(kind, id) ==
    /\ page.kind = "none"
    /\ page' \in {[kind |-> kind, id |-> id, status |-> status, txs |-> {}] :
                   status \in IF kind = "supply" THEN {0} ELSE {0, 400}}
    /\ UNCHANGED <<listed, latest, logged, walk>>

Answers(p) == page' = p /\ UNCHANGED <<listed, latest, logged, walk>>

(* handleBlockDetail reads the block and its receipts in two database      *)
(* views; between them more blocks may be indexed.                         *)
BlockDetail ==
    /\ page.kind = "block"
    /\ \/ page.status = 0 /\ Answers([page EXCEPT !.status = IF page.id \in listed THEN 1 ELSE 404])
       \/ page.status = 1 /\ Answers([page EXCEPT !.status = 200,
                                        !.txs = {t \in Receipts : t[1] = page.id}])

(* handleTransaction: the receipt of a hash.                               *)
TransactionPage ==
    /\ page.kind = "transaction" /\ page.status = 0
    /\ Answers([page EXCEPT !.status = IF <<page.id, 1>> \in Receipts THEN 200 ELSE 404])

(* handleAccount, handleContract, handleValidators and handleSupply ask    *)
(* the node's service: an account is never missing, a contract may be, and *)
(* the service has no validators to list.                                  *)
ServicePage ==
    /\ page.status = 0
    /\ \/ page.kind \in {"account", "supply"} /\ Answers([page EXCEPT !.status = 200])
       \/ page.kind = "contract" /\ \E st \in {200, 404} : Answers([page EXCEPT !.status = st])
       \/ page.kind = "validators" /\ Answers([page EXCEPT !.status = 500])

ExplorerNext ==
    \/ \E h \in 1..MaxListed, keys \in SUBSET (EventKeys \ logged) : Index(h, keys)
    \/ \E list \in {"blocks", "events"}, limit \in 0..(MaxLimit + 1) : Open(list, limit)
    \/ ReadPage
    \/ \E kind \in {"block", "transaction", "account", "contract", "supply", "validators"},
          id \in 1..MaxListed : Ask(kind, id)
    \/ BlockDetail \/ TransactionPage \/ ServicePage

(* Everything that was indexed when a reader started has been on one of    *)
(* its pages when it is done, however much was indexed between two pages:  *)
(* growth moves entries to later pages, never to one already read.         *)
PagesMissNothing == walk.list = "done" => walk.due \subseteq walk.seen
=============================================================================
