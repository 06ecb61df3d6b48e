---------------------------- MODULE StakeEscrow -----------------------------
(***************************************************************************)
(* What the stake ledger promises: tokens move from the wallets into the   *)
(* escrow of one owner, out of it into the fire by slashing, and back to   *)
(* the wallets only as the whole escrow, once, which closes it.            *)
(***************************************************************************)
EXTENDS Integers, FiniteSets, Totals

CONSTANTS
    Owners,     \* the owners of escrows
    Supply      \* all tokens there are

VARIABLES
    wallet,     \* tokens outside escrow
    escrow,     \* tokens held for each owner
    closed,     \* owners that were paid out
    burned      \* tokens destroyed

vars == <<wallet, escrow, closed, burned>>

Init ==
    /\ wallet = Supply
    /\ escrow = [i \in Owners |-> 0]
    /\ closed = {}
    /\ burned = 0

Lock(i, n) ==
    /\ i \notin closed
    /\ wallet' = wallet - n
    /\ escrow' = [escrow EXCEPT ![i] = @ + n]
    /\ UNCHANGED <<closed, burned>>

Burn(i, n) ==
    /\ escrow' = [escrow EXCEPT ![i] = @ - n]
    /\ burned' = burned + n
    /\ UNCHANGED <<wallet, closed>>

PayOut(P) ==
    /\ P \cap closed = {}
    /\ wallet' = wallet + Total(escrow, P)
    /\ escrow' = [i \in Owners |-> IF i \in P THEN 0 ELSE escrow[i]]
    /\ closed' = closed \cup P
    /\ UNCHANGED burned

Next ==
    \/ \E i \in Owners, n \in 0 .. wallet : Lock(i, n)
    \/ \E i \in Owners : \E n \in 0 .. escrow[i] : Burn(i, n)
    \/ \E P \in SUBSET Owners : PayOut(P)

Spec == Init /\ [][Next]_vars
=============================================================================
