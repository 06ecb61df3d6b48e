------------------------- MODULE MCBlockProduction -------------------------
(***************************************************************************)
(* An instance of BlockProduction with transactions of every kind.  Fees,  *)
(* amounts and nonces are chosen so that every error of BuildBlock is      *)
(* reached: sender 1 mixes transfers and contract calls, sender 2          *)
(* registers the same key twice or calls a contract that does not exist.   *)
(***************************************************************************)
EXTENDS BlockProduction

NoKey == "no key"

Tx(sender, nonce, kind, fee, to, amount, key) ==
    [sender |-> sender, nonce |-> nonce, kind |-> kind, fee |-> fee,
     to |-> to, amount |-> amount, key |-> key]

\* Every kind of transaction; two of them compete for a nonce.
MixedTxs ==
    {Tx(1, 1, "standard", 2, 2, 1, NoKey),
     Tx(1, 2, "contract", 1, 1, 1, NoKey),
     Tx(1, 2, "standard", 1, 1, 2, NoKey),
     Tx(2, 1, "registration", 1, 2, 2, "k"),
     Tx(2, 1, "failing", 2, 2, 0, NoKey),
     Tx(2, 2, "registration", 1, 2, 1, "k")}

FairSpec == Spec /\ Fairness

\* A block is completed again and again, although one transaction that cannot
\* be executed makes every BuildBlock fail: it expires in the end
\* (Mempool.expire; the clients have finitely many transactions to submit).
BlocksKeepComing == []<>(phase = "clean")
=============================================================================
