----------------------------- MODULE Contracts -----------------------------
(***************************************************************************)
(* Contract execution on the node's one in-memory state: the virtual       *)
(* machine (vm/vm.go, vm/host.go, vm/gas.go, vm/events.go), the snapshots  *)
(* of state/memory.go it rolls back with, and dsn_callContract of          *)
(* rpc/service/node_service.go, which runs on that same state from the     *)
(* goroutine of an HTTP request while the node's goroutine executes        *)
(* blocks.  A step is one locked operation of the state or one call into   *)
(* the runtime.  A contract is whatever sequence of host calls it likes.   *)
(***************************************************************************)
EXTENDS Naturals, Sequences, FiniteSets

CONSTANTS Callers,       \* goroutines serving dsn_callContract
          Ids,           \* contract identifiers
          Slots,         \* storage keys of a contract
          Limits,        \* gas limits of transactions and calls
          CallLimit,     \* the 1,000,000 gas dsn_callContract refuses to exceed
          DeployGas,     \* GasDeployBase and the bytes of the code
          HostGas,       \* cost of a host call that only reads
          WriteGas,      \* GasWriteStorage and the bytes of the value
          MaxExecutions  \* bound: executions begun in a behaviour

ASSUME GasAssumption == /\ CallLimit \in Nat /\ Limits \subseteq Nat
                        /\ {DeployGas, HostGas, WriteGas} \subseteq Nat

VARIABLES kv,         \* contracts deployed and their storage: the live state
          snapshots,  \* InMemoryState.snapshots
          env,        \* goroutine whose host module "env" the runtime holds
          ex,         \* what each goroutine is executing
          begun,      \* executions begun
          expected,   \* history: kv as the block's execution alone makes it
          overlapped  \* history: two executions were in progress at once

cvars == <<kv, snapshots, env, ex, begun, expected, overlapped>>

Block == "block"
Threads == Callers \cup {Block}
Nobody == "nobody"

Resting == [at |-> "idle", kind |-> "none", id |-> 0, rpc |-> 0, of |-> Nobody,
            limit |-> 0, used |-> 0, inner |-> 0, events |-> 0, base |-> {}]

(* Contract code, metadata and storage of InMemoryState.                   *)
Empty == [deployed |-> {}, storage |-> [i \in Ids |-> {}]]

ContractsInit ==
  /\ kv = Empty /\ expected = Empty
  /\ snapshots = << >> /\ env = Nobody
  /\ ex = [t \in Threads |-> Resting]
  /\ begun = 0 /\ overlapped = FALSE

Busy(t) == ex[t].at # "idle"
Step(t, at) == ex' = [ex EXCEPT ![t].at = at]

(* InMemoryState.Snapshot: a deep copy is pushed, its position is the id.  *)
Pushed == Append(snapshots, kv)

(* InMemoryState.RevertToSnapshot: the copy comes back and it and the ones *)
(* above it are dropped; an id that is no longer there changes nothing.    *)
Revert(id) ==
  IF id \in 1 .. Len(snapshots)
    THEN kv' = snapshots[id] /\ snapshots' = SubSeq(snapshots, 1, id - 1)
    ELSE UNCHANGED <<kv, snapshots>>

(* The block builder or validator reaches a contract transaction.          *)
BlockBegins(kind, c, limit) ==
  /\ ~Busy(Block) /\ begun < MaxExecutions
  /\ ex' = [ex EXCEPT ![Block] = [Resting EXCEPT !.at = "enter", !.kind = kind,
              !.of = c, !.limit = limit, !.base = expected]]
  /\ begun' = begun + 1
  /\ overlapped' = (overlapped \/ \E t \in Callers : Busy(t))
  /\ UNCHANGED <<kv, snapshots, env, expected>>

(* nodeService.CallContract: a limit of zero means the default, one above  *)
(* it is refused; then a snapshot of the live state is taken.              *)
CallContract(t, c, limit) ==
  LET gas == IF limit = 0 THEN CallLimit ELSE limit
  IN  /\ ~Busy(t) /\ begun < MaxExecutions
      /\ gas <= CallLimit
      /\ snapshots' = Pushed
      /\ ex' = [ex EXCEPT ![t] = [Resting EXCEPT !.at = "enter", !.kind = "call",
                  !.of = c, !.limit = gas, !.rpc = Len(snapshots) + 1]]
      /\ begun' = begun + 1
      /\ overlapped' = (overlapped \/ \E u \in Threads \ {t} : Busy(u))
      /\ UNCHANGED <<kv, env, expected>>

(* The call data is not hexadecimal: the snapshot is rolled back at once.  *)
CallDataInvalid(t) ==
  /\ t \in Callers /\ ex[t].at = "enter"
  /\ Revert(ex[t].rpc)
  /\ ex' = [ex EXCEPT ![t] = Resting]
  /\ UNCHANGED <<env, begun, expected, overlapped>>

(* VM.Execute: its own snapshot and a fresh gas meter.                     *)
Execute(t) ==
  /\ ex[t].at = "enter"
  /\ snapshots' = Pushed
  /\ ex' = [ex EXCEPT ![t].at = "load", ![t].id = Len(snapshots) + 1]
  /\ UNCHANGED <<kv, env, begun, expected, overlapped>>

Failed(t) == Step(t, "failed") /\ UNCHANGED <<kv, env, expected>>

(* VM.executeDeploy: the code does not compile or the contract exists; the *)
(* deployment gas is above the limit; else code and metadata are stored.   *)
executeDeploy(t) ==
  LET e == ex[t]  c == e.of
      after == [kv EXCEPT !.deployed = @ \cup {c}]
  IN  /\ e.at = "load" /\ e.kind = "deploy"
      /\ \/ Failed(t)
         \/ /\ c \notin kv.deployed /\ DeployGas <= e.limit
            /\ kv' = after
            /\ expected' = [expected EXCEPT !.deployed = @ \cup {c}]
            /\ \E at \in {"done", "construct"} :
                 ex' = [ex EXCEPT ![t].at = at, ![t].used = DeployGas]
            /\ UNCHANGED env
      /\ UNCHANGED <<snapshots, begun, overlapped>>

(* The constructor runs on a meter of its own that starts from what the    *)
(* deployment left; like every run it needs the module name "env".         *)
Construct(t) ==
  /\ ex[t].at = "construct"
  /\ \/ Failed(t)
     \/ /\ env = Nobody /\ env' = t
        /\ ex' = [ex EXCEPT ![t].at = "run",
                            ![t].inner = ex[t].limit - ex[t].used, ![t].used = 0]
        /\ UNCHANGED <<kv, expected>>
  /\ UNCHANGED <<snapshots, begun, overlapped>>

(* VM.executeCall: the contract is not found, does not compile, imports    *)
(* what it may not, or lacks the entrypoint; while another execution holds *)
(* "env" the host module cannot be built.                                  *)
executeCall(t) ==
  LET e == ex[t]
  IN  /\ e.at = "load" /\ e.kind = "call"
      /\ \/ Failed(t)
         \/ /\ e.of \in kv.deployed
            /\ env = Nobody /\ env' = t
            /\ ex' = [ex EXCEPT ![t].at = "run", ![t].inner = e.limit]
            /\ UNCHANGED <<kv, expected>>
      /\ UNCHANGED <<snapshots, begun, overlapped>>

(* GasMeter.Deduct: a cost that does not fit is not charged and the host   *)
(* function returns an error code to the contract, which goes on.          *)
Deduct(t, cost) ==
  /\ ex[t].at = "run" /\ ex[t].used + cost <= ex[t].inner
  /\ UNCHANGED <<snapshots, env, begun, overlapped>>

(* write_storage.                                                          *)
WriteStorage(t, k) ==
  LET c == ex[t].of
  IN  /\ Deduct(t, WriteGas)
      /\ kv' = [kv EXCEPT !.storage[c] = @ \cup {k}]
      /\ expected' = IF t = Block THEN [expected EXCEPT !.storage[c] = @ \cup {k}]
                     ELSE expected
      /\ ex' = [ex EXCEPT ![t].used = @ + WriteGas]

(* emit_event: the event goes to the execution's log.                      *)
EmitEvent(t) ==
  /\ Deduct(t, HostGas) /\ ex[t].events = 0
  /\ ex' = [ex EXCEPT ![t].used = @ + HostGas, ![t].events = 1]
  /\ UNCHANGED <<kv, expected>>

(* read_storage, read_caller, read_block_height, read_block_timestamp and  *)
(* transfer_token, which moves nothing yet: gas and no other effect.       *)
HostRead(t) ==
  /\ Deduct(t, HostGas)
  /\ ex' = [ex EXCEPT ![t].used = @ + HostGas]
  /\ UNCHANGED <<kv, expected>>

(* The entrypoint or constructor returns.  A trap with the gas used up and *)
(* a non-zero result are reverts, any other trap is an error; a deployment *)
(* adds the constructor's gas to its own.                                  *)
Return(t, at) ==
  LET e == ex[t]
      total == IF e.kind = "deploy" THEN e.used + (e.limit - e.inner) ELSE e.used
  IN  /\ e.at = "run" /\ env = t /\ env' = Nobody
      /\ at = "reverted" => e.kind = "call"
      /\ (at = "failed" /\ e.kind = "call") => e.used < e.limit
      /\ ex' = [ex EXCEPT ![t].at = at, ![t].used = total,
                          ![t].events = IF at = "done" /\ e.kind = "call" THEN @ ELSE 0]
      /\ UNCHANGED <<kv, snapshots, begun, expected, overlapped>>

(* The end of VM.Execute: an error or a revert rolls back, success keeps   *)
(* the snapshot on the stack.  The caller then decides what follows.       *)
ExecuteEnds(t) ==
  LET e == ex[t]
  IN  /\ e.at \in {"failed", "reverted", "done"}
      /\ IF e.at = "done" THEN UNCHANGED <<kv, snapshots>> ELSE Revert(e.id)
      /\ IF t = Block
           THEN /\ expected' = IF e.at = "done" THEN expected ELSE e.base
                /\ ex' = [ex EXCEPT ![t] = Resting]
           ELSE Step(t, "undo") /\ UNCHANGED expected
      /\ UNCHANGED <<env, begun, overlapped>>

(* CallContract always rolls back, whatever the execution returned.        *)
CallEndsKept(t) ==
  /\ ex[t].at = "undo"
  /\ ex' = [ex EXCEPT ![t] = Resting]
  /\ UNCHANGED <<kv, snapshots, env, begun, expected, overlapped>>

CallEnds(t) ==
  /\ ex[t].at = "undo"
  /\ Revert(ex[t].rpc)
  /\ ex' = [ex EXCEPT ![t] = Resting]
  /\ UNCHANGED <<env, begun, expected, overlapped>>

ContractsNext ==
  \/ \E c \in Ids, limit \in Limits :
       \/ \E kind \in {"deploy", "call"} : BlockBegins(kind, c, limit)
       \/ \E t \in Callers : CallContract(t, c, limit)
  \/ \E t \in Threads :
       \/ CallDataInvalid(t) \/ Execute(t)
       \/ executeDeploy(t) \/ Construct(t) \/ executeCall(t)
       \/ \E k \in Slots : WriteStorage(t, k)
       \/ EmitEvent(t) \/ HostRead(t)
       \/ \E at \in {"failed", "reverted", "done"} : Return(t, at)
       \/ ExecuteEnds(t) \/ CallEnds(t)

(* As long as no two executions were in progress at once, the state        *)
(* between executions is what the successful transactions of blocks made   *)
(* it: a failed or reverted execution and a call over RPC leave nothing    *)
(* behind, although every success leaves its snapshot on the stack.        *)
OnlyBlocksWrite ==
  (~overlapped /\ \A t \in Threads : ~Busy(t)) => kv = expected
=============================================================================
