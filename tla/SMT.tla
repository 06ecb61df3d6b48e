-------------------------------- MODULE SMT ---------------------------------
(***************************************************************************)
(* The state tree (state/smt.go) as Commit and RestoreFromSnapshot use it: *)
(* built from nothing, entries in key order.  A hash is the term it is of. *)
(* Accounts and entries of the kvstore differ in their keys only.          *)
(***************************************************************************)
EXTENDS Integers, Sequences

CONSTANTS
    Keys,     \* 1 .. n, in the order of the sort
    Depth,    \* smtDepth
    PathOf    \* the hash of a key: a sequence of Depth bits

ASSUME SMTAssumption ==
    /\ Depth \in Nat \ {0}
    /\ PathOf \in [Keys -> [1 .. Depth -> {0, 1}]]
    /\ \A j, k \in Keys : PathOf[j] = PathOf[k] => j = k
    \* the hash of no key is zero
    /\ \A k \in Keys : \E i \in 1 .. Depth : PathOf[k][i] = 1

EmptyHash == <<>>

\* Mutant of leafHash: the value is left out.
LeafHashOfPath(path, value) == <<0, path, 0>>

leafHash(path, value) == <<0, path, value>>
internalHash(left, right) == <<1, left, right>>

\* A map after an assignment.
Assign(f, k, v) == [x \in DOMAIN f \cup {k} |-> IF x = k THEN v ELSE f[x]]

bitAt(path, depth) == path[depth + 1]
clearBitsFrom(path, depth) ==
    [i \in 1 .. Depth |-> IF i <= depth THEN path[i] ELSE 0]

getNode(nodes, path, depth) ==
    LET prefix == clearBitsFrom(path, depth)
    IN  IF prefix \in DOMAIN nodes THEN nodes[prefix] ELSE EmptyHash

\* The bit that is flipped is one of those getNode clears.
siblingAt(nodes, path, depth) ==
    getNode(nodes, [path EXCEPT ![depth + 1] = 1 - @], depth)

\* The nodes and the hash at a depth, from the leaf up.
recomputeUp(nodes, path) ==
    LET Up[depth \in 0 .. Depth] ==
            IF depth = Depth
            THEN [nodes |-> nodes, hash |-> getNode(nodes, path, Depth)]
            ELSE LET below == Up[depth + 1]
                     sib   == siblingAt(below.nodes, path, depth)
                     ih    == IF bitAt(path, depth) = 0
                              THEN internalHash(below.hash, sib)
                              ELSE internalHash(sib, below.hash)
                 IN  [nodes |-> Assign(below.nodes, clearBitsFrom(path, depth), ih),
                      hash |-> ih]
    IN  Up[0]

Insert(tree, k, v) ==
    LET path == PathOf[k]
    IN  recomputeUp(Assign(tree.nodes, path, leafHash(path, v)), path)

\* The root of the contents kv.
Root(kv) ==
    LET Built[k \in 0 .. Len(kv)] ==
            IF k = 0 THEN [nodes |-> <<>>, hash |-> EmptyHash]
            ELSE IF kv[k] = 0 THEN Built[k - 1]
            ELSE Insert(Built[k - 1], k, kv[k])
    IN  Built[Len(kv)].hash
=============================================================================
