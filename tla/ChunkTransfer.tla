--------------------------- MODULE ChunkTransfer ----------------------------
(***************************************************************************)
(* A snapshot in chunks: ChunkSnapshot cuts the serialized snapshot, the   *)
(* receiver takes chunks in any order, repeated, mixed up with those of    *)
(* another snapshot or damaged on the way, and ReassembleSnapshot puts     *)
(* them together; ChunkScheduler says which chunk to ask which peer for.   *)
(*                                                                         *)
(* Data is a sequence of blocks of bytes and a hash is the data it was     *)
(* taken of under a tag: two hashes agree when the data does.  When the    *)
(* last chunk is in, HandleSnapshotChunk calls advanceToVerifying with the *)
(* engine's lock held, which takes it again; the engine stays there, and   *)
(* what the verification would find is stated about the chunks it has.     *)
(***************************************************************************)
EXTENDS Naturals, Sequences, FiniteSets, SequencesExt

CONSTANTS
    Files,       \* serialized snapshots that peers serve
    ChunkSize,
    Selected,    \* the one selectBestSnapshot chose
    Holders,     \* peers that have chunks
    MaxTasks     \* bound: calls of NextTask

ASSUME TransferAssumption ==
    /\ Files \subseteq Seq(Nat) \ {<<>>} /\ Selected \in Files
    /\ ChunkSize \in Nat \ {0} /\ MaxTasks \in Nat

VARIABLES
    chunks,      \* FastSyncEngine.collectedChunks, by index
    received,    \* ChunkScheduler.received, the indices that are TRUE
    peerChunks,  \* ChunkScheduler.peerChunks
    peerIndex,   \* ChunkScheduler.peerIndex
    task,        \* the answer of the last NextTask
    calls,       \* how often NextTask was called
    lockedUp      \* whether the engine waits for its own lock

transferVars == <<chunks, received, peerChunks, peerIndex, task, calls, lockedUp>>

SnapshotHash(data) == <<"hash", data>>
Count(data) == (Len(data) + ChunkSize - 1) \div ChunkSize

\* ChunkSnapshot: the last chunk has what remains.
ChunkSnapshot(data) ==
    {[index |-> i, total |-> Count(data), snapshotHash |-> SnapshotHash(data),
      chunkHash |-> SnapshotHash(part), data |-> part] :
        <<i, part>> \in {<<i, SubSeq(data, i * ChunkSize + 1,
                                     Min({(i + 1) * ChunkSize, Len(data)}))>> :
                            i \in 0 .. Count(data) - 1}}

VerifyChunk(c) == c.chunkHash = SnapshotHash(c.data)

\* Mutant of ReassembleSnapshot: the hash of the whole is not compared.
ReassembleUnchecked(S) ==
    LET sorted == SetToSortSeq(S, LAMBDA c, d : c.index < d.index)
        data == FlattenSeq([i \in DOMAIN sorted |-> sorted[i].data])
    IN  IF /\ S # {} /\ Len(sorted) = sorted[1].total
           /\ \A i \in DOMAIN sorted : VerifyChunk(sorted[i])
        THEN data ELSE <<>>

\* ReassembleSnapshot; <<>> is an error.
ReassembleSnapshot(S) ==
    LET sorted == SetToSortSeq(S, LAMBDA c, d : c.index < d.index)
        data == FlattenSeq([i \in DOMAIN sorted |-> sorted[i].data])
    IN  IF /\ S # {} /\ Len(sorted) = sorted[1].total
           /\ \A i \in DOMAIN sorted :
                 /\ sorted[i].index = i - 1 /\ VerifyChunk(sorted[i])
                 /\ sorted[i].snapshotHash = sorted[1].snapshotHash
           /\ SnapshotHash(data) = sorted[1].snapshotHash
        THEN data ELSE <<>>

Indices == 0 .. Count(Selected) - 1
NoTask == <<>>

TransferInit ==
    /\ chunks = {} /\ received = {}
    /\ peerChunks = [p \in Holders |-> <<>>] /\ peerIndex = [p \in Holders |-> 0]
    /\ task = NoTask /\ calls = 0 /\ lockedUp = FALSE

\* What can arrive: chunks as they were cut, with other data, and with other
\* data and its hash.
Arriving ==
    LET cut == UNION {ChunkSnapshot(f) : f \in Files}
    IN  {c \in cut \cup
               {[c EXCEPT !.data = d.data] : c \in cut, d \in cut} \cup
               {[c EXCEPT !.data = d.data, !.chunkHash = d.chunkHash] : c \in cut, d \in cut} :
            c.index \in Indices}

\* HandleSnapshotChunk and MarkReceived while downloading.
HandleSnapshotChunk(c) ==
    /\ ~ lockedUp /\ c.index \notin received /\ VerifyChunk(c)
    /\ received' = received \cup {c.index}
    /\ chunks' = chunks \cup {c}
    /\ lockedUp' = (received' = Indices)
    /\ UNCHANGED <<peerChunks, peerIndex, task, calls>>

AssignPeer(p, list) ==
    /\ peerChunks[p] = <<>>  \* a bound: the list may be extended at any time
    /\ peerChunks' = [peerChunks EXCEPT ![p] = @ \o list]
    /\ peerIndex' = [peerIndex EXCEPT ![p] = 0]
    /\ UNCHANGED <<chunks, received, task, calls, lockedUp>>

Missing == Indices \ received
Offered(p) == (peerIndex[p] % Len(peerChunks[p])) + 1

\* Mutant of Struck: the chunk before the one that was offered goes.
StruckBefore(p) ==
    IF Offered(p) = 1 THEN RemoveAt(peerChunks[p], Len(peerChunks[p]))
    ELSE RemoveAt(peerChunks[p], Offered(p) - 1)

\* The list of a peer without the chunk that was offered.
Struck(p) == RemoveAt(peerChunks[p], Offered(p))

\* NextTask goes through the peers with chunks, in any order: a peer's next
\* chunk is the task when it is missing, and struck from its list otherwise.
\* When that gives no task it is the first missing chunk, for the first peer.
NextTask ==
    /\ calls < MaxTasks /\ calls' = calls + 1
    /\ \E peers \in SetToSeqs({p \in Holders : peerChunks[p] # <<>>}) :
          LET wanted == {k \in DOMAIN peers :
                           peerChunks[peers[k]][Offered(peers[k])] \in Missing}
              k == IF wanted = {} THEN Len(peers) + 1 ELSE Min(wanted)
              struck == {peers[i] : i \in 1 .. (k - 1)}
              looked == {peers[i] : i \in DOMAIN peers \cap (1 .. k)}
          IN  /\ peerChunks' = [p \in Holders |-> IF p \in struck THEN Struck(p)
                                                  ELSE peerChunks[p]]
              /\ peerIndex' = [p \in Holders |-> IF p \in looked THEN peerIndex[p] + 1
                                                 ELSE peerIndex[p]]
              /\ task' = IF wanted # {}
                         THEN <<peers[k], peerChunks[peers[k]][Offered(peers[k])]>>
                         ELSE IF peers # <<>> /\ Missing # {}
                         THEN <<peers[1], Min(Missing)>> ELSE NoTask
    /\ UNCHANGED <<chunks, received, lockedUp>>

TransferNext ==
    \/ NextTask
    \/ \E c \in Arriving : HandleSnapshotChunk(c)
    \/ \E p \in Holders, S \in SUBSET Indices :
          AssignPeer(p, SetToSortSeq(S, LAMBDA i, j : i < j))
-----------------------------------------------------------------------------

\* Whatever arrived and in whatever order: the reassembled data is, whole, one
\* of the snapshots that were cut, the one its chunks name, although a damaged
\* chunk can carry the hash of its data; and it is the selected one when the
\* chunks are those of it (ChunkSnapshot, VerifyChunk and ReassembleSnapshot).
ReassembledIsWhole ==
    LET data == ReassembleSnapshot(chunks)
    IN  /\ data # <<>> =>
              data \in Files /\ \A c \in chunks : c.snapshotHash = SnapshotHash(data)
        /\ chunks = ChunkSnapshot(Selected) => data = Selected

\* A missing chunk that was assigned to a peer stays in that peer's list, so
\* NextTask, if it is asked often enough, does not run out of tasks before
\* the download is complete; and a task is for a chunk that was missing
\* (NextTask, which strikes from the list while it goes round it).
NothingForgotten ==
    [][/\ \A p \in Holders : \A i \in Missing :
             i \in Range(peerChunks[p]) => i \in Range(peerChunks'[p])
       /\ calls' > calls => \/ task' # NoTask /\ task'[2] \in Missing
                            \/ \A p \in Holders : peerChunks[p] = <<>>
                            \/ Missing = {}]_transferVars
=============================================================================
