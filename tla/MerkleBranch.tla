---------------------------- MODULE MerkleBranch ----------------------------
(***************************************************************************)
(* The Merkle branch that sdk/src/utils.ts builds for a transaction of a   *)
(* block, and the check of that branch on the contract side.  A hash is    *)
(* symbolic: hash256 of a pair is the pair, and the hash of a transaction  *)
(* is the one-element tuple of its serialisation.                          *)
(***************************************************************************)
EXTENDS Integers, Sequences, SequencesExt

(* The serialisation that identifies a transaction: its version, inputs,   *)
(* outputs and lock time, never its witness.                               *)
encodeRawInput(tx) ==
    <<Len(tx.ins)>> \o
    FlattenSeq([i \in DOMAIN tx.ins |->
        <<tx.ins[i].hash, tx.ins[i].index, tx.ins[i].script, tx.ins[i].sequence>>])

encodeRawOutput(tx) ==
    <<Len(tx.outs)>> \o
    FlattenSeq([i \in DOMAIN tx.outs |-> <<tx.outs[i].value, tx.outs[i].script>>])

encodeRawWitness(tx) ==
    FlattenSeq([i \in DOMAIN tx.ins |->
        <<Len(tx.ins[i].witness)>> \o tx.ins[i].witness])

Hash(serialised) == <<serialised>>

(* getHash of bitcoinjs-lib. *)
TxHash(tx) ==
    Hash(<<tx.version>> \o encodeRawInput(tx) \o encodeRawOutput(tx) \o <<tx.locktime>>)

-----------------------------------------------------------------------------
Even(hashes) ==
    IF Len(hashes) % 2 = 0 THEN hashes ELSE Append(hashes, Last(hashes))

(* The next layer up: chunkArray by two, then hash256 of each pair. *)
Paired(hashes) ==
    [i \in 1 .. Len(hashes) \div 2 |-> <<hashes[2 * i - 1], hashes[2 * i]>>]

Sibling(index) == IF index % 2 = 0 THEN index + 1 ELSE index - 1

(* One round of the loop, and as many as a layer could need, one for each  *)
(* of its hashes.                                                          *)
NextLayer(branch) ==
    IF Len(branch.hashes) <= 1 THEN branch
    ELSE LET layer == Even(branch.hashes)
         IN  [hashes |-> Paired(layer), index |-> Sibling(branch.index) \div 2,
              merkle |-> Append(branch.merkle, layer[Sibling(branch.index) + 1])]

Rounds(hashes, index) ==
    LET branch[k \in 0 .. Len(hashes)] ==
            IF k = 0 THEN [hashes |-> hashes, index |-> index, merkle |-> <<>>]
            ELSE NextLayer(branch[k - 1])
    IN  branch

createMerkleBranchAndRoot(hashes, index) ==
    LET branch == Rounds(hashes, index)[Len(hashes)]
    IN  [merkle |-> branch.merkle, root |-> branch.hashes[1]]

MerkleRoot(hashes) == createMerkleBranchAndRoot(hashes, 0).root

(* indexOf answers -1 for a hash that is not in the block. *)
IndexOf(hashes, hash) ==
    IF \E i \in DOMAIN hashes : hashes[i] = hash
    THEN (CHOOSE i \in DOMAIN hashes :
             hashes[i] = hash /\ \A j \in 1 .. i - 1 : hashes[j] # hash) - 1
    ELSE -1

(* With the position -1 a block of one transaction still yields a proof,   *)
(* an empty one; a longer block has no hash at the index below zero and    *)
(* reading it throws.                                                      *)
getMerkleProof(hashes, hash) ==
    LET pos == IndexOf(hashes, hash)
    IN  IF pos = -1 /\ Len(hashes) > 1 THEN [pos |-> -1, throws |-> TRUE]
        ELSE [pos |-> pos, throws |-> FALSE, proof |-> createMerkleBranchAndRoot(hashes, pos).merkle,
              root |-> createMerkleBranchAndRoot(hashes, pos).root]

-----------------------------------------------------------------------------
(* ValidateSPV.prove: the root that the branch leads to from hash at index. *)
Above(at, sibling) ==
    [hash |-> IF at.index % 2 = 1 THEN <<sibling, at.hash>> ELSE <<at.hash, sibling>>,
     index |-> at.index \div 2]

Steps(hash, index, merkle) ==
    LET at[k \in 0 .. Len(merkle)] ==
            IF k = 0 THEN [hash |-> hash, index |-> index] ELSE Above(at[k - 1], merkle[k])
    IN  at

Climb(hash, index, merkle) == Steps(hash, index, merkle)[Len(merkle)].hash

prove(hash, root, merkle, index) == Climb(hash, index, merkle) = root
=============================================================================
