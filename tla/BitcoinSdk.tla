------------------------------ MODULE BitcoinSdk ------------------------------
(***************************************************************************)
(* The Bitcoin side of the BOB SDK: the proof of a transaction for the     *)
(* bridge (sdk/src/relay.ts), the two scripts that keep the light relay    *)
(* up to date (sdk/scripts), and the inscriptions (sdk/src/ordinals).      *)
(*                                                                         *)
(* Every answer of the explorer is a step of its own.  Between two answers *)
(* blocks are mined, the chain reorganises, another caller moves on, the   *)
(* owner of the relay changes its proof length.                            *)
(***************************************************************************)
EXTENDS MerkleBranch, Inscription, FiniteSets

CONSTANTS
    Callers,            \* processes that use the SDK, one call each
    Txs,                \* the transactions of the bridge
    TxData,             \* their content
    Bodies,             \* for a block, the transactions that may stand after the coinbase
    Factors,            \* values of txProofDifficultyFactor
    Length,             \* blocks in an epoch, 2016 in the code
    Difficulty,         \* the difficulty of each epoch, by its number
    InitChain,          \* the block bodies of the chain at the start
    InitRelays,         \* the states the light relay may start in
    ProofLengths,       \* values of --proof-length and of setProofLength
    InitHeights,        \* values of --init-height
    Contents,           \* contents to inscribe
    MaxHeight,          \* bound: blocks of the chain
    MaxReorgs,          \* bound: reorganisations
    MaxDepth,           \* bound: blocks a reorganisation drops
    Int32Max,           \* 2^31 - 1
    Jobs,               \* which call each caller makes
    Latest,             \* --init-height latest
    None

RelayFields == {"ready", "epoch", "current", "previous", "length"}

(* A relay that is already deployed knows its epoch.                       *)
ASSUME BitcoinAssumption ==
    /\ Length \in Nat \ {0}
    /\ ProofLengths \subseteq Nat \ {0}
    /\ Factors \subseteq Nat \ {0}
    /\ \A height \in InitHeights : height = Latest \/ height \in Int
    /\ InitChain \in Seq(Seq(Txs))
    /\ Bodies \subseteq Seq(Txs)
    /\ MaxDepth \in Nat
    /\ \A r \in InitRelays :
          /\ DOMAIN r = RelayFields
          /\ r.ready => /\ r.epoch \in Int
                        /\ r.length \in Nat \ {0}
                        /\ r.current = Difficulty[r.epoch]
                        /\ r.previous # 0 => r.previous = Difficulty[r.epoch - 1]
    /\ None # "ok"

VARIABLES
    chain,              \* the best chain of the explorer, from height 0
    found,              \* blocks found so far, on all branches
    reorgs,             \* reorganisations so far
    relay,              \* the light relay contract
    commits,            \* the commit transactions that wallets broadcast
    call                \* the call of each caller

sdkVars == <<chain, found, reorgs, relay, commits, call>>

-----------------------------------------------------------------------------
(* The chain *)

Tip == Len(chain) - 1
Mined(h) == h \in 0 .. Tip
BlockAt(h) == chain[h + 1]

Coinbase(id) ==
    [version |-> 1, locktime |-> 0, outs |-> <<>>,
     ins |-> <<[hash |-> 0, index |-> id, script |-> id, sequence |-> 0, witness |-> <<>>]>>]

BlockHashes(block) ==
    <<TxHash(Coinbase(block.id))>> \o [i \in DOMAIN block.body |-> TxHash(TxData[block.body[i]])]

Header(block) ==
    [id |-> block.id, prev |-> block.prev, root |-> MerkleRoot(BlockHashes(block)),
     difficulty |-> block.difficulty]

(* Blocks are numbered in the order they are found, on all branches; these *)
(* are found one on top of the other.                                      *)
Branch(below, bodies, id) ==
    below \o [i \in DOMAIN bodies |->
                [id |-> id + i - 1,
                 prev |-> IF i > 1 THEN id + i - 2 ELSE IF below = <<>> THEN -1 ELSE Last(below).id,
                 body |-> bodies[i],
                 difficulty |-> Difficulty[(Len(below) + i - 1) \div Length]]]

Included(blocks) == UNION {ToSet(blocks[i].body) : i \in DOMAIN blocks}

FindBlock ==
    /\ Len(chain) < MaxHeight
    /\ \E body \in Bodies :
          /\ ToSet(body) \cap Included(chain) = {}
          /\ chain' = Branch(chain, <<body>>, found)
    /\ found' = found + 1
    /\ UNCHANGED <<reorgs, relay, commits, call>>

(* A longer branch replaces the last blocks.  A call is disturbed when a   *)
(* block it has asked for, or is going to, is among them.                  *)
Disturbed(c, below) == [c EXCEPT !.disturbed = @ \/ c.top >= Len(below)]

Reorganise ==
    /\ reorgs < MaxReorgs
    /\ Len(chain) < MaxHeight
    /\ \E depth \in 1 .. MaxDepth, body \in Bodies :
          LET kept == SubSeq(chain, 1, Len(chain) - depth)
              bodies == <<body>> \o [i \in 1 .. depth |-> <<>>]
          IN  /\ ToSet(body) \cap Included(kept) = {}
              /\ chain' = Branch(kept, bodies, found)
              /\ found' = found + depth + 1
              /\ call' = [p \in Callers |-> Disturbed(call[p], kept)]
    /\ reorgs' = reorgs + 1
    /\ UNCHANGED <<relay, commits>>

-----------------------------------------------------------------------------
(* The light relay contract *)

Chained(headers) == \A i \in 2 .. Len(headers) : headers[i].prev = headers[i - 1].id

(* retargetAlgorithm, on the time the last epoch took, gives the target of *)
(* the next one.                                                           *)
AcceptsRetarget(r, headers) ==
    /\ r.ready
    /\ Len(headers) = 2 * r.length
    /\ Chained(headers)
    /\ \A i \in 1 .. r.length : headers[i].difficulty = r.current
    /\ \A i \in r.length + 1 .. 2 * r.length :
          headers[i].difficulty = Difficulty[r.epoch + 1]

Retargeted(r, headers) ==
    [r EXCEPT !.epoch = @ + 1, !.previous = r.current, !.current = Last(headers).difficulty]

Unready == [ready |-> FALSE, epoch |-> 0, current |-> 0, previous |-> 0, length |-> 0]

EpochAfter(height) == height \div Length + 1

EpochOf(height) == height \div Length

(* genesis on a contract just deployed. *)
AcceptsGenesis(height, length) == height % Length = 0 /\ length \in 1 .. Length - 1

GenesisRelay(header, height, length) ==
    [ready |-> TRUE, epoch |-> EpochOf(height), current |-> header.difficulty,
     previous |-> 0, length |-> length]

(* Calls under way learn nothing of a change of the contract. *)
RelayChanges(r) ==
    /\ relay' = r
    /\ call' = [p \in Callers |-> [call[p] EXCEPT !.disturbed = TRUE]]

setProofLength ==
    /\ relay.ready
    /\ \E length \in ProofLengths \cap (1 .. Length - 1) :
          /\ length # relay.length
          /\ RelayChanges([relay EXCEPT !.length = length])
    /\ UNCHANGED <<chain, found, reorgs, commits>>

-----------------------------------------------------------------------------
(* A call *)

NoCall(job) ==
    [job |-> job, step |-> "start", aim |-> None, info |-> None, merkle |-> None,
     batch |-> <<>>, later |-> <<>>, heard |-> <<>>, have |-> {}, got |-> <<>>,
     top |-> -1, disturbed |-> FALSE, result |-> None]

Doing(p, job, step) == call[p].job = job /\ call[p].step = step

Set(p, c) == call' = [call EXCEPT ![p] = c]

Ended(c, result) == [c EXCEPT !.step = "done", !.result = result]

UnchangedWorld == UNCHANGED <<chain, found, reorgs, relay, commits>>

(* Promise.all over a batch of heights, then over the next one. *)
range(size, startAt) == [i \in 1 .. size |-> startAt + i - 1]

Fetching(c, batches) ==
    [c EXCEPT !.step = "headers", !.batch = Head(batches), !.later = Tail(batches),
              !.heard = [i \in DOMAIN Head(batches) |-> None], !.have = {}]

Fetched(c) ==
    LET joined == [c EXCEPT !.got = @ \o c.heard]
    IN  IF c.later # <<>> THEN Fetching(joined, c.later)
        ELSE [joined EXCEPT !.step = "fetched"]

(* getBlockHash: an error beyond the tip makes the whole call fail. *)
getBlockHash(p, i) ==
    LET c == call[p]
    IN  /\ c.step = "headers"
        /\ c.heard[i] = None
        /\ Set(p, IF Mined(c.batch[i])
                  THEN [c EXCEPT !.heard[i] = Header(BlockAt(c.batch[i]))]
                  ELSE Ended(c, "failed"))
        /\ UnchangedWorld

(* getBlockHeader: a block that is no longer on the best chain may be gone. *)
getBlockHeader(p, i) ==
    LET c == call[p]
        c2 == [c EXCEPT !.have = @ \cup {i}]
    IN  /\ c.step = "headers"
        /\ c.heard[i] # None
        /\ i \notin c.have
        /\ \/ Set(p, IF c2.have = DOMAIN c.batch THEN Fetched(c2) ELSE c2)
           \/ /\ \A j \in DOMAIN chain : chain[j].id # c.heard[i].id
              /\ Set(p, Ended(c, "failed"))
        /\ UnchangedWorld

-----------------------------------------------------------------------------
(* getBitcoinTxInfo and getBitcoinTxProof *)

(* writeInt32LE throws for a lock time that needs the sign bit. *)
getBitcoinTxInfo(p) ==
    /\ Doing(p, "prove", "start")
    /\ \E t \in Txs, n \in Factors :
          LET tx == TxData[t]
              c == [call[p] EXCEPT !.aim = [tx |-> t, factor |-> n]]
          IN  Set(p, IF tx.locktime > Int32Max THEN Ended(c, "failed")
                     ELSE [c EXCEPT !.step = "merkle",
                             !.info = [version |-> tx.version, locktime |-> tx.locktime,
                                       inputVector |-> encodeRawInput(tx),
                                       outputVector |-> encodeRawOutput(tx),
                                       witnessVector |-> encodeRawWitness(tx)]])
    /\ UnchangedWorld

HeadersAfter(c, startHeight, numBlocks) ==
    Fetching(c, <<range(numBlocks, startHeight + 1)>>)

getBitcoinHeaders(c, startHeight, numBlocks) ==
    Fetching(c, <<range(numBlocks, startHeight)>>)

(* The explorer's answer for a transaction in a block. *)
MerkleProofAt(t, h) ==
    LET proof == getMerkleProof(BlockHashes(BlockAt(h)), TxHash(TxData[t]))
    IN  [blockHeight |-> h, merkle |-> proof.proof, pos |-> proof.pos]

HeightsOf(t) == {h \in 0 .. Tip : t \in ToSet(BlockAt(h).body)}

getBitcoinTxProof(p) ==
    /\ Doing(p, "prove", "merkle")
    /\ LET c == call[p]
           n == c.aim.factor
       IN  \/ /\ HeightsOf(c.aim.tx) = {}
              /\ Set(p, Ended(c, "failed"))
          \/ \E h \in HeightsOf(c.aim.tx) :
                Set(p, getBitcoinHeaders(
                         [c EXCEPT !.merkle = MerkleProofAt(c.aim.tx, h), !.top = h + n - 1],
                         h, n))
    /\ UnchangedWorld

ProofReturned(p) ==
    /\ Doing(p, "prove", "fetched")
    /\ Set(p, Ended(call[p], "ok"))
    /\ UnchangedWorld

-----------------------------------------------------------------------------
(* scripts/relay-genesis.ts and scripts/relay-retarget.ts *)

getRetargetHeaders(height, length) ==
    <<range(length, height - length), range(length, height)>>

(* The genesis script reads the tip when it is asked for the latest epoch. *)
InitHeight(asked) == IF asked = Latest THEN Tip - (Tip % Length) - Length ELSE asked

StartGenesis(p) ==
    /\ Doing(p, "genesis", "start")
    /\ \E asked \in InitHeights, length \in ProofLengths, testnet \in BOOLEAN :
          LET height == InitHeight(asked)
              c == [call[p] EXCEPT !.aim = [height |-> height, length |-> length,
                                            testnet |-> testnet],
                                   !.top = height + Length + length - 1]
          IN  Set(p, IF height % Length # 0 THEN Ended(c, "failed")
                     ELSE Fetching(c, <<<<height>>>>
                                      \o getRetargetHeaders(height + Length, length)))
    /\ UnchangedWorld

(* forge deploys and submits only what passed its simulation; the first    *)
(* contract deployed is the one that the other calls use.                  *)
SubmitGenesis(p) ==
    /\ Doing(p, "genesis", "fetched")
    /\ LET c == call[p]
           r == GenesisRelay(c.got[1], c.aim.height, c.aim.length)
           headers == Tail(c.got)
           accepted == /\ AcceptsGenesis(c.aim.height, c.aim.length)
                       /\ c.aim.testnet \/ AcceptsRetarget(r, headers)
       IN  IF ~accepted THEN Set(p, Ended(c, "rejected")) /\ UNCHANGED relay
           ELSE IF relay.ready THEN Set(p, Ended(c, "ok")) /\ UNCHANGED relay
           ELSE /\ relay' = IF c.aim.testnet THEN r ELSE Retargeted(r, headers)
                /\ call' = [q \in Callers |->
                              IF q = p THEN Ended(c, "ok")
                              ELSE [call[q] EXCEPT !.disturbed = TRUE]]
    /\ UNCHANGED <<chain, found, reorgs, commits>>

StartRetarget(p) ==
    /\ Doing(p, "retarget", "start")
    /\ Set(p, [call[p] EXCEPT !.step = "length", !.disturbed = FALSE,
                              !.aim = [height |-> (relay.epoch + 1) * Length, length |-> 0]])
    /\ UnchangedWorld

ReadProofLength(p) ==
    /\ Doing(p, "retarget", "length")
    /\ LET c == call[p]
       IN  Set(p, [c EXCEPT !.step = "check", !.aim.length = relay.length,
                            !.top = c.aim.height + relay.length - 1])
    /\ UnchangedWorld

(* The script asks for one block more than it is going to use. *)
CheckHeaders(p) ==
    /\ Doing(p, "retarget", "check")
    /\ LET c == call[p]
       IN  Set(p, IF ~Mined(c.aim.height + c.aim.length) THEN Ended(c, "failed")
                  ELSE IF c.aim.length = 0 THEN [c EXCEPT !.step = "fetched"]
                  ELSE Fetching(c, getRetargetHeaders(c.aim.height, c.aim.length)))
    /\ UnchangedWorld

SubmitRetarget(p) ==
    /\ Doing(p, "retarget", "fetched")
    /\ LET c == call[p]
       IN  IF AcceptsRetarget(relay, c.got)
           THEN /\ relay' = Retargeted(relay, c.got)
                /\ call' = [q \in Callers |->
                              IF q = p THEN Ended(c, "ok")
                              ELSE [call[q] EXCEPT !.disturbed = TRUE]]
           ELSE Set(p, Ended(c, "rejected")) /\ UNCHANGED relay
    /\ UNCHANGED <<chain, found, reorgs, commits>>

-----------------------------------------------------------------------------
(* inscribeData *)

TextPlain == <<"t">>        \* the content type of a text inscription

createInscription(content) == [type |-> TextPlain, body |-> content]

(* One signer, so the address depends on the inscription alone. *)
CommitAddress(inscription) == <<"p2tr", inscription>>
ASSUME AddressAssumption ==
    \A content \in Contents : None # CommitAddress(createInscription(content))

RevealFee(inscription) == Len(toScript(inscription))
Postage == 1

sendToAddress(p) ==
    /\ Doing(p, "inscribe", "start")
    /\ \E content \in Contents :
          LET inscription == createInscription(content)
              payment == [address |-> CommitAddress(inscription),
                          value |-> RevealFee(inscription) + Postage]
              change == [address |-> None, value |-> 1]
              c == [call[p] EXCEPT !.aim = inscription]
          IN  \/ Set(p, Ended(c, "failed")) /\ UNCHANGED commits
              \/ /\ \E outs \in {<<payment>>, <<payment, change>>, <<change, payment>>} :
                       commits' = Append(commits, [sender |-> p, outs |-> outs])
                 /\ Set(p, [c EXCEPT !.step = "commit", !.got = <<Len(commits) + 1>>])
    /\ UNCHANGED <<chain, found, reorgs, relay>>

FirstOutput(outs, address) == 1

OutputIndex(outs, address) ==
    CHOOSE i \in DOMAIN outs :
        /\ outs[i].address = address
        /\ \A j \in 1 .. i - 1 : outs[j].address # address

createRevealTx(c, tx) ==
    [tx |-> tx,
     index |-> OutputIndex(commits[tx].outs, CommitAddress(c.aim)),
     value |-> RevealFee(c.aim) + Postage,
     witness |-> RevealWitness(c.aim)]

(* The reveal is built and signed, or the wallet does not know the commit  *)
(* or refuses to sign; the commit is on its way in any case.               *)
signRevealTx(p) ==
    /\ Doing(p, "inscribe", "commit")
    /\ LET c == call[p]
       IN  \/ Set(p, [Ended(c, "ok") EXCEPT !.info = createRevealTx(c, c.got[1])])
          \/ Set(p, Ended(c, "failed"))
    /\ UnchangedWorld

-----------------------------------------------------------------------------
SdkInit ==
    /\ chain = Branch(<<>>, InitChain, 0)
    /\ found = Len(InitChain)
    /\ reorgs = 0
    /\ relay \in InitRelays
    /\ commits = <<>>
    /\ \E jobs \in Jobs : call = [p \in Callers |-> NoCall(jobs[p])]

SdkNext ==
    \/ FindBlock
    \/ Reorganise
    \/ setProofLength
    \/ \E p \in Callers :
          \/ \E i \in DOMAIN call[p].batch : getBlockHash(p, i) \/ getBlockHeader(p, i)
          \/ getBitcoinTxInfo(p) \/ getBitcoinTxProof(p) \/ ProofReturned(p)
          \/ StartGenesis(p) \/ SubmitGenesis(p)
          \/ StartRetarget(p) \/ ReadProofLength(p) \/ CheckHeaders(p) \/ SubmitRetarget(p)
          \/ sendToAddress(p) \/ signRevealTx(p)

SdkSpec == SdkInit /\ [][SdkNext]_sdkVars

-----------------------------------------------------------------------------
Succeeded(p, job) == call[p].job = job /\ call[p].result = "ok"

(* What BitcoinTx.validateProof checks of the information and the proof.   *)
Verifies(info, merkle, headers) ==
    /\ prove(Hash(<<info.version>> \o info.inputVector \o info.outputVector
                  \o <<info.locktime>>),
             headers[1].root, merkle.merkle, merkle.pos)
    /\ Chained(headers)

(* The merkle proof and each header are answers of different moments.  As  *)
(* long as no block of the proof is replaced while it is collected,        *)
(* whatever is mined meanwhile, the bridge accepts it.                     *)
UndisturbedProofVerifies ==
    \A p \in Callers : Succeeded(p, "prove") /\ ~call[p].disturbed =>
        /\ Verifies(call[p].info, call[p].merkle, call[p].got)
        /\ Len(call[p].got) = call[p].aim.factor

(* Two operators may run the scripts at once, and the owner may change the *)
(* proof length under them: the relay only ever moves by whole epochs and  *)
(* knows the difficulty of the epoch it says it is in.                     *)
RelayKnowsItsEpoch ==
    relay.ready =>
        /\ relay.current = Difficulty[relay.epoch]
        /\ relay.previous # 0 => relay.previous = Difficulty[relay.epoch - 1]

(* The reveal spends the output that its own commit paid, wherever the     *)
(* wallet put its change, and two inscriptions of the same text do not     *)
(* spend each other's.                                                     *)
RevealSpendsItsCommit ==
    \A p \in Callers : Succeeded(p, "inscribe") =>
        LET reveal == call[p].info
            out == commits[reveal.tx].outs[reveal.index]
        IN  /\ commits[reveal.tx].sender = p
            /\ out.address = CommitAddress(call[p].aim)
            /\ out.value = reveal.value

=============================================================================
