--------------------------- MODULE MCBitcoinSdk ---------------------------
EXTENDS BitcoinSdk

CONSTANTS p1, p2

Input(h) == [hash |-> h, index |-> 0, script |-> 0, sequence |-> 7, witness |-> <<5>>]
Tx(h, locktime) ==
    [version |-> 2, locktime |-> locktime, ins |-> <<Input(h)>>,
     outs |-> <<[value |-> 3, script |-> 1], [value |-> 0, script |-> 2]>>]

MCTxs == {1, 2, 3}
MCTxData == <<Tx(11, 0), Tx(12, 0), Tx(13, 9)>>
MCBodies == {<<>>, <<1>>, <<2, 3, 1>>}
MCInitChain == <<<<>>, <<>>, <<>>, <<>>, <<>>, <<2, 3>>, <<>>>>
MCDifficulty == [e \in 0 .. 9 |-> e + 5]
MCInitRelays ==
    {Unready, [ready |-> TRUE, epoch |-> 1, current |-> MCDifficulty[1], previous |-> 0, length |-> 1]}
MCContents ==
    {<<>>, <<"0">>, <<"1", "0", "4">>, <<"a", "a", "a", "\n1">>, <<"a", "a", "a", " ", "a">>}
Job(x, y) == p1 :> x @@ p2 :> y
MCJobs == {Job("prove", "retarget"), Job("retarget", "retarget"), Job("genesis", "retarget"),
           Job("prove", "genesis"), Job("inscribe", "inscribe")}
=============================================================================
