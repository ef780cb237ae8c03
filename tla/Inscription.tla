----------------------------- MODULE Inscription -----------------------------
(***************************************************************************)
(* Inscriptions of sdk/src/inscription.ts: the tapscript that toScript     *)
(* writes, and what parseInscriptions reads back from it after             *)
(* bitcoinjs-lib has compiled and decompiled the script.                   *)
(*                                                                         *)
(* A byte is one of the characters below; "\n1" stands for the bytes that  *)
(* a script has opcodes for (1 to 16 and 0x81), " " for white space, the   *)
(* digits for themselves, any other value for a byte like any other.       *)
(***************************************************************************)
EXTENDS Integers, Sequences, SequencesExt

CONSTANTS
    MaxChunkSize,       \* MAX_CHUNK_SIZE, 520 in the code
    Throwing            \* the parser throws

Small == "\n1"
Blank == " "
Digit == [c \in {"0", "1", "4"} |-> CASE c = "0" -> 0 [] c = "1" -> 1 [] c = "4" -> 4]

Op0 == 0            \* OP_0, which is also OP_FALSE
Op1 == 81           \* OP_1, the tag of the content type
OpIf == 99
OpEndIf == 104
OpCheckSig == 172

Op(n) == [kind |-> "op", op |-> n]
Push(data) == [kind |-> "push", data |-> data]

-----------------------------------------------------------------------------

chunkContent(data) ==
    [i \in 1 .. (Len(data) + MaxChunkSize - 1) \div MaxChunkSize |->
        SubSeq(data, (i - 1) * MaxChunkSize + 1,
               IF i * MaxChunkSize < Len(data) THEN i * MaxChunkSize ELSE Len(data))]

(* The envelope, from OP_0 OP_IF "ord" on; the key before it is checked by *)
(* OP_CHECKSIG, and the content type is the one tag of createInscription.  *)
toScript(inscription) ==
    <<Push(<<"key">>), Op(OpCheckSig), Op(Op0), Op(OpIf), Push(<<"ord">>),
      Op(Op1), Push(inscription.type), Op(Op0)>>
    \o LET chunks == chunkContent(inscription.body)
       IN  [i \in DOMAIN chunks |-> Push(chunks[i])]
    \o <<Op(OpEndIf)>>

(* compile and decompile of bitcoinjs-lib: a push that an opcode can stand *)
(* for becomes that opcode.                                                *)
Minimal(item) ==
    IF item.kind = "push" /\ item.data = <<>> THEN Op(Op0)
    ELSE IF item.kind = "push" /\ item.data = <<Small>> THEN Op(Op1)
    ELSE item

Compiled(script) == [i \in DOMAIN script |-> Minimal(script[i])]

-----------------------------------------------------------------------------
ValueOf(digits) == FoldLeft(LAMBDA value, digit : 10 * value + Digit[digit], 0, digits)

Trimmed(data) ==
    LET solid == {i \in DOMAIN data : data[i] # Blank}
    IN  IF solid = {} THEN <<>> ELSE SubSeq(data, Min(solid), Max(solid))

(* The code compares a chunk with an opcode by ==, which turns a buffer    *)
(* into its text and the text into a number: white space around it is      *)
(* dropped, no digits are zero, anything but digits is no number.          *)
Equals(item, n) ==
    IF item.kind = "op" THEN item.op = n
    ELSE LET text == Trimmed(item.data)
         IN  /\ \A i \in DOMAIN text : text[i] \in DOMAIN Digit
             /\ ValueOf(text) = n

-----------------------------------------------------------------------------
(* The scan of one tapscript: "found" are the inscriptions so far, "read"  *)
(* is the envelope that is open, and "at" where the scan goes on.          *)
Unread == [type |-> <<>>, body |-> <<>>]

(* Before an envelope.  The test for "ord" lets every push pass and calls  *)
(* equals on anything else, which throws.                                  *)
SeekEnvelope(script, s) ==
    LET i == s.at
    IN  IF ~Equals(script[i], Op0) THEN [s EXCEPT !.at = i + 1]
        ELSE IF i = Len(script) \/ ~Equals(script[i + 1], OpIf) THEN [s EXCEPT !.at = i + 2]
        ELSE IF i + 2 > Len(script) \/ script[i + 2].kind # "push" THEN [s EXCEPT !.part = "thrown"]
        ELSE [s EXCEPT !.at = i + 3, !.part = "fields", !.read = Unread]

(* In one: fields in pairs until the body starts, then its pushes; a push  *)
(* that reads as OP_0 or OP_ENDIF is taken for it.                         *)
ReadEnvelope(script, s) ==
    LET i == s.at
    IN  IF Equals(script[i], OpEndIf)
        THEN [s EXCEPT !.at = i + 1, !.part = "outside", !.found = Append(@, s.read)]
        ELSE IF Equals(script[i], Op0) THEN [s EXCEPT !.at = i + 1, !.part = "body"]
        ELSE IF s.part = "fields"
        THEN IF /\ i < Len(script)
                /\ script[i].kind = "op"
                /\ script[i].op = Op1
                /\ script[i + 1].kind = "push"
             THEN [s EXCEPT !.at = i + 2, !.read.type = script[i + 1].data]
             ELSE [s EXCEPT !.at = i + 2]
        ELSE IF script[i].kind = "push"
        THEN [s EXCEPT !.at = i + 1, !.read.body = @ \o script[i].data]
        ELSE [s EXCEPT !.at = i + 1]

Scan(script) ==
    LET step(s, each) ==
            IF s.at > Len(script) \/ s.part = "thrown" THEN s
            ELSE IF s.part = "outside" THEN SeekEnvelope(script, s) ELSE ReadEnvelope(script, s)
        end == FoldLeft(step, [at |-> 1, part |-> "outside", read |-> Unread, found |-> <<>>],
                        script)
    IN  IF end.part = "thrown" THEN Throwing ELSE end.found

(* The script is next to last in the witness, before an annex if there is  *)
(* one; a witness too short for it has none.                               *)
Tapscript(witness) ==
    LET n == Len(witness)
        fromLast == IF n >= 2 /\ witness[n].annex THEN 2 ELSE 1
    IN  IF n > fromLast THEN witness[n - fromLast].script ELSE <<>>

parseInscriptions(witnesses) ==
    LET found == [i \in DOMAIN witnesses |-> Scan(Tapscript(witnesses[i]))]
    IN  IF \E i \in DOMAIN found : found[i] = Throwing THEN Throwing
        ELSE FlattenSeq(found)

(* The witness that customFinalizer gives the reveal transaction.          *)
RevealWitness(inscription) ==
    LET item(script) == [annex |-> FALSE, script |-> script]
    IN  <<item(<<>>), item(Compiled(toScript(inscription))), item(<<>>)>>
=============================================================================
