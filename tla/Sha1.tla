--------------------------------- MODULE Sha1 ---------------------------------
(***************************************************************************)
(* The streaming part of sha1.c, as sha1() and sha1_hmac() of tools.c use  *)
(* it: a message that comes in any number of SHA1Input() calls, and        *)
(* SHA1Result() which pads it.                                             *)
(*                                                                         *)
(* The digest is a function of the octets that SHA1ProcessMessageBlock()   *)
(* is called with, so these stand for it.  What matters is that they are   *)
(* the message and its padding, however the message was cut up.            *)
(*                                                                         *)
(* An octet of the length at the end is <<"length", high, low, j>>, the    *)
(* j-th one of the two words.                                              *)
(***************************************************************************)
EXTENDS Integers, Sequences

CONSTANTS BLOCK,     \* octets of a block, 64 in the code
          LENGTH,    \* octets of the length, 8 in the code
          WORD,      \* values of Length_Low, 2^32 in the code
          HIGH,      \* values of Length_High, 2^32 in the code
          Values,    \* what an octet may be, with 0 and 128
          MaxChunk   \* the longest array given to SHA1Input

ASSUME SizesAssumption ==
    /\ BLOCK \in Nat /\ LENGTH \in Nat /\ 0 < LENGTH /\ LENGTH < BLOCK
    /\ WORD \in Nat /\ WORD > 8 /\ WORD % 8 = 0
    /\ HIGH \in Nat /\ HIGH > 0
ASSUME ValuesAssumption == {0, 128} \subseteq Values /\ MaxChunk \in Nat

VARIABLES Message_Block, Message_Block_Index,
          Length_Low, Length_High,
          Computed, Corrupted,
          phase,
          input,   \* what is left of the array of the current SHA1Input
          msg,     \* history: the octets taken so far
          fed      \* the octets of the blocks processed so far

SHA1Vars == <<Message_Block, Message_Block_Index, Length_Low, Length_High,
              Computed, Corrupted, phase, input, msg, fed>>

counters == <<Length_Low, Length_High>>

Octet      == {"octet"} \X Values
ZERO_OCTET == <<"octet", 0>>
MARK       == <<"octet", 128>>
JUNK       == <<"junk">>    \* SHA1Reset leaves the block as it finds it

LengthOctet(high, low, j) == <<"length", high, low, j>>

-----------------------------------------------------------------------------
SHA1Reset ==
    /\ Message_Block = [j \in 1..BLOCK |-> JUNK]
    /\ Message_Block_Index = 0
    /\ Length_Low = 0 /\ Length_High = 0
    /\ Computed = FALSE /\ Corrupted = FALSE
    /\ phase = "idle"
    /\ input = <<>> /\ msg = <<>> /\ fed = <<>>

\* Wrong on purpose: nothing says that the digest is there already.
BadInput(a) ==
    /\ phase = "idle" /\ a # <<>> /\ ~Corrupted
    /\ phase' = "input" /\ input' = a
    /\ UNCHANGED <<Corrupted, Message_Block, Message_Block_Index, counters, Computed, msg, fed>>

SHA1Input(a) ==
    /\ phase = "idle" /\ a # <<>>
    /\ IF Computed \/ Corrupted
       THEN Corrupted' = TRUE /\ UNCHANGED <<phase, input>>
       ELSE phase' = "input" /\ input' = a /\ UNCHANGED Corrupted
    /\ UNCHANGED <<Message_Block, Message_Block_Index, counters, Computed, msg, fed>>

\* SHA1ProcessMessageBlock
Process(block) == /\ Message_Block' = block
                  /\ fed' = fed \o block
                  /\ Message_Block_Index' = 0

\* Wrong on purpose: the high word advances a step too late.
BadCount == /\ Length_Low' = (Length_Low + 8) % WORD
            /\ Length_High' = IF Length_Low = 0 THEN (Length_High + 1) % HIGH ELSE Length_High
            /\ Corrupted' = (Length_Low = 0 /\ Length_High' = 0)

\* Eight bits more.  The 64 bits of the count are full when both are 0 again.
Count == /\ Length_Low' = (Length_Low + 8) % WORD
         /\ Length_High' = IF Length_Low' = 0 THEN (Length_High + 1) % HIGH ELSE Length_High
         /\ Corrupted' = (Length_Low' = 0 /\ Length_High' = 0)

\* Wrong on purpose: the index stays at the end of a full block.
BadTake(block) == IF Message_Block_Index + 1 = BLOCK
                  THEN /\ Message_Block' = block /\ fed' = fed \o block
                       /\ Message_Block_Index' = Message_Block_Index
                  ELSE /\ Message_Block' = block
                       /\ Message_Block_Index' = Message_Block_Index + 1
                       /\ UNCHANGED fed

Take(block) == IF Message_Block_Index + 1 = BLOCK THEN Process(block)
               ELSE /\ Message_Block' = block
                    /\ Message_Block_Index' = Message_Block_Index + 1
                    /\ UNCHANGED fed

InputOctet ==
    /\ phase = "input" /\ input # <<>> /\ ~Corrupted
    /\ Take([Message_Block EXCEPT ![Message_Block_Index + 1] = Head(input)])
    /\ Count
    /\ msg' = Append(msg, Head(input))
    /\ input' = Tail(input)
    /\ UNCHANGED <<Computed, phase>>

InputReturns ==
    /\ phase = "input" /\ (input = <<>> \/ Corrupted)
    /\ phase' = "idle" /\ input' = <<>>
    /\ UNCHANGED <<Message_Block, Message_Block_Index, counters, Computed, Corrupted, msg, fed>>

SHA1Result ==
    /\ phase = "idle" /\ ~Corrupted /\ ~Computed
    /\ phase' = "pad"
    /\ UNCHANGED <<Message_Block, Message_Block_Index, counters, Computed, Corrupted, input, msg, fed>>

\* The block with the octets from index on replaced by a mark, if there is to
\* be one, and zeros.
Padded(mark) == [j \in 1..BLOCK |->
    CASE j <= Message_Block_Index                  -> Message_Block[j]
      [] j = Message_Block_Index + 1 /\ mark       -> MARK
      [] OTHER                                     -> ZERO_OCTET]

WithLength(block) == [j \in 1..BLOCK |->
    IF j <= BLOCK - LENGTH THEN block[j]
    ELSE LengthOctet(Length_High, Length_Low, j - (BLOCK - LENGTH))]

\* Wrong on purpose: a length that fits by an octet too little.
BadFits == Message_Block_Index <= BLOCK - LENGTH

\* Is there room for the mark and the length?
Fits == Message_Block_Index < BLOCK - LENGTH

\* SHA1PadMessage, when they do not fit: a block with the mark and zeros.
PadFirst ==
    /\ phase = "pad" /\ ~Fits
    /\ Process(Padded(TRUE))
    /\ phase' = "pad_length"
    /\ UNCHANGED <<counters, Computed, Corrupted, input, msg>>

\* Its end: zeros and the length.
PadLength ==
    /\ phase = "pad_length" \/ (phase = "pad" /\ Fits)
    /\ Process(WithLength(Padded(phase = "pad")))
    /\ Computed' = TRUE
    /\ phase' = "idle"
    /\ UNCHANGED <<counters, Corrupted, input, msg>>

SHA1Next ==
    \/ \E n \in 1..MaxChunk : \E a \in [1..n -> Octet] : SHA1Input(a)
    \/ InputOctet \/ InputReturns
    \/ SHA1Result \/ PadFirst \/ PadLength

SHA1Spec == SHA1Reset /\ [][SHA1Next]_SHA1Vars

-----------------------------------------------------------------------------
(* Properties *)

Stored == Octet \cup {JUNK} \cup ({"length"} \X (0..(HIGH - 1)) \X (0..(WORD - 1)) \X (1..LENGTH))

TypeOK == /\ Message_Block \in [1..BLOCK -> Stored]
          /\ Message_Block_Index \in 0..(BLOCK - 1)
          /\ Length_Low \in 0..(WORD - 1) /\ Length_High \in 0..(HIGH - 1)
          /\ Computed \in BOOLEAN /\ Corrupted \in BOOLEAN
          /\ phase \in {"idle", "input", "pad", "pad_length"}
          /\ input \in Seq(Octet) /\ msg \in Seq(Octet) /\ fed \in Seq(Stored)

\* Until it is padded, the blocks processed and the part of a block that is
\* filled are the message: no octet is lost, doubled or out of place where two
\* calls of SHA1Input meet or a block ends.
NothingLost ==
    ~Computed /\ phase # "pad_length" =>
        /\ Len(fed) + Message_Block_Index = Len(msg)
        /\ \A j \in 1..Len(fed) : fed[j] = msg[j]
        /\ \A j \in 1..Message_Block_Index : Message_Block[j] = msg[Len(fed) + j]

\* The two words count the bits of the message, until they are full.
LengthCounts == ~Corrupted => Length_High * WORD + Length_Low = 8 * Len(msg)

\* The padding that the standard asks for: a mark, as few zeros as possible
\* and the length, up to a whole number of blocks.
Standard(m) ==
    LET zeros == (-(Len(m) + 1 + LENGTH)) % BLOCK
    IN  m \o <<MARK>> \o [j \in 1..zeros |-> ZERO_OCTET]
          \o [j \in 1..LENGTH |-> LengthOctet(Length_High, Length_Low, j)]

\* The digest is that of the padded message, and nothing of the block that was
\* there before gets into it.
PaddingIsStandard == Computed => fed = Standard(msg)

\* Once there is a digest no call changes it, nor the message it is of; more
\* input only marks the context as corrupted, which the callers never look at.
DigestStays == [][Computed => fed' = fed /\ msg' = msg /\ Computed']_SHA1Vars
=============================================================================
