---------------------------- MODULE MirrorDecrypt ----------------------------
(***************************************************************************)
(* mirror_buffer.c: decryption of the payloads of a mirror stream with     *)
(* AES in counter mode.  AES_CTR_xcrypt_buffer makes whole blocks only, so *)
(* when a payload ends in the middle of a block the rest of that block is  *)
(* kept in og, and the first nextDecryptCount bytes of the next payload    *)
(* are combined with it.  A byte of the key stream is named by its place:  *)
(* byte k of block b is 16 * b + k.                                        *)
(***************************************************************************)
EXTENDS Integers

CONSTANTS Lengths,   \* The sizes a payload may have (payloadsize).
          MaxSeen    \* Bound: no payload begins behind this many bytes.

ASSUME LengthsAssumption == Lengths \subseteq Nat /\ MaxSeen \in Nat

VARIABLES blocks,            \* Blocks the AES context has made: its counter.
          nextDecryptCount,  \* Bytes of og the next payload begins with.
          og,                \* The block that og was made with.
          seen,              \* Bytes of the stream decrypted so far.
          out                \* Of the last payload: the place in the key
                             \* stream of the byte each output byte was
                             \* made with.
decryptVars == <<blocks, nextDecryptCount, og, seen, out>>

(***************************************************************************)
(* (x / 16) * 16 and x % 16 of C, x at least -15: the division truncates   *)
(* towards zero, and a negative remainder is as good as none, the code     *)
(* asks for restlen > 0.                                                   *)
(***************************************************************************)
Whole(x) == IF x < 0 THEN 0 ELSE 16 * (x \div 16)
Rest(x) == IF x < 0 THEN 0 ELSE x % 16

(* mirror_buffer_init_aes: a fresh context, nothing kept. *)
DecryptInit == blocks = 0 /\ nextDecryptCount = 0 /\ og = 0 /\ seen = 0 /\ out = << >>

(* Mutant: as many bytes are kept as were used. *)
KeptUsed(rest) == rest

(* What is kept of the last block for the payload after this one. *)
KeptOf(rest) == IF rest > 0 THEN 16 - rest ELSE 0

(* The blocks that the whole blocks and the rest of a payload take. *)
BlocksOf(whole, rest) == whole \div 16 + (IF rest > 0 THEN 1 ELSE 0)

(***************************************************************************)
(* The loop over og writes nextDecryptCount bytes whatever inputLen is;    *)
(* the whole blocks follow, and the rest is written at its end.            *)
(***************************************************************************)
mirror_buffer_decrypt(inputLen) ==
    LET kept  == nextDecryptCount
        whole == Whole(inputLen - kept)
        rest  == Rest(inputLen - kept)
    IN  /\ seen =< MaxSeen
        /\ out' = [i \in 0 .. kept + whole + rest - 1 |->
                     IF i < kept THEN 16 * og + 16 - kept + i
                                 ELSE 16 * blocks + i - kept]
        /\ blocks' = blocks + BlocksOf(whole, rest)
        /\ og' = IF rest > 0 THEN blocks + whole \div 16 ELSE og
        /\ nextDecryptCount' = KeptOf(rest)
        /\ seen' = seen + inputLen

DecryptNext == \E inputLen \in Lengths : mirror_buffer_decrypt(inputLen)
------------------------------------------------------------------------------
DecryptTypeOK ==
    /\ blocks \in Nat /\ nextDecryptCount \in 0 .. 15 /\ og \in Nat /\ seen \in Nat

(***************************************************************************)
(* The block counter and the kept bytes agree with the bytes seen: between *)
(* payloads the context has made exactly the blocks that the stream has    *)
(* begun, og is the last of them, and nextDecryptCount is what is left of  *)
(* it (mirror_buffer.c:94-118).                                            *)
(***************************************************************************)
KeystreamAligned ==
    /\ seen + nextDecryptCount = 16 * blocks
    /\ nextDecryptCount > 0 => og = blocks - 1

(***************************************************************************)
(* A payload at least as long as what may be kept of a block.              *)
(***************************************************************************)
LongEnough == \A inputLen \in Lengths : inputLen >= 15

(***************************************************************************)
(* The carry over og implements one key stream over the whole mirror       *)
(* stream: every byte of a payload, and nothing beyond it, is written with *)
(* the key byte at its own place (mirror_buffer_decrypt).                  *)
(***************************************************************************)
OneStream == INSTANCE KeyStream
OneKeyStream == OneStream!Spec
==============================================================================
