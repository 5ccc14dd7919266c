------------------------------ MODULE KeyStream ------------------------------
(***************************************************************************)
(* What the decryption of a mirror stream promises: the payloads of a     *)
(* stream are one ciphertext, cut where the sender liked, and the byte     *)
(* at place n of it is combined with the byte at place n of the key        *)
(* stream, whatever the cuts.                                              *)
(***************************************************************************)
EXTENDS Integers

CONSTANTS Lengths,   \* The sizes a payload may have.
          MaxSeen    \* Bound: no payload begins behind this many bytes.

VARIABLES seen,      \* Bytes of the stream decrypted so far.
          out        \* Of the last payload: the place in the key stream of
                     \* the byte each byte of the output was made with.

Init == seen = 0 /\ out = << >>

Decrypt(inputLen) ==
    /\ seen =< MaxSeen
    /\ out' = [i \in 0 .. inputLen - 1 |-> seen + i]
    /\ seen' = seen + inputLen

Next == \E inputLen \in Lengths : Decrypt(inputLen)

Spec == Init /\ [][Next]_<<seen, out>>
==============================================================================
