---------------------------- MODULE MirrorStream -----------------------------
(***************************************************************************)
(* A mirroring session together with the decryption of what it receives:   *)
(* the mirror thread calls mirror_buffer_decrypt for the payload of every  *)
(* video frame, once and in the order of the stream, and for nothing else  *)
(* (raop_rtp_mirror_thread).  The context and the kept block are its own:  *)
(* no other thread sees them, and a stream that is cut off in the middle   *)
(* of a payload decrypts nothing of it.                                    *)
(***************************************************************************)
EXTENDS RaopMirror, MirrorDecrypt

streamVars == <<vars, decryptVars>>

StreamInit == Init /\ DecryptInit

(* Payload type 0: the whole payload is there, decrypted and handed over. *)
EncryptedFrame ==
    /\ Frame
    /\ frames' = frames + 1
    /\ \E inputLen \in Lengths : mirror_buffer_decrypt(inputLen)

(* Payload type 1 (SPS and PPS) is handed over as it came, other types and *)
(* what is not a frame are dropped: neither is decrypted.                  *)
PlainFrame == Frame /\ UNCHANGED decryptVars

(* Every other step of the session leaves the decryption alone. *)
Beside(A) == A /\ UNCHANGED decryptVars

StreamNext ==
    \/ EncryptedFrame \/ PlainFrame
    \/ Beside(Start) \/ Beside(DestroyJoined) \/ Beside(StopBegin) \/ Beside(StopGoesOn)
    \/ Beside(MirrorThread) \/ Beside(StreamEnds) \/ Beside(TimeThread)

(* The fairness of the session: the sender owes nothing. *)
StreamSpec ==
    /\ StreamInit /\ [][StreamNext]_streamVars
    /\ WF_vars(MirrorThread) /\ WF_vars(TimeThread) /\ WF_vars(StopGoesOn)
==============================================================================
