------------------------ MODULE MirrorStream_proofs --------------------------
(***************************************************************************)
(* Proofs about RaopMirror: for any number of frames the session outlives  *)
(* its threads, no descriptor is closed twice, and a freed session left    *)
(* none open; and about MirrorStream: for every set of payload sizes of at *)
(* least 15 bytes the block counter agrees with the bytes seen, the carry  *)
(* over og implements one key stream, and the session keeps its            *)
(* invariants.                                                             *)
(***************************************************************************)
EXTENDS MirrorStream, TLAPS

(***************************************************************************)
(* The session (RaopMirror)                                                *)
(***************************************************************************)
(* Where the mirror thread is before it tears itself down. *)
Serving == {"check", "select", "publish", "recv"}

(* Where it is before it closes the stream, or a server socket. *)
BeforeStream == Serving \cup {"closeStream"}
BeforeData == BeforeStream \cup {"mark", "closeData"}
BeforeTime == BeforeData \cup {"clearData", "closeTime"}

(***************************************************************************)
(* A descriptor is open exactly up to the step that closes it, and a field *)
(* holds it up to the step that stores -1.                                 *)
(***************************************************************************)
DescriptorInv ==
    /\ "stream" \in open <=> local /\ mirror \in BeforeStream
    /\ "stream" \in field => mirror \in BeforeStream \cup {"mark"}
    /\ "data" \in open <=> mirror \in BeforeData
    /\ "data" \in field <=> mirror \in BeforeData \cup {"clearData"}
    /\ "time" \in open <=> mirror \in BeforeTime
    /\ "time" \in field <=> mirror \in BeforeTime \cup {"clearTime"}
    /\ mirror = "publish" => local
    /\ local => mirror # "none"

(* How far the caller of destroy is, and what it may rely on there. *)
Stopping == {"shutdown", "signal", "joinMirror", "signalAgain", "joinTime", "close"}
CallerInv ==
    /\ mirror = "none" <=> time = "none"
    /\ joined /\ caller = "idle" => mirror = "none"
    /\ mirror = "none" => joined
    /\ joined => caller \in {"idle", "freed"}
    /\ caller = "freed" => joined
    /\ caller \in {"signalAgain", "joinTime", "close"} => mirror = "done"
    /\ caller = "close" => time = "done"
    /\ joined => mirror \in {"none", "done"} /\ time \in {"none", "done"}

ToldInv == stopped = IF mirror = "done" THEN 1 ELSE 0

IInv == TypeOK /\ DescriptorInv /\ CallerInv /\ ToldInv

LEMMA InitInv == Init => IInv
  <1> SUFFICES ASSUME Init PROVE IInv
    OBVIOUS
  <1>1. TypeOK
    <2>1. frames \in 0 .. MaxFrames /\ stopped \in Nat
      BY MaxFramesAssumption DEF Init
    <2>2. field \subseteq Socks /\ open \subseteq Socks /\ shut \subseteq open /\ copy \subseteq Socks
      BY Zenon DEF Init
    <2> QED BY <2>1, <2>2 DEF Init, TypeOK
  <1>2. DescriptorInv
    BY DEF Init, DescriptorInv, BeforeTime, BeforeData, BeforeStream, Serving
  <1>3. CallerInv /\ ToldInv
    BY DEF Init, CallerInv, ToldInv
  <1> QED BY <1>1, <1>2, <1>3 DEF IInv

(* The groups of variables, and the sets of places. *)
USE DEF vars, lockVars, sockVars, mirrorVars, callVars, histVars,
        BeforeTime, BeforeData, BeforeStream, Serving, Socks

(***************************************************************************)
(* The mirror thread, raop_rtp_mirror_thread.                              *)
(***************************************************************************)
LEMMA MirrorStep ==
  ASSUME IInv, MirrorThread \/ Sender
  PROVE  IInv'
  <1>1. TypeOK'
    <2>1. CASE Frame
      BY <2>1, MaxFramesAssumption DEF IInv, TypeOK, Frame
    <2>2. CASE StreamStopped
      BY <2>2 DEF IInv, TypeOK, StreamStopped
    <2>3. CASE ~Frame /\ ~StreamStopped
      <3>1. UNCHANGED <<joined, callVars, histVars>>
        BY <2>3 DEF MirrorThread, Sender, MirrorCheck, SelectTimeout, SelectError, Accept,
           Publish, StreamReadable, StreamEnds, StreamShut, CloseStream, MarkStopped,
           MirrorCloseSockets, MirrorClose, MirrorClear, MirrorSignal
      <3>2. field' \subseteq Socks /\ open' \subseteq Socks /\ shut' \subseteq open'
        BY <2>3 DEF IInv, TypeOK, MirrorThread, Sender, MirrorCheck, SelectTimeout,
           SelectError, Accept, Publish, StreamReadable, StreamEnds, StreamShut,
           CloseStream, MarkStopped, MirrorCloseSockets, MirrorClose, MirrorClear,
           MirrorSignal, Close
      <3>3. /\ running' \in BOOLEAN /\ local' \in BOOLEAN
            /\ mirror' \in Serving \cup {"none", "closeStream", "mark", "closeData",
                  "clearData", "closeTime", "clearTime", "signal", "callback", "done"}
            /\ time' \in {"none", "check", "recv", "wait", "done"}
        BY <2>3 DEF IInv, TypeOK, MirrorThread, Sender, MirrorCheck, SelectTimeout,
           SelectError, Accept, Publish, StreamReadable, StreamEnds, StreamShut,
           CloseStream, MarkStopped, MirrorCloseSockets, MirrorClose, MirrorClear,
           MirrorSignal, Wake
      <3> QED BY <3>1, <3>2, <3>3 DEF IInv, TypeOK
    <2> QED BY <2>1, <2>2, <2>3
  <1>2. DescriptorInv'
    BY DEF IInv, TypeOK, DescriptorInv, MirrorThread, Sender, MirrorCheck, SelectTimeout,
        SelectError, Accept, Publish, StreamReadable, Frame, StreamEnds, StreamShut,
        CloseStream, MarkStopped, MirrorCloseSockets, MirrorClose, MirrorClear,
        MirrorSignal, StreamStopped, Close
  <1>3. CallerInv'
    BY DEF IInv, TypeOK, CallerInv, MirrorThread, Sender, MirrorCheck, SelectTimeout,
        SelectError, Accept, Publish, StreamReadable, Frame, StreamEnds, StreamShut,
        CloseStream, MarkStopped, MirrorCloseSockets, MirrorClose, MirrorClear,
        MirrorSignal, Wake, StreamStopped
  <1>4. ToldInv'
    BY DEF IInv, TypeOK, ToldInv, MirrorThread, Sender, MirrorCheck, SelectTimeout,
        SelectError, Accept, Publish, StreamReadable, Frame, StreamEnds, StreamShut,
        CloseStream, MarkStopped, MirrorCloseSockets, MirrorClose, MirrorClear,
        MirrorSignal, StreamStopped
  <1> QED BY <1>1, <1>2, <1>3, <1>4 DEF IInv

(***************************************************************************)
(* The timing thread, raop_rtp_mirror_thread_time.                         *)
(***************************************************************************)
LEMMA TimeStep ==
  ASSUME IInv, TimeThread
  PROVE  IInv'
  <1>1. UNCHANGED <<lockVars, sockVars, mirrorVars, callVars, histVars>>
    BY DEF TimeThread, TimeCheck, TimeRecv, TimeWaited
  <1>2. /\ time \notin {"none", "done"} /\ time' \in {"check", "recv", "wait", "done"}
    BY DEF TimeThread, TimeCheck, TimeRecv, TimeWaited
  <1>3. TypeOK'
    BY <1>1, <1>2 DEF IInv, TypeOK
  <1>4. DescriptorInv'
    BY <1>1 DEF IInv, DescriptorInv
  <1>5. CallerInv'
    BY <1>1, <1>2 DEF IInv, TypeOK, CallerInv
  <1>6. ToldInv'
    BY <1>1 DEF IInv, ToldInv
  <1> QED BY <1>3, <1>4, <1>5, <1>6 DEF IInv

(***************************************************************************)
(* The caller: raop_rtp_start_mirror and raop_rtp_mirror_destroy.          *)
(***************************************************************************)
LEMMA CallerStep ==
  ASSUME IInv, Start \/ DestroyJoined \/ StopBegin \/ StopGoesOn
  PROVE  IInv'
  <1>1. CASE Start
    <2>0. mirror = "none" /\ open = {} /\ shut = {}
      BY <1>1 DEF IInv, TypeOK, DescriptorInv, CallerInv, Start
    <2>1. TypeOK' /\ ToldInv'
      BY <1>1, <2>0 DEF IInv, TypeOK, ToldInv, Start
    <2>2. DescriptorInv'
      BY <1>1 DEF IInv, DescriptorInv, CallerInv, TypeOK, Start
    <2>3. CallerInv'
      BY <1>1 DEF IInv, CallerInv, Start
    <2> QED BY <2>1, <2>2, <2>3 DEF IInv
  <1>2. CASE CloseAndFree
    <2>1. mirror = "done" /\ time = "done"
      BY <1>2 DEF IInv, CallerInv, CloseAndFree
    <2>2. field \cap {"data", "time"} = {}
      BY <2>1 DEF IInv, DescriptorInv
    <2>3. UNCHANGED <<sockVars, running, mirrorVars, time, copy, histVars>>
      BY <1>2, <2>2 DEF CloseAndFree
    <2>4. joined' = TRUE /\ caller' = "freed"
      BY <1>2 DEF CloseAndFree
    <2>5. TypeOK' /\ ToldInv'
      BY <2>3, <2>4 DEF IInv, TypeOK, ToldInv
    <2>6. DescriptorInv' /\ CallerInv'
      BY <2>1, <2>3, <2>4 DEF IInv, DescriptorInv, CallerInv
    <2> QED BY <2>5, <2>6 DEF IInv
  <1>3. CASE DestroyJoined \/ StopBegin \/ (StopGoesOn /\ ~CloseAndFree)
    <2>1. UNCHANGED <<field, open, mirrorVars, histVars, joined>>
      BY <1>3 DEF DestroyJoined, StopBegin, StopGoesOn, Shutdown, Signal, JoinMirror, JoinTime
    <2>2. /\ running' \in BOOLEAN /\ shut' \subseteq open /\ copy' \subseteq Socks
          /\ time' = time \/ (time = "wait" /\ time' = "check")
      BY <1>3 DEF IInv, TypeOK, DestroyJoined, StopBegin, StopGoesOn, Shutdown, Signal,
         Wake, JoinMirror, JoinTime
    <2>3. TypeOK'
      <3>1. caller' \in Stopping \cup {"freed"}
        BY <1>3 DEF DestroyJoined, StopBegin, StopGoesOn, Shutdown, Signal, JoinMirror,
           JoinTime, Stopping
      <3> QED BY <2>1, <2>2, <3>1 DEF IInv, TypeOK, Stopping
    <2>4. DescriptorInv' /\ ToldInv'
      BY <2>1 DEF IInv, DescriptorInv, ToldInv
    <2>5. CallerInv'
      BY <1>3, <2>1, <2>2 DEF IInv, CallerInv, DestroyJoined, StopBegin, StopGoesOn,
         Shutdown, Signal, JoinMirror, JoinTime
    <2> QED BY <2>3, <2>4, <2>5 DEF IInv
  <1> QED BY <1>1, <1>2, <1>3 DEF StopGoesOn

LEMMA NextInv ==
  ASSUME IInv, [Next]_vars
  PROVE  IInv'
  <1>1. CASE UNCHANGED vars
    BY <1>1 DEF IInv, TypeOK, DescriptorInv, CallerInv, ToldInv
  <1>2. CASE Next
    BY <1>2, MirrorStep, TimeStep, CallerStep DEF Next
  <1> QED BY <1>1, <1>2

LEMMA SafetyOfIInv == IInv => ThreadsInv /\ CloseOnceInv /\ FreedInv
  BY DEF IInv, TypeOK, DescriptorInv, CallerInv, ToldInv, ThreadsInv, CloseOnceInv,
     FreedInv, MirrorAlive, TimeAlive

(***************************************************************************)
(* For any bound on frames: a session is joined and freed only when both   *)
(* its threads ended (raop_rtp_mirror.c:613-672), what the mirror thread   *)
(* or the caller is about to close is open (:547-563, 645-652), and a      *)
(* freed session left no descriptor open and announced its end once.       *)
(***************************************************************************)
THEOREM SessionSafety == Spec => [](ThreadsInv /\ CloseOnceInv /\ FreedInv)
  <1>1. IInv => ThreadsInv /\ CloseOnceInv /\ FreedInv
    BY SafetyOfIInv
  <1>2. Init => IInv
    BY InitInv
  <1>3. IInv /\ [Next]_vars => IInv'
    BY NextInv
  <1> QED BY <1>1, <1>2, <1>3, PTL DEF Spec

-----------------------------------------------------------------------------
(***************************************************************************)
(* The decryption (MirrorDecrypt) and the session with it (MirrorStream)   *)
(***************************************************************************)
KeyInv == DecryptTypeOK /\ KeystreamAligned

(***************************************************************************)
(* A number is its whole blocks and its rest (mirror_buffer.c:100, 107).    *)
(***************************************************************************)
LEMMA Division ==
  ASSUME NEW x \in Nat
  PROVE  /\ x \div 16 \in Nat
         /\ Whole(x) = 16 * (x \div 16)
         /\ Whole(x) \div 16 = x \div 16
         /\ Rest(x) \in 0 .. 15
         /\ Rest(x) = x - 16 * (x \div 16)
  BY DEF Whole, Rest

(***************************************************************************)
(* One payload, spelled out: with q whole blocks and a rest r behind the   *)
(* kept bytes.                                                             *)
(***************************************************************************)
LEMMA DecryptStep ==
  ASSUME KeyInv, NEW inputLen \in Nat, inputLen >= 15, mirror_buffer_decrypt(inputLen)
  PROVE  \E q \in Nat, r \in 0 .. 15 :
            /\ inputLen = nextDecryptCount + 16 * q + r
            /\ blocks' = blocks + q + (IF r > 0 THEN 1 ELSE 0)
            /\ og' = IF r > 0 THEN blocks + q ELSE og
            /\ nextDecryptCount' = IF r > 0 THEN 16 - r ELSE 0
            /\ seen' = seen + inputLen
            /\ out' = [i \in 0 .. nextDecryptCount + 16 * q + r - 1 |->
                         IF i < nextDecryptCount
                           THEN 16 * og + 16 - nextDecryptCount + i
                           ELSE 16 * blocks + i - nextDecryptCount]
  <1> DEFINE x == inputLen - nextDecryptCount
             q == x \div 16
             r == Rest(x)
  <1>1. x \in Nat
    BY DEF KeyInv, DecryptTypeOK
  <1>2. /\ q \in Nat /\ r \in 0 .. 15
        /\ Whole(x) = 16 * q /\ Whole(x) \div 16 = q /\ r = x - 16 * q
    BY <1>1, Division
  <1>3. inputLen = nextDecryptCount + 16 * q + r
    <2> HIDE DEF q, r
    <2> QED BY <1>2 DEF KeyInv, DecryptTypeOK
  <1>4. /\ blocks' = blocks + (q + (IF r > 0 THEN 1 ELSE 0))
        /\ og' = IF r > 0 THEN blocks + q ELSE og
        /\ nextDecryptCount' = IF r > 0 THEN 16 - r ELSE 0
        /\ seen' = seen + inputLen
        /\ out' = [i \in 0 .. nextDecryptCount + 16 * q + r - 1 |->
                     IF i < nextDecryptCount
                       THEN 16 * og + 16 - nextDecryptCount + i
                       ELSE 16 * blocks + i - nextDecryptCount]
    BY <1>2 DEF mirror_buffer_decrypt, BlocksOf, KeptOf
  <1>5. blocks' = blocks + q + (IF r > 0 THEN 1 ELSE 0)
    <2> HIDE DEF q, r
    <2> QED BY <1>2, <1>4 DEF KeyInv, DecryptTypeOK
  <1> HIDE DEF q, r
  <1> QED BY <1>2, <1>3, <1>4, <1>5

LEMMA KeyInitInv == DecryptInit => KeyInv
  BY DEF DecryptInit, KeyInv, DecryptTypeOK, KeystreamAligned

(***************************************************************************)
(* A payload leaves counter and kept bytes agreeing with the bytes seen.   *)
(***************************************************************************)
LEMMA KeyNextInv ==
  ASSUME LongEnough, KeyInv, [DecryptNext]_decryptVars
  PROVE  KeyInv'
  <1>1. CASE UNCHANGED decryptVars
    BY <1>1 DEF decryptVars, KeyInv, DecryptTypeOK, KeystreamAligned
  <1>2. CASE DecryptNext
    <2>1. PICK inputLen \in Lengths : mirror_buffer_decrypt(inputLen)
      BY <1>2 DEF DecryptNext
    <2>2. inputLen \in Nat /\ inputLen >= 15
      BY LengthsAssumption DEF LongEnough
    <2>3. PICK q \in Nat, r \in 0 .. 15 :
            /\ inputLen = nextDecryptCount + 16 * q + r
            /\ blocks' = blocks + q + (IF r > 0 THEN 1 ELSE 0)
            /\ og' = IF r > 0 THEN blocks + q ELSE og
            /\ nextDecryptCount' = IF r > 0 THEN 16 - r ELSE 0
            /\ seen' = seen + inputLen
      BY <2>1, <2>2, DecryptStep
    <2>4. DecryptTypeOK'
      BY <2>2, <2>3 DEF KeyInv, DecryptTypeOK
    <2>5. KeystreamAligned'
      BY <2>2, <2>3 DEF KeyInv, DecryptTypeOK, KeystreamAligned
    <2> QED BY <2>4, <2>5 DEF KeyInv
  <1> QED BY <1>1, <1>2

(***************************************************************************)
(* A payload is a payload of the one key stream.                           *)
(***************************************************************************)
LEMMA NextStream ==
  ASSUME LongEnough, KeyInv, DecryptNext
  PROVE  OneStream!Next
  <1>1. PICK inputLen \in Lengths : mirror_buffer_decrypt(inputLen)
    BY DEF DecryptNext
  <1>2. inputLen \in Nat /\ inputLen >= 15
    BY LengthsAssumption DEF LongEnough
  <1>3. PICK q \in Nat, r \in 0 .. 15 :
          /\ inputLen = nextDecryptCount + 16 * q + r
          /\ seen' = seen + inputLen
          /\ out' = [i \in 0 .. nextDecryptCount + 16 * q + r - 1 |->
                       IF i < nextDecryptCount
                         THEN 16 * og + 16 - nextDecryptCount + i
                         ELSE 16 * blocks + i - nextDecryptCount]
    BY <1>1, <1>2, DecryptStep
  <1>4. \A i \in 0 .. inputLen - 1 :
           (IF i < nextDecryptCount
              THEN 16 * og + 16 - nextDecryptCount + i
              ELSE 16 * blocks + i - nextDecryptCount) = seen + i
    BY <1>2 DEF KeyInv, DecryptTypeOK, KeystreamAligned
  <1>5. out' = [i \in 0 .. inputLen - 1 |-> seen + i]
    <2>1. nextDecryptCount + 16 * q + r - 1 = inputLen - 1
      BY <1>3 DEF KeyInv, DecryptTypeOK
    <2> QED BY <1>3, <1>4, <2>1, Zenon
  <1>6. seen =< MaxSeen
    BY <1>1 DEF mirror_buffer_decrypt
  <1>7. OneStream!Decrypt(inputLen)
    BY <1>3, <1>5, <1>6 DEF OneStream!Decrypt
  <1> QED BY <1>7 DEF OneStream!Next

(***************************************************************************)
(* A step of the composition is a step or a stutter of both of its parts.  *)
(***************************************************************************)
LEMMA StreamParts ==
  ASSUME [StreamNext]_streamVars
  PROVE  [Next]_vars /\ [DecryptNext]_decryptVars
  BY DEF StreamNext, streamVars, EncryptedFrame, PlainFrame, Beside, Next, Sender, DecryptNext

(***************************************************************************)
(* However the sender cuts its stream into payloads of 15 bytes and more,  *)
(* and whichever thread ends the session when, each byte meets the key     *)
(* byte at its own place (mirror_buffer_decrypt as raop_rtp_mirror_thread  *)
(* calls it).                                                              *)
(***************************************************************************)
THEOREM Implements ==
  ASSUME LongEnough
  PROVE  StreamSpec => OneKeyStream
  <1>1. StreamInit => KeyInv /\ OneStream!Init
    BY KeyInitInv DEF StreamInit, DecryptInit, OneStream!Init
  <1>2. KeyInv /\ [StreamNext]_streamVars => KeyInv'
    BY KeyNextInv, StreamParts
  <1>3. KeyInv /\ [DecryptNext]_decryptVars => [OneStream!Next]_<<seen, out>>
    BY NextStream DEF decryptVars
  <1>4. KeyInv /\ [StreamNext]_streamVars => [OneStream!Next]_<<seen, out>>
    BY <1>3, StreamParts
  <1> QED BY <1>1, <1>2, <1>4, PTL DEF StreamSpec, OneKeyStream, OneStream!Spec

(***************************************************************************)
(* The session invariants hold with the decryption beside them, for any    *)
(* sizes of payloads: closed once, freed clean, joined last                *)
(* (raop_rtp_mirror.c:547-563, 613-672).                                   *)
(***************************************************************************)
THEOREM StreamSafety == StreamSpec => [](ThreadsInv /\ CloseOnceInv /\ FreedInv)
  <1>1. IInv => ThreadsInv /\ CloseOnceInv /\ FreedInv
    BY SafetyOfIInv
  <1>2. StreamInit => IInv
    BY InitInv DEF StreamInit
  <1>3. IInv /\ [StreamNext]_streamVars => IInv'
    BY NextInv, StreamParts
  <1> QED BY <1>1, <1>2, <1>3, PTL DEF StreamSpec
=============================================================================
