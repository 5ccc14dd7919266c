---------------------------- MODULE RaopSessions ----------------------------
(***************************************************************************)
(* Who owns the media sessions of the receiver: the control connections    *)
(* of cpp/lib/raop.c with the SETUP and TEARDOWN handlers                  *)
(* (raop_handlers.h), the tables of active sessions, and raop_destroy.     *)
(*                                                                         *)
(* A first SETUP makes a session: an audio object (raop_rtp_t) and a       *)
(* mirror object (raop_rtp_mirror_t).  Both are pointed to by the          *)
(* connection and by the tables.  Handlers run one at a time on the HTTP   *)
(* thread (Httpd); a mirror thread may end at any moment (RaopMirror).     *)
(* Destroying an object that runs stops and joins its threads first; the   *)
(* last thing a mirror thread does is to call stream_stopped.              *)
(***************************************************************************)
EXTENDS Naturals, FiniteSets

CONSTANTS
    Conns,        \* control connections
    Sessions,     \* names for the sessions made by first SETUPs (bound)
    NoSession,    \* the null pointer
    MaxActive     \* MAX_ACTIVE_SESSIONS: entries in each table (16)

ASSUME SessionsAssumption ==
    /\ NoSession \notin Sessions
    /\ MaxActive \in Nat

VARIABLES
    server,                   \* "up", "stopping" inside httpd_stop, "gone"
    conn,                     \* connections: "closed", "open", "closing" once the
                              \* answer to a request asked for a disconnect
    setup,                    \* conn->setup, which counts on but is told apart up to 2
    raop_rtp, raop_rtp_mirror,       \* the connection's pointers
    audio_started, mirror_started,   \* its flags
    notified,                 \* conn->stream_stopped_notified
    active_rtps, active_mirrors,     \* the tables, as sets
    rtp, mirror,              \* the objects: "none", "created", "running", "ended"
                              \* (a mirror whose thread ended by itself), "destroyed"
    made,                     \* history: sessions whose first SETUP is done
    ran,                      \* history: sessions whose mirror thread was started
    stops                     \* history: calls of stream_stopped, by session

pointers == <<raop_rtp, raop_rtp_mirror>>
flags == <<audio_started, mirror_started, notified>>
connVars == <<conn, setup, pointers, flags>>
tables == <<active_rtps, active_mirrors>>
objects == <<rtp, mirror>>
hist == <<made, ran, stops>>
vars == <<server, connVars, tables, objects, hist>>

Init ==
    /\ server = "up"
    /\ conn = [c \in Conns |-> "closed"]
    /\ setup = [c \in Conns |-> 0]
    /\ raop_rtp = [c \in Conns |-> NoSession]
    /\ raop_rtp_mirror = [c \in Conns |-> NoSession]
    /\ audio_started = [c \in Conns |-> FALSE]
    /\ mirror_started = [c \in Conns |-> FALSE]
    /\ notified = [c \in Conns |-> FALSE]
    /\ active_rtps = {} /\ active_mirrors = {}
    /\ rtp = [s \in Sessions |-> "none"]
    /\ mirror = [s \in Sessions |-> "none"]
    /\ made = {} /\ ran = {}
    /\ stops = [s \in Sessions |-> 0]

(* raop_add_active_rtp, raop_add_active_mirror: a full table drops the entry. *)
AddActive(table, s) ==
    IF Cardinality(table) < MaxActive THEN table \cup {s} ELSE table

(* raop_rtp_destroy and raop_rtp_mirror_destroy of every object of a set. *)
Destroy(obj, S) == [s \in Sessions |-> IF s \in S THEN "destroyed" ELSE obj[s]]

(* The stream_stopped calls of the mirror threads that a destroy ends. *)
ThreadStops(S) ==
    [s \in Sessions |-> stops[s] + IF s \in S /\ mirror[s] = "running" THEN 1 ELSE 0]

(* The HTTP thread serves until httpd_stop has joined it. *)
Ready(c) == server # "gone" /\ conn[c] = "open"

(***************************************************************************)
(* conn_init                                                               *)
(***************************************************************************)
Connect(c) ==
    /\ server # "gone"
    /\ conn[c] = "closed"
    /\ conn' = [conn EXCEPT ![c] = "open"]
    /\ UNCHANGED <<server, setup, pointers, flags, tables, objects, hist>>

(***************************************************************************)
(* raop_handler_setup                                                      *)
(***************************************************************************)

(* Key material missing or malformed, no stream type in a state that needs *)
(* one, a video SETUP without its identifiers: answered with a disconnect,  *)
(* after which setup is not looked at again.                                *)
SetupRefused(c) ==
    /\ Ready(c)
    /\ conn' = [conn EXCEPT ![c] = "closing"]
    /\ UNCHANGED <<server, setup, pointers, flags, tables, objects, hist>>

(* Each object may fail to be made: then its pointer is null. *)
FirstSetup(c) ==
    /\ Ready(c)
    /\ setup[c] = 0
    /\ setup' = [setup EXCEPT ![c] = 1]
    /\ \E s \in Sessions \ made, gotRtp \in BOOLEAN, gotMirror \in BOOLEAN :
         /\ made' = made \cup {s}
         /\ rtp' = [rtp EXCEPT ![s] = IF gotRtp THEN "created" ELSE "none"]
         /\ mirror' = [mirror EXCEPT ![s] = IF gotMirror THEN "created" ELSE "none"]
         /\ raop_rtp' =
              [raop_rtp EXCEPT ![c] = IF gotRtp THEN s ELSE NoSession]
         /\ raop_rtp_mirror' =
              [raop_rtp_mirror EXCEPT ![c] = IF gotMirror THEN s ELSE NoSession]
         /\ active_rtps' =
              IF gotRtp THEN AddActive(active_rtps, s) ELSE active_rtps
         /\ active_mirrors' =
              IF gotMirror THEN AddActive(active_mirrors, s) ELSE active_mirrors
    /\ UNCHANGED <<server, conn, flags, ran, stops>>

(* A mirror that runs, or ended and was not joined, is not started again, *)
(* and sockets may fail; the connection is told "ready" all the same.     *)
VideoSetup(c) ==
    /\ Ready(c)
    /\ setup[c] > 0
    /\ setup' = [setup EXCEPT ![c] = 2]
    /\ LET s == raop_rtp_mirror[c] IN
         IF s = NoSession
         THEN /\ conn' = [conn EXCEPT ![c] = "closing"]
              /\ UNCHANGED <<mirror_started, notified, mirror, ran>>
         ELSE /\ \/ /\ mirror[s] = "created"
                    /\ mirror' = [mirror EXCEPT ![s] = "running"]
                    /\ ran' = ran \cup {s}
                 \/ UNCHANGED <<mirror, ran>>
              /\ mirror_started' = [mirror_started EXCEPT ![c] = TRUE]
              /\ notified' = [notified EXCEPT ![c] = FALSE]
              /\ UNCHANGED conn
    /\ UNCHANGED <<server, pointers, audio_started, tables, rtp, made, stops>>

AudioSetup(c) ==
    /\ Ready(c)
    /\ setup[c] > 0
    /\ setup' = [setup EXCEPT ![c] = 2]
    /\ LET s == raop_rtp[c] IN
         IF s = NoSession
         THEN /\ conn' = [conn EXCEPT ![c] = "closing"]
              /\ UNCHANGED <<audio_started, rtp>>
         ELSE /\ \/ /\ rtp[s] = "created"
                    /\ rtp' = [rtp EXCEPT ![s] = "running"]
                 \/ UNCHANGED rtp
              /\ audio_started' = [audio_started EXCEPT ![c] = TRUE]
              /\ UNCHANGED conn
    /\ UNCHANGED <<server, pointers, mirror_started, notified, tables, mirror, hist>>

(* A codec that is not supported, or a decoder that cannot be made: 415. *)
AudioSetupUnsupported(c) ==
    /\ Ready(c)
    /\ setup[c] > 0
    /\ setup' \in {setup, [setup EXCEPT ![c] = 2]}
    /\ UNCHANGED <<server, conn, pointers, flags, tables, objects, hist>>

(***************************************************************************)
(* TEARDOWN of the audio stream, of the mirror stream, or (no stream named *)
(* in the request) of both.  Without a mirror stream the audio takes the   *)
(* unused mirror object along.  The connection stays open.                 *)
(***************************************************************************)
HadMirror(c, teardown_mirror) ==
    teardown_mirror /\ mirror_started[c] /\ raop_rtp_mirror[c] # NoSession

(* Mutant: a pointer is left as it was. *)
KeepPointer(pointer, c, gone) == pointer

SetNull(pointer, c, gone) == [pointer EXCEPT ![c] = IF gone THEN NoSession ELSE @]
SetFalse(flag, c, gone) == [flag EXCEPT ![c] = IF gone THEN FALSE ELSE @]

Teardown(c, teardown_audio, teardown_mirror) ==
    /\ Ready(c)
    /\ LET unused == teardown_audio /\ ~mirror_started[c]
           noMirror == teardown_mirror \/ unused
           audioGone == (IF teardown_audio THEN {raop_rtp[c]} ELSE {}) \ {NoSession}
           mirrorGone == (IF noMirror THEN {raop_rtp_mirror[c]} ELSE {}) \ {NoSession}
           notify == HadMirror(c, teardown_mirror) /\ ~notified[c]
       IN  /\ active_rtps' = active_rtps \ audioGone
           /\ active_mirrors' = active_mirrors \ mirrorGone
           /\ rtp' = Destroy(rtp, audioGone)
           /\ mirror' = Destroy(mirror, mirrorGone)
           /\ stops' = [s \in Sessions |-> ThreadStops(mirrorGone)[s] +
                          IF notify /\ s = raop_rtp_mirror[c] THEN 1 ELSE 0]
           /\ raop_rtp' = SetNull(raop_rtp, c, teardown_audio)
           /\ audio_started' = SetFalse(audio_started, c, teardown_audio)
           /\ raop_rtp_mirror' = SetNull(raop_rtp_mirror, c, noMirror)
           /\ mirror_started' = SetFalse(mirror_started, c, noMirror)
           /\ notified' = [notified EXCEPT ![c] = @ \/ notify]
    /\ UNCHANGED <<server, conn, setup, made, ran>>

(***************************************************************************)
(* conn_destroy, when the sender closes the connection, a request asked    *)
(* for it, or the server stops: a session that is in its table lives on    *)
(* without an owner; one that did not fit is destroyed.                    *)
(***************************************************************************)

(* Mutant: no session is destroyed with its connection. *)
ConnDestroyLeaks(c) ==
    /\ conn[c] # "closed"
    /\ server # "gone"
    /\ conn' = [conn EXCEPT ![c] = "closed"]
    /\ setup' = [setup EXCEPT ![c] = 0]
    /\ raop_rtp' = [raop_rtp EXCEPT ![c] = NoSession]
    /\ raop_rtp_mirror' = [raop_rtp_mirror EXCEPT ![c] = NoSession]
    /\ audio_started' = [audio_started EXCEPT ![c] = FALSE]
    /\ mirror_started' = [mirror_started EXCEPT ![c] = FALSE]
    /\ notified' = [notified EXCEPT ![c] = FALSE]
    /\ UNCHANGED <<server, tables, objects, hist>>

ConnDestroy(c) ==
    /\ conn[c] # "closed"
    /\ server # "gone"
    /\ LET audioGone == {raop_rtp[c]} \ (active_rtps \cup {NoSession})
           mirrorGone == {raop_rtp_mirror[c]} \ (active_mirrors \cup {NoSession})
       IN  /\ rtp' = Destroy(rtp, audioGone)
           /\ mirror' = Destroy(mirror, mirrorGone)
           /\ stops' = ThreadStops(mirrorGone)
    /\ conn' = [conn EXCEPT ![c] = "closed"]
    /\ setup' = [setup EXCEPT ![c] = 0]
    /\ raop_rtp' = [raop_rtp EXCEPT ![c] = NoSession]
    /\ raop_rtp_mirror' = [raop_rtp_mirror EXCEPT ![c] = NoSession]
    /\ audio_started' = [audio_started EXCEPT ![c] = FALSE]
    /\ mirror_started' = [mirror_started EXCEPT ![c] = FALSE]
    /\ notified' = [notified EXCEPT ![c] = FALSE]
    /\ UNCHANGED <<server, tables, made, ran>>

(***************************************************************************)
(* Mirror threads                                                          *)
(***************************************************************************)

(* Mutant: the thread ends without a word. *)
MirrorEndsSilently(s) ==
    /\ mirror[s] = "running"
    /\ mirror' = [mirror EXCEPT ![s] = "ended"]
    /\ UNCHANGED <<server, connVars, tables, rtp, hist>>

(* The sender closed the stream, or it failed. *)
MirrorEnds(s) ==
    /\ mirror[s] = "running"
    /\ mirror' = [mirror EXCEPT ![s] = "ended"]
    /\ stops' = [stops EXCEPT ![s] = @ + 1]
    /\ UNCHANGED <<server, connVars, tables, rtp, made, ran>>

(***************************************************************************)
(* raop_destroy: stop the HTTP thread, which closes the connections, then  *)
(* destroy what the tables hold.                                           *)
(***************************************************************************)
StopServer ==
    /\ server = "up"
    /\ server' = "stopping"
    /\ UNCHANGED <<connVars, tables, objects, hist>>

DestroyActive ==
    /\ server = "stopping"
    /\ \A c \in Conns : conn[c] = "closed"
    /\ rtp' = Destroy(rtp, active_rtps)
    /\ mirror' = Destroy(mirror, active_mirrors)
    /\ stops' = ThreadStops(active_mirrors)
    /\ active_rtps' = {}
    /\ active_mirrors' = {}
    /\ server' = "gone"
    /\ UNCHANGED <<connVars, made, ran>>

Setup(c) ==
    \/ SetupRefused(c) \/ FirstSetup(c) \/ VideoSetup(c)
    \/ AudioSetup(c) \/ AudioSetupUnsupported(c)

Next ==
    \/ \E c \in Conns :
         \/ Connect(c)
         \/ Setup(c)
         \/ \E a, m \in BOOLEAN : (a \/ m) /\ Teardown(c, a, m)
         \/ ConnDestroy(c)
    \/ \E s \in Sessions : MirrorEnds(s)
    \/ StopServer
    \/ DestroyActive

Spec == Init /\ [][Next]_vars

-----------------------------------------------------------------------------
ObjectStates == {"none", "created", "running", "ended", "destroyed"}

TypeOK ==
    /\ server \in {"up", "stopping", "gone"}
    /\ conn \in [Conns -> {"closed", "open", "closing"}]
    /\ setup \in [Conns -> 0..2]
    /\ raop_rtp \in [Conns -> Sessions \cup {NoSession}]
    /\ raop_rtp_mirror \in [Conns -> Sessions \cup {NoSession}]
    /\ audio_started \in [Conns -> BOOLEAN]
    /\ mirror_started \in [Conns -> BOOLEAN]
    /\ notified \in [Conns -> BOOLEAN]
    /\ active_rtps \subseteq Sessions /\ active_mirrors \subseteq Sessions
    /\ rtp \in [Sessions -> ObjectStates]
    /\ mirror \in [Sessions -> ObjectStates]
    /\ made \subseteq Sessions /\ ran \subseteq Sessions
    /\ stops \in [Sessions -> Nat]

Exists(state) == state \notin {"none", "destroyed"}

(***************************************************************************)
(* No pointer of a connection or of a table dangles: what it points to is  *)
(* there, whatever TEARDOWNs, closed connections and full tables came      *)
(* before.  So nothing is destroyed twice and no request reaches an object *)
(* that is gone (raop.c:236-252, 388-424, 436-458).                        *)
(***************************************************************************)
PointersInv ==
    /\ TypeOK
    /\ \A c \in Conns :
         /\ raop_rtp[c] # NoSession => Exists(rtp[raop_rtp[c]])
         /\ raop_rtp_mirror[c] # NoSession => Exists(mirror[raop_rtp_mirror[c]])
    /\ \A s \in active_rtps : Exists(rtp[s])
    /\ \A s \in active_mirrors : Exists(mirror[s])

(***************************************************************************)
(* Every object that exists can still be found: a table or a connection    *)
(* points to it.  So nothing is lost, and raop_destroy leaves no thread    *)
(* that could call back into the JNI context freed right after it          *)
(* (raop.c:517-532, jni_raop_server.cpp:385-394).                          *)
(***************************************************************************)
OwnedInv ==
    \A s \in Sessions :
        /\ Exists(rtp[s]) =>
             s \in active_rtps \/ \E c \in Conns : raop_rtp[c] = s
        /\ Exists(mirror[s]) =>
             s \in active_mirrors \/ \E c \in Conns : raop_rtp_mirror[c] = s

(* In particular: nothing exists once raop_destroy returned. *)
GoneInv == server = "gone" => \A s \in Sessions : ~Exists(rtp[s]) /\ ~Exists(mirror[s])

(***************************************************************************)
(* A connection is the only one to point to its session, a closed one      *)
(* points to none, and a stream it calls started has its object.           *)
(***************************************************************************)
ConnInv ==
    /\ \A c \in Conns :
         /\ conn[c] = "closed" =>
              raop_rtp[c] = NoSession /\ raop_rtp_mirror[c] = NoSession
         /\ audio_started[c] => raop_rtp[c] # NoSession
         /\ mirror_started[c] => raop_rtp_mirror[c] # NoSession
         /\ setup[c] = 0 => raop_rtp[c] = NoSession /\ raop_rtp_mirror[c] = NoSession
    /\ \A c, d \in Conns : c # d =>
         /\ raop_rtp[c] = NoSession \/ raop_rtp[c] # raop_rtp[d]
         /\ raop_rtp_mirror[c] = NoSession \/ raop_rtp_mirror[c] # raop_rtp_mirror[d]

(***************************************************************************)
(* Kotlin is told of every mirror stream that stopped, however it stopped: *)
(* at least once, and at most twice (the thread, then TEARDOWN).           *)
(***************************************************************************)
StopsInv ==
    \A s \in ran : mirror[s] # "running" => stops[s] \in 1..2

(***************************************************************************)
(* The inductive invariant: with it, that a session not made yet has no    *)
(* objects, what raop_destroy left, and the exact count of the stops.      *)
(***************************************************************************)
MadeInv == \A s \in Sessions \ made : rtp[s] = "none" /\ mirror[s] = "none"

LeftInv ==
    server = "gone" =>
        /\ active_rtps = {} /\ active_mirrors = {}
        /\ \A c \in Conns : conn[c] = "closed"

StopCountInv ==
    \A s \in Sessions :
        /\ mirror[s] \in {"none", "created"} => s \notin ran /\ stops[s] = 0
        /\ mirror[s] = "running" => stops[s] = 0
        /\ mirror[s] = "ended" => stops[s] = 1
        /\ mirror[s] = "destroyed" /\ s \in ran => stops[s] \in 1..2

IInv ==
    PointersInv /\ OwnedInv /\ ConnInv /\ MadeInv /\ LeftInv /\ StopCountInv

(***************************************************************************)
(* "Control connection closed while media session is active; keeping media *)
(* session alive" (raop.c:442): a closed connection destroys no session    *)
(* whose threads run.                                                      *)
(***************************************************************************)
KeptAlive ==
    [][\A c \in Conns :
         (conn[c] # "closed" /\ conn'[c] = "closed") =>
             \A s \in Sessions :
                 /\ rtp[s] = "running" => rtp'[s] = "running"
                 /\ mirror[s] = "running" => mirror'[s] = "running"]_vars

(***************************************************************************)
(* "The sender sends TEARDOWN [...]  Native RAOP invokes the stream-stopped *)
(* callback" (docs/architecture.md:171): a TEARDOWN that ends a stream and *)
(* leaves the connection without any calls stream_stopped.                 *)
(***************************************************************************)
TeardownAnnounced ==
    [][\A c \in Conns :
         (/\ conn[c] = "open" /\ conn'[c] = "open"
          /\ raop_rtp[c] # NoSession /\ raop_rtp'[c] = NoSession
          /\ rtp[raop_rtp[c]] = "running"
          /\ raop_rtp_mirror'[c] = NoSession) => stops' # stops]_vars
=============================================================================
