---------------------------- MODULE RaopControl -----------------------------
(***************************************************************************)
(* The control server as the JNI bridge starts and destroys it: the HTTP   *)
(* pool of Httpd with the handlers and sessions of RaopSessions.  The pool *)
(* calls conn_init, conn_request and conn_destroy; a user of the pool is a *)
(* connection of raop.c.  raop_start is called once, raop_destroy stops    *)
(* the pool and then destroys what the tables of sessions still hold.      *)
(*                                                                         *)
(* To destroy an audio session that runs is to join its threads, and the   *)
(* timing thread may wait for an answer of the sender for ever: whoever    *)
(* destroys it, a handler or raop_destroy, is then stuck in the join.      *)
(***************************************************************************)
EXTENDS RaopSessions, Httpd

ASSUME ControlAssumption == Users = Conns

VARIABLE
    stuck      \* the session whose timing thread is joined and never ends, or
               \* NoSession

sessionVars == <<server, connVars, tables, objects, hist>>
controlVars == <<sessionVars, httpdVars, stuck>>

ControlInit == Init /\ HttpdInit /\ stuck = NoSession

(* raop_start, which may find no port to listen on and start nothing. *)
raop_start == server = "up" /\ Start /\ UNCHANGED <<sessionVars, stuck>>

(* raop_destroy: httpd_stop does nothing to a pool that was not started. *)
StopPool == StopServer /\ StopBegin /\ UNCHANGED stuck
StopNothing == StopServer /\ joined /\ UNCHANGED <<httpdVars, stuck>>
PoolJoined == StopJoined /\ UNCHANGED <<sessionVars, stuck>>

raop_destroy_active_sessions ==
    DestroyActive /\ joined /\ stuck = NoSession /\ UNCHANGED <<httpdVars, stuck>>

(* conn_init of a connection that was accepted *)
Accept ==
    /\ AddConnection
    /\ \E c \in Conns : live' = live \cup {c} /\ Connect(c)

(* A request that is complete: an answer that asks for a disconnect leaves *)
(* the slot to be removed in the same turn of the scan.                    *)
Served(c) ==
    IF conn'[c] = "closing" THEN UNCHANGED httpdVars ELSE ScanKeep

conn_request ==
    /\ thread = "scan"
    /\ \E slot \in Due :
         LET c == slot.user
         IN  /\ \/ Setup(c)
                \/ \E a, m \in BOOLEAN : (a \/ m) /\ Teardown(c, a, m)
             /\ Served(c)

(* Part of a request, or one that leaves the sessions as they are. *)
OtherRequest ==
    /\ ScanKeep
    /\ \A slot \in Due : conn[slot.user] = "open"
    /\ UNCHANGED sessionVars

(* httpd_remove_connection, from the scan or when the thread ends. *)
Disconnect ==
    /\ ScanRemove \/ Cleanup
    /\ \E c \in Conns : live' = live \ {c} /\ c \in live /\ ConnDestroy(c)

PoolOnly ==
    /\ \/ Check \/ SelectReady \/ SelectTimeout \/ SelectError
       \/ NothingToAccept \/ AcceptError \/ AddFails \/ ScanDone \/ Finish
    /\ UNCHANGED sessionVars

HttpThread ==
    /\ stuck = NoSession
    /\ Accept \/ conn_request \/ OtherRequest \/ Disconnect \/ PoolOnly
    /\ UNCHANGED stuck

MirrorThreadEnds ==
    /\ \E s \in Sessions : MirrorEnds(s)
    /\ UNCHANGED <<httpdVars, stuck>>

(***************************************************************************)
(* A destroy of an audio session that does not come back: TEARDOWN, which  *)
(* took the session out of its table before; conn_destroy of a connection  *)
(* whose session did not fit the table; raop_destroy_active_sessions.      *)
(***************************************************************************)
TeardownHangs(s) ==
    /\ thread = "scan"
    /\ \E slot \in Due : Ready(slot.user) /\ raop_rtp[slot.user] = s
    /\ active_rtps' = active_rtps \ {s}

ConnDestroyHangs(s) ==
    /\ s \notin active_rtps
    /\ \E slot \in connections :
         /\ raop_rtp[slot.user] = s
         /\ \/ thread = "scan" /\ slot \in Due
            \/ thread = "cleanup" /\ \A d \in connections : slot.slot <= d.slot
    /\ UNCHANGED active_rtps

DestroyActiveHangs(s) ==
    /\ server = "stopping" /\ joined
    /\ \A c \in Conns : conn[c] = "closed"
    /\ s \in active_rtps
    /\ UNCHANGED active_rtps

TimingJoinHangs ==
    /\ stuck = NoSession
    /\ \E s \in Sessions :
         /\ rtp[s] = "running"
         /\ TeardownHangs(s) \/ ConnDestroyHangs(s) \/ DestroyActiveHangs(s)
         /\ stuck' = s
    /\ UNCHANGED <<server, connVars, active_mirrors, objects, hist, httpdVars>>

ControlNext ==
    \/ raop_start \/ StopPool \/ StopNothing \/ PoolJoined
    \/ raop_destroy_active_sessions
    \/ HttpThread \/ MirrorThreadEnds \/ TimingJoinHangs

(* The thread runs and raop_destroy goes on, each while no join holds it. *)
ControlSpec ==
    /\ ControlInit /\ [][ControlNext]_controlVars
    /\ WF_controlVars(HttpThread)
    /\ WF_controlVars(PoolJoined \/ raop_destroy_active_sessions)

-----------------------------------------------------------------------------
(***************************************************************************)
(* Pool and handlers agree: the connections raop.c holds open are exactly  *)
(* the user data of the slots, each destroyed once, so no handler is given *)
(* a connection that is gone; and a thread that ended, for whatever reason,*)
(* left none of them (httpd.c:117, 177, 341-349, raop.c:436-458).          *)
(***************************************************************************)
ServedInv ==
    /\ PoolInv /\ StoppedInv
    /\ {c \in Conns : conn[c] # "closed"} = live

(***************************************************************************)
(* raop_destroy returns, whatever the HTTP thread is doing, whether the    *)
(* pool runs, ended by an error or never started, unless it or a handler   *)
(* waits for a timing thread that never ends: nothing else can hold it,    *)
(* and only when it returned is there nothing left that could call back    *)
(* (jni_raop_server.cpp:385-394, raop_rtp.c:403, 702).                     *)
(***************************************************************************)
DestroyReturns == server = "stopping" ~> server = "gone" \/ stuck # NoSession
==============================================================================
