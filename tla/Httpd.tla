------------------------------- MODULE Httpd -------------------------------
(***************************************************************************)
(* The connection pool of cpp/lib/httpd.c: one thread selects on the       *)
(* server socket and the connections, accepts, reads requests and calls    *)
(* back into raop.c (conn_init, conn_request, conn_destroy); the owner     *)
(* starts it and stops it.  What these calls do is RaopSessions' business  *)
(* (RaopControl has both): here a request keeps or ends its connection.    *)
(* server_fd6 is -1 in every build (httpd.c:382), so there is one server   *)
(* socket.                                                                 *)
(***************************************************************************)
EXTENDS Naturals, FiniteSets, FiniteSetsExt

CONSTANTS
    MaxConnections,  \* slots in the pool
    Users            \* names for what conn_init returns, enough for the slots

ASSUME PoolAssumption ==
    /\ MaxConnections \in Nat \ {0}
    /\ IsFiniteSet(Users)
    /\ Cardinality(Users) >= MaxConnections

VARIABLES
    running, joined,    \* guarded by run_mutex
    server_fd4,         \* the server socket: "closed" or "listening"
    open_connections,
    connections,        \* the slots: a set of records, one per slot connected
    thread,             \* "none", "check", "select", "accept", "scan",
                        \* "cleanup", "done"
    rfds,               \* what select found readable: slots, and 0 for the server
    owner,              \* "idle", or "join" inside httpd_stop
    live                \* history: user data initialised and not destroyed

httpdVars == <<running, joined, server_fd4, open_connections, connections, thread,
          rfds, owner, live>>
poolVars == <<open_connections, connections, live>>
ownerVars == <<running, joined, owner>>

Slots == 1..MaxConnections
Connected == {c.slot : c \in connections}
FreeSlots == Slots \ Connected

HttpdInit ==
    /\ running = FALSE /\ joined = TRUE
    /\ server_fd4 = "closed"
    /\ open_connections = 0 /\ connections = {}
    /\ thread = "none" /\ rfds = {}
    /\ owner = "idle"
    /\ live = {}

(***************************************************************************)
(* The owner: httpd_start, httpd_stop                                      *)
(***************************************************************************)
Start ==
    /\ owner = "idle"
    /\ ~running /\ joined
    /\ running' = TRUE
    /\ joined' = FALSE
    /\ server_fd4' = "listening"
    /\ thread' = "check"
    /\ UNCHANGED <<poolVars, rfds, owner>>

StopBegin ==
    /\ owner = "idle"
    /\ running /\ ~joined
    /\ running' = FALSE
    /\ owner' = "join"
    /\ UNCHANGED <<joined, server_fd4, poolVars, thread, rfds>>

StopJoined ==
    /\ owner = "join"
    /\ thread = "done"
    /\ joined' = TRUE
    /\ owner' = "idle"
    /\ UNCHANGED <<running, server_fd4, poolVars, thread, rfds>>

(***************************************************************************)
(* httpd_thread                                                            *)
(***************************************************************************)
(* Mutant: running is read once, when the thread starts. *)
CheckNever ==
    /\ thread = "check"
    /\ thread' = "select"
    /\ UNCHANGED <<ownerVars, server_fd4, poolVars, rfds>>

Check ==
    /\ thread = "check"
    /\ thread' = IF running THEN "select" ELSE "cleanup"
    /\ UNCHANGED <<ownerVars, server_fd4, poolVars, rfds>>

(* The server socket is watched only while a slot is free. *)
Watched ==
    (IF open_connections < MaxConnections THEN {0} ELSE {}) \cup Connected

SelectReady ==
    /\ thread = "select"
    /\ \E ready \in SUBSET Watched \ {{}} : rfds' = ready
    /\ thread' = "accept"
    /\ UNCHANGED <<ownerVars, server_fd4, poolVars>>

(* Nothing in about a second; or an error, which ends the thread. *)
SelectTimeout ==
    /\ thread = "select"
    /\ thread' = "check"
    /\ UNCHANGED <<ownerVars, server_fd4, poolVars, rfds>>

SelectError ==
    /\ thread = "select"
    /\ thread' = "cleanup"
    /\ UNCHANGED <<ownerVars, server_fd4, poolVars, rfds>>

NothingToAccept ==
    /\ thread = "accept"
    /\ 0 \notin rfds
    /\ thread' = "scan"
    /\ UNCHANGED <<ownerVars, server_fd4, poolVars, rfds>>

(* httpd_add_connection: conn_init, the counter, the first slot that is free. *)
AddConnection ==
    /\ thread = "accept"
    /\ 0 \in rfds
    /\ FreeSlots # {}
    /\ \E u \in Users \ live :
         /\ connections' = connections \cup
                {[slot |-> Min(FreeSlots), user |-> u]}
         /\ live' = live \cup {u}
    /\ open_connections' = open_connections + 1
    /\ thread' = "scan"
    /\ UNCHANGED <<ownerVars, server_fd4, rfds>>

(* accept fails and ends the thread. *)
AcceptError ==
    /\ thread = "accept"
    /\ 0 \in rfds
    /\ thread' = "cleanup"
    /\ UNCHANGED <<ownerVars, server_fd4, poolVars, rfds>>

(* conn_init fails: the socket is closed and the scan is skipped. *)
AddFails ==
    /\ thread = "accept"
    /\ 0 \in rfds
    /\ thread' = "check"
    /\ UNCHANGED <<ownerVars, server_fd4, poolVars, rfds>>

(* The connection the scan comes to next. *)
Due == {c \in connections : c.slot \in rfds /\
            \A d \in connections : d.slot \in rfds => c.slot <= d.slot}

(* httpd_remove_connection: conn_destroy, close, free the slot, count. *)
Remove(c) ==
    /\ live' = live \ {c.user}
    /\ connections' = connections \ {c}
    /\ open_connections' = open_connections - 1

(* End of file, a request that does not parse, or one whose answer was     *)
(* marked by http_response_set_disconnect.  An error of recv reaches the   *)
(* parser as a length of -1: it may end either way.  TEARDOWN answers      *)
(* "Connection: close" without that mark: it keeps.                        *)
ScanRemove ==
    /\ thread = "scan"
    /\ \E c \in Due :
         /\ Remove(c)
         /\ rfds' = rfds \ {c.slot}
    /\ UNCHANGED <<ownerVars, server_fd4, thread>>

(* A request begun and not complete; or complete, answered and freed. *)
ScanKeep ==
    /\ thread = "scan"
    /\ \E c \in Due : rfds' = rfds \ {c.slot}
    /\ UNCHANGED <<ownerVars, server_fd4, poolVars, thread>>

ScanDone ==
    /\ thread = "scan"
    /\ Due = {}
    /\ thread' = "check"
    /\ UNCHANGED <<ownerVars, server_fd4, poolVars, rfds>>

Cleanup ==
    /\ thread = "cleanup"
    /\ \E c \in connections :
         /\ \A d \in connections : c.slot <= d.slot
         /\ Remove(c)
    /\ UNCHANGED <<ownerVars, server_fd4, thread, rfds>>

(* Mutant: the thread ends without a look at the connections. *)
FinishAtOnce ==
    /\ thread = "cleanup"
    /\ server_fd4' = "closed"
    /\ thread' = "done"
    /\ UNCHANGED <<ownerVars, poolVars, rfds>>

Finish ==
    /\ thread = "cleanup"
    /\ connections = {}
    /\ server_fd4' = "closed"
    /\ thread' = "done"
    /\ UNCHANGED <<ownerVars, poolVars, rfds>>

Thread ==
    \/ Check \/ SelectReady \/ SelectTimeout \/ SelectError
    \/ NothingToAccept \/ AddConnection \/ AcceptError \/ AddFails
    \/ ScanRemove \/ ScanKeep \/ ScanDone \/ Cleanup \/ Finish

HttpdNext == Start \/ StopBegin \/ StopJoined \/ Thread

(* The thread runs, its callbacks return, and a join ends when it can. *)
HttpdSpec == HttpdInit /\ [][HttpdNext]_httpdVars /\ WF_httpdVars(Thread) /\ WF_httpdVars(StopJoined)

-----------------------------------------------------------------------------
HttpdTypeOK ==
    /\ running \in BOOLEAN /\ joined \in BOOLEAN
    /\ server_fd4 \in {"closed", "listening"}
    /\ open_connections \in 0..MaxConnections
    /\ connections \subseteq [slot : Slots, user : Users]
    /\ thread \in {"none", "check", "select", "accept", "scan", "cleanup", "done"}
    /\ rfds \subseteq {0} \cup Slots
    /\ owner \in {"idle", "join"}
    /\ live \subseteq Users

(***************************************************************************)
(* The pool is consistent: the counter is the number of slots connected,   *)
(* a slot has one connection, and conn_init and conn_destroy are paired:   *)
(* what is live is exactly what the slots hold (httpd.c:100-128, 170-182). *)
(***************************************************************************)
PoolInv ==
    /\ HttpdTypeOK
    /\ open_connections = Cardinality(connections)
    /\ \A c, d \in connections : c.slot = d.slot \/ c.user = d.user => c = d
    /\ live = {c.user : c \in connections}

(***************************************************************************)
(* "This code should never be reached, we do not select server_fds when    *)
(* full" (httpd.c:112): when a connection is accepted there is a slot.     *)
(***************************************************************************)
NeverFullInv == thread = "accept" /\ 0 \in rfds => FreeSlots # {}

(***************************************************************************)
(* When httpd_stop returns, and when the thread ended by itself, nothing   *)
(* is left: no user data, no connection, no server socket, so the next     *)
(* httpd_start finds an empty pool (httpd.c:337-361).                      *)
(***************************************************************************)
StoppedInv ==
    thread \in {"none", "done"} =>
        live = {} /\ open_connections = 0 /\ server_fd4 = "closed"

(***************************************************************************)
(* httpd_is_running is false again only after a stop: a thread that ended  *)
(* by itself must still be joined before the next start (httpd.c:420-432). *)
(***************************************************************************)
JoinedInv ==
    joined => ~running /\ thread \in {"none", "done"}
=============================================================================
