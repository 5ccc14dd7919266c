------------------------------ MODULE RaopRtp ------------------------------
(***************************************************************************)
(* An audio session, raop_rtp_t of cpp/lib/raop_rtp.c: its life from       *)
(* raop_rtp_start_audio to raop_rtp_destroy, its UDP and timing threads,   *)
(* and the mailbox through which the HTTP thread hands the UDP thread      *)
(* volume, flush, metadata, cover art, remote control ids and progress.    *)
(* What the UDP thread does with packets is in RaopUdp.                    *)
(*                                                                         *)
(* A value of the mailbox is the number of the call that set it; 0 is      *)
(* none.  One mutex, run_mutex, guards the mailbox, running and joined:    *)
(* what is done under it is one action.                                    *)
(***************************************************************************)
EXTENDS Naturals, Sequences

CONSTANTS
    Mailbox,   \* the fields of the mailbox, in the order of their callbacks
    MaxSets    \* calls of each setter (bound)

ASSUME MailboxAssumption ==
    /\ Mailbox \in Seq(STRING)
    /\ MaxSets \in Nat

Kinds == {Mailbox[i] : i \in 1..Len(Mailbox)}

VARIABLES
    running, joined,   \* the fields of raop_rtp_s
    sockets,           \* csock, tsock, dsock: "none", "open", "closed"
    pending,           \* the mailbox
    udp,               \* the UDP thread: "none", "events", "callbacks", "select", "done"
    taken, turn,       \* its copy of the mailbox, and the callback due
    time,              \* the timing thread: "none", "check", "recv", "wait", "done"
    http,              \* raop_rtp_destroy: "idle", "joinUdp", "signal",
                       \* "joinTime", "close", "destroyed"
    newest,            \* history: the last value set, by field
    delivered          \* history: the last value a callback got, by field

mailVars == <<pending, taken, turn, newest, delivered>>
lifeVars == <<running, joined, sockets>>
rtpVars == <<lifeVars, mailVars, udp, time, http>>

None == [k \in Kinds |-> 0]

RtpInit ==
    /\ running = FALSE /\ joined = TRUE /\ sockets = "none"
    /\ pending = None /\ taken = None /\ turn = 1
    /\ newest = None /\ delivered = None
    /\ udp = "none" /\ time = "none" /\ http = "idle"

(***************************************************************************)
(* The HTTP thread                                                         *)
(***************************************************************************)
CanStart == ~running /\ joined

StartAudio ==
    /\ http = "idle"
    /\ CanStart
    /\ running' = TRUE
    /\ joined' = FALSE
    /\ sockets' = "open"
    /\ udp' = "events"
    /\ time' = "check"
    /\ UNCHANGED <<mailVars, http>>

(* The setters and raop_rtp_flush: what is pending is overwritten. *)
Set(k) ==
    /\ http = "idle"
    /\ newest[k] < MaxSets
    /\ newest' = [newest EXCEPT ![k] = @ + 1]
    /\ pending' = [pending EXCEPT ![k] = newest[k] + 1]
    /\ UNCHANGED <<lifeVars, udp, taken, turn, time, http, delivered>>

(* raop_rtp_destroy: raop_rtp_stop, unless there is nothing to stop. *)
DestroyIdle ==
    /\ http = "idle"
    /\ ~running \/ joined
    /\ http' = "destroyed"
    /\ UNCHANGED <<lifeVars, mailVars, udp, time>>

StopBegin ==
    /\ http = "idle"
    /\ running /\ ~joined
    /\ running' = FALSE
    /\ http' = "joinUdp"
    /\ UNCHANGED <<joined, sockets, mailVars, udp, time>>

JoinUdp ==
    /\ http = "joinUdp"
    /\ udp = "done"
    /\ http' = "signal"
    /\ UNCHANGED <<lifeVars, mailVars, udp, time>>

(* The condition variable keeps no signal: a thread not yet in wait misses it. *)
SignalTime ==
    /\ http = "signal"
    /\ time' = IF time = "wait" THEN "check" ELSE time
    /\ http' = "joinTime"
    /\ UNCHANGED <<lifeVars, mailVars, udp>>

JoinTime ==
    /\ http = "joinTime"
    /\ time = "done"
    /\ http' = "close"
    /\ UNCHANGED <<lifeVars, mailVars, udp, time>>

(* Close the sockets, flush the buffer, mark as joined, free the session. *)
CloseAndFree ==
    /\ http = "close"
    /\ sockets' = "closed"
    /\ joined' = TRUE
    /\ http' = "destroyed"
    /\ UNCHANGED <<running, mailVars, udp, time>>

Stop == StopBegin \/ JoinUdp \/ SignalTime \/ JoinTime \/ CloseAndFree

(***************************************************************************)
(* The UDP thread                                                          *)
(***************************************************************************)

(* Mutant: the first callback is skipped, off by one. *)
TakeMailSkipsFirst ==
    /\ udp = "events"
    /\ running
    /\ taken' = pending
    /\ pending' = None
    /\ turn' = 2
    /\ udp' = "callbacks"
    /\ UNCHANGED <<lifeVars, time, http, newest, delivered>>

TakeMail ==
    /\ udp = "events"
    /\ running
    /\ taken' = pending
    /\ pending' = None
    /\ turn' = 1
    /\ udp' = "callbacks"
    /\ UNCHANGED <<lifeVars, time, http, newest, delivered>>

UdpExit ==
    /\ udp = "events"
    /\ ~running
    /\ udp' = "done"
    /\ UNCHANGED <<lifeVars, mailVars, time, http>>

(* One callback after the other, for the fields that were set. *)
Callback ==
    /\ udp = "callbacks"
    /\ turn <= Len(Mailbox)
    /\ LET k == Mailbox[turn] IN
         /\ delivered' = IF taken[k] = 0 THEN delivered
                                         ELSE [delivered EXCEPT ![k] = taken[k]]
         /\ taken' = [taken EXCEPT ![k] = 0]
    /\ turn' = turn + 1
    /\ UNCHANGED <<lifeVars, pending, udp, time, http, newest>>

(* Mutant: the fields are reset after their callbacks, not when they are read. *)
ResetAfterCallbacks ==
    /\ udp = "callbacks"
    /\ turn > Len(Mailbox)
    /\ pending' = None
    /\ udp' = "select"
    /\ UNCHANGED <<lifeVars, taken, turn, newest, delivered, time, http>>

CallbacksDone ==
    /\ udp = "callbacks"
    /\ turn > Len(Mailbox)
    /\ udp' = "select"
    /\ UNCHANGED <<lifeVars, mailVars, time, http>>

(* select, 5 ms at most, and a packet handled; or an error that ends the thread. *)
Select ==
    /\ udp = "select"
    /\ udp' = "events"
    /\ UNCHANGED <<lifeVars, mailVars, time, http>>

SelectFails ==
    /\ udp = "select"
    /\ udp' = "done"
    /\ UNCHANGED <<lifeVars, mailVars, time, http>>

RtpUdpThread ==
    TakeMail \/ UdpExit \/ Callback \/ CallbacksDone \/ Select \/ SelectFails

(***************************************************************************)
(* The timing thread.  Its socket has no receive timeout: recvfrom returns *)
(* when the sender answers, and nothing in the program makes it return.    *)
(***************************************************************************)
(* Mutant: the thread does not look at running. *)
TimeCheckIgnoresStop ==
    /\ time = "check"
    /\ time' = "recv"
    /\ UNCHANGED <<lifeVars, mailVars, udp, http>>

TimeCheck ==
    /\ time = "check"
    /\ time' = IF running THEN "recv" ELSE "done"
    /\ UNCHANGED <<lifeVars, mailVars, udp, http>>

TimeAnswer ==
    /\ time = "recv"
    /\ time' = "wait"
    /\ UNCHANGED <<lifeVars, mailVars, udp, http>>

(* pthread_cond_timedwait gives up after 3 s. *)
TimeWaited ==
    /\ time = "wait"
    /\ time' = "check"
    /\ UNCHANGED <<lifeVars, mailVars, udp, http>>

RtpNext ==
    \/ StartAudio \/ DestroyIdle \/ Stop
    \/ \E k \in Kinds : Set(k)
    \/ RtpUdpThread
    \/ TimeCheck \/ TimeAnswer \/ TimeWaited

(***************************************************************************)
(* Threads run; raop_rtp_stop goes on when its join does.  The sender need *)
(* not answer, the HTTP thread need not start, set or destroy.             *)
(***************************************************************************)
Fairness ==
    /\ WF_rtpVars(RtpUdpThread)
    /\ WF_rtpVars(TimeCheck \/ TimeWaited)
    /\ WF_rtpVars(JoinUdp \/ SignalTime \/ JoinTime \/ CloseAndFree)

RtpSpec == RtpInit /\ [][RtpNext]_rtpVars /\ Fairness

-----------------------------------------------------------------------------
Values == 0..MaxSets

RtpTypeOK ==
    /\ running \in BOOLEAN /\ joined \in BOOLEAN
    /\ sockets \in {"none", "open", "closed"}
    /\ pending \in [Kinds -> Values] /\ taken \in [Kinds -> Values]
    /\ newest \in [Kinds -> Values] /\ delivered \in [Kinds -> Values]
    /\ turn \in 1..(Len(Mailbox) + 1)
    /\ udp \in {"none", "events", "callbacks", "select", "done"}
    /\ time \in {"none", "check", "recv", "wait", "done"}
    /\ http \in {"idle", "joinUdp", "signal", "joinTime", "close", "destroyed"}

UdpAlive == udp \notin {"none", "done"}
TimeAlive == time \notin {"none", "done"}

(***************************************************************************)
(* "thread is not joined (should never be while still running)"            *)
(* (raop_rtp.c:685), and a thread that runs finds its session not joined.  *)
(***************************************************************************)
JoinedInv ==
    /\ RtpTypeOK
    /\ joined => ~running
    /\ UdpAlive \/ TimeAlive => ~joined

(***************************************************************************)
(* The sockets, the buffer and the session itself outlive both threads:    *)
(* nothing is closed or freed under a thread that may still use it,        *)
(* wherever the stop finds it (raop_rtp.c:696-715, 169-184).               *)
(***************************************************************************)
ThreadsInv ==
    UdpAlive \/ TimeAlive => sockets = "open" /\ http \notin {"close", "destroyed"}

(***************************************************************************)
(* No update is lost: the last value set is in the mailbox, or on its way  *)
(* to its callback, or the one its callback got last, however the setters  *)
(* interleave with the callbacks (raop_rtp.c:282-326).                     *)
(***************************************************************************)
NoUpdateLost ==
    \A k \in Kinds :
        newest[k] = IF pending[k] # 0 THEN pending[k]
                    ELSE IF taken[k] # 0 THEN taken[k] ELSE delivered[k]

(* What holds all the time of one audio session. *)
SessionInv == JoinedInv /\ ThreadsInv /\ NoUpdateLost

(***************************************************************************)
(* What the three say between them, made inductive: raop_rtp_stop joins    *)
(* the threads in this order, and a field leaves taken by its callback.    *)
(***************************************************************************)
StopInv ==
    /\ http = "idle" /\ ~running => joined
    /\ http \in {"joinUdp", "signal", "joinTime", "close"} => ~running /\ ~joined
    /\ http \in {"signal", "joinTime", "close", "destroyed"} => ~UdpAlive
    /\ http \in {"close", "destroyed"} => ~TimeAlive
    /\ ~joined => sockets = "open"

TakenInv ==
    \A k \in Kinds : taken[k] # 0 =>
        udp = "callbacks" /\ \E i \in turn..Len(Mailbox) : Mailbox[i] = k

RtpInv == SessionInv /\ StopInv /\ TakenInv

(***************************************************************************)
(* A value that is set reaches its callback, or a newer one does, unless   *)
(* the session is not started, is stopped or its thread failed.            *)
(***************************************************************************)
SetDelivered ==
    \A k \in Kinds : \A v \in 1..MaxSets :
        pending[k] = v ~> delivered[k] >= v \/ ~running \/ udp = "done"

(***************************************************************************)
(* raop_rtp_stop returns, unless the timing thread waits for ever for an   *)
(* answer of the sender: that is the only thing that can hold it.          *)
(***************************************************************************)
StopReturns ==
    [](http = "joinUdp" => <>(http = "destroyed" \/ [](time = "recv")))
=============================================================================
