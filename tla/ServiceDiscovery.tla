--------------------------- MODULE ServiceDiscovery ---------------------------
(***************************************************************************)
(* The announcement of the receiver on the network (DNSNotify.kt): one     *)
(* DNSNotify with a register for AirPlay and one for RAOP.  The main       *)
(* thread makes a register, stops it and makes another when the name, port *)
(* or attributes have changed; the thread of Android's NsdManager calls    *)
(* the register back.                                                      *)
(*                                                                         *)
(* What a register does under its lock is one step.  A callback goes on    *)
(* after it gave the lock back.  The NSD service itself is external: it    *)
(* answers each request, with success or failure, or refuses it with an    *)
(* exception, and its answers are delivered in order, by one thread.       *)
(***************************************************************************)
EXTENDS Naturals, Sequences

CONSTANTS
    Labels,          \* {"AirPlay", "RAOP"}
    MaxRegisters,    \* registers made (bound)
    MaxConfigs       \* changes of the name and the attributes (bound)

ASSUME DiscoveryAssumption ==
    /\ Labels # {} /\ "none" \notin Labels
    /\ MaxRegisters \in Nat /\ MaxConfigs \in Nat \ {0}

VARIABLES
    config,          \* number of the name, ports and attributes in force
    isDown,          \* DNSNotify.stop() was called
    register,        \* by label: airplayRegister, raopRegister (0: null)
    registers,       \* the NsdRegister objects, in the order they were made
    status,          \* by label: airplayStatus, raopStatus
    main,            \* main thread: the label it is making a register for
    nsd,             \* by register: what the NSD service does with it
    callbacks,       \* answers the NSD thread has not delivered yet
    thread           \* NSD thread: [at, id] in a callback

dnsVars == <<config, isDown, register, status, main>>
nsdVars == <<nsd, callbacks, thread>>
vars == <<dnsVars, registers, nsdVars>>

Idle == [at |-> "idle", id |-> 0]
Text(what, r) == [what |-> what, id |-> r]

Init ==
    /\ config = 1 /\ isDown = FALSE
    /\ register = [l \in Labels |-> 0] /\ registers = <<>>
    /\ status = [l \in Labels |-> Text("idle", 0)]
    /\ main = "none"
    /\ nsd = <<>> /\ callbacks = <<>> /\ thread = Idle

(* NsdRegister.stop() of a set of registers.  When the NSD service does not *)
(* know one (IllegalArgumentException) isRegistered stays set, and nobody    *)
(* here learns whether the network still sees it.                           *)
Stop(rs) ==
    \E thrown \in SUBSET {r \in rs : registers[r].isRegistered} :
        /\ registers' = [r \in DOMAIN registers |->
                           IF r \in rs
                           THEN [registers[r] EXCEPT !.isStopped = TRUE,
                                                     !.isRegistered = r \in thrown]
                           ELSE registers[r]]
        /\ nsd' = [r \in DOMAIN nsd |->
                     IF r \in thrown THEN "unknown"
                     ELSE IF r \in rs /\ registers[r].isRegistered THEN "leaving" ELSE nsd[r]]

Same(l) ==
    /\ register[l] # 0
    /\ ~registers[register[l]].isStopped /\ registers[register[l]].config = config

(* Mutant: a register that failed matches. *)
MatchesFailed(l) == Same(l)
matches(l) == Same(l) /\ ~registers[register[l]].hasFailed

(***************************************************************************)
(* The main thread                                                         *)
(***************************************************************************)
(* The user gives another name, a preset is loaded, the mode changes. *)
ChangeConfig ==
    /\ main = "none" /\ ~isDown /\ config < MaxConfigs
    /\ config' = config + 1
    /\ UNCHANGED <<isDown, register, status, main, registers, nsdVars>>

(* registerAirplay and registerRaop, up to the new object *)
Register(l) ==
    /\ main = "none" /\ ~isDown
    /\ ~matches(l)
    /\ Len(registers) < MaxRegisters
    /\ Stop({register[l]} \ {0})
    /\ status' = [status EXCEPT ![l] = Text("announcing", 0)]
    /\ main' = l
    /\ UNCHANGED <<config, isDown, register, callbacks, thread>>

(* The constructor asks the NSD service, which may refuse with an exception. *)
Create ==
    /\ main # "none"
    /\ LET new == Len(registers) + 1
       IN  /\ registers' = Append(registers,
                [label |-> main, config |-> config, isStopped |-> FALSE,
                 isRegistered |-> FALSE, hasFailed |-> FALSE])
           /\ register' = [register EXCEPT ![main] = new]
           /\ \/ nsd' = Append(nsd, "asked") /\ UNCHANGED status
              \/ /\ nsd' = Append(nsd, "refused")
                 /\ status' = [status EXCEPT ![main] = Text("failed", new)]
    /\ main' = "none"
    /\ UNCHANGED <<config, isDown, callbacks, thread>>

(* The two registers are apart: nobody sees the time between them. *)
stop ==
    /\ main = "none" /\ ~isDown
    /\ Stop({register[l] : l \in Labels} \ {0})
    /\ register' = [l \in Labels |-> 0]
    /\ isDown' = TRUE
    /\ UNCHANGED <<config, status, main, callbacks, thread>>

(***************************************************************************)
(* The NSD service                                                         *)
(***************************************************************************)
Answer(r, from, to) ==
    /\ nsd[r] = from
    /\ nsd' = [nsd EXCEPT ![r] = to]
    /\ callbacks' = Append(callbacks, [kind |-> to, id |-> r])
    /\ UNCHANGED <<dnsVars, registers, thread>>

NsdAnswers ==
    \E r \in DOMAIN nsd :
        \/ Answer(r, "asked", "up")
        \/ Answer(r, "asked", "failed")
        \/ Answer(r, "leaving", "down")
        \/ Answer(r, "leaving", "stays")

(***************************************************************************)
(* The NSD thread                                                          *)
(***************************************************************************)
Deliver(kind) == thread = Idle /\ callbacks # <<>> /\ Head(callbacks).kind = kind
ReturnTo(at, r) == thread' = [at |-> at, id |-> r] /\ callbacks' = Tail(callbacks)

RegisteredThen(stopped) ==
    /\ Deliver("up")
    /\ LET r == Head(callbacks).id
       IN  /\ registers' = [registers EXCEPT ![r].isRegistered = TRUE]
           /\ ReturnTo(IF r \in stopped THEN "stop" ELSE "announced", r)
    /\ UNCHANGED <<dnsVars, nsd>>

(* Mutant: a register that was stopped meanwhile is announced. *)
RegisteredUnseen == RegisteredThen({})
onServiceRegistered ==
    RegisteredThen({r \in DOMAIN registers : registers[r].isStopped})

FailedThen(next) ==
    /\ Deliver("failed")
    /\ LET r == Head(callbacks).id
       IN  /\ registers' = [registers EXCEPT ![r].hasFailed = TRUE]
           /\ ReturnTo(next, IF next = "idle" THEN 0 ELSE r)
    /\ UNCHANGED <<dnsVars, nsd>>

(* Mutant: a failure is not reported. *)
FailedSilently == FailedThen("idle")
onRegistrationFailed == FailedThen("check")

onServiceUnregistered ==
    /\ Deliver("down")
    /\ registers' = [registers EXCEPT ![Head(callbacks).id].isRegistered = FALSE]
    /\ ReturnTo("idle", 0)
    /\ UNCHANGED <<dnsVars, nsd>>

(* It only logs: the service stays on the network.                          *)
onUnregistrationFailed ==
    /\ Deliver("stays")
    /\ ReturnTo("idle", 0)
    /\ UNCHANGED <<dnsVars, registers, nsd>>

(* A failed register reads isStopped again, without the lock. *)
CheckStopped ==
    /\ thread.at = "check"
    /\ thread' = IF registers[thread.id].isStopped THEN Idle
                 ELSE [thread EXCEPT !.at = "failed"]
    /\ UNCHANGED <<dnsVars, registers, nsd, callbacks>>

StopLate ==
    /\ thread.at = "stop"
    /\ Stop({thread.id})
    /\ thread' = Idle
    /\ UNCHANGED <<dnsVars, callbacks>>

updateRegistrationStatus ==
    /\ thread.at \in {"announced", "failed"}
    /\ status' = [status EXCEPT ![registers[thread.id].label] = Text(thread.at, thread.id)]
    /\ thread' = Idle
    /\ UNCHANGED <<config, isDown, register, main, registers, nsd, callbacks>>

NsdThread ==
    \/ onServiceRegistered \/ onRegistrationFailed \/ onServiceUnregistered
    \/ onUnregistrationFailed \/ CheckStopped \/ StopLate \/ updateRegistrationStatus

Next ==
    \/ ChangeConfig \/ Create \/ stop \/ \E l \in Labels : Register(l)
    \/ NsdAnswers \/ NsdThread

(* The threads are scheduled and the NSD service answers; nobody need       *)
(* register, refresh or stop.                                              *)
Spec == Init /\ [][Next]_vars

-----------------------------------------------------------------------------
Quiet ==
    /\ main = "none" /\ thread = Idle /\ callbacks = <<>>
    /\ \A r \in DOMAIN nsd : nsd[r] \notin {"asked", "leaving"}

Outcomes == {"asked", "up", "failed", "refused", "leaving", "down", "stays", "unknown"}

(* The network sees these, or may see them; from the last two on because    *)
(* the NSD service did not take them back when it was asked to.             *)
OnNetwork == {r \in DOMAIN nsd : nsd[r] \in {"up", "stays", "unknown"}}
Kept == {r \in DOMAIN nsd : nsd[r] \in {"stays", "unknown"}}

(* Types; a register was given to the NSD service before anybody could see  *)
(* it, and what it thinks of itself is what the service said last.          *)
DiscoveryTypeOK ==
    /\ config \in 1 .. MaxConfigs /\ isDown \in BOOLEAN
    /\ Len(registers) <= MaxRegisters /\ DOMAIN nsd = DOMAIN registers
    /\ \A l \in Labels : register[l] \in {0} \cup DOMAIN registers
    /\ \A r \in DOMAIN nsd : nsd[r] \in Outcomes
    /\ \A r \in DOMAIN registers :
         /\ registers[r].isRegistered => nsd[r] \in {"up", "unknown"}
         /\ registers[r].hasFailed => nsd[r] = "failed"

(* When all answers have been handled, the network sees at most one         *)
(* AirPlay and one RAOP service, those of the current registers, and none   *)
(* after stop(), however often the name changed while answers were on their *)
(* way; beside them only services that were asked to leave and that the NSD *)
(* service did not take back, which the code logs and forgets.              *)
AdvertisedIsCurrent ==
    /\ DiscoveryTypeOK
    /\ Quiet => OnNetwork \subseteq {register[l] : l \in Labels} \cup Kept
    /\ \A r \in Kept : registers[r].isStopped

(* A service that is not announced although the NSD service took its        *)
(* request is asked for again by the next refresh.                          *)
AnnouncedOrRetried ==
    Quiet => \A l \in Labels :
        register[l] # 0 /\ nsd[register[l]] # "refused" => nsd[register[l]] = "up" \/ ~matches(l)

(* The status line that the settings show is about the current register,    *)
(* not about one that was replaced while its callback was running.          *)
StatusIsCurrent ==
    Quiet /\ ~isDown => \A l \in Labels :
        register[l] # 0 /\ nsd[register[l]] # "refused" =>
            status[l] = Text(IF nsd[register[l]] = "up" THEN "announced" ELSE "failed",
                             register[l])

(* A refresh brings back every service that is not announced: the receiver  *)
(* remains discoverable while its service runs (README.md).                 *)
RefreshRevives ==
    Quiet => \A l \in Labels : register[l] # 0 => nsd[register[l]] = "up" \/ ~matches(l)

(* After the answers the network sees the current registers and no other.   *)
NothingKept == Quiet => OnNetwork \subseteq {register[l] : l \in Labels}
==============================================================================
