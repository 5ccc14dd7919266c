----------------------- MODULE ServiceDiscovery_proofs -----------------------
(***************************************************************************)
(* Proofs about the announcement of the receiver (DNSNotify.kt): for any    *)
(* labels and any number of registers and changes of the name, when the     *)
(* answers of the NSD service have been handled the network sees the        *)
(* current registers only, what failed is asked for again and the status    *)
(* lines are about the current registers.                                   *)
(***************************************************************************)
EXTENDS ServiceDiscovery, Integers, TLAPS

Registers ==
    [label : Labels, config : Nat, isStopped : BOOLEAN, isRegistered : BOOLEAN,
     hasFailed : BOOLEAN]
Kinds == {"up", "failed", "down", "stays"}
Points == {"stop", "announced", "check", "failed"}

TypeInv ==
    /\ config \in 1 .. MaxConfigs /\ isDown \in BOOLEAN
    /\ main \in Labels \cup {"none"}
    /\ main # "none" => Len(registers) < MaxRegisters
    /\ registers \in Seq(Registers) /\ Len(registers) <= MaxRegisters
    /\ nsd \in Seq(Outcomes) /\ Len(nsd) = Len(registers)
    /\ register \in [Labels -> {0} \cup DOMAIN registers]
    /\ callbacks \in Seq([kind : Kinds, id : DOMAIN registers])
    /\ thread = Idle \/ thread \in [at : Points, id : DOMAIN registers]
    /\ DOMAIN status = Labels

Waiting == {callbacks[i].id : i \in DOMAIN callbacks}

(* One answer per request is on its way, and it is what the NSD service     *)
(* thinks of the register.                                                  *)
AnswersInv ==
    /\ \A i, j \in DOMAIN callbacks : callbacks[i].id = callbacks[j].id => i = j
    /\ \A i \in DOMAIN callbacks : nsd[callbacks[i].id] = callbacks[i].kind
    /\ thread.at \in {"stop", "announced"} =>
         /\ thread.id \notin Waiting \/ nsd[thread.id] \in {"down", "stays"}
         /\ nsd[thread.id] \in {"up", "leaving", "down", "stays", "unknown"}
    /\ thread.at \in {"check", "failed"} =>
         thread.id \notin Waiting /\ nsd[thread.id] = "failed"

(* What a register thinks of itself follows from the answers it got.        *)
KnowledgeInv ==
    \A r \in DOMAIN registers :
        /\ registers[r].isRegistered <=> nsd[r] \in {"up", "unknown"} /\ r \notin Waiting
        /\ registers[r].hasFailed <=> nsd[r] = "failed" /\ r \notin Waiting
        /\ nsd[r] \in {"leaving", "down", "stays", "unknown"} => registers[r].isStopped
        /\ registers[r].isStopped /\ registers[r].isRegistered =>
             nsd[r] = "unknown" \/ thread = [at |-> "stop", id |-> r]

(* A register that is not stopped is the current one of its label.          *)
CurrentInv ==
    /\ \A r \in DOMAIN registers :
         ~registers[r].isStopped => register[registers[r].label] = r
    /\ \A l \in Labels : register[l] # 0 =>
         /\ registers[register[l]].label = l
         /\ registers[register[l]].isStopped <=> main = l
    /\ isDown => main = "none" /\ \A l \in Labels : register[l] = 0

(* The status line is of the current register once its answer was handled,  *)
(* and a thread that still writes about another comes before that answer.   *)
Answered(r) == nsd[r] \in {"up", "failed"} /\ r \notin Waiting
Told(l, r) == status[l] = Text(IF nsd[r] = "up" THEN "announced" ELSE "failed", r)
Writes(l, r) ==
    /\ thread.at \in {"announced", "failed"}
    /\ registers[thread.id].label = l /\ thread.id # r

StatusInv ==
    /\ thread.at = "stop" => registers[thread.id].isStopped
    /\ \A l \in Labels : register[l] # 0 /\ main # l /\ Answered(register[l]) =>
         /\ thread.id # register[l] => Told(l, register[l])
         /\ ~Writes(l, register[l])

DiscoveryInv == TypeInv /\ AnswersInv /\ KnowledgeInv /\ CurrentInv /\ StatusInv

-----------------------------------------------------------------------------
(***************************************************************************)
(* The queue of answers, and what Stop does.                               *)
(***************************************************************************)
LEMMA TailFacts ==
  ASSUME NEW S, NEW s \in Seq(S), s # <<>>
  PROVE  /\ Tail(s) \in Seq(S) /\ 1 \in DOMAIN s /\ Head(s) = s[1]
         /\ \A i \in DOMAIN Tail(s) :
              i \in Int /\ i + 1 \in DOMAIN s /\ i + 1 # 1 /\ Tail(s)[i] = s[i + 1]
         /\ \A i \in DOMAIN s : i # 1 => i - 1 \in DOMAIN Tail(s) /\ Tail(s)[i - 1] = s[i]
OBVIOUS

LEMMA AppendFacts ==
  ASSUME NEW S, NEW s \in Seq(S), NEW e \in S
  PROVE  /\ Append(s, e) \in Seq(S) /\ Len(Append(s, e)) = Len(s) + 1
         /\ DOMAIN Append(s, e) = DOMAIN s \cup {Len(s) + 1} /\ Len(s) + 1 \notin DOMAIN s
         /\ Append(s, e)[Len(s) + 1] = e
         /\ \A i \in DOMAIN s : Append(s, e)[i] = s[i]
OBVIOUS

LEMMA ElementFacts ==
  ASSUME NEW S, NEW s \in Seq(S), NEW i \in DOMAIN s
  PROVE  s[i] \in S
OBVIOUS

LEMMA SubsetFacts ==
  ASSUME NEW S, NEW s \in Seq(S), NEW T, S \subseteq T
  PROVE  s \in Seq(T)
OBVIOUS

LEMMA MappedFacts ==
  ASSUME NEW S, NEW s \in Seq(S), NEW T, NEW f \in [DOMAIN s -> T]
  PROVE  f \in Seq(T) /\ Len(f) = Len(s) /\ DOMAIN f = DOMAIN s
<1>1. DOMAIN s = 1 .. Len(s) /\ Len(s) \in Nat
  OBVIOUS
<1>2. f \in Seq(T)
  BY <1>1
<1>3. DOMAIN f = 1 .. Len(f) /\ Len(f) \in Nat
  BY <1>2
<1> QED BY <1>1, <1>2, <1>3

(* The NSD thread takes the oldest answer.                                  *)
LEMMA Delivered ==
  ASSUME DiscoveryInv, NEW kind, Deliver(kind), callbacks' = Tail(callbacks)
  PROVE  /\ Head(callbacks).id \in DOMAIN registers /\ Head(callbacks).id \in Waiting
         /\ nsd[Head(callbacks).id] = kind
         /\ callbacks' \in Seq([kind : Kinds, id : DOMAIN registers])
         /\ Waiting' = Waiting \ {Head(callbacks).id}
         /\ \A i, j \in DOMAIN callbacks' : callbacks'[i].id = callbacks'[j].id => i = j
         /\ UNCHANGED nsd =>
              \A i \in DOMAIN callbacks' : nsd'[callbacks'[i].id] = callbacks'[i].kind
<1> DEFINE c == callbacks  d == Tail(callbacks)
<1>1. /\ c \in Seq([kind : Kinds, id : DOMAIN registers]) /\ c # <<>>
      /\ Head(c).kind = kind
      /\ \A i, j \in DOMAIN c : c[i].id = c[j].id => i = j
      /\ \A i \in DOMAIN c : nsd[c[i].id] = c[i].kind
  BY DEF DiscoveryInv, TypeInv, AnswersInv, Deliver
<1>2. /\ d \in Seq([kind : Kinds, id : DOMAIN registers])
      /\ 1 \in DOMAIN c /\ Head(c) = c[1]
      /\ \A i \in DOMAIN d : i \in Int /\ i + 1 \in DOMAIN c /\ i + 1 # 1 /\ d[i] = c[i + 1]
      /\ \A i \in DOMAIN c : i # 1 => i - 1 \in DOMAIN d /\ d[i - 1] = c[i]
  BY <1>1, TailFacts
<1>3. ASSUME NEW i \in DOMAIN d, NEW j \in DOMAIN d, d[i].id = d[j].id PROVE i = j
  <2>1. i + 1 = j + 1
    BY <1>1, <1>2, <1>3
  <2> QED BY <2>1, <1>2
<1>4. Waiting' = Waiting \ {Head(c).id}
  <2>1. ASSUME NEW i \in DOMAIN d PROVE d[i].id \in Waiting \ {Head(c).id}
    BY <1>1, <1>2 DEF Waiting
  <2>2. ASSUME NEW i \in DOMAIN c, c[i].id # Head(c).id PROVE c[i].id \in Waiting'
    BY <1>2, <2>2 DEF Waiting
  <2> QED BY <2>1, <2>2 DEF Waiting
<1>5. c[1] \in [kind : Kinds, id : DOMAIN registers]
  BY <1>1, <1>2, ElementFacts, Zenon
<1>6. Head(c).id \in DOMAIN registers /\ Head(c).id \in Waiting /\ nsd[Head(c).id] = kind
  BY <1>1, <1>2, <1>5 DEF Waiting
<1>7. UNCHANGED nsd => \A i \in DOMAIN d : nsd'[d[i].id] = d[i].kind
  BY <1>1, <1>2
<1> QED BY <1>2, <1>3, <1>4, <1>6, <1>7

LEMMA Stopped ==
  ASSUME TypeInv, NEW rs, Stop(rs)
  PROVE  /\ registers' \in Seq(Registers) /\ Len(registers') = Len(registers)
         /\ DOMAIN registers' = DOMAIN registers
         /\ nsd' \in Seq(Outcomes) /\ Len(nsd') = Len(nsd)
         /\ \A r \in DOMAIN registers :
              /\ registers'[r].label = registers[r].label
              /\ registers'[r].hasFailed = registers[r].hasFailed
              /\ (registers'[r].isStopped <=> r \in rs \/ registers[r].isStopped)
              /\ IF r \in rs /\ registers[r].isRegistered
                 THEN \/ nsd'[r] = "leaving" /\ ~registers'[r].isRegistered
                      \/ nsd'[r] = "unknown" /\ registers'[r].isRegistered
                 ELSE /\ nsd'[r] = nsd[r]
                      /\ registers'[r].isRegistered <=> registers[r].isRegistered
<1>1. /\ registers \in Seq(Registers) /\ nsd \in Seq(Outcomes)
      /\ DOMAIN nsd = DOMAIN registers
      /\ \A r \in DOMAIN registers : registers[r] \in Registers /\ nsd[r] \in Outcomes
  BY DEF TypeInv
<1> DEFINE After(thrown) ==
             /\ registers' = [r \in DOMAIN registers |->
                   IF r \in rs
                   THEN [registers[r] EXCEPT !.isStopped = TRUE, !.isRegistered = r \in thrown]
                   ELSE registers[r]]
             /\ nsd' = [r \in DOMAIN nsd |->
                   IF r \in thrown THEN "unknown"
                   ELSE IF r \in rs /\ registers[r].isRegistered THEN "leaving" ELSE nsd[r]]
<1>2. PICK thrown \in SUBSET {r \in rs : registers[r].isRegistered} : After(thrown)
  BY DEF Stop
<1>3. \A r \in DOMAIN registers :
        /\ registers'[r] = IF r \in rs
                           THEN [registers[r] EXCEPT !.isStopped = TRUE,
                                                     !.isRegistered = r \in thrown]
                           ELSE registers[r]
        /\ nsd'[r] = IF r \in thrown THEN "unknown"
                     ELSE IF r \in rs /\ registers[r].isRegistered THEN "leaving" ELSE nsd[r]
  BY <1>1, <1>2
<1>4. DOMAIN registers' = DOMAIN registers
  BY <1>2
<1>5. \A r \in DOMAIN registers :
        /\ registers'[r] \in Registers
        /\ registers'[r].label = registers[r].label
        /\ registers'[r].hasFailed = registers[r].hasFailed
        /\ registers'[r].isStopped = IF r \in rs THEN TRUE ELSE registers[r].isStopped
        /\ registers'[r].isRegistered = IF r \in rs THEN r \in thrown
                                        ELSE registers[r].isRegistered
  <2> SUFFICES ASSUME NEW r \in DOMAIN registers
               PROVE  /\ registers'[r] \in Registers
                      /\ registers'[r].label = registers[r].label
                      /\ registers'[r].hasFailed = registers[r].hasFailed
                      /\ registers'[r].isStopped = IF r \in rs THEN TRUE
                                                   ELSE registers[r].isStopped
                      /\ registers'[r].isRegistered = IF r \in rs THEN r \in thrown
                                                      ELSE registers[r].isRegistered
    OBVIOUS
  <2>1. registers[r] \in Registers /\ (r \in thrown) \in BOOLEAN
    BY <1>1
  <2>2. registers'[r] = IF r \in rs
                        THEN [registers[r] EXCEPT !.isStopped = TRUE,
                                                  !.isRegistered = r \in thrown]
                        ELSE registers[r]
    BY <1>3
  <2> QED BY <2>1, <2>2 DEF Registers
<1>6. \A r \in DOMAIN registers :
        IF r \in rs /\ registers[r].isRegistered
        THEN \/ nsd'[r] = "leaving" /\ r \notin thrown
             \/ nsd'[r] = "unknown" /\ r \in thrown
        ELSE nsd'[r] = nsd[r] /\ r \notin thrown
  BY <1>2, <1>3
<1>7. registers' \in Seq(Registers) /\ Len(registers') = Len(registers)
  <2>1. registers' \in [DOMAIN registers -> Registers]
    BY <1>2, <1>5
  <2> QED BY <1>1, <2>1, MappedFacts
<1>8. nsd' \in Seq(Outcomes) /\ Len(nsd') = Len(nsd)
  <2>1. \A r \in DOMAIN nsd : nsd'[r] \in Outcomes
    BY <1>1, <1>6 DEF Outcomes
  <2>2. nsd' \in [DOMAIN nsd -> Outcomes]
    BY <1>2, <2>1
  <2> QED BY <1>1, <2>2, MappedFacts
<1>9. \A r \in DOMAIN registers :
        registers[r].isStopped \in BOOLEAN /\ registers[r].isRegistered \in BOOLEAN
  BY <1>1 DEF Registers
<1>10. ASSUME NEW r \in DOMAIN registers
       PROVE  /\ (registers'[r].isStopped <=> r \in rs \/ registers[r].isStopped)
              /\ IF r \in rs /\ registers[r].isRegistered
                 THEN \/ nsd'[r] = "leaving" /\ ~registers'[r].isRegistered
                      \/ nsd'[r] = "unknown" /\ registers'[r].isRegistered
                 ELSE /\ nsd'[r] = nsd[r]
                      /\ registers'[r].isRegistered <=> registers[r].isRegistered
  BY <1>5, <1>6, <1>9, Zenon
<1> QED BY <1>4, <1>5, <1>7, <1>8, <1>10

-----------------------------------------------------------------------------
(***************************************************************************)
(* The main thread                                                         *)
(***************************************************************************)
LEMMA Basics ==
  ASSUME TypeInv
  PROVE  /\ DOMAIN nsd = DOMAIN registers /\ 0 \notin DOMAIN registers
         /\ \A r \in DOMAIN registers :
              /\ registers[r] \in Registers /\ nsd[r] \in Outcomes
              /\ registers[r].label \in Labels /\ registers[r].isStopped \in BOOLEAN
              /\ registers[r].isRegistered \in BOOLEAN
              /\ registers[r].hasFailed \in BOOLEAN
         /\ \A l \in Labels : register[l] \in {0} \cup DOMAIN registers
         /\ Waiting \subseteq DOMAIN registers
         /\ main \in Labels \cup {"none"}
<1>1. \A r \in DOMAIN registers : registers[r] \in Registers /\ nsd[r] \in Outcomes
  BY DEF TypeInv
<1>2. Waiting \subseteq DOMAIN registers
  <2>1. callbacks \in Seq([kind : Kinds, id : DOMAIN registers])
    BY DEF TypeInv
  <2>2. \A i \in DOMAIN callbacks : callbacks[i] \in [kind : Kinds, id : DOMAIN registers]
    BY <2>1, ElementFacts, Zenon
  <2>3. \A i \in DOMAIN callbacks : callbacks[i].id \in DOMAIN registers
    BY <2>2
  <2> QED BY <2>3 DEF Waiting
<1> QED BY <1>1, <1>2 DEF TypeInv, Registers

LEMMA ChangeConfigStep ==
  ASSUME DiscoveryInv, ChangeConfig
  PROVE  DiscoveryInv'
<1>1. /\ config' = config + 1 /\ config < MaxConfigs
      /\ UNCHANGED <<isDown, register, status, main, registers, nsd, callbacks, thread>>
  BY DEF ChangeConfig, nsdVars
<1>2. TypeInv'
  BY <1>1, DiscoveryAssumption DEF DiscoveryInv, TypeInv
<1>3. Waiting' = Waiting
  BY <1>1 DEF Waiting
<1>4. AnswersInv' /\ KnowledgeInv' /\ CurrentInv'
  BY <1>1, <1>3 DEF DiscoveryInv, AnswersInv, KnowledgeInv, CurrentInv
<1>5. StatusInv'
  BY <1>1, <1>3 DEF DiscoveryInv, StatusInv, Answered, Told, Writes
<1> QED BY <1>2, <1>4, <1>5 DEF DiscoveryInv

(* Registers are stopped: what the answers and the registers say of each    *)
(* other does not change.                                                   *)
LEMMA StopKeeps ==
  ASSUME DiscoveryInv, NEW rs, Stop(rs), UNCHANGED callbacks,
         \/ UNCHANGED thread
         \/ thread.at = "stop" /\ rs = {thread.id} /\ thread' = Idle
  PROVE  AnswersInv' /\ KnowledgeInv'
<1> USE Basics DEF DiscoveryInv
<1>1. /\ DOMAIN registers' = DOMAIN registers
      /\ \A r \in DOMAIN registers :
           /\ registers'[r].hasFailed = registers[r].hasFailed
           /\ (registers'[r].isStopped <=> r \in rs \/ registers[r].isStopped)
           /\ IF r \in rs /\ registers[r].isRegistered
              THEN \/ nsd'[r] = "leaving" /\ ~registers'[r].isRegistered
                   \/ nsd'[r] = "unknown" /\ registers'[r].isRegistered
              ELSE /\ nsd'[r] = nsd[r]
                   /\ registers'[r].isRegistered <=> registers[r].isRegistered
  BY Stopped
<1>2. Waiting' = Waiting
  BY DEF Waiting
<1>3. \A i \in DOMAIN callbacks : callbacks[i].id \in Waiting
  BY DEF Waiting
<1>4. thread # Idle => thread.id \in DOMAIN registers
  BY DEF TypeInv
<1>5. AnswersInv'
  BY <1>1, <1>2, <1>3, <1>4 DEF AnswersInv, KnowledgeInv, Idle
<1>6. KnowledgeInv'
  <2> SUFFICES ASSUME NEW r \in DOMAIN registers
               PROVE  /\ registers'[r].isRegistered <=>
                           nsd'[r] \in {"up", "unknown"} /\ r \notin Waiting
                      /\ registers'[r].hasFailed <=> nsd'[r] = "failed" /\ r \notin Waiting
                      /\ nsd'[r] \in {"leaving", "down", "stays", "unknown"} =>
                           registers'[r].isStopped
                      /\ registers'[r].isStopped /\ registers'[r].isRegistered =>
                           nsd'[r] = "unknown" \/ thread' = [at |-> "stop", id |-> r]
    BY <1>1, <1>2 DEF KnowledgeInv
  <2>1. /\ registers[r].isRegistered <=> nsd[r] \in {"up", "unknown"} /\ r \notin Waiting
        /\ registers[r].hasFailed <=> nsd[r] = "failed" /\ r \notin Waiting
        /\ nsd[r] \in {"leaving", "down", "stays", "unknown"} => registers[r].isStopped
        /\ registers[r].isStopped /\ registers[r].isRegistered =>
             nsd[r] = "unknown" \/ thread = [at |-> "stop", id |-> r]
    BY DEF KnowledgeInv
  <2>2. CASE r \in rs /\ registers[r].isRegistered
    BY <1>1, <2>1, <2>2
  <2>3. CASE r \in rs /\ ~registers[r].isRegistered
    BY <1>1, <2>1, <2>3
  <2>4. CASE r \notin rs
    <3>1. thread' = Idle => thread # [at |-> "stop", id |-> r]
      BY <2>4 DEF Idle
    <3> QED BY <1>1, <2>1, <2>4, <3>1
  <2> QED BY <2>2, <2>3, <2>4
<1> QED BY <1>5, <1>6

LEMMA RegisterStep ==
  ASSUME DiscoveryInv, NEW l \in Labels, Register(l)
  PROVE  DiscoveryInv'
<1> DEFINE rs == {register[l]} \ {0}
<1> USE Basics, DiscoveryAssumption
<1>1. /\ main = "none" /\ ~isDown /\ main' = l /\ Stop(rs)
      /\ status' = [status EXCEPT ![l] = Text("announcing", 0)]
      /\ UNCHANGED <<config, isDown, register, callbacks, thread>>
      /\ Len(registers) < MaxRegisters
  BY DEF Register
<1>2. /\ registers' \in Seq(Registers) /\ Len(registers') = Len(registers)
      /\ DOMAIN registers' = DOMAIN registers
      /\ nsd' \in Seq(Outcomes) /\ Len(nsd') = Len(nsd)
      /\ \A r \in DOMAIN registers :
           /\ registers'[r].label = registers[r].label
           /\ (registers'[r].isStopped <=> r \in rs \/ registers[r].isStopped)
           /\ r \notin rs => nsd'[r] = nsd[r]
  BY <1>1, Stopped DEF DiscoveryInv
<1>3. TypeInv'
  BY <1>1, <1>2 DEF DiscoveryInv, TypeInv
<1>4. AnswersInv' /\ KnowledgeInv'
  BY <1>1, StopKeeps
<1>5. CurrentInv'
  BY <1>1, <1>2 DEF DiscoveryInv, CurrentInv
<1>6. Waiting' = Waiting
  BY <1>1 DEF Waiting
<1>7. StatusInv'
  <2>1. thread'.at = "stop" => registers'[thread'.id].isStopped
    BY <1>1, <1>2 DEF DiscoveryInv, StatusInv, TypeInv, Idle
  <2>2. ASSUME NEW k \in Labels, register[k] # 0, k # l
        PROVE  /\ register[k] \notin rs /\ nsd'[register[k]] = nsd[register[k]]
               /\ status'[k] = status[k]
    <3>1. register[k] \in DOMAIN registers /\ registers[register[k]].label = k
      BY <2>2 DEF DiscoveryInv, CurrentInv
    <3>2. register[l] # 0 => registers[register[l]].label = l
      BY DEF DiscoveryInv, CurrentInv
    <3>3. register[k] \notin rs
      BY <2>2, <3>1, <3>2
    <3>4. nsd'[register[k]] = nsd[register[k]]
      BY <1>2, <3>1, <3>3
    <3>5. status'[k] = status[k]
      BY <1>1, <2>2 DEF DiscoveryInv, TypeInv
    <3> QED BY <3>3, <3>4, <3>5
  <2>3. thread # Idle => thread.id \in DOMAIN registers
    BY DEF DiscoveryInv, TypeInv
  <2>4. ASSUME NEW k \in Labels, register'[k] # 0, main' # k, Answered(register[k])'
        PROVE  /\ thread'.id # register'[k] => Told(k, register[k])'
               /\ ~Writes(k, register[k])'
    <3>1. k # l /\ main # k /\ register[k] # 0 /\ Answered(register[k])
      BY <1>1, <1>6, <2>2, <2>4 DEF Answered
    <3>2. /\ thread.id # register[k] => Told(k, register[k])
          /\ ~Writes(k, register[k])
      BY <3>1 DEF DiscoveryInv, StatusInv
    <3> QED BY <1>1, <1>2, <2>2, <2>3, <3>1, <3>2 DEF Told, Writes, Idle
  <2> QED BY <2>1, <2>4 DEF StatusInv
<1> QED BY <1>3, <1>4, <1>5, <1>7 DEF DiscoveryInv

LEMMA StopStep ==
  ASSUME DiscoveryInv, stop
  PROVE  DiscoveryInv'
<1> DEFINE rs == {register[l] : l \in Labels} \ {0}
<1> USE Basics, DiscoveryAssumption
<1>1. /\ main = "none" /\ isDown' = TRUE /\ Stop(rs)
      /\ register' = [l \in Labels |-> 0]
      /\ UNCHANGED <<config, status, main, callbacks, thread>>
  BY DEF stop
<1>2. /\ registers' \in Seq(Registers) /\ Len(registers') = Len(registers)
      /\ DOMAIN registers' = DOMAIN registers
      /\ nsd' \in Seq(Outcomes) /\ Len(nsd') = Len(nsd)
      /\ \A r \in DOMAIN registers :
           /\ registers'[r].label = registers[r].label
           /\ (registers'[r].isStopped <=> r \in rs \/ registers[r].isStopped)
  BY <1>1, Stopped DEF DiscoveryInv
<1>3. TypeInv'
  BY <1>1, <1>2 DEF DiscoveryInv, TypeInv
<1>4. AnswersInv' /\ KnowledgeInv'
  BY <1>1, StopKeeps
<1>5. CurrentInv'
  BY <1>1, <1>2 DEF DiscoveryInv, CurrentInv
<1>6. StatusInv'
  BY <1>1, <1>2 DEF DiscoveryInv, StatusInv, TypeInv, Idle
<1> QED BY <1>3, <1>4, <1>5, <1>6 DEF DiscoveryInv

LEMMA CreateStep ==
  ASSUME DiscoveryInv, Create
  PROVE  DiscoveryInv'
<1> DEFINE new == Len(registers) + 1
           made == [label |-> main, config |-> config, isStopped |-> FALSE,
                    isRegistered |-> FALSE, hasFailed |-> FALSE]
<1> USE Basics, DiscoveryAssumption
<1>1. /\ main \in Labels /\ main' = "none" /\ registers' = Append(registers, made)
      /\ register' = [register EXCEPT ![main] = new]
      /\ UNCHANGED <<config, isDown, callbacks, thread>>
  BY DEF Create, DiscoveryInv
<1>2. PICK first \in {"asked", "refused"} :
        /\ nsd' = Append(nsd, first)
        /\ \A l \in Labels : l # main => status'[l] = status[l]
        /\ DOMAIN status' = Labels
  BY DEF Create, DiscoveryInv, TypeInv
<1>3. registers \in Seq(Registers) /\ made \in Registers
  BY <1>1 DEF DiscoveryInv, TypeInv, Registers
<1>4. /\ registers' \in Seq(Registers) /\ Len(registers') = Len(registers) + 1
      /\ DOMAIN registers' = DOMAIN registers \cup {new} /\ new \notin DOMAIN registers
      /\ registers'[new] = made
      /\ \A r \in DOMAIN registers : registers'[r] = registers[r]
  BY <1>1, <1>3, AppendFacts
<1>5. /\ nsd' \in Seq(Outcomes) /\ Len(nsd') = Len(registers') /\ nsd'[new] = first
      /\ \A r \in DOMAIN registers : nsd'[r] = nsd[r]
  BY <1>2, <1>4, AppendFacts DEF DiscoveryInv, TypeInv, Outcomes
<1>6. Waiting' = Waiting /\ new \notin Waiting /\ new # 0 /\ Waiting \subseteq DOMAIN registers
  BY <1>1, <1>4 DEF Waiting, DiscoveryInv, TypeInv
<1>7. TypeInv'
  <2>1. callbacks \in Seq([kind : Kinds, id : DOMAIN registers'])
    <3>1. [kind : Kinds, id : DOMAIN registers] \subseteq [kind : Kinds, id : DOMAIN registers']
      BY <1>4
    <3> QED BY <3>1, SubsetFacts DEF DiscoveryInv, TypeInv
  <2>2. thread = Idle \/ thread \in [at : Points, id : DOMAIN registers']
    BY <1>4 DEF DiscoveryInv, TypeInv
  <2> QED BY <1>1, <1>2, <1>4, <1>5, <2>1, <2>2 DEF DiscoveryInv, TypeInv
<1>8. AnswersInv'
  <2>1. \A i \in DOMAIN callbacks : callbacks[i].id \in DOMAIN registers
    BY <1>6 DEF Waiting
  <2>2. thread # Idle => thread.id \in DOMAIN registers
    BY DEF DiscoveryInv, TypeInv
  <2> QED BY <1>1, <1>5, <1>6, <2>1, <2>2 DEF DiscoveryInv, AnswersInv, Idle
<1>9. KnowledgeInv'
  BY <1>1, <1>4, <1>5, <1>6 DEF DiscoveryInv, KnowledgeInv
<1>10. register' = [l \in Labels |-> IF l = main THEN new ELSE register[l]]
  BY <1>1 DEF DiscoveryInv, TypeInv
<1>11. CurrentInv'
  <2>1. \A r \in DOMAIN registers : ~registers[r].isStopped => registers[r].label # main
    BY <1>1 DEF DiscoveryInv, CurrentInv
  <2> QED BY <1>1, <1>4, <1>6, <1>10, <2>1 DEF DiscoveryInv, CurrentInv
<1>12. StatusInv'
  <2>1. thread # Idle => thread.id \in DOMAIN registers
    BY DEF DiscoveryInv, TypeInv
  <2>2. thread'.at = "stop" => registers'[thread'.id].isStopped
    BY <1>1, <1>4, <2>1 DEF DiscoveryInv, StatusInv, Idle
  <2>3. nsd'[new] \notin {"up", "failed"}
    BY <1>5
  <2>4. \A l \in Labels : l # main => register'[l] = register[l]
    BY <1>10
  <2>5. ASSUME NEW l \in Labels, register'[l] # 0, Answered(register[l])'
        PROVE  /\ thread'.id # register'[l] => Told(l, register[l])'
               /\ ~Writes(l, register[l])'
    <3>1. l # main
      BY <1>10, <2>3, <2>5 DEF Answered
    <3>2. register'[l] = register[l] /\ register[l] \in DOMAIN registers
      BY <2>4, <2>5, <3>1 DEF DiscoveryInv
    <3>3. Answered(register[l])
      BY <1>5, <1>6, <2>5, <3>2 DEF Answered
    <3>4. /\ thread.id # register[l] => Told(l, register[l])
          /\ ~Writes(l, register[l])
      BY <2>5, <3>1, <3>2, <3>3 DEF DiscoveryInv, StatusInv
    <3> QED BY <1>1, <1>2, <1>4, <1>5, <2>1, <3>1, <3>2, <3>4 DEF Told, Writes, Idle
  <2> QED BY <2>2, <2>5 DEF StatusInv
<1> QED BY <1>7, <1>8, <1>9, <1>11, <1>12 DEF DiscoveryInv

-----------------------------------------------------------------------------
(***************************************************************************)
(* The NSD service and its thread                                          *)
(***************************************************************************)
LEMMA AnswerStep ==
  ASSUME DiscoveryInv, NEW r \in DOMAIN nsd, NEW from, NEW to, Answer(r, from, to),
         \/ from = "asked" /\ to = "up"
         \/ from = "asked" /\ to = "failed"
         \/ from = "leaving" /\ to \in {"down", "stays"}
  PROVE  DiscoveryInv'
<1> DEFINE answer == [kind |-> to, id |-> r]
<1> USE Basics DEF DiscoveryInv
<1>1. /\ nsd[r] = from /\ nsd' = [nsd EXCEPT ![r] = to]
      /\ callbacks' = Append(callbacks, answer) /\ r \in DOMAIN registers
      /\ UNCHANGED <<config, isDown, register, status, main, registers, thread>>
  BY DEF Answer, dnsVars
<1>2. callbacks \in Seq([kind : Kinds, id : DOMAIN registers])
      /\ answer \in [kind : Kinds, id : DOMAIN registers]
  BY <1>1 DEF TypeInv, Kinds
<1>3. /\ callbacks' \in Seq([kind : Kinds, id : DOMAIN registers])
      /\ DOMAIN callbacks' = DOMAIN callbacks \cup {Len(callbacks) + 1}
      /\ callbacks'[Len(callbacks) + 1] = answer
      /\ \A i \in DOMAIN callbacks : callbacks'[i] = callbacks[i]
  BY <1>1, <1>2, AppendFacts
<1>4. Waiting' = Waiting \cup {r}
  BY <1>3 DEF Waiting
<1>5. r \notin Waiting
  <2>1. \A i \in DOMAIN callbacks : callbacks[i] \in [kind : Kinds, id : DOMAIN registers]
    BY <1>2, ElementFacts, Zenon
  <2>2. \A i \in DOMAIN callbacks : nsd[callbacks[i].id] \in Kinds
    BY <2>1 DEF AnswersInv
  <2> QED BY <1>1, <2>2 DEF Waiting, Kinds
<1>6. /\ nsd' \in Seq(Outcomes) /\ Len(nsd') = Len(nsd) /\ nsd'[r] = to
      /\ \A q \in DOMAIN nsd : q # r => nsd'[q] = nsd[q]
  BY <1>1 DEF TypeInv, Outcomes
<1>7. TypeInv'
  BY <1>1, <1>3, <1>6 DEF TypeInv
<1>8. AnswersInv'
  <2>1. \A i \in DOMAIN callbacks : callbacks[i].id \in Waiting /\ callbacks[i].id # r
    BY <1>5 DEF Waiting
  <2>2. thread.at \in {"check", "failed"} => thread.id # r
    BY <1>1 DEF AnswersInv
  <2>3. thread # Idle => thread.id \in DOMAIN nsd
    BY DEF TypeInv
  <2> QED BY <1>1, <1>3, <1>4, <1>6, <2>1, <2>2, <2>3 DEF AnswersInv, Idle
<1>9. KnowledgeInv'
  BY <1>1, <1>4, <1>5, <1>6 DEF KnowledgeInv
<1>10. CurrentInv'
  BY <1>1 DEF CurrentInv
<1>11. StatusInv'
  <2>1. ASSUME NEW l \in Labels, register[l] # 0, Answered(register[l])'
        PROVE  Answered(register[l]) /\ Told(l, register[l])' = Told(l, register[l])
    BY <1>1, <1>4, <1>6, <2>1 DEF Answered, Told
  <2> QED BY <1>1, <2>1 DEF StatusInv, Writes
<1> QED BY <1>7, <1>8, <1>9, <1>10, <1>11

LEMMA NsdAnswersStep ==
  ASSUME DiscoveryInv, NsdAnswers
  PROVE  DiscoveryInv'
<1>1. PICK r \in DOMAIN nsd :
        \/ Answer(r, "asked", "up") \/ Answer(r, "asked", "failed")
        \/ Answer(r, "leaving", "down") \/ Answer(r, "leaving", "stays")
  BY DEF NsdAnswers
<1>2. CASE Answer(r, "asked", "up")
  BY <1>2, AnswerStep, Zenon
<1>3. CASE Answer(r, "asked", "failed")
  BY <1>3, AnswerStep, Zenon
<1>4. CASE Answer(r, "leaving", "down")
  BY <1>4, AnswerStep
<1>5. CASE Answer(r, "leaving", "stays")
  BY <1>5, AnswerStep
<1> QED BY <1>1, <1>2, <1>3, <1>4, <1>5

(* A register gets its answer: one field of it changes.                     *)
LEMMA OneChanges ==
  ASSUME TypeInv, NEW r \in DOMAIN registers, NEW new \in Registers,
         registers' = [registers EXCEPT ![r] = new]
  PROVE  /\ registers' \in Seq(Registers) /\ Len(registers') = Len(registers)
         /\ DOMAIN registers' = DOMAIN registers /\ registers'[r] = new
         /\ \A q \in DOMAIN registers : q # r => registers'[q] = registers[q]
<1>1. registers \in Seq(Registers) /\ DOMAIN registers' = DOMAIN registers
  BY DEF TypeInv
<1>2. /\ registers'[r] = new
      /\ \A q \in DOMAIN registers : q # r => registers'[q] = registers[q]
  BY <1>1
<1>3. registers' \in [DOMAIN registers -> Registers]
  BY <1>1, ElementFacts
<1> QED BY <1>1, <1>2, <1>3, MappedFacts

LEMMA RegisteredStep ==
  ASSUME DiscoveryInv, onServiceRegistered
  PROVE  DiscoveryInv'
<1> DEFINE r == Head(callbacks).id  new == [registers[r] EXCEPT !.isRegistered = TRUE]
<1> USE Basics DEF DiscoveryInv
<1>1. /\ Deliver("up") /\ thread = Idle /\ callbacks' = Tail(callbacks)
      /\ registers' = [registers EXCEPT ![r] = new]
      /\ thread' = [at |-> IF r \in {q \in DOMAIN registers : registers[q].isStopped}
                           THEN "stop" ELSE "announced", id |-> r]
      /\ UNCHANGED <<config, isDown, register, status, main, nsd>>
  BY DEF onServiceRegistered, RegisteredThen, ReturnTo, dnsVars, Deliver
<1>2. /\ r \in DOMAIN registers /\ r \in Waiting /\ nsd[r] = "up"
      /\ callbacks' \in Seq([kind : Kinds, id : DOMAIN registers])
      /\ Waiting' = Waiting \ {r}
      /\ \A i, j \in DOMAIN callbacks' : callbacks'[i].id = callbacks'[j].id => i = j
      /\ \A i \in DOMAIN callbacks' : nsd'[callbacks'[i].id] = callbacks'[i].kind
  BY <1>1, Delivered
<1>3. /\ new \in Registers /\ new.isRegistered = TRUE /\ new.label = registers[r].label
      /\ new.isStopped = registers[r].isStopped /\ new.hasFailed = registers[r].hasFailed
  BY <1>2 DEF Registers
<1>4. /\ registers' \in Seq(Registers) /\ Len(registers') = Len(registers)
      /\ DOMAIN registers' = DOMAIN registers /\ registers'[r] = new
      /\ \A q \in DOMAIN registers : q # r => registers'[q] = registers[q]
  BY <1>1, <1>2, <1>3, OneChanges
<1>5. thread' = [at |-> IF registers[r].isStopped THEN "stop" ELSE "announced", id |-> r]
  BY <1>1, <1>2
<1>6. TypeInv'
  BY <1>1, <1>2, <1>4, <1>5 DEF TypeInv, Points
<1>7. AnswersInv'
  BY <1>1, <1>2, <1>5 DEF AnswersInv
<1>8. KnowledgeInv'
  BY <1>1, <1>2, <1>3, <1>4, <1>5 DEF KnowledgeInv, Idle
<1>9. CurrentInv'
  <2>1. \A q \in DOMAIN registers :
          /\ registers'[q].label = registers[q].label
          /\ registers'[q].isStopped = registers[q].isStopped
    BY <1>3, <1>4
  <2> QED BY <1>1, <1>4, <2>1 DEF CurrentInv
<1>10. StatusInv'
  <2>1. thread'.at = "stop" => registers'[thread'.id].isStopped
    BY <1>3, <1>4, <1>5
  <2>2. ASSUME NEW l \in Labels, register[l] # 0, main # l, Answered(register[l])'
        PROVE  /\ thread'.id # register[l] => Told(l, register[l])'
               /\ ~Writes(l, register[l])'
    <3>1. ~Writes(l, register[l])'
      <4>1. ASSUME Writes(l, register[l])' PROVE register[l] = r
        <5>1. ~registers[r].isStopped /\ registers[r].label = l
          BY <1>3, <1>4, <1>5, <4>1 DEF Writes
        <5> QED BY <5>1, <1>2 DEF CurrentInv
      <4> QED BY <4>1, <1>1, <1>5 DEF Writes
    <3>2. CASE register[l] # r
      <4>1. Answered(register[l])
        BY <1>1, <1>2, <2>2, <3>2 DEF Answered
      <4>2. thread.id # register[l]
        BY <1>1, <2>2 DEF Idle
      <4> QED BY <1>1, <2>2, <3>1, <4>1, <4>2 DEF StatusInv, Told
    <3> QED BY <1>5, <3>1, <3>2
  <2> QED BY <1>1, <2>1, <2>2 DEF StatusInv
<1> QED BY <1>6, <1>7, <1>8, <1>9, <1>10

LEMMA FailedStep ==
  ASSUME DiscoveryInv, onRegistrationFailed
  PROVE  DiscoveryInv'
<1> DEFINE r == Head(callbacks).id  new == [registers[r] EXCEPT !.hasFailed = TRUE]
<1> USE Basics DEF DiscoveryInv
<1>1. /\ Deliver("failed") /\ thread = Idle /\ callbacks' = Tail(callbacks)
      /\ registers' = [registers EXCEPT ![r] = new]
      /\ thread' = [at |-> "check", id |-> r]
      /\ UNCHANGED <<config, isDown, register, status, main, nsd>>
  BY DEF onRegistrationFailed, FailedThen, ReturnTo, dnsVars, Deliver
<1>2. /\ r \in DOMAIN registers /\ r \in Waiting /\ nsd[r] = "failed"
      /\ callbacks' \in Seq([kind : Kinds, id : DOMAIN registers])
      /\ Waiting' = Waiting \ {r}
      /\ \A i, j \in DOMAIN callbacks' : callbacks'[i].id = callbacks'[j].id => i = j
      /\ \A i \in DOMAIN callbacks' : nsd'[callbacks'[i].id] = callbacks'[i].kind
  BY <1>1, Delivered
<1>3. /\ new \in Registers /\ new.hasFailed = TRUE /\ new.label = registers[r].label
      /\ new.isStopped = registers[r].isStopped
      /\ new.isRegistered = registers[r].isRegistered
  BY <1>2 DEF Registers
<1>4. /\ registers' \in Seq(Registers) /\ Len(registers') = Len(registers)
      /\ DOMAIN registers' = DOMAIN registers /\ registers'[r] = new
      /\ \A q \in DOMAIN registers : q # r => registers'[q] = registers[q]
  BY <1>1, <1>2, <1>3, OneChanges
<1>5. TypeInv'
  BY <1>1, <1>2, <1>4 DEF TypeInv, Points
<1>6. AnswersInv'
  BY <1>1, <1>2 DEF AnswersInv
<1>7. KnowledgeInv'
  BY <1>1, <1>2, <1>3, <1>4 DEF KnowledgeInv, Idle
<1>8. CurrentInv'
  <2>1. \A q \in DOMAIN registers :
          /\ registers'[q].label = registers[q].label
          /\ registers'[q].isStopped = registers[q].isStopped
    BY <1>3, <1>4
  <2> QED BY <1>1, <1>4, <2>1 DEF CurrentInv
<1>9. StatusInv'
  <2>1. ASSUME NEW l \in Labels, register[l] # 0, main # l, Answered(register[l])',
               register[l] # r
        PROVE  Told(l, register[l])'
    <3>1. Answered(register[l])
      BY <1>1, <1>2, <2>1 DEF Answered
    <3>2. thread.id # register[l]
      BY <1>1, <2>1 DEF Idle
    <3> QED BY <1>1, <2>1, <3>1, <3>2 DEF StatusInv, Told
  <2> QED BY <1>1, <2>1 DEF StatusInv, Writes
<1> QED BY <1>5, <1>6, <1>7, <1>8, <1>9

LEMMA UnregisteredStep ==
  ASSUME DiscoveryInv, onServiceUnregistered
  PROVE  DiscoveryInv'
<1> DEFINE r == Head(callbacks).id  new == [registers[r] EXCEPT !.isRegistered = FALSE]
<1> USE Basics DEF DiscoveryInv
<1>1. /\ Deliver("down") /\ thread = Idle /\ callbacks' = Tail(callbacks)
      /\ registers' = [registers EXCEPT ![r] = new] /\ thread' = Idle
      /\ UNCHANGED <<config, isDown, register, status, main, nsd>>
  BY DEF onServiceUnregistered, ReturnTo, dnsVars, Deliver, Idle
<1>2. /\ r \in DOMAIN registers /\ r \in Waiting /\ nsd[r] = "down"
      /\ callbacks' \in Seq([kind : Kinds, id : DOMAIN registers])
      /\ Waiting' = Waiting \ {r}
      /\ \A i, j \in DOMAIN callbacks' : callbacks'[i].id = callbacks'[j].id => i = j
      /\ \A i \in DOMAIN callbacks' : nsd'[callbacks'[i].id] = callbacks'[i].kind
  BY <1>1, Delivered
<1>3. registers[r] \in Registers /\ registers[r].isRegistered = FALSE
  BY <1>2 DEF KnowledgeInv
<1>4. new = registers[r]
  BY <1>3 DEF Registers
<1>5. UNCHANGED registers
  BY <1>1, <1>2, <1>4 DEF TypeInv
<1>6. TypeInv'
  BY <1>1, <1>2, <1>5 DEF TypeInv
<1>7. AnswersInv'
  BY <1>1, <1>2 DEF AnswersInv, Idle
<1>8. KnowledgeInv'
  BY <1>1, <1>2, <1>5 DEF KnowledgeInv, Idle
<1>9. CurrentInv'
  BY <1>1, <1>5 DEF CurrentInv
<1>10. StatusInv'
  <2>1. ASSUME NEW q, Answered(q)' PROVE Answered(q)
    BY <1>1, <1>2, <2>1 DEF Answered
  <2> QED BY <1>1, <1>5, <2>1 DEF StatusInv, Told, Writes, Idle
<1> QED BY <1>6, <1>7, <1>8, <1>9, <1>10

LEMMA StaysStep ==
  ASSUME DiscoveryInv, onUnregistrationFailed
  PROVE  DiscoveryInv'
<1> DEFINE r == Head(callbacks).id
<1> USE Basics DEF DiscoveryInv
<1>1. /\ Deliver("stays") /\ thread = Idle /\ callbacks' = Tail(callbacks) /\ thread' = Idle
      /\ UNCHANGED <<config, isDown, register, status, main, registers, nsd>>
  BY DEF onUnregistrationFailed, ReturnTo, dnsVars, Deliver, Idle
<1>2. /\ r \in DOMAIN registers /\ r \in Waiting /\ nsd[r] = "stays"
      /\ callbacks' \in Seq([kind : Kinds, id : DOMAIN registers])
      /\ Waiting' = Waiting \ {r}
      /\ \A i, j \in DOMAIN callbacks' : callbacks'[i].id = callbacks'[j].id => i = j
      /\ \A i \in DOMAIN callbacks' : nsd'[callbacks'[i].id] = callbacks'[i].kind
  BY <1>1, Delivered
<1>3. TypeInv'
  BY <1>1, <1>2 DEF TypeInv
<1>4. AnswersInv'
  BY <1>1, <1>2 DEF AnswersInv, Idle
<1>5. KnowledgeInv'
  BY <1>1, <1>2 DEF KnowledgeInv, Idle
<1>6. CurrentInv'
  BY <1>1 DEF CurrentInv
<1>7. StatusInv'
  <2>1. ASSUME NEW q, Answered(q)' PROVE Answered(q)
    BY <1>1, <1>2, <2>1 DEF Answered
  <2> QED BY <1>1, <2>1 DEF StatusInv, Told, Writes, Idle
<1> QED BY <1>3, <1>4, <1>5, <1>6, <1>7

LEMMA CheckStep ==
  ASSUME DiscoveryInv, CheckStopped
  PROVE  DiscoveryInv'
<1> DEFINE r == thread.id
<1> USE Basics DEF DiscoveryInv
<1>1. /\ thread.at = "check" /\ r \in DOMAIN registers /\ thread = [at |-> "check", id |-> r]
      /\ thread' = IF registers[r].isStopped THEN Idle ELSE [at |-> "failed", id |-> r]
      /\ UNCHANGED <<config, isDown, register, status, main, registers, nsd, callbacks>>
  BY DEF CheckStopped, dnsVars, TypeInv, Idle
<1>2. Waiting' = Waiting
  BY <1>1 DEF Waiting
<1>3. TypeInv'
  BY <1>1 DEF TypeInv, Points
<1>4. AnswersInv' /\ KnowledgeInv' /\ CurrentInv'
  BY <1>1, <1>2 DEF AnswersInv, KnowledgeInv, CurrentInv, Idle
<1>5. StatusInv'
  <2>1. ASSUME NEW l \in Labels, register[l] # 0, main # l, Answered(register[l])
        PROVE  /\ thread'.id # register[l] => Told(l, register[l])
               /\ ~Writes(l, register[l])'
    <3>1. registers[register[l]].label = l /\ ~registers[register[l]].isStopped
      BY <2>1 DEF CurrentInv
    <3>2. CASE registers[r].isStopped
      BY <1>1, <2>1, <3>1, <3>2 DEF StatusInv, Writes, Idle
    <3>3. CASE ~registers[r].isStopped
      <4>1. register[registers[r].label] = r
        BY <1>1, <3>3 DEF CurrentInv
      <4> QED BY <1>1, <2>1, <3>1, <3>3, <4>1 DEF StatusInv, Writes
    <3> QED BY <3>2, <3>3
  <2> QED BY <1>1, <1>2, <2>1 DEF StatusInv, Answered, Told, Idle
<1> QED BY <1>3, <1>4, <1>5

LEMMA StopLateStep ==
  ASSUME DiscoveryInv, StopLate
  PROVE  DiscoveryInv'
<1> DEFINE q == thread.id
<1> USE Basics
<1>1. /\ thread.at = "stop" /\ Stop({q}) /\ thread' = Idle
      /\ UNCHANGED <<config, isDown, register, status, main, callbacks>>
  BY DEF StopLate, dnsVars
<1>2. /\ registers' \in Seq(Registers) /\ Len(registers') = Len(registers)
      /\ DOMAIN registers' = DOMAIN registers
      /\ nsd' \in Seq(Outcomes) /\ Len(nsd') = Len(nsd)
      /\ \A r \in DOMAIN registers :
           /\ registers'[r].label = registers[r].label
           /\ (registers'[r].isStopped <=> r = q \/ registers[r].isStopped)
           /\ r # q => nsd'[r] = nsd[r]
  BY <1>1, Stopped DEF DiscoveryInv
<1>3. TypeInv'
  BY <1>1, <1>2 DEF DiscoveryInv, TypeInv
<1>4. AnswersInv' /\ KnowledgeInv'
  BY <1>1, StopKeeps
<1>5. q \in DOMAIN registers /\ registers[q].isStopped
  BY <1>1 DEF DiscoveryInv, StatusInv, TypeInv, Idle
<1>6. CurrentInv'
  BY <1>1, <1>2, <1>5 DEF DiscoveryInv, CurrentInv
<1>7. StatusInv'
  <2>1. ASSUME NEW l \in Labels, register[l] # 0, main # l, Answered(register[l])'
        PROVE  Told(l, register[l])'
    <3>1. register[l] # q
      BY <1>5, <2>1 DEF DiscoveryInv, CurrentInv
    <3>2. Answered(register[l]) /\ nsd'[register[l]] = nsd[register[l]]
      BY <1>1, <1>2, <2>1, <3>1 DEF Answered, Waiting, DiscoveryInv
    <3> QED BY <1>1, <2>1, <3>1, <3>2 DEF DiscoveryInv, StatusInv, Told
  <2> QED BY <1>1, <2>1 DEF StatusInv, Writes, Idle
<1> QED BY <1>3, <1>4, <1>6, <1>7 DEF DiscoveryInv

LEMMA StatusStep ==
  ASSUME DiscoveryInv, updateRegistrationStatus
  PROVE  DiscoveryInv'
<1> DEFINE q == thread.id  k == registers[q].label
<1> USE Basics DEF DiscoveryInv
<1>1. /\ thread.at \in {"announced", "failed"} /\ thread' = Idle
      /\ status' = [status EXCEPT ![k] = Text(thread.at, q)]
      /\ UNCHANGED <<config, isDown, register, main, registers, nsd, callbacks>>
  BY DEF updateRegistrationStatus
<1>2. q \in DOMAIN registers /\ k \in Labels
  BY <1>1 DEF TypeInv, Idle
<1>3. Waiting' = Waiting
  BY <1>1 DEF Waiting
<1>4. TypeInv'
  BY <1>1 DEF TypeInv
<1>5. AnswersInv' /\ CurrentInv'
  BY <1>1, <1>3 DEF AnswersInv, CurrentInv, Idle
<1>6. KnowledgeInv'
  BY <1>1, <1>3 DEF KnowledgeInv, Idle
<1>7. StatusInv'
  <2>1. ASSUME NEW l \in Labels, register[l] # 0, main # l, Answered(register[l])
        PROVE  Told(l, register[l])'
    <3>1. registers[register[l]].label = l
      BY <2>1 DEF CurrentInv
    <3>2. CASE register[l] = q
      <4>1. nsd[q] = IF thread.at = "announced" THEN "up" ELSE "failed"
        BY <1>1, <2>1, <3>2 DEF AnswersInv, Answered
      <4>2. status'[l] = Text(thread.at, q)
        BY <1>1, <1>2, <3>1, <3>2 DEF TypeInv
      <4> QED BY <1>1, <3>2, <4>1, <4>2 DEF Told
    <3>3. CASE register[l] # q
      <4>1. Told(l, register[l]) /\ ~Writes(l, register[l])
        BY <2>1, <3>3 DEF StatusInv
      <4>2. k # l
        BY <1>1, <3>3, <4>1 DEF Writes
      <4> QED BY <1>1, <4>1, <4>2 DEF Told
    <3> QED BY <3>2, <3>3
  <2> QED BY <1>1, <1>3, <2>1 DEF StatusInv, Answered, Writes, Idle
<1> QED BY <1>4, <1>5, <1>6, <1>7

-----------------------------------------------------------------------------
LEMMA DiscoveryInvariant == Spec => []DiscoveryInv
<1>1. Init => DiscoveryInv
  <2> SUFFICES ASSUME Init PROVE DiscoveryInv
    OBVIOUS
  <2> USE DEF Init
  <2>1. TypeInv
    <3>1. /\ registers \in Seq(Registers) /\ nsd \in Seq(Outcomes)
          /\ callbacks \in Seq([kind : Kinds, id : DOMAIN registers])
          /\ Len(registers) = 0 /\ Len(nsd) = 0
      OBVIOUS
    <3>2. /\ register \in [Labels -> {0} \cup DOMAIN registers]
          /\ DOMAIN status = Labels
      OBVIOUS
    <3>3. config \in 1 .. MaxConfigs /\ Len(registers) <= MaxRegisters
      BY <3>1, DiscoveryAssumption
    <3> QED BY <3>1, <3>2, <3>3 DEF TypeInv
  <2>2. AnswersInv
    BY DEF AnswersInv, Idle
  <2>3. KnowledgeInv /\ CurrentInv
    BY DEF KnowledgeInv, CurrentInv
  <2>4. StatusInv
    BY DEF StatusInv, Idle
  <2> QED BY <2>1, <2>2, <2>3, <2>4 DEF DiscoveryInv
<1>2. DiscoveryInv /\ [Next]_vars => DiscoveryInv'
  <2> SUFFICES ASSUME DiscoveryInv, [Next]_vars PROVE DiscoveryInv'
    OBVIOUS
  <2>1. CASE ChangeConfig
    BY <2>1, ChangeConfigStep
  <2>2. CASE Create
    BY <2>2, CreateStep
  <2>3. CASE stop
    BY <2>3, StopStep
  <2>4. ASSUME NEW l \in Labels, Register(l) PROVE DiscoveryInv'
    BY <2>4, RegisterStep
  <2>5. CASE NsdAnswers
    BY <2>5, NsdAnswersStep
  <2>6. CASE NsdThread
    BY <2>6, RegisteredStep, FailedStep, UnregisteredStep, StaysStep, CheckStep, StopLateStep,
       StatusStep
       DEF NsdThread
  <2>7. CASE UNCHANGED vars
    <3>1. UNCHANGED <<config, isDown, register, status, main, registers, nsd, callbacks,
                      thread>>
      BY <2>7 DEF vars, dnsVars, nsdVars
    <3> QED BY <3>1
            DEF DiscoveryInv, TypeInv, AnswersInv, KnowledgeInv, CurrentInv, StatusInv,
                Waiting, Answered, Told, Writes
  <2> QED BY <2>1, <2>2, <2>3, <2>4, <2>5, <2>6, <2>7 DEF Next
<1> QED BY <1>1, <1>2, PTL DEF Spec

(* When the answers are handled, what is on the network are the current     *)
(* registers: a register that was replaced or stopped while it waited for   *)
(* its answer withdraws when the answer comes (DNSNotify.kt:149-164,        *)
(* 193-206).  What else is there was asked to leave and the NSD service     *)
(* answered with a failure (:189-191) or an exception (:201).               *)
THEOREM CurrentAdvertised == Spec => []AdvertisedIsCurrent
<1>1. DiscoveryInv => AdvertisedIsCurrent
  <2> SUFFICES ASSUME DiscoveryInv PROVE AdvertisedIsCurrent
    OBVIOUS
  <2>1. DiscoveryTypeOK
    BY Basics DEF DiscoveryInv, TypeInv, KnowledgeInv, DiscoveryTypeOK
  <2>2. ASSUME Quiet, NEW r \in DOMAIN nsd, nsd[r] = "up"
        PROVE  r \in {register[l] : l \in Labels}
    <3>1. r \in DOMAIN registers /\ r \notin Waiting /\ registers[r].isRegistered
      BY <2>2, Basics DEF DiscoveryInv, KnowledgeInv, Quiet, Waiting
    <3>2. ~registers[r].isStopped
      BY <2>2, <3>1 DEF DiscoveryInv, KnowledgeInv, Quiet, Idle
    <3> QED BY <3>1, <3>2, Basics DEF DiscoveryInv, CurrentInv
  <2>3. \A r \in Kept : registers[r].isStopped
    BY Basics DEF DiscoveryInv, KnowledgeInv, Kept
  <2> QED BY <2>1, <2>2, <2>3 DEF AdvertisedIsCurrent, OnNetwork, Kept
<1> QED BY DiscoveryInvariant, <1>1, PTL

(* What is not announced is asked for again by the next refresh: it does    *)
(* not match (DNSNotify.kt:166-177, 208-214).                               *)
THEOREM FailedRetried == Spec => []AnnouncedOrRetried
<1>1. DiscoveryInv => AnnouncedOrRetried
  <2> SUFFICES ASSUME DiscoveryInv, Quiet, NEW l \in Labels, register[l] # 0,
                      nsd[register[l]] # "refused", nsd[register[l]] # "up"
               PROVE  ~matches(l)
    BY DEF AnnouncedOrRetried
  <2>1. register[l] \in DOMAIN registers /\ register[l] \notin Waiting
    BY Basics DEF DiscoveryInv, Quiet, Waiting
  <2>2. nsd[register[l]] \in {"failed", "down", "stays", "unknown"}
    BY <2>1, Basics DEF DiscoveryInv, Quiet, Outcomes
  <2> QED BY <2>1, <2>2 DEF DiscoveryInv, KnowledgeInv, matches, Same
<1> QED BY DiscoveryInvariant, <1>1, PTL

(* The status lines are about the current registers, also when a callback   *)
(* of a register that was replaced is still running (DNSNotify.kt:96-103).  *)
THEOREM CurrentStatus == Spec => []StatusIsCurrent
<1>1. DiscoveryInv => StatusIsCurrent
  <2> SUFFICES ASSUME DiscoveryInv, Quiet, ~isDown, NEW l \in Labels, register[l] # 0,
                      nsd[register[l]] # "refused"
               PROVE  Told(l, register[l])
    BY DEF StatusIsCurrent, Told
  <2>1. register[l] \in DOMAIN registers /\ register[l] \notin Waiting /\ main # l
    BY Basics, DiscoveryAssumption DEF DiscoveryInv, Quiet, Waiting
  <2>2. ~registers[register[l]].isStopped
    BY <2>1 DEF DiscoveryInv, CurrentInv
  <2>3. Answered(register[l])
    BY <2>1, <2>2, Basics DEF DiscoveryInv, KnowledgeInv, Quiet, Outcomes, Answered
  <2>4. thread.id # register[l]
    BY DEF Quiet, Idle
  <2> QED BY <2>1, <2>3, <2>4 DEF DiscoveryInv, StatusInv
<1> QED BY DiscoveryInvariant, <1>1, PTL
==============================================================================
