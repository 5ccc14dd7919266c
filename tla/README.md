# A TLA+ model of YingScreen

YingScreen turns an Android TV device into an AirPlay and DLNA receiver. This
directory holds TLA+ modules that model its media path, the configurations that
model-check them with TLC, and proofs that TLAPS checks. `PROJECT.json` ties
every definition to the lines it models, and lists the hazards of the code and
the properties that look for them. Paths below are relative to
`app/src/main/cpp/lib/` (native) and to
`app/src/main/kotlin/io/carmo/airplay/receiver/` (Kotlin).

## 1. The system

### Components, state and operations

| Component | State it keeps | Operations | Runs on |
|---|---|---|---|
| HTTP pool, `httpd.c` | `running`, `joined`, slots, `open_connections`, server socket | start, stop, accept, read, close | HTTP thread; the owner starts and stops it |
| Control connections, `raop.c`, `raop_handlers.h` | per connection: `setup`, two session pointers, `audio_started`, `mirror_started`, `stream_stopped_notified`; per server: two tables of 16 active sessions | SETUP, TEARDOWN, FLUSH, parameters, pairing, `conn_destroy`, `raop_destroy` | HTTP thread |
| Audio session, `raop_rtp.c` | `running`, `joined`, three sockets, a mailbox (volume, flush, metadata, cover art, remote control, progress) | start, setters, stop, destroy; two threads | HTTP thread, UDP thread, timing thread |
| Audio jitter buffer, `raop_buffer.c` | ring of 64 slots, `first_seqnum`, `last_seqnum`, `is_empty` | queue, dequeue, handle_resends, flush, configure | UDP thread (and SETUP) |
| Mirror session, `raop_rtp_mirror.c` | `running`, `joined`, three descriptors | start, stop, destroy; two threads | caller, mirror thread, timing thread |
| JNI bridge, `jni_raop_server.cpp` | attached threads | copies a packet into native memory, calls Kotlin | the threads above |
| Media server, `RaopServer.kt` | surface, players, packets buffered before there is a surface, cached codec config, watchdogs, state | media callbacks, attach and detach, stop | UDP and mirror threads, main thread |
| Video player, `player/VideoPlayer.kt` | queue of 96, pending codec config, `isStopped` | addPacket, decode loop, stopDecode | receiving thread, player thread, stopping thread |
| Audio player, `player/AudioPlayer.kt` | queue of 128, track, prebuffer, bytes to drop or silence to write | addPacket, play loop, flush, setAudioSyncMs, stopPlay | UDP, player and main threads |
| Mirror decryption, `mirror_buffer.c` | counter of the cipher, rest of the last block | init, decrypt | mirror thread |
| Runtime, `ReceiverRuntime.kt` | receiver state, pairing placeholder, history record, surface | start, stop, transitions | main thread |
| Discovery, `DNSNotify.kt` | NSD registrations and their status | register, stop, late callbacks | main thread, NSD thread |
| DLNA, `DlnaMediaRenderer.kt` | its own players, transport state, retries | SOAP requests, remote keys, callbacks | workers, main thread, ExoPlayer thread |
| Adaptive quality, `pinn/` | votes, profile | sample, evaluate | a thread of its own, main thread |

### How they interact

    sender --TCP--> httpd --callback--> raop.c --SETUP--> raop_rtp / raop_rtp_mirror
    sender --UDP--> raop_rtp UDP thread --> raop_buffer --audio_process--> JNI --> AudioPlayer
    sender --TCP--> mirror thread --video_process--> JNI --> RaopServer --> VideoPlayer
    HTTP thread --setters--> mailbox of raop_rtp --callbacks of the UDP thread--> JNI --> RaopServer
    mirror thread or TEARDOWN --stream_stopped--> JNI --> posted to the main thread --> RaopServer
    RaopServer --states, posted--> ReceiverRuntime <--playback changes, posted-- DlnaMediaRenderer
    ReceiverRuntime --attach, detach of the one surface--> RaopServer or DlnaMediaRenderer
    PinnTelemetryCollector --decisions, posted--> RaopServer (the size that /info advertises)
    ReceiverRuntime --registers, refresh--> DNSNotify <--answers-- NsdManager

Requests run one after the other on the HTTP thread, which also joins the
threads of the sessions it destroys. Native threads call Kotlin directly. A
media packet is a block of native memory that passes to Kotlin and that Kotlin
must free exactly once.

### What is hard

- Shared flags and descriptors: two threads per session, and a third one that
  stops and frees it. Some of this happens outside the mutex
  (`raop_rtp_mirror.c:552-559`).
- Joins: whatever a session thread waits for, the HTTP thread waits for.
- Sessions outlive their connections: a closed connection leaves its sessions to
  two tables of fixed size.
- Order: 16-bit sequence numbers that wrap, packets lost, repeated and reordered,
  flushes in between; codec configs that must precede their frames.
- The player's queue is used by three threads, of which one takes no lock.
- Late events: posted stops, watchdogs, a pairing timer, registrations.

The list with lines is `hazards` in `PROJECT.json`.

### What makes each component correct

- Jitter buffer: frames in stream order, each at most once, silence only for what
  is missing, wrap-around invisible.
- UDP thread: nothing playable is left waiting; FLUSH and stop are served.
- Sessions: nothing closed or freed under a thread, each descriptor closed once,
  stop returns, no update of the mailbox is lost.
- Connections: no dangling pointer, no double destroy, nothing lost, every mirror
  stop announced.
- HTTP pool: counter, slots and user data agree; a full pool accepts nobody.
- Video player: every packet released once and not before it is decoded, bounded
  backlog, decode order, calls that end.
- Media server: one decoder at a time, every frame handed over once and in order,
  nothing left over from the session before, no call that blocks the main thread.
- Audio player: every packet released once, what is heard in order, the offset
  exact, a stop that ends.
- Mirror decryption: one key stream, whatever the sizes of the payloads.
- Runtime: what it shows is what runs, and the ready screen returns.
- DLNA: one player, released once, never revived; no playback without a player.
- Discovery: only the current services are on the network, a failure is asked for
  again.
- Adaptive quality: one step at a time, on agreeing readings, within the choice of
  the user.

## 2. The modules

| Module | Models | Remarks |
|---|---|---|
| `AudioPlayout` | what the buffer promises | abstract: naturals and one set, no ring, no wrap |
| `RaopBuffer` | `raop_buffer.c` | implements `AudioPlayout` |
| `RaopUdp` | UDP thread of `raop_rtp.c` | extends `RaopBuffer` and composes it with the mailbox and the network |
| `RaopRtp` | life and mailbox of an audio session | |
| `RaopMirror` | `raop_rtp_mirror.c` | |
| `MirrorStream` | the mirror thread with the decryption of its frames | composes `RaopMirror` and `MirrorDecrypt` |
| `RaopSessions` | `raop.c`, SETUP and TEARDOWN | sessions as objects with a few states |
| `Httpd` | `httpd.c` | |
| `RaopControl` | `raop_init`, `raop_start`, `raop_destroy`, and the calls of the pool into the handlers | composes `Httpd` and `RaopSessions` |
| `VideoPlayer` | `player/VideoPlayer.kt`, `model/NALPacket.kt` | |
| `RaopVideo` | the video half of `RaopServer.kt` | uses the players of `VideoPlayer` as sequences of what they were given |
| `AudioPlayer` | `player/AudioPlayer.kt`, `model/PCMPacket.kt` | |
| `KeyStream` | what the decryption promises | abstract: a byte of the stream and its place |
| `MirrorDecrypt` | `mirror_buffer.c` | implements `KeyStream` |
| `ReceiverRuntime` | `ReceiverRuntime.kt`, `ReceiverState.kt` | composes the state machine with what the media server and DLNA post |
| `DlnaRenderer` | the players of `DlnaMediaRenderer.kt` | |
| `ServiceDiscovery` | `DNSNotify.kt` | |
| `AdaptiveQuality` | `pinn/AdaptiveController.kt`, the collector, the posted decisions | |
| `MC*` | instances for TLC | |
| `*_proofs` | theorems | `RaopUdp_proofs`: of `RaopBuffer`, `RaopUdp` and `RaopRtp`; `RaopControl_proofs`: of `RaopSessions`, `Httpd` and `RaopControl`; `MirrorStream_proofs`: of `RaopMirror`, `MirrorDecrypt` and `MirrorStream`; `ReceiverRuntime_proofs`: of `ReceiverRuntime`, `DlnaRenderer` and `AdaptiveQuality`; the others of the module they are named after |

**RaopBuffer.** One action per function. A packet is its place in the sender's
stream, which does not wrap; the program sees it modulo `SeqMod`. Two history
variables, `first_abs` and `last_abs`, say which packets the 16-bit fields stand
for, and the refinement mapping is `next <- first_abs`, `held <-` the packets in
available slots. Decryption and decoding are the identity on the packet's name.
`InReach` is the one assumption about the network: while the buffer runs, a
packet is less than half the sequence space away from the one that is due.

**RaopUdp.** The thread is a program counter; each call it makes into the buffer
is one step of `RaopBuffer`. The HTTP thread may write FLUSH or clear `running`
at every step. The packets come by any number of deliveries in any order on the
data socket or, as retransmissions, on the control socket. `floor` is history:
the oldest packet that may still be played.

**RaopRtp.** What is done under `run_mutex` is one action. A value in the mailbox
is the number of the call that set it, so a value that is overwritten and one
that is lost can be told apart. `http` walks through `raop_rtp_stop`: join,
signal, join, close. The condition variable keeps no signal.

**RaopMirror.** A descriptor and the field that holds it are kept apart, because
the mirror thread closes the one and clears the other in two steps outside the
lock. `Sender` (a frame completed, the stream closed) has no fairness.

**RaopSessions.** Each handler is one action: it runs alone on the HTTP thread.
A mirror thread may end between any two. `Destroy` includes the stop and join of
the threads, so it also counts the `stream_stopped` call a mirror thread makes
on its way out. Requests are served until `httpd_stop` has joined the thread, so
also after `raop_destroy` has begun. `setup` is told apart up to 2, which is all the code branches on
once a stream type or none is an input.

**Httpd.** One server socket: the program never opens the IPv6 one. The scan
over the pool handles one readable slot per step, in slot order. A request keeps
or ends its connection.

**RaopControl.** A step of the pool that calls back is one step with the handler
it calls: an accept with `conn_init`, a complete request with SETUP or TEARDOWN,
a removal with `conn_destroy`. A user of the pool is a connection of `raop.c`. A
handler whose answer asks for a disconnect leaves its slot to the next step of
the same scan. `raop_destroy` is three steps: clear `running` (or find nothing
started), join, destroy what the tables hold. In the meantime the HTTP thread may
be anywhere, and may have ended by an error long before. A stop of an audio session
may wait for ever for its timing thread (`raop_rtp.c:403`, `:702`): `stuck` is the
session whose join never returns, in a TEARDOWN, in `conn_destroy` or in
`raop_destroy`.

**VideoPlayer.** A packet is the number of its call. The queue is an
`ArrayBlockingQueue`, so each operation on it is one step; the monitor of
`synchronized(packets)` is a variable, and the player thread's `poll` and the
first three steps of `addPacket` for a codec config run without it. Looking at a
frame in `trimBacklog` and removing it are two steps. `Frames` are the places of
the queue that hold frames; the trim looks at the first of them.

**RaopVideo.** `lock` is the monitor of the `@Synchronized` methods; what the
methods read before they take it (the default argument `currentSurface`, the
field `videoPlayer`) is a step of its own. The mirror thread and the main thread
are program counters, the watchdogs and the end of a stream are runnables of the
main looper, and each player thread only reports frames and ends. There is one
mirror thread at a time, since a sender has one mirror session. `join` with its
time-out is a step that may come before the player has ended. `stop` of the
native server waits for the mirror thread, which may still be in a callback.

**AudioPlayer.** `lock` is `playbackLock`; the queue is safe by itself. Bytes are
counted in units of a fraction of a packet, so that a drop or a silence may be
part of a packet, a whole one or more. `content` is what the track was given.
The read and the write of the bytes still to drop are two steps, and so are the
look at the size of the queue and the poll in `trimBacklog`. The silence may end
early, when a write of it fails or the player is stopped (`silenceCut`), and a write
that took nothing is followed by `handleShortWrite`.

**MirrorStream.** The payload of a video frame is decrypted in the step that
completes the frame; everything else the session does leaves the cipher alone.

**MirrorDecrypt.** A byte of the key stream is named by its place, so a wrong
carry is a wrong number. A payload is its size.

**ReceiverRuntime.** The media server is kept to the states it emits and DLNA to
the playback changes it reports; each is posted, and the looper serves the posts
in order. A timer that is due enters the queue behind what was posted before it
(`TimerDue`). `stop` and `start` leave the queue as it is, as the program does;
an end of a stream carries the server that posted it, and one of an older server
finds its `serverId` 0 and is dropped. What the threads look at and what they post
are two steps: `mirror` is the state the mirror thread has yet to emit, or says that
it holds a packet whose player it will look for; `outlived` and `earlier` are stopped
players that may still report a frame, of this media server and of the one before
the last restart. `late` is history: a thread spoke of what was no longer so.

**DlnaRenderer.** `play`, `stopPlayback` and the other synchronized methods are
one step; Pause, the callbacks of both players and the work of the ExoPlayer
thread are not synchronized, so the ExoPlayer is built in two steps
(`BeginBuild`, `Built`) between which a Stop may come, and a retry checks whose it is
and prepares in two steps (`RetryRuns`, `RetryPrepares`). A `MediaPlayer` whose
`setDataSource` or `prepareAsync` throws stays "abandoned": made, with the surface,
and in no field.

**ServiceDiscovery.** What a register does under its lock is one step, and a
callback goes on after it gave the lock back. `NsdManager` is external: it
answers what it accepted, late or with a failure, and one thread delivers. Also an
unregistration may fail (`onUnregistrationFailed` only logs) or be refused with an
exception (`Stop`).

**AdaptiveQuality.** A prediction is what `evaluate` tells apart: its vote, and
whether the device is cool. A decision is made on the collector's thread, posted,
and carried out by the main thread, in three steps.

## 3. The runs

| Run | Checks | Bounds | States |
|---|---|---|---|
| `udp_thread` | `IInv`, `PlayoutSpec`, `PlayedInOrder`, `FlushServed` | 2 slots, 8 sequence numbers, packets 0..9, control port known and unknown | 73 000 |
| `audio_session` | `SessionInv`, `SetDelivered`, `StopReturns` | 3 fields, 2 calls of each setter | 22 000 |
| `mirror_session` | `CloseOnceInv`, `FreedInv`, `StopReturns`, `OneKeyStream` | 3 frames, payloads of nine sizes from 15 to 49 bytes, 100 bytes | 181 000 |
| `control` | `ServedInv`, `PointersInv`, `OwnedInv`, `StopsInv`, `DestroyReturns` | pool of 2, 2 sessions, tables of 1 | 1 741 000 |
| `video_queue` | `OwnedInv`, `BacklogInv`, `DecodedInOrder`, `AddReturns`, `StopEnds` | capacity 3, trim at 2, 6 packets | 226 000 |
| `video_trim` | `ReleasedAfterDecode`, violated | the same | |
| `raop_video` | `OnePlayer`, `OneOwner`, `IdleClean`, `MainReturns`, `StartupDecided` | 2 players alive, a buffer of 1, 2 sessions, 2 packets | 404 000 |
| `audio_player` | `AudioOwned`, `HeardInOrder`, `OffsetAtStart`, `StopEnds` | 2 UDP threads, queue of 2, prebuffer 2, 3 packets of 2 units, 1 flush, offsets before and after | 1 620 000 |
| `runtime` | `HistoryWhileActive`, `Followed`, `ReturnsToReady` | PIN on and off; 2 of: session of audio or video, DLNA playback, restart; a thread posts to an empty queue | 2 434 000 |
| `dlna` | `PlayersInv`, `RetiredStaysDown` | 3 players, 5 requests, 1 retry | 374 000 |
| `discovery` | `AdvertisedIsCurrent`, `AnnouncedOrRetried`, `StatusIsCurrent` | both labels, 3 registers, 2 configurations | 147 000 |
| `adaptive` | `MovesOnUnanimity` | every profile, threshold 3, 2 sessions, 1 change by the user | 789 000 |

What each property says is in the comment above it, with the lines it is about.

Why the bounds are enough to see the interesting cases:

- *Buffer and UDP thread.* What matters is where a packet lies relative to the
  window (before, inside, at its end, far beyond) and relative to the wrap. 2
  slots give gaps, a full ring and an overrun; 8 numbers and ten packets wrap
  once. The theorems lift the bounds of the buffer.
- *Audio session.* Two calls of a setter are the least that can overtake each
  other; the third field separates the first, a middle and the last callback.
  The theorem lifts both.
- *Mirror session.* The control is independent of how many frames came. The sizes
  of the payloads reach from the longest kept rest to three blocks and one byte;
  three frames are enough for every rest to meet every size. The theorems lift
  the bounds, not the least size.
- *Control server.* Two slots are empty, partly full and full; two connections
  may be in any two phases at once; a table of one entry is full with the first
  session, so the second is destroyed with its connection. Names of sessions are
  not reused, which bounds a run to 2 first SETUPs. The theorems lift all of it.
- *Video queue.* The gap between threshold and capacity is 1 (24 in the program),
  so a codec config can take the last place and another one wait for it. Six
  packets of either kind fill the queue twice.
- *Media server.* Two players are the old and the new one; a third exists only
  after one of them has ended, and its name is then free again. Two sessions are
  what a late event needs, two packets a config and a frame that waits or
  overtakes it. A buffer of 1 is full with the first frame; that a full buffer
  drops its oldest frame is modelled, but with two packets not reached.
- *Audio player.* Two adders race for the last place, and the prebuffer equals
  the threshold so that priming meets a full queue.
- *Runtime.* Two sessions, or one and a DLNA playback or a restart, with the
  surface and the timer at any time: every pair of them meets. `Followed` holds of
  the states in which neither DLNA, a pairing overlay nor a restart has interfered and
  no thread has posted what was no longer so, which its definition says. A thread
  posts when nothing waits in the queue (`MaxPosts` is 1), which delays it but drops
  nothing; timers, and what a handler or one call posts together, do queue up. That is
  the narrowest of the bounds: 2 makes six times as many states. For
  `HistoryWhileActive` and `Followed` the theorems lift it; `ReturnsToReady` is checked
  under it only.
- *DLNA.* A player that was released, the current one, and one being made; five
  requests are Play, Stop or Pause around each. No liveness: nothing in the code
  promises that a controller ever calls again.
- *Discovery.* Three registers for two labels: one label is registered twice, and
  a configuration is changed once.
- *Adaptive quality.* 3 is the least threshold of the program, and its four
  profiles are all there; a second session meets what the first one posted.

Deadlock is not checked where the system may stop for good: after a session is
destroyed, a server is gone, a player ended, or the packets or requests of an
instance ran out. That nothing waits for ever is said by the liveness properties.

### What the code does not keep

`video_trim` is the one run that expects a violation. `docs/performance.md:66`
says that native memory is released "after write, decode, or drop".
`trimBacklog` releases the packet it looked at (`VideoPlayer.kt:297-299`) also
when the player thread, whose `poll` is outside the monitor, has taken it in the
meantime: the memory is freed while the decoder copies from it.

While the modules were written, more sentences of the repository turned out to be
broken by what the code does. The modules keep the properties that say them,
although no listed run checks them: give one to TLC instead of the properties of
its module's run to see the trace (with the bounds of that run, or with one more
event, packet or offset).

| Property | What happens instead | Where |
|---|---|---|
| `RaopUdp!SilenceOnlyWhenFull` | SETUP passes control port 0, so no resend is ever awaited (`raop_buffer.c:525` "hope resend gets on time") and a packet overtaken by the next is silence | `raop_handlers.h:449`, `raop_rtp.c:512` |
| `RaopSessions!KeptAlive` | "keeping media session alive" only while the tables have room; only TEARDOWN and `raop_destroy` empty them | `raop.c:443` |
| `RaopSessions!TeardownAnnounced` | the disconnect flow of `docs/architecture.md:171` does not start for audio alone; the runtime then stays in `AUDIO_ACTIVE` | `raop.c:421` |
| `VideoPlayer!AllReleased` | a packet added after the drain of `stopDecode` is never released | `VideoPlayer.kt:63` |
| `RaopVideo!FramesInOrder` | `attachSurface` publishes the player before it drains the buffer (`docs/performance.md:76`) | `RaopServer.kt:535` |
| `RaopVideo!DecoderWatched` | after a restart or an early pause no timer watches a decoder that shows nothing | `RaopServer.kt:646` |
| `RaopVideo!EndedNotActive` | a player that outlives its join reports a late frame, and an ended session is `VIDEO_ACTIVE` | `RaopServer.kt:559` |
| `RaopVideo!WaitingHasNoSurface` | a packet on its way to the buffer reports `WAITING_FOR_SURFACE` after the surface came | `RaopServer.kt:123` |
| `RaopVideo!DetachedNotRendered` | a surface read before the monitor is used after it was taken away | `RaopServer.kt:515` |
| `AudioPlayer!OffsetApplied` | the packet in the player's hands escapes a later change of the offset; and a silence whose write failed is not resumed, though `docs/architecture.md` calls the offset deterministic | `AudioPlayer.kt:249`, `:263-268` |
| `AudioPlayer!FlushedUnheard` | the same packet is heard after a flush and starts the track without a prebuffer | `AudioPlayer.kt:115` |
| `AudioPlayer!StoppedReleased` | a packet added after `stopPlay` is kept for ever | `AudioPlayer.kt:54` |
| `ReceiverRuntime!SpokenInTime` | the mirror thread looks for the player, `attachSurface` makes one and posts `VIDEO_STARTING`, and then the thread posts `WAITING_FOR_SURFACE`: the screen stays on it while a player runs, since `VIDEO_ACTIVE` is refused from there; a stopped player's late `VIDEO_ACTIVE` does the like | `RaopServer.kt:121-124`, `:549-559` |
| `ReceiverRuntime!NoGhost` | states posted before a restart are believed after it | `ReceiverRuntime.kt:495` |
| `ReceiverRuntime!SessionShown` | states during DLNA are dropped, and a session plays behind the ready screen | `ReceiverRuntime.kt:496` |
| `ReceiverRuntime!DlnaWhilePlaying` | the DLNA flag outlives a restart | `ReceiverRuntime.kt:235` |
| `ReceiverRuntime!HistoryClosed` | the end of DLNA leaves the history record open | `ReceiverRuntime.kt:429` |
| `ReceiverRuntime!OverlayKept` | the PIN overlay ends with the second state of a session | `ReceiverRuntime.kt:500` |
| `ReceiverRuntime!TrustedAfterOwnOverlay` | its timer trusts whoever is pending then | `ReceiverRuntime.kt:523` |
| `DlnaRenderer!ActiveHasPlayer` | a playback is reported without a player | `DlnaMediaRenderer.kt:343` |
| `DlnaRenderer!SurfaceGivenBack` | a player that ended keeps the surface, and so does one whose preparation threw, which nothing releases any more | `DlnaMediaRenderer.kt:351`, `:344-366` |
| `DlnaRenderer!StopHolds` | a Stop while the ExoPlayer is built is undone (one after the check of a retry lets it start the player, until the queued release) | `DlnaMediaRenderer.kt:381`, `:402` |
| `ServiceDiscovery!NothingKept` | a service that was replaced or stopped stays on the network when its unregistration fails or throws: it is logged and forgotten | `DNSNotify.kt:189-191`, `:201` |
| `ServiceDiscovery!RefreshRevives` | a register whose request threw is taken for a good one | `DNSNotify.kt:141` |
| `AdaptiveQuality!WithinChoice` | the adaptive size exceeds the choice of the user | `AdaptiveController.kt:123`, `ReceiverRuntime.kt:897` |
| `AdaptiveQuality!ObservedUntouched` | a decision is carried over into the next session | `ReceiverRuntime.kt:890` |

`MirrorStream`'s `OneKeyStream` fails for a payload shorter than the kept rest of
a block, at most 15 bytes: it is written beyond its end and every later byte
meets the wrong key byte (`mirror_buffer.c:96`). The run and the theorem therefore
speak of payloads of 15 bytes and more; a video frame is longer.

### Fairness

- Threads are weakly fair: the operating system schedules them, and the mutexes
  they take are held for a few instructions. Of the choices inside one thread
  (time-out, data, error) none is forced.
- A join, and the calls that follow it in a stop, are weakly fair: they go on
  once the thread has ended.
- Timed waits end (3 s of `pthread_cond_timedwait`, 1 s of `SO_RCVTIMEO` on the
  mirror's timing socket): they are part of a weakly fair action.
- The sender owes nothing: no fairness for an answer on the timing socket, for
  the rest of a frame, or for the close of a stream. The audio timing socket has
  no receive time-out, which is why `StopReturns` of `RaopRtp` says that only a
  thread that stays in `recvfrom` for ever can hold the stop.
- Nobody need call: no fairness for starts, setters, FLUSH, requests or stops.
- In `VideoPlayer`, a decode step is fair: `MediaCodec` calls have time-outs. In
  `AudioPlayer` so is a blocking write: the track plays and makes room.
- The looper of the main thread serves in order what was posted, and a delayed
  runnable when its time has come. In `ReceiverRuntime` it is one weakly fair
  action over the queue. In `RaopVideo` the runnables are kept apart, and the
  user may attach, detach and select at any time in between, so the end of a
  stream and the startup watchdogs are strongly fair: they are served in the end
  however busy the looper is.
- In `RaopVideo`, the mirror thread that is stopped ends (that is `StopReturns` of
  `RaopMirror`; the audio timing thread is not in it, so `MainReturns` is about the
  video half of `stopServer`), and a player that is told to stop ends (`StopEnds` of
  `VideoPlayer`). No frame is ever owed.
- In `RaopControl`, the HTTP thread goes on whatever the senders do: `select` has a
  time-out and a handler returns, unless it stops an audio session whose timing
  thread never ends. That a stop returns otherwise is `StopReturns` of `RaopRtp` and
  `RaopMirror`; that it may not is a step of its own (`TeardownHangs`,
  `ConnDestroyHangs`, `DestroyActiveHangs`), after which `DestroyReturns` claims
  nothing. Nobody need connect.
- `DlnaRenderer`, `ServiceDiscovery` and `AdaptiveQuality` state no fairness: their
  properties are about what a step or a state may not be.

## 4. The proofs

Each proof module establishes an inductive invariant: it holds initially, every
step keeps it, and it implies what is claimed.

The specification of a component is `Spec`, except where one proof module extends
several: `UdpSpec`, `RtpSpec`, `HttpdSpec`, `ControlSpec`, `StreamSpec`,
`RendererSpec`, `QualitySpec`.

**`RaopUdp_proofs`: the ring, the thread that uses it, and the session.**
`Invariance: Spec => []IInv` and `Refinement: Spec => PlayoutSpec`, for every
`BufLen`, `SeqMod` and `Packets` with `SeqMod` even, a multiple of `BufLen`, and
`BufLen` less than half of it (64 and 65536 in the program). `IInv` adds to the
types: the 16-bit fields are the history modulo `SeqMod`; the window is never
longer than the ring; an available slot holds a packet of the window, in the slot
of its number; the newest packet is in its slot. The window alone is not
inductive: that a slot's number equals the expected one proves nothing unless no
packet of another lap can be there. The arithmetic lies in a handful of lemmas
(`CmpExact`: the signed 16-bit difference is the true one when the distance is
less than half the range; `SlotInjective`: packets less than a ring apart have
different slots), after which no step reasons about `%` again.
`UdpCallsBuffer: UdpSpec => Spec` says that each step of the thread is a step of
the buffer or leaves it alone, so both theorems hold of the thread
(`UdpPlayout`). `UdpPlaysInOrder: UdpSpec => PlayedInOrder` then needs only
`FloorInv`: what was played, and what a FLUSH ruled out, lies behind the window, and
a buffer that got nothing since the last full flush rules nothing out.

`SessionSafety: RtpSpec => []SessionInv` (`JoinedInv`, `ThreadsInv` and
`NoUpdateLost`) is about `RaopRtp`, for a mailbox of any number of fields and any
number of calls. The strengthening is `StopInv`
(the order in which stop joins the threads) and `TakenInv` (what was taken from
the mailbox and not delivered is still ahead of the thread).

**`RaopControl_proofs`: handlers, pool, and both.**
`Ownership: Spec => [](PointersInv /\ OwnedInv /\ GoneInv /\ ConnInv /\ StopsInv)`
is about `RaopSessions`, for any connections, sessions and table size. The
strengthening is `MadeInv` (a name not used yet has no objects), `LeftInv` (what
`raop_destroy` leaves) and `StopCountInv` (how many stops each state of a mirror
stands for).
`PoolSafety: HttpdSpec => [](PoolInv /\ NeverFullInv /\ StoppedInv /\ JoinedInv)` is
about `Httpd`, for a pool of any size. `CountInv` says the counter is the
cardinality of the connections and `UniqueInv` that slots and users have one each;
from both, by the pigeonhole, a pool that counts less than its size has a free
slot. `RoomInv` carries what `select` saw over to the accept; `EmptyInv` and
`StartInv` link the thread and its owner.
`ControlSafety: ControlSpec => [](ServedInv /\ PointersInv /\ OwnedInv /\ GoneInv /\
StopsInv)` is about the composition, for any number of slots, connections, sessions
and table entries. A step of the composition is a step of the pool (`PoolStep`) and
of the sessions (`SessionsStep`), so both invariants are kept by the lemmas about
the parts; new is `LinkInv`, that both sides know the same connections.
`NoDanglingPointer` and `StopsAnnounced` state two parts of it by themselves.

**`RaopVideo_proofs`: the media server.** All for any number of players, sessions
and packets.
`OnePlayerAlways: Spec => []OnePlayer`. `LockInv` says which thread is where under
the monitor, and `JoinInv` that nothing runs between `stopDecode` and the end of the
join: with them, `ensureVideoPlayer` on either thread meets no second player.
`FramesOwned: Spec => []OneOwner`. `GivenInv` says that no frame was given twice,
`WaitsInv` that what waits in the buffer are frames, each once, that nobody was given,
and `HandInv` that the newest packet, while the mirror thread has it in its hands, was
given to nobody and waits nowhere. Without the last, a step that buffers it or hands
it over could repeat one.
`CleanAfterSessions: Spec => []IdleClean`. `ServerInv` says what a server that is not
up excludes, and `EndInv` that once no mirror thread runs and no stop is posted, the
main thread is still ending a session or nothing of one is left.

**`AudioPlayer_proofs`: the audio player.** All for any number of adding threads and
any bounds, offsets and flushes.
`PacketsOwned: Spec => []AudioOwned` and `InOrderHeard: Spec => []HeardInOrder`. A
lemma, `Moves`, sorts every step into seven ways in which at most one packet moves
(it comes, is dropped, joins the queue, is given up, is taken, is done with, or none
does), and the invariants are kept way by way. `OwnInv` says that the queue holds no
packet twice and those of one thread in its order, that the packet a thread adds is
its newest, and that the packet being played is older than what waits of its thread;
`HeardInv` that what was heard is older still. The order of the queue alone is not
inductive: the packet joins its end only because nobody else can have added for the
same thread.
`OffsetOfStart: Spec => []OffsetAtStart`. `OffsetInv` is a balance: until somebody
flushes or stops, what was dropped and what is still to drop make up a negative
offset, what was written as silence and what is still due a positive one, nothing is
due once playback has started unless the silence was cut short, and nothing
is written before the drop is done. The step that reads the bytes to drop and the one
that writes them back keep it only because nobody else writes that field meanwhile,
which a flush would.

**`ServiceDiscovery_proofs`: the announcement.**
`CurrentAdvertised: Spec => []AdvertisedIsCurrent`, `FailedRetried: Spec =>
[]AnnouncedOrRetried` and `CurrentStatus: Spec => []StatusIsCurrent`, for any labels
and any number of registers and changes. The three speak of the moments when every
answer was handled; the invariant says what holds on the way there: a request has at
most one answer under way (`AnswersInv`); what a register thinks of itself is the
last answer it got, and one that is stopped and still registered is in the hands of
the thread that will withdraw it (`KnowledgeInv`); a register that is not stopped is
the current one (`CurrentInv`); one whose unregistration failed or threw was stopped,
which is all that can be said of it; and a thread that writes the status of a replaced
register does so before the answer of its successor is delivered (`StatusInv`).

**`VideoPlayer_proofs`: the queue of the video player.** All for any lengths.
Four lemmas first say what the operations on the queue do to it: `Tail` and
`RemoveAt` take places out and leave the rest in order (`Thins`), `Append` adds one
(`PlacesAppend`), and thinning never adds a frame (`PlacesThinned`, by an injection).
`BacklogBounded: Spec => []BacklogInv`, for any number of adders. The bound alone is
not inductive: `Backlog` adds that a thread past the trim, until it has put its
frame, has room for one, which needs `LockInv` (nobody else is under the monitor)
and `ConfigInv` (what is offered in between is no frame).
`OrderKept: Spec => DecodedInOrder`, for any number of adders. Numbers of one thread
grow along the way out: what left the queue, then the queue (`OutFirst`,
`QueueOrdered`), then the pending codec config (`PendingLater`), then the packet the
thread is handing over (`FreshLater`). `PutLast` is the delicate part: a frame must
not be put while a config of its own thread is pending. It holds because the trim
leaves room under the monitor, so that the second offer can fail on an empty
`pendingCodecConfig` only.
`PacketsHeld: OneAdder /\ Spec => []OwnedInv`, for at most one adder. `FreeInv` says
that nothing free is queued or pending, except for a pending config that is about
to be cleared; `HeldInv` that every packet is free, queued, pending, being decoded,
or in the hands of the adder at a step where it is still needed. The hypothesis is
needed: with two adders TLC finds a codec config that one thread puts in the queue
between the other's read of `pendingCodecConfig` and its release of what it read
(`VideoPlayer.kt:50-54`), so that a free packet is queued. Two threads can meet
there only when a surface is attached in the middle of a stream (section 5).

**`ReceiverRuntime_proofs`: the runtime and what reports to it.** All for any bounds.
`HistoryHeld: Spec => []HistoryWhileActive`. A record is begun on the edge into an
active state; `HistoryKept` goes through `transitionTo` once, in a lemma. The theorem
is one direction: that no record is open on the ready screen (`HistoryClosed`) is not
so.
`StateFollows: Spec => []Followed`. `Followed` speaks of an empty queue, so the
invariant must say what is on its way: `SettleInv` says that the messages posted, in
their order and with the transitions the table refuses, lead from the state shown
into the states that the media server's own state calls for (`Expected`). Written
as a recursion over the queue this could not be proved here; it is written as the
existence of a trace, the sets of states possible before each message, which a
handler shortens at the front and a post extends at the end. `MediaInv` says what the
threads' looks leave true until they post: without `late`, only a session has a
player, and a mirror thread that is about to say `WAITING_FOR_SURFACE` though there is
a surface has been overtaken by a player.
`PlayersKept: RendererSpec => []PlayersInv` (`OneMediaPlayer` and `ReleasedOnce`) and
`RetiredStays: RendererSpec => RetiredStaysDown`, for any number of players, requests
and retries. `CurrentInv` says the two fields hold living players of their kind;
`QueueInv` that a release in the queue of the ExoPlayer thread is of a living
player that is not current and has no second release there. A retry compares the
player with the field, so none passes its check for a player that was let go; one
that had passed it finds a living player at least (`RetryInv`), since the release can
only run behind it on the same thread. The MediaPlayer whose preparation threw is
excepted by name in `OneMediaPlayer`.
`UnanimousMoves: QualitySpec => MovesOnUnanimity`, for any threshold. `CountersInv`
relates the three counters of the controller: votes that reach the threshold have as
many healthy and cool readings behind them, so the other two thresholds never
hold a move back. `RunInv` says that where the profile may still move, the votes
counted are exactly the latest readings that agree; at the end of its range the
count starts over and this is false, which is why it is claimed for the open
directions only.

**`MirrorStream_proofs`: the mirror session and its decryption.**
`SessionSafety: Spec => [](ThreadsInv /\ CloseOnceInv /\ FreedInv)` is about
`RaopMirror`, for any number of frames. The strengthening is `DescriptorInv`, which
ties each descriptor, and separately the field that holds it, to how far the mirror
thread is in its teardown; `CallerInv` (what `destroy` knows at each of its steps) and
`ToldInv` (the end is announced once). Without the first, the caller's close of a
field that the mirror thread left behind looks like a second close.
`Implements: ... => OneKeyStream` is the refinement of `KeyStream`, for any set of
payload sizes of at least 15 bytes, streams of any length and any interleaving with
the end of the session; `StreamSafety: StreamSpec => [](ThreadsInv /\ CloseOnceInv /\
FreedInv)` lifts the first theorem to it. The invariant (the blocks made are the bytes
seen and the bytes kept) is inductive with the types; a lemma spells a payload out
into the kept bytes, its whole blocks and its rest.

The assumptions are the named `ASSUME`s of the modules, which TLC evaluates in the
runs, and `OneAdder` where it is written. Every invariant and action property that a
passing run checks is stated by a theorem. TLC checked each invariant on the small instances before it was proved.

Only model-checked is all liveness (`FlushServed`, `SetDelivered`, `StopReturns`,
`DestroyReturns`, `AddReturns`, `StopEnds`, `MainReturns`, `StartupDecided`,
`ReturnsToReady`), since the prover has no support for `ENABLED`. The properties of
the table in section 3, which the code does not keep, are neither.

No module declares a `RECURSIVE` operator.

## 5. What is left out

- Allocation failures, except where the code goes on with half a session.
  In particular an AAC decoder that cannot be made (`raop_buffer.c:471`).
- Time stamps of frames, and the memory of mailbox values.
- The reuse of a descriptor's number by another file.
- Data races inside a function of the buffer: a second audio SETUP reconfigures
  the ring under the UDP thread (`raop_handlers.h:646`), and a second video SETUP
  renews the cipher under the mirror thread (`raop_handlers.h:593`).
- Two threads that add codec configs to one `VideoPlayer` at once (the mirror
  thread, and the one that attaches a surface): the run of `VideoPlayer` has one
  adder. Order and backlog are proved for any number; `OwnedInv` does not hold of
  two (section 4). `RaopVideo` has both threads, and a player as the sequence of
  its packets.
- The audio half of `RaopServer`: it makes the audio player and passes on what
  `AudioPlayer` models. Volume, frame rates, statistics and texts.
- The HTTP and SSDP servers of DLNA and its SOAP parsing; seeking and volume. A
  `MediaPlayer` whose `prepared` callback comes after its release
  (`DlnaMediaRenderer.kt:347`): the model delivers no callback of a released
  player, as Android does not.
- In `pinn/`, the features, the network and its training: real arithmetic.
  `fallback` and `updateBaseline` have no caller.
- Pairing and FairPlay, the block cipher, property lists, parsing, formatting,
  logging, user interface, Android services, preferences and stores:
  computation, or input and output, with no interleaving of its own.
- Vendored code: fdk-aac, ALAC, crypto, curve25519, ed25519, playfair, plist,
  mDNSResponder, `com.apple.dnssd`. It is by far the largest part of the tree, so
  the lines that the modules map are a small share of the repository and a large
  one of its own logic.

## 6. Where it could go on

- The ring's functions split into their memory accesses, for the second audio
  SETUP.
- The audio half of `RaopServer` in `RaopVideo`, which would join its session
  states with those of the runtime.
