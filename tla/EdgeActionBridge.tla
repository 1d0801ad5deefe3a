--------------------------- MODULE EdgeActionBridge ---------------------------
(***************************************************************************)
(* raspicat_vla_edge/edge_action_grpc_node.py (and its twin over WebSocket,  *)
(* edge_action_ws_node.py): action chunks of a phone come in on gRPC worker  *)
(* threads and wait in a one-place slot; a ROS timer publishes them as       *)
(* paths, and is the watchdog that stops the robot when chunks stop coming.  *)
(* handle_chunk changes the slot under the lock, in one step.  _tick takes   *)
(* a snapshot under the lock, publishes without it, and locks again to note  *)
(* that it has stopped the robot: three steps.                               *)
(***************************************************************************)
EXTENDS Naturals

CONSTANT
    MaxChunks   \* bound: chunks accepted

ASSUME BridgeAssumption == MaxChunks \in Nat

Chunks == 1..MaxChunks         \* in order of acceptance

NoChunk == 0                   \* None in the slot
EmptyPath == 0                 \* what is published to stop the follower

VARIABLES
    chunks,    \* number of chunks accepted so far
    pending,   \* self._pending
    rxAge,     \* now - self._last_rx: "never", "recent" or "old"
    stopped,   \* self._stopped
    tick,      \* _tick: "idle", "read" or "emptied"
    snap,      \* the snapshot's pending
    snapIdle,  \* the snapshot's verdict: seen a chunk, it is old, not stopped
    path,      \* the path last published
    emptied    \* empty paths published since the last other one

tickVars == <<tick, snap, snapIdle>>
vars == <<chunks, pending, rxAge, stopped, tickVars, path, emptied>>

TypeOK ==
    /\ chunks \in 0..MaxChunks
    /\ pending \in Chunks \cup {NoChunk}
    /\ rxAge \in {"never", "recent", "old"}
    /\ stopped \in BOOLEAN
    /\ tick \in {"idle", "read", "emptied"}
    /\ snap \in Chunks \cup {NoChunk}
    /\ snapIdle \in BOOLEAN
    /\ path \in Chunks \cup {EmptyPath}
    /\ emptied \in Nat

Init ==
    /\ chunks = 0
    /\ pending = NoChunk
    /\ rxAge = "never"
    /\ stopped = TRUE
    /\ tick = "idle"
    /\ snap = NoChunk
    /\ snapIdle = FALSE
    /\ path = EmptyPath
    /\ emptied = 0

\* Mutation: the slot is filled with one chunk too many.
HandleChunkSkips ==
    /\ chunks < MaxChunks
    /\ chunks' = chunks + 1
    /\ pending' = chunks + 2
    /\ rxAge' = "recent"
    /\ stopped' = FALSE
    /\ UNCHANGED <<tickVars, path, emptied>>

\* handle_chunk of a well-formed chunk; a malformed one changes nothing.
HandleChunk ==
    /\ chunks < MaxChunks
    /\ chunks' = chunks + 1
    /\ pending' = chunks + 1
    /\ rxAge' = "recent"
    /\ stopped' = FALSE
    /\ UNCHANGED <<tickVars, path, emptied>>

\* chunk_max_age_sec passes.
Silence ==
    /\ rxAge = "recent"
    /\ rxAge' = "old"
    /\ UNCHANGED <<chunks, pending, stopped, tickVars, path, emptied>>

\* Mutation: the slot is read but not emptied.
TickReadKeeps ==
    /\ tick = "idle"
    /\ snap' = pending
    /\ snapIdle' = (rxAge = "old" /\ ~stopped)
    /\ tick' = "read"
    /\ UNCHANGED <<chunks, pending, rxAge, stopped, path, emptied>>

\* Mutation: the snapshot forgets self._stopped.
TickReadUnstopped ==
    /\ tick = "idle"
    /\ snap' = pending
    /\ pending' = NoChunk
    /\ snapIdle' = (rxAge = "old")
    /\ tick' = "read"
    /\ UNCHANGED <<chunks, rxAge, stopped, path, emptied>>

\* _tick, under the lock: the slot is emptied into the snapshot.
TickRead ==
    /\ tick = "idle"
    /\ snap' = pending
    /\ pending' = NoChunk
    /\ snapIdle' = (rxAge = "old" /\ ~stopped)
    /\ tick' = "read"
    /\ UNCHANGED <<chunks, rxAge, stopped, path, emptied>>

\* Mutation: the watchdog's verdict goes before the waiting chunk.
TickPublishIdleFirst ==
    /\ tick = "read"
    /\ \/ /\ snap # NoChunk
          /\ ~snapIdle
          /\ path' = snap
          /\ emptied' = 0
          /\ tick' = "idle"
       \/ /\ snapIdle
          /\ path' = EmptyPath
          /\ emptied' = emptied + 1
          /\ tick' = "emptied"
       \/ /\ snap = NoChunk
          /\ ~snapIdle
          /\ tick' = "idle"
          /\ UNCHANGED <<path, emptied>>
    /\ UNCHANGED <<chunks, pending, rxAge, stopped, snap, snapIdle>>

\* _tick, without the lock: the chunk, or one empty path, or nothing.
TickPublish ==
    /\ tick = "read"
    /\ \/ /\ snap # NoChunk
          /\ path' = snap
          /\ emptied' = 0
          /\ tick' = "idle"
       \/ /\ snap = NoChunk
          /\ snapIdle
          /\ path' = EmptyPath
          /\ emptied' = emptied + 1
          /\ tick' = "emptied"
       \/ /\ snap = NoChunk
          /\ ~snapIdle
          /\ tick' = "idle"
          /\ UNCHANGED <<path, emptied>>
    /\ UNCHANGED <<chunks, pending, rxAge, stopped, snap, snapIdle>>

\* _tick, under the lock again.
TickStopped ==
    /\ tick = "emptied"
    /\ stopped' = TRUE
    /\ tick' = "idle"
    /\ UNCHANGED <<chunks, pending, rxAge, snap, snapIdle, path, emptied>>

Timer == TickRead \/ TickPublish \/ TickStopped

Next == HandleChunk \/ Silence \/ Timer

Spec == Init /\ [][Next]_vars

\* The timer runs and time passes; nobody has to send a chunk.
FairSpec == Spec /\ WF_vars(Timer) /\ WF_vars(Silence)

-----------------------------------------------------------------------------
(* Properties.                                                              *)

\* "One empty path" per silence (l.12): the watchdog never fires twice without
\* a chunk published in between, although it notes the stop only after it.
OneEmptyPath == emptied <= 1

\* A chunk is published, unless a newer one takes its place: also the one that
\* arrives while the watchdog is firing.
ChunkPublished == \A c \in Chunks : (pending = c) ~> (path >= c)

\* A watchdog that is armed when the silence is noticed fires, unless a chunk
\* comes: what remains true of the promise below.
ArmedWatchdogFires ==
    (rxAge = "old" /\ ~stopped /\ tick = "idle") ~> (path = EmptyPath \/ rxAge # "old")

\* "If no new chunk comes within chunk_max_age_sec, one empty path safe-stops
\* the follower" (l.12): the last chunk's path does not stay in force for ever.
WatchdogFires == (rxAge = "old") ~> (path = EmptyPath \/ rxAge # "old")

=============================================================================
