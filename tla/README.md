# raspicat_vla: TLA+ models, model checking and proofs

This directory models the software that drives the robot: how observations and
embeddings travel between the edge and the remote model, how a goal change cuts
through everything that is in flight, how the server's threads share one model,
what becomes of a goal and of a path on the way, and how the chain to `/cmd_vel`
stops the robot when one of its parts goes silent or is taken down; and how the
phone and web apps that infer for the robot send it their chunks.  Paths are
relative to the repository root; line numbers are those of the modelled commit.

```
 camera, goal (control.py)        raspicat_vla_remote (server, backends)
      |                                   ^ |
      v            observations           | v  embeddings
 VLAEdgeNode --------------------->  VLAClient (grpc_client.py)
   |  ^   ^                               |
   |  |   +-------- EmbeddingCache <------+  on_embedding
   |  v
   |  adapter.predict_path
   v
 /raspicat_vla/predicted_path ----> PathFollowerNode (WaypointPD) ----> /cmd_vel
   ^
   |
 EdgeActionGrpcNode / EdgeActionWsNode <---- phone app / web app (chunks)
```

## 1. Inventory

Packages are under `src/` of the repository (`src/raspicat_vla_edge` etc.).

| Component | State | Operations | What is hard | What makes it correct |
|---|---|---|---|---|
| **VLAClient** `grpc_client.py` | observation queue with a stop sentinel, stop event, a semaphore per stream | `start`, `stop`, `send`, `_run`, `_run_stream`, `_request_iter` | three kinds of threads; request generators outlive their stream; non-atomic drain and put; reconnects | pacing bound, coalescing, replies in order, stop terminates, observations keep flowing |
| **EmbeddingCache** `embedding_cache.py` | latest embedding, frame floor | `put`, `invalidate`, `status`, `get_latest_raw` | two reads are two locks; sticky floor | never below the floor |
| **VLAEdgeNode** `edge_node.py` | goal, frame counter, camera image and stamp, sent images, cache, client, adapter, timers | `_on_image`, `_on_goal`, `_send_observation_tick`, `_on_embedding_received`, `_action_tick`, lifecycle | four executor threads with exclusive groups, a gRPC thread, a capture thread; goal change in mid-flight; slow inference on old inputs; lifecycle under callbacks | cached embedding belongs to the goal; at most one late path; every goal served; images paired; nothing used after cleanup |
| **Launch** `launch_util.py` | attempts | retried configure and activate | the order of exits; attempts used up | the node gets active unless the attempts of a transition all fail |
| **Adapters** `adapters/` | model weights, the goal (local mode) | `set_goal`, `predict_path` | exceptions, empty paths, who accumulates and who scales | the path is where the network meant it, in metres |
| **PathFollowerNode** `path_follower_node.py` | latest path, mismatch flag, new-path flag, held command | `_on_path`, `_tick`/`_decide_cmd` | a latch against paths, stops and wrong frames; time | a new path always wins; stops when it must |
| **WaypointPD** `waypoint_pd.py` | none | `compute`, `_limit` | boundary cases of the limiter | limits and turn radius |
| **EdgeActionGrpcNode / WsNode** | one-place slot, time of last chunk, stopped flag | `handle_chunk`, `_tick` | worker threads against the ROS timer; publish outside the lock | one empty path per silence, no chunk lost, watchdog fires |
| **Remote server** `server.py` | past image per peer, a pool of threads | `StreamInfer` | a stream holds a thread for life; vanished peers; errors end the stream | every waiting robot is answered |
| **Backends, OmniVLAEdgeEngine** | context ring, text cache, frame deque | `infer`, `infer_chunk` | four threads share one unlocked engine; state outlives streams and goals; four encodings of a goal | history bounded and in order; a call uses its own frame and text; the network sees the operator's goal |
| **Phone app** `app/inference` | goal, busy flag, sender with one pending chunk, gRPC stream | `_tick`, `_setGoal`, `_connectPi`, `_disconnectPi`, `submit`, `_drain`, `send`, `close` | awaits that a goal switch or a disconnect interleaves with | chunks in order, one late chunk at most, no connection left behind |
| **Web app** `web` | as the phone app, WebSocket with backoff | `tick`, `handleGoal`, `drain`, `open`, `send`, `close` | the same, and reconnect timers | the same |
| **Logger app** `app/logger` | writer, captures, clock | `start`, `stop`, `beginTalk`, `endTalk` | awaits between steps; double taps | one session at a time, nothing written after `finish` |
| `control.py`, scripts, containers | none | goals published and exited | durability of the topic | - |
| Messages `raspicat_vla_proto`, `raspicat_vla_msgs` | none | conversions | - | - |

`PROJECT.json` lists the hazards one by one at the lines where they bite.

## 2. Modules

| Module | Models | Notes |
|---|---|---|
| `ObservationChannel` | what the edge may assume of VLAClient | abstract: accepted, possibly lost, answered in order |
| `VLAClient` | `grpc_client.py` | implements `ObservationChannel` (`ImplementsChannel`) |
| `EmbeddingCache` | `embedding_cache.py` | operators on a record, one per locked method |
| `EdgeNode` | the callbacks of `edge_node.py`, cloud mode, active | extends `EmbeddingCache`; its client is an instance of `ObservationChannel` |
| `EdgeLifecycle` | the transitions of `edge_node.py` against its callbacks, both modes; `launch_util.py` | extends `EmbeddingCache` |
| `PathFollower` | `path_follower_node.py` | |
| `EdgeActionBridge` | `edge_action_grpc_node.py`, same logic in `edge_action_ws_node.py` | |
| `ChunkSender` | `edge_action_client.dart`, `edgeSender.ts` and `wsEdgeClient.ts` with their callers | both apps, told apart by `app` |
| `VlaServer` | `server.py` with the state its backends share | |
| `ActionPipeline` | the data of one inference, from `control.py` to `waypoint_pd.py` | no concurrency; `ActionPipelineMC` is its small instance |
| `VLAClientProofs`, `EdgeNodeProofs`, `EdgeLifecycleProofs`, `PathFollowerProofs`, `EdgeActionBridgeProofs`, `VlaServerProofs`, `ActionPipelineProofs`, `ChunkSenderProofs` | - | theorems, section 5; those of the two `Edge...` modules begin with the same lemmas about `EmbeddingCache` |

An action is a stretch of code that no other thread can be seen inside of: a
locked section, a queue or semaphore operation, or a callback no shared state
of which is touched by another thread.  Operators whose comment starts with
"Mutation:" are deliberate bugs; they are not part of the specifications and
serve to show that the properties can fail.

### VLAClient

`sender`, `run` and `gen[s]` are the program counters of the edge's send tick,
the `VLAClient` thread and the generator given to stream `s`.  `stream` stands
for both the stream being read and the semaphore in `self._inflight`, because
`_run_stream` replaces the two together.  A generator reads `self._inflight` when
it starts a poll (`GenTop`, kept in `on[g]`), gets or misses the permit
(`GenAcquire`, `GenAcquireTimeout`), and gives back to whatever the attribute is
then (`ReleaseAndReturn`), as the code does.  grpc's consumer thread sees that a
call is dead only when the generator yields (`GrpcConsume`), so generators of
failed streams live on beside their successors.  The server answers each stream
one request at a time; the network may fail any stream but the last
(`CallFail`), so `MaxStreams - 1` failures happen.  A poll that would change
nothing is not a step.

### EdgeNode

`io` is the position of the io callback group, in which goal, send and status
callbacks exclude each other; `tick` that of the heavy group; `rx` that of the
client's thread.  `_on_goal` is two steps, since the new goal is stored before
the cache is invalidated; the comment at `edge_node.py:475` about the frame
counter being read while it changes does not apply any more, because send tick
and `_on_goal` share a group.  `_send_observation_tick` is three: numbering,
`client.send` and recording the image, because the answer may come before the
image is recorded.  `_action_tick` looks at the cache twice and at the camera
once before it infers and publishes.  A goal is a number in order of arrival, an
embedding is its frame id, `goalOf` remembers the goal sent with it.  A decoding
or preprocessing error of the send tick makes it return early: the tick that
never happens.  `path` is the frame behind the last published path, 0 an empty
one; `late` and `calm` are history: moving paths published since an input was
last lost, and whether the goal in force is still without misfortune.

### EdgeLifecycle

`node` is the lifecycle state or the transition under way.  The transitions run
in the default callback group, beside everything else, so `on_configure`,
`on_deactivate` (around its join of 2 s) and `on_cleanup` (attribute by attribute,
in the order of `CleanupOrder`) are several steps.  `has` is the set of
attributes that are not `None`; a callback looks at an attribute in one step and
uses it in a later one (`Use`), and finding `None` there ends the process
(`crash`), as an exception out of an rclpy callback does.  `kind` and `device` are the
parameters that decide between cloud and local mode and on a camera of the
node's own.  `thread` is the capture thread the node remembers, `loops` are those
alive.  An observation remembers the client it was given to (`owner`), because a
client that was stopped and forgotten still handles the replies that arrive.
`LongRun` is a bound: the runs with more than one goal and one configuration.
`launch`, `tries` and `faults` are the retry loops of `launch_util.py`: an attempt fails
because the CLI does not find the node (`NotFound`), because `_build_adapter` raises, which
leaves a new cache and nothing else (`ConfigureRaises`), or because the camera does
not open, which leaves cache, adapter and client (`ConfigureFail`); when all attempts
to configure have failed, activation follows and is refused (`ActivateRefused`).
A goal that does not convert leaves a local adapter the goal it had.
`forgot`, `straddle` and `cut` are history.

### PathFollower

The node runs on one thread.  Since `WaypointPD.compute` is a function of the
path, a path is represented by its command; empty paths and paths to where the
robot stands make `Stop`.

### EdgeActionBridge

`handle_chunk` writes under the lock: one step.  `_tick` is a snapshot under the
lock, a publication without it and, for the watchdog, a second locked section:
three steps.  A malformed chunk changes nothing and is left out here;
`ActionPipeline` says which chunks are malformed.

### ChunkSender

Dart and JavaScript run on one event loop, so an action is the code between two
awaits.  Each connect or disconnect makes a new sender with a client of its own.
`_drain` awaits only its delay (`drain[s] = "delay"`); the sends return at once.
`link` are the streams or WebSockets in the order they were opened,
`requests[s]` the one the client of `s` holds.  Of gRPC it is assumed what its Dart
sources do: a call listens to its `StreamController` once it has a connection,
hence `requests.close()` of a stream without one does not return
(`CloseChannel`), and a channel that shuts down waits for open streams and
refuses new ones.  `ended` marks the link that `close()` ended: in the phone app it
may come up even then.  `LinkDown` is the step in which the app learns that a link
failed, and with it all that is underway on it is gone at both ends: that the Pi reads
nothing more of a link after the app has opened its successor is an assumption on the
transport, which `SenderInOrder` rests on.  `caught` (the delay was under way at the
switch) and `late` are history; `late` counts what a sender gives its client, not what
the client's `StreamController` still buffers.

### VlaServer

A stream is a peer, because each reconnect comes from a port of its own.  Its
call waits in the executor's queue (`backlog`) for one of the `Workers` threads and keeps it
until the stream is over.  A robot may close its stream or vanish; a vanished
one is only found out by gRPC's keepalive (`PeerLost`), and until then its handler
waits for a request with the thread in hand.  `pc[s]` walks through the
statements of `infer` that touch state shared by the calls: append, length and
pop of the engine's ring; key and feature of its text cache; the frame deque of
MoVLA.  `window` and `feature` are what the call gives the network.  A network
that raises ends the stream with INTERNAL (`Fail`).  `clash` and `overlapped`
are history.  The frames stand for images, a feature for the text it was made of.

### ActionPipeline

One inference is a chain of stages, from what came in (`asked`) to `cmd`.  The
routes are the deployed pairs of backend and adapter, local inference, and the
two bridges.  On the local route `OnGoal` is `set_goal` of an adapter that may hold a former
goal (`held`), which it keeps if the new one does not convert, and `ActionTickLocal`
infers on what it holds.  The networks are external: they output any chunk of at most
`MaxLen` steps of `Steps`.  Integers stand for floats: hundredths
of the chunk's own unit, quarter turns, mm/s and mrad/s.  Every division is done once and
rounds towards zero, so that a length is off by less than one of its units;
`Rounds` says so in the properties, and says "equal" where the division comes out
even.  `PD` puts `dy/dx` for
its arc tangent; the theorem about the limits does not depend on it, because it
is the clipped law that goes into the limiter.  The rows of the masks are
written out as the source writes them, by position, not by the meaning they
ought to have.

## 3. Runs

| Run | Bounds | Shows |
|---|---|---|
| `VLAClient_live` | 1 permit, queue 2, 3 observations, 2 streams, fair | `InflightBound`, `QueueCoalesced`, `ReplyInOrder`, refinement of `ObservationChannel`; `StopTerminates`; `AcceptedAnswered` until a stream fails |
| `VLAClient_recovers` | violated, fair | `WaitingIsTaken` |
| `EdgeNode_goals` | 4 observations, 2 goals, 2 images, all faults, fair | `CachedGoalCurrent`, `LatePathAtMostOnce`, `PendingKeepsImage`, `GoalServed` |
| `EdgeNode_raw` | violated | `RawIsChecked` |
| `EdgeLifecycle_launch` | both modes, with and without device, 2 faults in 2 attempts, 2 capture threads; in cloud mode without device and faults 2 configurations and 2 goals, else 1; fair | `OneCaptureLoop`, `TickCrashStraddles`, `StaleOnlyFromFormer`, `LaunchActivates`, `ShutdownQuiets` |
| `PathFollower_hold` | 2 moving commands, hold of 3 time units | `LatestHonoured`, `MismatchStops` |
| `PathFollower_silence` | violated, fair | `SilenceStops` |
| `EdgeActionBridge_stream` | 5 chunks, fair | `OneEmptyPath`, `ChunkPublished`, `ArmedWatchdogFires` |
| `EdgeActionBridge_watchdog` | violated, fair | `WatchdogFires` |
| `ChunkSender_links` | both apps, 3 chunks, 3 senders, 3 links, fair | `OneLateChunk`, `OldLinkEnded`, `SenderInOrder`, `WaitingIsHeard` |
| `VlaServer` | 2 threads, context 1 (ring of 2), 3 streams, 3 observations, 2 texts, every backend, fair | `RingBounded`, `OwnUnlessOverlap`, `WindowInOrder`, `ObservationAnswered` |
| `ActionPipeline` | 4 poses, 3 headings, text, image (readable or not), 18 steps, chunks of 2 | `AttendsGoal`, `PoseOnBearing`, `PathInMetres`, `CommandLimited`, `ArcKept` |

Why the bounds are enough.  A leftover generator and a fresh one are the least
that can share a semaphore; a queue of two has room for an observation and a
sentinel, and can be full.  Two goals and four observations let each goal have
an observation before, during and after the switch, with images beyond the
capacity of two.  Two capture threads are the least that can share a device; two
faults in two attempts are a retry, and the least that uses up the attempts of a transition; a configuration, cleanup and the callbacks
in between meet every attribute at every step of `CleanupOrder`, and a second
configuration is the least that a reply can survive into (the theorem on
`StaleOnlyFromFormer` has no such bound).  Two moving commands
tell "the latest command" from "a held one".  Five chunks let the bridge go
through two silences with chunks in every step of the timer.  Three senders are
one connect, and a reconnect or a disconnect; three links let a stream of each and a
reopened one exist together.  Two threads and
three streams let two calls overlap with a third waiting for a thread, both
threads held by vanished robots, and the ring of two overflows with the third
frame.  The poses lie within and beyond `Reach`, in three quadrants and at the
robot; the steps turn, reverse and stand still; two poses and a step do not come out even in
the other unit, and commands pass every branch of the limiter.

Deadlock is not an error where the system may stop: a stopped client, an edge
model or a server whose bounded supply of observations is used up, a process
that ended, an inference that is over, a user of the apps who connects no more.  The bridge and the follower runs check it.

### Fairness

* `VLAClient`: each thread keeps running (its waits have timeouts) and a server
  that is up answers.  No fairness on starting, stopping, sending, or on
  failures.
* `EdgeNode`: timers fire and callbacks return; the camera delivers; the client
  hands over replies.  `GoalServed` excuses a goal whose inputs aged, whose last
  observation was lost or whose adapter failed; that the client loses nothing is
  what `AcceptedAnswered` shows of it while its stream lives.
* `EdgeLifecycle`: transitions return, the launch retries, timers fire and
  callbacks return, time passes and replies under way are handled.  Goals have
  strong fairness, because their group is shared with the send and status
  timers, whose callbacks are short beside their periods of 0.5 s and more.
  The operator need not act.
* `PathFollower`, `EdgeActionBridge`: the timer fires and time passes; no path
  and no chunk has to come.
* `ChunkSender`: timers fire and the Pi reads what reaches it; no link has to come
  up or stay.
* `VlaServer`: the threads go on and keepalive finds vanished peers out.  The
  server sets no keepalive option, so that takes gRPC's default of two hours:
  `ObservationAnswered` says that an exhausted pool recovers, not that it does so
  soon.

## 4. What the violated runs show

1. **A reconnect may silence the client** (`VLAClient_recovers`).  The generator of a failed stream polls the new
   stream's semaphore, takes its only permit, takes an observation, and is
   dropped by grpc at its yield.  No reply will return the permit.
2. **A goal can end the process** (`EdgeNode_raw`).  `status()` says OK, the goal
   callback invalidates, `get_latest_raw()` returns `None`, and
   `emb.obs_image_rgb` raises outside the `try`.
3. **The follower has no watchdog** (`PathFollower_silence`): if its upstream
   dies, for instance by 2, the last path is followed for ever.
4. **The bridge's watchdog can be lost** (`EdgeActionBridge_watchdog`): a chunk
   accepted between the publication of the empty path and `_stopped = True`.

More were met while modelling and are stated by a theorem, a weaker property or
the model rather than by a run of their own.

* A reconfigured node may follow the old goal: `on_configure` builds a cache
  without a floor (`edge_node.py:213`) while goal and frame counter stay, and
  `client.stop()` waits 2 s for its thread and then forgets it, so a reply to an
  observation for the old goal is cached with status OK.  The floor "is sticky"
  (`embedding_cache.py:42-45`) only within one configuration:
  `StaleOnlyFromFormer` says that this is the only way an old goal returns, but for
  an `_on_goal` that `on_cleanup` overtakes.
* A sender of the phone app that was replaced may still reach the Pi in two ways,
  although `home_page.dart:174` says that the old connection is closed.  Its stream
  was still connecting: `close()` ends it, but `await requests?.close()`
  (`edge_action_client.dart:177`) does not return without a connection, so that the
  channel is not shut down, and once the stream comes up it delivers all that it was
  given.  Or its drain was in the delay: `send()` connects a client that was closed
  (`edge_action_client.dart:232`).  `OldLinkEnded` says that these are the only ways, one
  link each, and that the second carries one chunk.  And a link that comes up gets a
  burst: what `send()` puts into the `StreamController` before gRPC listens
  (`edge_action_client.dart:156`) is for the sender a chunk that was sent, so that
  "only the latest" (`edge_action_client.dart:4`) holds of what was not sent yet.
* An image goal is not followed in local mode: `imgmsg_to_cv2` raises on the
  `CompressedImage` of the goal, so that `set_goal` is skipped (`edge_node.py:459-462`,
  `471-473`) and the adapter goes on to the goal it had, although
  `omnivla_edge_local.py:15-16` promises image goals.  `Followed` takes this case
  out of `AttendsGoal`, which would be violated there.
* The docstring at `edge_node.py:581-584` says that a brief gap of empty paths
  coasts: by `TicksHonourLatest` no hold ever outlives a new path, so it stops at
  once.
* "Serialise calls per engine (both callers tick from a single thread / gRPC
  stream)" (`omnivla_edge_engine.py:159-160`) is not what the server does, which
  runs a call per stream on four threads; `OwnUnlessOverlap` therefore has the
  condition that the docstring takes for granted, and `RingBounded` and
  `WindowInOrder` say what holds without it.
* `reset()` "after warmup or a goal switch" (`omnivla_edge_engine.py:234`) has no
  caller, so that the model has no such step: frames of the stream before stay in
  the ring.

## 5. Proofs

Each theorem holds for every value of the constants, under the module's named
assumption (`ClientAssumption`, `EdgeAssumption`, `LifecycleAssumption`,
`FollowerAssumption`, `BridgeAssumption`, `ServerAssumption`, `SenderAssumption`, `PipelineAssumption`, `GoalAssumption`).  These give the
constants' types and keep special values apart; two say a little more.  `ServerAssumption` has no
more threads than frames in a ring, `Workers <= Ctx + 1`, as with the four
workers of `server.py:142` and the contexts of five and three frames.
`PipelineAssumption` gives every pose its distance in whole metres.

* **`TypeCorrect`, `InflightBounded`** (`VLAClientProofs`).  `InflightBound` is not
  inductive: a leftover generator may take a permit of the new stream, and after
  `stop()` may give one back that it never took from it.  `PermitInv` adds that a
  sentinel in the queue means that `stop()` was called, that streams to come are
  untouched, and a budget: while the client is not stopping the free permits,
  the one its generator holds and the unanswered observations never exceed
  `max_inflight`; while it stops the permits no longer count, but then no
  generator passes its inner check any more.
* **`NeverAccumulates`**.  Only `send()` puts observations.  `CoalesceInv` says that
  between its drain and its put the queue holds nothing but the sentinel, so
  that `QueueCoalesced` survives a `stop()` in between.
* **`RepliesInOrder`**.  An observation passes seven stations: frame at the sender, queue,
  item in a generator's hand, request, reply on the wire, reply in hand, answered.  `OrderInv`
  lines them up: what stands at a later station is older than all that stands at an earlier one.
  Only the oldest of a station moves on; leftover generators can take an
  observation out of the line, and never put one back.
* **`ClientIsChannel`**, that `VLAClient` implements `ObservationChannel`, follows step by
  step from the same invariant: the put of `send()` is `Accept`, the call of
  `on_embedding` is `Answer` (of the oldest, hence the order), what a drain, a
  failed stream or a dropped generator takes away is `Lose`, and everything else
  stutters.  With it what is proved of `EdgeNode` holds over the client that is there.
* **`EdgeTypeCorrect`, `CacheFollowsGoal`** (`EdgeNodeProofs`).  `GoalInv` says that
  nothing is answered or cached that was not sent, that outside `_on_goal` every
  observation above the floor carried the goal in force, and that the cached
  embedding is above the floor.
* **`OneLatePath`** strengthens it by what the tick in flight has seen once a late
  path was published: at whichever stage it is, what it read is fit.
* **`ImagesAreKept`**.  Everything in `_sent_frames` was sent, and an eviction takes
  the oldest of more than `SentMax`, so an image that is gone has `SentMax`
  successors (`ImageInv`).
* **`LifecycleTypeCorrect`, `CaptureLoopsOutliveJoins`, `CrashesStraddle`**
  (`EdgeLifecycleProofs`).  `LifeInv` says that the node remembers a capture thread only
  while it is up, and that a loop it does not remember means that a join gave up.
  For the crashes it says of each step of a callback which attributes it has
  found (`TickLooked`, `IoLooked`) and that these are still there, unless
  `on_cleanup` has begun meanwhile; while attributes are built or cleared no
  callback of a timer starts.  An attempt to configure that raises makes a cache without
  a new client, which is harmless because nothing was sent yet (`Between`).
* **`OldGoalsFromFormerClients`** (`EdgeLifecycleProofs`).  `Matched` says that, outside
  `_on_goal` and unless one was overtaken (`cut`), every observation given to the
  client there is now was for the goal there is now or is at or below the floor,
  and `CacheOrder` that the cache holds something above its floor.  A new cache
  has no floor, but no observation is of the new client yet; the end of `_on_goal`
  puts the floor at the counter, above all of them.
* **`FollowerTypeCorrect`, `TicksHonourLatest`, `MismatchesStop`**
  (`PathFollowerProofs`).  A held command that no new path may drop is the latest
  path's own command.
* **`BridgeTypeCorrect`, `SilenceIsAnsweredOnce`** (`EdgeActionBridgeProofs`).  After
  an empty path either the stop is noted or about to be, or a chunk waits in the
  slot or the snapshot, which then does not let the watchdog fire.
* **`ServerTypeCorrect`, `RingIsBounded`** (`VlaServerProofs`).  That `pop(0)` never
  meets an empty ring takes a count (`RingInv`): beside the frames that calls are
  about to pop one remains for every call that has pushed, the pool bounds how
  many calls there are, and the ring is over its size only by those between
  append and pop.
* **`SerialCallsInferOnTheirOwn`**.  `OwnInv` adds three facts: a call outside
  `clash` is alone in the engine, the newest frame of the ring is then its own,
  and as long as no calls overlapped the cached feature is that of the key
  except between the two writes of one call.
* **`WindowsAreInOrder`**.  A stream has one call at a time, which appends its frame to
  the end of the ring, and the pops of others only take from the front.  `AgeInv`
  says that the ring holds the frames of each stream in order and that what a
  call has yet to push is no older than what its stream has pushed.
* **`SenderTypesHold`, `FormerSenderSendsOnce`** (`ChunkSenderProofs`).  `OneLateChunk`
  counts what a replaced sender gave its client.  `Replaced` says why the count
  stops at one: a sender has begun to close exactly when it is not the current
  one, so that nothing is submitted to it, and while its drain is still in the
  delay it has given nothing late.
* **`FormerLinkIsEnded`** needs what `Linked` says of the references: a link that is
  not ended is the one its sender writes to, hence the one `close()` ends; only a
  web sender that is current waits to reconnect; and only the drain of a caught
  phone sender finds no link and opens one.  `Kept` adds that no two links of a sender
  that are ended are connecting or open at once, and that a former sender which writes
  to a link has given it its one late chunk.
* **`ChunksArriveInOrder`**.  `SenderInOrder` is lost if a sender writes to two
  links that are read in turns, so that `Linked` also says that a sender that was
  not caught has at most one link that is connecting or open.  `InOrder` adds that the chunk that waits is
  newer than all that is on the link or was read.  The theorem rests on the assumption on
  the transport that `LinkDown` states.
* **`ComputeWithinLimits`, `CommandsWithinLimits`, `CommandsKeepArc`**
  (`ActionPipelineProofs`).  The first is a fact about `Compute`, by cases of the
  limiter, for any path; for the other two `PathTypes` carries along the chain
  what a path is made of, and that `cmd` is computed from it.  The arc is a matter of remainders
  (`LimitKeepsArc`): the component that is scaled loses less than the divisor.
* **`PathsAreInMetres`**.  The code accumulates in loops, the property adds up with
  `FoldFunctionOnSet`, whose order is unspecified.  `Placed` says that a published
  path is, up to rounding, the accumulated chunk in metres; `SumIs` that the sum
  over a set is the last of the running sums; `SummedIs` and `ComposedIs` that
  these are what `Cumsum` and `DeltaToPose` yield.  That the recursive functions
  exist (`IterateExists`) and are the only ones is shown with induction over a set
  (`Upwards`), which follows from the well-foundedness of `<` on the naturals: the
  library's own induction theorems, over a predicate, are out of the provers' reach.
* **`PosesKeepBearing`**.  Of the two encodings of a pose, the engine's and that of the
  OpenVLA backends, `BothOnBearing` says that they agree with the goal; `GoalInv` (below)
  that the pose gets that far unchanged, its heading included or dropped as the route does.
* **`OperatorsGoalIsAttended`**, for every goal the route follows (`Followed`: no image on the
  local one) and whatever goal a local adapter held before.  `GoalInv` gives the form the
  goal has at each stage;
  the choice of modality is a case analysis over the fields of the goal, and the
  lemma `Rows` reads the selected rows off the masks.

Every invariant and every action property of the passing runs is stated by a
theorem, and so is the refinement.  Only model-checked is liveness
(`StopTerminates`, `AcceptedAnswered`, `GoalServed`, `ChunkPublished`,
`ArmedWatchdogFires`, `LaunchActivates`, `ShutdownQuiets`, `ObservationAnswered`,
`WaitingIsHeard`): it rests on fairness, and the provers do not reason about
`ENABLED`.

## 6. Not modelled

* Neural inference, image processing, tokenizers, drawing, native capture code,
  the loading of weights, launch descriptions, containers: no control logic a
  state machine would add to.
* Code that nothing calls: `get_fresh`, `pure_pursuit.py`, `reset()` and `warmup()`
  of the engine.
* The contents of images: an undecodable camera image becomes a placeholder of
  one pixel (`server.py:40-52`), which the docstring expects a backend to refuse.
* The number formats of embeddings (fp16, bytes): integers stand for them.
* Of the phone and web apps the camera, the inference loop and the model store:
  `ChunkSender` submits chunks at any time.  It is not composed with
  `EdgeActionBridge`, which admits any order of chunks.
* The logger app, which never talks to the robot.
* Message packages: generated code and conversions without state.

## 7. Plan

Done: `VLAClient` with `ObservationChannel`; `EdgeNode` with `EmbeddingCache`;
`PathFollower`; `EdgeActionBridge`; `EdgeLifecycle` with the local mode;
`VlaServer`; `ActionPipeline` with `WaypointPD`; `ChunkSender`.

Left, in this order:

1. `ChunkSender` as an implementation of a one-place mailbox per sender.
2. `PhoneLoop`: the inference loop and the camera of the phone app under goal
   switches and the app's lifecycle; a history of one goal, no camera in the
   background.
3. `Recorder`: sessions of the logger app; at most one writer, nothing after
   `finish`.
