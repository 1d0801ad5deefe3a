------------------------------- MODULE EdgeNode -------------------------------
(***************************************************************************)
(* raspicat_vla_edge/edge_node.py, cloud mode, while the node is active:    *)
(* what the executor's threads and the gRPC client's reply thread do to the *)
(* goal, the embedding cache, the camera image and the published path.      *)
(*                                                                          *)
(*   io     _io_group, mutually exclusive: _on_goal, _send_observation_tick *)
(*   tick   _heavy_group: _action_tick, beside the io group                 *)
(*   rx     the client's thread: _on_embedding_received                     *)
(*   camera the image callback, or the capture thread of camera_device      *)
(*                                                                          *)
(* The client is what ObservationChannel says of it, which VLAClient        *)
(* implements; there it is called Client.                                   *)
(***************************************************************************)
EXTENDS EmbeddingCache, FiniteSets

CONSTANTS
    MaxFrames,  \* bound: observations sent
    MaxGoals,   \* bound: goals received
    SentMax     \* self._sent_frames_max

ASSUME EdgeAssumption ==
    /\ MaxFrames \in Nat
    /\ MaxGoals \in Nat
    /\ SentMax \in Nat \ {0}

Frames == 1..MaxFrames
Goals == 1..MaxGoals           \* in order of arrival; 0 is "no goal yet"

VARIABLES
    goal,      \* self._latest_goal
    counter,   \* self._frame_counter
    goalOf,    \* the goal sent with each observation
    camera,    \* the latest image: "none", "fresh" or "stale"
    cache,     \* self._cache
    sent,      \* keys of self._sent_frames, oldest insertion first = ascending
    io,        \* the io group: "idle", "goalSet", "sending" or "sent"
    rx,        \* the reply thread: "idle" or "popped"
    rxPaired,  \* the image it popped for the reply is there
    tick,      \* the action tick
    emb,       \* the embedding the action tick read (frame id, 0 = None)
    path,      \* what the last published path came from, 0 = an empty path
    late,      \* moving paths published since an input was last lost
    calm,      \* history: nothing was lost, became too old or failed so far
    newest, pending, answered   \* the client, see ObservationChannel

Client == INSTANCE ObservationChannel

clientVars == <<newest, pending, answered>>
sendVars == <<counter, goalOf, sent>>
tickVars == <<tick, emb, path>>
vars == <<goal, camera, cache, sendVars, io, rx, rxPaired, tickVars, late, calm,
          clientVars>>

TypeOK ==
    /\ goal \in 0..MaxGoals
    /\ counter \in 0..MaxFrames
    /\ goalOf \in [Frames -> 0..MaxGoals]
    /\ camera \in {"none", "fresh", "stale"}
    /\ cache \in Caches(Frames)
    /\ sent \in SUBSET Frames
    /\ io \in {"idle", "goalSet", "sending", "sent"}
    /\ rx \in {"idle", "popped"}
    /\ rxPaired \in BOOLEAN
    /\ tick \in {"idle", "checked", "raw", "predict", "crashed"}
    /\ emb \in 0..MaxFrames
    /\ path \in 0..MaxFrames
    /\ late \in Nat
    /\ calm \in BOOLEAN
    /\ newest \in 0..MaxFrames
    /\ pending \in SUBSET Frames
    /\ answered \in 0..MaxFrames
    /\ io \in {"sending", "sent"} => counter \in Frames

Init ==
    /\ goal = 0
    /\ counter = 0
    /\ goalOf = [f \in Frames |-> 0]
    /\ camera = "none"
    /\ cache = EmptyCache
    /\ sent = {}
    /\ io = "idle"
    /\ rx = "idle"
    /\ rxPaired = FALSE
    /\ tick = "idle"
    /\ emb = 0
    /\ path = 0
    /\ late = 0
    /\ calm = TRUE
    /\ Client!Init

-----------------------------------------------------------------------------
(* Camera.  The capture thread of camera_device is in no callback group, so *)
(* nothing else delays an image.                                            *)

OnImage ==
    /\ camera # "fresh"
    /\ camera' = "fresh"
    /\ UNCHANGED <<goal, cache, sendVars, io, rx, rxPaired, tickVars, late,
                   calm, clientVars>>

\* image_max_age_sec passes without a new frame.
ImageAges ==
    /\ camera = "fresh"
    /\ camera' = "stale"
    /\ late' = 0
    /\ calm' = FALSE
    /\ UNCHANGED <<goal, cache, sendVars, io, rx, rxPaired, tickVars, clientVars>>

-----------------------------------------------------------------------------
(* _on_goal: the new goal is visible before the cache is invalidated.       *)

\* A goal is worth modelling while an observation can still carry it.
OnGoal ==
    /\ io = "idle"
    /\ goal < MaxGoals
    /\ counter < MaxFrames
    /\ goal' = goal + 1
    /\ io' = "goalSet"
    /\ UNCHANGED <<camera, cache, sendVars, rx, rxPaired, tickVars, late,
                   calm, clientVars>>

\* Mutation: the floor is one too low.
OnGoalInvalidateLow ==
    /\ io = "goalSet"
    /\ cache' = Invalidate(counter - 1)
    /\ io' = "idle"
    /\ late' = 0
    /\ UNCHANGED <<goal, camera, sendVars, rx, rxPaired, tickVars, calm, clientVars>>

OnGoalInvalidate ==
    /\ io = "goalSet"
    /\ cache' = Invalidate(counter)
    /\ io' = "idle"
    /\ late' = 0
    /\ UNCHANGED <<goal, camera, sendVars, rx, rxPaired, tickVars, calm, clientVars>>

-----------------------------------------------------------------------------
(* _send_observation_tick: count, hand over, remember the image.            *)

SendTick ==
    /\ io = "idle"
    /\ camera = "fresh"
    /\ goal # 0
    /\ counter < MaxFrames
    /\ counter' = counter + 1
    /\ goalOf' = [goalOf EXCEPT ![counter + 1] = goal]
    /\ io' = "sending"
    /\ UNCHANGED <<goal, camera, cache, sent, rx, rxPaired, tickVars, late,
                   calm, clientVars>>

\* client.send(obs): accepted, or refused because the client stops or is full.
SendHand ==
    /\ io = "sending"
    /\ \/ /\ newest' = counter
          /\ Client!Accept
          /\ io' = "sent"
          /\ UNCHANGED calm
       \/ /\ io' = "idle"
          /\ calm' = FALSE
          /\ UNCHANGED clientVars
    /\ UNCHANGED <<goal, camera, cache, sendVars, rx, rxPaired, tickVars, late>>

Oldest(S) == {f \in S : \A g \in S : f <= g}

\* The image is recorded once send() has returned, and the oldest evicted.
SendRecord ==
    /\ io = "sent"
    /\ LET s == sent \cup {counter}
       IN  sent' = IF Cardinality(s) > SentMax THEN s \ Oldest(s) ELSE s
    /\ io' = "idle"
    /\ UNCHANGED <<goal, camera, cache, counter, goalOf, rx, rxPaired, tickVars,
                   late, calm, clientVars>>

-----------------------------------------------------------------------------
(* _on_embedding_received, on the client's thread.                          *)

\* Mutation: a reply clears every frame that was sent.
OnEmbeddingPopAll ==
    /\ rx = "idle"
    /\ Client!Answer
    /\ rxPaired' = (answered' \in sent)
    /\ sent' = {}
    /\ rx' = "popped"
    /\ UNCHANGED <<goal, camera, cache, counter, goalOf, io, tickVars, late, calm>>

\* The reply's image and those of older observations leave _sent_frames.
OnEmbeddingPop ==
    /\ rx = "idle"
    /\ Client!Answer
    /\ rxPaired' = (answered' \in sent)
    /\ sent' = {f \in sent : f > answered'}
    /\ rx' = "popped"
    /\ UNCHANGED <<goal, camera, cache, counter, goalOf, io, tickVars, late, calm>>

OnEmbeddingPut ==
    /\ rx = "popped"
    /\ cache' = Put(cache, answered, rxPaired)
    /\ rx' = "idle"
    /\ UNCHANGED <<goal, camera, sendVars, io, rxPaired, tickVars, late,
                   calm, clientVars>>

\* Time passes for the cached embedding.
EmbeddingAges ==
    /\ cache.frame # 0
    /\ cache.age # Expired
    /\ cache' = [cache EXCEPT !.age = @ + 1]
    /\ late' = IF cache.age = Old THEN 0 ELSE late
    /\ calm' = FALSE
    /\ UNCHANGED <<goal, camera, sendVars, io, rx, rxPaired, tickVars, clientVars>>

-----------------------------------------------------------------------------
(* _action_tick: three separate looks at shared state, then the inference.  *)

StopPath == path' = 0 /\ tick' = "idle" /\ emb' = 0

\* status()
ActionTick ==
    /\ tick = "idle"
    /\ \/ /\ Status(cache) \in {"WAITING_REMOTE", "STALE"}
          /\ StopPath
       \/ /\ Status(cache) \in {"OK", "DEGRADED"}
          /\ tick' = "checked"
          /\ UNCHANGED <<emb, path>>
    /\ UNCHANGED <<goal, camera, cache, sendVars, io, rx, rxPaired, late,
                   calm, clientVars>>

\* get_latest_raw()
ActionGetRaw ==
    /\ tick = "checked"
    /\ emb' = cache.frame
    /\ tick' = "raw"
    /\ UNCHANGED <<goal, camera, cache, sendVars, io, rx, rxPaired, path, late,
                   calm, clientVars>>

\* Mutation: a stale camera frame is used.
ActionImageStale ==
    /\ tick = "raw"
    /\ tick' = IF emb = 0 THEN "crashed" ELSE "predict"
    /\ UNCHANGED <<goal, camera, cache, sendVars, io, rx, rxPaired, emb, path, late,
                   calm, clientVars>>

\* _fresh_image(), then emb.obs_image_rgb: with emb None the AttributeError
\* leaves the callback, executor.spin() and main().
ActionImage ==
    /\ tick = "raw"
    /\ \/ /\ camera # "fresh"
          /\ StopPath
       \/ /\ camera = "fresh"
          /\ tick' = IF emb = 0 THEN "crashed" ELSE "predict"
          /\ UNCHANGED <<emb, path>>
    /\ UNCHANGED <<goal, camera, cache, sendVars, io, rx, rxPaired, late,
                   calm, clientVars>>

\* The embedding in use is of another goal than the one in force, or an input
\* the tick looked at is gone.  While _on_goal runs, the old goal is in force.
Unfit ==
    /\ io # "goalSet"
    /\ \/ goalOf[emb] # goal
       \/ camera # "fresh"
       \/ cache.frame # 0 /\ cache.age = Expired

\* predict_path() returns and its path, or an empty one, is published.
ActionPublish ==
    /\ tick = "predict"
    /\ \/ /\ path' = emb
          /\ late' = IF Unfit THEN late + 1 ELSE late
          /\ tick' = "idle"
          /\ emb' = 0
          /\ UNCHANGED calm
       \/ /\ StopPath         \* the adapter raises, or returns an empty path
          /\ calm' = FALSE
          /\ UNCHANGED late
    /\ UNCHANGED <<goal, camera, cache, sendVars, io, rx, rxPaired, clientVars>>

-----------------------------------------------------------------------------
(* External: the client loses observations; those that a newer one has      *)
(* superseded also when all is calm (VLAClient's AcceptedAnswered).         *)

ClientLose ==
    /\ Client!Lose
    /\ calm' = (calm /\ (newest \in pending => newest \in pending'))
    /\ UNCHANGED <<goal, camera, cache, sendVars, io, rx, rxPaired, tickVars, late>>

-----------------------------------------------------------------------------
\* An exception that leaves a callback ends the process, and all of this.
Alive == tick # "crashed"

Camera == Alive /\ (OnImage \/ ImageAges)
IoGoal == Alive /\ (OnGoal \/ OnGoalInvalidate)
IoSend == Alive /\ (SendTick \/ SendHand \/ SendRecord)
Replies == Alive /\ (OnEmbeddingPop \/ OnEmbeddingPut)
HeavyGroup == ActionTick \/ ActionGetRaw \/ ActionImage \/ ActionPublish

Next ==
    \/ Camera
    \/ IoGoal
    \/ IoSend
    \/ Replies
    \/ Alive /\ EmbeddingAges
    \/ HeavyGroup
    \/ Alive /\ ClientLose

Spec == Init /\ [][Next]_vars

\* Timers fire and callbacks return; the camera delivers; the server answers.
Fairness ==
    /\ WF_vars(Alive /\ OnImage)
    /\ WF_vars(Alive /\ OnGoalInvalidate)
    /\ WF_vars(IoSend)
    /\ WF_vars(Replies)
    /\ WF_vars(HeavyGroup)

FairSpec == Spec /\ Fairness

-----------------------------------------------------------------------------
(* Properties.                                                              *)

\* "Embeddings derived from in-flight observations of the OLD goal don't land
\* in the cache" (embedding_cache.py:44): once _on_goal is over the cached
\* embedding answers an observation that carried the goal in force, whatever
\* was sent, in flight or half received when the goal changed.
CachedGoalCurrent ==
    (io # "goalSet" /\ cache.frame # 0) => goalOf[cache.frame] = goal

\* After an input is lost (the goal replaced, the embedding expired, the camera
\* stale) at most one more moving path is published: that of the tick the
\* loss caught in flight.
LatePathAtMostOnce == late <= 1

\* _sent_frames keeps the image of every observation the client may still
\* answer, as long as fewer than SentMax later ones were sent.
PendingKeepsImage ==
    \A f \in pending :
        \/ f \in sent
        \/ f = counter /\ io = "sent"
        \/ Cardinality({g \in Frames : f < g /\ g <= counter}) >= SentMax

\* "get_latest_raw()  # OK or DEGRADED" (edge_node.py:610): the embedding the
\* tick is about to use is the one whose status it has checked, never None.
RawIsChecked == tick = "raw" => emb # 0

\* A goal is followed in the end: a moving path computed for it, or for a newer
\* one, is published, unless an input becomes too old, the last observation is
\* lost or the adapter fails; the crash RawIsChecked is about is the other way out.
GoalServed ==
    \A g \in Goals :
        (goal = g) ~> (~calm \/ tick = "crashed" \/ (path # 0 /\ goalOf[path] >= g))

=============================================================================
