---------------------------- MODULE EdgeLifecycle ----------------------------
(***************************************************************************)
(* raspicat_vla_edge/edge_node.py across its lifecycle: the transitions, in *)
(* the default callback group, against the callbacks of the io group, the   *)
(* heavy group, the client's threads and the capture threads, all of which  *)
(* read the attributes the transitions set and clear.  With them the launch *)
(* file's retries (launch_util.py).                                         *)
(*                                                                          *)
(* While the node is active EdgeNode says more of its images and its cache; *)
(* here images are always there, and a path is the goal it was computed for.*)
(***************************************************************************)
EXTENDS EmbeddingCache, FiniteSets

CONSTANTS
    Kinds,           \* values of parameter adapter_kind, see kind
    Devices,         \* camera_device set or not
    MaxFrames,       \* bound: observations sent
    MaxGoals,        \* bound: goals published
    MaxConfigures,   \* bound: runs of on_configure, but for retries
    MaxLoops,        \* bound: capture threads alive at once
    Faults,          \* bound: transitions that fail while the launch retries
    Attempts,        \* launch_util: attempts
    LongKinds, LongDevices, LongFaults   \* bound: see LongRun

ASSUME LifecycleAssumption ==
    /\ Kinds \subseteq {"cloud", "local"} /\ Devices \subseteq BOOLEAN
    /\ LongKinds \subseteq Kinds /\ LongDevices \subseteq Devices
    /\ {MaxFrames, MaxGoals, MaxConfigures, MaxLoops, Faults, LongFaults} \subseteq Nat
    /\ Attempts \in Nat \ {0}

Frames == 1..MaxFrames
Loops == 1..MaxLoops
MaxEpochs == MaxConfigures + Faults

\* The attributes callbacks look at, in the order on_cleanup clears them.
CleanupOrder == <<"cap", "client", "cache", "adapter", "local", "goal_sub",
                  "path_pub", "status_pub">>
Attributes == {CleanupOrder[i] : i \in 1..8}

VARIABLES
    kind,       \* parameter adapter_kind: "cloud", or "local" for is_local
    device,     \* parameter camera_device is set
    node,       \* lifecycle state, or the transition under way
    has,        \* attributes that are not None (local: _local_mode)
    timers,     \* the timers exist
    loops,      \* capture threads alive
    thread,     \* self._camera_thread, 0 = None
    stopSet,    \* self._camera_stop
    forgot,     \* history: a capture thread outlived its join
    client,     \* the last client built: "none", "new", "on" or "stopped"
    epoch,      \* how many were built
    cache,      \* the last cache built
    counter,    \* self._frame_counter
    goalOf,     \* the goal sent with each observation
    owner,      \* the client each was given to
    flying,     \* observations that may still be answered
    rx,         \* replies being handled: past the first look at the cache
    goal,       \* self._latest_goal
    adapterGoal,\* the goal of a local adapter
    cut,        \* history: an _on_goal met no cache
    io,         \* the io group
    tick,       \* the action tick
    plan,       \* the goal of the path it computes, 0 = empty path
    path,       \* the last published path
    straddle,   \* history: a callback was running when on_cleanup began
    crash,      \* the callback an exception left, ending the process
    asked,      \* the last goal published
    inbox,      \* the goal reader's queue, depth 1
    launch,     \* launch_util: "configure", "activate" or "done"
    tries, faults

nodeVars == <<node, has, timers, client, epoch>>
camVars == <<loops, thread, stopSet, forgot>>
obsVars == <<counter, goalOf, owner, flying>>
goalVars == <<goal, adapterGoal, cut>>
tickVars == <<tick, plan, path>>
launchVars == <<launch, tries, faults>>
paramVars == <<kind, device>>
vars == <<paramVars, nodeVars, camVars, cache, obsVars, rx, goalVars, io, tickVars,
          straddle, crash, asked, inbox, launchVars>>

\* Bound: which runs have a second goal, or are configured again.
LongRun == kind \in LongKinds /\ device \in LongDevices /\ faults <= LongFaults

Transitions == {"configuring", "deactivating", "stopping", "cleaning"}

TypeOK ==
    /\ kind \in Kinds /\ device \in Devices
    /\ node \in {"unconfigured", "inactive", "active", "finalized"} \cup Transitions
    /\ has \subseteq Attributes
    /\ timers \in BOOLEAN
    /\ loops \subseteq Loops /\ thread \in {0} \cup Loops
    /\ stopSet \in BOOLEAN /\ forgot \in BOOLEAN
    /\ client \in {"none", "new", "on", "stopped"} /\ epoch \in 0..MaxEpochs
    /\ cache \in Caches(Frames)
    /\ counter \in 0..MaxFrames
    /\ goalOf \in [Frames -> 0..MaxGoals] /\ owner \in [Frames -> 0..MaxEpochs]
    /\ flying \subseteq Frames /\ rx \subseteq Frames
    /\ goal \in 0..MaxGoals /\ adapterGoal \in 0..MaxGoals /\ cut \in BOOLEAN
    /\ io \in {"idle", "send", "status", "statusCache", "statusPub",
               "goal", "goalAdapter", "goalCache", "goalFloor"}
    /\ tick \in {"idle", "check", "local", "cache", "status", "raw", "predict",
                "publish"}
    /\ plan \in 0..MaxGoals /\ path \in 0..MaxGoals
    /\ straddle \in BOOLEAN
    /\ crash \in {"no", "action", "raw", "send", "status", "goal"}
    /\ asked \in 0..MaxGoals
    /\ inbox \in 0..MaxGoals
    /\ launch \in {"configure", "activate", "done"}
    /\ tries \in 0..Attempts /\ faults \in 0..Faults
    \* What the transitions keep between the attributes:
    /\ node \in {"inactive", "active", "deactivating"} => "adapter" \in has
    /\ timers => node \in {"active", "deactivating", "finalized"}
    /\ thread # 0 => "cap" \in has

Init ==
    /\ kind \in Kinds /\ device \in Devices
    /\ node = "unconfigured" /\ has = {} /\ timers = FALSE
    /\ loops = {} /\ thread = 0 /\ stopSet = FALSE /\ forgot = FALSE
    /\ client = "none" /\ epoch = 0 /\ cache = EmptyCache
    /\ counter = 0 /\ flying = {} /\ rx = {}
    /\ goalOf = [f \in Frames |-> 0] /\ owner = [f \in Frames |-> 0]
    /\ goal = 0 /\ adapterGoal = 0 /\ cut = FALSE
    /\ io = "idle" /\ tick = "idle" /\ plan = 0 /\ path = 0
    /\ straddle = FALSE /\ crash = "no"
    /\ asked = 0 /\ inbox = 0
    /\ launch = "configure" /\ tries = 0 /\ faults = 0

-----------------------------------------------------------------------------
(* Transitions.  The launch drives the first configure and activate.        *)

\* on_configure: a cache without a floor, the adapter, and for a cloud adapter
\* a client that is not started; _latest_goal and _frame_counter stay.
ConfigureBuild ==
    /\ node = "unconfigured" /\ epoch < MaxEpochs
    /\ \/ launch = "configure"
       \/ launch = "done" /\ epoch < MaxConfigures /\ (epoch = 0 \/ LongRun)
    /\ epoch' = epoch + 1
    /\ cache' = EmptyCache
    /\ adapterGoal' = 0
    /\ client' = IF kind = "cloud" THEN "new" ELSE "none"
    /\ has' = has \cup {"cache", "adapter", IF kind = "cloud" THEN "client" ELSE "local"}
    /\ node' = "configuring"
    /\ UNCHANGED <<paramVars, timers, camVars, obsVars, rx, goal, cut, io,
                   tickVars, straddle, crash, asked, inbox, launchVars>>

\* The rest of on_configure.  The goal reader is TRANSIENT_LOCAL like the
\* writer: if that still lives, its last goal is delivered again.
ConfigureFinish ==
    /\ node = "configuring"
    /\ node' = "inactive"
    /\ has' = has \cup {"goal_sub", "path_pub", "status_pub"}
              \cup (IF device THEN {"cap"} ELSE {})
    /\ inbox' \in {0, asked}
    /\ launch' = IF launch = "configure" THEN "activate" ELSE launch
    /\ tries' = 0
    /\ UNCHANGED <<paramVars, timers, client, epoch, camVars, cache, obsVars, rx, goalVars,
                   io, tickVars, straddle, crash, asked, faults>>

\* Mutation: one attempt only.
FailedAttemptLast ==
    /\ tries' = 0
    /\ launch' = IF launch = "configure" THEN "activate" ELSE "done"

\* launch_util: a failed `ros2 lifecycle set` is tried again; when the
\* attempts are used up the process exits, and either exit starts activate.
FailedAttempt ==
    IF tries + 1 < Attempts
    THEN tries' = tries + 1 /\ UNCHANGED launch
    ELSE tries' = 0 /\ launch' = IF launch = "configure" THEN "activate" ELSE "done"

\* _build_adapter raises: there is a new cache, and beside it what an earlier
\* attempt built.
ConfigureRaises ==
    /\ node = "unconfigured" /\ launch = "configure" /\ faults < Faults
    /\ has' = has \cup {"cache"}
    /\ cache' = EmptyCache
    /\ faults' = faults + 1
    /\ FailedAttempt
    /\ UNCHANGED <<paramVars, node, timers, client, epoch, camVars, obsVars, rx, goalVars,
                   io, tickVars, straddle, crash, asked, inbox>>

\* The camera does not open: the node is unconfigured again, with the cache, the
\* adapter and the client that were built.
ConfigureFail ==
    /\ node = "configuring" /\ device /\ launch = "configure" /\ faults < Faults
    /\ node' = "unconfigured"
    /\ faults' = faults + 1
    /\ FailedAttempt
    /\ UNCHANGED <<paramVars, has, timers, client, epoch, camVars, cache, obsVars, rx,
                   goalVars, io, tickVars, straddle, crash, asked, inbox>>

\* The CLI does not find the node yet.
NotFound ==
    /\ launch # "done" /\ node \notin Transitions /\ faults < Faults
    /\ faults' = faults + 1
    /\ FailedAttempt
    /\ UNCHANGED <<paramVars, nodeVars, camVars, cache, obsVars, rx, goalVars, io,
                   tickVars, straddle, crash, asked, inbox>>

\* activate is refused by a node on which all attempts to configure failed.
ActivateRefused ==
    /\ launch = "activate" /\ node = "unconfigured"
    /\ FailedAttempt
    /\ UNCHANGED <<paramVars, nodeVars, camVars, cache, obsVars, rx, goalVars, io,
                   tickVars, straddle, crash, asked, inbox, faults>>

\* on_activate: the shared stop event is cleared for the new capture thread;
\* start() of a client that runs already does nothing.
Activate ==
    /\ node = "inactive"
    /\ \E l \in Loops :
        /\ l \notin loops /\ \A k \in 1..(l - 1) : k \in loops
        /\ IF "cap" \in has
           THEN stopSet' = FALSE /\ loops' = loops \cup {l} /\ thread' = l
           ELSE UNCHANGED <<stopSet, loops, thread>>
    /\ client' = IF "local" \in has THEN client ELSE "on"
    /\ timers' = TRUE
    /\ node' = "active"
    /\ launch' = "done"
    /\ tries' = 0
    /\ UNCHANGED <<paramVars, has, epoch, forgot, cache, obsVars, rx, goalVars, io,
                   tickVars, straddle, crash, asked, inbox, faults>>


\* Mutation: the capture thread is told to stop but not joined.
DeactivateUnjoined ==
    /\ node = "active" /\ launch = "done"
    /\ stopSet' = (stopSet \/ thread # 0)
    /\ thread' = 0
    /\ timers' = FALSE
    /\ node' = "inactive"
    /\ UNCHANGED <<paramVars, has, client, epoch, loops, forgot, cache, obsVars, rx,
                   goalVars, io, tickVars, straddle, crash, asked, inbox, launchVars>>

\* on_deactivate, up to the join.  The client goes on.
Deactivate ==
    /\ node = "active" /\ launch = "done"
    /\ stopSet' = (stopSet \/ thread # 0)
    /\ node' = "deactivating"
    /\ UNCHANGED <<paramVars, has, timers, client, epoch, loops, thread, forgot, cache,
                   obsVars, rx, goalVars, io, tickVars, straddle, crash, asked,
                   inbox, launchVars>>

\* Mutation: the timers are left.
DeactivateFinishTimers ==
    /\ node = "deactivating"
    /\ forgot' = (forgot \/ thread \in loops)
    /\ thread' = 0
    /\ node' = "inactive"
    /\ UNCHANGED <<paramVars, has, timers, client, epoch, loops, stopSet, cache, obsVars, rx,
                   goalVars, io, tickVars, straddle, crash, asked, inbox, launchVars>>

\* The join returns or times out (the thread is in a blocking read), the
\* thread is forgotten, the timers are destroyed; running callbacks go on.
DeactivateFinish ==
    /\ node = "deactivating"
    /\ forgot' = (forgot \/ thread \in loops)
    /\ thread' = 0
    /\ timers' = FALSE
    /\ node' = "inactive"
    /\ UNCHANGED <<paramVars, has, client, epoch, loops, stopSet, cache, obsVars, rx,
                   goalVars, io, tickVars, straddle, crash, asked, inbox, launchVars>>

\* on_cleanup first stops the client, which may take up to 2 s; ...
Cleanup ==
    /\ node = "inactive" /\ launch = "done"
    /\ node' = "stopping"
    /\ has' = has \ {"cap"}
    /\ client' = IF "client" \in has THEN "stopped" ELSE client
    /\ straddle' = (tick # "idle" \/ io # "idle")
    /\ UNCHANGED <<paramVars, timers, epoch, camVars, cache, obsVars, rx, goalVars, io,
                   tickVars, crash, asked, inbox, launchVars>>

\* ... then clears one attribute after the other.
Remaining(S) == {i \in DOMAIN CleanupOrder : CleanupOrder[i] \in S}

CleanupStep ==
    /\ node \in {"stopping", "cleaning"}
    /\ \E i \in Remaining(has) :
        /\ \A j \in Remaining(has) : i <= j
        /\ has' = has \ {CleanupOrder[i]}
        /\ inbox' = IF "goal_sub" \in has' THEN inbox ELSE 0
        /\ node' = IF has' = {} THEN "unconfigured" ELSE "cleaning"
    /\ UNCHANGED <<paramVars, timers, client, epoch, camVars, cache, obsVars, rx, goalVars,
                   io, tickVars, straddle, crash, asked, launchVars>>

\* on_shutdown stops the client and nothing else: timers and threads go on.
Shutdown ==
    /\ node \in {"unconfigured", "inactive", "active"} /\ launch = "done"
    /\ node' = "finalized"
    /\ client' = IF "client" \in has THEN "stopped" ELSE client
    /\ UNCHANGED <<paramVars, has, timers, epoch, camVars, cache, obsVars, rx, goalVars,
                   io, tickVars, straddle, crash, asked, inbox, launchVars>>

-----------------------------------------------------------------------------
(* The capture thread: the stop event, or the camera gone under it, ends it. *)

LoopEnds ==
    /\ \E l \in loops :
        /\ stopSet \/ "cap" \notin has
        /\ loops' = loops \ {l}
    /\ UNCHANGED <<paramVars, nodeVars, thread, stopSet, forgot, cache, obsVars, rx,
                   goalVars, io, tickVars, straddle, crash, asked, inbox, launchVars>>

-----------------------------------------------------------------------------
(* Callbacks look at an attribute, and then use it without a lock.           *)

\* Use attribute a in callback c: None ends the process.
Use(a, c) == crash' = IF a \in has THEN crash ELSE c

\* _send_observation_tick: the client is there; an image and a goal are.
SendTick ==
    /\ io = "idle" /\ timers /\ "client" \in has
    /\ goal # 0 /\ counter < MaxFrames
    /\ io' = "send"
    /\ UNCHANGED <<paramVars, nodeVars, camVars, cache, obsVars, rx, goalVars, tickVars,
                   straddle, crash, asked, inbox, launchVars>>

\* The observation is counted, then given to the client there is by now.
SendUse ==
    /\ io = "send"
    /\ counter' = counter + 1
    /\ goalOf' = [goalOf EXCEPT ![counter'] = goal]
    /\ owner' = [owner EXCEPT ![counter'] = epoch]
    /\ Use("client", "send")
    /\ flying' = IF client = "stopped" THEN flying ELSE flying \cup {counter'}
    /\ io' = "idle"
    /\ UNCHANGED <<paramVars, nodeVars, camVars, cache, rx, goalVars, tickVars, straddle,
                   asked, inbox, launchVars>>

\* _publish_status.
StatusTick ==
    /\ io = "idle" /\ timers /\ "status_pub" \in has
    /\ io' = "status"
    /\ UNCHANGED <<paramVars, nodeVars, camVars, cache, obsVars, rx, goalVars, tickVars,
                   straddle, crash, asked, inbox, launchVars>>

StatusStep ==
    /\ \/ /\ io = "status"
          /\ io' = IF "local" \in has THEN "statusPub"
                   ELSE IF "cache" \in has THEN "statusCache" ELSE "idle"
          /\ UNCHANGED crash
       \/ /\ io = "statusCache"
          /\ Use("cache", "status")
          /\ io' = "statusPub"
       \/ /\ io = "statusPub"
          /\ Use("status_pub", "status")
          /\ io' = "idle"
    /\ UNCHANGED <<paramVars, nodeVars, camVars, cache, obsVars, rx, goalVars, tickVars,
                   straddle, asked, inbox, launchVars>>

\* _on_goal: the goal, then the adapter, then the cache.  A goal that does not
\* convert (an image that is broken, an unknown mode) leaves the adapter the one it
\* had.
OnGoal ==
    /\ io = "idle" /\ inbox # 0
    /\ goal' = inbox
    /\ inbox' = 0
    /\ io' = "goal"
    /\ UNCHANGED <<paramVars, nodeVars, camVars, cache, obsVars, rx, adapterGoal, cut,
                   tickVars, straddle, crash, asked, launchVars>>

OnGoalStep ==
    /\ \/ /\ io = "goal"
          /\ io' = IF "adapter" \in has THEN "goalAdapter" ELSE "goalCache"
          /\ UNCHANGED <<crash, cache, adapterGoal, cut>>
       \/ /\ io = "goalAdapter"
          /\ Use("adapter", "goal")
          /\ adapterGoal' \in {adapterGoal} \cup (IF kind = "local" THEN {goal} ELSE {})
          /\ io' = "goalCache"
          /\ UNCHANGED <<cache, cut>>
       \/ /\ io = "goalCache"
          /\ io' = IF "cache" \in has THEN "goalFloor" ELSE "idle"
          /\ cut' = (cut \/ "cache" \notin has)
          /\ UNCHANGED <<crash, cache, adapterGoal>>
       \/ /\ io = "goalFloor"
          /\ Use("cache", "goal")
          /\ cache' = Invalidate(counter)
          /\ io' = "idle"
          /\ UNCHANGED <<adapterGoal, cut>>
    /\ UNCHANGED <<paramVars, nodeVars, camVars, obsVars, rx, goal, tickVars, straddle,
                   asked, inbox, launchVars>>

\* _on_embedding_received on a client's thread, stopped and forgotten or not:
\* each client answers in order, one reply at a time.
Reply ==
    /\ \E f \in flying :
        /\ \A g \in flying : owner[g] = owner[f] => f <= g
        /\ \A g \in rx : owner[g] # owner[f]
        /\ flying' = flying \ {f}
        /\ rx' = IF "cache" \in has THEN rx \cup {f} ELSE rx
    /\ UNCHANGED <<paramVars, nodeVars, camVars, cache, counter, goalOf, owner, goalVars, io,
                   tickVars, straddle, crash, asked, inbox, launchVars>>

\* put() into the cache there is by now; with None the client logs the
\* exception and goes on to the next reply.
ReplyPut ==
    /\ \E f \in rx :
        /\ rx' = rx \ {f}
        /\ cache' = IF "cache" \in has THEN Put(cache, f, TRUE) ELSE cache
    /\ UNCHANGED <<paramVars, nodeVars, camVars, obsVars, goalVars, io, tickVars, straddle,
                   crash, asked, inbox, launchVars>>

Ages ==
    /\ cache.frame # 0 /\ cache.age # Expired
    /\ cache' = [cache EXCEPT !.age = @ + 1]
    /\ UNCHANGED <<paramVars, nodeVars, camVars, obsVars, rx, goalVars, io, tickVars,
                   straddle, crash, asked, inbox, launchVars>>

\* Observations go astray with their stream.
Lose ==
    /\ flying' \in SUBSET flying \ {flying}
    /\ UNCHANGED <<paramVars, nodeVars, camVars, cache, counter, goalOf, owner, rx, goalVars,
                   io, tickVars, straddle, crash, asked, inbox, launchVars>>

ActionTick ==
    /\ tick = "idle" /\ timers
    /\ tick' = "check"
    /\ UNCHANGED <<paramVars, nodeVars, camVars, cache, obsVars, rx, goalVars, io, plan,
                   path, straddle, crash, asked, inbox, launchVars>>

\* _action_tick_local: without a goal, or an adapter, an empty path.
ActionTickLocal ==
    /\ tick = "local"
    /\ plan' = IF "adapter" \in has THEN adapterGoal ELSE 0
    /\ tick' = "publish"
    /\ UNCHANGED <<paramVars, nodeVars, camVars, cache, obsVars, rx, goalVars, io, path,
                   straddle, crash, asked, inbox, launchVars>>

\* _action_tick, look by look.
ActionStep ==
    /\ \/ /\ tick = "check"
          /\ tick' = CASE ~ {"path_pub", "adapter"} \subseteq has -> "idle"
                       [] {"path_pub", "adapter", "local"} \subseteq has -> "local"
                       [] OTHER -> "cache"
          /\ UNCHANGED <<plan, path, crash>>
       \/ /\ tick = "cache"
          /\ tick' = IF "cache" \in has THEN "status" ELSE "idle"
          /\ UNCHANGED <<plan, path, crash>>
       \/ /\ tick = "status"
          /\ Use("cache", "action")
          /\ plan' = 0
          /\ tick' = IF Status(cache) \in {"WAITING_REMOTE", "STALE"} THEN "publish" ELSE "raw"
          /\ UNCHANGED path
       \/ /\ tick = "raw"
          /\ crash' = CASE "cache" \notin has -> "action"
                        [] "cache" \in has /\ cache.frame = 0 -> "raw"
                        [] OTHER -> crash
          /\ plan' = IF cache.frame = 0 THEN 0 ELSE goalOf[cache.frame]
          /\ tick' = "predict"
          /\ UNCHANGED path
       \/ /\ tick = "predict"      \* inside try: without an adapter, an empty path
          /\ plan' = IF "adapter" \in has THEN plan ELSE 0
          /\ tick' = "publish"
          /\ UNCHANGED <<path, crash>>
       \/ /\ tick = "publish"
          /\ Use("path_pub", "action")
          /\ path' = plan
          /\ plan' = 0
          /\ tick' = "idle"
    /\ UNCHANGED <<paramVars, nodeVars, camVars, cache, obsVars, rx, goalVars, io, straddle,
                   asked, inbox, launchVars>>

-----------------------------------------------------------------------------
(* External: goals published while the node subscribes.                     *)

GoalPublished ==
    /\ "goal_sub" \in has /\ asked < MaxGoals /\ (asked = 0 \/ LongRun)
    /\ asked' = asked + 1
    /\ inbox' = asked'
    /\ UNCHANGED <<paramVars, nodeVars, camVars, cache, obsVars, rx, goalVars, io, tickVars,
                   straddle, crash, launchVars>>

-----------------------------------------------------------------------------
Alive == crash = "no"

NodeSteps == ConfigureFinish \/ ConfigureFail \/ DeactivateFinish \/ CleanupStep
Operator == Deactivate \/ Cleanup \/ Shutdown
Launch == ConfigureBuild \/ ConfigureRaises \/ NotFound \/ ActivateRefused \/ Activate
IoGroup == SendUse \/ StatusStep \/ OnGoalStep
Ticks == SendTick \/ StatusTick \/ OnGoal
Heavy == ActionTick \/ ActionStep \/ ActionTickLocal
Rest == LoopEnds \/ Reply \/ ReplyPut \/ Ages \/ Lose \/ GoalPublished

Next ==
    /\ Alive
    /\ NodeSteps \/ Operator \/ Launch \/ IoGroup \/ Ticks \/ Heavy \/ Rest

Spec == Init /\ [][Next]_vars

\* The launch goes on, transitions return, timers fire and callbacks return,
\* time passes, and replies under way are handled.  The io group's callbacks
\* are short beside its timers' periods, so a goal gets its turn.
Fairness ==
    /\ WF_vars(Alive /\ launch # "done" /\ (ConfigureBuild \/ ActivateRefused \/ Activate))
    /\ WF_vars(Alive /\ (ConfigureFinish \/ DeactivateFinish \/ CleanupStep))
    /\ WF_vars(Alive /\ Heavy)
    /\ WF_vars(Alive /\ IoGroup)
    /\ SF_vars(Alive /\ OnGoal)
    /\ WF_vars(Alive /\ (Reply \/ ReplyPut))
    /\ WF_vars(Alive /\ Ages)

FairSpec == Spec /\ Fairness

-----------------------------------------------------------------------------
(* Properties.                                                              *)

\* The capture threads share one stop event, which activation clears: two of
\* them read the device at once only after one outlived its join.
OneCaptureLoop == Cardinality(loops) > 1 => forgot

\* "Embeddings derived from in-flight observations of the OLD goal don't land
\* in the cache ... The floor is sticky" (embedding_cache.py:42).  A cleanup and
\* configure lose the floor, since on_configure builds a new cache: then, and
\* only then, a reply of a former client, which stop() waited 2 s for, brings
\* the old goal back; or on_cleanup overtook an _on_goal (cut).
StaleOnlyFromFormer ==
    (io \notin {"goal", "goalAdapter", "goalCache", "goalFloor"} /\ "cache" \in has
        /\ cache.frame # 0)
    => goalOf[cache.frame] = goal \/ owner[cache.frame] < epoch \/ cut

\* on_cleanup clears attributes the timers' callbacks have already looked at,
\* which ends the process; only a callback that was running when on_cleanup
\* began is exposed to that.
TickCrashStraddles == crash \in {"action", "send", "status"} => straddle

\* The launch comes to its end: with the node active, or after as many failures as
\* a transition has attempts.  Activation then follows a configuration that was
\* given up, and is refused until it is given up itself.
LaunchActivates == <>(launch = "done" /\ (node = "active" \/ faults >= Attempts))

\* on_shutdown leaves the timers and the cache: a cloud node goes on driving
\* on the last embedding, but not beyond its hard timeout.
ShutdownQuiets ==
    (node = "finalized" /\ kind = "cloud" /\ timers) ~> [](path = 0 \/ ~ Alive)

=============================================================================
