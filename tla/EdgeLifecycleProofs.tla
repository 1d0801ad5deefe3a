--------------------------- MODULE EdgeLifecycleProofs ---------------------------
(***************************************************************************)
(* Proofs about EdgeLifecycle for any number of transitions, callbacks,      *)
(* goals and capture threads: two threads read the device only after a join  *)
(* timed out, and on_cleanup takes an attribute away from a timer's callback *)
(* only if it was running when on_cleanup began.                            *)
(***************************************************************************)
EXTENDS EdgeLifecycle, TLAPS, FiniteSetTheorems

\* What a type needs beside itself: a count that SendUse may raise, a capture
\* thread only while the node is up, the adapter of a configured node, and no
\* observation while the launch configures.
Between ==
    /\ io = "send" => counter < MaxFrames
    /\ node \in {"unconfigured", "configuring", "inactive", "stopping", "cleaning"} => thread = 0
    /\ node = "configuring" => "adapter" \in has
    /\ launch = "configure" =>
        /\ node \in {"unconfigured", "configuring"} /\ ~timers
        /\ counter = 0 /\ io # "send"

\* The capture threads beside the one the node remembers have outlived a join.
OthersForgot == ~forgot => loops \subseteq {thread}

\* What a callback has looked at and is going to use.
TickLooked ==
    CASE tick \in {"cache", "local"} -> {"path_pub", "adapter"}
      [] tick \in {"status", "raw", "predict"} -> {"path_pub", "cache"}
      [] tick = "publish" -> {"path_pub"}
      [] OTHER -> {}

IoLooked ==
    CASE io = "send" -> {"client"}
      [] io = "status" -> {"status_pub"}
      [] io = "statusCache" -> {"status_pub", "cache"}
      [] io = "statusPub" -> {"status_pub"}
      [] OTHER -> {}

\* Callbacks the last on_cleanup did not meet find what they have looked at, and
\* while attributes are cleared and built none of them runs.
Kept ==
    ~straddle =>
        /\ TickLooked \cup IoLooked \subseteq has
        /\ node \in {"stopping", "cleaning", "unconfigured", "configuring"} =>
            tick = "idle" /\ io \notin {"send", "status", "statusCache", "statusPub"}

\* The inductive invariant.
LifeInv == TypeOK /\ Between /\ OthersForgot /\ Kept /\ TickCrashStraddles

-----------------------------------------------------------------------------
(* What the methods of the cache return, as in EdgeNodeProofs.              *)

\* A record with fields of the right types is a cache.
LEMMA CacheRecord ==
    ASSUME NEW F, NEW f \in F \cup {0}, NEW a \in Fresh..Expired, NEW b \in BOOLEAN,
           NEW n \in F \cup {0}
    PROVE  [frame |-> f, age |-> a, paired |-> b, floor |-> n] \in Caches(F)
BY DEF Caches

\* put() yields a cache with the same floor, and takes the frame only if it is
\* above the floor.
LEMMA PutFacts ==
    ASSUME NEW F \in SUBSET Nat, NEW c \in Caches(F), NEW f \in F \cup {0}, NEW b \in BOOLEAN
    PROVE  /\ Put(c, f, b) \in Caches(F)
           /\ Put(c, f, b).floor = c.floor
           /\ Put(c, f, b) = c \/ (/\ Put(c, f, b).frame = f
                                   /\ Put(c, f, b).age = Fresh
                                   /\ c.floor < f)
<1>1. CASE f > c.floor /\ f > c.frame
    <2>1. Put(c, f, b) = [frame |-> f, age |-> Fresh, paired |-> b, floor |-> c.floor]
        BY <1>1 DEF Put, Caches
    <2>2. Fresh \in Fresh..Expired /\ c.floor \in F \cup {0}
        BY DEF Fresh, Expired, Caches
    <2>3. Put(c, f, b) \in Caches(F)
        BY <2>1, <2>2, CacheRecord
    <2>4. c.floor < f
        <3>1. \A n \in F \cup {0} : n \in Nat
            OBVIOUS
        <3>2. c.floor \in Nat /\ f \in Nat
            BY <2>2, <3>1
        <3> QED
            BY <1>1, <3>2
    <2> QED
        BY <2>1, <2>3, <2>4
<1>2. CASE ~(f > c.floor /\ f > c.frame)
    BY <1>2 DEF Put
<1> QED
    BY <1>1, <1>2

\* invalidate() leaves no embedding, and the floor it was given.
LEMMA InvalidateFacts ==
    ASSUME NEW F, NEW n \in F \cup {0}
    PROVE  /\ Invalidate(n) \in Caches(F)
           /\ Invalidate(n).floor = n
           /\ Invalidate(n).frame = 0
<1>1. FALSE \in BOOLEAN /\ 0 \in F \cup {0}
    OBVIOUS
<1>2. Fresh \in Fresh..Expired
    BY DEF Fresh, Expired
<1>3. Invalidate(n) \in Caches(F)
    BY <1>1, <1>2, CacheRecord, Zenon DEF Invalidate
<1> QED
    BY <1>3 DEF Invalidate

\* Ageing leaves the embedding and the floor in place.
LEMMA AgeFacts ==
    ASSUME NEW F, NEW c \in Caches(F), c.age # Expired
    PROVE  LET d == [c EXCEPT !.age = @ + 1]
           IN  /\ d \in Caches(F)
               /\ d.frame = c.frame
               /\ d.floor = c.floor
               /\ d.age = Expired => c.age = Old
BY DEF Caches, Fresh, Old, Expired

\* The cache of a node that was just configured.
LEMMA EmptyCacheType == ASSUME NEW F PROVE EmptyCache \in Caches(F)
BY DEF EmptyCache, Caches, Fresh, Expired

-----------------------------------------------------------------------------
(* Types.                                                                   *)

\* The conjuncts of TypeOK, by what they are about.
NodeTypes ==
    /\ kind \in Kinds /\ device \in Devices
    /\ node \in {"unconfigured", "inactive", "active", "finalized"} \cup Transitions
    /\ has \subseteq Attributes
    /\ timers \in BOOLEAN
    /\ client \in {"none", "new", "on", "stopped"} /\ epoch \in 0..MaxEpochs
    /\ launch \in {"configure", "activate", "done"}
    /\ tries \in 0..Attempts /\ faults \in 0..Faults
    /\ node \in {"inactive", "active", "deactivating"} => "adapter" \in has
    /\ timers => node \in {"active", "deactivating", "finalized"}
    /\ loops \subseteq Loops /\ thread \in {0} \cup Loops
    /\ stopSet \in BOOLEAN /\ forgot \in BOOLEAN
    /\ thread # 0 => "cap" \in has

DataTypes ==
    /\ cache \in Caches(Frames)
    /\ counter \in 0..MaxFrames
    /\ goalOf \in [Frames -> 0..MaxGoals] /\ owner \in [Frames -> 0..MaxEpochs]
    /\ flying \subseteq Frames /\ rx \subseteq Frames

CallbackTypes ==
    /\ goal \in 0..MaxGoals /\ adapterGoal \in 0..MaxGoals /\ cut \in BOOLEAN
    /\ io \in {"idle", "send", "status", "statusCache", "statusPub",
               "goal", "goalAdapter", "goalCache", "goalFloor"}
    /\ tick \in {"idle", "check", "local", "cache", "status", "raw", "predict",
                "publish"}
    /\ plan \in 0..MaxGoals /\ path \in 0..MaxGoals
    /\ straddle \in BOOLEAN
    /\ crash \in {"no", "action", "raw", "send", "status", "goal"}
    /\ asked \in 0..MaxGoals
    /\ inbox \in 0..MaxGoals

\* What the methods of the cache return here.
LEMMA CacheTypes ==
    ASSUME TypeOK
    PROVE  /\ cache \in Caches(Frames)
           /\ \A f \in Frames : Put(cache, f, TRUE) \in Caches(Frames)
           /\ Invalidate(counter) \in Caches(Frames)
           /\ EmptyCache \in Caches(Frames)
           /\ cache.age # Expired => [cache EXCEPT !.age = @ + 1] \in Caches(Frames)
           /\ cache.frame \in Frames \cup {0}
<1>1. cache \in Caches(Frames) /\ Frames \in SUBSET Nat /\ counter \in Frames \cup {0}
    <2>1. cache \in Caches(Frames) /\ counter \in 0..MaxFrames
        BY Zenon DEF TypeOK
    <2>2. Frames \in SUBSET Nat /\ 0..MaxFrames = Frames \cup {0}
        BY ONLY LifecycleAssumption DEF Frames
    <2> QED
        BY ONLY <2>1, <2>2
<1>2. \A f \in Frames : Put(cache, f, TRUE) \in Caches(Frames)
    BY <1>1, PutFacts
<1>3. Invalidate(counter) \in Caches(Frames)
    BY <1>1, InvalidateFacts
<1>4. cache.age # Expired => [cache EXCEPT !.age = @ + 1] \in Caches(Frames)
    BY <1>1, AgeFacts
<1> QED
    BY <1>1, <1>2, <1>3, <1>4, EmptyCacheType DEF Caches

\* The lifecycle, the launch and the capture threads keep their types.
LEMMA NodeTypeStep == ASSUME TypeOK, Between, [Next]_vars PROVE NodeTypes'
<1>t. TypeOK /\ Between /\ [Next]_vars
    OBVIOUS
<1>0. /\ MaxFrames \in Nat /\ MaxGoals \in Nat /\ MaxEpochs \in Nat /\ MaxConfigures \in Nat
      /\ Faults \in Nat /\ Attempts \in Nat \ {0} /\ MaxLoops \in Nat
      /\ MaxConfigures <= MaxEpochs
    BY LifecycleAssumption DEF MaxEpochs
<1> USE <1>0, <1>t DEF TypeOK, NodeTypes, Between, Loops,
        paramVars, nodeVars, camVars, obsVars, goalVars, tickVars, launchVars, Transitions
<1>1. CASE ConfigureBuild
    BY <1>1 DEF ConfigureBuild, Attributes, CleanupOrder
<1>2. CASE ConfigureFinish
    BY <1>2 DEF ConfigureFinish, Attributes, CleanupOrder
<1>3. CASE ConfigureFail
    <2>1. /\ node = "configuring" /\ node' = "unconfigured"
          /\ faults < Faults /\ faults' = faults + 1 /\ FailedAttempt
          /\ UNCHANGED <<paramVars, has, timers, client, epoch, camVars>>
        BY ONLY <1>3 DEF ConfigureFail
    <2> QED
        BY <2>1 DEF FailedAttempt
<1>3r. CASE ConfigureRaises
    BY <1>3r DEF ConfigureRaises, FailedAttempt, Attributes, CleanupOrder
<1>4. CASE NotFound
    BY <1>4 DEF NotFound, FailedAttempt
<1>5. CASE ActivateRefused
    BY <1>5 DEF ActivateRefused, FailedAttempt
<1>6. CASE Activate
    <2>1. /\ client' \in {client, "on"}
          /\ timers' = TRUE /\ node' = "active" /\ node = "inactive"
          /\ launch' = "done" /\ tries' = 0
          /\ UNCHANGED <<kind, device, has, epoch, forgot, faults>>
        BY ONLY <1>6 DEF Activate, paramVars
    <2>2. /\ loops' \subseteq Loops /\ thread' \in {0} \cup Loops /\ stopSet' \in BOOLEAN
          /\ thread' # 0 => "cap" \in has
        <3>1. PICK l \in Loops :
                IF "cap" \in has
                THEN stopSet' = FALSE /\ loops' = loops \cup {l} /\ thread' = l
                ELSE UNCHANGED <<stopSet, loops, thread>>
            BY ONLY <1>6 DEF Activate
        <3> QED
            BY <3>1
    <2> QED
        BY <2>1, <2>2
<1>7. CASE Deactivate
    BY <1>7 DEF Deactivate
<1>8. CASE DeactivateFinish
    BY <1>8 DEF DeactivateFinish
<1>9. CASE Cleanup
    BY <1>9 DEF Cleanup
<1>10. CASE CleanupStep
    BY <1>10 DEF CleanupStep
<1>11. CASE Shutdown
    BY <1>11 DEF Shutdown
<1>12. CASE LoopEnds
    BY <1>12 DEF LoopEnds
<1>13. CASE SendTick
    BY <1>13 DEF SendTick
<1>14. CASE SendUse
    BY <1>14 DEF SendUse, Use
<1>15. CASE StatusTick
    BY <1>15 DEF StatusTick
<1>16. CASE StatusStep
    BY <1>16 DEF StatusStep, Use
<1>17. CASE OnGoal
    BY <1>17 DEF OnGoal
<1>18. CASE OnGoalStep
    BY <1>18 DEF OnGoalStep, Use
<1>19. CASE Reply
    BY <1>19 DEF Reply
<1>20. CASE ReplyPut
    BY <1>20 DEF ReplyPut
<1>21. CASE Ages
    BY <1>21 DEF Ages
<1>22. CASE Lose
    BY <1>22 DEF Lose
<1>23. CASE ActionTick
    BY <1>23 DEF ActionTick
<1>24. CASE ActionTickLocal
    BY <1>24 DEF ActionTickLocal
<1>25. CASE ActionStep
    BY <1>25 DEF ActionStep, Use
<1>26. CASE GoalPublished
    BY <1>26 DEF GoalPublished
<1>27. CASE UNCHANGED vars
    BY <1>27 DEF vars
<1> QED
    BY <1>t, <1>1, <1>2, <1>3, <1>3r, <1>4, <1>5, <1>6, <1>7, <1>8, <1>9, <1>10, <1>11, <1>12,
       <1>13, <1>14, <1>15, <1>16, <1>17, <1>18, <1>19, <1>20, <1>21, <1>22, <1>23, <1>24, <1>25,
       <1>26, <1>27
    DEF Next, NodeSteps, Operator, Launch, IoGroup, Ticks, Heavy, Rest

\* The cache and the observations keep their types.
LEMMA DataTypeStep == ASSUME TypeOK, Between, [Next]_vars PROVE DataTypes'
<1>t. TypeOK /\ Between /\ [Next]_vars
    OBVIOUS
<1>0. /\ MaxFrames \in Nat /\ MaxGoals \in Nat /\ MaxEpochs \in Nat /\ MaxConfigures \in Nat
      /\ Faults \in Nat /\ Attempts \in Nat \ {0} /\ MaxLoops \in Nat
      /\ MaxConfigures <= MaxEpochs
    BY LifecycleAssumption DEF MaxEpochs
<1>c. /\ cache \in Caches(Frames) /\ EmptyCache \in Caches(Frames)
      /\ Invalidate(counter) \in Caches(Frames)
      /\ \A f \in Frames : Put(cache, f, TRUE) \in Caches(Frames)
      /\ cache.age # Expired => [cache EXCEPT !.age = @ + 1] \in Caches(Frames)
      /\ cache.frame \in Frames \cup {0}
    BY <1>t, CacheTypes
<1> USE <1>0, <1>t DEF TypeOK, DataTypes, Frames, Between, Loops,
        paramVars, nodeVars, camVars, obsVars, goalVars, tickVars, launchVars, Transitions
<1>1. CASE ConfigureBuild
    <2>1. cache' \in Caches(Frames)
        BY ONLY <1>1, <1>c DEF ConfigureBuild
    <2> QED
        BY <1>1, <2>1 DEF ConfigureBuild
<1>2. CASE ConfigureFinish
    BY <1>2 DEF ConfigureFinish, Attributes, CleanupOrder
<1>3. CASE ConfigureFail
    BY <1>3 DEF ConfigureFail, FailedAttempt
<1>3r. CASE ConfigureRaises
    <2>1. cache' \in Caches(Frames)
        BY ONLY <1>3r, <1>c DEF ConfigureRaises
    <2> QED
        BY <1>3r, <2>1 DEF ConfigureRaises
<1>4. CASE NotFound
    BY <1>4 DEF NotFound, FailedAttempt
<1>5. CASE ActivateRefused
    BY <1>5 DEF ActivateRefused, FailedAttempt
<1>6. CASE Activate
    BY <1>6 DEF Activate
<1>7. CASE Deactivate
    BY <1>7 DEF Deactivate
<1>8. CASE DeactivateFinish
    BY <1>8 DEF DeactivateFinish
<1>9. CASE Cleanup
    BY <1>9 DEF Cleanup
<1>10. CASE CleanupStep
    BY <1>10 DEF CleanupStep
<1>11. CASE Shutdown
    BY <1>11 DEF Shutdown
<1>12. CASE LoopEnds
    BY <1>12 DEF LoopEnds
<1>13. CASE SendTick
    BY <1>13 DEF SendTick
<1>14. CASE SendUse
    <2>1. counter' \in Frames /\ goal \in 0..MaxGoals /\ epoch \in 0..MaxEpochs
        BY <1>14 DEF SendUse
    <2>2. /\ goalOf' = [goalOf EXCEPT ![counter'] = goal]
          /\ owner' = [owner EXCEPT ![counter'] = epoch]
          /\ flying' \subseteq flying \cup {counter'}
          /\ UNCHANGED <<cache, rx>>
        BY <1>14 DEF SendUse
    <2>3. goalOf' \in [Frames -> 0..MaxGoals] /\ owner' \in [Frames -> 0..MaxEpochs]
        <3>1. goalOf \in [Frames -> 0..MaxGoals] /\ owner \in [Frames -> 0..MaxEpochs]
            OBVIOUS
        <3> QED
            BY ONLY <2>1, <2>2, <3>1
    <2>4. flying' \subseteq Frames /\ rx' \subseteq Frames
        <3>1. flying \subseteq Frames /\ rx \subseteq Frames
            OBVIOUS
        <3> QED
            BY ONLY <2>1, <2>2, <3>1
    <2>5. counter' \in 0..MaxFrames /\ cache' \in Caches(Frames)
        BY ONLY <2>1, <2>2, <1>0, <1>c DEF Frames
    <2> QED
        BY ONLY <2>3, <2>4, <2>5 DEF DataTypes
<1>15. CASE StatusTick
    BY <1>15 DEF StatusTick
<1>16. CASE StatusStep
    BY <1>16 DEF StatusStep, Use
<1>17. CASE OnGoal
    BY <1>17 DEF OnGoal
<1>18. CASE OnGoalStep
    <2>1. cache' \in Caches(Frames)
        BY ONLY <1>18, <1>c DEF OnGoalStep
    <2> QED
        BY <1>18, <2>1 DEF OnGoalStep
<1>19. CASE Reply
    BY <1>19 DEF Reply
<1>20. CASE ReplyPut
    <2>1. cache' \in Caches(Frames)
        BY ONLY <1>20, <1>c, <1>t DEF ReplyPut, TypeOK
    <2> QED
        BY <1>20, <2>1 DEF ReplyPut
<1>21. CASE Ages
    <2>1. cache' \in Caches(Frames)
        BY ONLY <1>21, <1>c DEF Ages
    <2> QED
        BY <1>21, <2>1 DEF Ages
<1>22. CASE Lose
    BY <1>22 DEF Lose
<1>23. CASE ActionTick
    BY <1>23 DEF ActionTick
<1>24. CASE ActionTickLocal
    BY <1>24 DEF ActionTickLocal
<1>25. CASE ActionStep
    BY <1>25 DEF ActionStep, Use
<1>26. CASE GoalPublished
    BY <1>26 DEF GoalPublished
<1>27. CASE UNCHANGED vars
    BY <1>27 DEF vars
<1> QED
    BY <1>t, <1>1, <1>2, <1>3, <1>3r, <1>4, <1>5, <1>6, <1>7, <1>8, <1>9, <1>10, <1>11, <1>12,
       <1>13, <1>14, <1>15, <1>16, <1>17, <1>18, <1>19, <1>20, <1>21, <1>22, <1>23, <1>24, <1>25,
       <1>26, <1>27
    DEF Next, NodeSteps, Operator, Launch, IoGroup, Ticks, Heavy, Rest

\* The callbacks, goals and paths keep their types.
LEMMA CallbackTypeStep == ASSUME TypeOK, Between, [Next]_vars PROVE CallbackTypes'
<1>t. TypeOK /\ Between /\ [Next]_vars
    OBVIOUS
<1>0. /\ MaxFrames \in Nat /\ MaxGoals \in Nat /\ MaxEpochs \in Nat /\ MaxConfigures \in Nat
      /\ Faults \in Nat /\ Attempts \in Nat \ {0} /\ MaxLoops \in Nat
      /\ MaxConfigures <= MaxEpochs
    BY LifecycleAssumption DEF MaxEpochs
<1>c. /\ cache \in Caches(Frames) /\ EmptyCache \in Caches(Frames)
      /\ Invalidate(counter) \in Caches(Frames)
      /\ \A f \in Frames : Put(cache, f, TRUE) \in Caches(Frames)
      /\ cache.age # Expired => [cache EXCEPT !.age = @ + 1] \in Caches(Frames)
      /\ cache.frame \in Frames \cup {0}
    BY <1>t, CacheTypes
<1> USE <1>0, <1>t DEF TypeOK, CallbackTypes, Frames, Between, Loops,
        paramVars, nodeVars, camVars, obsVars, goalVars, tickVars, launchVars, Transitions
<1>1. CASE ConfigureBuild
    BY <1>1 DEF ConfigureBuild, Attributes, CleanupOrder
<1>2. CASE ConfigureFinish
    BY <1>2 DEF ConfigureFinish, Attributes, CleanupOrder
<1>3. CASE ConfigureFail
    BY <1>3 DEF ConfigureFail, FailedAttempt
<1>3r. CASE ConfigureRaises
    BY <1>3r DEF ConfigureRaises
<1>4. CASE NotFound
    BY <1>4 DEF NotFound, FailedAttempt
<1>5. CASE ActivateRefused
    BY <1>5 DEF ActivateRefused, FailedAttempt
<1>6. CASE Activate
    BY <1>6 DEF Activate
<1>7. CASE Deactivate
    BY <1>7 DEF Deactivate
<1>8. CASE DeactivateFinish
    BY <1>8 DEF DeactivateFinish
<1>9. CASE Cleanup
    BY <1>9 DEF Cleanup
<1>10. CASE CleanupStep
    BY <1>10 DEF CleanupStep
<1>11. CASE Shutdown
    BY <1>11 DEF Shutdown
<1>12. CASE LoopEnds
    BY <1>12 DEF LoopEnds
<1>13. CASE SendTick
    BY <1>13 DEF SendTick
<1>14. CASE SendUse
    BY <1>14 DEF SendUse, Use
<1>15. CASE StatusTick
    BY <1>15 DEF StatusTick
<1>16. CASE StatusStep
    BY <1>16 DEF StatusStep, Use
<1>17. CASE OnGoal
    BY <1>17 DEF OnGoal
<1>18. CASE OnGoalStep
    <2>1. /\ io' \in {"goalAdapter", "goalCache", "goalFloor", "idle"}
          /\ crash' \in {crash, "goal"}
          /\ adapterGoal' \in {adapterGoal, goal} /\ cut' \in BOOLEAN
        BY <1>18 DEF OnGoalStep, Use
    <2>2. UNCHANGED <<goal, tick, plan, path, straddle, asked, inbox>>
        BY <1>18 DEF OnGoalStep
    <2> QED
        BY <2>1, <2>2
<1>19. CASE Reply
    BY <1>19 DEF Reply
<1>20. CASE ReplyPut
    BY <1>20 DEF ReplyPut
<1>21. CASE Ages
    BY <1>21 DEF Ages
<1>22. CASE Lose
    BY <1>22 DEF Lose
<1>23. CASE ActionTick
    BY <1>23 DEF ActionTick
<1>24. CASE ActionTickLocal
    BY <1>24 DEF ActionTickLocal
<1>25. CASE ActionStep
    <2>1. plan' \in 0..MaxGoals /\ path' \in 0..MaxGoals
        <3>1. cache.frame # 0 => goalOf[cache.frame] \in 0..MaxGoals
            BY <1>c
        <3>2. /\ plan \in 0..MaxGoals /\ path \in 0..MaxGoals /\ 0 \in 0..MaxGoals
              /\ adapterGoal \in 0..MaxGoals
            OBVIOUS
        <3>3. /\ plan' \in {plan, 0, IF cache.frame = 0 THEN 0 ELSE goalOf[cache.frame]}
              /\ path' \in {path, plan}
            BY ONLY <1>25 DEF ActionStep
        <3> QED
            BY ONLY <3>1, <3>2, <3>3
    <2>2. tick' \in {"idle", "check", "local", "cache", "status", "raw", "predict", "publish"}
        BY <1>25 DEF ActionStep
    <2>3. crash' \in {crash, "action", "raw"}
        BY <1>25 DEF ActionStep, Use
    <2> QED
        BY <1>25, <2>1, <2>2, <2>3 DEF ActionStep
<1>26. CASE GoalPublished
    BY <1>26 DEF GoalPublished
<1>27. CASE UNCHANGED vars
    BY <1>27 DEF vars
<1> QED
    BY <1>t, <1>1, <1>2, <1>3, <1>3r, <1>4, <1>5, <1>6, <1>7, <1>8, <1>9, <1>10, <1>11, <1>12,
       <1>13, <1>14, <1>15, <1>16, <1>17, <1>18, <1>19, <1>20, <1>21, <1>22, <1>23, <1>24, <1>25,
       <1>26, <1>27
    DEF Next, NodeSteps, Operator, Launch, IoGroup, Ticks, Heavy, Rest

-----------------------------------------------------------------------------
(* The capture threads.                                                     *)

\* Activation starts a thread only when none is remembered, and deactivation
\* forgets one that is alive only by noting it.
LEMMA ThreadsStep ==
    ASSUME TypeOK, Between, OthersForgot, [Next]_vars
    PROVE  Between' /\ OthersForgot'
<1>t. /\ thread \in {0} \cup Loops /\ loops \subseteq Loops /\ 0 \notin Loops
      /\ timers => node \in {"active", "deactivating", "finalized"}
      /\ node \in {"inactive", "active", "deactivating"} => "adapter" \in has
      /\ Between /\ OthersForgot /\ forgot \in BOOLEAN
    BY LifecycleAssumption DEF TypeOK, Loops
<1>n. [Next]_vars
    OBVIOUS
<1> USE <1>t DEF Between, OthersForgot, paramVars, nodeVars, camVars, obsVars, goalVars,
        tickVars, launchVars, Transitions
<1>1. CASE ConfigureBuild
    BY <1>1 DEF ConfigureBuild
<1>2. CASE ConfigureFinish
    BY <1>2 DEF ConfigureFinish
<1>3. CASE ConfigureFail
    BY <1>3 DEF ConfigureFail, FailedAttempt
<1>3r. CASE ConfigureRaises
    BY <1>3r DEF ConfigureRaises, FailedAttempt
<1>4. CASE NotFound
    BY <1>4 DEF NotFound, FailedAttempt
<1>5. CASE ActivateRefused
    BY <1>5 DEF ActivateRefused, FailedAttempt
<1>6. CASE Activate
    BY <1>6 DEF Activate
<1>7. CASE Deactivate
    BY <1>7 DEF Deactivate
<1>8. CASE DeactivateFinish
    BY <1>8 DEF DeactivateFinish
<1>9. CASE Cleanup
    BY <1>9 DEF Cleanup
<1>10. CASE CleanupStep
    BY <1>10 DEF CleanupStep
<1>11. CASE Shutdown
    BY <1>11 DEF Shutdown
<1>12. CASE LoopEnds
    BY <1>12 DEF LoopEnds
<1>13. CASE SendTick
    BY <1>13 DEF SendTick
<1>14. CASE SendUse
    BY <1>14 DEF SendUse, Use
<1>15. CASE StatusTick
    BY <1>15 DEF StatusTick
<1>16. CASE StatusStep
    BY <1>16 DEF StatusStep, Use
<1>17. CASE OnGoal
    BY <1>17 DEF OnGoal
<1>18. CASE OnGoalStep
    BY <1>18 DEF OnGoalStep, Use
<1>19. CASE Reply
    BY <1>19 DEF Reply
<1>20. CASE ReplyPut
    BY <1>20 DEF ReplyPut
<1>21. CASE Ages
    BY <1>21 DEF Ages
<1>22. CASE Lose
    BY <1>22 DEF Lose
<1>23. CASE ActionTick
    BY <1>23 DEF ActionTick
<1>24. CASE ActionTickLocal
    BY <1>24 DEF ActionTickLocal
<1>25. CASE ActionStep
    BY <1>25 DEF ActionStep, Use
<1>26. CASE GoalPublished
    BY <1>26 DEF GoalPublished
<1>27. CASE UNCHANGED vars
    BY <1>27 DEF vars
<1> QED
    BY <1>n, <1>1, <1>2, <1>3, <1>3r, <1>4, <1>5, <1>6, <1>7, <1>8, <1>9, <1>10, <1>11, <1>12,
       <1>13, <1>14, <1>15, <1>16, <1>17, <1>18, <1>19, <1>20, <1>21, <1>22, <1>23, <1>24, <1>25,
       <1>26, <1>27
    DEF Next, NodeSteps, Operator, Launch, IoGroup, Ticks, Heavy, Rest

-----------------------------------------------------------------------------
(* What callbacks have looked at.                                           *)

\* Timers exist only while the node is up, and every callback that runs when
\* on_cleanup begins sets straddle.
LEMMA KeptStep ==
    ASSUME TypeOK, Kept, TickCrashStraddles, [Next]_vars
    PROVE  Kept' /\ TickCrashStraddles'
<1>t. /\ Kept /\ TickCrashStraddles
      /\ timers => node \in {"active", "deactivating", "finalized"}
      /\ straddle \in BOOLEAN
    BY DEF TypeOK
<1>n. [Next]_vars
    OBVIOUS
<1> USE <1>t DEF Kept, TickCrashStraddles, TickLooked, IoLooked, paramVars, nodeVars, camVars,
        obsVars, goalVars, tickVars, launchVars
<1>1. CASE ConfigureBuild
    BY <1>1 DEF ConfigureBuild
<1>2. CASE ConfigureFinish
    BY <1>2 DEF ConfigureFinish
<1>3. CASE ConfigureFail
    BY <1>3 DEF ConfigureFail
<1>3r. CASE ConfigureRaises
    BY <1>3r DEF ConfigureRaises
<1>4. CASE NotFound
    BY <1>4 DEF NotFound
<1>5. CASE ActivateRefused
    BY <1>5 DEF ActivateRefused
<1>6. CASE Activate
    BY <1>6 DEF Activate
<1>7. CASE Deactivate
    BY <1>7 DEF Deactivate
<1>8. CASE DeactivateFinish
    BY <1>8 DEF DeactivateFinish
<1>9. CASE Alive /\ Cleanup
    BY <1>9 DEF Alive, Cleanup
<1>10. CASE CleanupStep
    BY <1>10 DEF CleanupStep
<1>11. CASE Shutdown
    BY <1>11 DEF Shutdown
<1>12. CASE LoopEnds
    BY <1>12 DEF LoopEnds
<1>13. CASE SendTick
    BY <1>13 DEF SendTick
<1>14. CASE SendUse
    BY <1>14 DEF SendUse, Use
<1>15. CASE StatusTick
    BY <1>15 DEF StatusTick
<1>16. CASE StatusStep
    BY <1>16 DEF StatusStep, Use
<1>17. CASE OnGoal
    BY <1>17 DEF OnGoal
<1>18. CASE OnGoalStep
    BY <1>18 DEF OnGoalStep, Use
<1>19. CASE Reply
    BY <1>19 DEF Reply
<1>20. CASE ReplyPut
    BY <1>20 DEF ReplyPut
<1>21. CASE Ages
    BY <1>21 DEF Ages
<1>22. CASE Lose
    BY <1>22 DEF Lose
<1>23. CASE ActionTick
    BY <1>23 DEF ActionTick
<1>24. CASE ActionTickLocal
    BY <1>24 DEF ActionTickLocal
<1>25. CASE ActionStep
    BY <1>25 DEF ActionStep, Use
<1>26. CASE GoalPublished
    BY <1>26 DEF GoalPublished
<1>27. CASE UNCHANGED vars
    BY <1>27 DEF vars
<1> QED
    BY <1>n, <1>1, <1>2, <1>3, <1>3r, <1>4, <1>5, <1>6, <1>7, <1>8, <1>9, <1>10, <1>11, <1>12,
       <1>13, <1>14, <1>15, <1>16, <1>17, <1>18, <1>19, <1>20, <1>21, <1>22, <1>23, <1>24, <1>25,
       <1>26, <1>27
    DEF Next, NodeSteps, Operator, Launch, IoGroup, Ticks, Heavy, Rest

-----------------------------------------------------------------------------
(* The cache of one client.                                                 *)

OnGoalRuns == io \in {"goal", "goalAdapter", "goalCache", "goalFloor"}

\* No observation is of a client to come, and the cache holds one that was sent,
\* above its floor.
CacheOrder ==
    /\ \A f \in Frames : owner[f] <= epoch
    /\ cache.frame \in 0..counter
    /\ cache.frame # 0 => cache.floor < cache.frame
    /\ flying \cup rx \subseteq 1..counter

\* Every observation given to the client there is now was for the goal there is
\* now, or is at or below the floor.
Matched ==
    (~OnGoalRuns /\ ~cut /\ "cache" \in has) =>
        \A f \in 1..counter : owner[f] = epoch => goalOf[f] = goal \/ f <= cache.floor

\* What the proof of a step needs of the types.
OrderTypes ==
    /\ MaxFrames \in Nat /\ MaxGoals \in Nat /\ MaxEpochs \in Nat
    /\ counter \in 0..MaxFrames /\ epoch \in 0..MaxEpochs
    /\ owner \in [Frames -> 0..MaxEpochs] /\ goalOf \in [Frames -> 0..MaxGoals]
    /\ cache \in Caches(Frames)
    /\ io = "send" => counter < MaxFrames
    /\ launch = "configure" => counter = 0

\* A step that leaves the cache, the observations and the goal alone, starts no
\* configure and ends no _on_goal.
LEMMA MatchedQuiet ==
    ASSUME CacheOrder, Matched, UNCHANGED <<cache, obsVars, rx, epoch, goal, cut>>,
           "cache" \in has' => "cache" \in has, OnGoalRuns => OnGoalRuns'
    PROVE  CacheOrder' /\ Matched'
BY DEF CacheOrder, Matched, obsVars

\* The new observation is for the goal in force.
LEMMA MatchedSend ==
    ASSUME OrderTypes, CacheOrder, Matched, SendUse
    PROVE  CacheOrder' /\ Matched'
<1>1. /\ counter' = counter + 1 /\ counter' \in Frames
      /\ counter \in Nat /\ epoch \in Nat
    BY DEF OrderTypes, SendUse, Frames
<1>2. /\ goalOf' = [goalOf EXCEPT ![counter'] = goal]
      /\ owner' = [owner EXCEPT ![counter'] = epoch]
      /\ flying' \subseteq flying \cup {counter'}
      /\ UNCHANGED <<cache, rx, epoch, goal, cut, has>>
      /\ ~OnGoalRuns
    BY DEF SendUse, OnGoalRuns, nodeVars, goalVars
<1>3. /\ goalOf'[counter'] = goal /\ owner'[counter'] = epoch
      /\ \A f \in Frames : f # counter' => goalOf'[f] = goalOf[f] /\ owner'[f] = owner[f]
    BY <1>1, <1>2 DEF OrderTypes
<1>4. CacheOrder'
    <2>1. \A f \in Frames : owner'[f] <= epoch
        BY <1>1, <1>3 DEF CacheOrder
    <2>2. cache.frame \in 0..counter' /\ flying' \cup rx \subseteq 1..counter'
        BY <1>1, <1>2 DEF CacheOrder
    <2> QED
        BY <1>2, <2>1, <2>2 DEF CacheOrder
<1>5. ASSUME ~cut, "cache" \in has, NEW f \in 1..counter', owner'[f] = epoch
      PROVE  goalOf'[f] = goal \/ f <= cache.floor
    <2>1. f = counter' \/ (f \in 1..counter /\ f # counter')
        BY <1>1
    <2>2. f \in Frames
        BY <1>1 DEF Frames, OrderTypes
    <2> QED
        BY <1>2, <1>3, <1>5, <2>1, <2>2 DEF Matched
<1> QED
    BY <1>2, <1>4, <1>5 DEF Matched

\* A new cache is empty, and no observation is of the new client yet.
LEMMA MatchedBuild ==
    ASSUME OrderTypes, CacheOrder, ConfigureBuild
    PROVE  CacheOrder' /\ Matched'
<1>1. /\ epoch' = epoch + 1 /\ cache' = EmptyCache
      /\ UNCHANGED <<counter, goalOf, owner, flying, rx>>
    BY DEF ConfigureBuild, obsVars
<1>2. \A f \in Frames : owner[f] \in Nat /\ epoch \in Nat /\ owner[f] <= epoch
    BY DEF OrderTypes, CacheOrder
<1>3. 1..counter \subseteq Frames /\ counter \in Nat
    BY DEF OrderTypes, Frames
<1>4. EmptyCache.frame = 0
    BY DEF EmptyCache
<1>5. \A f \in Frames : owner[f] < epoch + 1
    BY <1>2
<1>6. CacheOrder'
    <2>1. \A f \in Frames : owner[f] <= epoch + 1
        BY <1>2
    <2>2. cache'.frame = 0 /\ 0 \in 0..counter
        BY <1>1, <1>3, <1>4
    <2> QED
        BY <1>1, <2>1, <2>2 DEF CacheOrder
<1>7. \A f \in 1..counter : owner[f] # epoch + 1
    BY <1>2, <1>3, <1>5
<1> QED
    BY <1>1, <1>6, <1>7 DEF Matched

\* Nor is there any before the launch has configured the node.
LEMMA MatchedRaise ==
    ASSUME OrderTypes, CacheOrder, ConfigureRaises
    PROVE  CacheOrder' /\ Matched'
<1>1. /\ cache' = EmptyCache /\ counter = 0
      /\ UNCHANGED <<epoch, counter, goalOf, owner, flying, rx>>
    BY DEF ConfigureRaises, OrderTypes, obsVars
<1>2. cache'.frame = 0 /\ 0 \in 0..counter
    BY <1>1 DEF EmptyCache
<1> QED
    BY <1>1, <1>2 DEF CacheOrder, Matched

\* _on_goal ends with a floor that is not below any observation, or with cut.
LEMMA MatchedGoal ==
    ASSUME OrderTypes, CacheOrder, Matched, OnGoalStep
    PROVE  CacheOrder' /\ Matched'
<1>1. UNCHANGED <<has, epoch, obsVars, rx, goal>>
    BY DEF OnGoalStep, nodeVars
<1>2. CASE io = "goalFloor"
    <2>1. cache' = Invalidate(counter)
        BY <1>2 DEF OnGoalStep
    <2>2. counter \in Frames \cup {0} /\ counter \in Nat
        BY DEF OrderTypes, Frames
    <2>3. cache'.frame = 0 /\ cache'.floor = counter
        BY <2>1, <2>2, InvalidateFacts
    <2>4. CacheOrder'
        BY <1>1, <2>2, <2>3 DEF CacheOrder, obsVars
    <2>5. \A f \in 1..counter : f <= cache'.floor
        BY <2>2, <2>3
    <2> QED
        BY <1>1, <2>4, <2>5 DEF Matched, obsVars
<1>3. CASE io \in {"goal", "goalAdapter"}
    <2>1. UNCHANGED <<cache, cut>> /\ OnGoalRuns'
        BY <1>3 DEF OnGoalStep, OnGoalRuns
    <2> QED
        BY <1>1, <2>1, MatchedQuiet
<1>4. CASE io = "goalCache"
    <2>1. UNCHANGED cache /\ (OnGoalRuns' \/ (cut' /\ "cache" \notin has))
        BY <1>4 DEF OnGoalStep, OnGoalRuns
    <2> QED
        BY <1>1, <2>1 DEF CacheOrder, Matched, obsVars
<1> QED
    BY <1>2, <1>3, <1>4 DEF OnGoalStep

\* A reply is put only above the floor, whichever client it came from.
LEMMA MatchedPut ==
    ASSUME OrderTypes, CacheOrder, Matched, ReplyPut
    PROVE  CacheOrder' /\ Matched'
<1>1. UNCHANGED <<has, epoch, obsVars, goal, cut, io>> /\ rx' \subseteq rx
    BY DEF ReplyPut, nodeVars, goalVars
<1>2. PICK f \in rx : cache' = cache \/ cache' = Put(cache, f, TRUE)
    BY DEF ReplyPut
<1>3. f \in 1..counter /\ counter \in Nat /\ f \in Frames \cup {0}
    BY DEF CacheOrder, OrderTypes, Frames
<1>4. Frames \in SUBSET Nat /\ cache \in Caches(Frames)
    BY DEF OrderTypes, Frames
<1>5. /\ cache'.floor = cache.floor
      /\ cache' = cache \/ (cache'.frame = f /\ cache.floor < f)
    <2>1. /\ Put(cache, f, TRUE).floor = cache.floor
          /\ Put(cache, f, TRUE) = cache \/ (/\ Put(cache, f, TRUE).frame = f
                                            /\ cache.floor < f)
        <3>1. f \in Frames \cup {0} /\ TRUE \in BOOLEAN
            BY <1>3
        <3> QED
            BY ONLY <3>1, <1>4, PutFacts
    <2> QED
        BY ONLY <1>2, <2>1
<1>6. CacheOrder'
    <2>1. cache'.frame \in 0..counter
        BY <1>3, <1>5 DEF CacheOrder
    <2>2. cache'.frame # 0 => cache'.floor < cache'.frame
        BY <1>3, <1>5 DEF CacheOrder
    <2> QED
        BY <1>1, <2>1, <2>2 DEF CacheOrder, obsVars
<1> QED
    BY <1>1, <1>5, <1>6 DEF Matched, OnGoalRuns, obsVars

\* The steps of the node keep the cache in order and matched to the goal.
LEMMA MatchedStep ==
    ASSUME OrderTypes, CacheOrder, Matched, [Next]_vars
    PROVE  CacheOrder' /\ Matched'
<1>n. [Next]_vars
    OBVIOUS
<1>t. OrderTypes /\ CacheOrder /\ Matched
    OBVIOUS
<1>1. CASE ConfigureBuild
    BY <1>1, <1>t, MatchedBuild
<1>1r. CASE ConfigureRaises
    BY <1>1r, <1>t, MatchedRaise
<1>2. CASE ConfigureFinish \/ ConfigureFail \/ NotFound \/ ActivateRefused \/ Activate
    BY <1>2, <1>t, MatchedQuiet
    DEF ConfigureFinish, ConfigureFail, NotFound, ActivateRefused, Activate, OnGoalRuns,
        nodeVars, goalVars
<1>3. CASE Deactivate \/ DeactivateFinish \/ Cleanup \/ CleanupStep \/ Shutdown \/ LoopEnds
    BY <1>3, <1>t, MatchedQuiet
    DEF Deactivate, DeactivateFinish, Cleanup, CleanupStep, Shutdown, LoopEnds, OnGoalRuns,
        nodeVars, goalVars
<1>4. CASE SendTick \/ StatusTick \/ StatusStep \/ GoalPublished
    BY <1>4, <1>t, MatchedQuiet
    DEF SendTick, StatusTick, StatusStep, GoalPublished, OnGoalRuns, nodeVars, goalVars
<1>5. CASE ActionTick \/ ActionTickLocal \/ ActionStep
    BY <1>5, <1>t, MatchedQuiet
    DEF ActionTick, ActionTickLocal, ActionStep, OnGoalRuns, nodeVars, goalVars
<1>6. CASE SendUse
    BY <1>6, <1>t, MatchedSend
<1>7. CASE OnGoal
    <2>1. UNCHANGED <<cache, obsVars, rx, epoch>> /\ OnGoalRuns'
        BY <1>7 DEF OnGoal, OnGoalRuns, nodeVars
    <2> QED
        BY <1>t, <2>1 DEF CacheOrder, Matched, obsVars
<1>8. CASE OnGoalStep
    BY <1>8, <1>t, MatchedGoal
<1>9. CASE Reply \/ Lose
    <2>1. /\ UNCHANGED <<cache, counter, goalOf, owner, epoch, goal, cut, has, io>>
          /\ flying' \cup rx' \subseteq flying \cup rx
        BY <1>9 DEF Reply, Lose, nodeVars, goalVars
    <2> QED
        BY <1>t, <2>1 DEF CacheOrder, Matched, OnGoalRuns
<1>10. CASE ReplyPut
    BY <1>10, <1>t, MatchedPut
<1>11. CASE Ages
    <2>1. /\ UNCHANGED <<obsVars, rx, epoch, goal, cut, has, io>>
          /\ cache'.frame = cache.frame /\ cache'.floor = cache.floor
        BY <1>11, <1>t, AgeFacts DEF Ages, nodeVars, goalVars, OrderTypes
    <2> QED
        BY <1>t, <2>1 DEF CacheOrder, Matched, OnGoalRuns, obsVars
<1>12. CASE UNCHANGED vars
    BY <1>12, <1>t, MatchedQuiet DEF vars, OnGoalRuns, nodeVars, goalVars
<1> QED
    BY <1>n, <1>1, <1>1r, <1>2, <1>3, <1>4, <1>5, <1>6, <1>7, <1>8, <1>9, <1>10, <1>11, <1>12
    DEF Next, NodeSteps, Operator, Launch, IoGroup, Ticks, Heavy, Rest

-----------------------------------------------------------------------------
(* Theorems.                                                                *)

LEMMA LifeInit == Init => LifeInv
<1> SUFFICES ASSUME Init PROVE LifeInv
    OBVIOUS
<1>1. cache \in Caches(Frames)
    BY EmptyCacheType DEF Init
<1>2. /\ goalOf \in [Frames -> 0..MaxGoals] /\ owner \in [Frames -> 0..MaxEpochs]
      /\ counter \in 0..MaxFrames /\ epoch \in 0..MaxEpochs
      /\ tries \in 0..Attempts /\ faults \in 0..Faults
      /\ {goal, adapterGoal, plan, path, asked, inbox} \subseteq 0..MaxGoals
    BY LifecycleAssumption DEF Init, MaxEpochs
<1>3. TypeOK
    BY <1>1, <1>2 DEF Init, TypeOK
<1>4. Between /\ OthersForgot /\ Kept /\ TickCrashStraddles
    BY DEF Init, Between, OthersForgot, Kept, TickLooked, IoLooked, TickCrashStraddles
<1> QED
    BY <1>3, <1>4 DEF LifeInv

LEMMA LifeStep == LifeInv /\ [Next]_vars => LifeInv'
<1> SUFFICES ASSUME LifeInv, [Next]_vars PROVE LifeInv'
    OBVIOUS
<1>1. TypeOK /\ Between /\ OthersForgot /\ Kept /\ TickCrashStraddles
    BY DEF LifeInv
<1>2. NodeTypes' /\ DataTypes' /\ CallbackTypes'
    BY <1>1, NodeTypeStep, DataTypeStep, CallbackTypeStep
<1>3. TypeOK'
    BY <1>2 DEF TypeOK, NodeTypes, DataTypes, CallbackTypes
<1> QED
    BY <1>1, <1>3, ThreadsStep, KeptStep DEF LifeInv

\* Every reachable state of the node is well typed: in particular the timers exist
\* only while the node is up, and a node that is configured has its adapter.
THEOREM LifecycleTypeCorrect == Spec => []TypeOK
<1>1. LifeInv => TypeOK
    BY DEF LifeInv
<1> QED
    BY LifeInit, LifeStep, <1>1, PTL DEF Spec

\* Two capture threads read the device only after the 2 s join of on_deactivate
\* has given one up (edge_node.py:322), however often the node is activated.
THEOREM CaptureLoopsOutliveJoins == Spec => []OneCaptureLoop
<1>1. LifeInv => OneCaptureLoop
    <2> SUFFICES ASSUME LifeInv, ~forgot PROVE ~(Cardinality(loops) > 1)
        BY DEF OneCaptureLoop
    <2>1. loops \subseteq {thread}
        BY DEF LifeInv, OthersForgot
    <2>2. IsFiniteSet({thread}) /\ Cardinality({thread}) = 1
        BY FS_Singleton
    <2>3. Cardinality(loops) \in Nat /\ Cardinality(loops) <= 1
        BY <2>1, <2>2, FS_Subset, FS_CardinalityType
    <2> QED
        BY <2>3
<1> QED
    BY LifeInit, LifeStep, <1>1, PTL DEF Spec

\* on_cleanup can only take an attribute away from a timer's callback that was
\* running when it began (edge_node.py:330-355): a timer destroyed by
\* on_deactivate starts no callback later.
THEOREM CrashesStraddle == Spec => []TickCrashStraddles
<1>1. LifeInv => TickCrashStraddles
    BY DEF LifeInv
<1> QED
    BY LifeInit, LifeStep, <1>1, PTL DEF Spec

\* Only a former client's reply, or an _on_goal that on_cleanup overtook, can leave
\* an embedding of another goal in the cache (edge_node.py:213, 481), however often
\* the node is configured and whatever the order of goals and replies.
THEOREM OldGoalsFromFormerClients == Spec => []StaleOnlyFromFormer
<1>1. Init => CacheOrder /\ Matched
    <2> SUFFICES ASSUME Init PROVE CacheOrder /\ Matched
        OBVIOUS
    <2>1. owner = [f \in Frames |-> 0] /\ epoch = 0 /\ counter = 0 /\ cache = EmptyCache
          /\ flying = {} /\ rx = {}
        BY DEF Init
    <2>2. EmptyCache.frame = 0
        BY DEF EmptyCache
    <2> QED
        BY <2>1, <2>2 DEF CacheOrder, Matched
<1>2. LifeInv => OrderTypes
    BY LifecycleAssumption DEF LifeInv, TypeOK, Between, OrderTypes, MaxEpochs
<1>3. LifeInv /\ CacheOrder /\ Matched /\ [Next]_vars => (LifeInv /\ CacheOrder /\ Matched)'
    BY LifeStep, MatchedStep, <1>2
<1>4. LifeInv /\ CacheOrder /\ Matched => StaleOnlyFromFormer
    <2> SUFFICES ASSUME LifeInv, CacheOrder, Matched, ~OnGoalRuns, ~cut, "cache" \in has,
                        cache.frame # 0
                 PROVE  goalOf[cache.frame] = goal \/ owner[cache.frame] < epoch
        BY DEF StaleOnlyFromFormer, OnGoalRuns
    <2>1. /\ counter \in 0..MaxFrames /\ MaxFrames \in Nat /\ epoch \in Nat
          /\ owner \in [Frames -> 0..MaxEpochs] /\ MaxEpochs \in Nat
          /\ cache.floor \in Nat
        BY <1>2 DEF OrderTypes, Caches, Frames
    <2>2. cache.frame \in 1..counter /\ cache.floor < cache.frame
        BY <2>1 DEF CacheOrder
    <2>3. cache.frame \in Frames /\ owner[cache.frame] \in Nat /\ owner[cache.frame] <= epoch
        BY <2>1, <2>2 DEF CacheOrder, Frames
    <2>4. owner[cache.frame] = epoch => goalOf[cache.frame] = goal \/ cache.frame <= cache.floor
        BY <2>2 DEF Matched
    <2>5. ~(cache.frame <= cache.floor)
        BY <2>1, <2>2
    <2> QED
        BY <2>1, <2>3, <2>4, <2>5
<1> QED
    BY LifeInit, <1>1, <1>3, <1>4, PTL DEF Spec

=============================================================================
