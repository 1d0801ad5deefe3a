---------------------------- MODULE EdgeNodeProofs ----------------------------
(***************************************************************************)
(* Proofs about EdgeNode for any number of observations and goals: what the *)
(* cache holds belongs to the goal in force, and at most one moving path is  *)
(* published after an input is lost.                                         *)
(***************************************************************************)
EXTENDS EdgeNode, TLAPS, FiniteSetTheorems

-----------------------------------------------------------------------------
(* What the methods of the cache return, for any set of frame ids.          *)

\* A record with fields of the right types is a cache.
LEMMA CacheRecord ==
    ASSUME NEW F, NEW f \in F \cup {0}, NEW a \in Fresh..Expired, NEW b \in BOOLEAN,
           NEW n \in F \cup {0}
    PROVE  [frame |-> f, age |-> a, paired |-> b, floor |-> n] \in Caches(F)
BY DEF Caches

\* put() yields a cache with the same floor, and takes the frame only if it is
\* above the floor.
LEMMA PutFacts ==
    ASSUME NEW F \in SUBSET Nat, NEW c \in Caches(F), NEW f \in F \cup {0}, NEW b \in BOOLEAN
    PROVE  /\ Put(c, f, b) \in Caches(F)
           /\ Put(c, f, b).floor = c.floor
           /\ Put(c, f, b) = c \/ (/\ Put(c, f, b).frame = f
                                   /\ Put(c, f, b).age = Fresh
                                   /\ c.floor < f)
<1>1. CASE f > c.floor /\ f > c.frame
    <2>1. Put(c, f, b) = [frame |-> f, age |-> Fresh, paired |-> b, floor |-> c.floor]
        BY <1>1 DEF Put, Caches
    <2>2. Fresh \in Fresh..Expired /\ c.floor \in F \cup {0}
        BY DEF Fresh, Expired, Caches
    <2>3. Put(c, f, b) \in Caches(F)
        BY <2>1, <2>2, CacheRecord
    <2>4. c.floor < f
        <3>1. \A n \in F \cup {0} : n \in Nat
            OBVIOUS
        <3>2. c.floor \in Nat /\ f \in Nat
            BY <2>2, <3>1
        <3> QED
            BY <1>1, <3>2
    <2> QED
        BY <2>1, <2>3, <2>4
<1>2. CASE ~(f > c.floor /\ f > c.frame)
    BY <1>2 DEF Put
<1> QED
    BY <1>1, <1>2

\* invalidate() leaves no embedding, and the floor it was given.
LEMMA InvalidateFacts ==
    ASSUME NEW F, NEW n \in F \cup {0}
    PROVE  /\ Invalidate(n) \in Caches(F)
           /\ Invalidate(n).floor = n
           /\ Invalidate(n).frame = 0
<1>1. FALSE \in BOOLEAN /\ 0 \in F \cup {0}
    OBVIOUS
<1>2. Fresh \in Fresh..Expired
    BY DEF Fresh, Expired
<1>3. Invalidate(n) \in Caches(F)
    BY <1>1, <1>2, CacheRecord, Zenon DEF Invalidate
<1> QED
    BY <1>3 DEF Invalidate

\* Ageing leaves the embedding and the floor in place.
LEMMA AgeFacts ==
    ASSUME NEW F, NEW c \in Caches(F), c.age # Expired
    PROVE  LET d == [c EXCEPT !.age = @ + 1]
           IN  /\ d \in Caches(F)
               /\ d.frame = c.frame
               /\ d.floor = c.floor
               /\ d.age = Expired => c.age = Old
BY DEF Caches, Fresh, Old, Expired

\* The cache of a node that was just configured.
LEMMA EmptyCacheType == ASSUME NEW F PROVE EmptyCache \in Caches(F)
BY DEF EmptyCache, Caches, Fresh, Expired

-----------------------------------------------------------------------------
\* Nothing is in the client, the cache or a reply that was not sent.
SentBefore ==
    /\ \A f \in pending : f <= counter
    /\ answered <= counter
    /\ cache.frame <= counter
    /\ cache.floor <= counter
    /\ emb <= counter

\* Outside _on_goal every observation above the floor carried the goal in force.
FloorSeparates ==
    io # "goalSet" =>
        \A f \in Frames : (cache.floor < f /\ f <= counter) => goalOf[f] = goal

\* The cached embedding is above the floor.
CachedAboveFloor == cache.frame # 0 => cache.floor < cache.frame

\* The inductive invariant for the goals.
GoalInv == TypeOK /\ SentBefore /\ FloorSeparates /\ CachedAboveFloor

ExpiredCache == cache.frame # 0 /\ cache.age = Expired

\* A tick that predicts has an embedding.
PredictHasRaw == tick = "predict" => emb # 0

\* After a late path the tick in flight, if any, saw its inputs afterwards: they
\* are fit at every stage it may have reached.
LateTickIsFit ==
    (late = 1 /\ io # "goalSet") =>
        /\ tick = "checked" => ~ExpiredCache
        /\ (tick = "raw" /\ emb # 0) => (goalOf[emb] = goal /\ ~ExpiredCache)
        /\ tick = "predict" => ~Unfit

\* The inductive invariant for the late paths.
LateInv == GoalInv /\ LatePathAtMostOnce /\ PredictHasRaw /\ LateTickIsFit

-----------------------------------------------------------------------------
(* Types.                                                                   *)

\* Every step of the node keeps its variables in their types.
LEMMA EdgeTypeStep == TypeOK /\ [Next]_vars => TypeOK'
<1> SUFFICES ASSUME TypeOK, [Next]_vars PROVE TypeOK'
    OBVIOUS
<1> USE EdgeAssumption DEF TypeOK, Frames, vars, clientVars, sendVars, tickVars
<1>1. CASE OnImage
    BY <1>1 DEF OnImage
<1>2. CASE ImageAges
    BY <1>2 DEF ImageAges
<1>3. CASE OnGoal
    BY <1>3 DEF OnGoal
<1>4. CASE OnGoalInvalidate
    BY <1>4, InvalidateFacts DEF OnGoalInvalidate
<1>5. CASE SendTick
    BY <1>5 DEF SendTick
<1>6. CASE SendHand
    <2>1. CASE UNCHANGED clientVars /\ io' = "idle"
        BY <1>6, <2>1 DEF SendHand
    <2>2. CASE newest' = counter /\ Client!Accept /\ io' = "sent"
        <3>1. pending' \in SUBSET Frames
            BY <1>6, <2>2 DEF SendHand, Client!Accept
        <3> QED
            BY <1>6, <2>2, <3>1 DEF SendHand, Client!Accept
    <2> QED
        BY <1>6, <2>1, <2>2 DEF SendHand
<1>7. CASE SendRecord
    BY <1>7 DEF SendRecord, Oldest
<1>8. CASE OnEmbeddingPop
    <2>1. PICK f \in pending : answered' = f /\ pending' = pending \ {f}
        BY <1>8 DEF OnEmbeddingPop, Client!Answer
    <2>2. rxPaired' \in BOOLEAN
        <3>1. rxPaired' = (answered' \in sent)
            BY <1>8 DEF OnEmbeddingPop
        <3> QED
            BY ONLY <3>1
    <2>3. newest' \in 0..MaxFrames /\ pending' \in SUBSET Frames /\ answered' \in 0..MaxFrames
        BY <1>8, <2>1 DEF OnEmbeddingPop, Client!Answer
    <2>4. sent' \in SUBSET Frames
        BY <1>8 DEF OnEmbeddingPop
    <2> QED
        BY <1>8, <2>2, <2>3, <2>4 DEF OnEmbeddingPop
<1>9. CASE OnEmbeddingPut
    <2>1. answered \in Frames \cup {0}
        OBVIOUS
    <2>2. cache' \in Caches(Frames)
        BY <1>9, <2>1, PutFacts DEF OnEmbeddingPut
    <2> QED
        BY <1>9, <2>2 DEF OnEmbeddingPut
<1>10. CASE EmbeddingAges
    BY <1>10, AgeFacts DEF EmbeddingAges
<1>11. CASE ActionTick
    BY <1>11 DEF ActionTick, StopPath
<1>12. CASE ActionGetRaw
    BY <1>12 DEF ActionGetRaw, Caches
<1>13. CASE ActionImage
    BY <1>13 DEF ActionImage, StopPath
<1>14. CASE ActionPublish
    <2>1. CASE path' = emb /\ late' = (IF Unfit THEN late + 1 ELSE late)
               /\ tick' = "idle" /\ emb' = 0 /\ UNCHANGED calm
        <3>1. late' \in Nat
            BY <2>1
        <3> QED
            BY <1>14, <2>1, <3>1 DEF ActionPublish
    <2>2. CASE StopPath /\ calm' = FALSE /\ UNCHANGED late
        <3>1. calm' \in BOOLEAN
            BY ONLY <2>2
        <3>2. path' = 0 /\ tick' = "idle" /\ emb' = 0 /\ late' = late
            BY ONLY <2>2 DEF StopPath
        <3>3. UNCHANGED <<goal, camera, cache, sendVars, io, rx, rxPaired, clientVars>>
            BY ONLY <1>14 DEF ActionPublish
        <3> QED
            BY <3>1, <3>2, <3>3
    <2> QED
        BY <1>14, <2>1, <2>2 DEF ActionPublish
<1>15. CASE ClientLose
    <2>1. calm' \in BOOLEAN
        <3>1. calm' = (calm /\ (newest \in pending => newest \in pending'))
            BY <1>15 DEF ClientLose
        <3> QED
            BY ONLY <3>1
    <2> QED
        BY <1>15, <2>1 DEF ClientLose, Client!Lose
<1>16. CASE UNCHANGED vars
    BY <1>16
<1> QED
    BY <1>1, <1>2, <1>3, <1>4, <1>5, <1>6, <1>7, <1>8, <1>9, <1>10, <1>11, <1>12,
       <1>13, <1>14, <1>15, <1>16
    DEF Next, Camera, IoGoal, IoSend, Replies, HeavyGroup


\* The initial state has the types.
LEMMA EdgeTypeInit == Init => TypeOK
<1> SUFFICES ASSUME Init PROVE TypeOK
    OBVIOUS
<1>1. rxPaired \in BOOLEAN
    BY Zenon DEF Init
<1>2. EmptyCache \in Caches(Frames)
    <2>1. FALSE \in BOOLEAN /\ 0 \in Frames \cup {0}
        OBVIOUS
    <2>2. Fresh \in Fresh..Expired
        BY DEF Fresh, Expired
    <2> QED
        BY <2>1, <2>2, CacheRecord, Zenon DEF EmptyCache
<1> QED
    BY <1>1, <1>2, EdgeAssumption DEF Init, TypeOK, Client!Init, Frames

-----------------------------------------------------------------------------
(* Goals.                                                                   *)

\* Every step of the node keeps the invariant for the goals.
LEMMA GoalStep == GoalInv /\ [Next]_vars => GoalInv'
<1> SUFFICES ASSUME GoalInv, [Next]_vars
             PROVE  SentBefore' /\ FloorSeparates' /\ CachedAboveFloor'
    BY EdgeTypeStep DEF GoalInv
<1>0. TypeOK /\ TypeOK'
    BY EdgeTypeStep DEF GoalInv
<1> USE EdgeAssumption DEF GoalInv, SentBefore, FloorSeparates, CachedAboveFloor, Frames,
        clientVars, sendVars, tickVars
<1>1. CASE UNCHANGED <<counter, goalOf, goal, cache, io, clientVars>> /\ emb' \in {0, emb, cache.frame}
    BY <1>1, <1>0 DEF TypeOK, Caches
<1>2. CASE OnGoal
    BY <1>2, <1>0 DEF OnGoal, TypeOK
<1>3. CASE OnGoalInvalidate
    BY <1>3, <1>0, InvalidateFacts DEF OnGoalInvalidate, TypeOK
<1>4. CASE SendTick
    BY <1>4, <1>0 DEF SendTick, TypeOK, Caches
<1>5. CASE SendHand
    BY <1>5, <1>0 DEF SendHand, Client!Accept, TypeOK
<1>6. CASE SendRecord
    BY <1>6, <1>0 DEF SendRecord, TypeOK
<1>7. CASE OnEmbeddingPop
    BY <1>7, <1>0 DEF OnEmbeddingPop, Client!Answer, TypeOK
<1>8. CASE OnEmbeddingPut
    <2>1. answered \in Frames \cup {0} /\ rxPaired \in BOOLEAN /\ cache \in Caches(Frames)
        BY <1>0 DEF TypeOK
    <2>2. /\ cache' = Put(cache, answered, rxPaired)
          /\ UNCHANGED <<counter, goalOf, goal, io, emb, clientVars>>
        BY <1>8 DEF OnEmbeddingPut
    <2>3. /\ cache' = cache \/ (cache'.frame = answered /\ cache.floor < answered)
          /\ cache'.floor = cache.floor
        BY ONLY <2>1, <2>2, PutFacts, EdgeAssumption
    <2> QED
        BY <1>0, <2>1, <2>2, <2>3
<1>9. CASE EmbeddingAges
    BY <1>9, <1>0, AgeFacts DEF EmbeddingAges, TypeOK
<1>10. CASE ClientLose
    BY <1>10, <1>0 DEF ClientLose, Client!Lose, TypeOK
<1>11. CASE Camera \/ HeavyGroup \/ UNCHANGED vars
    BY <1>11, <1>0, <1>1
    DEF Camera, OnImage, ImageAges, HeavyGroup, ActionTick, ActionGetRaw, ActionImage,
        ActionPublish, StopPath, vars
<1> QED
    BY <1>2, <1>3, <1>4, <1>5, <1>6, <1>7, <1>8, <1>9, <1>10, <1>11
    DEF Next, IoGoal, IoSend, Replies

\* The initial state satisfies it: no frame, no floor.
LEMMA GoalInit == Init => GoalInv
BY EdgeTypeInit, EdgeAssumption
DEF Init, GoalInv, SentBefore, FloorSeparates, CachedAboveFloor, EmptyCache, Client!Init, Frames

\* The type invariant, for any number of observations and goals.
THEOREM EdgeTypeCorrect == Spec => []TypeOK
<1>1. GoalInv => TypeOK
    BY DEF GoalInv
<1> QED
    BY <1>1, GoalInit, GoalStep, PTL DEF Spec

\* What GoalInv says of the cached embedding.
LEMMA CachedIsCurrent == GoalInv => CachedGoalCurrent
<1> SUFFICES ASSUME GoalInv, io # "goalSet", cache.frame # 0
             PROVE  goalOf[cache.frame] = goal
    BY DEF CachedGoalCurrent
<1>1. cache.frame \in Frames
    BY DEF GoalInv, TypeOK, Caches
<1> QED
    BY <1>1 DEF GoalInv, SentBefore, FloorSeparates, CachedAboveFloor

\* The frame floor of _on_goal does what embedding_cache.py:43-45 says: no
\* embedding of a previous goal is in the cache once _on_goal is over.
THEOREM CacheFollowsGoal == Spec => []CachedGoalCurrent
BY GoalInit, GoalStep, CachedIsCurrent, PTL DEF Spec

-----------------------------------------------------------------------------
(* Late paths.                                                              *)

\* Every step of the node keeps the invariant for the late paths.
LEMMA LateStep == LateInv /\ [Next]_vars => LateInv'
<1> SUFFICES ASSUME LateInv, [Next]_vars
             PROVE  LatePathAtMostOnce' /\ PredictHasRaw' /\ LateTickIsFit'
    BY GoalStep DEF LateInv
<1>0. /\ GoalInv
      /\ TypeOK /\ TypeOK'
      /\ SentBefore
      /\ CachedGoalCurrent
    BY EdgeTypeStep, CachedIsCurrent DEF LateInv, GoalInv
<1> USE EdgeAssumption DEF LateInv, LatePathAtMostOnce, PredictHasRaw, LateTickIsFit,
        ExpiredCache, Unfit, clientVars, sendVars, tickVars
<1>1. CASE OnImage
    BY <1>1 DEF OnImage
<1>2. CASE ImageAges
    BY <1>2 DEF ImageAges
<1>3. CASE OnGoal
    BY <1>3 DEF OnGoal
<1>4. CASE OnGoalInvalidate
    BY <1>4 DEF OnGoalInvalidate
<1>5. CASE SendTick
    <2>1. goalOf'[emb] = goalOf[emb] \/ emb = 0
        BY <1>5, <1>0 DEF SendTick, TypeOK, SentBefore, Frames
    <2> QED
        BY <1>5, <2>1 DEF SendTick
<1>6. CASE SendHand
    BY <1>6 DEF SendHand
<1>7. CASE SendRecord
    BY <1>7 DEF SendRecord
<1>8. CASE OnEmbeddingPop
    BY <1>8 DEF OnEmbeddingPop
<1>9. CASE OnEmbeddingPut
    <2>1. answered \in Frames \cup {0} /\ rxPaired \in BOOLEAN /\ cache \in Caches(Frames)
        BY <1>0 DEF TypeOK, Frames
    <2>2. Frames \in SUBSET Nat /\ cache' = Put(cache, answered, rxPaired)
        BY <1>9 DEF OnEmbeddingPut, Frames
    <2>3. cache' = cache \/ cache'.age = Fresh
        BY ONLY <2>1, <2>2, PutFacts
    <2> QED
        BY <1>9, <2>3 DEF OnEmbeddingPut, Fresh, Expired
<1>10. CASE EmbeddingAges
    <2>1. /\ cache'.frame = cache.frame
          /\ cache'.age = Expired => cache.age = Old
        BY <1>10, <1>0, AgeFacts DEF EmbeddingAges, TypeOK
    <2> QED
        BY <1>10, <2>1 DEF EmbeddingAges
<1>11. CASE ActionTick
    <2>1. ExpiredCache => Status(cache) = "STALE"
        BY ONLY DEF ExpiredCache, Status, Fresh, Old, Expired
    <2>2. /\ UNCHANGED <<goal, camera, cache, goalOf, io, late>>
          /\ \/ tick' = "idle" /\ emb' = 0
             \/ tick' = "checked" /\ emb' = emb /\ ~ExpiredCache
        BY ONLY <1>11, <2>1 DEF ActionTick, StopPath, sendVars
    <2> QED
        BY <2>2
<1>12. CASE ActionGetRaw
    BY <1>12, <1>0 DEF ActionGetRaw, CachedGoalCurrent
<1>13. CASE ActionImage
    BY <1>13 DEF ActionImage, StopPath
<1>14. CASE ActionPublish
    BY <1>14, <1>0 DEF ActionPublish, StopPath, TypeOK
<1>15. CASE ClientLose
    BY <1>15 DEF ClientLose
<1>16. CASE UNCHANGED vars
    BY <1>16 DEF vars
<1> QED
    BY <1>1, <1>2, <1>3, <1>4, <1>5, <1>6, <1>7, <1>8, <1>9, <1>10, <1>11, <1>12,
       <1>13, <1>14, <1>15, <1>16
    DEF Next, Camera, IoGoal, IoSend, Replies, HeavyGroup

\* The action tick's three looks at shared state and its inference are not one
\* step, yet at most one moving path follows the loss of an input.
THEOREM OneLatePath == Spec => []LatePathAtMostOnce
<1>1. Init => LateInv
    BY GoalInit DEF Init, LateInv, LatePathAtMostOnce, PredictHasRaw, LateTickIsFit
<1>2. LateInv => LatePathAtMostOnce
    BY DEF LateInv
<1> QED
    BY <1>1, <1>2, LateStep, PTL DEF Spec

-----------------------------------------------------------------------------
(* Images.                                                                  *)

\* The later observations, those that may have pushed out the image of f.
Later(f) == {g \in Frames : f < g /\ g <= counter}

\* The inductive invariant for the images: they are of observations sent.
ImageInv ==
    /\ TypeOK
    /\ \A f \in sent \cup pending : f <= counter
    /\ PendingKeepsImage

\* Later observations are finitely many, and do not become fewer.
LEMMA LaterGrows ==
    ASSUME TypeOK, TypeOK', counter <= counter', NEW f \in Frames
    PROVE  /\ Cardinality(Later(f)) \in Nat /\ Cardinality(Later(f)') \in Nat
           /\ Cardinality(Later(f)) <= Cardinality(Later(f)')
<1>1. IsFiniteSet(Frames)
    BY EdgeAssumption, FS_Interval DEF Frames
<1>2. Later(f) \subseteq Later(f)'
    <2>1. counter \in Nat /\ counter' \in Nat /\ \A g \in Frames : g \in Nat
        BY EdgeAssumption DEF TypeOK, Frames
    <2>2. \A g \in Frames : g <= counter => g <= counter'
        BY ONLY <2>1, counter <= counter'
    <2> QED
        BY <2>2 DEF Later
<1>3. Later(f)' \subseteq Frames
    BY DEF Later
<1>4. IsFiniteSet(Later(f)')
    BY <1>1, <1>3, FS_Subset
<1>5. IsFiniteSet(Later(f)) /\ Cardinality(Later(f)) <= Cardinality(Later(f)')
    BY <1>2, <1>4, FS_Subset
<1> QED
    BY <1>4, <1>5, FS_CardinalityType

\* An image is evicted only when SentMax later ones are there.
LEMMA Evicted ==
    ASSUME TypeOK, NEW s \in SUBSET Frames, \A g \in s : g <= counter,
           Cardinality(s) > SentMax, NEW f \in Oldest(s)
    PROVE  Cardinality(Later(f)) >= SentMax
<1>1. IsFiniteSet(Frames)
    BY EdgeAssumption, FS_Interval DEF Frames
<1>2. IsFiniteSet(s) /\ Cardinality(s) \in Nat
    BY <1>1, FS_Subset, FS_CardinalityType
<1>3. f \in s /\ \A g \in s : f <= g
    BY DEF Oldest
<1>4. IsFiniteSet(s \ {f}) /\ Cardinality(s \ {f}) = Cardinality(s) - 1
    BY <1>2, <1>3, FS_RemoveElement
<1>5. s \ {f} \subseteq Later(f)
    <2>1. SUFFICES ASSUME NEW g \in s, g # f PROVE g \in Frames /\ f < g /\ g <= counter
        BY DEF Later
    <2>2. f \in Frames /\ g \in Frames /\ f <= g
        BY <1>3
    <2> QED
        BY <2>1, <2>2, EdgeAssumption DEF Frames
<1>6. Later(f) \subseteq Frames
    BY DEF Later
<1>7. IsFiniteSet(Later(f))
    BY <1>1, <1>6, FS_Subset
<1>8. Cardinality(s \ {f}) <= Cardinality(Later(f)) /\ Cardinality(Later(f)) \in Nat
    BY <1>5, <1>7, FS_Subset, FS_CardinalityType
<1> QED
    BY <1>2, <1>4, <1>8, EdgeAssumption

\* Every step keeps the images that may still be asked for.
LEMMA ImageStep == ImageInv /\ [Next]_vars => ImageInv'
<1> SUFFICES ASSUME ImageInv, [Next]_vars
             PROVE  (\A f \in sent \cup pending : f <= counter)' /\ PendingKeepsImage'
    BY EdgeTypeStep DEF ImageInv
<1>0. TypeOK /\ TypeOK' /\ MaxFrames \in Nat
    BY EdgeTypeStep, EdgeAssumption DEF ImageInv
<1>1. /\ \A f \in sent \cup pending : f <= counter
      /\ \A f \in pending :
            f \in sent \/ (f = counter /\ io = "sent") \/ Cardinality(Later(f)) >= SentMax
    BY DEF ImageInv, PendingKeepsImage, Later
<1>2. SUFFICES /\ \A f \in sent' \cup pending' : f <= counter'
               /\ \A f \in pending' :
                    f \in sent' \/ (f = counter' /\ io' = "sent") \/ Cardinality(Later(f)') >= SentMax
    BY DEF PendingKeepsImage, Later
<1>3. counter <= counter' =>
        \A f \in Frames : Cardinality(Later(f)) >= SentMax => Cardinality(Later(f)') >= SentMax
    BY <1>0, LaterGrows, EdgeAssumption
<1>4. pending \subseteq Frames /\ sent \subseteq Frames /\ counter \in Nat /\ counter' \in Nat
    BY <1>0 DEF TypeOK
<1>5. ASSUME counter' = counter, pending' \subseteq pending, sent' = sent, io' = io \/ io # "sent"
      PROVE  /\ \A f \in sent' \cup pending' : f <= counter'
             /\ \A f \in pending' :
                    f \in sent' \/ (f = counter' /\ io' = "sent") \/ Cardinality(Later(f)') >= SentMax
    BY <1>1, <1>3, <1>4, <1>5
<1>6. CASE SendTick
    BY <1>6, <1>1, <1>3, <1>4, EdgeAssumption DEF SendTick, clientVars, Frames
<1>7. CASE SendHand
    BY <1>7, <1>1, <1>3, <1>4 DEF SendHand, Client!Accept, sendVars, clientVars
<1>8. CASE SendRecord
    <2> DEFINE s == sent \cup {counter}
    <2>1. /\ sent' = IF Cardinality(s) > SentMax THEN s \ Oldest(s) ELSE s
          /\ counter' = counter /\ pending' = pending /\ io = "sent"
        BY <1>8 DEF SendRecord, clientVars
    <2>2. s \in SUBSET Frames /\ \A g \in s : g <= counter
        BY <2>1, <1>0, <1>1, <1>4 DEF TypeOK
    <2>3. \A f \in s : f \in sent' \/ Cardinality(Later(f)) >= SentMax
        BY <2>1, <2>2, <1>0, Evicted
    <2>4. Oldest(s) \subseteq s
        BY DEF Oldest
    <2> QED
        BY <2>1, <2>2, <2>3, <2>4, <1>1, <1>3, <1>4
<1>9. CASE OnEmbeddingPop
    <2>1. PICK a \in pending :
            /\ \A g \in pending : a <= g
            /\ answered' = a /\ pending' = pending \ {a}
        BY <1>9 DEF OnEmbeddingPop, Client!Answer
    <2>2. sent' = {f \in sent : f > a} /\ counter' = counter /\ io' = io
        BY <1>9, <2>1 DEF OnEmbeddingPop
    <2>3. \A f \in pending' : f > a
        BY <2>1, <1>4 DEF Frames
    <2> QED
        BY <2>1, <2>2, <2>3, <1>1, <1>3, <1>4
<1>10. CASE ClientLose
    BY <1>10, <1>5 DEF ClientLose, Client!Lose, sendVars
<1>11. CASE OnGoal \/ OnGoalInvalidate \/ OnEmbeddingPut \/ EmbeddingAges \/ Camera \/ HeavyGroup
            \/ UNCHANGED vars
    BY <1>11, <1>5
    DEF OnGoal, OnGoalInvalidate, OnEmbeddingPut, EmbeddingAges, Camera, OnImage, ImageAges, HeavyGroup,
        ActionTick, ActionGetRaw, ActionImage, ActionPublish, vars, sendVars, clientVars
<1> QED
    BY <1>6, <1>7, <1>8, <1>9, <1>10, <1>11 DEF Next, IoGoal, IoSend, Replies

\* _sent_frames pairs every reply with its image, unless as many later observations
\* as the dict holds were sent in the meantime (edge_node.py:541).
THEOREM ImagesAreKept == Spec => []PendingKeepsImage
<1>1. Init => ImageInv
    BY EdgeTypeInit DEF Init, ImageInv, PendingKeepsImage, Client!Init
<1>2. ImageInv => PendingKeepsImage
    BY DEF ImageInv
<1> QED
    BY <1>1, <1>2, ImageStep, PTL DEF Spec

=============================================================================
