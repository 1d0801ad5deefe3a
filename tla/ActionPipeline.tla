---------------------------- MODULE ActionPipeline ----------------------------
(***************************************************************************)
(* What happens to the data of one inference, from the operator's goal to   *)
(* the velocity command, on each of the routes the launch files deploy:     *)
(*                                                                          *)
(*   control.py -> edge_node.py -> server.py -> backend -> adapter -> follower *)
(*   control.py -> edge_node.py -> OmniVLAEdgeLocalAdapter   -> follower    *)
(*   phone or browser -> edge_action_{grpc,ws}_node.py       -> follower    *)
(*                                                                          *)
(* Networks are external: what they output is any chunk.  Integers stand    *)
(* for floats: a chunk is in hundredths of its unit (a waypoint spacing, or *)
(* a metre), headings are quarter turns, commands mm/s and mrad/s.          *)
(***************************************************************************)
EXTENDS Integers, Sequences, Functions

CONSTANTS
    Poses,      \* goal positions [x, y, r] in metres, r the distance
    Turns,      \* goal headings in quarter turns
    Texts,      \* instructions
    Jpegs,      \* goal image files
    Decodable,  \* those PIL opens
    None,       \* None, also for an all-zero image
    Steps,      \* waypoints [x, y, h] a network may output
    MaxLen,     \* bound: waypoints of a chunk
    MaxV, MaxW, Select  \* follower: max_v, max_w, waypoint_select

NoText == ""             \* the empty string
Placeholder == "xxxx"    \* what a network is given for no text

ASSUME PipelineAssumption ==
    /\ \A p \in Poses : p.x \in Int /\ p.y \in Int /\ p.r \in Nat
    /\ \A p \in Poses : p.r * p.r = p.x * p.x + p.y * p.y
    /\ Turns \subseteq Int /\ None \notin Turns
    /\ Decodable \subseteq Jpegs /\ Texts \cap {NoText, Placeholder} = {}
    /\ None \notin Jpegs \cup Texts \cup [at : Poses, theta : Int]
    /\ Steps \subseteq [x : Int, y : Int, h : Int] /\ MaxLen \in Nat
    /\ MaxV \in Nat \ {0} /\ MaxW \in Nat \ {0} /\ Select \in Nat

Abs(n) == IF n < 0 THEN -n ELSE n
Sign(n) == IF n < 0 THEN -1 ELSE 1               \* math.copysign(1.0, n)
Quot(a, b) == Sign(a) * (Abs(a) \div b)          \* a / b, towards zero
Wrap(k) == ((k + 1) % 4) - 1                     \* a heading in (-pi, pi]
Cos(h) == CASE h % 4 = 0 -> 1 [] h % 4 = 2 -> -1 [] OTHER -> 0
Sin(h) == CASE h % 4 = 1 -> 1 [] h % 4 = 3 -> -1 [] OTHER -> 0

-----------------------------------------------------------------------------
(* Goals.                                                                   *)

\* control.py: a heading k becomes the half angle k * pi / 4 of a quaternion.
GoalPose(at, k) == [mode |-> "pose", at |-> at, half |-> k, text |-> NoText, jpeg |-> None]
GoalText(t) == [mode |-> "text", at |-> None, half |-> None, text |-> t, jpeg |-> None]
GoalImage(j) == [mode |-> "image", at |-> None, half |-> None, text |-> NoText, jpeg |-> j]

OperatorGoals ==
    {GoalPose(p, k) : p \in Poses, k \in Turns} \cup {GoalText(t) : t \in Texts}
        \cup {GoalImage(j) : j \in Jpegs}

\* Twice the half angle, wrapped by arctan2; an unset quaternion is heading 0.
QuatToYaw(half) == IF half = None THEN 0 ELSE Wrap(half)

\* _ros_goal_to_proto: the heading of a pose is left to a later plan.
RosGoalToProto(g) ==
    [mode |-> g.mode, at |-> g.at, theta |-> 0, text |-> g.text, jpeg |-> g.jpeg]

\* _ros_goal_to_edge_goal: imgmsg_to_cv2 raises for the CompressedImage of an
\* image goal, and the adapter gets no goal.
RosGoalToEdgeGoal(g) ==
    CASE g.mode = "pose" ->
            [mode |-> "pose", lang |-> NoText, image |-> None,
             pose |-> [at |-> g.at, theta |-> QuatToYaw(g.half)]]
      [] g.mode = "text" ->
            [mode |-> "text", lang |-> g.text, image |-> None, pose |-> None]
      [] OTHER -> None

\* None is not a goal.
ASSUME GoalAssumption ==
    \A g \in OperatorGoals : g.mode # "image" => RosGoalToEdgeGoal(g) # None

\* _proto_goal_to_python: one of the three fields is set, or none.
ProtoGoalToPython(p) ==
    CASE p.mode = "pose" -> [pose |-> [at |-> p.at, theta |-> p.theta], lang |-> NoText,
                             image |-> None]
      [] p.mode = "text" -> [pose |-> None, lang |-> p.text, image |-> None]
      [] OTHER -> [pose |-> None, lang |-> NoText,
                   image |-> IF p.jpeg \in Decodable THEN p.jpeg ELSE None]

-----------------------------------------------------------------------------
(* What a policy attends to.                                                *)

GoalModeFor(hasLang, hasImage, hasPose) ==
    CASE hasLang -> "text"
      [] ~hasLang /\ hasImage -> "image"
      [] ~hasLang /\ ~hasImage /\ hasPose -> "pose"
      [] OTHER -> "text"

ModalityIdFor(mode) == CASE mode = "text" -> 7 [] mode = "pose" -> 4 [] mode = "image" -> 6

DetermineModalityId(hasLang, hasPose, hasImage) ==
    CASE ~hasLang /\ hasPose /\ ~hasImage -> 4
      [] ~hasLang /\ hasPose /\ hasImage -> 5
      [] ~hasLang /\ ~hasPose /\ hasImage -> 6
      [] hasLang /\ ~hasPose /\ ~hasImage -> 7
      [] hasLang /\ hasPose /\ ~hasImage -> 8
      [] OTHER -> 7

\* What OmniVLA_edge.forward encodes of a goal: satellite map and all.
GoalTokens == {"pose", "map", "image", "text"}

\* goal_mask_i of OmniVLA_edge: the goal tokens it hides.
GoalMask ==
    [i \in 0..8 |->
        CASE i = 0 -> {"pose", "image", "text"}
          [] i = 1 -> {"map", "image", "text"}
          [] i = 2 -> {"image", "text"}
          [] i = 3 -> {"pose", "text"}
          [] i = 4 -> {"map", "text"}
          [] i = 5 -> {"text"}
          [] i = 6 -> {"pose", "map", "text"}
          [] i = 7 -> {"pose", "map", "image"}
          [] i = 8 -> {"map", "image"}]

\* Mutation: the masks in the order of their names.
AllMasksByName == GoalMask

\* all_masks, whose rows the modality id selects.
AllMasks ==
    [i \in 0..8 |-> GoalMask[<<0, 2, 3, 5, 1, 4, 6, 7, 8>>[i + 1]]]

\* avg_pool_mask: the goal tokens each row weighs in the mean, listed again.
AvgPoolMask ==
    [i \in 0..8 |-> GoalTokens \ GoalMask[<<0, 2, 3, 5, 1, 4, 6, 7, 8>>[i + 1]]]

\* MultiLayerDecoder_mask3: a token counts if the others attend to it, or if it
\* is pooled.
Attended(id) == (GoalTokens \ AllMasks[id]) \cup AvgPoolMask[id]

\* External: what OpenVLA's MMNv1 attends to for a modality id.
OpenVLAAttends(id) ==
    CASE id = 4 -> {"pose"} [] id = 5 -> {"pose", "image"} [] id = 6 -> {"image"}
      [] id = 7 -> {"text"} [] id = 8 -> {"pose", "text"}

Spacings == 10     \* waypoint spacings of 0.1 m in a metre
Reach == 30        \* thres_dist, metres

\* Mutation: far goals are not pulled in.
PoseGoalVectorFar(p) ==
    [x |-> Spacings * p.at.x, y |-> Spacings * p.at.y, h |-> p.theta]

\* _pose_goal_vector: clamped to Reach on the same bearing, then in spacings.
PoseGoalVector(p) ==
    LET clamp(n) == IF p.at.r > Reach THEN Quot(Spacings * (n * Reach), p.at.r) ELSE Spacings * n
    IN  [x |-> clamp(p.at.x), y |-> clamp(p.at.y), h |-> p.theta]

\* _goal_pose_cos_sin of the OpenVLA backends, for pose_dim 4.
GoalPoseCosSin(p) ==
    LET scale == IF p.at.r > Reach THEN [of |-> Reach, by |-> p.at.r] ELSE [of |-> 1, by |-> 1]
    IN  [x |-> Quot(Spacings * (p.at.x * scale.of), scale.by),
         y |-> Quot(Spacings * (p.at.y * scale.of), scale.by), h |-> p.theta]

Or(value, default) == IF value \in {None, NoText} THEN default ELSE value

\* infer_chunk: what the OmniVLA-edge network is given of the goal.
EngineGoal(mode, lang, pose, image) ==
    [attends |-> Attended(ModalityIdFor(mode)),
     pose |-> IF pose # None THEN PoseGoalVector(pose) ELSE None,
     image |-> IF mode = "image" THEN image ELSE None,
     text |-> Or(IF mode = "text" THEN lang ELSE NoText, Placeholder)]

\* OmniVLAEdgeBackend.infer
EdgeBackendGoal(g) ==
    EngineGoal(GoalModeFor(g.lang # NoText, g.image # None, g.pose # None), g.lang, g.pose, g.image)

\* _build_conversation
Instruction(text) == IF text \in {NoText, Placeholder} THEN "No language instruction" ELSE text

\* OpenVLAOFTBackendBase.infer with build_inference_batch.
OpenVLAGoal(g) ==
    [attends |-> OpenVLAAttends(
                    DetermineModalityId(g.lang # NoText, g.pose # None, g.image # None)),
     pose |-> IF g.pose # None THEN GoalPoseCosSin(g.pose) ELSE None,
     image |-> g.image,
     text |-> Instruction(g.lang)]

\* _build_batch: the prompt's instruction and subgoal; state and plan are blank.
BuildBatch(instruction) ==
    [attends |-> {"text"}, pose |-> None, image |-> None, text |-> instruction]

\* MovlaBackend.infer is language-only.
MovlaGoal(g) == BuildBatch(Or(g.lang, "go straight ahead"))

-----------------------------------------------------------------------------
(* Chunks and paths.                                                        *)

Chunks == UNION {[1..n -> Steps] : n \in 1..MaxLen}

\* The end of OmniVLA_edge.forward: x and y are increments, headings are not.
Cumsum(raw) ==
    LET sum[i \in 0..Len(raw)] ==
            IF i = 0 THEN [x |-> 0, y |-> 0]
            ELSE [x |-> sum[i - 1].x + raw[i].x, y |-> sum[i - 1].y + raw[i].y]
    IN  [i \in DOMAIN raw |-> [x |-> sum[i].x, y |-> sum[i].y, h |-> raw[i].h]]

\* _delta_to_pose_np: steps in the frame of the pose before them, accumulated.
DeltaToPose(raw) ==
    LET pose[i \in 1..Len(raw)] ==
            IF i = 1 THEN raw[1]
            ELSE [x |-> pose[i-1].x + Cos(pose[i-1].h) * raw[i].x - Sin(pose[i-1].h) * raw[i].y,
                  y |-> pose[i-1].y + Sin(pose[i-1].h) * raw[i].x + Cos(pose[i-1].h) * raw[i].y,
                  h |-> pose[i-1].h + raw[i].h]
    IN  [i \in DOMAIN raw |-> pose[i]]

\* Multiplied by metric_waypoint_spacing.
ToMetres(chunk) ==
    [i \in DOMAIN chunk |-> [x |-> Quot(chunk[i].x, Spacings), y |-> Quot(chunk[i].y, Spacings),
                             h |-> chunk[i].h]]

\* trajectory_to_path: the heading goes into (w, z) as (cos, sin).
TrajectoryToPath(chunk, scaled) ==
    LET wp == IF scaled THEN chunk ELSE ToMetres(chunk)
    IN  [i \in DOMAIN chunk |-> [x |-> wp[i].x, y |-> wp[i].y,
                                 cos |-> Cos(wp[i].h), sin |-> Sin(wp[i].h)]]

\* OmniVLABackend._project_actions
ProjectActions(raw) == ToMetres(raw)

\* OmniVLAEdgeBackend.infer scales the engine's chunk.
EdgeBackendChunk(raw) == ToMetres(Cumsum(raw))

\* _chunk_to_embedding: movla's waypoints are metres.
ChunkToEmbedding(raw) == raw

\* Mutation: the path-only adapter scales what the cloud has scaled.
OmniVLAPathScales(chunk) == TrajectoryToPath(chunk, FALSE)

\* OmniVLAEdgeAdapter, AsyncVLAEdgeAdapter, OmniVLAEdgeLocalAdapter: predict_path
OmniVLAPath(chunk) == TrajectoryToPath(chunk, TRUE)
AsyncVLAPath(raw) == TrajectoryToPath(DeltaToPose(raw), FALSE)
LocalPath(raw) == TrajectoryToPath(Cumsum(raw), FALSE)

\* StubAdapter: straight ahead, 0.1 m a step.
StubPath == [i \in 1..10 |-> [x |-> 10 * i, y |-> 0, cos |-> 1, sin |-> 0]]

\* Action chunks of the phone: tokens and dim as announced, and the values.
PhoneChunks ==
    {[tokens |-> n, dim |-> d, values |-> c, scaled |-> s, typed |-> t] :
        n \in 0..MaxLen, d \in {2, 4}, c \in Chunks, s \in BOOLEAN, t \in BOOLEAN}

WellFormed(m) == m.tokens >= 1 /\ m.dim >= 4 /\ 4 * Len(m.values) = m.tokens * m.dim

\* decode_action_chunk; a ValueError makes an error of the ack, and no path.
DecodeActionChunk(m) ==
    IF WellFormed(m) THEN TrajectoryToPath(m.values, m.scaled) ELSE None

\* decode_chunk_msg: JSON may lack the type or a field, too.
DecodeChunkMsg(m) ==
    IF m.typed /\ WellFormed(m) THEN TrajectoryToPath(m.values, m.scaled) ELSE None

-----------------------------------------------------------------------------
(* WaypointPD, with dt = 1/3 s.                                             *)

LinearClip == 500
AngularClip == 1000
Clip(lo, n, hi) == IF n < lo THEN lo ELSE IF n > hi THEN hi ELSE n

\* The clipped law, with dy/dx for atan(dy/dx), from which it differs by less
\* than 4 % where AngularClip does not cut it off.
PD(wp) ==
    LET linear == 30 * wp.x
        angular == CASE wp.x = 0 /\ wp.y = 0 -> IF wp.sin = 0 /\ wp.cos > 0 THEN 0
                                                ELSE AngularClip * Sign(wp.sin)
                     [] wp.x = 0 /\ wp.y # 0 -> AngularClip * Sign(wp.y)
                     [] wp.x # 0 -> Sign(wp.x) * Quot(3000 * wp.y, Abs(wp.x))
    IN  [v |-> Clip(0, linear, LinearClip), w |-> Clip(-AngularClip, angular, AngularClip)]

\* Mutation: each component is clamped by itself.
LimitEach(c) == [v |-> Clip(-MaxV, c.v, MaxV), w |-> Clip(-MaxW, c.w, MaxW)]

\* Mutation: the forward limit is not looked at when the turn fits.
LimitTurnFirst(c) ==
    IF Abs(c.w) <= MaxW THEN c
    ELSE [v |-> Sign(c.v) * ((MaxW * Abs(c.v)) \div Abs(c.w)), w |-> Sign(c.w) * MaxW]

\* _limit: to MaxV and MaxW along the same turn radius.
Limit(c) ==
    LET byTurn == [v |-> Sign(c.v) * ((MaxW * Abs(c.v)) \div Abs(c.w)), w |-> Sign(c.w) * MaxW]
        bySpeed == [v |-> Sign(c.v) * MaxV, w |-> Sign(c.w) * ((MaxV * Abs(c.w)) \div Abs(c.v))]
    IN  CASE Abs(c.v) <= MaxV /\ Abs(c.w) <= MaxW -> c
          [] Abs(c.v) <= MaxV /\ Abs(c.w) > MaxW -> byTurn
          [] Abs(c.v) > MaxV /\ Abs(c.w) <= 1 -> [v |-> Sign(c.v) * MaxV, w |-> 0]
          [] Abs(c.v) > MaxV /\ Abs(c.w) > 1 /\ Abs(c.v) * MaxW >= MaxV * Abs(c.w) -> bySpeed
          [] OTHER -> byTurn

\* compute() aims at the waypoint Select steps ahead, or at the last.
Target(path) == path[IF Select >= Len(path) THEN Len(path) ELSE Select + 1]
StopCmd == [v |-> 0, w |-> 0]
Compute(path) == IF path = <<>> THEN StopCmd ELSE Limit(PD(Target(path)))

-----------------------------------------------------------------------------
(* One inference.                                                           *)

Clouds == {"asyncvla", "omnivla", "omnivla_edge", "movla", "stub"}
Routes == Clouds \cup {"local", "grpc", "ws"}

VARIABLES
    route,   \* the deployment
    asked,   \* what came in: the operator's goal, or the phone's chunk
    stage,   \* what was made of it last
    goal,    \* the goal in the form of that stage
    held,    \* the goal the local adapter has (its _goal)
    input,   \* the goal as the network is given it
    raw,     \* what the network put out
    chunk,   \* the embedding sent to the edge
    path, cmd

vars == <<route, asked, stage, goal, held, input, raw, chunk, path, cmd>>

Stages == {"ros", "held", "proto", "python", "input", "chunk", "path", "refused", "cmd"}

\* What goals before this one have left the local adapter with.
FormerGoals == {RosGoalToEdgeGoal(g) : g \in OperatorGoals}

Init ==
    /\ route \in Routes
    /\ asked \in IF route \in {"grpc", "ws"} THEN PhoneChunks ELSE OperatorGoals
    /\ stage = "ros" /\ goal = asked
    /\ held \in {None} \cup IF route = "local" THEN FormerGoals ELSE {}
    /\ input = None /\ raw = None /\ chunk = None /\ path = <<>> /\ cmd = StopCmd

\* _send_observation_tick: on to the cloud.
EdgeNode ==
    /\ stage = "ros" /\ route \in Clouds
    /\ goal' = RosGoalToProto(goal)
    /\ stage' = "proto"
    /\ UNCHANGED <<route, asked, held, input, raw, chunk, path, cmd>>

\* _on_goal: set_goal of the local adapter, which keeps the goal it has when the
\* new one does not convert.
OnGoal ==
    /\ stage = "ros" /\ route = "local"
    /\ goal' = RosGoalToEdgeGoal(goal)
    /\ held' = IF goal' = None THEN held ELSE goal'
    /\ stage' = "held"
    /\ UNCHANGED <<route, asked, input, raw, chunk, path, cmd>>

\* _action_tick_local with an image, and predict_path up to the engine's network:
\* on the goal the adapter has, or the empty path if it has none.
ActionTickLocal ==
    /\ stage = "held"
    /\ \/ held = None /\ stage' = "path" /\ UNCHANGED input
       \/ /\ held # None
          /\ input' = EngineGoal(held.mode, held.lang, held.pose, held.image)
          /\ stage' = "input"
    /\ UNCHANGED <<route, asked, goal, held, raw, chunk, path, cmd>>

Server ==
    /\ stage = "proto"
    /\ goal' = ProtoGoalToPython(goal)
    /\ stage' = "python"
    /\ UNCHANGED <<route, asked, held, input, raw, chunk, path, cmd>>

\* The dummy backend of the stub ignores the goal.
Backend ==
    /\ stage = "python"
    /\ input' = CASE route = "omnivla_edge" -> EdgeBackendGoal(goal)
                  [] route \in {"asyncvla", "omnivla"} -> OpenVLAGoal(goal)
                  [] route = "movla" -> MovlaGoal(goal)
                  [] route = "stub" -> None
    /\ stage' = "input"
    /\ UNCHANGED <<route, asked, goal, held, raw, chunk, path, cmd>>

\* asyncvla's network ends on the edge: raw are the deltas it puts out there.
Network ==
    /\ stage = "input"
    /\ raw' \in Chunks
    /\ chunk' = CASE route = "omnivla" -> ProjectActions(raw')
                  [] route = "omnivla_edge" -> EdgeBackendChunk(raw')
                  [] route = "movla" -> ChunkToEmbedding(raw')
                  [] OTHER -> raw'
    /\ stage' = "chunk"
    /\ UNCHANGED <<route, asked, goal, held, input, path, cmd>>

Adapter ==
    /\ stage = "chunk"
    /\ path' = CASE route \in {"omnivla", "omnivla_edge", "movla"} -> OmniVLAPath(chunk)
                 [] route = "asyncvla" -> AsyncVLAPath(chunk)
                 [] route = "local" -> LocalPath(chunk)
                 [] route = "stub" -> StubPath
    /\ stage' = "path"
    /\ UNCHANGED <<route, asked, goal, held, input, raw, chunk, cmd>>

\* edge_action_grpc_node.py and edge_action_ws_node.py
Bridge ==
    /\ stage = "ros" /\ route \in {"grpc", "ws"}
    /\ LET decoded == IF route = "grpc" THEN DecodeActionChunk(asked) ELSE DecodeChunkMsg(asked)
       IN  IF decoded = None
           THEN stage' = "refused" /\ UNCHANGED path
           ELSE stage' = "path" /\ path' = decoded
    /\ raw' = asked.values
    /\ UNCHANGED <<route, asked, goal, held, input, chunk, cmd>>

Follower ==
    /\ stage = "path"
    /\ cmd' = Compute(path)
    /\ stage' = "cmd"
    /\ UNCHANGED <<route, asked, goal, held, input, raw, chunk, path>>

Next ==
    \/ EdgeNode \/ OnGoal \/ ActionTickLocal \/ Server \/ Backend
    \/ Network \/ Adapter \/ Bridge \/ Follower

Spec == Init /\ [][Next]_vars

-----------------------------------------------------------------------------
(* Properties.                                                              *)

\* Goals a route is able to follow.  movla documents that it is language-only
\* (movla.py:162), and an image has to be readable.  On the local route no image
\* is: imgmsg_to_cv2 raises, set_goal is skipped (edge_node.py:459-462, 471-473)
\* and the adapter infers on the goal it had, although omnivla_edge_local.py:15-16
\* promises images.
Followed ==
    /\ route \notin {"stub", "grpc", "ws"}
    /\ route = "movla" => asked.mode = "text"
    /\ route = "local" => asked.mode # "image"
    /\ asked.mode = "image" => asked.jpeg \in Decodable

Inferred == stage \notin {"ros", "held", "proto", "python"}

\* A goal the route can follow always reaches the network: through its four
\* encodings, the choice of a modality and the rows of the mask, and whatever
\* goal came before it, the network attends to the token of the goal's own
\* modality and no other, and that token is made of the goal.
AttendsGoal ==
    (Inferred /\ Followed) =>
        /\ input.attends = {asked.mode}
        /\ asked.mode = "text" => input.text = asked.text
        /\ asked.mode = "image" => input.image = asked.jpeg

\* Two lengths are the same where one is given in whole units: exact whenever
\* the other is a multiple of the unit.
Rounds(m, n, unit) == Abs(m - n) < unit

\* A pose goal reaches every network in waypoint spacings: as it is, or at Reach
\* on the operator's bearing; with the operator's heading where the robot infers
\* itself, else with heading 0.
PoseOnBearing ==
    (Inferred /\ Followed /\ asked.mode = "pose") =>
        LET at == asked.at
        IN  /\ IF at.r > Reach
               THEN /\ Rounds(input.pose.x * at.r, Spacings * (at.x * Reach), at.r)
                    /\ Rounds(input.pose.y * at.r, Spacings * (at.y * Reach), at.r)
               ELSE input.pose.x = Spacings * at.x /\ input.pose.y = Spacings * at.y
            /\ input.pose.h = IF route = "local" THEN Wrap(asked.half) ELSE 0

\* The sum of the first i values of f.
Sum(f, i) == FoldFunctionOnSet(+, 0, f, 1..i)

\* What the first i steps of raw add up to, each in the frame of those before.
Turned(i) == Sum([j \in DOMAIN raw |-> raw[j].h], i)
Composed(i) ==
    LET dx == [j \in DOMAIN raw |->
                Cos(Turned(j - 1)) * raw[j].x - Sin(Turned(j - 1)) * raw[j].y]
        dy == [j \in DOMAIN raw |->
                Sin(Turned(j - 1)) * raw[j].x + Cos(Turned(j - 1)) * raw[j].y]
    IN  [x |-> Sum(dx, i), y |-> Sum(dy, i)]
Summed(i) ==
    [x |-> Sum([j \in DOMAIN raw |-> raw[j].x], i),
     y |-> Sum([j \in DOMAIN raw |-> raw[j].y], i)]

\* Where waypoint i of the network's output is, in the unit it puts out.
Meant(i) ==
    CASE route = "asyncvla" -> Composed(i)
      [] route \in {"omnivla_edge", "local"} -> Summed(i)
      [] OTHER -> [x |-> raw[i].x, y |-> raw[i].y]

InMetres == route = "movla" \/ (route \in {"grpc", "ws"} /\ asked.scaled)

\* Whichever side accumulates the steps and whichever scales them, the published
\* path has every waypoint where the network meant it, in metres: each is done
\* exactly once between the server and the edge.
PathInMetres ==
    (stage = "path" /\ path # <<>> /\ route # "stub") =>
        /\ Len(path) = Len(raw)
        /\ \A i \in DOMAIN path :
            LET unit == IF InMetres THEN 1 ELSE Spacings
            IN  /\ Rounds(path[i].x * unit, Meant(i).x, unit)
                /\ Rounds(path[i].y * unit, Meant(i).y, unit)

\* No command exceeds the robot's limits or drives it backwards, whatever path
\* the network puts out.
CommandLimited == cmd.v \in 0..MaxV /\ cmd.w \in -MaxW..MaxW

\* "Preserving the linear/angular ratio" (waypoint_pd.py:109): the limiter leaves
\* the robot on the arc the law has chosen, up to rounding.
ArcKept ==
    (stage = "cmd" /\ path # <<>>) =>
        LET c == PD(Target(path))
        IN  Abs(cmd.v * c.w - cmd.w * c.v) <= IF Abs(c.v) > Abs(c.w) THEN Abs(c.v) ELSE Abs(c.w)

=============================================================================
