------------------------------- MODULE VlaServer -------------------------------
(***************************************************************************)
(* The inference server: raspicat_vla_remote/server.py with one of the       *)
(* backends of server_main.py.  Every StreamInfer call of a robot occupies a *)
(* thread of a pool for as long as the stream lives, and all the threads     *)
(* share the one backend.  Two backends keep state from call to call without *)
(* a lock: OmniVLA-edge a ring of frames and a cached text feature, MoVLA a  *)
(* bounded deque of frames.  The statements of their infer() that touch that *)
(* state are steps of their own.                                             *)
(*                                                                          *)
(* One robot is served.  Its reconnects open the streams one after another,  *)
(* each from a port of its own, so a stream is a peer; the server may still  *)
(* work for one when the next is open.  A robot that vanishes from the       *)
(* network leaves its stream to gRPC's keepalive.  grpc is external.         *)
(***************************************************************************)
EXTENDS Integers, Sequences, FiniteSets

CONSTANTS
    Workers,      \* max_workers
    Ctx,          \* frames of context: context_size, context_frames
    Texts,        \* goal texts, "" for a pose or an image goal
    MaxStreams,   \* bound: streams the robot opens
    MaxFrames,    \* bound: observations the robot sends
    None          \* None

ASSUME ServerAssumption ==
    /\ Workers \in Nat \ {0}
    /\ Ctx \in Nat /\ Workers <= Ctx + 1
    /\ MaxStreams \in Nat /\ MaxFrames \in Nat
    /\ None \notin Texts

Backends == {"dummy", "openvla", "omnivla_edge", "movla"}
Streams == 1..MaxStreams
Frames == [stream : Streams, id : 1..MaxFrames]
Observations == [frame : Frames, text : Texts]

VARIABLES
    backend,    \* what _build_backend made
    client,     \* external: "off", "open", "closed" or "vanished"
    sent,       \* external: frame_id of the last observation sent
    waiting,    \* external: the robot, on its open stream, waits for a reply
    request,    \* external: an observation on its way, or None
    backlog,    \* external: streams in the executor's queue
    pc,         \* the handler of a stream
    obs,        \* the observation it is serving
    past,       \* the peers with an entry in _past_image_per_client
    ring,       \* engine._obs_ring, or MoVLA's _past; oldest first
    textKey,    \* engine._text_cache_key
    textFeat,   \* engine._text_cache_feat: the text it was made of
    window,     \* the frames a call gives the network
    feature,    \* the text feature a call gives the network
    clash,      \* history: calls that overlapped another one
    overlapped  \* history: some calls have overlapped

robotVars == <<client, sent, waiting, request>>
cacheVars == <<textKey, textFeat>>
callVars == <<window, feature>>
history == <<clash, overlapped>>
vars == <<backend, robotVars, backlog, pc, obs, past, ring, cacheVars, callVars, history>>

Inferring ==
    {"push", "check", "over", "stack", "text", "hit", "encode", "keyed", "context",
     "forward", "append"}

At(steps) == {s \in Streams : pc[s] \in steps}
Busy == At(Inferring \cup {"recv"})     \* the threads of the pool in use

TypeOK ==
    /\ backend \in Backends
    /\ client \in [Streams -> {"off", "open", "closed", "vanished"}]
    /\ sent \in 0..MaxFrames
    /\ waiting \in BOOLEAN
    /\ request \in [Streams -> Observations \cup {None}]
    /\ backlog \in Seq(Streams)
    /\ pc \in [Streams -> Inferring \cup {"off", "queued", "recv", "done"}]
    /\ obs \in [Streams -> Observations \cup {None}]
    /\ \A s \in Streams : pc[s] \in Inferring => obs[s] \in Observations
    /\ past \in SUBSET Streams
    /\ ring \in Seq(Frames)
    /\ textKey \in Texts \cup {None}
    /\ textFeat \in Texts \cup {None}
    /\ window \in [Streams -> Seq(Frames)]
    /\ feature \in [Streams -> Texts \cup {None}]
    /\ clash \in SUBSET Streams
    /\ overlapped \in BOOLEAN

Init ==
    /\ backend \in Backends
    /\ client = [s \in Streams |-> "off"]
    /\ sent = 0
    /\ waiting = FALSE
    /\ request = [s \in Streams |-> None]
    /\ backlog = <<>>
    /\ pc = [s \in Streams |-> "off"]
    /\ obs = [s \in Streams |-> None]
    /\ past = {}
    /\ ring = <<>>
    /\ textKey = None /\ textFeat = None
    /\ window = [s \in Streams |-> <<>>]
    /\ feature = [s \in Streams |-> None]
    /\ clash = {} /\ overlapped = FALSE

-----------------------------------------------------------------------------
(* The robot and the network: external.                                     *)

\* A stream is opened once those before it are given up.
Connect(s) ==
    /\ client[s] = "off"
    /\ \A t \in 1..(s - 1) : client[t] \in {"closed", "vanished"}
    /\ client' = [client EXCEPT ![s] = "open"]
    /\ pc' = [pc EXCEPT ![s] = "queued"]
    /\ backlog' = Append(backlog, s)
    /\ UNCHANGED <<backend, sent, waiting, request, obs, past, ring, cacheVars, callVars, history>>

\* max_inflight of the robot's client is 1.
Send(s) ==
    /\ client[s] = "open" /\ ~waiting /\ sent < MaxFrames
    /\ \E t \in Texts :
        request' = [request EXCEPT ![s] = [frame |-> [stream |-> s, id |-> sent + 1], text |-> t]]
    /\ sent' = sent + 1
    /\ waiting' = TRUE
    /\ UNCHANGED <<backend, client, backlog, pc, obs, past, ring, cacheVars, callVars, history>>

\* A call that is over has no requests: grpc drops what was on its way.
Leave(s, how) ==
    /\ client[s] = "open"
    /\ client' = [client EXCEPT ![s] = how]
    /\ waiting' = FALSE
    /\ request' = IF how = "closed" THEN [request EXCEPT ![s] = None] ELSE request
    /\ UNCHANGED <<backend, sent, backlog, pc, obs, past, ring, cacheVars, callVars, history>>

\* keepalive finds out, two hours later by default.
PeerLost(s) ==
    /\ client[s] = "vanished"
    /\ client' = [client EXCEPT ![s] = "closed"]
    /\ request' = [request EXCEPT ![s] = None]
    /\ UNCHANGED <<backend, sent, waiting, backlog, pc, obs, past, ring, cacheVars, callVars, history>>

-----------------------------------------------------------------------------
(* StreamInfer.                                                             *)

Goto(s, step) == pc' = [pc EXCEPT ![s] = step]

\* The pool takes the oldest call when a thread is free.
Start(s) ==
    /\ pc[s] = "queued" /\ backlog # <<>> /\ Head(backlog) = s
    /\ Cardinality(Busy) < Workers
    /\ backlog' = Tail(backlog)
    /\ Goto(s, "recv")
    /\ UNCHANGED <<backend, robotVars, obs, past, ring, cacheVars, callVars, history>>

Others(s) == At(Inferring) \ {s}

\* infer() begins: which statement first touches shared state.
FirstStep ==
    CASE backend = "omnivla_edge" -> "push"
      [] backend = "movla" -> "context"
      [] backend \in {"openvla", "dummy"} -> "forward"

\* Mutation: the handler does not wait for an observation.
RecvAny(s) ==
    /\ pc[s] = "recv" /\ client[s] # "closed"
    /\ obs' = [obs EXCEPT ![s] = request[s]]
    /\ request' = [request EXCEPT ![s] = None]
    /\ past' = past \cup {s}
    /\ Goto(s, FirstStep)
    /\ clash' = IF Others(s) = {} THEN clash \ {s} ELSE clash \cup {s} \cup Others(s)
    /\ overlapped' = (overlapped \/ Others(s) # {})
    /\ UNCHANGED <<backend, client, sent, waiting, backlog, ring, cacheVars, callVars>>

\* The next observation, the past image, which no backend reads, and on into
\* infer().
Recv(s) ==
    /\ pc[s] = "recv" /\ client[s] # "closed" /\ request[s] # None
    /\ obs' = [obs EXCEPT ![s] = request[s]]
    /\ request' = [request EXCEPT ![s] = None]
    /\ past' = past \cup {s}
    /\ Goto(s, FirstStep)
    /\ clash' = IF Others(s) = {} THEN clash \ {s} ELSE clash \cup {s} \cup Others(s)
    /\ overlapped' = (overlapped \/ Others(s) # {})
    /\ UNCHANGED <<backend, client, sent, waiting, backlog, ring, cacheVars, callVars>>

\* Mutation: the handler does not see that the call is over.
EndIgnored(s) == FALSE /\ UNCHANGED vars

\* The iterator of a call that is over raises.
End(s) ==
    /\ pc[s] = "recv" /\ client[s] = "closed"
    /\ Goto(s, "done")
    /\ UNCHANGED <<backend, robotVars, backlog, obs, past, ring, cacheVars, callVars, history>>

-----------------------------------------------------------------------------
(* OmniVLAEdgeEngine.infer_chunk.                                           *)

\* Mutation: the newest frame goes in front.
PushFront(s) ==
    /\ pc[s] = "push"
    /\ ring' = <<obs[s].frame>> \o ring
    /\ Goto(s, "check")
    /\ UNCHANGED <<backend, robotVars, backlog, obs, past, cacheVars, callVars, history>>

\* _push_frame: append, look at the length, pop.
Push(s) ==
    /\ pc[s] = "push"
    /\ ring' = Append(ring, obs[s].frame)
    /\ Goto(s, "check")
    /\ UNCHANGED <<backend, robotVars, backlog, obs, past, cacheVars, callVars, history>>

\* Mutation: the length is looked at one frame too late.
CheckLate(s) ==
    /\ pc[s] = "check"
    /\ Goto(s, IF Len(ring) > Ctx + 2 THEN "over" ELSE "stack")
    /\ UNCHANGED <<backend, robotVars, backlog, obs, past, ring, cacheVars, callVars, history>>

Check(s) ==
    /\ pc[s] = "check"
    /\ Goto(s, IF Len(ring) > Ctx + 1 THEN "over" ELSE "stack")
    /\ UNCHANGED <<backend, robotVars, backlog, obs, past, ring, cacheVars, callVars, history>>

\* pop(0)
Pop(s) ==
    /\ pc[s] = "over"
    /\ ring' = Tail(ring)
    /\ Goto(s, "stack")
    /\ UNCHANGED <<backend, robotVars, backlog, obs, past, cacheVars, callVars, history>>

\* _stack_frames: the last Ctx + 1 frames, the oldest repeated in front.
StackFrames(frames) ==
    [i \in 1..(Ctx + 1) |->
        IF Len(frames) - (Ctx + 1) + i >= 1 THEN frames[Len(frames) - (Ctx + 1) + i]
        ELSE frames[1]]

Stack(s) ==
    /\ pc[s] = "stack"
    /\ window' = [window EXCEPT ![s] = StackFrames(ring)]
    /\ Goto(s, "text")
    /\ UNCHANGED <<backend, robotVars, backlog, obs, past, ring, cacheVars, feature, history>>

\* _text_features: a hit reads the feature in a statement of its own.
Lookup(s) ==
    /\ pc[s] = "text"
    /\ Goto(s, IF obs[s].text = textKey /\ textFeat # None THEN "hit" ELSE "encode")
    /\ UNCHANGED <<backend, robotVars, backlog, obs, past, ring, cacheVars, callVars, history>>

Hit(s) ==
    /\ pc[s] = "hit"
    /\ feature' = [feature EXCEPT ![s] = textFeat]
    /\ Goto(s, "forward")
    /\ UNCHANGED <<backend, robotVars, backlog, obs, past, ring, cacheVars, window, history>>

\* A miss encodes the text and writes the key, then the feature.
Encode(s) ==
    /\ pc[s] = "encode"
    /\ textKey' = obs[s].text
    /\ Goto(s, "keyed")
    /\ UNCHANGED <<backend, robotVars, backlog, obs, past, ring, textFeat, callVars, history>>

\* Mutation: a feature once cached is kept.
StoreOnce(s) ==
    /\ pc[s] = "keyed"
    /\ textFeat' = IF textFeat = None THEN obs[s].text ELSE textFeat
    /\ feature' = [feature EXCEPT ![s] = obs[s].text]
    /\ Goto(s, "forward")
    /\ UNCHANGED <<backend, robotVars, backlog, obs, past, ring, textKey, window, history>>

Store(s) ==
    /\ pc[s] = "keyed"
    /\ textFeat' = obs[s].text
    /\ feature' = [feature EXCEPT ![s] = obs[s].text]
    /\ Goto(s, "forward")
    /\ UNCHANGED <<backend, robotVars, backlog, obs, past, ring, textKey, window, history>>

-----------------------------------------------------------------------------
(* MovlaBackend.infer, and the end of every infer().                        *)

\* _context_images: the past frames padded in front, and the current one.
Context(s) ==
    /\ pc[s] = "context"
    /\ window' = [window EXCEPT ![s] = StackFrames(Append(ring, obs[s].frame))]
    /\ feature' = [feature EXCEPT ![s] = obs[s].text]
    /\ Goto(s, "forward")
    /\ UNCHANGED <<backend, robotVars, backlog, obs, past, ring, cacheVars, history>>

\* yield: grpc sends the reply, or ends the generator of a call that is over.
\* The locals of the call are gone.
Return(s) ==
    /\ waiting' = (waiting /\ client[s] # "open")
    /\ Goto(s, IF client[s] = "closed" THEN "done" ELSE "recv")
    /\ obs' = [obs EXCEPT ![s] = None]
    /\ window' = [window EXCEPT ![s] = <<>>]
    /\ feature' = [feature EXCEPT ![s] = None]
    /\ clash' = clash \ {s}

\* The network; only MoVLA has more to do.
Forward(s) ==
    /\ pc[s] = "forward"
    /\ \/ backend # "movla" /\ Return(s)
       \/ /\ backend = "movla" /\ Goto(s, "append")
          /\ UNCHANGED <<waiting, obs, callVars, clash>>
    /\ UNCHANGED <<backend, client, sent, request, backlog, past, ring, cacheVars, overlapped>>

\* An exception of the network ends the stream with INTERNAL.
Fail(s) ==
    /\ pc[s] = "forward"
    /\ client' = [client EXCEPT ![s] = IF @ = "open" THEN "closed" ELSE @]
    /\ waiting' = (waiting /\ client[s] # "open")
    /\ Goto(s, "done")
    /\ obs' = [obs EXCEPT ![s] = None]
    /\ window' = [window EXCEPT ![s] = <<>>]
    /\ feature' = [feature EXCEPT ![s] = None]
    /\ clash' = clash \ {s}
    /\ UNCHANGED <<backend, sent, request, backlog, past, ring, cacheVars, overlapped>>

\* deque(maxlen = Ctx).append
Keep(s) ==
    /\ pc[s] = "append"
    /\ ring' = LET grown == Append(ring, obs[s].frame)
               IN  IF Len(grown) > Ctx THEN Tail(grown) ELSE grown
    /\ Return(s)
    /\ UNCHANGED <<backend, client, sent, request, backlog, past, cacheVars, overlapped>>

-----------------------------------------------------------------------------

Serve(s) ==
    \/ Start(s) \/ Recv(s) \/ End(s)
    \/ Push(s) \/ Check(s) \/ Pop(s) \/ Stack(s)
    \/ Lookup(s) \/ Hit(s) \/ Encode(s) \/ Store(s)
    \/ Context(s) \/ Forward(s) \/ Fail(s) \/ Keep(s)

Robot(s) == Connect(s) \/ Send(s) \/ Leave(s, "closed") \/ Leave(s, "vanished")

Next == \E s \in Streams : Serve(s) \/ Robot(s) \/ PeerLost(s)

Spec == Init /\ [][Next]_vars

\* Every thread of the pool goes on, and keepalive works; a robot need not act.
FairSpec == Spec /\ \A s \in Streams : WF_vars(Serve(s) \/ PeerLost(s))

-----------------------------------------------------------------------------
(* Properties.                                                              *)

Trimming == At({"check", "over"})

\* Appending, looking at the length and popping are three steps of several
\* threads, and still the ring is over its size by no more than the frames of
\* the calls that are at it, and no call finds it empty, where _stack_frames
\* would raise (omnivla_edge_engine.py:144).
RingBounded ==
    /\ Len(ring) <= Ctx + 1 + Cardinality(Trimming)
    /\ \A s \in Streams : pc[s] \in {"check", "over", "stack"} => ring # <<>>

\* "Serialise calls per engine" (omnivla_edge_engine.py:159) is not enforced, but
\* suffices: a call that overlapped no other infers on its own frame, and until
\* calls have overlapped every call infers on the feature of its own text.
OwnUnlessOverlap ==
    \A s \in Streams : (pc[s] = "forward" /\ backend \in {"omnivla_edge", "movla"}) =>
        /\ s \notin clash => window[s][Ctx + 1] = obs[s].frame
        /\ ~overlapped => feature[s] = obs[s].text

\* "Oldest first" (omnivla_edge_engine.py:139): whatever overlaps, the network
\* never sees two frames of one stream in the wrong order.
WindowInOrder ==
    \A s \in Streams : \A i, j \in DOMAIN window[s] :
        (i < j /\ window[s][i].stream = window[s][j].stream) => window[s][i].id <= window[s][j].id

\* Whatever streams vanished holding threads of the pool, the robot that waits
\* for a reply gets it, or sees its stream end.
ObservationAnswered == waiting ~> ~waiting

=============================================================================
