------------------------------ MODULE VLAClient ------------------------------
(***************************************************************************)
(* raspicat_vla_edge/grpc_client.py: the threaded bidirectional gRPC client *)
(* of the edge node.  Three kinds of thread share one queue, one stop event *)
(* and the attribute self._inflight:                                        *)
(*                                                                          *)
(*   sender    the edge node's send tick, inside send()                     *)
(*   run       the VLAClient thread: connect, iterate the replies, back off *)
(*   gen[s]    grpc's consumer thread of stream s, inside next() of the     *)
(*             _request_iter() generator that was passed to StreamInfer     *)
(*                                                                          *)
(* A generator belongs to one stream, but reads self._inflight anew on      *)
(* every poll, and grpc only notices that its call is dead after the        *)
(* generator yields: until then it lives on beside its successors.          *)
(* The call itself (grpc core, the network, the server) is external.        *)
(***************************************************************************)
EXTENDS Integers, Sequences, FiniteSets

CONSTANTS
    MaxInflight,  \* max_inflight: permits of a stream
    QueueMax,     \* queue_max: capacity of the observation queue
    LatestOnly,   \* latest_only: send() coalesces the queue
    MaxFrames,    \* bound: observations offered to send()
    MaxStreams    \* bound: streams opened, so MaxStreams - 1 may fail

ASSUME ClientAssumption ==
    /\ MaxInflight \in Nat \ {0}
    /\ QueueMax \in Nat \ {0}
    /\ LatestOnly \in BOOLEAN
    /\ MaxFrames \in Nat
    /\ MaxStreams \in Nat \ {0}

Frames == 1..MaxFrames
Sentinel == 0                  \* self._sentinel, put in the queue by stop()
Streams == 1..MaxStreams
Semaphores == 0..MaxStreams    \* 0 is the one __init__ made, s that of stream s

VARIABLES
    queue,     \* self._queue
    stopEvent, \* self._stop_event
    stopPut,   \* stop() has tried to put the sentinel
    sender,    \* send(): "idle", "drain", "putBack", "put"
    frame,     \* frame_id of the observation last offered to send()
    accepted,  \* frame_id of the last observation send() returned True for
    run,       \* the VLAClient thread
    stream,    \* self._inflight is sem[stream]; also the stream being read
    sem,       \* the value of every semaphore made so far
    gen,       \* program counter of each request generator
    on,        \* the semaphore a generator polls or took its permit from
    item,      \* the observation a generator yields
    call,      \* external: "none", "open", "failed" or "ended"
    reqs,      \* external: observations on their way or being inferred
    reps,      \* external: replies on their way
    reply,     \* the reply in the hands of the run thread
    answered   \* the last frame_id passed to on_embedding

senderVars == <<sender, frame, accepted>>
runVars == <<run, stream, reply, answered>>
genVars == <<gen, on, item>>
netVars == <<call, reqs, reps>>
vars == <<queue, stopEvent, stopPut, senderVars, runVars, sem, genVars, netVars>>

GenStates == {"none", "top", "acquire", "inner", "get", "yielded",
              "returned", "dropped"}

TypeOK ==
    /\ queue \in Seq(Frames \cup {Sentinel})
    /\ stopEvent \in BOOLEAN
    /\ stopPut \in BOOLEAN
    /\ sender \in {"idle", "drain", "putBack", "put"}
    /\ frame \in 0..MaxFrames
    /\ accepted \in 0..MaxFrames
    /\ run \in {"new", "head", "reading", "callback", "backoff", "exited"}
    /\ stream \in Semaphores
    /\ sem \in [Semaphores -> Nat]
    /\ gen \in [Streams -> GenStates]
    /\ on \in [Streams -> Semaphores]
    /\ item \in [Streams -> 0..MaxFrames]
    /\ call \in [Streams -> {"none", "open", "failed", "ended"}]
    /\ reqs \in [Streams -> Seq(Frames)]
    /\ reps \in [Streams -> Seq(Frames)]
    /\ reply \in 0..MaxFrames
    /\ answered \in 0..MaxFrames
    /\ run \in {"reading", "callback", "backoff"} => stream \in Streams
    /\ \A s \in Streams : gen[s] = "yielded" => item[s] \in Frames

Init ==
    /\ queue = <<>>
    /\ stopEvent = FALSE
    /\ stopPut = FALSE
    /\ sender = "idle"
    /\ frame = 0
    /\ accepted = 0
    /\ run = "new"
    /\ stream = 0
    /\ sem = [s \in Semaphores |-> IF s = 0 THEN MaxInflight ELSE 0]
    /\ gen = [s \in Streams |-> "none"]
    /\ on = [s \in Streams |-> 0]
    /\ item = [s \in Streams |-> 0]
    /\ call = [s \in Streams |-> "none"]
    /\ reqs = [s \in Streams |-> <<>>]
    /\ reps = [s \in Streams |-> <<>>]
    /\ reply = 0
    /\ answered = 0

-----------------------------------------------------------------------------
(* start(), stop().  The node never starts a client twice with effect: a    *)
(* second start() finds the thread, and a stopped client is thrown away.    *)

Start ==
    /\ run = "new"
    /\ ~stopEvent
    /\ run' = "head"
    /\ UNCHANGED <<queue, stopEvent, stopPut, senderVars, stream, reply, answered,
                   sem, genVars, netVars>>

StopSet ==
    /\ ~stopEvent
    /\ stopEvent' = TRUE
    /\ UNCHANGED <<queue, stopPut, senderVars, runVars, sem, genVars, netVars>>

\* queue.put_nowait: a full queue makes the caller give up.
PutNowait(x) == queue' = IF Len(queue) < QueueMax THEN Append(queue, x) ELSE queue

StopPut ==
    /\ stopEvent
    /\ ~stopPut
    /\ stopPut' = TRUE
    /\ PutNowait(Sentinel)
    /\ UNCHANGED <<stopEvent, senderVars, runVars, sem, genVars, netVars>>

-----------------------------------------------------------------------------
(* send(): the drain loop and the put are separate queue operations.        *)

\* Mutation: send() does not drain before it puts.
SendBeginNoDrain ==
    /\ sender = "idle"
    /\ frame < MaxFrames
    /\ frame' = frame + 1
    /\ sender' = "put"
    /\ UNCHANGED <<queue, stopEvent, stopPut, accepted, runVars, sem, genVars, netVars>>

SendBegin ==
    /\ sender = "idle"
    /\ frame < MaxFrames
    /\ frame' = frame + 1
    /\ sender' = IF LatestOnly THEN "drain" ELSE "put"
    /\ UNCHANGED <<queue, stopEvent, stopPut, accepted, runVars, sem, genVars, netVars>>

SendDrain ==
    /\ sender = "drain"
    /\ \/ /\ queue = <<>>
          /\ sender' = "put"
          /\ UNCHANGED queue
       \/ /\ queue # <<>>
          /\ queue' = Tail(queue)
          /\ sender' = IF Head(queue) = Sentinel THEN "putBack" ELSE "drain"
    /\ UNCHANGED <<stopEvent, stopPut, frame, accepted, runVars, sem, genVars, netVars>>

SendPutBack ==
    /\ sender = "putBack"
    /\ PutNowait(Sentinel)
    /\ sender' = "idle"
    /\ UNCHANGED <<stopEvent, stopPut, frame, accepted, runVars, sem, genVars, netVars>>

SendPut ==
    /\ sender = "put"
    /\ PutNowait(frame)
    /\ accepted' = IF Len(queue) < QueueMax THEN frame ELSE accepted
    /\ sender' = "idle"
    /\ UNCHANGED <<stopEvent, stopPut, frame, runVars, sem, genVars, netVars>>

-----------------------------------------------------------------------------
(* _run() and _run_stream().                                                *)

RunExit ==
    /\ run = "head"
    /\ stopEvent
    /\ run' = "exited"
    /\ UNCHANGED <<queue, stopEvent, stopPut, senderVars, stream, reply, answered,
                   sem, genVars, netVars>>

\* A new channel, a new semaphore in self._inflight, a new call whose
\* consumer thread starts a new generator.
RunConnect ==
    /\ run = "head"
    /\ ~stopEvent
    /\ stream < MaxStreams
    /\ stream' = stream + 1
    /\ sem' = [sem EXCEPT ![stream + 1] = MaxInflight]
    /\ gen' = [gen EXCEPT ![stream + 1] = "top"]
    /\ call' = [call EXCEPT ![stream + 1] = "open"]
    /\ run' = "reading"
    /\ UNCHANGED <<queue, stopEvent, stopPut, senderVars, reply, answered,
                   on, item, reqs, reps>>

\* Mutation: the permit of an answered observation is not released.
RunReceiveNoRelease ==
    /\ run = "reading"
    /\ reps[stream] # <<>>
    /\ reply' = Head(reps[stream])
    /\ reps' = [reps EXCEPT ![stream] = Tail(@)]
    /\ run' = "callback"
    /\ UNCHANGED <<queue, stopEvent, stopPut, senderVars, stream, answered, sem,
                   genVars, call, reqs>>

\* A reply arrives: its permit is released before the callback.
RunReceive ==
    /\ run = "reading"
    /\ reps[stream] # <<>>
    /\ reply' = Head(reps[stream])
    /\ reps' = [reps EXCEPT ![stream] = Tail(@)]
    /\ sem' = [sem EXCEPT ![stream] = @ + 1]
    /\ run' = "callback"
    /\ UNCHANGED <<queue, stopEvent, stopPut, senderVars, stream, answered,
                   genVars, call, reqs>>

\* on_embedding(reply), then the stop check: stopping returns from
\* _run_stream, and closing the channel cancels the call.
RunCallback ==
    /\ run = "callback"
    /\ answered' = reply
    /\ run' = IF stopEvent THEN "head" ELSE "reading"
    /\ call' = IF stopEvent /\ call[stream] = "open"
               THEN [call EXCEPT ![stream] = "failed"] ELSE call
    /\ UNCHANGED <<queue, stopEvent, stopPut, senderVars, stream, reply, sem,
                   genVars, reqs, reps>>

\* The reply iterator is exhausted: no backoff.
RunEnd ==
    /\ run = "reading"
    /\ call[stream] = "ended"
    /\ reps[stream] = <<>>
    /\ run' = "head"
    /\ UNCHANGED <<queue, stopEvent, stopPut, senderVars, stream, reply, answered,
                   sem, genVars, netVars>>

\* The reply iterator raises RpcError; replies not yet read may be lost.
RunError ==
    /\ run = "reading"
    /\ call[stream] = "failed"
    /\ run' = "backoff"
    /\ UNCHANGED <<queue, stopEvent, stopPut, senderVars, stream, reply, answered,
                   sem, genVars, netVars>>

RunBackoff ==
    /\ run = "backoff"
    /\ run' = "head"
    /\ UNCHANGED <<queue, stopEvent, stopPut, senderVars, stream, reply, answered,
                   sem, genVars, netVars>>

-----------------------------------------------------------------------------
(* _request_iter() of stream g.                                             *)

\* while not stop_event: read self._inflight and poll that semaphore.
GenTop(g) ==
    /\ gen[g] = "top"
    /\ gen' = [gen EXCEPT ![g] = IF stopEvent THEN "returned" ELSE "acquire"]
    /\ on' = IF stopEvent THEN on ELSE [on EXCEPT ![g] = stream]
    /\ UNCHANGED <<queue, stopEvent, stopPut, senderVars, runVars, sem, item, netVars>>

\* Mutation: the result of acquire(timeout=0.2) is ignored.
GenAcquireIgnored(g) ==
    /\ gen[g] = "acquire"
    /\ sem' = [sem EXCEPT ![on[g]] = IF @ > 0 THEN @ - 1 ELSE 0]
    /\ gen' = [gen EXCEPT ![g] = "inner"]
    /\ UNCHANGED <<queue, stopEvent, stopPut, senderVars, runVars, on, item, netVars>>

\* Mutation: a counter instead of a semaphore, decremented without waiting.
GenAcquireUnguarded(g) ==
    /\ gen[g] = "acquire"
    /\ sem' = [sem EXCEPT ![on[g]] = @ - 1]
    /\ gen' = [gen EXCEPT ![g] = "inner"]
    /\ UNCHANGED <<queue, stopEvent, stopPut, senderVars, runVars, on, item, netVars>>

GenAcquire(g) ==
    /\ gen[g] = "acquire"
    /\ sem[on[g]] > 0
    /\ sem' = [sem EXCEPT ![on[g]] = @ - 1]
    /\ gen' = [gen EXCEPT ![g] = "inner"]
    /\ UNCHANGED <<queue, stopEvent, stopPut, senderVars, runVars, on, item, netVars>>

\* Mutation: acquire() polls on, but the loop does not look at the stop event.
GenAcquireNoStop(g) ==
    /\ gen[g] = "acquire"
    /\ on[g] # stream
    /\ gen' = [gen EXCEPT ![g] = "top"]
    /\ UNCHANGED <<queue, stopEvent, stopPut, senderVars, runVars, sem, on, item, netVars>>

\* acquire(timeout=0.2) gives up; a retry that would find the same semaphore
\* and no stop event changes nothing.
GenAcquireTimeout(g) ==
    /\ gen[g] = "acquire"
    /\ stopEvent \/ on[g] # stream
    /\ gen' = [gen EXCEPT ![g] = "top"]
    /\ UNCHANGED <<queue, stopEvent, stopPut, senderVars, runVars, sem, on, item, netVars>>

\* The permit goes back to whatever self._inflight is by now.
ReleaseAndReturn(g) ==
    /\ sem' = [sem EXCEPT ![stream] = @ + 1]
    /\ gen' = [gen EXCEPT ![g] = "returned"]

GenInner(g) ==
    /\ gen[g] = "inner"
    /\ \/ /\ ~stopEvent
          /\ gen' = [gen EXCEPT ![g] = "get"]
          /\ UNCHANGED sem
       \/ /\ stopEvent
          /\ ReleaseAndReturn(g)
    /\ UNCHANGED <<queue, stopEvent, stopPut, senderVars, runVars, on, item, netVars>>

\* Mutation: the observation is read but left in the queue.
GenGetPeek(g) ==
    /\ gen[g] = "get"
    /\ queue # <<>>
    /\ \/ /\ Head(queue) = Sentinel
          /\ ReleaseAndReturn(g)
          /\ UNCHANGED item
       \/ /\ Head(queue) # Sentinel
          /\ item' = [item EXCEPT ![g] = Head(queue)]
          /\ gen' = [gen EXCEPT ![g] = "yielded"]
          /\ UNCHANGED sem
    /\ UNCHANGED <<queue, stopEvent, stopPut, senderVars, runVars, on, netVars>>

GenGet(g) ==
    /\ gen[g] = "get"
    /\ queue # <<>>
    /\ queue' = Tail(queue)
    /\ \/ /\ Head(queue) = Sentinel
          /\ ReleaseAndReturn(g)
          /\ UNCHANGED item
       \/ /\ Head(queue) # Sentinel
          /\ item' = [item EXCEPT ![g] = Head(queue)]
          /\ gen' = [gen EXCEPT ![g] = "yielded"]
          /\ UNCHANGED sem
    /\ UNCHANGED <<stopEvent, stopPut, senderVars, runVars, on, netVars>>

\* queue.get(timeout=0.2) gives up and the inner loop sees the stop event.
GenGetTimeout(g) ==
    /\ gen[g] = "get"
    /\ queue = <<>>
    /\ stopEvent
    /\ gen' = [gen EXCEPT ![g] = "inner"]
    /\ UNCHANGED <<queue, stopEvent, stopPut, senderVars, runVars, sem, on, item, netVars>>

-----------------------------------------------------------------------------
(* External: grpc and the server.  The consumer thread sends what the       *)
(* generator yields if the call lives, and else drops the generator, which  *)
(* is then closed at its yield without releasing anything.                  *)

GrpcConsume(g) ==
    /\ gen[g] = "yielded"
    /\ \/ /\ call[g] = "open"
          /\ reqs' = [reqs EXCEPT ![g] = Append(@, item[g])]
          /\ gen' = [gen EXCEPT ![g] = "top"]
       \/ /\ call[g] # "open"
          /\ gen' = [gen EXCEPT ![g] = "dropped"]
          /\ UNCHANGED reqs
    /\ UNCHANGED <<queue, stopEvent, stopPut, senderVars, runVars, sem, on, item, call, reps>>

\* StreamInfer answers its requests one at a time, in order.
ServerReply(s) ==
    /\ call[s] = "open"
    /\ reqs[s] # <<>>
    /\ reps' = [reps EXCEPT ![s] = Append(@, Head(reqs[s]))]
    /\ reqs' = [reqs EXCEPT ![s] = Tail(@)]
    /\ UNCHANGED <<queue, stopEvent, stopPut, senderVars, runVars, sem, genVars, call>>

\* The server aborts, dies or is unreachable.
CallFail(s) ==
    /\ s < MaxStreams
    /\ call[s] = "open"
    /\ call' = [call EXCEPT ![s] = "failed"]
    /\ UNCHANGED <<queue, stopEvent, stopPut, senderVars, runVars, sem, genVars, reqs, reps>>

\* The generator returned, so the call is half-closed; the server finishes.
CallEnd(s) ==
    /\ call[s] = "open"
    /\ gen[s] = "returned"
    /\ reqs[s] = <<>>
    /\ call' = [call EXCEPT ![s] = "ended"]
    /\ UNCHANGED <<queue, stopEvent, stopPut, senderVars, runVars, sem, genVars, reqs, reps>>

-----------------------------------------------------------------------------
Stopper == StopSet \/ StopPut
Sender == SendBegin \/ SendDrain \/ SendPutBack \/ SendPut
Run == \/ RunExit \/ RunConnect \/ RunReceive \/ RunCallback
       \/ RunEnd \/ RunError \/ RunBackoff
Gen(g) == \/ GenTop(g) \/ GenAcquire(g) \/ GenAcquireTimeout(g)
          \/ GenInner(g) \/ GenGet(g) \/ GenGetTimeout(g)
Net(s) == GrpcConsume(s) \/ ServerReply(s) \/ CallFail(s) \/ CallEnd(s)

Next ==
    \/ Start
    \/ Stopper
    \/ Sender
    \/ Run
    \/ \E s \in Streams : Gen(s) \/ Net(s)

Spec == Init /\ [][Next]_vars

\* Every thread keeps running: send() returns, the run thread and the
\* generators poll with timeouts, and a server that is up answers what it got.
\* Nobody has to call start(), stop() or send(), and no stream has to fail.
Fairness ==
    /\ WF_vars(SendDrain \/ SendPutBack \/ SendPut)
    /\ WF_vars(StopPut)
    /\ WF_vars(Run)
    /\ \A s \in Streams :
        /\ WF_vars(Gen(s))
        /\ WF_vars(GrpcConsume(s))
        /\ WF_vars(ServerReply(s) \/ CallEnd(s))

FairSpec == Spec /\ Fairness

-----------------------------------------------------------------------------
(* Properties.                                                              *)

Queued == {queue[i] : i \in 1..Len(queue)} \ {Sentinel}

\* Observations the current stream was given and has not answered.
Outstanding ==
    IF stream = 0 THEN 0
    ELSE Len(reqs[stream]) + Len(reps[stream])
         + (IF gen[stream] = "yielded" THEN 1 ELSE 0)

\* The pacing promise of the class docstring: a stream never carries more than
\* max_inflight unanswered observations, whatever reconnects and leftover
\* generators of earlier streams do to the semaphores.
InflightBound == Outstanding <= MaxInflight

\* "We never accumulate, which is the invariant that matters" (send()): with
\* latest_only the queue never holds two observations, though the drain and
\* the put are not atomic and stop() slips a sentinel in between.
QueueCoalesced ==
    LatestOnly => Cardinality({i \in 1..Len(queue) : queue[i] # Sentinel}) <= 1

\* on_embedding sees every frame id at most once and in increasing order, over
\* all the streams the client ever opens: the edge cache and the bookkeeping of
\* sent frames (edge_node.py:553) rest on it.
ReplyInOrder == run = "callback" => reply > answered

\* stop() ends every thread: the run thread leaves its loop and each generator
\* that was started returns or is dropped, wherever the event caught them.
StopTerminates ==
    stopEvent ~> /\ run \in {"new", "exited"}
                 /\ \A s \in Streams : gen[s] \in {"none", "returned", "dropped"}

\* An observation that send() accepted is answered, or one newer than it is,
\* unless the client is stopped or loses a stream: every reply returns the
\* permit that the next observation waits for.
AcceptedAnswered ==
    \A f \in Frames :
        (run # "new" /\ accepted = f)
            ~> (answered >= f \/ stopEvent \/ \E s \in Streams : call[s] = "failed")

\* "So the floor recovers normally" (class docstring): an observation that waits
\* while a stream that will not fail is being read does not wait for ever.
WaitingIsTaken ==
    \A f \in Frames :
        (run = "reading" /\ stream = MaxStreams /\ f \in Queued)
            ~> (f \notin Queued \/ stopEvent)

\* VLAClient implements the ordered lossy channel the edge node relies on.
ElementsOf(q) == {q[i] : i \in 1..Len(q)}
PendingFrames ==
    Queued \cup
    (IF run = "callback" THEN {reply} ELSE {}) \cup
    (IF stream = 0 THEN {}
     ELSE ElementsOf(reps[stream]) \cup ElementsOf(reqs[stream]) \cup
          (IF gen[stream] = "yielded" THEN {item[stream]} ELSE {}))

Channel == INSTANCE ObservationChannel
               WITH newest <- accepted, pending <- PendingFrames

ImplementsChannel == Channel!Spec

=============================================================================
