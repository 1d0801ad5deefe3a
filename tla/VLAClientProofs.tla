-------------------------- MODULE VLAClientProofs --------------------------
(***************************************************************************)
(* Proofs about VLAClient for every value of its constants: type            *)
(* correctness; that max_inflight bounds the unanswered observations of the *)
(* current stream in spite of the generators of earlier streams; that the   *)
(* queue never accumulates; and that the client implements                  *)
(* ObservationChannel, so that replies come in order.                       *)
(***************************************************************************)
EXTENDS VLAClient, SequenceTheorems, FiniteSetTheorems, TLAPS

(***************************************************************************)
(* Putting on a queue keeps the type of its elements.                       *)
(***************************************************************************)
LEMMA PutType ==
    ASSUME NEW S, NEW q \in Seq(S), NEW x \in S
    PROVE  Append(q, x) \in Seq(S)
BY AppendProperties

(***************************************************************************)
(* So does taking from it, and what is taken is one of the elements.        *)
(***************************************************************************)
LEMMA TakeType ==
    ASSUME NEW S, NEW q \in Seq(S), q # <<>>
    PROVE  Head(q) \in S /\ Tail(q) \in Seq(S)
BY HeadTailProperties

(***************************************************************************)
(* The types of the state hold throughout: in particular no semaphore ever  *)
(* goes below zero.                                                         *)
(***************************************************************************)
THEOREM TypeCorrect == Spec => []TypeOK
<1>1. Init => TypeOK
  BY ClientAssumption DEF Init, TypeOK, Frames, Streams, Semaphores, Sentinel, GenStates
<1>2. TypeOK /\ [Next]_vars => TypeOK'
  <2> SUFFICES ASSUME TypeOK, [Next]_vars PROVE TypeOK'
    OBVIOUS
  <2> DEFINE Items == Frames \cup {Sentinel}
  <2>a. ASSUME NEW x \in Items, PutNowait(x) PROVE queue' \in Seq(Items)
    BY <2>a, PutType DEF TypeOK, PutNowait
  <2>b. queue # <<>> => Head(queue) \in Items /\ Tail(queue) \in Seq(Items)
    BY TakeType DEF TypeOK
  <2>c. 0..MaxFrames = Items
    BY ClientAssumption DEF Frames, Sentinel
  <2>d. Streams \subseteq Semaphores
    BY DEF Streams, Semaphores
  <2>e. ASSUME sem' = [sem EXCEPT ![stream] = @ + 1]
        PROVE  sem' \in [Semaphores -> Nat]
    BY <2>e DEF TypeOK
  <2> HIDE DEF Items
  <2> USE DEF TypeOK, senderVars, runVars, genVars, netVars
  <2>1. CASE Start BY <2>1 DEF Start
  <2>2. CASE Stopper
    <3>1. CASE StopSet BY <3>1 DEF StopSet
    <3>2. CASE StopPut
      <4>1. queue' \in Seq(Items) BY <3>2, <2>a DEF StopPut, Items
      <4>2. QED BY <3>2, <4>1 DEF StopPut, Items
    <3>3. QED BY <2>2, <3>1, <3>2 DEF Stopper
  <2>3. CASE SendBegin BY <2>3, ClientAssumption DEF SendBegin
  <2>4. CASE SendDrain
    <3>1. queue' \in Seq(Items) BY <2>4, <2>b DEF SendDrain, Items
    <3>2. QED BY <2>4, <3>1 DEF SendDrain, Items
  <2>5. CASE SendPutBack
    <3>1. queue' \in Seq(Items) BY <2>5, <2>a DEF SendPutBack, Items
    <3>2. QED BY <2>5, <3>1 DEF SendPutBack, Items
  <2>6. CASE SendPut
    <3>1. queue' \in Seq(Items) BY <2>6, <2>a, <2>c DEF SendPut
    <3>2. QED BY <2>6, <3>1 DEF SendPut, Items
  <2>7. CASE RunExit BY <2>7 DEF RunExit
  <2>8. CASE RunConnect
    <3>1. stream + 1 \in Streams /\ stream + 1 \in Semaphores
      BY <2>8, ClientAssumption DEF RunConnect, Streams, Semaphores
    <3>2. QED BY <2>8, <3>1, ClientAssumption DEF RunConnect, GenStates
  <2>9. CASE RunReceive
    <3>1. stream \in Streams BY <2>9 DEF RunReceive
    <3>2. /\ Head(reps[stream]) \in Frames
          /\ Tail(reps[stream]) \in Seq(Frames)
      BY <2>9, <3>1, TakeType DEF RunReceive
    <3>3. reply' \in 0..MaxFrames
      BY <2>9, <3>2, <2>c DEF RunReceive, Items
    <3>4. reps' \in [Streams -> Seq(Frames)] BY <2>9, <3>2 DEF RunReceive
    <3>5. sem' \in [Semaphores -> Nat] BY <2>9, <2>e DEF RunReceive
    <3>6. QED BY <2>9, <3>1, <3>3, <3>4, <3>5 DEF RunReceive
  <2>10. CASE RunCallback BY <2>10 DEF RunCallback
  <2>11. CASE RunEnd \/ RunError \/ RunBackoff BY <2>11 DEF RunEnd, RunError, RunBackoff
  <2>12. ASSUME NEW g \in Streams, Gen(g) PROVE TypeOK'
    <3> USE DEF GenStates
    <3>1. CASE GenTop(g) BY <3>1 DEF GenTop
    <3>2. CASE GenAcquire(g)
      <4>1. sem' \in [Semaphores -> Nat] BY <3>2 DEF GenAcquire
      <4>2. gen' \in [Streams -> GenStates] BY <3>2 DEF GenAcquire
      <4>3. QED BY <3>2, <4>1, <4>2 DEF GenAcquire
    <3>3. CASE GenAcquireTimeout(g) BY <3>3 DEF GenAcquireTimeout
    <3>4. CASE GenInner(g)
      <4>1. sem' \in [Semaphores -> Nat] BY <3>4, <2>e DEF GenInner, ReleaseAndReturn
      <4>2. QED BY <3>4, <4>1 DEF GenInner, ReleaseAndReturn
    <3>5. CASE GenGet(g)
      <4>1. queue' \in Seq(Items) /\ Head(queue) \in Items
        BY <3>5, <2>b DEF GenGet
      <4>2. CASE Head(queue) = Sentinel
        <5>1. sem' \in [Semaphores -> Nat] BY <3>5, <4>2, <2>e DEF GenGet, ReleaseAndReturn
        <5>2. QED BY <3>5, <4>1, <4>2, <5>1 DEF GenGet, ReleaseAndReturn, Items
      <4>3. CASE Head(queue) # Sentinel
        <5>1. Head(queue) \in Frames /\ Head(queue) \in 0..MaxFrames
          BY <4>1, <4>3, <2>c DEF Items
        <5>2. item' = [item EXCEPT ![g] = Head(queue)] /\ gen' = [gen EXCEPT ![g] = "yielded"]
          BY <3>5, <4>3 DEF GenGet
        <5>3. item' \in [Streams -> 0..MaxFrames] /\ gen' \in [Streams -> GenStates]
          BY <5>1, <5>2
        <5>4. \A s \in Streams : gen'[s] = "yielded" => item'[s] \in Frames
          BY <5>1, <5>2
        <5>5. QED BY <3>5, <4>1, <4>3, <5>3, <5>4 DEF GenGet, Items
      <4>4. QED BY <4>2, <4>3
    <3>6. CASE GenGetTimeout(g) BY <3>6 DEF GenGetTimeout
    <3>7. QED BY <2>12, <3>1, <3>2, <3>3, <3>4, <3>5, <3>6 DEF Gen
  <2>13. ASSUME NEW s \in Streams, Net(s) PROVE TypeOK'
    <3>1. CASE GrpcConsume(s)
      <4>1. Append(reqs[s], item[s]) \in Seq(Frames) BY <3>1, PutType DEF GrpcConsume
      <4>2. reqs' \in [Streams -> Seq(Frames)] BY <3>1, <4>1 DEF GrpcConsume
      <4>3. gen' \in [Streams -> GenStates] BY <3>1 DEF GrpcConsume, GenStates
      <4>4. \A t \in Streams : gen'[t] = "yielded" => gen[t] = "yielded"
        BY <3>1 DEF GrpcConsume
      <4>5. QED BY <3>1, <4>2, <4>3, <4>4 DEF GrpcConsume
    <3>2. CASE ServerReply(s)
      <4>1. Head(reqs[s]) \in Frames /\ Tail(reqs[s]) \in Seq(Frames)
        BY <3>2, TakeType DEF ServerReply
      <4>2. Append(reps[s], Head(reqs[s])) \in Seq(Frames) BY <4>1, PutType
      <4>3. QED BY <3>2, <4>1, <4>2 DEF ServerReply
    <3>3. CASE CallFail(s) BY <3>3 DEF CallFail
    <3>4. CASE CallEnd(s) BY <3>4 DEF CallEnd
    <3>5. QED BY <2>13, <3>1, <3>2, <3>3, <3>4 DEF Net
  <2>14. CASE UNCHANGED vars BY <2>14 DEF vars
  <2>15. QED
    BY <2>1, <2>2, <2>3, <2>4, <2>5, <2>6, <2>7, <2>8, <2>9, <2>10, <2>11, <2>12,
       <2>13, <2>14 DEF Next, Sender, Run
<1>3. QED BY <1>1, <1>2, PTL DEF Spec

-----------------------------------------------------------------------------
(* The inductive invariant behind InflightBound.                            *)

\* A sentinel is only ever in the queue because stop() was called.
SentinelMeansStop ==
    /\ \A i \in 1..Len(queue) : queue[i] = Sentinel => stopEvent
    /\ sender = "putBack" => stopEvent
    /\ sender # "idle" => frame \in Frames

\* Nothing happened yet on the streams to come.
StreamsToCome ==
    \A s \in Streams : s > stream => /\ gen[s] = "none"
                                     /\ reqs[s] = <<>>
                                     /\ reps[s] = <<>>

Unanswered == Len(reqs[stream]) + Len(reps[stream])

\* The current generator holds a permit of its own stream's semaphore; it is
\* committed once it has passed the stop check of its inner loop.
Held == IF gen[stream] \in {"inner", "get", "yielded"} THEN 1 ELSE 0
Committed == IF gen[stream] \in {"get", "yielded"} THEN 1 ELSE 0

\* Until stop() is called nothing but a reply gives a permit back, so leftover
\* generators can only take permits of the current stream away.  After it they
\* may give back permits of an older semaphore, but then no generator commits.
PermitBudget ==
    stream \in Streams =>
        /\ gen[stream] \in {"acquire", "inner", "get", "yielded"} => on[stream] = stream
        /\ ~stopEvent => sem[stream] + Held + Unanswered <= MaxInflight
        /\ Committed + Unanswered <= MaxInflight

PermitInv == SentinelMeansStop /\ StreamsToCome /\ PermitBudget

-----------------------------------------------------------------------------
(***************************************************************************)
(* What the elements of a queue are after a put and after a take.           *)
(***************************************************************************)
LEMMA PutElements ==
    ASSUME NEW S, NEW q \in Seq(S), NEW x \in S
    PROVE  /\ Len(Append(q, x)) = Len(q) + 1
           /\ \A i \in 1..Len(q) : Append(q, x)[i] = q[i]
           /\ Append(q, x)[Len(q) + 1] = x
BY AppendProperties

\* Taking leaves the other elements, and what is taken was one of them.
LEMMA TakeElements ==
    ASSUME NEW S, NEW q \in Seq(S), q # <<>>
    PROVE  /\ Len(q) \in Nat \ {0}
           /\ Head(q) = q[1]
           /\ Len(Tail(q)) = Len(q) - 1
           /\ \A i \in 1..Len(Tail(q)) : Tail(q)[i] = q[i + 1]
<1>1. Len(q) \in Nat /\ (Len(q) = 0 <=> q = <<>>) BY EmptySeq, LenProperties
<1>2. QED BY <1>1, HeadTailProperties

\* A sentinel is in the queue only after stop() has set its event, so a generator
\* that finds one gives its permit back on a client that is stopping.
LEMMA SentinelStep ==
    ASSUME TypeOK, SentinelMeansStop, [Next]_vars
    PROVE  SentinelMeansStop'
<1> DEFINE Items == Frames \cup {Sentinel}
<1> USE DEF SentinelMeansStop, senderVars, runVars, genVars, netVars
<1>a. queue \in Seq(Items) BY DEF TypeOK
<1>b. ASSUME NEW x \in Items, PutNowait(x), x = Sentinel => stopEvent
      PROVE  \A i \in 1..Len(queue') : queue'[i] = Sentinel => stopEvent
  <2>1. CASE queue' = queue BY <2>1
  <2>2. CASE queue' = Append(queue, x)
    BY <1>a, <1>b, <2>2, PutElements, LenProperties
  <2>3. QED BY <1>b, <2>1, <2>2 DEF PutNowait
<1>c. ASSUME queue # <<>>, queue' = Tail(queue)
      PROVE  /\ \A i \in 1..Len(queue') : queue'[i] = Sentinel => stopEvent
             /\ Head(queue) = Sentinel => stopEvent
  BY <1>a, <1>c, TakeElements
<1>1. CASE Start BY <1>1 DEF Start
<1>2. CASE StopSet BY <1>2 DEF StopSet
<1>3. CASE StopPut BY <1>3, <1>b DEF StopPut
<1>4. CASE SendBegin BY <1>4, ClientAssumption DEF SendBegin, Frames, TypeOK
<1>5. CASE SendDrain BY <1>5, <1>c DEF SendDrain
<1>6. CASE SendPutBack BY <1>6, <1>b DEF SendPutBack
<1>7. CASE SendPut BY <1>7, <1>b DEF SendPut, Frames, Sentinel
<1>8. CASE Run
  BY <1>8 DEF Run, RunExit, RunConnect, RunReceive, RunCallback, RunEnd, RunError,
              RunBackoff
<1>9. ASSUME NEW g \in Streams, Gen(g) PROVE SentinelMeansStop'
  <2>1. CASE GenGet(g) BY <2>1, <1>c DEF GenGet
  <2>2. CASE ~GenGet(g)
    BY <1>9, <2>2 DEF Gen, GenTop, GenAcquire, GenAcquireTimeout, GenInner, GenGetTimeout
  <2>3. QED BY <2>1, <2>2
<1>10. ASSUME NEW s \in Streams, Net(s) PROVE SentinelMeansStop'
  BY <1>10 DEF Net, GrpcConsume, ServerReply, CallFail, CallEnd
<1>11. CASE UNCHANGED vars BY <1>11 DEF vars
<1>12. QED
  BY <1>1, <1>2, <1>3, <1>4, <1>5, <1>6, <1>7, <1>8, <1>9, <1>10, <1>11
     DEF Next, Stopper, Sender

\* Streams that were not opened yet have no generator, request or reply.
LEMMA StreamsStep ==
    ASSUME TypeOK, StreamsToCome, [Next]_vars
    PROVE  StreamsToCome'
<1> USE DEF StreamsToCome, senderVars, runVars, genVars, netVars
<1>a. ASSUME NEW s \in Streams PROVE s \in Nat
  BY DEF Streams
<1>b. stream \in Nat BY DEF TypeOK, Semaphores
<1>1. CASE Start BY <1>1 DEF Start
<1>2. CASE Stopper BY <1>2 DEF Stopper, StopSet, StopPut
<1>3. CASE Sender BY <1>3 DEF Sender, SendBegin, SendDrain, SendPutBack, SendPut
<1>4. CASE RunConnect BY <1>4, <1>a, <1>b DEF RunConnect, TypeOK
<1>5. CASE RunReceive BY <1>5, <1>a, <1>b DEF RunReceive, TypeOK
<1>6. CASE RunExit \/ RunCallback \/ RunEnd \/ RunError \/ RunBackoff
  BY <1>6 DEF RunExit, RunCallback, RunEnd, RunError, RunBackoff
<1>7. ASSUME NEW g \in Streams, Gen(g) PROVE StreamsToCome'
  <2>1. gen[g] # "none" /\ UNCHANGED <<stream, reqs, reps>>
    BY <1>7 DEF Gen, GenTop, GenAcquire, GenAcquireTimeout, GenInner, GenGet, GenGetTimeout
  <2>2. \A s \in Streams : s # g => gen'[s] = gen[s]
    BY <1>7 DEF Gen, GenTop, GenAcquire, GenAcquireTimeout, GenInner, GenGet,
                GenGetTimeout, ReleaseAndReturn, TypeOK
  <2>3. QED BY <2>1, <2>2
<1>8. ASSUME NEW g \in Streams, Net(g) PROVE StreamsToCome'
  <2>1. CASE GrpcConsume(g) BY <2>1 DEF GrpcConsume, TypeOK
  <2>2. CASE ServerReply(g) BY <2>2 DEF ServerReply, TypeOK
  <2>3. CASE CallFail(g) \/ CallEnd(g) BY <2>3 DEF CallFail, CallEnd
  <2>4. QED BY <1>8, <2>1, <2>2, <2>3 DEF Net
<1>9. CASE UNCHANGED vars BY <1>9 DEF vars
<1>10. QED
  BY <1>1, <1>2, <1>3, <1>4, <1>5, <1>6, <1>7, <1>8, <1>9 DEF Next, Run

(***************************************************************************)
(* The arithmetic of two counters, one of which moves.                      *)
(***************************************************************************)
LEMMA SumNat ==
    ASSUME NEW m \in Nat, NEW n \in Nat
    PROVE  /\ m + n \in Nat
           /\ m + (n - 1) = (m + n) - 1
           /\ (m + 1) + n = (m + n) + 1
           /\ (m - 1) + (n + 1) = m + n
OBVIOUS

\* The permits of the current stream and what uses them never exceed its budget.
LEMMA BudgetStep ==
    ASSUME TypeOK, PermitInv, [Next]_vars
    PROVE  PermitBudget'
<1> USE DEF senderVars, runVars, genVars, netVars
<1>a. stream \in Streams => /\ Len(reqs[stream]) \in Nat
                           /\ Len(reps[stream]) \in Nat
                           /\ sem[stream] \in Nat
                           /\ Unanswered \in Nat
                           /\ Held \in {0, 1}
                           /\ Committed \in {0, 1}
  <2> SUFFICES ASSUME stream \in Streams
               PROVE  /\ Len(reqs[stream]) \in Nat
                      /\ Len(reps[stream]) \in Nat
                      /\ sem[stream] \in Nat
                      /\ Unanswered \in Nat
                      /\ Held \in {0, 1}
                      /\ Committed \in {0, 1}
    OBVIOUS
  <2>1. Len(reqs[stream]) \in Nat /\ Len(reps[stream]) \in Nat
    BY LenProperties DEF TypeOK
  <2>2. sem[stream] \in Nat BY DEF TypeOK
  <2>3. Unanswered \in Nat BY <2>1, SumNat DEF Unanswered
  <2>4. Held \in {0, 1} /\ Committed \in {0, 1} BY DEF Held, Committed
  <2>5. QED BY <2>1, <2>2, <2>3, <2>4
<1>b. MaxInflight \in Nat BY ClientAssumption
<1>c. PermitBudget BY DEF PermitInv
\* Steps that leave the balance of the current stream alone.
<1>u. ASSUME UNCHANGED <<stream, sem, gen, on, reqs, reps>>, stopEvent => stopEvent'
      PROVE  PermitBudget'
  <2>1. Held' = Held /\ Committed' = Committed /\ Unanswered' = Unanswered
    BY <1>u DEF Held, Committed, Unanswered
  <2>2. sem'[stream'] = sem[stream] BY <1>u
  <2>3. QED BY <2>1, <2>2, <1>u, <1>c DEF PermitBudget
\* Steps of the generator of another stream: all they can do to the balance
\* while the client runs is to take a permit.
<1>v. ASSUME UNCHANGED <<stream, stopEvent, reqs, reps>>,
             gen'[stream] = gen[stream], on'[stream] = on[stream],
             stream \in Streams /\ ~stopEvent =>
                 sem'[stream] \in Nat /\ sem'[stream] <= sem[stream]
      PROVE  PermitBudget'
  <2>1. Held' = Held /\ Committed' = Committed /\ Unanswered' = Unanswered
    BY <1>v DEF Held, Committed, Unanswered
  <2>2. QED BY <2>1, <1>v, <1>a, <1>b, <1>c DEF PermitBudget
<1>1. CASE Start BY <1>1, <1>u DEF Start
<1>2. CASE Stopper BY <1>2, <1>u DEF Stopper, StopSet, StopPut
<1>3. CASE Sender BY <1>3, <1>u DEF Sender, SendBegin, SendDrain, SendPutBack, SendPut
<1>4. CASE RunConnect
  <2>1. stream' \in Streams /\ stream' > stream /\ stream' \in Semaphores
    BY <1>4, ClientAssumption DEF RunConnect, TypeOK, Streams, Semaphores
  <2>2. reqs'[stream'] = <<>> /\ reps'[stream'] = <<>>
    BY <1>4, <2>1 DEF RunConnect, PermitInv, StreamsToCome
  <2>3. gen'[stream'] = "top" /\ sem'[stream'] = MaxInflight
    BY <1>4, <2>1 DEF RunConnect, TypeOK
  <2>4. Held' = 0 /\ Committed' = 0 BY <2>3 DEF Held, Committed
  <2>5. Unanswered' = 0 BY <2>2, EmptySeq DEF Unanswered
  <2>6. QED BY <2>3, <2>4, <2>5, <1>b DEF PermitBudget
<1>5. CASE RunReceive
  <2>1. stream \in Streams BY <1>5 DEF RunReceive, TypeOK
  <2>2. Len(reps'[stream]) = Len(reps[stream]) - 1
    BY <1>5, <2>1, TakeElements DEF RunReceive, TypeOK
  <2>3. sem'[stream] = sem[stream] + 1 BY <1>5, <2>1, <1>a DEF RunReceive, TypeOK
  <2>4. UNCHANGED <<stopEvent, stream, reqs, gen, on>> BY <1>5 DEF RunReceive
  <2>5. Held' = Held /\ Committed' = Committed BY <2>4 DEF Held, Committed
  <2>6. Unanswered' = Unanswered - 1
    <3>1. Unanswered' = Len(reqs[stream]) + (Len(reps[stream]) - 1)
      BY <2>2, <2>4 DEF Unanswered
    <3>2. Len(reqs[stream]) + (Len(reps[stream]) - 1) = Unanswered - 1
      BY <2>1, <1>a, SumNat DEF Unanswered
    <3>3. QED BY <3>1, <3>2
  <2>7. QED BY <2>1, <2>3, <2>4, <2>5, <2>6, <1>a, <1>b, <1>c DEF PermitBudget
<1>6. CASE RunExit \/ RunCallback \/ RunEnd \/ RunError \/ RunBackoff
  BY <1>6, <1>u DEF RunExit, RunCallback, RunEnd, RunError, RunBackoff
<1>7. ASSUME NEW g \in Streams, Gen(g) PROVE PermitBudget'
  <2>1. UNCHANGED <<stopEvent, stream, reqs, reps>>
    BY <1>7 DEF Gen, GenTop, GenAcquire, GenAcquireTimeout, GenInner, GenGet, GenGetTimeout
  <2>2. Unanswered' = Unanswered BY <2>1 DEF Unanswered
  <2>0. CASE stream \notin Streams BY <2>0, <2>1 DEF PermitBudget
  <2>3. CASE stream \in Streams \ {g}
    <3>1. gen'[stream] = gen[stream] /\ on'[stream] = on[stream]
      BY <1>7, <2>3 DEF Gen, GenTop, GenAcquire, GenAcquireTimeout, GenInner, GenGet,
                GenGetTimeout, ReleaseAndReturn, TypeOK
    <3>2. ~stopEvent => sem'[stream] \in Nat /\ sem'[stream] <= sem[stream]
      <4>1. CASE GenAcquire(g)
        <5>1. on[g] \in Semaphores /\ sem[on[g]] \in Nat \ {0} /\ stream \in Semaphores
          BY <4>1 DEF GenAcquire, TypeOK
        <5>2. sem' = [sem EXCEPT ![on[g]] = @ - 1] BY <4>1 DEF GenAcquire
        <5>3. sem[stream] \in Nat BY DEF TypeOK
        <5>4. CASE on[g] = stream
          <6>1. sem'[stream] = sem[stream] - 1 /\ sem[stream] # 0
            BY <5>1, <5>2, <5>4 DEF TypeOK
          <6>2. QED BY <6>1, <5>3
        <5>5. CASE on[g] # stream
          <6>1. sem'[stream] = sem[stream] BY <5>1, <5>2, <5>5 DEF TypeOK
          <6>2. QED BY <6>1, <5>3
        <5>6. QED BY <5>4, <5>5
      <4>2. CASE GenGet(g)
        <5>1. ~stopEvent => Head(queue) # Sentinel
          <6>1. queue # <<>> BY <4>2 DEF GenGet
          <6>2. Head(queue) = queue[1] /\ Len(queue) \in Nat \ {0}
            BY <6>1, TakeElements DEF TypeOK
          <6>3. QED BY <6>2 DEF PermitInv, SentinelMeansStop
        <5>2. ~stopEvent => sem' = sem BY <4>2, <5>1 DEF GenGet
        <5>3. QED BY <5>2 DEF TypeOK
      <4>3. CASE ~GenAcquire(g) /\ ~GenGet(g)
        <5>1. ~stopEvent => sem' = sem
          BY <1>7, <4>3 DEF Gen, GenTop, GenAcquireTimeout, GenInner, GenGetTimeout
        <5>2. QED BY <5>1 DEF TypeOK
      <4>4. QED BY <4>1, <4>2, <4>3
    <3>3. QED BY <2>1, <3>1, <3>2, <1>v
  <2>4. CASE stream = g
    <3>1. stream \in Streams /\ gen \in [Streams -> GenStates] BY <2>4 DEF TypeOK
    <3>2. CASE GenTop(g)
      <4>1. /\ gen'[stream] \in {"returned", "acquire"}
            /\ gen'[stream] = "acquire" => on'[stream] = stream
            /\ sem' = sem
            /\ gen[stream] = "top"
        BY <2>4, <3>2 DEF GenTop, TypeOK
      <4>2. Held = 0 /\ Held' = 0 /\ Committed = 0 /\ Committed' = 0
        BY <2>1, <4>1 DEF Held, Committed
      <4>3. QED BY <2>1, <2>2, <3>1, <4>1, <4>2, <1>a, <1>b, <1>c DEF PermitBudget
    <3>3. CASE GenAcquire(g)
      <4>1. gen[stream] = "acquire" /\ gen'[stream] = "inner" /\ on' = on
        BY <2>4, <3>3 DEF GenAcquire, TypeOK
      <4>2. on[stream] = stream BY <3>1, <4>1, <1>c DEF PermitBudget
      <4>3. sem[stream] \in Nat \ {0} /\ sem'[stream] = sem[stream] - 1
        BY <2>4, <3>3, <4>2 DEF GenAcquire, TypeOK
      <4>4. Held = 0 /\ Held' = 1 /\ Committed = 0 /\ Committed' = 0
        BY <2>1, <4>1 DEF Held, Committed
      <4>5. QED BY <2>1, <2>2, <3>1, <4>1, <4>2, <4>3, <4>4, <1>a, <1>b, <1>c DEF PermitBudget
    <3>4. CASE GenAcquireTimeout(g)
      <4>1. gen[stream] = "acquire" /\ gen'[stream] = "top" /\ sem' = sem
        BY <2>4, <3>4 DEF GenAcquireTimeout, TypeOK
      <4>2. Held = 0 /\ Held' = 0 /\ Committed = 0 /\ Committed' = 0
        BY <2>1, <4>1 DEF Held, Committed
      <4>3. QED BY <2>1, <2>2, <3>1, <4>1, <4>2, <1>a, <1>b, <1>c DEF PermitBudget
    <3>5. CASE GenInner(g) /\ ~stopEvent
      <4>1. gen[stream] = "inner" /\ gen'[stream] = "get" /\ on' = on /\ sem' = sem
        BY <2>4, <3>5 DEF GenInner, TypeOK
      <4>2. Held = 1 /\ Held' = 1 /\ Committed = 0 /\ Committed' = 1
        BY <2>1, <4>1 DEF Held, Committed
      <4>3. QED
        BY <2>1, <2>2, <3>1, <3>5, <4>1, <4>2, <1>a, <1>b, <1>c DEF PermitBudget
    <3>6. ASSUME stopEvent, gen[stream] \in {"inner", "get"}, gen'[stream] = "returned"
          PROVE  PermitBudget'
      <4>1. Committed' = 0 BY <2>1, <3>6 DEF Committed
      <4>2. QED BY <2>1, <2>2, <3>1, <3>6, <4>1, <1>a, <1>b, <1>c DEF PermitBudget
    <3>7. CASE GenInner(g) /\ stopEvent
      BY <2>4, <3>6, <3>7 DEF GenInner, ReleaseAndReturn, TypeOK
    <3>8. CASE GenGet(g) /\ Head(queue) = Sentinel
      <4>1. queue # <<>> BY <3>8 DEF GenGet
      <4>2. Head(queue) = queue[1] /\ Len(queue) \in Nat \ {0}
        BY <4>1, TakeElements DEF TypeOK
      <4>3. stopEvent BY <3>8, <4>2 DEF PermitInv, SentinelMeansStop
      <4>4. QED BY <2>4, <3>6, <3>8, <4>3 DEF GenGet, ReleaseAndReturn, TypeOK
    <3>9. CASE GenGet(g) /\ Head(queue) # Sentinel
      <4>1. gen[stream] = "get" /\ gen'[stream] = "yielded" /\ on' = on /\ sem' = sem
        BY <2>4, <3>9 DEF GenGet, TypeOK
      <4>2. Held = 1 /\ Held' = 1 /\ Committed = 1 /\ Committed' = 1
        BY <2>1, <4>1 DEF Held, Committed
      <4>3. QED BY <2>1, <2>2, <3>1, <4>1, <4>2, <1>a, <1>b, <1>c DEF PermitBudget
    <3>10. CASE GenGetTimeout(g)
      <4>1. gen[stream] = "get" /\ gen'[stream] = "inner" /\ on' = on /\ sem' = sem
        BY <2>4, <3>10 DEF GenGetTimeout, TypeOK
      <4>2. Held = 1 /\ Held' = 1 /\ Committed = 1 /\ Committed' = 0
        BY <2>1, <4>1 DEF Held, Committed
      <4>3. QED BY <2>1, <2>2, <3>1, <4>1, <4>2, <1>a, <1>b, <1>c DEF PermitBudget
    <3>11. QED
      BY <1>7, <3>2, <3>3, <3>4, <3>5, <3>7, <3>8, <3>9, <3>10 DEF Gen
  <2>5. QED BY <2>0, <2>3, <2>4
<1>8. ASSUME NEW g \in Streams, Net(g) PROVE PermitBudget'
  <2>1. UNCHANGED <<stopEvent, stream, sem, on>>
    BY <1>8 DEF Net, GrpcConsume, ServerReply, CallFail, CallEnd
  <2>0. CASE stream \notin Streams BY <2>0, <2>1 DEF PermitBudget
  <2>2. CASE stream \in Streams \ {g}
    <3>1. /\ gen'[stream] = gen[stream]
          /\ reqs'[stream] = reqs[stream]
          /\ reps'[stream] = reps[stream]
      BY <1>8, <2>2 DEF Net, GrpcConsume, ServerReply, CallFail, CallEnd, TypeOK
    <3>2. Held' = Held /\ Committed' = Committed /\ Unanswered' = Unanswered
      BY <2>1, <3>1 DEF Held, Committed, Unanswered
    <3>3. QED BY <2>1, <3>1, <3>2, <1>a, <1>c DEF PermitBudget
  <2>3. CASE stream = g /\ GrpcConsume(g)
    <3>1. /\ reps' = reps
          /\ gen[stream] = "yielded"
          /\ \/ gen'[stream] = "top" /\ reqs'[stream] = Append(reqs[stream], item[stream])
             \/ gen'[stream] = "dropped" /\ reqs'[stream] = reqs[stream]
      BY <2>3 DEF GrpcConsume, TypeOK
    <3>2. Len(Append(reqs[stream], item[stream])) = Len(reqs[stream]) + 1
      BY <2>3, <3>1, PutElements DEF TypeOK
    <3>3. Held = 1 /\ Held' = 0 /\ Committed = 1 /\ Committed' = 0
      BY <2>1, <3>1 DEF Held, Committed
    <3>4. Unanswered' \in {Unanswered, Unanswered + 1}
      <4>1. \/ Unanswered' = (Len(reqs[stream]) + 1) + Len(reps[stream])
            \/ Unanswered' = Unanswered
        BY <2>1, <3>1, <3>2 DEF Unanswered
      <4>2. (Len(reqs[stream]) + 1) + Len(reps[stream]) = Unanswered + 1
        BY <2>3, <1>a, SumNat DEF Unanswered
      <4>3. QED BY <4>1, <4>2
    <3>5. QED BY <2>1, <2>3, <3>1, <3>3, <3>4, <1>a, <1>b, <1>c DEF PermitBudget
  <2>4. CASE stream = g /\ ServerReply(g)
    <3>1. /\ gen' = gen
          /\ reqs'[stream] = Tail(reqs[stream])
          /\ reps'[stream] = Append(reps[stream], Head(reqs[stream]))
      BY <2>4 DEF ServerReply, TypeOK
    <3>2. Len(Tail(reqs[stream])) = Len(reqs[stream]) - 1 /\ Head(reqs[stream]) \in Frames
      BY <2>4, TakeElements, TakeType DEF ServerReply, TypeOK
    <3>3. Len(Append(reps[stream], Head(reqs[stream]))) = Len(reps[stream]) + 1
      BY <2>4, <3>2, PutElements DEF TypeOK
    <3>4. Held' = Held /\ Committed' = Committed BY <2>1, <3>1 DEF Held, Committed
    <3>5. Unanswered' = Unanswered
      <4>1. Unanswered' = (Len(reqs[stream]) - 1) + (Len(reps[stream]) + 1)
        BY <2>1, <3>1, <3>2, <3>3 DEF Unanswered
      <4>2. (Len(reqs[stream]) - 1) + (Len(reps[stream]) + 1) = Unanswered
        BY <2>4, <1>a, SumNat DEF Unanswered
      <4>3. QED BY <4>1, <4>2
    <3>6. QED BY <2>1, <2>4, <3>1, <3>4, <3>5, <1>a, <1>c DEF PermitBudget
  <2>5. CASE CallFail(g) \/ CallEnd(g)
    BY <2>5, <1>u DEF CallFail, CallEnd
  <2>6. QED BY <1>8, <2>0, <2>2, <2>3, <2>4, <2>5 DEF Net
<1>9. CASE UNCHANGED vars BY <1>9, <1>u DEF vars
<1>10. QED
  BY <1>1, <1>2, <1>3, <1>4, <1>5, <1>6, <1>7, <1>8, <1>9 DEF Next, Run

(***************************************************************************)
(* max_inflight bounds what the current stream carries unanswered, however  *)
(* many streams failed before it and whatever their generators still do.    *)
(***************************************************************************)
THEOREM InflightBounded == Spec => []InflightBound
<1>1. Init => PermitInv
  <2> SUFFICES ASSUME Init PROVE PermitInv
    OBVIOUS
  <2>1. SentinelMeansStop BY EmptySeq DEF Init, SentinelMeansStop
  <2>2. StreamsToCome BY DEF Init, StreamsToCome
  <2>3. PermitBudget BY DEF Init, PermitBudget, Streams
  <2>4. QED BY <2>1, <2>2, <2>3 DEF PermitInv
<1>2. TypeOK /\ PermitInv /\ [Next]_vars => PermitInv'
  BY SentinelStep, StreamsStep, BudgetStep DEF PermitInv
<1>3. TypeOK /\ PermitInv => InflightBound
  <2> SUFFICES ASSUME TypeOK, PermitInv PROVE InflightBound
    OBVIOUS
  <2>1. CASE stream = 0
    BY <2>1, ClientAssumption DEF InflightBound, Outstanding
  <2>2. CASE stream # 0
    <3>1. stream \in Streams BY <2>2 DEF TypeOK, Semaphores, Streams
    <3>2. Len(reqs[stream]) \in Nat /\ Len(reps[stream]) \in Nat
      BY <3>1, LenProperties DEF TypeOK
    <3>3. Unanswered \in Nat BY <3>2, SumNat DEF Unanswered
    <3>4. Committed + Unanswered <= MaxInflight BY <3>1 DEF PermitInv, PermitBudget
    <3>5. Outstanding = Unanswered + (IF gen[stream] = "yielded" THEN 1 ELSE 0)
      BY <2>2 DEF Outstanding, Unanswered
    <3>6. Committed \in {0, 1} /\ (gen[stream] = "yielded" => Committed = 1)
      BY DEF Committed
    <3>7. QED BY <3>3, <3>4, <3>5, <3>6, ClientAssumption DEF InflightBound
  <2>3. QED BY <2>1, <2>2
<1>4. QED BY <1>1, <1>2, <1>3, TypeCorrect, PTL DEF Spec

-----------------------------------------------------------------------------
(* Coalescing.                                                              *)

\* With latest_only one observation at most is queued, and none from the moment
\* the drain found the queue empty to the put.
CoalesceInv ==
    LatestOnly =>
        /\ \A i, j \in 1..Len(queue) :
               queue[i] # Sentinel /\ queue[j] # Sentinel => i = j
        /\ sender = "put" => \A i \in 1..Len(queue) : queue[i] = Sentinel

LEMMA CoalesceStep ==
    ASSUME TypeOK, CoalesceInv, [Next]_vars
    PROVE  CoalesceInv'
<1> DEFINE Items == Frames \cup {Sentinel}
<1> USE DEF CoalesceInv, senderVars, runVars, genVars, netVars
<1>a. queue \in Seq(Items) /\ Len(queue) \in Nat
  BY LenProperties DEF TypeOK
<1>b. ASSUME PutNowait(Sentinel), sender' = "put" => sender = "put"
      PROVE  CoalesceInv'
  <2>1. CASE queue' = queue BY <1>b, <2>1
  <2>2. CASE queue' = Append(queue, Sentinel)
    <3>1. /\ Len(queue') = Len(queue) + 1
          /\ \A i \in 1..Len(queue) : queue'[i] = queue[i]
          /\ queue'[Len(queue) + 1] = Sentinel
      BY <1>a, <2>2, PutElements
    <3>2. QED BY <1>a, <1>b, <3>1
  <2>3. QED BY <1>b, <2>1, <2>2 DEF PutNowait
<1>c. ASSUME queue # <<>>, queue' = Tail(queue), sender' = "put" => sender = "put"
      PROVE  CoalesceInv'
  <2>1. /\ Len(queue') = Len(queue) - 1
        /\ \A i \in 1..Len(queue') : queue'[i] = queue[i + 1]
    BY <1>a, <1>c, TakeElements
  <2>2. \A i \in 1..Len(queue') : i \in Nat /\ i + 1 \in 1..Len(queue) BY <1>a, <2>1
  <2>3. \A i, j \in 1..Len(queue') : i + 1 = j + 1 => i = j BY <1>a
  <2>4. QED BY <1>c, <2>1, <2>2, <2>3
<1>1. CASE StopPut BY <1>1, <1>b DEF StopPut
<1>2. CASE SendBegin BY <1>2 DEF SendBegin
<1>3. CASE SendDrain
  <2>1. CASE queue = <<>>
    BY <1>3, <2>1, EmptySeq DEF SendDrain
  <2>2. CASE queue # <<>> BY <1>3, <1>c, <2>2 DEF SendDrain
  <2>3. QED BY <2>1, <2>2
<1>4. CASE SendPutBack BY <1>4, <1>b DEF SendPutBack
<1>5. CASE SendPut
  <2>1. CASE queue' = queue BY <1>5, <2>1 DEF SendPut
  <2>2. CASE queue' = Append(queue, frame)
    <3>1. frame \in 0..MaxFrames /\ 0..MaxFrames = Items
      BY ClientAssumption DEF TypeOK, Frames, Sentinel
    <3>2. /\ Len(queue') = Len(queue) + 1
          /\ \A i \in 1..Len(queue) : queue'[i] = queue[i]
      BY <1>a, <2>2, <3>1, PutElements
    <3>3. QED BY <1>a, <1>5, <3>2 DEF SendPut
  <2>3. QED BY <1>5, <2>1, <2>2 DEF SendPut, PutNowait
<1>6. ASSUME NEW g \in Streams, GenGet(g) PROVE CoalesceInv'
  BY <1>6, <1>c DEF GenGet
<1>7. CASE UNCHANGED <<queue, sender>> BY <1>7
<1>8. ASSUME NEW g \in Streams, Gen(g), ~GenGet(g) PROVE UNCHANGED <<queue, sender>>
  BY <1>8 DEF Gen, GenTop, GenAcquire, GenAcquireTimeout, GenInner, GenGetTimeout
<1>9. ASSUME NEW g \in Streams, Net(g) PROVE UNCHANGED <<queue, sender>>
  BY <1>9 DEF Net, GrpcConsume, ServerReply, CallFail, CallEnd
<1>10. ASSUME Start \/ StopSet \/ Run PROVE UNCHANGED <<queue, sender>>
  BY <1>10 DEF Start, StopSet, Run, RunExit, RunConnect, RunReceive, RunCallback, RunEnd,
               RunError, RunBackoff
<1>11. QED
  BY <1>1, <1>2, <1>3, <1>4, <1>5, <1>6, <1>7, <1>8, <1>9, <1>10
     DEF Next, Stopper, Sender, vars

(***************************************************************************)
(* "We never accumulate": with latest_only the queue holds one observation  *)
(* at most, for any capacity, though the drain and the put of send() are    *)
(* not atomic.                                                              *)
(***************************************************************************)
THEOREM NeverAccumulates == Spec => []QueueCoalesced
<1>1. Init => CoalesceInv
  BY EmptySeq DEF Init, CoalesceInv
<1>2. TypeOK /\ CoalesceInv => QueueCoalesced
  <2> SUFFICES ASSUME TypeOK, CoalesceInv, LatestOnly
               PROVE  Cardinality({i \in 1..Len(queue) : queue[i] # Sentinel}) <= 1
    BY DEF QueueCoalesced
  <2> DEFINE Obs == {i \in 1..Len(queue) : queue[i] # Sentinel}
  <2>1. CASE Obs = {} BY <2>1, FS_EmptySet
  <2>2. CASE Obs # {}
    <3>1. PICK i \in Obs : TRUE BY <2>2
    <3>2. Obs = {i} BY <3>1 DEF CoalesceInv
    <3>3. Cardinality({i}) = 1 BY FS_Singleton
    <3>4. QED BY <3>2, <3>3
  <2>3. QED BY <2>1, <2>2
<1>3. QED BY <1>1, <1>2, CoalesceStep, TypeCorrect, PTL DEF Spec

-----------------------------------------------------------------------------
(* Order.                                                                   *)

Below(A, B) == \A a \in A, b \in B : a < b

\* The stations of an observation, from the last to the first.
Line == [i \in 0..6 |->
    CASE i = 0 -> {answered}
      [] i = 1 -> IF run = "callback" THEN {reply} ELSE {}
      [] i = 2 -> IF stream = 0 THEN {} ELSE ElementsOf(reps[stream])
      [] i = 3 -> IF stream = 0 THEN {} ELSE ElementsOf(reqs[stream])
      [] i = 4 -> IF stream # 0 /\ gen[stream] = "yielded" THEN {item[stream]} ELSE {}
      [] i = 5 -> Queued
      [] i = 6 -> IF sender = "idle" THEN {} ELSE {frame}]

InOrder(l) == \A i, j \in 0..6 : i < j => Below(l[i], l[j])

Sorted(q) ==
    \A i, j \in 1..Len(q) : i < j /\ q[i] # Sentinel /\ q[j] # Sentinel => q[i] < q[j]

\* What is further along the line is older, and so is the head of every queue.
LineInv ==
    /\ InOrder(Line)
    /\ \A i \in 0..6 : Line[i] \subseteq 0..frame

SortedInv ==
    /\ Sorted(queue)
    /\ stream # 0 => Sorted(reqs[stream]) /\ Sorted(reps[stream])

AcceptedInv ==
    /\ accepted <= frame
    /\ sender # "idle" => accepted < frame

OrderInv == LineInv /\ SortedInv /\ AcceptedInv

\* Putting and taking, by the elements.
LEMMA PutSet ==
    ASSUME NEW S, NEW q \in Seq(S), NEW x \in S
    PROVE  ElementsOf(Append(q, x)) = ElementsOf(q) \cup {x}
<1>1. Len(q) \in Nat BY LenProperties
<1>2. QED BY <1>1, PutElements DEF ElementsOf

LEMMA TakeSet ==
    ASSUME NEW S, NEW q \in Seq(S), q # <<>>
    PROVE  ElementsOf(q) = ElementsOf(Tail(q)) \cup {Head(q)}
<1> DEFINE n == Len(q)
<1>1. n \in Nat \ {0} /\ Len(Tail(q)) = n - 1 /\ Head(q) = q[1]
  BY TakeElements
<1>2. \A i \in 1..(n - 1) : Tail(q)[i] = q[i + 1] BY <1>1, TakeElements
<1> HIDE DEF n
<1>3. ElementsOf(q) = {q[i] : i \in 1..n} /\ ElementsOf(Tail(q)) = {Tail(q)[i] : i \in 1..(n - 1)}
  BY <1>1 DEF ElementsOf, n
<1>4. ASSUME NEW i \in 1..n PROVE q[i] \in ElementsOf(Tail(q)) \cup {Head(q)}
  <2>1. CASE i = 1 BY <1>1, <2>1
  <2>2. CASE i # 1
    <3>1. i - 1 \in 1..(n - 1) /\ (i - 1) + 1 = i BY <1>1, <2>2
    <3>2. Tail(q)[i - 1] = q[i] BY <1>2, <3>1
    <3>3. QED BY <1>3, <3>1, <3>2
  <2>3. QED BY <2>1, <2>2
<1>5. ASSUME NEW i \in 1..(n - 1) PROVE Tail(q)[i] \in ElementsOf(q)
  <2>1. i + 1 \in 1..n BY <1>1
  <2>2. QED BY <1>2, <1>3, <2>1
<1>6. Head(q) \in ElementsOf(q) BY <1>1, <1>3
<1>7. QED BY <1>3, <1>4, <1>5, <1>6

\* What is put behind everything queued keeps the queue sorted.
LEMMA PutSorted ==
    ASSUME NEW S, NEW q \in Seq(S), NEW x \in S, Sorted(q),
           x # Sentinel => Below(ElementsOf(q) \ {Sentinel}, {x})
    PROVE  Sorted(Append(q, x))
<1>1. /\ Len(q) \in Nat /\ Len(Append(q, x)) = Len(q) + 1
      /\ \A i \in 1..Len(q) : Append(q, x)[i] = q[i]
      /\ Append(q, x)[Len(q) + 1] = x
  BY LenProperties, PutElements
<1>2. ASSUME NEW i \in 1..Len(q), q[i] # Sentinel, x # Sentinel PROVE q[i] < x
  BY <1>2 DEF Below, ElementsOf
<1>3. QED BY <1>1, <1>2 DEF Sorted

\* Taking keeps it sorted, and takes what is below the rest.
LEMMA TakeSorted ==
    ASSUME NEW S, NEW q \in Seq(S), q # <<>>, Sorted(q)
    PROVE  /\ Sorted(Tail(q))
           /\ Head(q) # Sentinel => Below({Head(q)}, ElementsOf(Tail(q)) \ {Sentinel})
<1> DEFINE n == Len(q)
<1>1. n \in Nat \ {0} /\ Len(Tail(q)) = n - 1 /\ Head(q) = q[1]
  BY TakeElements
<1>2. \A i \in 1..(n - 1) : Tail(q)[i] = q[i + 1] BY <1>1, TakeElements
<1>3. \A i, j \in 1..n : i < j /\ q[i] # Sentinel /\ q[j] # Sentinel => q[i] < q[j]
  BY DEF Sorted
<1> HIDE DEF n
<1>4. ASSUME NEW i \in 1..(n - 1), NEW j \in 1..(n - 1), i < j,
             Tail(q)[i] # Sentinel, Tail(q)[j] # Sentinel
      PROVE  Tail(q)[i] < Tail(q)[j]
  <2>1. i + 1 \in 1..n /\ j + 1 \in 1..n /\ i + 1 < j + 1 BY <1>1, <1>4
  <2>2. QED BY <1>2, <1>3, <1>4, <2>1
<1>5. ASSUME Head(q) # Sentinel, NEW i \in 1..(n - 1), Tail(q)[i] # Sentinel
      PROVE  Head(q) < Tail(q)[i]
  <2>1. 1 \in 1..n /\ i + 1 \in 1..n /\ 1 < i + 1 BY <1>1
  <2>2. QED BY <1>1, <1>2, <1>3, <1>5, <2>1
<1>6. QED BY <1>1, <1>4, <1>5 DEF Sorted, Below, ElementsOf

\* Observations that are lost leave the line in order.
LEMMA LineShrinks ==
    ASSUME NEW n \in Nat, NEW l, NEW m, InOrder(l),
           \A i \in 0..6 : l[i] \subseteq 0..n /\ m[i] \subseteq l[i]
    PROVE  InOrder(m) /\ \A i \in 0..6 : m[i] \subseteq 0..n
<1>1. \A i \in 0..6 : m[i] \subseteq 0..n OBVIOUS
<1>2. ASSUME NEW i \in 0..6, NEW j \in 0..6, i < j PROVE Below(m[i], m[j])
  <2>1. Below(l[i], l[j]) BY <1>2 DEF InOrder
  <2>2. m[i] \subseteq l[i] /\ m[j] \subseteq l[j] OBVIOUS
  <2>3. QED BY ONLY <2>1, <2>2 DEF Below
<1>3. QED BY <1>1, <1>2 DEF InOrder

\* So does one that moves on from station k, if it is the oldest there.
LEMMA LineMoves ==
    ASSUME NEW n \in Nat, NEW l, NEW m, InOrder(l), NEW k \in 1..6, NEW x \in l[k],
           \A i \in 0..6 : l[i] \subseteq 0..n,
           \A i \in 0..6 : i # k - 1 => m[i] \subseteq l[i],
           m[k - 1] \subseteq l[k - 1] \cup {x},
           Below({x}, m[k])
    PROVE  InOrder(m) /\ \A i \in 0..6 : m[i] \subseteq 0..n
<1>1. x \in 0..n BY DEF InOrder
<1>2. \A i \in 0..6 : m[i] \subseteq 0..n BY <1>1
<1>3. ASSUME NEW i \in 0..6, NEW j \in 0..6, i < j, NEW a \in m[i], NEW b \in m[j]
      PROVE  a < b
  <2>1. CASE i = k - 1 /\ a = x
    <3>1. CASE j = k BY <2>1, <3>1 DEF Below
    <3>2. CASE j # k
      <4>1. k < j /\ b \in l[j] BY <1>3, <2>1, <3>2
      <4>2. QED BY <2>1, <4>1 DEF InOrder, Below
    <3>3. QED BY <3>1, <3>2
  <2>2. CASE j = k - 1 /\ b = x
    <3>1. i < k /\ a \in l[i] BY <1>3, <2>2
    <3>2. QED BY <2>2, <3>1 DEF InOrder, Below
  <2>3. CASE a \in l[i] /\ b \in l[j] BY <1>3, <2>3 DEF InOrder, Below
  <2>4. QED BY <1>3, <2>1, <2>2, <2>3
<1>4. QED BY <1>2, <1>3 DEF InOrder, Below

\* So does one offered with a number of its own.
LEMMA LineGrows ==
    ASSUME NEW n \in Nat, NEW l, NEW m, InOrder(l),
           \A i \in 0..6 : l[i] \subseteq 0..n,
           \A i \in 0..5 : m[i] \subseteq l[i],
           m[6] \subseteq {n + 1}
    PROVE  InOrder(m) /\ \A i \in 0..6 : m[i] \subseteq 0..(n + 1)
<1>1. \A i \in 0..6 : m[i] \subseteq 0..(n + 1)
  <2>1. \A i \in 0..6 : i \in 0..5 \/ i = 6 OBVIOUS
  <2>2. QED BY <2>1
<1>2. ASSUME NEW i \in 0..6, NEW j \in 0..6, i < j, NEW a \in m[i], NEW b \in m[j]
      PROVE  a < b
  <2>1. i \in 0..5 /\ a \in l[i] BY <1>2
  <2>2. CASE j = 6
    <3>1. b = n + 1 /\ a \in 0..n BY <1>2, <2>1, <2>2
    <3>2. QED BY <3>1
  <2>3. CASE j # 6
    <3>1. j \in 0..5 /\ b \in l[j] BY <1>2, <2>3
    <3>2. QED BY <1>2, <2>1, <3>1 DEF InOrder, Below
  <2>4. QED BY <2>2, <2>3
<1>3. QED BY <1>1, <1>2 DEF InOrder, Below

-----------------------------------------------------------------------------

\* An observation waiting to be put is newer than the last one accepted.
LEMMA AcceptedStep ==
    ASSUME TypeOK, AcceptedInv, [Next]_vars
    PROVE  AcceptedInv'
<1> USE DEF AcceptedInv, senderVars, runVars, genVars, netVars
<1>1. frame \in Nat /\ accepted \in Nat BY ClientAssumption DEF TypeOK
<1>2. CASE Sender
  BY <1>1, <1>2 DEF Sender, SendBegin, SendDrain, SendPutBack, SendPut
<1>3. CASE UNCHANGED <<frame, accepted, sender>> BY <1>3
<1>4. CASE Start \/ Stopper \/ Run
  BY <1>4 DEF Start, Stopper, StopSet, StopPut, Run, RunExit, RunConnect, RunReceive,
              RunCallback, RunEnd, RunError, RunBackoff
<1>5. ASSUME NEW g \in Streams, Gen(g) \/ Net(g) PROVE UNCHANGED <<frame, accepted, sender>>
  BY <1>5 DEF Gen, GenTop, GenAcquire, GenAcquireTimeout, GenInner, GenGet, GenGetTimeout,
              Net, GrpcConsume, ServerReply, CallFail, CallEnd
<1>6. QED BY <1>2, <1>3, <1>4, <1>5 DEF Next, vars

\* Queues stay sorted: what is put is behind everything queued.
LEMMA SortedStep ==
    ASSUME TypeOK, StreamsToCome, LineInv, SortedInv, [Next]_vars
    PROVE  SortedInv'
<1> DEFINE Items == Frames \cup {Sentinel}
<1> USE DEF senderVars, runVars, genVars, netVars
<1>a. queue \in Seq(Items) /\ Sorted(queue) BY DEF TypeOK, SortedInv
<1>b. stream # 0 => /\ stream \in Streams
                    /\ reqs[stream] \in Seq(Frames) /\ Sorted(reqs[stream])
                    /\ reps[stream] \in Seq(Frames) /\ Sorted(reps[stream])
  BY DEF TypeOK, SortedInv, Semaphores, Streams
<1>c. /\ Line[5] = ElementsOf(queue) \ {Sentinel}
      /\ sender # "idle" => Line[6] = {frame}
      /\ stream # 0 => /\ Line[2] = ElementsOf(reps[stream])
                       /\ Line[3] = ElementsOf(reqs[stream])
                       /\ gen[stream] = "yielded" => Line[4] = {item[stream]}
  BY DEF Line, Queued, ElementsOf
<1>d. \A i, j \in 0..6 : i < j => Below(Line[i], Line[j])
  BY DEF LineInv, InOrder
<1>e. 0..MaxFrames = Items BY ClientAssumption DEF Frames, Sentinel
<1> HIDE DEF Items
\* The queue.
<1>1. Sorted(queue')
  <2>1. CASE queue' = queue BY <1>a, <2>1
  <2>2. CASE queue # <<>> /\ queue' = Tail(queue) BY <1>a, <2>2, TakeSorted
  <2>3. CASE StopPut \/ SendPutBack
    <3>1. CASE queue' = Append(queue, Sentinel)
      <4>1. Sentinel \in Items BY DEF Items
      <4>2. QED BY <1>a, <3>1, <4>1, PutSorted
    <3>2. QED BY <2>1, <2>3, <3>1 DEF StopPut, SendPutBack, PutNowait
  <2>4. CASE SendPut
    <3>1. CASE queue' = Append(queue, frame)
      <4>1. frame \in Items BY <1>e DEF TypeOK
      <4>2. Below(ElementsOf(queue) \ {Sentinel}, {frame})
        <5>1. Below(Line[5], Line[6]) BY ONLY <1>d
        <5>2. Line[6] = {frame} BY <1>c, <2>4 DEF SendPut
        <5>3. QED BY <1>c, <5>1, <5>2
      <4>3. QED BY <1>a, <3>1, <4>1, <4>2, PutSorted
    <3>2. QED BY <2>1, <2>4, <3>1 DEF SendPut, PutNowait
  <2>5. CASE Sender BY <2>1, <2>2, <2>3, <2>4, <2>5 DEF Sender, SendBegin, SendDrain
  <2>6. CASE Start \/ Stopper \/ Run
    BY <2>1, <2>3, <2>6 DEF Start, Stopper, StopSet, Run, RunExit, RunConnect, RunReceive,
                RunCallback, RunEnd, RunError, RunBackoff
  <2>7. ASSUME NEW g \in Streams, Gen(g) \/ Net(g) PROVE Sorted(queue')
    BY <2>1, <2>2, <2>7 DEF Gen, GenTop, GenAcquire, GenAcquireTimeout, GenInner, GenGet,
                GenGetTimeout, Net, GrpcConsume, ServerReply, CallFail, CallEnd
  <2>8. QED BY <2>1, <2>5, <2>6, <2>7 DEF Next, vars
\* What the stream carries.
<1>2. stream' # 0 => Sorted(reqs'[stream']) /\ Sorted(reps'[stream'])
  <2>1. CASE UNCHANGED <<stream, reqs, reps>> BY <1>b, <2>1
  <2>2. CASE RunConnect
    <3>1. stream' \in Streams /\ stream' > stream
      BY <2>2, ClientAssumption DEF RunConnect, TypeOK, Streams, Semaphores
    <3>2. reqs'[stream'] = <<>> /\ reps'[stream'] = <<>>
      BY <2>2, <3>1 DEF RunConnect, StreamsToCome
    <3>3. QED BY <3>2, EmptySeq DEF Sorted
  <2>3. CASE RunReceive
    <3>1. stream \in Streams /\ stream # 0 BY <2>3 DEF RunReceive, TypeOK, Streams
    <3>2. reps'[stream] = Tail(reps[stream]) /\ reps[stream] # <<>>
      BY <2>3, <3>1 DEF RunReceive, TypeOK
    <3>3. QED BY <1>b, <2>3, <3>1, <3>2, TakeSorted DEF RunReceive
  <2>4. ASSUME NEW g \in Streams, GrpcConsume(g)
        PROVE  stream' # 0 => Sorted(reqs'[stream']) /\ Sorted(reps'[stream'])
    <3>1. UNCHANGED <<stream, reps>> BY <2>4 DEF GrpcConsume
    <3>2. CASE stream = g /\ stream # 0 /\ reqs' # reqs
      <4>1. gen[stream] = "yielded" /\ item[stream] \in Frames
        BY <2>4, <3>2 DEF GrpcConsume, TypeOK
      <4>2. reqs'[stream] = Append(reqs[stream], item[stream])
        BY <1>b, <2>4, <3>2 DEF GrpcConsume, TypeOK
      <4>3. Below(ElementsOf(reqs[stream]), {item[stream]}) BY <1>c, <1>d, <3>2, <4>1
      <4>4. Below(ElementsOf(reqs[stream]) \ {Sentinel}, {item[stream]})
        BY <4>3 DEF Below
      <4>5. Sorted(reqs'[stream]) BY <1>b, <3>2, <4>1, <4>2, <4>4, PutSorted
      <4>6. QED BY <1>b, <3>1, <3>2, <4>5
    <3>3. CASE stream # g /\ stream # 0
      <4>1. reqs'[stream] = reqs[stream] BY <1>b, <2>4, <3>3 DEF GrpcConsume, TypeOK
      <4>2. QED BY <1>b, <3>1, <3>3, <4>1
    <3>4. QED BY <1>b, <3>1, <3>2, <3>3
  <2>5. ASSUME NEW g \in Streams, ServerReply(g)
        PROVE  stream' # 0 => Sorted(reqs'[stream']) /\ Sorted(reps'[stream'])
    <3>1. UNCHANGED stream BY <2>5 DEF ServerReply
    <3>2. CASE stream = g /\ stream # 0
      <4>1. /\ reqs[stream] # <<>>
            /\ reqs'[stream] = Tail(reqs[stream])
            /\ reps'[stream] = Append(reps[stream], Head(reqs[stream]))
        BY <1>b, <2>5, <3>2 DEF ServerReply, TypeOK
      <4>2. Head(reqs[stream]) \in Frames BY <1>b, <3>2, <4>1, TakeType
      <4>3. Head(reqs[stream]) \in ElementsOf(reqs[stream])
        BY <1>b, <3>2, <4>1, TakeSet
      <4>4. Below(ElementsOf(reps[stream]) \ {Sentinel}, {Head(reqs[stream])})
        <5>1. Below(ElementsOf(reps[stream]), ElementsOf(reqs[stream]))
          BY <1>c, <1>d, <3>2
        <5>2. QED BY <4>3, <5>1 DEF Below
      <4>5. Sorted(reps'[stream]) BY <1>b, <3>2, <4>1, <4>2, <4>4, PutSorted
      <4>6. Sorted(reqs'[stream]) BY <1>b, <3>2, <4>1, TakeSorted
      <4>7. QED BY <3>1, <4>5, <4>6
    <3>3. CASE stream # g /\ stream # 0
      <4>1. reqs'[stream] = reqs[stream] /\ reps'[stream] = reps[stream]
        BY <1>b, <2>5, <3>3 DEF ServerReply, TypeOK
      <4>2. QED BY <1>b, <3>1, <3>3, <4>1
    <3>4. QED BY <3>1, <3>2, <3>3
  <2>6. ASSUME NEW g \in Streams, Gen(g) \/ CallFail(g) \/ CallEnd(g)
        PROVE  UNCHANGED <<stream, reqs, reps>>
    BY <2>6 DEF Gen, GenTop, GenAcquire, GenAcquireTimeout, GenInner, GenGet, GenGetTimeout,
                CallFail, CallEnd
  <2>7. ASSUME Start \/ Stopper \/ Sender \/ (Run /\ ~RunConnect /\ ~RunReceive)
        PROVE  UNCHANGED <<stream, reqs, reps>>
    BY <2>7 DEF Start, Stopper, StopSet, StopPut, Sender, SendBegin, SendDrain, SendPutBack,
                SendPut, Run, RunExit, RunCallback, RunEnd, RunError, RunBackoff
  <2>8. QED BY <2>1, <2>2, <2>3, <2>4, <2>5, <2>6, <2>7 DEF Next, Net, vars
<1>3. QED BY <1>1, <1>2 DEF SortedInv

LEMMA ElementsType ==
    ASSUME NEW S, NEW q \in Seq(S)
    PROVE  ElementsOf(q) \subseteq S
BY LenProperties, ElementOfSeq DEF ElementsOf

\* The line stays in order: an observation that moves on is the oldest of its
\* station, whichever thread moves it.
LEMMA LineStep ==
    ASSUME TypeOK, StreamsToCome, LineInv, SortedInv, [Next]_vars
    PROVE  LineInv'
<1> DEFINE Items == Frames \cup {Sentinel}
           Same(i) == Line'[i] = Line[i]
<1> USE DEF senderVars, runVars, genVars, netVars
<1>a. queue \in Seq(Items) /\ Sorted(queue) BY DEF TypeOK, SortedInv
<1>b. stream # 0 => /\ stream \in Streams
                    /\ reqs[stream] \in Seq(Frames) /\ Sorted(reqs[stream])
                    /\ reps[stream] \in Seq(Frames) /\ Sorted(reps[stream])
  BY DEF TypeOK, SortedInv, Semaphores, Streams
<1>c. /\ Line[0] = {answered}
      /\ Line[1] = IF run = "callback" THEN {reply} ELSE {}
      /\ Line[2] = IF stream = 0 THEN {} ELSE ElementsOf(reps[stream])
      /\ Line[3] = IF stream = 0 THEN {} ELSE ElementsOf(reqs[stream])
      /\ Line[4] = IF stream # 0 /\ gen[stream] = "yielded" THEN {item[stream]} ELSE {}
      /\ Line[5] = ElementsOf(queue) \ {Sentinel}
      /\ Line[6] = IF sender = "idle" THEN {} ELSE {frame}
  BY DEF Line, Queued, ElementsOf
<1>d. /\ Line'[0] = {answered'}
      /\ Line'[1] = IF run' = "callback" THEN {reply'} ELSE {}
      /\ Line'[2] = IF stream' = 0 THEN {} ELSE ElementsOf(reps'[stream'])
      /\ Line'[3] = IF stream' = 0 THEN {} ELSE ElementsOf(reqs'[stream'])
      /\ Line'[4] = IF stream' # 0 /\ gen'[stream'] = "yielded"
                    THEN {item'[stream']} ELSE {}
      /\ Line'[5] = ElementsOf(queue') \ {Sentinel}
      /\ Line'[6] = IF sender' = "idle" THEN {} ELSE {frame'}
  BY DEF Line, Queued, ElementsOf
<1>e. /\ UNCHANGED answered => Same(0)
      /\ UNCHANGED <<run, reply>> => Same(1)
      /\ UNCHANGED <<stream, reps>> => Same(2)
      /\ UNCHANGED <<stream, reqs>> => Same(3)
      /\ UNCHANGED <<stream, gen, item>> => Same(4)
      /\ UNCHANGED queue => Same(5)
      /\ UNCHANGED <<sender, frame>> => Same(6)
  <2>0. ASSUME UNCHANGED answered PROVE Same(0) BY <1>c, <1>d, <2>0
  <2>1. ASSUME UNCHANGED <<run, reply>> PROVE Same(1) BY <1>c, <1>d, <2>1
  <2>2. ASSUME UNCHANGED <<stream, reps>> PROVE Same(2) BY <1>c, <1>d, <2>2
  <2>3. ASSUME UNCHANGED <<stream, reqs>> PROVE Same(3) BY <1>c, <1>d, <2>3
  <2>4. ASSUME UNCHANGED <<stream, gen, item>> PROVE Same(4) BY <1>c, <1>d, <2>4
  <2>5. ASSUME UNCHANGED queue PROVE Same(5) BY <1>c, <1>d, <2>5
  <2>6. ASSUME UNCHANGED <<sender, frame>> PROVE Same(6) BY <1>c, <1>d, <2>6
  <2>7. QED BY <2>0, <2>1, <2>2, <2>3, <2>4, <2>5, <2>6
<1>f. /\ InOrder(Line) /\ frame \in Nat
      /\ \A i \in 0..6 : Line[i] \subseteq 0..frame
  BY ClientAssumption DEF LineInv, TypeOK
<1>g. \A i \in 0..6 : i \in {0, 1, 2, 3, 4, 5, 6} OBVIOUS
<1> HIDE DEF Items
\* Two ways to get there.
<1>s. ASSUME UNCHANGED frame,
             Line'[0] \subseteq Line[0], Line'[1] \subseteq Line[1],
             Line'[2] \subseteq Line[2], Line'[3] \subseteq Line[3],
             Line'[4] \subseteq Line[4], Line'[5] \subseteq Line[5],
             Line'[6] \subseteq Line[6]
      PROVE  LineInv'
  <2>1. \A i \in 0..6 : Line'[i] \subseteq Line[i] BY ONLY <1>g, <1>s
  <2>2. InOrder(Line') /\ \A i \in 0..6 : Line'[i] \subseteq 0..frame
    BY ONLY <1>f, <2>1, LineShrinks
  <2>3. QED BY <1>s, <2>2 DEF LineInv, InOrder
<1>m. ASSUME NEW k \in 1..6, NEW x \in Line[k], UNCHANGED frame,
             \A i \in 0..6 : i # k - 1 => Line'[i] \subseteq Line[i],
             Line'[k - 1] \subseteq Line[k - 1] \cup {x},
             Below({x}, Line'[k])
      PROVE  LineInv'
  <2>1. InOrder(Line') /\ \A i \in 0..6 : Line'[i] \subseteq 0..frame
    BY ONLY <1>f, <1>m, LineMoves
  <2>2. QED BY <1>m, <2>1 DEF LineInv, InOrder
\* The threads, one operation at a time.
<1>1. CASE Start \/ StopSet \/ RunExit \/ RunEnd \/ RunError \/ RunBackoff
  <2>1. Line'[1] \subseteq Line[1]
    BY <1>1, <1>c, <1>d DEF Start, StopSet, RunExit, RunEnd, RunError, RunBackoff
  <2>2. UNCHANGED <<answered, stream, reps, reqs, gen, item, queue, sender, frame>>
    BY <1>1 DEF Start, StopSet, RunExit, RunEnd, RunError, RunBackoff
  <2>3. QED BY <1>e, <1>s, <2>1, <2>2
<1>2. CASE StopPut \/ SendPutBack
  <2>1. Line'[5] \subseteq Line[5]
    <3>1. CASE queue' = queue BY <1>e, <3>1
    <3>2. CASE queue' = Append(queue, Sentinel)
      <4>1. Sentinel \in Items BY DEF Items
      <4>2. QED BY <1>a, <1>c, <1>d, <3>2, <4>1, PutSet
    <3>3. QED BY <1>2, <3>1, <3>2 DEF StopPut, SendPutBack, PutNowait
  <2>2. Line'[6] \subseteq Line[6] BY <1>2, <1>c, <1>d DEF StopPut, SendPutBack
  <2>3. UNCHANGED <<answered, run, reply, stream, reps, reqs, gen, item, frame>>
    BY <1>2 DEF StopPut, SendPutBack
  <2>4. QED BY <1>e, <1>s, <2>1, <2>2, <2>3
<1>3. CASE SendBegin
  <2>1. UNCHANGED <<answered, run, reply, stream, reps, reqs, gen, item, queue>>
    BY <1>3 DEF SendBegin
  <2>2. frame' = frame + 1 BY <1>3 DEF SendBegin
  <2>3. Line'[6] \subseteq {frame + 1} BY <1>d, <2>2
  <2>4. \A i \in 0..5 : Line'[i] \subseteq Line[i]
    <3>1. \A i \in 0..5 : i \in {0, 1, 2, 3, 4, 5} OBVIOUS
    <3>2. QED BY <1>e, <2>1, <3>1
  <2>5. InOrder(Line') /\ \A i \in 0..6 : Line'[i] \subseteq 0..(frame + 1)
    BY ONLY <1>f, <2>3, <2>4, LineGrows
  <2>6. QED BY <2>2, <2>5 DEF LineInv, InOrder
<1>4. CASE SendDrain
  <2>1. Line'[5] \subseteq Line[5]
    <3>1. CASE queue' = queue BY <1>e, <3>1
    <3>2. CASE queue # <<>> /\ queue' = Tail(queue)
      BY <1>a, <1>c, <1>d, <3>2, TakeSet
    <3>3. QED BY <1>4, <3>1, <3>2 DEF SendDrain
  <2>2. Line'[6] \subseteq Line[6] BY <1>4, <1>c, <1>d DEF SendDrain
  <2>3. UNCHANGED <<answered, run, reply, stream, reps, reqs, gen, item, frame>>
    BY <1>4 DEF SendDrain
  <2>4. QED BY <1>e, <1>s, <2>1, <2>2, <2>3
<1>5. CASE SendPut
  <2>1. UNCHANGED <<answered, run, reply, stream, reps, reqs, gen, item, frame>>
    BY <1>5 DEF SendPut
  <2>2. Line[6] = {frame} /\ Line'[6] = {} BY <1>5, <1>c, <1>d DEF SendPut
  <2>3. Line'[5] \subseteq Line[5] \cup {frame}
    <3>1. CASE queue' = queue BY <1>e, <3>1
    <3>2. CASE queue' = Append(queue, frame)
      <4>1. frame \in Items
        BY ClientAssumption DEF TypeOK, Frames, Sentinel, Items
      <4>2. ElementsOf(queue') = ElementsOf(queue) \cup {frame}
        BY <1>a, <3>2, <4>1, PutSet
      <4>3. QED BY <1>c, <1>d, <4>2
    <3>3. QED BY <1>5, <3>1, <3>2 DEF SendPut, PutNowait
  <2>4. \A i \in 0..6 : i # 6 - 1 => Line'[i] \subseteq Line[i]
    BY <1>e, <1>g, <2>1, <2>2
  <2>5. Below({frame}, Line'[6]) BY <2>2 DEF Below
  <2>6. UNCHANGED frame /\ 6 \in 1..6 /\ 6 - 1 = 5 BY <2>1
  <2>7. QED BY <1>m, <2>2, <2>3, <2>4, <2>5, <2>6
<1>6. CASE RunConnect
  <2>1. stream' \in Streams /\ stream' > stream
    BY <1>6, ClientAssumption DEF RunConnect, TypeOK, Streams, Semaphores
  <2>2. reqs'[stream'] = <<>> /\ reps'[stream'] = <<>> /\ gen'[stream'] = "top"
    BY <1>6, <2>1 DEF RunConnect, StreamsToCome, TypeOK
  <2>3. ElementsOf(<<>>) = {} BY EmptySeq DEF ElementsOf
  <2>4. Line'[2] = {} /\ Line'[3] = {} /\ Line'[4] = {} BY <1>d, <2>2, <2>3
  <2>5. Line'[1] = {} BY <1>6, <1>d DEF RunConnect
  <2>6. UNCHANGED <<answered, queue, sender, frame>> BY <1>6 DEF RunConnect
  <2>7. QED BY <1>e, <1>s, <2>4, <2>5, <2>6
<1>7. CASE RunReceive
  <2> DEFINE x == Head(reps[stream])
  <2>1. stream \in Streams /\ stream # 0 BY <1>7 DEF RunReceive, TypeOK, Streams
  <2>2. reps'[stream] = Tail(reps[stream]) /\ reps[stream] # <<>>
    BY <1>7, <2>1 DEF RunReceive, TypeOK
  <2>3. x \in Frames /\ Tail(reps[stream]) \in Seq(Frames) BY <1>b, <2>1, <2>2, TakeType
  <2>4. ElementsOf(reps[stream]) = ElementsOf(Tail(reps[stream])) \cup {x}
    BY <1>b, <2>1, <2>2, TakeSet
  <2>5. Below({x}, ElementsOf(Tail(reps[stream])))
    <3>1. x # Sentinel BY <2>3 DEF Frames, Sentinel
    <3>2. Below({x}, ElementsOf(Tail(reps[stream])) \ {Sentinel})
      BY <1>b, <2>1, <2>2, <3>1, TakeSorted
    <3>3. ElementsOf(Tail(reps[stream])) \subseteq Frames BY <2>3, ElementsType
    <3>4. QED BY <3>2, <3>3 DEF Below, Frames, Sentinel
  <2>6. UNCHANGED <<answered, stream, reqs, gen, item, queue, sender, frame>> /\ reply' = x
    BY <1>7 DEF RunReceive
  <2> HIDE DEF x
  <2>7. x \in Line[2] /\ Line'[2] \subseteq Line[2] /\ Below({x}, Line'[2])
    BY <1>c, <1>d, <2>1, <2>2, <2>4, <2>5, <2>6
  <2>8. Line'[1] \subseteq Line[1] \cup {x} BY <1>d, <2>6
  <2>9. \A i \in 0..6 : i # 2 - 1 => Line'[i] \subseteq Line[i]
    BY <1>e, <1>g, <2>6, <2>7
  <2>10. UNCHANGED frame /\ 2 \in 1..6 /\ 2 - 1 = 1 BY <2>6
  <2>11. QED BY <1>m, <2>7, <2>8, <2>9, <2>10
<1>8. CASE RunCallback
  <2>1. UNCHANGED <<stream, reps, reqs, gen, item, queue, sender, frame>>
    BY <1>8 DEF RunCallback
  <2>2. Line[1] = {reply} /\ Line'[1] = {} /\ Line'[0] = {reply}
    BY <1>8, <1>c, <1>d DEF RunCallback
  <2>3. Below({reply}, Line'[1]) BY <2>2 DEF Below
  <2>4. \A i \in 0..6 : i # 1 - 1 => Line'[i] \subseteq Line[i]
    BY <1>e, <1>g, <2>1, <2>2
  <2>5. UNCHANGED frame /\ 1 \in 1..6 /\ 1 - 1 = 0 BY <2>1
  <2>6. QED BY <1>m, <2>2, <2>3, <2>4, <2>5
<1>9. ASSUME NEW g \in Streams, Gen(g) PROVE LineInv'
  <2>1. UNCHANGED <<answered, run, reply, stream, reps, reqs, sender, frame>>
    BY <1>9 DEF Gen, GenTop, GenAcquire, GenAcquireTimeout, GenInner, GenGet, GenGetTimeout
  <2>2. CASE ~(GenGet(g) /\ g = stream /\ Head(queue) # Sentinel)
    <3>1. Line'[4] \subseteq Line[4]
      <4>1. CASE g = stream
        <5>1. gen'[g] # "yielded"
          BY <1>9, <2>2, <4>1 DEF Gen, GenTop, GenAcquire, GenAcquireTimeout, GenInner,
                GenGet, GenGetTimeout, ReleaseAndReturn, TypeOK
        <5>2. QED BY <1>d, <2>1, <4>1, <5>1
      <4>2. CASE g # stream /\ stream # 0
        <5>1. gen'[stream] = gen[stream] /\ item'[stream] = item[stream]
          BY <1>9, <1>b, <4>2 DEF Gen, GenTop, GenAcquire, GenAcquireTimeout, GenInner,
                GenGet, GenGetTimeout, ReleaseAndReturn, TypeOK
        <5>2. QED BY <1>c, <1>d, <2>1, <5>1
      <4>3. CASE stream = 0 BY <1>d, <2>1, <4>3
      <4>4. QED BY <4>1, <4>2, <4>3
    <3>2. Line'[5] \subseteq Line[5]
      <4>1. CASE queue # <<>> /\ queue' = Tail(queue)
        BY <1>a, <1>c, <1>d, <4>1, TakeSet
      <4>2. queue' = queue \/ (queue # <<>> /\ queue' = Tail(queue))
        BY <1>9 DEF Gen, GenTop, GenAcquire, GenAcquireTimeout, GenInner, GenGet, GenGetTimeout
      <4>3. QED BY <1>e, <4>1, <4>2
    <3>3. QED BY <1>e, <1>s, <2>1, <3>1, <3>2
  <2>3. CASE GenGet(g) /\ g = stream /\ Head(queue) # Sentinel
    <3> DEFINE x == Head(queue)
    <3>1. queue # <<>> /\ queue' = Tail(queue) BY <2>3 DEF GenGet
    <3>2. gen'[stream] = "yielded" /\ item'[stream] = x
      BY <2>3 DEF GenGet, TypeOK
    <3>3. ElementsOf(queue) = ElementsOf(Tail(queue)) \cup {x} BY <1>a, <3>1, TakeSet
    <3>4. Below({x}, ElementsOf(Tail(queue)) \ {Sentinel}) BY <1>a, <2>3, <3>1, TakeSorted
    <3>5. x # Sentinel BY <2>3
    <3> HIDE DEF x
    <3>6. x \in Line[5] /\ Line'[5] \subseteq Line[5] /\ Below({x}, Line'[5])
      BY <1>c, <1>d, <3>1, <3>3, <3>4, <3>5
    <3>7. Line'[4] \subseteq Line[4] \cup {x} BY <1>d, <2>1, <3>2
    <3>8. \A i \in 0..6 : i # 5 - 1 => Line'[i] \subseteq Line[i]
      BY <1>e, <1>g, <2>1, <3>6
    <3>9. UNCHANGED frame /\ 5 \in 1..6 /\ 5 - 1 = 4 BY <2>1
    <3>10. QED BY <1>m, <3>6, <3>7, <3>8, <3>9
  <2>4. QED BY <2>2, <2>3
<1>10. ASSUME NEW g \in Streams, GrpcConsume(g) PROVE LineInv'
  <2>1. UNCHANGED <<answered, run, reply, stream, reps, item, queue, sender, frame>>
    BY <1>10 DEF GrpcConsume
  <2>2. CASE g # stream \/ stream = 0
    <3>1. stream # 0 => gen'[stream] = gen[stream] /\ reqs'[stream] = reqs[stream]
      BY <1>10, <1>b, <2>2 DEF GrpcConsume, TypeOK
    <3>2. Same(3) /\ Same(4) BY <1>c, <1>d, <2>1, <3>1
    <3>3. QED BY <1>e, <1>s, <2>1, <3>2
  <2>3. CASE g = stream /\ stream # 0
    <3>1. gen[stream] = "yielded" /\ gen'[stream] # "yielded" /\ item[stream] \in Frames
      BY <1>10, <2>3 DEF GrpcConsume, TypeOK
    <3>2. Line[4] = {item[stream]} /\ Line'[4] = {}
      BY <1>c, <1>d, <2>1, <2>3, <3>1
    <3>3. \/ reqs'[stream] = reqs[stream]
          \/ reqs'[stream] = Append(reqs[stream], item[stream])
      BY <1>10, <2>3 DEF GrpcConsume, TypeOK
    <3>4. ElementsOf(reqs'[stream]) \subseteq ElementsOf(reqs[stream]) \cup {item[stream]}
      <4>1. ElementsOf(Append(reqs[stream], item[stream])) =
                ElementsOf(reqs[stream]) \cup {item[stream]}
        BY <1>b, <2>3, <3>1, PutSet
      <4>2. QED BY <3>3, <4>1
    <3>5. Line'[3] \subseteq Line[3] \cup {item[stream]}
      BY <1>c, <1>d, <2>1, <2>3, <3>4
    <3>6. \A i \in 0..6 : i # 4 - 1 => Line'[i] \subseteq Line[i]
      BY <1>e, <1>g, <2>1, <3>2
    <3>7. Below({item[stream]}, Line'[4]) BY <3>2 DEF Below
    <3>8. UNCHANGED frame /\ 4 \in 1..6 /\ 4 - 1 = 3 BY <2>1
    <3>9. QED BY <1>m, <3>2, <3>5, <3>6, <3>7, <3>8
  <2>4. QED BY <2>2, <2>3
<1>11. ASSUME NEW g \in Streams, ServerReply(g) PROVE LineInv'
  <2>1. UNCHANGED <<answered, run, reply, stream, gen, item, queue, sender, frame>>
    BY <1>11 DEF ServerReply
  <2>2. CASE g # stream \/ stream = 0
    <3>1. stream # 0 => reqs'[stream] = reqs[stream] /\ reps'[stream] = reps[stream]
      BY <1>11, <1>b, <2>2 DEF ServerReply, TypeOK
    <3>2. Same(2) /\ Same(3) BY <1>c, <1>d, <2>1, <3>1
    <3>3. QED BY <1>e, <1>s, <2>1, <3>2
  <2>3. CASE g = stream /\ stream # 0
    <3> DEFINE x == Head(reqs[stream])
    <3>1. /\ reqs[stream] # <<>>
          /\ reqs'[stream] = Tail(reqs[stream])
          /\ reps'[stream] = Append(reps[stream], x)
      BY <1>11, <2>3 DEF ServerReply, TypeOK
    <3>2. x \in Frames /\ Tail(reqs[stream]) \in Seq(Frames)
      BY <1>b, <2>3, <3>1, TakeType
    <3>3. ElementsOf(reqs[stream]) = ElementsOf(Tail(reqs[stream])) \cup {x}
      BY <1>b, <2>3, <3>1, TakeSet
    <3>4. Below({x}, ElementsOf(Tail(reqs[stream])))
      <4>1. x # Sentinel BY <3>2 DEF Frames, Sentinel
      <4>2. Below({x}, ElementsOf(Tail(reqs[stream])) \ {Sentinel})
        BY <1>b, <2>3, <3>1, <4>1, TakeSorted
      <4>3. ElementsOf(Tail(reqs[stream])) \subseteq Frames BY <3>2, ElementsType
      <4>4. QED BY <4>2, <4>3 DEF Below, Frames, Sentinel
    <3>5. ElementsOf(reps'[stream]) = ElementsOf(reps[stream]) \cup {x}
      BY <1>b, <2>3, <3>1, <3>2, PutSet
    <3> HIDE DEF x
    <3>6. x \in Line[3] /\ Line'[3] \subseteq Line[3] /\ Below({x}, Line'[3])
      BY <1>c, <1>d, <2>1, <2>3, <3>1, <3>3, <3>4
    <3>7. Line'[2] \subseteq Line[2] \cup {x} BY <1>c, <1>d, <2>1, <2>3, <3>5
    <3>8. \A i \in 0..6 : i # 3 - 1 => Line'[i] \subseteq Line[i]
      BY <1>e, <1>g, <2>1, <3>6
    <3>9. UNCHANGED frame /\ 3 \in 1..6 /\ 3 - 1 = 2 BY <2>1
    <3>10. QED BY <1>m, <3>6, <3>7, <3>8, <3>9
  <2>4. QED BY <2>2, <2>3
<1>12. ASSUME UNCHANGED <<answered, run, reply, stream, reps, reqs, gen, item, queue,
                          sender, frame>>
       PROVE  LineInv'
  BY <1>e, <1>s, <1>12
<1>13. ASSUME NEW g \in Streams, CallFail(g) \/ CallEnd(g) PROVE LineInv'
  BY <1>12, <1>13 DEF CallFail, CallEnd
<1>14. CASE UNCHANGED vars BY <1>12, <1>14 DEF vars
<1>15. QED
  BY <1>1, <1>2, <1>3, <1>4, <1>5, <1>6, <1>7, <1>8, <1>9, <1>10, <1>11, <1>13, <1>14
     DEF Next, Stopper, Sender, Run, Net

-----------------------------------------------------------------------------
(* The theorems.                                                            *)

\* Nothing has been offered in the beginning.
LEMMA OrderInit ==
    ASSUME Init
    PROVE  OrderInv
<1>1. ElementsOf(<<>>) = {} BY EmptySeq DEF ElementsOf
<1>2. /\ Line[0] = {0} /\ Line[1] = {} /\ Line[2] = {} /\ Line[3] = {}
      /\ Line[4] = {} /\ Line[5] = {} /\ Line[6] = {} /\ frame = 0
  BY <1>1 DEF Init, Line, Queued, ElementsOf
<1>3. \A i \in 0..6 : i \in {0, 1, 2, 3, 4, 5, 6} OBVIOUS
<1>4. \A i \in 0..6 : Line[i] \subseteq 0..frame BY ONLY <1>2, <1>3
<1>5. \A j \in 0..6 : 0 < j => Line[j] = {} BY ONLY <1>2, <1>3
<1>6. InOrder(Line) BY ONLY <1>5 DEF InOrder, Below
<1>7. SortedInv BY EmptySeq DEF Init, SortedInv, Sorted
<1>8. AcceptedInv BY DEF Init, AcceptedInv
<1>9. QED BY <1>4, <1>6, <1>7, <1>8 DEF OrderInv, LineInv

LEMMA OrderHolds == Spec => [](StreamsToCome /\ OrderInv)
<1>1. Init => StreamsToCome BY DEF Init, StreamsToCome
<1>2. TypeOK /\ StreamsToCome /\ OrderInv /\ [Next]_vars => OrderInv'
  BY LineStep, SortedStep, AcceptedStep DEF OrderInv
<1>3. QED BY <1>1, <1>2, OrderInit, StreamsStep, TypeCorrect, PTL DEF Spec

(***************************************************************************)
(* on_embedding sees every frame id at most once and in increasing order,   *)
(* over any number of streams and leftover generators.                      *)
(***************************************************************************)
THEOREM RepliesInOrder == Spec => []ReplyInOrder
<1>1. OrderInv => ReplyInOrder
  <2> SUFFICES ASSUME OrderInv, run = "callback" PROVE reply > answered
    BY DEF ReplyInOrder
  <2>1. Line[0] = {answered} /\ Line[1] = {reply} BY DEF Line
  <2>2. Below(Line[0], Line[1]) BY DEF OrderInv, LineInv, InOrder
  <2>3. Line[0] \subseteq 0..frame /\ Line[1] \subseteq 0..frame BY DEF OrderInv, LineInv
  <2>4. answered \in Int /\ reply \in Int BY <2>1, <2>3
  <2>5. answered < reply BY <2>1, <2>2 DEF Below
  <2>6. QED BY <2>4, <2>5
<1>2. QED BY <1>1, OrderHolds, PTL

\* Every step of the client is one of the channel: send() accepts, on_embedding
\* is called with the oldest observation that is left, and whatever else
\* happens adds nothing to what may be answered.
LEMMA ChannelStep ==
    ASSUME TypeOK, StreamsToCome, OrderInv, [Next]_vars
    PROVE  [Channel!Next]_(Channel!chanVars)
<1> DEFINE Items == Frames \cup {Sentinel}
           InHand == IF run = "callback" THEN {reply} ELSE {}
           Replied == IF stream = 0 THEN {} ELSE ElementsOf(reps[stream])
           Requested == IF stream = 0 THEN {} ELSE ElementsOf(reqs[stream])
           Yielded == IF stream # 0 /\ gen[stream] = "yielded" THEN {item[stream]} ELSE {}
           Waiting == ElementsOf(queue) \ {Sentinel}
<1> USE DEF senderVars, runVars, genVars, netVars
<1>a. queue \in Seq(Items) BY DEF TypeOK
<1>b. stream # 0 => /\ stream \in Streams
                    /\ reqs[stream] \in Seq(Frames) /\ reps[stream] \in Seq(Frames)
  BY DEF TypeOK, Semaphores, Streams
<1>c. PendingFrames = Waiting \cup InHand \cup Replied \cup Requested \cup Yielded
  BY DEF PendingFrames, Queued, ElementsOf
<1>d. PendingFrames' = (Waiting \cup InHand \cup Replied \cup Requested \cup Yielded)'
  BY DEF PendingFrames, Queued, ElementsOf
<1> HIDE DEF Items
<1>l. ASSUME UNCHANGED <<accepted, answered>>, PendingFrames' \subseteq PendingFrames
      PROVE  Channel!Next
  BY <1>l DEF Channel!Next, Channel!Lose
\* Accept.
<1>1. CASE SendPut
  <2>1. UNCHANGED <<answered, run, reply, stream, reps, reqs, gen, item>>
    BY <1>1 DEF SendPut
  <2>2. CASE queue' = queue /\ accepted' = accepted BY <1>c, <1>d, <1>l, <2>1, <2>2
  <2>3. CASE queue' = Append(queue, frame) /\ accepted' = frame
    <3>1. frame \in Items /\ frame # Sentinel /\ accepted < frame
      BY <1>1, ClientAssumption
         DEF SendPut, OrderInv, AcceptedInv, TypeOK, Frames, Sentinel, Items
    <3>2. ElementsOf(queue') = ElementsOf(queue) \cup {frame}
      BY <1>a, <2>3, <3>1, PutSet
    <3>3. Waiting' = Waiting \cup {frame} BY <3>1, <3>2
    <3>4. PendingFrames' = PendingFrames \cup {frame} BY <1>c, <1>d, <2>1, <3>3
    <3>5. accepted' > accepted
      BY <2>3, <3>1, ClientAssumption DEF TypeOK
    <3>6. QED BY <2>1, <2>3, <3>4, <3>5 DEF Channel!Next, Channel!Accept
  <2>4. QED BY <1>1, <2>2, <2>3 DEF SendPut, PutNowait
\* Answer.
<1>2. CASE RunCallback
  <2>1. UNCHANGED <<accepted, stream, reps, reqs, gen, item, queue>> /\ answered' = reply
    BY <1>2 DEF RunCallback
  <2>2. InHand = {reply} /\ InHand' = {} BY <1>2 DEF RunCallback
  <2>3. UNCHANGED <<Waiting, Replied, Requested, Yielded>> BY <2>1
  <2>4. \A f \in Waiting \cup Replied \cup Requested \cup Yielded : f \in Nat /\ reply < f
    <3>1. /\ Line[1] = {reply} /\ Line[2] = Replied /\ Line[3] = Requested
          /\ Line[4] = Yielded /\ Line[5] = Waiting
      BY <1>2 DEF RunCallback, Line, Queued, ElementsOf
    <3>2. /\ Below(Line[1], Line[2]) /\ Below(Line[1], Line[3])
          /\ Below(Line[1], Line[4]) /\ Below(Line[1], Line[5])
      BY DEF OrderInv, LineInv, InOrder
    <3>3. /\ Line[2] \subseteq Nat /\ Line[3] \subseteq Nat
          /\ Line[4] \subseteq Nat /\ Line[5] \subseteq Nat
      BY DEF OrderInv, LineInv
    <3>4. QED BY ONLY <3>1, <3>2, <3>3 DEF Below
  <2>5. reply \in Nat /\ reply \in PendingFrames
    BY <1>c, <2>2, ClientAssumption DEF TypeOK
  <2>6. \A f \in PendingFrames : reply <= f
    <3>1. \A f \in PendingFrames :
              f = reply \/ f \in Waiting \cup Replied \cup Requested \cup Yielded
      BY <1>c, <2>2
    <3>2. QED BY <2>4, <2>5, <3>1
  <2>7. reply \notin Waiting \cup Replied \cup Requested \cup Yielded BY <2>4, <2>5
  <2>8. PendingFrames' = PendingFrames \ {reply}
    <3> HIDE DEF Waiting, Replied, Requested, Yielded, InHand
    <3>1. QED BY <1>c, <1>d, <2>2, <2>3, <2>7
  <2>9. QED BY <2>1, <2>5, <2>6, <2>8 DEF Channel!Next, Channel!Answer
\* Everything else moves observations on, or loses them.
<1>3. CASE Start \/ StopSet \/ RunExit \/ RunEnd \/ RunError \/ RunBackoff
  <2>1. UNCHANGED <<accepted, answered, stream, reply, reps, reqs, gen, item, queue>>
    BY <1>3 DEF Start, StopSet, RunExit, RunEnd, RunError, RunBackoff
  <2>2. UNCHANGED <<Waiting, Replied, Requested, Yielded>> BY <2>1
  <2>3. InHand' \subseteq InHand
    BY <1>3 DEF Start, StopSet, RunExit, RunEnd, RunError, RunBackoff
  <2>4. QED BY <1>c, <1>d, <1>l, <2>1, <2>2, <2>3
<1>4. CASE StopPut \/ SendPutBack \/ SendBegin \/ SendDrain
  <2>1. UNCHANGED <<accepted, answered, run, reply, stream, reps, reqs, gen, item>>
    BY <1>4 DEF StopPut, SendPutBack, SendBegin, SendDrain
  <2>2. Waiting' \subseteq Waiting
    <3>1. CASE queue' = queue BY <3>1
    <3>2. CASE queue' = Append(queue, Sentinel)
      <4>1. Sentinel \in Items BY DEF Items
      <4>2. ElementsOf(queue') = ElementsOf(queue) \cup {Sentinel}
        BY <1>a, <3>2, <4>1, PutSet
      <4>3. QED BY <4>2
    <3>3. CASE queue # <<>> /\ queue' = Tail(queue) BY <1>a, <3>3, TakeSet
    <3>4. QED
      BY <1>4, <3>1, <3>2, <3>3 DEF StopPut, SendPutBack, SendBegin, SendDrain, PutNowait
  <2>3. UNCHANGED <<InHand, Replied, Requested, Yielded>> BY <2>1
  <2>4. QED BY <1>c, <1>d, <1>l, <2>1, <2>2, <2>3
<1>5. CASE RunConnect
  <2>1. stream' \in Streams /\ stream' > stream
    BY <1>5, ClientAssumption DEF RunConnect, TypeOK, Streams, Semaphores
  <2>2. reqs'[stream'] = <<>> /\ reps'[stream'] = <<>> /\ gen'[stream'] = "top"
    BY <1>5, <2>1 DEF RunConnect, StreamsToCome, TypeOK
  <2>3. ElementsOf(<<>>) = {} BY EmptySeq DEF ElementsOf
  <2>4. Replied' = {} /\ Requested' = {} /\ Yielded' = {} BY <2>2, <2>3
  <2>5. InHand' = {} /\ UNCHANGED <<accepted, answered, Waiting>>
    BY <1>5 DEF RunConnect
  <2>6. QED BY <1>c, <1>d, <1>l, <2>4, <2>5
<1>6. CASE RunReceive
  <2>1. stream \in Streams /\ stream # 0 BY <1>6 DEF RunReceive, TypeOK, Streams
  <2>2. reps'[stream] = Tail(reps[stream]) /\ reps[stream] # <<>> /\ run' = "callback"
    BY <1>6, <2>1 DEF RunReceive, TypeOK
  <2>3. UNCHANGED <<accepted, answered, stream, reqs, gen, item, queue>>
        /\ reply' = Head(reps[stream])
    BY <1>6 DEF RunReceive
  <2>4. Replied = Replied' \cup InHand' BY <1>b, <2>1, <2>2, <2>3, TakeSet
  <2>5. UNCHANGED <<Waiting, Requested, Yielded>> BY <2>3
  <2>6. QED BY <1>c, <1>d, <1>l, <2>3, <2>4, <2>5
<1>7. ASSUME NEW g \in Streams, Gen(g) PROVE Channel!Next
  <2>1. UNCHANGED <<accepted, answered, run, reply, stream, reps, reqs>>
    BY <1>7 DEF Gen, GenTop, GenAcquire, GenAcquireTimeout, GenInner, GenGet, GenGetTimeout
  <2>2. UNCHANGED <<InHand, Replied, Requested>> BY <2>1
  <2>3. Waiting' \subseteq Waiting
    BY <1>7, <1>a, TakeSet
       DEF Gen, GenTop, GenAcquire, GenAcquireTimeout, GenInner, GenGet, GenGetTimeout
  <2>4. Yielded' \subseteq Yielded \cup Waiting
    <3>1. CASE stream = 0 BY <2>1, <3>1
    <3>2. CASE stream # 0 /\ g # stream
      BY <1>7, <1>b, <2>1, <3>2
         DEF Gen, GenTop, GenAcquire, GenAcquireTimeout, GenInner, GenGet, GenGetTimeout,
             ReleaseAndReturn, TypeOK
    <3>3. CASE g = stream /\ gen'[g] # "yielded" BY <2>1, <3>3
    <3>4. CASE g = stream /\ stream # 0 /\ gen'[g] = "yielded"
      <4>1. queue # <<>> /\ Head(queue) # Sentinel /\ item'[stream] = Head(queue)
        BY <1>7, <3>4
           DEF Gen, GenTop, GenAcquire, GenAcquireTimeout, GenInner, GenGet, GenGetTimeout,
               ReleaseAndReturn, TypeOK
      <4>2. Head(queue) \in Waiting BY <1>a, <4>1, TakeSet
      <4>3. QED BY <2>1, <4>1, <4>2
    <3>5. QED BY <3>1, <3>2, <3>3, <3>4
  <2>5. PendingFrames' \subseteq PendingFrames
    <3> HIDE DEF Waiting, InHand, Replied, Requested, Yielded
    <3>1. QED BY <1>c, <1>d, <2>2, <2>3, <2>4
  <2>6. QED BY <1>l, <2>1, <2>5
<1>8. ASSUME NEW g \in Streams, GrpcConsume(g) PROVE Channel!Next
  <2>1. UNCHANGED <<accepted, answered, run, reply, stream, reps, item, queue>>
    BY <1>8 DEF GrpcConsume
  <2>2. Requested' \cup Yielded' \subseteq Requested \cup Yielded
    <3>1. CASE stream = 0 BY <2>1, <3>1
    <3>2. CASE stream # 0 /\ g # stream
      BY <1>8, <1>b, <2>1, <3>2 DEF GrpcConsume, TypeOK
    <3>3. CASE stream # 0 /\ g = stream
      <4>1. gen[stream] = "yielded" /\ gen'[stream] # "yielded" /\ item[stream] \in Frames
        BY <1>8, <3>3 DEF GrpcConsume, TypeOK
      <4>2. \/ reqs'[stream] = reqs[stream]
            \/ reqs'[stream] = Append(reqs[stream], item[stream])
        BY <1>8, <3>3 DEF GrpcConsume, TypeOK
      <4>3. ElementsOf(Append(reqs[stream], item[stream])) =
                ElementsOf(reqs[stream]) \cup {item[stream]}
        BY <1>b, <3>3, <4>1, PutSet
      <4>4. QED BY <2>1, <3>3, <4>1, <4>2, <4>3
    <3>4. QED BY <3>1, <3>2, <3>3
  <2>3. UNCHANGED <<Waiting, InHand, Replied>> BY <2>1
  <2>4. QED BY <1>c, <1>d, <1>l, <2>1, <2>2, <2>3
<1>9. ASSUME NEW g \in Streams, ServerReply(g) PROVE Channel!Next
  <2>1. UNCHANGED <<accepted, answered, run, reply, stream, gen, item, queue>>
    BY <1>9 DEF ServerReply
  <2>2. Replied' \cup Requested' \subseteq Replied \cup Requested
    <3>1. CASE stream = 0 BY <2>1, <3>1
    <3>2. CASE stream # 0 /\ g # stream
      BY <1>9, <1>b, <2>1, <3>2 DEF ServerReply, TypeOK
    <3>3. CASE stream # 0 /\ g = stream
      <4>1. /\ reqs[stream] # <<>>
            /\ reqs'[stream] = Tail(reqs[stream])
            /\ reps'[stream] = Append(reps[stream], Head(reqs[stream]))
        BY <1>9, <3>3 DEF ServerReply, TypeOK
      <4>2. Head(reqs[stream]) \in Frames BY <1>b, <3>3, <4>1, TakeType
      <4>3. ElementsOf(reqs[stream]) =
                ElementsOf(Tail(reqs[stream])) \cup {Head(reqs[stream])}
        BY <1>b, <3>3, <4>1, TakeSet
      <4>4. ElementsOf(reps'[stream]) = ElementsOf(reps[stream]) \cup {Head(reqs[stream])}
        BY <1>b, <3>3, <4>1, <4>2, PutSet
      <4>5. QED BY <2>1, <3>3, <4>1, <4>3, <4>4
    <3>4. QED BY <3>1, <3>2, <3>3
  <2>3. UNCHANGED <<Waiting, InHand, Yielded>> BY <2>1
  <2>4. QED BY <1>c, <1>d, <1>l, <2>1, <2>2, <2>3
<1>10. ASSUME UNCHANGED <<accepted, answered, run, reply, stream, reps, reqs, gen, item, queue>>
       PROVE  Channel!Next
  <2>1. UNCHANGED <<Waiting, InHand, Replied, Requested, Yielded>> BY <1>10
  <2>2. QED BY <1>10, <1>c, <1>d, <1>l, <2>1
<1>11. ASSUME NEW g \in Streams, CallFail(g) \/ CallEnd(g) PROVE Channel!Next
  BY <1>10, <1>11 DEF CallFail, CallEnd
<1>12. CASE UNCHANGED vars BY <1>10, <1>12 DEF vars
<1>13. QED
  BY <1>1, <1>2, <1>3, <1>4, <1>5, <1>6, <1>7, <1>8, <1>9, <1>11, <1>12
     DEF Next, Stopper, Sender, Run, Net

(***************************************************************************)
(* VLAClient implements the channel the edge node relies on: it may lose    *)
(* observations, but neither invents, repeats nor reorders replies.         *)
(***************************************************************************)
THEOREM ClientIsChannel == Spec => ImplementsChannel
<1>1. Init => Channel!Init
  <2>1. ASSUME Init PROVE Channel!Init
    <3>1. Queued = {} BY <2>1, EmptySeq DEF Init, Queued
    <3>2. PendingFrames = {} BY <2>1, <3>1 DEF Init, PendingFrames
    <3>3. QED BY <2>1, <3>2 DEF Init, Channel!Init
  <2>2. QED BY <2>1
<1>2. TypeOK /\ StreamsToCome /\ OrderInv /\ [Next]_vars => [Channel!Next]_(Channel!chanVars)
  BY ChannelStep
<1>3. QED
  BY <1>1, <1>2, TypeCorrect, OrderHolds, PTL DEF Spec, ImplementsChannel, Channel!Spec

=============================================================================
