---------------------------- MODULE VlaServerProofs ----------------------------
(***************************************************************************)
(* Proofs about VlaServer for any number of threads, streams, frames and     *)
(* texts and any context: the unlocked ring of the engine keeps its bounds   *)
(* and its order however the calls of several threads interleave.           *)
(***************************************************************************)
EXTENDS VlaServer, FiniteSetTheorems, TLAPS

\* The pool never runs more calls than it has threads.
PoolBound == Cardinality(Busy) <= Workers

\* Beside the frames that calls are about to pop, one remains for every call
\* that has pushed.
RingCovers ==
    \A s \in Streams :
        pc[s] \in {"check", "over", "stack"} => Cardinality(At({"over"})) < Len(ring)

\* A stream that is not open yet has no handler.
OffIsOff == \A s \in Streams : client[s] = "off" => pc[s] = "off"

\* The inductive invariant.
RingInv ==
    /\ TypeOK
    /\ OffIsOff
    /\ PoolBound
    /\ Len(ring) <= Ctx + 1 + Cardinality(Trimming)
    /\ RingCovers

-----------------------------------------------------------------------------

\* How many streams are at some steps, is a number.
LEMMA CountType == \A steps : Cardinality(At(steps)) \in Nat /\ IsFiniteSet(At(steps))
<1> TAKE steps
<1>1. IsFiniteSet(Streams)
    BY FS_Interval, ServerAssumption DEF Streams
<1>2. At(steps) \subseteq Streams
    BY DEF At
<1>3. IsFiniteSet(At(steps))
    BY ONLY <1>1, <1>2, FS_Subset
<1> QED
    BY ONLY <1>3, FS_CardinalityType

\* What one handler's move changes in such a number.
LEMMA CountGoto ==
    ASSUME TypeOK, NEW s \in Streams, NEW step, Goto(s, step), NEW CONSTANT steps
    PROVE  /\ (step \in steps /\ pc[s] \in steps)
                => Cardinality(At(steps)') = Cardinality(At(steps))
           /\ (step \in steps /\ pc[s] \notin steps)
                => Cardinality(At(steps)') = Cardinality(At(steps)) + 1
           /\ (step \notin steps /\ pc[s] \in steps)
                => Cardinality(At(steps)') = Cardinality(At(steps)) - 1
           /\ (step \notin steps /\ pc[s] \notin steps)
                => Cardinality(At(steps)') = Cardinality(At(steps))
<1>1. \A t \in Streams : pc'[t] = IF t = s THEN step ELSE pc[t]
    BY DEF TypeOK, Goto
<1>2. IsFiniteSet(At(steps))
    BY CountType
<1>3. ASSUME step \in steps PROVE At(steps)' = At(steps) \cup {s}
    BY <1>1, <1>3 DEF At
<1>4. ASSUME step \notin steps PROVE At(steps)' = At(steps) \ {s}
    BY <1>1, <1>4 DEF At
<1>5. s \in At(steps) <=> pc[s] \in steps
    BY DEF At
<1> QED
    BY <1>2, <1>3, <1>4, <1>5, FS_AddElement, FS_RemoveElement

\* The frames a call gives the network are frames of the ring.
LEMMA StackType ==
    ASSUME NEW frames \in Seq(Frames), frames # <<>> PROVE StackFrames(frames) \in Seq(Frames)
<1>1. Ctx + 1 \in Nat
    BY ServerAssumption
<1>2. \A i \in 1..(Ctx + 1) : StackFrames(frames)[i] \in Frames
    BY ServerAssumption DEF StackFrames
<1>3. StackFrames(frames) \in [1..(Ctx + 1) -> Frames]
    BY <1>2 DEF StackFrames
<1> QED
    BY <1>1, <1>3

-----------------------------------------------------------------------------

InPool == Inferring \cup {"recv"}

\* A move that neither begins nor ends at the ring leaves the bounds alone.
LEMMA QuietMove ==
    ASSUME RingInv, TypeOK', NEW s \in Streams, NEW step, Goto(s, step),
           step \in InPool => pc[s] \in InPool,
           pc[s] \notin {"check", "over"}, step \notin {"check", "over", "stack"},
           Len(ring') >= Len(ring), Len(ring') <= Len(ring) \/ Len(ring') <= Ctx + 1
    PROVE  PoolBound' /\ (Len(ring) <= Ctx + 1 + Cardinality(Trimming))' /\ RingCovers'
<1>1. TypeOK
    BY DEF RingInv
<1>2. /\ Cardinality(At(InPool)) \in Nat /\ Cardinality(At({"check", "over"})) \in Nat
      /\ Cardinality(At({"over"})) \in Nat
    BY CountType
<1>3. \/ Cardinality(At(InPool)') = Cardinality(At(InPool))
      \/ Cardinality(At(InPool)') = Cardinality(At(InPool)) - 1
    BY <1>1, CountGoto
<1>4. Cardinality(At({"check", "over"})') = Cardinality(At({"check", "over"}))
    <2>1. step \notin {"check", "over"} /\ pc[s] \notin {"check", "over"}
        OBVIOUS
    <2> QED
        BY ONLY <1>1, <2>1, CountGoto, Goto(s, step), s \in Streams
<1>5. Cardinality(At({"over"})') = Cardinality(At({"over"}))
    <2>1. step \notin {"over"} /\ pc[s] \notin {"over"}
        OBVIOUS
    <2> QED
        BY ONLY <1>1, <2>1, CountGoto, Goto(s, step), s \in Streams
<1>6. Len(ring) \in Nat /\ Len(ring') \in Nat
    BY DEF RingInv, TypeOK
<1>7. PoolBound'
    BY <1>2, <1>3, ServerAssumption DEF RingInv, PoolBound, Busy, InPool
<1>8. (Len(ring) <= Ctx + 1 + Cardinality(Trimming))'
    BY <1>2, <1>4, <1>6, ServerAssumption DEF RingInv, Trimming
<1>9. \A t \in Streams : pc'[t] \in {"check", "over", "stack"} => pc[t] \in {"check", "over", "stack"}
    BY DEF RingInv, TypeOK, Goto
<1>10. RingCovers'
    BY <1>2, <1>5, <1>6, <1>9 DEF RingInv, RingCovers
<1> QED
    BY <1>7, <1>8, <1>10

-----------------------------------------------------------------------------

Idle == UNCHANGED <<pc, ring>>

\* What a call that returns leaves behind has the right types.
ReturnTypes ==
    /\ waiting \in BOOLEAN
    /\ pc \in [Streams -> Inferring \cup {"off", "queued", "recv", "done"}]
    /\ obs \in [Streams -> Observations \cup {None}]
    /\ \A t \in Streams : pc[t] \in Inferring => obs[t] \in Observations
    /\ window \in [Streams -> Seq(Frames)]
    /\ feature \in [Streams -> Texts \cup {None}]
    /\ clash \in SUBSET Streams

LEMMA ReturnType == ASSUME TypeOK, NEW s \in Streams, Return(s) PROVE ReturnTypes'
<1>1. waiting' \in BOOLEAN
    BY Zenon DEF Return
<1>2. pc' \in [Streams -> Inferring \cup {"off", "queued", "recv", "done"}]
    BY DEF TypeOK, Return, Goto
<1>3. /\ obs' \in [Streams -> Observations \cup {None}]
      /\ feature' \in [Streams -> Texts \cup {None}]
      /\ clash' \in SUBSET Streams
    BY DEF TypeOK, Return
<1>4. window' \in [Streams -> Seq(Frames)]
    <2>1. <<>> \in Seq(Frames)
        OBVIOUS
    <2> QED
        BY <2>1 DEF TypeOK, Return
<1>5. ASSUME NEW t \in Streams, pc'[t] \in Inferring PROVE obs'[t] \in Observations
    <2>1. t # s
        BY <1>5 DEF TypeOK, Return, Goto, Inferring
    <2> QED
        BY <1>5, <2>1 DEF TypeOK, Return, Goto
<1> QED
    BY <1>1, <1>2, <1>3, <1>4, <1>5 DEF ReturnTypes

\* Every step of a handler keeps the variables in their types.
LEMMA ServeType == ASSUME RingInv, NEW s \in Streams, Serve(s) PROVE TypeOK'
<1> USE ServerAssumption DEF RingInv, TypeOK, Goto, robotVars, cacheVars, callVars, history, InPool
<1>0. /\ ring \in Seq(Frames)
      /\ pc[s] \in {"check", "over", "stack"} => ring # <<>>
    <2>1. Cardinality(At({"over"})) \in Nat
        BY CountType
    <2> QED
        BY <2>1 DEF RingCovers
<1>1. \A t \in Streams : obs[t] \in Observations => obs[t].frame \in Frames /\ obs[t].text \in Texts
    BY DEF Observations
<1>2. CASE Start(s)
    BY <1>2, <1>0, <1>1 DEF Start, Inferring
<1>3. CASE Recv(s)
    <2>1. overlapped' \in BOOLEAN
        BY ONLY <1>3, Zenon DEF Recv
    <2>2. FirstStep \in Inferring
        BY DEF FirstStep, Inferring, Backends
    <2>3. clash' \in SUBSET Streams
        BY <1>3 DEF Recv, Others, At
    <2>4. request[s] \in Observations
        BY <1>3 DEF Recv
    <2>5. obs' \in [Streams -> Observations \cup {None}] /\ request' \in [Streams -> Observations \cup {None}]
        BY <1>3, <2>4 DEF Recv
    <2>6. /\ pc' \in [Streams -> Inferring \cup {"off", "queued", "recv", "done"}]
          /\ past' \in SUBSET Streams
        BY <1>3, <2>2 DEF Recv
    <2>7. ASSUME NEW t \in Streams, pc'[t] \in Inferring PROVE obs'[t] \in Observations
        BY <1>3, <2>4, <2>7 DEF Recv
    <2> QED
        BY <1>3, <2>1, <2>3, <2>5, <2>6, <2>7 DEF Recv
<1>4. CASE End(s)
    BY <1>4, <1>0, <1>1 DEF End, Inferring
<1>5. CASE Push(s)
    BY <1>5, <1>0, <1>1 DEF Push, Inferring
<1>6. CASE Check(s)
    BY <1>6, <1>0, <1>1 DEF Check, Inferring
<1>7. CASE Pop(s)
    BY <1>7, <1>0, <1>1 DEF Pop, Inferring
<1>8. CASE Stack(s)
    BY <1>8, <1>0, <1>1, StackType DEF Stack, Inferring
<1>9. CASE Lookup(s)
    BY <1>9, <1>0, <1>1 DEF Lookup, Inferring
<1>10. CASE Hit(s)
    BY <1>10, <1>0, <1>1 DEF Hit, Inferring
<1>11. CASE Encode(s)
    BY <1>11, <1>0, <1>1 DEF Encode, Inferring
<1>12. CASE Store(s)
    BY <1>12, <1>0, <1>1 DEF Store, Inferring
<1>13. CASE Context(s)
    <2>0. obs[s].frame \in Frames
        BY <1>13, <1>1 DEF Context, Inferring
    <2>1. Append(ring, obs[s].frame) \in Seq(Frames) /\ Append(ring, obs[s].frame) # <<>>
        BY ONLY <2>0, <1>0
    <2>2. StackFrames(Append(ring, obs[s].frame)) \in Seq(Frames)
        BY ONLY <2>1, StackType
    <2>3. window' \in [Streams -> Seq(Frames)]
        BY <1>13, <2>2 DEF Context
    <2>4. feature' \in [Streams -> Texts \cup {None}]
        BY <1>13, <1>1 DEF Context, Inferring
    <2>5. /\ pc' \in [Streams -> Inferring \cup {"off", "queued", "recv", "done"}]
          /\ \A t \in Streams : pc'[t] \in Inferring => obs'[t] \in Observations
        BY <1>13 DEF Context, Inferring
    <2> QED
        BY <1>13, <2>3, <2>4, <2>5 DEF Context
<1>14. CASE Forward(s)
    <2>1. CASE Return(s)
        BY <1>14, <2>1, ReturnType DEF Forward, ReturnTypes
    <2>2. CASE Goto(s, "append") /\ UNCHANGED <<waiting, obs, callVars, clash>>
        BY <1>14, <2>2 DEF Forward, Inferring
    <2> QED
        BY <1>14, <2>1, <2>2 DEF Forward
<1>15. CASE Fail(s)
    BY <1>15, <1>0, <1>1 DEF Fail, Inferring
<1>16. CASE Keep(s)
    <2>1. ReturnTypes'
        BY <1>16, ReturnType DEF Keep
    <2>2. ring' \in Seq(Frames)
        <3>1. obs[s].frame \in Frames
            BY <1>16, <1>1 DEF Keep, Inferring
        <3>2. Append(ring, obs[s].frame) \in Seq(Frames) /\ Append(ring, obs[s].frame) # <<>>
            BY ONLY <3>1, <1>0
        <3>3. Tail(Append(ring, obs[s].frame)) \in Seq(Frames)
            BY ONLY <3>2
        <3> QED
            BY <1>16, <3>2, <3>3 DEF Keep
    <2> QED
        BY <1>16, <2>1, <2>2 DEF Keep, ReturnTypes
<1> QED
    BY <1>2, <1>3, <1>4, <1>5, <1>6, <1>7, <1>8, <1>9, <1>10, <1>11, <1>12, <1>13, <1>14, <1>15, <1>16 DEF Serve

\* Every step keeps the variables in their types.
LEMMA ServerTypeStep == RingInv /\ [Next]_vars => TypeOK'
<1> SUFFICES ASSUME RingInv, [Next]_vars PROVE TypeOK'
    OBVIOUS
<1>1. ASSUME NEW s \in Streams, Serve(s) PROVE TypeOK'
    BY <1>1, ServeType
<1>2. ASSUME NEW s \in Streams, Connect(s) PROVE TypeOK'
    BY <1>2 DEF Connect, RingInv, TypeOK, Inferring, cacheVars, callVars, history
<1>3. ASSUME NEW s \in Streams, Send(s) PROVE TypeOK'
    <2> USE ServerAssumption DEF RingInv, TypeOK, cacheVars, callVars, history
    <2>1. sent' \in 1..MaxFrames /\ sent' = sent + 1
        BY <1>3 DEF Send
    <2>2. PICK t \in Texts :
            request' = [request EXCEPT ![s] = [frame |-> [stream |-> s, id |-> sent'], text |-> t]]
        BY <1>3, <2>1 DEF Send
    <2>3. [frame |-> [stream |-> s, id |-> sent'], text |-> t] \in Observations
        BY <2>1 DEF Observations, Frames
    <2>4. request' \in [Streams -> Observations \cup {None}]
        BY ONLY <2>2, <2>3, s \in Streams, request \in [Streams -> Observations \cup {None}], TypeOK
    <2> QED
        BY <1>3, <2>1, <2>4 DEF Send
<1>4. ASSUME NEW s \in Streams, NEW how \in {"closed", "vanished"}, Leave(s, how) PROVE TypeOK'
    BY <1>4 DEF Leave, RingInv, TypeOK, cacheVars, callVars, history
<1>5. ASSUME NEW s \in Streams, PeerLost(s) PROVE TypeOK'
    BY <1>5 DEF PeerLost, RingInv, TypeOK, cacheVars, callVars, history
<1>6. CASE UNCHANGED vars
    BY <1>6 DEF vars, RingInv, TypeOK, robotVars, cacheVars, callVars, history
<1> QED
    BY <1>1, <1>2, <1>3, <1>4, <1>5, <1>6 DEF Next, Robot

Bounds == PoolBound /\ Len(ring) <= Ctx + 1 + Cardinality(Trimming) /\ RingCovers

\* A handler's step at the ring or in the pool keeps the bounds, and so does every
\* other, which is quiet.
LEMMA ServeBounds == ASSUME RingInv, TypeOK', NEW s \in Streams, Serve(s) PROVE Bounds'
<1> DEFINE trimming == Cardinality(At({"check", "over"}))
           over == Cardinality(At({"over"}))
           inPool == Cardinality(At(InPool))
<1>0. TypeOK
    BY DEF RingInv
<1>1. trimming \in Nat /\ over \in Nat /\ inPool \in Nat /\ Len(ring) \in Nat /\ Len(ring') \in Nat
    BY CountType DEF RingInv, TypeOK
<1>2. inPool <= Workers /\ Len(ring) <= Ctx + 1 + trimming
    BY DEF RingInv, PoolBound, Busy, Trimming, InPool
<1>3. (inPool' <= Workers /\ Len(ring') <= Ctx + 1 + trimming' /\ RingCovers') => Bounds'
    BY DEF Bounds, PoolBound, Busy, Trimming, InPool
<1>4. CASE Start(s)
    <2>1. Goto(s, "recv") /\ pc[s] = "queued" /\ ring' = ring /\ inPool < Workers
        BY <1>4 DEF Start, Busy, InPool
    <2>2. "recv" \in InPool /\ "queued" \notin InPool
        BY DEF InPool, Inferring
    <2>3. inPool' = inPool + 1
        BY ONLY <1>0, <2>1, <2>2, CountGoto, s \in Streams
    <2>4. trimming' = trimming /\ over' = over
        <3>1. "recv" \notin {"check", "over"} /\ "queued" \notin {"check", "over"}
            OBVIOUS
        <3>2. "recv" \notin {"over"} /\ "queued" \notin {"over"}
            OBVIOUS
        <3> QED
            BY ONLY <1>0, <2>1, <3>1, <3>2, CountGoto, s \in Streams
    <2>5. \A t \in Streams :
            pc'[t] \in {"check", "over", "stack"} => pc[t] \in {"check", "over", "stack"}
        BY <2>1 DEF RingInv, TypeOK, Goto
    <2>6. RingCovers'
        BY <2>1, <2>4, <2>5 DEF RingInv, RingCovers
    <2> QED
        BY <1>1, <1>2, <1>3, <2>1, <2>3, <2>4, <2>6, ServerAssumption
<1>5. CASE Push(s)
    <2>1. Goto(s, "check") /\ pc[s] = "push" /\ Len(ring') = Len(ring) + 1
        <3>1. obs[s].frame \in Frames
            BY <1>5 DEF Push, RingInv, TypeOK, Inferring, Observations
        <3>2. Len(Append(ring, obs[s].frame)) = Len(ring) + 1
            BY ONLY <3>1, <1>0 DEF TypeOK
        <3> QED
            BY <1>5, <3>2 DEF Push
    <2>2. "check" \in InPool /\ "push" \in InPool
        BY DEF InPool, Inferring
    <2>3. inPool' = inPool
        BY ONLY <1>0, <2>1, <2>2, CountGoto, s \in Streams
    <2>4. trimming' = trimming + 1 /\ over' = over
        <3>1. "check" \in {"check", "over"} /\ "push" \notin {"check", "over"}
            OBVIOUS
        <3>2. "check" \notin {"over"} /\ "push" \notin {"over"}
            OBVIOUS
        <3> QED
            BY ONLY <1>0, <2>1, <3>1, <3>2, CountGoto, s \in Streams
    <2>5. over < Len(ring')
        <3>1. CASE over = 0
            BY <1>1, <2>1, <3>1
        <3>2. CASE over # 0
            <4>1. PICK t \in Streams : pc[t] = "over"
                BY <3>2, FS_EmptySet, CountType DEF At
            <4> QED
                BY <1>1, <2>1, <4>1 DEF RingInv, RingCovers
        <3> QED
            BY <3>1, <3>2
    <2>6. RingCovers'
        BY <2>4, <2>5 DEF RingCovers
    <2> QED
        BY <1>1, <1>2, <1>3, <2>1, <2>3, <2>4, <2>6, ServerAssumption
<1>6. CASE Check(s)
    <2>1. ring' = ring /\ pc[s] = "check" /\ over < Len(ring)
        BY <1>6 DEF Check, RingInv, RingCovers
    <2>2. "check" \in InPool /\ "over" \in InPool /\ "stack" \in InPool
        BY DEF InPool, Inferring
    <2>3. CASE Len(ring) > Ctx + 1 /\ Goto(s, "over")
        <3>1. inPool' = inPool
            BY ONLY <1>0, <2>1, <2>2, <2>3, CountGoto, s \in Streams
        <3>2. trimming' = trimming
            BY ONLY <1>0, <2>1, <2>3, CountGoto, s \in Streams,
                    "check" \in {"check", "over"}, "over" \in {"check", "over"}
        <3>3. over' <= inPool'
            <4>1. At({"over"})' \subseteq At(InPool)'
                BY <2>2 DEF At
            <4>2. IsFiniteSet(At(InPool)')
                <5>1. IsFiniteSet(Streams) /\ At(InPool)' \subseteq Streams
                    BY FS_Interval, ServerAssumption DEF Streams, At
                <5> QED
                    BY ONLY <5>1, FS_Subset
            <4> QED
                BY ONLY <4>1, <4>2, FS_Subset
        <3>4. over' \in Nat /\ over' < Len(ring')
            <4>1. over' = over + 1
                BY ONLY <1>0, <2>1, <2>3, CountGoto, s \in Streams,
                        "check" \notin {"over"}, "over" \in {"over"}
            <4> QED
                BY <1>1, <1>2, <2>1, <2>3, <3>1, <3>3, <4>1, ServerAssumption
        <3>5. RingCovers'
            BY <3>4 DEF RingCovers
        <3> QED
            BY <1>2, <1>3, <2>1, <3>1, <3>2, <3>5
    <2>4. CASE Len(ring) <= Ctx + 1 /\ Goto(s, "stack")
        <3>1. inPool' = inPool
            BY ONLY <1>0, <2>1, <2>2, <2>4, CountGoto, s \in Streams
        <3>2. trimming' = trimming - 1
            BY ONLY <1>0, <2>1, <2>4, CountGoto, s \in Streams,
                    "check" \in {"check", "over"}, "stack" \notin {"check", "over"}
        <3>3. over' = over
            BY ONLY <1>0, <2>1, <2>4, CountGoto, s \in Streams,
                    "check" \notin {"over"}, "stack" \notin {"over"}
        <3>4. s \in At({"check", "over"})
            BY <2>1 DEF At
        <3>5. trimming # 0
            BY <3>4, CountType, FS_EmptySet
        <3>6. RingCovers'
            BY <2>1, <3>3 DEF RingCovers
        <3> QED
            BY <1>1, <1>2, <1>3, <2>1, <2>4, <3>1, <3>2, <3>5, <3>6, ServerAssumption
    <2> QED
        BY <1>1, <1>6, <2>3, <2>4, ServerAssumption DEF Check
<1>7. CASE Pop(s)
    <2>1. Goto(s, "stack") /\ pc[s] = "over" /\ ring' = Tail(ring) /\ over < Len(ring)
        BY <1>7 DEF Pop, RingInv, RingCovers
    <2>2. Len(ring') = Len(ring) - 1
        BY <1>0, <1>1, <2>1 DEF TypeOK
    <2>3. "over" \in InPool /\ "stack" \in InPool
        BY DEF InPool, Inferring
    <2>4. inPool' = inPool
        BY ONLY <1>0, <2>1, <2>3, CountGoto, s \in Streams
    <2>5. trimming' = trimming - 1
        BY ONLY <1>0, <2>1, CountGoto, s \in Streams,
                "over" \in {"check", "over"}, "stack" \notin {"check", "over"}
    <2>6. over' = over - 1
        BY ONLY <1>0, <2>1, CountGoto, s \in Streams, "over" \in {"over"}, "stack" \notin {"over"}
    <2>7. RingCovers'
        BY <1>1, <2>1, <2>2, <2>6 DEF RingCovers
    <2> QED
        BY <1>1, <1>2, <1>3, <2>2, <2>4, <2>5, <2>7, ServerAssumption
<1>8. CASE Recv(s)
    <2>1. (\E step \in {"push", "context", "forward"} : Goto(s, step)) /\ ring' = ring /\ pc[s] = "recv"
        BY <1>8 DEF Recv, FirstStep, Backends, RingInv, TypeOK
    <2> QED
        BY <1>1, <2>1, QuietMove DEF Bounds, InPool, Inferring
<1>9. CASE End(s)
    <2>1. (Goto(s, "done")) /\ ring' = ring /\ pc[s] = "recv"
        BY <1>9 DEF End
    <2> QED
        BY <1>1, <2>1, QuietMove DEF Bounds, InPool, Inferring
<1>10. CASE Stack(s)
    <2>1. (Goto(s, "text")) /\ ring' = ring /\ pc[s] = "stack"
        BY <1>10 DEF Stack
    <2> QED
        BY <1>1, <2>1, QuietMove DEF Bounds, InPool, Inferring
<1>11. CASE Lookup(s)
    <2>1. /\ Goto(s, "hit") \/ Goto(s, "encode")
          /\ ring' = ring /\ pc[s] = "text"
        BY <1>11 DEF Lookup
    <2> QED
        BY <1>1, <2>1, QuietMove DEF Bounds, InPool, Inferring
<1>12. CASE Hit(s)
    <2>1. (Goto(s, "forward")) /\ ring' = ring /\ pc[s] = "hit"
        BY <1>12 DEF Hit
    <2> QED
        BY <1>1, <2>1, QuietMove DEF Bounds, InPool, Inferring
<1>13. CASE Encode(s)
    <2>1. (Goto(s, "keyed")) /\ ring' = ring /\ pc[s] = "encode"
        BY <1>13 DEF Encode
    <2> QED
        BY <1>1, <2>1, QuietMove DEF Bounds, InPool, Inferring
<1>14. CASE Store(s)
    <2>1. (Goto(s, "forward")) /\ ring' = ring /\ pc[s] = "keyed"
        BY <1>14 DEF Store
    <2> QED
        BY <1>1, <2>1, QuietMove DEF Bounds, InPool, Inferring
<1>15. CASE Context(s)
    <2>1. (Goto(s, "forward")) /\ ring' = ring /\ pc[s] = "context"
        BY <1>15 DEF Context
    <2> QED
        BY <1>1, <2>1, QuietMove DEF Bounds, InPool, Inferring
<1>16. CASE Forward(s) \/ Fail(s)
    <2>1. /\ Goto(s, "done") \/ Goto(s, "recv") \/ Goto(s, "append")
          /\ ring' = ring /\ pc[s] = "forward"
        BY <1>16 DEF Forward, Fail, Return
    <2> QED
        BY <1>1, <2>1, QuietMove DEF Bounds, InPool, Inferring
<1>17. CASE Keep(s)
    <2>1. (Goto(s, "done") \/ Goto(s, "recv")) /\ pc[s] = "append"
        BY <1>17 DEF Keep, Return
    <2>2. Len(ring') >= Len(ring) /\ (Len(ring') <= Len(ring) \/ Len(ring') <= Ctx + 1)
        <3>1. obs[s].frame \in Frames
            BY <2>1 DEF RingInv, TypeOK, Inferring, Observations
        <3> DEFINE grown == Append(ring, obs[s].frame)
        <3>2. grown \in Seq(Frames) /\ Len(grown) = Len(ring) + 1
            BY ONLY <3>1, <1>0 DEF TypeOK
        <3>3. Tail(grown) \in Seq(Frames) /\ Len(Tail(grown)) = Len(ring)
            BY ONLY <3>2, <1>1
        <3>4. ring' = IF Len(grown) > Ctx THEN Tail(grown) ELSE grown
            BY <1>17 DEF Keep
        <3> QED
            BY ONLY <1>1, <3>2, <3>3, <3>4, ServerAssumption
    <2> QED
        BY <2>1, <2>2, QuietMove DEF Bounds, InPool, Inferring
<1> QED
    BY <1>4, <1>5, <1>6, <1>7, <1>8, <1>9, <1>10, <1>11, <1>12, <1>13, <1>14, <1>15, <1>16, <1>17 DEF Serve

\* Every step of the server, the robot or the network keeps the ring's invariant.
LEMMA RingStep == RingInv /\ [Next]_vars => RingInv'
<1> SUFFICES ASSUME RingInv, [Next]_vars PROVE OffIsOff' /\ Bounds'
    BY ServerTypeStep DEF RingInv, Bounds
<1>0. TypeOK'
    BY ServerTypeStep
<1>1. ASSUME NEW s \in Streams, Serve(s) PROVE OffIsOff' /\ Bounds'
    <2>1. Bounds'
        BY <1>0, <1>1, ServeBounds
    <2>2. pc[s] # "off"
        BY <1>1 DEF Serve, Start, Recv, End, Push, Check, Pop, Stack, Lookup, Hit, Encode, Store,
                    Context, Forward, Fail, Keep
    <2>3. client[s] # "off"
        BY <2>2 DEF RingInv, OffIsOff
    <2>4. (\E step : Goto(s, step)) /\ \A t \in Streams : client'[t] = "off" => client[t] = "off"
        <3>1. CASE Fail(s)
            BY <3>1, <2>3 DEF Fail, RingInv, TypeOK
        <3>2. CASE Forward(s) \/ Keep(s)
            BY <3>2 DEF Forward, Keep, Return
        <3>3. CASE Start(s) \/ Recv(s) \/ End(s) \/ Push(s) \/ Check(s) \/ Pop(s) \/ Stack(s)
            BY <3>3 DEF Start, Recv, End, Push, Check, Pop, Stack, robotVars
        <3>4. CASE Lookup(s) \/ Hit(s) \/ Encode(s) \/ Store(s) \/ Context(s)
            BY <3>4 DEF Lookup, Hit, Encode, Store, Context, robotVars
        <3> QED
            BY <1>1, <3>1, <3>2, <3>3, <3>4 DEF Serve
    <2>5. OffIsOff'
        BY <2>3, <2>4 DEF RingInv, OffIsOff, TypeOK, Goto
    <2> QED
        BY <2>1, <2>5
<1>2. ASSUME NEW s \in Streams, Connect(s) PROVE OffIsOff' /\ Bounds'
    <2>1. Goto(s, "queued") /\ pc[s] = "off" /\ ring' = ring
        BY <1>2 DEF Connect, Goto, RingInv, OffIsOff
    <2>2. Bounds'
        <3>1. "queued" \notin InPool /\ Len(ring) \in Nat
            BY DEF InPool, Inferring, RingInv, TypeOK
        <3>2. Len(ring') >= Len(ring) /\ Len(ring') <= Len(ring)
            BY ONLY <2>1, <3>1
        <3> QED
            BY <1>0, <2>1, <3>1, <3>2, QuietMove DEF Bounds
    <2>3. OffIsOff'
        BY <1>2 DEF Connect, RingInv, OffIsOff, TypeOK
    <2> QED
        BY <2>2, <2>3
<1>3. ASSUME UNCHANGED <<pc, ring>>, \A t \in Streams : client'[t] = "off" => client[t] = "off"
      PROVE  OffIsOff' /\ Bounds'
    <2>1. OffIsOff'
        BY <1>3 DEF RingInv, OffIsOff
    <2>2. \A steps : At(steps)' = At(steps)
        BY <1>3 DEF At
    <2>3. Busy' = Busy /\ Trimming' = Trimming /\ At({"over"})' = At({"over"})
        BY <1>3 DEF Busy, Trimming, At
    <2> QED
        BY <1>3, <2>1, <2>3 DEF RingInv, Bounds, PoolBound, RingCovers
<1>4. ASSUME NEW s \in Streams, Send(s) \/ Leave(s, "closed") \/ Leave(s, "vanished") \/ PeerLost(s)
      PROVE  UNCHANGED <<pc, ring>> /\ \A t \in Streams : client'[t] = "off" => client[t] = "off"
    BY <1>4 DEF Send, Leave, PeerLost, RingInv, TypeOK
<1>5. CASE UNCHANGED vars
    BY <1>3, <1>5 DEF vars, robotVars
<1> QED
    BY <1>1, <1>2, <1>3, <1>4, <1>5 DEF Next, Robot

\* The server starts with an empty ring and no calls.
LEMMA RingInit == Init => RingInv
<1> SUFFICES ASSUME Init PROVE RingInv
    OBVIOUS
<1>1. waiting \in BOOLEAN /\ overlapped \in BOOLEAN
    BY Zenon DEF Init
<1>2. TypeOK
    BY <1>1, ServerAssumption DEF Init, TypeOK, Inferring
<1>3. OffIsOff
    BY DEF Init, OffIsOff
<1>4. Busy = {} /\ Trimming = {} /\ At({"over"}) = {}
    BY DEF Init, Busy, Trimming, At, Inferring
<1>5. PoolBound /\ Len(ring) <= Ctx + 1 + Cardinality(Trimming) /\ RingCovers
    BY <1>4, FS_EmptySet, ServerAssumption DEF Init, PoolBound, RingCovers
<1> QED
    BY <1>2, <1>3, <1>5 DEF RingInv

\* Every variable of server.py's handlers, of the engine and of MoVLA keeps its
\* type, whatever the robot and the threads do.
THEOREM ServerTypeCorrect == Spec => []TypeOK
<1>1. RingInv => TypeOK
    BY DEF RingInv
<1> QED
    BY <1>1, RingInit, RingStep, PTL DEF Spec

\* The three unlocked statements of _push_frame (omnivla_edge_engine.py:237-240)
\* keep the ring within its size plus the frames being pushed, and never empty it
\* under a call that stacks it, for any pool no larger than the ring.
THEOREM RingIsBounded == Spec => []RingBounded
<1>1. RingInv => RingBounded
    <2> SUFFICES ASSUME RingInv PROVE RingBounded
        OBVIOUS
    <2>1. ASSUME NEW s \in Streams, pc[s] \in {"check", "over", "stack"} PROVE ring # <<>>
        <3>1. Cardinality(At({"over"})) \in Nat /\ Cardinality(At({"over"})) < Len(ring)
            BY <2>1, CountType DEF RingInv, RingCovers
        <3>2. Len(<<>>) = 0
            OBVIOUS
        <3> QED
            BY <3>1, <3>2
    <2> QED
        BY <2>1 DEF RingInv, RingBounded
<1> QED
    BY <1>1, RingInit, RingStep, PTL DEF Spec

-----------------------------------------------------------------------------

\* While a call that overlapped no other is inferring, no other is.
Alone ==
    \A s \in Streams \ clash : pc[s] \in Inferring =>
        \A t \in Streams \ {s} : pc[t] \notin Inferring

\* The steps of a call between its window and the network.
Stacked(s) ==
    \/ pc[s] \in {"text", "hit", "encode", "keyed"}
    \/ pc[s] = "forward" /\ backend \in {"omnivla_edge", "movla"}

\* The frame it pushed is the newest of the ring, then of its window.
OwnFrame ==
    \A s \in Streams \ clash :
        /\ pc[s] \in {"check", "over", "stack"} => ring[Len(ring)] = obs[s].frame
        /\ Stacked(s) => window[s][Ctx + 1] = obs[s].frame

\* Before any calls overlap, the cached feature is that of the key, but between
\* the two writes of one call.
OwnText ==
    ~overlapped =>
        /\ clash = {}
        /\ (\A s \in Streams : pc[s] # "keyed") => textFeat \in {None, textKey}
        /\ \A s \in Streams :
            /\ pc[s] = "hit" => textFeat = obs[s].text
            /\ pc[s] = "keyed" => textKey = obs[s].text
            /\ (pc[s] = "forward" /\ backend \in {"omnivla_edge", "movla"})
                => feature[s] = obs[s].text

OwnInv == RingInv /\ Alone /\ OwnFrame /\ OwnText

\* A call that overlaps no other sees the others only start or end.
LEMMA OthersRest ==
    ASSUME OwnInv, NEW s \in Streams, Serve(s), NEW t \in Streams \ {s},
           t \notin clash', pc'[t] \in Inferring
    PROVE  Start(s) \/ End(s)
<1>1. /\ t \notin clash
      /\ pc[t] \in Inferring
    BY DEF OwnInv, RingInv, TypeOK, Serve, Start, Recv, End, Push, Check, Pop, Stack, Lookup, Hit,
           Encode, Store, Context, Forward, Fail, Keep, Return, Goto, history
<1>2. pc[s] \notin Inferring
    BY <1>1 DEF OwnInv, Alone
<1>3. ~Recv(s)
    BY <1>1 DEF Recv, Others, At
<1> QED
    BY <1>2, <1>3 DEF Serve, Push, Check, Pop, Stack, Lookup, Hit, Encode, Store, Context, Forward,
                      Fail, Keep, Inferring

\* The handler waits for its next observation, or is over.
LEMMA CallEnds ==
    ASSUME TypeOK, NEW s \in Streams,
           Start(s) \/ End(s) \/ Fail(s) \/ Keep(s) \/ (Forward(s) /\ Return(s))
    PROVE  pc'[s] \in {"recv", "done"} /\ pc'[s] \notin Inferring
<1>1. Goto(s, "recv") \/ Goto(s, "done")
    BY Zenon DEF Start, End, Fail, Keep, Forward, Return
<1> QED
    BY <1>1 DEF TypeOK, Goto, Inferring

\* A handler's step leaves a call alone that was, or begins one alone.
LEMMA AloneStep == ASSUME OwnInv, TypeOK', NEW s \in Streams, Serve(s) PROVE Alone'
<1> SUFFICES ASSUME NEW u \in Streams, u \notin clash', pc'[u] \in Inferring,
                    NEW w \in Streams \ {u}
             PROVE  pc'[w] \notin Inferring
    BY DEF Alone
<1> USE DEF OwnInv, RingInv, TypeOK, Goto
<1>1. CASE u # s
    <2>1. Start(s) \/ End(s)
        BY <1>1, OthersRest
    <2>2. pc'[s] \notin Inferring
        BY <2>1, CallEnds
    <2>3. clash' = clash /\ \A v \in Streams \ {s} : pc'[v] = pc[v]
        BY <2>1 DEF Start, End, history
    <2>4. pc[u] \in Inferring /\ u \in Streams \ clash
        BY <1>1, <2>3
    <2> QED
        BY <2>2, <2>3, <2>4 DEF Alone
<1>2. CASE u = s
    <2>1. CASE Recv(s)
        BY <1>2, <2>1 DEF Recv, Others, At
    <2>2. CASE Start(s) \/ End(s) \/ Fail(s) \/ Keep(s) \/ (Forward(s) /\ Return(s))
        BY <1>2, <2>2, CallEnds
    <2>3. CASE Push(s) \/ Check(s) \/ Pop(s) \/ Stack(s)
        BY <1>2, <2>3 DEF Push, Check, Pop, Stack, Alone, history, Inferring
    <2>4. CASE Lookup(s) \/ Hit(s) \/ Encode(s) \/ Store(s) \/ Context(s)
        BY <1>2, <2>4 DEF Lookup, Hit, Encode, Store, Context, Alone, history, Inferring
    <2>5. CASE Forward(s) /\ Goto(s, "append") /\ UNCHANGED clash
        BY <1>2, <2>5 DEF Forward, Alone, Inferring
    <2> QED
        BY <2>1, <2>2, <2>3, <2>4, <2>5 DEF Serve, Forward
<1> QED
    BY <1>1, <1>2

\* Stacking a ring shows the network its newest frame last.
LEMMA StackLast ==
    ASSUME NEW frames \in Seq(Frames), frames # <<>>
    PROVE  StackFrames(frames)[Ctx + 1] = frames[Len(frames)]
<1>1. Ctx + 1 \in 1..(Ctx + 1) /\ Len(frames) \in Nat /\ Len(frames) >= 1
    BY ServerAssumption
<1>2. Len(frames) - (Ctx + 1) + (Ctx + 1) = Len(frames)
    BY <1>1, ServerAssumption
<1> QED
    BY <1>1, <1>2 DEF StackFrames

\* A handler's step keeps the frames of a call that is alone its own.
LEMMA FrameStep == ASSUME OwnInv, TypeOK', NEW s \in Streams, Serve(s) PROVE OwnFrame'
<1> SUFFICES ASSUME NEW u \in Streams, u \notin clash'
             PROVE  /\ pc'[u] \in {"check", "over", "stack"} => ring'[Len(ring')] = obs'[u].frame
                    /\ Stacked(u)' => window'[u][Ctx + 1] = obs'[u].frame
    BY DEF OwnFrame
<1> USE DEF OwnInv, RingInv, TypeOK, Goto
<1>0. \A v \in Streams : pc[v] \in {"check", "over", "stack"} => ring # <<>>
    <2> TAKE v \in Streams
    <2>1. Cardinality(At({"over"})) \in Nat /\ Len(<<>>) = 0
        BY CountType
    <2> QED
        BY <2>1 DEF RingCovers
<1>1. CASE pc'[u] \notin Inferring
    BY <1>1 DEF Stacked, Inferring
<1>2. CASE u # s /\ pc'[u] \in Inferring
    <2>1. Start(s) \/ End(s)
        BY <1>2, OthersRest
    <2>2. /\ UNCHANGED <<backend, obs, ring, window, clash>>
          /\ pc'[u] = pc[u]
        BY <1>2, <2>1 DEF Start, End, callVars, history
    <2>3. Stacked(u)' <=> Stacked(u)
        BY <2>2 DEF Stacked
    <2> QED
        BY <2>2, <2>3 DEF OwnFrame
<1>3. CASE u = s /\ pc'[u] \in Inferring
    <2>1. CASE Recv(s)
        BY <1>3, <2>1 DEF Recv, FirstStep, Stacked, Backends
    <2>2. CASE Start(s) \/ End(s) \/ Fail(s) \/ Keep(s) \/ (Forward(s) /\ Return(s))
        BY <1>3, <2>2, CallEnds
    <2>3. CASE Push(s)
        <3>1. obs[s].frame \in Frames
            BY <2>3 DEF Push, Inferring, Observations
        <3>2. Append(ring, obs[s].frame)[Len(Append(ring, obs[s].frame))] = obs[s].frame
            BY ONLY <3>1, ring \in Seq(Frames), TypeOK
        <3> QED
            BY <1>3, <2>3, <3>2 DEF Push, Stacked
    <2>4. CASE Check(s)
        BY <1>3, <2>4 DEF Check, OwnFrame, Stacked, history
    <2>5. CASE Pop(s)
        <3>1. Cardinality(At({"over"})) \in Nat \ {0}
            <4>1. s \in At({"over"})
                BY <2>5 DEF Pop, At
            <4> QED
                BY <4>1, CountType, FS_EmptySet
        <3>2. Len(ring) >= 2
            BY <2>5, <3>1 DEF Pop, RingCovers
        <3>3. Tail(ring)[Len(Tail(ring))] = ring[Len(ring)]
            BY ONLY <3>2, ring \in Seq(Frames), TypeOK
        <3> QED
            BY <1>3, <2>5, <3>3 DEF Pop, OwnFrame, Stacked, history
    <2>6. CASE Stack(s)
        <3>1. ring # <<>>
            BY <1>0, <2>6 DEF Stack
        <3>2. StackFrames(ring)[Ctx + 1] = ring[Len(ring)]
            BY ONLY <3>1, StackLast, ring \in Seq(Frames), TypeOK
        <3> QED
            BY <1>3, <2>6, <3>2 DEF Stack, OwnFrame, history
    <2>7. CASE Lookup(s) \/ Hit(s) \/ Encode(s) \/ Store(s)
        BY <1>3, <2>7 DEF Lookup, Hit, Encode, Store, OwnFrame, Stacked, history, callVars
    <2>8. CASE Context(s)
        <3>1. obs[s].frame \in Frames
            BY <2>8 DEF Context, Inferring, Observations
        <3> DEFINE all == Append(ring, obs[s].frame)
        <3>2. all \in Seq(Frames) /\ all # <<>> /\ all[Len(all)] = obs[s].frame
            <4>1. ring \in Seq(Frames)
                OBVIOUS
            <4>2. all \in Seq(Frames) /\ Len(all) = Len(ring) + 1 /\ Len(ring) \in Nat
                BY ONLY <3>1, <4>1
            <4>3. all[Len(all)] = obs[s].frame
                BY ONLY <3>1, <4>1
            <4>4. Len(<<>>) = 0
                OBVIOUS
            <4> HIDE DEF all
            <4> QED
                BY ONLY <4>2, <4>3, <4>4
        <3>3. StackFrames(all)[Ctx + 1] = obs[s].frame
            <4> HIDE DEF all
            <4> QED
                BY ONLY <3>2, StackLast
        <3> QED
            BY <1>3, <2>8, <3>3 DEF Context
    <2>9. CASE Forward(s) /\ Goto(s, "append")
        BY <1>3, <2>9 DEF Stacked
    <2> QED
        BY <2>1, <2>2, <2>3, <2>4, <2>5, <2>6, <2>7, <2>8, <2>9 DEF Serve, Forward
<1> QED
    BY <1>1, <1>2, <1>3

\* A handler's step moves no other handler.
LEMMA OneMoves ==
    ASSUME TypeOK, NEW s \in Streams, Serve(s) PROVE \A u \in Streams \ {s} : pc'[u] = pc[u]
<1>1. CASE Start(s) \/ Recv(s) \/ End(s) \/ Push(s) \/ Check(s) \/ Pop(s) \/ Stack(s)
    BY <1>1 DEF Start, Recv, End, Push, Check, Pop, Stack, Goto, TypeOK
<1>2. CASE Lookup(s) \/ Hit(s) \/ Encode(s) \/ Store(s) \/ Context(s)
    BY <1>2 DEF Lookup, Hit, Encode, Store, Context, Goto, TypeOK
<1>3. CASE Forward(s) \/ Fail(s) \/ Keep(s)
    BY <1>3 DEF Forward, Fail, Keep, Return, Goto, TypeOK
<1> QED
    BY <1>1, <1>2, <1>3 DEF Serve

\* Until calls overlap, a handler's step keeps the cached feature that of its key.
LEMMA TextStep == ASSUME OwnInv, TypeOK', NEW s \in Streams, Serve(s) PROVE OwnText'
<1> SUFFICES ASSUME overlapped' = FALSE
             PROVE  /\ clash' = {}
                    /\ (\A u \in Streams : pc'[u] # "keyed") => textFeat' \in {None, textKey'}
                    /\ \A u \in Streams :
                        /\ pc'[u] = "hit" => textFeat' = obs'[u].text
                        /\ pc'[u] = "keyed" => textKey' = obs'[u].text
                        /\ (pc'[u] = "forward" /\ backend' \in {"omnivla_edge", "movla"})
                            => feature'[u] = obs'[u].text
    BY DEF OwnText, TypeOK
<1> USE DEF OwnInv, RingInv, TypeOK, Goto
<1>1. ~overlapped /\ clash = {} /\ backend' = backend
    <2>1. (overlapped => overlapped') /\ backend' = backend
        BY Zenon DEF Serve, Start, Recv, End, Push, Check, Pop, Stack, Lookup, Hit, Encode, Store,
                     Context, Forward, Fail, Keep, history
    <2> QED
        BY <2>1 DEF OwnText
<1>2. clash' = {}
    <2>1. CASE Recv(s)
        BY <1>1, <2>1 DEF Recv
    <2>2. CASE ~Recv(s)
        BY <1>1, <2>2 DEF Serve, Start, End, Push, Check, Pop, Stack, Lookup, Hit, Encode, Store,
                          Context, Forward, Fail, Keep, Return, history
    <2> QED
        BY <2>1, <2>2
<1>3. ASSUME NEW u \in Streams, u # s, pc'[u] \in Inferring
      PROVE  /\ pc'[u] = "hit" => textFeat' = obs'[u].text
             /\ pc'[u] = "keyed" => textKey' = obs'[u].text
             /\ (pc'[u] = "forward" /\ backend' \in {"omnivla_edge", "movla"})
                 => feature'[u] = obs'[u].text
    <2>1. Start(s) \/ End(s)
        BY <1>2, <1>3, OthersRest
    <2> QED
        BY <1>1, <1>3, <2>1 DEF Start, End, OwnText, cacheVars, callVars
<1>4. /\ pc'[s] = "hit" => textFeat' = obs'[s].text
      /\ pc'[s] = "keyed" => textKey' = obs'[s].text
      /\ (pc'[s] = "forward" /\ backend' \in {"omnivla_edge", "movla"})
          => feature'[s] = obs'[s].text
    <2>1. CASE Recv(s)
        BY <1>1, <2>1 DEF Recv, FirstStep, Backends
    <2>2. CASE Start(s) \/ End(s) \/ Fail(s) \/ Keep(s) \/ (Forward(s) /\ Return(s))
        BY <2>2, CallEnds
    <2>3. CASE Push(s) \/ Check(s) \/ Pop(s) \/ Stack(s)
        BY <2>3 DEF Push, Check, Pop, Stack
    <2>4. CASE Lookup(s)
        <3>1. \A u \in Streams : pc[u] # "keyed"
            BY <1>1, <2>4 DEF Lookup, Alone, Inferring
        <3>2. textFeat \in {None, textKey}
            BY <1>1, <3>1 DEF OwnText
        <3> QED
            BY <2>4, <3>2 DEF Lookup, cacheVars
    <2>5. CASE Hit(s)
        BY <1>1, <2>5 DEF Hit, OwnText
    <2>6. CASE Encode(s)
        BY <2>6 DEF Encode
    <2>7. CASE Store(s) \/ Context(s)
        BY <2>7 DEF Store, Context
    <2>8. CASE Forward(s) /\ Goto(s, "append")
        BY <2>8 DEF Goto
    <2> QED
        BY <2>1, <2>2, <2>3, <2>4, <2>5, <2>6, <2>7, <2>8 DEF Serve, Forward
<1>5. ASSUME \A u \in Streams : pc'[u] # "keyed" PROVE textFeat' \in {None, textKey'}
    <2>1. CASE Store(s)
        BY <1>1, <2>1 DEF Store, OwnText
    <2>2. CASE ~Store(s)
        <3>1. ~Encode(s)
            BY <1>5 DEF Encode
        <3>2. textFeat' = textFeat /\ textKey' = textKey /\ pc[s] # "keyed"
            BY <2>2, <3>1 DEF Serve, Start, Recv, End, Push, Check, Pop, Stack, Lookup, Hit, Context,
                              Forward, Fail, Keep, cacheVars
        <3>3. \A u \in Streams \ {s} : pc'[u] = pc[u]
            BY OneMoves
        <3> QED
            BY <1>1, <1>5, <3>2, <3>3 DEF OwnText
    <2> QED
        BY <2>1, <2>2
<1>6. {"hit", "keyed", "forward"} \subseteq Inferring
    BY DEF Inferring
<1> QED
    BY <1>2, <1>3, <1>4, <1>5, <1>6

\* Every step keeps them.
LEMMA OwnStep == OwnInv /\ [Next]_vars => OwnInv'
<1> SUFFICES ASSUME OwnInv, [Next]_vars PROVE Alone' /\ OwnFrame' /\ OwnText'
    BY RingStep DEF OwnInv
<1>0. TypeOK' /\ RingInv
    BY RingStep DEF OwnInv, RingInv
<1>1. ASSUME NEW s \in Streams, Serve(s) PROVE Alone' /\ OwnFrame' /\ OwnText'
    BY <1>0, <1>1, AloneStep, FrameStep, TextStep
<1>2. ASSUME NEW s \in Streams, Connect(s) PROVE Alone' /\ OwnFrame' /\ OwnText'
    <2>1. /\ pc[s] = "off" /\ pc'[s] = "queued" /\ \A t \in Streams \ {s} : pc'[t] = pc[t]
          /\ UNCHANGED <<backend, obs, ring, textKey, textFeat, window, feature, clash, overlapped>>
        BY <1>0, <1>2 DEF Connect, RingInv, OffIsOff, TypeOK, cacheVars, callVars, history
    <2>2. Alone'
        BY <2>1 DEF OwnInv, Alone, Inferring
    <2>3. OwnFrame'
        BY <2>1 DEF OwnInv, OwnFrame, Stacked
    <2>4. OwnText'
        <3> SUFFICES ASSUME overlapped' = FALSE PROVE OwnText'
            BY <1>0 DEF OwnText, TypeOK
        <3> QED
            BY <2>1 DEF OwnInv, OwnText
    <2> QED
        BY <2>2, <2>3, <2>4
<1>3. ASSUME UNCHANGED <<backend, pc, obs, ring, textKey, textFeat, window, feature, clash, overlapped>>
      PROVE  Alone' /\ OwnFrame' /\ OwnText'
    BY <1>3 DEF OwnInv, Alone, OwnFrame, Stacked, OwnText
<1>4. ASSUME NEW s \in Streams, Send(s) \/ Leave(s, "closed") \/ Leave(s, "vanished") \/ PeerLost(s)
      PROVE  UNCHANGED <<backend, pc, obs, ring, textKey, textFeat, window, feature, clash, overlapped>>
    BY <1>4 DEF Send, Leave, PeerLost, cacheVars, callVars, history
<1>5. CASE UNCHANGED vars
    BY <1>3, <1>5 DEF vars, cacheVars, callVars, history
<1> QED
    BY <1>1, <1>2, <1>3, <1>4, <1>5 DEF Next, Robot

\* Calls that do not overlap, which is all "serialise calls per engine"
\* (omnivla_edge_engine.py:159) asks for, infer on their own frame and text, for
\* any number of streams that follow or overlap one another.
THEOREM SerialCallsInferOnTheirOwn == Spec => []OwnUnlessOverlap
<1>1. Init => OwnInv
    <2> SUFFICES ASSUME Init PROVE Alone /\ OwnFrame /\ OwnText
        BY RingInit DEF OwnInv
    <2> QED
        BY DEF Init, Alone, OwnFrame, OwnText, Stacked, Inferring
<1>2. OwnInv => OwnUnlessOverlap
    BY DEF OwnInv, OwnFrame, OwnText, Stacked, OwnUnlessOverlap
<1> QED
    BY <1>1, <1>2, OwnStep, PTL DEF Spec

-----------------------------------------------------------------------------

\* Frames of one stream stand in the order the robot sent them.
Aged(q) ==
    \A i, j \in 1..Len(q) : (i < j /\ q[i].stream = q[j].stream) => q[i].id <= q[j].id

UpTo(q, s, n) == \A i \in 1..Len(q) : q[i].stream = s => q[i].id <= n

\* An observation of a stream that nothing in the ring is newer than.
Newest(s, o) == o.frame.stream = s /\ o.frame.id <= sent /\ UpTo(ring, s, o.frame.id)

\* What a call is going to push is no older than what its stream has pushed,
\* because a stream's next request waits until the handler is back.
AgeInv ==
    /\ Aged(ring)
    /\ \A s \in Streams :
        /\ UpTo(ring, s, sent)
        /\ pc[s] \in Inferring => Newest(s, obs[s])
        /\ request[s] # None => Newest(s, request[s])
        /\ (pc[s] \in Inferring /\ request[s] # None)
            => obs[s].frame.id <= request[s].frame.id

\* Appending a frame as new as the others of its stream.
LEMMA AppendAged ==
    ASSUME NEW q \in Seq(Frames), NEW f \in Frames, Aged(q), UpTo(q, f.stream, f.id)
    PROVE  /\ Aged(Append(q, f))
           /\ \A s, n : (UpTo(q, s, n) /\ (f.stream = s => f.id <= n)) => UpTo(Append(q, f), s, n)
<1>1. /\ Len(q) \in Nat /\ Len(Append(q, f)) = Len(q) + 1
      /\ \A i \in 1..Len(q) : Append(q, f)[i] = q[i]
      /\ Append(q, f)[Len(q) + 1] = f
    OBVIOUS
<1>2. \A i \in 1..(Len(q) + 1) : i \in 1..Len(q) \/ i = Len(q) + 1
    BY <1>1
<1>3. ASSUME NEW s, NEW n, UpTo(q, s, n), f.stream = s => f.id <= n
      PROVE  UpTo(Append(q, f), s, n)
    BY ONLY <1>1, <1>2, <1>3 DEF UpTo
<1>4. ASSUME NEW i \in 1..(Len(q) + 1), NEW j \in 1..(Len(q) + 1), i < j,
             Append(q, f)[i].stream = Append(q, f)[j].stream
      PROVE  Append(q, f)[i].id <= Append(q, f)[j].id
    <2>1. i \in 1..Len(q)
        BY <1>1, <1>4
    <2>2. CASE j = Len(q) + 1
        BY <1>1, <1>4, <2>1, <2>2 DEF UpTo
    <2>3. CASE j \in 1..Len(q)
        BY <1>1, <1>4, <2>1, <2>3 DEF Aged
    <2> QED
        BY <1>2, <2>2, <2>3
<1> QED
    BY <1>1, <1>3, <1>4 DEF Aged

\* Dropping the oldest.
LEMMA TailAged ==
    ASSUME NEW q \in Seq(Frames), q # <<>>
    PROVE  /\ Aged(q) => Aged(Tail(q))
           /\ \A s, n : UpTo(q, s, n) => UpTo(Tail(q), s, n)
<1>1. /\ Len(q) \in Nat \ {0} /\ Len(Tail(q)) = Len(q) - 1
      /\ \A i \in 1..(Len(q) - 1) : Tail(q)[i] = q[i + 1] /\ i + 1 \in 1..Len(q)
    OBVIOUS
<1>2. \A i, j \in 1..(Len(q) - 1) : i < j => i + 1 < j + 1
    BY <1>1
<1>3. Aged(q) => Aged(Tail(q))
    BY ONLY <1>1, <1>2 DEF Aged
<1>4. \A s, n : UpTo(q, s, n) => UpTo(Tail(q), s, n)
    BY ONLY <1>1 DEF UpTo
<1> QED
    BY <1>3, <1>4

\* Stacking.
LEMMA StackAged ==
    ASSUME NEW q \in Seq(Frames), q # <<>>, Aged(q)
    PROVE  /\ DOMAIN StackFrames(q) = 1..(Ctx + 1)
           /\ \A i, j \in 1..(Ctx + 1) :
                (i < j /\ StackFrames(q)[i].stream = StackFrames(q)[j].stream)
                    => StackFrames(q)[i].id <= StackFrames(q)[j].id
<1> DEFINE at(i) == IF Len(q) - (Ctx + 1) + i >= 1 THEN Len(q) - (Ctx + 1) + i ELSE 1
<1>1. Len(q) \in Nat \ {0} /\ Ctx \in Nat
    BY ServerAssumption
<1>2. \A i \in 1..(Ctx + 1) : at(i) \in 1..Len(q) /\ StackFrames(q)[i] = q[at(i)]
    BY <1>1 DEF StackFrames
<1>3. \A i, j \in 1..(Ctx + 1) : i < j => (at(i) < at(j) \/ at(i) = at(j))
    BY <1>1
<1>4. \A k \in 1..Len(q) : q[k].id <= q[k].id
    <2>1. \A k \in 1..Len(q) : q[k] \in Frames
        OBVIOUS
    <2> QED
        BY <2>1 DEF Frames
<1> HIDE DEF at
<1>5. ASSUME NEW i \in 1..(Ctx + 1), NEW j \in 1..(Ctx + 1), i < j,
             q[at(i)].stream = q[at(j)].stream
      PROVE  q[at(i)].id <= q[at(j)].id
    BY <1>2, <1>3, <1>4, <1>5 DEF Aged
<1>6. DOMAIN StackFrames(q) = 1..(Ctx + 1)
    BY DEF StackFrames
<1> QED
    BY <1>2, <1>5, <1>6

\* Every step keeps the ages, in the ring and in the windows.
LEMMA AgeStep ==
    ASSUME RingInv, AgeInv, WindowInOrder, [Next]_vars
    PROVE  AgeInv' /\ WindowInOrder'
<1>0. TypeOK /\ TypeOK'
    BY RingStep DEF RingInv
<1>r. /\ ring \in Seq(Frames) /\ sent \in Nat
      /\ \A s \in Streams : pc[s] \in {"check", "over", "stack"} => ring # <<>>
    <2>1. Cardinality(At({"over"})) \in Nat /\ Len(<<>>) = 0
        BY CountType
    <2> QED
        BY <2>1, ServerAssumption DEF RingInv, RingCovers, TypeOK
<1>f. \A s \in Streams : pc[s] \in Inferring =>
            obs[s].frame \in Frames /\ obs[s].frame.id \in Nat
    BY <1>0 DEF TypeOK, Observations, Frames
<1> USE DEF robotVars, cacheVars, callVars, history
\* Steps that put nothing in the ring, and leave the calls their observations.
<1>a. ASSUME ring' = ring \/ (ring # <<>> /\ ring' = Tail(ring)), sent' = sent,
             \A t \in Streams : pc'[t] \in Inferring => pc[t] \in Inferring /\ obs'[t] = obs[t],
             \A t \in Streams : request'[t] \in {request[t], None}
      PROVE  AgeInv'
    <2>1. Aged(ring') /\ \A s, n : UpTo(ring, s, n) => UpTo(ring', s, n)
        BY <1>a, <1>r, TailAged DEF AgeInv
    <2>2. ASSUME NEW s \in Streams, NEW o, Newest(s, o)
          PROVE  o.frame.stream = s /\ o.frame.id <= sent' /\ UpTo(ring', s, o.frame.id)
        BY <1>a, <2>1, <2>2 DEF Newest
    <2> QED
        BY <1>a, <2>1, <2>2 DEF AgeInv, Newest
<1>w. ASSUME \A t \in Streams : window'[t] \in {window[t], <<>>}
      PROVE  WindowInOrder'
    BY <1>w DEF WindowInOrder
\* A call stacks a ring that is in order.
<1>x. ASSUME NEW s \in Streams, NEW q \in Seq(Frames), q # <<>>, Aged(q),
             window' = [window EXCEPT ![s] = StackFrames(q)]
      PROVE  WindowInOrder'
    <2>1. /\ window'[s] = StackFrames(q)
          /\ \A t \in Streams \ {s} : window'[t] = window[t]
        BY <1>0, <1>x DEF TypeOK
    <2> DEFINE w == StackFrames(q)
    <2>2. /\ DOMAIN w = 1..(Ctx + 1)
          /\ \A i, j \in 1..(Ctx + 1) :
                (i < j /\ w[i].stream = w[j].stream) => w[i].id <= w[j].id
        BY <1>x, StackAged
    <2> HIDE DEF w
    <2>3. ASSUME NEW t \in Streams, NEW i \in DOMAIN window'[t], NEW j \in DOMAIN window'[t],
                 i < j, window'[t][i].stream = window'[t][j].stream
          PROVE  window'[t][i].id <= window'[t][j].id
        <3>1. CASE t = s
            BY ONLY <2>1, <2>2, <2>3, <3>1 DEF w
        <3>2. CASE t # s
            BY ONLY WindowInOrder, <2>1, <2>3, <3>2 DEF WindowInOrder
        <3> QED
            BY <3>1, <3>2
    <2> QED
        BY <2>3 DEF WindowInOrder
<1>1. ASSUME NEW s \in Streams, Start(s) \/ End(s) \/ Check(s) \/ Lookup(s) \/ Encode(s)
      PROVE  AgeInv' /\ WindowInOrder'
    <2>1. UNCHANGED <<ring, sent, obs, request, window>>
        BY <1>1 DEF Start, End, Check, Lookup, Encode
    <2>2. \A t \in Streams : pc'[t] \in Inferring => pc[t] \in Inferring
        BY <1>0, <1>1 DEF TypeOK, Start, End, Check, Lookup, Encode, Goto, Inferring
    <2> QED
        BY <1>a, <1>w, <2>1, <2>2
<1>2. ASSUME NEW s \in Streams, Hit(s) \/ Store(s) \/ Pop(s)
      PROVE  AgeInv' /\ WindowInOrder'
    <2>1. UNCHANGED <<sent, obs, request, window>>
        BY <1>2 DEF Hit, Store, Pop
    <2>2. \A t \in Streams : pc'[t] \in Inferring => pc[t] \in Inferring
        BY <1>0, <1>2 DEF TypeOK, Hit, Store, Pop, Goto, Inferring
    <2>3. ring' = ring \/ (ring # <<>> /\ ring' = Tail(ring))
        BY <1>2, <1>r DEF Hit, Store, Pop
    <2> QED
        BY <1>a, <1>w, <2>1, <2>2, <2>3
<1>3. ASSUME NEW s \in Streams, Forward(s) \/ Fail(s)
      PROVE  AgeInv' /\ WindowInOrder'
    <2>1. UNCHANGED <<ring, sent, request>>
        BY <1>3 DEF Forward, Fail
    <2>2. \A t \in Streams : window'[t] \in {window[t], <<>>}
        BY <1>0, <1>3 DEF TypeOK, Forward, Fail, Return
    <2>3. \A t \in Streams : pc'[t] \in Inferring => pc[t] \in Inferring /\ obs'[t] = obs[t]
        BY <1>0, <1>3 DEF TypeOK, Forward, Fail, Return, Goto, Inferring
    <2> QED
        BY <1>a, <1>w, <2>1, <2>2, <2>3
<1>4. ASSUME NEW s \in Streams, Recv(s) PROVE AgeInv' /\ WindowInOrder'
    <2>1. UNCHANGED <<ring, sent, window>> /\ request[s] # None
        BY <1>4 DEF Recv
    <2>2. /\ obs'[s] = request[s] /\ request'[s] = None
          /\ \A t \in Streams \ {s} :
                pc'[t] = pc[t] /\ obs'[t] = obs[t] /\ request'[t] = request[t]
        BY <1>0, <1>4 DEF TypeOK, Recv, Goto
    <2>3. AgeInv'
        BY <2>1, <2>2 DEF AgeInv, Newest
    <2> QED
        BY <1>w, <2>1, <2>3
<1>5. ASSUME NEW s \in Streams, Push(s) PROVE AgeInv' /\ WindowInOrder'
    <2> DEFINE f == obs[s].frame
    <2>1. UNCHANGED <<sent, obs, request, window>> /\ ring' = Append(ring, f)
        BY <1>5 DEF Push
    <2>2. \A t \in Streams : pc'[t] \in Inferring => pc[t] \in Inferring
        BY <1>0, <1>5 DEF TypeOK, Push, Goto, Inferring
    <2>3. /\ f \in Frames /\ f.id \in Nat /\ f.stream = s /\ f.id <= sent
          /\ UpTo(ring, s, f.id) /\ Aged(ring)
          /\ request[s] # None => f.id <= request[s].frame.id
        BY <1>5, <1>f DEF Push, Inferring, AgeInv, Newest
    <2> HIDE DEF f
    <2>4. /\ Aged(ring')
          /\ \A t, n : (UpTo(ring, t, n) /\ (f.stream = t => f.id <= n)) => UpTo(ring', t, n)
        BY <1>r, <2>1, <2>3, AppendAged
    <2>5. ASSUME NEW t \in Streams
          PROVE  /\ UpTo(ring', t, sent)
                 /\ pc'[t] \in Inferring => Newest(t, obs[t])'
                 /\ request[t] # None => Newest(t, request[t])'
        <3>1. CASE t # s
            BY <2>1, <2>2, <2>3, <2>4, <3>1 DEF AgeInv, Newest
        <3>2. CASE t = s
            BY <2>1, <2>2, <2>3, <2>4, <3>2 DEF AgeInv, Newest, f
        <3> QED
            BY <3>1, <3>2
    <2>6. AgeInv'
        BY <2>1, <2>2, <2>4, <2>5 DEF AgeInv
    <2> QED
        BY <1>w, <2>1, <2>6
<1>6. ASSUME NEW s \in Streams, Stack(s) PROVE AgeInv' /\ WindowInOrder'
    <2>1. UNCHANGED <<ring, sent, obs, request>> /\ ring # <<>>
        BY <1>6, <1>r DEF Stack
    <2>2. \A t \in Streams : pc'[t] \in Inferring => pc[t] \in Inferring
        BY <1>0, <1>6 DEF TypeOK, Stack, Goto, Inferring
    <2>3. WindowInOrder'
        BY <1>6, <1>r, <1>x, <2>1 DEF Stack, AgeInv
    <2> QED
        BY <1>a, <2>1, <2>2, <2>3
<1>7. ASSUME NEW s \in Streams, Context(s) PROVE AgeInv' /\ WindowInOrder'
    <2> DEFINE f == obs[s].frame
    <2>1. UNCHANGED <<ring, sent, obs, request>>
        BY <1>7 DEF Context
    <2>2. \A t \in Streams : pc'[t] \in Inferring => pc[t] \in Inferring
        BY <1>0, <1>7 DEF TypeOK, Context, Goto, Inferring
    <2>3. f \in Frames /\ UpTo(ring, f.stream, f.id) /\ Aged(ring)
        BY <1>7, <1>f DEF Context, Inferring, AgeInv, Newest
    <2>4. window' = [window EXCEPT ![s] = StackFrames(Append(ring, f))]
        BY <1>7 DEF Context
    <2> HIDE DEF f
    <2>5. Aged(Append(ring, f)) /\ Append(ring, f) \in Seq(Frames) /\ Append(ring, f) # <<>>
        BY <1>r, <2>3, AppendAged
    <2>6. WindowInOrder'
        BY <1>x, <2>4, <2>5
    <2> QED
        BY <1>a, <2>1, <2>2, <2>6
<1>8. ASSUME NEW s \in Streams, Keep(s) PROVE AgeInv' /\ WindowInOrder'
    <2> DEFINE f == obs[s].frame
               grown == Append(ring, f)
    <2>1. UNCHANGED <<sent, request>> /\ (ring' = grown \/ ring' = Tail(grown))
        BY <1>8 DEF Keep
    <2>2. /\ pc'[s] \notin Inferring /\ window'[s] = <<>>
          /\ \A t \in Streams \ {s} :
                pc'[t] = pc[t] /\ obs'[t] = obs[t] /\ window'[t] = window[t]
        BY <1>0, <1>8 DEF TypeOK, Keep, Return, Goto, Inferring
    <2>3. /\ f \in Frames /\ f.id \in Nat /\ f.stream = s /\ f.id <= sent
          /\ UpTo(ring, s, f.id) /\ Aged(ring)
          /\ request[s] # None => f.id <= request[s].frame.id
        BY <1>8, <1>f DEF Keep, Inferring, AgeInv, Newest
    <2> HIDE DEF f
    <2>4. /\ Aged(grown) /\ grown \in Seq(Frames) /\ grown # <<>>
          /\ \A t, n : (UpTo(ring, t, n) /\ (f.stream = t => f.id <= n)) => UpTo(grown, t, n)
        <3>1. grown \in Seq(Frames) /\ grown # <<>>
            BY ONLY <1>r, <2>3
        <3> QED
            BY <1>r, <2>3, <3>1, AppendAged
    <2> HIDE DEF grown
    <2>5. /\ Aged(ring')
          /\ \A t, n : (UpTo(ring, t, n) /\ (f.stream = t => f.id <= n)) => UpTo(ring', t, n)
        BY <2>1, <2>4, TailAged
    <2>6. ASSUME NEW t \in Streams
          PROVE  /\ UpTo(ring', t, sent)
                 /\ pc'[t] \in Inferring => Newest(t, obs[t])'
                 /\ request[t] # None => Newest(t, request[t])'
        <3>1. CASE t # s
            BY <2>1, <2>2, <2>3, <2>5, <3>1 DEF AgeInv, Newest
        <3>2. CASE t = s
            BY <2>1, <2>2, <2>3, <2>5, <3>2 DEF AgeInv, Newest
        <3> QED
            BY <3>1, <3>2
    <2>7. AgeInv'
        BY <2>1, <2>2, <2>5, <2>6 DEF AgeInv
    <2>8. WindowInOrder'
        BY <1>w, <2>2
    <2> QED
        BY <2>7, <2>8
<1>9. ASSUME NEW s \in Streams, Send(s) PROVE AgeInv' /\ WindowInOrder'
    <2>1. UNCHANGED <<ring, pc, obs, window>> /\ sent' = sent + 1
        BY <1>9 DEF Send
    <2>2. /\ request'[s].frame.stream = s /\ request'[s].frame.id = sent + 1
          /\ \A t \in Streams \ {s} : request'[t] = request[t]
        BY <1>0, <1>9 DEF TypeOK, Send
    <2>3. ASSUME NEW t \in Streams
          PROVE  /\ UpTo(ring, t, sent) => UpTo(ring, t, sent + 1)
                 /\ \A o : Newest(t, o) /\ o.frame.id \in Nat => Newest(t, o)'
        <3>1. \A i \in 1..Len(ring) : ring[i].id \in Nat
            <4>1. \A i \in 1..Len(ring) : ring[i] \in Frames
                BY <1>r
            <4> QED
                BY <4>1 DEF Frames
        <3> QED
            BY <1>r, <2>1, <3>1 DEF Newest, UpTo
    <2>4. \A t \in Streams : request[t] # None => request[t].frame.id \in Nat
        BY <1>0 DEF TypeOK, Observations, Frames
    <2>5. Newest(s, request[s])'
        BY <1>r, <2>1, <2>2, <2>3 DEF AgeInv, Newest
    <2>6. pc[s] \in Inferring => obs[s].frame.id <= sent + 1
        BY <1>r, <1>f DEF AgeInv, Newest
    <2>7. AgeInv'
        BY <1>f, <2>1, <2>2, <2>3, <2>4, <2>5, <2>6 DEF AgeInv
    <2> QED
        BY <1>w, <2>1, <2>7
<1>10. ASSUME NEW s \in Streams, Connect(s) PROVE AgeInv' /\ WindowInOrder'
    <2>1. UNCHANGED <<ring, sent, obs, request, window>>
        BY <1>10 DEF Connect
    <2>2. \A t \in Streams : pc'[t] \in Inferring => pc[t] \in Inferring
        BY <1>0, <1>10 DEF TypeOK, Connect, Inferring
    <2> QED
        BY <1>a, <1>w, <2>1, <2>2
<1>11. ASSUME NEW s \in Streams, Leave(s, "closed") \/ Leave(s, "vanished") \/ PeerLost(s)
       PROVE  AgeInv' /\ WindowInOrder'
    <2>1. UNCHANGED <<ring, sent, pc, obs, window>>
        BY <1>11 DEF Leave, PeerLost
    <2>2. \A t \in Streams : request'[t] \in {request[t], None}
        BY <1>0, <1>11 DEF TypeOK, Leave, PeerLost
    <2> QED
        BY <1>a, <1>w, <2>1, <2>2
<1>12. CASE UNCHANGED vars
    BY <1>12, <1>a, <1>w DEF vars
<1> QED
    BY <1>1, <1>2, <1>3, <1>4, <1>5, <1>6, <1>7, <1>8, <1>9, <1>10, <1>11, <1>12
       DEF Next, Serve, Robot

\* "Oldest first" (omnivla_edge_engine.py:139) for every pool, context and
\* interleaving: the network never sees two frames of one stream the wrong way round.
THEOREM WindowsAreInOrder == Spec => []WindowInOrder
<1>1. Init => AgeInv /\ WindowInOrder
    BY DEF Init, AgeInv, WindowInOrder, Aged, UpTo, Inferring
<1> QED
    BY <1>1, RingInit, RingStep, AgeStep, PTL DEF Spec

=============================================================================
