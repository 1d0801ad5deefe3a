------------------------ MODULE EdgeActionBridgeProofs ------------------------
(***************************************************************************)
(* Proofs about EdgeActionBridge for any number of chunks: its variables     *)
(* keep their types, and a silence is answered by one empty path.            *)
(***************************************************************************)
EXTENDS EdgeActionBridge, TLAPS

\* After an empty path a second one is out of reach: the bridge is about to note
\* or has noted the stop, or a chunk waits in the slot or in the snapshot; and
\* a snapshot taken meanwhile does not say that the watchdog should fire.
NoSecondEmpty ==
    emptied = 1 =>
        /\ \/ stopped
           \/ pending # NoChunk
           \/ tick = "emptied"
           \/ tick = "read" /\ snap # NoChunk
        /\ tick = "read" => snap # NoChunk \/ ~snapIdle

\* The inductive invariant.
EmptyInv == TypeOK /\ OneEmptyPath /\ NoSecondEmpty

-----------------------------------------------------------------------------

\* Every step of the bridge keeps its variables in their types.
LEMMA BridgeTypeStep == TypeOK /\ [Next]_vars => TypeOK'
<1> SUFFICES ASSUME TypeOK, [Next]_vars PROVE TypeOK'
    OBVIOUS
<1> USE BridgeAssumption DEF TypeOK, Chunks, NoChunk, EmptyPath
<1>1. CASE HandleChunk
    <2>1. stopped' \in BOOLEAN /\ snapIdle' \in BOOLEAN /\ rxAge' \in {"never", "recent", "old"}
        BY <1>1, Zenon DEF HandleChunk, tickVars
    <2>2. /\ chunks' \in 0..MaxChunks /\ pending' \in Chunks \cup {NoChunk}
          /\ tick' \in {"idle", "read", "emptied"} /\ snap' \in Chunks \cup {NoChunk}
          /\ path' \in Chunks \cup {EmptyPath} /\ emptied' \in Nat
        BY <1>1 DEF HandleChunk, tickVars
    <2> QED
        BY <2>1, <2>2
<1>2. CASE Silence
    BY <1>2 DEF Silence, tickVars
<1>3. CASE TickRead
    BY <1>3 DEF TickRead
<1>4. CASE TickPublish
    BY <1>4 DEF TickPublish
<1>5. CASE TickStopped
    BY <1>5 DEF TickStopped
<1>6. CASE UNCHANGED vars
    BY <1>6 DEF vars, tickVars
<1> QED
    BY <1>1, <1>2, <1>3, <1>4, <1>5, <1>6 DEF Next, Timer

\* The strengthened invariant is kept by every step: one case per action.
LEMMA EmptyStep == EmptyInv /\ [Next]_vars => EmptyInv'
<1> SUFFICES ASSUME EmptyInv, [Next]_vars PROVE OneEmptyPath' /\ NoSecondEmpty'
    BY BridgeTypeStep DEF EmptyInv
<1> USE BridgeAssumption DEF EmptyInv, TypeOK, OneEmptyPath, NoSecondEmpty, Chunks, NoChunk,
        EmptyPath
<1>1. CASE HandleChunk
    BY <1>1 DEF HandleChunk, tickVars
<1>2. CASE Silence
    BY <1>2 DEF Silence, tickVars
<1>3. CASE TickRead
    BY <1>3 DEF TickRead
<1>4. CASE TickPublish
    BY <1>4 DEF TickPublish
<1>5. CASE TickStopped
    BY <1>5 DEF TickStopped
<1>6. CASE UNCHANGED vars
    BY <1>6 DEF vars, tickVars
<1> QED
    BY <1>1, <1>2, <1>3, <1>4, <1>5, <1>6 DEF Next, Timer

\* A bridge that has just started satisfies it.
LEMMA EmptyInit == Init => EmptyInv
<1> SUFFICES ASSUME Init PROVE EmptyInv
    OBVIOUS
<1>1. stopped \in BOOLEAN /\ snapIdle \in BOOLEAN
    BY Zenon DEF Init
<1>2. OneEmptyPath /\ NoSecondEmpty
    BY DEF Init, OneEmptyPath, NoSecondEmpty
<1> QED
    BY <1>1, <1>2, BridgeAssumption DEF EmptyInv, Init, TypeOK, NoChunk, EmptyPath

\* The bridge's variables keep their types: in particular what is published is
\* always a chunk that was received, or the empty path.
THEOREM BridgeTypeCorrect == Spec => []TypeOK
<1>1. Init => TypeOK
    BY EmptyInit DEF EmptyInv
<1> QED
    BY <1>1, BridgeTypeStep, PTL DEF Spec

\* The watchdog of edge_action_grpc_node.py:153-159 publishes one empty path per
\* silence, however chunks interleave with its three steps.
THEOREM SilenceIsAnsweredOnce == Spec => []OneEmptyPath
<1>1. EmptyInv => OneEmptyPath
    BY DEF EmptyInv
<1> QED
    BY EmptyInit, <1>1, EmptyStep, PTL DEF Spec

=============================================================================
