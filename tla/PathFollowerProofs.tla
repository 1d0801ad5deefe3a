-------------------------- MODULE PathFollowerProofs --------------------------
(***************************************************************************)
(* Proofs about PathFollower for any set of commands and any hold timeout:  *)
(* the command latch of _decide_cmd never overrides a path.                 *)
(***************************************************************************)
EXTENDS PathFollower, TLAPS

\* A held command that no new path may drop is the latest path's own command.
HeldIsLatest == (held # NoCmd /\ ~pathNew) => (held = latest /\ ~mismatch)

\* Nothing of a path in the wrong frame is kept but the mismatch.
MismatchIsStop == mismatch => latest = Stop

\* The inductive invariant.
LatchInv == TypeOK /\ HeldIsLatest /\ MismatchIsStop

-----------------------------------------------------------------------------

\* A tick publishes what the latest path says, whichever way _decide_cmd takes:
\* with the invariant the hold's branch has nothing to hold.
LEMMA TickHonours == ASSUME LatchInv, Tick PROVE cmd' = latest
<1> USE FollowerAssumption DEF LatchInv, TypeOK, HeldIsLatest, MismatchIsStop, Commands
<1>1. CASE mismatch \/ latest \in Moving \/ pathNew
    BY <1>1 DEF Tick, DecideCmd, HoldOrStop, DropHeld
<1>2. CASE ~mismatch /\ latest \notin Moving /\ ~pathNew
    <2>1. held = NoCmd
        BY <1>2
    <2> QED
        BY <1>2, <2>1 DEF Tick, DecideCmd, HoldOrStop, DropHeld
<1> QED
    BY <1>1, <1>2

\* Every step of the follower keeps its variables in their types.
LEMMA FollowerTypeStep == TypeOK /\ [Next]_vars => TypeOK'
<1> SUFFICES ASSUME TypeOK, [Next]_vars PROVE TypeOK'
    OBVIOUS
<1> USE FollowerAssumption DEF TypeOK, Commands, Ages, Long
<1>1. CASE \E c \in Commands, framed \in BOOLEAN : OnPath(c, framed)
    BY <1>1 DEF OnPath
<1>2. CASE Tick
    <2>1. mismatch' \in BOOLEAN /\ pathNew' \in BOOLEAN
        BY <1>2, Zenon DEF Tick
    <2>2. held' \in Moving \cup {NoCmd} /\ heldAge' \in Ages /\ cmd' \in Commands
        BY <1>2 DEF Tick, DecideCmd, HoldOrStop, DropHeld
    <2> QED
        BY <1>2, <2>1, <2>2 DEF Tick
<1>3. CASE Elapse
    BY <1>3 DEF Elapse, Older
<1>4. CASE UNCHANGED vars
    BY <1>4 DEF vars
<1> QED
    BY <1>1, <1>2, <1>3, <1>4 DEF Next

\* Every step of the follower keeps the latch invariant.
LEMMA LatchStep == LatchInv /\ [Next]_vars => LatchInv'
<1> SUFFICES ASSUME LatchInv, [Next]_vars PROVE HeldIsLatest' /\ MismatchIsStop'
    BY FollowerTypeStep DEF LatchInv
<1> USE FollowerAssumption DEF LatchInv, TypeOK, HeldIsLatest, MismatchIsStop, Commands
<1>1. CASE \E c \in Commands, framed \in BOOLEAN : OnPath(c, framed)
    BY <1>1 DEF OnPath
<1>2. CASE Tick
    BY <1>2 DEF Tick, DecideCmd, HoldOrStop, DropHeld
<1>3. CASE Elapse
    BY <1>3 DEF Elapse
<1>4. CASE UNCHANGED vars
    BY <1>4 DEF vars
<1> QED
    BY <1>1, <1>2, <1>3, <1>4 DEF Next

\* The initial latch is empty.
LEMMA LatchInit == Init => LatchInv
<1> SUFFICES ASSUME Init PROVE LatchInv
    OBVIOUS
<1>1. mismatch \in BOOLEAN /\ pathNew \in BOOLEAN
    BY Zenon DEF Init
<1>2. heldAge \in Ages /\ silence \in Ages
    BY FollowerAssumption DEF Init, Ages, Long
<1>3. TypeOK
    BY <1>1, <1>2 DEF Init, TypeOK, Commands
<1> QED
    BY <1>3 DEF Init, LatchInv, HeldIsLatest, MismatchIsStop

\* The type invariant, for any set of commands and any timeout.
THEOREM FollowerTypeCorrect == Spec => []TypeOK
<1>1. LatchInv => TypeOK
    BY DEF LatchInv
<1> QED
    BY <1>1, LatchInit, LatchStep, PTL DEF Spec

\* "This hold NEVER masks a fresh inference" (path_follower_node.py:43): every
\* tick publishes the command of the latest path.  With it the hold of
\* _decide_cmd (l.187-193) is unreachable, for any timeout.
THEOREM TicksHonourLatest == Spec => LatestHonoured
<1>1. LatchInv /\ [Next]_vars => [Tick => cmd' = latest]_vars
    BY TickHonours
<1> QED
    BY <1>1, LatchInit, LatchStep, PTL DEF Spec, LatestHonoured

\* A path in the wrong frame stops the robot at the next tick and leaves nothing
\* to resume.
THEOREM MismatchesStop == Spec => MismatchStops
<1>1. LatchInv /\ [Next]_vars => [mismatch /\ Tick => cmd' = Stop /\ held' = NoCmd]_vars
    BY TickHonours DEF LatchInv, MismatchIsStop, Tick, DecideCmd, HoldOrStop, DropHeld
<1> QED
    BY <1>1, LatchInit, LatchStep, PTL DEF Spec, MismatchStops

=============================================================================
