----------------------------- MODULE PathFollower -----------------------------
(***************************************************************************)
(* raspicat_vla_edge/path_follower_node.py: paths in, /cmd_vel out at 20 Hz. *)
(* The node spins on one thread, so _on_path and _tick are atomic.  A path   *)
(* is represented by the command WaypointPD.compute (waypoint_pd.py) makes   *)
(* of it: the computation has no state.  The empty path and a path whose     *)
(* waypoint is on the robot make the command Stop.  Time passes in units of  *)
(* the hold timeout's HoldTicks-th part and is remembered up to Long.        *)
(***************************************************************************)
EXTENDS Naturals

CONSTANTS
    Moving,     \* the commands with |linear| or |angular| > cmd_epsilon
    Stop,       \* the zero command
    NoCmd,      \* None, for self._held_cmd
    HoldTicks   \* hold_timeout_sec; 0 disables the hold

ASSUME FollowerAssumption ==
    /\ Stop \notin Moving
    /\ NoCmd \notin Moving \cup {Stop}
    /\ HoldTicks \in Nat

Commands == Moving \cup {Stop}
Long == HoldTicks + 1          \* longer than the hold
Ages == 0..Long

VARIABLES
    latest,    \* self._latest, as the command computed from it
    mismatch,  \* self._frame_mismatch
    pathNew,   \* self._path_new
    held,      \* self._held_cmd, or NoCmd
    heldAge,   \* now - self._held_at
    cmd,       \* the command last published
    silence    \* time since the last path

vars == <<latest, mismatch, pathNew, held, heldAge, cmd, silence>>

TypeOK ==
    /\ latest \in Commands
    /\ mismatch \in BOOLEAN
    /\ pathNew \in BOOLEAN
    /\ held \in Moving \cup {NoCmd}
    /\ heldAge \in Ages
    /\ cmd \in Commands
    /\ silence \in Ages

Init ==
    /\ latest = Stop
    /\ mismatch = FALSE
    /\ pathNew = FALSE
    /\ held = NoCmd
    /\ heldAge = 0
    /\ cmd = Stop
    /\ silence = Long

\* Mutation: a mismatching path is reported, but the old waypoints stay.
OnPathKeepsMismatched(c, framed) ==
    /\ pathNew' = TRUE
    /\ mismatch' = ~framed
    /\ latest' = IF framed THEN c ELSE latest
    /\ silence' = 0
    /\ UNCHANGED <<held, heldAge, cmd>>

\* _on_path: of a path in another frame than expected_frame only the fact that
\* it came is kept.
OnPath(c, framed) ==
    /\ pathNew' = TRUE
    /\ mismatch' = ~framed
    /\ latest' = IF framed THEN c ELSE Stop
    /\ silence' = 0
    /\ UNCHANGED <<held, heldAge, cmd>>

DropHeld == held' = NoCmd /\ heldAge' = 0

HoldOrStop ==
    IF HoldTicks > 0 /\ held # NoCmd /\ heldAge <= HoldTicks
    THEN cmd' = held /\ UNCHANGED <<held, heldAge>>
    ELSE cmd' = latest /\ DropHeld

\* Mutation: a fresh stop is treated like a re-evaluation of an old path.
DecideCmdNotFresh ==
    \/ mismatch /\ cmd' = latest /\ DropHeld
    \/ ~mismatch /\ latest \in Moving /\ cmd' = latest /\ held' = latest /\ heldAge' = 0
    \/ ~mismatch /\ latest \notin Moving /\ HoldOrStop

\* Mutation: a stop is latched like a moving command.
DecideCmdLatchesStop ==
    IF mismatch THEN cmd' = latest /\ DropHeld
    ELSE cmd' = latest /\ held' = latest /\ heldAge' = 0

\* _decide_cmd: a wrong frame, a moving command, a fresh stop, an old stop.
DecideCmd ==
    \/ /\ mismatch
       /\ cmd' = latest
       /\ DropHeld
    \/ /\ ~mismatch
       /\ latest \in Moving
       /\ cmd' = latest
       /\ held' = latest
       /\ heldAge' = 0
    \/ /\ ~mismatch
       /\ latest \notin Moving
       /\ pathNew
       /\ cmd' = latest
       /\ DropHeld
    \/ /\ ~mismatch
       /\ latest \notin Moving
       /\ ~pathNew
       /\ HoldOrStop

Tick ==
    /\ DecideCmd
    /\ pathNew' = FALSE
    /\ UNCHANGED <<latest, mismatch, silence>>

Older(a) == IF a < Long THEN a + 1 ELSE a

Elapse ==
    /\ heldAge' = IF held = NoCmd THEN heldAge ELSE Older(heldAge)
    /\ silence' = Older(silence)
    /\ UNCHANGED <<latest, mismatch, pathNew, held, cmd>>

Next ==
    \/ \E c \in Commands, framed \in BOOLEAN : OnPath(c, framed)
    \/ Tick
    \/ Elapse

Spec == Init /\ [][Next]_vars

\* The timer fires and time passes; nobody has to send a path.
FairSpec == Spec /\ WF_vars(Tick) /\ WF_vars(Elapse)

-----------------------------------------------------------------------------
(* Properties.                                                              *)

\* "This hold NEVER masks a fresh inference" (l.43): every tick publishes what
\* the latest path says, Stop included.  The hold's branch of _decide_cmd would
\* break this, so it is never taken: whenever the latest path stops the robot
\* and is not new, no command is held.
LatestHonoured == [][Tick => cmd' = latest]_vars

\* A path in the wrong frame is never driven: from the tick after it the robot
\* stands until a path in the right frame has come, and nothing of the time
\* before it is resumed.
MismatchStops == [][mismatch /\ Tick => cmd' = Stop /\ held' = NoCmd]_vars

\* "In a tick without a new path the last moving command is latched up to
\* hold_timeout_sec, then safe-stop" (USAGE.md:513): when no path comes for
\* longer than that, the robot stops.
SilenceStops == (silence = Long) ~> (cmd = Stop \/ silence # Long)

=============================================================================
