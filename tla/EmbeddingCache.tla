---------------------------- MODULE EmbeddingCache ----------------------------
(***************************************************************************)
(* raspicat_vla_edge/embedding_cache.py: the single latest embedding, with   *)
(* its frame id, its age class and the frame-id floor.  Every method holds   *)
(* the cache's lock for its whole body, so each is one operator.             *)
(***************************************************************************)
EXTENDS Integers

\* Age classes of an embedding: below max_age, below hard_timeout, beyond it.
Fresh == 0
Old == 1
Expired == 2

\* A cache: frame 0 is "no embedding", floor 0 is "no floor" (frame ids start
\* at 1), paired tells whether obs_image_rgb is there.
Caches(F) ==
    [frame : F \cup {0}, age : Fresh..Expired, paired : BOOLEAN,
     floor : F \cup {0}]

EmptyCache == [frame |-> 0, age |-> Fresh, paired |-> FALSE, floor |-> 0]

\* Mutation: the floor of invalidate() is not looked at.
PutNoFloor(c, f, paired) ==
    IF f > c.frame
    THEN [c EXCEPT !.frame = f, !.age = Fresh, !.paired = paired]
    ELSE c

\* put(): rejected at or below the floor, and unless newer than the latest.
Put(c, f, paired) ==
    IF f > c.floor /\ f > c.frame
    THEN [c EXCEPT !.frame = f, !.age = Fresh, !.paired = paired]
    ELSE c

\* Mutation: the floor also rejects the first observation of the new goal.
InvalidateTooHigh(floor) ==
    [frame |-> 0, age |-> Fresh, paired |-> FALSE, floor |-> floor + 1]

\* invalidate(floor=...), the way the node calls it: whatever was cached goes.
Invalidate(floor) ==
    [frame |-> 0, age |-> Fresh, paired |-> FALSE, floor |-> floor]

\* Mutation: the hard timeout is not looked at.
StatusNoHard(c) ==
    CASE c.frame = 0 -> "WAITING_REMOTE"
      [] c.frame # 0 /\ c.age # Fresh -> "DEGRADED"
      [] OTHER -> "OK"

\* status()
Status(c) ==
    CASE c.frame = 0 -> "WAITING_REMOTE"
      [] c.frame # 0 /\ c.age = Expired -> "STALE"
      [] c.frame # 0 /\ c.age = Old -> "DEGRADED"
      [] OTHER -> "OK"

=============================================================================
