------------------------- MODULE ObservationChannel -------------------------
(***************************************************************************)
(* What the edge node may assume of VLAClient (grpc_client.py), and nothing *)
(* of how the class keeps it: observations are accepted with increasing     *)
(* frame ids, any of them may be lost (coalesced, dropped by a full queue,  *)
(* or gone with a broken stream), and those that are answered are answered  *)
(* in the order they were accepted, each at most once.                      *)
(***************************************************************************)
EXTENDS Naturals

VARIABLES
    newest,    \* frame id of the last observation send() accepted, 0 = none
    pending,   \* accepted observations that may still be answered
    answered   \* frame id of the last reply handed to on_embedding, 0 = none

chanVars == <<newest, pending, answered>>

Init ==
    /\ newest = 0
    /\ pending = {}
    /\ answered = 0

Accept ==
    /\ newest' > newest
    /\ pending' = pending \cup {newest'}
    /\ UNCHANGED answered

Lose ==
    /\ pending' \in SUBSET pending
    /\ UNCHANGED <<newest, answered>>

Answer ==
    \E f \in pending :
        /\ \A g \in pending : f <= g
        /\ answered' = f
        /\ pending' = pending \ {f}
        /\ UNCHANGED newest

Next == Accept \/ Lose \/ Answer

Spec == Init /\ [][Next]_chanVars

=============================================================================
