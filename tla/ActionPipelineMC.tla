--------------------------- MODULE ActionPipelineMC ---------------------------
(***************************************************************************)
(* A small instance of ActionPipeline for TLC: goals within and beyond       *)
(* Reach (the distances are integers), and chunks that turn, reverse and are *)
(* not whole spacings.                                                      *)
(***************************************************************************)
EXTENDS ActionPipeline

MCPoses == {[x |-> 3, y |-> -4, r |-> 5], [x |-> -36, y |-> 48, r |-> 60], [x |-> 16, y |-> 63, r |-> 65],
            [x |-> 0, y |-> 0, r |-> 0]}
MCTurns == {-3, 0, 1}
MCSteps == {[x |-> x, y |-> y, h |-> h] : x \in {-105, 0, 200}, y \in {-20, 0, 60}, h \in {0, 1}}

=============================================================================
