----------------------------- MODULE MCPipeline -----------------------------
(***************************************************************************)
(* The instance TLC checks: one run of each kind may be started, one at a  *)
(* time (MaxStarted), so that each pipeline is explored to its end with    *)
(* every crash, cancel and failure.                                        *)
(***************************************************************************)
EXTENDS Pipeline

CONSTANTS social, page, post, ideas, i1, i2, outline

MCRuns        == {social, page, post, ideas}
MCTwoStage    == {social, page}
MCContentRuns == {page}
MCIdeasOnly   == {ideas}
MCIdeas       == {i1, i2, outline}
MCSelection   == [r \in MCTwoStage |-> IF r = social THEN <<i2, i1>> ELSE <<outline>>]
=============================================================================
