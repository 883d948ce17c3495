------------------------ MODULE MCAgentConversation ------------------------
(* One conversation on small instances.                                    *)
EXTENDS AgentProviders, TLC

CONSTANTS open, m1, m2, d1, d2

TwoSends == {m1, m2}

TwoDeletes == {d1, d2}

OneDelete == {d1}

(* Sound for a run of safety: sends are interchangeable.                   *)
Symmetry == Permutations(TwoSends)
=============================================================================
