----------------------------- MODULE MCAgentChat -----------------------------
(* AgentChat on small instances. *)
EXTENDS AgentChat, TLC

CONSTANTS c1, c2, t1

OneCall == {c1}
TwoCalls == {c1, c2}
OneThread == {t1}
Ticks == {1}
TicksOrTies == {0, 1}
CallSymmetry == Permutations(Calls)
=============================================================================
