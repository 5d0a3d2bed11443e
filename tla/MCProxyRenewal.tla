---------------------------- MODULE MCProxyRenewal ----------------------------
(* Instances of ProxyRenewal for TLC. *)
EXTENDS ProxyRenewal, TLC

CONSTANTS j1, j2

\* Lifetimes <<leaf, chain>>: 0 for a chain is a certificate that ended long ago.
LongAndShort == {<<4, 4>>, <<0, 4>>}
GoodAndBad == {<<5, 5>>, <<5, 0>>}
Good == {<<5, 5>>}

JobSymmetry == Permutations(Jobs)

WatchdogSymmetry == Permutations(Watchdogs)

===============================================================================
