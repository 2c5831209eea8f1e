---------------------------- MODULE MCRouterInfo ----------------------------
(***************************************************************************)
(* Model-checking instance of RouterInfo: a 4-bit mCost (the default      *)
(* build), time in steps of 1.5 s so that the conversion to seconds        *)
(* truncates, and up to 300 s without hearing the router, past the 256 s   *)
(* at which the uint8_t age wraps.                                         *)
(***************************************************************************)
EXTENDS RouterInfo

MCCostBits == 4
MCCosts == {1, 15}
MCRouterIds == {0, 62}
MCLinkQualities == {0, 3}
MCTickMs == 1500
MCMaxElapsed == 300000
=============================================================================
