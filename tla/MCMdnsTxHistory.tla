--------------------------- MODULE MCMdnsTxHistory ---------------------------
(* Two message contents, the real 10 s expiry in 1 s units and a loopback *)
(* delay of up to one unit, so that the copy of a message re-sent late in  *)
(* its entry's window arrives at, or after, the expiry the first send set. *)
EXTENDS MdnsTxHistory

MCExpireInterval == 10
MCMaxLoopDelay == 1
==============================================================================
