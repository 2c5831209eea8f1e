-------------------------- MODULE MCMdnsMultiPacket --------------------------
(***************************************************************************)
(* Model-checking instance of MdnsMultiPacket: two senders, time in units *)
(* of 100 ms (kMinProcessDelay 4, kMaxProcessDelay 5), a cap of 3 messages *)
(* standing for kMaxNumMessages, and four queries, enough for a query, two *)
(* follow-ups and one more packet at the cap or from the other sender.     *)
(* The PTR answer is delayed 20-120 ms, 0 or 1 unit.  Known answers are    *)
(* none, and TTLs just below and at half of kServicesPtrTtl (4500 s).      *)
(***************************************************************************)
EXTENDS MdnsMultiPacket

MCMinProcessDelay == 4
MCMaxProcessDelay == 5
MCMaxNumMessages == 3
MCMaxRx == 4
MCServicesPtrTtl == 4500
MCKnownAnswerTtls == {0, 2249, 2250}
MCMinResponseDelay == 0
MCMaxResponseDelay == 1
==============================================================================
