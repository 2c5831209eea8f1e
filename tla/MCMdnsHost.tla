----------------------------- MODULE MCMdnsHost -----------------------------
(***************************************************************************)
(* Model-checking instance of MdnsHost.  One time unit is 250 ms, so the   *)
(* constants of src/core/net/mdns.hpp become: kInitalProbeDelay 20 ms -> 0, *)
(* kProbeWaitTime 250 ms -> 1, kAnnounceInterval 1000 ms -> 4, and         *)
(* kMinIntervalBetweenMulticast 1000 ms -> 4, kMinIntervalProbeResponse    *)
(* 250 ms -> 1.                                                            *)
(***************************************************************************)
EXTENDS MdnsHost

MCProbes == 3                \* kNumberOfProbes
MCAnnounces == 3             \* kNumberOfAnnounces
MCInitialProbeDelay == 0
MCProbeWaitTime == 1
MCAnnounceInterval == 4
MCMinInterval == 4
MCMinIntervalProbeResponse == 1  \* kMinIntervalProbeResponse 250 ms
MCProbeRestartDelay == 4         \* 1 s after a lost tie-break
MCMaxTieBreaksLost == 1
MCDefaultTtl == 120          \* kDefaultTtl
MCTtls == {}                 \* only the default TTL (request TTL 0)
=============================================================================
