----------------------------- MODULE RouterInfo -----------------------------
(***************************************************************************)
(* A Thread router entry (class Router, router.hpp, included at the end of *)
(* src/core/net/mdns.hpp) and the diagnostic snapshot Router::Info that    *)
(* Router::Info::SetFrom (src/core/thread/router.cpp) takes of it.         *)
(*                                                                         *)
(* The fields keep the widths the code gives them: mLinkQualityOut is a    *)
(* 2-bit field, mCost a 4-bit field (8 bits with                            *)
(* OPENTHREAD_CONFIG_MLE_LONG_ROUTES_ENABLE), mNextHop a uint8_t, and the  *)
(* age a uint8_t computed from a 32-bit TimeMilli difference.              *)
(*                                                                         *)
(* Time.  mLastHeard belongs to the Neighbor base class (not in the        *)
(* repository); the module keeps the TimeMilli difference                  *)
(* now - mLastHeard, the only way the code uses it, as `elapsed`, in       *)
(* milliseconds.  Time advances in steps of TickMs.  The difference is a   *)
(* uint32_t and wraps after about 49 days; MaxElapsed stays far below      *)
(* that (and below TLC's 2^31), so the difference is exact in the model.   *)
(***************************************************************************)
EXTENDS Naturals

CONSTANTS
    CostBits,       \* width of Router::mCost (4, or 8 with long routes)
    Costs,          \* route costs a caller passes to SetCost (uint8_t)
    RouterIds,      \* router ids a caller passes to SetNextHop (uint8_t)
    LinkQualities,  \* LinkQuality values passed to SetLinkQualityOut
    TickMs,         \* milliseconds per time step of the model
    MaxElapsed      \* bound on the time since the router was last heard

ASSUME /\ CostBits \in {4, 8}
       /\ Costs \subseteq 0..255
       /\ RouterIds \subseteq 0..255
       /\ LinkQualities \subseteq 0..3
       /\ TickMs \in Nat \ {0}
       /\ MaxElapsed \in 0..(2 ^ 30)

AgeModulus == 2 ^ 8         \* otRouterInfo::mAge is a uint8_t

\* Time::MsecToSec: integer division of a millisecond count.
MsecToSec(ms) == ms \div 1000

VARIABLES
    nextHop,          \* Router::mNextHop
    linkQualityOut,   \* Router::mLinkQualityOut
    cost,             \* Router::mCost
    linkValid,        \* Neighbor::IsStateValid()
    elapsed,          \* TimerMilli::GetNow() - Neighbor::GetLastHeard(), in ms
    info              \* the Router::Info taken by SetFrom in this step, if any

vars == <<nextHop, linkQualityOut, cost, linkValid, elapsed, info>>

NoInfo == [allocated |-> FALSE, nextHop |-> 0, linkEstablished |-> FALSE,
           pathCost |-> 0, linkQualityOut |-> 0, age |-> 0, elapsed |-> 0]

\* Router::Info::SetFrom: Clear() and then copy every field of the router;
\* the age is the elapsed time in whole seconds, cast to uint8_t.  The
\* `elapsed` field is history: the time the age was computed from.
SetFrom ==
    [allocated       |-> TRUE,
     nextHop         |-> nextHop,
     linkEstablished |-> linkValid,
     pathCost        |-> cost,
     linkQualityOut  |-> linkQualityOut,
     age             |-> MsecToSec(elapsed) % AgeModulus,
     elapsed         |-> elapsed]

\* Router::Clear: memset of the whole object to zero, then Init.  A zero
\* mLastHeard makes `elapsed` the time since the clock started, which may
\* be anything up to the bound.
Init ==
    /\ nextHop = 0
    /\ linkQualityOut = 0
    /\ cost = 0
    /\ linkValid = FALSE
    /\ elapsed \in {n * TickMs : n \in 0..(MaxElapsed \div TickMs)}
    /\ info = NoInfo

Clear ==
    /\ nextHop' = 0
    /\ linkQualityOut' = 0
    /\ cost' = 0
    /\ linkValid' = FALSE
    /\ elapsed' \in {n * TickMs : n \in 0..(MaxElapsed \div TickMs)}
    /\ info' = NoInfo

\* Router::SetNextHop
SetNextHop ==
    \E id \in RouterIds :
        /\ nextHop' = id
        /\ info' = NoInfo
        /\ UNCHANGED <<linkQualityOut, cost, linkValid, elapsed>>

\* Router::SetLinkQualityOut: stored in a 2-bit field.
SetLinkQualityOut ==
    \E lq \in LinkQualities :
        /\ linkQualityOut' = lq % 4
        /\ info' = NoInfo
        /\ UNCHANGED <<nextHop, cost, linkValid, elapsed>>

\* Router::SetCost: a uint8_t stored in the CostBits-wide field mCost.
SetCost ==
    \E c \in Costs :
        /\ cost' = c % (2 ^ CostBits)
        /\ info' = NoInfo
        /\ UNCHANGED <<nextHop, linkQualityOut, linkValid, elapsed>>

\* The neighbour layer hears from the router (Neighbor::SetLastHeard to
\* now, and the link becomes valid) or loses the link.
HeardFrom ==
    /\ elapsed' = 0
    /\ linkValid' = TRUE
    /\ info' = NoInfo
    /\ UNCHANGED <<nextHop, linkQualityOut, cost>>

LinkLost ==
    /\ linkValid
    /\ linkValid' = FALSE
    /\ info' = NoInfo
    /\ UNCHANGED <<nextHop, linkQualityOut, cost, elapsed>>

\* A diagnostic request (e.g. otThreadGetRouterInfo) takes a snapshot.
GetInfo ==
    /\ info' = SetFrom
    /\ UNCHANGED <<nextHop, linkQualityOut, cost, linkValid, elapsed>>

\* Time passes without the router being heard, up to the bound.
Tick ==
    /\ elapsed + TickMs <= MaxElapsed
    /\ elapsed' = elapsed + TickMs
    /\ info' = NoInfo
    /\ UNCHANGED <<nextHop, linkQualityOut, cost, linkValid>>

Next ==
    \/ Clear \/ SetNextHop \/ SetLinkQualityOut \/ SetCost
    \/ HeardFrom \/ LinkLost \/ GetInfo \/ Tick

Spec == Init /\ [][Next]_vars

-----------------------------------------------------------------------------
(* Properties                                                              *)

\* The age reported by Router::Info::SetFrom is the number of whole seconds
\* since the router was last heard, saturating at the largest uint8_t value
\* rather than wrapping, so that a router silent for long never looks
\* freshly heard.
AgeTracksLastHeard ==
    info.allocated =>
        info.age = IF MsecToSec(info.elapsed) < AgeModulus
                   THEN MsecToSec(info.elapsed) ELSE AgeModulus - 1

==============================================================================
