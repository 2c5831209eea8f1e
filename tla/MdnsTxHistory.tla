---------------------------- MODULE MdnsTxHistory ----------------------------
(***************************************************************************)
(* The history of sent messages (Core::TxMessageHistory, mdns.hpp) that    *)
(* lets RxMessage recognise its own multicasts when the network loops them *)
(* back (RxMessage::mIsSelfOriginating, spec.md 4.8).                      *)
(*                                                                         *)
(* Every multicast that TxMessage::Send puts on the wire is added to the   *)
(* history: a HashEntry with the message's hash and mExpireTime = now +    *)
(* kExpireInterval, refreshed if the hash is already there.  Contains is a *)
(* lookup by hash.  The history timer (mTimer) removes every entry with    *)
(* mExpireTime <= now (HashEntry::Matches(ExpireChecker)) and is set again *)
(* for the earliest remaining expiry.  Core::SetEnabled(false) clears it.  *)
(*                                                                         *)
(* The hash is the message's identity: messages are model values, and two  *)
(* sends of the same content have the same hash.  Time is kept as offsets *)
(* from now, in units of one second.  The network delivers each looped-back*)
(* copy within MaxLoopDelay, or loses it, and may deliver it twice.        *)
(***************************************************************************)
EXTENDS Integers, FiniteSets

CONSTANTS
    Msgs,            \* contents of multicast messages the core sends
    ExpireInterval,  \* TxMessageHistory::kExpireInterval, in time units
    MaxLoopDelay     \* bound on the loopback delay of a multicast copy

ASSUME /\ ExpireInterval \in Nat \ {0}
       /\ MaxLoopDelay \in 0..ExpireInterval

NotRunning == -1    \* mTimer is stopped
Expired == -1       \* an mExpireTime that lies in the past

VARIABLES
    enabled,     \* Core::mIsEnabled
    inHist,      \* hashes with a HashEntry in mHashEntries
    left,        \* mExpireTime - now of each HashEntry
    timerLeft,   \* mTimer fire time - now, or NotRunning
    echoes,      \* looped-back copies in flight: content, age, sent while
                 \* the current enable lasted
    rxLast       \* the last received copy and how it was classified

vars == <<enabled, inHist, left, timerLeft, echoes, rxLast>>

Echo == [msg : Msgs, age : 0..MaxLoopDelay, current : BOOLEAN]
NoRx == [valid |-> FALSE, msg |-> CHOOSE m \in Msgs : TRUE, age |-> 0,
         current |-> FALSE, self |-> FALSE]

\* Mutant of FireAtIfEarlier: TimerMilli::FireAt, which moves a running
\* timer later.
FireAtAlways(t) == t

\* TimerMilli::FireAtIfEarlier(now + t).
FireAtIfEarlier(t) ==
    IF timerLeft = NotRunning \/ t < timerLeft THEN t ELSE timerLeft

\* Mutant of ExpireTimeAfterAdd: an entry found by its hash keeps its old
\* mExpireTime.
ExpireTimeNoRefresh(m) == IF m \in inHist THEN left[m] ELSE ExpireInterval

\* Mutant of ExpireTimeAfterAdd: kExpireInterval is added to the old
\* mExpireTime instead of to now.
ExpireTimeExtended(m) == left[m] + ExpireInterval

\* The mExpireTime that TxMessageHistory::Add gives the message's entry.
ExpireTimeAfterAdd(m) == ExpireInterval

\* TxMessageHistory::Add: find the HashEntry of the message's hash, or
\* allocate and push one, and set mExpireTime to now + kExpireInterval;
\* then arm the timer for it if that is earlier.
Add(m) ==
    /\ inHist' = inHist \cup {m}
    /\ left' = [left EXCEPT ![m] = ExpireTimeAfterAdd(m)]
    /\ timerLeft' = FireAtIfEarlier(ExpireInterval)

\* TxMessage::Send of a multicast message: it is sent, recorded in the
\* history, and the network loops a copy back.
Send(m) ==
    /\ enabled
    /\ Add(m)
    /\ echoes' = echoes \cup {[msg |-> m, age |-> 0, current |-> TRUE]}
    /\ rxLast' = NoRx
    /\ UNCHANGED enabled

\* Core::HandleMessage of a looped-back copy: RxMessage::Init marks it
\* self-originating when TxMessageHistory::Contains finds its hash.  A
\* message received while disabled is dropped.  The network may deliver the
\* same copy once more (`again`).
Receive(e) ==
    \E again \in BOOLEAN :
        /\ e \in echoes
        /\ echoes' = IF again THEN echoes ELSE echoes \ {e}
        /\ rxLast' = IF enabled
                     THEN [valid |-> TRUE, msg |-> e.msg, age |-> e.age,
                           current |-> e.current, self |-> e.msg \in inHist]
                     ELSE NoRx
        /\ UNCHANGED <<enabled, inHist, left, timerLeft>>

\* The network loses a looped-back copy.
Lose(e) ==
    /\ e \in echoes
    /\ echoes' = echoes \ {e}
    /\ rxLast' = NoRx
    /\ UNCHANGED <<enabled, inHist, left, timerLeft>>

\* Mutant of NextFireTime: the timer is not set again after it fired.
NextFireTimeNone(rest) == NotRunning

\* The earliest mExpireTime of the remaining entries, or a stopped timer.
NextFireTime(rest) ==
    IF rest = {} THEN NotRunning
    ELSE CHOOSE t \in {left[m] : m \in rest} : \A m \in rest : t <= left[m]

\* TxMessageHistory::HandleTimer: remove and free every entry whose
\* mExpireTime <= now, then set the timer for the earliest remaining one.
HandleTimer ==
    LET rest == {m \in inHist : left[m] > 0}
    IN /\ timerLeft = 0
       /\ inHist' = rest
       /\ timerLeft' = NextFireTime(rest)
       /\ rxLast' = NoRx
       /\ UNCHANGED <<enabled, left, echoes>>

\* Core::SetEnabled(false): mTxMessageHistory.Clear() frees every entry and
\* stops the timer.  Copies still in flight belong to the previous enable.
Disable ==
    /\ enabled
    /\ enabled' = FALSE
    /\ inHist' = {}
    /\ timerLeft' = NotRunning
    /\ echoes' = {[e EXCEPT !.current = FALSE] : e \in echoes}
    /\ rxLast' = NoRx
    /\ UNCHANGED left

Enable ==
    /\ ~enabled
    /\ enabled' = TRUE
    /\ rxLast' = NoRx
    /\ UNCHANGED <<inHist, left, timerLeft, echoes>>

\* One time unit passes.  A due timer runs first, and every copy in flight
\* is delivered or lost within MaxLoopDelay.
Tick ==
    /\ timerLeft # 0
    /\ \A e \in echoes : e.age < MaxLoopDelay
    /\ left' = [m \in Msgs |-> IF left[m] > Expired THEN left[m] - 1 ELSE Expired]
    /\ timerLeft' = IF timerLeft = NotRunning THEN NotRunning ELSE timerLeft - 1
    /\ echoes' = {[e EXCEPT !.age = @ + 1] : e \in echoes}
    /\ rxLast' = NoRx
    /\ UNCHANGED <<enabled, inHist>>

Init ==
    /\ enabled = TRUE
    /\ inHist = {}
    /\ left = [m \in Msgs |-> Expired]
    /\ timerLeft = NotRunning
    /\ echoes = {}
    /\ rxLast = NoRx

Next ==
    \/ \E m \in Msgs : Send(m)
    \/ \E e \in echoes : Receive(e) \/ Lose(e)
    \/ HandleTimer \/ Disable \/ Enable \/ Tick

Spec == Init /\ [][Next]_vars

-----------------------------------------------------------------------------
(* Properties                                                              *)

TypeOK ==
    /\ enabled \in BOOLEAN
    /\ inHist \subseteq Msgs
    /\ left \in [Msgs -> Expired..ExpireInterval]
    /\ timerLeft \in {NotRunning} \cup 0..ExpireInterval
    /\ echoes \subseteq Echo
    /\ rxLast.valid \in BOOLEAN

\* A copy of our own multicast that the network loops back within
\* kExpireInterval of its sending, while mDNS stayed enabled, is found by
\* TxMessageHistory::Contains and marked self-originating; this needs the
\* re-send of an identical message to refresh the entry (a copy of the
\* re-send can arrive after the expiry the first send gave the entry) and
\* the history timer never to remove an entry early.
EchoRecognised ==
    (rxLast.valid /\ rxLast.current /\ rxLast.age < ExpireInterval) => rxLast.self

\* The history never holds a hash past its mExpireTime for longer than it
\* takes the history timer to run: every Add and every HandleTimer leaves
\* mTimer set no later than the earliest expiry, so Contains never matches
\* a message sent more than kExpireInterval ago.
NoStaleHash ==
    \A m \in inHist : left[m] >= 0


\* spec.md 4.8: the history recognises our own packets received back via
\* multicast loopback, so any copy of our own multicast that arrives within
\* kExpireInterval of its sending is self-originating, also when mDNS was
\* disabled and enabled again in between (Core::SetEnabled clears the
\* history).
EchoRecognisedAcrossEnable ==
    (rxLast.valid /\ rxLast.age < ExpireInterval) => rxLast.self

==============================================================================
