------------------------------ MODULE MdnsHost ------------------------------
(***************************************************************************)
(* Host entries of the OpenThread mDNS responder, src/core/net/mdns.hpp:   *)
(* class Core::HostEntry, its base Core::Entry, the two Core::RecordInfo   *)
(* it owns (the AAAA record of the host addresses and the KEY record), the *)
(* single entry timer (Core::HandleEntryTimer) and the entry tasklet       *)
(* (Core::HandleEntryTask) that reports registration outcomes and frees    *)
(* removed entries.                                                        *)
(*                                                                         *)
(* The header declares the state and the operations; their bodies (the    *)
(* .cpp) are not part of the repository, so the behaviour of each          *)
(* operation follows the specification of the responder (spec.md 4.2,     *)
(* 4.3, 4.9) within the structure the header fixes.                        *)
(*                                                                         *)
(* Time.  Every timestamp the code keeps (TimeMilli fire, announce, answer *)
(* and last-multicast times) is kept as an offset from the current time:   *)
(* Tick moves time forward by one unit and shifts every offset.  Offsets   *)
(* of past events are capped where the code only compares them with a     *)
(* bound (the one-second multicast interval), so the state space is finite *)
(* without bounding the clock.                                             *)
(***************************************************************************)
EXTENDS Naturals, FiniteSets

CONSTANTS
    Hosts,              \* host names that may be registered
    AddrLists,          \* non-empty address lists a host can be given
    KeyDatas,           \* KEY record data values
    Ttls,               \* non-zero TTLs a caller may pass
    DefaultTtl,         \* kDefaultTtl (= kDefaultKeyTtl), used for TTL 0
    Reqs,               \* request ids handed to Register calls
    NoCallback,         \* a Register call with a nullptr callback
    NoData,             \* no address list / no key data stored
    NumberOfProbes,     \* kNumberOfProbes
    NumberOfAnnounces,  \* kNumberOfAnnounces
    InitialProbeDelay,  \* kInitalProbeDelay, in time units
    ProbeWaitTime,      \* kProbeWaitTime, in time units
    AnnounceInterval,   \* kAnnounceInterval, in time units
    MinIntervalBetweenMulticast, \* RecordInfo::kMinIntervalBetweenMulticast
    MinIntervalProbeResponse,    \* Entry::kMinIntervalProbeResponse
    ProbeRestartDelay,  \* wait of a probing entry that loses a tie-break
    MaxTieBreaksLost,   \* bound on the tie-breaks one entry loses
    PeerProbes          \* whether another responder probes for our names

ASSUME /\ NumberOfProbes \in Nat \ {0}
       /\ NumberOfAnnounces \in Nat \ {0}
       /\ {InitialProbeDelay, ProbeWaitTime, AnnounceInterval,
           MinIntervalBetweenMulticast, MinIntervalProbeResponse,
           ProbeRestartDelay, MaxTieBreaksLost} \subseteq Nat
       /\ MinIntervalProbeResponse <= MinIntervalBetweenMulticast
       /\ PeerProbes \in BOOLEAN
       /\ DefaultTtl \in Nat \ {0}
       /\ Ttls \subseteq Nat \ {0}

RecordKinds == {"addr", "key"}
Other(k) == CHOOSE o \in RecordKinds : o # k

\* Record type of each record of a host entry, and the question types a
\* query can carry ("TXT" stands for any type a host entry never holds).
RrType == [addr |-> "AAAA", key |-> "KEY"]
QuestionTypes == {"AAAA", "KEY", "ANY", "TXT"}

\* Core::Entry::State, plus "Absent" for a name with no entry in mHostEntries.
EntryStates == {"Probing", "Registered", "Conflict", "Removing"}
HostStates == EntryStates \cup {"Absent"}

Max2(a, b) == IF a >= b THEN a ELSE b

MaxAnnounceDelay == (2 ^ (NumberOfAnnounces - 2)) * AnnounceInterval
ProbeWindow == NumberOfProbes * ProbeWaitTime

VARIABLES
    enabled,          \* Core::mIsEnabled
    hostState,        \* Entry::mState of each host entry
    probeCount,       \* Entry::mProbeCount
    fireTime,         \* FireTime of a probing entry (offset from now)
    record,           \* the RecordInfo of the address and KEY records
    data,             \* HostEntry::mAddresses and Entry::mKeyData
    nsecPending,      \* Entry::mMulticastNsecPending
    callback,         \* Entry::mCallback ("addr") and mKeyCallback ("key")
    entryTaskPosted,  \* Core::mEntryTask is posted
    \* history, not program state
    issued,           \* requests handed to a Register call so far
    reported,         \* outcome each request was reported with
    cancelled,        \* requests whose callback the API contract drops
    txMcast,          \* records in the multicast response of this step
    lastMc,           \* the last multicast of each record of an entry
    probesSent,       \* probes naming the host since it last began probing
    sinceFirstProbe,  \* time since the first of those probes (capped)
    tieBreaksLost     \* tie-breaks the entry lost since it was created

vars == <<enabled, hostState, probeCount, fireTime, record, data, nsecPending,
          callback, entryTaskPosted, issued, reported, cancelled, txMcast,
          lastMc, probesSent, sinceFirstProbe, tieBreaksLost>>

-----------------------------------------------------------------------------
(* Core::RecordInfo                                                        *)

RecordInfoSet == [present : BOOLEAN, ttl : Ttls \cup {0, DefaultTtl},
                  annCount : 0..NumberOfAnnounces, annTime : 0..MaxAnnounceDelay,
                  mcPending : BOOLEAN, ansTime : Nat,
                  lastMcValid : BOOLEAN, sinceMc : 0..MinIntervalBetweenMulticast]

\* RecordInfo::Clear()
ClearedRecord == [present |-> FALSE, ttl |-> 0, annCount |-> 0, annTime |-> 0,
                  mcPending |-> FALSE, ansTime |-> 0,
                  lastMcValid |-> FALSE, sinceMc |-> 0]

\* Core::DetermineTtl: TTL 0 in the request selects the default.
DetermineTtl(t) == IF t = 0 THEN DefaultTtl ELSE t

\* RecordInfo::StartAnnouncing: restart the announce sequence now.
StartAnnouncing(r) ==
    IF r.present THEN [r EXCEPT !.annCount = 0, !.annTime = 0] ELSE r

\* RecordInfo::UpdateProperty: a new record, or a changed property, makes the
\* record present and starts announcing it.
UpdateProperty(r, changed) ==
    IF ~r.present \/ changed
    THEN StartAnnouncing([r EXCEPT !.present = TRUE])
    ELSE r

\* RecordInfo::UpdateTtl
UpdateTtl(r, t) == [UpdateProperty(r, r.ttl # t) EXCEPT !.ttl = t]

\* RecordInfo::CanAnswer
CanAnswer(r) == r.present /\ r.ttl > 0

\* RecordInfo::GetDurationSinceLastMulticast, with "never" as the cap.
DurationSinceLastMulticast(r) ==
    IF r.present /\ r.lastMcValid THEN r.sinceMc ELSE MinIntervalBetweenMulticast

\* Mutant of ScheduleAnswer: the rate-limit check is dropped.
ScheduleAnswerNoRateLimit(r, at) ==
    IF /\ CanAnswer(r)
       /\ r.mcPending => at < r.ansTime
    THEN [r EXCEPT !.mcPending = TRUE, !.ansTime = at]
    ELSE r

\* RecordInfo::ScheduleAnswer for a multicast answer to a non-probe question
\* at answer time `at`: skipped when the record was multicast too recently;
\* an already pending answer is only moved earlier.
ScheduleAnswer(r, at) ==
    IF /\ CanAnswer(r)
       /\ DurationSinceLastMulticast(r) >= MinIntervalBetweenMulticast
       /\ r.mcPending => at < r.ansTime
    THEN [r EXCEPT !.mcPending = TRUE, !.ansTime = at]
    ELSE r

\* Mutant of ProbeAnswerTime: a probe is answered at once, however recently
\* the record was multicast.
ProbeAnswerTimeNoRateLimit(r) == 0

\* The answer time Entry::AnswerProbe gives a record: now, but no earlier
\* than kMinIntervalProbeResponse after the record's last multicast.
ProbeAnswerTime(r) ==
    IF DurationSinceLastMulticast(r) < MinIntervalProbeResponse
    THEN MinIntervalProbeResponse - DurationSinceLastMulticast(r)
    ELSE 0

\* RecordInfo::ScheduleAnswer for the answer to a probe (AnswerInfo with
\* mIsProbe): the one-second rate limit does not apply; an already pending
\* answer is only moved earlier.
ScheduleProbeAnswer(r) ==
    LET at == ProbeAnswerTime(r)
    IN IF CanAnswer(r) /\ (r.mcPending => at < r.ansTime)
       THEN [r EXCEPT !.mcPending = TRUE, !.ansTime = at]
       ELSE r

\* RecordInfo::ShouldAppendTo for the multicast response of this instant.
ShouldAppendToMulticast(r) ==
    /\ r.present
    /\ \/ r.annCount < NumberOfAnnounces /\ r.annTime = 0
       \/ r.mcPending /\ r.ansTime = 0

\* Delay before announcement number c + 1 (c >= 1): 1, 2, 4, ... intervals.
AnnounceDelay(c) == (2 ^ (c - 1)) * AnnounceInterval

\* Mutant of UpdateStateAfterAnswer: a goodbye does not retire the record.
UpdateStateAfterAnswerKeepPresent(r) ==
    LET c == IF r.annCount < NumberOfAnnounces THEN r.annCount + 1 ELSE r.annCount
    IN [r EXCEPT !.mcPending = FALSE, !.ansTime = 0,
                 !.annCount = c,
                 !.annTime = IF c < NumberOfAnnounces THEN AnnounceDelay(c) ELSE 0,
                 !.lastMcValid = TRUE, !.sinceMc = 0]

\* RecordInfo::UpdateStateAfterAnswer for a record appended to a multicast
\* response: the pending answer is done, the announce counter advances, the
\* multicast time is stamped, and a goodbye (TTL 0) retires the record.
UpdateStateAfterAnswer(r) ==
    LET c == IF r.annCount < NumberOfAnnounces THEN r.annCount + 1 ELSE r.annCount
    IN [r EXCEPT !.mcPending = FALSE, !.ansTime = 0,
                 !.annCount = c,
                 !.annTime = IF c < NumberOfAnnounces THEN AnnounceDelay(c) ELSE 0,
                 !.present = r.ttl > 0,
                 !.lastMcValid = TRUE, !.sinceMc = 0]

\* A record with work due now (its part of Entry::DetermineNextFireTime).
RecordDue(r) == ShouldAppendToMulticast(r)

\* One time unit passing for a record's offsets.
Dec(t) == IF t > 0 THEN t - 1 ELSE 0
AgeRecord(r) ==
    [r EXCEPT !.annTime = Dec(r.annTime), !.ansTime = Dec(r.ansTime),
              !.sinceMc = IF r.sinceMc < MinIntervalBetweenMulticast
                          THEN r.sinceMc + 1 ELSE r.sinceMc]

-----------------------------------------------------------------------------
(* Core::Entry and Core::HostEntry                                         *)

NoLastMc == [valid |-> FALSE, since |-> 0, ttl |-> 0, data |-> NoData,
             updated |-> FALSE, probed |-> FALSE]
FreshHost == [k \in RecordKinds |-> ClearedRecord]

HasCallback(h) == \E k \in RecordKinds : callback[h][k] # NoCallback

\* Entry::IsEmpty (HostEntry): neither record is present.
IsEmpty(recs) == \A k \in RecordKinds : ~recs[k].present

\* Entry::HandleTimer: only a Registered entry appends its records to the
\* multicast response (it exits early for kProbing after probing, for
\* kConflict and for kRemoving).
Advertises(st) == st = "Registered"

\* Entry::HandleTimer is due for h now.
EntryDue(h) ==
    \/ hostState[h] = "Probing" /\ fireTime[h] = 0
    \/ Advertises(hostState[h]) /\ \/ \E k \in RecordKinds : RecordDue(record[h][k])
                                    \/ nsecPending[h]

TimerDue == enabled /\ \E h \in Hosts : EntryDue(h)

\* Mutant of ProbesComplete: the entry claims one probe early.
ProbesCompleteEarly(n) == n >= NumberOfProbes - 1

\* Mutant of ProbesComplete: the entry sends one probe too many.
ProbesCompleteLate(n) == n > NumberOfProbes

\* Entry::HandleTimer for a Probing entry: the name is claimed once
\* mProbeCount probes have been sent (kNumberOfProbes).
ProbesComplete(n) == n >= NumberOfProbes

\* Mutant of StatePostsCallbackTask: only a conflict schedules the task.
StatePostsCallbackTaskOnConflict(st, hasCb) == st = "Conflict" /\ hasCb

\* Entry::SetState -> ScheduleCallbackTask: entering (or being in)
\* kRegistered or kConflict with a callback stored posts Core::mEntryTask.
StatePostsCallbackTask(st, hasCb) == st \in {"Registered", "Conflict"} /\ hasCb

\* Core::Register<HostEntry>: a name with no entry gets a new one
\* (AllocateAndInit) and an entry being removed is revived; both start
\* probing (Entry::StartProbing).  Registered and Conflict entries keep
\* their state.
StartsProbing(st) == st \in {"Absent", "Removing"}

Init ==
    /\ enabled = TRUE
    /\ hostState = [h \in Hosts |-> "Absent"]
    /\ probeCount = [h \in Hosts |-> 0]
    /\ fireTime = [h \in Hosts |-> 0]
    /\ record = [h \in Hosts |-> FreshHost]
    /\ data = [h \in Hosts |-> [k \in RecordKinds |-> NoData]]
    /\ nsecPending = [h \in Hosts |-> FALSE]
    /\ callback = [h \in Hosts |-> [k \in RecordKinds |-> NoCallback]]
    /\ entryTaskPosted = FALSE
    /\ issued = {}
    /\ reported = [r \in Reqs |-> "none"]
    /\ cancelled = {}
    /\ txMcast = {}
    /\ lastMc = [h \in Hosts |-> [k \in RecordKinds |-> NoLastMc]]
    /\ probesSent = [h \in Hosts |-> 0]
    /\ sinceFirstProbe = [h \in Hosts |-> 0]
    /\ tieBreaksLost = [h \in Hosts |-> 0]

-----------------------------------------------------------------------------
(* Public operations: Core::RegisterHost / RegisterKey and                 *)
(* Core::UnregisterHost / UnregisterKey, through Core::Register<HostEntry> *)
(* and Core::Unregister<HostEntry>.  All return kErrorInvalidState without *)
(* any effect while mDNS is disabled.                                      *)

\* Register the record k of host h with data d, TTL t and callback cb: a new
\* entry (AllocateAndInit) or a Removing one starts probing; the callback
\* replaces the one stored (SetCallback) and the task is posted when the
\* entry is already Registered or in Conflict (ScheduleCallbackTask); the
\* TTL and data are updated (UpdateTtl, UpdateProperty).
RegisterRecord(h, k, d, t, cb) ==
    LET probe == StartsProbing(hostState[h])
        st    == IF probe THEN "Probing" ELSE hostState[h]
        r1    == UpdateTtl(record[h][k], DetermineTtl(t))
        r2    == UpdateProperty(r1, data[h][k] # d)
        changed == ~record[h][k].present \/ record[h][k].ttl # DetermineTtl(t)
                   \/ data[h][k] # d
    IN /\ enabled
       /\ hostState' = [hostState EXCEPT ![h] = st]
       /\ probeCount' = [probeCount EXCEPT ![h] = IF probe THEN 0 ELSE @]
       /\ \E delay \in 0..InitialProbeDelay :
             fireTime' = [fireTime EXCEPT ![h] = IF probe THEN delay ELSE @]
       /\ record' = [record EXCEPT ![h][k] = r2]
       /\ data' = [data EXCEPT ![h][k] = d]
       /\ callback' = [callback EXCEPT ![h][k] = cb]
       /\ entryTaskPosted' =
             \/ entryTaskPosted
             \/ StatePostsCallbackTask(st, cb # NoCallback \/ callback[h][Other(k)] # NoCallback)
       /\ issued' = issued \cup ({cb} \ {NoCallback})
       /\ probesSent' = [probesSent EXCEPT ![h] = IF probe THEN 0 ELSE @]
       /\ sinceFirstProbe' = [sinceFirstProbe EXCEPT ![h] = IF probe THEN 0 ELSE @]
       /\ tieBreaksLost' = [tieBreaksLost EXCEPT ![h] = IF probe THEN 0 ELSE @]
       /\ txMcast' = {}
       /\ lastMc' = [lastMc EXCEPT ![h][k].updated = @ \/ changed]
       /\ UNCHANGED <<enabled, nsecPending, reported, cancelled>>

Callbacks == (Reqs \ issued) \cup {NoCallback}


RegisterKey(h) ==
    \E d \in KeyDatas, t \in Ttls \cup {0}, cb \in Callbacks :
        RegisterRecord(h, "key", d, t, cb)

\* Unregister the record k of host h (HostEntry::Unregister,
\* Entry::Unregister(KeyInfo)): nothing if the record is not present;
\* otherwise its callback is cleared, a Registered entry sends a goodbye
\* (UpdateTtl(0)), a Probing or Conflict entry drops the record (ClearHost,
\* ClearKey), and an entry left empty is set Removing for the task to free
\* (ScheduleToRemoveIfEmpty).
UnregisterRecord(h, k) ==
    LET registered == hostState[h] = "Registered"
        r  == IF registered THEN UpdateTtl(record[h][k], 0) ELSE ClearedRecord
        rs == [record[h] EXCEPT ![k] = r]
        remove == IsEmpty(rs)
    IN /\ enabled
       /\ hostState[h] # "Absent"
       /\ record[h][k].present
       /\ record' = [record EXCEPT ![h] = rs]
       /\ data' = [data EXCEPT ![h][k] = IF registered THEN @ ELSE NoData]
       /\ callback' = [callback EXCEPT ![h][k] = NoCallback]
       /\ cancelled' = cancelled \cup ({callback[h][k]} \ {NoCallback})
       /\ hostState' = [hostState EXCEPT ![h] = IF remove THEN "Removing" ELSE @]
       /\ entryTaskPosted' = (entryTaskPosted \/ remove)
       /\ lastMc' = [lastMc EXCEPT ![h][k] =
                        IF registered THEN [@ EXCEPT !.updated = @ \/ record[h][k].ttl # 0]
                        ELSE NoLastMc]
       /\ txMcast' = {}
       /\ UNCHANGED <<enabled, probeCount, fireTime, nsecPending, issued,
                      reported, probesSent, sinceFirstProbe, tieBreaksLost>>

UnregisterHost(h) == UnregisterRecord(h, "addr")

\* Core::RegisterHost with a list of addresses, or with none
\* (mNumAddresses 0), which the header documents as treated as if the host
\* were unregistered: the address record is withdrawn as by UnregisterHost.
RegisterHost(h) ==
    \/ \E a \in AddrLists, t \in Ttls \cup {0}, cb \in Callbacks :
          RegisterRecord(h, "addr", a, t, cb)
    \/ UnregisterRecord(h, "addr")
UnregisterKey(h) == UnregisterRecord(h, "key")

\* Core::SetEnabled(FALSE): every entry is dropped at once, without goodbyes
\* and without invoking callbacks, and the entry timer stops.
Disable ==
    /\ enabled
    /\ enabled' = FALSE
    /\ hostState' = [h \in Hosts |-> "Absent"]
    /\ probeCount' = [h \in Hosts |-> 0]
    /\ fireTime' = [h \in Hosts |-> 0]
    /\ record' = [h \in Hosts |-> FreshHost]
    /\ data' = [h \in Hosts |-> [k \in RecordKinds |-> NoData]]
    /\ nsecPending' = [h \in Hosts |-> FALSE]
    /\ callback' = [h \in Hosts |-> [k \in RecordKinds |-> NoCallback]]
    /\ cancelled' = cancelled \cup
                      ({callback[h][k] : h \in Hosts, k \in RecordKinds} \ {NoCallback})
    /\ lastMc' = [h \in Hosts |-> [k \in RecordKinds |-> NoLastMc]]
    /\ probesSent' = [h \in Hosts |-> 0]
    /\ sinceFirstProbe' = [h \in Hosts |-> 0]
    /\ tieBreaksLost' = [h \in Hosts |-> 0]
    /\ txMcast' = {}
    /\ UNCHANGED <<entryTaskPosted, issued, reported>>

\* Core::SetEnabled(TRUE)
Enable ==
    /\ ~enabled
    /\ enabled' = TRUE
    /\ txMcast' = {}
    /\ UNCHANGED <<hostState, probeCount, fireTime, record, data, nsecPending,
                   callback, entryTaskPosted, issued, reported, cancelled,
                   lastMc, probesSent, sinceFirstProbe, tieBreaksLost>>

-----------------------------------------------------------------------------
(* Received messages (RxMessage::ProcessQuery / ProcessResponse).          *)

\* A multicast (QM) question of type q for host name h, answered by
\* HostEntry::AnswerQuestion -> Entry::AnswerNonProbe: only a Registered
\* entry answers; every answerable record whose type matches gets an answer
\* scheduled now (unique records are not delayed); if none matches but the
\* entry has an answerable record, an NSEC answer is scheduled
\* (ScheduleNsecAnswer).
RxQuery(h) ==
    \E q \in QuestionTypes :
      LET matches(k) == q = RrType[k] \/ q = "ANY"
          can(k) == CanAnswer(record[h][k])
          answerNsec == \A k \in RecordKinds : can(k) => ~matches(k)
      IN /\ enabled
         /\ hostState[h] = "Registered"
         /\ record' = [record EXCEPT ![h] =
                         [k \in RecordKinds |->
                            IF matches(k) THEN ScheduleAnswer(record[h][k], 0)
                                          ELSE record[h][k]]]
         /\ nsecPending' = [nsecPending EXCEPT ![h] =
                              @ \/ ((\E k \in RecordKinds : can(k)) /\ answerNsec)]
         /\ txMcast' = {}
         /\ UNCHANGED <<enabled, hostState, probeCount, fireTime, data, callback,
                        entryTaskPosted, issued, reported, cancelled, lastMc,
                        probesSent, sinceFirstProbe, tieBreaksLost>>

\* A response from another responder carrying a different record for the
\* name h that the entry claims (a record it can answer with): a Probing or
\* Registered entry moves to Conflict (HandleConflict -> SetStateToConflict)
\* and its callbacks are reported through the task.
RxConflictingResponse(h) ==
    /\ enabled
    /\ hostState[h] \in {"Probing", "Registered"}
    /\ \E k \in RecordKinds : CanAnswer(record[h][k])
    /\ hostState' = [hostState EXCEPT ![h] = "Conflict"]
    /\ entryTaskPosted' = (entryTaskPosted \/ StatePostsCallbackTask("Conflict", HasCallback(h)))
    /\ txMcast' = {}
    /\ UNCHANGED <<enabled, probeCount, fireTime, record, data, nsecPending,
                   callback, issued, reported, cancelled, lastMc, probesSent,
                   sinceFirstProbe, tieBreaksLost>>

\* A probe from another responder for the name h (a question with
\* mIsProbe: the peer's proposed records are in its Authority section),
\* received by a Registered entry: Entry::AnswerProbe defends the name by
\* scheduling an answer for every answerable record, exempt from the
\* one-second rate limit but no earlier than kMinIntervalProbeResponse
\* after the record's last multicast.
RxProbe(h) ==
    /\ PeerProbes
    /\ enabled
    /\ hostState[h] = "Registered"
    /\ \E k \in RecordKinds : CanAnswer(record[h][k])
    /\ record' = [record EXCEPT ![h] =
                    [k \in RecordKinds |-> ScheduleProbeAnswer(record[h][k])]]
    /\ lastMc' = [lastMc EXCEPT ![h] =
                    [k \in RecordKinds |->
                       [lastMc[h][k] EXCEPT !.probed = @ \/ CanAnswer(record[h][k])]]]
    /\ txMcast' = {}
    /\ UNCHANGED <<enabled, hostState, probeCount, fireTime, data, nsecPending,
                   callback, entryTaskPosted, issued, reported, cancelled,
                   probesSent, sinceFirstProbe, tieBreaksLost>>

\* Mutant of RestartProbing: the probe counter is not reset.
RestartProbingKeepCount(n) == n

\* The probe counter after a lost tie-break: the sequence starts over.
RestartProbing(n) == 0

\* A simultaneous probe for the name h of a Probing entry whose proposed
\* records sort after ours (spec.md 4.3: the peer wins the tie-break):
\* the entry waits ProbeRestartDelay and restarts its probe sequence.  When
\* ours sort after the peer's, nothing changes.
RxProbeLostTieBreak(h) ==
    /\ PeerProbes
    /\ enabled
    /\ hostState[h] = "Probing"
    /\ tieBreaksLost[h] < MaxTieBreaksLost
    /\ probeCount' = [probeCount EXCEPT ![h] = RestartProbing(@)]
    /\ fireTime' = [fireTime EXCEPT ![h] = ProbeRestartDelay]
    /\ probesSent' = [probesSent EXCEPT ![h] = 0]
    /\ sinceFirstProbe' = [sinceFirstProbe EXCEPT ![h] = 0]
    /\ tieBreaksLost' = [tieBreaksLost EXCEPT ![h] = @ + 1]
    /\ txMcast' = {}
    /\ UNCHANGED <<enabled, hostState, record, data, nsecPending, callback,
                   entryTaskPosted, issued, reported, cancelled, lastMc>>

-----------------------------------------------------------------------------
(* Core::HandleEntryTimer: every entry runs Entry::HandleTimer against one *)
(* probe message and one multicast response, both are sent, and then each *)
(* entry updates its records from the response (UpdateRecordsState), which *)
(* may leave it empty and Removing (ScheduleToRemoveIfEmpty).              *)

HandleEntryTimer ==
    LET probeDue(h)  == hostState[h] = "Probing" /\ fireTime[h] = 0
        sendsProbe(h) == probeDue(h) /\ ~ProbesComplete(probeCount[h])
        claims(h)    == probeDue(h) /\ ProbesComplete(probeCount[h])
        st1(h)       == IF claims(h) THEN "Registered" ELSE hostState[h]
        rec1(h, k)   == IF claims(h) THEN StartAnnouncing(record[h][k])
                                     ELSE record[h][k]
        appended(h, k) == Advertises(st1(h)) /\ ShouldAppendToMulticast(rec1(h, k))
        rec2(h, k)   == IF appended(h, k) THEN UpdateStateAfterAnswer(rec1(h, k))
                                          ELSE rec1(h, k)
        nowEmpty(h)  == /\ st1(h) \in {"Probing", "Registered", "Conflict"}
                        /\ \A k \in RecordKinds : ~rec2(h, k).present
        st2(h)       == IF nowEmpty(h) THEN "Removing" ELSE st1(h)
    IN /\ TimerDue
       /\ hostState' = [h \in Hosts |-> st2(h)]
       /\ probeCount' = [h \in Hosts |->
                           IF sendsProbe(h) THEN probeCount[h] + 1 ELSE probeCount[h]]
       /\ fireTime' = [h \in Hosts |->
                         IF sendsProbe(h) THEN ProbeWaitTime
                         ELSE IF st2(h) = "Probing" THEN fireTime[h] ELSE 0]
       /\ record' = [h \in Hosts |-> [k \in RecordKinds |-> rec2(h, k)]]
       /\ nsecPending' = [h \in Hosts |-> nsecPending[h] /\ st1(h) # "Registered"]
       /\ entryTaskPosted' =
             \/ entryTaskPosted
             \/ \E h \in Hosts : \/ claims(h) /\ StatePostsCallbackTask("Registered", HasCallback(h))
                                 \/ nowEmpty(h)
       /\ txMcast' = {[host |-> hk[1], kind |-> hk[2], ttl |-> rec1(hk[1], hk[2]).ttl,
                       data |-> data[hk[1]][hk[2]]] :
                        hk \in {x \in Hosts \X RecordKinds : appended(x[1], x[2])}}
       /\ lastMc' = [h \in Hosts |-> [k \in RecordKinds |->
                       IF appended(h, k)
                       THEN [valid |-> TRUE, since |-> 0, ttl |-> rec1(h, k).ttl,
                             data |-> data[h][k], updated |-> FALSE,
                             probed |-> FALSE]
                       ELSE lastMc[h][k]]]
       /\ probesSent' = [h \in Hosts |->
                           IF sendsProbe(h) /\ probesSent[h] < NumberOfProbes
                           THEN probesSent[h] + 1 ELSE probesSent[h]]
       /\ sinceFirstProbe' = [h \in Hosts |->
                           IF sendsProbe(h) /\ probesSent[h] = 0 THEN 0
                           ELSE sinceFirstProbe[h]]
       /\ UNCHANGED <<enabled, data, callback, issued, reported, cancelled,
                      tieBreaksLost>>

\* Core::HandleEntryTask: Entry::InvokeCallbacks reports kErrorNone to the
\* callbacks of Registered entries and kErrorDuplicated to those of
\* Conflict entries, clearing them; then RemoveEmptyEntries frees every
\* Removing entry.
HandleEntryTask ==
    LET outcome(h) == IF hostState[h] = "Registered" THEN "ok" ELSE "duplicated"
        invoked(h) == hostState[h] \in {"Registered", "Conflict"}
        freed(h)   == hostState[h] = "Removing"
    IN /\ entryTaskPosted
       /\ entryTaskPosted' = FALSE
       /\ reported' = [r \in Reqs |->
                         IF \E h \in Hosts, k \in RecordKinds :
                               invoked(h) /\ callback[h][k] = r
                         THEN outcome(CHOOSE h \in Hosts :
                                        \E k \in RecordKinds : callback[h][k] = r)
                         ELSE reported[r]]
       /\ callback' = [h \in Hosts |->
                         IF invoked(h) THEN [k \in RecordKinds |-> NoCallback]
                         ELSE callback[h]]
       /\ hostState' = [h \in Hosts |-> IF freed(h) THEN "Absent" ELSE hostState[h]]
       /\ probeCount' = [h \in Hosts |-> IF freed(h) THEN 0 ELSE probeCount[h]]
       /\ fireTime' = [h \in Hosts |-> IF freed(h) THEN 0 ELSE fireTime[h]]
       /\ record' = [h \in Hosts |-> IF freed(h) THEN FreshHost ELSE record[h]]
       /\ data' = [h \in Hosts |->
                     IF freed(h) THEN [k \in RecordKinds |-> NoData] ELSE data[h]]
       /\ nsecPending' = [h \in Hosts |-> nsecPending[h] /\ ~freed(h)]
       /\ lastMc' = [h \in Hosts |->
                       IF freed(h) THEN [k \in RecordKinds |-> NoLastMc] ELSE lastMc[h]]
       /\ probesSent' = [h \in Hosts |-> IF freed(h) THEN 0 ELSE probesSent[h]]
       /\ sinceFirstProbe' = [h \in Hosts |->
                                IF freed(h) THEN 0 ELSE sinceFirstProbe[h]]
       /\ tieBreaksLost' = [h \in Hosts |-> IF freed(h) THEN 0 ELSE tieBreaksLost[h]]
       /\ txMcast' = {}
       /\ UNCHANGED <<enabled, issued, cancelled>>

\* Time passes by one unit.  The tasklet and a due entry timer run before
\* the platform waits again, so time only moves when neither is pending.
Tick ==
    /\ ~TimerDue
    /\ ~entryTaskPosted
    /\ fireTime' = [h \in Hosts |-> Dec(fireTime[h])]
    /\ record' = [h \in Hosts |-> [k \in RecordKinds |-> AgeRecord(record[h][k])]]
    /\ lastMc' = [h \in Hosts |-> [k \in RecordKinds |->
                    [lastMc[h][k] EXCEPT !.since =
                       IF @ < MinIntervalBetweenMulticast THEN @ + 1 ELSE @]]]
    /\ sinceFirstProbe' = [h \in Hosts |->
                             IF sinceFirstProbe[h] < ProbeWindow
                             THEN sinceFirstProbe[h] + 1 ELSE sinceFirstProbe[h]]
    /\ txMcast' = {}
    /\ UNCHANGED <<enabled, hostState, probeCount, data, nsecPending, callback,
                   entryTaskPosted, issued, reported, cancelled, probesSent,
                   tieBreaksLost>>

-----------------------------------------------------------------------------

Environment ==
    \/ \E h \in Hosts : \/ RegisterHost(h) \/ RegisterKey(h)
                        \/ UnregisterHost(h) \/ UnregisterKey(h)
                        \/ RxQuery(h) \/ RxConflictingResponse(h)
                        \/ RxProbe(h) \/ RxProbeLostTieBreak(h)
    \/ Disable
    \/ Enable

Next ==
    \/ Environment
    \/ HandleEntryTimer
    \/ HandleEntryTask
    \/ Tick

\* The platform runs the timer and the tasklet whenever they are due, and
\* time keeps passing; strong fairness because the environment may disable
\* them intermittently by acting at the same instant.
Fairness ==
    /\ SF_vars(HandleEntryTimer)
    /\ SF_vars(HandleEntryTask)
    /\ SF_vars(Tick)

Spec == Init /\ [][Next]_vars /\ Fairness

-----------------------------------------------------------------------------
(* Properties                                                              *)

TypeOK ==
    /\ enabled \in BOOLEAN
    /\ hostState \in [Hosts -> HostStates]
    /\ probeCount \in [Hosts -> 0..NumberOfProbes]
    /\ fireTime \in [Hosts -> 0..Max2(Max2(InitialProbeDelay, ProbeWaitTime),
                                       ProbeRestartDelay)]
    /\ record \in [Hosts -> [RecordKinds -> RecordInfoSet]]
    /\ data \in [Hosts -> [RecordKinds -> AddrLists \cup KeyDatas \cup {NoData}]]
    /\ nsecPending \in [Hosts -> BOOLEAN]
    /\ callback \in [Hosts -> [RecordKinds -> Reqs \cup {NoCallback}]]
    /\ entryTaskPosted \in BOOLEAN
    /\ issued \subseteq Reqs
    /\ reported \in [Reqs -> {"none", "ok", "duplicated"}]
    /\ cancelled \subseteq issued
    /\ probesSent \in [Hosts -> 0..NumberOfProbes]
    /\ sinceFirstProbe \in [Hosts -> 0..ProbeWindow]
    /\ tieBreaksLost \in [Hosts -> 0..MaxTieBreaksLost]

\* RFC 6762 section 6 as the responder applies it (RecordInfo::ScheduleAnswer
\* skips an answer too close to the last multicast; ShouldAppendTo sends
\* announcements on their own schedule; UpdateProperty/UpdateTtl restart
\* it; Entry::AnswerProbe answers probes after kMinIntervalProbeResponse):
\* a record of an entry is multicast again within
\* MinIntervalBetweenMulticast of its previous multicast only if a Register
\* or Unregister call changed it in between, or if it answers a probe and
\* at least MinIntervalProbeResponse has passed.
RepeatOnlyWhenUpdated ==
    [][\A m \in txMcast' :
          LET prev == lastMc[m.host][m.kind]
          IN (prev.valid /\ prev.since < MinIntervalBetweenMulticast) =>
                \/ prev.updated
                \/ prev.probed /\ prev.since >= MinIntervalProbeResponse]_vars

\* Probing before claiming a name (Entry::HandleTimer, kNumberOfProbes,
\* kProbeWaitTime): a record of a host goes out with a non-zero TTL only
\* after NumberOfProbes probes naming the host were sent since it last began
\* probing, the first of them at least NumberOfProbes * ProbeWaitTime ago.
ProbedBeforeAnnounced ==
    [][\A m \in txMcast' :
          m.ttl > 0 => /\ probesSent[m.host] >= NumberOfProbes
                       /\ sinceFirstProbe[m.host] >= ProbeWindow]_vars

\* Register callbacks are delivered (Entry::SetState -> ScheduleCallbackTask,
\* Core::HandleEntryTask -> InvokeCallbacks): a callback stored in an entry
\* is eventually invoked, or is cleared or replaced by a later call; an entry
\* never stays in probing nor keeps a callback the task does not reach.
StoredCallbackDelivered ==
    \A h \in Hosts, k \in RecordKinds, r \in Reqs :
        (callback[h][k] = r) ~> (callback[h][k] # r)

\* Withdrawing(h): every record of the Registered entry h was unregistered
\* (TTL 0) and its goodbye is still to be sent.
Withdrawing(h) ==
    /\ hostState[h] = "Registered"
    /\ \E k \in RecordKinds : record[h][k].present
    /\ \A k \in RecordKinds : record[h][k].present => record[h][k].ttl = 0

\* An unregistered host is withdrawn and freed (UnregisterHost/Key ->
\* UpdateTtl(0), the goodbye in UpdateStateAfterAnswer, ScheduleToRemoveIfEmpty,
\* RemoveEmptyEntries): it leaves mHostEntries, unless it is registered again
\* or mDNS is disabled first.
WithdrawnEntryFreed ==
    \A h \in Hosts :
        Withdrawing(h) ~> \/ hostState[h] \in {"Absent", "Probing"}
                          \/ \E k \in RecordKinds : CanAnswer(record[h][k])
                          \/ ~enabled

\* The header's contract for RegisterHost/RegisterKey (mdns.hpp 187-195,
\* 309-310): the callback of a request is invoked later with the outcome,
\* unless the request is withdrawn by Unregister or by disabling mDNS.  So a
\* request handed to a Register call and not yet reported or withdrawn is
\* still held in a callback slot of an entry (Entry::mCallback, mKeyCallback)
\* where Core::HandleEntryTask can reach it.
RequestHeld ==
    \A r \in issued :
        \/ reported[r] # "none"
        \/ r \in cancelled
        \/ \E h \in Hosts, k \in RecordKinds : callback[h][k] = r

=============================================================================
