# TLA+ models of the OpenThread mDNS responder

This directory holds TLA+ models of the mDNS responder whose interface is
`src/src/core/net/mdns.hpp`. It has TLC configurations that check them and
`PROJECT.json`, which indexes components, runs, mutants, the source map,
findings and hazards.

The repository contains the responder's header only. The method bodies
(`mdns.cpp`) are absent. The models therefore take their state from the
members the header declares (`Core`, `Entry`, `HostEntry`, `RecordInfo`,
`Callback`, `FireTime`), with one action per declared operation. Where the
header gives no body, the behaviour of an operation follows `spec.md`
(sections 4.2, 4.3, 4.9) and the documentation comments in the header, within
the structure the header fixes. `PROJECT.json` "map" names, for every
definition, the header lines it stands for.

## The system

The responder is single-threaded and cooperative (spec.md section 5). State
changes only inside three kinds of entry point:

1. the public API calls (`SetEnabled`, `RegisterHost`/`Key`/`Service`,
   `Unregister*`);
2. the platform receive callback (`HandleMessage` -> `RxMessage::ProcessQuery`
   / `ProcessResponse`);
3. the entry timer (`Core::HandleEntryTimer`).

A tasklet, `Core::HandleEntryTask`, runs soon after any of them. It invokes
user callbacks (`Entry::InvokeCallbacks`) and frees removed entries
(`RemoveEmptyEntries`).

| Part (spec.md) | Code | Modelled in |
|---|---|---|
| C1 wire codec | append/parse helpers of `TxMessage`/`RxMessage` | not modelled (bodies absent) |
| C2 record bookkeeping | `Core::RecordInfo` | `MdnsHost` (multicast part) |
| C3 entries | `Core::Entry`, `HostEntry`, `ServiceEntry` | `MdnsHost` (host and key records, with timing); `MdnsService` (service entries, untimed) |
| C4 service-type aggregator | `Core::ServiceType` | `MdnsService` (list and reference counts); `MdnsMultiPacket` (the services PTR answer and its known-answer suppression) |
| C5 tx assembler | `Core::TxMessage` | `MdnsHost` abstracts it to the set of records sent (`txMcast`); `MdnsTxAssembler` models the size limit and the prepare-again protocol |
| C6 rx processor | `Core::RxMessage` | `MdnsHost`: QM questions, probes and conflicting responses; `MdnsTxHistory`: self-origination; `MdnsMultiPacket`: known answers pooled over a bundle |
| C7 multi-packet buffer | `Core::MultiPacketRxMessages` | `MdnsMultiPacket`, composed with C4's PTR answer |
| C8 tx history | `Core::TxMessageHistory` | `MdnsTxHistory` |
| C9 scheduler | `EntryTimer`, `EntryTask` | `MdnsHost` |
| Router info | `Router`, `Router::Info::SetFrom` (router.cpp) | `RouterInfo` |
| Appender | `appender.hpp` in `src/unnamed/part_000` | not modelled (see below) |

## Module `MdnsHost`

The module models host entries (`HostEntry`) with their two records: the
AAAA address record (`mAddrRecord`) and the KEY record (`mKeyRecord`).

**State.** These variables are program state:

| Variable | Code |
|---|---|
| `enabled` | `Core::mIsEnabled` |
| `hostState` | `Entry::mState` per host name; `"Absent"` means no entry in `mHostEntries` |
| `probeCount` | `mProbeCount` |
| `fireTime` | the probe fire time (`FireTime`) |
| `record` | a record per `RecordInfo` field |
| `data` | `mAddresses` / `mKeyData` |
| `nsecPending` | `mMulticastNsecPending` |
| `callback` | `mCallback` / `mKeyCallback` |
| `entryTaskPosted` | the tasklet is posted |

Every `TimeMilli` of the code is kept as an offset from now.
`Tick` advances time by one unit, where one unit is 250 ms. Past offsets that
the code only compares with the 1 s rate limit are capped at that bound.
Addresses, key data and request ids are model values. `NoCallback` is a
`nullptr` callback.

These variables are history, not program state:

| Variable | Records |
|---|---|
| `issued` | request ids handed to Register calls |
| `reported` | the outcome each request was reported with |
| `cancelled` | request ids whose callback the API contract drops |
| `txMcast` | the records in the multicast response of the current step |
| `lastMc` | the last multicast of each record, and whether a call changed the record since |
| `probesSent`, `sinceFirstProbe` | the probes sent for the host since it last began probing |
| `tieBreaksLost` | probe tie-breaks the entry lost since it began probing (bounded by `MaxTieBreaksLost`) |

`lastMc` also records whether a peer's probe was answered since the last
multicast (`probed`).

**Actions.**

- `RegisterHost`/`RegisterKey` map to `RegisterRecord`. A new or Removing
  entry restarts probing. The callback slot is overwritten (`SetCallback`).
  The task is posted for Registered/Conflict entries that hold a callback.
  The TTL and data go through `UpdateTtl`/`UpdateProperty`, which restart
  announcing on a change.
- `RegisterHost` with no addresses (`mNumAddresses` 0) is, as the header
  documents (hpp:179-180), treated as if the host were unregistered: the
  address record is withdrawn as by `UnregisterHost`.
- `UnregisterHost`/`UnregisterKey` map to `UnregisterRecord`. A Registered
  entry sets TTL 0, so a goodbye is pending. A Probing or Conflict entry
  drops the record. An emptied entry becomes Removing.
- `Disable` drops every entry without goodbyes or callbacks. `Enable` turns
  the responder back on.
- `RxQuery` is a QM question for the host name. Matching answerable records
  get an answer scheduled now (unique records), subject to the rate limit.
  Otherwise NSEC is scheduled.
- `RxProbe` is a probe from another responder (a question with `mIsProbe`)
  for the name of a Registered entry. `Entry::AnswerProbe` schedules an
  answer for every answerable record. It bypasses the 1 s rate limit but
  waits until `kMinIntervalProbeResponse` (250 ms) has passed since the
  record's last multicast (`ScheduleProbeAnswer`, `ProbeAnswerTime`).
- `RxProbeLostTieBreak` is a simultaneous probe that wins the tie-break
  against a Probing entry (spec.md 4.3; the comparison lives in `mdns.cpp`,
  which the repository does not contain). The entry restarts its probe
  sequence after 1 s (`ProbeRestartDelay`). When our records sort after
  the peer's, nothing changes, so the model needs no action for that case.
  Both actions are enabled only when the constant `PeerProbes` is TRUE.
- `RxConflictingResponse` moves a Probing or Registered entry to Conflict and
  posts the task.
- `HandleEntryTimer` covers all entries in one step:
  - probes are sent;
  - after `kNumberOfProbes` probes the name is claimed and announcing starts;
  - due records are appended to one multicast response;
  - `UpdateStateAfterAnswer` advances the announce counter, stamps the last
    multicast and retires goodbyes;
  - an emptied entry becomes Removing.
- `HandleEntryTask` reports `kErrorNone`/`kErrorDuplicated`, clears the
  callbacks and frees Removing entries.
- `Tick` advances time. It is enabled only when the timer is not due and the
  task is not posted: the platform runs both before it waits again.

**Fairness.** `Fairness` puts strong fairness on `HandleEntryTimer`,
`HandleEntryTask` and `Tick`. The code runs a posted tasklet and a due timer
before anything else the platform waits for. Time passes. User calls and
received messages get no fairness: a caller may stop calling at any time.
Strong rather than weak fairness is needed because a user call at the same
instant can briefly disable the timer (for example a conflict).

## Runs

| Run | Config | Expect | Shows |
|---|---|---|---|
| host_safety | `MCMdnsHost.cfg` | pass | `RepeatOnlyWhenUpdated`: a record is multicast again within 1 s of its last multicast only if a call changed it in between (rate limit in `ScheduleAnswer`, announcements, goodbyes), or if it answers a peer's probe at least 250 ms after that multicast. A peer may probe, and may win one tie-break per probing sequence. `ProbedBeforeAnnounced`: a non-zero-TTL record is sent only after 3 probes over the whole 750 ms window since probing last began. Plus `TypeOK`. |
| host_liveness | `MCMdnsHostLive.cfg` | pass | `StoredCallbackDelivered`: a stored callback is eventually invoked, cleared or replaced. `WithdrawnEntryFreed`: an unregistered host sends its goodbyes and is freed unless it is registered again or mDNS is disabled. Both are checked on one state graph of 153k states, with `PeerProbes = FALSE`. |
| host_callback_overwrite | `MCMdnsHostCallback.cfg` | violation | `RequestHeld`: two Register calls for one name before the task runs lose the first request's callback. |

**Findings.**

1. *Callback overwrite.* `Entry` has one callback slot per record kind
   (hpp:638). A second `RegisterHost` replaces the first request's callback
   before the task reports it. The header promises that every request's
   outcome is reported. TLC shows the trace in three steps: register r1,
   register r2, then r1 is held nowhere.

**Announcements and the 1 s limit.** `RecordInfo::ShouldAppendTo` has no
body in the repository. The model sends announcements on their own
schedule (`ShouldAppendToMulticast`), outside the 1 s limit that
`ScheduleAnswer` applies to answers. spec.md 4.2 limits unique records to
one multicast per second, so the code may also hold back an announcement
that follows an answer closely; the repository cannot decide it.
`RepeatOnlyWhenUpdated` holds either way, because a repeat inside 1 s in
the model always follows a change by a call.

**Bounds.**

- One host, address lists `{a1, a2}` (one in the liveness runs), one key
  datum, the default TTL, and one request id (two in the overwrite run).
- The constants are those of the header scaled to 250 ms units:
  - `kInitalProbeDelay` 20 ms -> 0;
  - probe wait 1;
  - announce interval 4;
  - minimum multicast interval 4;
  - `kMinIntervalProbeResponse` 250 ms -> 1;
  - tie-break restart delay 1 s -> 4.
- Three probes and three announces, as in the code. The full
  probe/announce/goodbye sequence (up to 16 units) therefore happens inside
  the model, and the 1 s rate-limit window is shorter than the 2 s announce
  gap, so both orders of a query and an announcement occur.
- Two addresses are the smallest input for which a data change, and a change
  back, exists.
- `MaxTieBreaksLost` is 1. One lost tie-break already restarts a sequence
  that was partly sent, which is the case a wrong reset gets wrong.
- The safety run has 1.66M distinct states (about 2 min). The liveness
  run has 153k states (about 70 s). The liveness run sets `PeerProbes` to
  FALSE. A peer that keeps winning tie-breaks can hold a name in Probing
  forever, and the code does not promise otherwise. With a bounded peer
  the liveness run took more than 5 minutes, so liveness is checked only
  without a competing responder.

**Mutants.** Every passing property is broken by a plausible code bug (see
"mutants" in `PROJECT.json`):

- the rate-limit check dropped from `ScheduleAnswer`;
- a probe answer scheduled without the 250 ms wait;
- a tie-break restart that keeps `mProbeCount`;
- claiming one probe early, or probing once too often;
- the task not posted when a name is claimed;
- a goodbye that does not retire its record.

## Module `MdnsService`

The module models service entries (`ServiceEntry`) and the service-type
aggregator (`ServiceType`, `Core::mServiceTypes`). That aggregator answers
`_services._dns-sd._udp.local.`.

**Records.** Per entry there are two records:

- `"svc"` stands for the PTR/SRV/TXT records, which `RegisterService` and
  `UnregisterService` set together;
- `"key"` is the KEY record on the service instance name.

A record is `"none"`, `"live"` (present, TTL > 0) or `"goodbye"` (present,
TTL 0).

**Sub-types.** `subs[s][l]` is the PTR record of the `SubType` with label `l`
(`"none"` when there is no such `SubType` in `mSubTypes`).
`RegisterService(s)` chooses the list `L` of sub-type labels in the
`ServiceInfo` from `SubTypesOf[s]`. Every listed label gets a live PTR. A
sub-type that is no longer listed (`SubType::IsContainedIn` is false) goes to
TTL 0 in a Registered entry, so that its goodbye goes out, and is dropped in
a Probing or Conflict entry. `UnregisterService` does the same to all of them.
`SendGoodbyes` frees the sub-types whose goodbye it sent (`EmptyChecker`).
`subInfo` (the labels of the current registration) and `announced` (the
sub-types multicast while Registered whose goodbye is not sent yet) are
history.

**Aggregator state.**

- `addedInTypes` is `mIsAddedInServiceTypes`.
- `typeList` is the set of types with a `ServiceType`.
- `numEntries` is the uint16 `mNumEntries`.

**Actions.**

- Register/Unregister of either record, mapped to `ServiceEntry::Register` and
  `Unregister`, with the same state rules as host entries.
- `ProbesDone` (the timer's `StartAnnouncing`).
- `SendGoodbyes` (the timer's `UpdateRecordsState`, then
  `ScheduleToRemoveIfEmpty`).
- `RxConflictingResponse`.
- `HandleEntryTask`, which frees Removing entries.
- `Disable`, which clears both lists.
- `Enable`.

Each action that changes an entry goes through `SetEntry`, which ends in
`UpdateServiceTypes`:

- `shouldAdd` holds in Registered and Conflict: spec.md line 46 says the
  reference is taken when the entry leaves Probing and dropped when it
  enters Removing;
- the update exits early when `shouldAdd` equals the flag;
- otherwise it sets the flag and finds, or creates, the `ServiceType`
  (spec.md line 54);
- it increments on add, or decrements and removes the type at zero.

A failing heap allocation of a `ServiceType` is not modelled: the body that
would handle it is absent, and the order of the flag and the allocation in
it is unknown.

**Scope.** Time is abstracted here: `MdnsHost` already checks the Entry timing,
and the aggregator sees only entry states. The method bodies are not in
the repository. The update follows the header's fields and spec.md lines 46
and 54.

**Runs.**

| Run | Config | Expect | Shows |
|---|---|---|---|
| service_types | `MCMdnsService.cfg` | pass | `ServiceTypesMatchEntries`: the type list is exactly the types of services that left Probing and have not entered Removing, and each count is the number of such services. This holds over every interleaving of the service calls, timer steps, conflicts, frees and disable. `SubTypeGoodbyeOwed`: in a Registered service, a sub-type that was announced answers only while the current registration lists it; otherwise its TTL-0 PTR stays until the goodbye is sent (spec.md 4.3 and test 4, "goodbye PTR for sA"). `TypeOK` bounds a listed count to 1..(services of that type). |
| service_types_listed | `MCMdnsServiceListed.cfg` | violation | `ServiceTypesListRegistered` (spec.md 4.4): the types listed are those of Registered services with live service records. |

**Finding.** spec.md disagrees with itself. Line 46 keeps the reference
from leaving Probing until entering Removing. Section 4.4 and line 238 list
only the types of registered services. TLC's trace has two steps: register
`s1`, then a conflicting response moves it from Probing to Conflict; its type
stays listed. A Registered service whose PTR/SRV/TXT were unregistered while
its KEY record remains stays listed too.

**Bounds.** The instance has three services: `s1` and `s2` of type `t1`, and
`s3` of type `t2`. A type is shared (counted to 2), a type survives one of its
services leaving, and a type stands alone. `s1` may list any subset of two
sub-types, so re-registers can add, drop and swap them. The run has 115k
distinct states and a depth of 24.

**Mutants.**

- A ServiceType left in the list at count 0 breaks `TypeOK`.
- A dropped `shouldAdd != mIsAddedInServiceTypes` guard double-counts and breaks
  `ServiceTypesMatchEntries`.
- Freeing a dropped sub-type at once, without its goodbye, breaks
  `SubTypeGoodbyeOwed`.

## Module `MdnsTxHistory`

`TxMessageHistory` remembers the hash of every multicast that
`TxMessage::Send` puts on the wire. This lets `RxMessage` recognise its own
messages when the network loops them back (`mIsSelfOriginating`).

**State.**

- `inHist`: the hashes in `mHashEntries`.
- `left`: each entry's `mExpireTime - now`.
- `timerLeft`: the history timer.
- `echoes`: looped-back copies in flight, each with its age and whether it was
  sent in the current enable period.
- `rxLast`: how the last copy received was classified.

A message's hash is its identity. Messages are model values, and sending the
same content twice gives the same hash.

**Actions.**

- `Send` performs `Add`: find or allocate the entry, set `mExpireTime` to now
  + 10 s, then `FireAtIfEarlier`. The network gets a copy.
- `Receive` is `Contains` in `RxMessage::Init`. The network may deliver a copy
  twice.
- `Lose` drops a copy.
- `HandleTimer` removes every entry with `mExpireTime <= now`, the header's
  `HashEntry::Matches(ExpireChecker)`, and re-arms for the earliest remaining
  entry.
- `Disable` is `Clear`. `Enable` turns the responder back on.
- `Tick` moves time on by one second. A due timer runs first, and every copy
  is delivered or lost within `MaxLoopDelay`. The timer and a receive are
  otherwise unordered.

**Runs.**

| Run | Config | Expect | Shows |
|---|---|---|---|
| tx_history | `MCMdnsTxHistory.cfg` | pass | `EchoRecognised`: every own copy looped back within 10 s, in the same enable period, is self-originating. This holds for re-sends, duplicates, losses, and the timer running before or after a receive. `NoStaleHash`: no entry outlives its expiry by a time step, because the timer is never later than the earliest expiry. Plus `TypeOK`. |
| tx_history_clear_on_disable | `MCMdnsTxHistoryClear.cfg` | violation | `EchoRecognisedAcrossEnable`: after a disable/enable, a copy of a message sent before it is taken as foreign, because `SetEnabled(false)` clears the history. |

**Bounds.** Two message contents and the real 10 s expiry in 1 s units. A
loopback delay of one unit lets the copy of a message re-sent late in its
entry's window arrive at, or after, the expiry the first send set, which is
where a missing refresh shows. The run has 9.9k distinct states.

**Mutants.**

- `mExpireTime += kExpireInterval` breaks `TypeOK`.
- No refresh on re-add breaks `EchoRecognised`.
- `FireAt` instead of `FireAtIfEarlier` breaks `NoStaleHash`.

## Module `MdnsTxAssembler`

The module models how one pass of the entry timer fills response messages
without passing `mMaxMessageSize` (spec.md 4.5, the `TxMessage` members
declared at hpp 845-869).

**State.**

- `todo` is the list of entries still to prepare.
- `msg` is the list of entries whose records the message holds.
- `saved` is the checkpoint (`mSavedMsgLength`).
- `prepareAgain` is the `aPrepareAgain` of the current entry.
- `pc` is the loop position.
- `sent` is the messages put on the wire.

An entry's records are abstracted to one size. A message's length is the
header plus the sizes of its entries.

**Actions.**

- `PrepareResponse`: `SaveCurrentState`, then the entry appends.
- `CheckSizeLimitToPrepareAgain`: when the message is over the limit and the
  entry has not been prepared again, the message is restored to the
  checkpoint, sent (`Send` of an empty message sends nothing) and reinitialised,
  and the entry is prepared again. Otherwise the loop moves on to the next
  entry.
- `SendResponse`: the final message goes out.
- `NextPass`: a later timer pass starts with new entries.

**Fairness.** The pass is a loop inside one call of `HandleEntryTimer`, so
weak fairness on `Next` is what the code gives.

**Reference.** `Pack` (RECURSIVE) is the packing spec.md describes:

- entries go out in order;
- a new message is started when the next entry does not fit;
- an entry that fits nowhere goes out alone.

**Run** `tx_assembler` (pass, 1.6k states) checks every sequence of up to four
entries of sizes 1, 2 and 4, with limit 4 and header 1:

- `SentAsPacked`: at the end of a pass, `sent` equals `Pack(entries)`;
- `PassEnds`: every pass ends;
- `TypeOK`, which also says the checkpoint lies inside the message when it
  is checked.

The sizes make two small entries share a message, a third overflow it, and
one entry exceed the limit by itself.

**Mutants.**

- A stale checkpoint on the second attempt breaks `TypeOK`.
- `>=` in `IsOverSizeLimit` breaks `SentAsPacked`.
- A missing `aPrepareAgain` guard loops forever and breaks `PassEnds`.

## Module `MdnsMultiPacket`

The module models the buffer that holds truncated queries until their
follow-up packets arrive (`Core::MultiPacketRxMessages`, hpp 978-1015;
spec.md 4.6 and 4.7).

**State.**

The module also covers what processing a query does to one answer. This
is the PTR record `mServicesPtr` of a `ServiceType`, which answers the
all-services question `_services._dns-sd._udp`. So it composes C7 with
the known-answer check of C6 and the answer of C4.

**State.**

- `entries[s]` is the `RxMsgEntry` of sender address `s`: its messages, in
  order (`mRxMessages`). A message is its TC bit and the TTL of the known
  answer for our PTR it carries (0 for none). An empty sequence means no
  entry.
- `processLeft[s]` is `mProcessTime - now`; `timerLeft` is the multi-packet
  timer, or stopped.
- `ptrPending` and `ptrLeft` are `mServicesPtr`'s
  `mMulticastAnswerPending` and `mAnswerTime - now`.
- `window[s]` and `dropped` are history. `window[s]` is the time left until
  400 ms have passed since `s`'s last truncated packet was buffered.
  `dropped` records each continuation `AddToExisting` dropped, with the
  window its sender had left.
- `sentKa[s]`, `allKa[s]` and `outcomes` are history too.
  - `sentKa[s]` holds the known answers `s` sent for its current query in
    time: in the first packet, or in a continuation within the window.
  - `allKa[s]` holds every known answer `s` sent before the query was
    processed.
  - `outcomes` holds, for the queries processed in a step, those sets and
    whether our PTR was scheduled.

**Actions.** `Core::HandleMessage` of a query from `s`, only while enabled:

- `RxContinuation(s, m)`: a query without questions (its known answers)
  goes to `AddToExisting`. It is appended to `s`'s entry (`Matches` by
  address) while the entry has fewer than `kMaxNumMessages` messages.
  Otherwise it is dropped.
- `RxTruncatedQuery(s, ka)`: a truncated query with questions goes to
  `AddNew`, which replaces any entry of `s` with a new one (`NewEntry`).
- `RxQuery(s, ka)`: a complete query is processed at once (`kProcessed`).

`RxMsgEntry::Add` sets `mProcessTime` to now plus a random 400-500 ms while
the last message is truncated. It sets it to now once a message is not
truncated or the entry is full, and arms the timer with `FireAtIfEarlier`.
The rest:

- `HandleTimer` processes, and removes, every entry with `mProcessTime <= now`
  and sets the timer for the earliest remaining one.
- Processing a query is `AnswerQueries`. `AnswerAllServicesQuestion` asks
  `ShouldSuppressKnownAnswer`, which searches the known answers of the
  message and of every message chained after it (`KnownAnswers`).
  `ServiceType::ShouldSuppressKnownAnswer` suppresses the answer when a
  TTL is at least half of `kServicesPtrTtl`. Otherwise
  `ServiceType::AnswerQuestion` schedules the shared PTR 20-120 ms later,
  keeping an earlier pending time. Shared records are exempt from the
  rate limit.
- `SendPtrAnswer` is `ServiceType::HandleTimer`: the due answer is
  appended to a response and cleared.
- `Disable` is `Clear` from `SetEnabled(false)`; the service types and
  their pending answers go too.
- `Enable` turns the responder back on.
- `Tick` advances time by 100 ms. It waits while either timer is due.

The header declares these operations and constants, but their bodies are
absent. The rules above follow spec.md 4.4, 4.6 and 4.7, with the
declarations at hpp:371, 808-818, 948-964 and 978-1015.

**Fairness.** `WF_vars(Tick)`, `WF_vars(HandleTimer)` and
`WF_vars(SendPtrAnswer)`: time passes, and a due timer runs. No fairness is
put on received packets.

**Run** `multi_packet` (pass, 465k states, about 50 s) uses:

- two senders and 100 ms units;
- a cap of 3 messages standing for `kMaxNumMessages`;
- up to four queries, enough for a query with two follow-ups and one
  packet more, at the cap or from the other sender;
- a response delay of 0 or 1 unit;
- known-answer TTLs 0 (none), 2249 and 2250 around the threshold of
  4500/2.

It checks:

- `ContinuationIncluded`: a continuation that arrives within 400 ms of its
  sender's last truncated packet, while the entry has room, is never
  dropped;
- `KnownAnswerHonoured`, which has two halves:
  - when a query is processed, our PTR is scheduled only if no known answer
    sent in time for it holds at least half the TTL;
  - it is withheld only if some known answer sent before processing does.

  The second half allows for a packet that arrives after the querier's
  last (TC=0) packet but before the timer runs. It is still bundled and
  honoured.
- `BufferedQueryProcessed`: every buffered query is eventually processed,
  or cleared by a disable;
- `TypeOK`, which also says no entry holds more than the cap. A packet can
  arrive in the instant the entry fills up, before the timer runs.

**Mutants.**

- `<=` in the cap check breaks `TypeOK`.
- Keeping the first packet's process time breaks `ContinuationIncluded`.
- Each of these breaks `KnownAnswerHonoured`:
  - searching only the first message of a bundle;
  - a strict `>` at the half-TTL threshold;
  - a truncated query joining the sender's old bundle instead of replacing
    it, so that the old known answers suppress the new query.
- Not re-arming the timer after it fires breaks `BufferedQueryProcessed`.

**Abstracted.**

- One service type stands for the list. Known answers for host, service
  and sub-type records are not modelled.
- A response's layout, and the append state of the PTR, are not modelled.
- When `AddNew` replaces a sender's entry, the earlier truncated query is
  given up. `KnownAnswerHonoured` checks that the new query is judged only
  by its own known answers. No property requires the old query to be
  answered, because spec.md does not say which query should win.

## Not modelled, and why

- **The service's host name, SRV/TXT contents, SubType and ServiceType
  allocation failure.** The host link and the record data affect only answer
  contents; the bodies that would handle a failed allocation are absent.
- **TxMessage sections, compression offsets, the additional-data rule.**
  `MdnsTxAssembler` keeps only each entry's total size.
- **The tie-break comparison itself, QU questions and unicast answers,
  known-answer suppression of host, service and sub-type records.** The
  comparison is a byte order on RDATA in `mdns.cpp`, which is absent from
  the repository, so the model chooses its outcome freely. The others are
  not modelled yet. Known-answer suppression is modelled only for the
  services PTR (`MdnsMultiPacket`).
- **Wire codec and name compression.** These are byte-level functions whose
  bodies are not in the repository.
- **TimeMilli wrap and the 10 h `kLastMulticastTimeAge`.** Relative offsets
  cannot represent them.
- **Appender.** `appender.hpp` declares a sequential helper. Its bodies
  are absent, and nothing in the repository calls it. A model could only
  restate the header's comments. The callers of `Router::SetCost` are not in the repository
  either. So the 4-bit truncation of `mCost` is modelled, but no property
  about it is checked.

## Plan for later work

1. Known-answer suppression of host and service records, and QU questions
   answered by unicast.

## Module `RouterInfo`

`src/src/core/net/mdns.hpp` ends with `router.hpp` (class `Router`).
`src/src/core/thread/router.cpp` implements `Router::Info::SetFrom` and
`Router::Clear`. This is real code, so the module translates it directly,
keeping field widths:

| Field | Width |
|---|---|
| `mLinkQualityOut` | 2 bits |
| `mCost` | 4 bits, `CostBits` (8 with long routes) |
| `mNextHop` | uint8 |
| the age | uint8 |

**State.**

- The router's fields.
- `elapsed`: the TimeMilli difference `now - mLastHeard` that `SetFrom` reads.
- `info`: the snapshot taken in the current step. It is reset by every other
  step, so snapshots do not multiply the states.

**Actions.**

- `SetNextHop`, `SetLinkQualityOut` and `SetCost` store into the narrow
  fields.
- `Clear` zeroes everything through memset. With a zero `mLastHeard`, the
  elapsed time becomes the time since boot: any value up to the bound.
- `GetInfo` is `SetFrom`.
- `HeardFrom`, `LinkLost` and `Tick` stand for `Neighbor`, which is not in
  the repository.

**Runs.**

| Run | Config | Expect | Shows |
|---|---|---|---|
| router_age_wrap | `MCRouterInfoAge.cfg` | violation | `AgeTracksLastHeard`: at 256 s of silence the uint8 age wraps to 0 and a stale router looks fresh. |

**Bounds.** Time moves in 1.5 s steps, so the seconds conversion truncates,
up to 300 s, which is past the wrap at 256 s. TLC finds the
violation after about 1k distinct states. The 32-bit TimeMilli wrap (49 days) lies outside the bound. The
difference is exact below it.
