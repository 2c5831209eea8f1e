----------------------------- MODULE MdnsService -----------------------------
(***************************************************************************)
(* Service entries of the OpenThread mDNS responder and the service-type   *)
(* aggregator that answers "_services._dns-sd._udp.local." (mdns.hpp:      *)
(* Core::ServiceEntry, Core::ServiceType, Core::mServiceEntries and        *)
(* mServiceTypes).                                                         *)
(*                                                                         *)
(* A ServiceEntry is an Entry like a HostEntry: it probes, is claimed,     *)
(* announces, may lose its name to a conflict, sends goodbyes and is freed *)
(* by the entry task.  MdnsHost checks that lifecycle with its timing;     *)
(* here the timer steps of one entry are separate actions without time,    *)
(* because the aggregator only sees the entry's state.                    *)
(* ServiceEntry::UpdateServiceTypes keeps, for every service type, a       *)
(* ServiceType with the number of entries that hold a reference on it     *)
(* (mNumEntries), guarded by the entry's mIsAddedInServiceTypes.  The      *)
(* method bodies are not in the repository: when a reference is held       *)
(* follows spec.md line 46 and 54 within the fields the header declares.   *)
(***************************************************************************)
EXTENDS Integers, FiniteSets

CONSTANTS
    Services,     \* service instance names
    Types,        \* service types
    TypeOf,       \* the service type of each service instance
    SubLabels,    \* sub-type labels
    SubTypesOf    \* the sub-type labels a caller may list for each service

ASSUME /\ TypeOf \in [Services -> Types]
       /\ SubTypesOf \in [Services -> SUBSET SubLabels]

\* Entry::State, with "Absent" for no entry in mServiceEntries.
SvcStates == {"Absent", "Probing", "Registered", "Conflict", "Removing"}

\* A record of the entry: not present, present with a non-zero TTL, or
\* present with TTL 0 and its goodbye still to be sent.
RecStates == {"none", "live", "goodbye"}

\* Records of a service entry: "svc" stands for the PTR, SRV and TXT records
\* that RegisterService/UnregisterService set together, "key" for the KEY
\* record of RegisterKey/UnregisterKey on the service instance name.
SvcRecords == {"svc", "key"}

NumEntriesModulus == 2 ^ 16     \* ServiceType::mNumEntries is a uint16_t

VARIABLES
    enabled,          \* Core::mIsEnabled
    svcState,         \* Entry::mState of each service entry
    rec,              \* the records of each service entry
    addedInTypes,     \* ServiceEntry::mIsAddedInServiceTypes
    typeList,         \* service types with a ServiceType in mServiceTypes
    numEntries,       \* ServiceType::mNumEntries of each of them
    entryTaskPosted,  \* Core::mEntryTask is posted
    subs,             \* the PTR record of each SubType in mSubTypes
    \* history, not program state
    subInfo,          \* sub-type labels of the current RegisterService
    announced         \* sub-types multicast with a non-zero TTL while the
                      \* entry is Registered, whose goodbye is not sent yet

vars == <<enabled, svcState, rec, addedInTypes, typeList, numEntries,
          entryTaskPosted, subs, subInfo, announced>>

NoRecords == [r \in SvcRecords |-> "none"]
NoSubTypes == [l \in SubLabels |-> "none"]

\* ServiceEntry::IsEmpty: no record is present.
IsEmpty(recs) == \A r \in SvcRecords : recs[r] = "none"

\* ServiceEntry::UpdateServiceTypes, shouldAdd.  The header has no body;
\* spec.md line 46 fixes it: the entry holds a reference on its ServiceType
\* from the moment it leaves Probing until it enters Removing.
ShouldAdd(st) == st \in {"Registered", "Conflict"}

\* Mutant of RemoveIfUnused: a ServiceType whose count drops to zero stays.
RemoveIfUnusedNever(t) == typeList

\* mServiceTypes.RemoveMatching(*serviceType) once GetNumEntries() is 0.
RemoveIfUnused(t) == IF numEntries'[t] = 0 THEN typeList \ {t} ELSE typeList

\* Mutant of NeedsUpdate: VerifyOrExit(shouldAdd != mIsAddedInServiceTypes)
\* is dropped.
NeedsUpdateAlways(s, shouldAdd) == TRUE

NeedsUpdate(s, shouldAdd) == shouldAdd # addedInTypes[s]

\* ServiceEntry::UpdateServiceTypes, run after the entry s moved to state st.
\* Nothing happens when shouldAdd agrees with
\* mIsAddedInServiceTypes.  Otherwise adding finds the ServiceType of the
\* entry's type, or creates and pushes one (spec.md line 54: created with
\* the first service of its type), and increments it; removing decrements
\* it, if there is one, and removes it from mServiceTypes when no entry
\* is left.
UpdateServiceTypes(s, st) ==
    LET shouldAdd == ShouldAdd(st)
        t == TypeOf[s]
    IN IF ~NeedsUpdate(s, shouldAdd)
       THEN UNCHANGED <<addedInTypes, typeList, numEntries>>
       ELSE /\ addedInTypes' = [addedInTypes EXCEPT ![s] = shouldAdd]
            /\ CASE shouldAdd /\ t \in typeList ->
                      /\ numEntries' = [numEntries EXCEPT ![t] =
                                          (@ + 1) % NumEntriesModulus]
                      /\ UNCHANGED typeList
                 [] shouldAdd ->
                      /\ numEntries' = [numEntries EXCEPT ![t] = 1]
                      /\ typeList' = typeList \cup {t}
                 [] ~shouldAdd /\ t \in typeList ->
                      /\ numEntries' = [numEntries EXCEPT ![t] =
                                          (@ - 1) % NumEntriesModulus]
                      /\ typeList' = RemoveIfUnused(t)
                 [] OTHER -> UNCHANGED <<typeList, numEntries>>

\* Mutant of RemovedSubType: the SubType is freed at once, without its
\* goodbye, also when the entry is Registered.
RemovedSubTypeDropped(st, x) == IF x = "live" THEN "none" ELSE x

\* The PTR record x of a SubType that the new ServiceInfo no longer lists
\* (SubType::IsContainedIn is false), or of every SubType on Unregister,
\* in an entry in state st: a Registered entry sets its TTL to 0 so that a
\* goodbye goes out; a Probing or Conflict entry, which never multicast
\* it, drops it; a pending goodbye is kept.
RemovedSubType(st, x) ==
    IF x = "live" THEN IF st = "Registered" THEN "goodbye" ELSE "none"
    ELSE x

\* The SubTypes of service s after a Register with sub-type labels L in
\* state st: every listed label has a SubType (FindMatching, or
\* SubType::Init and Push) with a present PTR record and a non-zero TTL;
\* the others are removed as above.
SubTypesAfter(s, st, L) ==
    [l \in SubLabels |-> IF l \in L THEN "live" ELSE RemovedSubType(st, subs[s][l])]

\* Entry::StartProbing from Core::Register: a new entry, or one that is
\* being removed, probes its name again.
StartsProbing(st) == st \in {"Absent", "Removing"}

\* The entry s moves to state st with records recs, and the aggregator
\* follows: Entry::SetState and the Register/Unregister methods both end in
\* UpdateServiceTypes.  An entry that becomes Removing posts the task that
\* frees it (SetStateToRemoving, ScheduleCallbackTask).  sb are the
\* entry's SubType PTR records afterwards; `announced` follows them.
SetEntry(s, st, recs, sb) ==
    /\ svcState' = [svcState EXCEPT ![s] = st]
    /\ rec' = [rec EXCEPT ![s] = recs]
    /\ subs' = [subs EXCEPT ![s] = sb]
    /\ announced' = [announced EXCEPT ![s] =
          IF st = "Registered"
          THEN (@ \cup {l \in SubLabels : sb[l] = "live"})
               \ {l \in SubLabels : subs[s][l] = "goodbye" /\ sb[l] = "none"}
          ELSE {}]
    /\ UpdateServiceTypes(s, st)
    /\ entryTaskPosted' = (entryTaskPosted \/ st = "Removing")

Init ==
    /\ enabled = TRUE
    /\ svcState = [s \in Services |-> "Absent"]
    /\ rec = [s \in Services |-> NoRecords]
    /\ addedInTypes = [s \in Services |-> FALSE]
    /\ typeList = {}
    /\ numEntries = [t \in Types |-> 0]
    /\ entryTaskPosted = FALSE
    /\ subs = [s \in Services |-> NoSubTypes]
    /\ subInfo = [s \in Services |-> {}]
    /\ announced = [s \in Services |-> {}]

\* Core::RegisterService / RegisterKey with ServiceEntry::Register: find or
\* allocate the entry (FindMatching, Init, Push), restart probing if it is
\* new or Removing, and make record r present with a non-zero TTL
\* (UpdateTtl, UpdateProperty); RegisterService also brings the SubTypes in
\* line with the sub-type labels L of the ServiceInfo; then
\* UpdateServiceTypes.
RegisterRecord(s, r, sb) ==
    /\ enabled
    /\ SetEntry(s, IF StartsProbing(svcState[s]) THEN "Probing" ELSE svcState[s],
                [rec[s] EXCEPT ![r] = "live"], sb)
    /\ UNCHANGED enabled

RegisterService(s) ==
    \E L \in SUBSET SubTypesOf[s] :
        /\ RegisterRecord(s, "svc", SubTypesAfter(s, svcState[s], L))
        /\ subInfo' = [subInfo EXCEPT ![s] = L]

RegisterServiceKey(s) ==
    /\ RegisterRecord(s, "key", subs[s])
    /\ UNCHANGED subInfo

\* Core::UnregisterService / UnregisterKey with ServiceEntry::Unregister:
\* nothing without a matching entry whose record is present.  A Registered
\* entry sets the TTL to 0 (a goodbye is pending, the record stays present);
\* a Probing or Conflict entry drops the record (ClearService/ClearKey) and
\* ScheduleToRemoveIfEmpty makes an empty entry Removing; a Removing entry
\* is left alone.  UnregisterService does the same to every SubType's PTR.
\* Then UpdateServiceTypes.
UnregisterRecord(s, r, sb) ==
    LET st == svcState[s]
        rs == [rec[s] EXCEPT ![r] = CASE st = "Registered"            -> "goodbye"
                                      [] st \in {"Probing", "Conflict"} -> "none"
                                      [] OTHER                          -> @]
    IN /\ enabled
       /\ st # "Absent"
       /\ rec[s][r] # "none"
       /\ SetEntry(s, IF st # "Removing" /\ IsEmpty(rs) THEN "Removing" ELSE st,
                   rs, IF st = "Removing" THEN subs[s] ELSE sb)
       /\ UNCHANGED enabled

UnregisterService(s) ==
    /\ UnregisterRecord(s, "svc", SubTypesAfter(s, svcState[s], {}))
    /\ subInfo' = [subInfo EXCEPT ![s] = {}]

UnregisterServiceKey(s) ==
    /\ UnregisterRecord(s, "key", subs[s])
    /\ UNCHANGED subInfo

\* ServiceEntry::HandleTimer once the last probe was sent without a
\* conflict: StartAnnouncing sets the state to Registered.
ProbesDone(s) ==
    /\ enabled
    /\ svcState[s] = "Probing"
    /\ SetEntry(s, "Registered", rec[s], subs[s])
    /\ UNCHANGED <<enabled, subInfo>>

\* ServiceEntry::HandleTimer of a Registered entry with goodbyes due:
\* UpdateRecordsState marks every record sent with TTL 0 as not present,
\* frees every SubType whose PTR is no longer present (EmptyChecker), and
\* ScheduleToRemoveIfEmpty makes an emptied entry Removing.
SendGoodbyes(s) ==
    LET Sent(x) == IF x = "goodbye" THEN "none" ELSE x
        rs == [r \in SvcRecords |-> Sent(rec[s][r])]
        sb == [l \in SubLabels |-> Sent(subs[s][l])]
    IN /\ enabled
       /\ svcState[s] = "Registered"
       /\ \/ \E r \in SvcRecords : rec[s][r] = "goodbye"
          \/ \E l \in SubLabels : subs[s][l] = "goodbye"
       /\ SetEntry(s, IF IsEmpty(rs) THEN "Removing" ELSE "Registered", rs, sb)
       /\ UNCHANGED <<enabled, subInfo>>

\* RxMessage::ProcessResponse finds a conflicting record for a Probing or
\* Registered entry with an answerable record: HandleConflict sets the state
\* to Conflict.
RxConflictingResponse(s) ==
    /\ enabled
    /\ svcState[s] \in {"Probing", "Registered"}
    /\ \E r \in SvcRecords : rec[s][r] = "live"
    /\ SetEntry(s, "Conflict", rec[s], subs[s])
    /\ UNCHANGED <<enabled, subInfo>>

\* Core::HandleEntryTask: RemoveEmptyEntries frees every Removing entry
\* with its SubTypes.
HandleEntryTask ==
    LET freed(s) == svcState[s] = "Removing"
    IN /\ entryTaskPosted
       /\ entryTaskPosted' = FALSE
       /\ svcState' = [s \in Services |-> IF freed(s) THEN "Absent" ELSE svcState[s]]
       /\ rec' = [s \in Services |-> IF freed(s) THEN NoRecords ELSE rec[s]]
       /\ subs' = [s \in Services |-> IF freed(s) THEN NoSubTypes ELSE subs[s]]
       /\ addedInTypes' = [s \in Services |-> addedInTypes[s] /\ ~freed(s)]
       /\ announced' = [s \in Services |-> IF freed(s) THEN {} ELSE announced[s]]
       /\ UNCHANGED <<enabled, typeList, numEntries, subInfo>>

\* Core::SetEnabled(false): mServiceEntries and mServiceTypes are cleared,
\* freeing every entry and every ServiceType without goodbyes.
Disable ==
    /\ enabled
    /\ enabled' = FALSE
    /\ svcState' = [s \in Services |-> "Absent"]
    /\ rec' = [s \in Services |-> NoRecords]
    /\ subs' = [s \in Services |-> NoSubTypes]
    /\ addedInTypes' = [s \in Services |-> FALSE]
    /\ typeList' = {}
    /\ numEntries' = [t \in Types |-> 0]
    /\ subInfo' = [s \in Services |-> {}]
    /\ announced' = [s \in Services |-> {}]
    /\ UNCHANGED entryTaskPosted

Enable ==
    /\ ~enabled
    /\ enabled' = TRUE
    /\ UNCHANGED <<svcState, rec, addedInTypes, typeList, numEntries,
                   entryTaskPosted, subs, subInfo, announced>>

Next ==
    \/ \E s \in Services :
          \/ RegisterService(s) \/ RegisterServiceKey(s)
          \/ UnregisterService(s) \/ UnregisterServiceKey(s)
          \/ ProbesDone(s) \/ SendGoodbyes(s) \/ RxConflictingResponse(s)
    \/ HandleEntryTask \/ Disable \/ Enable

Spec == Init /\ [][Next]_vars

-----------------------------------------------------------------------------
(* Properties                                                              *)

\* The services of type t that hold a reference on its ServiceType by
\* spec.md line 46: they left Probing and did not enter Removing since.
Referrers(t) ==
    {s \in Services : TypeOf[s] = t /\ svcState[s] \in {"Registered", "Conflict"}}

TypeOK ==
    /\ enabled \in BOOLEAN
    /\ svcState \in [Services -> SvcStates]
    /\ rec \in [Services -> [SvcRecords -> RecStates]]
    /\ addedInTypes \in [Services -> BOOLEAN]
    /\ typeList \subseteq Types
    /\ numEntries \in [Types -> 0..(NumEntriesModulus - 1)]
    /\ \A t \in typeList :
          numEntries[t] \in 1..Cardinality({s \in Services : TypeOf[s] = t})
    /\ entryTaskPosted \in BOOLEAN
    /\ subs \in [Services -> [SubLabels -> RecStates]]
    /\ subInfo \in [Services -> SUBSET SubLabels]
    /\ announced \in [Services -> SUBSET SubLabels]

\* spec.md lines 46 and 54: each ServiceType in mServiceTypes counts in
\* mNumEntries exactly the entries of its type that left Probing and have
\* not entered Removing, and it exists exactly while that count is
\* non-zero.  The incremental bookkeeping of UpdateServiceTypes, driven by
\* every Register, Unregister, state change, goodbye, re-probe from
\* Removing and free, never drifts from the entries it summarises.
ServiceTypesMatchEntries ==
    /\ typeList = {t \in Types : Referrers(t) # {}}
    /\ \A t \in typeList : numEntries[t] = Cardinality(Referrers(t))

\* spec.md 4.4 and the glossary (line 238): the "_services._dns-sd._udp"
\* answer lists the types of the registered services, that is of services
\* that are Registered with their PTR records present and answerable.
ServiceTypesListRegistered ==
    typeList = {TypeOf[s] : s \in {x \in Services : svcState[x] = "Registered"
                                                  /\ rec[x]["svc"] = "live"}}

\* spec.md 4.3, "Service update": a sub-type that was multicast while the
\* service was Registered answers (CanAnswerSubType) only while the
\* service's current registration lists it; once a re-register or an
\* unregister drops it, its PTR stays with TTL 0 until the goodbye is sent
\* (ServiceEntry::Register, Unregister, UpdateRecordsState), whatever the
\* interleaving with other registers, KEY calls and goodbyes of the entry.
SubTypeGoodbyeOwed ==
    \A s \in Services : svcState[s] = "Registered" =>
        \A l \in announced[s] :
            \/ subs[s][l] = "live" /\ l \in subInfo[s]
            \/ subs[s][l] = "goodbye"

==============================================================================
