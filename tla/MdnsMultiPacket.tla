--------------------------- MODULE MdnsMultiPacket ---------------------------
(***************************************************************************)
(* The buffer that holds truncated queries until their follow-up packets   *)
(* arrive (Core::MultiPacketRxMessages, mdns.hpp; spec.md 4.6 and 4.7).    *)
(*                                                                         *)
(* Core::HandleMessage hands a received query to the buffer in one of two *)
(* ways.  A query without questions is the continuation of an earlier one *)
(* (its known answers) and goes to AddToExisting, which appends it to the *)
(* RxMsgEntry of the same sender address (RxMsgEntry::Matches) or drops it*)
(* when there is none.  A query with questions and the TC bit set          *)
(* (ProcessQuery returns kSaveAsMultiPacket) goes to AddNew, which starts *)
(* a fresh RxMsgEntry for its sender, replacing any entry of that sender. *)
(* RxMsgEntry::Add keeps at most kMaxNumMessages messages and sets         *)
(* mProcessTime: 400-500 ms after the last arrival while the last message *)
(* is truncated, and now once it is not, or once the entry is full.  The  *)
(* timer (HandleTimer) processes every entry with mProcessTime <= now as a*)
(* single query and is set again for the earliest remaining one.          *)
(* Core::SetEnabled(false) calls Clear.                                    *)
(*                                                                         *)
(* Composed with it is what processing a query does to one answer: the    *)
(* PTR record mServicesPtr of a ServiceType, which answers the all-        *)
(* services question "_services._dns-sd._udp".  RxMessage::                *)
(* AnswerAllServicesQuestion asks ShouldSuppressKnownAnswer, which looks  *)
(* for our PTR among the known answers of the message and of the messages *)
(* chained after it (the continuations of a bundle); ServiceType::         *)
(* ShouldSuppressKnownAnswer suppresses the answer when the known answer's*)
(* TTL is at least half of kServicesPtrTtl (spec.md 4.4).  Otherwise      *)
(* ServiceType::AnswerQuestion schedules the shared record 20-120 ms      *)
(* later, exempt from the rate limit, and ServiceType::HandleTimer sends  *)
(* it.                                                                     *)
(*                                                                         *)
(* A message is abstracted to its TC bit and the TTL of the known answer  *)
(* for our PTR it carries (0: none); an entry to its messages.  Time is   *)
(* kept as offsets from now.                                               *)
(***************************************************************************)
EXTENDS Integers, Sequences

CONSTANTS
    Senders,          \* sender addresses (AddressInfo) of queries
    MinProcessDelay,  \* kMinProcessDelay, in time units
    MaxProcessDelay,  \* kMaxProcessDelay, in time units
    MaxNumMessages,   \* kMaxNumMessages
    MaxRx,            \* bound on the queries received in one behaviour
    ServicesPtrTtl,   \* kServicesPtrTtl
    KnownAnswerTtls,  \* TTLs a querier lists for our PTR; 0 stands for none
    MinResponseDelay, \* kMinResponseDelay, in time units
    MaxResponseDelay  \* kMaxResponseDelay, in time units

ASSUME /\ MinProcessDelay \in Nat \ {0}
       /\ MaxProcessDelay \in MinProcessDelay..(MinProcessDelay + 10)
       /\ MaxNumMessages \in Nat \ {0, 1}
       /\ MaxRx \in Nat
       /\ ServicesPtrTtl \in Nat \ {0}
       /\ KnownAnswerTtls \subseteq Nat /\ 0 \in KnownAnswerTtls
       /\ MinResponseDelay \in Nat
       /\ MaxResponseDelay \in MinResponseDelay..(MinResponseDelay + 10)

\* A received query message: its TC bit and its known answer for our PTR.
Messages == [tc : BOOLEAN, ka : KnownAnswerTtls]

NotRunning == -1    \* the timer is stopped
Overdue == -1       \* an mProcessTime that lies in the past

VARIABLES
    enabled,      \* Core::mIsEnabled
    entries,      \* the messages of each sender's RxMsgEntry
    processLeft,  \* mProcessTime - now of each sender's entry
    timerLeft,    \* mTimer fire time - now, or NotRunning
    window,       \* time left until kMinProcessDelay has passed since the
                  \* sender's last truncated message was buffered (history)
    dropped,      \* continuations AddToExisting dropped, with the window
                  \* their sender had left (history)
    numRx,        \* queries received so far
    ptrPending,   \* mServicesPtr.mMulticastAnswerPending
    ptrLeft,      \* mServicesPtr.mAnswerTime - now
    sentKa,       \* known-answer TTLs each sender sent since its last query
                  \* with questions, in time for its bundle (history)
    allKa,        \* and all it sent before that query was processed (history)
    outcomes      \* queries processed in this step: the known answers their
                  \* sender sent and whether our PTR was scheduled (history)

vars == <<enabled, entries, processLeft, timerLeft, window, dropped, numRx,
          ptrPending, ptrLeft, sentKa, allKa, outcomes>>

\* Mutant of KnownAnswers: only the first message of a bundle is searched.
KnownAnswersFirstOnly(msgs) == {msgs[1].ka}

\* RxMessage::ShouldSuppressKnownAnswer(Question, ServiceType): the known
\* answers of the message and of every message chained after it.
KnownAnswers(msgs) == {msgs[i].ka : i \in DOMAIN msgs}

\* Mutant of ShouldSuppressKnownAnswer: a known answer of exactly half the
\* TTL does not suppress.
ShouldSuppressKnownAnswerStrict(ttl) == ttl > ServicesPtrTtl \div 2

\* ServiceType::ShouldSuppressKnownAnswer(aTtl).
ShouldSuppressKnownAnswer(ttl) == ttl >= ServicesPtrTtl \div 2

Suppressed(msgs) == \E t \in KnownAnswers(msgs) : ShouldSuppressKnownAnswer(t)

\* Processing the queries of the senders in Q (a bundle each): every query
\* not suppressed schedules mServicesPtr via RecordInfo::ScheduleAnswer at a
\* random delay, keeping an earlier pending answer time.
AnswerQueries(Q, msgsOf, sentOf, allOf) ==
    LET answering == {s \in Q : ~Suppressed(msgsOf[s])}
    IN /\ \E d \in MinResponseDelay..MaxResponseDelay :
             IF answering = {} THEN UNCHANGED <<ptrPending, ptrLeft>>
             ELSE /\ ptrPending' = TRUE
                  /\ ptrLeft' = IF ptrPending /\ ptrLeft < d THEN ptrLeft ELSE d
       /\ outcomes' = {[sent |-> sentOf[s], all |-> allOf[s], answered |-> s \in answering] : s \in Q}

\* TimerMilli::FireAtIfEarlier(now + t).
FireAtIfEarlier(t) ==
    IF timerLeft = NotRunning \/ t < timerLeft THEN t ELSE timerLeft

\* Mutant of CanAdd: one message more than kMaxNumMessages is kept.
CanAddAtCap(s) == Len(entries[s]) <= MaxNumMessages

\* RxMsgEntry::Add keeps at most kMaxNumMessages messages.
CanAdd(s) == Len(entries[s]) < MaxNumMessages

\* Whether the entry is processed at once after a message with TC bit tc
\* is added: the message ends the query, or the entry is full.
SettlesNow(s, m) == ~m.tc \/ Len(entries[s]) + 1 = MaxNumMessages

\* Mutant of ProcessTimeAfterAdd: a follow-up message keeps the process
\* time of the first message of the entry.
ProcessTimeKeep(s, m, d) ==
    IF entries[s] # <<>> THEN processLeft[s]
    ELSE IF SettlesNow(s, m) THEN 0 ELSE d

\* mProcessTime after RxMsgEntry::Add: now, or now plus a random delay d
\* in [kMinProcessDelay, kMaxProcessDelay].
ProcessTimeAfterAdd(s, m, d) == IF SettlesNow(s, m) THEN 0 ELSE d

\* RxMsgEntry::Add of message m to the entry of sender s, then the timer is
\* set for the entry's process time if that is earlier.
Add(s, m) ==
    \E d \in MinProcessDelay..MaxProcessDelay :
        LET t == ProcessTimeAfterAdd(s, m, d)
        IN /\ entries' = [entries EXCEPT ![s] = Append(@, m)]
           /\ processLeft' = [processLeft EXCEPT ![s] = t]
           /\ timerLeft' = FireAtIfEarlier(t)
           /\ window' = [window EXCEPT ![s] =
                            IF SettlesNow(s, m) THEN 0 ELSE MinProcessDelay]

Receive ==
    /\ enabled
    /\ numRx < MaxRx
    /\ numRx' = numRx + 1
    /\ UNCHANGED enabled

\* HandleMessage of a query without questions from s:
\* MultiPacketRxMessages::AddToExisting.
RxContinuation(s, m) ==
    /\ Receive
    /\ sentKa' = [sentKa EXCEPT ![s] = IF window[s] > 0 THEN @ \cup {m.ka} ELSE @]
    /\ allKa' = [allKa EXCEPT ![s] = @ \cup {m.ka}]
    /\ IF entries[s] # <<>> /\ CanAdd(s)
       THEN /\ Add(s, m)
            /\ UNCHANGED dropped
       ELSE /\ dropped' = dropped \cup {[sender |-> s, window |-> window[s]]}
            /\ UNCHANGED <<entries, processLeft, timerLeft, window>>
    /\ outcomes' = {}
    /\ UNCHANGED <<ptrPending, ptrLeft>>

\* Mutant of NewEntry: the query joins the sender's unsettled entry.
NewEntryJoin(s, ka) ==
    IF CanAdd(s) THEN Append(entries[s], [tc |-> TRUE, ka |-> ka])
    ELSE <<[tc |-> TRUE, ka |-> ka]>>

\* The RxMsgEntry AddNew allocates for a truncated query: it holds only
\* that message.
NewEntry(s, ka) == <<[tc |-> TRUE, ka |-> ka]>>

\* HandleMessage of a truncated query with questions from s:
\* MultiPacketRxMessages::AddNew removes the entry of the same sender and
\* adds a new one holding the message.
RxTruncatedQuery(s, ka) ==
    /\ Receive
    /\ \E d \in MinProcessDelay..MaxProcessDelay :
        /\ entries' = [entries EXCEPT ![s] = NewEntry(s, ka)]
        /\ processLeft' = [processLeft EXCEPT ![s] = d]
        /\ timerLeft' = FireAtIfEarlier(d)
        /\ window' = [window EXCEPT ![s] = MinProcessDelay]
    /\ sentKa' = [sentKa EXCEPT ![s] = {ka}]
    /\ allKa' = [allKa EXCEPT ![s] = {ka}]
    /\ outcomes' = {}
    /\ UNCHANGED <<dropped, ptrPending, ptrLeft>>

\* HandleMessage of a complete query with questions: ProcessQuery answers
\* it at once (kProcessed) and the buffer is not involved.
RxQuery(s, ka) ==
    /\ Receive
    /\ AnswerQueries({s}, [p \in {s} |-> <<[tc |-> FALSE, ka |-> ka]>>],
                          [p \in {s} |-> {ka}], [p \in {s} |-> {ka}])
    /\ UNCHANGED <<entries, processLeft, timerLeft, window, dropped, sentKa,
                   allKa>>

\* Mutant of NextFireTime: the timer is not set again after it fired.
NextFireTimeNone(rest) == NotRunning

\* The earliest mProcessTime of the remaining entries, or a stopped timer.
NextFireTime(rest) ==
    IF rest = {} THEN NotRunning
    ELSE CHOOSE t \in {processLeft[s] : s \in rest} :
             \A s \in rest : t <= processLeft[s]

\* MultiPacketRxMessages::HandleTimer: remove every entry whose
\* mProcessTime <= now (RxMsgEntry::Matches(ExpireChecker)) and process
\* its messages as one query, then set the timer for the earliest of the
\* others.
HandleTimer ==
    LET due  == {s \in Senders : entries[s] # <<>> /\ processLeft[s] <= 0}
        rest == {s \in Senders : entries[s] # <<>>} \ due
    IN /\ timerLeft = 0
       /\ entries' = [s \in Senders |-> IF s \in due THEN <<>> ELSE entries[s]]
       /\ processLeft' = [s \in Senders |-> IF s \in due THEN 0 ELSE processLeft[s]]
       /\ timerLeft' = NextFireTime(rest)
       /\ AnswerQueries(due, entries, sentKa, allKa)
       /\ sentKa' = [s \in Senders |-> IF s \in due THEN {} ELSE sentKa[s]]
       /\ allKa' = [s \in Senders |-> IF s \in due THEN {} ELSE allKa[s]]
       /\ UNCHANGED <<enabled, window, dropped, numRx>>

\* ServiceType::HandleTimer: the pending answer is due; PrepareResponse
\* appends it to a multicast response and UpdateStateAfterAnswer clears it.
SendPtrAnswer ==
    /\ ptrPending /\ ptrLeft = 0
    /\ ptrPending' = FALSE
    /\ outcomes' = {}
    /\ UNCHANGED <<enabled, entries, processLeft, timerLeft, window, dropped,
                   numRx, ptrLeft, sentKa, allKa>>

\* Core::SetEnabled(false): MultiPacketRxMessages::Clear stops the timer and
\* frees every entry.
Disable ==
    /\ enabled
    /\ enabled' = FALSE
    /\ entries' = [s \in Senders |-> <<>>]
    /\ processLeft' = [s \in Senders |-> 0]
    /\ timerLeft' = NotRunning
    /\ window' = [s \in Senders |-> 0]
    /\ ptrPending' = FALSE
    /\ sentKa' = [s \in Senders |-> {}]
    /\ allKa' = [s \in Senders |-> {}]
    /\ outcomes' = {}
    /\ UNCHANGED <<dropped, numRx, ptrLeft>>

Enable ==
    /\ ~enabled
    /\ enabled' = TRUE
    /\ outcomes' = {}
    /\ UNCHANGED <<entries, processLeft, timerLeft, window, dropped, numRx,
                   ptrPending, ptrLeft, sentKa, allKa>>

\* One time unit passes; a due timer runs first.
Tick ==
    /\ timerLeft # 0
    /\ ~(ptrPending /\ ptrLeft = 0)
    /\ ptrLeft' = IF ptrPending THEN ptrLeft - 1 ELSE ptrLeft
    /\ outcomes' = {}
    /\ processLeft' = [s \in Senders |->
                          IF entries[s] # <<>> /\ processLeft[s] > Overdue
                          THEN processLeft[s] - 1 ELSE processLeft[s]]
    /\ timerLeft' = IF timerLeft = NotRunning THEN NotRunning ELSE timerLeft - 1
    /\ window' = [s \in Senders |-> IF window[s] > 0 THEN window[s] - 1 ELSE 0]
    /\ UNCHANGED <<enabled, entries, dropped, numRx, ptrPending, sentKa,
                   allKa>>

Init ==
    /\ enabled = TRUE
    /\ entries = [s \in Senders |-> <<>>]
    /\ processLeft = [s \in Senders |-> 0]
    /\ timerLeft = NotRunning
    /\ window = [s \in Senders |-> 0]
    /\ dropped = {}
    /\ numRx = 0
    /\ ptrPending = FALSE
    /\ ptrLeft = 0
    /\ sentKa = [s \in Senders |-> {}]
    /\ allKa = [s \in Senders |-> {}]
    /\ outcomes = {}

Next ==
    \/ \E s \in Senders :
          \/ \E m \in Messages : RxContinuation(s, m)
          \/ \E ka \in KnownAnswerTtls : RxTruncatedQuery(s, ka) \/ RxQuery(s, ka)
    \/ HandleTimer \/ SendPtrAnswer \/ Disable \/ Enable \/ Tick

\* Time always passes, and a due timer always runs.
Spec == Init /\ [][Next]_vars /\ WF_vars(Tick) /\ WF_vars(HandleTimer)
            /\ WF_vars(SendPtrAnswer)

-----------------------------------------------------------------------------
(* Properties                                                              *)

\* The type, and kMaxNumMessages bounds every entry (RxMsgEntry::Add).
TypeOK ==
    /\ enabled \in BOOLEAN
    /\ entries \in [Senders -> Seq(Messages)]
    /\ \A s \in Senders : Len(entries[s]) <= MaxNumMessages
    /\ processLeft \in [Senders -> Overdue..MaxProcessDelay]
    /\ timerLeft \in {NotRunning} \cup 0..MaxProcessDelay
    /\ window \in [Senders -> 0..MinProcessDelay]
    /\ numRx \in 0..MaxRx
    /\ ptrPending \in BOOLEAN
    /\ ptrLeft \in 0..MaxResponseDelay

\* A continuation (known answers) that arrives less than kMinProcessDelay
\* after its sender's last truncated packet, while the entry has room, is
\* added to the entry and processed with its query, never dropped by
\* AddToExisting: every Add pushes mProcessTime past the window and the
\* timer never processes an entry early.
ContinuationIncluded ==
    \A d \in dropped : d.window = 0

\* Every buffered query is eventually processed (or dropped by Clear): the
\* multi-packet timer is always set for the earliest entry.
BufferedQueryProcessed ==
    \A s \in Senders : (entries[s] # <<>>) ~> (entries[s] = <<>>)
\* Known-answer suppression over a multi-packet query (spec.md 4.4, 4.6):
\* when a query is processed, our services PTR is scheduled only if none of
\* the known answers its sender sent in time for it (in the first packet or
\* in a follow-up arriving within kMinProcessDelay of the last truncated
\* one) lists the PTR with at least half of kServicesPtrTtl, and it is
\* withheld only if some known answer the sender sent before processing
\* does.  A follow-up dropped by AddToExisting, a bundle processed before
\* its follow-ups arrive, or a search that stops at the first message
\* answers a querier who already holds the record.
KnownAnswerHonoured ==
    \A o \in outcomes :
        /\ o.answered => \A t \in o.sent : 2 * t < ServicesPtrTtl
        /\ ~o.answered => \E t \in o.all : 2 * t >= ServicesPtrTtl
==============================================================================
