--------------------------- MODULE MdnsTxAssembler ---------------------------
(***************************************************************************)
(* How the entry timer fills a response message (Core::TxMessage,          *)
(* mdns.hpp) without passing mMaxMessageSize (spec.md 4.5).                *)
(*                                                                         *)
(* Each entry with records due appends them in one go (PrepareResponse).   *)
(* Before that the message takes a checkpoint (SaveCurrentState: the       *)
(* lengths of its section messages and the record counts); afterwards      *)
(* CheckSizeLimitToPrepareAgain looks at IsOverSizeLimit.  When the message*)
(* is over the limit and this entry has not been prepared again yet, the   *)
(* message is rolled back to the checkpoint (RestoreToSavedState), sent,   *)
(* started afresh (Reinit) and aPrepareAgain asks the entry to append its  *)
(* records once more; a second overflow is accepted, so an entry larger    *)
(* than the limit goes out alone instead of looping.  The last message is  *)
(* sent after every entry was prepared.                                    *)
(*                                                                         *)
(* An entry's records are abstracted to their size; the message to the     *)
(* sequence of entries whose records it holds.  Send of a message without  *)
(* records sends nothing.                                                  *)
(***************************************************************************)
EXTENDS Naturals, Sequences, SequencesExt

CONSTANTS
    EntrySizes,       \* sizes of the records one entry appends
    MaxEntries,       \* bound on the entries with records due in one pass
    MaxMessageSize,   \* Core::mMaxMessageSize
    HeaderSize        \* size of the DNS header every message starts with

ASSUME /\ EntrySizes \subseteq Nat \ {0}
       /\ MaxEntries \in Nat
       /\ MaxMessageSize \in Nat /\ HeaderSize \in Nat

\* The entries due in one pass of Core::HandleEntryTimer, in list order.
Inputs == UNION {[1..n -> EntrySizes] : n \in 0..MaxEntries}

RECURSIVE SeqSum(_)
SeqSum(s) == IF s = <<>> THEN 0 ELSE Head(s) + SeqSum(Tail(s))

\* The length of a message holding the records of the entries in m.
MessageLength(m) == HeaderSize + SeqSum(m)

VARIABLES
    entries,       \* the entries of this pass (history)
    todo,          \* entries still to prepare
    msg,           \* TxMessage contents: entries whose records it holds
    saved,         \* the checkpoint of SaveCurrentState (mSavedMsgLength)
    prepareAgain,  \* aPrepareAgain of the entry being prepared
    pc,            \* "prepare", "check", "send" or "done"
    sent           \* messages put on the wire in this pass

vars == <<entries, todo, msg, saved, prepareAgain, pc, sent>>

\* Mutant of IsOverSizeLimit: a message of exactly mMaxMessageSize counts
\* as over the limit.
IsOverSizeLimitAtLimit(m) == MessageLength(m) >= MaxMessageSize

\* TxMessage::IsOverSizeLimit
IsOverSizeLimit(m) == MessageLength(m) > MaxMessageSize

\* Mutant of NeedsPrepareAgain: the aPrepareAgain guard is lost.
NeedsPrepareAgainAlways(m) == IsOverSizeLimit(m)

\* CheckSizeLimitToPrepareAgain: roll back and prepare again only the first
\* time the entry overflows the message.
NeedsPrepareAgain(m) == IsOverSizeLimit(m) /\ ~prepareAgain

\* TxMessage::RestoreToSavedState: truncate to the checkpoint.
RestoredMessage(m, n) == SubSeq(m, 1, n)

\* Mutant of Checkpoint: the checkpoint taken before the first attempt is
\* kept for the second.
CheckpointStale(m) == IF prepareAgain THEN saved ELSE Len(m)

\* TxMessage::SaveCurrentState, taken before every attempt.
Checkpoint(m) == Len(m)

\* TxMessage::Send: a message without records is not sent.
SendMessage(m) == IF m = <<>> THEN sent ELSE Append(sent, m)

StartPass(in) ==
    /\ entries' = in
    /\ todo' = in
    /\ msg' = <<>>
    /\ saved' = 0
    /\ prepareAgain' = FALSE
    /\ pc' = IF in = <<>> THEN "send" ELSE "prepare"
    /\ sent' = <<>>

Init ==
    /\ entries \in Inputs
    /\ todo = entries
    /\ msg = <<>>
    /\ saved = 0
    /\ prepareAgain = FALSE
    /\ pc = IF entries = <<>> THEN "send" ELSE "prepare"
    /\ sent = <<>>

\* The next entry takes a checkpoint and appends its records.
PrepareResponse ==
    /\ pc = "prepare"
    /\ saved' = Checkpoint(msg)
    /\ msg' = Append(msg, Head(todo))
    /\ pc' = "check"
    /\ UNCHANGED <<entries, todo, prepareAgain, sent>>

\* TxMessage::CheckSizeLimitToPrepareAgain after the entry appended: either
\* restore, send, Reinit and prepare the same entry again, or go on to the
\* next entry.
CheckSizeLimitToPrepareAgain ==
    /\ pc = "check"
    /\ IF NeedsPrepareAgain(msg)
       THEN /\ sent' = SendMessage(RestoredMessage(msg, saved))
            /\ msg' = <<>>
            /\ prepareAgain' = TRUE
            /\ pc' = "prepare"
            /\ UNCHANGED todo
       ELSE /\ todo' = Tail(todo)
            /\ prepareAgain' = FALSE
            /\ pc' = IF Tail(todo) = <<>> THEN "send" ELSE "prepare"
            /\ UNCHANGED <<msg, sent>>
    /\ UNCHANGED <<entries, saved>>

\* The entry timer sends the response after every entry was prepared.
SendResponse ==
    /\ pc = "send"
    /\ sent' = SendMessage(msg)
    /\ pc' = "done"
    /\ UNCHANGED <<entries, todo, msg, saved, prepareAgain>>

\* The next timer pass, with the entries then due.
NextPass ==
    /\ pc = "done"
    /\ \E in \in Inputs : StartPass(in)

Next == PrepareResponse \/ CheckSizeLimitToPrepareAgain \/ SendResponse \/ NextPass

\* A pass is a loop in one call of HandleEntryTimer: once started, its
\* steps are taken.
Spec == Init /\ [][Next]_vars /\ WF_vars(Next)

-----------------------------------------------------------------------------
(* Reference                                                               *)

\* The packing spec.md 4.5 describes: entries in order, a new message when
\* the next entry does not fit the current one, and an entry that fits no
\* message alone in one.
RECURSIVE Pack(_, _, _)
Pack(rest, cur, out) ==
    IF rest = <<>>
    THEN IF cur = <<>> THEN out ELSE Append(out, cur)
    ELSE IF cur = <<>> \/ MessageLength(Append(cur, Head(rest))) <= MaxMessageSize
         THEN Pack(Tail(rest), Append(cur, Head(rest)), out)
         ELSE Pack(Tail(rest), <<Head(rest)>>, Append(out, cur))

-----------------------------------------------------------------------------
(* Properties                                                              *)

TypeOK ==
    /\ entries \in Inputs
    /\ todo \in Inputs
    /\ msg \in Seq(EntrySizes)
    /\ saved \in 0..MaxEntries
    /\ pc = "check" => saved < Len(msg)
    /\ prepareAgain \in BOOLEAN
    /\ pc \in {"prepare", "check", "send", "done"}
    /\ sent \in Seq(Seq(EntrySizes))

\* At the end of a pass the messages sent are exactly the reference
\* packing of the entries: every entry's records go out once, in order,
\* never split, and a new message is started only when the next entry does
\* not fit (SaveCurrentState, RestoreToSavedState, Send and Reinit in
\* CheckSizeLimitToPrepareAgain).
SentAsPacked ==
    pc = "done" => sent = Pack(entries, <<>>, <<>>)

\* Every pass ends: the prepare-again loop of an entry that overflows even
\* an empty message stops after the second attempt.
PassEnds ==
    [](pc # "done" => <>(pc = "done"))
==============================================================================
