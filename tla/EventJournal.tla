---------------------------- MODULE EventJournal ----------------------------
(***************************************************************************)
(* The bounded browser-event journal of the Owner (EventJournal).          *)
(*                                                                         *)
(* One journal serves every browser stream.  An event gets the next        *)
(* sequence number and is retained while the count and byte budgets allow; *)
(* the oldest retained events make room.  A browser resumes with the       *)
(* cursor of the last frame it saw, and replay either answers with the     *)
(* missing events or says why it cannot ("snapshot", "reset", "gap").      *)
(*                                                                         *)
(* An event is its sequence number and its encoded size: its fields are    *)
(* carried and never read by the journal.                                  *)
(***************************************************************************)
EXTENDS Integers, Sequences, FiniteSets

CONSTANTS
    MaxEvents,      \* journal limit: retained events
    MaxBytes,       \* journal limit: retained bytes
    Sizes,          \* encoded sizes an event may have
    MaxSequence,    \* bound: events published in one epoch
    MaxEpoch        \* bound: Owner restarts

ASSUME LimitsArePositive == MaxEvents \in Nat \ {0} /\ MaxBytes \in Nat \ {0}
ASSUME SizesArePositive == Sizes \subseteq Nat \ {0}
ASSUME BoundsAreNatural == MaxSequence \in Nat /\ MaxEpoch \in Nat

VARIABLES
    epoch,          \* identity of this journal (a fresh uuid per Owner start)
    sequence,       \* sequence number of the last published event
    events,         \* the retained events, oldest first
    total_bytes,    \* running size of the retained events
    skipped         \* history: numbers published without being retained at all

vars == <<epoch, sequence, events, total_bytes, skipped>>

JournalEvent == [sequence : 1..MaxSequence, size : Sizes]
Cursor == [epoch : Nat, sequence : Nat]
NoCursor == [epoch |-> -1, sequence |-> -1]

Numbers(s) == {s[i].sequence : i \in DOMAIN s}

(* The bytes of the first k events of s, for every k. *)
BytesUpTo(s) ==
    LET bytes[k \in 0..Len(s)] == IF k = 0 THEN 0 ELSE bytes[k - 1] + s[k].size
    IN  bytes

BytesOf(s) == BytesUpTo(s)[Len(s)]

-----------------------------------------------------------------------------
Init ==
    /\ epoch = 0
    /\ sequence = 0
    /\ events = <<>>
    /\ total_bytes = 0
    /\ skipped = {}

(* The budgets hold for s, of `bytes` bytes, once its first k events are gone. *)
Fits(s, bytes, k) ==
    \/ k = Len(s)
    \/ /\ Len(s) - k <= MaxEvents
       /\ bytes - BytesUpTo(s)[k] <= MaxBytes

(* How many events _trim pops from the left: it stops as soon as they fit. *)
Excess(s, bytes) ==
    CHOOSE k \in 0..Len(s) :
        /\ Fits(s, bytes, k)
        /\ \A j \in 0..Len(s) : j < k => ~Fits(s, bytes, j)

(* Mutant of Retain: the evicted bytes are never given back. *)
RetainKeepsEvictedBytes(e) ==
    LET all == Append(events, e)
        k == Excess(all, total_bytes + e.size)
    IN  /\ events' = SubSeq(all, k + 1, Len(all))
        /\ total_bytes' = total_bytes + e.size
        /\ UNCHANGED skipped

(* publish() of an event it keeps: append, then _trim. *)
Retain(e) ==
    LET all == Append(events, e)
        k == Excess(all, total_bytes + e.size)
    IN  /\ events' = SubSeq(all, k + 1, Len(all))
        /\ total_bytes' = total_bytes + e.size - BytesUpTo(all)[k]
        /\ UNCHANGED skipped

Publish(size, replayable) ==
    /\ sequence < MaxSequence
    /\ sequence' = sequence + 1
    /\ IF replayable /\ size <= MaxBytes
       THEN Retain([sequence |-> sequence + 1, size |-> size])
       ELSE /\ skipped' = skipped \cup {sequence + 1}
            /\ UNCHANGED <<events, total_bytes>>
    /\ UNCHANGED epoch

(* A new Owner process: a new journal with a new epoch. *)
Restart ==
    /\ epoch < MaxEpoch
    /\ epoch' = epoch + 1
    /\ sequence' = 0
    /\ events' = <<>>
    /\ total_bytes' = 0
    /\ skipped' = {}

Next ==
    \/ \E size \in Sizes, replayable \in BOOLEAN : Publish(size, replayable)
    \/ Restart

Spec == Init /\ [][Next]_vars

-----------------------------------------------------------------------------
(* replay(): what a browser is told when it resumes at `cursor`. *)
Latest == [epoch |-> epoch, sequence |-> sequence]

(* Mutant: the boundary of a gap is one event too low. *)
ReplayStatusLateGap(cursor) ==
    IF cursor = NoCursor THEN "snapshot"
    ELSE IF cursor.epoch # epoch \/ cursor.sequence > sequence THEN "reset"
    ELSE IF cursor.sequence = sequence THEN "replay"
    ELSE IF events = <<>> \/ cursor.sequence < events[1].sequence - 2 THEN "gap"
    ELSE "replay"

ReplayStatus(cursor) ==
    IF cursor = NoCursor THEN "snapshot"
    ELSE IF cursor.epoch # epoch \/ cursor.sequence > sequence THEN "reset"
    ELSE IF cursor.sequence = sequence THEN "replay"
    ELSE IF events = <<>> \/ cursor.sequence < events[1].sequence - 1 THEN "gap"
    ELSE "replay"

(* The events after number n among the first k events of s, for every k. *)
AfterUpTo(s, n) ==
    LET after[k \in 0..Len(s)] ==
            IF k = 0 THEN <<>>
            ELSE IF s[k].sequence > n THEN Append(after[k - 1], s[k])
            ELSE after[k - 1]
    IN  after

ReplayEvents(cursor) ==
    IF ReplayStatus(cursor) = "replay"
    THEN AfterUpTo(events, cursor.sequence)[Len(events)]
    ELSE <<>>

-----------------------------------------------------------------------------
TypeOK ==
    /\ epoch \in 0..MaxEpoch
    /\ sequence \in 0..MaxSequence
    /\ events \in Seq(JournalEvent)
    /\ total_bytes \in Nat
    /\ skipped \subseteq 1..MaxSequence

(* The running byte count is the size of what is retained, and both        *)
(* budgets hold: publish adds, _trim subtracts what it evicts, and nothing *)
(* drifts over a long sequence of events of different sizes.               *)
BudgetKept ==
    /\ total_bytes = BytesOf(events)
    /\ total_bytes <= MaxBytes
    /\ Len(events) <= MaxEvents

(* An answer to a resuming browser is exact, wherever the budgets cut the  *)
(* journal: "replay" holds every retainable event after the cursor, once   *)
(* and in order, and "gap" is only said when some event after the cursor   *)
(* really is gone.                                                         *)
ReplayIsExact ==
    \A n \in 0..sequence :
        LET cursor == [epoch |-> epoch, sequence |-> n]
            answer == ReplayEvents(cursor)
        IN  /\ ReplayStatus(cursor) = "replay" =>
                   /\ Numbers(answer) = ((n + 1)..sequence) \ skipped
                   /\ \A i, j \in DOMAIN answer :
                          i < j => answer[i].sequence < answer[j].sequence
            /\ ReplayStatus(cursor) = "gap" =>
                   \E m \in (n + 1)..sequence : m \notin Numbers(events)
=============================================================================
