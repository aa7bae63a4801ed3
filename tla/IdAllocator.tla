---------------------------- MODULE IdAllocator ----------------------------
(***************************************************************************)
(* Identifiers (internal/id) on top of the write queue.  The allocator     *)
(* hands out identifiers of a lease in memory; a lease is reserved by a    *)
(* write transaction that raises the persisted high-water mark.  Callers   *)
(* allocate before they write.  The publication of a snapshot allocates    *)
(* inside its own write transaction, where a reservation would wait behind *)
(* itself, so it first ensures a lease that is large enough.               *)
(*                                                                         *)
(* An identifier is a timestamp, the node and a sequence number in one     *)
(* integer.  The node is the same in all of them, so the model numbers     *)
(* them in their order without it.                                         *)
(***************************************************************************)
EXTENDS Integers, Sequences

CONSTANTS
    Callers,         \* goroutines that allocate outside of write transactions
    Publisher,       \* the goroutine that publishes snapshots
    Writer,          \* the write worker, when it allocates for a publication
    None,            \* nobody
    PerMillisecond,  \* identifiers in a millisecond: maxSequence + 1
    MaxTimestamp,    \* the last millisecond an identifier has bits for
    LeaseSize,       \* leaseSize of the allocator
    EnsuredSize,     \* maximumIDs, what a publication ensures
    MaxTaken,        \* what a publication really takes, at most
    MaxOutstanding   \* writes that the queue accepts, with the one under way

ASSUME SizesAssumption ==
    /\ PerMillisecond \in Nat \ {0}
    /\ MaxTimestamp \in Nat
    /\ LeaseSize \in Nat \ {0}
    /\ EnsuredSize \in Nat \ {0}
    /\ MaxTaken \in Nat
    /\ MaxOutstanding \in Nat \ {0}

ASSUME NamesAssumption ==
    /\ Publisher \notin Callers /\ Writer \notin Callers /\ None \notin Callers
    /\ Publisher # Writer /\ Publisher # None /\ Writer # None

Compose(timestamp, sequence) == timestamp * PerMillisecond + sequence

\* The next sequence number, or the first of the next millisecond.
Successor(identifier) == identifier + 1

LastIdentifier == Compose(MaxTimestamp, PerMillisecond - 1)

\* No row in id_generator_states, no lease, no answer to a reservation yet.
NoMark == -1
\* The answer of a reservation that failed.
Failure == -2

Larger(m, n) == IF m > n THEN m ELSE n

VARIABLES
    highWater,  \* the row of id_generator_states
    issued,     \* history: the identifiers handed out, in order, in all processes
    nextID,     \* the lease: its next identifier
    remaining,  \* and what is left of it
    mutex,      \* who holds the mutex of the allocator
    granted,    \* the answer the holder of the mutex waits for: its first identifier
    publisher,  \* where the publisher is in PublishSnapshot
    stopping,   \* the context of the publisher has ended: the process shuts down
    queue,      \* the writes handed to the worker and not yet begun
    worker,     \* where the worker is in a publication
    taken,      \* what the publication under way has taken from the lease
    drained     \* history: what callers took since the publication ensured its lease

lease == <<nextID, remaining>>
durable == <<highWater, issued>>
vars == <<durable, lease, mutex, granted, publisher, stopping, queue, worker, taken, drained>>

\* A write in the queue: a reservation, or, with no count, a publication.  Nobody reads
\* the answer of a write whose caller has given up.
Reservation(by, count, now) == [by |-> by, count |-> count, now |-> now]
Publication == Reservation(Publisher, 0, 0)
IsPublication(write) == write.count = 0

PublicationQueued == \E i \in DOMAIN queue : IsPublication(queue[i])

PublicationUnderWay == publisher = "Ensured" \/ worker # "Free" \/ PublicationQueued

Writes == [by: Callers \cup {Publisher, Writer, None},
           count: {0, LeaseSize, Larger(EnsuredSize, LeaseSize)},
           now: 0..MaxTimestamp]

\* Type correctness: a grant, a mark and a lease are identifiers.
TypeOK ==
    /\ highWater \in NoMark..LastIdentifier
    /\ issued \in Seq(0..LastIdentifier)
    /\ nextID \in NoMark..LastIdentifier
    /\ remaining \in 0..Larger(EnsuredSize, LeaseSize)
    /\ mutex \in Callers \cup {Publisher, Writer, None}
    /\ granted \in Failure..LastIdentifier
    /\ publisher \in {"Idle", "Ensuring", "Ensured", "Publishing", "Stopped"}
    /\ stopping \in BOOLEAN
    /\ queue \in Seq(Writes)
    /\ worker \in {"Free", "Publishing", "Locking", "SelfWaiting"}
    /\ taken \in 0..MaxTaken
    /\ drained \in Nat

Init ==
    /\ highWater = NoMark
    /\ issued = <<>>
    /\ nextID = NoMark
    /\ remaining = 0
    /\ mutex = None
    /\ granted = NoMark
    /\ publisher = "Idle"
    /\ stopping = FALSE
    /\ queue = <<>>
    /\ worker = "Free"
    /\ taken = 0
    /\ drained = 0

\* The process ends at any moment, and another starts: the lease and the queue are gone.
Crash ==
    /\ nextID' = NoMark
    /\ remaining' = 0
    /\ mutex' = None
    /\ granted' = NoMark
    /\ publisher' = "Idle"
    /\ stopping' = FALSE
    /\ queue' = <<>>
    /\ worker' = "Free"
    /\ taken' = 0
    /\ drained' = 0
    /\ UNCHANGED durable

-----------------------------------------------------------------------------
(* The allocator. *)

\* One identifier of a lease that starts at first and has count left.
Take(first, count) ==
    /\ issued' = Append(issued, first)
    /\ remaining' = count - 1
    /\ nextID' = IF count > 1 THEN Successor(first) ELSE first

CountDrained == drained' = IF PublicationUnderWay THEN drained + 1 ELSE drained

\* The queue has room; a write that finds none is refused and changes nothing.
Accepted == Len(queue) + (IF worker = "Free" THEN 0 ELSE 1) < MaxOutstanding

\* The clock may say anything: it may have been set back since the last reservation.
Reserve(by, count) ==
    /\ Accepted
    /\ mutex' = by
    /\ granted' = NoMark
    /\ \E now \in 0..MaxTimestamp : queue' = Append(queue, Reservation(by, count, now))

\* Nobody reads the answer of the write of this goroutine any more.
Abandon(by) ==
    queue' = [i \in DOMAIN queue |->
                IF queue[i].by = by THEN [queue[i] EXCEPT !.by = None] ELSE queue[i]]

\* Next of a caller, when the lease has an identifier left.
NextFromLease ==
    /\ mutex = None
    /\ remaining > 0
    /\ Take(nextID, remaining)
    /\ CountDrained
    /\ UNCHANGED <<highWater, mutex, granted, publisher, stopping, queue, worker, taken>>

\* Next of a caller, when it has not: the mutex is held until the answer comes.
NextReserves(c) ==
    /\ mutex = None
    /\ remaining = 0
    /\ Reserve(c, LeaseSize)
    /\ UNCHANGED <<durable, lease, publisher, stopping, worker, taken, drained>>

NextGranted(c) ==
    /\ mutex = c
    /\ granted >= 0
    /\ Take(granted, LeaseSize)
    /\ CountDrained
    /\ mutex' = None
    /\ granted' = NoMark
    /\ UNCHANGED <<highWater, publisher, stopping, queue, worker, taken>>

\* An unsuccessful reservation leaves the lease as it was.
Unreserved(by) ==
    /\ mutex' = None
    /\ granted' = NoMark
    /\ Abandon(by)
    /\ UNCHANGED <<durable, lease>>

NextRefused(c) ==
    /\ mutex = c
    /\ granted = Failure
    /\ Unreserved(c)
    /\ UNCHANGED <<publisher, stopping, worker, taken, drained>>

\* The context of a caller ends; an answer that has come by then may be lost too.
NextGivesUp(c) ==
    /\ mutex = c
    /\ Unreserved(c)
    /\ UNCHANGED <<publisher, stopping, worker, taken, drained>>

-----------------------------------------------------------------------------
(* The publisher in PublishSnapshot: Ensure, then its write. *)

SufficientIfAny(count) == remaining > 0 /\ count > 0  \* mutated form: any lease will do
\* Ensure keeps a lease that is large enough.
Sufficient(count) == remaining >= count

EnsureKeepsLease ==
    /\ publisher = "Idle"
    /\ ~ stopping
    /\ mutex = None
    /\ Sufficient(EnsuredSize)
    /\ publisher' = "Ensured"
    /\ UNCHANGED <<durable, lease, mutex, granted, stopping, queue, worker, taken, drained>>

ReservationSize(count) == Larger(count, LeaseSize)

EnsureReserves ==
    /\ publisher = "Idle"
    /\ ~ stopping
    /\ mutex = None
    /\ ~ Sufficient(EnsuredSize)
    /\ Reserve(Publisher, ReservationSize(EnsuredSize))
    /\ publisher' = "Ensuring"
    /\ UNCHANGED <<durable, lease, stopping, worker, taken, drained>>

\* The rest of the previous lease is dropped.
EnsureGranted ==
    /\ publisher = "Ensuring"
    /\ granted >= 0
    /\ nextID' = granted
    /\ remaining' = ReservationSize(EnsuredSize)
    /\ publisher' = "Ensured"
    /\ mutex' = None
    /\ granted' = NoMark
    /\ UNCHANGED <<durable, stopping, queue, worker, taken, drained>>

\* The scan is recorded as failed and another may follow; not when the process shuts down.
EnsureFails ==
    /\ publisher = "Ensuring"
    /\ granted = Failure \/ stopping
    /\ publisher' = IF stopping THEN "Stopped" ELSE "Idle"
    /\ Unreserved(Publisher)
    /\ UNCHANGED <<stopping, worker, taken, drained>>

\* The publication is queued, or refused.
Submit ==
    /\ publisher = "Ensured"
    /\ \/ /\ Accepted
          /\ publisher' = "Publishing"
          /\ queue' = Append(queue, Publication)
          /\ UNCHANGED drained
       \/ /\ publisher' = "Idle"
          /\ drained' = 0
          /\ UNCHANGED queue
    /\ UNCHANGED <<durable, lease, mutex, granted, stopping, worker, taken>>

\* Its context ends only when the process shuts down; its write may still run.
Stop ==
    /\ ~ stopping
    /\ stopping' = TRUE
    /\ UNCHANGED <<durable, lease, mutex, granted, publisher, queue, worker, taken, drained>>

PublisherStops ==
    /\ stopping
    /\ publisher = "Publishing"
    /\ publisher' = "Stopped"
    /\ Abandon(Publisher)
    /\ UNCHANGED <<durable, lease, mutex, granted, stopping, worker, taken, drained>>

-----------------------------------------------------------------------------
(* The write worker.  It begins the next write when the transaction before has ended. *)

FirstFreeByClock(now) == Compose(now, 0)  \* mutated form: the mark is not looked at
\* ReserveRange: the first identifier of this moment, or the one after the mark.
FirstFree(now) ==
    IF highWater >= Compose(now, 0) THEN Successor(highWater) ELSE Compose(now, 0)

MarkAtFirst(first, count) == first  \* mutated form: not the last
\* The mark goes to the last identifier of the range.
Mark(first, count) == first + count - 1

\* No identifier of the range needs more bits than a timestamp has.
InRange(first, count) == first + count - 1 <= LastIdentifier

Answer(write, value) == granted' = IF write.by = None THEN granted ELSE value

\* The transaction of ReserveIDRange commits: the mark is durable before anybody learns it.
GrantReservation ==
    LET write == Head(queue)
        first == FirstFree(write.now)
    IN  /\ worker = "Free"
        /\ queue # <<>>
        /\ ~ IsPublication(write)
        /\ InRange(first, write.count)
        /\ highWater' = Mark(first, write.count)
        /\ Answer(write, first)
        /\ queue' = Tail(queue)
        /\ UNCHANGED <<issued, lease, mutex, publisher, stopping, worker, taken, drained>>

\* The range would go beyond the last identifier, or the transaction fails.
RefuseReservation ==
    LET write == Head(queue)
    IN  /\ worker = "Free"
        /\ queue # <<>>
        /\ ~ IsPublication(write)
        /\ Answer(write, Failure)
        /\ queue' = Tail(queue)
        /\ UNCHANGED <<durable, lease, mutex, publisher, stopping, worker, taken, drained>>

BeginPublication ==
    /\ worker = "Free"
    /\ queue # <<>>
    /\ IsPublication(Head(queue))
    /\ queue' = Tail(queue)
    /\ worker' = "Publishing"
    /\ UNCHANGED <<durable, lease, mutex, granted, publisher, stopping, taken, drained>>

\* Next inside the transaction: the context is checked, then the mutex is waited for.
TransactionLocks ==
    /\ worker = "Publishing"
    /\ taken < MaxTaken
    /\ ~ stopping
    /\ worker' = "Locking"
    /\ UNCHANGED <<durable, lease, mutex, granted, publisher, stopping, queue, taken, drained>>

TransactionTakes ==
    /\ worker = "Locking"
    /\ mutex = None
    /\ remaining > 0
    /\ Take(nextID, remaining)
    /\ taken' = taken + 1
    /\ worker' = "Publishing"
    /\ UNCHANGED <<highWater, mutex, granted, publisher, stopping, queue, drained>>

\* The worker waits for a write that only the worker can do.
TransactionReserves ==
    /\ worker = "Locking"
    /\ mutex = None
    /\ remaining = 0
    /\ Reserve(Writer, LeaseSize)
    /\ worker' = "SelfWaiting"
    /\ UNCHANGED <<durable, lease, publisher, stopping, taken, drained>>

EndPublication ==
    /\ worker' = "Free"
    /\ taken' = 0
    /\ drained' = 0
    /\ publisher' = IF publisher = "Publishing" THEN "Idle" ELSE publisher

\* The transaction commits or is rolled back, and the publisher is answered; a
\* reservation the queue refuses rolls it back too.
TransactionEnds ==
    /\ worker = "Publishing" \/ (worker = "Locking" /\ mutex = None /\ remaining = 0)
    /\ EndPublication
    /\ UNCHANGED <<durable, lease, mutex, granted, stopping, queue>>

\* Only the end of the context lets a worker go that waits for itself.
TransactionGivesUp ==
    /\ worker = "SelfWaiting"
    /\ stopping
    /\ EndPublication
    /\ Unreserved(Writer)
    /\ UNCHANGED stopping

-----------------------------------------------------------------------------

CallerNext(c) == NextReserves(c) \/ NextGranted(c) \/ NextRefused(c) \/ NextGivesUp(c)

Publish ==
    \/ EnsureKeepsLease \/ EnsureReserves \/ EnsureGranted \/ EnsureFails
    \/ Submit \/ Stop \/ PublisherStops

Work ==
    \/ GrantReservation \/ RefuseReservation \/ BeginPublication
    \/ TransactionLocks \/ TransactionTakes \/ TransactionReserves
    \/ TransactionEnds \/ TransactionGivesUp

Next ==
    \/ NextFromLease
    \/ \E c \in Callers : CallerNext(c)
    \/ Publish
    \/ Work
    \/ Crash

Spec == Init /\ [][Next]_vars

\* The worker goroutine runs, and a goroutine that has its answer goes on.  Nobody has to
\* allocate, to give up or to stop.
Fairness ==
    /\ WF_vars(Work)
    /\ \A c \in Callers : WF_vars(NextGranted(c) \/ NextRefused(c))
    /\ WF_vars(EnsureGranted \/ EnsureFails)

FairSpec == Spec /\ Fairness

-----------------------------------------------------------------------------
(* What the allocator promises. *)

\* No identifier is handed out twice, and each is above all earlier ones: whatever the
\* clock says, across crashes, and with reservations whose callers have given up.
IdentifiersIncrease ==
    \A i, j \in DOMAIN issued : i < j => issued[i] < issued[j]

\* The mark of every identifier that anybody has seen is on disk.
IssuedBelowMark == \A i \in DOMAIN issued : issued[i] <= highWater

\* What callers may take while a publication is under way without any harm.
Slack == EnsuredSize - MaxTaken

\* A publication finds the lease it ensured, with the mutex free, unless callers took more
\* than the slack meanwhile.
WriterFindsLease ==
    worker # "Free" /\ taken < MaxTaken /\ (mutex # None \/ remaining = 0) => drained > Slack

\* The worker never waits for itself, and so serves the other writes again.
WriterFreed == worker # "Free" ~> (worker = "Free" \/ drained > Slack)

\* Nobody keeps the mutex of the allocator.
MutexReleased == mutex # None ~> (mutex = None \/ drained > Slack)

\* Whoever waits for an identifier or a reservation goes on: the worker and the mutex
\* are free again, except where callers took more than the slack.
AllocationsEnd == WriterFreed /\ MutexReleased

-----------------------------------------------------------------------------
(* Why these promises hold: the inductive invariant. *)

AllIssuedBelow(identifier) == \A i \in DOMAIN issued : issued[i] < identifier

\* A lease is a range above everything issued and below the mark.
LeaseFresh ==
    remaining > 0 => /\ nextID >= 0
                     /\ nextID + remaining - 1 <= highWater
                     /\ AllIssuedBelow(nextID)

\* What the holder of the mutex has asked for.
SizeFor(by) == IF by = Publisher THEN ReservationSize(EnsuredSize) ELSE LeaseSize

\* So is a range that was granted and not yet taken up.
GrantFresh ==
    granted >= 0 => /\ mutex # None
                    /\ granted + SizeFor(mutex) - 1 <= highWater
                    /\ AllIssuedBelow(granted)

\* A reservation that somebody waits for.
Awaited(i) == ~ IsPublication(queue[i]) /\ queue[i].by # None

\* Only the holder of the mutex waits for a reservation, for one, and for its size.
AwaitedByHolder ==
    /\ mutex = None => granted = NoMark
    /\ \A i \in DOMAIN queue :
          Awaited(i) => /\ mutex = queue[i].by
                        /\ granted = NoMark
                        /\ queue[i].count = SizeFor(mutex)

AwaitedOnce == \A i, j \in DOMAIN queue : Awaited(i) /\ Awaited(j) => i = j

\* Next asks for a new lease only when the old one is used up.
HolderFoundNothing == mutex \in Callers \cup {Writer} => remaining = 0

QueuedOnce ==
    \A i, j \in DOMAIN queue : IsPublication(queue[i]) /\ IsPublication(queue[j]) => i = j

\* There is one publication at a time, and none while the publisher ensures its lease.
OnePublication ==
    /\ publisher = "Ensuring" <=> mutex = Publisher
    /\ worker = "SelfWaiting" <=> mutex = Writer
    /\ publisher \in {"Idle", "Ensuring", "Ensured"} => worker = "Free" /\ ~ PublicationQueued
    /\ publisher = "Stopped" => stopping
    /\ worker # "Free" => ~ PublicationQueued
    /\ QueuedOnce

\* What a publication ensured is left, or was taken by the publication or by callers.
LeaseAccountedFor ==
    /\ PublicationUnderWay => remaining + drained + taken >= EnsuredSize
    /\ worker = "Free" => taken = 0
    /\ worker = "Locking" => taken < MaxTaken

AllocatorInv ==
    /\ TypeOK
    /\ IdentifiersIncrease
    /\ IssuedBelowMark
    /\ LeaseFresh
    /\ GrantFresh
    /\ AwaitedByHolder
    /\ AwaitedOnce
    /\ HolderFoundNothing
    /\ OnePublication
    /\ LeaseAccountedFor

=============================================================================
