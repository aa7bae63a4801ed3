-------------------------- MODULE IdAllocatorProofs --------------------------
(***************************************************************************)
(* Proofs that identifiers increase, that the mark on disk covers them,    *)
(* and that a publication finds the lease it ensured, for all sizes of     *)
(* leases, ranges of the clock and sets of callers.                        *)
(***************************************************************************)
EXTENDS IdAllocator, TLAPS

\* The sizes and identifiers are numbers, and a reservation is as large as what it is for.
LEMMA Numbers ==
    /\ LastIdentifier \in Nat
    /\ \A now \in 0..MaxTimestamp : Compose(now, 0) \in Nat
    /\ LeaseSize \in Nat \ {0} /\ EnsuredSize \in Nat \ {0}
    /\ ReservationSize(EnsuredSize) \in Nat \ {0}
    /\ ReservationSize(EnsuredSize) >= EnsuredSize
    /\ ReservationSize(EnsuredSize) >= LeaseSize
    /\ ReservationSize(EnsuredSize) = Larger(EnsuredSize, LeaseSize)
    /\ \A by : SizeFor(by) \in {LeaseSize, ReservationSize(EnsuredSize)}
    /\ NoMark = -1 /\ Failure = -2
<1>1. MaxTimestamp * PerMillisecond \in Nat
  BY SizesAssumption
<1>2. \A now \in 0..MaxTimestamp : now * PerMillisecond \in Nat
  BY SizesAssumption
<1>3. LastIdentifier \in Nat /\ \A now \in 0..MaxTimestamp : Compose(now, 0) \in Nat
  BY <1>1, <1>2, SizesAssumption DEF LastIdentifier, Compose
<1> QED
  BY <1>3, SizesAssumption DEF ReservationSize, Larger, SizeFor, NoMark, Failure

(* What the three operations on the queue do to the writes in it. *)

LEMMA Appended ==
    ASSUME queue \in Seq(Writes), NEW write \in Writes, queue' = Append(queue, write)
    PROVE  /\ queue' \in Seq(Writes)
           /\ Len(queue) + 1 \in DOMAIN queue' /\ queue'[Len(queue) + 1] = write
           /\ \A i \in DOMAIN queue : i \in DOMAIN queue' /\ queue'[i] = queue[i]
           /\ \A i \in DOMAIN queue' : i \in DOMAIN queue \/ i = Len(queue) + 1
           /\ Len(queue) + 1 \notin DOMAIN queue
<1>1. DOMAIN queue = 1..Len(queue) /\ Len(queue) \in Nat /\ DOMAIN queue' = 1..(Len(queue) + 1)
  OBVIOUS
<1>2. queue'[Len(queue) + 1] = write /\ \A i \in 1..Len(queue) : queue'[i] = queue[i]
  OBVIOUS
<1> QED
  BY <1>1, <1>2

\* The worker receives the first write; the others move up.
LEMMA Received ==
    ASSUME queue \in Seq(Writes), queue # <<>>, queue' = Tail(queue)
    PROVE  /\ queue' \in Seq(Writes)
           /\ Head(queue) = queue[1] /\ 1 \in DOMAIN queue /\ Head(queue) \in Writes
           /\ \A i \in DOMAIN queue' :
                 i \in Nat /\ i + 1 \in DOMAIN queue /\ i + 1 # 1 /\ queue'[i] = queue[i + 1]
<1>1. /\ DOMAIN queue = 1..Len(queue) /\ Len(queue) \in Nat /\ Len(queue) > 0
      /\ queue' \in Seq(Writes) /\ DOMAIN queue' = 1..(Len(queue) - 1)
  OBVIOUS
<1>2. Head(queue) = queue[1] /\ \A i \in 1..(Len(queue) - 1) : queue'[i] = queue[i + 1]
  OBVIOUS
<1> QED
  BY <1>1, <1>2

\* A caller gives up: its writes stay where they are, with nobody to answer.
LEMMA Abandoned ==
    ASSUME queue \in Seq(Writes), NEW by, Abandon(by)
    PROVE  /\ queue' \in Seq(Writes)
           /\ DOMAIN queue' = DOMAIN queue
           /\ \A i \in DOMAIN queue :
                 /\ queue'[i].count = queue[i].count
                 /\ queue[i].by = by => queue'[i].by = None
                 /\ queue[i].by # by => queue'[i] = queue[i]
<1>1. DOMAIN queue' = 1..Len(queue) /\ DOMAIN queue = 1..Len(queue) /\ Len(queue) \in Nat
  BY DEF Abandon
<1>2. ASSUME NEW i \in DOMAIN queue
      PROVE  /\ queue'[i] \in Writes
             /\ queue'[i].count = queue[i].count
             /\ queue[i].by = by => queue'[i].by = None
             /\ queue[i].by # by => queue'[i] = queue[i]
  <2>1. queue[i] \in Writes
    BY <1>1
  <2>2. queue'[i] = IF queue[i].by = by THEN [queue[i] EXCEPT !.by = None] ELSE queue[i]
    BY DEF Abandon
  <2> QED
    BY <2>1, <2>2 DEF Writes
<1>3. queue' = [i \in 1..Len(queue) |-> queue'[i]]
  BY <1>1 DEF Abandon
<1>4. queue' \in Seq(Writes)
  BY <1>1, <1>2, <1>3
<1> QED
  BY <1>1, <1>2, <1>4

(* What handing out one identifier does to the history. *)

LEMMA Issued ==
    ASSUME TypeOK, IdentifiersIncrease, IssuedBelowMark,
           NEW first \in 0..LastIdentifier, AllIssuedBelow(first), first <= highWater,
           issued' = Append(issued, first), highWater' = highWater
    PROVE  /\ issued' \in Seq(0..LastIdentifier)
           /\ IdentifiersIncrease' /\ IssuedBelowMark'
           /\ (\A i \in DOMAIN issued : issued[i] < first + 1)
           /\ \A i \in DOMAIN issued' : issued'[i] < first + 1
<1> DEFINE Ids == 0..LastIdentifier
<1>1. /\ issued \in Seq(Ids) /\ Len(issued) \in Nat /\ DOMAIN issued = 1..Len(issued)
      /\ issued' \in Seq(Ids) /\ DOMAIN issued' = 1..(Len(issued) + 1)
  <2>1. issued \in Seq(Ids) /\ first \in Ids
    BY DEF TypeOK
  <2> HIDE DEF Ids
  <2> QED
    BY <2>1
<1> HIDE DEF Ids
<1>2. issued'[Len(issued) + 1] = first /\ \A i \in 1..Len(issued) : issued'[i] = issued[i]
  BY <1>1
<1>3. \A i \in 1..Len(issued) : issued[i] \in Int /\ issued[i] < first
  <2>1. \A i \in 1..Len(issued) : issued[i] \in Ids
    BY <1>1
  <2> QED
    BY <1>1, <2>1, SMTT(30) DEF AllIssuedBelow, Ids
<1>4. first \in Int /\ LastIdentifier \in Int
  BY Numbers
<1>5. IdentifiersIncrease'
  <2> SUFFICES ASSUME NEW i \in 1..(Len(issued) + 1), NEW j \in 1..(Len(issued) + 1), i < j
               PROVE  issued'[i] < issued'[j]
    BY <1>1 DEF IdentifiersIncrease
  <2>1. i \in 1..Len(issued)
    BY <1>1
  <2>2. CASE j \in 1..Len(issued)
    BY <1>1, <1>2, <2>1, <2>2 DEF IdentifiersIncrease
  <2>3. CASE j = Len(issued) + 1
    BY <1>2, <1>3, <2>1, <2>3
  <2> QED
    BY <1>1, <2>2, <2>3
<1>6. IssuedBelowMark'
  BY <1>1, <1>2 DEF IssuedBelowMark
<1>7. \A i \in DOMAIN issued' : issued'[i] < first + 1
  BY <1>1, <1>2, <1>3, <1>4
<1> QED
  BY <1>1, <1>3, <1>4, <1>5, <1>6, <1>7, SMTT(30) DEF Ids

(* What the three operations on the queue do to who waits for what. *)

QueueInv == AwaitedByHolder /\ AwaitedOnce /\ QueuedOnce

\* The holder of the mutex awaits its new reservation, and nobody else awaits one.
LEMMA ReserveQueue ==
    ASSUME AllocatorInv, NEW by \in Callers \cup {Publisher, Writer},
           mutex = None, Reserve(by, SizeFor(by))
    PROVE  /\ queue' \in Seq(Writes) /\ QueueInv'
           /\ PublicationQueued' <=> PublicationQueued
           /\ mutex' = by /\ granted' = NoMark
<1>1. queue \in Seq(Writes) /\ QueueInv
  BY DEF AllocatorInv, TypeOK, OnePublication, QueueInv
<1>2. PICK now \in 0..MaxTimestamp : queue' = Append(queue, Reservation(by, SizeFor(by), now))
  BY DEF Reserve
<1> DEFINE write == Reservation(by, SizeFor(by), now)
<1>3. /\ write \in Writes /\ ~ IsPublication(write) /\ write.by = by /\ by # None
      /\ write.count = SizeFor(by)
  <2>1. SizeFor(by) \in {LeaseSize, Larger(EnsuredSize, LeaseSize)} /\ SizeFor(by) # 0
    BY Numbers
  <2> QED
    BY <2>1, NamesAssumption DEF Reservation, Writes, IsPublication
<1>4. /\ queue' \in Seq(Writes)
      /\ Len(queue) + 1 \in DOMAIN queue' /\ queue'[Len(queue) + 1] = write
      /\ \A i \in DOMAIN queue : i \in DOMAIN queue' /\ queue'[i] = queue[i]
      /\ \A i \in DOMAIN queue' : i \in DOMAIN queue \/ i = Len(queue) + 1
  <2> HIDE DEF write
  <2>1. queue' = Append(queue, write)
    BY <1>2 DEF write
  <2> QED
    BY <1>1, <1>3, <2>1, Appended
<1> HIDE DEF write
<1>5. \A i \in DOMAIN queue : ~ Awaited(i)
  BY <1>1 DEF QueueInv, AwaitedByHolder, Awaited
<1>6. mutex' = by /\ granted' = NoMark
  BY DEF Reserve
<1>7. \A i \in DOMAIN queue' : Awaited(i)' => i = Len(queue) + 1
  BY <1>4, <1>5 DEF Awaited
<1>8. AwaitedByHolder'
  <2>1. SizeFor(mutex)' = SizeFor(by)
    BY <1>6 DEF SizeFor
  <2> QED
    BY <1>3, <1>4, <1>6, <1>7, <2>1 DEF AwaitedByHolder
<1>9. AwaitedOnce'
  BY <1>7 DEF AwaitedOnce
<1>10. QueuedOnce' /\ (PublicationQueued' <=> PublicationQueued)
  BY <1>1, <1>3, <1>4 DEF QueueInv, QueuedOnce, PublicationQueued
<1> QED
  BY <1>4, <1>6, <1>8, <1>9, <1>10 DEF QueueInv

\* A write is received; the answer, if anybody waits for one, goes to the holder.
LEMMA ReceiveQueue ==
    ASSUME AllocatorInv, queue # <<>>, queue' = Tail(queue), mutex' = mutex,
           granted' = granted \/ (Awaited(1) /\ granted' # NoMark)
    PROVE  /\ queue' \in Seq(Writes) /\ QueueInv'
           /\ Head(queue) = queue[1] /\ 1 \in DOMAIN queue /\ Head(queue) \in Writes
           /\ PublicationQueued' => PublicationQueued
           /\ IsPublication(Head(queue)) => PublicationQueued /\ ~ PublicationQueued'
<1>1. queue \in Seq(Writes) /\ QueueInv
  BY DEF AllocatorInv, TypeOK, OnePublication, QueueInv
<1>2. /\ queue' \in Seq(Writes)
      /\ Head(queue) = queue[1] /\ 1 \in DOMAIN queue /\ Head(queue) \in Writes
      /\ \A i \in DOMAIN queue' :
            i \in Nat /\ i + 1 \in DOMAIN queue /\ i + 1 # 1 /\ queue'[i] = queue[i + 1]
  BY <1>1, Received
<1>3. \A i \in DOMAIN queue' : Awaited(i)' => Awaited(i + 1)
  BY <1>2 DEF Awaited
<1>4. AwaitedByHolder'
  <2>1. SizeFor(mutex)' = SizeFor(mutex)
    BY DEF SizeFor
  <2>2. mutex = None => granted' = NoMark
    <3>1. Awaited(1) => mutex # None
      BY <1>1, <1>2, NamesAssumption DEF QueueInv, AwaitedByHolder, Awaited
    <3> QED
      BY <1>1, <3>1 DEF QueueInv, AwaitedByHolder
  <2>3. ASSUME NEW i \in DOMAIN queue', Awaited(i)'
        PROVE  mutex = queue'[i].by /\ granted' = NoMark /\ queue'[i].count = SizeFor(mutex)
    <3>1. Awaited(i + 1) /\ i + 1 \in DOMAIN queue /\ i + 1 # 1 /\ queue'[i] = queue[i + 1]
      BY <1>2, <1>3, <2>3
    <3>2. ~ Awaited(1)
      BY <1>1, <1>2, <3>1 DEF QueueInv, AwaitedOnce
    <3> QED
      BY <1>1, <3>1, <3>2 DEF QueueInv, AwaitedByHolder
  <2> QED
    BY <2>1, <2>2, <2>3 DEF AwaitedByHolder
<1>5. AwaitedOnce'
  <2> SUFFICES ASSUME NEW i \in DOMAIN queue', NEW j \in DOMAIN queue', Awaited(i)', Awaited(j)'
               PROVE  i = j
    BY DEF AwaitedOnce
  <2>1. i + 1 = j + 1
    BY <1>1, <1>2, <1>3 DEF QueueInv, AwaitedOnce
  <2> QED
    BY <1>2, <2>1
<1>6. QueuedOnce'
  <2> SUFFICES ASSUME NEW i \in DOMAIN queue', NEW j \in DOMAIN queue',
                      IsPublication(queue'[i]), IsPublication(queue'[j])
               PROVE  i = j
    BY DEF QueuedOnce
  <2>1. i + 1 = j + 1
    BY <1>1, <1>2 DEF QueueInv, QueuedOnce
  <2> QED
    BY <1>2, <2>1
<1>7. /\ PublicationQueued' => PublicationQueued
      /\ IsPublication(Head(queue)) => PublicationQueued /\ ~ PublicationQueued'
  BY <1>1, <1>2 DEF PublicationQueued, QueueInv, QueuedOnce
<1> QED
  BY <1>2, <1>4, <1>5, <1>6, <1>7 DEF QueueInv

\* Giving up leaves the queue invariant.
LEMMA AbandonQueue ==
    ASSUME AllocatorInv, NEW by \in Callers \cup {Publisher, Writer}, Abandon(by),
           \/ mutex = by /\ mutex' = None /\ granted' = NoMark
           \/ mutex # by /\ UNCHANGED <<mutex, granted>>
    PROVE  /\ queue' \in Seq(Writes) /\ QueueInv'
           /\ PublicationQueued' <=> PublicationQueued
<1>1. queue \in Seq(Writes) /\ QueueInv
  BY DEF AllocatorInv, TypeOK, OnePublication, QueueInv
<1>2. /\ queue' \in Seq(Writes)
      /\ DOMAIN queue' = DOMAIN queue
      /\ \A i \in DOMAIN queue :
            /\ queue'[i].count = queue[i].count
            /\ queue[i].by = by => queue'[i].by = None
            /\ queue[i].by # by => queue'[i] = queue[i]
  BY <1>1, Abandoned
<1>3. \A i \in DOMAIN queue' : Awaited(i)' => Awaited(i) /\ queue[i].by # by /\ queue'[i] = queue[i]
  BY <1>2 DEF Awaited, IsPublication
<1>4. AwaitedByHolder'
  <2>1. CASE mutex = by
    <3>1. \A i \in DOMAIN queue' : ~ Awaited(i)'
      BY <1>1, <1>2, <1>3, <2>1 DEF QueueInv, AwaitedByHolder
    <3> QED
      BY <2>1, <3>1 DEF AwaitedByHolder
  <2>2. CASE mutex # by
    <3>1. SizeFor(mutex)' = SizeFor(mutex) /\ UNCHANGED <<mutex, granted>>
      BY <2>2 DEF SizeFor
    <3> QED
      BY <1>1, <1>2, <1>3, <3>1 DEF QueueInv, AwaitedByHolder
  <2> QED
    BY <2>1, <2>2
<1>5. AwaitedOnce'
  BY <1>1, <1>2, <1>3 DEF QueueInv, AwaitedOnce
<1>6. QueuedOnce' /\ (PublicationQueued' <=> PublicationQueued)
  BY <1>1, <1>2 DEF QueueInv, QueuedOnce, PublicationQueued, IsPublication
<1> QED
  BY <1>2, <1>4, <1>5, <1>6 DEF QueueInv

-----------------------------------------------------------------------------
(* The actions. *)

\* A new database has issued nothing and has no lease.
LEMMA InitOK == Init => AllocatorInv
<1> SUFFICES ASSUME Init PROVE AllocatorInv
  OBVIOUS
<1>1. TypeOK
  <2>1. issued \in Seq(0..LastIdentifier) /\ queue \in Seq(Writes)
    BY DEF Init
  <2>2. remaining \in 0..Larger(EnsuredSize, LeaseSize) /\ taken \in 0..MaxTaken
    BY SizesAssumption DEF Init, Larger
  <2>3. -1 \in NoMark..LastIdentifier /\ -1 \in Failure..LastIdentifier
    BY Numbers
  <2> QED
    BY <2>1, <2>2, <2>3, Numbers DEF Init, TypeOK
<1>2. queue = <<>> /\ DOMAIN queue = {} /\ issued = <<>> /\ DOMAIN issued = {}
  BY DEF Init
<1>3. IdentifiersIncrease /\ IssuedBelowMark /\ LeaseFresh
  BY <1>2 DEF Init, IdentifiersIncrease, IssuedBelowMark, LeaseFresh
<1>4. GrantFresh /\ HolderFoundNothing
  BY Numbers, NamesAssumption DEF Init, GrantFresh, HolderFoundNothing
<1>5. AwaitedByHolder /\ AwaitedOnce /\ OnePublication /\ LeaseAccountedFor
  BY <1>2, NamesAssumption DEF Init, AwaitedByHolder, AwaitedOnce, OnePublication, QueuedOnce,
     PublicationQueued, LeaseAccountedFor, PublicationUnderWay
<1> QED
  BY <1>1, <1>3, <1>4, <1>5 DEF AllocatorInv

\* What the next lemmas need of the invariant, with the ranges of the numbers.
LEMMA Known ==
    ASSUME AllocatorInv
    PROVE  /\ TypeOK /\ IdentifiersIncrease /\ IssuedBelowMark
           /\ QueueInv /\ queue \in Seq(Writes)
           /\ highWater \in Int /\ highWater <= LastIdentifier /\ -1 <= highWater
           /\ nextID \in Int /\ remaining \in Nat /\ granted \in Int
           /\ taken \in Nat /\ drained \in Nat
  BY Numbers, SizesAssumption DEF AllocatorInv, TypeOK, QueueInv, OnePublication, Larger

\* The same numbers without the rest, for the steps that calculate.
LEMMA Ranges ==
    ASSUME AllocatorInv
    PROVE  /\ LastIdentifier \in Nat /\ NoMark = -1
           /\ LeaseSize \in Nat /\ LeaseSize >= 1 /\ EnsuredSize \in Nat
           /\ highWater \in Int /\ -1 <= highWater /\ highWater <= LastIdentifier
           /\ nextID \in Int /\ remaining \in Nat /\ granted \in Int
           /\ taken \in Nat /\ drained \in Nat
  BY Known, Numbers, SizesAssumption

\* What was issued are numbers.
LEMMA IssuedNumbers ==
    ASSUME AllocatorInv
    PROVE  \A i \in DOMAIN issued : issued[i] \in Int
<1> DEFINE I == 0..LastIdentifier
<1>1. I \subseteq Int
  BY Numbers
<1>2. issued \in Seq(I)
  BY Known DEF TypeOK
<1> HIDE DEF I
<1>3. \A i \in DOMAIN issued : issued[i] \in I
  BY <1>2
<1> QED
  BY <1>1, <1>3

\* The history is as before and the mark is no lower.
LEMMA HistoryKept ==
    ASSUME AllocatorInv, issued' = issued, highWater' \in Int, highWater' >= highWater
    PROVE  /\ IdentifiersIncrease' /\ IssuedBelowMark'
           /\ \A identifier : AllIssuedBelow(identifier) => \A i \in DOMAIN issued' : issued'[i] < identifier
<1>1. \A i \in DOMAIN issued : issued[i] \in Int
  BY IssuedNumbers
<1> QED
  BY <1>1, Known DEF IdentifiersIncrease, IssuedBelowMark, AllIssuedBelow

\* The next identifier of the lease is handed out.
LEMMA TakenFromLease ==
    ASSUME AllocatorInv, remaining > 0, Take(nextID, remaining), highWater' = highWater
    PROVE  /\ issued' \in Seq(0..LastIdentifier)
           /\ IdentifiersIncrease' /\ IssuedBelowMark' /\ LeaseFresh'
           /\ nextID' \in NoMark..LastIdentifier
           /\ remaining' = remaining - 1 /\ remaining' \in 0..Larger(EnsuredSize, LeaseSize)
<1>0. nextID >= 0 /\ nextID + remaining - 1 <= highWater /\ AllIssuedBelow(nextID)
  BY DEF AllocatorInv, LeaseFresh
<1>1. /\ nextID >= 0 /\ nextID + remaining - 1 <= highWater
      /\ issued' = Append(issued, nextID) /\ remaining' = remaining - 1
      /\ nextID' = IF remaining > 1 THEN nextID + 1 ELSE nextID
  BY <1>0 DEF Take, Successor
<1>2. nextID \in 0..LastIdentifier /\ nextID <= highWater
  BY <1>0, Ranges
<1>3. /\ issued' \in Seq(0..LastIdentifier)
      /\ IdentifiersIncrease' /\ IssuedBelowMark'
      /\ \A i \in DOMAIN issued' : issued'[i] < nextID + 1
  BY <1>0, <1>1, <1>2, Issued, Known
<1>4. nextID' \in NoMark..LastIdentifier
  BY <1>1, <1>2, Ranges, SMTT(30)
<1>5. LeaseFresh'
  <2> SUFFICES ASSUME remaining' > 0
               PROVE  nextID' >= 0 /\ nextID' + remaining' - 1 <= highWater' /\ AllIssuedBelow(nextID)'
    BY DEF LeaseFresh
  <2>1. nextID' = nextID + 1 /\ remaining' = remaining - 1
    BY <1>1, Ranges, SMTT(30)
  <2>2. AllIssuedBelow(nextID)'
    BY <1>3, <2>1 DEF AllIssuedBelow
  <2>3. nextID + 1 >= 0 /\ nextID + 1 + (remaining - 1) - 1 <= highWater
    BY <1>0, Ranges
  <2> QED
    BY <2>1, <2>2, <2>3
<1>6. remaining' \in 0..Larger(EnsuredSize, LeaseSize)
  <2>1. Larger(EnsuredSize, LeaseSize) \in Nat
    BY Numbers
  <2>2. remaining \in 0..Larger(EnsuredSize, LeaseSize)
    BY Known DEF TypeOK
  <2>3. remaining > 0 /\ remaining' = remaining - 1
    BY <1>1
  <2> QED
    BY <2>1, <2>2, <2>3
<1> QED
  BY <1>1, <1>3, <1>4, <1>5, <1>6

\* A caller takes an identifier of the lease.
LEMMA NextFromLeaseInv ==
    ASSUME AllocatorInv, NextFromLease
    PROVE  AllocatorInv'
<1>1. /\ mutex = None /\ remaining > 0 /\ Take(nextID, remaining) /\ CountDrained
      /\ UNCHANGED <<highWater, mutex, granted, publisher, stopping, queue, worker, taken>>
  BY DEF NextFromLease
<1>2. /\ issued' \in Seq(0..LastIdentifier)
      /\ IdentifiersIncrease' /\ IssuedBelowMark' /\ LeaseFresh'
      /\ nextID' \in NoMark..LastIdentifier
      /\ remaining' = remaining - 1 /\ remaining' \in 0..Larger(EnsuredSize, LeaseSize)
  BY <1>1, TakenFromLease
<1>3. drained' \in Nat /\ drained' = IF PublicationUnderWay THEN drained + 1 ELSE drained
  BY <1>1, Known DEF CountDrained
<1>4. TypeOK'
  BY <1>1, <1>2, <1>3, Known DEF TypeOK
<1>5. GrantFresh' /\ HolderFoundNothing'
  <2>1. granted = NoMark
    BY <1>1, Known DEF QueueInv, AwaitedByHolder
  <2> QED
    BY <1>1, <2>1, Numbers, NamesAssumption DEF GrantFresh, HolderFoundNothing
<1>6. AwaitedByHolder' /\ AwaitedOnce' /\ OnePublication'
  BY <1>1 DEF AllocatorInv, AwaitedByHolder, AwaitedOnce, OnePublication, QueuedOnce,
     PublicationQueued, Awaited, SizeFor
<1>7. LeaseAccountedFor'
  <2>1. PublicationUnderWay' <=> PublicationUnderWay
    BY <1>1 DEF PublicationUnderWay, PublicationQueued
  <2> QED
    BY <1>1, <1>2, <1>3, <2>1, Ranges, SMTT(30) DEF AllocatorInv, LeaseAccountedFor
<1> QED
  BY <1>2, <1>4, <1>5, <1>6, <1>7 DEF AllocatorInv

\* A publication does.
LEMMA TransactionTakesInv ==
    ASSUME AllocatorInv, TransactionTakes
    PROVE  AllocatorInv'
<1>1. /\ mutex = None /\ remaining > 0 /\ Take(nextID, remaining)
      /\ worker = "Locking" /\ worker' = "Publishing" /\ taken' = taken + 1
      /\ UNCHANGED <<highWater, mutex, granted, publisher, stopping, queue, drained>>
  BY DEF TransactionTakes
<1>2. /\ issued' \in Seq(0..LastIdentifier)
      /\ IdentifiersIncrease' /\ IssuedBelowMark' /\ LeaseFresh'
      /\ nextID' \in NoMark..LastIdentifier
      /\ remaining' = remaining - 1 /\ remaining' \in 0..Larger(EnsuredSize, LeaseSize)
  BY <1>1, TakenFromLease
<1>4. TypeOK'
  <2>1. taken' \in 0..MaxTaken
    BY <1>1, Known, SizesAssumption, SMTT(30) DEF AllocatorInv, LeaseAccountedFor
  <2> QED
    BY <1>1, <1>2, <2>1, Known DEF TypeOK
<1>5. GrantFresh' /\ HolderFoundNothing'
  <2>1. granted = NoMark
    BY <1>1, Known DEF QueueInv, AwaitedByHolder
  <2> QED
    BY <1>1, <2>1, Numbers, NamesAssumption DEF GrantFresh, HolderFoundNothing
<1>6. AwaitedByHolder' /\ AwaitedOnce' /\ OnePublication'
  BY <1>1, NamesAssumption DEF AllocatorInv, AwaitedByHolder, AwaitedOnce, OnePublication, QueuedOnce,
     PublicationQueued, Awaited, SizeFor
<1>7. LeaseAccountedFor'
  <2>1. PublicationUnderWay /\ remaining + drained + taken >= EnsuredSize
    BY <1>1 DEF AllocatorInv, LeaseAccountedFor, PublicationUnderWay
  <2>2. remaining' = remaining - 1 /\ taken' = taken + 1 /\ drained' = drained
    BY <1>1, <1>2
  <2>3. remaining - 1 + drained + (taken + 1) >= EnsuredSize
    BY <2>1, Ranges
  <2> QED
    BY <1>1, <2>2, <2>3 DEF LeaseAccountedFor
<1> QED
  BY <1>2, <1>4, <1>5, <1>6, <1>7 DEF AllocatorInv

\* A caller that finds no lease reserves one.
LEMMA NextReservesInv ==
    ASSUME AllocatorInv, NEW c \in Callers, NextReserves(c)
    PROVE  AllocatorInv'
<1>1. /\ mutex = None /\ remaining = 0 /\ Reserve(c, LeaseSize)
      /\ UNCHANGED <<durable, lease, publisher, stopping, worker, taken, drained>>
  BY DEF NextReserves
<1>2. /\ queue' \in Seq(Writes) /\ QueueInv' /\ (PublicationQueued' <=> PublicationQueued)
      /\ mutex' = c /\ granted' = NoMark /\ c \notin {Publisher, Writer, None}
  <2>1. SizeFor(c) = LeaseSize /\ c \notin {Publisher, Writer, None}
    BY NamesAssumption DEF SizeFor
  <2> QED
    BY <1>1, <2>1, ReserveQueue
<1>3. TypeOK'
  BY <1>1, <1>2, Known, Numbers DEF TypeOK, durable, lease
<1>4. IdentifiersIncrease' /\ IssuedBelowMark' /\ LeaseFresh' /\ GrantFresh' /\ HolderFoundNothing'
  BY <1>1, <1>2, Numbers DEF AllocatorInv, IdentifiersIncrease, IssuedBelowMark,
     LeaseFresh, GrantFresh, HolderFoundNothing, AllIssuedBelow, durable, lease
<1>5. OnePublication'
  BY <1>1, <1>2, NamesAssumption DEF AllocatorInv, OnePublication, QueueInv
<1>6. LeaseAccountedFor'
  BY <1>1, <1>2 DEF AllocatorInv, LeaseAccountedFor, PublicationUnderWay, lease
<1> QED
  BY <1>2, <1>3, <1>4, <1>5, <1>6 DEF AllocatorInv, QueueInv

\* It takes up what was granted, which is above everything issued since it was granted.
LEMMA NextGrantedInv ==
    ASSUME AllocatorInv, NEW c \in Callers, NextGranted(c)
    PROVE  AllocatorInv'
<1>1. /\ mutex = c /\ granted >= 0 /\ Take(granted, LeaseSize) /\ CountDrained
      /\ mutex' = None /\ granted' = NoMark
      /\ UNCHANGED <<highWater, publisher, stopping, queue, worker, taken>>
  BY DEF NextGranted
<1>2. c \notin {Publisher, Writer, None} /\ SizeFor(c) = LeaseSize
  BY NamesAssumption DEF SizeFor
<1>3. granted + LeaseSize - 1 <= highWater /\ AllIssuedBelow(granted) /\ remaining = 0
  BY <1>1, <1>2 DEF AllocatorInv, GrantFresh, HolderFoundNothing
<1>4. /\ issued' = Append(issued, granted) /\ remaining' = LeaseSize - 1
      /\ nextID' = IF LeaseSize > 1 THEN granted + 1 ELSE granted
  BY <1>1 DEF Take, Successor
<1>5. granted \in 0..LastIdentifier /\ granted <= highWater
  BY <1>1, <1>3, Known, Numbers, SMTT(30)
<1>6. /\ issued' \in Seq(0..LastIdentifier)
      /\ IdentifiersIncrease' /\ IssuedBelowMark'
      /\ \A i \in DOMAIN issued' : issued'[i] < granted + 1
  BY <1>1, <1>3, <1>4, <1>5, Issued, Known
<1>7. LeaseFresh'
  <2> SUFFICES ASSUME remaining' > 0
               PROVE  nextID' >= 0 /\ nextID' + remaining' - 1 <= highWater' /\ AllIssuedBelow(nextID)'
    BY DEF LeaseFresh
  <2>1. nextID' = granted + 1 /\ remaining' = LeaseSize - 1
    BY <1>4, Numbers
  <2>2. AllIssuedBelow(nextID)'
    BY <1>6, <2>1 DEF AllIssuedBelow
  <2> QED
    BY <1>1, <1>3, <2>1, <2>2, Ranges
<1>8. drained' \in Nat /\ drained' = IF PublicationUnderWay THEN drained + 1 ELSE drained
  BY <1>1, Known DEF CountDrained
<1>9. TypeOK'
  <2>1. remaining' \in 0..Larger(EnsuredSize, LeaseSize)
    BY <1>4, Numbers
  <2>2. nextID' \in NoMark..LastIdentifier
    BY <1>1, <1>3, <1>4, <1>5, Known, Numbers, SMTT(30)
  <2> QED
    BY <1>1, <1>6, <1>8, <2>1, <2>2, Known, Numbers DEF TypeOK
<1>10. GrantFresh' /\ HolderFoundNothing'
  BY <1>1, Numbers, NamesAssumption DEF GrantFresh, HolderFoundNothing
<1>11. AwaitedByHolder' /\ AwaitedOnce'
  <2>1. \A i \in DOMAIN queue : ~ Awaited(i)
    BY <1>1, Known, Numbers DEF QueueInv, AwaitedByHolder
  <2> QED
    BY <1>1, <2>1 DEF AwaitedByHolder, AwaitedOnce, Awaited
<1>12. OnePublication'
  BY <1>1, <1>2, NamesAssumption DEF AllocatorInv, OnePublication, QueuedOnce, PublicationQueued
<1>13. LeaseAccountedFor'
  <2>1. PublicationUnderWay' <=> PublicationUnderWay
    BY <1>1 DEF PublicationUnderWay, PublicationQueued
  <2>2. PublicationUnderWay => drained + taken >= EnsuredSize
    BY <1>3, Known DEF AllocatorInv, LeaseAccountedFor
  <2>3. remaining' \in Nat /\ taken' = taken /\ taken \in Nat /\ drained \in Nat
    BY <1>1, <1>4, Known, Numbers
  <2>4. ASSUME PublicationUnderWay PROVE remaining' + drained' + taken' >= EnsuredSize
    <3>1. drained' = drained + 1
      BY <1>8, <2>4
    <3>2. drained + taken >= EnsuredSize
      BY <2>2, <2>4
    <3>3. EnsuredSize \in Int
      BY SizesAssumption
    <3>4. drained' + taken' >= EnsuredSize /\ drained' \in Nat /\ taken' \in Nat
      BY <2>3, <3>1, <3>2, <3>3
    <3>5. \A m, n, k \in Nat : n + k >= EnsuredSize => m + n + k >= EnsuredSize
      BY <3>3
    <3> QED
      BY <2>3, <3>4, <3>5
  <2> QED
    BY <1>1, <2>1, <2>4 DEF AllocatorInv, LeaseAccountedFor
<1> QED
  BY <1>6, <1>7, <1>9, <1>10, <1>11, <1>12, <1>13 DEF AllocatorInv

\* The holder of the mutex gives up its reservation.
LEMMA UnreservedFacts ==
    ASSUME AllocatorInv, NEW by \in Callers \cup {Publisher, Writer}, mutex = by, Unreserved(by)
    PROVE  /\ queue' \in Seq(Writes) /\ QueueInv' /\ (PublicationQueued' <=> PublicationQueued)
           /\ mutex' = None /\ granted' = NoMark
           /\ UNCHANGED <<highWater, issued, nextID, remaining>>
           /\ IdentifiersIncrease' /\ IssuedBelowMark' /\ LeaseFresh' /\ GrantFresh'
           /\ HolderFoundNothing'
<1>1. /\ mutex' = None /\ granted' = NoMark /\ Abandon(by)
      /\ UNCHANGED <<highWater, issued, nextID, remaining>>
  BY DEF Unreserved, durable, lease
<1>2. queue' \in Seq(Writes) /\ QueueInv' /\ (PublicationQueued' <=> PublicationQueued)
  BY <1>1, AbandonQueue
<1>3. IdentifiersIncrease' /\ IssuedBelowMark'
  BY <1>1, Known, HistoryKept
<1>4. LeaseFresh'
  BY <1>1 DEF AllocatorInv, LeaseFresh, AllIssuedBelow
<1>5. GrantFresh' /\ HolderFoundNothing'
  BY <1>1, Numbers, NamesAssumption DEF GrantFresh, HolderFoundNothing
<1> QED
  BY <1>1, <1>2, <1>3, <1>4, <1>5

\* It goes away without a lease.
LEMMA NextFailsInv ==
    ASSUME AllocatorInv, NEW c \in Callers, NextRefused(c) \/ NextGivesUp(c)
    PROVE  AllocatorInv'
<1>1. /\ mutex = c /\ Unreserved(c)
      /\ UNCHANGED <<publisher, stopping, worker, taken, drained>>
  BY DEF NextRefused, NextGivesUp
<1>2. /\ queue' \in Seq(Writes) /\ QueueInv' /\ (PublicationQueued' <=> PublicationQueued)
      /\ mutex' = None /\ granted' = NoMark
      /\ UNCHANGED <<highWater, issued, nextID, remaining>>
      /\ IdentifiersIncrease' /\ IssuedBelowMark' /\ LeaseFresh' /\ GrantFresh'
      /\ HolderFoundNothing'
  BY <1>1, UnreservedFacts
<1>3. c \notin {Publisher, Writer, None}
  BY NamesAssumption
<1>4. TypeOK'
  BY <1>1, <1>2, Known, Numbers DEF TypeOK
<1>5. OnePublication'
  BY <1>1, <1>2, <1>3, NamesAssumption DEF AllocatorInv, OnePublication, QueueInv
<1>6. LeaseAccountedFor'
  BY <1>1, <1>2 DEF AllocatorInv, LeaseAccountedFor, PublicationUnderWay
<1> QED
  BY <1>2, <1>4, <1>5, <1>6 DEF AllocatorInv, QueueInv

\* The lease is large enough for a publication.
LEMMA EnsureKeepsLeaseInv ==
    ASSUME AllocatorInv, EnsureKeepsLease
    PROVE  AllocatorInv'
<1>1. /\ publisher = "Idle" /\ mutex = None /\ remaining >= EnsuredSize /\ publisher' = "Ensured"
      /\ UNCHANGED <<highWater, issued, nextID, remaining, mutex, granted, stopping, queue, worker,
                     taken, drained>>
  BY DEF EnsureKeepsLease, Sufficient, durable, lease
<1>2. TypeOK'
  BY <1>1, Known DEF TypeOK
<1>3. IdentifiersIncrease' /\ IssuedBelowMark' /\ LeaseFresh' /\ GrantFresh' /\ HolderFoundNothing'
  BY <1>1 DEF AllocatorInv, IdentifiersIncrease, IssuedBelowMark, LeaseFresh, GrantFresh,
     HolderFoundNothing, AllIssuedBelow, SizeFor
<1>4. AwaitedByHolder' /\ AwaitedOnce' /\ OnePublication'
  BY <1>1, NamesAssumption DEF AllocatorInv, AwaitedByHolder, AwaitedOnce, OnePublication, QueuedOnce,
     PublicationQueued, Awaited, SizeFor
<1>5. LeaseAccountedFor'
  BY <1>1, Known, Numbers, SMTT(30) DEF AllocatorInv, LeaseAccountedFor
<1> QED
  BY <1>2, <1>3, <1>4, <1>5 DEF AllocatorInv

\* It is not, and the publisher reserves another.
LEMMA EnsureReservesInv ==
    ASSUME AllocatorInv, EnsureReserves
    PROVE  AllocatorInv'
<1>1. /\ publisher = "Idle" /\ mutex = None /\ Reserve(Publisher, ReservationSize(EnsuredSize))
      /\ publisher' = "Ensuring"
      /\ UNCHANGED <<highWater, issued, nextID, remaining, stopping, worker, taken, drained>>
  BY DEF EnsureReserves, durable, lease
<1>2. /\ queue' \in Seq(Writes) /\ QueueInv' /\ (PublicationQueued' <=> PublicationQueued)
      /\ mutex' = Publisher /\ granted' = NoMark
  <2>1. SizeFor(Publisher) = ReservationSize(EnsuredSize)
    BY DEF SizeFor
  <2> QED
    BY <1>1, <2>1, ReserveQueue
<1>3. TypeOK'
  BY <1>1, <1>2, Known, Numbers DEF TypeOK
<1>4. IdentifiersIncrease' /\ IssuedBelowMark' /\ LeaseFresh' /\ GrantFresh' /\ HolderFoundNothing'
  BY <1>1, <1>2, Numbers, NamesAssumption DEF AllocatorInv, IdentifiersIncrease, IssuedBelowMark,
     LeaseFresh, GrantFresh, HolderFoundNothing, AllIssuedBelow
<1>5. OnePublication'
  BY <1>1, <1>2, NamesAssumption DEF AllocatorInv, OnePublication, QueueInv
<1>6. LeaseAccountedFor'
  BY <1>1, <1>2 DEF AllocatorInv, OnePublication, LeaseAccountedFor, PublicationUnderWay
<1> QED
  BY <1>2, <1>3, <1>4, <1>5, <1>6 DEF AllocatorInv, QueueInv

\* The granted range replaces the lease.
LEMMA EnsureGrantedInv ==
    ASSUME AllocatorInv, EnsureGranted
    PROVE  AllocatorInv'
<1>1. /\ publisher = "Ensuring" /\ granted >= 0 /\ nextID' = granted
      /\ remaining' = ReservationSize(EnsuredSize) /\ publisher' = "Ensured"
      /\ mutex' = None /\ granted' = NoMark
      /\ UNCHANGED <<highWater, issued, stopping, queue, worker, taken, drained>>
  BY DEF EnsureGranted, durable
<1>2. mutex = Publisher /\ SizeFor(mutex) = ReservationSize(EnsuredSize)
  BY <1>1 DEF AllocatorInv, OnePublication, SizeFor
<1>3. granted + ReservationSize(EnsuredSize) - 1 <= highWater /\ AllIssuedBelow(granted)
  BY <1>1, <1>2 DEF AllocatorInv, GrantFresh
<1>4. TypeOK'
  <2>1. remaining' \in 0..Larger(EnsuredSize, LeaseSize)
    BY <1>1, Numbers
  <2>2. nextID' \in NoMark..LastIdentifier
    BY <1>1, Known, Numbers, SMTT(30) DEF TypeOK
  <2> QED
    BY <1>1, <2>1, <2>2, Known, Numbers DEF TypeOK
<1>5. IdentifiersIncrease' /\ IssuedBelowMark'
  BY <1>1 DEF AllocatorInv, IdentifiersIncrease, IssuedBelowMark
<1>6. LeaseFresh'
  BY <1>1, <1>3 DEF LeaseFresh, AllIssuedBelow
<1>7. GrantFresh' /\ HolderFoundNothing'
  BY <1>1, Numbers, NamesAssumption DEF GrantFresh, HolderFoundNothing
<1>8. AwaitedByHolder' /\ AwaitedOnce'
  <2>1. \A i \in DOMAIN queue : ~ Awaited(i)
    BY <1>1, Known, Numbers DEF QueueInv, AwaitedByHolder
  <2> QED
    BY <1>1, <2>1 DEF AwaitedByHolder, AwaitedOnce, Awaited
<1>9. OnePublication'
  BY <1>1, <1>2, NamesAssumption DEF AllocatorInv, OnePublication, QueuedOnce, PublicationQueued
<1>10. LeaseAccountedFor'
  <2>1. remaining' >= EnsuredSize /\ remaining' \in Nat
    BY <1>1, Numbers
  <2>2. remaining' + drained' + taken' >= EnsuredSize
    BY <1>1, <2>1, Known, Numbers, SMTT(30)
  <2> QED
    BY <1>1, <2>2 DEF AllocatorInv, LeaseAccountedFor
<1> QED
  BY <1>4, <1>5, <1>6, <1>7, <1>8, <1>9, <1>10 DEF AllocatorInv

\* The publisher goes away without it.
LEMMA EnsureFailsInv ==
    ASSUME AllocatorInv, EnsureFails
    PROVE  AllocatorInv'
<1>1. /\ publisher = "Ensuring" /\ Unreserved(Publisher)
      /\ publisher' = IF stopping THEN "Stopped" ELSE "Idle"
      /\ UNCHANGED <<stopping, worker, taken, drained>>
  BY DEF EnsureFails
<1>2. mutex = Publisher /\ worker = "Free" /\ ~ PublicationQueued
  BY <1>1 DEF AllocatorInv, OnePublication
<1>3. /\ queue' \in Seq(Writes) /\ QueueInv' /\ (PublicationQueued' <=> PublicationQueued)
      /\ mutex' = None /\ granted' = NoMark
      /\ UNCHANGED <<highWater, issued, nextID, remaining>>
      /\ IdentifiersIncrease' /\ IssuedBelowMark' /\ LeaseFresh' /\ GrantFresh'
      /\ HolderFoundNothing'
  BY <1>1, <1>2, UnreservedFacts
<1>4. TypeOK'
  BY <1>1, <1>3, Known, Numbers DEF TypeOK
<1>5. OnePublication'
  BY <1>1, <1>2, <1>3, NamesAssumption DEF OnePublication, QueueInv
<1>6. LeaseAccountedFor'
  BY <1>1, <1>2, <1>3 DEF AllocatorInv, LeaseAccountedFor, PublicationUnderWay
<1> QED
  BY <1>3, <1>4, <1>5, <1>6 DEF AllocatorInv, QueueInv

\* Steps that leave the identifiers and the reservations alone.
Untouched == <<highWater, issued, nextID, remaining, mutex, granted>>

\* The parts of the invariant that speak of the lease and of what was issued.
LEMMA UntouchedFacts ==
    ASSUME AllocatorInv, UNCHANGED Untouched
    PROVE  /\ IdentifiersIncrease' /\ IssuedBelowMark' /\ LeaseFresh' /\ GrantFresh'
           /\ HolderFoundNothing'
  BY DEF AllocatorInv, Untouched, IdentifiersIncrease, IssuedBelowMark, LeaseFresh, GrantFresh,
     HolderFoundNothing, AllIssuedBelow, SizeFor

\* The publication goes to the queue with the lease it ensured.
LEMMA SubmitInv ==
    ASSUME AllocatorInv, Submit
    PROVE  AllocatorInv'
<1>1. /\ publisher = "Ensured" /\ worker = "Free" /\ taken = 0 /\ ~ PublicationQueued
      /\ remaining + drained + taken >= EnsuredSize
      /\ UNCHANGED <<Untouched, stopping, worker, taken>>
  BY DEF Submit, AllocatorInv, OnePublication, LeaseAccountedFor, PublicationUnderWay,
     Untouched, durable, lease
<1>2. /\ IdentifiersIncrease' /\ IssuedBelowMark' /\ LeaseFresh' /\ GrantFresh'
      /\ HolderFoundNothing'
  BY <1>1, UntouchedFacts
<1>3. CASE publisher' = "Publishing" /\ queue' = Append(queue, Publication) /\ UNCHANGED drained
  <2>1. Publication \in Writes /\ IsPublication(Publication)
    BY SizesAssumption DEF Publication, Reservation, Writes, IsPublication
  <2>2. /\ queue' \in Seq(Writes)
        /\ Len(queue) + 1 \in DOMAIN queue' /\ queue'[Len(queue) + 1] = Publication
        /\ \A i \in DOMAIN queue : i \in DOMAIN queue' /\ queue'[i] = queue[i]
        /\ \A i \in DOMAIN queue' : i \in DOMAIN queue \/ i = Len(queue) + 1
    BY <1>3, <2>1, Appended, Known
  <2>3. TypeOK'
    BY <1>1, <1>3, <2>2, Known DEF TypeOK, Untouched
  <2>4. \A i \in DOMAIN queue' : Awaited(i)' => i \in DOMAIN queue /\ Awaited(i) /\ queue'[i] = queue[i]
    BY <2>1, <2>2 DEF Awaited
  <2>5. AwaitedByHolder' /\ AwaitedOnce'
    BY <1>1, <2>4, Known DEF QueueInv, AwaitedByHolder, AwaitedOnce, SizeFor, Untouched
  <2>6. QueuedOnce'
    BY <1>1, <2>2 DEF QueuedOnce, PublicationQueued
  <2>7. OnePublication'
    BY <1>1, <1>3, <2>6, NamesAssumption DEF AllocatorInv, OnePublication, Untouched
  <2>8. LeaseAccountedFor'
    BY <1>1, <1>3 DEF LeaseAccountedFor, Untouched
  <2> QED
    BY <1>2, <2>3, <2>5, <2>7, <2>8 DEF AllocatorInv
<1>4. CASE publisher' = "Idle" /\ drained' = 0 /\ UNCHANGED queue
  <2>1. TypeOK'
    BY <1>1, <1>4, Known DEF TypeOK, Untouched
  <2>2. AwaitedByHolder' /\ AwaitedOnce' /\ OnePublication' /\ ~ PublicationQueued'
    BY <1>1, <1>4 DEF AllocatorInv, AwaitedByHolder, AwaitedOnce, OnePublication, QueuedOnce,
       PublicationQueued, Awaited, SizeFor, Untouched
  <2>3. LeaseAccountedFor'
    BY <1>1, <1>4, <2>2 DEF LeaseAccountedFor, PublicationUnderWay
  <2> QED
    BY <1>2, <2>1, <2>2, <2>3 DEF AllocatorInv
<1> QED
  BY <1>3, <1>4 DEF Submit

\* The shutdown begins, or the transaction is about to allocate.
LEMMA StopOrLocksInv ==
    ASSUME AllocatorInv, Stop \/ TransactionLocks
    PROVE  AllocatorInv'
<1>1. /\ UNCHANGED <<Untouched, publisher, queue, taken, drained>>
      /\ \/ stopping' = TRUE /\ worker' = worker
         \/ /\ worker = "Publishing" /\ worker' = "Locking" /\ taken < MaxTaken
            /\ stopping' = stopping
  BY DEF Stop, TransactionLocks, Untouched, durable, lease
<1>2. /\ IdentifiersIncrease' /\ IssuedBelowMark' /\ LeaseFresh' /\ GrantFresh'
      /\ HolderFoundNothing'
  BY <1>1, UntouchedFacts
<1>3. TypeOK'
  BY <1>1, Known DEF TypeOK, Untouched
<1>4. AwaitedByHolder' /\ AwaitedOnce' /\ OnePublication' /\ (PublicationQueued' <=> PublicationQueued)
  BY <1>1 DEF AllocatorInv, AwaitedByHolder, AwaitedOnce, OnePublication, QueuedOnce,
     PublicationQueued, Awaited, SizeFor, Untouched
<1>5. LeaseAccountedFor'
  BY <1>1, <1>4 DEF AllocatorInv, LeaseAccountedFor, PublicationUnderWay, Untouched
<1> QED
  BY <1>2, <1>3, <1>4, <1>5 DEF AllocatorInv

\* The publisher goes away; its publication stays in the queue.
LEMMA PublisherStopsInv ==
    ASSUME AllocatorInv, PublisherStops
    PROVE  AllocatorInv'
<1>1. /\ stopping /\ publisher = "Publishing" /\ publisher' = "Stopped" /\ Abandon(Publisher)
      /\ UNCHANGED <<Untouched, stopping, worker, taken, drained>>
  BY DEF PublisherStops, Untouched, durable, lease
<1>2. /\ IdentifiersIncrease' /\ IssuedBelowMark' /\ LeaseFresh' /\ GrantFresh'
      /\ HolderFoundNothing'
  BY <1>1, UntouchedFacts
<1>3. mutex # Publisher
  BY <1>1 DEF AllocatorInv, OnePublication
<1>4. queue' \in Seq(Writes) /\ QueueInv' /\ (PublicationQueued' <=> PublicationQueued)
  BY <1>1, <1>3, AbandonQueue DEF Untouched
<1>5. TypeOK'
  BY <1>1, <1>4, Known DEF TypeOK, Untouched
<1>6. OnePublication'
  BY <1>1, <1>3, <1>4 DEF AllocatorInv, OnePublication, QueueInv, Untouched
<1>7. LeaseAccountedFor'
  BY <1>1, <1>4 DEF AllocatorInv, LeaseAccountedFor, PublicationUnderWay, Untouched
<1> QED
  BY <1>2, <1>4, <1>5, <1>6, <1>7 DEF AllocatorInv, QueueInv

\* The worker raises the mark and grants what lies between the old mark and the new one.
LEMMA GrantReservationInv ==
    ASSUME AllocatorInv, GrantReservation
    PROVE  AllocatorInv'
<1> DEFINE write == Head(queue)
           first == FirstFree(write.now)
<1>1. /\ worker = "Free" /\ queue # <<>> /\ queue' = Tail(queue) /\ ~ IsPublication(write)
      /\ first + write.count - 1 <= LastIdentifier /\ highWater' = first + write.count - 1
      /\ granted' = IF write.by = None THEN granted ELSE first
      /\ UNCHANGED <<issued, nextID, remaining, mutex, publisher, stopping, worker, taken, drained>>
  BY DEF GrantReservation, Answer, Mark, InRange, lease
<1>2. queue \in Seq(Writes) /\ write = queue[1] /\ 1 \in DOMAIN queue /\ write \in Writes
  BY <1>1, Received, Known
<1>3. write.now \in 0..MaxTimestamp /\ write.count \in Nat /\ write.count >= 1
  <2>1. write.now \in 0..MaxTimestamp /\ write.count \in {0, LeaseSize, Larger(EnsuredSize, LeaseSize)}
    BY <1>2 DEF Writes
  <2> QED
    BY <1>1, <2>1, Numbers, SMTT(30) DEF IsPublication
<1>4. first \in Nat /\ first > highWater
  <2>1. Compose(write.now, 0) \in Nat
    BY <1>3, Numbers
  <2> QED
    BY <2>1, Known DEF FirstFree, Successor
<1> HIDE DEF first, write
<1>5. highWater' \in Int /\ highWater' >= first /\ highWater' > highWater
  <2>1. highWater' = first + write.count - 1 /\ highWater \in Int
    BY <1>1, Ranges
  <2> QED
    BY <1>3, <1>4, <2>1
<1>6. write.by # None => Awaited(1) /\ mutex = write.by /\ write.count = SizeFor(mutex)
  BY <1>1, <1>2, Known DEF QueueInv, AwaitedByHolder, Awaited
<1>7. /\ queue' \in Seq(Writes) /\ QueueInv' /\ (PublicationQueued' => PublicationQueued)
  <2>1. granted' = granted \/ (Awaited(1) /\ granted' # NoMark)
    BY <1>1, <1>4, <1>6, Numbers
  <2> QED
    BY <1>1, <2>1, ReceiveQueue
<1>8. TypeOK'
  <2>1. /\ LastIdentifier \in Int /\ NoMark = -1 /\ Failure = -2
        /\ granted \in Failure..LastIdentifier /\ highWater \in NoMark..LastIdentifier
    BY Known, Numbers DEF NoMark, Failure, TypeOK
  <2>2. highWater' <= LastIdentifier
    BY <1>1
  <2>3. highWater' \in NoMark..LastIdentifier
    BY <1>5, <2>1, <2>2
  <2>4. first \in Failure..LastIdentifier
    BY <1>4, <1>5, <2>1, <2>2
  <2>5. granted' \in Failure..LastIdentifier
    BY <1>1, <2>1, <2>4
  <2> QED
    BY <1>1, <1>7, <2>3, <2>5, Known DEF TypeOK
<1>9. /\ IdentifiersIncrease' /\ IssuedBelowMark'
      /\ \A identifier : AllIssuedBelow(identifier) => \A i \in DOMAIN issued' : issued'[i] < identifier
  BY <1>1, <1>5, HistoryKept, Known, SMTT(30)
<1>10. LeaseFresh'
  BY <1>1, <1>5, <1>9, Known, SMTT(30) DEF AllocatorInv, LeaseFresh, AllIssuedBelow
<1>11. GrantFresh'
  <2> SUFFICES ASSUME granted' >= 0
               PROVE  /\ mutex' # None /\ granted' + SizeFor(mutex)' - 1 <= highWater'
                      /\ AllIssuedBelow(granted)'
    BY DEF GrantFresh
  <2>1. SizeFor(mutex)' = SizeFor(mutex) /\ SizeFor(mutex) \in Nat
    BY <1>1, Numbers DEF SizeFor
  <2>2. CASE write.by = None
    <3>1. granted' = granted /\ mutex # None /\ granted + SizeFor(mutex) - 1 <= highWater
          /\ AllIssuedBelow(granted)
      BY <1>1, <2>2 DEF AllocatorInv, GrantFresh
    <3>2. AllIssuedBelow(granted)'
      BY <1>9, <3>1 DEF AllIssuedBelow
    <3> QED
      BY <1>1, <1>5, <2>1, <3>1, <3>2, Known, SMTT(30)
  <2>3. CASE write.by # None
    <3>1. granted' = first /\ highWater' = first + SizeFor(mutex) - 1 /\ mutex # None
      BY <1>1, <1>6, <2>3
    <3>2. \A i \in DOMAIN issued : issued[i] \in Int /\ issued[i] <= highWater
      BY IssuedNumbers DEF AllocatorInv, IssuedBelowMark
    <3>3. AllIssuedBelow(granted)'
      BY <1>1, <1>4, <3>1, <3>2, Known DEF AllIssuedBelow
    <3> QED
      BY <1>1, <1>4, <2>1, <3>1, <3>3
  <2> QED
    BY <2>2, <2>3
<1>12. HolderFoundNothing' /\ OnePublication' /\ LeaseAccountedFor'
  BY <1>1, <1>7 DEF AllocatorInv, HolderFoundNothing, OnePublication, QueueInv, LeaseAccountedFor,
     PublicationUnderWay
<1> QED
  BY <1>7, <1>8, <1>9, <1>10, <1>11, <1>12 DEF AllocatorInv, QueueInv

\* A refused reservation is answered and changes no mark.
LEMMA RefuseReservationInv ==
    ASSUME AllocatorInv, RefuseReservation
    PROVE  AllocatorInv'
<1>1. /\ worker = "Free" /\ queue # <<>> /\ queue' = Tail(queue) /\ ~ IsPublication(Head(queue))
      /\ granted' = IF Head(queue).by = None THEN granted ELSE Failure
      /\ UNCHANGED <<highWater, issued, nextID, remaining, mutex, publisher, stopping, worker,
                     taken, drained>>
  BY DEF RefuseReservation, Answer, durable, lease
<1>2. Head(queue) = queue[1]
  BY <1>1, Received, Known
<1>3. /\ queue' \in Seq(Writes) /\ QueueInv' /\ (PublicationQueued' => PublicationQueued)
  <2>1. granted' = granted \/ (Awaited(1) /\ granted' # NoMark)
    BY <1>1, <1>2, Numbers DEF Awaited
  <2> QED
    BY <1>1, <2>1, ReceiveQueue
<1>4. TypeOK'
  BY <1>1, <1>3, Known, Numbers DEF TypeOK
<1>5. IdentifiersIncrease' /\ IssuedBelowMark' /\ LeaseFresh' /\ HolderFoundNothing'
  BY <1>1 DEF AllocatorInv, IdentifiersIncrease, IssuedBelowMark, LeaseFresh, HolderFoundNothing,
     AllIssuedBelow
<1>6. GrantFresh'
  BY <1>1, Numbers DEF AllocatorInv, GrantFresh, AllIssuedBelow, SizeFor
<1>7. OnePublication' /\ LeaseAccountedFor'
  BY <1>1, <1>3 DEF AllocatorInv, OnePublication, QueueInv, LeaseAccountedFor, PublicationUnderWay
<1> QED
  BY <1>3, <1>4, <1>5, <1>6, <1>7 DEF AllocatorInv, QueueInv

\* The publication moves from the queue to the worker.
LEMMA BeginPublicationInv ==
    ASSUME AllocatorInv, BeginPublication
    PROVE  AllocatorInv'
<1>1. /\ worker = "Free" /\ queue # <<>> /\ queue' = Tail(queue) /\ IsPublication(Head(queue))
      /\ worker' = "Publishing"
      /\ UNCHANGED <<Untouched, publisher, stopping, taken, drained>>
  BY DEF BeginPublication, Untouched, durable, lease
<1>2. /\ queue' \in Seq(Writes) /\ QueueInv' /\ PublicationQueued /\ ~ PublicationQueued'
  BY <1>1, ReceiveQueue DEF Untouched
<1>3. /\ IdentifiersIncrease' /\ IssuedBelowMark' /\ LeaseFresh' /\ GrantFresh'
      /\ HolderFoundNothing'
  BY <1>1, UntouchedFacts
<1>4. TypeOK'
  BY <1>1, <1>2, Known DEF TypeOK, Untouched
<1>5. OnePublication'
  BY <1>1, <1>2, NamesAssumption DEF AllocatorInv, OnePublication, QueueInv, Untouched
<1>6. LeaseAccountedFor'
  BY <1>1, <1>2 DEF AllocatorInv, LeaseAccountedFor, PublicationUnderWay, Untouched
<1> QED
  BY <1>2, <1>3, <1>4, <1>5, <1>6 DEF AllocatorInv, QueueInv

\* A publication without a lease reserves one, and waits for itself.
LEMMA TransactionReservesInv ==
    ASSUME AllocatorInv, TransactionReserves
    PROVE  AllocatorInv'
<1>1. /\ worker = "Locking" /\ mutex = None /\ remaining = 0 /\ Reserve(Writer, LeaseSize)
      /\ worker' = "SelfWaiting"
      /\ UNCHANGED <<highWater, issued, nextID, remaining, publisher, stopping, taken, drained>>
  BY DEF TransactionReserves, durable, lease
<1>2. /\ queue' \in Seq(Writes) /\ QueueInv' /\ (PublicationQueued' <=> PublicationQueued)
      /\ mutex' = Writer /\ granted' = NoMark
  <2>1. SizeFor(Writer) = LeaseSize
    BY NamesAssumption DEF SizeFor
  <2> QED
    BY <1>1, <2>1, ReserveQueue
<1>3. TypeOK'
  BY <1>1, <1>2, Known, Numbers DEF TypeOK
<1>4. IdentifiersIncrease' /\ IssuedBelowMark' /\ LeaseFresh' /\ GrantFresh' /\ HolderFoundNothing'
  BY <1>1, <1>2, Numbers DEF AllocatorInv, IdentifiersIncrease, IssuedBelowMark,
     LeaseFresh, GrantFresh, HolderFoundNothing, AllIssuedBelow
<1>5. OnePublication'
  BY <1>1, <1>2, NamesAssumption DEF AllocatorInv, OnePublication, QueueInv
<1>6. LeaseAccountedFor'
  BY <1>1, <1>2 DEF AllocatorInv, LeaseAccountedFor, PublicationUnderWay
<1> QED
  BY <1>2, <1>3, <1>4, <1>5, <1>6 DEF AllocatorInv, QueueInv

\* A publication ends.
LEMMA TransactionEndsInv ==
    ASSUME AllocatorInv, TransactionEnds
    PROVE  AllocatorInv'
<1>1. /\ worker \in {"Publishing", "Locking"} /\ worker' = "Free" /\ taken' = 0 /\ drained' = 0
      /\ publisher' = IF publisher = "Publishing" THEN "Idle" ELSE publisher
      /\ UNCHANGED <<Untouched, stopping, queue>>
  BY DEF TransactionEnds, EndPublication, Untouched, durable, lease
<1>2. /\ ~ PublicationQueued /\ publisher \in {"Publishing", "Stopped"} /\ mutex \notin {Publisher, Writer}
  BY <1>1 DEF AllocatorInv, TypeOK, OnePublication
<1>3. /\ IdentifiersIncrease' /\ IssuedBelowMark' /\ LeaseFresh' /\ GrantFresh'
      /\ HolderFoundNothing'
  BY <1>1, UntouchedFacts
<1>4. TypeOK'
  BY <1>1, Known, SizesAssumption DEF TypeOK, Untouched
<1>5. AwaitedByHolder' /\ AwaitedOnce' /\ QueuedOnce' /\ ~ PublicationQueued'
  BY <1>1, <1>2 DEF AllocatorInv, AwaitedByHolder, AwaitedOnce, OnePublication, QueuedOnce,
     PublicationQueued, Awaited, SizeFor, Untouched
<1>6. OnePublication'
  BY <1>1, <1>2, <1>5 DEF AllocatorInv, OnePublication, Untouched
<1>7. LeaseAccountedFor'
  BY <1>1, <1>2, <1>5 DEF LeaseAccountedFor, PublicationUnderWay
<1> QED
  BY <1>3, <1>4, <1>5, <1>6, <1>7 DEF AllocatorInv

\* A publication that waits for itself ends with its context.
LEMMA TransactionGivesUpInv ==
    ASSUME AllocatorInv, TransactionGivesUp
    PROVE  AllocatorInv'
<1>1. /\ worker = "SelfWaiting" /\ worker' = "Free" /\ taken' = 0 /\ drained' = 0
      /\ publisher' = IF publisher = "Publishing" THEN "Idle" ELSE publisher
      /\ Unreserved(Writer) /\ UNCHANGED stopping
  BY DEF TransactionGivesUp, EndPublication
<1>2. mutex = Writer /\ ~ PublicationQueued /\ publisher \in {"Publishing", "Stopped"}
  BY <1>1 DEF AllocatorInv, TypeOK, OnePublication
<1>3. /\ queue' \in Seq(Writes) /\ QueueInv' /\ (PublicationQueued' <=> PublicationQueued)
      /\ mutex' = None /\ granted' = NoMark
      /\ UNCHANGED <<highWater, issued, nextID, remaining>>
      /\ IdentifiersIncrease' /\ IssuedBelowMark' /\ LeaseFresh' /\ GrantFresh'
      /\ HolderFoundNothing'
  BY <1>1, <1>2, UnreservedFacts
<1>4. TypeOK'
  BY <1>1, <1>3, Known, Numbers, SizesAssumption DEF TypeOK
<1>5. OnePublication'
  BY <1>1, <1>2, <1>3, NamesAssumption DEF AllocatorInv, OnePublication, QueueInv
<1>6. LeaseAccountedFor'
  BY <1>1, <1>2, <1>3 DEF LeaseAccountedFor, PublicationUnderWay
<1> QED
  BY <1>3, <1>4, <1>5, <1>6 DEF AllocatorInv, QueueInv

\* A crash forgets the lease, never the mark.
LEMMA CrashInv ==
    ASSUME AllocatorInv, Crash
    PROVE  AllocatorInv'
<1>1. queue' = <<>> /\ DOMAIN queue' = {} /\ UNCHANGED <<highWater, issued>>
  BY DEF Crash, durable
<1>2. TypeOK'
  <2>1. remaining' \in 0..Larger(EnsuredSize, LeaseSize) /\ taken' \in 0..MaxTaken
    BY SizesAssumption DEF Crash, Larger
  <2>2. nextID' \in NoMark..LastIdentifier /\ granted' \in Failure..LastIdentifier
    BY Numbers DEF Crash
  <2>3. queue' \in Seq(Writes)
    BY <1>1
  <2> QED
    BY <1>1, <2>1, <2>2, <2>3, Known DEF Crash, TypeOK
<1>3. IdentifiersIncrease' /\ IssuedBelowMark' /\ LeaseFresh'
  BY <1>1 DEF AllocatorInv, Crash, IdentifiersIncrease, IssuedBelowMark, LeaseFresh
<1>4. GrantFresh' /\ HolderFoundNothing'
  BY Numbers, NamesAssumption DEF Crash, GrantFresh, HolderFoundNothing
<1>5. AwaitedByHolder' /\ AwaitedOnce' /\ OnePublication' /\ LeaseAccountedFor'
  BY <1>1, NamesAssumption DEF Crash, AwaitedByHolder, AwaitedOnce, OnePublication, QueuedOnce,
     PublicationQueued, LeaseAccountedFor, PublicationUnderWay
<1> QED
  BY <1>2, <1>3, <1>4, <1>5 DEF AllocatorInv

\* Nothing happens.
LEMMA StutterInv ==
    ASSUME AllocatorInv, UNCHANGED vars
    PROVE  AllocatorInv'
<1>1. UNCHANGED <<Untouched, publisher, stopping, queue, worker, taken, drained>>
  BY DEF vars, durable, lease, Untouched
<1>2. /\ IdentifiersIncrease' /\ IssuedBelowMark' /\ LeaseFresh' /\ GrantFresh'
      /\ HolderFoundNothing'
  BY <1>1, UntouchedFacts
<1>3. TypeOK'
  BY <1>1, Known DEF TypeOK, Untouched
<1>4. AwaitedByHolder' /\ AwaitedOnce' /\ OnePublication' /\ (PublicationQueued' <=> PublicationQueued)
  BY <1>1 DEF AllocatorInv, AwaitedByHolder, AwaitedOnce, OnePublication, QueuedOnce,
     PublicationQueued, Awaited, SizeFor, Untouched
<1>5. LeaseAccountedFor'
  BY <1>1, <1>4 DEF AllocatorInv, LeaseAccountedFor, PublicationUnderWay, Untouched
<1> QED
  BY <1>2, <1>3, <1>4, <1>5 DEF AllocatorInv

-----------------------------------------------------------------------------

\* The inductive invariant of the allocator holds for all sizes of leases, ranges of the
\* clock and sets of callers: PersistentAllocator.Next and Ensure, ReserveIDRange and
\* PublishSnapshot keep it, and so does a crash between any two of their steps.
THEOREM AllocatorInvariant == Spec => []AllocatorInv
<1>1. AllocatorInv /\ [Next]_vars => AllocatorInv'
  <2> SUFFICES ASSUME AllocatorInv, [Next]_vars PROVE AllocatorInv'
    OBVIOUS
  <2>1. CASE NextFromLease
    BY <2>1, NextFromLeaseInv
  <2>2. ASSUME NEW c \in Callers, CallerNext(c) PROVE AllocatorInv'
    BY <2>2, NextReservesInv, NextGrantedInv, NextFailsInv DEF CallerNext
  <2>3. CASE Publish
    BY <2>3, EnsureKeepsLeaseInv, EnsureReservesInv, EnsureGrantedInv, EnsureFailsInv,
       SubmitInv, StopOrLocksInv, PublisherStopsInv DEF Publish
  <2>4. CASE Work
    BY <2>4, GrantReservationInv, RefuseReservationInv, BeginPublicationInv, StopOrLocksInv,
       TransactionTakesInv, TransactionReservesInv, TransactionEndsInv, TransactionGivesUpInv
       DEF Work
  <2>5. CASE Crash
    BY <2>5, CrashInv
  <2>6. CASE UNCHANGED vars
    BY <2>6, StutterInv
  <2> QED
    BY <2>1, <2>2, <2>3, <2>4, <2>5, <2>6 DEF Next
<1> QED
  BY <1>1, InitOK, PTL DEF Spec

\* No identifier is handed out twice: PersistentAllocator.Next returns increasing
\* identifiers across clock changes, abandoned reservations and restarts.
THEOREM IdentifiersNeverRepeat == Spec => []IdentifiersIncrease
<1>1. AllocatorInv => IdentifiersIncrease
  BY DEF AllocatorInv
<1> QED
  BY <1>1, AllocatorInvariant, PTL

\* Whatever PersistentAllocator.Next has returned is below the mark that ReserveIDRange
\* has committed.
THEOREM MarkCoversIssued == Spec => []IssuedBelowMark
<1>1. AllocatorInv => IssuedBelowMark
  BY DEF AllocatorInv
<1> QED
  BY <1>1, AllocatorInvariant, PTL

\* Next inside the transaction of publishSnapshot needs no reservation, and waits for
\* nobody, as long as callers have taken no more than the slack.
THEOREM PublicationNeverStarves == Spec => []WriterFindsLease
<1>1. AllocatorInv => WriterFindsLease
  <2> SUFFICES ASSUME AllocatorInv, worker # "Free", taken < MaxTaken, mutex # None \/ remaining = 0
               PROVE  drained > Slack
    BY DEF WriterFindsLease
  <2>1. remaining = 0
    <3>1. mutex # Publisher
      BY DEF AllocatorInv, OnePublication
    <3> QED
      BY <3>1 DEF AllocatorInv, TypeOK, HolderFoundNothing
  <2>2. remaining + drained + taken >= EnsuredSize
    BY DEF AllocatorInv, LeaseAccountedFor, PublicationUnderWay
  <2> QED
    BY <2>1, <2>2, Known, SizesAssumption DEF Slack
<1> QED
  BY <1>1, AllocatorInvariant, PTL

=============================================================================
