-------------------------- MODULE WriteQueueProofs --------------------------
(***************************************************************************)
(* Proofs that the write queue keeps its safety promises for every set of  *)
(* callers and every capacity.  The invariant WriteInv says where each     *)
(* write is; every action moves one write from one place to the next.      *)
(***************************************************************************)
EXTENDS WriteQueue, TLAPS

(* What a send and a receive do to the channel. *)

InSeq(s, c) == \E i \in DOMAIN s : s[i] = c
Once(s) == \A i, j \in DOMAIN s : s[i] = s[j] => i = j

\* Appending a caller that is not in the queue.
LEMMA AppendFacts ==
    ASSUME NEW s \in Seq(Callers), NEW c \in Callers, Once(s), ~ InSeq(s, c),
           NEW t, t = Append(s, c)
    PROVE  /\ t \in Seq(Callers) /\ Len(t) = Len(s) + 1 /\ t # <<>>
           /\ Once(t)
           /\ \A d : InSeq(t, d) <=> InSeq(s, d) \/ d = c
<1>1. t \in Seq(Callers) /\ Len(t) = Len(s) + 1 /\ DOMAIN t = 1..(Len(s) + 1)
      /\ DOMAIN s = 1..Len(s) /\ Len(s) \in Nat
  OBVIOUS
<1>2. t[Len(s) + 1] = c /\ \A i \in 1..Len(s) : t[i] = s[i]
  OBVIOUS
<1>3. \A d : InSeq(t, d) <=> InSeq(s, d) \/ d = c
  <2>1. ASSUME NEW d, InSeq(s, d) PROVE InSeq(t, d)
    <3>1. PICK i \in 1..Len(s) : s[i] = d
      BY <1>1, <2>1 DEF InSeq
    <3> QED
      BY <1>1, <1>2, <3>1 DEF InSeq
  <2>2. InSeq(t, c)
    BY <1>1, <1>2 DEF InSeq
  <2>3. ASSUME NEW d, InSeq(t, d), d # c PROVE InSeq(s, d)
    <3>1. PICK i \in 1..(Len(s) + 1) : t[i] = d
      BY <1>1, <2>3 DEF InSeq
    <3>2. i \in 1..Len(s)
      BY <1>1, <1>2, <2>3, <3>1
    <3> QED
      BY <1>1, <1>2, <3>1, <3>2 DEF InSeq
  <2> QED
    BY <2>1, <2>2, <2>3
<1>4. Once(t)
  BY <1>1, <1>2 DEF Once, InSeq
<1> QED
  BY <1>1, <1>3, <1>4

\* Taking the first caller from the queue.
LEMMA TailFacts ==
    ASSUME NEW s \in Seq(Callers), s # <<>>, Once(s), NEW t, t = Tail(s)
    PROVE  /\ t \in Seq(Callers) /\ Len(t) = Len(s) - 1
           /\ Head(s) \in Callers /\ InSeq(s, Head(s))
           /\ Once(t)
           /\ \A d : InSeq(t, d) <=> InSeq(s, d) /\ d # Head(s)
<1>1. /\ t \in Seq(Callers) /\ Len(t) = Len(s) - 1 /\ Len(s) \in Nat /\ Len(s) > 0
      /\ DOMAIN s = 1..Len(s) /\ DOMAIN t = 1..(Len(s) - 1)
  OBVIOUS
<1>2. Head(s) = s[1] /\ Head(s) \in Callers /\ \A i \in 1..(Len(s) - 1) : t[i] = s[i + 1]
  OBVIOUS
<1>3. InSeq(s, Head(s))
  BY <1>1, <1>2 DEF InSeq
<1>4. Once(t)
  BY <1>1, <1>2 DEF Once
<1>5. ASSUME NEW d, InSeq(t, d) PROVE InSeq(s, d) /\ d # Head(s)
  <2>1. PICK i \in 1..(Len(s) - 1) : t[i] = d
    BY <1>1, <1>5 DEF InSeq
  <2>2. i + 1 \in 1..Len(s) /\ s[i + 1] = d /\ i + 1 # 1
    BY <1>1, <1>2, <2>1
  <2>3. InSeq(s, d)
    BY <1>1, <2>2 DEF InSeq
  <2>4. d # s[1]
    BY <1>1, <2>2 DEF Once
  <2> QED
    BY <1>2, <2>3, <2>4
<1>6. ASSUME NEW d, InSeq(s, d), d # Head(s) PROVE InSeq(t, d)
  <2>1. PICK i \in 1..Len(s) : s[i] = d
    BY <1>1, <1>6 DEF InSeq
  <2>2. i - 1 \in 1..(Len(s) - 1) /\ t[i - 1] = d
    BY <1>1, <1>2, <1>6, <2>1
  <2> QED
    BY <1>1, <2>2 DEF InSeq
<1> QED
  BY <1>1, <1>2, <1>3, <1>4, <1>5, <1>6

\* The queue of the specification in the terms of the two lemmas above.
LEMMA QueueFacts ==
    /\ QueuedOnce <=> Once(queue)
    /\ \A c : Queued(c) <=> InSeq(queue, c)
BY DEF QueuedOnce, Once, Queued, InSeq

-----------------------------------------------------------------------------
(* The invariant, one lemma per action. *)

\* Nothing is queued when the worker starts.
LEMMA InitInv == Init => WriteInv
<1> SUFFICES ASSUME Init PROVE WriteInv
  OBVIOUS
<1> USE DEF Init
<1>1. TypeOK
  <2>1. queue \in Seq(Callers) /\ Len(queue) = 0
    OBVIOUS
  <2>2. QueueCapacity \in Nat /\ 0 <= QueueCapacity /\ slots \in 0..MaximumOutstanding
    BY CapacityAssumption DEF QueueCapacity, MaximumOutstanding
  <2>3. Len(queue) <= QueueCapacity
    BY <2>1, <2>2
  <2> QED
    BY <2>1, <2>2, <2>3 DEF TypeOK
<1>2. SlotsCountWrites /\ QueuedOnce /\ WorkerOK
  BY DEF SlotsCountWrites, InSend, InHand, QueuedOnce, WorkerOK
<1>3. \A c \in Callers : CallerOK(c)
  <2> SUFFICES ASSUME NEW c \in Callers PROVE CallerOK(c)
    OBVIOUS
  <2>1. ~ Queued(c) /\ ~ InProgress(c) /\ mutex # c
    BY NoneAssumption DEF Queued, InProgress
  <2> QED
    BY <2>1, NoneAssumption DEF CallerOK, Answers, Outcomes
<1> QED
  BY <1>1, <1>2, <1>3 DEF WriteInv

\* A step that leaves the queue and the worker alone keeps everything but the callers.
LEMMA CallerStep ==
    ASSUME WriteInv, TypeOK', UNCHANGED <<queue, slots, mutex, worker, current, closed,
                                          storeClosed>>,
           \A c \in Callers : CallerOK(c)'
    PROVE  WriteInv'
BY DEF WriteInv, SlotsCountWrites, InSend, InHand, QueuedOnce, WorkerOK

\* A refused caller has taken no slot.
LEMMA RefusedInv ==
    ASSUME WriteInv, NEW c \in Callers, RefuseClosed(c) \/ RefuseFull(c)
    PROVE  WriteInv'
<1> USE DEF RefuseClosed, RefuseFull, channels, Return
<1>1. TypeOK'
  BY DEF WriteInv, TypeOK, Answers, Outcomes
<1>2. \A d \in Callers : CallerOK(d)'
  <2> SUFFICES ASSUME NEW d \in Callers PROVE CallerOK(d)'
    OBVIOUS
  <2>1. CallerOK(d) /\ (Queued(d)' <=> Queued(d)) /\ (InProgress(d)' <=> InProgress(d))
    BY DEF WriteInv, Queued, InProgress
  <2> QED
    BY <2>1, NoneAssumption DEF WriteInv, TypeOK, CallerOK, Answers, Outcomes
<1> QED
  BY <1>1, <1>2, CallerStep

\* A caller receives its answer.
LEMMA ReceiveResultInv ==
    ASSUME WriteInv, NEW c \in Callers, ReceiveResult(c)
    PROVE  WriteInv'
<1> USE DEF ReceiveResult, channels, Return
<1>1. TypeOK'
  BY DEF WriteInv, TypeOK, Answers
<1>2. \A d \in Callers : CallerOK(d)'
  <2> SUFFICES ASSUME NEW d \in Callers PROVE CallerOK(d)'
    OBVIOUS
  <2>1. CallerOK(d) /\ (Queued(d)' <=> Queued(d)) /\ (InProgress(d)' <=> InProgress(d))
    BY DEF WriteInv, Queued, InProgress
  <2> QED
    BY <2>1, NoneAssumption DEF WriteInv, TypeOK, CallerOK, Answers, Outcomes
<1> QED
  BY <1>1, <1>2, CallerStep

\* A caller stops waiting; its write keeps its slot.
LEMMA GiveUpInv ==
    ASSUME WriteInv, NEW c \in Callers, GiveUp(c)
    PROVE  WriteInv'
<1> USE DEF GiveUp, GiveUpAs, channels, Return
<1>1. TypeOK'
  BY DEF WriteInv, TypeOK, Answers
<1>2. \A d \in Callers : CallerOK(d)'
  <2> SUFFICES ASSUME NEW d \in Callers PROVE CallerOK(d)'
    OBVIOUS
  <2>1. CallerOK(d) /\ (Queued(d)' <=> Queued(d)) /\ (InProgress(d)' <=> InProgress(d))
    BY DEF WriteInv, Queued, InProgress
  <2> QED
    BY <2>1, NoneAssumption DEF WriteInv, TypeOK, CallerOK, Answers
<1> QED
  BY <1>1, <1>2, CallerStep

\* A context ends.
LEMMA CancelInv ==
    ASSUME WriteInv, NEW c \in Callers, Cancel(c)
    PROVE  WriteInv'
<1> USE DEF Cancel, channels
<1>1. TypeOK'
  BY DEF WriteInv, TypeOK
<1>2. \A d \in Callers : CallerOK(d)'
  BY DEF WriteInv, CallerOK, Queued, InProgress
<1> QED
  BY <1>1, <1>2, CallerStep

\* A slot is taken under the mutex.
LEMMA TakeSlotInv ==
    ASSUME WriteInv, NEW c \in Callers, TakeSlot(c)
    PROVE  WriteInv'
<1> USE DEF TakeSlot
<1>1. TypeOK'
  BY CapacityAssumption DEF WriteInv, TypeOK, SlotFree, MaximumOutstanding
<1>2. SlotsCountWrites'
  <2>1. InSend = 0 /\ InSend' = 1 /\ InHand' = InHand /\ InHand \in Int
    BY NoneAssumption DEF InSend, InHand
  <2> QED
    BY <2>1 DEF WriteInv, TypeOK, SlotsCountWrites
<1>3. QueuedOnce' /\ WorkerOK'
  BY DEF WriteInv, QueuedOnce, WorkerOK
<1>4. \A d \in Callers : CallerOK(d)'
  <2> SUFFICES ASSUME NEW d \in Callers PROVE CallerOK(d)'
    OBVIOUS
  <2>1. CallerOK(d) /\ (Queued(d)' <=> Queued(d)) /\ (InProgress(d)' <=> InProgress(d))
    BY DEF WriteInv, Queued, InProgress
  <2> QED
    BY <2>1, NoneAssumption DEF WriteInv, TypeOK, CallerOK
<1> QED
  BY <1>1, <1>2, <1>3, <1>4 DEF WriteInv

\* The write goes to the channel, where its slot has room for it.
LEMMA SendInv ==
    ASSUME WriteInv, NEW c \in Callers, Send(c)
    PROVE  WriteInv'
<1> USE DEF Send
<1>1. CallerOK(c) /\ mutex = c /\ TypeOK /\ Once(queue) /\ ~ InSeq(queue, c)
  BY QueueFacts DEF WriteInv, CallerOK
<1>2. /\ queue' \in Seq(Callers) /\ Len(queue') = Len(queue) + 1 /\ queue' # <<>>
      /\ Once(queue')
      /\ \A d : InSeq(queue', d) <=> InSeq(queue, d) \/ d = c
  BY <1>1, AppendFacts DEF TypeOK
<1>3. QueuedOnce' /\ \A d : Queued(d)' <=> Queued(d) \/ d = c
  BY <1>2, QueueFacts DEF QueuedOnce, Once, Queued, InSeq
<1>4. TypeOK'
  BY <1>1, <1>2, CapacityAssumption DEF TypeOK, QueueCapacity, MaximumOutstanding
<1>5. SlotsCountWrites'
  <2>1. InSend = 1 /\ InSend' = 0 /\ InHand' = InHand /\ InHand \in Int
    BY <1>1, NoneAssumption DEF InSend, InHand
  <2> QED
    BY <1>1, <1>2, <2>1 DEF WriteInv, TypeOK, SlotsCountWrites
<1>6. WorkerOK'
  BY <1>1, NoneAssumption DEF WriteInv, WorkerOK
<1>7. \A d \in Callers : CallerOK(d)'
  <2> SUFFICES ASSUME NEW d \in Callers PROVE CallerOK(d)'
    OBVIOUS
  <2>1. CallerOK(d) /\ (InProgress(d)' <=> InProgress(d)) /\ (Queued(d)' <=> Queued(d) \/ d = c)
    BY <1>3 DEF WriteInv, InProgress
  <2> QED
    BY <1>1, <2>1, NoneAssumption DEF TypeOK, CallerOK
<1> QED
  BY <1>3, <1>4, <1>5, <1>6, <1>7 DEF WriteInv

\* A receive takes the head of the queue into the hand of the worker.
LEMMA ReceivedFacts ==
    ASSUME WriteInv, queue # <<>>, queue' = Tail(queue), current = None,
           current' = Head(queue), UNCHANGED <<slots, mutex>>
    PROVE  /\ Head(queue) \in Callers /\ Queued(Head(queue))
           /\ queue' \in Seq(Callers) /\ Len(queue') <= QueueCapacity
           /\ SlotsCountWrites' /\ QueuedOnce'
           /\ \A d : Queued(d)' <=> Queued(d) /\ d # Head(queue)
<1>1. TypeOK /\ Once(queue) /\ SlotsCountWrites
  BY QueueFacts DEF WriteInv
<1>2. /\ queue' \in Seq(Callers) /\ Len(queue') = Len(queue) - 1 /\ Len(queue) \in Nat
      /\ Head(queue) \in Callers /\ InSeq(queue, Head(queue))
      /\ Once(queue')
      /\ \A d : InSeq(queue', d) <=> InSeq(queue, d) /\ d # Head(queue)
  <2>1. queue \in Seq(Callers)
    BY <1>1 DEF TypeOK
  <2>2. Len(queue) \in Nat
    BY <2>1
  <2>3. /\ Tail(queue) \in Seq(Callers) /\ Len(Tail(queue)) = Len(queue) - 1
        /\ Head(queue) \in Callers /\ InSeq(queue, Head(queue))
        /\ Once(Tail(queue))
        /\ \A d : InSeq(Tail(queue), d) <=> InSeq(queue, d) /\ d # Head(queue)
    BY <1>1, <2>1, TailFacts
  <2> QED
    BY <2>2, <2>3
<1>3. Len(queue') <= QueueCapacity
  BY <1>1, <1>2, CapacityAssumption DEF TypeOK, QueueCapacity, MaximumOutstanding
<1>4. SlotsCountWrites'
  <2>1. InSend' = InSend /\ InSend \in Int /\ InHand = 0 /\ InHand' = 1
    BY <1>2, NoneAssumption DEF InSend, InHand
  <2> QED
    BY <1>1, <1>2, <2>1 DEF TypeOK, SlotsCountWrites
<1>5. QueuedOnce' /\ \A d : Queued(d)' <=> Queued(d) /\ d # Head(queue)
  BY <1>2 DEF QueuedOnce, Once, Queued, InSeq
<1> QED
  BY <1>2, <1>3, <1>4, <1>5, QueueFacts

\* The worker receives the first write.
LEMMA ReceiveWriteInv ==
    ASSUME WriteInv, ReceiveWrite
    PROVE  WriteInv'
<1> DEFINE c == Head(queue)
<1>1. /\ worker = "Selecting" /\ queue # <<>> /\ queue' = Tail(queue) /\ current' = c
      /\ UNCHANGED <<callers, slots, mutex, closed, storeClosed, committed>>
      /\ \/ /\ worker' = "Answered"
            /\ result' = [result EXCEPT ![c] = "Failed"]
         \/ worker' = "Running" /\ UNCHANGED result
  BY DEF ReceiveWrite, Reply
<1>2. current = None
  BY <1>1 DEF WriteInv, WorkerOK
<1>3. /\ c \in Callers /\ Queued(c)
      /\ queue' \in Seq(Callers) /\ Len(queue') <= QueueCapacity
      /\ SlotsCountWrites' /\ QueuedOnce'
      /\ \A d : Queued(d)' <=> Queued(d) /\ d # c
  BY <1>1, <1>2, ReceivedFacts
<1> HIDE DEF c
<1>4. TypeOK'
  BY <1>1, <1>3 DEF WriteInv, TypeOK, callers, Outcomes
<1>5. WorkerOK'
  <2>1. c # None /\ (closed => mutex = None) /\ ~ storeClosed
    BY <1>1, <1>3, NoneAssumption DEF WriteInv, WorkerOK
  <2> QED
    BY <1>1, <2>1 DEF WorkerOK
<1>6. \A d \in Callers : CallerOK(d)'
  <2> SUFFICES ASSUME NEW d \in Callers PROVE CallerOK(d)'
    OBVIOUS
  <2>1. CallerOK(d) /\ ~ InProgress(d) /\ (InProgress(d)' <=> worker' = "Running" /\ d = c)
    BY <1>1 DEF WriteInv, InProgress
  <2>2. Queued(d)' <=> Queued(d) /\ d # c
    BY <1>3
  <2>3. CASE d # c
    <3>1. result'[d] = result[d]
      BY <1>1, <2>3 DEF WriteInv, TypeOK
    <3> QED
      BY <1>1, <2>1, <2>2, <2>3, <3>1 DEF CallerOK, callers
  <2>4. CASE d = c
    <3>1. /\ result[d] = None /\ answer[d] \in {None, "Unknown"}
          /\ caller[d] \notin {"Idle", "Sending"}
          /\ ~ Queued(d)' /\ d \notin committed
      BY <1>3, <2>1, <2>2, <2>4, NoneAssumption DEF CallerOK, Outcomes, Answers
    <3>2. \/ result'[d] = "Failed" /\ ~ InProgress(d)'
          \/ result'[d] = None /\ InProgress(d)'
      BY <1>1, <2>1, <2>4, <3>1 DEF WriteInv, TypeOK
    <3> QED
      BY <1>1, <2>1, <3>1, <3>2, NoneAssumption DEF CallerOK, callers, Outcomes, Answers
  <2> QED
    BY <2>3, <2>4
<1> QED
  BY <1>3, <1>4, <1>5, <1>6 DEF WriteInv

\* The drain answers the first write.
LEMMA RejectQueuedInv ==
    ASSUME WriteInv, RejectQueued
    PROVE  WriteInv'
<1> DEFINE c == Head(queue)
<1>1. /\ worker = "Draining" /\ queue # <<>> /\ queue' = Tail(queue) /\ current' = c
      /\ UNCHANGED <<callers, slots, mutex, closed, storeClosed, committed>>
      /\ worker' = "Rejected"
      /\ result' = [result EXCEPT ![c] = "Refused"]
  BY DEF RejectQueued, Reply
<1>2. current = None
  BY <1>1 DEF WriteInv, WorkerOK
<1>3. /\ c \in Callers /\ Queued(c)
      /\ queue' \in Seq(Callers) /\ Len(queue') <= QueueCapacity
      /\ SlotsCountWrites' /\ QueuedOnce'
      /\ \A d : Queued(d)' <=> Queued(d) /\ d # c
  BY <1>1, <1>2, ReceivedFacts
<1> HIDE DEF c
<1>4. TypeOK'
  BY <1>1, <1>3 DEF WriteInv, TypeOK, callers, Outcomes
<1>5. WorkerOK'
  BY <1>1, <1>3, NoneAssumption DEF WriteInv, WorkerOK
<1>6. \A d \in Callers : CallerOK(d)'
  <2> SUFFICES ASSUME NEW d \in Callers PROVE CallerOK(d)'
    OBVIOUS
  <2>1. CallerOK(d) /\ ~ InProgress(d) /\ ~ InProgress(d)'
    BY <1>1 DEF WriteInv, InProgress
  <2>2. Queued(d)' <=> Queued(d) /\ d # c
    BY <1>3
  <2>3. CASE d # c
    <3>1. result'[d] = result[d]
      BY <1>1, <2>3 DEF WriteInv, TypeOK
    <3> QED
      BY <1>1, <2>1, <2>2, <2>3, <3>1 DEF CallerOK, callers
  <2>4. CASE d = c
    <3>1. /\ result[d] = None /\ answer[d] \in {None, "Unknown"}
          /\ caller[d] \notin {"Idle", "Sending"}
          /\ ~ Queued(d)' /\ d \notin committed
      BY <1>3, <2>1, <2>2, <2>4, NoneAssumption DEF CallerOK, Outcomes, Answers
    <3>2. result'[d] = "Refused"
      BY <1>1, <2>4 DEF WriteInv, TypeOK
    <3> QED
      BY <1>1, <2>1, <3>1, <3>2, NoneAssumption DEF CallerOK, callers, Outcomes, Answers
  <2> QED
    BY <2>3, <2>4
<1> QED
  BY <1>3, <1>4, <1>5, <1>6 DEF WriteInv

\* The end of a transaction, one way or the other.
LEMMA EndedInv ==
    ASSUME WriteInv, Commit \/ RollBack
    PROVE  WriteInv'
<1>1. /\ worker = "Running" /\ worker' = "Answered"
      /\ UNCHANGED <<callers, queue, slots, mutex, current, closed, storeClosed>>
      /\ \/ /\ result' = [result EXCEPT ![current] = "Committed"]
            /\ committed' = committed \cup {current}
         \/ /\ result' = [result EXCEPT ![current] = "Failed"]
            /\ committed' = committed
  BY DEF Commit, RollBack, Reply
<1>2. current \in Callers
  BY <1>1 DEF WriteInv, TypeOK, WorkerOK
<1>3. TypeOK'
  BY <1>1, <1>2 DEF WriteInv, TypeOK, callers, Outcomes
<1>4. SlotsCountWrites' /\ QueuedOnce'
  BY <1>1 DEF WriteInv, SlotsCountWrites, InSend, InHand, QueuedOnce
<1>5. WorkerOK'
  BY <1>1, <1>2, NoneAssumption DEF WriteInv, WorkerOK
<1>6. \A d \in Callers : CallerOK(d)'
  <2> SUFFICES ASSUME NEW d \in Callers PROVE CallerOK(d)'
    OBVIOUS
  <2>1. /\ CallerOK(d) /\ (Queued(d)' <=> Queued(d))
        /\ (InProgress(d) <=> d = current) /\ ~ InProgress(d)'
    BY <1>1 DEF WriteInv, InProgress, Queued
  <2>2. CASE d # current
    <3>1. result'[d] = result[d] /\ (d \in committed' <=> d \in committed)
      BY <1>1, <2>2 DEF WriteInv, TypeOK
    <3> QED
      BY <1>1, <2>1, <2>2, <3>1 DEF CallerOK, callers
  <2>3. CASE d = current
    <3>1. /\ result[d] = None /\ answer[d] \in {None, "Unknown"}
          /\ caller[d] \notin {"Idle", "Sending"}
          /\ ~ Queued(d) /\ d \notin committed
      BY <2>1, <2>3, NoneAssumption DEF CallerOK, Outcomes, Answers
    <3>2. \/ result'[d] = "Committed" /\ d \in committed'
          \/ result'[d] = "Failed" /\ d \notin committed'
      BY <1>1, <2>3, <3>1 DEF WriteInv, TypeOK
    <3> QED
      BY <1>1, <2>1, <3>1, <3>2, NoneAssumption DEF CallerOK, callers, Outcomes, Answers
  <2> QED
    BY <2>2, <2>3
<1> QED
  BY <1>3, <1>4, <1>5, <1>6 DEF WriteInv

\* The slot of an answered write is given back.
LEMMA ReleaseSlotInv ==
    ASSUME WriteInv, ReleaseSlot
    PROVE  WriteInv'
<1>1. /\ worker \in {"Answered", "Rejected"} /\ slots' = slots - 1 /\ current' = None
      /\ worker' = IF worker = "Answered" THEN "Selecting" ELSE "Draining"
      /\ UNCHANGED <<callers, result, queue, mutex, closed, storeClosed, committed>>
  BY DEF ReleaseSlot
<1>2. current # None /\ TypeOK /\ SlotsCountWrites
  BY <1>1 DEF WriteInv, WorkerOK
<1>3. slots \in Int /\ slots' = InSend + Len(queue) /\ InSend \in 0..1 /\ Len(queue) \in Nat
  BY <1>1, <1>2, CapacityAssumption
  DEF SlotsCountWrites, InHand, InSend, TypeOK, MaximumOutstanding
<1>4. slots' \in 0..MaximumOutstanding
  BY <1>1, <1>2, <1>3, CapacityAssumption DEF TypeOK, MaximumOutstanding
<1>5. TypeOK'
  BY <1>1, <1>2, <1>4 DEF TypeOK, callers
<1>6. SlotsCountWrites'
  <2>1. InSend' = InSend /\ InHand' = 0
    BY <1>1 DEF InSend, InHand
  <2> QED
    BY <1>1, <1>3, <2>1 DEF SlotsCountWrites
<1>7. QueuedOnce' /\ WorkerOK'
  <2>1. QueuedOnce'
    BY <1>1 DEF WriteInv, QueuedOnce
  <2>2. WorkerOK'
    BY <1>1 DEF WriteInv, WorkerOK
  <2> QED
    BY <2>1, <2>2
<1>8. \A d \in Callers : CallerOK(d)'
  <2> SUFFICES ASSUME NEW d \in Callers PROVE CallerOK(d)'
    OBVIOUS
  <2>1. /\ CallerOK(d) /\ (Queued(d)' <=> Queued(d))
        /\ ~ InProgress(d) /\ ~ InProgress(d)'
    BY <1>1 DEF WriteInv, InProgress, Queued
  <2> QED
    BY <1>1, <2>1 DEF CallerOK, callers
<1> QED
  BY <1>5, <1>6, <1>7, <1>8 DEF WriteInv

\* The steps of stopping change no write.
LEMMA StoppingInv ==
    ASSUME WriteInv, SeeStop \/ FinishDrain \/ StopWorker \/ CloseStore
    PROVE  WriteInv'
<1>1. /\ UNCHANGED <<callers, channels, mutex, current, committed>>
      /\ worker # "Running" \/ worker' = worker
      /\ worker' # "Running" \/ worker' = worker
  BY DEF SeeStop, FinishDrain, StopWorker, CloseStore
<1>2. TypeOK'
  BY <1>1
  DEF WriteInv, TypeOK, callers, channels, SeeStop, FinishDrain, StopWorker, CloseStore
<1>3. SlotsCountWrites' /\ QueuedOnce'
  BY <1>1 DEF WriteInv, SlotsCountWrites, InSend, InHand, QueuedOnce, channels
<1>4. WorkerOK'
  BY <1>1 DEF WriteInv, WorkerOK, channels, SeeStop, StopSeen, FinishDrain, Drained,
     StopWorker, CloseStore
<1>5. \A d \in Callers : CallerOK(d)'
  <2> SUFFICES ASSUME NEW d \in Callers PROVE CallerOK(d)'
    OBVIOUS
  <2>1. /\ CallerOK(d) /\ (Queued(d)' <=> Queued(d)) /\ (InProgress(d)' <=> InProgress(d))
    BY <1>1 DEF WriteInv, InProgress, Queued, channels
  <2> QED
    BY <1>1, <2>1 DEF CallerOK, callers, channels
<1> QED
  BY <1>2, <1>3, <1>4, <1>5 DEF WriteInv

-----------------------------------------------------------------------------
(* The theorems. *)

\* Every step preserves the invariant.
LEMMA StepInv == WriteInv /\ [Next]_vars => WriteInv'
<1> SUFFICES ASSUME WriteInv, [Next]_vars PROVE WriteInv'
  OBVIOUS
<1>1. CASE \E c \in Callers : Call(c)
  BY <1>1, RefusedInv, TakeSlotInv, SendInv, ReceiveResultInv, GiveUpInv, CancelInv DEF Call
<1>2. CASE Work
  BY <1>2, ReceiveWriteInv, EndedInv, ReleaseSlotInv, StoppingInv, RejectQueuedInv DEF Work
<1>3. CASE StopWorker \/ CloseStore
  BY <1>3, StoppingInv
<1>4. CASE UNCHANGED vars
  BY <1>4, ZenonT(60) DEF vars, callers, channels, WriteInv, TypeOK, SlotsCountWrites, InSend, InHand,
     QueuedOnce, WorkerOK, CallerOK, Queued, InProgress
<1> QED
  BY <1>1, <1>2, <1>3, <1>4 DEF Next

\* Where every write is, in every state the queue can reach.
THEOREM WriteInvariant == Spec => []WriteInv
BY InitInv, StepInv, PTL DEF Spec

\* The send under writeMu always finds room: the mutex is never held across a wait.
THEOREM SendsNeverBlock == Spec => []SendNeverBlocks
<1>1. WriteInv => SendNeverBlocks
  <2> SUFFICES ASSUME WriteInv, NEW c \in Callers, caller[c] = "Sending"
               PROVE  Len(queue) < QueueCapacity
    BY DEF SendNeverBlocks
  <2>1. mutex # None
    BY NoneAssumption DEF WriteInv, CallerOK
  <2>2. InSend = 1 /\ InHand >= 0 /\ InHand \in Int
    BY <2>1 DEF InSend, InHand
  <2> QED
    BY <2>2, CapacityAssumption
    DEF WriteInv, TypeOK, SlotsCountWrites, QueueCapacity, MaximumOutstanding
<1> QED
  BY <1>1, WriteInvariant, PTL

\* What Store.write returns is true of the database, then and ever after.
THEOREM AnswersAreTrue == Spec => []AnswersTellOutcome
<1>1. WriteInv => AnswersTellOutcome
  BY NoneAssumption
  DEF WriteInv, CallerOK, Queued, InProgress, AnswersTellOutcome, TypeOK, Outcomes, Answers
<1> QED
  BY <1>1, WriteInvariant, PTL

\* Close leaves no write behind that could still run, or wait for ever.
THEOREM CloseLeavesNothing == Spec => []NothingLeftAtClose
<1>1. WriteInv => NothingLeftAtClose
  <2> SUFFICES ASSUME WriteInv, storeClosed
               PROVE  /\ worker = "Stopped" /\ queue = <<>> /\ slots = 0
                      /\ \A c \in Callers : /\ caller[c] # "Sending"
                                            /\ caller[c] = "Waiting" => result[c] # None
    BY DEF NothingLeftAtClose
  <2>1. worker = "Stopped" /\ queue = <<>> /\ mutex = None /\ current = None
    BY DEF WriteInv, WorkerOK
  <2>2. slots = 0
    BY <2>1 DEF WriteInv, SlotsCountWrites, InSend, InHand
  <2>3. ASSUME NEW c \in Callers
        PROVE  caller[c] # "Sending" /\ (caller[c] = "Waiting" => result[c] # None)
    <3>1. CallerOK(c) /\ ~ Queued(c) /\ ~ InProgress(c) /\ mutex # c
      BY <2>1, NoneAssumption DEF WriteInv, Queued, InProgress
    <3> QED
      BY <3>1 DEF CallerOK
  <2> QED
    BY <2>1, <2>2, <2>3
<1> QED
  BY <1>1, WriteInvariant, PTL

=============================================================================
