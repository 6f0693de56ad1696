---------------------- MODULE NotificationQueueProofs ----------------------
(***************************************************************************)
(* NotificationQueue for any number of senders, workers and administrators *)
(* and any maxAttempts: who holds the item, how often the notification     *)
(* goes out, and who owes it its next step.                                *)
(***************************************************************************)
EXTENDS NotificationQueue, FiniteSetTheorems, TLAPS

-----------------------------------------------------------------------------
(* The inductive invariant.                                                  *)

\* Before the queue item exists nobody has dealt with it, and one send call at
\* most is between the two rows.
BeforeItem ==
  /\ message = "none" => item = "none"
  /\ item = "none" =>
       /\ attempts = 0 /\ deliveries = 0
       /\ \A c \in Workers \cup Buryings \cup Requeues : npc[c] \in {"idle", "done"}
  /\ \A s \in Sends : npc[s] = "enqueue" => message # "none" /\ item = "none"
  /\ \A s, t \in Sends : npc[s] = "enqueue" /\ npc[t] = "enqueue" => s = t

\* Requeues that have found the item dead and are about to queue it.
Requeuing == {q \in Requeues : npc[q] = "requeue"}

Slots == Holding \cup Requeuing

SlotsInv == Cardinality(Slots) + (IF item = "QUEUED" THEN 1 ELSE 0) <= 1 + Cardinality(Requeued)

\* As long as nobody requeues: one worker at most holds the item, it has read the
\* count of its own claim, and the count is ahead of the deliveries.
Counting ==
  Requeued = {} =>
    /\ deliveries <= attempts /\ attempts <= MaxAttempts
    /\ item = "QUEUED" => attempts < MaxAttempts /\ Holding = {}
    /\ \A v, w \in Holding : v = w
    /\ \A w \in Holding : /\ npc[w] \in {"load", "send"} => deliveries < attempts
                          /\ npc[w] # "load" => counted[w] = attempts

QueueInv == QueueTypeOK /\ BeforeItem /\ SendingIsOwed /\ QueuedIsOwed /\ Counting

-----------------------------------------------------------------------------
(* Types.                                                                    *)

LEMMA QueueInitTypeOK == QueueInit => QueueTypeOK
BY DEF QueueInit, QueueTypeOK, MessageStatuses, ItemStatuses

LEMMA QueueTypeStep ==
  ASSUME QueueTypeOK, [QueueNext]_queueVars
  PROVE  QueueTypeOK'
<1> USE DEF QueueTypeOK, QueueGoto, AtQueue, QueueActors, MessageStatuses, ItemStatuses
<1>1. ASSUME NEW s \in Sends, FindDuplicate(s) \/ CreateMessage(s) \/ Enqueue(s)
      PROVE  QueueTypeOK'
  BY <1>1 DEF FindDuplicate, CreateMessage, Enqueue
<1>2. ASSUME NEW w \in Workers, Claim(w) \/ LoadItem(w) \/ Deliver(w) \/ MarkSent(w)
      PROVE  QueueTypeOK'
  BY <1>2 DEF Claim, LoadItem, Deliver, MarkSent
<1>3. ASSUME NEW w \in Workers, CloseItem(w) \/ PublishSent(w) \/ Release(w) \/ Excuse(w)
      PROVE  QueueTypeOK'
  BY <1>3 DEF CloseItem, PublishSent, Release, Excuse
<1>4. ASSUME NEW d \in Buryings, ReadForBury(d) \/ Bury(d)
      PROVE  QueueTypeOK'
  BY <1>4 DEF ReadForBury, Bury
<1>5. ASSUME NEW q \in Requeues, ReadForRequeue(q) \/ Requeue(q)
      PROVE  QueueTypeOK'
  BY <1>5 DEF ReadForRequeue, Requeue
<1>6. ASSUME NEW c \in Buryings \cup Requeues, UpdateMessage(c)
      PROVE  QueueTypeOK'
  BY <1>6 DEF UpdateMessage
<1>7. ASSUME NEW c \in QueueActors, StopQueue(c)
      PROVE  QueueTypeOK'
  BY <1>7 DEF StopQueue
<1>8. CASE UNCHANGED queueVars
  BY <1>8 DEF queueVars
<1> QED
  BY <1>1, <1>2, <1>3, <1>4, <1>5, <1>6, <1>7, <1>8 DEF QueueNext

-----------------------------------------------------------------------------
(* The parts of the invariant.                                               *)

LEMMA BeforeItemStep ==
  ASSUME QueueTypeOK, BeforeItem, QueuedIsOwed, [QueueNext]_queueVars
  PROVE  BeforeItem' /\ QueuedIsOwed'
<1> USE QueueActorsAreDistinct
    DEF QueueTypeOK, BeforeItem, QueuedIsOwed, QueueGoto, AtQueue, QueueActors, MessageStatuses,
        ItemStatuses
<1>1. ASSUME NEW s \in Sends, FindDuplicate(s)
      PROVE  BeforeItem' /\ QueuedIsOwed'
  BY <1>1 DEF FindDuplicate
<1>2. ASSUME NEW s \in Sends, CreateMessage(s)
      PROVE  BeforeItem' /\ QueuedIsOwed'
  BY <1>2 DEF CreateMessage
<1>3. ASSUME NEW s \in Sends, Enqueue(s)
      PROVE  BeforeItem' /\ QueuedIsOwed'
  BY <1>3 DEF Enqueue
<1>4. ASSUME NEW w \in Workers, Claim(w) \/ LoadItem(w) \/ Deliver(w) \/ MarkSent(w)
      PROVE  BeforeItem' /\ QueuedIsOwed'
  BY <1>4 DEF Claim, LoadItem, Deliver, MarkSent
<1>5. ASSUME NEW w \in Workers, CloseItem(w) \/ PublishSent(w) \/ Release(w) \/ Excuse(w)
      PROVE  BeforeItem' /\ QueuedIsOwed'
  BY <1>5 DEF CloseItem, PublishSent, Release, Excuse
<1>6. ASSUME NEW d \in Buryings, ReadForBury(d) \/ Bury(d)
      PROVE  BeforeItem' /\ QueuedIsOwed'
  BY <1>6 DEF ReadForBury, Bury
<1>7. ASSUME NEW q \in Requeues, ReadForRequeue(q) \/ Requeue(q)
      PROVE  BeforeItem' /\ QueuedIsOwed'
  BY <1>7 DEF ReadForRequeue, Requeue
<1>8. ASSUME NEW c \in Buryings \cup Requeues, UpdateMessage(c)
      PROVE  BeforeItem' /\ QueuedIsOwed'
  BY <1>8 DEF UpdateMessage
<1>9. ASSUME NEW c \in QueueActors, StopQueue(c)
      PROVE  BeforeItem' /\ QueuedIsOwed'
  BY <1>9 DEF StopQueue
<1>10. CASE UNCHANGED queueVars
  BY <1>10 DEF queueVars
<1> QED
  BY <1>1, <1>2, <1>3, <1>4, <1>5, <1>6, <1>7, <1>8, <1>9, <1>10 DEF QueueNext

LEMMA SendingStep ==
  ASSUME QueueTypeOK, SendingIsOwed, [QueueNext]_queueVars
  PROVE  SendingIsOwed'
<1> USE QueueActorsAreDistinct
    DEF QueueTypeOK, SendingIsOwed, QueueGoto, AtQueue, QueueActors, ItemStatuses
<1>1. ASSUME NEW s \in Sends, FindDuplicate(s) \/ CreateMessage(s) \/ Enqueue(s)
      PROVE  SendingIsOwed'
  BY <1>1 DEF FindDuplicate, CreateMessage, Enqueue
<1>2. ASSUME NEW w \in Workers, Claim(w) \/ LoadItem(w) \/ Deliver(w) \/ MarkSent(w)
      PROVE  SendingIsOwed'
  BY <1>2 DEF Claim, LoadItem, Deliver, MarkSent
<1>3. ASSUME NEW w \in Workers, CloseItem(w) \/ PublishSent(w) \/ Release(w) \/ Excuse(w)
      PROVE  SendingIsOwed'
  BY <1>3 DEF CloseItem, PublishSent, Release, Excuse
<1>4. ASSUME NEW d \in Buryings, ReadForBury(d) \/ Bury(d)
      PROVE  SendingIsOwed'
  BY <1>4 DEF ReadForBury, Bury
<1>5. ASSUME NEW q \in Requeues, ReadForRequeue(q) \/ Requeue(q)
      PROVE  SendingIsOwed'
  BY <1>5 DEF ReadForRequeue, Requeue
<1>6. ASSUME NEW c \in Buryings \cup Requeues, UpdateMessage(c)
      PROVE  SendingIsOwed'
  BY <1>6 DEF UpdateMessage
<1>7. ASSUME NEW c \in QueueActors, StopQueue(c)
      PROVE  SendingIsOwed'
  BY <1>7 DEF StopQueue
<1>8. CASE UNCHANGED queueVars
  BY <1>8 DEF queueVars
<1> QED
  BY <1>1, <1>2, <1>3, <1>4, <1>5, <1>6, <1>7, <1>8 DEF QueueNext

-----------------------------------------------------------------------------
(* Attempts.                                                                 *)

\* A requeue that has begun stays begun.
LEMMA RequeuedGrows ==
  ASSUME QueueTypeOK, [QueueNext]_queueVars
  PROVE  Requeued \subseteq Requeued'
<1> USE QueueActorsAreDistinct DEF QueueTypeOK, Requeued, QueueGoto, AtQueue, QueueActors
<1>1. ASSUME NEW s \in Sends, FindDuplicate(s) \/ CreateMessage(s) \/ Enqueue(s)
      PROVE  Requeued \subseteq Requeued'
  BY <1>1 DEF FindDuplicate, CreateMessage, Enqueue
<1>2. ASSUME NEW w \in Workers, \/ Claim(w) \/ LoadItem(w) \/ Deliver(w) \/ MarkSent(w)
                               \/ CloseItem(w) \/ PublishSent(w) \/ Release(w) \/ Excuse(w)
      PROVE  Requeued \subseteq Requeued'
  BY <1>2 DEF Claim, LoadItem, Deliver, MarkSent, CloseItem, PublishSent, Release, Excuse
<1>3. ASSUME NEW c \in Buryings \cup Requeues,
             \/ ReadForBury(c) \/ Bury(c) \/ ReadForRequeue(c) \/ Requeue(c) \/ UpdateMessage(c)
      PROVE  Requeued \subseteq Requeued'
  BY <1>3 DEF ReadForBury, Bury, ReadForRequeue, Requeue, UpdateMessage
<1>4. ASSUME NEW c \in QueueActors, StopQueue(c)
      PROVE  Requeued \subseteq Requeued'
  BY <1>4 DEF StopQueue
<1>5. CASE UNCHANGED queueVars
  BY <1>5 DEF queueVars
<1> QED
  BY <1>1, <1>2, <1>3, <1>4, <1>5 DEF QueueNext

LEMMA CountingStep ==
  ASSUME QueueTypeOK, BeforeItem, Counting, [QueueNext]_queueVars
  PROVE  Counting'
<1> SUFFICES ASSUME Requeued' = {}
             PROVE  Counting'
  BY DEF Counting
<1>0. Requeued = {} /\ MaxAttempts \in Nat \ {0}
  BY RequeuedGrows, MaxAttemptsAssumption
<1> USE <1>0, QueueActorsAreDistinct
    DEF QueueTypeOK, BeforeItem, Counting, Holding, QueueGoto, AtQueue, QueueActors
<1>1. ASSUME NEW s \in Sends, FindDuplicate(s) \/ CreateMessage(s)
      PROVE  Counting'
  BY <1>1 DEF FindDuplicate, CreateMessage
<1>2. ASSUME NEW s \in Sends, Enqueue(s)
      PROVE  Counting'
  BY <1>2 DEF Enqueue
<1>3. ASSUME NEW w \in Workers, Claim(w)
      PROVE  Counting'
  BY <1>3 DEF Claim
<1>4. ASSUME NEW w \in Workers, LoadItem(w)
      PROVE  Counting'
  BY <1>4 DEF LoadItem
<1>5. ASSUME NEW w \in Workers, Deliver(w)
      PROVE  Counting'
  BY <1>5 DEF Deliver
<1>6. ASSUME NEW w \in Workers, MarkSent(w) \/ CloseItem(w) \/ PublishSent(w)
      PROVE  Counting'
  BY <1>6 DEF MarkSent, CloseItem, PublishSent
<1>7. ASSUME NEW w \in Workers, Release(w)
      PROVE  Counting'
  BY <1>7 DEF Release
<1>8. ASSUME NEW w \in Workers, Excuse(w)
      PROVE  Counting'
  BY <1>8 DEF Excuse
<1>9. ASSUME NEW d \in Buryings, ReadForBury(d) \/ Bury(d)
      PROVE  Counting'
  BY <1>9 DEF ReadForBury, Bury
<1>10. ASSUME NEW q \in Requeues, ReadForRequeue(q) \/ Requeue(q)
       PROVE  Counting'
  BY <1>10 DEF ReadForRequeue, Requeue, Requeued
<1>11. ASSUME NEW c \in Buryings \cup Requeues, UpdateMessage(c)
       PROVE  Counting'
  BY <1>11 DEF UpdateMessage
<1>12. ASSUME NEW c \in QueueActors, StopQueue(c)
       PROVE  Counting'
  BY <1>12 DEF StopQueue
<1>13. CASE UNCHANGED queueVars
  BY <1>13 DEF queueVars, Requeued
<1> QED
  BY <1>1, <1>2, <1>3, <1>4, <1>5, <1>6, <1>7, <1>8, <1>9, <1>10, <1>11, <1>12, <1>13
  DEF QueueNext

-----------------------------------------------------------------------------
(* Holders.                                                                  *)

LEMMA SlotsAreFinite ==
  /\ IsFiniteSet(Slots) /\ Cardinality(Slots) \in Nat
  /\ IsFiniteSet(Requeued) /\ Cardinality(Requeued) \in Nat
  /\ IsFiniteSet(Slots') /\ Cardinality(Slots') \in Nat
  /\ IsFiniteSet(Requeued') /\ Cardinality(Requeued') \in Nat
<1>1. IsFiniteSet(Workers \cup Requeues)
  BY QueueActorsAreFinite, FS_Union
<1>2. /\ Slots \subseteq Workers \cup Requeues /\ Slots' \subseteq Workers \cup Requeues
      /\ Requeued \subseteq Workers \cup Requeues /\ Requeued' \subseteq Workers \cup Requeues
  BY DEF Slots, Holding, Requeuing, Requeued
<1>3. IsFiniteSet(Slots) /\ IsFiniteSet(Slots') /\ IsFiniteSet(Requeued) /\ IsFiniteSet(Requeued')
  BY <1>1, <1>2, FS_Subset
<1> QED
  BY <1>3, FS_CardinalityType

\* The ways in which slots, requeues and the item may change together.
LEMMA SlotsChange ==
  ASSUME SlotsInv, Requeued \subseteq Requeued',
         \/ Slots' \subseteq Slots /\ (item' = "QUEUED" => item = "QUEUED")
         \/ \E c : Slots' \subseteq Slots \cup {c} /\ item = "QUEUED" /\ item' # "QUEUED"
         \/ \E c \in Slots : Slots' = Slots \ {c}
         \/ Slots' = {}
         \/ \E c : /\ Slots' \subseteq Slots \cup {c} /\ c \notin Requeued /\ c \in Requeued'
                  /\ item' = item
  PROVE  SlotsInv'
<1> USE SlotsAreFinite DEF SlotsInv
<1> DEFINE n == Cardinality(Slots)
           m == Cardinality(Slots')
           k == Cardinality(Requeued)
           l == Cardinality(Requeued')
<1>1. k <= l
  BY FS_Subset
<1>2. CASE Slots' \subseteq Slots /\ (item' = "QUEUED" => item = "QUEUED")
  <2>1. m <= n
    BY <1>2, FS_Subset
  <2> QED
    BY <1>1, <1>2, <2>1
<1>3. ASSUME NEW c, Slots' \subseteq Slots \cup {c}
      PROVE  m <= n + 1
  <2>1. /\ IsFiniteSet(Slots \cup {c})
        /\ Cardinality(Slots \cup {c}) = IF c \in Slots THEN n ELSE n + 1
    BY FS_AddElement
  <2>2. m <= Cardinality(Slots \cup {c})
    BY <1>3, <2>1, FS_Subset
  <2> QED
    BY <2>1, <2>2
<1>4. CASE \E c : Slots' \subseteq Slots \cup {c} /\ item = "QUEUED" /\ item' # "QUEUED"
  <2>1. m <= n + 1
    BY <1>3, <1>4
  <2> QED
    BY <1>1, <1>4, <2>1
<1>5. CASE \E c \in Slots : Slots' = Slots \ {c}
  <2>1. m = n - 1
    BY <1>5, FS_RemoveElement
  <2> QED
    BY <1>1, <2>1
<1>6. CASE Slots' = {}
  <2>1. m = 0
    BY <1>6, FS_EmptySet
  <2> QED
    BY <2>1
<1>7. CASE \E c : /\ Slots' \subseteq Slots \cup {c} /\ c \notin Requeued /\ c \in Requeued'
                 /\ item' = item
  <2>1. PICK c : /\ Slots' \subseteq Slots \cup {c} /\ c \notin Requeued /\ c \in Requeued'
                 /\ item' = item
    BY <1>7
  <2>2. m <= n + 1
    BY <1>3, <2>1
  <2>3. Cardinality(Requeued \cup {c}) = k + 1 /\ IsFiniteSet(Requeued \cup {c})
    BY <2>1, FS_AddElement
  <2>4. k + 1 <= l
    BY <2>1, <2>3, FS_Subset
  <2> QED
    BY <2>1, <2>2, <2>4
<1> QED
  BY <1>2, <1>4, <1>5, <1>6, <1>7

LEMMA SlotsStep ==
  ASSUME QueueTypeOK, BeforeItem, SlotsInv, [QueueNext]_queueVars
  PROVE  SlotsInv'
<1>0. Requeued \subseteq Requeued'
  BY RequeuedGrows
<1> USE <1>0, SlotsChange, QueueActorsAreDistinct
    DEF QueueTypeOK, Slots, Holding, Requeuing, QueueGoto, AtQueue, QueueActors
<1>1. ASSUME NEW s \in Sends, FindDuplicate(s) \/ CreateMessage(s)
      PROVE  SlotsInv'
  BY <1>1 DEF FindDuplicate, CreateMessage
<1>2. ASSUME NEW s \in Sends, Enqueue(s)
      PROVE  SlotsInv'
  BY <1>2 DEF Enqueue, BeforeItem
<1>3. ASSUME NEW w \in Workers, Claim(w)
      PROVE  SlotsInv'
  <2>1. Slots' \subseteq Slots \cup {w} /\ item = "QUEUED" /\ item' # "QUEUED"
    BY <1>3 DEF Claim
  <2> QED
    BY <2>1
<1>4. ASSUME NEW w \in Workers, LoadItem(w) \/ Deliver(w) \/ MarkSent(w) \/ CloseItem(w)
      PROVE  SlotsInv'
  BY <1>4 DEF LoadItem, Deliver, MarkSent, CloseItem
<1>5. ASSUME NEW w \in Workers, PublishSent(w) \/ Excuse(w)
      PROVE  SlotsInv'
  BY <1>5 DEF PublishSent, Excuse
<1>6. ASSUME NEW w \in Workers, Release(w)
      PROVE  SlotsInv'
  <2>1. w \in Slots /\ Slots' = Slots \ {w}
    BY <1>6 DEF Release
  <2> QED
    BY <2>1
<1>7. ASSUME NEW d \in Buryings, ReadForBury(d) \/ Bury(d)
      PROVE  SlotsInv'
  BY <1>7 DEF ReadForBury, Bury
<1>8. ASSUME NEW q \in Requeues, ReadForRequeue(q)
      PROVE  SlotsInv'
  <2>1. /\ Slots' \subseteq Slots \cup {q} /\ q \notin Requeued /\ q \in Requeued'
        /\ item' = item
    BY <1>8 DEF ReadForRequeue, Requeued
  <2> QED
    BY <2>1
<1>9. ASSUME NEW q \in Requeues, Requeue(q)
      PROVE  SlotsInv'
  <2>1. q \in Slots /\ Slots' = Slots \ {q}
    BY <1>9 DEF Requeue
  <2> QED
    BY <2>1
<1>10. ASSUME NEW c \in Buryings \cup Requeues, UpdateMessage(c)
       PROVE  SlotsInv'
  BY <1>10 DEF UpdateMessage
<1>11. ASSUME NEW c \in QueueActors, StopQueue(c)
       PROVE  SlotsInv'
  BY <1>11 DEF StopQueue
<1>12. CASE UNCHANGED queueVars
  BY <1>12 DEF queueVars
<1> QED
  BY <1>1, <1>2, <1>3, <1>4, <1>5, <1>6, <1>7, <1>8, <1>9, <1>10, <1>11, <1>12 DEF QueueNext

-----------------------------------------------------------------------------
(* The theorems.                                                             *)

LEMMA InitQueueInv == QueueInit => QueueInv /\ SlotsInv
<1> SUFFICES ASSUME QueueInit PROVE QueueInv /\ SlotsInv
  OBVIOUS
<1>1. QueueInv
  BY QueueInitTypeOK, MaxAttemptsAssumption
  DEF QueueInit, QueueInv, BeforeItem, SendingIsOwed, QueuedIsOwed, Counting, Holding, QueueActors
<1>2. Slots = {} /\ Requeued = {} /\ item # "QUEUED"
  BY DEF QueueInit, Slots, Holding, Requeuing, Requeued, QueueActors
<1>3. SlotsInv
  BY <1>2, FS_EmptySet DEF SlotsInv
<1> QED
  BY <1>1, <1>3

\* The invariant holds in every state of every behaviour of the queue.
THEOREM QueueInvariant == QueueSpec => [](QueueInv /\ SlotsInv)
<1>1. QueueInv /\ SlotsInv /\ [QueueNext]_queueVars => (QueueInv /\ SlotsInv)'
  BY QueueTypeStep, BeforeItemStep, SendingStep, CountingStep, SlotsStep DEF QueueInv
<1> QED
  BY <1>1, InitQueueInv, PTL DEF QueueSpec

\* Types hold for any senders, workers and administrators.
THEOREM QueueTypeCorrect == QueueSpec => []QueueTypeOK
<1>1. QueueInv => QueueTypeOK
  BY DEF QueueInv
<1> QED
  BY <1>1, QueueInvariant, PTL

\* processNext's conditional claim keeps workers apart: they hold the item one at
\* a time, and one more for each requeue.
THEOREM HoldersBounded == QueueSpec => []HoldersAreBounded
<1>1. SlotsInv => HoldersAreBounded
  <2> SUFFICES ASSUME SlotsInv PROVE HoldersAreBounded
    OBVIOUS
  <2>1. IsFiniteSet(Holding) /\ Cardinality(Holding) <= Cardinality(Slots)
    BY SlotsAreFinite, FS_Subset DEF Slots
  <2>2. Cardinality(Holding) \in Nat
    BY <2>1, FS_CardinalityType
  <2> QED
    BY <2>1, <2>2, SlotsAreFinite DEF SlotsInv, HoldersAreBounded
<1> QED
  BY <1>1, QueueInvariant, PTL

\* Without a requeue the notification goes out maxAttempts times at most.
THEOREM AttemptsBounded == QueueSpec => []AttemptsAreBounded
<1>1. QueueInv => AttemptsAreBounded
  BY MaxAttemptsAssumption DEF QueueInv, Counting, AttemptsAreBounded, QueueTypeOK
<1> QED
  BY <1>1, QueueInvariant, PTL

\* An item that is SENDING is in the hands of a worker, or of one that stopped.
THEOREM SendingOwed == QueueSpec => []SendingIsOwed
<1>1. QueueInv => SendingIsOwed
  BY DEF QueueInv
<1> QED
  BY <1>1, QueueInvariant, PTL

\* A notification without a queue item is one whose send call stopped half-way,
\* or is half-way.
THEOREM QueuedOwed == QueueSpec => []QueuedIsOwed
<1>1. QueueInv => QueuedIsOwed
  BY DEF QueueInv
<1> QED
  BY <1>1, QueueInvariant, PTL

=============================================================================
