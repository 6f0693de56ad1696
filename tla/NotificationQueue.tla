------------------------- MODULE NotificationQueue -------------------------
(***************************************************************************)
(* One notification of the notifications service, from send to the last    *)
(* attempt: NotificationService.send, the workers that run QueueService's  *)
(* processNext, and the administrators' deadLetter and requeue.            *)
(*                                                                         *)
(* A worker claims the queue item with an update conditional on QUEUED;    *)
(* every other write of the item and of the message is by id.  Backoff is  *)
(* time: an item that is QUEUED may be due.                                *)
(***************************************************************************)
EXTENDS Naturals, FiniteSets

CONSTANTS Sends,        \* send calls that carry the notification's dedupeKey
          Workers,      \* workers; each runs processNext again and again
          Buryings,     \* deadLetter calls
          Requeues,     \* requeue calls
          MaxAttempts   \* maxAttempts of the notification

VARIABLES message,      \* notification_messages.status, or "none"
          item,         \* the queue item's status, or "none"
          attempts,     \* its attemptCount
          npc,          \* npc[c]: where a call or worker is
          counted,      \* counted[w]: the attemptCount worker w has read
          deliveries    \* provider.send calls made so far (history, no state)

queueVars == <<message, item, attempts, npc, counted, deliveries>>

ASSUME MaxAttemptsAssumption == MaxAttempts \in Nat \ {0}
ASSUME QueueActorsAreDistinct ==
  /\ Sends \cap (Workers \cup Buryings \cup Requeues) = {}
  /\ Workers \cap (Buryings \cup Requeues) = {}
  /\ Buryings \cap Requeues = {}

ASSUME QueueActorsAreFinite == IsFiniteSet(Workers) /\ IsFiniteSet(Requeues)

QueueActors == Sends \cup Workers \cup Buryings \cup Requeues
MessageStatuses == {"none", "QUEUED", "SENT", "FAILED", "DEAD_LETTER"}
ItemStatuses == {"none", "QUEUED", "SENDING", "SENT", "DEAD_LETTER"}

QueueTypeOK ==
  /\ message \in MessageStatuses
  /\ item \in ItemStatuses
  /\ attempts \in Nat /\ deliveries \in Nat
  /\ npc \in [QueueActors -> {"idle", "create", "enqueue", "load", "send", "sent", "close",
                              "publish", "fail", "excuse", "bury", "requeue", "row", "done",
                              "stopped"}]
  /\ counted \in [Workers -> Nat]

QueueInit ==
  /\ message = "none" /\ item = "none" /\ attempts = 0 /\ deliveries = 0
  /\ npc = [c \in QueueActors |-> "idle"]
  /\ counted = [w \in Workers |-> 0]

AtQueue(c, label) == npc[c] = label
QueueGoto(c, label) == npc' = [npc EXCEPT ![c] = label]

-----------------------------------------------------------------------------
(* send.  A definition marked Fault is a broken variant of the one it        *)
(* precedes: no specification uses it.                                       *)

\* A notification with the key is the answer.  One the owner's preferences
\* suppress is never queued: it is not this one.
FindDuplicate(s) ==
  /\ s \in Sends
  /\ AtQueue(s, "idle")
  /\ QueueGoto(s, IF message = "none" THEN "create" ELSE "done")
  /\ UNCHANGED <<message, item, attempts, counted, deliveries>>

\* The unique dedupeKey refuses a second row: the call throws.
CreateMessage(s) ==
  /\ AtQueue(s, "create")
  /\ message' = IF message = "none" THEN "QUEUED" ELSE message
  /\ QueueGoto(s, IF message = "none" THEN "enqueue" ELSE "done")
  /\ UNCHANGED <<item, attempts, counted, deliveries>>

\* Fault: the event is published first, and may throw.
EnqueueLast(s) ==
  /\ AtQueue(s, "enqueue")
  /\ item' \in {item, "QUEUED"}
  /\ QueueGoto(s, "done")
  /\ UNCHANGED <<message, attempts, counted, deliveries>>

\* enqueue; the event that follows changes nothing here, published or not.
Enqueue(s) ==
  /\ AtQueue(s, "enqueue")
  /\ item' = "QUEUED"
  /\ QueueGoto(s, "done")
  /\ UNCHANGED <<message, attempts, counted, deliveries>>

-----------------------------------------------------------------------------
(* processNext, deliver and handleFailure. *)

\* Fault: the claim is by id alone.
ClaimAny(w) ==
  /\ w \in Workers
  /\ AtQueue(w, "idle") /\ item \in {"QUEUED", "SENDING"}
  /\ item' = "SENDING" /\ attempts' = attempts + 1
  /\ QueueGoto(w, "load")
  /\ UNCHANGED <<message, counted, deliveries>>

\* Fault: the attempt is not counted.
ClaimUncounted(w) ==
  /\ w \in Workers
  /\ AtQueue(w, "idle") /\ item = "QUEUED"
  /\ item' = "SENDING"
  /\ QueueGoto(w, "load")
  /\ UNCHANGED <<message, attempts, counted, deliveries>>

Claim(w) ==
  /\ w \in Workers
  /\ AtQueue(w, "idle") /\ item = "QUEUED"
  /\ item' = "SENDING" /\ attempts' = attempts + 1
  /\ QueueGoto(w, "load")
  /\ UNCHANGED <<message, counted, deliveries>>

LoadItem(w) ==
  /\ AtQueue(w, "load")
  /\ counted' = [counted EXCEPT ![w] = attempts]
  /\ QueueGoto(w, "send")
  /\ UNCHANGED <<message, item, attempts, deliveries>>

\* provider.send and the row of the delivery log: the provider may be missing,
\* refuse or throw, and the row may fail after it has delivered.
Deliver(w) ==
  /\ AtQueue(w, "send")
  /\ \/ deliveries' = deliveries + 1 /\ QueueGoto(w, "sent")
     \/ deliveries' \in {deliveries, deliveries + 1} /\ QueueGoto(w, "fail")
  /\ UNCHANGED <<message, item, attempts, counted>>

\* The three statements after a delivery; one that throws is a failure too.
MarkSent(w) ==
  /\ AtQueue(w, "sent")
  /\ \/ message' = "SENT" /\ QueueGoto(w, "close")
     \/ QueueGoto(w, "fail") /\ UNCHANGED message
  /\ UNCHANGED <<item, attempts, counted, deliveries>>

CloseItem(w) ==
  /\ AtQueue(w, "close")
  /\ \/ item' = "SENT" /\ QueueGoto(w, "publish")
     \/ QueueGoto(w, "fail") /\ UNCHANGED item
  /\ UNCHANGED <<message, attempts, counted, deliveries>>

PublishSent(w) ==
  /\ AtQueue(w, "publish")
  /\ QueueGoto(w, "idle") \/ QueueGoto(w, "fail")
  /\ UNCHANGED <<message, item, attempts, counted, deliveries>>

\* Fault: only the last failure writes the item.
ReleaseLast(w) ==
  /\ AtQueue(w, "fail")
  /\ item' = IF counted[w] >= MaxAttempts THEN "DEAD_LETTER" ELSE item
  /\ QueueGoto(w, "excuse")
  /\ UNCHANGED <<message, attempts, counted, deliveries>>

\* handleFailure counts on the attempts that deliver has read.
Release(w) ==
  /\ AtQueue(w, "fail")
  /\ item' = IF counted[w] >= MaxAttempts THEN "DEAD_LETTER" ELSE "QUEUED"
  /\ QueueGoto(w, "excuse")
  /\ UNCHANGED <<message, attempts, counted, deliveries>>

\* The message's status, and an event that may be lost.
Excuse(w) ==
  /\ AtQueue(w, "excuse")
  /\ message' = IF counted[w] >= MaxAttempts THEN "DEAD_LETTER" ELSE "FAILED"
  /\ QueueGoto(w, "idle")
  /\ UNCHANGED <<item, attempts, counted, deliveries>>

-----------------------------------------------------------------------------
(* deadLetter and requeue. *)

\* deadLetter looks the item up, and does not ask for its status.
ReadForBury(d) ==
  /\ d \in Buryings
  /\ AtQueue(d, "idle")
  /\ QueueGoto(d, IF item = "none" THEN "done" ELSE "bury")
  /\ UNCHANGED <<message, item, attempts, counted, deliveries>>

Bury(d) ==
  /\ AtQueue(d, "bury")
  /\ item' = "DEAD_LETTER"
  /\ QueueGoto(d, "row")
  /\ UNCHANGED <<message, attempts, counted, deliveries>>

ReadForRequeue(q) ==
  /\ q \in Requeues
  /\ AtQueue(q, "idle")
  /\ QueueGoto(q, IF item = "DEAD_LETTER" THEN "requeue" ELSE "done")
  /\ UNCHANGED <<message, item, attempts, counted, deliveries>>

Requeue(q) ==
  /\ AtQueue(q, "requeue")
  /\ item' = "QUEUED" /\ attempts' = 0
  /\ QueueGoto(q, "row")
  /\ UNCHANGED <<message, counted, deliveries>>

\* The second update of either.
UpdateMessage(c) ==
  /\ AtQueue(c, "row")
  /\ message' = IF c \in Requeues THEN "QUEUED" ELSE "DEAD_LETTER"
  /\ QueueGoto(c, "done")
  /\ UNCHANGED <<item, attempts, counted, deliveries>>

-----------------------------------------------------------------------------

\* The service dies, or a statement outside deliver's try throws: what was written
\* stays.  A worker that only met an error polls on: it is one more of the Workers.
StopQueue(c) ==
  /\ npc[c] \notin {"idle", "done", "stopped"}
  /\ QueueGoto(c, "stopped")
  /\ UNCHANGED <<message, item, attempts, counted, deliveries>>

QueueNext ==
  \/ \E s \in Sends : FindDuplicate(s) \/ CreateMessage(s) \/ Enqueue(s)
  \/ \E w \in Workers : \/ Claim(w) \/ LoadItem(w) \/ Deliver(w) \/ MarkSent(w) \/ CloseItem(w)
                        \/ PublishSent(w) \/ Release(w) \/ Excuse(w)
  \/ \E d \in Buryings : ReadForBury(d) \/ Bury(d)
  \/ \E q \in Requeues : ReadForRequeue(q) \/ Requeue(q)
  \/ \E c \in Buryings \cup Requeues : UpdateMessage(c)
  \/ \E c \in QueueActors : StopQueue(c)

QueueSpec == QueueInit /\ [][QueueNext]_queueVars

-----------------------------------------------------------------------------
(* What the queue promises. *)

\* A worker holds the item from its claim until it has written the item again.
Holding == {w \in Workers : npc[w] \in {"load", "send", "sent", "close", "publish", "fail"}}

Requeued == {q \in Requeues : npc[q] # "idle"}

\* Workers that overlap deliver the notification one at a time; each requeue, of
\* an item that a worker may still be holding, makes room for one more.
HoldersAreBounded ==
  Cardinality(Holding) + (IF item = "QUEUED" THEN 1 ELSE 0) <= 1 + Cardinality(Requeued)

\* However deliveries, their log rows, the updates after them and the events
\* fail, a notification nobody requeues goes out maxAttempts times at most.
AttemptsAreBounded == Requeued = {} => deliveries <= MaxAttempts

\* An item does not stay SENDING unless the worker that claimed it last stopped.
SendingIsOwed ==
  item = "SENDING" =>
    \E w \in Workers : npc[w] \in {"load", "send", "sent", "close", "fail", "stopped"}

\* A notification without a queue item is one whose send call stopped between
\* the two rows, or is about to write the second.
QueuedIsOwed ==
  message # "none" /\ item = "none" =>
    \E s \in Sends : npc[s] \in {"enqueue", "stopped"}

=============================================================================
