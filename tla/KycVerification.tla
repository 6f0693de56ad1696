--------------------------- MODULE KycVerification ---------------------------
(***************************************************************************)
(* The identity verification of one customer: KycService's submissions,    *)
(* the reviewers' decisions on them, and the webhooks of the verification  *)
(* partner.                                                                *)
(*                                                                         *)
(* A decision is two writes, of the request and then of the profile, each  *)
(* by id and neither in a transaction.  The identifiers of the webhook     *)
(* events a request has taken are kept in its metadata, a JSON column that *)
(* is read, extended and written back whole.                               *)
(***************************************************************************)
CONSTANTS Submits,     \* submitKyc calls; the request one creates has its name
          Reviewings,  \* calls of reviewers
          Deliveries   \* webhook deliveries, repeated ones included

VARIABLES profile,     \* kyc_profiles.status, or "none"
          granted,     \* the request whose level the profile has
          request,     \* request[q]: verification_requests.status, or "none"
          ref,         \* ref[q]: the partner's session in its providerRef
          seen,        \* seen[q]: metadata.processedWebhookEventIds
          older,       \* older[q]: the requests with an earlier createdAt than q
          started,     \* the sessions the partner has opened
          kpc,         \* kpc[c]: where a call is
          deed,        \* deed[r]: what review r is
          event,       \* event[d]: what delivery d brings
          about,       \* about[c]: the request a call decides
          copy,        \* copy[c]: seen as c has read it
          todo,        \* todo[c]: the superseded requests c has yet to close
          written,     \* the calls that have decided their request (history)
          before       \* before[c]: the calls that had ended when c began (history)

profileVars == <<profile, granted>>
rowVars == <<request, ref, seen, older>>
callVars == <<deed, event, about, copy, todo, written, before>>
kycVars == <<profileVars, rowVars, started, kpc, callVars>>

KycCalls == Submits \cup Reviewings \cup Deliveries

Nothing == "nothing"

ASSUME KycCallsAreDistinct == /\ Submits \cap Reviewings = {}
                              /\ (Submits \cup Reviewings) \cap Deliveries = {}
                              /\ Nothing \notin Submits

\* startReview, approve, reject and requestResubmission.
Deeds == {"start", "approve", "reject", "resubmit"}

\* An event is named by the session it is about and by its type.
Events == [session : Submits,
           type : {"verified", "requires_input", "canceled", "processing"}]

NoEvent == [session |-> Nothing, type |-> Nothing]
Open == {"SUBMITTED", "IN_REVIEW"}
KycEnds == {"done", "refused", "duplicate", "stopped"}

RowTypes ==
  /\ profile \in {"none", "DRAFT", "SUBMITTED", "IN_REVIEW", "APPROVED", "REJECTED",
                  "RENEWAL_REQUIRED"}
  /\ granted \in Submits \cup {Nothing}
  /\ request \in [Submits -> {"none", "SUBMITTED", "IN_REVIEW", "APPROVED", "REJECTED",
                              "RENEWAL_REQUIRED", "CANCELLED"}]
  /\ ref \in [Submits -> Submits \cup {Nothing}]
  /\ seen \in [Submits -> SUBSET Events]
  /\ older \in [Submits -> SUBSET Submits]
  /\ started \subseteq Submits

CallTypes ==
  /\ kpc \in [KycCalls -> {"idle", "open", "active", "create", "identity", "tail", "deny",
                           "write", "profile", "look", "find", "close"} \cup KycEnds]
  /\ deed \in [Reviewings -> Deeds \cup {Nothing}]
  /\ event \in [Deliveries -> Events \cup {NoEvent}]
  /\ about \in [KycCalls -> Submits \cup {Nothing}]
  /\ copy \in [KycCalls -> [Submits -> SUBSET Events]]
  /\ todo \in [KycCalls -> SUBSET Submits]
  /\ written \subseteq KycCalls
  /\ before \in [KycCalls -> SUBSET KycCalls]

KycTypeOK == RowTypes /\ CallTypes

KycInit ==
  /\ profile = "none" /\ granted = Nothing
  /\ request = [q \in Submits |-> "none"]
  /\ ref = [q \in Submits |-> Nothing]
  /\ seen = [q \in Submits |-> {}]
  /\ older = [q \in Submits |-> {}]
  /\ started = {} /\ written = {}
  /\ kpc = [c \in KycCalls |-> "idle"]
  /\ deed = [r \in Reviewings |-> Nothing]
  /\ event = [d \in Deliveries |-> NoEvent]
  /\ about = [c \in KycCalls |-> IF c \in Submits THEN c ELSE Nothing]
  /\ copy = [c \in KycCalls |-> [q \in Submits |-> {}]]
  /\ todo = [c \in KycCalls |-> {}]
  /\ before = [c \in KycCalls |-> {}]

AtKyc(c, label) == kpc[c] = label
KycGoto(c, label) == kpc' = [kpc EXCEPT ![c] = label]
Begun(c) == kpc[c] # "idle"
Ended(c) == kpc[c] \in KycEnds
KycBegin(c) == before' = [before EXCEPT ![c] = {x \in KycCalls : Ended(x)}]

Decide(q, s) == request' = [request EXCEPT ![q] = s]

\* Whether call c approves its request; whether it rejects it, once it has decided.
Approves(c) == \/ c \in Reviewings /\ deed[c] = "approve"
               \/ c \in Deliveries /\ event[c].type = "verified"
Rejects(c) == \/ c \in Reviewings /\ deed[c] = "reject"
              \/ c \in Submits

-----------------------------------------------------------------------------
(* submitKyc.  A definition marked Fault is a broken variant of the one it   *)
(* precedes: no specification uses it.                                       *)

FindProfile(s) ==
  /\ AtKyc(s, "idle")
  /\ KycGoto(s, CASE profile = "none" -> "open" [] profile = "APPROVED" -> "refused"
                  [] OTHER -> "active")
  /\ KycBegin(s)
  /\ UNCHANGED <<profileVars, rowVars, started, deed, event, about, copy, todo, written>>

\* getOrCreateProfile: a second row for the owner violates its unique index.
OpenProfile(s) ==
  /\ AtKyc(s, "open")
  /\ IF profile = "none" THEN profile' = "DRAFT" /\ KycGoto(s, "active")
                         ELSE KycGoto(s, "stopped") /\ UNCHANGED profile
  /\ UNCHANGED <<granted, rowVars, started, callVars>>

FindActive(s) ==
  /\ AtKyc(s, "active")
  /\ KycGoto(s, IF \E q \in Submits : request[q] \in Open THEN "refused" ELSE "create")
  /\ UNCHANGED <<profileVars, rowVars, started, callVars>>

CreateVerification(s) ==
  /\ AtKyc(s, "create")
  /\ Decide(s, "SUBMITTED")
  /\ older' = [older EXCEPT ![s] = {q \in Submits : request[q] # "none"}]
  /\ KycGoto(s, "identity")
  /\ UNCHANGED <<profileVars, ref, seen, started, callVars>>

\* verifyIdentity: the partner opens a session, or cannot be reached; it may
\* refuse at once.
VerifyIdentity(s) ==
  /\ AtKyc(s, "identity")
  /\ started' \in {started, started \cup {s}}
  /\ \E next \in {"tail", "deny"} : KycGoto(s, next)
  /\ UNCHANGED <<profileVars, rowVars, callVars>>

SetRef(q, session) == ref' = [ref EXCEPT ![q] = session]

DenyRequest(s) ==
  /\ AtKyc(s, "deny")
  /\ Decide(s, "REJECTED")
  /\ SetRef(s, IF s \in started THEN s ELSE Nothing)
  /\ written' = written \cup {s}
  /\ KycGoto(s, "profile")
  /\ UNCHANGED <<profileVars, seen, older, started, deed, event, about, copy, todo, before>>

\* After the screenings, the request is SUBMITTED once more, whatever it has
\* become, and its metadata is what the submission began with.
QueueRequest(s) ==
  /\ AtKyc(s, "tail")
  /\ Decide(s, "SUBMITTED")
  /\ SetRef(s, IF s \in started THEN s ELSE Nothing)
  /\ seen' = [seen EXCEPT ![s] = {}]
  /\ KycGoto(s, "profile")
  /\ UNCHANGED <<profileVars, older, started, callVars>>

SubmitProfile(s) ==
  /\ AtKyc(s, "profile")
  /\ profile' = IF s \in written THEN "REJECTED" ELSE "SUBMITTED"
  /\ KycGoto(s, "done")
  /\ UNCHANGED <<granted, rowVars, started, callVars>>

SubmitStep(s) == \/ OpenProfile(s) \/ FindActive(s) \/ CreateVerification(s)
                 \/ VerifyIdentity(s) \/ DenyRequest(s) \/ QueueRequest(s) \/ SubmitProfile(s)

-----------------------------------------------------------------------------
(* The reviewers and the webhook. *)

\* Only startReview and approve look at the status, on the row as it is read.
Reviewable(k, s) == CASE k = "start" -> s # "APPROVED" [] k = "approve" -> s \in Open
                      [] OTHER -> TRUE

ReadForReview(r) ==
  /\ AtKyc(r, "idle")
  /\ \E q \in Submits, k \in Deeds :
       /\ request[q] # "none"
       /\ deed' = [deed EXCEPT ![r] = k]
       /\ about' = [about EXCEPT ![r] = q]
       /\ KycGoto(r, IF Reviewable(k, request[q]) THEN "write" ELSE "refused")
  /\ copy' = [copy EXCEPT ![r] = seen]
  /\ KycBegin(r)
  /\ UNCHANGED <<profileVars, rowVars, started, event, todo, written>>

\* The requests findFirst chooses from; none is ever PENDING_PROVIDER.
Matches(e) == {q \in Submits : request[q] # "none" /\ (ref[q] = e.session \/ request[q] \in Open)}

\* The requests of S with the latest createdAt: one, unless S is empty.
Newest(S) == {q \in S : S \subseteq older[q] \cup {q}}

\* handleWebhook takes the newest request that has the event's session or is
\* open, and answers a duplicate if that request has taken the event before.
Receive(d) ==
  /\ AtKyc(d, "idle")
  /\ \E e \in Events :
       /\ e.session \in started
       /\ event' = [event EXCEPT ![d] = e]
       /\ \/ Matches(e) = {} /\ KycGoto(d, "refused") /\ UNCHANGED about
          \/ \E q \in Newest(Matches(e)) :
               /\ about' = [about EXCEPT ![d] = q]
               /\ KycGoto(d, IF e \in seen[q] THEN "duplicate" ELSE "write")
  /\ copy' = [copy EXCEPT ![d] = seen]
  /\ KycBegin(d)
  /\ UNCHANGED <<profileVars, rowVars, started, deed, todo, written>>

\* The status a decision writes into the request, and mostly into the profile.
Decision(c) ==
  LET of == [start |-> "IN_REVIEW", approve |-> "APPROVED", reject |-> "REJECTED",
             resubmit |-> "RENEWAL_REQUIRED", verified |-> "APPROVED",
             requires_input |-> "RENEWAL_REQUIRED", canceled |-> "CANCELLED",
             processing |-> "IN_REVIEW"]
  IN of[IF c \in Reviewings THEN deed[c] ELSE event[c].type]

\* Fault: reject writes metadata of its own.
SeenAfterForgetting(c) ==
  IF c \in Deliveries THEN copy[c][about[c]] \cup {event[c]} ELSE
  IF deed[c] = "reject" THEN {} ELSE seen[about[c]]

\* The events in the request's metadata once call c has written it: a webhook
\* adds its own to those it read, reject writes back those it read, and the
\* other reviews leave the metadata alone.
SeenAfter(c) ==
  IF c \in Deliveries THEN copy[c][about[c]] \cup {event[c]} ELSE
  IF deed[c] = "reject" THEN copy[c][about[c]] ELSE seen[about[c]]

DecideRequest(c) ==
  LET brings == c \in Deliveries
  IN /\ AtKyc(c, "write")
     /\ Decide(about[c], Decision(c))
     /\ seen' = [seen EXCEPT ![about[c]] = SeenAfter(c)]
     /\ IF brings /\ event[c].type \in {"verified", "processing"}
          THEN SetRef(about[c], event[c].session) ELSE UNCHANGED ref
     /\ written' = written \cup {c}
     /\ KycGoto(c, IF brings /\ event[c].type \in {"canceled", "processing"} THEN "done"
                   ELSE "profile")
     /\ UNCHANGED <<profileVars, older, started, deed, event, about, copy, todo, before>>

\* Fault: a rejection leaves an approved profile as it is.
DecideProfileUnlessApproved(c) ==
  /\ AtKyc(c, "profile")
  /\ profile' = IF Rejects(c) /\ profile = "APPROVED" THEN profile ELSE Decision(c)
  /\ granted' = IF Approves(c) THEN about[c] ELSE granted
  /\ KycGoto(c, IF Approves(c) THEN "look" ELSE "done")
  /\ UNCHANGED <<rowVars, started, callVars>>

DecideProfile(c) ==
  /\ AtKyc(c, "profile")
  /\ profile' = Decision(c)
  /\ granted' = IF Approves(c) THEN about[c] ELSE granted
  /\ KycGoto(c, IF Approves(c) THEN "look" ELSE "done")
  /\ UNCHANGED <<rowVars, started, callVars>>

\* closeSupersededOpenRequests, after an approval.
LookAtProfile(c) ==
  /\ AtKyc(c, "look")
  /\ KycGoto(c, IF profile = "APPROVED" THEN "find" ELSE "done")
  /\ UNCHANGED <<profileVars, rowVars, started, callVars>>

FindOpen(c) ==
  LET others == {q \in Submits \ {about[c]} : request[q] \in Open}
  IN /\ AtKyc(c, "find")
     /\ todo' = [todo EXCEPT ![c] = others]
     /\ copy' = [copy EXCEPT ![c] = seen]
     /\ KycGoto(c, IF others = {} THEN "done" ELSE "close")
     /\ UNCHANGED <<profileVars, rowVars, started, deed, event, about, written, before>>

CloseSuperseded(c) ==
  /\ AtKyc(c, "close")
  /\ \E q \in todo[c] :
       /\ Decide(q, "CANCELLED")
       /\ seen' = [seen EXCEPT ![q] = copy[c][q]]
       /\ todo' = [todo EXCEPT ![c] = @ \ {q}]
       /\ KycGoto(c, IF todo[c] = {q} THEN "done" ELSE "close")
  /\ UNCHANGED <<profileVars, ref, older, started, deed, event, about, copy, written, before>>

DecisionStep(c) == \/ DecideRequest(c) \/ DecideProfile(c) \/ LookAtProfile(c)
                   \/ FindOpen(c) \/ CloseSuperseded(c)

\* A statement or a publish throws, or the process dies.
KycStop(c) ==
  /\ Begun(c) /\ ~Ended(c)
  /\ KycGoto(c, "stopped")
  /\ UNCHANGED <<profileVars, rowVars, started, callVars>>

\* A call arrives, or one under way goes on.
KycArrive == \/ \E s \in Submits : FindProfile(s)
             \/ \E r \in Reviewings : ReadForReview(r)
             \/ \E d \in Deliveries : Receive(d)
KycProceed == \/ \E s \in Submits : SubmitStep(s)
              \/ \E c \in Reviewings \cup Deliveries : DecisionStep(c)
              \/ \E c \in KycCalls : KycStop(c)

KycNext == KycArrive \/ KycProceed

KycSpec == KycInit /\ [][KycNext]_kycVars

-----------------------------------------------------------------------------
(* What is checked. *)

\* Neither of two calls had ended when the other began.
Overlap(c, d) == Begun(c) /\ Begun(d) /\ c \notin before[d] /\ d \notin before[c]

\* The calls that write back a copy of a request's metadata.
Rewrites(c) == c \in Submits \cup Deliveries \/ deed[c] \in {"reject", "approve"}

SameEvent(d, e) == event[d] # NoEvent /\ event[d] = event[e]

\* A webhook event changes a request once: a later delivery changes the same
\* request only if another call, which wrote an older copy of the metadata back,
\* overlapped the first delivery.
ReplayIsRefused ==
  \A d, e \in Deliveries :
    /\ d \in before[e] /\ SameEvent(d, e) /\ about[d] = about[e]
    /\ {d, e} \subseteq written
    => \E c \in KycCalls \ {d, e} : Rewrites(c) /\ Overlap(c, d)

\* A profile is not APPROVED by a request that is REJECTED, unless the rejection
\* is still to be written to the profile, or stopped before it was, or an approval
\* of the same request overlapped it.
RejectionReachesProfile ==
  profile = "APPROVED" /\ granted # Nothing /\ request[granted] = "REJECTED"
  => \E c \in written :
       /\ Rejects(c) /\ about[c] = granted
       /\ \/ kpc[c] \in {"profile", "stopped"}
          \/ \E a \in written : Approves(a) /\ about[a] = granted /\ Overlap(a, c)

\* handleWebhook says it deduplicates: an event whose delivery was processed, where
\* nothing overlapped it or failed, changes no request when it is delivered again.
DuplicateChangesNothing ==
  \A d, e \in Deliveries :
    /\ d \in before[e] /\ SameEvent(d, e) /\ kpc[d] = "done"
    /\ \A c \in KycCalls \ {d} : ~ Overlap(c, d) /\ kpc[c] # "stopped"
    => e \notin written

=============================================================================
