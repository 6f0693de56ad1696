--------------------------- MODULE CustodySigning ---------------------------
(***************************************************************************)
(* The custody service's signing requests: SigningService (create,         *)
(* schedule, delay, execute) and ApprovalService (approve, reject).        *)
(*                                                                         *)
(* Every await is a step, and every update is by id alone.  approve counts *)
(* on the copy it read first: it looks for an earlier row of the same      *)
(* approver, inserts its own, and writes the copy's count plus one.        *)
(*                                                                         *)
(* The policy engine's decision, the key's status at creation and the      *)
(* approver's membership of the signer group are choices of the            *)
(* environment: a refusal leaves no trace here.  All requests that need    *)
(* approvals share one approval policy, which an administrator may edit at *)
(* any time; a request without a policy needs one approval, as under a     *)
(* policy that always says one.                                            *)
(***************************************************************************)
EXTENDS Integers, FiniteSets

CONSTANTS Requests,    \* signing requests
          Approvers,   \* users who may approve
          Approvals,   \* approve calls
          Rejections,  \* reject calls
          Executions,  \* execute calls
          Delays,      \* schedule and delay calls
          RequestOf,   \* RequestOf[a]: the request a call is about
          ApproverOf,  \* ApproverOf[a]: the user behind an approve call
          Thresholds   \* approvals a policy may require

VARIABLES status,     \* status[q]: signing_requests.status, or "none"
          gated,      \* the requests whose requiredApprovals is not 0
          received,   \* received[q]: receivedApprovals
          due,        \* the requests whose scheduledAt and delayUntil are past
          approved,   \* the approve calls whose APPROVED row is inserted
          rejected,   \* the reject calls whose REJECTED row is inserted
          signed,     \* the execute calls whose signature the provider made
          pc,         \* pc[a]: where a call is
          policy,     \* the approvals the policy requires
          seen,       \* seen[a]: receivedApprovals as an approve call read it
          needed      \* needed[a]: the policy as an approve call read it

Calls == Approvals \cup Rejections \cup Executions \cup Delays

rowVars == <<status, gated, received, due>>
logVars == <<approved, rejected, signed>>
readVars == <<policy, seen, needed>>
vars == <<rowVars, logVars, pc, readVars>>

ASSUME RequestOfAssumption == RequestOf \in [Calls -> Requests]
ASSUME ApproverOfAssumption == ApproverOf \in [Approvals -> Approvers]
ASSUME ThresholdsAssumption == Thresholds \subseteq Nat \ {0}
ASSUME CallsAreDistinct ==
  /\ Approvals \cap (Rejections \cup Executions \cup Delays) = {}
  /\ Rejections \cap (Executions \cup Delays) = {} /\ Executions \cap Delays = {}
ASSUME ApproversAreFinite == IsFiniteSet(Approvers)

Statuses == {"none", "AWAITING_APPROVAL", "APPROVED", "REJECTED", "QUEUED",
             "SCHEDULED", "SIGNING", "SIGNED", "FAILED"}

\* A refused call is done too.
Ends == {"done", "stopped"}
PCs == {"read", "policy", "check", "insert", "write", "mark", "sign", "record", "publish", "fail"}
         \cup Ends

TypeOK ==
  /\ status \in [Requests -> Statuses]
  /\ gated \subseteq Requests
  /\ received \in [Requests -> Nat]
  /\ due \subseteq Requests
  /\ approved \subseteq Approvals
  /\ rejected \subseteq Rejections
  /\ signed \subseteq Executions
  /\ pc \in [Calls -> PCs]
  /\ policy \in Thresholds
  /\ seen \in [Approvals -> Nat]
  /\ needed \in [Approvals -> Nat]

Init ==
  /\ status = [q \in Requests |-> "none"]
  /\ gated = {}
  /\ received = [q \in Requests |-> 0]
  /\ due = {}
  /\ approved = {} /\ rejected = {} /\ signed = {}
  /\ pc = [a \in Calls |-> "read"]
  /\ policy \in Thresholds
  /\ seen = [a \in Approvals |-> 0]
  /\ needed = [a \in Approvals |-> 0]

At(a, label) == pc[a] = label
Goto(a, label) == pc' = [pc EXCEPT ![a] = label]
StatusOf(a) == status[RequestOf[a]]
SetStatus(a, s) == status' = [status EXCEPT ![RequestOf[a]] = s]

-----------------------------------------------------------------------------
(* A definition marked Fault is a broken variant of the one it precedes: no  *)
(* specification uses it.                                                    *)

\* persistRequest: the row is inserted as the policies decide; a request they
\* deny, or for a key that is not ACTIVE, is never inserted.
Create(q) ==
  /\ status[q] = "none"
  /\ \/ /\ status' = [status EXCEPT ![q] = "QUEUED"]
        /\ due' = due \cup {q}
        /\ UNCHANGED gated
     \/ /\ status' = [status EXCEPT ![q] = "SCHEDULED"]
        /\ UNCHANGED <<due, gated>>
     \/ /\ status' = [status EXCEPT ![q] = "AWAITING_APPROVAL"]
        /\ due' = due \cup {q}
        /\ gated' = gated \cup {q}
  /\ UNCHANGED <<received, logVars, pc, readVars>>

\* updateApprovalPolicy.
UpdatePolicy ==
  /\ policy' \in Thresholds \ {policy}
  /\ UNCHANGED <<rowVars, logVars, pc, seen, needed>>

\* delayUntil and scheduledAt pass.
TimePasses(q) ==
  /\ status[q] # "none" /\ q \notin due
  /\ due' = due \cup {q}
  /\ UNCHANGED <<status, gated, received, logVars, pc, readVars>>

\* delay: whatever the status is.
Delay(d) ==
  /\ d \in Delays
  /\ At(d, "read")
  /\ StatusOf(d) # "none"
  /\ due' = due \ {RequestOf[d]}
  /\ Goto(d, "done")
  /\ UNCHANGED <<status, gated, received, logVars, readVars>>

\* schedule reads a QUEUED request and makes it SCHEDULED.
ReadForSchedule(d) ==
  /\ d \in Delays
  /\ At(d, "read")
  /\ Goto(d, IF StatusOf(d) = "QUEUED" THEN "write" ELSE "done")
  /\ UNCHANGED <<rowVars, logVars, readVars>>

Schedule(d) ==
  /\ d \in Delays
  /\ At(d, "write")
  /\ SetStatus(d, "SCHEDULED")
  /\ due' = due \ {RequestOf[d]}
  /\ Goto(d, "done")
  /\ UNCHANGED <<gated, received, logVars, readVars>>

-----------------------------------------------------------------------------
(* approve and reject. *)

\* Fault: the request may be in any status.
ReadForApproveAny(a) ==
  /\ a \in Approvals
  /\ At(a, "read")
  /\ StatusOf(a) # "none"
  /\ Goto(a, "policy")
  /\ seen' = [seen EXCEPT ![a] = received[RequestOf[a]]]
  /\ UNCHANGED <<rowVars, logVars, policy, needed>>

ReadForApprove(a) ==
  /\ a \in Approvals
  /\ At(a, "read")
  /\ IF StatusOf(a) = "AWAITING_APPROVAL"
       THEN /\ Goto(a, "policy")
            /\ seen' = [seen EXCEPT ![a] = received[RequestOf[a]]]
       ELSE Goto(a, "done") /\ UNCHANGED seen
  /\ UNCHANGED <<rowVars, logVars, policy, needed>>

ReadPolicy(a) ==
  /\ a \in Approvals
  /\ At(a, "policy")
  /\ needed' = [needed EXCEPT ![a] = policy]
  /\ Goto(a, "check")
  /\ UNCHANGED <<rowVars, logVars, policy, seen>>

\* Fault: an approver may approve again.
FindNoEarlierApproval(a) ==
  /\ a \in Approvals
  /\ At(a, "check")
  /\ Goto(a, "insert")
  /\ UNCHANGED <<rowVars, logVars, readVars>>

ApprovedBy(q, u) == \E b \in approved : RequestOf[b] = q /\ ApproverOf[b] = u

\* An APPROVED row of the same approver is a conflict.
FindEarlierApproval(a) ==
  /\ a \in Approvals
  /\ At(a, "check")
  /\ Goto(a, IF ApprovedBy(RequestOf[a], ApproverOf[a]) THEN "done" ELSE "insert")
  /\ UNCHANGED <<rowVars, logVars, readVars>>

InsertApproval(a) ==
  /\ a \in Approvals
  /\ At(a, "insert")
  /\ approved' = approved \cup {a}
  /\ Goto(a, "write")
  /\ UNCHANGED <<rowVars, rejected, signed, readVars>>

\* Fault: the new approval is counted twice.
SatisfiedOneShort(a) == seen[a] + 2 >= needed[a]

\* isApprovalSatisfied of the count about to be written.
Satisfied(a) == seen[a] + 1 >= needed[a]

CountApproval(a) ==
  /\ a \in Approvals
  /\ At(a, "write")
  /\ received' = [received EXCEPT ![RequestOf[a]] = seen[a] + 1]
  /\ SetStatus(a, IF Satisfied(a) THEN "APPROVED" ELSE "AWAITING_APPROVAL")
  /\ Goto(a, "done")
  /\ UNCHANGED <<gated, due, logVars, readVars>>

ReadForReject(b) ==
  /\ b \in Rejections
  /\ At(b, "read")
  /\ Goto(b, IF StatusOf(b) = "AWAITING_APPROVAL" THEN "insert" ELSE "done")
  /\ UNCHANGED <<rowVars, logVars, readVars>>

InsertRejection(b) ==
  /\ b \in Rejections
  /\ At(b, "insert")
  /\ rejected' = rejected \cup {b}
  /\ Goto(b, "write")
  /\ UNCHANGED <<rowVars, approved, signed, readVars>>

Reject(b) ==
  /\ b \in Rejections
  /\ At(b, "write")
  /\ SetStatus(b, "REJECTED")
  /\ Goto(b, "done")
  /\ UNCHANGED <<gated, received, due, logVars, readVars>>

-----------------------------------------------------------------------------
(* execute. *)

Executable == {"QUEUED", "SCHEDULED", "APPROVED"}

ReadForExecute(e) ==
  /\ e \in Executions
  /\ At(e, "read")
  /\ Goto(e, IF StatusOf(e) \in Executable /\ RequestOf[e] \in due THEN "mark" ELSE "done")
  /\ UNCHANGED <<rowVars, logVars, readVars>>

MarkSigning(e) ==
  /\ At(e, "mark")
  /\ SetStatus(e, "SIGNING")
  /\ Goto(e, "sign")
  /\ UNCHANGED <<gated, received, due, logVars, readVars>>

\* signingSession.create, then provider.sign, which may throw.
Sign(e) ==
  /\ At(e, "sign")
  /\ \/ signed' = signed \cup {e} /\ Goto(e, "record")
     \/ UNCHANGED signed /\ Goto(e, "fail")
  /\ UNCHANGED <<rowVars, approved, rejected, readVars>>

\* The signature is stored.  The catch takes a publish that throws afterwards, and
\* the update itself if it throws.
RecordSigned(e) ==
  /\ At(e, "record")
  /\ \/ SetStatus(e, "SIGNED") /\ \E next \in {"publish", "fail"} : Goto(e, next)
     \/ UNCHANGED status /\ Goto(e, "fail")
  /\ UNCHANGED <<gated, received, due, logVars, readVars>>

Publish(e) ==
  /\ At(e, "publish")
  /\ \E next \in {"done", "fail"} : Goto(e, next)
  /\ UNCHANGED <<rowVars, logVars, readVars>>

\* Fault: the catch only rethrows.
FailSilently(e) ==
  /\ At(e, "fail")
  /\ Goto(e, "done")
  /\ UNCHANGED <<rowVars, logVars, readVars>>

\* The catch: FAILED, over a signature that was already stored too.
MarkFailed(e) ==
  /\ At(e, "fail")
  /\ SetStatus(e, "FAILED")
  /\ Goto(e, "done")
  /\ UNCHANGED <<gated, received, due, logVars, readVars>>

-----------------------------------------------------------------------------

\* A database call outside a try block throws, or the service dies: the call
\* ends where it is, and what it has written stays.  Only an execute that
\* stopped is told apart from one that is done.
Stop(a) ==
  /\ pc[a] \notin Ends \cup {"read"}
  /\ Goto(a, IF a \in Executions THEN "stopped" ELSE "done")
  /\ UNCHANGED <<rowVars, logVars, readVars>>

ApprovalStep(a) == \/ ReadForApprove(a) \/ ReadPolicy(a) \/ FindEarlierApproval(a)
                   \/ InsertApproval(a) \/ CountApproval(a)
RejectionStep(b) == ReadForReject(b) \/ InsertRejection(b) \/ Reject(b)
ExecutionStep(e) == \/ ReadForExecute(e) \/ MarkSigning(e) \/ Sign(e) \/ RecordSigned(e)
                    \/ Publish(e) \/ MarkFailed(e)

Next == \/ UpdatePolicy
        \/ \E q \in Requests : Create(q) \/ TimePasses(q)
        \/ \E d \in Delays : Delay(d) \/ ReadForSchedule(d) \/ Schedule(d)
        \/ \E a \in Approvals : ApprovalStep(a)
        \/ \E b \in Rejections : RejectionStep(b)
        \/ \E e \in Executions : ExecutionStep(e)
        \/ \E a \in Calls : Stop(a)

Spec == Init /\ [][Next]_vars

-----------------------------------------------------------------------------
(* What makes signing correct. *)

\* The distinct users who have approved q.
ApproversOf(q) == {u \in Approvers : ApprovedBy(q, u)}

HasSigned(q) == \E e \in signed : RequestOf[e] = q

\* approve's receivedApprovals is never more than the users who have approved:
\* two calls of one user that race past the duplicate check have read the same
\* count, so they are counted once.
CountIsBacked == \A q \in Requests : received[q] <= Cardinality(ApproversOf(q))

\* As many distinct users have approved q as the policy required when one of
\* them asked it.
Enough(q) ==
  \E a \in approved : RequestOf[a] = q /\ Cardinality(ApproversOf(q)) >= needed[a]

\* approval-policy.ts: the "number of distinct approvals required" have been
\* given before execute signs a request that needs them, whatever counts are
\* lost and however often the policy is edited meanwhile.
SignedIsApproved == \A q \in gated : HasSigned(q) => Enough(q)

\* q is rejected and no call on it is under way.
AtRest(q) ==
  /\ status[q] = "REJECTED"
  /\ \A a \in Calls : RequestOf[a] = q => pc[a] \in Ends \cup {"read"}

\* A rejection that no other call overlapped is final: no later approve, reject,
\* schedule or execute call gets past its status check, so nothing signs it.
QuietRejectionHolds == [][\A q \in Requests : AtRest(q) => AtRest(q)']_vars

\* A request does not stay SIGNING: the execute that wrote it last is about to
\* make it SIGNED or FAILED, unless the service stopped under the call.
SigningIsOwed ==
  \A q \in Requests : status[q] = "SIGNING" =>
    \E e \in Executions : /\ RequestOf[e] = q
                          /\ pc[e] \in {"sign", "record", "fail", "stopped"}

\* approval-policy.ts:39: "any single rejection vetoes the request, regardless
\* of policy kind": no signature is made of a request once a rejection of it is
\* recorded.
RejectionVetoes ==
  [][\A q \in Requests : (\E b \in rejected : RequestOf[b] = q) /\ ~ HasSigned(q)
                            => ~ HasSigned(q)']_vars

-----------------------------------------------------------------------------
(* Signing keeps what SigningPromise promises: a user consents where the     *)
(* APPROVED row is inserted, with the policy read before, and a signature is *)
(* made where the provider makes it; every other step but Create stutters.   *)

Promise == INSTANCE SigningPromise WITH
  kind <- [q \in Requests |-> IF status[q] = "none" THEN "none"
                              ELSE IF q \in gated THEN "gated" ELSE "free"],
  consenting <- [q \in Requests |-> ApproversOf(q)],
  told <- [q \in Requests |-> {needed[a] : a \in {b \in approved : RequestOf[b] = q}}],
  made <- {q \in Requests : HasSigned(q)}

ImplementsSigningPromise == Promise!PromiseSpec

=============================================================================
