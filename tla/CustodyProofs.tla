---------------------------- MODULE CustodyProofs ----------------------------
(***************************************************************************)
(* The two halves of the custody service, for any number of calls.         *)
(*                                                                         *)
(* CustodySigning keeps its types, never counts more approvals than there  *)
(* are approvers, and signs only what was approved.                        *)
(*                                                                         *)
(* In CustodyKeys the key row holds the material of the version it names,  *)
(* versions only go forward, a recovery is approved by enough calls, and a *)
(* key is not left RECOVERING for nothing.                                 *)
(***************************************************************************)
EXTENDS CustodySigning, CustodyKeys, FiniteSetTheorems, TLAPS

-----------------------------------------------------------------------------
(* Signing requests: the inductive invariant.                                *)

\* A request that is not there yet: every call on it has still to read it.
Fresh ==
  \A q \in Requests : status[q] = "none" =>
    /\ q \notin gated
    /\ \A a \in Calls : RequestOf[a] = q => pc[a] \in {"read", "done"}
    /\ \A a \in approved \cup signed : RequestOf[a] # q

\* q needs no approvals, or has them.
Ready(q) == q \in gated => Enough(q)

\* What may be executed is ready, and so is what an execute call is past its
\* checks with, or has signed.
ReadyWhenExecutable ==
  /\ \A q \in Requests : status[q] \in {"QUEUED", "SCHEDULED"} => q \notin gated
  /\ \A q \in Requests : status[q] = "APPROVED" => Enough(q)
  /\ \A d \in Delays : At(d, "write") => RequestOf[d] \notin gated
  /\ \A e \in Executions : At(e, "mark") \/ At(e, "sign") => Ready(RequestOf[e])
  /\ \A e \in signed : Ready(RequestOf[e])

\* The users other than a's own who have approved what a is about.
Others(a) == ApproversOf(RequestOf[a]) \ {ApproverOf[a]}

\* What an approve call has read is backed by rows; past the duplicate check, by
\* rows of other users than its own.
SeenIsBacked ==
  \A a \in Approvals :
    /\ pc[a] \in {"policy", "check"} => seen[a] <= Cardinality(ApproversOf(RequestOf[a]))
    /\ pc[a] \in {"insert", "write"} => seen[a] <= Cardinality(Others(a))
    /\ pc[a] = "write" => a \in approved
    /\ a \in approved => pc[a] \in {"write", "done"}

IInv == TypeOK /\ Fresh /\ ReadyWhenExecutable /\ SeenIsBacked /\ CountIsBacked

-----------------------------------------------------------------------------
(* The approvers of a request.                                               *)

LEMMA ApproversAreSet ==
  ASSUME NEW q
  PROVE  /\ IsFiniteSet(ApproversOf(q))
         /\ Cardinality(ApproversOf(q)) \in Nat
<1>1. ApproversOf(q) \subseteq Approvers
  BY DEF ApproversOf
<1> QED
  BY <1>1, ApproversAreFinite, FS_Subset, FS_CardinalityType

LEMMA OthersAreSet ==
  ASSUME NEW a
  PROVE  /\ IsFiniteSet(Others(a))
         /\ Cardinality(Others(a)) \in Nat
         /\ Cardinality(Others(a)) <= Cardinality(ApproversOf(RequestOf[a]))
<1>1. Others(a) \subseteq ApproversOf(RequestOf[a])
  BY DEF Others
<1> QED
  BY <1>1, ApproversAreSet, FS_Subset, FS_CardinalityType

\* A step that inserts rows, or none, loses no approver.
LEMMA ApproversGrow ==
  ASSUME approved \subseteq approved'
  PROVE  /\ \A q : /\ ApproversOf(q) \subseteq ApproversOf(q)'
                   /\ Cardinality(ApproversOf(q)) <= Cardinality(ApproversOf(q)')
         /\ \A a : Cardinality(Others(a)) <= Cardinality(Others(a)')
<1>1. ASSUME NEW q
      PROVE  /\ ApproversOf(q) \subseteq ApproversOf(q)'
             /\ Cardinality(ApproversOf(q)) <= Cardinality(ApproversOf(q)')
  <2>1. ApproversOf(q) \subseteq ApproversOf(q)'
    BY DEF ApproversOf, ApprovedBy
  <2>2. ApproversOf(q)' \subseteq Approvers
    BY DEF ApproversOf
  <2>3. IsFiniteSet(ApproversOf(q)')
    BY <2>2, ApproversAreFinite, FS_Subset
  <2> QED
    BY <2>1, <2>3, FS_Subset
<1>2. ASSUME NEW a
      PROVE  Cardinality(Others(a)) <= Cardinality(Others(a)')
  <2>1. Others(a) \subseteq Others(a)'
    BY <1>1 DEF Others
  <2>2. Others(a)' \subseteq Approvers
    BY DEF Others, ApproversOf
  <2>3. IsFiniteSet(Others(a)')
    BY <2>2, ApproversAreFinite, FS_Subset
  <2> QED
    BY <2>1, <2>3, FS_Subset
<1> QED
  BY <1>1, <1>2

-----------------------------------------------------------------------------
(* Init => IInv, and every step keeps each conjunct of IInv.                 *)

LEMMA InitIInv == Init => IInv
<1> SUFFICES ASSUME Init PROVE IInv
  OBVIOUS
<1>1. TypeOK
  BY RequestOfAssumption, ThresholdsAssumption
  DEF Init, TypeOK, Statuses, PCs
<1>2. Fresh
  BY DEF Init, Fresh
<1>3. ReadyWhenExecutable
  BY RequestOfAssumption DEF Init, ReadyWhenExecutable, At, Calls
<1>4. SeenIsBacked
  BY DEF Init, SeenIsBacked, Calls
<1>5. CountIsBacked
  BY ApproversAreSet DEF Init, CountIsBacked
<1> QED
  BY <1>1, <1>2, <1>3, <1>4, <1>5 DEF IInv

LEMMA TypeStep ==
  ASSUME TypeOK, Next
  PROVE  TypeOK'
<1> USE RequestOfAssumption, ThresholdsAssumption
    DEF TypeOK, Calls, Statuses, PCs, Ends, At, Goto, SetStatus, StatusOf,
        rowVars, logVars, readVars
<1>1. CASE UpdatePolicy
  BY <1>1 DEF UpdatePolicy
<1>2. ASSUME NEW q \in Requests, Create(q) \/ TimePasses(q)
      PROVE  TypeOK'
  BY <1>2 DEF Create, TimePasses
<1>3. ASSUME NEW d \in Delays, Delay(d) \/ ReadForSchedule(d) \/ Schedule(d)
      PROVE  TypeOK'
  BY <1>3 DEF Delay, ReadForSchedule, Schedule
<1>4. ASSUME NEW a \in Approvals, ApprovalStep(a)
      PROVE  TypeOK'
  <2>1. CASE ReadForApprove(a)
    BY <2>1 DEF ReadForApprove
  <2>2. CASE ReadPolicy(a)
    BY <2>2 DEF ReadPolicy
  <2>3. CASE FindEarlierApproval(a)
    BY <2>3 DEF FindEarlierApproval
  <2>4. CASE InsertApproval(a)
    BY <2>4 DEF InsertApproval
  <2>5. CASE CountApproval(a)
    BY <2>5 DEF CountApproval
  <2> QED
    BY <1>4, <2>1, <2>2, <2>3, <2>4, <2>5 DEF ApprovalStep
<1>5. ASSUME NEW b \in Rejections, RejectionStep(b)
      PROVE  TypeOK'
  BY <1>5 DEF RejectionStep, ReadForReject, InsertRejection, Reject
<1>6. ASSUME NEW e \in Executions, ExecutionStep(e)
      PROVE  TypeOK'
  <2>1. CASE ReadForExecute(e) \/ MarkSigning(e)
    BY <1>6, <2>1 DEF ReadForExecute, MarkSigning
  <2>2. CASE Sign(e)
    BY <1>6, <2>2 DEF Sign
  <2>3. CASE RecordSigned(e) \/ Publish(e) \/ MarkFailed(e)
    BY <1>6, <2>3 DEF RecordSigned, Publish, MarkFailed
  <2> QED
    BY <1>6, <2>1, <2>2, <2>3 DEF ExecutionStep
<1>7. ASSUME NEW a \in Calls, Stop(a)
      PROVE  TypeOK'
  BY <1>7 DEF Stop
<1> QED
  BY <1>1, <1>2, <1>3, <1>4, <1>5, <1>6, <1>7 DEF Next

LEMMA FreshStep ==
  ASSUME TypeOK, Fresh, Next
  PROVE  Fresh'
<1> USE RequestOfAssumption
    DEF TypeOK, Fresh, Calls, Ends, At, Goto, SetStatus, StatusOf,
        rowVars, logVars, readVars
<1>1. CASE UpdatePolicy
  BY <1>1 DEF UpdatePolicy
<1>2. ASSUME NEW q \in Requests, Create(q) \/ TimePasses(q)
      PROVE  Fresh'
  BY <1>2 DEF Create, TimePasses
<1>3. ASSUME NEW d \in Delays, Delay(d) \/ ReadForSchedule(d) \/ Schedule(d)
      PROVE  Fresh'
  BY <1>3 DEF Delay, ReadForSchedule, Schedule
<1>4. ASSUME NEW a \in Approvals, ApprovalStep(a)
      PROVE  Fresh'
  <2>1. CASE ReadForApprove(a)
    BY <2>1 DEF ReadForApprove
  <2>2. CASE ReadPolicy(a)
    BY <2>2 DEF ReadPolicy
  <2>3. CASE FindEarlierApproval(a)
    BY <2>3 DEF FindEarlierApproval
  <2>4. CASE InsertApproval(a)
    BY <2>4 DEF InsertApproval
  <2>5. CASE CountApproval(a)
    BY <2>5 DEF CountApproval
  <2> QED
    BY <1>4, <2>1, <2>2, <2>3, <2>4, <2>5 DEF ApprovalStep
<1>5. ASSUME NEW b \in Rejections, RejectionStep(b)
      PROVE  Fresh'
  BY <1>5 DEF RejectionStep, ReadForReject, InsertRejection, Reject
<1>6. ASSUME NEW e \in Executions, ExecutionStep(e)
      PROVE  Fresh'
  <2>1. CASE ReadForExecute(e) \/ MarkSigning(e)
    BY <1>6, <2>1 DEF ReadForExecute, MarkSigning, Executable
  <2>2. CASE Sign(e)
    BY <1>6, <2>2 DEF Sign
  <2>3. CASE RecordSigned(e) \/ Publish(e) \/ MarkFailed(e)
    BY <1>6, <2>3 DEF RecordSigned, Publish, MarkFailed
  <2> QED
    BY <1>6, <2>1, <2>2, <2>3 DEF ExecutionStep
<1>7. ASSUME NEW a \in Calls, Stop(a)
      PROVE  Fresh'
  BY <1>7 DEF Stop
<1> QED
  BY <1>1, <1>2, <1>3, <1>4, <1>5, <1>6, <1>7 DEF Next

\* No step takes an approval back, or changes what an approve call that has
\* inserted its row found the policy to require.
LEMMA ApprovalsStand ==
  ASSUME TypeOK, SeenIsBacked, Next
  PROVE  /\ approved \subseteq approved'
         /\ \A a \in approved : needed'[a] = needed[a]
<1> USE DEF rowVars, logVars, readVars
<1>1. CASE UpdatePolicy
  BY <1>1 DEF UpdatePolicy
<1>2. ASSUME NEW q \in Requests, Create(q) \/ TimePasses(q)
      PROVE  approved' = approved /\ needed' = needed
  BY <1>2 DEF Create, TimePasses
<1>3. ASSUME NEW d \in Delays, Delay(d) \/ ReadForSchedule(d) \/ Schedule(d)
      PROVE  approved' = approved /\ needed' = needed
  BY <1>3 DEF Delay, ReadForSchedule, Schedule
<1>4. ASSUME NEW a \in Approvals, ApprovalStep(a)
      PROVE  /\ approved \subseteq approved'
             /\ \A b \in approved : needed'[b] = needed[b]
  <2>1. CASE ReadPolicy(a)
    BY <2>1 DEF ReadPolicy, TypeOK, SeenIsBacked, At
  <2>2. CASE ReadForApprove(a) \/ FindEarlierApproval(a) \/ InsertApproval(a)
                \/ CountApproval(a)
    BY <2>2 DEF ReadForApprove, FindEarlierApproval, InsertApproval, CountApproval
  <2> QED
    BY <1>4, <2>1, <2>2 DEF ApprovalStep
<1>5. ASSUME NEW b \in Rejections, RejectionStep(b)
      PROVE  approved' = approved /\ needed' = needed
  BY <1>5 DEF RejectionStep, ReadForReject, InsertRejection, Reject
<1>6. ASSUME NEW e \in Executions, ExecutionStep(e)
      PROVE  approved' = approved /\ needed' = needed
  BY <1>6 DEF ExecutionStep, ReadForExecute, MarkSigning, Sign, RecordSigned, Publish,
              MarkFailed
<1>7. ASSUME NEW a \in Calls, Stop(a)
      PROVE  approved' = approved /\ needed' = needed
  BY <1>7 DEF Stop
<1> QED
  BY <1>1, <1>2, <1>3, <1>4, <1>5, <1>6, <1>7 DEF Next

\* So a request that has enough approvals keeps them.
LEMMA EnoughStands ==
  ASSUME TypeOK, TypeOK', SeenIsBacked, Next, NEW q, Enough(q)
  PROVE  Enough(q)'
<1>1. /\ approved \subseteq approved'
      /\ \A a \in approved : needed'[a] = needed[a]
  BY ApprovalsStand
<1>2. PICK a \in approved :
        RequestOf[a] = q /\ Cardinality(ApproversOf(q)) >= needed[a]
  BY DEF Enough
<1>3. Cardinality(ApproversOf(q)) <= Cardinality(ApproversOf(q)')
  BY <1>1, ApproversGrow
<1>4. IsFiniteSet(ApproversOf(q)')
  <2>1. ApproversOf(q)' \subseteq Approvers
    BY DEF ApproversOf
  <2> QED
    BY <2>1, ApproversAreFinite, FS_Subset
<1>5. Cardinality(ApproversOf(q)') \in Nat /\ Cardinality(ApproversOf(q)) \in Nat
  BY <1>4, ApproversAreSet, FS_CardinalityType
<1>6. needed[a] \in Nat /\ needed'[a] = needed[a] /\ a \in approved'
  BY <1>1, <1>2 DEF TypeOK
<1>7. Cardinality(ApproversOf(q)') >= needed'[a]
  BY <1>2, <1>3, <1>5, <1>6
<1> QED
  BY <1>2, <1>6, <1>7 DEF Enough

\* A count that rows of other users back is, with a's own row, backed with one
\* to spare.
LEMMA OwnApprovalCounts ==
  ASSUME NEW a \in Approvals, a \in approved
  PROVE  Cardinality(ApproversOf(RequestOf[a])) = Cardinality(Others(a)) + 1
<1>1. ApproverOf[a] \in ApproversOf(RequestOf[a])
  BY ApproverOfAssumption DEF ApproversOf, ApprovedBy
<1>2. Cardinality(Others(a)) = Cardinality(ApproversOf(RequestOf[a])) - 1
  BY <1>1, ApproversAreSet, FS_RemoveElement DEF Others
<1> QED
  BY <1>2, ApproversAreSet

LEMMA ReadyStep ==
  ASSUME IInv, TypeOK', Next
  PROVE  ReadyWhenExecutable'
<1> DEFINE Kept == \A q \in Requests : Enough(q) => Enough(q)'
<1>1. Kept
  BY EnoughStands DEF IInv
<1> HIDE DEF Kept
<1>2. CASE UpdatePolicy
  BY <1>1, <1>2, RequestOfAssumption
  DEF UpdatePolicy, Kept, IInv, TypeOK, ReadyWhenExecutable, Ready, At, Calls,
      rowVars, logVars
<1> USE RequestOfAssumption
    DEF Kept, IInv, TypeOK, ReadyWhenExecutable, Ready, At, Goto, Calls, SetStatus,
        StatusOf, rowVars, logVars, readVars
<1>3. ASSUME NEW q \in Requests, Create(q) \/ TimePasses(q)
      PROVE  ReadyWhenExecutable'
  BY <1>1, <1>3 DEF Create, TimePasses, Fresh
<1>4. ASSUME NEW d \in Delays, Delay(d) \/ ReadForSchedule(d) \/ Schedule(d)
      PROVE  ReadyWhenExecutable'
  BY <1>1, <1>4, CallsAreDistinct DEF Delay, ReadForSchedule, Schedule
<1>5. ASSUME NEW a \in Approvals, ApprovalStep(a)
      PROVE  ReadyWhenExecutable'
  <2>1. CASE ReadForApprove(a)
    BY <1>1, <2>1, CallsAreDistinct DEF ReadForApprove
  <2>2. CASE ReadPolicy(a)
    BY <1>1, <2>2, CallsAreDistinct DEF ReadPolicy
  <2>3. CASE FindEarlierApproval(a)
    BY <1>1, <2>3, CallsAreDistinct DEF FindEarlierApproval
  <2>4. CASE InsertApproval(a)
    BY <1>1, <2>4, CallsAreDistinct DEF InsertApproval
  <2>5. CASE CountApproval(a)
    <3>1. a \in approved /\ seen[a] <= Cardinality(Others(a))
      BY <2>5 DEF CountApproval, SeenIsBacked
    <3>2. Cardinality(ApproversOf(RequestOf[a])) >= seen[a] + 1
      BY <3>1, OwnApprovalCounts, OthersAreSet
    <3>3. Satisfied(a) => Enough(RequestOf[a])
      BY <3>1, <3>2, ApproversAreSet DEF Satisfied, Enough
    <3> QED
      BY <1>1, <2>5, <3>3, CallsAreDistinct DEF CountApproval
  <2> QED
    BY <1>5, <2>1, <2>2, <2>3, <2>4, <2>5 DEF ApprovalStep
<1>6. ASSUME NEW b \in Rejections, RejectionStep(b)
      PROVE  ReadyWhenExecutable'
  BY <1>1, <1>6, CallsAreDistinct
  DEF RejectionStep, ReadForReject, InsertRejection, Reject
<1>7. ASSUME NEW e \in Executions, ExecutionStep(e)
      PROVE  ReadyWhenExecutable'
  <2>1. CASE ReadForExecute(e)
    BY <1>1, <1>7, <2>1, CallsAreDistinct DEF ReadForExecute, Executable
  <2>2. CASE MarkSigning(e)
    BY <1>1, <1>7, <2>2, CallsAreDistinct DEF MarkSigning
  <2>3. CASE Sign(e)
    BY <1>1, <1>7, <2>3, CallsAreDistinct DEF Sign
  <2>4. CASE RecordSigned(e) \/ Publish(e) \/ MarkFailed(e)
    BY <1>1, <1>7, <2>4, CallsAreDistinct DEF RecordSigned, Publish, MarkFailed
  <2> QED
    BY <1>7, <2>1, <2>2, <2>3, <2>4 DEF ExecutionStep
<1>8. ASSUME NEW a \in Calls, Stop(a)
      PROVE  ReadyWhenExecutable'
  BY <1>1, <1>8 DEF Stop, Ends
<1> QED
  BY <1>2, <1>3, <1>4, <1>5, <1>6, <1>7, <1>8 DEF Next

\* Cardinalities only grow, and are numbers before and after a step.
LEMMA CountsGrow ==
  ASSUME TypeOK, SeenIsBacked, Next
  PROVE  /\ \A q : /\ Cardinality(ApproversOf(q)) \in Nat
                   /\ Cardinality(ApproversOf(q)') \in Nat
                   /\ Cardinality(ApproversOf(q)) <= Cardinality(ApproversOf(q)')
         /\ \A a : /\ Cardinality(Others(a)) \in Nat
                   /\ Cardinality(Others(a)') \in Nat
                   /\ Cardinality(Others(a)) <= Cardinality(Others(a)')
<1>1. ASSUME NEW q
      PROVE  IsFiniteSet(ApproversOf(q)')
  <2>1. ApproversOf(q)' \subseteq Approvers
    BY DEF ApproversOf
  <2> QED
    BY <2>1, ApproversAreFinite, FS_Subset
<1>2. ASSUME NEW a
      PROVE  IsFiniteSet(Others(a)')
  <2>1. Others(a)' \subseteq Approvers
    BY DEF Others, ApproversOf
  <2> QED
    BY <2>1, ApproversAreFinite, FS_Subset
<1>3. ASSUME NEW q
      PROVE  Cardinality(ApproversOf(q)) \in Nat /\ Cardinality(ApproversOf(q)') \in Nat
  BY <1>1, ApproversAreSet, FS_CardinalityType
<1>4. ASSUME NEW a
      PROVE  Cardinality(Others(a)) \in Nat /\ Cardinality(Others(a)') \in Nat
  BY <1>2, OthersAreSet, FS_CardinalityType
<1>5. approved \subseteq approved'
  BY ApprovalsStand
<1> QED
  BY <1>3, <1>4, <1>5, ApproversGrow

LEMMA SeenStep ==
  ASSUME TypeOK, SeenIsBacked, CountIsBacked, Next
  PROVE  SeenIsBacked'
<1> DEFINE S(a) == Cardinality(ApproversOf(RequestOf[a]))
           O(a) == Cardinality(Others(a))
<1>1. \A a \in Approvals : /\ S(a) \in Nat /\ S(a)' \in Nat /\ S(a) <= S(a)'
                           /\ O(a) \in Nat /\ O(a)' \in Nat /\ O(a) <= O(a)'
  BY CountsGrow
<1>2. \A a \in Approvals : received[RequestOf[a]] <= S(a)
  BY RequestOfAssumption DEF CountIsBacked, Calls
<1>3. \A a \in Approvals :
        ~ ApprovedBy(RequestOf[a], ApproverOf[a]) => O(a) = S(a)
  <2> SUFFICES ASSUME NEW a \in Approvals, ~ ApprovedBy(RequestOf[a], ApproverOf[a])
               PROVE  O(a) = S(a)
    OBVIOUS
  <2>1. Others(a) = ApproversOf(RequestOf[a])
    BY DEF Others, ApproversOf
  <2> QED
    BY <2>1
<1>4. \A a \in Approvals :
        /\ pc[a] \in {"policy", "check"} => seen[a] <= S(a)
        /\ pc[a] \in {"insert", "write"} => seen[a] <= O(a)
        /\ pc[a] = "write" => a \in approved
        /\ a \in approved => pc[a] \in {"write", "done"}
  BY DEF SeenIsBacked
<1>5. SUFFICES \A a \in Approvals :
        /\ pc'[a] \in {"policy", "check"} => seen'[a] <= S(a)'
        /\ pc'[a] \in {"insert", "write"} => seen'[a] <= O(a)'
        /\ pc'[a] = "write" => a \in approved'
        /\ a \in approved' => pc'[a] \in {"write", "done"}
  BY DEF SeenIsBacked
<1> HIDE DEF S, O
<1> DEFINE Goal == \A a \in Approvals :
        /\ pc'[a] \in {"policy", "check"} => seen'[a] <= S(a)'
        /\ pc'[a] \in {"insert", "write"} => seen'[a] <= O(a)'
        /\ pc'[a] = "write" => a \in approved'
        /\ a \in approved' => pc'[a] \in {"write", "done"}
<1> USE <1>1, <1>4, CallsAreDistinct, RequestOfAssumption
    DEF TypeOK, At, Goto, Calls, SetStatus, StatusOf, Ends, rowVars, logVars, readVars
<1>6. CASE UpdatePolicy
  BY <1>6 DEF UpdatePolicy
<1>7. ASSUME NEW q \in Requests, Create(q) \/ TimePasses(q)
      PROVE  Goal
  BY <1>7 DEF Create, TimePasses
<1>8. ASSUME NEW d \in Delays, Delay(d) \/ ReadForSchedule(d) \/ Schedule(d)
      PROVE  Goal
  BY <1>8 DEF Delay, ReadForSchedule, Schedule
<1>9. ASSUME NEW a \in Approvals, ApprovalStep(a)
      PROVE  Goal
  <2>1. CASE ReadForApprove(a)
    BY <1>2, <2>1 DEF ReadForApprove
  <2>2. CASE ReadPolicy(a)
    BY <2>2 DEF ReadPolicy
  <2>3. CASE FindEarlierApproval(a)
    BY <1>3, <2>3 DEF FindEarlierApproval
  <2>4. CASE InsertApproval(a)
    BY <2>4 DEF InsertApproval
  <2>5. CASE CountApproval(a)
    BY <2>5 DEF CountApproval
  <2> QED
    BY <1>9, <2>1, <2>2, <2>3, <2>4, <2>5 DEF ApprovalStep
<1>10. ASSUME NEW b \in Rejections, RejectionStep(b)
      PROVE  Goal
  BY <1>10 DEF RejectionStep, ReadForReject, InsertRejection, Reject
<1>11. ASSUME NEW e \in Executions, ExecutionStep(e)
      PROVE  Goal
  BY <1>11 DEF ExecutionStep, ReadForExecute, MarkSigning, Sign, RecordSigned, Publish,
               MarkFailed
<1>12. ASSUME NEW a \in Calls, Stop(a)
      PROVE  Goal
  BY <1>12 DEF Stop
<1> QED
  BY <1>6, <1>7, <1>8, <1>9, <1>10, <1>11, <1>12 DEF Next

LEMMA CountStep ==
  ASSUME TypeOK, SeenIsBacked, CountIsBacked, Next
  PROVE  CountIsBacked'
<1> DEFINE S(q) == Cardinality(ApproversOf(q))
<1>1. \A q \in Requests : S(q) \in Nat /\ S(q)' \in Nat /\ S(q) <= S(q)'
  BY CountsGrow
<1>2. \A q \in Requests : received[q] \in Nat /\ received[q] <= S(q)
  BY DEF CountIsBacked, TypeOK
<1>3. SUFFICES \A q \in Requests : received'[q] <= S(q)'
  BY DEF CountIsBacked
<1>4. CASE \E a \in Approvals : CountApproval(a)
  <2>1. PICK a \in Approvals : CountApproval(a)
    BY <1>4
  <2>2. a \in approved /\ seen[a] <= Cardinality(Others(a)) /\ seen[a] \in Nat
    BY <2>1 DEF CountApproval, SeenIsBacked, At, TypeOK
  <2>3. seen[a] + 1 <= S(RequestOf[a])
    BY <2>2, OwnApprovalCounts, OthersAreSet
  <2>4. received' = [received EXCEPT ![RequestOf[a]] = seen[a] + 1]
    BY <2>1 DEF CountApproval
  <2> HIDE DEF S
  <2> QED
    BY <1>1, <1>2, <2>2, <2>3, <2>4, RequestOfAssumption DEF TypeOK, Calls
<1>5. CASE received' = received
  <2> HIDE DEF S
  <2> QED
    BY <1>1, <1>2, <1>5
<1>6. (\E a \in Approvals : CountApproval(a)) \/ received' = received
  BY DEF Next, UpdatePolicy, Create, TimePasses, Delay, ReadForSchedule, Schedule,
         ApprovalStep, ReadForApprove, ReadPolicy, FindEarlierApproval, InsertApproval,
         RejectionStep, ReadForReject, InsertRejection, Reject, ExecutionStep,
         ReadForExecute, MarkSigning, Sign, RecordSigned, Publish, MarkFailed, Stop,
         rowVars, logVars, readVars
<1> QED
  BY <1>4, <1>5, <1>6

LEMMA IInvStep == IInv /\ [Next]_vars => IInv'
<1> SUFFICES ASSUME IInv, [Next]_vars PROVE IInv'
  OBVIOUS
<1>1. CASE Next
  <2>1. TypeOK'
    BY <1>1, TypeStep DEF IInv
  <2>2. Fresh'
    BY <1>1, FreshStep DEF IInv
  <2>3. ReadyWhenExecutable'
    BY <1>1, <2>1, ReadyStep
  <2>4. SeenIsBacked'
    BY <1>1, SeenStep DEF IInv
  <2>5. CountIsBacked'
    BY <1>1, CountStep DEF IInv
  <2> QED
    BY <2>1, <2>2, <2>3, <2>4, <2>5 DEF IInv
<1>2. CASE UNCHANGED vars
  <2>1. TypeOK' /\ Fresh'
    BY <1>2 DEF IInv, TypeOK, Fresh, vars, rowVars, logVars, readVars
  <2>2. ReadyWhenExecutable'
    BY <1>2 DEF IInv, ReadyWhenExecutable, Ready, Enough, ApproversOf, ApprovedBy, At,
                vars, rowVars, logVars, readVars
  <2>3. SeenIsBacked' /\ CountIsBacked'
    BY <1>2 DEF IInv, SeenIsBacked, CountIsBacked, Others, ApproversOf, ApprovedBy,
                vars, rowVars, logVars, readVars
  <2> QED
    BY <2>1, <2>2, <2>3 DEF IInv
<1> QED
  BY <1>1, <1>2

\* A SIGNING request keeps the execute call that owes it an end: nobody but an
\* execute call moves itself, and it leaves "sign", "record" and "fail" only with
\* another status, or stopped.
LEMMA SigningStep ==
  ASSUME TypeOK, SigningIsOwed, [Next]_vars
  PROVE  SigningIsOwed'
<1> USE RequestOfAssumption, CallsAreDistinct
    DEF TypeOK, SigningIsOwed, Calls, Ends, At, Goto, SetStatus, StatusOf, rowVars,
        logVars, readVars
<1>1. CASE UpdatePolicy \/ UNCHANGED vars
  BY <1>1 DEF UpdatePolicy, vars
<1>2. ASSUME NEW q \in Requests, Create(q) \/ TimePasses(q)
      PROVE  SigningIsOwed'
  BY <1>2 DEF Create, TimePasses
<1>3. ASSUME NEW d \in Delays, Delay(d) \/ ReadForSchedule(d) \/ Schedule(d)
      PROVE  SigningIsOwed'
  BY <1>3 DEF Delay, ReadForSchedule, Schedule
<1>4. ASSUME NEW a \in Approvals, ApprovalStep(a)
      PROVE  SigningIsOwed'
  <2>1. CASE CountApproval(a)
    BY <2>1 DEF CountApproval
  <2>2. CASE ReadForApprove(a) \/ ReadPolicy(a) \/ FindEarlierApproval(a)
                \/ InsertApproval(a)
    BY <2>2 DEF ReadForApprove, ReadPolicy, FindEarlierApproval, InsertApproval
  <2> QED
    BY <1>4, <2>1, <2>2 DEF ApprovalStep
<1>5. ASSUME NEW b \in Rejections, RejectionStep(b)
      PROVE  SigningIsOwed'
  BY <1>5 DEF RejectionStep, ReadForReject, InsertRejection, Reject
<1>6. ASSUME NEW e \in Executions, ExecutionStep(e)
      PROVE  SigningIsOwed'
  <2>1. CASE ReadForExecute(e)
    BY <1>6, <2>1 DEF ReadForExecute
  <2>2. CASE MarkSigning(e)
    BY <1>6, <2>2 DEF MarkSigning
  <2>3. CASE Sign(e)
    BY <1>6, <2>3 DEF Sign
  <2>4. CASE RecordSigned(e)
    BY <1>6, <2>4 DEF RecordSigned
  <2>5. CASE Publish(e) \/ MarkFailed(e)
    BY <1>6, <2>5 DEF Publish, MarkFailed
  <2> QED
    BY <1>6, <2>1, <2>2, <2>3, <2>4, <2>5 DEF ExecutionStep
<1>7. ASSUME NEW a \in Calls, Stop(a)
      PROVE  SigningIsOwed'
  BY <1>7 DEF Stop
<1> QED
  BY <1>1, <1>2, <1>3, <1>4, <1>5, <1>6, <1>7 DEF Next

-----------------------------------------------------------------------------
(* The theorems.                                                             *)

\* Whatever interleaving of create, schedule, delay, approve, reject and execute
\* calls, the inductive invariant holds.
THEOREM Invariance == Spec => []IInv
<1> QED
  BY InitIInv, IInvStep, PTL DEF Spec

\* The rows of signing_requests and the calls' copies keep their types.
THEOREM TypeCorrect == Spec => []TypeOK
<1>1. IInv => TypeOK
  BY DEF IInv
<1> QED
  BY <1>1, Invariance, PTL

\* approve never counts more approvals than distinct users have given.
THEOREM CountsBacked == Spec => []CountIsBacked
<1>1. IInv => CountIsBacked
  BY DEF IInv
<1> QED
  BY <1>1, Invariance, PTL

\* execute signs a request that needs approvals only when as many distinct users
\* have approved it as the policy required of one of them.
THEOREM SignedOnlyApproved == Spec => []SignedIsApproved
<1>1. IInv => SignedIsApproved
  BY DEF IInv, ReadyWhenExecutable, Ready, SignedIsApproved, HasSigned
<1> QED
  BY <1>1, Invariance, PTL

\* A request does not stay SIGNING unless the service stopped under the call that
\* signs it: that call, or a later one, still writes SIGNED or FAILED.
THEOREM SigningOwed == Spec => []SigningIsOwed
<1>1. Init => SigningIsOwed
  BY DEF Init, SigningIsOwed
<1>2. TypeOK /\ SigningIsOwed /\ [Next]_vars => SigningIsOwed'
  BY SigningStep
<1> QED
  BY <1>1, <1>2, TypeCorrect, PTL DEF Spec

\* A rejection that no call overlaps stays: the checks on the status that every
\* call makes first keep all later calls out.
THEOREM QuietRejectionStays == Spec => QuietRejectionHolds
<1>1. ASSUME TypeOK, [Next]_vars, NEW q \in Requests, AtRest(q)
      PROVE  AtRest(q)'
  <2> USE <1>1, RequestOfAssumption
      DEF TypeOK, AtRest, Ends, At, Goto, Calls, SetStatus, StatusOf, rowVars, logVars,
          readVars
  <2>1. CASE UpdatePolicy
    BY <2>1 DEF UpdatePolicy
  <2>2. ASSUME NEW p \in Requests, Create(p) \/ TimePasses(p)
        PROVE  AtRest(q)'
    BY <2>2 DEF Create, TimePasses
  <2>3. ASSUME NEW d \in Delays, Delay(d) \/ ReadForSchedule(d) \/ Schedule(d)
        PROVE  AtRest(q)'
    BY <2>3 DEF Delay, ReadForSchedule, Schedule
  <2>4. ASSUME NEW a \in Approvals, ApprovalStep(a)
        PROVE  AtRest(q)'
    BY <2>4 DEF ApprovalStep, ReadForApprove, ReadPolicy, FindEarlierApproval,
                InsertApproval, CountApproval
  <2>5. ASSUME NEW b \in Rejections, RejectionStep(b)
        PROVE  AtRest(q)'
    BY <2>5 DEF RejectionStep, ReadForReject, InsertRejection, Reject
  <2>6. ASSUME NEW e \in Executions, ExecutionStep(e)
        PROVE  AtRest(q)'
    BY <2>6 DEF ExecutionStep, ReadForExecute, Executable, MarkSigning, Sign,
                RecordSigned, Publish, MarkFailed
  <2>7. ASSUME NEW a \in Calls, Stop(a)
        PROVE  AtRest(q)'
    BY <2>7 DEF Stop
  <2>8. CASE UNCHANGED vars
    BY <2>8 DEF vars
  <2> QED
    BY <2>1, <2>2, <2>3, <2>4, <2>5, <2>6, <2>7, <2>8 DEF Next
<1>2. TypeOK /\ [Next]_vars => [\A q \in Requests : AtRest(q) => AtRest(q)']_vars
  BY <1>1
<1> QED
  BY <1>2, TypeCorrect, PTL DEF Spec, QuietRejectionHolds

-----------------------------------------------------------------------------
(* Signing implements SigningPromise.                                        *)

\* Only requests that need approvals are awaiting any, or are being approved; an
\* approve call past the policy was told a number some policy has had.
GatedInv ==
  /\ \A q \in Requests : status[q] = "AWAITING_APPROVAL" => q \in gated
  /\ \A a \in Approvals :
       /\ pc[a] \notin {"read", "done"} => RequestOf[a] \in gated
       /\ pc[a] \in {"check", "insert", "write"} => needed[a] \in Thresholds

LEMMA GatedStep ==
  ASSUME TypeOK, Fresh, GatedInv, Next
  PROVE  GatedInv'
<1> USE RequestOfAssumption, CallsAreDistinct
    DEF TypeOK, Fresh, GatedInv, Calls, Ends, At, Goto, SetStatus, StatusOf, rowVars,
        logVars, readVars
<1>1. CASE UpdatePolicy
  BY <1>1 DEF UpdatePolicy
<1>2. ASSUME NEW q \in Requests, Create(q) \/ TimePasses(q)
      PROVE  GatedInv'
  BY <1>2 DEF Create, TimePasses
<1>3. ASSUME NEW d \in Delays, Delay(d) \/ ReadForSchedule(d) \/ Schedule(d)
      PROVE  GatedInv'
  BY <1>3 DEF Delay, ReadForSchedule, Schedule
<1>4. ASSUME NEW a \in Approvals, ApprovalStep(a)
      PROVE  GatedInv'
  <2>1. CASE ReadForApprove(a)
    BY <2>1 DEF ReadForApprove
  <2>2. CASE ReadPolicy(a)
    BY <2>2 DEF ReadPolicy
  <2>3. CASE FindEarlierApproval(a)
    BY <2>3 DEF FindEarlierApproval
  <2>4. CASE InsertApproval(a)
    BY <2>4 DEF InsertApproval
  <2>5. CASE CountApproval(a)
    BY <2>5 DEF CountApproval
  <2> QED
    BY <1>4, <2>1, <2>2, <2>3, <2>4, <2>5 DEF ApprovalStep
<1>5. ASSUME NEW b \in Rejections, RejectionStep(b)
      PROVE  GatedInv'
  BY <1>5 DEF RejectionStep, ReadForReject, InsertRejection, Reject
<1>6. ASSUME NEW e \in Executions, ExecutionStep(e)
      PROVE  GatedInv'
  <2>1. CASE ReadForExecute(e) \/ MarkSigning(e)
    BY <1>6, <2>1 DEF ReadForExecute, MarkSigning
  <2>2. CASE Sign(e)
    BY <1>6, <2>2 DEF Sign
  <2>3. CASE RecordSigned(e) \/ Publish(e) \/ MarkFailed(e)
    BY <1>6, <2>3 DEF RecordSigned, Publish, MarkFailed
  <2> QED
    BY <1>6, <2>1, <2>2, <2>3 DEF ExecutionStep
<1>7. ASSUME NEW a \in Calls, Stop(a)
      PROVE  GatedInv'
  BY <1>7 DEF Stop
<1> QED
  BY <1>1, <1>2, <1>3, <1>4, <1>5, <1>6, <1>7 DEF Next

\* What the promise sees of a request.
KindOf(q) == IF status[q] = "none" THEN "none" ELSE IF q \in gated THEN "gated" ELSE "free"
ToldFor(q) == {needed[a] : a \in {b \in approved : RequestOf[b] = q}}

kindMap == [q \in Requests |-> KindOf(q)]
consentMap == [q \in Requests |-> ApproversOf(q)]
toldMap == [q \in Requests |-> ToldFor(q)]
madeSet == {q \in Requests : HasSigned(q)}

\* Only create settles what a request needs.
LEMMA KindStands ==
  ASSUME TypeOK, Fresh, Next, ~ \E q \in Requests : Create(q)
  PROVE  kindMap' = kindMap
<1> USE RequestOfAssumption DEF Calls, TypeOK, At, Goto, SetStatus, rowVars, logVars, readVars
<1>1. gated' = gated
  BY DEF Next, UpdatePolicy, TimePasses, Delay, ReadForSchedule, Schedule,
         ApprovalStep, ReadForApprove, ReadPolicy, FindEarlierApproval, InsertApproval,
         CountApproval, RejectionStep, ReadForReject, InsertRejection, Reject, ExecutionStep,
         ReadForExecute, MarkSigning, Sign, RecordSigned, Publish, MarkFailed, Stop
<1>2. CASE status' = status
  BY <1>1, <1>2 DEF kindMap, KindOf
<1>3. ASSUME NEW a \in Calls, pc[a] \notin {"read", "done"},
             NEW s \in Statuses \ {"none"}, SetStatus(a, s)
      PROVE  kindMap' = kindMap
  <2>1. status[RequestOf[a]] # "none" /\ RequestOf[a] \in Requests
    BY <1>3 DEF Fresh
  <2>2. \A q \in Requests : status'[q] = "none" <=> status[q] = "none"
    BY <1>3, <2>1
  <2> QED
    BY <1>1, <2>2 DEF kindMap, KindOf
<1>4. \/ status' = status
      \/ \E a \in Calls, s \in Statuses \ {"none"} :
           pc[a] \notin {"read", "done"} /\ SetStatus(a, s)
  <2>1. ASSUME NEW d \in Delays, Schedule(d)
        PROVE  pc[d] = "write" /\ SetStatus(d, "SCHEDULED")
    BY <2>1 DEF Schedule
  <2>2. ASSUME NEW a \in Approvals, CountApproval(a)
        PROVE  /\ pc[a] = "write"
               /\ SetStatus(a, "APPROVED") \/ SetStatus(a, "AWAITING_APPROVAL")
    BY <2>2 DEF CountApproval
  <2>3. ASSUME NEW b \in Rejections, Reject(b)
        PROVE  pc[b] = "write" /\ SetStatus(b, "REJECTED")
    BY <2>3 DEF Reject
  <2>4. ASSUME NEW e \in Executions, MarkSigning(e)
        PROVE  pc[e] = "mark" /\ SetStatus(e, "SIGNING")
    BY <2>4 DEF MarkSigning
  <2>5. ASSUME NEW e \in Executions, RecordSigned(e)
        PROVE  /\ pc[e] = "record"
               /\ SetStatus(e, "SIGNED") \/ status' = status
    BY <2>5 DEF RecordSigned
  <2>6. ASSUME NEW e \in Executions, MarkFailed(e)
        PROVE  pc[e] = "fail" /\ SetStatus(e, "FAILED")
    BY <2>6 DEF MarkFailed
  <2>7. \/ status' = status
        \/ \E d \in Delays : Schedule(d)
        \/ \E a \in Approvals : CountApproval(a)
        \/ \E b \in Rejections : Reject(b)
        \/ \E e \in Executions : MarkSigning(e) \/ RecordSigned(e) \/ MarkFailed(e)
    BY DEF Next, UpdatePolicy, TimePasses, Delay, ReadForSchedule,
         ApprovalStep, ReadForApprove, ReadPolicy, FindEarlierApproval, InsertApproval,
         RejectionStep, ReadForReject, InsertRejection, ExecutionStep,
         ReadForExecute, Sign, Publish, Stop
  <2> HIDE DEF SetStatus
  <2> QED
    BY <2>1, <2>2, <2>3, <2>4, <2>5, <2>6, <2>7 DEF Statuses
<1> QED
  BY <1>2, <1>3, <1>4

\* A step that inserts no approval changes no one's, and a step that makes no
\* signature none.
LEMMA OtherStepsKeepRows ==
  ASSUME TypeOK, SeenIsBacked, [Next]_vars
  PROVE  /\ ~ (\E a \in Approvals : InsertApproval(a)) =>
              consentMap' = consentMap /\ toldMap' = toldMap
         /\ ~ (\E e \in Executions : Sign(e)) => madeSet' = madeSet
<1>1. ASSUME ~ \E a \in Approvals : InsertApproval(a)
      PROVE  consentMap' = consentMap /\ toldMap' = toldMap
  <2>1. approved' = approved
    BY <1>1 DEF Next, UpdatePolicy, Create, TimePasses, Delay, ReadForSchedule, Schedule,
         ApprovalStep, ReadForApprove, ReadPolicy, FindEarlierApproval,
         CountApproval, RejectionStep, ReadForReject, InsertRejection, Reject, ExecutionStep,
         ReadForExecute, MarkSigning, Sign, RecordSigned, Publish, MarkFailed, Stop,
         rowVars, logVars, readVars, vars
  <2>2. \A a \in approved : needed'[a] = needed[a]
    BY ApprovalsStand DEF vars, readVars
  <2>3. \A q \in Requests : ApproversOf(q)' = ApproversOf(q) /\ ToldFor(q)' = ToldFor(q)
    BY <2>1, <2>2 DEF ApproversOf, ApprovedBy, ToldFor
  <2> QED
    BY <2>3 DEF consentMap, toldMap
<1>2. ASSUME ~ \E e \in Executions : Sign(e)
      PROVE  madeSet' = madeSet
  <2>1. signed' = signed
    BY <1>2 DEF Next, UpdatePolicy, Create, TimePasses, Delay, ReadForSchedule, Schedule,
         ApprovalStep, ReadForApprove, ReadPolicy, FindEarlierApproval, InsertApproval,
         CountApproval, RejectionStep, ReadForReject, InsertRejection, Reject, ExecutionStep,
         ReadForExecute, MarkSigning, RecordSigned, Publish, MarkFailed, Stop,
         rowVars, logVars, readVars, vars
  <2> QED
    BY <2>1 DEF madeSet, HasSigned
<1> QED
  BY <1>1, <1>2

\* An APPROVED row is a user's consent.
LEMMA InsertConsents ==
  ASSUME IInv, GatedInv, NEW a \in Approvals, InsertApproval(a),
         NEW n \in Thresholds, n = needed[a]
  PROVE  Promise!Consent(RequestOf[a], ApproverOf[a], n)
<1> DEFINE q == RequestOf[a]
<1>0. a \in Calls /\ q \in Requests /\ ApproverOf[a] \in Approvers
  BY RequestOfAssumption, ApproverOfAssumption DEF Calls
<1>1. /\ approved' = approved \cup {a} /\ UNCHANGED <<status, gated, signed, needed>>
      /\ pc[a] = "insert"
  BY DEF InsertApproval, At, rowVars, readVars
<1>2. kindMap[q] = "gated"
  BY <1>0, <1>1 DEF GatedInv, IInv, Fresh, kindMap, KindOf
<1>3. kindMap' = kindMap /\ madeSet' = madeSet
  BY <1>1 DEF kindMap, KindOf, madeSet, HasSigned
<1>4. consentMap' = [consentMap EXCEPT ![q] = @ \cup {ApproverOf[a]}]
  <2>1. \A p \in Requests : ApproversOf(p)' = IF p = q THEN ApproversOf(p) \cup {ApproverOf[a]}
                                              ELSE ApproversOf(p)
    BY <1>0, <1>1 DEF ApproversOf, ApprovedBy
  <2> QED
    BY <1>0, <2>1 DEF consentMap
<1>5. toldMap' = [toldMap EXCEPT ![q] = @ \cup {n}]
  <2>1. \A p \in Requests : ToldFor(p)' = IF p = q THEN ToldFor(p) \cup {n}
                                          ELSE ToldFor(p)
    BY <1>0, <1>1 DEF ToldFor
  <2> QED
    BY <1>0, <2>1 DEF toldMap
<1> QED
  BY <1>2, <1>3, <1>4, <1>5
     DEF Promise!Consent, kindMap, KindOf, consentMap, toldMap, ToldFor, madeSet

\* The instance counts as this module does.
LEMMA SameCount == \A S : Promise!Cardinality(S) = Cardinality(S)
BY Zenon DEF Promise!Cardinality, Promise!IsFiniteSet, Cardinality, IsFiniteSet

\* A signature is made of a request that has its approvals, or needs none.
LEMMA SignMakes ==
  ASSUME IInv, NEW e \in Executions, Sign(e)
  PROVE  [Promise!MakeSignature(RequestOf[e])]_(Promise!promiseVars)
<1> DEFINE q == RequestOf[e]
<1>0. e \in Calls /\ q \in Requests
  BY RequestOfAssumption DEF Calls
<1>1. /\ signed' = signed \cup {e} \/ signed' = signed
      /\ UNCHANGED <<status, gated, approved, needed>>
      /\ pc[e] = "sign"
  BY DEF Sign, At, rowVars, readVars
<1>2. kindMap[q] # "none" /\ (kindMap[q] = "gated" => Enough(q))
  BY <1>0, <1>1 DEF IInv, Fresh, ReadyWhenExecutable, Ready, At, kindMap, KindOf
<1>3. UNCHANGED <<kindMap, consentMap, toldMap>>
  BY <1>1 DEF kindMap, KindOf, consentMap, ApproversOf, ApprovedBy, toldMap, ToldFor
<1>4. Enough(q) => \E n \in toldMap[q] : Cardinality(consentMap[q]) >= n
  BY <1>0 DEF Enough, toldMap, ToldFor, consentMap
<1>5. CASE signed' = signed
  <2>1. madeSet' = madeSet
    BY <1>5 DEF madeSet, HasSigned
  <2> QED
    BY <1>3, <2>1 DEF Promise!promiseVars, kindMap, KindOf, consentMap, toldMap, ToldFor, madeSet
<1>6. CASE signed' = signed \cup {e}
  <2>1. madeSet' = madeSet \cup {q}
    BY <1>0, <1>6 DEF madeSet, HasSigned
  <2>2. Enough(q) => Promise!Quorum(q)
    BY <1>4, SameCount DEF Promise!Quorum, consentMap, toldMap, ToldFor
  <2> QED
    BY <1>2, <1>3, <2>1, <2>2 DEF Promise!MakeSignature, kindMap, KindOf, consentMap, toldMap,
       ToldFor, madeSet
<1> QED
  BY <1>1, <1>5, <1>6

\* A new request settles what it needs.
LEMMA CreateAsks ==
  ASSUME IInv, NEW q \in Requests, Create(q)
  PROVE  \E k \in {"free", "gated"} : Promise!Ask(q, k)
<1> DEFINE k == KindOf(q)'
<1>1. status[q] = "none" /\ q \notin gated /\ UNCHANGED <<approved, signed, needed>>
  BY DEF Create, logVars, readVars, IInv, Fresh
<1>2. k \in {"free", "gated"} /\ \A p \in Requests \ {q} : KindOf(p)' = KindOf(p)
  BY <1>1 DEF Create, KindOf, IInv, TypeOK
<1>3. kindMap[q] = "none" /\ kindMap' = [kindMap EXCEPT ![q] = k]
  BY <1>1, <1>2 DEF kindMap, KindOf
<1>4. UNCHANGED <<consentMap, toldMap, madeSet>>
  BY <1>1 DEF consentMap, ApproversOf, ApprovedBy, toldMap, ToldFor, madeSet, HasSigned
<1> QED
  BY <1>2, <1>3, <1>4 DEF Promise!Ask, kindMap, KindOf, consentMap, toldMap, ToldFor, madeSet

\* To whoever looks only at who approved and what is signed, the statuses, counts and
\* races of the custody service are the plain rule of SigningPromise.
THEOREM SigningKeepsPromise == Spec => ImplementsSigningPromise
<1>1. Init => Promise!PromiseInit /\ GatedInv
  BY DEF Init, Promise!PromiseInit, GatedInv, HasSigned, ApproversOf, ApprovedBy, Calls
<1>2. IInv /\ GatedInv /\ [Next]_vars => GatedInv'
  BY GatedStep DEF IInv, GatedInv, vars, rowVars, readVars
<1>3. ASSUME IInv, GatedInv, [Next]_vars
      PROVE  [Promise!PromiseNext]_(Promise!promiseVars)
  <2> USE RequestOfAssumption DEF Calls
  <2>1. CASE \E q \in Requests : Create(q)
    BY <1>3, <2>1, CreateAsks DEF Promise!PromiseNext
  <2>2. CASE \E a \in Approvals : InsertApproval(a)
    <3>1. PICK a \in Approvals : InsertApproval(a)
      BY <2>2
    <3>2. RequestOf[a] \in Requests /\ needed[a] \in Thresholds /\ ApproverOf[a] \in Approvers
      BY <1>3, <3>1, ApproverOfAssumption DEF GatedInv, InsertApproval, At
    <3>3. PICK n \in Thresholds : n = needed[a]
      BY <3>2
    <3>4. Promise!Consent(RequestOf[a], ApproverOf[a], n)
      BY <1>3, <3>1, <3>3, InsertConsents
    <3> QED
      BY <3>2, <3>4, Zenon DEF Promise!PromiseNext
  <2>3. CASE \E e \in Executions : Sign(e)
    BY <1>3, <2>3, SignMakes DEF Promise!PromiseNext
  <2>4. CASE /\ ~ \E q \in Requests : Create(q)
             /\ ~ \E a \in Approvals : InsertApproval(a)
             /\ ~ \E e \in Executions : Sign(e)
    <3>1. kindMap' = kindMap
      BY <1>3, <2>4, KindStands DEF IInv, vars, rowVars, kindMap, KindOf
    <3>2. UNCHANGED <<consentMap, toldMap, madeSet>>
      BY <1>3, <2>4, OtherStepsKeepRows DEF IInv
    <3> QED
      BY <3>1, <3>2 DEF Promise!promiseVars, kindMap, KindOf, consentMap, toldMap, ToldFor,
         madeSet
  <2> QED
    BY <2>1, <2>2, <2>3, <2>4
<1> QED
  BY <1>1, <1>2, <1>3, Invariance, PTL DEF Spec, ImplementsSigningPromise, Promise!PromiseSpec

-----------------------------------------------------------------------------
(* The key: the inductive invariant.                                         *)

\* The calls that need a key row before they leave "read".
OnKey == Rotations \cup Revocations \cup Destructions

\* Until generate has run nothing has happened to the key.
Unborn ==
  kpc[Generation] = "read" =>
    /\ keyStatus = "none" /\ material = NoMaterial /\ current = 0
    /\ versions = {} /\ keyed = {}
    /\ \A c \in OnKey : kpc[c] = "read"
    /\ \A c \in Recoveries \cup Refusals \cup Completions : kpc[c] # "write"

Born ==
  /\ kpc[Generation] \in {"read", "insert", "done", "stopped"}
  /\ kpc[Generation] # "read" => keyStatus # "none" /\ current >= 1

\* A version belongs to one row; every version from the second to the current
\* one has its row, and the first has it once generate is done.
VersionRows ==
  /\ \A x, y \in versions : x.version = y.version => x = y
  /\ \A x \in versions : x.version >= 1
  /\ \A x \in versions : x.version = 1 => kpc[Generation] = "done"
  /\ \A n \in Nat : n >= 2 /\ n <= current => Taken(n)
  /\ kpc[Generation] = "done" => [version |-> 1, material |-> Generation] \in versions
  /\ material = Generation => current = 1

\* A rotate has read a version that exists; once it has inserted the next one no
\* other rotate can move the key, so the version it read is still current.
RotateOwnsNext ==
  \A c \in Rotations :
    /\ kpc[c] \in {"insert", "write"} => kseen[c] >= 1 /\ kseen[c] <= current
    /\ kpc[c] = "write" => /\ kseen[c] = current
                           /\ [version |-> kseen[c] + 1, material |-> c] \in versions

VersionInv == Unborn /\ Born /\ VersionRows /\ RotateOwnsNext /\ KeyHoldsItsVersion

\* Nobody answers a request that is not there.
RequestsExist ==
  \A r \in Recoveries :
    /\ kpc[r] \in {"read", "write", "create"} => recovery[r] = "none"
    /\ kpc[r] \in {"read", "write"} => r \notin keyed
    /\ recovery[r] = "none" => \A c \in Answers : RecoveryOf[c] = r => kpc[c] = "read"

\* The recovery that marked the key last is owed a way out, and no reject call
\* that freed the key before it was marked is about to close that request.
MarkedIsOwed ==
  keyStatus = "RECOVERING" =>
    \E r \in Recoveries : /\ Owed(r)
                          /\ \A c \in Refusals : RecoveryOf[c] = r => kpc[c] # "close"

\* A recovery that is approved or completed was approved by as many approve calls as
\* its policy requires, whatever counts race (recovery.service.ts).
RecoveryIsCounted ==
  \A r \in Recoveries :
    recovery[r] \in {"APPROVED", "COMPLETED"} => Cardinality(Consented(r)) >= Required[r]

\* The counts that approve calls read and write are backed by such calls.
ConsentsBacked ==
  /\ \A r \in Recoveries : consents[r] <= Cardinality(Consented(r))
  /\ \A c \in Consents : kpc[c] = "write" => kseen[c] <= Cardinality(Consented(RecoveryOf[c]))
  /\ \A c \in Completions :
       kpc[c] = "close" => Cardinality(Consented(RecoveryOf[c])) >= Required[RecoveryOf[c]]
  /\ RecoveryIsCounted

KeysInv == KeysTypeOK /\ VersionInv /\ RequestsExist /\ MarkedIsOwed /\ ConsentsBacked

-----------------------------------------------------------------------------
(* Types.                                                                    *)

LEMMA KeysInitTypeOK == KeysInit => KeysTypeOK
BY RequiredAssumption
DEF KeysInit, KeysTypeOK, KeyStatuses, RecoveryStatuses, KeyPCs, KeyEnds, Makers

LEMMA KeysTypeStep ==
  ASSUME KeysTypeOK, KeysNext
  PROVE  KeysTypeOK'
<1> USE RecoveryOfAssumption, RequiredAssumption
    DEF KeysTypeOK, KeyCalls, Makers, Answers, KeyStatuses, RecoveryStatuses, KeyPCs, KeyEnds,
        AtKey, KeyGoto, ReadThen, SetRecovery, keyRowVars, recoveryVars
<1>1. CASE Generate
  BY <1>1 DEF Generate
<1>2. CASE InsertFirstVersion
  BY <1>2 DEF InsertFirstVersion, AddVersion
<1>3. ASSUME NEW c \in Rotations, ReadForRotate(c)
      PROVE  KeysTypeOK'
  BY <1>3 DEF ReadForRotate
<1>4. ASSUME NEW c \in Rotations, InsertVersion(c)
      PROVE  KeysTypeOK'
  BY <1>4 DEF InsertVersion, AddVersion
<1>5. ASSUME NEW c \in Rotations, Rotate(c)
      PROVE  KeysTypeOK'
  BY <1>5 DEF Rotate
<1>6. ASSUME NEW c \in Revocations, ReadForRevoke(c) \/ Revoke(c)
      PROVE  KeysTypeOK'
  BY <1>6 DEF ReadForRevoke, Revoke
<1>7. ASSUME NEW c \in Destructions, ReadForDestroy(c) \/ Destroy(c)
      PROVE  KeysTypeOK'
  BY <1>7 DEF ReadForDestroy, Destroy
<1>8. ASSUME NEW r \in Recoveries,
             StartWithoutKey(r) \/ ReadForRecovery(r) \/ MarkRecovering(r) \/ CreateRequest(r)
      PROVE  KeysTypeOK'
  BY <1>8 DEF StartWithoutKey, ReadForRecovery, MarkRecovering, CreateRequest
<1>9. ASSUME NEW c \in Consents, ReadForConsent(c) \/ Consent(c)
      PROVE  KeysTypeOK'
  BY <1>9 DEF ReadForConsent, Consent
<1>10. ASSUME NEW c \in Refusals, ReadForRefusal(c) \/ FreeForRefusal(c) \/ Refuse(c)
       PROVE  KeysTypeOK'
  BY <1>10 DEF ReadForRefusal, FreeForRefusal, FreeKey, Refuse
<1>11. ASSUME NEW c \in Completions, ReadForComplete(c) \/ Complete(c) \/ FreeForComplete(c)
       PROVE  KeysTypeOK'
  BY <1>11 DEF ReadForComplete, Complete, FreeForComplete, FreeKey
<1>12. ASSUME NEW c \in KeyCalls, StopKeyCall(c)
       PROVE  KeysTypeOK'
  BY <1>12 DEF StopKeyCall
<1> QED
  BY <1>1, <1>2, <1>3, <1>4, <1>5, <1>6, <1>7, <1>8, <1>9, <1>10, <1>11, <1>12 DEF KeysNext

-----------------------------------------------------------------------------
(* Versions.                                                                 *)

LEMMA InitVersionInv == KeysInit => VersionInv
BY MakersAreCalls
DEF KeysInit, VersionInv, Unborn, Born, VersionRows, RotateOwnsNext, KeyHoldsItsVersion,
    OnKey, KeyCalls, Makers, Answers, Taken

\* What generate and rotate do not touch stays as it was in every other call.
LEMMA OtherCallsKeepVersions ==
  ASSUME KeysTypeOK, VersionInv, NEW c \in KeyCalls \ Makers,
         versions' = versions, current' = current,
         material' \in {material, NoMaterial},
         \A b \in Makers : kpc'[b] = kpc[b] /\ kseen'[b] = kseen[b]
  PROVE  VersionRows' /\ RotateOwnsNext' /\ KeyHoldsItsVersion'
BY MakersAreCalls
DEF VersionInv, VersionRows, RotateOwnsNext, KeyHoldsItsVersion, Makers, Taken

LEMMA VersionStep ==
  ASSUME KeysTypeOK, VersionInv, RequestsExist, KeysNext
  PROVE  VersionInv'
<1> USE RecoveryOfAssumption, MakersAreCalls, KindsAreDistinct
    DEF KeyCalls, Makers, Answers, KeyEnds, OnKey,
        AtKey, KeyGoto, ReadThen, SetRecovery, keyRowVars, recoveryVars
<1>1. CASE Generate
  BY <1>1 DEF Generate, KeysTypeOK, VersionInv, Unborn, Born, VersionRows, RotateOwnsNext,
              KeyHoldsItsVersion, Taken
<1>2. CASE InsertFirstVersion
  BY <1>2 DEF InsertFirstVersion, AddVersion, KeysTypeOK, VersionInv, Unborn, Born, VersionRows,
              RotateOwnsNext, KeyHoldsItsVersion, Taken
<1>3. ASSUME NEW c \in Rotations, ReadForRotate(c)
      PROVE  VersionInv'
  BY <1>3 DEF ReadForRotate, KeysTypeOK, VersionInv, Unborn, Born, VersionRows,
              RotateOwnsNext, KeyHoldsItsVersion, Taken
<1>4. ASSUME NEW c \in Rotations, InsertVersion(c)
      PROVE  VersionInv'
  <2>1. CASE Taken(kseen[c] + 1)
    BY <1>4, <2>1 DEF InsertVersion, KeysTypeOK, VersionInv, Unborn, Born, VersionRows,
                      RotateOwnsNext, KeyHoldsItsVersion, Taken
  <2>2. CASE ~ Taken(kseen[c] + 1)
    <3>1. /\ kseen[c] \in Nat /\ kseen[c] = current /\ kpc[c] = "insert"
          /\ \A b \in Rotations : kpc[b] # "write"
      <4>1. kpc[c] = "insert" /\ kseen[c] \in Nat /\ current \in Nat
        BY <1>4 DEF InsertVersion, KeysTypeOK
      <4>2. kseen[c] >= 1 /\ kseen[c] <= current
        BY <4>1 DEF VersionInv, RotateOwnsNext
      <4>3. ~ (kseen[c] + 1 <= current)
        BY <2>2, <4>1, <4>2 DEF VersionInv, VersionRows
      <4>4. kseen[c] = current
        BY <4>1, <4>2, <4>3
      <4>5. ASSUME NEW b \in Rotations, kpc[b] = "write"
            PROVE  FALSE
        BY <2>2, <4>4, <4>5 DEF VersionInv, RotateOwnsNext, Taken
      <4> QED
        BY <4>1, <4>4, <4>5
    <3>2. /\ versions' = versions \cup {[version |-> kseen[c] + 1, material |-> c]}
          /\ kpc' = [kpc EXCEPT ![c] = "write"]
          /\ UNCHANGED <<keyRowVars, recoveryVars, kseen>>
      BY <1>4, <2>2 DEF InsertVersion, AddVersion
    <3>3. Unborn' /\ Born'
      BY <3>1, <3>2 DEF KeysTypeOK, VersionInv, Unborn, Born
    <3>4. VersionRows'
      BY <2>2, <3>1, <3>2 DEF KeysTypeOK, VersionInv, Unborn, Born, VersionRows, Taken
    <3>5. RotateOwnsNext'
      BY <3>1, <3>2 DEF KeysTypeOK, VersionInv, RotateOwnsNext
    <3>6. KeyHoldsItsVersion'
      BY <3>1, <3>2 DEF KeysTypeOK, VersionInv, KeyHoldsItsVersion
    <3> QED
      BY <3>3, <3>4, <3>5, <3>6 DEF VersionInv
  <2> QED
    BY <2>1, <2>2
<1>5. ASSUME NEW c \in Rotations, Rotate(c)
      PROVE  VersionInv'
  <2>1. /\ kpc[c] = "write" /\ kpc' = [kpc EXCEPT ![c] = "done"]
        /\ material' = c /\ current' = kseen[c] + 1
        /\ UNCHANGED <<keyStatus, versions, recoveryVars, kseen>>
    BY <1>5 DEF Rotate
  <2>2. /\ kseen[c] = current /\ current' = current + 1 /\ current \in Nat
        /\ [version |-> current + 1, material |-> c] \in versions
    BY <2>1 DEF KeysTypeOK, VersionInv, RotateOwnsNext
  <2>3. Unborn' /\ Born'
    BY <2>1, <2>2 DEF KeysTypeOK, VersionInv, Unborn, Born
  <2>4. VersionRows'
    <3>1. Taken(current + 1)
      BY <2>2 DEF Taken
    <3>2. ASSUME NEW n \in Nat, n >= 2, n <= current'
          PROVE  Taken(n)'
      <4>1. n <= current \/ n = current + 1
        BY <2>2, <3>2
      <4>2. Taken(n)
        BY <3>1, <3>2, <4>1 DEF VersionInv, VersionRows
      <4> QED
        BY <2>1, <4>2 DEF Taken
    <3> QED
      BY <2>1, <3>2 DEF KeysTypeOK, VersionInv, VersionRows
  <2>5. RotateOwnsNext'
    <3>1. ASSUME NEW b \in Rotations, b # c, kpc[b] = "write"
          PROVE  FALSE
      <4>1. [version |-> current + 1, material |-> b] \in versions
        BY <3>1 DEF VersionInv, RotateOwnsNext
      <4> QED
        BY <2>2, <3>1, <4>1 DEF VersionInv, VersionRows
    <3> QED
      BY <2>1, <2>2, <3>1 DEF KeysTypeOK, VersionInv, RotateOwnsNext
  <2>6. KeyHoldsItsVersion'
    BY <2>1, <2>2 DEF KeyHoldsItsVersion
  <2> QED
    BY <2>3, <2>4, <2>5, <2>6 DEF VersionInv
<1>6. ASSUME NEW c \in Revocations, ReadForRevoke(c) \/ Revoke(c)
      PROVE  VersionInv'
  <2>1. VersionRows' /\ RotateOwnsNext' /\ KeyHoldsItsVersion'
    BY <1>6, OtherCallsKeepVersions DEF ReadForRevoke, Revoke, KeysTypeOK
  <2> QED
    BY <1>6, <2>1 DEF ReadForRevoke, Revoke, KeysTypeOK, VersionInv, Unborn, Born
<1>7. ASSUME NEW c \in Destructions, ReadForDestroy(c) \/ Destroy(c)
      PROVE  VersionInv'
  <2>1. VersionRows' /\ RotateOwnsNext' /\ KeyHoldsItsVersion'
    BY <1>7, OtherCallsKeepVersions DEF ReadForDestroy, Destroy, KeysTypeOK
  <2> QED
    BY <1>7, <2>1 DEF ReadForDestroy, Destroy, KeysTypeOK, VersionInv, Unborn, Born
<1>8. ASSUME NEW r \in Recoveries,
             StartWithoutKey(r) \/ ReadForRecovery(r) \/ MarkRecovering(r) \/ CreateRequest(r)
      PROVE  VersionInv'
  <2>1. VersionRows' /\ RotateOwnsNext' /\ KeyHoldsItsVersion'
    BY <1>8, OtherCallsKeepVersions
    DEF StartWithoutKey, ReadForRecovery, MarkRecovering, CreateRequest, KeysTypeOK
  <2> QED
    BY <1>8, <2>1
    DEF StartWithoutKey, ReadForRecovery, MarkRecovering, CreateRequest,
        KeysTypeOK, VersionInv, Unborn, Born
<1>9. ASSUME NEW c \in Consents, ReadForConsent(c) \/ Consent(c)
      PROVE  VersionInv'
  <2>1. VersionRows' /\ RotateOwnsNext' /\ KeyHoldsItsVersion'
    BY <1>9, OtherCallsKeepVersions DEF ReadForConsent, Consent, KeysTypeOK
  <2> QED
    BY <1>9, <2>1 DEF ReadForConsent, Consent, KeysTypeOK, VersionInv, Unborn, Born
<1>10. ASSUME NEW c \in Refusals, ReadForRefusal(c) \/ FreeForRefusal(c) \/ Refuse(c)
       PROVE  VersionInv'
  <2>1. VersionRows' /\ RotateOwnsNext' /\ KeyHoldsItsVersion'
    BY <1>10, OtherCallsKeepVersions DEF ReadForRefusal, FreeForRefusal, FreeKey, Refuse, KeysTypeOK
  <2> QED
    BY <1>10, <2>1
    DEF ReadForRefusal, FreeForRefusal, FreeKey, Refuse, NamesKey, KeysTypeOK,
        VersionInv, Unborn, Born
<1>11. ASSUME NEW c \in Completions, ReadForComplete(c) \/ Complete(c) \/ FreeForComplete(c)
       PROVE  VersionInv'
  <2>1. VersionRows' /\ RotateOwnsNext' /\ KeyHoldsItsVersion'
    BY <1>11, OtherCallsKeepVersions
    DEF ReadForComplete, Complete, FreeForComplete, FreeKey, KeysTypeOK
  <2> QED
    BY <1>11, <2>1
    DEF ReadForComplete, Complete, FreeForComplete, FreeKey, NamesKey, KeysTypeOK,
        VersionInv, Unborn, Born
<1>12. ASSUME NEW c \in KeyCalls, StopKeyCall(c)
       PROVE  VersionInv'
  BY <1>12 DEF StopKeyCall, KeysTypeOK, VersionInv, Unborn, Born, VersionRows,
               RotateOwnsNext, KeyHoldsItsVersion, Taken
<1> QED
  BY <1>1, <1>2, <1>3, <1>4, <1>5, <1>6, <1>7, <1>8, <1>9, <1>10, <1>11, <1>12 DEF KeysNext

-----------------------------------------------------------------------------
(* Recoveries.                                                               *)

LEMMA RequestsExistStep ==
  ASSUME KeysTypeOK, RequestsExist, KeysNext
  PROVE  RequestsExist'
<1> USE RecoveryOfAssumption, KindsAreDistinct
    DEF KeysTypeOK, RequestsExist, KeyCalls, Makers, Answers, KeyEnds,
        AtKey, KeyGoto, ReadThen, SetRecovery, AsksOf, keyRowVars, recoveryVars
<1>1. CASE Generate \/ InsertFirstVersion
  BY <1>1 DEF Generate, InsertFirstVersion
<1>2. ASSUME NEW c \in Rotations, ReadForRotate(c) \/ InsertVersion(c) \/ Rotate(c)
      PROVE  RequestsExist'
  BY <1>2 DEF ReadForRotate, InsertVersion, Rotate
<1>3. ASSUME NEW c \in Revocations, ReadForRevoke(c) \/ Revoke(c)
      PROVE  RequestsExist'
  BY <1>3 DEF ReadForRevoke, Revoke
<1>4. ASSUME NEW c \in Destructions, ReadForDestroy(c) \/ Destroy(c)
      PROVE  RequestsExist'
  BY <1>4 DEF ReadForDestroy, Destroy
<1>5. ASSUME NEW r \in Recoveries, StartWithoutKey(r) \/ ReadForRecovery(r)
      PROVE  RequestsExist'
  BY <1>5 DEF StartWithoutKey, ReadForRecovery
<1>6. ASSUME NEW r \in Recoveries, MarkRecovering(r) \/ CreateRequest(r)
      PROVE  RequestsExist'
  BY <1>6 DEF MarkRecovering, CreateRequest
<1>7. ASSUME NEW c \in Consents, ReadForConsent(c) \/ Consent(c)
      PROVE  RequestsExist'
  BY <1>7 DEF ReadForConsent, Consent
<1>8. ASSUME NEW c \in Refusals, ReadForRefusal(c) \/ FreeForRefusal(c) \/ Refuse(c)
      PROVE  RequestsExist'
  BY <1>8 DEF ReadForRefusal, FreeForRefusal, FreeKey, Refuse
<1>9. ASSUME NEW c \in Completions, ReadForComplete(c) \/ Complete(c) \/ FreeForComplete(c)
      PROVE  RequestsExist'
  BY <1>9 DEF ReadForComplete, Complete, FreeForComplete, FreeKey
<1>10. ASSUME NEW c \in KeyCalls, StopKeyCall(c)
       PROVE  RequestsExist'
  BY <1>10 DEF StopKeyCall
<1> QED
  BY <1>1, <1>2, <1>3, <1>4, <1>5, <1>6, <1>7, <1>8, <1>9, <1>10 DEF KeysNext

\* What MarkedIsOwed asks of one recovery.
OwedFor(r) == Owed(r) /\ \A c \in Refusals : RecoveryOf[c] = r => kpc[c] # "close"

LEMMA MarkedStep ==
  ASSUME KeysTypeOK, RequestsExist, MarkedIsOwed, KeysNext
  PROVE  MarkedIsOwed'
<1> USE RecoveryOfAssumption, KindsAreDistinct
    DEF KeysTypeOK, KeyCalls, Makers, Answers, KeyEnds, Open,
        AtKey, KeyGoto, ReadThen, SetRecovery, AsksOf, NamesKey, keyRowVars, recoveryVars
<1> SUFFICES ASSUME keyStatus' = "RECOVERING"
             PROVE  \E r \in Recoveries : OwedFor(r)'
  BY DEF MarkedIsOwed, OwedFor
<1>0. ASSUME keyStatus = "RECOVERING"
      PROVE  \E r \in Recoveries : OwedFor(r)
  BY <1>0 DEF MarkedIsOwed, OwedFor
<1>1. CASE Generate \/ InsertFirstVersion
  BY <1>0, <1>1 DEF Generate, InsertFirstVersion, OwedFor, Owed
<1>2. ASSUME NEW c \in Rotations, ReadForRotate(c) \/ InsertVersion(c) \/ Rotate(c)
      PROVE  \E r \in Recoveries : OwedFor(r)'
  BY <1>0, <1>2 DEF ReadForRotate, InsertVersion, Rotate, OwedFor, Owed
<1>3. ASSUME NEW c \in Revocations, ReadForRevoke(c) \/ Revoke(c)
      PROVE  \E r \in Recoveries : OwedFor(r)'
  BY <1>0, <1>3 DEF ReadForRevoke, Revoke, OwedFor, Owed
<1>4. ASSUME NEW c \in Destructions, ReadForDestroy(c) \/ Destroy(c)
      PROVE  \E r \in Recoveries : OwedFor(r)'
  BY <1>0, <1>4 DEF ReadForDestroy, Destroy, OwedFor, Owed
<1>5. ASSUME NEW q \in Recoveries, StartWithoutKey(q) \/ ReadForRecovery(q)
      PROVE  \E r \in Recoveries : OwedFor(r)'
  BY <1>0, <1>5 DEF StartWithoutKey, ReadForRecovery, OwedFor, Owed
<1>6. ASSUME NEW q \in Recoveries, MarkRecovering(q)
      PROVE  \E r \in Recoveries : OwedFor(r)'
  <2>1. OwedFor(q)'
    BY <1>6 DEF MarkRecovering, RequestsExist, OwedFor, Owed
  <2> QED
    BY <2>1
<1>7. ASSUME NEW q \in Recoveries, CreateRequest(q)
      PROVE  \E r \in Recoveries : OwedFor(r)'
  BY <1>0, <1>7 DEF CreateRequest, OwedFor, Owed
<1>8. ASSUME NEW c \in Consents, ReadForConsent(c) \/ Consent(c)
      PROVE  \E r \in Recoveries : OwedFor(r)'
  BY <1>0, <1>8 DEF ReadForConsent, Consent, OwedFor, Owed
<1>9. ASSUME NEW c \in Refusals, ReadForRefusal(c) \/ FreeForRefusal(c) \/ Refuse(c)
      PROVE  \E r \in Recoveries : OwedFor(r)'
  BY <1>0, <1>9 DEF ReadForRefusal, FreeForRefusal, FreeKey, Refuse, OwedFor, Owed
<1>10. ASSUME NEW c \in Completions, ReadForComplete(c) \/ Complete(c) \/ FreeForComplete(c)
       PROVE  \E r \in Recoveries : OwedFor(r)'
  BY <1>0, <1>10 DEF ReadForComplete, Complete, FreeForComplete, FreeKey, OwedFor, Owed
<1>11. ASSUME NEW c \in KeyCalls, StopKeyCall(c)
       PROVE  \E r \in Recoveries : OwedFor(r)'
  BY <1>0, <1>11 DEF StopKeyCall, OwedFor, Owed
<1> QED
  BY <1>1, <1>2, <1>3, <1>4, <1>5, <1>6, <1>7, <1>8, <1>9, <1>10, <1>11 DEF KeysNext

\* The approve calls that have counted are finitely many, and only grow.
LEMMA ConsentedIsSet ==
  ASSUME NEW r
  PROVE  /\ IsFiniteSet(Consented(r)) /\ Cardinality(Consented(r)) \in Nat
         /\ IsFiniteSet(Consented(r)') /\ Cardinality(Consented(r)') \in Nat
<1>1. Consented(r) \subseteq Consents /\ Consented(r)' \subseteq Consents
  BY DEF Consented
<1> QED
  BY <1>1, ConsentsAreFinite, FS_Subset, FS_CardinalityType

LEMMA ConsentedGrows ==
  ASSUME \A c \in Consents : kpc[c] = "done" => kpc'[c] = "done"
  PROVE  \A r : Cardinality(Consented(r)) <= Cardinality(Consented(r)')
<1> SUFFICES ASSUME NEW r
             PROVE  Cardinality(Consented(r)) <= Cardinality(Consented(r)')
  OBVIOUS
<1>1. Consented(r) \subseteq Consented(r)'
  BY DEF Consented
<1> QED
  BY <1>1, ConsentedIsSet, FS_Subset

\* A step that writes neither a count nor a status keeps the counts backed.
LEMMA CountsFrame ==
  ASSUME KeysTypeOK, ConsentsBacked,
         \A c \in Consents : /\ kpc[c] = "done" => kpc'[c] = "done"
                             /\ kpc'[c] = "write" => kpc[c] = "write" /\ kseen'[c] = kseen[c],
         \A c \in Completions : kpc'[c] = "close" => kpc[c] = "close",
         consents' = consents,
         \A r \in Recoveries : recovery'[r] \in {"APPROVED", "COMPLETED"} =>
                                 recovery[r] \in {"APPROVED", "COMPLETED"} \/ Required[r] = 0
  PROVE  ConsentsBacked'
<1>1. /\ \A r : Cardinality(Consented(r)) <= Cardinality(Consented(r)')
      /\ \A r : Cardinality(Consented(r)) \in Nat /\ Cardinality(Consented(r)') \in Nat
  BY ConsentedGrows, ConsentedIsSet
<1>2. \A r \in Recoveries : consents'[r] <= Cardinality(Consented(r)')
  BY <1>1 DEF ConsentsBacked, KeysTypeOK
<1>3. \A c \in Consents :
        kpc'[c] = "write" => kseen'[c] <= Cardinality(Consented(RecoveryOf[c])')
  BY <1>1 DEF ConsentsBacked, KeysTypeOK, KeyCalls, Answers
<1>4. \A c \in Completions :
        kpc'[c] = "close" => Cardinality(Consented(RecoveryOf[c])') >= Required[RecoveryOf[c]]
  BY <1>1, RecoveryOfAssumption, RequiredAssumption DEF ConsentsBacked, Answers
<1>5. \A r \in Recoveries :
        recovery'[r] \in {"APPROVED", "COMPLETED"} => Cardinality(Consented(r)') >= Required[r]
  BY <1>1, RequiredAssumption DEF ConsentsBacked, RecoveryIsCounted
<1> QED
  BY <1>2, <1>3, <1>4, <1>5 DEF ConsentsBacked, RecoveryIsCounted

LEMMA CountsStep ==
  ASSUME KeysTypeOK, ConsentsBacked, KeysNext
  PROVE  ConsentsBacked'
<1> USE RecoveryOfAssumption, RequiredAssumption, KindsAreDistinct
    DEF KeyCalls, Makers, Answers, KeyEnds,
        AtKey, KeyGoto, ReadThen, SetRecovery, AsksOf, keyRowVars, recoveryVars
<1>1. CASE Generate \/ InsertFirstVersion
  BY <1>1, CountsFrame DEF Generate, InsertFirstVersion, KeysTypeOK
<1>2. ASSUME NEW c \in Rotations, ReadForRotate(c) \/ InsertVersion(c) \/ Rotate(c)
      PROVE  ConsentsBacked'
  BY <1>2, CountsFrame DEF ReadForRotate, InsertVersion, Rotate, KeysTypeOK
<1>3. ASSUME NEW c \in Revocations, ReadForRevoke(c) \/ Revoke(c)
      PROVE  ConsentsBacked'
  BY <1>3, CountsFrame DEF ReadForRevoke, Revoke, KeysTypeOK
<1>4. ASSUME NEW c \in Destructions, ReadForDestroy(c) \/ Destroy(c)
      PROVE  ConsentsBacked'
  BY <1>4, CountsFrame DEF ReadForDestroy, Destroy, KeysTypeOK
<1>5. ASSUME NEW r \in Recoveries,
             StartWithoutKey(r) \/ ReadForRecovery(r) \/ MarkRecovering(r) \/ CreateRequest(r)
      PROVE  ConsentsBacked'
  BY <1>5, CountsFrame
  DEF StartWithoutKey, ReadForRecovery, MarkRecovering, CreateRequest, KeysTypeOK
<1>6. ASSUME NEW c \in Consents, ReadForConsent(c)
      PROVE  ConsentsBacked'
  BY <1>6, ConsentedIsSet DEF ReadForConsent, KeysTypeOK, ConsentsBacked, RecoveryIsCounted,
     Consented
<1>7. ASSUME NEW c \in Consents, Consent(c)
      PROVE  ConsentsBacked'
  <2> DEFINE q == RecoveryOf[c]
  <2>1. /\ kpc[c] = "write" /\ kpc' = [kpc EXCEPT ![c] = "done"] /\ kseen' = kseen
        /\ consents' = [consents EXCEPT ![q] = kseen[c] + 1]
        /\ recovery' = [recovery EXCEPT ![q] =
                           IF ConsentSuffices(c) THEN "APPROVED" ELSE "AWAITING_APPROVAL"]
    BY <1>7 DEF Consent
  <2>2. /\ \A r : Cardinality(Consented(r)) <= Cardinality(Consented(r)')
        /\ \A r : Cardinality(Consented(r)) \in Nat /\ Cardinality(Consented(r)') \in Nat
    BY <2>1, ConsentedGrows, ConsentedIsSet DEF KeysTypeOK
  <2>3. Consented(q)' = Consented(q) \cup {c} /\ c \notin Consented(q)
    BY <2>1 DEF Consented, KeysTypeOK
  <2>4. Cardinality(Consented(q)') = Cardinality(Consented(q)) + 1
    BY <2>3, ConsentedIsSet, FS_AddElement
  <2>5. kseen[c] + 1 <= Cardinality(Consented(q)') /\ kseen[c] \in Nat /\ q \in Recoveries
    BY <2>1, <2>2, <2>4 DEF ConsentsBacked, KeysTypeOK
  <2>6. \A r \in Recoveries : consents'[r] <= Cardinality(Consented(r)')
    BY <2>1, <2>2, <2>5 DEF ConsentsBacked, KeysTypeOK
  <2>7. \A b \in Consents :
          kpc'[b] = "write" => kseen'[b] <= Cardinality(Consented(RecoveryOf[b])')
    BY <2>1, <2>2 DEF ConsentsBacked, KeysTypeOK
  <2>8. \A b \in Completions :
          kpc'[b] = "close" => Cardinality(Consented(RecoveryOf[b])') >= Required[RecoveryOf[b]]
    BY <2>1, <2>2 DEF ConsentsBacked, KeysTypeOK
  <2>9. \A r \in Recoveries :
          recovery'[r] \in {"APPROVED", "COMPLETED"} => Cardinality(Consented(r)') >= Required[r]
    BY <2>1, <2>2, <2>5 DEF ConsentsBacked, RecoveryIsCounted, KeysTypeOK, ConsentSuffices
  <2> QED
    BY <2>6, <2>7, <2>8, <2>9 DEF ConsentsBacked, RecoveryIsCounted
<1>8. ASSUME NEW c \in Refusals, ReadForRefusal(c) \/ FreeForRefusal(c) \/ Refuse(c)
      PROVE  ConsentsBacked'
  BY <1>8, CountsFrame DEF ReadForRefusal, FreeForRefusal, FreeKey, Refuse, KeysTypeOK
<1>9. ASSUME NEW c \in Completions, ReadForComplete(c)
      PROVE  ConsentsBacked'
  BY <1>9, ConsentedIsSet
  DEF ReadForComplete, KeysTypeOK, ConsentsBacked, RecoveryIsCounted, Consented
<1>10. ASSUME NEW c \in Completions, Complete(c)
       PROVE  ConsentsBacked'
  BY <1>10, ConsentedIsSet DEF Complete, KeysTypeOK, ConsentsBacked, RecoveryIsCounted, Consented
<1>11. ASSUME NEW c \in Completions, FreeForComplete(c)
       PROVE  ConsentsBacked'
  BY <1>11, CountsFrame DEF FreeForComplete, FreeKey, KeysTypeOK
<1>12. ASSUME NEW c \in KeyCalls, StopKeyCall(c)
       PROVE  ConsentsBacked'
  BY <1>12, CountsFrame DEF StopKeyCall, KeysTypeOK
<1> QED
  BY <1>1, <1>2, <1>3, <1>4, <1>5, <1>6, <1>7, <1>8, <1>9, <1>10, <1>11, <1>12 DEF KeysNext

-----------------------------------------------------------------------------
(* The theorems.                                                             *)

LEMMA InitKeysInv == KeysInit => KeysInv
<1> SUFFICES ASSUME KeysInit PROVE KeysInv
  OBVIOUS
<1>1. RequestsExist /\ MarkedIsOwed
  BY RecoveryOfAssumption
  DEF KeysInit, RequestsExist, MarkedIsOwed, KeyCalls, Answers
<1>2. ConsentsBacked
  BY ConsentedIsSet DEF KeysInit, ConsentsBacked, RecoveryIsCounted, KeyCalls, Answers
<1> QED
  BY <1>1, <1>2, KeysInitTypeOK, InitVersionInv DEF KeysInv

LEMMA KeysInvStep == KeysInv /\ [KeysNext]_keysVars => KeysInv'
<1> SUFFICES ASSUME KeysInv, [KeysNext]_keysVars PROVE KeysInv'
  OBVIOUS
<1>1. CASE KeysNext
  BY <1>1, KeysTypeStep, VersionStep, RequestsExistStep, MarkedStep, CountsStep DEF KeysInv
<1>2. CASE UNCHANGED keysVars
  BY <1>2
  DEF KeysInv, keysVars, keyRowVars, recoveryVars, KeysTypeOK, VersionInv, Unborn, Born,
     VersionRows,
      RotateOwnsNext, KeyHoldsItsVersion, Taken, RequestsExist, MarkedIsOwed, Owed, ConsentsBacked,
      RecoveryIsCounted, Consented
<1> QED
  BY <1>1, <1>2

\* The invariant holds in every state of every behaviour of KeyService and
\* RecoveryService.
THEOREM KeysInvariant == KeysSpec => []KeysInv
<1> QED
  BY InitKeysInv, KeysInvStep, PTL DEF KeysSpec

\* Types hold for any number of calls on the key.
THEOREM KeysTypeCorrect == KeysSpec => []KeysTypeOK
<1>1. KeysInv => KeysTypeOK
  BY DEF KeysInv
<1> QED
  BY <1>1, KeysInvariant, PTL

\* However many rotates race, the key row holds the material of the version it
\* names (key.service.ts: keyVersion.create before cryptographicKey.update).
THEOREM KeyVersionsHold == KeysSpec => []KeyHoldsItsVersion
<1>1. KeysInv => KeyHoldsItsVersion
  BY DEF KeysInv, VersionInv
<1> QED
  BY <1>1, KeysInvariant, PTL

\* A key is RECOVERING only while a recovery owes it a way out.
THEOREM RecoveriesOwe == KeysSpec => []RecoveringIsOwed
<1>1. KeysInv => RecoveringIsOwed
  BY DEF KeysInv, MarkedIsOwed, RecoveringIsOwed
<1> QED
  BY <1>1, KeysInvariant, PTL

\* What is approved was approved by enough approve calls: calls that race lose an
\* approval and never invent one.  They may all be calls of one user.
THEOREM RecoveriesCounted == KeysSpec => []RecoveryIsCounted
<1>1. KeysInv => RecoveryIsCounted
  BY DEF KeysInv, ConsentsBacked
<1> QED
  BY <1>1, KeysInvariant, PTL

\* The version of the key only grows, and new material comes with a new version.
THEOREM VersionsGrow == KeysSpec => VersionsMoveForward
<1> DEFINE Forward == /\ current' >= current
                      /\ material' \notin {material, NoMaterial} => current' > current
<1>1. ASSUME KeysInv, KeysNext
      PROVE  Forward
  <2> USE DEF KeysInv, KeysTypeOK, VersionInv
  <2>1. CASE \E c \in Rotations : Rotate(c)
    <3>1. PICK c \in Rotations : kpc[c] = "write" /\ current' = kseen[c] + 1
      BY <2>1 DEF Rotate, AtKey
    <3>2. kseen[c] = current /\ current \in Nat
      BY <1>1, <3>1 DEF RotateOwnsNext
    <3> HIDE DEF KeysInv, KeysTypeOK, VersionInv
    <3> QED
      BY <3>1, <3>2
  <2>2. CASE Generate
    BY <1>1, <2>2 DEF Generate, AtKey, Unborn
  <2>3. CASE ~ Generate /\ ~ \E c \in Rotations : Rotate(c)
    BY <1>1, <2>3
    DEF KeysNext, InsertFirstVersion, ReadForRotate, InsertVersion, ReadForRevoke, Revoke,
        ReadForDestroy, Destroy, StartWithoutKey, ReadForRecovery, MarkRecovering, CreateRequest,
        ReadForConsent, Consent, ReadForRefusal, FreeForRefusal, FreeKey, Refuse, ReadForComplete,
        Complete, FreeForComplete, StopKeyCall, keyRowVars
  <2> QED
    BY <2>1, <2>2, <2>3
<1>2. KeysInv /\ [KeysNext]_keysVars => [Forward]_keysVars
  BY <1>1
<1> QED
  BY <1>2, KeysInvariant, PTL DEF KeysSpec, VersionsMoveForward

\* Cleared material stays away until a recovery makes the key ACTIVE again.
THEOREM ErasuresHold == KeysSpec => ErasedStaysEmpty
<1> DEFINE Stays == Erased => /\ material' = NoMaterial
                              /\ \/ Erased'
                                 \/ \E c \in Refusals \cup Completions :
                                      AtKey(c, "write") /\ ~ AtKey(c, "write")'
<1>1. ASSUME KeysInv, KeysNext, Erased
      PROVE  Stays
  <2> USE <1>1, KindsAreDistinct
      DEF KeysInv, KeysTypeOK, Erased, KeyCalls, Makers, Answers, KeyEnds, AtKey, KeyGoto,
          ReadThen, keyRowVars
  <2>1. CASE Generate \/ InsertFirstVersion
    BY <2>1 DEF Generate, InsertFirstVersion, VersionInv, Unborn
  <2>2. ASSUME NEW c \in Rotations, ReadForRotate(c) \/ InsertVersion(c) \/ Rotate(c)
        PROVE  Stays
    BY <2>2 DEF ReadForRotate, InsertVersion, Rotate
  <2>3. ASSUME NEW c \in Revocations, ReadForRevoke(c) \/ Revoke(c)
        PROVE  Stays
    BY <2>3 DEF ReadForRevoke, Revoke
  <2>4. ASSUME NEW c \in Destructions, ReadForDestroy(c) \/ Destroy(c)
        PROVE  Stays
    BY <2>4 DEF ReadForDestroy, Destroy
  <2>5. ASSUME NEW r \in Recoveries,
               StartWithoutKey(r) \/ ReadForRecovery(r) \/ MarkRecovering(r) \/ CreateRequest(r)
        PROVE  Stays
    BY <2>5 DEF StartWithoutKey, ReadForRecovery, MarkRecovering, CreateRequest
  <2>6. ASSUME NEW c \in Consents, ReadForConsent(c) \/ Consent(c)
        PROVE  Stays
    BY <2>6 DEF ReadForConsent, Consent
  <2>7. ASSUME NEW c \in Refusals, ReadForRefusal(c) \/ FreeForRefusal(c) \/ Refuse(c)
        PROVE  Stays
    BY <2>7 DEF ReadForRefusal, FreeForRefusal, FreeKey, Refuse
  <2>8. ASSUME NEW c \in Completions, ReadForComplete(c) \/ Complete(c) \/ FreeForComplete(c)
        PROVE  Stays
    BY <2>8 DEF ReadForComplete, Complete, FreeForComplete, FreeKey
  <2>9. ASSUME NEW c \in KeyCalls, StopKeyCall(c)
        PROVE  Stays
    BY <2>9 DEF StopKeyCall
  <2> QED
    BY <2>1, <2>2, <2>3, <2>4, <2>5, <2>6, <2>7, <2>8, <2>9 DEF KeysNext
<1>2. KeysInv /\ [KeysNext]_keysVars => [Stays]_keysVars
  BY <1>1
<1> QED
  BY <1>2, KeysInvariant, PTL DEF KeysSpec, ErasedStaysEmpty

=============================================================================
