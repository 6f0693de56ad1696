------------------------ MODULE WalletServiceProofs ------------------------
(***************************************************************************)
(* Two parts of the wallet service.  WalletLifecycle, for any number of    *)
(* wallets and requests: the status and its audit trail agree, a wallet is *)
(* born once, and none stays PENDING without a creation that owes its      *)
(* activation.  TransferReview, for any number of transfers, scenarios and *)
(* amounts: what the closing of superseded reviews reaches, and how a      *)
(* simulated transfer and its review stay together.                        *)
(***************************************************************************)
EXTENDS WalletLifecycle, TransferReview, SequenceTheorems, TLAPS

-----------------------------------------------------------------------------
(* WalletLifecycle: the inductive invariant.                                 *)

\* A request past its checks acts on a wallet that exists, and so has read a
\* status; only a creation writes a row.
ActsOnARow ==
  \A a \in Actors :
    /\ apc[a] = "create" => areq[a].goal = "CREATE"
    /\ apc[a] \in {"transition", "update"} => status[areq[a].wallet] # Absent
    /\ apc[a] = "update" => aseen[a] # Absent

LifecycleInv == LifecycleTypeOK /\ ActsOnARow /\ StatusIsLastHistory /\ BornOnce /\ PendingIsOwed

-----------------------------------------------------------------------------
(* Types, and what an update does to one wallet.                             *)

LEMMA TargetType ==
  ASSUME LifecycleTypeOK, NEW a \in Actors
  PROVE  /\ areq[a].wallet \in Wallets /\ areq[a].goal \in Goals
         /\ Target(a) \in Statuses \ {"PENDING"}
BY DEF LifecycleTypeOK, Target, Goals, Statuses

LEMMA AppendedSequence ==
  ASSUME NEW S, NEW s \in Seq(S), NEW e \in S
  PROVE  /\ Append(s, e) \in Seq(S) /\ Append(s, e) # << >>
         /\ Len(s) \in Nat /\ Len(Append(s, e)) = Len(s) + 1
         /\ Append(s, e)[Len(s) + 1] = e
         /\ \A i \in 1..Len(s) : Append(s, e)[i] = s[i]
         /\ Len(s) = 0 <=> s = << >>
         /\ s # << >> => s[Len(s)] \in S
<1>1. Len(s) \in Nat /\ (Len(s) = 0 <=> s = << >>)
  BY EmptySeq, LenProperties
<1>2. s # << >> => s[Len(s)] \in S
  BY <1>1, ElementOfSeq
<1> QED
  BY <1>1, <1>2, AppendProperties

LEMMA LifecycleTypeStep ==
  ASSUME LifecycleTypeOK, [LifecycleNext]_lifecycleVars
  PROVE  LifecycleTypeOK'
<1> USE DEF LifecycleTypeOK, MoveActor, ActorPCs
<1>1. ASSUME NEW a \in Actors, CheckCreate(a) \/ CheckTransition(a) \/ ReadRow(a) \/ CrashActor(a)
      PROVE  LifecycleTypeOK'
  <2>1. status[areq[a].wallet] \in Statuses \cup {Absent}
    BY TargetType
  <2> QED
    BY <1>1, <2>1 DEF CheckCreate, CheckTransition, ReadRow, CrashActor
<1>2. ASSUME NEW a \in Actors, CreateRow(a) \/ WriteRow(a)
      PROVE  LifecycleTypeOK'
  <2> DEFINE w == areq[a].wallet
             Entries == [from : Statuses \cup {Absent}, to : Statuses]
  <2>1. w \in Wallets /\ Target(a) \in Statuses /\ aseen[a] \in Statuses \cup {Absent}
    BY TargetType
  <2>2. \A e \in Entries : Append(history[w], e) \in Seq(Entries)
    <3>1. history[w] \in Seq(Entries)
      BY <2>1
    <3> QED
      BY <3>1, AppendedSequence
  <2>3. CASE CreateRow(a)
    <3>1. [from |-> Absent, to |-> "PENDING"] \in Entries
      BY DEF Statuses
    <3>2. /\ status' \in [Wallets -> Statuses \cup {Absent}]
          /\ UNCHANGED <<areq, aseen>>
      BY <2>1, <2>3 DEF CreateRow, Statuses
    <3>3. history' \in [Wallets -> Seq(Entries)]
      <4> HIDE DEF Entries
      <4> QED
        BY <2>1, <2>2, <2>3, <3>1 DEF CreateRow, Entries
    <3>4. apc' \in [Actors -> ActorPCs]
      BY <2>3 DEF CreateRow
    <3> QED
      BY <3>2, <3>3, <3>4
  <2>4. CASE WriteRow(a)
    <3>1. [from |-> aseen[a], to |-> Target(a)] \in Entries
      BY <2>1
    <3> QED
      BY <2>1, <2>2, <2>4, <3>1 DEF WriteRow
  <2> QED
    BY <1>2, <2>3, <2>4
<1>3. CASE UNCHANGED lifecycleVars
  BY <1>3 DEF lifecycleVars
<1> QED
  BY <1>1, <1>2, <1>3 DEF LifecycleNext, ActorStep

\* Adding an entry to the history of one wallet, and moving to its status.
LEMMA AddedEntry ==
  ASSUME LifecycleTypeOK, StatusIsLastHistory, BornOnce,
         NEW w \in Wallets, NEW f \in Statuses \cup {Absent}, NEW t \in Statuses,
         f = Absent <=> status[w] = Absent,
         status' = [status EXCEPT ![w] = t],
         history' = [history EXCEPT ![w] = Append(@, [from |-> f, to |-> t])]
  PROVE  StatusIsLastHistory' /\ BornOnce'
<1> DEFINE e == [from |-> f, to |-> t]
           Entries == [from : Statuses \cup {Absent}, to : Statuses]
           h == history[w]
<1>1. h \in Seq(Entries) /\ e \in Entries /\ status[w] \in Statuses \cup {Absent}
  BY DEF LifecycleTypeOK
<1>2. /\ Len(Append(h, e)) = Len(h) + 1 /\ Len(h) \in Nat
      /\ Append(h, e)[Len(h) + 1] = e
      /\ \A i \in 1..Len(h) : Append(h, e)[i] = h[i]
      /\ Append(h, e) # << >> /\ Append(h, e) \in Seq(Entries)
      /\ Len(h) = 0 <=> h = << >>
      /\ h # << >> => Last(h) \in Entries
  <2> HIDE DEF h, e, Entries
  <2> QED
    BY <1>1, AppendedSequence DEF Last
<1>3. Len(h) = 0 <=> f = Absent
  BY <1>2 DEF StatusIsLastHistory, Absent, Statuses
<1>4. history \in [Wallets -> Seq(Entries)] /\ status \in [Wallets -> Statuses \cup {Absent}]
  BY DEF LifecycleTypeOK
<1>5. /\ history' \in [Wallets -> Seq(Entries)]
      /\ \A v \in Wallets : history'[v] = IF v = w THEN Append(h, e) ELSE history[v]
      /\ \A v \in Wallets : status'[v] = IF v = w THEN t ELSE status[v]
  <2>1. history' = [history EXCEPT ![w] = Append(h, e)]
    OBVIOUS
  <2> HIDE DEF e, Entries
  <2> QED
    BY <2>1, <1>2, <1>4
<1>6. StatusIsLastHistory'
  BY <1>2, <1>5 DEF StatusIsLastHistory, Last
<1>7. BornOnce'
  <2> SUFFICES ASSUME NEW v \in Wallets, NEW i \in 1..Len(history'[v])
               PROVE  (history'[v][i].from = Absent) <=> (i = 1)
    BY DEF BornOnce
  <2>1. CASE v # w
    BY <2>1, <1>5 DEF BornOnce
  <2>2. CASE v = w /\ i = Len(h) + 1
    BY <2>2, <1>2, <1>3, <1>5
  <2>3. CASE v = w /\ i # Len(h) + 1
    <3>1. i \in 1..Len(h)
      BY <2>3, <1>2, <1>5
    <3> QED
      BY <2>3, <3>1, <1>2, <1>5 DEF BornOnce
  <2> QED
    BY <2>1, <2>2, <2>3
<1> QED
  BY <1>6, <1>7

-----------------------------------------------------------------------------
(* The steps.                                                                *)

LEMMA InitLifecycleInv == LifecycleInit => LifecycleInv
BY DEF LifecycleInit, LifecycleInv, LifecycleTypeOK, ActsOnARow, StatusIsLastHistory, BornOnce,
       PendingIsOwed, ActorPCs, Absent, Statuses

LEMMA LifecycleInvStep == LifecycleInv /\ [LifecycleNext]_lifecycleVars => LifecycleInv'
<1> SUFFICES ASSUME LifecycleInv, [LifecycleNext]_lifecycleVars PROVE LifecycleInv'
  OBVIOUS
<1>1. LifecycleTypeOK'
  BY LifecycleTypeStep DEF LifecycleInv
<1> USE <1>1 DEF LifecycleInv
<1>2. ASSUME NEW a \in Actors, CheckCreate(a) \/ CheckTransition(a) \/ ReadRow(a) \/ CrashActor(a)
      PROVE  LifecycleInv'
  <2>1. StatusIsLastHistory' /\ BornOnce'
    BY <1>2 DEF CheckCreate, CheckTransition, ReadRow, CrashActor, StatusIsLastHistory, BornOnce
  <2>2. ActsOnARow'
    BY <1>2 DEF CheckCreate, CheckTransition, ReadRow, CrashActor, MoveActor, ActsOnARow,
                LifecycleTypeOK
  <2>3. PendingIsOwed'
    BY <1>2 DEF CheckCreate, CheckTransition, ReadRow, CrashActor, MoveActor, PendingIsOwed,
                LifecycleTypeOK
  <2> QED
    BY <2>1, <2>2, <2>3
<1>3. ASSUME NEW a \in Actors, CreateRow(a)
      PROVE  LifecycleInv'
  <2> DEFINE w == areq[a].wallet
  <2>1. w \in Wallets /\ areq[a] = [wallet |-> w, goal |-> "CREATE"]
    BY <1>3 DEF CreateRow, ActsOnARow, LifecycleTypeOK
  <2>2. CASE status[w] = Absent
    <3>1. StatusIsLastHistory' /\ BornOnce'
      BY <1>3, <2>1, <2>2, AddedEntry DEF CreateRow, Statuses
    <3>2. ActsOnARow'
      BY <1>3, <2>1, <2>2 DEF CreateRow, MoveActor, ActsOnARow, LifecycleTypeOK, Absent
    <3>3. PendingIsOwed'
      <4>1. apc' = [apc EXCEPT ![a] = "transition"] /\ areq' = areq
        BY <1>3, <2>2 DEF CreateRow, MoveActor
      <4>2. apc \in [Actors -> ActorPCs] /\ apc[a] = "create"
        BY <1>3 DEF CreateRow, LifecycleTypeOK
      <4>3. \A v \in Wallets \ {w} : status'[v] = status[v]
        BY <1>3, <2>1, <2>2 DEF CreateRow, LifecycleTypeOK
      <4> QED
        BY <2>1, <4>1, <4>2, <4>3 DEF PendingIsOwed
    <3> QED
      BY <3>1, <3>2, <3>3
  <2>3. CASE status[w] # Absent
    <3>1. /\ apc' = [apc EXCEPT ![a] = "done"] /\ apc[a] = "create"
          /\ UNCHANGED <<status, history, areq, aseen>>
      BY <1>3, <2>3 DEF CreateRow, MoveActor
    <3>2. apc \in [Actors -> ActorPCs]
      BY DEF LifecycleTypeOK
    <3> QED
      BY <3>1, <3>2 DEF StatusIsLastHistory, BornOnce, ActsOnARow, PendingIsOwed
  <2> QED
    BY <2>2, <2>3
<1>4. ASSUME NEW a \in Actors, WriteRow(a)
      PROVE  LifecycleInv'
  <2> DEFINE w == areq[a].wallet
  <2>1. /\ w \in Wallets /\ Target(a) \in Statuses \ {"PENDING"}
        /\ aseen[a] \in Statuses \cup {Absent}
        /\ aseen[a] # Absent /\ status[w] # Absent
    BY <1>4, TargetType DEF WriteRow, ActsOnARow, LifecycleTypeOK
  <2>2. StatusIsLastHistory' /\ BornOnce'
    BY <1>4, <2>1, AddedEntry DEF WriteRow
  <2>3. ActsOnARow'
    BY <1>4, <2>1 DEF WriteRow, MoveActor, ActsOnARow, LifecycleTypeOK, Absent, Statuses
  <2>4. PendingIsOwed'
    <3>1. apc' = [apc EXCEPT ![a] = "done"] /\ areq' = areq
      BY <1>4 DEF WriteRow, MoveActor
    <3>2. apc \in [Actors -> ActorPCs]
      BY DEF LifecycleTypeOK
    <3>3. /\ status'[w] # "PENDING"
          /\ \A v \in Wallets \ {w} : status'[v] = status[v]
      BY <1>4, <2>1 DEF WriteRow, LifecycleTypeOK
    <3>4. \A v \in Wallets : areq[a] = [wallet |-> v, goal |-> "CREATE"] => v = w
      OBVIOUS
    <3> SUFFICES ASSUME NEW v \in Wallets, status'[v] = "PENDING"
                 PROVE  \E b \in Actors : /\ areq'[b] = [wallet |-> v, goal |-> "CREATE"]
                                          /\ apc'[b] \in {"transition", "update", "crashed"}
      BY DEF PendingIsOwed
    <3>5. PICK b \in Actors : /\ areq[b] = [wallet |-> v, goal |-> "CREATE"]
                              /\ apc[b] \in {"transition", "update", "crashed"}
      BY <3>3 DEF PendingIsOwed
    <3>6. b # a
      BY <3>3, <3>4, <3>5
    <3> QED
      BY <3>1, <3>2, <3>5, <3>6
  <2> QED
    BY <2>2, <2>3, <2>4
<1>5. CASE UNCHANGED lifecycleVars
  BY <1>5 DEF lifecycleVars, ActsOnARow, StatusIsLastHistory, BornOnce, PendingIsOwed
<1> QED
  BY <1>2, <1>3, <1>4, <1>5 DEF LifecycleNext, ActorStep

-----------------------------------------------------------------------------
(* The theorems.                                                             *)

\* The invariant holds in every state of every behaviour of WalletService's
\* creations and status changes.
THEOREM LifecycleInvariant == LifecycleSpec => []LifecycleInv
<1> QED
  BY InitLifecycleInv, LifecycleInvStep, PTL DEF LifecycleSpec

\* Types hold for any wallets and requests.
THEOREM LifecycleTypeCorrect == LifecycleSpec => []LifecycleTypeOK
<1>1. LifecycleInv => LifecycleTypeOK
  BY DEF LifecycleInv
<1> QED
  BY <1>1, LifecycleInvariant, PTL

\* The status column and the audit trail of transitionStatus agree.
THEOREM StatusesAreLastHistory == LifecycleSpec => []StatusIsLastHistory
<1>1. LifecycleInv => StatusIsLastHistory
  BY DEF LifecycleInv
<1> QED
  BY <1>1, LifecycleInvariant, PTL

\* However many createWallet requests race, a wallet is born once.
THEOREM WalletsAreBornOnce == LifecycleSpec => []BornOnce
<1>1. LifecycleInv => BornOnce
  BY DEF LifecycleInv
<1> QED
  BY <1>1, LifecycleInvariant, PTL

\* A PENDING wallet is one whose createWallet is on its way, or has crashed.
THEOREM PendingWalletsAreOwed == LifecycleSpec => []PendingIsOwed
<1>1. LifecycleInv => PendingIsOwed
  BY DEF LifecycleInv
<1> QED
  BY <1>1, LifecycleInvariant, PTL

-----------------------------------------------------------------------------
(* TransferReview: the inductive invariant.                                  *)

\* A prepare call creates a review only if its decision asks for one.  What it has
\* found to close was asked for by a failing price, and has been closed or decided
\* unless it is still to be closed.
FoundIsSuperseded ==
  \A c \in Prepares :
    /\ rpc[c] = "create" => decided[c] # "allowed"
    /\ \A k \in found[c] : review[k] # "none" /\ why[k] = PriceFailure
    /\ \A k \in found[c] \ toClose[c] : review[k] # "PENDING"
    /\ toClose[c] \subseteq found[c]
    /\ rpc[c] = "allowed" => toClose[c] = {}

\* A scenario writes the transaction before its review; an approval that is under
\* way has the row of a pending review, and has read a balance it can draw on.
SimulationInOrder ==
  \A s \in Scenarios :
    /\ rpc[s] \in {"read", "tx"} => simTx[s] = "none" /\ review[s] = "none"
    /\ rpc[s] = "review" => simTx[s] = "PENDING_REVIEW" /\ review[s] = "none"
    /\ verdict[s] # "none" => review[s] = "PENDING"
    /\ verdict[s] = "debit" => debit[s] >= Stake

ReviewInv == ReviewTypeOK /\ FoundIsSuperseded /\ SimulationInOrder /\ SimulationFollowsReview

-----------------------------------------------------------------------------
(* Types.                                                                    *)

LEMMA ReviewInitTypeOK == ReviewInit => ReviewTypeOK
BY DEF ReviewInit, ReviewTypeOK, ReviewStatuses, PreparePCs, SimulationPCs, Reviews

LEMMA ReviewTypeStep ==
  ASSUME ReviewTypeOK, FoundIsSuperseded, SimulationInOrder, [ReviewNext]_reviewVars
  PROVE  ReviewTypeOK'
<1> USE KeyOfAssumption, StakeAssumption
    DEF ReviewTypeOK, ReviewStatuses, PreparePCs, SimulationPCs, Reviews, AtReview, ReviewGoto,
        SetReview, Verdict, Verdicts, userVars, simVars
<1>0. PriceFailure # "allowed" /\ Threshold # "allowed"
  BY DEF PriceFailure, Threshold
<1>1. ASSUME NEW c \in Prepares, PrepareTransfer(c) \/ CreateReview(c) \/ AnnounceReview(c)
      PROVE  ReviewTypeOK'
  <2>1. CASE PrepareTransfer(c)
    BY <2>1 DEF PrepareTransfer
  <2>2. CASE CreateReview(c)
    <3>1. KeyOf[c] \in Keys /\ (rpc[c] = "create" => decided[c] # "allowed")
      BY <1>1 DEF FoundIsSuperseded
    <3> QED
      BY <2>2, <3>1 DEF CreateReview
  <2>3. CASE AnnounceReview(c)
    BY <2>3 DEF AnnounceReview
  <2> QED
    BY <1>1, <2>1, <2>2, <2>3
<1>2. ASSUME NEW c \in Prepares, FindSuperseded(c) \/ CloseNext(c) \/ AnswerPrepare(c)
      PROVE  ReviewTypeOK'
  BY <1>2 DEF FindSuperseded, Superseded, CloseNext, AnswerPrepare
<1>3. ASSUME NEW k \in Keys, DecideTransfer(k)
      PROVE  ReviewTypeOK'
  BY <1>3 DEF DecideTransfer
<1>4. ASSUME NEW u \in Upserts, ReadForUpsert(u) \/ Upsert(u)
      PROVE  ReviewTypeOK'
  BY <1>4 DEF ReadForUpsert, Upsert
<1>5. CASE RemoveBalance
  BY <1>5 DEF RemoveBalance
<1>6. ASSUME NEW s \in Scenarios,
             ReadForScenario(s) \/ CreateSimulation(s) \/ CreateSimulatedReview(s)
      PROVE  ReviewTypeOK'
  BY <1>6 DEF ReadForScenario, CreateSimulation, CreateSimulatedReview
<1>7. ASSUME NEW s \in Scenarios, ClaimForApproval(s) \/ RollBack(s) \/ Reject(s)
      PROVE  ReviewTypeOK'
  BY <1>7 DEF ClaimForApproval, RollBack, Reject
<1>8. ASSUME NEW s \in Scenarios, ReadForApproval(s) \/ Approve(s)
      PROVE  ReviewTypeOK'
  <2>1. CASE ReadForApproval(s)
    BY <2>1 DEF ReadForApproval, NoRow
  <2>2. CASE Approve(s)
    <3>1. verdict[s] = "debit" => debit[s] - Stake \in Nat
      BY DEF SimulationInOrder
    <3>2. simBalance' \in Nat \cup {NoRow}
      BY <2>2, <3>1 DEF Approve
    <3> QED
      BY <2>2, <3>2 DEF Approve
  <2> QED
    BY <1>8, <2>1, <2>2
<1>9. ASSUME NEW c \in Prepares \cup Scenarios, StopReviewCall(c)
      PROVE  ReviewTypeOK'
  BY <1>9 DEF StopReviewCall
<1>10. CASE UNCHANGED reviewVars
  BY <1>10 DEF reviewVars
<1> QED
  BY <1>1, <1>2, <1>3, <1>4, <1>5, <1>6, <1>7, <1>8, <1>9, <1>10
  DEF ReviewNext, TransferNext, SimulationNext

-----------------------------------------------------------------------------
(* The parts of the invariant.                                               *)

LEMMA FoundStep ==
  ASSUME ReviewTypeOK, FoundIsSuperseded, SimulationInOrder, [ReviewNext]_reviewVars
  PROVE  FoundIsSuperseded'
<1> USE KeyOfAssumption, ReviewKindsAreDistinct
    DEF ReviewTypeOK, FoundIsSuperseded, Reviews, AtReview, ReviewGoto, SetReview, Verdict,
        userVars, simVars
<1>1. ASSUME NEW c \in Prepares, PrepareTransfer(c) \/ AnnounceReview(c) \/ AnswerPrepare(c)
      PROVE  FoundIsSuperseded'
  BY <1>1 DEF PrepareTransfer, AnnounceReview, AnswerPrepare
<1>2. ASSUME NEW c \in Prepares, CreateReview(c)
      PROVE  FoundIsSuperseded'
  BY <1>2 DEF CreateReview
<1>3. ASSUME NEW c \in Prepares, FindSuperseded(c)
      PROVE  FoundIsSuperseded'
  BY <1>3 DEF FindSuperseded, Superseded
<1>4. ASSUME NEW c \in Prepares, CloseNext(c)
      PROVE  FoundIsSuperseded'
  BY <1>4 DEF CloseNext
<1>5. ASSUME NEW k \in Keys, DecideTransfer(k)
      PROVE  FoundIsSuperseded'
  BY <1>5 DEF DecideTransfer
<1>6. ASSUME NEW u \in Upserts, ReadForUpsert(u) \/ Upsert(u)
      PROVE  FoundIsSuperseded'
  BY <1>6 DEF ReadForUpsert, Upsert
<1>7. CASE RemoveBalance
  BY <1>7 DEF RemoveBalance
<1>8. ASSUME NEW s \in Scenarios,
             ReadForScenario(s) \/ CreateSimulation(s) \/ CreateSimulatedReview(s)
      PROVE  FoundIsSuperseded'
  BY <1>8 DEF ReadForScenario, CreateSimulation, CreateSimulatedReview
<1>9. ASSUME NEW s \in Scenarios,
             ClaimForApproval(s) \/ ReadForApproval(s) \/ Approve(s) \/ RollBack(s) \/ Reject(s)
      PROVE  FoundIsSuperseded'
  BY <1>9 DEF ClaimForApproval, ReadForApproval, Approve, RollBack, Reject
<1>10. ASSUME NEW c \in Prepares \cup Scenarios, StopReviewCall(c)
       PROVE  FoundIsSuperseded'
  BY <1>10 DEF StopReviewCall
<1>11. CASE UNCHANGED reviewVars
  BY <1>11 DEF reviewVars
<1> QED
  BY <1>1, <1>2, <1>3, <1>4, <1>5, <1>6, <1>7, <1>8, <1>9, <1>10, <1>11
  DEF ReviewNext, TransferNext, SimulationNext

LEMMA SimulationStep ==
  ASSUME ReviewTypeOK, SimulationInOrder, SimulationFollowsReview, [ReviewNext]_reviewVars
  PROVE  SimulationInOrder' /\ SimulationFollowsReview'
<1> USE KeyOfAssumption, ReviewKindsAreDistinct
    DEF ReviewTypeOK, SimulationInOrder, SimulationFollowsReview, Reviews, AtReview, ReviewGoto,
        SetReview, Verdict, userVars, simVars
<1> DEFINE Goal == SimulationInOrder' /\ SimulationFollowsReview'
<1>1. ASSUME NEW c \in Prepares, PrepareTransfer(c) \/ AnnounceReview(c) \/ FindSuperseded(c)
      PROVE  Goal
  BY <1>1 DEF PrepareTransfer, AnnounceReview, FindSuperseded
<1>2. ASSUME NEW c \in Prepares, CreateReview(c)
      PROVE  Goal
  BY <1>2 DEF CreateReview
<1>3. ASSUME NEW c \in Prepares, CloseNext(c) \/ AnswerPrepare(c)
      PROVE  Goal
  BY <1>3 DEF CloseNext, AnswerPrepare
<1>4. ASSUME NEW k \in Keys, DecideTransfer(k)
      PROVE  Goal
  BY <1>4 DEF DecideTransfer
<1>5. ASSUME NEW u \in Upserts, ReadForUpsert(u) \/ Upsert(u)
      PROVE  Goal
  BY <1>5 DEF ReadForUpsert, Upsert
<1>6. CASE RemoveBalance
  BY <1>6 DEF RemoveBalance
<1>7. ASSUME NEW s \in Scenarios,
             ReadForScenario(s) \/ CreateSimulation(s) \/ CreateSimulatedReview(s)
      PROVE  Goal
  BY <1>7 DEF ReadForScenario, CreateSimulation, CreateSimulatedReview
<1>8. ASSUME NEW s \in Scenarios, ClaimForApproval(s) \/ RollBack(s)
      PROVE  Goal
  BY <1>8 DEF ClaimForApproval, RollBack
<1>9. ASSUME NEW s \in Scenarios, ReadForApproval(s)
      PROVE  Goal
  BY <1>9, StakeAssumption DEF ReadForApproval
<1>10. ASSUME NEW s \in Scenarios, Approve(s) \/ Reject(s)
       PROVE  Goal
  BY <1>10 DEF Approve, Reject
<1>11. ASSUME NEW c \in Prepares \cup Scenarios, StopReviewCall(c)
       PROVE  Goal
  BY <1>11 DEF StopReviewCall
<1>12. CASE UNCHANGED reviewVars
  BY <1>12 DEF reviewVars
<1> QED
  BY <1>1, <1>2, <1>3, <1>4, <1>5, <1>6, <1>7, <1>8, <1>9, <1>10, <1>11, <1>12
  DEF ReviewNext, TransferNext, SimulationNext

-----------------------------------------------------------------------------
(* The theorems.                                                             *)

LEMMA InitReviewInv == ReviewInit => ReviewInv
BY ReviewInitTypeOK, ReviewKindsAreDistinct
DEF ReviewInit, ReviewInv, FoundIsSuperseded, SimulationInOrder, SimulationFollowsReview, Reviews

\* The invariant holds in every state of every behaviour of the reviews.
THEOREM ReviewInvariant == ReviewSpec => []ReviewInv
<1>1. ReviewInv /\ [ReviewNext]_reviewVars => ReviewInv'
  BY ReviewTypeStep, FoundStep, SimulationStep DEF ReviewInv
<1> QED
  BY <1>1, InitReviewInv, PTL DEF ReviewSpec

\* Types hold; in particular no approval takes the simulated balance below zero.
THEOREM ReviewTypeCorrect == ReviewSpec => []ReviewTypeOK
<1>1. ReviewInv => ReviewTypeOK
  BY DEF ReviewInv
<1> QED
  BY <1>1, ReviewInvariant, PTL

\* A transfer that prepare allows leaves no review it superseded open.
THEOREM SupersededAreLeftClosed == ReviewSpec => []SupersededAreClosed
<1>1. ReviewInv => SupersededAreClosed
  BY DEF ReviewInv, FoundIsSuperseded, SupersededAreClosed, AtReview
<1> QED
  BY <1>1, ReviewInvariant, PTL

\* approveReview and rejectReview decide a simulated transfer with its review.
THEOREM SimulationsFollowReviews == ReviewSpec => []SimulationFollowsReview
<1>1. ReviewInv => SimulationFollowsReview
  BY DEF ReviewInv
<1> QED
  BY <1>1, ReviewInvariant, PTL

\* The closing by id of superseded reviews never reaches a review the threshold
\* or a scenario asked for: administrators alone decide those, and once.
THEOREM GenuineDecisionsAreFinal == ReviewSpec => GenuineDecisionIsFinal
<1> DEFINE Final == \A v \in Reviews :
              /\ review[v] # "none" /\ review'[v] # review[v]
              /\ v \in Keys => why[v] = Threshold
              => review[v] = "PENDING" /\ review'[v] \in Verdicts
<1>1. ASSUME ReviewInv, ReviewNext
      PROVE  Final
  <2> USE <1>1, KeyOfAssumption, ReviewKindsAreDistinct
      DEF ReviewInv, ReviewTypeOK, Reviews, AtReview, ReviewGoto, SetReview, Verdict, Verdicts,
          userVars, simVars
  <2>1. ASSUME NEW c \in Prepares, PrepareTransfer(c) \/ CreateReview(c) \/ AnnounceReview(c)
        PROVE  Final
    BY <2>1 DEF PrepareTransfer, CreateReview, AnnounceReview
  <2>2. ASSUME NEW c \in Prepares, FindSuperseded(c) \/ AnswerPrepare(c)
        PROVE  Final
    BY <2>2 DEF FindSuperseded, AnswerPrepare
  <2>3. ASSUME NEW c \in Prepares, CloseNext(c)
        PROVE  Final
    BY <2>3 DEF CloseNext, FoundIsSuperseded, PriceFailure, Threshold
  <2>4. ASSUME NEW k \in Keys, DecideTransfer(k)
        PROVE  Final
    BY <2>4 DEF DecideTransfer
  <2>5. ASSUME NEW u \in Upserts, ReadForUpsert(u) \/ Upsert(u)
        PROVE  Final
    BY <2>5 DEF ReadForUpsert, Upsert
  <2>6. CASE RemoveBalance
    BY <2>6 DEF RemoveBalance
  <2>7. ASSUME NEW s \in Scenarios,
               ReadForScenario(s) \/ CreateSimulation(s) \/ CreateSimulatedReview(s)
        PROVE  Final
    BY <2>7 DEF ReadForScenario, CreateSimulation, CreateSimulatedReview, SimulationInOrder
  <2>8. ASSUME NEW s \in Scenarios, \/ ClaimForApproval(s) \/ ReadForApproval(s)
                                   \/ Approve(s) \/ RollBack(s) \/ Reject(s)
        PROVE  Final
    BY <2>8 DEF ClaimForApproval, ReadForApproval, Approve, RollBack, Reject, SimulationInOrder
  <2>9. ASSUME NEW c \in Prepares \cup Scenarios, StopReviewCall(c)
        PROVE  Final
    BY <2>9 DEF StopReviewCall
  <2> QED
    BY <2>1, <2>2, <2>3, <2>4, <2>5, <2>6, <2>7, <2>8, <2>9
    DEF ReviewNext, TransferNext, SimulationNext
<1>2. ReviewInv /\ [ReviewNext]_reviewVars => [Final]_reviewVars
  BY <1>1
<1> QED
  BY <1>2, ReviewInvariant, PTL DEF ReviewSpec, GenuineDecisionIsFinal

==============================================================================
