--------------------------- MODULE TransferReview ---------------------------
(***************************************************************************)
(* Reviews of large transfers of one owner: TransferPrepareService, the    *)
(* large-transfer scenario of AdminSimulationService with the simulated    *)
(* balance it draws on, and the administrator's verdicts.                  *)
(*                                                                         *)
(* A user's transfer is named by its idempotency key, which is the unique  *)
(* sourceId of its review; a simulated one by the call that creates it.    *)
(* Administrators may ask for a verdict at any time.  A verdict is one     *)
(* transaction that claims the review by status; every other write of a    *)
(* review is by id alone.                                                  *)
(***************************************************************************)
EXTENDS Integers

CONSTANTS Prepares,    \* prepare calls
          Keys,        \* idempotency keys
          KeyOf,       \* KeyOf[c]: the key prepare call c carries
          Scenarios,   \* large_transfer_review scenario calls
          Upserts,     \* upsertBalance calls
          Stake,       \* the amount a scenario moves
          Quantities   \* what an upsert may make of the balance

VARIABLES review,      \* review[v]: large_transfer_reviews.status, or "none"
          why,         \* why[k]: metadata.decisionStatus of k's review
          rpc,         \* rpc[c]: where a call is
          decided,     \* decided[c]: the decision of prepare call c
          found,       \* found[c]: the reviews c found to close
          toClose,     \* those of them c has yet to close
          simTx,       \* simTx[s]: simulation_transactions.status, or "none"
          simBalance,  \* quantity of the simulated balance, or NoRow
          onRow,       \* the calls and transactions whose balance row still exists
          verdict,     \* verdict[s]: how far the transaction approving s is
          debit        \* debit[s]: the balance that transaction has read

Reviews == Keys \cup Scenarios
PriceFailure == "price_failure"   \* price_unavailable, stale_price
Threshold == "review_required"
NoRow == -1

userVars == <<why, decided, found, toClose>>
simVars == <<simTx, simBalance, onRow, verdict, debit>>
reviewVars == <<review, rpc, userVars, simVars>>

ASSUME KeyOfAssumption == KeyOf \in [Prepares -> Keys]
ASSUME ReviewKindsAreDistinct == Keys \cap Scenarios = {} /\ Prepares \cap (Scenarios \cup Upserts) = {}
                                 /\ Scenarios \cap Upserts = {}
ASSUME StakeAssumption == Stake \in Nat /\ Quantities \subseteq Nat

ReviewStatuses == {"none", "PENDING", "APPROVED", "REJECTED", "EXPIRED"}
PreparePCs == {"lookup", "create", "announce", "find", "close",
               "allowed", "pending", "replayed", "refused", "stopped"}
SimulationPCs == {"read", "tx", "review", "update", "insert", "done", "stopped"}

ReviewTypeOK ==
  /\ review \in [Reviews -> ReviewStatuses]
  /\ why \in [Keys -> {"none", PriceFailure, Threshold}]
  /\ rpc \in [Prepares \cup Scenarios \cup Upserts -> PreparePCs \cup SimulationPCs]
  /\ decided \in [Prepares -> {"allowed", PriceFailure, Threshold}]
  /\ found \in [Prepares -> SUBSET Keys]
  /\ toClose \in [Prepares -> SUBSET Keys]
  /\ simTx \in [Scenarios -> {"none", "PENDING_REVIEW", "COMPLETED", "REJECTED"}]
  /\ simBalance \in Nat \cup {NoRow}
  /\ onRow \subseteq Scenarios \cup Upserts
  /\ verdict \in [Scenarios -> {"none", "claimed", "debit", "write"}]
  /\ debit \in [Scenarios -> Nat]

ReviewInit ==
  /\ review = [v \in Reviews |-> "none"]
  /\ why = [k \in Keys |-> "none"]
  /\ rpc = [c \in Prepares \cup Scenarios \cup Upserts |-> IF c \in Prepares THEN "lookup" ELSE "read"]
  /\ decided = [c \in Prepares |-> "allowed"]
  /\ found = [c \in Prepares |-> {}] /\ toClose = [c \in Prepares |-> {}]
  /\ simTx = [s \in Scenarios |-> "none"]
  /\ simBalance = NoRow
  /\ onRow = {}
  /\ verdict = [s \in Scenarios |-> "none"] /\ debit = [s \in Scenarios |-> 0]

AtReview(c, label) == rpc[c] = label
ReviewGoto(c, label) == rpc' = [rpc EXCEPT ![c] = label]
SetReview(v, s) == review' = [review EXCEPT ![v] = s]

-----------------------------------------------------------------------------
(* prepare.  A definition marked Fault is a broken variant of the one it     *)
(* precedes: no specification uses it.                                       *)

\* A key that has a review is answered with it.  Else the amount is valued:
\* below the thresholds, or between them with approved KYC, it is allowed; a
\* price that fails, or a value at the review threshold, asks for a review.
PrepareTransfer(c) ==
  /\ AtReview(c, "lookup")
  /\ IF review[KeyOf[c]] # "none"
       THEN ReviewGoto(c, "replayed") /\ UNCHANGED decided
       ELSE \/ ReviewGoto(c, "refused") /\ UNCHANGED decided
            \/ \E d \in {"allowed", PriceFailure, Threshold} :
                 /\ decided' = [decided EXCEPT ![c] = d]
                 /\ ReviewGoto(c, IF d = "allowed" THEN "find" ELSE "create")
  /\ UNCHANGED <<review, why, found, toClose, simVars>>

\* createReview: when the key has got a review since, that one is the answer.
CreateReview(c) ==
  LET k == KeyOf[c]
  IN /\ AtReview(c, "create")
     /\ IF review[k] # "none"
          THEN ReviewGoto(c, "replayed") /\ UNCHANGED <<review, why>>
          ELSE /\ SetReview(k, "PENDING")
               /\ why' = [why EXCEPT ![k] = decided[c]]
               /\ ReviewGoto(c, "announce")
     /\ UNCHANGED <<decided, found, toClose, simVars>>

\* The audit row, the administrators' event and the notification.
AnnounceReview(c) ==
  /\ AtReview(c, "announce")
  /\ ReviewGoto(c, IF decided[c] = Threshold THEN "find" ELSE "pending")
  /\ UNCHANGED <<review, userVars, simVars>>

\* Fault: every pending review of the owner counts as superseded.
SupersededAny(c) ==
  {k \in Keys : review[k] = "PENDING" /\ (decided[c] = "allowed" \/ k # KeyOf[c])}

\* The pending price-failure reviews, but for the call's own.
Superseded(c) ==
  {k \in Keys : /\ review[k] = "PENDING" /\ why[k] = PriceFailure
                /\ decided[c] = "allowed" \/ k # KeyOf[c]}

FindSuperseded(c) ==
  /\ AtReview(c, "find")
  /\ found' = [found EXCEPT ![c] = Superseded(c)]
  /\ toClose' = [toClose EXCEPT ![c] = Superseded(c)]
  /\ ReviewGoto(c, "close")
  /\ UNCHANGED <<review, why, decided, simVars>>

\* Fault: the loop returns after its first update.
CloseOne(c) ==
  /\ AtReview(c, "close")
  /\ \E k \in toClose[c] : SetReview(k, "EXPIRED")
  /\ toClose' = [toClose EXCEPT ![c] = {}]
  /\ UNCHANGED <<rpc, why, decided, found, simVars>>

\* One update of the loop, by id: whatever the status has become since.
CloseNext(c) ==
  /\ AtReview(c, "close")
  /\ \E k \in toClose[c] : /\ SetReview(k, "EXPIRED")
                           /\ toClose' = [toClose EXCEPT ![c] = @ \ {k}]
  /\ UNCHANGED <<rpc, why, decided, found, simVars>>

AnswerPrepare(c) ==
  /\ AtReview(c, "close")
  /\ toClose[c] = {}
  /\ ReviewGoto(c, IF decided[c] = "allowed" THEN "allowed" ELSE "pending")
  /\ UNCHANGED <<review, userVars, simVars>>

-----------------------------------------------------------------------------
(* The simulated balance and its transactions. *)

\* upsertBalance reads the row, and writes what it makes of it by id; the row is
\* created if there was none, unless another upsert has been faster.
ReadForUpsert(u) ==
  /\ u \in Upserts
  /\ AtReview(u, "read")
  /\ onRow' = IF simBalance = NoRow THEN onRow ELSE onRow \cup {u}
  /\ ReviewGoto(u, IF simBalance = NoRow THEN "insert" ELSE "update")
  /\ UNCHANGED <<review, userVars, simTx, simBalance, verdict, debit>>

\* A decrease below zero is refused.
Upsert(u) ==
  /\ u \in Upserts
  /\ \/ /\ IF AtReview(u, "insert") THEN simBalance = NoRow ELSE AtReview(u, "update") /\ u \in onRow
        /\ simBalance' \in Quantities
        /\ ReviewGoto(u, "done")
     \/ rpc[u] \in {"insert", "update"} /\ ReviewGoto(u, "stopped") /\ UNCHANGED simBalance
  /\ onRow' = onRow \ {u}
  /\ UNCHANGED <<review, userVars, simTx, verdict, debit>>

\* removeBalance, resetPortfolio: the transactions of the row lose their link.
RemoveBalance ==
  /\ simBalance # NoRow
  /\ simBalance' = NoRow
  /\ onRow' = {}
  /\ UNCHANGED <<review, rpc, userVars, simTx, verdict, debit>>

\* The scenario needs a balance, of any quantity.
ReadForScenario(s) ==
  /\ s \in Scenarios
  /\ AtReview(s, "read")
  /\ simBalance # NoRow
  /\ onRow' = onRow \cup {s}
  /\ ReviewGoto(s, "tx")
  /\ UNCHANGED <<review, userVars, simTx, simBalance, verdict, debit>>

\* The transaction's row refers to the balance's: it must still be there.
CreateSimulation(s) ==
  /\ AtReview(s, "tx")
  /\ s \in onRow
  /\ simTx' = [simTx EXCEPT ![s] = "PENDING_REVIEW"]
  /\ ReviewGoto(s, "review")
  /\ UNCHANGED <<review, userVars, simBalance, onRow, verdict, debit>>

CreateSimulatedReview(s) ==
  /\ AtReview(s, "review")
  /\ SetReview(s, "PENDING")
  /\ ReviewGoto(s, "done")
  /\ UNCHANGED <<userVars, simVars>>

-----------------------------------------------------------------------------
(* approveReview and rejectReview. *)

\* Of a user's transfer: the claim is all there is to it.
DecideTransfer(k) ==
  /\ k \in Keys
  /\ review[k] = "PENDING"
  /\ \E s \in {"APPROVED", "REJECTED"} : SetReview(k, s)
  /\ UNCHANGED <<rpc, userVars, simVars>>

Verdict(s, label) == verdict' = [verdict EXCEPT ![s] = label]

\* Fault: the claim is committed on its own.
ClaimCommitted(s) ==
  /\ review[s] = "PENDING" /\ verdict[s] = "none"
  /\ SetReview(s, "APPROVED")
  /\ Verdict(s, IF s \in onRow THEN "claimed" ELSE "write")
  /\ UNCHANGED <<rpc, userVars, simTx, simBalance, onRow, debit>>

\* approveReview claims the review, whose row stays locked until the commit, and
\* reads the transaction: the balance it names, if it still names one, is next.
ClaimForApproval(s) ==
  /\ review[s] = "PENDING" /\ verdict[s] = "none"
  /\ Verdict(s, IF s \in onRow THEN "claimed" ELSE "write")
  /\ debit' = [debit EXCEPT ![s] = 0]
  /\ UNCHANGED <<review, rpc, userVars, simTx, simBalance, onRow>>

\* A balance that is gone or too small rolls the transaction back.
ReadForApproval(s) ==
  /\ verdict[s] = "claimed"
  /\ IF s \in onRow /\ simBalance >= Stake
       THEN Verdict(s, "debit") /\ debit' = [debit EXCEPT ![s] = simBalance]
       ELSE Verdict(s, "none") /\ UNCHANGED debit
  /\ UNCHANGED <<review, rpc, userVars, simTx, simBalance, onRow>>

\* The updates of balance and transaction, and the commit.
Approve(s) ==
  /\ \/ verdict[s] = "write" /\ UNCHANGED simBalance
     \/ verdict[s] = "debit" /\ s \in onRow /\ simBalance' = debit[s] - Stake
  /\ SetReview(s, "APPROVED")
  /\ simTx' = [simTx EXCEPT ![s] = "COMPLETED"]
  /\ Verdict(s, "none")
  /\ UNCHANGED <<rpc, userVars, onRow, debit>>

\* A statement throws, on a balance that is gone for one: nothing is committed.
RollBack(s) ==
  /\ verdict[s] # "none"
  /\ Verdict(s, "none")
  /\ UNCHANGED <<review, rpc, userVars, simTx, simBalance, onRow, debit>>

\* rejectReview waits for the row of a review that is being approved.
Reject(s) ==
  /\ review[s] = "PENDING" /\ verdict[s] = "none"
  /\ SetReview(s, "REJECTED")
  /\ simTx' = [simTx EXCEPT ![s] = "REJECTED"]
  /\ UNCHANGED <<rpc, userVars, simBalance, onRow, verdict, debit>>

-----------------------------------------------------------------------------

\* A database or publisher call throws, or the service dies: nothing is undone.
StopReviewCall(c) ==
  /\ \/ c \in Prepares /\ rpc[c] \in {"lookup", "create", "announce", "find", "close"}
     \/ c \in Scenarios /\ rpc[c] \in {"tx", "review"}
  /\ ReviewGoto(c, "stopped")
  /\ UNCHANGED <<review, userVars, simVars>>

\* What a user's transfers do, and what the simulated ones do.
TransferNext ==
  \/ \E c \in Prepares : \/ PrepareTransfer(c) \/ CreateReview(c) \/ AnnounceReview(c)
                         \/ FindSuperseded(c) \/ CloseNext(c) \/ AnswerPrepare(c)
                         \/ StopReviewCall(c)
  \/ \E k \in Keys : DecideTransfer(k)

SimulationNext ==
  \/ \E u \in Upserts : ReadForUpsert(u) \/ Upsert(u)
  \/ RemoveBalance
  \/ \E s \in Scenarios : \/ ReadForScenario(s) \/ CreateSimulation(s) \/ CreateSimulatedReview(s)
                          \/ ClaimForApproval(s) \/ ReadForApproval(s) \/ Approve(s)
                          \/ RollBack(s) \/ Reject(s) \/ StopReviewCall(s)

ReviewNext == TransferNext \/ SimulationNext

ReviewSpec == ReviewInit /\ [][ReviewNext]_reviewVars

-----------------------------------------------------------------------------
(* What makes reviews worth asking for. *)

Verdicts == {"APPROVED", "REJECTED"}

\* A review that the threshold or a scenario asked for is decided by an
\* administrator and by nobody else, and once: the closing of superseded reviews,
\* which writes by id, never reaches one (expirePriceFailurePendings: "Does not
\* expire genuine threshold reviews").
GenuineDecisionIsFinal ==
  [][\A v \in Reviews :
       /\ review[v] # "none" /\ review'[v] # review[v]
       /\ v \in Keys => why[v] = Threshold
       => review[v] = "PENDING" /\ review'[v] \in Verdicts]_reviewVars

\* A transfer answered "allowed" leaves none of the price-failure reviews it
\* superseded open, whatever verdicts and other prepare calls it raced with.
SupersededAreClosed ==
  \A c \in Prepares : AtReview(c, "allowed") =>
    \A k \in found[c] : review[k] # "PENDING"

\* A simulated transfer and its review are decided together, however the
\* approval fails on the way: no transfer completes, or is turned down, without
\* its review, and no review is decided without its transfer.
SimulationFollowsReview ==
  \A s \in Scenarios : /\ simTx[s] = "COMPLETED" <=> review[s] = "APPROVED"
                       /\ simTx[s] = "REJECTED" <=> review[s] = "REJECTED"

=============================================================================
