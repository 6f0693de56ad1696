------------------------------ MODULE Payments ------------------------------
(***************************************************************************)
(* The payments service: PaymentOrchestratorService (create and route,     *)
(* cancel, refund) and SettlementEngineService, over the payments table    *)
(* and the wallet service's ledger.                                        *)
(*                                                                         *)
(* Every await is a step.  The repository's update is by id alone, so a    *)
(* write replaces whatever status another handler has put there meanwhile. *)
(* Each assertTransition looks at the handler's own copy of the row, whose *)
(* status its place in the code fixes: AssertTransitionsPass is why no     *)
(* step has it as a guard.                                                 *)
(*                                                                         *)
(* The wallet service is LedgerPromise (which WalletLedger implements),    *)
(* called over HTTP: an answer may be late for the client's 5 s timeout,   *)
(* and the posting be made all the same.  The publish that follows a write *)
(* inserts a row into the event log: it can throw like any database call,  *)
(* and its step is the next one's throw.                                   *)
(***************************************************************************)
EXTENDS Integers, FiniteSets, FiniteSetsExt

CONSTANTS Payments,   \* payments, one per idempotency key
          Callers,    \* createPayment calls, retries with the same key included
          Cancels,    \* cancel calls
          Refunds,    \* refund calls, one refunds row each
          Sweeps,     \* runs of the settlement engine that may overlap
          PaymentOf,  \* PaymentOf[a]: the payment a call is about
          FromOf,     \* FromOf[p]: the wallet p debits, or NoWallet
          ToOf,       \* ToOf[p]: the wallet p credits, or NoWallet
          AmountOf,   \* AmountOf[p]: its amount
          OwnerOf,    \* OwnerOf[p]: its owner
          Routed,     \* the payments whose type is in WALLET_ROUTED_TYPES
          Limit,      \* the owner's DAILY limit
          Amounts,    \* amounts a payment or a refund may name
          BatchLimit, \* payments a scheduled batch takes at most (200 in the code)
          Wallets, AssetOf, NoWallet, Opening   \* as in LedgerPromise

VARIABLES status,    \* status[p]: payments.status, or "none"
          refund,    \* refund[r]: refunds.status, or "none"
          captured,  \* the payments whose capture the provider has accepted
          batch,     \* batch[s]: s's settlement batch and its settlements
          pc,        \* pc[a]: where a call or a sweep is
          asked,     \* asked[r]: the amount of refund r
          call,      \* call[a]: a's HTTP call to the wallet service
          balance,   \* LedgerPromise: available units of each wallet
          posted     \* LedgerPromise: the posting made for each call

Calls == Callers \cup Refunds       \* those that ask the ledger for a posting
Actors == Calls \cup Cancels \cup Sweeps

ledgerVars == <<balance, posted>>
vars == <<status, refund, captured, batch, pc, asked, call, ledgerVars>>

ASSUME PaymentOfAssumption == PaymentOf \in [Callers \cup Cancels \cup Refunds -> Payments]
ASSUME FromToAssumption == /\ FromOf \in [Payments -> Wallets \cup {NoWallet}]
                           /\ ToOf \in [Payments -> Wallets \cup {NoWallet}]
ASSUME AmountAssumption == /\ Amounts \subseteq Nat
                           /\ AmountOf \in [Payments -> Amounts]
ASSUME RoutedAssumption == Routed \subseteq Payments
ASSUME BatchLimitAssumption == BatchLimit \in Nat \ {0}
ASSUME ActorsAreDistinct == /\ Callers \cap Refunds = {} /\ Calls \cap Cancels = {}
                            /\ (Calls \cup Cancels) \cap Sweeps = {}
ASSUME WalletAssumption == NoWallet \notin Wallets /\ Opening \in [Wallets -> Nat]

Ledger == INSTANCE LedgerPromise WITH Ops <- Calls

-----------------------------------------------------------------------------
(* The state machine of a payment, and the writes the handlers make of it. *)

AllowedTransitions ==
  [CREATED    |-> {"PENDING", "CANCELLED", "EXPIRED", "FAILED"},
   PENDING    |-> {"AUTHORIZED", "PROCESSING", "CANCELLED", "FAILED", "EXPIRED"},
   AUTHORIZED |-> {"PROCESSING", "CANCELLED", "FAILED"},
   PROCESSING |-> {"SETTLED", "COMPLETED", "FAILED", "DISPUTED"},
   SETTLED    |-> {"COMPLETED", "REFUNDED", "REVERSED", "DISPUTED", "CHARGEBACK"},
   COMPLETED  |-> {"REFUNDED", "REVERSED", "DISPUTED", "CHARGEBACK"},
   DISPUTED   |-> {"CHARGEBACK", "COMPLETED", "REFUNDED"},
   CANCELLED  |-> {}, FAILED |-> {}, EXPIRED |-> {},
   REFUNDED   |-> {}, REVERSED |-> {}, CHARGEBACK |-> {}]

Statuses == DOMAIN AllowedTransitions
Terminal == {s \in Statuses : AllowedTransitions[s] = {}}

Cancellable == {"CREATED", "PENDING", "AUTHORIZED"}
Refundable == {"SETTLED", "COMPLETED"}

\* Fault: a payment not yet authorized is ready for settlement.
SettlableEarly == {"PENDING", "PROCESSING", "AUTHORIZED"}

Settlable == {"PROCESSING", "AUTHORIZED"}

\* The pairs <<own copy, new status>> the handlers pass to assertTransition.
AssertTransitionsPass ==
  \A pair \in {<<"CREATED", "PENDING">>, <<"PENDING", "AUTHORIZED">>,
               <<"AUTHORIZED", "PROCESSING">>, <<"PROCESSING", "COMPLETED">>,
               <<"PENDING", "FAILED">>, <<"PROCESSING", "SETTLED">>,
               <<"SETTLED", "COMPLETED">>}
              \cup (Cancellable \X {"CANCELLED"}) \cup (Refundable \X {"REFUNDED"}) :
    pair[2] \in AllowedTransitions[pair[1]]

ASSUME AssertTransitionsPassAssumption == AssertTransitionsPass

Uncounted == {"none", "CANCELLED", "FAILED", "EXPIRED"}

\* sumAmountSince: what the owner's payments of the window add up to.
Total(owner) ==
  MapThenSumSet(LAMBDA p : AmountOf[p],
                {p \in Payments : OwnerOf[p] = owner /\ status[p] \notin Uncounted})

\* What a call asks of the ledger: a payment's transfer, credit or debit, or
\* the reverse transfer of a refund.
Posting(a) ==
  LET p == PaymentOf[a]
  IN IF a \in Callers THEN [from |-> FromOf[p], to |-> ToOf[p], amount |-> AmountOf[p]]
                      ELSE [from |-> ToOf[p], to |-> FromOf[p], amount |-> asked[a]]

\* Whether payment p has anything to ask of the ledger: a transfer, a deposit
\* and a withdrawal have, a payment that stays with its provider has not.
OnLedger(p) == FromOf[p] # NoWallet \/ ToOf[p] # NoWallet

HasPosted(a) == posted[a] # Ledger!NoPosting

CallerEnds == {"existing", "refused", "completed", "failed", "error", "crashed"}
RefundEnds == {"refused", "refunded", "error", "crashed"}
CallerPcs == {"lookup", "screen", "create", "route", "provider", "call", "authorize",
              "process", "capture", "complete", "announce", "fail"} \cup CallerEnds
RefundPcs == {"read", "open", "owner", "provider", "call", "close", "mark", "undo"}
               \cup RefundEnds
CancelPcs == {"read", "write", "refused", "cancelled", "error"}
SweepPcs == {"idle", "pick", "start", "process", "settle", "close", "finish"}

NoBatch == [status |-> "none", failed |-> FALSE, at |-> CHOOSE p \in Payments : TRUE,
            todo |-> {}, copy |-> [p \in Payments |-> "none"],
            row |-> [p \in Payments |-> "none"]]

Batches == [status : {"none", "PROCESSING", "COMPLETED", "FAILED"}, failed : BOOLEAN,
            at : Payments, todo : SUBSET Payments,
            copy : [Payments -> Statuses \cup {"none"}],
            row : [Payments -> {"none", "PENDING", "PROCESSING", "COMPLETED"}]]

TypeOK ==
  /\ status \in [Payments -> Statuses \cup {"none"}]
  /\ refund \in [Refunds -> {"none", "PROCESSING", "COMPLETED", "FAILED"}]
  /\ captured \subseteq Payments
  /\ batch \in [Sweeps -> Batches]
  /\ pc \in [Actors -> CallerPcs \cup RefundPcs \cup CancelPcs \cup SweepPcs]
  /\ asked \in [Refunds -> Amounts \cup {0}]
  /\ call \in [Calls -> {"none", "sent", "answered"}]
  /\ balance \in [Wallets -> Nat]
  /\ posted \in [Calls -> Ledger!Postings \cup {Ledger!NoPosting}]

Init ==
  /\ status = [p \in Payments |-> "none"]
  /\ refund = [r \in Refunds |-> "none"]
  /\ captured = {}
  /\ batch = [s \in Sweeps |-> NoBatch]
  /\ pc = [a \in Actors |-> IF a \in Callers THEN "lookup"
                            ELSE IF a \in Sweeps THEN "idle" ELSE "read"]
  /\ asked = [r \in Refunds |-> 0]
  /\ call = [a \in Calls |-> "none"]
  /\ Ledger!PromiseInit

At(a, label) == pc[a] = label
Goto(a, label) == pc' = [pc EXCEPT ![a] = label]

\* repository.update: by id alone.
Write(p, s) == status' = [status EXCEPT ![p] = s]

-----------------------------------------------------------------------------
(* The wallet service.  A definition marked Fault is a broken variant of the *)
(* one it precedes: no specification uses it.                                *)

\* It makes the posting, whole or not at all, or answers with an error.
Serve(a) ==
  /\ call[a] = "sent"
  /\ call' = [call EXCEPT ![a] = "answered"]
  /\ \/ Posting(a) \in Ledger!Postings /\ Ledger!Post(a, Posting(a))
     \/ UNCHANGED ledgerVars
  /\ UNCHANGED <<status, refund, captured, batch, pc, asked>>

\* The request leaves in the step before the await of its answer.
Send(a) == call' = [call EXCEPT ![a] = "sent"] /\ Goto(a, "call")

\* Fault: the client waits for its answer without a timer.
AnswerAwaited(a, succeeded, failed) ==
  /\ At(a, "call")
  /\ call[a] = "answered"
  /\ Goto(a, IF HasPosted(a) THEN succeeded ELSE failed)
  /\ UNCHANGED <<status, refund, captured, batch, asked, call, ledgerVars>>

\* The client's answer: the service's own, or failure once its timer aborts
\* the request or the connection breaks, whatever the service has done.
Answer(a, succeeded, failed) ==
  /\ At(a, "call")
  /\ \/ call[a] = "answered" /\ HasPosted(a) /\ Goto(a, succeeded)
     \/ Goto(a, failed)
  /\ UNCHANGED <<status, refund, captured, batch, asked, call, ledgerVars>>

-----------------------------------------------------------------------------
(* createPayment, route, routeWalletTransfer, routeViaProvider. *)

\* A retry with a known idempotency key is answered with the row.
Lookup(c) ==
  /\ At(c, "lookup")
  /\ Goto(c, IF status[PaymentOf[c]] # "none" THEN "existing"
             ELSE IF AmountOf[PaymentOf[c]] = 0 THEN "refused" ELSE "screen")
  /\ UNCHANGED <<status, refund, captured, batch, asked, call, ledgerVars>>

\* Fraud screening, then the limits: what is counted now, and this one.
Screen(c) ==
  /\ At(c, "screen")
  /\ \/ Goto(c, "refused")
     \/ /\ Total(OwnerOf[PaymentOf[c]]) + AmountOf[PaymentOf[c]] <= Limit
        /\ Goto(c, "create")
  /\ UNCHANGED <<status, refund, captured, batch, asked, call, ledgerVars>>

\* Fault: the idempotency key is not unique in the table.
CreateAgain(c) ==
  /\ At(c, "create")
  /\ Write(PaymentOf[c], "CREATED")
  /\ Goto(c, "route")
  /\ UNCHANGED <<refund, captured, batch, asked, call, ledgerVars>>

\* payments.create: a second row with the key violates its unique index.
Create(c) ==
  /\ At(c, "create")
  /\ IF status[PaymentOf[c]] = "none"
       THEN Write(PaymentOf[c], "CREATED") /\ Goto(c, "route")
       ELSE Goto(c, "error") /\ UNCHANGED status
  /\ UNCHANGED <<refund, captured, batch, asked, call, ledgerVars>>

\* route: PENDING; a transfer then needs both wallets.
Route(c) ==
  LET p == PaymentOf[c]
  IN /\ At(c, "route")
     /\ Write(p, "PENDING")
     /\ IF p \notin Routed THEN Goto(c, "provider") /\ UNCHANGED call
        ELSE IF NoWallet \in {FromOf[p], ToOf[p]} THEN Goto(c, "fail") /\ UNCHANGED call
        ELSE Send(c)
     /\ UNCHANGED <<refund, captured, batch, asked, ledgerVars>>

\* provider.authorize, or its refusal.
ProviderAuthorize(c) ==
  /\ At(c, "provider")
  /\ \E next \in {"authorize", "fail"} : Goto(c, next)
  /\ UNCHANGED <<status, refund, captured, batch, asked, call, ledgerVars>>

\* Fault: a wallet call that failed is passed over.
AnswerIgnored(c) ==
  LET next == IF PaymentOf[c] \in Routed THEN "authorize" ELSE "complete"
  IN c \in Callers /\ Answer(c, next, next)

AnswerToCaller(c) ==
  c \in Callers /\ Answer(c, IF PaymentOf[c] \in Routed THEN "authorize" ELSE "complete", "fail")

Authorize(c) ==
  /\ At(c, "authorize")
  /\ Write(PaymentOf[c], "AUTHORIZED")
  /\ Goto(c, "process")
  /\ UNCHANGED <<refund, captured, batch, asked, call, ledgerVars>>

Process(c) ==
  /\ At(c, "process")
  /\ Write(PaymentOf[c], "PROCESSING")
  /\ Goto(c, IF PaymentOf[c] \in Routed THEN "complete" ELSE "capture")
  /\ UNCHANGED <<refund, captured, batch, asked, call, ledgerVars>>

\* provider.capture, then settleWalletSideEffects' request if there is one.
Capture(c) ==
  LET p == PaymentOf[c]
  IN /\ At(c, "capture")
     /\ \/ /\ captured' = captured \cup {p}
           /\ IF OnLedger(p) THEN Send(c) ELSE Goto(c, "complete") /\ UNCHANGED call
        \/ Goto(c, "fail") /\ UNCHANGED <<captured, call>>
     /\ UNCHANGED <<status, refund, batch, asked, ledgerVars>>

Complete(c) ==
  /\ At(c, "complete")
  /\ Write(PaymentOf[c], "COMPLETED")
  /\ Goto(c, "announce")
  /\ UNCHANGED <<refund, captured, batch, asked, call, ledgerVars>>

\* The last publish, then the answer.
Announce(c) ==
  /\ At(c, "announce")
  /\ Goto(c, "completed")
  /\ UNCHANGED <<status, refund, captured, batch, asked, call, ledgerVars>>

\* route's catch: its own copy still says PENDING; the publish may throw.
Fail(c) ==
  /\ At(c, "fail")
  /\ Write(PaymentOf[c], "FAILED")
  /\ \E end \in {"failed", "error"} : Goto(c, end)
  /\ UNCHANGED <<refund, captured, batch, asked, call, ledgerVars>>

Caught == {"provider", "authorize", "process", "capture", "complete", "announce"}

\* A database call, a publish or a screening call throws.
Throw(c) ==
  /\ \/ pc[c] \in Caught /\ Goto(c, "fail")
     \/ pc[c] \in {"lookup", "screen", "create", "route", "fail"} /\ Goto(c, "error")
  /\ UNCHANGED <<status, refund, captured, batch, asked, call, ledgerVars>>

CallerStep(c) == \/ Lookup(c) \/ Screen(c) \/ Create(c) \/ Route(c) \/ ProviderAuthorize(c)
                 \/ AnswerToCaller(c) \/ Authorize(c) \/ Process(c) \/ Capture(c)
                 \/ Complete(c) \/ Announce(c) \/ Fail(c)

\* createPaymentRequest: an unfunded invoice, which no call routes.
CreateRequest(p) ==
  /\ \A c \in Callers : PaymentOf[c] # p
  /\ status[p] = "none"
  /\ Write(p, "CREATED")
  /\ UNCHANGED <<refund, captured, batch, pc, asked, call, ledgerVars>>

-----------------------------------------------------------------------------
(* cancel and refund. *)

ReadForCancel(x) ==
  /\ x \in Cancels
  /\ At(x, "read")
  /\ status[PaymentOf[x]] # "none"
  /\ Goto(x, IF status[PaymentOf[x]] \in Cancellable THEN "write" ELSE "refused")
  /\ UNCHANGED <<status, refund, captured, batch, asked, call, ledgerVars>>

\* The publish that follows may throw: the status is CANCELLED all the same.
Cancel(x) ==
  /\ x \in Cancels
  /\ At(x, "write")
  /\ Write(PaymentOf[x], "CANCELLED")
  /\ \E end \in {"cancelled", "error"} : Goto(x, end)
  /\ UNCHANGED <<refund, captured, batch, asked, call, ledgerVars>>

\* Fault: any payment may be refunded.
ReadForRefundUnchecked(r) ==
  /\ r \in Refunds
  /\ At(r, "read")
  /\ status[PaymentOf[r]] # "none"
  /\ \E n \in Amounts : asked' = [asked EXCEPT ![r] = n] /\ Goto(r, "open")
  /\ UNCHANGED <<status, refund, captured, batch, call, ledgerVars>>

\* The status and the amount are checked on the row as it is read.
ReadForRefund(r) ==
  LET p == PaymentOf[r]
  IN /\ r \in Refunds
     /\ At(r, "read")
     /\ status[p] # "none"
     /\ \E n \in Amounts :
          /\ asked' = [asked EXCEPT ![r] = n]
          /\ Goto(r, IF status[p] \in Refundable /\ n <= AmountOf[p] THEN "open" ELSE "refused")
     /\ UNCHANGED <<status, refund, captured, batch, call, ledgerVars>>

OpenRefund(r) ==
  /\ At(r, "open")
  /\ refund' = [refund EXCEPT ![r] = "PROCESSING"]
  /\ Goto(r, IF PaymentOf[r] \in Routed THEN "owner" ELSE "provider")
  /\ UNCHANGED <<status, captured, batch, asked, call, ledgerVars>>

\* getWalletOwner of the wallet to debit; without an answer there is no transfer.
FindOwner(r) ==
  /\ At(r, "owner")
  /\ \/ Send(r)
     \/ Goto(r, "undo") /\ UNCHANGED call
  /\ UNCHANGED <<status, refund, captured, batch, asked, ledgerVars>>

\* provider.refund: no wallet is touched.
ProviderRefund(r) ==
  /\ r \in Refunds
  /\ At(r, "provider")
  /\ \E next \in {"close", "undo"} : Goto(r, next)
  /\ UNCHANGED <<status, refund, captured, batch, asked, call, ledgerVars>>

AnswerToRefund(r) == r \in Refunds /\ Answer(r, "close", "undo")

\* Fault: a failed refund is recorded as made.
UndoAsDone(r) ==
  /\ At(r, "undo")
  /\ refund' = [refund EXCEPT ![r] = "COMPLETED"]
  /\ Goto(r, "error")
  /\ UNCHANGED <<status, captured, batch, asked, call, ledgerVars>>

\* The catch: the refund is FAILED and the call ends with an error.
UndoRefund(r) ==
  /\ At(r, "undo")
  /\ refund' = [refund EXCEPT ![r] = "FAILED"]
  /\ Goto(r, "error")
  /\ UNCHANGED <<status, captured, batch, asked, call, ledgerVars>>

CloseRefund(r) ==
  /\ r \in Refunds
  /\ At(r, "close")
  /\ refund' = [refund EXCEPT ![r] = "COMPLETED"]
  /\ Goto(r, "mark")
  /\ UNCHANGED <<status, captured, batch, asked, call, ledgerVars>>

\* REFUNDED, for a refund in part too; the publish may throw.
MarkRefunded(r) ==
  /\ At(r, "mark")
  /\ Write(PaymentOf[r], "REFUNDED")
  /\ \E end \in {"refunded", "error"} : Goto(r, end)
  /\ UNCHANGED <<refund, captured, batch, asked, call, ledgerVars>>

\* A database call outside the try block throws.
ThrowInRefund(r) ==
  /\ r \in Refunds
  /\ pc[r] \in {"open", "close", "mark", "undo"}
  /\ Goto(r, "error")
  /\ UNCHANGED <<status, refund, captured, batch, asked, call, ledgerVars>>

RefundStep(r) == \/ ReadForRefund(r) \/ OpenRefund(r) \/ FindOwner(r) \/ ProviderRefund(r)
                 \/ AnswerToRefund(r) \/ UndoRefund(r) \/ CloseRefund(r) \/ MarkRefunded(r)

-----------------------------------------------------------------------------
(* SettlementEngineService: a batch settles copies of the payments read when *)
(* it was drawn up, one after the other.                                     *)

\* The batch row (PENDING, at once PROCESSING) for the payments in L.
OpenBatch(s, L) ==
  /\ batch' = [batch EXCEPT ![s] =
                 [NoBatch EXCEPT !.status = "PROCESSING", !.todo = L,
                                 !.copy = [p \in Payments |-> IF p \in L THEN status[p] ELSE "none"]]]
  /\ Goto(s, "pick")
  /\ UNCHANGED <<status, refund, captured, asked, call, ledgerVars>>

InStatus(S) == {p \in Payments : status[p] \in S}

\* runDaily, which an administrator calls, or the timer, which there is only where the
\* simulator is enabled: all that findSettlable finds, or as many as its limit lets it.
RunScheduled(s) ==
  /\ At(s, "idle")
  /\ \E L \in SUBSET InStatus(Settlable) \ {{}} :
       /\ Cardinality(L) <= BatchLimit
       /\ L = InStatus(Settlable) \/ Cardinality(L) = BatchLimit
       /\ OpenBatch(s, L)

\* runManualBatch: payments the administrator names, whatever their status.
\* runInstant does the same to one payment, without a batch.
RunManual(s) ==
  /\ At(s, "idle")
  /\ \E L \in SUBSET InStatus(Statuses) \ {{}} : OpenBatch(s, L)

Settling(s) == batch[s].at              \* the payment s is at
Set(s, rec) == batch' = [batch EXCEPT ![s] = rec]
SetRow(s, p, st) == Set(s, [batch[s] EXCEPT !.row[p] = st])

\* Fault: settlePayment does not look at the status of its copy.
PickAny(s) ==
  /\ At(s, "pick")
  /\ \E p \in batch[s].todo :
       Set(s, [batch[s] EXCEPT !.at = p, !.todo = @ \ {p}, !.row[p] = "PENDING"])
  /\ Goto(s, "start")
  /\ UNCHANGED <<status, refund, captured, asked, call, ledgerVars>>

\* settlePayment for the next one: its copy must be settlable, else it throws.
Pick(s) ==
  /\ At(s, "pick")
  /\ \E p \in batch[s].todo :
       IF batch[s].copy[p] \in Settlable
         THEN /\ Set(s, [batch[s] EXCEPT !.at = p, !.todo = @ \ {p}, !.row[p] = "PENDING"])
              /\ Goto(s, "start")
         ELSE /\ Set(s, [batch[s] EXCEPT !.todo = @ \ {p}, !.failed = TRUE])
              /\ UNCHANGED pc
  /\ UNCHANGED <<status, refund, captured, asked, call, ledgerVars>>

StartSettlement(s) ==
  /\ At(s, "start")
  /\ SetRow(s, Settling(s), "PROCESSING")
  /\ Goto(s, IF batch[s].copy[Settling(s)] = "AUTHORIZED" THEN "process" ELSE "settle")
  /\ UNCHANGED <<status, refund, captured, asked, call, ledgerVars>>

MarkProcessing(s) ==
  /\ s \in Sweeps
  /\ At(s, "process")
  /\ Write(Settling(s), "PROCESSING")
  /\ Goto(s, "settle")
  /\ UNCHANGED <<refund, captured, batch, asked, call, ledgerVars>>

MarkSettled(s) ==
  /\ At(s, "settle")
  /\ Write(Settling(s), "SETTLED")
  /\ Goto(s, "close")
  /\ UNCHANGED <<refund, captured, batch, asked, call, ledgerVars>>

CloseSettlement(s) ==
  /\ s \in Sweeps
  /\ At(s, "close")
  /\ SetRow(s, Settling(s), "COMPLETED")
  /\ Goto(s, "finish")
  /\ UNCHANGED <<status, refund, captured, asked, call, ledgerVars>>

\* The publish that follows may throw: the payment is COMPLETED, the batch has failed.
MarkCompleted(s) ==
  /\ At(s, "finish")
  /\ Write(Settling(s), "COMPLETED")
  /\ \E f \in {batch[s].failed, TRUE} : Set(s, [batch[s] EXCEPT !.failed = f])
  /\ Goto(s, "pick")
  /\ UNCHANGED <<refund, captured, asked, call, ledgerVars>>

\* Fault: one payment's failure is not the batch's.
ThrowUnnoticed(s) ==
  /\ s \in Sweeps
  /\ pc[s] \in {"start", "process", "settle", "close", "finish"}
  /\ Goto(s, "pick")
  /\ UNCHANGED <<status, refund, captured, batch, asked, call, ledgerVars>>

\* Fault: a payment that fails is tried again by the same batch.
ThrowAndRetry(s) ==
  /\ s \in Sweeps
  /\ pc[s] \in {"start", "process", "settle", "close", "finish"}
  /\ Set(s, [batch[s] EXCEPT !.failed = TRUE, !.todo = @ \cup {Settling(s)}])
  /\ Goto(s, "pick")
  /\ UNCHANGED <<status, refund, captured, asked, call, ledgerVars>>

\* A database call or a publish throws: runBatch goes on to the next payment,
\* and the settlement row stays in the status it has.
ThrowInSettlement(s) ==
  /\ s \in Sweeps
  /\ pc[s] \in {"start", "process", "settle", "close", "finish"}
  /\ Set(s, [batch[s] EXCEPT !.failed = TRUE])
  /\ Goto(s, "pick")
  /\ UNCHANGED <<status, refund, captured, asked, call, ledgerVars>>

CloseBatch(s) ==
  /\ At(s, "pick")
  /\ batch[s].todo = {}
  /\ Set(s, [batch[s] EXCEPT !.status = IF batch[s].failed THEN "FAILED" ELSE "COMPLETED"])
  /\ Goto(s, "idle")
  /\ UNCHANGED <<status, refund, captured, asked, call, ledgerVars>>

\* The engine dies or a batch call throws: the batch stays PROCESSING.
AbandonBatch(s) ==
  /\ s \in Sweeps
  /\ pc[s] # "idle"
  /\ Goto(s, "idle")
  /\ UNCHANGED <<status, refund, captured, batch, asked, call, ledgerVars>>

SettleStep(s) == \/ Pick(s) \/ StartSettlement(s) \/ MarkProcessing(s) \/ MarkSettled(s)
                 \/ CloseSettlement(s) \/ MarkCompleted(s) \/ CloseBatch(s)

-----------------------------------------------------------------------------

\* The service dies under a call; nothing resumes it.  A request already sent
\* is still served.
Crash(a) ==
  /\ a \in Calls
  /\ pc[a] \notin CallerEnds \cup RefundEnds \cup {"lookup", "read"}
  /\ Goto(a, "crashed")
  /\ UNCHANGED <<status, refund, captured, batch, asked, call, ledgerVars>>

CallerNext == \/ \E c \in Callers : CallerStep(c) \/ Throw(c)
              \/ \E p \in Payments : CreateRequest(p)
CancelNext == \E x \in Cancels : ReadForCancel(x) \/ Cancel(x)
RefundNext == \E r \in Refunds : RefundStep(r) \/ ThrowInRefund(r)
SweepNext == \E s \in Sweeps : \/ RunScheduled(s) \/ RunManual(s) \/ SettleStep(s)
                               \/ ThrowInSettlement(s) \/ AbandonBatch(s)
LedgerNext == \E a \in Calls : Serve(a) \/ Crash(a)

Next == CallerNext \/ CancelNext \/ RefundNext \/ SweepNext \/ LedgerNext

SafetySpec == Init /\ [][Next]_vars

\* A request that was begun runs on, and so does a batch: each await returns or throws.
\* Nothing begins a batch: an administrator need not, and production has no timer.
Fairness ==
  /\ \A c \in Callers : WF_vars(CallerStep(c))
  /\ \A r \in Refunds : WF_vars(RefundStep(r))
  /\ \A s \in Sweeps : WF_vars(SettleStep(s))

Spec == SafetySpec /\ Fairness

-----------------------------------------------------------------------------
(* What makes payments correct. *)

CallersOf(p) == {c \in Callers : PaymentOf[c] = p}
RefundsOf(p) == {r \in Refunds : PaymentOf[r] = p}
Paid(p) == \E c \in CallersOf(p) : HasPosted(c)

\* However many calls arrive with one idempotency key, and whatever they race
\* with, the payment's money moves at most once (createPayment's lookup and the
\* unique index behind it).
PaidOnce ==
  \A c, d \in Callers : PaymentOf[c] = PaymentOf[d] /\ HasPosted(c) /\ HasPosted(d) => c = d

\* A wallet transfer whose row has got as far as AUTHORIZED has moved its money,
\* whoever wrote the status: the router, a refund, or the settlement engine,
\* which completes payments it did not route.
TransferStatusIsPaid ==
  \A p \in Routed :
    status[p] \in {"AUTHORIZED", "PROCESSING", "SETTLED", "COMPLETED", "REFUNDED"} => Paid(p)

\* Money comes back only for a transfer that was paid, from the wallets it went
\* to and never more than it moved, however late the refund's request is served.
RefundIsBacked ==
  \A r \in Refunds : HasPosted(r) =>
    LET p == PaymentOf[r]
    IN /\ p \in Routed /\ Paid(p)
       /\ posted[r].from = ToOf[p] /\ posted[r].to = FromOf[p]
       /\ posted[r].amount <= AmountOf[p]

\* A call answered COMPLETED has moved the money it has to move, and a refund
\* row is COMPLETED only when its transfer was made.
AnswerIsTrue ==
  /\ \A c \in Callers : At(c, "completed") /\ OnLedger(PaymentOf[c]) => HasPosted(c)
  /\ \A r \in Refunds : refund[r] = "COMPLETED" /\ PaymentOf[r] \in Routed => HasPosted(r)

\* A batch is COMPLETED only if every payment it listed was settled by it: its
\* settlement row is COMPLETED too (runBatch catches one payment's failure).
BatchIsHonest ==
  \A s \in Sweeps : batch[s].status = "COMPLETED" =>
    \A p \in Payments : batch[s].copy[p] # "none" => batch[s].row[p] = "COMPLETED"

\* What the ledger has refused, or has not made for a call it has answered, only the
\* settlement engine completes (FailClosed below): no other call's write, no retry, no
\* late answer and no failure in the router's own steps.
RouterFailsClosed ==
  [][\A c \in Callers :
       /\ call[c] = "answered" /\ ~ HasPosted(c)
       /\ status[PaymentOf[c]] # "COMPLETED" /\ status'[PaymentOf[c]] = "COMPLETED"
       => \E s \in Sweeps : At(s, "finish") /\ At(s, "pick")' /\ Settling(s) = PaymentOf[c]]_vars

\* p has a terminal status, and no handler that read it before is still to write it.
AtRest(p) ==
  /\ status[p] \in Terminal
  /\ \A c \in CallersOf(p) : pc[c] \in CallerEnds \cup {"lookup", "screen", "create"}
  /\ \A r \in RefundsOf(p) : pc[r] \in RefundEnds \cup {"read"}
  /\ \A x \in Cancels : PaymentOf[x] = p => pc[x] # "write"
  /\ \A s \in Sweeps : pc[s] # "idle" => batch[s].copy[p] \notin Settlable

\* Such a status is final: whatever call, cancel, refund or batch comes later refuses
\* the row as it reads it.
QuietTerminalHolds == [][\A p \in Payments : AtRest(p) => AtRest(p)']_vars

\* Every createPayment call and every refund that was begun ends, whatever the wallet
\* service does: with an answer, unless the service dies under it.
EveryCallEnds ==
  /\ \A c \in Callers : (~ At(c, "lookup")) ~> (pc[c] \in CallerEnds)
  /\ \A r \in Refunds : (~ At(r, "read")) ~> (pc[r] \in RefundEnds)

\* Every batch comes to its end, COMPLETED or FAILED or by the death of the engine,
\* whatever its payments and the database do, and whatever is written to them meanwhile.
EveryBatchEnds == \A s \in Sweeps : (~ At(s, "idle")) ~> At(s, "idle")

-----------------------------------------------------------------------------
(* What the repository says of payments, and the code does not keep. *)

\* payment-state-machine.ts:51: "Terminal states: no further transitions are
\* permitted out of them."
TerminalIsFinal ==
  [][\A p \in Payments : status[p] \in Terminal => status'[p] = status[p]]_vars

\* payment-orchestrator.service.ts:549: "payment must not COMPLETE if ledger
\* mutation fails": once the ledger has refused, the payment does not complete.
FailClosed ==
  [][\A c \in Callers :
       call[c] = "answered" /\ ~ HasPosted(c) /\ status[PaymentOf[c]] # "COMPLETED" =>
         status'[PaymentOf[c]] # "COMPLETED"]_vars

\* payment-orchestrator.service.ts:303: "Refund amount cannot exceed the original
\* payment amount": nor can the refunds of a payment together.
RefundsWithinPayment ==
  \A p \in Payments :
    MapThenSumSet(LAMBDA r : posted[r].amount, RefundsOf(p)) <= AmountOf[p]

=============================================================================
