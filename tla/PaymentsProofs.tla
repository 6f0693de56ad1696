--------------------------- MODULE PaymentsProofs ---------------------------
(***************************************************************************)
(* Payments pays once, says so only of what it paid, and refunds only what *)
(* was paid: for any payments, calls, wallets and amounts.                 *)
(***************************************************************************)
EXTENDS Payments, TLAPS

USE PaymentOfAssumption, FromToAssumption, AmountAssumption, RoutedAssumption,
    ActorsAreDistinct, WalletAssumption

-----------------------------------------------------------------------------
(* The inductive invariant.                                                  *)

\* The shape of the state, as far as the proofs need it.
ShapeInv ==
  /\ status \in [Payments -> Statuses \cup {"none"}]
  /\ refund \in [Refunds -> {"none", "PROCESSING", "COMPLETED", "FAILED"}]
  /\ DOMAIN pc = Actors
  /\ DOMAIN asked = Refunds
  /\ call \in [Calls -> {"none", "sent", "answered"}]
  /\ DOMAIN posted = Calls
  /\ DOMAIN batch = Sweeps
  /\ \A s \in Sweeps : {"status", "failed", "at", "todo", "copy", "row"} = DOMAIN batch[s]

\* Where the code routes a payment, after its row is there.
Routing == {"route", "provider", "call", "authorize", "process", "capture", "complete",
            "announce", "fail"}

Active(c) == pc[c] \in Routing \/ call[c] # "none"

\* The unique idempotency key: one call routes a payment, and its row exists.
RouterInv ==
  /\ \A c \in Callers : Active(c) => status[PaymentOf[c]] # "none"
  /\ \A c, d \in Callers : PaymentOf[c] = PaymentOf[d] /\ Active(c) /\ Active(d) => c = d

\* A call asks the ledger once, and what is posted for it is what it asked.
CallInv ==
  /\ \A a \in Calls : HasPosted(a) => call[a] = "answered" /\ posted[a] = Posting(a)
  /\ \A c \in Callers :
       /\ pc[c] \in {"lookup", "screen", "create", "route", "provider"} => call[c] = "none"
       /\ pc[c] \in {"authorize", "process", "capture"} /\ PaymentOf[c] \notin Routed =>
            call[c] = "none"
       /\ pc[c] \in {"provider", "capture"} => PaymentOf[c] \notin Routed
       /\ pc[c] = "call" => call[c] # "none" /\ OnLedger(PaymentOf[c])
       /\ call[c] # "none" => OnLedger(PaymentOf[c])
  /\ \A r \in Refunds :
       pc[r] \in {"read", "open", "owner", "provider"} => call[r] = "none"

\* Past the ledger's positive answer a payment that needs a posting has it.
PaidInv ==
  \A c \in Callers :
    /\ pc[c] \in {"complete", "announce", "completed"} /\ OnLedger(PaymentOf[c]) => HasPosted(c)
    /\ pc[c] \in {"authorize", "process", "complete", "announce", "completed"}
         /\ PaymentOf[c] \in Routed => HasPosted(c)

Refunding == {"open", "owner", "provider", "call", "close", "mark", "undo"}

\* A refund past its checks is of a paid payment, and within its amount.
RefundInv ==
  \A r \in Refunds :
    /\ pc[r] \in Refunding /\ PaymentOf[r] \in Routed =>
         Paid(PaymentOf[r]) /\ asked[r] <= AmountOf[PaymentOf[r]]
    /\ pc[r] \in {"owner", "call"} => PaymentOf[r] \in Routed
    /\ pc[r] = "provider" => PaymentOf[r] \notin Routed
    /\ call[r] # "none" => /\ PaymentOf[r] \in Routed /\ Paid(PaymentOf[r])
                           /\ asked[r] <= AmountOf[PaymentOf[r]]
    /\ (pc[r] \in {"close", "mark", "refunded"} \/ refund[r] = "COMPLETED")
         /\ PaymentOf[r] \in Routed => HasPosted(r)

InSettlement == {"start", "process", "settle", "close", "finish"}

\* The settlement engine settles copies, and a copy it settles was paid when
\* it was made.
SweepInv ==
  \A s \in Sweeps :
    /\ \A p \in Routed : batch[s].copy[p] \in Settlable => Paid(p)
    /\ pc[s] \in InSettlement => batch[s].copy[Settling(s)] \in Settlable

IInv == /\ ShapeInv /\ RouterInv /\ CallInv /\ PaidInv /\ RefundInv /\ SweepInv
        /\ TransferStatusIsPaid

-----------------------------------------------------------------------------
(* What the steps leave alone.                                               *)

\* A posting is not the missing posting.
LEMMA PostingIsReal == \A p \in Ledger!Postings : p # Ledger!NoPosting
BY DEF Ledger!Postings, Ledger!NoPosting

\* The wallets change only when the wallet service serves a request.
LEMMA OnlyServePosts == Next => (\E a \in Calls : Serve(a)) \/ UNCHANGED ledgerVars
<1> SUFFICES ASSUME Next PROVE (\E a \in Calls : Serve(a)) \/ UNCHANGED ledgerVars
  OBVIOUS
<1>1. CASE CallerNext
  BY <1>1 DEF CallerNext, CallerStep, Lookup, Screen, Create, Route, ProviderAuthorize,
              AnswerToCaller, Answer, Authorize, Process, Capture, Complete, Announce,
              Fail, Throw, CreateRequest, ledgerVars
<1>2. CASE CancelNext
  BY <1>2 DEF CancelNext, ReadForCancel, Cancel, ledgerVars
<1>3. CASE RefundNext
  BY <1>3 DEF RefundNext, RefundStep, ReadForRefund, OpenRefund, FindOwner,
              ProviderRefund, AnswerToRefund, Answer, UndoRefund, CloseRefund,
              MarkRefunded, ThrowInRefund, ledgerVars
<1>4. CASE SweepNext
  <2>1. ASSUME NEW t \in Sweeps, SettleStep(t) PROVE UNCHANGED ledgerVars
    BY <2>1 DEF SettleStep, Pick, StartSettlement, MarkProcessing, MarkSettled,
                CloseSettlement, MarkCompleted, CloseBatch, ledgerVars
  <2>2. ASSUME NEW t \in Sweeps, RunScheduled(t) \/ RunManual(t) PROVE UNCHANGED ledgerVars
    BY <2>2 DEF RunScheduled, RunManual, OpenBatch, ledgerVars
  <2> QED
    BY <1>4, <2>1, <2>2 DEF SweepNext, ThrowInSettlement, AbandonBatch, ledgerVars
<1>5. CASE LedgerNext
  BY <1>5 DEF LedgerNext, Crash, ledgerVars
<1> QED
  BY <1>1, <1>2, <1>3, <1>4, <1>5 DEF Next

\* Only the wallet service posts, once for a call.
LEMMA PostedStands ==
  ASSUME Next, DOMAIN posted = Calls
  PROVE  /\ \A a \in Calls : HasPosted(a) => HasPosted(a)' /\ posted'[a] = posted[a]
         /\ \A p : Paid(p) => Paid(p)'
<1>1. CASE \E a \in Calls : Serve(a)
  <2>1. PICK a \in Calls : Serve(a)
    BY <1>1
  <2>2. \A b \in Calls : HasPosted(b) => posted'[b] = posted[b]
    BY <2>1 DEF Serve, ledgerVars, Ledger!Post, HasPosted
  <2> QED
    BY <2>2 DEF HasPosted, Paid, CallersOf, Calls
<1>2. CASE posted' = posted
  BY <1>2 DEF HasPosted, Paid, CallersOf
<1>3. (\E a \in Calls : Serve(a)) \/ posted' = posted
  BY OnlyServePosts DEF ledgerVars
<1> QED
  BY <1>1, <1>2, <1>3

-----------------------------------------------------------------------------
(* Every step keeps the shape.                                               *)

LEMMA ShapeStep ==
  ASSUME ShapeInv, Next
  PROVE  ShapeInv'
<1> USE DEF ShapeInv, At, Goto, Write, Send, ledgerVars, Calls, Actors
<1>1. CASE CallerNext
  <2>1. ASSUME NEW c \in Callers, Lookup(c) \/ Screen(c) \/ Create(c) \/ Route(c)
        PROVE  ShapeInv'
    BY <2>1 DEF Lookup, Screen, Create, Route, Statuses, AllowedTransitions
  <2>2. ASSUME NEW c \in Callers, ProviderAuthorize(c) \/ AnswerToCaller(c)
        PROVE  ShapeInv'
    BY <2>2 DEF ProviderAuthorize, AnswerToCaller, Answer
  <2>3. ASSUME NEW c \in Callers, Authorize(c) \/ Process(c) \/ Capture(c)
        PROVE  ShapeInv'
    BY <2>3 DEF Authorize, Process, Capture, Statuses, AllowedTransitions
  <2>4. ASSUME NEW c \in Callers, Complete(c) \/ Announce(c) \/ Fail(c) \/ Throw(c)
        PROVE  ShapeInv'
    BY <2>4 DEF Complete, Announce, Fail, Throw, Statuses, AllowedTransitions
  <2>5. ASSUME NEW p \in Payments, CreateRequest(p)
        PROVE  ShapeInv'
    BY <2>5 DEF CreateRequest, Statuses, AllowedTransitions
  <2> QED
    BY <1>1, <2>1, <2>2, <2>3, <2>4, <2>5 DEF CallerNext, CallerStep
<1>2. CASE CancelNext
  BY <1>2 DEF CancelNext, ReadForCancel, Cancel, Statuses, AllowedTransitions
<1>3. CASE RefundNext
  <2>1. ASSUME NEW r \in Refunds, ReadForRefund(r)
        PROVE  ShapeInv'
    BY <2>1 DEF ReadForRefund
  <2>4. ASSUME NEW r \in Refunds, OpenRefund(r)
        PROVE  ShapeInv'
    BY <2>4, SMTT(20) DEF OpenRefund
  <2>2. ASSUME NEW r \in Refunds, FindOwner(r) \/ ProviderRefund(r) \/ AnswerToRefund(r)
        PROVE  ShapeInv'
    BY <2>2 DEF FindOwner, ProviderRefund, AnswerToRefund, Answer
  <2>3. ASSUME NEW r \in Refunds, UndoRefund(r) \/ CloseRefund(r) \/ MarkRefunded(r)
                                  \/ ThrowInRefund(r)
        PROVE  ShapeInv'
    BY <2>3 DEF ThrowInRefund, UndoRefund, CloseRefund, MarkRefunded, Statuses, AllowedTransitions
  <2> QED
    BY <1>3, <2>1, <2>2, <2>3, <2>4 DEF RefundNext, RefundStep
<1>4. CASE SweepNext
  <2>1. ASSUME NEW s \in Sweeps, RunScheduled(s) \/ RunManual(s)
        PROVE  ShapeInv'
    <3>1. PICK L : OpenBatch(s, L)
      BY <2>1 DEF RunScheduled, RunManual
    <3> QED
      BY <3>1 DEF OpenBatch, NoBatch
  <2>2. ASSUME NEW s \in Sweeps, Pick(s)
        PROVE  ShapeInv'
    <3>1. PICK p : \/ Set(s, [batch[s] EXCEPT !.at = p, !.todo = @ \ {p}, !.row[p] = "PENDING"])
                        /\ Goto(s, "start")
                   \/ Set(s, [batch[s] EXCEPT !.todo = @ \ {p}, !.failed = TRUE])
                        /\ UNCHANGED pc
      BY <2>2 DEF Pick
    <3>2. UNCHANGED <<status, refund, captured, asked, call, ledgerVars>>
      BY <2>2 DEF Pick
    <3>3. DOMAIN batch' = Sweeps /\ DOMAIN pc' = Actors
      BY <3>1 DEF Set
    <3>4. \A t \in Sweeps : {"status", "failed", "at", "todo", "copy", "row"} = DOMAIN batch'[t]
      <4>1. CASE Set(s, [batch[s] EXCEPT !.at = p, !.todo = @ \ {p}, !.row[p] = "PENDING"])
        BY <4>1 DEF Set
      <4>2. CASE Set(s, [batch[s] EXCEPT !.todo = @ \ {p}, !.failed = TRUE])
        BY <4>2 DEF Set
      <4> QED
        BY <3>1, <4>1, <4>2
    <3> QED
      BY <3>2, <3>3, <3>4
  <2>3. ASSUME NEW s \in Sweeps, StartSettlement(s) \/ CloseSettlement(s)
        PROVE  ShapeInv'
    BY <2>3 DEF StartSettlement, CloseSettlement, SetRow, Set, Settling
  <2>4. ASSUME NEW s \in Sweeps, MarkProcessing(s) \/ MarkSettled(s)
        PROVE  ShapeInv'
    BY <2>4 DEF MarkProcessing, MarkSettled, Statuses, AllowedTransitions
  <2>6. ASSUME NEW s \in Sweeps, MarkCompleted(s)
        PROVE  ShapeInv'
    <3>1. /\ status' = [status EXCEPT ![Settling(s)] = "COMPLETED"]
          /\ pc' = [pc EXCEPT ![s] = "pick"]
          /\ UNCHANGED <<refund, captured, asked, call, ledgerVars>>
      BY <2>6 DEF MarkCompleted
    <3>2. PICK f : Set(s, [batch[s] EXCEPT !.failed = f])
      BY <2>6 DEF MarkCompleted
    <3> QED
      BY <3>1, <3>2 DEF Set, Statuses, AllowedTransitions
  <2>5. ASSUME NEW s \in Sweeps, CloseBatch(s) \/ ThrowInSettlement(s) \/ AbandonBatch(s)
        PROVE  ShapeInv'
    BY <2>5 DEF CloseBatch, ThrowInSettlement, AbandonBatch, Set
  <2> QED
    BY <1>4, <2>1, <2>2, <2>3, <2>4, <2>5, <2>6 DEF SweepNext, SettleStep
<1>5. CASE LedgerNext
  BY <1>5 DEF LedgerNext, Serve, Crash, Ledger!Post
<1> QED
  BY <1>1, <1>2, <1>3, <1>4, <1>5 DEF Next

-----------------------------------------------------------------------------
(* Cancels and sweeps write statuses, and nothing else that a call reads.    *)

LEMMA SweepFrame ==
  ASSUME ShapeInv, SweepNext \/ CancelNext
  PROVE  /\ \A a \in Calls : pc'[a] = pc[a]
         /\ UNCHANGED <<refund, captured, asked, call, ledgerVars>>
<1> USE DEF ShapeInv, At, Goto, Calls, Actors, ledgerVars
<1>1. ASSUME NEW s \in Sweeps, RunScheduled(s) \/ RunManual(s)
      PROVE  /\ \A a \in Calls : pc'[a] = pc[a]
             /\ UNCHANGED <<refund, captured, asked, call, ledgerVars>>
  <2>1. PICK L : OpenBatch(s, L)
    BY <1>1 DEF RunScheduled, RunManual
  <2>2. Goto(s, "pick") /\ UNCHANGED <<refund, captured, asked, call, ledgerVars>>
    BY <2>1 DEF OpenBatch
  <2> QED
    BY <2>2
<1>2. ASSUME NEW s \in Sweeps, Pick(s)
      PROVE  /\ \A a \in Calls : pc'[a] = pc[a]
             /\ UNCHANGED <<refund, captured, asked, call, ledgerVars>>
  <2>1. Goto(s, "start") \/ UNCHANGED pc
    BY <1>2 DEF Pick
  <2> QED
    BY <1>2, <2>1 DEF Pick
<1>3. ASSUME NEW s \in Sweeps, StartSettlement(s) \/ MarkProcessing(s) \/ MarkSettled(s)
      PROVE  /\ \A a \in Calls : pc'[a] = pc[a]
             /\ UNCHANGED <<refund, captured, asked, call, ledgerVars>>
  BY <1>3 DEF StartSettlement, MarkProcessing, MarkSettled
<1>4. ASSUME NEW s \in Sweeps, CloseSettlement(s) \/ MarkCompleted(s) \/ CloseBatch(s)
      PROVE  /\ \A a \in Calls : pc'[a] = pc[a]
             /\ UNCHANGED <<refund, captured, asked, call, ledgerVars>>
  BY <1>4 DEF CloseSettlement, MarkCompleted, CloseBatch
<1>5. ASSUME NEW s \in Sweeps, ThrowInSettlement(s) \/ AbandonBatch(s)
      PROVE  /\ \A a \in Calls : pc'[a] = pc[a]
             /\ UNCHANGED <<refund, captured, asked, call, ledgerVars>>
  BY <1>5 DEF ThrowInSettlement, AbandonBatch
<1>6. CASE SweepNext
  BY <1>1, <1>2, <1>3, <1>4, <1>5, <1>6 DEF SweepNext, SettleStep
<1>7. CASE CancelNext
  BY <1>7 DEF CancelNext, ReadForCancel, Cancel
<1> QED
  BY <1>6, <1>7

-----------------------------------------------------------------------------
(* One call routes a payment.                                                *)

\* A payment's row is never deleted.
LEMMA RowStands ==
  ASSUME ShapeInv, Next
  PROVE  \A p \in Payments : status[p] # "none" => status'[p] # "none"
<1> USE DEF ShapeInv, At, Goto, Write
<1>1. CASE CallerNext
  BY <1>1 DEF CallerNext, CallerStep, Lookup, Screen, Create, Route, ProviderAuthorize,
              AnswerToCaller, Answer, Authorize, Process, Capture, Complete, Announce,
              Fail, Throw, CreateRequest
<1>2. CASE CancelNext
  BY <1>2 DEF CancelNext, ReadForCancel, Cancel
<1>3. CASE RefundNext
  BY <1>3 DEF RefundNext, RefundStep, ReadForRefund, OpenRefund, FindOwner, ProviderRefund,
              AnswerToRefund, Answer, UndoRefund, CloseRefund, MarkRefunded, ThrowInRefund
<1>4. CASE SweepNext
  BY <1>4 DEF SweepNext, RunScheduled, RunManual, OpenBatch, SettleStep, Pick,
              StartSettlement, MarkProcessing, MarkSettled, CloseSettlement, MarkCompleted,
              CloseBatch, ThrowInSettlement, AbandonBatch
<1>5. CASE LedgerNext
  BY <1>5 DEF LedgerNext, Serve, Crash
<1> QED
  BY <1>1, <1>2, <1>3, <1>4, <1>5 DEF Next

\* Only the creation of its row makes a call the router of a payment.
LEMMA RoutersStand ==
  ASSUME ShapeInv, CallInv, Next, NEW c \in Callers, ~ Active(c), Active(c)'
  PROVE  Create(c)
<1> USE DEF ShapeInv, At, Goto, Send, Active, Routing, Calls, Actors
<1>1. CASE CallerNext
  <2>1. ASSUME NEW d \in Callers, Lookup(d) \/ Screen(d) \/ Route(d) \/ ProviderAuthorize(d)
        PROVE  FALSE
    BY <2>1 DEF Lookup, Screen, Route, ProviderAuthorize
  <2>2. ASSUME NEW d \in Callers, AnswerToCaller(d) \/ Authorize(d) \/ Process(d)
        PROVE  FALSE
    BY <2>2 DEF AnswerToCaller, Answer, Authorize, Process
  <2>3. ASSUME NEW d \in Callers, Capture(d) \/ Complete(d) \/ Announce(d) \/ Fail(d)
        PROVE  FALSE
    BY <2>3 DEF Capture, Complete, Announce, Fail
  <2>4. ASSUME NEW d \in Callers, Throw(d)
        PROVE  FALSE
    BY <2>4 DEF Throw, Caught
  <2>5. ASSUME NEW p \in Payments, CreateRequest(p)
        PROVE  FALSE
    BY <2>5 DEF CreateRequest
  <2>6. ASSUME NEW d \in Callers, Create(d)
        PROVE  Create(c)
    BY <2>6 DEF Create
  <2> QED
    BY <1>1, <2>1, <2>2, <2>3, <2>4, <2>5, <2>6 DEF CallerNext, CallerStep
<1>2. CASE SweepNext \/ CancelNext
  BY <1>2, SweepFrame
<1>3. CASE RefundNext
  <2>1. ASSUME NEW r \in Refunds, ReadForRefund(r) \/ OpenRefund(r) \/ FindOwner(r)
        PROVE  FALSE
    BY <2>1 DEF ReadForRefund, OpenRefund, FindOwner
  <2>2. ASSUME NEW r \in Refunds, ProviderRefund(r) \/ AnswerToRefund(r) \/ UndoRefund(r)
        PROVE  FALSE
    BY <2>2 DEF ProviderRefund, AnswerToRefund, Answer, UndoRefund
  <2>3. ASSUME NEW r \in Refunds, CloseRefund(r) \/ MarkRefunded(r) \/ ThrowInRefund(r)
        PROVE  FALSE
    BY <2>3 DEF CloseRefund, MarkRefunded, ThrowInRefund
  <2> QED
    BY <1>3, <2>1, <2>2, <2>3 DEF RefundNext, RefundStep
<1>4. CASE LedgerNext
  BY <1>4 DEF LedgerNext, Serve, Crash
<1> QED
  BY <1>1, <1>2, <1>3, <1>4 DEF Next

LEMMA RouterStep ==
  ASSUME ShapeInv, RouterInv, CallInv, Next
  PROVE  RouterInv'
<1>1. ASSUME NEW c \in Callers, Active(c)'
      PROVE  (status[PaymentOf[c]] # "none")'
  <2>1. CASE Active(c)
    BY <2>1, RowStands DEF RouterInv
  <2>2. CASE ~ Active(c)
    BY <1>1, <2>2, RoutersStand DEF Create, Write, ShapeInv, Active, Routing, Goto, Actors, Calls
  <2> QED
    BY <2>1, <2>2
<1>2. ASSUME NEW c \in Callers, NEW d \in Callers, PaymentOf[c] = PaymentOf[d],
             Active(c)', Active(d)'
      PROVE  c = d
  <2>1. CASE Active(c) /\ Active(d)
    BY <1>2, <2>1 DEF RouterInv
  <2>2. ASSUME NEW e \in Callers, Create(e), status[PaymentOf[e]] # "none"
        PROVE  ~ Active(e)'
    BY <2>2 DEF Create, Goto, At, Active, Routing, ShapeInv, CallInv, Actors, Calls
  <2>3. CASE ~ Active(c) /\ Active(d)
    BY <1>2, <2>2, <2>3, RoutersStand DEF RouterInv
  <2>4. CASE Active(c) /\ ~ Active(d)
    BY <1>2, <2>2, <2>4, RoutersStand DEF RouterInv
  <2>5. CASE ~ Active(c) /\ ~ Active(d)
    <3>1. Create(c) /\ Create(d)
      BY <1>2, <2>5, RoutersStand
    <3> QED
      BY <1>2, <2>5, <3>1 DEF Create, Goto, At, Active, Routing, ShapeInv, Actors, Calls
  <2> QED
    BY <2>1, <2>3, <2>4, <2>5
<1> QED
  BY <1>1, <1>2 DEF RouterInv

-----------------------------------------------------------------------------
(* A call asks the ledger once.                                              *)

LEMMA CallStep ==
  ASSUME ShapeInv, CallInv, Next
  PROVE  CallInv'
<1> USE DEF ShapeInv, CallInv, HasPosted, Posting, At, Goto, Send, Calls, Actors, ledgerVars
<1>1. CASE CallerNext
  <2>1. ASSUME NEW c \in Callers, Lookup(c) \/ Screen(c) \/ Create(c)
        PROVE  CallInv'
    BY <2>1 DEF Lookup, Screen, Create
  <2>2. ASSUME NEW c \in Callers, Route(c)
        PROVE  CallInv'
    BY <2>2 DEF Route, OnLedger
  <2>3. ASSUME NEW c \in Callers, ProviderAuthorize(c) \/ AnswerToCaller(c)
        PROVE  CallInv'
    BY <2>3 DEF ProviderAuthorize, AnswerToCaller, Answer
  <2>4. ASSUME NEW c \in Callers, Authorize(c) \/ Process(c)
        PROVE  CallInv'
    BY <2>4 DEF Authorize, Process
  <2>5. ASSUME NEW c \in Callers, Capture(c)
        PROVE  CallInv'
    BY <2>5 DEF Capture, OnLedger
  <2>6. ASSUME NEW c \in Callers, Complete(c) \/ Announce(c) \/ Fail(c) \/ Throw(c)
        PROVE  CallInv'
    BY <2>6 DEF Complete, Announce, Fail, Throw
  <2>7. ASSUME NEW p \in Payments, CreateRequest(p)
        PROVE  CallInv'
    BY <2>7 DEF CreateRequest
  <2> QED
    BY <1>1, <2>1, <2>2, <2>3, <2>4, <2>5, <2>6, <2>7 DEF CallerNext, CallerStep
<1>2. CASE SweepNext \/ CancelNext
  BY <1>2, SweepFrame
<1>3. CASE RefundNext
  <2>1. ASSUME NEW r \in Refunds, ReadForRefund(r)
        PROVE  CallInv'
    <3>1. /\ pc[r] = "read" /\ UNCHANGED <<call, posted>>
          /\ \A a \in Calls : a # r => pc'[a] = pc[a] /\ (a \in Refunds => asked'[a] = asked[a])
      BY <2>1 DEF ReadForRefund
    <3>2. Goto(r, "open") \/ Goto(r, "refused")
      BY <2>1 DEF ReadForRefund
    <3>3. call[r] = "none" /\ ~ HasPosted(r)
      BY <3>1
    <3>4. \A a \in Calls : HasPosted(a)' => call'[a] = "answered" /\ posted'[a] = Posting(a)'
      <4>1. \A a \in Calls : HasPosted(a)' => HasPosted(a) /\ a # r
        BY <3>1, <3>3
      <4>2. \A a \in Calls : a # r => Posting(a)' = Posting(a)
        BY <3>1
      <4> HIDE DEF HasPosted, Posting
      <4> QED
        BY <3>1, <4>1, <4>2
    <3>5. \A c \in Callers : pc'[c] = pc[c]
      BY <3>1
    <3>6. \A q \in Refunds :
            pc'[q] \in {"read", "open", "owner", "provider"} => call'[q] = "none"
      <4>1. CASE call[r] = "none" /\ call' = call
        BY <3>1, <4>1
      <4> QED
        BY <3>1, <3>3, <4>1
    <3> HIDE DEF HasPosted, Posting
    <3> QED
      BY <3>1, <3>4, <3>5, <3>6
  <2>2. ASSUME NEW r \in Refunds, OpenRefund(r) \/ FindOwner(r)
        PROVE  CallInv'
    BY <2>2 DEF OpenRefund, FindOwner
  <2>3. ASSUME NEW r \in Refunds, ProviderRefund(r) \/ AnswerToRefund(r) \/ UndoRefund(r)
        PROVE  CallInv'
    BY <2>3 DEF ProviderRefund, AnswerToRefund, Answer, UndoRefund
  <2>4. ASSUME NEW r \in Refunds, CloseRefund(r) \/ MarkRefunded(r) \/ ThrowInRefund(r)
        PROVE  CallInv'
    BY <2>4 DEF CloseRefund, MarkRefunded, ThrowInRefund
  <2> QED
    BY <1>3, <2>1, <2>2, <2>3, <2>4 DEF RefundNext, RefundStep
<1>4. ASSUME NEW a \in Calls, Serve(a)
      PROVE  CallInv'
  <2>1. \A b \in Calls : posted'[b] = posted[b] \/ (b = a /\ posted'[b] = Posting(b))
    BY <1>4 DEF Serve, Ledger!Post
  <2> QED
    BY <1>4, <2>1 DEF Serve
<1>5. ASSUME NEW a \in Calls, Crash(a)
      PROVE  CallInv'
  BY <1>5 DEF Crash
<1> QED
  BY <1>1, <1>2, <1>3, <1>4, <1>5 DEF Next, LedgerNext

-----------------------------------------------------------------------------
(* Only what the ledger has answered for is said to be paid.                 *)

LEMMA PaidStep ==
  ASSUME ShapeInv, CallInv, PaidInv, Next
  PROVE  PaidInv'
<1> USE DEF ShapeInv, PaidInv, At, Goto, Send, Calls, Actors
<1>0. \A a \in Calls : HasPosted(a) => HasPosted(a)'
  BY PostedStands
<1>1. CASE CallerNext
  <2>1. ASSUME NEW c \in Callers, Lookup(c) \/ Screen(c) \/ Create(c) \/ Route(c)
        PROVE  PaidInv'
    BY <1>0, <2>1 DEF Lookup, Screen, Create, Route
  <2>2. ASSUME NEW c \in Callers, ProviderAuthorize(c)
        PROVE  PaidInv'
    BY <1>0, <2>2 DEF ProviderAuthorize, CallInv
  <2>3. ASSUME NEW c \in Callers, AnswerToCaller(c)
        PROVE  PaidInv'
    BY <1>0, <2>3 DEF AnswerToCaller, Answer
  <2>4. ASSUME NEW c \in Callers, Authorize(c) \/ Process(c)
        PROVE  PaidInv'
    BY <1>0, <2>4 DEF Authorize, Process
  <2>5. ASSUME NEW c \in Callers, Capture(c)
        PROVE  PaidInv'
    BY <1>0, <2>5 DEF Capture, CallInv
  <2>6. ASSUME NEW c \in Callers, Complete(c) \/ Announce(c) \/ Fail(c) \/ Throw(c)
        PROVE  PaidInv'
    BY <1>0, <2>6 DEF Complete, Announce, Fail, Throw
  <2>7. ASSUME NEW p \in Payments, CreateRequest(p)
        PROVE  PaidInv'
    BY <1>0, <2>7 DEF CreateRequest
  <2> QED
    BY <1>1, <2>1, <2>2, <2>3, <2>4, <2>5, <2>6, <2>7 DEF CallerNext, CallerStep
<1>2. CASE SweepNext \/ CancelNext
  BY <1>0, <1>2, SweepFrame
<1>3. CASE RefundNext
  <2>1. ASSUME NEW r \in Refunds, RefundStep(r) \/ ThrowInRefund(r)
        PROVE  \A c \in Callers : pc'[c] = pc[c]
    BY <2>1 DEF RefundStep, ReadForRefund, OpenRefund, FindOwner, ProviderRefund, Answer,
                AnswerToRefund, UndoRefund, CloseRefund, MarkRefunded, ThrowInRefund
  <2> QED
    BY <1>0, <1>3, <2>1 DEF RefundNext
<1>4. CASE LedgerNext
  BY <1>0, <1>4 DEF LedgerNext, Serve, Crash
<1> QED
  BY <1>1, <1>2, <1>3, <1>4 DEF Next

-----------------------------------------------------------------------------
(* A refund is of a paid payment.                                            *)

LEMMA RefundsStep ==
  ASSUME ShapeInv, CallInv, RefundInv, TransferStatusIsPaid, Next
  PROVE  RefundInv'
<1> USE DEF ShapeInv, RefundInv, Refunding, At, Goto, Send, Calls, Actors
<1>0. /\ \A a \in Calls : HasPosted(a) => HasPosted(a)'
      /\ \A p : Paid(p) => Paid(p)'
  BY PostedStands
<1>1. CASE CallerNext
  <2>1. ASSUME NEW c \in Callers, CallerStep(c) \/ Throw(c)
        PROVE  /\ \A r \in Refunds : pc'[r] = pc[r] /\ call'[r] = call[r]
               /\ UNCHANGED <<refund, asked>>
    <3>1. CASE Route(c) \/ Capture(c)
      BY <3>1 DEF Route, Capture
    <3>2. CASE Lookup(c) \/ Screen(c) \/ Create(c) \/ ProviderAuthorize(c)
      BY <3>2 DEF Lookup, Screen, Create, ProviderAuthorize
    <3>3. CASE AnswerToCaller(c) \/ Authorize(c) \/ Process(c) \/ Complete(c)
      BY <3>3 DEF AnswerToCaller, Answer, Authorize, Process, Complete
    <3>4. CASE Announce(c) \/ Fail(c) \/ Throw(c)
      BY <3>4 DEF Announce, Fail, Throw
    <3> QED
      BY <2>1, <3>1, <3>2, <3>3, <3>4 DEF CallerStep
  <2>2. ASSUME NEW p \in Payments, CreateRequest(p)
        PROVE  UNCHANGED <<pc, call, refund, asked>>
    BY <2>2 DEF CreateRequest
  <2> QED
    BY <1>0, <1>1, <2>1, <2>2 DEF CallerNext
<1>2. CASE SweepNext \/ CancelNext
  BY <1>0, <1>2, SweepFrame
<1>3. CASE RefundNext
  <2>1. ASSUME NEW r \in Refunds, ReadForRefund(r)
        PROVE  RefundInv'
    <3>1. PICK n \in Amounts :
            /\ asked' = [asked EXCEPT ![r] = n]
            /\ Goto(r, IF status[PaymentOf[r]] \in Refundable /\ n <= AmountOf[PaymentOf[r]]
                         THEN "open" ELSE "refused")
      BY <2>1 DEF ReadForRefund
    <3>2. pc[r] = "read" /\ UNCHANGED <<refund, call>>
      BY <2>1 DEF ReadForRefund
    <3>3. call[r] = "none"
      BY <3>2 DEF CallInv
    <3>4. pc'[r] = "open" /\ PaymentOf[r] \in Routed =>
            Paid(PaymentOf[r]) /\ asked'[r] <= AmountOf[PaymentOf[r]]
      BY <3>1 DEF TransferStatusIsPaid, Refundable
    <3>5. pc'[r] \in {"open", "refused"}
      BY <3>1
    <3>6. \A q \in Refunds : q # r => pc'[q] = pc[q] /\ asked'[q] = asked[q]
      BY <3>1
    <3> QED
      BY <1>0, <3>2, <3>3, <3>4, <3>5, <3>6
  <2>2. ASSUME NEW r \in Refunds, OpenRefund(r) \/ FindOwner(r)
        PROVE  RefundInv'
    BY <1>0, <2>2 DEF OpenRefund, FindOwner
  <2>3. ASSUME NEW r \in Refunds, ProviderRefund(r) \/ AnswerToRefund(r)
        PROVE  RefundInv'
    BY <1>0, <2>3 DEF ProviderRefund, AnswerToRefund, Answer
  <2>4. ASSUME NEW r \in Refunds, UndoRefund(r) \/ CloseRefund(r)
        PROVE  RefundInv'
    BY <1>0, <2>4 DEF UndoRefund, CloseRefund
  <2>5. ASSUME NEW r \in Refunds, MarkRefunded(r) \/ ThrowInRefund(r)
        PROVE  RefundInv'
    BY <1>0, <2>5 DEF MarkRefunded, ThrowInRefund
  <2> QED
    BY <1>3, <2>1, <2>2, <2>3, <2>4, <2>5 DEF RefundNext, RefundStep
<1>4. ASSUME NEW a \in Calls, Serve(a) \/ Crash(a)
      PROVE  RefundInv'
  BY <1>0, <1>4 DEF Serve, Crash
<1> QED
  BY <1>1, <1>2, <1>3, <1>4 DEF Next, LedgerNext

-----------------------------------------------------------------------------
(* So is what the settlement engine settles.                                 *)

\* Outside the sweeps' own steps nothing they keep changes.
LEMMA CallFrame ==
  ASSUME ShapeInv, Next, ~ SweepNext
  PROVE  batch' = batch /\ \A s \in Sweeps : pc'[s] = pc[s]
<1> USE DEF ShapeInv, At, Goto, Send, Calls, Actors
<1>1. CASE CallerNext
  BY <1>1 DEF CallerNext, CallerStep, Lookup, Screen, Create, Route, ProviderAuthorize,
              AnswerToCaller, Answer, Authorize, Process, Capture, Complete, Announce,
              Fail, Throw, CreateRequest
<1>2. CASE CancelNext
  BY <1>2 DEF CancelNext, ReadForCancel, Cancel
<1>3. CASE RefundNext
  BY <1>3 DEF RefundNext, RefundStep, ReadForRefund, OpenRefund, FindOwner, ProviderRefund,
              AnswerToRefund, Answer, UndoRefund, CloseRefund, MarkRefunded, ThrowInRefund
<1>4. CASE LedgerNext
  BY <1>4 DEF LedgerNext, Serve, Crash
<1> QED
  BY <1>1, <1>2, <1>3, <1>4 DEF Next

LEMMA SweepsStep ==
  ASSUME ShapeInv, SweepInv, TransferStatusIsPaid, Next
  PROVE  SweepInv'
<1> USE DEF ShapeInv, SweepInv, InSettlement, Settling, At, Goto, Calls, Actors
<1>0. \A p : Paid(p) => Paid(p)'
  BY PostedStands
<1>1. CASE ~ SweepNext
  BY <1>0, <1>1, CallFrame
<1>2. ASSUME NEW s \in Sweeps, NEW L, OpenBatch(s, L)
      PROVE  SweepInv'
  <2>1. /\ batch'[s].copy = [p \in Payments |-> IF p \in L THEN status[p] ELSE "none"]
        /\ \A t \in Sweeps : t # s => batch'[t] = batch[t]
    BY <1>2 DEF OpenBatch, NoBatch
  <2>2. \A p \in Routed : batch'[s].copy[p] \in Settlable => Paid(p)
    BY <2>1 DEF Settlable, TransferStatusIsPaid
  <2>3. pc'[s] = "pick" /\ \A t \in Sweeps : t # s => pc'[t] = pc[t]
    BY <1>2 DEF OpenBatch
  <2> QED
    BY <1>0, <2>1, <2>2, <2>3
<1>3. ASSUME NEW s \in Sweeps, Pick(s)
      PROVE  SweepInv'
  <2>1. PICK p : \/ /\ batch[s].copy[p] \in Settlable
                    /\ Set(s, [batch[s] EXCEPT !.at = p, !.todo = @ \ {p}, !.row[p] = "PENDING"])
                    /\ Goto(s, "start")
                 \/ Set(s, [batch[s] EXCEPT !.todo = @ \ {p}, !.failed = TRUE]) /\ UNCHANGED pc
    BY <1>3 DEF Pick
  <2>2. CASE /\ batch[s].copy[p] \in Settlable
             /\ Set(s, [batch[s] EXCEPT !.at = p, !.todo = @ \ {p}, !.row[p] = "PENDING"])
             /\ Goto(s, "start")
    <3>1. /\ batch'[s].copy = batch[s].copy /\ batch'[s].at = p
          /\ \A t \in Sweeps : t # s => batch'[t] = batch[t] /\ pc'[t] = pc[t]
      BY <2>2 DEF Set
    <3> QED
      BY <1>0, <2>2, <3>1
  <2>3. CASE Set(s, [batch[s] EXCEPT !.todo = @ \ {p}, !.failed = TRUE]) /\ UNCHANGED pc
    <3>1. /\ batch'[s].copy = batch[s].copy /\ pc'[s] = "pick"
          /\ \A t \in Sweeps : t # s => batch'[t] = batch[t] /\ pc'[t] = pc[t]
      BY <1>3, <2>3 DEF Set, Pick
    <3> QED
      BY <1>0, <3>1
  <2> QED
    BY <2>1, <2>2, <2>3
<1>4. ASSUME NEW s \in Sweeps, StartSettlement(s) \/ CloseSettlement(s)
      PROVE  SweepInv'
  <2>1. /\ batch'[s].copy = batch[s].copy /\ batch'[s].at = batch[s].at
        /\ pc[s] \in InSettlement
        /\ \A t \in Sweeps : t # s => batch'[t] = batch[t] /\ pc'[t] = pc[t]
    BY <1>4 DEF StartSettlement, CloseSettlement, SetRow, Set
  <2> QED
    BY <1>0, <2>1
<1>5. ASSUME NEW s \in Sweeps, CloseBatch(s) \/ ThrowInSettlement(s) \/ MarkCompleted(s)
      PROVE  SweepInv'
  <2>1. /\ batch'[s].copy = batch[s].copy /\ pc'[s] \in {"idle", "pick"}
        /\ \A t \in Sweeps : t # s => batch'[t] = batch[t] /\ pc'[t] = pc[t]
    BY <1>5 DEF CloseBatch, ThrowInSettlement, MarkCompleted, Set
  <2> QED
    BY <1>0, <2>1
<1>6. ASSUME NEW s \in Sweeps, MarkProcessing(s) \/ MarkSettled(s) \/ AbandonBatch(s)
      PROVE  SweepInv'
  BY <1>0, <1>6 DEF MarkProcessing, MarkSettled, AbandonBatch
<1>7. CASE SweepNext
  <2>1. PICK s \in Sweeps : \/ RunScheduled(s) \/ RunManual(s) \/ SettleStep(s)
                            \/ ThrowInSettlement(s) \/ AbandonBatch(s)
    BY <1>7 DEF SweepNext
  <2>2. CASE RunScheduled(s) \/ RunManual(s)
    BY <1>2, <2>2 DEF RunScheduled, RunManual
  <2> QED
    BY <1>3, <1>4, <1>5, <1>6, <2>1, <2>2 DEF SettleStep
<1> QED
  BY <1>1, <1>7

-----------------------------------------------------------------------------
(* A status past AUTHORIZED is one of a paid transfer, whoever wrote it.     *)

\* Writing s to payment p does no harm if p is paid, or s says nothing.
LEMMA WriteKeepsPaid ==
  ASSUME ShapeInv, TransferStatusIsPaid, \A q : Paid(q) => Paid(q)',
         NEW p \in Payments, NEW s, Write(p, s),
         \/ p \in Routed => Paid(p)
         \/ s \in {"CREATED", "PENDING", "CANCELLED", "FAILED"}
  PROVE  TransferStatusIsPaid'
BY DEF ShapeInv, TransferStatusIsPaid, Write

LEMMA StatusStep ==
  ASSUME ShapeInv, PaidInv, RefundInv, SweepInv, TransferStatusIsPaid, Next
  PROVE  TransferStatusIsPaid'
<1> USE DEF At
<1>0. \A p : Paid(p) => Paid(p)'
  BY PostedStands DEF ShapeInv
<1>1. ASSUME status' = status
      PROVE  TransferStatusIsPaid'
  BY <1>0, <1>1 DEF TransferStatusIsPaid
<1>2. ASSUME NEW c \in Callers, CallerStep(c) \/ Throw(c)
      PROVE  TransferStatusIsPaid'
  <2>0. PaymentOf[c] \in Payments
    OBVIOUS
  <2>1. CASE Create(c) \/ Route(c) \/ Fail(c)
    BY <1>0, <1>1, <2>0, <2>1, WriteKeepsPaid DEF Create, Route, Fail
  <2>2. CASE Authorize(c) \/ Process(c) \/ Complete(c)
    <3>1. PaymentOf[c] \in Routed => Paid(PaymentOf[c])
      BY <2>2 DEF Authorize, Process, Complete, PaidInv, Paid, CallersOf
    <3> QED
      BY <1>0, <2>0, <2>2, <3>1, WriteKeepsPaid DEF Authorize, Process, Complete
  <2>3. CASE Lookup(c) \/ Screen(c) \/ ProviderAuthorize(c) \/ AnswerToCaller(c)
             \/ Capture(c) \/ Announce(c) \/ Throw(c)
    BY <1>1, <2>3 DEF Lookup, Screen, ProviderAuthorize, AnswerToCaller, Answer, Capture,
                      Announce, Throw
  <2> QED
    BY <1>2, <2>1, <2>2, <2>3 DEF CallerStep
<1>3. ASSUME NEW p \in Payments, CreateRequest(p)
      PROVE  TransferStatusIsPaid'
  BY <1>0, <1>3, WriteKeepsPaid DEF CreateRequest
<1>4. ASSUME NEW x \in Cancels, ReadForCancel(x) \/ Cancel(x)
      PROVE  TransferStatusIsPaid'
  BY <1>0, <1>1, <1>4, WriteKeepsPaid DEF ReadForCancel, Cancel
<1>5. ASSUME NEW r \in Refunds, RefundStep(r) \/ ThrowInRefund(r)
      PROVE  TransferStatusIsPaid'
  <2>1. CASE MarkRefunded(r)
    <3>1. PaymentOf[r] \in Routed => Paid(PaymentOf[r])
      BY <2>1 DEF MarkRefunded, RefundInv, Refunding
    <3> QED
      BY <1>0, <2>1, <3>1, WriteKeepsPaid DEF MarkRefunded
  <2>2. CASE ~ MarkRefunded(r)
    BY <1>1, <1>5, <2>2 DEF RefundStep, ReadForRefund, OpenRefund, FindOwner, ProviderRefund,
                            AnswerToRefund, Answer, UndoRefund, CloseRefund, ThrowInRefund
  <2> QED
    BY <2>1, <2>2
<1>6. ASSUME NEW s \in Sweeps, MarkProcessing(s) \/ MarkSettled(s) \/ MarkCompleted(s)
      PROVE  TransferStatusIsPaid'
  <2>1. Settling(s) \in Routed => Paid(Settling(s))
    BY <1>6 DEF MarkProcessing, MarkSettled, MarkCompleted, SweepInv, InSettlement
  <2>2. CASE Settling(s) \in Payments
    BY <1>0, <1>6, <2>1, <2>2, WriteKeepsPaid DEF MarkProcessing, MarkSettled, MarkCompleted
  <2>3. CASE Settling(s) \notin Payments
    BY <1>1, <1>6, <2>3 DEF MarkProcessing, MarkSettled, MarkCompleted, Write, ShapeInv
  <2> QED
    BY <2>2, <2>3
<1>7. ASSUME NEW s \in Sweeps, RunScheduled(s) \/ RunManual(s) \/ Pick(s) \/ StartSettlement(s)
                               \/ CloseSettlement(s) \/ CloseBatch(s)
                               \/ ThrowInSettlement(s) \/ AbandonBatch(s)
      PROVE  TransferStatusIsPaid'
  BY <1>1, <1>7 DEF RunScheduled, RunManual, OpenBatch, Pick, StartSettlement,
                    CloseSettlement, CloseBatch, ThrowInSettlement, AbandonBatch
<1>8. ASSUME NEW a \in Calls, Serve(a) \/ Crash(a)
      PROVE  TransferStatusIsPaid'
  BY <1>1, <1>8 DEF Serve, Crash
<1> QED
  BY <1>2, <1>3, <1>4, <1>5, <1>6, <1>7, <1>8
     DEF Next, CallerNext, CancelNext, RefundNext, SweepNext, SettleStep, LedgerNext

-----------------------------------------------------------------------------
(* The theorems.                                                             *)

LEMMA InitIInv == Init => IInv
<1> SUFFICES ASSUME Init PROVE IInv
  OBVIOUS
<1> USE DEF Init, Calls, Actors
<1>1. ShapeInv
  BY DEF ShapeInv, Ledger!PromiseInit, NoBatch
<1>2. \A a \in Calls : ~ HasPosted(a) /\ call[a] = "none"
  BY DEF HasPosted, Ledger!PromiseInit
<1>3. /\ \A c \in Callers : pc[c] = "lookup"
      /\ \A r \in Refunds : pc[r] = "read" /\ refund[r] = "none"
      /\ \A s \in Sweeps : pc[s] = "idle" /\ batch[s].copy = [p \in Payments |-> "none"]
  BY DEF NoBatch
<1>4. RouterInv /\ CallInv /\ PaidInv /\ RefundInv
  BY <1>2, <1>3 DEF RouterInv, CallInv, PaidInv, RefundInv, Active, Routing, Refunding
<1>5. SweepInv /\ TransferStatusIsPaid
  BY <1>3 DEF SweepInv, InSettlement, Settlable, TransferStatusIsPaid
<1> QED
  BY <1>1, <1>4, <1>5 DEF IInv

LEMMA IInvStep == IInv /\ [Next]_vars => IInv'
<1>1. CASE IInv /\ Next
  BY <1>1, ShapeStep, RouterStep, CallStep, PaidStep, RefundsStep, SweepsStep, StatusStep
     DEF IInv
<1>2. ASSUME IInv, UNCHANGED vars
      PROVE  IInv'
  <2> USE <1>2 DEF vars, ledgerVars
  <2>1. ShapeInv'
    BY DEF IInv, ShapeInv
  <2>2. \A a : HasPosted(a)' = HasPosted(a) /\ Posting(a)' = Posting(a)
    BY DEF HasPosted, Posting
  <2>3. \A p : Paid(p)' = Paid(p)
    BY <2>2 DEF Paid
  <2>4. RouterInv' /\ CallInv' /\ PaidInv'
    BY <2>2 DEF IInv, RouterInv, Active, CallInv, PaidInv
  <2>5. RefundInv' /\ SweepInv' /\ TransferStatusIsPaid'
    BY <2>2, <2>3 DEF IInv, RefundInv, SweepInv, Settling, TransferStatusIsPaid
  <2> QED
    BY <2>1, <2>4, <2>5 DEF IInv
<1> QED
  BY <1>1, <1>2

\* The inductive invariant.
THEOREM Invariance == SafetySpec => []IInv
  BY InitIInv, IInvStep, PTL DEF SafetySpec

\* Whatever calls, retries, cancels, refunds and settlement runs interleave,
\* and however late the ledger serves a request, a payment's money moves at
\* most once (createPayment's lookup and the unique index on the key).
THEOREM PaysOnce == SafetySpec => []PaidOnce
<1>1. IInv => PaidOnce
  BY DEF IInv, CallInv, RouterInv, PaidOnce, Active, Calls
<1> QED
  BY <1>1, Invariance, PTL

\* A wallet transfer that the router, a refund or the settlement engine has
\* written past AUTHORIZED has moved its money (the awaits of
\* routeWalletTransfer, and the copies settlePayment works from).
THEOREM StatusIsPaid == SafetySpec => []TransferStatusIsPaid
<1>1. IInv => TransferStatusIsPaid
  BY DEF IInv
<1> QED
  BY <1>1, Invariance, PTL

\* Every refund the ledger posts is of a transfer that was paid, the other way
\* round and no larger (refund's checks, and the postings it asks for).
THEOREM RefundsAreBacked == SafetySpec => []RefundIsBacked
<1>1. ASSUME IInv, NEW r \in Refunds, HasPosted(r)
      PROVE  LET p == PaymentOf[r]
             IN /\ p \in Routed /\ Paid(p)
                /\ posted[r].from = ToOf[p] /\ posted[r].to = FromOf[p]
                /\ posted[r].amount <= AmountOf[p]
  <2>1. call[r] = "answered" /\ posted[r] = Posting(r)
    BY <1>1 DEF IInv, CallInv, Calls
  <2>2. Posting(r) = [from |-> ToOf[PaymentOf[r]], to |-> FromOf[PaymentOf[r]],
                      amount |-> asked[r]]
    BY DEF Posting
  <2> QED
    BY <1>1, <2>1, <2>2 DEF IInv, RefundInv
<1>2. IInv => RefundIsBacked
  BY <1>1 DEF RefundIsBacked
<1> QED
  BY <1>2, Invariance, PTL

\* Who is told COMPLETED has had the money moved: createPayment's answer, and
\* the refunds row of a wallet transfer.
THEOREM AnswersAreTrue == SafetySpec => []AnswerIsTrue
<1>1. IInv => AnswerIsTrue
  BY DEF IInv, PaidInv, RefundInv, AnswerIsTrue, At
<1> QED
  BY <1>1, Invariance, PTL

-----------------------------------------------------------------------------
(* Types.                                                                    *)

\* What the handlers of calls and cancels leave of the right type.
LEMMA CallTypes ==
  ASSUME TypeOK, CallerNext \/ CancelNext \/ RefundNext \/ LedgerNext
  PROVE  /\ captured' \subseteq Payments
         /\ batch' = batch
         /\ pc' \in [Actors -> CallerPcs \cup RefundPcs \cup CancelPcs \cup SweepPcs]
         /\ asked' \in [Refunds -> Amounts \cup {0}]
         /\ balance' \in [Wallets -> Nat]
         /\ posted' \in [Calls -> Ledger!Postings \cup {Ledger!NoPosting}]
<1> DEFINE Pcs == CallerPcs \cup RefundPcs \cup CancelPcs \cup SweepPcs
           Typed == /\ captured' \subseteq Payments
                    /\ batch' = batch
                    /\ pc' \in [Actors -> Pcs]
                    /\ asked' \in [Refunds -> Amounts \cup {0}]
                    /\ balance' \in [Wallets -> Nat]
                    /\ posted' \in [Calls -> Ledger!Postings \cup {Ledger!NoPosting}]
<1> SUFFICES Typed
  OBVIOUS
<1>p. pc \in [Actors -> Pcs]
  BY DEF TypeOK
<1>l. /\ {"existing", "refused", "screen", "create", "error", "route", "provider", "fail",
          "authorize", "process", "complete", "capture", "announce", "completed",
          "failed", "call", "crashed"} \subseteq Pcs
      /\ {"write", "refused", "cancelled"} \subseteq Pcs
      /\ {"open", "owner", "undo", "close", "mark", "refunded"} \subseteq Pcs
  BY DEF CallerPcs, CallerEnds, RefundPcs, RefundEnds, CancelPcs
<1> HIDE DEF Pcs
<1>g. \A a : \A l \in Pcs : Goto(a, l) => pc' \in [Actors -> Pcs]
  BY <1>p DEF Goto
<1>h. /\ captured \subseteq Payments
      /\ pc \in [Actors -> Pcs]
      /\ asked \in [Refunds -> Amounts \cup {0}]
      /\ balance \in [Wallets -> Nat]
      /\ posted \in [Calls -> Ledger!Postings \cup {Ledger!NoPosting}]
  BY <1>p DEF TypeOK
<1> HIDE DEF Typed
<1>1. CASE CallerNext
  <2>1. ASSUME NEW c \in Callers, \/ Lookup(c) \/ Screen(c) \/ Create(c) \/ Route(c)
                                  \/ ProviderAuthorize(c) \/ AnswerToCaller(c)
        PROVE  Typed
    BY <2>1, <1>g, <1>l, <1>h DEF Typed, Lookup, Screen, Create, Route, ProviderAuthorize,
                                  AnswerToCaller, Answer, Send, ledgerVars
  <2>2. ASSUME NEW c \in Callers, \/ Authorize(c) \/ Process(c) \/ Complete(c) \/ Announce(c)
                                  \/ Fail(c) \/ Throw(c)
        PROVE  Typed
    BY <2>2, <1>g, <1>l, <1>h DEF Typed, Authorize, Process, Complete, Announce, Fail, Throw,
                                  ledgerVars
  <2>3. ASSUME NEW c \in Callers, Capture(c)
        PROVE  Typed
    BY <2>3, <1>g, <1>l, <1>h DEF Typed, Capture, Send, ledgerVars
  <2>4. ASSUME NEW p \in Payments, CreateRequest(p)
        PROVE  Typed
    BY <2>4, <1>h DEF Typed, CreateRequest, ledgerVars
  <2> QED
    BY <1>1, <2>1, <2>2, <2>3, <2>4 DEF CallerNext, CallerStep
<1>2. CASE CancelNext
  <2>1. ASSUME NEW x \in Cancels, ReadForCancel(x) \/ Cancel(x)
        PROVE  Typed
    BY <2>1, <1>g, <1>l, <1>h DEF Typed, ReadForCancel, Cancel, ledgerVars
  <2> QED
    BY <1>2, <2>1 DEF CancelNext
<1>3. CASE RefundNext
  <2>1. ASSUME NEW r \in Refunds, ReadForRefund(r)
        PROVE  Typed
    BY <2>1, <1>g, <1>l, <1>h DEF Typed, ReadForRefund, ledgerVars
  <2>2. ASSUME NEW r \in Refunds, \/ OpenRefund(r) \/ FindOwner(r) \/ ProviderRefund(r)
                                  \/ AnswerToRefund(r)
        PROVE  Typed
    BY <2>2, <1>g, <1>l, <1>h DEF Typed, OpenRefund, FindOwner, ProviderRefund, AnswerToRefund,
                                  Answer, Send, ledgerVars
  <2>3. ASSUME NEW r \in Refunds, \/ UndoRefund(r) \/ CloseRefund(r) \/ MarkRefunded(r)
                                  \/ ThrowInRefund(r)
        PROVE  Typed
    BY <2>3, <1>g, <1>l, <1>h DEF Typed, UndoRefund, CloseRefund, MarkRefunded, ThrowInRefund,
                                  ledgerVars
  <2> QED
    BY <1>3, <2>1, <2>2, <2>3 DEF RefundNext, RefundStep
<1>4. CASE LedgerNext
  <2>1. ASSUME NEW a \in Calls, Serve(a)
        PROVE  Typed
    <3>1. CASE UNCHANGED ledgerVars
      BY <2>1, <3>1, <1>h DEF Typed, Serve, ledgerVars
    <3>2. CASE Posting(a) \in Ledger!Postings /\ Ledger!Post(a, Posting(a))
      <4> DEFINE p == Posting(a)
      <4>1. p.amount \in Nat /\ p.from # p.to
        BY <3>2 DEF Ledger!Postings
      <4> HIDE DEF p
      <4>2. \A w \in Wallets : balance[w] + Ledger!Delta(p, w) \in Nat
        BY <3>2, <4>1, <1>h DEF Ledger!Post, Ledger!Delta, p
      <4>3. balance' \in [Wallets -> Nat]
        BY <3>2, <4>2 DEF Ledger!Post, p
      <4>4. posted' \in [Calls -> Ledger!Postings \cup {Ledger!NoPosting}]
        BY <3>2, <1>h DEF Ledger!Post
      <4> QED
        BY <2>1, <4>3, <4>4, <1>h DEF Typed, Serve
    <3> QED
      BY <2>1, <3>1, <3>2 DEF Serve
  <2>2. ASSUME NEW a \in Calls, Crash(a)
        PROVE  Typed
    BY <2>2, <1>g, <1>l, <1>h DEF Typed, Crash, ledgerVars
  <2> QED
    BY <1>4, <2>1, <2>2 DEF LedgerNext
<1> QED
  BY <1>1, <1>2, <1>3, <1>4

\* What the settlement engine leaves of the right type.
LEMMA SweepTypes ==
  ASSUME TypeOK, SweepNext
  PROVE  /\ batch' \in [Sweeps -> Batches]
         /\ pc' \in [Actors -> CallerPcs \cup RefundPcs \cup CancelPcs \cup SweepPcs]
<1> DEFINE Pcs == CallerPcs \cup RefundPcs \cup CancelPcs \cup SweepPcs
           Typed == batch' \in [Sweeps -> Batches] /\ pc' \in [Actors -> Pcs]
<1> SUFFICES Typed
  OBVIOUS
<1>p. pc \in [Actors -> Pcs]
  BY DEF TypeOK
<1>l. {"idle", "pick", "start", "process", "settle", "close", "finish"} \subseteq Pcs
  BY DEF SweepPcs
<1> HIDE DEF Pcs
<1>g. \A a : \A l \in Pcs : Goto(a, l) => pc' \in [Actors -> Pcs]
  BY <1>p DEF Goto
<1>h. /\ status \in [Payments -> Statuses \cup {"none"}]
      /\ batch \in [Sweeps -> Batches] /\ pc \in [Actors -> Pcs]
  BY <1>p DEF TypeOK
<1>b. \A s \in Sweeps : \A rec \in Batches : Set(s, rec) => batch' \in [Sweeps -> Batches]
  BY <1>h DEF Set
<1>1. ASSUME NEW s \in Sweeps, RunScheduled(s) \/ RunManual(s)
      PROVE  Typed
  <2>1. PICK L \in SUBSET Payments : OpenBatch(s, L)
    BY <1>1 DEF RunScheduled, RunManual, InStatus
  <2> DEFINE C == [p \in Payments |-> IF p \in L THEN status[p] ELSE "none"]
             rec == [NoBatch EXCEPT !.status = "PROCESSING", !.todo = L, !.copy = C]
  <2>2. C \in [Payments -> Statuses \cup {"none"}]
    BY <1>h
  <2>3. NoBatch \in Batches
    <3>1. PICK p : p \in Payments
      BY <1>h DEF Batches
    <3> QED
      BY <3>1 DEF NoBatch, Batches
  <2>4. rec \in Batches
    <3> HIDE DEF C
    <3> QED
      BY <2>2, <2>3 DEF Batches
  <2>5. batch' = [batch EXCEPT ![s] = rec] /\ Goto(s, "pick")
    BY <2>1 DEF OpenBatch
  <2> HIDE DEF rec
  <2> QED
    BY <2>4, <2>5, <1>g, <1>l, <1>h
<1>2. ASSUME NEW s \in Sweeps, Pick(s)
      PROVE  Typed
  <2> DEFINE taken(p) == [batch[s] EXCEPT !.at = p, !.todo = @ \ {p}, !.row[p] = "PENDING"]
             skipped(p) == [batch[s] EXCEPT !.todo = @ \ {p}, !.failed = TRUE]
  <2>1. PICK p \in batch[s].todo :
             \/ Set(s, taken(p)) /\ Goto(s, "start")
             \/ Set(s, skipped(p)) /\ UNCHANGED pc
    BY <1>2, Zenon DEF Pick
  <2>2. batch[s] \in Batches /\ p \in Payments
    BY <1>h, <2>1 DEF Batches
  <2>3. taken(p) \in Batches
    BY <2>2 DEF Batches
  <2>4. skipped(p) \in Batches
    BY <2>2 DEF Batches
  <2> HIDE DEF taken, skipped
  <2> QED
    BY <2>1, <2>3, <2>4, <1>b, <1>g, <1>l, <1>h
<1>3. ASSUME NEW s \in Sweeps, StartSettlement(s) \/ CloseSettlement(s)
      PROVE  Typed
  <2>1. batch[s] \in Batches
    BY <1>h
  <2>2. \A p \in Payments : \A st \in {"PROCESSING", "COMPLETED"} :
          [batch[s] EXCEPT !.row[p] = st] \in Batches
    BY <2>1 DEF Batches
  <2>3. Settling(s) \in Payments
    BY <2>1 DEF Settling, Batches
  <2>4. batch' \in [Sweeps -> Batches]
    BY <1>3, <2>2, <2>3, <1>b DEF StartSettlement, CloseSettlement, SetRow
  <2> QED
    BY <1>3, <2>4, <1>g, <1>l DEF StartSettlement, CloseSettlement
<1>4. ASSUME NEW s \in Sweeps, MarkProcessing(s) \/ MarkSettled(s)
      PROVE  Typed
  BY <1>4, <1>g, <1>l, <1>h DEF MarkProcessing, MarkSettled
<1>5. ASSUME NEW s \in Sweeps, CloseBatch(s) \/ ThrowInSettlement(s) \/ MarkCompleted(s)
      PROVE  Typed
  <2>1. batch[s] \in Batches
    BY <1>h
  <2>2. /\ \A f \in {batch[s].failed, TRUE} : [batch[s] EXCEPT !.failed = f] \in Batches
        /\ \A st \in {"FAILED", "COMPLETED"} : [batch[s] EXCEPT !.status = st] \in Batches
    BY <2>1 DEF Batches
  <2>3. batch' \in [Sweeps -> Batches]
    BY <1>5, <2>2, <1>b DEF CloseBatch, ThrowInSettlement, MarkCompleted
  <2> QED
    BY <1>5, <2>3, <1>g, <1>l DEF CloseBatch, ThrowInSettlement, MarkCompleted
<1>6. ASSUME NEW s \in Sweeps, AbandonBatch(s)
      PROVE  Typed
  BY <1>6, <1>g, <1>l, <1>h DEF AbandonBatch
<1> QED
  BY <1>1, <1>2, <1>3, <1>4, <1>5, <1>6 DEF SweepNext, SettleStep

\* Every variable stays in its type (the payments, refunds and settlements
\* tables, and where a call or a sweep is), once there is a payment to settle.
THEOREM TypeCorrect ==
  ASSUME Payments # {}
  PROVE  SafetySpec => []TypeOK
<1>1. Init => TypeOK
  <2> SUFFICES ASSUME Init PROVE TypeOK
    OBVIOUS
  <2> USE DEF Init, Ledger!PromiseInit
  <2>1. batch \in [Sweeps -> Batches]
    <3>1. NoBatch \in Batches
      BY DEF NoBatch, Batches
    <3> QED
      BY <3>1
  <2>2. pc \in [Actors -> CallerPcs \cup RefundPcs \cup CancelPcs \cup SweepPcs]
    BY DEF CallerPcs, RefundPcs, SweepPcs
  <2>3. posted \in [Calls -> Ledger!Postings \cup {Ledger!NoPosting}]
    OBVIOUS
  <2> QED
    BY <2>1, <2>2, <2>3 DEF TypeOK
<1>2. TypeOK /\ [Next]_vars => TypeOK'
  <2>1. ASSUME TypeOK, Next
        PROVE  TypeOK'
    <3>1. ShapeInv
      BY <2>1 DEF TypeOK, ShapeInv, Batches
    <3>2. /\ status' \in [Payments -> Statuses \cup {"none"}]
          /\ refund' \in [Refunds -> {"none", "PROCESSING", "COMPLETED", "FAILED"}]
          /\ call' \in [Calls -> {"none", "sent", "answered"}]
      <4>1. ShapeInv'
        BY <2>1, <3>1, ShapeStep
      <4> QED
        BY <4>1 DEF ShapeInv
    <3>3. CASE SweepNext
      <4>1. UNCHANGED <<captured, asked, balance, posted>>
        BY <3>1, <3>3, SweepFrame DEF ledgerVars
      <4>2. /\ batch' \in [Sweeps -> Batches]
            /\ pc' \in [Actors -> CallerPcs \cup RefundPcs \cup CancelPcs \cup SweepPcs]
        BY <2>1, <3>3, SweepTypes
      <4> QED
        BY <2>1, <3>2, <4>1, <4>2 DEF TypeOK
    <3>4. CASE CallerNext \/ CancelNext \/ RefundNext \/ LedgerNext
      BY <2>1, <3>2, <3>4, CallTypes DEF TypeOK
    <3> QED
      BY <2>1, <3>3, <3>4 DEF Next
  <2>2. ASSUME TypeOK, UNCHANGED vars
        PROVE  TypeOK'
    BY <2>2 DEF vars, ledgerVars, TypeOK
  <2> QED
    BY <2>1, <2>2
<1> QED
  BY <1>1, <1>2, PTL DEF SafetySpec

-----------------------------------------------------------------------------
(* What an open batch has done so far.                                       *)

\* A batch that has not met a failure has settled what it took from its list,
\* but for the payment it is at.
BatchInv ==
  \A s \in Sweeps :
    /\ pc[s] # "idle" => batch[s].status = "PROCESSING"
    /\ pc[s] # "idle" /\ ~ batch[s].failed =>
         \A p \in Payments : batch[s].copy[p] # "none" /\ p \notin batch[s].todo =>
           \/ batch[s].row[p] = "COMPLETED"
           \/ p = Settling(s) /\ pc[s] \in {"start", "process", "settle", "close"}

\* The calls leave the engine where it is.
LEMMA CallsLeaveSweeps ==
  ASSUME TypeOK, CallerNext \/ CancelNext \/ RefundNext \/ LedgerNext
  PROVE  batch' = batch /\ \A s \in Sweeps : pc'[s] = pc[s]
<1>1. batch' = batch
  BY CallTypes
<1>2. \A a \in Calls \cup Cancels : \A l : Goto(a, l) => \A s \in Sweeps : pc'[s] = pc[s]
  BY DEF Goto, TypeOK, Actors
<1>3. ASSUME NEW s \in Sweeps
      PROVE  pc'[s] = pc[s]
  <2>1. CASE CallerNext
    <3>1. ASSUME NEW c \in Callers, CallerStep(c) \/ Throw(c)
          PROVE  pc'[s] = pc[s]
      BY <3>1, <1>2 DEF Calls, CallerStep, Lookup, Screen, Create, Route, ProviderAuthorize,
                        AnswerToCaller, Answer, Authorize, Process, Capture, Complete,
                        Announce, Fail, Throw, Send
    <3> QED
      BY <2>1, <3>1 DEF CallerNext, CreateRequest
  <2>2. CASE CancelNext
    BY <2>2, <1>2 DEF CancelNext, ReadForCancel, Cancel
  <2>3. CASE RefundNext
    <3>1. ASSUME NEW r \in Refunds, RefundStep(r) \/ ThrowInRefund(r)
          PROVE  pc'[s] = pc[s]
      BY <3>1, <1>2 DEF Calls, RefundStep, ReadForRefund, OpenRefund, FindOwner, ProviderRefund,
                        AnswerToRefund, Answer, UndoRefund, CloseRefund, MarkRefunded,
                        ThrowInRefund, Send
    <3> QED
      BY <2>3, <3>1 DEF RefundNext
  <2>4. CASE LedgerNext
    BY <2>4, <1>2 DEF LedgerNext, Serve, Crash, Calls
  <2> QED
    BY <2>1, <2>2, <2>3, <2>4
<1> QED
  BY <1>1, <1>3

\* Only its own step moves a batch, and it keeps the account of what is done.
LEMMA BatchStep ==
  ASSUME TypeOK, BatchInv, BatchIsHonest, Next
  PROVE  BatchInv' /\ BatchIsHonest'
<1> DEFINE Kept(t) ==
             /\ pc'[t] # "idle" => batch'[t].status = "PROCESSING"
             /\ pc'[t] # "idle" /\ ~ batch'[t].failed =>
                  \A p \in Payments : batch'[t].copy[p] # "none" /\ p \notin batch'[t].todo =>
                    \/ batch'[t].row[p] = "COMPLETED"
                    \/ p = batch'[t].at /\ pc'[t] \in {"start", "process", "settle", "close"}
             /\ batch'[t].status = "COMPLETED" =>
                  \A p \in Payments : batch'[t].copy[p] # "none" => batch'[t].row[p] = "COMPLETED"
<1> SUFFICES \A t \in Sweeps : Kept(t)
  BY DEF BatchInv, BatchIsHonest, Settling
<1>0. \A t \in Sweeps : pc'[t] = pc[t] /\ batch'[t] = batch[t] => Kept(t)
  BY DEF BatchInv, BatchIsHonest, Settling
<1>h. batch \in [Sweeps -> Batches] /\ DOMAIN pc = Actors /\ Sweeps \subseteq Actors
  BY DEF TypeOK, Actors
<1>1. CASE CallerNext \/ CancelNext \/ RefundNext \/ LedgerNext
  BY <1>1, <1>0, CallsLeaveSweeps
<1>2. ASSUME NEW s \in Sweeps,
             \/ RunScheduled(s) \/ RunManual(s) \/ SettleStep(s)
             \/ ThrowInSettlement(s) \/ AbandonBatch(s)
      PROVE  \A t \in Sweeps : Kept(t)
  <2>h. batch[s] \in Batches /\ s \in Actors
    BY <1>h
  <2>i. /\ pc[s] # "idle" => batch[s].status = "PROCESSING"
        /\ pc[s] # "idle" /\ ~ batch[s].failed =>
             \A p \in Payments : batch[s].copy[p] # "none" /\ p \notin batch[s].todo =>
               \/ batch[s].row[p] = "COMPLETED"
               \/ p = batch[s].at /\ pc[s] \in {"start", "process", "settle", "close"}
        /\ batch[s].status = "COMPLETED" =>
             \A p \in Payments : batch[s].copy[p] # "none" => batch[s].row[p] = "COMPLETED"
    BY DEF BatchInv, BatchIsHonest, Settling
  <2>s. \A rec : Set(s, rec) => batch'[s] = rec /\ \A t \in Sweeps \ {s} : batch'[t] = batch[t]
    BY <1>h DEF Set
  <2>g. \A l : Goto(s, l) => pc'[s] = l /\ \A t \in Sweeps \ {s} : pc'[t] = pc[t]
    BY <1>h DEF Goto
  <2> DEFINE Others == \A t \in Sweeps \ {s} : pc'[t] = pc[t] /\ batch'[t] = batch[t]
  <2>1. CASE RunScheduled(s) \/ RunManual(s)
    <3>1. PICK L \in SUBSET Payments : OpenBatch(s, L)
      BY <2>1 DEF RunScheduled, RunManual, InStatus
    <3>2. /\ pc'[s] = "pick" /\ Others
          /\ batch'[s] = [NoBatch EXCEPT !.status = "PROCESSING", !.todo = L,
                            !.copy = [p \in Payments |-> IF p \in L THEN status[p] ELSE "none"]]
      BY <3>1, <2>g, <1>h DEF OpenBatch
    <3>3. /\ batch'[s].status = "PROCESSING" /\ batch'[s].todo = L
          /\ batch'[s].copy = [p \in Payments |-> IF p \in L THEN status[p] ELSE "none"]
      BY <3>2 DEF NoBatch
    <3>4. Kept(s)
      BY <3>2, <3>3
    <3>5. Others
      BY <3>2
    <3> QED
      BY <3>4, <3>5, <1>0
  <2>2. CASE Pick(s)
    <3> DEFINE taken(p) == [batch[s] EXCEPT !.at = p, !.todo = @ \ {p}, !.row[p] = "PENDING"]
               skipped(p) == [batch[s] EXCEPT !.todo = @ \ {p}, !.failed = TRUE]
    <3>1. PICK p \in batch[s].todo :
               \/ Set(s, taken(p)) /\ Goto(s, "start")
               \/ Set(s, skipped(p)) /\ UNCHANGED pc
      BY <2>2, Zenon DEF Pick
    <3>2. At(s, "pick")
      BY <2>2 DEF Pick
    <3>3. CASE Set(s, taken(p)) /\ Goto(s, "start")
      <4>1. Kept(s)
        <5>1. /\ taken(p).status = "PROCESSING" /\ taken(p).failed = batch[s].failed
              /\ taken(p).at = p /\ taken(p).copy = batch[s].copy
              /\ taken(p).todo = batch[s].todo \ {p}
              /\ \A q \in Payments \ {p} : taken(p).row[q] = batch[s].row[q]
          BY <2>h, <2>i, <3>2 DEF Batches, At
        <5> HIDE DEF taken
        <5>2. batch'[s] = taken(p) /\ pc'[s] = "start"
          BY <3>3, <2>s, <2>g
        <5> QED
          BY <5>1, <5>2, <2>i, <3>2 DEF At
      <4> QED
        BY <3>3, <4>1, <2>s, <2>g, <1>0
    <3>4. CASE Set(s, skipped(p)) /\ UNCHANGED pc
      <4>1. Kept(s)
        <5>1. skipped(p).status = "PROCESSING" /\ skipped(p).failed
          BY <2>h, <2>i, <3>2 DEF Batches, At
        <5> HIDE DEF skipped
        <5>2. batch'[s] = skipped(p) /\ pc'[s] = "pick"
          BY <3>4, <3>2, <2>s DEF At
        <5> QED
          BY <5>1, <5>2
      <4> QED
        BY <3>4, <4>1, <2>s, <1>0
    <3> QED
      BY <3>1, <3>3, <3>4
  <2>3. CASE StartSettlement(s) \/ CloseSettlement(s)
    <3>1. PICK st \in {"PROCESSING", "COMPLETED"}, l \in {"process", "settle", "finish"} :
            /\ Set(s, [batch[s] EXCEPT !.row[batch[s].at] = st]) /\ Goto(s, l)
            /\ l = "finish" => st = "COMPLETED"
            /\ pc[s] \in {"start", "close"}
      BY <2>3 DEF StartSettlement, CloseSettlement, SetRow, Settling, At
    <3> DEFINE rec == [batch[s] EXCEPT !.row[batch[s].at] = st]
    <3>2. /\ rec.status = "PROCESSING" /\ rec.failed = batch[s].failed
          /\ rec.at = batch[s].at /\ rec.copy = batch[s].copy /\ rec.todo = batch[s].todo
          /\ rec.row[batch[s].at] = st
          /\ \A q \in Payments \ {batch[s].at} : rec.row[q] = batch[s].row[q]
      BY <2>h, <2>i, <3>1 DEF Batches
    <3>3. batch'[s] = rec /\ pc'[s] = l /\ Others
      BY <3>1, <2>s, <2>g
    <3> HIDE DEF rec
    <3>4. Kept(s)
      BY <3>1, <3>2, <3>3, <2>i
    <3> QED
      BY <3>3, <3>4, <1>0
  <2>4. CASE MarkProcessing(s) \/ MarkSettled(s)
    <3>1. /\ batch' = batch
          /\ pc[s] \in {"process", "settle"} /\ pc'[s] \in {"settle", "close"}
          /\ Others
      BY <2>4, <2>g DEF MarkProcessing, MarkSettled, At
    <3>2. Kept(s)
      BY <3>1, <2>i
    <3> QED
      BY <3>1, <3>2, <1>0
  <2>8. CASE MarkCompleted(s)
    <3> DEFINE rec(f) == [batch[s] EXCEPT !.failed = f]
    <3>1. PICK f \in {batch[s].failed, TRUE} : Set(s, rec(f))
      BY <2>8 DEF MarkCompleted
    <3>2. pc[s] = "finish" /\ Goto(s, "pick")
      BY <2>8 DEF MarkCompleted, At
    <3>3. /\ rec(f).status = "PROCESSING" /\ rec(f).failed = f
          /\ rec(f).at = batch[s].at /\ rec(f).copy = batch[s].copy
          /\ rec(f).todo = batch[s].todo /\ rec(f).row = batch[s].row
      BY <2>h, <2>i, <3>2 DEF Batches
    <3>4. batch'[s] = rec(f) /\ pc'[s] = "pick" /\ Others
      BY <3>1, <3>2, <2>s, <2>g
    <3> HIDE DEF rec
    <3>5. Kept(s)
      <4>1. CASE f = TRUE
        BY <3>3, <3>4, <4>1
      <4>2. CASE f = batch[s].failed
        BY <3>2, <3>3, <3>4, <4>2, <2>i
      <4> QED
        BY <3>1, <4>1, <4>2
    <3> QED
      BY <3>4, <3>5, <1>0
  <2>5. CASE CloseBatch(s)
    <3> DEFINE rec == [batch[s] EXCEPT !.status = IF batch[s].failed THEN "FAILED" ELSE "COMPLETED"]
    <3>1. pc[s] = "pick" /\ batch[s].todo = {} /\ Set(s, rec) /\ Goto(s, "idle")
      BY <2>5 DEF CloseBatch, At
    <3>2. /\ rec.status = IF batch[s].failed THEN "FAILED" ELSE "COMPLETED"
          /\ rec.copy = batch[s].copy /\ rec.row = batch[s].row
      BY <2>h DEF Batches
    <3>3. batch'[s] = rec /\ pc'[s] = "idle" /\ Others
      BY <3>1, <2>s, <2>g
    <3> HIDE DEF rec
    <3>4. Kept(s)
      BY <3>1, <3>2, <3>3, <2>i
    <3> QED
      BY <3>3, <3>4, <1>0
  <2>6. CASE ThrowInSettlement(s)
    <3> DEFINE rec == [batch[s] EXCEPT !.failed = TRUE]
    <3>1. pc[s] # "idle" /\ Set(s, rec) /\ Goto(s, "pick")
      BY <2>6 DEF ThrowInSettlement
    <3>2. rec.status = "PROCESSING" /\ rec.failed
      BY <2>h, <2>i, <3>1 DEF Batches
    <3>3. batch'[s] = rec /\ pc'[s] = "pick" /\ Others
      BY <3>1, <2>s, <2>g
    <3> HIDE DEF rec
    <3>4. Kept(s)
      BY <3>2, <3>3
    <3> QED
      BY <3>3, <3>4, <1>0
  <2>7. CASE AbandonBatch(s)
    <3>1. pc'[s] = "idle" /\ batch' = batch /\ Others
      BY <2>7, <2>g DEF AbandonBatch
    <3>2. Kept(s)
      BY <3>1, <2>i
    <3> QED
      BY <3>1, <3>2, <1>0
  <2> QED
    BY <1>2, <2>1, <2>2, <2>3, <2>4, <2>5, <2>6, <2>7, <2>8 DEF SettleStep
<1> QED
  BY <1>1, <1>2 DEF Next, SweepNext

\* A batch is COMPLETED only if each payment it listed has been settled by it,
\* whatever fails between (runBatch catches one payment's failure).
THEOREM BatchesAreHonest ==
  ASSUME Payments # {}
  PROVE  SafetySpec => []BatchIsHonest
<1>1. Init => BatchInv /\ BatchIsHonest
  BY DEF Init, BatchInv, BatchIsHonest, NoBatch, Actors, Calls
<1>2. TypeOK /\ BatchInv /\ BatchIsHonest /\ [Next]_vars => BatchInv' /\ BatchIsHonest'
  <2>1. ASSUME TypeOK, BatchInv, BatchIsHonest, UNCHANGED vars
        PROVE  BatchInv' /\ BatchIsHonest'
    BY <2>1 DEF vars, BatchInv, BatchIsHonest, Settling
  <2> QED
    BY <2>1, BatchStep
<1> QED
  BY <1>1, <1>2, TypeCorrect, PTL DEF SafetySpec

-----------------------------------------------------------------------------
(* What the races named in the findings leave standing.                      *)

\* A payment becomes COMPLETED by its router's last write or by the settlement engine.
LEMMA CompletedBy ==
  ASSUME ShapeInv, Next, NEW p \in Payments, status[p] # "COMPLETED", status'[p] = "COMPLETED"
  PROVE  \/ \E c \in CallersOf(p) : pc[c] = "complete"
         \/ \E s \in Sweeps : At(s, "finish") /\ At(s, "pick")' /\ Settling(s) = p
<1> USE DEF ShapeInv, At, Goto, Send, Write, CallersOf, Calls, Actors
<1>1. CASE CallerNext
  <2>1. ASSUME NEW c \in Callers, Create(c) \/ Route(c) \/ Authorize(c) \/ Process(c) \/ Fail(c)
        PROVE  FALSE
    BY <2>1 DEF Create, Route, Authorize, Process, Fail
  <2>2. ASSUME NEW c \in Callers, Complete(c)
        PROVE  c \in CallersOf(p) /\ pc[c] = "complete"
    BY <2>2 DEF Complete
  <2>3. ASSUME NEW c \in Callers, Lookup(c) \/ Screen(c) \/ ProviderAuthorize(c) \/ Announce(c)
        PROVE  FALSE
    BY <2>3 DEF Lookup, Screen, ProviderAuthorize, Announce
  <2>4. ASSUME NEW c \in Callers, AnswerToCaller(c) \/ Capture(c) \/ Throw(c)
        PROVE  FALSE
    BY <2>4 DEF AnswerToCaller, Answer, Capture, Throw
  <2>5. ASSUME NEW q \in Payments, CreateRequest(q)
        PROVE  FALSE
    BY <2>5 DEF CreateRequest
  <2> QED
    BY <1>1, <2>1, <2>2, <2>3, <2>4, <2>5 DEF CallerNext, CallerStep
<1>2. CASE CancelNext
  BY <1>2 DEF CancelNext, ReadForCancel, Cancel
<1>3. CASE RefundNext
  BY <1>3 DEF RefundNext, RefundStep, ReadForRefund, OpenRefund, FindOwner, ProviderRefund,
              AnswerToRefund, Answer, UndoRefund, CloseRefund, MarkRefunded, ThrowInRefund
<1>4. CASE SweepNext
  <2>1. ASSUME NEW s \in Sweeps, MarkCompleted(s)
        PROVE  pc[s] = "finish" /\ pc'[s] = "pick" /\ Settling(s) = p
    BY <2>1 DEF MarkCompleted
  <2>2. ASSUME NEW s \in Sweeps, MarkProcessing(s) \/ MarkSettled(s)
        PROVE  FALSE
    BY <2>2 DEF MarkProcessing, MarkSettled
  <2>3. ASSUME NEW s \in Sweeps, RunScheduled(s) \/ RunManual(s) \/ Pick(s) \/ StartSettlement(s)
        PROVE  FALSE
    BY <2>3 DEF RunScheduled, RunManual, OpenBatch, Pick, StartSettlement
  <2>4. ASSUME NEW s \in Sweeps, \/ CloseSettlement(s) \/ CloseBatch(s)
                                 \/ ThrowInSettlement(s) \/ AbandonBatch(s)
        PROVE  FALSE
    BY <2>4 DEF CloseSettlement, CloseBatch, ThrowInSettlement, AbandonBatch
  <2> QED
    BY <1>4, <2>1, <2>2, <2>3, <2>4 DEF SweepNext, SettleStep
<1>5. CASE LedgerNext
  BY <1>5 DEF LedgerNext, Serve, Crash
<1> QED
  BY <1>1, <1>2, <1>3, <1>4, <1>5 DEF Next

\* A router that is at its last write has its posting, and is the only call that ever
\* asked for one: so a payment the ledger has refused is completed by the engine alone.
THEOREM OnlyEngineCompletesRefused == SafetySpec => RouterFailsClosed
<1>1. ASSUME IInv, Next, NEW c \in Callers, call[c] = "answered", ~ HasPosted(c),
             status[PaymentOf[c]] # "COMPLETED", status'[PaymentOf[c]] = "COMPLETED"
      PROVE  \E s \in Sweeps : At(s, "finish") /\ At(s, "pick")' /\ Settling(s) = PaymentOf[c]
  <2>1. ASSUME NEW d \in CallersOf(PaymentOf[c]), pc[d] = "complete"
        PROVE  FALSE
    <3>1. d \in Callers /\ PaymentOf[d] = PaymentOf[c]
      BY DEF CallersOf
    <3>2. d = c
      BY <1>1, <2>1, <3>1 DEF IInv, RouterInv, Active, Routing
    <3> QED
      BY <1>1, <2>1, <3>2 DEF IInv, CallInv, PaidInv
  <2> QED
    BY <1>1, <2>1, CompletedBy DEF IInv
<1>2. IInv /\ [Next]_vars =>
        [\A c \in Callers :
           /\ call[c] = "answered" /\ ~ HasPosted(c)
           /\ status[PaymentOf[c]] # "COMPLETED" /\ status'[PaymentOf[c]] = "COMPLETED"
           => \E s \in Sweeps :
                At(s, "finish") /\ At(s, "pick")' /\ Settling(s) = PaymentOf[c]]_vars
  BY <1>1
<1> QED
  BY <1>2, Invariance, PTL DEF SafetySpec, RouterFailsClosed

\* From a terminal status the state machine leads nowhere.
LEMMA TerminalStatuses ==
  Terminal = {"CANCELLED", "FAILED", "EXPIRED", "REFUNDED", "REVERSED", "CHARGEBACK"}
<1>1. \A s \in Statuses : AllowedTransitions[s] = {} <=>
        s \in {"CANCELLED", "FAILED", "EXPIRED", "REFUNDED", "REVERSED", "CHARGEBACK"}
  BY DEF Statuses, AllowedTransitions
<1>2. {"CANCELLED", "FAILED", "EXPIRED", "REFUNDED", "REVERSED", "CHARGEBACK"} \subseteq Statuses
  BY DEF Statuses, AllowedTransitions
<1> QED
  BY <1>1, <1>2 DEF Terminal

\* What AtRest(p) says of a router.
RouterAtRest(c) == pc[c] \in CallerEnds \cup {"lookup", "screen", "create"}

\* A status no handler is about to write stays while routers and requests go on.
LEMMA RoutersLeaveRest ==
  ASSUME ShapeInv, NEW p \in Payments, AtRest(p), CallerNext
  PROVE  AtRest(p)'
<1> USE DEF ShapeInv, At, Goto, Send, Write, CallersOf, RefundsOf, Calls, Actors
<1>0. status[p] # "none" /\ status[p] \in Terminal
  BY TerminalStatuses DEF AtRest
<1>1. ASSUME NEW c \in Callers, CallerStep(c) \/ Throw(c)
      PROVE  /\ status'[p] = status[p]
             /\ \A d \in CallersOf(p) : RouterAtRest(d)'
  <2> USE <1>0 DEF AtRest, RouterAtRest, CallerEnds
  <2>1. CASE Lookup(c) \/ Screen(c) \/ Create(c)
    BY <2>1 DEF Lookup, Screen, Create
  <2>2. CASE Route(c) \/ ProviderAuthorize(c) \/ AnswerToCaller(c) \/ Authorize(c)
    BY <2>2 DEF Route, ProviderAuthorize, AnswerToCaller, Answer, Authorize
  <2>3. CASE Process(c) \/ Capture(c) \/ Complete(c) \/ Announce(c)
    BY <2>3 DEF Process, Capture, Complete, Announce
  <2>4. CASE Fail(c) \/ Throw(c)
    BY <2>4 DEF Fail, Throw, Caught
  <2> QED
    BY <1>1, <2>1, <2>2, <2>3, <2>4 DEF CallerStep
<1>2. ASSUME NEW c \in Callers, CallerStep(c) \/ Throw(c)
      PROVE  batch' = batch /\ \A a \in Refunds \cup Cancels \cup Sweeps : pc'[a] = pc[a]
  <2>1. CASE Lookup(c) \/ Screen(c) \/ Create(c) \/ Route(c)
    BY <2>1 DEF Lookup, Screen, Create, Route
  <2>2. CASE ProviderAuthorize(c) \/ AnswerToCaller(c) \/ Authorize(c) \/ Process(c)
    BY <2>2 DEF ProviderAuthorize, AnswerToCaller, Answer, Authorize, Process
  <2>3. CASE Capture(c) \/ Complete(c) \/ Announce(c) \/ Fail(c) \/ Throw(c)
    BY <2>3 DEF Capture, Complete, Announce, Fail, Throw
  <2> QED
    BY <1>2, <2>1, <2>2, <2>3 DEF CallerStep
<1>3. ASSUME NEW q \in Payments, CreateRequest(q)
      PROVE  AtRest(p)'
  BY <1>0, <1>3 DEF CreateRequest, AtRest
<1> QED
  BY <1>0, <1>1, <1>2, <1>3 DEF CallerNext, AtRest, RouterAtRest

\* The handlers of cancels, refunds and batches read the row before they write it.
LEMMA OthersLeaveRest ==
  ASSUME ShapeInv, NEW p \in Payments, AtRest(p), CancelNext \/ RefundNext \/ LedgerNext
  PROVE  AtRest(p)'
<1> USE DEF ShapeInv, At, Goto, Send, Write, CallersOf, RefundsOf, Calls, Actors
<1>0. status[p] \notin Cancellable \cup Refundable
  BY TerminalStatuses DEF AtRest, Cancellable, Refundable
<1>1. CASE CancelNext
  <2>1. PICK x \in Cancels : ReadForCancel(x) \/ Cancel(x)
    BY <1>1 DEF CancelNext
  <2>2. /\ batch' = batch /\ \A a \in Calls \cup Sweeps : pc'[a] = pc[a]
        /\ \A y \in Cancels \ {x} : pc'[y] = pc[y]
    BY <2>1 DEF ReadForCancel, Cancel
  <2>3. /\ status'[p] = status[p]
        /\ PaymentOf[x] = p => pc'[x] # "write"
    BY <1>0, <2>1 DEF ReadForCancel, Cancel, AtRest
  <2> QED
    BY <2>2, <2>3 DEF AtRest
<1>2. CASE RefundNext
  <2>1. PICK r \in Refunds : RefundStep(r) \/ ThrowInRefund(r)
    BY <1>2 DEF RefundNext
  <2>2. /\ batch' = batch
        /\ \A a \in (Callers \cup Cancels \cup Sweeps) \cup (Refunds \ {r}) : pc'[a] = pc[a]
    BY <2>1 DEF RefundStep, ReadForRefund, OpenRefund, FindOwner, ProviderRefund,
                AnswerToRefund, Answer, UndoRefund, CloseRefund, MarkRefunded, ThrowInRefund
  <2>3. CASE PaymentOf[r] = p
    <3>1. pc[r] \in RefundEnds \cup {"read"}
      BY <2>3 DEF AtRest
    <3>2. ReadForRefund(r)
      BY <2>1, <3>1 DEF RefundStep, OpenRefund, FindOwner, ProviderRefund, RefundEnds,
                AnswerToRefund, Answer, UndoRefund, CloseRefund, MarkRefunded, ThrowInRefund
    <3>3. status' = status /\ pc'[r] = "refused"
      BY <1>0, <2>3, <3>2 DEF ReadForRefund
    <3> QED
      BY <2>2, <3>3 DEF AtRest, RefundEnds
  <2>4. CASE PaymentOf[r] # p
    <3>1. status'[p] = status[p]
      BY <2>1, <2>4 DEF RefundStep, ReadForRefund, OpenRefund, FindOwner, ProviderRefund,
                AnswerToRefund, Answer, UndoRefund, CloseRefund, MarkRefunded, ThrowInRefund
    <3> QED
      BY <2>2, <2>4, <3>1 DEF AtRest
  <2> QED
    BY <2>3, <2>4
<1>3. CASE LedgerNext
  <2>1. /\ UNCHANGED <<status, batch>>
        /\ \A b \in Actors : pc'[b] = pc[b] \/ (b \in Calls /\ pc'[b] = "crashed")
    BY <1>3 DEF LedgerNext, Serve, Crash
  <2> QED
    BY <2>1 DEF AtRest, CallerEnds, RefundEnds
<1> QED
  BY <1>1, <1>2, <1>3

\* A batch drawn up later does not list it as settlable, and one drawn up before
\* writes only what its copy says is settlable.
LEMMA SweepsLeaveRest ==
  ASSUME ShapeInv, SweepInv, NEW p \in Payments, AtRest(p), SweepNext
  PROVE  AtRest(p)'
<1> USE DEF ShapeInv, At, Goto
<1>0. status[p] \notin Settlable
  BY TerminalStatuses DEF AtRest, Settlable
<1>1. PICK s \in Sweeps : \/ RunScheduled(s) \/ RunManual(s) \/ SettleStep(s)
                          \/ ThrowInSettlement(s) \/ AbandonBatch(s)
  BY DEF SweepNext
<1>2. /\ \A a \in Calls \cup Cancels : pc'[a] = pc[a]
      /\ \A t \in Sweeps \ {s} : pc'[t] = pc[t] /\ batch'[t] = batch[t]
  <2>1. \A a \in Calls : pc'[a] = pc[a]
    BY SweepFrame
  <2>2. \A x \in Cancels : pc'[x] = pc[x]
    <3>1. (\E l : Goto(s, l)) \/ pc' = pc
      BY <1>1 DEF RunScheduled, RunManual, OpenBatch, SettleStep, Pick, StartSettlement,
                MarkProcessing, MarkSettled, CloseSettlement, MarkCompleted, CloseBatch,
                ThrowInSettlement, AbandonBatch
    <3> QED
      BY <3>1 DEF Calls, Actors
  <2>3. \A t \in Sweeps \ {s} : pc'[t] = pc[t] /\ batch'[t] = batch[t]
    BY <1>1 DEF RunScheduled, RunManual, OpenBatch, SettleStep, Pick, StartSettlement,
                MarkProcessing, MarkSettled, CloseSettlement, MarkCompleted, CloseBatch,
                ThrowInSettlement, AbandonBatch, Actors, Set, SetRow
  <2> QED
    BY <2>1, <2>2, <2>3
<1>3. /\ status'[p] = status[p]
      /\ pc'[s] # "idle" => batch'[s].copy[p] \notin Settlable
  <2>1. CASE RunScheduled(s) \/ RunManual(s)
    <3>1. PICK L : OpenBatch(s, L)
      BY <2>1 DEF RunScheduled, RunManual
    <3>2. batch'[s].copy = [q \in Payments |-> IF q \in L THEN status[q] ELSE "none"]
      BY <3>1 DEF OpenBatch, NoBatch
    <3>3. batch'[s].copy[p] \in {status[p], "none"}
      BY <3>2
    <3> QED
      BY <1>0, <3>1, <3>3 DEF OpenBatch, Settlable
  <2>2. CASE ~ (RunScheduled(s) \/ RunManual(s))
    <3>1. pc[s] # "idle" \/ pc'[s] = "idle"
      BY <1>1, <2>2 DEF SettleStep, Pick, StartSettlement, MarkProcessing, MarkSettled,
                CloseSettlement, MarkCompleted, CloseBatch, ThrowInSettlement, AbandonBatch
    <3>2. batch'[s].copy = batch[s].copy
      <4>1. ASSUME Pick(s) PROVE batch'[s].copy = batch[s].copy
        <5>1. PICK q : \/ Set(s, [batch[s] EXCEPT !.at = q, !.todo = @ \ {q}, !.row[q] = "PENDING"])
                       \/ Set(s, [batch[s] EXCEPT !.todo = @ \ {q}, !.failed = TRUE])
          BY <4>1, Zenon DEF Pick
        <5>2. CASE Set(s, [batch[s] EXCEPT !.at = q, !.todo = @ \ {q}, !.row[q] = "PENDING"])
          BY <5>2 DEF Set
        <5>3. CASE Set(s, [batch[s] EXCEPT !.todo = @ \ {q}, !.failed = TRUE])
          BY <5>3 DEF Set
        <5> QED
          BY <5>1, <5>2, <5>3
      <4>2. ASSUME StartSettlement(s) \/ CloseSettlement(s)
            PROVE  batch'[s].copy = batch[s].copy
        BY <4>2 DEF StartSettlement, CloseSettlement, Set, SetRow
      <4>3. ASSUME CloseBatch(s) \/ ThrowInSettlement(s) \/ MarkCompleted(s)
            PROVE  batch'[s].copy = batch[s].copy
        BY <4>3 DEF CloseBatch, ThrowInSettlement, MarkCompleted, Set
      <4>4. ASSUME MarkProcessing(s) \/ MarkSettled(s) \/ AbandonBatch(s)
            PROVE  batch'[s].copy = batch[s].copy
        BY <4>4 DEF MarkProcessing, MarkSettled, AbandonBatch
      <4> QED
        BY <1>1, <2>2, <4>1, <4>2, <4>3, <4>4 DEF SettleStep
    <3>3. CASE MarkProcessing(s) \/ MarkSettled(s) \/ MarkCompleted(s)
      <4>1. /\ pc[s] \in InSettlement
            /\ \E st : status' = [status EXCEPT ![Settling(s)] = st]
        BY <3>3 DEF MarkProcessing, MarkSettled, MarkCompleted, InSettlement, Write
      <4>2. batch[s].copy[Settling(s)] \in Settlable /\ batch[s].copy[p] \notin Settlable
        BY <4>1 DEF SweepInv, AtRest, InSettlement
      <4> QED
        BY <3>2, <4>1, <4>2
    <3>4. CASE ~ (MarkProcessing(s) \/ MarkSettled(s) \/ MarkCompleted(s))
      <4>1. status' = status
        BY <1>1, <2>2, <3>4 DEF SettleStep, Pick, StartSettlement, CloseSettlement,
                CloseBatch, ThrowInSettlement, AbandonBatch
      <4> QED
        BY <3>1, <3>2, <4>1 DEF AtRest
    <3> QED
      BY <3>3, <3>4
  <2> QED
    BY <2>1, <2>2
<1> QED
  BY <1>2, <1>3 DEF AtRest, CallersOf, RefundsOf, Calls

\* Where no handler that read the row before is still to write it, a terminal status
\* is final: only such a handler breaks the promise of the state machine.
THEOREM QuietTerminalStays == SafetySpec => QuietTerminalHolds
<1>1. IInv /\ [Next]_vars => [\A p \in Payments : AtRest(p) => AtRest(p)']_vars
  BY RoutersLeaveRest, OthersLeaveRest, SweepsLeaveRest DEF IInv, Next
<1> QED
  BY <1>1, Invariance, PTL DEF SafetySpec, QuietTerminalHolds

-----------------------------------------------------------------------------
(* Payments and the ledger. *)

\* Whatever the payment service does, the wallets see the promised ledger and
\* nothing else: requests cut off by a timer, served late, or left by a crash.
THEOREM PaymentsKeepPromise == SafetySpec => Ledger!PromiseSpec
<1>1. Init => Ledger!PromiseInit
  BY DEF Init
<1>2. [Next]_vars => [Ledger!PromiseNext]_(Ledger!promiseVars)
  <2>1. ASSUME NEW a \in Calls, Serve(a)
        PROVE  [Ledger!PromiseNext]_(Ledger!promiseVars)
    BY <2>1 DEF Serve, Ledger!PromiseNext, Ledger!promiseVars, ledgerVars
  <2>2. UNCHANGED ledgerVars => UNCHANGED Ledger!promiseVars
    BY DEF ledgerVars, Ledger!promiseVars
  <2> QED
    BY <2>1, <2>2, OnlyServePosts DEF vars, ledgerVars
<1> QED
  BY <1>1, <1>2, PTL DEF SafetySpec, Ledger!PromiseSpec

\* The theorems about the promise, for the calls of the payment service.
Facts == INSTANCE LedgerPromiseProofs WITH Ops <- Calls

\* It is the same promise: only the names of the instances differ.
LEMMA SamePromise ==
  /\ Ledger!PromiseInit => Facts!PromiseInit
  /\ [Ledger!PromiseNext]_(Ledger!promiseVars) => [Facts!PromiseNext]_(Facts!promiseVars)
  /\ Facts!MoneyConserved => Ledger!MoneyConserved
<1>1. \A p, mine : Facts!External(p, mine) = Ledger!External(p, mine)
  BY DEF Facts!External, Ledger!External
<1>2. \A w : Facts!SameAsset(w) = Ledger!SameAsset(w)
  BY DEF Facts!SameAsset, Ledger!SameAsset
<1>3. Facts!PostedOps = Ledger!PostedOps
  BY DEF Facts!PostedOps, Ledger!PostedOps, Facts!NoPosting, Ledger!NoPosting
<1>4. Ledger!PromiseInit => Facts!PromiseInit
  BY DEF Facts!PromiseInit, Ledger!PromiseInit, Facts!NoPosting, Ledger!NoPosting
<1>5. [Ledger!PromiseNext]_(Ledger!promiseVars) => [Facts!PromiseNext]_(Facts!promiseVars)
  <2>1. Facts!Postings = Ledger!Postings
    BY DEF Facts!Postings, Ledger!Postings
  <2>2. \A o, p : Facts!Post(o, p) <=> Ledger!Post(o, p)
    BY DEF Facts!Post, Ledger!Post, Facts!NoPosting, Ledger!NoPosting,
           Facts!Delta, Ledger!Delta
  <2> QED
    BY <2>1, <2>2 DEF Facts!PromiseNext, Ledger!PromiseNext, Facts!promiseVars,
       Ledger!promiseVars
<1>6. \A f, S : Facts!SumFunctionOnSet(f, S) = Ledger!SumFunctionOnSet(f, S)
  BY DEF Facts!SumFunctionOnSet, Facts!FoldFunctionOnSet, Facts!MapThenFoldSet,
         Ledger!SumFunctionOnSet, Ledger!FoldFunctionOnSet, Ledger!MapThenFoldSet
<1>7. Facts!MoneyConserved => Ledger!MoneyConserved
  <2>1. \A mine : [o \in Calls |-> Facts!External(posted[o], mine)] =
                  [o \in Calls |-> Ledger!External(posted[o], mine)]
    BY <1>1
  <2> DEFINE own(w) == Ledger!SameAsset(w)
             brought(w) == [o \in Calls |-> Ledger!External(posted[o], own(w))]
  <2>2. SUFFICES ASSUME Facts!MoneyConserved, NEW w \in Wallets
                 PROVE  Ledger!SumFunctionOnSet(balance, own(w)) =
                          Ledger!SumFunctionOnSet(Opening, own(w))
                            + Ledger!SumFunctionOnSet(brought(w), Ledger!PostedOps)
    BY Zenon DEF Ledger!MoneyConserved
  <2>3. Facts!SumFunctionOnSet(balance, Facts!SameAsset(w)) =
          Facts!SumFunctionOnSet(Opening, Facts!SameAsset(w))
            + Facts!SumFunctionOnSet(
                [o \in Calls |-> Facts!External(posted[o], Facts!SameAsset(w))],
                Facts!PostedOps)
    BY <2>2, Zenon DEF Facts!MoneyConserved
  <2>4. /\ Facts!SameAsset(w) = own(w)
        /\ [o \in Calls |-> Facts!External(posted[o], own(w))] = brought(w)
    BY <1>2, <2>1
  <2> HIDE DEF own, brought
  <2>5. Facts!SumFunctionOnSet(balance, own(w)) =
          Facts!SumFunctionOnSet(Opening, own(w))
            + Facts!SumFunctionOnSet(brought(w), Facts!PostedOps)
    BY <2>3, <2>4
  <2> QED
    BY <1>3, <1>6, <2>5
<1> QED
  BY <1>4, <1>5, <1>7

\* Payments, their retries, refunds and crashes conserve the money in the wallets:
\* what an asset's wallets hold is what they opened with, plus the deposits and
\* minus the withdrawals that were posted.
THEOREM PaymentsConserveMoney ==
  ASSUME IsFiniteSet(Wallets)
  PROVE  SafetySpec => []Ledger!MoneyConserved
<1>1. Facts!Sensible
  BY WalletAssumption, AmountAssumption
     DEF Facts!Sensible, Facts!IsFiniteSet, IsFiniteSet
<1>2. Facts!PromiseSpec => []Facts!MoneyConserved
  BY <1>1, Facts!PromiseConserves
<1> QED
  BY <1>2, SamePromise, PaymentsKeepPromise, PTL DEF Ledger!PromiseSpec, Facts!PromiseSpec

=============================================================================
