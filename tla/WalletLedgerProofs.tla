------------------------- MODULE WalletLedgerProofs -------------------------
(***************************************************************************)
(* Proofs about WalletLedger for any wallets, operations and amounts.  IInv *)
(* is inductive; type correctness and the ledger's safety invariants follow *)
(* from it, and so does the implementation of LedgerPromise.               *)
(***************************************************************************)
EXTENDS WalletLedger, FiniteSetTheorems, TLAPS

USE OpeningAssumption, AmountsAssumption, NoWalletAssumption, NoOpAssumption

-----------------------------------------------------------------------------
(* Where an operation is. *)

\* The shape of Legs: one wallet or two, the debited one first.
LEMMA LegsShape ==
  ASSUME NEW r \in Requests
  PROVE  /\ r.from = NoWallet => Legs(r) = <<r.to>> /\ r.to \in Wallets
         /\ r.to = NoWallet => Legs(r) = <<r.from>> /\ r.from \in Wallets
         /\ r.from # NoWallet /\ r.to # NoWallet =>
              Legs(r) = <<r.from, r.to>> /\ r.from \in Wallets /\ r.to \in Wallets
BY DEF Requests, Legs

\* Whatever an operation asks, its amount is a number.
LEMMA AmountIsNat ==
  ASSUME TypeOK, NEW o \in Ops
  PROVE  req[o].amount \in Nat
<1>1. CASE req[o] \in Requests
  <2>1. req[o].amount \in Amounts
    BY <1>1 DEF Requests
  <2> QED
    BY <2>1
<1>2. CASE req[o] = NoRequest
  BY <1>2 DEF NoRequest
<1> QED
  BY <1>1, <1>2 DEF TypeOK

\* The wallet an operation is at is a wallet it names, and its last leg is
\* reached after every wallet it names.
LEMMA HereFacts ==
  ASSUME TypeOK, ControlInv, NEW o \in Ops, pc[o] \notin {"idle", "rejected"}
  PROVE  /\ Here(o) \in Wallets
         /\ Here(o) \in Touched(o)
         /\ leg[o] = 2 => /\ AtLastLeg(o) /\ Here(o) = req[o].to
                          /\ Touched(o) = {req[o].from, Here(o)}
         /\ leg[o] = 1 /\ AtLastLeg(o) => Touched(o) = {Here(o)}
         /\ ~ AtLastLeg(o) => /\ leg[o] = 1 /\ Here(o) = req[o].from
                              /\ {req[o].from, req[o].to} \subseteq Wallets
<1> DEFINE r == req[o]
<1>1. r \in Requests /\ r.from # r.to /\ leg[o] \in {1, 2}
  BY DEF TypeOK, ControlInv
<1>2. CASE r.from = NoWallet
  <2>1. Legs(r) = <<r.to>> /\ r.to \in Wallets
    BY <1>1, <1>2, LegsShape
  <2>2. leg[o] = 1
    BY <1>1, <1>2 DEF ControlInv
  <2> QED
    BY <1>1, <1>2, <2>1, <2>2 DEF Here, AtLastLeg, Touched
<1>3. CASE r.to = NoWallet
  <2>1. Legs(r) = <<r.from>> /\ r.from \in Wallets
    BY <1>1, <1>3, LegsShape
  <2>2. leg[o] = 1
    BY <1>1, <1>3 DEF ControlInv
  <2> QED
    BY <1>1, <1>3, <2>1, <2>2 DEF Here, AtLastLeg, Touched
<1>4. CASE r.from # NoWallet /\ r.to # NoWallet
  <2>1. Legs(r) = <<r.from, r.to>> /\ r.from \in Wallets /\ r.to \in Wallets
    BY <1>1, <1>4, LegsShape
  <2> QED
    BY <1>1, <2>1 DEF Here, AtLastLeg, Touched
<1> QED
  BY <1>2, <1>3, <1>4

-----------------------------------------------------------------------------
(* What a step that posts nothing keeps. *)

\* The ledger invariant speaks of the committed rows and of nothing else.
LEMMA LedgerFrame ==
  ASSUME BalanceIsLedger, UNCHANGED <<balance, version, ledger>>
  PROVE  BalanceIsLedger'
BY DEF BalanceIsLedger, BalanceBefore

\* So does what is posted, as long as posted operations keep their request.
LEMMA PostedFrame ==
  ASSUME UNCHANGED ledger, WholeOrNothing,
         \A p \in Ops : Posted(p) => req'[p] = req[p]
  PROVE  /\ WholeOrNothing'
         /\ \A p \in Ops : Posted(p)' <=> Posted(p)
<1>1. \A p \in Ops : Posted(p)' <=> Posted(p)
  BY DEF Posted, PostedAt
<1>2. \A p \in Ops, w \in Wallets : PostedAt(p, w)' = PostedAt(p, w)
  BY DEF PostedAt
<1> QED
  BY <1>1, <1>2 DEF WholeOrNothing, Touched, Entry, Debits

-----------------------------------------------------------------------------
(* The inductive invariant holds at the start. *)

\* The initial state satisfies the inductive invariant.
LEMMA InitIInv == Init => IInv
<1> SUFFICES ASSUME Init PROVE IInv
  OBVIOUS
<1> DEFINE first(w) == [op |-> NoOp, type |-> "CREDIT",
                        amount |-> Opening[w], after |-> Opening[w]]
<1>0. \A w \in Wallets :
        /\ Opening[w] \in Nat
        /\ Opening[w] = 0 => ledger[w] = << >> /\ version[w] = 0
        /\ Opening[w] # 0 => ledger[w] = <<first(w)>> /\ version[w] = 1
  BY DEF Init
<1>a. \A w \in Wallets : ledger[w] \in Seq(Entries)
  <2> TAKE w \in Wallets
  <2>1. first(w) \in Entries
    BY <1>0 DEF Entries
  <2>2. CASE Opening[w] = 0
    <3>1. ledger[w] = << >>
      BY <1>0, <2>2
    <3> QED
      BY <3>1
  <2>3. CASE Opening[w] # 0
    <3>1. ledger[w] = <<first(w)>>
      BY <1>0, <2>3
    <3> QED
      BY <2>1, <3>1
  <2> QED
    BY <2>2, <2>3
<1>1. TypeOK
  <2>1. ledger \in [Wallets -> Seq(Entries)]
    BY <1>a DEF Init
  <2>2. balance \in [Wallets -> Nat] /\ version \in [Wallets -> Nat]
    BY DEF Init
  <2>3. NoRequest \in Requests \cup {NoRequest}
    OBVIOUS
  <2> QED
    BY <2>1, <2>2, <2>3 DEF Init, TypeOK, PCs, InTransaction, Ended
<1>2. ControlInv
  BY DEF Init, ControlInv, NoRequest, InTransaction
<1>3. LockInv
  BY DEF Init, LockInv, Locked
<1>4. SnapInv
  BY DEF Init, SnapInv
<1>5. DirtyInv
  BY DEF Init, DirtyInv
<1>6. BalanceIsLedger
  <2> SUFFICES ASSUME NEW w \in Wallets
               PROVE  /\ version[w] = Len(ledger[w])
                      /\ balance[w] = BalanceBefore(w, Len(ledger[w]) + 1)
                      /\ \A i \in 1..Len(ledger[w]) :
                           ledger[w][i].after = BalanceBefore(w, i) + Effect(ledger[w][i])
    BY DEF BalanceIsLedger
  <2>1. balance[w] = Opening[w]
    BY DEF Init
  <2>2. CASE Opening[w] = 0
    <3>1. ledger[w] = << >> /\ version[w] = 0
      BY <1>0, <2>2
    <3> QED
      BY <2>1, <2>2, <3>1 DEF BalanceBefore
  <2>3. CASE Opening[w] # 0
    <3>0. ledger[w] = <<first(w)>> /\ version[w] = 1
      BY <1>0, <2>3
    <3>1. Len(ledger[w]) = 1 /\ ledger[w][1] = first(w)
      BY <3>0
    <3>2. Effect(first(w)) = Opening[w] /\ first(w).after = Opening[w]
      BY DEF Effect
    <3> HIDE DEF first
    <3> QED
      BY <1>0, <2>1, <2>3, <3>0, <3>1, <3>2 DEF BalanceBefore
  <2> QED
    BY <2>2, <2>3
<1>7. \A p \in Ops : ~ Posted(p)
  <2>1. \A w \in Wallets : \A i \in 1..Len(ledger[w]) : ledger[w][i].op = NoOp
    <3> TAKE w \in Wallets
    <3>1. CASE Opening[w] = 0
      <4>1. ledger[w] = << >>
        BY <1>0, <3>1
      <4> QED
        BY <4>1
    <3>2. CASE Opening[w] # 0
      <4>0. ledger[w] = <<first(w)>>
        BY <1>0, <3>2
      <4>1. Len(ledger[w]) = 1 /\ ledger[w][1] = first(w)
        BY <4>0
      <4>2. first(w).op = NoOp
        OBVIOUS
      <4> HIDE DEF first
      <4> QED
        BY <4>1, <4>2
    <3> QED
      BY <3>1, <3>2
  <2> QED
    BY <2>1 DEF Posted, PostedAt
<1> QED
  BY <1>1, <1>2, <1>3, <1>4, <1>5, <1>6, <1>7 DEF IInv, UnpostedInv, WholeOrNothing

-----------------------------------------------------------------------------
(* Each action keeps the inductive invariant. *)

\* A step of o that touches neither the committed rows nor o's request, and
\* that does not take o back from after its commit.
LEMMA QuietStep ==
  ASSUME IInv, UNCHANGED <<balance, version, ledger, req>>,
         NEW o \in Ops, NEW to, pc' = [pc EXCEPT ![o] = to],
         pc[o] \in {"complete", "done", "crashed"} => to \in {"complete", "done", "crashed"}
  PROVE  BalanceIsLedger' /\ WholeOrNothing' /\ UnpostedInv'
<1>1. BalanceIsLedger'
  BY LedgerFrame DEF IInv
<1>2. WholeOrNothing' /\ \A p \in Ops : Posted(p)' <=> Posted(p)
  BY PostedFrame DEF IInv
<1>3. UnpostedInv'
  BY <1>2 DEF IInv, TypeOK, UnpostedInv
<1> QED
  BY <1>1, <1>2, <1>3

\* Starting a request.
LEMMA BeginKeeps ==
  ASSUME IInv, NEW o \in Ops, Begin(o)
  PROVE  IInv'
<1> USE DEF IInv
<1>1. PICK r \in Requests :
        /\ req' = [req EXCEPT ![o] = r]
        /\ pc' = [pc EXCEPT ![o] = IF r.from = r.to THEN "rejected" ELSE "load"]
  BY DEF Begin, Goto
<1>2. /\ pc[o] = "idle" /\ ~ Posted(o)
      /\ UNCHANGED <<operational, balance, version, ledger, txStatus, rowLock, dirty, leg, snap>>
  BY DEF Begin, UnpostedInv, dbVars, openVars
<1>3. /\ req'[o] = r /\ pc'[o] \in {"rejected", "load"}
      /\ pc'[o] = "load" => r.from # r.to
      /\ \A p \in Ops \ {o} : req'[p] = req[p] /\ pc'[p] = pc[p]
      /\ \A p \in Ops : leg'[p] = leg[p] /\ snap'[p] = snap[p]
  BY <1>1, <1>2 DEF TypeOK
<1>4. leg[o] = 1 /\ Locked(o) = {}
  BY <1>2 DEF TypeOK, ControlInv, LockInv
<1>5. TypeOK'
  BY <1>1, <1>2 DEF TypeOK, PCs, Ended
<1>6. ControlInv'
  BY <1>3, <1>4 DEF ControlInv, InTransaction
<1>7. LockInv'
  <2> SUFFICES ASSUME NEW p \in Ops
               PROVE  Locked(p)' = CASE pc'[p] = "commit" -> Touched(p)'
                                     [] pc'[p] \in {"read", "write"} /\ leg'[p] = 2 -> {req'[p].from}
                                     [] OTHER -> {}
    BY DEF LockInv
  <2>1. Locked(p)' = Locked(p)
    BY <1>2 DEF Locked
  <2>2. CASE p = o
    BY <1>3, <1>4, <2>1, <2>2
  <2>3. CASE p # o
    BY <1>3, <2>1, <2>3 DEF LockInv, Touched
  <2> QED
    BY <2>2, <2>3
<1>8. SnapInv'
  BY <1>2, <1>3 DEF SnapInv, Debits, Here
<1>9. DirtyInv'
  <2> SUFFICES ASSUME NEW w \in Wallets, rowLock[w] \in Ops
               PROVE  dirty[w] = After(rowLock[w], w, balance[w])'
    BY <1>2 DEF DirtyInv
  <2>1. rowLock[w] # o
    BY <1>4 DEF Locked
  <2> QED
    BY <1>2, <1>3, <2>1 DEF DirtyInv, After, Debits
<1>10. BalanceIsLedger'
  BY <1>2, LedgerFrame
<1>11. WholeOrNothing' /\ \A p \in Ops : Posted(p)' <=> Posted(p)
  BY <1>2, <1>3, PostedFrame
<1>12. UnpostedInv'
  BY <1>2, <1>3, <1>11 DEF UnpostedInv
<1> QED
  BY <1>5, <1>6, <1>7, <1>8, <1>9, <1>10, <1>11, <1>12

\* A step of o outside the database transaction leaves locks and rows alone.
LEMMA OutsideKeeps ==
  ASSUME IInv, NEW o \in Ops,
         UNCHANGED <<balance, version, rowLock, dirty, req, snap>>,
         \A p \in Ops \ {o} : pc'[p] = pc[p] /\ leg'[p] = leg[p],
         pc[o] \notin InTransaction, pc'[o] \notin {"write", "commit"},
         pc'[o] = "read" => leg'[o] = 1
  PROVE  LockInv' /\ SnapInv' /\ DirtyInv'
<1> USE DEF IInv
<1>1. \A p \in Ops \ {o} : pc'[p] = pc[p] /\ leg'[p] = leg[p]
  OBVIOUS
<1>2. LockInv'
  <2> SUFFICES ASSUME NEW p \in Ops
               PROVE  Locked(p)' = CASE pc'[p] = "commit" -> Touched(p)'
                                     [] pc'[p] \in {"read", "write"} /\ leg'[p] = 2 -> {req'[p].from}
                                     [] OTHER -> {}
    BY DEF LockInv
  <2>1. Locked(p)' = Locked(p) /\ Touched(p)' = Touched(p)
    BY DEF Locked, Touched
  <2>2. CASE p = o
    <3>1. Locked(o) = {}
      BY DEF LockInv, InTransaction
    <3> QED
      BY <1>1, <2>1, <2>2, <3>1
  <2>3. CASE p # o
    BY <1>1, <2>1, <2>3 DEF LockInv
  <2> QED
    BY <2>2, <2>3
<1>3. SnapInv'
  BY <1>1 DEF SnapInv, Debits, Here
<1>4. DirtyInv'
  BY DEF DirtyInv, After, Debits
<1> QED
  BY <1>2, <1>3, <1>4

\* Loading and checking a wallet.
LEMMA LoadKeeps ==
  ASSUME IInv, NEW o \in Ops, Load(o)
  PROVE  IInv'
<1> USE DEF IInv
<1>1. PICK to \in {"record", "load", "rejected"}, l \in {1, 2} :
        /\ pc' = [pc EXCEPT ![o] = to] /\ leg' = [leg EXCEPT ![o] = l]
        /\ to = "record" => AtLastLeg(o) /\ l = 1
        /\ to # "rejected" => Acceptable(o)
        /\ to = "load" => ~ AtLastLeg(o)
        /\ to = "rejected" => l = leg[o]
  <2>1. CASE Acceptable(o)
    BY <2>1 DEF Load, Goto
  <2>2. CASE ~ Acceptable(o)
    <3>1. leg' = [leg EXCEPT ![o] = leg[o]] /\ leg[o] \in {1, 2}
      BY <2>2 DEF Load, TypeOK
    <3> QED
      BY <2>2, <3>1 DEF Load, Goto
  <2> QED
    BY <2>1, <2>2
<1>2. pc[o] = "load" /\ UNCHANGED <<operational, balance, version, ledger, txStatus,
                                   rowLock, dirty, req, snap>>
  BY DEF Load, dbVars, openVars
<1>3. TypeOK'
  BY <1>1, <1>2 DEF TypeOK, PCs, Ended
<1>4. ControlInv'
  <2>1. to = "load" => {req[o].from, req[o].to} \subseteq Wallets
    BY <1>1, <1>2, HereFacts
  <2>2. to = "rejected" /\ l = 2 => {req[o].from, req[o].to} \subseteq Wallets
    BY <1>1, <1>2 DEF ControlInv
  <2>3. to = "record" => /\ req[o].amount > 0
                         /\ {req[o].from, req[o].to} \subseteq Wallets =>
                              AssetOf[req[o].from] = AssetOf[req[o].to]
    BY <1>1 DEF Acceptable
  <2>4. /\ pc'[o] = to /\ leg'[o] = l
        /\ \A p \in Ops \ {o} : pc'[p] = pc[p] /\ leg'[p] = leg[p]
    BY <1>1 DEF TypeOK
  <2> QED
    BY <1>1, <1>2, <2>1, <2>2, <2>3, <2>4 DEF ControlInv, InTransaction
<1>5. LockInv' /\ SnapInv' /\ DirtyInv'
  <2>1. /\ pc[o] \notin InTransaction /\ pc'[o] \notin {"write", "commit"}
        /\ pc'[o] = "read" => leg'[o] = 1
        /\ \A p \in Ops \ {o} : pc'[p] = pc[p] /\ leg'[p] = leg[p]
    BY <1>1, <1>2 DEF TypeOK, InTransaction
  <2> QED
    BY <1>1, <1>2, <2>1, OutsideKeeps
<1>6. BalanceIsLedger' /\ WholeOrNothing' /\ UnpostedInv'
  BY <1>1, <1>2, QuietStep
<1> QED
  BY <1>3, <1>4, <1>5, <1>6

\* Recording the wallet transaction as PENDING.
LEMMA CreateTransactionKeeps ==
  ASSUME IInv, NEW o \in Ops, CreateTransaction(o)
  PROVE  IInv'
<1> USE DEF IInv
<1>1. /\ pc[o] = "record" /\ pc' = [pc EXCEPT ![o] = "read"]
      /\ UNCHANGED <<operational, balance, version, ledger, rowLock, dirty, leg, req, snap>>
      /\ txStatus' = [txStatus EXCEPT ![o] = "PENDING"]
  BY DEF CreateTransaction, Goto, openVars
<1>2. leg[o] = 1 /\ leg' = [leg EXCEPT ![o] = 1]
  BY <1>1 DEF ControlInv, TypeOK
<1>3. TypeOK'
  BY <1>1 DEF TypeOK, PCs, InTransaction
<1>4. ControlInv'
  BY <1>1 DEF ControlInv, InTransaction, TypeOK
<1>5. LockInv' /\ SnapInv' /\ DirtyInv'
  <2>1. /\ pc[o] \notin InTransaction /\ pc'[o] \notin {"write", "commit"}
        /\ pc'[o] = "read" => leg'[o] = 1
        /\ \A p \in Ops \ {o} : pc'[p] = pc[p] /\ leg'[p] = leg[p]
    BY <1>1, <1>2 DEF TypeOK, InTransaction
  <2> QED
    BY <1>1, <1>2, <2>1, OutsideKeeps
<1>6. BalanceIsLedger' /\ WholeOrNothing' /\ UnpostedInv'
  BY <1>1, QuietStep
<1> QED
  BY <1>3, <1>4, <1>5, <1>6

\* Marking it COMPLETED.
LEMMA CompleteTransactionKeeps ==
  ASSUME IInv, NEW o \in Ops, CompleteTransaction(o)
  PROVE  IInv'
<1> USE DEF IInv
<1>1. /\ pc[o] = "complete" /\ pc' = [pc EXCEPT ![o] = "done"]
      /\ UNCHANGED <<operational, balance, version, ledger, rowLock, dirty, leg, req, snap>>
      /\ txStatus' = [txStatus EXCEPT ![o] = "COMPLETED"]
  BY DEF CompleteTransaction, Goto, openVars
<1>2. leg' = [leg EXCEPT ![o] = leg[o]]
  BY <1>1 DEF TypeOK
<1>3. TypeOK'
  BY <1>1 DEF TypeOK, PCs, Ended
<1>4. ControlInv'
  BY <1>1 DEF ControlInv, InTransaction, TypeOK
<1>5. LockInv' /\ SnapInv' /\ DirtyInv'
  <2>1. /\ pc[o] \notin InTransaction /\ pc'[o] \notin {"write", "commit"}
        /\ pc'[o] = "read" => leg'[o] = 1
        /\ \A p \in Ops \ {o} : pc'[p] = pc[p] /\ leg'[p] = leg[p]
    BY <1>1, <1>2 DEF TypeOK, InTransaction
  <2> QED
    BY <1>1, <1>2, <2>1, OutsideKeeps
<1>6. BalanceIsLedger' /\ WholeOrNothing' /\ UnpostedInv'
  BY <1>1, QuietStep
<1> QED
  BY <1>3, <1>4, <1>5, <1>6

\* What is aborted to break a deadlock stands at an update.
LEMMA VictimWaits == \A o \in Ops : BreakDeadlock(o) => pc[o] = "write"
<1> SUFFICES ASSUME NEW o \in Ops, NEW S \in SUBSET Ops, o \in S, Deadlocked(S)
             PROVE  pc[o] = "write"
  BY DEF BreakDeadlock
<1>1. PICK p \in S : Awaits(o, p)
  BY DEF Deadlocked
<1> QED
  BY <1>1 DEF Awaits, Waiting

\* Ending without a commit: a refused debit, a lost race for a row, a timeout,
\* a deadlock, a crash.
LEMMA AbortKeeps ==
  ASSUME IInv, NEW o \in Ops, NEW to \in {"failed", "crashed"},
         pc[o] \notin {"idle", "rejected", "failed", "done", "crashed"},
         to = "failed" => pc[o] # "complete",
         pc' = [pc EXCEPT ![o] = to], Release(o),
         UNCHANGED <<operational, balance, version, ledger, txStatus, dirty, leg, req>>,
         NEW s \in [balance : Nat, version : Nat], snap' = [snap EXCEPT ![o] = s]
  PROVE  IInv'
<1> USE DEF IInv
<1>1. /\ pc'[o] = to
      /\ \A p \in Ops \ {o} : pc'[p] = pc[p] /\ snap'[p] = snap[p]
  BY DEF TypeOK
<1>2. TypeOK'
  BY DEF TypeOK, PCs, Ended, Release
<1>3. ControlInv'
  BY <1>1 DEF ControlInv, InTransaction
<1>4. LockInv'
  <2>1. Locked(o)' = {}
    BY NoOpAssumption DEF Locked, Release, TypeOK
  <2>2. \A p \in Ops \ {o} : Locked(p)' = Locked(p) /\ Touched(p)' = Touched(p)
    BY NoOpAssumption DEF Locked, Touched, Release, TypeOK
  <2> QED
    BY <1>1, <2>1, <2>2 DEF LockInv
<1>5. SnapInv'
  BY <1>1 DEF SnapInv, Debits, Here
<1>6. DirtyInv'
  BY NoOpAssumption DEF DirtyInv, After, Debits, Release, TypeOK
<1>7. BalanceIsLedger' /\ WholeOrNothing' /\ UnpostedInv'
  BY <1>1, QuietStep
<1> QED
  BY <1>2, <1>3, <1>4, <1>5, <1>6, <1>7

\* Reading the balance row of a leg.
LEMMA ReadBalanceKeeps ==
  ASSUME IInv, NEW o \in Ops, ReadBalance(o)
  PROVE  IInv'
<1> DEFINE h == Here(o)
           s == [balance |-> balance[h], version |-> version[h]]
<1> USE DEF IInv
<1>1. /\ pc[o] = "read" /\ snap' = [snap EXCEPT ![o] = s]
      /\ UNCHANGED <<operational, balance, version, ledger, txStatus, dirty, leg, req>>
  BY DEF ReadBalance, dbVars
<1>2. h \in Wallets
  BY <1>1, HereFacts
<1>3. s \in [balance : Nat, version : Nat]
  BY <1>2 DEF TypeOK
<1>4. CASE Debits(o, h) /\ balance[h] < req[o].amount
  <2>1. pc' = [pc EXCEPT ![o] = "failed"] /\ Release(o)
    BY <1>4 DEF ReadBalance, Goto
  <2> HIDE DEF s
  <2> QED
    BY <1>1, <1>3, <2>1, AbortKeeps
<1>5. CASE ~ (Debits(o, h) /\ balance[h] < req[o].amount)
  <2>1. pc' = [pc EXCEPT ![o] = "write"] /\ UNCHANGED rowLock
    BY <1>5 DEF ReadBalance, Goto
  <2>2. /\ pc'[o] = "write" /\ snap'[o] = s
        /\ \A p \in Ops \ {o} : pc'[p] = pc[p] /\ snap'[p] = snap[p]
    BY <1>1, <2>1 DEF TypeOK
  <2>3. TypeOK'
    BY <1>1, <1>3, <2>1 DEF TypeOK, PCs, InTransaction
  <2>4. ControlInv'
    BY <1>1, <2>1, <2>2 DEF ControlInv, InTransaction
  <2>5. LockInv'
    BY <1>1, <2>1, <2>2 DEF LockInv, Locked, Touched
  <2>6. SnapInv'
    <3>1. s.version = version[h] /\ s.balance = balance[h] /\ version[h] \in Nat /\ balance[h] \in Nat
      BY <1>2 DEF TypeOK
    <3>2. Debits(o, h) => s.balance >= req[o].amount
      <4>1. req[o].amount \in Nat
        BY AmountIsNat
      <4> QED
        BY <1>5, <3>1, <4>1
    <3>3. Here(o)' = h /\ (Debits(o, h)' <=> Debits(o, h))
      BY <1>1 DEF Here, Debits
    <3> HIDE DEF h, s
    <3> QED
      BY <1>1, <2>2, <3>1, <3>2, <3>3 DEF SnapInv, Debits, Here
  <2>7. DirtyInv'
    BY <1>1, <2>1 DEF DirtyInv, After, Debits
  <2>8. BalanceIsLedger' /\ WholeOrNothing' /\ UnpostedInv'
    BY <1>1, <2>1, QuietStep
  <2> QED
    BY <2>3, <2>4, <2>5, <2>6, <2>7, <2>8
<1> QED
  BY <1>4, <1>5

\* Updating the balance row of a leg, or losing the race for it.
LEMMA WriteBalanceKeeps ==
  ASSUME IInv, NEW o \in Ops, WriteBalance(o)
  PROVE  IInv'
<1> DEFINE h == Here(o)
           b == After(o, h, snap[o].balance)
<1> USE DEF IInv
<1>1. /\ pc[o] = "write" /\ rowLock[h] = NoOp
      /\ UNCHANGED <<operational, balance, version, ledger, txStatus, req, snap>>
  BY DEF WriteBalance, dbVars
<1>2. CASE ~ VersionUnchanged(o)
  <2>1. /\ pc' = [pc EXCEPT ![o] = "failed"] /\ Release(o) /\ UNCHANGED <<dirty, leg>>
    BY <1>2 DEF WriteBalance, Goto
  <2>2. snap' = [snap EXCEPT ![o] = snap[o]] /\ snap[o] \in [balance : Nat, version : Nat]
    BY <1>1 DEF TypeOK
  <2> QED
    BY <1>1, <2>1, <2>2, AbortKeeps
<1>3. CASE VersionUnchanged(o)
  <2>1. PICK to \in {"commit", "read"}, l \in {1, 2} :
          /\ pc' = [pc EXCEPT ![o] = to] /\ leg' = [leg EXCEPT ![o] = l]
          /\ AtLastLeg(o) => to = "commit" /\ l = 1
          /\ ~ AtLastLeg(o) => to = "read" /\ l = 2
    BY <1>3 DEF WriteBalance, Goto
  <2>2. /\ rowLock' = [rowLock EXCEPT ![h] = o] /\ dirty' = [dirty EXCEPT ![h] = b]
    BY <1>3 DEF WriteBalance
  <2>3. /\ h \in Wallets /\ h \in Touched(o)
        /\ leg[o] = 2 => AtLastLeg(o) /\ Touched(o) = {req[o].from, h}
        /\ leg[o] = 1 /\ AtLastLeg(o) => Touched(o) = {h}
        /\ ~ AtLastLeg(o) => /\ leg[o] = 1 /\ h = req[o].from
                             /\ {req[o].from, req[o].to} \subseteq Wallets
    BY <1>1, HereFacts
  <2>4. /\ pc'[o] = to /\ leg'[o] = l
        /\ \A p \in Ops \ {o} : pc'[p] = pc[p] /\ leg'[p] = leg[p]
    BY <2>1 DEF TypeOK
  <2>5. snap[o].balance = balance[h] /\ b = After(o, h, balance[h]) /\ b \in Nat
    <3>1. snap[o].balance = balance[h] /\ (Debits(o, h) => snap[o].balance >= req[o].amount)
      BY <1>1, <1>3 DEF SnapInv, VersionUnchanged
    <3>2. req[o].amount \in Nat /\ snap[o].balance \in Nat
      BY AmountIsNat DEF TypeOK
    <3> QED
      BY <3>1, <3>2 DEF After
  <2> HIDE DEF h, b
  <2>6. TypeOK'
    BY <1>1, <2>1, <2>2, <2>3, <2>5 DEF TypeOK, PCs, InTransaction
  <2>7. ControlInv'
    BY <1>1, <2>1, <2>3, <2>4 DEF ControlInv, InTransaction
  <2>8. LockInv'
    <3>1. Locked(o)' = Locked(o) \cup {h}
      BY <2>2, <2>3 DEF Locked, TypeOK
    <3>2. \A p \in Ops \ {o} : Locked(p)' = Locked(p)
      BY <1>1, <2>2, <2>3, NoOpAssumption DEF Locked, TypeOK
    <3>3. \A p \in Ops : Touched(p)' = Touched(p) /\ req'[p] = req[p]
      BY <1>1 DEF Touched
    <3>4. Locked(o) = IF leg[o] = 2 THEN {req[o].from} ELSE {}
      BY <1>1 DEF LockInv
    <3>5. leg[o] \in {1, 2}
      BY DEF TypeOK
    <3>6. to = "commit" => Locked(o)' = Touched(o)
      BY <2>1, <2>3, <3>1, <3>4, <3>5
    <3>7. to = "read" => l = 2 /\ Locked(o)' = {req[o].from}
      BY <2>1, <2>3, <3>1, <3>4, <3>5
    <3> QED
      BY <2>4, <3>2, <3>3, <3>6, <3>7 DEF LockInv
  <2>9. SnapInv'
    BY <1>1, <2>1, <2>4 DEF SnapInv, Debits, Here
  <2>10. DirtyInv'
    BY <1>1, <2>2, <2>3, <2>5 DEF DirtyInv, After, Debits, TypeOK
  <2>11. BalanceIsLedger' /\ WholeOrNothing' /\ UnpostedInv'
    BY <1>1, <2>1, QuietStep
  <2> QED
    BY <2>6, <2>7, <2>8, <2>9, <2>10, <2>11
<1> QED
  BY <1>2, <1>3

\* What a commit appends to a ledger: the entries before it stay as they are.
LEMMA AppendedEntries ==
  ASSUME NEW S, NEW s \in Seq(S), NEW e \in S
  PROVE  /\ Append(s, e) \in Seq(S)
         /\ Len(Append(s, e)) = Len(s) + 1
         /\ Append(s, e)[Len(s) + 1] = e
         /\ \A i \in 1..Len(s) : Append(s, e)[i] = s[i]
OBVIOUS

\* The commit moves each row the operation holds by its amount and appends
\* exactly one entry that says so.
LEMMA CommitFacts ==
  ASSUME IInv, NEW o \in Ops, Commit(o), NEW w \in Wallets
  PROVE  /\ w \in Touched(o) =>
              /\ balance'[w] = After(o, w, balance[w]) /\ balance'[w] \in Nat
              /\ version'[w] = version[w] + 1
              /\ Entry(o, w, balance'[w]) \in Entries
              /\ ledger'[w] = Append(ledger[w], Entry(o, w, balance'[w]))
         /\ w \notin Touched(o) =>
              balance'[w] = balance[w] /\ version'[w] = version[w] /\ ledger'[w] = ledger[w]
<1> USE DEF IInv
<1>1. Locked(o) = Touched(o)
  BY DEF Commit, LockInv
<1>2. CASE w \in Touched(o)
  <2>1. rowLock[w] = o /\ w \in Locked(o)
    BY <1>1, <1>2 DEF Locked
  <2>2. dirty[w] = After(o, w, balance[w]) /\ dirty[w] \in Nat
    BY <2>1 DEF DirtyInv, TypeOK
  <2>3. /\ balance'[w] = dirty[w] /\ version'[w] = version[w] + 1
        /\ ledger'[w] = Append(ledger[w], Entry(o, w, dirty[w]))
    BY <2>1 DEF Commit
  <2>4. Entry(o, w, dirty[w]) \in Entries
    BY <2>2, AmountIsNat DEF Entry, Entries
  <2> QED
    BY <1>2, <2>2, <2>3, <2>4
<1>3. CASE w \notin Touched(o)
  BY <1>1, <1>3 DEF Commit
<1> QED
  BY <1>2, <1>3

\* Committing keeps every wallet's balance the one its ledger adds up to.
LEMMA CommitKeepsLedger ==
  ASSUME IInv, NEW o \in Ops, Commit(o)
  PROVE  BalanceIsLedger'
<1> USE DEF IInv
<1> SUFFICES ASSUME NEW w \in Wallets
             PROVE  /\ version'[w] = Len(ledger'[w])
                    /\ balance'[w] = BalanceBefore(w, Len(ledger[w]) + 1)'
                    /\ \A i \in 1..Len(ledger'[w]) :
                         ledger'[w][i].after = BalanceBefore(w, i)' + Effect(ledger'[w][i])
  BY DEF BalanceIsLedger
<1>1. CASE w \notin Touched(o)
  <2>1. balance'[w] = balance[w] /\ version'[w] = version[w] /\ ledger'[w] = ledger[w]
    BY <1>1, CommitFacts
  <2> QED
    BY <2>1 DEF BalanceIsLedger, BalanceBefore
<1>2. CASE w \in Touched(o)
  <2> DEFINE n == Len(ledger[w])
             e == Entry(o, w, balance'[w])
  <2>1. /\ balance'[w] = After(o, w, balance[w]) /\ balance'[w] \in Nat
        /\ version'[w] = version[w] + 1
        /\ e \in Entries /\ ledger'[w] = Append(ledger[w], e)
    BY <1>2, CommitFacts
  <2>2. /\ n \in Nat /\ Len(ledger'[w]) = n + 1 /\ ledger'[w][n + 1] = e
        /\ \A i \in 1..n : ledger'[w][i] = ledger[w][i]
    <3>1. ledger[w] \in Seq(Entries)
      BY DEF TypeOK
    <3> HIDE DEF e
    <3> QED
      BY <2>1, <3>1, AppendedEntries
  <2>3. e.after = balance'[w] /\ balance'[w] = balance[w] + Effect(e) /\ balance[w] \in Nat
    <3>1. req[o].amount \in Nat /\ balance[w] \in Nat
      BY AmountIsNat DEF TypeOK
    <3> QED
      BY <2>1, <3>1 DEF Entry, Effect, After
  <2>4. version[w] = n /\ balance[w] = BalanceBefore(w, n + 1)
    BY DEF BalanceIsLedger
  <2> HIDE DEF n, e
  <2>5. \A i \in 1..n + 1 : BalanceBefore(w, i)' = BalanceBefore(w, i)
    BY <2>2 DEF BalanceBefore
  <2>6. BalanceBefore(w, Len(ledger[w]) + 1)' = balance'[w]
    BY <2>2, <2>3 DEF BalanceBefore
  <2>7. ASSUME NEW i \in 1..n + 1
        PROVE  ledger'[w][i].after = BalanceBefore(w, i)' + Effect(ledger'[w][i])
    <3>1. CASE i = n + 1
      BY <2>2, <2>3, <2>4, <2>5, <3>1
    <3>2. CASE i \in 1..n
      BY <2>2, <2>5, <3>2 DEF BalanceIsLedger, n
    <3> QED
      BY <2>2, <3>1, <3>2
  <2> QED
    BY <2>1, <2>2, <2>4, <2>6, <2>7
<1> QED
  BY <1>1, <1>2

\* Committing posts the whole of one operation and nothing of any other.
LEMMA CommitKeepsPosted ==
  ASSUME IInv, NEW o \in Ops, Commit(o)
  PROVE  /\ WholeOrNothing'
         /\ Posted(o)'
         /\ \A p \in Ops \ {o} : Posted(p)' <=> Posted(p)
<1> USE DEF IInv
<1>1. /\ pc[o] = "commit" /\ UNCHANGED req
  BY DEF Commit
<1>2. \A w \in Wallets : PostedAt(o, w) = {}
  BY <1>1 DEF UnpostedInv, Posted
<1> DEFINE e(w) == Entry(o, w, balance'[w])
           n(w) == Len(ledger[w])
<1>3. ASSUME NEW w \in Wallets, w \in Touched(o)
      PROVE  /\ n(w) \in Nat /\ Len(ledger'[w]) = n(w) + 1
             /\ ledger'[w][n(w) + 1] = e(w)
             /\ \A i \in 1..n(w) : ledger'[w][i] = ledger[w][i]
  <2>1. e(w) \in Entries /\ ledger'[w] = Append(ledger[w], e(w)) /\ ledger[w] \in Seq(Entries)
    BY <1>3, CommitFacts DEF TypeOK
  <2> HIDE DEF e
  <2> QED
    BY <2>1, AppendedEntries
<1>4. ASSUME NEW w \in Wallets, w \notin Touched(o)
      PROVE  ledger'[w] = ledger[w]
  BY <1>4, CommitFacts
<1>5. \A w \in Wallets : e(w).op = o /\ e(w) = Entry(o, w, e(w).after)
  BY DEF Entry
<1>6. \A w \in Wallets : PostedAt(o, w)' = IF w \in Touched(o) THEN {n(w) + 1} ELSE {}
  <2> TAKE w \in Wallets
  <2>1. CASE w \in Touched(o)
    <3> HIDE DEF e, n
    <3>1. \A i \in 1..n(w) : ledger[w][i].op # o
      BY <1>2 DEF PostedAt, n
    <3>2. /\ n(w) \in Nat /\ Len(ledger'[w]) = n(w) + 1 /\ ledger'[w][n(w) + 1].op = o
          /\ \A i \in 1..n(w) : ledger'[w][i].op # o
      BY <1>3, <1>5, <2>1, <3>1
    <3>3. \A i \in 1..n(w) + 1 : ledger'[w][i].op = o <=> i = n(w) + 1
      BY <3>2
    <3>4. PostedAt(o, w)' = {i \in 1..n(w) + 1 : ledger'[w][i].op = o}
      BY <3>2 DEF PostedAt
    <3>5. n(w) + 1 \in 1..n(w) + 1
      BY <3>2
    <3> QED
      BY <2>1, <3>3, <3>4, <3>5
  <2>2. CASE w \notin Touched(o)
    BY <1>2, <1>4, <2>2 DEF PostedAt
  <2> QED
    BY <2>1, <2>2
<1>7. ASSUME NEW p \in Ops \ {o}, NEW w \in Wallets
      PROVE  /\ PostedAt(p, w)' = PostedAt(p, w)
             /\ \A i \in PostedAt(p, w) : ledger'[w][i] = ledger[w][i]
  <2>1. CASE w \in Touched(o)
    <3> HIDE DEF e, n
    <3> QED
      BY <1>3, <1>5, <2>1 DEF PostedAt, n
  <2>2. CASE w \notin Touched(o)
    BY <1>4, <2>2 DEF PostedAt
  <2> QED
    BY <2>1, <2>2
<1>8. \A p \in Ops \ {o} : Posted(p)' <=> Posted(p)
  BY <1>7 DEF Posted
<1>9. WholeOrNothing'
  <2> SUFFICES ASSUME NEW p \in Ops, Posted(p)', NEW w \in Wallets
               PROVE  IF w \in Touched(p)'
                        THEN \E i \in PostedAt(p, w)' :
                               /\ PostedAt(p, w)' = {i}
                               /\ ledger'[w][i] = Entry(p, w, ledger[w][i].after)'
                        ELSE PostedAt(p, w)' = {}
    BY DEF WholeOrNothing
  <2>1. Touched(p)' = Touched(p)
    BY <1>1 DEF Touched
  <2>2. CASE p = o
    <3> HIDE DEF e, n
    <3>1. CASE w \in Touched(o)
      <4>1. ledger'[w][n(w) + 1] = Entry(o, w, ledger'[w][n(w) + 1].after)
        BY <1>3, <1>5, <3>1
      <4>2. PostedAt(o, w)' = {n(w) + 1}
        BY <1>6, <3>1
      <4> QED
        BY <1>1, <2>1, <2>2, <3>1, <4>1, <4>2 DEF Entry, Debits
    <3>2. CASE w \notin Touched(o)
      BY <1>6, <2>1, <2>2, <3>2
    <3> QED
      BY <3>1, <3>2
  <2>3. CASE p # o
    <3>1. Posted(p)
      BY <1>8, <2>3
    <3>2. /\ PostedAt(p, w)' = PostedAt(p, w)
          /\ \A i \in PostedAt(p, w) : ledger'[w][i] = ledger[w][i]
      BY <1>7, <2>3
    <3>3. CASE w \in Touched(p)
      <4>1. PICK i \in PostedAt(p, w) : /\ PostedAt(p, w) = {i}
                                        /\ ledger[w][i] = Entry(p, w, ledger[w][i].after)
        BY <3>1, <3>3 DEF WholeOrNothing
      <4>2. ledger'[w][i] = Entry(p, w, ledger[w][i].after)'
        BY <1>1, <3>2, <4>1 DEF Entry, Debits
      <4> QED
        BY <2>1, <3>2, <3>3, <4>1, <4>2
    <3>4. CASE w \notin Touched(p)
      BY <2>1, <3>1, <3>2, <3>4 DEF WholeOrNothing
    <3> QED
      BY <3>3, <3>4
  <2> QED
    BY <2>2, <2>3
<1>10. Posted(o)'
  <2>1. Here(o) \in Wallets /\ Here(o) \in Touched(o)
    BY <1>1, HereFacts
  <2> HIDE DEF n
  <2> QED
    BY <1>6, <2>1 DEF Posted
<1> QED
  BY <1>8, <1>9, <1>10

\* Committing.
LEMMA CommitKeeps ==
  ASSUME IInv, NEW o \in Ops, Commit(o)
  PROVE  IInv'
<1> USE DEF IInv
<1>1. /\ pc[o] = "commit" /\ pc' = [pc EXCEPT ![o] = "complete"] /\ Release(o)
      /\ UNCHANGED <<operational, txStatus, dirty, leg, req, snap>>
  BY DEF Commit, Goto
<1>2. /\ pc'[o] = "complete"
      /\ \A p \in Ops \ {o} : pc'[p] = pc[p]
  BY <1>1 DEF TypeOK
<1>3. \A w \in Wallets :
        /\ balance'[w] \in Nat /\ version'[w] \in Nat /\ ledger'[w] \in Seq(Entries)
        /\ version'[w] >= version[w]
        /\ version'[w] = version[w] => balance'[w] = balance[w]
        /\ rowLock[w] # o => balance'[w] = balance[w] /\ version'[w] = version[w]
  <2> TAKE w \in Wallets
  <2>1. balance[w] \in Nat /\ version[w] \in Nat /\ ledger[w] \in Seq(Entries)
    BY DEF TypeOK
  <2>2. CASE w \in Touched(o)
    <3>1. rowLock[w] = o
      BY <1>1, <2>2 DEF LockInv, Locked
    <3> DEFINE e == Entry(o, w, balance'[w])
    <3>2. /\ balance'[w] \in Nat /\ version'[w] = version[w] + 1
          /\ e \in Entries /\ ledger'[w] = Append(ledger[w], e)
      BY <2>2, CommitFacts
    <3> HIDE DEF e
    <3>3. ledger'[w] \in Seq(Entries)
      BY <2>1, <3>2, AppendedEntries
    <3> QED
      BY <2>1, <3>1, <3>2, <3>3
  <2>3. CASE w \notin Touched(o)
    BY <2>1, <2>3, CommitFacts
  <2> QED
    BY <2>2, <2>3
<1>4. TypeOK'
  <2>1. /\ balance' \in [Wallets -> Nat] /\ version' \in [Wallets -> Nat]
        /\ ledger' \in [Wallets -> Seq(Entries)]
    BY <1>3 DEF Commit
  <2> QED
    BY <1>1, <2>1 DEF TypeOK, PCs, Release
<1>5. ControlInv'
  BY <1>1, <1>2 DEF ControlInv, InTransaction
<1>6. LockInv'
  <2>1. Locked(o)' = {}
    BY <1>1, NoOpAssumption DEF Locked, Release, TypeOK
  <2>2. \A p \in Ops \ {o} : Locked(p)' = Locked(p) /\ Touched(p)' = Touched(p)
    BY <1>1, NoOpAssumption DEF Locked, Touched, Release, TypeOK
  <2> QED
    BY <1>1, <1>2, <2>1, <2>2 DEF LockInv
<1>7. SnapInv'
  <2> SUFFICES ASSUME NEW p \in Ops, pc'[p] = "write"
               PROVE  /\ Debits(p, Here(p))' => snap'[p].balance >= req'[p].amount
                      /\ snap'[p].version <= version'[Here(p)']
                      /\ snap'[p].version = version'[Here(p)'] =>
                           snap'[p].balance = balance'[Here(p)']
    BY DEF SnapInv
  <2>1. pc[p] = "write" /\ Here(p)' = Here(p) /\ (Debits(p, Here(p))' <=> Debits(p, Here(p)))
    BY <1>1, <1>2 DEF Here, Debits
  <2>2. Here(p) \in Wallets
    BY <2>1, HereFacts
  <2>3. /\ snap'[p] = snap[p] /\ req'[p] = req[p]
        /\ snap[p].version \in Nat /\ version[Here(p)] \in Nat
    BY <1>1, <2>2 DEF TypeOK
  <2> QED
    BY <1>3, <2>1, <2>2, <2>3 DEF SnapInv
<1>8. DirtyInv'
  <2> SUFFICES ASSUME NEW w \in Wallets, rowLock'[w] \in Ops
               PROVE  dirty[w] = After(rowLock[w], w, balance[w])'
    BY <1>1 DEF DirtyInv
  <2>1. rowLock'[w] = rowLock[w] /\ rowLock[w] # o
    BY <1>1, NoOpAssumption DEF Release, TypeOK
  <2> QED
    BY <1>1, <1>3, <2>1 DEF DirtyInv, After, Debits
<1>9. BalanceIsLedger'
  BY CommitKeepsLedger
<1>10. WholeOrNothing' /\ UnpostedInv'
  BY <1>2, CommitKeepsPosted DEF UnpostedInv
<1> QED
  BY <1>4, <1>5, <1>6, <1>7, <1>8, <1>9, <1>10

\* A change of a wallet's status, or no change at all.
LEMMA StatusKeeps ==
  ASSUME IInv, UNCHANGED <<balance, version, ledger, txStatus, openVars, opVars>>,
         operational' \subseteq Wallets
  PROVE  IInv'
<1> USE DEF IInv, openVars, opVars
<1>1. TypeOK'
  BY DEF TypeOK
<1>2. ControlInv' /\ LockInv' /\ SnapInv' /\ DirtyInv'
  BY DEF ControlInv, LockInv, SnapInv, DirtyInv, Locked, Touched, Here, Debits, After
<1>3. BalanceIsLedger'
  BY LedgerFrame
<1>4. WholeOrNothing' /\ \A p \in Ops : Posted(p)' <=> Posted(p)
  BY PostedFrame
<1>5. UnpostedInv'
  BY <1>4 DEF UnpostedInv
<1> QED
  BY <1>1, <1>2, <1>3, <1>4, <1>5

-----------------------------------------------------------------------------
(* The theorems. *)

\* Every step keeps the inductive invariant.
LEMMA NextKeeps == IInv /\ [Next]_vars => IInv'
<1> SUFFICES ASSUME IInv, [Next]_vars PROVE IInv'
  OBVIOUS
<1>1. ASSUME NEW o \in Ops, Begin(o) PROVE IInv'
  BY <1>1, BeginKeeps
<1>2. ASSUME NEW o \in Ops, Step(o) PROVE IInv'
  <2>1. CASE Load(o)
    BY <2>1, LoadKeeps
  <2>2. CASE CreateTransaction(o)
    BY <2>2, CreateTransactionKeeps
  <2>3. CASE ReadBalance(o)
    BY <2>3, ReadBalanceKeeps
  <2>4. CASE WriteBalance(o)
    BY <2>4, WriteBalanceKeeps
  <2>5. CASE Commit(o)
    BY <2>5, CommitKeeps
  <2>6. CASE CompleteTransaction(o)
    BY <2>6, CompleteTransactionKeeps
  <2> QED
    BY <1>2, <2>1, <2>2, <2>3, <2>4, <2>5, <2>6 DEF Step
<1>3. ASSUME NEW o \in Ops, Rollback(o) \/ BreakDeadlock(o) \/ Crash(o) PROVE IInv'
  <2>0. BreakDeadlock(o) => pc[o] = "write"
    BY VictimWaits
  <2>1. PICK to \in {"failed", "crashed"} :
          /\ pc' = [pc EXCEPT ![o] = to]
          /\ to = "failed" => pc[o] # "complete"
    BY <1>3, <2>0 DEF Rollback, BreakDeadlock, Crash, Goto, InTransaction
  <2>2. /\ pc[o] \notin {"idle", "rejected", "failed", "done", "crashed"} /\ Release(o)
        /\ UNCHANGED <<operational, balance, version, ledger, txStatus, dirty, leg, req, snap>>
    BY <1>3, <2>0 DEF Rollback, BreakDeadlock, Crash, InTransaction, Ended, dbVars
  <2>3. snap[o] \in [balance : Nat, version : Nat] /\ snap' = [snap EXCEPT ![o] = snap[o]]
    BY <2>2 DEF IInv, TypeOK
  <2> QED
    BY <2>1, <2>2, <2>3, AbortKeeps
<1>4. ASSUME NEW w \in Wallets, ChangeStatus(w) PROVE IInv'
  BY <1>4, StatusKeeps DEF ChangeStatus, IInv, TypeOK
<1>5. CASE UNCHANGED vars
  BY <1>5, StatusKeeps DEF vars, dbVars, IInv, TypeOK
<1> QED
  BY <1>1, <1>2, <1>3, <1>4, <1>5 DEF Next

\* The strengthened invariant holds in every reachable state, however many
\* operations race, fail and crash.
THEOREM Invariance == SafetySpec => []IInv
<1>1. Init => IInv
  BY InitIInv
<1>2. IInv /\ [Next]_vars => IInv'
  BY NextKeeps
<1> QED
  BY <1>1, <1>2, PTL DEF SafetySpec

\* Type correctness; a balance is in particular never negative: the check in
\* applyEntryInTx and the version predicate together rule an overdraft out.
THEOREM TypeCorrect == SafetySpec => []TypeOK
<1>1. IInv => TypeOK
  BY DEF IInv
<1> QED
  BY <1>1, Invariance, PTL

\* The balance rows are what the ledger entries add up to, entry by entry.
THEOREM LedgerCorrect == SafetySpec => []BalanceIsLedger
<1>1. IInv => BalanceIsLedger
  BY DEF IInv
<1> QED
  BY <1>1, Invariance, PTL

\* A transfer is posted on both wallets, once and with one amount, or on none.
THEOREM TransfersWhole == SafetySpec => []WholeOrNothing
<1>1. IInv => WholeOrNothing
  BY DEF IInv
<1> QED
  BY <1>1, Invariance, PTL

-----------------------------------------------------------------------------
(* What callers are told. *)

\* A step that moves no operation to or from "complete" and "done" except as
\* the code does keeps what is known of the answers.
LEMMA AnswerStep == IInv /\ AnswerInv /\ [Next]_vars => AnswerInv'
<1> SUFFICES ASSUME IInv, AnswerInv, [Next]_vars PROVE AnswerInv'
  OBVIOUS
<1>1. ASSUME NEW o \in Ops, Commit(o) PROVE AnswerInv'
  <2>1. Posted(o)' /\ \A p \in Ops \ {o} : Posted(p)' <=> Posted(p)
    BY <1>1, CommitKeepsPosted
  <2>2. pc[o] = "commit" /\ pc' = [pc EXCEPT ![o] = "complete"] /\ UNCHANGED txStatus
    BY <1>1 DEF Commit, Goto
  <2> QED
    BY <2>1, <2>2 DEF AnswerInv, IInv, TypeOK
<1>2. CASE ~ \E o \in Ops : Commit(o)
  <2>1. UNCHANGED ledger
    BY <1>2 DEF Next, Step, Begin, Load, CreateTransaction, CompleteTransaction, ReadBalance,
         WriteBalance, Rollback, BreakDeadlock, Crash, ChangeStatus, vars, dbVars
  <2>2. \A p \in Ops : Posted(p)' <=> Posted(p)
    BY <2>1 DEF Posted, PostedAt
  <2>3. CASE \E o \in Ops : CompleteTransaction(o)
    BY <2>2, <2>3 DEF CompleteTransaction, Goto, AnswerInv, IInv, TypeOK
  <2>4. CASE \E o \in Ops : CreateTransaction(o)
    BY <2>2, <2>4 DEF CreateTransaction, Goto, AnswerInv, IInv, TypeOK
  <2>5. CASE ~ \E o \in Ops : CompleteTransaction(o) \/ CreateTransaction(o)
    <3>1. UNCHANGED txStatus
      BY <1>2, <2>5 DEF Next, Step, Begin, Load, ReadBalance,
         WriteBalance, Rollback, BreakDeadlock, Crash, ChangeStatus, vars, dbVars
    <3>2. \A p \in Ops : pc'[p] # pc[p] => pc[p] # "done" /\ pc'[p] \notin {"complete", "done"}
      <4>1. CASE \E o \in Ops : BreakDeadlock(o)
        BY <4>1, VictimWaits DEF BreakDeadlock, Goto, IInv, TypeOK
      <4>2. CASE ~ \E o \in Ops : BreakDeadlock(o)
        BY <1>2, <2>5, <4>2 DEF Next, Step, Begin, Load, ReadBalance, Goto, Ended,
           InTransaction, WriteBalance, Rollback, Crash, ChangeStatus, vars, opVars, IInv, TypeOK
      <4> QED
        BY <4>1, <4>2
    <3> QED
      BY <2>2, <3>1, <3>2 DEF AnswerInv
  <2> QED
    BY <2>3, <2>4, <2>5
<1> QED
  BY <1>1, <1>2

\* Success is answered only for what is posted and COMPLETED, a refusal only for
\* what is not, whatever else runs, fails or crashes in the meantime.
THEOREM AnswersAreTrue == SafetySpec => []AnswerIsTrue
<1>1. Init => AnswerInv
  BY DEF Init, AnswerInv
<1>2. IInv /\ AnswerInv => AnswerIsTrue
  BY DEF IInv, AnswerInv, UnpostedInv, AnswerIsTrue
<1> QED
  BY <1>1, <1>2, AnswerStep, Invariance, PTL DEF SafetySpec

-----------------------------------------------------------------------------
(* Waiting for row locks. *)

\* Whoever holds a row has a database transaction open; if it waits itself, it is a
\* transfer with its debit written and its credit to write.
LEMMA HolderFacts ==
  ASSUME IInv, NEW o \in Ops, NEW p, Awaits(o, p)
  PROVE  /\ p \in Ops /\ pc[p] \in InTransaction
         /\ Waiting(p) => /\ {req[p].from, req[p].to} \subseteq Wallets
                          /\ Here(p) = req[p].to /\ Locked(p) = {req[p].from}
<1>1. Here(o) \in Wallets
  BY HereFacts DEF IInv, Awaits, Waiting
<1>2. p \in Ops /\ Here(o) \in Locked(p)
  BY <1>1 DEF IInv, TypeOK, Awaits, Waiting, Locked
<1>3. pc[p] \in InTransaction
  BY <1>2 DEF IInv, LockInv, InTransaction
<1>4. ASSUME Waiting(p)
      PROVE  /\ {req[p].from, req[p].to} \subseteq Wallets
             /\ Here(p) = req[p].to /\ Locked(p) = {req[p].from}
  <2>1. leg[p] = 2 /\ Locked(p) = {req[p].from}
    BY <1>2, <1>4 DEF IInv, LockInv, Waiting
  <2> QED
    BY <1>2, <1>4, <2>1, HereFacts DEF IInv, ControlInv, Waiting
<1> QED
  BY <1>2, <1>3, <1>4

\* The database aborts only transfers to break a deadlock.
THEOREM TransfersAlone == SafetySpec => []OnlyTransfersDeadlock
<1>1. ASSUME IInv
      PROVE  OnlyTransfersDeadlock
  <2> SUFFICES ASSUME NEW S \in SUBSET Ops, Deadlocked(S), NEW p \in S
               PROVE  /\ {req[p].from, req[p].to} \subseteq Wallets
                      /\ Here(p) = req[p].to /\ Locked(p) = {req[p].from}
    BY DEF OnlyTransfersDeadlock
  <2>1. PICK o \in S : Awaits(o, p)
    BY DEF Deadlocked
  <2>2. PICK q \in S : Awaits(p, q)
    BY DEF Deadlocked
  <2> QED
    BY <1>1, <2>1, <2>2, HolderFacts DEF Awaits
<1> QED
  BY <1>1, Invariance, PTL

-----------------------------------------------------------------------------
(* The ledger implements LedgerPromise. *)

postedMap == [o \in Ops |-> IF Posted(o) THEN req[o] ELSE NoRequest]

\* A commit is the posting of its operation.
LEMMA CommitPosts ==
  ASSUME IInv, NEW o \in Ops, Commit(o)
  PROVE  Promise!PromiseNext
<1> DEFINE p == req[o]
<1> USE DEF IInv
<1>1. /\ pc[o] = "commit" /\ UNCHANGED req /\ ~ Posted(o)
  BY DEF Commit, UnpostedInv
<1>2. p \in Requests /\ p.from # p.to /\ p.amount > 0
  BY <1>1 DEF ControlInv, InTransaction
<1>3. p \in Promise!Postings
  <2>1. {p.from, p.to} \subseteq Wallets => AssetOf[p.from] = AssetOf[p.to]
    BY <1>1 DEF ControlInv, InTransaction
  <2>2. /\ p \in [from : Wallets \cup {NoWallet}, to : Wallets \cup {NoWallet},
                  amount : Amounts \ {0}]
    BY <1>2 DEF Requests
  <2> QED
    BY <1>2, <2>1, <2>2 DEF Promise!Postings
<1>4. p.amount \in Nat
  BY AmountIsNat
<1>5. p.from \in Wallets => balance[p.from] >= p.amount
  <2> SUFFICES ASSUME p.from \in Wallets PROVE balance[p.from] >= p.amount
    OBVIOUS
  <2>1. /\ balance'[p.from] = After(o, p.from, balance[p.from])
        /\ balance'[p.from] \in Nat /\ balance[p.from] \in Nat
    BY CommitFacts DEF Touched, TypeOK
  <2> QED
    BY <1>4, <2>1 DEF After, Debits
<1>6. balance' = [w \in Wallets |-> balance[w] + Promise!Delta(p, w)]
  <2>1. balance' = [w \in Wallets |-> balance'[w]]
    BY DEF Commit
  <2>2. ASSUME NEW w \in Wallets
        PROVE  balance'[w] = balance[w] + Promise!Delta(p, w)
    <3>1. balance[w] \in Nat
      BY DEF TypeOK
    <3>2. CASE w \in Touched(o)
      <4>1. balance'[w] = After(o, w, balance[w])
        BY <3>2, CommitFacts
      <4> QED
        BY <1>4, <3>1, <3>2, <4>1 DEF After, Debits, Touched, Promise!Delta
    <3>3. CASE w \notin Touched(o)
      <4>1. balance'[w] = balance[w]
        BY <3>3, CommitFacts
      <4> QED
        BY <3>1, <3>3, <4>1 DEF Touched, Promise!Delta
    <3> QED
      BY <3>2, <3>3
  <2> QED
    BY <2>1, <2>2
<1>7. postedMap' = [postedMap EXCEPT ![o] = p] /\ postedMap[o] = NoRequest
  BY <1>1, CommitKeepsPosted DEF postedMap
<1> QED
  BY <1>3, <1>5, <1>6, <1>7
     DEF postedMap, Promise!PromiseNext, Promise!Post, Promise!NoPosting, NoRequest

\* Every other step leaves what is promised as it is.
LEMMA OtherStepsStutter ==
  ASSUME IInv, [Next]_vars, ~ \E o \in Ops : Commit(o)
  PROVE  UNCHANGED <<balance, postedMap>>
<1>1. UNCHANGED <<balance, ledger>>
  BY DEF Next, Step, Begin, Load, CreateTransaction, CompleteTransaction, ReadBalance,
         WriteBalance, Rollback, BreakDeadlock, Crash, ChangeStatus, vars, dbVars
<1>2. \A p \in Ops : Posted(p) => req'[p] = req[p]
  <2> SUFFICES ASSUME NEW p \in Ops, Posted(p) PROVE req'[p] = req[p]
    OBVIOUS
  <2>1. pc[p] # "idle"
    BY DEF IInv, UnpostedInv
  <2> QED
    BY <2>1 DEF Next, Step, Begin, Load, CreateTransaction, CompleteTransaction, ReadBalance,
         WriteBalance, Rollback, BreakDeadlock, Crash, ChangeStatus, vars, opVars, IInv, TypeOK
<1>3. \A p \in Ops : Posted(p)' <=> Posted(p)
  BY <1>1 DEF Posted, PostedAt
<1> QED
  BY <1>1, <1>2, <1>3 DEF postedMap

\* Whatever the operations, their interleaving, their failures and their
\* crashes, callers of the ledger see atomic postings and nothing else.
THEOREM LedgerImplementsPromise == SafetySpec => ImplementsPromise
<1>1. Init => Promise!PromiseInit
  <2> SUFFICES ASSUME Init PROVE Promise!PromiseInit
    OBVIOUS
  <2>1. IInv /\ \A o \in Ops : pc[o] = "idle"
    BY InitIInv DEF Init
  <2>2. \A o \in Ops : ~ Posted(o)
    BY <2>1 DEF IInv, UnpostedInv
  <2> QED
    BY <2>2 DEF Init, Promise!PromiseInit, Promise!NoPosting, NoRequest
<1>2. IInv /\ [Next]_vars => [Promise!PromiseNext]_(Promise!promiseVars)
  <2> SUFFICES ASSUME IInv, [Next]_vars
               PROVE  [Promise!PromiseNext]_(Promise!promiseVars)
    OBVIOUS
  <2>1. CASE \E o \in Ops : Commit(o)
    BY <2>1, CommitPosts
  <2>2. CASE ~ \E o \in Ops : Commit(o)
    BY <2>2, OtherStepsStutter DEF postedMap, Promise!promiseVars
  <2> QED
    BY <2>1, <2>2
<1> QED
  BY <1>1, <1>2, Invariance, PTL DEF SafetySpec, ImplementsPromise, Promise!PromiseSpec

-----------------------------------------------------------------------------
(* What the promise gives. *)

\* The theorems about the promise, for the postings of this ledger.
Facts == INSTANCE LedgerPromiseProofs WITH posted <- postedMap

\* It is the same promise: only the names of the instances differ.
LEMMA SamePromise ==
  /\ Promise!PromiseInit => Facts!PromiseInit
  /\ [Promise!PromiseNext]_(Promise!promiseVars) => [Facts!PromiseNext]_(Facts!promiseVars)
  /\ Facts!MoneyConserved => Conservation
<1>1. \A p, mine : Facts!External(p, mine) = Promise!External(p, mine)
  BY DEF Facts!External, Promise!External
<1>2. \A w : Facts!SameAsset(w) = Promise!SameAsset(w)
  BY DEF Facts!SameAsset, Promise!SameAsset
<1>3. Facts!PostedOps = Promise!PostedOps
  BY DEF Facts!PostedOps, Promise!PostedOps, postedMap, Facts!NoPosting, Promise!NoPosting
<1>4. Facts!PromiseInit <=> Promise!PromiseInit
  BY DEF Facts!PromiseInit, Promise!PromiseInit, postedMap, Facts!NoPosting, Promise!NoPosting
<1>5. Facts!Postings = Promise!Postings
  BY DEF Facts!Postings, Promise!Postings
<1>6. \A o, p : Facts!Post(o, p) <=> Promise!Post(o, p)
  BY DEF Facts!Post, Promise!Post, postedMap, Facts!NoPosting, Promise!NoPosting,
         Facts!Delta, Promise!Delta
<1>7. Facts!promiseVars = Promise!promiseVars
  BY DEF Facts!promiseVars, Promise!promiseVars, postedMap
<1>8. \A f, S : Facts!SumFunctionOnSet(f, S) = Promise!SumFunctionOnSet(f, S)
  BY DEF Facts!SumFunctionOnSet, Facts!FoldFunctionOnSet, Facts!MapThenFoldSet,
         Promise!SumFunctionOnSet, Promise!FoldFunctionOnSet, Promise!MapThenFoldSet
<1>9. Facts!MoneyConserved => Conservation
  <2>1. \A mine : [o \in Ops |-> Facts!External(postedMap[o], mine)] =
                  [o \in Ops |-> Promise!External(postedMap[o], mine)]
    BY <1>1
  <2>2. SUFFICES ASSUME Facts!MoneyConserved, NEW w \in Wallets
                 PROVE  LET mine == Promise!SameAsset(w)
                        IN Promise!SumFunctionOnSet(balance, mine) =
                             Promise!SumFunctionOnSet(Opening, mine)
                               + Promise!SumFunctionOnSet(
                                   [o \in Ops |-> Promise!External(postedMap[o], mine)],
                                   Promise!PostedOps)
    BY Zenon DEF Conservation, Promise!MoneyConserved, postedMap
  <2> DEFINE own == Facts!SameAsset(w)
  <2>3. Facts!SumFunctionOnSet(balance, own) =
          Facts!SumFunctionOnSet(Opening, own)
            + Facts!SumFunctionOnSet([o \in Ops |-> Facts!External(postedMap[o], own)],
                                     Facts!PostedOps)
    BY <2>2, Zenon DEF Facts!MoneyConserved
  <2> QED
    BY <1>2, <1>3, <1>8, <2>1, <2>3, Zenon
<1>10. [Promise!PromiseNext]_(Promise!promiseVars) => [Facts!PromiseNext]_(Facts!promiseVars)
  BY <1>5, <1>6, <1>7 DEF Facts!PromiseNext, Promise!PromiseNext, Facts!promiseVars,
     Promise!promiseVars, postedMap
<1> QED
  BY <1>4, <1>9, <1>10

\* Whatever races, fails or is rolled back, money is conserved asset by asset.
THEOREM MoneyIsConserved ==
  ASSUME IsFiniteSet(Wallets)
  PROVE  SafetySpec => []Conservation
<1>1. Facts!Sensible
  BY DEF Facts!Sensible, Facts!IsFiniteSet, IsFiniteSet
<1>2. Facts!PromiseSpec => []Facts!MoneyConserved
  BY <1>1, Facts!PromiseConserves
<1> QED
  BY <1>2, SamePromise, LedgerImplementsPromise, PTL
     DEF ImplementsPromise, Promise!PromiseSpec, Facts!PromiseSpec

-----------------------------------------------------------------------------
(* Cycles of waiting operations. *)

Chain(S) == S # {} /\ \A o \in S : \E p \in S : Awaits(o, p)

\* Among finitely many operations that all wait for one another some wait in a
\* cycle: those that are waited for are again such a set, and a smaller one.
LEMMA ChainHasCycle ==
  ASSUME IsFiniteSet(Ops), NEW S \in SUBSET Ops, Chain(S)
  PROVE  \E D \in SUBSET Ops : Deadlocked(D)
<1> DEFINE Good == {T \in SUBSET Ops : Chain(T) => \E D \in SUBSET Ops : Deadlocked(D)}
<1>1. ASSUME NEW T \in SUBSET S, \A U \in SUBSET T : U # T => U \in Good
      PROVE  T \in Good
  <2> SUFFICES ASSUME Chain(T)
               PROVE  \E D \in SUBSET Ops : Deadlocked(D)
    OBVIOUS
  <2> DEFINE U == {p \in T : \E o \in T : Awaits(o, p)}
  <2>1. CASE U = T
    <3>1. \A p \in T : \E o \in T : Awaits(o, p)
      BY <2>1
    <3> QED
      BY <3>1 DEF Chain, Deadlocked
  <2>2. CASE U # T
    <3>1. Chain(U)
      BY DEF Chain
    <3> QED
      BY <1>1, <2>2, <3>1
  <2> QED
    BY <2>1, <2>2
<1>2. Facts!IsFiniteSet(S)
  <2>1. IsFiniteSet(S)
    BY FS_Subset
  <2> QED
    BY <2>1 DEF Facts!IsFiniteSet, IsFiniteSet
<1> HIDE DEF Good
<1>3. S \in Good
  BY <1>1, <1>2, Facts!FiniteInduction
<1> QED
  BY <1>3 DEF Good

\* No operation waits for a row while nobody in the database can do anything.
THEOREM WaitsEnd ==
  ASSUME IsFiniteSet(Ops)
  PROVE  SafetySpec => []WaitIsForSomebody
<1>1. ASSUME IInv
      PROVE  WaitIsForSomebody
  <2> SUFFICES ASSUME NEW o \in Ops, Waiting(o),
                      \A p \in Ops : pc[p] \in InTransaction => Waiting(p)
               PROVE  \E S \in SUBSET Ops : Deadlocked(S)
    BY DEF WaitIsForSomebody
  <2> DEFINE S == {p \in Ops : Waiting(p)}
  <2>1. ASSUME NEW p \in S
        PROVE  \E q \in S : Awaits(p, q)
    <3>1. Awaits(p, rowLock[Here(p)])
      BY DEF Awaits
    <3> QED
      BY <1>1, <3>1, HolderFacts
  <2>2. Chain(S)
    BY <2>1 DEF Chain
  <2> QED
    BY <2>2, ChainHasCycle
<1> QED
  BY <1>1, Invariance, PTL

=============================================================================
