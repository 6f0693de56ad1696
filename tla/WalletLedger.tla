---------------------------- MODULE WalletLedger ----------------------------
(***************************************************************************)
(* Credits, debits and internal transfers of the wallet service: the       *)
(* WalletService handlers over PrismaLedgerRepository and Postgres.        *)
(*                                                                         *)
(* An operation loads its wallets and checks them, records a PENDING       *)
(* wallet transaction, applies one or two legs inside ONE interactive      *)
(* database transaction, and marks the wallet transaction COMPLETED.  Each *)
(* await is a step.  Inside the database transaction a leg reads the       *)
(* balance row, then updates it WHERE version is still the one it read;    *)
(* the update waits for the row lock of another open transaction and is    *)
(* evaluated on what that one left behind (READ COMMITTED).                *)
(*                                                                         *)
(* Only "available" is modelled of a balance: no code path writes pending, *)
(* locked or reserved, so total is available.  Of the wallet's status only *)
(* "is it ACTIVE" matters here; WalletLifecycle has the whole of it.       *)
(***************************************************************************)
EXTENDS Integers, Sequences

CONSTANTS Wallets,    \* wallets
          AssetOf,    \* AssetOf[w]: the asset w is denominated in
          Ops,        \* operations: one HTTP call, one wallet_transactions row each
          Amounts,    \* amounts a call may name; 0 stands for what is not positive
          NoWallet,   \* the missing side of a credit or of a debit
          NoOp,       \* no operation
          Opening     \* Opening[w]: what an earlier credit left in w

VARIABLES operational,  \* the wallets whose status is ACTIVE
          balance,      \* balance[w]: wallet_balances.available, committed
          version,      \* version[w]: wallet_balances.version, committed
          ledger,       \* ledger[w]: the committed ledger_entries of w, in order
          rowLock,      \* rowLock[w]: the operation whose open transaction updated w's row
          dirty,        \* dirty[w]: the uncommitted balance behind that lock
          txStatus,     \* txStatus[o]: wallet_transactions.status
          pc,           \* pc[o]: where operation o is
          leg,          \* leg[o]: which of its wallets it is at
          req,          \* req[o]: what was asked
          snap          \* snap[o]: the row as o's transaction read it

dbVars == <<operational, balance, version, ledger, txStatus>>
openVars == <<rowLock, dirty>>
opVars == <<pc, leg, req, snap>>
vars == <<dbVars, openVars, opVars>>

ASSUME OpeningAssumption == Opening \in [Wallets -> Nat]
ASSUME AmountsAssumption == Amounts \subseteq Nat
ASSUME NoWalletAssumption == NoWallet \notin Wallets
ASSUME NoOpAssumption == NoOp \notin Ops

\* A credit has no source, a debit no destination, a transfer has both.
Requests == {r \in [from : Wallets \cup {NoWallet}, to : Wallets \cup {NoWallet},
                    amount : Amounts] : r.from # NoWallet \/ r.to # NoWallet}

NoRequest == [from |-> NoWallet, to |-> NoWallet, amount |-> 0]

\* The wallets of a request in the order the code visits them: debit first.
Legs(r) == IF r.from = NoWallet THEN <<r.to>>
           ELSE IF r.to = NoWallet THEN <<r.from>> ELSE <<r.from, r.to>>

Here(o) == Legs(req[o])[leg[o]]        \* the wallet o is at
AtLastLeg(o) == leg[o] = Len(Legs(req[o]))
Debits(o, w) == w = req[o].from        \* o takes from w (else it gives to w)

After(o, w, before) == IF Debits(o, w) THEN before - req[o].amount
                                       ELSE before + req[o].amount

Entry(o, w, after) == [op |-> o, type |-> IF Debits(o, w) THEN "DEBIT" ELSE "CREDIT",
                       amount |-> req[o].amount, after |-> after]

Locked(o) == {w \in Wallets : rowLock[w] = o}

Ended == {"done", "rejected", "failed", "crashed"}
InTransaction == {"read", "write", "commit"}
PCs == {"idle", "load", "record", "complete"} \cup InTransaction \cup Ended

Entries == [op : Ops \cup {NoOp}, type : {"CREDIT", "DEBIT"}, amount : Nat, after : Nat]

TypeOK ==
  /\ operational \subseteq Wallets
  /\ balance \in [Wallets -> Nat]
  /\ version \in [Wallets -> Nat]
  /\ ledger \in [Wallets -> Seq(Entries)]
  /\ rowLock \in [Wallets -> Ops \cup {NoOp}]
  /\ dirty \in [Wallets -> Nat]
  /\ txStatus \in [Ops -> {"none", "PENDING", "COMPLETED"}]
  /\ pc \in [Ops -> PCs]
  /\ leg \in [Ops -> {1, 2}]
  /\ req \in [Ops -> Requests \cup {NoRequest}]
  /\ snap \in [Ops -> [balance : Nat, version : Nat]]

\* A wallet that holds something received it by one earlier credit.
Init ==
  /\ operational = Wallets
  /\ balance = Opening
  /\ version = [w \in Wallets |-> IF Opening[w] = 0 THEN 0 ELSE 1]
  /\ ledger = [w \in Wallets |->
                IF Opening[w] = 0 THEN << >>
                ELSE <<[op |-> NoOp, type |-> "CREDIT",
                        amount |-> Opening[w], after |-> Opening[w]]>>]
  /\ rowLock = [w \in Wallets |-> NoOp]
  /\ dirty = [w \in Wallets |-> 0]
  /\ txStatus = [o \in Ops |-> "none"]
  /\ pc = [o \in Ops |-> "idle"]
  /\ leg = [o \in Ops |-> 1]
  /\ req = [o \in Ops |-> NoRequest]
  /\ snap = [o \in Ops |-> [balance |-> 0, version |-> 0]]

-----------------------------------------------------------------------------
(* Outside the database transaction.  A definition marked Fault is a broken  *)
(* variant of the one it precedes: no specification uses it.                 *)

Goto(o, label) == pc' = [pc EXCEPT ![o] = label]

\* creditWallet, debitWallet, createInternalTransfer; a transfer to the same
\* wallet is refused before anything is read.
Begin(o) ==
  /\ pc[o] = "idle"
  /\ \E r \in Requests :
       /\ req' = [req EXCEPT ![o] = r]
       /\ Goto(o, IF r.from = r.to THEN "rejected" ELSE "load")
  /\ UNCHANGED <<dbVars, openVars, leg, snap>>

\* Fault: a transfer may cross from one asset to another.
AcceptableCrossAsset(o) ==
  /\ Here(o) \in operational
  /\ AtLastLeg(o) => req[o].amount > 0

\* assertOperational on the copy read, then the asset and the amount.
Acceptable(o) ==
  /\ Here(o) \in operational
  /\ AtLastLeg(o) =>
       /\ {req[o].from, req[o].to} \subseteq Wallets =>
            AssetOf[req[o].from] = AssetOf[req[o].to]
       /\ req[o].amount > 0

\* requireWallet, once per wallet; the answer to a refusal is the same at
\* whichever of the two reads the reason shows.
Load(o) ==
  /\ pc[o] = "load"
  /\ IF Acceptable(o)
       THEN /\ Goto(o, IF AtLastLeg(o) THEN "record" ELSE "load")
            /\ leg' = [leg EXCEPT ![o] = IF AtLastLeg(o) THEN 1 ELSE 2]
       ELSE /\ Goto(o, "rejected")
            /\ UNCHANGED leg
  /\ UNCHANGED <<dbVars, openVars, req, snap>>

\* Fault: the transaction is recorded as done before it is.
CreateCompleted(o) ==
  /\ pc[o] = "record"
  /\ txStatus' = [txStatus EXCEPT ![o] = "COMPLETED"]
  /\ Goto(o, "read")
  /\ UNCHANGED <<operational, balance, version, ledger, openVars, leg, req, snap>>

\* transactions.create
CreateTransaction(o) ==
  /\ pc[o] = "record"
  /\ txStatus' = [txStatus EXCEPT ![o] = "PENDING"]
  /\ Goto(o, "read")
  /\ UNCHANGED <<operational, balance, version, ledger, openVars, leg, req, snap>>

\* Fault: the answer is sent without completing the transaction.
CompleteNothing(o) ==
  /\ pc[o] = "complete"
  /\ Goto(o, "done")
  /\ UNCHANGED <<dbVars, openVars, leg, req, snap>>

\* transactions.complete
CompleteTransaction(o) ==
  /\ pc[o] = "complete"
  /\ txStatus' = [txStatus EXCEPT ![o] = "COMPLETED"]
  /\ Goto(o, "done")
  /\ UNCHANGED <<operational, balance, version, ledger, openVars, leg, req, snap>>

-----------------------------------------------------------------------------
(* Inside the database transaction: applyEntry and applyTransfer. *)

\* Fault: an aborted transaction keeps its row locks.
ReleaseNothing(o) == UNCHANGED rowLock

\* Rolls back: every row o updated is unlocked and keeps its committed value.
Release(o) == rowLock' = [w \in Wallets |-> IF rowLock[w] = o THEN NoOp ELSE rowLock[w]]

\* Fault: a debit is not compared with the balance.
ReadBalanceUnchecked(o) ==
  /\ pc[o] = "read"
  /\ snap' = [snap EXCEPT ![o] = [balance |-> balance[Here(o)], version |-> version[Here(o)]]]
  /\ Goto(o, "write")
  /\ UNCHANGED <<dbVars, openVars, leg, req>>

\* applyEntryInTx: read the row; a debit it cannot pay for throws.
ReadBalance(o) ==
  /\ pc[o] = "read"
  /\ snap' = [snap EXCEPT ![o] = [balance |-> balance[Here(o)], version |-> version[Here(o)]]]
  /\ IF Debits(o, Here(o)) /\ balance[Here(o)] < req[o].amount
       THEN Goto(o, "failed") /\ Release(o)
       ELSE Goto(o, "write") /\ UNCHANGED rowLock
  /\ UNCHANGED <<dbVars, dirty, leg, req>>

\* Fault: the update is by id alone.
VersionIgnored(o) == TRUE

\* The version predicate of the update, evaluated once the row is free.
VersionUnchanged(o) == version[Here(o)] = snap[o].version

\* applyEntryInTx: update the row WHERE id AND version; no row is an error.
WriteBalance(o) ==
  /\ pc[o] = "write"
  /\ rowLock[Here(o)] = NoOp
  /\ IF VersionUnchanged(o)
       THEN /\ rowLock' = [rowLock EXCEPT ![Here(o)] = o]
            /\ dirty' = [dirty EXCEPT ![Here(o)] = After(o, Here(o), snap[o].balance)]
            /\ Goto(o, IF AtLastLeg(o) THEN "commit" ELSE "read")
            /\ leg' = [leg EXCEPT ![o] = IF AtLastLeg(o) THEN 1 ELSE 2]
       ELSE /\ Goto(o, "failed")
            /\ Release(o)
            /\ UNCHANGED <<dirty, leg>>
  /\ UNCHANGED <<dbVars, req, snap>>

\* Commit: the rows o updated, with their ledger entries, become visible together.
Commit(o) ==
  /\ pc[o] = "commit"
  /\ balance' = [w \in Wallets |-> IF w \in Locked(o) THEN dirty[w] ELSE balance[w]]
  /\ version' = [w \in Wallets |-> IF w \in Locked(o) THEN version[w] + 1 ELSE version[w]]
  /\ ledger' = [w \in Wallets |-> IF w \in Locked(o)
                                    THEN Append(ledger[w], Entry(o, w, dirty[w]))
                                    ELSE ledger[w]]
  /\ Release(o)
  /\ Goto(o, "complete")
  /\ UNCHANGED <<operational, txStatus, dirty, leg, req, snap>>

\* Fault: the two legs are not one transaction: what was written stays.
RollbackKeepsFirstLeg(o) ==
  /\ pc[o] \in InTransaction
  /\ balance' = [w \in Wallets |-> IF w \in Locked(o) THEN dirty[w] ELSE balance[w]]
  /\ version' = [w \in Wallets |-> IF w \in Locked(o) THEN version[w] + 1 ELSE version[w]]
  /\ ledger' = [w \in Wallets |-> IF w \in Locked(o)
                                    THEN Append(ledger[w], Entry(o, w, dirty[w]))
                                    ELSE ledger[w]]
  /\ Goto(o, "failed")
  /\ Release(o)
  /\ UNCHANGED <<operational, txStatus, dirty, leg, req, snap>>

\* Prisma's transaction timeout or a lost connection ends it early.
Rollback(o) ==
  /\ pc[o] \in InTransaction
  /\ Goto(o, "failed")
  /\ Release(o)
  /\ UNCHANGED <<dbVars, dirty, leg, req, snap>>

-----------------------------------------------------------------------------
(* The database and the world. *)

Waiting(o) == pc[o] = "write" /\ rowLock[Here(o)] # NoOp

Awaits(o, p) == Waiting(o) /\ rowLock[Here(o)] = p

\* Operations that wait in a cycle for one another's row locks.
Deadlocked(S) ==
  /\ S # {}
  /\ \A o \in S : \E p \in S : Awaits(o, p)
  /\ \A p \in S : \E o \in S : Awaits(o, p)

\* Postgres finds the cycle and aborts one of the transactions in it.
BreakDeadlock(o) ==
  /\ \E S \in SUBSET Ops : o \in S /\ Deadlocked(S)
  /\ Goto(o, "failed")
  /\ Release(o)
  /\ UNCHANGED <<dbVars, dirty, leg, req, snap>>

\* The service dies, or transactions.create or complete throws: an open database
\* transaction is rolled back, the caller learns nothing of what was posted, and
\* no code ever looks for a PENDING wallet transaction again.
Crash(o) ==
  /\ pc[o] \notin Ended \cup {"idle"}
  /\ Goto(o, "crashed")
  /\ Release(o)
  /\ UNCHANGED <<dbVars, dirty, leg, req, snap>>

\* A committed transitionStatus: WalletLifecycle shows that any existing
\* wallet may become ACTIVE or cease to be.
ChangeStatus(w) ==
  /\ operational' = IF w \in operational THEN operational \ {w} ELSE operational \cup {w}
  /\ UNCHANGED <<balance, version, ledger, txStatus, openVars, opVars>>

Step(o) == \/ Load(o) \/ CreateTransaction(o)
           \/ ReadBalance(o) \/ WriteBalance(o) \/ Commit(o)
           \/ CompleteTransaction(o)

Next == \/ \E o \in Ops : Begin(o) \/ Step(o) \/ Rollback(o) \/ BreakDeadlock(o) \/ Crash(o)
        \/ \E w \in Wallets : ChangeStatus(w)

\* The event loop runs every request on, and the database breaks deadlocks.
Fairness == /\ \A o \in Ops : WF_vars(Step(o))
            /\ WF_vars(\E o \in Ops : BreakDeadlock(o))

SafetySpec == Init /\ [][Next]_vars

Spec == Init /\ [][Next]_vars /\ Fairness

-----------------------------------------------------------------------------
(* What makes the ledger correct. *)

Effect(e) == IF e.type = "DEBIT" THEN 0 - e.amount ELSE e.amount

BalanceBefore(w, i) == IF i = 1 THEN 0 ELSE ledger[w][i - 1].after

\* Recomputing a wallet from its ledger entries, one after the other, gives its
\* balance row, and the row's version counts them: what RUNBOOKS.md RB-07 does
\* when a ledger is suspected, and what the version predicate is there to keep.
BalanceIsLedger ==
  \A w \in Wallets :
    /\ version[w] = Len(ledger[w])
    /\ balance[w] = BalanceBefore(w, Len(ledger[w]) + 1)
    /\ \A i \in 1..Len(ledger[w]) :
         ledger[w][i].after = BalanceBefore(w, i) + Effect(ledger[w][i])

PostedAt(o, w) == {i \in 1..Len(ledger[w]) : ledger[w][i].op = o}
Posted(o) == \E w \in Wallets : PostedAt(o, w) # {}

Touched(o) == {w \in Wallets : w = req[o].from \/ w = req[o].to}

\* An operation's entries are all there, one per wallet it names, of the amount
\* asked and on the right sides, or none is: applyTransfer commits both legs in
\* one transaction, and no second run of the same operation adds to them.
WholeOrNothing ==
  \A o \in Ops : Posted(o) =>
    \A w \in Wallets :
      IF w \in Touched(o)
        THEN \E i \in PostedAt(o, w) :
               /\ PostedAt(o, w) = {i}
               /\ ledger[w][i] = Entry(o, w, ledger[w][i].after)
        ELSE PostedAt(o, w) = {}

\* The caller is told the truth: an operation answered with success is posted
\* and its transaction COMPLETED, one that the checks or the database transaction
\* refuse posted nothing, and a transaction is COMPLETED only when it is posted.
\* (A server error says neither: see Crash.)
AnswerIsTrue ==
  \A o \in Ops :
    /\ pc[o] = "done" => Posted(o) /\ txStatus[o] = "COMPLETED"
    /\ pc[o] \in {"rejected", "failed"} => ~ Posted(o) /\ txStatus[o] # "COMPLETED"
    /\ txStatus[o] = "COMPLETED" => Posted(o)

\* Only transfers are aborted to break a deadlock, each with its debit written and
\* its credit to write: a credit or a debit locks one row, and waits before it does.
OnlyTransfersDeadlock ==
  \A S \in SUBSET Ops : Deadlocked(S) =>
    \A o \in S : /\ {req[o].from, req[o].to} \subseteq Wallets
                 /\ Here(o) = req[o].to /\ Locked(o) = {req[o].from}

\* Nobody waits for nothing: while an operation waits for a row, another one in
\* the database can go on, or there is a cycle for the database to break.
WaitIsForSomebody ==
  \A o \in Ops : Waiting(o) =>
    \/ \E p \in Ops : pc[p] \in InTransaction /\ ~ Waiting(p)
    \/ \E S \in SUBSET Ops : Deadlocked(S)

\* No call waits for ever, whatever locks the operations hold: each one that
\* starts is answered, unless the service died under it.
EveryCallEnds == \A o \in Ops : (pc[o] = "load") ~> (pc[o] \in Ended)

\* A posted transaction does not stay PENDING: it is completed unless the service
\* died between the commit and transactions.complete, or that call threw.
PostedIsCompleted ==
  \A o \in Ops : Posted(o) ~> (txStatus[o] = "COMPLETED" \/ pc[o] = "crashed")

-----------------------------------------------------------------------------
(* The strengthening that makes the invariants above inductive (proved in    *)
(* WalletLedgerProofs): IInv, and AnswerInv on top of it.                    *)

\* A request under way is a proper one, and past its checks a proper posting.
ControlInv ==
  \A o \in Ops :
    /\ pc[o] # "idle" => req[o] \in Requests
    /\ pc[o] \notin {"idle", "rejected"} => req[o].from # req[o].to
    /\ leg[o] = 2 => {req[o].from, req[o].to} \subseteq Wallets
    /\ pc[o] \in {"idle", "record", "commit", "complete"} => leg[o] = 1
    /\ pc[o] \in {"record", "complete"} \cup InTransaction =>
         /\ req[o].amount > 0
         /\ {req[o].from, req[o].to} \subseteq Wallets =>
              AssetOf[req[o].from] = AssetOf[req[o].to]

\* The rows an open transaction holds are the ones its legs have been through.
LockInv ==
  \A o \in Ops :
    Locked(o) = CASE pc[o] = "commit" -> Touched(o)
                  [] pc[o] \in {"read", "write"} /\ leg[o] = 2 -> {req[o].from}
                  [] OTHER -> {}

\* While the version a transaction read is still current, so is the balance.
SnapInv ==
  \A o \in Ops : pc[o] = "write" =>
    /\ Debits(o, Here(o)) => snap[o].balance >= req[o].amount
    /\ snap[o].version <= version[Here(o)]
    /\ snap[o].version = version[Here(o)] => snap[o].balance = balance[Here(o)]

\* Behind a row lock is the committed balance moved by the holder's amount.
DirtyInv ==
  \A w \in Wallets : rowLock[w] \in Ops => dirty[w] = After(rowLock[w], w, balance[w])

\* Before its commit an operation has posted nothing.
UnpostedInv ==
  \A o \in Ops : pc[o] \notin {"complete", "done", "crashed"} => ~ Posted(o)

\* A call on its way to a positive answer has posted, and only one answered so
\* has its transaction COMPLETED.
AnswerInv ==
  \A o \in Ops :
    /\ pc[o] \in {"complete", "done"} => Posted(o)
    /\ txStatus[o] = "COMPLETED" <=> pc[o] = "done"

IInv == /\ TypeOK /\ ControlInv /\ LockInv /\ SnapInv /\ DirtyInv
        /\ BalanceIsLedger /\ UnpostedInv /\ WholeOrNothing

-----------------------------------------------------------------------------
(* The ledger keeps what LedgerPromise promises: an operation is posted at   *)
(* the commit of its database transaction, and every other step stutters.    *)

Promise == INSTANCE LedgerPromise WITH
  posted <- [o \in Ops |-> IF Posted(o) THEN req[o] ELSE NoRequest]

ImplementsPromise == Promise!PromiseSpec

\* Per asset, the balance rows add up to the opening ones plus what operations
\* credited and debited from outside: rolled back, repeated, refused or crossed,
\* no transfer creates or destroys money.
Conservation == Promise!MoneyConserved

=============================================================================
