--------------------------- MODULE LedgerPromise ---------------------------
(***************************************************************************)
(* What the wallet service's ledger promises its callers, with no word of  *)
(* rows, locks or versions: a posting happens at once and whole, at most   *)
(* once per operation, and only when the debited wallet can pay for it.    *)
(* WalletLedger implements it; the payment modules rely on it.             *)
(***************************************************************************)
EXTENDS Integers, Functions

CONSTANTS Wallets,    \* wallets
          AssetOf,    \* AssetOf[w]: the asset w is denominated in
          Ops,        \* operations asked of the ledger, each at most once
          Amounts,    \* amounts an operation may name
          NoWallet,   \* the missing side of a credit or of a debit
          Opening     \* Opening[w]: what w holds at the start

VARIABLES balance,    \* balance[w]: available units of w
          posted      \* posted[o]: the posting made for o, or NoPosting

promiseVars == <<balance, posted>>

\* A credit has no source, a debit no destination, a transfer both, in one asset.
Postings == {p \in [from : Wallets \cup {NoWallet}, to : Wallets \cup {NoWallet},
                    amount : Amounts \ {0}] :
               /\ p.from # p.to
               /\ {p.from, p.to} \subseteq Wallets => AssetOf[p.from] = AssetOf[p.to]}

NoPosting == [from |-> NoWallet, to |-> NoWallet, amount |-> 0]

\* The change a posting makes to wallet w.
Delta(p, w) == IF w = p.from THEN 0 - p.amount
               ELSE IF w = p.to THEN p.amount ELSE 0

PromiseInit ==
  /\ balance = Opening
  /\ posted = [o \in Ops |-> NoPosting]

\* Both sides of a posting move together, or nothing does.
Post(o, p) ==
  /\ posted[o] = NoPosting
  /\ p.from \in Wallets => balance[p.from] >= p.amount
  /\ balance' = [w \in Wallets |-> balance[w] + Delta(p, w)]
  /\ posted' = [posted EXCEPT ![o] = p]

PromiseNext == \E o \in Ops, p \in Postings : Post(o, p)

PromiseSpec == PromiseInit /\ [][PromiseNext]_promiseVars

-----------------------------------------------------------------------------
(* What follows from the promise. *)

\* The posted operations; the wallets of the asset w is denominated in.
PostedOps == {o \in Ops : posted[o] # NoPosting}
SameAsset(w) == {v \in Wallets : AssetOf[v] = AssetOf[w]}

\* What a posting brings to the wallets in mine, or takes from them, as a credit
\* or a debit from outside; a transfer between wallets brings nothing.
External(p, mine) == IF p.from = NoWallet /\ p.to \in mine THEN p.amount
                     ELSE IF p.to = NoWallet /\ p.from \in mine THEN 0 - p.amount ELSE 0

\* Per asset, what the wallets hold is what they opened with, plus the credits
\* and minus the debits posted from outside: no interleaving of transfers
\* creates or destroys money, and none crosses from one asset to another.
MoneyConserved ==
  \A w \in Wallets :
    LET mine == SameAsset(w)
    IN SumFunctionOnSet(balance, mine) =
         SumFunctionOnSet(Opening, mine)
           + SumFunctionOnSet([o \in Ops |-> External(posted[o], mine)], PostedOps)

=============================================================================
