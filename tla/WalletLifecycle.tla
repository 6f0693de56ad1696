-------------------------- MODULE WalletLifecycle --------------------------
(***************************************************************************)
(* The life of a wallet row in the wallet service: its creation, its       *)
(* status and the history of its status.                                   *)
(*                                                                         *)
(* An actor is one HTTP request handled by WalletService.  A request reads *)
(* the wallet, checks the transition against ALLOWED_TRANSITIONS, and only *)
(* then opens a database transaction (transitionStatus) that reads the row *)
(* again for the history entry and updates it by id alone.  Postgres runs  *)
(* it at READ COMMITTED, so every await is a place where another request   *)
(* may step in.                                                            *)
(***************************************************************************)
EXTENDS Naturals, Sequences

CONSTANTS Wallets,    \* wallet rows: one per (owner, asset, alias)
          Actors      \* requests that create a wallet or change its status

VARIABLES status,     \* status[w]: the committed status column
          history,    \* history[w]: the wallet_status_history rows, in commit order
          apc,        \* apc[a]: where request a is
          areq,       \* areq[a]: the wallet and the status request a asks for
          aseen       \* aseen[a]: the status its transaction read before the update

lifecycleVars == <<status, history, apc, areq, aseen>>

Statuses == {"PENDING", "ACTIVE", "SUSPENDED", "ARCHIVED"}

Absent == "ABSENT"    \* no row yet; also the null fromStatus of the first history entry

AllowedTransitions ==
  [PENDING   |-> {"ACTIVE"},
   ACTIVE    |-> {"SUSPENDED", "ARCHIVED"},
   SUSPENDED |-> {"ACTIVE", "ARCHIVED"},
   ARCHIVED  |-> {"ACTIVE"}]

CanTransition(from, to) == to \in AllowedTransitions[from]

\* What an actor can ask for: POST /wallets, or activate/restore, suspend, archive.
Goals == {"CREATE", "ACTIVE", "SUSPENDED", "ARCHIVED"}

ActorPCs == {"idle", "create", "transition", "update", "done", "crashed"}

LifecycleTypeOK ==
  /\ status \in [Wallets -> Statuses \cup {Absent}]
  /\ history \in [Wallets -> Seq([from : Statuses \cup {Absent}, to : Statuses])]
  /\ apc \in [Actors -> ActorPCs]
  /\ areq \in [Actors -> [wallet : Wallets, goal : Goals]]
  /\ aseen \in [Actors -> Statuses \cup {Absent}]

LifecycleInit ==
  /\ status = [w \in Wallets |-> Absent]
  /\ history = [w \in Wallets |-> << >>]
  /\ apc = [a \in Actors |-> "idle"]
  /\ areq \in [Actors -> [wallet : Wallets, goal : Goals]]
  /\ aseen = [a \in Actors |-> Absent]

-----------------------------------------------------------------------------
(* A definition marked Fault is a broken variant of the one that follows it: *)
(* no specification uses it, and it shows what the properties tell apart.    *)

MoveActor(a, to) == apc' = [apc EXCEPT ![a] = to]

Target(a) == IF areq[a].goal = "CREATE" THEN "ACTIVE" ELSE areq[a].goal

\* createWallet: findByOwnerAssetAlias answers a conflict when the wallet exists.
CheckCreate(a) ==
  /\ apc[a] = "idle"
  /\ areq[a].goal = "CREATE"
  /\ MoveActor(a, IF status[areq[a].wallet] = Absent THEN "create" ELSE "done")
  /\ UNCHANGED <<status, history, areq, aseen>>

\* Fault: the unique index is missing, so a second row takes the first one's place.
CreateRowUnchecked(a) ==
  LET w == areq[a].wallet IN
  /\ apc[a] = "create"
  /\ status' = [status EXCEPT ![w] = "PENDING"]
  /\ history' = [history EXCEPT ![w] = Append(@, [from |-> Absent, to |-> "PENDING"])]
  /\ MoveActor(a, "transition")
  /\ UNCHANGED <<areq, aseen>>

\* Fault: createWallet returns the PENDING wallet without activating it.
CreateRowOnly(a) ==
  LET w == areq[a].wallet IN
  /\ apc[a] = "create"
  /\ status[w] = Absent
  /\ status' = [status EXCEPT ![w] = "PENDING"]
  /\ history' = [history EXCEPT ![w] = Append(@, [from |-> Absent, to |-> "PENDING"])]
  /\ MoveActor(a, "done")
  /\ UNCHANGED <<areq, aseen>>

\* createWithZeroBalance: wallet, balance and first history row in one
\* transaction; the unique index on (owner, asset, alias) refuses a second.
CreateRow(a) ==
  LET w == areq[a].wallet IN
  /\ apc[a] = "create"
  /\ IF status[w] = Absent
       THEN /\ status' = [status EXCEPT ![w] = "PENDING"]
            /\ history' = [history EXCEPT ![w] =
                             Append(@, [from |-> Absent, to |-> "PENDING"])]
            /\ MoveActor(a, "transition")
       ELSE /\ MoveActor(a, "done")
            /\ UNCHANGED <<status, history>>
  /\ UNCHANGED <<areq, aseen>>

\* activate, suspend, archive, restore and their admin twins: the wallet is
\* read and assertStatusTransition is evaluated on that copy.
CheckTransition(a) ==
  LET w == areq[a].wallet IN
  /\ apc[a] = "idle"
  /\ areq[a].goal # "CREATE"
  /\ MoveActor(a, IF status[w] # Absent /\ CanTransition(status[w], Target(a))
                    THEN "transition" ELSE "done")
  /\ UNCHANGED <<status, history, areq, aseen>>

\* transitionStatus, first statement: the row as committed now.
ReadRow(a) ==
  /\ apc[a] = "transition"
  /\ aseen' = [aseen EXCEPT ![a] = status[areq[a].wallet]]
  /\ MoveActor(a, "update")
  /\ UNCHANGED <<status, history, areq>>

\* Fault: the history row is not written.
WriteRowUnlogged(a) ==
  /\ apc[a] = "update"
  /\ status' = [status EXCEPT ![areq[a].wallet] = Target(a)]
  /\ MoveActor(a, "done")
  /\ UNCHANGED <<history, areq, aseen>>

\* transitionStatus, the rest: the update by id holds the row lock until the
\* history row is written and the transaction commits, so both are one step.
WriteRow(a) ==
  LET w == areq[a].wallet IN
  /\ apc[a] = "update"
  /\ status' = [status EXCEPT ![w] = Target(a)]
  /\ history' = [history EXCEPT ![w] = Append(@, [from |-> aseen[a], to |-> Target(a)])]
  /\ MoveActor(a, "done")
  /\ UNCHANGED <<areq, aseen>>

\* The process dies, or the call fails, between two statements.
CrashActor(a) ==
  /\ apc[a] \in {"create", "transition", "update"}
  /\ MoveActor(a, "crashed")
  /\ UNCHANGED <<status, history, areq, aseen>>

ActorStep(a) == \/ CheckCreate(a) \/ CreateRow(a)
                \/ CheckTransition(a) \/ ReadRow(a) \/ WriteRow(a)

LifecycleNext == \E a \in Actors : ActorStep(a) \/ CrashActor(a)

LifecycleSpec == LifecycleInit /\ [][LifecycleNext]_lifecycleVars

-----------------------------------------------------------------------------

Last(s) == s[Len(s)]

\* The status column and the audit trail agree: a wallet without history does
\* not exist, and otherwise its status is the one the last history row names
\* (prisma-wallet.repository.ts writes both in one transaction).
StatusIsLastHistory ==
  \A w \in Wallets :
    IF history[w] = << >> THEN status[w] = Absent
                          ELSE status[w] = Last(history[w]).to

\* However many createWallet requests race for one (owner, asset, alias), one
\* row is born: the first history entry, and no later one, leaves Absent.
BornOnce ==
  \A w \in Wallets : \A i \in 1..Len(history[w]) :
    (history[w][i].from = Absent) <=> (i = 1)

\* A row does not stay PENDING: the creation that wrote it is on its way to
\* activate it, unless it crashed between its two transactions.
PendingIsOwed ==
  \A w \in Wallets : status[w] = "PENDING" =>
    \E a \in Actors : /\ areq[a] = [wallet |-> w, goal |-> "CREATE"]
                      /\ apc[a] \in {"transition", "update", "crashed"}

=============================================================================
