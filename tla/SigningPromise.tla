-------------------------- MODULE SigningPromise --------------------------
(***************************************************************************)
(* What the custody service promises the owner of a key, with no word of   *)
(* statuses, counts or awaits: a request that needs approvals is signed    *)
(* only once as many distinct users have approved it as one of them was    *)
(* told it takes; an approval is never taken back, and whether a request   *)
(* needs any is settled when it is made.  CustodySigning implements it.    *)
(***************************************************************************)
EXTENDS Integers, FiniteSets

CONSTANTS Requests,    \* signing requests
          Approvers,   \* users who may approve
          Thresholds   \* approvals a policy may require

VARIABLES kind,        \* kind[q]: "none" yet, "free" to be signed, or "gated" by approvals
          consenting,  \* consenting[q]: the users who have approved q
          told,        \* told[q]: how many approvals they were told q takes
          made         \* the requests that have a signature

promiseVars == <<kind, consenting, told, made>>

Quorum(q) == \E n \in told[q] : Cardinality(consenting[q]) >= n

PromiseInit ==
  /\ kind = [q \in Requests |-> "none"]
  /\ consenting = [q \in Requests |-> {}]
  /\ told = [q \in Requests |-> {}]
  /\ made = {}

Ask(q, k) ==
  /\ kind[q] = "none"
  /\ kind' = [kind EXCEPT ![q] = k]
  /\ UNCHANGED <<consenting, told, made>>

Consent(q, u, n) ==
  /\ kind[q] = "gated"
  /\ consenting' = [consenting EXCEPT ![q] = @ \cup {u}]
  /\ told' = [told EXCEPT ![q] = @ \cup {n}]
  /\ UNCHANGED <<kind, made>>

MakeSignature(q) ==
  /\ kind[q] # "none"
  /\ kind[q] = "gated" => Quorum(q)
  /\ made' = made \cup {q}
  /\ UNCHANGED <<kind, consenting, told>>

PromiseNext ==
  \E q \in Requests :
    \/ \E k \in {"free", "gated"} : Ask(q, k)
    \/ \E u \in Approvers, n \in Thresholds : Consent(q, u, n)
    \/ MakeSignature(q)

PromiseSpec == PromiseInit /\ [][PromiseNext]_promiseVars

=============================================================================
