----------------------------- MODULE MCCustody ------------------------------
(* The two halves of the custody service, which share no state, each by      *)
(* itself: which one is chosen in the initial state.                         *)
(*                                                                           *)
(* Of the signing, one request; u1 approves twice, u2 once.  Of the keys,    *)
(* one key, two rotates and two recoveries of it: r1 needs two approvals and *)
(* is completed, r2 needs none and is rejected.                              *)
EXTENDS CustodySigning, CustodyKeys, TLC

CONSTANTS q1, u1, u2, r1, r2,
          a1, a2, a3, c1, c2     \* calls; of these a1 and a2, c1 and c2 are alike

VARIABLE half

MCRequestOf == [a \in Approvals \cup Rejections \cup Executions \cup Delays |-> q1]
MCApproverOf == [a \in Approvals |-> IF a = a3 THEN u2 ELSE u1]
MCRecoveryOf == [c \in Answers |-> IF c \in Refusals THEN r2 ELSE r1]
MCConsenterOf == [c \in Consents |-> u1]
MCRequired == [r \in Recoveries |-> IF r = r1 THEN 2 ELSE 0]

CustodyInit == half \in {"signing", "keys"} /\ Init /\ KeysInit

CustodyNext ==
  \/ half = "signing" /\ Next /\ UNCHANGED <<keysVars, half>>
  \/ half = "keys" /\ KeysNext /\ UNCHANGED <<vars, half>>

CustodySpec == CustodyInit /\ [][CustodyNext]_<<vars, keysVars, half>>

CallSymmetry == Permutations({a1, a2}) \cup Permutations({c1, c2})

\* Of the eleven calls on the key, any seven are made.
FewKeyCalls == Cardinality({c \in KeyCalls : kpc'[c] # "read"}) <= 7

=============================================================================
