----------------------------- MODULE MCPayments -----------------------------
(* Payments of one owner: m1 a transfer from w1 to w2, m2 a deposit into w2, *)
(* m3 a withdrawal from w2, m4 an invoice that no call routes.              *)
EXTENDS Payments, TLC

CONSTANTS w1, w2, m1, m2, m3, m4,        \* wallets, payments
          c1, c2, c3, c4, x1, r1, r2, s1 \* calls and sweeps

MCPaymentOf == [a \in Callers \cup Cancels \cup Refunds |->
                  IF a = c3 THEN m2 ELSE IF a = c2 /\ m3 \in Payments THEN m3
                  ELSE IF m1 \in Payments THEN m1
                  ELSE IF m2 \in Payments THEN m2 ELSE m3]
MCFromOf == [p \in Payments |-> CASE p = m1 -> w1 [] p = m3 -> w2 [] OTHER -> NoWallet]
MCToOf == [p \in Payments |-> IF p \in {m1, m2} THEN w2 ELSE NoWallet]
MCAmountOf == [p \in Payments |-> IF p = m3 THEN 2 ELSE 1]
MCOwnerOf == [p \in Payments |-> "owner"]
MCAssetOf == [w \in Wallets |-> "silver"]
MCRouted == Payments \cap {m1}

\* w1 can pay for the transfer, and its receiver has something of its own; the
\* withdrawal needs the deposit too.
MCOpening == [w \in Wallets |-> 1]

=============================================================================
