------------------------- MODULE MCPaymentScenarios -------------------------
(* The payments of MCPayments under five sets of calls, one of them chosen in *)
(* the initial state: the other calls were refused before anything happened.  *)
EXTENDS MCPayments

\* Under the engine: a create, its retry and a refund of the transfer; a create, a
\* cancel and a refund of it; a create and two refunds of it; the deposit and the
\* withdrawal, or the deposit and the invoice, whose calls meet no failure of their own.
\* Nor does the create while neither of two refunds has been refused.
Retry == {c1, c4, r1}
Cancelling == {c1, x1, r1}
TwoRefunds == {c1, r1, r2}
Batch == {c2, c3}
Invoice == {c3}

ScenarioInit ==
  /\ \E S \in {Retry, Cancelling, TwoRefunds, Batch, Invoice} :
       pc = [a \in Actors |-> IF a \in Sweeps THEN "idle"
                              ELSE IF a \notin S THEN "refused"
                              ELSE IF a \in Callers THEN "lookup" ELSE "read"]
  /\ status = [p \in Payments |-> "none"]
  /\ refund = [r \in Refunds |-> "none"]
  /\ captured = {}
  /\ batch = [s \in Sweeps |-> NoBatch]
  /\ asked = [r \in Refunds |-> 0]
  /\ call = [a \in Calls |-> "none"]
  /\ Ledger!PromiseInit

\* The scenario a state belongs to: c2 and c3, which are never refused in theirs, are
\* made in the last two only; r1 and r2 are both asked for in the third only.
InBatch == pc[c3] # "refused"
InInvoice == InBatch /\ pc[c2] = "refused"
TwoUnderWay == "refused" \notin {pc[r1], pc[r2]}

InScenario ==
  /\ InBatch =>
       \A a \in Calls : pc'[a] \in {"refused", "error", "crashed", "fail"} => pc'[a] = pc[a]
  /\ TwoUnderWay /\ pc'[c1] \in {"error", "crashed", "fail"} => pc'[c1] = pc[c1]
  /\ ~ InInvoice => status'[m4] = "none"

ScenarioSpec == ScenarioInit /\ [][Next]_vars

CallSymmetry == Permutations({c1, c4}) \cup Permutations({r1, r2})

=============================================================================
