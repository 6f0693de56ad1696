----------------------------- MODULE MCServices -----------------------------
(* Six parts of the system that share no state, each by itself: which one    *)
(* is chosen in the initial state, and the others stay in theirs.            *)
EXTENDS WalletLifecycle, TransferReview, AuthSessions, NotificationQueue,
        KycVerification, FiniteSets, TLC

CONSTANTS x1, x2, y1, y2, z1, z2,        \* calls that nothing tells apart
          p3, k1, k2                     \* a prepare call and the keys

VARIABLE service

servicesVars == <<lifecycleVars, reviewVars, authVars, queueVars, kycVars,
                  service>>

MCKeyOf == [c \in Prepares |-> IF c = p3 THEN k2 ELSE k1]

Init ==
  /\ service \in {"wallets", "transfers", "simulations", "sessions", "notifications",
                 "identity"}
  /\ LifecycleInit /\ ReviewInit /\ AuthInit /\ QueueInit /\ KycInit
  /\ service # "wallets" => \A a \in Actors : areq[a] = [wallet |-> CHOOSE w \in Wallets : TRUE, goal |-> "CREATE"]
  /\ service # "sessions" => verified

\* Of the sessions: a login, both refreshes and a change are made, or any three calls.
AuthArrival ==
  LET begun == {c \in Calls : upc[c] # "idle"}
      now == {c \in Calls : upc'[c] # "idle"}
  IN \/ Cardinality(begun) < 3 /\ AuthArrive
     \/ /\ Cardinality(begun) = 3 /\ ~ (Changes \subseteq begun \/ Logins \subseteq begun)
        /\ AuthArrive
        /\ ~ (Changes \subseteq now \/ Logins \subseteq now)

\* Of the identity verification: any three calls arrive, or four, two of which
\* deliver one event, after a submission that was done before the other three began.
KycArrival ==
  LET begun == {c \in KycCalls : Begun(c)}
      first == {s \in Submits : kpc[s] = "done" /\ \A c \in begun \ {s} : s \in before[c]}
  IN \/ Cardinality(begun) < 3 /\ KycArrive
     \/ /\ Cardinality(begun) = 3 /\ first # {}
        /\ KycArrive
        /\ \A d, e \in Deliveries : kpc'[d] # "idle" /\ event'[d] = event'[e]

Next ==
  \/ /\ service = "wallets" /\ LifecycleNext
     /\ UNCHANGED <<reviewVars, authVars, queueVars, kycVars, service>>
  \/ /\ service = "transfers" /\ TransferNext
     /\ UNCHANGED <<lifecycleVars, authVars, queueVars, kycVars, service>>
  \/ /\ service = "simulations" /\ SimulationNext
     /\ UNCHANGED <<lifecycleVars, authVars, queueVars, kycVars, service>>
  \/ /\ service = "sessions" /\ (AuthArrival \/ AuthProceed)
     /\ UNCHANGED <<lifecycleVars, reviewVars, queueVars, kycVars, service>>
  \/ /\ service = "notifications" /\ QueueNext
     /\ UNCHANGED <<lifecycleVars, reviewVars, authVars, kycVars, service>>
  \/ /\ service = "identity" /\ (KycArrival \/ KycProceed)
     /\ UNCHANGED <<lifecycleVars, reviewVars, authVars, queueVars, service>>

ServicesSpec == Init /\ [][Next]_servicesVars

CallSymmetry == Permutations({x1, x2}) \cup Permutations({y1, y2}) \cup Permutations({z1, z2})

=============================================================================
