--------------------------- MODULE MCWalletLedger ---------------------------
(* WalletLedger on a few wallets: w1 and w2 of one asset, w3 of another.     *)
EXTENDS WalletLedger

CONSTANTS w1, w2, w3

MCAssetOf == [w \in Wallets |-> IF w = w3 THEN "gold" ELSE "silver"]

\* Enough in w1 and in w2 for one debit of any amount, too little for two of the
\* largest: opposite transfers wait for each other, and each wallet refuses some.
MCOpening == [w \in Wallets |-> IF w = w3 THEN 1 ELSE 2]

\* w3 stays ACTIVE and is named by transfers only, from it or to it: alone it does what
\* w1 does.  This refuses some requests and suspensions, and leaves every call others.
GoldIsTransferred ==
  /\ w3 \in operational'
  /\ \A o \in Ops :
       w3 \in {req'[o].from, req'[o].to} => NoWallet \notin {req'[o].from, req'[o].to}

=============================================================================
