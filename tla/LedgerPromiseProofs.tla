------------------------ MODULE LedgerPromiseProofs ------------------------
(***************************************************************************)
(* What any ledger that keeps LedgerPromise gives its callers: it never    *)
(* owes, and it conserves money.  The sums are the library's recursive     *)
(* SumFunctionOnSet; the lemmas of the first part say what it computes.    *)
(***************************************************************************)
EXTENDS LedgerPromise, FiniteSetTheorems, WellFoundedInduction, TLAPS

-----------------------------------------------------------------------------
(* Sums over finite sets. *)

\* Induction over the subsets of a finite set, with a set in the place of a
\* predicate: no strictly descending chain of finite sets is infinite.
LEMMA FiniteInduction ==
  ASSUME NEW S, IsFiniteSet(S), NEW Good,
         \A T \in SUBSET S : (\A U \in SUBSET T : U # T => U \in Good) => T \in Good
  PROVE  S \in Good
<1> SUFFICES ASSUME S \notin Good PROVE FALSE
  OBVIOUS
<1> DEFINE Bad == (SUBSET S) \ Good
           R == StrictSubsetOrdering(S)
<1>1. IsWellFoundedOn(R, FiniteSubsetsOf(S)) /\ FiniteSubsetsOf(S) = SUBSET S
  BY FS_StrictSubsetOrderingWellFounded, FS_FiniteSubsetsOfFinite
<1>2. Bad \subseteq FiniteSubsetsOf(S) /\ Bad # {}
  BY <1>1
<1> HIDE DEF Bad, R
<1>3. PICK T \in Bad : \A U \in Bad : ~ (<<U, T>> \in R)
  BY <1>1, <1>2, WFMin
<1>4. \A U \in SUBSET T : U # T => U \in Good
  BY <1>3 DEF Bad, R, StrictSubsetOrdering
<1> QED
  BY <1>3, <1>4 DEF Bad

\* The element SumFunctionOnSet takes out of T first, and its recursion.
Any(T) == CHOOSE y \in T : TRUE

\* A set that is not empty has that element.
LEMMA AnyIsMember == \A T : T # {} => Any(T) \in T
BY DEF Any

IsSum(g, f, S) ==
  g = [T \in SUBSET S |-> IF T = {} THEN 0 ELSE f[Any(T)] + g[T \ {Any(T)}]]

\* Two such recursions, over a set and over a larger one, agree on the smaller.
LEMMA SumsAgree ==
  ASSUME NEW S, IsFiniteSet(S), NEW f, NEW g, NEW h, NEW U,
         S \subseteq U, IsSum(g, f, S), IsSum(h, f, U)
  PROVE  g[S] = h[S]
<1> DEFINE Good == {T \in SUBSET S : g[T] = h[T]}
<1>1. ASSUME NEW T \in SUBSET S, \A V \in SUBSET T : V # T => V \in Good
      PROVE  T \in Good
  <2>1. CASE T = {}
    BY <2>1 DEF IsSum
  <2>2. CASE T # {}
    <3>1. Any(T) \in T
      BY <2>2, AnyIsMember
    <3>2. T \ {Any(T)} \in Good
      BY <1>1, <3>1
    <3>3. g[T] = f[Any(T)] + g[T \ {Any(T)}]
      BY <2>2 DEF IsSum
    <3>4. h[T] = f[Any(T)] + h[T \ {Any(T)}]
      BY <2>2 DEF IsSum
    <3> QED
      BY <3>2, <3>3, <3>4
  <2> QED
    BY <2>1, <2>2
<1> HIDE DEF Good
<1>2. S \in Good
  BY <1>1, FiniteInduction
<1> QED
  BY <1>2 DEF Good

\* Over a finite set there is one: every set uses those of its proper subsets.
LEMMA SumExists ==
  ASSUME NEW S, IsFiniteSet(S), NEW f
  PROVE  \E g : IsSum(g, f, S)
<1> DEFINE Good == {T \in SUBSET S : \E g : IsSum(g, f, T)}
           G(T) == CHOOSE g : IsSum(g, f, T)
<1>1. ASSUME NEW T \in SUBSET S, \A V \in SUBSET T : V # T => V \in Good
      PROVE  T \in Good
  <2>1. \A V \in SUBSET T : V # T => IsSum(G(V), f, V)
    BY <1>1
  <2>2. ASSUME NEW V \in SUBSET T, V # T, NEW W \in SUBSET V
        PROVE  G(V)[W] = G(W)[W]
    <3>1. IsFiniteSet(W) /\ W # T
      BY <2>2, FS_Subset
    <3>2. IsSum(G(V), f, V) /\ IsSum(G(W), f, W)
      BY <2>1, <2>2, <3>1
    <3> HIDE DEF G
    <3> QED
      BY <3>1, <3>2, SumsAgree
  <2> DEFINE c == Any(T)
             g == [V \in SUBSET T |->
                     IF V # T THEN G(V)[V]
                     ELSE IF T = {} THEN 0 ELSE f[c] + G(T \ {c})[T \ {c}]]
  <2> HIDE DEF G
  <2>3. ASSUME NEW V \in SUBSET T
        PROVE  g[V] = IF V = {} THEN 0 ELSE f[Any(V)] + g[V \ {Any(V)}]
    <3>1. V # {} => Any(V) \in V /\ V \ {Any(V)} # T
      BY AnyIsMember
    <3>2. CASE V = T
      BY <3>1, <3>2
    <3>3. CASE V # T
      <4>1. CASE V = {}
        <5>1. G(V)[V] = 0
          BY <2>1, <3>3, <4>1 DEF IsSum
        <5> QED
          BY <3>3, <4>1, <5>1
      <4>2. CASE V # {}
        <5>1. G(V)[V] = f[Any(V)] + G(V)[V \ {Any(V)}]
          BY <2>1, <3>3, <4>2 DEF IsSum
        <5>2. G(V)[V \ {Any(V)}] = G(V \ {Any(V)})[V \ {Any(V)}]
          BY <2>2, <3>3
        <5> QED
          BY <3>1, <3>3, <4>2, <5>1, <5>2
      <4> QED
        BY <4>1, <4>2
    <3> QED
      BY <3>2, <3>3
  <2>4. IsSum(g, f, T)
    BY <2>3 DEF IsSum
  <2> QED
    BY <2>4
<1> HIDE DEF Good
<1>2. S \in Good
  BY <1>1, FiniteInduction
<1> QED
  BY <1>2 DEF Good

\* SumFunctionOnSet computes it.
LEMMA SumIsSum ==
  ASSUME NEW S, IsFiniteSet(S), NEW f
  PROVE  \E g : IsSum(g, f, S) /\ \A T \in SUBSET S : SumFunctionOnSet(f, T) = g[T]
<1>1. PICK g : IsSum(g, f, S)
  BY SumExists
<1>2. ASSUME NEW T \in SUBSET S
      PROVE  SumFunctionOnSet(f, T) = g[T]
  <2> DEFINE h == CHOOSE k : IsSum(k, f, T)
  <2>1. IsFiniteSet(T)
    BY FS_Subset
  <2>2. IsSum(h, f, T)
    BY <2>1, SumExists
  <2>3. SumFunctionOnSet(f, T) = h[T]
    BY Zenon DEF SumFunctionOnSet, FoldFunctionOnSet, MapThenFoldSet, IsSum, Any
  <2> HIDE DEF h
  <2> QED
    BY <1>1, <2>1, <2>2, <2>3, SumsAgree
<1> QED
  BY <1>1, <1>2

\* The sum over no element.
LEMMA SumEmpty == \A f : SumFunctionOnSet(f, {}) = 0
<1> TAKE f
<1>1. IsFiniteSet({})
  BY FS_EmptySet
<1>2. PICK g : IsSum(g, f, {}) /\ SumFunctionOnSet(f, {}) = g[{}]
  BY <1>1, SumIsSum
<1> QED
  BY <1>2 DEF IsSum

\* The sum takes out one element, the one CHOOSE picks.
LEMMA SumStep ==
  ASSUME NEW S, IsFiniteSet(S), S # {}, NEW f
  PROVE  SumFunctionOnSet(f, S) = f[Any(S)] + SumFunctionOnSet(f, S \ {Any(S)})
<1>1. PICK g : IsSum(g, f, S) /\ \A T \in SUBSET S : SumFunctionOnSet(f, T) = g[T]
  BY SumIsSum
<1>2. g[S] = f[Any(S)] + g[S \ {Any(S)}]
  BY <1>1 DEF IsSum
<1> QED
  BY <1>1, <1>2

\* Any other element can be taken out as well: the order does not matter.
LEMMA SumRemove ==
  ASSUME NEW S, IsFiniteSet(S), NEW f, \A x \in S : f[x] \in Int
  PROVE  /\ SumFunctionOnSet(f, S) \in Int
         /\ \A x \in S : SumFunctionOnSet(f, S) = f[x] + SumFunctionOnSet(f, S \ {x})
<1> DEFINE Sum(T) == SumFunctionOnSet(f, T)
           Good == {T \in SUBSET S : Sum(T) \in Int /\ \A x \in T : Sum(T) = f[x] + Sum(T \ {x})}
<1>0. \A T \in SUBSET S : T # {} => Any(T) \in T /\ Sum(T) = f[Any(T)] + Sum(T \ {Any(T)})
  BY SumStep, AnyIsMember, FS_Subset
<1>e. Sum({}) = 0
  BY SumEmpty
<1> HIDE DEF Sum
<1>1. ASSUME NEW T \in SUBSET S, \A V \in SUBSET T : V # T => V \in Good
      PROVE  T \in Good
  <2>1. CASE T = {}
    BY <1>e, <2>1
  <2>2. CASE T # {}
    <3> DEFINE c == Any(T)
    <3>1. c \in T /\ Sum(T) = f[c] + Sum(T \ {c})
      BY <1>0, <2>2
    <3> HIDE DEF c
    <3>2. T \ {c} \in Good /\ f[c] \in Int
      BY <1>1, <3>1
    <3>3. ASSUME NEW x \in T, x # c
          PROVE  Sum(T) = f[x] + Sum(T \ {x})
      <4>1. T \ {x} \in Good /\ f[x] \in Int
        BY <1>1, <3>3
      <4>2. Sum(T \ {c}) = f[x] + Sum((T \ {c}) \ {x})
        BY <3>2, <3>3
      <4>3. Sum(T \ {x}) = f[c] + Sum((T \ {x}) \ {c})
        BY <3>1, <3>3, <4>1
      <4>4. (T \ {c}) \ {x} = (T \ {x}) \ {c}
        OBVIOUS
      <4>5. (T \ {x}) \ {c} \in Good
        BY <1>1, <3>1
      <4>6. Sum((T \ {x}) \ {c}) \in Int
        BY <4>5
      <4> QED
        BY <3>1, <3>2, <4>1, <4>2, <4>3, <4>4, <4>6
    <3> QED
      BY <3>1, <3>2, <3>3
  <2> QED
    BY <2>1, <2>2
<1> HIDE DEF Good
<1>2. S \in Good
  BY <1>1, FiniteInduction
<1> QED
  BY <1>2 DEF Good, Sum

\* Only the values on the set count.
LEMMA SumSame ==
  ASSUME NEW S, IsFiniteSet(S), NEW f, NEW g, \A x \in S : f[x] = g[x]
  PROVE  SumFunctionOnSet(f, S) = SumFunctionOnSet(g, S)
<1> DEFINE Good == {T \in SUBSET S : SumFunctionOnSet(f, T) = SumFunctionOnSet(g, T)}
<1>1. ASSUME NEW T \in SUBSET S, \A V \in SUBSET T : V # T => V \in Good
      PROVE  T \in Good
  <2>1. CASE T = {}
    BY <2>1, SumEmpty
  <2>2. CASE T # {}
    <3>1. IsFiniteSet(T) /\ Any(T) \in T
      BY <2>2, FS_Subset, AnyIsMember
    <3>2. T \ {Any(T)} \in Good
      BY <1>1, <3>1
    <3>3. /\ SumFunctionOnSet(f, T) = f[Any(T)] + SumFunctionOnSet(f, T \ {Any(T)})
          /\ SumFunctionOnSet(g, T) = g[Any(T)] + SumFunctionOnSet(g, T \ {Any(T)})
      BY <2>2, <3>1, SumStep
    <3> QED
      BY <3>1, <3>2, <3>3
  <2> QED
    BY <2>1, <2>2
<1> HIDE DEF Good
<1>2. S \in Good
  BY <1>1, FiniteInduction
<1> QED
  BY <1>2 DEF Good

\* On S, g is f with d more at a.
Moved(f, g, a, d, S) == \A x \in S : g[x] = f[x] + (IF x = a THEN d ELSE 0)

\* Changing one value changes the sum by as much, if the set has it.
LEMMA SumChange ==
  ASSUME NEW S, IsFiniteSet(S), NEW f, NEW g, NEW a, NEW d \in Int,
         \A x \in S : f[x] \in Int, Moved(f, g, a, d, S)
  PROVE  SumFunctionOnSet(g, S) = SumFunctionOnSet(f, S) + (IF a \in S THEN d ELSE 0)
<1> USE DEF Moved
<1>1. SumFunctionOnSet(f, S) \in Int
  BY SumRemove
<1>2. \A x \in S : g[x] \in Int
  OBVIOUS
<1>3. CASE a \in S
  <2>1. IsFiniteSet(S \ {a}) /\ \A x \in S \ {a} : f[x] = g[x]
    BY FS_RemoveElement
  <2>2. SumFunctionOnSet(f, S \ {a}) = SumFunctionOnSet(g, S \ {a})
    BY <2>1, SumSame
  <2>3. SumFunctionOnSet(f, S \ {a}) \in Int
    BY <2>1, SumRemove
  <2>4. /\ SumFunctionOnSet(f, S) = f[a] + SumFunctionOnSet(f, S \ {a})
        /\ SumFunctionOnSet(g, S) = g[a] + SumFunctionOnSet(g, S \ {a})
    BY <1>2, <1>3, SumRemove
  <2> QED
    BY <1>3, <2>2, <2>3, <2>4
<1>4. CASE a \notin S
  <2>1. \A x \in S : f[x] = g[x]
    BY <1>4
  <2>2. SumFunctionOnSet(f, S) = SumFunctionOnSet(g, S)
    BY <2>1, SumSame
  <2> QED
    BY <1>1, <1>4, <2>2
<1> QED
  BY <1>3, <1>4

-----------------------------------------------------------------------------
(* The promise. *)

\* What the proofs ask of the constants.
Sensible == /\ IsFiniteSet(Wallets)
            /\ Opening \in [Wallets -> Nat]
            /\ Amounts \subseteq Nat
            /\ NoWallet \notin Wallets

\* Type correctness of the promise: no balance is negative, and at any time only
\* finitely many operations are posted, however many there are.
PromiseTypeOK == /\ balance \in [Wallets -> Nat]
                 /\ posted \in [Ops -> Postings \cup {NoPosting}]
                 /\ IsFiniteSet(PostedOps)

\* A posting moves a positive amount, by as much on either side.
LEMMA PostingFacts ==
  ASSUME Sensible, NEW p \in Postings
  PROVE  /\ p.amount \in Nat \ {0} /\ p # NoPosting /\ p.from # p.to
         /\ \A w : Delta(p, w) \in Int
         /\ \A mine : External(p, mine) \in Int
<1>1. p.amount \in Nat \ {0} /\ p.from # p.to
  BY DEF Sensible, Postings
<1> QED
  BY <1>1 DEF NoPosting, Delta, External

\* The type invariant holds at the start.
LEMMA InitTypeOK == Sensible /\ PromiseInit => PromiseTypeOK
<1> SUFFICES ASSUME Sensible, PromiseInit PROVE PromiseTypeOK
  OBVIOUS
<1>1. PostedOps = {}
  BY DEF PromiseInit, PostedOps
<1> QED
  BY <1>1, FS_EmptySet DEF Sensible, PromiseInit, PromiseTypeOK

\* A posting keeps it: what a wallet pays, it has.
LEMMA PostTypeOK ==
  ASSUME Sensible, PromiseTypeOK, NEW o \in Ops, NEW p \in Postings, Post(o, p)
  PROVE  PromiseTypeOK' /\ PostedOps' = PostedOps \cup {o} /\ o \notin PostedOps
<1>1. p.amount \in Nat \ {0} /\ p # NoPosting
  BY PostingFacts
<1>2. PostedOps' = PostedOps \cup {o} /\ o \notin PostedOps
  BY <1>1 DEF Post, PostedOps, PromiseTypeOK
<1>3. \A w \in Wallets : balance[w] + Delta(p, w) \in Nat
  BY <1>1 DEF Post, PromiseTypeOK, Delta
<1>4. balance' \in [Wallets -> Nat]
  BY <1>3 DEF Post
<1>5. posted' \in [Ops -> Postings \cup {NoPosting}]
  BY DEF Post, PromiseTypeOK
<1>6. IsFiniteSet(PostedOps')
  BY <1>2, FS_AddElement DEF PromiseTypeOK
<1> QED
  BY <1>2, <1>4, <1>5, <1>6 DEF PromiseTypeOK

\* The sum of the balances of one asset moves by what comes from outside.
LEMMA BalanceSum ==
  ASSUME Sensible, PromiseTypeOK, NEW o \in Ops, NEW p \in Postings, Post(o, p),
         NEW v \in Wallets
  PROVE  SumFunctionOnSet(balance', SameAsset(v)) =
           SumFunctionOnSet(balance, SameAsset(v)) + External(p, SameAsset(v))
<1> DEFINE mine == SameAsset(v)
           d == 0 - p.amount
           half == [w \in Wallets |-> balance[w] + (IF w = p.from THEN d ELSE 0)]
<1>1. /\ p.amount \in Nat /\ p.from # p.to
      /\ p.from \in Wallets \cup {NoWallet} /\ p.to \in Wallets \cup {NoWallet}
  BY PostingFacts DEF Postings
<1>2. mine \subseteq Wallets /\ IsFiniteSet(mine)
  BY FS_Subset DEF SameAsset, Sensible
<1>3. \A w \in mine : /\ balance[w] \in Int /\ half[w] \in Int /\ balance'[w] \in Int
                       /\ half[w] = balance[w] + (IF w = p.from THEN d ELSE 0)
                       /\ balance'[w] = half[w] + (IF w = p.to THEN p.amount ELSE 0)
  BY <1>1, <1>2 DEF PromiseTypeOK, Post, Delta
<1>4. SumFunctionOnSet(balance, mine) \in Int
  BY <1>2, <1>3, SumRemove
<1>d. d \in Int
  BY <1>1
<1> HIDE DEF mine, half, d
<1>5. SumFunctionOnSet(half, mine) =
        SumFunctionOnSet(balance, mine) + (IF p.from \in mine THEN d ELSE 0)
  <2>1. \A w \in mine : balance[w] \in Int
    BY <1>3
  <2>2. Moved(balance, half, p.from, d, mine)
    BY <1>3 DEF Moved
  <2> QED
    BY <1>2, <1>d, <2>1, <2>2, SumChange
<1>6. SumFunctionOnSet(half, mine) \in Int
  BY <1>2, <1>3, SumRemove
<1>7. SumFunctionOnSet(balance', mine) =
        SumFunctionOnSet(half, mine) + (IF p.to \in mine THEN p.amount ELSE 0)
  <2>1. \A w \in mine : half[w] \in Int
    BY <1>3
  <2>2. Moved(half, balance', p.to, p.amount, mine)
    BY <1>3 DEF Moved
  <2>3. p.amount \in Int
    BY <1>1
  <2> QED
    BY <1>2, <2>1, <2>2, <2>3, SumChange
<1>8. /\ p.from # NoWallet /\ p.to # NoWallet => (p.from \in mine <=> p.to \in mine)
      /\ p.from = NoWallet => p.from \notin mine
      /\ p.to = NoWallet => p.to \notin mine
  BY <1>1 DEF mine, SameAsset, Postings, Sensible
<1>9. SumFunctionOnSet(balance', mine) =
        SumFunctionOnSet(balance, mine) + External(p, mine)
  BY <1>1, <1>4, <1>5, <1>7, <1>8 DEF External, d
<1> QED
  BY <1>9 DEF mine

\* So does the sum of what the posted operations brought.
LEMMA ExternalSum ==
  ASSUME Sensible, PromiseTypeOK, NEW o \in Ops, NEW p \in Postings, Post(o, p), NEW mine
  PROVE  /\ SumFunctionOnSet([q \in Ops |-> External(posted[q], mine)], PostedOps) \in Int
         /\ SumFunctionOnSet([q \in Ops |-> External(posted'[q], mine)], PostedOps') =
              SumFunctionOnSet([q \in Ops |-> External(posted[q], mine)], PostedOps)
                + External(p, mine)
<1> DEFINE f == [q \in Ops |-> External(posted[q], mine)]
           g == [q \in Ops |-> External(posted'[q], mine)]
<1>1. /\ PostedOps' = PostedOps \cup {o} /\ o \notin PostedOps /\ PostedOps \subseteq Ops
      /\ IsFiniteSet(PostedOps) /\ IsFiniteSet(PostedOps')
  BY PostTypeOK DEF PromiseTypeOK, PostedOps
<1>2. \A q \in PostedOps : posted[q] \in Postings /\ posted'[q] = posted[q]
  BY <1>1 DEF PromiseTypeOK, PostedOps, Post
<1>3. posted'[o] = p
  BY DEF Post, PromiseTypeOK
<1>4. /\ \A q \in PostedOps : f[q] \in Int /\ g[q] = f[q]
      /\ g[o] = External(p, mine) /\ g[o] \in Int
  BY <1>1, <1>2, <1>3, PostingFacts
<1> HIDE DEF f, g
<1>5. SumFunctionOnSet(f, PostedOps) \in Int
  BY <1>1, <1>4, SumRemove
<1>6. SumFunctionOnSet(f, PostedOps) = SumFunctionOnSet(g, PostedOps)
  BY <1>1, <1>4, SumSame
<1>7. SumFunctionOnSet(g, PostedOps') = g[o] + SumFunctionOnSet(g, PostedOps' \ {o})
  BY <1>1, <1>4, SumRemove
<1>8. PostedOps' \ {o} = PostedOps
  BY <1>1
<1>9. SumFunctionOnSet(g, PostedOps' \ {o}) = SumFunctionOnSet(f, PostedOps)
  BY <1>6, <1>8
<1>10. SumFunctionOnSet(g, PostedOps') = SumFunctionOnSet(f, PostedOps) + External(p, mine)
  BY <1>4, <1>5, <1>7, <1>9
<1> QED
  BY <1>5, <1>10 DEF f, g

\* A posting conserves money.
LEMMA PostConserves ==
  ASSUME Sensible, PromiseTypeOK, MoneyConserved,
         NEW o \in Ops, NEW p \in Postings, Post(o, p)
  PROVE  MoneyConserved'
<1> SUFFICES ASSUME NEW v \in Wallets
             PROVE  SumFunctionOnSet(balance', SameAsset(v)) =
                      SumFunctionOnSet(Opening, SameAsset(v))
                        + SumFunctionOnSet([q \in Ops |-> External(posted'[q], SameAsset(v))],
                                           PostedOps')
  BY DEF MoneyConserved, SameAsset
<1> DEFINE mine == SameAsset(v)
           before == SumFunctionOnSet([q \in Ops |-> External(posted[q], mine)], PostedOps)
           start == SumFunctionOnSet(Opening, mine)
<1>1. mine \subseteq Wallets /\ IsFiniteSet(mine)
  BY FS_Subset DEF SameAsset, Sensible
<1>2. start \in Int
  <2>1. \A w \in mine : Opening[w] \in Int
    BY <1>1 DEF Sensible
  <2> QED
    BY <1>1, <2>1, SumRemove
<1>3. SumFunctionOnSet(balance, mine) = start + before
  BY DEF MoneyConserved
<1>4. SumFunctionOnSet(balance', mine) = SumFunctionOnSet(balance, mine) + External(p, mine)
  BY BalanceSum
<1>5. /\ before \in Int
      /\ SumFunctionOnSet([q \in Ops |-> External(posted'[q], mine)], PostedOps') =
           before + External(p, mine)
  BY ExternalSum
<1>6. External(p, mine) \in Int
  BY PostingFacts
<1> HIDE DEF mine, before, start
<1> QED
  BY <1>2, <1>3, <1>4, <1>5, <1>6 DEF mine, before, start

\* Nothing is posted at the start, and nothing has moved.
LEMMA InitConserves == Sensible /\ PromiseInit => MoneyConserved
<1> SUFFICES ASSUME Sensible, PromiseInit, NEW v \in Wallets
             PROVE  SumFunctionOnSet(balance, SameAsset(v)) =
                      SumFunctionOnSet(Opening, SameAsset(v))
                        + SumFunctionOnSet([o \in Ops |-> External(posted[o], SameAsset(v))],
                                           PostedOps)
  BY DEF MoneyConserved
<1> DEFINE mine == SameAsset(v)
           f == [o \in Ops |-> External(posted[o], mine)]
<1>1. mine \subseteq Wallets /\ IsFiniteSet(mine)
  BY FS_Subset DEF SameAsset, Sensible
<1>2. \A w \in mine : Opening[w] \in Int
  BY <1>1 DEF Sensible
<1>3. SumFunctionOnSet(Opening, mine) \in Int
  BY <1>1, <1>2, SumRemove
<1>4. balance = Opening /\ PostedOps = {}
  BY DEF PromiseInit, PostedOps
<1> HIDE DEF f
<1>5. SumFunctionOnSet(f, PostedOps) = 0
  BY <1>4, SumEmpty
<1>6. SumFunctionOnSet(balance, mine) =
        SumFunctionOnSet(Opening, mine) + SumFunctionOnSet(f, PostedOps)
  BY <1>3, <1>4, <1>5
<1> QED
  BY <1>6 DEF f

\* Every step of the promise keeps both.
LEMMA PromiseStep ==
  Sensible /\ PromiseTypeOK /\ MoneyConserved /\ [PromiseNext]_promiseVars
    => PromiseTypeOK' /\ MoneyConserved'
<1> SUFFICES ASSUME Sensible, PromiseTypeOK, MoneyConserved, [PromiseNext]_promiseVars
             PROVE  PromiseTypeOK' /\ MoneyConserved'
  OBVIOUS
<1>1. ASSUME NEW o \in Ops, NEW p \in Postings, Post(o, p)
      PROVE  PromiseTypeOK' /\ MoneyConserved'
  BY <1>1, PostTypeOK, PostConserves
<1>2. CASE UNCHANGED promiseVars
  BY <1>2 DEF promiseVars, PromiseTypeOK, MoneyConserved, PostedOps, SameAsset
<1> QED
  BY <1>1, <1>2 DEF PromiseNext

\* A ledger that keeps the promise never owes: no balance is ever negative.
THEOREM NeverOwes ==
  ASSUME Sensible
  PROVE  PromiseSpec => [](PromiseTypeOK /\ MoneyConserved)
<1>1. PromiseInit => PromiseTypeOK /\ MoneyConserved
  BY InitTypeOK, InitConserves
<1>2. PromiseTypeOK /\ MoneyConserved /\ [PromiseNext]_promiseVars
        => (PromiseTypeOK /\ MoneyConserved)'
  BY PromiseStep
<1> QED
  BY <1>1, <1>2, PTL DEF PromiseSpec

\* It conserves money, asset by asset, whatever is posted and in what order.
THEOREM PromiseConserves ==
  ASSUME Sensible
  PROVE  PromiseSpec => []MoneyConserved
<1>1. PromiseTypeOK /\ MoneyConserved => MoneyConserved
  OBVIOUS
<1> QED
  BY <1>1, NeverOwes, PTL

=============================================================================
