----------------------------- MODULE BrokerProofs -----------------------------
(***************************************************************************)
(* Proofs about MCBrokers and its parts PaperBroker, LiveOrders and        *)
(* ManualTrade (those about RiskAgent are in RiskProofs): for any          *)
(* companies, prices, quantities, callers, bounds and faults.              *)
(***************************************************************************)
EXTENDS MCBrokers, RiskProofs, WellFoundedInduction

(***************************************************************************)
(* Sums over finite sets.                                                  *)
(*                                                                         *)
(* SumFunctionOnSet is a recursive function over the subsets of a set.     *)
(* What holds of it is shown by its smallest counterexample: the strict    *)
(* inclusion of finite sets is well founded.                               *)
(***************************************************************************)

\* The numbers up to n are finitely many.
LEMMA UpToIsFinite ==
  ASSUME NEW n \in Nat
  PROVE  IsFiniteSet(1..n)
<1>1. 1 \in Int /\ n \in Int
  OBVIOUS
<1> QED
  BY <1>1, FS_Interval

\* Among sets of members of a finite set there is one that contains no other.
LEMMA Smallest ==
  ASSUME NEW S, IsFiniteSet(S), NEW T, T \subseteq SUBSET S, T # {}
  PROVE  \E m \in T : \A n \in T : n \subseteq m => n = m
<1>1. IsWellFoundedOn(StrictSubsetOrdering(S), SUBSET S)
  BY FS_StrictSubsetOrderingWellFounded, FS_FiniteSubsetsOfFinite
<1>2. \E m \in T : \A n \in T : ~ (<<n, m>> \in StrictSubsetOrdering(S))
  BY <1>1, WFMin
<1> QED
  BY <1>2 DEF StrictSubsetOrdering

Picked(s) == CHOOSE x \in s : TRUE

IsSum(h, F, S) ==
  h = [s \in SUBSET S |-> IF s = {} THEN 0 ELSE F[Picked(s)] + h[s \ {Picked(s)}]]

\* Of a set with members one is picked, and the rest is smaller.
LEMMA PickedIn ==
  ASSUME NEW s, s # {}
  PROVE  Picked(s) \in s /\ s \ {Picked(s)} \subseteq s /\ s \ {Picked(s)} # s
BY DEF Picked

\* Two such functions agree where both are defined.
LEMMA SumIsOne ==
  ASSUME NEW F, NEW G, NEW S, NEW T, NEW g, NEW h, IsSum(g, F, S), IsSum(h, G, T),
         NEW U, U \subseteq S, U \subseteq T, IsFiniteSet(U), \A x \in U : F[x] = G[x]
  PROVE  g[U] = h[U]
<1> DEFINE Bad == {V \in SUBSET U : g[V] # h[V]}
<1>1. SUFFICES ASSUME Bad # {} PROVE FALSE
  OBVIOUS
<1>2. PICK V \in Bad : \A W \in Bad : W \subseteq V => W = V
  <2>1. Bad \subseteq SUBSET U
    OBVIOUS
  <2> HIDE DEF Bad
  <2> QED
    BY <1>1, <2>1, Smallest
<1>3. g[V] = IF V = {} THEN 0 ELSE F[Picked(V)] + g[V \ {Picked(V)}]
  BY V \in SUBSET S DEF IsSum
<1>4. h[V] = IF V = {} THEN 0 ELSE G[Picked(V)] + h[V \ {Picked(V)}]
  BY V \in SUBSET T DEF IsSum
<1>5. CASE V = {}
  BY <1>3, <1>4, <1>5
<1>6. CASE V # {}
  <2>1. V \ {Picked(V)} \notin Bad
    BY <1>2, <1>6, PickedIn
  <2>2. F[Picked(V)] = G[Picked(V)]
    BY <1>6, PickedIn
  <2> QED
    BY <1>3, <1>4, <1>6, <2>1, <2>2
<1> QED
  BY <1>5, <1>6

\* There is one for every finite set.
LEMMA SumExists ==
  ASSUME NEW F, NEW S, IsFiniteSet(S)
  PROVE  \E h : IsSum(h, F, S)
<1> DEFINE Bad == {U \in SUBSET S : ~ \E h : IsSum(h, F, U)}
<1>1. SUFFICES ASSUME Bad # {} PROVE FALSE
  OBVIOUS
<1>2. PICK U \in Bad : \A W \in Bad : W \subseteq U => W = U
  <2>1. Bad \subseteq SUBSET S
    OBVIOUS
  <2> HIDE DEF Bad
  <2> QED
    BY <1>1, <2>1, Smallest
<1> DEFINE The(V) == CHOOSE h : IsSum(h, F, V)
           Val(V) == The(V)[V]
           g == [s \in SUBSET U |-> IF s = {} THEN 0 ELSE F[Picked(s)] + Val(s \ {Picked(s)})]
<1>3. ASSUME NEW V, V \subseteq U, V # U
      PROVE  IsSum(The(V), F, V) /\ Val(V) = g[V]
  <2>1. IsSum(The(V), F, V)
    <3>1. V \notin Bad
      BY <1>2, <1>3
    <3> QED
      BY <3>1, <1>3
  <2>2. Val(V) = IF V = {} THEN 0 ELSE F[Picked(V)] + The(V)[V \ {Picked(V)}]
    BY <2>1 DEF IsSum
  <2>3. ASSUME V # {}
        PROVE  The(V)[V \ {Picked(V)}] = Val(V \ {Picked(V)})
    <3> DEFINE W == V \ {Picked(V)}
    <3>1. W \subseteq V /\ W \subseteq U /\ W # U /\ W \notin Bad
      BY <1>2, <1>3, <2>3, PickedIn
    <3>2. IsSum(The(W), F, W)
      BY <3>1
    <3>3. IsFiniteSet(W)
      BY <3>1, FS_Subset
    <3> HIDE DEF The, W
    <3>4. The(V)[W] = The(W)[W]
      BY <2>1, <3>1, <3>2, <3>3, SumIsOne
    <3> QED
      BY <3>4 DEF W, The
  <2>4. V \in SUBSET U
    BY <1>3
  <2>5. g[V] = IF V = {} THEN 0 ELSE F[Picked(V)] + Val(V \ {Picked(V)})
    BY <2>4
  <2> HIDE DEF The, g
  <2> QED
    BY <2>1, <2>2, <2>3, <2>5
<1>4. ASSUME NEW s \in SUBSET U, s # {}
      PROVE  Val(s \ {Picked(s)}) = g[s \ {Picked(s)}]
  <2>1. s \ {Picked(s)} \subseteq U /\ s \ {Picked(s)} # U
    BY <1>4, PickedIn
  <2> HIDE DEF g, Val
  <2> QED
    BY <1>3, <2>1
<1>5. IsSum(g, F, U)
  <2>1. g = [s \in SUBSET U |-> IF s = {} THEN 0 ELSE F[Picked(s)] + g[s \ {Picked(s)}]]
    <3>1. \A s \in SUBSET U : s # {} => Val(s \ {Picked(s)}) = g[s \ {Picked(s)}]
      <4> HIDE DEF g, Val
      <4> QED
        BY <1>4
    <3> DEFINE v(s) == Val(s \ {Picked(s)})
               w(s) == g[s \ {Picked(s)}]
    <3>2. g = [s \in SUBSET U |-> IF s = {} THEN 0 ELSE F[Picked(s)] + v(s)]
      OBVIOUS
    <3>3. \A s \in SUBSET U : s # {} => v(s) = w(s)
      BY <3>1
    <3> HIDE DEF v, w, g
    <3>4. g = [s \in SUBSET U |-> IF s = {} THEN 0 ELSE F[Picked(s)] + w(s)]
      BY <3>2, <3>3
    <3> QED
      BY <3>4 DEF w
  <2> HIDE DEF g
  <2> QED
    BY <2>1 DEF IsSum
<1> QED
  BY <1>5

\* The sum of the library is such a function's value.
LEMMA SumUnfolds ==
  ASSUME NEW F, NEW S, IsFiniteSet(S)
  PROVE  \E h : IsSum(h, F, S) /\ SumFunctionOnSet(F, S) = h[S]
<1>1. SumFunctionOnSet(F, S) = (CHOOSE h : IsSum(h, F, S))[S]
  BY DEF SumFunctionOnSet, FoldFunctionOnSet, MapThenFoldSet, IsSum, Picked
<1> QED
  BY <1>1, SumExists

\* The sum of nothing, and of one term more.
LEMMA SumOfNone ==
  ASSUME NEW F
  PROVE  SumFunctionOnSet(F, {}) = 0
<1>1. PICK h : IsSum(h, F, {}) /\ SumFunctionOnSet(F, {}) = h[{}]
  BY SumUnfolds, FS_EmptySet
<1>2. {} \in SUBSET {}
  OBVIOUS
<1> QED
  BY <1>1, <1>2 DEF IsSum

\* The sum of the picked term and the rest.
LEMMA SumOfPicked ==
  ASSUME NEW F, NEW S, IsFiniteSet(S), S # {}
  PROVE  SumFunctionOnSet(F, S) = F[Picked(S)] + SumFunctionOnSet(F, S \ {Picked(S)})
<1> DEFINE W == S \ {Picked(S)}
<1>1. W \subseteq S /\ IsFiniteSet(W)
  BY PickedIn, FS_Subset
<1>2. PICK g : IsSum(g, F, S) /\ SumFunctionOnSet(F, S) = g[S]
  BY SumUnfolds
<1>3. PICK h : IsSum(h, F, W) /\ SumFunctionOnSet(F, W) = h[W]
  BY <1>1, SumUnfolds
<1>4. g[W] = h[W]
  <2> HIDE DEF W
  <2> QED
    BY <1>1, <1>2, <1>3, SumIsOne
<1>5. g[S] = F[Picked(S)] + g[W]
  BY <1>2 DEF IsSum
<1> QED
  BY <1>2, <1>3, <1>4, <1>5

\* Functions that agree on a set have one sum over it.
LEMMA SumSame ==
  ASSUME NEW F, NEW G, NEW S, IsFiniteSet(S), \A x \in S : F[x] = G[x]
  PROVE  SumFunctionOnSet(F, S) = SumFunctionOnSet(G, S)
<1>1. PICK g : IsSum(g, F, S) /\ SumFunctionOnSet(F, S) = g[S]
  BY SumUnfolds
<1>2. PICK h : IsSum(h, G, S) /\ SumFunctionOnSet(G, S) = h[S]
  BY SumUnfolds
<1> QED
  BY <1>1, <1>2, SumIsOne

\* A sum of integers is one.
LEMMA SumIsInt ==
  ASSUME NEW F, NEW S, IsFiniteSet(S), \A x \in S : F[x] \in Int
  PROVE  SumFunctionOnSet(F, S) \in Int
<1> DEFINE Bad == {V \in SUBSET S : SumFunctionOnSet(F, V) \notin Int}
<1>1. SUFFICES ASSUME Bad # {} PROVE FALSE
  OBVIOUS
<1>2. PICK V \in Bad : \A W \in Bad : W \subseteq V => W = V
  <2>1. Bad \subseteq SUBSET S
    OBVIOUS
  <2> HIDE DEF Bad
  <2> QED
    BY <1>1, <2>1, Smallest
<1>3. V # {}
  BY SumOfNone
<1>4. V \ {Picked(V)} \notin Bad /\ Picked(V) \in V
  BY <1>2, <1>3, PickedIn
<1>5. SumFunctionOnSet(F, V) = F[Picked(V)] + SumFunctionOnSet(F, V \ {Picked(V)})
  BY <1>3, SumOfPicked, FS_Subset
<1> QED
  BY <1>4, <1>5

\* The order of the terms does not matter: any of them may be taken out.
LEMMA SumWithout ==
  ASSUME NEW F, NEW S, IsFiniteSet(S), \A x \in S : F[x] \in Int, NEW e \in S
  PROVE  SumFunctionOnSet(F, S) = F[e] + SumFunctionOnSet(F, S \ {e})
<1> DEFINE Sum(V) == SumFunctionOnSet(F, V)
           Bad == {V \in SUBSET S : \E x \in V : Sum(V) # F[x] + Sum(V \ {x})}
<1>1. SUFFICES ASSUME Bad # {} PROVE FALSE
  OBVIOUS
<1>2. PICK V \in Bad : \A W \in Bad : W \subseteq V => W = V
  <2>1. Bad \subseteq SUBSET S
    OBVIOUS
  <2> HIDE DEF Bad
  <2> QED
    BY <1>1, <2>1, Smallest
<1>3. PICK x \in V : Sum(V) # F[x] + Sum(V \ {x})
  OBVIOUS
<1> DEFINE c == Picked(V)
<1>4. c \in V /\ V \ {c} \notin Bad /\ V \ {x} \notin Bad
  BY <1>2, <1>3, PickedIn
<1>5. Sum(V) = F[c] + Sum(V \ {c})
  BY <1>3, SumOfPicked, FS_Subset
<1>6. x # c
  BY <1>3, <1>5
<1>7. V \in SUBSET S
  OBVIOUS
<1> HIDE DEF c
<1>8. Sum(V \ {c}) = F[x] + Sum((V \ {c}) \ {x})
  BY <1>3, <1>4, <1>6, <1>7
<1>9. Sum(V \ {x}) = F[c] + Sum((V \ {x}) \ {c})
  BY <1>3, <1>4, <1>6, <1>7
<1>10. (V \ {x}) \ {c} = (V \ {c}) \ {x}
  OBVIOUS
<1>11. Sum((V \ {c}) \ {x}) \in Int
  <2>1. IsFiniteSet((V \ {c}) \ {x})
    BY <1>7, FS_Subset
  <2> QED
    BY <2>1, <1>7, SumIsInt
<1>12. F[x] \in Int /\ F[c] \in Int
  BY <1>3, <1>4, <1>7
<1> HIDE DEF Sum
<1> QED
  BY <1>3, <1>5, <1>8, <1>9, <1>10, <1>11, <1>12

\* One term more.
LEMMA SumWith ==
  ASSUME NEW F, NEW S, IsFiniteSet(S), NEW e, e \notin S, F[e] \in Int, \A x \in S : F[x] \in Int
  PROVE  SumFunctionOnSet(F, S \cup {e}) = F[e] + SumFunctionOnSet(F, S)
<1>1. IsFiniteSet(S \cup {e}) /\ (S \cup {e}) \ {e} = S
  BY FS_AddElement
<1>2. \A x \in S \cup {e} : F[x] \in Int
  OBVIOUS
<1>3. SumFunctionOnSet(F, S \cup {e}) = F[e] + SumFunctionOnSet(F, (S \cup {e}) \ {e})
  BY <1>1, <1>2, SumWithout
<1> QED
  BY <1>1, <1>3

\* One term changed.
LEMMA SumChanged ==
  ASSUME NEW F, NEW G, NEW S, IsFiniteSet(S), NEW e \in S,
         \A x \in S : F[x] \in Int /\ G[x] \in Int, \A x \in S \ {e} : F[x] = G[x]
  PROVE  SumFunctionOnSet(G, S) = SumFunctionOnSet(F, S) + (G[e] - F[e])
<1> DEFINE R == S \ {e}
<1>1. IsFiniteSet(R) /\ R \subseteq S
  BY FS_Subset
<1>2. SumFunctionOnSet(F, S) = F[e] + SumFunctionOnSet(F, R)
  BY SumWithout
<1>3. SumFunctionOnSet(G, S) = G[e] + SumFunctionOnSet(G, R)
  BY SumWithout
<1>4. SumFunctionOnSet(F, R) = SumFunctionOnSet(G, R)
  BY <1>1, SumSame
<1>5. SumFunctionOnSet(F, R) \in Int
  BY <1>1, SumIsInt
<1> HIDE DEF R
<1> QED
  BY <1>2, <1>3, <1>4, <1>5

\* Terms that are zero do not count.
LEMMA SumOfZeros ==
  ASSUME NEW F, NEW S, IsFiniteSet(S), \A x \in S : F[x] \in Int,
         NEW T, T \subseteq S, \A x \in S \ T : F[x] = 0
  PROVE  SumFunctionOnSet(F, S) = SumFunctionOnSet(F, T)
<1> DEFINE Sum(V) == SumFunctionOnSet(F, V)
           Bad == {V \in SUBSET S : T \subseteq V /\ Sum(V) # Sum(T)}
<1>1. SUFFICES ASSUME Bad # {} PROVE FALSE
  OBVIOUS
<1>2. PICK V \in Bad : \A W \in Bad : W \subseteq V => W = V
  <2>1. Bad \subseteq SUBSET S
    OBVIOUS
  <2> HIDE DEF Bad
  <2> QED
    BY <1>1, <2>1, Smallest
<1>3. PICK e \in V : e \notin T
  OBVIOUS
<1>4. Sum(V \ {e}) = Sum(T)
  BY <1>2, <1>3
<1>5. Sum(V) = F[e] + Sum(V \ {e})
  BY SumWithout, FS_Subset
<1>6. F[e] = 0
  BY <1>3
<1>7. Sum(V \ {e}) \in Int
  BY SumIsInt, FS_Subset
<1> HIDE DEF Sum
<1> QED
  BY <1>4, <1>5, <1>6, <1>7

-----------------------------------------------------------------------------
(***************************************************************************)
(* The paper broker: what it sums.                                         *)
(***************************************************************************)

\* The rows of a ticker among the first n.
RowsOf(n, t) == {k \in 1..n : fills[k].ticker = t}

\* What a row of the trades table adds is a whole number.
LEMMA SignedIsInt ==
  ASSUME NEW r \in TradeRow
  PROVE  Signed(r) \in Int /\ r.price \in Int /\ Signed(r) * r.price \in Int /\ r.ticker \in TickerText
<1>1. r.qty \in Nat /\ r.price \in Nat /\ r.ticker \in TickerText
  BY PaperAssumption DEF TradeRow
<1>2. Signed(r) \in Int
  BY <1>1 DEF Signed
<1> QED
  BY <1>1, <1>2

\* A holding is a whole number, and a row more changes that of its ticker.
LEMMA NetOfRows ==
  ASSUME fills \in Seq(TradeRow), NEW t
  PROVE  Net(Len(fills), t) \in Int
<1> DEFINE S == RowsOf(Len(fills), t)
           F == [k \in S |-> Signed(fills[k])]
<1>1. Net(Len(fills), t) = SumFunctionOnSet(F, S)
  BY DEF Net, SumFunction, RowsOf
<1>2. IsFiniteSet(S)
  BY FS_Interval, FS_Subset DEF RowsOf
<1>3. \A k \in S : F[k] \in Int
  BY SignedIsInt DEF RowsOf
<1> HIDE DEF F, S
<1> QED
  BY <1>1, <1>2, <1>3, SumIsInt

\* A row more changes the holding of its ticker by what it bought or sold.
LEMMA NetRecorded ==
  ASSUME fills \in Seq(TradeRow), NEW r \in TradeRow, fills' = Append(fills, r), NEW t
  PROVE  Net(Len(fills), t)' = Net(Len(fills), t) + (IF r.ticker = t THEN Signed(r) ELSE 0)
<1> DEFINE n == Len(fills)
           S == RowsOf(n, t)
           F == [k \in S |-> Signed(fills[k])]
           T == RowsOf(n, t)'
           G == [k \in T |-> Signed(fills'[k])]
<1>1. Net(Len(fills), t) = SumFunctionOnSet(F, S)
  BY DEF Net, SumFunction, RowsOf
<1>2. Net(Len(fills), t)' = SumFunctionOnSet(G, T)
  BY DEF Net, SumFunction, RowsOf
<1>3. /\ n \in Nat /\ Len(fills') = n + 1 /\ fills'[n + 1] = r
      /\ \A k \in 1..n : fills'[k] = fills[k] /\ fills[k] \in TradeRow
  OBVIOUS
<1>4. IsFiniteSet(S)
  <2>1. S \subseteq 1..n
    BY DEF RowsOf
  <2>2. IsFiniteSet(1..n)
    BY <1>3, UpToIsFinite
  <2> HIDE DEF S, n
  <2> QED
    BY <2>1, <2>2, FS_Subset
<1>5. T = IF r.ticker = t THEN S \cup {n + 1} ELSE S
  BY <1>3 DEF RowsOf
<1>6. \A k \in S : F[k] = G[k] /\ G[k] \in Int
  <2>1. \A k \in S : k \in T /\ k \in 1..n
    BY <1>5 DEF RowsOf
  <2> QED
    BY <1>3, <2>1, SignedIsInt
<1>7. r.ticker = t => (n + 1) \notin S /\ G[n + 1] = Signed(r) /\ G[n + 1] \in Int
  BY <1>3, <1>5, SignedIsInt DEF RowsOf
<1>8. SumFunctionOnSet(F, S) = SumFunctionOnSet(G, S) /\ SumFunctionOnSet(G, S) \in Int
  <2> HIDE DEF S, F, G
  <2> QED
    BY <1>4, <1>6, SumSame, SumIsInt
<1>9. r.ticker = t => SumFunctionOnSet(G, S \cup {n + 1}) = G[n + 1] + SumFunctionOnSet(G, S)
  <2> HIDE DEF n, S, F, G
  <2> QED
    BY <1>4, <1>6, <1>7, SumWith
<1> HIDE DEF n, S, F, G, T
<1> QED
  BY <1>1, <1>2, <1>5, <1>7, <1>8, <1>9

\* The cash is a whole number, and a row more is paid from it.
LEMMA CashRecorded ==
  ASSUME fills \in Seq(TradeRow), NEW r \in TradeRow, fills' = Append(fills, r)
  PROVE  /\ Cash(Len(fills)) \in Int
         /\ Cash(Len(fills))' = Cash(Len(fills)) - Signed(r) * r.price
<1> DEFINE n == Len(fills)
           F == [k \in 1..n |-> Signed(fills[k]) * fills[k].price]
           G == [k \in 1..(n + 1) |-> Signed(fills'[k]) * fills'[k].price]
           S == 1..n
<1>1. /\ n \in Nat /\ Len(fills') = n + 1 /\ fills'[n + 1] = r
      /\ \A k \in 1..n : fills'[k] = fills[k] /\ fills[k] \in TradeRow
  OBVIOUS
<1>2. Cash(Len(fills)) = StartingCash - SumFunctionOnSet(F, S)
  BY DEF Cash, SumFunction
<1>3. Cash(Len(fills))' = StartingCash - SumFunctionOnSet(G, 1..(n + 1))
  BY <1>1 DEF Cash, SumFunction
<1>4. IsFiniteSet(S) /\ 1..(n + 1) = S \cup {n + 1} /\ (n + 1) \notin S
  <2>1. IsFiniteSet(S)
    BY <1>1, UpToIsFinite
  <2>2. 1..(n + 1) = S \cup {n + 1} /\ (n + 1) \notin S
    BY <1>1
  <2> QED
    BY <2>1, <2>2
<1>5. \A k \in S : F[k] = G[k] /\ G[k] \in Int
  BY <1>1, <1>4, SignedIsInt
<1>6. G[n + 1] = Signed(r) * r.price /\ G[n + 1] \in Int
  BY <1>1, <1>4, SignedIsInt
<1> HIDE DEF n, F, G, S
<1>7. SumFunctionOnSet(F, S) = SumFunctionOnSet(G, S) /\ SumFunctionOnSet(G, S) \in Int
  BY <1>4, <1>5, SumSame, SumIsInt
<1>8. SumFunctionOnSet(G, S \cup {n + 1}) = G[n + 1] + SumFunctionOnSet(G, S)
  BY <1>4, <1>5, <1>6, SumWith
<1>9. Cash(Len(fills))' = StartingCash - (Signed(r) * r.price + SumFunctionOnSet(G, S))
  BY <1>3, <1>4, <1>6, <1>8
<1>10. Cash(Len(fills)) = StartingCash - SumFunctionOnSet(G, S)
  BY <1>2, <1>7
<1>11. StartingCash \in Int /\ Signed(r) * r.price \in Int /\ SumFunctionOnSet(G, S) \in Int
  BY <1>7, PaperAssumption, SignedIsInt
<1> QED
  BY <1>9, <1>10, <1>11

\* While no ticker is short the shares count for all they are worth, those of
\* the tickers that get_positions does not list too: they are none.
Worth == SumFunctionOnSet([t \in TickerText |-> Net(Len(fills), t) * price[t.name]], TickerText)

\* There are finitely many tickers, since there are finitely many companies.
LEMMA TickersAreFinite == IsFiniteSet(TickerText)
<1> DEFINE f == [p \in Name \X BOOLEAN |-> [name |-> p[1], suffix |-> p[2]]]
<1>1. IsFiniteSet(BOOLEAN)
  <2>1. BOOLEAN = {TRUE} \cup {FALSE}
    OBVIOUS
  <2>2. IsFiniteSet({TRUE})
    BY FS_Singleton
  <2> QED
    BY <2>1, <2>2, FS_AddElement
<1>2. IsFiniteSet(Name \X BOOLEAN)
  BY <1>1, PaperAssumption, FS_Product
<1>3. f \in [Name \X BOOLEAN -> TickerText]
  BY DEF TickerText
<1>4. ASSUME NEW t \in TickerText
      PROVE  \E p \in Name \X BOOLEAN : f[p] = t
  <2>1. <<t.name, t.suffix>> \in Name \X BOOLEAN
    BY DEF TickerText
  <2>2. f[<<t.name, t.suffix>>] = t
    BY <2>1 DEF TickerText
  <2> QED
    BY <2>1, <2>2
<1>5. f \in Surjection(Name \X BOOLEAN, TickerText)
  BY <1>3, <1>4 DEF Surjection
<1> HIDE DEF f
<1> QED
  BY <1>2, <1>5, FS_Surjection

\* A ticker's holding and price are whole numbers.
LEMMA NumbersOfTicker ==
  ASSUME PaperTypeOK, NEW t \in TickerText
  PROVE  Net(Len(fills), t) \in Int /\ price[t.name] \in Int
<1>1. Net(Len(fills), t) \in Int
  BY NetOfRows DEF PaperTypeOK
<1>2. t.name \in Name
  BY DEF TickerText
<1>3. price[t.name] \in Price
  BY <1>2 DEF PaperTypeOK
<1>4. Price \subseteq Int
  BY PaperAssumption
<1> QED
  BY <1>1, <1>3, <1>4

\* The equity, while no ticker is short.
LEMMA EquityIsWorth ==
  ASSUME PaperTypeOK, \A t \in TickerText : Net(Len(fills), t) >= 0
  PROVE  Equity = Cash(Len(fills)) + Worth
<1> DEFINE P == Positions(Len(fills))
           F == [t \in P |-> Net(Len(fills), t) * price[t.name]]
           G == [t \in TickerText |-> Net(Len(fills), t) * price[t.name]]
<1>1. Equity = Cash(Len(fills)) + SumFunctionOnSet(F, P)
  BY DEF Equity, SumFunction
<1>2. P \subseteq TickerText
  BY DEF Positions
<1>3. IsFiniteSet(TickerText) /\ IsFiniteSet(P)
  BY <1>2, TickersAreFinite, FS_Subset
<1>4. \A t \in TickerText : Net(Len(fills), t) \in Int /\ price[t.name] \in Int
  BY NumbersOfTicker
<1>5. \A t \in TickerText : G[t] \in Int
  BY <1>4
<1>6. \A t \in TickerText \ P : G[t] = 0
  <2>1. \A t \in TickerText \ P : Net(Len(fills), t) = 0
    BY <1>4 DEF Positions
  <2> QED
    BY <1>4, <2>1
<1>7. \A t \in P : F[t] = G[t]
  BY <1>2
<1>8. Worth = SumFunctionOnSet(G, TickerText)
  BY DEF Worth
<1> HIDE DEF P, F, G
<1> QED
  BY <1>1, <1>2, <1>3, <1>5, <1>6, <1>7, <1>8, SumSame, SumOfZeros

\* A row more makes the shares worth more or less by its quantity, at the market's price.
LEMMA WorthRecorded ==
  ASSUME PaperTypeOK, NEW r \in TradeRow, fills' = Append(fills, r), UNCHANGED price
  PROVE  Worth \in Int /\ Worth' = Worth + Signed(r) * price[r.ticker.name]
<1> DEFINE e == r.ticker
           p == price[e.name]
           F == [t \in TickerText |-> Net(Len(fills), t) * price[t.name]]
           G == [t \in TickerText |-> Net(Len(fills), t)' * price[t.name]]
<1>1. \A t \in TickerText : Net(Len(fills), t) \in Int /\ price[t.name] \in Int
  BY NumbersOfTicker
<1>2. \A t \in TickerText :
        Net(Len(fills), t)' = Net(Len(fills), t) + (IF e = t THEN Signed(r) ELSE 0)
  BY NetRecorded DEF PaperTypeOK
<1>3. Signed(r) \in Int /\ e \in TickerText
  BY SignedIsInt
<1>4. \A t \in TickerText : F[t] \in Int /\ G[t] \in Int
  BY <1>1, <1>2, <1>3
<1>5. \A t \in TickerText \ {e} : F[t] = G[t]
  BY <1>1, <1>2
<1>6. G[e] - F[e] = Signed(r) * p
  <2>1. \A a, b, c \in Int : (a + b) * c - a * c = b * c
    OBVIOUS
  <2>2. Net(Len(fills), e) \in Int /\ p \in Int
    BY <1>1, <1>3
  <2>3. F[e] = Net(Len(fills), e) * p /\ G[e] = (Net(Len(fills), e) + Signed(r)) * p
    BY <1>2, <1>3
  <2> HIDE DEF F, G, p, e
  <2> QED
    BY <1>3, <2>1, <2>2, <2>3
<1>7. Worth = SumFunctionOnSet(F, TickerText) /\ Worth' = SumFunctionOnSet(G, TickerText)
  BY DEF Worth
<1> HIDE DEF F, G, e, p
<1>8. SumFunctionOnSet(F, TickerText) \in Int
  BY <1>4, TickersAreFinite, SumIsInt
<1>9. SumFunctionOnSet(G, TickerText) = SumFunctionOnSet(F, TickerText) + (G[e] - F[e])
  BY <1>3, <1>4, <1>5, TickersAreFinite, SumChanged
<1> QED
  BY <1>6, <1>7, <1>8, <1>9 DEF e, p

-----------------------------------------------------------------------------
(***************************************************************************)
(* The paper broker: its inductive invariant.                              *)
(***************************************************************************)

\* An element of a sequence replaced.
LEMMA Replaced ==
  ASSUME NEW S, NEW s \in Seq(S), NEW i \in 1..Len(s), NEW x \in S, NEW r, r = [s EXCEPT ![i] = x]
  PROVE  /\ r \in Seq(S) /\ Len(r) = Len(s) /\ r[i] = x
         /\ \A j \in 1..Len(s) : j # i => r[j] = s[j]
OBVIOUS

\* An element more.
LEMMA Appended ==
  ASSUME NEW S, NEW s \in Seq(S), NEW x \in S, NEW r, r = Append(s, x)
  PROVE  /\ r \in Seq(S) /\ Len(s) \in Nat /\ Len(r) = Len(s) + 1 /\ r[Len(s) + 1] = x
         /\ \A j \in 1..Len(s) : r[j] = s[j]
         /\ 1..Len(r) = (1..Len(s)) \cup {Len(s) + 1} /\ Len(s) + 1 \notin 1..Len(s)
OBVIOUS

\* Somebody asked for a recorded sale of the ticker, or it raced another.
Spoken(t) ==
  \E o \in Order : /\ order[o].at = "recorded"
                   /\ order[o].ticker = t /\ order[o].action = "SELL"
                   /\ order[o].asked \/ order[o].raced

\* The order closes a position of the ticker, alone, and is on its way.
QuietSale(o, t) ==
  /\ order[o].at \in {"placed", "polled"} /\ order[o].ticker = t /\ order[o].action = "SELL"
  /\ ~order[o].asked /\ ~order[o].raced

\* As long as every recorded sale of a ticker was the close of a position that
\* was alone, the ticker is not short, and the only such close on its way
\* sells no more than what is held.
CoveredSales(t) ==
  ~Spoken(t) =>
    /\ Net(Len(fills), t) >= 0
    /\ \A o, p \in Order : QuietSale(o, t) /\ QuietSale(p, t) => o = p
    /\ \A o \in Order : QuietSale(o, t) => order[o].qty <= Net(Len(fills), t)
SalesAreCovered == \A t \in TickerText : CoveredSales(t)

\* An order without a price is one whose key slipped.
KeysGivePrices == \A o \in Order : o \notin slipped => order[o].price \in Price

PaperIInv == PaperTypeOK /\ SalesAreCovered /\ KeysGivePrices /\ RecordedIsCounted

\* A broker without orders and rows has the invariant.
LEMMA PaperBegins == PaperInit => PaperIInv
<1> SUFFICES ASSUME PaperInit PROVE PaperIInv
  OBVIOUS
<1>1. price \in [Name -> Price]
  BY PaperAssumption DEF PaperInit
<1>2. Order = {} /\ Len(fills) = 0 /\ fills \in Seq(TradeRow) /\ order \in Seq(OrderRow)
  BY DEF PaperInit, Order
<1>3. PaperTypeOK
  BY <1>1, <1>2, PaperAssumption DEF PaperInit, PaperTypeOK, Order
<1>4. ASSUME NEW t \in TickerText PROVE Net(Len(fills), t) = 0
  <2>1. {k \in 1..Len(fills) : fills[k].ticker = t} = {}
    BY <1>2
  <2> QED
    BY <2>1, SumOfNone DEF Net, SumFunction
<1>5. SalesAreCovered
  BY <1>2, <1>4 DEF SalesAreCovered, CoveredSales
<1>6. KeysGivePrices
  BY <1>2 DEF KeysGivePrices
<1>7. RecordedIsCounted
  <2>1. Cardinality({o \in Order : order[o].at = "recorded"}) = 0
    BY <1>2, FS_EmptySet
  <2> QED
    BY <1>2, <2>1 DEF RecordedIsCounted
<1> QED
  BY <1>3, <1>5, <1>6, <1>7 DEF PaperIInv

\* The orders that were recorded.
RecordedOrders == {o \in Order : order[o].at = "recorded"}

\* What RecordedIsCounted says of the order o.
CountedOnce(o) ==
  order[o].at = "recorded" /\ o \notin slipped =>
    \E k \in 1..Len(fills) :
      \A f \in {"ticker", "action", "qty", "price"} : fills[k][f] = order[o][f]

\* RecordedIsCounted, order by order ...
LEMMA CountsAre ==
  RecordedIsCounted <=> /\ Len(fills) <= Cardinality(RecordedOrders)
                        /\ \A o \in Order : CountedOnce(o)
BY DEF RecordedIsCounted, RecordedOrders, CountedOnce

\* ... and in the state a step leads to.
LEMMA CountsWillBe ==
  RecordedIsCounted' <=> /\ Len(fills') <= Cardinality(RecordedOrders')
                         /\ \A o \in Order' : CountedOnce(o)'
BY DEF RecordedIsCounted, RecordedOrders, CountedOnce

\* An order more that is as its call made it.
LEMMA PlacesPreserves ==
  ASSUME PaperIInv, NEW t \in TickerText, NEW action \in {"BUY", "SELL"}, NEW qty \in Nat \ {0},
         NEW asked \in BOOLEAN, NEW raced \in BOOLEAN, Places(t, action, qty, asked, raced),
         asked \/ raced \/ ((\A o \in Order : ~QuietSale(o, t)) /\ qty = Net(Len(fills), t))
  PROVE  PaperIInv'
<1> PICK n \in Nat : n = Len(order)
  BY DEF PaperIInv, PaperTypeOK
<1>1. PICK p \in Price :
        order' = Append(order, [at |-> "placed", ticker |-> t, action |-> action, qty |-> qty,
                                price |-> p, asked |-> asked, raced |-> raced])
  <2>1. t.name \in Name
    BY DEF TickerText
  <2>2. Quotes(t.name) \subseteq Price
    BY <2>1 DEF Quotes, PaperIInv, PaperTypeOK
  <2> QED
    BY <2>2 DEF Places
<1> DEFINE r == [at |-> "placed", ticker |-> t, action |-> action, qty |-> qty,
                 price |-> p, asked |-> asked, raced |-> raced]
<1>2. r \in OrderRow
  BY DEF OrderRow
<1>3. order \in Seq(OrderRow)
  BY DEF PaperIInv, PaperTypeOK
<1>4. /\ order' \in Seq(OrderRow) /\ n \in Nat /\ Len(order') = n + 1 /\ order'[n + 1] = r
      /\ \A o \in Order : order'[o] = order[o]
      /\ Order' = Order \cup {n + 1} /\ n + 1 \notin Order
  <2> HIDE DEF r
  <2> QED
    BY <1>1, <1>2, <1>3, Appended DEF Order, r
<1>5. UNCHANGED <<fills, price, moves>> /\ n < MaxOrders /\ MayFail(n + 1)
  BY DEF Places
<1>6. slipped \subseteq slipped' /\ slipped' \subseteq slipped \cup {n + 1}
  BY <1>5 DEF MayFail
<1>7. PaperTypeOK'
  <2>1. slipped' \subseteq Order'
    BY <1>4, <1>6 DEF PaperIInv, PaperTypeOK
  <2>2. Len(order') <= MaxOrders
    BY <1>4, <1>5, PaperAssumption
  <2> HIDE DEF r
  <2> QED
    BY <1>4, <1>5, <2>1, <2>2 DEF PaperIInv, PaperTypeOK
<1>8. SalesAreCovered'
  <2> SUFFICES ASSUME NEW u \in TickerText, ~Spoken(u)' PROVE
        /\ Net(Len(fills), u) >= 0
        /\ \A o, q \in Order' : QuietSale(o, u)' /\ QuietSale(q, u)' => o = q
        /\ \A o \in Order' : QuietSale(o, u)' => order'[o].qty <= Net(Len(fills), u)
    BY <1>5 DEF SalesAreCovered, CoveredSales, Net
  <2>1. ~Spoken(u)
    BY <1>4 DEF Spoken
  <2>2. CoveredSales(u)
    BY DEF PaperIInv, SalesAreCovered
  <2>3. \A o \in Order : QuietSale(o, u)' <=> QuietSale(o, u)
    BY <1>4 DEF QuietSale
  <2>4. QuietSale(n + 1, u)' => u = t /\ ~asked /\ ~raced
    <3>1. r.ticker = t /\ r.asked = asked /\ r.raced = raced
      OBVIOUS
    <3> HIDE DEF r
    <3>2. order'[n + 1] = r
      BY <1>4
    <3> QED
      BY <3>1, <3>2 DEF QuietSale
  <2>5. order'[n + 1].qty = qty /\ (\A o \in Order : order'[o].qty = order[o].qty)
    BY <1>4
  <2>6. CASE QuietSale(n + 1, u)'
    <3>1. (\A o \in Order : ~QuietSale(o, u)) /\ qty = Net(Len(fills), u)
      BY <2>4, <2>6
    <3> HIDE DEF r
    <3> QED
      BY <1>4, <2>1, <2>2, <2>3, <2>5, <3>1, NetOfRows DEF PaperIInv, PaperTypeOK, CoveredSales
  <2>7. CASE ~QuietSale(n + 1, u)'
    <3> HIDE DEF r
    <3>1. \A o \in Order' : QuietSale(o, u)' => o \in Order /\ QuietSale(o, u)
      BY <1>4, <2>3, <2>7
    <3> QED
      BY <2>1, <2>2, <2>5, <3>1 DEF CoveredSales
  <2> QED
    BY <2>6, <2>7
<1>9. KeysGivePrices'
  <2>1. order'[n + 1].price \in Price
    BY <1>4
  <2> HIDE DEF r
  <2> QED
    BY <1>4, <1>6, <2>1 DEF PaperIInv, KeysGivePrices
<1>10. RecordedIsCounted'
  <2>1. order'[n + 1].at # "recorded"
    BY <1>4
  <2> HIDE DEF r
  <2>2. RecordedOrders' = RecordedOrders
    BY <1>4, <2>1 DEF RecordedOrders
  <2>3. \A o \in Order : CountedOnce(o)'
    BY <1>4, <1>5, <1>6, CountsAre DEF PaperIInv, CountedOnce
  <2>4. CountedOnce(n + 1)'
    BY <2>1 DEF CountedOnce
  <2> QED
    BY <1>4, <1>5, <2>2, <2>3, <2>4, CountsAre, CountsWillBe DEF PaperIInv
<1> QED
  BY <1>7, <1>8, <1>9, <1>10 DEF PaperIInv

\* place_order keeps the invariant: somebody asks for its order.
LEMMA PlaceOrderPreserves == PaperIInv /\ place_order => PaperIInv'
BY PlacesPreserves, PaperAssumption DEF place_order

\* close_position keeps it: its order sells what is held, and raced says whether it is alone.
LEMMA ClosePreserves == PaperIInv /\ close_position => PaperIInv'
<1> SUFFICES ASSUME PaperIInv, close_position PROVE PaperIInv'
  OBVIOUS
<1>1. PICK t \in {normalise_ticker(u) : u \in TickerText} :
        /\ t \in Positions(Len(fills))
        /\ Places(t, "SELL", Net(Len(fills), t), FALSE, InFlight(t) # {})
  BY DEF close_position
<1>2. t \in TickerText /\ Net(Len(fills), t) > 0
  BY <1>1 DEF Positions
<1>3. Net(Len(fills), t) \in Nat \ {0}
  BY <1>2, NetOfRows DEF PaperIInv, PaperTypeOK
<1>4. InFlight(t) = {} => \A o \in Order : ~QuietSale(o, t)
  BY DEF InFlight, QuietSale
<1> QED
  BY <1>1, <1>2, <1>3, <1>4, PlacesPreserves

\* What get_order and the record change of one order.
LEMMA OrderMoves ==
  ASSUME PaperTypeOK, NEW o \in Order, NEW r \in OrderRow, order' = [order EXCEPT ![o] = r]
  PROVE  /\ order' \in Seq(OrderRow) /\ Len(order') = Len(order) /\ Order' = Order
         /\ order'[o] = r /\ (\A p \in Order : p # o => order'[p] = order[p])
<1>1. order \in Seq(OrderRow)
  BY DEF PaperTypeOK
<1> QED
  BY <1>1, Replaced DEF Order

\* get_order keeps it: the order loses no more than its price, and then its key has slipped.
LEMMA GetOrderPreserves ==
  ASSUME PaperIInv, NEW o \in Order, get_order(o)
  PROVE  PaperIInv'
<1> DEFINE r == [order[o] EXCEPT !.at = "polled",
                                 !.price = IF o \in slipped' THEN NoPrice ELSE @]
<1>1. PaperTypeOK /\ order[o] \in OrderRow
  BY DEF PaperIInv, PaperTypeOK, Order
<1>2. /\ r \in OrderRow /\ r.at = "polled" /\ r.ticker = order[o].ticker
      /\ r.action = order[o].action /\ r.qty = order[o].qty /\ r.asked = order[o].asked
      /\ r.raced = order[o].raced /\ (o \notin slipped' => r.price = order[o].price)
  BY <1>1 DEF OrderRow
<1>3. order' = [order EXCEPT ![o] = r]
  BY DEF get_order
<1> HIDE DEF r
<1>4. /\ order' \in Seq(OrderRow) /\ Len(order') = Len(order) /\ Order' = Order
      /\ order'[o] = r /\ (\A p \in Order : p # o => order'[p] = order[p])
  BY <1>1, <1>2, <1>3, OrderMoves
<1>5. order[o].at = "placed" /\ UNCHANGED <<fills, price, moves>>
  BY DEF get_order
<1>6. slipped \subseteq slipped' /\ slipped' \subseteq slipped \cup {o}
  BY DEF get_order, MayFail
<1>7. PaperTypeOK'
  BY <1>1, <1>4, <1>5, <1>6 DEF PaperTypeOK
<1>8. SalesAreCovered'
  <2>1. \A u, p : p \in Order => (QuietSale(p, u)' <=> QuietSale(p, u))
    BY <1>2, <1>4, <1>5 DEF QuietSale
  <2>2. \A u : Spoken(u)' <=> Spoken(u)
    BY <1>2, <1>4, <1>5 DEF Spoken
  <2>3. \A p \in Order : order'[p].qty = order[p].qty
    BY <1>2, <1>4
  <2>4. \A u : Net(Len(fills), u)' = Net(Len(fills), u)
    BY <1>5 DEF Net
  <2> QED
    BY <1>4, <2>1, <2>2, <2>3, <2>4 DEF PaperIInv, SalesAreCovered, CoveredSales
<1>9. KeysGivePrices'
  BY <1>2, <1>4, <1>6 DEF PaperIInv, KeysGivePrices
<1>10. RecordedIsCounted'
  <2>1. RecordedOrders' = RecordedOrders
    BY <1>2, <1>4, <1>5 DEF RecordedOrders
  <2>2. \A p \in Order : CountedOnce(p)'
    <3>1. order'[o].at = "polled"
      BY <1>2, <1>4
    <3> QED
      BY <1>4, <1>5, <1>6, <3>1, CountsAre DEF PaperIInv, CountedOnce
  <2> QED
    BY <1>4, <1>5, <2>1, <2>2, CountsAre, CountsWillBe DEF PaperIInv
<1> QED
  BY <1>7, <1>8, <1>9, <1>10 DEF PaperIInv


\* A ticker's fills and what is on its way, when the order o is recorded.
LEMMA RecordPreserves ==
  ASSUME PaperIInv, NEW o \in Order, Record(o)
  PROVE  PaperIInv'
<1> DEFINE r == [order[o] EXCEPT !.at = "recorded"]
           n == Len(fills)
           row == [ticker |-> order[o].ticker, action |-> order[o].action,
                   qty |-> order[o].qty, price |-> order[o].price]
<1>1. PaperTypeOK /\ order[o] \in OrderRow /\ o \in Order
  BY DEF PaperIInv, PaperTypeOK, Order
<1>2. /\ r \in OrderRow /\ r.at = "recorded" /\ r.ticker = order[o].ticker
      /\ r.action = order[o].action /\ r.qty = order[o].qty /\ r.price = order[o].price
      /\ r.asked = order[o].asked /\ r.raced = order[o].raced
  BY <1>1 DEF OrderRow
<1>3. order' = [order EXCEPT ![o] = r]
  BY DEF Record
<1> HIDE DEF r
<1>4. /\ order' \in Seq(OrderRow) /\ Len(order') = Len(order) /\ Order' = Order
      /\ order'[o] = r /\ (\A p \in Order : p # o => order'[p] = order[p])
  BY <1>1, <1>2, <1>3, OrderMoves
<1>5. order[o].at = "polled" /\ UNCHANGED <<slipped, price, moves>>
  BY DEF Record
<1>6. order[o].price # NoPrice => row \in TradeRow /\ fills' = Append(fills, row)
  BY <1>1 DEF Record, OrderRow, TradeRow
<1>7. order[o].price = NoPrice => fills' = fills
  BY DEF Record
<1>8. fills \in Seq(TradeRow)
  BY <1>1 DEF PaperTypeOK
<1>9. /\ row.ticker = order[o].ticker /\ row.action = order[o].action
      /\ row.qty = order[o].qty /\ row.price = order[o].price
  OBVIOUS
<1> HIDE DEF row
<1>10. order[o].price # NoPrice =>
         /\ fills' \in Seq(TradeRow) /\ n \in Nat /\ Len(fills') = n + 1 /\ fills'[n + 1] = row
         /\ \A k \in 1..n : fills'[k] = fills[k]
  BY <1>6, <1>8, Appended
<1>11. PaperTypeOK'
  BY <1>1, <1>4, <1>5, <1>7, <1>10 DEF PaperTypeOK
<1>12. SalesAreCovered'
  <2> SUFFICES ASSUME NEW u \in TickerText, ~Spoken(u)' PROVE CoveredSales(u)'
    BY DEF SalesAreCovered, CoveredSales
  <2> DEFINE Held0 == Net(n, u)
  <2>1. ~Spoken(u)
    BY <1>2, <1>4, <1>5 DEF Spoken
  <2>2. CoveredSales(u)
    BY DEF PaperIInv, SalesAreCovered
  <2>3. \A p \in Order : QuietSale(p, u)' => QuietSale(p, u) /\ p # o
    BY <1>2, <1>4, <1>5 DEF QuietSale
  <2>4. \A p \in Order : order'[p].qty = order[p].qty
    BY <1>2, <1>4
  <2>5. Net(Len(fills), u) \in Int
    BY <1>8, NetOfRows
  <2>6. order[o].ticker = u /\ order[o].action = "SELL" => QuietSale(o, u)
    <3>1. order'[o].at = "recorded"
      BY <1>2, <1>4
    <3>2. order'[o].ticker = order[o].ticker /\ order'[o].action = order[o].action
          /\ order'[o].asked = order[o].asked /\ order'[o].raced = order[o].raced
      BY <1>2, <1>4
    <3> QED
      BY <1>4, <1>5, <3>1, <3>2 DEF Spoken, QuietSale
  <2>7. order[o].qty \in Nat /\ order[o].action \in {"BUY", "SELL"}
    BY <1>1 DEF OrderRow
  <2>8. Net(Len(fills), u)' =
          Net(Len(fills), u) +
            (IF order[o].price # NoPrice /\ order[o].ticker = u THEN Signed(row) ELSE 0)
    <3>1. CASE order[o].price = NoPrice
      BY <1>7, <2>5, <3>1 DEF Net
    <3>2. CASE order[o].price # NoPrice
      BY <1>6, <1>8, <1>9, <3>2, NetRecorded
    <3> QED
      BY <3>1, <3>2
  <2>9. Signed(row) = IF order[o].action = "BUY" THEN order[o].qty ELSE -order[o].qty
    BY <1>9 DEF Signed
  <2>10. CASE order[o].ticker = u /\ order[o].action = "SELL"
    <3>1. QuietSale(o, u) /\ order[o].qty <= Net(Len(fills), u) /\ Net(Len(fills), u) >= 0
      BY <2>1, <2>2, <2>6, <2>10 DEF CoveredSales
    <3>2. Net(Len(fills), u)' >= 0
      BY <2>5, <2>7, <2>8, <2>9, <2>10, <3>1
    <3>3. \A p \in Order : ~QuietSale(p, u)'
      BY <2>1, <2>2, <2>3, <3>1 DEF CoveredSales
    <3> QED
      BY <1>4, <3>2, <3>3 DEF CoveredSales
  <2>11. CASE ~(order[o].ticker = u /\ order[o].action = "SELL")
    <3>1. Net(Len(fills), u)' >= Net(Len(fills), u)
      BY <2>5, <2>7, <2>8, <2>9, <2>11
    <3>2. Net(Len(fills), u)' \in Int
      BY <2>5, <2>7, <2>8, <2>9
    <3>3. Net(Len(fills), u)' >= 0
      BY <2>1, <2>2, <2>5, <3>1, <3>2 DEF CoveredSales
    <3>4. \A p \in Order : order[p].qty \in Nat
      <4>1. \A p \in Order : order[p] \in OrderRow
        BY <1>1 DEF PaperTypeOK, Order
      <4> QED
        BY <4>1 DEF OrderRow
    <3>5. \A p \in Order : QuietSale(p, u)' => order'[p].qty <= Net(Len(fills), u)'
      BY <2>1, <2>2, <2>3, <2>4, <2>5, <3>1, <3>2, <3>4 DEF CoveredSales
    <3>6. \A p, q \in Order : QuietSale(p, u)' /\ QuietSale(q, u)' => p = q
      BY <2>1, <2>2, <2>3 DEF CoveredSales
    <3> QED
      BY <1>4, <3>3, <3>5, <3>6 DEF CoveredSales
  <2> QED
    BY <2>10, <2>11
<1>13. KeysGivePrices'
  BY <1>2, <1>4, <1>5 DEF PaperIInv, KeysGivePrices
<1>14. RecordedIsCounted'
  <2>1. RecordedOrders' = RecordedOrders \cup {o} /\ o \notin RecordedOrders
    BY <1>2, <1>4, <1>5 DEF RecordedOrders
  <2>2. IsFiniteSet(RecordedOrders)
    <3>1. Len(order) \in Nat
      BY <1>1 DEF PaperTypeOK
    <3>2. IsFiniteSet(1..Len(order))
      BY <3>1, UpToIsFinite
    <3>3. RecordedOrders \subseteq 1..Len(order)
      BY DEF RecordedOrders, Order
    <3> QED
      BY <3>2, <3>3, FS_Subset
  <2>3. Cardinality(RecordedOrders') = Cardinality(RecordedOrders) + 1
        /\ Cardinality(RecordedOrders) \in Nat
    BY <2>1, <2>2, FS_AddElement, FS_CardinalityType
  <2>4. n \in Nat /\ n <= Cardinality(RecordedOrders)
    BY <1>8, CountsAre DEF PaperIInv
  <2>5. Len(fills') <= Cardinality(RecordedOrders')
    BY <1>7, <1>10, <2>3, <2>4
  <2>6. 1..n \subseteq 1..Len(fills') /\ (\A k \in 1..n : fills'[k] = fills[k])
    BY <1>7, <1>10, <2>4
  <2>7. ASSUME NEW p \in Order, p # o PROVE CountedOnce(p)'
    <3>1. CountedOnce(p) /\ order'[p] = order[p] /\ slipped' = slipped
      BY <1>4, <1>5, <2>7, CountsAre DEF PaperIInv
    <3> HIDE DEF n
    <3> QED
      BY <2>6, <3>1 DEF CountedOnce, n
  <2>8. CountedOnce(o)'
    <3> SUFFICES ASSUME o \notin slipped
                 PROVE  \E k \in 1..Len(fills') :
                          \A f \in {"ticker", "action", "qty", "price"} :
                            fills'[k][f] = order'[o][f]
      BY <1>5 DEF CountedOnce
    <3>1. order[o].price # NoPrice
      BY PaperAssumption DEF PaperIInv, KeysGivePrices, NoPrice
    <3>2. n + 1 \in 1..Len(fills') /\ fills'[n + 1] = row
      BY <1>10, <3>1
    <3>3. \A f \in {"ticker", "action", "qty", "price"} : row[f] = r[f]
      BY <1>2, <1>9
    <3> QED
      BY <1>4, <3>2, <3>3
  <2> QED
    BY <1>4, <2>5, <2>7, <2>8, CountsWillBe
<1> QED
  BY <1>11, <1>12, <1>13, <1>14 DEF PaperIInv

\* A change of the market's price keeps it: no sum of rows looks at the market.
LEMMA PriceMovesPreserves ==
  ASSUME PaperIInv, NEW m \in Name, PriceMoves(m)
  PROVE  PaperIInv'
<1>1. PaperTypeOK'
  BY PaperAssumption DEF PriceMoves, PaperIInv, PaperTypeOK, Order
<1>2. SalesAreCovered' /\ KeysGivePrices' /\ RecordedIsCounted'
  BY DEF PriceMoves, PaperIInv, SalesAreCovered, CoveredSales, Spoken, QuietSale, Net, Order,
         KeysGivePrices, RecordedIsCounted
<1> QED
  BY <1>1, <1>2 DEF PaperIInv

\* Every step of the paper broker keeps the invariant.
LEMMA PaperStepPreserves == PaperIInv /\ [PaperNext]_paperVars => PaperIInv'
<1> SUFFICES ASSUME PaperIInv, [PaperNext]_paperVars PROVE PaperIInv'
  OBVIOUS
<1>1. CASE place_order \/ close_position
  BY <1>1, PlaceOrderPreserves, ClosePreserves
<1>2. CASE \E o \in Order : get_order(o) \/ Record(o)
  BY <1>2, GetOrderPreserves, RecordPreserves
<1>3. CASE \E m \in Name : PriceMoves(m)
  BY <1>3, PriceMovesPreserves
<1>4. CASE UNCHANGED paperVars
  <2>1. UNCHANGED <<order, slipped, fills, price, moves>>
    BY <1>4 DEF paperVars
  <2>2. PaperTypeOK'
    BY <2>1 DEF PaperIInv, PaperTypeOK, Order
  <2>3. SalesAreCovered' /\ KeysGivePrices' /\ RecordedIsCounted'
    BY <2>1 DEF PaperIInv, SalesAreCovered, CoveredSales, Spoken, QuietSale, Net, Order,
                KeysGivePrices, RecordedIsCounted
  <2> QED
    BY <2>2, <2>3 DEF PaperIInv
<1> QED
  BY <1>1, <1>2, <1>3, <1>4 DEF PaperNext

\* The invariant holds in every state of a paper broker.
THEOREM PaperInvariant == PaperSpec => []PaperIInv
<1>1. PaperInit => PaperIInv
  BY PaperBegins
<1>2. PaperIInv /\ [PaperNext]_paperVars => PaperIInv'
  BY PaperStepPreserves
<1> QED
  BY <1>1, <1>2, PTL DEF PaperSpec

\* The invariant explains every short ticker.
LEMMA CoverExplains == PaperIInv => ShortsAreExplained
<1> SUFFICES ASSUME PaperIInv, NEW t \in TickerText, Net(Len(fills), t) < 0 PROVE Spoken(t)
  BY DEF ShortsAreExplained, Spoken
<1>1. Net(Len(fills), t) \in Int
  BY NetOfRows DEF PaperIInv, PaperTypeOK
<1> QED
  BY <1>1 DEF PaperIInv, SalesAreCovered, CoveredSales

\* The recording of a fill at the market's price, with no ticker short.
FillStep ==
  \A o \in Order :
       /\ order[o].at = "polled" /\ order'[o].at = "recorded"
       /\ order[o].price \in {NoPrice, price[order[o].ticker.name]}
       /\ \A t \in TickerText : Net(Len(fills), t) >= 0 /\ Net(Len(fills), t)' >= 0
       => Equity' = Equity

\* What EquityIsWorth needs and gives.
NoShorts == \A t \in TickerText : Net(Len(fills), t) >= 0
EquityAdds == Equity = Cash(Len(fills)) + Worth
\* EquityIsWorth in the state a step leads to.
LEMMA EquityWillBeWorth == PaperTypeOK' /\ NoShorts' => EquityAdds'
<1>1. PaperTypeOK /\ NoShorts => EquityAdds
  BY EquityIsWorth DEF NoShorts, EquityAdds
<1> QED
  BY <1>1, PTL

\* The cash the fill pays and the shares it brings are worth the same.
LEMMA RecordKeepsEquity ==
  ASSUME PaperIInv, PaperIInv', NEW o \in Order, Record(o),
         order[o].price \in {NoPrice, price[order[o].ticker.name]},
         \A t \in TickerText : Net(Len(fills), t) >= 0 /\ Net(Len(fills), t)' >= 0
  PROVE  Equity' = Equity
<1>1. CASE order[o].price = NoPrice
  <2>1. UNCHANGED <<fills, price>>
    BY <1>1 DEF Record
  <2> QED
    BY <2>1 DEF Equity, Cash, Net, Positions
<1>2. CASE order[o].price # NoPrice
  <2> DEFINE row == [ticker |-> order[o].ticker, action |-> order[o].action,
                     qty |-> order[o].qty, price |-> order[o].price]
  <2>1. PaperTypeOK /\ PaperTypeOK' /\ fills \in Seq(TradeRow) /\ order[o] \in OrderRow
    BY DEF PaperIInv, PaperTypeOK, Order
  <2>2. row \in TradeRow /\ row.price = order[o].price /\ row.ticker = order[o].ticker
    BY <1>2, <2>1 DEF OrderRow, TradeRow
  <2>3. fills' = Append(fills, row) /\ UNCHANGED price
    BY <1>2 DEF Record
  <2>4. row.price = price[row.ticker.name]
    BY <1>2, <2>2
  <2> HIDE DEF row
  <2>5. Equity = Cash(Len(fills)) + Worth
    BY <2>1, EquityIsWorth
  <2>6. Equity' = Cash(Len(fills))' + Worth'
    BY <2>1, EquityWillBeWorth DEF NoShorts, EquityAdds
  <2>7. Worth \in Int /\ Worth' = Worth + Signed(row) * price[row.ticker.name]
    BY <2>1, <2>2, <2>3, WorthRecorded
  <2>8. /\ Cash(Len(fills)) \in Int
        /\ Cash(Len(fills))' = Cash(Len(fills)) - Signed(row) * row.price
    BY <2>1, <2>2, <2>3, CashRecorded
  <2>9. Signed(row) * row.price \in Int
    BY <2>2, SignedIsInt
  <2> QED
    BY <2>4, <2>5, <2>6, <2>7, <2>8, <2>9
<1> QED
  BY <1>1, <1>2

\* Nothing but its record makes an order recorded.
LEMMA OnlyRecordRecords ==
  ASSUME PaperIInv, NEW o \in Order, order[o].at = "polled", order'[o].at = "recorded", PaperNext
  PROVE  Record(o)
<1>1. PaperTypeOK /\ order \in Seq(OrderRow) /\ order[o] \in OrderRow
  BY DEF PaperIInv, PaperTypeOK, Order
<1>2. CASE place_order \/ close_position
  <2>1. PICK x : order' = Append(order, x)
    BY <1>2 DEF place_order, close_position, Places
  <2>2. order'[o] = order[o]
    BY <1>1, <2>1 DEF Order
  <2> QED
    BY <2>2
<1>3. CASE \E p \in Order : get_order(p)
  <2>1. PICK p \in Order : get_order(p)
    BY <1>3
  <2>2. p # o /\ order'[o] = order[o]
    BY <1>1, <2>1 DEF get_order, Order
  <2> QED
    BY <2>2
<1>4. CASE \E p \in Order : Record(p)
  <2>1. PICK p \in Order : Record(p)
    BY <1>4
  <2>2. CASE p # o
    <3>1. order'[o] = order[o]
      BY <1>1, <2>1, <2>2 DEF Record, Order
    <3> QED
      BY <3>1
  <2> QED
    BY <2>1, <2>2
<1>5. CASE \E m \in Name : PriceMoves(m)
  BY <1>5 DEF PriceMoves
<1> QED
  BY <1>2, <1>3, <1>4, <1>5 DEF PaperNext

\* Holdings, cash and rows owe each other what they should: closing alone never
\* makes a ticker short, a recorded order counts once and at its price unless its
\* key slipped, and a fill at the market's price leaves the equity as it was.
THEOREM PaperBooks == PaperSpec => PaperBooksAgree
<1>1. PaperIInv => ShortsAreExplained /\ RecordedIsCounted
  BY CoverExplains DEF PaperIInv
<1>2. PaperIInv /\ PaperIInv' /\ [PaperNext]_paperVars => [FillStep]_paperVars
  <2> SUFFICES ASSUME PaperIInv, PaperIInv', PaperNext, NEW o \in Order,
                      order[o].at = "polled", order'[o].at = "recorded",
                      order[o].price \in {NoPrice, price[order[o].ticker.name]},
                      \A t \in TickerText : Net(Len(fills), t) >= 0 /\ Net(Len(fills), t)' >= 0
               PROVE  Equity' = Equity
    BY DEF FillStep
  <2> QED
    BY OnlyRecordRecords, RecordKeepsEquity
<1>3. PaperSpec => [][FillStep]_paperVars
  BY <1>2, PaperInvariant, PTL DEF PaperSpec
<1>4. PaperSpec => FillsKeepEquity
  BY <1>3 DEF FillsKeepEquity, FillStep
<1> QED
  BY <1>1, <1>4, PaperInvariant, PTL DEF PaperBooksAgree

-----------------------------------------------------------------------------
(***************************************************************************)
(* The live brokers: their inductive invariant.                            *)
(***************************************************************************)

\* The net position by the first n orders of the venue.
HeldIn(n) == SumFunctionOnSet([k \in 1..n |-> IF venue[k].raw = "complete" THEN venue[k].qty ELSE 0],
                              1..n)
NoneOpen(n) == \A k \in 1..n : venue[k].raw # "open"

\* The net position is that by all orders.
LEMMA HeldIsAll == Held = HeldIn(Len(venue))
BY DEF Held, HeldIn, SumFunction

\* It is a whole number.
LEMMA HeldIsInt ==
  ASSUME LiveTypeOK, NEW n \in Nat, n <= Len(venue)
  PROVE  HeldIn(n) \in Int
<1> DEFINE F == [k \in 1..n |-> IF venue[k].raw = "complete" THEN venue[k].qty ELSE 0]
           S == 1..n
<1>1. \A k \in 1..n : venue[k] \in VenueOrder
  BY DEF LiveTypeOK
<1>2. \A k \in 1..n : venue[k].qty \in Int
  BY <1>1 DEF VenueOrder
<1>3. \A k \in S : F[k] \in Int
  BY <1>2
<1>4. IsFiniteSet(S)
  BY UpToIsFinite
<1>5. HeldIn(n) = SumFunctionOnSet(F, S)
  BY DEF HeldIn
<1> HIDE DEF F, S
<1> QED
  BY <1>3, <1>4, <1>5, SumIsInt

\* What an order adds does not change with what happens to another one.
LEMMA HeldKept ==
  ASSUME NEW n \in Nat,
         \A k \in 1..n : venue'[k].raw = venue[k].raw /\ venue'[k].qty = venue[k].qty
  PROVE  HeldIn(n)' = HeldIn(n)
<1> DEFINE F == [k \in 1..n |-> IF venue[k].raw = "complete" THEN venue[k].qty ELSE 0]
           G == [k \in 1..n |-> IF venue'[k].raw = "complete" THEN venue'[k].qty ELSE 0]
           S == 1..n
<1>1. \A k \in S : F[k] = G[k]
  OBVIOUS
<1>2. IsFiniteSet(S)
  BY UpToIsFinite
<1>3. HeldIn(n) = SumFunctionOnSet(F, S) /\ HeldIn(n)' = SumFunctionOnSet(G, S)
  BY DEF HeldIn
<1> HIDE DEF F, G, S
<1> QED
  BY <1>1, <1>2, <1>3, SumSame

\* The calls in progress have numbers of their own, and an order has that of a
\* call already made.
Going(c) == call[c].at # "free"
CallsAreNumbered ==
  /\ \A c \in Caller : Going(c) => call[c].n \in 1..calls /\ call[c].op # "none"
  /\ \A c, d \in Caller : Going(c) /\ Going(d) /\ call[c].n = call[d].n => c = d
  /\ \A k \in 1..Len(venue) : venue[k].by <= calls

\* A call in progress whose order the venue has was answered with an error.
RepeatsAreErrors ==
  \A c \in Caller : Going(c) =>
    \A k \in 1..Len(venue) : venue[k].by = call[c].n =>
      backend = "angel" /\ venue[k].op = "place" /\ ~venue[k].answered

\* A close that read while no order was open holds what is still true as long
\* as no order came after.
StillRead(s) ==
  s.at # "free" =>
    /\ s.at = "holdings" => s.op = "close"
    /\ s.at # "holdings" /\ s.op = "close" /\ s.quiet =>
         /\ s.read <= Len(venue)
         /\ s.read = Len(venue) => s.qty = -HeldIn(s.read) /\ NoneOpen(s.read)
ReadingsHold == \A c \in Caller : StillRead(call[c])

\* So does the order such a close became, as long as it is the last one.
Opposite(k) ==
  venue[k].op = "close" /\ venue[k].quiet =>
    /\ venue[k].read < k
    /\ Len(venue) = venue[k].read + 1 =>
         venue[k].qty = -HeldIn(venue[k].read) /\ NoneOpen(venue[k].read)
ClosesAreOpposite == \A k \in 1..Len(venue) : Opposite(k)

LiveIInv ==
  /\ LiveTypeOK /\ CallsAreNumbered /\ RepeatsAreErrors /\ DuplicatesAreServerErrors
  /\ ReadingsHold /\ ClosesAreOpposite

\* The bounds leave room for nothing yet made.
LEMMA LiveBounds ==
  0 \in 0..MaxCalls /\ 0 \in 0..MaxVenue /\ 0 <= MaxVenue /\ 0 \in 0..(MaxSends - 1)
BY LiveAssumption

\* The state of a caller without a call.
LEMMA FreeIsFree == Free \in CallState /\ Free.at = "free"
BY LiveAssumption DEF Free, CallState

\* Brokers without calls and orders have the invariant.
LEMMA LiveBegins == LiveInit => LiveIInv
<1> SUFFICES ASSUME LiveInit PROVE LiveIInv
  OBVIOUS
<1>1. /\ calls = 0 /\ (\A c \in Caller : call[c] = Free) /\ call \in [Caller -> CallState]
      /\ venue \in Seq(VenueOrder) /\ Len(venue) = 0
  BY FreeIsFree DEF LiveInit
<1>2. LiveTypeOK
  BY <1>1, LiveBounds DEF LiveInit, LiveTypeOK
<1> QED
  BY <1>1, <1>2, FreeIsFree DEF LiveIInv, CallsAreNumbered, Going, RepeatsAreErrors,
     DuplicatesAreServerErrors, ReadingsHold, StillRead, ClosesAreOpposite

\* What a step of a call does to the callers.
LEMMA CallSets ==
  ASSUME LiveTypeOK, NEW c \in Caller, NEW new \in CallState, CallGoes(c, new)
  PROVE  /\ call' \in [Caller -> CallState] /\ call'[c] = new
         /\ \A d \in Caller : d # c => call'[d] = call[d]
BY DEF LiveTypeOK, CallGoes

\* A call moves on, ends, or is a new one, and the venue does not notice.
LEMMA CallPreserves ==
  ASSUME LiveIInv, NEW c \in Caller, NEW new \in CallState, CallGoes(c, new),
         UNCHANGED <<backend, venue>>, known' \in BOOLEAN, calls' \in {calls, calls + 1},
         calls' <= MaxCalls, StillRead(new),
         new.at # "free" =>
           /\ new.op # "none"
           /\ \/ new.n = call[c].n /\ Going(c)
              \/ new.n = calls + 1 /\ calls' = calls + 1
  PROVE  LiveIInv'
<1>1. LiveTypeOK /\ calls \in Nat
  BY DEF LiveIInv, LiveTypeOK
<1>2. /\ call' \in [Caller -> CallState] /\ call'[c] = new
      /\ \A d \in Caller : d # c => call'[d] = call[d]
  BY <1>1, CallSets
<1>3. LiveTypeOK'
  BY <1>1, <1>2, LiveAssumption DEF LiveTypeOK
<1>4. CallsAreNumbered'
  <2>1. CallsAreNumbered
    BY DEF LiveIInv
  <2>2. \A d \in Caller : call'[d].at # "free" => call'[d].n \in 1..calls' /\ call'[d].op # "none"
    BY <1>1, <1>2, <2>1 DEF CallsAreNumbered, Going
  <2>3. \A d \in Caller : d # c /\ call'[d].at # "free" /\ call'[c].at # "free" =>
                            call'[d].n # call'[c].n
    BY <1>1, <1>2, <2>1 DEF CallsAreNumbered, Going
  <2>4. \A d, e \in Caller : call'[d].at # "free" /\ call'[e].at # "free" /\ call'[d].n = call'[e].n
                              => d = e
    BY <1>2, <2>1, <2>3 DEF CallsAreNumbered, Going
  <2>5. \A k \in 1..Len(venue) : venue[k].by <= calls'
    <3>1. \A k \in 1..Len(venue) : venue[k].by <= calls /\ venue[k] \in VenueOrder
      BY <1>1, <2>1 DEF CallsAreNumbered, LiveTypeOK
    <3>2. \A k \in 1..Len(venue) : venue[k].by \in Int
      BY <3>1 DEF VenueOrder
    <3> QED
      BY <1>1, <3>1, <3>2
  <2> QED
    BY <2>2, <2>4, <2>5 DEF CallsAreNumbered, Going
<1>5. RepeatsAreErrors'
  <2>1. \A k \in 1..Len(venue) : venue[k].by # calls + 1
    <3>1. \A k \in 1..Len(venue) : venue[k].by <= calls
      BY DEF LiveIInv, CallsAreNumbered
    <3> QED
      BY <1>1, <3>1
  <2> QED
    BY <1>2, <2>1 DEF LiveIInv, RepeatsAreErrors, Going
<1>6. DuplicatesAreServerErrors'
  BY DEF LiveIInv, DuplicatesAreServerErrors
<1>7. ReadingsHold'
  <2>1. \A d \in Caller : StillRead(call'[d])
    BY <1>2 DEF LiveIInv, ReadingsHold
  <2> QED
    BY <2>1 DEF ReadingsHold, StillRead, HeldIn, NoneOpen
<1>8. ClosesAreOpposite'
  BY DEF LiveIInv, ClosesAreOpposite, Opposite, HeldIn, NoneOpen
<1> QED
  BY <1>3, <1>4, <1>5, <1>6, <1>7, <1>8 DEF LiveIInv

\* A caller without a call has read nothing.
LEMMA FreeReads == StillRead(Free)
BY FreeIsFree DEF StillRead

\* The end of a call keeps the invariant.
LEMMA EndPreserves ==
  ASSUME LiveIInv, NEW c \in Caller, CallGoes(c, Free), UNCHANGED <<backend, venue, calls>>,
         known' \in BOOLEAN
  PROVE  LiveIInv'
<1>1. calls \in Nat /\ calls <= MaxCalls
  BY LiveAssumption DEF LiveIInv, LiveTypeOK
<1> QED
  BY <1>1, CallPreserves, FreeIsFree, FreeReads

\* So does the begin of one, which takes a number of its own.
LEMMA BeginPreserves ==
  ASSUME LiveIInv, NEW c \in Caller, Place(c) \/ Close(c)
  PROVE  LiveIInv'
<1>1. calls \in Nat /\ calls < MaxCalls /\ calls' = calls + 1 /\ calls' <= MaxCalls
  BY LiveAssumption DEF LiveIInv, LiveTypeOK, Place, Close
<1>2. UNCHANGED <<backend, known, venue>> /\ known' \in BOOLEAN
  BY DEF LiveIInv, LiveTypeOK, Place, Close
<1>3. CASE Place(c)
  <2>1. PICK qty \in {1, -1} :
          CallGoes(c, [Free EXCEPT !.at = OrderStage, !.op = "place", !.n = calls + 1, !.qty = qty])
    BY <1>3 DEF Place
  <2> DEFINE new == [Free EXCEPT !.at = OrderStage, !.op = "place", !.n = calls + 1, !.qty = qty]
  <2>2. new \in CallState /\ new.op = "place" /\ new.n = calls + 1 /\ new.at # "holdings"
    <3>1. OrderStage \in {"search", "send"} /\ qty \in Int /\ calls + 1 \in 0..MaxCalls
      BY <1>1, LiveAssumption DEF OrderStage
    <3> QED
      BY <3>1, FreeIsFree DEF CallState
  <2> HIDE DEF new
  <2>3. StillRead(new)
    BY <2>2 DEF StillRead
  <2> QED
    BY <1>1, <1>2, <2>1, <2>2, <2>3, CallPreserves DEF new
<1>4. CASE Close(c)
  <2> DEFINE new == [Free EXCEPT !.at = "holdings", !.op = "close", !.n = calls + 1]
  <2>1. CallGoes(c, new)
    BY <1>4 DEF Close
  <2>2. new \in CallState /\ new.op = "close" /\ new.n = calls + 1 /\ new.at = "holdings"
    <3>1. calls + 1 \in 0..MaxCalls
      BY <1>1, LiveAssumption
    <3> QED
      BY <3>1, FreeIsFree DEF CallState
  <2> HIDE DEF new
  <2>3. StillRead(new)
    BY <2>2 DEF StillRead
  <2> QED
    BY <1>1, <1>2, <2>1, <2>2, <2>3, CallPreserves
<1> QED
  BY <1>3, <1>4

\* So does the reading of the position: what is read is true then.
LEMMA HoldingsPreserves ==
  ASSUME LiveIInv, NEW c \in Caller, Holdings(c)
  PROVE  LiveIInv'
<1> DEFINE new == [call[c] EXCEPT !.at = OrderStage, !.qty = -Held, !.read = Len(venue),
                          !.quiet = \A k \in 1..Len(venue) : venue[k].raw # "open"]
<1>1. /\ UNCHANGED <<backend, known, calls, venue>> /\ known' \in BOOLEAN
      /\ calls \in Nat /\ calls <= MaxCalls
  BY LiveAssumption DEF LiveIInv, LiveTypeOK, Holdings
<1>2. call[c] \in CallState /\ call[c].at = "holdings" /\ call[c].op = "close" /\ Going(c)
  BY DEF Holdings, LiveIInv, LiveTypeOK, ReadingsHold, StillRead, Going
<1>3. Held \in Int /\ Len(venue) \in 0..MaxVenue /\ Held = HeldIn(Len(venue))
  <2>1. Len(venue) \in Nat /\ Len(venue) <= MaxVenue
    BY DEF LiveIInv, LiveTypeOK
  <2>2. Held = HeldIn(Len(venue)) /\ HeldIn(Len(venue)) \in Int
    BY <2>1, HeldIsAll, HeldIsInt DEF LiveIInv
  <2> QED
    BY <2>1, <2>2, LiveAssumption
<1>4. /\ new \in CallState /\ new.at \in {"search", "send"} /\ new.op = "close"
      /\ new.n = call[c].n /\ new.read = Len(venue) /\ new.qty = -Held
      /\ new.quiet => NoneOpen(Len(venue))
  <2>1. -Held \in Int /\ OrderStage \in {"search", "send"}
    BY <1>3 DEF OrderStage
  <2>2. new \in CallState
    BY <1>2, <1>3, <2>1 DEF CallState
  <2>3. new.quiet => NoneOpen(Len(venue))
    BY <1>2 DEF CallState, NoneOpen
  <2> QED
    BY <1>2, <2>1, <2>2, <2>3 DEF CallState
<1>5. CallGoes(c, new) \/ CallGoes(c, Free)
  BY DEF Holdings, Reads
<1> HIDE DEF new
<1>6. StillRead(new)
  BY <1>3, <1>4 DEF StillRead
<1>7. CASE CallGoes(c, new)
  BY <1>1, <1>2, <1>4, <1>6, <1>7, CallPreserves
<1>8. CASE CallGoes(c, Free)
  BY <1>1, <1>8, EndPreserves
<1> QED
  BY <1>5, <1>7, <1>8

\* So does the search of the symbol, which the venue does not notice.
LEMMA SearchPreserves ==
  ASSUME LiveIInv, NEW c \in Caller, Search(c)
  PROVE  LiveIInv'
<1> DEFINE new == [call[c] EXCEPT !.at = "send"]
<1>1. /\ UNCHANGED <<backend, calls, venue>> /\ known' \in BOOLEAN
      /\ calls \in Nat /\ calls <= MaxCalls /\ CallGoes(c, new)
  BY LiveAssumption DEF LiveIInv, LiveTypeOK, Search
<1>2. call[c] \in CallState /\ call[c].at = "search" /\ call[c].op # "none" /\ Going(c)
      /\ StillRead(call[c])
  BY DEF Search, LiveIInv, LiveTypeOK, ReadingsHold, CallsAreNumbered, Going
<1>3. /\ new \in CallState /\ new.at = "send" /\ new.op = call[c].op /\ new.n = call[c].n
      /\ new.read = call[c].read /\ new.qty = call[c].qty /\ new.quiet = call[c].quiet
  BY <1>2 DEF CallState
<1> HIDE DEF new
<1>4. StillRead(new)
  BY <1>2, <1>3 DEF StillRead
<1> QED
  BY <1>1, <1>2, <1>3, <1>4, CallPreserves


\* The venue has an order more, of a call that ends or is sent once more.
LEMMA AcceptPreserves ==
  ASSUME LiveIInv, NEW c \in Caller, call[c].at = "send", NEW answered \in BOOLEAN,
         Accepts(c, answered), NEW new \in CallState, CallGoes(c, new),
         UNCHANGED <<backend, known, calls>>,
         new.at # "free" =>
           /\ backend = "angel" /\ call[c].op = "place" /\ ~answered
           /\ new.at = "send" /\ new.op = "place" /\ new.n = call[c].n
  PROVE  LiveIInv'
<1> PICK n \in Nat : n = Len(venue)
  BY DEF LiveIInv, LiveTypeOK
<1> PICK s \in CallState : s = call[c]
  BY DEF LiveIInv, LiveTypeOK
<1> DEFINE x == [by |-> s.n, op |-> s.op, qty |-> s.qty, raw |-> "open", answered |-> answered,
                 read |-> s.read, quiet |-> s.quiet]
<1>1. /\ LiveTypeOK /\ CallsAreNumbered /\ RepeatsAreErrors /\ DuplicatesAreServerErrors
      /\ ReadingsHold /\ ClosesAreOpposite /\ venue \in Seq(VenueOrder) /\ calls \in Nat
      /\ calls <= MaxCalls
  BY LiveAssumption DEF LiveIInv, LiveTypeOK
<1>2. s.n \in 1..calls /\ s.op \in {"place", "close"} /\ Going(c) /\ StillRead(s) /\ s.at = "send"
  BY <1>1 DEF CallsAreNumbered, Going, ReadingsHold, CallState
<1>3. x \in VenueOrder
  <2>1. s.n \in 1..MaxCalls
    BY <1>1, <1>2, LiveAssumption
  <2>2. s.qty \in Int /\ s.read \in 0..MaxVenue /\ s.quiet \in BOOLEAN
    BY DEF CallState
  <2> QED
    BY <1>2, <2>1, <2>2 DEF VenueOrder, map_status
<1>4. /\ x.by = s.n /\ x.op = s.op /\ x.qty = s.qty /\ x.answered = answered /\ x.raw = "open"
      /\ x.read = s.read /\ x.quiet = s.quiet
  OBVIOUS
<1>5. venue' = Append(venue, x) /\ n < MaxVenue
  BY DEF Accepts
<1> HIDE DEF x
<1>6. /\ venue' \in Seq(VenueOrder) /\ Len(venue') = n + 1 /\ venue'[n + 1] = x
      /\ \A k \in 1..n : venue'[k] = venue[k]
      /\ 1..Len(venue') = (1..n) \cup {n + 1} /\ n + 1 \notin 1..n
  BY <1>1, <1>3, <1>5, Appended
<1>7. /\ call' \in [Caller -> CallState] /\ call'[c] = new
      /\ \A d \in Caller : d # c => call'[d] = call[d]
  BY <1>1, CallSets
<1>8. LiveTypeOK'
  <2>1. Len(venue') <= MaxVenue
    BY <1>5, <1>6, LiveAssumption
  <2> QED
    BY <1>1, <1>6, <1>7, <2>1 DEF LiveTypeOK
<1>9. CallsAreNumbered'
  <2>1. \A d \in Caller : call'[d].at # "free" =>
          /\ call[d].at # "free" /\ call'[d].n = call[d].n /\ call'[d].op # "none"
    BY <1>1, <1>2, <1>7 DEF CallsAreNumbered, Going
  <2>2. \A k \in 1..Len(venue') : venue'[k].by <= calls
    BY <1>1, <1>2, <1>4, <1>6 DEF CallsAreNumbered
  <2> QED
    BY <1>1, <2>1, <2>2 DEF CallsAreNumbered, Going
<1>10. RepeatsAreErrors'
  <2> SUFFICES ASSUME NEW d \in Caller, call'[d].at # "free", NEW k \in 1..Len(venue'),
                      venue'[k].by = call'[d].n
               PROVE  backend = "angel" /\ venue'[k].op = "place" /\ ~venue'[k].answered
    BY DEF RepeatsAreErrors, Going
  <2>1. call[d].at # "free" /\ call'[d].n = call[d].n
    BY <1>2, <1>7 DEF Going
  <2>2. CASE k = n + 1
    <3>1. d = c
      BY <1>1, <1>2, <1>4, <1>6, <2>1, <2>2 DEF CallsAreNumbered, Going
    <3> QED
      BY <1>4, <1>6, <1>7, <2>2, <3>1
  <2>3. CASE k \in 1..n
    BY <1>1, <1>6, <2>1, <2>3 DEF RepeatsAreErrors, Going
  <2> QED
    BY <1>6, <2>2, <2>3
<1>11. DuplicatesAreServerErrors'
  <2> SUFFICES ASSUME NEW k \in 1..Len(venue'), NEW l \in 1..Len(venue'), k < l,
                      venue'[k].by = venue'[l].by
               PROVE  backend = "angel" /\ venue'[k].op = "place" /\ ~venue'[k].answered
    BY DEF DuplicatesAreServerErrors
  <2>1. k \in 1..n /\ venue'[k] = venue[k]
    BY <1>6
  <2>2. CASE l = n + 1
    BY <1>1, <1>2, <1>4, <1>6, <2>1, <2>2 DEF RepeatsAreErrors, Going
  <2>3. CASE l \in 1..n
    BY <1>1, <1>6, <2>1, <2>3 DEF DuplicatesAreServerErrors
  <2> QED
    BY <1>6, <2>2, <2>3
<1>12. ASSUME NEW m \in Nat, m <= n
       PROVE  HeldIn(m)' = HeldIn(m) /\ (NoneOpen(m)' <=> NoneOpen(m))
  <2>1. \A k \in 1..m : venue'[k].raw = venue[k].raw /\ venue'[k].qty = venue[k].qty
    BY <1>6, <1>12
  <2> QED
    BY <2>1, HeldKept DEF NoneOpen
<1>13. ReadingsHold'
  <2> SUFFICES ASSUME NEW d \in Caller PROVE StillRead(call[d])'
    BY DEF ReadingsHold
  <2>1. CASE d = c
    BY <1>7, <2>1 DEF StillRead
  <2>2. CASE d # c
    <3>1. call'[d] = call[d] /\ StillRead(call[d]) /\ call[d] \in CallState
      BY <1>1, <1>7, <2>2 DEF ReadingsHold, LiveTypeOK
    <3>2. call[d].read \in Nat
      BY <3>1, LiveAssumption DEF CallState
    <3> QED
      BY <1>6, <3>1, <3>2 DEF StillRead
  <2> QED
    BY <2>1, <2>2
<1>14. ClosesAreOpposite'
  <2> SUFFICES ASSUME NEW k \in 1..Len(venue') PROVE Opposite(k)'
    BY DEF ClosesAreOpposite
  <2>1. CASE k = n + 1
    <3> SUFFICES ASSUME x.op = "close", x.quiet
                 PROVE  /\ x.read < k
                        /\ n + 1 = x.read + 1 =>
                             x.qty = -(HeldIn(x.read)') /\ NoneOpen(x.read)'
      BY <1>6, <2>1 DEF Opposite
    <3>1. s.read \in Nat /\ s.read <= n
      BY <1>2, <1>4, LiveAssumption DEF StillRead, CallState
    <3>2. s.read = n => s.qty = -HeldIn(s.read) /\ NoneOpen(s.read)
      BY <1>2, <1>4 DEF StillRead
    <3> QED
      BY <1>4, <1>12, <2>1, <3>1, <3>2
  <2>2. CASE k \in 1..n
    <3>1. venue'[k] = venue[k] /\ Opposite(k) /\ venue[k] \in VenueOrder
      BY <1>1, <1>6, <2>2 DEF ClosesAreOpposite, LiveTypeOK
    <3>2. venue[k].read \in Nat
      BY <3>1, LiveAssumption DEF VenueOrder
    <3> QED
      BY <1>6, <2>2, <3>1, <3>2 DEF Opposite
  <2> QED
    BY <1>6, <2>1, <2>2
<1> QED
  BY <1>8, <1>9, <1>10, <1>11, <1>13, <1>14 DEF LiveIInv

\* So does an order sent, whatever the venue answers.
LEMMA SentPreserves ==
  ASSUME LiveIInv, NEW c \in Caller, Send(c) \/ SendErrs(c) \/ SendLost(c)
  PROVE  LiveIInv'
<1> DEFINE once == [call[c] EXCEPT !.sends = @ + 1]
<1>1. call[c].at = "send" /\ UNCHANGED <<backend, known, calls>> /\ call[c] \in CallState
      /\ known' \in BOOLEAN /\ calls \in Nat /\ calls <= MaxCalls
  <2>1. call[c].at = "send" /\ UNCHANGED <<backend, known, calls>>
    BY DEF Send, SendErrs, SendLost
  <2>2. call[c] \in CallState /\ known \in BOOLEAN /\ calls \in 0..MaxCalls
    BY DEF LiveIInv, LiveTypeOK
  <2> QED
    BY <2>1, <2>2, LiveAssumption
<1>2. CASE Send(c) \/ SendLost(c)
  <2>1. CallGoes(c, Free) /\ \E answered \in BOOLEAN : Accepts(c, answered)
    BY <1>2 DEF Send, SendLost
  <2> QED
    BY <1>1, <2>1, FreeIsFree, AcceptPreserves
<1>3. CASE SendErrs(c)
  <2>1. UNCHANGED venue \/ Accepts(c, FALSE)
    BY <1>3 DEF SendErrs
  <2>2. CASE CallGoes(c, Free)
    <3>1. CASE UNCHANGED venue
      BY <1>1, <2>2, <3>1, EndPreserves
    <3>2. CASE Accepts(c, FALSE)
      BY <1>1, <2>2, <3>2, FreeIsFree, AcceptPreserves
    <3> QED
      BY <2>1, <3>1, <3>2
  <2>3. CASE /\ backend = "angel" /\ call[c].op = "place" /\ call[c].sends + 1 < MaxSends
             /\ CallGoes(c, once)
    <3>1. call[c].sends + 1 \in 0..(MaxSends - 1)
      BY <1>1, <2>3, LiveAssumption DEF CallState
    <3>2. once \in CallState /\ once.at = "send" /\ once.op = "place" /\ once.n = call[c].n
      BY <1>1, <2>3, <3>1 DEF CallState
    <3> HIDE DEF once
    <3>3. StillRead(once) /\ Going(c)
      BY <1>1, <3>2 DEF StillRead, Going
    <3>4. CASE UNCHANGED venue
      BY <1>1, <2>3, <3>2, <3>3, <3>4, CallPreserves
    <3>5. CASE Accepts(c, FALSE)
      BY <1>1, <2>3, <3>2, <3>5, AcceptPreserves
    <3> QED
      BY <2>1, <3>4, <3>5
  <2> QED
    BY <1>3, <2>2, <2>3 DEF SendErrs, Errs
<1> QED
  BY <1>2, <1>3

\* An open order is filled, rejected or cancelled.
LEMMA BookPreserves ==
  ASSUME LiveIInv, NEW k \in 1..Len(venue), Cancel(k) \/ Settle(k)
  PROVE  LiveIInv'
<1> PICK n \in Nat : n = Len(venue)
  BY DEF LiveIInv, LiveTypeOK
<1>1. /\ LiveTypeOK /\ CallsAreNumbered /\ RepeatsAreErrors /\ DuplicatesAreServerErrors
      /\ ReadingsHold /\ ClosesAreOpposite /\ venue \in Seq(VenueOrder)
  BY DEF LiveIInv, LiveTypeOK
<1>2. PICK raw \in {"cancelled", "complete", "rejected"} : venue' = [venue EXCEPT ![k].raw = raw]
  BY DEF Cancel, Settle
<1>3. venue[k].raw = "open" /\ UNCHANGED <<backend, known, calls, call>>
  BY DEF Cancel, Settle
<1> DEFINE x == [venue[k] EXCEPT !.raw = raw]
<1>4. venue[k] \in VenueOrder
  BY <1>1
<1>5. /\ x \in VenueOrder /\ x.by = venue[k].by /\ x.op = venue[k].op /\ x.qty = venue[k].qty
      /\ x.answered = venue[k].answered /\ x.read = venue[k].read /\ x.quiet = venue[k].quiet
      /\ x.raw # "open"
  BY <1>4 DEF VenueOrder, map_status
<1> HIDE DEF x
<1>6. /\ venue' \in Seq(VenueOrder) /\ Len(venue') = n /\ venue'[k] = x
      /\ \A j \in 1..n : j # k => venue'[j] = venue[j]
  BY <1>1, <1>2, <1>5, Replaced DEF x
<1>7. \A j \in 1..n : /\ venue'[j].by = venue[j].by /\ venue'[j].op = venue[j].op
                      /\ venue'[j].qty = venue[j].qty /\ venue'[j].answered = venue[j].answered
                      /\ venue'[j].read = venue[j].read /\ venue'[j].quiet = venue[j].quiet
  BY <1>5, <1>6
<1>8. LiveTypeOK'
  BY <1>1, <1>3, <1>6 DEF LiveTypeOK
<1>9. CallsAreNumbered' /\ RepeatsAreErrors' /\ DuplicatesAreServerErrors'
  BY <1>1, <1>3, <1>6, <1>7 DEF CallsAreNumbered, RepeatsAreErrors, DuplicatesAreServerErrors,
                                 Going
<1>10. ASSUME NEW m \in Nat, m <= n, NoneOpen(m)
       PROVE  HeldIn(m)' = HeldIn(m) /\ NoneOpen(m)'
  <2>1. k \notin 1..m
    BY <1>3, <1>10 DEF NoneOpen
  <2>2. \A j \in 1..m : venue'[j] = venue[j]
    BY <1>6, <1>10, <2>1
  <2> QED
    BY <1>10, <2>2, HeldKept DEF NoneOpen
<1>11. ReadingsHold'
  <2> SUFFICES ASSUME NEW d \in Caller PROVE StillRead(call[d])'
    BY DEF ReadingsHold
  <2>1. call'[d] = call[d] /\ StillRead(call[d]) /\ call[d] \in CallState
    BY <1>1, <1>3 DEF ReadingsHold, LiveTypeOK
  <2>2. call[d].read \in Nat
    BY <2>1, LiveAssumption DEF CallState
  <2> QED
    BY <1>6, <1>10, <2>1, <2>2 DEF StillRead
<1>12. ClosesAreOpposite'
  <2> SUFFICES ASSUME NEW j \in 1..n PROVE Opposite(j)'
    BY <1>6 DEF ClosesAreOpposite
  <2>1. Opposite(j) /\ venue[j] \in VenueOrder
    BY <1>1 DEF ClosesAreOpposite
  <2>2. venue[j].read \in Nat
    BY <2>1, LiveAssumption DEF VenueOrder
  <2> QED
    BY <1>6, <1>7, <1>10, <2>1, <2>2 DEF Opposite
<1> QED
  BY <1>8, <1>9, <1>11, <1>12 DEF LiveIInv

\* Every step of a live broker keeps the invariant.
LEMMA LiveStepPreserves == LiveIInv /\ [LiveNext]_liveVars => LiveIInv'
<1> SUFFICES ASSUME LiveIInv, [LiveNext]_liveVars PROVE LiveIInv'
  OBVIOUS
<1>1. ASSUME NEW c \in Caller,
             \/ Place(c) \/ Close(c) \/ Holdings(c) \/ Search(c)
             \/ Send(c) \/ SendErrs(c) \/ SendLost(c) \/ RequestFails(c)
      PROVE  LiveIInv'
  <2>1. CASE RequestFails(c)
    <3>1. CallGoes(c, Free) /\ UNCHANGED <<backend, venue, calls>> /\ known' \in BOOLEAN
      BY <2>1 DEF RequestFails, LiveIInv, LiveTypeOK
    <3> QED
      BY <3>1, EndPreserves
  <2> QED
    BY <1>1, <2>1, BeginPreserves, HoldingsPreserves, SearchPreserves, SentPreserves
<1>2. CASE \E k \in 1..Len(venue) : Cancel(k) \/ Settle(k)
  BY <1>2, BookPreserves
<1>3. CASE UNCHANGED liveVars
  <2>1. UNCHANGED <<backend, known, calls, call, venue>>
    BY <1>3 DEF liveVars
  <2>2. LiveTypeOK'
    BY <2>1 DEF LiveIInv, LiveTypeOK
  <2>3. CallsAreNumbered' /\ RepeatsAreErrors' /\ DuplicatesAreServerErrors'
    BY <2>1 DEF LiveIInv, CallsAreNumbered, RepeatsAreErrors, DuplicatesAreServerErrors, Going
  <2>4. ReadingsHold' /\ ClosesAreOpposite'
    BY <2>1 DEF LiveIInv, ReadingsHold, StillRead, ClosesAreOpposite, Opposite, HeldIn, NoneOpen
  <2> QED
    BY <2>2, <2>3, <2>4 DEF LiveIInv
<1> QED
  BY <1>1, <1>2, <1>3 DEF LiveNext

\* The invariant holds in every state of a live broker.
THEOREM LiveInvariant == LiveSpec => []LiveIInv
<1>1. LiveInit => LiveIInv
  BY LiveBegins
<1>2. LiveIInv /\ [LiveNext]_liveVars => LiveIInv'
  BY LiveStepPreserves
<1> QED
  BY <1>1, <1>2, PTL DEF LiveSpec

\* A lone close is filled.
FlatStep ==
  \A k \in 1..Len(venue) :
       /\ venue[k].op = "close" /\ venue[k].quiet /\ Len(venue) = venue[k].read + 1
       /\ venue[k].raw = "open" /\ venue'[k].raw = "complete"
       => Held' = 0

\* Only the order itself is filled, and it is the opposite of all others.
LEMMA LoneCloseFlattens ==
  ASSUME LiveIInv, LiveNext, NEW k \in 1..Len(venue),
         venue[k].op = "close", venue[k].quiet, Len(venue) = venue[k].read + 1,
         venue[k].raw = "open", venue'[k].raw = "complete"
  PROVE  Held' = 0
<1>1. venue \in Seq(VenueOrder) /\ venue[k] \in VenueOrder /\ Opposite(k) /\ LiveTypeOK
  BY DEF LiveIInv, LiveTypeOK, ClosesAreOpposite
<1> PICK m \in Nat : m = venue[k].read
  BY <1>1, LiveAssumption DEF VenueOrder
<1>2. k = m + 1 /\ Len(venue) = m + 1 /\ venue[k].qty = -HeldIn(m) /\ NoneOpen(m)
  BY <1>1 DEF Opposite
<1>3. PICK j \in 1..Len(venue), raw \in {"cancelled", "complete", "rejected"} :
        venue' = [venue EXCEPT ![j].raw = raw]
  <2>1. CASE \E c \in Caller : \/ Place(c) \/ Close(c) \/ Holdings(c) \/ Search(c)
                               \/ RequestFails(c)
    BY <2>1 DEF Place, Close, Holdings, Search, RequestFails
  <2>2. CASE \E c \in Caller : Send(c) \/ SendErrs(c) \/ SendLost(c)
    <3>1. UNCHANGED venue \/ \E x : venue' = Append(venue, x)
      BY <2>2 DEF Send, SendErrs, SendLost, Accepts
    <3>2. venue'[k] = venue[k]
      BY <1>1, <3>1
    <3> QED
      BY <3>2
  <2>3. CASE \E j \in 1..Len(venue) : Cancel(j) \/ Settle(j)
    BY <2>3 DEF Cancel, Settle
  <2> QED
    BY <2>1, <2>2, <2>3 DEF LiveNext
<1>4. j = k
  <2>1. j # k => venue'[k] = venue[k]
    BY <1>1, <1>3
  <2> QED
    BY <2>1
<1>5. /\ Len(venue') = m + 1 /\ venue'[k].qty = venue[k].qty
      /\ \A i \in 1..m : venue'[i] = venue[i]
  <2>1. venue' = [venue EXCEPT ![k] = [venue[k] EXCEPT !.raw = raw]]
    BY <1>3, <1>4
  <2>2. venue'[k] = [venue[k] EXCEPT !.raw = raw]
    BY <1>1, <2>1
  <2>3. venue'[k].qty = venue[k].qty
    BY <1>1, <2>2 DEF VenueOrder
  <2>4. Len(venue') = m + 1 /\ \A i \in 1..m : venue'[i] = venue[i]
    BY <1>1, <1>2, <2>1
  <2> QED
    BY <2>3, <2>4
<1>6. HeldIn(m)' = HeldIn(m)
  BY <1>5, HeldKept
<1>7. HeldIn(m) \in Int
  BY <1>1, <1>2, HeldIsInt
<1>8. IsFiniteSet(1..m)
  BY UpToIsFinite
<1> DEFINE F == [i \in 1..m |-> IF venue'[i].raw = "complete" THEN venue'[i].qty ELSE 0]
           G == [i \in 1..(m + 1) |-> IF venue'[i].raw = "complete" THEN venue'[i].qty ELSE 0]
           S == 1..m
<1>9. Held' = SumFunctionOnSet(G, S \cup {m + 1})
  <2>1. Held' = SumFunctionOnSet(G, 1..(m + 1))
    BY <1>5 DEF Held, SumFunction
  <2>2. 1..(m + 1) = S \cup {m + 1}
    OBVIOUS
  <2> QED
    BY <2>1, <2>2
<1>10. HeldIn(m)' = SumFunctionOnSet(F, S)
  BY DEF HeldIn
<1>11. \A i \in S : F[i] = G[i] /\ G[i] \in Int
  <2>1. \A i \in 1..m : venue[i] \in VenueOrder
    BY <1>1, <1>2
  <2>2. \A i \in 1..m : venue'[i].qty \in Int
    BY <1>5, <2>1 DEF VenueOrder
  <2> QED
    BY <2>2
<1>12. G[m + 1] = venue[k].qty /\ G[m + 1] \in Int /\ IsFiniteSet(S) /\ m + 1 \notin S
  <2>1. G[m + 1] = venue[k].qty
    BY <1>2, <1>5
  <2>2. venue[k].qty \in Int
    BY <1>1 DEF VenueOrder
  <2> QED
    BY <1>8, <2>1, <2>2
<1> HIDE DEF F, G, S
<1>13. SumFunctionOnSet(G, S) = SumFunctionOnSet(F, S)
  BY <1>11, <1>12, SumSame
<1>14. SumFunctionOnSet(G, S \cup {m + 1}) = G[m + 1] + SumFunctionOnSet(G, S)
  BY <1>11, <1>12, SumWith
<1>15. Held' = venue[k].qty + HeldIn(m)
  BY <1>6, <1>9, <1>10, <1>12, <1>13, <1>14
<1>16. \A a \in Int : -a + a = 0
  OBVIOUS
<1>17. venue[k].qty = -HeldIn(m)
  BY <1>2
<1>18. -HeldIn(m) + HeldIn(m) = 0
  BY <1>7, <1>16
<1> QED
  BY <1>15, <1>17, <1>18

\* A second order of one call, and a position that a lone close leaves open,
\* have the causes named: an error of the server that hid the first order, an
\* order that was open or came in between.
THEOREM OrdersCaused == LiveSpec => OrdersHaveCauses
<1>1. LiveIInv => DuplicatesAreServerErrors
  BY DEF LiveIInv
<1>2. LiveIInv /\ [LiveNext]_liveVars => [FlatStep]_liveVars
  BY LoneCloseFlattens DEF FlatStep
<1>3. LiveSpec => [][FlatStep]_liveVars
  BY <1>2, LiveInvariant, PTL DEF LiveSpec
<1>4. LiveSpec => LoneCloseIsFlat
  BY <1>3 DEF LoneCloseIsFlat, FlatStep
<1> QED
  BY <1>1, <1>4, LiveInvariant, PTL DEF OrdersHaveCauses

-----------------------------------------------------------------------------
(***************************************************************************)
(* ManualTrade: a trade placed by hand.                                    *)
(***************************************************************************)

TaskRecord == [at : Stages, tries : 0..MaxRetries]

\* What the stage s of a delivery d says of the status of its request and of the
\* rows: an attempt that missed has no row of
\* its delivery before it; one that found a row, and one that ended well, have
\* a row of the request; while the request waits, an attempt at work began in
\* time, and only countdowns shorter than the wait let the task fail; and a
\* request that has published nothing has no task.
SoundTask(d, s, status, recorded) ==
  /\ s.at = "missed" => \A o \in recorded : o[1] # d
  /\ s.at \in {"found", "done"} => \E o \in recorded : o[1][1] = d[1]
  /\ s.at \in AtWork /\ status = "waiting" => ~(s.tries * Countdown >= Timeout)
  /\ s.at = "failed" /\ status = "waiting" => ~(MaxRetries * Countdown >= Timeout)
  /\ s.at # "none" => status \notin {"none", "403"}

\* The inductive invariant: orders come from requests that got out, a delivery
\* records one order, one request is waiting or answered well, and that one,
\* if answered, has a row.
TradeInv ==
  /\ TradeTypeOK
  /\ \A d \in Delivery : SoundTask(d, task[d], http[d[1]], rows)
  /\ \A o \in orders : http[o[1][1]] \notin {"none", "403"}
  /\ \A x, y \in rows : x[1] = y[1] => x = y
  /\ \A p, q \in Post : http[p] \in {"waiting", "200"} /\ http[q] \in {"waiting", "200"} => p = q
  /\ \A p \in Post : http[p] = "200" => \E o \in rows : o[1][1] = p

\* A delivery's present attempt, and what it is of.
LEMMA NowIs ==
  ASSUME TradeInv, NEW d \in Delivery
  PROVE  Now(d) \in Trying /\ Now(d)[1] = d /\ d[1] \in Post /\ task[d] \in TaskRecord
BY DEF TradeInv, TradeTypeOK, TaskRecord, Trying, Delivery, Now

\* The deliveries' steps: each is as it was or has a stage that is sound, and
\* orders and rows are as they were or with those of an attempt that missed and
\* is now over.
LEMMA TasksMove ==
  ASSUME TradeInv, UNCHANGED <<paper_mode, http>>, NEW d \in Delivery,
         task' \in [Delivery -> TaskRecord], rows \subseteq rows', rows' \subseteq orders',
         orders' \subseteq orders \cup {Now(d)}, rows' \subseteq rows \cup {Now(d)},
         task[d].at # "none",
         rows' # rows => task[d].at = "missed" /\ task'[d].at # "missed",
         \A e \in Delivery : task'[e] = task[e] \/ SoundTask(e, task'[e], http'[e[1]], rows')
  PROVE  TradeInv'
<1>1. Now(d) \in Trying /\ Now(d)[1] = d /\ d[1] \in Post
  BY NowIs
<1>2. TradeTypeOK'
  BY <1>1 DEF TradeInv, TradeTypeOK, TaskRecord
<1>3. ASSUME NEW e \in Delivery PROVE SoundTask(e, task'[e], http'[e[1]], rows')
  <2>1. CASE SoundTask(e, task'[e], http'[e[1]], rows')
    BY <2>1 DEF SoundTask
  <2>2. CASE task'[e] = task[e]
    <3>1. SoundTask(e, task[e], http[e[1]], rows)
      BY DEF TradeInv
    <3>2. task'[e].at = "missed" => \A o \in rows' : o[1] # e
      BY <1>1, <2>2, <3>1 DEF SoundTask
    <3>3. QED
      BY <2>2, <3>1, <3>2 DEF SoundTask
  <2>3. QED
    BY <2>1, <2>2
<1>4. \A o \in orders' : http'[o[1][1]] \notin {"none", "403"}
  <2>1. http[d[1]] \notin {"none", "403"}
    BY DEF TradeInv, SoundTask
  <2>2. QED
    BY <1>1, <2>1 DEF TradeInv
<1>5. \A x, y \in rows' : x[1] = y[1] => x = y
  <2>1. CASE rows' = rows
    BY <2>1 DEF TradeInv
  <2>2. CASE rows' # rows
    <3>1. \A o \in rows : o[1] # d
      BY <2>2 DEF TradeInv, SoundTask
    <3>2. QED
      BY <1>1, <3>1 DEF TradeInv
  <2>3. QED
    BY <2>1, <2>2
<1>6. \A p \in Post : http'[p] = "200" => \E o \in rows' : o[1][1] = p
  BY DEF TradeInv
<1>7. \A p, q \in Post : http'[p] \in {"waiting", "200"} /\ http'[q] \in {"waiting", "200"} => p = q
  BY DEF TradeInv
<1>8. QED
  BY <1>2, <1>3, <1>4, <1>5, <1>6, <1>7 DEF TradeInv

\* What an attempt that ends leaves behind.
LEMMA LeavesKeeps ==
  ASSUME TradeInv, NEW d \in Delivery, Leaves(d)
  PROVE  /\ UNCHANGED <<paper_mode, http>>
         /\ task[d].at \in AtWork /\ task[d].at # "none"
         /\ rows \subseteq rows' /\ rows' \subseteq orders'
         /\ orders' \subseteq orders \cup {Now(d)} /\ rows' \subseteq rows \cup {Now(d)}
         /\ rows' # rows => task[d].at = "missed"
<1>1. rows \subseteq orders
  BY DEF TradeInv, TradeTypeOK
<1>2. QED
  BY <1>1 DEF Leaves, AtWork

\* A delivery that moves to a stage it may be in whatever is recorded.
LEMMA OneMoves ==
  ASSUME TradeInv, NEW d \in Delivery, NEW new \in TaskRecord, task' = [task EXCEPT ![d] = new],
         UNCHANGED <<paper_mode, http>>,
         rows \subseteq rows', rows' \subseteq orders',
         orders' \subseteq orders \cup {Now(d)}, rows' \subseteq rows \cup {Now(d)},
         task[d].at # "none",
         rows' # rows => task[d].at = "missed" /\ new.at # "missed",
         SoundTask(d, new, http'[d[1]], rows')
  PROVE  TradeInv'
<1>1. task \in [Delivery -> TaskRecord]
  BY DEF TradeInv, TradeTypeOK, TaskRecord
<1>2. task' \in [Delivery -> TaskRecord]
  BY <1>1
<1>3. task'[d] = new /\ \A e \in Delivery : e # d => task'[e] = task[e]
  BY <1>1
<1>4. \A e \in Delivery : task'[e] = task[e] \/ SoundTask(e, task'[e], http'[e[1]], rows')
  BY <1>3 DEF SoundTask
<1>5. QED
  BY <1>2, <1>3, <1>4, TasksMove

\* The steps of a task preserve the invariant.
LEMMA RunsPreserve ==
  ASSUME TradeInv, NEW d \in Delivery, Runs(d)
  PROVE  TradeInv'
<1> USE TradeAssumption
<1>1. /\ task \in [Delivery -> TaskRecord] /\ task[d] \in TaskRecord
      /\ task[d].tries \in 0..MaxRetries /\ rows \subseteq orders
      /\ SoundTask(d, task[d], http[d[1]], rows) /\ Now(d)[1] = d
  BY NowIs DEF TradeInv, TradeTypeOK, TaskRecord
<1>2. ASSUME NEW at \in Stages PROVE [task[d] EXCEPT !.at = at] \in TaskRecord
  BY <1>1 DEF TaskRecord
<1>3. CASE TakeTask(d)
  <2> DEFINE new == [task[d] EXCEPT !.at = Lookup(d[1])]
  <2>1. /\ task[d].at = "queued" /\ task' = [task EXCEPT ![d] = new]
        /\ http[d[1]] = "waiting" => ~TimeIsUp(d)
        /\ UNCHANGED <<paper_mode, http, orders, rows>>
    BY <1>3, <1>1 DEF TakeTask, Becomes
  <2>2. new \in TaskRecord /\ new.at = Lookup(d[1]) /\ new.tries = task[d].tries
    BY <1>1, <1>2 DEF Lookup, Stages, AtWork, TaskRecord
  <2> HIDE DEF new
  <2>3. new.at = "missed" => \A o \in rows : o[1] # d
    BY <2>2 DEF Lookup, RecordedBy
  <2>4. new.at = "found" => \E o \in rows : o[1][1] = d[1]
    BY <2>2 DEF Lookup, RecordedBy
  <2>5. new.at \in AtWork
    BY <2>2 DEF Lookup, AtWork
  <2>6. http[d[1]] \notin {"none", "403"}
    BY <1>1, <2>1 DEF SoundTask
  <2>7. SoundTask(d, new, http'[d[1]], rows')
    BY <2>1, <2>2, <2>3, <2>4, <2>5, <2>6 DEF SoundTask, AtWork, TimeIsUp
  <2>8. QED
    BY <1>1, <2>1, <2>2, <2>7, OneMoves
<1>4. CASE Succeeds(d)
  <2> DEFINE new == [task[d] EXCEPT !.at = "done"]
  <2>1. task' = [task EXCEPT ![d] = new] /\ UNCHANGED <<paper_mode, http>>
    BY <1>1, <1>4 DEF Succeeds, Becomes
  <2>2. new \in TaskRecord /\ new.at = "done"
    BY <1>1, <1>2 DEF Stages, TaskRecord
  <2> HIDE DEF new
  <2>3. /\ task[d].at \in {"missed", "found"}
        /\ rows \subseteq rows' /\ rows' \subseteq orders'
        /\ orders' \subseteq orders \cup {Now(d)} /\ rows' \subseteq rows \cup {Now(d)}
        /\ rows' # rows => task[d].at = "missed"
        /\ \E o \in rows' : o[1][1] = d[1]
    BY <1>1, <1>4 DEF Succeeds, SoundTask
  <2>4. http[d[1]] \notin {"none", "403"}
    BY <1>1, <2>3 DEF SoundTask
  <2>5. SoundTask(d, new, http'[d[1]], rows')
    BY <2>1, <2>2, <2>3, <2>4 DEF SoundTask, AtWork
  <2>6. QED
    BY <2>1, <2>2, <2>3, <2>5, OneMoves
<1>5. CASE Raises(d)
  <2>1. Leaves(d) /\ task' = [task EXCEPT ![d] =
                IF @.tries < MaxRetries THEN [at |-> "countdown", tries |-> @.tries + 1]
                ELSE [@ EXCEPT !.at = "failed"]]
    BY <1>5 DEF Raises
  <2>2. /\ UNCHANGED <<paper_mode, http>>
        /\ task[d].at \in AtWork /\ task[d].at # "none"
        /\ rows \subseteq rows' /\ rows' \subseteq orders'
        /\ orders' \subseteq orders \cup {Now(d)} /\ rows' \subseteq rows \cup {Now(d)}
        /\ rows' # rows => task[d].at = "missed"
    BY <2>1, LeavesKeeps
  <2>3. http[d[1]] \notin {"none", "403"}
    BY <1>1, <2>2 DEF SoundTask
  <2>4. CASE task[d].tries < MaxRetries
    <3> DEFINE new == [at |-> "countdown", tries |-> task[d].tries + 1]
    <3>1. new \in TaskRecord /\ new.at = "countdown"
      BY <1>1, <2>4 DEF TaskRecord, Stages
    <3>2. task' = [task EXCEPT ![d] = new]
      BY <1>1, <2>1, <2>4
    <3> HIDE DEF new
    <3>3. SoundTask(d, new, http'[d[1]], rows')
      BY <2>2, <2>3, <3>1 DEF SoundTask, AtWork
    <3>4. QED
      BY <2>2, <3>1, <3>2, <3>3, OneMoves
  <2>5. CASE ~(task[d].tries < MaxRetries)
    <3> DEFINE new == [task[d] EXCEPT !.at = "failed"]
    <3>1. new \in TaskRecord /\ new.at = "failed"
      BY <1>1, <1>2 DEF Stages, TaskRecord
    <3>2. task' = [task EXCEPT ![d] = new]
      BY <1>1, <2>1, <2>5
    <3> HIDE DEF new
    <3>3. task[d].tries = MaxRetries
      BY <1>1, <2>5
    <3>4. http[d[1]] = "waiting" => ~(MaxRetries * Countdown >= Timeout)
      BY <1>1, <2>2, <3>3 DEF SoundTask
    <3>5. SoundTask(d, new, http'[d[1]], rows')
      BY <2>2, <2>3, <3>1, <3>4 DEF SoundTask, AtWork
    <3>6. QED
      BY <2>2, <3>1, <3>2, <3>5, OneMoves
  <2>6. QED
    BY <2>4, <2>5
<1>6. CASE CountdownEnds(d)
  <2> DEFINE new == [task[d] EXCEPT !.at = "queued"]
  <2>1. /\ task' = [task EXCEPT ![d] = new] /\ task[d].at = "countdown"
        /\ UNCHANGED <<paper_mode, http, orders, rows>>
    BY <1>1, <1>6 DEF CountdownEnds, Becomes
  <2>2. new \in TaskRecord /\ new.at = "queued"
    BY <1>1, <1>2 DEF Stages, TaskRecord
  <2> HIDE DEF new
  <2>3. SoundTask(d, new, http'[d[1]], rows')
    BY <1>1, <2>1, <2>2 DEF SoundTask, AtWork
  <2>4. QED
    BY <1>1, <2>1, <2>2, <2>3, OneMoves
<1>7. CASE LoseProcess(d)
  <2> DEFINE new == [task[d] EXCEPT !.at = "lost"]
  <2>1. task' = [task EXCEPT ![d] = new] /\ Leaves(d)
    BY <1>1, <1>7 DEF LoseProcess, Becomes
  <2>2. new \in TaskRecord /\ new.at = "lost"
    BY <1>1, <1>2 DEF Stages, TaskRecord
  <2> HIDE DEF new
  <2>3. /\ UNCHANGED <<paper_mode, http>>
        /\ task[d].at \in AtWork /\ task[d].at # "none"
        /\ rows \subseteq rows' /\ rows' \subseteq orders'
        /\ orders' \subseteq orders \cup {Now(d)} /\ rows' \subseteq rows \cup {Now(d)}
        /\ rows' # rows => task[d].at = "missed"
    BY <2>1, LeavesKeeps
  <2>4. SoundTask(d, new, http'[d[1]], rows')
    BY <1>1, <2>2, <2>3 DEF SoundTask, AtWork
  <2>5. QED
    BY <2>1, <2>2, <2>3, <2>4, OneMoves
<1>8. CASE Redeliver(d)
  <2> DEFINE next == <<d[1], d[2] + 1>>
             again == [at |-> "queued", tries |-> task[d].tries]
  <2>1. task[d].at \in AtWork /\ next \in Delivery /\ task[next].at = "none"
    BY <1>8 DEF Redeliver
  <2>2. next # d /\ next[1] = d[1]
    BY <2>1 DEF Delivery
  <2>3. again \in TaskRecord /\ again.at = "queued"
    BY <1>1 DEF TaskRecord, Stages
  <2>4. http[d[1]] \notin {"none", "403"} /\ task[d].at # "none"
    BY <1>1, <2>1 DEF SoundTask, AtWork
  <2>5. CASE /\ task' = [task EXCEPT ![next] = again]
             /\ UNCHANGED <<paper_mode, http, orders, rows>>
    <3>1. task' \in [Delivery -> TaskRecord]
      BY <1>1, <2>3, <2>5
    <3> HIDE DEF next, again
    <3>2. task'[next] = again /\ \A e \in Delivery : e # next => task'[e] = task[e]
      BY <1>1, <2>1, <2>2, <2>5
    <3>3. SoundTask(next, task'[next], http'[next[1]], rows')
      BY <2>1, <2>2, <2>3, <2>4, <2>5, <3>2 DEF SoundTask, AtWork
    <3>4. \A e \in Delivery : task'[e] = task[e] \/ SoundTask(e, task'[e], http'[e[1]], rows')
      BY <3>2, <3>3
    <3>5. QED
      BY <1>1, <2>4, <2>5, <3>1, <3>4, TasksMove
  <2>6. CASE /\ task' = [task EXCEPT ![d].at = "gone", ![next] = again]
             /\ Leaves(d)
    <3> DEFINE over == [task[d] EXCEPT !.at = "gone"]
    <3>1. over \in TaskRecord /\ over.at = "gone"
      BY <1>1, <1>2 DEF Stages, TaskRecord
    <3>0. task' = [task EXCEPT ![d] = over, ![next] = again]
      BY <2>6
    <3> HIDE DEF next, again, over
    <3>2. task' \in [Delivery -> TaskRecord]
      BY <1>1, <2>3, <3>0, <3>1
    <3>3. /\ task'[next] = again /\ task'[d] = over
          /\ \A e \in Delivery : e # next /\ e # d => task'[e] = task[e]
      BY <1>1, <2>1, <2>2, <3>0
    <3>4. /\ UNCHANGED <<paper_mode, http>>
          /\ rows \subseteq rows' /\ rows' \subseteq orders'
          /\ orders' \subseteq orders \cup {Now(d)} /\ rows' \subseteq rows \cup {Now(d)}
          /\ rows' # rows => task[d].at = "missed"
      BY <2>6, LeavesKeeps
    <3>5. SoundTask(next, task'[next], http'[next[1]], rows')
      BY <2>2, <2>3, <2>4, <3>3, <3>4 DEF SoundTask, AtWork
    <3>6. SoundTask(d, task'[d], http'[d[1]], rows')
      BY <2>4, <3>1, <3>3, <3>4 DEF SoundTask, AtWork
    <3>7. \A e \in Delivery : task'[e] = task[e] \/ SoundTask(e, task'[e], http'[e[1]], rows')
      BY <3>3, <3>5, <3>6
    <3>8. task'[d].at # "missed"
      BY <3>1, <3>3
    <3>9. QED
      BY <2>4, <3>2, <3>4, <3>7, <3>8, TasksMove
  <2>7. QED
    BY <1>8, <2>5, <2>6 DEF Redeliver
<1>9. QED
  BY <1>3, <1>4, <1>5, <1>6, <1>7, <1>8 DEF Runs

\* The steps of a request preserve the invariant.
LEMMA RequestPreserves ==
  ASSUME TradeInv, NEW p \in Post,
         PlaceTrade(p) \/ PlaceTradeFails(p) \/ HttpAnswer(p) \/ TimesOut(p)
  PROVE  TradeInv'
<1> USE TradeAssumption
<1>1. /\ task \in [Delivery -> TaskRecord] /\ TradeTypeOK /\ UNCHANGED <<paper_mode, orders, rows>>
      /\ http \in [Post -> {"none", "waiting", "200", "403", "500"}]
  BY DEF TradeInv, TradeTypeOK, TaskRecord, PlaceTrade, PlaceTradeFails, HttpAnswer, TimesOut, MayPlace
<1>2. CASE PlaceTrade(p) \/ PlaceTradeFails(p)
  <2>1. /\ http[p] = "none"
        /\ \A q \in Post : http[q] \in {"none", "403", "500"}
    BY <1>2 DEF PlaceTrade, PlaceTradeFails, MayPlace
  <2>2. PICK status \in {"waiting", "403", "500"} :
          /\ Answers(p, status)
          /\ UNCHANGED task \/ (Publishes(p) /\ status # "403")
    BY <1>2 DEF PlaceTrade, PlaceTradeFails
  <2>3. http'[p] = status /\ \A q \in Post : q # p => http'[q] = http[q]
    BY <1>1, <2>2 DEF Answers
  <2>4. <<p, 1>> \in Delivery
    BY DEF Delivery
  <2>5. \A d \in Delivery : d[1] \in Post
    BY DEF Delivery
  <2>6. \A d \in Delivery : d[1] = p => task[d].at = "none"
    BY <2>1 DEF TradeInv, SoundTask
  <2>7. task' \in [Delivery -> TaskRecord]
    <3>1. [task[<<p, 1>>] EXCEPT !.at = "queued"] \in TaskRecord
      BY <1>1, <2>4 DEF TaskRecord, Stages
    <3>2. QED
      BY <1>1, <2>2, <2>4, <3>1 DEF Publishes
  <2>8. \A d \in Delivery : task'[d] = task[d] \/ (d[1] = p /\ task'[d].at = "queued" /\ status # "403")
    BY <1>1, <2>2, <2>4 DEF Publishes, TaskRecord
  <2>9. TradeTypeOK'
    BY <1>1, <2>2, <2>7 DEF TradeTypeOK, TaskRecord, Answers
  <2>10. ASSUME NEW d \in Delivery PROVE SoundTask(d, task'[d], http'[d[1]], rows')
    <3>1. SoundTask(d, task[d], http[d[1]], rows) /\ d[1] \in Post
      BY <2>5 DEF TradeInv
    <3>2. CASE d[1] # p
      BY <1>1, <2>3, <2>8, <3>1, <3>2 DEF SoundTask
    <3>3. CASE d[1] = p
      BY <1>1, <2>3, <2>6, <2>8, <3>3 DEF SoundTask, AtWork
    <3>4. QED
      BY <3>2, <3>3
  <2>11. \A o \in orders : o[1][1] # p
    BY <2>1 DEF TradeInv
  <2>12. \A o \in orders' : http'[o[1][1]] \notin {"none", "403"}
    <3>1. \A o \in orders : o[1][1] \in Post
      BY <1>1 DEF TradeTypeOK, Trying, Delivery
    <3>2. QED
      BY <1>1, <2>3, <2>11, <3>1 DEF TradeInv
  <2>13. \A q, r \in Post :
           http'[q] \in {"waiting", "200"} /\ http'[r] \in {"waiting", "200"} => q = r
    BY <2>1, <2>3
  <2>14. \A q \in Post : http'[q] # "200"
    BY <2>1, <2>3
  <2>15. QED
    BY <1>1, <2>9, <2>10, <2>12, <2>13, <2>14 DEF TradeInv
<1>3. CASE HttpAnswer(p) \/ TimesOut(p)
  <2>1. /\ http[p] = "waiting" /\ UNCHANGED task
        /\ \E status \in {"200", "500"} :
             /\ Answers(p, status)
             /\ status = "200" => \E d \in Delivery : d[1] = p /\ task[d].at = "done"
    BY <1>3 DEF HttpAnswer, TimesOut
  <2>2. PICK status \in {"200", "500"} :
          /\ Answers(p, status)
          /\ status = "200" => \E d \in Delivery : d[1] = p /\ task[d].at = "done"
    BY <2>1
  <2>3. http'[p] = status /\ \A q \in Post : q # p => http'[q] = http[q]
    BY <1>1, <2>2 DEF Answers
  <2>4. TradeTypeOK'
    BY <1>1, <2>1, <2>2 DEF TradeTypeOK, Answers
  <2>5. ASSUME NEW d \in Delivery PROVE SoundTask(d, task'[d], http'[d[1]], rows')
    <3>1. SoundTask(d, task[d], http[d[1]], rows) /\ d[1] \in Post
      BY DEF TradeInv, Delivery
    <3>2. http'[d[1]] = http[d[1]] \/ (http[d[1]] = "waiting" /\ http'[d[1]] \in {"200", "500"})
      BY <2>1, <2>3, <3>1
    <3>3. QED
      BY <1>1, <2>1, <3>1, <3>2 DEF SoundTask
  <2>6. \A o \in orders' : http'[o[1][1]] \notin {"none", "403"}
    <3>1. \A o \in orders : o[1][1] \in Post
      BY <1>1 DEF TradeTypeOK, Trying, Delivery
    <3>2. QED
      BY <1>1, <2>3, <3>1 DEF TradeInv
  <2>7. \A q, r \in Post :
           http'[q] \in {"waiting", "200"} /\ http'[r] \in {"waiting", "200"} => q = r
    BY <2>1, <2>3 DEF TradeInv
  <2>8. status = "200" => \E o \in rows : o[1][1] = p
    BY <2>2 DEF TradeInv, SoundTask
  <2>9. \A q \in Post : http'[q] = "200" => \E o \in rows' : o[1][1] = q
    BY <1>1, <2>3, <2>8 DEF TradeInv
  <2>10. QED
    BY <1>1, <2>4, <2>5, <2>6, <2>7, <2>9 DEF TradeInv
<1>4. QED
  BY <1>2, <1>3

\* The invariant holds in every reachable state.
LEMMA TradeIsInvariant == TradeSpec => []TradeInv
<1>1. TradeInit => TradeInv
  <2> SUFFICES ASSUME TradeInit PROVE TradeInv
    OBVIOUS
  <2>1. NoTask \in TaskRecord /\ NoTask.at = "none"
    BY TradeAssumption DEF NoTask, TaskRecord, Stages
  <2>2. TradeTypeOK
    BY <2>1 DEF TradeInit, TradeTypeOK, TaskRecord
  <2>3. \A d \in Delivery : task[d].at = "none"
    BY <2>1 DEF TradeInit
  <2>4. \A d \in Delivery : SoundTask(d, task[d], http[d[1]], rows)
    BY <2>3 DEF SoundTask, AtWork
  <2>5. QED
    BY <2>2, <2>4 DEF TradeInit, TradeInv
<1>2. TradeInv /\ [TradeNext]_tradeVars => TradeInv'
  <2> SUFFICES ASSUME TradeInv, [TradeNext]_tradeVars PROVE TradeInv'
    OBVIOUS
  <2>1. CASE UNCHANGED tradeVars
    <3>1. UNCHANGED <<paper_mode, http, task, orders, rows>>
      BY <2>1 DEF tradeVars
    <3>2. QED
      BY <3>1 DEF TradeInv, TradeTypeOK, SoundTask
  <2>2. CASE TradeNext
    BY <2>2, RequestPreserves, RunsPreserve DEF TradeNext
  <2>3. QED
    BY <2>1, <2>2
<1>3. QED
  BY <1>1, <1>2, PTL DEF TradeSpec

\* However many requests, retries and redeliveries there are, and whatever is
\* lost: two orders for a trade need an answer that hid the first, a message
\* delivered twice or an order without its row; an answer of an order or of a
\* refusal is true; and a failure that is answered before the wait is over is
\* the loss of a process, if the countdowns outlast the wait.
THEOREM TradesHaveReasons == TradeSpec => []TradesAreExplained
<1>1. TradeInv => TradesAreExplained
  <2> SUFFICES ASSUME TradeInv PROVE TradesAreExplained
    OBVIOUS
  <2>1. \A o \in orders : o[1] \in Delivery /\ o[1][1] \in Post
    BY DEF TradeInv, TradeTypeOK, Trying, Delivery
  <2>2. \A p \in Post : http[p] \in {"none", "waiting", "200", "403", "500"}
    BY DEF TradeInv, TradeTypeOK
  <2>3. RepeatsHaveCauses
    <3> SUFFICES ASSUME NEW x \in orders, NEW y \in orders, x # y
                 PROVE  IF x[1][1] # y[1][1] THEN "500" \in {http[x[1][1]], http[y[1][1]]}
                        ELSE x[1] # y[1] \/ ~({x, y} \subseteq rows)
      BY DEF RepeatsHaveCauses
    <3>1. CASE x[1][1] # y[1][1]
      <4>1. /\ http[x[1][1]] \in {"waiting", "200", "500"}
            /\ http[y[1][1]] \in {"waiting", "200", "500"}
        BY <2>1, <2>2 DEF TradeInv
      <4>2. QED
        BY <2>1, <3>1, <4>1 DEF TradeInv
    <3>2. CASE x[1][1] = y[1][1]
      BY <3>2 DEF TradeInv
    <3>3. QED
      BY <3>1, <3>2
  <2>4. AnswersAreTrue
    BY DEF AnswersAreTrue, TradeInv
  <2>5. FailuresComeLate
    BY DEF FailuresComeLate, TradeInv, SoundTask
  <2>6. QED
    BY <2>3, <2>4, <2>5 DEF TradesAreExplained
<1>2. QED
  BY <1>1, TradeIsInvariant, PTL

-----------------------------------------------------------------------------
(***************************************************************************)
(* The composition: a behaviour of MCSpec is one of each of its parts.     *)
(***************************************************************************)

\* Of the risk agent ...
LEMMA MCIsRisk == MCSpec => Spec
<1>1. MCInit => Init
  BY DEF MCInit
<1>2. [MCNext]_<<subject, vars, paperVars, liveVars, tradeVars>> => [Next]_vars
  BY DEF MCNext
<1> QED
  BY <1>1, <1>2, PTL DEF MCSpec, Spec

\* ... of the paper broker ...
LEMMA MCIsPaper == MCSpec => PaperSpec
<1>1. MCInit => PaperInit
  BY DEF MCInit
<1>2. [MCNext]_<<subject, vars, paperVars, liveVars, tradeVars>> => [PaperNext]_paperVars
  BY DEF MCNext
<1> QED
  BY <1>1, <1>2, PTL DEF MCSpec, PaperSpec

\* ... of the live brokers ...
LEMMA MCIsLive == MCSpec => LiveSpec
<1>1. MCInit => LiveInit
  BY DEF MCInit
<1>2. [MCNext]_<<subject, vars, paperVars, liveVars, tradeVars>> => [LiveNext]_liveVars
  BY DEF MCNext
<1> QED
  BY <1>1, <1>2, PTL DEF MCSpec, LiveSpec

\* ... and of the trades placed by hand.
LEMMA MCIsTrade == MCSpec => TradeSpec
<1>1. MCInit => TradeInit
  BY DEF MCInit
<1>2. [MCNext]_<<subject, vars, paperVars, liveVars, tradeVars>> => [TradeNext]_tradeVars
  BY DEF MCNext
<1> QED
  BY <1>1, <1>2, PTL DEF MCSpec, TradeSpec

\* The variables of the risk agent, of the brokers and of the trades keep their
\* types.
THEOREM BrokersTyped == MCSpec => []BrokersTypeOK
<1>1. IInv /\ PaperIInv /\ LiveIInv /\ TradeInv => BrokersTypeOK
  BY DEF IInv, PaperIInv, LiveIInv, TradeInv, BrokersTypeOK
<1> QED
  BY <1>1, MCIsRisk, MCIsPaper, MCIsLive, MCIsTrade,
     Invariance, PaperInvariant, LiveInvariant, TradeIsInvariant, PTL

\* The composition, which is what the runs check, keeps the limits of the risk
\* agent, its mark, the books of the paper broker and the live ones, and what
\* the answers to a trade placed by hand say.
THEOREM BrokersKeepBooks ==
  MCSpec => /\ []EntriesFitWhatWasRead
            /\ LoneEntriesFitWhatIsHeld
            /\ UnsetMarkStaysUnset
            /\ MarkNeverFalls
            /\ PaperBooksAgree
            /\ OrdersHaveCauses
            /\ []TradesAreExplained
BY MCIsRisk, MCIsPaper, MCIsLive, MCIsTrade, LimitsOnWhatWasRead, LimitsOnWhatIsHeld,
   MarkIsNeverCreated, MarkIsMonotone, PaperBooks, OrdersCaused, TradesHaveReasons
===============================================================================
