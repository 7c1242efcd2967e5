---------------------------- MODULE MoneyProofs ----------------------------
(* Proofs about sums: what the bookings and the carryovers of all accounts *)
(* come to, what the audit log comes to, and that the ledger implements    *)
(* the tab of module Tab.  They rest on facts about the fold that Total is *)
(* made of, and these on the induction over finite sets that the first     *)
(* lemma provides: a nonempty collection of subsets of a finite set has a  *)
(* smallest one.                                                           *)
EXTENDS LedgerTheorems, LedgerTab, WellFoundedInduction, FunctionTheorems

-----------------------------------------------------------------------------
(* Sums over finite sets.                                                  *)

\* The element of a set that a fold takes first.
First(s) == CHOOSE x \in s : TRUE

\* g gives every subset of S the sum of f over it, as the fold computes it.
Adds(g, f, S) ==
  g = [s \in SUBSET S |-> IF s = {} THEN 0 ELSE f[First(s)] + g[s \ {First(s)}]]

\* The sum that the fold gets for S.
Fold(f, S) == (CHOOSE g : Adds(g, f, S))[S]

\* Induction over the subsets of a finite set, as the principle of the smallest
\* counterexample.
LEMMA SmallestSet ==
  ASSUME NEW S, IsFiniteSet(S), NEW B, B \subseteq SUBSET S, B # {}
  PROVE  \E t \in B : \A u \in SUBSET t : u # t => u \notin B
<1>1. IsWellFoundedOn(StrictSubsetOrdering(S), SUBSET S)
  BY FS_StrictSubsetOrderingWellFounded, FS_FiniteSubsetsOfFinite
<1>2. PICK t \in B : \A u \in B : <<u, t>> \notin StrictSubsetOrdering(S)
  BY <1>1, WFMin
<1>3. ASSUME NEW u \in SUBSET t, u # t, u \in B PROVE FALSE
  BY <1>2, <1>3 DEF StrictSubsetOrdering
<1> QED BY <1>3

\* Two solutions agree on the sets they both sum.
LEMMA AddsAgree ==
  ASSUME NEW f, NEW S, NEW Q, IsFiniteSet(S), NEW g, NEW h, Adds(g, f, S), Adds(h, f, Q),
         NEW s \in SUBSET S, s \in SUBSET Q
  PROVE  g[s] = h[s]
<1> DEFINE B == {t \in SUBSET S : t \in SUBSET Q /\ g[t] # h[t]}
<1> SUFFICES ASSUME B # {} PROVE FALSE
  OBVIOUS
<1>1. PICK t \in B : \A u \in SUBSET t : u # t => u \notin B
  <2> HIDE DEF B
  <2>1. B \subseteq SUBSET S
    BY DEF B
  <2> QED BY <2>1, SmallestSet
<1>2. t \in SUBSET S /\ t \in SUBSET Q /\ g[t] # h[t]
  OBVIOUS
<1>3. CASE t = {}
  BY <1>2, <1>3 DEF Adds
<1>4. CASE t # {}
  <2>1. First(t) \in t
    BY <1>4 DEF First
  <2>2. g[t \ {First(t)}] = h[t \ {First(t)}]
    BY <1>1, <1>2, <2>1
  <2>3. g[t] = f[First(t)] + g[t \ {First(t)}]
    BY <1>2, <1>4 DEF Adds
  <2>4. h[t] = f[First(t)] + h[t \ {First(t)}]
    BY <1>2, <1>4 DEF Adds
  <2> QED BY <1>2, <2>2, <2>3, <2>4
<1> QED BY <1>3, <1>4

\* There is a solution for every finite set.
LEMMA AddsExists ==
  ASSUME NEW f, NEW S, IsFiniteSet(S)
  PROVE  \E g : Adds(g, f, S)
<1> DEFINE B == {t \in SUBSET S : ~(\E g : Adds(g, f, t))}
<1> SUFFICES ASSUME B # {} PROVE FALSE
  OBVIOUS
<1>1. PICK t \in B : \A u \in SUBSET t : u # t => u \notin B
  <2> HIDE DEF B
  <2>1. B \subseteq SUBSET S
    BY DEF B
  <2> QED BY <2>1, SmallestSet
<1>2. t \in SUBSET S /\ ~(\E g : Adds(g, f, t)) /\ IsFiniteSet(t)
  BY FS_Subset
<1>3. \A u \in SUBSET t : u # t => \E g : Adds(g, f, u)
  BY <1>1, <1>2
<1> HIDE DEF B
<1> DEFINE G == [u \in SUBSET t |-> IF u = {} THEN 0
                                    ELSE f[First(u)] + Fold(f, u \ {First(u)})]
<1>4. \A u \in SUBSET t : u # {} => First(u) \in u
  BY DEF First
<1>5. ASSUME NEW u \in SUBSET t, u # t PROVE Adds(CHOOSE g : Adds(g, f, u), f, u)
  BY <1>3, <1>5
<1>6. ASSUME NEW u \in SUBSET t, u # t PROVE G[u] = Fold(f, u)
  <2> DEFINE g == CHOOSE k : Adds(k, f, u)
  <2>1. Adds(g, f, u)
    BY <1>6, <1>5
  <2>2. CASE u = {}
    <3>1. g[u] = 0
      BY <2>1, <2>2 DEF Adds
    <3> QED BY <2>2, <3>1 DEF Fold
  <2>3. CASE u # {}
    <3> DEFINE v == u \ {First(u)}
               h == CHOOSE k : Adds(k, f, v)
    <3>1. v \in SUBSET t /\ v # t /\ v \in SUBSET u /\ IsFiniteSet(u)
      BY <1>2, <1>4, <2>3, FS_Subset
    <3>2. Adds(h, f, v)
      BY <3>1, <1>5
    <3>3. g[v] = h[v]
      <4> HIDE DEF g, h, v
      <4> QED BY <2>1, <3>1, <3>2, AddsAgree
    <3>4. g[u] = f[First(u)] + g[v]
      <4> HIDE DEF g
      <4> QED BY <2>1, <2>3 DEF Adds
    <3>5. Fold(f, v) = h[v] /\ Fold(f, u) = g[u]
      BY DEF Fold
    <3>6. G[u] = f[First(u)] + Fold(f, v)
      BY <2>3
    <3> QED BY <3>3, <3>4, <3>5, <3>6
  <2> QED BY <2>2, <2>3
<1>7. G = [u \in SUBSET t |-> IF u = {} THEN 0 ELSE f[First(u)] + G[u \ {First(u)}]]
  <2>1. ASSUME NEW u \in SUBSET t, u # {} PROVE Fold(f, u \ {First(u)}) = G[u \ {First(u)}]
    <3>1. u \ {First(u)} \in SUBSET t /\ u \ {First(u)} # t
      BY <1>4, <2>1
    <3> HIDE DEF G
    <3> QED BY <3>1, <1>6
  <2> QED BY <2>1
<1>8. Adds(G, f, t)
  <2> HIDE DEF G
  <2> QED BY <1>7 DEF Adds
<1> QED BY <1>2, <1>8

\* The fold over a set, one element after the other.
LEMMA FoldStep ==
  ASSUME NEW f, NEW S, IsFiniteSet(S)
  PROVE  /\ S = {} => Fold(f, S) = 0
         /\ S # {} => First(S) \in S /\ Fold(f, S) = f[First(S)] + Fold(f, S \ {First(S)})
<1> DEFINE g == CHOOSE k : Adds(k, f, S)
           Q == S \ {First(S)}
           h == CHOOSE k : Adds(k, f, Q)
<1>1. Adds(g, f, S)
  BY AddsExists
<1>2. Adds(h, f, Q)
  <2>1. IsFiniteSet(Q)
    BY FS_Subset
  <2> HIDE DEF Q
  <2> QED BY <2>1, AddsExists
<1>3. g[Q] = h[Q]
  <2>1. Q \in SUBSET S
    OBVIOUS
  <2> HIDE DEF g, h, Q
  <2> QED BY <1>1, <1>2, <2>1, AddsAgree
<1>4. S # {} => First(S) \in S
  BY DEF First
<1>5. g[S] = IF S = {} THEN 0 ELSE f[First(S)] + g[Q]
  <2> HIDE DEF g
  <2> QED BY <1>1 DEF Adds
<1>6. Fold(f, S) = g[S] /\ Fold(f, Q) = h[Q]
  BY DEF Fold
<1> QED BY <1>3, <1>4, <1>5, <1>6

\* The sum of integers is one.
LEMMA FoldInt ==
  ASSUME NEW f, NEW S, IsFiniteSet(S), \A x \in S : f[x] \in Int
  PROVE  Fold(f, S) \in Int
<1> DEFINE B == {t \in SUBSET S : Fold(f, t) \notin Int}
<1> SUFFICES ASSUME B # {} PROVE FALSE
  OBVIOUS
<1>1. PICK t \in B : \A u \in SUBSET t : u # t => u \notin B
  <2> HIDE DEF B
  <2>1. B \subseteq SUBSET S
    BY DEF B
  <2> QED BY <2>1, SmallestSet
<1>2. t \in SUBSET S /\ Fold(f, t) \notin Int /\ IsFiniteSet(t)
  BY FS_Subset
<1>3. t # {}
  <2>1. t = {} => Fold(f, t) = 0
    BY <1>2, FoldStep
  <2> HIDE DEF B
  <2> QED BY <1>2, <2>1
<1>4. First(t) \in t /\ Fold(f, t) = f[First(t)] + Fold(f, t \ {First(t)})
  BY <1>2, <1>3, FoldStep
<1>5. Fold(f, t \ {First(t)}) \in Int
  BY <1>1, <1>2, <1>4
<1> QED BY <1>2, <1>4, <1>5

\* A sum depends on what is summed, and on nothing else.
LEMMA FoldSame ==
  ASSUME NEW f, NEW g, NEW S, IsFiniteSet(S), \A x \in S : f[x] = g[x]
  PROVE  Fold(f, S) = Fold(g, S)
<1> DEFINE B == {t \in SUBSET S : Fold(f, t) # Fold(g, t)}
<1> SUFFICES ASSUME B # {} PROVE FALSE
  OBVIOUS
<1>1. PICK t \in B : \A u \in SUBSET t : u # t => u \notin B
  <2> HIDE DEF B
  <2>1. B \subseteq SUBSET S
    BY DEF B
  <2> QED BY <2>1, SmallestSet
<1>2. t \in SUBSET S /\ Fold(f, t) # Fold(g, t) /\ IsFiniteSet(t)
  BY FS_Subset
<1>3. t # {}
  BY <1>2, FoldStep
<1>4. First(t) \in t /\ Fold(f, t) = f[First(t)] + Fold(f, t \ {First(t)})
      /\ Fold(g, t) = g[First(t)] + Fold(g, t \ {First(t)})
  BY <1>2, <1>3, FoldStep
<1>5. Fold(f, t \ {First(t)}) = Fold(g, t \ {First(t)})
  BY <1>1, <1>2, <1>4
<1> QED BY <1>2, <1>4, <1>5

\* Any element may be taken first.
LEMMA FoldRemove ==
  ASSUME NEW f, NEW S, IsFiniteSet(S), \A x \in S : f[x] \in Int, NEW x \in S
  PROVE  Fold(f, S) = f[x] + Fold(f, S \ {x})
<1> DEFINE B == {t \in SUBSET S : \E y \in t : Fold(f, t) # f[y] + Fold(f, t \ {y})}
<1> SUFFICES ASSUME B # {} PROVE FALSE
  OBVIOUS
<1>1. PICK t \in B : \A u \in SUBSET t : u # t => u \notin B
  <2> HIDE DEF B
  <2>1. B \subseteq SUBSET S
    BY DEF B
  <2> QED BY <2>1, SmallestSet
<1>2. PICK y \in t : Fold(f, t) # f[y] + Fold(f, t \ {y})
  OBVIOUS
<1>3. t \in SUBSET S /\ IsFiniteSet(t) /\ t # {}
  BY FS_Subset
<1> DEFINE p == First(t)
           tp == t \ {p}
           ty == t \ {y}
           rest == t \ {p, y}
<1>4. p \in t /\ Fold(f, t) = f[p] + Fold(f, tp)
  BY <1>3, FoldStep
<1>5. p # y
  BY <1>2, <1>4
<1>6. tp \in SUBSET t /\ tp # t /\ y \in tp /\ tp \ {y} = rest
  BY <1>4, <1>5
<1>7. ty \in SUBSET t /\ ty # t /\ p \in ty /\ ty \ {p} = rest
  BY <1>4, <1>5
<1> HIDE DEF p, tp, ty, rest
<1>0. ASSUME NEW u \in SUBSET t, u # t, NEW z \in u PROVE Fold(f, u) = f[z] + Fold(f, u \ {z})
  BY <1>0, <1>1, <1>3
<1>8. Fold(f, tp) = f[y] + Fold(f, rest)
  BY <1>0, <1>6
<1>9. Fold(f, ty) = f[p] + Fold(f, rest)
  BY <1>0, <1>7
<1>10. Fold(f, rest) \in Int /\ f[p] \in Int /\ f[y] \in Int
  <2>1. IsFiniteSet(rest) /\ \A z \in rest : f[z] \in Int
    BY <1>3, FS_Subset DEF rest
  <2> QED BY <1>3, <1>4, <2>1, FoldInt
<1> QED BY <1>2, <1>4, <1>8, <1>9, <1>10 DEF ty

\* What Total computes.
LEMMA TotalFold == ASSUME NEW f PROVE Total(f) = Fold(f, DOMAIN f)
  BY DEF Total, FoldFunction, FoldFunctionOnSet, MapThenFoldSet, Fold, Adds, First

LEMMA TotalIs ==
  ASSUME NEW f, NEW g, IsFiniteSet(DOMAIN f), \A x \in DOMAIN f : f[x] = g[x]
  PROVE  Total(f) = Fold(g, DOMAIN f)
BY TotalFold, FoldSame

\* Two sums at once.
LEMMA FoldUnion ==
  ASSUME NEW f, NEW S, NEW Q, IsFiniteSet(S), IsFiniteSet(Q), S \cap Q = {},
         \A x \in S \cup Q : f[x] \in Int
  PROVE  Fold(f, S \cup Q) = Fold(f, S) + Fold(f, Q)
<1> DEFINE B == {t \in SUBSET S : Fold(f, t \cup Q) # Fold(f, t) + Fold(f, Q)}
<1>1. B \subseteq SUBSET S
  OBVIOUS
<1>2. \A t \in SUBSET S : t \in B <=> Fold(f, t \cup Q) # Fold(f, t) + Fold(f, Q)
  OBVIOUS
<1> HIDE DEF B
<1> SUFFICES ASSUME B # {} PROVE FALSE
  BY <1>2
<1>3. PICK t \in B : \A u \in SUBSET t : u # t => u \notin B
  BY <1>1, SmallestSet
<1>4. t \in SUBSET S /\ IsFiniteSet(t) /\ IsFiniteSet(t \cup Q)
  BY <1>1, FS_Subset, FS_Union
<1>5. Fold(f, Q) \in Int
  BY FoldInt
<1>6. CASE t = {}
  <2>1. Fold(f, t) = 0 /\ t \cup Q = Q
    BY <1>4, <1>6, FoldStep
  <2> QED BY <1>2, <1>4, <1>5, <2>1
<1>7. CASE t # {}
  <2>1. PICK x \in t : TRUE
    BY <1>7
  <2> DEFINE v == t \ {x}
  <2>2. (t \cup Q) \ {x} = v \cup Q /\ x \in t \cup Q /\ v \in SUBSET t /\ v # t /\ IsFiniteSet(v)
    BY <1>4, FS_Subset
  <2>3. Fold(f, t) = f[x] + Fold(f, v)
    <3>1. \A y \in t : f[y] \in Int
      BY <1>4
    <3> QED BY <1>4, <3>1, FoldRemove
  <2>4. Fold(f, t \cup Q) = f[x] + Fold(f, v \cup Q)
    <3>1. \A y \in t \cup Q : f[y] \in Int
      BY <1>4
    <3> QED BY <1>4, <2>2, <3>1, FoldRemove
  <2>5. Fold(f, v \cup Q) = Fold(f, v) + Fold(f, Q)
    BY <1>2, <1>3, <1>4, <2>2
  <2>6. Fold(f, v) \in Int /\ f[x] \in Int
    <3>1. \A y \in v : f[y] \in Int
      BY <1>4, <2>2
    <3> QED BY <1>4, <2>2, <3>1, FoldInt
  <2> HIDE DEF v
  <2> QED BY <1>2, <1>3, <1>4, <1>5, <2>3, <2>4, <2>5, <2>6
<1> QED BY <1>6, <1>7

LEMMA FoldPlus ==
  ASSUME NEW S, IsFiniteSet(S), NEW f, NEW g, NEW h,
         \A x \in S : f[x] \in Int /\ g[x] \in Int /\ h[x] = f[x] + g[x]
  PROVE  Fold(h, S) = Fold(f, S) + Fold(g, S)
<1> DEFINE B == {t \in SUBSET S : Fold(h, t) # Fold(f, t) + Fold(g, t)}
<1>1. B \subseteq SUBSET S
  OBVIOUS
<1>2. \A t \in SUBSET S : t \in B <=> Fold(h, t) # Fold(f, t) + Fold(g, t)
  OBVIOUS
<1> HIDE DEF B
<1> SUFFICES ASSUME B # {} PROVE FALSE
  BY <1>2
<1>3. PICK t \in B : \A u \in SUBSET t : u # t => u \notin B
  BY <1>1, SmallestSet
<1>4. t \in SUBSET S /\ IsFiniteSet(t)
  BY <1>1, FS_Subset
<1>5. t # {}
  <2>1. t = {} => Fold(f, t) = 0 /\ Fold(g, t) = 0 /\ Fold(h, t) = 0
    BY <1>4, FoldStep
  <2> QED BY <1>2, <1>3, <1>4, <2>1
<1> DEFINE x == First(t)
           v == t \ {x}
<1>6. x \in t /\ Fold(h, t) = h[x] + Fold(h, v) /\ Fold(f, t) = f[x] + Fold(f, v)
      /\ Fold(g, t) = g[x] + Fold(g, v)
  BY <1>4, <1>5, FoldStep
<1>7. v \in SUBSET t /\ v # t /\ IsFiniteSet(v)
  BY <1>4, <1>6, FS_Subset
<1>8. Fold(h, v) = Fold(f, v) + Fold(g, v)
  BY <1>2, <1>3, <1>4, <1>7
<1>9. Fold(f, v) \in Int /\ Fold(g, v) \in Int
  <2>1. \A y \in v : f[y] \in Int /\ g[y] \in Int
    BY <1>4, <1>7
  <2> QED BY <1>7, <2>1, FoldInt
<1>10. h[x] = f[x] + g[x] /\ f[x] \in Int /\ g[x] \in Int
  BY <1>4, <1>6
<1> HIDE DEF x, v
<1> QED BY <1>2, <1>3, <1>4, <1>6, <1>8, <1>9, <1>10

-----------------------------------------------------------------------------
(* What bookings come to.                                                  *)

\* The amounts of the bookings S of a table.
Worth(rows, S) == Fold([t \in TxIds |-> rows[t].amt], S)

LEMMA SumWorth ==
  ASSUME NEW rows, NEW S \in SUBSET TxIds
  PROVE  Total([t \in S |-> rows[t].amt]) = Worth(rows, S)
<1>1. IsFiniteSet(S)
  BY ConstantsOK, FS_Subset
<1> QED BY <1>1, TotalIs DEF Worth

LEMMA WorthFacts ==
  ASSUME NEW rows \in [TxIds -> TxRow], NEW S \in SUBSET TxIds
  PROVE  /\ Worth(rows, S) \in Int
         /\ Worth(rows, {}) = 0
         /\ \A t \in S : Worth(rows, S) = rows[t].amt + Worth(rows, S \ {t})
         /\ \A Q \in SUBSET TxIds : S \cap Q = {} =>
              Worth(rows, S \cup Q) = Worth(rows, S) + Worth(rows, Q)
         /\ \A other : (\A t \in S : other[t].amt = rows[t].amt) =>
              Worth(other, S) = Worth(rows, S)
<1> DEFINE f == [t \in TxIds |-> rows[t].amt]
<1>1. IsFiniteSet(S) /\ \A Q \in SUBSET TxIds : IsFiniteSet(Q)
  BY ConstantsOK, FS_Subset
<1>2. \A t \in TxIds : f[t] \in Int /\ f[t] = rows[t].amt
  BY DEF TxRow
<1>3. \A Q : Worth(rows, Q) = Fold(f, Q)
  BY DEF Worth
<1>4. ASSUME NEW other, \A t \in S : other[t].amt = rows[t].amt
      PROVE  Worth(other, S) = Worth(rows, S)
  <2> DEFINE g == [t \in TxIds |-> other[t].amt]
  <2>1. \A t \in S : g[t] = f[t]
    BY <1>4
  <2>2. Worth(other, S) = Fold(g, S) /\ Worth(rows, S) = Fold(f, S)
    BY DEF Worth
  <2> HIDE DEF f, g
  <2> QED BY <1>1, <2>1, <2>2, FoldSame
<1> HIDE DEF f
<1>5. \A t \in S : f[t] \in Int
  BY <1>2
<1>6. \A t \in S : Fold(f, S) = f[t] + Fold(f, S \ {t})
  BY <1>1, <1>5, FoldRemove
<1>7. ASSUME NEW Q \in SUBSET TxIds, S \cap Q = {} PROVE Fold(f, S \cup Q) = Fold(f, S) + Fold(f, Q)
  BY <1>1, <1>2, <1>7, FoldUnion
<1>8. Fold(f, S) \in Int /\ Fold(f, {}) = 0
  BY <1>1, <1>5, FoldInt, FoldStep, FS_EmptySet
<1> QED BY <1>2, <1>3, <1>4, <1>6, <1>7, <1>8

\* Bookings summed up account by account are the bookings of these accounts.
Held(owner, L) == {t \in TxIds : owner[t] \in L}

Shares(f, rows, owner, L) == \A u \in L : f[u] = Worth(rows, Held(owner, {u}))

LEMMA Grouped ==
  ASSUME NEW rows \in [TxIds -> TxRow], NEW owner, NEW L, IsFiniteSet(L), NEW f,
         Shares(f, rows, owner, L)
  PROVE  Fold(f, L) = Worth(rows, Held(owner, L))
<1> USE DEF Held, Shares
<1> DEFINE W(M) == Worth(rows, {t \in TxIds : owner[t] \in M})
           B == {M \in SUBSET L : Fold(f, M) # W(M)}
<1>1. B \subseteq SUBSET L
  OBVIOUS
<1>2. \A M \in SUBSET L : M \in B <=> Fold(f, M) # W(M)
  OBVIOUS
<1> HIDE DEF B
<1> SUFFICES ASSUME B # {} PROVE FALSE
  BY <1>2
<1>3. PICK M \in B : \A N \in SUBSET M : N # M => N \notin B
  BY <1>1, SmallestSet
<1>4. M \in SUBSET L /\ IsFiniteSet(M)
  BY <1>1, FS_Subset
<1>5. CASE M = {}
  <2>1. {t \in TxIds : owner[t] \in M} = {}
    BY <1>5
  <2>2. Fold(f, M) = 0 /\ W(M) = 0
    BY <1>4, <1>5, <2>1, FoldStep, WorthFacts
  <2> QED BY <1>2, <1>3, <1>4, <2>2
<1>6. CASE M # {}
  <2> DEFINE x == First(M)
             N == M \ {x}
             one == {t \in TxIds : owner[t] \in {x}}
             rest == {t \in TxIds : owner[t] \in N}
             all == {t \in TxIds : owner[t] \in M}
  <2>1. x \in M /\ Fold(f, M) = f[x] + Fold(f, N)
    BY <1>4, <1>6, FoldStep
  <2>2. N \in SUBSET M /\ N # M
    BY <2>1
  <2>3. Fold(f, N) = Worth(rows, rest)
    BY <1>2, <1>3, <1>4, <2>2
  <2>4. f[x] = Worth(rows, one)
    BY <1>4, <2>1
  <2>5. one \in SUBSET TxIds /\ rest \in SUBSET TxIds /\ one \cap rest = {} /\ one \cup rest = all
    BY <2>1
  <2>6. Fold(f, M) # Worth(rows, all)
    BY <1>2, <1>3, <1>4
  <2> HIDE DEF one, rest, all, x, N
  <2>7. Worth(rows, all) = Worth(rows, one) + Worth(rows, rest)
    BY <2>5, WorthFacts
  <2> QED BY <2>1, <2>3, <2>4, <2>6, <2>7
<1> QED BY <1>5, <1>6

-----------------------------------------------------------------------------
(* The audit log.                                                          *)

AInv == IInv /\ Forgotten \subseteq Anonymized /\ AuditComplete

\* What an anonymization run has locked when it commits: the bookings it has
\* found due, all of them, and their owners.
LEMMA RunHolds ==
  ASSUME IInv, NEW r \in Reqs, CommitAnonymization(r)
  PROVE  /\ req[r].rows \subseteq TxIds /\ req[r].credited \subseteq Users
         /\ req[r].due \in [TxIds -> Users \cup {Nobody}]
         /\ \A t \in TxIds : t \in req[r].rows <=> req[r].due[t] # Nobody
         /\ \A t \in req[r].rows : txs[t].used /\ txs[t].user = req[r].due[t]
         /\ \A u \in Users : u \in req[r].credited <=> \E t \in TxIds : req[r].due[t] = u
         /\ req[r].rows # {}
<1>1. req[r] \in Request /\ DueOK(r) /\ Anonymizing(r) /\ req[r].pc = "commit"
  BY RunCommitted DEF RequestOK, CommitAnonymization
<1>2. /\ \E t \in TxIds : req[r].due[t] # Nobody
      /\ \A u \in req[r].credited : \E t \in TxIds : req[r].due[t] = u
      /\ \A t \in TxIds : req[r].due[t] # Nobody => txs[t].used /\ txs[t].user = req[r].due[t]
      /\ \A t \in req[r].rows : req[r].due[t] # Nobody
      /\ RowsLeft(r) = {} /\ OwnersLeft(r) = {}
  BY <1>1 DEF DueOK
<1>3. req[r].rows \subseteq TxIds /\ req[r].credited \subseteq Users
      /\ req[r].due \in [TxIds -> Users \cup {Nobody}]
  BY <1>1 DEF Request
<1>4. \A t \in TxIds : t \in req[r].rows <=> req[r].due[t] # Nobody
  BY <1>2 DEF RowsLeft
<1>5. \A u \in Users : u \in req[r].credited <=> \E t \in TxIds : req[r].due[t] = u
  BY <1>2 DEF OwnersLeft
<1> QED BY <1>2, <1>3, <1>4, <1>5

\* A run makes the bookings it has locked anonymous, which they were not.
LEMMA RunForgets ==
  ASSUME IInv, NEW r \in Reqs, CommitAnonymization(r)
  PROVE  Anonymized' = Anonymized \cup req[r].rows /\ Anonymized \cap req[r].rows = {}
<1>1. /\ req[r].rows \subseteq TxIds
      /\ \A t \in req[r].rows : txs[t].used /\ txs[t].user # Nobody
  BY RunHolds
<1>2. \A t \in TxIds :
        /\ txs'[t].used = txs[t].used
        /\ t \in req[r].rows => txs'[t].user = Nobody
        /\ t \notin req[r].rows => txs'[t].user = txs[t].user
  BY RunCommitted
<1> QED BY <1>1, <1>2 DEF Anonymized

LEMMA DisjointCount ==
  ASSUME NEW S, NEW Q, IsFiniteSet(S), IsFiniteSet(Q), S \cap Q = {}
  PROVE  Cardinality(S \cup Q) = Cardinality(S) + Cardinality(Q)
<1>1. Cardinality(S \cap Q) = 0 /\ Cardinality(S) \in Nat /\ Cardinality(Q) \in Nat
  BY FS_EmptySet, FS_CardinalityType
<1>2. Cardinality(S \cup Q) = Cardinality(S) + Cardinality(Q) - Cardinality(S \cap Q)
  BY FS_Union
<1> QED BY <1>1, <1>2

\* It counts no more owners than bookings, and at least one.
LEMMA RunCounts ==
  ASSUME IInv, NEW r \in Reqs, CommitAnonymization(r)
  PROVE  /\ IsFiniteSet(req[r].rows)
         /\ Cardinality(req[r].rows) \in Nat /\ Cardinality(req[r].credited) \in Nat
         /\ Cardinality(req[r].rows) >= Cardinality(req[r].credited)
         /\ Cardinality(req[r].credited) > 0
<1> DEFINE R == req[r].rows
           C == req[r].credited
           f == [t \in R |-> req[r].due[t]]
<1>1. R \subseteq TxIds /\ C \subseteq Users
  BY RunHolds
<1>2. IsFiniteSet(R) /\ IsFiniteSet(C)
  BY <1>1, ConstantsOK, FS_Subset
<1>3. Cardinality(R) \in Nat /\ Cardinality(C) \in Nat
  BY <1>2, FS_CardinalityType
<1>4. \A t \in R : req[r].due[t] \in C
  BY <1>1, RunHolds
<1>5. \A u \in C : \E t \in R : req[r].due[t] = u
  <2> SUFFICES ASSUME NEW u \in C PROVE \E t \in R : req[r].due[t] = u
    OBVIOUS
  <2>1. PICK t \in TxIds : req[r].due[t] = u
    BY <1>1, RunHolds
  <2>2. t \in R
    BY <1>1, <2>1, RunHolds, ConstantsOK
  <2> QED BY <2>1, <2>2
<1>6. f \in Surjection(R, C)
  <2>1. f \in [R -> C] /\ \A u \in C : \E t \in R : f[t] = u
    BY <1>4, <1>5
  <2> HIDE DEF f, R, C
  <2> QED BY <2>1, Fun_IsSurj
<1>7. Cardinality(C) <= Cardinality(R)
  <2> HIDE DEF f, R, C
  <2> QED BY <1>2, <1>6, FS_Surjection
<1>8. C # {}
  BY <1>4, RunHolds
<1>9. Cardinality(C) # 0
  BY <1>2, <1>8, FS_EmptySet
<1> HIDE DEF R, C
<1>10. IsFiniteSet(R) /\ Cardinality(R) \in Nat /\ Cardinality(C) \in Nat
       /\ Cardinality(R) >= Cardinality(C) /\ Cardinality(C) > 0
  BY <1>2, <1>3, <1>7, <1>9
<1> QED BY <1>10 DEF R, C

\* The log has one more entry after a run, and its total grows by this entry.
LEMMA LogGrows ==
  ASSUME NEW log \in Seq(AuditRow), NEW entry \in AuditRow
  PROVE  LET longer == Append(log, entry) IN
         /\ DOMAIN longer = DOMAIN log \cup {Len(log) + 1}
         /\ longer[Len(log) + 1] = entry
         /\ \A i \in DOMAIN log : longer[i] = log[i]
         /\ Total([i \in DOMAIN longer |-> longer[i].txs])
              = entry.txs + Total([i \in DOMAIN log |-> log[i].txs])
<1> DEFINE longer == Append(log, entry)
           n == Len(log) + 1
           f == [i \in DOMAIN longer |-> longer[i].txs]
           g == [i \in DOMAIN log |-> log[i].txs]
<1>1. /\ n \in Nat /\ DOMAIN log = 1..Len(log) /\ DOMAIN longer = 1..n
      /\ longer[n] = entry /\ \A i \in DOMAIN log : longer[i] = log[i]
  OBVIOUS
<1>2. DOMAIN longer = DOMAIN log \cup {n} /\ n \notin DOMAIN log /\ (1..n) \ {n} = DOMAIN log
  BY <1>1
<1>3. \A i \in 1..n : longer[i] \in AuditRow
  BY <1>1
<1>4. DOMAIN f = 1..n /\ \A i \in 1..n : f[i] = longer[i].txs /\ f[i] \in Int
  BY <1>1, <1>3 DEF AuditRow
<1>5. DOMAIN g = DOMAIN log /\ \A i \in DOMAIN log : g[i] = f[i]
  BY <1>1, <1>2
<1>6. IsFiniteSet(1..n) /\ IsFiniteSet(DOMAIN log) /\ n \in 1..n
  BY <1>1, FS_Interval
<1> HIDE DEF f, g, longer, n
<1>7. Total(f) = Fold(f, 1..n)
  BY <1>4, TotalFold
<1>8. Total(g) = Fold(f, DOMAIN log)
  BY <1>5, <1>6, TotalIs
<1>9. Fold(f, 1..n) = f[n] + Fold(f, DOMAIN log)
  BY <1>2, <1>4, <1>6, FoldRemove
<1>10. f[n] = entry.txs
  BY <1>1, <1>4, <1>6
<1>11. Total(f) = entry.txs + Total(g)
  BY <1>7, <1>8, <1>9, <1>10
<1> QED BY <1>1, <1>2, <1>11 DEF longer, f, g, n

\* Bookings and audit log are written by two kinds of commits.
LEMMA TableWriters ==
  ASSUME Next
  PROVE  \/ UNCHANGED <<txs, audit>>
         \/ \E r \in Reqs : CommitBooking(r)
         \/ \E r \in Reqs : CommitAnonymization(r)
<1>1. CASE Environment
  BY <1>1 DEF Environment, CreateUser, ToggleActive, ToggleSpendingLimit, SaveSettings, Tick
<1>2. ASSUME NEW r \in Reqs, Start(r) PROVE UNCHANGED <<txs, audit>>
  <2>1. UNCHANGED Tables
    BY <1>2, StartReads
  <2> QED BY <2>1 DEF Tables
<1>3. ASSUME NEW r \in Reqs, Proceed(r) \/ Abort(r), ~CommitBooking(r), ~CommitAnonymization(r)
      PROVE  UNCHANGED <<txs, audit>>
  <2>1. CASE CommitDelete(r)
    BY <2>1 DEF CommitDelete
  <2>2. CASE ~CommitDelete(r)
    <3>1. UNCHANGED Tables
      BY <1>3, <2>2, OnlyCommitsWrite
    <3> QED BY <3>1 DEF Tables
  <2> QED BY <2>1, <2>2
<1> QED BY <1>1, <1>2, <1>3 DEF Next

\* A booking that has just been made has an owner.
LEMMA BookingNamed ==
  ASSUME IInv, NEW r \in Reqs, CommitBooking(r)
  PROVE  Anonymized' = Anonymized
<1>1. /\ req[r].new \in TxIds /\ ~txs[req[r].new].used /\ req[r].who \in Users
      /\ txs'[req[r].new].user = req[r].who
      /\ \A t \in TxIds : t # req[r].new =>
           txs'[t].used = txs[t].used /\ txs'[t].user = txs[t].user
  BY Booked
<1> QED BY <1>1, ConstantsOK DEF Anonymized

LEMMA AuditInit == Init => AInv
<1> SUFFICES ASSUME Init PROVE AInv
  OBVIOUS
<1>1. IInv /\ audit = <<>> /\ txs = InitTxs
  BY InitOK DEF Init
<1>2. Anonymized = Forgotten
  BY <1>1 DEF Anonymized, Forgotten
<1> DEFINE f == [i \in DOMAIN audit |-> audit[i].txs]
<1>3. DOMAIN audit = {} /\ DOMAIN f = {}
  BY <1>1
<1> HIDE DEF f
<1>4. Total(f) = 0
  BY <1>3, TotalFold, FoldStep, FS_EmptySet
<1>5. Cardinality(Anonymized \ Forgotten) = 0
  <2>1. Anonymized \ Forgotten = {}
    BY <1>2
  <2> QED BY <2>1, FS_EmptySet
<1> QED BY <1>1, <1>2, <1>3, <1>4, <1>5 DEF AInv, AuditComplete, f

LEMMA AuditStep == AInv /\ [Next]_vars => AInv'
<1> SUFFICES ASSUME AInv, [Next]_vars PROVE AInv'
  OBVIOUS
<1>1. IInv /\ IInv' /\ Forgotten' = Forgotten
  BY StepOK DEF AInv, Forgotten
<1>2. CASE UNCHANGED <<txs, audit>>
  BY <1>1, <1>2 DEF AInv, AuditComplete, Anonymized
<1>3. ASSUME NEW r \in Reqs, CommitBooking(r) PROVE AInv'
  <2>1. Anonymized' = Anonymized /\ audit' = audit
    BY <1>1, <1>3, BookingNamed DEF CommitBooking
  <2> QED BY <1>1, <2>1 DEF AInv, AuditComplete
<1>4. ASSUME NEW r \in Reqs, CommitAnonymization(r) PROVE AInv'
  <2> DEFINE R == req[r].rows
             entry == [txs |-> Cardinality(R), users |-> Cardinality(req[r].credited)]
             S == Anonymized \ Forgotten
             total == Total([i \in DOMAIN audit |-> audit[i].txs])
  <2>1. /\ Anonymized' = Anonymized \cup R /\ Anonymized \cap R = {} /\ IsFiniteSet(R)
        /\ entry.txs = Cardinality(R) /\ entry.users = Cardinality(req[r].credited)
        /\ entry.txs \in Nat /\ entry.users \in Nat
        /\ entry.txs >= entry.users /\ entry.users > 0
    BY <1>1, <1>4, RunForgets, RunCounts
  <2>2. audit' = Append(audit, entry) /\ audit \in Seq(AuditRow) /\ entry \in AuditRow
    BY <1>1, <1>4, <2>1 DEF CommitAnonymization, IInv, TypeOK, AuditRow
  <2>3. (Anonymized \ Forgotten)' = S \cup R /\ S \cap R = {} /\ Forgotten \subseteq Anonymized'
    BY <1>1, <2>1 DEF AInv
  <2>4. IsFiniteSet(S)
    BY ConstantsOK, FS_Subset DEF Anonymized
  <2>5. total = Cardinality(S) /\ \A i \in DOMAIN audit : audit[i].txs >= audit[i].users /\ audit[i].users > 0
    BY DEF AInv, AuditComplete
  <2> HIDE DEF entry, S, total, R
  <2>6. Cardinality(S \cup R) = Cardinality(S) + Cardinality(R)
    BY <2>1, <2>3, <2>4, DisjointCount
  <2>7. /\ DOMAIN audit' = DOMAIN audit \cup {Len(audit) + 1}
        /\ audit'[Len(audit) + 1] = entry
        /\ \A i \in DOMAIN audit : audit'[i] = audit[i]
        /\ Total([i \in DOMAIN audit' |-> audit'[i].txs]) = entry.txs + total
    BY <2>2, LogGrows DEF total
  <2>8. \A i \in DOMAIN audit' : audit'[i].txs >= audit'[i].users /\ audit'[i].users > 0
    BY <2>1, <2>5, <2>7
  <2>9. Total([i \in DOMAIN audit' |-> audit'[i].txs]) = Cardinality((Anonymized \ Forgotten)')
    <3>1. Cardinality(S) \in Nat /\ Cardinality(R) \in Nat
      BY <2>1, <2>4, FS_CardinalityType
    <3>2. entry.txs + total = Cardinality(S \cup R)
      BY <2>1, <2>5, <2>6, <3>1
    <3>3. Cardinality((Anonymized \ Forgotten)') = Cardinality(S \cup R)
      BY <2>3
    <3> QED BY <2>7, <3>2, <3>3
  <2>10. AuditComplete'
    BY <1>1, <2>8, <2>9 DEF AuditComplete
  <2> QED BY <1>1, <2>3, <2>10 DEF AInv
<1>5. CASE UNCHANGED vars
  BY <1>2, <1>5 DEF vars
<1> QED BY <1>2, <1>3, <1>4, <1>5, TableWriters

\* The audit log accounts for every anonymized booking exactly once, and has no
\* entry for a run that found nothing (anonymize.go:58-94), however many runs
\* are started at the same time and wherever they are cut off.
THEOREM AuditCorrect == Spec => []AuditComplete
<1>1. AInv => AuditComplete
  BY DEF AInv
<1> QED BY <1>1, AuditInit, AuditStep, PTL DEF Spec

-----------------------------------------------------------------------------
(* The balances together.                                                  *)

Open == {v \in Users : Live(v)}
CarriedOver == Total([u \in Open |-> users[u].carry])

\* The carryovers come to what has been anonymized.
MoneyInv == CarriedOver = InitCarry + SumOf(Anonymized \ Forgotten)

NoDeletes == "delete" \notin Ops => \A r \in Reqs : req[r].kind # "delete"

MInv ==
  /\ IInv /\ NoDeletes /\ ("anonymize" \notin Ops => DInv)
  /\ Forgotten \subseteq Anonymized /\ MoneyInv

LEMMA OpenFinite == IsFiniteSet(Open) /\ Open \subseteq Users
<1>1. Open \subseteq Users
  BY DEF Open
<1> QED BY <1>1, ConstantsOK, FS_Subset

\* The balances of all accounts are their carryovers and the bookings that have
\* an owner.
LEMMA BalancesTogether ==
  ASSUME IInv
  PROVE  /\ Total([u \in Open |-> Balance(u)])
              = CarriedOver + SumOf({t \in TxIds : txs[t].used} \ Anonymized)
         /\ CarriedOver \in Int
<1> DEFINE owner == [t \in TxIds |-> IF txs[t].used THEN txs[t].user ELSE Nobody]
           carry == [u \in Open |-> users[u].carry]
           booked == [u \in Open |-> Worth(txs, Held(owner, {u}))]
           balance == [u \in Open |-> Balance(u)]
           S == {t \in TxIds : txs[t].used} \ Anonymized
<1>1. IsFiniteSet(Open) /\ Open \subseteq Users /\ txs \in [TxIds -> TxRow]
      /\ users \in [Users -> UserRow]
  BY OpenFinite DEF IInv, TypeOK
<1>2. \A u \in Open : Held(owner, {u}) = RowsOf(u)
  BY <1>1, ConstantsOK DEF RowsOf, Held
<1>3. \A u \in Open : booked[u] = SumOf(RowsOf(u)) /\ booked[u] \in Int
  <2> SUFFICES ASSUME NEW u \in Open
               PROVE  booked[u] = SumOf(RowsOf(u)) /\ booked[u] \in Int
    OBVIOUS
  <2>1. RowsOf(u) \in SUBSET TxIds
    BY DEF RowsOf
  <2>2. booked[u] = Worth(txs, RowsOf(u))
    BY <1>2
  <2> QED BY <1>1, <2>1, <2>2, SumWorth, WorthFacts DEF SumOf
<1>4. \A u \in Open : carry[u] \in Int /\ carry[u] = users[u].carry
  BY <1>1, ConstantsOK DEF UserRow
<1>5. \A u \in Open : balance[u] = carry[u] + booked[u]
  BY <1>3, <1>4 DEF Balance
<1>6. Held(owner, Open) = S
  <2>1. \A t \in TxIds : txs[t].used /\ txs[t].user # Nobody => txs[t].user \in Open
    BY <1>1 DEF IInv, ReferencesLive, NamesLive, Open, Live, TypeOK, TxRow
  <2>2. Nobody \notin Open
    BY <1>1, ConstantsOK
  <2> QED BY <2>1, <2>2 DEF Anonymized, Held
<1>7. Shares(booked, txs, owner, Open)
  BY DEF Shares
<1>8. DOMAIN carry = Open /\ DOMAIN balance = Open /\ S \in SUBSET TxIds
  OBVIOUS
<1> HIDE DEF owner, carry, booked, balance, S
<1>9. Fold(booked, Open) = Worth(txs, S)
  BY <1>1, <1>6, <1>7, Grouped
<1>10. Fold(balance, Open) = Fold(carry, Open) + Fold(booked, Open)
  BY <1>1, <1>3, <1>4, <1>5, FoldPlus
<1>11. Total(balance) = Fold(balance, Open) /\ Total(carry) = Fold(carry, Open)
  BY <1>8, TotalFold
<1>12. Fold(carry, Open) \in Int
  BY <1>1, <1>4, FoldInt
<1>13. Worth(txs, S) = SumOf(S)
  BY <1>8, SumWorth DEF SumOf
<1>14. Total(balance) = Total(carry) + SumOf(S) /\ Total(carry) \in Int
  BY <1>9, <1>10, <1>11, <1>12, <1>13
<1> QED BY <1>14 DEF carry, balance, S, CarriedOver

LEMMA InitCarryInt == InitCarry \in Int
<1> DEFINE S == {v \in Users : InitUsers[v].st = "live"}
           f == [u \in S |-> InitUsers[u].carry]
<1>1. IsFiniteSet(S) /\ DOMAIN f = S /\ \A u \in S : f[u] \in Int
  BY ConstantsOK, FS_Subset DEF UserRow
<1> HIDE DEF S, f
<1>2. Total(f) \in Int
  BY <1>1, TotalFold, FoldInt
<1> QED BY <1>2 DEF InitCarry, S, f

LEMMA MoneyKept ==
  ASSUME MInv
  PROVE  NoMoneyLost
<1> DEFINE U == {t \in TxIds : txs[t].used}
           named == U \ Anonymized
           since == Anonymized \ Forgotten
<1>1. IInv /\ txs \in [TxIds -> TxRow] /\ Forgotten \subseteq Anonymized
      /\ CarriedOver = InitCarry + SumOf(since)
  BY DEF MInv, IInv, TypeOK, MoneyInv
<1>2. named \in SUBSET TxIds /\ since \in SUBSET TxIds /\ named \cap since = {}
      /\ named \cup since = U \ Forgotten /\ U \ Forgotten \in SUBSET TxIds
  BY <1>1 DEF Anonymized
<1>3. Total([u \in Open |-> Balance(u)]) = CarriedOver + SumOf(named) /\ CarriedOver \in Int
  BY <1>1, BalancesTogether
<1> HIDE DEF named, since, U
<1>4. Worth(txs, U \ Forgotten) = Worth(txs, named) + Worth(txs, since)
      /\ Worth(txs, named) \in Int /\ Worth(txs, since) \in Int
  <2>1. Worth(txs, named \cup since) = Worth(txs, named) + Worth(txs, since)
    BY <1>1, <1>2, WorthFacts
  <2>2. Worth(txs, named) \in Int /\ Worth(txs, since) \in Int
    BY <1>1, <1>2, WorthFacts
  <2> QED BY <1>2, <2>1, <2>2
<1>5. SumOf(named) = Worth(txs, named) /\ SumOf(since) = Worth(txs, since)
      /\ SumOf(U \ Forgotten) = Worth(txs, U \ Forgotten)
  BY <1>2, SumWorth DEF SumOf
<1>6. InitCarry \in Int
  BY InitCarryInt
<1>7. Total([u \in Open |-> Balance(u)]) = InitCarry + SumOf(U \ Forgotten)
  BY <1>1, <1>3, <1>4, <1>5, <1>6
<1> QED BY <1>7 DEF NoMoneyLost, U, Open

LEMMA CarriedSame ==
  ASSUME \A u \in Users : /\ users'[u].st = users[u].st
                          /\ users'[u].carry = users[u].carry
  PROVE  Open' = Open /\ CarriedOver' = CarriedOver
<1>1. Open' = Open /\ \A u \in Open : users'[u].carry = users[u].carry
  BY DEF Open, Live
<1> QED BY <1>1 DEF CarriedOver

\* An account with nothing carried over comes or goes.
LEMMA CarriedOne ==
  ASSUME NEW f, NEW g, NEW u, IsFiniteSet(DOMAIN g), u \notin DOMAIN g,
         DOMAIN f = DOMAIN g \cup {u}, f[u] = 0,
         \A v \in DOMAIN g : f[v] = g[v] /\ f[v] \in Int
  PROVE  Total(f) = Total(g)
<1> DEFINE S == DOMAIN g
<1>1. IsFiniteSet(DOMAIN f)
  BY FS_AddElement
<1>2. S = DOMAIN f \ {u} /\ (\A v \in DOMAIN f : f[v] \in Int) /\ u \in DOMAIN f
  OBVIOUS
<1>3. Fold(f, DOMAIN f) = f[u] + Fold(f, S) /\ IsFiniteSet(S) /\ \A v \in S : f[v] \in Int
  BY <1>1, <1>2, FoldRemove
<1>4. Fold(f, S) \in Int
  BY <1>3, FoldInt
<1>5. Total(f) = Fold(f, DOMAIN f) /\ Total(g) = Fold(f, S)
  BY TotalFold, TotalIs
<1> QED BY <1>3, <1>4, <1>5

\* Every account keeps its carryover in steps that are none of these three.
LEMMA CarryWriters ==
  ASSUME IInv, Next
  PROVE  \/ \A u \in Users : users'[u].st = users[u].st /\ users'[u].carry = users[u].carry
         \/ UNCHANGED txs /\ \E u \in Users : CreateUser(u)
         \/ UNCHANGED txs /\ \E r \in Reqs : CommitDelete(r)
         \/ \E r \in Reqs : CommitAnonymization(r)
<1>1. users \in [Users -> UserRow]
  BY DEF IInv, TypeOK
<1>2. CASE Environment
  BY <1>1, <1>2 DEF Environment, CreateUser, ToggleActive, ToggleSpendingLimit, SaveSettings, Tick, UserRow
<1>3. ASSUME NEW r \in Reqs, Start(r) PROVE users' = users
  BY <1>3, StartsAlone DEF Tables
<1>4. ASSUME NEW r \in Reqs, Proceed(r) \/ Abort(r), ~CommitDelete(r), ~CommitAnonymization(r)
      PROVE  users' = users
  <2>1. CASE CommitBooking(r)
    BY <2>1 DEF CommitBooking
  <2>2. CASE ~CommitBooking(r)
    <3>1. UNCHANGED Tables
      BY <1>4, <2>2, OnlyCommitsWrite
    <3> QED BY <3>1 DEF Tables
  <2> QED BY <2>1, <2>2
<1>5. ASSUME NEW r \in Reqs, CommitDelete(r) PROVE UNCHANGED txs
  BY <1>5 DEF CommitDelete
<1> QED BY <1>1, <1>2, <1>3, <1>4, <1>5 DEF Next

\* What an account owns when it is deleted is nothing, so it takes nothing along.
LEMMA DeletedEmpty ==
  ASSUME MInv, "anonymize" \notin Ops \/ "delete" \notin Ops, NEW r \in Reqs, CommitDelete(r)
  PROVE  /\ "anonymize" \notin Ops
         /\ req[r].who \in Users /\ Live(req[r].who) /\ users[req[r].who].carry = 0
         /\ References(req[r].who) = {} /\ Balance(req[r].who) = 0
<1>1. req[r].kind = "delete" /\ req[r].pc = "commit" /\ IInv /\ RequestOK(r)
  BY DEF CommitDelete, MInv, IInv
<1>2. DInv /\ "anonymize" \notin Ops
  BY <1>1 DEF MInv, NoDeletes
<1>3. req[r].who \in Users /\ References(req[r].who) = {} /\ Balance(req[r].who) = 0
  BY <1>1, <1>2, SettledAtCommit DEF RequestOK, FieldsOK, Unreferenced
<1>4. Live(req[r].who)
  BY <1>1, <1>3 DEF RequestOK, LockedLive, HoldsUpdate
<1>5. RowsOf(req[r].who) = {}
  BY <1>3 DEF RowsOf, References
<1>6. SumOf({}) = 0
  BY <1>1, SumWorth, WorthFacts DEF SumOf, IInv, TypeOK
<1>7. users[req[r].who].carry \in Int
  BY <1>1, <1>3, ConstantsOK DEF IInv, TypeOK, UserRow
<1>8. Balance(req[r].who) = users[req[r].who].carry + SumOf({})
  BY <1>5 DEF Balance
<1> QED BY <1>2, <1>3, <1>4, <1>6, <1>7, <1>8

\* A run adds to a carryover what the account's due bookings come to.
LEMMA RunCarry ==
  ASSUME IInv, NEW r \in Reqs, CommitAnonymization(r), NEW u \in Open
  PROVE  users'[u].carry = users[u].carry + Worth(txs, Held(req[r].due, {u}))
<1> DEFINE mine == Held(req[r].due, {u})
           c == users[u].carry + Credit(req[r], u)
<1>1. u \in Users /\ users[u].st = "live" /\ users[u] \in UserRow /\ mine \in SUBSET TxIds
      /\ txs \in [TxIds -> TxRow] /\ users[u].carry \in Int
  BY ConstantsOK DEF Open, Live, IInv, TypeOK, UserRow, Held
<1>2. Credit(req[r], u) = Worth(txs, mine)
  BY <1>1, SumWorth DEF Credit, SumOf, Held
<1>3. users' = [v \in Users |-> IF v \in req[r].credited /\ users[v].st = "live"
                                  THEN [users[v] EXCEPT !.carry = @ + Credit(req[r], v)]
                                  ELSE users[v]]
  BY DEF CommitAnonymization
<1>4. users'[u] = IF u \in req[r].credited THEN [users[u] EXCEPT !.carry = c] ELSE users[u]
  BY <1>1, <1>3
<1>5. CASE u \in req[r].credited
  <2>1. users'[u].carry = c
    <3> HIDE DEF c
    <3> QED BY <1>1, <1>4, <1>5 DEF UserRow
  <2> QED BY <1>2, <2>1
<1>6. CASE u \notin req[r].credited
  <2>1. mine = {}
    BY <1>1, <1>6, RunHolds DEF Held
  <2>2. Worth(txs, mine) = 0
    BY <1>1, <2>1, WorthFacts
  <2>3. users'[u].carry = users[u].carry
    BY <1>4, <1>6
  <2> QED BY <1>1, <2>2, <2>3
<1> QED BY <1>5, <1>6

\* All carryovers together grow by what has been anonymized.
LEMMA RunCarries ==
  ASSUME IInv, NEW r \in Reqs, CommitAnonymization(r)
  PROVE  CarriedOver' = CarriedOver + Worth(txs, req[r].rows)
<1> DEFINE f == [u \in Open |-> users[u].carry]
           g == [u \in Open |-> Worth(txs, Held(req[r].due, {u}))]
           h == [u \in Open |-> users'[u].carry]
<1>1. IsFiniteSet(Open) /\ Open \subseteq Users /\ txs \in [TxIds -> TxRow]
      /\ users \in [Users -> UserRow]
  BY OpenFinite DEF IInv, TypeOK
<1>2. Open' = Open
  BY RunCommitted DEF Open, Live
<1>3. \A u \in Open : f[u] \in Int
  BY <1>1, ConstantsOK DEF UserRow
<1>4. \A u \in Open : g[u] \in Int
  <2> SUFFICES ASSUME NEW u \in Open PROVE Worth(txs, Held(req[r].due, {u})) \in Int
    OBVIOUS
  <2>1. Held(req[r].due, {u}) \in SUBSET TxIds
    BY DEF Held
  <2> QED BY <1>1, <2>1, WorthFacts
<1>5. \A u \in Open : h[u] = f[u] + g[u]
  BY RunCarry
<1>6. Held(req[r].due, Open) = req[r].rows
  <2>1. \A t \in TxIds : req[r].due[t] # Nobody => req[r].due[t] \in Open
    BY RunHolds, RunCommitted, OwnerLive DEF Open
  <2>2. Nobody \notin Open
    BY <1>1, ConstantsOK
  <2> QED BY <2>1, <2>2, RunHolds DEF Held
<1>7. Shares(g, txs, req[r].due, Open)
  BY DEF Shares
<1>8. DOMAIN f = Open /\ DOMAIN h = Open
  OBVIOUS
<1>9. CarriedOver' = Total(h) /\ CarriedOver = Total(f)
  BY <1>2 DEF CarriedOver
<1> HIDE DEF f, g, h
<1>10. Fold(g, Open) = Worth(txs, req[r].rows)
  BY <1>1, <1>6, <1>7, Grouped
<1>11. Fold(h, Open) = Fold(f, Open) + Fold(g, Open)
  BY <1>1, <1>3, <1>4, <1>5, FoldPlus
<1>12. Total(f) = Fold(f, Open) /\ Total(h) = Fold(h, Open)
  BY <1>8, TotalFold
<1> QED BY <1>9, <1>10, <1>11, <1>12

\* A step changes what the carryovers come to and what is anonymized alike.
LEMMA MoneyMoves ==
  ASSUME MInv, Next, "anonymize" \notin Ops \/ "delete" \notin Ops
  PROVE  Forgotten \subseteq Anonymized' /\ MoneyInv'
<1> DEFINE since == Anonymized \ Forgotten
           later == Anonymized' \ Forgotten
<1>1. IInv /\ IInv' /\ Forgotten \subseteq Anonymized /\ CarriedOver = InitCarry + SumOf(since)
      /\ txs \in [TxIds -> TxRow] /\ txs' \in [TxIds -> TxRow] /\ InitCarry' = InitCarry
      /\ users \in [Users -> UserRow] /\ users' \in [Users -> UserRow]
  BY StepOK DEF MInv, MoneyInv, IInv, TypeOK, InitCarry
<1>2. since \in SUBSET TxIds /\ SumOf(since) = Worth(txs, since) /\ Anonymized \subseteq TxIds
  <2>1. Anonymized \subseteq TxIds
    BY DEF Anonymized
  <2> QED BY <2>1, SumWorth DEF SumOf
<1>3. MoneyInv' <=> CarriedOver' = InitCarry + Worth(txs', later)
  <2>1. later \in SUBSET TxIds
    BY DEF Anonymized
  <2>2. SumOf(Anonymized \ Forgotten)' = Worth(txs', later)
    BY <2>1, SumWorth DEF SumOf, Forgotten
  <2> QED BY <1>1, <2>2 DEF MoneyInv
<1>4. CASE \E r \in Reqs : CommitAnonymization(r)
  <2>1. PICK r \in Reqs : CommitAnonymization(r)
    BY <1>4
  <2> DEFINE R == req[r].rows
  <2>2. Anonymized' = Anonymized \cup R /\ Anonymized \cap R = {} /\ R \subseteq TxIds
    BY <1>1, <2>1, RunForgets, RunHolds
  <2>3. later = since \cup R /\ since \cap R = {} /\ later \in SUBSET TxIds
    BY <1>1, <1>2, <2>2
  <2>4. CarriedOver' = CarriedOver + Worth(txs, R)
    BY <1>1, <2>1, RunCarries
  <2>5. Forgotten \subseteq Anonymized'
    BY <1>1, <2>2
  <2>6. \A t \in TxIds : txs'[t].amt = txs[t].amt
    BY <1>1, <2>1, RunCommitted
  <2>7. InitCarry \in Int
    BY <1>1, InitCarryInt
  <2> HIDE DEF since, later, R
  <2>8. Worth(txs', later) = Worth(txs, later)
    BY <1>1, <2>3, <2>6, WorthFacts
  <2>9. Worth(txs, later) = Worth(txs, since) + Worth(txs, R)
        /\ Worth(txs, since) \in Int /\ Worth(txs, R) \in Int
    <3>1. Worth(txs, since \cup R) = Worth(txs, since) + Worth(txs, R)
      BY <1>1, <1>2, <2>2, <2>3, WorthFacts
    <3>2. Worth(txs, since) \in Int /\ Worth(txs, R) \in Int
      BY <1>1, <1>2, <2>2, WorthFacts
    <3> QED BY <2>3, <3>1, <3>2
  <2> QED BY <1>1, <1>2, <1>3, <2>4, <2>5, <2>7, <2>8, <2>9
<1>5. CASE ~(\E r \in Reqs : CommitAnonymization(r))
  <2>1. Anonymized' = Anonymized /\ \A t \in Anonymized : txs'[t].amt = txs[t].amt
    <3>1. CASE txs' = txs
      BY <3>1 DEF Anonymized
    <3>2. ASSUME NEW r \in Reqs, CommitBooking(r)
          PROVE  Anonymized' = Anonymized /\ \A t \in Anonymized : txs'[t].amt = txs[t].amt
      BY <1>1, <3>2, BookingNamed, Booked DEF Anonymized
    <3> QED BY <1>5, <3>1, <3>2, TableWriters
  <2>2. Worth(txs', later) = Worth(txs, since)
    <3>1. later = since /\ \A t \in since : txs'[t].amt = txs[t].amt
      BY <2>1
    <3> HIDE DEF since, later
    <3> QED BY <1>1, <1>2, <3>1, WorthFacts
  <2>3. CarriedOver' = CarriedOver
    <3>1. CASE \A u \in Users : users'[u].st = users[u].st /\ users'[u].carry = users[u].carry
      BY <3>1, CarriedSame
    <3>2. ASSUME NEW u \in Users, CreateUser(u) PROVE CarriedOver' = CarriedOver
      <4>1. /\ users[u].st = "none" /\ users'[u].st = "live" /\ users'[u].carry = 0
            /\ \A v \in Users : v # u => users'[v] = users[v]
        BY <1>1, <3>2 DEF CreateUser
      <4>2. Open \in SUBSET Users /\ u \in Users \ Open /\ Open' = Open \cup {u}
        BY <4>1 DEF Open, Live
      <4>3. \A v \in Open : users[v].carry = users'[v].carry
        BY <4>1, <4>2
      <4> DEFINE f == [v \in Open \cup {u} |-> users'[v].carry]
                 g == [v \in Open |-> users[v].carry]
      <4>4. /\ IsFiniteSet(DOMAIN g) /\ u \notin DOMAIN g /\ DOMAIN f = DOMAIN g \cup {u}
            /\ f[u] = 0 /\ \A v \in DOMAIN g : f[v] = g[v] /\ f[v] \in Int
        BY <1>1, <4>1, <4>2, <4>3, OpenFinite, ConstantsOK DEF UserRow
      <4>5. CarriedOver' = Total(f) /\ CarriedOver = Total(g)
        BY <4>2 DEF CarriedOver
      <4> HIDE DEF f, g
      <4> QED BY <4>4, <4>5, CarriedOne
    <3>3. ASSUME NEW r \in Reqs, CommitDelete(r) PROVE CarriedOver' = CarriedOver
      <4> DEFINE u == req[r].who
      <4>1. u \in Users /\ Live(u) /\ users[u].carry = 0
        BY <3>3, DeletedEmpty
      <4>2. users'[u].st = "gone" /\ \A v \in Users : v # u => users'[v] = users[v]
        BY <1>1, <3>3, <4>1 DEF CommitDelete, Gone
      <4>3. Open' \in SUBSET Users /\ u \in Users \ Open' /\ Open = Open' \cup {u}
        BY <4>1, <4>2 DEF Open, Live
      <4>4. \A v \in Open' : users'[v].carry = users[v].carry
        BY <4>2, <4>3
      <4> HIDE DEF u
      <4> DEFINE f == [v \in Open |-> users[v].carry]
                 g == [v \in Open' |-> users'[v].carry]
      <4>5. /\ IsFiniteSet(DOMAIN g) /\ u \notin DOMAIN g /\ DOMAIN f = DOMAIN g \cup {u}
            /\ f[u] = 0 /\ \A v \in DOMAIN g : f[v] = g[v] /\ f[v] \in Int
        <5>1. IsFiniteSet(Open')
          BY <4>3, ConstantsOK, FS_Subset
        <5> QED BY <1>1, <4>1, <4>3, <4>4, <5>1, ConstantsOK DEF UserRow
      <4>6. CarriedOver' = Total(g) /\ CarriedOver = Total(f)
        BY DEF CarriedOver
      <4> HIDE DEF f, g
      <4> QED BY <4>5, <4>6, CarriedOne
    <3> QED BY <1>1, <1>5, <3>1, <3>2, <3>3, CarryWriters
  <2> QED BY <1>1, <1>2, <1>3, <2>1, <2>2, <2>3
<1> QED BY <1>4, <1>5

\* Which requests there are.
LEMMA KindsKept ==
  ASSUME IInv, Next
  PROVE  \A q \in Reqs : req'[q].kind \in {req[q].kind, "none"}
                         \/ (req'[q].kind \in {"delete", "anonymize"} => req'[q].kind \in Ops)
<1>1. CASE Environment
  BY <1>1 DEF Environment, CreateUser, ToggleActive, ToggleSpendingLimit, SaveSettings, Tick
<1>2. ASSUME NEW r \in Reqs, OnlyReq(r),
             req'[r].kind \in {req[r].kind, "none"}
             \/ (req'[r].kind \in {"delete", "anonymize"} => req'[r].kind \in Ops),
             NEW q \in Reqs
      PROVE  req'[q].kind \in {req[q].kind, "none"}
             \/ (req'[q].kind \in {"delete", "anonymize"} => req'[q].kind \in Ops)
  BY <1>2 DEF OnlyReq
<1>3. ASSUME NEW r \in Reqs, Start(r)
      PROVE  OnlyReq(r) /\ (req'[r].kind \in {"delete", "anonymize"} => req'[r].kind \in Ops)
  BY <1>3, StartBegins DEF Begun
<1>4. ASSUME NEW r \in Reqs, Proceed(r) \/ Abort(r)
      PROVE  OnlyReq(r) /\ req'[r].kind \in {req[r].kind, "none"}
  <2>1. CASE Quiet(r)
    BY <2>1, QuietMoves DEF Moved, Idle
  <2>2. CASE Drop(r)
    BY <2>2, Over DEF Idle
  <2>3. CASE Scan(r) /\ ~Drop(r)
    <3>1. req' = [req EXCEPT ![r].pc = "update",
                     ![r].due = [t \in TxIds |-> IF Due(t, req[r].cutoff)
                                                   THEN txs[t].user ELSE Nobody]]
      BY <2>3 DEF Scan
    <3>2. req \in [Reqs -> Request] /\ req[r] \in Request
      BY DEF IInv, TypeOK
    <3> QED BY <3>1, <3>2 DEF OnlyReq, Request
  <2> QED BY <1>4, <2>1, <2>2, <2>3
          DEF Proceed, Quiet, Abort, CommitBooking, CommitDelete, CommitAnonymization
<1> QED BY <1>1, <1>2, <1>3, <1>4 DEF Next

LEMMA MoneyStep ==
  ASSUME MInv, [Next]_vars, "anonymize" \notin Ops \/ "delete" \notin Ops
  PROVE  MInv'
<1>1. IInv /\ IInv' /\ ("anonymize" \notin Ops => DInv')
  BY StepOK, DeletionKept DEF MInv
<1>2. CASE UNCHANGED vars
  <2>1. NoDeletes' /\ (Forgotten \subseteq Anonymized)' /\ MoneyInv'
    BY <1>2 DEF vars, MInv, NoDeletes, Anonymized, Forgotten, MoneyInv, CarriedOver, Open, Live,
       InitCarry, SumOf
  <2> QED BY <1>1, <2>1 DEF MInv
<1>3. CASE Next
  <2>1. NoDeletes'
    BY <1>1, <1>3, KindsKept DEF MInv, NoDeletes
  <2>2. (Forgotten \subseteq Anonymized)' /\ MoneyInv'
    BY <1>3, MoneyMoves DEF Forgotten
  <2> QED BY <1>1, <2>1, <2>2 DEF MInv
<1> QED BY <1>2, <1>3

LEMMA MoneyStart == Init => MInv
<1> SUFFICES ASSUME Init PROVE MInv
  OBVIOUS
<1>1. IInv /\ DInv /\ txs = InitTxs /\ users = InitUsers
  BY InitOK, DeletionInit DEF Init
<1>2. NoDeletes
  BY DEF Init, Idle, NoDeletes
<1>3. Anonymized = Forgotten
  BY <1>1 DEF Anonymized, Forgotten
<1>4. CarriedOver = InitCarry /\ CarriedOver \in Int
  BY <1>1, BalancesTogether DEF CarriedOver, InitCarry, Open, Live
<1>5. Anonymized \ Forgotten = {} /\ SumOf({}) = 0
  BY <1>1, <1>3, SumWorth, WorthFacts DEF SumOf, IInv, TypeOK
<1> QED BY <1>1, <1>2, <1>3, <1>4, <1>5 DEF MInv, MoneyInv

\* Anonymizing moves amounts from bookings to balance_carryover and deleting an
\* account takes nothing with it: the balances together are always what has ever
\* been booked, for any number of accounts, bookings and requests, as long as
\* the program only anonymizes or only deletes.  (A run that commits between the
\* statements of a deletion may take money out: see DeletedSettled.)
THEOREM MoneyCorrect ==
  ASSUME "anonymize" \notin Ops \/ "delete" \notin Ops
  PROVE  Spec => []NoMoneyLost
<1>1. MInv /\ [Next]_vars => MInv'
  BY MoneyStep
<1>2. MInv => NoMoneyLost
  BY MoneyKept
<1> QED BY <1>1, <1>2, MoneyStart, PTL DEF Spec

-----------------------------------------------------------------------------
(* The ledger implements the tab.                                          *)

TabOf == [u \in Users |-> IF Live(u) THEN Balance(u) ELSE 0]
SparedOf == {u \in Users : Live(u) /\ users[u].exempt}
HouseOf == [on |-> settings.enforce, at |-> settings.limit]
AskedOf == [r \in Reqs |-> AskOf(req[r])]
EntriesOf == [t \in TxIds |-> EntryOf(t)]

\* A request asks for a charge, or pays in.
Bounded(r) ==
  /\ req[r].kind = "order" => req[r].amt <= 0
  /\ req[r].kind = "deposit" => req[r].amt >= 0

TInv == MInv /\ \A r \in Reqs : Bounded(r)

LEMMA BoundedStep ==
  ASSUME TInv, Next
  PROVE  \A q \in Reqs : Bounded(q)'
<1>1. IInv /\ IInv' /\ req \in [Reqs -> Request] /\ \A r \in Reqs : Bounded(r)
  BY StepOK DEF TInv, MInv, IInv, TypeOK
<1>2. CASE Environment
  <2>1. req' = req
    BY <1>2 DEF Environment, CreateUser, ToggleActive, ToggleSpendingLimit, SaveSettings, Tick
  <2> QED BY <1>1, <2>1 DEF Bounded
<1>3. ASSUME NEW r \in Reqs, Start(r) \/ Proceed(r) \/ Abort(r), NEW q \in Reqs PROVE Bounded(q)'
  <2>1. CASE q # r
    BY <1>1, <1>3, <2>1, StepShapes DEF OnlyReq, Bounded
  <2>2. CASE Begun(req'[r])
    BY <2>2, <2>1 DEF Begun, Bounded
  <2>3. CASE Drop(r)
    BY <1>1, <2>1, <2>3, Over DEF Idle, Bounded
  <2>4. CASE req'[r].kind = req[r].kind /\ (req[r].kind # "cancel" => req'[r].amt = req[r].amt)
    BY <1>1, <2>1, <2>4 DEF Bounded
  <2> QED BY <1>1, <1>3, <2>1, <2>2, <2>3, <2>4, StepShapes
<1> QED BY <1>2, <1>3 DEF Next

LEMMA TabStart == Init => TInv
<1> SUFFICES ASSUME Init PROVE TInv
  OBVIOUS
<1> QED BY MoneyStart DEF Init, Idle, TInv, Bounded

LEMMA TabKept ==
  ASSUME TInv, [Next]_vars, "anonymize" \notin Ops \/ "delete" \notin Ops
  PROVE  TInv'
<1>1. MInv'
  BY MoneyStep DEF TInv
<1>2. CASE Next
  BY <1>1, <1>2, BoundedStep DEF TInv
<1>3. CASE UNCHANGED vars
  BY <1>1, <1>3 DEF vars, TInv, Bounded
<1> QED BY <1>2, <1>3

\* The balances as numbers, before and after a step.
LEMMA BalanceWorth ==
  ASSUME IInv, IInv', NEW u \in Users
  PROVE  /\ Balance(u) = users[u].carry + Worth(txs, RowsOf(u))
         /\ Balance(u)' = users'[u].carry + Worth(txs', RowsOf(u)')
         /\ Balance(u) \in Int /\ users[u].carry \in Int /\ Worth(txs, RowsOf(u)) \in Int
         /\ users'[u].carry \in Int
<1>1. /\ RowsOf(u) \in SUBSET TxIds /\ RowsOf(u)' \in SUBSET TxIds
      /\ txs \in [TxIds -> TxRow] /\ users[u].carry \in Int /\ users'[u].carry \in Int
  BY ConstantsOK DEF RowsOf, IInv, TypeOK, UserRow
<1>2. Balance(u) = users[u].carry + Worth(txs, RowsOf(u))
  BY <1>1, SumWorth DEF Balance, SumOf
<1>3. Balance(u)' = users'[u].carry + Worth(txs', RowsOf(u)')
  BY <1>1, SumWorth DEF Balance, SumOf
<1>4. Worth(txs, RowsOf(u)) \in Int
  BY <1>1, WorthFacts
<1> QED BY <1>1, <1>2, <1>3, <1>4

\* Balances and entries do not move while bookings and carryovers stay,
LEMMA AccountsKept ==
  ASSUME txs' = txs, \A u \in Users : users'[u].st = users[u].st /\ users'[u].carry = users[u].carry
  PROVE  TabOf' = TabOf /\ Open' = Open /\ EntriesOf' = EntriesOf
<1>1. \A u \in Users : Live(u)' = Live(u) /\ Balance(u)' = Balance(u)
  BY DEF Live, Balance, SumOf, RowsOf
<1>2. \A t \in TxIds : EntryOf(t)' = EntryOf(t)
  BY DEF EntryOf
<1> QED BY <1>1, <1>2 DEF TabOf, Open, EntriesOf

\* and nothing of the tab moves while the tables stay.
LEMMA TabSame ==
  ASSUME UNCHANGED <<users, txs, settings>>
  PROVE  /\ TabOf' = TabOf /\ Open' = Open /\ EntriesOf' = EntriesOf
         /\ SparedOf' = SparedOf /\ HouseOf' = HouseOf
<1>1. \A u \in Users : Live(u)' = Live(u)
  BY DEF Live
<1> QED BY <1>1, AccountsKept DEF SparedOf, HouseOf

\* A charge is asked for by the request whose order it is,
LEMMA OthersAsk ==
  ASSUME NEW r \in Reqs, OnlyReq(r)
  PROVE  AskedOf' = [AskedOf EXCEPT ![r] = AskOf(req'[r])]
<1>1. \A q \in Reqs : q # r => AskOf(req'[q]) = AskOf(req[q])
  BY DEF OnlyReq
<1>2. \A q \in Reqs : AskedOf[q] = AskOf(req[q]) /\ AskedOf'[q] = AskOf(req'[q])
  BY DEF AskedOf
<1>3. AskedOf' = [q \in Reqs |-> AskedOf'[q]] /\ AskedOf = [q \in Reqs |-> AskedOf[q]]
  BY DEF AskedOf
<1> QED BY <1>1, <1>2, <1>3

\* as long as this order lasts.
LEMMA EndsAsking ==
  ASSUME IInv, NEW r \in Reqs, Drop(r)
  PROVE  /\ req[r].kind = "order" =>
              AskedOf[r] # T!Nothing /\ AskedOf' = [AskedOf EXCEPT ![r] = T!Nothing]
         /\ req[r].kind # "order" => AskedOf[r] = T!Nothing /\ AskedOf' = AskedOf
<1>1. OnlyReq(r) /\ AskOf(req'[r]) = T!Nothing
  BY Over DEF Idle, AskOf, T!Nothing
<1>2. AskedOf' = [AskedOf EXCEPT ![r] = T!Nothing]
  BY <1>1, OthersAsk
<1>3. CASE req[r].kind = "order"
  <2>1. req[r].who \in Users /\ Nobody \notin Users
    BY <1>3, ConstantsOK DEF IInv, RequestOK, FieldsOK
  <2>2. AskedOf[r].who = req[r].who /\ T!Nothing.who = Nobody
    BY <1>3 DEF AskedOf, AskOf, T!Nothing
  <2> QED BY <1>2, <1>3, <2>1, <2>2
<1>4. CASE req[r].kind # "order"
  <2>1. AskedOf[r] = T!Nothing
    BY <1>4 DEF AskedOf, AskOf, T!Nothing
  <2>2. AskedOf = [q \in Reqs |-> AskedOf[q]]
    BY DEF AskedOf
  <2> QED BY <1>2, <1>4, <2>1, <2>2
<1> QED BY <1>3, <1>4

\* An entry is charged or paid in ...
LEMMA BookingEnters ==
  ASSUME TInv, IInv', NEW r \in Reqs, CommitBooking(r), req[r].kind # "cancel"
  PROVE  \E e \in TxIds, u \in Users, a \in Int :
           /\ u = req[r].who /\ a = req[r].amt
           /\ u \in Open /\ EntriesOf[e] = T!Blank
           /\ EntriesOf' = [EntriesOf EXCEPT ![e] = [st |-> "booked", owner |-> u, amt |-> a]]
           /\ TabOf' = [TabOf EXCEPT ![u] = @ + a] /\ Open' = Open
           /\ req[r].kind = "order" /\ req[r].enforce => TabOf[u] > -req[r].limit
<1>1. PICK e, w, a : e = req[r].new /\ w = req[r].who /\ a = req[r].amt
  OBVIOUS
<1>2. /\ IInv /\ Bounded(r) /\ txs \in [TxIds -> TxRow] /\ req[r] \in Request
      /\ txs' \in [TxIds -> TxRow] /\ settings \in SettingsChoices
  BY DEF TInv, MInv, IInv, TypeOK
<1>3. /\ e \in TxIds /\ ~txs[e].used /\ w \in Users /\ Live(w) /\ users' = users /\ a \in Int
      /\ req[r].kind \in {"order", "deposit"} /\ req[r].pc = "commit" /\ req[r].of = NoTx
      /\ RequestOK(r)
  BY <1>1, <1>2, Booked DEF Books, RequestOK, FieldsOK, Request
<1>4. /\ txs'[e].used /\ txs'[e].user = w /\ txs'[e].amt = a /\ txs'[e].cancels = NoTx
      /\ ~txs'[e].cancelled
      /\ \A t \in TxIds : t # e => EntryOf(t)' = EntryOf(t)
  BY <1>1, <1>2, <1>3, ConstantsOK, Booked DEF EntryOf
<1>5. EntryOf(e) = T!Blank /\ EntryOf(e)' = [st |-> "booked", owner |-> w, amt |-> a]
  BY <1>3, <1>4 DEF EntryOf, T!Blank
<1>6. EntriesOf[e] = T!Blank
      /\ EntriesOf' = [EntriesOf EXCEPT ![e] = [st |-> "booked", owner |-> w, amt |-> a]]
  <2> QED BY <1>3, <1>4, <1>5 DEF EntriesOf
<1>7. \A t \in TxIds : t # e => txs'[t].used = txs[t].used /\ txs'[t].user = txs[t].user
  BY <1>1, <1>2, Booked
<1>8. \A v \in Users : Live(v)' = Live(v)
  BY <1>3 DEF Live
<1>9. Balance(w)' = Balance(w) + a
  <2>1. RowsOf(w)' = RowsOf(w) \cup {e} /\ RowsOf(w) \in SUBSET TxIds /\ e \notin RowsOf(w)
    BY <1>3, <1>4, <1>7 DEF RowsOf
  <2>2. /\ \A t \in RowsOf(w) : txs[t].amt = txs'[t].amt
        /\ (RowsOf(w) \cup {e}) \ {e} = RowsOf(w) /\ RowsOf(w) \cup {e} \in SUBSET TxIds
    BY <1>1, <1>2, <1>3, <2>1, Booked
  <2>3. Worth(txs', RowsOf(w) \cup {e}) = txs'[e].amt + Worth(txs', RowsOf(w))
    BY <1>2, <2>2, WorthFacts
  <2>4. Worth(txs, RowsOf(w)) = Worth(txs', RowsOf(w))
    BY <1>2, <2>1, <2>2, WorthFacts
  <2>5. Balance(w) = users[w].carry + Worth(txs, RowsOf(w))
        /\ Balance(w)' = users'[w].carry + Worth(txs', RowsOf(w)')
        /\ users[w].carry \in Int /\ Worth(txs, RowsOf(w)) \in Int
    BY <1>2, <1>3, BalanceWorth
  <2>6. Balance(w)' = users[w].carry + Worth(txs', RowsOf(w) \cup {e})
    BY <1>3, <2>1, <2>5
  <2>7. Worth(txs', RowsOf(w) \cup {e}) = a + Worth(txs, RowsOf(w))
    BY <1>4, <2>3, <2>4
  <2> QED BY <1>3, <2>5, <2>6, <2>7
<1>10. ASSUME NEW v \in Users, v # w PROVE Balance(v)' = Balance(v)
  <2>1. RowsOf(v)' = RowsOf(v)
    BY <1>3, <1>4, <1>10, <1>7 DEF RowsOf
  <2>2. \A t \in RowsOf(v) : txs'[t].amt = txs[t].amt
    BY <1>1, <1>2, <1>3, Booked DEF RowsOf
  <2> QED BY <1>3, <2>1, <2>2, SumSame DEF Balance, SumOf
<1>11. TabOf' = [TabOf EXCEPT ![w] = @ + a] /\ Open' = Open /\ w \in Open
  <2>1. Open' = Open /\ w \in Open
    BY <1>3, <1>8 DEF Open
  <2> QED BY <1>3, <1>8, <1>9, <1>10, <2>1 DEF TabOf
<1>12. ASSUME req[r].kind = "order", req[r].enforce PROVE TabOf[w] > -req[r].limit
  <2>1. ~(Balance(w) <= -req[r].limit)
    BY <1>1, <1>3, <1>12 DEF RequestOK, CheckHolds, Rejects
  <2>2. Balance(w) \in Int /\ req[r].limit \in Int
    BY <1>2, <1>3, BalanceWorth DEF Request
  <2>3. TabOf[w] = Balance(w)
    BY <1>3 DEF TabOf
  <2> QED BY <2>1, <2>2, <2>3
<1> QED BY <1>1, <1>3, <1>6, <1>11, <1>12

\* ... and a cancellation gives back what was charged.
LEMMA CancelReverses ==
  ASSUME TInv, IInv', NEW r \in Reqs, CommitBooking(r), req[r].kind = "cancel"
  PROVE  \E e \in TxIds :
           /\ EntriesOf[e].st = "booked" /\ EntriesOf[e].owner \in Open
           /\ EntriesOf' = [EntriesOf EXCEPT ![e].st = "reversed"]
           /\ TabOf' = [TabOf EXCEPT ![EntriesOf[e].owner] = @ - EntriesOf[e].amt] /\ Open' = Open
<1>1. PICK n, e, w, a : n = req[r].new /\ e = req[r].of /\ w = req[r].who /\ a = req[r].amt
  OBVIOUS
<1>2. IInv /\ txs \in [TxIds -> TxRow] /\ req[r] \in Request /\ txs' \in [TxIds -> TxRow]
  BY DEF TInv, MInv, IInv, TypeOK
<1>3. /\ n \in TxIds /\ ~txs[n].used /\ w \in Users /\ Live(w) /\ users' = users /\ a \in Int
      /\ e \in TxIds /\ e # NoTx /\ e # n /\ req[r].pc = "commit" /\ RequestOK(r)
  BY <1>1, <1>2, ConstantsOK, Booked DEF RequestOK, FieldsOK, Request
<1>4. txs[e].used /\ txs[e].cancels = NoTx /\ ~txs[e].cancelled /\ w = txs[e].user
      /\ a = -txs[e].amt /\ txs[e].amt \in Int
  BY <1>1, <1>2, <1>3 DEF RequestOK, MarkedOK, TxRow
<1>5. /\ txs'[n].used /\ txs'[n].user = w /\ txs'[n].amt = a /\ txs'[n].cancels = e
      /\ \A t \in TxIds : t # e /\ t # n => EntryOf(t)' = EntryOf(t)
  BY <1>1, <1>2, <1>3, Booked DEF EntryOf
<1>6. EntryOf(n)' = EntryOf(n)
  BY <1>3, <1>5 DEF EntryOf
<1>7. EntryOf(e) = [st |-> "booked", owner |-> w, amt |-> txs[e].amt]
  BY <1>4 DEF EntryOf
<1>8. EntryOf(e)' = [st |-> "reversed", owner |-> w, amt |-> txs[e].amt]
  <2>1. txs'[e].used /\ txs'[e].cancels = NoTx /\ txs'[e].cancelled /\ txs'[e].user = w
        /\ txs'[e].amt = txs[e].amt
    BY <1>1, <1>2, <1>3, <1>4, Booked
  <2> QED BY <2>1 DEF EntryOf
<1>9. \A t \in TxIds : t # n => txs'[t].used = txs[t].used /\ txs'[t].user = txs[t].user
  BY <1>1, <1>2, Booked
<1>10. \A v \in Users : Live(v)' = Live(v)
  BY <1>3 DEF Live
<1>11. Balance(w)' = Balance(w) + a
  <2>1. RowsOf(w)' = RowsOf(w) \cup {n} /\ RowsOf(w) \in SUBSET TxIds /\ n \notin RowsOf(w)
    BY <1>3, <1>5, <1>9 DEF RowsOf
  <2>2. /\ \A t \in RowsOf(w) : txs[t].amt = txs'[t].amt
        /\ (RowsOf(w) \cup {n}) \ {n} = RowsOf(w) /\ RowsOf(w) \cup {n} \in SUBSET TxIds
    BY <1>1, <1>2, <1>3, <2>1, Booked
  <2>3. Worth(txs', RowsOf(w) \cup {n}) = txs'[n].amt + Worth(txs', RowsOf(w))
    BY <1>2, <2>2, WorthFacts
  <2>4. Worth(txs, RowsOf(w)) = Worth(txs', RowsOf(w))
    BY <1>2, <2>1, <2>2, WorthFacts
  <2>5. Balance(w) = users[w].carry + Worth(txs, RowsOf(w))
        /\ Balance(w)' = users'[w].carry + Worth(txs', RowsOf(w)')
        /\ users[w].carry \in Int /\ Worth(txs, RowsOf(w)) \in Int
    BY <1>2, <1>3, BalanceWorth
  <2>6. Balance(w)' = users[w].carry + Worth(txs', RowsOf(w) \cup {n})
    BY <1>3, <2>1, <2>5
  <2>7. Worth(txs', RowsOf(w) \cup {n}) = a + Worth(txs, RowsOf(w))
    BY <1>5, <2>3, <2>4
  <2> QED BY <1>3, <2>5, <2>6, <2>7
<1>12. ASSUME NEW v \in Users, v # w PROVE Balance(v)' = Balance(v)
  <2>1. RowsOf(v)' = RowsOf(v)
    BY <1>3, <1>5, <1>12, <1>9 DEF RowsOf
  <2>2. \A t \in RowsOf(v) : txs'[t].amt = txs[t].amt
    BY <1>1, <1>2, <1>3, Booked DEF RowsOf
  <2> QED BY <1>3, <2>1, <2>2, SumSame DEF Balance, SumOf
<1>13. Open' = Open /\ w \in Open
  BY <1>3, <1>10 DEF Open
<1>14. Balance(w) \in Int
  BY <1>2, <1>3, BalanceWorth
<1>15. TabOf' = [TabOf EXCEPT ![w] = @ - txs[e].amt]
  <2>1. Balance(w)' = Balance(w) - txs[e].amt
    BY <1>4, <1>11, <1>14
  <2> QED BY <1>3, <1>10, <1>12, <2>1 DEF TabOf
<1>16. EntriesOf[e] = [st |-> "booked", owner |-> w, amt |-> txs[e].amt]
  BY <1>3, <1>7 DEF EntriesOf
<1>17. EntriesOf' = [EntriesOf EXCEPT ![e].st = "reversed"]
  <2>1. EntryOf(e)' = [EntryOf(e) EXCEPT !.st = "reversed"]
    BY <1>7, <1>8
  <2>2. \A t \in TxIds : t # e => EntryOf(t)' = EntryOf(t)
    BY <1>5, <1>6
  <2> QED BY <1>3, <2>1, <2>2 DEF EntriesOf
<1>18. EntriesOf[e].st = "booked" /\ EntriesOf[e].owner = w /\ EntriesOf[e].amt = txs[e].amt
  BY <1>16
<1> QED BY <1>3, <1>13, <1>15, <1>17, <1>18

\* Anonymizing forgets owners and moves no tab.
LEMMA RunOnlyForgets ==
  ASSUME IInv, IInv', NEW r \in Reqs, CommitAnonymization(r)
  PROVE  /\ TabOf' = TabOf /\ Open' = Open
         /\ \A e \in TxIds :
              \/ EntriesOf'[e] = EntriesOf[e]
              \/ EntriesOf[e] # T!Blank /\ EntriesOf'[e] = [EntriesOf[e] EXCEPT !.owner = Nobody]
<1>1. /\ txs \in [TxIds -> TxRow] /\ txs' \in [TxIds -> TxRow]
      /\ \A t \in TxIds :
           /\ txs'[t].used = txs[t].used /\ txs'[t].amt = txs[t].amt
           /\ txs'[t].cancels = txs[t].cancels /\ txs'[t].cancelled = txs[t].cancelled
           /\ t \in req[r].rows => txs'[t].user = Nobody
           /\ t \notin req[r].rows => txs'[t].user = txs[t].user
  BY RunCommitted DEF IInv, TypeOK
<1>2. \A u \in Users : Live(u)' = Live(u)
  BY RunCommitted DEF Live
<1>3. Open' = Open
  BY <1>2 DEF Open
<1>4. ASSUME NEW u \in Open PROVE Balance(u)' = Balance(u)
  <2>1. PICK G : G = Held(req[r].due, {u})
    OBVIOUS
  <2>2. users'[u].carry = users[u].carry + Worth(txs, G)
    BY <1>4, <2>1, RunCarry
  <2>3. u \in Users /\ u # Nobody
    BY ConstantsOK DEF Open
  <2>4. /\ RowsOf(u)' \cup G = RowsOf(u) /\ RowsOf(u)' \cap G = {}
        /\ RowsOf(u)' \in SUBSET TxIds /\ G \in SUBSET TxIds
    <3>1. \A t \in TxIds : t \in G <=> req[r].due[t] = u
      BY <2>1 DEF Held
    <3>2. \A t \in TxIds : t \in G <=> t \in req[r].rows /\ txs[t].used /\ txs[t].user = u
      BY <2>3, <3>1, RunHolds
    <3>3. G \in SUBSET TxIds
      BY <2>1 DEF Held
    <3>4. \A t \in TxIds : t \in RowsOf(u)' <=> txs'[t].used /\ txs'[t].user = u
      BY DEF RowsOf
    <3>5. \A t \in TxIds : t \in RowsOf(u) <=> txs[t].used /\ txs[t].user = u
      BY DEF RowsOf
    <3>6. RowsOf(u) \in SUBSET TxIds /\ RowsOf(u)' \in SUBSET TxIds
      BY DEF RowsOf
    <3> QED BY <1>1, <2>3, <3>2, <3>3, <3>4, <3>5, <3>6
  <2>5. PICK rest : rest = RowsOf(u)'
    OBVIOUS
  <2>6. Worth(txs, rest \cup G) = Worth(txs, rest) + Worth(txs, G)
        /\ Worth(txs, rest) \in Int /\ Worth(txs, G) \in Int
    BY <1>1, <2>4, <2>5, WorthFacts
  <2>7. Worth(txs', rest) = Worth(txs, rest)
    BY <1>1, <2>4, <2>5, WorthFacts
  <2>8. /\ Balance(u) = users[u].carry + Worth(txs, RowsOf(u))
        /\ Balance(u)' = users'[u].carry + Worth(txs', RowsOf(u)')
        /\ users[u].carry \in Int
    BY <2>3, BalanceWorth
  <2>9. Balance(u) = users[u].carry + Worth(txs, rest \cup G)
        /\ Balance(u)' = users'[u].carry + Worth(txs, rest)
    BY <2>4, <2>5, <2>7, <2>8
  <2> QED BY <2>2, <2>6, <2>8, <2>9
<1>5. TabOf' = TabOf
  BY <1>2, <1>4 DEF TabOf, Open
<1>6. ASSUME NEW e \in TxIds
      PROVE  \/ EntryOf(e)' = EntryOf(e)
             \/ EntryOf(e) # T!Blank /\ EntryOf(e)' = [EntryOf(e) EXCEPT !.owner = Nobody]
  <2>1. CASE e \in req[r].rows /\ txs[e].used /\ txs[e].cancels = NoTx
    <3>1. EntryOf(e) # T!Blank
      BY <2>1 DEF EntryOf, T!Blank
    <3>2. EntryOf(e)' = [EntryOf(e) EXCEPT !.owner = Nobody]
      BY <1>1, <2>1 DEF EntryOf
    <3> QED BY <3>1, <3>2
  <2>2. CASE ~(e \in req[r].rows /\ txs[e].used /\ txs[e].cancels = NoTx)
    BY <1>1, <2>2 DEF EntryOf
  <2> QED BY <2>1, <2>2
<1>7. \A e \in TxIds : EntriesOf[e] = EntryOf(e) /\ EntriesOf'[e] = EntryOf(e)'
  BY DEF EntriesOf
<1> QED BY <1>3, <1>5, <1>6, <1>7

\* Deleting closes an empty tab that nothing names.
LEMMA DeletionCloses ==
  ASSUME MInv, "anonymize" \notin Ops \/ "delete" \notin Ops, NEW r \in Reqs, CommitDelete(r)
  PROVE  \E u \in Users :
           /\ u = req[r].who
           /\ u \in Open /\ TabOf[u] = 0 /\ \A e \in TxIds : EntriesOf[e].owner # u
           /\ Open' = Open \ {u} /\ TabOf' = TabOf /\ EntriesOf' = EntriesOf
<1>1. PICK u : u = req[r].who
  OBVIOUS
<1>2. u \in Users /\ Live(u) /\ References(u) = {} /\ Balance(u) = 0
  BY <1>1, DeletedEmpty
<1>3. users \in [Users -> UserRow]
  BY DEF MInv, IInv, TypeOK
<1>4. /\ users'[u].st = "gone" /\ txs' = txs
      /\ \A v \in Users : v # u => users'[v] = users[v]
  BY <1>1, <1>2, <1>3 DEF CommitDelete, Gone
<1>5. ~Live(u)' /\ \A v \in Users : v # u => Live(v)' = Live(v) /\ Balance(v)' = Balance(v)
  BY <1>4 DEF Live, Balance, SumOf, RowsOf
<1>6. u \in Open /\ TabOf[u] = 0 /\ TabOf' = TabOf /\ Open' = Open \ {u}
  BY <1>2, <1>5 DEF TabOf, Open
<1>7. \A e \in TxIds : EntryOf(e).owner # u /\ EntryOf(e)' = EntryOf(e)
  BY <1>2, <1>4, ConstantsOK DEF EntryOf, References
<1> QED BY <1>1, <1>2, <1>6, <1>7 DEF EntriesOf

\* A new account opens with an empty tab.
LEMMA RegisteringJoins ==
  ASSUME IInv, IInv', NEW u \in Users, CreateUser(u)
  PROVE  /\ u \notin Open /\ Open' = Open \cup {u}
         /\ TabOf' = [TabOf EXCEPT ![u] = 0] /\ EntriesOf' = EntriesOf
<1>1. users \in [Users -> UserRow] /\ txs \in [TxIds -> TxRow]
  BY DEF IInv, TypeOK
<1>2. /\ users[u].st = "none" /\ users'[u].st = "live" /\ users'[u].carry = 0 /\ txs' = txs
      /\ \A v \in Users : v # u => users'[v] = users[v]
  BY <1>1 DEF CreateUser
<1>3. RowsOf(u)' = {}
  BY <1>2, ConstantsOK DEF RowsOf, IInv, ReferencesLive, NamesLive
<1>4. Balance(u)' = 0
  <2>1. Worth(txs', {}) = 0
    BY <1>1, <1>2, WorthFacts
  <2>2. Balance(u)' = users'[u].carry + Worth(txs', RowsOf(u)')
    BY BalanceWorth
  <2>3. Balance(u)' = 0 + 0
    BY <1>2, <1>3, <2>1, <2>2
  <2> QED BY <2>3
<1>5. ~Live(u) /\ Live(u)'
      /\ \A v \in Users : v # u => Live(v)' = Live(v) /\ Balance(v)' = Balance(v)
  BY <1>2 DEF Live, Balance, SumOf, RowsOf
<1>6. EntriesOf' = EntriesOf
  BY <1>2 DEF EntriesOf, EntryOf
<1> QED BY <1>4, <1>5, <1>6 DEF TabOf, Open

\* Who is spared changes with the accounts only, and the floor with the settings.
LEMMA FloorsSame ==
  ASSUME IInv, settings' = settings,
         \A u \in Users : users'[u].st = users[u].st /\ users'[u].exempt = users[u].exempt
  PROVE  SparedOf' = SparedOf /\ HouseOf' = HouseOf
BY DEF SparedOf, HouseOf, Live

LEMMA FloorsOnCommit ==
  ASSUME IInv, NEW r \in Reqs, CommitBooking(r) \/ CommitAnonymization(r)
  PROVE  SparedOf' = SparedOf /\ HouseOf' = HouseOf
<1>1. users \in [Users -> UserRow]
  BY DEF IInv, TypeOK
<1>2. \A u \in Users : users'[u] = users[u] \/ \E c : users'[u] = [users[u] EXCEPT !.carry = c]
  BY DEF CommitBooking, CommitAnonymization
<1>3. \A u \in Users : users'[u].st = users[u].st /\ users'[u].exempt = users[u].exempt
  BY <1>1, <1>2 DEF UserRow
<1>4. settings' = settings
  BY DEF CommitBooking, CommitAnonymization
<1> QED BY <1>3, <1>4, FloorsSame

LEMMA FloorsOnDelete ==
  ASSUME IInv, NEW r \in Reqs, CommitDelete(r)
  PROVE  SparedOf' = SparedOf \ {req[r].who} /\ HouseOf' = HouseOf
<1>1. users' = [users EXCEPT ![req[r].who] = Gone] /\ settings' = settings
      /\ users \in [Users -> UserRow]
  BY DEF CommitDelete, IInv, TypeOK
<1>2. \A u \in Users : u # req[r].who => users'[u] = users[u]
  BY <1>1
<1>3. req[r].who \in Users => users'[req[r].who].st = "gone"
  BY <1>1 DEF Gone
<1>4. \A u \in Users : u \in SparedOf' <=> u \in SparedOf /\ u # req[r].who
  BY <1>2, <1>3 DEF SparedOf, Live
<1>5. SparedOf' \subseteq Users /\ SparedOf \subseteq Users
  BY DEF SparedOf
<1>6. SparedOf' = SparedOf \ {req[r].who}
  BY <1>4, <1>5
<1> QED BY <1>1, <1>6 DEF HouseOf

\* The steps of the environment: joining, being spared, a new floor.
LEMMA EnvironmentSteps ==
  ASSUME TInv, IInv', Environment
  PROVE  [T!TabNext]_(T!tvars)
<1>1. IInv /\ users \in [Users -> UserRow] /\ req' = req
  BY DEF TInv, MInv, IInv, TypeOK, Environment, CreateUser, ToggleActive, ToggleSpendingLimit,
     SaveSettings, Tick
<1>2. AskedOf' = AskedOf
  BY <1>1 DEF AskedOf
<1>3. ASSUME UNCHANGED <<users, txs, settings>> PROVE [T!TabNext]_(T!tvars)
  <2>1. /\ TabOf' = TabOf /\ Open' = Open /\ EntriesOf' = EntriesOf
        /\ SparedOf' = SparedOf /\ HouseOf' = HouseOf
    BY <1>3, TabSame
  <2> QED BY <1>2, <2>1 DEF T!tvars, TabOf, Open, EntriesOf, SparedOf, HouseOf, AskedOf
<1>4. ASSUME NEW u \in Users, CreateUser(u) PROVE T!TabNext
  <2>1. /\ u \notin Open /\ Open' = Open \cup {u}
        /\ TabOf' = [TabOf EXCEPT ![u] = 0] /\ EntriesOf' = EntriesOf
    BY <1>1, <1>4, RegisteringJoins
  <2>2. settings' = settings /\ ~users'[u].exempt /\ ~Live(u)
        /\ \A v \in Users : v # u => users'[v] = users[v]
    BY <1>1, <1>4 DEF CreateUser, Live
  <2>3. SparedOf' = SparedOf /\ HouseOf' = HouseOf
    BY <2>2 DEF SparedOf, HouseOf, Live
  <2>4. T!Join(u)
    BY <1>2, <2>1, <2>3 DEF T!Join, TabOf, Open, EntriesOf, SparedOf, HouseOf, AskedOf
  <2> QED BY <2>4 DEF T!TabNext
<1>5. ASSUME NEW a \in Users, NEW u \in Users, ToggleActive(a, u) PROVE [T!TabNext]_(T!tvars)
  <2>1. txs' = txs /\ settings' = settings
        /\ \A v \in Users : /\ users'[v].st = users[v].st /\ users'[v].carry = users[v].carry
                            /\ users'[v].exempt = users[v].exempt
    BY <1>1, <1>5 DEF ToggleActive, UserRow
  <2>2. TabOf' = TabOf /\ Open' = Open /\ EntriesOf' = EntriesOf
    BY <2>1, AccountsKept
  <2>3. SparedOf' = SparedOf /\ HouseOf' = HouseOf
    BY <1>1, <2>1, FloorsSame
  <2> QED BY <1>2, <2>2, <2>3 DEF T!tvars, TabOf, Open, EntriesOf, SparedOf, HouseOf, AskedOf
<1>6. ASSUME NEW a \in Users, NEW u \in Users, ToggleSpendingLimit(a, u) PROVE T!TabNext
  <2>1. txs' = txs /\ settings' = settings /\ Live(u)
        /\ \A v \in Users : /\ users'[v].st = users[v].st /\ users'[v].carry = users[v].carry
                            /\ v # u => users'[v] = users[v]
    BY <1>1, <1>6 DEF ToggleSpendingLimit, Writable, UserRow
  <2>2. TabOf' = TabOf /\ Open' = Open /\ EntriesOf' = EntriesOf
    BY <2>1, AccountsKept
  <2>3. HouseOf' = HouseOf
    BY <2>1 DEF HouseOf
  <2>4. \A v \in Users : v # u => (v \in SparedOf' <=> v \in SparedOf)
    BY <2>1 DEF SparedOf, Live
  <2>5. SparedOf' \subseteq Users /\ SparedOf \subseteq Users
    BY DEF SparedOf
  <2>6. SparedOf' \in {SparedOf \cup {u}, SparedOf \ {u}} /\ u \in Open
    BY <2>1, <2>4, <2>5 DEF Open
  <2>7. T!Spare(u)
    BY <1>2, <2>2, <2>3, <2>6 DEF T!Spare, TabOf, Open, EntriesOf, SparedOf, HouseOf, AskedOf
  <2> QED BY <2>7 DEF T!TabNext
<1>7. ASSUME NEW a \in Users, SaveSettings(a) PROVE [T!TabNext]_(T!tvars)
  <2>1. txs' = txs /\ users' = users
    BY <1>7 DEF SaveSettings
  <2>2. TabOf' = TabOf /\ Open' = Open /\ EntriesOf' = EntriesOf
    BY <2>1, AccountsKept
  <2>3. SparedOf' = SparedOf
    BY <2>1 DEF SparedOf, Live
  <2>4. CASE HouseOf' = HouseOf
    BY <1>2, <2>2, <2>3, <2>4 DEF T!tvars, TabOf, Open, EntriesOf, SparedOf, HouseOf, AskedOf
  <2>5. CASE HouseOf' # HouseOf
    <3>1. T!SetFloor
      BY <1>2, <2>2, <2>3, <2>5 DEF T!SetFloor, TabOf, Open, EntriesOf, SparedOf, HouseOf, AskedOf
    <3> QED BY <3>1 DEF T!TabNext
  <2> QED BY <2>4, <2>5
<1>8. CASE Tick
  BY <1>3, <1>8 DEF Tick
<1> QED BY <1>4, <1>5, <1>6, <1>7, <1>8 DEF Environment

\* A statement that writes no table: an order is asked for, or dropped.
LEMMA QuietSteps ==
  ASSUME TInv, IInv', NEW r \in Reqs, Start(r) \/ Proceed(r) \/ Abort(r), UNCHANGED Tables
  PROVE  [T!TabNext]_(T!tvars)
<1>1. /\ IInv /\ req \in [Reqs -> Request] /\ OnlyReq(r)
      /\ AskedOf' = [AskedOf EXCEPT ![r] = AskOf(req'[r])] /\ AskedOf[r] = AskOf(req[r])
      /\ AskedOf = [AskedOf EXCEPT ![r] = AskOf(req[r])]
  <2>1. IInv /\ req \in [Reqs -> Request]
    BY DEF TInv, MInv, IInv, TypeOK
  <2>2. OnlyReq(r)
    BY <2>1, StepShapes
  <2> QED BY <2>1, <2>2, OthersAsk DEF AskedOf
<1>2. /\ TabOf' = TabOf /\ Open' = Open /\ EntriesOf' = EntriesOf
      /\ SparedOf' = SparedOf /\ HouseOf' = HouseOf
  BY TabSame DEF Tables
<1>3. ASSUME AskedOf' = AskedOf PROVE UNCHANGED T!tvars
  BY <1>2, <1>3 DEF T!tvars, TabOf, Open, EntriesOf, SparedOf, HouseOf, AskedOf
<1>4. CASE Begun(req'[r]) /\ ~Busy(r) /\ req'[r].kind = "order"
  <2>1. PICK u, a : u = req'[r].who /\ a = req'[r].amt
    OBVIOUS
  <2>2. u \in Open /\ a <= 0 /\ req'[r].limit = settings.limit
        /\ req'[r].enforce = (settings.enforce /\ ~users[u].exempt)
    BY <1>4, <2>1 DEF Begun, Live, Open
  <2>3. req[r].kind = "none"
    BY <1>1, <1>4 DEF Busy, IInv, RequestOK, FieldsOK, Path, Request, Kinds
  <2>4. AskedOf[r] = T!Nothing
    BY <1>1, <2>3 DEF AskOf, T!Nothing
  <2>5. (settings.enforce /\ ~users[u].exempt) = (settings.enforce /\ u \notin SparedOf)
    BY <2>2 DEF SparedOf, Open
  <2>6. AskOf(req'[r]) = [who |-> u, amt |-> a, on |-> settings.enforce /\ u \notin SparedOf,
                          at |-> settings.limit]
    BY <1>4, <2>1, <2>2, <2>5 DEF AskOf
  <2>7. AskedOf' = [AskedOf EXCEPT ![r] = [who |-> u, amt |-> a,
                      on |-> HouseOf.on /\ u \notin SparedOf, at |-> HouseOf.at]]
        /\ AskedOf'[r].amt = a
    <3>1. AskedOf'[r] = AskOf(req'[r])
      BY DEF AskedOf
    <3>2. HouseOf.on = settings.enforce /\ HouseOf.at = settings.limit
      BY DEF HouseOf
    <3> QED BY <1>1, <2>6, <3>1, <3>2
  <2>8. T!Ask(r, u, AskedOf'[r].amt)
    BY <1>2, <2>2, <2>4, <2>7 DEF T!Ask, TabOf, Open, EntriesOf, SparedOf, HouseOf, AskedOf
  <2>9. u \in Users
    BY <2>2 DEF Open
  <2> QED BY <2>8, <2>9 DEF T!TabNext, AskedOf
<1>5. CASE Begun(req'[r]) /\ ~Busy(r) /\ req'[r].kind # "order"
  <2>1. req[r].kind = "none"
    BY <1>1, <1>5 DEF Busy, IInv, RequestOK, FieldsOK, Path, Request, Kinds
  <2>2. AskOf(req'[r]) = AskOf(req[r])
    BY <1>5, <2>1 DEF AskOf
  <2> QED BY <1>1, <1>3, <2>2
<1>6. CASE Drop(r)
  <2>1. CASE req[r].kind = "order"
    <3>1. T!Withdraw(r)
      BY <1>1, <1>2, <1>6, <2>1, EndsAsking
         DEF T!Withdraw, TabOf, Open, EntriesOf, SparedOf, HouseOf, AskedOf
    <3> QED BY <3>1 DEF T!TabNext
  <2>2. CASE req[r].kind # "order"
    BY <1>1, <1>3, <1>6, <2>2, EndsAsking
  <2> QED BY <2>1, <2>2
<1>7. CASE /\ req'[r].kind = req[r].kind
           /\ req[r].kind # "cancel" =>
                /\ req'[r].who = req[r].who /\ req'[r].amt = req[r].amt
                /\ req'[r].enforce = req[r].enforce /\ req'[r].limit = req[r].limit
  <2>1. AskOf(req'[r]) = AskOf(req[r])
    BY <1>7 DEF AskOf
  <2> QED BY <1>1, <1>3, <2>1
<1> QED BY <1>1, <1>4, <1>5, <1>6, <1>7, StepShapes

\* The four commits.
LEMMA CommitSteps ==
  ASSUME TInv, IInv', "anonymize" \notin Ops \/ "delete" \notin Ops, NEW r \in Reqs,
         CommitBooking(r) \/ CommitAnonymization(r) \/ CommitDelete(r)
  PROVE  T!TabNext
<1>1. IInv /\ MInv /\ Bounded(r) /\ req[r] \in Request /\ Drop(r)
  BY DEF TInv, MInv, IInv, TypeOK, CommitBooking, CommitAnonymization, CommitDelete
<1>2. /\ req[r].kind = "order" =>
           AskedOf[r] # T!Nothing /\ AskedOf' = [AskedOf EXCEPT ![r] = T!Nothing]
      /\ req[r].kind # "order" => AskedOf' = AskedOf
  BY <1>1, EndsAsking
<1>3. CASE CommitBooking(r) /\ req[r].kind # "cancel"
  <2>1. PICK e \in TxIds, u \in Users, a \in Int :
          /\ u = req[r].who /\ a = req[r].amt
          /\ u \in Open /\ EntriesOf[e] = T!Blank
          /\ EntriesOf' = [EntriesOf EXCEPT ![e] = [st |-> "booked", owner |-> u, amt |-> a]]
          /\ TabOf' = [TabOf EXCEPT ![u] = @ + a] /\ Open' = Open
          /\ req[r].kind = "order" /\ req[r].enforce => TabOf[u] > -req[r].limit
    BY <1>3, BookingEnters
  <2>2. SparedOf' = SparedOf /\ HouseOf' = HouseOf
    BY <1>1, <1>3, FloorsOnCommit
  <2>3. T!Enter(e, u, a)
    BY <2>1, <2>2 DEF T!Enter, TabOf, Open, EntriesOf, SparedOf, HouseOf
  <2>4. CASE req[r].kind = "order"
    <3>1. AskedOf[r] = [who |-> u, amt |-> a, on |-> req[r].enforce, at |-> req[r].limit]
      BY <2>1, <2>4 DEF AskedOf, AskOf
    <3>2. AskedOf[r].who = u /\ AskedOf[r].amt = a /\ AskedOf[r].on = req[r].enforce
          /\ AskedOf[r].at = req[r].limit
      BY <3>1
    <3>3. AskedOf[r].on => TabOf[AskedOf[r].who] > -AskedOf[r].at
      BY <2>1, <2>4, <3>2
    <3>4. T!Enter(e, AskedOf[r].who, AskedOf[r].amt)
      BY <2>3, <3>2
    <3>5. T!Charge(r, e)
      BY <1>2, <2>4, <3>3, <3>4 DEF T!Charge, AskedOf, TabOf
    <3> QED BY <3>5 DEF T!TabNext
  <2>5. CASE req[r].kind # "order"
    <3>1. a >= 0
      BY <1>1, <1>3, <2>1, <2>5 DEF CommitBooking, Bounded
    <3>2. EntriesOf'[e].amt = a
      <4>1. e \in DOMAIN EntriesOf
        BY DEF EntriesOf
      <4> QED BY <2>1, <4>1
    <3>3. T!PayIn(e, u, EntriesOf'[e].amt)
      BY <1>2, <2>3, <2>5, <3>1, <3>2 DEF T!PayIn, AskedOf
    <3> QED BY <3>3 DEF T!TabNext, EntriesOf
  <2> QED BY <2>4, <2>5
<1>4. CASE CommitBooking(r) /\ req[r].kind = "cancel"
  <2>1. SparedOf' = SparedOf /\ HouseOf' = HouseOf
    BY <1>1, <1>4, FloorsOnCommit
  <2>2. PICK e \in TxIds :
           /\ EntriesOf[e].st = "booked" /\ EntriesOf[e].owner \in Open
           /\ EntriesOf' = [EntriesOf EXCEPT ![e].st = "reversed"]
           /\ TabOf' = [TabOf EXCEPT ![EntriesOf[e].owner] = @ - EntriesOf[e].amt] /\ Open' = Open
    BY <1>4, CancelReverses
  <2>3. T!Reverse(e)
    BY <1>2, <1>4, <2>1, <2>2
       DEF T!Reverse, TabOf, Open, EntriesOf, SparedOf, HouseOf, AskedOf
  <2> QED BY <2>3 DEF T!TabNext
<1>5. CASE CommitAnonymization(r)
  <2>1. SparedOf' = SparedOf /\ HouseOf' = HouseOf /\ AskedOf' = AskedOf
    BY <1>1, <1>2, <1>5, FloorsOnCommit DEF CommitAnonymization
  <2>2. T!Forget
    BY <1>1, <1>5, <2>1, RunOnlyForgets
       DEF T!Forget, TabOf, Open, EntriesOf, SparedOf, HouseOf, AskedOf
  <2> QED BY <2>2 DEF T!TabNext
<1>6. CASE CommitDelete(r)
  <2>1. PICK u \in Users :
           /\ u = req[r].who
           /\ u \in Open /\ TabOf[u] = 0 /\ \A e \in TxIds : EntriesOf[e].owner # u
           /\ Open' = Open \ {u} /\ TabOf' = TabOf /\ EntriesOf' = EntriesOf
    BY <1>1, <1>6, DeletionCloses
  <2>2. SparedOf' = SparedOf \ {u} /\ HouseOf' = HouseOf /\ AskedOf' = AskedOf
    BY <1>1, <1>2, <1>6, <2>1, FloorsOnDelete DEF CommitDelete
  <2>3. T!Close(u)
    BY <2>1, <2>2 DEF T!Close, TabOf, Open, EntriesOf, SparedOf, HouseOf, AskedOf
  <2> QED BY <2>3 DEF T!TabNext
<1> QED BY <1>3, <1>4, <1>5, <1>6

\* Every step of the ledger is a step of the tab, or leaves it alone.
LEMMA TabSteps ==
  ASSUME TInv, [Next]_vars, "anonymize" \notin Ops \/ "delete" \notin Ops
  PROVE  [T!TabNext]_(T!tvars)
<1>1. IInv'
  BY StepOK DEF TInv, MInv
<1>2. CASE UNCHANGED vars
  <2>1. /\ TabOf' = TabOf /\ Open' = Open /\ EntriesOf' = EntriesOf
        /\ SparedOf' = SparedOf /\ HouseOf' = HouseOf /\ AskedOf' = AskedOf
    BY <1>2, TabSame DEF vars, AskedOf
  <2> QED BY <2>1 DEF T!tvars, TabOf, Open, EntriesOf, SparedOf, HouseOf, AskedOf
<1>3. CASE Environment
  BY <1>1, <1>3, EnvironmentSteps
<1>4. ASSUME NEW r \in Reqs, Start(r) \/ Proceed(r) \/ Abort(r) PROVE [T!TabNext]_(T!tvars)
  <2>1. CASE CommitBooking(r) \/ CommitAnonymization(r) \/ CommitDelete(r)
    BY <1>1, <2>1, CommitSteps
  <2>2. CASE ~(CommitBooking(r) \/ CommitAnonymization(r) \/ CommitDelete(r))
    <3>1. UNCHANGED Tables
      BY <1>4, <2>2, StartReads, OnlyCommitsWrite
    <3> QED BY <1>1, <1>4, <3>1, QuietSteps
  <2> QED BY <2>1, <2>2
<1> QED BY <1>2, <1>3, <1>4 DEF Next

LEMMA TabBegins ==
  ASSUME TInv, Init
  PROVE  T!TabInit
<1>1. IInv /\ txs \in [TxIds -> TxRow] /\ users \in [Users -> UserRow]
  BY DEF TInv, MInv, IInv, TypeOK
<1>2. \A u \in Users : Balance(u) \in Int
  <2> TAKE u \in Users
  <2>1. RowsOf(u) \in SUBSET TxIds /\ users[u].carry \in Int
    BY <1>1, ConstantsOK DEF RowsOf, UserRow
  <2>2. SumOf(RowsOf(u)) \in Int
    BY <1>1, <2>1, SumWorth, WorthFacts DEF SumOf
  <2> QED BY <2>1, <2>2 DEF Balance
<1>3. \A t \in TxIds : EntryOf(t) \in [st : {"none", "booked", "reversed"},
                                        owner : Users \cup {Nobody}, amt : Int]
  BY <1>1 DEF EntryOf, TxRow
<1>4. HouseOf \in [on : BOOLEAN, at : Int]
  BY <1>1, ConstantsOK DEF HouseOf, IInv, TypeOK, SettingsRow
<1>5. \A r \in Reqs : AskOf(req[r]) = T!Nothing
  BY DEF Init, Idle, AskOf, T!Nothing
<1> QED BY <1>2, <1>3, <1>4, <1>5 DEF T!TabInit, HouseOf

\* The ledger is a tab: an order is charged only when the balance at its commit
\* is above the limit that was in force, for an account that is not exempt, when
\* it began; a cancellation gives back what was charged and only once, anonymizing
\* moves no balance and an account is deleted with nothing on its tab
\* (order.go:126-156, transaction.go:176-220, anonymization.go:43-71,
\* delete_user.go:67-82), for any number of accounts, bookings and requests, and
\* whatever is saved as settings meanwhile.  Runs and deletions do not share a
\* history, as in MoneyCorrect.
THEOREM TabCorrect ==
  ASSUME "anonymize" \notin Ops \/ "delete" \notin Ops
  PROVE  Spec => ImplementsTab
<1>1. Init => TInv
  BY TabStart
<1>2. TInv /\ [Next]_vars => TInv'
  BY TabKept
<1>3. TInv /\ Init => T!TabInit
  BY TabBegins
<1>4. TInv /\ [Next]_vars => [T!TabNext]_(T!tvars)
  BY TabSteps
<1> QED BY <1>1, <1>2, <1>3, <1>4, PTL DEF Spec, ImplementsTab, T!TabSpec
=============================================================================
