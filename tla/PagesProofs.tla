---------------------------- MODULE PagesProofs ----------------------------
(* Proofs about the paginated lists: the type invariant, that the admin's  *)
(* view never counts an amount twice, and what a reader who goes from page *)
(* to page sees, misses and sees twice.                                    *)
EXTENDS PagesInv, FiniteSetTheorems, FunctionTheorems, WellFoundedInduction, TLAPS

-----------------------------------------------------------------------------
(* Numbers.                                                                *)

LEMMA Times ==
  ASSUME NEW p \in Nat, NEW a \in Nat, NEW b \in Nat, a <= b
  PROVE  p * a <= p * b /\ a * p <= b * p /\ p * a \in Nat /\ a * p \in Nat
  OBVIOUS

LEMMA OnePageMore ==
  ASSUME NEW p \in Nat, NEW a \in Nat
  PROVE  (p + 1) * a = p * a + a /\ (p + 1 - 1) * a = p * a
  OBVIOUS

\* As many pages as it takes.
LEMMA PagesCover ==
  ASSUME NEW total \in Nat, NEW limit \in Nat \ {0}
  PROVE  /\ TotalPages(total, limit) \in Nat
         /\ TotalPages(total, limit) * limit >= total
         /\ \A p \in Nat : p < TotalPages(total, limit) => p * limit < total
<1> DEFINE q == TotalPages(total, limit)
<1>1. q \in Int /\ q * limit <= total + limit - 1 /\ total + limit - 1 < q * limit + limit
  BY DEF TotalPages
<1>2. q \in Nat
  <2> HIDE DEF q
  <2>1. CASE q < 0
    <3>1. q * limit <= -1 * limit
      BY <1>1, <2>1
    <3> QED BY <1>1, <3>1
  <2> QED BY <1>1, <2>1
<1>3. ASSUME NEW p \in Nat, p < q PROVE p * limit < total
  <2> HIDE DEF q
  <2>1. (p + 1) * limit <= q * limit
    BY <1>2, <1>3, Times
  <2>2. (p + 1) * limit = p * limit + limit /\ p * limit \in Nat
    BY OnePageMore, Times
  <2>3. q * limit \in Int
    BY <1>2
  <2> QED BY <1>1, <2>1, <2>2, <2>3
<1>4. q * limit >= total
  <2> HIDE DEF q
  <2>1. q * limit \in Int
    BY <1>2
  <2> QED BY <1>1, <2>1
<1> QED BY <1>2, <1>3, <1>4

-----------------------------------------------------------------------------
(* Places in a list.                                                       *)

LEMMA Bounds ==
  /\ Keys \subseteq Nat \ {0} /\ IsFiniteSet(Keys) /\ NoKey \notin Keys /\ IsFiniteSet(Entry)
  /\ \A S \in SUBSET Keys : IsFiniteSet(S) /\ Cardinality(S) \in Nat
<1>1. Keys \subseteq Nat \ {0} /\ NoKey \notin Keys
  BY PagesConstants DEF Keys, NoKey
<1>2. IsFiniteSet(Keys)
  BY PagesConstants, FS_Interval DEF Keys
<1>3. IsFiniteSet(Entry)
  BY <1>2, PagesConstants, FS_Union DEF Entry
<1>4. \A S \in SUBSET Keys : IsFiniteSet(S) /\ Cardinality(S) \in Nat
  BY <1>2, FS_Subset, FS_CardinalityType
<1> QED BY <1>1, <1>2, <1>3, <1>4

LEMMA RankFacts ==
  ASSUME NEW S \in SUBSET Keys
  PROVE  /\ \A k : Rank(S, k) \in Nat /\ Rank(S, k) <= Cardinality(S)
         /\ \A k \in S : Rank(S, k) > 0
         /\ \A k, s \in Keys : Rank(S, s) < Rank(S, k) => k < s
<1> DEFINE From(k) == {j \in S : j >= k}
<1>1. IsFiniteSet(S) /\ \A k : From(k) \in SUBSET S
  BY Bounds
<1>2. \A k : IsFiniteSet(From(k)) /\ Rank(S, k) = Cardinality(From(k))
             /\ Rank(S, k) \in Nat /\ Rank(S, k) <= Cardinality(S)
  BY <1>1, FS_Subset, FS_CardinalityType DEF Rank
<1>3. ASSUME NEW k \in S PROVE Rank(S, k) > 0
  <2>1. k \in From(k)
    BY <1>3, Bounds
  <2>2. Cardinality(From(k)) # 0
    BY <1>2, <2>1, FS_EmptySet
  <2> QED BY <1>2, <2>2
<1>4. ASSUME NEW k \in Keys, NEW s \in Keys, Rank(S, s) < Rank(S, k), ~(k < s) PROVE FALSE
  <2>1. From(k) \in SUBSET From(s)
    <3>1. s <= k /\ s \in Nat /\ k \in Nat /\ S \subseteq Nat
      BY <1>4, Bounds
    <3>2. \A j \in S : j >= k => j >= s
      BY <3>1
    <3> QED BY <3>2
  <2>2. Cardinality(From(k)) <= Cardinality(From(s))
    BY <1>2, <2>1, FS_Subset
  <2> QED BY <1>2, <1>4, <2>2
<1> QED BY <1>2, <1>3, <1>4

\* A list that gains entries, or loses some below k only, moves k down.
LEMMA RankGrows ==
  ASSUME NEW S \in SUBSET Keys, NEW T \in SUBSET Keys, NEW k \in Keys,
         \A j \in S : j >= k => j \in T
  PROVE  Rank(S, k) <= Rank(T, k)
<1> DEFINE A == {j \in S : j >= k}
           B == {j \in T : j >= k}
<1>1. A \in SUBSET B /\ B \in SUBSET Keys
  OBVIOUS
<1>2. IsFiniteSet(B)
  BY <1>1, Bounds
<1>3. Cardinality(A) <= Cardinality(B)
  BY <1>1, <1>2, FS_Subset
<1> QED BY <1>3 DEF Rank

LEMMA Greatest ==
  ASSUME NEW S \in SUBSET Keys, S # {}
  PROVE  \E t \in S : \A s \in S : s <= t
<1> DEFINE D == {MaxKey - k : k \in S}
<1>1. D \subseteq Nat /\ D # {}
  BY PagesConstants DEF Keys
<1>2. PICK d \in D : \A e \in D : <<e, d>> \notin OpToRel(<, Nat)
  BY <1>1, NatLessThanWellFounded, WFMin
<1>3. PICK t \in S : d = MaxKey - t
  OBVIOUS
<1>4. ASSUME NEW s \in S PROVE s <= t
  <2>1. MaxKey - s \in D
    OBVIOUS
  <2>2. ~(MaxKey - s < d)
    BY <1>1, <1>2, <2>1 DEF OpToRel
  <2> QED BY <1>3, <2>2, PagesConstants DEF Keys
<1> QED BY <1>4

\* No more entries are below the first m than there are entries beyond m.
LEMMA FewBelow ==
  ASSUME NEW S \in SUBSET Keys, NEW m \in Nat
  PROVE  \/ {k \in S : Rank(S, k) > m} = {}
         \/ Cardinality({k \in S : Rank(S, k) > m}) <= Cardinality(S) - m
<1> DEFINE T == {k \in S : Rank(S, k) > m}
<1> SUFFICES ASSUME T # {} PROVE Cardinality(T) <= Cardinality(S) - m
  OBVIOUS
<1>1. T \in SUBSET Keys /\ T \in SUBSET S
  OBVIOUS
<1>2. PICK t \in T : \A s \in T : s <= t
  <2> HIDE DEF T
  <2> QED BY <1>1, Greatest
<1> DEFINE U == S \ T
           F == {j \in S : j >= t}
<1>3. F \in SUBSET (U \cup {t})
  <2>1. \A j \in F : j \in T => j = t
    BY <1>1, <1>2, Bounds
  <2> QED BY <2>1
<1>4. Rank(S, t) > m /\ Rank(S, t) = Cardinality(F)
  BY DEF Rank
<1>5. t \in S /\ t \notin U /\ U \in SUBSET S /\ IsFiniteSet(S) /\ IsFiniteSet(T)
  BY <1>1, Bounds
<1> HIDE DEF T, F
<1>6. IsFiniteSet(U) /\ Cardinality(U) \in Nat /\ Cardinality(T) \in Nat /\ Cardinality(S) \in Nat
  BY <1>5, FS_Subset, FS_CardinalityType
<1>7. Cardinality(U \cup {t}) = Cardinality(U) + 1 /\ IsFiniteSet(U \cup {t})
  BY <1>5, <1>6, FS_AddElement
<1>8. Cardinality(F) <= Cardinality(U) + 1 /\ Cardinality(F) \in Nat
  BY <1>3, <1>7, FS_Subset, FS_CardinalityType
<1>9. Cardinality(U) = Cardinality(S) - Cardinality(T)
  <2>1. Cardinality(S \ T) = Cardinality(S) - Cardinality(S \cap T)
    BY <1>5, FS_Difference
  <2>2. S \cap T = T
    BY <1>1
  <2> QED BY <2>1, <2>2
<1> QED BY <1>4, <1>6, <1>8, <1>9

-----------------------------------------------------------------------------
(* What others do.                                                         *)

Shape == TypeOK /\ RequestOK /\ ScreenOK /\ CarriedOK /\ WalkOK

LEMMA NextKeyFree ==
  ASSUME Unused # {}
  PROVE  NextKey \in Keys /\ row[NextKey].st = "free"
<1>1. Unused \subseteq Nat /\ Unused \subseteq Keys
  BY Bounds DEF Unused
<1>2. PICK k \in Unused : \A j \in Unused : <<j, k>> \notin OpToRel(<, Nat)
  BY <1>1, NatLessThanWellFounded, WFMin
<1>3. ASSUME NEW j \in Unused PROVE k <= j
  <2>1. ~(j < k)
    BY <1>1, <1>2 DEF OpToRel
  <2> QED BY <1>1, <2>1
<1>4. NextKey \in Unused
  BY <1>3 DEF NextKey
<1> QED BY <1>1, <1>4 DEF Unused

\* A new entry: the booking k of an account the reader looks at is committed.
Appears(k) ==
  /\ k \in Keys /\ ~Settled(k) /\ row'[k].st = "booked" /\ row'[k].user = row[k].user
  /\ \A j \in Keys : j # k => row'[j] = row[j]
  /\ walk'.late = IF /\ walk.on /\ req.pc = "list" /\ req.list \in {"all", "member", "user"}
                     /\ (req.list # "all" => row[k].user = req.user)
                  THEN walk.late + 1 ELSE walk.late

\* What a step of the others may do to the lists.
Drift ==
  /\ req' = req /\ screen' = screen
  /\ row' \in [Keys -> Row] /\ carried' \in [Users -> SUBSET Keys]
  /\ cutoff' \in 1..MaxKey + 1 /\ cutoff <= cutoff' /\ size' \in Sizes
  /\ walk' \in Walk /\ walk'.on = walk.on /\ walk'.known = walk.known /\ walk'.seen = walk.seen
  /\ walk'.again = walk.again /\ walk'.limit = walk.limit /\ walk'.grew = walk.grew
  /\ \A k \in Keys : Settled(k) => Settled(k)'
  /\ \A k \in Keys : row[k].st = "anonymized" => row'[k].st = "anonymized"
  /\ \A k \in Keys : row[k].st = "booked" =>
       \/ row'[k] = row[k]
       \/ /\ row'[k].st = "anonymized" /\ k < cutoff'
          /\ row[k].user \in Users => k \in carried'[row[k].user]
  /\ \A u \in Users : carried[u] \subseteq carried'[u]
  /\ \A u \in Users : \A k \in carried'[u] : row'[k].st = "anonymized"
  /\ \/ \E k : Appears(k)
     \/ walk'.late = walk.late /\ \A k \in Keys : Settled(k)' => Settled(k)
  /\ walk.on /\ walk'.quiet =>
       /\ walk.quiet /\ size' = size /\ carried' = carried
       /\ \A k \in Keys : Settled(k)' <=> Settled(k)
       /\ \A k \in Keys : Settled(k) => row'[k] = row[k]

LEMMA BeginDrifts ==
  ASSUME Shape, NEW u \in Users, NEW c \in Keys \cup {NoKey}, BeginBooking(u, c)
  PROVE  Drift
<1> DEFINE new == [st |-> "open", user |-> u, cancels |-> c]
<1>1. PICK n : n = NextKey
  OBVIOUS
<1>2. n \in Keys /\ row[n].st = "free" /\ row' = [row EXCEPT ![n] = new]
  BY <1>1, NextKeyFree DEF BeginBooking
<1>3. new \in Row /\ row \in [Keys -> Row]
  BY DEF Row, Shape, TypeOK
<1>4. row' \in [Keys -> Row] /\ row'[n].st = "open" /\ \A k \in Keys : k # n => row'[k] = row[k]
  BY <1>2, <1>3
<1>5. UNCHANGED <<carried, cutoff, size, req, screen, walk>>
  BY DEF BeginBooking
<1> QED BY <1>2, <1>4, <1>5, PagesConstants DEF Drift, Settled, Shape, TypeOK, CarriedOK, Keys

LEMMA RollbackDrifts ==
  ASSUME Shape, NEW n \in Keys, RollbackBooking(n)
  PROVE  Drift
<1> DEFINE new == [Free EXCEPT !.st = "gone"]
<1>1. row[n].st = "open" /\ row' = [row EXCEPT ![n] = new]
  BY DEF RollbackBooking
<1>2. new \in Row /\ row \in [Keys -> Row] /\ new.st = "gone"
  BY DEF Row, Free, Shape, TypeOK
<1>3. row' \in [Keys -> Row] /\ row'[n].st = "gone" /\ \A k \in Keys : k # n => row'[k] = row[k]
  BY <1>1, <1>2
<1>4. UNCHANGED <<carried, cutoff, size, req, screen, walk>>
  BY DEF RollbackBooking
<1> QED BY <1>1, <1>3, <1>4, PagesConstants DEF Drift, Settled, Shape, TypeOK, CarriedOK, Keys

\* The walk when others have changed something.
LEMMA Disturbs ==
  ASSUME Shape
  PROVE  /\ Disturbed \in Walk /\ (walk.on => ~Disturbed.quiet)
         /\ Disturbed.on = walk.on /\ Disturbed.known = walk.known /\ Disturbed.seen = walk.seen
         /\ Disturbed.again = walk.again /\ Disturbed.limit = walk.limit
         /\ Disturbed.grew = walk.grew /\ Disturbed.late = walk.late
<1>1. walk \in Walk
  BY DEF Shape, TypeOK
<1> QED BY <1>1 DEF Disturbed, Walk

LEMMA CommitDrifts ==
  ASSUME Shape, NEW n \in Keys, CommitBooking(n)
  PROVE  Drift
<1> DEFINE counted == /\ walk.on /\ req.pc = "list" /\ req.list \in {"all", "member", "user"}
                      /\ (req.list # "all" => row[n].user = req.user)
           late == IF counted THEN walk.late + 1 ELSE walk.late
<1>1. row[n].st = "open" /\ row' = [row EXCEPT ![n].st = "booked"] /\ row \in [Keys -> Row]
  BY DEF CommitBooking, Shape, TypeOK
<1>2. row' \in [Keys -> Row] /\ row'[n].st = "booked" /\ row'[n].user = row[n].user
      /\ \A k \in Keys : k # n => row'[k] = row[k]
  BY <1>1 DEF Row
<1>3. UNCHANGED <<carried, cutoff, size, req, screen>>
  BY DEF CommitBooking
<1>4. Disturbed \in Walk /\ late \in Nat
  BY Disturbs DEF Walk, Shape, TypeOK, WalkOK
<1>5. walk' = [Disturbed EXCEPT !.late = late]
  <2>1. walk' = [Disturbed EXCEPT !.late = IF counted THEN Disturbed.late + 1 ELSE Disturbed.late]
    BY DEF CommitBooking
  <2> QED BY <2>1, Disturbs
<1> HIDE DEF late
<1>6. walk' \in Walk /\ walk'.late = late /\ walk'.quiet = Disturbed.quiet
      /\ walk'.on = walk.on /\ walk'.known = walk.known /\ walk'.seen = walk.seen
      /\ walk'.again = walk.again /\ walk'.limit = walk.limit /\ walk'.grew = walk.grew
  BY <1>4, <1>5, Disturbs DEF Walk
<1>7. Appears(n)
  BY <1>1, <1>2, <1>6 DEF Appears, Settled, late
<1>8. /\ \A k \in Keys : Settled(k) => Settled(k)'
      /\ \A k \in Keys : row[k].st = "anonymized" => row'[k].st = "anonymized"
      /\ \A k \in Keys : row[k].st = "booked" => row'[k] = row[k]
  BY <1>1, <1>2 DEF Settled
<1>9. \A u \in Users : \A k \in carried'[u] : row'[k].st = "anonymized"
  BY <1>3, <1>8 DEF Shape, CarriedOK, TypeOK
<1> QED BY <1>2, <1>3, <1>6, <1>7, <1>8, <1>9, Disturbs, PagesConstants DEF Drift, Shape, TypeOK

LEMMA AnonymizeDrifts ==
  ASSUME Shape, NEW c \in 2..MaxKey + 1, AnonymizeTransactions(c)
  PROVE  Drift
<1>1. row \in [Keys -> Row] /\ carried \in [Users -> SUBSET Keys] /\ cutoff \in 1..MaxKey + 1
      /\ c \in 1..MaxKey + 1
  BY PagesConstants DEF Shape, TypeOK
<1>2. /\ c >= cutoff /\ cutoff' = c /\ walk' = Disturbed /\ UNCHANGED <<size, req, screen>>
      /\ row' = [k \in Keys |-> IF k \in Due(c)
                                THEN [row[k] EXCEPT !.st = "anonymized", !.user = Nobody] ELSE row[k]]
      /\ carried' = [u \in Users |-> carried[u] \cup (Due(c) \cap Owned(u))]
  BY DEF AnonymizeTransactions
<1>3. Due(c) \subseteq Keys /\ \A k \in Due(c) : row[k].st = "booked" /\ k < c
  BY DEF Due
<1>4. /\ row' \in [Keys -> Row] /\ \A k \in Due(c) : row'[k].st = "anonymized"
      /\ \A k \in Keys \ Due(c) : row'[k] = row[k]
  BY <1>1, <1>2, <1>3 DEF Row
<1>5. carried' \in [Users -> SUBSET Keys]
      /\ \A u \in Users : carried'[u] = carried[u] \cup (Due(c) \cap Owned(u))
  BY <1>1, <1>2, <1>3
<1>6. /\ \A k \in Keys : Settled(k) <=> Settled(k)'
      /\ \A k \in Keys : row[k].st = "anonymized" => row'[k].st = "anonymized"
  BY <1>3, <1>4 DEF Settled
<1>7. \A k \in Keys : row[k].st = "booked" =>
       \/ row'[k] = row[k]
       \/ /\ row'[k].st = "anonymized" /\ k < cutoff'
          /\ row[k].user \in Users => k \in carried'[row[k].user]
  BY <1>2, <1>3, <1>4, <1>5 DEF Owned
<1>8. \A u \in Users : \A k \in carried'[u] : row'[k].st = "anonymized"
  BY <1>1, <1>4, <1>5, <1>6 DEF Shape, CarriedOK
<1> QED BY <1>1, <1>2, <1>4, <1>5, <1>6, <1>7, <1>8, Disturbs DEF Drift, Shape, TypeOK

LEMMA SizeDrifts ==
  ASSUME Shape, NEW s \in Sizes, SetPageSize(s)
  PROVE  Drift
<1>1. size' = s /\ walk' = Disturbed /\ UNCHANGED <<row, carried, cutoff, req, screen>>
  BY DEF SetPageSize
<1> QED BY <1>1, Disturbs, PagesConstants DEF Drift, Shape, TypeOK, CarriedOK, Settled

LEMMA OthersDrift ==
  ASSUME Shape, Others
  PROVE  Drift
BY BeginDrifts, CommitDrifts, RollbackDrifts, AnonymizeDrifts, SizeDrifts DEF Others

\* The entries under a drift: what was an entry of the reader's list and still
\* is one stays where it is or moves down, unless it is older than the cutoff.
LEMMA EntriesDrift ==
  ASSUME Shape, Drift, TheList # "users", TheList # "none"
  PROVE  /\ TheList' = TheList /\ TheUser' = TheUser /\ Passed' = Passed /\ Busy' = Busy
         /\ Current \in SUBSET Keys /\ Current' \in SUBSET Keys
         /\ \A k \in Current : TheList = "all" \/ k >= cutoff' => k \in Current'
         /\ \A k \in Current' : Settled(k) => k \in Current
         /\ \A k \in Current : Settled(k)
         /\ \A k \in Current' : Settled(k)'
<1>1. TheList' = TheList /\ TheUser' = TheUser /\ Passed' = Passed /\ Busy' = Busy
  BY DEF Drift, TheList, TheUser, Passed, Busy
<1>2. TheList \in {"member", "user", "all"}
  BY PagesConstants DEF Shape, RequestOK, ScreenOK, TheList
<1>3. CASE TheList = "all"
  <2>1. Current = {k \in Keys : Settled(k)} /\ Current' = {k \in Keys : Settled(k)'}
    BY <1>1, <1>3 DEF Current, Entries, Settled
  <2> QED BY <1>1, <2>1 DEF Drift
<1>4. CASE TheList # "all"
  <2>1. PICK u : u = TheUser
    OBVIOUS
  <2>2. Current = {k \in Keys : row[k].st = "booked" /\ row[k].user = u}
        /\ Current' = {k \in Keys : row'[k].st = "booked" /\ row'[k].user = u}
    BY <1>1, <1>2, <1>4, <2>1 DEF Current, Entries, Owned
  <2> QED BY <1>1, <1>4, <2>2, Bounds DEF Drift, Settled, Shape, TypeOK
<1> QED BY <1>1, <1>3, <1>4

LEMMA WalkListed ==
  ASSUME Shape, walk.on
  PROVE  TheList # "none" /\ TheList \in Lists
BY PagesConstants DEF Shape, WalkOK, RequestOK, ScreenOK, TheList

LEMMA DriftShape ==
  ASSUME Shape, Drift
  PROVE  Shape'
<1>1. TypeOK'
  BY DEF Shape, TypeOK, Drift
<1>2. ASSUME NEW u PROVE OnceOf(u) \subseteq OnceOf(u)'
  BY DEF Shape, TypeOK, Drift, OnceOf, Owned
<1>3. Busy' = Busy /\ req' = req /\ screen' = screen
  BY DEF Drift, Busy
<1>4. RequestOK'
  BY <1>2, <1>3 DEF Shape, RequestOK
<1>5. ScreenOK'
  BY <1>2, <1>3 DEF Shape, ScreenOK
<1>6. CarriedOK'
  BY <1>3 DEF Shape, CarriedOK, TypeOK, Reading, Drift
<1>7. WalkOK'
  <2>1. walk'.on = walk.on /\ walk'.known = walk.known /\ walk'.seen = walk.seen
        /\ walk'.limit = walk.limit /\ walk' \in Walk
    BY DEF Drift
  <2>2. TheList' = TheList /\ TheUser' = TheUser
    BY <1>3 DEF TheList, TheUser, Busy
  <2>3. ASSUME walk.on, TheList # "users", NEW k \in walk.known PROVE k \in Keys /\ Settled(k)'
    BY <2>3 DEF Shape, WalkOK, Drift
  <2>4. ASSUME walk.on, TheList \in {"member", "user"}
        PROVE  walk.known \subseteq Owned(TheUser)' \cup carried'[TheUser]
    <3>1. PICK u : u = TheUser
      OBVIOUS
    <3>2. u \in Users
      <4>1. TheUser \in Watched
        BY <2>4, WalkListed DEF Shape, RequestOK, ScreenOK, TheList, TheUser, Subjects
      <4> QED BY <3>1, <4>1, PagesConstants
    <3>3. walk.known \subseteq Owned(u) \cup carried[u]
      BY <2>4, <3>1 DEF Shape, WalkOK
    <3>4. Owned(u) \subseteq Owned(u)' \cup carried'[u] /\ carried[u] \subseteq carried'[u]
      BY <3>2 DEF Drift, Owned
    <3>5. walk.known \subseteq Owned(u)' \cup carried'[u]
      BY <3>3, <3>4
    <3> QED BY <2>2, <3>1, <3>5
  <2>5. walk'.limit \in Sizes \cup {0} /\ walk'.late \in Nat
    BY <2>1 DEF Walk
  <2>6. walk.on =>
       /\ walk.seen # {} => screen.list # "none"
       /\ ~Busy => screen.list # "none"
       /\ walk.limit = 0 => Busy /\ req.page = 1 /\ req.pc \in {"target", "settings"} /\ req.clamp
       /\ req.pc \in {"count", "list", "carryover"} \/ (Busy /\ ~req.clamp) => req.limit = walk.limit
       /\ TheList = "users" => walk.known = Users
    BY DEF Shape, WalkOK
  <2> QED BY <1>3, <2>1, <2>2, <2>3, <2>4, <2>5, <2>6 DEF WalkOK
<1> QED BY <1>1, <1>4, <1>5, <1>6, <1>7 DEF Shape

\* What a drift leaves behind had been left behind before.
LEMMA BehindDrift ==
  ASSUME Shape, Drift, walk.on, TheList # "users"
  PROVE  /\ Behind' \subseteq Behind
         /\ \A k \in Behind' : Rank(Current, k) <= Rank(Current', k) /\ Rank(Current, k) \in Nat
                               /\ Rank(Current', k) \in Nat
<1>1. TheList # "none"
  BY WalkListed
<1>2. \A k \in walk.known : Settled(k)
  BY DEF Shape, WalkOK
<1>3. /\ TheList' = TheList
      /\ Current \in SUBSET Keys /\ Current' \in SUBSET Keys
      /\ \A k \in Current : TheList = "all" \/ k >= cutoff' => k \in Current'
      /\ \A k \in Current' : Settled(k) => k \in Current
  BY <1>1, EntriesDrift
<1>4. cutoff \in Nat /\ cutoff' \in Nat /\ cutoff <= cutoff' /\ walk'.known = walk.known
      /\ walk'.seen = walk.seen
  BY PagesConstants DEF Shape, TypeOK, Drift
<1>5. Behind' = {k \in walk.known \cap Current' :
                   (TheList = "all" \/ k >= cutoff') /\ k \notin walk.seen}
  BY <1>3, <1>4 DEF Behind
<1>6. Behind' \subseteq Behind /\ Behind' \subseteq Keys
  <2>1. ASSUME NEW k \in Behind' PROVE k \in Behind /\ k \in Keys
    <3>1. k \in walk.known /\ k \in Current' /\ (TheList = "all" \/ k >= cutoff') /\ k \notin walk.seen
      BY <1>5, <2>1
    <3>2. k \in Keys /\ k \in Nat /\ k \in Current
      BY <1>2, <1>3, <3>1, Bounds
    <3>3. TheList = "all" \/ k >= cutoff
      BY <1>4, <3>1, <3>2
    <3> QED BY <3>1, <3>2, <3>3 DEF Behind
  <2> QED BY <2>1
<1>7. ASSUME NEW k \in Behind'
      PROVE  Rank(Current, k) <= Rank(Current', k) /\ Rank(Current, k) \in Nat /\ Rank(Current', k) \in Nat
  <2>1. k \in Keys /\ (TheList = "all" \/ k >= cutoff')
    BY <1>5, <1>6
  <2>2. \A j \in Current : j >= k => j \in Current'
    BY <1>3, <1>4, <2>1, Bounds
  <2>3. PICK S, Q : S = Current /\ Q = Current'
    OBVIOUS
  <2>4. Rank(S, k) <= Rank(Q, k) /\ Rank(S, k) \in Nat /\ Rank(Q, k) \in Nat
    BY <1>3, <2>1, <2>2, <2>3, RankGrows, RankFacts
  <2> QED BY <2>3, <2>4
<1> QED BY <1>6, <1>7

\* The numbers of pages and rows a walk has left behind.
LEMMA Numbers ==
  ASSUME Shape
  PROVE  /\ req.page \in Nat /\ req.limit \in Nat /\ walk.limit \in Nat /\ screen.no \in Nat
         /\ Passed \in Nat /\ req.total \in Nat /\ walk.late \in Nat
         /\ Passed * walk.limit \in Nat /\ req.page * req.limit \in Nat
         /\ (Busy => Passed = req.page - 1)
<1>1. req.page \in Nat /\ req.limit \in Nat /\ walk.limit \in Nat /\ screen.no \in Nat
      /\ req.total \in Nat /\ walk.late \in Nat
  <2>1. Sizes \cup {0} \subseteq Nat
    BY PagesConstants
  <2>2. req \in Reading /\ walk \in Walk /\ screen \in Screen
    BY DEF Shape, TypeOK
  <2>3. req.page \in Nat /\ req.total \in Nat /\ req.limit \in Nat
    BY <2>1, <2>2 DEF Reading
  <2>4. walk.late \in Nat /\ walk.limit \in Nat
    BY <2>1, <2>2 DEF Walk
  <2>5. screen.no \in Nat
    BY <2>2 DEF Screen
  <2> QED BY <2>3, <2>4, <2>5
<1>2. Passed \in Nat
  BY <1>1 DEF Passed, Shape, RequestOK
<1>3. Passed * walk.limit \in Nat /\ req.page * req.limit \in Nat
  BY <1>1, <1>2, Times
<1> QED BY <1>1, <1>2, <1>3 DEF Passed

LEMMA DriftGaps ==
  ASSUME Shape, GapsOK, Drift
  PROVE  GapsOK'
<1> SUFFICES ASSUME walk.on, ~walk.grew, TheList # "users" PROVE GapsOK'
  <2>1. walk'.on = walk.on /\ walk'.grew = walk.grew /\ TheList' = TheList
    BY DEF Drift, TheList, Busy
  <2> QED BY <2>1 DEF GapsOK
<1>1. Passed' = Passed /\ walk'.limit = walk.limit /\ walk'.seen = walk.seen /\ req' = req
  BY DEF Drift, Passed, Busy
<1>2. ASSUME NEW k \in Behind'
      PROVE  Rank(Current', k) > Passed * walk.limit /\ \A s \in walk.seen : k < s
  BY <1>2, BehindDrift, Numbers DEF GapsOK
<1>3. ASSUME req.pc = "carryover", NEW k \in Behind' \ req.rows
      PROVE  Rank(Current', k) > req.page * req.limit /\ \A s \in req.rows : k < s
  BY <1>3, BehindDrift, Numbers DEF GapsOK
<1> QED BY <1>1, <1>2, <1>3 DEF GapsOK


LEMMA DriftCount ==
  ASSUME Shape, CountOK, Drift
  PROVE  CountOK'
<1> SUFFICES ASSUME walk.on, TheList # "users" PROVE CountOK'
  <2>1. walk'.on = walk.on /\ TheList' = TheList
    BY DEF Drift, TheList, Busy
  <2> QED BY <2>1 DEF CountOK
<1>1. req' = req /\ walk'.grew = walk.grew
  BY DEF Drift
<1>2. TheList # "none" /\ TheList \in {"member", "user", "all"}
  BY WalkListed, PagesConstants
<1>3. Current \in SUBSET Keys /\ Current' \in SUBSET Keys /\ \A k \in Current' : Settled(k) => k \in Current
  BY <1>2, EntriesDrift
<1>4. ASSUME req.pc = "list" PROVE Cardinality(Current') <= req.total + walk'.late
  <2>1. Cardinality(Current) <= req.total + walk.late /\ req.list = TheList /\ req.user = TheUser
    BY <1>4 DEF CountOK, TheList, TheUser, Busy
  <2>2. PICK S, Q : S = Current /\ Q = Current'
    OBVIOUS
  <2>3. S \in SUBSET Keys /\ Q \in SUBSET Keys /\ IsFiniteSet(S) /\ IsFiniteSet(Q)
        /\ Cardinality(S) \in Nat /\ Cardinality(Q) \in Nat
    BY <1>3, <2>2, Bounds
  <2>4. ASSUME Q \subseteq S PROVE Cardinality(Q) <= Cardinality(S)
    BY <2>3, <2>4, FS_Subset
  <2>5. CASE walk'.late = walk.late /\ \A k \in Keys : Settled(k)' => Settled(k)
    <3>1. \A k \in Current' : Settled(k)'
      BY <1>2, EntriesDrift
    <3>2. Q \subseteq S
      BY <1>3, <2>2, <2>3, <2>5, <3>1
    <3>3. Cardinality(Q) <= Cardinality(S)
      BY <2>4, <3>2
    <3> QED BY <2>1, <2>2, <2>3, <2>5, <3>3, Numbers
  <2>6. ASSUME NEW n, Appears(n) PROVE Cardinality(Q) <= req.total + walk'.late
    <3>1. /\ n \in Keys /\ row'[n].st = "booked" /\ row'[n].user = row[n].user /\ ~Settled(n)
          /\ \A j \in Keys : j # n => row'[j] = row[j]
      BY <2>6 DEF Appears
    <3>2. \A k \in Current' : Settled(k)'
      BY <1>2, EntriesDrift
    <3>3. Q \subseteq S \cup {n}
      BY <1>3, <2>2, <2>3, <3>1, <3>2 DEF Settled
    <3>4. IsFiniteSet(S \cup {n}) /\ Cardinality(S \cup {n}) <= Cardinality(S) + 1
          /\ Cardinality(S \cup {n}) \in Nat
      <4>1. IsFiniteSet(S \cup {n})
            /\ Cardinality(S \cup {n}) = IF n \in S THEN Cardinality(S) ELSE Cardinality(S) + 1
        BY <2>3, FS_AddElement
      <4> QED BY <2>3, <4>1
    <3>5. Cardinality(Q) <= Cardinality(S) + 1
      BY <2>3, <3>3, <3>4, FS_Subset
    <3>6. req.total \in Nat /\ walk.late \in Nat
      BY Numbers
    <3>7. CASE req.list = "all" \/ row[n].user = req.user
      <4>1. walk'.late = walk.late + 1
        BY <1>2, <1>4, <2>1, <2>6, <3>7 DEF Appears
      <4> QED BY <2>1, <2>2, <2>3, <3>5, <3>6, <4>1
    <3>8. CASE req.list # "all" /\ row[n].user # req.user
      <4>1. walk'.late = walk.late
        BY <1>4, <2>6, <3>8 DEF Appears
      <4>2. n \notin Current'
        <5>1. TheList' = TheList /\ TheUser' = TheUser
          BY <1>2, EntriesDrift
        <5> QED BY <1>2, <2>1, <3>1, <3>8, <5>1 DEF Current, Entries, Owned
      <4>3. Q \subseteq S
        BY <2>2, <3>3, <4>2
      <4> QED BY <2>1, <2>2, <2>3, <2>4, <3>6, <4>1, <4>3
    <3> QED BY <3>7, <3>8
  <2> QED BY <2>2, <2>5, <2>6 DEF Drift
<1>5. ASSUME ~walk.grew, req.pc = "carryover", req.page * req.limit >= req.total
      PROVE  Cardinality(Behind' \ req.rows) <= walk'.late
  <2>1. walk'.late = walk.late
    BY <1>5 DEF Drift, Appears
  <2>2. Cardinality(Behind \ req.rows) <= walk.late
    BY <1>5 DEF CountOK
  <2>3. PICK A, B : A = Behind' \ req.rows /\ B = Behind \ req.rows
    OBVIOUS
  <2>4. A \in SUBSET B /\ B \in SUBSET Keys
    BY <1>3, <2>3, BehindDrift DEF Behind
  <2>5. Cardinality(A) <= Cardinality(B) /\ Cardinality(A) \in Nat /\ Cardinality(B) \in Nat
    BY <2>4, Bounds, FS_Subset
  <2> QED BY <2>1, <2>2, <2>3, <2>5, Numbers
<1> QED BY <1>1, <1>4, <1>5 DEF CountOK

\* While nobody changes anything, the lists stay as they are.
LEMMA StillEntries ==
  ASSUME Shape, Drift, walk.on, walk'.quiet
  PROVE  /\ Current' = Current /\ size' = size /\ carried' = carried
         /\ \A u \in Users : Balance(u)' = Balance(u)
<1>1. /\ size' = size /\ carried' = carried
      /\ \A k \in Keys : Settled(k)' <=> Settled(k)
      /\ \A k \in Keys : Settled(k) => row'[k] = row[k]
  BY DEF Drift
<1>2. \A u : Owned(u)' = Owned(u)
  BY <1>1 DEF Owned, Settled
<1>3. TheList' = TheList /\ TheUser' = TheUser
  BY DEF Drift, TheList, TheUser, Busy
<1>4. {k \in Keys : row'[k].st \in {"booked", "anonymized"}}
        = {k \in Keys : row[k].st \in {"booked", "anonymized"}}
  BY <1>1 DEF Settled
<1>5. Current' = Current
  BY <1>2, <1>3, <1>4 DEF Current, Entries
<1>6. ASSUME NEW u \in Users PROVE Balance(u)' = Balance(u)
  <2>1. \A k \in Owned(u) \cup carried[u] : row'[k].cancels = row[k].cancels
    BY <1>1 DEF Shape, CarriedOK, TypeOK, Settled, Owned
  <2>2. {k \in Owned(u) \cup carried[u] : row'[k].cancels # NoKey}
          = {k \in Owned(u) \cup carried[u] : row[k].cancels # NoKey}
    BY <2>1
  <2> QED BY <1>1, <1>2, <2>2 DEF Balance
<1> QED BY <1>1, <1>5, <1>6

LEMMA DriftQuiet ==
  ASSUME Shape, QuietOK, Drift
  PROVE  QuietOK'
<1> SUFFICES ASSUME walk.on, walk'.quiet, TheList = "users" => DistinctBalances' PROVE QuietOK'
  <2>1. walk'.on = walk.on /\ TheList' = TheList
    BY DEF Drift, TheList, Busy
  <2> QED BY <2>1 DEF QuietOK
<1>1. /\ Current' = Current /\ size' = size /\ carried' = carried
      /\ \A u \in Users : Balance(u)' = Balance(u)
  BY StillEntries
<1>2. walk.quiet /\ req' = req /\ screen' = screen /\ walk'.limit = walk.limit
      /\ walk'.again = walk.again /\ walk'.seen = walk.seen
  BY DEF Drift
<1>3. TheList' = TheList /\ Busy' = Busy /\ Passed' = Passed
  BY <1>2 DEF TheList, Busy, Passed
<1>4. TheList = "users" => DistinctBalances
  BY <1>1 DEF DistinctBalances
<1>5. ASSUME NEW e \in Current PROVE Place(TheList, Current, e)' = Place(TheList, Current, e)
  <2>1. CASE TheList = "users"
    <3>1. Current = Users
      BY <2>1 DEF Current, Entries
    <3>2. {v \in Users : Balance(v)' <= Balance(e)'} = {v \in Users : Balance(v) <= Balance(e)}
      BY <1>1, <1>5, <3>1
    <3> QED BY <1>1, <1>3, <2>1, <3>1, <3>2 DEF Place
  <2>2. CASE TheList # "users"
    BY <1>1, <1>3, <2>2 DEF Place
  <2> QED BY <2>1, <2>2
<1>6. /\ walk.limit \in {0, size} /\ walk.again = {}
      /\ walk.seen = {e \in Current : Place(TheList, Current, e) <= Passed * walk.limit}
      /\ req.pc \in {"list", "carryover"} => req.total = Cardinality(Current)
      /\ req.pc = "carryover" =>
           req.rows = {e \in Current : /\ Passed * req.limit < Place(TheList, Current, e)
                                       /\ Place(TheList, Current, e) <= req.page * req.limit}
      /\ req.list = "user" /\ req.pc \in {"settings", "count", "list"} => req.carry = carried[req.user]
  BY <1>2, <1>4 DEF QuietOK
<1>7. walk'.seen = {e \in Current' : Place(TheList, Current, e)' <= Passed' * walk'.limit}
  BY <1>1, <1>2, <1>3, <1>5, <1>6
<1>8. req.pc = "carryover" =>
        req'.rows = {e \in Current' : /\ Passed' * req'.limit < Place(TheList, Current, e)'
                                      /\ Place(TheList, Current, e)' <= req'.page * req'.limit}
  BY <1>1, <1>2, <1>3, <1>5, <1>6
<1> QED BY <1>1, <1>2, <1>3, <1>6, <1>7, <1>8 DEF QuietOK

-----------------------------------------------------------------------------
(* The reader: types, and what the steps of a request leave for the next.  *)

LEMMA EntriesType ==
  ASSUME Shape, NEW list \in Lists, NEW u \in Subjects(list)
  PROVE  /\ u \in Users \cup {Nobody} /\ (list \in {"member", "user"} => u \in Users)
         /\ Entries(list, u) \in SUBSET Entry
         /\ IsFiniteSet(Entries(list, u)) /\ Cardinality(Entries(list, u)) \in Nat
         /\ list = "users" => Entries(list, u) = Users
         /\ list # "users" => /\ Entries(list, u) \in SUBSET Keys
                              /\ \A k \in Entries(list, u) : Settled(k)
         /\ list \in {"member", "user"} => Entries(list, u) = Owned(u)
<1>1. list \in {"member", "user", "all", "users"}
  BY PagesConstants
<1>2. u \in Users \cup {Nobody} /\ (list \in {"member", "user"} => u \in Users)
  BY PagesConstants DEF Subjects
<1>3. /\ list = "users" => Entries(list, u) = Users
      /\ list # "users" => /\ Entries(list, u) \in SUBSET Keys
                           /\ \A k \in Entries(list, u) : Settled(k)
      /\ list \in {"member", "user"} => Entries(list, u) = Owned(u)
  BY <1>1 DEF Entries, Owned, Settled
<1>4. Entries(list, u) \in SUBSET Entry
  BY <1>3 DEF Entry
<1>5. IsFiniteSet(Entries(list, u)) /\ Cardinality(Entries(list, u)) \in Nat
  BY <1>4, Bounds, FS_Subset, FS_CardinalityType
<1> QED BY <1>2, <1>3, <1>4, <1>5

\* The walk when the page size has been read again.
LEMMA PacedType ==
  ASSUME Shape, NEW limit \in Sizes, NEW w, w = Paced(limit)
  PROVE  /\ w \in Walk /\ w.on = walk.on /\ w.known = walk.known /\ w.seen = walk.seen
         /\ w.again = walk.again /\ w.quiet = walk.quiet /\ w.late = walk.late
         /\ walk.on => /\ w.limit = limit
                       /\ w.grew = (walk.grew \/ (walk.limit # 0 /\ limit > walk.limit))
<1>1. walk \in Walk
  BY DEF Shape, TypeOK
<1> QED BY <1>1 DEF Paced, Walk

LEMMA OpenListFacts ==
  ASSUME Shape, NEW list \in Lists, NEW u \in Subjects(list), OpenList(list, u)
  PROVE  /\ screen' = Blank /\ row' = row /\ carried' = carried /\ cutoff' = cutoff /\ size' = size
         /\ req' \in Reading /\ req'.list = list /\ req'.user = u /\ req'.page = 1 /\ req'.clamp = TRUE
         /\ req'.carry = {} /\ req'.pc = IF list = "user" THEN "target" ELSE "settings"
         /\ walk' \in Walk /\ walk'.on = TRUE /\ walk'.known = Entries(list, u) /\ walk'.seen = {}
         /\ walk'.again = {} /\ walk'.limit = 0 /\ walk'.late = 0
<1>1. /\ req' = Request(list, u, 1) /\ walk' = NewWalk(Entries(list, u), 0) /\ screen' = Blank
      /\ row' = row /\ carried' = carried /\ cutoff' = cutoff /\ size' = size
  BY DEF OpenList, tables
<1>2. u \in Users \cup {Nobody} /\ Entries(list, u) \in SUBSET Entry
  BY EntriesType
<1>3. /\ req' \in Reading /\ req'.list = list /\ req'.user = u /\ req'.page = 1 /\ req'.clamp = TRUE
      /\ req'.carry = {} /\ req'.pc = IF list = "user" THEN "target" ELSE "settings"
  BY <1>1, <1>2 DEF Request, Idle, Reading, FirstStatement
<1>4. /\ walk' \in Walk /\ walk'.on = TRUE /\ walk'.known = Entries(list, u) /\ walk'.seen = {}
      /\ walk'.again = {} /\ walk'.limit = 0 /\ walk'.late = 0
  BY <1>1, <1>2 DEF NewWalk, NoWalk, Walk
<1> QED BY <1>1, <1>3, <1>4

LEMMA OpenListShape ==
  ASSUME Shape, NEW list \in Lists, NEW u \in Subjects(list), OpenList(list, u)
  PROVE  Shape'
<1>1. screen' = Blank /\ row' = row /\ carried' = carried /\ cutoff' = cutoff /\ size' = size
  BY OpenListFacts
<1>2. /\ req' \in Reading /\ req'.list = list /\ req'.user = u /\ req'.page = 1 /\ req'.clamp = TRUE
      /\ req'.carry = {} /\ req'.pc = IF list = "user" THEN "target" ELSE "settings"
  BY OpenListFacts
<1>3. /\ walk' \in Walk /\ walk'.on = TRUE /\ walk'.known = Entries(list, u) /\ walk'.seen = {}
      /\ walk'.again = {} /\ walk'.limit = 0 /\ walk'.late = 0
  BY OpenListFacts
<1>4. Busy' /\ TheList' = list /\ TheUser' = u
  BY <1>2 DEF Busy, TheList, TheUser
<1>5. TypeOK'
  BY <1>1, <1>2, <1>3 DEF Shape, TypeOK, Blank, Screen
<1>6. RequestOK' /\ ScreenOK'
  BY <1>1, <1>2 DEF RequestOK, ScreenOK, Blank
<1>7. CarriedOK'
  BY <1>1, <1>2 DEF CarriedOK, Shape
<1>8. WalkOK'
  <2>1. Owned(u)' = Owned(u) /\ \A k : Settled(k)' = Settled(k)
    BY <1>1 DEF Owned, Settled
  <2>2. list # "users" => \A k \in walk'.known : k \in Keys /\ Settled(k)'
    BY <1>3, <2>1, EntriesType
  <2>3. list = "users" => walk'.known = Users
    BY <1>3, EntriesType
  <2>4. PICK v : v = u
    OBVIOUS
  <2>5. list \in {"member", "user"} => walk'.known \subseteq Owned(TheUser)' \cup carried'[TheUser']
    BY <1>3, <1>4, <2>1, <2>4, EntriesType DEF Owned
  <2> QED BY <1>2, <1>3, <1>4, <2>2, <2>3, <2>5 DEF WalkOK
<1> QED BY <1>5, <1>6, <1>7, <1>8 DEF Shape

\* The same list again: the next page, or the page after a cancellation.
LEMMA NextPageShape ==
  ASSUME Shape, NextPage
  PROVE  Shape'
<1>1. screen.no < screen.pages /\ screen \in Screen /\ ~Busy
  BY DEF NextPage, Shape, TypeOK, Busy
<1>2. screen.list \in Lists /\ screen.list # "none" /\ screen.user \in Subjects(screen.list) /\ screen.no \in Nat
      /\ screen.user \in Users \cup {Nobody}
  BY <1>1, PagesConstants DEF Shape, ScreenOK, Blank, Screen
<1>3. /\ req' = Request(screen.list, screen.user, screen.no + 1)
      /\ row' = row /\ carried' = carried /\ cutoff' = cutoff /\ size' = size
      /\ screen' = screen /\ walk' = walk
  BY DEF NextPage, tables
<1>4. /\ req' \in Reading /\ req'.list = screen.list /\ req'.user = screen.user
      /\ req'.page = screen.no + 1 /\ req'.clamp = TRUE /\ req'.carry = {}
      /\ req'.pc = IF screen.list = "user" THEN "target" ELSE "settings"
  <2>1. PICK p \in Nat : p = screen.no + 1
    BY <1>2
  <2>2. req' = Request(screen.list, screen.user, p)
    BY <1>3, <2>1
  <2> QED BY <1>2, <2>1, <2>2 DEF Request, Idle, Reading, FirstStatement
<1>5. Busy' /\ TheList' = TheList /\ TheUser' = TheUser
  BY <1>1, <1>4 DEF Busy, TheList, TheUser
<1>6. TypeOK'
  BY <1>3, <1>4 DEF Shape, TypeOK
<1>7. RequestOK'
  BY <1>2, <1>3, <1>4 DEF RequestOK
<1>8. ScreenOK' /\ CarriedOK'
  <2>1. \A u : OnceOf(u)' = OnceOf(u)
    BY <1>3 DEF OnceOf, Owned
  <2> QED BY <1>3, <1>4, <2>1 DEF Shape, ScreenOK, CarriedOK
<1>9. WalkOK'
  <2>1. \A u : Owned(u)' = Owned(u)
    BY <1>3 DEF Owned
  <2>2. \A k : Settled(k)' = Settled(k)
    BY <1>3 DEF Settled
  <2>3. walk.on => walk.limit # 0
    BY <1>1 DEF Shape, WalkOK
  <2> QED BY <1>2, <1>3, <1>4, <1>5, <2>1, <2>2, <2>3 DEF Shape, WalkOK
<1> QED BY <1>6, <1>7, <1>8, <1>9 DEF Shape

LEMMA JumpToShape ==
  ASSUME Shape, NEW p \in Keys, JumpTo(p)
  PROVE  Shape'
<1>1. p \in 1..screen.pages /\ screen \in Screen /\ p \in Nat /\ p >= 1
  BY Bounds DEF JumpTo, Shape, TypeOK
<1>2. screen.list \in Lists /\ screen.list # "none" /\ screen.user \in Subjects(screen.list)
      /\ screen.user \in Users \cup {Nobody}
  BY <1>1, PagesConstants DEF Shape, ScreenOK, Blank, Screen
<1>3. /\ req' = Request(screen.list, screen.user, p) /\ walk' = NoWalk /\ screen' = Blank
      /\ row' = row /\ carried' = carried /\ cutoff' = cutoff /\ size' = size
  BY DEF JumpTo, tables
<1>4. /\ req' \in Reading /\ req'.list = screen.list /\ req'.user = screen.user
      /\ req'.page = p /\ req'.clamp = TRUE /\ req'.carry = {}
      /\ req'.pc = IF screen.list = "user" THEN "target" ELSE "settings"
  BY <1>1, <1>2, <1>3 DEF Request, Idle, Reading, FirstStatement
<1>5. TypeOK'
  BY <1>3, <1>4 DEF Shape, TypeOK, Blank, Screen, NoWalk, Walk
<1>6. RequestOK' /\ ScreenOK' /\ CarriedOK' /\ WalkOK'
  BY <1>1, <1>2, <1>3, <1>4 DEF Shape, RequestOK, ScreenOK, CarriedOK, WalkOK, Blank, NoWalk
<1> QED BY <1>5, <1>6 DEF Shape

LEMMA AbandonShape ==
  ASSUME Shape, Abandon
  PROVE  Shape'
<1>1. /\ req' = Idle /\ walk' = NoWalk /\ screen' = Blank
      /\ row' = row /\ carried' = carried /\ cutoff' = cutoff /\ size' = size
  BY DEF Abandon, tables
<1>2. TypeOK'
  BY <1>1 DEF Shape, TypeOK, Blank, Screen, NoWalk, Walk, Idle, Reading
<1>3. RequestOK' /\ ScreenOK' /\ CarriedOK' /\ WalkOK'
  BY <1>1 DEF Shape, RequestOK, ScreenOK, CarriedOK, WalkOK, Blank, NoWalk, Idle, Busy
<1> QED BY <1>2, <1>3 DEF Shape

\* A statement that neither lists nor changes anything: the request goes on.
Turn ==
  /\ Busy /\ Busy' /\ req' \in Reading
  /\ req'.list = req.list /\ req'.user = req.user /\ req'.page = req.page /\ req'.clamp = req.clamp
  /\ screen' = screen /\ row' = row /\ carried' = carried /\ cutoff' = cutoff /\ size' = size
  /\ walk' \in Walk /\ walk'.on = walk.on /\ walk'.known = walk.known /\ walk'.seen = walk.seen
  /\ walk'.again = walk.again /\ walk'.quiet = walk.quiet

LEMMA TurnEntries ==
  ASSUME Turn
  PROVE  /\ TheList' = TheList /\ TheUser' = TheUser /\ Passed' = Passed /\ Current' = Current
         /\ \A u : Owned(u)' = Owned(u) /\ Balance(u)' = Balance(u)
         /\ \A k : Settled(k)' = Settled(k)
<1>1. TheList' = TheList /\ TheUser' = TheUser /\ Passed' = Passed /\ row' = row /\ carried' = carried
  BY DEF Turn, TheList, TheUser, Passed
<1>2. \A u : Owned(u)' = Owned(u)
  BY <1>1 DEF Owned
<1>3. \A u : Balance(u)' = Balance(u)
  BY <1>1, <1>2 DEF Balance
<1>4. \A k : Settled(k)' = Settled(k)
  BY <1>1 DEF Settled
<1>5. Current' = Current
  BY <1>1, <1>2 DEF Current, Entries
<1> QED BY <1>1, <1>2, <1>3, <1>4, <1>5

LEMMA TurnShape ==
  ASSUME Shape, Turn,
         req'.pc \in {"settings", "count", "list"}, req'.pc = "settings" => req'.clamp,
         \A k \in req'.carry : row[k].st = "anonymized",
         req'.pc \in {"count", "list"} \/ ~req'.clamp => req'.limit \in Sizes,
         walk.on => /\ walk'.limit = 0 => /\ req'.page = 1 /\ req'.pc = "settings" /\ req'.clamp
                    /\ req'.pc \in {"count", "list"} \/ ~req'.clamp => req'.limit = walk'.limit
  PROVE  Shape'
<1>1. TypeOK'
  BY DEF Shape, TypeOK, Turn
<1>2. RequestOK'
  BY DEF Shape, Turn, RequestOK
<1>3. ScreenOK' /\ CarriedOK'
  <2>1. \A u : OnceOf(u)' = OnceOf(u)
    BY TurnEntries DEF OnceOf, Turn
  <2> QED BY <2>1 DEF Turn, Shape, ScreenOK, CarriedOK
<1>4. WalkOK'
  <2>1. walk'.limit \in Sizes \cup {0} /\ walk'.late \in Nat
    BY DEF Turn, Walk
  <2> QED BY <2>1, TurnEntries DEF Turn, Shape, WalkOK
<1> QED BY <1>1, <1>2, <1>3, <1>4 DEF Shape

LEMMA TargetTurns ==
  ASSUME Shape, GetTargetUser
  PROVE  /\ Turn /\ Shape' /\ walk' = walk
         /\ req'.carry = carried[req.user] /\ req'.pc = (IF req.clamp THEN "settings" ELSE "count")
         /\ req'.limit = req.limit
<1>1. /\ req.pc = "target" /\ walk' = walk /\ screen' = screen
      /\ row' = row /\ carried' = carried /\ cutoff' = cutoff /\ size' = size
      /\ req' = [req EXCEPT !.carry = carried[req.user], !.pc = IF req.clamp THEN "settings" ELSE "count"]
  BY DEF GetTargetUser, tables
<1>2. req \in Reading /\ walk \in Walk /\ carried \in [Users -> SUBSET Keys]
  BY DEF Shape, TypeOK
<1>3. req.list = "user" /\ req.user \in Users /\ (~req.clamp => req.limit \in Sizes)
  BY <1>1, PagesConstants DEF Shape, RequestOK, Subjects, Busy
<1> DEFINE c == carried[req.user]
<1>4. c \in SUBSET Keys /\ \A k \in c : row[k].st = "anonymized"
  BY <1>2, <1>3 DEF Shape, CarriedOK
<1> HIDE DEF c
<1>5. /\ req' \in Reading /\ req'.carry = c /\ req'.pc = (IF req.clamp THEN "settings" ELSE "count")
      /\ req'.limit = req.limit /\ req'.list = req.list /\ req'.user = req.user
      /\ req'.page = req.page /\ req'.clamp = req.clamp
  <2>1. req' = [req EXCEPT !.carry = c, !.pc = IF req.clamp THEN "settings" ELSE "count"]
    BY <1>1 DEF c
  <2> QED BY <1>2, <1>4, <2>1 DEF Reading
<1>6. Turn
  BY <1>1, <1>2, <1>5 DEF Turn, Busy
<1>7. Shape'
  BY <1>1, <1>3, <1>4, <1>5, <1>6, TurnShape DEF Shape, WalkOK, Busy
<1> QED BY <1>1, <1>5, <1>6, <1>7 DEF c

LEMMA SettingsTurns ==
  ASSUME Shape, GetSettings
  PROVE  /\ Turn /\ Shape' /\ walk' = Paced(size) /\ req.pc = "settings"
         /\ req'.limit = size /\ req'.pc = "count" /\ req'.carry = req.carry
<1>1. /\ req.pc = "settings" /\ walk' = Paced(size) /\ screen' = screen
      /\ row' = row /\ carried' = carried /\ cutoff' = cutoff /\ size' = size
      /\ req' = [req EXCEPT !.limit = size, !.pc = "count"]
  BY DEF GetSettings, tables
<1>2. req \in Reading /\ size \in Sizes /\ size # 0
  BY PagesConstants DEF Shape, TypeOK
<1>3. /\ req' \in Reading /\ req'.carry = req.carry /\ req'.pc = "count"
      /\ req'.limit = size /\ req'.list = req.list /\ req'.user = req.user
      /\ req'.page = req.page /\ req'.clamp = req.clamp
  BY <1>1, <1>2 DEF Reading
<1>4. walk' \in Walk /\ walk'.on = walk.on /\ walk'.known = walk.known /\ walk'.seen = walk.seen
      /\ walk'.again = walk.again /\ walk'.quiet = walk.quiet /\ (walk.on => walk'.limit = size)
  BY <1>1, <1>2, PacedType
<1>5. Turn
  BY <1>1, <1>3, <1>4 DEF Turn, Busy
<1>6. Shape'
  BY <1>1, <1>2, <1>3, <1>4, <1>5, TurnShape DEF Shape, CarriedOK
<1> QED BY <1>1, <1>3, <1>5, <1>6

LEMMA CountTurns ==
  ASSUME Shape, CountEntries
  PROVE  /\ Turn /\ Shape' /\ req.pc = "count" /\ req'.pc = "list" /\ req'.carry = req.carry
         /\ req'.limit = req.limit /\ req'.total = Cardinality(Current)
         /\ walk'.limit = walk.limit /\ walk'.grew = walk.grew /\ walk'.late = 0
<1>1. /\ req.pc = "count" /\ walk' = [walk EXCEPT !.late = 0] /\ screen' = screen
      /\ row' = row /\ carried' = carried /\ cutoff' = cutoff /\ size' = size
      /\ req' = [req EXCEPT !.total = Cardinality(Entries(req.list, req.user)), !.pc = "list"]
  BY DEF CountEntries, tables
<1>2. req \in Reading /\ walk \in Walk
  BY DEF Shape, TypeOK
<1>3. req.list \in Lists /\ req.user \in Subjects(req.list) /\ req.limit \in Sizes /\ Busy
  BY <1>1 DEF Shape, RequestOK, Busy
<1>4. Current = Entries(req.list, req.user) /\ Cardinality(Current) \in Nat
  BY <1>3, EntriesType DEF Current, TheList, TheUser
<1> DEFINE n == Cardinality(Current)
<1>5. req' = [req EXCEPT !.total = n, !.pc = "list"] /\ n \in Nat
  BY <1>1, <1>4
<1> HIDE DEF n
<1>6. /\ req' \in Reading /\ req'.carry = req.carry /\ req'.pc = "list" /\ req'.total = n
      /\ req'.limit = req.limit /\ req'.list = req.list /\ req'.user = req.user
      /\ req'.page = req.page /\ req'.clamp = req.clamp
  BY <1>2, <1>5 DEF Reading
<1>7. walk' \in Walk /\ walk'.on = walk.on /\ walk'.known = walk.known /\ walk'.seen = walk.seen
      /\ walk'.again = walk.again /\ walk'.quiet = walk.quiet /\ walk'.limit = walk.limit
      /\ walk'.grew = walk.grew /\ walk'.late = 0
  BY <1>1, <1>2 DEF Walk
<1>8. Turn
  BY <1>1, <1>3, <1>6, <1>7 DEF Turn, Busy
<1>9. walk.on => req.limit = walk.limit /\ walk.limit # 0
  BY <1>1 DEF Shape, WalkOK
<1>10. Shape'
  BY <1>1, <1>3, <1>6, <1>7, <1>8, <1>9, TurnShape DEF Shape, CarriedOK
<1> QED BY <1>1, <1>6, <1>7, <1>8, <1>10 DEF n

\* A cancellation puts one booking, of the same account, into the list.
Storno(n) ==
  /\ ~Busy /\ Busy' /\ TheList' = TheList /\ TheUser' = TheUser
  /\ TheList \in Lists \ {"users"} /\ TheUser \in Subjects(TheList)
  /\ n \in Keys /\ row[n].st = "free" /\ row'[n].st = "booked" /\ row' \in [Keys -> Row]
  /\ \A j \in Keys : j # n => row'[j] = row[j]
  /\ TheList \in {"member", "user"} => row'[n].user = TheUser
  /\ carried' = carried /\ cutoff' = cutoff /\ size' = size /\ screen' = screen
  /\ req' \in Reading /\ req'.list = screen.list /\ req'.user = screen.user
  /\ req'.carry = {} /\ req'.limit = size /\ req'.clamp = FALSE
  /\ walk' \in Walk
  /\ \/ /\ TheList = "user" /\ req'.pc = "target" /\ req'.page = screen.no
        /\ walk'.on = walk.on /\ walk'.known = walk.known /\ walk'.seen = walk.seen
        /\ walk'.again = walk.again
        /\ walk.on => /\ walk'.quiet = FALSE /\ walk'.limit = size
                      /\ walk'.grew = (walk.grew \/ (walk.limit # 0 /\ size > walk.limit))
     \/ /\ TheList # "user" /\ req'.pc = "count" /\ req'.page = 1
        /\ walk'.on = TRUE /\ walk'.seen = {} /\ walk'.again = {} /\ walk'.limit = size
        /\ walk'.known = Current \cup {n}

LEMMA CancelStornos ==
  ASSUME Shape, NEW k \in Keys, CancelOnPage(k)
  PROVE  \E n : Storno(n)
<1> DEFINE page == IF screen.list = "user" THEN screen.no ELSE 1
           pc == IF screen.list = "user" THEN "target" ELSE "count"
<1>1. PICK n : n = NextKey
  OBVIOUS
<1> DEFINE new == [st |-> "booked", user |-> row[k].user, cancels |-> k]
<1>2. /\ req.pc = "idle" /\ screen.list # "users" /\ k \in screen.rows /\ Unused # {} /\ Cancellable(k)
      /\ row' = [row EXCEPT ![n] = new]
      /\ req' = [Request(screen.list, screen.user, page) EXCEPT !.pc = pc, !.limit = size, !.clamp = FALSE]
      /\ carried' = carried /\ cutoff' = cutoff /\ size' = size /\ screen' = screen
  BY <1>1 DEF CancelOnPage
<1>3. walk' = IF screen.list = "user"
              THEN (IF walk.on THEN [Paced(size) EXCEPT !.quiet = FALSE] ELSE walk)
              ELSE NewWalk(Entries(screen.list, screen.user) \cup {n}, size)
  BY <1>1 DEF CancelOnPage
<1>4. n \in Keys /\ row[n].st = "free" /\ row \in [Keys -> Row] /\ screen \in Screen /\ walk \in Walk
      /\ size \in Sizes /\ row[k].st = "booked"
  BY <1>1, <1>2, NextKeyFree DEF Shape, TypeOK, Cancellable
<1>5. screen.list \in Lists \ {"users"} /\ screen.list # "none" /\ screen.user \in Subjects(screen.list)
  BY <1>2, PagesConstants DEF Shape, ScreenOK, Blank
<1>6. TheList = screen.list /\ TheUser = screen.user /\ Current = Entries(screen.list, screen.user) /\ ~Busy
  BY <1>2 DEF TheList, TheUser, Current, Busy
<1>7. screen.list \in {"member", "user"} => row[k].user = screen.user
  BY <1>2, <1>4 DEF Shape, ScreenOK, OnceOf, Owned
<1>8. new \in Row
  BY <1>4 DEF Row
<1>9. row'[n].st = "booked" /\ row'[n].user = row[k].user /\ row' \in [Keys -> Row]
      /\ \A j \in Keys : j # n => row'[j] = row[j]
  BY <1>2, <1>4, <1>8
<1>10. /\ req' \in Reading /\ req'.list = screen.list /\ req'.user = screen.user /\ req'.page = page
       /\ req'.carry = {} /\ req'.limit = size /\ req'.clamp = FALSE /\ req'.pc = pc
  <2>1. page \in Nat /\ screen.user \in Users \cup {Nobody}
    BY <1>4, <1>5, EntriesType DEF Screen
  <2>2. PICK q : q = Request(screen.list, screen.user, page)
    OBVIOUS
  <2>3. q \in Reading /\ q.list = screen.list /\ q.user = screen.user /\ q.page = page /\ q.carry = {}
    BY <1>5, <2>1, <2>2 DEF Request, Idle, Reading, FirstStatement
  <2>4. req' = [q EXCEPT !.pc = pc, !.limit = size, !.clamp = FALSE]
    BY <1>2, <2>2
  <2> HIDE DEF page
  <2> QED BY <1>4, <2>3, <2>4 DEF Reading
<1>11. Busy' /\ TheList' = screen.list /\ TheUser' = screen.user
  BY <1>10 DEF Busy, TheList, TheUser
<1>12. CASE screen.list = "user"
  <2>1. walk' \in Walk /\ walk'.on = walk.on /\ walk'.known = walk.known /\ walk'.seen = walk.seen
        /\ walk'.again = walk.again
        /\ (walk.on => /\ walk'.quiet = FALSE /\ walk'.limit = size
                       /\ walk'.grew = (walk.grew \/ (walk.limit # 0 /\ size > walk.limit)))
    <3>1. PICK w : w = Paced(size)
      OBVIOUS
    <3>2. w \in Walk /\ w.on = walk.on /\ w.known = walk.known /\ w.seen = walk.seen /\ w.again = walk.again
          /\ (walk.on => /\ w.limit = size
                         /\ w.grew = (walk.grew \/ (walk.limit # 0 /\ size > walk.limit)))
      BY <1>4, <3>1, PacedType
    <3>3. walk' = IF walk.on THEN [w EXCEPT !.quiet = FALSE] ELSE walk
      BY <1>3, <1>12, <3>1
    <3> QED BY <1>4, <3>2, <3>3 DEF Walk
  <2> QED BY <1>2, <1>4, <1>5, <1>6, <1>7, <1>9, <1>10, <1>11, <1>12, <2>1 DEF Storno
<1>13. CASE screen.list # "user"
  <2>1. Current \cup {n} \in SUBSET Entry
    BY <1>4, <1>5, <1>6, EntriesType DEF Entry
  <2>2. walk' \in Walk /\ walk'.on = TRUE /\ walk'.seen = {} /\ walk'.again = {} /\ walk'.limit = size
        /\ walk'.known = Current \cup {n}
    BY <1>3, <1>4, <1>6, <1>13, <2>1 DEF NewWalk, NoWalk, Walk
  <2> QED BY <1>2, <1>4, <1>5, <1>6, <1>7, <1>9, <1>10, <1>11, <1>13, <2>2 DEF Storno
<1> QED BY <1>12, <1>13

LEMMA StornoShape ==
  ASSUME Shape, NEW n, Storno(n)
  PROVE  Shape'
<1>1. TypeOK'
  BY DEF Shape, TypeOK, Storno
<1>2. /\ \A k \in Keys : Settled(k) => Settled(k)'
      /\ \A u : Owned(u) \subseteq Owned(u)'
      /\ \A u : OnceOf(u) \subseteq OnceOf(u)'
      /\ Settled(n)' /\ (TheList \in {"member", "user"} => n \in Owned(TheUser)')
  <2>1. \A k \in Keys : Settled(k) => Settled(k)'
    BY DEF Storno, Settled
  <2>2. \A u : Owned(u) \subseteq Owned(u)'
    BY DEF Storno, Owned
  <2>3. \A u : OnceOf(u) \subseteq OnceOf(u)'
    BY <2>2 DEF Storno, OnceOf
  <2> QED BY <2>1, <2>2, <2>3 DEF Storno, Settled, Owned
<1>3. /\ screen' = screen /\ screen.list = TheList /\ screen.user = TheUser /\ carried' = carried
      /\ screen \in Screen
  BY DEF Storno, TheList, TheUser, Busy, Shape, TypeOK
<1>4. RequestOK'
  <2>1. size' = size /\ size \in Sizes /\ screen.list # "none" /\ screen.no >= 1
    BY <1>3, PagesConstants DEF Storno, Shape, ScreenOK, TypeOK
  <2> QED BY <1>3, <2>1 DEF Storno, RequestOK
<1>5. ScreenOK'
  BY <1>2, <1>3 DEF Shape, ScreenOK
<1>6. CarriedOK'
  <2>1. \A k \in Keys : row[k].st = "anonymized" => row'[k].st = "anonymized"
    BY DEF Storno
  <2> QED BY <1>3, <2>1 DEF Storno, Shape, CarriedOK, TypeOK
<1>7. WalkOK'
  <2>1. walk'.limit \in Sizes \cup {0} /\ walk'.late \in Nat /\ size # 0 /\ size \in Sizes
    BY PagesConstants DEF Storno, Walk, Shape, TypeOK
  <2>2. Busy' /\ TheList' = TheList /\ TheUser' = TheUser /\ screen'.list # "none" /\ TheList # "users"
    BY <1>3, PagesConstants DEF Storno
  <2>3. PICK u : u = TheUser
    OBVIOUS
  <2>4. CASE TheList = "user"
    <3>1. walk'.on => walk.on /\ walk'.limit = size /\ walk'.known = walk.known /\ req'.limit = size
      BY <2>4 DEF Storno
    <3>2. walk'.on => \A k \in walk'.known : k \in Keys /\ Settled(k)'
      BY <1>2, <2>4, <3>1 DEF Shape, WalkOK
    <3>3. walk'.on => walk'.known \subseteq Owned(u)' \cup carried'[u]
      BY <1>2, <1>3, <2>3, <2>4, <3>1 DEF Shape, WalkOK
    <3> QED BY <2>1, <2>2, <2>3, <3>1, <3>2, <3>3 DEF WalkOK
  <2>5. CASE TheList # "user"
    <3>1. walk'.limit = size /\ walk'.known = Current \cup {n} /\ req'.limit = size
      BY <2>5 DEF Storno
    <3>2. TheList \in Lists /\ TheUser \in Subjects(TheList)
      BY DEF Storno
    <3>3. /\ Current \in SUBSET Keys /\ \A k \in Current : Settled(k)
          /\ TheList \in {"member", "user"} => Current = Owned(TheUser)
      BY <2>2, <3>2, EntriesType DEF Current
    <3>4. \A k \in walk'.known : k \in Keys /\ Settled(k)'
      BY <1>2, <3>1, <3>3 DEF Storno
    <3>5. ASSUME TheList \in {"member", "user"} PROVE walk'.known \subseteq Owned(u)' \cup carried'[u]
      <4>1. Current = Owned(u)
        BY <2>3, <3>3, <3>5
      <4>2. n \in Owned(u)'
        <5>1. n \in Keys /\ row'[n].st = "booked" /\ row'[n].user = u
          BY <2>3, <3>5 DEF Storno
        <5> QED BY <5>1 DEF Owned
      <4> QED BY <1>2, <3>1, <4>1, <4>2
    <3> QED BY <2>1, <2>2, <2>3, <3>1, <3>4, <3>5 DEF WalkOK
  <2> QED BY <2>4, <2>5
<1> QED BY <1>1, <1>4, <1>5, <1>6, <1>7 DEF Shape

-----------------------------------------------------------------------------
(* The reader: what is listed and shown.                                   *)

\* A page of a list of bookings holds what comes after the pages before it.
LEMMA NewestSlice ==
  ASSUME NEW S \in SUBSET Keys, NEW pos \in NewestFirst(S), NEW limit \in Nat, NEW page \in Nat \ {0}
  PROVE  Slice(pos, limit, Offset(page, limit))
           = {e \in S : (page - 1) * limit < Rank(S, e) /\ Rank(S, e) <= page * limit}
<1>1. DOMAIN pos = S /\ \A e \in S : pos[e] = Rank(S, e)
  BY DEF NewestFirst, Rank
<1>2. Offset(page, limit) + limit = page * limit
  <2>1. PICK p \in Nat : page = p + 1
    <3>1. page - 1 \in Nat /\ page = (page - 1) + 1
      OBVIOUS
    <3> QED BY <3>1
  <2> QED BY <2>1, OnePageMore DEF Offset
<1> QED BY <1>1, <1>2 DEF Slice, Offset

LEMMA SliceOf ==
  ASSUME NEW S \in SUBSET Keys, NEW T, T = S, NEW pos \in NewestFirst(T),
         NEW limit, NEW page, limit \in Nat, page \in Nat \ {0},
         NEW rows, rows = Slice(pos, limit, Offset(page, limit))
  PROVE  rows = {e \in S : (page - 1) * limit < Rank(S, e) /\ Rank(S, e) <= page * limit}
BY NewestSlice

LEMMA SliceType ==
  ASSUME NEW list \in Lists, NEW u, NEW pos \in Orders(list, u), NEW limit, NEW offset
  PROVE  Slice(pos, limit, offset) \in SUBSET Entries(list, u)
<1>1. DOMAIN pos = Entries(list, u)
  <2>1. CASE list = "users"
    BY <2>1 DEF Orders, PoorestFirst, Entries
  <2>2. CASE list # "users"
    BY <2>2 DEF Orders, NewestFirst
  <2> QED BY <2>1, <2>2
<1> QED BY <1>1 DEF Slice

\* The fragment reaches the browser.
Shows(rows, carry) ==
  /\ Busy /\ req.pc \in {"list", "carryover"} /\ req' = Idle
  /\ row' = row /\ carried' = carried /\ cutoff' = cutoff /\ size' = size
  /\ screen' \in Screen /\ screen'.list = req.list /\ screen'.user = req.user
  /\ screen'.pages = TotalPages(req.total, req.limit) /\ screen'.rows = rows
  /\ screen'.no = (IF req.clamp THEN Clamped(req.page, screen'.pages) ELSE req.page)
  /\ screen'.no >= 1 /\ screen'.no <= req.page
  /\ screen'.carry = (IF ShowsCarryover(screen'.no, screen'.pages) THEN carry ELSE {})
  /\ walk' \in Walk /\ walk'.on = walk.on /\ walk'.known = walk.known /\ walk'.limit = walk.limit
  /\ walk'.quiet = walk.quiet /\ walk'.grew = walk.grew /\ walk'.late = walk.late
  /\ walk.on => /\ walk'.seen = walk.seen \cup rows
                /\ walk'.again = walk.again \cup (walk.seen \cap rows)
  /\ ~walk.on => walk' = walk

LEMMA ShowShows ==
  ASSUME Shape, NEW rows \in SUBSET Entry, NEW carry \in SUBSET Keys,
         req.pc \in {"list", "carryover"}, Show(rows, carry), UNCHANGED tables
  PROVE  Shows(rows, carry)
<1>1. req \in Reading /\ walk \in Walk /\ row' = row /\ carried' = carried /\ cutoff' = cutoff /\ size' = size
  BY DEF Shape, TypeOK, tables
<1>2. Busy /\ req.list \in Lists /\ req.user \in Subjects(req.list) /\ req.page \in Nat \ {0} /\ req.limit \in Sizes
  BY <1>1 DEF Shape, RequestOK, Busy, Reading
<1>3. req.limit \in Nat \ {0} /\ req.total \in Nat /\ req.user \in Users \cup {Nobody}
  BY <1>1, <1>2, PagesConstants DEF Reading
<1> DEFINE pages == TotalPages(req.total, req.limit)
           no == IF req.clamp THEN Clamped(req.page, pages) ELSE req.page
           extra == IF ShowsCarryover(no, pages) THEN carry ELSE {}
<1>4. pages \in Nat
  BY <1>3, PagesCover
<1>5. no \in Nat /\ no >= 1 /\ no <= req.page
  <2> HIDE DEF pages
  <2> QED BY <1>2, <1>4 DEF Clamped
<1>6. extra \in SUBSET Keys
  OBVIOUS
<1>7. /\ screen' = [list |-> req.list, user |-> req.user, no |-> no, pages |-> pages,
                    rows |-> rows, carry |-> extra]
      /\ walk' = IF walk.on THEN [walk EXCEPT !.seen = @ \cup rows, !.again = @ \cup (walk.seen \cap rows)]
                 ELSE walk
      /\ req' = Idle
  BY DEF Show
<1>8. /\ screen' \in Screen /\ screen'.list = req.list /\ screen'.user = req.user
      /\ screen'.pages = pages /\ screen'.rows = rows /\ screen'.no = no /\ screen'.carry = extra
  <2> HIDE DEF pages, no, extra
  <2> QED BY <1>2, <1>3, <1>4, <1>5, <1>6, <1>7 DEF Screen
<1>9. /\ walk' \in Walk /\ walk'.on = walk.on /\ walk'.known = walk.known /\ walk'.limit = walk.limit
      /\ walk'.quiet = walk.quiet /\ walk'.grew = walk.grew /\ walk'.late = walk.late
      /\ walk.on => /\ walk'.seen = walk.seen \cup rows
                    /\ walk'.again = walk.again \cup (walk.seen \cap rows)
      /\ ~walk.on => walk' = walk
  BY <1>1, <1>7 DEF Walk
<1> QED BY <1>1, <1>2, <1>5, <1>7, <1>8, <1>9 DEF Shows

LEMMA ShowsEntries ==
  ASSUME Shape, NEW rows, NEW carry, Shows(rows, carry)
  PROVE  /\ ~Busy' /\ TheList' = TheList /\ TheUser' = TheUser /\ Current' = Current
         /\ Passed' = screen'.no /\ TheList = req.list /\ TheUser = req.user
         /\ \A u : Owned(u)' = Owned(u) /\ OnceOf(u)' = OnceOf(u) /\ Balance(u)' = Balance(u)
         /\ \A k : Settled(k)' = Settled(k)
<1>1. ~Busy' /\ TheList' = TheList /\ TheUser' = TheUser /\ Passed' = screen'.no
      /\ TheList = req.list /\ TheUser = req.user /\ row' = row /\ carried' = carried
  BY DEF Shows, TheList, TheUser, Passed, Busy, Idle
<1>2. \A u : Owned(u)' = Owned(u)
  BY <1>1 DEF Owned
<1>3. \A u : OnceOf(u)' = OnceOf(u)
  BY <1>1, <1>2 DEF OnceOf
<1>4. \A u : Balance(u)' = Balance(u)
  BY <1>1, <1>2 DEF Balance
<1>5. \A k : Settled(k)' = Settled(k)
  BY <1>1 DEF Settled
<1>6. Current' = Current
  BY <1>1, <1>2 DEF Current, Entries
<1> QED BY <1>1, <1>2, <1>3, <1>4, <1>5, <1>6

LEMMA ShowsShape ==
  ASSUME Shape, NEW rows, NEW carry, Shows(rows, carry),
         req.list \in {"member", "user"} => rows \subseteq OnceOf(req.user),
         req.list = "user" => rows \cap carry = {}
  PROVE  Shape'
<1>1. TypeOK'
  <2>1. Idle \in Reading
    BY DEF Idle, Reading
  <2>2. walk'.again \subseteq walk'.seen
    BY DEF Shape, TypeOK, Shows
  <2> QED BY <2>1, <2>2 DEF Shape, TypeOK, Shows
<1>2. RequestOK'
  BY ShowsEntries DEF RequestOK
<1>3. req.list \in Lists /\ req.list # "none" /\ req.user \in Subjects(req.list)
  BY PagesConstants DEF Shows, Shape, RequestOK
<1>4. ScreenOK'
  BY <1>3, ShowsEntries DEF Shows, ScreenOK
<1>5. CarriedOK'
  BY DEF Shows, Shape, CarriedOK, Idle
<1>6. WalkOK'
  <2>1. walk'.limit \in Sizes \cup {0} /\ walk'.late \in Nat
    BY DEF Shows, Walk
  <2>2. walk.on => walk.limit # 0
    BY DEF Shows, Shape, WalkOK
  <2>3. PICK u : u = TheUser
    OBVIOUS
  <2>4. walk.on /\ TheList \in {"member", "user"} => walk.known \subseteq Owned(u) \cup carried[u]
    BY <2>3 DEF Shape, WalkOK
  <2>5. Owned(u)' \cup carried'[u] = Owned(u) \cup carried[u]
    BY ShowsEntries DEF Shows
  <2>6. walk.on => /\ TheList = "users" => walk.known = Users
                   /\ TheList # "users" => \A k \in walk.known : k \in Keys /\ Settled(k)
    BY DEF Shape, WalkOK
  <2>7. req'.pc = "idle"
    BY DEF Shows, Idle
  <2>8. ~Busy' /\ TheList' = TheList /\ TheUser' = TheUser /\ \A k : Settled(k)' = Settled(k)
    BY ShowsEntries
  <2>9. walk'.on = walk.on /\ walk'.known = walk.known /\ walk'.limit = walk.limit /\ screen'.list # "none"
    BY <1>3 DEF Shows
  <2>10. walk'.on /\ TheList' \in {"member", "user"} => walk'.known \subseteq Owned(TheUser)' \cup carried'[TheUser']
    BY <2>3, <2>4, <2>5, <2>8, <2>9
  <2> QED BY <2>1, <2>2, <2>6, <2>7, <2>8, <2>9, <2>10 DEF WalkOK
<1> QED BY <1>1, <1>2, <1>4, <1>5, <1>6 DEF Shape

\* The member's rows, before the carryover is read.
Fetches(rows) ==
  /\ Busy /\ Busy' /\ req.pc = "list" /\ req'.pc = "carryover" /\ req.list = "member"
  /\ req' \in Reading /\ req'.rows = rows /\ req'.carry = req.carry
  /\ req'.list = req.list /\ req'.user = req.user /\ req'.page = req.page /\ req'.clamp = req.clamp
  /\ req'.limit = req.limit /\ req'.total = req.total
  /\ screen' = screen /\ walk' = walk
  /\ row' = row /\ carried' = carried /\ cutoff' = cutoff /\ size' = size

LEMMA FetchesEntries ==
  ASSUME NEW rows, Fetches(rows)
  PROVE  /\ TheList' = TheList /\ TheUser' = TheUser /\ Passed' = Passed /\ Current' = Current
         /\ \A u : Owned(u)' = Owned(u) /\ OnceOf(u)' = OnceOf(u) /\ Balance(u)' = Balance(u)
         /\ \A k : Settled(k)' = Settled(k)
         /\ TheList = req.list /\ TheUser = req.user
<1>1. TheList' = TheList /\ TheUser' = TheUser /\ Passed' = Passed /\ row' = row /\ carried' = carried
      /\ TheList = req.list /\ TheUser = req.user
  BY DEF Fetches, TheList, TheUser, Passed
<1>2. \A u : Owned(u)' = Owned(u)
  BY <1>1 DEF Owned
<1>3. \A u : OnceOf(u)' = OnceOf(u)
  BY <1>1, <1>2 DEF OnceOf
<1>4. \A u : Balance(u)' = Balance(u)
  BY <1>1, <1>2 DEF Balance
<1>5. \A k : Settled(k)' = Settled(k)
  BY <1>1 DEF Settled
<1>6. Current' = Current
  BY <1>1, <1>2 DEF Current, Entries
<1> QED BY <1>1, <1>2, <1>3, <1>4, <1>5, <1>6

\* The rows that a page of the list holds now.
PageRows == {Slice(pos, req.limit, Offset(req.page, req.limit)) : pos \in Orders(req.list, req.user)}

LEMMA ListLists ==
  ASSUME Shape, ListEntries
  PROVE  \E rows \in PageRows :
           /\ rows \in SUBSET Current
           /\ req.pc = "list"
           /\ req.list = "member" => Fetches(rows)
           /\ req.list # "member" => Shows(rows, req.carry)
<1>1. req.pc = "list" /\ Busy /\ UNCHANGED tables
  BY DEF ListEntries, Busy
<1>2. PICK pos \in Orders(req.list, req.user) :
        LET rows == Slice(pos, req.limit, Offset(req.page, req.limit))
        IN  IF req.list = "member"
            THEN req' = [req EXCEPT !.rows = rows, !.pc = "carryover"] /\ UNCHANGED <<screen, walk>>
            ELSE Show(rows, req.carry)
  BY DEF ListEntries
<1>3. PICK rows : rows = Slice(pos, req.limit, Offset(req.page, req.limit))
  OBVIOUS
<1>4. req.list \in Lists /\ req.user \in Subjects(req.list) /\ req \in Reading
  BY <1>1 DEF Shape, RequestOK, TypeOK
<1>5. rows \in PageRows /\ rows \in SUBSET Current /\ rows \in SUBSET Entry
  <2>1. Current = Entries(req.list, req.user)
    BY <1>1 DEF Current, TheList, TheUser
  <2> QED BY <1>2, <1>3, <1>4, <2>1, SliceType, EntriesType DEF PageRows
<1>6. req.carry \in SUBSET Keys
  BY <1>4 DEF Reading
<1>7. ASSUME req.list = "member" PROVE Fetches(rows)
  <2>1. req' = [req EXCEPT !.rows = rows, !.pc = "carryover"] /\ UNCHANGED <<screen, walk>>
    BY <1>2, <1>3, <1>7
  <2> QED BY <1>1, <1>4, <1>5, <1>7, <2>1 DEF Fetches, Reading, Busy, tables
<1>8. ASSUME req.list # "member" PROVE Shows(rows, req.carry)
  <2>1. Show(rows, req.carry)
    BY <1>2, <1>3, <1>8
  <2> QED BY <1>1, <1>5, <1>6, <2>1, ShowShows
<1> QED BY <1>1, <1>5, <1>7, <1>8

LEMMA FetchesShape ==
  ASSUME Shape, NEW rows \in SUBSET Current, Fetches(rows)
  PROVE  Shape'
<1>1. TypeOK'
  BY DEF Shape, TypeOK, Fetches
<1>2. rows \subseteq OnceOf(req.user)
  BY FetchesEntries DEF Current, Entries, OnceOf, Fetches
<1>3. RequestOK'
  BY <1>2, FetchesEntries DEF Shape, Fetches, RequestOK
<1>4. ScreenOK' /\ CarriedOK'
  BY FetchesEntries DEF Fetches, Shape, ScreenOK, CarriedOK
<1>5. WalkOK'
  <2>1. PICK u : u = TheUser
    OBVIOUS
  <2>2. Owned(u)' \cup carried'[u] = Owned(u) \cup carried[u]
    BY FetchesEntries DEF Fetches
  <2>3. walk.on /\ TheList \in {"member", "user"} => walk.known \subseteq Owned(u) \cup carried[u]
    BY <2>1 DEF Shape, WalkOK
  <2>4. Busy' /\ TheList' = TheList /\ TheUser' = TheUser /\ walk' = walk /\ screen' = screen
    BY FetchesEntries DEF Fetches
  <2>5. walk'.on /\ TheList' \in {"member", "user"} => walk'.known \subseteq Owned(TheUser)' \cup carried'[TheUser']
    BY <2>1, <2>2, <2>3, <2>4
  <2>6. walk.on => walk.limit # 0 /\ req.limit = walk.limit
    BY DEF Shape, WalkOK, Fetches
  <2>7. /\ walk.limit \in Sizes \cup {0} /\ walk.late \in Nat
        /\ walk.on => /\ walk.seen # {} => screen.list # "none"
                      /\ TheList = "users" => walk.known = Users
                      /\ TheList # "users" => \A k \in walk.known : k \in Keys /\ Settled(k)
    BY DEF Shape, WalkOK
  <2>8. req'.limit = req.limit
    BY DEF Fetches
  <2> QED BY <2>4, <2>5, <2>6, <2>7, <2>8, FetchesEntries DEF WalkOK
<1> QED BY <1>1, <1>3, <1>4, <1>5 DEF Shape

LEMMA ListEntriesShape ==
  ASSUME Shape, ListEntries
  PROVE  Shape'
<1>1. PICK rows \in PageRows :
         /\ rows \in SUBSET Current
         /\ req.pc = "list"
         /\ req.list = "member" => Fetches(rows)
         /\ req.list # "member" => Shows(rows, req.carry)
  BY ListLists
<1>2. CASE req.list = "member"
  BY <1>1, <1>2, FetchesShape
<1>3. CASE req.list # "member"
  <2>1. Current = Entries(req.list, req.user)
    BY <1>1 DEF Current, TheList, TheUser, Busy
  <2>2. req.list = "user" => Current = Owned(req.user)
    BY <2>1 DEF Entries
  <2>3. req.list = "user" => rows \subseteq OnceOf(req.user) /\ rows \cap req.carry = {}
    BY <1>1, <2>2 DEF OnceOf, Owned, Shape, CarriedOK
  <2> QED BY <1>1, <1>3, <2>3, ShowsShape
<1> QED BY <1>2, <1>3

LEMMA CarryoverShows ==
  ASSUME Shape, GetCarryover
  PROVE  /\ Shows(req.rows, carried[req.user]) /\ req.pc = "carryover" /\ req.list = "member"
         /\ req.user \in Users /\ Shape'
<1>1. req.pc = "carryover" /\ Show(req.rows, carried[req.user]) /\ UNCHANGED tables
  BY DEF GetCarryover
<1>2. req.list = "member" /\ req.rows \subseteq OnceOf(req.user) /\ req.user \in Users /\ req \in Reading
      /\ carried \in [Users -> SUBSET Keys]
  BY <1>1, PagesConstants DEF Shape, RequestOK, TypeOK, Busy, Subjects
<1>3. req.rows \in SUBSET Entry /\ carried[req.user] \in SUBSET Keys
  BY <1>2 DEF Reading
<1>4. Shows(req.rows, carried[req.user])
  BY <1>1, <1>3, ShowShows
<1> QED BY <1>1, <1>2, <1>4, ShowsShape

LEMMA NextShape ==
  ASSUME Shape, [Next]_vars
  PROVE  Shape'
<1>1. CASE Others
  BY <1>1, OthersDrift, DriftShape
<1>2. CASE Reader
  <2>1. ASSUME NEW list \in Lists, NEW u \in Subjects(list), OpenList(list, u) PROVE Shape'
    BY <2>1, OpenListShape
  <2>2. ASSUME NEW k \in Keys, CancelOnPage(k) PROVE Shape'
    BY <2>2, CancelStornos, StornoShape
  <2>3. ASSUME NEW p \in Keys, JumpTo(p) PROVE Shape'
    BY <2>3, JumpToShape
  <2> QED BY <1>2, <2>1, <2>2, <2>3, NextPageShape, TargetTurns, SettingsTurns, CountTurns,
             ListEntriesShape, CarryoverShows, AbandonShape DEF Reader
<1>3. CASE UNCHANGED vars
  BY <1>3 DEF vars, Shape, TypeOK, RequestOK, ScreenOK, CarriedOK, WalkOK, Busy, OnceOf, Owned, Settled,
              TheList, TheUser
<1> QED BY <1>1, <1>2, <1>3 DEF Next

LEMMA InitShape ==
  ASSUME Init
  PROVE  Shape
<1>1. TypeOK
  BY PagesConstants DEF Init, TypeOK, Idle, Reading, Blank, Screen, NoWalk, Walk
<1>2. RequestOK /\ ScreenOK /\ CarriedOK /\ WalkOK
  BY DEF Init, RequestOK, ScreenOK, CarriedOK, WalkOK, Idle, Blank, NoWalk, Busy
<1> QED BY <1>1, <1>2 DEF Shape

-----------------------------------------------------------------------------
(* What the reader has missed so far.                                      *)

\* Of the entries of a page, none is missed; what is, comes later.
PageDone(rows) ==
  \A k \in Behind \ rows : Rank(Current, k) > req.page * req.limit /\ \A s \in rows : k < s

LEMMA PageIsDone ==
  ASSUME Shape, GapsOK, walk.on, ~walk.grew, req.pc = "list", req.list # "users", NEW rows \in PageRows
  PROVE  PageDone(rows)
<1>1. TheList = req.list /\ TheUser = req.user /\ Busy /\ Passed = req.page - 1
      /\ Current = Entries(req.list, req.user)
  BY DEF TheList, TheUser, Busy, Passed, Current
<1>2. req.page \in Nat \ {0} /\ req.limit \in Nat /\ req.limit = walk.limit
      /\ req.page * req.limit \in Nat /\ (req.page - 1) * req.limit \in Nat
  BY <1>1, Numbers DEF Shape, RequestOK, WalkOK
<1>3. Current \in SUBSET Keys
  BY <1>1, EntriesType DEF Shape, RequestOK
<1>4. PICK pos \in NewestFirst(Current) : rows = Slice(pos, req.limit, Offset(req.page, req.limit))
  BY <1>1 DEF PageRows, Orders
<1>5. PICK S : S = Current
  OBVIOUS
<1>6. rows = {e \in S : (req.page - 1) * req.limit < Rank(S, e) /\ Rank(S, e) <= req.page * req.limit}
  BY <1>2, <1>3, <1>4, <1>5, SliceOf
<1>7. ASSUME NEW k \in Behind \ rows
      PROVE  Rank(Current, k) > req.page * req.limit /\ \A s \in rows : k < s
  <2>1. k \in S /\ Rank(S, k) > (req.page - 1) * req.limit
    BY <1>1, <1>2, <1>5 DEF GapsOK, Behind
  <2>2. \A s \in S : s \in Keys /\ Rank(S, s) \in Nat
    BY <1>3, <1>5, RankFacts
  <2>3. Rank(S, k) > req.page * req.limit
    BY <1>2, <1>6, <2>1, <2>2
  <2>4. ASSUME NEW s \in rows PROVE k < s
    <3>1. s \in S /\ Rank(S, s) <= req.page * req.limit
      BY <1>6
    <3>2. Rank(S, s) < Rank(S, k)
      BY <1>2, <2>1, <2>2, <2>3, <3>1
    <3> QED BY <1>3, <1>5, <2>1, <2>2, <3>1, <3>2, RankFacts
  <2> QED BY <1>5, <2>3, <2>4
<1> QED BY <1>7 DEF PageDone

\* Of that, no more is beyond the last page than was booked since the count.
LEMMA FewMissed ==
  ASSUME Shape, CountOK, walk.on, req.pc = "list", req.list # "users",
         req.page * req.limit >= req.total, NEW rows, PageDone(rows)
  PROVE  Cardinality(Behind \ rows) <= walk.late
<1>1. Current \in SUBSET Keys /\ TheList = req.list
  BY EntriesType DEF Shape, RequestOK, TheList, TheUser, Busy, Current
<1>2. Cardinality(Current) <= req.total + walk.late
  BY <1>1 DEF CountOK
<1>3. PICK S, m, A : S = Current /\ m = req.page * req.limit /\ A = Behind \ rows
  OBVIOUS
<1>4. S \in SUBSET Keys /\ m \in Nat /\ Cardinality(S) \in Nat /\ walk.late \in Nat /\ req.total \in Nat
      /\ IsFiniteSet(S)
  BY <1>1, <1>3, Bounds, Numbers
<1> DEFINE B == {k \in S : Rank(S, k) > m}
<1>5. A \in SUBSET B
  BY <1>3 DEF PageDone, Behind
<1>6. B = {} \/ Cardinality(B) <= Cardinality(S) - m
  BY <1>4, FewBelow
<1>7. B \in SUBSET Keys
  BY <1>4
<1> HIDE DEF B
<1>8. Cardinality(B) <= walk.late /\ Cardinality(B) \in Nat
  <2>1. CASE B = {}
    BY <1>4, <2>1, FS_EmptySet
  <2>2. CASE B # {}
    <3>1. Cardinality(B) \in Nat
      BY <1>7, Bounds
    <3> QED BY <1>2, <1>3, <1>4, <1>6, <2>2, <3>1
  <2> QED BY <2>1, <2>2
<1>9. Cardinality(A) <= Cardinality(B) /\ Cardinality(A) \in Nat
  BY <1>5, <1>7, Bounds, FS_Subset
<1> QED BY <1>3, <1>4, <1>8, <1>9

LEMMA OpenListGaps ==
  ASSUME Shape, NEW list \in Lists, NEW u \in Subjects(list), OpenList(list, u)
  PROVE  GapsOK' /\ CountOK'
<1>1. row' = row
  BY OpenListFacts
<1>2. /\ req'.list = list /\ req'.user = u /\ req'.page = 1
      /\ req'.pc = IF list = "user" THEN "target" ELSE "settings"
  BY OpenListFacts
<1>3. walk'.seen = {} /\ walk'.limit = 0
  BY OpenListFacts
<1>4. TheList' = list /\ TheUser' = u /\ Passed' = 0
  BY <1>2 DEF Busy, TheList, TheUser, Passed
<1>5. list # "users" => Current' = Entries(list, u) /\ Current' \in SUBSET Keys
  <2>1. Owned(u)' = Owned(u)
    BY <1>1 DEF Owned
  <2>2. PICK v : v = u
    OBVIOUS
  <2>3. Current' = Entries(list, v)'
    BY <1>4, <2>2 DEF Current
  <2>4. Entries(list, v)' = Entries(list, v)
    BY <1>1, <2>1, <2>2 DEF Entries, Owned
  <2> QED BY <2>2, <2>3, <2>4, EntriesType
<1>6. ASSUME list # "users", NEW k \in Behind' PROVE Rank(Current', k) > Passed' * walk'.limit
  <2>1. PICK S : S = Current'
    OBVIOUS
  <2>2. k \in S /\ S \in SUBSET Keys
    BY <1>5, <1>6, <2>1 DEF Behind
  <2>3. Rank(S, k) > 0
    BY <2>2, RankFacts
  <2> QED BY <1>3, <1>4, <2>1, <2>3
<1> QED BY <1>2, <1>3, <1>4, <1>6 DEF GapsOK, CountOK

LEMMA NextPageGaps ==
  ASSUME Shape, GapsOK, NextPage
  PROVE  GapsOK' /\ CountOK' /\ TheList' = TheList /\ TheUser' = TheUser /\ Passed' = Passed
         /\ Current' = Current /\ Busy' /\ req'.pc \in {"target", "settings"} /\ req'.carry = {}
<1>1. screen.no < screen.pages /\ screen \in Screen /\ ~Busy
  BY DEF NextPage, Shape, TypeOK, Busy
<1>2. screen.list \in Lists /\ screen.user \in Users \cup {Nobody} /\ screen.no \in Nat
  BY <1>1, PagesConstants DEF Shape, ScreenOK, Blank, Screen
<1>3. /\ req' = Request(screen.list, screen.user, screen.no + 1)
      /\ row' = row /\ cutoff' = cutoff /\ screen' = screen /\ walk' = walk
  BY DEF NextPage, tables
<1>4. /\ req'.list = screen.list /\ req'.user = screen.user /\ req'.page = screen.no + 1
      /\ req'.pc = (IF screen.list = "user" THEN "target" ELSE "settings") /\ req'.carry = {}
  BY <1>2, <1>3 DEF Request, Idle, Reading, FirstStatement
<1>5. TheList' = TheList /\ TheUser' = TheUser /\ Passed' = Passed /\ Busy'
  BY <1>1, <1>2, <1>4 DEF Busy, TheList, TheUser, Passed
<1>6. Current' = Current
  BY <1>3, <1>5 DEF Current, Entries, Owned
<1>7. Behind' = Behind
  BY <1>3, <1>5, <1>6 DEF Behind
<1>8. GapsOK'
  BY <1>3, <1>4, <1>5, <1>6, <1>7 DEF GapsOK, Rank
<1> QED BY <1>4, <1>5, <1>6, <1>8 DEF CountOK

LEMMA StornoGaps ==
  ASSUME Shape, GapsOK, NEW n, Storno(n)
  PROVE  GapsOK' /\ CountOK'
<1>1. /\ ~Busy /\ Busy' /\ TheList' = TheList /\ TheUser' = TheUser /\ TheList # "users"
      /\ TheList \in Lists /\ TheUser \in Subjects(TheList) /\ cutoff' = cutoff
      /\ req'.pc \in {"target", "count"} /\ size' = size /\ size \in Nat \ {0}
  BY PagesConstants DEF Storno, Shape, TypeOK
<1>2. Current \in SUBSET Keys
  BY <1>1, EntriesType DEF Current
<1>3. Current' = Current \cup {n}
  <2>1. \A k \in Keys : k = n \/ row'[k] = row[k]
    BY DEF Storno
  <2>2. n \in Keys /\ row'[n].st = "booked" /\ (TheList \in {"member", "user"} => row'[n].user = TheUser)
    BY DEF Storno
  <2>3. CASE TheList \in {"member", "user"}
    <3>1. PICK u : u = TheUser
      OBVIOUS
    <3>2. Owned(u)' = Owned(u) \cup {n}
      BY <2>1, <2>2, <2>3, <3>1 DEF Owned
    <3>3. Current = Owned(u) /\ Current' = Owned(u)'
      BY <1>1, <2>3, <3>1 DEF Current, Entries
    <3> QED BY <3>2, <3>3
  <2>4. CASE TheList = "all"
    <3>1. Current = {k \in Keys : row[k].st \in {"booked", "anonymized"}}
          /\ Current' = {k \in Keys : row'[k].st \in {"booked", "anonymized"}}
      BY <1>1, <2>4 DEF Current, Entries
    <3> QED BY <2>1, <2>2, <3>1
  <2> QED BY <1>1, <2>3, <2>4, PagesConstants
<1>4. ASSUME walk'.on, ~walk'.grew, NEW k \in Behind'
      PROVE  Rank(Current', k) > Passed' * walk'.limit /\ \A s \in walk'.seen : k < s
  <2>1. PICK S, Q : S = Current /\ Q = Current'
    OBVIOUS
  <2>2. k \in Q /\ S \in SUBSET Keys /\ Q \in SUBSET Keys /\ S \subseteq Q
    BY <1>2, <1>3, <1>4, <2>1 DEF Behind, Storno
  <2>3. CASE TheList = "user"
    <3>1. /\ walk.on /\ walk'.limit = size /\ walk'.known = walk.known /\ walk'.seen = walk.seen
          /\ ~walk.grew /\ ~(walk.limit # 0 /\ size > walk.limit) /\ req'.page = screen.no
      BY <1>4, <2>3 DEF Storno
    <3>2. walk.limit # 0 /\ walk.limit \in Nat /\ size <= walk.limit
      BY <1>1, <3>1, Numbers DEF Shape, WalkOK
    <3>3. n \notin walk.known
      BY <1>1, <3>1 DEF Storno, Shape, WalkOK, Settled
    <3>4. k \in Behind
      BY <1>1, <1>3, <1>4, <3>1, <3>3 DEF Behind
    <3>5. Rank(S, k) > Passed * walk.limit /\ \A s \in walk.seen : k < s
      BY <1>1, <2>1, <3>1, <3>4 DEF GapsOK
    <3>6. Rank(S, k) <= Rank(Q, k) /\ Rank(S, k) \in Nat /\ Rank(Q, k) \in Nat
      BY <2>2, RankGrows, RankFacts
    <3>7. Passed = screen.no /\ Passed' = screen.no - 1 /\ screen.no \in Nat
      BY <1>1, <3>1, Numbers DEF Passed
    <3>8. screen.no >= 1
      BY <1>1, <3>1 DEF Shape, WalkOK, ScreenOK
    <3>9. PICK p \in Nat : p = screen.no - 1
      BY <3>7, <3>8
    <3>10. p * size <= p * walk.limit /\ p * walk.limit <= (p + 1) * walk.limit
           /\ p * size \in Nat /\ p * walk.limit \in Nat /\ (p + 1) * walk.limit \in Nat
      BY <1>1, <3>2, <3>9, Times
    <3>11. p + 1 = screen.no
      BY <3>7, <3>9
    <3>12. Rank(Q, k) > p * size
      BY <3>5, <3>6, <3>7, <3>10, <3>11
    <3> QED BY <2>1, <3>1, <3>5, <3>7, <3>9, <3>12
  <2>4. CASE TheList # "user"
    <3>1. walk'.seen = {} /\ walk'.limit = size /\ req'.page = 1
      BY <2>4 DEF Storno
    <3>2. Passed' = 0
      BY <1>1, <3>1 DEF Passed
    <3>3. Rank(Q, k) > 0
      BY <2>2, RankFacts
    <3> QED BY <1>1, <2>1, <3>1, <3>2, <3>3
  <2> QED BY <2>3, <2>4
<1> QED BY <1>1, <1>4 DEF GapsOK, CountOK

LEMMA TurnGaps ==
  ASSUME Shape, GapsOK, Turn, req'.pc # "carryover",
         walk.on /\ ~walk'.grew =>
           ~walk.grew /\ (walk'.limit <= walk.limit \/ (walk.limit = 0 /\ walk'.limit \in Sizes))
  PROVE  GapsOK'
<1>1. TheList' = TheList /\ Current' = Current /\ Passed' = Passed /\ Busy
      /\ walk'.on = walk.on /\ walk'.seen = walk.seen
  BY TurnEntries DEF Turn
<1>2. Behind' = Behind
  BY <1>1 DEF Behind, Turn
<1>3. Passed \in Nat /\ walk.limit \in Nat /\ Passed * walk.limit \in Nat /\ walk'.limit \in Nat
  <2>1. walk'.limit \in Sizes \cup {0}
    BY DEF Turn, Walk
  <2>2. Sizes \cup {0} \subseteq Nat
    BY PagesConstants
  <2>3. walk'.limit \in Nat
    BY <2>1, <2>2
  <2> QED BY <2>3, Numbers
<1>4. ASSUME walk.on, ~walk'.grew, TheList # "users", NEW k \in Behind
      PROVE  Rank(Current, k) > Passed * walk'.limit /\ \A s \in walk.seen : k < s
  <2>1. Rank(Current, k) > Passed * walk.limit /\ \A s \in walk.seen : k < s
    BY <1>4 DEF GapsOK
  <2>2. Current \in SUBSET Keys /\ k \in Current
    BY <1>1, <1>4, EntriesType DEF Shape, RequestOK, TheList, TheUser, Current, Behind
  <2>3. PICK S : S = Current
    OBVIOUS
  <2>4. Rank(S, k) \in Nat /\ Rank(S, k) > 0
    BY <2>2, <2>3, RankFacts
  <2>5. CASE walk'.limit <= walk.limit
    <3>1. Passed * walk'.limit <= Passed * walk.limit /\ Passed * walk'.limit \in Nat
      BY <1>3, <2>5, Times
    <3> QED BY <1>3, <2>1, <2>3, <2>4, <3>1
  <2>6. CASE walk.limit = 0
    <3>1. Passed = 0
      BY <1>4, <2>6 DEF Shape, WalkOK, Passed
    <3>2. Passed * walk'.limit = 0
      BY <1>3, <3>1
    <3> QED BY <2>1, <2>3, <2>4, <3>2
  <2> QED BY <1>4, <2>5, <2>6
<1>5. ASSUME walk.on, ~walk'.grew, TheList # "users"
      PROVE  \A k \in Behind' : Rank(Current', k) > Passed' * walk'.limit /\ \A s \in walk'.seen : k < s
  BY <1>1, <1>2, <1>4, <1>5
<1> QED BY <1>1, <1>5 DEF GapsOK

LEMMA TargetGaps ==
  ASSUME Shape, GapsOK, GetTargetUser
  PROVE  GapsOK' /\ CountOK'
<1>1. Turn /\ walk' = walk /\ req'.pc \in {"settings", "count"}
  BY TargetTurns
<1>2. GapsOK'
  BY <1>1, TurnGaps, Numbers
<1> QED BY <1>1, <1>2 DEF CountOK

LEMMA SettingsGaps ==
  ASSUME Shape, GapsOK, GetSettings
  PROVE  GapsOK' /\ CountOK'
<1>1. Turn /\ walk' = Paced(size) /\ req'.pc = "count" /\ size \in Sizes /\ size \in Nat
  BY SettingsTurns, PagesConstants DEF Shape, TypeOK
<1>2. walk.on => walk'.limit = size /\ walk'.grew = (walk.grew \/ (walk.limit # 0 /\ size > walk.limit))
  BY <1>1, PacedType
<1>3. ASSUME walk.on, ~walk'.grew
      PROVE  ~walk.grew /\ (walk'.limit <= walk.limit \/ (walk.limit = 0 /\ walk'.limit \in Sizes))
  <2>1. walk.limit \in Nat
    BY Numbers
  <2>2. walk'.limit = size /\ ~(walk.grew \/ (walk.limit # 0 /\ size > walk.limit))
    BY <1>2, <1>3
  <2>3. walk.limit = 0 \/ size <= walk.limit
    BY <1>1, <2>1, <2>2
  <2> QED BY <1>1, <2>2, <2>3
<1>4. GapsOK'
  BY <1>1, <1>3, TurnGaps
<1> QED BY <1>1, <1>4 DEF CountOK

LEMMA CountGaps ==
  ASSUME Shape, GapsOK, CountEntries
  PROVE  GapsOK' /\ CountOK'
<1>1. Turn /\ req'.pc = "list" /\ req'.total = Cardinality(Current)
      /\ walk'.limit = walk.limit /\ walk'.grew = walk.grew /\ walk'.late = 0
  BY CountTurns
<1>2. GapsOK'
  BY <1>1, TurnGaps, Numbers
<1>3. walk.on /\ TheList # "users" => Cardinality(Current) \in Nat
  BY EntriesType DEF Shape, RequestOK, Current, TheList, TheUser, Turn, CountEntries, Busy
<1>4. Busy /\ Current' = Current /\ TheList' = TheList /\ walk'.on = walk.on
  BY <1>1, TurnEntries DEF Turn
<1> QED BY <1>1, <1>2, <1>3, <1>4 DEF CountOK

LEMMA FetchesGaps ==
  ASSUME Shape, GapsOK, CountOK, NEW rows \in PageRows, Fetches(rows)
  PROVE  GapsOK' /\ CountOK'
<1>1. /\ TheList' = TheList /\ Current' = Current /\ Passed' = Passed /\ TheList = req.list
      /\ req.list = "member" /\ req.pc = "list" /\ walk' = walk /\ req'.rows = rows /\ cutoff' = cutoff
      /\ req'.page = req.page /\ req'.limit = req.limit /\ req'.total = req.total /\ req'.pc = "carryover"
  BY FetchesEntries DEF Fetches
<1>2. Behind' = Behind
  BY <1>1 DEF Behind
<1>3. ASSUME walk.on, ~walk.grew PROVE PageDone(rows)
  BY <1>1, <1>3, PageIsDone
<1>4. ASSUME walk.on, ~walk.grew
      PROVE  /\ \A k \in Behind' : Rank(Current', k) > Passed' * walk'.limit /\ \A s \in walk'.seen : k < s
             /\ \A k \in Behind' \ req'.rows :
                  Rank(Current', k) > req'.page * req'.limit /\ \A s \in req'.rows : k < s
  BY <1>1, <1>2, <1>3, <1>4 DEF GapsOK, PageDone
<1>5. GapsOK'
  BY <1>1, <1>4 DEF GapsOK
<1>6. ASSUME walk.on, ~walk.grew, req.page * req.limit >= req.total
      PROVE  Cardinality(Behind \ rows) <= walk.late
  BY <1>1, <1>3, <1>6, FewMissed
<1>7. CountOK'
  BY <1>1, <1>2, <1>6 DEF CountOK
<1> QED BY <1>5, <1>7

LEMMA ShowsGaps ==
  ASSUME Shape, GapsOK, NEW rows, NEW carry, Shows(rows, carry),
         walk.on /\ ~walk.grew /\ req.list # "users" => PageDone(rows)
  PROVE  GapsOK' /\ CountOK'
<1>1. /\ ~Busy' /\ TheList' = TheList /\ Current' = Current /\ Passed' = screen'.no
      /\ TheList = req.list
  BY ShowsEntries
<1>2. /\ req'.pc = "idle" /\ cutoff' = cutoff /\ walk'.on = walk.on /\ walk'.known = walk.known
      /\ walk'.limit = walk.limit /\ walk'.grew = walk.grew
      /\ (walk.on => walk'.seen = walk.seen \cup rows)
      /\ screen'.no \in Nat /\ screen'.no <= req.page /\ req.page \in Nat /\ walk.limit \in Nat
  BY Numbers DEF Shows, Idle, Screen
<1>3. walk.on => req.limit = walk.limit
  BY DEF Shape, WalkOK, Shows
<1>4. walk.on => Behind' = Behind \ rows
  BY <1>1, <1>2 DEF Behind
<1>5. ASSUME walk.on, ~walk.grew, TheList # "users", NEW k \in Behind'
      PROVE  Rank(Current', k) > Passed' * walk'.limit /\ \A s \in walk'.seen : k < s
  <2>1. k \in Behind /\ k \in Behind \ rows
    BY <1>4, <1>5
  <2>2. Rank(Current, k) > req.page * req.limit /\ \A s \in rows : k < s
    BY <1>1, <1>5, <2>1 DEF PageDone
  <2>3. \A s \in walk.seen : k < s
    BY <1>5, <2>1 DEF GapsOK
  <2>4. screen'.no * walk.limit <= req.page * walk.limit /\ screen'.no * walk.limit \in Nat
        /\ req.page * walk.limit \in Nat
    BY <1>2, Times
  <2>5. Rank(Current, k) \in Nat
    <3>1. k \in Current /\ Current \in SUBSET Keys
      BY <1>1, <1>5, <2>1, EntriesType DEF Behind, Current, TheUser, Shape, RequestOK, Shows
    <3>2. PICK S : S = Current
      OBVIOUS
    <3> QED BY <3>1, <3>2, RankFacts
  <2>6. Rank(Current, k) > screen'.no * walk.limit
    BY <1>3, <1>5, <2>2, <2>4, <2>5
  <2> QED BY <1>1, <1>2, <1>5, <2>2, <2>3, <2>6
<1> QED BY <1>1, <1>2, <1>5 DEF GapsOK, CountOK

LEMMA ListEntriesGaps ==
  ASSUME Shape, GapsOK, CountOK, ListEntries
  PROVE  GapsOK' /\ CountOK'
<1>1. PICK rows \in PageRows :
         /\ req.pc = "list"
         /\ req.list = "member" => Fetches(rows)
         /\ req.list # "member" => Shows(rows, req.carry)
  BY ListLists
<1>2. walk.on /\ ~walk.grew /\ req.list # "users" => PageDone(rows)
  BY <1>1, PageIsDone
<1> QED BY <1>1, <1>2, FetchesGaps, ShowsGaps

LEMMA CarryoverDone ==
  ASSUME Shape, GapsOK, walk.on, ~walk.grew, req.pc = "carryover"
  PROVE  PageDone(req.rows)
<1>1. TheList # "users"
  BY DEF Shape, RequestOK, TheList, Busy
<1> QED BY <1>1 DEF GapsOK, PageDone

LEMMA NextGaps ==
  ASSUME Shape, GapsOK, CountOK, [Next]_vars
  PROVE  GapsOK' /\ CountOK'
<1>1. CASE Others
  BY <1>1, OthersDrift, DriftGaps, DriftCount
<1>2. CASE Reader
  <2>1. ASSUME NEW list \in Lists, NEW u \in Subjects(list), OpenList(list, u) PROVE GapsOK' /\ CountOK'
    BY <2>1, OpenListGaps
  <2>2. ASSUME NEW k \in Keys, CancelOnPage(k) PROVE GapsOK' /\ CountOK'
    BY <2>2, CancelStornos, StornoGaps
  <2>3. ASSUME NEW p \in Keys, JumpTo(p) PROVE GapsOK' /\ CountOK'
    BY <2>3 DEF JumpTo, GapsOK, CountOK, NoWalk
  <2>4. ASSUME Abandon PROVE GapsOK' /\ CountOK'
    BY <2>4 DEF Abandon, GapsOK, CountOK, NoWalk
  <2>5. ASSUME GetCarryover PROVE GapsOK' /\ CountOK'
    BY <2>5, CarryoverShows, CarryoverDone, ShowsGaps
  <2> QED BY <1>2, <2>1, <2>2, <2>3, <2>4, <2>5, NextPageGaps, TargetGaps, SettingsGaps, CountGaps,
             ListEntriesGaps DEF Reader
<1>3. CASE UNCHANGED vars
  <2>1. /\ req' = req /\ screen' = screen /\ walk' = walk /\ row' = row /\ cutoff' = cutoff
    BY <1>3 DEF vars
  <2>2. TheList' = TheList /\ TheUser' = TheUser /\ Passed' = Passed /\ Current' = Current
    BY <2>1 DEF TheList, TheUser, Passed, Busy, Current, Entries, Owned
  <2>3. Behind' = Behind
    BY <2>1, <2>2 DEF Behind
  <2> QED BY <2>1, <2>2, <2>3 DEF GapsOK, CountOK, Rank
<1> QED BY <1>1, <1>2, <1>3 DEF Next

-----------------------------------------------------------------------------
(* While nobody changes anything.                                          *)

LEMMA BalanceType ==
  ASSUME TypeOK, NEW u \in Users
  PROVE  Balance(u) \in Int
<1> DEFINE all == Owned(u) \cup carried[u]
           stornos == {k \in all : row[k].cancels # NoKey}
<1>1. all \in SUBSET Keys
  BY DEF TypeOK, Owned
<1>2. stornos \in SUBSET Keys /\ all \ stornos \in SUBSET Keys
  BY <1>1
<1>3. Cardinality(stornos) \in Nat /\ Cardinality(all \ stornos) \in Nat
  BY <1>2, Bounds
<1> QED BY <1>3 DEF Balance

\* When the balances differ there is one order: by the number of accounts
\* that owe as much or more.
LEMMA PoorestPlace ==
  ASSUME TypeOK, DistinctBalances, NEW pos \in PoorestFirst(Users), NEW e \in Users
  PROVE  pos[e] = Cardinality({v \in Users : Balance(v) <= Balance(e)})
<1> DEFINE n == Cardinality(Users)
           L == {v \in Users : Balance(v) <= Balance(e)}
           H == Users \ L
<1>1. IsFiniteSet(Users) /\ n \in Nat
  BY PagesConstants, FS_CardinalityType
<1>2. /\ pos \in [Users -> 1..n]
      /\ \A u, v \in Users : u # v => pos[u] # pos[v]
      /\ \A u, v \in Users : Balance(u) < Balance(v) => pos[u] < pos[v]
  BY DEF PoorestFirst
<1> DEFINE p == pos[e]
<1>3. p \in 1..n
  BY <1>2
<1>4. \A v \in Users : Balance(v) \in Int
  BY BalanceType
<1>5. \A v \in L : pos[v] \in 1..p
  <2>1. ASSUME NEW v \in L, v # e PROVE pos[v] < p
    <3>1. Balance(v) # Balance(e)
      BY <2>1 DEF DistinctBalances
    <3>2. Balance(v) < Balance(e)
      BY <1>4, <2>1, <3>1
    <3> QED BY <1>2, <3>2
  <2> QED BY <1>1, <1>2, <1>3, <2>1
<1>6. \A v \in H : pos[v] \in p + 1..n
  <2>1. ASSUME NEW v \in H PROVE p < pos[v]
    <3>1. Balance(e) < Balance(v)
      BY <1>4
    <3> QED BY <1>2, <3>1
  <2> QED BY <1>1, <1>2, <1>3, <2>1
<1>7. L \in SUBSET Users /\ H \in SUBSET Users
  OBVIOUS
<1> HIDE DEF n, p, L
<1>8. IsFiniteSet(L) /\ IsFiniteSet(H) /\ Cardinality(L) \in Nat /\ Cardinality(H) \in Nat
  BY <1>1, <1>7, FS_Subset, FS_CardinalityType
<1>9. Cardinality(L) <= p
  <2>1. IsFiniteSet(1..p) /\ Cardinality(1..p) = p
    BY <1>1, <1>3, FS_Interval
  <2>2. [v \in L |-> pos[v]] \in Injection(L, 1..p)
    BY <1>2, <1>5, <1>7 DEF Injection, IsInjective
  <2>3. Cardinality(L) <= Cardinality(1..p)
    BY <2>1, <2>2, FS_Injection DEF ExistsInjection
  <2> QED BY <2>1, <2>3
<1>10. Cardinality(H) <= n - p
  <2>1. IsFiniteSet(p + 1..n) /\ Cardinality(p + 1..n) = n - p
    <3>1. p + 1 \in Int /\ n \in Int /\ p \in Int /\ p <= n
      BY <1>1, <1>3
    <3>2. IsFiniteSet(p + 1..n) /\ Cardinality(p + 1..n) = IF p + 1 > n THEN 0 ELSE n - (p + 1) + 1
      BY <3>1, FS_Interval
    <3> QED BY <3>1, <3>2
  <2>2. [v \in H |-> pos[v]] \in Injection(H, p + 1..n)
    BY <1>2, <1>6, <1>7 DEF Injection, IsInjective
  <2>3. Cardinality(H) <= Cardinality(p + 1..n)
    BY <2>1, <2>2, FS_Injection DEF ExistsInjection
  <2> QED BY <2>1, <2>3
<1>11. Cardinality(H) = n - Cardinality(L)
  <2>1. Cardinality(Users \ L) = Cardinality(Users) - Cardinality(Users \cap L)
    BY <1>1, FS_Difference
  <2>2. Users \cap L = L
    BY <1>7
  <2> QED BY <2>1, <2>2 DEF n
<1>12. p = Cardinality(L)
  <2> HIDE DEF H
  <2> QED BY <1>1, <1>3, <1>8, <1>9, <1>10, <1>11
<1> QED BY <1>12 DEF p, L

LEMMA UsersPlace ==
  ASSUME TypeOK, NEW e \in Users
  PROVE  /\ Cardinality({v \in Users : Balance(v) <= Balance(e)}) \in Nat \ {0}
         /\ Cardinality({v \in Users : Balance(v) <= Balance(e)}) <= Cardinality(Users)
<1> DEFINE L == {v \in Users : Balance(v) <= Balance(e)}
<1>1. Balance(e) \in Int
  BY BalanceType
<1>2. e \in L /\ L \in SUBSET Users
  BY <1>1
<1> HIDE DEF L
<1>3. IsFiniteSet(L) /\ Cardinality(L) \in Nat /\ Cardinality(L) <= Cardinality(Users)
  BY <1>2, PagesConstants, FS_Subset, FS_CardinalityType
<1>4. Cardinality(L) # 0
  BY <1>2, <1>3, FS_EmptySet
<1> QED BY <1>3, <1>4 DEF L

\* The lists that a quiet walk is about.
Steady == TheList = "users" => DistinctBalances

LEMMA PlaceFacts ==
  ASSUME Shape, TheList \in Lists, TheUser \in Subjects(TheList)
  PROVE  \A e \in Current : /\ Place(TheList, Current, e) \in Nat \ {0}
                            /\ Place(TheList, Current, e) <= Cardinality(Current)
<1>1. CASE TheList = "users"
  <2>1. Current = Users /\ IsFiniteSet(Users)
    BY <1>1, PagesConstants DEF Current, Entries
  <2>2. TypeOK
    BY DEF Shape
  <2> QED BY <1>1, <2>1, <2>2, UsersPlace DEF Place
<1>2. CASE TheList # "users"
  <2>1. Current \in SUBSET Keys
    BY <1>2, EntriesType DEF Current
  <2>2. PICK S : S = Current
    OBVIOUS
  <2>3. \A e \in S : Rank(S, e) \in Nat \ {0} /\ Rank(S, e) <= Cardinality(S)
    BY <2>1, <2>2, RankFacts
  <2> QED BY <1>2, <2>2, <2>3 DEF Place
<1> QED BY <1>1, <1>2

\* A page of such a list.
LEMMA SteadyPage ==
  ASSUME Shape, Steady, req.pc = "list", NEW rows \in PageRows
  PROVE  rows = {e \in Current : /\ Passed * req.limit < Place(TheList, Current, e)
                                 /\ Place(TheList, Current, e) <= req.page * req.limit}
<1>1. TheList = req.list /\ TheUser = req.user /\ Passed = req.page - 1 /\ Current = Entries(req.list, req.user)
      /\ req.list \in Lists /\ req.user \in Subjects(req.list)
  BY DEF TheList, TheUser, Busy, Passed, Current, Shape, RequestOK
<1>2. req.page \in Nat \ {0} /\ req.limit \in Nat
  BY Numbers DEF Shape, RequestOK, Busy
<1>3. CASE req.list # "users"
  <2>1. Current \in SUBSET Keys
    BY <1>1, <1>3, EntriesType
  <2>2. PICK pos \in NewestFirst(Current) : rows = Slice(pos, req.limit, Offset(req.page, req.limit))
    BY <1>1, <1>3 DEF PageRows, Orders
  <2>3. PICK S : S = Current
    OBVIOUS
  <2>4. rows = {e \in S : (req.page - 1) * req.limit < Rank(S, e) /\ Rank(S, e) <= req.page * req.limit}
    BY <1>2, <2>1, <2>2, <2>3, SliceOf
  <2>5. \A e : Place(TheList, Current, e) = Rank(S, e)
    BY <1>1, <1>3, <2>3 DEF Place
  <2> QED BY <1>1, <2>3, <2>4, <2>5
<1>4. CASE req.list = "users"
  <2>1. Current = Users /\ TypeOK /\ DistinctBalances
    BY <1>1, <1>4 DEF Entries, Shape, Steady
  <2>2. PICK pos \in PoorestFirst(Users) : rows = Slice(pos, req.limit, Offset(req.page, req.limit))
    BY <1>4 DEF PageRows, Orders
  <2>3. DOMAIN pos = Users
    BY DEF PoorestFirst
  <2>4. \A e \in Users : pos[e] = Place(TheList, Current, e)
    BY <1>1, <1>4, <2>1, <2>2, PoorestPlace DEF Place
  <2>5. Offset(req.page, req.limit) = Passed * req.limit
        /\ Offset(req.page, req.limit) + req.limit = req.page * req.limit
    <3>1. PICK p \in Nat : req.page = p + 1
      <4>1. req.page - 1 \in Nat /\ req.page = (req.page - 1) + 1
        BY <1>2
      <4> QED BY <4>1
    <3> QED BY <1>1, <1>2, <3>1, OnePageMore DEF Offset
  <2>6. PICK m, k : m = Passed * req.limit /\ k = req.page * req.limit
    OBVIOUS
  <2>7. rows = {e \in DOMAIN pos : m < pos[e] /\ pos[e] <= k}
    BY <2>2, <2>5, <2>6 DEF Slice
  <2>8. rows = {e \in Current : m < Place(TheList, Current, e) /\ Place(TheList, Current, e) <= k}
    BY <2>1, <2>3, <2>4, <2>7
  <2> QED BY <2>6, <2>8
<1> QED BY <1>3, <1>4

LEMMA SamePlaces ==
  ASSUME row' = row, carried' = carried, TheList' = TheList, Current' = Current
  PROVE  (Steady' <=> Steady) /\ \A e : Place(TheList, Current, e)' = Place(TheList, Current, e)
<1>1. \A u : Balance(u)' = Balance(u)
  <2>1. \A u : Owned(u)' = Owned(u)
    BY DEF Owned
  <2> QED BY <2>1 DEF Balance
<1>2. Steady' <=> Steady
  BY <1>1 DEF Steady, DistinctBalances
<1>3. ASSUME NEW e PROVE Place(TheList, Current, e)' = Place(TheList, Current, e)
  <2>1. {v \in Current : Balance(v)' <= Balance(e)'} = {v \in Current : Balance(v) <= Balance(e)}
    BY <1>1
  <2>2. Rank(Current, e)' = Rank(Current, e)
    BY DEF Rank
  <2> QED BY <2>1, <2>2 DEF Place
<1> QED BY <1>2, <1>3

\* A step of a request at which nothing more is shown.
LEMMA StillSeen ==
  ASSUME Shape, QuietOK, row' = row, carried' = carried, TheList' = TheList, Current' = Current,
         Passed' = Passed, walk'.seen = walk.seen, walk.on, walk.quiet, Steady,
         walk'.limit = walk.limit \/ (Passed = 0 /\ walk'.limit \in Nat)
  PROVE  walk'.seen = {e \in Current' : Place(TheList, Current, e)' <= Passed' * walk'.limit}
<1>1. walk.seen = {e \in Current : Place(TheList, Current, e) <= Passed * walk.limit}
  BY DEF QuietOK, Steady
<1>2. \A e : Place(TheList, Current, e)' = Place(TheList, Current, e)
  BY SamePlaces
<1>3. PICK m : m = Passed * walk.limit
  OBVIOUS
<1>4. Passed * walk'.limit = m
  <2>1. CASE walk'.limit = walk.limit
    BY <1>3, <2>1
  <2>2. CASE Passed = 0 /\ walk'.limit \in Nat
    BY <1>3, <2>2, Numbers
  <2> QED BY <2>1, <2>2
<1>5. Passed' * walk'.limit = m
  BY <1>4
<1> QED BY <1>1, <1>2, <1>3, <1>5

LEMMA TurnQuiet ==
  ASSUME Shape, QuietOK, Turn, req'.pc # "carryover",
         req'.pc = "list" => req'.total = Cardinality(Current),
         req.list = "user" => req'.carry = carried[req.user]
                              \/ (req'.carry = req.carry /\ req.pc \in {"settings", "count"}),
         walk.on => walk'.limit = walk.limit \/ (walk'.limit = size /\ walk.limit \in {0, size})
                    \/ (walk'.limit = size /\ ~walk.quiet)
  PROVE  QuietOK'
<1> SUFFICES ASSUME walk.on, walk.quiet, Steady PROVE QuietOK'
  <2>1. Steady' <=> Steady
    BY TurnEntries, SamePlaces DEF Turn
  <2>2. walk'.on = walk.on /\ walk'.quiet = walk.quiet
    BY DEF Turn
  <2> QED BY <2>1, <2>2 DEF QuietOK, Steady
<1>1. /\ TheList' = TheList /\ Current' = Current /\ Passed' = Passed
      /\ row' = row /\ carried' = carried /\ size' = size /\ walk'.seen = walk.seen
      /\ walk'.again = walk.again /\ req'.list = req.list /\ req'.user = req.user
  BY TurnEntries DEF Turn
<1>2. walk.limit \in {0, size} /\ walk.again = {}
  BY DEF QuietOK, Steady
<1>3. walk'.limit = walk.limit \/ (Passed = 0 /\ walk'.limit \in Nat /\ walk'.limit = size)
  <2>1. walk.limit = 0 => Passed = 0
    BY DEF Shape, WalkOK, Passed
  <2> QED BY <1>2, <2>1, PagesConstants DEF Turn, Walk
<1>4. walk'.seen = {e \in Current' : Place(TheList, Current, e)' <= Passed' * walk'.limit}
  BY <1>1, <1>3, StillSeen
<1>5. req'.list = "user" /\ req'.pc \in {"settings", "count", "list"} => req'.carry = carried'[req'.user]
  BY <1>1 DEF QuietOK, Steady
<1>6. walk'.limit \in {0, size'} /\ walk'.again = {}
  BY <1>1, <1>2, <1>3
<1>7. req'.pc = "list" => req'.total = Cardinality(Current')
  BY <1>1
<1> QED BY <1>4, <1>5, <1>6, <1>7 DEF QuietOK

LEMMA TurnsQuiet ==
  ASSUME Shape, QuietOK, GetTargetUser \/ GetSettings \/ CountEntries
  PROVE  QuietOK'
<1>1. CASE GetTargetUser
  BY <1>1, TargetTurns, TurnQuiet
<1>2. CASE GetSettings
  <2>1. Turn /\ walk' = Paced(size) /\ req.pc = "settings" /\ req'.pc = "count" /\ req'.carry = req.carry
        /\ size \in Sizes
    BY <1>2, SettingsTurns DEF Shape, TypeOK
  <2>2. walk.on => walk'.limit = size
    BY <2>1, PacedType
  <2>3. walk.on => (walk.limit \in {0, size} \/ ~walk.quiet \/ ~Steady)
    BY DEF QuietOK, Steady
  <2>4. CASE walk.on => (walk.limit \in {0, size} \/ ~walk.quiet)
    BY <2>1, <2>2, <2>4, TurnQuiet
  <2>5. CASE ~Steady
    <3>1. ~Steady'
      BY <2>1, <2>5, TurnEntries, SamePlaces DEF Turn
    <3> QED BY <3>1 DEF QuietOK, Steady
  <2> QED BY <2>3, <2>4, <2>5
<1>3. CASE CountEntries
  BY <1>3, CountTurns, TurnQuiet
<1> QED BY <1>1, <1>2, <1>3

LEMMA OpenListQuiet ==
  ASSUME Shape, NEW list \in Lists, NEW u \in Subjects(list), OpenList(list, u)
  PROVE  QuietOK'
<1>2. /\ req'.list = list /\ req'.user = u /\ req'.page = 1
      /\ req'.pc = IF list = "user" THEN "target" ELSE "settings"
  BY OpenListFacts
<1>3. walk'.seen = {} /\ walk'.limit = 0 /\ walk'.again = {}
  BY OpenListFacts
<1>4. TheList' = list /\ TheUser' = u /\ Passed' = 0
  BY <1>2 DEF Busy, TheList, TheUser, Passed
<1>5. ASSUME NEW e \in Current' PROVE Place(TheList, Current, e)' \in Nat \ {0}
  <2>1. row' = row /\ carried' = carried
    BY OpenListFacts
  <2>2. \A v : Owned(v)' = Owned(v)
    BY <2>1 DEF Owned
  <2>3. \A v : Balance(v)' = Balance(v)
    BY <2>1, <2>2 DEF Balance
  <2>4. CASE list = "users"
    <3>1. Current' = Users /\ TypeOK
      BY <1>4, <2>4 DEF Current, Entries, Shape
    <3>2. {v \in Users : Balance(v)' <= Balance(e)'} = {v \in Users : Balance(v) <= Balance(e)}
      BY <2>3
    <3>3. Cardinality({v \in Users : Balance(v) <= Balance(e)}) \in Nat \ {0}
      BY <1>5, <3>1, UsersPlace
    <3> QED BY <1>4, <2>4, <3>1, <3>2, <3>3 DEF Place
  <2>5. CASE list # "users"
    <3>1. Current' \in SUBSET Keys
      <4>1. PICK v : v = u
        OBVIOUS
      <4>2. Current' = Entries(list, v)' /\ Entries(list, v)' = Entries(list, v)
        BY <1>4, <2>1, <2>2, <4>1 DEF Current, Entries, Owned
      <4> QED BY <2>5, <4>1, <4>2, EntriesType
    <3>2. PICK S : S = Current'
      OBVIOUS
    <3>3. Rank(S, e) \in Nat \ {0}
      BY <1>5, <3>1, <3>2, RankFacts
    <3>4. Place(TheList, Current, e)' = Rank(S, e)
      BY <1>4, <2>5, <3>2 DEF Place, Rank
    <3> QED BY <3>3, <3>4
  <2> QED BY <2>4, <2>5
<1>6. {e \in Current' : Place(TheList, Current, e)' <= 0} = {}
  BY <1>5
<1> QED BY <1>2, <1>3, <1>4, <1>6 DEF QuietOK

\* Nothing has been seen of a list that is opened again after a cancellation.
LEMMA StornoQuiet ==
  ASSUME Shape, NEW n, Storno(n)
  PROVE  QuietOK'
<1>1. TheList' = TheList /\ TheUser' = TheUser /\ TheList # "users" /\ Busy' /\ size' = size
      /\ req'.pc \in {"target", "count"} /\ req'.list = TheList
  BY DEF Storno, TheList, Busy
<1>2. CASE TheList = "user"
  <2>1. walk'.on => ~walk'.quiet
    BY <1>2 DEF Storno
  <2> QED BY <2>1 DEF QuietOK
<1>3. CASE TheList # "user"
  <2>1. walk'.seen = {} /\ walk'.again = {} /\ walk'.limit = size /\ req'.page = 1 /\ size \in Nat
    BY <1>3, PagesConstants DEF Storno, Shape, TypeOK
  <2>2. Passed' = 0
    BY <1>1, <2>1 DEF Passed
  <2>3. Current' \in SUBSET Keys
    BY <1>1, <1>3, PagesConstants DEF Storno, Current, Entries, Owned
  <2>4. ASSUME NEW e \in Current' PROVE Place(TheList, Current, e)' \in Nat \ {0}
    <3>1. PICK S : S = Current'
      OBVIOUS
    <3>2. Rank(S, e) \in Nat \ {0}
      BY <2>3, <2>4, <3>1, RankFacts
    <3>3. Place(TheList, Current, e)' = Rank(S, e)
      BY <1>1, <3>1 DEF Place, Rank
    <3> QED BY <3>2, <3>3
  <2>5. {e \in Current' : Place(TheList, Current, e)' <= 0} = {}
    BY <2>4
  <2>6. Passed' * walk'.limit = 0
    BY <2>1, <2>2
  <2> QED BY <1>1, <1>3, <2>1, <2>5, <2>6 DEF QuietOK
<1> QED BY <1>2, <1>3

LEMMA NextPageQuiet ==
  ASSUME Shape, GapsOK, QuietOK, NextPage
  PROVE  QuietOK'
<1>1. /\ TheList' = TheList /\ TheUser' = TheUser /\ Passed' = Passed /\ Current' = Current
      /\ req'.pc \in {"target", "settings"} /\ req'.carry = {}
  BY NextPageGaps
<1>2. /\ row' = row /\ carried' = carried /\ size' = size /\ walk' = walk
      /\ req' = Request(screen.list, screen.user, screen.no + 1)
  BY DEF NextPage, tables
<1>3. req'.list = "user" => req'.pc = "target"
  BY <1>2 DEF Request, Idle, FirstStatement
<1>4. Steady' <=> Steady
  BY <1>1, <1>2, SamePlaces
<1>5. ASSUME walk.on, walk.quiet, Steady
      PROVE  /\ walk'.limit \in {0, size'} /\ walk'.again = {}
             /\ walk'.seen = {e \in Current' : Place(TheList, Current, e)' <= Passed' * walk'.limit}
  <2>1. walk'.seen = {e \in Current' : Place(TheList, Current, e)' <= Passed' * walk'.limit}
    BY <1>1, <1>2, <1>5, StillSeen
  <2> QED BY <1>2, <1>5, <2>1 DEF QuietOK, Steady
<1> QED BY <1>1, <1>2, <1>3, <1>4, <1>5 DEF QuietOK, Steady

LEMMA FetchesQuiet ==
  ASSUME Shape, QuietOK, NEW rows \in PageRows, Fetches(rows)
  PROVE  QuietOK'
<1>1. /\ TheList' = TheList /\ Current' = Current /\ Passed' = Passed /\ TheList = "member"
      /\ row' = row /\ carried' = carried /\ size' = size /\ walk' = walk /\ req.pc = "list"
      /\ req'.pc = "carryover" /\ req'.rows = rows /\ req'.list = "member" /\ req'.total = req.total
      /\ req'.page = req.page /\ req'.limit = req.limit
  BY FetchesEntries DEF Fetches
<1>2. (Steady' <=> Steady) /\ \A e : Place(TheList, Current, e)' = Place(TheList, Current, e)
  BY <1>1, SamePlaces
<1>3. ASSUME walk.on, walk.quiet, Steady
      PROVE  /\ walk'.limit \in {0, size'} /\ walk'.again = {} /\ req'.total = Cardinality(Current')
             /\ walk'.seen = {e \in Current' : Place(TheList, Current, e)' <= Passed' * walk'.limit}
             /\ req'.rows = {e \in Current' : /\ Passed' * req'.limit < Place(TheList, Current, e)'
                                              /\ Place(TheList, Current, e)' <= req'.page * req'.limit}
  <2>1. walk'.seen = {e \in Current' : Place(TheList, Current, e)' <= Passed' * walk'.limit}
    BY <1>1, <1>3, StillSeen
  <2>2. rows = {e \in Current : /\ Passed * req.limit < Place(TheList, Current, e)
                                /\ Place(TheList, Current, e) <= req.page * req.limit}
    BY <1>1, <1>3, SteadyPage
  <2>3. req'.rows = {e \in Current' : /\ Passed' * req'.limit < Place(TheList, Current, e)'
                                      /\ Place(TheList, Current, e)' <= req'.page * req'.limit}
    BY <1>1, <1>2, <2>2
  <2>4. walk.limit \in {0, size} /\ walk.again = {} /\ req.total = Cardinality(Current)
    BY <1>1, <1>3 DEF QuietOK, Steady
  <2> QED BY <1>1, <2>1, <2>3, <2>4
<1> QED BY <1>1, <1>2, <1>3 DEF QuietOK, Steady

\* The page of a quiet walk that is shown is what the pages before it lack.
LEMMA ShowsQuiet ==
  ASSUME Shape, QuietOK, NEW rows, NEW carry, Shows(rows, carry),
         Steady => rows = {e \in Current : /\ Passed * req.limit < Place(TheList, Current, e)
                                           /\ Place(TheList, Current, e) <= req.page * req.limit}
  PROVE  /\ QuietOK'
         /\ walk.on /\ walk.quiet /\ Steady /\ screen'.no >= screen'.pages => walk'.seen = Current
<1>1. /\ TheList' = TheList /\ Current' = Current /\ Passed' = screen'.no
      /\ row' = row /\ carried' = carried /\ size' = size /\ req'.pc = "idle" /\ ~Busy'
      /\ req'.list = "none" /\ TheList = req.list /\ TheUser = req.user
  BY ShowsEntries DEF Shows, Idle
<1>2. (Steady' <=> Steady) /\ \A e : Place(TheList, Current, e)' = Place(TheList, Current, e)
  BY <1>1, SamePlaces
<1> SUFFICES ASSUME walk.on, walk.quiet, Steady
             PROVE  /\ walk'.limit \in {0, size'} /\ walk'.again = {}
                    /\ walk'.seen = {e \in Current' : Place(TheList, Current, e)' <= Passed' * walk'.limit}
                    /\ screen'.no >= screen'.pages => walk'.seen = Current
  <2>1. walk'.on = walk.on /\ walk'.quiet = walk.quiet
    BY DEF Shows
  <2> QED BY <1>1, <1>2, <2>1 DEF QuietOK, Steady
<1>3. /\ walk'.limit = walk.limit /\ walk'.seen = walk.seen \cup rows
      /\ walk'.again = walk.again \cup (walk.seen \cap rows)
      /\ screen'.pages = TotalPages(req.total, req.limit) /\ screen'.no <= req.page /\ screen'.no >= 1
      /\ screen'.no = (IF req.clamp THEN Clamped(req.page, screen'.pages) ELSE req.page)
      /\ req.pc \in {"list", "carryover"} /\ Busy /\ screen' \in Screen
  BY DEF Shows
<1>4. /\ req.page \in Nat \ {0} /\ req.limit \in Nat \ {0} /\ req.limit = walk.limit
      /\ Passed = req.page - 1 /\ req.total \in Nat /\ screen'.no \in Nat /\ screen'.pages \in Nat
  <2>1. req.limit \in Sizes /\ req.page >= 1 /\ req.limit = walk.limit
    BY <1>3 DEF Shape, RequestOK, WalkOK
  <2>2. screen'.no \in Nat /\ screen'.pages \in Nat
    BY <1>3 DEF Screen
  <2> QED BY <1>3, <2>1, <2>2, Numbers, PagesConstants
<1>5. /\ walk.limit \in {0, size} /\ walk.again = {} /\ req.total = Cardinality(Current)
      /\ walk.seen = {e \in Current : Place(TheList, Current, e) <= Passed * walk.limit}
  BY <1>3 DEF QuietOK, Steady
<1>6. PICK m, k, l \in Nat : /\ m = Passed * req.limit /\ k = req.page * req.limit
                             /\ l = screen'.no * req.limit
  BY <1>4, Times, Numbers
<1>7. m <= k
  <2>1. PICK p \in Nat : p = req.page - 1
    BY <1>4
  <2> QED BY <1>4, <1>6, <2>1, Times
<1>8. \A e \in Current : /\ Place(TheList, Current, e) \in Nat
                         /\ Place(TheList, Current, e) <= req.total
  <2>1. TheList \in Lists /\ TheUser \in Subjects(TheList)
    BY <1>1, <1>3 DEF Shape, RequestOK
  <2> QED BY <1>5, <2>1, PlaceFacts
<1>9. /\ walk.seen = {e \in Current : Place(TheList, Current, e) <= m}
      /\ rows = {e \in Current : m < Place(TheList, Current, e) /\ Place(TheList, Current, e) <= k}
  BY <1>4, <1>5, <1>6
<1>10. walk'.again = {}
  BY <1>3, <1>5, <1>8, <1>9
<1>11. walk'.seen = {e \in Current : Place(TheList, Current, e) <= k}
  BY <1>3, <1>7, <1>8, <1>9
<1>12. screen'.pages * req.limit >= req.total /\ screen'.pages * req.limit \in Nat
  BY <1>3, <1>4, PagesCover, Times
<1>13. screen'.no >= screen'.pages => l >= req.total
  <2>1. screen'.no >= screen'.pages => screen'.pages * req.limit <= l
    BY <1>4, <1>6, Times
  <2> QED BY <1>4, <1>6, <1>12, <2>1
<1>14. l <= k
  BY <1>3, <1>4, <1>6, Times
<1>15. screen'.no # req.page => screen'.no = screen'.pages
  BY <1>3 DEF Clamped
<1>16. k = l \/ l >= req.total
  BY <1>4, <1>6, <1>13, <1>15
<1>17. walk'.seen = {e \in Current : Place(TheList, Current, e) <= l}
  BY <1>4, <1>8, <1>11, <1>14, <1>16
<1>18. walk'.seen = {e \in Current' : Place(TheList, Current, e)' <= Passed' * walk'.limit}
  <2>1. Passed' * walk'.limit = l
    BY <1>1, <1>3, <1>4, <1>6
  <2> QED BY <1>1, <1>2, <1>17, <2>1
<1>19. screen'.no >= screen'.pages => walk'.seen = Current
  BY <1>4, <1>8, <1>13, <1>17
<1> QED BY <1>1, <1>3, <1>5, <1>10, <1>18, <1>19

LEMMA ListEntriesQuiet ==
  ASSUME Shape, QuietOK, ListEntries
  PROVE  QuietOK'
<1>1. PICK rows \in PageRows :
         /\ req.pc = "list"
         /\ req.list = "member" => Fetches(rows)
         /\ req.list # "member" => Shows(rows, req.carry)
  BY ListLists
<1>2. Steady => rows = {e \in Current : /\ Passed * req.limit < Place(TheList, Current, e)
                                        /\ Place(TheList, Current, e) <= req.page * req.limit}
  BY <1>1, SteadyPage
<1> QED BY <1>1, <1>2, FetchesQuiet, ShowsQuiet

LEMMA CarryoverQuiet ==
  ASSUME Shape, QuietOK, GetCarryover
  PROVE  /\ QuietOK'
         /\ walk.on /\ walk.quiet /\ screen'.no >= screen'.pages => walk'.seen = Current
<1>1. Shows(req.rows, carried[req.user]) /\ req.pc = "carryover" /\ req.list = "member"
  BY CarryoverShows
<1>2. Steady
  BY <1>1 DEF Steady, TheList, Busy
<1>3. CASE walk.on /\ walk.quiet
  <2>1. req.rows = {e \in Current : /\ Passed * req.limit < Place(TheList, Current, e)
                                    /\ Place(TheList, Current, e) <= req.page * req.limit}
    BY <1>1, <1>2, <1>3 DEF QuietOK, Steady
  <2> QED BY <1>1, <1>2, <1>3, <2>1, ShowsQuiet
<1>4. CASE ~(walk.on /\ walk.quiet)
  <2>1. ~(walk'.on /\ walk'.quiet)
    BY <1>1, <1>4 DEF Shows
  <2> QED BY <1>4, <2>1 DEF QuietOK
<1> QED BY <1>3, <1>4

LEMMA NextQuiet ==
  ASSUME Shape, GapsOK, QuietOK, [Next]_vars
  PROVE  QuietOK'
<1>1. CASE Others
  BY <1>1, OthersDrift, DriftQuiet
<1>2. CASE Reader
  <2>1. ASSUME NEW list \in Lists, NEW u \in Subjects(list), OpenList(list, u) PROVE QuietOK'
    BY <2>1, OpenListQuiet
  <2>2. ASSUME NEW k \in Keys, CancelOnPage(k) PROVE QuietOK'
    BY <2>2, CancelStornos, StornoQuiet
  <2>3. ASSUME NEW p \in Keys, JumpTo(p) PROVE QuietOK'
    BY <2>3 DEF JumpTo, QuietOK, NoWalk
  <2>4. ASSUME Abandon PROVE QuietOK'
    BY <2>4 DEF Abandon, QuietOK, NoWalk
  <2> QED BY <1>2, <2>1, <2>2, <2>3, <2>4, NextPageQuiet, TurnsQuiet, ListEntriesQuiet, CarryoverQuiet
          DEF Reader
<1>3. CASE UNCHANGED vars
  <2>1. /\ req' = req /\ screen' = screen /\ walk' = walk /\ row' = row /\ carried' = carried /\ size' = size
    BY <1>3 DEF vars
  <2>2. TheList' = TheList /\ TheUser' = TheUser /\ Passed' = Passed /\ Current' = Current /\ Busy' = Busy
    BY <2>1 DEF TheList, TheUser, Passed, Busy, Current, Entries, Owned
  <2>3. (Steady' <=> Steady) /\ \A e : Place(TheList, Current, e)' = Place(TheList, Current, e)
    BY <2>1, <2>2, SamePlaces
  <2>4. CASE walk.on /\ walk.quiet /\ Steady
    <3>1. walk.seen = {e \in Current : Place(TheList, Current, e) <= Passed * walk.limit}
      BY <2>4 DEF QuietOK, Steady
    <3>2. walk'.seen = {e \in Current' : Place(TheList, Current, e)' <= Passed' * walk'.limit}
      BY <2>1, <2>2, <2>3, <3>1
    <3>3. req.pc = "carryover" =>
            req'.rows = {e \in Current' : /\ Passed' * req'.limit < Place(TheList, Current, e)'
                                          /\ Place(TheList, Current, e)' <= req'.page * req'.limit}
      BY <2>1, <2>2, <2>3, <2>4 DEF QuietOK, Steady
    <3> QED BY <2>1, <2>2, <2>4, <3>2, <3>3 DEF QuietOK, Steady
  <2>5. CASE ~(walk.on /\ walk.quiet /\ Steady)
    BY <2>1, <2>2, <2>3, <2>5 DEF QuietOK, Steady
  <2> QED BY <2>4, <2>5
<1> QED BY <1>1, <1>2, <1>3 DEF Next

-----------------------------------------------------------------------------
(* The theorems.                                                           *)

LEMMA InitHolds ==
  ASSUME Init
  PROVE  IInv
<1>1. GapsOK /\ CountOK /\ QuietOK
  BY DEF Init, NoWalk, GapsOK, CountOK, QuietOK
<1> QED BY <1>1, InitShape DEF IInv, Shape

LEMMA NextHolds ==
  ASSUME IInv, [Next]_vars
  PROVE  IInv'
<1>1. Shape /\ GapsOK /\ CountOK /\ QuietOK
  BY DEF IInv, Shape
<1>2. Shape' /\ GapsOK' /\ CountOK' /\ QuietOK'
  BY <1>1, NextShape, NextGaps, NextQuiet
<1> QED BY <1>2 DEF IInv, Shape

THEOREM PagesInductive == Spec => []IInv
<1>1. Init => IInv
  BY InitHolds
<1>2. IInv /\ [Next]_vars => IInv'
  BY NextHolds
<1> QED BY <1>1, <1>2, PTL DEF Spec

\* The variables of the lists have the types that the statements rely on, and
\* a list in the browser is at a page from 1 on.
THEOREM PagesTypeCorrect == Spec => []TypeOK
<1>1. IInv => TypeOK
  BY DEF IInv
<1> QED BY <1>1, PagesInductive, PTL

\* An admin who looks at one account never sees an amount twice.
THEOREM AdminCountsOnceHolds == Spec => []AdminCountsOnce
<1>1. IInv => AdminCountsOnce
  BY DEF IInv, ScreenOK, AdminCountsOnce
<1> QED BY <1>1, PagesInductive, PTL

\* Whatever is booked, cancelled and anonymized between two pages, for every
\* number of bookings and every page size, a walk does not skip: what it has
\* not shown by now, and what is still in the list, is older than all it has.
THEOREM NoGapsHolds == Spec => []NoGaps
<1>1. ASSUME IInv PROVE NoGaps
  <2> SUFFICES ASSUME walk.on, walk.seen # {}, ~walk.grew, screen.list # "users"
               PROVE  \A k \in walk.known \cap Entries(screen.list, screen.user) :
                        (screen.list = "all" \/ k >= cutoff) /\ k \notin walk.seen
                          => \A s \in walk.seen : k < s
    BY DEF NoGaps
  <2>1. TheList = screen.list /\ TheUser = screen.user
    BY <1>1 DEF IInv, WalkOK, RequestOK, TheList, TheUser
  <2>2. Behind = {k \in walk.known \cap Entries(screen.list, screen.user) :
                    (screen.list = "all" \/ k >= cutoff) /\ k \notin walk.seen}
    BY <2>1 DEF Behind, Current
  <2>3. \A k \in Behind : \A s \in walk.seen : k < s
    BY <1>1, <2>1 DEF IInv, GapsOK
  <2> QED BY <2>2, <2>3
<1> QED BY <1>1, PagesInductive, PTL

\* The step that ends a walk shows the last page.
LEMMA LastStep ==
  ASSUME IInv, [Next]_vars, LastShown
  PROVE  /\ Shape /\ Shape' /\ walk.on
         /\ \/ req.pc = "list" /\ req.list # "member" /\ ListEntries
               /\ \E rows \in PageRows : Shows(rows, req.carry)
            \/ req.pc = "carryover" /\ req.list = "member" /\ req.user \in Users /\ GetCarryover
               /\ Shows(req.rows, carried[req.user])
<1>1. Shape /\ Shape'
  BY NextShape DEF IInv, Shape
<1>2. req.pc \in {"list", "carryover"} /\ req' # req /\ walk'.on
  BY DEF LastShown, Shown
<1>3. ~Others /\ ~UNCHANGED vars
  <2>1. Others => req' = req
    BY DEF Others, BeginBooking, CommitBooking, RollbackBooking, AnonymizeTransactions, SetPageSize
  <2> QED BY <1>2, <2>1 DEF vars
<1>4. ListEntries \/ GetCarryover
  BY <1>2, <1>3 DEF Next, Reader, OpenList, NextPage, JumpTo, CancelOnPage, GetTargetUser, GetSettings,
                    CountEntries, Abandon, NoWalk
<1>5. CASE ListEntries
  <2>1. PICK rows \in PageRows :
          /\ req.pc = "list"
          /\ req.list = "member" => Fetches(rows)
          /\ req.list # "member" => Shows(rows, req.carry)
    BY <1>1, <1>5, ListLists
  <2>2. req.list # "member"
    BY <2>1 DEF LastShown, Shown, Fetches
  <2>3. walk.on
    BY <1>2, <2>1, <2>2 DEF Shows
  <2> QED BY <1>1, <1>5, <2>1, <2>2, <2>3
<1>6. CASE GetCarryover
  <2>1. Shows(req.rows, carried[req.user]) /\ req.pc = "carryover" /\ req.list = "member" /\ req.user \in Users
    BY <1>1, <1>6, CarryoverShows
  <2>2. walk.on
    BY <1>2, <2>1 DEF Shows
  <2> QED BY <1>1, <1>6, <2>1, <2>2
<1> QED BY <1>4, <1>5, <1>6

\* What is on the last page of a walk, and before, is all there is.
THEOREM QuietWalks == Spec => QuietWalkExact
<1> DEFINE A == LastShown /\ walk.quiet /\ (req.list = "users" => DistinctBalances)
                => /\ walk'.seen = Entries(req.list, req.user) /\ walk'.again = {}
                   /\ req.list \in {"member", "user"} => screen'.carry = carried[req.user]
<1>1. IInv /\ [Next]_vars => [A]_vars
  <2> SUFFICES ASSUME IInv, [Next]_vars, LastShown, walk.quiet, req.list = "users" => DistinctBalances
               PROVE  /\ walk'.seen = Entries(req.list, req.user) /\ walk'.again = {}
                      /\ req.list \in {"member", "user"} => screen'.carry = carried[req.user]
    OBVIOUS
  <2>1. Shape /\ Shape' /\ walk.on /\ Busy
    BY LastStep DEF LastShown, Shown, Busy
  <2>2. TheList = req.list /\ TheUser = req.user /\ Current = Entries(req.list, req.user) /\ Steady
    BY <2>1 DEF TheList, TheUser, Current, Steady
  <2>3. GapsOK /\ QuietOK /\ QuietOK'
    BY NextHolds DEF IInv
  <2>4. screen'.no >= screen'.pages
    BY DEF LastShown
  <2>5. CASE /\ req.pc = "list" /\ req.list # "member" /\ ListEntries
             /\ \E rows \in PageRows : Shows(rows, req.carry)
    <3>1. PICK rows \in PageRows : Shows(rows, req.carry)
      BY <2>5
    <3>2. rows = {e \in Current : /\ Passed * req.limit < Place(TheList, Current, e)
                                  /\ Place(TheList, Current, e) <= req.page * req.limit}
      BY <2>1, <2>2, <2>5, SteadyPage
    <3>3. walk'.seen = Current
      BY <2>1, <2>2, <2>3, <2>4, <3>1, <3>2, ShowsQuiet
    <3>4. req.list \in {"member", "user"} => screen'.carry = carried[req.user]
      <4>1. screen'.carry = req.carry
        BY <2>4, <3>1 DEF Shows, ShowsCarryover
      <4> QED BY <2>1, <2>2, <2>3, <2>5, <4>1 DEF QuietOK, Steady
    <3>5. walk'.on /\ walk'.quiet /\ Steady'
      <4>1. row' = row /\ carried' = carried /\ TheList' = TheList /\ Current' = Current
        BY <2>1, <3>1, ShowsEntries DEF Shows
      <4> QED BY <2>1, <2>2, <3>1, <4>1, SamePlaces DEF Shows
    <3>6. walk'.again = {}
      BY <2>3, <3>5 DEF QuietOK, Steady
    <3> QED BY <2>2, <3>3, <3>4, <3>6
  <2>6. CASE /\ req.pc = "carryover" /\ req.list = "member" /\ GetCarryover
             /\ Shows(req.rows, carried[req.user])
    <3>1. walk'.seen = Current
      BY <2>1, <2>3, <2>4, <2>6, CarryoverQuiet
    <3>2. screen'.carry = carried[req.user]
      BY <2>4, <2>6 DEF Shows, ShowsCarryover
    <3>3. walk'.on /\ walk'.quiet /\ Steady'
      <4>1. row' = row /\ carried' = carried /\ TheList' = TheList /\ Current' = Current
        BY <2>1, <2>6, ShowsEntries DEF Shows
      <4> QED BY <2>1, <2>2, <2>6, <4>1, SamePlaces DEF Shows
    <3>4. walk'.again = {}
      BY <2>3, <3>3 DEF QuietOK, Steady
    <3> QED BY <2>2, <3>1, <3>2, <3>4
  <2> QED BY <2>5, <2>6, LastStep
<1>2. Spec => [][A]_vars
  BY <1>1, PagesInductive, PTL DEF Spec
<1> QED BY <1>2 DEF QuietWalkExact

\* What a walk misses without an excuse is no more than what was booked while
\* its last page was listed.
LEMMA Missed ==
  ASSUME IInv, [Next]_vars, LastShown, ~walk.grew, req.list # "users"
  PROVE  \E rows : /\ Cardinality(Behind \ rows) <= walk.late /\ Behind \ rows \in SUBSET Keys
                   /\ walk'.seen = walk.seen \cup rows /\ walk'.known = walk.known
                   /\ req.list = "member" => screen'.carry = carried[req.user]
<1>1. Shape /\ GapsOK /\ CountOK /\ walk.on /\ Busy /\ screen'.no >= screen'.pages
  BY LastStep DEF LastShown, Shown, Busy, IInv
<1>2. TheList = req.list /\ TheUser = req.user /\ Current \in SUBSET Keys
  <2>1. TheList = req.list /\ TheUser = req.user
    BY <1>1 DEF TheList, TheUser
  <2> QED BY <1>1, <2>1, EntriesType DEF Shape, RequestOK, Current
<1>3. ASSUME NEW rows, NEW carry, Shows(rows, carry)
      PROVE  /\ req.page * req.limit >= req.total
             /\ walk'.seen = walk.seen \cup rows /\ walk'.known = walk.known
             /\ screen'.carry = carry
  <2>1. /\ screen'.pages = TotalPages(req.total, req.limit) /\ screen'.no <= req.page
        /\ screen' \in Screen /\ req.pc \in {"list", "carryover"}
    BY <1>3 DEF Shows
  <2>2. req.limit \in Sizes
    BY <1>1, <2>1 DEF Shape, RequestOK
  <2>3. req.limit \in Nat \ {0} /\ req.total \in Nat /\ req.page \in Nat
    BY <1>1, <2>2, Numbers, PagesConstants
  <2>4. screen'.pages \in Nat /\ screen'.no \in Nat
    BY <2>1 DEF Screen
  <2>5. screen'.pages * req.limit >= req.total /\ screen'.pages <= req.page
    BY <1>1, <2>1, <2>3, <2>4, PagesCover
  <2>6. screen'.pages * req.limit <= req.page * req.limit /\ screen'.pages * req.limit \in Nat
        /\ req.page * req.limit \in Nat
    BY <2>3, <2>4, <2>5, Times
  <2>7. req.page * req.limit >= req.total
    BY <2>3, <2>5, <2>6
  <2>8. screen'.carry = carry
    BY <1>1, <1>3 DEF Shows, ShowsCarryover
  <2> QED BY <1>1, <1>3, <2>7, <2>8 DEF Shows
<1>4. \A rows : Behind \ rows \in SUBSET Keys
  BY <1>2 DEF Behind
<1>5. CASE req.pc = "list" /\ req.list # "member" /\ \E rows \in PageRows : Shows(rows, req.carry)
  <2>1. PICK rows \in PageRows : Shows(rows, req.carry)
    BY <1>5
  <2>2. PageDone(rows)
    BY <1>1, <1>5, PageIsDone
  <2>3. Cardinality(Behind \ rows) <= walk.late
    BY <1>1, <1>3, <1>5, <2>1, <2>2, FewMissed
  <2> QED BY <1>3, <1>4, <1>5, <2>1, <2>3
<1>6. CASE req.pc = "carryover" /\ Shows(req.rows, carried[req.user])
  <2>1. Cardinality(Behind \ req.rows) <= walk.late
    BY <1>1, <1>2, <1>3, <1>6 DEF CountOK
  <2> QED BY <1>3, <1>4, <1>6, <2>1
<1> QED BY <1>5, <1>6, LastStep

\* At the end of a walk every booking from before it is accounted for.
THEOREM NothingLostHolds == Spec => NothingLost
<1> DEFINE A ==
      LastShown /\ ~walk.grew /\ req.list # "users" =>
        LET missing == walk'.known \ (walk'.seen \cup screen'.carry)
            kept == {k \in missing : row[k].st = "booked" /\ k < cutoff}
            taken == {k \in missing : row[k].st = "anonymized"}
            unexplained == CASE req.list = "member" -> missing \ kept
                             [] req.list = "user" -> missing \ (kept \cup taken)
                             [] req.list = "all" -> missing
        IN  Cardinality(unexplained) <= walk.late
<1>1. IInv /\ [Next]_vars => [A]_vars
  <2> DEFINE missing == walk'.known \ (walk'.seen \cup screen'.carry)
             kept == {k \in missing : row[k].st = "booked" /\ k < cutoff}
             taken == {k \in missing : row[k].st = "anonymized"}
             unexplained == CASE req.list = "member" -> missing \ kept
                              [] req.list = "user" -> missing \ (kept \cup taken)
                              [] req.list = "all" -> missing
  <2> SUFFICES ASSUME IInv, [Next]_vars, LastShown, ~walk.grew, req.list # "users"
               PROVE  Cardinality(unexplained) <= walk.late
    OBVIOUS
  <2>1. PICK rows : /\ Cardinality(Behind \ rows) <= walk.late /\ Behind \ rows \in SUBSET Keys
                    /\ walk'.seen = walk.seen \cup rows /\ walk'.known = walk.known
                    /\ req.list = "member" => screen'.carry = carried[req.user]
    BY Missed
  <2>2. Shape /\ walk.on /\ Busy
    BY LastStep DEF LastShown, Shown, Busy
  <2>3. TheList = req.list /\ TheUser = req.user /\ req.list \in {"member", "user", "all"}
    BY <2>2, PagesConstants DEF TheList, TheUser, Shape, RequestOK
  <2>4. \A k \in walk.known : k \in Keys /\ k \in Nat /\ Settled(k)
    BY <2>2, <2>3, Bounds DEF Shape, WalkOK
  <2>5. cutoff \in Nat
    BY <2>2, PagesConstants DEF Shape, TypeOK
  <2>6. unexplained \subseteq Behind \ rows
    <3>1. CASE req.list = "all"
      <4>1. Current = {k \in Keys : Settled(k)}
        BY <2>3, <3>1 DEF Current, Entries, Settled
      <4>2. unexplained = missing
        BY <3>1
      <4> QED BY <2>1, <2>3, <2>4, <3>1, <4>1, <4>2 DEF Behind
    <3>2. CASE req.list \in {"member", "user"}
      <4>1. PICK u : u = req.user
        OBVIOUS
      <4>2. walk.known \subseteq Owned(u) \cup carried[u] /\ Current = Owned(u) /\ u \in Users
        BY <2>2, <2>3, <3>2, <4>1, PagesConstants DEF Shape, WalkOK, RequestOK, Current, Entries, Subjects
      <4>3. \A k \in carried[u] : row[k].st = "anonymized"
        BY <2>2, <4>2 DEF Shape, CarriedOK
      <4>4. ASSUME NEW k \in unexplained
            PROVE  k \in walk.known /\ k \notin walk.seen /\ k \notin rows /\ k \in Owned(u) /\ k >= cutoff
        <5>1. k \in missing /\ k \notin kept /\ (req.list = "user" => k \notin taken)
          BY <2>3, <3>2, <4>4
        <5>2. k \in walk.known /\ k \notin walk.seen /\ k \notin rows /\ k \in Owned(u) \cup carried[u]
          BY <2>1, <4>2, <5>1
        <5>3. k \in Owned(u)
          <6>1. CASE req.list = "member"
            BY <2>1, <4>1, <5>1, <5>2, <6>1
          <6>2. CASE req.list = "user"
            BY <4>3, <5>1, <5>2, <6>2
          <6> QED BY <3>2, <6>1, <6>2
        <5>4. ~(k < cutoff)
          BY <5>1, <5>3 DEF Owned
        <5> QED BY <2>4, <2>5, <5>2, <5>3, <5>4
      <4> QED BY <4>2, <4>4 DEF Behind
    <3> QED BY <2>3, <3>1, <3>2
  <2>7. PICK U, B : U = unexplained /\ B = Behind \ rows
    OBVIOUS
  <2>8. U \in SUBSET B /\ B \in SUBSET Keys
    BY <2>1, <2>6, <2>7
  <2>9. Cardinality(U) <= Cardinality(B) /\ Cardinality(U) \in Nat /\ Cardinality(B) \in Nat
    BY <2>8, Bounds, FS_Subset
  <2>10. walk.late \in Nat
    BY <2>2, Numbers
  <2> HIDE DEF unexplained
  <2> QED BY <2>1, <2>7, <2>9, <2>10
<1>2. Spec => [][A]_vars
  BY <1>1, PagesInductive, PTL DEF Spec
<1> QED BY <1>2, PTL DEF NothingLost
=============================================================================
