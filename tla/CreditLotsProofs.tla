-------------------------- MODULE CreditLotsProofs --------------------------
(***************************************************************************)
(* Proofs about module CreditLots, for any number of orders and requests   *)
(* and any amounts: the wallet is well typed, the ledger explains every    *)
(* lot, no credit is minted, tracked promotion stays within promo_quota    *)
(* and the balances nest but for the writers that know no lots, and a      *)
(* reservation that is given back at once changes nothing.                 *)
(***************************************************************************)
EXTENDS CreditLots, FiniteSumTheorems

Wallets == [quota : Int, promo : Nat, lots : [LotIds -> Lots]]
Allocs == [Sources -> Nat]

\* Only an active lot holds credit.
HoldsOnlyIfActive(w) ==
  \A l \in LotIds : w.lots[l].status # "active" => w.lots[l].remaining = 0

Uncredited == {"open", "paid"}

\* The lots were created in the order of their ids, at most two for an order.
LotsInOrder ==
  \E k \in 0 .. 2 * Cardinality({o \in Orders : order[o] \notin Uncredited}) :
    \A l \in LotIds : wallet.lots[l].status = "none" <=> l > k

\* A lot that does not exist was created with nothing.
NoneIsEmpty == \A l \in LotIds : wallet.lots[l].status = "none" => wallet.lots[l].original = 0

IInv ==
  /\ TypeOK /\ LedgerMatchesLots /\ NoCreditMinted
  /\ HoldsOnlyIfActive(wallet) /\ LotsInOrder /\ NoneIsEmpty

-----------------------------------------------------------------------------
(* Sources, and sums over them. *)

LEMMA SourcesFacts ==
  /\ Cardinality(Orders) \in Nat
  /\ LotIds \subseteq Nat \ {0} /\ IsFiniteSet(LotIds)
  /\ FreePromo \notin LotIds /\ FreePaid \notin LotIds /\ FreePromo # FreePaid
  /\ Sources = LotIds \cup {FreePromo, FreePaid} /\ IsFiniteSet(Sources)
<1>1. Cardinality(Orders) \in Nat
  BY AmountAssumption, FS_CardinalityType
<1>2. IsFiniteSet(LotIds)
  BY <1>1, FS_Interval DEF LotIds
<1>3. IsFiniteSet({FreePromo, FreePaid})
  <2>1. {FreePromo, FreePaid} = {FreePromo} \cup {FreePaid}
    OBVIOUS
  <2>2. IsFiniteSet({FreePromo})
    BY FS_Singleton
  <2> QED BY <2>1, <2>2, FS_AddElement
<1>4. IsFiniteSet(Sources)
  BY <1>2, <1>3, FS_Union DEF Sources
<1> QED BY <1>1, <1>2, <1>4 DEF LotIds, Sources, FreePromo, FreePaid

\* What lots of one type hold, lot by lot.
RestOf(w, type) == [l \in LotIds |-> IF w.lots[l].type = type THEN w.lots[l].remaining ELSE 0]
\* What an allocation takes from lots of one type.
ShareOf(w, type, alloc) == [l \in LotIds |-> IF w.lots[l].type = type THEN alloc[l] ELSE 0]

LEMMA RestType ==
  ASSUME NEW w \in Wallets, NEW type
  PROVE  NatOn(LotIds, RestOf(w, type)) /\ SumOver(LotIds, RestOf(w, type)) \in Nat
<1>1. NatOn(LotIds, RestOf(w, type))
  BY DEF NatOn, RestOf, Wallets, Lots
<1> QED BY <1>1, SourcesFacts, SumType

LEMMA ShareType ==
  ASSUME NEW w \in Wallets, NEW type, NEW alloc \in Allocs
  PROVE  /\ NatOn(LotIds, ShareOf(w, type, alloc))
         /\ SumOver(LotIds, ShareOf(w, type, alloc)) \in Nat
<1>1. NatOn(LotIds, ShareOf(w, type, alloc))
  BY SourcesFacts DEF NatOn, ShareOf, Wallets, Lots, Allocs
<1> QED BY <1>1, SourcesFacts, SumType

\* The tracked parts of the balance as sums over all lots.
LEMMA TrackedSums ==
  ASSUME NEW w \in Wallets, HoldsOnlyIfActive(w)
  PROVE  /\ TrackedPromo(w) = SumOver(LotIds, RestOf(w, "promotional"))
         /\ TrackedPaid(w) = SumOver(LotIds, RestOf(w, "paid"))
<1>1. ASSUME NEW type
      PROVE  SumOver({l \in LotIds : w.lots[l].type = type /\ w.lots[l].status = "active"}, Remaining(w))
               = SumOver(LotIds, RestOf(w, type))
  <2> DEFINE T == {l \in LotIds : w.lots[l].type = type /\ w.lots[l].status = "active"}
  <2>1. NatOn(T, Remaining(w)) /\ T \in SUBSET LotIds
    BY DEF NatOn, Remaining, Wallets, Lots
  <2>2. \A s \in T : RestOf(w, type)[s] = Remaining(w)[s]
    BY DEF RestOf, Remaining
  <2>3. \A s \in LotIds \ T : RestOf(w, type)[s] = 0
    BY DEF RestOf, HoldsOnlyIfActive
  <2>4. IsFiniteSet(LotIds)
    BY SourcesFacts
  <2> HIDE DEF T
  <2>5. SumOver(T, Remaining(w)) = SumOver(LotIds, RestOf(w, type))
    BY <2>1, <2>2, <2>3, <2>4, SumMask
  <2> QED BY <2>5 DEF T
<1> QED BY <1>1 DEF TrackedPromo, TrackedPaid

\* Where an allocation comes from.
LEMMA AllocationParts ==
  ASSUME NEW w \in Wallets, NEW alloc \in Allocs
  PROVE  /\ PromoPart(w, alloc) = SumOver(LotIds, ShareOf(w, "promotional", alloc)) + alloc[FreePromo]
         /\ Total(alloc) = PromoPart(w, alloc) + SumOver(LotIds, ShareOf(w, "paid", alloc)) + alloc[FreePaid]
<1> DEFINE promoLots == {l \in LotIds : w.lots[l].type = "promotional"}
           paidLots == {l \in LotIds : w.lots[l].type = "paid"}
           promoSources == {s \in Sources : IsPromo(w, s)}
<1>1. promoSources = promoLots \cup {FreePromo} /\ promoLots \cap {FreePromo} = {}
  <2>1. \A s : s \in promoSources <=> s \in promoLots \cup {FreePromo}
    BY SourcesFacts DEF IsPromo
  <2> HIDE DEF promoSources
  <2> QED BY <2>1, SourcesFacts
<1>2. Sources = (promoSources \cup paidLots) \cup {FreePaid}
  <2>1. \A l \in LotIds : w.lots[l].type \in {"promotional", "paid"}
    BY DEF Wallets, Lots
  <2>2. \A s : s \in Sources <=> s \in promoSources \/ s \in paidLots \/ s = FreePaid
    BY <2>1, SourcesFacts DEF IsPromo
  <2> QED BY <2>2
<1>3. promoSources \cap paidLots = {} /\ (promoSources \cup paidLots) \cap {FreePaid} = {}
  BY SourcesFacts DEF IsPromo
<1>4. /\ IsFiniteSet(promoLots) /\ IsFiniteSet(paidLots) /\ IsFiniteSet(promoSources)
      /\ IsFiniteSet({FreePromo}) /\ IsFiniteSet({FreePaid}) /\ IsFiniteSet(promoSources \cup paidLots)
  <2>1. promoLots \in SUBSET LotIds /\ paidLots \in SUBSET LotIds /\ promoSources \in SUBSET Sources
    OBVIOUS
  <2> QED BY <2>1, SourcesFacts, FS_Subset, FS_Singleton, FS_Union
<1>5. NatOn(Sources, alloc) /\ NatOn(LotIds, alloc) /\ alloc[FreePromo] \in Nat /\ alloc[FreePaid] \in Nat
  BY SourcesFacts DEF NatOn, Allocs
<1>6. SumOver(promoLots, alloc) = SumOver(LotIds, ShareOf(w, "promotional", alloc))
  <2>1. promoLots \in SUBSET LotIds /\ NatOn(promoLots, alloc)
    BY <1>5 DEF NatOn
  <2>2. /\ \A s \in promoLots : ShareOf(w, "promotional", alloc)[s] = alloc[s]
        /\ \A s \in LotIds \ promoLots : ShareOf(w, "promotional", alloc)[s] = 0
    BY DEF ShareOf
  <2>3. IsFiniteSet(LotIds)
    BY SourcesFacts
  <2> HIDE DEF promoLots
  <2> QED BY <2>1, <2>2, <2>3, SumMask
<1>7. SumOver(paidLots, alloc) = SumOver(LotIds, ShareOf(w, "paid", alloc))
  <2>1. paidLots \in SUBSET LotIds /\ NatOn(paidLots, alloc)
    BY <1>5 DEF NatOn
  <2>2. /\ \A s \in paidLots : ShareOf(w, "paid", alloc)[s] = alloc[s]
        /\ \A s \in LotIds \ paidLots : ShareOf(w, "paid", alloc)[s] = 0
    BY DEF ShareOf
  <2>3. IsFiniteSet(LotIds)
    BY SourcesFacts
  <2> HIDE DEF paidLots
  <2> QED BY <2>1, <2>2, <2>3, SumMask
<1>8. /\ NatOn(promoLots \cup {FreePromo}, alloc) /\ NatOn(promoSources \cup paidLots, alloc)
      /\ NatOn((promoSources \cup paidLots) \cup {FreePaid}, alloc)
  BY <1>1, <1>2, <1>5 DEF NatOn
<1>9. SumOver({FreePromo}, alloc) = alloc[FreePromo] /\ SumOver({FreePaid}, alloc) = alloc[FreePaid]
  BY <1>5, SumSingle
<1>10. PromoPart(w, alloc) = SumOver(promoSources, alloc)
  BY DEF PromoPart
<1> HIDE DEF promoLots, paidLots, promoSources
<1>11. SumOver(promoSources, alloc) = SumOver(promoLots, alloc) + SumOver({FreePromo}, alloc)
  BY <1>1, <1>4, <1>8, SumDisjoint
<1>12. SumOver(promoSources \cup paidLots, alloc) = SumOver(promoSources, alloc) + SumOver(paidLots, alloc)
  BY <1>3, <1>4, <1>8, SumDisjoint
<1>13. SumOver((promoSources \cup paidLots) \cup {FreePaid}, alloc)
         = SumOver(promoSources \cup paidLots, alloc) + SumOver({FreePaid}, alloc)
  BY <1>3, <1>4, <1>8, SumDisjoint
<1>14. Total(alloc) = SumOver((promoSources \cup paidLots) \cup {FreePaid}, alloc)
  BY <1>2 DEF Total
<1> QED BY <1>6, <1>7, <1>9, <1>10, <1>11, <1>12, <1>13, <1>14

LEMMA PartsType ==
  ASSUME NEW w \in Wallets, NEW alloc \in Allocs
  PROVE  /\ Total(alloc) \in Nat /\ PromoPart(w, alloc) \in Nat
         /\ alloc[FreePromo] \in Nat /\ alloc[FreePaid] \in Nat
<1>1. alloc[FreePromo] \in Nat /\ alloc[FreePaid] \in Nat /\ NatOn(Sources, alloc)
  BY SourcesFacts DEF Allocs, NatOn
<1> QED BY <1>1, AllocationParts, ShareType

-----------------------------------------------------------------------------
(* The order in which sources are used, and the order of giving back. *)

OrderOf(w) == {p \in Sources \X Sources : Precedes(w, p[1], p[2])}
GivingOrder(w) == {p \in Sources \X Sources : GivenBackBefore(w, p[1], p[2])}

\* Lots that expire sooner come first: a strict linear order of the lots.
LEMMA ExpiryLinear ==
  ASSUME NEW w \in Wallets
  PROVE  /\ \A x \in LotIds : ~ExpiresBefore(w, x, x)
         /\ \A x, y, z \in LotIds : ExpiresBefore(w, x, y) /\ ExpiresBefore(w, y, z) => ExpiresBefore(w, x, z)
         /\ \A x, y \in LotIds : x = y \/ ExpiresBefore(w, x, y) \/ ExpiresBefore(w, y, x)
<1>1. \A x \in LotIds : x \in Nat /\ w.lots[x].expires \in Nat
  BY SourcesFacts DEF Wallets, Lots
<1> QED BY <1>1 DEF ExpiresBefore

\* The order of use by cases: promotion, lots before the untracked part, then
\* expiry or age.
LEMMA PrecedesCases ==
  ASSUME NEW w, NEW x, NEW y
  PROVE  Precedes(w, x, y) <=>
           \/ IsPromo(w, x) /\ ~IsPromo(w, y)
           \/ (IsPromo(w, x) <=> IsPromo(w, y)) /\ x \in LotIds /\ y \notin LotIds
           \/ IsPromo(w, x) /\ IsPromo(w, y) /\ x \in LotIds /\ y \in LotIds /\ ExpiresBefore(w, x, y)
           \/ ~IsPromo(w, x) /\ ~IsPromo(w, y) /\ x \in LotIds /\ y \in LotIds /\ x < y
<1>1. IsPromo(w, x) \in BOOLEAN /\ IsPromo(w, y) \in BOOLEAN
  BY DEF IsPromo
<1> QED BY <1>1 DEF Precedes

LEMMA PrecedesLinear ==
  ASSUME NEW w \in Wallets
  PROVE  /\ \A x \in Sources : ~Precedes(w, x, x)
         /\ \A x, y, z \in Sources : Precedes(w, x, y) /\ Precedes(w, y, z) => Precedes(w, x, z)
         /\ \A x, y \in Sources : x = y \/ Precedes(w, x, y) \/ Precedes(w, y, x)
<1>1. \A x \in LotIds : x \in Nat
  BY SourcesFacts
<1>2. \A x \in Sources : x \in LotIds \/ x = FreePromo \/ x = FreePaid
  BY SourcesFacts
<1>3. IsPromo(w, FreePromo) /\ ~IsPromo(w, FreePaid)
  BY SourcesFacts DEF IsPromo
<1>4. FreePromo \notin LotIds /\ FreePaid \notin LotIds
  BY SourcesFacts
<1>5. \A x \in Sources : ~Precedes(w, x, x)
  BY <1>1, ExpiryLinear DEF Precedes
<1>6. ASSUME NEW x \in Sources, NEW y \in Sources, NEW z \in Sources,
             Precedes(w, x, y), Precedes(w, y, z)
      PROVE  Precedes(w, x, z)
  <2>1. CASE IsPromo(w, x) /\ ~IsPromo(w, z)
    BY PrecedesCases, <2>1
  <2>2. CASE IsPromo(w, x) /\ IsPromo(w, y) /\ IsPromo(w, z)
    BY <1>6, PrecedesCases, <2>2, ExpiryLinear
  <2>3. CASE ~IsPromo(w, x) /\ ~IsPromo(w, y) /\ ~IsPromo(w, z)
    BY <1>1, PrecedesCases, <1>6, <2>3
  <2>4. IsPromo(w, y) => IsPromo(w, x)
    BY <1>6, PrecedesCases
  <2>5. IsPromo(w, z) => IsPromo(w, y)
    BY <1>6, PrecedesCases
  <2> QED BY <2>1, <2>2, <2>3, <2>4, <2>5
<1>7. ASSUME NEW x \in Sources, NEW y \in Sources
      PROVE  x = y \/ Precedes(w, x, y) \/ Precedes(w, y, x)
  <2>1. CASE x \in LotIds /\ y \in LotIds
    BY <1>1, PrecedesCases, <2>1, ExpiryLinear
  <2>2. CASE ~(x \in LotIds /\ y \in LotIds)
    BY <1>2, <1>3, <1>4, PrecedesCases, <2>2
  <2> QED BY <2>1, <2>2
<1> QED BY <1>5, <1>6, <1>7

LEMMA OrderLinear ==
  ASSUME NEW w \in Wallets
  PROVE  /\ LinearOn(OrderOf(w), Sources) /\ LinearOn(GivingOrder(w), Sources)
         /\ \A x, y \in Sources : <<x, y>> \in OrderOf(w) <=> Precedes(w, x, y)
         /\ \A x, y \in Sources : <<x, y>> \in GivingOrder(w) <=> GivenBackBefore(w, x, y)
<1>1. \A x, y \in Sources : <<x, y>> \in OrderOf(w) <=> Precedes(w, x, y)
  BY DEF OrderOf
<1>2. \A x, y \in Sources : <<x, y>> \in GivingOrder(w) <=> GivenBackBefore(w, x, y)
  BY DEF GivingOrder
<1>3. LinearOn(OrderOf(w), Sources)
  BY <1>1, PrecedesLinear DEF LinearOn
<1>4. \A x \in Sources : ~GivenBackBefore(w, x, x)
  BY PrecedesLinear DEF GivenBackBefore
<1>5. ASSUME NEW x \in Sources, NEW y \in Sources
      PROVE  GivenBackBefore(w, x, y) <=>
               \/ ~IsPromo(w, x) /\ IsPromo(w, y)
               \/ (IsPromo(w, x) <=> IsPromo(w, y)) /\ Precedes(w, y, x)
  <2>1. IsPromo(w, x) \in BOOLEAN /\ IsPromo(w, y) \in BOOLEAN
    BY DEF IsPromo
  <2> QED BY <2>1 DEF GivenBackBefore
<1>6. \A x, y, z \in Sources : GivenBackBefore(w, x, y) /\ GivenBackBefore(w, y, z) => GivenBackBefore(w, x, z)
  BY <1>5, PrecedesLinear
<1>7. \A x, y \in Sources : x = y \/ GivenBackBefore(w, x, y) \/ GivenBackBefore(w, y, x)
  BY <1>5, PrecedesLinear
<1>8. LinearOn(GivingOrder(w), Sources)
  BY <1>2, <1>4, <1>6, <1>7 DEF LinearOn
<1> QED BY <1>1, <1>2, <1>3, <1>8

LEMMA TrackedType ==
  ASSUME NEW w \in Wallets, HoldsOnlyIfActive(w)
  PROVE  TrackedPromo(w) \in Nat /\ TrackedPaid(w) \in Nat
BY TrackedSums, RestType

LEMMA AvailableType ==
  ASSUME NEW w \in Wallets, HoldsOnlyIfActive(w), NEW n \in Nat
  PROVE  Available(w, n) \in Allocs
<1>1. w.promo \in Nat /\ \A l \in LotIds : w.lots[l].remaining \in Nat
  BY DEF Wallets, Lots
<1>2. AtLeastZero(w.promo - TrackedPromo(w)) \in Nat
  BY <1>1, TrackedType DEF AtLeastZero
<1> QED BY <1>1, <1>2, SourcesFacts DEF Available, Allocs

\* What comes before a source has a sum.
LEMMA BeforeType ==
  ASSUME NEW T \in SUBSET Sources, NEW alloc \in Allocs
  PROVE  SumOver(T, alloc) \in Nat
<1>1. IsFiniteSet(T) /\ NatOn(T, alloc)
  BY SourcesFacts, FS_Subset DEF NatOn, Allocs
<1> QED BY <1>1, SumType

\* A deduction takes no more than there is at a source.
LEMMA AllocationBounds ==
  ASSUME NEW w \in Wallets, HoldsOnlyIfActive(w), NEW n \in Nat
  PROVE  /\ Allocation(w, n) \in Allocs
         /\ \A s \in Sources : Allocation(w, n)[s] <= Available(w, n)[s]
<1> DEFINE before(s) == SumOver({u \in Sources : Precedes(w, u, s)}, Available(w, n))
<1>1. \A s \in Sources : Available(w, n)[s] \in Nat
  BY AvailableType DEF Allocs
<1>2. \A s \in Sources : before(s) \in Nat
  BY AvailableType, BeforeType
<1>3. Allocation(w, n) = [s \in Sources |-> Least(Available(w, n)[s], AtLeastZero(n - before(s)))]
  BY DEF Allocation
<1> HIDE DEF before
<1>4. \A s \in Sources : /\ Least(Available(w, n)[s], AtLeastZero(n - before(s))) \in Nat
                         /\ Least(Available(w, n)[s], AtLeastZero(n - before(s))) <= Available(w, n)[s]
  BY <1>1, <1>2 DEF Least, AtLeastZero
<1> QED BY <1>3, <1>4 DEF Allocs

\* A deduction of n takes n, in all.
LEMMA AllocationTotal ==
  ASSUME NEW w \in Wallets, HoldsOnlyIfActive(w), NEW n \in Nat
  PROVE  Total(Allocation(w, n)) = n
<1> DEFINE R == OrderOf(w)
           room == Available(w, n)
           a == Allocation(w, n)
<1>1. LinearOn(R, Sources)
  BY OrderLinear
<1>2. NatOn(Sources, room) /\ room[FreePaid] = n
  BY AvailableType, SourcesFacts DEF NatOn, Allocs, Available
<1>3. n <= SumOver(Sources, room)
  <2>1. SumOver(Sources, room) = SumOver(Sources \ {FreePaid}, room) + room[FreePaid]
    BY <1>2, SourcesFacts, SumRemove
  <2>2. SumOver(Sources \ {FreePaid}, room) \in Nat
    BY AvailableType, BeforeType
  <2> QED BY <1>2, <2>1, <2>2
<1>4. ASSUME NEW s \in Sources
      PROVE  LET left == n - SumOver(Below(R, Sources, s), room)
             IN a[s] = IF left <= 0 THEN 0 ELSE IF left <= room[s] THEN left ELSE room[s]
  <2>1. Below(R, Sources, s) = {u \in Sources : Precedes(w, u, s)}
    BY OrderLinear DEF Below
  <2>2. a[s] = Least(room[s], AtLeastZero(n - SumOver(Below(R, Sources, s), room)))
    BY <2>1 DEF Allocation
  <2>3. room[s] \in Nat
    BY <1>2 DEF NatOn
  <2>4. SumOver(Below(R, Sources, s), room) \in Nat
    BY AvailableType, BeforeType DEF Below
  <2> HIDE DEF room, R, a
  <2> QED BY <2>2, <2>3, <2>4 DEF Least, AtLeastZero
<1>5. IsFiniteSet(Sources)
  BY SourcesFacts
<1> HIDE DEF R, room, a
<1>6. SumOver(Sources, a) = n
  BY <1>1, <1>2, <1>3, <1>4, <1>5, GreedySum
<1> QED BY <1>6 DEF Total, a

\* Untracked cash is touched last: after all promotion and all paid lots.
LEMMA AllocationOfCash ==
  ASSUME NEW w \in Wallets, HoldsOnlyIfActive(w), TrackedPromo(w) <= w.promo, NEW n \in Nat
  PROVE  LET left == n - (w.promo + TrackedPaid(w))
         IN Allocation(w, n)[FreePaid] = IF left <= 0 THEN 0 ELSE left
<1> DEFINE room == Available(w, n)
           others == {u \in Sources : Precedes(w, u, FreePaid)}
<1>1. others = Sources \ {FreePaid}
  <2>1. \A u \in Sources : Precedes(w, u, FreePaid) <=> u # FreePaid
    <3>1. IsPromo(w, FreePromo) /\ ~IsPromo(w, FreePaid)
      BY SourcesFacts DEF IsPromo
    <3>2. \A u \in Sources : u \in LotIds \/ u = FreePromo \/ u = FreePaid
      BY SourcesFacts
    <3> QED BY <3>1, <3>2, SourcesFacts, PrecedesCases
  <2> QED BY <2>1
<1>2. SumOver(Sources, room) = SumOver(Sources \ {FreePaid}, room) + room[FreePaid]
  <2>1. NatOn(Sources, room) /\ FreePaid \in Sources
    BY AvailableType, SourcesFacts DEF NatOn, Allocs
  <2> QED BY <2>1, SourcesFacts, SumRemove
<1>3. room \in Allocs /\ room[FreePaid] = n /\ room[FreePromo] = w.promo - TrackedPromo(w)
  <2>1. w.promo \in Nat /\ AtLeastZero(w.promo - TrackedPromo(w)) = w.promo - TrackedPromo(w)
    BY TrackedType DEF Wallets, AtLeastZero
  <2> QED BY <2>1, AvailableType, SourcesFacts DEF Available
<1>4. ASSUME NEW type PROVE ShareOf(w, type, room) = RestOf(w, type)
  <2>1. ASSUME NEW l \in LotIds PROVE room[l] = w.lots[l].remaining
    <3>1. l \in Sources /\ l # FreePromo /\ l # FreePaid
      BY SourcesFacts
    <3> QED BY <3>1 DEF Available, HoldsOnlyIfActive
  <2> HIDE DEF room
  <2> QED BY <2>1 DEF ShareOf, RestOf
<1>5. SumOver(others, room) \in Nat
  BY AvailableType, BeforeType
<1>6. Allocation(w, n)[FreePaid] = Least(room[FreePaid], AtLeastZero(n - SumOver(others, room)))
  BY SourcesFacts DEF Allocation
<1> HIDE DEF room, others
<1>7. PromoPart(w, room) = w.promo
  <2>1. PromoPart(w, room) = TrackedPromo(w) + room[FreePromo]
    BY <1>3, <1>4, AllocationParts, TrackedSums
  <2> QED BY <1>3, <2>1, TrackedType DEF Wallets
<1>8. SumOver(Sources, room) = w.promo + TrackedPaid(w) + n
  <2>1. Total(room) = PromoPart(w, room) + SumOver(LotIds, ShareOf(w, "paid", room)) + room[FreePaid]
    BY <1>3, AllocationParts
  <2>2. TrackedPaid(w) = SumOver(LotIds, ShareOf(w, "paid", room))
    BY <1>4, TrackedSums
  <2> QED BY <1>3, <1>7, <2>1, <2>2 DEF Total
<1>9. SumOver(others, room) = w.promo + TrackedPaid(w)
  <2>1. w.promo \in Nat /\ TrackedPaid(w) \in Nat
    BY TrackedType DEF Wallets
  <2> QED BY <1>1, <1>2, <1>3, <1>5, <1>8, <2>1
<1> QED BY <1>3, <1>5, <1>6, <1>9 DEF Least, AtLeastZero

-----------------------------------------------------------------------------
(* What each transaction does to a wallet. *)

Sound(w) == w \in Wallets /\ HoldsOnlyIfActive(w)

\* PromoLotsWithinPromoQuota and LotsWithinBalances, of any wallet.
Covered(w) == TrackedPromo(w) <= w.promo
Nested(w) == Covered(w) /\ w.promo <= w.quota /\ TrackedPaid(w) <= w.quota - w.promo

\* A transaction that turns w into v breaks neither.
Keeps(w, v) == (Covered(w) => Covered(v)) /\ (Nested(w) => Nested(v))

\* v has the lots of w, with something else left in them.
SameLots(w, v) ==
  \A l \in LotIds :
    /\ v.lots[l].order = w.lots[l].order /\ v.lots[l].type = w.lots[l].type
    /\ v.lots[l].original = w.lots[l].original /\ v.lots[l].expires = w.lots[l].expires
    /\ v.lots[l].status = "none" <=> w.lots[l].status = "none"

Ledgered(w) == \A l \in LotIds : w.lots[l].ledger = w.lots[l].remaining

\* No lot that can still be used is past its expiry.
NoneDue(w) ==
  \A l \in LotIds :
    /\ w.lots[l].type = "promotional" /\ w.lots[l].status = "active" /\ w.lots[l].remaining > 0
    => ~(w.lots[l].expires > 0 /\ w.lots[l].expires <= now)

LEMMA WalletFields ==
  ASSUME NEW w \in Wallets
  PROVE  /\ w.quota \in Int /\ w.promo \in Nat
         /\ \A l \in LotIds :
              /\ w.lots[l] \in Lots
              /\ w.lots[l].remaining \in Nat /\ w.lots[l].original \in Nat /\ w.lots[l].expires \in Nat
              /\ w.lots[l].ledger \in Int /\ w.lots[l].type \in {"paid", "promotional"}
BY DEF Wallets, Lots

\* What saving a lot row changes, and what it leaves.
IsSaved(x, lot, rest, status, change) ==
  /\ x \in Lots
  /\ x.order = lot.order /\ x.type = lot.type /\ x.original = lot.original /\ x.expires = lot.expires
  /\ x.remaining = rest /\ x.status = status /\ x.ledger = lot.ledger + change

Statuses == {"none", "active", "exhausted", "expired", "reversed"}

LEMMA SavedLotFields ==
  ASSUME NEW lot \in Lots, NEW rest \in Nat, NEW change \in Int, NEW status \in Statuses
  PROVE  IsSaved(SavedLot(lot, rest, status, change), lot, rest, status, change)
<1>1. PICK x : x = SavedLot(lot, rest, status, change)
  OBVIOUS
<1>2. PICK g \in Int : g = lot.ledger + change
  BY DEF Lots
<1>3. x = [lot EXCEPT !.remaining = rest, !.status = status, !.ledger = g]
  BY <1>1, <1>2 DEF SavedLot
<1>4. /\ x \in Lots
      /\ x.order = lot.order /\ x.type = lot.type /\ x.original = lot.original /\ x.expires = lot.expires
      /\ x.remaining = rest /\ x.status = status /\ x.ledger = g
  BY <1>3 DEF Lots, Statuses
<1> QED BY <1>1, <1>2, <1>4 DEF IsSaved

LEMMA ExpireLotsKeeps ==
  ASSUME NEW w, Sound(w)
  PROVE  LET e == ExpireLots(w)
         IN /\ Sound(e) /\ SameLots(w, e) /\ NoneDue(e)
            /\ Ledgered(w) => Ledgered(e)
            /\ Keeps(w, e)
            /\ \A l \in LotIds : e.lots[l].remaining <= w.lots[l].remaining
<1> DEFINE e == ExpireLots(w)
           due == {l \in LotIds : /\ w.lots[l].type = "promotional" /\ w.lots[l].status = "active"
                                  /\ w.lots[l].remaining > 0
                                  /\ w.lots[l].expires > 0 /\ w.lots[l].expires <= now}
           gone == SumOver(due, Remaining(w))
           remove == IF due = {} THEN 0 ELSE Least(gone, Least(w.promo, w.quota))
           G == [l \in LotIds |-> IF l \in due THEN w.lots[l].remaining ELSE 0]
<1>1. w \in Wallets /\ HoldsOnlyIfActive(w)
  BY DEF Sound
<1>2. /\ e.quota = w.quota - remove /\ e.promo = w.promo - remove
      /\ e = [quota |-> w.quota - remove, promo |-> w.promo - remove, lots |-> e.lots]
      /\ DOMAIN e.lots = LotIds
  BY DEF ExpireLots
<1>3. \A l \in LotIds : e.lots[l] = IF l \in due
                                    THEN SavedLot(w.lots[l], 0, "expired", -w.lots[l].remaining)
                                    ELSE w.lots[l]
  BY DEF ExpireLots
<1>4. e.lots = [l \in LotIds |-> e.lots[l]]
  BY DEF ExpireLots
<1>5. \A l \in LotIds : l \in due => w.lots[l].type = "promotional" /\ w.lots[l].status = "active"
  OBVIOUS
<1>6. \A l \in LotIds : l \notin due =>
        ~(/\ w.lots[l].type = "promotional" /\ w.lots[l].status = "active" /\ w.lots[l].remaining > 0
          /\ w.lots[l].expires > 0 /\ w.lots[l].expires <= now)
  OBVIOUS
<1>7. gone \in Nat /\ gone = SumOver(LotIds, G) /\ NatOn(LotIds, G) /\ (due = {} => gone = 0)
  <2>1. NatOn(due, Remaining(w)) /\ due \in SUBSET LotIds /\ NatOn(LotIds, G)
    BY <1>1, WalletFields DEF NatOn, Remaining
  <2>2. /\ \A l \in due : G[l] = Remaining(w)[l]
        /\ \A l \in LotIds \ due : G[l] = 0
    BY DEF Remaining
  <2>3. IsFiniteSet(LotIds)
    BY SourcesFacts
  <2> HIDE DEF due, G
  <2>4. gone = SumOver(LotIds, G)
    BY <2>1, <2>2, <2>3, SumMask
  <2> QED BY <2>1, <2>3, <2>4, SumType, SumEmpty DEF gone
<1>8. \A l \in LotIds : G[l] = IF l \in due THEN w.lots[l].remaining ELSE 0
  OBVIOUS
<1> HIDE DEF e, due, gone, G
<1>9. ASSUME NEW l \in LotIds
      PROVE  /\ e.lots[l] \in Lots
             /\ e.lots[l].order = w.lots[l].order /\ e.lots[l].type = w.lots[l].type
             /\ e.lots[l].original = w.lots[l].original /\ e.lots[l].expires = w.lots[l].expires
             /\ e.lots[l].status = IF l \in due THEN "expired" ELSE w.lots[l].status
             /\ e.lots[l].remaining = IF l \in due THEN 0 ELSE w.lots[l].remaining
             /\ e.lots[l].ledger = IF l \in due THEN w.lots[l].ledger + (-w.lots[l].remaining) ELSE w.lots[l].ledger
  <2>1. w.lots[l] \in Lots /\ -w.lots[l].remaining \in Int
    BY <1>1, WalletFields
  <2>2. CASE l \in due
    <3>1. e.lots[l] = SavedLot(w.lots[l], 0, "expired", -w.lots[l].remaining)
      BY <1>3, <2>2
    <3>2. 0 \in Nat /\ "expired" \in Statuses
      BY DEF Statuses
    <3>3. IsSaved(e.lots[l], w.lots[l], 0, "expired", -w.lots[l].remaining)
      BY <2>1, <3>1, <3>2, SavedLotFields, Zenon
    <3> QED BY <2>2, <3>3 DEF IsSaved
  <2>3. CASE l \notin due
    BY <1>3, <2>1, <2>3
  <2> QED BY <2>2, <2>3
<1>10. remove \in Int /\ remove <= gone /\ remove <= w.promo
       /\ (w.promo <= w.quota /\ gone <= w.promo => remove = gone)
  BY <1>1, <1>7, WalletFields DEF Least
<1> HIDE DEF remove
<1>11. e \in Wallets
  <2>1. w.quota - remove \in Int /\ w.promo - remove \in Nat
    BY <1>1, <1>10, WalletFields
  <2>2. e.lots \in [LotIds -> Lots]
    BY <1>4, <1>9
  <2> QED BY <1>2, <2>1, <2>2 DEF Wallets
<1>12. HoldsOnlyIfActive(e)
  BY <1>1, <1>9 DEF HoldsOnlyIfActive
<1>13. SumOver(LotIds, RestOf(w, "promotional")) = SumOver(LotIds, RestOf(e, "promotional")) + SumOver(LotIds, G)
  <2>1. \A l \in LotIds : RestOf(w, "promotional")[l] = RestOf(e, "promotional")[l] + G[l]
    BY <1>1, <1>5, <1>8, <1>9, WalletFields DEF RestOf
  <2>2. NatOn(LotIds, RestOf(e, "promotional")) /\ IsFiniteSet(LotIds)
    BY <1>11, RestType, SourcesFacts
  <2> QED BY <1>7, <2>1, <2>2, SumPlus
<1>14. TrackedPromo(w) = TrackedPromo(e) + gone
  BY <1>1, <1>7, <1>11, <1>12, <1>13, TrackedSums
<1>15. TrackedPaid(e) = TrackedPaid(w)
  <2>1. \A l \in LotIds : RestOf(w, "paid")[l] = RestOf(e, "paid")[l]
    BY <1>5, <1>9 DEF RestOf
  <2>2. SumOver(LotIds, RestOf(w, "paid")) = SumOver(LotIds, RestOf(e, "paid"))
    BY <2>1, SumSame
  <2> QED BY <1>1, <1>11, <1>12, <2>2, TrackedSums
<1>16. /\ TrackedPromo(w) \in Nat /\ TrackedPromo(e) \in Nat /\ TrackedPaid(w) \in Nat /\ TrackedPaid(e) \in Nat
       /\ w.quota \in Int /\ w.promo \in Nat
  BY <1>1, <1>11, <1>12, TrackedType, WalletFields
<1>17. Covered(w) => Covered(e)
  BY <1>1, <1>2, <1>7, <1>10, <1>14, <1>16 DEF Covered
<1>18. SameLots(w, e)
  BY <1>5, <1>9 DEF SameLots
<1>19. NoneDue(e)
  BY <1>6, <1>9 DEF NoneDue
<1>20. Ledgered(w) => Ledgered(e)
  BY <1>1, <1>9, WalletFields DEF Ledgered
<1>21. Keeps(w, e)
  BY <1>1, <1>2, <1>7, <1>10, <1>14, <1>15, <1>16, <1>17 DEF Keeps, Nested, Covered
<1>22. \A l \in LotIds : e.lots[l].remaining <= w.lots[l].remaining
  BY <1>1, <1>9, WalletFields
<1> QED BY <1>11, <1>12, <1>18, <1>19, <1>20, <1>21, <1>22 DEF e, Sound

\* How the tracked parts change when lots of v hold what those of w hold
\* without alloc.
LEMMA TrackedChange ==
  ASSUME NEW w \in Wallets, HoldsOnlyIfActive(w), NEW v \in Wallets, HoldsOnlyIfActive(v),
         NEW alloc \in Allocs,
         \A l \in LotIds : v.lots[l].type = w.lots[l].type /\ w.lots[l].remaining = v.lots[l].remaining + alloc[l]
  PROVE  /\ TrackedPromo(w) = TrackedPromo(v) + SumOver(LotIds, ShareOf(w, "promotional", alloc))
         /\ TrackedPaid(w) = TrackedPaid(v) + SumOver(LotIds, ShareOf(w, "paid", alloc))
<1>1. ASSUME NEW type
      PROVE SumOver(LotIds, RestOf(w, type)) = SumOver(LotIds, RestOf(v, type)) + SumOver(LotIds, ShareOf(w, type, alloc))
  <2>1. \A l \in LotIds : v.lots[l].remaining \in Nat /\ alloc[l] \in Nat
    BY WalletFields, SourcesFacts DEF Allocs
  <2>2. \A l \in LotIds : RestOf(w, type)[l] = RestOf(v, type)[l] + ShareOf(w, type, alloc)[l]
    BY <2>1 DEF RestOf, ShareOf
  <2>3. NatOn(LotIds, RestOf(v, type)) /\ NatOn(LotIds, ShareOf(w, type, alloc)) /\ IsFiniteSet(LotIds)
    BY RestType, ShareType, SourcesFacts
  <2> QED BY <2>2, <2>3, SumPlus
<1> QED BY <1>1, TrackedSums

\* decreaseUserQuotaWithLots after the expiry it begins with.
Charged(e, n) ==
  [quota |-> e.quota - n,
   promo |-> e.promo - PromoPart(e, Allocation(e, n)),
   lots |-> [l \in LotIds |->
               IF Allocation(e, n)[l] = 0 THEN e.lots[l]
               ELSE SavedLot(e.lots[l], e.lots[l].remaining - Allocation(e, n)[l],
                             IF e.lots[l].remaining = Allocation(e, n)[l] THEN "exhausted" ELSE "active",
                             -Allocation(e, n)[l])]]

LEMMA ChargedKeeps ==
  ASSUME NEW e, Sound(e), NEW n \in Nat, n <= e.quota, PromoPart(e, Allocation(e, n)) <= e.promo
  PROVE  LET d == Charged(e, n)
             a == Allocation(e, n)
         IN /\ Sound(d) /\ SameLots(e, d)
            /\ a \in Allocs /\ Total(a) = n
            /\ Ledgered(e) => Ledgered(d)
            /\ Keeps(e, d)
            /\ \A l \in LotIds : /\ a[l] \in Nat
                                 /\ a[l] > 0 => e.lots[l].status = "active"
                                 /\ d.lots[l].remaining = e.lots[l].remaining - a[l]
                                 /\ d.lots[l].ledger = e.lots[l].ledger - a[l]
                                 /\ d.lots[l].status \in {e.lots[l].status, "exhausted", "active"}
<1> DEFINE a == Allocation(e, n)
           d == Charged(e, n)
<1>1. e \in Wallets /\ HoldsOnlyIfActive(e)
  BY DEF Sound
<1>2. a \in Allocs /\ Total(a) = n
  BY <1>1, AllocationBounds, AllocationTotal
<1>3. ASSUME NEW l \in LotIds
      PROVE  a[l] \in Nat /\ a[l] <= e.lots[l].remaining /\ (a[l] > 0 => e.lots[l].status = "active")
  <2>1. l \in Sources /\ l # FreePromo /\ l # FreePaid
    BY SourcesFacts
  <2>2. Available(e, n)[l] = IF e.lots[l].status = "active" THEN e.lots[l].remaining ELSE 0
    BY <2>1 DEF Available
  <2>3. a[l] \in Nat /\ a[l] <= Available(e, n)[l]
    BY <1>1, <1>2, <2>1, AllocationBounds DEF Allocs
  <2>4. e.lots[l].remaining \in Nat
    BY <1>1, WalletFields
  <2> HIDE DEF a
  <2> QED BY <2>2, <2>3, <2>4
<1>4. /\ d.quota = e.quota - n /\ d.promo = e.promo - PromoPart(e, a)
      /\ d = [quota |-> d.quota, promo |-> d.promo, lots |-> d.lots]
      /\ d.lots = [l \in LotIds |-> d.lots[l]]
      /\ \A l \in LotIds :
           d.lots[l] = IF a[l] = 0 THEN e.lots[l]
                       ELSE SavedLot(e.lots[l], e.lots[l].remaining - a[l],
                                     IF e.lots[l].remaining = a[l] THEN "exhausted" ELSE "active", -a[l])
  BY DEF Charged
<1>5. Covered(e) => LET left == n - (e.promo + TrackedPaid(e))
                     IN a[FreePaid] = IF left <= 0 THEN 0 ELSE left
  BY <1>1, AllocationOfCash DEF Covered
<1> HIDE DEF a, d
<1>6. ASSUME NEW l \in LotIds
      PROVE  /\ d.lots[l] \in Lots
             /\ d.lots[l].order = e.lots[l].order /\ d.lots[l].type = e.lots[l].type
             /\ d.lots[l].original = e.lots[l].original /\ d.lots[l].expires = e.lots[l].expires
             /\ d.lots[l].remaining = e.lots[l].remaining - a[l]
             /\ d.lots[l].ledger = e.lots[l].ledger - a[l]
             /\ a[l] = 0 => d.lots[l].status = e.lots[l].status
             /\ a[l] # 0 => d.lots[l].status = IF e.lots[l].remaining = a[l] THEN "exhausted" ELSE "active"
  <2>1. e.lots[l] \in Lots /\ e.lots[l].remaining \in Nat /\ e.lots[l].ledger \in Int /\ a[l] \in Nat
    BY <1>1, <1>3, WalletFields
  <2>2. CASE a[l] = 0
    BY <1>4, <2>1, <2>2
  <2>3. CASE a[l] # 0
    <3> DEFINE status == IF e.lots[l].remaining = a[l] THEN "exhausted" ELSE "active"
    <3>1. d.lots[l] = SavedLot(e.lots[l], e.lots[l].remaining - a[l], status, -a[l])
      BY <1>4, <2>3
    <3>2. e.lots[l].remaining - a[l] \in Nat /\ -a[l] \in Int /\ status \in Statuses
      BY <1>3, <2>1 DEF Statuses
    <3> HIDE DEF status
    <3>3. IsSaved(d.lots[l], e.lots[l], e.lots[l].remaining - a[l], status, -a[l])
      BY <2>1, <3>1, <3>2, SavedLotFields, Zenon
    <3> QED BY <2>1, <2>3, <3>3 DEF IsSaved, status
  <2> QED BY <2>2, <2>3
<1>7. PromoPart(e, a) \in Nat /\ e.quota \in Int /\ e.promo \in Nat
  BY <1>1, <1>2, PartsType, WalletFields
<1>8. d \in Wallets
  <2>1. d.quota \in Int /\ d.promo \in Nat
    BY <1>4, <1>7 DEF a
  <2>2. d.lots \in [LotIds -> Lots]
    BY <1>4, <1>6
  <2> QED BY <1>4, <2>1, <2>2 DEF Wallets
<1>9. HoldsOnlyIfActive(d)
  BY <1>1, <1>3, <1>6, WalletFields DEF HoldsOnlyIfActive
<1>10. \A l \in LotIds : d.lots[l].type = e.lots[l].type /\ e.lots[l].remaining = d.lots[l].remaining + a[l]
  BY <1>1, <1>3, <1>6, WalletFields
<1> DEFINE promoShare == SumOver(LotIds, ShareOf(e, "promotional", a))
           paidShare == SumOver(LotIds, ShareOf(e, "paid", a))
<1>11. TrackedPromo(e) = TrackedPromo(d) + promoShare /\ TrackedPaid(e) = TrackedPaid(d) + paidShare
  BY <1>1, <1>2, <1>8, <1>9, <1>10, TrackedChange
<1>12. PromoPart(e, a) = promoShare + a[FreePromo] /\ n = PromoPart(e, a) + paidShare + a[FreePaid]
  BY <1>1, <1>2, AllocationParts
<1>13. /\ promoShare \in Nat /\ paidShare \in Nat /\ a[FreePromo] \in Nat /\ a[FreePaid] \in Nat
       /\ TrackedPromo(e) \in Nat /\ TrackedPaid(e) \in Nat /\ TrackedPromo(d) \in Nat /\ TrackedPaid(d) \in Nat
  BY <1>1, <1>2, <1>8, <1>9, ShareType, PartsType, TrackedType
<1>14. Covered(e) => a[FreePromo] <= e.promo - TrackedPromo(e)
  <2>1. a[FreePromo] <= Available(e, n)[FreePromo]
    BY <1>1, SourcesFacts, AllocationBounds DEF a
  <2>2. Available(e, n)[FreePromo] = AtLeastZero(e.promo - TrackedPromo(e))
    BY SourcesFacts DEF Available
  <2> QED BY <1>1, <1>7, <1>13, <2>1, <2>2 DEF AtLeastZero, Covered
<1> HIDE DEF promoShare, paidShare
<1>15. Covered(e) => Covered(d)
  BY <1>4, <1>7, <1>11, <1>12, <1>13, <1>14 DEF Covered
<1>16. Keeps(e, d)
  <2>1. ASSUME Nested(e) PROVE Nested(d)
    <3>1. Covered(d) /\ Covered(e) /\ e.promo <= e.quota /\ TrackedPaid(e) <= e.quota - e.promo
      BY <1>15, <2>1 DEF Nested
    <3>2. d.promo <= d.quota /\ TrackedPaid(d) <= d.quota - d.promo
      BY <1>1, <1>4, <1>5, <1>7, <1>11, <1>12, <1>13, <3>1
    <3> QED BY <3>1, <3>2 DEF Nested
  <2> QED BY <1>15, <2>1 DEF Keeps
<1>17. SameLots(e, d)
  BY <1>3, <1>6 DEF SameLots
<1>18. Ledgered(e) => Ledgered(d)
  BY <1>6 DEF Ledgered
<1> QED BY <1>2, <1>3, <1>6, <1>8, <1>9, <1>16, <1>17, <1>18 DEF a, d, Sound

LEMMA RestoredKeeps ==
  ASSUME NEW w, Sound(w), NEW alloc \in Allocs,
         \A l \in LotIds : alloc[l] > 0 => w.lots[l].status \in {"active", "exhausted"}
  PROVE  LET v == Restored(w, alloc)
         IN /\ Sound(v) /\ SameLots(w, v)
            /\ v.quota = w.quota + Total(alloc) /\ v.promo = w.promo + PromoPart(w, alloc)
            /\ Ledgered(w) => Ledgered(v)
            /\ Keeps(w, v)
            /\ \A l \in LotIds : /\ v.lots[l].remaining = w.lots[l].remaining + alloc[l]
                                 /\ v.lots[l].ledger = w.lots[l].ledger + alloc[l]
                                 /\ alloc[l] = 0 => v.lots[l].status = w.lots[l].status
                                 /\ alloc[l] # 0 => v.lots[l].status = "active"
<1> DEFINE v == Restored(w, alloc)
<1>1. w \in Wallets /\ HoldsOnlyIfActive(w)
  BY DEF Sound
<1>2. \A l \in LotIds : alloc[l] \in Nat
  BY SourcesFacts DEF Allocs
<1>3. /\ v.quota = w.quota + Total(alloc) /\ v.promo = w.promo + PromoPart(w, alloc)
      /\ v = [quota |-> v.quota, promo |-> v.promo, lots |-> v.lots]
      /\ v.lots = [l \in LotIds |-> v.lots[l]]
      /\ \A l \in LotIds :
           v.lots[l] = IF alloc[l] = 0 THEN w.lots[l]
                       ELSE SavedLot(w.lots[l], w.lots[l].remaining + alloc[l], "active", alloc[l])
  BY DEF Restored
<1> HIDE DEF v
<1>4. ASSUME NEW l \in LotIds
      PROVE  /\ v.lots[l] \in Lots
             /\ v.lots[l].order = w.lots[l].order /\ v.lots[l].type = w.lots[l].type
             /\ v.lots[l].original = w.lots[l].original /\ v.lots[l].expires = w.lots[l].expires
             /\ v.lots[l].remaining = w.lots[l].remaining + alloc[l]
             /\ v.lots[l].ledger = w.lots[l].ledger + alloc[l]
             /\ alloc[l] = 0 => v.lots[l].status = w.lots[l].status
             /\ alloc[l] # 0 => v.lots[l].status = "active"
  <2>1. w.lots[l] \in Lots /\ w.lots[l].remaining \in Nat /\ w.lots[l].ledger \in Int
    BY <1>1, WalletFields
  <2>2. CASE alloc[l] = 0
    BY <1>3, <2>1, <2>2
  <2>3. CASE alloc[l] # 0
    <3>1. v.lots[l] = SavedLot(w.lots[l], w.lots[l].remaining + alloc[l], "active", alloc[l])
      BY <1>3, <2>3
    <3>2. w.lots[l].remaining + alloc[l] \in Nat /\ alloc[l] \in Int /\ "active" \in Statuses
      BY <1>2, <2>1 DEF Statuses
    <3>3. IsSaved(v.lots[l], w.lots[l], w.lots[l].remaining + alloc[l], "active", alloc[l])
      BY <2>1, <3>1, <3>2, SavedLotFields, Zenon
    <3> QED BY <2>3, <3>3 DEF IsSaved
  <2> QED BY <2>2, <2>3
<1>5. Total(alloc) \in Nat /\ PromoPart(w, alloc) \in Nat /\ w.quota \in Int /\ w.promo \in Nat
  BY <1>1, PartsType, WalletFields
<1>6. v \in Wallets
  <2>1. v.quota \in Int /\ v.promo \in Nat
    BY <1>3, <1>5
  <2>2. v.lots \in [LotIds -> Lots]
    BY <1>3, <1>4
  <2> QED BY <1>3, <2>1, <2>2 DEF Wallets
<1>7. HoldsOnlyIfActive(v)
  BY <1>1, <1>4, WalletFields DEF HoldsOnlyIfActive
<1>8. \A l \in LotIds : w.lots[l].type = v.lots[l].type /\ v.lots[l].remaining = w.lots[l].remaining + alloc[l]
  BY <1>4
<1> DEFINE promoShare == SumOver(LotIds, ShareOf(w, "promotional", alloc))
           paidShare == SumOver(LotIds, ShareOf(w, "paid", alloc))
<1>9. ASSUME NEW type PROVE ShareOf(v, type, alloc) = ShareOf(w, type, alloc)
  BY <1>4 DEF ShareOf
<1>10. TrackedPromo(v) = TrackedPromo(w) + promoShare /\ TrackedPaid(v) = TrackedPaid(w) + paidShare
  <2>1. /\ TrackedPromo(v) = TrackedPromo(w) + SumOver(LotIds, ShareOf(v, "promotional", alloc))
        /\ TrackedPaid(v) = TrackedPaid(w) + SumOver(LotIds, ShareOf(v, "paid", alloc))
    BY <1>1, <1>6, <1>7, <1>8, TrackedChange
  <2> QED BY <1>9, <2>1
<1>11. /\ PromoPart(w, alloc) = promoShare + alloc[FreePromo]
       /\ Total(alloc) = PromoPart(w, alloc) + paidShare + alloc[FreePaid]
  BY <1>1, AllocationParts
<1>12. /\ promoShare \in Nat /\ paidShare \in Nat /\ alloc[FreePromo] \in Nat /\ alloc[FreePaid] \in Nat
       /\ TrackedPromo(w) \in Nat /\ TrackedPaid(w) \in Nat
  BY <1>1, ShareType, PartsType, TrackedType
<1> HIDE DEF promoShare, paidShare
<1>13. Covered(w) => Covered(v)
  BY <1>1, <1>3, <1>5, <1>10, <1>11, <1>12 DEF Covered
<1>14. Keeps(w, v)
  BY <1>3, <1>5, <1>10, <1>11, <1>12, <1>13 DEF Keeps, Nested
<1>15. SameLots(w, v)
  BY <1>2, <1>4 DEF SameLots
<1>16. Ledgered(w) => Ledgered(v)
  BY <1>4 DEF Ledgered
<1> QED BY <1>3, <1>4, <1>6, <1>7, <1>14, <1>15, <1>16 DEF v, Sound

\* ReconcileRefund: the lots of order o that still hold credit, and the wallet
\* without them.
Mine(w, o) ==
  {l \in LotIds : w.lots[l].order = o /\ w.lots[l].remaining > 0 /\ w.lots[l].status # "reversed"}
MinePromo(w, o) == {l \in Mine(w, o) : w.lots[l].type = "promotional"}
Reversed(w, o) ==
  [quota |-> w.quota - SumOver(Mine(w, o), Remaining(w)),
   promo |-> w.promo - SumOver(MinePromo(w, o), Remaining(w)),
   lots |-> [l \in LotIds |-> IF l \in Mine(w, o)
                              THEN SavedLot(w.lots[l], 0, "reversed", -w.lots[l].remaining)
                              ELSE w.lots[l]]]

LEMMA ReversedKeeps ==
  ASSUME NEW w, Sound(w), NEW o,
         SumOver(Mine(w, o), Remaining(w)) <= w.quota,
         SumOver(MinePromo(w, o), Remaining(w)) <= w.promo
  PROVE  LET v == Reversed(w, o)
         IN /\ Sound(v) /\ SameLots(w, v)
            /\ Ledgered(w) => Ledgered(v)
            /\ Keeps(w, v)
            /\ \A l \in LotIds : v.lots[l].remaining <= w.lots[l].remaining
<1> DEFINE v == Reversed(w, o)
           taken == [s \in Sources |-> IF s \in Mine(w, o) THEN w.lots[s].remaining ELSE 0]
           remove == SumOver(Mine(w, o), Remaining(w))
           removePromo == SumOver(MinePromo(w, o), Remaining(w))
<1>1. w \in Wallets /\ HoldsOnlyIfActive(w)
  BY DEF Sound
<1>2. Mine(w, o) \in SUBSET LotIds /\ MinePromo(w, o) \in SUBSET Mine(w, o)
  BY DEF Mine, MinePromo
<1>3. taken \in Allocs /\ taken[FreePromo] = 0 /\ taken[FreePaid] = 0
  BY <1>1, <1>2, WalletFields, SourcesFacts DEF Allocs
<1>4. \A l \in LotIds : taken[l] = IF l \in Mine(w, o) THEN w.lots[l].remaining ELSE 0
  BY SourcesFacts
<1>5. NatOn(Mine(w, o), Remaining(w)) /\ NatOn(MinePromo(w, o), Remaining(w))
  BY <1>1, <1>2, WalletFields DEF NatOn, Remaining
<1>6. remove = Total(taken)
  <2>1. Mine(w, o) \in SUBSET Sources /\ IsFiniteSet(Sources)
    BY <1>2, SourcesFacts
  <2>2. \A s \in Mine(w, o) : taken[s] = Remaining(w)[s]
    BY <1>2, <2>1 DEF Remaining
  <2>3. \A s \in Sources \ Mine(w, o) : taken[s] = 0
    OBVIOUS
  <2> HIDE DEF taken
  <2>4. SumOver(Mine(w, o), Remaining(w)) = SumOver(Sources, taken)
    BY <1>5, <2>1, <2>2, <2>3, SumMask
  <2> QED BY <2>4 DEF Total
<1>7. removePromo = SumOver(LotIds, ShareOf(w, "promotional", taken))
  <2>1. MinePromo(w, o) \in SUBSET LotIds /\ IsFiniteSet(LotIds)
    BY <1>2, SourcesFacts
  <2>2. \A s \in MinePromo(w, o) : ShareOf(w, "promotional", taken)[s] = Remaining(w)[s]
    BY <1>2, <1>4, <2>1 DEF ShareOf, Remaining, MinePromo
  <2>3. \A s \in LotIds \ MinePromo(w, o) : ShareOf(w, "promotional", taken)[s] = 0
    BY <1>4 DEF ShareOf, MinePromo
  <2> HIDE DEF taken
  <2> QED BY <1>5, <2>1, <2>2, <2>3, SumMask
<1>8. /\ v.quota = w.quota - remove /\ v.promo = w.promo - removePromo
      /\ v = [quota |-> v.quota, promo |-> v.promo, lots |-> v.lots]
      /\ v.lots = [l \in LotIds |-> v.lots[l]]
      /\ \A l \in LotIds : v.lots[l] = IF l \in Mine(w, o)
                                       THEN SavedLot(w.lots[l], 0, "reversed", -w.lots[l].remaining)
                                       ELSE w.lots[l]
  BY DEF Reversed
<1>9. \A l \in Mine(w, o) : w.lots[l].status # "none"
  BY <1>1, <1>2, WalletFields DEF Mine, HoldsOnlyIfActive
<1> HIDE DEF v, taken, remove, removePromo
<1>10. ASSUME NEW l \in LotIds
       PROVE  /\ v.lots[l] \in Lots
              /\ v.lots[l].order = w.lots[l].order /\ v.lots[l].type = w.lots[l].type
              /\ v.lots[l].original = w.lots[l].original /\ v.lots[l].expires = w.lots[l].expires
              /\ v.lots[l].remaining = w.lots[l].remaining - taken[l]
              /\ v.lots[l].ledger = w.lots[l].ledger - taken[l]
              /\ v.lots[l].status = IF l \in Mine(w, o) THEN "reversed" ELSE w.lots[l].status
  <2>1. w.lots[l] \in Lots /\ w.lots[l].remaining \in Nat /\ w.lots[l].ledger \in Int
    BY <1>1, WalletFields
  <2>2. CASE l \in Mine(w, o)
    <3>1. v.lots[l] = SavedLot(w.lots[l], 0, "reversed", -w.lots[l].remaining)
      BY <1>8, <2>2
    <3>2. 0 \in Nat /\ -w.lots[l].remaining \in Int /\ "reversed" \in Statuses
      BY <2>1 DEF Statuses
    <3>3. IsSaved(v.lots[l], w.lots[l], 0, "reversed", -w.lots[l].remaining)
      BY <2>1, <3>1, <3>2, SavedLotFields, Zenon
    <3> QED BY <1>4, <2>1, <2>2, <3>3 DEF IsSaved
  <2>3. CASE l \notin Mine(w, o)
    BY <1>4, <1>8, <2>1, <2>3
  <2> QED BY <2>2, <2>3
<1> DEFINE promoShare == SumOver(LotIds, ShareOf(w, "promotional", taken))
           paidShare == SumOver(LotIds, ShareOf(w, "paid", taken))
<1>11. /\ promoShare \in Nat /\ paidShare \in Nat /\ w.quota \in Int /\ w.promo \in Nat
       /\ TrackedPromo(w) \in Nat /\ TrackedPaid(w) \in Nat
  BY <1>1, <1>3, ShareType, TrackedType, WalletFields
<1>12. removePromo = promoShare /\ remove = promoShare + paidShare
  BY <1>1, <1>3, <1>6, <1>7, <1>11, AllocationParts
<1>13. v \in Wallets
  <2>1. remove <= w.quota /\ removePromo <= w.promo
    BY DEF remove, removePromo
  <2> HIDE DEF promoShare, paidShare
  <2>2. v.quota \in Int /\ v.promo \in Nat
    BY <1>8, <1>11, <1>12, <2>1
  <2>3. v.lots \in [LotIds -> Lots]
    BY <1>8, <1>10
  <2> QED BY <1>8, <2>2, <2>3 DEF Wallets
<1>14. HoldsOnlyIfActive(v)
  BY <1>1, <1>4, <1>10, WalletFields DEF HoldsOnlyIfActive
<1>15. \A l \in LotIds : v.lots[l].type = w.lots[l].type /\ w.lots[l].remaining = v.lots[l].remaining + taken[l]
  BY <1>1, <1>4, <1>10, WalletFields
<1>16. TrackedPromo(w) = TrackedPromo(v) + promoShare /\ TrackedPaid(w) = TrackedPaid(v) + paidShare
  BY <1>1, <1>3, <1>13, <1>14, <1>15, TrackedChange
<1>17. TrackedPromo(v) \in Nat /\ TrackedPaid(v) \in Nat
  BY <1>13, <1>14, TrackedType
<1> HIDE DEF promoShare, paidShare
<1>18. Covered(w) => Covered(v)
  BY <1>1, <1>8, <1>11, <1>12, <1>16, <1>17 DEF Covered
<1>19. Keeps(w, v)
  BY <1>8, <1>11, <1>12, <1>16, <1>17, <1>18 DEF Keeps, Nested
<1>20. SameLots(w, v)
  BY <1>9, <1>10 DEF SameLots
<1>21. Ledgered(w) => Ledgered(v)
  BY <1>10 DEF Ledgered
<1>22. \A l \in LotIds : v.lots[l].remaining <= w.lots[l].remaining
  BY <1>1, <1>4, <1>10, WalletFields
<1> QED BY <1>13, <1>14, <1>19, <1>20, <1>21, <1>22 DEF v, Sound

\* CreditStripeTopupOrder, one lot at a time.
WithLot(w, p, o, type, amount, expires) ==
  [quota |-> w.quota + amount,
   promo |-> w.promo + (IF type = "promotional" THEN amount ELSE 0),
   lots |-> [w.lots EXCEPT ![p] = NewLot(o, type, amount, expires)]]

LEMMA WithLotKeeps ==
  ASSUME NEW w, Sound(w), NEW p \in LotIds, w.lots[p].status = "none", NEW o \in Orders,
         NEW type \in {"paid", "promotional"}, NEW amount \in Nat, NEW expires \in Nat
  PROVE  LET v == WithLot(w, p, o, type, amount, expires)
         IN /\ Sound(v)
            /\ Ledgered(w) => Ledgered(v)
            /\ Keeps(w, v)
            /\ v.lots[p] = NewLot(o, type, amount, expires)
            /\ \A l \in LotIds \ {p} : v.lots[l] = w.lots[l]
<1> DEFINE v == WithLot(w, p, o, type, amount, expires)
           new == [l \in LotIds |-> IF l = p THEN amount ELSE 0]
<1>1. w \in Wallets /\ HoldsOnlyIfActive(w)
  BY DEF Sound
<1>2. /\ v.quota = w.quota + amount /\ v.promo = w.promo + (IF type = "promotional" THEN amount ELSE 0)
      /\ v = [quota |-> v.quota, promo |-> v.promo, lots |-> v.lots]
      /\ v.lots = [w.lots EXCEPT ![p] = NewLot(o, type, amount, expires)]
  BY DEF WithLot
<1>3. w.lots \in [LotIds -> Lots] /\ w.quota \in Int /\ w.promo \in Nat
  BY <1>1 DEF Wallets
<1>4. NewLot(o, type, amount, expires) \in Lots
  BY DEF NewLot, Lots
<1>5. v.lots[p] = NewLot(o, type, amount, expires) /\ \A l \in LotIds \ {p} : v.lots[l] = w.lots[l]
  BY <1>2, <1>3
<1>6. v \in Wallets
  <2>1. v.lots \in [LotIds -> Lots]
    BY <1>2, <1>3, <1>4
  <2>2. v.quota \in Int /\ v.promo \in Nat
    BY <1>2, <1>3
  <2> QED BY <1>2, <2>1, <2>2 DEF Wallets
<1> HIDE DEF v
<1>7. /\ v.lots[p].type = type /\ v.lots[p].remaining = amount /\ v.lots[p].status = "active"
      /\ v.lots[p].ledger = amount
  BY <1>5 DEF NewLot
<1>8. HoldsOnlyIfActive(v)
  BY <1>1, <1>5, <1>7 DEF HoldsOnlyIfActive
<1>9. SumOver(LotIds, new) = amount /\ NatOn(LotIds, new) /\ IsFiniteSet(LotIds)
  <2>1. {p} \in SUBSET LotIds /\ NatOn({p}, new) /\ NatOn(LotIds, new) /\ IsFiniteSet(LotIds)
    BY SourcesFacts DEF NatOn
  <2>2. new[p] = amount /\ \A l \in LotIds \ {p} : new[l] = 0
    OBVIOUS
  <2> HIDE DEF new
  <2>3. SumOver({p}, new) = SumOver(LotIds, new)
    BY <2>1, <2>2, SumMask
  <2>4. SumOver({p}, new) = amount
    BY <2>2, SumSingle
  <2> QED BY <2>1, <2>3, <2>4
<1>10. SumOver(LotIds, RestOf(v, type)) = SumOver(LotIds, RestOf(w, type)) + amount
  <2>1. w.lots[p].remaining = 0 /\ \A l \in LotIds : w.lots[l].remaining \in Nat
    BY <1>1, WalletFields DEF HoldsOnlyIfActive
  <2>2. \A l \in LotIds : RestOf(v, type)[l] = RestOf(w, type)[l] + new[l]
    BY <1>5, <1>7, <2>1 DEF RestOf
  <2>3. NatOn(LotIds, RestOf(w, type))
    BY <1>1, RestType
  <2> HIDE DEF new
  <2>4. SumOver(LotIds, RestOf(v, type)) = SumOver(LotIds, RestOf(w, type)) + SumOver(LotIds, new)
    BY <1>9, <2>2, <2>3, SumPlus
  <2> QED BY <1>9, <2>4
<1>11. ASSUME NEW other, other # type
       PROVE  SumOver(LotIds, RestOf(v, other)) = SumOver(LotIds, RestOf(w, other))
  <2>1. w.lots[p].remaining = 0
    BY <1>1 DEF HoldsOnlyIfActive
  <2>2. \A l \in LotIds : RestOf(v, other)[l] = RestOf(w, other)[l]
    BY <1>5, <1>7, <1>11, <2>1 DEF RestOf
  <2> QED BY <2>2, SumSame
<1>12. /\ TrackedPromo(v) = TrackedPromo(w) + (IF type = "promotional" THEN amount ELSE 0)
       /\ TrackedPaid(v) = TrackedPaid(w) + (IF type = "paid" THEN amount ELSE 0)
  <2>1. TrackedPromo(w) \in Nat /\ TrackedPaid(w) \in Nat
    BY <1>1, TrackedType
  <2>2. CASE type = "promotional"
    BY <1>1, <1>6, <1>8, <1>10, <1>11, <2>1, <2>2, TrackedSums
  <2>3. CASE type = "paid"
    BY <1>1, <1>6, <1>8, <1>10, <1>11, <2>1, <2>3, TrackedSums
  <2> QED BY <2>2, <2>3
<1>13. TrackedPromo(w) \in Nat /\ TrackedPaid(w) \in Nat
  BY <1>1, TrackedType
<1>14. Covered(w) => Covered(v)
  BY <1>1, <1>2, <1>3, <1>12, <1>13 DEF Covered
<1>15. Keeps(w, v)
  BY <1>2, <1>3, <1>12, <1>13, <1>14 DEF Keeps, Nested
<1>16. Ledgered(w) => Ledgered(v)
  BY <1>5, <1>7 DEF Ledgered
<1> QED BY <1>5, <1>6, <1>8, <1>15, <1>16 DEF v, Sound

\* Untracked money in or out: the lots stay.
LEMMA BalancesOnly ==
  ASSUME NEW w, Sound(w), NEW quota \in Int, NEW promo \in Nat
  PROVE  LET v == [quota |-> quota, promo |-> promo, lots |-> w.lots]
         IN /\ Sound(v) /\ SameLots(w, v)
            /\ TrackedPaid(v) = TrackedPaid(w) /\ TrackedPromo(v) = TrackedPromo(w)
<1> DEFINE v == [quota |-> quota, promo |-> promo, lots |-> w.lots]
<1>1. w \in Wallets /\ HoldsOnlyIfActive(w)
  BY DEF Sound
<1>2. v \in Wallets /\ v.lots = w.lots /\ v.promo = promo
  BY <1>1 DEF Wallets
<1> HIDE DEF v
<1>3. TrackedPromo(v) = TrackedPromo(w) /\ TrackedPaid(v) = TrackedPaid(w)
  BY <1>2 DEF TrackedPromo, TrackedPaid, Remaining
<1>4. HoldsOnlyIfActive(v) /\ SameLots(w, v)
  BY <1>1, <1>2 DEF HoldsOnlyIfActive, SameLots
<1> QED BY <1>2, <1>3, <1>4 DEF v, Sound

-----------------------------------------------------------------------------
(* What requests hold. *)

Holds == [Requests -> [state : ResStates, alloc : Allocs]]

\* What requests may still give back to a lot.
HeldOf(rs, l) == SumOver({r \in Requests : rs[r].state = "held"}, [r \in Requests |-> rs[r].alloc[l]])

LEMMA HeldType ==
  ASSUME NEW rs \in Holds, NEW l \in LotIds
  PROVE  HeldOf(rs, l) \in Nat
<1> DEFINE H == {r \in Requests : rs[r].state = "held"}
           f == [r \in Requests |-> rs[r].alloc[l]]
<1>1. H \in SUBSET Requests
  OBVIOUS
<1>2. IsFiniteSet(H)
  BY <1>1, AmountAssumption, FS_Subset
<1>3. NatOn(H, f)
  BY SourcesFacts DEF NatOn, Holds, Allocs
<1> QED BY <1>2, <1>3, SumType DEF HeldOf

\* A request that begins or ends to hold an allocation.
LEMMA HeldChange ==
  ASSUME NEW rs \in Holds, NEW r \in Requests, rs[r].state = "held",
         NEW qs \in Holds, qs[r].state # "held", \A q \in Requests \ {r} : qs[q] = rs[q],
         NEW l \in LotIds
  PROVE  HeldOf(rs, l) = HeldOf(qs, l) + rs[r].alloc[l]
<1> DEFINE H == {q \in Requests : rs[q].state = "held"}
           K == {q \in Requests : qs[q].state = "held"}
           f == [q \in Requests |-> rs[q].alloc[l]]
           g == [q \in Requests |-> qs[q].alloc[l]]
<1>1. H \in SUBSET Requests /\ r \in H /\ H \ {r} = K /\ f[r] = rs[r].alloc[l]
  OBVIOUS
<1>2. IsFiniteSet(H)
  BY <1>1, AmountAssumption, FS_Subset
<1>3. NatOn(H, f)
  BY SourcesFacts DEF NatOn, Holds, Allocs
<1>4. \A q \in K : f[q] = g[q]
  BY <1>1
<1>5. HeldOf(rs, l) = SumOver(H, f) /\ HeldOf(qs, l) = SumOver(K, g)
  BY DEF HeldOf
<1> HIDE DEF H, K, f, g
<1>6. SumOver(H, f) = SumOver(K, f) + f[r]
  BY <1>1, <1>2, <1>3, SumRemove
<1>7. SumOver(K, f) = SumOver(K, g)
  BY <1>4, SumSame
<1> QED BY <1>1, <1>5, <1>6, <1>7

\* The wallet and what requests hold of it are in order.
Backed(w, rs) == \A l \in LotIds : w.lots[l].remaining + HeldOf(rs, l) <= w.lots[l].original
Unborn(w) == \A l \in LotIds : w.lots[l].status = "none" => w.lots[l].original = 0
Books(w, rs) == Sound(w) /\ Ledgered(w) /\ Backed(w, rs) /\ Unborn(w)

LEMMA BooksFields ==
  ASSUME NEW w, NEW rs \in Holds, Books(w, rs)
  PROVE  \A l \in LotIds : /\ w.lots[l].remaining \in Nat /\ w.lots[l].original \in Nat
                           /\ HeldOf(rs, l) \in Nat
BY WalletFields, HeldType DEF Books, Sound

LEMMA BooksSame ==
  ASSUME NEW w, NEW rs \in Holds, Books(w, rs),
         NEW v, Sound(v), SameLots(w, v), Ledgered(v),
         NEW qs \in Holds,
         \A l \in LotIds : v.lots[l].remaining + HeldOf(qs, l) <= w.lots[l].remaining + HeldOf(rs, l)
  PROVE  Books(v, qs)
<1>1. \A l \in LotIds : /\ w.lots[l].remaining \in Nat /\ w.lots[l].original \in Nat
                        /\ HeldOf(rs, l) \in Nat /\ HeldOf(qs, l) \in Nat /\ v.lots[l].remaining \in Nat
  BY BooksFields, HeldType, WalletFields DEF Sound
<1>2. Backed(v, qs)
  BY <1>1 DEF Books, Backed, SameLots
<1>3. Unborn(v)
  BY DEF Books, Unborn, SameLots
<1> QED BY <1>2, <1>3 DEF Books

\* A charge, whoever holds it afterwards.
LEMMA DeductedBooks ==
  ASSUME NEW w, NEW rs \in Holds, Books(w, rs), NEW n \in Nat, CanDeduct(w, n)
  PROVE  LET e == ExpireLots(w)
             a == Allocation(e, n)
             d == Deducted(w, n)
         IN /\ Sound(d) /\ Ledgered(d) /\ SameLots(w, d) /\ Books(d, rs)
            /\ Keeps(w, d)
            /\ a \in Allocs /\ \A l \in LotIds : a[l] \in Nat /\ d.lots[l].remaining + a[l] <= w.lots[l].remaining
<1> DEFINE e == ExpireLots(w)
           a == Allocation(e, n)
           d == Deducted(w, n)
<1>1. Sound(w) /\ Ledgered(w)
  BY DEF Books
<1>2. /\ Sound(e) /\ SameLots(w, e) /\ Ledgered(e) /\ Keeps(w, e)
      /\ \A l \in LotIds : e.lots[l].remaining <= w.lots[l].remaining
  BY <1>1, ExpireLotsKeeps
<1>3. d = Charged(e, n) /\ e.quota >= n /\ e.promo >= PromoPart(e, a)
  BY DEF Deducted, Charged, CanDeduct
<1> HIDE DEF e, d
<1>4. e.quota \in Int /\ e.promo \in Nat /\ PromoPart(e, a) \in Nat
  BY <1>2, WalletFields, AllocationBounds, PartsType DEF Sound
<1>5. n <= e.quota /\ PromoPart(e, a) <= e.promo
  BY <1>3, <1>4
<1>6. /\ Sound(d) /\ SameLots(e, d) /\ Ledgered(d) /\ Keeps(e, d) /\ a \in Allocs
      /\ \A l \in LotIds : a[l] \in Nat /\ d.lots[l].remaining = e.lots[l].remaining - a[l]
  BY <1>2, <1>3, <1>5, ChargedKeeps
<1> HIDE DEF a
<1>7. SameLots(w, d)
  BY <1>2, <1>6 DEF SameLots
<1>8. \A l \in LotIds : w.lots[l].remaining \in Nat /\ e.lots[l].remaining \in Nat /\ HeldOf(rs, l) \in Nat
  BY <1>1, <1>2, WalletFields, HeldType DEF Sound
<1>9. \A l \in LotIds : /\ d.lots[l].remaining + a[l] <= w.lots[l].remaining
                        /\ d.lots[l].remaining + HeldOf(rs, l) <= w.lots[l].remaining + HeldOf(rs, l)
  BY <1>2, <1>6, <1>8
<1>10. Books(d, rs)
  BY <1>6, <1>7, <1>9, BooksSame
<1>11. Keeps(w, d)
  BY <1>2, <1>6 DEF Keeps
<1> QED BY <1>6, <1>7, <1>9, <1>10, <1>11 DEF a, d, e

\* Giving back some of what request r holds.
LEMMA RestoredBooks ==
  ASSUME NEW w, NEW rs \in Holds, Books(w, rs), NEW back \in Allocs,
         \A l \in LotIds : back[l] = 0 \/ CanRestore(w, back),
         NEW r \in Requests, rs[r].state = "held", \A l \in LotIds : back[l] <= rs[r].alloc[l],
         NEW qs \in Holds, qs[r].state # "held", \A q \in Requests \ {r} : qs[q] = rs[q]
  PROVE  LET v == Restored(w, back)
         IN Books(v, qs) /\ SameLots(w, v) /\ Keeps(w, v)
<1> DEFINE v == Restored(w, back)
<1>1. Sound(w) /\ Ledgered(w) /\ Unborn(w)
  BY DEF Books
<1>2. \A l \in LotIds : back[l] \in Nat /\ rs[r].alloc[l] \in Nat
  BY SourcesFacts DEF Allocs, Holds
<1>3. ASSUME NEW l \in LotIds, back[l] > 0 PROVE w.lots[l].status \in {"active", "exhausted"}
  <2>1. /\ w.lots[l].remaining <= w.lots[l].original - back[l]
        /\ w.lots[l].status \notin {"expired", "reversed"}
    BY <1>2, <1>3 DEF CanRestore
  <2>2. w.lots[l].remaining \in Nat /\ w.lots[l].original \in Nat /\ w.lots[l].status \in Statuses
    BY <1>1 DEF Sound, Wallets, Lots, Statuses
  <2>3. w.lots[l].status # "none"
    BY <1>1, <1>2, <1>3, <2>1, <2>2 DEF Unborn
  <2> QED BY <2>1, <2>2, <2>3 DEF Statuses
<1>4. /\ Sound(v) /\ SameLots(w, v) /\ Ledgered(v) /\ Keeps(w, v)
      /\ \A l \in LotIds : v.lots[l].remaining = w.lots[l].remaining + back[l]
  BY <1>1, <1>3, RestoredKeeps
<1> HIDE DEF v
<1>5. ASSUME NEW l \in LotIds PROVE HeldOf(rs, l) = HeldOf(qs, l) + rs[r].alloc[l]
  BY HeldChange
<1>6. ASSUME NEW l \in LotIds
      PROVE  v.lots[l].remaining + HeldOf(qs, l) <= w.lots[l].remaining + HeldOf(rs, l)
  <2>1. HeldOf(qs, l) \in Nat /\ w.lots[l].remaining \in Nat
    BY HeldType, BooksFields
  <2> QED BY <1>2, <1>4, <1>5, <2>1
<1>7. Books(v, qs)
  BY <1>4, <1>6, BooksSame
<1> QED BY <1>4, <1>7 DEF v

\* takeWalletRefund gives back no more than was taken, and nothing for nothing.
LEMMA WalletRefundBounds ==
  ASSUME NEW w, NEW alloc \in Allocs, NEW n \in Nat
  PROVE  /\ WalletRefund(w, alloc, n) \in Allocs
         /\ \A s \in Sources : WalletRefund(w, alloc, n)[s] <= alloc[s]
         /\ n = 0 => \A s \in Sources : WalletRefund(w, alloc, n)[s] = 0
<1> DEFINE before(s) == SumOver({u \in Sources : GivenBackBefore(w, u, s)}, alloc)
<1>1. \A s \in Sources : alloc[s] \in Nat
  BY DEF Allocs
<1>2. \A s \in Sources : before(s) \in Nat
  BY BeforeType
<1>3. WalletRefund(w, alloc, n) = [s \in Sources |-> Least(alloc[s], AtLeastZero(n - before(s)))]
  BY DEF WalletRefund
<1> HIDE DEF before
<1>4. \A s \in Sources : /\ Least(alloc[s], AtLeastZero(n - before(s))) \in Nat
                         /\ Least(alloc[s], AtLeastZero(n - before(s))) <= alloc[s]
                         /\ n = 0 => Least(alloc[s], AtLeastZero(n - before(s))) = 0
  BY <1>1, <1>2 DEF Least, AtLeastZero
<1> QED BY <1>3, <1>4 DEF Allocs

\* A settlement that finds n unused units of what a request took gives back
\* exactly n (takeWalletRefund), however many sources they came from.
THEOREM SettlementGivesBackSurplus ==
  ASSUME NEW w \in Wallets, NEW alloc \in Allocs, NEW n \in Nat, n <= Total(alloc)
  PROVE  Total(WalletRefund(w, alloc, n)) = n
<1> DEFINE R == GivingOrder(w)
           b == WalletRefund(w, alloc, n)
<1>1. LinearOn(R, Sources) /\ IsFiniteSet(Sources) /\ NatOn(Sources, alloc) /\ n <= SumOver(Sources, alloc)
  BY OrderLinear, SourcesFacts DEF NatOn, Allocs, Total
<1>2. ASSUME NEW s \in Sources
      PROVE  LET left == n - SumOver(Below(R, Sources, s), alloc)
             IN b[s] = IF left <= 0 THEN 0 ELSE IF left <= alloc[s] THEN left ELSE alloc[s]
  <2>1. Below(R, Sources, s) = {u \in Sources : GivenBackBefore(w, u, s)}
    BY OrderLinear DEF Below
  <2>2. b[s] = Least(alloc[s], AtLeastZero(n - SumOver(Below(R, Sources, s), alloc)))
    BY <2>1 DEF WalletRefund
  <2>3. alloc[s] \in Nat
    BY <1>1 DEF NatOn
  <2>4. SumOver(Below(R, Sources, s), alloc) \in Nat
    BY BeforeType DEF Below
  <2> HIDE DEF R, b
  <2> QED BY <2>2, <2>3, <2>4 DEF Least, AtLeastZero
<1> HIDE DEF R, b
<1>3. SumOver(Sources, b) = n
  BY <1>1, <1>2, GreedySum
<1> QED BY <1>3 DEF Total, b

-----------------------------------------------------------------------------
(* The inductive invariant, action by action. *)

OrderStates == {"open", "paid", "credited", "refunded", "manual_review"}
Rest == /\ res \in Holds /\ order \in [Orders -> OrderStates]
        /\ profile \in [Handlers -> Nat] /\ now \in 0 .. MaxTime

LEMMA IInvParts == IInv <=> Books(wallet, res) /\ Rest /\ LotsInOrder
BY DEF IInv, TypeOK, Books, Sound, Ledgered, LedgerMatchesLots, NoCreditMinted, Backed, HeldOf, Unborn,
       NoneIsEmpty, Rest, Holds, Wallets, Allocs, OrderStates

LEMMA IInvPartsNext == IInv' <=> Books(wallet', res') /\ Rest' /\ LotsInOrder'
BY DEF IInv, TypeOK, Books, Sound, Ledgered, LedgerMatchesLots, NoCreditMinted, Backed, HeldOf, Unborn,
       NoneIsEmpty, Rest, Holds, Wallets, Allocs, OrderStates

\* Lots that are only moved about keep their order.
LEMMA LotsInOrderKept ==
  ASSUME LotsInOrder, Rest, SameLots(wallet, wallet'), order' \in [Orders -> OrderStates],
         \A o \in Orders : order[o] \notin Uncredited => order'[o] \notin Uncredited
  PROVE  LotsInOrder'
<1> DEFINE S == {o \in Orders : order[o] \notin Uncredited}
           T == {o \in Orders : order'[o] \notin Uncredited}
<1>1. S \in SUBSET T /\ T \in SUBSET Orders
  OBVIOUS
<1>2. IsFiniteSet(T)
  BY <1>1, AmountAssumption, FS_Subset
<1>3. Cardinality(S) <= Cardinality(T) /\ Cardinality(S) \in Nat /\ Cardinality(T) \in Nat
  BY <1>1, <1>2, FS_Subset, FS_CardinalityType
<1>4. PICK k \in 0 .. 2 * Cardinality(S) : \A l \in LotIds : wallet.lots[l].status = "none" <=> l > k
  BY DEF LotsInOrder
<1>5. k \in 0 .. 2 * Cardinality(T)
  BY <1>3, <1>4
<1>6. \A l \in LotIds : wallet'.lots[l].status = "none" <=> l > k
  BY <1>4 DEF SameLots
<1> QED BY <1>5, <1>6 DEF LotsInOrder

LEMMA NoAllocType == NoAlloc \in Allocs
BY DEF NoAlloc, Allocs

\* The top-up: there is room for two more lots, and they come next.
LEMMA CreditStep ==
  ASSUME IInv, NEW o \in Orders, CreditStripeTopupOrder(o)
  PROVE  IInv' /\ Keeps(wallet, wallet')
<1> DEFINE S == {q \in Orders : order[q] \notin Uncredited}
           T == {q \in Orders : order'[q] \notin Uncredited}
           N == Cardinality(Orders)
<1>1. Books(wallet, res) /\ Rest /\ LotsInOrder
  BY IInvParts
<1>2. /\ order[o] \in Uncredited /\ order' = [order EXCEPT ![o] = "credited"]
      /\ res' = res /\ profile' = profile /\ now' = now
  BY DEF CreditStripeTopupOrder, Uncredited
<1>3. order' \in [Orders -> OrderStates]
  BY <1>1, <1>2 DEF Rest, OrderStates
<1>4. S \in SUBSET Orders /\ T = S \cup {o} /\ o \notin S
  BY <1>1, <1>2 DEF Rest, Uncredited
<1>5. /\ IsFiniteSet(S) /\ IsFiniteSet(S \cup {o}) /\ Cardinality(S) \in Nat /\ N \in Nat
      /\ Cardinality(S \cup {o}) = Cardinality(S) + 1 /\ Cardinality(S \cup {o}) <= N
  <2>1. S \cup {o} \in SUBSET Orders /\ IsFiniteSet(Orders)
    BY <1>4, AmountAssumption
  <2> HIDE DEF S
  <2>2. IsFiniteSet(S) /\ IsFiniteSet(S \cup {o}) /\ Cardinality(S \cup {o}) <= N
    BY <1>4, <2>1, FS_Subset
  <2> QED BY <1>4, <2>1, <2>2, FS_CardinalityType, FS_AddElement
<1>6. PICK k \in 0 .. 2 * Cardinality(S) : \A l \in LotIds : wallet.lots[l].status = "none" <=> l > k
  BY <1>1 DEF LotsInOrder
<1> HIDE DEF S, N
<1>7. k \in Nat /\ k + 1 \in LotIds /\ k + 2 \in LotIds /\ k + 2 <= 2 * Cardinality(S \cup {o})
  BY <1>5, <1>6 DEF LotIds, N
<1>8. \A l \in LotIds : l \in Int
  BY SourcesFacts
<1>9. Min({l \in LotIds : wallet.lots[l].status = "none"}) = k + 1
  <2> DEFINE F == {l \in LotIds : wallet.lots[l].status = "none"}
  <2>1. k + 1 \in F /\ \A l \in F : k + 1 <= l /\ l \in Int
    BY <1>6, <1>7, <1>8
  <2> HIDE DEF F
  <2>2. Min(F) = k + 1
    BY <1>7, <2>1 DEF Min
  <2> QED BY <2>2 DEF F
<1>10. PICK life \in PromoLifetimes :
        LET expires == IF life = 0 THEN 0 ELSE now + life
            paid == NewLot(o, "paid", PaidQuota, 0)
            promo == NewLot(o, "promotional", PromoQuota, expires)
        IN wallet' = [quota |-> wallet.quota + PaidQuota + PromoQuota,
                      promo |-> wallet.promo + PromoQuota,
                      lots |-> IF PaidQuota = 0 THEN [wallet.lots EXCEPT ![k + 1] = promo]
                               ELSE IF PromoQuota = 0 THEN [wallet.lots EXCEPT ![k + 1] = paid]
                               ELSE [wallet.lots EXCEPT ![k + 1] = paid, ![k + 1 + 1] = promo]]
  BY <1>9 DEF CreditStripeTopupOrder
<1> DEFINE expires == IF life = 0 THEN 0 ELSE now + life
<1>11. expires \in Nat /\ PaidQuota \in Nat /\ PromoQuota \in Nat
  BY <1>1, AmountAssumption DEF Rest
<1>12. /\ Sound(wallet) /\ Ledgered(wallet) /\ Backed(wallet, res) /\ Unborn(wallet) /\ res \in Holds
       /\ wallet.quota \in Int /\ wallet.promo \in Nat
  BY <1>1, WalletFields DEF Books, Rest, Sound
<1> HIDE DEF expires
\* The wallet afterwards, and the last lot that is taken.
<1>13. \E m \in k + 1 .. k + 2 :
         /\ Sound(wallet') /\ Ledgered(wallet') /\ Keeps(wallet, wallet')
         /\ \A l \in LotIds : l <= k \/ l > m => wallet'.lots[l] = wallet.lots[l]
         /\ \A l \in LotIds : l > k /\ l <= m =>
              /\ wallet'.lots[l].status = "active"
              /\ wallet'.lots[l].remaining = wallet'.lots[l].original
  <2>1. CASE PaidQuota = 0
    <3>1. wallet' = WithLot(wallet, k + 1, o, "promotional", PromoQuota, expires)
      BY <1>10, <1>11, <1>12, <2>1 DEF WithLot, expires
    <3>2. wallet.lots[k + 1].status = "none"
      BY <1>6, <1>7
    <3>3. /\ Sound(wallet') /\ Ledgered(wallet') /\ Keeps(wallet, wallet')
          /\ wallet'.lots[k + 1] = NewLot(o, "promotional", PromoQuota, expires)
          /\ \A l \in LotIds \ {k + 1} : wallet'.lots[l] = wallet.lots[l]
      BY <1>7, <1>11, <1>12, <3>1, <3>2, WithLotKeeps
    <3>4. wallet'.lots[k + 1].status = "active" /\ wallet'.lots[k + 1].remaining = wallet'.lots[k + 1].original
      BY <3>3 DEF NewLot
    <3>5. \A l \in LotIds : (l <= k \/ l > k + 1 => l # k + 1) /\ (l > k /\ l <= k + 1 => l = k + 1)
      BY <1>7, <1>8
    <3>6. k + 1 \in k + 1 .. k + 2
      BY <1>7
    <3> QED BY <3>3, <3>4, <3>5, <3>6
  <2>2. CASE PaidQuota # 0 /\ PromoQuota = 0
    <3>1. wallet' = WithLot(wallet, k + 1, o, "paid", PaidQuota, 0)
      BY <1>10, <1>11, <1>12, <2>2 DEF WithLot
    <3>2. wallet.lots[k + 1].status = "none"
      BY <1>6, <1>7
    <3> DEFINE v == WithLot(wallet, k + 1, o, "paid", PaidQuota, 0)
    <3>3. /\ Sound(v) /\ Ledgered(v) /\ Keeps(wallet, v)
          /\ v.lots[k + 1] = NewLot(o, "paid", PaidQuota, 0)
          /\ \A l \in LotIds \ {k + 1} : v.lots[l] = wallet.lots[l]
      BY <1>7, <1>11, <1>12, <3>2, WithLotKeeps
    <3> HIDE DEF v
    <3>4. /\ Sound(wallet') /\ Ledgered(wallet') /\ Keeps(wallet, wallet')
          /\ wallet'.lots[k + 1] = NewLot(o, "paid", PaidQuota, 0)
          /\ \A l \in LotIds \ {k + 1} : wallet'.lots[l] = wallet.lots[l]
      BY <3>1, <3>3 DEF v
    <3>5. wallet'.lots[k + 1].status = "active" /\ wallet'.lots[k + 1].remaining = wallet'.lots[k + 1].original
      BY <3>4 DEF NewLot
    <3>6. \A l \in LotIds : (l <= k \/ l > k + 1 => l # k + 1) /\ (l > k /\ l <= k + 1 => l = k + 1)
      BY <1>7, <1>8
    <3>7. k + 1 \in k + 1 .. k + 2
      BY <1>7
    <3> QED BY <3>4, <3>5, <3>6, <3>7
  <2>3. CASE PaidQuota # 0 /\ PromoQuota # 0
    <3> DEFINE v == WithLot(wallet, k + 1, o, "paid", PaidQuota, 0)
    <3>1. wallet' = WithLot(v, k + 2, o, "promotional", PromoQuota, expires)
      <4>1. k + 1 + 1 = k + 2 /\ wallet.promo + 0 = wallet.promo
        BY <1>7, <1>12
      <4> QED BY <1>10, <2>3, <4>1 DEF WithLot, expires
    <3>2. wallet.lots[k + 1].status = "none" /\ wallet.lots[k + 2].status = "none"
      BY <1>6, <1>7
    <3>3. /\ Sound(v) /\ Ledgered(v) /\ Keeps(wallet, v)
          /\ v.lots[k + 1] = NewLot(o, "paid", PaidQuota, 0)
          /\ \A l \in LotIds \ {k + 1} : v.lots[l] = wallet.lots[l]
      BY <1>7, <1>11, <1>12, <3>2, WithLotKeeps
    <3> HIDE DEF v
    <3>4. v.lots[k + 2].status = "none" /\ k + 1 # k + 2
      BY <1>7, <3>2, <3>3
    <3>5. /\ Sound(wallet') /\ Ledgered(wallet') /\ Keeps(v, wallet')
          /\ wallet'.lots[k + 2] = NewLot(o, "promotional", PromoQuota, expires)
          /\ \A l \in LotIds \ {k + 2} : wallet'.lots[l] = v.lots[l]
      BY <1>7, <1>11, <3>1, <3>3, <3>4, WithLotKeeps
    <3>6. wallet'.lots[k + 1].status = "active" /\ wallet'.lots[k + 1].remaining = wallet'.lots[k + 1].original
      BY <1>7, <3>3, <3>4, <3>5 DEF NewLot
    <3>7. wallet'.lots[k + 2].status = "active" /\ wallet'.lots[k + 2].remaining = wallet'.lots[k + 2].original
      BY <3>5 DEF NewLot
    <3>8. \A l \in LotIds : /\ l <= k \/ l > k + 2 => l # k + 1 /\ l # k + 2
                            /\ l > k /\ l <= k + 2 => l = k + 1 \/ l = k + 2
      BY <1>7, <1>8
    <3>9. k + 2 \in k + 1 .. k + 2
      BY <1>7
    <3>10. Keeps(wallet, wallet')
      BY <3>3, <3>5 DEF Keeps
    <3> QED BY <3>3, <3>5, <3>6, <3>7, <3>8, <3>9, <3>10
  <2> QED BY <2>1, <2>2, <2>3
<1>14. PICK m \in k + 1 .. k + 2 :
         /\ Sound(wallet') /\ Ledgered(wallet') /\ Keeps(wallet, wallet')
         /\ \A l \in LotIds : l <= k \/ l > m => wallet'.lots[l] = wallet.lots[l]
         /\ \A l \in LotIds : l > k /\ l <= m =>
              /\ wallet'.lots[l].status = "active"
              /\ wallet'.lots[l].remaining = wallet'.lots[l].original
  BY <1>13
<1>15. \A l \in LotIds : wallet.lots[l].remaining \in Nat /\ HeldOf(res, l) \in Nat /\ wallet'.lots[l].original \in Nat
  BY <1>12, <1>14, WalletFields, HeldType DEF Sound
<1>16. Backed(wallet', res')
  <2>1. ASSUME NEW l \in LotIds, l > k PROVE HeldOf(res, l) = 0
    <3>1. wallet.lots[l].original = 0 /\ wallet.lots[l].remaining + HeldOf(res, l) <= wallet.lots[l].original
      BY <1>6, <1>12, <2>1 DEF Unborn, Backed
    <3> QED BY <1>15, <3>1
  <2>2. ASSUME NEW l \in LotIds
        PROVE  wallet'.lots[l].remaining + HeldOf(res, l) <= wallet'.lots[l].original
    <3>1. CASE l <= k \/ l > m
      <4>1. wallet'.lots[l] = wallet.lots[l]
        BY <1>14, <3>1
      <4> QED BY <1>12, <4>1 DEF Backed
    <3>2. CASE l > k /\ l <= m
      <4>1. wallet'.lots[l].remaining = wallet'.lots[l].original /\ HeldOf(res, l) = 0
        BY <1>14, <2>1, <3>2
      <4> QED BY <1>15, <4>1
    <3> QED BY <1>7, <1>8, <1>14, <3>1, <3>2
  <2> QED BY <1>2, <2>2 DEF Backed
<1>17. ASSUME NEW l \in LotIds PROVE wallet'.lots[l].status = "none" <=> l > m
  <2>1. CASE l <= k \/ l > m
    <3>1. wallet'.lots[l] = wallet.lots[l]
      BY <1>14, <2>1
    <3> QED BY <1>6, <1>7, <1>8, <1>14, <2>1, <3>1
  <2>2. CASE l > k /\ l <= m
    BY <1>7, <1>8, <1>14, <2>2
  <2> QED BY <1>7, <1>8, <1>14, <2>1, <2>2
<1>18. Unborn(wallet')
  BY <1>7, <1>8, <1>12, <1>14, <1>17, <1>6 DEF Unborn
<1>19. LotsInOrder'
  <2>1. m \in 0 .. 2 * Cardinality(T)
    <3>1. m \in Nat /\ m <= k + 2
      BY <1>7, <1>14
    <3>2. m \in 0 .. 2 * Cardinality(S \cup {o})
      BY <1>5, <1>7, <3>1
    <3> HIDE DEF T
    <3> QED BY <1>4, <3>2
  <2> QED BY <1>17, <2>1 DEF LotsInOrder
<1>20. Books(wallet', res') /\ Rest'
  BY <1>1, <1>2, <1>3, <1>14, <1>16, <1>18 DEF Books, Rest
<1> QED BY <1>14, <1>19, <1>20, IInvPartsNext

\* A step that leaves the orders as they are, or moves one of them on, and
\* keeps the lots.
LEMMA StepKeeps ==
  ASSUME IInv, Books(wallet', res'), SameLots(wallet, wallet'), res' \in Holds,
         order' \in [Orders -> OrderStates], profile' \in [Handlers -> Nat], now' \in 0 .. MaxTime,
         \A o \in Orders : order[o] \notin Uncredited => order'[o] \notin Uncredited
  PROVE  IInv'
<1>1. LotsInOrder'
  BY IInvParts, LotsInOrderKept
<1> QED BY <1>1, IInvPartsNext DEF Rest

LEMMA UnchangedOrders ==
  ASSUME IInv, UNCHANGED <<order, profile>>
  PROVE  /\ order' \in [Orders -> OrderStates] /\ profile' \in [Handlers -> Nat]
         /\ \A o \in Orders : order[o] \notin Uncredited => order'[o] \notin Uncredited
BY IInvParts DEF Rest

\* A step that writes the balances alone.
LEMMA BalanceStep ==
  ASSUME IInv, UNCHANGED <<res, now>>,
         order' \in [Orders -> OrderStates], profile' \in [Handlers -> Nat],
         \A o \in Orders : order[o] \notin Uncredited => order'[o] \notin Uncredited,
         NEW quota \in Int, NEW promo \in Nat,
         wallet' = [quota |-> quota, promo |-> promo, lots |-> wallet.lots]
  PROVE  /\ IInv' /\ wallet'.quota = quota /\ wallet'.promo = promo
         /\ TrackedPaid(wallet') = TrackedPaid(wallet) /\ TrackedPromo(wallet') = TrackedPromo(wallet)
<1>1. Books(wallet, res) /\ Rest
  BY IInvParts
<1>2. Sound(wallet)
  BY <1>1 DEF Books
<1> DEFINE v == [quota |-> quota, promo |-> promo, lots |-> wallet.lots]
<1>3. v.quota = quota /\ v.promo = promo /\ v.lots = wallet.lots
  OBVIOUS
<1>4. /\ Sound(wallet') /\ SameLots(wallet, wallet')
      /\ TrackedPaid(wallet') = TrackedPaid(wallet) /\ TrackedPromo(wallet') = TrackedPromo(wallet)
      /\ wallet'.lots = wallet.lots /\ wallet'.quota = quota /\ wallet'.promo = promo
  <2>1. /\ Sound(v) /\ SameLots(wallet, v)
        /\ TrackedPaid(v) = TrackedPaid(wallet) /\ TrackedPromo(v) = TrackedPromo(wallet)
    BY <1>2, BalancesOnly
  <2>2. wallet' = v
    OBVIOUS
  <2> HIDE DEF v
  <2> QED BY <1>3, <2>1, <2>2
<1> HIDE DEF v
<1>5. Books(wallet', res')
  BY <1>1, <1>4 DEF Books, Ledgered, Backed, Unborn
<1>6. IInv'
  BY <1>1, <1>4, <1>5, StepKeeps DEF Rest
<1> QED BY <1>4, <1>6

LEMMA NestedType ==
  ASSUME IInv
  PROVE  /\ wallet.quota \in Int /\ wallet.promo \in Nat
         /\ TrackedPaid(wallet) \in Nat /\ TrackedPromo(wallet) \in Nat
         /\ wallet = [quota |-> wallet.quota, promo |-> wallet.promo, lots |-> wallet.lots]
<1>1. Sound(wallet) /\ wallet \in Wallets
  BY IInvParts DEF Books, Sound
<1>2. wallet = [quota |-> wallet.quota, promo |-> wallet.promo, lots |-> wallet.lots]
  BY <1>1 DEF Wallets
<1> QED BY <1>1, <1>2, WalletFields, TrackedType DEF Sound

LEMMA CashStep ==
  ASSUME IInv, NEW n \in Gifts, IncreaseUserCashQuota(n)
  PROVE  IInv' /\ Keeps(wallet, wallet')
<1>1. wallet.quota \in Int /\ wallet.promo \in Nat /\ TrackedPaid(wallet) \in Nat /\ n \in Nat
  BY NestedType, AmountAssumption
<1>2. /\ wallet' = [quota |-> wallet.quota + n, promo |-> wallet.promo, lots |-> wallet.lots]
      /\ UNCHANGED <<order, res, profile, now>>
  BY NestedType DEF IncreaseUserCashQuota
<1>3. /\ IInv' /\ wallet'.quota = wallet.quota + n /\ wallet'.promo = wallet.promo
      /\ TrackedPaid(wallet') = TrackedPaid(wallet) /\ TrackedPromo(wallet') = TrackedPromo(wallet)
  <2>1. wallet.quota + n \in Int
    BY <1>1
  <2> QED BY <1>1, <1>2, <2>1, UnchangedOrders, BalanceStep
<1> QED BY <1>1, <1>3 DEF Keeps, Nested, Covered

LEMMA PromoStep ==
  ASSUME IInv, NEW n \in Gifts, IncreaseUserPromoQuota(n)
  PROVE  IInv' /\ Keeps(wallet, wallet')
<1>1. /\ wallet.quota \in Int /\ wallet.promo \in Nat /\ n \in Nat
      /\ TrackedPaid(wallet) \in Nat /\ TrackedPromo(wallet) \in Nat
  BY NestedType, AmountAssumption
<1>2. /\ wallet' = [quota |-> wallet.quota + n, promo |-> wallet.promo + n, lots |-> wallet.lots]
      /\ UNCHANGED <<order, res, profile, now>>
  BY NestedType DEF IncreaseUserPromoQuota
<1>3. /\ IInv' /\ wallet'.quota = wallet.quota + n /\ wallet'.promo = wallet.promo + n
      /\ TrackedPaid(wallet') = TrackedPaid(wallet) /\ TrackedPromo(wallet') = TrackedPromo(wallet)
  <2>1. wallet.quota + n \in Int /\ wallet.promo + n \in Nat
    BY <1>1
  <2> QED BY <1>1, <1>2, <2>1, UnchangedOrders, BalanceStep
<1> QED BY <1>1, <1>3 DEF Keeps, Nested, Covered

\* The two writers that know quota alone keep everything but the nesting.
LEMMA PurchaseStep ==
  ASSUME IInv, NEW price \in PlanPrices, PurchaseSubscriptionWithBalance(price)
  PROVE  IInv' /\ (Covered(wallet) => Covered(wallet'))
<1>1. wallet.quota \in Int /\ wallet.promo \in Nat /\ price \in Nat
  BY NestedType, AmountAssumption
<1>2. /\ wallet' = [quota |-> wallet.quota - price, promo |-> wallet.promo, lots |-> wallet.lots]
      /\ UNCHANGED <<order, res, profile, now>>
  BY NestedType DEF PurchaseSubscriptionWithBalance
<1>3. wallet.quota - price \in Int
  BY <1>1
<1>4. IInv' /\ wallet'.promo = wallet.promo /\ TrackedPromo(wallet') = TrackedPromo(wallet)
  BY <1>1, <1>2, <1>3, UnchangedOrders, BalanceStep
<1> QED BY <1>4 DEF Covered

LEMMA OverrideStep ==
  ASSUME IInv, NEW n \in Overrides, OverrideQuota(n)
  PROVE  IInv' /\ (Covered(wallet) => Covered(wallet'))
<1>1. wallet.promo \in Nat /\ n \in Int
  BY NestedType, AmountAssumption
<1>2. /\ wallet' = [quota |-> n, promo |-> wallet.promo, lots |-> wallet.lots]
      /\ UNCHANGED <<order, res, profile, now>>
  BY NestedType DEF OverrideQuota
<1>3. IInv' /\ wallet'.promo = wallet.promo /\ TrackedPromo(wallet') = TrackedPromo(wallet)
  BY <1>1, <1>2, UnchangedOrders, BalanceStep
<1> QED BY <1>3 DEF Covered

\* The two writers of promo_quota that know no lots keep neither.
LEMMA LegacyStep ==
  ASSUME IInv, NEW o \in Orders, ReconcileLegacyRefund(o)
  PROVE  IInv'
<1> DEFINE reversePromo == Least(PromoQuota, wallet.promo)
           reversePaid == Least(PaidQuota, AtLeastZero(wallet.quota - wallet.promo))
<1>1. wallet.quota \in Int /\ wallet.promo \in Nat /\ Rest
  BY NestedType, IInvParts
<1>2. reversePromo \in Nat /\ reversePromo <= wallet.promo /\ reversePaid \in Nat
  BY <1>1, AmountAssumption DEF Least, AtLeastZero
<1>3. /\ wallet' = [quota |-> wallet.quota - reversePromo - reversePaid,
                    promo |-> wallet.promo - reversePromo, lots |-> wallet.lots]
      /\ UNCHANGED <<res, profile, now>>
      /\ \E st \in {"manual_review", "refunded"} : order' = [order EXCEPT ![o] = st]
  BY NestedType DEF ReconcileLegacyRefund
<1> HIDE DEF reversePromo, reversePaid
<1>4. wallet.quota - reversePromo - reversePaid \in Int /\ wallet.promo - reversePromo \in Nat
  BY <1>1, <1>2
<1>5. /\ order' \in [Orders -> OrderStates] /\ profile' \in [Handlers -> Nat]
      /\ \A q \in Orders : order[q] \notin Uncredited => order'[q] \notin Uncredited
  BY <1>1, <1>3 DEF Rest, OrderStates, Uncredited
<1> QED BY <1>3, <1>4, <1>5, BalanceStep

LEMMA ProfileStep ==
  ASSUME IInv, NEW h \in Handlers, UpdateWithTx(h)
  PROVE  IInv'
<1>1. wallet.quota \in Int /\ profile \in [Handlers -> Nat] /\ Rest
  BY NestedType, IInvParts DEF Rest
<1>2. /\ wallet' = [quota |-> wallet.quota, promo |-> profile[h], lots |-> wallet.lots]
      /\ UNCHANGED <<order, res, now>> /\ profile' = [profile EXCEPT ![h] = 0]
  BY NestedType DEF UpdateWithTx
<1>3. profile[h] \in Nat /\ profile' \in [Handlers -> Nat]
  BY <1>1, <1>2
<1>4. /\ order' \in [Orders -> OrderStates]
      /\ \A q \in Orders : order[q] \notin Uncredited => order'[q] \notin Uncredited
  BY <1>1, <1>2 DEF Rest
<1> QED BY <1>1, <1>2, <1>3, <1>4, BalanceStep

\* A charge that nothing holds afterwards.
LEMMA ChargeStep ==
  ASSUME IInv, NEW n \in Nat, CanDeduct(wallet, n), wallet' = Deducted(wallet, n),
         UNCHANGED <<order, profile, now>>,
         \/ res' = res
         \/ \E r \in Requests : /\ res[r].state = "held"
                                /\ res' = [res EXCEPT ![r] = [state |-> "settled", alloc |-> NoAlloc]]
  PROVE  IInv' /\ Keeps(wallet, wallet')
<1>1. Books(wallet, res) /\ Rest
  BY IInvParts
<1>2. /\ Sound(wallet') /\ Ledgered(wallet') /\ SameLots(wallet, wallet') /\ Books(wallet', res)
      /\ Keeps(wallet, wallet')
  BY <1>1, DeductedBooks DEF Rest
<1>3. res' \in Holds /\ \A l \in LotIds : HeldOf(res', l) <= HeldOf(res, l)
  <2>1. CASE res' = res
    BY <1>1, <2>1, HeldType DEF Rest
  <2>2. CASE res' # res
    <3>1. PICK r \in Requests : /\ res[r].state = "held"
                                /\ res' = [res EXCEPT ![r] = [state |-> "settled", alloc |-> NoAlloc]]
      BY <2>2
    <3>2. res' \in Holds
      BY <1>1, <3>1, NoAllocType DEF Rest, Holds, ResStates
    <3>3. res'[r].state # "held" /\ \A q \in Requests \ {r} : res'[q] = res[q]
      BY <1>1, <3>1 DEF Rest, Holds
    <3>4. ASSUME NEW l \in LotIds PROVE HeldOf(res', l) <= HeldOf(res, l)
      <4>1. HeldOf(res, l) = HeldOf(res', l) + res[r].alloc[l]
        <5>1. res \in Holds /\ res[r].state = "held"
          BY <1>1, <3>1 DEF Rest
        <5> QED BY <3>2, <3>3, <5>1, HeldChange
      <4>2. res[r].alloc[l] \in Nat
        BY <1>1, SourcesFacts DEF Rest, Holds, Allocs
      <4>3. HeldOf(res', l) \in Nat
        BY <3>2, HeldType
      <4> QED BY <4>1, <4>2, <4>3
    <3> QED BY <3>2, <3>4
  <2> QED BY <2>1, <2>2
<1>4. Books(wallet', res')
  <2>1. \A l \in LotIds : wallet'.lots[l].remaining \in Nat /\ HeldOf(res, l) \in Nat /\ HeldOf(res', l) \in Nat
    BY <1>1, <1>2, <1>3, WalletFields, HeldType DEF Sound, Rest
  <2>2. \A l \in LotIds : wallet'.lots[l].remaining + HeldOf(res', l) <= wallet'.lots[l].remaining + HeldOf(res, l)
    BY <1>3, <2>1
  <2>3. SameLots(wallet', wallet')
    BY DEF SameLots
  <2> QED BY <1>1, <1>2, <1>3, <2>2, <2>3, BooksSame DEF Rest
<1>5. IInv'
  BY <1>1, <1>2, <1>3, <1>4, UnchangedOrders, StepKeeps DEF Rest
<1> QED BY <1>2, <1>5

LEMMA PreConsumeStep ==
  ASSUME IInv, NEW r \in Requests, NEW n \in Amounts, PreConsume(r, n)
  PROVE  IInv' /\ Keeps(wallet, wallet')
<1> DEFINE a == Allocation(ExpireLots(wallet), n)
<1>1. Books(wallet, res) /\ Rest /\ n \in Nat
  BY IInvParts, AmountAssumption
<1>2. /\ res[r].state = "idle" /\ CanDeduct(wallet, n) /\ wallet' = Deducted(wallet, n)
      /\ res' = [res EXCEPT ![r] = [state |-> "held", alloc |-> a]] /\ UNCHANGED <<order, profile, now>>
  BY DEF PreConsume
<1>3. /\ Sound(wallet') /\ Ledgered(wallet') /\ SameLots(wallet, wallet') /\ Keeps(wallet, wallet')
      /\ a \in Allocs
      /\ \A l \in LotIds : a[l] \in Nat /\ wallet'.lots[l].remaining + a[l] <= wallet.lots[l].remaining
  BY <1>1, <1>2, DeductedBooks DEF Rest
<1> HIDE DEF a
<1>4. res' \in Holds
  BY <1>1, <1>2, <1>3 DEF Rest, Holds, ResStates
<1>5. /\ res'[r].state = "held" /\ res'[r].alloc = a /\ res[r].state # "held"
      /\ \A q \in Requests \ {r} : res[q] = res'[q]
  BY <1>1, <1>2 DEF Rest, Holds
<1>6. ASSUME NEW l \in LotIds
      PROVE  wallet'.lots[l].remaining + HeldOf(res', l) <= wallet.lots[l].remaining + HeldOf(res, l)
  <2>1. HeldOf(res', l) = HeldOf(res, l) + a[l]
    BY <1>1, <1>4, <1>5, HeldChange DEF Rest
  <2>2. HeldOf(res, l) \in Nat /\ wallet.lots[l].remaining \in Nat /\ wallet'.lots[l].remaining \in Nat
    BY <1>1, <1>3, HeldType, WalletFields DEF Rest, Books, Sound
  <2> QED BY <1>3, <2>1, <2>2
<1>7. Books(wallet', res')
  BY <1>1, <1>3, <1>4, <1>6, BooksSame DEF Rest
<1>8. IInv'
  BY <1>1, <1>2, <1>3, <1>4, <1>7, UnchangedOrders, StepKeeps DEF Rest
<1> QED BY <1>3, <1>8

\* A request that holds nothing any more.
LEMMA Released ==
  ASSUME IInv, NEW r \in Requests, NEW state \in ResStates \ {"held"},
         res' = [res EXCEPT ![r] = [state |-> state, alloc |-> NoAlloc]]
  PROVE  res' \in Holds /\ res'[r].state # "held" /\ \A q \in Requests \ {r} : res'[q] = res[q]
BY IInvParts, NoAllocType DEF Rest, Holds

LEMMA GiveBackStep ==
  ASSUME IInv, NEW r \in Requests, res[r].state = "held",
         NEW back \in Allocs, \A l \in LotIds : back[l] <= res[r].alloc[l],
         \A l \in LotIds : back[l] = 0 \/ CanRestore(wallet, back),
         res' \in Holds, res'[r].state # "held", \A q \in Requests \ {r} : res'[q] = res[q],
         wallet' = Restored(wallet, back), UNCHANGED <<order, profile, now>>
  PROVE  IInv' /\ Keeps(wallet, wallet')
<1>1. Books(wallet, res) /\ Rest
  BY IInvParts
<1>2. Books(wallet', res') /\ SameLots(wallet, wallet') /\ Keeps(wallet, wallet')
  <2>1. res \in Holds
    BY <1>1 DEF Rest
  <2> DEFINE v == Restored(wallet, back)
  <2>2. Books(v, res') /\ SameLots(wallet, v) /\ Keeps(wallet, v)
    BY <1>1, <2>1, RestoredBooks
  <2> QED BY <2>2
<1>3. IInv'
  BY <1>1, <1>2, UnchangedOrders, StepKeeps DEF Rest
<1> QED BY <1>2, <1>3

LEMMA SettleLessStep ==
  ASSUME IInv, NEW r \in Requests, NEW n \in Nat, SettleLess(r, n)
  PROVE  IInv' /\ Keeps(wallet, wallet')
<1> DEFINE back == WalletRefund(wallet, res[r].alloc, n)
<1>1. Rest /\ res[r].alloc \in Allocs
  BY IInvParts DEF Rest, Holds
<1>2. /\ back \in Allocs /\ \A s \in Sources : back[s] <= res[r].alloc[s]
      /\ n = 0 => \A s \in Sources : back[s] = 0
  BY <1>1, WalletRefundBounds
<1>3. /\ res[r].state = "held" /\ (n = 0 \/ CanRestore(wallet, back))
      /\ wallet' = Restored(wallet, back) /\ UNCHANGED <<order, profile, now>>
  BY DEF SettleLess
<1> HIDE DEF back
<1>4. \A l \in LotIds : back[l] <= res[r].alloc[l] /\ (back[l] = 0 \/ CanRestore(wallet, back))
  BY <1>2, <1>3, SourcesFacts
<1>5. "settled" \in ResStates \ {"held"}
  BY DEF ResStates
<1>6. res' = [res EXCEPT ![r] = [state |-> "settled", alloc |-> NoAlloc]]
  BY DEF SettleLess
<1>7. res' \in Holds /\ res'[r].state # "held" /\ \A q \in Requests \ {r} : res'[q] = res[q]
  BY <1>5, <1>6, Released
<1> QED BY <1>2, <1>3, <1>4, <1>7, GiveBackStep

LEMMA RefundStep ==
  ASSUME IInv, NEW r \in Requests, Refund(r)
  PROVE  IInv' /\ Keeps(wallet, wallet')
<1>1. Books(wallet, res) /\ Rest /\ res[r].alloc \in Allocs
  BY IInvParts DEF Rest, Holds
<1>2. res[r].state = "held" /\ UNCHANGED <<order, profile, now>>
  BY DEF Refund
<1>3. CASE CanRestore(wallet, res[r].alloc)
  <2>1. /\ wallet' = Restored(wallet, res[r].alloc)
        /\ res' = [res EXCEPT ![r] = [state |-> "refunded", alloc |-> NoAlloc]]
    BY <1>3 DEF Refund
  <2>2. \A l \in LotIds : res[r].alloc[l] <= res[r].alloc[l]
    BY <1>1, SourcesFacts DEF Allocs
  <2>3. "refunded" \in ResStates \ {"held"}
    BY DEF ResStates
  <2>4. res' \in Holds /\ res'[r].state # "held" /\ \A q \in Requests \ {r} : res'[q] = res[q]
    BY <2>1, <2>3, Released
  <2> QED BY <1>1, <1>2, <1>3, <2>1, <2>2, <2>4, GiveBackStep
<1>4. CASE ~CanRestore(wallet, res[r].alloc)
  <2>1. wallet' = wallet /\ res' = [res EXCEPT ![r] = [state |-> "kept", alloc |-> NoAlloc]]
    BY <1>4 DEF Refund
  <2>2. "kept" \in ResStates \ {"held"}
    BY DEF ResStates
  <2>3. res' \in Holds /\ res'[r].state # "held" /\ \A q \in Requests \ {r} : res'[q] = res[q]
    BY <2>1, <2>2, Released
  <2>4. ASSUME NEW l \in LotIds
        PROVE  wallet.lots[l].remaining + HeldOf(res', l) <= wallet.lots[l].remaining + HeldOf(res, l)
    <3>1. HeldOf(res, l) = HeldOf(res', l) + res[r].alloc[l]
      BY <1>1, <1>2, <2>3, HeldChange DEF Rest
    <3>2. HeldOf(res', l) \in Nat /\ res[r].alloc[l] \in Nat /\ wallet.lots[l].remaining \in Nat
      BY <1>1, <2>3, HeldType, SourcesFacts, WalletFields DEF Rest, Holds, Allocs, Books, Sound
    <3> QED BY <3>1, <3>2
  <2>5. Sound(wallet) /\ Ledgered(wallet) /\ SameLots(wallet, wallet)
    BY <1>1 DEF Books, SameLots
  <2>6. Books(wallet', res')
    BY <1>1, <2>1, <2>3, <2>4, <2>5, BooksSame DEF Rest
  <2>7. IInv'
    BY <1>1, <1>2, <2>1, <2>3, <2>5, <2>6, UnchangedOrders, StepKeeps DEF Rest
  <2> QED BY <2>1, <2>7 DEF Keeps
<1> QED BY <1>3, <1>4

LEMMA ExpireStep ==
  ASSUME IInv, ExpireUserPromotionLots
  PROVE  IInv' /\ Keeps(wallet, wallet')
<1>1. Books(wallet, res) /\ Rest
  BY IInvParts
<1>2. wallet' = ExpireLots(wallet) /\ UNCHANGED <<order, res, profile, now>>
  BY DEF ExpireUserPromotionLots
<1>3. /\ Sound(wallet') /\ SameLots(wallet, wallet') /\ Ledgered(wallet') /\ Keeps(wallet, wallet')
      /\ \A l \in LotIds : wallet'.lots[l].remaining <= wallet.lots[l].remaining
  BY <1>1, <1>2, ExpireLotsKeeps DEF Books
<1>4. \A l \in LotIds : wallet'.lots[l].remaining + HeldOf(res, l) <= wallet.lots[l].remaining + HeldOf(res, l)
  BY <1>1, <1>3, HeldType, WalletFields DEF Rest, Books, Sound
<1>5. Books(wallet', res')
  BY <1>1, <1>2, <1>3, <1>4, BooksSame DEF Rest
<1> QED BY <1>1, <1>2, <1>3, <1>5, UnchangedOrders, StepKeeps DEF Rest

LEMMA ReconcileStep ==
  ASSUME IInv, NEW o \in Orders, ReconcileRefund(o) \/ ReconcileRefundUnpaid(o)
  PROVE  IInv' /\ Keeps(wallet, wallet')
<1>1. Books(wallet, res) /\ Rest
  BY IInvParts
<1>2. UNCHANGED <<res, profile, now>> /\ \E st \in {"manual_review", "refunded"} : order' = [order EXCEPT ![o] = st]
  BY DEF ReconcileRefund, ReconcileRefundUnpaid
<1>3. order' \in [Orders -> OrderStates] /\ \A q \in Orders : order[q] \notin Uncredited => order'[q] \notin Uncredited
  BY <1>1, <1>2 DEF Rest, OrderStates, Uncredited
<1>4. wallet' = wallet \/ /\ SumOver(Mine(wallet, o), Remaining(wallet)) <= wallet.quota
                          /\ SumOver(MinePromo(wallet, o), Remaining(wallet)) <= wallet.promo
                          /\ wallet' = Reversed(wallet, o)
  <2> DEFINE remove == SumOver(Mine(wallet, o), Remaining(wallet))
             removePromo == SumOver(MinePromo(wallet, o), Remaining(wallet))
  <2>1. wallet' = wallet \/ (~(wallet.quota < remove \/ wallet.promo < removePromo) /\ wallet' = Reversed(wallet, o))
    BY DEF ReconcileRefund, ReconcileRefundUnpaid, Reversed, Mine, MinePromo
  <2>2. wallet.quota \in Int /\ wallet.promo \in Nat /\ remove \in Nat /\ removePromo \in Nat
    <3>1. wallet \in Wallets
      BY <1>1 DEF Books, Sound
    <3>2. Mine(wallet, o) \in SUBSET LotIds /\ MinePromo(wallet, o) \in SUBSET LotIds
      BY DEF Mine, MinePromo
    <3>3. IsFiniteSet(Mine(wallet, o)) /\ IsFiniteSet(MinePromo(wallet, o))
      BY <3>2, SourcesFacts, FS_Subset
    <3>4. NatOn(Mine(wallet, o), Remaining(wallet)) /\ NatOn(MinePromo(wallet, o), Remaining(wallet))
      BY <3>1, <3>2, WalletFields DEF NatOn, Remaining
    <3> QED BY <3>1, <3>3, <3>4, SumType, WalletFields
  <2> HIDE DEF remove, removePromo
  <2>3. wallet' = wallet \/ (remove <= wallet.quota /\ removePromo <= wallet.promo /\ wallet' = Reversed(wallet, o))
    BY <2>1, <2>2
  <2> QED BY <2>3 DEF remove, removePromo
<1>5. CASE wallet' = wallet
  <2>1. Books(wallet', res') /\ SameLots(wallet, wallet')
    BY <1>1, <1>2, <1>5 DEF SameLots
  <2> QED BY <1>1, <1>2, <1>3, <1>5, <2>1, StepKeeps DEF Rest, Keeps
<1>6. CASE wallet' # wallet
  <2>1. /\ Sound(wallet') /\ SameLots(wallet, wallet') /\ Ledgered(wallet') /\ Keeps(wallet, wallet')
        /\ \A l \in LotIds : wallet'.lots[l].remaining <= wallet.lots[l].remaining
    BY <1>1, <1>4, <1>6, ReversedKeeps DEF Books
  <2>2. \A l \in LotIds : wallet'.lots[l].remaining + HeldOf(res, l) <= wallet.lots[l].remaining + HeldOf(res, l)
    BY <1>1, <2>1, HeldType, WalletFields DEF Rest, Books, Sound
  <2>3. Books(wallet', res')
    BY <1>1, <1>2, <2>1, <2>2, BooksSame DEF Rest
  <2> QED BY <1>1, <1>2, <1>3, <2>1, <2>3, StepKeeps DEF Rest
<1> QED BY <1>5, <1>6

\* A step that leaves wallet and reservations alone.
LEMMA IdleStep ==
  ASSUME IInv, UNCHANGED <<wallet, res>>, now' \in 0 .. MaxTime,
         order' \in [Orders -> OrderStates], profile' \in [Handlers -> Nat],
         \A o \in Orders : order[o] \notin Uncredited => order'[o] \notin Uncredited
  PROVE  IInv' /\ Keeps(wallet, wallet')
<1>1. Books(wallet', res') /\ SameLots(wallet, wallet')
  BY IInvParts DEF SameLots
<1>2. res' \in Holds
  BY IInvParts DEF Rest
<1> QED BY <1>1, <1>2, StepKeeps DEF Keeps

LEMMA InvNext ==
  ASSUME IInv, [Next]_vars
  PROVE  /\ IInv'
         /\ Covered(wallet) => \/ Covered(wallet')
                               \/ \E o \in Orders : ReconcileLegacyRefund(o)
                               \/ \E h \in Handlers : UpdateWithTx(h)
         /\ Nested(wallet) => \/ Nested(wallet')
                              \/ \E o \in Orders : ReconcileLegacyRefund(o)
                              \/ \E h \in Handlers : UpdateWithTx(h)
                              \/ \E price \in PlanPrices : PurchaseSubscriptionWithBalance(price)
                              \/ \E n \in Overrides : OverrideQuota(n)
<1>1. CASE \E o \in Orders : CreditStripeTopupOrder(o)
  BY <1>1, CreditStep DEF Keeps
<1>2. CASE \E o \in Orders : ReconcileRefund(o) \/ ReconcileRefundUnpaid(o)
  BY <1>2, ReconcileStep DEF Keeps
<1>3. CASE \E n \in Gifts : IncreaseUserCashQuota(n)
  BY <1>3, CashStep DEF Keeps
<1>4. CASE \E n \in Gifts : IncreaseUserPromoQuota(n)
  BY <1>4, PromoStep DEF Keeps
<1>5. CASE \E r \in Requests : \E n \in Amounts : PreConsume(r, n)
  BY <1>5, PreConsumeStep DEF Keeps
<1>6. CASE \E r \in Requests : \E n \in Amounts : SettleMore(r, n)
  <2>1. PICK r \in Requests : \E n \in Amounts : SettleMore(r, n)
    BY <1>6
  <2>2. PICK n \in Amounts : SettleMore(r, n)
    BY <2>1
  <2>3. n \in Nat
    BY AmountAssumption
  <2> QED BY <2>2, <2>3, ChargeStep DEF SettleMore, Keeps
<1>7. CASE \E r \in Requests : \E n \in Amounts \cup {0} : SettleLess(r, n)
  <2>1. PICK r \in Requests : \E n \in Amounts \cup {0} : SettleLess(r, n)
    BY <1>7
  <2>2. PICK n \in Amounts \cup {0} : SettleLess(r, n)
    BY <2>1
  <2>3. n \in Nat
    BY AmountAssumption
  <2> QED BY <2>2, <2>3, SettleLessStep DEF Keeps
<1>8. CASE \E r \in Requests : Refund(r)
  BY <1>8, RefundStep DEF Keeps
<1>9. CASE ExpireUserPromotionLots
  BY <1>9, ExpireStep DEF Keeps
<1>10. CASE \E price \in PlanPrices : PurchaseSubscriptionWithBalance(price)
  BY <1>10, PurchaseStep
<1>11. CASE \E n \in Overrides : OverrideQuota(n)
  BY <1>11, OverrideStep
<1>12. CASE \E n \in Amounts : DecreaseUserQuota(n)
  <2>1. PICK n \in Amounts : DecreaseUserQuota(n)
    BY <1>12
  <2>2. n \in Nat
    BY AmountAssumption
  <2> QED BY <2>1, <2>2, ChargeStep DEF DecreaseUserQuota, Keeps
<1>13. CASE Tick
  <2>1. now \in 0 .. MaxTime /\ MaxTime \in Nat
    BY IInvParts, AmountAssumption DEF Rest
  <2>2. now' \in 0 .. MaxTime /\ UNCHANGED <<wallet, order, res, profile>>
    BY <1>13, <2>1 DEF Tick
  <2> QED BY <2>2, UnchangedOrders, IdleStep DEF Keeps
<1>14. CASE UNCHANGED vars
  <2>1. now' \in 0 .. MaxTime /\ UNCHANGED <<wallet, order, res, profile>>
    BY <1>14, IInvParts DEF vars, Rest
  <2> QED BY <2>1, UnchangedOrders, IdleStep DEF Keeps
<1>15. CASE \E o \in Orders : MarkPaid(o)
  <2>1. PICK o \in Orders : MarkPaid(o)
    BY <1>15
  <2>2. /\ order[o] = "open" /\ order' = [order EXCEPT ![o] = "paid"]
        /\ UNCHANGED <<wallet, res, profile, now>> /\ Rest
    BY <2>1, IInvParts DEF MarkPaid
  <2>3. /\ order' \in [Orders -> OrderStates] /\ profile' \in [Handlers -> Nat] /\ now' \in 0 .. MaxTime
        /\ \A q \in Orders : order[q] \notin Uncredited => order'[q] \notin Uncredited
    BY <2>2 DEF Rest, OrderStates, Uncredited
  <2> QED BY <2>2, <2>3, IdleStep DEF Keeps
<1>16. CASE \E h \in Handlers : ReadUser(h)
  <2>1. PICK h \in Handlers : ReadUser(h)
    BY <1>16
  <2>2. /\ profile' = [profile EXCEPT ![h] = wallet.promo] /\ wallet.promo \in Nat
        /\ UNCHANGED <<wallet, order, res, now>> /\ Rest
    BY <2>1, IInvParts, NestedType DEF ReadUser
  <2>3. /\ order' \in [Orders -> OrderStates] /\ profile' \in [Handlers -> Nat] /\ now' \in 0 .. MaxTime
        /\ \A q \in Orders : order[q] \notin Uncredited => order'[q] \notin Uncredited
    BY <2>2 DEF Rest
  <2> QED BY <2>2, <2>3, IdleStep DEF Keeps
<1>17. CASE \E o \in Orders : ReconcileLegacyRefund(o)
  BY <1>17, LegacyStep
<1>18. CASE \E h \in Handlers : UpdateWithTx(h)
  BY <1>18, ProfileStep
<1>19. \/ \E o \in Orders : CreditStripeTopupOrder(o)
       \/ \E o \in Orders : ReconcileRefund(o) \/ ReconcileRefundUnpaid(o)
       \/ \E n \in Gifts : IncreaseUserCashQuota(n)
       \/ \E n \in Gifts : IncreaseUserPromoQuota(n)
       \/ \E r \in Requests : \E n \in Amounts : PreConsume(r, n)
       \/ \E r \in Requests : \E n \in Amounts : SettleMore(r, n)
       \/ \E r \in Requests : \E n \in Amounts \cup {0} : SettleLess(r, n)
       \/ \E r \in Requests : Refund(r)
       \/ ExpireUserPromotionLots
       \/ \E price \in PlanPrices : PurchaseSubscriptionWithBalance(price)
       \/ \E n \in Overrides : OverrideQuota(n)
       \/ \E n \in Amounts : DecreaseUserQuota(n)
       \/ Tick
       \/ UNCHANGED vars
       \/ \E o \in Orders : MarkPaid(o)
       \/ \E h \in Handlers : ReadUser(h)
       \/ \E o \in Orders : ReconcileLegacyRefund(o)
       \/ \E h \in Handlers : UpdateWithTx(h)
  BY DEF Next
<1> QED BY <1>1, <1>2, <1>3, <1>4, <1>5, <1>6, <1>7, <1>8, <1>9, <1>10, <1>11, <1>12, <1>13, <1>14,
            <1>15, <1>16, <1>17, <1>18, <1>19

\* A user starts with an empty wallet and no lots.
LEMMA InvInit ==
  ASSUME Init
  PROVE  IInv
<1> DEFINE zero == [l \in LotIds |-> 0]
<1>1. wallet.quota = 0 /\ wallet.promo = 0 /\ \A l \in LotIds : wallet.lots[l] = NoLot
  BY DEF Init
<1>2. NoLot \in Lots /\ NoLot.status = "none" /\ NoLot.remaining = 0 /\ NoLot.original = 0 /\ NoLot.ledger = 0
  BY DEF NoLot, Lots
<1>3. wallet \in Wallets
  BY <1>2 DEF Init, Wallets
<1>4. HoldsOnlyIfActive(wallet) /\ Unborn(wallet) /\ Ledgered(wallet)
  BY <1>1, <1>2 DEF HoldsOnlyIfActive, Unborn, Ledgered
<1>6. res \in Holds /\ \A r \in Requests : res[r].state # "held"
  BY NoAllocType DEF Init, Holds, ResStates
<1>7. \A l \in LotIds : HeldOf(res, l) = 0
  <2> DEFINE H == {r \in Requests : res[r].state = "held"}
  <2>1. H = {}
    BY <1>6
  <2> HIDE DEF H
  <2>2. \A l \in LotIds : SumOver(H, [r \in Requests |-> res[r].alloc[l]]) = 0
    BY <2>1, SumEmpty
  <2> QED BY <2>2 DEF HeldOf, H
<1>8. Books(wallet, res)
  <2>1. Sound(wallet)
    BY <1>1, <1>3, <1>4 DEF Sound
  <2>2. Backed(wallet, res)
    BY <1>1, <1>2, <1>7 DEF Backed
  <2> QED BY <1>4, <2>1, <2>2 DEF Books
<1>9. Rest
  BY <1>6, AmountAssumption DEF Rest, Init, OrderStates
<1>10. LotsInOrder
  <2> DEFINE S == {o \in Orders : order[o] \notin Uncredited}
  <2>1. S \in SUBSET Orders
    OBVIOUS
  <2>2. IsFiniteSet(S)
    BY <2>1, AmountAssumption, FS_Subset
  <2>3. Cardinality(S) \in Nat
    BY <2>2, FS_CardinalityType
  <2> HIDE DEF S
  <2>4. 0 \in 0 .. 2 * Cardinality(S)
    BY <2>3
  <2>5. \A l \in LotIds : wallet.lots[l].status = "none" <=> l > 0
    <3>1. \A l \in LotIds : l > 0
      BY AmountAssumption, FS_CardinalityType DEF LotIds
    <3> QED BY <1>1, <1>2, <3>1
  <2> QED BY <2>4, <2>5 DEF LotsInOrder, S
<1> QED BY <1>8, <1>9, <1>10, IInvParts

LEMMA Invariant == Spec => []IInv
<1>1. Init => IInv
  BY InvInit
<1>2. IInv /\ [Next]_vars => IInv'
  BY InvNext
<1> QED BY <1>1, <1>2, PTL DEF Spec

-----------------------------------------------------------------------------
(* The theorems. *)

\* Quota, promo_quota and what is left in a lot are never negative, and a lot,
\* an order and a reservation are always in a state the code knows.
THEOREM TypeCorrect == Spec => []TypeOK
<1>1. IInv => TypeOK
  BY DEF IInv
<1> QED BY <1>1, Invariant, PTL

\* The ledger of balance_credit_lot.go explains what is left in every lot.
THEOREM LedgerExplainsLots == Spec => []LedgerMatchesLots
<1>1. IInv => LedgerMatchesLots
  BY DEF IInv
<1> QED BY <1>1, Invariant, PTL

\* No interleaving of requests, settlements, refunds, expiry and reversals lets a
\* lot and the requests that may give back to it hold more than it was created
\* with: "credit lot restore invariant violated" is unreachable.
THEOREM CreditIsNeverMinted == Spec => []NoCreditMinted
<1>1. IInv => NoCreditMinted
  BY DEF IInv
<1> QED BY <1>1, Invariant, PTL

\* Of all writers of the wallet only the refund of an order without lots and a
\* profile update with an old promo_quota can leave promotional lots that
\* promo_quota does not cover, also after the capped removal of an expiry.
THEOREM PromotionStaysCovered == Spec => PromoCoverKept
<1>1. IInv /\ [Next]_vars
       => [PromoLotsWithinPromoQuota
             => \/ PromoLotsWithinPromoQuota'
                \/ \E o \in Orders : ReconcileLegacyRefund(o)
                \/ \E h \in Handlers : UpdateWithTx(h)]_vars
  BY InvNext DEF PromoLotsWithinPromoQuota, Covered
<1> QED BY <1>1, Invariant, PTL DEF Spec, PromoCoverKept

\* Of all writers of the wallet only those two, a purchase with balance and an
\* override by an administrator can break the nesting of the balances.
THEOREM FourWritersBreakNesting == Spec => NestingKept
<1>1. IInv /\ [Next]_vars
       => [LotsWithinBalances
             => \/ LotsWithinBalances'
                \/ \E o \in Orders : ReconcileLegacyRefund(o)
                \/ \E h \in Handlers : UpdateWithTx(h)
                \/ \E price \in PlanPrices : PurchaseSubscriptionWithBalance(price)
                \/ \E n \in Overrides : OverrideQuota(n)]_vars
  BY InvNext DEF LotsWithinBalances, PromoLotsWithinPromoQuota, Nested, Covered
<1> QED BY <1>1, Invariant, PTL DEF Spec, NestingKept

\* A user starts with nested balances.
LEMMA NestedInit ==
  ASSUME Init
  PROVE  LotsWithinBalances
<1> DEFINE P(type) == {l \in LotIds : wallet.lots[l].type = type /\ wallet.lots[l].status = "active"}
<1>1. wallet.quota = 0 /\ wallet.promo = 0 /\ P("paid") = {} /\ P("promotional") = {}
  BY DEF Init, NoLot
<1>2. TrackedPaid(wallet) = SumOver(P("paid"), Remaining(wallet))
      /\ TrackedPromo(wallet) = SumOver(P("promotional"), Remaining(wallet))
  BY DEF TrackedPaid, TrackedPromo
<1> HIDE DEF P
<1>3. TrackedPaid(wallet) = 0 /\ TrackedPromo(wallet) = 0
  BY <1>1, <1>2, SumEmpty
<1> QED BY <1>1, <1>3 DEF LotsWithinBalances, PromoLotsWithinPromoQuota

\* For a user whose history has none of the four, the balances always nest, so
\* ReconcileRefund never fails with "credit lot balance invariant failed during
\* refund".
THEOREM BalancesNest ==
  ASSUME PlanPrices = {}, Overrides = {}, Handlers = {}
  PROVE  Spec /\ [][\A o \in Orders : ~ReconcileLegacyRefund(o)]_vars => []LotsWithinBalances
<1>1. Init => LotsWithinBalances
  BY NestedInit
<1>2. /\ IInv /\ LotsWithinBalances /\ [Next]_vars
      /\ [\A o \in Orders : ~ReconcileLegacyRefund(o)]_vars
      => LotsWithinBalances'
  <2> SUFFICES ASSUME IInv, LotsWithinBalances, [Next]_vars,
                      [\A o \in Orders : ~ReconcileLegacyRefund(o)]_vars
               PROVE  LotsWithinBalances'
    OBVIOUS
  <2>1. CASE UNCHANGED vars
    BY <2>1 DEF vars, LotsWithinBalances, PromoLotsWithinPromoQuota, TrackedPromo, TrackedPaid, Remaining
  <2>2. CASE \A o \in Orders : ~ReconcileLegacyRefund(o)
    BY <2>2, InvNext DEF LotsWithinBalances, PromoLotsWithinPromoQuota, Nested, Covered
  <2> QED BY <2>1, <2>2
<1> QED BY <1>1, <1>2, Invariant, PTL DEF Spec

\* While promo_quota covers the promotional lots, decreaseUserQuotaWithLots never
\* refuses a charge that the balance covers with "promotional balance invariant
\* violated".
THEOREM CoveredChargesSucceed == Spec => []CoveredChargesPass
<1>1. ASSUME IInv, PromoLotsWithinPromoQuota, NEW n \in Amounts
      PROVE  LET e == ExpireLots(wallet) IN e.quota >= n => CanDeduct(wallet, n)
  <2> DEFINE e == ExpireLots(wallet)
             a == Allocation(e, n)
             promoShare == SumOver(LotIds, ShareOf(e, "promotional", a))
  <2>1. Sound(wallet) /\ n \in Nat /\ Covered(wallet)
    BY <1>1, IInvParts, AmountAssumption DEF Books, PromoLotsWithinPromoQuota, Covered
  <2>2. Sound(e) /\ Covered(e)
    BY <2>1, ExpireLotsKeeps DEF Keeps
  <2>3. e.promo >= PromoPart(e, a) /\ e.quota >= n => CanDeduct(wallet, n)
    BY DEF CanDeduct
  <2> HIDE DEF e
  <2>4. e \in Wallets /\ HoldsOnlyIfActive(e)
    BY <2>2 DEF Sound
  <2>5. a \in Allocs /\ \A s \in Sources : a[s] <= Available(e, n)[s]
    BY <2>1, <2>4, AllocationBounds
  <2>6. ASSUME NEW l \in LotIds PROVE a[l] \in Nat /\ a[l] <= e.lots[l].remaining
    <3>1. l \in Sources /\ l # FreePromo /\ l # FreePaid /\ e.lots[l].remaining \in Nat
      BY <2>4, SourcesFacts, WalletFields
    <3>2. Available(e, n)[l] <= e.lots[l].remaining /\ Available(e, n)[l] \in Nat
      BY <3>1 DEF Available
    <3>3. a[l] \in Nat /\ a[l] <= Available(e, n)[l]
      BY <2>5, <3>1 DEF Allocs
    <3> HIDE DEF a
    <3> QED BY <3>1, <3>2, <3>3
  <2>7. a[FreePromo] <= e.promo - TrackedPromo(e) /\ a[FreePromo] \in Nat
    <3>1. a[FreePromo] \in Nat /\ a[FreePromo] <= Available(e, n)[FreePromo]
      BY <2>5, SourcesFacts DEF Allocs
    <3>2. Available(e, n)[FreePromo] = AtLeastZero(e.promo - TrackedPromo(e))
      BY SourcesFacts DEF Available
    <3>3. e.promo \in Nat /\ TrackedPromo(e) \in Nat
      BY <2>4, WalletFields, TrackedType
    <3> QED BY <2>2, <3>1, <3>2, <3>3 DEF AtLeastZero, Covered
  <2> HIDE DEF a
  <2>8. promoShare <= TrackedPromo(e) /\ promoShare \in Nat
    <3>1. \A l \in LotIds : e.lots[l].remaining \in Nat
      BY <2>4, WalletFields
    <3>2. \A l \in LotIds : ShareOf(e, "promotional", a)[l] <= RestOf(e, "promotional")[l]
      BY <2>6, <3>1 DEF ShareOf, RestOf
    <3> QED BY <2>4, <2>5, <3>2, ShareType, RestType, SourcesFacts, SumMonotone, TrackedSums
  <2>9. PromoPart(e, a) = promoShare + a[FreePromo]
    BY <2>4, <2>5, AllocationParts
  <2>10. e.promo \in Nat /\ TrackedPromo(e) \in Nat
    BY <2>4, WalletFields, TrackedType
  <2> HIDE DEF promoShare
  <2>11. e.promo >= PromoPart(e, a)
    BY <2>7, <2>8, <2>9, <2>10
  <2> QED BY <2>3, <2>11 DEF e
<1>2. IInv => CoveredChargesPass
  BY <1>1 DEF CoveredChargesPass
<1> QED BY <1>2, Invariant, PTL

LEMMA SameRow ==
  ASSUME NEW x \in Lots, NEW y \in Lots,
         x.order = y.order, x.type = y.type, x.original = y.original, x.expires = y.expires,
         x.remaining = y.remaining, x.status = y.status, x.ledger = y.ledger
  PROVE  x = y
BY DEF Lots

LEMMA SameWallet ==
  ASSUME NEW v \in Wallets, NEW w \in Wallets, v.quota = w.quota, v.promo = w.promo,
         \A l \in LotIds : v.lots[l] = w.lots[l]
  PROVE  v = w
<1>1. v.lots \in [LotIds -> Lots] /\ w.lots \in [LotIds -> Lots]
  BY DEF Wallets
<1>2. v.lots = w.lots
  BY <1>1
<1> QED BY <1>2 DEF Wallets

\* What the restore needs to know about the charge it undoes.
LEMMA ChargeUndone ==
  ASSUME NEW e, Sound(e), NoneDue(e), NEW n \in Nat, n <= e.quota, e.quota <= MaxQuota,
         PromoPart(e, Allocation(e, n)) <= e.promo,
         \A l \in LotIds : e.lots[l].remaining <= e.lots[l].original
  PROVE  LET a == Allocation(e, n)
             d == Charged(e, n)
         IN CanRestore(d, a) /\ Restored(d, a) = e
<1> DEFINE a == Allocation(e, n)
           d == Charged(e, n)
           v == Restored(d, a)
<1>1. e \in Wallets /\ e.quota \in Int /\ e.promo \in Nat /\ MaxQuota \in Nat
  BY WalletFields, AmountAssumption DEF Sound
<1>2. /\ Sound(d) /\ SameLots(e, d) /\ a \in Allocs /\ Total(a) = n
      /\ \A l \in LotIds : /\ a[l] \in Nat
                           /\ a[l] > 0 => e.lots[l].status = "active"
                           /\ d.lots[l].remaining = e.lots[l].remaining - a[l]
                           /\ d.lots[l].ledger = e.lots[l].ledger - a[l]
                           /\ d.lots[l].status \in {e.lots[l].status, "exhausted", "active"}
  BY ChargedKeeps
<1>3. /\ d.quota = e.quota - n /\ d.promo = e.promo - PromoPart(e, a)
      /\ \A l \in LotIds : a[l] = 0 => d.lots[l] = e.lots[l]
  BY DEF Charged
<1> HIDE DEF a, d
<1>4. ASSUME NEW l \in LotIds
      PROVE  /\ e.lots[l] \in Lots /\ d.lots[l] \in Lots
             /\ e.lots[l].remaining \in Nat /\ d.lots[l].remaining \in Nat /\ e.lots[l].original \in Nat
             /\ e.lots[l].ledger \in Int
             /\ d.lots[l].type = e.lots[l].type /\ d.lots[l].expires = e.lots[l].expires
             /\ d.lots[l].original = e.lots[l].original /\ d.lots[l].order = e.lots[l].order
  BY <1>1, <1>2, WalletFields DEF Sound, SameLots
<1>5. ASSUME NEW l \in LotIds, a[l] > 0
      PROVE  /\ d.lots[l].remaining <= d.lots[l].original - a[l]
             /\ ~(d.lots[l].type = "promotional" /\ d.lots[l].expires > 0 /\ d.lots[l].expires <= now)
             /\ d.lots[l].status \in {"active", "exhausted"}
  <2>1. e.lots[l].status = "active" /\ e.lots[l].remaining > 0
    BY <1>2, <1>4, <1>5
  <2>2. d.lots[l].remaining <= d.lots[l].original - a[l]
    BY <1>2, <1>4
  <2>3. ~(e.lots[l].type = "promotional" /\ e.lots[l].expires > 0 /\ e.lots[l].expires <= now)
    BY <2>1 DEF NoneDue
  <2> QED BY <1>2, <1>4, <2>1, <2>2, <2>3
<1>6. CanRestore(d, a)
  <2>1. Total(a) <= MaxQuota - d.quota
    BY <1>1, <1>2, <1>3
  <2>2. \A l \in {l \in LotIds : a[l] > 0} :
          /\ d.lots[l].remaining <= d.lots[l].original - a[l]
          /\ ~(d.lots[l].type = "promotional" /\ d.lots[l].expires > 0 /\ d.lots[l].expires <= now)
          /\ d.lots[l].status \notin {"expired", "reversed"}
    BY <1>5
  <2> QED BY <2>1, <2>2 DEF CanRestore
<1>7. /\ Sound(v) /\ SameLots(d, v)
      /\ v.quota = d.quota + Total(a) /\ v.promo = d.promo + PromoPart(d, a)
      /\ \A l \in LotIds : /\ v.lots[l].remaining = d.lots[l].remaining + a[l]
                           /\ v.lots[l].ledger = d.lots[l].ledger + a[l]
                           /\ a[l] = 0 => v.lots[l].status = d.lots[l].status
                           /\ a[l] # 0 => v.lots[l].status = "active"
  BY <1>2, <1>5, RestoredKeeps
<1> HIDE DEF v
<1>8. v \in Wallets /\ \A l \in LotIds : v.lots[l] \in Lots
  BY <1>7, WalletFields DEF Sound
<1>9. PromoPart(d, a) = PromoPart(e, a)
  <2>1. \A s \in Sources : IsPromo(d, s) <=> IsPromo(e, s)
    BY <1>4 DEF IsPromo
  <2>2. {s \in Sources : IsPromo(d, s)} = {s \in Sources : IsPromo(e, s)}
    BY <2>1
  <2> QED BY <2>2 DEF PromoPart
<1>10. v.quota = e.quota /\ v.promo = e.promo
  <2>1. PromoPart(e, a) \in Nat
    BY <1>1, <1>2, PartsType
  <2> QED BY <1>1, <1>2, <1>3, <1>7, <1>9, <2>1
<1>11. ASSUME NEW l \in LotIds PROVE v.lots[l] = e.lots[l]
  <2>1. v.lots[l].remaining = e.lots[l].remaining /\ v.lots[l].ledger = e.lots[l].ledger
    BY <1>2, <1>4, <1>7
  <2>2. v.lots[l].status = e.lots[l].status
    BY <1>2, <1>3, <1>7
  <2>3. /\ v.lots[l].order = e.lots[l].order /\ v.lots[l].type = e.lots[l].type
        /\ v.lots[l].original = e.lots[l].original /\ v.lots[l].expires = e.lots[l].expires
    BY <1>4, <1>7 DEF SameLots
  <2> QED BY <1>4, <1>8, <2>1, <2>2, <2>3, SameRow
<1>12. v = e
  BY <1>1, <1>8, <1>10, <1>11, SameWallet
<1> QED BY <1>6, <1>12 DEF a, d, v

\* A request that fails right after its reservation finds every source able to
\* take its share back, and leaves the wallet, lots and ledger sums included, as
\* the expiry before the reservation left it.
THEOREM RefundIsTheInverse == Spec => []RefundUndoesReserve
<1>1. IInv => RefundUndoesReserve
  <2> SUFFICES ASSUME IInv, NEW n \in Amounts
               PROVE  LET e == ExpireLots(wallet)
                          a == Allocation(e, n)
                          d == Deducted(wallet, n)
                      IN CanDeduct(wallet, n) /\ e.quota <= MaxQuota
                           => CanRestore(d, a) /\ Restored(d, a) = e
    BY DEF RefundUndoesReserve
  <2> DEFINE e == ExpireLots(wallet)
             a == Allocation(e, n)
             d == Deducted(wallet, n)
  <2> SUFFICES ASSUME CanDeduct(wallet, n), e.quota <= MaxQuota
               PROVE  CanRestore(d, a) /\ Restored(d, a) = e
    OBVIOUS
  <2>1. Sound(wallet) /\ Backed(wallet, res) /\ res \in Holds /\ n \in Nat
    BY IInvParts, AmountAssumption DEF Books, Rest
  <2>2. /\ Sound(e) /\ NoneDue(e) /\ SameLots(wallet, e)
        /\ \A l \in LotIds : e.lots[l].remaining <= wallet.lots[l].remaining
    BY <2>1, ExpireLotsKeeps
  <2>3. d = Charged(e, n) /\ e.quota >= n /\ e.promo >= PromoPart(e, a)
    BY DEF Deducted, Charged, CanDeduct
  <2> HIDE DEF e, d
  <2>4. e.quota \in Int /\ e.promo \in Nat /\ PromoPart(e, a) \in Nat
    BY <2>1, <2>2, WalletFields, AllocationBounds, PartsType DEF Sound
  <2>5. n <= e.quota /\ PromoPart(e, a) <= e.promo
    BY <2>1, <2>3, <2>4
  <2>6. ASSUME NEW l \in LotIds PROVE e.lots[l].remaining <= e.lots[l].original
    <3>1. /\ wallet.lots[l].remaining \in Nat /\ e.lots[l].remaining \in Nat
          /\ wallet.lots[l].original \in Nat /\ HeldOf(res, l) \in Nat
      BY <2>1, <2>2, WalletFields, HeldType DEF Sound
    <3>2. /\ wallet.lots[l].remaining + HeldOf(res, l) <= wallet.lots[l].original
          /\ e.lots[l].original = wallet.lots[l].original
      BY <2>1, <2>2 DEF Backed, SameLots
    <3> QED BY <2>2, <3>1, <3>2
  <2> QED BY <2>1, <2>2, <2>3, <2>5, <2>6, ChargeUndone DEF e
<1> QED BY <1>1, Invariant, PTL
=============================================================================
