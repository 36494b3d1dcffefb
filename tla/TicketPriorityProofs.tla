------------------------ MODULE TicketPriorityProofs ------------------------
(***************************************************************************)
(* Proofs about the priority order: Min and Max of finite sets of ranks,   *)
(* the place a reorder finds, renumbering, and the steps of the handlers   *)
(* as steps of OwnerOrder, for any finite set of Tickets.                  *)
(***************************************************************************)
EXTENDS TicketPriority, FiniteSetTheorems, WellFoundedInduction, TLAPS

-----------------------------------------------------------------------------
(* Least and greatest members of finite sets.                              *)

\* A set of natural numbers that is not empty has a least member.
LEMMA LeastNatural ==
    ASSUME NEW S \in SUBSET Nat, S # {}
    PROVE  \E m \in S : \A n \in S : m <= n
<1>1. PICK m \in S : \A n \in S : ~ (<<n, m>> \in OpToRel(<, Nat))
  BY NatLessThanWellFounded, WFMin
<1>2. \A n \in S : ~(n < m)
  BY <1>1 DEF OpToRel
<1>. QED BY <1>2

\* A finite set has more members than a subset that misses one.
LEMMA StrictlyFewer ==
    ASSUME NEW T, IsFiniteSet(T), NEW S, S \subseteq T, NEW x \in T, x \notin S
    PROVE  /\ Cardinality(S) \in Nat /\ Cardinality(T) \in Nat
           /\ Cardinality(S) < Cardinality(T)
<1>1. S \in SUBSET T OBVIOUS
<1>2. /\ IsFiniteSet(S)
      /\ Cardinality(S) <= Cardinality(T)
      /\ Cardinality(S) = Cardinality(T) => S = T
  BY <1>1, FS_Subset
<1>3. Cardinality(S) \in Nat /\ Cardinality(T) \in Nat
  BY <1>2, FS_CardinalityType
<1>4. S # T OBVIOUS
<1>. QED BY <1>2, <1>3, <1>4

\* A finite set of integers has a least member: the one fewest are below.
LEMMA LeastExists ==
    ASSUME NEW S, S \subseteq Int, IsFiniteSet(S), S # {}
    PROVE  \E m \in S : \A n \in S : m <= n
<1>. DEFINE Below(x) == {y \in S : y < x}
            Counts == {Cardinality(Below(x)) : x \in S}
<1>1. ASSUME NEW x \in S PROVE IsFiniteSet(Below(x)) /\ Cardinality(Below(x)) \in Nat
  <2>1. Below(x) \in SUBSET S OBVIOUS
  <2>. QED BY <2>1, FS_Subset, FS_CardinalityType
<1>2. Counts \in SUBSET Nat /\ Counts # {}
  BY <1>1
<1>3. PICK c \in Counts : \A d \in Counts : c <= d
  BY <1>2, LeastNatural
<1>4. PICK m \in S : c = Cardinality(Below(m))
  BY <1>3
<1>5. ASSUME NEW n \in S, n < m PROVE FALSE
  <2>1. n \in Int /\ m \in Int
    OBVIOUS
  <2>2. Below(n) \subseteq Below(m) /\ n \in Below(m) /\ n \notin Below(n)
    <3>1. n \in Below(m) BY <1>5
    <3>2. n \notin Below(n) BY <2>1
    <3>3. ASSUME NEW y \in Below(n) PROVE y \in Below(m)
      <4>1. y \in S /\ y < n OBVIOUS
      <4>2. y \in Int BY <4>1
      <4>3. y < m BY <4>1, <4>2, <2>1, <1>5
      <4>. QED BY <4>1, <4>3
    <3>. QED BY <3>1, <3>2, <3>3
  <2>3. /\ Cardinality(Below(n)) < Cardinality(Below(m))
        /\ Cardinality(Below(n)) \in Nat /\ Cardinality(Below(m)) \in Nat
    <3>. HIDE DEF Below
    <3>. QED BY <2>2, <1>1, StrictlyFewer
  <2>4. c <= Cardinality(Below(n))
    BY <1>3
  <2>. HIDE DEF Below, Counts
  <2>. QED BY <2>3, <2>4, <1>4
<1>. QED BY <1>5

\* A finite set of integers has a greatest member.
LEMMA GreatestExists ==
    ASSUME NEW S, S \subseteq Int, IsFiniteSet(S), S # {}
    PROVE  \E m \in S : \A n \in S : n <= m
<1>. DEFINE Mirrored == {-n : n \in S}
            mirror == [n \in S |-> -n]
<1>1. mirror \in Surjection(S, Mirrored)
  BY DEF Surjection
<1>2. IsFiniteSet(Mirrored) /\ Mirrored \subseteq Int /\ Mirrored # {}
  <2>1. Mirrored \subseteq Int /\ Mirrored # {}
    <3>1. ASSUME NEW m \in Mirrored PROVE m \in Int
      <4>1. PICK n \in S : m = -n OBVIOUS
      <4>. QED BY <4>1
    <3>2. PICK n \in S : TRUE OBVIOUS
    <3>3. -n \in Mirrored OBVIOUS
    <3>. QED BY <3>1, <3>3
  <2>. HIDE DEF Mirrored, mirror
  <2>2. IsFiniteSet(Mirrored) BY <1>1, FS_Surjection
  <2>. QED BY <2>1, <2>2
<1>3. PICK m \in Mirrored : \A n \in Mirrored : m <= n
  <2>. HIDE DEF Mirrored
  <2>. QED BY <1>2, LeastExists
<1>4. PICK k \in S : m = -k
  BY <1>3
<1>5. ASSUME NEW n \in S PROVE n <= k
  <2>1. -n \in Mirrored OBVIOUS
  <2>2. m <= -n BY <2>1, <1>3
  <2>3. n \in Int /\ k \in Int OBVIOUS
  <2>. QED BY <2>2, <2>3, <1>4
<1>. QED BY <1>5

\* Min and Max are what they say.
LEMMA MinIsLeast ==
    ASSUME NEW S, S \subseteq Int, IsFiniteSet(S), S # {}
    PROVE  Min(S) \in S /\ \A n \in S : Min(S) <= n
BY LeastExists DEF Min

\* The same of Max.
LEMMA MaxIsGreatest ==
    ASSUME NEW S, S \subseteq Int, IsFiniteSet(S), S # {}
    PROVE  Max(S) \in S /\ \A n \in S : n <= Max(S)
BY GreatestExists DEF Max

-----------------------------------------------------------------------------
(* Gaps, places and renumbering.                                           *)

\* A rank halfway into a gap with room lies within it.
LEMMA MidpointFits ==
    ASSUME NEW gap,
           gap.lower \subseteq Int, IsFiniteSet(gap.lower),
           gap.upper \subseteq Int, IsFiniteSet(gap.upper),
           gap.lower # {} \/ gap.upper # {},
           \A l \in gap.lower, u \in gap.upper : l < u,
           HasMidpoint(gap)
    PROVE  Midpoint(gap) \in Int /\ Contains(gap, Midpoint(gap))
<1>. DEFINE l == Max(gap.lower)
            u == Min(gap.upper)
<1>1. gap.lower # {} => /\ l \in Int /\ l \in gap.lower
                        /\ \A n \in gap.lower : n \in Int /\ n <= l
  BY MaxIsGreatest
<1>2. gap.upper # {} => /\ u \in Int /\ u \in gap.upper
                        /\ \A n \in gap.upper : n \in Int /\ u <= n
  BY MinIsLeast
<1>3. Spacing \in Int /\ 0 < Spacing
  BY PriorityAssumption
<1>. HIDE DEF l, u
<1>4. CASE gap.lower = {}
  <2>1. Midpoint(gap) = u - Spacing
    BY <1>4 DEF Midpoint, u
  <2>. QED BY <1>2, <1>3, <1>4, <2>1 DEF Contains
<1>5. CASE gap.lower # {} /\ gap.upper = {}
  <2>1. Midpoint(gap) = l + Spacing
    BY <1>5 DEF Midpoint, l
  <2>. QED BY <1>1, <1>3, <1>5, <2>1 DEF Contains
<1>6. CASE gap.lower # {} /\ gap.upper # {}
  <2>1. Midpoint(gap) = l + (u - l) \div 2
    BY <1>6 DEF Midpoint, l, u
  <2>2. u - l >= 2
    BY <1>6 DEF HasMidpoint, l, u
  <2>3. Midpoint(gap) \in Int /\ l < Midpoint(gap) /\ Midpoint(gap) < u
    BY <2>1, <2>2, <1>1, <1>2, <1>6
  <2>. QED BY <2>3, <1>1, <1>2, <1>6 DEF Contains
<1>. QED BY <1>4, <1>5, <1>6

\* No two Tickets share a rank.
RanksApart(ranks) == \A u, v \in Captured : u # v => ranks[u] # ranks[v]

\* The bounds of the gap beside an anchor.
LEMMA GapIsSound ==
    ASSUME NEW ranks \in [Ticket -> Int], NEW t \in Captured, NEW a \in Captured,
           NEW side \in {"before", "after"}
    PROVE  LET gap == GapBeside(ranks, t, a, side) IN
           /\ gap.lower \subseteq Int /\ IsFiniteSet(gap.lower)
           /\ gap.upper \subseteq Int /\ IsFiniteSet(gap.upper)
           /\ gap.lower # {} \/ gap.upper # {}
           /\ \A l \in gap.lower, u \in gap.upper : l < u
<1>. DEFINE others == {ranks[u] : u \in Captured \ {t}}
            rankOf == [u \in Captured \ {t} |-> ranks[u]]
            smaller == {r \in others : r < ranks[a]}
            greater == {r \in others : r > ranks[a]}
<1>1. others \subseteq Int
  BY DEF Captured
<1>2. IsFiniteSet(others)
  <2>1. rankOf \in Surjection(Captured \ {t}, others)
    BY DEF Surjection
  <2>2. Captured \ {t} \in SUBSET Ticket
    BY DEF Captured
  <2>3. IsFiniteSet(Captured \ {t})
    BY <2>2, FS_Subset, PriorityAssumption
  <2>. HIDE DEF others, rankOf
  <2>. QED BY <2>1, <2>3, FS_Surjection
<1>3. smaller \in SUBSET others /\ greater \in SUBSET others
  OBVIOUS
<1>4. IsFiniteSet(smaller) /\ IsFiniteSet(greater)
  <2>. HIDE DEF others, smaller, greater
  <2>. QED BY <1>2, <1>3, FS_Subset
<1>5. ranks[a] \in Int /\ IsFiniteSet({ranks[a]})
  BY FS_Singleton DEF Captured
<1>6. \A r \in smaller : r < ranks[a]
  OBVIOUS
<1>7. \A r \in greater : ranks[a] < r
  BY <1>1, <1>5
<1>8. CASE side = "before"
  <2>1. /\ GapBeside(ranks, t, a, side).lower = smaller
        /\ GapBeside(ranks, t, a, side).upper = {ranks[a]}
    BY <1>8 DEF GapBeside
  <2>. HIDE DEF others, smaller, greater
  <2>. QED BY <2>1, <1>1, <1>3, <1>4, <1>5, <1>6
<1>9. CASE side = "after"
  <2>1. /\ GapBeside(ranks, t, a, side).lower = {ranks[a]}
        /\ GapBeside(ranks, t, a, side).upper = greater
    BY <1>9 DEF GapBeside
  <2>. HIDE DEF others, smaller, greater
  <2>. QED BY <2>1, <1>1, <1>3, <1>4, <1>5, <1>7
<1>. QED BY <1>8, <1>9

\* One pass that has room puts t right beside a and leaves the others alone.
LEMMA PlacedBeside ==
    ASSUME NEW ranks \in [Ticket -> Int], RanksApart(ranks),
           NEW t \in Captured, NEW a \in Captured, t # a,
           NEW side \in {"before", "after"}, HasRoom(ranks, t, a, side)
    PROVE  LET placed == Placed(ranks, t, a, side) IN
           /\ placed \in [Ticket -> Int]
           /\ \A u \in Ticket \ {t} : placed[u] = ranks[u]
           /\ \A u \in Captured \ {t} :
                /\ placed[u] # placed[t]
                /\ placed[u] < placed[t] <=>
                     ranks[u] < ranks[a] \/ (side = "after" /\ u = a)
<1>. DEFINE gap == GapBeside(ranks, t, a, side)
            placed == Placed(ranks, t, a, side)
<1>1. Contains(gap, placed[t]) /\ placed \in [Ticket -> Int]
      /\ \A u \in Ticket \ {t} : placed[u] = ranks[u]
  <2>1. CASE Contains(gap, ranks[t])
    BY <2>1 DEF Placed
  <2>2. CASE ~Contains(gap, ranks[t])
    <3>1. HasMidpoint(gap)
      BY <2>2 DEF HasRoom
    <3>2. Midpoint(gap) \in Int /\ Contains(gap, Midpoint(gap))
      <4>. HIDE DEF gap
      <4>1. /\ gap.lower \subseteq Int /\ IsFiniteSet(gap.lower)
            /\ gap.upper \subseteq Int /\ IsFiniteSet(gap.upper)
            /\ gap.lower # {} \/ gap.upper # {}
            /\ \A l \in gap.lower, u \in gap.upper : l < u
        BY GapIsSound DEF gap
      <4>. QED BY <4>1, <3>1, MidpointFits
    <3>3. placed = [ranks EXCEPT ![t] = Midpoint(gap)]
      BY <2>2 DEF Placed
    <3>4. t \in Ticket
      BY DEF Captured
    <3>. HIDE DEF gap, placed
    <3>. QED BY <3>2, <3>3, <3>4
  <2>. QED BY <2>1, <2>2
<1>2. ASSUME NEW u \in Captured \ {t}
      PROVE  /\ placed[u] # placed[t]
             /\ placed[u] < placed[t] <=>
                  ranks[u] < ranks[a] \/ (side = "after" /\ u = a)
  <2>1. /\ u \in Ticket /\ ranks[u] \in Int /\ ranks[a] \in Int
        /\ placed[u] = ranks[u] /\ placed[t] \in Int
        /\ u # a => ranks[u] # ranks[a]
    <3>1. u \in Ticket /\ a \in Ticket /\ t \in Ticket
      BY DEF Captured
    <3>. HIDE DEF placed
    <3>. QED BY <3>1, <1>1 DEF RanksApart
  <2>2. ranks[u] \in {ranks[v] : v \in Captured \ {t}}
    OBVIOUS
  <2>3. CASE side = "before"
    <3>1. ranks[u] < ranks[a] => ranks[u] < placed[t]
      BY <1>1, <2>2, <2>3 DEF GapBeside, Contains
    <3>2. placed[t] < ranks[a]
      BY <1>1, <2>3 DEF GapBeside, Contains
    <3>. HIDE DEF placed
    <3>. QED BY <2>1, <2>3, <3>1, <3>2
  <2>4. CASE side = "after"
    <3>1. ranks[u] > ranks[a] => placed[t] < ranks[u]
      BY <1>1, <2>2, <2>4 DEF GapBeside, Contains
    <3>2. ranks[a] < placed[t]
      BY <1>1, <2>4 DEF GapBeside, Contains
    <3>. HIDE DEF placed
    <3>. QED BY <2>1, <2>4, <3>1, <3>2
  <2>. QED BY <2>3, <2>4
<1>. HIDE DEF gap, placed
<1>. QED BY <1>1, <1>2 DEF placed

\* One more position is at least one more spacing.
LEMMA PositionsApart ==
    ASSUME NEW c \in Nat, NEW d \in Nat, c < d
    PROVE  Spacing * c + Spacing <= Spacing * d
<1>1. Spacing \in Nat
  BY PriorityAssumption
<1>2. PICK k \in Nat : d = c + 1 + k
  <2>1. d - c - 1 \in Nat OBVIOUS
  <2>. QED BY <2>1
<1>3. Spacing * d = Spacing * c + Spacing + Spacing * k
  BY <1>1, <1>2
<1>4. Spacing * k \in Nat /\ Spacing * c \in Nat
  BY <1>1
<1>. QED BY <1>1, <1>3, <1>4

\* Renumbering keeps the order and leaves a whole spacing between any two.
LEMMA RenumberingKeepsOrder ==
    ASSUME rank \in [Ticket -> Int], RanksApart(rank)
    PROVE  /\ Renumbered \in [Ticket -> Int]
           /\ RanksApart(Renumbered)
           /\ \A u, v \in Captured :
                rank[u] < rank[v] => Renumbered[u] + Spacing <= Renumbered[v]
           /\ \A u, v \in Captured :
                Renumbered[u] < Renumbered[v] <=> rank[u] < rank[v]
<1>. DEFINE upTo(v) == {u \in Captured : rank[u] <= rank[v]}
            pos(v) == Cardinality(upTo(v))
<1>1. Captured \subseteq Ticket /\ \A u \in Captured : rank[u] \in Int
  BY DEF Captured
<1>2. ASSUME NEW v \in Captured PROVE IsFiniteSet(upTo(v)) /\ pos(v) \in Nat
  <2>1. upTo(v) \in SUBSET Ticket
    BY <1>1
  <2>. HIDE DEF upTo
  <2>. QED BY <2>1, FS_Subset, FS_CardinalityType, PriorityAssumption
<1>3. ASSUME NEW v \in Captured PROVE Renumbered[v] = Spacing * pos(v)
  BY <1>1 DEF Renumbered
<1>4. Spacing \in Nat /\ Spacing > 0 /\ \A c \in Nat : Spacing * c \in Int
  BY PriorityAssumption
<1>5. Renumbered \in [Ticket -> Int]
  <2>1. ASSUME NEW t \in Ticket PROVE Renumbered[t] \in Int
    <3>1. CASE t \in Captured
      <4>1. pos(t) \in Nat /\ Renumbered[t] = Spacing * pos(t)
        BY <3>1, <1>2, <1>3
      <4>. HIDE DEF pos
      <4>. QED BY <4>1, <1>4
    <3>2. CASE t \notin Captured
      BY <3>2 DEF Renumbered
    <3>. QED BY <3>1, <3>2
  <2>2. Renumbered = [t \in Ticket |-> Renumbered[t]]
    BY DEF Renumbered
  <2>. HIDE DEF pos
  <2>. QED BY <2>1, <2>2
<1>6. ASSUME NEW u \in Captured, NEW v \in Captured, rank[u] < rank[v]
      PROVE  Renumbered[u] + Spacing <= Renumbered[v]
  <2>1. upTo(u) \subseteq upTo(v)
    <3>1. ASSUME NEW w \in upTo(u) PROVE w \in upTo(v)
      <4>1. w \in Captured /\ rank[w] <= rank[u] OBVIOUS
      <4>2. rank[w] <= rank[v] BY <4>1, <1>1, <1>6
      <4>. QED BY <4>1, <4>2
    <3>. QED BY <3>1
  <2>2. v \in upTo(v) /\ v \notin upTo(u)
    BY <1>1, <1>6
  <2>3. pos(u) \in Nat /\ pos(v) \in Nat /\ pos(u) < pos(v)
    <3>. HIDE DEF upTo
    <3>. QED BY <2>1, <2>2, <1>2, StrictlyFewer
  <2>. HIDE DEF pos
  <2>4. Spacing * pos(u) + Spacing <= Spacing * pos(v)
    BY <2>3, PositionsApart
  <2>. QED BY <2>4, <1>3
<1>7. ASSUME NEW u \in Captured, NEW v \in Captured
      PROVE  /\ Renumbered[u] < Renumbered[v] <=> rank[u] < rank[v]
             /\ u # v => Renumbered[u] # Renumbered[v]
  <2>1. Renumbered[u] \in Int /\ Renumbered[v] \in Int
    BY <1>1, <1>5
  <2>2. u = v \/ rank[u] < rank[v] \/ rank[v] < rank[u]
    BY <1>1 DEF RanksApart
  <2>3. /\ rank[u] < rank[v] => Renumbered[u] + Spacing <= Renumbered[v]
        /\ rank[v] < rank[u] => Renumbered[v] + Spacing <= Renumbered[u]
    BY <1>6
  <2>. QED BY <2>1, <2>2, <2>3, <1>1, <1>4
<1>. QED BY <1>5, <1>6, <1>7 DEF RanksApart

\* Once renumbered, there is room beside every anchor.
LEMMA RenumberedHasRoom ==
    ASSUME rank \in [Ticket -> Int], RanksApart(rank),
           NEW t \in Captured, NEW a \in Captured, NEW side \in {"before", "after"}
    PROVE  HasRoom(Renumbered, t, a, side)
<1>. DEFINE gap == GapBeside(Renumbered, t, a, side)
<1>1. /\ gap.lower \subseteq Int /\ IsFiniteSet(gap.lower)
      /\ gap.upper \subseteq Int /\ IsFiniteSet(gap.upper)
  BY RenumberingKeepsOrder, GapIsSound
<1>2. ASSUME NEW l \in gap.lower, NEW u \in gap.upper PROVE u - l >= 2
  <2>1. PICK x \in Captured, y \in Captured :
             l = Renumbered[x] /\ u = Renumbered[y] /\ l < u
    <3>1. CASE side = "before"
      BY <3>1 DEF GapBeside
    <3>2. CASE side = "after"
      <4>1. PICK y \in Captured \ {t} : u = Renumbered[y] /\ u > Renumbered[a]
        BY <3>2 DEF GapBeside
      <4>2. l = Renumbered[a]
        BY <3>2 DEF GapBeside
      <4>. HIDE DEF gap
      <4>. QED BY <4>1, <4>2, <1>1, RenumberingKeepsOrder DEF Captured
    <3>. QED BY <3>1, <3>2
  <2>2. rank[x] < rank[y]
    BY <2>1, RenumberingKeepsOrder
  <2>3. Renumbered[x] + Spacing <= Renumbered[y]
    BY <2>2, RenumberingKeepsOrder
  <2>4. l \in Int /\ u \in Int
    BY <1>1
  <2>. HIDE DEF gap
  <2>. QED BY <2>1, <2>3, <2>4, PriorityAssumption
<1>3. HasMidpoint(gap)
  <2>. HIDE DEF gap
  <2>. SUFFICES ASSUME gap.lower # {}, gap.upper # {}
                PROVE  Min(gap.upper) - Max(gap.lower) >= 2
    BY DEF HasMidpoint
  <2>1. Min(gap.upper) \in gap.upper /\ Max(gap.lower) \in gap.lower
    BY <1>1, MinIsLeast, MaxIsGreatest
  <2>. QED BY <2>1, <1>2
<1>. QED BY <1>3 DEF HasRoom

-----------------------------------------------------------------------------
(* The invariant, and the steps that write ranks.                          *)

\* What the claim has passed over still requests no work: it holds those rows.
SkippedStay == \A u \in looked : ~WorkRequested(u)

\* The Ticket of an open Round is one of the Tickets there are.
HeldIsCaptured == openRound # NoTicket => openRound \in Captured

PriorityInv ==
    PriorityTypeOK /\ RanksApart(rank) /\ SkippedStay /\ HeldIsCaptured

\* Ranks are integers.
LEMMA RanksAreIntegers == ASSUME PriorityTypeOK PROVE rank \in [Ticket -> Int]
<1>1. Ranks \subseteq Int
  BY PriorityAssumption DEF Ranks
<1>. QED BY <1>1 DEF PriorityTypeOK

\* If t alone changes its rank, lands above and below the right Tickets, and
\* keeps a rank of its own, the order changes as OwnerOrder places t.
LEMMA PlaceMaps ==
    ASSUME NEW t \in Ticket, NEW above \in SUBSET (Captured \ {t}),
           rank \in [Ticket -> Int], rank' \in [Ticket -> Int],
           RanksApart(rank), Captured' = Captured \cup {t},
           \A u, v \in Captured \ {t} : rank'[u] < rank'[v] <=> rank[u] < rank[v],
           \A u \in Captured \ {t} : rank'[u] # rank'[t],
           \A u \in Captured \ {t} : rank'[u] < rank'[t] <=> u \in above
    PROVE  Order!Place(t, above) /\ RanksApart(rank)'
<1>1. RanksApart(rank)'
  <2>. SUFFICES ASSUME NEW u \in Captured', NEW v \in Captured', u # v
                PROVE  rank'[u] # rank'[v]
    BY DEF RanksApart
  <2>1. CASE u = t \/ v = t
    BY <2>1
  <2>2. CASE u # t /\ v # t
    <3>1. u \in Captured \ {t} /\ v \in Captured \ {t}
      BY <2>2
    <3>2. rank[u] < rank[v] \/ rank[v] < rank[u]
      BY <3>1 DEF RanksApart, Captured
    <3>3. rank'[u] < rank'[v] \/ rank'[v] < rank'[u]
      BY <3>1, <3>2
    <3>. QED BY <3>1, <3>3 DEF Captured
  <2>. QED BY <2>1, <2>2
<1>2. Order!Place(t, above)
  <2>. DEFINE old == {p \in Captured \X Captured : rank[p[1]] < rank[p[2]]}
              new == {p \in Captured' \X Captured' : rank'[p[1]] < rank'[p[2]]}
              others == {p \in old : p[1] # t /\ p[2] # t}
              below == Captured' \ (above \cup {t})
              mapped == others \cup (above \X {t}) \cup ({t} \X below)
  <2>1. ASSUME NEW u \in Captured', NEW v \in Captured'
        PROVE  <<u, v>> \in mapped <=> rank'[u] < rank'[v]
    <3>0. rank'[t] \in Int /\ rank'[u] \in Int /\ rank'[v] \in Int
      BY DEF Captured
    <3>1. CASE u # t /\ v # t
      BY <3>1
    <3>2. CASE u # t /\ v = t
      BY <3>2
    <3>3. CASE u = t /\ v # t
      <4>1. v \in Captured \ {t} /\ <<u, v>> \in mapped <=> v \notin above
        BY <3>3
      <4>2. rank'[v] # rank'[t] /\ (rank'[v] < rank'[t] <=> v \in above)
        BY <3>3
      <4>3. v \in Captured \ {t}
        BY <3>3
      <4>. HIDE DEF mapped
      <4>. QED BY <4>1, <4>2, <4>3, <3>0, <3>3
    <3>4. CASE u = t /\ v = t
      BY <3>4, <3>0
    <3>. QED BY <3>1, <3>2, <3>3, <3>4
  <2>2. mapped \subseteq Captured' \X Captured'
    OBVIOUS
  <2>3. new = mapped
    <3>1. ASSUME NEW p \in new PROVE p \in mapped
      <4>1. PICK u \in Captured', v \in Captured' : p = <<u, v>>
        OBVIOUS
      <4>2. rank'[u] < rank'[v]
        BY <4>1
      <4>. HIDE DEF new, mapped
      <4>. QED BY <4>1, <4>2, <2>1
    <3>2. ASSUME NEW p \in mapped PROVE p \in new
      <4>1. PICK u \in Captured', v \in Captured' : p = <<u, v>>
        <5>. HIDE DEF mapped
        <5>. QED BY <2>2
      <4>2. rank'[u] < rank'[v]
        <5>. HIDE DEF mapped
        <5>. QED BY <4>1, <2>1
      <4>. HIDE DEF mapped
      <4>. QED BY <4>1, <4>2
    <3>. HIDE DEF new, mapped
    <3>. QED BY <3>1, <3>2
  <2>. QED BY <2>3 DEF Order!Place
<1>. QED BY <1>1, <1>2

\* While the lock is free no row is held by a claim.
LEMMA NothingLooked == ASSUME PriorityTypeOK, LockFree PROVE looked = {}
BY DEF PriorityTypeOK, LockFree

\* The Tickets in Ready, as OwnerOrder is given them.
ReadySet == {t \in Ticket : status[t] = "Ready"}

\* A step that moves no rank and captures nothing leaves the order alone.
LEMMA OrderKept ==
    ASSUME Captured' = Captured, UNCHANGED rank
    PROVE  /\ {p \in Captured \X Captured : rank[p[1]] < rank[p[2]]}'
                = {p \in Captured \X Captured : rank[p[1]] < rank[p[2]]}
           /\ RanksApart(rank) => RanksApart(rank)'
BY DEF RanksApart

\* A step that only takes a Ticket out of Ready, or changes Statuses besides
\* Ready, is a step of OwnerOrder.
LEMMA StatusOnlyMaps ==
    ASSUME PriorityTypeOK, UNCHANGED rank,
           NEW t \in Captured, NEW s \in Statuses, s # "Ready" \/ status[t] = "Ready",
           status' = [status EXCEPT ![t] = s]
    PROVE  /\ [Order!Next]_(Order!vars)
           /\ Captured' = Captured
           /\ RanksApart(rank) => RanksApart(rank)'
<1>1. s # "none" /\ t \in Ticket
  BY DEF Captured, Statuses
<1>2. Captured' = Captured
  BY <1>1 DEF Captured, PriorityTypeOK
<1>3. CASE s = status[t] \/ (s # "Ready" /\ status[t] # "Ready")
  <2>1. ReadySet' = ReadySet
    BY <1>1, <1>3 DEF ReadySet, PriorityTypeOK
  <2>. QED BY <1>2, <2>1, OrderKept DEF Order!vars, ReadySet
<1>4. CASE s # "Ready" /\ status[t] = "Ready"
  <2>1. ReadySet' = ReadySet \ {t} /\ t \in ReadySet
    BY <1>1, <1>4 DEF ReadySet, PriorityTypeOK
  <2>2. Order!LeaveReady(t)
    BY <1>2, <2>1, OrderKept DEF Order!LeaveReady, ReadySet
  <2>. QED BY <1>1, <1>2, <2>2, OrderKept DEF Order!Next
<1>. QED BY <1>2, <1>3, <1>4, OrderKept

\* The ranks in use are a finite set of integers.
LEMMA RanksInUse ==
    ASSUME PriorityInv
    PROVE  /\ Captured \subseteq Ticket
           /\ rank \in [Ticket -> Int]
           /\ RanksOf(Captured) \subseteq Int /\ IsFiniteSet(RanksOf(Captured))
           /\ \A u \in Captured : rank[u] \in RanksOf(Captured)
<1>1. Captured \subseteq Ticket /\ IsFiniteSet(Captured)
  <2>1. Captured \in SUBSET Ticket BY DEF Captured
  <2>. QED BY <2>1, FS_Subset, PriorityAssumption
<1>2. rank \in [Ticket -> Int]
  BY RanksAreIntegers DEF PriorityInv
<1>3. RanksOf(Captured) \subseteq Int
  BY <1>1, <1>2 DEF RanksOf
<1>4. IsFiniteSet(RanksOf(Captured))
  <2>. DEFINE rankOf == [u \in Captured |-> rank[u]]
  <2>1. rankOf \in Surjection(Captured, RanksOf(Captured))
    BY DEF Surjection, RanksOf
  <2>. HIDE DEF rankOf
  <2>. QED BY <2>1, <1>1, FS_Surjection
<1>. QED BY <1>1, <1>2, <1>3, <1>4 DEF RanksOf

\* Galley's capture is OwnerOrder's: it goes to the top.
LEMMA CaptureMaps ==
    ASSUME PriorityInv, NEW t \in Ticket, CaptureTicket(t), InBound
    PROVE  Order!Next /\ PriorityInv'
<1>1. Captured \subseteq Ticket /\ t \notin Captured
  BY RanksInUse DEF CaptureTicket
<1>2. rank \in [Ticket -> Int]
  BY RanksInUse
<1>3. Captured' = Captured \cup {t}
  BY <1>1 DEF Captured, CaptureTicket, PriorityInv, PriorityTypeOK
<1>4. TopRank \in Int /\ \A u \in Captured : TopRank < rank[u]
  <2>3. CASE Captured = {}
    BY <2>3, PriorityAssumption DEF TopRank
  <2>4. CASE Captured # {}
    <3>1. /\ Min(RanksOf(Captured)) \in RanksOf(Captured)
          /\ \A n \in RanksOf(Captured) : Min(RanksOf(Captured)) <= n
      BY <2>4, RanksInUse, MinIsLeast
    <3>2. TopRank = Min(RanksOf(Captured)) - Spacing
      BY <2>4 DEF TopRank
    <3>. QED BY <3>1, <3>2, RanksInUse, PriorityAssumption
  <2>. QED BY <2>3, <2>4
<1>5. /\ rank' = [rank EXCEPT ![t] = TopRank]
      /\ rank' \in [Ticket -> Int]
      /\ rank'[t] = TopRank
      /\ \A u \in Captured : rank'[u] = rank[u]
  BY <1>1, <1>2, <1>4 DEF CaptureTicket
<1>6. Order!Place(t, {}) /\ RanksApart(rank)'
  <2>. DEFINE top == {}
  <2>1. Captured \ {t} = Captured
    BY <1>1
  <2>2. \A u \in Captured \ {t} : rank[u] \in Int
    BY <1>1, <1>2
  <2>3. /\ \A u \in Captured \ {t} : rank'[u] # rank'[t]
        /\ \A u \in Captured \ {t} : rank'[u] < rank'[t] <=> u \in top
    BY <2>1, <2>2, <1>4, <1>5
  <2>4. \A u, v \in Captured \ {t} : rank'[u] < rank'[v] <=> rank[u] < rank[v]
    BY <2>1, <1>5
  <2>5. top \in SUBSET (Captured \ {t}) OBVIOUS
  <2>6. RanksApart(rank)
    BY DEF PriorityInv
  <2>7. Order!Place(t, {}) = Order!Place(t, top)
    OBVIOUS
  <2>. HIDE DEF top
  <2>. QED BY <1>2, <1>3, <1>5, <2>3, <2>4, <2>5, <2>6, <2>7, PlaceMaps
<1>7. Order!Capture(t)
  <2>1. ReadySet' = ReadySet
    BY <1>1 DEF ReadySet, CaptureTicket, Captured, PriorityInv, PriorityTypeOK
  <2>. QED BY <1>1, <1>3, <1>6, <2>1 DEF Order!Capture, ReadySet
<1>8. PriorityTypeOK'
  <2>1. rank' \in [Ticket -> Ranks]
    BY <1>5 DEF InBound
  <2>. QED BY <2>1, PriorityAssumption
       DEF CaptureTicket, PriorityInv, PriorityTypeOK, walkVars, Statuses
<1>9. SkippedStay' /\ HeldIsCaptured'
  BY <1>3, NothingLooked
     DEF SkippedStay, HeldIsCaptured, CaptureTicket, PriorityInv, walkVars
<1>. QED BY <1>6, <1>7, <1>8, <1>9 DEF PriorityInv, Order!Next

\* Entering Ready goes to the bottom; any other change of Status by the Owner
\* keeps the place.
LEMMA TransitionMaps ==
    ASSUME PriorityInv, NEW t \in Ticket, NEW target \in Statuses,
           TransitionLockedTicket(t, target), InBound
    PROVE  [Order!Next]_(Order!vars) /\ PriorityInv'
<1>1. /\ t \in Captured /\ Captured \subseteq Ticket /\ rank \in [Ticket -> Int]
      /\ status' = [status EXCEPT ![t] = target]
      /\ target # "none"
  BY RanksInUse, PriorityAssumption DEF TransitionLockedTicket, Statuses
<1>2. Captured' = Captured
  BY <1>1 DEF Captured, PriorityInv, PriorityTypeOK
<1>3. SkippedStay' /\ HeldIsCaptured'
  BY <1>2, NothingLooked
     DEF SkippedStay, HeldIsCaptured, TransitionLockedTicket, PriorityInv, walkVars
<1>4. rank' \in [Ticket -> Ranks] => PriorityTypeOK'
  BY <1>1 DEF TransitionLockedTicket, PriorityInv, PriorityTypeOK, walkVars
<1>5. CASE target # "Ready" \/ status[t] = "Ready"
  <2>1. UNCHANGED rank
    BY <1>5 DEF TransitionLockedTicket, RankAfter
  <2>2. /\ [Order!Next]_(Order!vars)
        /\ RanksApart(rank) => RanksApart(rank)'
    BY <2>1, <1>1, <1>5, StatusOnlyMaps DEF PriorityInv
  <2>. QED BY <1>3, <1>4, <2>1, <2>2 DEF PriorityInv, PriorityTypeOK
<1>6. CASE target = "Ready" /\ status[t] # "Ready"
  <2>1. rank' = [rank EXCEPT ![t] = BottomRank]
    BY <1>6 DEF TransitionLockedTicket, RankAfter
  <2>2. BottomRank \in Int /\ \A u \in Captured : rank[u] < BottomRank
    <3>1. /\ Max(RanksOf(Captured)) \in RanksOf(Captured)
          /\ \A n \in RanksOf(Captured) : n <= Max(RanksOf(Captured))
      BY <1>1, RanksInUse, MaxIsGreatest
    <3>2. BottomRank = Max(RanksOf(Captured)) + Spacing
      BY <1>1 DEF BottomRank
    <3>. QED BY <3>1, <3>2, RanksInUse, PriorityAssumption
  <2>3. /\ rank' \in [Ticket -> Int]
        /\ rank'[t] = BottomRank
        /\ \A u \in Captured \ {t} : rank'[u] = rank[u] /\ rank[u] \in Int
    BY <1>1, <2>1, <2>2
  <2>4. Order!Place(t, Captured \ {t}) /\ RanksApart(rank)'
    <3>1. PICK above \in SUBSET (Captured \ {t}) : above = Captured \ {t}
      OBVIOUS
    <3>2. Captured' = Captured \cup {t} BY <1>1, <1>2
    <3>3. /\ \A u \in Captured \ {t} : rank'[u] # rank'[t]
          /\ \A u \in Captured \ {t} : rank'[u] < rank'[t] <=> u \in above
      BY <2>2, <2>3, <3>1
    <3>4. \A u, v \in Captured \ {t} : rank'[u] < rank'[v] <=> rank[u] < rank[v]
      BY <2>3
    <3>5. RanksApart(rank)
      BY DEF PriorityInv
    <3>6. Order!Place(t, above) /\ RanksApart(rank)'
      BY <1>1, <2>3, <3>2, <3>3, <3>4, <3>5, PlaceMaps
    <3>. QED BY <3>1, <3>6 DEF Order!Place
  <2>5. Order!EnterReady(t)
    <3>1. ReadySet' = ReadySet \cup {t} /\ t \in Captured \ ReadySet
      BY <1>1, <1>6 DEF ReadySet, PriorityInv, PriorityTypeOK
    <3>. QED BY <1>2, <2>4, <3>1 DEF Order!EnterReady, ReadySet
  <2>6. rank' \in [Ticket -> Ranks]
    BY <2>3 DEF InBound
  <2>. QED BY <1>3, <1>4, <2>4, <2>5, <2>6 DEF PriorityInv, Order!Next
<1>. QED BY <1>5, <1>6

\* Galley's reorder, renumbering or not, is OwnerOrder's: the Ticket lands
\* right beside its anchor.
LEMMA ReorderMaps ==
    ASSUME PriorityInv, NEW t \in Ticket, NEW a \in Ticket,
           NEW side \in {"before", "after"}, ReorderTicket(t, a, side), InBound
    PROVE  Order!Next /\ PriorityInv'
<1>. DEFINE before == {p \in Captured \X Captured : rank[p[1]] < rank[p[2]]}
            aboveAnchor == {u \in Captured : <<u, a>> \in before}
<1>1. /\ t \in Captured /\ a \in Captured /\ t # a
      /\ Captured \subseteq Ticket /\ rank \in [Ticket -> Int]
      /\ RanksApart(rank)
  BY RanksInUse DEF ReorderTicket, PriorityInv
<1>2. Captured' = Captured
  BY DEF ReorderTicket, Captured
<1>3. PICK ranks \in [Ticket -> Int] :
        /\ RanksApart(ranks)
        /\ \A u, v \in Captured : ranks[u] < ranks[v] <=> rank[u] < rank[v]
        /\ HasRoom(ranks, t, a, side)
        /\ rank' = Placed(ranks, t, a, side)
  <2>1. CASE HasRoom(rank, t, a, side) /\ rank' = Placed(rank, t, a, side)
    BY <1>1, <2>1
  <2>2. CASE /\ HasRoom(Renumbered, t, a, side)
             /\ rank' = Placed(Renumbered, t, a, side)
    BY <1>1, <2>2, RenumberingKeepsOrder
  <2>. QED BY <2>1, <2>2 DEF ReorderTicket, PlaceBesideAnchor
<1>4. /\ rank' \in [Ticket -> Int]
      /\ \A u \in Captured \ {t} : rank'[u] = ranks[u]
      /\ \A u \in Captured \ {t} : rank'[u] # rank'[t]
      /\ \A u \in Captured \ {t} :
            rank'[u] < rank'[t] <=> ranks[u] < ranks[a] \/ (side = "after" /\ u = a)
  BY <1>1, <1>3, PlacedBeside
<1>0. PICK above \in SUBSET (Captured \ {t}) :
        above = {u \in Captured \ {t} :
                   rank[u] < rank[a] \/ (side = "after" /\ u = a)}
  OBVIOUS
<1>5. Order!Place(t, above) /\ RanksApart(rank)'
  <2>2. Captured' = Captured \cup {t} BY <1>1, <1>2
  <2>3. \A u \in Captured \ {t} : rank'[u] < rank'[t] <=> u \in above
    BY <1>0, <1>1, <1>3, <1>4
  <2>4. \A u, v \in Captured \ {t} : rank'[u] < rank'[v] <=> rank[u] < rank[v]
    BY <1>3, <1>4
  <2>. QED BY <1>1, <1>4, <2>2, <2>3, <2>4, PlaceMaps
<1>6. Order!Reorder(t, a)
  <2>1. aboveAnchor = {u \in Captured : rank[u] < rank[a]}
    BY <1>1
  <2>2. above = aboveAnchor \ {t} \/ above = (aboveAnchor \cup {a}) \ {t}
    <3>1. CASE side = "before"
      BY <1>0, <2>1, <3>1
    <3>2. CASE side = "after"
      BY <1>0, <1>1, <2>1, <3>2
    <3>. QED BY <3>1, <3>2
  <2>3. ReadySet' = ReadySet /\ (t \in ReadySet <=> a \in ReadySet)
    BY DEF ReorderTicket, ReadySet
  <2>4. Order!AllAbove(a) = aboveAnchor
    BY DEF Order!AllAbove
  <2>5. \/ Order!Place(t, Order!AllAbove(a) \ {t})
        \/ Order!Place(t, (Order!AllAbove(a) \cup {a}) \ {t})
    <3>1. CASE above = Order!AllAbove(a) \ {t}
      BY <1>5, <3>1 DEF Order!Place
    <3>2. CASE above = (Order!AllAbove(a) \cup {a}) \ {t}
      BY <1>5, <3>2 DEF Order!Place
    <3>. HIDE DEF aboveAnchor
    <3>. QED BY <2>2, <2>4, <3>1, <3>2
  <2>. HIDE DEF aboveAnchor
  <2>. QED BY <1>1, <1>2, <2>3, <2>5 DEF Order!Reorder, ReadySet
<1>7. PriorityTypeOK'
  <2>1. rank' \in [Ticket -> Ranks]
    BY <1>4 DEF InBound
  <2>. QED BY <2>1 DEF ReorderTicket, PriorityInv, PriorityTypeOK, walkVars
<1>8. SkippedStay' /\ HeldIsCaptured'
  BY <1>2, NothingLooked
     DEF SkippedStay, HeldIsCaptured, ReorderTicket, PriorityInv, walkVars
<1>. QED BY <1>5, <1>6, <1>7, <1>8 DEF PriorityInv, Order!Next

\* A claim's passed-over Tickets request no more work when no other row and
\* no Round changes.
LEMMA SkippedKept ==
    ASSUME PriorityTypeOK, SkippedStay, NEW t \in Ticket, RowFree(t),
           UNCHANGED <<openRound, walkVars>>,
           \A u \in Ticket \ {t} :
              /\ status'[u] = status[u]
              /\ archived'[u] = archived[u]
              /\ assignee'[u] = assignee[u]
    PROVE  SkippedStay'
<1>1. t \notin looked /\ looked \subseteq Ticket /\ looked' = looked
  BY DEF PriorityTypeOK, RowFree, walkVars
<1>2. ASSUME NEW u \in looked PROVE ~WorkRequested(u)'
  BY <1>1 DEF SkippedStay, WorkRequested, AgentWorkRequested
<1>. QED BY <1>1, <1>2 DEF SkippedStay

\* Assigning and archiving keep the order, restoring takes a Ticket out of
\* Ready at most.
LEMMA RowMaps ==
    ASSUME PriorityInv, RowStep
    PROVE  [Order!Next]_(Order!vars) /\ PriorityInv'
<1>. USE DEF PriorityInv
<1>1. ASSUME NEW t \in Assignable, NEW kind \in {"none", "research"},
             SetAssignee(t, kind)
      PROVE  [Order!Next]_(Order!vars) /\ PriorityInv'
  <2>1. t \in Ticket BY PriorityAssumption
  <2>2. SkippedStay'
    BY <1>1, <2>1, SkippedKept DEF SetAssignee, PriorityTypeOK
  <2>3. PriorityTypeOK'
    BY <1>1, <2>1 DEF SetAssignee, PriorityTypeOK, walkVars
  <2>4. Captured' = Captured /\ ReadySet' = ReadySet /\ UNCHANGED rank
    BY <1>1 DEF SetAssignee, Captured, ReadySet
  <2>5. HeldIsCaptured'
    BY <1>1, <2>4 DEF SetAssignee, HeldIsCaptured
  <2>. QED BY <2>2, <2>3, <2>4, <2>5, OrderKept DEF Order!vars, ReadySet
<1>2. ASSUME NEW t \in Archivable, ArchiveTicket(t)
      PROVE  [Order!Next]_(Order!vars) /\ PriorityInv'
  <2>1. t \in Ticket BY PriorityAssumption
  <2>2. SkippedStay'
    BY <1>2, <2>1, SkippedKept DEF ArchiveTicket, PriorityTypeOK
  <2>3. PriorityTypeOK'
    BY <1>2, <2>1 DEF ArchiveTicket, PriorityTypeOK, walkVars
  <2>4. Captured' = Captured /\ ReadySet' = ReadySet /\ UNCHANGED rank
    BY <1>2 DEF ArchiveTicket, Captured, ReadySet
  <2>5. HeldIsCaptured'
    BY <1>2, <2>4 DEF ArchiveTicket, HeldIsCaptured
  <2>. QED BY <2>2, <2>3, <2>4, <2>5, OrderKept DEF Order!vars, ReadySet
<1>3. ASSUME NEW t \in Archivable, RestoreTicket(t)
      PROVE  [Order!Next]_(Order!vars) /\ PriorityInv'
  <2>. DEFINE s == IF status[t] = "Ready" THEN "Backlog" ELSE status[t]
  <2>1. t \in Ticket BY PriorityAssumption
  <2>2. SkippedStay'
    BY <1>3, <2>1, SkippedKept DEF RestoreTicket, PriorityTypeOK
  <2>3. status' = [status EXCEPT ![t] = s] /\ UNCHANGED rank
    BY <1>3 DEF RestoreTicket
  <2>4. PriorityTypeOK'
    BY <1>3, <2>1 DEF RestoreTicket, PriorityTypeOK, Statuses, walkVars
  <2>5. CASE t \in Captured
    <3>1. s \in Statuses /\ (s # "Ready" \/ status[t] = "Ready")
      BY <2>5, <2>1 DEF Captured, PriorityTypeOK, Statuses
    <3>2. /\ [Order!Next]_(Order!vars)
          /\ Captured' = Captured
          /\ RanksApart(rank) => RanksApart(rank)'
      BY <2>3, <2>5, <3>1, StatusOnlyMaps
    <3>3. HeldIsCaptured'
      BY <1>3, <3>2 DEF RestoreTicket, HeldIsCaptured
    <3>. QED BY <2>2, <2>4, <3>2, <3>3
  <2>6. CASE t \notin Captured
    <3>1. status' = status
      BY <2>1, <2>3, <2>6 DEF Captured, PriorityTypeOK
    <3>2. Captured' = Captured /\ ReadySet' = ReadySet
      BY <3>1 DEF Captured, ReadySet
    <3>3. HeldIsCaptured'
      BY <1>3, <3>2 DEF RestoreTicket, HeldIsCaptured
    <3>. QED BY <2>2, <2>3, <2>4, <3>2, <3>3, OrderKept DEF Order!vars, ReadySet
  <2>. QED BY <2>5, <2>6
<1>. QED BY <1>1, <1>2, <1>3 DEF RowStep

\* The claim moves nothing in the order, and keeps the rows it passed over.
LEMMA ClaimMaps ==
    ASSUME PriorityInv, ClaimStep
    PROVE  UNCHANGED Order!vars /\ PriorityInv'
<1>. USE DEF PriorityInv
<1>1. UNCHANGED <<status, archived, assignee, rank>>
  BY DEF ClaimStep, ListCandidates, SkipCandidate, ClaimCandidate, ClaimNothing
<1>2. Captured' = Captured /\ ReadySet' = ReadySet
  BY <1>1 DEF Captured, ReadySet
<1>3. UNCHANGED Order!vars /\ RanksApart(rank)'
  BY <1>1, <1>2, OrderKept DEF Order!vars, ReadySet
<1>4. CASE ListCandidates
  <2>1. PriorityTypeOK'
    BY <1>1, <1>4, NothingLooked DEF ListCandidates, PriorityTypeOK, ClaimCandidates
  <2>2. SkippedStay' /\ HeldIsCaptured'
    BY <1>2, <1>4, NothingLooked DEF ListCandidates, SkippedStay, HeldIsCaptured
  <2>. QED BY <1>3, <2>1, <2>2
<1>5. ASSUME NEW t \in Ticket, SkipCandidate(t) PROVE PriorityInv'
  <2>1. PriorityTypeOK'
    BY <1>1, <1>5 DEF SkipCandidate, NextCandidate, PriorityTypeOK
  <2>2. SkippedStay'
    BY <1>1, <1>5 DEF SkipCandidate, SkippedStay, WorkRequested
  <2>3. HeldIsCaptured'
    BY <1>2, <1>5 DEF SkipCandidate, HeldIsCaptured
  <2>. QED BY <1>3, <2>1, <2>2, <2>3
<1>6. ASSUME NEW t \in Ticket, ClaimCandidate(t) PROVE PriorityInv'
  <2>1. t \in Captured
    BY <1>6 DEF ClaimCandidate, WorkRequested, AgentWorkRequested, Captured
  <2>2. PriorityTypeOK'
    BY <1>1, <1>6 DEF ClaimCandidate, EndWalk, PriorityTypeOK
  <2>3. SkippedStay' /\ HeldIsCaptured'
    BY <1>2, <1>6, <2>1 DEF ClaimCandidate, EndWalk, SkippedStay, HeldIsCaptured
  <2>. QED BY <1>3, <2>2, <2>3
<1>7. CASE ClaimNothing
  <2>1. PriorityTypeOK'
    BY <1>1, <1>7 DEF ClaimNothing, EndWalk, PriorityTypeOK
  <2>2. SkippedStay' /\ HeldIsCaptured'
    BY <1>2, <1>7 DEF ClaimNothing, EndWalk, SkippedStay, HeldIsCaptured
  <2>. QED BY <1>3, <2>1, <2>2
<1>. QED BY <1>3, <1>4, <1>5, <1>6, <1>7 DEF ClaimStep

\* A Round takes its Ticket out of Ready at most, and keeps its place.
LEMMA RoundMaps ==
    ASSUME PriorityInv, RoundStep
    PROVE  [Order!Next]_(Order!vars) /\ PriorityInv'
<1>. USE DEF PriorityInv
<1>1. PICK target \in Statuses : RoundGoesOn(target) \/ RoundEnds(target)
  BY DEF RoundStep
<1>2. /\ openRound \in Captured /\ openRound \in Ticket /\ target # "Ready"
      /\ LockFree /\ UNCHANGED <<archived, assignee, rank, walkVars>>
      /\ openRound' \in {openRound, NoTicket}
      /\ status' = [status EXCEPT ![openRound] = target]
  BY <1>1 DEF RoundGoesOn, RoundEnds, HeldIsCaptured, Captured
<1>3. /\ [Order!Next]_(Order!vars)
      /\ Captured' = Captured
      /\ RanksApart(rank) => RanksApart(rank)'
  BY <1>2, StatusOnlyMaps
<1>4. PriorityTypeOK'
  BY <1>2 DEF PriorityTypeOK, walkVars, LockFree
<1>5. SkippedStay' /\ HeldIsCaptured'
  BY <1>2, <1>3, NothingLooked DEF SkippedStay, HeldIsCaptured, walkVars
<1>. QED BY <1>3, <1>4, <1>5

-----------------------------------------------------------------------------
(* The theorems.                                                           *)

\* Nothing is captured at first.
LEMMA PriorityInvInit == Init => PriorityInv
<1>. SUFFICES ASSUME Init PROVE PriorityInv
  OBVIOUS
<1>1. Captured = {} /\ looked = {}
  BY DEF Init, Captured
<1>2. 0 \in Ranks
  BY PriorityAssumption DEF Ranks
<1>3. PriorityTypeOK
  BY <1>2 DEF Init, PriorityTypeOK
<1>. QED BY <1>1, <1>3 DEF Init, PriorityInv, RanksApart, SkippedStay, HeldIsCaptured

\* Every step keeps the invariant and is a step of OwnerOrder or a stutter.
LEMMA PriorityInvStep ==
    PriorityInv /\ [Next]_vars => PriorityInv' /\ [Order!Next]_(Order!vars)
<1>. SUFFICES ASSUME PriorityInv, [Next]_vars
              PROVE  PriorityInv' /\ [Order!Next]_(Order!vars)
  OBVIOUS
<1>1. CASE RankStep /\ InBound
  <2>1. ASSUME NEW t \in Ticket, CaptureTicket(t)
        PROVE  PriorityInv' /\ [Order!Next]_(Order!vars)
    BY <1>1, <2>1, CaptureMaps
  <2>2. ASSUME NEW t \in Ticket, NEW target \in Statuses,
               TransitionLockedTicket(t, target)
        PROVE  PriorityInv' /\ [Order!Next]_(Order!vars)
    BY <1>1, <2>2, TransitionMaps
  <2>3. ASSUME NEW t \in Ticket, NEW a \in Ticket, NEW side \in {"before", "after"},
               ReorderTicket(t, a, side)
        PROVE  PriorityInv' /\ [Order!Next]_(Order!vars)
    BY <1>1, <2>3, ReorderMaps
  <2>. QED BY <1>1, <2>1, <2>2, <2>3 DEF RankStep
<1>2. CASE RowStep
  BY <1>2, RowMaps
<1>3. CASE ClaimStep
  BY <1>3, ClaimMaps
<1>4. CASE RoundStep
  BY <1>4, RoundMaps
<1>5. CASE UNCHANGED vars
  <2>1. Captured' = Captured /\ ReadySet' = ReadySet /\ UNCHANGED rank
    BY <1>5 DEF vars, Captured, ReadySet
  <2>2. UNCHANGED Order!vars /\ RanksApart(rank)'
    BY <2>1, OrderKept DEF Order!vars, ReadySet, PriorityInv
  <2>3. PriorityTypeOK' /\ SkippedStay' /\ HeldIsCaptured'
    BY <1>5, <2>1 DEF vars, PriorityInv, PriorityTypeOK, SkippedStay, WorkRequested,
                      HeldIsCaptured
  <2>. QED BY <2>2, <2>3 DEF PriorityInv
<1>. QED BY <1>1, <1>2, <1>3, <1>4, <1>5 DEF Next

\* Ranks stay distinct, and what a claim passed over stays unasking.
THEOREM PriorityInvariant == Spec => []PriorityInv
<1>1. PriorityInv /\ [Next]_vars => PriorityInv'
  BY PriorityInvStep
<1>. QED BY <1>1, PriorityInvInit, PTL DEF Spec

\* Every reachable state of the order is of its type.
THEOREM PriorityTypeCorrect == Spec => []PriorityTypeOK
<1>1. PriorityInv => PriorityTypeOK
  BY DEF PriorityInv
<1>. QED BY <1>1, PriorityInvariant, PTL

\* Ranks, gaps and renumbering implement the Owner's order, for any number of
\* Tickets and any spacing of two or more.
THEOREM ImplementsOrder == Spec => OrderSpec
<1>1. Init => Order!Init
  BY DEF Init, Order!Init, Captured
<1>2. PriorityInv /\ [Next]_vars => [Order!Next]_(Order!vars)
  BY PriorityInvStep
<1>. QED BY <1>1, <1>2, PriorityInvariant, PTL DEF Spec, OrderSpec, Order!Spec

\* An accepted reorder always finds room, renumbering if it has to.
THEOREM ReorderFindsRoomHolds == Spec => []ReorderFindsRoom
<1>1. PriorityInv => ReorderFindsRoom
  BY RanksAreIntegers, RenumberedHasRoom DEF PriorityInv, ReorderFindsRoom
<1>. QED BY <1>1, PriorityInvariant, PTL

\* A claim takes the first of the Tickets that asked when it listed them.
THEOREM ClaimTakesTheFirstHolds == Spec => ClaimTakesTheFirst
<1>. DEFINE TakesFirst ==
        \A t \in Ticket : openRound = NoTicket /\ openRound' = t =>
          /\ WorkRequested(t)
          /\ \A u \in Ticket : rank[u] < rank[t] /\ WorkRequested(u)
                => u \notin candidates
<1>1. PriorityInv /\ [Next]_vars => [TakesFirst]_vars
  <2>. SUFFICES ASSUME PriorityInv, Next, NEW t \in Ticket,
                       openRound = NoTicket, openRound' = t
                PROVE  /\ WorkRequested(t)
                       /\ \A u \in Ticket : rank[u] < rank[t] /\ WorkRequested(u)
                             => u \notin candidates
    BY DEF vars
  <2>1. openRound' # openRound
    BY PriorityAssumption
  <2>2. ~(RankStep \/ RowStep \/ RoundStep)
    BY <2>1 DEF RankStep, CaptureTicket, TransitionLockedTicket, ReorderTicket,
       RowStep, SetAssignee, ArchiveTicket, RestoreTicket, RoundStep, RoundGoesOn,
       RoundEnds
  <2>3. ClaimCandidate(t)
    BY <2>1, <2>2 DEF Next, ClaimStep, ListCandidates, SkipCandidate,
       ClaimNothing, ClaimCandidate
  <2>4. ASSUME NEW u \in candidates, rank[u] < rank[t], WorkRequested(u)
        PROVE  FALSE
    <3>1. u \notin looked
      BY <2>4 DEF PriorityInv, SkippedStay
    <3>2. rank[t] <= rank[u]
      BY <2>3, <3>1 DEF ClaimCandidate, NextCandidate
    <3>3. rank[t] \in Int /\ rank[u] \in Int
      BY RanksAreIntegers DEF PriorityInv, PriorityTypeOK
    <3>. QED BY <2>4, <3>2, <3>3
  <2>. QED BY <2>3, <2>4 DEF ClaimCandidate
<1>. QED BY <1>1, PriorityInvariant, PTL DEF Spec, ClaimTakesTheFirst
=============================================================================
