------------------------ MODULE ServiceRecord_proofs ------------------------
(* Proofs about ServiceRecord. *)
EXTENDS ServiceRecord, TLAPS, FiniteSetTheorems, WellFoundedInduction

-----------------------------------------------------------------------------
(* Numbers and sets of them.  Induction is by least counterexample. *)

\* A set of natural numbers that is not empty has a least element: the intervals
\* 0..m up to its elements are finite sets, which proper inclusion orders well.
LEMMA Least ==
    ASSUME NEW T, T \subseteq Nat, T # {}
    PROVE  \E m \in T : \A k \in T : m <= k
<1> DEFINE Up == {0..m : m \in T}
<1>1. Up \subseteq FiniteSubsetsOf(Nat)
  <2>1. \A m \in Nat : IsFiniteSet(0..m)
    BY FS_Interval
  <2> QED
    BY <2>1 DEF FiniteSubsetsOf
<1>2. Up # {}
  OBVIOUS
<1>3. PICK X \in Up : \A Y \in Up : <<Y, X>> \notin StrictSubsetOrdering(Nat)
  <2> HIDE DEF Up
  <2> QED
    BY <1>1, <1>2, FS_StrictSubsetOrderingWellFounded, WFMin
<1>4. PICK m \in T : X = 0..m
  OBVIOUS
<1>5. ASSUME NEW k \in T, ~(m <= k)
      PROVE  FALSE
  <2>1. 0..k \subseteq 0..m /\ m \notin 0..k /\ m \in 0..m
    BY <1>5
  <2>2. 0..k \in Up
    OBVIOUS
  <2>3. <<0..k, 0..m>> \in StrictSubsetOrdering(Nat)
    BY <2>1 DEF StrictSubsetOrdering
  <2> QED
    BY <1>3, <1>4, <2>2, <2>3
<1> QED
  BY <1>5

\* Min and Max of a set of numbers are in it, if it has a member (and a bound).
LEMMA MinIsLeast ==
    ASSUME NEW T, T \subseteq Nat, T # {}
    PROVE  Min(T) \in T /\ \A k \in T : Min(T) <= k
BY Least DEF Min

LEMMA MaxIsGreatest ==
    ASSUME NEW T, T \subseteq Nat, T # {}, NEW n \in Nat, \A k \in T : k <= n
    PROVE  Max(T) \in T /\ \A k \in T : k <= Max(T)
<1> DEFINE Down == {n - k : k \in T}
<1>1. Down \subseteq Nat /\ Down # {}
  <2>1. \A k \in T : n - k \in Nat
    OBVIOUS
  <2> QED
    BY <2>1
<1>2. PICK d \in Down : \A k \in Down : d <= k
  <2> HIDE DEF Down
  <2> QED
    BY <1>1, Least
<1>3. PICK m \in T : d = n - m
  OBVIOUS
<1>4. \A k \in T : k <= m
  <2> TAKE k \in T
  <2>1. n - m <= n - k
    BY <1>2, <1>3
  <2> QED
    BY <2>1
<1>5. \A k \in T : m >= k
  BY <1>4
<1> QED
  BY <1>5 DEF Max

-----------------------------------------------------------------------------
(* The loop of ApronService::update over the providers of the body. *)

\* The loop is well defined: after each turn there is one list of providers.
LEMMA LoopDefined ==
    ASSUME NEW old, NEW new, Len(new) \in Nat
    PROVE  \E g : /\ g = [n \in 0..Len(new) |->
                             IF n = 0 THEN old ELSE AddProvider(g[n - 1], new[n])]
                  /\ AddProviders(old, new) = g[Len(new)]
<1> DEFINE Turns(N, g) ==
        g = [n \in 0..N |-> IF n = 0 THEN old ELSE AddProvider(g[n - 1], new[n])]
           Missing == {N \in Nat : ~\E g : Turns(N, g)}
<1>1. ASSUME Missing # {}
      PROVE  FALSE
  <2>1. PICK N \in Missing : \A M \in Missing : N <= M
    <3>1. Missing \subseteq Nat
      OBVIOUS
    <3> HIDE DEF Missing
    <3> QED
      BY <1>1, <3>1, Least
  <2>2. CASE N = 0
    <3>1. Turns(0, [n \in 0..0 |-> old])
      OBVIOUS
    <3> QED
      BY <2>1, <2>2, <3>1
  <2>3. CASE N # 0
    <3>1. N \in Nat /\ N - 1 \in Nat /\ ~(N <= N - 1)
      BY <2>1, <2>3
    <3>2. N - 1 \notin Missing
      BY <2>1, <3>1
    <3>3. PICK g : Turns(N - 1, g)
      BY <3>1, <3>2
    <3> DEFINE h == [n \in 0..N |-> IF n = N THEN AddProvider(g[N - 1], new[N]) ELSE g[n]]
    <3>4. \A n \in 0..N : n # N => n \in 0..(N - 1) /\ h[n] = g[n]
      BY <3>1
    <3>5. ASSUME NEW n \in 0..N
          PROVE  h[n] = IF n = 0 THEN old ELSE AddProvider(h[n - 1], new[n])
      <4>1. CASE n = 0
        <5>1. h[0] = g[0] /\ g[0] = old
          BY <2>3, <3>1, <3>3, <3>4
        <5> QED
          BY <4>1, <5>1
      <4>2. CASE n # 0
        <5>1. n - 1 \in 0..N /\ n - 1 # N
          BY <3>1, <4>2
        <5>2. h[n - 1] = g[n - 1]
          BY <3>4, <5>1
        <5>3. h[n] = AddProvider(g[n - 1], new[n])
          <6>1. CASE n = N
            BY <6>1
          <6>2. CASE n # N
            <7>1. n \in 0..(N - 1) /\ h[n] = g[n]
              BY <3>4, <6>2
            <7>2. g[n] = IF n = 0 THEN old ELSE AddProvider(g[n - 1], new[n])
              BY <3>3, <7>1
            <7> QED
              BY <4>2, <7>1, <7>2
          <6> QED
            BY <6>1, <6>2
        <5> QED
          BY <4>2, <5>2, <5>3
      <4> QED
        BY <4>1, <4>2
    <3>6. h = [n \in 0..N |-> h[n]]
      OBVIOUS
    <3>7. Turns(N, h)
      <4> HIDE DEF h
      <4> QED
        BY <3>5, <3>6
    <3> QED
      BY <2>1, <3>7
  <2> QED
    BY <2>2, <2>3
<1>2. \E g : Turns(Len(new), g)
  BY <1>1
<1>3. Turns(Len(new), CHOOSE g : Turns(Len(new), g))
  <2> HIDE DEF Turns
  <2> QED
    BY <1>2
<1> QED
  BY <1>3 DEF AddProviders

\* What holds of the old list, and is kept by a turn, holds of the merged list.
LEMMA LoopReaches ==
    ASSUME NEW old, NEW new, Len(new) \in Nat, NEW Good,
           old \in Good[0],
           \A n \in 1..Len(new) :
               \A list \in Good[n - 1] : AddProvider(list, new[n]) \in Good[n]
    PROVE  AddProviders(old, new) \in Good[Len(new)]
<1>1. PICK g : /\ g = [n \in 0..Len(new) |->
                          IF n = 0 THEN old ELSE AddProvider(g[n - 1], new[n])]
               /\ AddProviders(old, new) = g[Len(new)]
  BY LoopDefined
<1> DEFINE Bad == {n \in 0..Len(new) : g[n] \notin Good[n]}
<1>2. ASSUME Bad # {}
      PROVE  FALSE
  <2>1. PICK n \in Bad : \A m \in Bad : n <= m
    <3>1. Bad \subseteq Nat
      OBVIOUS
    <3> HIDE DEF Bad
    <3> QED
      BY <1>2, <3>1, Least
  <2>2. g[0] = old
    BY <1>1
  <2>3. n # 0
    BY <2>1, <2>2
  <2>4. n \in 1..Len(new) /\ n - 1 \in 0..Len(new) /\ ~(n <= n - 1)
    BY <2>1, <2>3
  <2>5. g[n - 1] \in Good[n - 1]
    BY <2>1, <2>4
  <2>6. g[n] = AddProvider(g[n - 1], new[n])
    BY <1>1, <2>4
  <2> QED
    BY <2>1, <2>4, <2>5, <2>6
<1>3. g[Len(new)] \in Good[Len(new)]
  BY <1>2
<1> QED
  BY <1>1, <1>3

\* What a turn of the loop keeps, the loop keeps.
LEMMA LoopKeeps ==
    ASSUME NEW old, NEW new, Len(new) \in Nat, NEW Good, old \in Good,
           \A n \in DOMAIN new, list \in Good : AddProvider(list, new[n]) \in Good,
           DOMAIN new = 1..Len(new)
    PROVE  AddProviders(old, new) \in Good
<1> DEFINE G == [n \in 0..Len(new) |-> Good]
<1>1. \A n \in 0..Len(new) : G[n] = Good
  OBVIOUS
<1>2. old \in G[0]
  BY <1>1
<1>3. \A n \in 1..Len(new) :
         \A list \in G[n - 1] : AddProvider(list, new[n]) \in G[n]
  <2> TAKE n \in 1..Len(new)
  <2>1. n - 1 \in 0..Len(new) /\ n \in 0..Len(new)
    OBVIOUS
  <2> QED
    BY <1>1, <2>1
<1>4. AddProviders(old, new) \in G[Len(new)]
  <2> HIDE DEF G
  <2> QED
    BY <1>2, <1>3, LoopReaches
<1> QED
  BY <1>4

-----------------------------------------------------------------------------
(* One turn of the loop. *)

\* A merged provider is a provider, field by field the old one or the new one.
LEMMA MergeType ==
    ASSUME NEW old \in ProviderRecords, NEW new \in ProviderRecords
    PROVE  /\ Merge(old, new) \in ProviderRecords
           /\ \A f \in ProviderFields :
                 Merge(old, new)[f] = IF new[f] = None THEN old[f] ELSE new[f]
BY DEF Merge, ProviderRecords

\* A turn updates the first provider with the id, or pushes a new one.
LEMMA AddProviderCases ==
    ASSUME NEW stored \in Seq(ProviderRecords), NEW p \in ProviderRecords
    PROVE  \/ p.id \notin Ids(stored) /\ AddProvider(stored, p) = Append(stored, p)
           \/ \E k \in DOMAIN stored :
                 /\ stored[k].id = p.id
                 /\ AddProvider(stored, p) = [stored EXCEPT ![k] = Merge(stored[k], p)]
<1> DEFINE I == {i \in 1..Len(stored) : stored[i].id = p.id}
<1>1. CASE I = {}
  <2>1. ~\E i \in DOMAIN stored : stored[i].id = p.id
    BY <1>1
  <2>2. p.id \notin Ids(stored)
    BY <2>1 DEF Ids
  <2>3. AddProvider(stored, p) = Append(stored, p)
    BY <2>1 DEF AddProvider
  <2> QED
    BY <2>2, <2>3
<1>2. CASE I # {}
  <2>1. Min(I) \in I
    <3>1. I \subseteq Nat
      OBVIOUS
    <3> HIDE DEF I
    <3> QED
      BY <1>2, <3>1, MinIsLeast
  <2>2. \E i \in DOMAIN stored : stored[i].id = p.id
    BY <1>2
  <2>3. SelectInSeq(stored, LAMBDA q : q.id = p.id) = Min(I)
    BY <1>2 DEF SelectInSeq
  <2>4. AddProvider(stored, p) = [stored EXCEPT ![Min(I)] = Merge(stored[Min(I)], p)]
    <3> HIDE DEF I
    <3> QED
      BY <2>2, <2>3 DEF AddProvider
  <2>5. Min(I) \in DOMAIN stored /\ stored[Min(I)].id = p.id
    BY <2>1
  <2> QED
    BY <2>4, <2>5
<1> QED
  BY <1>1, <1>2

\* The loop makes lists of providers.
LEMMA AddProviderType ==
    ASSUME NEW stored \in Seq(ProviderRecords), NEW p \in ProviderRecords
    PROVE  AddProvider(stored, p) \in Seq(ProviderRecords)
<1>1. ASSUME NEW k \in DOMAIN stored
      PROVE  [stored EXCEPT ![k] = Merge(stored[k], p)] \in Seq(ProviderRecords)
  <2>1. stored[k] \in ProviderRecords
    OBVIOUS
  <2> QED
    BY <2>1, MergeType
<1> QED
  BY <1>1, AddProviderCases

LEMMA AddProvidersType ==
    ASSUME NEW old \in Seq(ProviderRecords), NEW new \in Seq(ProviderRecords)
    PROVE  AddProviders(old, new) \in Seq(ProviderRecords)
<1>1. \A n \in DOMAIN new, list \in Seq(ProviderRecords) :
         AddProvider(list, new[n]) \in Seq(ProviderRecords)
  BY AddProviderType
<1> QED
  BY <1>1, LoopKeeps

-----------------------------------------------------------------------------
(* The latest value of a field. *)

\* A set of numbers with a greatest one, if it has any.
Bounded(chosen) == \E n \in Nat : chosen \subseteq 0..n

\* The two lists have the same records at the chosen places.
Agree(list, longer, chosen) == \A i \in chosen : longer[i] = list[i]

\* All numbers in the set are those chosen and a greater one.
OneMore(all, chosen, n) ==
    n \in Nat /\ all = chosen \cup {n} /\ \A i \in chosen : i \in Nat /\ i < n

\* The latest value depends on the chosen records only.
LEMMA LatestSame ==
    ASSUME NEW list, NEW longer, NEW chosen, NEW f, Bounded(chosen),
           Agree(list, longer, chosen)
    PROVE  Latest(longer, chosen, f) = Latest(list, chosen, f)
<1> USE DEF Agree
<1> PICK n \in Nat : chosen \subseteq 0..n
  BY DEF Bounded
<1> DEFINE I == {i \in chosen : list[i][f] # None}
<1>1. {i \in chosen : longer[i][f] # None} = I
  OBVIOUS
<1>2. CASE I = {}
  BY <1>1, <1>2 DEF Latest
<1>3. CASE I # {}
  <2>1. Max(I) \in I
    <3>1. \A i \in 0..n : i \in Nat /\ i <= n
      OBVIOUS
    <3>2. I \subseteq 0..n
      OBVIOUS
    <3> HIDE DEF I
    <3>3. I \subseteq Nat /\ \A i \in I : i <= n
      BY <3>1, <3>2
    <3> QED
      BY <1>3, <3>3, MaxIsGreatest
  <2>2. longer[Max(I)] = list[Max(I)]
    BY <2>1
  <2> HIDE DEF I
  <2>3. Latest(longer, chosen, f) = longer[Max(I)][f]
    BY <1>1, <1>3 DEF Latest
  <2>4. Latest(list, chosen, f) = list[Max(I)][f]
    BY <1>3 DEF Latest, I
  <2> QED
    BY <2>2, <2>3, <2>4
<1> QED
  BY <1>2, <1>3

\* A record behind the chosen ones replaces the fields that it has.
LEMMA LatestNext ==
    ASSUME NEW list, NEW longer, NEW chosen, NEW f, NEW n, NEW all,
           OneMore(all, chosen, n), Agree(list, longer, chosen)
    PROVE  /\ longer[n][f] = None => Latest(longer, all, f) = Latest(list, chosen, f)
           /\ longer[n][f] # None => Latest(longer, all, f) = longer[n][f]
<1> SUFFICES Latest(longer, chosen \cup {n}, f) =
               IF longer[n][f] = None THEN Latest(list, chosen, f) ELSE longer[n][f]
  BY DEF OneMore
<1> USE DEF OneMore, Agree
<1> DEFINE I == {i \in chosen \cup {n} : longer[i][f] # None}
<1>1. CASE longer[n][f] = None
  <2>1. I = {i \in chosen : longer[i][f] # None}
    BY <1>1
  <2>2. Latest(longer, chosen \cup {n}, f) = Latest(longer, chosen, f)
    BY <2>1 DEF Latest
  <2>3. Bounded(chosen)
    <3>1. \A i \in chosen : i \in Nat /\ i < n
      OBVIOUS
    <3>2. \A i \in Nat : i < n => i \in 0..n
      OBVIOUS
    <3>3. chosen \subseteq 0..n
      BY <3>1, <3>2
    <3> QED
      BY <3>3 DEF Bounded
  <2>4. Agree(list, longer, chosen)
    OBVIOUS
  <2>5. Latest(longer, chosen, f) = Latest(list, chosen, f)
    BY <2>3, <2>4, LatestSame
  <2> QED
    BY <1>1, <2>2, <2>5
<1>2. CASE longer[n][f] # None
  <2>1. n \in I
    BY <1>2
  <2>2. I \subseteq Nat /\ I # {} /\ \A i \in I : i <= n
    <3>1. \A i \in chosen \cup {n} : i \in Nat /\ (i < n \/ i = n)
      OBVIOUS
    <3>2. \A i \in Nat : i < n \/ i = n => i <= n
      OBVIOUS
    <3>3. \A i \in I : i \in chosen \cup {n}
      OBVIOUS
    <3> QED
      BY <2>1, <3>1, <3>2, <3>3
  <2>3. Max(I) \in I /\ n <= Max(I)
    <3> HIDE DEF I
    <3> QED
      BY <2>1, <2>2, MaxIsGreatest
  <2>4. Max(I) = n
    BY <2>2, <2>3
  <2>5. Latest(longer, chosen \cup {n}, f) = longer[Max(I)][f]
    BY <2>2 DEF Latest
  <2> QED
    BY <1>2, <2>4, <2>5
<1> QED
  BY <1>1, <1>2

\* Nothing was given by nobody.
LEMMA LatestNone ==
    ASSUME NEW list, NEW f
    PROVE  Latest(list, {}, f) = None
BY DEF Latest

-----------------------------------------------------------------------------
(* The places of an id in a list. *)

\* The places of an id are numbers, and a provider more is a place of its id.
LEMMA PlacesType ==
    ASSUME NEW list \in Seq(ProviderRecords), NEW id
    PROVE  /\ Places(list, id) \subseteq Nat
           /\ Places(list, id) \subseteq 1..Len(list)
           /\ \A i \in Places(list, id) : i <= Len(list)
           /\ Places(list, id) # {} <=> id \in Ids(list)
BY DEF Places, Ids

LEMMA PlacesAppend ==
    ASSUME NEW list \in Seq(ProviderRecords), NEW p \in ProviderRecords, NEW id
    PROVE  Places(Append(list, p), id) =
               IF p.id = id THEN Places(list, id) \cup {Len(list) + 1} ELSE Places(list, id)
<1>1. DOMAIN Append(list, p) = DOMAIN list \cup {Len(list) + 1}
  OBVIOUS
<1>2. \A i \in DOMAIN list : Append(list, p)[i] = list[i]
  OBVIOUS
<1>3. Append(list, p)[Len(list) + 1] = p
  OBVIOUS
<1> QED
  BY <1>1, <1>2, <1>3 DEF Places

\* The ids of a list with a provider more.
LEMMA IdsAppend ==
    ASSUME NEW list \in Seq(ProviderRecords), NEW p \in ProviderRecords
    PROVE  Ids(Append(list, p)) = Ids(list) \cup {p.id}
<1>1. DOMAIN Append(list, p) = DOMAIN list \cup {Len(list) + 1}
  OBVIOUS
<1>2. \A i \in DOMAIN list : Append(list, p)[i] = list[i]
  OBVIOUS
<1>3. Append(list, p)[Len(list) + 1] = p
  OBVIOUS
<1> QED
  BY <1>1, <1>2, <1>3 DEF Ids

\* An id keeps its first place when the list grows.
LEMMA FirstKept ==
    ASSUME NEW list \in Seq(ProviderRecords), NEW p \in ProviderRecords, NEW id \in Ids(list)
    PROVE  Min(Places(Append(list, p), id)) = Min(Places(list, id))
<1> DEFINE I == Places(list, id)
           J == Places(Append(list, p), id)
<1>1. I \subseteq Nat /\ I # {} /\ \A i \in I : i <= Len(list)
  BY PlacesType
<1>2. J = I \/ J = I \cup {Len(list) + 1}
  BY PlacesAppend
<1>3. J \subseteq Nat /\ J # {} /\ I \subseteq J
  BY <1>1, <1>2
<1> HIDE DEF I, J
<1>4. Min(I) \in I /\ \A i \in I : Min(I) <= i
  BY <1>1, MinIsLeast
<1>5. Min(J) \in J /\ \A i \in J : Min(J) <= i
  BY <1>3, MinIsLeast
<1>6. Min(J) <= Min(I)
  BY <1>3, <1>4, <1>5
<1>7. Min(J) \in I
  <2>1. Min(I) <= Len(list) /\ Min(I) \in Nat /\ Min(J) \in Nat
    BY <1>1, <1>3, <1>4, <1>5
  <2>2. Min(J) # Len(list) + 1
    BY <1>6, <2>1
  <2> QED
    BY <1>2, <1>5, <2>2
<1>8. Min(I) = Min(J)
  <2>1. Min(I) <= Min(J) /\ Min(I) \in Nat /\ Min(J) \in Nat
    BY <1>1, <1>3, <1>4, <1>5, <1>7
  <2> QED
    BY <1>6, <2>1
<1> QED
  BY <1>8 DEF I, J

-----------------------------------------------------------------------------
(* A turn of the loop keeps the stored providers merged. *)

\* What Latest says of a list that has grown by one provider.
LEMMA LatestAppend ==
    ASSUME NEW list \in Seq(ProviderRecords), NEW p \in ProviderRecords, NEW id, NEW f
    PROVE  Latest(Append(list, p), Places(Append(list, p), id), f) =
               IF p.id = id /\ p[f] # None THEN p[f] ELSE Latest(list, Places(list, id), f)
<1> DEFINE longer == Append(list, p)
           I == Places(list, id)
           n == Len(list) + 1
<1>1. I \subseteq Nat /\ I \subseteq 1..Len(list) /\ n \in Nat
  BY PlacesType
<1>2. longer[n] = p /\ \A i \in 1..Len(list) : longer[i] = list[i]
  OBVIOUS
<1>3. Agree(list, longer, I)
  BY <1>1, <1>2 DEF Agree
<1>4. CASE p.id = id
  <2>1. Places(longer, id) = I \cup {n}
    BY <1>4, PlacesAppend
  <2> DEFINE J == Places(longer, id)
  <2> HIDE DEF longer, I, J, n
  <2>0. J = I \cup {n}
    BY <2>1 DEF I, J, n, longer
  <2>2. OneMore(J, I, n)
    BY <1>1, <2>0 DEF OneMore, n
  <2>3. /\ longer[n][f] = None => Latest(longer, J, f) = Latest(list, I, f)
        /\ longer[n][f] # None => Latest(longer, J, f) = longer[n][f]
    BY <1>3, <2>2, LatestNext
  <2> QED
    BY <1>2, <1>4, <2>3 DEF longer, I, J
<1>5. CASE p.id # id
  <2>1. Places(longer, id) = I
    BY <1>5, PlacesAppend
  <2>2. Bounded(I)
    <3>1. I \subseteq 0..Len(list)
      BY <1>1
    <3> QED
      BY <3>1 DEF Bounded
  <2> HIDE DEF longer, I, n
  <2>3. Latest(longer, I, f) = Latest(list, I, f)
    BY <1>3, <2>2, LatestSame
  <2> QED
    BY <1>5, <2>1, <2>3 DEF longer, I
<1> QED
  BY <1>4, <1>5

\* The turn updates a stored provider.
LEMMA MergedUpdate ==
    ASSUME NEW stored \in Seq(ProviderRecords), NEW list \in Seq(ProviderRecords),
           NEW p \in ProviderRecords, MergedFrom(stored, list),
           NEW k \in DOMAIN stored, stored[k].id = p.id
    PROVE  MergedFrom([stored EXCEPT ![k] = Merge(stored[k], p)], Append(list, p))
<1> DEFINE new == [stored EXCEPT ![k] = Merge(stored[k], p)]
           longer == Append(list, p)
<1>1. \A i \in DOMAIN stored : stored[i] \in ProviderRecords
  OBVIOUS
<1>2. \A f \in ProviderFields : new[k][f] = IF p[f] = None THEN stored[k][f] ELSE p[f]
  BY <1>1, MergeType
<1>3. DOMAIN new = DOMAIN stored /\ \A i \in DOMAIN stored : i # k => new[i] = stored[i]
  OBVIOUS
<1> HIDE DEF new
<1>4. \A i \in DOMAIN stored : new[i].id = stored[i].id
  <2>1. new[k].id = stored[k].id
    BY <1>2 DEF ProviderFields
  <2> QED
    BY <1>3, <2>1
<1>5. DistinctIds(stored) /\ Ids(stored) = Ids(list)
  BY DEF MergedFrom
<1>6. DistinctIds(new)
  BY <1>3, <1>4, <1>5 DEF DistinctIds
<1>7. Ids(new) = Ids(longer)
  <2>1. Ids(new) = Ids(stored)
    BY <1>3, <1>4 DEF Ids
  <2>2. p.id \in Ids(stored)
    BY DEF Ids
  <2>3. Ids(longer) = Ids(list) \cup {p.id}
    BY IdsAppend
  <2> QED
    BY <1>5, <2>1, <2>2, <2>3
<1>8. ASSUME NEW i \in DOMAIN new, NEW f \in ProviderFields
      PROVE  new[i][f] = Latest(longer, Places(longer, new[i].id), f)
  <2> DEFINE id == stored[i].id
  <2>1. new[i].id = id
    BY <1>3, <1>4
  <2>2. stored[i][f] = Latest(list, Places(list, id), f)
    BY <1>3 DEF MergedFrom
  <2>3. Latest(longer, Places(longer, id), f) =
            IF p.id = id /\ p[f] # None THEN p[f] ELSE Latest(list, Places(list, id), f)
    BY LatestAppend
  <2>4. p.id = id <=> i = k
    BY <1>3, <1>5 DEF DistinctIds
  <2> HIDE DEF id, longer
  <2> QED
    BY <1>2, <1>3, <2>1, <2>2, <2>3, <2>4
<1>9. ASSUME NEW i \in DOMAIN new, NEW j \in DOMAIN new, i < j
      PROVE  Min(Places(longer, new[i].id)) < Min(Places(longer, new[j].id))
  <2>1. new[i].id = stored[i].id /\ new[j].id = stored[j].id
    BY <1>3, <1>4
  <2>2. stored[i].id \in Ids(list) /\ stored[j].id \in Ids(list)
    BY <1>3, <1>5 DEF Ids
  <2>3. Min(Places(list, stored[i].id)) < Min(Places(list, stored[j].id))
    BY <1>3, <1>9 DEF MergedFrom
  <2> QED
    BY <2>1, <2>2, <2>3, FirstKept
<1>10. MergedFrom(new, longer)
  <2> HIDE DEF longer
  <2> QED
    BY <1>6, <1>7, <1>8, <1>9 DEF MergedFrom
<1> QED
  BY <1>10 DEF new

\* The turn stores a provider with a new id.
LEMMA MergedPush ==
    ASSUME NEW stored \in Seq(ProviderRecords), NEW list \in Seq(ProviderRecords),
           NEW p \in ProviderRecords, MergedFrom(stored, list), p.id \notin Ids(stored)
    PROVE  MergedFrom(Append(stored, p), Append(list, p))
<1> DEFINE new == Append(stored, p)
           longer == Append(list, p)
           n == Len(stored) + 1
<1>1. DOMAIN new = DOMAIN stored \cup {n} /\ n \notin DOMAIN stored
  OBVIOUS
<1>2. new[n] = p /\ \A i \in DOMAIN stored : new[i] = stored[i]
  OBVIOUS
<1>3. \A i \in DOMAIN stored : i \in Nat /\ i < n
  OBVIOUS
<1>4. DistinctIds(stored) /\ Ids(stored) = Ids(list)
  BY DEF MergedFrom
<1>5. \A i \in DOMAIN stored : stored[i].id # p.id /\ stored[i].id \in Ids(list)
  BY <1>4 DEF Ids
<1>6. Ids(new) = Ids(longer)
  BY <1>4, IdsAppend
<1> HIDE DEF new, n
<1>7. DistinctIds(new)
  BY <1>1, <1>2, <1>4, <1>5 DEF DistinctIds
<1>8. Places(list, p.id) = {}
  BY <1>4, PlacesType
<1>9. ASSUME NEW i \in DOMAIN new, NEW f \in ProviderFields
      PROVE  new[i][f] = Latest(longer, Places(longer, new[i].id), f)
  <2>1. \A id : Latest(longer, Places(longer, id), f) =
            IF p.id = id /\ p[f] # None THEN p[f] ELSE Latest(list, Places(list, id), f)
    BY LatestAppend
  <2> HIDE DEF longer
  <2>2. CASE i = n
    <3>1. Latest(list, Places(list, p.id), f) = None
      BY <1>8, LatestNone
    <3> QED
      BY <1>2, <2>1, <2>2, <3>1
  <2>3. CASE i \in DOMAIN stored
    <3>1. stored[i][f] = Latest(list, Places(list, stored[i].id), f)
      BY <2>3 DEF MergedFrom
    <3> QED
      BY <1>2, <1>5, <2>1, <2>3, <3>1
  <2> QED
    BY <1>1, <2>2, <2>3
<1>10. ASSUME NEW i \in DOMAIN new, NEW j \in DOMAIN new, i < j
       PROVE  Min(Places(longer, new[i].id)) < Min(Places(longer, new[j].id))
  <2>1. i \in DOMAIN stored /\ i \in Nat
    <3>1. CASE i = n
      <4>1. n \in Nat
        BY DEF n
      <4>2. j # n
        BY <1>10, <3>1, <4>1
      <4>3. j \in DOMAIN stored
        BY <1>1, <4>2
      <4>4. j \in Nat /\ j < n
        BY <1>3, <4>3
      <4> QED
        BY <1>10, <3>1, <4>1, <4>4
    <3>2. CASE i \in DOMAIN stored
      BY <1>3, <3>2
    <3> QED
      BY <1>1, <3>1, <3>2
  <2>2. Min(Places(longer, stored[i].id)) = Min(Places(list, stored[i].id))
    BY <1>5, <2>1, FirstKept
  <2>3. CASE j \in DOMAIN stored
    <3>1. Min(Places(longer, stored[j].id)) = Min(Places(list, stored[j].id))
      BY <1>5, <2>3, FirstKept
    <3>2. Min(Places(list, stored[i].id)) < Min(Places(list, stored[j].id))
      BY <1>10, <2>1, <2>3 DEF MergedFrom
    <3> QED
      BY <1>2, <2>1, <2>2, <2>3, <3>1, <3>2
  <2>4. CASE j = n
    <3> DEFINE I == Places(list, stored[i].id)
               J == Places(longer, p.id)
    <3>1. I \subseteq Nat /\ I # {} /\ \A m \in I : m <= Len(list)
      BY <1>5, <2>1, PlacesType
    <3>2. J = {Len(list) + 1}
      BY <1>8, PlacesAppend
    <3> HIDE DEF I, J
    <3>3. Min(I) \in I
      BY <3>1, MinIsLeast
    <3>4. Min(J) = Len(list) + 1
      <4>1. J \subseteq Nat /\ J # {}
        BY <3>2
      <4>2. Min(J) \in J
        BY <4>1, MinIsLeast
      <4> QED
        BY <3>2, <4>2
    <3>5. Min(I) < Min(J)
      <4>1. Min(I) \in Nat /\ Min(I) <= Len(list)
        BY ONLY <3>1, <3>3
      <4> QED
        BY <3>4, <4>1
    <3> QED
      BY <1>2, <2>1, <2>2, <2>4, <3>5 DEF I, J
  <2> QED
    BY <1>1, <2>3, <2>4
<1>11. MergedFrom(new, longer)
  <2> HIDE DEF longer
  <2> QED
    BY <1>6, <1>7, <1>9, <1>10 DEF MergedFrom
<1> QED
  BY <1>11 DEF new

\* A turn of the loop keeps the list merged.
LEMMA MergedTurn ==
    ASSUME NEW stored \in Seq(ProviderRecords), NEW list \in Seq(ProviderRecords),
           NEW p \in ProviderRecords, MergedFrom(stored, list)
    PROVE  MergedFrom(AddProvider(stored, p), Append(list, p))
<1>1. CASE p.id \notin Ids(stored) /\ AddProvider(stored, p) = Append(stored, p)
  BY <1>1, MergedPush
<1>2. ASSUME NEW k \in DOMAIN stored, stored[k].id = p.id,
             AddProvider(stored, p) = [stored EXCEPT ![k] = Merge(stored[k], p)]
      PROVE  MergedFrom(AddProvider(stored, p), Append(list, p))
  <2>1. MergedFrom([stored EXCEPT ![k] = Merge(stored[k], p)], Append(list, p))
    BY <1>2, MergedUpdate
  <2> QED
    BY <1>2, <2>1
<1> QED
  BY <1>1, <1>2, AddProviderCases

-----------------------------------------------------------------------------
(* What the loop does to a whole list of providers. *)

\* The stored providers stay merged.
LEMMA MergedLoop ==
    ASSUME NEW old \in Seq(ProviderRecords), NEW list \in Seq(ProviderRecords),
           NEW new \in Seq(ProviderRecords), MergedFrom(old, list)
    PROVE  MergedFrom(AddProviders(old, new), list \o new)
<1> DEFINE upTo(n) == list \o SubSeq(new, 1, n)
           Good == [n \in 0..Len(new) |-> {l \in Seq(ProviderRecords) : MergedFrom(l, upTo(n))}]
<1>1. upTo(0) = list /\ upTo(Len(new)) = list \o new
  OBVIOUS
<1>2. ASSUME NEW n \in 1..Len(new)
      PROVE  /\ upTo(n - 1) \in Seq(ProviderRecords)
             /\ upTo(n) = Append(upTo(n - 1), new[n])
             /\ new[n] \in ProviderRecords
  OBVIOUS
<1> HIDE DEF upTo
<1>3. old \in Good[0]
  BY <1>1
<1>4. ASSUME NEW n \in 1..Len(new), NEW l \in Good[n - 1]
      PROVE  AddProvider(l, new[n]) \in Good[n]
  <2>1. n \in 0..Len(new) /\ n - 1 \in 0..Len(new)
    OBVIOUS
  <2>2. l \in Seq(ProviderRecords) /\ MergedFrom(l, upTo(n - 1))
    BY <2>1
  <2>3. MergedFrom(AddProvider(l, new[n]), Append(upTo(n - 1), new[n]))
    BY <1>2, <2>2, MergedTurn
  <2>4. AddProvider(l, new[n]) \in Seq(ProviderRecords)
    BY <1>2, <2>2, AddProviderType
  <2> QED
    BY <1>2, <2>1, <2>3, <2>4
<1>5. AddProviders(old, new) \in Good[Len(new)]
  <2> HIDE DEF Good
  <2>1. \A n \in 1..Len(new) : \A l \in Good[n - 1] : AddProvider(l, new[n]) \in Good[n]
    BY <1>4
  <2>2. Len(new) \in Nat
    OBVIOUS
  <2> QED
    BY <1>3, <2>1, <2>2, LoopReaches
<1>6. Len(new) \in 0..Len(new)
  OBVIOUS
<1> QED
  BY <1>1, <1>5, <1>6

\* The last of the chosen records.
LastIs(list, chosen, r) ==
    \E m \in chosen : list[m] = r /\ \A i \in chosen : i \in Nat /\ i <= m

\* The latest value of a field is that of the last place, if it is there.
LEMMA LatestIs ==
    ASSUME NEW list, NEW chosen, NEW r, LastIs(list, chosen, r)
    PROVE  \A f : r[f] # None => Latest(list, chosen, f) = r[f]
<1> SUFFICES ASSUME NEW f, r[f] # None
             PROVE  Latest(list, chosen, f) = r[f]
  OBVIOUS
<1> PICK m \in chosen : list[m] = r /\ \A i \in chosen : i \in Nat /\ i <= m
  BY DEF LastIs
<1> DEFINE I == {i \in chosen : list[i][f] # None}
<1>1. m \in I /\ I \subseteq Nat /\ I # {} /\ \A i \in I : i <= m
  OBVIOUS
<1> HIDE DEF I
<1>2. Max(I) \in I /\ \A i \in I : i <= Max(I)
  BY <1>1, MaxIsGreatest
<1>3. Max(I) <= m /\ m <= Max(I) /\ m \in Nat /\ Max(I) \in Nat
  BY <1>1, <1>2
<1>4. Max(I) = m
  BY <1>3
<1> QED
  BY <1>1, <1>4 DEF Latest, I

\* A list that does not name an id twice is merged as it is.
LEMMA DistinctIsMerged ==
    ASSUME NEW list \in Seq(ProviderRecords), DistinctIds(list)
    PROVE  MergedFrom(list, list)
<1>1. \A i \in DOMAIN list : i \in Nat
  OBVIOUS
<1>2. \A i \in DOMAIN list : Places(list, list[i].id) = {i}
  BY DEF Places, DistinctIds
<1>3. ASSUME NEW i \in DOMAIN list, NEW f \in ProviderFields
      PROVE  list[i][f] = Latest(list, {i}, f)
  <2>1. CASE list[i][f] = None
    BY <2>1 DEF Latest
  <2>2. CASE list[i][f] # None
    <3>1. LastIs(list, {i}, list[i])
      BY <1>1 DEF LastIs
    <3> QED
      BY <2>2, <3>1, LatestIs
  <2> QED
    BY <2>1, <2>2
<1>4. ASSUME NEW i \in Nat
      PROVE  Min({i}) = i
  <2>1. {i} \subseteq Nat /\ {i} # {}
    OBVIOUS
  <2>2. Min({i}) \in {i}
    BY <2>1, MinIsLeast
  <2> QED
    BY <2>2
<1> QED
  BY <1>1, <1>2, <1>3, <1>4 DEF MergedFrom

\* Providers that were sent last, each id once, change nothing when they are
\* sent again.
LEMMA LoopAgain ==
    ASSUME NEW stored \in Seq(ProviderRecords), NEW list \in Seq(ProviderRecords),
           NEW new \in Seq(ProviderRecords), DistinctIds(new),
           NEW all, all = list \o new, MergedFrom(stored, all)
    PROVE  AddProviders(stored, new) = stored
<1>1. /\ all \in Seq(ProviderRecords)
      /\ DOMAIN all = 1..(Len(list) + Len(new))
      /\ \A n \in DOMAIN new : all[Len(list) + n] = new[n]
      /\ Len(list) \in Nat /\ Len(new) \in Nat /\ DOMAIN new = 1..Len(new)
  OBVIOUS
<1>2. ASSUME NEW n \in DOMAIN new, NEW p, p = new[n], NEW m, m = Len(list) + n,
             NEW I, I = Places(all, p.id)
      PROVE  AddProvider(stored, p) = stored
  <2>1. p \in ProviderRecords /\ n \in Nat
    BY <1>2
  <2>2. m \in I /\ I \subseteq Nat
    BY <1>1, <1>2, <2>1 DEF Places
  <2>3. ASSUME NEW i \in I
        PROVE  i <= m
    <3>1. i \in 1..(Len(list) + Len(new)) /\ all[i].id = p.id
      BY <1>1, <1>2 DEF Places
    <3>2. CASE i <= Len(list)
      BY <1>1, <1>2, <2>1, <3>1, <3>2
    <3>3. CASE ~(i <= Len(list))
      <4>1. i - Len(list) \in 1..Len(new) /\ Len(list) + (i - Len(list)) = i
        BY <1>1, <3>1, <3>3
      <4>2. all[i] = new[i - Len(list)]
        BY <1>1, <4>1
      <4>3. i - Len(list) = n
        BY <1>1, <1>2, <3>1, <4>1, <4>2 DEF DistinctIds
      <4> QED
        BY <1>1, <1>2, <2>1, <3>1, <4>3
    <3> QED
      BY <3>2, <3>3
  <2>4. all[m] = p
    BY <1>1, <1>2
  <2>5. LastIs(all, I, p)
    BY <2>2, <2>3, <2>4 DEF LastIs
  <2>6. \A f : p[f] # None => Latest(all, I, f) = p[f]
    BY <2>5, LatestIs
  <2>7. p.id \in Ids(stored)
    <3>1. p.id \in Ids(all)
      BY <1>1, <1>2, <2>2, PlacesType
    <3> QED
      BY <3>1 DEF MergedFrom
  <2>8. PICK k \in DOMAIN stored :
           /\ stored[k].id = p.id
           /\ AddProvider(stored, p) = [stored EXCEPT ![k] = Merge(stored[k], p)]
    BY <2>1, <2>7, AddProviderCases
  <2>9. \A f \in ProviderFields : stored[k][f] = Latest(all, I, f)
    BY <1>2, <2>8 DEF MergedFrom
  <2>10. Merge(stored[k], p) = stored[k]
    <3>1. stored[k] \in ProviderRecords
      OBVIOUS
    <3>2. /\ Merge(stored[k], p) \in ProviderRecords
          /\ \A f \in ProviderFields : Merge(stored[k], p)[f] = stored[k][f]
      BY <2>1, <2>6, <2>9, <3>1, MergeType
    <3> QED
      BY <3>1, <3>2 DEF ProviderRecords
  <2>11. [stored EXCEPT ![k] = stored[k]] = stored
    OBVIOUS
  <2> QED
    BY <2>8, <2>10, <2>11
<1>3. AddProviders(stored, new) \in {stored}
  <2>1. \A n \in DOMAIN new, l \in {stored} : AddProvider(l, new[n]) \in {stored}
    BY <1>2
  <2> QED
    BY <1>1, <2>1, LoopKeeps
<1> QED
  BY <1>3

\* Every provider that has a schema has an address too.
Addressed(list) ==
    \A i \in DOMAIN list : list[i].schema # None => list[i].base_url # None

\* The loop keeps the addresses of providers.
LEMMA AddressedLoop ==
    ASSUME NEW old \in Seq(ProviderRecords), NEW new \in Seq(ProviderRecords),
           Addressed(old), Addressed(new)
    PROVE  Addressed(AddProviders(old, new))
<1> DEFINE Good == {l \in Seq(ProviderRecords) : Addressed(l)}
<1>1. ASSUME NEW n \in DOMAIN new, NEW l \in Good
      PROVE  AddProvider(l, new[n]) \in Good
  <2>1. /\ new[n] \in ProviderRecords /\ l \in Seq(ProviderRecords)
        /\ Addressed(l)
        /\ new[n].schema # None => new[n].base_url # None
    BY DEF Addressed
  <2>2. AddProvider(l, new[n]) \in Seq(ProviderRecords)
    BY <2>1, AddProviderType
  <2>3. Addressed(Append(l, new[n]))
    <3>1. \A i \in DOMAIN Append(l, new[n]) :
             \/ Append(l, new[n])[i] = new[n]
             \/ i \in DOMAIN l /\ Append(l, new[n])[i] = l[i]
      BY <2>1
    <3> QED
      BY <2>1, <3>1 DEF Addressed
  <2>4. ASSUME NEW k \in DOMAIN l
        PROVE  Addressed([l EXCEPT ![k] = Merge(l[k], new[n])])
    <3>1. l[k] \in ProviderRecords /\ (l[k].schema # None => l[k].base_url # None)
      BY <2>1 DEF Addressed
    <3>2. {"schema", "base_url"} \subseteq ProviderFields
      BY DEF ProviderFields
    <3>3. Merge(l[k], new[n]).schema # None => Merge(l[k], new[n]).base_url # None
      BY <2>1, <3>1, <3>2, MergeType
    <3> QED
      BY <2>1, <3>3 DEF Addressed
  <2>5. Addressed(AddProvider(l, new[n]))
    <3>1. CASE AddProvider(l, new[n]) = Append(l, new[n])
      BY <2>3, <3>1
    <3>2. ASSUME NEW k \in DOMAIN l,
                 AddProvider(l, new[n]) = [l EXCEPT ![k] = Merge(l[k], new[n])]
          PROVE  Addressed(AddProvider(l, new[n]))
      BY <2>4, <3>2
    <3> QED
      BY <2>1, <3>1, <3>2, AddProviderCases
  <2> QED
    BY <2>2, <2>5
<1>2. old \in Good /\ Len(new) \in Nat /\ DOMAIN new = 1..Len(new)
  OBVIOUS
<1>3. AddProviders(old, new) \in Good
  <2> HIDE DEF Good
  <2> QED
    BY <1>1, <1>2, LoopKeeps
<1> QED
  BY <1>3

\* What a provider may become when those of the body are merged into it: a field
\* keeps its value or takes one that the body gives for its id.
Outcomes(q, new) ==
    {r \in ProviderRecords :
        /\ r.id = q.id
        /\ \A f \in ProviderFields :
              r[f] # q[f] =>
                  r[f] # None /\ \E i \in Places(new, q.id) : r[f] = new[i][f]}

\* The first provider stays the first.
LEMMA FirstLoop ==
    ASSUME NEW old \in Seq(ProviderRecords), NEW new \in Seq(ProviderRecords), old # <<>>
    PROVE  /\ AddProviders(old, new) # <<>>
           /\ AddProviders(old, new)[1] \in Outcomes(old[1], new)
<1> DEFINE Good == {l \in Seq(ProviderRecords) : l # <<>> /\ l[1] \in Outcomes(old[1], new)}
<1>1. ASSUME NEW n \in DOMAIN new, NEW l \in Good
      PROVE  AddProvider(l, new[n]) \in Good
  <2>1. /\ new[n] \in ProviderRecords /\ l \in Seq(ProviderRecords) /\ l # <<>>
        /\ 1 \in DOMAIN l /\ l[1] \in ProviderRecords
        /\ l[1] \in Outcomes(old[1], new)
    OBVIOUS
  <2>2. AddProvider(l, new[n]) \in Seq(ProviderRecords)
    BY <2>1, AddProviderType
  <2>3. Append(l, new[n]) # <<>> /\ Append(l, new[n])[1] = l[1]
    BY <2>1
  <2>4. ASSUME NEW k \in DOMAIN l, l[k].id = new[n].id
        PROVE  /\ [l EXCEPT ![k] = Merge(l[k], new[n])] # <<>>
               /\ [l EXCEPT ![k] = Merge(l[k], new[n])][1] \in Outcomes(old[1], new)
    <3> DEFINE l2 == [l EXCEPT ![k] = Merge(l[k], new[n])]
    <3>1. l2 # <<>>
      BY <2>1
    <3>2. CASE k # 1
      BY <2>1, <3>1, <3>2
    <3>3. CASE k = 1
      <4>1. l2[1] = Merge(l[1], new[n])
        BY <2>1, <3>3
      <4>2. /\ Merge(l[1], new[n]) \in ProviderRecords
            /\ \A f \in ProviderFields : Merge(l[1], new[n])[f] =
                  IF new[n][f] = None THEN l[1][f] ELSE new[n][f]
        BY <2>1, MergeType
      <4>3. l[1].id = old[1].id
        BY <2>1 DEF Outcomes
      <4>4. n \in Places(new, old[1].id)
        BY <2>4, <3>3, <4>3 DEF Places
      <4>5. Merge(l[1], new[n]).id = old[1].id
        BY <2>4, <3>3, <4>2, <4>3 DEF ProviderFields
      <4>6. ASSUME NEW f \in ProviderFields, Merge(l[1], new[n])[f] # old[1][f]
            PROVE  /\ Merge(l[1], new[n])[f] # None
                   /\ \E i \in Places(new, old[1].id) : Merge(l[1], new[n])[f] = new[i][f]
        <5>1. CASE new[n][f] = None
          BY <2>1, <4>2, <4>6, <5>1 DEF Outcomes
        <5>2. CASE new[n][f] # None
          BY <4>2, <4>4, <5>2
        <5> QED
          BY <5>1, <5>2
      <4>7. Merge(l[1], new[n]) \in Outcomes(old[1], new)
        BY <4>2, <4>5, <4>6 DEF Outcomes
      <4> HIDE DEF l2
      <4> QED
        BY <3>1, <4>1, <4>7 DEF l2
    <3> QED
      BY <3>2, <3>3
  <2>5. AddProvider(l, new[n]) # <<>> /\ AddProvider(l, new[n])[1] \in Outcomes(old[1], new)
    <3>1. CASE AddProvider(l, new[n]) = Append(l, new[n])
      BY <2>1, <2>3, <3>1
    <3>2. ASSUME NEW k \in DOMAIN l, l[k].id = new[n].id,
                 AddProvider(l, new[n]) = [l EXCEPT ![k] = Merge(l[k], new[n])]
          PROVE  /\ AddProvider(l, new[n]) # <<>>
                 /\ AddProvider(l, new[n])[1] \in Outcomes(old[1], new)
      BY <2>4, <3>2
    <3> QED
      BY <2>1, <3>1, <3>2, AddProviderCases
  <2> QED
    BY <2>2, <2>5
<1>2. old \in Good
  <2>1. old[1] \in ProviderRecords
    OBVIOUS
  <2> QED
    BY <2>1 DEF Outcomes
<1>3. AddProviders(old, new) \in Good
  <2> HIDE DEF Good
  <2>1. Len(new) \in Nat /\ DOMAIN new = 1..Len(new)
    OBVIOUS
  <2> QED
    BY <1>1, <1>2, <2>1, LoopKeeps
<1> QED
  BY <1>3

-----------------------------------------------------------------------------
(* Update and Create. *)

\* A missing Option is neither a list of providers nor a value.
LEMMA NoneIsNoList == None \notin Seq(ProviderRecords) /\ None \notin Values
BY ValuesAssumption

\* What a POST of an unknown id stores.
LEMMA CreateFacts ==
    ASSUME NEW body \in ServiceRecords
    PROVE  /\ Create(body) \in ServiceRecords
           /\ Create(body).providers = body.providers
           /\ \A f \in ServiceFields : Create(body).fields[f] =
                 IF f = "peer_id" THEN Local ELSE body.fields[f]
BY ValuesAssumption DEF Create, ServiceRecords, ServiceFields

\* The providers of a service are a list, and may be none.
LEMMA ProvidersOfType ==
    ASSUME NEW service \in ServiceRecords
    PROVE  ProvidersOf(service) \in Seq(ProviderRecords)
BY DEF ProvidersOf, ServiceRecords

\* What a POST of a known id stores.
LEMMA UpdateFacts ==
    ASSUME NEW service \in ServiceRecords, NEW body \in ServiceRecords
    PROVE  /\ Update(service, body) \in ServiceRecords
           /\ \A f \in ServiceFields : Update(service, body).fields[f] =
                 IF body.fields[f] = None THEN service.fields[f] ELSE body.fields[f]
           /\ Update(service, body).providers =
                 IF body.providers = None THEN service.providers
                 ELSE IF service.providers = None THEN body.providers
                 ELSE AddProviders(service.providers, body.providers)
           /\ service.providers # None /\ body.providers # None =>
                 AddProviders(service.providers, body.providers) \in Seq(ProviderRecords)
<1>1. /\ service.fields \in [ServiceFields -> Values \cup {None}]
      /\ body.fields \in [ServiceFields -> Values \cup {None}]
      /\ service.providers \in Seq(ProviderRecords) \cup {None}
      /\ body.providers \in Seq(ProviderRecords) \cup {None}
  BY DEF ServiceRecords
<1>2. service.providers # None /\ body.providers # None =>
          AddProviders(service.providers, body.providers) \in Seq(ProviderRecords)
  BY <1>1, AddProvidersType
<1>3. MergeProviders(service.providers, body.providers) =
          IF body.providers = None THEN service.providers
          ELSE IF service.providers = None THEN body.providers
          ELSE AddProviders(service.providers, body.providers)
  BY DEF MergeProviders
<1>4. MergeProviders(service.providers, body.providers) \in Seq(ProviderRecords) \cup {None}
  BY <1>1, <1>2, <1>3
<1>5. /\ Merge(service.fields, body.fields) \in [ServiceFields -> Values \cup {None}]
      /\ \A f \in ServiceFields : Merge(service.fields, body.fields)[f] =
            IF body.fields[f] = None THEN service.fields[f] ELSE body.fields[f]
  BY <1>1 DEF Merge
<1>6. /\ Update(service, body) \in ServiceRecords
      /\ Update(service, body).fields = Merge(service.fields, body.fields)
      /\ Update(service, body).providers = MergeProviders(service.providers, body.providers)
  BY <1>4, <1>5 DEF Update, ServiceRecords
<1> QED
  BY <1>2, <1>3, <1>5, <1>6

-----------------------------------------------------------------------------
(* One body more. *)

\* The plain fields of the bodies, one record each.
Fields(bodies) == [i \in DOMAIN bodies |-> bodies[i].fields]

\* A body more: the latest value of a field is its own if it has one, and else
\* the one before.
LEMMA FieldsAppend ==
    ASSUME NEW bodies \in Seq(Bodies), NEW body \in Bodies, NEW f \in ServiceFields,
           NEW more, more = Append(bodies, body)
    PROVE  /\ Latest(Fields(more), DOMAIN more, f) =
                 IF body.fields[f] = None THEN Latest(Fields(bodies), DOMAIN bodies, f)
                 ELSE body.fields[f]
           /\ bodies # <<>> =>
                 Latest(Fields(more), DOMAIN more \ {1}, f) =
                    IF body.fields[f] = None
                    THEN Latest(Fields(bodies), DOMAIN bodies \ {1}, f)
                    ELSE body.fields[f]
           /\ bodies = <<>> =>
                 /\ Latest(Fields(bodies), DOMAIN bodies, f) = None
                 /\ Latest(Fields(more), DOMAIN more \ {1}, f) = None
<1> DEFINE n == Len(bodies) + 1
<1>1. /\ DOMAIN more = DOMAIN bodies \cup {n} /\ n \in Nat
      /\ \A i \in DOMAIN bodies : i \in Nat /\ i < n /\ more[i] = bodies[i]
      /\ more[n] = body
  OBVIOUS
<1>2. bodies # <<>> => n # 1
  OBVIOUS
<1>3. bodies = <<>> => DOMAIN bodies = {} /\ DOMAIN more = {1}
  OBVIOUS
<1> HIDE DEF n
<1>4. Fields(more)[n] = body.fields
  BY <1>1 DEF Fields
<1>5. \A i \in DOMAIN bodies : Fields(more)[i] = Fields(bodies)[i]
  BY <1>1 DEF Fields
<1>6. /\ Agree(Fields(bodies), Fields(more), DOMAIN bodies)
      /\ Agree(Fields(bodies), Fields(more), DOMAIN bodies \ {1})
  BY <1>5 DEF Agree
<1>7. OneMore(DOMAIN more, DOMAIN bodies, n)
  BY <1>1 DEF OneMore
<1>8. bodies # <<>> => OneMore(DOMAIN more \ {1}, DOMAIN bodies \ {1}, n)
  BY <1>1, <1>2 DEF OneMore
<1>9. /\ body.fields[f] = None =>
            Latest(Fields(more), DOMAIN more, f) = Latest(Fields(bodies), DOMAIN bodies, f)
      /\ body.fields[f] # None => Latest(Fields(more), DOMAIN more, f) = body.fields[f]
  BY <1>4, <1>6, <1>7, LatestNext
<1>10. ASSUME bodies # <<>>
       PROVE  /\ body.fields[f] = None =>
                    Latest(Fields(more), DOMAIN more \ {1}, f) =
                    Latest(Fields(bodies), DOMAIN bodies \ {1}, f)
              /\ body.fields[f] # None =>
                    Latest(Fields(more), DOMAIN more \ {1}, f) = body.fields[f]
  BY <1>4, <1>6, <1>8, <1>10, LatestNext
<1>11. ASSUME bodies = <<>>
       PROVE  /\ Latest(Fields(bodies), DOMAIN bodies, f) = None
              /\ Latest(Fields(more), DOMAIN more \ {1}, f) = None
  <2>1. DOMAIN bodies = {} /\ DOMAIN more \ {1} = {}
    BY <1>3, <1>11
  <2> QED
    BY <2>1, LatestNone
<1> QED
  BY <1>9, <1>10, <1>11

\* The bodies that have providers, and the providers of the first of them.
Named(bodies) == {i \in DOMAIN bodies : bodies[i].providers # None}
FirstListOf(bodies) ==
    IF Named(bodies) = {} THEN <<>> ELSE bodies[Min(Named(bodies))].providers

\* The first list of providers stays the first.
LEMMA FirstAppend ==
    ASSUME NEW bodies \in Seq(Bodies), NEW body \in Bodies,
           NEW more, more = Append(bodies, body)
    PROVE  /\ Named(bodies) = {} => FirstListOf(more) = ProvidersOf(body)
           /\ Named(bodies) # {} => FirstListOf(more) = FirstListOf(bodies)
           /\ Named(more) = {} <=> Named(bodies) = {} /\ body.providers = None
<1> DEFINE n == Len(bodies) + 1
<1>1. /\ DOMAIN more = DOMAIN bodies \cup {n} /\ n \in Nat
      /\ \A i \in DOMAIN bodies : i \in Nat /\ i < n /\ more[i] = bodies[i]
      /\ more[n] = body
  OBVIOUS
<1> HIDE DEF n
<1>2. Named(more) = IF body.providers = None THEN Named(bodies) ELSE Named(bodies) \cup {n}
  BY <1>1 DEF Named
<1>3. Named(bodies) \subseteq Nat /\ \A i \in Named(bodies) : i < n /\ more[i] = bodies[i]
  BY <1>1 DEF Named
<1>4. ASSUME Named(bodies) = {}
      PROVE  FirstListOf(more) = ProvidersOf(body)
  <2>1. CASE body.providers = None
    BY <1>2, <1>4, <2>1 DEF FirstListOf, ProvidersOf
  <2>2. CASE body.providers # None
    <3>1. Named(more) = {n}
      BY <1>2, <1>4, <2>2
    <3>2. Named(more) \subseteq Nat /\ Named(more) # {}
      BY <1>1, <3>1
    <3>3. Min(Named(more)) \in Named(more)
      BY <3>2, MinIsLeast
    <3>4. Min(Named(more)) = n
      BY <3>1, <3>3
    <3> QED
      BY <1>1, <2>2, <3>2, <3>4 DEF FirstListOf, ProvidersOf
  <2> QED
    BY <2>1, <2>2
<1>5. ASSUME Named(bodies) # {}
      PROVE  FirstListOf(more) = FirstListOf(bodies)
  <2> DEFINE I == Named(bodies)
             J == Named(more)
  <2>1. I \subseteq Nat /\ I # {} /\ I \subseteq J /\ J \subseteq I \cup {n} /\ \A i \in I : i < n
    BY <1>2, <1>3, <1>5
  <2> HIDE DEF I, J
  <2>2. J \subseteq Nat /\ J # {}
    BY <1>1, <2>1
  <2>3. Min(I) \in I /\ \A i \in I : Min(I) <= i
    BY <2>1, MinIsLeast
  <2>4. Min(J) \in J /\ \A i \in J : Min(J) <= i
    BY <2>2, MinIsLeast
  <2>5. Min(J) <= Min(I) /\ Min(I) < n /\ Min(I) \in Nat /\ Min(J) \in Nat
    BY <2>1, <2>2, <2>3, <2>4
  <2>6. Min(J) # n
    BY <1>1, <2>5
  <2>7. Min(J) \in I
    BY <2>1, <2>4, <2>6
  <2>8. Min(I) <= Min(J)
    BY <2>3, <2>7
  <2>9. Min(J) = Min(I)
    BY <2>5, <2>8
  <2>10. more[Min(J)] = bodies[Min(I)]
    BY <1>3, <2>3, <2>9 DEF I
  <2> QED
    BY <1>5, <2>2, <2>10 DEF FirstListOf, I, J
<1> QED
  BY <1>2, <1>4, <1>5

-----------------------------------------------------------------------------
(* The inductive invariant. *)

\* Types, and there is an entry exactly when a body was posted.
Types ==
    /\ entry \in ServiceRecords \cup {NoEntry}
    /\ posts \in Seq(Bodies)
    /\ sent \in Seq(ProviderRecords)
    /\ entry = NoEntry <=> posts = <<>>
    /\ entry = NoEntry => sent = <<>>

\* The entry has a list of providers as soon as a body had one, and the
\* providers of the last body were sent last.
Origin ==
    entry # NoEntry =>
        /\ entry.providers = None <=> Named(posts) = {}
        /\ entry.providers = None => sent = <<>>
        /\ \E before \in Seq(ProviderRecords) :
              sent = before \o ProvidersOf(posts[Len(posts)])

\* The listing is that of the entry.
Listed == entry # NoEntry => listing = apronservice_to_args(entry)

\* Providers that were sent with their addresses are stored with them.
Resolvable == entry # NoEntry /\ Addressed(sent) => Addressed(ProvidersOf(entry))

\* ProvidersMerged alone is not inductive: that the entry has no list says
\* nothing of what was sent before, which Origin adds.
IInv == Types /\ Origin /\ Listed /\ Resolvable /\ LastWriterWins /\ ProvidersMerged

\* A body is a service, with a list of providers.
LEMMA BodyType ==
    ASSUME NEW body \in Bodies
    PROVE  body \in ServiceRecords /\ ProvidersOf(body) \in Seq(ProviderRecords)
BY BodiesAssumption, ProvidersOfType

\* LastWriterWins and ProvidersMerged in the words of the lemmas.
LEMMA FieldsOfEntry ==
    LastWriterWins <=>
        (entry # NoEntry =>
            \A f \in ServiceFields :
                entry.fields[f] =
                    IF f # "peer_id" THEN Latest(Fields(posts), DOMAIN posts, f)
                    ELSE OrDefault(Latest(Fields(posts), DOMAIN posts \ {1}, f), Local))
BY DEF LastWriterWins, Fields

LEMMA ProvidersOfEntry ==
    ProvidersMerged <=>
        (entry # NoEntry /\ DistinctIds(FirstListOf(posts)) =>
            MergedFrom(ProvidersOf(entry), sent))
BY DEF ProvidersMerged, FirstList, FirstListOf, Named

\* The invariant holds at first, after a DELETE, and conjunct by conjunct after a
\* POST.
LEMMA Initial == Init => IInv
BY NoEntryAssumption
   DEF Init, IInv, Types, Origin, Listed, Resolvable, LastWriterWins, ProvidersMerged

LEMMA DeleteStep == IInv /\ Delete => IInv'
BY DEF IInv, Types, Origin, Listed, Resolvable, LastWriterWins, ProvidersMerged, Delete

\* What a POST makes of the entry.
LEMMA PostFacts ==
    ASSUME IInv, NEW body \in Bodies, Post(body)
    PROVE  /\ entry' \in ServiceRecords /\ entry' # NoEntry
           /\ posts' = Append(posts, body) /\ posts' \in Seq(Bodies) /\ posts' # <<>>
           /\ posts'[Len(posts')] = body
           /\ sent' = sent \o ProvidersOf(body) /\ sent' \in Seq(ProviderRecords)
           /\ listing' = apronservice_to_args(entry')
           /\ entry = NoEntry => entry' = Create(body)
           /\ entry # NoEntry => entry \in ServiceRecords /\ entry' = Update(entry, body)
<1>1. /\ posts \in Seq(Bodies) /\ sent \in Seq(ProviderRecords)
      /\ entry \in ServiceRecords \cup {NoEntry}
      /\ posts' = Append(posts, body)
      /\ sent' = sent \o ProvidersOf(body)
      /\ listing' = apronservice_to_args(entry')
      /\ entry' = IF entry = NoEntry THEN Create(body) ELSE Update(entry, body)
  BY DEF IInv, Types, Post
<1>2. body \in ServiceRecords /\ ProvidersOf(body) \in Seq(ProviderRecords)
  BY BodyType
<1>3. entry' \in ServiceRecords
  BY <1>1, <1>2, CreateFacts, UpdateFacts
<1>4. entry' # NoEntry
  BY <1>3, NoEntryAssumption
<1>5. posts' \in Seq(Bodies) /\ posts' # <<>> /\ posts'[Len(posts')] = body
  BY <1>1
<1>6. sent' \in Seq(ProviderRecords)
  BY <1>1, <1>2
<1> QED
  BY <1>1, <1>3, <1>4, <1>5, <1>6

\* A POST stores a service, and lists what it stored.
LEMMA PostTypes ==
    ASSUME IInv, NEW body \in Bodies, Post(body)
    PROVE  Types' /\ Listed'
BY PostFacts DEF Types, Listed

\* How the providers of the entry change.
LEMMA PostProviders ==
    ASSUME IInv, NEW body \in Bodies, Post(body)
    PROVE  /\ entry = NoEntry => entry'.providers = body.providers
           /\ entry # NoEntry =>
                 entry'.providers =
                    IF body.providers = None THEN entry.providers
                    ELSE IF entry.providers = None THEN body.providers
                    ELSE AddProviders(entry.providers, body.providers)
           /\ entry # NoEntry /\ entry.providers # None /\ body.providers # None =>
                 /\ entry.providers \in Seq(ProviderRecords)
                 /\ body.providers \in Seq(ProviderRecords)
                 /\ entry'.providers \in Seq(ProviderRecords)
                 /\ entry'.providers # None
<1>1. body \in ServiceRecords
  BY BodyType
<1>2. entry = NoEntry => entry'.providers = body.providers
  BY <1>1, PostFacts, CreateFacts
<1>3. ASSUME entry # NoEntry
      PROVE  /\ entry \in ServiceRecords /\ entry' = Update(entry, body)
             /\ entry'.providers =
                    IF body.providers = None THEN entry.providers
                    ELSE IF entry.providers = None THEN body.providers
                    ELSE AddProviders(entry.providers, body.providers)
             /\ entry.providers # None /\ body.providers # None =>
                    AddProviders(entry.providers, body.providers) \in Seq(ProviderRecords)
  BY <1>1, <1>3, PostFacts, UpdateFacts
<1>4. ASSUME entry # NoEntry, entry.providers # None, body.providers # None
      PROVE  /\ entry.providers \in Seq(ProviderRecords)
             /\ body.providers \in Seq(ProviderRecords)
             /\ entry'.providers \in Seq(ProviderRecords)
             /\ entry'.providers # None
  BY <1>1, <1>3, <1>4, NoneIsNoList DEF ServiceRecords
<1> QED
  BY <1>2, <1>3, <1>4

\* After a POST there is a list as soon as a body had one.
LEMMA PostOrigin ==
    ASSUME IInv, NEW body \in Bodies, Post(body)
    PROVE  Origin'
<1>1. /\ posts \in Seq(Bodies) /\ sent \in Seq(ProviderRecords)
      /\ entry = NoEntry => posts = <<>> /\ sent = <<>>
      /\ entry # NoEntry =>
            /\ entry.providers = None <=> Named(posts) = {}
            /\ entry.providers = None => sent = <<>>
  BY DEF IInv, Types, Origin
<1>2. Named(posts') = {} <=> Named(posts) = {} /\ body.providers = None
  BY <1>1, PostFacts, FirstAppend
<1>3. entry = NoEntry => Named(posts) = {}
  BY <1>1 DEF Named
<1>4. entry'.providers = None <=>
          (entry = NoEntry \/ entry.providers = None) /\ body.providers = None
  BY PostProviders
<1>5. entry'.providers = None <=> Named(posts') = {}
  BY <1>1, <1>2, <1>3, <1>4
<1>6. ASSUME entry'.providers = None
      PROVE  sent' = <<>>
  <2>1. sent = <<>> /\ ProvidersOf(body) = <<>>
    BY <1>1, <1>4, <1>6 DEF ProvidersOf
  <2> QED
    BY <2>1, PostFacts
<1>7. \E before \in Seq(ProviderRecords) : sent' = before \o ProvidersOf(posts'[Len(posts')])
  BY <1>1, PostFacts
<1> QED
  BY <1>5, <1>6, <1>7 DEF Origin

\* A POST keeps the providers' addresses.
LEMMA PostResolvable ==
    ASSUME IInv, NEW body \in Bodies, Post(body)
    PROVE  Resolvable'
<1> SUFFICES ASSUME Addressed(sent')
             PROVE  Addressed(ProvidersOf(entry'))
  BY DEF Resolvable
<1>1. /\ sent \in Seq(ProviderRecords) /\ ProvidersOf(body) \in Seq(ProviderRecords)
      /\ sent' = sent \o ProvidersOf(body)
  BY BodyType, PostFacts DEF IInv, Types
<1>2. Addressed(sent)
  <2>1. \A i \in DOMAIN sent : i \in DOMAIN sent' /\ sent'[i] = sent[i]
    BY <1>1
  <2> QED
    BY <2>1 DEF Addressed
<1>3. Addressed(ProvidersOf(body))
  <2> DEFINE new == ProvidersOf(body)
  <2>1. \A i \in DOMAIN new : /\ Len(sent) + i \in DOMAIN (sent \o new)
                              /\ (sent \o new)[Len(sent) + i] = new[i]
    BY <1>1
  <2> HIDE DEF new
  <2>2. Addressed(sent \o new)
    BY <1>1 DEF new
  <2> QED
    BY <2>1, <2>2 DEF Addressed, new
<1>4. entry # NoEntry => Addressed(ProvidersOf(entry))
  BY <1>2 DEF IInv, Resolvable
<1>5. CASE entry # NoEntry /\ entry.providers # None /\ body.providers # None
  <2>1. /\ entry.providers \in Seq(ProviderRecords)
        /\ body.providers \in Seq(ProviderRecords)
        /\ entry'.providers = AddProviders(entry.providers, body.providers)
        /\ entry'.providers # None
    BY <1>5, PostProviders
  <2>2. Addressed(entry.providers) /\ Addressed(body.providers)
    BY <1>3, <1>4, <1>5 DEF ProvidersOf
  <2>3. Addressed(entry'.providers)
    BY <2>1, <2>2, AddressedLoop
  <2> QED
    BY <2>1, <2>3 DEF ProvidersOf
<1>6. CASE ~(entry # NoEntry /\ entry.providers # None /\ body.providers # None)
  <2>1. \/ entry'.providers = body.providers
        \/ entry # NoEntry /\ entry'.providers = entry.providers
    BY <1>6, PostProviders
  <2> QED
    BY <1>3, <1>4, <2>1 DEF ProvidersOf
<1> QED
  BY <1>5, <1>6

\* A POST keeps the fields those of the last body that had them.
LEMMA PostFields ==
    ASSUME IInv, NEW body \in Bodies, Post(body)
    PROVE  LastWriterWins'
<1> SUFFICES ASSUME NEW f \in ServiceFields
             PROVE  entry'.fields[f] =
                        IF f # "peer_id" THEN Latest(Fields(posts'), DOMAIN posts', f)
                        ELSE OrDefault(Latest(Fields(posts'), DOMAIN posts' \ {1}, f), Local)
  BY DEF LastWriterWins, Fields
<1>1. body \in ServiceRecords /\ posts \in Seq(Bodies) /\ (entry = NoEntry <=> posts = <<>>)
  BY BodyType DEF IInv, Types
<1> DEFINE all == Latest(Fields(posts), DOMAIN posts, f)
           later == Latest(Fields(posts), DOMAIN posts \ {1}, f)
           all2 == Latest(Fields(posts'), DOMAIN posts', f)
           later2 == Latest(Fields(posts'), DOMAIN posts' \ {1}, f)
           given == body.fields[f]
<1>2. /\ all2 = IF given = None THEN all ELSE given
      /\ posts # <<>> => later2 = IF given = None THEN later ELSE given
      /\ posts = <<>> => all = None /\ later2 = None
  BY <1>1, PostFacts, FieldsAppend
<1> HIDE DEF all, later, all2, later2
<1>3. CASE entry = NoEntry
  <2>1. entry'.fields[f] = IF f = "peer_id" THEN Local ELSE given
    BY <1>1, <1>3, PostFacts, CreateFacts
  <2> QED
    BY <1>1, <1>2, <1>3, <2>1 DEF OrDefault, all2, later2
<1>4. CASE entry # NoEntry
  <2>1. entry'.fields[f] = IF given = None THEN entry.fields[f] ELSE given
    BY <1>1, <1>4, PostFacts, UpdateFacts
  <2>2. entry.fields[f] = IF f # "peer_id" THEN all ELSE OrDefault(later, Local)
    BY <1>4, FieldsOfEntry DEF IInv, all, later
  <2> QED
    BY <1>1, <1>2, <1>4, <2>1, <2>2 DEF OrDefault, all2, later2
<1> QED
  BY <1>3, <1>4

\* A POST keeps the providers merged by id.
LEMMA PostMerged ==
    ASSUME IInv, NEW body \in Bodies, Post(body)
    PROVE  ProvidersMerged'
<1> SUFFICES ASSUME DistinctIds(FirstListOf(posts'))
             PROVE  MergedFrom(ProvidersOf(entry'), sent')
  BY DEF ProvidersMerged, FirstList, FirstListOf, Named
<1>1. /\ posts \in Seq(Bodies) /\ sent \in Seq(ProviderRecords)
      /\ ProvidersOf(body) \in Seq(ProviderRecords)
      /\ entry = NoEntry => posts = <<>> /\ sent = <<>>
      /\ entry # NoEntry =>
            /\ entry.providers = None <=> Named(posts) = {}
            /\ entry.providers = None => sent = <<>>
  BY BodyType DEF IInv, Types, Origin
<1>2. sent' = sent \o ProvidersOf(body)
  BY PostFacts
<1>3. /\ Named(posts) = {} => FirstListOf(posts') = ProvidersOf(body)
      /\ Named(posts) # {} => FirstListOf(posts') = FirstListOf(posts)
  <2>1. posts' = Append(posts, body)
    BY PostFacts
  <2> QED
    BY <1>1, <2>1, FirstAppend
<1>4. CASE entry = NoEntry \/ entry.providers = None
  <2>1. Named(posts) = {} /\ sent = <<>>
    BY <1>1, <1>4 DEF Named
  <2>2. DistinctIds(ProvidersOf(body))
    BY <1>3, <2>1
  <2>3. sent' = ProvidersOf(body)
    BY <1>1, <1>2, <2>1
  <2>4. entry'.providers = body.providers
    BY <1>4, PostProviders
  <2>5. ProvidersOf(entry') = ProvidersOf(body)
    BY <2>4 DEF ProvidersOf
  <2> QED
    BY <1>1, <2>2, <2>3, <2>5, DistinctIsMerged
<1>5. CASE entry # NoEntry /\ entry.providers # None
  <2>1. DistinctIds(FirstListOf(posts))
    BY <1>1, <1>3, <1>5
  <2>2. MergedFrom(ProvidersOf(entry), sent)
    BY <1>5, <2>1, ProvidersOfEntry DEF IInv
  <2>3. CASE body.providers = None
    <3>1. ProvidersOf(body) = <<>> /\ entry'.providers = entry.providers
      BY <1>5, <2>3, PostProviders DEF ProvidersOf
    <3>2. sent' = sent
      BY <1>1, <1>2, <3>1
    <3> QED
      BY <2>2, <3>1, <3>2 DEF ProvidersOf
  <2>4. CASE body.providers # None
    <3>1. /\ entry.providers \in Seq(ProviderRecords)
          /\ body.providers \in Seq(ProviderRecords)
          /\ entry'.providers = AddProviders(entry.providers, body.providers)
          /\ entry'.providers # None
      BY <1>5, <2>4, PostProviders
    <3>2. MergedFrom(entry.providers, sent)
      BY <1>5, <2>2 DEF ProvidersOf
    <3>3. MergedFrom(entry'.providers, sent \o body.providers)
      BY <1>1, <3>1, <3>2, MergedLoop
    <3> QED
      BY <1>2, <2>4, <3>1, <3>3 DEF ProvidersOf
  <2> QED
    BY <2>3, <2>4
<1> QED
  BY <1>4, <1>5

\* Every step keeps the invariant.
LEMMA Inductive == IInv /\ [Next]_vars => IInv'
<1> SUFFICES ASSUME IInv, [Next]_vars
             PROVE  IInv'
  OBVIOUS
<1>1. CASE Delete
  BY <1>1, DeleteStep
<1>2. ASSUME NEW body \in Bodies, Post(body)
      PROVE  IInv'
  BY <1>2, PostTypes, PostOrigin, PostResolvable, PostFields, PostMerged DEF IInv
<1>3. CASE UNCHANGED vars
  BY <1>3 DEF vars, IInv, Types, Origin, Listed, Resolvable, LastWriterWins,
              ProvidersMerged, FirstList
<1> QED
  BY <1>1, <1>2, <1>3 DEF Next

\* The invariant holds whatever bodies come, in whatever number and order.
THEOREM Invariance == Spec => []IInv
BY Initial, Inductive, PTL DEF Spec

-----------------------------------------------------------------------------
(* The properties. *)

\* No POST erases a field that it does not mention: every field is the last given.
THEOREM FieldsKept == Spec => []LastWriterWins
BY Invariance, PTL DEF IInv

\* The stored providers are those ever sent, merged by id.
THEOREM ProvidersKept == Spec => []ProvidersMerged
BY Invariance, PTL DEF IInv

\* The providers of the last body change nothing when they are sent again.
LEMMA ProvidersAgain ==
    ASSUME IInv, posts # <<>>, DistinctIds(FirstListOf(posts)),
           NEW body, body = posts[Len(posts)], DistinctIds(ProvidersOf(body))
    PROVE  MergeProviders(entry.providers, body.providers) = entry.providers
<1>1. /\ entry # NoEntry /\ posts \in Seq(Bodies) /\ entry \in ServiceRecords
      /\ entry.providers = None <=> Named(posts) = {}
  BY DEF IInv, Types, Origin
<1>2. body \in Bodies /\ Len(posts) \in DOMAIN posts
  BY <1>1
<1>3. PICK before \in Seq(ProviderRecords) : sent = before \o ProvidersOf(body)
  BY <1>1 DEF IInv, Origin
<1>4. CASE body.providers = None
  BY <1>4 DEF MergeProviders
<1>5. CASE body.providers # None
  <2>1. entry.providers # None
    BY <1>1, <1>2, <1>5 DEF Named
  <2>2. /\ entry.providers \in Seq(ProviderRecords)
        /\ ProvidersOf(body) \in Seq(ProviderRecords)
        /\ ProvidersOf(body) = body.providers
        /\ ProvidersOf(entry) = entry.providers
    BY <1>1, <1>2, <1>5, <2>1, BodyType DEF ServiceRecords, ProvidersOf
  <2>3. MergedFrom(entry.providers, sent)
    BY <1>1, <2>2, ProvidersOfEntry DEF IInv
  <2>4. AddProviders(entry.providers, body.providers) = entry.providers
    BY <1>3, <2>2, <2>3, LoopAgain
  <2> QED
    BY <1>5, <2>1, <2>4 DEF MergeProviders
<1> QED
  BY <1>4, <1>5

\* Nor do its fields.
LEMMA FieldsAgain ==
    ASSUME IInv, posts # <<>>, NEW body, body = posts[Len(posts)],
           Len(posts) = 1 => body.fields.peer_id = None
    PROVE  Merge(entry.fields, body.fields) = entry.fields
<1>1. /\ entry # NoEntry /\ posts \in Seq(Bodies) /\ entry \in ServiceRecords
  BY DEF IInv, Types
<1>2. entry.fields \in [ServiceFields -> Values \cup {None}]
  BY <1>1 DEF ServiceRecords
<1>3. /\ Len(posts) \in DOMAIN posts /\ Len(posts) \in Nat
      /\ \A i \in DOMAIN posts : i \in Nat /\ i <= Len(posts)
  BY <1>1
<1>4. Fields(posts)[Len(posts)] = body.fields
  BY <1>3 DEF Fields
<1>5. LastIs(Fields(posts), DOMAIN posts, body.fields)
  BY <1>3, <1>4 DEF LastIs
<1>6. Len(posts) # 1 => LastIs(Fields(posts), DOMAIN posts \ {1}, body.fields)
  BY <1>3, <1>4 DEF LastIs
<1>7. ASSUME NEW f \in ServiceFields, body.fields[f] # None
      PROVE  entry.fields[f] = body.fields[f]
  <2>1. CASE f # "peer_id"
    <3>1. Latest(Fields(posts), DOMAIN posts, f) = body.fields[f]
      BY <1>5, <1>7, LatestIs
    <3> QED
      BY <1>1, <2>1, <3>1, FieldsOfEntry DEF IInv
  <2>2. CASE f = "peer_id"
    <3>1. Len(posts) # 1
      BY <1>7, <2>2
    <3>2. Latest(Fields(posts), DOMAIN posts \ {1}, f) = body.fields[f]
      BY <1>6, <1>7, <3>1, LatestIs
    <3> QED
      BY <1>1, <1>7, <2>2, <3>2, FieldsOfEntry DEF IInv, OrDefault
  <2> QED
    BY <2>1, <2>2
<1> QED
  BY <1>2, <1>7 DEF Merge

\* A POST that is sent again changes nothing, unless the body named an id twice or
\* created the entry with a peer_id of its own.
THEOREM RetriesHarmless == Spec => []RetryHarmless
<1>1. IInv => RetryHarmless
  <2> SUFFICES ASSUME IInv, posts # <<>>, NEW body, body = posts[Len(posts)],
                      DistinctIds(ProvidersOf(body)), DistinctIds(FirstListOf(posts)),
                      Len(posts) = 1 => body.fields.peer_id = None
               PROVE  Update(entry, body) = entry
    BY DEF RetryHarmless, FirstList, FirstListOf, Named
  <2>1. Merge(entry.fields, body.fields) = entry.fields
    BY FieldsAgain
  <2>2. MergeProviders(entry.providers, body.providers) = entry.providers
    BY ProvidersAgain
  <2>3. entry \in ServiceRecords
    BY DEF IInv, Types
  <2> QED
    BY <2>1, <2>2, <2>3 DEF Update, ServiceRecords
<1> QED
  BY <1>1, Invariance, PTL

\* A look-up fails only when a provider was sent with a schema and no address.
LEMMA ResolvableLookUp ==
    ASSUME NEW service \in ServiceRecords, Addressed(ProvidersOf(service)), NEW schemas,
           schemas = HttpSchemas \/ schemas = WsSchemas
    PROVE  get_provider(service, schemas) # Panic
<1> DEFINE list == service.providers
           I == {i \in 1..Len(list) : list[i].schema \in schemas}
<1>1. None # Panic /\ Panic \notin Seq(Values)
  BY PanicAssumption
<1>2. CASE list = None
  BY <1>1, <1>2 DEF get_provider
<1>3. CASE list # None
  <2>1. list \in Seq(ProviderRecords) /\ Addressed(list)
    BY <1>3 DEF ServiceRecords, ProvidersOf
  <2>2. SelectInSeq(list, LAMBDA p : p.schema \in schemas) = IF I # {} THEN Min(I) ELSE 0
    BY DEF SelectInSeq
  <2>3. CASE I = {}
    BY <1>1, <1>3, <2>2, <2>3 DEF get_provider
  <2>4. CASE I # {}
    <3>1. Min(I) \in I
      <4>1. I \subseteq Nat
        OBVIOUS
      <4> HIDE DEF I
      <4> QED
        BY <2>4, <4>1, MinIsLeast
    <3> DEFINE p == list[Min(I)]
    <3>2. Min(I) # 0 /\ Min(I) \in DOMAIN list /\ p.schema \in schemas
      BY <2>1, <3>1
    <3>3. p.schema # None /\ p \in ProviderRecords
      <4>1. None \notin schemas
        BY ValuesAssumption
      <4>2. p \in ProviderRecords
        <5>1. \A i \in DOMAIN list : list[i] \in ProviderRecords
          BY <2>1
        <5> HIDE DEF I, list
        <5> QED
          BY <3>2, <5>1
      <4> HIDE DEF p
      <4> QED
        BY <3>2, <4>1, <4>2
    <3>4. p.base_url # None
      BY <2>1, <3>2, <3>3 DEF Addressed
    <3>5. p.schema \in Values /\ p.base_url \in Values
      BY <3>3, <3>4 DEF ProviderRecords, ProviderFields
    <3>6. get_provider(service, schemas) = <<p.schema, p.base_url>>
      <4> HIDE DEF I
      <4> QED
        BY <1>3, <2>2, <2>4, <3>2, <3>4 DEF get_provider
    <3>7. <<p.schema, p.base_url>> \in Seq(Values)
      BY <3>5
    <3> QED
      BY <1>1, <3>6, <3>7
  <2> QED
    BY <2>3, <2>4
<1> QED
  BY <1>2, <1>3

\* A look-up for a forwarded request does not panic when every provider with a
\* schema came with an address.
THEOREM LookupsSafe == Spec => []LookupNeverPanics
<1>1. IInv => LookupNeverPanics
  BY ResolvableLookUp DEF IInv, Types, Resolvable, Addressed, LookupNeverPanics,
                          get_http_provider, get_ws_provider
<1> QED
  BY <1>1, Invariance, PTL

\* The arguments of a listing.
LEMMA ListingType ==
    ASSUME NEW n \in Texts, NEW d \in Texts, NEW l \in Texts, NEW c \in Texts,
           NEW pn \in Texts, NEW sc \in Texts, NEW pp \in Texts, NEW de \in Texts
    PROVE  [name |-> n, desc |-> d, logo |-> l, createTime |-> c, providerName |-> pn,
            schema |-> sc, pricePlan |-> pp, declaimer |-> de] \in Listings
BY DEF Listings

\* A service is listed exactly when it has a provider.
LEMMA ArgumentsOf ==
    ASSUME NEW service \in ServiceRecords
    PROVE  /\ ~HasProvider(service) => apronservice_to_args(service) = Panic
           /\ HasProvider(service) => apronservice_to_args(service) # Panic
<1>1. ASSUME HasProvider(service)
      PROVE  apronservice_to_args(service) \in Listings
  <2>1. /\ service.providers[1] \in [ProviderFields -> Values \cup {None}]
        /\ service.fields \in [ServiceFields -> Values \cup {None}]
    BY <1>1 DEF HasProvider, ServiceRecords, ProviderRecords
  <2>2. \A v \in Values \cup {None} :
           OrDefault(v, "") \in Texts /\ OrDefault(v, "123456789") \in Texts
    BY DEF OrDefault, Texts
  <2>3. /\ {"name", "logo", "price_plan"} \subseteq ServiceFields
        /\ {"desc", "created_at", "name", "schema", "extra_detail"} \subseteq ProviderFields
    BY DEF ServiceFields, ProviderFields
  <2> DEFINE p == service.providers[1]
  <2> DEFINE n == OrDefault(service.fields.name, "")
             d == OrDefault(p.desc, "")
             l == OrDefault(service.fields.logo, "")
             c == OrDefault(p.created_at, "123456789")
             pn == OrDefault(p.name, "")
             sc == OrDefault(p.schema, "")
             pp == OrDefault(service.fields.price_plan, "")
             de == OrDefault(p.extra_detail, "")
  <2>4. /\ n \in Texts /\ d \in Texts /\ l \in Texts /\ c \in Texts
        /\ pn \in Texts /\ sc \in Texts /\ pp \in Texts /\ de \in Texts
    <3>1. /\ {p.desc, p.name, p.schema, p.extra_detail, p.created_at} \subseteq Values \cup {None}
          /\ {service.fields.name, service.fields.logo, service.fields.price_plan}
                 \subseteq Values \cup {None}
      BY <2>1, <2>3
    <3> HIDE DEF p
    <3> QED
      BY <2>2, <3>1
  <2>5. apronservice_to_args(service) =
            [name |-> n, desc |-> d, logo |-> l, createTime |-> c, providerName |-> pn,
             schema |-> sc, pricePlan |-> pp, declaimer |-> de]
    BY <1>1 DEF apronservice_to_args
  <2> HIDE DEF p, n, d, l, c, pn, sc, pp, de
  <2>6. [name |-> n, desc |-> d, logo |-> l, createTime |-> c, providerName |-> pn,
         schema |-> sc, pricePlan |-> pp, declaimer |-> de] \in Listings
    BY <2>4, Zenon, ListingType
  <2> QED
    BY <2>5, <2>6
<1> QED
  BY <1>1, PanicAssumption DEF apronservice_to_args

\* The arguments one by one.
LEMMA ArgumentIs ==
    ASSUME NEW service, HasProvider(service)
    PROVE  /\ apronservice_to_args(service)["name"] = OrDefault(service.fields["name"], "")
           /\ apronservice_to_args(service)["logo"] = OrDefault(service.fields["logo"], "")
           /\ apronservice_to_args(service)["pricePlan"] =
                 OrDefault(service.fields["price_plan"], "")
           /\ apronservice_to_args(service)["desc"] = OrDefault(service.providers[1]["desc"], "")
           /\ apronservice_to_args(service)["createTime"] =
                 OrDefault(service.providers[1]["created_at"], "123456789")
           /\ apronservice_to_args(service)["providerName"] =
                 OrDefault(service.providers[1]["name"], "")
           /\ apronservice_to_args(service)["schema"] =
                 OrDefault(service.providers[1]["schema"], "")
           /\ apronservice_to_args(service)["declaimer"] =
                 OrDefault(service.providers[1]["extra_detail"], "")
BY DEF apronservice_to_args

\* A POST leaves the first provider the first, and changes of it, and of the
\* fields of the service, only what the body gives.
LEMMA PostFirst ==
    ASSUME IInv, NEW body \in Bodies, Post(body), entry # NoEntry, HasProvider(entry)
    PROVE  /\ HasProvider(entry')
           /\ entry'.providers[1] \in Outcomes(entry.providers[1], ProvidersOf(body))
           /\ \A f \in ServiceFields :
                 entry'.fields[f] # entry.fields[f] =>
                     entry'.fields[f] # None /\ entry'.fields[f] = body.fields[f]
<1>1. body \in ServiceRecords /\ ProvidersOf(body) \in Seq(ProviderRecords)
  BY BodyType
<1>2. entry \in ServiceRecords /\ entry' = Update(entry, body)
  BY PostFacts
<1>3. \A f \in ServiceFields :
          entry'.fields[f] # entry.fields[f] =>
              entry'.fields[f] # None /\ entry'.fields[f] = body.fields[f]
  <2>1. \A f \in ServiceFields : Update(entry, body).fields[f] =
            IF body.fields[f] = None THEN entry.fields[f] ELSE body.fields[f]
    BY <1>1, <1>2, UpdateFacts
  <2> QED
    BY <1>2, <2>1
<1>4. /\ entry.providers # None /\ entry.providers # <<>>
      /\ entry.providers \in Seq(ProviderRecords)
  BY <1>2 DEF HasProvider, ServiceRecords
<1>5. CASE body.providers = None
  <2>1. entry'.providers = entry.providers
    BY <1>4, <1>5, PostProviders
  <2>2. entry.providers[1] \in ProviderRecords
    BY <1>4
  <2> QED
    BY <1>3, <1>4, <2>1, <2>2 DEF HasProvider, Outcomes
<1>6. CASE body.providers # None
  <2>1. /\ entry'.providers = AddProviders(entry.providers, body.providers)
        /\ entry'.providers # None
    BY <1>4, <1>6, PostProviders
  <2>2. ProvidersOf(body) = body.providers
    BY <1>6 DEF ProvidersOf
  <2>3. /\ AddProviders(entry.providers, body.providers) # <<>>
        /\ AddProviders(entry.providers, body.providers)[1]
               \in Outcomes(entry.providers[1], body.providers)
    BY <1>1, <1>4, <2>2, FirstLoop
  <2> QED
    BY <1>3, <2>1, <2>2, <2>3 DEF HasProvider
<1> QED
  BY <1>5, <1>6

\* What a POST makes of the listing.
LEMMA PostListing ==
    ASSUME IInv, NEW body \in Bodies, Post(body), entry # NoEntry, listing # Panic
    PROVE  /\ listing' # Panic
           /\ \A a \in Arguments : listing'[a] # listing[a] => listing'[a] \in Given(body)[a]
<1> DEFINE p == entry.providers[1]
           q == entry'.providers[1]
<1>1. /\ entry \in ServiceRecords /\ entry' \in ServiceRecords
      /\ listing = apronservice_to_args(entry)
      /\ listing' = apronservice_to_args(entry')
  BY PostFacts DEF IInv, Listed
<1>2. HasProvider(entry)
  BY <1>1, ArgumentsOf
<1>3. HasProvider(entry') /\ q \in Outcomes(p, ProvidersOf(body))
  BY <1>2, PostFirst
<1>4. listing' # Panic
  BY <1>1, <1>3, ArgumentsOf
<1>5. ASSUME NEW f \in ServiceFields, NEW default,
             OrDefault(entry'.fields[f], default) # OrDefault(entry.fields[f], default)
      PROVE  OrDefault(entry'.fields[f], default) \in Said(body, f)
  <2>1. entry'.fields[f] # None /\ entry'.fields[f] = body.fields[f]
    BY <1>2, <1>5, PostFirst
  <2> QED
    BY <2>1 DEF OrDefault, Said
<1>6. ASSUME NEW f \in ProviderFields, NEW default,
             OrDefault(q[f], default) # OrDefault(p[f], default)
      PROVE  OrDefault(q[f], default) \in SaidOfProvider(body, f)
  <2>1. /\ q[f] # None
        /\ \E i \in Places(ProvidersOf(body), p.id) : q[f] = ProvidersOf(body)[i][f]
    <3>1. q[f] # p[f]
      BY <1>6
    <3> HIDE DEF p, q
    <3> QED
      BY <1>3, <3>1 DEF Outcomes
  <2> HIDE DEF q
  <2> QED
    BY <2>1 DEF OrDefault, SaidOfProvider
<1>7. /\ {"name", "logo", "price_plan"} \subseteq ServiceFields
      /\ {"desc", "created_at", "name", "schema", "extra_detail"} \subseteq ProviderFields
  BY DEF ServiceFields, ProviderFields
<1>8. ASSUME NEW a \in Arguments, listing'[a] # listing[a]
      PROVE  listing'[a] \in Given(body)[a]
  <2>1. /\ Given(body)["name"] = Said(body, "name")
        /\ Given(body)["logo"] = Said(body, "logo")
        /\ Given(body)["pricePlan"] = Said(body, "price_plan")
        /\ Given(body)["desc"] = SaidOfProvider(body, "desc")
        /\ Given(body)["createTime"] = SaidOfProvider(body, "created_at")
        /\ Given(body)["providerName"] = SaidOfProvider(body, "name")
        /\ Given(body)["schema"] = SaidOfProvider(body, "schema")
        /\ Given(body)["declaimer"] = SaidOfProvider(body, "extra_detail")
    BY DEF Given
  <2>2. CASE a = "name"
    BY <1>1, <1>2, <1>3, <1>5, <1>7, <1>8, <2>1, <2>2, ArgumentIs
  <2>3. CASE a = "logo"
    BY <1>1, <1>2, <1>3, <1>5, <1>7, <1>8, <2>1, <2>3, ArgumentIs
  <2>4. CASE a = "pricePlan"
    BY <1>1, <1>2, <1>3, <1>5, <1>7, <1>8, <2>1, <2>4, ArgumentIs
  <2>5. CASE a = "desc"
    BY <1>1, <1>2, <1>3, <1>6, <1>7, <1>8, <2>1, <2>5, ArgumentIs
  <2>6. CASE a = "createTime"
    BY <1>1, <1>2, <1>3, <1>6, <1>7, <1>8, <2>1, <2>6, ArgumentIs
  <2>7. CASE a = "providerName"
    BY <1>1, <1>2, <1>3, <1>6, <1>7, <1>8, <2>1, <2>7, ArgumentIs
  <2>8. CASE a = "schema"
    BY <1>1, <1>2, <1>3, <1>6, <1>7, <1>8, <2>1, <2>8, ArgumentIs
  <2>9. CASE a = "declaimer"
    BY <1>1, <1>2, <1>3, <1>6, <1>7, <1>8, <2>1, <2>9, ArgumentIs
  <2> QED
    BY <2>2, <2>3, <2>4, <2>5, <2>6, <2>7, <2>8, <2>9 DEF Arguments
<1> QED
  BY <1>4, <1>8

\* A listing is kept, and changes only to what the operator said.
THEOREM ListingsKept == Spec => ListingKept
<1> DEFINE Kept == entry # NoEntry /\ entry' # NoEntry /\ listing # Panic =>
                      /\ listing' # Panic
                      /\ \A a \in Arguments : listing'[a] # listing[a] =>
                            listing'[a] \in Given(posts'[Len(posts')])[a]
<1>1. ASSUME IInv, NEW body \in Bodies, Post(body) PROVE Kept
  BY <1>1, PostFacts, PostListing
<1>2. ASSUME Delete PROVE Kept
  BY <1>2 DEF Delete
<1>3. ASSUME UNCHANGED vars PROVE Kept
  BY <1>3 DEF vars
<1>4. IInv /\ [Next]_vars => [Kept]_vars
  BY <1>1, <1>2, <1>3 DEF Next
<1> QED
  BY <1>4, Invariance, PTL DEF Spec, ListingKept
=============================================================================
