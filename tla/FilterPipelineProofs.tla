------------------------ MODULE FilterPipelineProofs ------------------------
(***************************************************************************)
(* Proofs about FilterPipeline, for any number of filters, any orders,     *)
(* scopes and roles, and whatever the filters do.  The first part is about *)
(* how the chain is built, the second about a run of it.                   *)
(***************************************************************************)
EXTENDS FilterPipeline, FiniteSetTheorems, TLAPS

(***************************************************************************)
(* What Ordered returns: each element of a finite set once, in the order,  *)
(* when that is strict and total.                                          *)
(***************************************************************************)

LEMMA OrderedSorts ==
  ASSUME NEW S, IsFiniteSet(S), NEW R,
         \A x \in S : <<x, x>> \notin R,
         \A x, y \in S : x # y => <<x, y>> \in R \/ <<y, x>> \in R,
         \A x, y, z \in S : <<x, y>> \in R /\ <<y, z>> \in R => <<x, z>> \in R
  PROVE  /\ Cardinality(S) \in Nat
         /\ Ordered(S, R) \in [1..Cardinality(S) -> S]
         /\ \A x \in S : \E i \in 1..Cardinality(S) : Ordered(S, R)[i] = x
         /\ \A i, j \in 1..Cardinality(S) :
              i < j => <<Ordered(S, R)[i], Ordered(S, R)[j]>> \in R
<1> DEFINE n == Cardinality(S)
           Below(x) == {y \in S : <<y, x>> \in R}
           below == [x \in S |-> Cardinality(Below(x))]
           rank == [x \in S |-> below[x] + 1]
<1>1. n \in Nat
  BY FS_CardinalityType
<1>2. ASSUME NEW x \in S
      PROVE  below[x] \in 0..(n - 1)
  <2>1. Below(x) \in SUBSET S /\ x \notin Below(x)
    OBVIOUS
  <2>2. IsFiniteSet(Below(x)) /\ Cardinality(Below(x)) <= n /\ Cardinality(Below(x)) # n
    BY <2>1, FS_Subset
  <2>3. Cardinality(Below(x)) \in Nat
    BY <2>2, FS_CardinalityType
  <2>4. below[x] = Cardinality(Below(x))
    OBVIOUS
  <2> HIDE DEF n, below, Below
  <2> QED
    BY <1>1, <2>2, <2>3, <2>4
<1>3. ASSUME NEW x \in S, NEW y \in S, <<x, y>> \in R
      PROVE  below[x] < below[y]
  <2>1. Below(x) \in SUBSET Below(y)
    BY <1>3
  <2>2. x \in Below(y) /\ x \notin Below(x)
    BY <1>3
  <2>3. IsFiniteSet(Below(y))
    BY FS_Subset
  <2>4. Cardinality(Below(x)) <= Cardinality(Below(y)) /\ Cardinality(Below(x)) # Cardinality(Below(y))
    BY <2>1, <2>2, <2>3, FS_Subset
  <2>5. below[x] = Cardinality(Below(x)) /\ below[y] = Cardinality(Below(y))
    OBVIOUS
  <2>6. below[x] \in Nat /\ below[y] \in Nat
    BY <1>1, <1>2
  <2> HIDE DEF below, Below
  <2> QED
    BY <2>4, <2>5, <2>6
<1>4. \A i \in 1..n : Ordered(S, R)[i] = CHOOSE x \in S : below[x] = i - 1
  <2>1. \A i \in 1..n : Ordered(S, R)[i] = CHOOSE x \in S : Cardinality(Below(x)) = i - 1
    BY DEF Ordered
  <2> QED
    BY <2>1
<1>5. (\A i \in 1..n : Ordered(S, R)[i] \in S) => Ordered(S, R) \in [1..n -> S]
  <2> DEFINE nth(i) == CHOOSE x \in S : Cardinality({y \in S : <<y, x>> \in R}) = i - 1
  <2>1. Ordered(S, R) = [i \in 1..n |-> nth(i)]
    BY DEF Ordered
  <2> HIDE DEF nth, n
  <2> QED
    BY <2>1
<1> HIDE DEF below, n
<1>6. rank \in [S -> 1..n]
  BY <1>1, <1>2
<1>7. ASSUME NEW x \in S, NEW y \in S, x # y
      PROVE  below[x] # below[y]
  <2>1. below[x] < below[y] \/ below[y] < below[x]
    BY <1>3, <1>7
  <2> QED
    BY <1>1, <1>2, <2>1
<1>8. rank \in Injection(S, 1..n)
  <2>1. \A x, y \in S : rank[x] = rank[y] => below[x] = below[y]
    BY <1>1, <1>2
  <2> QED
    BY <1>6, <1>7, <2>1 DEF Injection, IsInjective
<1>9. IsFiniteSet(1..n) /\ Cardinality(1..n) = n
  BY <1>1, FS_Interval
<1>10. rank \in Surjection(S, 1..n)
  BY <1>8, <1>9, FS_Injection DEF n
<1>11. ASSUME NEW i \in 1..n
       PROVE  Ordered(S, R)[i] \in S /\ below[Ordered(S, R)[i]] = i - 1
  <2>1. PICK x \in S : rank[x] = i
    BY <1>10 DEF Surjection
  <2>2. below[x] = i - 1
    BY <1>1, <1>2, <2>1
  <2> QED
    BY <1>4, <2>2
<1>12. Ordered(S, R) \in [1..n -> S]
  BY <1>5, <1>11
<1>13. ASSUME NEW x \in S
       PROVE  \E i \in 1..n : Ordered(S, R)[i] = x
  <2>1. below[x] + 1 \in 1..n /\ (below[x] + 1) - 1 = below[x]
    BY <1>1, <1>2
  <2>2. /\ Ordered(S, R)[below[x] + 1] \in S
        /\ below[Ordered(S, R)[below[x] + 1]] = below[x]
    BY <1>11, <2>1
  <2>3. Ordered(S, R)[below[x] + 1] = x
    BY <1>7, <2>2
  <2> QED
    BY <2>1, <2>3
<1>14. ASSUME NEW i \in 1..n, NEW j \in 1..n, i < j
       PROVE  <<Ordered(S, R)[i], Ordered(S, R)[j]>> \in R
  <2> DEFINE x == Ordered(S, R)[i]
             y == Ordered(S, R)[j]
  <2>1. x \in S /\ y \in S /\ below[x] = i - 1 /\ below[y] = j - 1
    BY <1>11
  <2> HIDE DEF x, y
  <2>2. below[x] < below[y] /\ ~(below[y] < below[x]) /\ x # y
    BY <1>1, <1>14, <2>1
  <2>3. <<x, y>> \in R \/ <<y, x>> \in R
    BY <2>1, <2>2
  <2>4. <<x, y>> \in R
    BY <1>3, <2>1, <2>2, <2>3
  <2> QED
    BY <2>4 DEF x, y
<1> QED
  BY <1>1, <1>12, <1>13, <1>14 DEF n

-----------------------------------------------------------------------------
(***************************************************************************)
(* The sorted list of filters.                                             *)
(***************************************************************************)

Everyone == Filters \union {Instance}

\* Descriptors, as far as they are compared.
Described(fs) == \A f \in Filters : fs[f].order \in Int /\ fs[f].scope \in Int

\* f comes before g in the list, in which the service is the first.
Outer(fs, f, g) == g # Instance /\ (f = Instance \/ Before(fs, f, g))

\* A list of filters, with the service or without.
Listed(fs, filters) ==
  /\ filters \in Seq(Everyone)
  /\ \A f \in Filters : \E k \in DOMAIN filters : filters[k] = f
  /\ \A k, l \in DOMAIN filters : k < l => Outer(fs, filters[k], filters[l])

LEMMA PlacesDiffer ==
  ASSUME NEW f \in Filters, NEW g \in Filters
  PROVE  Place(f) \in Nat /\ (Place(f) = Place(g) => f = g)
<1> DEFINE n == Cardinality(Filters)
<1>1. n \in Nat /\ ExistsBijection(1..n, Filters)
  BY FilterAssumption, FS_CardinalityType
<1>2. PICK b \in Bijection(1..n, Filters) : TRUE
  BY <1>1 DEF ExistsBijection
<1>3. b \in [1..n -> Filters] /\ IsInjective(b)
  BY <1>2 DEF Bijection, Injection
<1>4. Registration \in [1..n -> Filters] /\ IsInjective(Registration)
  BY <1>3 DEF Registration, SetToSeq
<1>5. Registration \in Injection(1..n, Filters)
  BY <1>4 DEF Injection
<1>6. IsFiniteSet(1..n) /\ Cardinality(1..n) = n
  BY <1>1, FS_Interval
<1>7. Registration \in Surjection(1..n, Filters)
  BY <1>5, <1>6, FilterAssumption, FS_Injection
<1>8. ASSUME NEW h \in Filters
      PROVE  Place(h) \in 1..n /\ Registration[Place(h)] = h
  <2>1. \E i \in 1..n : Registration[i] = h
    BY <1>7 DEF Surjection
  <2>2. DOMAIN Registration = 1..n
    BY <1>4
  <2> QED
    BY <2>1, <2>2 DEF Place
<1> QED
  BY <1>1, <1>8

LEMMA BeforeIsStrict ==
  ASSUME NEW fs, Described(fs), NEW f \in Filters, NEW g \in Filters
  PROVE  /\ ~Before(fs, f, f)
         /\ f # g => Before(fs, f, g) \/ Before(fs, g, f)
BY PlacesDiffer DEF Described, Before

LEMMA BeforeIsTransitive ==
  ASSUME NEW fs, Described(fs), NEW f \in Filters, NEW g \in Filters, NEW h \in Filters,
         Before(fs, f, g), Before(fs, g, h)
  PROVE  Before(fs, f, h)
BY PlacesDiffer DEF Described, Before

LEMMA SortedIsListed ==
  ASSUME NEW fs, Described(fs)
  PROVE  Listed(fs, Sorted(fs)) /\ \A k \in DOMAIN Sorted(fs) : Sorted(fs)[k] \in Filters
<1> DEFINE R == {p \in Filters \X Filters : Before(fs, p[1], p[2])}
<1>1. \A f, g \in Filters : <<f, g>> \in R <=> Before(fs, f, g)
  OBVIOUS
<1>2. Sorted(fs) = Ordered(Filters, R)
  BY DEF Sorted
<1> HIDE DEF R
<1>3. /\ \A x \in Filters : <<x, x>> \notin R
      /\ \A x, y \in Filters : x # y => <<x, y>> \in R \/ <<y, x>> \in R
  BY <1>1, BeforeIsStrict
<1>4. \A x, y, z \in Filters : <<x, y>> \in R /\ <<y, z>> \in R => <<x, z>> \in R
  BY <1>1, BeforeIsTransitive
<1>5. /\ Cardinality(Filters) \in Nat
      /\ Sorted(fs) \in [1..Cardinality(Filters) -> Filters]
      /\ \A x \in Filters : \E i \in 1..Cardinality(Filters) : Sorted(fs)[i] = x
      /\ \A i, j \in 1..Cardinality(Filters) : i < j => <<Sorted(fs)[i], Sorted(fs)[j]>> \in R
  BY <1>2, <1>3, <1>4, FilterAssumption, OrderedSorts
<1>6. Sorted(fs) \in Seq(Everyone) /\ DOMAIN Sorted(fs) = 1..Cardinality(Filters)
  BY <1>5 DEF Everyone
<1>7. ASSUME NEW i \in 1..Cardinality(Filters), NEW j \in 1..Cardinality(Filters), i < j
      PROVE  Outer(fs, Sorted(fs)[i], Sorted(fs)[j])
  <2>1. Sorted(fs)[i] \in Filters /\ Sorted(fs)[j] \in Filters /\ Instance \notin Filters
    BY <1>5, FilterAssumption
  <2>2. <<Sorted(fs)[i], Sorted(fs)[j]>> \in R
    BY <1>5, <1>7
  <2>3. Before(fs, Sorted(fs)[i], Sorted(fs)[j])
    BY <1>1, <2>1, <2>2
  <2> QED
    BY <2>1, <2>3 DEF Outer
<1> QED
  BY <1>5, <1>6, <1>7 DEF Listed

LEMMA InstanceIsFirst ==
  ASSUME NEW fs, NEW filters, Listed(fs, filters),
         \A k \in DOMAIN filters : filters[k] # Instance
  PROVE  Listed(fs, <<Instance>> \o filters)
<1> DEFINE all == <<Instance>> \o filters
<1>1. filters \in Seq(Everyone) /\ <<Instance>> \in Seq(Everyone)
  BY DEF Listed, Everyone
<1>2. /\ all \in Seq(Everyone) /\ DOMAIN all = 1..(Len(filters) + 1)
      /\ all[1] = Instance
      /\ \A k \in 2..(Len(filters) + 1) : k - 1 \in DOMAIN filters /\ all[k] = filters[k - 1]
      /\ \A k \in DOMAIN filters : k + 1 \in DOMAIN all /\ all[k + 1] = filters[k]
  BY <1>1
<1> HIDE DEF all
<1>3. \A f \in Filters : \E k \in DOMAIN all : all[k] = f
  BY <1>2 DEF Listed
<1>4. ASSUME NEW k \in DOMAIN all, NEW l \in DOMAIN all, k < l
      PROVE  Outer(fs, all[k], all[l])
  <2>1. l \in 2..(Len(filters) + 1)
    BY <1>1, <1>2, <1>4
  <2>2. CASE k = 1
    BY <1>2, <2>1, <2>2 DEF Outer
  <2>3. CASE k # 1
    <3>1. k \in 2..(Len(filters) + 1) /\ k - 1 < l - 1
      BY <1>1, <1>2, <1>4, <2>1, <2>3
    <3> QED
      BY <1>2, <2>1, <3>1 DEF Listed
  <2> QED
    BY <2>2, <2>3
<1> QED
  BY <1>2, <1>3, <1>4 DEF Listed, all

-----------------------------------------------------------------------------
(***************************************************************************)
(* One loop over the list, and the chain from a stage on.                  *)
(***************************************************************************)

Roles == {"init", "binding", "sync", "async", "received"}
Link == [filter: Everyone, role: Roles]
Loops == {"init", "binding", "action", "received"}

\* The roles that a loop gives.
RolesIn(loop) == IF loop = "action" THEN {"sync", "async"} ELSE {loop}

\* What a loop puts around the chain: for each filter with a role in it one link.
Turned(fs, loop, part) ==
  /\ part \in Seq(Link)
  /\ \A i \in DOMAIN part : part[i].role \in RolesIn(loop)
  /\ \A i, j \in DOMAIN part : i < j => Outer(fs, part[i].filter, part[j].filter)
  /\ \A f \in Filters : (\E i \in DOMAIN part : part[i].filter = f) <=> RoleIn(fs, loop, f) # {}

LEMMA RoleInLoop ==
  ASSUME NEW fs, NEW loop \in Loops, NEW f
  PROVE  RoleIn(fs, loop, f) \subseteq RolesIn(loop) /\ RolesIn(loop) \subseteq Roles
BY DEF RoleIn, RolesIn, Roles, Loops

LEMMA RoleInFilter ==
  ASSUME NEW fs, NEW loop \in Loops, NEW f \in Filters
  PROVE  RoleIn(fs, loop, f) = {} <=> fs[f].roles \intersect RolesIn(loop) = {}
BY FilterAssumption DEF RoleIn, RolesOf, RolesIn, Loops

LEMMA WrapPutsAround ==
  ASSUME NEW fs, NEW filters, Listed(fs, filters), NEW loop \in Loops, NEW links
  PROVE  \E part : Turned(fs, loop, part) /\ Wrap(fs, filters, loop, links) = part \o links
<1> DEFINE places == DOMAIN filters
           P == {k \in places : RoleIn(fs, loop, filters[k]) # {}}
           R == {p \in places \X places : p[1] < p[2]}
           used == Ordered(P, R)
           n == Cardinality(P)
           part == [i \in DOMAIN used |->
                      [filter |-> filters[used[i]],
                       role |-> CHOOSE r \in RoleIn(fs, loop, filters[used[i]]) : TRUE]]
<1>1. filters \in Seq(Everyone) /\ Len(filters) \in Nat /\ places = 1..Len(filters)
  BY DEF Listed
<1>2. IsFiniteSet(P)
  <2>1. IsFiniteSet(1..Len(filters)) /\ P \in SUBSET (1..Len(filters))
    BY <1>1, FS_Interval
  <2> QED
    BY <2>1, FS_Subset
<1>3. /\ \A x \in P : <<x, x>> \notin R
      /\ \A x, y \in P : x # y => <<x, y>> \in R \/ <<y, x>> \in R
      /\ \A x, y, z \in P : <<x, y>> \in R /\ <<y, z>> \in R => <<x, z>> \in R
      /\ \A x, y \in P : <<x, y>> \in R => x < y
  BY <1>1
<1>4. Wrap(fs, filters, loop, links) = part \o links
  BY DEF Wrap
<1>5. \A k \in P : k \in places /\ RoleIn(fs, loop, filters[k]) # {}
  OBVIOUS
<1>6. \A k \in places : RoleIn(fs, loop, filters[k]) # {} => k \in P
  OBVIOUS
<1> HIDE DEF P, R
<1>7. /\ n \in Nat
      /\ used \in [1..n -> P]
      /\ \A x \in P : \E i \in 1..n : used[i] = x
      /\ \A i, j \in 1..n : i < j => <<used[i], used[j]>> \in R
  BY <1>2, <1>3, OrderedSorts
<1> HIDE DEF used, n
<1>8. ASSUME NEW i \in 1..n
      PROVE  /\ used[i] \in P /\ used[i] \in places
             /\ part[i].filter = filters[used[i]]
             /\ part[i].filter \in Everyone
             /\ part[i].role \in RoleIn(fs, loop, filters[used[i]])
             /\ part[i] \in Link
  <2>1. used[i] \in P /\ used[i] \in places /\ RoleIn(fs, loop, filters[used[i]]) # {}
    BY <1>5, <1>7
  <2>2. part[i] = [filter |-> filters[used[i]],
                   role |-> CHOOSE r \in RoleIn(fs, loop, filters[used[i]]) : TRUE]
    BY <1>7
  <2>3. filters[used[i]] \in Everyone
    BY <1>1, <2>1
  <2>4. part[i].role \in RoleIn(fs, loop, filters[used[i]])
    BY <2>1, <2>2
  <2>5. part[i].role \in Roles
    BY <2>4, RoleInLoop
  <2> QED
    BY <2>1, <2>2, <2>3, <2>4, <2>5 DEF Link
<1>9. DOMAIN part = 1..n
  BY <1>7
<1>10. part \in Seq(Link)
  <2>1. part \in [1..n -> Link]
    BY <1>7, <1>8
  <2> QED
    BY <1>7, <2>1
<1>11. \A i \in DOMAIN part : part[i].role \in RolesIn(loop)
  BY <1>8, <1>9, RoleInLoop
<1>12. ASSUME NEW i \in DOMAIN part, NEW j \in DOMAIN part, i < j
       PROVE  Outer(fs, part[i].filter, part[j].filter)
  <2>1. used[i] \in P /\ used[j] \in P /\ <<used[i], used[j]>> \in R
    BY <1>7, <1>9, <1>12
  <2>2. used[i] < used[j] /\ used[i] \in places /\ used[j] \in places
    BY <1>3, <1>5, <2>1
  <2>3. Outer(fs, filters[used[i]], filters[used[j]])
    BY <2>2 DEF Listed
  <2> QED
    BY <1>8, <1>9, <2>3
<1>13. ASSUME NEW f \in Filters
       PROVE  (\E i \in DOMAIN part : part[i].filter = f) <=> RoleIn(fs, loop, f) # {}
  <2>1. ASSUME NEW i \in DOMAIN part, part[i].filter = f
        PROVE  RoleIn(fs, loop, f) # {}
    BY <1>8, <1>9, <2>1
  <2>2. ASSUME RoleIn(fs, loop, f) # {}
        PROVE  \E i \in DOMAIN part : part[i].filter = f
    <3>1. PICK k \in places : filters[k] = f
      BY DEF Listed
    <3>2. PICK i \in 1..n : used[i] = k
      BY <1>6, <1>7, <2>2, <3>1
    <3> QED
      BY <1>8, <1>9, <3>1, <3>2
  <2> QED
    BY <2>1, <2>2
<1>14. Turned(fs, loop, part)
  BY <1>10, <1>11, <1>12, <1>13 DEF Turned
<1> HIDE DEF part
<1> QED
  BY <1>4, <1>14

HostLoops == <<"init", "binding", "action">>
ClientLoops == <<"init", "action", "received">>

\* A chain with the links of the loops from the n-th on.
Built(fs, loops, n, c) ==
  /\ c \in Seq(Link)
  /\ \A i \in DOMAIN c : \E s \in n..3 : c[i].role \in RolesIn(loops[s])
  /\ \A i, j \in DOMAIN c, s, t \in 1..3 :
       i < j /\ c[i].role \in RolesIn(loops[s]) /\ c[j].role \in RolesIn(loops[t]) =>
         \/ s < t
         \/ s = t /\ Outer(fs, c[i].filter, c[j].filter)
  /\ \A f \in Filters, s \in n..3 :
       (\E i \in DOMAIN c : c[i].filter = f /\ c[i].role \in RolesIn(loops[s]))
         <=> RoleIn(fs, loops[s], f) # {}

LEMMA LoopsDiffer ==
  ASSUME NEW loops \in {HostLoops, ClientLoops}, NEW s \in 1..3
  PROVE  /\ loops[s] \in Loops
         /\ \A t \in 1..3 : s # t => RolesIn(loops[s]) \intersect RolesIn(loops[t]) = {}
BY DEF HostLoops, ClientLoops, Loops, RolesIn

LEMMA NothingBuilt ==
  ASSUME NEW fs, NEW loops
  PROVE  Built(fs, loops, 4, <<>>)
BY DEF Built

LEMMA WrapBuilds ==
  ASSUME NEW fs, NEW filters, Listed(fs, filters),
         NEW loops \in {HostLoops, ClientLoops}, NEW n \in 1..3,
         NEW links, Built(fs, loops, n + 1, links)
  PROVE  Built(fs, loops, n, Wrap(fs, filters, loops[n], links))
<1>1. PICK part : /\ Turned(fs, loops[n], part)
                  /\ Wrap(fs, filters, loops[n], links) = part \o links
  BY LoopsDiffer, WrapPutsAround
<1> DEFINE c == part \o links
           p == Len(part)
<1>2. part \in Seq(Link) /\ links \in Seq(Link) /\ p \in Nat /\ Len(links) \in Nat
  BY <1>1 DEF Turned, Built
<1>3. /\ c \in Seq(Link) /\ DOMAIN c = 1..(p + Len(links))
      /\ \A i \in DOMAIN part : i \in DOMAIN c /\ c[i] = part[i]
      /\ \A i \in DOMAIN c : i <= p => i \in DOMAIN part /\ c[i] = part[i]
      /\ \A i \in DOMAIN links : i + p \in DOMAIN c /\ c[i + p] = links[i]
      /\ \A i \in DOMAIN c : i > p => i - p \in DOMAIN links /\ c[i] = links[i - p]
  BY <1>2
<1> HIDE DEF c, p
<1>4. \A i \in DOMAIN part : part[i].role \in RolesIn(loops[n])
  BY <1>1 DEF Turned
<1>5. ASSUME NEW i \in DOMAIN links
      PROVE  \E s \in (n + 1)..3 : links[i].role \in RolesIn(loops[s])
  BY DEF Built
<1>6. ASSUME NEW i \in DOMAIN c
      PROVE  \E s \in n..3 : c[i].role \in RolesIn(loops[s])
  <2>1. CASE i <= p
    BY <1>3, <1>4, <2>1
  <2>2. CASE i > p
    <3>1. PICK s \in (n + 1)..3 : links[i - p].role \in RolesIn(loops[s])
      BY <1>3, <1>5, <2>2
    <3> QED
      BY <1>3, <2>2, <3>1
  <2> QED
    BY <1>2, <1>3, <2>1, <2>2
<1>7. ASSUME NEW i \in DOMAIN c, NEW j \in DOMAIN c, NEW s \in 1..3, NEW t \in 1..3, i < j,
             c[i].role \in RolesIn(loops[s]), c[j].role \in RolesIn(loops[t])
      PROVE  s < t \/ (s = t /\ Outer(fs, c[i].filter, c[j].filter))
  <2>1. CASE j <= p
    <3>1. /\ i \in DOMAIN part /\ j \in DOMAIN part /\ c[i] = part[i] /\ c[j] = part[j]
      BY <1>2, <1>3, <1>7, <2>1
    <3>2. s = n /\ t = n
      BY <1>4, <1>7, <3>1, LoopsDiffer
    <3> QED
      BY <1>1, <1>7, <3>1, <3>2 DEF Turned
  <2>2. CASE i <= p /\ j > p
    <3>1. /\ i \in DOMAIN part /\ c[i] = part[i]
          /\ j - p \in DOMAIN links /\ c[j] = links[j - p]
      BY <1>3, <2>2
    <3>2. s = n
      BY <1>4, <1>7, <3>1, LoopsDiffer
    <3>3. PICK u \in (n + 1)..3 : links[j - p].role \in RolesIn(loops[u])
      BY <1>5, <3>1
    <3>4. u \in 1..3 /\ u > n
      OBVIOUS
    <3>5. u = t
      BY <1>7, <3>1, <3>3, <3>4, LoopsDiffer
    <3> QED
      BY <3>2, <3>4, <3>5
  <2>3. CASE i > p
    <3>1. /\ i - p \in DOMAIN links /\ c[i] = links[i - p]
          /\ j - p \in DOMAIN links /\ c[j] = links[j - p] /\ i - p < j - p
      BY <1>2, <1>3, <1>7, <2>3
    <3> QED
      BY <1>7, <3>1 DEF Built
  <2> QED
    BY <1>2, <1>3, <2>1, <2>2, <2>3
<1>8. ASSUME NEW f \in Filters, NEW s \in n..3
      PROVE  (\E i \in DOMAIN c : c[i].filter = f /\ c[i].role \in RolesIn(loops[s]))
               <=> RoleIn(fs, loops[s], f) # {}
  <2>1. CASE s = n
    <3>1. ASSUME NEW i \in DOMAIN c, c[i].role \in RolesIn(loops[n])
          PROVE  i \in DOMAIN part /\ c[i] = part[i]
      <4>1. CASE i <= p
        BY <1>3, <4>1
      <4>2. CASE i > p
        <5>1. i - p \in DOMAIN links /\ c[i] = links[i - p]
          BY <1>3, <4>2
        <5>2. PICK u \in (n + 1)..3 : links[i - p].role \in RolesIn(loops[u])
          BY <1>5, <5>1
        <5>3. u \in 1..3 /\ u # n
          OBVIOUS
        <5> QED
          BY <3>1, <5>1, <5>2, <5>3, LoopsDiffer
      <4> QED
        BY <1>2, <1>3, <4>1, <4>2
    <3>2. (\E i \in DOMAIN part : part[i].filter = f) <=> RoleIn(fs, loops[n], f) # {}
      BY <1>1 DEF Turned
    <3> QED
      BY <1>3, <1>4, <2>1, <3>1, <3>2
  <2>2. CASE s # n
    <3>1. s \in (n + 1)..3 /\ s \in 1..3
      BY <2>2
    <3>2. (\E i \in DOMAIN links : links[i].filter = f /\ links[i].role \in RolesIn(loops[s]))
            <=> RoleIn(fs, loops[s], f) # {}
      BY <3>1 DEF Built
    <3>3. ASSUME NEW i \in DOMAIN c, c[i].role \in RolesIn(loops[s])
          PROVE  i - p \in DOMAIN links /\ c[i] = links[i - p]
      <4>1. CASE i <= p
        BY <1>3, <1>4, <2>2, <3>1, <3>3, <4>1, LoopsDiffer
      <4> QED
        BY <1>2, <1>3, <4>1
    <3> QED
      BY <1>3, <3>2, <3>3
  <2> QED
    BY <2>1, <2>2
<1>9. Built(fs, loops, n, c)
  BY <1>3, <1>6, <1>7, <1>8 DEF Built
<1> QED
  BY <1>1, <1>9 DEF c

-----------------------------------------------------------------------------
(***************************************************************************)
(* The whole chain.                                                        *)
(***************************************************************************)

LoopsOf(s) == IF s = "host" THEN HostLoops ELSE ClientLoops

\* The chain is built of the filters that are registered.
ChainInv ==
  /\ side \in {"host", "client"}
  /\ Described(filter)
  /\ Built(filter, LoopsOf(side), 1, chain)

LEMMA HostChainBuilt ==
  ASSUME NEW fs, Described(fs), NEW b \in BOOLEAN
  PROVE  Built(fs, HostLoops, 1, HostChain(fs, b))
<1> DEFINE filters == (IF b THEN <<Instance>> ELSE <<>>) \o Sorted(fs)
<1>1. Listed(fs, Sorted(fs)) /\ Sorted(fs) \in Seq(Everyone)
  BY SortedIsListed DEF Listed
<1>2. \A k \in DOMAIN Sorted(fs) : Sorted(fs)[k] # Instance
  BY SortedIsListed, FilterAssumption
<1>3. Listed(fs, filters)
  <2>1. CASE b
    BY <1>1, <1>2, <2>1, InstanceIsFirst
  <2>2. CASE ~b
    <3>1. <<>> \o Sorted(fs) = Sorted(fs)
      BY <1>1
    <3> QED
      BY <1>1, <2>2, <3>1
  <2> QED
    BY <2>1, <2>2
<1> DEFINE actions == Wrap(fs, filters, "action", <<>>)
           bindings == Wrap(fs, filters, "binding", actions)
           inits == Wrap(fs, filters, "init", bindings)
<1>4. HostChain(fs, b) = inits
  BY DEF HostChain
<1> HIDE DEF filters
<1>5. /\ HostLoops \in {HostLoops, ClientLoops}
      /\ HostLoops[1] = "init" /\ HostLoops[2] = "binding" /\ HostLoops[3] = "action"
      /\ 3 + 1 = 4 /\ 2 + 1 = 3 /\ 1 + 1 = 2 /\ 1 \in 1..3 /\ 2 \in 1..3 /\ 3 \in 1..3
  BY DEF HostLoops
<1>6. Built(fs, HostLoops, 3, actions)
  BY <1>3, <1>5, NothingBuilt, WrapBuilds
<1> HIDE DEF actions
<1>7. Built(fs, HostLoops, 2, bindings)
  BY <1>3, <1>5, <1>6, WrapBuilds
<1> HIDE DEF bindings
<1>8. Built(fs, HostLoops, 1, inits)
  BY <1>3, <1>5, <1>7, WrapBuilds
<1> QED
  BY <1>4, <1>8

LEMMA ClientChainBuilt ==
  ASSUME NEW fs, Described(fs)
  PROVE  Built(fs, ClientLoops, 1, ClientChain(fs))
<1> DEFINE filters == Sorted(fs)
           responses == Wrap(fs, filters, "received", <<>>)
           actions == Wrap(fs, filters, "action", responses)
           inits == Wrap(fs, filters, "init", actions)
<1>1. Listed(fs, filters)
  BY SortedIsListed
<1>2. ClientChain(fs) = inits
  BY DEF ClientChain
<1> HIDE DEF filters
<1>3. /\ ClientLoops \in {HostLoops, ClientLoops}
      /\ ClientLoops[1] = "init" /\ ClientLoops[2] = "action" /\ ClientLoops[3] = "received"
      /\ 3 + 1 = 4 /\ 2 + 1 = 3 /\ 1 + 1 = 2 /\ 1 \in 1..3 /\ 2 \in 1..3 /\ 3 \in 1..3
  BY DEF ClientLoops
<1>4. Built(fs, ClientLoops, 3, responses)
  BY <1>1, <1>3, NothingBuilt, WrapBuilds
<1> HIDE DEF responses
<1>5. Built(fs, ClientLoops, 2, actions)
  BY <1>1, <1>3, <1>4, WrapBuilds
<1> HIDE DEF actions
<1>6. Built(fs, ClientLoops, 1, inits)
  BY <1>1, <1>3, <1>5, WrapBuilds
<1> QED
  BY <1>2, <1>6

LEMMA ChainInit == Init => ChainInv
<1> SUFFICES ASSUME Init
             PROVE  ChainInv
  OBVIOUS
<1>1. side \in {"host", "client"}
  BY DEF Init
<1>2. \A f \in Filters : /\ filter[f].order \in Orders
                         /\ filter[f].scope \in IF side = "host" THEN Scopes ELSE {0}
  BY DEF Init
<1>3. Described(filter)
  <2>1. Orders \subseteq Int /\ Scopes \subseteq Int /\ {0} \subseteq Int
    BY FilterAssumption
  <2> QED
    BY <1>2, <2>1 DEF Described
<1>4. CASE side = "host"
  <2>1. PICK b \in BOOLEAN : chain = HostChain(filter, b)
    BY <1>4 DEF Init
  <2>2. Built(filter, HostLoops, 1, chain)
    BY <1>3, <2>1, HostChainBuilt
  <2> QED
    BY <1>1, <1>2, <1>3, <1>4, <2>2 DEF ChainInv, LoopsOf
<1>5. CASE side = "client"
  <2>1. chain = ClientChain(filter)
    BY <1>5 DEF Init
  <2>2. Built(filter, ClientLoops, 1, chain)
    BY <1>3, <2>1, ClientChainBuilt
  <2> QED
    BY <1>1, <1>2, <1>3, <1>5, <2>2 DEF ChainInv, LoopsOf
<1> QED
  BY <1>1, <1>4, <1>5

\* No step touches the chain, or the filters that it is built of.
LEMMA ChainStays == [Next]_vars => UNCHANGED <<side, filter, chain>>
BY DEF Next, Step, vars, Throw, CallSimple, PassBack, CallSync, ReturnSync, CallAsync, Object,
       InvokeNext, ResumeAsync, ReturnAsync, Run, SkipRun

LEMMA ChainNext == ChainInv /\ [Next]_vars => ChainInv'
<1> SUFFICES ASSUME ChainInv, [Next]_vars
             PROVE  ChainInv'
  OBVIOUS
<1>1. side' = side /\ filter' = filter /\ chain' = chain
  BY ChainStays
<1> QED
  BY <1>1 DEF ChainInv, Described, Built, LoopsOf, Outer, Before, RoleIn, RolesOf

LEMMA ChainInvariant == Spec => []ChainInv
<1>1. Init => ChainInv
  BY ChainInit
<1>2. ChainInv /\ [Next]_vars => ChainInv'
  BY ChainNext
<1> QED
  BY <1>1, <1>2, PTL DEF Spec

LEMMA StagesAreLoops ==
  ASSUME ChainInv, NEW s \in 1..3
  PROVE  Stages[s] = RolesIn(LoopsOf(side)[s])
BY DEF ChainInv, Stages, LoopsOf, HostLoops, ClientLoops, RolesIn

LEMMA BuiltIsOuterFirst == ChainInv => OuterFirst
<1> SUFFICES ASSUME ChainInv
             PROVE  OuterFirst
  OBVIOUS
<1> DEFINE loops == LoopsOf(side)
<1>1. loops \in {HostLoops, ClientLoops} /\ Built(filter, loops, 1, chain) /\ Described(filter)
  BY DEF ChainInv, LoopsOf
<1>2. \A s \in 1..3 : Stages[s] = RolesIn(loops[s])
  BY StagesAreLoops
<1> HIDE DEF loops
<1>3. ASSUME NEW i \in DOMAIN chain, NEW s \in 1..3, chain[i].role \in RolesIn(loops[s])
      PROVE  Stage(i) = s
  <2>1. \A t \in 1..3 : chain[i].role \in Stages[t] => t = s
    BY <1>1, <1>2, <1>3, LoopsDiffer
  <2>2. chain[i].role \in Stages[s]
    BY <1>2, <1>3
  <2> QED
    BY <2>1, <2>2 DEF Stage
<1>4. ASSUME NEW i \in DOMAIN chain
      PROVE  /\ Stage(i) \in 1..3 /\ chain[i].role \in RolesIn(loops[Stage(i)])
             /\ chain[i].filter \in Everyone
  <2>1. PICK s \in 1..3 : chain[i].role \in RolesIn(loops[s])
    BY <1>1 DEF Built
  <2>2. Stage(i) = s
    BY <1>3, <2>1
  <2>3. chain[i] \in Link
    BY <1>1 DEF Built
  <2> QED
    BY <2>1, <2>2, <2>3 DEF Link
<1>5. ASSUME NEW i \in DOMAIN chain, NEW j \in DOMAIN chain, i < j
      PROVE  \/ Stage(i) < Stage(j)
             \/ Stage(i) = Stage(j) /\ Outer(filter, chain[i].filter, chain[j].filter)
  BY <1>1, <1>4, <1>5 DEF Built
<1>6. ASSUME NEW i \in DOMAIN chain, NEW j \in DOMAIN chain, i < j,
             ~(Stage(i) < Stage(j)), ~(Stage(i) = Stage(j) /\ chain[i].filter = Instance)
      PROVE  /\ Stage(i) = Stage(j) /\ Instance \notin {chain[i].filter, chain[j].filter}
             /\ LET a == filter[chain[i].filter]
                    b == filter[chain[j].filter]
                IN  a.order < b.order \/ (a.order = b.order /\ a.scope <= b.scope)
  <2>1. /\ Stage(i) = Stage(j) /\ chain[i].filter # Instance /\ chain[j].filter # Instance
        /\ Before(filter, chain[i].filter, chain[j].filter)
    BY <1>5, <1>6 DEF Outer
  <2>2. chain[i].filter \in Filters /\ chain[j].filter \in Filters
    BY <1>4, <2>1 DEF Everyone
  <2>3. /\ filter[chain[i].filter].scope \in Int
        /\ filter[chain[j].filter].scope \in Int
    BY <1>1, <2>2 DEF Described
  <2> QED
    BY <2>1, <2>3 DEF Before
<1>7. ASSUME NEW f \in Filters, NEW s \in 1..3
      PROVE  Cardinality({i \in DOMAIN chain : chain[i].filter = f /\ Stage(i) = s})
               = IF filter[f].roles \intersect Stages[s] = {} THEN 0 ELSE 1
  <2> DEFINE its == {i \in DOMAIN chain : chain[i].filter = f /\ Stage(i) = s}
  <2>1. (\E i \in DOMAIN chain : chain[i].filter = f /\ chain[i].role \in RolesIn(loops[s]))
          <=> RoleIn(filter, loops[s], f) # {}
    BY <1>1 DEF Built
  <2>2. RoleIn(filter, loops[s], f) = {} <=> filter[f].roles \intersect Stages[s] = {}
    BY <1>1, <1>2, LoopsDiffer, RoleInFilter
  <2>3. its = {} <=> filter[f].roles \intersect Stages[s] = {}
    BY <1>3, <1>4, <2>1, <2>2
  <2>4. ASSUME NEW i \in its, NEW j \in its, i < j
        PROVE  FALSE
    <3>1. Outer(filter, f, f)
      BY <1>4, <1>5, <2>4
    <3> QED
      BY <1>1, <3>1, BeforeIsStrict, FilterAssumption DEF Outer
  <2>5. \A i \in its : i \in Int
    BY <1>1 DEF Built
  <2>6. \A i, j \in its : i = j
    BY <2>4, <2>5
  <2> HIDE DEF its
  <2>7. CASE its = {}
    BY <2>3, <2>7, FS_EmptySet DEF its
  <2>8. CASE its # {}
    <3>1. PICK i : its = {i}
      BY <2>6, <2>8
    <3>2. Cardinality(its) = 1
      BY <3>1, FS_Singleton
    <3> QED
      BY <2>3, <2>8, <3>2 DEF its
  <2> QED
    BY <2>7, <2>8
<1> QED
  BY <1>6, <1>7 DEF OuterFirst

\* The chain has the outer filters first, and each filter in each of its stages once,
\* however many filters there are (InvokeActionAsync and Invoke).
THEOREM ChainIsOuterFirst == Spec => []OuterFirst
BY ChainInvariant, BuiltIsOuterFirst, PTL

-----------------------------------------------------------------------------
(***************************************************************************)
(* A run of the chain.                                                     *)
(***************************************************************************)

Ways == {"call", "inside", "return", "throw"}

\* Only an asynchronous filter has code around its delegate.
RunInv ==
  /\ chain \in Seq(Link)
  /\ at \in Int /\ way \in Ways
  /\ calls \in [DOMAIN chain -> Nat]
  /\ canceled \in BOOLEAN /\ swallowed \in BOOLEAN
  /\ way = "inside" => Role = "async"

LEMMA Roled ==
  ASSUME RunInv, Role # Nothing
  PROVE  at \in DOMAIN chain /\ Role = chain[at].role /\ Me \in Everyone /\ at \in 1..Len(chain)
<1>1. at \in DOMAIN chain /\ Role = chain[at].role
  BY DEF Role
<1>2. chain[at] \in Link /\ at \in 1..Len(chain)
  BY <1>1 DEF RunInv
<1> QED
  BY <1>1, <1>2 DEF Link, Me

LEMMA RunInit == Init => RunInv
<1> SUFFICES ASSUME Init
             PROVE  RunInv
  OBVIOUS
<1>1. chain \in Seq(Link)
  BY ChainInit DEF ChainInv, Built
<1>2. at = 1 /\ way = "call" /\ calls = [i \in DOMAIN chain |-> 0]
  BY DEF Init
<1>3. canceled = FALSE /\ swallowed = FALSE
  BY DEF Init
<1>4. calls \in [DOMAIN chain -> Nat]
  BY <1>2
<1>5. way # "inside" /\ way \in Ways /\ at \in Int
  BY <1>2 DEF Ways
<1> QED
  BY <1>1, <1>3, <1>4, <1>5 DEF RunInv

LEMMA RunNext == RunInv /\ [Next]_vars => RunInv'
<1> SUFFICES ASSUME RunInv, [Next]_vars
             PROVE  RunInv'
  OBVIOUS
<1>1. chain' = chain
  BY ChainStays
<1>2. CASE UNCHANGED vars
  BY <1>2 DEF RunInv, vars, contexts, Role
<1>3. CASE Throw \/ CallSimple \/ PassBack
  BY <1>1, <1>3 DEF RunInv, Throw, CallSimple, PassBack, Turn, contexts, Ways
<1>4. CASE CallSync
  <2>1. CASE executing' = Clear
    BY <1>1, <1>4, <2>1 DEF RunInv, CallSync, CallNext, Turn, Ways
  <2>2. CASE executing' # Clear
    BY <1>1, <1>4, <2>2 DEF RunInv, CallSync, CallNext, Turn, Ways
  <2> QED
    BY <2>1, <2>2
<1>5. CASE ReturnSync \/ Run \/ SkipRun
  BY <1>1, <1>5 DEF RunInv, ReturnSync, Run, SkipRun, Turn, contexts, Ways
<1>6. CASE CallAsync
  BY <1>1, <1>6 DEF RunInv, CallAsync, Turn, contexts, Ways, Role
<1>7. CASE Object
  BY <1>1, <1>7 DEF RunInv, Object, Role
<1>8. CASE InvokeNext
  <2>1. at \in DOMAIN chain
    BY <1>8, Roled DEF InvokeNext, RunInv, Nothing
  <2>2. calls' \in [DOMAIN chain -> Nat]
    BY <1>8, <2>1 DEF InvokeNext, RunInv
  <2>3. CASE executing' = Clear
    BY <1>1, <1>8, <2>2, <2>3 DEF RunInv, InvokeNext, CallNext, Turn, Ways
  <2>4. CASE executing' # Clear
    BY <1>1, <1>8, <2>2, <2>4 DEF RunInv, InvokeNext, CallNext, Turn, Ways, Role
  <2> QED
    BY <2>3, <2>4
<1>9. CASE ResumeAsync
  BY <1>1, <1>9 DEF RunInv, ResumeAsync, Turn, contexts, Ways, Role
<1>10. CASE ReturnAsync
  BY <1>1, <1>10 DEF RunInv, ReturnAsync, Turn, Ways
<1> QED
  BY <1>2, <1>3, <1>4, <1>5, <1>6, <1>7, <1>8, <1>9, <1>10 DEF Next, Step

\* A link is only ever called with clear contexts: what a filter has set is passed on.
Clean == way = "call" => executing = Clear

LEMMA CleanNext == Clean /\ [Next]_vars => Clean'
BY DEF Clean, Next, Step, vars, contexts, Throw, CallSimple, PassBack, CallSync, ReturnSync,
       CallAsync, Object, InvokeNext, ResumeAsync, ReturnAsync, Run, SkipRun, CallNext, Turn

LEMMA CleanInvariant == Spec => []Clean
<1>1. Init => Clean
  BY DEF Init, Clean
<1> QED
  BY <1>1, CleanNext, PTL DEF Spec

\* A set answer keeps the action and the filters further in from running, whoever has
\* set it and however often delegates are called (the two ExecuteAsync that look at
\* the context before they go on).
THEOREM AnswersShortCircuit == Spec => ShortCircuits
<1> DEFINE Short == executing # Clear /\ executing' = executing => ~AtEnd /\ open' \subseteq open
<1>1. Clean /\ [Next]_vars => [Short]_vars
  <2> SUFFICES ASSUME Clean, Next
               PROVE  Short
    BY DEF vars
  <2> SUFFICES ASSUME executing # Clear
               PROVE  ~AtEnd /\ (executing' = executing => open' \subseteq open)
    OBVIOUS
  <2>1. way # "call"
    BY DEF Clean
  <2> QED
    BY <2>1 DEF AtEnd, Next, Step, contexts, Throw, CallSimple, PassBack, CallSync, ReturnSync,
                CallAsync, Object, InvokeNext, ResumeAsync, ReturnAsync, Run, SkipRun
<1> QED
  BY <1>1, CleanInvariant, PTL DEF Spec, ShortCircuits

LEMMA RunInvariant == Spec => []RunInv
BY RunInit, RunNext, PTL DEF Spec

NestedInv == RunInv /\ Nested

LEMMA NestedNext == NestedInv /\ [Next]_vars => Nested'
<1> SUFFICES ASSUME NestedInv, [Next]_vars, ~swallowed', way' # "throw",
                    NEW i \in DOMAIN chain, chain[i].role \in {"sync", "async"}
             PROVE  (i \in open' <=> i < at' \/ (i = at' /\ way' # "call"))
  BY ChainStays DEF Nested
<1>1. i \in Int /\ i \in 1..Len(chain) /\ at \in Int
  BY DEF NestedInv, RunInv
<1>2. ~swallowed /\ way # "throw" => (i \in open <=> i < at \/ (i = at /\ way # "call"))
  BY DEF NestedInv, Nested
<1>3. i = at => Role = chain[i].role /\ ~Simple
  BY DEF Role, Simple
<1>4. CASE UNCHANGED vars
  BY <1>2, <1>4 DEF vars, contexts
<1>5. CASE Throw
  BY <1>5 DEF Throw, Turn
<1>6. CASE CallSimple
  BY <1>1, <1>2, <1>3, <1>6 DEF CallSimple, Turn
<1>7. CASE PassBack
  BY <1>1, <1>2, <1>3, <1>7 DEF PassBack, Turn
<1>8. CASE CallSync
  BY <1>1, <1>2, <1>8 DEF CallSync, CallNext, Turn
<1>9. CASE ReturnSync
  BY <1>1, <1>2, <1>9 DEF ReturnSync, Turn
<1>10. CASE CallAsync
  BY <1>1, <1>2, <1>10 DEF CallAsync, Turn
<1>11. CASE Object
  BY <1>1, <1>2, <1>11 DEF Object
<1>12. CASE InvokeNext
  BY <1>1, <1>2, <1>12 DEF InvokeNext, CallNext, Turn
<1>13. CASE ResumeAsync
  BY <1>1, <1>2, <1>13 DEF ResumeAsync, Turn, NestedInv, RunInv
<1>14. CASE ReturnAsync
  BY <1>1, <1>2, <1>14 DEF ReturnAsync, Turn, NestedInv, RunInv
<1>15. CASE Run \/ SkipRun
  BY <1>1, <1>2, <1>15 DEF Run, SkipRun, AtEnd, Turn
<1> QED
  BY <1>4, <1>5, <1>6, <1>7, <1>8, <1>9, <1>10, <1>11, <1>12, <1>13, <1>14, <1>15 DEF Next, Step

\* Whatever filters set and however often they call their delegates, each that began
\* around the link that runs has its end still to come, and no other has, unless an
\* exception is on its way out or was swallowed (ExecuteAsync of the filter chains).
THEOREM FiltersNest == Spec => []Nested
<1>1. Init => Nested
  <2> SUFFICES ASSUME Init, NEW i \in DOMAIN chain
               PROVE  ~(i < 1)
    BY DEF Init, Nested
  <2>1. chain \in Seq(Link)
    BY RunInit DEF RunInv
  <2> QED
    BY <2>1
<1>2. NestedInv /\ [Next]_vars => NestedInv'
  BY RunNext, NestedNext DEF NestedInv
<1> QED
  BY <1>1, <1>2, RunInit, PTL DEF Spec, NestedInv

\* Where the pipeline has been answered: on the way back, in a filter whose delegate
\* has come back, and ever after a filter was given its own answer.
Answered ==
  ~swallowed /\ (way = "return" \/ canceled \/ (way = "inside" /\ calls[at] # 0)) =>
    executed # Clear

AnswerInv == RunInv /\ Answered

LEMMA AnAnswer ==
  ASSUME NEW v \in Everyone \union {Action}
  PROVE  v # Nothing
BY FilterAssumption DEF Everyone, Action, Nothing

LEMMA AnsweredNext == AnswerInv /\ [Next]_vars => Answered'
<1> SUFFICES ASSUME AnswerInv, [Next]_vars
             PROVE  Answered'
  OBVIOUS
<1>1. RunInv /\ Answered
  BY DEF AnswerInv
<1>2. CASE UNCHANGED vars
  BY <1>1, <1>2 DEF Answered, vars, contexts
<1>3. CASE Throw \/ CallSimple \/ PassBack
  BY <1>1, <1>3 DEF Answered, Throw, CallSimple, PassBack, Turn, contexts
<1>4. CASE CallSync
  BY <1>1, <1>4 DEF Answered, CallSync, CallNext, Turn
<1>5. CASE ReturnSync
  <2>1. Role # Nothing
    BY <1>5 DEF ReturnSync, Nothing
  <2>2. Me # Nothing
    BY <1>1, <2>1, Roled, AnAnswer
  <2>3. swallowed' = swallowed /\ (~swallowed => executed # Clear)
    BY <1>1, <1>5 DEF Answered, ReturnSync
  <2>4. executed' = executed \/ executed' = [result |-> Me, exception |-> Nothing]
    BY <1>5 DEF ReturnSync, Outcomes
  <2>5. executed' = [result |-> Me, exception |-> Nothing] => executed' # Clear
    BY <2>2 DEF Clear
  <2> QED
    BY <2>3, <2>4, <2>5 DEF Answered, Clear
<1>6. CASE CallAsync
  <2>1. Role # Nothing
    BY <1>6 DEF CallAsync, Nothing
  <2>2. at \in DOMAIN chain
    BY <1>1, <2>1, Roled
  <2>3. calls'[at'] = 0
    BY <1>1, <1>6, <2>2 DEF CallAsync, Turn, RunInv
  <2> QED
    BY <1>1, <1>6, <2>3 DEF Answered, CallAsync, Turn, contexts
<1>7. CASE Object
  BY <1>1, <1>7 DEF Answered, Object
<1>8. CASE InvokeNext
  BY <1>1, <1>8 DEF Answered, InvokeNext, CallNext, Turn
<1>9. CASE ResumeAsync
  BY <1>1, <1>9 DEF Answered, ResumeAsync, Turn, contexts, RunInv
<1>10. CASE ReturnAsync
  <2>1. Role # Nothing
    BY <1>1, <1>10 DEF ReturnAsync, Nothing, RunInv
  <2>2. Me # Nothing /\ at \in DOMAIN chain
    BY <1>1, <2>1, Roled, AnAnswer
  <2>3. ~swallowed' => ~swallowed /\ calls[at] # 0 /\ way = "inside"
    BY <1>1, <1>10 DEF ReturnAsync, RunInv
  <2>4. executed' = executed \/ executed' = [result |-> Me, exception |-> Nothing]
    BY <1>10 DEF ReturnAsync, Outcomes
  <2>5. executed' = [result |-> Me, exception |-> Nothing] => executed' # Clear
    BY <2>2 DEF Clear
  <2> QED
    BY <1>1, <2>3, <2>4, <2>5 DEF Answered, Clear
<1>11. CASE Run
  <2>1. executed' # Clear
    BY <1>11, AnAnswer DEF Run, Clear
  <2> QED
    BY <2>1 DEF Answered, Clear
<1>12. CASE SkipRun
  BY <1>1, <1>12 DEF Answered, SkipRun, AtEnd, Turn, contexts
<1> QED
  BY <1>2, <1>3, <1>4, <1>5, <1>6, <1>7, <1>8, <1>9, <1>10, <1>11, <1>12 DEF Next, Step

\* A pipeline that comes to its end without an exception has a result or an exception
\* for the caller, unless a filter swallowed an exception or skipped its delegate
\* without setting one (InvokeActionAsync and Invoke read the executed context).
THEOREM AnswersAreGiven == Spec => []AnswerIsGiven
<1>1. Init => Answered
  BY DEF Init, Answered
<1>2. AnswerInv /\ [Next]_vars => AnswerInv'
  BY RunNext, AnsweredNext DEF AnswerInv
<1>3. AnswerInv => AnswerIsGiven
  BY DEF AnswerInv, Answered, AnswerIsGiven
<1> QED
  BY <1>1, <1>2, <1>3, RunInit, PTL DEF Spec, AnswerInv
=============================================================================
