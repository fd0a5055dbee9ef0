--------------------------- MODULE VmRebuildProofs ---------------------------
(***************************************************************************)
(* Theorems about VmRebuild, for every number of disks and of faults, every *)
(* set of runs and every set of source VMs.                                *)
(***************************************************************************)
EXTENDS VmRebuild, FiniteSetTheorems, TLAPS

-----------------------------------------------------------------------------
(* Sorting.  A place in a strict order is how many elements go before.      *)

StrictOrder(R, S) ==
    /\ \A x \in S : <<x, x>> \notin R
    /\ \A x, y \in S : <<x, y>> \in R \/ <<y, x>> \in R \/ x = y
    /\ \A x, y, z \in S : <<x, y>> \in R /\ <<y, z>> \in R => <<x, z>> \in R
Ahead(R, S, x) == {y \in S : <<y, x>> \in R}

\* Places in a finite strict order: they are the numbers below the size of the
\* set, one for each element.
LEMMA Places ==
    ASSUME NEW S, IsFiniteSet(S), NEW R, StrictOrder(R, S)
    PROVE  /\ Cardinality(S) \in Nat
           /\ \A x, y \in S : <<x, y>> \in R =>
                 Cardinality(Ahead(R, S, x)) < Cardinality(Ahead(R, S, y))
           /\ \A x \in S : Cardinality(Ahead(R, S, x)) \in 0..(Cardinality(S) - 1)
           /\ \A x, y \in S :
                 Cardinality(Ahead(R, S, x)) = Cardinality(Ahead(R, S, y)) => x = y
           /\ \A k \in 0..(Cardinality(S) - 1) :
                 \E x \in S : Cardinality(Ahead(R, S, x)) = k
<1> DEFINE n == Cardinality(S)
           before(x) == Ahead(R, S, x)
           place == [x \in S |-> Cardinality(before(x))]
<1>1. n \in Nat
  BY FS_CardinalityType
<1>2. ASSUME NEW x \in S
      PROVE  /\ IsFiniteSet(before(x)) /\ Cardinality(before(x)) \in Nat
             /\ Cardinality(before(x)) < n
  <2>1. before(x) \in SUBSET S /\ before(x) /= S
    BY DEF Ahead, StrictOrder
  <2>2. IsFiniteSet(before(x)) /\ Cardinality(before(x)) <= n
        /\ (n = Cardinality(before(x)) => S = before(x))
    BY <2>1, FS_Subset
  <2>3. Cardinality(before(x)) \in Nat
    BY <2>2, FS_CardinalityType
  <2> QED
    BY <2>1, <2>2, <2>3, <1>1
<1>3. ASSUME NEW x \in S, NEW y \in S, <<x, y>> \in R
      PROVE  Cardinality(before(x)) < Cardinality(before(y))
  <2>1. before(x) \in SUBSET before(y) /\ x \in before(y) /\ x \notin before(x)
    BY <1>3 DEF Ahead, StrictOrder
  <2>2. Cardinality(before(x)) <= Cardinality(before(y))
        /\ (Cardinality(before(y)) = Cardinality(before(x)) => before(y) = before(x))
    BY <2>1, <1>2, FS_Subset
  <2> QED
    BY <2>1, <2>2, <1>2
<1>4. ASSUME NEW x \in S, NEW y \in S, Cardinality(before(x)) = Cardinality(before(y))
      PROVE  x = y
  <2>1. <<x, y>> \in R \/ <<y, x>> \in R \/ x = y
    BY DEF StrictOrder
  <2> QED
    BY <2>1, <1>2, <1>3, <1>4
<1>5. place \in Injection(S, 0..(n - 1))
  <2>1. \A x \in S : place[x] \in 0..(n - 1)
    BY <1>1, <1>2
  <2>2. \A x, y \in S : place[x] = place[y] => x = y
    BY <1>4
  <2>3. place \in [S -> 0..(n - 1)]
    BY <2>1
  <2> HIDE DEF place
  <2> QED
    BY <2>2, <2>3 DEF Injection, IsInjective
<1>6. IsFiniteSet(0..(n - 1)) /\ Cardinality(0..(n - 1)) = n
  BY <1>1, FS_Interval
<1>7. place \in Surjection(S, 0..(n - 1))
  BY <1>5, <1>6, FS_Injection
<1>8. \A k \in 0..(n - 1) : \E x \in S : Cardinality(before(x)) = k
  BY <1>7 DEF Surjection
<1>9. \A x \in S : Cardinality(before(x)) \in 0..(n - 1)
  BY <1>1, <1>2
<1> QED
  BY <1>1, <1>3, <1>4, <1>8, <1>9

\* A nonempty finite strict order has a first element.
LEMMA FirstOne ==
    ASSUME NEW S, IsFiniteSet(S), S /= {}, NEW R, StrictOrder(R, S)
    PROVE  \E x \in S : \A y \in S \ {x} : <<x, y>> \in R
<1>1. Cardinality(S) \in Nat /\ Cardinality(S) /= 0
  BY FS_CardinalityType, FS_EmptySet
<1>2. PICK x \in S : Cardinality(Ahead(R, S, x)) = 0
  <2>1. 0 \in 0..(Cardinality(S) - 1)
    BY <1>1
  <2> QED
    BY <2>1, Places
<1>3. IsFiniteSet(Ahead(R, S, x))
  BY FS_Subset DEF Ahead
<1>4. Ahead(R, S, x) = {}
  BY <1>2, <1>3, FS_EmptySet
<1>5. \A y \in S : <<y, x>> \notin R
  BY <1>4 DEF Ahead
<1> QED
  BY <1>5 DEF StrictOrder

-----------------------------------------------------------------------------
(* The captured disks: their orders and the boot disk.                      *)

Captures == spec \in Seq(CapturedDisk) /\ Len(spec) <= NDisks

\* A captured spec has at most NDisks disks, each with an address and a disk of the source.
LEMMA SpecFacts ==
    ASSUME Captures
    PROVE  /\ Len(spec) \in Nat /\ Len(spec) \in Addr
           /\ IsFiniteSet(Positions) /\ Cardinality(Positions) = Len(spec)
           /\ Positions \subseteq Disks /\ Positions \subseteq Nat
           /\ \A i \in Positions : /\ spec[i] \in CapturedDisk
                                   /\ spec[i].order \in Addr
                                   /\ spec[i].disk \in Disks
                                   /\ spec[i].boot \in BOOLEAN
<1>1. Len(spec) \in Nat /\ \A i \in 1..Len(spec) : spec[i] \in CapturedDisk
  BY DEF Captures
<1>2. IsFiniteSet(1..Len(spec)) /\ Cardinality(1..Len(spec)) = Len(spec)
  BY <1>1, FS_Interval
<1>3. \A d \in CapturedDisk : d.order \in Addr /\ d.disk \in Disks /\ d.boot \in BOOLEAN
  BY DEF CapturedDisk
<1>4. Len(spec) \in Addr /\ 1..Len(spec) \subseteq Disks /\ 1..Len(spec) \subseteq Nat
  BY <1>1, PartsAssumption DEF Captures, Addr, Disks
<1> QED
  BY <1>1, <1>2, <1>3, <1>4 DEF Positions

\* set_boot_order's sort puts the disks in a strict order ...
BootOrder == {p \in Positions \X Positions : BootsBefore(p[1], p[2])}

\* No two disks are equal in it, so a rank is the number of disks before one.
LEMMA BootOrderIsStrict ==
    ASSUME Captures
    PROVE  /\ StrictOrder(BootOrder, Positions)
           /\ \A i \in Positions : BootRank(i) = Cardinality(Ahead(BootOrder, Positions, i))
<1>1. /\ Positions \subseteq Nat
      /\ \A i \in Positions : spec[i].order \in Nat /\ spec[i].boot \in BOOLEAN
  BY SpecFacts, PartsAssumption DEF Addr
<1> DEFINE o(i) == spec[i].order
           b(i) == spec[i].boot
<1>a. \A i, j : BootsBefore(i, j) <=>
         \/ b(i) /\ ~b(j)
         \/ b(i) = b(j) /\ (o(i) < o(j) \/ (o(i) = o(j) /\ i < j))
  BY DEF BootsBefore
<1>b. \A i \in Positions : i \in Nat /\ o(i) \in Nat /\ b(i) \in BOOLEAN
  BY <1>1
<1> HIDE DEF o, b
<1>2. \A i \in Positions : ~BootsBefore(i, i)
  BY <1>a, <1>b
<1>3. \A i, j \in Positions : BootsBefore(i, j) \/ BootsBefore(j, i) \/ i = j
  BY <1>a, <1>b
<1>4. \A i, j, k \in Positions :
         BootsBefore(i, j) /\ BootsBefore(j, k) => BootsBefore(i, k)
  BY <1>a, <1>b
<1>5. \A i, j \in Positions : <<i, j>> \in BootOrder <=> BootsBefore(i, j)
  BY DEF BootOrder
<1>6. ASSUME NEW i \in Positions
      PROVE  BootRank(i) = Cardinality(Ahead(BootOrder, Positions, i))
  <2>1. {j \in Positions \ {i} : BootsBefore(j, i)} = Ahead(BootOrder, Positions, i)
    BY <1>2, <1>5 DEF Ahead
  <2> QED
    BY <2>1 DEF BootRank
<1> QED
  BY <1>2, <1>3, <1>4, <1>5, <1>6 DEF StrictOrder

\* ... so each has a rank of its own, and the boot disk has rank 0.
LEMMA Ranks ==
    ASSUME Captures
    PROVE  /\ \A i \in Positions : BootRank(i) \in Nat /\ BootRank(i) < Len(spec)
           /\ \A i, j \in Positions : BootRank(i) = BootRank(j) => i = j
           /\ \A i, j \in Positions : BootsBefore(i, j) => BootRank(i) < BootRank(j)
           /\ \A a \in InList : \E i \in Positions : BootRank(i) = a
           /\ spec /= << >> => BootDisk \in Positions /\ BootRank(BootDisk) = 0
<1> DEFINE place(i) == Cardinality(Ahead(BootOrder, Positions, i))
<1>1. /\ Len(spec) \in Nat /\ IsFiniteSet(Positions)
      /\ Cardinality(Positions) = Len(spec)
  BY SpecFacts
<1>2. StrictOrder(BootOrder, Positions) /\ \A i \in Positions : BootRank(i) = place(i)
  BY BootOrderIsStrict
<1>3. /\ \A i, j \in Positions : <<i, j>> \in BootOrder => place(i) < place(j)
      /\ \A i \in Positions : place(i) \in 0..(Len(spec) - 1)
      /\ \A i, j \in Positions : place(i) = place(j) => i = j
      /\ \A k \in 0..(Len(spec) - 1) : \E i \in Positions : place(i) = k
  BY <1>1, <1>2, Places
<1>4. \A a \in InList : a \in 0..(Len(spec) - 1)
  BY <1>1, PartsAssumption DEF InList, Addr
<1>5. \A i, j \in Positions : BootsBefore(i, j) => <<i, j>> \in BootOrder
  BY DEF BootOrder
<1>6. ASSUME spec /= << >>
      PROVE  BootDisk \in Positions /\ BootRank(BootDisk) = 0
  <2>1. Positions /= {}
    BY <1>1, <1>6 DEF Captures, Positions
  <2>2. PICK i \in Positions : \A j \in Positions \ {i} : <<i, j>> \in BootOrder
    BY <1>1, <1>2, <2>1, FirstOne
  <2>3. \A j \in Positions \ {i} : BootsBefore(i, j)
    BY <2>2 DEF BootOrder
  <2>4. BootDisk \in Positions /\ \A j \in Positions \ {BootDisk} : BootsBefore(BootDisk, j)
    BY <2>3 DEF BootDisk
  <2>5. Ahead(BootOrder, Positions, BootDisk) = {}
    BY <1>2, <1>5, <2>4 DEF Ahead, StrictOrder
  <2> QED
    BY <1>2, <2>4, <2>5, FS_EmptySet
<1> HIDE DEF place
<1>7. \A i \in Positions : BootRank(i) \in Nat /\ BootRank(i) < Len(spec)
  BY <1>1, <1>2, <1>3
<1>8. \A i, j \in Positions : BootRank(i) = BootRank(j) => i = j
  BY <1>2, <1>3
<1>9. ASSUME NEW i \in Positions, NEW j \in Positions, BootsBefore(i, j)
      PROVE  BootRank(i) < BootRank(j)
  <2>1. <<i, j>> \in BootOrder
    BY <1>5, <1>9
  <2>2. place(i) < place(j)
    BY <1>3, <2>1
  <2> QED
    BY <1>2, <2>2
<1>10. \A a \in InList : \E i \in Positions : BootRank(i) = a
  BY <1>2, <1>3, <1>4
<1> QED
  BY <1>6, <1>7, <1>8, <1>9, <1>10

\* The volume of an order: of one disk with it, its own if no other has it.
LEMMA FirstWithIsOne ==
    ASSUME Captures
    PROVE  /\ \A o \in Orders : FirstWith(o) \in Positions
           /\ DistinctOrders => \A i \in Positions : FirstWith(spec[i].order) = i
<1>1. IsFiniteSet(Positions) /\ Positions \subseteq Nat
  BY SpecFacts
<1>2. ASSUME NEW o \in Orders
      PROVE  FirstWith(o) \in Positions /\ spec[FirstWith(o)].order = o
  <2> DEFINE S == {i \in Positions : spec[i].order = o}
             R == {p \in S \X S : p[1] < p[2]}
  <2>1. S /= {} /\ IsFiniteSet(S)
    BY <1>1, FS_Subset DEF Orders
  <2>2. \A i, j \in S : <<i, j>> \in R <=> i < j
    OBVIOUS
  <2>3. StrictOrder(R, S)
    BY <1>1, <2>2 DEF StrictOrder
  <2>4. PICK i \in S : \A j \in S \ {i} : <<i, j>> \in R
    <3> HIDE DEF S, R
    <3> QED
      BY <2>1, <2>3, FirstOne
  <2>5. \A j \in S : i <= j
    <3>1. \A j \in S : j \in Nat
      BY <1>1
    <3> HIDE DEF S, R
    <3>2. \A j \in S \ {i} : i < j
      BY <2>2, <2>4
    <3> QED
      BY <3>1, <3>2
  <2> QED
    BY <2>5 DEF FirstWith
<1>3. \A i \in Positions : spec[i].order \in Orders
  BY DEF Orders
<1>4. ASSUME DistinctOrders, NEW i \in Positions
      PROVE  FirstWith(spec[i].order) = i
  BY <1>2, <1>3, <1>4 DEF DistinctOrders
<1> QED
  BY <1>2, <1>4

\* _cache_provisioned_disks remembers a disk of each order, each disk if no two
\* have one order.
LEMMA CacheIsByOrder ==
    ASSUME Captures
    PROVE  /\ CacheByOrder \in [Addr -> {0} \union Positions]
           /\ DistinctOrders => \A i \in Positions : CacheByOrder[spec[i].order] = i
<1> DEFINE With(o) == {j \in Positions : spec[j].order = o}
           Last(o, i) == \A j \in Positions : spec[j].order = o => BootRank(j) <= BootRank(i)
<1>1. /\ IsFiniteSet(Positions)
      /\ \A i \in Positions : BootRank(i) \in Nat
      /\ \A i, j \in Positions : BootRank(i) = BootRank(j) => i = j
  BY SpecFacts, Ranks
<1>2. ASSUME NEW o \in Orders
      PROVE  \E i \in With(o) : Last(o, i)
  <2> DEFINE S == With(o)
             R == {p \in S \X S : BootRank(p[2]) < BootRank(p[1])}
  <2>1. S /= {} /\ IsFiniteSet(S)
    BY <1>1, FS_Subset DEF Orders
  <2>2. \A i, j \in S : <<i, j>> \in R <=> BootRank(j) < BootRank(i)
    OBVIOUS
  <2>3. StrictOrder(R, S)
    BY <1>1, <2>2 DEF StrictOrder
  <2>4. PICK i \in S : \A j \in S \ {i} : <<i, j>> \in R
    <3> HIDE DEF S, R
    <3> QED
      BY <2>1, <2>3, FirstOne
  <2>5. \A j \in S : BootRank(j) <= BootRank(i)
    <3>1. \A j \in S : BootRank(j) \in Nat
      BY <1>1
    <3> HIDE DEF S, R
    <3>2. \A j \in S \ {i} : BootRank(j) < BootRank(i)
      BY <2>2, <2>4
    <3> QED
      BY <3>1, <3>2
  <2> QED
    BY <2>5
<1>3. \A o \in Orders : (CHOOSE i \in With(o) : Last(o, i)) \in With(o)
  BY <1>2
<1>4. \A i \in Positions : spec[i].order \in Orders /\ spec[i].order \in Addr
  BY SpecFacts DEF Orders
<1>5. CacheByOrder = [o \in Addr |-> IF o \in Orders THEN CHOOSE i \in With(o) : Last(o, i)
                                     ELSE 0]
  BY DEF CacheByOrder
<1> HIDE DEF Last
<1>6. CacheByOrder \in [Addr -> {0} \union Positions]
  BY <1>3, <1>5
<1>7. ASSUME DistinctOrders, NEW i \in Positions
      PROVE  CacheByOrder[spec[i].order] = i
  <2>1. CacheByOrder[spec[i].order] \in With(spec[i].order)
    BY <1>3, <1>4, <1>5
  <2> QED
    BY <1>7, <2>1 DEF DistinctOrders
<1> QED
  BY <1>6, <1>7
-----------------------------------------------------------------------------
(* capture_vm_spec: what each connector reads of a source VM.               *)

\* A function on 1..n is a sequence.
LEMMA Rows ==
    ASSUME NEW S, NEW n \in Nat, NEW f \in [1..n -> S]
    PROVE  f \in Seq(S) /\ Len(f) = n /\ \A i \in 1..n : f[i] \in S
OBVIOUS

\* The hardware of a source VM: its disks and their addresses.
LEMMA SourceFacts ==
    ASSUME hw \in SourceVms
    PROVE  /\ Len(hw) \in Nat /\ 0 < Len(hw) /\ Len(hw) <= NDisks
           /\ IsFiniteSet(HwDisks) /\ Cardinality(HwDisks) = Len(hw)
           /\ HwDisks \subseteq Disks /\ HwDisks \subseteq Nat /\ Ours \subseteq HwDisks
           /\ \A d \in HwDisks : hw[d].at \in Addr /\ hw[d].at \in Nat /\ hw[d].boot \in BOOLEAN
<1>1. Len(hw) \in Disks /\ \A d \in HwDisks : hw[d] \in SourceDisk
  BY PartsAssumption DEF HwDisks
<1>2. Len(hw) \in Nat /\ 0 < Len(hw) /\ Len(hw) <= NDisks
  BY <1>1, PartsAssumption DEF Disks
<1>3. IsFiniteSet(1..Len(hw)) /\ Cardinality(1..Len(hw)) = Len(hw)
  BY <1>2, FS_Interval
<1>4. \A d \in SourceDisk : d.at \in Addr /\ d.at \in Nat /\ d.boot \in BOOLEAN
  BY PartsAssumption DEF SourceDisk, Addr
<1>5. 1..Len(hw) \subseteq Disks /\ 1..Len(hw) \subseteq Nat
  BY <1>2, PartsAssumption DEF Disks
<1> QED
  BY <1>1, <1>2, <1>3, <1>4, <1>5 DEF HwDisks, Ours

\* A sort of some of the disks is a list of captured disks.
LEMMA Sorting ==
    ASSUME hw \in SourceVms, NEW s \in SUBSET HwDisks
    PROVE  /\ Cardinality(s) \in Nat /\ Cardinality(s) <= NDisks
           /\ BySlot(s) \in [1..Cardinality(s) -> CapturedDisk]
           /\ AsListed(s) \in [1..Cardinality(s) -> CapturedDisk]
<1> DEFINE n == Cardinality(s)
           Slots == {p \in s \X s : GoesBefore(p[1], p[2])}
           Listing == {p \in s \X s : p[1] < p[2]}
<1>1. /\ IsFiniteSet(s) /\ n \in Nat /\ n <= NDisks
      /\ s \subseteq Nat /\ s \subseteq Disks
      /\ \A d \in s : hw[d].at \in Addr /\ hw[d].at \in Nat /\ hw[d].boot \in BOOLEAN
  <2>1. IsFiniteSet(s) /\ Cardinality(s) <= Cardinality(HwDisks)
    BY SourceFacts, FS_Subset
  <2>2. Cardinality(s) \in Nat
    BY <2>1, FS_CardinalityType
  <2> QED
    BY <2>1, <2>2, SourceFacts, PartsAssumption
<1>2. \A d, e, f \in s :
         /\ ~GoesBefore(d, d)
         /\ GoesBefore(d, e) \/ GoesBefore(e, d) \/ d = e
         /\ GoesBefore(d, e) /\ GoesBefore(e, f) => GoesBefore(d, f)
  BY <1>1 DEF GoesBefore
<1>3. StrictOrder(Slots, s) /\ StrictOrder(Listing, s)
  BY <1>1, <1>2 DEF StrictOrder
<1>4. \A d \in s : /\ Ahead(Slots, s, d) = {e \in s : GoesBefore(e, d)}
                   /\ Ahead(Listing, s, d) = {e \in s : e < d}
  BY DEF Ahead
<1>5. ASSUME NEW i \in 1..n
      PROVE  /\ (CHOOSE d \in s : Cardinality({e \in s : GoesBefore(e, d)}) + 1 = i) \in s
             /\ (CHOOSE d \in s : Cardinality({e \in s : e < d}) + 1 = i) \in s
  <2>1. i - 1 \in 0..(n - 1) /\ (i - 1) + 1 = i
    BY <1>1
  <2>2. (\E d \in s : Cardinality(Ahead(Slots, s, d)) = i - 1)
        /\ (\E d \in s : Cardinality(Ahead(Listing, s, d)) = i - 1)
    <3> HIDE DEF Slots, Listing
    <3> QED
      BY <1>1, <1>3, <2>1, Places
  <2>3. (\E d \in s : Cardinality({e \in s : GoesBefore(e, d)}) + 1 = i)
        /\ (\E d \in s : Cardinality({e \in s : e < d}) + 1 = i)
    <3> HIDE DEF Slots, Listing
    <3> QED
      BY <1>4, <2>1, <2>2
  <2> QED
    BY <2>3
<1>6. \A d \in s : /\ \A o \in Addr : [disk |-> d, order |-> o, boot |-> hw[d].boot] \in CapturedDisk
                   /\ hw[d].at \in Addr
  BY <1>1 DEF CapturedDisk
<1>7. BySlot(s) \in [1..n -> CapturedDisk]
  <2> DEFINE Pick(i) == CHOOSE d \in s : Cardinality({e \in s : GoesBefore(e, d)}) + 1 = i
  <2>1. BySlot(s) = [i \in 1..n |-> [disk |-> Pick(i), order |-> hw[Pick(i)].at,
                                     boot |-> hw[Pick(i)].boot]]
    BY DEF BySlot
  <2>2. \A i \in 1..n : Pick(i) \in s
    BY <1>5
  <2> HIDE DEF Pick, n
  <2>3. \A i \in 1..n : [disk |-> Pick(i), order |-> hw[Pick(i)].at, boot |-> hw[Pick(i)].boot]
                            \in CapturedDisk
    BY <1>6, <2>2
  <2> QED
    BY <2>1, <2>3
<1>8. AsListed(s) \in [1..n -> CapturedDisk]
  <2> DEFINE Pick(i) == CHOOSE d \in s : Cardinality({e \in s : e < d}) + 1 = i
  <2>1. AsListed(s) = [i \in 1..n |-> [disk |-> Pick(i), order |-> i - 1,
                                       boot |-> hw[Pick(i)].boot]]
    BY DEF AsListed
  <2>2. \A i \in 1..n : Pick(i) \in s
    BY <1>5
  <2> HIDE DEF Pick, n
  <2>3. \A i \in 1..n : i - 1 \in Addr
    BY <1>1, PartsAssumption DEF Addr
  <2>4. \A i \in 1..n : [disk |-> Pick(i), order |-> i - 1, boot |-> hw[Pick(i)].boot]
                            \in CapturedDisk
    BY <1>6, <2>2, <2>3
  <2> QED
    BY <2>1, <2>4
<1> QED
  BY <1>1, <1>7, <1>8

\* Every connector captures a list of disks, or refuses.
LEMMA CapturedIsTyped ==
    ASSUME hw \in SourceVms, opt \in Runs
    PROVE  Captured \in Seq(CapturedDisk) /\ Len(Captured) <= NDisks
<1> DEFINE Fine(c) == c \in Seq(CapturedDisk) /\ Len(c) <= NDisks
<1>1. ASSUME NEW m \in Nat, m <= NDisks, NEW f \in [1..m -> CapturedDisk] PROVE Fine(f)
  BY <1>1, Rows
<1>2. ASSUME NEW c, Fine(c) PROVE Fine(WithBoot(c))
  <2>1. CASE WithBoot(c) = c
    BY <1>2, <2>1
  <2>2. CASE c /= << >> /\ WithBoot(c) = [c EXCEPT ![1].boot = TRUE]
    <3>1. 1 \in 1..Len(c) /\ c[1] \in CapturedDisk
      BY <1>2, <2>2
    <3>2. [c[1] EXCEPT !.boot = TRUE] \in CapturedDisk
      BY <3>1 DEF CapturedDisk
    <3>3. [c EXCEPT ![1] = [c[1] EXCEPT !.boot = TRUE]] \in Seq(CapturedDisk)
          /\ Len([c EXCEPT ![1] = [c[1] EXCEPT !.boot = TRUE]]) = Len(c)
      BY <1>2, <3>1, <3>2
    <3>4. WithBoot(c) = [c EXCEPT ![1] = [c[1] EXCEPT !.boot = TRUE]]
      BY <2>2
    <3> QED
      BY <1>2, <3>3, <3>4
  <2> QED
    BY <2>1, <2>2 DEF WithBoot
<1>3. ASSUME NEW c, Fine(c) PROVE Fine(OrRefused(c))
  <2>1. Fine(<< >>)
    BY PartsAssumption
  <2> QED
    BY <1>3, <2>1 DEF OrRefused
<1>4. /\ HwDisks \in SUBSET HwDisks /\ Ours \in SUBSET HwDisks
      /\ Cardinality(HwDisks) = Len(hw) /\ Len(hw) \in Nat /\ Len(hw) <= NDisks
      /\ HwDisks = 1..Len(hw)
  BY SourceFacts DEF HwDisks
<1>5. Fine(BySlot(HwDisks)) /\ Fine(BySlot(Ours)) /\ Fine(AsListed(Ours))
  <2>1. \A s \in SUBSET HwDisks : Fine(BySlot(s)) /\ Fine(AsListed(s))
    BY <1>1, Sorting
  <2> QED
    BY <1>4, <2>1
<1>6. Fine(NutanixCapture)
  <2>1. \A d \in 1..Len(hw) :
           [disk |-> d, order |-> hw[d].at, boot |-> d = 1] \in CapturedDisk
    BY SourceFacts, <1>4 DEF CapturedDisk
  <2>2. [d \in 1..Len(hw) |-> [disk |-> d, order |-> hw[d].at, boot |-> d = 1]]
           \in [1..Len(hw) -> CapturedDisk]
    BY <2>1
  <2> QED
    BY <1>1, <1>3, <1>4, <2>2 DEF NutanixCapture
<1>7. Fine(OpenstackCapture)
  <2> DEFINE B == BySlot(HwDisks)
             N == Renumbered(HwDisks)
             L == [i \in HwDisks |-> [N[i] EXCEPT !.boot = @ /\ hw[N[i].disk].at = 0]]
  <2>1. B \in [1..Len(hw) -> CapturedDisk]
    BY <1>4, Sorting
  <2>2. N = [i \in 1..Len(hw) |-> [B[i] EXCEPT !.order = i - 1]]
    BY <1>4 DEF Renumbered
  <2>3. \A i \in 1..Len(hw) : i - 1 \in Addr
    BY <1>4, PartsAssumption DEF Addr
  <2>4. /\ \A c \in CapturedDisk, o \in Addr : [c EXCEPT !.order = o] \in CapturedDisk
        /\ \A c \in CapturedDisk, b \in BOOLEAN : [c EXCEPT !.boot = b] \in CapturedDisk
    BY DEF CapturedDisk
  <2> HIDE DEF B
  <2> HIDE DEF N
  <2>5. ASSUME NEW i \in 1..Len(hw) PROVE N[i] \in CapturedDisk
    <3>1. N[i] = [B[i] EXCEPT !.order = i - 1] /\ B[i] \in CapturedDisk
      BY <2>1, <2>2
    <3> QED
      BY <2>3, <2>4, <3>1
  <2>6. ASSUME NEW i \in 1..Len(hw)
        PROVE  [N[i] EXCEPT !.boot = @ /\ hw[N[i].disk].at = 0] \in CapturedDisk
    <3> DEFINE b == N[i].boot /\ hw[N[i].disk].at = 0
    <3>1. b \in BOOLEAN
      OBVIOUS
    <3>2. N[i] \in CapturedDisk
      BY <2>5
    <3>3. [N[i] EXCEPT !.boot = b] \in CapturedDisk
      <4> HIDE DEF b
      <4> QED
        BY <2>4, <3>1, <3>2
    <3> QED
      BY <3>3
  <2>7. L \in [1..Len(hw) -> CapturedDisk]
    BY <1>4, <2>6
  <2>8. Fine(L)
    BY <1>1, <1>4, <2>7
  <2>9. OpenstackCapture = OrRefused(WithBoot(L))
    BY DEF OpenstackCapture, N
  <2> HIDE DEF L, Fine
  <2> QED
    BY <1>2, <1>3, <2>8, <2>9
<1>8. opt.src \in Platforms
  BY PartsAssumption DEF RunType
<1> HIDE DEF Fine
<1>9. /\ Fine(ProxmoxCapture) /\ Fine(OpenshiftCapture) /\ Fine(XcpngCapture)
      /\ Fine(HpevmeCapture) /\ Fine(VsphereCapture)
  BY <1>2, <1>3, <1>5
     DEF ProxmoxCapture, OpenshiftCapture, XcpngCapture, HpevmeCapture, VsphereCapture
<1>10. Fine(Captured)
  BY <1>6, <1>7, <1>8, <1>9 DEF Captured, Platforms
<1> QED
  BY <1>10 DEF Fine
-----------------------------------------------------------------------------
(* The inductive invariant.                                                 *)

\* The steps before create_vm, those of create_vm, and those once it returned.
Staging == {"capture", "account", "freeze", "clone", "unsnapshot", "unaccount", "name"}
Making ==
    {"create"} \union
    [proxmox   |-> {"qmCreate", "qmPurge", "qmConfig"},
     xcpng     |-> {},
     nutanix   |-> {},
     hpevme    |-> {"await", "cache"},
     openshift |-> {"apply", "ocCleanup"},
     openstack |-> {"ports", "boot1", "settle", "osCleanup"},
     vsphere   |-> {"format", "createVm", "unscratch"}][opt.dst]
Copying   == {"disk", "copy"} \union IF opt.dst = "vsphere" THEN {"rdm"} ELSE {}
Finishing == {"finalize", "convert", "boot", "power", "remove", "tidy", "done"}
                 \union IF opt.dst = "vsphere" THEN {"unrdm", "unscratch2"} ELSE {}
Built     == Copying \union Finishing
Freeing   == IF opt.dst = "vsphere" THEN {"freeRdm", "unscratch3"} ELSE {}
Steps     == Staging \union Making \union Built \union Freeing
                 \union {"undo", "teardown", "unstage", "rolledback"}

\* The steps that run once for the whole VM: the loops start at the first disk.
Whole == {"capture", "account", "freeze", "name", "qmCreate", "qmPurge", "qmConfig",
          "await", "cache", "apply", "ports", "boot1", "settle", "format", "createVm"}
             \union IF opt.dst \in {"openshift", "openstack"} THEN {} ELSE {"create"}
Loops == Copying \union {"clone", "create", "finalize"}

OnDemand    == opt.dst \in {"proxmox", "xcpng", "nutanix"}
Provisioned == opt.dst \in {"hpevme", "openshift", "openstack"}

\* The types of the state, part by part, with what they are used with.
TypedRun    == /\ opt \in Runs /\ hw \in SourceVms
               /\ spec \in Seq(CapturedDisk) /\ Len(spec) <= NDisks
               /\ srcVm \in BOOLEAN /\ shares \in BOOLEAN
               /\ others \subseteq {"sibling", "namesake", "neighbour"}
               /\ extra \subseteq {"account", "snapshot", "clones", "recorded", "port",
                                   "timeout"}
TypedCtl    == at \in Disks /\ tries \in 0..3
TypedFaults == faults \in 0..MaxFaults /\ missed \in BOOLEAN
TypedVm     == /\ vm \in BOOLEAN /\ home \in BOOLEAN
               /\ slot \in [Addr -> ({0} \union Vols) \ {Scratch}]
               /\ boots \in Addr \union {Nowhere}
               /\ rdm \subseteq Disks /\ native \subseteq rdm
TypedMemory == /\ known \in BOOLEAN /\ noted \in BOOLEAN
               /\ memory \in [Addr -> {0} \union Disks]
               /\ dest \in Seq(Vols) /\ Len(dest) <= NDisks
TypedVol    == vol \in [Vols -> 0..Absent]
Types == TypedRun /\ TypedCtl /\ TypedFaults /\ TypedVm /\ TypedMemory /\ TypedVol

\* Where a run is: what each step knows of the VM and of the loop.
Frame ==
    /\ pc \in Steps
    /\ pc \in Staging \union Making => ~known
    /\ pc \in Built \union Freeing \union {"teardown"} => known
    /\ spec = << >> => pc \in {"capture", "undo", "unstage", "rolledback"} /\ ~known
    /\ ~known => dest = << >>
    /\ pc \in Whole => at = 1
    /\ pc \in Loops => at <= Len(spec)
    /\ pc \in Copying \ {"copy"} => Len(dest) = at - 1
    /\ pc = "copy" => Len(dest) = at
    /\ pc \in Finishing => Len(dest) = Len(spec)
    /\ pc = "qmPurge" => tries < 3
    /\ "recorded" \in extra =>
          /\ pc \notin {"capture", "account", "freeze", "clone"}
          /\ pc \in {"unsnapshot", "unaccount"} => at = 1

\* Nothing has been made before create_vm.
Untouched ==
    pc \in Staging =>
        /\ ~vm /\ vol = [v \in Vols |-> Absent] /\ slot = NoDevices
        /\ memory = NoMemory /\ ~noted
        /\ pc = "capture" => extra = {}

\* Devices and homes are of VMs that are there, RDMs of VMs that are known.
Bodies ==
    /\ ~vm => slot = NoDevices /\ ~home
    /\ pc = "create" => ~vm
    /\ pc \in Built \union {"qmConfig", "await", "cache", "settle"} => vm
    /\ ~known => rdm = {} /\ (~Provisioned => slot = NoDevices)
    /\ opt.dst /= "vsphere" => ~home /\ rdm = {}
    /\ pc \in Freeing => ~vm
    /\ home => opt.convert
    /\ native /= {} => pc \notin Copying \union {"finalize", "convert"}
    /\ pc = "unscratch" /\ home => missed
    /\ pc \in {"unrdm", "unscratch2"} => ~home
    /\ opt.dst = "vsphere" /\ noted => opt.convert
    /\ pc \in {"format", "createVm"} => opt.convert

\* What the source's staging and the VM's creation left besides the VM.
Leftovers ==
    ~missed =>
        /\ "account" \in extra => pc \in {"freeze", "clone", "unsnapshot", "unaccount"}
        /\ "snapshot" \in extra => pc \in {"clone", "unsnapshot"}
        /\ "clones" \in extra => "recorded" \in extra \/ ~known
        /\ "recorded" \in extra => pc \notin {"done", "rolledback"}
        /\ pc \in {"name"} \union Making \union Built =>
              ("clones" \in extra => "recorded" \in extra)
        /\ "port" \in extra \/ "timeout" \in extra =>
              /\ opt.dst = "openstack"
              /\ pc \notin Staging \union {"unstage", "rolledback"}
              /\ pc = "undo" => known
        /\ "timeout" \in extra => pc \notin Finishing \ {"finalize"}

-----------------------------------------------------------------------------
(* What a rollback finds, while no answer has been missed.                  *)

Over == pc \in {"unstage", "rolledback"} \/ (pc = "undo" /\ ~known)
Cleared ==
    /\ vm => opt.dst = "hpevme" /\ ~known
    /\ \A v \in Vols : Exists(v) => KnownLeak(v)

\* A VM the service does not know is one its own creation still removes.
Disowned ==
    vm /\ ~known =>
        \/ opt.dst = "hpevme"
        \/ pc = "qmConfig"
        \/ opt.dst = "openstack" /\ noted /\ pc \in {"settle", "osCleanup"}

\* The volumes there are, as the deletion of each destination finds them.
VolsOfVsphere ==
    /\ \A v \in Vols : Exists(v) =>
          \/ v = Scratch /\ (noted \/ pc = "format")
          \/ v \in rdm
          \/ v \in Attached /\ opt.vvol /\ pc \notin Freeing
    /\ native = {} /\ pc /= "unscratch3" => \A v \in rdm : Exists(v)
    /\ pc = "unscratch3" => \A v \in rdm : Exists(v) => KnownLeak(v)
Standing ==
    /\ opt.dst \in {"proxmox", "xcpng"} => \A v \in Vols : Exists(v) => known
    /\ opt.dst \in {"nutanix", "hpevme"} => \A v \in Vols : Exists(v) => v \in Attached
    /\ opt.dst = "openshift" =>
          \A v \in Vols : Exists(v) => \E o \in Orders : v = FirstWith(o)
    /\ opt.dst = "openstack" =>
          /\ vm => noted
          /\ DistinctOrders =>
             \A v \in Vols : Exists(v) => v \in Positions /\ memory[spec[v].order] = v
    /\ opt.dst = "vsphere" => VolsOfVsphere

Rollback ==
    ~missed => IF Over THEN Cleared ELSE Disowned /\ Standing

-----------------------------------------------------------------------------
(* What has been built, while no answer has been missed and no two disks    *)
(* have one order.                                                          *)

Good == ~missed /\ DistinctOrders

\* The first m of the disks sp are devices of sl, each at the address of its
\* order; or there is one device at each of the first m addresses.
ByOrder(sl, sp, m) ==
    /\ \A i \in 1..m : sl[sp[i].order] = i
    /\ \A a \in Addr : sl[a] /= 0 => sl[a] \in 1..m /\ sp[sl[a]].order = a
OnePerAddr(sl, m) ==
    /\ \A a \in Addr : IF a < m THEN sl[a] \in 1..m ELSE sl[a] = 0
    /\ \A a, b \in Addr : sl[a] /= 0 /\ sl[a] = sl[b] => a = b
\* The volumes of the first m of the disks sp are remembered by their orders.
Recalled(mem, sp, m) == \A i \in 1..m : mem[sp[i].order] = i

\* What create_vm of the provisioned destinations has remembered and attached.
Provision ==
    Good =>
    /\ opt.dst \in {"openshift", "openstack"} /\ pc = "create" => Recalled(memory, spec, at - 1)
    /\ pc \in {"apply", "ports", "boot1", "settle"} => Recalled(memory, spec, Len(spec))
    /\ pc \in Built /\ Provisioned => Recalled(memory, spec, Len(spec))
    /\ pc \in {"await", "cache", "settle"} \/ (pc \in Built /\ Provisioned) =>
          /\ OnePerAddr(slot, Len(spec)) /\ boots \in InList /\ slot[boots] = BootDisk

\* The devices of the on-demand destinations and of vSphere, once built.
Attachment ==
    Good /\ pc \in Built =>
    /\ \A v \in Vols : Exists(v) =>
          \/ v \in Positions
          \/ v = Scratch /\ noted /\ opt.dst = "vsphere"
    /\ OnDemand => ByOrder(slot, spec, Len(dest))
    /\ opt.dst = "vsphere" /\ ~opt.vvol =>
          /\ pc \in Copying => slot = NoDevices
          /\ pc = "finalize" => ByOrder(slot, spec, at - 1)
          /\ pc \in Finishing \ {"finalize"} => ByOrder(slot, spec, Len(spec))
    /\ pc \in {"boot", "power", "remove", "tidy", "done"} =>
          (opt.dst = "vsphere" => ~noted)
    /\ /\ pc \in {"power", "remove", "tidy", "done"}
       /\ opt.dst \in {"proxmox", "xcpng"} \/ (opt.dst = "vsphere" /\ ~opt.vvol)
       => boots = spec[BootDisk].order

\* Each disk handed back is the disk's own, and each copied one has its data.
Contents ==
    Good /\ pc \in Built =>
    /\ \A i \in 1..Len(dest) :
          /\ dest[i] = i
          /\ i \in native \/ vol[i] = spec[i].disk \/ (pc = "copy" /\ i = at)
    /\ native /= {} => opt.convert /\ pc \notin Copying \union {"finalize", "convert"}

-----------------------------------------------------------------------------
(* What is there, while no answer has been missed.                          *)

\* The volume being copied onto, the remembered ones and HPE VME's; and vVol
\* disks are at the first units, in their order.
Backed ==
    ~missed =>
    /\ pc = "copy" => Exists(dest[at])
    /\ Provisioned /\ ~Over => \A o \in Addr : memory[o] /= 0 => Exists(memory[o])
    /\ pc \in {"await", "cache"} => \A v \in Positions : Exists(v)
    /\ opt.dst = "vsphere" /\ opt.vvol /\ pc \in Built =>
          /\ rdm = {} /\ pc \notin {"unrdm", "unscratch2", "rdm"}
          /\ \A a \in Addr : slot[a] = IF a < Len(dest) THEN a + 1 ELSE 0

IInv == Types /\ Frame /\ Untouched /\ Bodies /\ Leftovers /\ Rollback /\ Provision
            /\ Attachment /\ Contents /\ Backed
-----------------------------------------------------------------------------
(* What does not change: the run's options, and the spec once captured.     *)

\* The sets of steps depend on the destination and its options only.
LEMMA SameRun ==
    ASSUME opt' = opt
    PROVE  /\ Making' = Making /\ Copying' = Copying /\ Finishing' = Finishing
           /\ Built' = Built /\ Freeing' = Freeing /\ Steps' = Steps
           /\ Whole' = Whole /\ Loops' = Loops
           /\ (OnDemand' <=> OnDemand) /\ (Provisioned' <=> Provisioned)
BY DEF Making, Copying, Finishing, Built, Freeing, Steps, Whole, Loops, OnDemand, Provisioned

\* What is computed from the captured disks stays while they do.
LEMMA SameSpec ==
    ASSUME spec' = spec
    PROVE  /\ Positions' = Positions /\ Orders' = Orders /\ InList' = InList
           /\ (DistinctOrders' <=> DistinctOrders)
           /\ BootDisk' = BootDisk
           /\ \A o : (FirstWith(o))' = FirstWith(o)
BY DEF Positions, Orders, InList, DistinctOrders, BootDisk, BootsBefore, FirstWith

\* The steps of any destination.
Makings == {"create", "qmCreate", "qmPurge", "qmConfig", "await", "cache", "apply",
            "ocCleanup", "ports", "boot1", "settle", "osCleanup", "format", "createVm",
            "unscratch"}
Finals  == {"finalize", "convert", "boot", "power", "remove", "tidy", "done"}

\* What every destination has in common.
LEMMA AnyForm ==
    ASSUME opt \in Runs
    PROVE  /\ "create" \in Making /\ Making \subseteq Makings
           /\ {"disk", "copy"} \subseteq Copying /\ Copying \subseteq {"disk", "copy", "rdm"}
           /\ Finals \subseteq Finishing
           /\ Finishing \subseteq Finals \union {"unrdm", "unscratch2"}
           /\ Freeing \subseteq {"freeRdm", "unscratch3"}
           /\ opt.dst /= "vsphere" =>
                 Copying = {"disk", "copy"} /\ Finishing = Finals /\ Freeing = {}
           /\ opt.dst \in Platforms
<1>1. opt.dst \in Platforms
  BY PartsAssumption DEF RunType
<1>2. "create" \in Making /\ Making \subseteq Makings
  BY <1>1 DEF Making, Makings, Platforms
<1> QED
  BY <1>1, <1>2 DEF Copying, Finishing, Freeing, Finals

\* The numbers that stand for volumes, contents and addresses.
LEMMA Numbers ==
    /\ Disks \subseteq Vols \ {Scratch} /\ Disks \subseteq Addr /\ Disks \subseteq 0..Absent
    /\ Scratch \in Vols /\ Stray \in Vols \ ({Scratch} \union Disks)
    /\ Absent \notin Disks /\ Blank /= Absent /\ Blank \in 0..Absent /\ Absent \in 0..Absent
    /\ 0 \in Addr /\ 0 \notin Vols /\ 1 \in Disks /\ Scratch \notin Disks
    /\ \A v \in Vols : v /= 0
    /\ Vols \subseteq Nat /\ Addr \subseteq Nat /\ Disks \subseteq Nat
BY PartsAssumption DEF Disks, Vols, Scratch, Stray, Addr, Absent, Blank

\* The disk a loop is at is one of the spec's, and so is the boot disk.
NoSpec == {"capture", "undo", "unstage", "rolledback"}

\* The disk a loop is at is one of the spec's, and the boot disk is one of them.
LEMMA Here ==
    ASSUME TypedRun, TypedCtl, Frame
    PROVE  /\ Captures /\ Len(spec) \in Nat /\ Len(spec) <= NDisks /\ at \in Nat
           /\ Positions \subseteq Disks
           /\ \A i \in Positions : spec[i].order \in Addr /\ spec[i].disk \in Disks
           /\ pc \in Loops => at \in Positions /\ Order \in Addr /\ at <= Len(spec)
           /\ pc \notin NoSpec \/ known =>
                 spec /= << >> /\ BootDisk \in Positions /\ 1 \in Positions
<1>1. Captures
  BY DEF TypedRun, Captures
<1>2. at \in Nat /\ 1 <= at /\ (at <= Len(spec) => at \in Positions)
  BY <1>1, SpecFacts, PartsAssumption DEF TypedCtl, Disks, Positions
<1>3. spec /= << >> => 1 \in Positions
  BY <1>1, SpecFacts DEF Positions, Captures
<1>4. /\ pc \in Loops => at \in Positions /\ at <= Len(spec)
      /\ pc \notin NoSpec \/ known => spec /= << >>
  BY <1>2 DEF Frame, NoSpec
<1> QED
  BY <1>1, <1>2, <1>3, <1>4, SpecFacts, Ranks DEF Order, Captures

\* Whatever a call answers, the faults are counted.
LEMMA Heard ==
    ASSUME TypedFaults, NEW a, NEW S, Hear(a, S) \/ HearCleanup(a, S)
    PROVE  TypedFaults' /\ (~missed' => ~missed /\ a \notin {"late", "silent"})
<1>1. missed' \in BOOLEAN /\ (~missed' => ~missed /\ a \notin {"late", "silent"})
  BY DEF TypedFaults, Hear, HearCleanup
<1>2. faults' \in 0..MaxFaults
  <2>1. /\ a /= "ok" => faults < MaxFaults
        /\ faults' = faults + (IF a = "ok" THEN 0 ELSE 1)
    BY DEF Hear, HearCleanup
  <2> QED
    BY <2>1, PartsAssumption DEF TypedFaults
<1> QED
  BY <1>1, <1>2 DEF TypedFaults

\* The attached volumes are those of the devices.
LEMMA SameSlot ==
    ASSUME slot' = slot
    PROVE  Attached' = Attached
BY DEF Attached

\* A device at a free address is one more.
LEMMA OneMore ==
    ASSUME slot \in [Addr -> Nat], NEW a \in Addr, slot[a] = 0, NEW v \in Vols,
           slot' = [slot EXCEPT ![a] = v]
    PROVE  Attached' = Attached \union {v}
<1>1. slot'[a] = v /\ v /= 0 /\ \A b \in Addr : b /= a => slot'[b] = slot[b]
  BY Numbers
<1>2. Attached' = {slot'[b] : b \in Addr} \ {0}
  BY DEF Attached
<1>3. \A w : w \in Attached' <=> w = v \/ w \in Attached
  BY <1>1, <1>2 DEF Attached
<1> QED
  BY <1>3

\* The first free address, when all below it are taken.
LEMMA FreeAddrIs ==
    ASSUME NEW m \in Addr, \A a \in Addr : slot[a] = 0 <=> m <= a
    PROVE  FreeAddr = m
<1>1. /\ m \in Nat /\ Addr \subseteq Nat /\ slot[m] = 0
      /\ \A b \in Addr : slot[b] = 0 => m <= b
  BY Numbers
<1>2. /\ FreeAddr \in Addr /\ slot[FreeAddr] = 0
      /\ \A b \in Addr : slot[b] = 0 => FreeAddr <= b
  BY <1>1 DEF FreeAddr
<1>3. FreeAddr <= m /\ m <= FreeAddr
  BY <1>1, <1>2
<1> QED
  BY <1>1, <1>2, <1>3

\* Devices by order: none at first, and each further disk finds its address free.
LEMMA NoneByOrder ==
    ASSUME NEW sp
    PROVE  ByOrder(NoDevices, sp, 0)
BY DEF ByOrder, NoDevices

\* The next disk's device, at the address of its order, keeps the devices by order.
LEMMA NextByOrder ==
    ASSUME Captures, DistinctOrders, slot \in [Addr -> Nat],
           NEW m \in Positions, ByOrder(slot, spec, m - 1)
    PROVE  /\ slot[spec[m].order] = 0
           /\ ByOrder([slot EXCEPT ![spec[m].order] = m], spec, m)
<1> DEFINE o == spec[m].order
           sl == [slot EXCEPT ![o] = m]
<1>1. /\ o \in Addr /\ \A i \in 1..(m - 1) : i \in Positions /\ i /= m
      /\ \A i \in 1..m : i \in 1..(m - 1) \/ i = m
      /\ m \in 1..m /\ \A i \in 1..(m - 1) : i \in 1..m
  BY SpecFacts DEF Positions
<1>2. \A i \in 1..(m - 1) : spec[i].order \in Addr /\ spec[i].order /= o
  BY <1>1, SpecFacts DEF DistinctOrders
<1>3. slot[o] = 0
  <2>1. slot[o] /= 0 => slot[o] \in 1..(m - 1) /\ spec[slot[o]].order = o
    BY <1>1 DEF ByOrder
  <2> QED
    BY <1>2, <2>1
<1>4. sl[o] = m /\ \A a \in Addr : a /= o => sl[a] = slot[a]
  BY <1>1
<1> HIDE DEF sl, o
<1>5. \A i \in 1..m : sl[spec[i].order] = i
  BY <1>1, <1>2, <1>4 DEF ByOrder, o
<1>6. ASSUME NEW a \in Addr, sl[a] /= 0
      PROVE  sl[a] \in 1..m /\ spec[sl[a]].order = a
  <2>1. CASE a = o
    BY <1>1, <1>4, <2>1 DEF o
  <2>2. CASE a /= o
    <3>1. slot[a] \in 1..(m - 1) /\ spec[slot[a]].order = a
      BY <1>4, <1>6, <2>2 DEF ByOrder
    <3> QED
      BY <1>1, <1>4, <2>2, <3>1
  <2> QED
    BY <2>1, <2>2
<1> QED
  BY <1>3, <1>5, <1>6 DEF ByOrder, sl, o

\* A VM that was just handed to the service has no disk of the run yet.
LEMMA NothingCopied ==
    ASSUME dest' = << >>, native' = {}
    PROVE  Contents'
BY DEF Contents

\* The next disk is handed back, to be copied.
LEMMA NextToCopy ==
    ASSUME Frame, Contents, opt' = opt, spec' = spec, at' = at, Good' => Good,
           pc \in Copying \ {"copy"}, pc' = "copy", at \in Nat, dest \in Seq(Vols),
           dest' = Append(dest, at), native' = native,
           \A i \in 1..(at - 1) : vol'[i] = vol[i]
    PROVE  Contents'
<1> SUFFICES ASSUME Good' PROVE Contents'
  BY DEF Contents
<1>1. Len(dest) = at - 1 /\ pc \in Built /\ pc /= "copy"
  BY DEF Frame, Built
<1>2. /\ native = {}
      /\ \A i \in 1..(at - 1) : dest[i] = i /\ (i \in native \/ vol[i] = spec[i].disk)
  BY <1>1 DEF Contents
<1>3. Len(dest') = at /\ dest'[at] = at /\ \A i \in 1..(at - 1) : dest'[i] = dest[i]
  BY <1>1
<1>4. \A i \in 1..at : i \in 1..(at - 1) \/ i = at
  OBVIOUS
<1> QED
  BY <1>2, <1>3, <1>4 DEF Contents

\* The next disk of an on-demand destination is made, at the address of its order.
LEMMA NextOnDemand ==
    ASSUME IInv, OnDemand, opt' = opt, spec' = spec, at' = at, Good' => Good,
           pc = "disk", pc' = "copy", dest' = Append(dest, at), UNCHANGED <<rdm, native>>,
           slot' = [slot EXCEPT ![Order] = at], vol' = [vol EXCEPT ![at] = Blank]
    PROVE  Attachment' /\ Contents'
<1>1. /\ TypedRun /\ TypedCtl /\ TypedVm /\ TypedMemory /\ Frame /\ Attachment /\ Contents
      /\ TypedVol
  BY DEF IInv, Types
<1>2. /\ Captures /\ at \in Nat /\ at \in Positions /\ dest \in Seq(Vols)
      /\ Len(dest) = at - 1 /\ pc \in Built
  BY <1>1, Here DEF Loops, Copying, Built, Frame, TypedMemory
<1>3. Contents'
  BY <1>1, <1>2, NextToCopy DEF Copying, TypedVol
<1>4. ASSUME Good' PROVE Attachment'
  <2>1. ByOrder(slot, spec, at - 1) /\ slot \in [Addr -> Nat]
    BY <1>1, <1>2, <1>4, Numbers DEF Attachment, TypedVm
  <2>2. ByOrder(slot', spec, at)
    BY <1>2, <1>4, <2>1, NextByOrder DEF Good, Order
  <2>3. \A v \in Vols : Exists(v)' => v \in Positions
    <3>1. \A v \in Vols : Exists(v) => v \in Positions
      BY <1>1, <1>2, <1>4 DEF Attachment, OnDemand
    <3>2. \A v \in Vols : v /= at => vol'[v] = vol[v]
      BY <1>1, <1>2 DEF TypedVol
    <3> QED
      BY <1>2, <3>1, <3>2 DEF Exists
  <2>4. Len(dest') = at
    BY <1>2
  <2> QED
    BY <2>2, <2>3, <2>4, SameSpec DEF Attachment, OnDemand
<1> QED
  BY <1>3, <1>4 DEF Attachment

\* Before the VM is known, an on-demand destination has no volume.
LEMMA NoVolumes ==
    ASSUME IInv, OnDemand, pc \in Making
    PROVE  /\ ~known /\ dest = << >> /\ slot = NoDevices /\ native = {}
           /\ ~missed => \A v \in Vols : ~Exists(v)
<1>1. /\ Frame /\ Bodies /\ Rollback /\ TypedVm
  BY DEF IInv, Types
<1>2. ~known /\ dest = << >> /\ slot = NoDevices /\ native = {} /\ ~Over
  BY <1>1 DEF Frame, Bodies, TypedVm, OnDemand, Provisioned, Over, Making
<1>3. Attached = {}
  BY <1>2 DEF Attached, NoDevices
<1>4. ~missed => \A v \in Vols : ~Exists(v)
  BY <1>1, <1>2, <1>3 DEF Rollback, Standing, OnDemand
<1> QED
  BY <1>2, <1>4

\* A VM without disks is handed to the service.
LEMMA ShellMade ==
    ASSUME IInv, OnDemand, pc \in Making, opt' = opt, spec' = spec, Good' => Good,
           pc' = "disk", UNCHANGED <<dest, slot, vol, rdm, native>>
    PROVE  Attachment' /\ Contents'
<1>1. Good => \A v \in Vols : ~Exists(v)
  BY NoVolumes DEF Good
<1>2. Contents'
  BY NoVolumes, NothingCopied
<1>3. ByOrder(slot', spec', Len(dest'))
  BY NoVolumes, NoneByOrder
<1> QED
  BY <1>1, <1>2, <1>3 DEF Attachment, OnDemand, Exists

\* After the copies, a step of a destination but vSphere leaves the disks alone.
LEMMA StaysBuilt ==
    ASSUME Frame, Attachment, Contents, opt.dst /= "vsphere", opt' = opt, spec' = spec,
           rdm = {}, native \subseteq rdm, Good' => Good, pc \in Finishing, pc' \in Finishing,
           UNCHANGED <<slot, vol, dest, native, rdm>>,
           pc' \in {"power", "remove", "tidy", "done"} =>
              boots' = spec[BootDisk].order \/ opt.dst \notin {"proxmox", "xcpng"}
              \/ (pc \in {"power", "remove", "tidy"} /\ boots' = boots)
    PROVE  Attachment' /\ Contents'
<1>1. /\ pc \in Built /\ pc' \in Built' /\ pc /= "copy" /\ pc' /= "copy"
      /\ native = {}
  BY SameRun DEF Built, Finishing
<1>2. Attachment'
  <2> SUFFICES ASSUME Good' PROVE Attachment'
    BY DEF Attachment
  <2>1. OnDemand => ByOrder(slot, spec, Len(dest))
    BY <1>1 DEF Attachment
  <2>2. \A v \in Vols : Exists(v) => v \in Positions
    BY <1>1 DEF Attachment
  <2>3. \A v \in Vols : Exists(v)' => v \in Positions'
    BY <2>2, SameSpec DEF Exists
  <2>4. /\ pc' \in {"power", "remove", "tidy", "done"} /\ opt.dst \in {"proxmox", "xcpng"}
        => boots' = spec[BootDisk].order
    BY <1>1 DEF Attachment
  <2> QED
    BY <2>1, <2>3, <2>4, SameRun, SameSpec DEF Attachment
<1>3. Contents'
  <2> SUFFICES ASSUME Good' PROVE Contents'
    BY DEF Contents
  <2>1. \A i \in 1..Len(dest) : dest[i] = i /\ (i \in native \/ vol[i] = spec[i].disk)
    BY <1>1 DEF Contents
  <2> QED
    BY <1>1, <2>1, SameRun DEF Contents
<1> QED
  BY <1>2, <1>3

\* What a rollback finds when nothing has been made, ...
LEMMA NothingYet ==
    ASSUME ~vm', \A v \in Vols : ~Exists(v)', rdm' = {}
    PROVE  Rollback'
BY DEF Rollback, Cleared, Disowned, Standing, VolsOfVsphere

\* ... when the VM and the volumes are as they were, ...
LEMMA StandsStill ==
    ASSUME Rollback, opt' = opt, spec' = spec, ~missed' => ~missed,
           UNCHANGED <<vm, known, slot, vol, rdm, native, memory, noted>>,
           known \/ ~vm, ~Over, ~Over', pc \notin Freeing, pc /= "format", pc' \notin Freeing
    PROVE  Rollback'
<1> SUFFICES ASSUME ~missed' PROVE Disowned' /\ Standing'
  BY DEF Rollback
<1>1. Standing /\ (\A v : Exists(v)' <=> Exists(v))
  BY DEF Rollback, Exists
<1>2. Disowned'
  BY DEF Disowned
<1>3. opt.dst = "vsphere" => VolsOfVsphere'
  <2> SUFFICES ASSUME opt.dst = "vsphere" PROVE VolsOfVsphere'
    OBVIOUS
  <2>1. VolsOfVsphere /\ Attached' = Attached /\ pc \notin {"freeRdm", "unscratch3"}
    BY <1>1, SameSlot DEF Standing, Freeing
  <2>2. pc' \notin Freeing' /\ pc' /= "unscratch3"
    BY SameRun DEF Freeing
  <2>3. \A v \in Vols : Exists(v)' =>
           \/ v = Scratch /\ noted'
           \/ v \in rdm'
           \/ v \in Attached' /\ opt'.vvol
    BY <1>1, <2>1 DEF VolsOfVsphere
  <2>4. native' = {} => \A v \in rdm' : Exists(v)'
    BY <1>1, <2>1 DEF VolsOfVsphere
  <2> QED
    BY <2>2, <2>3, <2>4 DEF VolsOfVsphere
<1> QED
  BY <1>1, <1>2, <1>3, SameSlot, SameSpec DEF Standing

\* ... and when it is over.
LEMMA StillOver ==
    ASSUME Rollback, opt' = opt, spec' = spec, ~missed' => ~missed,
           UNCHANGED <<vm, known, vol, rdm, native>>, Over, Over'
    PROVE  Rollback'
<1>1. \A v : (Exists(v)' <=> Exists(v)) /\ (KnownLeak(v)' <=> KnownLeak(v))
  BY SameSpec DEF Exists, KnownLeak, Gap
<1> QED
  BY <1>1 DEF Rollback, Cleared

\* What a provisioned destination remembers and has attached stays.
LEMMA ProvisionStays ==
    ASSUME Provision, opt' = opt, spec' = spec, Good' => Good,
           Provisioned => UNCHANGED <<memory, slot, boots>>,
           pc \in Built, pc' \notin Makings
    PROVE  Provision'
BY SameRun, SameSpec DEF Provision, Makings

\* After the VM of vSphere has its disks, most steps leave them alone.
LEMMA StaysUp ==
    ASSUME Frame, Attachment, Contents, opt.dst = "vsphere", opt' = opt, spec' = spec,
           Good' => Good, pc \in Finishing \ {"finalize"},
           pc' \in {"boot", "power", "remove", "tidy", "done"}, ~noted',
           UNCHANGED <<slot, dest, native, rdm>>, dest \in Seq(Vols), Len(dest) <= NDisks,
           \A v \in Vols \ {Scratch} : vol'[v] = vol[v],
           Exists(Scratch)' => Exists(Scratch) /\ ~noted,
           pc' \in {"power", "remove", "tidy", "done"} =>
              boots' = spec[BootDisk].order
              \/ (pc \in {"power", "remove", "tidy"} /\ boots' = boots)
    PROVE  Attachment' /\ Contents'
<1>1. /\ pc \in Built /\ pc' \in Built' /\ pc /= "copy" /\ pc' /= "copy"
      /\ pc' \in Finishing \ {"finalize"} /\ pc' \notin Copying
      /\ ~OnDemand
  BY SameRun DEF Built, Finishing, Copying, OnDemand
<1>2. Attachment'
  <2> SUFFICES ASSUME Good' PROVE Attachment'
    BY DEF Attachment
  <2>1. \A v \in Vols : Exists(v)' => v \in Positions'
    <3>1. \A v \in Vols : Exists(v) => v \in Positions \/ (v = Scratch /\ noted)
      BY <1>1 DEF Attachment
    <3> QED
      BY <3>1, SameSpec DEF Exists
  <2>2. ~opt.vvol => ByOrder(slot', spec', Len(spec'))
    BY <1>1 DEF Attachment
  <2>3. pc' \in {"power", "remove", "tidy", "done"} /\ ~opt.vvol
        => boots' = spec[BootDisk].order
    BY <1>1 DEF Attachment
  <2> QED
    BY <1>1, <2>1, <2>2, <2>3, SameRun, SameSpec DEF Attachment
<1>3. Contents'
  <2> SUFFICES ASSUME Good' PROVE Contents'
    BY DEF Contents
  <2>1. /\ \A i \in 1..Len(dest) : dest[i] = i /\ (i \in native \/ vol[i] = spec[i].disk)
        /\ native /= {} => opt.convert
    BY <1>1 DEF Contents
  <2>2. \A i \in 1..Len(dest) : vol'[i] = vol[i]
    <3>1. \A i \in 1..Len(dest) : i \in Vols \ {Scratch}
      BY PartsAssumption DEF Vols, Scratch
    <3> QED
      BY <3>1
  <2> QED
    BY <1>1, <2>1, <2>2, SameRun DEF Contents
<1> QED
  BY <1>2, <1>3

\* The loop goes to the next disk, or is over.
LEMMA Looped ==
    ASSUME Captures, TypedCtl, NEW step, NEW after, Loop(step, after)
    PROVE  /\ TypedCtl'
           /\ \/ at < Len(spec) /\ at' = at + 1 /\ at' <= Len(spec) /\ pc' = step
              \/ ~(at < Len(spec)) /\ at' = 1 /\ pc' = after
<1>1. at \in Nat /\ 1 <= at /\ Len(spec) \in Nat /\ Len(spec) <= NDisks
  BY SpecFacts, PartsAssumption DEF TypedCtl, Disks, Captures
<1>2. \/ at < Len(spec) /\ at' = at + 1 /\ at' <= Len(spec) /\ pc' = step
      \/ ~(at < Len(spec)) /\ at' = 1 /\ pc' = after
  BY <1>1 DEF Loop
<1>3. at' \in Disks
  BY <1>1, <1>2, PartsAssumption DEF Disks
<1> QED
  BY <1>2, <1>3 DEF TypedCtl, Loop

\* One device at each of the first addresses: each of the first volumes is one.
LEMMA OnePerAddrIsOnto ==
    ASSUME NEW sl, NEW m \in Nat, m <= NDisks, OnePerAddr(sl, m)
    PROVE  \A i \in 1..m : \E a \in Addr : sl[a] = i
<1> DEFINE f == [a \in 0..(m - 1) |-> sl[a]]
<1>1. \A a \in 0..(m - 1) : a \in Addr /\ a < m
  BY PartsAssumption DEF Addr
<1>2. /\ \A a \in 0..(m - 1) : sl[a] \in 1..m
      /\ \A a, b \in 0..(m - 1) : sl[a] = sl[b] => a = b
  <2>1. \A a \in 0..(m - 1) : sl[a] \in 1..m
    BY <1>1 DEF OnePerAddr
  <2> QED
    BY <1>1, <2>1 DEF OnePerAddr
<1>3. f \in Injection(0..(m - 1), 1..m)
  <2>1. f \in [0..(m - 1) -> 1..m]
    BY <1>2
  <2>2. \A a, b \in 0..(m - 1) : f[a] = f[b] => a = b
    BY <1>2
  <2> HIDE DEF f
  <2> QED
    BY <2>1, <2>2 DEF Injection, IsInjective
<1>4. /\ IsFiniteSet(0..(m - 1)) /\ Cardinality(0..(m - 1)) = m
      /\ IsFiniteSet(1..m) /\ Cardinality(1..m) = m
  <2>1. /\ IsFiniteSet(0..(m - 1))
        /\ Cardinality(0..(m - 1)) = IF 0 <= m - 1 THEN (m - 1) - 0 + 1 ELSE 0
    BY FS_Interval
  <2>2. IsFiniteSet(1..m) /\ Cardinality(1..m) = IF 1 <= m THEN m - 1 + 1 ELSE 0
    BY FS_Interval
  <2> QED
    BY <2>1, <2>2
<1>5. f \in Surjection(0..(m - 1), 1..m)
  <2> HIDE DEF f
  <2> QED
    BY <1>3, <1>4, FS_Injection
<1>6. \A i \in 1..m : \E a \in 0..(m - 1) : sl[a] = i
  BY <1>5 DEF Surjection
<1> QED
  BY <1>1, <1>6

\* The VM of a provisioned destination: the disks by boot rank (HPE VME) ...
LEMMA ByRank ==
    ASSUME Captures, spec /= << >>,
           VmWith([d \in InList |-> CHOOSE i \in Positions : BootRank(i) = d], 0)
    PROVE  /\ slot' \in [Addr -> {0} \union Positions] /\ OnePerAddr(slot', Len(spec))
           /\ 0 \in InList /\ slot'[0] = BootDisk
<1> DEFINE ranked(a) == CHOOSE i \in Positions : BootRank(i) = a
<1>1. \A a \in InList : ranked(a) \in Positions /\ BootRank(ranked(a)) = a
  BY Ranks
<1>2. slot' = [a \in Addr |-> IF a \in InList THEN ranked(a) ELSE 0]
  BY DEF VmWith
<1>3. \A a \in Addr : a \in InList <=> a < Len(spec)
  BY DEF InList
<1>4. 0 \in InList /\ 0 \notin Positions /\ Positions = 1..Len(spec)
  <2>1. Len(spec) \in Nat /\ Len(spec) /= 0
    BY SpecFacts DEF Captures
  <2> QED
    BY <2>1, Numbers DEF InList, Positions
<1> HIDE DEF ranked
<1>5. slot' \in [Addr -> {0} \union Positions]
  BY <1>1, <1>2
<1>6. slot'[0] = BootDisk
  <2>1. slot'[0] = ranked(0) /\ BootRank(ranked(0)) = 0 /\ ranked(0) \in Positions
    BY <1>1, <1>2, <1>4, Numbers
  <2> QED
    BY <2>1, Ranks
<1>7. \A a \in Addr : IF a < Len(spec) THEN slot'[a] \in 1..Len(spec) ELSE slot'[a] = 0
  BY <1>1, <1>2, <1>3, <1>4
<1>8. \A a, b \in Addr : slot'[a] /= 0 /\ slot'[a] = slot'[b] => a = b
  BY <1>1, <1>2, <1>4
<1> QED
  BY <1>4, <1>5, <1>6, <1>7, <1>8 DEF OnePerAddr

\* ... or as they are listed (OpenShift and OpenStack).
LEMMA AsCaptured ==
    ASSUME Captures, spec /= << >>, NEW volume \in [InList -> {0} \union Disks],
           VmWith(volume, BootDisk - 1)
    PROVE  /\ slot' \in [Addr -> {0} \union Disks] /\ boots' \in InList
           /\ (\A d \in InList : volume[d] = d + 1) =>
                 OnePerAddr(slot', Len(spec)) /\ slot'[boots'] = BootDisk
<1>1. /\ Len(spec) \in Nat /\ Len(spec) <= NDisks /\ BootDisk \in 1..Len(spec)
      /\ Addr \subseteq Nat
  BY SpecFacts, Ranks, Numbers DEF Captures, Positions
<1>2. slot' = [a \in Addr |-> IF a \in InList THEN volume[a] ELSE 0] /\ boots' = BootDisk - 1
  BY DEF VmWith
<1>3. \A a \in Addr : a \in InList <=> a < Len(spec)
  BY DEF InList
<1>4. boots' \in InList /\ boots' \in Addr /\ boots' + 1 = BootDisk
  BY <1>1, <1>2, PartsAssumption DEF InList, Addr
<1>5. ASSUME \A d \in InList : volume[d] = d + 1
      PROVE  OnePerAddr(slot', Len(spec)) /\ slot'[boots'] = BootDisk
  <2>1. \A a \in Addr : IF a < Len(spec) THEN slot'[a] = a + 1 ELSE slot'[a] = 0
    BY <1>2, <1>3, <1>5
  <2>2. \A a \in Addr : IF a < Len(spec) THEN slot'[a] \in 1..Len(spec) ELSE slot'[a] = 0
    BY <1>1, <2>1
  <2>3. \A a, b \in Addr : slot'[a] /= 0 /\ slot'[a] = slot'[b] => a = b
    BY <1>1, <2>1
  <2>4. slot'[boots'] = BootDisk
    BY <1>2, <1>4, <1>5
  <2> QED
    BY <2>2, <2>3, <2>4 DEF OnePerAddr
<1> QED
  BY <1>2, <1>4, <1>5

\* The next volume is remembered by its order.
LEMMA NextRecalled ==
    ASSUME Captures, DistinctOrders, memory \in [Addr -> Nat],
           NEW m \in Positions, Recalled(memory, spec, m - 1)
    PROVE  Recalled([memory EXCEPT ![spec[m].order] = m], spec, m)
<1> DEFINE o == spec[m].order
           mem == [memory EXCEPT ![o] = m]
<1>1. /\ o \in Addr /\ \A i \in 1..(m - 1) : i \in Positions /\ i /= m
      /\ \A i \in 1..m : i \in 1..(m - 1) \/ i = m
  BY SpecFacts DEF Positions
<1>2. \A i \in 1..(m - 1) : spec[i].order \in Addr /\ spec[i].order /= o
  BY <1>1, SpecFacts DEF DistinctOrders
<1>3. mem[o] = m /\ \A a \in Addr : a /= o => mem[a] = memory[a]
  BY <1>1
<1> HIDE DEF mem, o
<1>4. \A i \in 1..m : mem[spec[i].order] = i
  BY <1>1, <1>2, <1>3 DEF Recalled, o
<1> QED
  BY <1>4 DEF Recalled, mem, o

\* A VM that has its disks is handed to the service.
LEMMA VmHandedOver ==
    ASSUME IInv, Provisioned, pc \in Making, opt' = opt, spec' = spec, pc' = "disk",
           UNCHANGED <<dest, vol, rdm, native>>,
           Good' => \A v \in Vols : Exists(v) => v \in Positions
    PROVE  Attachment' /\ Contents'
<1>1. dest = << >> /\ native = {}
  BY DEF IInv, Types, Frame, Bodies, TypedVm, Provisioned
<1>2. Contents'
  BY <1>1, NothingCopied
<1> QED
  BY <1>2, SameSpec DEF Attachment, OnDemand, Provisioned, Exists

\* While vSphere creates the VM, only the scratch volume is there.
LEMMA OnlyScratch ==
    ASSUME IInv, opt.dst = "vsphere", pc \in Making
    PROVE  /\ ~known /\ dest = << >> /\ slot = NoDevices /\ rdm = {} /\ native = {}
           /\ ~missed => ~vm /\ \A v \in Vols : Exists(v) =>
                    v = Scratch /\ (noted \/ pc = "format")
<1>1. Frame /\ Bodies /\ Rollback /\ TypedVm
  BY DEF IInv, Types
<1>2. ~known /\ dest = << >> /\ slot = NoDevices /\ rdm = {} /\ native = {}
  BY <1>1 DEF Frame, Bodies, TypedVm, Provisioned
<1>3. Attached = {} /\ ~Over /\ pc \notin {"qmConfig", "settle", "osCleanup"}
  BY <1>2 DEF Attached, NoDevices, Over, Making
<1>4. ~missed => ~vm /\ \A v \in Vols : Exists(v) => v = Scratch /\ (noted \/ pc = "format")
  BY <1>1, <1>2, <1>3 DEF Rollback, Disowned, Standing, VolsOfVsphere
<1> QED
  BY <1>2, <1>4

\* While a VM of vSphere is being created nothing but the scratch is there.
LEMMA ScratchStands ==
    ASSUME opt.dst = "vsphere", opt' = opt, rdm' = {}, ~vm' \/ known',
           \A v \in Vols : Exists(v)' =>
              v = Scratch /\ (noted' \/ pc' = "format" \/ (~known' /\ Over')),
           Over' => ~vm' /\ ~known'
    PROVE  Rollback'
BY DEF Rollback, Cleared, Disowned, Standing, VolsOfVsphere, KnownLeak

\* Without a gap in their orders, the loop over disk<n> frees every RDM volume.
LEMMA NoGap ==
    ASSUME rdm \subseteq Disks, ~Gap, \A i \in rdm : Exists(i)
    PROVE  \A i \in rdm : i \in Contiguous
<1>1. Cardinality(rdm) \in Nat
  <2>1. IsFiniteSet(Disks)
    BY FS_Interval, PartsAssumption DEF Disks
  <2> QED
    BY <2>1, FS_Subset, FS_CardinalityType
<1>2. {spec[i].order : i \in rdm} = 0..(Cardinality(rdm) - 1)
  BY DEF Gap
<1>3. ASSUME NEW i \in rdm, NEW o \in 0..spec[i].order
      PROVE  \E j \in rdm : spec[j].order = o /\ Exists(j)
  <2>1. spec[i].order \in 0..(Cardinality(rdm) - 1)
    BY <1>2
  <2>2. o \in 0..(Cardinality(rdm) - 1)
    BY <1>1, <2>1
  <2> QED
    BY <1>2, <2>2
<1> QED
  BY <1>3 DEF Contiguous

\* The steps of each destination.
LEMMA ProxmoxForm ==
    ASSUME opt.dst = "proxmox"
    PROVE  /\ Making = {"create", "qmCreate", "qmPurge", "qmConfig"}
           /\ Copying = {"disk", "copy"}
           /\ Finishing = {"finalize", "convert", "boot", "power", "remove", "tidy", "done"}
           /\ Freeing = {}
           /\ OnDemand /\ ~Provisioned
BY DEF Making, Copying, Freeing, Finishing, OnDemand, Provisioned

\* The steps of a migration to XCP-ng.
LEMMA XcpngForm ==
    ASSUME opt.dst = "xcpng"
    PROVE  /\ Making = {"create"}
           /\ Copying = {"disk", "copy"}
           /\ Finishing = {"finalize", "convert", "boot", "power", "remove", "tidy", "done"}
           /\ Freeing = {}
           /\ OnDemand /\ ~Provisioned
BY DEF Making, Copying, Freeing, Finishing, OnDemand, Provisioned

\* The steps of a migration to Nutanix.
LEMMA NutanixForm ==
    ASSUME opt.dst = "nutanix"
    PROVE  /\ Making = {"create"}
           /\ Copying = {"disk", "copy"}
           /\ Finishing = {"finalize", "convert", "boot", "power", "remove", "tidy", "done"}
           /\ Freeing = {}
           /\ OnDemand /\ ~Provisioned
BY DEF Making, Copying, Freeing, Finishing, OnDemand, Provisioned

\* The steps of a migration to HPE VME.
LEMMA HpevmeForm ==
    ASSUME opt.dst = "hpevme"
    PROVE  /\ Making = {"create", "await", "cache"}
           /\ Copying = {"disk", "copy"}
           /\ Finishing = {"finalize", "convert", "boot", "power", "remove", "tidy", "done"}
           /\ Freeing = {}
           /\ ~OnDemand /\ Provisioned
BY DEF Making, Copying, Freeing, Finishing, OnDemand, Provisioned

\* The steps of a migration to OpenShift.
LEMMA OpenshiftForm ==
    ASSUME opt.dst = "openshift"
    PROVE  /\ Making = {"create", "apply", "ocCleanup"}
           /\ Copying = {"disk", "copy"}
           /\ Finishing = {"finalize", "convert", "boot", "power", "remove", "tidy", "done"}
           /\ Freeing = {}
           /\ ~OnDemand /\ Provisioned
BY DEF Making, Copying, Freeing, Finishing, OnDemand, Provisioned

\* The steps of a migration to OpenStack.
LEMMA OpenstackForm ==
    ASSUME opt.dst = "openstack"
    PROVE  /\ Making = {"create", "ports", "boot1", "settle", "osCleanup"}
           /\ Copying = {"disk", "copy"}
           /\ Finishing = {"finalize", "convert", "boot", "power", "remove", "tidy", "done"}
           /\ Freeing = {}
           /\ ~OnDemand /\ Provisioned
BY DEF Making, Copying, Freeing, Finishing, OnDemand, Provisioned

\* The steps of a migration to vSphere.
LEMMA VsphereForm ==
    ASSUME opt.dst = "vsphere"
    PROVE  /\ Making = {"create", "format", "createVm", "unscratch"}
           /\ Copying = {"disk", "copy", "rdm"}
           /\ Finishing = {"finalize", "convert", "boot", "power", "remove", "tidy", "done",
                        "unrdm", "unscratch2"}
           /\ Freeing = {"freeRdm", "unscratch3"}
           /\ ~OnDemand /\ ~Provisioned
BY DEF Making, Copying, Freeing, Finishing, OnDemand, Provisioned

\* Proxmox: no id is taken yet; the answer changes only what others have.
LEMMA NextIdStep ==
    ASSUME IInv, NextId
    PROVE  IInv'
<1> USE DEF At, Outside, Goto, Leave, srcVars, ctlVars, memVars, vmVars, faultVars
<1>0. /\ TypedRun /\ TypedCtl /\ TypedFaults /\ TypedVm /\ TypedMemory /\ TypedVol
      /\ Frame /\ Untouched /\ Bodies /\ Leftovers /\ Rollback /\ Provision
      /\ Attachment /\ Contents /\ Backed
  BY DEF IInv, Types
<1>1. opt.dst = "proxmox" /\ opt' = opt /\ spec' = spec
  BY DEF NextId
<1>2. /\ Captures /\ Len(spec) \in Nat /\ Len(spec) <= NDisks /\ at \in Nat
      /\ Positions \subseteq Disks
      /\ \A i \in Positions : spec[i].order \in Addr /\ spec[i].disk \in Disks
      /\ pc \in Loops => at \in Positions /\ Order \in Addr /\ at <= Len(spec)
      /\ pc \notin NoSpec \/ known =>
            spec /= << >> /\ BootDisk \in Positions /\ 1 \in Positions
  BY <1>0, Here
<1>11. TypedRun'
  BY <1>0, <1>1
     DEF NextId, TypedRun
<1>12. TypedCtl'
  BY <1>0, <1>1, PartsAssumption
     DEF NextId, TypedCtl
<1>13. TypedFaults'
  BY <1>0, <1>1, Heard
     DEF NextId, TypedFaults
<1>14. TypedVm'
  BY <1>0, <1>1
     DEF NextId, TypedVm, Hear, HearCleanup, Checked, Unchecked, Effect
<1>15. TypedMemory'
  BY <1>0, <1>1
     DEF NextId, TypedMemory, Hear, HearCleanup, Checked, Unchecked, Effect
<1>16. TypedVol'
  BY <1>0, <1>1
     DEF NextId, TypedVol, Hear, HearCleanup, Checked, Unchecked, Effect
<1>17. Frame'
  BY <1>0, <1>1, ProxmoxForm, SameRun
     DEF NextId, Frame, Staging, Built, Steps, Whole, Loops, Hear, HearCleanup,
        Checked, Unchecked, Effect
<1>18. Untouched'
  BY <1>0, <1>1, ProxmoxForm, SameRun
     DEF NextId, Untouched, Staging
<1>19. Bodies'
  BY <1>0, <1>1, ProxmoxForm, SameRun
     DEF NextId, Bodies, Staging, Frame, Built, Hear, HearCleanup, Checked,
        Unchecked, Effect
<1>20. Leftovers'
  BY <1>0, <1>1, ProxmoxForm, SameRun
     DEF NextId, Leftovers, Staging, Frame, Built, Hear, HearCleanup, Checked,
        Unchecked, Effect
<1>21. Rollback'
  BY <1>0, <1>1, ProxmoxForm, SameRun
     DEF NextId, Rollback, Staging, Frame, Standing, Over, Cleared, Disowned,
        Exists, Built, Hear, HearCleanup, Checked, Unchecked, Effect
<1>22. Provision'
  BY <1>0, <1>1, ProxmoxForm, SameRun
     DEF NextId, Provision, Good, Built, Hear, HearCleanup, Checked, Unchecked,
        Effect
<1>23. Attachment'
  BY <1>0, <1>1, ProxmoxForm, SameRun
     DEF NextId, Attachment, Good, Built, Hear, HearCleanup, Checked, Unchecked,
        Effect
<1>24. Contents'
  BY <1>0, <1>1, ProxmoxForm, SameRun
     DEF NextId, Contents, Good, Built, Hear, HearCleanup, Checked, Unchecked,
        Effect
<1>25. Backed'
  BY <1>0, <1>1, ProxmoxForm, SameRun
     DEF NextId, Backed, Over, Exists, Built, Hear, HearCleanup, Checked,
        Unchecked, Effect
<1> QED
  BY <1>11, <1>12, <1>13, <1>14, <1>15, <1>16, <1>17, <1>18, <1>19, <1>20, <1>21,
     <1>22, <1>23, <1>24, <1>25 DEF IInv, Types

\* Proxmox: a VM appears at most, without a device; it is not known yet.
LEMMA QmCreateStep ==
    ASSUME IInv, QmCreate
    PROVE  IInv'
<1> USE DEF At, Outside, Goto, Leave, srcVars, ctlVars, memVars, vmVars, faultVars
<1>0. /\ TypedRun /\ TypedCtl /\ TypedFaults /\ TypedVm /\ TypedMemory /\ TypedVol
      /\ Frame /\ Untouched /\ Bodies /\ Leftovers /\ Rollback /\ Provision
      /\ Attachment /\ Contents /\ Backed
  BY DEF IInv, Types
<1>1. opt.dst = "proxmox" /\ opt' = opt /\ spec' = spec
  BY DEF QmCreate
<1>2. /\ Captures /\ Len(spec) \in Nat /\ Len(spec) <= NDisks /\ at \in Nat
      /\ Positions \subseteq Disks
      /\ \A i \in Positions : spec[i].order \in Addr /\ spec[i].disk \in Disks
      /\ pc \in Loops => at \in Positions /\ Order \in Addr /\ at <= Len(spec)
      /\ pc \notin NoSpec \/ known =>
            spec /= << >> /\ BootDisk \in Positions /\ 1 \in Positions
  BY <1>0, Here
<1>11. TypedRun'
  BY <1>0, <1>1
     DEF QmCreate, TypedRun
<1>12. TypedCtl'
  BY <1>0, <1>1, PartsAssumption
     DEF QmCreate, TypedCtl
<1>13. TypedFaults'
  BY <1>0, <1>1, Heard
     DEF QmCreate, TypedFaults
<1>14. TypedVm'
  BY <1>0, <1>1
     DEF QmCreate, TypedVm, Hear, HearCleanup, Checked, Unchecked, Effect
<1>15. TypedMemory'
  BY <1>0, <1>1
     DEF QmCreate, TypedMemory, Hear, HearCleanup, Checked, Unchecked, Effect
<1>16. TypedVol'
  BY <1>0, <1>1
     DEF QmCreate, TypedVol, Hear, HearCleanup, Checked, Unchecked, Effect
<1>17. Frame'
  BY <1>0, <1>1, ProxmoxForm, SameRun
     DEF QmCreate, Frame, Staging, Built, Steps, Whole, Loops, Hear, HearCleanup,
        Checked, Unchecked, Effect
<1>18. Untouched'
  BY <1>0, <1>1, ProxmoxForm, SameRun
     DEF QmCreate, Untouched, Staging
<1>19. Bodies'
  BY <1>0, <1>1, ProxmoxForm, SameRun
     DEF QmCreate, Bodies, Staging, Frame, Built, Hear, HearCleanup, Checked,
        Unchecked, Effect
<1>20. Leftovers'
  BY <1>0, <1>1, ProxmoxForm, SameRun
     DEF QmCreate, Leftovers, Staging, Frame, Built, Hear, HearCleanup, Checked,
        Unchecked, Effect
<1>21. Rollback'
  BY <1>0, <1>1, ProxmoxForm, SameRun
     DEF QmCreate, Rollback, Staging, Frame, Standing, Over, Cleared, Disowned,
        Exists, Built, Hear, HearCleanup, Checked, Unchecked, Effect
<1>22. Provision'
  BY <1>0, <1>1, ProxmoxForm, SameRun
     DEF QmCreate, Provision, Good, Built, Hear, HearCleanup, Checked, Unchecked,
        Effect
<1>23. Attachment'
  BY <1>0, <1>1, ProxmoxForm, SameRun
     DEF QmCreate, Attachment, Good, Built, Hear, HearCleanup, Checked, Unchecked,
        Effect
<1>24. Contents'
  BY <1>0, <1>1, ProxmoxForm, SameRun
     DEF QmCreate, Contents, Good, Built, Hear, HearCleanup, Checked, Unchecked,
        Effect
<1>25. Backed'
  BY <1>0, <1>1, ProxmoxForm, SameRun
     DEF QmCreate, Backed, Over, Exists, Built, Hear, HearCleanup, Checked,
        Unchecked, Effect
<1> QED
  BY <1>11, <1>12, <1>13, <1>14, <1>15, <1>16, <1>17, <1>18, <1>19, <1>20, <1>21,
     <1>22, <1>23, <1>24, <1>25 DEF IInv, Types

\* Proxmox: another attempt, of three; a VM of an earlier one may be gone.
LEMMA QmPurgeStep ==
    ASSUME IInv, QmPurge
    PROVE  IInv'
<1> USE DEF At, Outside, Goto, Leave, srcVars, ctlVars, memVars, vmVars, faultVars
<1>0. /\ TypedRun /\ TypedCtl /\ TypedFaults /\ TypedVm /\ TypedMemory /\ TypedVol
      /\ Frame /\ Untouched /\ Bodies /\ Leftovers /\ Rollback /\ Provision
      /\ Attachment /\ Contents /\ Backed
  BY DEF IInv, Types
<1>1. opt.dst = "proxmox" /\ opt' = opt /\ spec' = spec
  BY DEF QmPurge
<1>2. /\ Captures /\ Len(spec) \in Nat /\ Len(spec) <= NDisks /\ at \in Nat
      /\ Positions \subseteq Disks
      /\ \A i \in Positions : spec[i].order \in Addr /\ spec[i].disk \in Disks
      /\ pc \in Loops => at \in Positions /\ Order \in Addr /\ at <= Len(spec)
      /\ pc \notin NoSpec \/ known =>
            spec /= << >> /\ BootDisk \in Positions /\ 1 \in Positions
  BY <1>0, Here
<1>11. TypedRun'
  BY <1>0, <1>1
     DEF QmPurge, TypedRun
<1>12. TypedCtl'
  <2>1. tries < 3 /\ tries' = tries + 1 /\ at' = at
    BY <1>0 DEF QmPurge, Frame
  <2> QED
    BY <1>0, <2>1 DEF TypedCtl
<1>13. TypedFaults'
  BY <1>0, <1>1, Heard
     DEF QmPurge, TypedFaults
<1>14. TypedVm'
  BY <1>0, <1>1
     DEF QmPurge, TypedVm, Hear, HearCleanup, Checked, Unchecked, Effect
<1>15. TypedMemory'
  BY <1>0, <1>1
     DEF QmPurge, TypedMemory, Hear, HearCleanup, Checked, Unchecked, Effect
<1>16. TypedVol'
  BY <1>0, <1>1
     DEF QmPurge, TypedVol, Hear, HearCleanup, Checked, Unchecked, Effect
<1>17. Frame'
  BY <1>0, <1>1, ProxmoxForm, SameRun
     DEF QmPurge, Frame, Staging, Built, Steps, Whole, Loops, Hear, HearCleanup,
        Checked, Unchecked, Effect
<1>18. Untouched'
  BY <1>0, <1>1, ProxmoxForm, SameRun
     DEF QmPurge, Untouched, Staging
<1>19. Bodies'
  BY <1>0, <1>1, ProxmoxForm, SameRun
     DEF QmPurge, Bodies, Staging, Frame, Built, Hear, HearCleanup, Checked,
        Unchecked, Effect
<1>20. Leftovers'
  BY <1>0, <1>1, ProxmoxForm, SameRun
     DEF QmPurge, Leftovers, Staging, Frame, Built, Hear, HearCleanup, Checked,
        Unchecked, Effect
<1>21. Rollback'
  BY <1>0, <1>1, ProxmoxForm, SameRun
     DEF QmPurge, Rollback, Staging, Frame, Standing, Over, Cleared, Disowned,
        Exists, Built, Hear, HearCleanup, Checked, Unchecked, Effect
<1>22. Provision'
  BY <1>0, <1>1, ProxmoxForm, SameRun
     DEF QmPurge, Provision, Good, Built, Hear, HearCleanup, Checked, Unchecked,
        Effect
<1>23. Attachment'
  BY <1>0, <1>1, ProxmoxForm, SameRun
     DEF QmPurge, Attachment, Good, Built, Hear, HearCleanup, Checked, Unchecked,
        Effect
<1>24. Contents'
  BY <1>0, <1>1, ProxmoxForm, SameRun
     DEF QmPurge, Contents, Good, Built, Hear, HearCleanup, Checked, Unchecked,
        Effect
<1>25. Backed'
  BY <1>0, <1>1, ProxmoxForm, SameRun
     DEF QmPurge, Backed, Over, Exists, Built, Hear, HearCleanup, Checked,
        Unchecked, Effect
<1> QED
  BY <1>11, <1>12, <1>13, <1>14, <1>15, <1>16, <1>17, <1>18, <1>19, <1>20, <1>21,
     <1>22, <1>23, <1>24, <1>25 DEF IInv, Types

\* Proxmox: with its configuration the VM is known, or left and counted as missed.
LEMMA QmConfigStep ==
    ASSUME IInv, QmConfig
    PROVE  IInv'
<1> USE DEF At, Outside, Goto, Leave, srcVars, ctlVars, memVars, vmVars, faultVars,
   NewVm
<1>0. /\ TypedRun /\ TypedCtl /\ TypedFaults /\ TypedVm /\ TypedMemory /\ TypedVol
      /\ Frame /\ Untouched /\ Bodies /\ Leftovers /\ Rollback /\ Provision
      /\ Attachment /\ Contents /\ Backed
  BY DEF IInv, Types
<1>1. opt.dst = "proxmox" /\ opt' = opt /\ spec' = spec
  BY DEF QmConfig
<1>2. /\ Captures /\ Len(spec) \in Nat /\ Len(spec) <= NDisks /\ at \in Nat
      /\ Positions \subseteq Disks
      /\ \A i \in Positions : spec[i].order \in Addr /\ spec[i].disk \in Disks
      /\ pc \in Loops => at \in Positions /\ Order \in Addr /\ at <= Len(spec)
      /\ pc \notin NoSpec \/ known =>
            spec /= << >> /\ BootDisk \in Positions /\ 1 \in Positions
  BY <1>0, Here
<1>9. Attachment' /\ Contents'
  <2>1. CASE pc' = "undo"
    BY <1>1, <2>1, ProxmoxForm, SameRun DEF Attachment, Contents, Built
  <2>2. CASE pc' = "disk"
    <3>1. pc \in Making /\ UNCHANGED <<dest, slot, vol, rdm, native>> /\ (Good' => Good)
      BY <1>1, <2>2, ProxmoxForm, SameSpec DEF QmConfig, Good, Hear
    <3> QED
      BY <1>1, <2>2, <3>1, ShellMade, ProxmoxForm
  <2> QED
    BY <2>1, <2>2 DEF QmConfig
<1>11. TypedRun'
  BY <1>0, <1>1
     DEF QmConfig, TypedRun
<1>12. TypedCtl'
  BY <1>0, <1>1, PartsAssumption
     DEF QmConfig, TypedCtl
<1>13. TypedFaults'
  BY <1>0, <1>1, Heard
     DEF QmConfig, TypedFaults
<1>14. TypedVm'
  BY <1>0, <1>1
     DEF QmConfig, TypedVm, Hear, HearCleanup, Checked, Unchecked, Effect
<1>15. TypedMemory'
  BY <1>0, <1>1
     DEF QmConfig, TypedMemory, Hear, HearCleanup, Checked, Unchecked, Effect
<1>16. TypedVol'
  BY <1>0, <1>1
     DEF QmConfig, TypedVol, Hear, HearCleanup, Checked, Unchecked, Effect
<1>17. Frame'
  BY <1>0, <1>1, ProxmoxForm, SameRun
     DEF QmConfig, Frame, Staging, Built, Steps, Whole, Loops, Hear, HearCleanup,
        Checked, Unchecked, Effect
<1>18. Untouched'
  BY <1>0, <1>1, ProxmoxForm, SameRun
     DEF QmConfig, Untouched, Staging
<1>19. Bodies'
  BY <1>0, <1>1, ProxmoxForm, SameRun
     DEF QmConfig, Bodies, Staging, Frame, Built, Hear, HearCleanup, Checked,
        Unchecked, Effect, TypedVm
<1>20. Leftovers'
  BY <1>0, <1>1, ProxmoxForm, SameRun
     DEF QmConfig, Leftovers, Staging, Frame, Built, Hear, HearCleanup, Checked,
        Unchecked, Effect
<1>21. Rollback'
  BY <1>0, <1>1, ProxmoxForm, SameRun
     DEF QmConfig, Rollback, Staging, Frame, Standing, Over, Cleared, Disowned,
        Exists, Built, Hear, HearCleanup, Checked, Unchecked, Effect
<1>22. Provision'
  BY <1>0, <1>1, ProxmoxForm, SameRun
     DEF QmConfig, Provision, Good, Built, Hear, HearCleanup, Checked, Unchecked,
        Effect
<1>23. Attachment'
  BY <1>9
<1>24. Contents'
  BY <1>9
<1>25. Backed'
  BY <1>0, <1>1, ProxmoxForm, SameRun
     DEF QmConfig, Backed, Over, Exists, Built, Hear, HearCleanup, Checked,
        Unchecked, Effect
<1> QED
  BY <1>11, <1>12, <1>13, <1>14, <1>15, <1>16, <1>17, <1>18, <1>19, <1>20, <1>21,
     <1>22, <1>23, <1>24, <1>25 DEF IInv, Types

\* Proxmox: the slot is read back, so what is handed back is there even after an error.
LEMMA ProxmoxDiskStep ==
    ASSUME IInv, ProxmoxDisk
    PROVE  IInv'
<1> USE DEF At, Outside, Goto, Leave, srcVars, ctlVars, memVars, vmVars, faultVars,
   HandBack, MakesDisk, Attaches
<1>0. /\ TypedRun /\ TypedCtl /\ TypedFaults /\ TypedVm /\ TypedMemory /\ TypedVol
      /\ Frame /\ Untouched /\ Bodies /\ Leftovers /\ Rollback /\ Provision
      /\ Attachment /\ Contents /\ Backed
  BY DEF IInv, Types
<1>1. opt.dst = "proxmox" /\ opt' = opt /\ spec' = spec
  BY DEF ProxmoxDisk
<1>2. /\ Captures /\ Len(spec) \in Nat /\ Len(spec) <= NDisks /\ at \in Nat
      /\ Positions \subseteq Disks
      /\ \A i \in Positions : spec[i].order \in Addr /\ spec[i].disk \in Disks
      /\ pc \in Loops => at \in Positions /\ Order \in Addr /\ at <= Len(spec)
      /\ pc \notin NoSpec \/ known =>
            spec /= << >> /\ BootDisk \in Positions /\ 1 \in Positions
  BY <1>0, Here
<1>3. PICK a \in Unchecked :
         /\ Hear(a, Unchecked)
         /\ vol' = IF a = "ok" THEN [vol EXCEPT ![at] = Blank] ELSE vol
         /\ slot' = IF a = "ok" THEN [slot EXCEPT ![Order] = at] ELSE slot
         /\ IF slot'[Order] /= 0
            THEN /\ dest' = Append(dest, slot'[Order])
                 /\ pc' = "copy"
                 /\ UNCHANGED <<known, memory, noted>>
            ELSE UNCHANGED memVars /\ pc' = "undo"
  BY DEF ProxmoxDisk
<1>4. /\ UNCHANGED <<srcVars, shares, extra, others, at, tries, vm, boots, rdm, native, home>>
      /\ pc = "disk" /\ known /\ vm = vm /\ dest \in Seq(Vols) /\ Len(dest) = at - 1
      /\ at \in Positions /\ Order \in Addr /\ at <= Len(spec)
  BY <1>0, <1>1, <1>2, ProxmoxForm DEF ProxmoxDisk, Frame, TypedMemory, Loops, Built
<1>5. /\ slot' \in [Addr -> ({0} \union Vols) \ {Scratch}]
      /\ pc' = "copy" => dest' \in Seq(Vols) /\ Len(dest') = at
  <2>1. slot' \in [Addr -> ({0} \union Vols) \ {Scratch}]
    BY <1>0, <1>2, <1>3, <1>4, Numbers DEF TypedVm
  <2>2. slot'[Order] /= 0 => slot'[Order] \in Vols
    BY <1>4, <2>1
  <2>3. pc' = "copy" => dest' = Append(dest, slot'[Order]) /\ slot'[Order] \in Vols
    BY <1>3, <2>2
  <2>4. ASSUME pc' = "copy" PROVE dest' \in Seq(Vols) /\ Len(dest') = at
    <3> DEFINE v == slot'[Order]
    <3>1. dest' = Append(dest, v) /\ v \in Vols
      BY <2>3, <2>4
    <3> HIDE DEF v
    <3>2. dest' \in Seq(Vols) /\ Len(dest') = Len(dest) + 1
      BY <1>4, <3>1
    <3>3. at - 1 + 1 = at
      BY <1>2
    <3> QED
      BY <1>4, <3>2, <3>3
  <2> QED
    BY <2>1, <2>4
<1>9. Attachment' /\ Contents'
  <2>1. CASE ~Good' \/ pc' \notin Built'
    BY <2>1 DEF Attachment, Contents
  <2>2. CASE Good' /\ pc' \in Built'
    <3>1. Good /\ a = "ok" /\ pc' = "copy"
      BY <1>0, <1>1, <1>3, <2>2, Heard, SameSpec, SameRun, ProxmoxForm
         DEF Good, Built, Checked, Unchecked
    <3>2. /\ slot' = [slot EXCEPT ![Order] = at] /\ vol' = [vol EXCEPT ![at] = Blank]
          /\ slot'[Order] = at
      BY <1>0, <1>3, <1>4, <3>1 DEF TypedVm
    <3>3. dest' = Append(dest, at)
      BY <1>3, <3>1, <3>2
    <3> QED
      BY <1>1, <1>4, <3>1, <3>2, <3>3, NextOnDemand, ProxmoxForm
  <2> QED
    BY <2>1, <2>2
<1>11. TypedRun'
  BY <1>0, <1>1, <1>3, <1>4, <1>5
     DEF TypedRun
<1>12. TypedCtl'
  BY <1>0, <1>1, PartsAssumption, <1>3, <1>4, <1>5
     DEF TypedCtl
<1>13. TypedFaults'
  BY <1>0, <1>1, Heard
     DEF ProxmoxDisk, TypedFaults
<1>14. TypedVm'
  BY <1>0, <1>1, <1>3, <1>4, <1>5
     DEF TypedVm, Hear, HearCleanup, Checked, Unchecked, Effect
<1>15. TypedMemory'
  <2>1. CASE pc' = "copy"
    <3>1. UNCHANGED <<known, memory, noted>>
      BY <1>3, <2>1
    <3>2. dest' \in Seq(Vols) /\ Len(dest') <= NDisks
      BY <1>2, <1>4, <1>5, <2>1, PartsAssumption
    <3> QED
      BY <1>0, <3>1, <3>2 DEF TypedMemory
  <2>2. CASE UNCHANGED memVars
    BY <1>0, <2>2 DEF TypedMemory
  <2> QED
    BY <1>3, <2>1, <2>2
<1>16. TypedVol'
  BY <1>0, <1>1, <1>2, Numbers, <1>3, <1>4, <1>5
     DEF TypedVol, Hear, HearCleanup, Checked, Unchecked, Effect
<1>17. Frame'
  BY <1>0, <1>1, ProxmoxForm, SameRun, <1>2, Numbers, <1>3, <1>4, <1>5
     DEF Frame, Staging, Built, Steps, Whole, Loops, Hear, HearCleanup, Checked,
        Unchecked, Effect
<1>18. Untouched'
  BY <1>0, <1>1, ProxmoxForm, SameRun, <1>3, <1>4, <1>5
     DEF Untouched, Staging
<1>19. Bodies'
  BY <1>0, <1>1, ProxmoxForm, SameRun, <1>2, Numbers, <1>3, <1>4, <1>5
     DEF Bodies, Staging, Frame, Built, Hear, HearCleanup, Checked, Unchecked,
        Effect
<1>20. Leftovers'
  BY <1>0, <1>1, ProxmoxForm, SameRun, <1>3, <1>4, <1>5
     DEF Leftovers, Staging, Frame, Built, Hear, HearCleanup, Checked, Unchecked,
        Effect
<1>21. Rollback'
  BY <1>0, <1>1, ProxmoxForm, SameRun, <1>3, <1>4, <1>5
     DEF Rollback, Staging, Frame, Standing, Over, Cleared, Disowned, Exists,
        Built, Hear, HearCleanup, Checked, Unchecked, Effect
<1>22. Provision'
  BY <1>0, <1>1, ProxmoxForm, SameRun, <1>3, <1>4, <1>5
     DEF Provision, Good, Built, Hear, HearCleanup, Checked, Unchecked, Effect
<1>23. Attachment'
  BY <1>9
<1>24. Contents'
  BY <1>9
<1>25. Backed'
  <2>1. ASSUME ~missed', pc' = "copy"
        PROVE  Exists(dest[at])'
    <3>1. vol' = [vol EXCEPT ![at] = Blank] /\ dest' = Append(dest, at)
      BY <1>0, <1>3, <1>4, <2>1, Heard DEF TypedVm, Effect, Checked, Unchecked
    <3>2. dest'[at] = at /\ at' = at
      BY <1>2, <1>4, <3>1
    <3>3. vol'[at] = Blank
      BY <1>0, <1>2, <1>4, <3>1, Numbers DEF TypedVol
    <3> QED
      BY <3>2, <3>3, Numbers DEF Exists
  <2>2. pc' \in {"copy", "undo"}
    BY <1>3
  <2> QED
    BY <1>1, <2>1, <2>2, SameRun, ProxmoxForm DEF Backed
<1> QED
  BY <1>11, <1>12, <1>13, <1>14, <1>15, <1>16, <1>17, <1>18, <1>19, <1>20, <1>21,
     <1>22, <1>23, <1>24, <1>25 DEF IInv, Types

\* Proxmox: the boot disk is the one of the spec unless the error is missed.
LEMMA ProxmoxBootStep ==
    ASSUME IInv, ProxmoxBoot
    PROVE  IInv'
<1> USE DEF At, Outside, Goto, Leave, srcVars, ctlVars, memVars, vmVars, faultVars
<1>0. /\ TypedRun /\ TypedCtl /\ TypedFaults /\ TypedVm /\ TypedMemory /\ TypedVol
      /\ Frame /\ Untouched /\ Bodies /\ Leftovers /\ Rollback /\ Provision
      /\ Attachment /\ Contents /\ Backed
  BY DEF IInv, Types
<1>1. opt.dst = "proxmox" /\ opt' = opt /\ spec' = spec
  BY DEF ProxmoxBoot
<1>2. /\ Captures /\ Len(spec) \in Nat /\ Len(spec) <= NDisks /\ at \in Nat
      /\ Positions \subseteq Disks
      /\ \A i \in Positions : spec[i].order \in Addr /\ spec[i].disk \in Disks
      /\ pc \in Loops => at \in Positions /\ Order \in Addr /\ at <= Len(spec)
      /\ pc \notin NoSpec \/ known =>
            spec /= << >> /\ BootDisk \in Positions /\ 1 \in Positions
  BY <1>0, Here
<1>9. Attachment' /\ Contents'
  <2>1. CASE ~Good' \/ pc' = "undo"
    BY <1>1, <2>1, ProxmoxForm, SameRun DEF Attachment, Contents, Built
  <2>2. CASE Good' /\ pc' /= "undo"
    <3>1. Good /\ rdm = {} /\ native \subseteq rdm
      BY <1>0, <1>1, <2>2, SameSpec DEF ProxmoxBoot, Good, Bodies, TypedVm, Hear
    <3>2. pc \in Finishing /\ pc' \in Finishing /\ UNCHANGED <<slot, vol, dest, native, rdm>>
      BY <1>1, <2>2, ProxmoxForm DEF ProxmoxBoot
    <3>3. boots' = spec[BootDisk].order
      BY <1>0, <2>2 DEF ProxmoxBoot, Good, Hear, Unchecked
    <3> QED
      BY <1>0, <1>1, <3>1, <3>2, <3>3, StaysBuilt
  <2> QED
    BY <2>1, <2>2
<1>11. TypedRun'
  BY <1>0, <1>1
     DEF ProxmoxBoot, TypedRun
<1>12. TypedCtl'
  BY <1>0, <1>1, PartsAssumption
     DEF ProxmoxBoot, TypedCtl
<1>13. TypedFaults'
  BY <1>0, <1>1, Heard
     DEF ProxmoxBoot, TypedFaults
<1>14. TypedVm'
  BY <1>0, <1>1, <1>2, Numbers
     DEF ProxmoxBoot, TypedVm, Hear, HearCleanup, Checked, Unchecked, Effect,
        NoSpec
<1>15. TypedMemory'
  BY <1>0, <1>1
     DEF ProxmoxBoot, TypedMemory, Hear, HearCleanup, Checked, Unchecked, Effect
<1>16. TypedVol'
  BY <1>0, <1>1
     DEF ProxmoxBoot, TypedVol, Hear, HearCleanup, Checked, Unchecked, Effect
<1>17. Frame'
  BY <1>0, <1>1, ProxmoxForm, SameRun
     DEF ProxmoxBoot, Frame, Staging, Built, Steps, Whole, Loops, Hear,
        HearCleanup, Checked, Unchecked, Effect
<1>18. Untouched'
  BY <1>0, <1>1, ProxmoxForm, SameRun
     DEF ProxmoxBoot, Untouched, Staging
<1>19. Bodies'
  BY <1>0, <1>1, ProxmoxForm, SameRun
     DEF ProxmoxBoot, Bodies, Staging, Frame, Built, Hear, HearCleanup, Checked,
        Unchecked, Effect
<1>20. Leftovers'
  BY <1>0, <1>1, ProxmoxForm, SameRun
     DEF ProxmoxBoot, Leftovers, Staging, Frame, Built, Hear, HearCleanup, Checked,
        Unchecked, Effect
<1>21. Rollback'
  BY <1>0, <1>1, ProxmoxForm, SameRun
     DEF ProxmoxBoot, Rollback, Staging, Frame, Standing, Over, Cleared, Disowned,
        Exists, Built, Hear, HearCleanup, Checked, Unchecked, Effect
<1>22. Provision'
  BY <1>0, <1>1, ProxmoxForm, SameRun
     DEF ProxmoxBoot, Provision, Good, Built, Hear, HearCleanup, Checked,
        Unchecked, Effect
<1>23. Attachment'
  BY <1>9
<1>24. Contents'
  BY <1>9
<1>25. Backed'
  BY <1>0, <1>1, ProxmoxForm, SameRun
     DEF ProxmoxBoot, Backed, Over, Exists, Built, Hear, HearCleanup, Checked,
        Unchecked, Effect
<1> QED
  BY <1>11, <1>12, <1>13, <1>14, <1>15, <1>16, <1>17, <1>18, <1>19, <1>20, <1>21,
     <1>22, <1>23, <1>24, <1>25 DEF IInv, Types

\* Proxmox: the VM takes all its disks along.
LEMMA ProxmoxDeleteStep ==
    ASSUME IInv, ProxmoxDelete
    PROVE  IInv'
<1> USE DEF At, Outside, Goto, Leave, srcVars, ctlVars, memVars, vmVars, faultVars,
   VmGone, Without, NoDevices
<1>0. /\ TypedRun /\ TypedCtl /\ TypedFaults /\ TypedVm /\ TypedMemory /\ TypedVol
      /\ Frame /\ Untouched /\ Bodies /\ Leftovers /\ Rollback /\ Provision
      /\ Attachment /\ Contents /\ Backed
  BY DEF IInv, Types
<1>1. opt.dst = "proxmox" /\ opt' = opt /\ spec' = spec
  BY DEF ProxmoxDelete
<1>2. /\ Captures /\ Len(spec) \in Nat /\ Len(spec) <= NDisks /\ at \in Nat
      /\ Positions \subseteq Disks
      /\ \A i \in Positions : spec[i].order \in Addr /\ spec[i].disk \in Disks
      /\ pc \in Loops => at \in Positions /\ Order \in Addr /\ at <= Len(spec)
      /\ pc \notin NoSpec \/ known =>
            spec /= << >> /\ BootDisk \in Positions /\ 1 \in Positions
  BY <1>0, Here
<1>11. TypedRun'
  BY <1>0, <1>1
     DEF ProxmoxDelete, TypedRun
<1>12. TypedCtl'
  BY <1>0, <1>1, PartsAssumption
     DEF ProxmoxDelete, TypedCtl
<1>13. TypedFaults'
  BY <1>0, <1>1, Heard
     DEF ProxmoxDelete, TypedFaults
<1>14. TypedVm'
  BY <1>0, <1>1, <1>2, Numbers
     DEF ProxmoxDelete, TypedVm, Hear, HearCleanup, Checked, Unchecked, Effect
<1>15. TypedMemory'
  BY <1>0, <1>1
     DEF ProxmoxDelete, TypedMemory, Hear, HearCleanup, Checked, Unchecked, Effect
<1>16. TypedVol'
  BY <1>0, <1>1, <1>2, Numbers
     DEF ProxmoxDelete, TypedVol, Hear, HearCleanup, Checked, Unchecked, Effect
<1>17. Frame'
  BY <1>0, <1>1, ProxmoxForm, SameRun
     DEF ProxmoxDelete, Frame, Staging, Built, Steps, Whole, Loops, Hear,
        HearCleanup, Checked, Unchecked, Effect
<1>18. Untouched'
  BY <1>0, <1>1, ProxmoxForm, SameRun
     DEF ProxmoxDelete, Untouched, Staging
<1>19. Bodies'
  BY <1>0, <1>1, ProxmoxForm, SameRun
     DEF ProxmoxDelete, Bodies, Staging, Frame, Built, Hear, HearCleanup, Checked,
        Unchecked, Effect
<1>20. Leftovers'
  BY <1>0, <1>1, ProxmoxForm, SameRun
     DEF ProxmoxDelete, Leftovers, Staging, Frame, Built, Hear, HearCleanup,
        Checked, Unchecked, Effect
<1>21. Rollback'
  <2>1. missed' \/ (~vm' /\ \A v \in Vols : Exists(v)' => KnownLeak(v)')
    BY DEF ProxmoxDelete, HearCleanup, Unchecked, Exists
  <2>2. pc' = "unstage"
    BY DEF ProxmoxDelete
  <2> QED
    BY <2>1, <2>2 DEF Rollback, Over, Cleared
<1>22. Provision'
  BY <1>0, <1>1, ProxmoxForm, SameRun
     DEF ProxmoxDelete, Provision, Good, Built, Hear, HearCleanup, Checked,
        Unchecked, Effect
<1>23. Attachment'
  BY <1>0, <1>1, ProxmoxForm, SameRun
     DEF ProxmoxDelete, Attachment, Good, Built, Hear, HearCleanup, Checked,
        Unchecked, Effect
<1>24. Contents'
  BY <1>0, <1>1, ProxmoxForm, SameRun
     DEF ProxmoxDelete, Contents, Good, Built, Hear, HearCleanup, Checked,
        Unchecked, Effect
<1>25. Backed'
  BY <1>0, <1>1, ProxmoxForm, SameRun
     DEF ProxmoxDelete, Backed, Over, Exists, Built, Hear, HearCleanup, Checked,
        Unchecked, Effect
<1> QED
  BY <1>11, <1>12, <1>13, <1>14, <1>15, <1>16, <1>17, <1>18, <1>19, <1>20, <1>21,
     <1>22, <1>23, <1>24, <1>25 DEF IInv, Types

\* XCP-ng: the VM is known, or there is none unless its creation was missed.
LEMMA XcpngCreateStep ==
    ASSUME IInv, XcpngCreate
    PROVE  IInv'
<1> USE DEF At, Outside, Goto, Leave, srcVars, ctlVars, memVars, vmVars, faultVars,
   NewVm
<1>0. /\ TypedRun /\ TypedCtl /\ TypedFaults /\ TypedVm /\ TypedMemory /\ TypedVol
      /\ Frame /\ Untouched /\ Bodies /\ Leftovers /\ Rollback /\ Provision
      /\ Attachment /\ Contents /\ Backed
  BY DEF IInv, Types
<1>1. opt.dst = "xcpng" /\ opt' = opt /\ spec' = spec
  BY DEF XcpngCreate
<1>2. /\ Captures /\ Len(spec) \in Nat /\ Len(spec) <= NDisks /\ at \in Nat
      /\ Positions \subseteq Disks
      /\ \A i \in Positions : spec[i].order \in Addr /\ spec[i].disk \in Disks
      /\ pc \in Loops => at \in Positions /\ Order \in Addr /\ at <= Len(spec)
      /\ pc \notin NoSpec \/ known =>
            spec /= << >> /\ BootDisk \in Positions /\ 1 \in Positions
  BY <1>0, Here
<1>9. Attachment' /\ Contents'
  <2>1. CASE pc' = "undo"
    BY <1>1, <2>1, XcpngForm, SameRun DEF Attachment, Contents, Built
  <2>2. CASE pc' = "disk"
    <3>1. pc \in Making /\ UNCHANGED <<dest, slot, vol, rdm, native>> /\ (Good' => Good)
      BY <1>1, <2>2, XcpngForm, SameSpec DEF XcpngCreate, Good, Hear
    <3> QED
      BY <1>1, <2>2, <3>1, ShellMade, XcpngForm
  <2> QED
    BY <2>1, <2>2 DEF XcpngCreate
<1>11. TypedRun'
  BY <1>0, <1>1
     DEF XcpngCreate, TypedRun
<1>12. TypedCtl'
  BY <1>0, <1>1, PartsAssumption
     DEF XcpngCreate, TypedCtl
<1>13. TypedFaults'
  BY <1>0, <1>1, Heard
     DEF XcpngCreate, TypedFaults
<1>14. TypedVm'
  BY <1>0, <1>1
     DEF XcpngCreate, TypedVm, Hear, HearCleanup, Checked, Unchecked, Effect
<1>15. TypedMemory'
  BY <1>0, <1>1
     DEF XcpngCreate, TypedMemory, Hear, HearCleanup, Checked, Unchecked, Effect
<1>16. TypedVol'
  BY <1>0, <1>1
     DEF XcpngCreate, TypedVol, Hear, HearCleanup, Checked, Unchecked, Effect
<1>17. Frame'
  BY <1>0, <1>1, XcpngForm, SameRun
     DEF XcpngCreate, Frame, Staging, Built, Steps, Whole, Loops, Hear,
        HearCleanup, Checked, Unchecked, Effect
<1>18. Untouched'
  BY <1>0, <1>1, XcpngForm, SameRun
     DEF XcpngCreate, Untouched, Staging
<1>19. Bodies'
  BY <1>0, <1>1, XcpngForm, SameRun
     DEF XcpngCreate, Bodies, Staging, Frame, Built, Hear, HearCleanup, Checked,
        Unchecked, Effect, TypedVm
<1>20. Leftovers'
  BY <1>0, <1>1, XcpngForm, SameRun
     DEF XcpngCreate, Leftovers, Staging, Frame, Built, Hear, HearCleanup, Checked,
        Unchecked, Effect
<1>21. Rollback'
  BY <1>0, <1>1, XcpngForm, SameRun
     DEF XcpngCreate, Rollback, Staging, Frame, Standing, Over, Cleared, Disowned,
        Exists, Built, Hear, HearCleanup, Checked, Unchecked, Effect
<1>22. Provision'
  BY <1>0, <1>1, XcpngForm, SameRun
     DEF XcpngCreate, Provision, Good, Built, Hear, HearCleanup, Checked,
        Unchecked, Effect
<1>23. Attachment'
  BY <1>9
<1>24. Contents'
  BY <1>9
<1>25. Backed'
  BY <1>0, <1>1, XcpngForm, SameRun
     DEF XcpngCreate, Backed, Over, Exists, Built, Hear, HearCleanup, Checked,
        Unchecked, Effect
<1> QED
  BY <1>11, <1>12, <1>13, <1>14, <1>15, <1>16, <1>17, <1>18, <1>19, <1>20, <1>21,
     <1>22, <1>23, <1>24, <1>25 DEF IInv, Types

\* XCP-ng: the volume handed back is there, its device only if the VBD was made.
LEMMA XcpngDiskStep ==
    ASSUME IInv, XcpngDisk
    PROVE  IInv'
<1> USE DEF At, Outside, Goto, Leave, srcVars, ctlVars, memVars, vmVars, faultVars,
   HandBack, MakesDisk, Attaches
<1>0. /\ TypedRun /\ TypedCtl /\ TypedFaults /\ TypedVm /\ TypedMemory /\ TypedVol
      /\ Frame /\ Untouched /\ Bodies /\ Leftovers /\ Rollback /\ Provision
      /\ Attachment /\ Contents /\ Backed
  BY DEF IInv, Types
<1>1. opt.dst = "xcpng" /\ opt' = opt /\ spec' = spec
  BY DEF XcpngDisk
<1>2. /\ Captures /\ Len(spec) \in Nat /\ Len(spec) <= NDisks /\ at \in Nat
      /\ Positions \subseteq Disks
      /\ \A i \in Positions : spec[i].order \in Addr /\ spec[i].disk \in Disks
      /\ pc \in Loops => at \in Positions /\ Order \in Addr /\ at <= Len(spec)
      /\ pc \notin NoSpec \/ known =>
            spec /= << >> /\ BootDisk \in Positions /\ 1 \in Positions
  BY <1>0, Here
<1>3. PICK a \in {"ok", "fails", "silent"} :
         /\ Hear(a, {"ok", "fails", "silent"})
         /\ vol' = IF a /= "fails" THEN [vol EXCEPT ![at] = Blank] ELSE vol
         /\ slot' = IF a = "ok" /\ slot[Order] = 0 THEN [slot EXCEPT ![Order] = at] ELSE slot
         /\ boots' = boots \/ boots' = Order
         /\ IF a /= "fails"
            THEN dest' = Append(dest, at) /\ pc' = "copy" /\ UNCHANGED <<known, memory, noted>>
            ELSE UNCHANGED memVars /\ pc' = "undo"
  BY DEF XcpngDisk
<1>4. /\ UNCHANGED <<srcVars, shares, extra, others, at, tries, vm, rdm, native, home>>
      /\ pc = "disk" /\ known /\ dest \in Seq(Vols) /\ Len(dest) = at - 1
      /\ at \in Positions /\ Order \in Addr /\ at <= Len(spec)
  BY <1>0, <1>1, <1>2, XcpngForm DEF XcpngDisk, Frame, TypedMemory, Loops, Built
<1>5. pc' = "copy" => dest' \in Seq(Vols) /\ Len(dest') = at
  <2>1. at \in Vols /\ at \in Nat
    BY <1>2, <1>4, Numbers
  <2>2. pc' = "copy" => dest' = Append(dest, at)
    BY <1>3
  <2> QED
    BY <1>4, <2>1, <2>2
<1>6. Good => slot[Order] = 0
  <2>1. Good => ByOrder(slot, spec, at - 1)
    BY <1>0, <1>1, <1>4, XcpngForm DEF Attachment, Built
  <2>2. slot \in [Addr -> Nat]
    BY <1>0, Numbers DEF TypedVm
  <2> QED
    BY <1>2, <1>4, <2>1, <2>2, NextByOrder DEF Good, Order
<1>9. Attachment' /\ Contents'
  <2>1. CASE ~Good' \/ pc' \notin Built'
    BY <2>1 DEF Attachment, Contents
  <2>2. CASE Good' /\ pc' \in Built'
    <3>1. Good /\ a = "ok" /\ pc' = "copy"
      BY <1>0, <1>1, <1>3, <2>2, Heard, SameSpec, SameRun, XcpngForm
         DEF Good, Built, Checked, Unchecked
    <3>2. /\ slot' = [slot EXCEPT ![Order] = at] /\ vol' = [vol EXCEPT ![at] = Blank]
          /\ slot'[Order] = at
      BY <1>0, <1>3, <1>4, <1>6, <3>1 DEF TypedVm, Effect
    <3>3. dest' = Append(dest, at)
      BY <1>3, <3>1, <3>2
    <3> QED
      BY <1>1, <1>4, <3>1, <3>2, <3>3, NextOnDemand, XcpngForm
  <2> QED
    BY <2>1, <2>2
<1>11. TypedRun'
  BY <1>0, <1>1, <1>3, <1>4, <1>5
     DEF TypedRun
<1>12. TypedCtl'
  BY <1>0, <1>1, PartsAssumption, <1>3, <1>4, <1>5
     DEF TypedCtl
<1>13. TypedFaults'
  BY <1>0, <1>1, Heard
     DEF XcpngDisk, TypedFaults
<1>14. TypedVm'
  BY <1>0, <1>1, <1>2, Numbers, <1>3, <1>4, <1>5
     DEF TypedVm, Hear, HearCleanup, Checked, Unchecked, Effect
<1>15. TypedMemory'
  <2>1. CASE pc' = "copy"
    <3>1. UNCHANGED <<known, memory, noted>>
      BY <1>3, <2>1
    <3>2. dest' \in Seq(Vols) /\ Len(dest') <= NDisks
      BY <1>2, <1>4, <1>5, <2>1, PartsAssumption
    <3> QED
      BY <1>0, <3>1, <3>2 DEF TypedMemory
  <2>2. CASE UNCHANGED memVars
    BY <1>0, <2>2 DEF TypedMemory
  <2> QED
    BY <1>3, <2>1, <2>2
<1>16. TypedVol'
  BY <1>0, <1>1, <1>2, Numbers, <1>3, <1>4, <1>5
     DEF TypedVol, Hear, HearCleanup, Checked, Unchecked, Effect
<1>17. Frame'
  BY <1>0, <1>1, XcpngForm, SameRun, <1>2, Numbers, <1>3, <1>4, <1>5
     DEF Frame, Staging, Built, Steps, Whole, Loops, Hear, HearCleanup, Checked,
        Unchecked, Effect
<1>18. Untouched'
  BY <1>0, <1>1, XcpngForm, SameRun, <1>3, <1>4, <1>5
     DEF Untouched, Staging
<1>19. Bodies'
  BY <1>0, <1>1, XcpngForm, SameRun, <1>2, Numbers, <1>3, <1>4, <1>5
     DEF Bodies, Staging, Frame, Built, Hear, HearCleanup, Checked, Unchecked,
        Effect
<1>20. Leftovers'
  BY <1>0, <1>1, XcpngForm, SameRun, <1>3, <1>4, <1>5
     DEF Leftovers, Staging, Frame, Built, Hear, HearCleanup, Checked, Unchecked,
        Effect
<1>21. Rollback'
  BY <1>0, <1>1, XcpngForm, SameRun, <1>3, <1>4, <1>5
     DEF Rollback, Staging, Frame, Standing, Over, Cleared, Disowned, Exists,
        Built, Hear, HearCleanup, Checked, Unchecked, Effect
<1>22. Provision'
  BY <1>0, <1>1, XcpngForm, SameRun, <1>3, <1>4, <1>5
     DEF Provision, Good, Built, Hear, HearCleanup, Checked, Unchecked, Effect
<1>23. Attachment'
  BY <1>9
<1>24. Contents'
  BY <1>9
<1>25. Backed'
  <2>1. ASSUME ~missed', pc' = "copy"
        PROVE  Exists(dest[at])'
    <3>1. vol' = [vol EXCEPT ![at] = Blank] /\ dest' = Append(dest, at)
      BY <1>0, <1>3, <1>4, <2>1, Heard DEF TypedVm, Effect, Checked, Unchecked
    <3>2. dest'[at] = at /\ at' = at
      BY <1>2, <1>4, <3>1
    <3>3. vol'[at] = Blank
      BY <1>0, <1>2, <1>4, <3>1, Numbers DEF TypedVol
    <3> QED
      BY <3>2, <3>3, Numbers DEF Exists
  <2>2. pc' \in {"copy", "undo"}
    BY <1>3
  <2> QED
    BY <1>1, <2>1, <2>2, SameRun, XcpngForm DEF Backed
<1> QED
  BY <1>11, <1>12, <1>13, <1>14, <1>15, <1>16, <1>17, <1>18, <1>19, <1>20, <1>21,
     <1>22, <1>23, <1>24, <1>25 DEF IInv, Types

\* XCP-ng: the boot mark is on the disk of the spec unless the error is missed.
LEMMA XcpngBootStep ==
    ASSUME IInv, XcpngBoot
    PROVE  IInv'
<1> USE DEF At, Outside, Goto, Leave, srcVars, ctlVars, memVars, vmVars, faultVars
<1>0. /\ TypedRun /\ TypedCtl /\ TypedFaults /\ TypedVm /\ TypedMemory /\ TypedVol
      /\ Frame /\ Untouched /\ Bodies /\ Leftovers /\ Rollback /\ Provision
      /\ Attachment /\ Contents /\ Backed
  BY DEF IInv, Types
<1>1. opt.dst = "xcpng" /\ opt' = opt /\ spec' = spec
  BY DEF XcpngBoot
<1>2. /\ Captures /\ Len(spec) \in Nat /\ Len(spec) <= NDisks /\ at \in Nat
      /\ Positions \subseteq Disks
      /\ \A i \in Positions : spec[i].order \in Addr /\ spec[i].disk \in Disks
      /\ pc \in Loops => at \in Positions /\ Order \in Addr /\ at <= Len(spec)
      /\ pc \notin NoSpec \/ known =>
            spec /= << >> /\ BootDisk \in Positions /\ 1 \in Positions
  BY <1>0, Here
<1>9. Attachment' /\ Contents'
  <2>1. CASE ~Good'
    BY <2>1 DEF Attachment, Contents
  <2>2. CASE Good'
    <3>1. Good /\ rdm = {} /\ native \subseteq rdm
      BY <1>0, <1>1, <2>2, SameSpec DEF XcpngBoot, Good, Bodies, TypedVm, Hear
    <3>2. pc \in Finishing /\ pc' \in Finishing /\ UNCHANGED <<slot, vol, dest, native, rdm>>
      BY <1>1, XcpngForm DEF XcpngBoot
    <3>3. boots' = spec[BootDisk].order
      <4>1. ByOrder(slot, spec, Len(spec)) /\ BootDisk \in 1..Len(spec)
        BY <1>0, <1>1, <1>2, <3>1, <3>2, XcpngForm
           DEF Attachment, Frame, Built, NoSpec, XcpngBoot, Positions
      <4>2. slot[spec[BootDisk].order] /= 0
        BY <4>1 DEF ByOrder
      <4> QED
        BY <2>2, <4>2 DEF XcpngBoot, Good, Hear, Unchecked
    <3> QED
      BY <1>0, <1>1, <3>1, <3>2, <3>3, StaysBuilt
  <2> QED
    BY <2>1, <2>2
<1>11. TypedRun'
  BY <1>0, <1>1
     DEF XcpngBoot, TypedRun
<1>12. TypedCtl'
  BY <1>0, <1>1, PartsAssumption
     DEF XcpngBoot, TypedCtl
<1>13. TypedFaults'
  BY <1>0, <1>1, Heard
     DEF XcpngBoot, TypedFaults
<1>14. TypedVm'
  BY <1>0, <1>1, <1>2, Numbers
     DEF XcpngBoot, TypedVm, Hear, HearCleanup, Checked, Unchecked, Effect, NoSpec
<1>15. TypedMemory'
  BY <1>0, <1>1
     DEF XcpngBoot, TypedMemory, Hear, HearCleanup, Checked, Unchecked, Effect
<1>16. TypedVol'
  BY <1>0, <1>1
     DEF XcpngBoot, TypedVol, Hear, HearCleanup, Checked, Unchecked, Effect
<1>17. Frame'
  BY <1>0, <1>1, XcpngForm, SameRun
     DEF XcpngBoot, Frame, Staging, Built, Steps, Whole, Loops, Hear, HearCleanup,
        Checked, Unchecked, Effect
<1>18. Untouched'
  BY <1>0, <1>1, XcpngForm, SameRun
     DEF XcpngBoot, Untouched, Staging
<1>19. Bodies'
  BY <1>0, <1>1, XcpngForm, SameRun
     DEF XcpngBoot, Bodies, Staging, Frame, Built, Hear, HearCleanup, Checked,
        Unchecked, Effect
<1>20. Leftovers'
  BY <1>0, <1>1, XcpngForm, SameRun
     DEF XcpngBoot, Leftovers, Staging, Frame, Built, Hear, HearCleanup, Checked,
        Unchecked, Effect
<1>21. Rollback'
  BY <1>0, <1>1, XcpngForm, SameRun
     DEF XcpngBoot, Rollback, Staging, Frame, Standing, Over, Cleared, Disowned,
        Exists, Built, Hear, HearCleanup, Checked, Unchecked, Effect
<1>22. Provision'
  BY <1>0, <1>1, XcpngForm, SameRun
     DEF XcpngBoot, Provision, Good, Built, Hear, HearCleanup, Checked, Unchecked,
        Effect
<1>23. Attachment'
  BY <1>9
<1>24. Contents'
  BY <1>9
<1>25. Backed'
  BY <1>0, <1>1, XcpngForm, SameRun
     DEF XcpngBoot, Backed, Over, Exists, Built, Hear, HearCleanup, Checked,
        Unchecked, Effect
<1> QED
  BY <1>11, <1>12, <1>13, <1>14, <1>15, <1>16, <1>17, <1>18, <1>19, <1>20, <1>21,
     <1>22, <1>23, <1>24, <1>25 DEF IInv, Types

\* XCP-ng: the volumes stay, which is this destination's known leak.
LEMMA XcpngDeleteStep ==
    ASSUME IInv, XcpngDelete
    PROVE  IInv'
<1> USE DEF At, Outside, Goto, Leave, srcVars, ctlVars, memVars, vmVars, faultVars,
   VmGone, Without, NoDevices
<1>0. /\ TypedRun /\ TypedCtl /\ TypedFaults /\ TypedVm /\ TypedMemory /\ TypedVol
      /\ Frame /\ Untouched /\ Bodies /\ Leftovers /\ Rollback /\ Provision
      /\ Attachment /\ Contents /\ Backed
  BY DEF IInv, Types
<1>1. opt.dst = "xcpng" /\ opt' = opt /\ spec' = spec
  BY DEF XcpngDelete
<1>2. /\ Captures /\ Len(spec) \in Nat /\ Len(spec) <= NDisks /\ at \in Nat
      /\ Positions \subseteq Disks
      /\ \A i \in Positions : spec[i].order \in Addr /\ spec[i].disk \in Disks
      /\ pc \in Loops => at \in Positions /\ Order \in Addr /\ at <= Len(spec)
      /\ pc \notin NoSpec \/ known =>
            spec /= << >> /\ BootDisk \in Positions /\ 1 \in Positions
  BY <1>0, Here
<1>11. TypedRun'
  BY <1>0, <1>1
     DEF XcpngDelete, TypedRun
<1>12. TypedCtl'
  BY <1>0, <1>1, PartsAssumption
     DEF XcpngDelete, TypedCtl
<1>13. TypedFaults'
  BY <1>0, <1>1, Heard
     DEF XcpngDelete, TypedFaults
<1>14. TypedVm'
  BY <1>0, <1>1, <1>2, Numbers
     DEF XcpngDelete, TypedVm, Hear, HearCleanup, Checked, Unchecked, Effect
<1>15. TypedMemory'
  BY <1>0, <1>1
     DEF XcpngDelete, TypedMemory, Hear, HearCleanup, Checked, Unchecked, Effect
<1>16. TypedVol'
  BY <1>0, <1>1, <1>2, Numbers
     DEF XcpngDelete, TypedVol, Hear, HearCleanup, Checked, Unchecked, Effect
<1>17. Frame'
  BY <1>0, <1>1, XcpngForm, SameRun
     DEF XcpngDelete, Frame, Staging, Built, Steps, Whole, Loops, Hear,
        HearCleanup, Checked, Unchecked, Effect
<1>18. Untouched'
  BY <1>0, <1>1, XcpngForm, SameRun
     DEF XcpngDelete, Untouched, Staging
<1>19. Bodies'
  BY <1>0, <1>1, XcpngForm, SameRun
     DEF XcpngDelete, Bodies, Staging, Frame, Built, Hear, HearCleanup, Checked,
        Unchecked, Effect
<1>20. Leftovers'
  BY <1>0, <1>1, XcpngForm, SameRun
     DEF XcpngDelete, Leftovers, Staging, Frame, Built, Hear, HearCleanup, Checked,
        Unchecked, Effect
<1>21. Rollback'
  <2>1. missed' \/ (~vm' /\ \A v \in Vols : Exists(v)' => KnownLeak(v)')
    BY <1>1 DEF XcpngDelete, HearCleanup, Unchecked, KnownLeak
  <2>2. pc' = "unstage"
    BY DEF XcpngDelete
  <2> QED
    BY <2>1, <2>2 DEF Rollback, Over, Cleared
<1>22. Provision'
  BY <1>0, <1>1, XcpngForm, SameRun
     DEF XcpngDelete, Provision, Good, Built, Hear, HearCleanup, Checked,
        Unchecked, Effect
<1>23. Attachment'
  BY <1>0, <1>1, XcpngForm, SameRun
     DEF XcpngDelete, Attachment, Good, Built, Hear, HearCleanup, Checked,
        Unchecked, Effect
<1>24. Contents'
  BY <1>0, <1>1, XcpngForm, SameRun
     DEF XcpngDelete, Contents, Good, Built, Hear, HearCleanup, Checked, Unchecked,
        Effect
<1>25. Backed'
  BY <1>0, <1>1, XcpngForm, SameRun
     DEF XcpngDelete, Backed, Over, Exists, Built, Hear, HearCleanup, Checked,
        Unchecked, Effect
<1> QED
  BY <1>11, <1>12, <1>13, <1>14, <1>15, <1>16, <1>17, <1>18, <1>19, <1>20, <1>21,
     <1>22, <1>23, <1>24, <1>25 DEF IInv, Types

\* Nutanix: the VM is known, or its task was given up and missed.
LEMMA NutanixCreateStep ==
    ASSUME IInv, NutanixCreate
    PROVE  IInv'
<1> USE DEF At, Outside, Goto, Leave, srcVars, ctlVars, memVars, vmVars, faultVars,
   NewVm
<1>0. /\ TypedRun /\ TypedCtl /\ TypedFaults /\ TypedVm /\ TypedMemory /\ TypedVol
      /\ Frame /\ Untouched /\ Bodies /\ Leftovers /\ Rollback /\ Provision
      /\ Attachment /\ Contents /\ Backed
  BY DEF IInv, Types
<1>1. opt.dst = "nutanix" /\ opt' = opt /\ spec' = spec
  BY DEF NutanixCreate
<1>2. /\ Captures /\ Len(spec) \in Nat /\ Len(spec) <= NDisks /\ at \in Nat
      /\ Positions \subseteq Disks
      /\ \A i \in Positions : spec[i].order \in Addr /\ spec[i].disk \in Disks
      /\ pc \in Loops => at \in Positions /\ Order \in Addr /\ at <= Len(spec)
      /\ pc \notin NoSpec \/ known =>
            spec /= << >> /\ BootDisk \in Positions /\ 1 \in Positions
  BY <1>0, Here
<1>9. Attachment' /\ Contents'
  <2>1. CASE pc' = "undo"
    BY <1>1, <2>1, NutanixForm, SameRun DEF Attachment, Contents, Built
  <2>2. CASE pc' = "disk"
    <3>1. pc \in Making /\ UNCHANGED <<dest, slot, vol, rdm, native>> /\ (Good' => Good)
      BY <1>1, <2>2, NutanixForm, SameSpec DEF NutanixCreate, Good, Hear
    <3> QED
      BY <1>1, <2>2, <3>1, ShellMade, NutanixForm
  <2> QED
    BY <2>1, <2>2 DEF NutanixCreate
<1>11. TypedRun'
  BY <1>0, <1>1
     DEF NutanixCreate, TypedRun
<1>12. TypedCtl'
  BY <1>0, <1>1, PartsAssumption
     DEF NutanixCreate, TypedCtl
<1>13. TypedFaults'
  BY <1>0, <1>1, Heard
     DEF NutanixCreate, TypedFaults
<1>14. TypedVm'
  BY <1>0, <1>1
     DEF NutanixCreate, TypedVm, Hear, HearCleanup, Checked, Unchecked, Effect
<1>15. TypedMemory'
  BY <1>0, <1>1
     DEF NutanixCreate, TypedMemory, Hear, HearCleanup, Checked, Unchecked, Effect
<1>16. TypedVol'
  BY <1>0, <1>1
     DEF NutanixCreate, TypedVol, Hear, HearCleanup, Checked, Unchecked, Effect
<1>17. Frame'
  BY <1>0, <1>1, NutanixForm, SameRun
     DEF NutanixCreate, Frame, Staging, Built, Steps, Whole, Loops, Hear,
        HearCleanup, Checked, Unchecked, Effect
<1>18. Untouched'
  BY <1>0, <1>1, NutanixForm, SameRun
     DEF NutanixCreate, Untouched, Staging
<1>19. Bodies'
  BY <1>0, <1>1, NutanixForm, SameRun
     DEF NutanixCreate, Bodies, Staging, Frame, Built, Hear, HearCleanup, Checked,
        Unchecked, Effect, TypedVm
<1>20. Leftovers'
  BY <1>0, <1>1, NutanixForm, SameRun
     DEF NutanixCreate, Leftovers, Staging, Frame, Built, Hear, HearCleanup,
        Checked, Unchecked, Effect
<1>21. Rollback'
  <2>1. missed' \/ \A v \in Vols : ~Exists(v)'
    BY <1>1, NoVolumes, NutanixForm DEF NutanixCreate, Hear, Exists
  <2>2. pc' \in {"undo", "disk"} /\ (missed' \/ known' \/ ~vm')
    BY DEF NutanixCreate, Hear, Checked
  <2> QED
    BY <1>1, <2>1, <2>2 DEF Rollback, Over, Cleared, Disowned, Standing, Exists
<1>22. Provision'
  BY <1>0, <1>1, NutanixForm, SameRun
     DEF NutanixCreate, Provision, Good, Built, Hear, HearCleanup, Checked,
        Unchecked, Effect
<1>23. Attachment'
  BY <1>9
<1>24. Contents'
  BY <1>9
<1>25. Backed'
  BY <1>0, <1>1, NutanixForm, SameRun
     DEF NutanixCreate, Backed, Over, Exists, Built, Hear, HearCleanup, Checked,
        Unchecked, Effect
<1> QED
  BY <1>11, <1>12, <1>13, <1>14, <1>15, <1>16, <1>17, <1>18, <1>19, <1>20, <1>21,
     <1>22, <1>23, <1>24, <1>25 DEF IInv, Types

\* Nutanix: volume and device come together, and are handed back only if seen.
LEMMA NutanixDiskStep ==
    ASSUME IInv, NutanixDisk
    PROVE  IInv'
<1> USE DEF At, Outside, Goto, Leave, srcVars, ctlVars, memVars, vmVars, faultVars,
   HandBack, MakesDisk, Attaches
<1>0. /\ TypedRun /\ TypedCtl /\ TypedFaults /\ TypedVm /\ TypedMemory /\ TypedVol
      /\ Frame /\ Untouched /\ Bodies /\ Leftovers /\ Rollback /\ Provision
      /\ Attachment /\ Contents /\ Backed
  BY DEF IInv, Types
<1>1. opt.dst = "nutanix" /\ opt' = opt /\ spec' = spec
  BY DEF NutanixDisk
<1>2. /\ Captures /\ Len(spec) \in Nat /\ Len(spec) <= NDisks /\ at \in Nat
      /\ Positions \subseteq Disks
      /\ \A i \in Positions : spec[i].order \in Addr /\ spec[i].disk \in Disks
      /\ pc \in Loops => at \in Positions /\ Order \in Addr /\ at <= Len(spec)
      /\ pc \notin NoSpec \/ known =>
            spec /= << >> /\ BootDisk \in Positions /\ 1 \in Positions
  BY <1>0, Here
<1>3. PICK a \in Checked :
         IF slot[Order] /= 0
         THEN UNCHANGED <<vol, vmVars, faultVars, memVars>> /\ pc' = "undo"
         ELSE /\ Hear(a, Checked)
              /\ vol' = IF Effect(a) THEN [vol EXCEPT ![at] = Blank] ELSE vol
              /\ slot' = IF Effect(a) THEN [slot EXCEPT ![Order] = at] ELSE slot
              /\ boots' = IF Effect(a) /\ Order = 0 THEN 0 ELSE boots
              /\ IF a = "ok"
                 THEN /\ dest' = Append(dest, at)
                      /\ pc' = "copy"
                      /\ UNCHANGED <<known, memory, noted>>
                 ELSE UNCHANGED memVars /\ pc' = "undo"
  <2>1. CASE slot[Order] /= 0
    BY <2>1 DEF NutanixDisk, Checked
  <2>2. CASE slot[Order] = 0
    BY <2>2 DEF NutanixDisk
  <2> QED
    BY <2>1, <2>2
<1>4. /\ UNCHANGED <<srcVars, shares, extra, others, at, tries, vm, rdm, native, home>>
      /\ pc = "disk" /\ known /\ dest \in Seq(Vols) /\ Len(dest) = at - 1
      /\ at \in Positions /\ Order \in Addr /\ at <= Len(spec)
  BY <1>0, <1>1, <1>2, NutanixForm DEF NutanixDisk, Frame, TypedMemory, Loops, Built
<1>5. pc' = "copy" => dest' \in Seq(Vols) /\ Len(dest') = at
  <2>1. at \in Vols /\ at \in Nat
    BY <1>2, <1>4, Numbers
  <2>2. pc' = "copy" => dest' = Append(dest, at)
    BY <1>3
  <2> QED
    BY <1>4, <2>1, <2>2
<1>6. Good => slot[Order] = 0
  <2>1. Good => ByOrder(slot, spec, at - 1)
    BY <1>0, <1>1, <1>4, NutanixForm DEF Attachment, Built
  <2>2. slot \in [Addr -> Nat]
    BY <1>0, Numbers DEF TypedVm
  <2> QED
    BY <1>2, <1>4, <2>1, <2>2, NextByOrder DEF Good, Order
<1>9. Attachment' /\ Contents'
  <2>1. CASE ~Good' \/ pc' \notin Built'
    BY <2>1 DEF Attachment, Contents
  <2>2. CASE Good' /\ pc' \in Built'
    <3>1. Good /\ a = "ok" /\ pc' = "copy"
      BY <1>0, <1>1, <1>3, <2>2, Heard, SameSpec, SameRun, NutanixForm
         DEF Good, Built, Checked, Unchecked
    <3>2. /\ slot' = [slot EXCEPT ![Order] = at] /\ vol' = [vol EXCEPT ![at] = Blank]
          /\ slot'[Order] = at
      BY <1>0, <1>3, <1>4, <1>6, <3>1 DEF TypedVm, Effect
    <3>3. dest' = Append(dest, at)
      BY <1>3, <3>1, <3>2
    <3> QED
      BY <1>1, <1>4, <3>1, <3>2, <3>3, NextOnDemand, NutanixForm
  <2> QED
    BY <2>1, <2>2
<1>11. TypedRun'
  BY <1>0, <1>1, <1>3, <1>4, <1>5
     DEF TypedRun
<1>12. TypedCtl'
  BY <1>0, <1>1, PartsAssumption, <1>3, <1>4, <1>5
     DEF TypedCtl
<1>13. TypedFaults'
  BY <1>0, <1>1, Heard
     DEF NutanixDisk, TypedFaults
<1>14. TypedVm'
  BY <1>0, <1>1, <1>2, Numbers, <1>3, <1>4, <1>5
     DEF TypedVm, Hear, HearCleanup, Checked, Unchecked, Effect
<1>15. TypedMemory'
  <2>1. CASE pc' = "copy"
    <3>1. UNCHANGED <<known, memory, noted>>
      BY <1>3, <2>1
    <3>2. dest' \in Seq(Vols) /\ Len(dest') <= NDisks
      BY <1>2, <1>4, <1>5, <2>1, PartsAssumption
    <3> QED
      BY <1>0, <3>1, <3>2 DEF TypedMemory
  <2>2. CASE UNCHANGED memVars
    BY <1>0, <2>2 DEF TypedMemory
  <2> QED
    BY <1>3, <2>1, <2>2
<1>16. TypedVol'
  BY <1>0, <1>1, <1>2, Numbers, <1>3, <1>4, <1>5
     DEF TypedVol, Hear, HearCleanup, Checked, Unchecked, Effect
<1>17. Frame'
  <2>1. /\ pc' \in {"copy", "undo"} /\ (known' <=> known)
        /\ pc' = "undo" => dest' = dest
    BY <1>3
  <2>2. "recorded" \in extra' => "recorded" \in extra
    BY <1>4
  <2> QED
    BY <1>0, <1>1, <1>2, <1>4, <1>5, <2>1, <2>2, NutanixForm, SameRun
       DEF Frame, Staging, Built, Steps, Whole, Loops
<1>18. Untouched'
  BY <1>0, <1>1, NutanixForm, SameRun, <1>3, <1>4, <1>5
     DEF Untouched, Staging
<1>19. Bodies'
  BY <1>0, <1>1, NutanixForm, SameRun, <1>2, Numbers, <1>3, <1>4, <1>5
     DEF Bodies, Staging, Frame, Built, Hear, HearCleanup, Checked, Unchecked,
        Effect
<1>20. Leftovers'
  BY <1>0, <1>1, NutanixForm, SameRun, <1>3, <1>4, <1>5
     DEF Leftovers, Staging, Frame, Built, Hear, HearCleanup, Checked, Unchecked,
        Effect
<1>21. Rollback'
  <2>1. /\ ~missed' => ~missed
        /\ pc \notin NoSpec /\ known' /\ pc' \in {"undo", "copy"}
    BY <1>0, <1>3, <1>4, Heard DEF NoSpec
  <2>2. CASE UNCHANGED <<vol, slot>>
    BY <1>0, <1>1, <1>4, <2>1, <2>2, SameSlot
       DEF Rollback, Standing, Over, Disowned, Exists, NoSpec
  <2>3. CASE slot[Order] = 0 /\ slot' = [slot EXCEPT ![Order] = at]
             /\ vol' = [vol EXCEPT ![at] = Blank]
    <3>1. Attached' = Attached \union {at}
      BY <1>0, <1>2, <1>4, <2>3, OneMore, Numbers DEF TypedVm
    <3>2. \A v \in Vols : Exists(v)' => Exists(v) \/ v = at
      BY <1>0, <2>3 DEF Exists, TypedVol
    <3> QED
      BY <1>0, <1>1, <1>4, <2>1, <3>1, <3>2 DEF Rollback, Standing, Over, Disowned, NoSpec
  <2> QED
    BY <1>3, <2>2, <2>3 DEF Effect
<1>22. Provision'
  BY <1>0, <1>1, NutanixForm, SameRun, <1>3, <1>4, <1>5
     DEF Provision, Good, Built, Hear, HearCleanup, Checked, Unchecked, Effect
<1>23. Attachment'
  BY <1>9
<1>24. Contents'
  BY <1>9
<1>25. Backed'
  <2>1. ASSUME ~missed', pc' = "copy"
        PROVE  Exists(dest[at])'
    <3>1. vol' = [vol EXCEPT ![at] = Blank] /\ dest' = Append(dest, at)
      BY <1>0, <1>3, <1>4, <2>1, Heard DEF TypedVm, Effect, Checked, Unchecked
    <3>2. dest'[at] = at /\ at' = at
      BY <1>2, <1>4, <3>1
    <3>3. vol'[at] = Blank
      BY <1>0, <1>2, <1>4, <3>1, Numbers DEF TypedVol
    <3> QED
      BY <3>2, <3>3, Numbers DEF Exists
  <2>2. pc' \in {"copy", "undo"}
    BY <1>3
  <2> QED
    BY <1>1, <2>1, <2>2, SameRun, NutanixForm DEF Backed
<1> QED
  BY <1>11, <1>12, <1>13, <1>14, <1>15, <1>16, <1>17, <1>18, <1>19, <1>20, <1>21,
     <1>22, <1>23, <1>24, <1>25 DEF IInv, Types

\* Nutanix: nothing is done about the boot order.
LEMMA NutanixBootStep ==
    ASSUME IInv, NutanixBoot
    PROVE  IInv'
<1> USE DEF At, Outside, Goto, Leave, srcVars, ctlVars, memVars, vmVars, faultVars
<1>0. /\ TypedRun /\ TypedCtl /\ TypedFaults /\ TypedVm /\ TypedMemory /\ TypedVol
      /\ Frame /\ Untouched /\ Bodies /\ Leftovers /\ Rollback /\ Provision
      /\ Attachment /\ Contents /\ Backed
  BY DEF IInv, Types
<1>1. opt.dst = "nutanix" /\ opt' = opt /\ spec' = spec
  BY DEF NutanixBoot
<1>2. /\ Captures /\ Len(spec) \in Nat /\ Len(spec) <= NDisks /\ at \in Nat
      /\ Positions \subseteq Disks
      /\ \A i \in Positions : spec[i].order \in Addr /\ spec[i].disk \in Disks
      /\ pc \in Loops => at \in Positions /\ Order \in Addr /\ at <= Len(spec)
      /\ pc \notin NoSpec \/ known =>
            spec /= << >> /\ BootDisk \in Positions /\ 1 \in Positions
  BY <1>0, Here
<1>9. Attachment' /\ Contents'
  <2>1. CASE ~Good'
    BY <2>1 DEF Attachment, Contents
  <2>2. CASE Good'
    <3>1. Good /\ rdm = {} /\ native \subseteq rdm
      BY <1>0, <1>1, <2>2, SameSpec DEF NutanixBoot, Good, Bodies, TypedVm, Hear
    <3>2. pc \in Finishing /\ pc' \in Finishing /\ UNCHANGED <<slot, vol, dest, native, rdm>>
      BY <1>1, NutanixForm DEF NutanixBoot
    <3>3. opt.dst \notin {"proxmox", "xcpng"}
      BY <1>1
    <3> QED
      BY <1>0, <1>1, <3>1, <3>2, <3>3, StaysBuilt
  <2> QED
    BY <2>1, <2>2
<1>11. TypedRun'
  BY <1>0, <1>1
     DEF NutanixBoot, TypedRun
<1>12. TypedCtl'
  BY <1>0, <1>1, PartsAssumption
     DEF NutanixBoot, TypedCtl
<1>13. TypedFaults'
  BY <1>0, <1>1, Heard
     DEF NutanixBoot, TypedFaults
<1>14. TypedVm'
  BY <1>0, <1>1, <1>2, Numbers
     DEF NutanixBoot, TypedVm, Hear, HearCleanup, Checked, Unchecked, Effect,
        NoSpec
<1>15. TypedMemory'
  BY <1>0, <1>1
     DEF NutanixBoot, TypedMemory, Hear, HearCleanup, Checked, Unchecked, Effect
<1>16. TypedVol'
  BY <1>0, <1>1
     DEF NutanixBoot, TypedVol, Hear, HearCleanup, Checked, Unchecked, Effect
<1>17. Frame'
  BY <1>0, <1>1, NutanixForm, SameRun
     DEF NutanixBoot, Frame, Staging, Built, Steps, Whole, Loops, Hear,
        HearCleanup, Checked, Unchecked, Effect
<1>18. Untouched'
  BY <1>0, <1>1, NutanixForm, SameRun
     DEF NutanixBoot, Untouched, Staging
<1>19. Bodies'
  BY <1>0, <1>1, NutanixForm, SameRun
     DEF NutanixBoot, Bodies, Staging, Frame, Built, Hear, HearCleanup, Checked,
        Unchecked, Effect
<1>20. Leftovers'
  BY <1>0, <1>1, NutanixForm, SameRun
     DEF NutanixBoot, Leftovers, Staging, Frame, Built, Hear, HearCleanup, Checked,
        Unchecked, Effect
<1>21. Rollback'
  BY <1>0, <1>1, NutanixForm, SameRun, SameSlot
     DEF NutanixBoot, Rollback, Staging, Frame, Standing, Over, Cleared, Disowned,
        Exists, Built, Hear, HearCleanup, Checked, Unchecked, Effect
<1>22. Provision'
  BY <1>0, <1>1, NutanixForm, SameRun
     DEF NutanixBoot, Provision, Good, Built, Hear, HearCleanup, Checked,
        Unchecked, Effect
<1>23. Attachment'
  BY <1>9
<1>24. Contents'
  BY <1>9
<1>25. Backed'
  BY <1>0, <1>1, NutanixForm, SameRun
     DEF NutanixBoot, Backed, Over, Exists, Built, Hear, HearCleanup, Checked,
        Unchecked, Effect
<1> QED
  BY <1>11, <1>12, <1>13, <1>14, <1>15, <1>16, <1>17, <1>18, <1>19, <1>20, <1>21,
     <1>22, <1>23, <1>24, <1>25 DEF IInv, Types

\* Nutanix: the VM takes its disks along.
LEMMA NutanixDeleteStep ==
    ASSUME IInv, NutanixDelete
    PROVE  IInv'
<1> USE DEF At, Outside, Goto, Leave, srcVars, ctlVars, memVars, vmVars, faultVars,
   VmGone, Without, NoDevices
<1>0. /\ TypedRun /\ TypedCtl /\ TypedFaults /\ TypedVm /\ TypedMemory /\ TypedVol
      /\ Frame /\ Untouched /\ Bodies /\ Leftovers /\ Rollback /\ Provision
      /\ Attachment /\ Contents /\ Backed
  BY DEF IInv, Types
<1>1. opt.dst = "nutanix" /\ opt' = opt /\ spec' = spec
  BY DEF NutanixDelete
<1>2. /\ Captures /\ Len(spec) \in Nat /\ Len(spec) <= NDisks /\ at \in Nat
      /\ Positions \subseteq Disks
      /\ \A i \in Positions : spec[i].order \in Addr /\ spec[i].disk \in Disks
      /\ pc \in Loops => at \in Positions /\ Order \in Addr /\ at <= Len(spec)
      /\ pc \notin NoSpec \/ known =>
            spec /= << >> /\ BootDisk \in Positions /\ 1 \in Positions
  BY <1>0, Here
<1>11. TypedRun'
  BY <1>0, <1>1
     DEF NutanixDelete, TypedRun
<1>12. TypedCtl'
  BY <1>0, <1>1, PartsAssumption
     DEF NutanixDelete, TypedCtl
<1>13. TypedFaults'
  BY <1>0, <1>1, Heard
     DEF NutanixDelete, TypedFaults
<1>14. TypedVm'
  BY <1>0, <1>1, <1>2, Numbers
     DEF NutanixDelete, TypedVm, Hear, HearCleanup, Checked, Unchecked, Effect
<1>15. TypedMemory'
  BY <1>0, <1>1
     DEF NutanixDelete, TypedMemory, Hear, HearCleanup, Checked, Unchecked, Effect
<1>16. TypedVol'
  BY <1>0, <1>1, <1>2, Numbers
     DEF NutanixDelete, TypedVol, Hear, HearCleanup, Checked, Unchecked, Effect
<1>17. Frame'
  BY <1>0, <1>1, NutanixForm, SameRun
     DEF NutanixDelete, Frame, Staging, Built, Steps, Whole, Loops, Hear,
        HearCleanup, Checked, Unchecked, Effect
<1>18. Untouched'
  BY <1>0, <1>1, NutanixForm, SameRun
     DEF NutanixDelete, Untouched, Staging
<1>19. Bodies'
  BY <1>0, <1>1, NutanixForm, SameRun
     DEF NutanixDelete, Bodies, Staging, Frame, Built, Hear, HearCleanup, Checked,
        Unchecked, Effect
<1>20. Leftovers'
  BY <1>0, <1>1, NutanixForm, SameRun
     DEF NutanixDelete, Leftovers, Staging, Frame, Built, Hear, HearCleanup,
        Checked, Unchecked, Effect
<1>21. Rollback'
  <2>1. missed' \/ (~vm' /\ \A v \in Vols : Exists(v)' => KnownLeak(v)')
    <3>1. ~missed => Standing
      BY <1>0 DEF Rollback, Over, NutanixDelete
    <3>2. missed' \/ (~missed /\ ~vm' /\ vol' = Without(Attached))
      BY <1>0 DEF NutanixDelete, HearCleanup, Checked, Effect, TypedFaults
    <3>3. ~missed => \A v \in Vols : Exists(v) => v \in Attached
      BY <1>1, <3>1 DEF Standing
    <3> QED
      BY <3>2, <3>3 DEF Exists
  <2>2. pc' = "unstage"
    BY DEF NutanixDelete
  <2> QED
    BY <2>1, <2>2 DEF Rollback, Over, Cleared
<1>22. Provision'
  BY <1>0, <1>1, NutanixForm, SameRun
     DEF NutanixDelete, Provision, Good, Built, Hear, HearCleanup, Checked,
        Unchecked, Effect
<1>23. Attachment'
  BY <1>0, <1>1, NutanixForm, SameRun
     DEF NutanixDelete, Attachment, Good, Built, Hear, HearCleanup, Checked,
        Unchecked, Effect
<1>24. Contents'
  BY <1>0, <1>1, NutanixForm, SameRun
     DEF NutanixDelete, Contents, Good, Built, Hear, HearCleanup, Checked,
        Unchecked, Effect
<1>25. Backed'
  BY <1>0, <1>1, NutanixForm, SameRun
     DEF NutanixDelete, Backed, Over, Exists, Built, Hear, HearCleanup, Checked,
        Unchecked, Effect
<1> QED
  BY <1>11, <1>12, <1>13, <1>14, <1>15, <1>16, <1>17, <1>18, <1>19, <1>20, <1>21,
     <1>22, <1>23, <1>24, <1>25 DEF IInv, Types

\* vSphere source: the account is there from here to its removal.
LEMMA ProvisionEsxiSshStep ==
    ASSUME IInv, ProvisionEsxiSsh
    PROVE  IInv'
<1> USE DEF At, Outside, Goto, Leave, srcVars, ctlVars, memVars, vmVars, faultVars,
   Stages, GoOn
<1>0. /\ TypedRun /\ TypedCtl /\ TypedFaults /\ TypedVm /\ TypedMemory /\ TypedVol
      /\ Frame /\ Untouched /\ Bodies /\ Leftovers /\ Rollback /\ Provision
      /\ Attachment /\ Contents /\ Backed
  BY DEF IInv, Types
<1>1. opt' = opt /\ spec' = spec
  BY DEF ProvisionEsxiSsh
<1>2. /\ Captures /\ Len(spec) \in Nat /\ Len(spec) <= NDisks /\ at \in Nat
      /\ Positions \subseteq Disks
      /\ \A i \in Positions : spec[i].order \in Addr /\ spec[i].disk \in Disks
      /\ pc \in Loops => at \in Positions /\ Order \in Addr /\ at <= Len(spec)
      /\ pc \notin NoSpec \/ known =>
            spec /= << >> /\ BootDisk \in Positions /\ 1 \in Positions
  BY <1>0, Here
<1>3. /\ "create" \in Making /\ Making \subseteq Makings
      /\ {"disk", "copy"} \subseteq Copying /\ Copying \subseteq {"disk", "copy", "rdm"}
      /\ Finals \subseteq Finishing /\ Finishing \subseteq Finals \union {"unrdm", "unscratch2"}
      /\ Freeing \subseteq {"freeRdm", "unscratch3"}
      /\ opt.dst /= "vsphere" =>
            Copying = {"disk", "copy"} /\ Finishing = Finals /\ Freeing = {}
      /\ opt.dst \in Platforms
  BY <1>0, AnyForm DEF TypedRun
<1>11. TypedRun'
  BY <1>0, <1>1
     DEF ProvisionEsxiSsh, TypedRun
<1>12. TypedCtl'
  BY <1>0, <1>1, PartsAssumption
     DEF ProvisionEsxiSsh, TypedCtl
<1>13. TypedFaults'
  BY <1>0, <1>1, Heard
     DEF ProvisionEsxiSsh, TypedFaults
<1>14. TypedVm'
  BY <1>0, <1>1
     DEF ProvisionEsxiSsh, TypedVm, Hear, HearCleanup, Checked, Unchecked, Effect
<1>15. TypedMemory'
  BY <1>0, <1>1
     DEF ProvisionEsxiSsh, TypedMemory, Hear, HearCleanup, Checked, Unchecked,
        Effect
<1>16. TypedVol'
  BY <1>0, <1>1
     DEF ProvisionEsxiSsh, TypedVol, Hear, HearCleanup, Checked, Unchecked, Effect
<1>17. Frame'
  BY <1>0, <1>1, <1>3, SameRun
     DEF ProvisionEsxiSsh, Frame, Staging, Built, Steps, Whole, Loops, Hear,
        HearCleanup, Checked, Unchecked, Effect, Finals, Makings, NoSpec
<1>18. Untouched'
  BY <1>0, <1>1, <1>3, SameRun
     DEF ProvisionEsxiSsh, Untouched, Staging
<1>19. Bodies'
  BY <1>0, <1>1, <1>3, SameRun
     DEF ProvisionEsxiSsh, Bodies, Staging, Frame, Built, Hear, HearCleanup,
        Checked, Unchecked, Effect, Finals, Makings, NoSpec
<1>20. Leftovers'
  BY <1>0, <1>1, <1>3, SameRun
     DEF ProvisionEsxiSsh, Leftovers, Staging, Frame, Built, Hear, HearCleanup,
        Checked, Unchecked, Effect, Finals, Makings, NoSpec
<1>21. Rollback'
  <2>1. ~vm' /\ (\A v \in Vols : ~Exists(v)') /\ rdm' = {}
    BY <1>0 DEF Untouched, Staging, Bodies, Frame, Exists, ProvisionEsxiSsh
  <2> QED
    BY <2>1, NothingYet
<1>22. Provision'
  BY <1>0, <1>1, <1>3, SameRun
     DEF ProvisionEsxiSsh, Provision, Good, Built, Hear, HearCleanup, Checked,
        Unchecked, Effect, Finals, Makings, NoSpec
<1>23. Attachment'
  BY <1>0, <1>1, <1>3, SameRun
     DEF ProvisionEsxiSsh, Attachment, Good, Built, Hear, HearCleanup, Checked,
        Unchecked, Effect, Finals, Makings, NoSpec
<1>24. Contents'
  BY <1>0, <1>1, <1>3, SameRun
     DEF ProvisionEsxiSsh, Contents, Good, Built, Hear, HearCleanup, Checked,
        Unchecked, Effect, Finals, Makings, NoSpec
<1>25. Backed'
  BY <1>0, <1>1, <1>3, SameRun
     DEF ProvisionEsxiSsh, Backed, Over, Exists, Built, Hear, HearCleanup, Checked,
        Unchecked, Effect, Finals, Makings, NoSpec
<1> QED
  BY <1>11, <1>12, <1>13, <1>14, <1>15, <1>16, <1>17, <1>18, <1>19, <1>20, <1>21,
     <1>22, <1>23, <1>24, <1>25 DEF IInv, Types

\* vSphere source: a snapshot is there from here to the finally clause.
LEMMA FreezeStep ==
    ASSUME IInv, Freeze
    PROVE  IInv'
<1> USE DEF At, Outside, Goto, Leave, srcVars, ctlVars, memVars, vmVars, faultVars,
   Stages, Start
<1>0. /\ TypedRun /\ TypedCtl /\ TypedFaults /\ TypedVm /\ TypedMemory /\ TypedVol
      /\ Frame /\ Untouched /\ Bodies /\ Leftovers /\ Rollback /\ Provision
      /\ Attachment /\ Contents /\ Backed
  BY DEF IInv, Types
<1>1. opt' = opt /\ spec' = spec
  BY DEF Freeze
<1>2. /\ Captures /\ Len(spec) \in Nat /\ Len(spec) <= NDisks /\ at \in Nat
      /\ Positions \subseteq Disks
      /\ \A i \in Positions : spec[i].order \in Addr /\ spec[i].disk \in Disks
      /\ pc \in Loops => at \in Positions /\ Order \in Addr /\ at <= Len(spec)
      /\ pc \notin NoSpec \/ known =>
            spec /= << >> /\ BootDisk \in Positions /\ 1 \in Positions
  BY <1>0, Here
<1>3. /\ "create" \in Making /\ Making \subseteq Makings
      /\ {"disk", "copy"} \subseteq Copying /\ Copying \subseteq {"disk", "copy", "rdm"}
      /\ Finals \subseteq Finishing /\ Finishing \subseteq Finals \union {"unrdm", "unscratch2"}
      /\ Freeing \subseteq {"freeRdm", "unscratch3"}
      /\ opt.dst /= "vsphere" =>
            Copying = {"disk", "copy"} /\ Finishing = Finals /\ Freeing = {}
      /\ opt.dst \in Platforms
  BY <1>0, AnyForm DEF TypedRun
<1>11. TypedRun'
  BY <1>0, <1>1
     DEF Freeze, TypedRun
<1>12. TypedCtl'
  BY <1>0, <1>1, PartsAssumption DEF TypedCtl, Disks, Freeze
<1>13. TypedFaults'
  BY <1>0, <1>1, Heard
     DEF Freeze, TypedFaults
<1>14. TypedVm'
  BY <1>0, <1>1
     DEF Freeze, TypedVm, Hear, HearCleanup, Checked, Unchecked, Effect
<1>15. TypedMemory'
  BY <1>0, <1>1
     DEF Freeze, TypedMemory, Hear, HearCleanup, Checked, Unchecked, Effect
<1>16. TypedVol'
  BY <1>0, <1>1
     DEF Freeze, TypedVol, Hear, HearCleanup, Checked, Unchecked, Effect
<1>17. Frame'
  BY <1>0, <1>1, <1>3, SameRun
     DEF Freeze, Frame, Staging, Built, Steps, Whole, Loops, Hear, HearCleanup,
        Checked, Unchecked, Effect, Finals, Makings, NoSpec
<1>18. Untouched'
  BY <1>0, <1>1, <1>3, SameRun
     DEF Freeze, Untouched, Staging
<1>19. Bodies'
  BY <1>0, <1>1, <1>3, SameRun
     DEF Freeze, Bodies, Staging, Frame, Built, Hear, HearCleanup, Checked,
        Unchecked, Effect, Finals, Makings, NoSpec
<1>20. Leftovers'
  BY <1>0, <1>1, <1>3, SameRun
     DEF Freeze, Leftovers, Staging, Frame, Built, Hear, HearCleanup, Checked,
        Unchecked, Effect, Finals, Makings, NoSpec
<1>21. Rollback'
  <2>1. ~vm' /\ (\A v \in Vols : ~Exists(v)') /\ rdm' = {}
    BY <1>0 DEF Untouched, Staging, Bodies, Frame, Exists, Freeze
  <2> QED
    BY <2>1, NothingYet
<1>22. Provision'
  BY <1>0, <1>1, <1>3, SameRun
     DEF Freeze, Provision, Good, Built, Hear, HearCleanup, Checked, Unchecked,
        Effect, Finals, Makings, NoSpec
<1>23. Attachment'
  BY <1>0, <1>1, <1>3, SameRun
     DEF Freeze, Attachment, Good, Built, Hear, HearCleanup, Checked, Unchecked,
        Effect, Finals, Makings, NoSpec
<1>24. Contents'
  BY <1>0, <1>1, <1>3, SameRun
     DEF Freeze, Contents, Good, Built, Hear, HearCleanup, Checked, Unchecked,
        Effect, Finals, Makings, NoSpec
<1>25. Backed'
  BY <1>0, <1>1, <1>3, SameRun
     DEF Freeze, Backed, Over, Exists, Built, Hear, HearCleanup, Checked,
        Unchecked, Effect, Finals, Makings, NoSpec
<1> QED
  BY <1>11, <1>12, <1>13, <1>14, <1>15, <1>16, <1>17, <1>18, <1>19, <1>20, <1>21,
     <1>22, <1>23, <1>24, <1>25 DEF IInv, Types

\* vSphere source: the clones are recorded with the last disk, and only then.
LEMMA CloneDiskStep ==
    ASSUME IInv, CloneDisk
    PROVE  IInv'
<1> USE DEF At, Outside, Goto, Leave, srcVars, ctlVars, memVars, vmVars, faultVars,
   Stages
<1>0. /\ TypedRun /\ TypedCtl /\ TypedFaults /\ TypedVm /\ TypedMemory /\ TypedVol
      /\ Frame /\ Untouched /\ Bodies /\ Leftovers /\ Rollback /\ Provision
      /\ Attachment /\ Contents /\ Backed
  BY DEF IInv, Types
<1>1. opt' = opt /\ spec' = spec
  BY DEF CloneDisk
<1>2. /\ Captures /\ Len(spec) \in Nat /\ Len(spec) <= NDisks /\ at \in Nat
      /\ Positions \subseteq Disks
      /\ \A i \in Positions : spec[i].order \in Addr /\ spec[i].disk \in Disks
      /\ pc \in Loops => at \in Positions /\ Order \in Addr /\ at <= Len(spec)
      /\ pc \notin NoSpec \/ known =>
            spec /= << >> /\ BootDisk \in Positions /\ 1 \in Positions
  BY <1>0, Here
<1>3. /\ "create" \in Making /\ Making \subseteq Makings
      /\ {"disk", "copy"} \subseteq Copying /\ Copying \subseteq {"disk", "copy", "rdm"}
      /\ Finals \subseteq Finishing /\ Finishing \subseteq Finals \union {"unrdm", "unscratch2"}
      /\ Freeing \subseteq {"freeRdm", "unscratch3"}
      /\ opt.dst /= "vsphere" =>
            Copying = {"disk", "copy"} /\ Finishing = Finals /\ Freeing = {}
      /\ opt.dst \in Platforms
  BY <1>0, AnyForm DEF TypedRun
<1>4. PICK a \in Checked :
         /\ Hear(a, Checked)
         /\ extra' = extra \union (IF Effect(a) THEN {"clones"} ELSE {})
                           \union (IF a = "ok" /\ at = Len(spec) THEN {"recorded"} ELSE {})
         /\ IF a = "ok" THEN Loop("clone", "unsnapshot") ELSE Goto("unsnapshot")
  BY DEF CloneDisk
<1>5. /\ TypedCtl'
      /\ \/ a = "ok" /\ at < Len(spec) /\ at' = at + 1 /\ at' <= Len(spec) /\ pc' = "clone"
         \/ a = "ok" /\ ~(at < Len(spec)) /\ at' = 1 /\ pc' = "unsnapshot"
         \/ a /= "ok" /\ at' = at /\ pc' = "unsnapshot"
  <2>1. CASE a = "ok"
    BY <1>0, <1>2, <1>4, <2>1, Looped
  <2>2. CASE a /= "ok"
    BY <1>0, <1>4, <2>2 DEF TypedCtl
  <2> QED
    BY <2>1, <2>2
<1>11. TypedRun'
  BY <1>0, <1>1
     DEF CloneDisk, TypedRun
<1>12. TypedCtl'
  BY <1>5
<1>13. TypedFaults'
  BY <1>0, <1>1, Heard
     DEF CloneDisk, TypedFaults
<1>14. TypedVm'
  BY <1>0, <1>1
     DEF CloneDisk, TypedVm, Hear, HearCleanup, Checked, Unchecked, Effect
<1>15. TypedMemory'
  BY <1>0, <1>1
     DEF CloneDisk, TypedMemory, Hear, HearCleanup, Checked, Unchecked, Effect
<1>16. TypedVol'
  BY <1>0, <1>1
     DEF CloneDisk, TypedVol, Hear, HearCleanup, Checked, Unchecked, Effect
<1>17. Frame'
  <2>1. pc = "clone" /\ UNCHANGED <<opt, spec, known, dest>> /\ spec /= << >>
    BY <1>1, <1>2 DEF CloneDisk, NoSpec
  <2>2. "recorded" \in extra' => at' = 1 /\ pc' = "unsnapshot"
    BY <1>0, <1>2, <1>4, <1>5, <2>1 DEF Frame
  <2> QED
    BY <1>0, <1>1, <1>3, <1>5, <2>1, <2>2, SameRun
       DEF Frame, Staging, Built, Steps, Whole, Loops, Finals, Makings
<1>18. Untouched'
  BY <1>0, <1>5 DEF CloneDisk, Untouched, Staging
<1>19. Bodies'
  BY <1>0, <1>1, <1>3, SameRun, <1>5
     DEF CloneDisk, Bodies, Staging, Frame, Built, Hear, HearCleanup, Checked,
        Unchecked, Effect, Finals, Makings, NoSpec
<1>20. Leftovers'
  BY <1>0, <1>1, <1>3, SameRun, <1>5
     DEF CloneDisk, Leftovers, Staging, Frame, Built, Hear, HearCleanup, Checked,
        Unchecked, Effect, Finals, Makings, NoSpec
<1>21. Rollback'
  <2>1. ~vm' /\ (\A v \in Vols : ~Exists(v)') /\ rdm' = {}
    BY <1>0 DEF Untouched, Staging, Bodies, Frame, Exists, CloneDisk
  <2> QED
    BY <2>1, NothingYet
<1>22. Provision'
  BY <1>0, <1>1, <1>3, SameRun, <1>5
     DEF CloneDisk, Provision, Good, Built, Hear, HearCleanup, Checked, Unchecked,
        Effect, Finals, Makings, NoSpec
<1>23. Attachment'
  BY <1>0, <1>1, <1>3, SameRun, <1>5
     DEF CloneDisk, Attachment, Good, Built, Hear, HearCleanup, Checked, Unchecked,
        Effect, Finals, Makings, NoSpec
<1>24. Contents'
  BY <1>0, <1>1, <1>3, SameRun, <1>5
     DEF CloneDisk, Contents, Good, Built, Hear, HearCleanup, Checked, Unchecked,
        Effect, Finals, Makings, NoSpec
<1>25. Backed'
  BY <1>0, <1>1, <1>3, SameRun, <1>5
     DEF CloneDisk, Backed, Over, Exists, Built, Hear, HearCleanup, Checked,
        Unchecked, Effect, Finals, Makings, NoSpec
<1> QED
  BY <1>11, <1>12, <1>13, <1>14, <1>15, <1>16, <1>17, <1>18, <1>19, <1>20, <1>21,
     <1>22, <1>23, <1>24, <1>25 DEF IInv, Types

\* vSphere source: the finally clause removes the snapshot, or the failure is missed.
LEMMA RemoveSnapshotStep ==
    ASSUME IInv, RemoveSnapshot
    PROVE  IInv'
<1> USE DEF At, Outside, Goto, Leave, srcVars, ctlVars, memVars, vmVars, faultVars,
   Stages, GoOn
<1>0. /\ TypedRun /\ TypedCtl /\ TypedFaults /\ TypedVm /\ TypedMemory /\ TypedVol
      /\ Frame /\ Untouched /\ Bodies /\ Leftovers /\ Rollback /\ Provision
      /\ Attachment /\ Contents /\ Backed
  BY DEF IInv, Types
<1>1. opt' = opt /\ spec' = spec
  BY DEF RemoveSnapshot
<1>2. /\ Captures /\ Len(spec) \in Nat /\ Len(spec) <= NDisks /\ at \in Nat
      /\ Positions \subseteq Disks
      /\ \A i \in Positions : spec[i].order \in Addr /\ spec[i].disk \in Disks
      /\ pc \in Loops => at \in Positions /\ Order \in Addr /\ at <= Len(spec)
      /\ pc \notin NoSpec \/ known =>
            spec /= << >> /\ BootDisk \in Positions /\ 1 \in Positions
  BY <1>0, Here
<1>3. /\ "create" \in Making /\ Making \subseteq Makings
      /\ {"disk", "copy"} \subseteq Copying /\ Copying \subseteq {"disk", "copy", "rdm"}
      /\ Finals \subseteq Finishing /\ Finishing \subseteq Finals \union {"unrdm", "unscratch2"}
      /\ Freeing \subseteq {"freeRdm", "unscratch3"}
      /\ opt.dst /= "vsphere" =>
            Copying = {"disk", "copy"} /\ Finishing = Finals /\ Freeing = {}
      /\ opt.dst \in Platforms
  BY <1>0, AnyForm DEF TypedRun
<1>11. TypedRun'
  BY <1>0, <1>1
     DEF RemoveSnapshot, TypedRun
<1>12. TypedCtl'
  BY <1>0, <1>1, PartsAssumption
     DEF RemoveSnapshot, TypedCtl
<1>13. TypedFaults'
  BY <1>0, <1>1, Heard
     DEF RemoveSnapshot, TypedFaults
<1>14. TypedVm'
  BY <1>0, <1>1
     DEF RemoveSnapshot, TypedVm, Hear, HearCleanup, Checked, Unchecked, Effect
<1>15. TypedMemory'
  BY <1>0, <1>1
     DEF RemoveSnapshot, TypedMemory, Hear, HearCleanup, Checked, Unchecked, Effect
<1>16. TypedVol'
  BY <1>0, <1>1
     DEF RemoveSnapshot, TypedVol, Hear, HearCleanup, Checked, Unchecked, Effect
<1>17. Frame'
  BY <1>0, <1>1, <1>3, SameRun
     DEF RemoveSnapshot, Frame, Staging, Built, Steps, Whole, Loops, Hear,
        HearCleanup, Checked, Unchecked, Effect, Finals, Makings, NoSpec
<1>18. Untouched'
  BY <1>0, <1>1, <1>3, SameRun
     DEF RemoveSnapshot, Untouched, Staging
<1>19. Bodies'
  BY <1>0, <1>1, <1>3, SameRun
     DEF RemoveSnapshot, Bodies, Staging, Frame, Built, Hear, HearCleanup, Checked,
        Unchecked, Effect, Finals, Makings, NoSpec
<1>20. Leftovers'
  <2>1. pc = "unsnapshot" /\ pc' \in {"unaccount", "undo"} /\ extra' \subseteq extra
        /\ UNCHANGED <<opt, known>>
    BY <1>1 DEF RemoveSnapshot
  <2>2. ~missed' => /\ ~missed /\ "snapshot" \notin extra' /\ pc' = "unaccount"
                    /\ ("recorded" \in extra' <=> "recorded" \in extra)
    BY <1>0 DEF RemoveSnapshot, HearCleanup, Checked, Effect, TypedFaults
  <2> QED
    BY <1>0, <1>3, <2>1, <2>2, SameRun DEF Leftovers, Staging, Built, Finals, Makings
<1>21. Rollback'
  <2>1. ~vm' /\ (\A v \in Vols : ~Exists(v)') /\ rdm' = {}
    BY <1>0 DEF Untouched, Staging, Bodies, Frame, Exists, RemoveSnapshot
  <2> QED
    BY <2>1, NothingYet
<1>22. Provision'
  BY <1>0, <1>1, <1>3, SameRun
     DEF RemoveSnapshot, Provision, Good, Built, Hear, HearCleanup, Checked,
        Unchecked, Effect, Finals, Makings, NoSpec
<1>23. Attachment'
  BY <1>0, <1>1, <1>3, SameRun
     DEF RemoveSnapshot, Attachment, Good, Built, Hear, HearCleanup, Checked,
        Unchecked, Effect, Finals, Makings, NoSpec
<1>24. Contents'
  BY <1>0, <1>1, <1>3, SameRun
     DEF RemoveSnapshot, Contents, Good, Built, Hear, HearCleanup, Checked,
        Unchecked, Effect, Finals, Makings, NoSpec
<1>25. Backed'
  BY <1>0, <1>1, <1>3, SameRun
     DEF RemoveSnapshot, Backed, Over, Exists, Built, Hear, HearCleanup, Checked,
        Unchecked, Effect, Finals, Makings, NoSpec
<1> QED
  BY <1>11, <1>12, <1>13, <1>14, <1>15, <1>16, <1>17, <1>18, <1>19, <1>20, <1>21,
     <1>22, <1>23, <1>24, <1>25 DEF IInv, Types

\* vSphere source: the run goes on only if all clones were recorded.
LEMMA DeprovisionEsxiSshStep ==
    ASSUME IInv, DeprovisionEsxiSsh
    PROVE  IInv'
<1> USE DEF At, Outside, Goto, Leave, srcVars, ctlVars, memVars, vmVars, faultVars,
   Stages, GoOn
<1>0. /\ TypedRun /\ TypedCtl /\ TypedFaults /\ TypedVm /\ TypedMemory /\ TypedVol
      /\ Frame /\ Untouched /\ Bodies /\ Leftovers /\ Rollback /\ Provision
      /\ Attachment /\ Contents /\ Backed
  BY DEF IInv, Types
<1>1. opt' = opt /\ spec' = spec
  BY DEF DeprovisionEsxiSsh
<1>2. /\ Captures /\ Len(spec) \in Nat /\ Len(spec) <= NDisks /\ at \in Nat
      /\ Positions \subseteq Disks
      /\ \A i \in Positions : spec[i].order \in Addr /\ spec[i].disk \in Disks
      /\ pc \in Loops => at \in Positions /\ Order \in Addr /\ at <= Len(spec)
      /\ pc \notin NoSpec \/ known =>
            spec /= << >> /\ BootDisk \in Positions /\ 1 \in Positions
  BY <1>0, Here
<1>3. /\ "create" \in Making /\ Making \subseteq Makings
      /\ {"disk", "copy"} \subseteq Copying /\ Copying \subseteq {"disk", "copy", "rdm"}
      /\ Finals \subseteq Finishing /\ Finishing \subseteq Finals \union {"unrdm", "unscratch2"}
      /\ Freeing \subseteq {"freeRdm", "unscratch3"}
      /\ opt.dst /= "vsphere" =>
            Copying = {"disk", "copy"} /\ Finishing = Finals /\ Freeing = {}
      /\ opt.dst \in Platforms
  BY <1>0, AnyForm DEF TypedRun
<1>11. TypedRun'
  BY <1>0, <1>1
     DEF DeprovisionEsxiSsh, TypedRun
<1>12. TypedCtl'
  BY <1>0, <1>1, PartsAssumption
     DEF DeprovisionEsxiSsh, TypedCtl
<1>13. TypedFaults'
  BY <1>0, <1>1, Heard
     DEF DeprovisionEsxiSsh, TypedFaults
<1>14. TypedVm'
  BY <1>0, <1>1
     DEF DeprovisionEsxiSsh, TypedVm, Hear, HearCleanup, Checked, Unchecked, Effect
<1>15. TypedMemory'
  BY <1>0, <1>1
     DEF DeprovisionEsxiSsh, TypedMemory, Hear, HearCleanup, Checked, Unchecked,
        Effect
<1>16. TypedVol'
  BY <1>0, <1>1
     DEF DeprovisionEsxiSsh, TypedVol, Hear, HearCleanup, Checked, Unchecked,
        Effect
<1>17. Frame'
  BY <1>0, <1>1, <1>3, SameRun
     DEF DeprovisionEsxiSsh, Frame, Staging, Built, Steps, Whole, Loops, Hear,
        HearCleanup, Checked, Unchecked, Effect, Finals, Makings, NoSpec
<1>18. Untouched'
  BY <1>0, <1>1, <1>3, SameRun
     DEF DeprovisionEsxiSsh, Untouched, Staging
<1>19. Bodies'
  BY <1>0, <1>1, <1>3, SameRun
     DEF DeprovisionEsxiSsh, Bodies, Staging, Frame, Built, Hear, HearCleanup,
        Checked, Unchecked, Effect, Finals, Makings, NoSpec
<1>20. Leftovers'
  BY <1>0, <1>1, <1>3, SameRun
     DEF DeprovisionEsxiSsh, Leftovers, Staging, Frame, Built, Hear, HearCleanup,
        Checked, Unchecked, Effect, Finals, Makings, NoSpec
<1>21. Rollback'
  <2>1. ~vm' /\ (\A v \in Vols : ~Exists(v)') /\ rdm' = {}
    BY <1>0 DEF Untouched, Staging, Bodies, Frame, Exists, DeprovisionEsxiSsh
  <2> QED
    BY <2>1, NothingYet
<1>22. Provision'
  BY <1>0, <1>1, <1>3, SameRun
     DEF DeprovisionEsxiSsh, Provision, Good, Built, Hear, HearCleanup, Checked,
        Unchecked, Effect, Finals, Makings, NoSpec
<1>23. Attachment'
  BY <1>0, <1>1, <1>3, SameRun
     DEF DeprovisionEsxiSsh, Attachment, Good, Built, Hear, HearCleanup, Checked,
        Unchecked, Effect, Finals, Makings, NoSpec
<1>24. Contents'
  BY <1>0, <1>1, <1>3, SameRun
     DEF DeprovisionEsxiSsh, Contents, Good, Built, Hear, HearCleanup, Checked,
        Unchecked, Effect, Finals, Makings, NoSpec
<1>25. Backed'
  BY <1>0, <1>1, <1>3, SameRun
     DEF DeprovisionEsxiSsh, Backed, Over, Exists, Built, Hear, HearCleanup,
        Checked, Unchecked, Effect, Finals, Makings, NoSpec
<1> QED
  BY <1>11, <1>12, <1>13, <1>14, <1>15, <1>16, <1>17, <1>18, <1>19, <1>20, <1>21,
     <1>22, <1>23, <1>24, <1>25 DEF IInv, Types

\* The recorded clones are gone at the end of a run that succeeded, ...
LEMMA TidyStep ==
    ASSUME IInv, CleanupScratch("tidy", "done")
    PROVE  IInv'
<1> USE DEF At, Outside, Goto, Leave, srcVars, ctlVars, memVars, vmVars, faultVars,
   Stages
<1>0. /\ TypedRun /\ TypedCtl /\ TypedFaults /\ TypedVm /\ TypedMemory /\ TypedVol
      /\ Frame /\ Untouched /\ Bodies /\ Leftovers /\ Rollback /\ Provision
      /\ Attachment /\ Contents /\ Backed
  BY DEF IInv, Types
<1>1. opt' = opt /\ spec' = spec
  BY DEF CleanupScratch
<1>2. /\ Captures /\ Len(spec) \in Nat /\ Len(spec) <= NDisks /\ at \in Nat
      /\ Positions \subseteq Disks
      /\ \A i \in Positions : spec[i].order \in Addr /\ spec[i].disk \in Disks
      /\ pc \in Loops => at \in Positions /\ Order \in Addr /\ at <= Len(spec)
      /\ pc \notin NoSpec \/ known =>
            spec /= << >> /\ BootDisk \in Positions /\ 1 \in Positions
  BY <1>0, Here
<1>3. /\ "create" \in Making /\ Making \subseteq Makings
      /\ {"disk", "copy"} \subseteq Copying /\ Copying \subseteq {"disk", "copy", "rdm"}
      /\ Finals \subseteq Finishing /\ Finishing \subseteq Finals \union {"unrdm", "unscratch2"}
      /\ Freeing \subseteq {"freeRdm", "unscratch3"}
      /\ opt.dst /= "vsphere" =>
            Copying = {"disk", "copy"} /\ Finishing = Finals /\ Freeing = {}
      /\ opt.dst \in Platforms
  BY <1>0, AnyForm DEF TypedRun
<1>4. /\ UNCHANGED <<vm, known, slot, vol, rdm, native, memory, noted, boots, dest>>
      /\ pc = "tidy" /\ pc' = "done" /\ (~missed' => ~missed) /\ (Good' => Good)
  BY <1>0, <1>1, SameSpec DEF CleanupScratch, HearCleanup, TypedFaults, Good
<1>5. Attachment' /\ Contents'
  <2>1. CASE pc' = "undo" \/ ~Good'
    BY <1>1, <1>3, <2>1, SameRun DEF Attachment, Contents, Built, Finals
  <2>2. CASE pc' /= "undo" /\ Good'
    <3>1. rdm = {} \/ opt.dst = "vsphere"
      BY <1>0 DEF Bodies
    <3>2. pc \in Finishing /\ pc' \in Finishing /\ Good /\ pc \in Built
      BY <1>3, <1>4, <2>2 DEF Finals, Built
    <3>3. CASE opt.dst /= "vsphere"
      BY <1>0, <1>1, <1>4, <2>2, <3>1, <3>2, <3>3, StaysBuilt DEF TypedVm
    <3>4. CASE opt.dst = "vsphere"
      <4>1. ~noted
        BY <1>0, <1>1, <1>4, <3>2, <3>4 DEF Attachment, Bodies
      <4> QED
        BY <1>0, <1>1, <1>4, <2>2, <3>2, <3>4, <4>1, StaysUp DEF TypedMemory, Exists
    <3> QED
      BY <3>3, <3>4
  <2> QED
    BY <2>1, <2>2
<1>11. TypedRun'
  BY <1>0, <1>1
     DEF CleanupScratch, TypedRun
<1>12. TypedCtl'
  BY <1>0, <1>1, PartsAssumption
     DEF CleanupScratch, TypedCtl
<1>13. TypedFaults'
  BY <1>0, <1>1, Heard
     DEF CleanupScratch, TypedFaults
<1>14. TypedVm'
  BY <1>0, <1>1 DEF TypedVm, CleanupScratch
<1>15. TypedMemory'
  BY <1>0, <1>1
     DEF CleanupScratch, TypedMemory, Hear, HearCleanup, Checked, Unchecked, Effect
<1>16. TypedVol'
  BY <1>0, <1>1
     DEF CleanupScratch, TypedVol, Hear, HearCleanup, Checked, Unchecked, Effect
<1>17. Frame'
  BY <1>0, <1>1, <1>3, SameRun
     DEF CleanupScratch, Frame, Staging, Built, Steps, Whole, Loops, Hear,
        HearCleanup, Checked, Unchecked, Effect, Finals, Makings, NoSpec
<1>18. Untouched'
  BY <1>0, <1>1, <1>3, SameRun
     DEF CleanupScratch, Untouched, Staging
<1>19. Bodies'
  BY <1>0, <1>1, <1>3, SameRun
     DEF CleanupScratch, Bodies, Staging, Frame, Built, Hear, HearCleanup, Checked,
        Unchecked, Effect, Finals, Makings, NoSpec
<1>20. Leftovers'
  <2>1. extra' \subseteq extra /\ UNCHANGED <<opt, known>> /\ pc = "tidy" /\ pc' = "done"
    BY DEF CleanupScratch
  <2>2. ~missed' => ~missed /\ "recorded" \notin extra'
                    /\ ("recorded" \in extra => "clones" \notin extra')
    BY <1>0 DEF CleanupScratch, HearCleanup, Unchecked, TypedFaults
  <2> QED
    BY <1>0, <1>3, <2>1, <2>2, SameRun DEF Leftovers, Staging, Built, Finals, Makings
<1>21. Rollback'
  BY <1>0, <1>1, <1>3, <1>4, StandsStill DEF Over, Frame, Built, Finals
<1>22. Provision'
  BY <1>0, <1>1, <1>3, <1>4, ProvisionStays DEF Built, Finals, Makings
<1>23. Attachment'
  BY <1>5
<1>24. Contents'
  BY <1>5
<1>25. Backed'
  BY <1>0, <1>1, <1>3, SameRun
     DEF CleanupScratch, Backed, Over, Exists, Built, Hear, HearCleanup, Checked,
        Unchecked, Effect, Finals, Makings, NoSpec
<1> QED
  BY <1>11, <1>12, <1>13, <1>14, <1>15, <1>16, <1>17, <1>18, <1>19, <1>20, <1>21,
     <1>22, <1>23, <1>24, <1>25 DEF IInv, Types

\* ... and at the end of one that was rolled back.
LEMMA UnstageStep ==
    ASSUME IInv, CleanupScratch("unstage", "rolledback")
    PROVE  IInv'
<1> USE DEF At, Outside, Goto, Leave, srcVars, ctlVars, memVars, vmVars, faultVars,
   Stages
<1>0. /\ TypedRun /\ TypedCtl /\ TypedFaults /\ TypedVm /\ TypedMemory /\ TypedVol
      /\ Frame /\ Untouched /\ Bodies /\ Leftovers /\ Rollback /\ Provision
      /\ Attachment /\ Contents /\ Backed
  BY DEF IInv, Types
<1>1. opt' = opt /\ spec' = spec
  BY DEF CleanupScratch
<1>2. /\ Captures /\ Len(spec) \in Nat /\ Len(spec) <= NDisks /\ at \in Nat
      /\ Positions \subseteq Disks
      /\ \A i \in Positions : spec[i].order \in Addr /\ spec[i].disk \in Disks
      /\ pc \in Loops => at \in Positions /\ Order \in Addr /\ at <= Len(spec)
      /\ pc \notin NoSpec \/ known =>
            spec /= << >> /\ BootDisk \in Positions /\ 1 \in Positions
  BY <1>0, Here
<1>3. /\ "create" \in Making /\ Making \subseteq Makings
      /\ {"disk", "copy"} \subseteq Copying /\ Copying \subseteq {"disk", "copy", "rdm"}
      /\ Finals \subseteq Finishing /\ Finishing \subseteq Finals \union {"unrdm", "unscratch2"}
      /\ Freeing \subseteq {"freeRdm", "unscratch3"}
      /\ opt.dst /= "vsphere" =>
            Copying = {"disk", "copy"} /\ Finishing = Finals /\ Freeing = {}
      /\ opt.dst \in Platforms
  BY <1>0, AnyForm DEF TypedRun
<1>4. /\ UNCHANGED <<vm, known, slot, vol, rdm, native, memory, noted, boots, dest>>
      /\ pc = "unstage" /\ pc' = "rolledback" /\ (~missed' => ~missed) /\ (Good' => Good)
  BY <1>0, <1>1, SameSpec DEF CleanupScratch, HearCleanup, TypedFaults, Good
<1>11. TypedRun'
  BY <1>0, <1>1
     DEF CleanupScratch, TypedRun
<1>12. TypedCtl'
  BY <1>0, <1>1, PartsAssumption
     DEF CleanupScratch, TypedCtl
<1>13. TypedFaults'
  BY <1>0, <1>1, Heard
     DEF CleanupScratch, TypedFaults
<1>14. TypedVm'
  BY <1>0, <1>1 DEF TypedVm, CleanupScratch
<1>15. TypedMemory'
  BY <1>0, <1>1
     DEF CleanupScratch, TypedMemory, Hear, HearCleanup, Checked, Unchecked, Effect
<1>16. TypedVol'
  BY <1>0, <1>1
     DEF CleanupScratch, TypedVol, Hear, HearCleanup, Checked, Unchecked, Effect
<1>17. Frame'
  BY <1>0, <1>1, <1>3, SameRun
     DEF CleanupScratch, Frame, Staging, Built, Steps, Whole, Loops, Hear,
        HearCleanup, Checked, Unchecked, Effect, Finals, Makings, NoSpec
<1>18. Untouched'
  BY <1>0, <1>1, <1>3, SameRun
     DEF CleanupScratch, Untouched, Staging
<1>19. Bodies'
  BY <1>0, <1>1, <1>3, SameRun
     DEF CleanupScratch, Bodies, Staging, Frame, Built, Hear, HearCleanup, Checked,
        Unchecked, Effect, Finals, Makings, NoSpec
<1>20. Leftovers'
  <2>1. /\ extra' \subseteq extra /\ UNCHANGED <<opt, known>>
        /\ pc = "unstage" /\ pc' = "rolledback"
    BY DEF CleanupScratch
  <2>2. ~missed' => ~missed /\ "recorded" \notin extra'
                    /\ ("recorded" \in extra => "clones" \notin extra')
    BY <1>0 DEF CleanupScratch, HearCleanup, Unchecked, TypedFaults
  <2> QED
    BY <1>0, <1>3, <2>1, <2>2, SameRun DEF Leftovers, Staging, Built, Finals, Makings
<1>21. Rollback'
  BY <1>0, <1>1, <1>4, StillOver DEF Over
<1>22. Provision'
  BY <1>0, <1>1, <1>3, SameRun
     DEF CleanupScratch, Provision, Good, Built, Hear, HearCleanup, Checked,
        Unchecked, Effect, Finals, Makings, NoSpec
<1>23. Attachment'
  BY <1>0, <1>1, <1>3, SameRun
     DEF CleanupScratch, Attachment, Good, Built, Hear, HearCleanup, Checked,
        Unchecked, Effect, Finals, Makings, NoSpec
<1>24. Contents'
  BY <1>0, <1>1, <1>3, SameRun
     DEF CleanupScratch, Contents, Good, Built, Hear, HearCleanup, Checked,
        Unchecked, Effect, Finals, Makings, NoSpec
<1>25. Backed'
  BY <1>0, <1>1, <1>3, SameRun
     DEF CleanupScratch, Backed, Over, Exists, Built, Hear, HearCleanup, Checked,
        Unchecked, Effect, Finals, Makings, NoSpec
<1> QED
  BY <1>11, <1>12, <1>13, <1>14, <1>15, <1>16, <1>17, <1>18, <1>19, <1>20, <1>21,
     <1>22, <1>23, <1>24, <1>25 DEF IInv, Types

\* Nothing is made by the choice of a name.
LEMMA EnsureUniqueNameStep ==
    ASSUME IInv, EnsureUniqueName
    PROVE  IInv'
<1> USE DEF At, Outside, Goto, Leave, srcVars, ctlVars, memVars, vmVars, faultVars,
   Start
<1>0. /\ TypedRun /\ TypedCtl /\ TypedFaults /\ TypedVm /\ TypedMemory /\ TypedVol
      /\ Frame /\ Untouched /\ Bodies /\ Leftovers /\ Rollback /\ Provision
      /\ Attachment /\ Contents /\ Backed
  BY DEF IInv, Types
<1>1. opt' = opt /\ spec' = spec
  BY DEF EnsureUniqueName
<1>2. /\ Captures /\ Len(spec) \in Nat /\ Len(spec) <= NDisks /\ at \in Nat
      /\ Positions \subseteq Disks
      /\ \A i \in Positions : spec[i].order \in Addr /\ spec[i].disk \in Disks
      /\ pc \in Loops => at \in Positions /\ Order \in Addr /\ at <= Len(spec)
      /\ pc \notin NoSpec \/ known =>
            spec /= << >> /\ BootDisk \in Positions /\ 1 \in Positions
  BY <1>0, Here
<1>3. /\ "create" \in Making /\ Making \subseteq Makings
      /\ {"disk", "copy"} \subseteq Copying /\ Copying \subseteq {"disk", "copy", "rdm"}
      /\ Finals \subseteq Finishing /\ Finishing \subseteq Finals \union {"unrdm", "unscratch2"}
      /\ Freeing \subseteq {"freeRdm", "unscratch3"}
      /\ opt.dst /= "vsphere" =>
            Copying = {"disk", "copy"} /\ Finishing = Finals /\ Freeing = {}
      /\ opt.dst \in Platforms
  BY <1>0, AnyForm DEF TypedRun
<1>11. TypedRun'
  BY <1>0, <1>1
     DEF EnsureUniqueName, TypedRun
<1>12. TypedCtl'
  BY <1>0, <1>1, PartsAssumption DEF TypedCtl, Disks, EnsureUniqueName
<1>13. TypedFaults'
  BY <1>0, <1>1, Heard
     DEF EnsureUniqueName, TypedFaults
<1>14. TypedVm'
  BY <1>0, <1>1
     DEF EnsureUniqueName, TypedVm, Hear, HearCleanup, Checked, Unchecked, Effect
<1>15. TypedMemory'
  BY <1>0, <1>1
     DEF EnsureUniqueName, TypedMemory, Hear, HearCleanup, Checked, Unchecked,
        Effect
<1>16. TypedVol'
  BY <1>0, <1>1
     DEF EnsureUniqueName, TypedVol, Hear, HearCleanup, Checked, Unchecked, Effect
<1>17. Frame'
  BY <1>0, <1>1, <1>3, SameRun
     DEF EnsureUniqueName, Frame, Staging, Built, Steps, Whole, Loops, Hear,
        HearCleanup, Checked, Unchecked, Effect, Finals, Makings, NoSpec
<1>18. Untouched'
  BY <1>0, <1>1, <1>3, SameRun
     DEF EnsureUniqueName, Untouched, Staging
<1>19. Bodies'
  <2>1. /\ pc = "name" /\ pc' = "create" /\ ~vm /\ ~known /\ slot = NoDevices /\ rdm = {}
        /\ native = {}
        /\ UNCHANGED <<vm, known, slot, rdm, native, home, noted>>
    BY <1>0 DEF EnsureUniqueName, Untouched, Staging, Frame, Bodies, TypedVm
  <2> QED
    BY <1>0, <1>1, <1>3, <2>1, SameRun DEF Bodies, Built, Finals, Makings
<1>20. Leftovers'
  BY <1>0, <1>1, <1>3, SameRun
     DEF EnsureUniqueName, Leftovers, Staging, Frame, Built, Hear, HearCleanup,
        Checked, Unchecked, Effect, Finals, Makings, NoSpec
<1>21. Rollback'
  <2>1. ~vm' /\ (\A v \in Vols : ~Exists(v)') /\ rdm' = {}
    BY <1>0 DEF Untouched, Staging, Bodies, Frame, Exists, EnsureUniqueName
  <2> QED
    BY <2>1, NothingYet
<1>22. Provision'
  <2>1. Recalled(memory', spec', at' - 1)
    BY DEF EnsureUniqueName, Recalled
  <2> QED
    BY <1>3, <2>1, SameRun, <1>1 DEF EnsureUniqueName, Provision, Built, Finals
<1>23. Attachment'
  BY <1>0, <1>1, <1>3, SameRun
     DEF EnsureUniqueName, Attachment, Good, Built, Hear, HearCleanup, Checked,
        Unchecked, Effect, Finals, Makings, NoSpec
<1>24. Contents'
  BY <1>0, <1>1, <1>3, SameRun
     DEF EnsureUniqueName, Contents, Good, Built, Hear, HearCleanup, Checked,
        Unchecked, Effect, Finals, Makings, NoSpec
<1>25. Backed'
  BY <1>0, <1>1, <1>3, SameRun
     DEF EnsureUniqueName, Backed, Over, Exists, Built, Hear, HearCleanup, Checked,
        Unchecked, Effect, Finals, Makings, NoSpec
<1> QED
  BY <1>11, <1>12, <1>13, <1>14, <1>15, <1>16, <1>17, <1>18, <1>19, <1>20, <1>21,
     <1>22, <1>23, <1>24, <1>25 DEF IInv, Types

\* The volume handed back for the disk has the disk's content, and the loop goes on.
LEMMA CopyVolumeStep ==
    ASSUME IInv, CopyVolume
    PROVE  IInv'
<1> USE DEF At, Outside, Goto, Leave, srcVars, ctlVars, memVars, vmVars, faultVars
<1>0. /\ TypedRun /\ TypedCtl /\ TypedFaults /\ TypedVm /\ TypedMemory /\ TypedVol
      /\ Frame /\ Untouched /\ Bodies /\ Leftovers /\ Rollback /\ Provision
      /\ Attachment /\ Contents /\ Backed
  BY DEF IInv, Types
<1>1. opt' = opt /\ spec' = spec
  BY DEF CopyVolume
<1>2. /\ Captures /\ Len(spec) \in Nat /\ Len(spec) <= NDisks /\ at \in Nat
      /\ Positions \subseteq Disks
      /\ \A i \in Positions : spec[i].order \in Addr /\ spec[i].disk \in Disks
      /\ pc \in Loops => at \in Positions /\ Order \in Addr /\ at <= Len(spec)
      /\ pc \notin NoSpec \/ known =>
            spec /= << >> /\ BootDisk \in Positions /\ 1 \in Positions
  BY <1>0, Here
<1>3. /\ "create" \in Making /\ Making \subseteq Makings
      /\ {"disk", "copy"} \subseteq Copying /\ Copying \subseteq {"disk", "copy", "rdm"}
      /\ Finals \subseteq Finishing /\ Finishing \subseteq Finals \union {"unrdm", "unscratch2"}
      /\ Freeing \subseteq {"freeRdm", "unscratch3"}
      /\ opt.dst /= "vsphere" =>
            Copying = {"disk", "copy"} /\ Finishing = Finals /\ Freeing = {}
      /\ opt.dst \in Platforms
  BY <1>0, AnyForm DEF TypedRun
<1>4. PICK a \in Checked :
         /\ Hear(a, Checked)
         /\ vol' = IF Effect(a) THEN [vol EXCEPT ![dest[at]] = spec[at].disk] ELSE vol
         /\ IF a = "ok" THEN Loop("disk", "finalize") ELSE Goto("undo")
  BY DEF CopyVolume
<1>5. /\ UNCHANGED <<vm, known, slot, rdm, native, home, memory, noted, boots, dest, extra>>
      /\ pc = "copy" /\ (~missed' => ~missed) /\ (Good' => Good)
      /\ at \in Positions /\ spec[at].disk \in Disks /\ known /\ vm
  BY <1>0, <1>1, <1>2, <1>3, SameSpec
     DEF CopyVolume, TypedFaults, Good, Hear, Loops, Frame, Bodies, Built
<1>6. /\ TypedCtl'
      /\ \/ a = "ok" /\ at < Len(spec) /\ at' = at + 1 /\ at' <= Len(spec) /\ pc' = "disk"
         \/ a = "ok" /\ ~(at < Len(spec)) /\ at' = 1 /\ pc' = "finalize"
         \/ a /= "ok" /\ at' = at /\ pc' = "undo"
  <2>1. CASE a = "ok"
    BY <1>0, <1>2, <1>4, <2>1, Looped
  <2>2. CASE a /= "ok"
    BY <1>0, <1>4, <2>2 DEF TypedCtl
  <2> QED
    BY <2>1, <2>2
<1>7. ~missed => \A v \in Vols : Exists(v)' <=> Exists(v)
  <2>1. spec[at].disk /= Absent
    BY <1>5, Numbers
  <2>2. ~missed => vol[dest[at]] /= Absent
    BY <1>0, <1>5 DEF Backed, Exists
  <2>3. \A v \in Vols : v /= dest[at] => vol'[v] = vol[v]
    BY <1>0, <1>4 DEF TypedVol
  <2>4. dest[at] \in Vols => vol'[dest[at]] \in {vol[dest[at]], spec[at].disk}
    BY <1>0, <1>4 DEF TypedVol
  <2> QED
    BY <2>1, <2>2, <2>3, <2>4 DEF Exists
<1>11. TypedRun'
  BY <1>0, <1>1
     DEF CopyVolume, TypedRun
<1>12. TypedCtl'
  BY <1>6
<1>13. TypedFaults'
  BY <1>0, <1>1, Heard
     DEF CopyVolume, TypedFaults
<1>14. TypedVm'
  BY <1>0, <1>1
     DEF CopyVolume, TypedVm, Hear, HearCleanup, Checked, Unchecked, Effect
<1>15. TypedMemory'
  BY <1>0, <1>1
     DEF CopyVolume, TypedMemory, Hear, HearCleanup, Checked, Unchecked, Effect
<1>16. TypedVol'
  BY <1>0, <1>4, <1>5, Numbers DEF TypedVol
<1>17. Frame'
  <2>1. /\ Len(dest) = at /\ at \in Nat /\ Len(spec) \in Nat /\ spec /= << >>
        /\ at <= Len(spec) /\ ("recorded" \in extra' <=> "recorded" \in extra)
    BY <1>0, <1>2, <1>3, <1>5 DEF Frame, Loops, NoSpec
  <2> QED
    BY <1>1, <1>3, <1>5, <1>6, <2>1, SameRun
       DEF Frame, Staging, Built, Steps, Whole, Loops, Finals, Makings
<1>18. Untouched'
  BY <1>6 DEF Untouched, Staging
<1>19. Bodies'
  BY <1>0, <1>1, <1>3, <1>5, <1>6, SameRun DEF Bodies, Built, Finals, Makings
<1>20. Leftovers'
  BY <1>0, <1>1, <1>3, <1>5, <1>6, SameRun DEF Leftovers, Built, Staging, Finals, Makings
<1>21. Rollback'
  <2> SUFFICES ASSUME ~missed' PROVE Rollback'
    BY DEF Rollback
  <2>1. ~Over /\ ~Over' /\ pc \notin Freeing /\ pc' \notin Freeing
    BY <1>3, <1>5, <1>6 DEF Over
  <2>2. Standing /\ (\A v \in Vols : Exists(v)' <=> Exists(v)) /\ ~missed
    BY <1>0, <1>5, <1>7, <2>1 DEF Rollback
  <2>3. opt.dst = "vsphere" => VolsOfVsphere'
    <3>1. rdm \subseteq Vols
      BY <1>0, Numbers DEF TypedVm
    <3> QED
      BY <1>1, <1>5, <1>6, <2>1, <2>2, <3>1, SameSlot, SameRun DEF Standing, VolsOfVsphere
  <2>4. Standing'
    BY <1>1, <1>5, <2>2, <2>3, SameSlot, SameSpec DEF Standing
  <2>5. Disowned'
    BY <1>5 DEF Disowned
  <2> QED
    BY <2>1, <2>4, <2>5 DEF Rollback
<1>22. Provision'
  BY <1>0, <1>1, <1>3, <1>5, <1>6, ProvisionStays DEF Built, Finals, Makings
<1>23. Attachment'
  <2> SUFFICES ASSUME Good', pc' \in Built' PROVE Attachment'
    BY DEF Attachment
  <2>1. Attachment /\ Good /\ pc \in Built /\ pc \in Copying /\ Len(dest) = at /\ ~missed
    BY <1>0, <1>3, <1>5 DEF Built, Frame, Good
  <2>2. \A v \in Vols : Exists(v)' =>
           v \in Positions' \/ (v = Scratch /\ noted' /\ opt'.dst = "vsphere")
    BY <1>1, <1>5, <1>7, <2>1, SameSpec DEF Attachment
  <2>3. ~OnDemand \/ ByOrder(slot, spec, Len(dest))
    BY <2>1 DEF Attachment
  <2>4. opt.dst = "vsphere" /\ ~opt.vvol => slot = NoDevices
    BY <2>1 DEF Attachment
  <2>5. pc' \in {"disk", "finalize"} /\ (pc' = "finalize" => at' = 1)
    BY <1>3, <1>6, SameRun, <1>1 DEF Built, Finals
  <2>6. ByOrder(NoDevices, spec, 1 - 1)
    BY NoneByOrder
  <2>7. pc' \notin Finishing' \ {"finalize"}
    BY <1>1, <1>3, <2>5, SameRun DEF Finals
  <2>8. OnDemand' => ByOrder(slot', spec', Len(dest'))
    BY <1>1, <1>5, <2>3, SameRun
  <2>9. opt'.dst = "vsphere" /\ ~opt'.vvol =>
           slot' = NoDevices /\ (pc' = "finalize" => ByOrder(slot', spec', at' - 1))
    BY <1>1, <1>5, <2>4, <2>5, <2>6
  <2> QED
    BY <2>2, <2>5, <2>7, <2>8, <2>9 DEF Attachment
<1>24. Contents'
  <2> SUFFICES ASSUME Good', pc' \in Built' PROVE Contents'
    BY DEF Contents
  <2>1. Contents /\ Good /\ pc \in Built /\ pc \in Copying /\ Len(dest) = at
    BY <1>0, <1>3, <1>5 DEF Built, Frame, Good
  <2>2. /\ \A i \in 1..at : dest[i] = i /\ (i \in native \/ vol[i] = spec[i].disk \/ i = at)
        /\ native = {}
    BY <2>1 DEF Contents
  <2>3. a = "ok" /\ pc' /= "copy"
    BY <1>1, <1>3, <1>6, SameRun DEF Built, Finals
  <2>4. at \in 1..at /\ dest[at] = at /\ at \in Vols
    BY <1>2, <1>5, <2>2, Numbers DEF Positions
  <2>5. vol' = [vol EXCEPT ![at] = spec[at].disk]
    BY <1>4, <2>3, <2>4 DEF Effect
  <2>6. \A i \in 1..at : vol'[i] = spec[i].disk
    BY <1>0, <2>2, <2>4, <2>5 DEF TypedVol
  <2> QED
    BY <1>1, <1>5, <2>1, <2>2, <2>3, <2>6 DEF Contents
<1>25. Backed'
  <2> SUFFICES ASSUME ~missed' PROVE Backed'
    BY DEF Backed
  <2>1. ~missed /\ ~Over /\ pc \in Built
    BY <1>3, <1>5 DEF Over, Built
  <2>2. \A o \in Addr : memory[o] \in {0} \union Vols
    BY <1>0, Numbers DEF TypedMemory
  <2>3. Provisioned => \A o \in Addr : memory[o] /= 0 => vol'[memory[o]] /= Absent
    BY <1>0, <1>5, <1>7, <2>1, <2>2 DEF Backed, Exists
  <2>5. pc' \in {"disk", "finalize", "undo"}
    BY <1>6
  <2>6. Provisioned' => \A o \in Addr : memory'[o] /= 0 => vol'[memory'[o]] /= Absent
    BY <1>1, <1>5, <2>3, SameRun
  <2>7. opt'.dst = "vsphere" /\ opt'.vvol /\ pc' \in Built' =>
           /\ rdm' = {} /\ pc' \notin {"unrdm", "unscratch2", "rdm"}
           /\ \A i \in Addr : slot'[i] = IF i < Len(dest') THEN i + 1 ELSE 0
    BY <1>0, <1>1, <1>5, <2>1, <2>5 DEF Backed
  <2> QED
    BY <2>5, <2>6, <2>7 DEF Backed, Exists
<1> QED
  BY <1>11, <1>12, <1>13, <1>14, <1>15, <1>16, <1>17, <1>18, <1>19, <1>20, <1>21,
     <1>22, <1>23, <1>24, <1>25 DEF IInv, Types

\* Destinations whose devices are made with their disks have nothing left to attach.
LEMMA NoFinalizeStep ==
    ASSUME IInv, NoFinalize
    PROVE  IInv'
<1> USE DEF At, Outside, Goto, Leave, srcVars, ctlVars, memVars, vmVars, faultVars
<1>0. /\ TypedRun /\ TypedCtl /\ TypedFaults /\ TypedVm /\ TypedMemory /\ TypedVol
      /\ Frame /\ Untouched /\ Bodies /\ Leftovers /\ Rollback /\ Provision
      /\ Attachment /\ Contents /\ Backed
  BY DEF IInv, Types
<1>1. opt' = opt /\ spec' = spec
  BY DEF NoFinalize
<1>2. /\ Captures /\ Len(spec) \in Nat /\ Len(spec) <= NDisks /\ at \in Nat
      /\ Positions \subseteq Disks
      /\ \A i \in Positions : spec[i].order \in Addr /\ spec[i].disk \in Disks
      /\ pc \in Loops => at \in Positions /\ Order \in Addr /\ at <= Len(spec)
      /\ pc \notin NoSpec \/ known =>
            spec /= << >> /\ BootDisk \in Positions /\ 1 \in Positions
  BY <1>0, Here
<1>3. /\ "create" \in Making /\ Making \subseteq Makings
      /\ {"disk", "copy"} \subseteq Copying /\ Copying \subseteq {"disk", "copy", "rdm"}
      /\ Finals \subseteq Finishing /\ Finishing \subseteq Finals \union {"unrdm", "unscratch2"}
      /\ Freeing \subseteq {"freeRdm", "unscratch3"}
      /\ opt.dst /= "vsphere" =>
            Copying = {"disk", "copy"} /\ Finishing = Finals /\ Freeing = {}
      /\ opt.dst \in Platforms
  BY <1>0, AnyForm DEF TypedRun
<1>4. /\ UNCHANGED <<vm, known, slot, vol, rdm, native, home, memory, noted, boots, dest, extra>>
      /\ pc = "finalize" /\ pc' \in {"convert"} /\ (~missed' => ~missed) /\ (Good' => Good)
  BY <1>0, <1>1, SameSpec DEF NoFinalize, TypedFaults, Good
<1>5. Attachment' /\ Contents'
  <2>1. Good' => pc \in Finishing /\ pc' \in Finishing /\ rdm = {} /\ opt.dst /= "vsphere"
    BY <1>0, <1>3, <1>4 DEF Finals, Bodies, NoFinalize
  <2>2. CASE Good'
    BY <1>0, <1>1, <1>4, <2>1, <2>2, StaysBuilt DEF TypedVm
  <2>3. CASE ~Good'
    BY <2>3 DEF Attachment, Contents
  <2> QED
    BY <2>2, <2>3
<1>11. TypedRun'
  BY <1>0, <1>1
     DEF NoFinalize, TypedRun
<1>12. TypedCtl'
  BY <1>0, <1>1, PartsAssumption
     DEF NoFinalize, TypedCtl
<1>13. TypedFaults'
  BY <1>0, <1>1, Heard
     DEF NoFinalize, TypedFaults
<1>14. TypedVm'
  BY <1>0, <1>1
     DEF NoFinalize, TypedVm, Hear, HearCleanup, Checked, Unchecked, Effect
<1>15. TypedMemory'
  BY <1>0, <1>1
     DEF NoFinalize, TypedMemory, Hear, HearCleanup, Checked, Unchecked, Effect
<1>16. TypedVol'
  BY <1>0, <1>1
     DEF NoFinalize, TypedVol, Hear, HearCleanup, Checked, Unchecked, Effect
<1>17. Frame'
  BY <1>0, <1>1, <1>3, SameRun
     DEF NoFinalize, Frame, Staging, Built, Steps, Whole, Loops, Hear, HearCleanup,
        Checked, Unchecked, Effect, Finals, Makings, NoSpec
<1>18. Untouched'
  BY <1>0, <1>1, <1>3, SameRun
     DEF NoFinalize, Untouched, Staging
<1>19. Bodies'
  BY <1>0, <1>1, <1>3, SameRun
     DEF NoFinalize, Bodies, Staging, Frame, Built, Hear, HearCleanup, Checked,
        Unchecked, Effect, Finals, Makings, NoSpec
<1>20. Leftovers'
  BY <1>0, <1>1, <1>3, SameRun
     DEF NoFinalize, Leftovers, Staging, Frame, Built, Hear, HearCleanup, Checked,
        Unchecked, Effect, Finals, Makings, NoSpec
<1>21. Rollback'
  BY <1>0, <1>1, <1>3, <1>4, StandsStill DEF Over, Frame, Built, Finals
<1>22. Provision'
  BY <1>0, <1>1, <1>3, <1>4, ProvisionStays DEF Built, Finals, Makings
<1>23. Attachment'
  BY <1>5
<1>24. Contents'
  BY <1>5
<1>25. Backed'
  BY <1>0, <1>1, <1>3, SameRun
     DEF NoFinalize, Backed, Over, Exists, Built, Hear, HearCleanup, Checked,
        Unchecked, Effect, Finals, Makings, NoSpec
<1> QED
  BY <1>11, <1>12, <1>13, <1>14, <1>15, <1>16, <1>17, <1>18, <1>19, <1>20, <1>21,
     <1>22, <1>23, <1>24, <1>25 DEF IInv, Types

\* Without a conversion the devices stay on their volumes.
LEMMA NoConversionStep ==
    ASSUME IInv, NoConversion
    PROVE  IInv'
<1> USE DEF At, Outside, Goto, Leave, srcVars, ctlVars, memVars, vmVars, faultVars
<1>0. /\ TypedRun /\ TypedCtl /\ TypedFaults /\ TypedVm /\ TypedMemory /\ TypedVol
      /\ Frame /\ Untouched /\ Bodies /\ Leftovers /\ Rollback /\ Provision
      /\ Attachment /\ Contents /\ Backed
  BY DEF IInv, Types
<1>1. opt' = opt /\ spec' = spec
  BY DEF NoConversion
<1>2. /\ Captures /\ Len(spec) \in Nat /\ Len(spec) <= NDisks /\ at \in Nat
      /\ Positions \subseteq Disks
      /\ \A i \in Positions : spec[i].order \in Addr /\ spec[i].disk \in Disks
      /\ pc \in Loops => at \in Positions /\ Order \in Addr /\ at <= Len(spec)
      /\ pc \notin NoSpec \/ known =>
            spec /= << >> /\ BootDisk \in Positions /\ 1 \in Positions
  BY <1>0, Here
<1>3. /\ "create" \in Making /\ Making \subseteq Makings
      /\ {"disk", "copy"} \subseteq Copying /\ Copying \subseteq {"disk", "copy", "rdm"}
      /\ Finals \subseteq Finishing /\ Finishing \subseteq Finals \union {"unrdm", "unscratch2"}
      /\ Freeing \subseteq {"freeRdm", "unscratch3"}
      /\ opt.dst /= "vsphere" =>
            Copying = {"disk", "copy"} /\ Finishing = Finals /\ Freeing = {}
      /\ opt.dst \in Platforms
  BY <1>0, AnyForm DEF TypedRun
<1>4. /\ UNCHANGED <<vm, known, slot, vol, rdm, native, home, memory, noted, boots, dest, extra>>
      /\ pc = "convert" /\ pc' \in {"boot"} /\ (~missed' => ~missed) /\ (Good' => Good)
  BY <1>0, <1>1, SameSpec DEF NoConversion, TypedFaults, Good
<1>5. Attachment' /\ Contents'
  <2>1. CASE pc' = "undo" \/ ~Good'
    BY <1>1, <1>3, <2>1, SameRun DEF Attachment, Contents, Built, Finals
  <2>2. CASE pc' /= "undo" /\ Good'
    <3>1. rdm = {} \/ opt.dst = "vsphere"
      BY <1>0 DEF Bodies
    <3>2. pc \in Finishing /\ pc' \in Finishing /\ Good /\ pc \in Built
      BY <1>3, <1>4, <2>2 DEF Finals, Built
    <3>3. CASE opt.dst /= "vsphere"
      BY <1>0, <1>1, <1>4, <2>2, <3>1, <3>2, <3>3, StaysBuilt DEF TypedVm
    <3>4. CASE opt.dst = "vsphere"
      <4>1. ~noted
        BY <1>0, <3>4 DEF NoConversion, Bodies
      <4> QED
        BY <1>0, <1>1, <1>4, <2>2, <3>2, <3>4, <4>1, StaysUp DEF TypedMemory, Exists
    <3> QED
      BY <3>3, <3>4
  <2> QED
    BY <2>1, <2>2
<1>11. TypedRun'
  BY <1>0, <1>1
     DEF NoConversion, TypedRun
<1>12. TypedCtl'
  BY <1>0, <1>1, PartsAssumption
     DEF NoConversion, TypedCtl
<1>13. TypedFaults'
  BY <1>0, <1>1, Heard
     DEF NoConversion, TypedFaults
<1>14. TypedVm'
  BY <1>0, <1>1
     DEF NoConversion, TypedVm, Hear, HearCleanup, Checked, Unchecked, Effect
<1>15. TypedMemory'
  BY <1>0, <1>1
     DEF NoConversion, TypedMemory, Hear, HearCleanup, Checked, Unchecked, Effect
<1>16. TypedVol'
  BY <1>0, <1>1
     DEF NoConversion, TypedVol, Hear, HearCleanup, Checked, Unchecked, Effect
<1>17. Frame'
  BY <1>0, <1>1, <1>3, SameRun
     DEF NoConversion, Frame, Staging, Built, Steps, Whole, Loops, Hear,
        HearCleanup, Checked, Unchecked, Effect, Finals, Makings, NoSpec
<1>18. Untouched'
  BY <1>0, <1>1, <1>3, SameRun
     DEF NoConversion, Untouched, Staging
<1>19. Bodies'
  BY <1>0, <1>1, <1>3, SameRun
     DEF NoConversion, Bodies, Staging, Frame, Built, Hear, HearCleanup, Checked,
        Unchecked, Effect, Finals, Makings, NoSpec
<1>20. Leftovers'
  BY <1>0, <1>1, <1>3, SameRun
     DEF NoConversion, Leftovers, Staging, Frame, Built, Hear, HearCleanup,
        Checked, Unchecked, Effect, Finals, Makings, NoSpec
<1>21. Rollback'
  BY <1>0, <1>1, <1>3, <1>4, StandsStill DEF Over, Frame, Built, Finals
<1>22. Provision'
  BY <1>0, <1>1, <1>3, <1>4, ProvisionStays DEF Built, Finals, Makings
<1>23. Attachment'
  BY <1>5
<1>24. Contents'
  BY <1>5
<1>25. Backed'
  BY <1>0, <1>1, <1>3, SameRun
     DEF NoConversion, Backed, Over, Exists, Built, Hear, HearCleanup, Checked,
        Unchecked, Effect, Finals, Makings, NoSpec
<1> QED
  BY <1>11, <1>12, <1>13, <1>14, <1>15, <1>16, <1>17, <1>18, <1>19, <1>20, <1>21,
     <1>22, <1>23, <1>24, <1>25 DEF IInv, Types

\* Starting the VM changes none of its devices.
LEMMA PowerOnStep ==
    ASSUME IInv, PowerOn
    PROVE  IInv'
<1> USE DEF At, Outside, Goto, Leave, srcVars, ctlVars, memVars, vmVars, faultVars,
   GoOn
<1>0. /\ TypedRun /\ TypedCtl /\ TypedFaults /\ TypedVm /\ TypedMemory /\ TypedVol
      /\ Frame /\ Untouched /\ Bodies /\ Leftovers /\ Rollback /\ Provision
      /\ Attachment /\ Contents /\ Backed
  BY DEF IInv, Types
<1>1. opt' = opt /\ spec' = spec
  BY DEF PowerOn
<1>2. /\ Captures /\ Len(spec) \in Nat /\ Len(spec) <= NDisks /\ at \in Nat
      /\ Positions \subseteq Disks
      /\ \A i \in Positions : spec[i].order \in Addr /\ spec[i].disk \in Disks
      /\ pc \in Loops => at \in Positions /\ Order \in Addr /\ at <= Len(spec)
      /\ pc \notin NoSpec \/ known =>
            spec /= << >> /\ BootDisk \in Positions /\ 1 \in Positions
  BY <1>0, Here
<1>3. /\ "create" \in Making /\ Making \subseteq Makings
      /\ {"disk", "copy"} \subseteq Copying /\ Copying \subseteq {"disk", "copy", "rdm"}
      /\ Finals \subseteq Finishing /\ Finishing \subseteq Finals \union {"unrdm", "unscratch2"}
      /\ Freeing \subseteq {"freeRdm", "unscratch3"}
      /\ opt.dst /= "vsphere" =>
            Copying = {"disk", "copy"} /\ Finishing = Finals /\ Freeing = {}
      /\ opt.dst \in Platforms
  BY <1>0, AnyForm DEF TypedRun
<1>4. /\ UNCHANGED <<vm, known, slot, vol, rdm, native, home, memory, noted, boots, dest, extra>>
      /\ pc = "power" /\ pc' \in {"remove", "tidy", "undo"} /\ (~missed' => ~missed)
      /\ (Good' => Good)
  BY <1>0, <1>1, SameSpec DEF PowerOn, TypedFaults, Good, Hear
<1>5. Attachment' /\ Contents'
  <2>1. CASE pc' = "undo" \/ ~Good'
    BY <1>1, <1>3, <2>1, SameRun DEF Attachment, Contents, Built, Finals
  <2>2. CASE pc' /= "undo" /\ Good'
    <3>1. rdm = {} \/ opt.dst = "vsphere"
      BY <1>0 DEF Bodies
    <3>2. pc \in Finishing /\ pc' \in Finishing /\ Good /\ pc \in Built
      BY <1>3, <1>4, <2>2 DEF Finals, Built
    <3>3. CASE opt.dst /= "vsphere"
      BY <1>0, <1>1, <1>4, <2>2, <3>1, <3>2, <3>3, StaysBuilt DEF TypedVm
    <3>4. CASE opt.dst = "vsphere"
      <4>1. ~noted
        BY <1>0, <1>1, <1>4, <3>2, <3>4 DEF Attachment, Bodies
      <4> QED
        BY <1>0, <1>1, <1>4, <2>2, <3>2, <3>4, <4>1, StaysUp DEF TypedMemory, Exists
    <3> QED
      BY <3>3, <3>4
  <2> QED
    BY <2>1, <2>2
<1>11. TypedRun'
  BY <1>0, <1>1
     DEF PowerOn, TypedRun
<1>12. TypedCtl'
  BY <1>0, <1>1, PartsAssumption
     DEF PowerOn, TypedCtl
<1>13. TypedFaults'
  BY <1>0, <1>1, Heard
     DEF PowerOn, TypedFaults
<1>14. TypedVm'
  BY <1>0, <1>1
     DEF PowerOn, TypedVm, Hear, HearCleanup, Checked, Unchecked, Effect
<1>15. TypedMemory'
  BY <1>0, <1>1
     DEF PowerOn, TypedMemory, Hear, HearCleanup, Checked, Unchecked, Effect
<1>16. TypedVol'
  BY <1>0, <1>1
     DEF PowerOn, TypedVol, Hear, HearCleanup, Checked, Unchecked, Effect
<1>17. Frame'
  BY <1>0, <1>1, <1>3, SameRun
     DEF PowerOn, Frame, Staging, Built, Steps, Whole, Loops, Hear, HearCleanup,
        Checked, Unchecked, Effect, Finals, Makings, NoSpec
<1>18. Untouched'
  BY <1>0, <1>1, <1>3, SameRun
     DEF PowerOn, Untouched, Staging
<1>19. Bodies'
  BY <1>0, <1>1, <1>3, SameRun
     DEF PowerOn, Bodies, Staging, Frame, Built, Hear, HearCleanup, Checked,
        Unchecked, Effect, Finals, Makings, NoSpec
<1>20. Leftovers'
  BY <1>0, <1>1, <1>3, SameRun
     DEF PowerOn, Leftovers, Staging, Frame, Built, Hear, HearCleanup, Checked,
        Unchecked, Effect, Finals, Makings, NoSpec
<1>21. Rollback'
  BY <1>0, <1>1, <1>3, <1>4, StandsStill DEF Over, Frame, Built, Finals
<1>22. Provision'
  BY <1>0, <1>1, <1>3, <1>4, ProvisionStays DEF Built, Finals, Makings
<1>23. Attachment'
  BY <1>5
<1>24. Contents'
  BY <1>5
<1>25. Backed'
  BY <1>0, <1>1, <1>3, SameRun
     DEF PowerOn, Backed, Over, Exists, Built, Hear, HearCleanup, Checked,
        Unchecked, Effect, Finals, Makings, NoSpec
<1> QED
  BY <1>11, <1>12, <1>13, <1>14, <1>15, <1>16, <1>17, <1>18, <1>19, <1>20, <1>21,
     <1>22, <1>23, <1>24, <1>25 DEF IInv, Types

\* The source goes; the destination is complete by now.
LEMMA RemoveSourceStep ==
    ASSUME IInv, RemoveSource
    PROVE  IInv'
<1> USE DEF At, Outside, Goto, Leave, srcVars, ctlVars, memVars, vmVars, faultVars
<1>0. /\ TypedRun /\ TypedCtl /\ TypedFaults /\ TypedVm /\ TypedMemory /\ TypedVol
      /\ Frame /\ Untouched /\ Bodies /\ Leftovers /\ Rollback /\ Provision
      /\ Attachment /\ Contents /\ Backed
  BY DEF IInv, Types
<1>1. opt' = opt /\ spec' = spec
  BY DEF RemoveSource
<1>2. /\ Captures /\ Len(spec) \in Nat /\ Len(spec) <= NDisks /\ at \in Nat
      /\ Positions \subseteq Disks
      /\ \A i \in Positions : spec[i].order \in Addr /\ spec[i].disk \in Disks
      /\ pc \in Loops => at \in Positions /\ Order \in Addr /\ at <= Len(spec)
      /\ pc \notin NoSpec \/ known =>
            spec /= << >> /\ BootDisk \in Positions /\ 1 \in Positions
  BY <1>0, Here
<1>3. /\ "create" \in Making /\ Making \subseteq Makings
      /\ {"disk", "copy"} \subseteq Copying /\ Copying \subseteq {"disk", "copy", "rdm"}
      /\ Finals \subseteq Finishing /\ Finishing \subseteq Finals \union {"unrdm", "unscratch2"}
      /\ Freeing \subseteq {"freeRdm", "unscratch3"}
      /\ opt.dst /= "vsphere" =>
            Copying = {"disk", "copy"} /\ Finishing = Finals /\ Freeing = {}
      /\ opt.dst \in Platforms
  BY <1>0, AnyForm DEF TypedRun
<1>4. /\ UNCHANGED <<vm, known, slot, vol, rdm, native, home, memory, noted, boots, dest, extra>>
      /\ pc = "remove" /\ pc' \in {"tidy"} /\ (~missed' => ~missed) /\ (Good' => Good)
  BY <1>0, <1>1, SameSpec DEF RemoveSource, TypedFaults, Good, Hear
<1>5. Attachment' /\ Contents'
  <2>1. CASE pc' = "undo" \/ ~Good'
    BY <1>1, <1>3, <2>1, SameRun DEF Attachment, Contents, Built, Finals
  <2>2. CASE pc' /= "undo" /\ Good'
    <3>1. rdm = {} \/ opt.dst = "vsphere"
      BY <1>0 DEF Bodies
    <3>2. pc \in Finishing /\ pc' \in Finishing /\ Good /\ pc \in Built
      BY <1>3, <1>4, <2>2 DEF Finals, Built
    <3>3. CASE opt.dst /= "vsphere"
      BY <1>0, <1>1, <1>4, <2>2, <3>1, <3>2, <3>3, StaysBuilt DEF TypedVm
    <3>4. CASE opt.dst = "vsphere"
      <4>1. ~noted
        BY <1>0, <1>1, <1>4, <3>2, <3>4 DEF Attachment, Bodies
      <4> QED
        BY <1>0, <1>1, <1>4, <2>2, <3>2, <3>4, <4>1, StaysUp DEF TypedMemory, Exists
    <3> QED
      BY <3>3, <3>4
  <2> QED
    BY <2>1, <2>2
<1>11. TypedRun'
  BY <1>0, <1>1
     DEF RemoveSource, TypedRun
<1>12. TypedCtl'
  BY <1>0, <1>1, PartsAssumption
     DEF RemoveSource, TypedCtl
<1>13. TypedFaults'
  BY <1>0, <1>1, Heard
     DEF RemoveSource, TypedFaults
<1>14. TypedVm'
  BY <1>0, <1>1
     DEF RemoveSource, TypedVm, Hear, HearCleanup, Checked, Unchecked, Effect
<1>15. TypedMemory'
  BY <1>0, <1>1
     DEF RemoveSource, TypedMemory, Hear, HearCleanup, Checked, Unchecked, Effect
<1>16. TypedVol'
  BY <1>0, <1>1
     DEF RemoveSource, TypedVol, Hear, HearCleanup, Checked, Unchecked, Effect
<1>17. Frame'
  BY <1>0, <1>1, <1>3, SameRun
     DEF RemoveSource, Frame, Staging, Built, Steps, Whole, Loops, Hear,
        HearCleanup, Checked, Unchecked, Effect, Finals, Makings, NoSpec
<1>18. Untouched'
  BY <1>0, <1>1, <1>3, SameRun
     DEF RemoveSource, Untouched, Staging
<1>19. Bodies'
  BY <1>0, <1>1, <1>3, SameRun
     DEF RemoveSource, Bodies, Staging, Frame, Built, Hear, HearCleanup, Checked,
        Unchecked, Effect, Finals, Makings, NoSpec
<1>20. Leftovers'
  BY <1>0, <1>1, <1>3, SameRun
     DEF RemoveSource, Leftovers, Staging, Frame, Built, Hear, HearCleanup,
        Checked, Unchecked, Effect, Finals, Makings, NoSpec
<1>21. Rollback'
  BY <1>0, <1>1, <1>3, <1>4, StandsStill DEF Over, Frame, Built, Finals
<1>22. Provision'
  BY <1>0, <1>1, <1>3, <1>4, ProvisionStays DEF Built, Finals, Makings
<1>23. Attachment'
  BY <1>5
<1>24. Contents'
  BY <1>5
<1>25. Backed'
  BY <1>0, <1>1, <1>3, SameRun
     DEF RemoveSource, Backed, Over, Exists, Built, Hear, HearCleanup, Checked,
        Unchecked, Effect, Finals, Makings, NoSpec
<1> QED
  BY <1>11, <1>12, <1>13, <1>14, <1>15, <1>16, <1>17, <1>18, <1>19, <1>20, <1>21,
     <1>22, <1>23, <1>24, <1>25 DEF IInv, Types

\* A VM the service knows is torn down; without one nothing but a known leak is there.
LEMMA UndoStep ==
    ASSUME IInv, Undo
    PROVE  IInv'
<1> USE DEF At, Outside, Goto, Leave, srcVars, ctlVars, memVars, vmVars, faultVars
<1>0. /\ TypedRun /\ TypedCtl /\ TypedFaults /\ TypedVm /\ TypedMemory /\ TypedVol
      /\ Frame /\ Untouched /\ Bodies /\ Leftovers /\ Rollback /\ Provision
      /\ Attachment /\ Contents /\ Backed
  BY DEF IInv, Types
<1>1. opt' = opt /\ spec' = spec
  BY DEF Undo
<1>2. /\ Captures /\ Len(spec) \in Nat /\ Len(spec) <= NDisks /\ at \in Nat
      /\ Positions \subseteq Disks
      /\ \A i \in Positions : spec[i].order \in Addr /\ spec[i].disk \in Disks
      /\ pc \in Loops => at \in Positions /\ Order \in Addr /\ at <= Len(spec)
      /\ pc \notin NoSpec \/ known =>
            spec /= << >> /\ BootDisk \in Positions /\ 1 \in Positions
  BY <1>0, Here
<1>3. /\ "create" \in Making /\ Making \subseteq Makings
      /\ {"disk", "copy"} \subseteq Copying /\ Copying \subseteq {"disk", "copy", "rdm"}
      /\ Finals \subseteq Finishing /\ Finishing \subseteq Finals \union {"unrdm", "unscratch2"}
      /\ Freeing \subseteq {"freeRdm", "unscratch3"}
      /\ opt.dst /= "vsphere" =>
            Copying = {"disk", "copy"} /\ Finishing = Finals /\ Freeing = {}
      /\ opt.dst \in Platforms
  BY <1>0, AnyForm DEF TypedRun
<1>4. /\ UNCHANGED <<vm, known, slot, vol, rdm, native, home, memory, noted, boots, dest, extra>>
      /\ pc = "undo" /\ pc' \in {"teardown", "unstage"} /\ (~missed' => ~missed)
      /\ (Good' => Good)
  BY <1>0, <1>1, SameSpec DEF Undo, TypedFaults, Good
<1>11. TypedRun'
  BY <1>0, <1>1
     DEF Undo, TypedRun
<1>12. TypedCtl'
  BY <1>0, <1>1, PartsAssumption
     DEF Undo, TypedCtl
<1>13. TypedFaults'
  BY <1>0, <1>1, Heard
     DEF Undo, TypedFaults
<1>14. TypedVm'
  BY <1>0, <1>1
     DEF Undo, TypedVm, Hear, HearCleanup, Checked, Unchecked, Effect
<1>15. TypedMemory'
  BY <1>0, <1>1
     DEF Undo, TypedMemory, Hear, HearCleanup, Checked, Unchecked, Effect
<1>16. TypedVol'
  BY <1>0, <1>1
     DEF Undo, TypedVol, Hear, HearCleanup, Checked, Unchecked, Effect
<1>17. Frame'
  BY <1>0, <1>1, <1>3, SameRun
     DEF Undo, Frame, Staging, Built, Steps, Whole, Loops, Hear, HearCleanup,
        Checked, Unchecked, Effect, Finals, Makings, NoSpec
<1>18. Untouched'
  BY <1>0, <1>1, <1>3, SameRun
     DEF Undo, Untouched, Staging
<1>19. Bodies'
  BY <1>0, <1>1, <1>3, SameRun
     DEF Undo, Bodies, Staging, Frame, Built, Hear, HearCleanup, Checked,
        Unchecked, Effect, Finals, Makings, NoSpec
<1>20. Leftovers'
  BY <1>0, <1>1, <1>3, SameRun
     DEF Undo, Leftovers, Staging, Frame, Built, Hear, HearCleanup, Checked,
        Unchecked, Effect, Finals, Makings, NoSpec
<1>21. Rollback'
  <2>1. CASE known
    BY <1>0, <1>1, <1>3, <1>4, <2>1, StandsStill DEF Over, Undo
  <2>2. CASE ~known
    BY <1>0, <1>1, <1>4, <2>2, StillOver DEF Over, Undo
  <2> QED
    BY <2>1, <2>2
<1>22. Provision'
  BY <1>0, <1>1, <1>3, SameRun
     DEF Undo, Provision, Good, Built, Hear, HearCleanup, Checked, Unchecked,
        Effect, Finals, Makings, NoSpec
<1>23. Attachment'
  BY <1>0, <1>1, <1>3, SameRun
     DEF Undo, Attachment, Good, Built, Hear, HearCleanup, Checked, Unchecked,
        Effect, Finals, Makings, NoSpec
<1>24. Contents'
  BY <1>0, <1>1, <1>3, SameRun
     DEF Undo, Contents, Good, Built, Hear, HearCleanup, Checked, Unchecked,
        Effect, Finals, Makings, NoSpec
<1>25. Backed'
  BY <1>0, <1>1, <1>3, SameRun
     DEF Undo, Backed, Over, Exists, Built, Hear, HearCleanup, Checked, Unchecked,
        Effect, Finals, Makings, NoSpec
<1> QED
  BY <1>11, <1>12, <1>13, <1>14, <1>15, <1>16, <1>17, <1>18, <1>19, <1>20, <1>21,
     <1>22, <1>23, <1>24, <1>25 DEF IInv, Types

\* Somebody else's VM is none of the run's.
LEMMA NeighbourTakesIdStep ==
    ASSUME IInv, NeighbourTakesId
    PROVE  IInv'
<1> USE DEF At, Outside, Goto, Leave, srcVars, ctlVars, memVars, vmVars, faultVars
<1>0. /\ TypedRun /\ TypedCtl /\ TypedFaults /\ TypedVm /\ TypedMemory /\ TypedVol
      /\ Frame /\ Untouched /\ Bodies /\ Leftovers /\ Rollback /\ Provision
      /\ Attachment /\ Contents /\ Backed
  BY DEF IInv, Types
<1>1. opt.dst = "proxmox" /\ opt' = opt /\ spec' = spec
  BY DEF NeighbourTakesId
<1>2. /\ Captures /\ Len(spec) \in Nat /\ Len(spec) <= NDisks /\ at \in Nat
      /\ Positions \subseteq Disks
      /\ \A i \in Positions : spec[i].order \in Addr /\ spec[i].disk \in Disks
      /\ pc \in Loops => at \in Positions /\ Order \in Addr /\ at <= Len(spec)
      /\ pc \notin NoSpec \/ known =>
            spec /= << >> /\ BootDisk \in Positions /\ 1 \in Positions
  BY <1>0, Here
<1>11. TypedRun'
  BY <1>0, <1>1
     DEF NeighbourTakesId, TypedRun
<1>12. TypedCtl'
  BY <1>0, <1>1, PartsAssumption
     DEF NeighbourTakesId, TypedCtl
<1>13. TypedFaults'
  BY <1>0, PartsAssumption DEF TypedFaults, NeighbourTakesId
<1>14. TypedVm'
  BY <1>0, <1>1
     DEF NeighbourTakesId, TypedVm, Hear, HearCleanup, Checked, Unchecked, Effect
<1>15. TypedMemory'
  BY <1>0, <1>1
     DEF NeighbourTakesId, TypedMemory, Hear, HearCleanup, Checked, Unchecked,
        Effect
<1>16. TypedVol'
  BY <1>0, <1>1
     DEF NeighbourTakesId, TypedVol, Hear, HearCleanup, Checked, Unchecked, Effect
<1>17. Frame'
  BY <1>0, <1>1, ProxmoxForm, SameRun
     DEF NeighbourTakesId, Frame, Staging, Built, Steps, Whole, Loops, Hear,
        HearCleanup, Checked, Unchecked, Effect
<1>18. Untouched'
  BY <1>0, <1>1, ProxmoxForm, SameRun
     DEF NeighbourTakesId, Untouched, Staging
<1>19. Bodies'
  BY <1>0, <1>1, ProxmoxForm, SameRun
     DEF NeighbourTakesId, Bodies, Staging, Frame, Built, Hear, HearCleanup,
        Checked, Unchecked, Effect
<1>20. Leftovers'
  BY <1>0, <1>1, ProxmoxForm, SameRun
     DEF NeighbourTakesId, Leftovers, Staging, Frame, Built, Hear, HearCleanup,
        Checked, Unchecked, Effect
<1>21. Rollback'
  BY <1>0, <1>1, ProxmoxForm, SameRun
     DEF NeighbourTakesId, Rollback, Staging, Frame, Standing, Over, Cleared,
        Disowned, Exists, Built, Hear, HearCleanup, Checked, Unchecked, Effect
<1>22. Provision'
  BY <1>0, <1>1, ProxmoxForm, SameRun
     DEF NeighbourTakesId, Provision, Good, Built, Hear, HearCleanup, Checked,
        Unchecked, Effect
<1>23. Attachment'
  BY <1>0, <1>1, ProxmoxForm, SameRun
     DEF NeighbourTakesId, Attachment, Good, Built, Hear, HearCleanup, Checked,
        Unchecked, Effect
<1>24. Contents'
  BY <1>0, <1>1, ProxmoxForm, SameRun
     DEF NeighbourTakesId, Contents, Good, Built, Hear, HearCleanup, Checked,
        Unchecked, Effect
<1>25. Backed'
  BY <1>0, <1>1, ProxmoxForm, SameRun
     DEF NeighbourTakesId, Backed, Over, Exists, Built, Hear, HearCleanup, Checked,
        Unchecked, Effect
<1> QED
  BY <1>11, <1>12, <1>13, <1>14, <1>15, <1>16, <1>17, <1>18, <1>19, <1>20, <1>21,
     <1>22, <1>23, <1>24, <1>25 DEF IInv, Types

\* HPE VME, OpenShift, OpenStack: the remembered volume of the disk's order is handed back.
LEMMA CachedDiskStep ==
    ASSUME IInv, CachedDisk
    PROVE  IInv'
<1> USE DEF At, Outside, Goto, Leave, srcVars, ctlVars, memVars, vmVars, faultVars
<1>0. /\ TypedRun /\ TypedCtl /\ TypedFaults /\ TypedVm /\ TypedMemory /\ TypedVol
      /\ Frame /\ Untouched /\ Bodies /\ Leftovers /\ Rollback /\ Provision
      /\ Attachment /\ Contents /\ Backed
  BY DEF IInv, Types
<1>1. opt' = opt /\ spec' = spec
  BY DEF CachedDisk
<1>2. /\ Captures /\ Len(spec) \in Nat /\ Len(spec) <= NDisks /\ at \in Nat
      /\ Positions \subseteq Disks
      /\ \A i \in Positions : spec[i].order \in Addr /\ spec[i].disk \in Disks
      /\ pc \in Loops => at \in Positions /\ Order \in Addr /\ at <= Len(spec)
      /\ pc \notin NoSpec \/ known =>
            spec /= << >> /\ BootDisk \in Positions /\ 1 \in Positions
  BY <1>0, Here
<1>3. /\ "create" \in Making /\ Making \subseteq Makings
      /\ {"disk", "copy"} \subseteq Copying /\ Copying \subseteq {"disk", "copy", "rdm"}
      /\ Finals \subseteq Finishing /\ Finishing \subseteq Finals \union {"unrdm", "unscratch2"}
      /\ Freeing \subseteq {"freeRdm", "unscratch3"}
      /\ opt.dst /= "vsphere" =>
            Copying = {"disk", "copy"} /\ Finishing = Finals /\ Freeing = {}
      /\ opt.dst \in Platforms
  BY <1>0, AnyForm DEF TypedRun
<1>4. /\ UNCHANGED <<vm, known, slot, vol, rdm, native, home, memory, noted, boots, missed, at, extra>>
      /\ UNCHANGED <<srcVars, shares, others, tries, faults>> /\ at <= Len(spec)
      /\ pc = "disk" /\ known /\ rdm = {} /\ opt.dst \in {"hpevme", "openshift", "openstack"}
      /\ dest \in Seq(Vols) /\ Len(dest) = at - 1 /\ at \in Positions /\ Order \in Addr
      /\ \/ memory[Order] /= 0 /\ dest' = Append(dest, memory[Order]) /\ pc' = "copy"
         \/ UNCHANGED memVars /\ pc' = "undo"
  BY <1>0, <1>1, <1>2, <1>3 DEF CachedDisk, Frame, TypedMemory, Loops, Built, Bodies
<1>5. pc' = "copy" => /\ dest' \in Seq(Vols) /\ Len(dest') = at /\ dest'[at] = memory[Order]
                      /\ dest' = Append(dest, memory[Order]) /\ memory[Order] /= 0
  <2>1. memory[Order] /= 0 => memory[Order] \in Vols
    BY <1>0, <1>4, Numbers DEF TypedMemory
  <2> QED
    BY <1>2, <1>4, <2>1
<1>6. Attachment' /\ Contents'
  <2>1. CASE ~Good' \/ pc' = "undo"
    BY <1>1, <1>3, <2>1, SameRun DEF Attachment, Contents, Built, Finals
  <2>2. CASE Good' /\ pc' = "copy"
    <3>1. Good /\ pc \in Built /\ pc \in Copying \ {"copy"} /\ Provisioned
      BY <1>1, <1>3, <1>4, <2>2, SameSpec DEF Good, Built, Provisioned
    <3>2. memory[Order] = at
      BY <1>0, <1>4, <3>1 DEF Provision, Recalled, Order, Positions
    <3>3. Contents'
      BY <1>0, <1>1, <1>2, <1>4, <1>5, <2>2, <3>1, <3>2, NextToCopy
    <3>4. \A v \in Vols : Exists(v)' => v \in Positions'
      <4>1. \A v \in Vols : Exists(v) => v \in Positions
        BY <1>0, <1>4, <3>1 DEF Attachment
      <4> QED
        BY <1>1, <1>4, <4>1, SameSpec DEF Exists
    <3> QED
      BY <1>1, <1>4, <2>2, <3>3, <3>4 DEF Attachment, OnDemand
  <2> QED
    BY <1>4, <2>1, <2>2
<1>11. TypedRun'
  BY <1>0, <1>1, <1>4, <1>5
     DEF TypedRun
<1>12. TypedCtl'
  BY <1>0, <1>1, PartsAssumption, <1>4, <1>5
     DEF TypedCtl
<1>13. TypedFaults'
  BY <1>0, <1>1, Heard
     DEF CachedDisk, TypedFaults
<1>14. TypedVm'
  BY <1>0, <1>1, <1>4, <1>5
     DEF TypedVm, Hear, HearCleanup, Checked, Unchecked, Effect
<1>15. TypedMemory'
  <2>1. CASE pc' = "copy"
    <3>1. dest' \in Seq(Vols) /\ Len(dest') <= NDisks
      BY <1>2, <1>4, <1>5, <2>1, PartsAssumption
    <3> QED
      BY <1>0, <1>4, <3>1 DEF TypedMemory
  <2>2. CASE UNCHANGED memVars
    BY <1>0, <2>2 DEF TypedMemory
  <2> QED
    BY <1>4, <2>1, <2>2
<1>16. TypedVol'
  BY <1>0, <1>1, <1>4, <1>5
     DEF TypedVol, Hear, HearCleanup, Checked, Unchecked, Effect
<1>17. Frame'
  BY <1>0, <1>1, <1>3, SameRun, <1>4, <1>5
     DEF Frame, Staging, Built, Steps, Whole, Loops, Hear, HearCleanup, Checked,
        Unchecked, Effect, Finals, Makings, NoSpec
<1>18. Untouched'
  BY <1>0, <1>1, <1>3, SameRun, <1>4, <1>5
     DEF Untouched, Staging
<1>19. Bodies'
  BY <1>0, <1>1, <1>3, SameRun, <1>4, <1>5
     DEF Bodies, Staging, Frame, Built, Hear, HearCleanup, Checked, Unchecked,
        Effect, Finals, Makings, NoSpec
<1>20. Leftovers'
  BY <1>0, <1>1, <1>3, SameRun, <1>4, <1>5
     DEF Leftovers, Staging, Frame, Built, Hear, HearCleanup, Checked, Unchecked,
        Effect, Finals, Makings, NoSpec
<1>21. Rollback'
  BY <1>0, <1>1, <1>3, <1>4, StandsStill DEF Over
<1>22. Provision'
  BY <1>0, <1>1, <1>3, <1>4, SameSpec, ProvisionStays DEF Built, Makings, Good
<1>23. Attachment'
  BY <1>6
<1>24. Contents'
  BY <1>6
<1>25. Backed'
  <2> SUFFICES ASSUME ~missed' PROVE Backed'
    BY DEF Backed
  <2>1. ~missed /\ ~Over /\ Provisioned
    BY <1>4 DEF Over, Provisioned
  <2>2. \A o \in Addr : memory[o] /= 0 => Exists(memory[o])
    BY <1>0, <2>1 DEF Backed
  <2>3. pc' = "copy" => Exists(dest[at])'
    BY <1>4, <1>5, <2>2 DEF Exists
  <2> QED
    BY <1>1, <1>4, <2>2, <2>3 DEF Backed, Exists
<1> QED
  BY <1>11, <1>12, <1>13, <1>14, <1>15, <1>16, <1>17, <1>18, <1>19, <1>20, <1>21,
     <1>22, <1>23, <1>24, <1>25 DEF IInv, Types

\* HPE VME, OpenShift, OpenStack: the boot disk was named when the VM was created.
LEMMA BootNamedAtCreationStep ==
    ASSUME IInv, BootNamedAtCreation
    PROVE  IInv'
<1> USE DEF At, Outside, Goto, Leave, srcVars, ctlVars, memVars, vmVars, faultVars
<1>0. /\ TypedRun /\ TypedCtl /\ TypedFaults /\ TypedVm /\ TypedMemory /\ TypedVol
      /\ Frame /\ Untouched /\ Bodies /\ Leftovers /\ Rollback /\ Provision
      /\ Attachment /\ Contents /\ Backed
  BY DEF IInv, Types
<1>1. opt' = opt /\ spec' = spec
  BY DEF BootNamedAtCreation
<1>2. /\ Captures /\ Len(spec) \in Nat /\ Len(spec) <= NDisks /\ at \in Nat
      /\ Positions \subseteq Disks
      /\ \A i \in Positions : spec[i].order \in Addr /\ spec[i].disk \in Disks
      /\ pc \in Loops => at \in Positions /\ Order \in Addr /\ at <= Len(spec)
      /\ pc \notin NoSpec \/ known =>
            spec /= << >> /\ BootDisk \in Positions /\ 1 \in Positions
  BY <1>0, Here
<1>3. /\ "create" \in Making /\ Making \subseteq Makings
      /\ {"disk", "copy"} \subseteq Copying /\ Copying \subseteq {"disk", "copy", "rdm"}
      /\ Finals \subseteq Finishing /\ Finishing \subseteq Finals \union {"unrdm", "unscratch2"}
      /\ Freeing \subseteq {"freeRdm", "unscratch3"}
      /\ opt.dst /= "vsphere" =>
            Copying = {"disk", "copy"} /\ Finishing = Finals /\ Freeing = {}
      /\ opt.dst \in Platforms
  BY <1>0, AnyForm DEF TypedRun
<1>4. /\ UNCHANGED <<vm, known, slot, vol, rdm, native, home, memory, noted, boots, dest, extra>>
      /\ pc = "boot" /\ pc' \in {"power"} /\ (~missed' => ~missed) /\ (Good' => Good)
  BY <1>0, <1>1, SameSpec DEF BootNamedAtCreation, TypedFaults, Good
<1>5. Attachment' /\ Contents'
  <2>1. /\ pc \in Finishing /\ pc' \in Finishing
        /\ rdm = {} /\ opt.dst \in {"hpevme", "openshift", "openstack"}
    BY <1>0, <1>3, <1>4 DEF Finals, Bodies, BootNamedAtCreation
  <2> QED
    BY <1>0, <1>1, <1>4, <2>1, StaysBuilt DEF TypedVm
<1>11. TypedRun'
  BY <1>0, <1>1
     DEF BootNamedAtCreation, TypedRun
<1>12. TypedCtl'
  BY <1>0, <1>1, PartsAssumption
     DEF BootNamedAtCreation, TypedCtl
<1>13. TypedFaults'
  BY <1>0, <1>1, Heard
     DEF BootNamedAtCreation, TypedFaults
<1>14. TypedVm'
  BY <1>0, <1>1
     DEF BootNamedAtCreation, TypedVm, Hear, HearCleanup, Checked, Unchecked,
        Effect
<1>15. TypedMemory'
  BY <1>0, <1>1
     DEF BootNamedAtCreation, TypedMemory, Hear, HearCleanup, Checked, Unchecked,
        Effect
<1>16. TypedVol'
  BY <1>0, <1>1
     DEF BootNamedAtCreation, TypedVol, Hear, HearCleanup, Checked, Unchecked,
        Effect
<1>17. Frame'
  BY <1>0, <1>1, <1>3, SameRun
     DEF BootNamedAtCreation, Frame, Staging, Built, Steps, Whole, Loops, Hear,
        HearCleanup, Checked, Unchecked, Effect, Finals, Makings, NoSpec
<1>18. Untouched'
  BY <1>0, <1>1, <1>3, SameRun
     DEF BootNamedAtCreation, Untouched, Staging
<1>19. Bodies'
  BY <1>0, <1>1, <1>3, SameRun
     DEF BootNamedAtCreation, Bodies, Staging, Frame, Built, Hear, HearCleanup,
        Checked, Unchecked, Effect, Finals, Makings, NoSpec
<1>20. Leftovers'
  BY <1>0, <1>1, <1>3, SameRun
     DEF BootNamedAtCreation, Leftovers, Staging, Frame, Built, Hear, HearCleanup,
        Checked, Unchecked, Effect, Finals, Makings, NoSpec
<1>21. Rollback'
  BY <1>0, <1>1, <1>3, <1>4, StandsStill DEF Over, Frame, Built, Finals
<1>22. Provision'
  BY <1>0, <1>1, <1>3, <1>4, ProvisionStays DEF Built, Finals, Makings
<1>23. Attachment'
  BY <1>5
<1>24. Contents'
  BY <1>5
<1>25. Backed'
  BY <1>0, <1>1, <1>3, SameRun
     DEF BootNamedAtCreation, Backed, Over, Exists, Built, Hear, HearCleanup,
        Checked, Unchecked, Effect, Finals, Makings, NoSpec
<1> QED
  BY <1>11, <1>12, <1>13, <1>14, <1>15, <1>16, <1>17, <1>18, <1>19, <1>20, <1>21,
     <1>22, <1>23, <1>24, <1>25 DEF IInv, Types

\* HPE VME: the instance comes with all its volumes, in the spec's boot order.
LEMMA HpePostStep ==
    ASSUME IInv, HpePost
    PROVE  IInv'
<1> USE DEF At, Outside, Goto, Leave, srcVars, ctlVars, memVars, vmVars, faultVars
<1>0. /\ TypedRun /\ TypedCtl /\ TypedFaults /\ TypedVm /\ TypedMemory /\ TypedVol
      /\ Frame /\ Untouched /\ Bodies /\ Leftovers /\ Rollback /\ Provision
      /\ Attachment /\ Contents /\ Backed
  BY DEF IInv, Types
<1>1. opt.dst = "hpevme" /\ opt' = opt /\ spec' = spec
  BY DEF HpePost
<1>2. /\ Captures /\ Len(spec) \in Nat /\ Len(spec) <= NDisks /\ at \in Nat
      /\ Positions \subseteq Disks
      /\ \A i \in Positions : spec[i].order \in Addr /\ spec[i].disk \in Disks
      /\ pc \in Loops => at \in Positions /\ Order \in Addr /\ at <= Len(spec)
      /\ pc \notin NoSpec \/ known =>
            spec /= << >> /\ BootDisk \in Positions /\ 1 \in Positions
  BY <1>0, Here
<1>3. PICK a \in Checked :
         /\ Hear(a, Checked)
         /\ IF Effect(a)
            THEN /\ VmWith([d \in InList |-> CHOOSE i \in Positions : BootRank(i) = d], 0)
                 /\ vol' = [v \in Vols |-> IF v \in Positions THEN Blank ELSE vol[v]]
            ELSE UNCHANGED <<vm, slot, boots, rdm, native, home, vol>>
         /\ pc' = IF a = "ok" THEN "await" ELSE "undo"
  BY DEF HpePost
<1>4. /\ UNCHANGED <<srcVars, shares, extra, others, at, tries, known, memory, noted, dest>>
      /\ pc = "create" /\ ~vm /\ ~known /\ dest = << >> /\ slot = NoDevices /\ rdm = {}
      /\ native = {}
      /\ ~home /\ spec /= << >> /\ pc' \in {"await", "undo"}
      /\ "recorded" \in extra' => "recorded" \in extra
  BY <1>0, <1>1, <1>2, <1>3, HpevmeForm DEF HpePost, Frame, Bodies, TypedVm, NoSpec, TypedMemory
<1>5. /\ UNCHANGED <<rdm, native, home>>
      /\ \/ /\ Effect(a) /\ vm' = TRUE /\ boots' = 0 /\ 0 \in InList
            /\ slot' \in [Addr -> {0} \union Positions] /\ OnePerAddr(slot', Len(spec))
            /\ slot'[0] = BootDisk /\ Positions \subseteq Attached'
            /\ vol' = [v \in Vols |-> IF v \in Positions THEN Blank ELSE vol[v]]
         \/ ~Effect(a) /\ UNCHANGED <<vm, slot, boots, vol>>
  <2>1. CASE Effect(a)
    <3>1. VmWith([d \in InList |-> CHOOSE i \in Positions : BootRank(i) = d], 0)
          /\ vol' = [v \in Vols |-> IF v \in Positions THEN Blank ELSE vol[v]]
      BY <1>3, <2>1
    <3>2. /\ slot' \in [Addr -> {0} \union Positions] /\ OnePerAddr(slot', Len(spec))
          /\ 0 \in InList /\ slot'[0] = BootDisk
      BY <1>2, <1>4, <3>1, ByRank
    <3>3. \A i \in Positions : \E d \in Addr : slot'[d] = i /\ i /= 0
      BY <1>2, <3>2, OnePerAddrIsOnto, Numbers DEF Positions
    <3>4. Positions \subseteq Attached'
      BY <3>3 DEF Attached
    <3>5. vm' = TRUE /\ boots' = 0 /\ UNCHANGED <<rdm, native, home>>
      BY <3>1 DEF VmWith
    <3> QED
      BY <2>1, <3>1, <3>2, <3>4, <3>5
  <2>2. CASE ~Effect(a)
    BY <1>3, <2>2
  <2> QED
    BY <2>1, <2>2
<1>11. TypedRun'
  BY <1>0, <1>1, <1>3, <1>4, <1>5
     DEF TypedRun
<1>12. TypedCtl'
  BY <1>0, <1>1, PartsAssumption, <1>3, <1>4, <1>5
     DEF TypedCtl
<1>13. TypedFaults'
  BY <1>0, <1>1, Heard
     DEF HpePost, TypedFaults
<1>14. TypedVm'
  <2>1. slot' \in [Addr -> ({0} \union Vols) \ {Scratch}] /\ boots' \in Addr \union {Nowhere}
    <3>1. {0} \union Positions \subseteq ({0} \union Vols) \ {Scratch}
      BY <1>2, Numbers
    <3> QED
      BY <1>0, <1>5, <3>1, Numbers DEF TypedVm
  <2>2. vm' \in BOOLEAN /\ home' \in BOOLEAN
    BY <1>0, <1>5 DEF TypedVm
  <2> QED
    BY <1>0, <1>4, <1>5, <2>1, <2>2 DEF TypedVm
<1>15. TypedMemory'
  BY <1>0, <1>1, <1>3, <1>4, <1>5
     DEF TypedMemory, Hear, HearCleanup, Checked, Unchecked, Effect
<1>16. TypedVol'
  BY <1>0, <1>5, Numbers DEF TypedVol
<1>17. Frame'
  BY <1>0, <1>1, HpevmeForm, SameRun, <1>3, <1>4, <1>5
     DEF Frame, Staging, Built, Steps, Whole, Loops, Hear, HearCleanup, Checked,
        Unchecked, Effect
<1>18. Untouched'
  BY <1>0, <1>1, HpevmeForm, SameRun, <1>3, <1>4, <1>5
     DEF Untouched, Staging
<1>19. Bodies'
  BY <1>0, <1>1, HpevmeForm, SameRun, <1>3, <1>4, <1>5
     DEF Bodies, Staging, Frame, Built, Hear, HearCleanup, Checked, Unchecked,
        Effect
<1>20. Leftovers'
  BY <1>0, <1>1, HpevmeForm, SameRun, <1>3, <1>4, <1>5
     DEF Leftovers, Staging, Frame, Built, Hear, HearCleanup, Checked, Unchecked,
        Effect
<1>21. Rollback'
  <2> SUFFICES ASSUME ~missed' PROVE Rollback'
    BY DEF Rollback
  <2>1. ~missed /\ ~Over /\ (a = "ok" \/ a = "fails")
    BY <1>0, <1>3, <1>4, <2>1, Heard DEF Over, Checked
  <2>2. \A v \in Vols : ~Exists(v)
    BY <1>0, <1>1, <1>4, <2>1 DEF Rollback, Standing, Attached, NoDevices
  <2>3. CASE a = "ok"
    <3>1. \A v \in Vols : Exists(v)' => v \in Attached'
      BY <1>5, <2>2, <2>3 DEF Effect, Exists
    <3>2. pc' = "await"
      BY <1>3, <2>3
    <3> QED
      BY <1>1, <3>1, <3>2 DEF Rollback, Over, Disowned, Standing
  <2>4. CASE a = "fails"
    <3>1. pc' = "undo" /\ ~vm' /\ (\A v \in Vols : ~Exists(v)') /\ rdm' = {}
      BY <1>3, <1>4, <1>5, <2>2, <2>4 DEF Effect, Exists
    <3> QED
      BY <3>1, NothingYet
  <2> QED
    BY <2>1, <2>3, <2>4
<1>22. Provision'
  <2>1. pc' = "await" => a = "ok" /\ Effect(a)
    BY <1>3 DEF Effect
  <2>2. pc' = "await" =>
              OnePerAddr(slot', Len(spec')) /\ boots' \in InList' /\ slot'[boots'] = BootDisk'
    BY <1>1, <1>5, <2>1, SameSpec
  <2> QED
    BY <1>1, <1>4, <2>2, HpevmeForm, SameRun DEF Provision, Built
<1>23. Attachment'
  BY <1>0, <1>1, HpevmeForm, SameRun, <1>3, <1>4, <1>5
     DEF Attachment, Good, Built, Hear, HearCleanup, Checked, Unchecked, Effect
<1>24. Contents'
  BY <1>0, <1>1, HpevmeForm, SameRun, <1>3, <1>4, <1>5
     DEF Contents, Good, Built, Hear, HearCleanup, Checked, Unchecked, Effect
<1>25. Backed'
  <2> SUFFICES ASSUME ~missed' PROVE Backed'
    BY DEF Backed
  <2>1. ~missed /\ ~Over
    BY <1>0, <1>3, <1>4, Heard DEF Over
  <2>2. \A o \in Addr : memory[o] /= 0 => Exists(memory[o])
    BY <1>0, <1>1, <2>1, HpevmeForm DEF Backed
  <2>3. \A v \in Vols : Exists(v) => Exists(v)'
    BY <1>5, Numbers DEF Exists
  <2>4. \A o \in Addr : memory'[o] /= 0 => Exists(memory[o])'
    BY <1>0, <1>4, <2>2, <2>3, Numbers DEF TypedMemory
  <2>5. pc' = "await" => \A v \in Positions : vol'[v] = Blank
    <3>1. pc' = "await" => Effect(a)
      BY <1>3 DEF Effect
    <3> QED
      BY <1>2, <1>5, <3>1, Numbers
  <2>6. \A v \in Positions' : pc' = "await" => Exists(v)'
    BY <1>1, <2>5, Numbers, SameSpec DEF Exists
  <2> QED
    BY <1>1, <1>4, <2>4, <2>6 DEF Backed, Exists
<1> QED
  BY <1>11, <1>12, <1>13, <1>14, <1>15, <1>16, <1>17, <1>18, <1>19, <1>20, <1>21,
     <1>22, <1>23, <1>24, <1>25 DEF IInv, Types

\* HPE VME: the wait changes nothing; an instance given up stays, as its known leak.
LEMMA HpeAwaitStep ==
    ASSUME IInv, HpeAwait
    PROVE  IInv'
<1> USE DEF At, Outside, Goto, Leave, srcVars, ctlVars, memVars, vmVars, faultVars
<1>0. /\ TypedRun /\ TypedCtl /\ TypedFaults /\ TypedVm /\ TypedMemory /\ TypedVol
      /\ Frame /\ Untouched /\ Bodies /\ Leftovers /\ Rollback /\ Provision
      /\ Attachment /\ Contents /\ Backed
  BY DEF IInv, Types
<1>1. opt.dst = "hpevme" /\ opt' = opt /\ spec' = spec
  BY DEF HpeAwait
<1>2. /\ Captures /\ Len(spec) \in Nat /\ Len(spec) <= NDisks /\ at \in Nat
      /\ Positions \subseteq Disks
      /\ \A i \in Positions : spec[i].order \in Addr /\ spec[i].disk \in Disks
      /\ pc \in Loops => at \in Positions /\ Order \in Addr /\ at <= Len(spec)
      /\ pc \notin NoSpec \/ known =>
            spec /= << >> /\ BootDisk \in Positions /\ 1 \in Positions
  BY <1>0, Here
<1>11. TypedRun'
  BY <1>0, <1>1
     DEF HpeAwait, TypedRun
<1>12. TypedCtl'
  BY <1>0, <1>1, PartsAssumption
     DEF HpeAwait, TypedCtl
<1>13. TypedFaults'
  BY <1>0, <1>1, Heard
     DEF HpeAwait, TypedFaults
<1>14. TypedVm'
  BY <1>0, <1>1
     DEF HpeAwait, TypedVm, Hear, HearCleanup, Checked, Unchecked, Effect
<1>15. TypedMemory'
  BY <1>0, <1>1
     DEF HpeAwait, TypedMemory, Hear, HearCleanup, Checked, Unchecked, Effect
<1>16. TypedVol'
  BY <1>0, <1>1
     DEF HpeAwait, TypedVol, Hear, HearCleanup, Checked, Unchecked, Effect
<1>17. Frame'
  BY <1>0, <1>1, HpevmeForm, SameRun
     DEF HpeAwait, Frame, Staging, Built, Steps, Whole, Loops, Hear, HearCleanup,
        Checked, Unchecked, Effect
<1>18. Untouched'
  BY <1>0, <1>1, HpevmeForm, SameRun
     DEF HpeAwait, Untouched, Staging
<1>19. Bodies'
  BY <1>0, <1>1, HpevmeForm, SameRun
     DEF HpeAwait, Bodies, Staging, Frame, Built, Hear, HearCleanup, Checked,
        Unchecked, Effect
<1>20. Leftovers'
  BY <1>0, <1>1, HpevmeForm, SameRun
     DEF HpeAwait, Leftovers, Staging, Frame, Built, Hear, HearCleanup, Checked,
        Unchecked, Effect
<1>21. Rollback'
  <2> SUFFICES ASSUME ~missed' PROVE Rollback'
    BY DEF Rollback
  <2>1. /\ pc = "await" /\ ~known /\ UNCHANGED <<known, vol, slot>> /\ ~missed
        /\ pc' \in {"cache", "undo"}
    BY <1>0, <1>1, HpevmeForm DEF HpeAwait, Hear, TypedFaults, Frame
  <2>2. \A v \in Vols : Exists(v)' => v \in Attached'
    BY <1>0, <1>1, <2>1, SameSlot DEF Rollback, Standing, Over, Exists
  <2>3. \A v \in Vols : KnownLeak(v)'
    BY <1>1, <2>1 DEF KnownLeak
  <2> QED
    BY <1>1, <2>1, <2>2, <2>3 DEF Rollback, Over, Cleared, Disowned, Standing
<1>22. Provision'
  BY <1>0, <1>1, HpevmeForm, SameRun, SameSpec
     DEF HpeAwait, Provision, Good, Built, Hear, HearCleanup, Checked, Unchecked,
        Effect
<1>23. Attachment'
  BY <1>0, <1>1, HpevmeForm, SameRun
     DEF HpeAwait, Attachment, Good, Built, Hear, HearCleanup, Checked, Unchecked,
        Effect
<1>24. Contents'
  BY <1>0, <1>1, HpevmeForm, SameRun
     DEF HpeAwait, Contents, Good, Built, Hear, HearCleanup, Checked, Unchecked,
        Effect
<1>25. Backed'
  BY <1>0, <1>1, HpevmeForm, SameRun, SameSpec
     DEF HpeAwait, Backed, Over, Exists, Built, Hear, HearCleanup, Checked,
        Unchecked, Effect
<1> QED
  BY <1>11, <1>12, <1>13, <1>14, <1>15, <1>16, <1>17, <1>18, <1>19, <1>20, <1>21,
     <1>22, <1>23, <1>24, <1>25 DEF IInv, Types

\* HPE VME: the volumes are remembered by order, one for each disk when orders differ.
LEMMA HpeCacheStep ==
    ASSUME IInv, HpeCache
    PROVE  IInv'
<1> USE DEF At, Outside, Goto, Leave, srcVars, ctlVars, memVars, vmVars, faultVars
<1>0. /\ TypedRun /\ TypedCtl /\ TypedFaults /\ TypedVm /\ TypedMemory /\ TypedVol
      /\ Frame /\ Untouched /\ Bodies /\ Leftovers /\ Rollback /\ Provision
      /\ Attachment /\ Contents /\ Backed
  BY DEF IInv, Types
<1>1. opt.dst = "hpevme" /\ opt' = opt /\ spec' = spec
  BY DEF HpeCache
<1>2. /\ Captures /\ Len(spec) \in Nat /\ Len(spec) <= NDisks /\ at \in Nat
      /\ Positions \subseteq Disks
      /\ \A i \in Positions : spec[i].order \in Addr /\ spec[i].disk \in Disks
      /\ pc \in Loops => at \in Positions /\ Order \in Addr /\ at <= Len(spec)
      /\ pc \notin NoSpec \/ known =>
            spec /= << >> /\ BootDisk \in Positions /\ 1 \in Positions
  BY <1>0, Here
<1>3. PICK a \in {"ok", "fails"} :
         /\ Hear(a, Checked)
         /\ IF a = "ok" THEN memory' = CacheByOrder /\ known' = TRUE /\ pc' = "disk"
            ELSE UNCHANGED <<known, memory>> /\ pc' = "undo"
  BY DEF HpeCache
<1>4. /\ UNCHANGED <<srcVars, shares, extra, others, at, tries, noted, dest, vol, vm, slot, boots, rdm,
                     native, home>>
      /\ pc = "cache" /\ vm /\ ~known /\ dest = << >> /\ rdm = {} /\ native = {} /\ at = 1
      /\ ~home /\ spec /= << >> /\ pc' \in {"disk", "undo"}
      /\ "recorded" \in extra' => "recorded" \in extra
  BY <1>0, <1>1, <1>2, <1>3, HpevmeForm
     DEF HpeCache, Frame, Bodies, TypedVm, NoSpec, TypedMemory, Built, Whole
<1>5. /\ CacheByOrder \in [Addr -> {0} \union Positions]
      /\ DistinctOrders => Recalled(CacheByOrder, spec, Len(spec))
  BY <1>2, CacheIsByOrder DEF Recalled, Positions
<1>6. Good => \A v \in Vols : Exists(v) => v \in Positions
  <2>1. Good => OnePerAddr(slot, Len(spec)) /\ (\A v \in Vols : Exists(v) => v \in Attached)
    BY <1>0, <1>1, <1>4 DEF Provision, Rollback, Standing, Over, Good
  <2>2. Good => Attached \subseteq Positions
    BY <2>1 DEF OnePerAddr, Attached, Positions
  <2> QED
    BY <2>1, <2>2
<1>9. Attachment' /\ Contents'
  <2>1. CASE pc' = "undo"
    BY <1>1, <2>1, HpevmeForm, SameRun DEF Attachment, Contents, Built
  <2>2. CASE pc' = "disk"
    <3>1. pc \in Making /\ (Good' => Good)
      BY <1>0, <1>1, <1>3, <1>4, HpevmeForm, SameSpec, Heard DEF Good
    <3> QED
      BY <1>1, <1>4, <1>6, <2>2, <3>1, VmHandedOver, HpevmeForm
  <2> QED
    BY <1>4, <2>1, <2>2
<1>11. TypedRun'
  BY <1>0, <1>1, <1>3, <1>4
     DEF TypedRun
<1>12. TypedCtl'
  BY <1>0, <1>1, PartsAssumption, <1>3, <1>4
     DEF TypedCtl
<1>13. TypedFaults'
  BY <1>0, <1>1, Heard
     DEF HpeCache, TypedFaults
<1>14. TypedVm'
  BY <1>0, <1>1, <1>3, <1>4
     DEF TypedVm, Hear, HearCleanup, Checked, Unchecked, Effect
<1>15. TypedMemory'
  <2>1. memory' \in [Addr -> {0} \union Disks] /\ known' \in BOOLEAN
    BY <1>0, <1>2, <1>3, <1>5 DEF TypedMemory
  <2> QED
    BY <1>0, <1>4, <2>1 DEF TypedMemory
<1>16. TypedVol'
  BY <1>0, <1>1, <1>3, <1>4
     DEF TypedVol, Hear, HearCleanup, Checked, Unchecked, Effect
<1>17. Frame'
  BY <1>0, <1>1, HpevmeForm, SameRun, <1>3, <1>4
     DEF Frame, Staging, Built, Steps, Whole, Loops, Hear, HearCleanup, Checked,
        Unchecked, Effect
<1>18. Untouched'
  BY <1>0, <1>1, HpevmeForm, SameRun, <1>3, <1>4
     DEF Untouched, Staging
<1>19. Bodies'
  BY <1>0, <1>1, HpevmeForm, SameRun, <1>3, <1>4
     DEF Bodies, Staging, Frame, Built, Hear, HearCleanup, Checked, Unchecked,
        Effect
<1>20. Leftovers'
  BY <1>0, <1>1, HpevmeForm, SameRun, <1>3, <1>4
     DEF Leftovers, Staging, Frame, Built, Hear, HearCleanup, Checked, Unchecked,
        Effect
<1>21. Rollback'
  <2> SUFFICES ASSUME ~missed' PROVE Rollback'
    BY DEF Rollback
  <2>1. ~missed /\ Standing
    BY <1>0, <1>3, <1>4, Heard DEF Over, Rollback
  <2>2. \A v \in Vols : Exists(v)' => v \in Attached'
    BY <1>1, <1>4, <2>1, SameSlot DEF Standing, Exists
  <2>3. pc' = "disk" => known'
    BY <1>3
  <2>4. \A v \in Vols : pc' = "undo" => KnownLeak(v)'
    BY <1>1, <1>3, <1>4 DEF KnownLeak
  <2> QED
    BY <1>1, <1>3, <1>4, <2>2, <2>3, <2>4 DEF Rollback, Over, Cleared, Disowned, Standing
<1>22. Provision'
  <2> SUFFICES ASSUME Good', pc' = "disk" PROVE Provision'
    BY <1>1, <1>4, HpevmeForm, SameRun DEF Provision, Built
  <2>1. Good
    BY <1>0, <1>1, <1>3, Heard, SameSpec DEF Good
  <2>2. Recalled(memory', spec', Len(spec'))
    BY <1>1, <1>3, <1>5, <2>1 DEF Good
  <2>3. OnePerAddr(slot', Len(spec')) /\ boots' \in InList' /\ slot'[boots'] = BootDisk'
    BY <1>0, <1>1, <1>4, <2>1, SameSpec DEF Provision
  <2> QED
    BY <1>1, <2>2, <2>3 DEF Provision
<1>23. Attachment'
  BY <1>9
<1>24. Contents'
  BY <1>9
<1>25. Backed'
  <2> SUFFICES ASSUME ~missed', pc' = "disk" PROVE Backed'
    BY <1>1, <1>3, <1>4, HpevmeForm DEF Backed, Over
  <2>1. ~missed
    BY <1>0, <1>3, Heard
  <2>2. \A v \in Positions : vol'[v] /= Absent
    BY <1>0, <1>4, <2>1 DEF Backed, Exists
  <2>3. \A o \in Addr : memory'[o] /= 0 => vol'[memory'[o]] /= Absent
    BY <1>3, <1>5, <2>2
  <2> QED
    BY <1>1, <2>3 DEF Backed, Exists
<1> QED
  BY <1>11, <1>12, <1>13, <1>14, <1>15, <1>16, <1>17, <1>18, <1>19, <1>20, <1>21,
     <1>22, <1>23, <1>24, <1>25 DEF IInv, Types

\* HPE VME: the instance takes its volumes along.
LEMMA HpeDeleteStep ==
    ASSUME IInv, HpeDelete
    PROVE  IInv'
<1> USE DEF At, Outside, Goto, Leave, srcVars, ctlVars, memVars, vmVars, faultVars,
   VmGone, Without, NoDevices
<1>0. /\ TypedRun /\ TypedCtl /\ TypedFaults /\ TypedVm /\ TypedMemory /\ TypedVol
      /\ Frame /\ Untouched /\ Bodies /\ Leftovers /\ Rollback /\ Provision
      /\ Attachment /\ Contents /\ Backed
  BY DEF IInv, Types
<1>1. opt.dst = "hpevme" /\ opt' = opt /\ spec' = spec
  BY DEF HpeDelete
<1>2. /\ Captures /\ Len(spec) \in Nat /\ Len(spec) <= NDisks /\ at \in Nat
      /\ Positions \subseteq Disks
      /\ \A i \in Positions : spec[i].order \in Addr /\ spec[i].disk \in Disks
      /\ pc \in Loops => at \in Positions /\ Order \in Addr /\ at <= Len(spec)
      /\ pc \notin NoSpec \/ known =>
            spec /= << >> /\ BootDisk \in Positions /\ 1 \in Positions
  BY <1>0, Here
<1>11. TypedRun'
  BY <1>0, <1>1
     DEF HpeDelete, TypedRun
<1>12. TypedCtl'
  BY <1>0, <1>1, PartsAssumption
     DEF HpeDelete, TypedCtl
<1>13. TypedFaults'
  BY <1>0, <1>1, Heard
     DEF HpeDelete, TypedFaults
<1>14. TypedVm'
  BY <1>0, <1>1, <1>2, Numbers
     DEF HpeDelete, TypedVm, Hear, HearCleanup, Checked, Unchecked, Effect
<1>15. TypedMemory'
  BY <1>0, <1>1
     DEF HpeDelete, TypedMemory, Hear, HearCleanup, Checked, Unchecked, Effect
<1>16. TypedVol'
  BY <1>0, <1>1, <1>2, Numbers
     DEF HpeDelete, TypedVol, Hear, HearCleanup, Checked, Unchecked, Effect
<1>17. Frame'
  BY <1>0, <1>1, HpevmeForm, SameRun
     DEF HpeDelete, Frame, Staging, Built, Steps, Whole, Loops, Hear, HearCleanup,
        Checked, Unchecked, Effect
<1>18. Untouched'
  BY <1>0, <1>1, HpevmeForm, SameRun
     DEF HpeDelete, Untouched, Staging
<1>19. Bodies'
  BY <1>0, <1>1, HpevmeForm, SameRun
     DEF HpeDelete, Bodies, Staging, Frame, Built, Hear, HearCleanup, Checked,
        Unchecked, Effect
<1>20. Leftovers'
  BY <1>0, <1>1, HpevmeForm, SameRun
     DEF HpeDelete, Leftovers, Staging, Frame, Built, Hear, HearCleanup, Checked,
        Unchecked, Effect
<1>21. Rollback'
  <2>1. missed' \/ (~vm' /\ \A v \in Vols : Exists(v)' => KnownLeak(v)')
    <3>1. ~missed => Standing
      BY <1>0 DEF Rollback, Over, Frame, HpeDelete
    <3>2. missed' \/ (~missed /\ ~vm' /\ vol' = Without(Attached))
      BY <1>0 DEF HpeDelete, HearCleanup, Checked, Effect, TypedFaults
    <3>3. ~missed => \A v \in Vols : Exists(v) => v \in Attached
      BY <1>1, <3>1 DEF Standing
    <3> QED
      BY <3>2, <3>3 DEF Exists
  <2>2. pc' = "unstage"
    BY DEF HpeDelete
  <2> QED
    BY <2>1, <2>2 DEF Rollback, Over, Cleared
<1>22. Provision'
  BY <1>0, <1>1, HpevmeForm, SameRun
     DEF HpeDelete, Provision, Good, Built, Hear, HearCleanup, Checked, Unchecked,
        Effect
<1>23. Attachment'
  BY <1>0, <1>1, HpevmeForm, SameRun
     DEF HpeDelete, Attachment, Good, Built, Hear, HearCleanup, Checked, Unchecked,
        Effect
<1>24. Contents'
  BY <1>0, <1>1, HpevmeForm, SameRun
     DEF HpeDelete, Contents, Good, Built, Hear, HearCleanup, Checked, Unchecked,
        Effect
<1>25. Backed'
  BY <1>0, <1>1, HpevmeForm, SameRun
     DEF HpeDelete, Backed, Over, Exists, Built, Hear, HearCleanup, Checked,
        Unchecked, Effect
<1> QED
  BY <1>11, <1>12, <1>13, <1>14, <1>15, <1>16, <1>17, <1>18, <1>19, <1>20, <1>21,
     <1>22, <1>23, <1>24, <1>25 DEF IInv, Types

\* OpenShift: the PVC of the disk's order, remembered when its volume is found.
LEMMA PvcApplyStep ==
    ASSUME IInv, PvcApply
    PROVE  IInv'
<1> USE DEF At, Outside, Goto, Leave, srcVars, ctlVars, memVars, vmVars, faultVars
<1>0. /\ TypedRun /\ TypedCtl /\ TypedFaults /\ TypedVm /\ TypedMemory /\ TypedVol
      /\ Frame /\ Untouched /\ Bodies /\ Leftovers /\ Rollback /\ Provision
      /\ Attachment /\ Contents /\ Backed
  BY DEF IInv, Types
<1>1. opt.dst = "openshift" /\ opt' = opt /\ spec' = spec
  BY DEF PvcApply
<1>2. /\ Captures /\ Len(spec) \in Nat /\ Len(spec) <= NDisks /\ at \in Nat
      /\ Positions \subseteq Disks
      /\ \A i \in Positions : spec[i].order \in Addr /\ spec[i].disk \in Disks
      /\ pc \in Loops => at \in Positions /\ Order \in Addr /\ at <= Len(spec)
      /\ pc \notin NoSpec \/ known =>
            spec /= << >> /\ BootDisk \in Positions /\ 1 \in Positions
  BY <1>0, Here
<1> DEFINE w == FirstWith(Order)
<1>3. PICK a \in Checked \union {"silent"} :
         /\ Hear(a, Checked \union {"silent"})
         /\ vol' = IF a /= "fails" /\ vol[w] = Absent THEN [vol EXCEPT ![w] = Blank] ELSE vol
         /\ memory' = CASE a = "ok" -> [memory EXCEPT ![Order] = w]
                        [] a = "silent" -> [memory EXCEPT ![Order] = 0]
                        [] OTHER -> NoMemory
         /\ IF Passed(a) THEN Loop("create", "apply") ELSE Goto("ocCleanup")
  BY DEF PvcApply
<1>4. /\ UNCHANGED <<srcVars, shares, extra, others, known, noted, dest, vm, slot, boots, rdm,
                     native, home>>
      /\ pc = "create" /\ ~vm /\ ~known /\ dest = << >> /\ rdm = {} /\ native = {} /\ ~home
      /\ spec /= << >> /\ at \in Positions /\ Order \in Addr /\ Order \in Orders
      /\ w \in Positions /\ (DistinctOrders => w = at) /\ spec[at].order = Order
      /\ "recorded" \in extra' => "recorded" \in extra
  <2>1. /\ pc = "create" /\ ~vm /\ ~known /\ dest = << >> /\ rdm = {} /\ native = {} /\ ~home
        /\ UNCHANGED <<srcVars, shares, extra, others, known, noted, dest, vm, slot, boots, rdm,
                       native, home>>
    BY <1>0, <1>1, OpenshiftForm DEF PvcApply, Frame, Bodies, TypedVm
  <2>2. /\ spec /= << >> /\ at \in Positions /\ Order \in Addr /\ spec[at].order = Order
    BY <1>2, <2>1 DEF NoSpec, Loops, Order
  <2>3. Order \in Orders
    BY <2>2 DEF Orders
  <2>4. w \in Positions /\ (DistinctOrders => w = at)
    BY <1>2, <2>2, <2>3, FirstWithIsOne
  <2> QED
    BY <2>1, <2>2, <2>3, <2>4
<1> HIDE DEF w
<1>5. /\ TypedCtl'
      /\ \/ Passed(a) /\ at < Len(spec) /\ at' = at + 1 /\ at' <= Len(spec) /\ pc' = "create"
         \/ Passed(a) /\ ~(at < Len(spec)) /\ at' = 1 /\ pc' = "apply"
         \/ ~Passed(a) /\ at' = at /\ pc' = "ocCleanup"
  <2>1. CASE Passed(a)
    BY <1>0, <1>2, <1>3, <2>1, Looped
  <2>2. CASE ~Passed(a)
    BY <1>0, <1>3, <2>2 DEF TypedCtl
  <2> QED
    BY <2>1, <2>2
<1>6. /\ memory' \in [Addr -> {0} \union Disks] /\ vol' \in [Vols -> 0..Absent]
      /\ \A o \in Addr : memory'[o] \in {0, memory[o], w}
  <2>1. memory \in [Addr -> {0} \union Disks] /\ w \in Disks /\ w \in Vols
    BY <1>0, <1>2, <1>4, Numbers DEF TypedMemory
  <2>2. \/ memory' = [memory EXCEPT ![Order] = w] \/ memory' = [memory EXCEPT ![Order] = 0]
        \/ memory' = NoMemory
    BY <1>3
  <2>3. vol' \in [Vols -> 0..Absent]
    BY <1>0, <1>3, Numbers DEF TypedVol
  <2> QED
    BY <1>4, <2>1, <2>2, <2>3 DEF NoMemory
<1>7. \A v \in Vols : (Exists(v)' <=> Exists(v) \/ (v = w /\ a /= "fails"))
  <2>1. w \in Vols
    BY <1>2, <1>4, Numbers
  <2> QED
    BY <1>0, <1>3, <2>1, Numbers DEF TypedVol, Exists
<1>11. TypedRun'
  BY <1>0, <1>1, <1>3, <1>4, <1>5, <1>6
     DEF TypedRun
<1>12. TypedCtl'
  BY <1>5
<1>13. TypedFaults'
  BY <1>0, <1>1, Heard
     DEF PvcApply, TypedFaults
<1>14. TypedVm'
  BY <1>0, <1>4 DEF TypedVm
<1>15. TypedMemory'
  BY <1>0, <1>4, <1>6 DEF TypedMemory
<1>16. TypedVol'
  BY <1>6 DEF TypedVol
<1>17. Frame'
  <2>1. pc' \in {"create", "apply", "ocCleanup"} /\ ~known' /\ dest' = << >>
        /\ (pc' = "create" => at' <= Len(spec)) /\ (pc' = "apply" => at' = 1)
    BY <1>4, <1>5
  <2> QED
    BY <1>0, <1>1, <1>4, <2>1, OpenshiftForm, SameRun
       DEF Frame, Staging, Built, Steps, Whole, Loops
<1>18. Untouched'
  BY <1>0, <1>1, OpenshiftForm, SameRun, <1>3, <1>4, <1>5, <1>6
     DEF Untouched, Staging
<1>19. Bodies'
  BY <1>0, <1>1, OpenshiftForm, SameRun, <1>3, <1>4, <1>5, <1>6
     DEF Bodies, Staging, Frame, Built, Hear, HearCleanup, Checked, Unchecked,
        Effect
<1>20. Leftovers'
  BY <1>0, <1>1, OpenshiftForm, SameRun, <1>3, <1>4, <1>5, <1>6
     DEF Leftovers, Staging, Frame, Built, Hear, HearCleanup, Checked, Unchecked,
        Effect
<1>21. Rollback'
  <2> SUFFICES ASSUME ~missed' PROVE Rollback'
    BY DEF Rollback
  <2>1. ~missed /\ ~Over
    BY <1>0, <1>3, <1>4, Heard DEF Over
  <2>2. \A v \in Vols : Exists(v)' => \E o \in Orders' : v = (FirstWith(o))'
    <3>1. \A v \in Vols : Exists(v) => \E o \in Orders : v = FirstWith(o)
      BY <1>0, <1>1, <2>1 DEF Rollback, Standing
    <3>2. \A v \in Vols : Exists(v)' => \E o \in Orders : v = FirstWith(o)
      BY <1>4, <1>7, <3>1 DEF w
    <3> QED
      BY <1>1, <3>2, SameSpec
  <2>3. pc' \in {"create", "apply", "ocCleanup"} /\ ~vm'
    BY <1>4, <1>5
  <2> QED
    BY <1>1, <2>2, <2>3 DEF Rollback, Over, Disowned, Standing
<1>22. Provision'
  <2> SUFFICES ASSUME Good', pc' \in {"create", "apply"} PROVE Provision'
    BY <1>1, <1>5, OpenshiftForm, SameRun DEF Provision, Built
  <2>1. Good /\ a = "ok"
    BY <1>0, <1>1, <1>3, <1>5, Heard, SameSpec DEF Good, Passed, Checked
  <2>2. Recalled(memory, spec, at - 1)
    BY <1>0, <1>1, <1>4, <2>1 DEF Provision
  <2>3. memory' = [memory EXCEPT ![spec[at].order] = at]
    BY <1>3, <1>4, <2>1 DEF Good
  <2>4. memory \in [Addr -> Nat]
    BY <1>0, Numbers DEF TypedMemory
  <2>5. Recalled(memory', spec, at)
    BY <1>2, <1>4, <2>1, <2>2, <2>3, <2>4, NextRecalled DEF Good
  <2>6. \/ pc' = "create" /\ at' - 1 = at
        \/ pc' = "apply" /\ at = Len(spec)
    BY <1>2, <1>4, <1>5, <2>1 DEF Positions
  <2> QED
    BY <1>1, <2>5, <2>6, OpenshiftForm, SameRun DEF Provision, Built
<1>23. Attachment'
  BY <1>0, <1>1, OpenshiftForm, SameRun, <1>3, <1>4, <1>5, <1>6
     DEF Attachment, Good, Built, Hear, HearCleanup, Checked, Unchecked, Effect
<1>24. Contents'
  BY <1>0, <1>1, OpenshiftForm, SameRun, <1>3, <1>4, <1>5, <1>6
     DEF Contents, Good, Built, Hear, HearCleanup, Checked, Unchecked, Effect
<1>25. Backed'
  <2> SUFFICES ASSUME ~missed' PROVE Backed'
    BY DEF Backed
  <2>1. ~missed /\ ~Over /\ Provisioned
    BY <1>0, <1>1, <1>3, <1>4, Heard, OpenshiftForm DEF Over
  <2>2. \A o \in Addr : memory'[o] /= 0 => vol'[memory'[o]] /= Absent
    <3> SUFFICES ASSUME NEW o \in Addr, memory'[o] /= 0 PROVE vol'[memory'[o]] /= Absent
      OBVIOUS
    <3>1. CASE memory'[o] = memory[o]
      <4>1. memory[o] \in Vols /\ Exists(memory[o])
        BY <1>0, <2>1, <3>1, Numbers DEF Backed, TypedMemory
      <4> QED
        BY <1>7, <3>1, <4>1 DEF Exists
    <3>2. CASE memory'[o] = w /\ memory'[o] /= memory[o]
      <4>1. a = "ok"
        BY <1>0, <1>3, <1>4, <3>2, Heard DEF NoMemory, TypedMemory
      <4>2. w \in Vols
        BY <1>2, <1>4, Numbers
      <4> QED
        BY <1>7, <3>2, <4>1, <4>2 DEF Exists
    <3> QED
      BY <1>6, <3>1, <3>2
  <2>3. pc' \in {"create", "apply", "ocCleanup"}
    BY <1>5
  <2> QED
    BY <1>1, <2>2, <2>3, OpenshiftForm, SameRun DEF Backed, Exists
<1> QED
  BY <1>11, <1>12, <1>13, <1>14, <1>15, <1>16, <1>17, <1>18, <1>19, <1>20, <1>21,
     <1>22, <1>23, <1>24, <1>25 DEF IInv, Types

\* OpenShift: the VM has a device for each PVC, the boot disk's first in its boot order.
LEMMA VmApplyStep ==
    ASSUME IInv, VmApply
    PROVE  IInv'
<1> USE DEF At, Outside, Goto, Leave, srcVars, ctlVars, memVars, vmVars, faultVars
<1>0. /\ TypedRun /\ TypedCtl /\ TypedFaults /\ TypedVm /\ TypedMemory /\ TypedVol
      /\ Frame /\ Untouched /\ Bodies /\ Leftovers /\ Rollback /\ Provision
      /\ Attachment /\ Contents /\ Backed
  BY DEF IInv, Types
<1>1. opt.dst = "openshift" /\ opt' = opt /\ spec' = spec
  BY DEF VmApply
<1>2. /\ Captures /\ Len(spec) \in Nat /\ Len(spec) <= NDisks /\ at \in Nat
      /\ Positions \subseteq Disks
      /\ \A i \in Positions : spec[i].order \in Addr /\ spec[i].disk \in Disks
      /\ pc \in Loops => at \in Positions /\ Order \in Addr /\ at <= Len(spec)
      /\ pc \notin NoSpec \/ known =>
            spec /= << >> /\ BootDisk \in Positions /\ 1 \in Positions
  BY <1>0, Here
<1>3. PICK a \in Checked :
         /\ Hear(a, Checked)
         /\ IF Effect(a)
            THEN VmWith([d \in InList |-> FirstWith(spec[d + 1].order)], BootDisk - 1)
            ELSE UNCHANGED <<vm, slot, boots, rdm, native, home>>
         /\ others' \subseteq others
         /\ IF a = "ok" THEN known' = TRUE /\ memory' = memory /\ pc' = "disk"
            ELSE known' = known /\ memory' = NoMemory /\ pc' = "ocCleanup"
         /\ UNCHANGED <<noted, dest, at, tries>>
  BY DEF VmApply, Ready
<1>4. /\ UNCHANGED <<srcVars, shares, extra, at, tries, dest, vol, noted>>
      /\ pc = "apply" /\ ~known /\ dest = << >> /\ rdm = {} /\ native = {} /\ at = 1
      /\ spec /= << >> /\ (~missed => ~vm) /\ others' \subseteq others
      /\ pc' \in {"disk", "ocCleanup"} /\ pc' = (IF a = "ok" THEN "disk" ELSE "ocCleanup")
      /\ "recorded" \in extra' => "recorded" \in extra
  BY <1>0, <1>1, <1>2, <1>3, OpenshiftForm
     DEF VmApply, Ready, Frame, Bodies, TypedVm, NoSpec, Built, Whole, Rollback, Disowned, Over
<1>5. /\ UNCHANGED <<rdm, native, home>>
      /\ \/ /\ Effect(a) /\ vm' = TRUE /\ boots' \in InList
            /\ slot' \in [Addr -> {0} \union Disks]
            /\ DistinctOrders => OnePerAddr(slot', Len(spec)) /\ slot'[boots'] = BootDisk
         \/ ~Effect(a) /\ UNCHANGED <<vm, slot, boots>>
  <2>1. CASE Effect(a)
    <3> DEFINE volume == [d \in InList |-> FirstWith(spec[d + 1].order)]
    <3>1. VmWith(volume, BootDisk - 1)
      BY <1>3, <2>1
    <3>2. \A d \in InList : d + 1 \in Positions /\ spec[d + 1].order \in Orders
      <4>1. \A d \in InList : d \in Nat /\ d < Len(spec)
        BY Numbers DEF InList
      <4> QED
        BY <1>2, <4>1 DEF Positions, Orders
    <3>3. \A d \in InList : /\ FirstWith(spec[d + 1].order) \in Disks
                            /\ DistinctOrders => FirstWith(spec[d + 1].order) = d + 1
      BY <1>2, <3>2, FirstWithIsOne
    <3>4. volume \in [InList -> {0} \union Disks]
          /\ (DistinctOrders => \A d \in InList : volume[d] = d + 1)
      BY <3>3
    <3> HIDE DEF volume
    <3>5. /\ slot' \in [Addr -> {0} \union Disks] /\ boots' \in InList
          /\ DistinctOrders => OnePerAddr(slot', Len(spec)) /\ slot'[boots'] = BootDisk
      BY <1>2, <1>4, <3>1, <3>4, AsCaptured
    <3>6. vm' = TRUE /\ UNCHANGED <<rdm, native, home>>
      BY <3>1 DEF VmWith
    <3> QED
      BY <2>1, <3>5, <3>6
  <2>2. CASE ~Effect(a)
    BY <1>3, <2>2
  <2> QED
    BY <2>1, <2>2
<1>9. Attachment' /\ Contents'
  <2>1. CASE pc' = "ocCleanup" \/ ~Good'
    BY <1>1, <2>1, OpenshiftForm, SameRun DEF Attachment, Contents, Built
  <2>2. CASE pc' = "disk" /\ Good'
    <3>1. pc \in Making /\ Good
      BY <1>0, <1>1, <1>3, <1>4, <2>2, OpenshiftForm, SameSpec, Heard DEF Good
    <3>2. \A v \in Vols : Exists(v) => \E o \in Orders : v = FirstWith(o)
      BY <1>0, <1>1, <1>4, <3>1 DEF Rollback, Standing, Over, Good
    <3>3. \A v \in Vols : Exists(v) => v \in Positions
      BY <1>2, <3>2, FirstWithIsOne
    <3> QED
      BY <1>1, <1>4, <1>5, <2>2, <3>1, <3>3, VmHandedOver, OpenshiftForm
  <2> QED
    BY <1>4, <2>1, <2>2
<1>11. TypedRun'
  BY <1>0, <1>1, <1>3, <1>4, <1>5
     DEF TypedRun
<1>12. TypedCtl'
  BY <1>0, <1>1, PartsAssumption, <1>3, <1>4, <1>5
     DEF TypedCtl
<1>13. TypedFaults'
  BY <1>0, <1>1, Heard
     DEF VmApply, TypedFaults
<1>14. TypedVm'
  <2>1. slot' \in [Addr -> ({0} \union Vols) \ {Scratch}] /\ boots' \in Addr \union {Nowhere}
    <3>1. {0} \union Disks \subseteq ({0} \union Vols) \ {Scratch} /\ InList \subseteq Addr
      BY Numbers DEF InList
    <3> QED
      BY <1>0, <1>5, <3>1 DEF TypedVm
  <2>2. vm' \in BOOLEAN /\ home' \in BOOLEAN
    BY <1>0, <1>5 DEF TypedVm
  <2> QED
    BY <1>0, <1>4, <1>5, <2>1, <2>2 DEF TypedVm
<1>15. TypedMemory'
  <2>1. memory' \in [Addr -> {0} \union Disks] /\ known' \in BOOLEAN
    BY <1>0, <1>3 DEF TypedMemory, NoMemory
  <2> QED
    BY <1>0, <1>4, <2>1 DEF TypedMemory
<1>16. TypedVol'
  BY <1>0, <1>1, <1>3, <1>4, <1>5
     DEF TypedVol, Hear, HearCleanup, Checked, Unchecked, Effect
<1>17. Frame'
  BY <1>0, <1>1, OpenshiftForm, SameRun, <1>3, <1>4, <1>5
     DEF Frame, Staging, Built, Steps, Whole, Loops, Hear, HearCleanup, Checked,
        Unchecked, Effect
<1>18. Untouched'
  BY <1>0, <1>1, OpenshiftForm, SameRun, <1>3, <1>4, <1>5
     DEF Untouched, Staging
<1>19. Bodies'
  BY <1>0, <1>1, OpenshiftForm, SameRun, <1>3, <1>4, <1>5
     DEF Bodies, Staging, Frame, Built, Hear, HearCleanup, Checked, Unchecked,
        Effect
<1>20. Leftovers'
  BY <1>0, <1>1, OpenshiftForm, SameRun, <1>3, <1>4, <1>5
     DEF Leftovers, Staging, Frame, Built, Hear, HearCleanup, Checked, Unchecked,
        Effect
<1>21. Rollback'
  <2> SUFFICES ASSUME ~missed' PROVE Rollback'
    BY DEF Rollback
  <2>1. ~missed /\ Standing /\ (a = "ok" \/ a = "fails")
    BY <1>0, <1>3, <1>4, Heard DEF Over, Rollback, Checked
  <2>2. \A v \in Vols : Exists(v)' => \E o \in Orders' : v = (FirstWith(o))'
    BY <1>1, <1>4, <2>1, SameSpec DEF Standing, Exists
  <2>3. a = "ok" => known' /\ pc' = "disk"
    BY <1>3
  <2>4. a = "fails" => ~vm' /\ pc' = "ocCleanup"
    BY <1>4, <1>5, <2>1 DEF Effect
  <2> QED
    BY <1>1, <2>1, <2>2, <2>3, <2>4 DEF Rollback, Over, Disowned, Standing
<1>22. Provision'
  <2> SUFFICES ASSUME Good', pc' = "disk" PROVE Provision'
    BY <1>1, <1>4, OpenshiftForm, SameRun DEF Provision, Built
  <2>1. Good /\ a = "ok" /\ Effect(a)
    BY <1>0, <1>1, <1>3, <1>4, Heard, SameSpec DEF Good, Effect
  <2>2. Recalled(memory', spec', Len(spec'))
    BY <1>0, <1>1, <1>3, <1>4, <2>1 DEF Provision
  <2>3. OnePerAddr(slot', Len(spec')) /\ boots' \in InList' /\ slot'[boots'] = BootDisk'
    BY <1>1, <1>5, <2>1, SameSpec DEF Good
  <2> QED
    BY <1>1, <2>2, <2>3 DEF Provision
<1>23. Attachment'
  BY <1>9
<1>24. Contents'
  BY <1>9
<1>25. Backed'
  <2> SUFFICES ASSUME ~missed' PROVE Backed'
    BY DEF Backed
  <2>1. ~missed /\ ~Over /\ Provisioned
    BY <1>0, <1>1, <1>3, <1>4, Heard, OpenshiftForm DEF Over
  <2>2. \A o \in Addr : memory'[o] /= 0 => vol'[memory'[o]] /= Absent
    BY <1>0, <1>3, <1>4, <2>1 DEF Backed, Exists, NoMemory
  <2> QED
    BY <1>1, <1>4, <2>2, OpenshiftForm DEF Backed, Exists
<1> QED
  BY <1>11, <1>12, <1>13, <1>14, <1>15, <1>16, <1>17, <1>18, <1>19, <1>20, <1>21,
     <1>22, <1>23, <1>24, <1>25 DEF IInv, Types

\* OpenShift: all PVCs of the namespace go, or the failure is missed.
LEMMA OcCleanupStep ==
    ASSUME IInv, OcCleanup
    PROVE  IInv'
<1> USE DEF At, Outside, Goto, Leave, srcVars, ctlVars, memVars, vmVars, faultVars
<1>0. /\ TypedRun /\ TypedCtl /\ TypedFaults /\ TypedVm /\ TypedMemory /\ TypedVol
      /\ Frame /\ Untouched /\ Bodies /\ Leftovers /\ Rollback /\ Provision
      /\ Attachment /\ Contents /\ Backed
  BY DEF IInv, Types
<1>1. opt.dst = "openshift" /\ opt' = opt /\ spec' = spec
  BY DEF OcCleanup
<1>2. /\ Captures /\ Len(spec) \in Nat /\ Len(spec) <= NDisks /\ at \in Nat
      /\ Positions \subseteq Disks
      /\ \A i \in Positions : spec[i].order \in Addr /\ spec[i].disk \in Disks
      /\ pc \in Loops => at \in Positions /\ Order \in Addr /\ at <= Len(spec)
      /\ pc \notin NoSpec \/ known =>
            spec /= << >> /\ BootDisk \in Positions /\ 1 \in Positions
  BY <1>0, Here
<1>3. /\ \E b \in Unchecked : HearCleanup(b, Unchecked)
      /\ ~missed' => /\ ~missed /\ vm' = FALSE /\ slot' = NoDevices /\ home' = FALSE
                     /\ vol' = Without(Vols)
      /\ \/ VmGone
         \/ UNCHANGED <<vm, slot, boots, rdm, native, home>>
      /\ vol' \in {vol, Without(Vols)} /\ others' \subseteq others
      /\ UNCHANGED <<srcVars, shares, extra, at, tries, known, memory, noted, dest>>
      /\ pc = "ocCleanup" /\ pc' = "undo"
      /\ "recorded" \in extra' => "recorded" \in extra
  <2>1. PICK a, b \in Unchecked :
           /\ \E worse \in {a, b} :
                 HearCleanup(worse, Unchecked) /\ (worse = "ok" => {a, b} = {"ok"})
           /\ IF a = "ok" THEN VmGone ELSE UNCHANGED <<vm, slot, boots, rdm, native, home>>
           /\ vol' = IF b = "ok" THEN Without(Vols) ELSE vol
           /\ others' \subseteq others
    BY DEF OcCleanup, NameGone
  <2>2. /\ UNCHANGED <<srcVars, shares, extra, at, tries, known, memory, noted, dest>>
        /\ pc = "ocCleanup" /\ pc' = "undo"
    BY DEF OcCleanup
  <2>3. ~missed' => ~missed /\ a = "ok" /\ b = "ok"
    BY <1>0, <2>1 DEF HearCleanup, TypedFaults, Unchecked
  <2>4. \E c \in Unchecked : HearCleanup(c, Unchecked)
    BY <2>1
  <2>5. VmGone => vm' = FALSE /\ slot' = NoDevices /\ home' = FALSE
    BY DEF VmGone
  <2> QED
    BY <2>1, <2>2, <2>3, <2>4, <2>5
<1>11. TypedRun'
  BY <1>0, <1>1, <1>3
     DEF TypedRun
<1>12. TypedCtl'
  BY <1>0, <1>1, PartsAssumption, <1>3
     DEF TypedCtl
<1>13. TypedFaults'
  BY <1>0, <1>3, Heard
<1>14. TypedVm'
  BY <1>0, <1>3, Numbers DEF TypedVm, VmGone, NoDevices
<1>15. TypedMemory'
  BY <1>0, <1>1, <1>3
     DEF TypedMemory, Hear, HearCleanup, Checked, Unchecked, Effect
<1>16. TypedVol'
  BY <1>0, <1>3, Numbers DEF TypedVol, Without
<1>17. Frame'
  BY <1>0, <1>1, OpenshiftForm, SameRun, <1>3
     DEF Frame, Staging, Built, Steps, Whole, Loops, Hear, HearCleanup, Checked,
        Unchecked, Effect
<1>18. Untouched'
  BY <1>0, <1>1, OpenshiftForm, SameRun, <1>3
     DEF Untouched, Staging
<1>19. Bodies'
  BY <1>0, <1>1, <1>3, OpenshiftForm, SameRun DEF Bodies, Built, VmGone, NoDevices, Frame
<1>20. Leftovers'
  BY <1>0, <1>1, OpenshiftForm, SameRun, <1>3
     DEF Leftovers, Staging, Frame, Built, Hear, HearCleanup, Checked, Unchecked,
        Effect
<1>21. Rollback'
  <2>1. ~missed' => ~vm' /\ \A v \in Vols : ~Exists(v)'
    BY <1>3 DEF Without, Exists
  <2>2. rdm' = {}
    BY <1>0, <1>1, <1>3 DEF Bodies, VmGone
  <2> QED
    BY <2>1, <2>2, NothingYet DEF Rollback
<1>22. Provision'
  BY <1>0, <1>1, OpenshiftForm, SameRun, <1>3
     DEF Provision, Good, Built, Hear, HearCleanup, Checked, Unchecked, Effect
<1>23. Attachment'
  BY <1>0, <1>1, OpenshiftForm, SameRun, <1>3
     DEF Attachment, Good, Built, Hear, HearCleanup, Checked, Unchecked, Effect
<1>24. Contents'
  BY <1>0, <1>1, OpenshiftForm, SameRun, <1>3
     DEF Contents, Good, Built, Hear, HearCleanup, Checked, Unchecked, Effect
<1>25. Backed'
  <2>1. ~known'
    BY <1>0, <1>1, <1>3, OpenshiftForm DEF Frame
  <2> QED
    BY <1>1, <1>3, <2>1, OpenshiftForm, SameRun DEF Backed, Over, Built
<1> QED
  BY <1>11, <1>12, <1>13, <1>14, <1>15, <1>16, <1>17, <1>18, <1>19, <1>20, <1>21,
     <1>22, <1>23, <1>24, <1>25 DEF IInv, Types

\* OpenShift: the PVCs of the spec's orders go, which are all there are.
LEMMA OcDeleteStep ==
    ASSUME IInv, OcDelete
    PROVE  IInv'
<1> USE DEF At, Outside, Goto, Leave, srcVars, ctlVars, memVars, vmVars, faultVars
<1>0. /\ TypedRun /\ TypedCtl /\ TypedFaults /\ TypedVm /\ TypedMemory /\ TypedVol
      /\ Frame /\ Untouched /\ Bodies /\ Leftovers /\ Rollback /\ Provision
      /\ Attachment /\ Contents /\ Backed
  BY DEF IInv, Types
<1>1. opt.dst = "openshift" /\ opt' = opt /\ spec' = spec
  BY DEF OcDelete
<1>2. /\ Captures /\ Len(spec) \in Nat /\ Len(spec) <= NDisks /\ at \in Nat
      /\ Positions \subseteq Disks
      /\ \A i \in Positions : spec[i].order \in Addr /\ spec[i].disk \in Disks
      /\ pc \in Loops => at \in Positions /\ Order \in Addr /\ at <= Len(spec)
      /\ pc \notin NoSpec \/ known =>
            spec /= << >> /\ BootDisk \in Positions /\ 1 \in Positions
  BY <1>0, Here
<1>3. /\ \E b \in Unchecked : HearCleanup(b, Unchecked)
      /\ ~missed' => /\ ~missed /\ vm' = FALSE /\ slot' = NoDevices /\ home' = FALSE
                     /\ vol' = Without({FirstWith(o) : o \in Orders})
      /\ \/ VmGone
         \/ UNCHANGED <<vm, slot, boots, rdm, native, home>>
      /\ vol' \in {vol, Without({FirstWith(o) : o \in Orders})} /\ others' \subseteq others
      /\ UNCHANGED <<srcVars, shares, extra, at, tries, known, memory, noted, dest>>
      /\ pc = "teardown" /\ pc' = "unstage"
      /\ "recorded" \in extra' => "recorded" \in extra
  <2>1. PICK a, b \in Unchecked :
           /\ \E worse \in {a, b} :
                 HearCleanup(worse, Unchecked) /\ (worse = "ok" => {a, b} = {"ok"})
           /\ IF a = "ok" THEN VmGone ELSE UNCHANGED <<vm, slot, boots, rdm, native, home>>
           /\ vol' = IF b = "ok" THEN Without({FirstWith(o) : o \in Orders}) ELSE vol
           /\ others' \subseteq others
    BY DEF OcDelete, NameGone
  <2>2. /\ UNCHANGED <<srcVars, shares, extra, at, tries, known, memory, noted, dest>>
        /\ pc = "teardown" /\ pc' = "unstage"
    BY DEF OcDelete
  <2>3. ~missed' => ~missed /\ a = "ok" /\ b = "ok"
    BY <1>0, <2>1 DEF HearCleanup, TypedFaults, Unchecked
  <2>4. \E c \in Unchecked : HearCleanup(c, Unchecked)
    BY <2>1
  <2>5. VmGone => vm' = FALSE /\ slot' = NoDevices /\ home' = FALSE
    BY DEF VmGone
  <2> QED
    BY <2>1, <2>2, <2>3, <2>4, <2>5
<1>11. TypedRun'
  BY <1>0, <1>1, <1>3
     DEF TypedRun
<1>12. TypedCtl'
  BY <1>0, <1>1, PartsAssumption, <1>3
     DEF TypedCtl
<1>13. TypedFaults'
  BY <1>0, <1>3, Heard
<1>14. TypedVm'
  BY <1>0, <1>3, Numbers DEF TypedVm, VmGone, NoDevices
<1>15. TypedMemory'
  BY <1>0, <1>1, <1>3
     DEF TypedMemory, Hear, HearCleanup, Checked, Unchecked, Effect
<1>16. TypedVol'
  BY <1>0, <1>3, Numbers DEF TypedVol, Without
<1>17. Frame'
  BY <1>0, <1>1, OpenshiftForm, SameRun, <1>3
     DEF Frame, Staging, Built, Steps, Whole, Loops, Hear, HearCleanup, Checked,
        Unchecked, Effect
<1>18. Untouched'
  BY <1>0, <1>1, OpenshiftForm, SameRun, <1>3
     DEF Untouched, Staging
<1>19. Bodies'
  BY <1>0, <1>1, <1>3, OpenshiftForm, SameRun DEF Bodies, Built, VmGone, NoDevices, Frame
<1>20. Leftovers'
  BY <1>0, <1>1, OpenshiftForm, SameRun, <1>3
     DEF Leftovers, Staging, Frame, Built, Hear, HearCleanup, Checked, Unchecked,
        Effect
<1>21. Rollback'
  <2> SUFFICES ASSUME ~missed' PROVE Rollback'
    BY DEF Rollback
  <2>1. \A v \in Vols : Exists(v) => \E o \in Orders : v = FirstWith(o)
    BY <1>0, <1>1, <1>3 DEF Rollback, Over, Standing
  <2>2. \A v \in Vols : ~Exists(v)'
    BY <1>3, <2>1 DEF Without, Exists
  <2>3. rdm' = {} /\ ~vm'
    BY <1>0, <1>1, <1>3 DEF Bodies, VmGone
  <2> QED
    BY <2>2, <2>3, NothingYet
<1>22. Provision'
  BY <1>0, <1>1, OpenshiftForm, SameRun, <1>3
     DEF Provision, Good, Built, Hear, HearCleanup, Checked, Unchecked, Effect
<1>23. Attachment'
  BY <1>0, <1>1, OpenshiftForm, SameRun, <1>3
     DEF Attachment, Good, Built, Hear, HearCleanup, Checked, Unchecked, Effect
<1>24. Contents'
  BY <1>0, <1>1, OpenshiftForm, SameRun, <1>3
     DEF Contents, Good, Built, Hear, HearCleanup, Checked, Unchecked, Effect
<1>25. Backed'
  BY <1>0, <1>1, OpenshiftForm, SameRun, <1>3
     DEF Backed, Over, Exists, Built, Hear, HearCleanup, Checked, Unchecked, Effect
<1> QED
  BY <1>11, <1>12, <1>13, <1>14, <1>15, <1>16, <1>17, <1>18, <1>19, <1>20, <1>21,
     <1>22, <1>23, <1>24, <1>25 DEF IInv, Types

\* OpenStack: the volume is remembered only when available.
LEMMA CinderCreateStep ==
    ASSUME IInv, CinderCreate
    PROVE  IInv'
<1> USE DEF At, Outside, Goto, Leave, srcVars, ctlVars, memVars, vmVars, faultVars
<1>0. /\ TypedRun /\ TypedCtl /\ TypedFaults /\ TypedVm /\ TypedMemory /\ TypedVol
      /\ Frame /\ Untouched /\ Bodies /\ Leftovers /\ Rollback /\ Provision
      /\ Attachment /\ Contents /\ Backed
  BY DEF IInv, Types
<1>1. opt.dst = "openstack" /\ opt' = opt /\ spec' = spec
  BY DEF CinderCreate
<1>2. /\ Captures /\ Len(spec) \in Nat /\ Len(spec) <= NDisks /\ at \in Nat
      /\ Positions \subseteq Disks
      /\ \A i \in Positions : spec[i].order \in Addr /\ spec[i].disk \in Disks
      /\ pc \in Loops => at \in Positions /\ Order \in Addr /\ at <= Len(spec)
      /\ pc \notin NoSpec \/ known =>
            spec /= << >> /\ BootDisk \in Positions /\ 1 \in Positions
  BY <1>0, Here
<1>3. PICK a \in Checked :
         /\ Hear(a, Checked)
         /\ vol' = IF Effect(a) THEN [vol EXCEPT ![at] = Blank] ELSE vol
         /\ memory' = IF a = "ok" THEN [memory EXCEPT ![Order] = at] ELSE memory
         /\ extra' = IF a = "ok" /\ spec[at].boot THEN extra \union {"timeout"} ELSE extra
         /\ IF a = "ok" THEN Loop("create", "ports") ELSE Goto("osCleanup")
  BY DEF CinderCreate
<1>4. /\ UNCHANGED <<srcVars, shares, others, known, noted, dest, vm, slot, boots, rdm,
                     native, home>>
      /\ pc = "create" /\ ~vm /\ ~known /\ dest = << >> /\ rdm = {} /\ native = {} /\ ~home
      /\ spec /= << >> /\ at \in Positions /\ Order \in Addr /\ spec[at].order = Order
      /\ "recorded" \in extra' => "recorded" \in extra
      /\ extra' \subseteq extra \union {"timeout"} /\ extra \subseteq extra'
  <2>1. /\ pc = "create" /\ ~vm /\ ~known /\ dest = << >> /\ rdm = {} /\ native = {} /\ ~home
        /\ UNCHANGED <<srcVars, shares, others, known, noted, dest, vm, slot, boots, rdm,
                       native, home>>
    BY <1>0, <1>1, OpenstackForm DEF CinderCreate, Frame, Bodies, TypedVm
  <2>2. /\ spec /= << >> /\ at \in Positions /\ Order \in Addr /\ spec[at].order = Order
    BY <1>2, <2>1 DEF NoSpec, Loops, Order
  <2>3. /\ extra' \subseteq extra \union {"timeout"} /\ extra \subseteq extra'
        /\ ("recorded" \in extra' => "recorded" \in extra)
    BY <1>3
  <2> QED
    BY <2>1, <2>2, <2>3
<1>5. /\ TypedCtl'
      /\ \/ a = "ok" /\ at < Len(spec) /\ at' = at + 1 /\ at' <= Len(spec) /\ pc' = "create"
         \/ a = "ok" /\ ~(at < Len(spec)) /\ at' = 1 /\ pc' = "ports"
         \/ a /= "ok" /\ at' = at /\ pc' = "osCleanup"
  <2>1. CASE a = "ok"
    BY <1>0, <1>2, <1>3, <2>1, Looped
  <2>2. CASE a /= "ok"
    BY <1>0, <1>3, <2>2 DEF TypedCtl
  <2> QED
    BY <2>1, <2>2
<1>6. /\ memory' \in [Addr -> {0} \union Disks] /\ vol' \in [Vols -> 0..Absent]
      /\ \A o \in Addr : memory'[o] = IF a = "ok" /\ o = Order THEN at ELSE memory[o]
      /\ \A v \in Vols : (Exists(v)' <=> Exists(v) \/ (v = at /\ Effect(a)))
  <2>1. memory \in [Addr -> {0} \union Disks] /\ at \in Disks /\ at \in Vols
    BY <1>0, <1>2, <1>4, Numbers DEF TypedMemory
  <2>2. vol' \in [Vols -> 0..Absent]
    BY <1>0, <1>3, Numbers DEF TypedVol
  <2>3. \A v \in Vols : (Exists(v)' <=> Exists(v) \/ (v = at /\ Effect(a)))
    BY <1>0, <1>3, <2>1, Numbers DEF TypedVol, Exists
  <2>4. CASE a = "ok"
    <3>1. memory' = [memory EXCEPT ![Order] = at]
      BY <1>3, <2>4
    <3> QED
      BY <1>4, <2>1, <2>2, <2>3, <2>4, <3>1
  <2>5. CASE a /= "ok"
    <3>1. memory' = memory
      BY <1>3, <2>5
    <3> QED
      BY <2>1, <2>2, <2>3, <2>5, <3>1
  <2> QED
    BY <2>4, <2>5
<1>11. TypedRun'
  BY <1>0, <1>1, <1>4 DEF TypedRun
<1>12. TypedCtl'
  BY <1>5
<1>13. TypedFaults'
  BY <1>0, <1>1, Heard
     DEF CinderCreate, TypedFaults
<1>14. TypedVm'
  BY <1>0, <1>4 DEF TypedVm
<1>15. TypedMemory'
  BY <1>0, <1>4, <1>6 DEF TypedMemory
<1>16. TypedVol'
  BY <1>6 DEF TypedVol
<1>17. Frame'
  <2>1. pc' \in {"create", "ports", "osCleanup"} /\ ~known' /\ dest' = << >>
        /\ (pc' = "create" => at' <= Len(spec)) /\ (pc' = "ports" => at' = 1)
    BY <1>4, <1>5
  <2> QED
    BY <1>0, <1>1, <1>4, <2>1, OpenstackForm, SameRun
       DEF Frame, Staging, Built, Steps, Whole, Loops
<1>18. Untouched'
  BY <1>0, <1>1, OpenstackForm, SameRun, <1>3, <1>4, <1>5, <1>6
     DEF Untouched, Staging
<1>19. Bodies'
  BY <1>0, <1>1, OpenstackForm, SameRun, <1>3, <1>4, <1>5, <1>6
     DEF Bodies, Staging, Frame, Built, Hear, HearCleanup, Checked, Unchecked,
        Effect
<1>20. Leftovers'
  <2>1. pc' \in {"create", "ports", "osCleanup"} /\ known' = known
    BY <1>4, <1>5
  <2>2. ~missed' => ~missed
    BY <1>0, <1>3, Heard
  <2> QED
    BY <1>0, <1>1, <1>4, <2>1, <2>2, OpenstackForm, SameRun DEF Leftovers, Staging, Built
<1>21. Rollback'
  <2> SUFFICES ASSUME ~missed' PROVE Rollback'
    BY DEF Rollback
  <2>1. ~missed /\ ~Over /\ (Effect(a) => a = "ok")
    BY <1>0, <1>3, <1>4, Heard DEF Over, Effect
  <2>2. ASSUME DistinctOrders, NEW v \in Vols, Exists(v)'
        PROVE  v \in Positions /\ memory'[spec[v].order] = v
    <3>1. Exists(v) => v \in Positions /\ memory[spec[v].order] = v
      BY <1>0, <1>1, <2>1, <2>2 DEF Rollback, Standing
    <3>2. (v = at /\ a = "ok") \/ Exists(v)
      BY <1>6, <2>1, <2>2
    <3>3. v \in Positions /\ spec[v].order \in Addr
      BY <1>2, <1>4, <3>1, <3>2
    <3>4. spec[v].order = Order => v = at
      BY <1>4, <2>2, <3>3 DEF DistinctOrders
    <3> QED
      BY <1>4, <1>6, <3>1, <3>2, <3>3, <3>4
  <2>3. pc' \in {"create", "ports", "osCleanup"} /\ ~vm'
    BY <1>4, <1>5
  <2>4. DistinctOrders' => \A v \in Vols : Exists(v)' =>
              v \in Positions' /\ memory'[spec'[v].order] = v
    BY <1>1, <2>2, SameSpec
  <2> QED
    BY <1>1, <2>3, <2>4 DEF Rollback, Over, Disowned, Standing
<1>22. Provision'
  <2> SUFFICES ASSUME Good', pc' \in {"create", "ports"} PROVE Provision'
    BY <1>1, <1>5, OpenstackForm, SameRun DEF Provision, Built
  <2>1. Good /\ a = "ok"
    BY <1>0, <1>1, <1>3, <1>5, Heard, SameSpec DEF Good
  <2>2. Recalled(memory, spec, at - 1)
    BY <1>0, <1>1, <1>4, <2>1 DEF Provision
  <2>3. memory' = [memory EXCEPT ![spec[at].order] = at]
    BY <1>3, <1>4, <2>1 DEF Good
  <2>4. memory \in [Addr -> Nat]
    BY <1>0, Numbers DEF TypedMemory
  <2>5. Recalled(memory', spec, at)
    BY <1>2, <1>4, <2>1, <2>2, <2>3, <2>4, NextRecalled DEF Good
  <2>6. \/ pc' = "create" /\ at' - 1 = at
        \/ pc' = "ports" /\ at = Len(spec)
    BY <1>2, <1>4, <1>5, <2>1 DEF Positions
  <2> QED
    BY <1>1, <2>5, <2>6, OpenstackForm, SameRun DEF Provision, Built
<1>23. Attachment'
  BY <1>0, <1>1, OpenstackForm, SameRun, <1>3, <1>4, <1>5, <1>6
     DEF Attachment, Good, Built, Hear, HearCleanup, Checked, Unchecked, Effect
<1>24. Contents'
  BY <1>0, <1>1, OpenstackForm, SameRun, <1>3, <1>4, <1>5, <1>6
     DEF Contents, Good, Built, Hear, HearCleanup, Checked, Unchecked, Effect
<1>25. Backed'
  <2> SUFFICES ASSUME ~missed' PROVE Backed'
    BY DEF Backed
  <2>1. ~missed /\ ~Over /\ Provisioned
    BY <1>0, <1>1, <1>3, <1>4, Heard, OpenstackForm DEF Over
  <2>2. ASSUME NEW o \in Addr, memory'[o] /= 0
        PROVE  vol'[memory'[o]] /= Absent
    <3>1. CASE a = "ok" /\ o = Order
      <4>1. memory'[o] = at /\ at \in Vols /\ Effect(a)
        BY <1>2, <1>4, <1>6, <3>1, Numbers DEF Effect
      <4> QED
        BY <1>6, <4>1 DEF Exists
    <3>2. CASE ~(a = "ok" /\ o = Order)
      <4>1. memory'[o] = memory[o] /\ memory[o] \in Vols
        BY <1>0, <1>6, <2>2, <3>2, Numbers DEF TypedMemory
      <4>2. Exists(memory[o])
        BY <1>0, <2>1, <2>2, <4>1 DEF Backed
      <4> QED
        BY <1>6, <4>1, <4>2 DEF Exists
    <3> QED
      BY <3>1, <3>2
  <2>3. pc' \in {"create", "ports", "osCleanup"}
    BY <1>5
  <2> QED
    BY <1>1, <2>2, <2>3, OpenstackForm, SameRun DEF Backed, Exists
<1> QED
  BY <1>11, <1>12, <1>13, <1>14, <1>15, <1>16, <1>17, <1>18, <1>19, <1>20, <1>21,
     <1>22, <1>23, <1>24, <1>25 DEF IInv, Types

\* OpenStack: a port is there until the artifacts are cleaned up.
LEMMA PortCreateStep ==
    ASSUME IInv, PortCreate
    PROVE  IInv'
<1> USE DEF At, Outside, Goto, Leave, srcVars, ctlVars, memVars, vmVars, faultVars
<1>0. /\ TypedRun /\ TypedCtl /\ TypedFaults /\ TypedVm /\ TypedMemory /\ TypedVol
      /\ Frame /\ Untouched /\ Bodies /\ Leftovers /\ Rollback /\ Provision
      /\ Attachment /\ Contents /\ Backed
  BY DEF IInv, Types
<1>1. opt.dst = "openstack" /\ opt' = opt /\ spec' = spec
  BY DEF PortCreate
<1>2. /\ Captures /\ Len(spec) \in Nat /\ Len(spec) <= NDisks /\ at \in Nat
      /\ Positions \subseteq Disks
      /\ \A i \in Positions : spec[i].order \in Addr /\ spec[i].disk \in Disks
      /\ pc \in Loops => at \in Positions /\ Order \in Addr /\ at <= Len(spec)
      /\ pc \notin NoSpec \/ known =>
            spec /= << >> /\ BootDisk \in Positions /\ 1 \in Positions
  BY <1>0, Here
<1>11. TypedRun'
  BY <1>0, <1>1
     DEF PortCreate, TypedRun
<1>12. TypedCtl'
  BY <1>0, <1>1, PartsAssumption
     DEF PortCreate, TypedCtl
<1>13. TypedFaults'
  BY <1>0, <1>1, Heard
     DEF PortCreate, TypedFaults
<1>14. TypedVm'
  BY <1>0, <1>1
     DEF PortCreate, TypedVm, Hear, HearCleanup, Checked, Unchecked, Effect
<1>15. TypedMemory'
  BY <1>0, <1>1
     DEF PortCreate, TypedMemory, Hear, HearCleanup, Checked, Unchecked, Effect
<1>16. TypedVol'
  BY <1>0, <1>1
     DEF PortCreate, TypedVol, Hear, HearCleanup, Checked, Unchecked, Effect
<1>17. Frame'
  BY <1>0, <1>1, OpenstackForm, SameRun
     DEF PortCreate, Frame, Staging, Built, Steps, Whole, Loops, Hear, HearCleanup,
        Checked, Unchecked, Effect
<1>18. Untouched'
  BY <1>0, <1>1, OpenstackForm, SameRun
     DEF PortCreate, Untouched, Staging
<1>19. Bodies'
  BY <1>0, <1>1, OpenstackForm, SameRun
     DEF PortCreate, Bodies, Staging, Frame, Built, Hear, HearCleanup, Checked,
        Unchecked, Effect
<1>20. Leftovers'
  BY <1>0, <1>1, OpenstackForm, SameRun
     DEF PortCreate, Leftovers, Staging, Frame, Built, Hear, HearCleanup, Checked,
        Unchecked, Effect
<1>21. Rollback'
  <2> SUFFICES ASSUME ~missed' PROVE Rollback'
    BY DEF Rollback
  <2>1. ~missed /\ ~Over /\ ~Over' /\ UNCHANGED <<vm, known, slot, vol, memory, noted>>
    BY <1>0, <1>1 DEF PortCreate, Over, Hear, TypedFaults
  <2>2. Standing /\ Disowned
    BY <1>0, <2>1 DEF Rollback
  <2>3. DistinctOrders' => \A v \in Vols : Exists(v)' =>
              v \in Positions' /\ memory'[spec'[v].order] = v
    BY <1>1, <2>1, <2>2, SameSpec DEF Standing, Exists
  <2>4. (vm' => noted') /\ (vm' /\ ~known' => noted' /\ pc' \in {"settle", "osCleanup"})
    BY <1>0, <1>1, <2>1, <2>2 DEF Standing, Disowned, PortCreate
  <2> QED
    BY <1>1, <2>1, <2>3, <2>4 DEF Rollback, Disowned, Standing
<1>22. Provision'
  <2> SUFFICES ASSUME Good' PROVE Provision'
    BY DEF Provision
  <2>1. Good /\ pc = "ports" /\ pc' = "boot1" /\ UNCHANGED memory
    BY <1>0, <1>1, SameSpec DEF PortCreate, Good, Hear, TypedFaults
  <2> QED
    BY <1>0, <1>1, <2>1, OpenstackForm, SameRun DEF Provision, Built
<1>23. Attachment'
  BY <1>0, <1>1, OpenstackForm, SameRun
     DEF PortCreate, Attachment, Good, Built, Hear, HearCleanup, Checked,
        Unchecked, Effect
<1>24. Contents'
  BY <1>0, <1>1, OpenstackForm, SameRun
     DEF PortCreate, Contents, Good, Built, Hear, HearCleanup, Checked, Unchecked,
        Effect
<1>25. Backed'
  BY <1>0, <1>1, OpenstackForm, SameRun
     DEF PortCreate, Backed, Over, Exists, Built, Hear, HearCleanup, Checked,
        Unchecked, Effect
<1> QED
  BY <1>11, <1>12, <1>13, <1>14, <1>15, <1>16, <1>17, <1>18, <1>19, <1>20, <1>21,
     <1>22, <1>23, <1>24, <1>25 DEF IInv, Types

\* OpenStack: the instance is noted before it is waited for, so a clean-up finds it.
LEMMA NovaCreateStep ==
    ASSUME IInv, NovaCreate
    PROVE  IInv'
<1> USE DEF At, Outside, Goto, Leave, srcVars, ctlVars, memVars, vmVars, faultVars
<1>0. /\ TypedRun /\ TypedCtl /\ TypedFaults /\ TypedVm /\ TypedMemory /\ TypedVol
      /\ Frame /\ Untouched /\ Bodies /\ Leftovers /\ Rollback /\ Provision
      /\ Attachment /\ Contents /\ Backed
  BY DEF IInv, Types
<1>1. opt.dst = "openstack" /\ opt' = opt /\ spec' = spec
  BY DEF NovaCreate
<1>2. /\ Captures /\ Len(spec) \in Nat /\ Len(spec) <= NDisks /\ at \in Nat
      /\ Positions \subseteq Disks
      /\ \A i \in Positions : spec[i].order \in Addr /\ spec[i].disk \in Disks
      /\ pc \in Loops => at \in Positions /\ Order \in Addr /\ at <= Len(spec)
      /\ pc \notin NoSpec \/ known =>
            spec /= << >> /\ BootDisk \in Positions /\ 1 \in Positions
  BY <1>0, Here
<1>3. PICK a \in Checked :
         /\ \/ Hear(a, Checked) /\ DistinctOrders
            \/ a = "fails" /\ ~DistinctOrders /\ UNCHANGED faultVars
         /\ IF Effect(a)
            THEN VmWith([d \in InList |-> memory[spec[d + 1].order]], BootDisk - 1)
            ELSE UNCHANGED <<vm, slot, boots, rdm, native, home>>
         /\ noted' = (a = "ok") \/ (noted' = noted /\ ~DistinctOrders)
         /\ pc' = IF a = "ok" THEN "settle" ELSE "osCleanup"
  <2>1. CASE DistinctOrders
    BY <2>1 DEF NovaCreate
  <2>2. CASE ~DistinctOrders
    <3>1. "fails" \in Checked /\ ~Effect("fails")
      BY DEF Checked, Effect
    <3> QED
      BY <2>2, <3>1 DEF NovaCreate
  <2> QED
    BY <2>1, <2>2
<1>4. /\ UNCHANGED <<srcVars, shares, extra, others, at, tries, dest, vol, known, memory>>
      /\ pc = "boot1" /\ ~known /\ dest = << >> /\ rdm = {} /\ native = {} /\ at = 1
      /\ spec /= << >> /\ (~missed => ~vm) /\ (~missed' => ~missed)
      /\ pc' \in {"settle", "osCleanup"} /\ pc' = (IF a = "ok" THEN "settle" ELSE "osCleanup")
      /\ "recorded" \in extra' => "recorded" \in extra
  <2>1. /\ pc = "boot1" /\ ~known /\ dest = << >> /\ rdm = {} /\ native = {} /\ at = 1
        /\ spec /= << >> /\ (~missed => ~vm)
    BY <1>0, <1>1, <1>2, OpenstackForm
       DEF NovaCreate, Frame, Bodies, TypedVm, NoSpec, Whole, Rollback, Disowned, Over
  <2>2. ~missed' => ~missed
    BY <1>0, <1>3, Heard DEF TypedFaults
  <2>3. UNCHANGED <<srcVars, shares, extra, others, at, tries, dest, vol, known, memory>>
    BY DEF NovaCreate
  <2> QED
    BY <1>3, <2>1, <2>2, <2>3
<1>5. /\ UNCHANGED <<rdm, native, home>>
      /\ \/ /\ Effect(a) /\ vm' = TRUE /\ boots' \in InList
            /\ slot' \in [Addr -> {0} \union Disks]
            /\ Good => OnePerAddr(slot', Len(spec)) /\ slot'[boots'] = BootDisk
         \/ ~Effect(a) /\ UNCHANGED <<vm, slot, boots>>
  <2>1. CASE Effect(a)
    <3> DEFINE volume == [d \in InList |-> memory[spec[d + 1].order]]
    <3>1. VmWith(volume, BootDisk - 1)
      BY <1>3, <2>1
    <3>2. \A d \in InList : d + 1 \in Positions /\ spec[d + 1].order \in Addr
      <4>1. \A d \in InList : d \in Nat /\ d < Len(spec)
        BY Numbers DEF InList
      <4> QED
        BY <1>2, <4>1 DEF Positions
    <3>3. Good => \A i \in Positions : memory[spec[i].order] = i
      BY <1>0, <1>4 DEF Provision, Recalled, Positions
    <3>4. volume \in [InList -> {0} \union Disks]
          /\ (Good => \A d \in InList : volume[d] = d + 1)
      BY <1>0, <3>2, <3>3 DEF TypedMemory
    <3> HIDE DEF volume
    <3>5. /\ slot' \in [Addr -> {0} \union Disks] /\ boots' \in InList
          /\ Good => OnePerAddr(slot', Len(spec)) /\ slot'[boots'] = BootDisk
      BY <1>2, <1>4, <3>1, <3>4, AsCaptured
    <3>6. vm' = TRUE /\ UNCHANGED <<rdm, native, home>>
      BY <3>1 DEF VmWith
    <3> QED
      BY <2>1, <3>5, <3>6
  <2>2. CASE ~Effect(a)
    BY <1>3, <2>2
  <2> QED
    BY <2>1, <2>2
<1>11. TypedRun'
  BY <1>0, <1>1, <1>3, <1>4, <1>5
     DEF TypedRun
<1>12. TypedCtl'
  BY <1>0, <1>1, PartsAssumption, <1>3, <1>4, <1>5
     DEF TypedCtl
<1>13. TypedFaults'
  BY <1>0, <1>3, Heard DEF TypedFaults
<1>14. TypedVm'
  <2>1. slot' \in [Addr -> ({0} \union Vols) \ {Scratch}] /\ boots' \in Addr \union {Nowhere}
    <3>1. {0} \union Disks \subseteq ({0} \union Vols) \ {Scratch} /\ InList \subseteq Addr
      BY Numbers DEF InList
    <3> QED
      BY <1>0, <1>5, <3>1 DEF TypedVm
  <2>2. vm' \in BOOLEAN /\ home' \in BOOLEAN
    BY <1>0, <1>5 DEF TypedVm
  <2> QED
    BY <1>0, <1>4, <1>5, <2>1, <2>2 DEF TypedVm
<1>15. TypedMemory'
  BY <1>0, <1>1, <1>3, <1>4, <1>5
     DEF TypedMemory, Hear, HearCleanup, Checked, Unchecked, Effect
<1>16. TypedVol'
  BY <1>0, <1>1, <1>3, <1>4, <1>5
     DEF TypedVol, Hear, HearCleanup, Checked, Unchecked, Effect
<1>17. Frame'
  BY <1>0, <1>1, OpenstackForm, SameRun, <1>3, <1>4, <1>5
     DEF Frame, Staging, Built, Steps, Whole, Loops, Hear, HearCleanup, Checked,
        Unchecked, Effect
<1>18. Untouched'
  BY <1>0, <1>1, OpenstackForm, SameRun, <1>3, <1>4, <1>5
     DEF Untouched, Staging
<1>19. Bodies'
  BY <1>0, <1>1, OpenstackForm, SameRun, <1>3, <1>4, <1>5
     DEF Bodies, Staging, Frame, Built, Hear, HearCleanup, Checked, Unchecked,
        Effect
<1>20. Leftovers'
  BY <1>0, <1>1, OpenstackForm, SameRun, <1>3, <1>4, <1>5
     DEF Leftovers, Staging, Frame, Built, Hear, HearCleanup, Checked, Unchecked,
        Effect
<1>21. Rollback'
  <2> SUFFICES ASSUME ~missed' PROVE Rollback'
    BY DEF Rollback
  <2>1. ~missed /\ Standing /\ (a = "ok" \/ a = "fails")
    BY <1>0, <1>3, <1>4, Heard DEF Over, Rollback, Checked
  <2>3. a = "ok" => noted' /\ pc' = "settle"
    <3>1. a = "ok" => DistinctOrders
      BY <1>3
    <3> QED
      BY <1>3, <3>1
  <2>4. a = "fails" => ~vm' /\ pc' = "osCleanup"
    BY <1>4, <1>5, <2>1 DEF Effect
  <2>5. DistinctOrders' => \A v \in Vols : Exists(v)' =>
              v \in Positions' /\ memory'[spec'[v].order] = v
    BY <1>1, <1>4, <2>1, SameSpec DEF Standing, Exists
  <2>6. (vm' => noted') /\ (vm' => pc' = "settle") /\ pc' \in {"settle", "osCleanup"}
    BY <2>1, <2>3, <2>4
  <2> QED
    BY <1>1, <2>5, <2>6 DEF Rollback, Over, Disowned, Standing
<1>22. Provision'
  <2> SUFFICES ASSUME Good', pc' = "settle" PROVE Provision'
    BY <1>1, <1>4, OpenstackForm, SameRun DEF Provision, Built
  <2>1. Good /\ a = "ok" /\ Effect(a)
    BY <1>1, <1>4, SameSpec DEF Good, Effect
  <2>2. Recalled(memory', spec', Len(spec'))
    BY <1>0, <1>1, <1>4, <2>1 DEF Provision
  <2>3. OnePerAddr(slot', Len(spec')) /\ boots' \in InList' /\ slot'[boots'] = BootDisk'
    BY <1>1, <1>5, <2>1, SameSpec
  <2> QED
    BY <1>1, <1>4, <2>2, <2>3, OpenstackForm, SameRun DEF Provision, Built
<1>23. Attachment'
  BY <1>0, <1>1, OpenstackForm, SameRun, <1>3, <1>4, <1>5
     DEF Attachment, Good, Built, Hear, HearCleanup, Checked, Unchecked, Effect
<1>24. Contents'
  BY <1>0, <1>1, OpenstackForm, SameRun, <1>3, <1>4, <1>5
     DEF Contents, Good, Built, Hear, HearCleanup, Checked, Unchecked, Effect
<1>25. Backed'
  <2> SUFFICES ASSUME ~missed' PROVE Backed'
    BY DEF Backed
  <2>1. ~missed /\ ~Over /\ Provisioned
    BY <1>0, <1>1, <1>4, OpenstackForm DEF Over
  <2>2. \A o \in Addr : memory'[o] /= 0 => vol'[memory'[o]] /= Absent
    BY <1>0, <1>4, <2>1 DEF Backed, Exists
  <2> QED
    BY <1>1, <1>4, <2>2, OpenstackForm, SameRun DEF Backed, Exists, Built
<1> QED
  BY <1>11, <1>12, <1>13, <1>14, <1>15, <1>16, <1>17, <1>18, <1>19, <1>20, <1>21,
     <1>22, <1>23, <1>24, <1>25 DEF IInv, Types

\* OpenStack: the instance, once stopped, is known.
LEMMA NovaSettleStep ==
    ASSUME IInv, NovaSettle
    PROVE  IInv'
<1> USE DEF At, Outside, Goto, Leave, srcVars, ctlVars, memVars, vmVars, faultVars,
   Ready
<1>0. /\ TypedRun /\ TypedCtl /\ TypedFaults /\ TypedVm /\ TypedMemory /\ TypedVol
      /\ Frame /\ Untouched /\ Bodies /\ Leftovers /\ Rollback /\ Provision
      /\ Attachment /\ Contents /\ Backed
  BY DEF IInv, Types
<1>1. opt.dst = "openstack" /\ opt' = opt /\ spec' = spec
  BY DEF NovaSettle
<1>2. /\ Captures /\ Len(spec) \in Nat /\ Len(spec) <= NDisks /\ at \in Nat
      /\ Positions \subseteq Disks
      /\ \A i \in Positions : spec[i].order \in Addr /\ spec[i].disk \in Disks
      /\ pc \in Loops => at \in Positions /\ Order \in Addr /\ at <= Len(spec)
      /\ pc \notin NoSpec \/ known =>
            spec /= << >> /\ BootDisk \in Positions /\ 1 \in Positions
  BY <1>0, Here
<1>9. Attachment' /\ Contents'
  <2>1. CASE pc' = "osCleanup" \/ ~Good'
    BY <1>1, <2>1, OpenstackForm, SameRun DEF Attachment, Contents, Built
  <2>2. CASE pc' = "disk" /\ Good'
    <3>1. pc \in Making /\ Good
      BY <1>0, <1>1, <2>2, OpenstackForm, SameSpec DEF Good, NovaSettle, Hear, TypedFaults
    <3>2. \A v \in Vols : Exists(v) => v \in Positions
      BY <1>0, <1>1, <3>1 DEF Rollback, Standing, Over, Good, NovaSettle
    <3> QED
      BY <1>1, <2>2, <3>1, <3>2, VmHandedOver, OpenstackForm DEF NovaSettle
  <2>3. pc' \in {"disk", "osCleanup"}
    BY DEF NovaSettle
  <2> QED
    BY <2>1, <2>2, <2>3
<1>11. TypedRun'
  BY <1>0, <1>1
     DEF NovaSettle, TypedRun
<1>12. TypedCtl'
  BY <1>0, <1>1, PartsAssumption
     DEF NovaSettle, TypedCtl
<1>13. TypedFaults'
  BY <1>0, <1>1, Heard
     DEF NovaSettle, TypedFaults
<1>14. TypedVm'
  BY <1>0, <1>1
     DEF NovaSettle, TypedVm, Hear, HearCleanup, Checked, Unchecked, Effect
<1>15. TypedMemory'
  BY <1>0, <1>1
     DEF NovaSettle, TypedMemory, Hear, HearCleanup, Checked, Unchecked, Effect
<1>16. TypedVol'
  BY <1>0, <1>1
     DEF NovaSettle, TypedVol, Hear, HearCleanup, Checked, Unchecked, Effect
<1>17. Frame'
  BY <1>0, <1>1, OpenstackForm, SameRun
     DEF NovaSettle, Frame, Staging, Built, Steps, Whole, Loops, Hear, HearCleanup,
        Checked, Unchecked, Effect
<1>18. Untouched'
  BY <1>0, <1>1, OpenstackForm, SameRun
     DEF NovaSettle, Untouched, Staging
<1>19. Bodies'
  <2>1. /\ pc = "settle" /\ vm /\ rdm = {} /\ native = {} /\ pc' \in {"disk", "osCleanup"}
        /\ UNCHANGED <<vm, slot, rdm, native, home, noted>>
    BY <1>0, <1>1, OpenstackForm DEF NovaSettle, Bodies, TypedVm
  <2> QED
    BY <1>0, <1>1, <2>1, OpenstackForm, SameRun DEF Bodies, Built
<1>20. Leftovers'
  BY <1>0, <1>1, OpenstackForm, SameRun
     DEF NovaSettle, Leftovers, Staging, Frame, Built, Hear, HearCleanup, Checked,
        Unchecked, Effect
<1>21. Rollback'
  <2> SUFFICES ASSUME ~missed' PROVE Rollback'
    BY DEF Rollback
  <2>1. ~missed /\ ~Over /\ ~Over' /\ UNCHANGED <<vm, slot, vol, memory, noted>>
    BY <1>0, <1>1 DEF NovaSettle, Over, Hear, TypedFaults
  <2>2. Standing
    BY <1>0, <2>1 DEF Rollback
  <2>3. DistinctOrders' => \A v \in Vols : Exists(v)' =>
              v \in Positions' /\ memory'[spec'[v].order] = v
    BY <1>1, <2>1, <2>2, SameSpec DEF Standing, Exists
  <2>4. (vm' => noted') /\ (known' \/ pc' = "osCleanup")
    BY <1>1, <2>1, <2>2 DEF Standing, NovaSettle
  <2> QED
    BY <1>1, <2>1, <2>3, <2>4 DEF Rollback, Disowned, Standing
<1>22. Provision'
  <2> SUFFICES ASSUME Good', pc' = "disk" PROVE Provision'
    BY <1>1, OpenstackForm, SameRun DEF Provision, Built, NovaSettle
  <2>1. Good /\ pc = "settle" /\ UNCHANGED <<memory, slot, boots>>
    BY <1>0, <1>1, SameSpec DEF NovaSettle, Good, Hear, TypedFaults
  <2>2. Recalled(memory', spec', Len(spec'))
    BY <1>0, <1>1, <2>1 DEF Provision
  <2>3. OnePerAddr(slot', Len(spec')) /\ boots' \in InList' /\ slot'[boots'] = BootDisk'
    BY <1>0, <1>1, <2>1, SameSpec DEF Provision
  <2> QED
    BY <2>2, <2>3 DEF Provision
<1>23. Attachment'
  BY <1>9
<1>24. Contents'
  BY <1>9
<1>25. Backed'
  BY <1>0, <1>1, OpenstackForm, SameRun
     DEF NovaSettle, Backed, Over, Exists, Built, Hear, HearCleanup, Checked,
        Unchecked, Effect
<1> QED
  BY <1>11, <1>12, <1>13, <1>14, <1>15, <1>16, <1>17, <1>18, <1>19, <1>20, <1>21,
     <1>22, <1>23, <1>24, <1>25 DEF IInv, Types

\* OpenStack: the boot volume's shutdown timeout is unset.
LEMMA OpenstackFinalizeStep ==
    ASSUME IInv, OpenstackFinalize
    PROVE  IInv'
<1> USE DEF At, Outside, Goto, Leave, srcVars, ctlVars, memVars, vmVars, faultVars
<1>0. /\ TypedRun /\ TypedCtl /\ TypedFaults /\ TypedVm /\ TypedMemory /\ TypedVol
      /\ Frame /\ Untouched /\ Bodies /\ Leftovers /\ Rollback /\ Provision
      /\ Attachment /\ Contents /\ Backed
  BY DEF IInv, Types
<1>1. opt.dst = "openstack" /\ opt' = opt /\ spec' = spec
  BY DEF OpenstackFinalize
<1>2. /\ Captures /\ Len(spec) \in Nat /\ Len(spec) <= NDisks /\ at \in Nat
      /\ Positions \subseteq Disks
      /\ \A i \in Positions : spec[i].order \in Addr /\ spec[i].disk \in Disks
      /\ pc \in Loops => at \in Positions /\ Order \in Addr /\ at <= Len(spec)
      /\ pc \notin NoSpec \/ known =>
            spec /= << >> /\ BootDisk \in Positions /\ 1 \in Positions
  BY <1>0, Here
<1>3. opt'.dst /= "vsphere" /\ Copying = {"disk", "copy"} /\ Finishing = Finals /\ Freeing = {}
  BY <1>1, OpenstackForm DEF Finals
<1>4. /\ UNCHANGED <<vm, known, slot, vol, rdm, native, home, memory, noted, boots, dest>>
      /\ pc = "finalize" /\ pc' \in {"convert"} /\ (~missed' => ~missed) /\ (Good' => Good)
  BY <1>0, <1>1, SameSpec DEF OpenstackFinalize, TypedFaults, Good, Hear
<1>5. Attachment' /\ Contents'
  <2>1. pc \in Finishing /\ pc' \in Finishing /\ rdm = {} /\ opt.dst /= "vsphere"
    BY <1>0, <1>1, <1>3, <1>4 DEF Finals, Bodies
  <2> QED
    BY <1>0, <1>1, <1>4, <2>1, StaysBuilt DEF TypedVm
<1>11. TypedRun'
  BY <1>0, <1>1
     DEF OpenstackFinalize, TypedRun
<1>12. TypedCtl'
  BY <1>0, <1>1, PartsAssumption
     DEF OpenstackFinalize, TypedCtl
<1>13. TypedFaults'
  BY <1>0, <1>1, Heard
     DEF OpenstackFinalize, TypedFaults
<1>14. TypedVm'
  BY <1>0, <1>1
     DEF OpenstackFinalize, TypedVm, Hear, HearCleanup, Checked, Unchecked, Effect
<1>15. TypedMemory'
  BY <1>0, <1>1
     DEF OpenstackFinalize, TypedMemory, Hear, HearCleanup, Checked, Unchecked,
        Effect
<1>16. TypedVol'
  BY <1>0, <1>1
     DEF OpenstackFinalize, TypedVol, Hear, HearCleanup, Checked, Unchecked, Effect
<1>17. Frame'
  BY <1>0, <1>1, OpenstackForm, SameRun
     DEF OpenstackFinalize, Frame, Staging, Built, Steps, Whole, Loops, Hear,
        HearCleanup, Checked, Unchecked, Effect
<1>18. Untouched'
  BY <1>0, <1>1, OpenstackForm, SameRun
     DEF OpenstackFinalize, Untouched, Staging
<1>19. Bodies'
  BY <1>0, <1>1, OpenstackForm, SameRun
     DEF OpenstackFinalize, Bodies, Staging, Frame, Built, Hear, HearCleanup,
        Checked, Unchecked, Effect
<1>20. Leftovers'
  BY <1>0, <1>1, OpenstackForm, SameRun
     DEF OpenstackFinalize, Leftovers, Staging, Frame, Built, Hear, HearCleanup,
        Checked, Unchecked, Effect
<1>21. Rollback'
  BY <1>0, <1>1, <1>3, OpenstackForm, <1>4, StandsStill DEF Over, Frame, Built, Finals
<1>22. Provision'
  BY <1>0, <1>1, <1>3, OpenstackForm, <1>4, ProvisionStays DEF Built, Finals, Makings
<1>23. Attachment'
  BY <1>5
<1>24. Contents'
  BY <1>5
<1>25. Backed'
  BY <1>0, <1>1, OpenstackForm, SameRun
     DEF OpenstackFinalize, Backed, Over, Exists, Built, Hear, HearCleanup,
        Checked, Unchecked, Effect
<1> QED
  BY <1>11, <1>12, <1>13, <1>14, <1>15, <1>16, <1>17, <1>18, <1>19, <1>20, <1>21,
     <1>22, <1>23, <1>24, <1>25 DEF IInv, Types

\* OpenStack: the noted instance and the remembered volumes go after a failed creation, ...
LEMMA OsCleanupStep ==
    ASSUME IInv, OsCleanup, pc = "osCleanup"
    PROVE  IInv'
<1> USE DEF At, Outside, Goto, Leave, srcVars, ctlVars, memVars, vmVars, faultVars
<1>0. /\ TypedRun /\ TypedCtl /\ TypedFaults /\ TypedVm /\ TypedMemory /\ TypedVol
      /\ Frame /\ Untouched /\ Bodies /\ Leftovers /\ Rollback /\ Provision
      /\ Attachment /\ Contents /\ Backed
  BY DEF IInv, Types
<1>1. opt.dst = "openstack" /\ opt' = opt /\ spec' = spec
  BY DEF OsCleanup
<1>2. /\ Captures /\ Len(spec) \in Nat /\ Len(spec) <= NDisks /\ at \in Nat
      /\ Positions \subseteq Disks
      /\ \A i \in Positions : spec[i].order \in Addr /\ spec[i].disk \in Disks
      /\ pc \in Loops => at \in Positions /\ Order \in Addr /\ at <= Len(spec)
      /\ pc \notin NoSpec \/ known =>
            spec /= << >> /\ BootDisk \in Positions /\ 1 \in Positions
  BY <1>0, Here
<1>3. /\ \E b \in Unchecked : HearCleanup(b, Unchecked)
      /\ ~missed' => /\ ~missed /\ (noted => vm' = FALSE) /\ (~noted => vm' = vm)
                     /\ vol' = Without(Remembered \ {slot'[x] : x \in Addr})
                     /\ slot' \in {slot, NoDevices} /\ (noted => slot' = NoDevices)
                     /\ extra' = extra \ {"port", "timeout"}
      /\ VmGone \/ UNCHANGED <<vm, slot, boots, rdm, native, home>>
      /\ vol' \in {vol, Without(Remembered \ {slot'[x] : x \in Addr})}
      /\ extra' \subseteq extra /\ noted' = FALSE
      /\ UNCHANGED <<srcVars, shares, others, at, tries, known, memory, dest>>
      /\ pc = "osCleanup" /\ pc' = "undo"
  <2>1. PICK a, b \in Unchecked :
           /\ \E worse \in {a, b} :
                 HearCleanup(worse, Unchecked) /\ (worse = "ok" => {a, b} = {"ok"})
           /\ CleanupArtifacts(a, b)
    BY DEF OsCleanup
  <2>2. /\ UNCHANGED <<srcVars, shares, others, at, tries, known, memory, dest>>
        /\ pc = "osCleanup" /\ pc' = "undo" /\ noted' = FALSE
    BY DEF OsCleanup
  <2>3. ~missed' => ~missed /\ a = "ok" /\ b = "ok"
    BY <1>0, <2>1 DEF HearCleanup, TypedFaults, Unchecked
  <2>4. \E c \in Unchecked : HearCleanup(c, Unchecked)
    BY <2>1
  <2>5. VmGone => vm' = FALSE /\ slot' = NoDevices /\ home' = FALSE
    BY DEF VmGone
  <2>6. /\ IF a = "ok" /\ noted THEN VmGone ELSE UNCHANGED <<vm, slot, boots, rdm, native, home>>
        /\ vol' = IF b = "ok" THEN Without(Remembered \ {slot'[x] : x \in Addr}) ELSE vol
        /\ extra' = IF b = "ok" THEN extra \ {"port", "timeout"} ELSE extra
    BY <2>1 DEF CleanupArtifacts
  <2>7. noted \in BOOLEAN
    BY <1>0 DEF TypedMemory
  <2> QED
    BY <2>2, <2>3, <2>4, <2>5, <2>6, <2>7
<1>11. TypedRun'
  BY <1>0, <1>1, <1>3
     DEF TypedRun
<1>12. TypedCtl'
  BY <1>0, <1>1, PartsAssumption, <1>3
     DEF TypedCtl
<1>13. TypedFaults'
  BY <1>0, <1>3, Heard
<1>14. TypedVm'
  BY <1>0, <1>3, Numbers DEF TypedVm, VmGone, NoDevices
<1>15. TypedMemory'
  BY <1>0, <1>1, <1>3
     DEF TypedMemory, Hear, HearCleanup, Checked, Unchecked, Effect
<1>16. TypedVol'
  BY <1>0, <1>3, Numbers DEF TypedVol, Without
<1>17. Frame'
  BY <1>0, <1>1, OpenstackForm, SameRun, <1>3
     DEF Frame, Staging, Built, Steps, Whole, Loops, Hear, HearCleanup, Checked,
        Unchecked, Effect
<1>18. Untouched'
  BY <1>0, <1>1, OpenstackForm, SameRun, <1>3
     DEF Untouched, Staging
<1>19. Bodies'
  BY <1>0, <1>1, <1>3, OpenstackForm, SameRun DEF Bodies, Built, VmGone, NoDevices, Frame
<1>20. Leftovers'
  BY <1>0, <1>1, OpenstackForm, SameRun, <1>3
     DEF Leftovers, Staging, Frame, Built, Hear, HearCleanup, Checked, Unchecked,
        Effect
<1>21. Rollback'
  <2> SUFFICES ASSUME ~missed' PROVE Rollback'
    BY DEF Rollback
  <2>1. ~missed /\ Standing
    BY <1>0, <1>3 DEF Rollback, Over
  <2>2. ~vm' /\ slot' = NoDevices
    BY <1>0, <1>1, <1>3, <2>1 DEF Standing, Bodies, TypedVm, TypedMemory
  <2>3. {slot'[x] : x \in Addr} = {0}
    BY <2>2, Numbers DEF NoDevices
  <2>4. ASSUME NEW v \in Vols, Exists(v)' PROVE KnownLeak(v)'
    <3>1. vol' = Without(Remembered \ {0})
      BY <1>3, <2>3
    <3>2. v \notin Remembered /\ Exists(v)
      BY <2>4, <3>1, Numbers DEF Without, Exists, Remembered
    <3>3. DistinctOrders => v \in Positions /\ memory[spec[v].order] = v
      BY <1>1, <2>1, <3>2 DEF Standing
    <3>4. ~DistinctOrders
      BY <1>2, <3>2, <3>3, Numbers DEF Remembered
    <3> QED
      BY <1>1, <3>4, SameSpec DEF KnownLeak
  <2>5. pc' = "undo" => ~known'
    BY <1>0, <1>1, <1>3, OpenstackForm DEF Frame
  <2> QED
    BY <1>3, <2>2, <2>4, <2>5 DEF Rollback, Over, Cleared
<1>22. Provision'
  BY <1>0, <1>1, OpenstackForm, SameRun, <1>3
     DEF Provision, Good, Built, Hear, HearCleanup, Checked, Unchecked, Effect
<1>23. Attachment'
  BY <1>0, <1>1, OpenstackForm, SameRun, <1>3
     DEF Attachment, Good, Built, Hear, HearCleanup, Checked, Unchecked, Effect
<1>24. Contents'
  BY <1>0, <1>1, OpenstackForm, SameRun, <1>3
     DEF Contents, Good, Built, Hear, HearCleanup, Checked, Unchecked, Effect
<1>25. Backed'
  <2>1. pc' = "undo" => ~known'
    BY <1>0, <1>1, <1>3, OpenstackForm DEF Frame
  <2> QED
    BY <1>1, <1>3, <2>1, OpenstackForm, SameRun DEF Backed, Over, Built
<1> QED
  BY <1>11, <1>12, <1>13, <1>14, <1>15, <1>16, <1>17, <1>18, <1>19, <1>20, <1>21,
     <1>22, <1>23, <1>24, <1>25 DEF IInv, Types

\* ... and in a rollback.
LEMMA OsTeardownStep ==
    ASSUME IInv, OsCleanup, pc = "teardown"
    PROVE  IInv'
<1> USE DEF At, Outside, Goto, Leave, srcVars, ctlVars, memVars, vmVars, faultVars
<1>0. /\ TypedRun /\ TypedCtl /\ TypedFaults /\ TypedVm /\ TypedMemory /\ TypedVol
      /\ Frame /\ Untouched /\ Bodies /\ Leftovers /\ Rollback /\ Provision
      /\ Attachment /\ Contents /\ Backed
  BY DEF IInv, Types
<1>1. opt.dst = "openstack" /\ opt' = opt /\ spec' = spec
  BY DEF OsCleanup
<1>2. /\ Captures /\ Len(spec) \in Nat /\ Len(spec) <= NDisks /\ at \in Nat
      /\ Positions \subseteq Disks
      /\ \A i \in Positions : spec[i].order \in Addr /\ spec[i].disk \in Disks
      /\ pc \in Loops => at \in Positions /\ Order \in Addr /\ at <= Len(spec)
      /\ pc \notin NoSpec \/ known =>
            spec /= << >> /\ BootDisk \in Positions /\ 1 \in Positions
  BY <1>0, Here
<1>3. /\ \E b \in Unchecked : HearCleanup(b, Unchecked)
      /\ ~missed' => /\ ~missed /\ (noted => vm' = FALSE) /\ (~noted => vm' = vm)
                     /\ vol' = Without(Remembered \ {slot'[x] : x \in Addr})
                     /\ slot' \in {slot, NoDevices} /\ (noted => slot' = NoDevices)
                     /\ extra' = extra \ {"port", "timeout"}
      /\ VmGone \/ UNCHANGED <<vm, slot, boots, rdm, native, home>>
      /\ vol' \in {vol, Without(Remembered \ {slot'[x] : x \in Addr})}
      /\ extra' \subseteq extra /\ noted' = FALSE
      /\ UNCHANGED <<srcVars, shares, others, at, tries, known, memory, dest>>
      /\ pc = "teardown" /\ pc' = "unstage"
  <2>1. PICK a, b \in Unchecked :
           /\ \E worse \in {a, b} :
                 HearCleanup(worse, Unchecked) /\ (worse = "ok" => {a, b} = {"ok"})
           /\ CleanupArtifacts(a, b)
    BY DEF OsCleanup
  <2>2. /\ UNCHANGED <<srcVars, shares, others, at, tries, known, memory, dest>>
        /\ pc = "teardown" /\ pc' = "unstage" /\ noted' = FALSE
    BY DEF OsCleanup
  <2>3. ~missed' => ~missed /\ a = "ok" /\ b = "ok"
    BY <1>0, <2>1 DEF HearCleanup, TypedFaults, Unchecked
  <2>4. \E c \in Unchecked : HearCleanup(c, Unchecked)
    BY <2>1
  <2>5. VmGone => vm' = FALSE /\ slot' = NoDevices /\ home' = FALSE
    BY DEF VmGone
  <2>6. /\ IF a = "ok" /\ noted THEN VmGone ELSE UNCHANGED <<vm, slot, boots, rdm, native, home>>
        /\ vol' = IF b = "ok" THEN Without(Remembered \ {slot'[x] : x \in Addr}) ELSE vol
        /\ extra' = IF b = "ok" THEN extra \ {"port", "timeout"} ELSE extra
    BY <2>1 DEF CleanupArtifacts
  <2>7. noted \in BOOLEAN
    BY <1>0 DEF TypedMemory
  <2> QED
    BY <2>2, <2>3, <2>4, <2>5, <2>6, <2>7
<1>11. TypedRun'
  BY <1>0, <1>1, <1>3
     DEF TypedRun
<1>12. TypedCtl'
  BY <1>0, <1>1, PartsAssumption, <1>3
     DEF TypedCtl
<1>13. TypedFaults'
  BY <1>0, <1>3, Heard
<1>14. TypedVm'
  BY <1>0, <1>3, Numbers DEF TypedVm, VmGone, NoDevices
<1>15. TypedMemory'
  BY <1>0, <1>1, <1>3
     DEF TypedMemory, Hear, HearCleanup, Checked, Unchecked, Effect
<1>16. TypedVol'
  BY <1>0, <1>3, Numbers DEF TypedVol, Without
<1>17. Frame'
  BY <1>0, <1>1, OpenstackForm, SameRun, <1>3
     DEF Frame, Staging, Built, Steps, Whole, Loops, Hear, HearCleanup, Checked,
        Unchecked, Effect
<1>18. Untouched'
  BY <1>0, <1>1, OpenstackForm, SameRun, <1>3
     DEF Untouched, Staging
<1>19. Bodies'
  BY <1>0, <1>1, <1>3, OpenstackForm, SameRun DEF Bodies, Built, VmGone, NoDevices, Frame
<1>20. Leftovers'
  BY <1>0, <1>1, OpenstackForm, SameRun, <1>3
     DEF Leftovers, Staging, Frame, Built, Hear, HearCleanup, Checked, Unchecked,
        Effect
<1>21. Rollback'
  <2> SUFFICES ASSUME ~missed' PROVE Rollback'
    BY DEF Rollback
  <2>1. ~missed /\ Standing
    BY <1>0, <1>3 DEF Rollback, Over
  <2>2. ~vm' /\ slot' = NoDevices
    BY <1>0, <1>1, <1>3, <2>1 DEF Standing, Bodies, TypedVm, TypedMemory
  <2>3. {slot'[x] : x \in Addr} = {0}
    BY <2>2, Numbers DEF NoDevices
  <2>4. ASSUME NEW v \in Vols, Exists(v)' PROVE KnownLeak(v)'
    <3>1. vol' = Without(Remembered \ {0})
      BY <1>3, <2>3
    <3>2. v \notin Remembered /\ Exists(v)
      BY <2>4, <3>1, Numbers DEF Without, Exists, Remembered
    <3>3. DistinctOrders => v \in Positions /\ memory[spec[v].order] = v
      BY <1>1, <2>1, <3>2 DEF Standing
    <3>4. ~DistinctOrders
      BY <1>2, <3>2, <3>3, Numbers DEF Remembered
    <3> QED
      BY <1>1, <3>4, SameSpec DEF KnownLeak
  <2>5. pc' = "undo" => ~known'
    BY <1>0, <1>1, <1>3, OpenstackForm DEF Frame
  <2> QED
    BY <1>3, <2>2, <2>4, <2>5 DEF Rollback, Over, Cleared
<1>22. Provision'
  BY <1>0, <1>1, OpenstackForm, SameRun, <1>3
     DEF Provision, Good, Built, Hear, HearCleanup, Checked, Unchecked, Effect
<1>23. Attachment'
  BY <1>0, <1>1, OpenstackForm, SameRun, <1>3
     DEF Attachment, Good, Built, Hear, HearCleanup, Checked, Unchecked, Effect
<1>24. Contents'
  BY <1>0, <1>1, OpenstackForm, SameRun, <1>3
     DEF Contents, Good, Built, Hear, HearCleanup, Checked, Unchecked, Effect
<1>25. Backed'
  <2>1. pc' = "undo" => ~known'
    BY <1>0, <1>1, <1>3, OpenstackForm DEF Frame
  <2> QED
    BY <1>1, <1>3, <2>1, OpenstackForm, SameRun DEF Backed, Over, Built
<1> QED
  BY <1>11, <1>12, <1>13, <1>14, <1>15, <1>16, <1>17, <1>18, <1>19, <1>20, <1>21,
     <1>22, <1>23, <1>24, <1>25 DEF IInv, Types

\* capture_vm_spec of every source gives disks with addresses, or the run ends with nothing made.
LEMMA CaptureStep ==
    ASSUME IInv, Capture
    PROVE  IInv'
<1> USE DEF Goto, srcVars, memVars, vmVars
<1>0. /\ TypedRun /\ TypedCtl /\ TypedFaults /\ TypedVm /\ TypedMemory /\ TypedVol
      /\ Frame /\ Untouched /\ Bodies /\ Leftovers
  BY DEF IInv, Types
<1>1. PICK a \in {"ok", "fails"} :
         /\ Hear(a, Checked)
         /\ spec' = IF a = "ok" THEN Captured ELSE << >>
         /\ pc' = IF spec' = << >> THEN "undo"
                  ELSE IF opt.src = "vsphere" /\ opt.vmfs THEN "account" ELSE "name"
  BY DEF Capture
<1>2. /\ UNCHANGED <<opt, hw, srcVm, at, tries, known, memory, noted, dest, vm, slot, boots,
                     rdm, native, home, vol, extra, others, shares>>
      /\ pc = "capture"
  BY DEF Capture
<1>3. /\ at = 1 /\ ~vm /\ ~known /\ dest = << >> /\ rdm = {} /\ native = {} /\ ~noted /\ ~home
      /\ extra = {}
      /\ vol = [v \in Vols |-> Absent] /\ slot = NoDevices /\ memory = NoMemory
  BY <1>0, <1>2 DEF Frame, Untouched, Staging, Bodies, Whole, TypedVm
<1>4. spec' \in Seq(CapturedDisk) /\ Len(spec') <= NDisks
  <2>1. Captured \in Seq(CapturedDisk) /\ Len(Captured) <= NDisks
    BY <1>0, CapturedIsTyped DEF TypedRun
  <2>2. << >> \in Seq(CapturedDisk) /\ Len(<< >>) <= NDisks
    BY PartsAssumption
  <2> QED
    BY <1>1, <2>1, <2>2
<1>5. pc' \in {"undo", "account", "name"} /\ (spec' = << >> => pc' = "undo")
  BY <1>1
<1>6. /\ "create" \in Making /\ Making \subseteq Makings
      /\ {"disk", "copy"} \subseteq Copying /\ Copying \subseteq {"disk", "copy", "rdm"}
      /\ Finishing \subseteq Finals \union {"unrdm", "unscratch2"}
      /\ Freeing \subseteq {"freeRdm", "unscratch3"}
  BY <1>0, AnyForm DEF TypedRun
<1>11. TypedRun'
  BY <1>0, <1>2, <1>4 DEF TypedRun
<1>12. TypedCtl' /\ TypedVm' /\ TypedMemory' /\ TypedVol'
  BY <1>0, <1>2 DEF TypedCtl, TypedVm, TypedMemory, TypedVol
<1>13. TypedFaults'
  BY <1>0, <1>1, Heard
<1>14. Frame'
  BY <1>2, <1>3, <1>5, <1>6, SameRun
     DEF Frame, Steps, Staging, Built, Whole, Loops, Makings, Finals
<1>15. Untouched'
  BY <1>2, <1>3 DEF Untouched
<1>16. Bodies'
  BY <1>2, <1>3, <1>5, <1>6, SameRun DEF Bodies, Built, Makings, Finals
<1>17. Leftovers'
  <2>1. ~missed' => ~missed
    BY <1>0, <1>1, Heard
  <2> QED
    BY <1>0, <1>2, <1>3, <1>5, <1>6, <2>1, SameRun
       DEF Leftovers, Staging, Built, Makings, Finals
<1>18. Rollback'
  <2>1. ~vm' /\ rdm' = {} /\ \A v \in Vols : ~Exists(v)'
    BY <1>2, <1>3 DEF Exists
  <2> QED
    BY <2>1, NothingYet
<1>19. Provision' /\ Attachment' /\ Contents'
  <2>1. pc' \notin Built'
    BY <1>2, <1>5, <1>6, SameRun DEF Built, Finals
  <2> QED
    BY <1>5, <2>1 DEF Provision, Attachment, Contents
<1>20. Backed'
  <2>1. pc' \notin Built' /\ pc' \notin {"copy", "await", "cache"}
    BY <1>2, <1>5, <1>6, SameRun DEF Built, Finals
  <2>2. \A o \in Addr : memory'[o] = 0
    BY <1>2, <1>3 DEF NoMemory
  <2> QED
    BY <2>1, <2>2 DEF Backed
<1> QED
  BY <1>11, <1>12, <1>13, <1>14, <1>15, <1>16, <1>17, <1>18, <1>19, <1>20 DEF IInv, Types

\* vSphere: the volume of the scratch datastore, before there is a VM.
LEMMA ScratchVolumeStep ==
    ASSUME IInv, ScratchVolume
    PROVE  IInv'
<1> USE DEF At, Outside, Goto, Leave, srcVars, ctlVars, memVars, vmVars, faultVars
<1>0. /\ TypedRun /\ TypedCtl /\ TypedFaults /\ TypedVm /\ TypedMemory /\ TypedVol
      /\ Frame /\ Untouched /\ Bodies /\ Leftovers /\ Rollback /\ Provision
      /\ Attachment /\ Contents /\ Backed
  BY DEF IInv, Types
<1>1. opt.dst = "vsphere" /\ opt' = opt /\ spec' = spec
  BY DEF ScratchVolume
<1>2. /\ Captures /\ Len(spec) \in Nat /\ Len(spec) <= NDisks /\ at \in Nat
      /\ Positions \subseteq Disks
      /\ \A i \in Positions : spec[i].order \in Addr /\ spec[i].disk \in Disks
      /\ pc \in Loops => at \in Positions /\ Order \in Addr /\ at <= Len(spec)
      /\ pc \notin NoSpec \/ known =>
            spec /= << >> /\ BootDisk \in Positions /\ 1 \in Positions
  BY <1>0, Here
<1>3. /\ pc = "create"
      /\ ~known /\ dest = << >> /\ slot = NoDevices /\ rdm = {} /\ native = {}
      /\ ~missed => ~vm /\ \A v \in Vols : Exists(v) => v = Scratch /\ (noted \/ pc = "format")
      /\ ~missed' => ~missed
  BY <1>0, <1>1, OnlyScratch, VsphereForm DEF ScratchVolume, Hear, TypedFaults
<1>11. TypedRun'
  BY <1>0, <1>1
     DEF ScratchVolume, TypedRun
<1>12. TypedCtl'
  BY <1>0, <1>1, PartsAssumption
     DEF ScratchVolume, TypedCtl
<1>13. TypedFaults'
  BY <1>0, <1>1, Heard
     DEF ScratchVolume, TypedFaults
<1>14. TypedVm'
  BY <1>0, <1>1
     DEF ScratchVolume, TypedVm, Hear, HearCleanup, Checked, Unchecked, Effect
<1>15. TypedMemory'
  BY <1>0, <1>1
     DEF ScratchVolume, TypedMemory, Hear, HearCleanup, Checked, Unchecked, Effect
<1>16. TypedVol'
  BY <1>0, <1>1, Numbers
     DEF ScratchVolume, TypedVol, Hear, HearCleanup, Checked, Unchecked, Effect
<1>17. Frame'
  BY <1>0, <1>1, VsphereForm, SameRun
     DEF ScratchVolume, Frame, Staging, Built, Steps, Whole, Loops, Hear,
        HearCleanup, Checked, Unchecked, Effect
<1>18. Untouched'
  BY <1>0, <1>1, VsphereForm, SameRun
     DEF ScratchVolume, Untouched, Staging
<1>19. Bodies'
  BY <1>0, <1>1, VsphereForm, SameRun
     DEF ScratchVolume, Bodies, Staging, Frame, Built, Hear, HearCleanup, Checked,
        Unchecked, Effect
<1>20. Leftovers'
  BY <1>0, <1>1, VsphereForm, SameRun
     DEF ScratchVolume, Leftovers, Staging, Frame, Built, Hear, HearCleanup,
        Checked, Unchecked, Effect
<1>21. Rollback'
  <2> SUFFICES ASSUME ~missed' PROVE Rollback'
    BY DEF Rollback
  <2>1. /\ UNCHANGED <<vm, known, rdm>> /\ pc' \in {"format", "undo"}
        /\ \A v \in Vols : v /= Scratch => vol'[v] = vol[v]
    BY <1>0 DEF ScratchVolume, TypedVol
  <2>2. \A v \in Vols : Exists(v)' => v = Scratch
    BY <1>3, <2>1 DEF Exists
  <2>3. rdm' = {} /\ ~vm' /\ ~known' /\ (pc' = "format" \/ Over')
    BY <1>3, <2>1 DEF Over
  <2>4. /\ ~vm' \/ known'
        /\ \A v \in Vols : Exists(v)' =>
              v = Scratch /\ (noted' \/ pc' = "format" \/ (~known' /\ Over'))
        /\ Over' => ~vm' /\ ~known'
    BY <2>2, <2>3
  <2> QED
    BY <1>1, <2>3, <2>4, ScratchStands
<1>22. Provision'
  BY <1>0, <1>1, VsphereForm, SameRun
     DEF ScratchVolume, Provision, Good, Built, Hear, HearCleanup, Checked,
        Unchecked, Effect
<1>23. Attachment'
  BY <1>0, <1>1, VsphereForm, SameRun
     DEF ScratchVolume, Attachment, Good, Built, Hear, HearCleanup, Checked,
        Unchecked, Effect
<1>24. Contents'
  BY <1>0, <1>1, VsphereForm, SameRun
     DEF ScratchVolume, Contents, Good, Built, Hear, HearCleanup, Checked,
        Unchecked, Effect
<1>25. Backed'
  BY <1>0, <1>1, VsphereForm, SameRun
     DEF ScratchVolume, Backed, Over, Exists, Built, Hear, HearCleanup, Checked,
        Unchecked, Effect
<1> QED
  BY <1>11, <1>12, <1>13, <1>14, <1>15, <1>16, <1>17, <1>18, <1>19, <1>20, <1>21,
     <1>22, <1>23, <1>24, <1>25 DEF IInv, Types

\* vSphere: the scratch is noted once formatted, for its tear-down.
LEMMA ScratchFormatStep ==
    ASSUME IInv, ScratchFormat
    PROVE  IInv'
<1> USE DEF At, Outside, Goto, Leave, srcVars, ctlVars, memVars, vmVars, faultVars
<1>0. /\ TypedRun /\ TypedCtl /\ TypedFaults /\ TypedVm /\ TypedMemory /\ TypedVol
      /\ Frame /\ Untouched /\ Bodies /\ Leftovers /\ Rollback /\ Provision
      /\ Attachment /\ Contents /\ Backed
  BY DEF IInv, Types
<1>1. opt.dst = "vsphere" /\ opt' = opt /\ spec' = spec
  BY DEF ScratchFormat
<1>2. /\ Captures /\ Len(spec) \in Nat /\ Len(spec) <= NDisks /\ at \in Nat
      /\ Positions \subseteq Disks
      /\ \A i \in Positions : spec[i].order \in Addr /\ spec[i].disk \in Disks
      /\ pc \in Loops => at \in Positions /\ Order \in Addr /\ at <= Len(spec)
      /\ pc \notin NoSpec \/ known =>
            spec /= << >> /\ BootDisk \in Positions /\ 1 \in Positions
  BY <1>0, Here
<1>3. /\ pc = "format"
      /\ ~known /\ dest = << >> /\ slot = NoDevices /\ rdm = {} /\ native = {}
      /\ ~missed => ~vm /\ \A v \in Vols : Exists(v) => v = Scratch /\ (noted \/ pc = "format")
      /\ ~missed' => ~missed
  BY <1>0, <1>1, OnlyScratch, VsphereForm DEF ScratchFormat, Hear, TypedFaults
<1>11. TypedRun'
  BY <1>0, <1>1
     DEF ScratchFormat, TypedRun
<1>12. TypedCtl'
  BY <1>0, <1>1, PartsAssumption
     DEF ScratchFormat, TypedCtl
<1>13. TypedFaults'
  BY <1>0, <1>1, Heard
     DEF ScratchFormat, TypedFaults
<1>14. TypedVm'
  BY <1>0, <1>1
     DEF ScratchFormat, TypedVm, Hear, HearCleanup, Checked, Unchecked, Effect
<1>15. TypedMemory'
  BY <1>0, <1>1
     DEF ScratchFormat, TypedMemory, Hear, HearCleanup, Checked, Unchecked, Effect
<1>16. TypedVol'
  BY <1>0, <1>1
     DEF ScratchFormat, TypedVol, Hear, HearCleanup, Checked, Unchecked, Effect
<1>17. Frame'
  BY <1>0, <1>1, VsphereForm, SameRun
     DEF ScratchFormat, Frame, Staging, Built, Steps, Whole, Loops, Hear,
        HearCleanup, Checked, Unchecked, Effect
<1>18. Untouched'
  BY <1>0, <1>1, VsphereForm, SameRun
     DEF ScratchFormat, Untouched, Staging
<1>19. Bodies'
  <2>1. /\ UNCHANGED <<vm, known, rdm, native, slot, home>> /\ pc' \in {"createVm", "undo"}
        /\ opt.convert
    BY <1>0, <1>3 DEF ScratchFormat, Bodies
  <2> QED
    BY <1>0, <1>1, <1>3, <2>1, VsphereForm, SameRun DEF Bodies, Built
<1>20. Leftovers'
  BY <1>0, <1>1, VsphereForm, SameRun
     DEF ScratchFormat, Leftovers, Staging, Frame, Built, Hear, HearCleanup,
        Checked, Unchecked, Effect
<1>21. Rollback'
  <2> SUFFICES ASSUME ~missed' PROVE Rollback'
    BY DEF Rollback
  <2>1. /\ UNCHANGED <<vm, known, rdm, vol>>
        /\ (pc' = "createVm" /\ noted') \/ pc' = "undo"
    BY <1>0 DEF ScratchFormat
  <2>2. \A v \in Vols : Exists(v)' => v = Scratch
    BY <1>3, <2>1 DEF Exists
  <2>3. rdm' = {} /\ ~vm' /\ ~known' /\ (noted' \/ Over')
    BY <1>3, <2>1 DEF Over
  <2>4. /\ ~vm' \/ known'
        /\ \A v \in Vols : Exists(v)' =>
              v = Scratch /\ (noted' \/ pc' = "format" \/ (~known' /\ Over'))
        /\ Over' => ~vm' /\ ~known'
    BY <2>2, <2>3
  <2> QED
    BY <1>1, <2>3, <2>4, ScratchStands
<1>22. Provision'
  BY <1>0, <1>1, VsphereForm, SameRun
     DEF ScratchFormat, Provision, Good, Built, Hear, HearCleanup, Checked,
        Unchecked, Effect
<1>23. Attachment'
  BY <1>0, <1>1, VsphereForm, SameRun
     DEF ScratchFormat, Attachment, Good, Built, Hear, HearCleanup, Checked,
        Unchecked, Effect
<1>24. Contents'
  BY <1>0, <1>1, VsphereForm, SameRun
     DEF ScratchFormat, Contents, Good, Built, Hear, HearCleanup, Checked,
        Unchecked, Effect
<1>25. Backed'
  BY <1>0, <1>1, VsphereForm, SameRun
     DEF ScratchFormat, Backed, Over, Exists, Built, Hear, HearCleanup, Checked,
        Unchecked, Effect
<1> QED
  BY <1>11, <1>12, <1>13, <1>14, <1>15, <1>16, <1>17, <1>18, <1>19, <1>20, <1>21,
     <1>22, <1>23, <1>24, <1>25 DEF IInv, Types

\* vSphere: the VM is known, or a scratch that was noted is torn down.
LEMMA VsphereCreateStep ==
    ASSUME IInv, VsphereCreate
    PROVE  IInv'
<1> USE DEF At, Outside, Goto, Leave, srcVars, ctlVars, memVars, vmVars, faultVars
<1>0. /\ TypedRun /\ TypedCtl /\ TypedFaults /\ TypedVm /\ TypedMemory /\ TypedVol
      /\ Frame /\ Untouched /\ Bodies /\ Leftovers /\ Rollback /\ Provision
      /\ Attachment /\ Contents /\ Backed
  BY DEF IInv, Types
<1>1. opt.dst = "vsphere" /\ opt' = opt /\ spec' = spec
  BY DEF VsphereCreate
<1>2. /\ Captures /\ Len(spec) \in Nat /\ Len(spec) <= NDisks /\ at \in Nat
      /\ Positions \subseteq Disks
      /\ \A i \in Positions : spec[i].order \in Addr /\ spec[i].disk \in Disks
      /\ pc \in Loops => at \in Positions /\ Order \in Addr /\ at <= Len(spec)
      /\ pc \notin NoSpec \/ known =>
            spec /= << >> /\ BootDisk \in Positions /\ 1 \in Positions
  BY <1>0, Here
<1>3. PICK a \in Checked :
         /\ Hear(a, Checked)
         /\ vm' = Effect(a) /\ home' = (Effect(a) /\ noted) /\ known' = (a = "ok")
         /\ pc' = CASE a = "ok" -> "disk"
                    [] a /= "ok" /\ noted -> "unscratch"
                    [] OTHER -> "undo"
  BY DEF VsphereCreate
<1>4. /\ UNCHANGED <<srcVars, shares, extra, others, at, tries, vol, slot, boots, rdm, native, memory,
                     noted, dest>>
      /\ pc \in {"create", "createVm"} /\ spec /= << >> /\ at = 1
      /\ ~known /\ dest = << >> /\ slot = NoDevices /\ rdm = {} /\ native = {}
      /\ ~missed => ~vm /\ \A v \in Vols : Exists(v) => v = Scratch /\ (noted \/ pc = "format")
      /\ ~missed' => ~missed
      /\ "recorded" \in extra' => "recorded" \in extra
  BY <1>0, <1>1, <1>2, OnlyScratch, VsphereForm
     DEF VsphereCreate, Hear, TypedFaults, Frame, Whole, NoSpec
<1>5. /\ vm' \in BOOLEAN /\ home' \in BOOLEAN /\ known' \in BOOLEAN
      /\ pc' \in {"disk", "unscratch", "undo"}
      /\ pc' = "disk" => known' /\ vm' /\ a = "ok"
      /\ pc' /= "disk" => ~known' /\ (~missed' => ~vm' /\ ~home')
      /\ pc' = "undo" => ~noted
      /\ pc' = "unscratch" => noted
      /\ home' => noted /\ vm'
  <2>1. noted \in BOOLEAN /\ missed' = (missed \/ a = "late")
    BY <1>0, <1>3 DEF TypedMemory, Hear, Checked
  <2>2. CASE a = "ok"
    BY <1>3, <2>1, <2>2 DEF Effect
  <2>3. CASE a /= "ok"
    <3>1. pc' = IF noted THEN "unscratch" ELSE "undo"
      BY <1>3, <2>3
    <3>2. CASE a = "fails"
      <4>1. ~Effect(a) /\ a /= "ok"
        BY <3>2 DEF Effect
      <4>2. vm' = FALSE /\ known' = FALSE
        <5>1. Effect(a) = FALSE /\ (a = "ok") = FALSE
          BY <4>1
        <5> QED
          BY <1>3, <5>1
      <4>3. home' = FALSE
        <5>1. (Effect(a) /\ noted) = FALSE
          BY <4>1
        <5> QED
          BY <1>3, <5>1
      <4> QED
        BY <2>1, <3>1, <4>2, <4>3
    <3>3. CASE a = "late"
      <4>1. vm' = TRUE /\ home' = noted /\ known' = FALSE /\ missed'
        BY <1>3, <2>1, <3>3 DEF Effect
      <4> QED
        BY <2>1, <3>1, <4>1
    <3> QED
      BY <1>3, <2>3, <3>2, <3>3 DEF Checked
  <2> QED
    BY <2>2, <2>3
<1>11. TypedRun'
  BY <1>0, <1>1, <1>3, <1>4, <1>5
     DEF TypedRun
<1>12. TypedCtl'
  BY <1>0, <1>1, PartsAssumption, <1>3, <1>4, <1>5
     DEF TypedCtl
<1>13. TypedFaults'
  BY <1>0, <1>1, Heard
     DEF VsphereCreate, TypedFaults
<1>14. TypedVm'
  BY <1>0, <1>4, <1>5 DEF TypedVm
<1>15. TypedMemory'
  BY <1>0, <1>4, <1>5 DEF TypedMemory
<1>16. TypedVol'
  BY <1>0, <1>1, <1>3, <1>4, <1>5
     DEF TypedVol, Hear, HearCleanup, Checked, Unchecked, Effect
<1>17. Frame'
  BY <1>0, <1>1, <1>2, <1>4, <1>5, VsphereForm, SameRun
     DEF Frame, Staging, Built, Steps, Whole, Loops
<1>18. Untouched'
  BY <1>0, <1>1, VsphereForm, SameRun, <1>3, <1>4, <1>5
     DEF Untouched, Staging
<1>19. Bodies'
  BY <1>0, <1>1, <1>4, <1>5, VsphereForm, SameRun DEF Bodies, Built
<1>20. Leftovers'
  BY <1>0, <1>1, <1>4, <1>5, VsphereForm, SameRun DEF Leftovers, Built, Staging
<1>21. Rollback'
  <2> SUFFICES ASSUME ~missed' PROVE Rollback'
    BY DEF Rollback
  <2>1. \A v \in Vols : Exists(v)' => v = Scratch /\ noted'
    BY <1>4 DEF Exists
  <2>2. rdm' = {} /\ (~vm' \/ known')
    BY <1>4, <1>5
  <2>3. Over' => ~vm' /\ ~known'
    BY <1>4, <1>5 DEF Over
  <2>4. \A v \in Vols : Exists(v)' =>
           v = Scratch /\ (noted' \/ pc' = "format" \/ (~known' /\ Over'))
    BY <2>1
  <2> QED
    BY <1>1, <2>2, <2>3, <2>4, ScratchStands
<1>22. Provision'
  BY <1>1, <1>5, VsphereForm, SameRun DEF Provision
<1>23. Attachment'
  <2> SUFFICES ASSUME Good', pc' = "disk" PROVE Attachment'
    BY <1>1, <1>5, VsphereForm, SameRun DEF Attachment, Built
  <2>1. \A v \in Vols : Exists(v)' => v = Scratch /\ noted'
    BY <1>4 DEF Exists, Good
  <2> QED
    BY <1>1, <1>4, <2>1, VsphereForm, SameRun DEF Attachment
<1>24. Contents'
  BY <1>4, NothingCopied
<1>25. Backed'
  <2> SUFFICES ASSUME ~missed', pc' = "disk" PROVE Backed'
    BY <1>1, <1>5, VsphereForm, SameRun DEF Backed, Built
  <2>1. rdm' = {} /\ Len(dest') = 0 /\ \A i \in Addr : slot'[i] = 0 /\ ~(i < 0)
    BY <1>4, PartsAssumption DEF NoDevices, Addr
  <2> QED
    BY <1>1, <2>1, VsphereForm, SameRun DEF Backed
<1> QED
  BY <1>11, <1>12, <1>13, <1>14, <1>15, <1>16, <1>17, <1>18, <1>19, <1>20, <1>21,
     <1>22, <1>23, <1>24, <1>25 DEF IInv, Types

\* vSphere: the scratch goes after a failed creation, ...
LEMMA UnscratchStep ==
    ASSUME IInv, TearDown("unscratch", "undo")
    PROVE  IInv'
<1> USE DEF At, Outside, Goto, Leave, srcVars, ctlVars, memVars, vmVars, faultVars
<1>0. /\ TypedRun /\ TypedCtl /\ TypedFaults /\ TypedVm /\ TypedMemory /\ TypedVol
      /\ Frame /\ Untouched /\ Bodies /\ Leftovers /\ Rollback /\ Provision
      /\ Attachment /\ Contents /\ Backed
  BY DEF IInv, Types
<1>1. opt.dst = "vsphere" /\ opt' = opt /\ spec' = spec
  BY DEF TearDown
<1>2. /\ Captures /\ Len(spec) \in Nat /\ Len(spec) <= NDisks /\ at \in Nat
      /\ Positions \subseteq Disks
      /\ \A i \in Positions : spec[i].order \in Addr /\ spec[i].disk \in Disks
      /\ pc \in Loops => at \in Positions /\ Order \in Addr /\ at <= Len(spec)
      /\ pc \notin NoSpec \/ known =>
            spec /= << >> /\ BootDisk \in Positions /\ 1 \in Positions
  BY <1>0, Here
<1>3. /\ UNCHANGED <<srcVars, shares, extra, others, at, tries, vm, slot, boots, rdm, native, home,
                     known, memory, dest>>
      /\ noted' = FALSE /\ pc = "unscratch" /\ pc' = "undo"
      /\ vol' \in {vol, Without({Scratch})}
      /\ ~missed' => ~missed /\ (IF noted THEN vol' = Without({Scratch}) ELSE vol' = vol)
      /\ (\E b \in Unchecked : HearCleanup(b, Unchecked)) \/ UNCHANGED faultVars
      /\ "recorded" \in extra' => "recorded" \in extra
  BY <1>0 DEF TearDown, HearCleanup, Unchecked, TypedFaults
<1>4. /\ \A v \in Vols : v /= Scratch => vol'[v] = vol[v]
      /\ \A v \in Vols : Exists(v)' => Exists(v)
      /\ ~missed' /\ noted => ~Exists(Scratch)'
  BY <1>0, <1>3, Numbers DEF TypedVol, Exists, Without
<1>11. TypedRun'
  BY <1>0, <1>1, <1>3
     DEF TypedRun
<1>12. TypedCtl'
  BY <1>0, <1>1, PartsAssumption, <1>3
     DEF TypedCtl
<1>13. TypedFaults'
  BY <1>0, <1>3, Heard DEF TypedFaults
<1>14. TypedVm'
  BY <1>0, <1>1, <1>3
     DEF TypedVm, Hear, HearCleanup, Checked, Unchecked, Effect
<1>15. TypedMemory'
  BY <1>0, <1>1, <1>3
     DEF TypedMemory, Hear, HearCleanup, Checked, Unchecked, Effect
<1>16. TypedVol'
  BY <1>0, <1>3, Numbers DEF TypedVol, Without
<1>17. Frame'
  BY <1>0, <1>1, VsphereForm, SameRun, <1>3
     DEF Frame, Staging, Built, Steps, Whole, Loops, Hear, HearCleanup, Checked,
        Unchecked, Effect
<1>18. Untouched'
  BY <1>0, <1>1, VsphereForm, SameRun, <1>3
     DEF Untouched, Staging
<1>19. Bodies'
  BY <1>0, <1>1, VsphereForm, SameRun, <1>3
     DEF Bodies, Staging, Frame, Built, Hear, HearCleanup, Checked, Unchecked,
        Effect
<1>20. Leftovers'
  BY <1>0, <1>1, VsphereForm, SameRun, <1>3
     DEF Leftovers, Staging, Frame, Built, Hear, HearCleanup, Checked, Unchecked,
        Effect
<1>21. Rollback'
  <2> SUFFICES ASSUME ~missed' PROVE Rollback'
    BY DEF Rollback
  <2>1. /\ ~known /\ rdm = {} /\ ~vm
        /\ \A v \in Vols : Exists(v) => v = Scratch
    BY <1>1, <1>3, OnlyScratch, VsphereForm
  <2> QED
    BY <1>1, <1>3, <1>4, <2>1, ScratchStands DEF Over
<1>22. Provision'
  BY <1>0, <1>1, VsphereForm, SameRun, <1>3
     DEF Provision, Good, Built, Hear, HearCleanup, Checked, Unchecked, Effect
<1>23. Attachment'
  BY <1>0, <1>1, VsphereForm, SameRun, <1>3
     DEF Attachment, Good, Built, Hear, HearCleanup, Checked, Unchecked, Effect
<1>24. Contents'
  BY <1>0, <1>1, VsphereForm, SameRun, <1>3
     DEF Contents, Good, Built, Hear, HearCleanup, Checked, Unchecked, Effect
<1>25. Backed'
  BY <1>0, <1>1, VsphereForm, SameRun, <1>3
     DEF Backed, Over, Exists, Built, Hear, HearCleanup, Checked, Unchecked, Effect
<1> QED
  BY <1>11, <1>12, <1>13, <1>14, <1>15, <1>16, <1>17, <1>18, <1>19, <1>20, <1>21,
     <1>22, <1>23, <1>24, <1>25 DEF IInv, Types

\* ... after a conversion, when the VM's home has left it, ...
LEMMA FreeScratchStep ==
    ASSUME IInv, TearDown("unscratch2", "boot")
    PROVE  IInv'
<1> USE DEF At, Outside, Goto, Leave, srcVars, ctlVars, memVars, vmVars, faultVars
<1>0. /\ TypedRun /\ TypedCtl /\ TypedFaults /\ TypedVm /\ TypedMemory /\ TypedVol
      /\ Frame /\ Untouched /\ Bodies /\ Leftovers /\ Rollback /\ Provision
      /\ Attachment /\ Contents /\ Backed
  BY DEF IInv, Types
<1>1. opt.dst = "vsphere" /\ opt' = opt /\ spec' = spec
  BY DEF TearDown
<1>2. /\ Captures /\ Len(spec) \in Nat /\ Len(spec) <= NDisks /\ at \in Nat
      /\ Positions \subseteq Disks
      /\ \A i \in Positions : spec[i].order \in Addr /\ spec[i].disk \in Disks
      /\ pc \in Loops => at \in Positions /\ Order \in Addr /\ at <= Len(spec)
      /\ pc \notin NoSpec \/ known =>
            spec /= << >> /\ BootDisk \in Positions /\ 1 \in Positions
  BY <1>0, Here
<1>3. /\ UNCHANGED <<srcVars, shares, extra, others, at, tries, vm, slot, boots, rdm, native, home,
                     known, memory, dest>>
      /\ noted' = FALSE /\ pc = "unscratch2" /\ pc' = "boot"
      /\ vol' \in {vol, Without({Scratch})}
      /\ ~missed' => ~missed /\ (IF noted THEN vol' = Without({Scratch}) ELSE vol' = vol)
      /\ (\E b \in Unchecked : HearCleanup(b, Unchecked)) \/ UNCHANGED faultVars
      /\ "recorded" \in extra' => "recorded" \in extra
  BY <1>0 DEF TearDown, HearCleanup, Unchecked, TypedFaults
<1>4. /\ \A v \in Vols : v /= Scratch => vol'[v] = vol[v]
      /\ \A v \in Vols : Exists(v)' => Exists(v)
      /\ ~missed' /\ noted => ~Exists(Scratch)'
  BY <1>0, <1>3, Numbers DEF TypedVol, Exists, Without
<1>9. Attachment' /\ Contents'
  <2>1. CASE ~Good'
    BY <2>1 DEF Attachment, Contents
  <2>2. CASE Good'
    <3>1. Good /\ ~missed' /\ pc \in Finishing \ {"finalize"} /\ pc \in Built
      BY <1>1, <1>3, <2>2, VsphereForm, SameSpec DEF Good, Built
    <3>2. Exists(Scratch)' => Exists(Scratch) /\ ~noted
      BY <1>4, <3>1, Numbers
    <3>3. dest \in Seq(Vols) /\ Len(dest) <= NDisks
      BY <1>0 DEF TypedMemory
    <3> QED
      BY <1>0, <1>1, <1>3, <1>4, <2>2, <3>1, <3>2, <3>3, StaysUp
  <2> QED
    BY <2>1, <2>2
<1>11. TypedRun'
  BY <1>0, <1>1, <1>3
     DEF TypedRun
<1>12. TypedCtl'
  BY <1>0, <1>1, PartsAssumption, <1>3
     DEF TypedCtl
<1>13. TypedFaults'
  BY <1>0, <1>3, Heard DEF TypedFaults
<1>14. TypedVm'
  BY <1>0, <1>1, <1>3
     DEF TypedVm, Hear, HearCleanup, Checked, Unchecked, Effect
<1>15. TypedMemory'
  BY <1>0, <1>1, <1>3
     DEF TypedMemory, Hear, HearCleanup, Checked, Unchecked, Effect
<1>16. TypedVol'
  BY <1>0, <1>3, Numbers DEF TypedVol, Without
<1>17. Frame'
  BY <1>0, <1>1, VsphereForm, SameRun, <1>3
     DEF Frame, Staging, Built, Steps, Whole, Loops, Hear, HearCleanup, Checked,
        Unchecked, Effect
<1>18. Untouched'
  BY <1>0, <1>1, VsphereForm, SameRun, <1>3
     DEF Untouched, Staging
<1>19. Bodies'
  BY <1>0, <1>1, VsphereForm, SameRun, <1>3
     DEF Bodies, Staging, Frame, Built, Hear, HearCleanup, Checked, Unchecked,
        Effect
<1>20. Leftovers'
  BY <1>0, <1>1, VsphereForm, SameRun, <1>3
     DEF Leftovers, Staging, Frame, Built, Hear, HearCleanup, Checked, Unchecked,
        Effect
<1>21. Rollback'
  <2> SUFFICES ASSUME ~missed' PROVE Rollback'
    BY DEF Rollback
  <2>1. /\ ~Over /\ ~Over' /\ ~missed /\ known /\ pc \notin Freeing /\ pc' \notin Freeing
    BY <1>0, <1>1, <1>3, VsphereForm DEF Over, Frame, Built
  <2>2. VolsOfVsphere /\ rdm \subseteq Disks
    BY <1>0, <1>1, <2>1 DEF Rollback, Standing, TypedVm
  <2>3. ~Exists(Scratch)'
    <3>1. Scratch \in Vols /\ Scratch \notin rdm /\ Scratch \notin Attached
      BY <1>0, <2>2, Numbers DEF TypedVm, Attached
    <3>2. Exists(Scratch) => noted
      BY <1>3, <2>2, <3>1 DEF VolsOfVsphere
    <3> QED
      BY <1>4, <3>1, <3>2
  <2>4. \A v \in Vols : Exists(v)' =>
              v \in rdm' \/ (v \in Attached' /\ opt'.vvol /\ pc' \notin Freeing')
    <3>1. \A v \in Vols : Exists(v)' => v \in rdm \/ (v \in Attached /\ opt.vvol)
      BY <1>3, <1>4, <2>2, <2>3 DEF VolsOfVsphere
    <3> QED
      BY <1>1, <1>3, <2>1, <3>1, SameSlot, SameRun
  <2>5. native' = {} => \A v \in rdm' : Exists(v)'
    <3>1. \A v \in rdm : v \in Vols /\ v /= Scratch
      BY <2>2, Numbers
    <3> QED
      BY <1>3, <1>4, <2>2, <3>1 DEF VolsOfVsphere, Exists
  <2>6. VolsOfVsphere'
    BY <1>3, <2>4, <2>5 DEF VolsOfVsphere
  <2> QED
    BY <1>1, <1>3, <2>1, <2>6 DEF Rollback, Disowned, Standing
<1>22. Provision'
  BY <1>0, <1>1, VsphereForm, SameRun, <1>3
     DEF Provision, Good, Built, Hear, HearCleanup, Checked, Unchecked, Effect
<1>23. Attachment'
  BY <1>9
<1>24. Contents'
  BY <1>9
<1>25. Backed'
  BY <1>0, <1>1, VsphereForm, SameRun, <1>3
     DEF Backed, Over, Exists, Built, Hear, HearCleanup, Checked, Unchecked, Effect
<1> QED
  BY <1>11, <1>12, <1>13, <1>14, <1>15, <1>16, <1>17, <1>18, <1>19, <1>20, <1>21,
     <1>22, <1>23, <1>24, <1>25 DEF IInv, Types

\* ... and in a rollback.
LEMMA DeleteScratchStep ==
    ASSUME IInv, TearDown("unscratch3", "unstage")
    PROVE  IInv'
<1> USE DEF At, Outside, Goto, Leave, srcVars, ctlVars, memVars, vmVars, faultVars
<1>0. /\ TypedRun /\ TypedCtl /\ TypedFaults /\ TypedVm /\ TypedMemory /\ TypedVol
      /\ Frame /\ Untouched /\ Bodies /\ Leftovers /\ Rollback /\ Provision
      /\ Attachment /\ Contents /\ Backed
  BY DEF IInv, Types
<1>1. opt.dst = "vsphere" /\ opt' = opt /\ spec' = spec
  BY DEF TearDown
<1>2. /\ Captures /\ Len(spec) \in Nat /\ Len(spec) <= NDisks /\ at \in Nat
      /\ Positions \subseteq Disks
      /\ \A i \in Positions : spec[i].order \in Addr /\ spec[i].disk \in Disks
      /\ pc \in Loops => at \in Positions /\ Order \in Addr /\ at <= Len(spec)
      /\ pc \notin NoSpec \/ known =>
            spec /= << >> /\ BootDisk \in Positions /\ 1 \in Positions
  BY <1>0, Here
<1>3. /\ UNCHANGED <<srcVars, shares, extra, others, at, tries, vm, slot, boots, rdm, native, home,
                     known, memory, dest>>
      /\ noted' = FALSE /\ pc = "unscratch3" /\ pc' = "unstage"
      /\ vol' \in {vol, Without({Scratch})}
      /\ ~missed' => ~missed /\ (IF noted THEN vol' = Without({Scratch}) ELSE vol' = vol)
      /\ (\E b \in Unchecked : HearCleanup(b, Unchecked)) \/ UNCHANGED faultVars
      /\ "recorded" \in extra' => "recorded" \in extra
  BY <1>0 DEF TearDown, HearCleanup, Unchecked, TypedFaults
<1>4. /\ \A v \in Vols : v /= Scratch => vol'[v] = vol[v]
      /\ \A v \in Vols : Exists(v)' => Exists(v)
      /\ ~missed' /\ noted => ~Exists(Scratch)'
  BY <1>0, <1>3, Numbers DEF TypedVol, Exists, Without
<1>11. TypedRun'
  BY <1>0, <1>1, <1>3
     DEF TypedRun
<1>12. TypedCtl'
  BY <1>0, <1>1, PartsAssumption, <1>3
     DEF TypedCtl
<1>13. TypedFaults'
  BY <1>0, <1>3, Heard DEF TypedFaults
<1>14. TypedVm'
  BY <1>0, <1>1, <1>3
     DEF TypedVm, Hear, HearCleanup, Checked, Unchecked, Effect
<1>15. TypedMemory'
  BY <1>0, <1>1, <1>3
     DEF TypedMemory, Hear, HearCleanup, Checked, Unchecked, Effect
<1>16. TypedVol'
  BY <1>0, <1>3, Numbers DEF TypedVol, Without
<1>17. Frame'
  BY <1>0, <1>1, VsphereForm, SameRun, <1>3
     DEF Frame, Staging, Built, Steps, Whole, Loops, Hear, HearCleanup, Checked,
        Unchecked, Effect
<1>18. Untouched'
  BY <1>0, <1>1, VsphereForm, SameRun, <1>3
     DEF Untouched, Staging
<1>19. Bodies'
  BY <1>0, <1>1, VsphereForm, SameRun, <1>3
     DEF Bodies, Staging, Frame, Built, Hear, HearCleanup, Checked, Unchecked,
        Effect
<1>20. Leftovers'
  BY <1>0, <1>1, VsphereForm, SameRun, <1>3
     DEF Leftovers, Staging, Frame, Built, Hear, HearCleanup, Checked, Unchecked,
        Effect
<1>21. Rollback'
  <2> SUFFICES ASSUME ~missed' PROVE Rollback'
    BY DEF Rollback
  <2>1. /\ ~Over /\ ~missed /\ known /\ pc \in Freeing /\ ~vm
    BY <1>0, <1>1, <1>3, VsphereForm DEF Over, Frame, Bodies
  <2>2. VolsOfVsphere /\ rdm \subseteq Disks
    BY <1>0, <1>1, <2>1 DEF Rollback, Standing, TypedVm
  <2>3. ~Exists(Scratch)'
    <3>1. Scratch \in Vols /\ Scratch \notin rdm /\ Scratch \notin Attached
      BY <1>0, <2>2, Numbers DEF TypedVm, Attached
    <3>2. Exists(Scratch) => noted
      BY <1>3, <2>2, <3>1 DEF VolsOfVsphere
    <3> QED
      BY <1>4, <3>1, <3>2
  <2>4. \A v \in Vols : Exists(v)' => Exists(v) /\ v \in rdm
    BY <1>3, <1>4, <2>1, <2>2, <2>3 DEF VolsOfVsphere
  <2>5. \A v \in Vols : Exists(v)' => KnownLeak(v)
    BY <1>3, <2>2, <2>4 DEF VolsOfVsphere
  <2>6. \A v : KnownLeak(v)' <=> KnownLeak(v)
    BY <1>1, <1>3, SameSpec DEF KnownLeak, Gap
  <2> QED
    BY <1>3, <2>1, <2>5, <2>6 DEF Rollback, Over, Cleared
<1>22. Provision'
  BY <1>0, <1>1, VsphereForm, SameRun, <1>3
     DEF Provision, Good, Built, Hear, HearCleanup, Checked, Unchecked, Effect
<1>23. Attachment'
  BY <1>0, <1>1, VsphereForm, SameRun, <1>3
     DEF Attachment, Good, Built, Hear, HearCleanup, Checked, Unchecked, Effect
<1>24. Contents'
  BY <1>0, <1>1, VsphereForm, SameRun, <1>3
     DEF Contents, Good, Built, Hear, HearCleanup, Checked, Unchecked, Effect
<1>25. Backed'
  BY <1>0, <1>1, VsphereForm, SameRun, <1>3
     DEF Backed, Over, Exists, Built, Hear, HearCleanup, Checked, Unchecked, Effect
<1> QED
  BY <1>11, <1>12, <1>13, <1>14, <1>15, <1>16, <1>17, <1>18, <1>19, <1>20, <1>21,
     <1>22, <1>23, <1>24, <1>25 DEF IInv, Types

\* vSphere: a vVol disk at the first free unit, resolved to its volume or left beside an RDM.
LEMMA VvolDiskStep ==
    ASSUME IInv, VvolDisk
    PROVE  IInv'
<1> USE DEF At, Outside, Goto, Leave, srcVars, ctlVars, memVars, vmVars, faultVars
<1>0. /\ TypedRun /\ TypedCtl /\ TypedFaults /\ TypedVm /\ TypedMemory /\ TypedVol
      /\ Frame /\ Untouched /\ Bodies /\ Leftovers /\ Rollback /\ Provision
      /\ Attachment /\ Contents /\ Backed
  BY DEF IInv, Types
<1>1. opt.dst = "vsphere" /\ opt' = opt /\ spec' = spec
  BY DEF VvolDisk
<1>2. /\ Captures /\ Len(spec) \in Nat /\ Len(spec) <= NDisks /\ at \in Nat
      /\ Positions \subseteq Disks
      /\ \A i \in Positions : spec[i].order \in Addr /\ spec[i].disk \in Disks
      /\ pc \in Loops => at \in Positions /\ Order \in Addr /\ at <= Len(spec)
      /\ pc \notin NoSpec \/ known =>
            spec /= << >> /\ BootDisk \in Positions /\ 1 \in Positions
  BY <1>0, Here
<1>3. PICK a \in {"ok", "fails", "late", "silent"} :
         /\ Hear(a, {"ok", "fails", "late", "silent"})
         /\ a = "fails" => UNCHANGED <<vol, slot>>
         /\ a \in {"ok", "late"} =>
               vol' = [vol EXCEPT ![at] = Blank] /\ slot' = [slot EXCEPT ![FreeAddr] = at]
         /\ a = "silent" =>
               vol' = [vol EXCEPT ![Stray] = Blank] /\ slot' = [slot EXCEPT ![FreeAddr] = Stray]
         /\ a = "ok" => /\ dest' = Append(dest, at) /\ pc' = "copy"
                        /\ UNCHANGED <<known, memory, noted>>
         /\ a = "silent" => UNCHANGED memVars /\ pc' = "rdm"
         /\ a \in {"fails", "late"} => UNCHANGED memVars /\ pc' = "undo"
  <2>1. PICK a \in {"ok", "fails", "late", "silent"} :
           /\ Hear(a, Checked \union {"silent"})
           /\ LET v == IF a = "silent" THEN Stray ELSE at
              IN IF a = "fails" THEN UNCHANGED <<vol, slot>>
                 ELSE /\ vol'  = [vol EXCEPT ![v] = Blank]
                      /\ slot' = [slot EXCEPT ![FreeAddr] = v]
           /\ CASE a = "ok" -> /\ dest' = Append(dest, at) /\ Goto("copy")
                               /\ UNCHANGED <<known, memory, noted>>
                [] a = "silent" -> Leave("rdm")
                [] OTHER -> Leave("undo")
    BY DEF VvolDisk, Checked
  <2>2. Hear(a, {"ok", "fails", "late", "silent"})
    BY <2>1 DEF Hear
  <2>3. /\ a = "fails" => UNCHANGED <<vol, slot>>
        /\ a \in {"ok", "late"} =>
              vol' = [vol EXCEPT ![at] = Blank] /\ slot' = [slot EXCEPT ![FreeAddr] = at]
        /\ a = "silent" =>
              vol' = [vol EXCEPT ![Stray] = Blank] /\ slot' = [slot EXCEPT ![FreeAddr] = Stray]
    BY <2>1
  <2>4. /\ a = "ok" => /\ dest' = Append(dest, at) /\ pc' = "copy"
                       /\ UNCHANGED <<known, memory, noted>>
        /\ a = "silent" => UNCHANGED memVars /\ pc' = "rdm"
        /\ a \in {"fails", "late"} => UNCHANGED memVars /\ pc' = "undo"
    BY <2>1
  <2> QED
    BY <2>2, <2>3, <2>4
<1>4. /\ UNCHANGED <<srcVars, shares, extra, others, at, tries, vm, boots, rdm, native, home>>
      /\ pc = "disk" /\ known /\ vm = TRUE /\ dest \in Seq(Vols) /\ Len(dest) = at - 1
      /\ at \in Positions /\ at <= Len(spec) /\ opt.vvol /\ native = {} /\ pc \in Built
  <2>1. /\ UNCHANGED <<srcVars, shares, extra, others, at, tries, vm, boots, rdm, native, home>>
        /\ pc = "disk" /\ opt.vvol
    BY <1>1 DEF VvolDisk
  <2>2. pc \in Built /\ pc \in Loops /\ pc \in Copying
    BY <1>1, <2>1, VsphereForm DEF Built, Loops
  <2>3. known /\ vm = TRUE /\ dest \in Seq(Vols) /\ Len(dest) = at - 1 /\ native = {}
    BY <1>0, <2>1, <2>2 DEF Frame, Bodies, TypedMemory, TypedVm
  <2> QED
    BY <1>2, <2>1, <2>2, <2>3
<1>5. /\ pc' = "copy" => dest' \in Seq(Vols) /\ Len(dest') = at /\ dest'[at] = at
      /\ pc' \in {"copy", "rdm", "undo"}
      /\ pc' /= "copy" => dest' = dest
      /\ UNCHANGED <<known, memory, noted>>
      /\ ~missed' => ~missed /\ a \in {"ok", "fails"}
  <2>1. a = "ok" => dest' \in Seq(Vols) /\ Len(dest') = at /\ dest'[at] = at
    <3>1. at \in Vols /\ at \in Nat
      BY <1>2, <1>4, Numbers
    <3> QED
      BY <1>3, <1>4, <3>1
  <2>2. ~missed' => ~missed /\ a \notin {"late", "silent"}
    BY <1>0, <1>3, Heard
  <2> QED
    BY <1>3, <2>1, <2>2
<1>6. ~missed => /\ \A b \in Addr : slot[b] = IF b < at - 1 THEN b + 1 ELSE 0
                 /\ rdm = {} /\ FreeAddr = at - 1 /\ at - 1 \in Addr
  <2>1. ~missed => rdm = {} /\ \A b \in Addr : slot[b] = IF b < at - 1 THEN b + 1 ELSE 0
    BY <1>0, <1>1, <1>4 DEF Backed
  <2>2. at - 1 \in Addr
    BY <1>2, <1>4, PartsAssumption DEF Addr, Positions
  <2>3. ~missed => \A b \in Addr : slot[b] = 0 <=> at - 1 <= b
    BY <2>1, <1>2, Numbers
  <2> QED
    BY <2>1, <2>2, <2>3, FreeAddrIs
<1>7. ~missed' /\ a = "ok" =>
         /\ Attached' = Attached \union {at}
         /\ \A b \in Addr : slot'[b] = IF b < at THEN b + 1 ELSE 0
         /\ \A v \in Vols : v /= at => vol'[v] = vol[v]
         /\ vol'[at] /= Absent
  <2> SUFFICES ASSUME ~missed', a = "ok"
      PROVE  /\ Attached' = Attached \union {at}
             /\ \A b \in Addr : slot'[b] = IF b < at THEN b + 1 ELSE 0
             /\ \A v \in Vols : v /= at => vol'[v] = vol[v]
             /\ vol'[at] /= Absent
    OBVIOUS
  <2>1. /\ slot \in [Addr -> Nat] /\ at \in Vols /\ at - 1 \in Addr /\ slot[at - 1] = 0
        /\ slot' = [slot EXCEPT ![at - 1] = at]
    BY <1>0, <1>2, <1>3, <1>4, <1>5, <1>6, Numbers DEF TypedVm
  <2>2. Attached' = Attached \union {at}
    BY <2>1, OneMore
  <2>3. \A b \in Addr : slot'[b] = IF b < at THEN b + 1 ELSE 0
    <3>1. slot'[at - 1] = at /\ \A b \in Addr : b /= at - 1 => slot'[b] = slot[b]
      BY <2>1
    <3>2. \A b \in Addr : b \in Nat /\ (b < at <=> b < at - 1 \/ b = at - 1)
      BY <1>2, Numbers
    <3> QED
      BY <1>2, <1>5, <1>6, <3>1, <3>2
  <2>4. vol'[at] = Blank /\ \A v \in Vols : v /= at => vol'[v] = vol[v]
    BY <1>0, <1>3, <2>1 DEF TypedVol
  <2> QED
    BY <2>2, <2>3, <2>4, Numbers
<1>8. UNCHANGED <<known, memory, noted>> /\ (UNCHANGED memVars \/ pc' = "copy")
  BY <1>3
<1>11. TypedRun'
  BY <1>0, <1>1, <1>3, <1>4, <1>5
     DEF TypedRun
<1>12. TypedCtl'
  BY <1>0, <1>1, PartsAssumption, <1>3, <1>4, <1>5
     DEF TypedCtl
<1>13. TypedFaults'
  BY <1>0, <1>3, Heard
<1>14. TypedVm'
  <2>1. slot' \in [Addr -> ({0} \union Vols) \ {Scratch}]
    <3>1. /\ at \in ({0} \union Vols) \ {Scratch} /\ Stray \in ({0} \union Vols) \ {Scratch}
          /\ slot \in [Addr -> ({0} \union Vols) \ {Scratch}]
      BY <1>0, <1>2, <1>4, Numbers DEF TypedVm
    <3>2. slot' = slot \/ (\E v \in {at, Stray} : slot' = [slot EXCEPT ![FreeAddr] = v])
      BY <1>3
    <3> QED
      BY <3>1, <3>2
  <2> QED
    BY <1>0, <1>4, <2>1 DEF TypedVm
<1>15. TypedMemory'
  <2>1. dest' \in Seq(Vols) /\ Len(dest') <= NDisks
    BY <1>0, <1>2, <1>4, <1>5, PartsAssumption DEF TypedMemory
  <2> QED
    BY <1>0, <1>8, <2>1 DEF TypedMemory
<1>16. TypedVol'
  <2>1. at \in Vols /\ Stray \in Vols /\ Blank \in 0..Absent
    BY <1>2, <1>4, Numbers
  <2> QED
    BY <1>0, <1>3, <2>1 DEF TypedVol
<1>17. Frame'
  BY <1>0, <1>1, <1>2, <1>4, <1>5, VsphereForm, SameRun
     DEF Frame, Staging, Built, Steps, Whole, Loops
<1>18. Untouched'
  BY <1>5 DEF Untouched, Staging
<1>19. Bodies'
  BY <1>0, <1>1, <1>4, <1>5, VsphereForm, SameRun DEF Bodies, Built
<1>20. Leftovers'
  BY <1>0, <1>1, <1>4, <1>5, VsphereForm, SameRun DEF Leftovers, Built, Staging
<1>21. Rollback'
  <2> SUFFICES ASSUME ~missed' PROVE Rollback'
    BY DEF Rollback
  <2>1. /\ ~Over /\ ~Over' /\ ~missed /\ pc \notin Freeing /\ pc' \notin Freeing
    BY <1>1, <1>4, <1>5, VsphereForm DEF Over
  <2>2. CASE a = "fails"
    BY <1>0, <1>1, <1>3, <1>4, <1>5, <2>1, <2>2, StandsStill
  <2>3. CASE a = "ok"
    <3>1. VolsOfVsphere
      BY <1>0, <1>1, <2>1 DEF Rollback, Standing
    <3>2. \A v \in Vols : Exists(v)' => v = at \/ Exists(v)
      BY <1>5, <1>7, <2>3 DEF Exists
    <3>3. at \in Attached' /\ Attached \subseteq Attached'
      BY <1>7, <2>3
    <3>4. pc' \notin Freeing' /\ rdm' = {} /\ pc' /= "unscratch3"
      BY <1>1, <1>4, <1>5, <1>6, <2>1, SameRun
    <3>5. \A v \in Vols : Exists(v)' =>
                (v = Scratch /\ noted') \/ (v \in Attached' /\ opt'.vvol)
      BY <1>1, <1>4, <1>5, <1>6, <2>1, <3>1, <3>2, <3>3 DEF VolsOfVsphere
    <3>6. VolsOfVsphere'
      BY <3>4, <3>5 DEF VolsOfVsphere
    <3> QED
      BY <1>1, <1>4, <1>5, <2>1, <3>6 DEF Rollback, Disowned, Standing
  <2> QED
    BY <1>5, <2>2, <2>3
<1>22. Provision'
  <2>1. Good' => Good
    BY <1>1, <1>5, SameSpec DEF Good
  <2> QED
    BY <1>0, <1>1, <1>4, <1>5, <2>1, VsphereForm, ProvisionStays DEF Makings
<1>23. Attachment'
  <2> SUFFICES ASSUME Good', pc' \in Built' PROVE Attachment'
    BY DEF Attachment
  <2>1. Good /\ a = "ok" /\ pc' = "copy" /\ ~missed'
    BY <1>1, <1>3, <1>5, VsphereForm, SameRun, SameSpec DEF Good, Built
  <2>2. \A v \in Vols : Exists(v)' => v \in Positions \/ (v = Scratch /\ noted')
    BY <1>0, <1>4, <1>5, <1>7, <2>1 DEF Attachment, Exists
  <2> QED
    BY <1>1, <1>4, <2>1, <2>2, VsphereForm, SameRun, SameSpec DEF Attachment
<1>24. Contents'
  <2>1. CASE ~Good' \/ pc' \notin Built'
    BY <2>1 DEF Contents
  <2>2. CASE Good' /\ pc' \in Built'
    <3>1. Good /\ a = "ok" /\ pc' = "copy" /\ ~missed' /\ dest' = Append(dest, at)
      BY <1>1, <1>3, <1>5, <2>2, VsphereForm, SameRun, SameSpec DEF Good, Built
    <3>2. \A i \in 1..(at - 1) : vol'[i] = vol[i]
      <4>1. \A i \in 1..(at - 1) : i \in Vols /\ i /= at
        BY <1>2, <1>4, PartsAssumption DEF Vols
      <4> QED
        BY <1>7, <3>1, <4>1
    <3>3. pc \in Copying \ {"copy"}
      BY <1>1, <1>4, VsphereForm
    <3> QED
      BY <1>0, <1>1, <1>2, <1>4, <3>1, <3>2, <3>3, NextToCopy
  <2> QED
    BY <2>1, <2>2
<1>25. Backed'
  <2> SUFFICES ASSUME ~missed' PROVE Backed'
    BY DEF Backed
  <2>1. CASE a = "ok"
    <3>1. /\ pc' = "copy" /\ rdm' = {} /\ Exists(dest[at])' /\ Len(dest') = at
          /\ \A b \in Addr : slot'[b] = IF b < at THEN b + 1 ELSE 0
      BY <1>3, <1>4, <1>5, <1>6, <1>7, <2>1 DEF Exists
    <3> QED
      BY <1>1, <3>1, VsphereForm DEF Backed, Provisioned
  <2>2. CASE a = "fails"
    BY <1>1, <1>3, <2>2, VsphereForm, SameRun DEF Backed, Built
  <2> QED
    BY <1>5, <2>1, <2>2
<1> QED
  BY <1>11, <1>12, <1>13, <1>14, <1>15, <1>16, <1>17, <1>18, <1>19, <1>20, <1>21,
     <1>22, <1>23, <1>24, <1>25 DEF IInv, Types

\* vSphere: the volume of an RDM is handed back before any device is on it.
LEMMA RdmVolumeStep ==
    ASSUME IInv, RdmVolume
    PROVE  IInv'
<1> USE DEF At, Outside, Goto, Leave, srcVars, ctlVars, memVars, vmVars, faultVars
<1>0. /\ TypedRun /\ TypedCtl /\ TypedFaults /\ TypedVm /\ TypedMemory /\ TypedVol
      /\ Frame /\ Untouched /\ Bodies /\ Leftovers /\ Rollback /\ Provision
      /\ Attachment /\ Contents /\ Backed
  BY DEF IInv, Types
<1>1. opt.dst = "vsphere" /\ opt' = opt /\ spec' = spec
  BY DEF RdmVolume
<1>2. /\ Captures /\ Len(spec) \in Nat /\ Len(spec) <= NDisks /\ at \in Nat
      /\ Positions \subseteq Disks
      /\ \A i \in Positions : spec[i].order \in Addr /\ spec[i].disk \in Disks
      /\ pc \in Loops => at \in Positions /\ Order \in Addr /\ at <= Len(spec)
      /\ pc \notin NoSpec \/ known =>
            spec /= << >> /\ BootDisk \in Positions /\ 1 \in Positions
  BY <1>0, Here
<1>3. /\ UNCHANGED <<srcVars, shares, extra, others, at, tries, vm, slot, boots, native, home>>
      /\ pc \in {"disk", "rdm"} /\ (pc = "disk" => ~opt.vvol)
      /\ \/ UNCHANGED <<rdm, vol>>
         \/ rdm' = rdm \union {at} /\ vol' = [vol EXCEPT ![at] = Blank]
      /\ \/ /\ pc' = "copy" /\ dest' = Append(dest, at) /\ UNCHANGED <<known, memory, noted>>
            /\ rdm' = rdm \union {at} /\ vol' = [vol EXCEPT ![at] = Blank]
         \/ /\ pc' = "undo" /\ UNCHANGED memVars
            /\ ~missed' => UNCHANGED <<rdm, vol>>
      /\ (\E b \in Checked : Hear(b, Checked)) \/ UNCHANGED faultVars
  <2>1. /\ UNCHANGED <<srcVars, shares, extra, others, at, tries, vm, slot, boots, native, home>>
        /\ pc \in {"disk", "rdm"} /\ (pc = "disk" => ~opt.vvol)
    BY DEF RdmVolume
  <2>2. CASE \E i \in rdm : spec[i].order = Order
    BY <2>1, <2>2 DEF RdmVolume
  <2>3. CASE ~ \E i \in rdm : spec[i].order = Order
    <3>1. PICK a \in Checked :
             /\ Hear(a, Checked)
             /\ IF Effect(a)
                THEN rdm' = rdm \union {at} /\ vol' = [vol EXCEPT ![at] = Blank]
                ELSE UNCHANGED <<rdm, vol>>
             /\ IF a = "ok"
                THEN /\ dest' = Append(dest, at) /\ pc' = "copy"
                     /\ UNCHANGED <<known, memory, noted>>
                ELSE UNCHANGED memVars /\ pc' = "undo"
      BY <2>3 DEF RdmVolume
    <3>2. a /= "ok" /\ ~missed' => UNCHANGED <<rdm, vol>>
      BY <1>0, <3>1, Heard DEF Effect
    <3>3. a = "ok" => rdm' = rdm \union {at} /\ vol' = [vol EXCEPT ![at] = Blank]
      BY <3>1 DEF Effect
    <3> QED
      BY <2>1, <3>1, <3>2, <3>3
  <2> QED
    BY <2>2, <2>3
<1>4. /\ known /\ vm = TRUE /\ dest \in Seq(Vols) /\ Len(dest) = at - 1 /\ at \in Positions
      /\ at \in Vols /\ at \in Disks
      /\ native = {} /\ pc \in Built /\ pc \in Copying \ {"copy"}
  <2>1. pc \in Built /\ pc \in Loops /\ pc \in Copying \ {"copy"}
    BY <1>1, <1>3, VsphereForm DEF Built, Loops
  <2>2. known /\ vm = TRUE /\ dest \in Seq(Vols) /\ Len(dest) = at - 1 /\ native = {}
    BY <1>0, <2>1 DEF Frame, Bodies, TypedMemory, TypedVm
  <2> QED
    BY <1>2, <2>1, <2>2, Numbers
<1>5. /\ pc' \in {"copy", "undo"} /\ UNCHANGED <<known, memory, noted>>
      /\ pc' = "undo" => dest' = dest
      /\ pc' = "copy" => /\ dest' \in Seq(Vols) /\ Len(dest') = at /\ dest'[at] = at
                         /\ dest' = Append(dest, at)
                         /\ rdm' = rdm \union {at} /\ vol' = [vol EXCEPT ![at] = Blank]
      /\ rdm' \subseteq Disks /\ rdm \subseteq rdm'
      /\ \A v \in Vols : v /= at => vol'[v] = vol[v]
      /\ vol'[at] /= Absent \/ vol' = vol
      /\ TypedVol' /\ TypedFaults'
      /\ ~missed' => ~missed /\ ~opt.vvol /\ (pc' = "undo" => UNCHANGED <<rdm, vol>>)
  <2>1. /\ pc' \in {"copy", "undo"} /\ UNCHANGED <<known, memory, noted>>
        /\ pc' = "undo" => dest' = dest
        /\ pc' = "copy" => dest' = Append(dest, at)
    BY <1>3
  <2>2. pc' = "copy" => dest' \in Seq(Vols) /\ Len(dest') = at /\ dest'[at] = at
    BY <1>2, <1>4, <2>1
  <2>3. /\ rdm \subseteq Disks /\ vol \in [Vols -> 0..Absent]
        /\ Blank \in 0..Absent /\ Blank /= Absent
    BY <1>0, Numbers DEF TypedVm, TypedVol
  <2>4. rdm' \subseteq Disks /\ rdm \subseteq rdm'
    BY <1>3, <1>4, <2>3
  <2>5. /\ \A v \in Vols : v /= at => vol'[v] = vol[v]
        /\ vol'[at] /= Absent \/ vol' = vol
        /\ TypedVol'
    BY <1>3, <1>4, <2>3 DEF TypedVol
  <2>6. TypedFaults' /\ (~missed' => ~missed)
    BY <1>0, <1>3, Heard DEF TypedFaults
  <2>7. ~missed => ~opt.vvol
    BY <1>0, <1>1, <1>3, <1>4 DEF Backed
  <2> QED
    BY <1>3, <2>1, <2>2, <2>4, <2>5, <2>6, <2>7
<1>11. TypedRun'
  BY <1>0, <1>1, <1>3, <1>4, <1>5
     DEF TypedRun
<1>12. TypedCtl'
  BY <1>0, <1>1, PartsAssumption, <1>3, <1>4, <1>5
     DEF TypedCtl
<1>13. TypedFaults'
  BY <1>5
<1>14. TypedVm'
  BY <1>0, <1>3, <1>4, <1>5 DEF TypedVm
<1>15. TypedMemory'
  <2>1. dest' \in Seq(Vols) /\ Len(dest') <= NDisks
    BY <1>0, <1>2, <1>4, <1>5, PartsAssumption DEF TypedMemory, Positions
  <2> QED
    BY <1>0, <1>5, <2>1 DEF TypedMemory
<1>16. TypedVol'
  BY <1>5
<1>17. Frame'
  BY <1>0, <1>1, <1>2, <1>3, <1>4, <1>5, VsphereForm, SameRun
     DEF Frame, Staging, Built, Steps, Whole, Loops
<1>18. Untouched'
  BY <1>5 DEF Untouched, Staging
<1>19. Bodies'
  BY <1>0, <1>1, <1>3, <1>4, <1>5, VsphereForm, SameRun DEF Bodies, Built
<1>20. Leftovers'
  BY <1>0, <1>1, <1>3, <1>4, <1>5, VsphereForm, SameRun DEF Leftovers, Built, Staging
<1>21. Rollback'
  <2> SUFFICES ASSUME ~missed' PROVE Rollback'
    BY DEF Rollback
  <2>1. /\ ~Over /\ ~Over' /\ ~missed /\ pc \notin Freeing /\ pc' \notin Freeing
        /\ pc /= "format"
    BY <1>1, <1>3, <1>4, <1>5, VsphereForm DEF Over
  <2>2. CASE pc' = "undo"
    <3>1. UNCHANGED <<vm, known, slot, vol, rdm, native, memory, noted>>
      BY <1>3, <1>5, <2>2
    <3> QED
      BY <1>0, <1>1, <1>4, <1>5, <2>1, <3>1, StandsStill
  <2>3. CASE pc' = "copy"
    <3>1. VolsOfVsphere /\ ~opt.vvol
      BY <1>0, <1>1, <1>5, <2>1 DEF Rollback, Standing
    <3>2. \A v \in Vols : Exists(v)' => v = at \/ Exists(v)
      BY <1>5 DEF Exists
    <3>3. \A v \in Vols : Exists(v)' => (v = Scratch /\ noted') \/ v \in rdm'
      BY <1>3, <1>5, <2>1, <2>3, <3>1, <3>2 DEF VolsOfVsphere
    <3>4. \A v \in rdm' : Exists(v)'
      <4>1. vol'[at] = Blank
        BY <1>0, <1>4, <1>5, <2>3 DEF TypedVol
      <4>2. \A v \in rdm : Exists(v) /\ v \in Vols
        BY <1>0, <1>3, <1>4, <3>1, Numbers DEF VolsOfVsphere, TypedVm
      <4> QED
        BY <1>5, <2>3, <4>1, <4>2, Numbers DEF Exists
    <3>5. VolsOfVsphere'
      BY <2>3, <3>3, <3>4 DEF VolsOfVsphere
    <3> QED
      BY <1>1, <1>3, <1>4, <1>5, <2>1, <3>5 DEF Rollback, Disowned, Standing
  <2> QED
    BY <1>5, <2>2, <2>3
<1>22. Provision'
  <2>1. Good' => Good
    BY <1>1, <1>5, SameSpec DEF Good
  <2> QED
    BY <1>0, <1>1, <1>3, <1>4, <1>5, <2>1, VsphereForm, ProvisionStays DEF Makings
<1>23. Attachment'
  <2> SUFFICES ASSUME Good', pc' \in Built' PROVE Attachment'
    BY DEF Attachment
  <2>1. Good /\ pc' = "copy"
    BY <1>1, <1>5, VsphereForm, SameRun, SameSpec DEF Good, Built
  <2>2. \A v \in Vols : Exists(v)' => v \in Positions \/ (v = Scratch /\ noted')
    BY <1>0, <1>4, <1>5, <2>1 DEF Attachment, Exists
  <2>3. ~opt.vvol => slot' = NoDevices
    BY <1>0, <1>1, <1>3, <1>4, <2>1 DEF Attachment
  <2> QED
    BY <1>1, <2>1, <2>2, <2>3, VsphereForm, SameRun, SameSpec DEF Attachment
<1>24. Contents'
  <2>1. CASE ~Good' \/ pc' \notin Built'
    BY <2>1 DEF Contents
  <2>2. CASE Good' /\ pc' \in Built'
    <3>1. Good /\ pc' = "copy" /\ dest' = Append(dest, at)
      BY <1>1, <1>5, <2>2, VsphereForm, SameRun, SameSpec DEF Good, Built
    <3>2. \A i \in 1..(at - 1) : vol'[i] = vol[i]
      <4>1. \A i \in 1..(at - 1) : i \in Vols /\ i /= at
        BY <1>2, <1>4, PartsAssumption DEF Vols
      <4> QED
        BY <1>5, <4>1
    <3> QED
      BY <1>0, <1>1, <1>2, <1>3, <1>4, <3>1, <3>2, NextToCopy
  <2> QED
    BY <2>1, <2>2
<1>25. Backed'
  <2> SUFFICES ASSUME ~missed' PROVE Backed'
    BY DEF Backed
  <2>1. pc' = "copy" => Exists(dest[at])'
    <3>1. pc' = "copy" => vol'[at] = Blank
      BY <1>0, <1>4, <1>5 DEF TypedVol
    <3> QED
      BY <1>3, <1>5, <3>1, Numbers DEF Exists
  <2> QED
    BY <1>1, <1>5, <2>1, VsphereForm, SameRun DEF Backed
<1> QED
  BY <1>11, <1>12, <1>13, <1>14, <1>15, <1>16, <1>17, <1>18, <1>19, <1>20, <1>21,
     <1>22, <1>23, <1>24, <1>25 DEF IInv, Types

\* vSphere: the devices are attached at the units of their orders, which are free.
LEMMA AttachRdmStep ==
    ASSUME IInv, AttachRdm
    PROVE  IInv'
<1> USE DEF At, Outside, Goto, Leave, srcVars, ctlVars, memVars, vmVars, faultVars
<1>0. /\ TypedRun /\ TypedCtl /\ TypedFaults /\ TypedVm /\ TypedMemory /\ TypedVol
      /\ Frame /\ Untouched /\ Bodies /\ Leftovers /\ Rollback /\ Provision
      /\ Attachment /\ Contents /\ Backed
  BY DEF IInv, Types
<1>1. opt.dst = "vsphere" /\ opt' = opt /\ spec' = spec
  BY DEF AttachRdm
<1>2. /\ Captures /\ Len(spec) \in Nat /\ Len(spec) <= NDisks /\ at \in Nat
      /\ Positions \subseteq Disks
      /\ \A i \in Positions : spec[i].order \in Addr /\ spec[i].disk \in Disks
      /\ pc \in Loops => at \in Positions /\ Order \in Addr /\ at <= Len(spec)
      /\ pc \notin NoSpec \/ known =>
            spec /= << >> /\ BootDisk \in Positions /\ 1 \in Positions
  BY <1>0, Here
<1>3. /\ UNCHANGED <<srcVars, shares, extra, others, tries, vol, memVars, vm, boots, rdm,
                     native, home>>
      /\ pc = "finalize"
  BY DEF AttachRdm, Loop
<1>4. /\ known /\ vm = TRUE /\ dest \in Seq(Vols) /\ Len(dest) = Len(spec) /\ native = {}
      /\ at \in Positions /\ at <= Len(spec) /\ Order \in Addr /\ at \in Vols /\ at /= Scratch
      /\ pc \in Built /\ pc \in Finishing
  <2>1. pc \in Built /\ pc \in Finishing /\ pc \in Loops
    BY <1>1, <1>3, VsphereForm DEF Built, Loops
  <2>2. known /\ vm = TRUE /\ dest \in Seq(Vols) /\ Len(dest) = Len(spec) /\ native = {}
    BY <1>0, <1>3, <2>1 DEF Frame, Bodies, TypedMemory, TypedVm
  <2> QED
    BY <1>2, <2>1, <2>2, Numbers
<1>5. /\ \/ slot' = slot
         \/ /\ at \notin Attached
            /\ slot' = [slot EXCEPT ![IF slot[Order] = 0 THEN Order ELSE FreeAddr] = at]
      /\ \/ /\ Loop("finalize", "convert")
            /\ at \in Attached =>  slot' = slot
            /\ at \notin Attached =>
                  slot' = [slot EXCEPT ![IF slot[Order] = 0 THEN Order ELSE FreeAddr] = at]
         \/ pc' = "undo" /\ at' = at
      /\ (\E b \in Checked : Hear(b, Checked)) \/ UNCHANGED faultVars
  <2>1. CASE at \in Attached
    BY <2>1 DEF AttachRdm
  <2>2. CASE at \notin Attached
    <3>1. PICK a \in Checked :
             /\ Hear(a, Checked)
             /\ slot' = IF ~Effect(a) THEN slot
                        ELSE [slot EXCEPT ![IF slot[Order] = 0 THEN Order
                                            ELSE FreeAddr] = at]
             /\ IF a = "ok" THEN Loop("finalize", "convert") ELSE Goto("undo")
      BY <2>2 DEF AttachRdm
    <3>2. a = "ok" => Effect(a)
      BY DEF Effect
    <3> QED
      BY <2>2, <3>1, <3>2
  <2> QED
    BY <2>1, <2>2
<1>6. /\ TypedCtl' /\ pc' \in {"finalize", "convert", "undo"}
      /\ pc' = "finalize" => at' = at + 1 /\ at' <= Len(spec)
      /\ pc' = "convert" => at = Len(spec)
  <2>1. CASE Loop("finalize", "convert")
    <3>1. /\ TypedCtl'
          /\ \/ at < Len(spec) /\ at' = at + 1 /\ at' <= Len(spec) /\ pc' = "finalize"
             \/ ~(at < Len(spec)) /\ at' = 1 /\ pc' = "convert"
      BY <1>0, <1>2, <2>1, Looped
    <3> QED
      BY <1>2, <1>4, <3>1
  <2>2. CASE pc' = "undo" /\ at' = at
    BY <1>0, <1>3, <2>2 DEF TypedCtl
  <2> QED
    BY <1>5, <2>1, <2>2
<1>7. /\ TypedFaults' /\ (~missed' => ~missed)
      /\ slot' \in [Addr -> ({0} \union Vols) \ {Scratch}]
  <2>1. TypedFaults' /\ (~missed' => ~missed)
    BY <1>0, <1>5, Heard DEF TypedFaults
  <2>2. /\ slot \in [Addr -> ({0} \union Vols) \ {Scratch}]
        /\ slot' = slot \/ \E b : slot' = [slot EXCEPT ![b] = at]
    BY <1>0, <1>5 DEF TypedVm
  <2> QED
    BY <1>4, <2>1, <2>2
<1>8. opt.vvol /\ ~missed => slot' = slot
  <2> SUFFICES ASSUME opt.vvol, ~missed PROVE at \in Attached
    BY <1>5
  <2>1. at - 1 \in Addr /\ at - 1 < Len(dest) /\ at /= 0
    BY <1>2, <1>4, PartsAssumption DEF Addr, Positions
  <2>2. slot[at - 1] = at
    BY <1>0, <1>1, <1>2, <1>4, <2>1 DEF Backed
  <2> QED
    BY <2>1, <2>2 DEF Attached
<1>9. ASSUME Good, ~opt.vvol, pc' \in {"finalize", "convert"}
      PROVE  ByOrder(slot', spec, at)
  <2>1. ByOrder(slot, spec, at - 1) /\ slot \in [Addr -> Nat]
    BY <1>0, <1>1, <1>3, <1>4, <1>9, Numbers DEF Attachment, TypedVm
  <2>2. slot[Order] = 0 /\ ByOrder([slot EXCEPT ![Order] = at], spec, at)
    BY <1>2, <1>4, <1>9, <2>1, NextByOrder DEF Good, Order
  <2>3. at \notin Attached
    <3>1. \A b \in Addr : slot[b] /= 0 => slot[b] \in 1..(at - 1)
      BY <2>1 DEF ByOrder
    <3>2. at \notin 1..(at - 1)
      BY <1>2
    <3> QED
      BY <3>1, <3>2 DEF Attached
  <2> QED
    BY <1>5, <1>9, <2>2, <2>3
<1>11. TypedRun'
  BY <1>0, <1>1, <1>3, <1>4, <1>6, <1>7
     DEF TypedRun
<1>12. TypedCtl'
  BY <1>6
<1>13. TypedFaults'
  BY <1>7
<1>14. TypedVm'
  BY <1>0, <1>3, <1>7 DEF TypedVm
<1>15. TypedMemory'
  BY <1>0, <1>3 DEF TypedMemory
<1>16. TypedVol'
  BY <1>0, <1>3 DEF TypedVol
<1>17. Frame'
  BY <1>0, <1>1, <1>3, <1>4, <1>6, VsphereForm, SameRun
     DEF Frame, Staging, Built, Steps, Whole, Loops
<1>18. Untouched'
  BY <1>6 DEF Untouched, Staging
<1>19. Bodies'
  BY <1>0, <1>1, <1>3, <1>4, <1>6, VsphereForm, SameRun DEF Bodies, Built
<1>20. Leftovers'
  BY <1>0, <1>1, <1>3, <1>4, <1>6, <1>7, VsphereForm, SameRun DEF Leftovers, Built, Staging
<1>21. Rollback'
  <2> SUFFICES ASSUME ~missed' PROVE Rollback'
    BY DEF Rollback
  <2>1. /\ ~Over /\ ~Over' /\ ~missed /\ pc \notin Freeing /\ pc' \notin Freeing
        /\ pc /= "format" /\ pc' /= "unscratch3"
    BY <1>1, <1>3, <1>4, <1>6, <1>7, VsphereForm DEF Over
  <2>2. VolsOfVsphere
    BY <1>0, <1>1, <2>1 DEF Rollback, Standing
  <2>3. opt.vvol => Attached' = Attached
    BY <1>8, <2>1, SameSlot
  <2>4. \A v : Exists(v)' <=> Exists(v)
    BY <1>3 DEF Exists
  <2>5. \A v \in Vols : Exists(v)' =>
           (v = Scratch /\ noted') \/ v \in rdm' \/ (v \in Attached' /\ opt'.vvol)
    BY <1>1, <1>3, <2>1, <2>2, <2>3, <2>4 DEF VolsOfVsphere
  <2>6. VolsOfVsphere'
    BY <1>1, <1>3, <1>4, <2>1, <2>2, <2>4, <2>5, SameRun DEF VolsOfVsphere
  <2> QED
    BY <1>1, <1>3, <1>4, <2>1, <2>6 DEF Rollback, Disowned, Standing
<1>22. Provision'
  <2>1. Good' => Good
    BY <1>1, <1>7, SameSpec DEF Good
  <2> QED
    BY <1>0, <1>1, <1>4, <1>6, <2>1, VsphereForm, ProvisionStays DEF Makings
<1>23. Attachment'
  <2> SUFFICES ASSUME Good', pc' \in Built' PROVE Attachment'
    BY DEF Attachment
  <2>1. Good /\ pc' \in {"finalize", "convert"}
    BY <1>1, <1>6, <1>7, VsphereForm, SameRun, SameSpec DEF Good, Built
  <2>2. \A v \in Vols : Exists(v)' => v \in Positions \/ (v = Scratch /\ noted')
    BY <1>0, <1>3, <1>4, <2>1 DEF Attachment, Exists
  <2>3. ~opt.vvol => /\ pc' = "finalize" => ByOrder(slot', spec', at' - 1)
                     /\ pc' = "convert" => ByOrder(slot', spec', Len(spec'))
    <3>1. pc' = "finalize" => at' - 1 = at
      BY <1>2, <1>6
    <3> QED
      BY <1>1, <1>6, <1>9, <2>1, <3>1
  <2> QED
    BY <1>1, <2>1, <2>2, <2>3, VsphereForm, SameRun, SameSpec DEF Attachment
<1>24. Contents'
  <2> SUFFICES ASSUME Good', pc' \in Built' PROVE Contents'
    BY DEF Contents
  <2>1. Good /\ pc' /= "copy" /\ pc /= "copy"
    BY <1>1, <1>3, <1>6, <1>7, SameSpec DEF Good
  <2> QED
    BY <1>0, <1>1, <1>3, <1>4, <2>1, SameRun DEF Contents
<1>25. Backed'
  <2> SUFFICES ASSUME ~missed' PROVE Backed'
    BY DEF Backed
  <2>1. opt.vvol => rdm = {} /\ \A a \in Addr : slot[a] = IF a < Len(dest) THEN a + 1 ELSE 0
    BY <1>0, <1>1, <1>4, <1>7 DEF Backed
  <2>2. opt.vvol => slot' = slot
    BY <1>7, <1>8
  <2> QED
    BY <1>1, <1>3, <1>6, <2>1, <2>2, VsphereForm, SameRun DEF Backed
<1> QED
  BY <1>11, <1>12, <1>13, <1>14, <1>15, <1>16, <1>17, <1>18, <1>19, <1>20, <1>21,
     <1>22, <1>23, <1>24, <1>25 DEF IInv, Types

\* vSphere: the disks verified to be VMDKs are no longer on their volumes.
LEMMA RelocateStep ==
    ASSUME IInv, Relocate
    PROVE  IInv'
<1> USE DEF At, Outside, Goto, Leave, srcVars, ctlVars, memVars, vmVars, faultVars
<1>0. /\ TypedRun /\ TypedCtl /\ TypedFaults /\ TypedVm /\ TypedMemory /\ TypedVol
      /\ Frame /\ Untouched /\ Bodies /\ Leftovers /\ Rollback /\ Provision
      /\ Attachment /\ Contents /\ Backed
  BY DEF IInv, Types
<1>1. opt.dst = "vsphere" /\ opt' = opt /\ spec' = spec
  BY DEF Relocate
<1>2. /\ Captures /\ Len(spec) \in Nat /\ Len(spec) <= NDisks /\ at \in Nat
      /\ Positions \subseteq Disks
      /\ \A i \in Positions : spec[i].order \in Addr /\ spec[i].disk \in Disks
      /\ pc \in Loops => at \in Positions /\ Order \in Addr /\ at <= Len(spec)
      /\ pc \notin NoSpec \/ known =>
            spec /= << >> /\ BootDisk \in Positions /\ 1 \in Positions
  BY <1>0, Here
<1>3. /\ UNCHANGED <<srcVars, shares, extra, others, at, tries, vol, memVars, vm, slot, boots, rdm>>
      /\ pc = "convert" /\ opt.convert
  BY DEF Relocate
<1>4. /\ known /\ vm = TRUE /\ native = {} /\ Len(dest) = Len(spec)
      /\ pc \in Built /\ pc \in Finishing /\ home \in BOOLEAN
  <2>1. pc \in Built /\ pc \in Finishing
    BY <1>1, <1>3, VsphereForm DEF Built
  <2> QED
    BY <1>0, <1>3, <2>1 DEF Frame, Bodies, TypedVm
<1>5. /\ native' \subseteq rdm /\ home' \in BOOLEAN /\ (home' => home)
      /\ pc' \in {"unrdm", "undo"}
      /\ pc' = "unrdm" => ~home' /\ rdm /= {}
      /\ (\E b \in Checked : Hear(b, Checked)) \/ UNCHANGED faultVars
  <2>1. CASE Rdms = {}
    BY <1>4, <2>1 DEF Relocate
  <2>2. CASE Rdms /= {}
    <3>1. PICK a \in Checked :
             /\ Hear(a, Checked)
             /\ native' \in IF Effect(a) THEN SUBSET Rdms ELSE {{}}
             /\ home' = (home /\ ~Effect(a))
             /\ pc' = IF a = "ok" /\ native' /= {} THEN "unrdm" ELSE "undo"
      BY <2>2 DEF Relocate
    <3>2. native' \subseteq rdm /\ rdm /= {}
      BY <2>2, <3>1 DEF Rdms
    <3>3. home' \in BOOLEAN /\ (home' => home)
      BY <1>4, <3>1
    <3>4. pc' = "unrdm" => ~home'
      <4>1. pc' = "unrdm" => Effect(a)
        BY <3>1 DEF Effect
      <4> QED
        BY <3>1, <4>1
    <3> QED
      BY <3>1, <3>2, <3>3, <3>4
  <2> QED
    BY <2>1, <2>2
<1>6. /\ TypedFaults' /\ (~missed' => ~missed)
      /\ opt.vvol /\ ~missed' => pc' = "undo" /\ rdm = {}
  <2>1. TypedFaults' /\ (~missed' => ~missed)
    BY <1>0, <1>5, Heard DEF TypedFaults
  <2>2. opt.vvol /\ ~missed => rdm = {}
    BY <1>0, <1>1, <1>4 DEF Backed
  <2> QED
    BY <1>5, <2>1, <2>2
<1>11. TypedRun'
  BY <1>0, <1>1, <1>3, <1>4, <1>5
     DEF TypedRun
<1>12. TypedCtl'
  BY <1>0, <1>1, PartsAssumption, <1>3, <1>4, <1>5
     DEF TypedCtl
<1>13. TypedFaults'
  BY <1>6
<1>14. TypedVm'
  BY <1>0, <1>3, <1>5 DEF TypedVm
<1>15. TypedMemory'
  BY <1>0, <1>3 DEF TypedMemory
<1>16. TypedVol'
  BY <1>0, <1>3 DEF TypedVol
<1>17. Frame'
  BY <1>0, <1>1, <1>3, <1>4, <1>5, VsphereForm, SameRun
     DEF Frame, Staging, Built, Steps, Whole, Loops
<1>18. Untouched'
  BY <1>5 DEF Untouched, Staging
<1>19. Bodies'
  BY <1>0, <1>1, <1>3, <1>4, <1>5, VsphereForm, SameRun DEF Bodies, Built
<1>20. Leftovers'
  BY <1>0, <1>1, <1>3, <1>4, <1>5, <1>6, VsphereForm, SameRun DEF Leftovers, Built, Staging
<1>21. Rollback'
  <2> SUFFICES ASSUME ~missed' PROVE Rollback'
    BY DEF Rollback
  <2>1. /\ ~Over /\ ~Over' /\ ~missed /\ pc \notin Freeing /\ pc' \notin Freeing
        /\ pc /= "format" /\ pc' /= "unscratch3" /\ pc /= "unscratch3"
    BY <1>1, <1>3, <1>4, <1>5, <1>6, VsphereForm DEF Over
  <2>2. VolsOfVsphere
    BY <1>0, <1>1, <2>1 DEF Rollback, Standing
  <2>3. (\A v : Exists(v)' <=> Exists(v)) /\ Attached' = Attached /\ \A v \in rdm : Exists(v)
    BY <1>3, <1>4, <2>1, <2>2, SameSlot DEF Exists, VolsOfVsphere
  <2>4. \A v \in Vols : Exists(v)' =>
           (v = Scratch /\ noted') \/ v \in rdm' \/ (v \in Attached' /\ opt'.vvol)
    BY <1>1, <1>3, <2>1, <2>2, <2>3 DEF VolsOfVsphere
  <2>5. VolsOfVsphere'
    BY <1>1, <1>3, <2>1, <2>3, <2>4, SameRun DEF VolsOfVsphere
  <2> QED
    BY <1>1, <1>3, <1>4, <2>1, <2>5 DEF Rollback, Disowned, Standing
<1>22. Provision'
  <2>1. Good' => Good
    BY <1>1, <1>6, SameSpec DEF Good
  <2> QED
    BY <1>0, <1>1, <1>4, <1>5, <2>1, VsphereForm, ProvisionStays DEF Makings
<1>23. Attachment'
  <2> SUFFICES ASSUME Good', pc' \in Built' PROVE Attachment'
    BY DEF Attachment
  <2>1. Good /\ pc' = "unrdm"
    BY <1>1, <1>5, <1>6, VsphereForm, SameRun, SameSpec DEF Good, Built
  <2>2. \A v \in Vols : Exists(v)' => v \in Positions \/ (v = Scratch /\ noted')
    BY <1>0, <1>3, <1>4, <2>1 DEF Attachment, Exists
  <2>3. ~opt.vvol => ByOrder(slot', spec', Len(spec'))
    BY <1>0, <1>1, <1>3, <1>4, <2>1 DEF Attachment
  <2> QED
    BY <1>1, <2>1, <2>2, <2>3, VsphereForm, SameRun, SameSpec DEF Attachment
<1>24. Contents'
  <2> SUFFICES ASSUME Good', pc' \in Built' PROVE Contents'
    BY DEF Contents
  <2>1. Good /\ pc' = "unrdm"
    BY <1>1, <1>5, <1>6, VsphereForm, SameRun, SameSpec DEF Good, Built
  <2>2. \A i \in 1..Len(dest) : dest[i] = i /\ vol[i] = spec[i].disk
    BY <1>0, <1>3, <1>4, <2>1 DEF Contents
  <2> QED
    BY <1>1, <1>3, <2>1, <2>2, VsphereForm, SameRun DEF Contents
<1>25. Backed'
  <2> SUFFICES ASSUME ~missed' PROVE Backed'
    BY DEF Backed
  <2> QED
    BY <1>1, <1>5, <1>6, VsphereForm, SameRun DEF Backed, Built
<1> QED
  BY <1>11, <1>12, <1>13, <1>14, <1>15, <1>16, <1>17, <1>18, <1>19, <1>20, <1>21,
     <1>22, <1>23, <1>24, <1>25 DEF IInv, Types

\* vSphere: only the volumes of verified disks are freed.
LEMMA FreeConvertedStep ==
    ASSUME IInv, FreeConverted
    PROVE  IInv'
<1> USE DEF At, Outside, Goto, Leave, srcVars, ctlVars, memVars, vmVars, faultVars
<1>0. /\ TypedRun /\ TypedCtl /\ TypedFaults /\ TypedVm /\ TypedMemory /\ TypedVol
      /\ Frame /\ Untouched /\ Bodies /\ Leftovers /\ Rollback /\ Provision
      /\ Attachment /\ Contents /\ Backed
  BY DEF IInv, Types
<1>1. opt.dst = "vsphere" /\ opt' = opt /\ spec' = spec
  BY DEF FreeConverted
<1>2. /\ Captures /\ Len(spec) \in Nat /\ Len(spec) <= NDisks /\ at \in Nat
      /\ Positions \subseteq Disks
      /\ \A i \in Positions : spec[i].order \in Addr /\ spec[i].disk \in Disks
      /\ pc \in Loops => at \in Positions /\ Order \in Addr /\ at <= Len(spec)
      /\ pc \notin NoSpec \/ known =>
            spec /= << >> /\ BootDisk \in Positions /\ 1 \in Positions
  BY <1>0, Here
<1>3. /\ UNCHANGED <<srcVars, shares, extra, others, at, tries, memVars, vmVars>>
      /\ pc = "unrdm" /\ pc' = "unscratch2"
      /\ vol' \in {vol, Without(native)}
      /\ \E b \in Unchecked : HearCleanup(b, Unchecked)
  BY DEF FreeConverted, Converted
<1>4. /\ known /\ vm = TRUE /\ Len(dest) = Len(spec)
      /\ pc \in Built /\ pc \in Finishing /\ pc' \in Built'
  <2>1. pc \in Built /\ pc \in Finishing /\ pc' \in Built'
    BY <1>1, <1>3, VsphereForm, SameRun DEF Built
  <2> QED
    BY <1>0, <1>3, <2>1 DEF Frame, Bodies, TypedVm
<1>5. /\ \A v \in Vols : v \notin native => vol'[v] = vol[v]
      /\ \A v \in Vols : Exists(v)' => Exists(v)
      /\ TypedVol'
      /\ native \subseteq rdm /\ rdm \subseteq Disks /\ Disks \subseteq Vols
  BY <1>0, <1>3, Numbers DEF TypedVol, TypedVm, Without, Exists
<1>6. /\ TypedFaults' /\ (~missed' => ~missed)
      /\ ~missed' => ~opt.vvol
  <2>1. TypedFaults' /\ (~missed' => ~missed)
    BY <1>0, <1>3, Heard DEF TypedFaults
  <2>2. ~missed => ~opt.vvol
    BY <1>0, <1>1, <1>3, <1>4 DEF Backed
  <2> QED
    BY <2>1, <2>2
<1>11. TypedRun'
  BY <1>0, <1>1, <1>3, <1>4, <1>5
     DEF TypedRun
<1>12. TypedCtl'
  BY <1>0, <1>1, PartsAssumption, <1>3, <1>4, <1>5
     DEF TypedCtl
<1>13. TypedFaults'
  BY <1>6
<1>14. TypedVm'
  BY <1>0, <1>3 DEF TypedVm
<1>15. TypedMemory'
  BY <1>0, <1>3 DEF TypedMemory
<1>16. TypedVol'
  BY <1>5
<1>17. Frame'
  BY <1>0, <1>1, <1>3, <1>4, VsphereForm, SameRun DEF Frame, Staging, Built, Steps, Whole, Loops
<1>18. Untouched'
  BY <1>3 DEF Untouched, Staging
<1>19. Bodies'
  BY <1>0, <1>1, <1>3, <1>4, VsphereForm, SameRun DEF Bodies, Built
<1>20. Leftovers'
  BY <1>0, <1>1, <1>3, <1>4, <1>6, VsphereForm, SameRun DEF Leftovers, Built, Staging
<1>21. Rollback'
  <2> SUFFICES ASSUME ~missed' PROVE Rollback'
    BY DEF Rollback
  <2>1. /\ ~Over /\ ~Over' /\ ~missed /\ pc \notin Freeing /\ pc' \notin Freeing
        /\ pc /= "format" /\ pc' /= "unscratch3" /\ pc /= "unscratch3"
    BY <1>1, <1>3, <1>4, <1>6, VsphereForm DEF Over
  <2>2. VolsOfVsphere
    BY <1>0, <1>1, <2>1 DEF Rollback, Standing
  <2>3. \A v \in Vols : Exists(v)' =>
           (v = Scratch /\ noted') \/ v \in rdm' \/ (v \in Attached' /\ opt'.vvol)
    BY <1>1, <1>3, <1>5, <2>1, <2>2, SameSlot DEF VolsOfVsphere
  <2>4. native' = {} => \A v \in rdm' : Exists(v)'
    BY <1>3, <1>5, <2>1, <2>2 DEF VolsOfVsphere, Exists
  <2>5. VolsOfVsphere'
    BY <1>1, <1>3, <2>1, <2>3, <2>4, SameRun DEF VolsOfVsphere
  <2> QED
    BY <1>1, <1>3, <1>4, <2>1, <2>5 DEF Rollback, Disowned, Standing
<1>22. Provision'
  <2>1. Good' => Good
    BY <1>1, <1>6, SameSpec DEF Good
  <2> QED
    BY <1>0, <1>1, <1>3, <1>4, <2>1, VsphereForm, ProvisionStays DEF Makings
<1>23. Attachment'
  <2> SUFFICES ASSUME Good', pc' \in Built' PROVE Attachment'
    BY DEF Attachment
  <2>1. Good /\ pc' = "unscratch2"
    BY <1>1, <1>3, <1>6, SameSpec DEF Good
  <2>2. \A v \in Vols : Exists(v)' => v \in Positions \/ (v = Scratch /\ noted')
    BY <1>0, <1>3, <1>4, <1>5, <2>1 DEF Attachment
  <2>3. ~opt.vvol => ByOrder(slot', spec', Len(spec'))
    BY <1>0, <1>1, <1>3, <1>4, <2>1 DEF Attachment
  <2> QED
    BY <1>1, <2>1, <2>2, <2>3, VsphereForm, SameRun, SameSpec DEF Attachment
<1>24. Contents'
  <2> SUFFICES ASSUME Good' PROVE Contents'
    BY DEF Contents
  <2>1. Good
    BY <1>1, <1>6, SameSpec DEF Good
  <2>2. /\ \A i \in 1..Len(dest) : dest[i] = i /\ (i \in native \/ vol[i] = spec[i].disk)
        /\ native /= {} => opt.convert
    BY <1>0, <1>3, <1>4, <2>1 DEF Contents
  <2>3. \A i \in 1..Len(dest) : i \in Vols
    BY <1>0, PartsAssumption DEF TypedMemory, Vols
  <2> QED
    BY <1>1, <1>3, <1>5, <2>2, <2>3, VsphereForm, SameRun DEF Contents
<1>25. Backed'
  <2> SUFFICES ASSUME ~missed' PROVE Backed'
    BY DEF Backed
  <2> QED
    BY <1>1, <1>3, <1>6, VsphereForm, SameRun DEF Backed, Built
<1> QED
  BY <1>11, <1>12, <1>13, <1>14, <1>15, <1>16, <1>17, <1>18, <1>19, <1>20, <1>21,
     <1>22, <1>23, <1>24, <1>25 DEF IInv, Types

\* vSphere: the boot disk is the device whose unit is its order.
LEMMA VsphereBootStep ==
    ASSUME IInv, VsphereBoot
    PROVE  IInv'
<1> USE DEF At, Outside, Goto, Leave, srcVars, ctlVars, memVars, vmVars, faultVars
<1>0. /\ TypedRun /\ TypedCtl /\ TypedFaults /\ TypedVm /\ TypedMemory /\ TypedVol
      /\ Frame /\ Untouched /\ Bodies /\ Leftovers /\ Rollback /\ Provision
      /\ Attachment /\ Contents /\ Backed
  BY DEF IInv, Types
<1>1. opt.dst = "vsphere" /\ opt' = opt /\ spec' = spec
  BY DEF VsphereBoot
<1>2. /\ Captures /\ Len(spec) \in Nat /\ Len(spec) <= NDisks /\ at \in Nat
      /\ Positions \subseteq Disks
      /\ \A i \in Positions : spec[i].order \in Addr /\ spec[i].disk \in Disks
      /\ pc \in Loops => at \in Positions /\ Order \in Addr /\ at <= Len(spec)
      /\ pc \notin NoSpec \/ known =>
            spec /= << >> /\ BootDisk \in Positions /\ 1 \in Positions
  BY <1>0, Here
<1>3. /\ UNCHANGED <<srcVars, shares, extra, others, at, tries, memVars, vol, vm, slot, rdm, native,
                     home>>
      /\ pc = "boot" /\ pc' \in {"power", "undo"}
      /\ boots' \in {boots, spec[BootDisk].order}
      /\ pc' = "power" => boots' = spec[BootDisk].order
      /\ (\E b \in Checked : Hear(b, Checked)) \/ UNCHANGED faultVars
  <2> DEFINE o == spec[BootDisk].order
  <2>1. CASE slot[o] = 0
    BY <2>1 DEF VsphereBoot
  <2>2. CASE slot[o] /= 0
    <3>1. PICK a \in Checked :
             /\ Hear(a, Checked)
             /\ boots' = IF Effect(a) THEN o ELSE boots
             /\ pc' = IF a = "ok" THEN "power" ELSE "undo"
      BY <2>2 DEF VsphereBoot
    <3>2. a = "ok" => boots' = o
      BY <3>1 DEF Effect
    <3>3. /\ UNCHANGED <<srcVars, shares, extra, others, at, tries, memVars, vol, vm, slot, rdm,
                         native, home>>
          /\ pc = "boot"
      BY DEF VsphereBoot
    <3> HIDE DEF o
    <3>4. boots' \in {boots, o} /\ pc' \in {"power", "undo"} /\ (pc' = "power" => boots' = o)
      BY <3>1, <3>2
    <3> QED
      BY <3>1, <3>3, <3>4 DEF o
  <2> QED
    BY <2>1, <2>2
<1>4. /\ known /\ vm = TRUE /\ Len(dest) = Len(spec) /\ native \subseteq rdm
      /\ pc \in Built /\ pc \in Finishing /\ spec[BootDisk].order \in Addr
  <2>1. pc \in Built /\ pc \in Finishing
    BY <1>1, <1>3, VsphereForm DEF Built
  <2>2. known /\ vm = TRUE /\ Len(dest) = Len(spec) /\ native \subseteq rdm
    BY <1>0, <1>3, <2>1 DEF Frame, Bodies, TypedVm
  <2> QED
    BY <1>2, <1>3, <2>1, <2>2 DEF NoSpec
<1>6. TypedFaults' /\ (~missed' => ~missed)
  BY <1>0, <1>3, Heard DEF TypedFaults
<1>9. Attachment' /\ Contents'
  <2>1. CASE ~Good' \/ pc' = "undo"
    BY <1>1, <2>1, VsphereForm, SameRun DEF Attachment, Contents, Built
  <2>2. CASE Good' /\ pc' = "power"
    <3>1. Good /\ pc \in Finishing \ {"finalize"}
      BY <1>1, <1>3, <1>4, <1>6, <2>2, SameSpec DEF Good
    <3>2. ~noted'
      BY <1>0, <1>1, <1>3, <1>4, <3>1 DEF Attachment
    <3>3. /\ dest \in Seq(Vols) /\ Len(dest) <= NDisks
          /\ \A v \in Vols \ {Scratch} : vol'[v] = vol[v]
          /\ Exists(Scratch)' => Exists(Scratch) /\ ~noted
      BY <1>0, <1>3, <3>2 DEF TypedMemory, Exists, Scratch
    <3> QED
      BY <1>0, <1>1, <1>3, <2>2, <3>1, <3>2, <3>3, StaysUp
  <2> QED
    BY <1>3, <2>1, <2>2
<1>11. TypedRun'
  BY <1>0, <1>1, <1>3, <1>4
     DEF TypedRun
<1>12. TypedCtl'
  BY <1>0, <1>1, PartsAssumption, <1>3, <1>4
     DEF TypedCtl
<1>13. TypedFaults'
  BY <1>6
<1>14. TypedVm'
  BY <1>0, <1>3, <1>4 DEF TypedVm
<1>15. TypedMemory'
  BY <1>0, <1>3 DEF TypedMemory
<1>16. TypedVol'
  BY <1>0, <1>3 DEF TypedVol
<1>17. Frame'
  BY <1>0, <1>1, <1>3, <1>4, VsphereForm, SameRun DEF Frame, Staging, Built, Steps, Whole, Loops
<1>18. Untouched'
  BY <1>3 DEF Untouched, Staging
<1>19. Bodies'
  BY <1>0, <1>1, <1>3, <1>4, VsphereForm, SameRun DEF Bodies, Built
<1>20. Leftovers'
  BY <1>0, <1>1, <1>3, <1>4, <1>6, VsphereForm, SameRun DEF Leftovers, Built, Staging
<1>21. Rollback'
  <2>1. /\ ~Over /\ ~Over' /\ pc \notin Freeing /\ pc' \notin Freeing /\ pc /= "format"
    BY <1>1, <1>3, <1>4, VsphereForm DEF Over
  <2> QED
    BY <1>0, <1>1, <1>3, <1>4, <1>6, <2>1, StandsStill
<1>22. Provision'
  <2>1. Good' => Good
    BY <1>1, <1>6, SameSpec DEF Good
  <2> QED
    BY <1>0, <1>1, <1>3, <1>4, <2>1, VsphereForm, ProvisionStays DEF Makings
<1>23. Attachment'
  BY <1>9
<1>24. Contents'
  BY <1>9
<1>25. Backed'
  <2> SUFFICES ASSUME ~missed' PROVE Backed'
    BY DEF Backed
  <2>1. opt.vvol => rdm = {} /\ \A a \in Addr : slot[a] = IF a < Len(dest) THEN a + 1 ELSE 0
    BY <1>0, <1>1, <1>4, <1>6 DEF Backed
  <2> QED
    BY <1>1, <1>3, <2>1, VsphereForm, SameRun DEF Backed
<1> QED
  BY <1>11, <1>12, <1>13, <1>14, <1>15, <1>16, <1>17, <1>18, <1>19, <1>20, <1>21,
     <1>22, <1>23, <1>24, <1>25 DEF IInv, Types

\* vSphere: the VM takes its vVol disks along; the volumes of the RDMs stay for the next step.
LEMMA VsphereDeleteStep ==
    ASSUME IInv, VsphereDelete
    PROVE  IInv'
<1> USE DEF At, Outside, Goto, Leave, srcVars, ctlVars, memVars, vmVars, faultVars
<1>0. /\ TypedRun /\ TypedCtl /\ TypedFaults /\ TypedVm /\ TypedMemory /\ TypedVol
      /\ Frame /\ Untouched /\ Bodies /\ Leftovers /\ Rollback /\ Provision
      /\ Attachment /\ Contents /\ Backed
  BY DEF IInv, Types
<1>1. opt.dst = "vsphere" /\ opt' = opt /\ spec' = spec
  BY DEF VsphereDelete
<1>2. /\ Captures /\ Len(spec) \in Nat /\ Len(spec) <= NDisks /\ at \in Nat
      /\ Positions \subseteq Disks
      /\ \A i \in Positions : spec[i].order \in Addr /\ spec[i].disk \in Disks
      /\ pc \in Loops => at \in Positions /\ Order \in Addr /\ at <= Len(spec)
      /\ pc \notin NoSpec \/ known =>
            spec /= << >> /\ BootDisk \in Positions /\ 1 \in Positions
  BY <1>0, Here
<1>3. /\ UNCHANGED <<srcVars, shares, extra, others, at, tries, memVars, rdm, native>>
      /\ pc = "teardown" /\ known
      /\ \/ /\ pc' = "freeRdm" /\ vm' = FALSE /\ slot' = NoDevices /\ boots' = Nowhere
            /\ home' = FALSE /\ vol' = Without(Attached \ rdm)
         \/ pc' = "unstage" /\ UNCHANGED <<vm, slot, boots, home, vol>> /\ missed'
      /\ \E b \in {"ok", "fails"} : HearCleanup(b, Checked)
  <2>1. PICK a \in {"ok", "fails"} :
           /\ HearCleanup(a, Checked)
           /\ IF a = "ok" THEN VmGone /\ vol' = Without(Attached \ rdm)
              ELSE UNCHANGED <<vmVars, vol>>
           /\ Leave(IF a = "ok" THEN "freeRdm" ELSE "unstage")
    BY DEF VsphereDelete
  <2>2. UNCHANGED <<srcVars, shares, extra, others>> /\ pc = "teardown" /\ known
    BY <1>0, <1>1 DEF VsphereDelete, Frame
  <2>3. a = "fails" => missed'
    BY <2>1 DEF HearCleanup
  <2> QED
    BY <2>1, <2>2, <2>3 DEF VmGone
<1>5. /\ \A v \in Vols : Exists(v)' => Exists(v)
      /\ TypedVol' /\ TypedVm' /\ NoDevices[0] = 0
      /\ vol' = Without(Attached \ rdm) => \A v \in Vols :
            IF v \in Attached \ rdm THEN ~Exists(v)' ELSE vol'[v] = vol[v]
  <2>1. NoDevices \in [Addr -> ({0} \union Vols) \ {Scratch}] /\ NoDevices[0] = 0
    BY Numbers DEF NoDevices
  <2>2. Nowhere \in Addr \union {Nowhere}
    OBVIOUS
  <2>3. TypedVm'
    BY <1>0, <1>3, <2>1, <2>2 DEF TypedVm
  <2>4. /\ \A v \in Vols : Exists(v)' => Exists(v)
        /\ TypedVol'
        /\ vol' = Without(Attached \ rdm) => \A v \in Vols :
            IF v \in Attached \ rdm THEN ~Exists(v)' ELSE vol'[v] = vol[v]
    BY <1>0, <1>3, Numbers DEF TypedVol, Without, Exists
  <2> QED
    BY <2>1, <2>3, <2>4
<1>6. TypedFaults' /\ (~missed' => ~missed /\ pc' = "freeRdm")
  BY <1>0, <1>3, Heard
<1>11. TypedRun'
  BY <1>0, <1>1, <1>3, <1>5
     DEF TypedRun
<1>12. TypedCtl'
  BY <1>0, <1>1, PartsAssumption, <1>3, <1>5
     DEF TypedCtl
<1>13. TypedFaults'
  BY <1>6
<1>14. TypedVm'
  BY <1>5
<1>15. TypedMemory'
  BY <1>0, <1>3 DEF TypedMemory
<1>16. TypedVol'
  BY <1>5
<1>17. Frame'
  BY <1>0, <1>1, <1>3, VsphereForm, SameRun DEF Frame, Staging, Built, Steps, Whole, Loops
<1>18. Untouched'
  BY <1>3 DEF Untouched, Staging
<1>19. Bodies'
  BY <1>0, <1>1, <1>3, VsphereForm, SameRun DEF Bodies, Built
<1>20. Leftovers'
  BY <1>0, <1>1, <1>3, <1>6, VsphereForm, SameRun DEF Leftovers, Built, Staging
<1>21. Rollback'
  <2> SUFFICES ASSUME ~missed' PROVE Rollback'
    BY DEF Rollback
  <2>1. /\ ~Over /\ ~Over' /\ ~missed /\ pc' = "freeRdm" /\ ~vm' /\ pc \notin Freeing
        /\ pc /= "format" /\ pc /= "unscratch3"
    BY <1>1, <1>3, <1>6, VsphereForm DEF Over
  <2>2. VolsOfVsphere
    BY <1>0, <1>1, <2>1 DEF Rollback, Standing
  <2>3. \A v \in Vols : IF v \in Attached \ rdm THEN ~Exists(v)' ELSE vol'[v] = vol[v]
    BY <1>3, <1>5, <2>1
  <2>4. \A v \in Vols : Exists(v)' => (v = Scratch /\ noted') \/ v \in rdm'
    BY <1>3, <1>5, <2>1, <2>2, <2>3 DEF VolsOfVsphere
  <2>5. native' = {} => \A v \in rdm' : Exists(v)'
    <3>1. rdm \subseteq Vols
      BY <1>0, Numbers DEF TypedVm
    <3> QED
      BY <1>3, <2>1, <2>2, <2>3, <3>1 DEF VolsOfVsphere, Exists
  <2>6. VolsOfVsphere'
    BY <1>1, <2>1, <2>4, <2>5 DEF VolsOfVsphere
  <2> QED
    BY <1>1, <2>1, <2>6 DEF Rollback, Disowned, Standing
<1>22. Provision'
  BY <1>1, <1>3, VsphereForm, SameRun DEF Provision, Built
<1>23. Attachment'
  BY <1>1, <1>3, VsphereForm, SameRun DEF Attachment, Built
<1>24. Contents'
  BY <1>1, <1>3, VsphereForm, SameRun DEF Contents, Built
<1>25. Backed'
  BY <1>1, <1>3, VsphereForm, SameRun DEF Backed, Built
<1> QED
  BY <1>11, <1>12, <1>13, <1>14, <1>15, <1>16, <1>17, <1>18, <1>19, <1>20, <1>21,
     <1>22, <1>23, <1>24, <1>25 DEF IInv, Types

\* vSphere: the loop over disk<n> finds every RDM volume, unless there is a gap or a failure.
LEMMA FreeRdmsStep ==
    ASSUME IInv, FreeRdms
    PROVE  IInv'
<1> USE DEF At, Outside, Goto, Leave, srcVars, ctlVars, memVars, vmVars, faultVars
<1>0. /\ TypedRun /\ TypedCtl /\ TypedFaults /\ TypedVm /\ TypedMemory /\ TypedVol
      /\ Frame /\ Untouched /\ Bodies /\ Leftovers /\ Rollback /\ Provision
      /\ Attachment /\ Contents /\ Backed
  BY DEF IInv, Types
<1>1. opt.dst = "vsphere" /\ opt' = opt /\ spec' = spec
  BY DEF FreeRdms
<1>2. /\ Captures /\ Len(spec) \in Nat /\ Len(spec) <= NDisks /\ at \in Nat
      /\ Positions \subseteq Disks
      /\ \A i \in Positions : spec[i].order \in Addr /\ spec[i].disk \in Disks
      /\ pc \in Loops => at \in Positions /\ Order \in Addr /\ at <= Len(spec)
      /\ pc \notin NoSpec \/ known =>
            spec /= << >> /\ BootDisk \in Positions /\ 1 \in Positions
  BY <1>0, Here
<1>3. /\ UNCHANGED <<srcVars, shares, extra, others, at, tries, memVars, vmVars>>
      /\ pc = "freeRdm" /\ pc' = "unscratch3" /\ known
      /\ vol' \in {vol, Without(Contiguous)}
      /\ ~missed' => vol' = Without(Contiguous)
      /\ \E b \in Unchecked : HearCleanup(b, Unchecked)
  <2>1. PICK a \in Unchecked :
           /\ HearCleanup(a, Unchecked)
           /\ vol' = IF a = "ok" THEN Without(Contiguous) ELSE vol
    BY DEF FreeRdms
  <2>2. ~missed' => a = "ok"
    BY <2>1 DEF HearCleanup
  <2>3. /\ UNCHANGED <<srcVars, shares, extra, others, at, tries, memVars, vmVars>>
        /\ pc = "freeRdm" /\ pc' = "unscratch3"
    BY DEF FreeRdms
  <2>4. known
    BY <1>0, <1>1, <2>3, VsphereForm DEF Frame
  <2> QED
    BY <2>1, <2>2, <2>3, <2>4
<1>5. /\ \A v \in Vols : Exists(v)' => Exists(v)
      /\ vol' = Without(Contiguous) => \A v \in Contiguous : v \in Vols => ~Exists(v)'
      /\ TypedVol' /\ rdm \subseteq Disks /\ rdm \subseteq Vols
  BY <1>0, <1>3, Numbers DEF TypedVol, TypedVm, Without, Exists
<1>6. TypedFaults' /\ (~missed' => ~missed)
  BY <1>0, <1>3, Heard
<1>11. TypedRun'
  BY <1>0, <1>1, <1>3, <1>5
     DEF TypedRun
<1>12. TypedCtl'
  BY <1>0, <1>1, PartsAssumption, <1>3, <1>5
     DEF TypedCtl
<1>13. TypedFaults'
  BY <1>6
<1>14. TypedVm'
  BY <1>0, <1>3 DEF TypedVm
<1>15. TypedMemory'
  BY <1>0, <1>3 DEF TypedMemory
<1>16. TypedVol'
  BY <1>5
<1>17. Frame'
  BY <1>0, <1>1, <1>3, VsphereForm, SameRun DEF Frame, Staging, Built, Steps, Whole, Loops
<1>18. Untouched'
  BY <1>3 DEF Untouched, Staging
<1>19. Bodies'
  BY <1>0, <1>1, <1>3, VsphereForm, SameRun DEF Bodies, Built
<1>20. Leftovers'
  BY <1>0, <1>1, <1>3, <1>6, VsphereForm, SameRun DEF Leftovers, Built, Staging
<1>21. Rollback'
  <2> SUFFICES ASSUME ~missed' PROVE Rollback'
    BY DEF Rollback
  <2>1. /\ ~Over /\ ~Over' /\ ~missed /\ ~vm' /\ pc \in Freeing /\ pc' \in Freeing'
        /\ pc /= "format" /\ pc /= "unscratch3"
    BY <1>0, <1>1, <1>3, <1>6, VsphereForm, SameRun DEF Over, Bodies
  <2>2. VolsOfVsphere
    BY <1>0, <1>1, <2>1 DEF Rollback, Standing
  <2>3. \A v \in Vols : Exists(v)' => (v = Scratch /\ noted') \/ v \in rdm'
    BY <1>3, <1>5, <2>1, <2>2 DEF VolsOfVsphere
  <2>4. ASSUME NEW v \in rdm, Exists(v)', ~Gap, native = {}
        PROVE  FALSE
    <3>1. \A i \in rdm : Exists(i)
      BY <2>1, <2>2, <2>4 DEF VolsOfVsphere
    <3>2. v \in Contiguous
      BY <1>0, <2>4, <3>1, NoGap DEF TypedVm
    <3> QED
      BY <1>3, <1>5, <2>4, <3>2
  <2>5. \A v \in rdm' : Exists(v)' => KnownLeak(v)'
    <3>1. Gap' <=> Gap
      BY <1>1, <1>3 DEF Gap
    <3> QED
      BY <1>1, <1>3, <2>4, <3>1 DEF KnownLeak
  <2>6. VolsOfVsphere'
    BY <1>3, <2>3, <2>5 DEF VolsOfVsphere
  <2> QED
    BY <1>1, <2>1, <2>6 DEF Rollback, Disowned, Standing
<1>22. Provision'
  BY <1>1, <1>3, VsphereForm, SameRun DEF Provision, Built
<1>23. Attachment'
  BY <1>1, <1>3, VsphereForm, SameRun DEF Attachment, Built
<1>24. Contents'
  BY <1>1, <1>3, VsphereForm, SameRun DEF Contents, Built
<1>25. Backed'
  BY <1>1, <1>3, VsphereForm, SameRun DEF Backed, Built
<1> QED
  BY <1>11, <1>12, <1>13, <1>14, <1>15, <1>16, <1>17, <1>18, <1>19, <1>20, <1>21,
     <1>22, <1>23, <1>24, <1>25 DEF IInv, Types
-----------------------------------------------------------------------------
(* The invariant holds.                                                     *)

\* At the start nothing has been made.
LEMMA Initially == Init => IInv
<1> SUFFICES ASSUME Init PROVE IInv
  OBVIOUS
<1>1. /\ opt \in Runs /\ hw \in SourceVms /\ pc = "capture" /\ at = 1 /\ tries = 0
      /\ spec = << >> /\ srcVm = TRUE /\ vm = FALSE /\ known = FALSE
      /\ vol = [v \in Vols |-> Absent] /\ slot = NoDevices /\ boots = Nowhere
      /\ rdm = {} /\ native = {} /\ home = FALSE
      /\ memory = NoMemory /\ noted = FALSE /\ dest = << >> /\ extra = {}
      /\ shares = FALSE /\ faults = 0 /\ missed = FALSE
      /\ others \subseteq {"sibling", "namesake", "neighbour"}
  BY DEF Init
<1>2. /\ Making \subseteq Makings /\ Copying \subseteq {"disk", "copy", "rdm"}
      /\ Finishing \subseteq Finals \union {"unrdm", "unscratch2"}
      /\ Freeing \subseteq {"freeRdm", "unscratch3"}
  BY <1>1, AnyForm
<1>3. << >> \in Seq(CapturedDisk) /\ << >> \in Seq(Vols) /\ Len(<< >>) = 0
  OBVIOUS
<1>4. TypedRun /\ TypedCtl /\ TypedFaults
  <2>1. spec \in Seq(CapturedDisk) /\ Len(spec) <= NDisks
    BY <1>1, <1>3, PartsAssumption
  <2>2. TypedRun
    BY <1>1, <2>1 DEF TypedRun
  <2>3. TypedCtl
    BY <1>1, PartsAssumption DEF TypedCtl, Disks
  <2>4. TypedFaults
    <3>1. faults \in 0..MaxFaults
      BY <1>1, PartsAssumption
    <3>2. missed \in BOOLEAN
      BY <1>1
    <3> QED
      BY <3>1, <3>2 DEF TypedFaults
  <2> QED
    BY <2>2, <2>3, <2>4
<1>5. TypedVm /\ TypedMemory /\ TypedVol
  BY <1>1, <1>3, Numbers, PartsAssumption
     DEF TypedVm, TypedMemory, TypedVol, NoDevices, NoMemory
<1>6. pc \notin Making \union Built \union Freeing \union Loops
  BY <1>1, <1>2 DEF Built, Loops, Makings, Finals
<1>7. Frame
  BY <1>1, <1>3, <1>6 DEF Frame, Staging, Steps, Built
<1>8. Untouched /\ Bodies
  BY <1>1, <1>6 DEF Untouched, Bodies, Built
<1>9. Leftovers
  BY <1>1 DEF Leftovers
<1>10. Rollback
  <2>1. \A v \in Vols : ~Exists(v)
    BY <1>1 DEF Exists
  <2>2. ~Over
    BY <1>1 DEF Over
  <2> QED
    BY <1>1, <2>1, <2>2 DEF Rollback, Disowned, Standing, VolsOfVsphere
<1>11. Provision /\ Attachment /\ Contents
  BY <1>1, <1>6 DEF Provision, Attachment, Contents
<1>12. Backed
  BY <1>1, <1>6 DEF Backed, NoMemory
<1> QED
  BY <1>4, <1>5, <1>7, <1>8, <1>9, <1>10, <1>11, <1>12 DEF IInv, Types

\* A run that has ended stays as it is.
LEMMA NoStep ==
    ASSUME IInv, UNCHANGED vars
    PROVE  IInv'
<1>1. UNCHANGED <<opt, hw, spec, srcVm, pc, at, tries, known, memory, noted, dest, vm, slot,
                  boots, rdm, native, home, vol, extra, others, shares, faults, missed>>
  BY DEF vars, srcVars, ctlVars, memVars, vmVars, faultVars
<1>2. /\ TypedRun /\ TypedCtl /\ TypedFaults /\ TypedVm /\ TypedMemory /\ TypedVol
      /\ Frame /\ Untouched /\ Bodies /\ Leftovers /\ Rollback /\ Provision
      /\ Attachment /\ Contents /\ Backed
  BY DEF IInv, Types
<1>3. /\ Attached' = Attached /\ (Over' <=> Over) /\ (Good' <=> Good)
      /\ \A v : (Exists(v)' <=> Exists(v)) /\ (KnownLeak(v)' <=> KnownLeak(v))
  BY <1>1, SameSpec DEF Attached, Over, Good, Exists, KnownLeak, Gap
<1>4. TypedRun' /\ TypedCtl' /\ TypedFaults' /\ TypedVm' /\ TypedMemory' /\ TypedVol'
  BY <1>1, <1>2 DEF TypedRun, TypedCtl, TypedFaults, TypedVm, TypedMemory, TypedVol
<1>5. Frame' /\ Untouched' /\ Bodies'
  BY <1>1, <1>2, SameRun DEF Frame, Untouched, Bodies
<1>6. Leftovers'
  BY <1>1, <1>2, SameRun DEF Leftovers
<1>7. Rollback'
  <2>1. opt.dst = "vsphere" => (VolsOfVsphere' <=> VolsOfVsphere)
    BY <1>1, <1>3, SameRun DEF VolsOfVsphere
  <2>2. Standing' <=> Standing
    BY <1>1, <1>3, <2>1, SameSpec DEF Standing
  <2>3. (Cleared' <=> Cleared) /\ (Disowned' <=> Disowned)
    BY <1>1, <1>3 DEF Cleared, Disowned
  <2> QED
    BY <1>1, <1>2, <1>3, <2>2, <2>3 DEF Rollback
<1>8. Provision'
  BY <1>1, <1>2, <1>3, SameRun, SameSpec DEF Provision
<1>9. Attachment'
  BY <1>1, <1>2, <1>3, SameRun, SameSpec DEF Attachment
<1>10. Contents'
  BY <1>1, <1>2, <1>3, SameRun DEF Contents
<1>11. Backed'
  BY <1>1, <1>2, <1>3, SameRun, SameSpec DEF Backed
<1> QED
  BY <1>4, <1>5, <1>6, <1>7, <1>8, <1>9, <1>10, <1>11 DEF IInv, Types

\* Every step keeps it.
LEMMA Inductive == IInv /\ [Next]_vars => IInv'
<1> SUFFICES ASSUME IInv, [Next]_vars PROVE IInv'
  OBVIOUS
<1>1. CASE SourceStep
  BY <1>1, CaptureStep, ProvisionEsxiSshStep, FreezeStep, CloneDiskStep, RemoveSnapshotStep,
     DeprovisionEsxiSshStep, TidyStep, UnstageStep
     DEF SourceStep
<1>2. CASE ServiceStep
  BY <1>2, EnsureUniqueNameStep, CopyVolumeStep, NoFinalizeStep, NoConversionStep, PowerOnStep,
     RemoveSourceStep, UndoStep
     DEF ServiceStep
<1>3. CASE OnDemandStep
  BY <1>3, NextIdStep, QmCreateStep, QmPurgeStep, QmConfigStep, ProxmoxDiskStep,
     ProxmoxBootStep,
     ProxmoxDeleteStep, XcpngCreateStep, XcpngDiskStep, XcpngBootStep, XcpngDeleteStep,
     NutanixCreateStep, NutanixDiskStep, NutanixBootStep, NutanixDeleteStep
     DEF OnDemandStep
<1>4. CASE ProvisionedStep
  <2>1. OsCleanup => pc \in {"osCleanup", "teardown"}
    BY DEF OsCleanup, At
  <2> QED
    BY <1>4, <2>1, CachedDiskStep, BootNamedAtCreationStep, HpePostStep, HpeAwaitStep,
       HpeCacheStep, HpeDeleteStep, PvcApplyStep, VmApplyStep, OcCleanupStep, OcDeleteStep,
       CinderCreateStep, PortCreateStep, NovaCreateStep, NovaSettleStep,
       OpenstackFinalizeStep, OsCleanupStep, OsTeardownStep
       DEF ProvisionedStep
<1>5. CASE VsphereStep
  BY <1>5, ScratchVolumeStep, ScratchFormatStep, VsphereCreateStep, UnscratchStep,
     FreeScratchStep, DeleteScratchStep, VvolDiskStep, RdmVolumeStep, AttachRdmStep,
     RelocateStep, FreeConvertedStep, VsphereBootStep, VsphereDeleteStep, FreeRdmsStep
     DEF VsphereStep
<1>6. CASE NeighbourTakesId
  BY <1>6, NeighbourTakesIdStep
<1>7. CASE Finished \/ UNCHANGED vars
  BY <1>7, NoStep DEF Finished
<1> QED
  BY <1>1, <1>2, <1>3, <1>4, <1>5, <1>6, <1>7 DEF Next, RunStep

\* The inductive invariant: what every step of the connectors knows of the VM,
\* its devices and volumes, of what the creation remembered and of what a
\* clean-up would find.
THEOREM Invariance == Spec => []IInv
<1> QED
  BY Initially, Inductive, PTL DEF Spec

\* The types of the state.
THEOREM TypeCorrect == Spec => []TypeOK
<1>1. IInv => TypeOK
  <2> SUFFICES ASSUME Types PROVE TypeOK
    BY DEF IInv
  <2>1. \A i \in Positions : spec[i] \in CapturedDisk
    BY DEF Types, TypedRun, Positions
  <2>2. \A i \in 1..Len(dest) : dest[i] \in Vols
    BY DEF Types, TypedMemory
  <2>3. slot \in [Addr -> {0} \union Vols] /\ memory \in [Addr -> {0} \union Vols]
    BY Numbers DEF Types, TypedVm, TypedMemory
  <2>4. {srcVm, vm, known, noted, home, shares, missed} \subseteq BOOLEAN
    BY DEF Types, TypedRun, TypedVm, TypedMemory, TypedFaults
  <2> QED
    BY <2>1, <2>2, <2>3, <2>4
       DEF Types, TypedRun, TypedCtl, TypedFaults, TypedVm, TypedMemory, TypedVol, TypeOK
<1> QED
  BY Invariance, <1>1, PTL

-----------------------------------------------------------------------------
(* A finished migration.                                                    *)

\* As many addresses are taken as there are disks, when each disk has one.
LEMMA Taken ==
    ASSUME NEW sl, NEW m \in Nat,
           \A a \in Addr : sl[a] /= 0 => sl[a] \in 1..m,
           \A a, b \in Addr : sl[a] /= 0 /\ sl[a] = sl[b] => a = b,
           \A i \in 1..m : \E a \in Addr : sl[a] = i
    PROVE  Cardinality({a \in Addr : sl[a] /= 0}) = m
<1> DEFINE U == {a \in Addr : sl[a] /= 0}
           f == [a \in U |-> sl[a]]
<1>1. /\ f \in [U -> 1..m]
      /\ \A a, b \in U : f[a] = f[b] => a = b
      /\ \A i \in 1..m : \E a \in U : f[a] = i
  <2>1. \A i \in 1..m : i /= 0
    OBVIOUS
  <2>2. \A i \in 1..m : \E a \in U : f[a] = i
    BY <2>1
  <2> QED
    BY <2>2
<1> HIDE DEF f, U
<1>2. f \in Bijection(U, 1..m)
  BY <1>1 DEF Bijection, Injection, Surjection, IsInjective
<1>3. IsFiniteSet(1..m) /\ Cardinality(1..m) = m
  <2>1. IsFiniteSet(1..m) /\ Cardinality(1..m) = IF 1 <= m THEN m - 1 + 1 ELSE 0
    BY FS_Interval
  <2> QED
    BY <2>1
<1>4. IsFiniteSet(U)
  <2>1. IsFiniteSet(Addr)
    BY FS_Interval, PartsAssumption DEF Addr
  <2> QED
    BY <2>1, FS_Subset DEF U
<1>5. Cardinality(U) = Cardinality(1..m)
  BY <1>2, <1>4, FS_Bijection DEF ExistsBijection
<1> QED
  BY <1>3, <1>5 DEF U

\* How the devices of a complete VM stand, whichever destination it is of.
Complete ==
    /\ \A a \in Addr : slot[a] /= 0 => slot[a] \in Positions
    /\ \A a, b \in Addr : slot[a] /= 0 /\ slot[a] = slot[b] => a = b
    /\ \A i \in Positions : \E a \in Addr :
          /\ slot[a] = i
          /\ i = BootDisk => \/ boots = a
                             \/ opt.dst = "nutanix"
                             \/ opt.dst = "vsphere" /\ opt.vvol

\* Devices by order are complete when the boot disk's is booted.
LEMMA ByOrderIsComplete ==
    ASSUME Captures, ByOrder(slot, spec, Len(spec)),
           \/ boots = spec[BootDisk].order
           \/ opt.dst = "nutanix"
    PROVE  Complete
<1>1. /\ Positions = 1..Len(spec) /\ 0 \notin Positions
      /\ \A i \in Positions : spec[i].order \in Addr
  BY SpecFacts, Numbers DEF Positions
<1>2. \A i \in Positions : slot[spec[i].order] = i
  BY <1>1 DEF ByOrder
<1>3. \A a \in Addr : slot[a] /= 0 => slot[a] \in Positions /\ spec[slot[a]].order = a
  BY <1>1 DEF ByOrder
<1>4. \A a, b \in Addr : slot[a] /= 0 /\ slot[a] = slot[b] => a = b
  BY <1>3
<1> QED
  BY <1>1, <1>2, <1>3, <1>4 DEF Complete

\* So are devices in the spec's own order, one at each address.
LEMMA OnePerAddrIsComplete ==
    ASSUME Captures, OnePerAddr(slot, Len(spec)), boots \in InList, slot[boots] = BootDisk
    PROVE  Complete
<1>1. /\ Positions = 1..Len(spec) /\ Len(spec) \in Nat /\ Len(spec) <= NDisks
  BY SpecFacts DEF Positions, Captures
<1>2. \A i \in Positions : \E a \in Addr : slot[a] = i
  BY <1>1, OnePerAddrIsOnto
<1>3. boots \in Addr
  BY DEF InList
<1>4. \A i \in Positions : \E a \in Addr : slot[a] = i /\ (i = BootDisk => boots = a)
  <2> TAKE i \in Positions
  <2>1. CASE i = BootDisk
    BY <1>3, <2>1
  <2>2. CASE i /= BootDisk
    BY <1>2, <2>2
  <2> QED
    BY <2>1, <2>2
<1>5. \A a \in Addr : slot[a] /= 0 => slot[a] \in Positions
  BY <1>1 DEF OnePerAddr
<1> QED
  BY <1>4, <1>5 DEF Complete, OnePerAddr

\* So are vVol disks, at the units vCenter gave them.
LEMMA UnitsAreComplete ==
    ASSUME Captures, opt.dst = "vsphere", opt.vvol,
           \A a \in Addr : slot[a] = IF a < Len(spec) THEN a + 1 ELSE 0
    PROVE  Complete
<1>1. /\ Positions = 1..Len(spec) /\ Len(spec) \in Nat /\ Len(spec) <= NDisks
      /\ Addr \subseteq Nat
  BY SpecFacts, Numbers DEF Positions, Captures
<1>2. \A i \in Positions : i - 1 \in Addr /\ slot[i - 1] = i
  <2> TAKE i \in Positions
  <2>1. i \in Nat /\ 1 <= i /\ i <= Len(spec)
    BY <1>1
  <2>2. i - 1 \in Addr /\ i - 1 < Len(spec)
    BY <1>1, <2>1, PartsAssumption DEF Addr
  <2> QED
    BY <2>1, <2>2
<1>3. \A a \in Addr : slot[a] /= 0 => slot[a] = a + 1 /\ slot[a] \in Positions
  BY <1>1
<1>4. \A a, b \in Addr : slot[a] /= 0 /\ slot[a] = slot[b] => a = b
  BY <1>1, <1>3
<1> QED
  BY <1>2, <1>3, <1>4 DEF Complete

\* A migration that succeeded and missed no answer, between any two platforms and
\* for every VM whose disks have orders of their own, has built that VM: a device
\* for each captured disk, on a volume with the disk's content, no other device
\* and no other volume; and it boots the disk set_boot_order was asked for (but
\* for AHV and vVol disks, whose order is not the connector's to choose).
THEOREM Rebuilt == Spec => []RebuildComplete
<1>1. ASSUME IInv, pc = "done", ~missed, DistinctOrders
      PROVE  /\ vm
             /\ \A i \in Positions : \E a \in Addr :
                   /\ slot[a] /= 0 /\ ContentsAt(a) = spec[i].disk
                   /\ i = BootDisk => \/ boots = a
                                      \/ opt.dst = "nutanix"
                                      \/ opt.dst = "vsphere" /\ opt.vvol
             /\ Cardinality({a \in Addr : slot[a] /= 0}) = Len(spec)
             /\ \A v \in Vols : Exists(v) => v \in Attached
             /\ extra \subseteq {"port"}
  <2>1. /\ TypedRun /\ TypedCtl /\ TypedVm /\ TypedMemory /\ Frame /\ Bodies /\ Leftovers
        /\ Provision /\ Attachment /\ Contents /\ Backed /\ Good
    BY <1>1 DEF IInv, Types, Good
  <2>2. /\ pc \in Built /\ pc \in Finishing /\ pc \notin Copying /\ opt.dst \in Platforms
    BY <1>1, <2>1, AnyForm DEF TypedRun, Built, Finals
  <2>3. vm /\ Len(dest) = Len(spec) /\ Captures
    BY <2>1, <2>2, Here DEF Frame, Bodies
  <2>4. Positions = 1..Len(spec) /\ Len(spec) \in Nat /\ 0 \notin Positions
    BY <2>3, SpecFacts, Numbers DEF Positions
  <2>5. Complete
    <3>1. CASE OnDemand
      <4>1. ByOrder(slot, spec, Len(spec))
        BY <2>1, <2>2, <2>3, <3>1 DEF Attachment
      <4>2. boots = spec[BootDisk].order \/ opt.dst = "nutanix"
        BY <1>1, <2>1, <2>2, <3>1 DEF Attachment, OnDemand
      <4> QED
        BY <2>3, <4>1, <4>2, ByOrderIsComplete
    <3>2. CASE Provisioned
      BY <2>1, <2>2, <2>3, <3>2, OnePerAddrIsComplete DEF Provision
    <3>3. CASE opt.dst = "vsphere" /\ ~opt.vvol
      <4>1. ByOrder(slot, spec, Len(spec)) /\ boots = spec[BootDisk].order
        BY <1>1, <2>1, <2>2, <3>3 DEF Attachment
      <4> QED
        BY <2>3, <4>1, ByOrderIsComplete
    <3>4. CASE opt.dst = "vsphere" /\ opt.vvol
      <4>1. \A a \in Addr : slot[a] = IF a < Len(spec) THEN a + 1 ELSE 0
        BY <1>1, <2>1, <2>2, <2>3, <3>4 DEF Backed
      <4> QED
        BY <2>3, <3>4, <4>1, UnitsAreComplete
    <3> QED
      BY <2>2, <3>1, <3>2, <3>3, <3>4 DEF OnDemand, Provisioned, Platforms
  <2>6. ASSUME NEW i \in Positions, NEW a \in Addr, slot[a] = i
        PROVE  slot[a] /= 0 /\ ContentsAt(a) = spec[i].disk
    <3>1. i \in native \/ vol[i] = spec[i].disk
      BY <1>1, <2>1, <2>2, <2>3, <2>4 DEF Contents
    <3> QED
      BY <2>4, <2>6, <3>1 DEF ContentsAt
  <2>7. \A i \in Positions : \E a \in Addr :
           /\ slot[a] /= 0 /\ ContentsAt(a) = spec[i].disk
           /\ i = BootDisk => \/ boots = a
                              \/ opt.dst = "nutanix"
                              \/ opt.dst = "vsphere" /\ opt.vvol
    BY <2>5, <2>6 DEF Complete
  <2>8. Cardinality({a \in Addr : slot[a] /= 0}) = Len(spec)
    BY <2>4, <2>5, Taken DEF Complete
  <2>9. ASSUME NEW v \in Vols, Exists(v) PROVE v \in Attached
    <3>1. v \in Positions
      BY <1>1, <2>1, <2>2, <2>9 DEF Attachment
    <3>2. v /= 0 /\ \E a \in Addr : slot[a] = v
      BY <2>4, <2>5, <3>1 DEF Complete
    <3> QED
      BY <3>2 DEF Attached
  <2>10. extra \subseteq {"port"}
    BY <1>1, <2>1, <2>2 DEF Leftovers, TypedRun
  <2> QED
    BY <2>3, <2>7, <2>8, <2>9, <2>10
<1>2. IInv => RebuildComplete
  BY <1>1 DEF RebuildComplete
<1> QED
  BY Invariance, <1>2, PTL

-----------------------------------------------------------------------------
(* A rollback.                                                              *)

\* A migration that failed has left nothing at the destination, as long as no
\* failure of a clean-up went unnoticed: create_vm's own clean-up and
\* _teardown_dest find every VM, volume and port, but for the leaks the
\* connectors are known to have.
THEOREM RolledBack == Spec => []RollbackLeavesNothing
<1>1. ASSUME IInv, pc = "rolledback", ~missed
      PROVE  /\ vm => opt.dst = "hpevme" /\ ~known
             /\ \A v \in Vols : Exists(v) => KnownLeak(v)
             /\ extra \subseteq (IF known THEN {} ELSE {"clones"})
  <2>1. TypedRun /\ Leftovers /\ Rollback /\ Over
    BY <1>1 DEF IInv, Types, Over
  <2>2. Cleared
    BY <1>1, <2>1 DEF Rollback
  <2>3. extra \subseteq (IF known THEN {} ELSE {"clones"})
    BY <1>1, <2>1 DEF Leftovers, TypedRun
  <2> QED
    BY <2>2, <2>3 DEF Cleared
<1>2. IInv => RollbackLeavesNothing
  BY <1>1 DEF RollbackLeavesNothing
<1> QED
  BY Invariance, <1>2, PTL

-----------------------------------------------------------------------------
(* No volume is destroyed under the new VM.                                 *)

Unused == \A v \in Vols :
             (Exists(v) /\ vol'[v] = Absent /\ ~Excused') => ~InUse(v)'

\* It is not when none is destroyed, ...
LEMMA NoneFreed ==
    ASSUME \A v \in Vols : vol'[v] = Absent => vol[v] = Absent
    PROVE  Unused
BY DEF Unused, Exists

\* ... nor when the VM goes with it.
LEMMA FreedWithVm ==
    ASSUME slot' = NoDevices, ~home'
    PROVE  Unused
<1>1. Attached' = {}
  BY DEF Attached, NoDevices
<1> QED
  BY <1>1 DEF Unused, InUse

\* The volume a step makes is there afterwards.
LEMMA OneMade ==
    ASSUME TypedVol, NEW v, NEW c, c /= Absent, vol' = [vol EXCEPT ![v] = c]
    PROVE  Unused
<1>1. \A w \in Vols : vol'[w] = vol[w] \/ vol'[w] = c
  BY DEF TypedVol
<1> QED
  BY <1>1, NoneFreed

\* What the steps before and after the VM's creation destroy.
LEMMA ServiceFrees ==
    ASSUME IInv, SourceStep \/ ServiceStep
    PROVE  Unused
<1>1. CASE CopyVolume
  <2>1. TypedRun /\ TypedCtl /\ Frame /\ TypedVol
    BY DEF IInv, Types
  <2>2. spec[at].disk /= Absent
    <3>1. at \in Positions
      BY <1>1, <2>1, Here DEF CopyVolume, Loops, Copying
    <3> QED
      BY <2>1, <3>1, Here, Numbers
  <2>3. vol' = vol \/ vol' = [vol EXCEPT ![dest[at]] = spec[at].disk]
    BY <1>1 DEF CopyVolume
  <2> QED
    BY <2>1, <2>2, <2>3, OneMade, NoneFreed
<1>2. CASE ~CopyVolume
  <2>1. vol' = vol
    BY <1>2 DEF SourceStep, ServiceStep, Capture, ProvisionEsxiSsh, Freeze, CloneDisk,
                RemoveSnapshot, DeprovisionEsxiSsh, CleanupScratch, Stages, EnsureUniqueName,
                NoFinalize, NoConversion, PowerOn, RemoveSource, Undo
  <2> QED
    BY <2>1, NoneFreed
<1> QED
  BY <1>1, <1>2

\* What Proxmox, XCP-ng and Nutanix destroy.
LEMMA OnDemandFrees ==
    ASSUME IInv, OnDemandStep
    PROVE  Unused
<1>1. CASE ProxmoxDelete \/ NutanixDelete
  <2>1. VmGone \/ vol' = vol
    BY <1>1 DEF ProxmoxDelete, NutanixDelete
  <2> QED
    BY <2>1, FreedWithVm, NoneFreed DEF VmGone
<1>2. CASE ProxmoxDisk \/ XcpngDisk \/ NutanixDisk
  <2>1. vol' = vol \/ vol' = [vol EXCEPT ![at] = Blank]
    BY <1>2 DEF ProxmoxDisk, XcpngDisk, NutanixDisk, MakesDisk
  <2> QED
    BY <2>1, OneMade, NoneFreed, Numbers DEF IInv, Types
<1>3. CASE NextId \/ QmCreate \/ QmPurge \/ QmConfig \/ ProxmoxBoot \/ XcpngCreate
           \/ XcpngBoot \/ XcpngDelete \/ NutanixCreate \/ NutanixBoot
  <2>1. vol' = vol
    BY <1>3 DEF NextId, QmCreate, QmPurge, QmConfig, ProxmoxBoot, XcpngCreate, XcpngBoot,
                XcpngDelete, NutanixCreate, NutanixBoot
  <2> QED
    BY <2>1, NoneFreed
<1> QED
  BY <1>1, <1>2, <1>3 DEF OnDemandStep

\* What HPE VME, OpenShift and OpenStack destroy.
LEMMA ProvisionedFrees ==
    ASSUME IInv, ProvisionedStep
    PROVE  Unused
<1>0. TypedVol /\ Bodies
  BY DEF IInv, Types
<1>1. CASE HpeDelete
  <2>1. VmGone \/ vol' = vol
    BY <1>1 DEF HpeDelete
  <2> QED
    BY <2>1, FreedWithVm, NoneFreed DEF VmGone
<1>2. CASE OcCleanup \/ OcDelete
  <2>1. PICK a \in Unchecked, b \in Unchecked :
           /\ \E worse \in {a, b} :
                 HearCleanup(worse, Unchecked) /\ (worse = "ok" => {a, b} = {"ok"})
           /\ IF a = "ok" THEN VmGone ELSE UNCHANGED vmVars
    BY <1>2 DEF OcCleanup, OcDelete
  <2>2. CASE a = "ok"
    BY <2>1, <2>2, FreedWithVm DEF VmGone
  <2>3. CASE a /= "ok"
    <3>1. PICK worse \in {a, b} :
             HearCleanup(worse, Unchecked) /\ (worse = "ok" => {a, b} = {"ok"})
      BY <2>1
    <3>2. worse /= "ok"
      BY <2>3, <3>1
    <3>3. missed'
      BY <3>1, <3>2 DEF HearCleanup
    <3>4. opt'.dst = "openshift"
      BY <1>2 DEF OcCleanup, OcDelete, At, Outside
    <3> QED
      BY <3>3, <3>4 DEF Unused, Excused
  <2> QED
    BY <2>2, <2>3
<1>3. CASE OsCleanup
  <2>1. PICK a \in Unchecked, b \in Unchecked : CleanupArtifacts(a, b)
    BY <1>3 DEF OsCleanup
  <2>2. vol' = vol \/ vol' = Without(Remembered \ {slot'[x] : x \in Addr})
    BY <2>1 DEF CleanupArtifacts
  <2>3. ~home'
    <3>1. ~home
      BY <1>0, <1>3 DEF Bodies, OsCleanup, At
    <3> QED
      BY <2>1, <3>1 DEF CleanupArtifacts, VmGone, vmVars
  <2>4. CASE vol' = Without(Remembered \ {slot'[x] : x \in Addr})
    <3>1. ASSUME NEW v \in Vols, Exists(v), vol'[v] = Absent
          PROVE  v \notin Attached'
      BY <2>4, <3>1 DEF Without, Exists, Attached
    <3> QED
      BY <2>3, <3>1 DEF Unused, InUse
  <2> QED
    BY <2>2, <2>4, NoneFreed
<1>4. CASE HpePost
  <2>1. vol' = vol \/ vol' = [v \in Vols |-> IF v \in Positions THEN Blank ELSE vol[v]]
    BY <1>4 DEF HpePost
  <2>2. \A v \in Vols : vol'[v] = Absent => vol[v] = Absent
    BY <2>1, Numbers
  <2> QED
    BY <2>2, NoneFreed
<1>5. CASE PvcApply \/ CinderCreate
  <2>1. vol' = vol \/ \E v : vol' = [vol EXCEPT ![v] = Blank]
    BY <1>5 DEF PvcApply, CinderCreate
  <2> QED
    BY <1>0, <2>1, OneMade, NoneFreed, Numbers
<1>6. CASE CachedDisk \/ BootNamedAtCreation \/ HpeAwait \/ HpeCache \/ VmApply
           \/ PortCreate \/ NovaCreate \/ NovaSettle \/ OpenstackFinalize
  <2>1. vol' = vol
    BY <1>6 DEF CachedDisk, BootNamedAtCreation, HpeAwait, HpeCache, VmApply, PortCreate,
                NovaCreate, NovaSettle, OpenstackFinalize
  <2> QED
    BY <2>1, NoneFreed
<1> QED
  BY <1>1, <1>2, <1>3, <1>4, <1>5, <1>6 DEF ProvisionedStep

\* The scratch volume is torn down under no VM but one that vCenter made
\* without saying so.
LEMMA ScratchFrees ==
    ASSUME IInv, NEW step, NEW after, TearDown(step, after),
           step \in {"unscratch", "unscratch2", "unscratch3"}
    PROVE  Unused
<1>1. TypedVol /\ TypedVm /\ TypedRun /\ Frame /\ Bodies
  BY DEF IInv, Types
<1>2. /\ opt.dst = "vsphere" /\ pc = step /\ opt' = opt
      /\ UNCHANGED <<vm, slot, native, home, known>>
      /\ vol' = vol \/ vol' = Without({Scratch})
      /\ missed => missed'
  BY DEF TearDown, At, Outside, vmVars, HearCleanup, faultVars
<1>3. \A v \in Vols : Exists(v) /\ vol'[v] = Absent => v = Scratch
  BY <1>2 DEF Exists, Without
<1>4. Scratch \notin Attached'
  BY <1>1, <1>2, Numbers DEF TypedVm, Attached
<1>5. home => Excused'
  <2>1. CASE step = "unscratch"
    <3>1. ~known /\ (home => missed)
      BY <1>1, <1>2, <2>1, VsphereForm DEF Frame, Bodies
    <3> QED
      BY <1>2, <3>1 DEF Excused
  <2>2. CASE step = "unscratch2"
    BY <1>1, <1>2, <2>2 DEF Bodies
  <2>3. CASE step = "unscratch3"
    BY <1>1, <1>2, <2>3, VsphereForm DEF Bodies
  <2> QED
    BY <2>1, <2>2, <2>3
<1> QED
  BY <1>2, <1>3, <1>4, <1>5 DEF Unused, InUse

\* What vSphere destroys.
LEMMA VsphereFrees ==
    ASSUME IInv, VsphereStep
    PROVE  Unused
<1>0. TypedVol /\ TypedVm /\ Bodies
  BY DEF IInv, Types
<1>1. CASE \/ TearDown("unscratch", "undo") \/ TearDown("unscratch2", "boot")
           \/ TearDown("unscratch3", "unstage")
  BY <1>1, ScratchFrees
<1>2. CASE FreeConverted
  <2>1. /\ vol' = vol \/ vol' = Without(native)
        /\ native' = native
    BY <1>2 DEF FreeConverted, Converted, vmVars
  <2>2. \A v \in Vols : Exists(v) /\ vol'[v] = Absent => v \in native
    BY <2>1 DEF Exists, Without
  <2>3. Scratch \notin native
    BY <1>0, Numbers DEF TypedVm
  <2> QED
    BY <2>1, <2>2, <2>3 DEF Unused, InUse
<1>3. CASE VsphereDelete
  <2>1. VmGone \/ vol' = vol
    BY <1>3 DEF VsphereDelete
  <2> QED
    BY <2>1, FreedWithVm, NoneFreed DEF VmGone
<1>4. CASE FreeRdms
  <2>1. opt.dst = "vsphere" /\ pc = "freeRdm" /\ UNCHANGED <<slot, home>>
    BY <1>4 DEF FreeRdms, At, vmVars
  <2>2. slot = NoDevices /\ ~home
    BY <1>0, <2>1, VsphereForm DEF Bodies
  <2> QED
    BY <2>1, <2>2, FreedWithVm
<1>5. CASE ScratchVolume \/ VvolDisk \/ RdmVolume
  <2>1. vol' = vol \/ \E v : vol' = [vol EXCEPT ![v] = Blank]
    <3>1. CASE ScratchVolume
      BY <3>1 DEF ScratchVolume
    <3>2. CASE VvolDisk
      BY <3>2 DEF VvolDisk
    <3>3. CASE RdmVolume
      BY <3>3 DEF RdmVolume
    <3> QED
      BY <1>5, <3>1, <3>2, <3>3
  <2> QED
    BY <1>0, <2>1, OneMade, NoneFreed, Numbers
<1>6. CASE ScratchFormat \/ VsphereCreate \/ AttachRdm \/ Relocate \/ VsphereBoot
  <2>1. vol' = vol
    BY <1>6 DEF ScratchFormat, VsphereCreate, AttachRdm, Relocate, VsphereBoot
  <2> QED
    BY <2>1, NoneFreed
<1> QED
  BY <1>1, <1>2, <1>3, <1>4, <1>5, <1>6 DEF VsphereStep

\* No step destroys a volume that is a device of the new VM, or its home, but
\* for the two excused ones.
THEOREM FreedUnused == Spec => FreedVolumesUnused
<1>1. ASSUME IInv, [Next]_vars PROVE [Unused]_vars
  <2>1. CASE NeighbourTakesId
    BY <2>1, NoneFreed DEF NeighbourTakesId
  <2> QED
    BY <1>1, <2>1, ServiceFrees, OnDemandFrees, ProvisionedFrees, VsphereFrees
       DEF Next, RunStep, Finished
<1>2. [][Unused]_vars <=> FreedVolumesUnused
  BY PTL DEF FreedVolumesUnused, Unused
<1> QED
  BY Invariance, <1>1, <1>2, PTL DEF Spec
=============================================================================
