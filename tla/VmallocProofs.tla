---------------------------- MODULE VmallocProofs ----------------------------
(***************************************************************************)
(* Proofs about Vmalloc, for every size of the vmalloc area, every set of  *)
(* requests, every number of frames and page directories.                  *)
(***************************************************************************)
EXTENDS Vmalloc, FiniteSetTheorems, TLAPS

-----------------------------------------------------------------------------
(* Lists *)

(* What inserting behind the i-th node does to a list. *)
LEMMA InsertFacts ==
    ASSUME NEW S, NEW s \in Seq(S), NEW i \in 0..Len(s), NEW x \in S
    PROVE  LET t == InsertAfter(s, i, x) IN
           /\ t \in Seq(S)
           /\ Len(t) = Len(s) + 1
           /\ t[i + 1] = x
           /\ \A j \in 1..i : t[j] = s[j]
           /\ \A j \in (i + 2)..(Len(s) + 1) : t[j] = s[j - 1]
<1> DEFINE t == InsertAfter(s, i, x)
<1>1. Len(s) \in Nat /\ \A j \in 1..Len(s) : s[j] \in S
  OBVIOUS
<1>2. \A j \in 1..(Len(s) + 1) :
        (IF j <= i THEN s[j] ELSE IF j = i + 1 THEN x ELSE s[j - 1]) \in S
  BY <1>1
<1>3. t \in Seq(S) /\ Len(t) = Len(s) + 1
  BY <1>1, <1>2 DEF InsertAfter
<1>4. \A j \in 1..(Len(s) + 1) :
        t[j] = IF j <= i THEN s[j] ELSE IF j = i + 1 THEN x ELSE s[j - 1]
  BY DEF InsertAfter
<1> HIDE DEF t
<1>5. t[i + 1] = x /\ (\A j \in 1..i : t[j] = s[j])
      /\ \A j \in (i + 2)..(Len(s) + 1) : t[j] = s[j - 1]
  BY <1>1, <1>4
<1> QED
  BY <1>3, <1>5 DEF t

(* What unlinking the i-th node does to a list. *)
LEMMA RemoveFacts ==
    ASSUME NEW S, NEW s \in Seq(S), NEW i \in 1..Len(s)
    PROVE  LET t == RemoveIndex(s, i) IN
           /\ t \in Seq(S)
           /\ Len(t) = Len(s) - 1
           /\ \A j \in 1..(i - 1) : t[j] = s[j]
           /\ \A j \in i..(Len(s) - 1) : t[j] = s[j + 1]
<1> DEFINE t == RemoveIndex(s, i)
<1>1. Len(s) \in Nat /\ \A j \in 1..Len(s) : s[j] \in S
  OBVIOUS
<1>2. \A j \in 1..(Len(s) - 1) : (IF j < i THEN s[j] ELSE s[j + 1]) \in S
  BY <1>1
<1>3. t \in Seq(S) /\ Len(t) = Len(s) - 1
  BY <1>1, <1>2 DEF RemoveIndex
<1>4. \A j \in 1..(Len(s) - 1) : t[j] = IF j < i THEN s[j] ELSE s[j + 1]
  BY DEF RemoveIndex
<1> HIDE DEF t
<1>5. (\A j \in 1..(i - 1) : t[j] = s[j]) /\ \A j \in i..(Len(s) - 1) : t[j] = s[j + 1]
  BY <1>1, <1>4
<1> QED
  BY <1>3, <1>5 DEF t

-----------------------------------------------------------------------------
(* Lists of regions *)

(* RegionsApart of any list. *)
Ordered(s) ==
    /\ \A i \in 1..Len(s) : VM_VMALLOC_START <= s[i].vaddr /\ End(s[i]) <= VM_VMALLOC_END
    /\ \A i, j \in 1..Len(s) : i < j => End(s[i]) <= s[j].vaddr

PagesIn(r) == r.vaddr..(End(r) - 1)

UsedBy(s) == UNION {PagesIn(s[i]) : i \in 1..Len(s)}

(* x fits between the i-th region of s and the next one. *)
FitsBehind(s, i, x) ==
    /\ VM_VMALLOC_START <= x.vaddr /\ End(x) <= VM_VMALLOC_END
    /\ i > 0 => End(s[i]) <= x.vaddr
    /\ i < Len(s) => End(x) <= s[i + 1].vaddr

(* The numbers of a region. *)
LEMMA RegionNumbers ==
    ASSUME NEW r \in Region
    PROVE  r.vaddr \in Nat /\ r.size \in Nat /\ End(r) \in Nat /\ r.vaddr <= End(r)
BY DEF Region, End

(* A region that fits has all others before or behind it. *)
LEMMA FitsBetween ==
    ASSUME NEW s \in Seq(Region), Ordered(s), NEW i \in 0..Len(s),
           NEW x \in Region, FitsBehind(s, i, x)
    PROVE  /\ \A j \in 1..i : End(s[j]) <= x.vaddr
           /\ \A j \in (i + 1)..Len(s) : End(x) <= s[j].vaddr
<1>1. \A j \in 1..Len(s) : s[j] \in Region
  OBVIOUS
<1>2. \A j \in 1..Len(s) : s[j].vaddr \in Nat /\ End(s[j]) \in Nat /\ s[j].vaddr <= End(s[j])
  BY <1>1, RegionNumbers
<1>3. x.vaddr \in Nat /\ End(x) \in Nat
  BY RegionNumbers
<1>4. ASSUME NEW j \in 1..i PROVE End(s[j]) <= x.vaddr
  <2>1. i \in 1..Len(s) /\ j \in 1..Len(s) /\ End(s[i]) <= x.vaddr
    BY DEF FitsBehind
  <2>2. j = i \/ End(s[j]) <= s[i].vaddr
    BY <2>1 DEF Ordered
  <2> QED
    BY <1>2, <1>3, <2>1, <2>2
<1>5. ASSUME NEW j \in (i + 1)..Len(s) PROVE End(x) <= s[j].vaddr
  <2>1. i + 1 \in 1..Len(s) /\ j \in 1..Len(s) /\ End(x) <= s[i + 1].vaddr
    BY DEF FitsBehind
  <2>2. j = i + 1 \/ End(s[i + 1]) <= s[j].vaddr
    BY <2>1 DEF Ordered
  <2> QED
    BY <1>2, <1>3, <2>1, <2>2
<1> QED
  BY <1>4, <1>5

(* Inserting a region where it fits keeps the list in order (vmalloc). *)
LEMMA InsertOrdered ==
    ASSUME NEW s \in Seq(Region), Ordered(s), NEW i \in 0..Len(s),
           NEW x \in Region, FitsBehind(s, i, x)
    PROVE  Ordered(InsertAfter(s, i, x))
<1> DEFINE t == InsertAfter(s, i, x)
<1>1. /\ Len(t) = Len(s) + 1
      /\ t[i + 1] = x
      /\ \A j \in 1..i : t[j] = s[j]
      /\ \A j \in (i + 2)..(Len(s) + 1) : t[j] = s[j - 1]
  BY InsertFacts, SMTT(30)
<1>2. /\ \A j \in 1..i : End(s[j]) <= x.vaddr
      /\ \A j \in (i + 1)..Len(s) : End(x) <= s[j].vaddr
  BY FitsBetween
<1> HIDE DEF t
<1>3. \A j \in 1..Len(t) : VM_VMALLOC_START <= t[j].vaddr /\ End(t[j]) <= VM_VMALLOC_END
  <2> TAKE j \in 1..Len(t)
  <2>1. CASE j \in 1..i
    BY <1>1, <2>1 DEF Ordered
  <2>2. CASE j = i + 1
    BY <1>1, <2>2 DEF FitsBehind
  <2>3. CASE j \in (i + 2)..(Len(s) + 1)
    <3>1. t[j] = s[j - 1] /\ j - 1 \in 1..Len(s)
      BY <1>1, <2>3
    <3> QED
      BY <3>1 DEF Ordered
  <2> QED
    BY <1>1, <2>1, <2>2, <2>3
<1>4. ASSUME NEW j \in 1..Len(t), NEW k \in 1..Len(t), j < k
      PROVE  End(t[j]) <= t[k].vaddr
  <2>1. CASE k \in 1..i
    BY <1>1, <1>4, <2>1 DEF Ordered
  <2>2. CASE k = i + 1
    BY <1>1, <1>2, <1>4, <2>2
  <2>3. CASE k \in (i + 2)..(Len(s) + 1)
    <3>1. t[k] = s[k - 1] /\ k - 1 \in (i + 1)..Len(s)
      BY <1>1, <2>3
    <3>2. CASE j \in 1..i
      BY <1>1, <3>1, <3>2 DEF Ordered
    <3>3. CASE j = i + 1
      BY <1>1, <1>2, <3>1, <3>3
    <3>4. CASE j \in (i + 2)..(Len(s) + 1)
      <4>1. t[j] = s[j - 1] /\ j - 1 \in 1..Len(s) /\ j - 1 < k - 1
        BY <1>1, <1>4, <3>4
      <4> QED
        BY <3>1, <4>1 DEF Ordered
    <3> QED
      BY <1>1, <3>2, <3>3, <3>4
  <2> QED
    BY <1>1, <2>1, <2>2, <2>3
<1> QED
  BY <1>3, <1>4 DEF Ordered, t

(* Unlinking any region keeps the list in order (vfree). *)
LEMMA RemoveOrdered ==
    ASSUME NEW s \in Seq(Region), Ordered(s), NEW i \in 1..Len(s)
    PROVE  Ordered(RemoveIndex(s, i))
<1> DEFINE t == RemoveIndex(s, i)
           old(j) == IF j < i THEN j ELSE j + 1
<1>1. /\ Len(t) = Len(s) - 1
      /\ \A j \in 1..(i - 1) : t[j] = s[j]
      /\ \A j \in i..(Len(s) - 1) : t[j] = s[j + 1]
  BY RemoveFacts
<1> HIDE DEF t
<1>2. \A j \in 1..Len(t) : t[j] = s[old(j)] /\ old(j) \in 1..Len(s)
  BY <1>1
<1>3. \A j, k \in 1..Len(t) : j < k => old(j) < old(k)
  BY <1>1
<1> HIDE DEF old
<1> QED
  BY <1>2, <1>3 DEF Ordered, t

Elements(s) == {s[i] : i \in 1..Len(s)}

(* Inserting adds one element. *)
LEMMA InsertElements ==
    ASSUME NEW S, NEW s \in Seq(S), NEW i \in 0..Len(s), NEW x \in S
    PROVE  Elements(InsertAfter(s, i, x)) = Elements(s) \cup {x}
<1> DEFINE t == InsertAfter(s, i, x)
           n == Len(s)
<1>1. n \in Nat /\ i \in 0..n /\ Len(t) = n + 1
  BY DEF InsertAfter
<1>2. \A j \in 1..(n + 1) : t[j] = IF j <= i THEN s[j] ELSE IF j = i + 1 THEN x ELSE s[j - 1]
  BY DEF InsertAfter
<1> HIDE DEF t, n
<1>3. \A j \in 1..(n + 1) : t[j] = x \/ \E k \in 1..n : t[j] = s[k]
  <2> TAKE j \in 1..(n + 1)
  <2>1. CASE j <= i
    BY <1>1, <1>2, <2>1
  <2>2. CASE j = i + 1
    BY <1>1, <1>2, <2>2
  <2>3. CASE j > i + 1
    <3>1. j - 1 \in 1..n /\ t[j] = s[j - 1]
      BY <1>1, <1>2, <2>3
    <3> QED
      BY <3>1
  <2> QED
    BY <1>1, <2>1, <2>2, <2>3
<1>4. \A k \in 1..n : \E j \in 1..(n + 1) : t[j] = s[k]
  <2> TAKE k \in 1..n
  <2>1. CASE k <= i
    BY <1>1, <1>2, <2>1
  <2>2. CASE k > i
    <3>1. k + 1 \in 1..(n + 1) /\ t[k + 1] = s[k]
      BY <1>1, <1>2, <2>2
    <3> QED
      BY <3>1
  <2> QED
    BY <1>1, <2>1, <2>2
<1>5. \E j \in 1..(n + 1) : t[j] = x
  <2>1. i + 1 \in 1..(n + 1) /\ t[i + 1] = x
    BY <1>1, <1>2
  <2> QED
    BY <2>1
<1>6. Elements(t) = {t[j] : j \in 1..(n + 1)} /\ Elements(s) = {s[k] : k \in 1..n}
  BY <1>1 DEF Elements, n
<1> QED
  BY <1>3, <1>4, <1>5, <1>6 DEF t

(* Inserting a region adds its pages. *)
LEMMA InsertUsed ==
    ASSUME NEW s \in Seq(Region), NEW i \in 0..Len(s), NEW x \in Region
    PROVE  UsedBy(InsertAfter(s, i, x)) = UsedBy(s) \cup PagesIn(x)
<1>1. Elements(InsertAfter(s, i, x)) = Elements(s) \cup {x}
  BY InsertElements
<1>2. \A t : UsedBy(t) = UNION {PagesIn(r) : r \in Elements(t)}
  BY DEF UsedBy, Elements
<1> QED
  BY <1>1, <1>2

(* Unlinking a region takes away its pages and no others. *)
LEMMA RemoveUsed ==
    ASSUME NEW s \in Seq(Region), Ordered(s), NEW i \in 1..Len(s)
    PROVE  /\ UsedBy(RemoveIndex(s, i)) = UsedBy(s) \ PagesIn(s[i])
           /\ PagesIn(s[i]) \subseteq UsedBy(s)
<1> DEFINE t == RemoveIndex(s, i)
<1>1. /\ Len(t) = Len(s) - 1
      /\ \A j \in 1..(i - 1) : t[j] = s[j]
      /\ \A j \in i..(Len(s) - 1) : t[j] = s[j + 1]
  BY RemoveFacts
<1> HIDE DEF t
<1>2. \A j \in 1..Len(t) : \E k \in 1..Len(s) : k # i /\ t[j] = s[k]
  BY <1>1
<1>3. \A k \in 1..Len(s) : k # i => \E j \in 1..Len(t) : t[j] = s[k]
  <2> TAKE k \in 1..Len(s)
  <2>1. CASE k < i
    BY <1>1, <2>1
  <2>2. CASE k > i
    <3>1. k - 1 \in i..(Len(s) - 1) /\ k - 1 \in 1..Len(t)
      BY <1>1, <2>2
    <3>2. t[k - 1] = s[k]
      BY <1>1, <3>1
    <3> QED
      BY <3>1, <3>2
  <2> QED
    BY <2>1, <2>2
<1>4. ASSUME NEW k \in 1..Len(s), k # i
      PROVE  PagesIn(s[k]) \cap PagesIn(s[i]) = {}
  <2>1. s[k] \in Region /\ s[i] \in Region
    OBVIOUS
  <2>2. /\ s[k].vaddr \in Nat /\ End(s[k]) \in Nat
        /\ s[i].vaddr \in Nat /\ End(s[i]) \in Nat
    BY <2>1, RegionNumbers
  <2>3. End(s[k]) <= s[i].vaddr \/ End(s[i]) <= s[k].vaddr
    <3>1. k < i \/ i < k
      BY <1>4
    <3> QED
      BY <3>1 DEF Ordered
  <2> QED
    BY <2>2, <2>3 DEF PagesIn
<1>5. UsedBy(t) \subseteq UsedBy(s) \ PagesIn(s[i])
  BY <1>2, <1>4, SMTT(30) DEF UsedBy
<1>6. UsedBy(s) \ PagesIn(s[i]) \subseteq UsedBy(t)
  BY <1>3 DEF UsedBy
<1>7. PagesIn(s[i]) \subseteq UsedBy(s)
  BY DEF UsedBy
<1> QED
  BY <1>5, <1>6, <1>7 DEF t

(* The used pages of an ordered list can be counted. *)
LEMMA UsedFinite ==
    ASSUME NEW s \in Seq(Region), Ordered(s)
    PROVE  UsedBy(s) \subseteq Pages /\ IsFiniteSet(UsedBy(s)) /\ Cardinality(UsedBy(s)) \in Nat
<1>1. ASSUME NEW i \in 1..Len(s) PROVE PagesIn(s[i]) \subseteq Pages
  <2>1. s[i] \in Region
    OBVIOUS
  <2>2. s[i].vaddr \in Nat /\ End(s[i]) \in Nat
    BY <2>1, RegionNumbers
  <2>3. VM_VMALLOC_START <= s[i].vaddr /\ End(s[i]) <= VM_VMALLOC_END
    BY DEF Ordered
  <2> QED
    BY <2>2, <2>3, VmallocAssumption DEF PagesIn, Pages
<1>2. UsedBy(s) \subseteq Pages
  BY <1>1 DEF UsedBy
<1>3. IsFiniteSet(Pages)
  BY FS_Interval, VmallocAssumption DEF Pages
<1>4. IsFiniteSet(UsedBy(s))
  BY <1>2, <1>3, FS_Subset
<1> QED
  BY <1>2, <1>4, FS_CardinalityType

(* A region has as many pages as its size says. *)
LEMMA PagesInCount ==
    ASSUME NEW r \in Region
    PROVE  IsFiniteSet(PagesIn(r)) /\ Cardinality(PagesIn(r)) = r.size
<1>1. r.vaddr \in Int /\ r.size \in Nat /\ End(r) = r.vaddr + r.size
  BY RegionNumbers DEF End
<1>2. \A a, b \in Int : IsFiniteSet(a..b) /\ Cardinality(a..b) = IF a > b THEN 0 ELSE b - a + 1
  BY FS_Interval
<1>3. r.vaddr \in Int /\ End(r) - 1 \in Int
  BY <1>1
<1>4. /\ IsFiniteSet(PagesIn(r))
      /\ Cardinality(PagesIn(r)) =
            IF r.vaddr > End(r) - 1 THEN 0 ELSE End(r) - 1 - r.vaddr + 1
  BY <1>2, <1>3 DEF PagesIn
<1> QED
  BY <1>1, <1>4

-----------------------------------------------------------------------------
(* The invariant of the list *)

ListInv ==
    /\ ureg \in Seq(Region)
    /\ Len(ureg) >= 1
    /\ Ordered(ureg)
    /\ used_pages = Cardinality(UsedBy(ureg))

NewRegion(i, size, phy_type) == [vaddr |-> HoleAddress(i), size |-> size, phy_type |-> phy_type]

(* The arithmetic of a hole between two regions. *)
LEMMA HoleArithmetic ==
    ASSUME NEW low \in Nat, NEW high \in Nat, NEW size \in Nat,
           NEW a \in Nat, NEW n \in Nat, NEW b \in Nat, NEW m \in Nat,
           low <= a, b + m <= high, b - a - n >= size
    PROVE  a + n + size <= b /\ a + n + size <= high /\ low <= a + n
OBVIOUS

(* The hole that is found holds the new region. *)
LEMMA HoleFits ==
    ASSUME ListInv, NEW i \in 0..Len(ureg), NEW size \in Sizes, NEW phy_type \in PhyTypes,
           Hole(i, size)
    PROVE  /\ NewRegion(i, size, phy_type) \in Region
           /\ FitsBehind(ureg, i, NewRegion(i, size, phy_type))
<1> DEFINE x == NewRegion(i, size, phy_type)
<1>1. size \in Nat /\ phy_type \in {"MAPPED", "PHY_CONT", "ON_DEMAND"}
      /\ VM_VMALLOC_START \in Nat /\ VM_VMALLOC_END \in Nat
  BY VmallocAssumption
<1>2. \A j \in 1..Len(ureg) : ureg[j] \in Region
  BY DEF ListInv
<1>3. \A j \in 1..Len(ureg) :
         /\ ureg[j].vaddr \in Nat /\ ureg[j].size \in Nat
         /\ End(ureg[j]) = ureg[j].vaddr + ureg[j].size
         /\ VM_VMALLOC_START <= ureg[j].vaddr /\ End(ureg[j]) <= VM_VMALLOC_END
  BY <1>2, RegionNumbers DEF ListInv, Ordered, End
<1>4. Len(ureg) \in Nat /\ Len(ureg) >= 1
  BY DEF ListInv
<1>5. x = [vaddr |-> HoleAddress(i), size |-> size, phy_type |-> phy_type]
  BY DEF NewRegion
<1>6. x.vaddr = HoleAddress(i) /\ End(x) = HoleAddress(i) + size
  BY DEF NewRegion, End
<1> HIDE DEF x
<1>7. CASE i = 0
  <2>1. HoleAddress(i) = VM_VMALLOC_START
    BY <1>7 DEF HoleAddress
  <2>2. ureg[1].vaddr - VM_VMALLOC_START >= size /\ 1 \in 1..Len(ureg)
    BY <1>4, <1>7 DEF Hole
  <2>3. x \in Region
    BY <1>1, <1>5, <2>1 DEF Region
  <2>4. End(x) <= ureg[1].vaddr /\ End(x) <= VM_VMALLOC_END
    BY <1>1, <1>3, <1>6, <2>1, <2>2
  <2> QED
    BY <1>1, <1>6, <1>7, <2>1, <2>3, <2>4 DEF FitsBehind, x
<1>8. CASE i # 0
  <2>1. HoleAddress(i) = End(ureg[i]) /\ i \in 1..Len(ureg)
    BY <1>4, <1>8 DEF HoleAddress
  <2>2. x \in Region
    BY <1>1, <1>3, <1>5, <2>1 DEF Region
  <2>3. CASE i < Len(ureg)
    <3> DEFINE r == ureg[i]
               q == ureg[i + 1]
    <3>1. q.vaddr - r.vaddr - r.size >= size /\ i + 1 \in 1..Len(ureg)
      BY <1>4, <1>8, <2>3 DEF Hole
    <3>2. /\ q.vaddr \in Nat /\ q.size \in Nat
          /\ q.vaddr + q.size <= VM_VMALLOC_END
      BY <1>3, <3>1
    <3>3. /\ r.vaddr \in Nat /\ r.size \in Nat
          /\ End(r) = r.vaddr + r.size
          /\ VM_VMALLOC_START <= r.vaddr
      BY <1>3, <2>1
    <3>4. HoleAddress(i) = End(r)
      BY <2>1
    <3> HIDE DEF r, q
    <3>5. q.vaddr - r.vaddr - r.size >= size
      BY <3>1
    <3>6. /\ r.vaddr + r.size + size <= q.vaddr
          /\ r.vaddr + r.size + size <= VM_VMALLOC_END
          /\ VM_VMALLOC_START <= r.vaddr + r.size
      BY <1>1, <3>2, <3>3, <3>5, HoleArithmetic, SMTT(30)
    <3>7. End(x) <= q.vaddr /\ End(x) <= VM_VMALLOC_END /\ VM_VMALLOC_START <= x.vaddr
          /\ End(r) <= x.vaddr
      BY <1>6, <3>3, <3>4, <3>6
    <3> QED
      BY <2>1, <2>2, <3>7 DEF FitsBehind, x, r, q
  <2>4. CASE i = Len(ureg)
    <3>1. VM_VMALLOC_END - End(ureg[i]) >= size
      BY <1>4, <1>8, <2>4 DEF Hole
    <3>2. End(x) <= VM_VMALLOC_END /\ VM_VMALLOC_START <= x.vaddr
      BY <1>1, <1>3, <1>6, <2>1, <3>1
    <3> QED
      BY <1>1, <1>3, <1>6, <2>1, <2>2, <2>4, <3>2 DEF FitsBehind, x
  <2> QED
    BY <1>4, <2>3, <2>4
<1> QED
  BY <1>7, <1>8

(* The pages of a region that fits are in the area and in no other region. *)
LEMMA NewPagesUnused ==
    ASSUME NEW s \in Seq(Region), Ordered(s), NEW i \in 0..Len(s),
           NEW x \in Region, FitsBehind(s, i, x)
    PROVE  PagesIn(x) \subseteq Pages /\ UsedBy(s) \cap PagesIn(x) = {}
<1>1. /\ \A j \in 1..i : End(s[j]) <= x.vaddr
      /\ \A j \in (i + 1)..Len(s) : End(x) <= s[j].vaddr
  BY FitsBetween
<1>2. ASSUME NEW j \in 1..Len(s) PROVE PagesIn(s[j]) \cap PagesIn(x) = {}
  <2>1. s[j] \in Region
    OBVIOUS
  <2>2. s[j].vaddr \in Nat /\ End(s[j]) \in Nat /\ x.vaddr \in Nat /\ End(x) \in Nat
    BY <2>1, RegionNumbers
  <2>3. End(s[j]) <= x.vaddr \/ End(x) <= s[j].vaddr
    BY <1>1
  <2> QED
    BY <2>2, <2>3 DEF PagesIn
<1>3. PagesIn(x) \subseteq Pages
  <2>1. x.vaddr \in Nat /\ End(x) \in Nat
    BY RegionNumbers
  <2> QED
    BY <2>1, VmallocAssumption DEF FitsBehind, PagesIn, Pages
<1> QED
  BY <1>2, <1>3 DEF UsedBy

(* What vmalloc does to the list. *)
LEMMA VmallocPicks ==
    ASSUME NEW size, NEW phy_type, vmalloc(size, phy_type)
    PROVE  \E i \in 0..Len(ureg) :
              /\ Hole(i, size)
              /\ ureg' = InsertAfter(ureg, i, NewRegion(i, size, phy_type))
              /\ used_pages' = used_pages + size
BY DEF vmalloc, find_hole, _insert_region, NewRegion

(* What vfree does to the list. *)
LEMMA VfreePicks ==
    ASSUME NEW vaddr, vfree(vaddr)
    PROVE  \E i \in 2..Len(ureg) :
              ureg' = RemoveIndex(ureg, i) /\ used_pages' = used_pages - ureg[i].size
BY DEF vfree, _remove_region, used_pages_after

(* vmalloc keeps the list well-formed and counted. *)
LEMMA VmallocListInv ==
    ASSUME ListInv, NEW size \in Sizes, NEW phy_type \in PhyTypes, vmalloc(size, phy_type)
    PROVE  ListInv'
<1>1. PICK i \in 0..Len(ureg) :
         /\ Hole(i, size)
         /\ ureg' = InsertAfter(ureg, i, NewRegion(i, size, phy_type))
         /\ used_pages' = used_pages + size
  BY VmallocPicks
<1> DEFINE x == NewRegion(i, size, phy_type)
<1>2. x \in Region /\ FitsBehind(ureg, i, x)
  BY <1>1, HoleFits
<1>3. x.size = size /\ x.vaddr = HoleAddress(i)
  BY DEF NewRegion
<1> HIDE DEF x
<1>4. ureg' = InsertAfter(ureg, i, x)
  BY <1>1 DEF x
<1>5. ureg \in Seq(Region) /\ Len(ureg) >= 1 /\ Ordered(ureg)
  BY DEF ListInv
<1>6. ureg' \in Seq(Region) /\ Len(ureg') = Len(ureg) + 1
  BY <1>2, <1>4, <1>5, InsertFacts
<1>7. Ordered(ureg')
  BY <1>2, <1>4, <1>5, InsertOrdered
<1>8. UsedBy(ureg') = UsedBy(ureg) \cup PagesIn(x)
  BY <1>2, <1>4, <1>5, InsertUsed
<1>9. UsedBy(ureg) \cap PagesIn(x) = {}
  BY <1>2, <1>5, NewPagesUnused
<1>10. IsFiniteSet(UsedBy(ureg)) /\ Cardinality(UsedBy(ureg)) \in Nat
  BY <1>5, UsedFinite
<1>11. IsFiniteSet(PagesIn(x)) /\ Cardinality(PagesIn(x)) = size /\ size \in Nat
  BY <1>2, <1>3, PagesInCount, VmallocAssumption
<1>12. Cardinality(UsedBy(ureg')) = Cardinality(UsedBy(ureg)) + size
  <2>1. Cardinality(UsedBy(ureg')) =
          Cardinality(UsedBy(ureg)) + Cardinality(PagesIn(x)) - Cardinality(UsedBy(ureg) \cap PagesIn(x))
    BY <1>8, <1>10, <1>11, FS_Union
  <2>2. Cardinality(UsedBy(ureg) \cap PagesIn(x)) = 0
    BY <1>9, FS_EmptySet
  <2> QED
    BY <1>10, <1>11, <2>1, <2>2
<1> QED
  BY <1>1, <1>5, <1>6, <1>7, <1>12 DEF ListInv

(* vfree keeps the list well-formed and counted. *)
LEMMA VfreeListInv ==
    ASSUME ListInv, NEW vaddr, vfree(vaddr)
    PROVE  ListInv'
<1>1. PICK i \in 2..Len(ureg) :
         ureg' = RemoveIndex(ureg, i) /\ used_pages' = used_pages - ureg[i].size
  BY VfreePicks
<1>2. ureg \in Seq(Region) /\ Ordered(ureg) /\ i \in 1..Len(ureg)
  BY DEF ListInv
<1>3. ureg' \in Seq(Region) /\ Len(ureg') = Len(ureg) - 1
  BY <1>1, <1>2, RemoveFacts
<1>4. Ordered(ureg')
  BY <1>1, <1>2, RemoveOrdered
<1>5. /\ UsedBy(ureg') = UsedBy(ureg) \ PagesIn(ureg[i])
      /\ UsedBy(ureg) \cap PagesIn(ureg[i]) = PagesIn(ureg[i])
  BY <1>1, <1>2, RemoveUsed
<1>6. IsFiniteSet(UsedBy(ureg)) /\ Cardinality(UsedBy(ureg)) \in Nat
  BY <1>2, UsedFinite
<1>7. Cardinality(PagesIn(ureg[i])) = ureg[i].size
  BY <1>2, PagesInCount
<1>8. Cardinality(UsedBy(ureg')) = Cardinality(UsedBy(ureg)) - Cardinality(PagesIn(ureg[i]))
  BY <1>5, <1>6, FS_Difference
<1> QED
  BY <1>1, <1>2, <1>3, <1>4, <1>7, <1>8 DEF ListInv

(* The list with the kernel task's stack is well-formed. *)
LEMMA InitListInv == Init => ListInv
<1> SUFFICES ASSUME Init PROVE ListInv
  OBVIOUS
<1> DEFINE r == [vaddr |-> VM_VMALLOC_START, size |-> 1, phy_type |-> "MAPPED"]
<1>1. ureg = <<r>> /\ used_pages = 1
  BY DEF Init
<1>2. r \in Region /\ r.size = 1 /\ r.vaddr = VM_VMALLOC_START /\ End(r) = VM_VMALLOC_START + 1
  BY VmallocAssumption DEF Region, End
<1> HIDE DEF r
<1>3. ureg \in Seq(Region) /\ Len(ureg) = 1 /\ ureg[1] = r
  BY <1>1, <1>2
<1>4. Ordered(ureg)
  BY <1>2, <1>3, VmallocAssumption DEF Ordered
<1>5. UsedBy(ureg) = PagesIn(r)
  BY <1>3 DEF UsedBy
<1> QED
  BY <1>1, <1>2, <1>3, <1>4, <1>5, PagesInCount DEF ListInv

(* Only vmalloc and vfree change the list. *)
LEMMA ListUnchanged ==
    ASSUME NEW d, NEW p, NEW size, NEW phy_type,
           \/ vmalloc_panic(size, phy_type) \/ Touch(p) \/ Touch_panic(p)
           \/ pg_create_directory(d) \/ pg_create_directory_panic(d)
           \/ pg_destroy_directory(d) \/ pg_switch_pd(d)
    PROVE  UNCHANGED <<ureg, used_pages>>
BY DEF vmalloc_panic, Panic, Touch, Touch_panic, pg_create_directory, pg_create_directory_panic,
       pg_destroy_directory, pg_switch_pd

(* Every step keeps the list well-formed. *)
LEMMA NextListInv == ListInv /\ [Next]_vars => ListInv'
<1> SUFFICES ASSUME ListInv, [Next]_vars PROVE ListInv'
  OBVIOUS
<1>1. CASE UNCHANGED <<ureg, used_pages>>
  BY <1>1 DEF ListInv, Ordered, UsedBy
<1>2. ASSUME NEW size \in Sizes, NEW phy_type \in PhyTypes, vmalloc(size, phy_type)
      PROVE  ListInv'
  BY <1>2, VmallocListInv
<1>3. ASSUME NEW vaddr, vfree(vaddr) PROVE ListInv'
  BY <1>3, VfreeListInv
<1>4. CASE UNCHANGED vars
  BY <1>1, <1>4 DEF vars
<1>5. CASE Next
  BY <1>1, <1>2, <1>3, <1>5, ListUnchanged DEF Next
<1> QED
  BY <1>4, <1>5

(* The list of regions is well-formed and counted at all times. *)
THEOREM ListSafe == Spec => []ListInv
BY InitListInv, NextListInv, PTL DEF Spec

(* For every vmalloc area and every sequence of vmalloc and vfree: the regions
   lie in the area, in order of their addresses and without overlap. *)
THEOREM RegionsSafe == Spec => []RegionsApart
<1>1. ListInv => RegionsApart
  BY DEF ListInv, Ordered, RegionsApart
<1> QED
  BY <1>1, ListSafe, PTL

(* used_pages, which vmalloc and vfree keep by hand, is the number of pages that
   lie in some region. *)
THEOREM UsedPagesSafe == Spec => []UsedPagesExact
<1>1. ListInv => UsedPagesExact
  BY DEF ListInv, UsedBy, PagesIn, UsedPagesExact
<1> QED
  BY <1>1, ListSafe, PTL

-----------------------------------------------------------------------------
(* The refinement of Areas *)

AreaOf(r) == [vaddr |-> r.vaddr, size |-> r.size]

AreasOf(s) == {AreaOf(s[i]) : i \in 1..Len(s)}

(* A region of the area is a range of Areas. *)
LEMMA AreaFacts ==
    ASSUME NEW r \in Region, VM_VMALLOC_START <= r.vaddr, End(r) <= VM_VMALLOC_END
    PROVE  AreaOf(r) \in Abstract!Range /\ Abstract!Fits(AreaOf(r))
<1>1. /\ r.vaddr \in Nat /\ r.size \in Nat
      /\ r.vaddr + r.size <= VM_VMALLOC_END
      /\ VM_VMALLOC_START \in Nat /\ VM_VMALLOC_END \in Nat
  BY RegionNumbers, VmallocAssumption DEF End
<1>2. r.vaddr \in VM_VMALLOC_START..VM_VMALLOC_END
      /\ r.size \in 0..(VM_VMALLOC_END - VM_VMALLOC_START)
  BY <1>1
<1> QED
  BY <1>1, <1>2 DEF AreaOf, Abstract!Range, Abstract!Fits

(* Regions that do not overlap are ranges that are apart. *)
LEMMA AreasApart ==
    ASSUME NEW r \in Region, NEW q \in Region, End(r) <= q.vaddr \/ End(q) <= r.vaddr
    PROVE  Abstract!Apart(AreaOf(r), AreaOf(q))
BY DEF AreaOf, End, Abstract!Apart

(* The initial list is an initial state of Areas. *)
LEMMA InitAreas == Init => Abstract!Init
<1> SUFFICES ASSUME Init PROVE Abstract!Init
  OBVIOUS
<1>1. ListInv
  BY InitListInv
<1>2. Len(ureg) = 1 /\ ureg[1] \in Region
  BY <1>1 DEF Init, ListInv
<1>3. AreasOf(ureg) = {AreaOf(ureg[1])}
  BY <1>2 DEF AreasOf
<1>4. VM_VMALLOC_START <= ureg[1].vaddr /\ End(ureg[1]) <= VM_VMALLOC_END
  BY <1>1, <1>2 DEF ListInv, Ordered
<1>5. AreaOf(ureg[1]) \in Abstract!Range /\ Abstract!Fits(AreaOf(ureg[1]))
  BY <1>2, <1>4, AreaFacts
<1> QED
  BY <1>3, <1>5 DEF Abstract!Init, AreasOf, AreaOf

(* vmalloc takes a range that is apart from all others. *)
LEMMA VmallocTakes ==
    ASSUME ListInv, NEW size \in Sizes, NEW phy_type \in PhyTypes, vmalloc(size, phy_type)
    PROVE  \E a \in Abstract!Range : Abstract!Take(a)
<1>1. PICK i \in 0..Len(ureg) :
         /\ Hole(i, size)
         /\ ureg' = InsertAfter(ureg, i, NewRegion(i, size, phy_type))
  BY VmallocPicks
<1> DEFINE x == NewRegion(i, size, phy_type)
<1>2. x \in Region /\ FitsBehind(ureg, i, x)
  BY <1>1, HoleFits
<1> HIDE DEF x
<1>3. ureg' = InsertAfter(ureg, i, x) /\ ureg \in Seq(Region) /\ Ordered(ureg)
  BY <1>1 DEF x, ListInv
<1>4. AreaOf(x) \in Abstract!Range /\ Abstract!Fits(AreaOf(x))
  BY <1>2, AreaFacts DEF FitsBehind
<1>5. \A j \in 1..Len(ureg) : Abstract!Apart(AreaOf(x), AreaOf(ureg[j]))
  <2>1. /\ \A j \in 1..i : End(ureg[j]) <= x.vaddr
        /\ \A j \in (i + 1)..Len(ureg) : End(x) <= ureg[j].vaddr
    BY <1>2, <1>3, FitsBetween
  <2> TAKE j \in 1..Len(ureg)
  <2>2. End(ureg[j]) <= x.vaddr \/ End(x) <= ureg[j].vaddr
    BY <2>1
  <2> QED
    BY <1>2, <1>3, <2>2, AreasApart
<1>6. AreasOf(ureg') = AreasOf(ureg) \cup {AreaOf(x)}
  <2>1. Elements(ureg') = Elements(ureg) \cup {x}
    BY <1>2, <1>3, InsertElements
  <2>2. \A t : AreasOf(t) = {AreaOf(r) : r \in Elements(t)}
    BY DEF AreasOf, Elements
  <2> QED
    BY <2>1, <2>2
<1>7. Abstract!Take(AreaOf(x))
  BY <1>4, <1>5, <1>6 DEF Abstract!Take, AreasOf, AreaOf
<1> QED
  BY <1>4, <1>7 DEF Abstract!Take

(* vfree gives a range back, or nothing when an empty region has a twin. *)
LEMMA VfreeGivesBack ==
    ASSUME ListInv, NEW vaddr, vfree(vaddr)
    PROVE  AreasOf(ureg') = AreasOf(ureg) \/ \E a \in AreasOf(ureg) : AreasOf(ureg') = AreasOf(ureg) \ {a}
<1>1. PICK i \in 2..Len(ureg) : ureg' = RemoveIndex(ureg, i)
  BY VfreePicks
<1>2. ureg \in Seq(Region) /\ i \in 1..Len(ureg)
  BY DEF ListInv
<1>3. /\ Len(ureg') = Len(ureg) - 1
      /\ \A j \in 1..(i - 1) : ureg'[j] = ureg[j]
      /\ \A j \in i..(Len(ureg) - 1) : ureg'[j] = ureg[j + 1]
  BY <1>1, <1>2, RemoveFacts
<1>4. \A j \in 1..Len(ureg') : \E k \in 1..Len(ureg) : ureg'[j] = ureg[k]
  BY <1>2, <1>3
<1>5. \A k \in 1..Len(ureg) : k # i => \E j \in 1..Len(ureg') : ureg'[j] = ureg[k]
  <2> TAKE k \in 1..Len(ureg)
  <2>1. CASE k < i
    BY <1>2, <1>3, <2>1
  <2>2. CASE k > i
    <3>1. k - 1 \in i..(Len(ureg) - 1) /\ k - 1 \in 1..Len(ureg')
      BY <1>2, <1>3, <2>2
    <3>2. ureg'[k - 1] = ureg[k]
      BY <1>2, <1>3, <3>1
    <3> QED
      BY <3>1, <3>2
  <2> QED
    BY <2>1, <2>2
<1>6. AreasOf(ureg') \subseteq AreasOf(ureg)
  BY <1>4 DEF AreasOf
<1>7. AreasOf(ureg) \ {AreaOf(ureg[i])} \subseteq AreasOf(ureg')
  BY <1>5 DEF AreasOf
<1>8. AreaOf(ureg[i]) \in AreasOf(ureg)
  BY <1>2 DEF AreasOf
<1> QED
  BY <1>6, <1>7, <1>8

(* Every step takes a range, gives one back or changes none. *)
LEMMA NextAreas == ListInv /\ [Next]_vars => [Abstract!Next]_(AreasOf(ureg))
<1> SUFFICES ASSUME ListInv, [Next]_vars PROVE [Abstract!Next]_(AreasOf(ureg))
  OBVIOUS
<1>1. CASE UNCHANGED ureg
  BY <1>1 DEF AreasOf
<1>2. ASSUME NEW size \in Sizes, NEW phy_type \in PhyTypes, vmalloc(size, phy_type)
      PROVE  Abstract!Next
  BY <1>2, VmallocTakes DEF Abstract!Next
<1>3. ASSUME NEW vaddr, vfree(vaddr) PROVE Abstract!Next \/ AreasOf(ureg') = AreasOf(ureg)
  BY <1>3, VfreeGivesBack DEF Abstract!Next, Abstract!GiveBack, AreasOf, AreaOf
<1>4. CASE UNCHANGED vars
  BY <1>1, <1>4 DEF vars
<1>5. CASE Next
  <2>1. Abstract!Next \/ AreasOf(ureg') = AreasOf(ureg) \/ UNCHANGED ureg
    BY <1>2, <1>3, <1>5, ListUnchanged DEF Next
  <2> QED
    BY <1>1, <2>1 DEF AreasOf
<1> QED
  BY <1>4, <1>5

(* The linked list implements a set of ranges that do not overlap: every vmalloc
   takes a range nobody has, every vfree gives one back. *)
THEOREM RefinesAreas == Spec => ImplementsAreas
<1>1. Spec => Abstract!Init /\ [][Abstract!Next]_(AreasOf(ureg))
  BY InitAreas, NextAreas, ListSafe, PTL DEF Spec
<1> QED
  BY <1>1, PTL DEF ImplementsAreas, Abstract!Spec, AreasOf, AreaOf

-----------------------------------------------------------------------------
(* The page tables *)

PhyType == {"MAPPED", "PHY_CONT", "ON_DEMAND"}

(* What backs a region are entries of page tables. *)
LEMMA BackingType ==
    ASSUME TypeOK, NEW S, NEW phy_type \in PhyType, NEW f \in Backing(S, phy_type)
    PROVE  f \in [S -> Entry]
<1>1. CASE phy_type = "MAPPED"
  BY <1>1 DEF Backing, Injections, TypeOK, Entry
<1>2. CASE phy_type = "PHY_CONT"
  BY <1>2 DEF Backing, Injections, TypeOK, Entry
<1>3. CASE phy_type = "ON_DEMAND"
  BY <1>3 DEF Backing, Entry
<1> QED
  BY <1>1, <1>2, <1>3 DEF PhyType

(* pg_map writes the entries of f into the tables of d; new tables hold junk. *)
LEMMA MapFacts ==
    ASSUME TypeOK, NEW d \in Dirs, NEW S, NEW f \in [S -> Entry], NEW junk \in Garbage,
           NEW M \in SUBSET Groups, NEW tables \in [M -> Frames], pg_map(d, f, tables, junk)
    PROVE  /\ table' \in [Dirs -> [Groups -> Frames \cup {none}]]
           /\ pte' \in [Frames -> [Pages -> Entry]]
           /\ \A e \in Dirs : \A g \in Groups :
                 table'[e][g] = IF e = d /\ g \in M THEN tables[g] ELSE table[e][g]
           /\ \A t \in Frames : \A p \in Pages :
                 pte'[t][p] = IF p \in S /\ t = table'[d][Group(p)] THEN f[p]
                              ELSE IF t \in Taken(tables) THEN junk[p] ELSE pte[t][p]
<1>1. table' = [table EXCEPT ![d] = [g \in Groups |-> IF g \in DOMAIN tables THEN tables[g] ELSE @[g]]]
  BY DEF pg_map
<1>2. pte' = [t \in Frames |-> [p \in Pages |->
                 IF p \in DOMAIN f /\ t = table'[d][Group(p)] THEN f[p]
                 ELSE IF t \in Taken(tables) THEN junk[p] ELSE pte[t][p]]]
  BY DEF pg_map
<1>3. DOMAIN tables = M /\ DOMAIN f = S
  OBVIOUS
<1>4. table \in [Dirs -> [Groups -> Frames \cup {none}]] /\ pte \in [Frames -> [Pages -> Entry]]
      /\ junk \in [Pages -> Entry]
  BY GarbageAssumption DEF TypeOK
<1>5. \A e \in Dirs : \A g \in Groups :
         table'[e][g] = IF e = d /\ g \in M THEN tables[g] ELSE table[e][g]
  BY <1>1, <1>3, <1>4
<1>6. table' \in [Dirs -> [Groups -> Frames \cup {none}]]
  BY <1>1, <1>3, <1>4
<1> DEFINE new == Taken(tables)
<1>7. pte' = [t \in Frames |-> [p \in Pages |->
                 IF p \in S /\ t = table'[d][Group(p)] THEN f[p]
                 ELSE IF t \in new THEN junk[p] ELSE pte[t][p]]]
  BY <1>2, <1>3
<1> HIDE DEF new
<1>8. \A t \in Frames : \A p \in Pages :
         pte'[t][p] = IF p \in S /\ t = table'[d][Group(p)] THEN f[p]
                      ELSE IF t \in new THEN junk[p] ELSE pte[t][p]
  BY <1>7
<1>9. \A t \in Frames : \A p \in Pages :
         (IF p \in S /\ t = table'[d][Group(p)] THEN f[p]
          ELSE IF t \in new THEN junk[p] ELSE pte[t][p]) \in Entry
  BY <1>4
<1>10. pte' \in [Frames -> [Pages -> Entry]]
  BY <1>7, <1>9
<1> QED
  BY <1>5, <1>6, <1>8, <1>10 DEF new

(* The parts of vmalloc that concern the page tables. *)
LEMMA VmallocMaps ==
    ASSUME NEW size, NEW phy_type, vmalloc(size, phy_type)
    PROVE  \E i \in 0..Len(ureg) :
             \E f \in Backing(HoleAddress(i)..(HoleAddress(i) + size - 1), phy_type),
                tables \in Injections(Missing(current_pd, HoleAddress(i)..(HoleAddress(i) + size - 1)), free),
                junk \in Garbage :
              /\ Hole(i, size)
              /\ ureg' = InsertAfter(ureg, i, NewRegion(i, size, phy_type))
              /\ pg_map(current_pd, f, tables, junk)
              /\ free' = free \ (Taken(f) \cup Taken(tables))
              /\ UNCHANGED <<current_pd, live, dir_frame, status>>
BY DEF vmalloc, find_hole, _insert_region, NewRegion

(* The frames for new page tables, by group. *)
LEMMA TablesType ==
    ASSUME TypeOK, NEW d, NEW S, NEW tables \in Injections(Missing(d, S), free)
    PROVE  /\ Missing(d, S) \in SUBSET Groups
           /\ tables \in [Missing(d, S) -> Frames]
           /\ Taken(tables) \subseteq free
<1>1. Missing(d, S) \in SUBSET Groups
  BY DEF Missing
<1>2. tables \in [Missing(d, S) -> free] /\ free \subseteq Frames
  BY DEF TypeOK, Injections
<1> QED
  BY <1>1, <1>2 DEF Taken

(* What a page fault in a region does. *)
LEMMA TouchMaps ==
    ASSUME NEW p, Touch(p)
    PROVE  /\ \E i \in 1..Len(ureg) : p \in PagesIn(ureg[i])
           /\ _get_page(current_pd, p) = none
           /\ \E f \in [{p} -> free], tables \in Injections(Missing(current_pd, {p}), free),
                 junk \in Garbage :
                 /\ pg_map(current_pd, f, tables, junk)
                 /\ free' = free \ (Taken(f) \cup Taken(tables))
           /\ UNCHANGED <<ureg, used_pages, current_pd, live, dir_frame, status>>
BY DEF Touch, PagesIn

(* Unmapping clears entries and nothing else. *)
LEMMA UnmapFacts ==
    ASSUME TypeOK, NEW S, pte' = unmap(S)
    PROVE  /\ pte' \in [Frames -> [Pages -> Entry]]
           /\ \A t \in Frames : \A p \in Pages :
                 pte'[t][p] = IF p \in S /\ t = table[current_pd][Group(p)] THEN none ELSE pte[t][p]
BY DEF TypeOK, unmap, Entry

-----------------------------------------------------------------------------
(* The frames of the directories *)

(* Every directory made by pg_create_directory has a frame of its own, which is
   not free; the boot directory lies in the kernel's image. *)
DirInv ==
    /\ kern_pd \in live
    /\ \A d \in Dirs : IF d \in live \ {kern_pd} THEN dir_frame[d] \in Frames \ free
                       ELSE dir_frame[d] = none
    /\ \A d, e \in live \ {kern_pd} : dir_frame[d] = dir_frame[e] => d = e

(* Only a directory that is released gives a frame back. *)
LEMMA FreeShrinks ==
    ASSUME NEW size, NEW phy_type, NEW p, NEW vaddr,
           \/ vmalloc(size, phy_type) \/ Touch(p) \/ vfree(vaddr)
    PROVE  free' \subseteq free /\ UNCHANGED <<live, dir_frame>>
<1>1. CASE vmalloc(size, phy_type)
  BY <1>1, VmallocMaps
<1>2. CASE Touch(p)
  BY <1>2, TouchMaps
<1>3. CASE vfree(vaddr)
  BY <1>3 DEF vfree, pg_unmap_frames
<1> QED
  BY <1>1, <1>2, <1>3

(* Every step keeps the directories' frames. *)
LEMMA NextDirInv == TypeOK /\ DirInv /\ [Next]_vars => DirInv'
<1> SUFFICES ASSUME TypeOK, DirInv, [Next]_vars PROVE DirInv'
  OBVIOUS
<1>0. live \subseteq Dirs /\ kern_pd \in Dirs /\ dir_frame \in [Dirs -> Frames \cup {none}]
      /\ free \subseteq Frames /\ none \notin Frames
  BY VmallocAssumption DEF TypeOK
<1>1. ASSUME free' \subseteq free, UNCHANGED <<live, dir_frame>> PROVE DirInv'
  BY <1>1 DEF DirInv
<1>2. ASSUME NEW size, NEW phy_type, NEW p, NEW vaddr,
             \/ vmalloc(size, phy_type) \/ Touch(p) \/ vfree(vaddr)
      PROVE  DirInv'
  BY <1>1, <1>2, FreeShrinks
<1>3. ASSUME NEW size, NEW phy_type, NEW p, NEW d,
             \/ vmalloc_panic(size, phy_type) \/ Touch_panic(p) \/ pg_create_directory_panic(d)
      PROVE  DirInv'
  BY <1>1, <1>3 DEF vmalloc_panic, Touch_panic, pg_create_directory_panic, Panic, maps
<1>4. ASSUME NEW d \in Dirs, pg_create_directory(d) PROVE DirInv'
  <2>1. PICK f \in free : dir_frame' = [dir_frame EXCEPT ![d] = f] /\ free' = free \ {f}
    BY <1>4 DEF pg_create_directory
  <2>2. d \notin live /\ live' = live \cup {d}
    BY <1>4 DEF pg_create_directory
  <2>3. dir_frame'[d] = f /\ \A e \in Dirs \ {d} : dir_frame'[e] = dir_frame[e]
    BY <1>0, <2>1
  <2>4. d # kern_pd
    BY <2>2 DEF DirInv
  <2>5. \A e \in live \ {kern_pd} : e \in Dirs /\ e # d /\ dir_frame[e] \in Frames \ free
    BY <1>0, <2>2 DEF DirInv
  <2>6. \A e \in Dirs : IF e \in live' \ {kern_pd} THEN dir_frame'[e] \in Frames \ free'
                        ELSE dir_frame'[e] = none
    BY <1>0, <2>1, <2>2, <2>3, <2>4, <2>5 DEF DirInv
  <2>7. ASSUME NEW a \in live' \ {kern_pd}, NEW b \in live' \ {kern_pd},
               dir_frame'[a] = dir_frame'[b]
        PROVE  a = b
    BY <1>0, <2>1, <2>2, <2>3, <2>4, <2>5, <2>7 DEF DirInv
  <2> QED
    BY <2>2, <2>6, <2>7 DEF DirInv
<1>5. ASSUME NEW d \in Dirs, pg_destroy_directory(d) PROVE DirInv'
  <2>1. /\ d \in live \ {kern_pd} /\ live' = live \ {d}
        /\ free' = free \cup {dir_frame[d]}
        /\ dir_frame' = [dir_frame EXCEPT ![d] = none]
    BY <1>5 DEF pg_destroy_directory
  <2>2. dir_frame'[d] = none /\ \A e \in Dirs \ {d} : dir_frame'[e] = dir_frame[e]
    BY <1>0, <2>1
  <2>3. \A e \in live' \ {kern_pd} :
           e \in live \ {kern_pd} /\ e \in Dirs \ {d} /\ dir_frame'[e] = dir_frame[e]
    BY <1>0, <2>1, <2>2
  <2>4. \A e \in live' \ {kern_pd} : dir_frame'[e] \in Frames \ free'
    BY <2>1, <2>3 DEF DirInv
  <2>5. \A e \in Dirs : e \notin live' \ {kern_pd} => dir_frame'[e] = none
    BY <2>1, <2>2 DEF DirInv
  <2>6. \A a, b \in live' \ {kern_pd} : dir_frame'[a] = dir_frame'[b] => a = b
    BY <2>3 DEF DirInv
  <2> QED
    BY <2>1, <2>4, <2>5, <2>6 DEF DirInv
<1>6. ASSUME NEW d, pg_switch_pd(d) PROVE DirInv'
  BY <1>1, <1>6 DEF pg_switch_pd
<1>7. CASE UNCHANGED vars
  BY <1>1, <1>7 DEF vars
<1>8. CASE Next
  BY <1>2, <1>3, <1>4, <1>5, <1>6, <1>8 DEF Next
<1> QED
  BY <1>7, <1>8

(* Every step keeps the types. *)
LEMMA NextTypeOK == ListInv /\ DirInv /\ TypeOK /\ [Next]_vars => TypeOK'
<1> SUFFICES ASSUME ListInv, DirInv, TypeOK, [Next]_vars PROVE TypeOK'
  OBVIOUS
<1>1. ListInv' /\ (ureg \in Seq(Region) /\ Len(ureg) >= 1)' /\ used_pages' \in Int
  <2>1. ListInv'
    BY NextListInv
  <2>2. Cardinality(UsedBy(ureg')) \in Nat
    BY <2>1, UsedFinite DEF ListInv
  <2> QED
    BY <2>1, <2>2 DEF ListInv
<1>2. ASSUME NEW size \in Sizes, NEW phy_type \in PhyTypes, vmalloc(size, phy_type) PROVE TypeOK'
  <2>1. PICK i \in 0..Len(ureg) :
          \E f \in Backing(HoleAddress(i)..(HoleAddress(i) + size - 1), phy_type),
             tables \in Injections(Missing(current_pd, HoleAddress(i)..(HoleAddress(i) + size - 1)), free),
             junk \in Garbage :
               /\ pg_map(current_pd, f, tables, junk)
               /\ free' = free \ (Taken(f) \cup Taken(tables))
               /\ UNCHANGED <<current_pd, live, dir_frame, status>>
    BY <1>2, VmallocMaps
  <2> DEFINE S == HoleAddress(i)..(HoleAddress(i) + size - 1)
  <2> HIDE DEF S
  <2>2. PICK f \in Backing(S, phy_type), tables \in Injections(Missing(current_pd, S), free),
             junk \in Garbage :
           /\ pg_map(current_pd, f, tables, junk)
           /\ free' = free \ (Taken(f) \cup Taken(tables))
           /\ UNCHANGED <<current_pd, live, dir_frame, status>>
    BY <2>1 DEF S
  <2>3. f \in [S -> Entry] /\ current_pd \in Dirs
    BY BackingType, VmallocAssumption DEF PhyType, TypeOK
  <2>4. Missing(current_pd, S) \in SUBSET Groups /\ tables \in [Missing(current_pd, S) -> Frames]
    BY TablesType
  <2>5. table' \in [Dirs -> [Groups -> Frames \cup {none}]] /\ pte' \in [Frames -> [Pages -> Entry]]
    BY <2>2, <2>3, <2>4, MapFacts
  <2> QED
    BY <1>1, <2>2, <2>5 DEF TypeOK
<1>3. ASSUME NEW size, NEW phy_type, NEW p, NEW d,
             \/ vmalloc_panic(size, phy_type) \/ Touch_panic(p) \/ pg_create_directory_panic(d)
      PROVE  TypeOK'
  BY <1>1, <1>3 DEF vmalloc_panic, Touch_panic, pg_create_directory_panic, Panic, maps, TypeOK
<1>4. ASSUME NEW vaddr, vfree(vaddr) PROVE TypeOK'
  <2>1. PICK S : pte' = unmap(S)
    BY <1>4 DEF vfree
  <2>2. free' = free /\ UNCHANGED <<current_pd, live, dir_frame, table, status>>
    BY <1>4 DEF vfree, pg_unmap_frames
  <2>3. pte' \in [Frames -> [Pages -> Entry]]
    BY <2>1, UnmapFacts
  <2> QED
    BY <1>1, <2>2, <2>3 DEF TypeOK
<1>5. ASSUME NEW p \in Pages, Touch(p) PROVE TypeOK'
  <2>1. PICK f \in [{p} -> free], tables \in Injections(Missing(current_pd, {p}), free),
             junk \in Garbage :
           /\ pg_map(current_pd, f, tables, junk)
           /\ free' = free \ (Taken(f) \cup Taken(tables))
    BY <1>5, TouchMaps
  <2>2. f \in [{p} -> Entry] /\ current_pd \in Dirs
    BY DEF TypeOK, Entry
  <2>3. Missing(current_pd, {p}) \in SUBSET Groups /\ tables \in [Missing(current_pd, {p}) -> Frames]
    BY TablesType
  <2>4. table' \in [Dirs -> [Groups -> Frames \cup {none}]] /\ pte' \in [Frames -> [Pages -> Entry]]
    BY <2>1, <2>2, <2>3, MapFacts
  <2>5. UNCHANGED <<current_pd, live, dir_frame, status>>
    BY <1>5, TouchMaps
  <2> QED
    BY <1>1, <2>1, <2>4, <2>5 DEF TypeOK
<1>6. ASSUME NEW d \in Dirs,
             pg_create_directory(d) \/ pg_destroy_directory(d) \/ pg_switch_pd(d)
      PROVE  TypeOK'
  <2>1. /\ table \in [Dirs -> [Groups -> Frames \cup {none}]] /\ kern_pd \in Dirs
        /\ dir_frame \in [Dirs -> Frames \cup {none}] /\ free \subseteq Frames
    BY VmallocAssumption DEF TypeOK
  <2>2. CASE pg_create_directory(d)
    <3>1. table' \in [Dirs -> [Groups -> Frames \cup {none}]]
      BY <2>1, <2>2 DEF pg_create_directory
    <3>2. PICK f \in free : dir_frame' = [dir_frame EXCEPT ![d] = f] /\ free' = free \ {f}
      BY <2>2 DEF pg_create_directory
    <3>3. dir_frame' \in [Dirs -> Frames \cup {none}] /\ free' \subseteq Frames
      BY <2>1, <3>2
    <3> QED
      BY <1>1, <2>2, <3>1, <3>3 DEF pg_create_directory, TypeOK
  <2>3. CASE pg_destroy_directory(d)
    <3>1. table' \in [Dirs -> [Groups -> Frames \cup {none}]]
      BY <2>1, <2>3 DEF pg_destroy_directory
    <3>2. dir_frame' \in [Dirs -> Frames \cup {none}]
      BY <2>1, <2>3 DEF pg_destroy_directory
    <3>3. dir_frame[d] \in Frames
      BY <2>3 DEF pg_destroy_directory, DirInv
    <3> QED
      BY <1>1, <2>3, <3>1, <3>2, <3>3 DEF pg_destroy_directory, TypeOK
  <2>4. CASE pg_switch_pd(d)
    BY <1>1, <2>4 DEF pg_switch_pd, TypeOK
  <2> QED
    BY <1>6, <2>2, <2>3, <2>4
<1>7. CASE UNCHANGED vars
  BY <1>7 DEF vars, TypeOK
<1>8. CASE Next
  BY <1>2, <1>3, <1>4, <1>5, <1>6, <1>8 DEF Next
<1> QED
  BY <1>7, <1>8

(* The initial state has the types. *)
LEMMA InitTypeOK == Init => TypeOK /\ DirInv
<1> SUFFICES ASSUME Init PROVE TypeOK /\ DirInv
  OBVIOUS
<1>1. ListInv
  BY InitListInv
<1>2. ureg \in Seq(Region) /\ Len(ureg) >= 1 /\ used_pages \in Int
  BY <1>1 DEF ListInv, Init
<1>3. table \in [Dirs -> [Groups -> Frames \cup {none}]]
  BY DEF Init
<1>4. pte \in [Frames -> [Pages -> Entry]]
  BY DEF Init, Entry
<1>5. TypeOK
  BY <1>2, <1>3, <1>4, VmallocAssumption DEF Init, TypeOK
<1>6. DirInv
  BY VmallocAssumption DEF Init, DirInv
<1> QED
  BY <1>5, <1>6

(* The variables have their types, for any number of page tables. *)
THEOREM TypeSafe == Spec => []TypeOK
<1>1. Spec => [](TypeOK /\ DirInv)
  BY InitTypeOK, NextTypeOK, NextDirInv, ListSafe, PTL DEF Spec
<1> QED
  BY <1>1, PTL

-----------------------------------------------------------------------------
(* The pages behind the regions, in the part of the area that the boot table
   covers: 4 MiB of it in the program.  A second table is known only to the
   directory that was current when it was needed, and holds junk; the proof
   shows that neither disturbs the first. *)

(* Nothing in the kernel asks vmalloc for contiguous frames. *)
NoPools == "PHY_CONT" \notin PhyTypes

BootGroup == Group(VM_VMALLOC_START)

KernTable == table[kern_pd][BootGroup]

BackedInv ==
    /\ NoPools
    /\ ListInv /\ TypeOK /\ DirInv
    /\ KernTable \in Frames \ free
    /\ \A d \in Dirs : KernTable # dir_frame[d]
    /\ \A d \in live : table[d][BootGroup] = KernTable
    /\ \A i \in 1..Len(ureg) : ureg[i].phy_type = "MAPPED" =>
          \A p \in BootPages : p \in PagesIn(ureg[i]) => pte[KernTable][p] # none
    /\ \A p \in BootPages : pte[KernTable][p] # none =>
          /\ p \in UsedBy(ureg)
          /\ pte[KernTable][p] \in Frames \ free
          /\ \A d \in Dirs : pte[KernTable][p] # dir_frame[d]
          /\ \A q \in BootPages : pte[KernTable][p] = pte[KernTable][q] => p = q

(* The boot group is one of the groups; its pages are pages. *)
LEMMA BootFacts == BootGroup \in Groups /\ \A p \in BootPages : p \in Pages /\ Group(p) = BootGroup
<1>1. VM_VMALLOC_START \in Pages
  BY VmallocAssumption DEF Pages
<1> QED
  BY <1>1 DEF BootGroup, Groups, BootPages

(* Mapping needs no new table for the boot group and writes the boot table. *)
LEMMA MapBootTable ==
    ASSUME BackedInv, NEW S \in SUBSET Pages, NEW f \in [S -> Entry], NEW junk \in Garbage,
           NEW tables \in Injections(Missing(current_pd, S), free),
           pg_map(current_pd, f, tables, junk)
    PROVE  /\ \A d \in Dirs : table'[d][BootGroup] = table[d][BootGroup]
           /\ Taken(tables) \subseteq free
           /\ \A p \in BootPages : pte'[KernTable][p] = IF p \in S THEN f[p] ELSE pte[KernTable][p]
<1>1. /\ TypeOK /\ current_pd \in live /\ current_pd \in Dirs
      /\ table[current_pd][BootGroup] = KernTable
      /\ KernTable \in Frames \ free
  BY DEF BackedInv, TypeOK
<1>2. /\ Missing(current_pd, S) \in SUBSET Groups
      /\ tables \in [Missing(current_pd, S) -> Frames]
      /\ Taken(tables) \subseteq free
  BY <1>1, TablesType
<1>3. BootGroup \notin Missing(current_pd, S)
  BY <1>1, VmallocAssumption DEF Missing
<1>4. DOMAIN tables = Missing(current_pd, S) /\ DOMAIN f = S
  BY <1>2
<1>5. table' = [table EXCEPT ![current_pd] = [g \in Groups |->
                  IF g \in Missing(current_pd, S) THEN tables[g] ELSE @[g]]]
      /\ pte' = [t \in Frames |-> [p \in Pages |->
                  IF p \in S /\ t = table'[current_pd][Group(p)] THEN f[p]
                  ELSE IF t \in Taken(tables) THEN junk[p] ELSE pte[t][p]]]
  BY <1>4 DEF pg_map
<1>6. \A d \in Dirs : table'[d][BootGroup] = table[d][BootGroup]
  BY <1>1, <1>3, <1>5, BootFacts DEF TypeOK
<1>7. ASSUME NEW p \in BootPages
      PROVE  pte'[KernTable][p] = IF p \in S THEN f[p] ELSE pte[KernTable][p]
  <2>1. p \in Pages /\ table'[current_pd][Group(p)] = KernTable
    BY <1>1, <1>6, BootFacts
  <2>2. KernTable \notin Taken(tables)
    BY <1>1, <1>2
  <2> QED
    BY <1>1, <1>5, <2>1, <2>2
<1> QED
  BY <1>2, <1>6, <1>7

(* vmalloc backs the new region with frames nobody has. *)
LEMMA VmallocBacked ==
    ASSUME BackedInv, ListInv', TypeOK', DirInv', NEW size \in Sizes, NEW phy_type \in PhyTypes,
           vmalloc(size, phy_type)
    PROVE  BackedInv'
<1>0. /\ NoPools /\ ListInv /\ TypeOK /\ DirInv /\ KernTable \in Frames \ free
      /\ live \subseteq Dirs /\ kern_pd \in Dirs
  BY VmallocAssumption DEF BackedInv, TypeOK
<1>1. PICK i \in 0..Len(ureg) :
        \E f \in Backing(HoleAddress(i)..(HoleAddress(i) + size - 1), phy_type),
           tables \in Injections(Missing(current_pd, HoleAddress(i)..(HoleAddress(i) + size - 1)), free),
           junk \in Garbage :
             /\ Hole(i, size)
             /\ ureg' = InsertAfter(ureg, i, NewRegion(i, size, phy_type))
             /\ pg_map(current_pd, f, tables, junk)
             /\ free' = free \ (Taken(f) \cup Taken(tables))
             /\ UNCHANGED <<current_pd, live, dir_frame, status>>
  BY VmallocMaps
<1> DEFINE x == NewRegion(i, size, phy_type)
           S == PagesIn(x)
<1>2. x.vaddr = HoleAddress(i) /\ x.size = size /\ x.phy_type = phy_type
  BY DEF NewRegion
<1>3. Hole(i, size) /\ ureg' = InsertAfter(ureg, i, x)
  BY <1>1
<1>4. x \in Region /\ FitsBehind(ureg, i, x)
  BY <1>0, <1>3, HoleFits
<1>15. S = HoleAddress(i)..(HoleAddress(i) + size - 1)
  <2>1. x.vaddr \in Nat /\ x.size \in Nat
    BY <1>4, RegionNumbers
  <2>2. S = x.vaddr..(x.vaddr + x.size - 1)
    <3> HIDE DEF x
    <3> QED
      BY <2>1 DEF PagesIn, End
  <2> QED
    BY <1>2, <2>2
<1> HIDE DEF x
<1>5. PICK f \in Backing(S, phy_type), tables \in Injections(Missing(current_pd, S), free),
           junk \in Garbage :
         /\ pg_map(current_pd, f, tables, junk)
         /\ free' = free \ (Taken(f) \cup Taken(tables))
         /\ UNCHANGED <<current_pd, live, dir_frame, status>>
  BY <1>1, <1>15
<1>6. Elements(ureg') = Elements(ureg) \cup {x}
  BY <1>0, <1>3, <1>4, InsertElements DEF ListInv
<1>7. UsedBy(ureg') = UsedBy(ureg) \cup S /\ UsedBy(ureg') \subseteq Pages
  BY <1>0, <1>3, <1>4, InsertUsed, UsedFinite DEF ListInv
<1>8. S \subseteq Pages /\ UsedBy(ureg) \cap S = {}
  BY <1>0, <1>4, <1>7, NewPagesUnused DEF ListInv
<1> HIDE DEF S
<1>9. f \in [S -> Entry]
  BY <1>0, BackingType, VmallocAssumption DEF PhyType
<1>10. /\ \A d \in Dirs : table'[d][BootGroup] = table[d][BootGroup]
       /\ \A p \in BootPages : pte'[KernTable][p] = IF p \in S THEN f[p] ELSE pte[KernTable][p]
  BY <1>5, <1>8, <1>9, MapBootTable
<1>11. free' \subseteq free \ Taken(f) /\ KernTable' = KernTable
  BY <1>0, <1>5, <1>10 DEF KernTable
<1>12. /\ phy_type = "MAPPED" => \A p \in S : f[p] # none
       /\ \A p \in S : f[p] # none => f[p] \in free /\ f[p] \in Taken(f)
       /\ \A p, q \in S : f[p] # none /\ f[p] = f[q] => p = q
  <2>1. CASE phy_type = "MAPPED"
    BY <1>0, <2>1, VmallocAssumption DEF Backing, Injections, Taken, TypeOK
  <2>2. CASE phy_type = "ON_DEMAND"
    BY <2>2 DEF Backing
  <2> QED
    BY <1>0, <2>1, <2>2, VmallocAssumption DEF NoPools
<1>13. \A j \in 1..Len(ureg') : ureg'[j].phy_type = "MAPPED" =>
          \A p \in BootPages : p \in PagesIn(ureg'[j]) => pte'[KernTable][p] # none
  <2> SUFFICES ASSUME NEW r \in Elements(ureg'), r.phy_type = "MAPPED",
                      NEW p \in BootPages, p \in PagesIn(r)
               PROVE  pte'[KernTable][p] # none
    BY DEF Elements
  <2>1. CASE r = x
    <3>1. p \in S
      BY <2>1 DEF S
    <3> QED
      BY <1>2, <1>10, <1>12, <2>1, <3>1
  <2>2. CASE r \in Elements(ureg)
    <3>1. p \in UsedBy(ureg) /\ pte[KernTable][p] # none
      BY <2>2 DEF Elements, UsedBy, BackedInv
    <3>2. p \notin S
      BY <1>8, <3>1
    <3> QED
      BY <1>10, <3>1, <3>2
  <2> QED
    BY <1>6, <2>1, <2>2
<1>16. \A d \in Dirs : dir_frame'[d] \notin free
  BY <1>0, <1>5, VmallocAssumption DEF DirInv, TypeOK
<1>14. ASSUME NEW p \in BootPages, pte'[KernTable][p] # none
       PROVE  /\ p \in UsedBy(ureg')
              /\ pte'[KernTable][p] \in Frames \ free'
              /\ \A d \in Dirs : pte'[KernTable][p] # dir_frame'[d]
              /\ \A q \in BootPages : pte'[KernTable][p] = pte'[KernTable][q] => p = q
  <2>1. free \subseteq Frames
    BY <1>0 DEF TypeOK
  <2>2. \A q \in BootPages : pte[KernTable][q] # none =>
           /\ q \in UsedBy(ureg)
           /\ pte[KernTable][q] \in Frames \ free
           /\ \A d \in Dirs : pte[KernTable][q] # dir_frame'[d]
           /\ \A r \in BootPages : pte[KernTable][q] = pte[KernTable][r] => q = r
    BY <1>5 DEF BackedInv
  <2>3. CASE p \in S
    BY <1>7, <1>10, <1>11, <1>12, <1>14, <1>16, <2>1, <2>2, <2>3
  <2>4. CASE p \notin S
    BY <1>7, <1>10, <1>11, <1>12, <1>14, <2>1, <2>2, <2>4
  <2> QED
    BY <2>3, <2>4
<1>17. /\ KernTable' \in Frames \ free'
       /\ \A d \in Dirs : KernTable' # dir_frame'[d]
       /\ \A d \in live' : table'[d][BootGroup] = KernTable'
  BY <1>0, <1>5, <1>10, <1>11 DEF BackedInv
<1> QED
  BY <1>0, <1>11, <1>13, <1>14, <1>17 DEF BackedInv, NoPools

(* vfree unmaps the pages of the released region only. *)
LEMMA VfreeBacked ==
    ASSUME BackedInv, ListInv', TypeOK', DirInv', NEW vaddr, vfree(vaddr)
    PROVE  BackedInv'
<1>1. /\ NoPools /\ ListInv /\ TypeOK /\ KernTable \in Frames \ free
      /\ current_pd \in live /\ table[current_pd][BootGroup] = KernTable
  BY DEF BackedInv, TypeOK
<1>2. PICK i \in 2..Len(ureg) :
         /\ ureg[i].vaddr = vaddr
         /\ pte' = unmap(vaddr..(End(ureg[i]) - 1))
         /\ ureg' = RemoveIndex(ureg, i)
  BY DEF vfree, _remove_region
<1> DEFINE S == PagesIn(ureg[i])
<1>3. pte' = unmap(S)
  BY <1>2 DEF PagesIn
<1>4. free' = free /\ table' = table /\ live' = live /\ dir_frame' = dir_frame
      /\ KernTable' = KernTable
  BY DEF vfree, pg_unmap_frames, KernTable
<1>5. i \in 1..Len(ureg) /\ ureg \in Seq(Region) /\ Ordered(ureg)
  BY <1>1 DEF ListInv
<1>6. UsedBy(ureg') = UsedBy(ureg) \ S
  BY <1>2, <1>5, RemoveUsed
<1>8. \A j \in 1..Len(ureg') : \E k \in 1..Len(ureg) : ureg'[j] = ureg[k]
  <2>1. /\ Len(ureg') = Len(ureg) - 1
        /\ \A j \in 1..(i - 1) : ureg'[j] = ureg[j]
        /\ \A j \in i..(Len(ureg) - 1) : ureg'[j] = ureg[j + 1]
    BY <1>2, <1>5, RemoveFacts
  <2> QED
    BY <1>5, <2>1
<1> HIDE DEF S
<1>9. \A p \in BootPages : pte'[KernTable][p] = IF p \in S THEN none ELSE pte[KernTable][p]
  <2> TAKE p \in BootPages
  <2>1. p \in Pages /\ table[current_pd][Group(p)] = KernTable
    BY <1>1, BootFacts
  <2> QED
    BY <1>1, <1>3, <2>1, UnmapFacts
<1>10. ASSUME NEW j \in 1..Len(ureg'), ureg'[j].phy_type = "MAPPED",
              NEW p \in BootPages, p \in PagesIn(ureg'[j])
       PROVE  pte'[KernTable][p] # none
  <2>1. PICK k \in 1..Len(ureg) : ureg'[j] = ureg[k]
    BY <1>8
  <2>2. pte[KernTable][p] # none
    BY <1>10, <2>1 DEF BackedInv
  <2>3. p \in UsedBy(ureg')
    BY <1>10 DEF UsedBy
  <2> QED
    BY <1>6, <1>9, <2>2, <2>3
<1>11. ASSUME NEW p \in BootPages, pte'[KernTable][p] # none
       PROVE  /\ p \in UsedBy(ureg')
              /\ pte'[KernTable][p] \in Frames \ free
              /\ \A d \in Dirs : pte'[KernTable][p] # dir_frame[d]
              /\ \A q \in BootPages : pte'[KernTable][p] = pte'[KernTable][q] => p = q
  <2>1. p \notin S /\ pte'[KernTable][p] = pte[KernTable][p]
    BY <1>9, <1>11
  <2>2. /\ p \in UsedBy(ureg)
        /\ pte[KernTable][p] \in Frames \ free
        /\ \A d \in Dirs : pte[KernTable][p] # dir_frame[d]
        /\ \A q \in BootPages : pte[KernTable][p] = pte[KernTable][q] => p = q
    BY <1>11, <2>1 DEF BackedInv
  <2> QED
    BY <1>6, <1>9, <1>11, <2>1, <2>2
<1>12. /\ KernTable' \in Frames \ free'
       /\ \A d \in Dirs : KernTable' # dir_frame'[d]
       /\ \A d \in live' : table'[d][BootGroup] = KernTable'
  BY <1>4 DEF BackedInv
<1> QED
  BY <1>1, <1>4, <1>10, <1>11, <1>12 DEF BackedInv, NoPools

(* A page fault backs the page with a frame nobody has. *)
LEMMA TouchBacked ==
    ASSUME BackedInv, ListInv', TypeOK', DirInv', NEW p \in Pages, Touch(p)
    PROVE  BackedInv'
<1>1. /\ NoPools /\ ListInv /\ TypeOK /\ DirInv /\ KernTable \in Frames \ free
      /\ current_pd \in live /\ table[current_pd][BootGroup] = KernTable
      /\ live \subseteq Dirs /\ kern_pd \in Dirs
  BY VmallocAssumption DEF BackedInv, TypeOK
<1>2. UNCHANGED <<ureg, current_pd, live, dir_frame, status>> /\ p \in UsedBy(ureg)
  BY TouchMaps DEF UsedBy
<1>3. p \in BootPages => pte[KernTable][p] = none
  <2> SUFFICES ASSUME p \in BootPages PROVE pte[KernTable][p] = none
    OBVIOUS
  <2>1. _get_page(current_pd, p) = none
    BY TouchMaps
  <2>2. table[current_pd][Group(p)] = KernTable
    BY <1>1, BootFacts
  <2> QED
    BY <1>1, <2>1, <2>2, VmallocAssumption DEF _get_page
<1>4. PICK f \in [{p} -> free], tables \in Injections(Missing(current_pd, {p}), free),
           junk \in Garbage :
         /\ pg_map(current_pd, f, tables, junk)
         /\ free' = free \ (Taken(f) \cup Taken(tables))
  BY TouchMaps
<1>5. f \in [{p} -> Entry] /\ {p} \in SUBSET Pages
  BY <1>1 DEF TypeOK, Entry
<1>6. /\ \A d \in Dirs : table'[d][BootGroup] = table[d][BootGroup]
      /\ \A q \in BootPages : pte'[KernTable][q] = IF q \in {p} THEN f[q] ELSE pte[KernTable][q]
  BY <1>4, <1>5, MapBootTable
<1>7. f[p] \in free /\ free \subseteq Frames /\ Taken(f) = {f[p]} /\ f[p] # none
  BY <1>1, VmallocAssumption DEF TypeOK, Taken
<1>8. free' \subseteq free \ {f[p]} /\ KernTable' = KernTable
  BY <1>1, <1>4, <1>6, <1>7 DEF KernTable
<1>9. \A q \in BootPages : pte'[KernTable][q] = IF q = p THEN f[p] ELSE pte[KernTable][q]
  BY <1>6
<1>10. ASSUME NEW j \in 1..Len(ureg'), ureg'[j].phy_type = "MAPPED",
              NEW q \in BootPages, q \in PagesIn(ureg'[j])
       PROVE  pte'[KernTable][q] # none
  <2>1. pte[KernTable][q] # none
    BY <1>2, <1>10 DEF BackedInv
  <2> QED
    BY <1>7, <1>9, <2>1
<1>13. \A d \in Dirs : dir_frame[d] \notin free
  BY <1>1, VmallocAssumption DEF DirInv, TypeOK
<1>11. ASSUME NEW q \in BootPages, pte'[KernTable][q] # none
       PROVE  /\ q \in UsedBy(ureg')
              /\ pte'[KernTable][q] \in Frames \ free'
              /\ \A d \in Dirs : pte'[KernTable][q] # dir_frame[d]
              /\ \A r \in BootPages : pte'[KernTable][q] = pte'[KernTable][r] => q = r
  <2>1. \A r \in BootPages : pte[KernTable][r] # none =>
           /\ r \in UsedBy(ureg)
           /\ pte[KernTable][r] \in Frames \ free
           /\ \A d \in Dirs : pte[KernTable][r] # dir_frame[d]
           /\ \A u \in BootPages : pte[KernTable][r] = pte[KernTable][u] => r = u
    BY DEF BackedInv
  <2>2. CASE q = p
    BY <1>2, <1>3, <1>7, <1>8, <1>9, <1>13, <2>1, <2>2
  <2>3. CASE q # p
    BY <1>2, <1>3, <1>7, <1>8, <1>9, <1>11, <2>1, <2>3
  <2> QED
    BY <2>2, <2>3
<1>12. /\ KernTable' \in Frames \ free'
       /\ \A d \in Dirs : KernTable' # dir_frame'[d]
       /\ \A d \in live' : table'[d][BootGroup] = KernTable'
  BY <1>1, <1>2, <1>6, <1>8 DEF BackedInv
<1> QED
  BY <1>1, <1>2, <1>8, <1>10, <1>11, <1>12 DEF BackedInv, NoPools

(* Directories come and go; the kernel's one stays, the others share its boot table,
   and no frame of theirs is in use behind a region. *)
LEMMA DirectoriesBacked ==
    ASSUME BackedInv, ListInv', TypeOK', DirInv', NEW d \in Dirs,
           pg_create_directory(d) \/ pg_destroy_directory(d) \/ pg_switch_pd(d)
    PROVE  BackedInv'
<1>1. UNCHANGED <<ureg, pte>>
  BY DEF pg_create_directory, pg_destroy_directory, pg_switch_pd
<1>2. /\ kern_pd \in live /\ KernTable \in Frames \ free /\ kern_pd \in Dirs /\ live \subseteq Dirs
      /\ \A e \in live : table[e][BootGroup] = KernTable
      /\ \A e \in Dirs : KernTable # dir_frame[e]
      /\ table \in [Dirs -> [Groups -> Frames \cup {none}]]
      /\ dir_frame \in [Dirs -> Frames \cup {none}]
      /\ free \subseteq Frames /\ none \notin Frames
  BY VmallocAssumption DEF BackedInv, TypeOK, DirInv
<1>3. /\ KernTable' = KernTable
      /\ \A e \in live' : table'[e][BootGroup] = KernTable
  <2>1. CASE pg_create_directory(d)
    BY <1>2, <2>1 DEF pg_create_directory, KernTable
  <2>2. CASE pg_destroy_directory(d)
    BY <1>2, <2>2 DEF pg_destroy_directory, KernTable
  <2>3. CASE pg_switch_pd(d)
    BY <1>2, <2>3 DEF pg_switch_pd, KernTable
  <2> QED
    BY <2>1, <2>2, <2>3
<1>4. ASSUME NEW f \in Frames \ free, \A e \in Dirs : f # dir_frame[e]
      PROVE  f \in Frames \ free' /\ \A e \in Dirs : f # dir_frame'[e]
  <2>1. CASE pg_create_directory(d)
    <3>1. PICK g \in free : dir_frame' = [dir_frame EXCEPT ![d] = g] /\ free' = free \ {g}
      BY <2>1 DEF pg_create_directory
    <3> QED
      BY <1>2, <1>4, <3>1
  <2>2. CASE pg_destroy_directory(d)
    BY <1>2, <1>4, <2>2 DEF pg_destroy_directory
  <2>3. CASE pg_switch_pd(d)
    BY <1>4, <2>3 DEF pg_switch_pd
  <2> QED
    BY <2>1, <2>2, <2>3
<1>5. KernTable' \in Frames \ free' /\ \A e \in Dirs : KernTable' # dir_frame'[e]
  BY <1>2, <1>3, <1>4
<1>6. \A p \in BootPages : pte'[KernTable][p] # none =>
         /\ p \in UsedBy(ureg)
         /\ pte'[KernTable][p] \in Frames \ free'
         /\ \A e \in Dirs : pte'[KernTable][p] # dir_frame'[e]
         /\ \A q \in BootPages : pte'[KernTable][p] = pte'[KernTable][q] => p = q
  BY <1>1, <1>4 DEF BackedInv
<1>7. \A i \in 1..Len(ureg') : ureg'[i].phy_type = "MAPPED" =>
         \A p \in BootPages : p \in PagesIn(ureg'[i]) => pte'[KernTable][p] # none
  BY <1>1 DEF BackedInv
<1>8. NoPools /\ UsedBy(ureg') = UsedBy(ureg)
  BY <1>1 DEF BackedInv, UsedBy
<1> QED
  BY <1>3, <1>5, <1>6, <1>7, <1>8 DEF BackedInv, NoPools

(* Every step keeps the regions backed. *)
LEMMA NextBackedInv == BackedInv /\ [Next]_vars => BackedInv'
<1> SUFFICES ASSUME BackedInv, [Next]_vars PROVE BackedInv'
  OBVIOUS
<1>1. ListInv' /\ TypeOK' /\ DirInv'
  BY NextListInv, NextTypeOK, NextDirInv DEF BackedInv
<1>2. CASE UNCHANGED <<ureg, live, dir_frame, table, pte, free>>
  BY <1>1, <1>2 DEF BackedInv, NoPools, KernTable, UsedBy
<1>3. ASSUME NEW size \in Sizes, NEW phy_type \in PhyTypes, vmalloc(size, phy_type) PROVE BackedInv'
  BY <1>1, <1>3, VmallocBacked
<1>4. ASSUME NEW size, NEW phy_type, NEW p, NEW d,
             \/ vmalloc_panic(size, phy_type) \/ Touch_panic(p) \/ pg_create_directory_panic(d)
      PROVE  BackedInv'
  BY <1>2, <1>4 DEF vmalloc_panic, Touch_panic, pg_create_directory_panic, Panic, maps
<1>5. ASSUME NEW vaddr, vfree(vaddr) PROVE BackedInv'
  BY <1>1, <1>5, VfreeBacked
<1>6. ASSUME NEW p \in Pages, Touch(p) PROVE BackedInv'
  BY <1>1, <1>6, TouchBacked
<1>7. ASSUME NEW d \in Dirs, pg_create_directory(d) \/ pg_destroy_directory(d) \/ pg_switch_pd(d)
      PROVE  BackedInv'
  BY <1>1, <1>7, DirectoriesBacked
<1>8. CASE UNCHANGED vars
  BY <1>2, <1>8 DEF vars
<1>9. CASE Next
  BY <1>3, <1>4, <1>5, <1>6, <1>7, <1>9 DEF Next
<1> QED
  BY <1>8, <1>9

(* The first region is backed. *)
LEMMA InitBackedInv == NoPools /\ Init => BackedInv
<1> SUFFICES ASSUME NoPools, Init PROVE BackedInv
  OBVIOUS
<1>1. ListInv /\ TypeOK /\ DirInv
  BY InitListInv, InitTypeOK
<1>2. PICK stack \in Frames, t \in Frames :
         /\ ureg = <<[vaddr |-> VM_VMALLOC_START, size |-> 1, phy_type |-> "MAPPED"]>>
         /\ live = {kern_pd}
         /\ dir_frame = [d \in Dirs |-> none]
         /\ table = [d \in Dirs |-> [g \in Groups |->
                       IF d = kern_pd /\ g = Group(VM_VMALLOC_START) THEN t ELSE none]]
         /\ pte = [x \in Frames |-> [p \in Pages |->
                     IF x = t /\ p = VM_VMALLOC_START THEN stack ELSE none]]
         /\ free = Frames \ {stack, t}
  BY DEF Init
<1>3. KernTable = t
  BY <1>2, BootFacts, VmallocAssumption DEF KernTable, BootGroup
<1>4. \A p \in BootPages : pte[t][p] = IF p = VM_VMALLOC_START THEN stack ELSE none
  BY <1>2, BootFacts
<1>5. Len(ureg) = 1 /\ ureg[1] \in Region /\ ureg[1].vaddr = VM_VMALLOC_START /\ ureg[1].size = 1
  BY <1>1, <1>2 DEF ListInv
<1>6. PagesIn(ureg[1]) = {VM_VMALLOC_START}
  BY <1>5, VmallocAssumption DEF PagesIn, End
<1>7. UsedBy(ureg) = {VM_VMALLOC_START}
  BY <1>5, <1>6 DEF UsedBy
<1>8. stack # none /\ t # none /\ \A d \in Dirs : dir_frame[d] = none
  BY <1>2, VmallocAssumption
<1>9. \A i \in 1..Len(ureg) : \A p \in BootPages : p \in PagesIn(ureg[i]) => pte[t][p] # none
  BY <1>4, <1>5, <1>6, <1>8
<1>10. \A p \in BootPages : pte[t][p] # none =>
          /\ p \in UsedBy(ureg)
          /\ pte[t][p] \in Frames \ free
          /\ \A d \in Dirs : pte[t][p] # dir_frame[d]
          /\ \A q \in BootPages : pte[t][p] = pte[t][q] => p = q
  <2> SUFFICES ASSUME NEW p \in BootPages, pte[t][p] # none
               PROVE  /\ p \in UsedBy(ureg)
                      /\ pte[t][p] \in Frames \ free
                      /\ \A d \in Dirs : pte[t][p] # dir_frame[d]
                      /\ \A q \in BootPages : pte[t][p] = pte[t][q] => p = q
    OBVIOUS
  <2>1. p = VM_VMALLOC_START /\ pte[t][p] = stack
    BY <1>4
  <2>2. stack \in Frames \ free
    BY <1>2
  <2> QED
    BY <1>4, <1>7, <1>8, <2>1, <2>2
<1>11. t \in Frames \ free /\ \A d \in Dirs : t # dir_frame[d]
  BY <1>2, <1>8
<1>12. \A d \in live : table[d][BootGroup] = KernTable
  BY <1>2, <1>3, Zenon DEF KernTable
<1> QED
  BY <1>1, <1>3, <1>9, <1>10, <1>11, <1>12, Zenon DEF BackedInv

(* In the pages that the boot table covers, for any number of page tables, whatever
   the uncleared ones hold: in every address space the pages of every region asked
   for at once are mapped, no page outside the regions is, and no two pages share a
   frame or use a free one or a directory's, although the tasks' directories are
   copies made at different times and released again. *)
THEOREM BackedSafe == NoPools /\ Spec => []RegionsBacked
<1>1. BackedInv => RegionsBacked
  <2> SUFFICES ASSUME BackedInv PROVE RegionsBacked
    OBVIOUS
  <2>1. /\ KernTable \in Frames
        /\ \A d \in live : table[d][BootGroup] = KernTable
        /\ ListInv /\ kern_pd \in live
    BY DEF BackedInv, DirInv
  <2>2. \A d \in live, p \in BootPages : _get_page(d, p) = pte[KernTable][p]
    <3> TAKE d \in live, p \in BootPages
    <3>1. table[d][Group(p)] = KernTable
      BY <2>1, BootFacts
    <3> QED
      BY <2>1, <3>1, VmallocAssumption DEF _get_page
  <2>4. ASSUME NEW i \in 1..Len(ureg), ureg[i].phy_type = "MAPPED",
               NEW p \in BootPages \cap PagesIn(ureg[i])
        PROVE  _get_page(kern_pd, p) # none
    BY <2>1, <2>2, <2>4 DEF BackedInv
  <2>5. ASSUME NEW p \in BootPages, _get_page(kern_pd, p) # none
        PROVE  /\ p \in UsedBy(ureg)
               /\ _get_page(kern_pd, p) \in Frames \ free
               /\ \A d \in Dirs : _get_page(kern_pd, p) # dir_frame[d]
               /\ \A q \in BootPages : _get_page(kern_pd, p) = _get_page(kern_pd, q) => p = q
    BY <2>1, <2>2, <2>5 DEF BackedInv
  <2>6. \A d \in live, p \in BootPages : _get_page(d, p) = _get_page(kern_pd, p)
    BY <2>1, <2>2
  <2> QED
    BY <2>4, <2>5, <2>6 DEF RegionsBacked, PagesIn, UsedBy
<1> QED
  BY <1>1, InitBackedInv, NextBackedInv, PTL DEF Spec
=============================================================================
