--------------------------- MODULE MemoryProofs ---------------------------
(***************************************************************************)
(* Proofs about physical memory and the address spaces of programs.        *)
(*                                                                         *)
(* The first part is about the frame allocator, for every memory size and  *)
(* every size of the reserved area.  The rest is about Vmm, for every size *)
(* of a page, of the machine's words and of memory, for every set of       *)
(* programs as the linker writes them and however many tasks there are:    *)
(* what each function of vmm.c does to one address space, then one theorem *)
(* for each property.                                                      *)
(***************************************************************************)
EXTENDS Pmm, Vmm, SequenceLemmas, FiniteSetTheorems, TLAPS

(* The inductive invariant: the bitmap tells exactly who holds what, and the
   counter counts its clear bits. *)
PmmInv == PmmTypeOK /\ ExclusiveFrames /\ BitmapExact /\ Accounting

(* There are finitely many frames, and finitely many in any subset. *)
LEMMA FramesFinite ==
    /\ IsFiniteSet(AllFrames)
    /\ Cardinality(AllFrames) = TotalFrames
    /\ \A S \in SUBSET AllFrames : /\ IsFiniteSet(S)
                                /\ Cardinality(S) \in 0..TotalFrames
<1>1. IsFiniteSet(AllFrames) /\ Cardinality(AllFrames) = TotalFrames
  BY PmmAssumption, FS_Interval DEF AllFrames
<1> QED
  BY <1>1, FS_Subset, FS_CardinalityType, PmmAssumption

(* _IDX_SET on clear bits keeps the counter right. *)
LEMMA SetCount ==
    ASSUME NEW S, S \subseteq AllFrames \ used, used \subseteq AllFrames, Accounting,
           IDX_SET(S)
    PROVE  /\ Accounting'
           /\ free_frames' \in 0..TotalFrames
           /\ used' \subseteq AllFrames
<1> DEFINE Free == AllFrames \ used
<1>1. AllFrames \ used' = Free \ S
  BY DEF IDX_SET
<1>2. IsFiniteSet(Free) /\ IsFiniteSet(S)
  BY FramesFinite
<1>3. Cardinality(Free \ S) = Cardinality(Free) - Cardinality(Free \cap S)
  BY <1>2, FS_Difference
<1>4. Free \cap S = S
  OBVIOUS
<1>5. Cardinality(Free \ S) \in 0..TotalFrames
  BY FramesFinite
<1> QED
  BY <1>1, <1>3, <1>4, <1>5 DEF IDX_SET, Accounting

(* _IDX_UNSET on set bits keeps the counter right. *)
LEMMA UnsetCount ==
    ASSUME NEW S, S \subseteq used, used \subseteq AllFrames, Accounting,
           IDX_UNSET(S)
    PROVE  /\ Accounting'
           /\ free_frames' \in 0..TotalFrames
           /\ used' \subseteq AllFrames
<1> DEFINE Free == AllFrames \ used
<1>1. AllFrames \ used' = Free \cup S
  BY DEF IDX_UNSET
<1>2. IsFiniteSet(Free) /\ IsFiniteSet(S)
  BY FramesFinite
<1>3. Free \cap S = {}
  OBVIOUS
<1>4. Cardinality(Free \cup S) = Cardinality(Free) + Cardinality(S) - Cardinality(Free \cap S)
  BY <1>2, FS_Union
<1>5. Cardinality(Free \cap S) = 0
  BY <1>3, FS_EmptySet
<1>6. Cardinality(Free \cup S) \in 0..TotalFrames /\ Cardinality(Free) \in Nat /\ Cardinality(S) \in Nat
  BY FramesFinite, PmmAssumption
<1>7. free_frames' = Cardinality(Free \cup S)
  BY <1>4, <1>5, <1>6 DEF IDX_UNSET, Accounting
<1>8. used' \subseteq AllFrames
  BY DEF IDX_UNSET
<1> QED
  BY <1>1, <1>6, <1>7, <1>8 DEF Accounting

(* The bitmap as pmm_init leaves it. *)
LEMMA PmmInitInv == pmm_init => PmmInv
<1> SUFFICES ASSUME pmm_init PROVE PmmInv
  OBVIOUS
<1>1. PmmTypeOK
  BY PmmAssumption DEF pmm_init, PmmTypeOK, AllFrames, Reserved
<1>2. ExclusiveFrames /\ BitmapExact
  BY PmmAssumption DEF pmm_init, ExclusiveFrames, BitmapExact, AllFrames, Reserved
<1>3. Accounting
  <2>1. AllFrames \ used = ReservedFrames..(TotalFrames - 1)
    BY PmmAssumption DEF pmm_init, AllFrames, Reserved
  <2>2. Cardinality(ReservedFrames..(TotalFrames - 1)) = TotalFrames - ReservedFrames
    BY PmmAssumption, FS_Interval, FS_EmptySet
  <2> QED
    BY <2>1, <2>2 DEF pmm_init, Accounting
<1> QED
  BY <1>1, <1>2, <1>3 DEF PmmInv

(* AllFrames are held only where their bit is set, so a free frame has no holder. *)
LEMMA FreeNotHeld ==
    ASSUME PmmInv, NEW f \in AllFrames \ used
    PROVE  holders[f] = 0 /\ f \notin Reserved
BY DEF PmmInv, PmmTypeOK, BitmapExact

(* Every operation keeps the invariant. *)
LEMMA PmmNextInv == PmmInv /\ [PmmNext]_pmm_vars => PmmInv'
<1> SUFFICES ASSUME PmmInv, [PmmNext]_pmm_vars PROVE PmmInv'
  OBVIOUS
<1> USE DEF PmmInv
<1>1. CASE pmm_get_frame
  <2> DEFINE from == IF FreeFrom(last_free_idx) = {} THEN kernel_end_idx ELSE last_free_idx
  <2>1. PICK i \in AllFrames : /\ IsFirstFree(i, from)
                            /\ IDX_SET({i})
                            /\ holders' = [holders EXCEPT ![i] = @ + 1]
                            /\ last_free_idx' = from + 1
    BY <1>1 DEF pmm_get_frame
  <2>2. i \in AllFrames \ used /\ from <= i
    BY <2>1 DEF IsFirstFree, FreeFrom
  <2>3. holders[i] = 0 /\ i \notin Reserved
    BY <2>2, FreeNotHeld
  <2>4. Accounting' /\ free_frames' \in 0..TotalFrames /\ used' \subseteq AllFrames
    BY <2>1, <2>2, SetCount DEF PmmTypeOK
  <2>5. from \in 0..(TotalFrames - 1)
    BY <2>2, PmmAssumption DEF AllFrames, PmmTypeOK, kernel_end_idx
  <2>6. PmmTypeOK'
    BY <2>1, <2>4, <2>5, <1>1, PmmAssumption DEF PmmTypeOK, pmm_get_frame
  <2>7. ExclusiveFrames'
    BY <2>1, <2>3 DEF PmmTypeOK, ExclusiveFrames, AllFrames, Reserved
  <2>8. BitmapExact'
    BY <2>1, <2>2, <2>3 DEF PmmTypeOK, BitmapExact, IDX_SET
  <2> QED
    BY <2>4, <2>6, <2>7, <2>8
<1>2. CASE OutOfMemory
  BY <1>2 DEF OutOfMemory, PmmTypeOK, ExclusiveFrames, BitmapExact, Accounting
<1>3. ASSUME NEW f \in AllFrames, pmm_free_frame(f)
      PROVE  PmmInv'
  <2>1. f \in used /\ f \notin Reserved /\ holders[f] = 1
    BY <1>3 DEF pmm_free_frame, PmmTypeOK, ExclusiveFrames, BitmapExact
  <2>2. Accounting' /\ free_frames' \in 0..TotalFrames /\ used' \subseteq AllFrames
    BY <1>3, <2>1, UnsetCount DEF PmmTypeOK, pmm_free_frame
  <2>3. PmmTypeOK'
    BY <1>3, <2>1, <2>2, PmmAssumption DEF PmmTypeOK, pmm_free_frame, AllFrames
  <2>4. ExclusiveFrames'
    BY <1>3, <2>1 DEF PmmTypeOK, ExclusiveFrames, pmm_free_frame, AllFrames, Reserved
  <2>5. BitmapExact'
    BY <1>3, <2>1 DEF PmmTypeOK, BitmapExact, ExclusiveFrames, pmm_free_frame, IDX_UNSET
  <2> QED
    BY <2>2, <2>3, <2>4, <2>5
<1>4. ASSUME NEW s \in AllFrames, NEW n \in 1..TotalFrames, pmm_get_pool(s, n)
      PROVE  PmmInv'
  <2>1. Pool(s, n) \subseteq AllFrames \ used
    BY <1>4 DEF pmm_get_pool, FreePoolAt
  <2>2. \A f \in Pool(s, n) : holders[f] = 0 /\ f \notin Reserved
    BY <2>1, FreeNotHeld
  <2>3. Accounting' /\ free_frames' \in 0..TotalFrames /\ used' \subseteq AllFrames
    BY <1>4, <2>1, SetCount DEF PmmTypeOK, pmm_get_pool
  <2>4. holders' = [f \in AllFrames |-> IF f \in Pool(s, n) THEN holders[f] + 1 ELSE holders[f]]
    BY <1>4 DEF pmm_get_pool
  <2>5. PmmTypeOK'
    BY <1>4, <2>3, <2>4 DEF PmmTypeOK, pmm_get_pool
  <2>6. ExclusiveFrames'
    <3>1. \A f \in AllFrames : holders'[f] <= 1
      BY <2>2, <2>4 DEF PmmTypeOK, ExclusiveFrames
    <3>2. \A f \in Reserved : f \in AllFrames /\ f \notin Pool(s, n)
      BY <2>2, PmmAssumption DEF AllFrames, Reserved
    <3>3. \A f \in Reserved : holders'[f] = 0
      BY <2>4, <3>2 DEF ExclusiveFrames
    <3> QED
      BY <3>1, <3>3 DEF ExclusiveFrames
  <2>7. BitmapExact'
    BY <1>4, <2>1, <2>2, <2>4 DEF PmmTypeOK, BitmapExact, IDX_SET, pmm_get_pool
  <2> QED
    BY <2>3, <2>5, <2>6, <2>7
<1>5. ASSUME NEW s \in AllFrames, NEW n \in 1..TotalFrames, pmm_free_pool(s, n)
      PROVE  PmmInv'
  <2>1. \A f \in Pool(s, n) : f \in AllFrames /\ f \in used /\ f \notin Reserved /\ holders[f] = 1
    BY <1>5 DEF pmm_free_pool, PmmTypeOK, ExclusiveFrames, BitmapExact
  <2>2. Accounting' /\ free_frames' \in 0..TotalFrames /\ used' \subseteq AllFrames
    BY <1>5, <2>1, UnsetCount DEF PmmTypeOK, pmm_free_pool
  <2>3. holders' = [f \in AllFrames |-> IF f \in Pool(s, n) THEN holders[f] - 1 ELSE holders[f]]
    BY <1>5 DEF pmm_free_pool
  <2>4. s + n - 1 \in Pool(s, n)
    BY PmmAssumption DEF Pool, AllFrames
  <2>5. last_free_idx' \in 0..TotalFrames
    BY <1>5, <2>1, <2>4, PmmAssumption DEF pmm_free_pool, AllFrames
  <2>6. PmmTypeOK'
    BY <1>5, <2>1, <2>2, <2>3, <2>5 DEF PmmTypeOK, pmm_free_pool
  <2>7. ExclusiveFrames'
    BY <2>1, <2>3, PmmAssumption DEF PmmTypeOK, ExclusiveFrames, AllFrames, Reserved
  <2>8. BitmapExact'
    BY <1>5, <2>1, <2>3 DEF PmmTypeOK, BitmapExact, ExclusiveFrames, IDX_UNSET, pmm_free_pool
  <2> QED
    BY <2>2, <2>6, <2>7, <2>8
<1>6. CASE UNCHANGED pmm_vars
  BY <1>6 DEF pmm_vars, PmmTypeOK, ExclusiveFrames, BitmapExact, Accounting
<1> QED
  BY <1>1, <1>2, <1>3, <1>4, <1>5, <1>6 DEF PmmNext

(* Whatever sequence of allocations and frees the kernel performs, on a machine
   of any size: no frame has two holders and none of the reserved frames has
   one, and free_frames is the number of clear bits of pmm_bitmap. *)
THEOREM PmmSafety == PmmSpec => [](PmmTypeOK /\ ExclusiveFrames /\ BitmapExact /\ Accounting)
<1>1. pmm_init => PmmInv
  BY PmmInitInv
<1>2. PmmInv /\ [PmmNext]_pmm_vars => PmmInv'
  BY PmmNextInv
<1>3. PmmInv => PmmTypeOK /\ ExclusiveFrames /\ BitmapExact /\ Accounting
  BY DEF PmmInv
<1> QED
  BY <1>1, <1>2, <1>3, PTL DEF PmmSpec

(* free_frames, which pmm_get_frame and pmm_get_pool test before they search,
   counts the frames that are free. *)
THEOREM AccountingSafe == PmmSpec => []Accounting
  BY PmmSafety, PTL

(* The recursive retry of pmm_get_frame always ends: when the counter is not
   zero, the search from kernel_end_idx meets a free frame. *)
THEOREM RetryTerminates == PmmSpec => []RetryFindsFrame
<1>1. PmmInv => RetryFindsFrame
  <2> SUFFICES ASSUME PmmInv, free_frames # 0 PROVE FreeFrom(kernel_end_idx) # {}
    BY DEF RetryFindsFrame
  <2>1. AllFrames \ used # {}
    BY FS_EmptySet DEF PmmInv, Accounting
  <2>2. PICK f \in AllFrames \ used : TRUE
    BY <2>1
  <2>3. f \notin Reserved
    BY FreeNotHeld
  <2>4. f \in FreeFrom(kernel_end_idx)
    BY <2>3, PmmAssumption DEF FreeFrom, kernel_end_idx, Reserved, AllFrames
  <2> QED
    BY <2>4
<1> QED
  BY <1>1, PmmInitInv, PmmNextInv, PTL DEF PmmSpec

(* A step of the allocator that panics finds no frame left to give. *)
LEMMA PanicStep ==
    ASSUME PmmInv, PanicOnlyWhenFull, [PmmNext]_pmm_vars
    PROVE  PanicOnlyWhenFull'
<1>1. CASE OutOfMemory
  <2>1. AllFrames \ used = {}
    BY <1>1, FramesFinite, FS_EmptySet DEF PmmInv, Accounting, OutOfMemory
  <2> QED
    BY <1>1, <2>1 DEF PmmInv, PmmTypeOK, ExclusiveFrames, BitmapExact, OutOfMemory, PanicOnlyWhenFull
<1>2. CASE UNCHANGED pmm_vars
  BY <1>2 DEF pmm_vars, PanicOnlyWhenFull
<1>3. CASE pmm_status' = "running"
  BY <1>3 DEF PanicOnlyWhenFull
<1> QED
  BY <1>1, <1>2, <1>3 DEF PmmNext, pmm_get_frame, pmm_free_frame, pmm_get_pool, pmm_free_pool

(* The out-of-memory panic is honest: it never happens while a frame is free. *)
THEOREM PanicHonest == PmmSpec => []PanicOnlyWhenFull
<1>1. pmm_init => PmmInv /\ PanicOnlyWhenFull
  BY PmmInitInv DEF pmm_init, PanicOnlyWhenFull
<1>2. PmmInv /\ PanicOnlyWhenFull /\ [PmmNext]_pmm_vars => (PmmInv /\ PanicOnlyWhenFull)'
  BY PmmNextInv, PanicStep
<1> QED
  BY <1>1, <1>2, PTL DEF PmmSpec
-----------------------------------------------------------------------------
(* Address spaces: the constants, numbers and finite sets *)

(* What the proofs use of the constants. *)
LEMMA Machine ==
    /\ PAGE_SIZE \in Nat /\ PAGE_SIZE > 1
    /\ Word \in Nat /\ VM_USER_STACK \in Nat /\ VM_USER_END \in Nat /\ StackSize \in Nat
    /\ StackSize > 0
    /\ StackSize + PAGE_SIZE <= VM_USER_STACK
    /\ VM_USER_STACK <= VM_USER_END
    /\ VM_USER_END + PAGE_SIZE <= Word
BY VmmAssumption

(* Min and Max find what they are named for. *)
LEMMA MinIs ==
    ASSUME NEW S \in SUBSET Nat, S # {}
    PROVE  Min(S) \in S /\ \A x \in S : Min(S) <= x
BY LeastNat DEF Min

LEMMA MaxIs ==
    ASSUME NEW n \in Nat, NEW S \in SUBSET (0..n), S # {}
    PROVE  Max(S) \in S /\ \A x \in S : x <= Max(S)
<1> DEFINE T == {y \in Nat : n - y \in S}
<1>1. T \in SUBSET Nat /\ T # {}
  <2>1. PICK x \in S : TRUE
    OBVIOUS
  <2>2. n - x \in Nat /\ n - (n - x) = x
    OBVIOUS
  <2>3. n - x \in T
    BY <2>2
  <2> QED
    BY <2>3
<1>2. PICK y \in T : \A z \in T : y <= z
  BY <1>1, LeastNat
<1>3. n - y \in S
  OBVIOUS
<1>4. ASSUME NEW x \in S PROVE x <= n - y
  <2>1. n - x \in Nat /\ n - (n - x) = x
    OBVIOUS
  <2>2. n - x \in T
    BY <2>1
  <2> QED
    BY <1>2, <2>1, <2>2
<1> QED
  BY <1>3, <1>4 DEF Max

(* Quotient and remainder by a positive number. *)
LEMMA DivMod ==
    ASSUME NEW x \in Int, NEW d \in Nat, d > 0
    PROVE  /\ x \div d \in Int /\ x % d \in 0..(d - 1)
           /\ x = d * (x \div d) + (x % d)
OBVIOUS

(* The quotient is known from where the number lies. *)
LEMMA DivIs ==
    ASSUME NEW x \in Int, NEW d \in Nat, d > 0, NEW q \in Int, d * q <= x, x < d * q + d
    PROVE  x \div d = q /\ x % d = x - d * q
<1>1. x \div d \in Int /\ x % d \in 0..(d - 1) /\ x = d * (x \div d) + (x % d)
  BY DivMod
<1> DEFINE p == x \div d
<1>2. p < q + 1
  <2> SUFFICES ASSUME p >= q + 1 PROVE FALSE
    BY <1>1
  <2>1. d * p >= d * (q + 1)
    BY <1>1
  <2> QED
    BY <1>1, <2>1
<1>3. q < p + 1
  <2> SUFFICES ASSUME q >= p + 1 PROVE FALSE
    BY <1>1
  <2>1. d * q >= d * (p + 1)
    BY <1>1
  <2> QED
    BY <1>1, <2>1
<1> QED
  BY <1>1, <1>2, <1>3

(* Pages. *)
LEMMA PageIs ==
    ASSUME NEW x \in Nat
    PROVE  /\ Page(x) \in Nat
           /\ PAGE_SIZE * Page(x) <= x /\ x < PAGE_SIZE * Page(x) + PAGE_SIZE
           /\ \A q \in Int : PAGE_SIZE * q <= x /\ x < PAGE_SIZE * q + PAGE_SIZE => Page(x) = q
<1>1. PAGE_SIZE \in Nat /\ PAGE_SIZE > 0
  BY Machine
<1>2. Page(x) \in Int /\ x % PAGE_SIZE \in 0..(PAGE_SIZE - 1) /\ x = PAGE_SIZE * Page(x) + (x % PAGE_SIZE)
  BY <1>1, DivMod DEF Page
<1>3. Page(x) >= 0
  <2> SUFFICES ASSUME Page(x) <= -1 PROVE FALSE
    BY <1>2
  <2>1. PAGE_SIZE * Page(x) <= PAGE_SIZE * (-1)
    BY <1>1, <1>2
  <2> QED
    BY <1>1, <1>2, <2>1
<1>4. \A q \in Int : PAGE_SIZE * q <= x /\ x < PAGE_SIZE * q + PAGE_SIZE => Page(x) = q
  BY <1>1, DivIs DEF Page
<1> QED
  BY <1>1, <1>2, <1>3, <1>4

LEMMA PageMono ==
    ASSUME NEW x \in Nat, NEW y \in Nat, x <= y
    PROVE  Page(x) <= Page(y)
<1>1. PAGE_SIZE \in Nat /\ PAGE_SIZE > 0
  BY Machine
<1>2. Page(x) \in Nat /\ PAGE_SIZE * Page(x) <= x /\ Page(y) \in Nat /\ y < PAGE_SIZE * Page(y) + PAGE_SIZE
  BY PageIs
<1> SUFFICES ASSUME Page(x) >= Page(y) + 1 PROVE FALSE
  BY <1>2
<1>3. PAGE_SIZE * Page(x) >= PAGE_SIZE * (Page(y) + 1)
  BY <1>1, <1>2
<1> QED
  BY <1>1, <1>2, <1>3

(* Rounding up gives a multiple, less than one unit away. *)
LEMMA RoundUpIs ==
    ASSUME NEW n \in Nat, NEW unit \in Nat, unit > 0
    PROVE  /\ RoundUp(n, unit) \in Nat
           /\ n <= RoundUp(n, unit) /\ RoundUp(n, unit) < n + unit
           /\ RoundUp(n, unit) % unit = 0
<1>1. n \div unit \in Int /\ n % unit \in 0..(unit - 1) /\ n = unit * (n \div unit) + (n % unit)
  BY DivMod
<1>2. CASE n % unit = 0
  BY <1>1, <1>2 DEF RoundUp
<1>3. CASE n % unit # 0
  <2>1. RoundUp(n, unit) = unit * (n \div unit) + unit
    BY <1>1, <1>3 DEF RoundUp
  <2>2. unit * ((n \div unit) + 1) = unit * (n \div unit) + unit /\ (n \div unit) + 1 \in Int
    BY <1>1
  <2>3. RoundUp(n, unit) \in Nat /\ n <= RoundUp(n, unit) /\ RoundUp(n, unit) < n + unit
    BY <1>1, <1>3, <2>1
  <2>4. RoundUp(n, unit) % unit = RoundUp(n, unit) - unit * ((n \div unit) + 1)
    BY <2>1, <2>2, <2>3, DivIs
  <2> QED
    BY <2>1, <2>2, <2>3, <2>4
<1> QED
  BY <1>1, <1>2, <1>3

-----------------------------------------------------------------------------
(* The list of regions *)

(* What is in the list, and that it is in order. *)
Listed(regs) == {regs[i] : i \in 1..Len(regs)}
Sorted(regs) == \A i, j \in 1..Len(regs) : i < j => End(regs[i]) <= regs[j].addr

(* Where _insert_region may put a region. *)
Place(regs, r, i) == /\ i = 0 \/ End(regs[i]) <= r.addr
                     /\ i = Len(regs) \/ End(r) <= regs[i + 1].addr

LEMMA EndIsNat ==
    ASSUME NEW r \in Region
    PROVE  r.addr \in Nat /\ r.size \in Nat /\ r.rw \in BOOLEAN /\ End(r) \in Nat /\ End(r) = r.addr + r.size /\ r.addr <= End(r)
BY DEF Region, End

(* A region is an element of the list, and the other way round. *)
LEMMA ListedIs ==
    ASSUME NEW regs \in Seq(Region)
    PROVE  /\ \A i \in 1..Len(regs) : regs[i] \in Listed(regs) /\ regs[i] \in Region
           /\ \A r \in Listed(regs) : r \in Region /\ \E i \in 1..Len(regs) : r = regs[i]
BY DEF Listed

(* A region that begins before another one ends before it. *)
LEMMA SortedApart ==
    ASSUME NEW regs \in Seq(Region), Sorted(regs), NEW r \in Listed(regs), NEW q \in Listed(regs), r.addr < q.addr
    PROVE  End(r) <= q.addr
<1>1. PICK i \in 1..Len(regs), j \in 1..Len(regs) : r = regs[i] /\ q = regs[j]
  BY DEF Listed
<1>2. r \in Region /\ q \in Region
  BY <1>1
<1>a. r.addr \in Nat /\ q.addr \in Nat /\ End(q) \in Nat /\ q.addr <= End(q)
  BY <1>2, EndIsNat, Zenon
<1>3. ~(j <= i)
  <2> SUFFICES ASSUME j <= i PROVE FALSE
    OBVIOUS
  <2>1. j < i
    BY <1>1, <1>a
  <2>2. End(q) <= r.addr
    BY <1>1, <2>1 DEF Sorted
  <2> QED
    BY <1>a, <2>2
<1> QED
  BY <1>1, <1>3 DEF Sorted

(* InsertAfter at a place where the region fits. *)
LEMMA InsertAfterFacts ==
    ASSUME NEW regs \in Seq(Region), NEW r \in Region, NEW i \in 0..Len(regs)
    PROVE  LET s == InsertAfter(regs, i, r) IN
           /\ s \in Seq(Region) /\ Len(s) = Len(regs) + 1
           /\ Listed(s) = Listed(regs) \cup {r}
           /\ \A j \in 1..Len(s) : s[j] = IF j <= i THEN regs[j] ELSE IF j = i + 1 THEN r ELSE regs[j - 1]
<1> DEFINE n == Len(regs)
           s == InsertAfter(regs, i, r)
<1>1. n \in Nat /\ \A j \in 1..n : regs[j] \in Region
  OBVIOUS
<1>2. s = [j \in 1..(n + 1) |-> IF j <= i THEN regs[j] ELSE IF j = i + 1 THEN r ELSE regs[j - 1]]
  BY DEF InsertAfter
<1>3. \A j \in 1..(n + 1) : s[j] = (IF j <= i THEN regs[j] ELSE IF j = i + 1 THEN r ELSE regs[j - 1]) /\ s[j] \in Region
  BY <1>1, <1>2
<1> HIDE DEF s
<1>4. s \in Seq(Region) /\ Len(s) = n + 1
  <2>1. s \in [1..(n + 1) -> Region]
    BY <1>2, <1>3
  <2> QED
    BY <1>1, <2>1
<1>5. Listed(s) \subseteq Listed(regs) \cup {r}
  BY <1>1, <1>3, <1>4 DEF Listed
<1>6. r \in Listed(s)
  <2>1. i + 1 \in 1..Len(s) /\ s[i + 1] = r
    BY <1>1, <1>3, <1>4
  <2> QED
    BY <2>1 DEF Listed
<1>7. ASSUME NEW q \in Listed(regs) PROVE q \in Listed(s)
  <2>1. PICK j \in 1..n : q = regs[j]
    BY DEF Listed
  <2>2. CASE j <= i
    <3>1. j \in 1..Len(s) /\ s[j] = q
      BY <1>1, <1>3, <1>4, <2>1, <2>2
    <3> QED
      BY <3>1 DEF Listed
  <2>3. CASE ~(j <= i)
    <3>1. j + 1 \in 1..Len(s) /\ s[j + 1] = q
      BY <1>1, <1>3, <1>4, <2>1, <2>3
    <3> QED
      BY <3>1 DEF Listed
  <2> QED
    BY <2>2, <2>3
<1> QED
  BY <1>3, <1>4, <1>5, <1>6, <1>7 DEF s

LEMMA InsertSorted ==
    ASSUME NEW regs \in Seq(Region), NEW r \in Region, NEW i \in 0..Len(regs), Sorted(regs), Place(regs, r, i)
    PROVE  Sorted(InsertAfter(regs, i, r))
<1> DEFINE n == Len(regs)
<1>1. PICK s : s = InsertAfter(regs, i, r)
  OBVIOUS
<1>2. n \in Nat /\ Len(s) = n + 1
      /\ \A j \in 1..Len(s) : s[j] = IF j <= i THEN regs[j] ELSE IF j = i + 1 THEN r ELSE regs[j - 1]
  BY <1>1, InsertAfterFacts
<1>3. ASSUME NEW j \in 1..n
      PROVE  regs[j] \in Region /\ regs[j].addr \in Nat /\ End(regs[j]) \in Nat /\ regs[j].addr <= End(regs[j])
  <2>1. regs[j] \in Region
    OBVIOUS
  <2> QED
    BY <2>1, EndIsNat, Zenon
<1>4. r.addr \in Nat /\ End(r) \in Nat /\ r.addr <= End(r)
  BY EndIsNat
<1>5. \A j \in 1..n : j <= i => End(regs[j]) <= r.addr
  <2> SUFFICES ASSUME NEW j \in 1..n, j <= i PROVE End(regs[j]) <= r.addr
    OBVIOUS
  <2>1. i \in 1..n /\ End(regs[i]) <= r.addr
    BY <1>2 DEF Place
  <2>2. CASE j = i
    BY <2>1, <2>2
  <2>3. CASE j # i
    <3>1. End(regs[j]) <= regs[i].addr
      BY <2>1, <2>3 DEF Sorted
    <3> QED
      BY <1>3, <1>4, <2>1, <3>1
  <2> QED
    BY <2>2, <2>3
<1>6. \A j \in 1..n : j > i => End(r) <= regs[j].addr
  <2> SUFFICES ASSUME NEW j \in 1..n, j > i PROVE End(r) <= regs[j].addr
    OBVIOUS
  <2>1. i + 1 \in 1..n /\ End(r) <= regs[i + 1].addr
    BY <1>2 DEF Place
  <2>2. CASE j = i + 1
    BY <2>1, <2>2
  <2>3. CASE j # i + 1
    <3>1. End(regs[i + 1]) <= regs[j].addr
      BY <2>1, <2>3 DEF Sorted
    <3> QED
      BY <1>3, <1>4, <2>1, <3>1
  <2> QED
    BY <2>2, <2>3
<1>7. ASSUME NEW j \in 1..Len(s), NEW k \in 1..Len(s), j < k PROVE End(s[j]) <= s[k].addr
  <2>1. CASE j <= i /\ k <= i
    <3>1. s[j] = regs[j] /\ s[k] = regs[k] /\ j \in 1..n /\ k \in 1..n
      BY <1>2, <2>1
    <3> QED
      BY <1>7, <3>1 DEF Sorted
  <2>2. CASE j <= i /\ k = i + 1
    BY <1>2, <1>5, <2>2
  <2>3. CASE j <= i /\ k > i + 1
    <3>1. s[j] = regs[j] /\ s[k] = regs[k - 1] /\ j \in 1..n /\ k - 1 \in 1..n /\ j < k - 1
      BY <1>2, <2>3
    <3> QED
      BY <3>1 DEF Sorted
  <2>4. CASE j = i + 1
    <3>1. s[j] = r /\ s[k] = regs[k - 1] /\ k - 1 \in 1..n /\ k - 1 > i
      BY <1>2, <1>7, <2>4
    <3> QED
      BY <1>6, <3>1
  <2>5. CASE j > i + 1
    <3>1. s[j] = regs[j - 1] /\ s[k] = regs[k - 1] /\ j - 1 \in 1..n /\ k - 1 \in 1..n /\ j - 1 < k - 1
      BY <1>2, <1>7, <2>5
    <3> QED
      BY <3>1 DEF Sorted
  <2> QED
    BY <1>2, <1>7, <2>1, <2>2, <2>3, <2>4, <2>5
<1> QED
  BY <1>1, <1>7 DEF Sorted

(* _insert_region loses nothing, adds at most the new region, adds it when it
   fits somewhere, and keeps the order. *)
LEMMA InsertRegion ==
    ASSUME NEW regs \in Seq(Region), NEW r \in Region
    PROVE  LET s == _insert_region(regs, r) IN
           /\ s \in Seq(Region)
           /\ Listed(regs) \subseteq Listed(s) /\ Listed(s) \subseteq Listed(regs) \cup {r}
           /\ (\E i \in 0..Len(regs) : Place(regs, r, i)) => r \in Listed(s)
           /\ Sorted(regs) => Sorted(s)
<1> DEFINE places == {i \in 0..Len(regs) : Place(regs, r, i)}
           s == _insert_region(regs, r)
<1>0. s = IF places = {} THEN regs
          ELSE InsertAfter(regs, IF Len(regs) \in places /\ 0 \notin places THEN Len(regs) ELSE Min(places), r)
  BY DEF _insert_region, Place
<1>1. CASE places = {}
  BY <1>0, <1>1
<1>2. CASE places # {}
  <2>1. places \in SUBSET Nat
    OBVIOUS
  <2>2. Min(places) \in places
    BY <1>2, <2>1, MinIs
  <2>3. PICK i \in places : s = InsertAfter(regs, i, r)
    BY <1>0, <1>2, <2>2
  <2>4. i \in 0..Len(regs) /\ Place(regs, r, i)
    BY <2>3
  <2> HIDE DEF s
  <2>5. s \in Seq(Region) /\ Listed(s) = Listed(regs) \cup {r}
    BY <2>3, <2>4, InsertAfterFacts
  <2>6. Sorted(regs) => Sorted(s)
    BY <2>3, <2>4, InsertSorted
  <2> QED
    BY <2>5, <2>6 DEF s
<1> QED
  BY <1>1, <1>2

(* A list that takes elements of another one in their order. *)
Sublist(s, regs, f) ==
    /\ f \in [1..Len(s) -> 1..Len(regs)]
    /\ \A j \in 1..Len(s) : s[j] = regs[f[j]]
    /\ \A j, k \in 1..Len(s) : j < k => f[j] < f[k]

LEMMA SublistSorted ==
    ASSUME NEW regs \in Seq(Region), NEW s \in Seq(Region), NEW f, Sublist(s, regs, f)
    PROVE  Listed(s) \subseteq Listed(regs) /\ (Sorted(regs) => Sorted(s))
<1>1. ASSUME NEW j \in 1..Len(s) PROVE f[j] \in 1..Len(regs) /\ s[j] = regs[f[j]]
  BY DEF Sublist
<1>2. Listed(s) \subseteq Listed(regs)
  BY <1>1 DEF Listed
<1>3. ASSUME Sorted(regs), NEW j \in 1..Len(s), NEW k \in 1..Len(s), j < k PROVE End(s[j]) <= s[k].addr
  <2>1. f[j] < f[k]
    BY <1>3 DEF Sublist
  <2>2. s[j] = regs[f[j]] /\ s[k] = regs[f[k]] /\ f[j] \in 1..Len(regs) /\ f[k] \in 1..Len(regs)
    BY <1>1
  <2>3. End(regs[f[j]]) <= regs[f[k]].addr
    BY <1>3, <2>1, <2>2 DEF Sorted
  <2> QED
    BY <2>2, <2>3
<1> QED
  BY <1>2, <1>3 DEF Sorted

(* RemoveIndex takes out one. *)
LEMMA RemoveIndexFacts ==
    ASSUME NEW regs \in Seq(Region), NEW i \in 1..Len(regs)
    PROVE  LET s == RemoveIndex(regs, i) IN
           /\ s \in Seq(Region) /\ Len(s) = Len(regs) - 1
           /\ \A j \in 1..Len(s) : s[j] = IF j < i THEN regs[j] ELSE regs[j + 1]
           /\ \E f : Sublist(s, regs, f)
           /\ \A r \in Listed(regs) : r # regs[i] => r \in Listed(s)
<1> DEFINE n == Len(regs)
           s == RemoveIndex(regs, i)
           f == [j \in 1..(n - 1) |-> IF j < i THEN j ELSE j + 1]
<1>1. n \in Nat /\ n >= 1 /\ \A j \in 1..n : regs[j] \in Region
  OBVIOUS
<1>2. s = [j \in 1..(n - 1) |-> IF j < i THEN regs[j] ELSE regs[j + 1]]
  BY DEF RemoveIndex
<1>3. \A j \in 1..(n - 1) : s[j] = (IF j < i THEN regs[j] ELSE regs[j + 1]) /\ s[j] \in Region
  BY <1>1, <1>2
<1> HIDE DEF s
<1>4. s \in Seq(Region) /\ Len(s) = n - 1
  <2>1. s \in [1..(n - 1) -> Region] /\ n - 1 \in Nat
    BY <1>1, <1>2, <1>3
  <2> QED
    BY <2>1
<1>5. Sublist(s, regs, f)
  BY <1>1, <1>3, <1>4 DEF Sublist
<1>6. ASSUME NEW r \in Listed(regs), r # regs[i] PROVE r \in Listed(s)
  <2>1. PICK j \in 1..n : r = regs[j]
    BY DEF Listed
  <2>2. CASE j < i
    <3>1. j \in 1..Len(s) /\ s[j] = r
      BY <1>1, <1>3, <1>4, <2>1, <2>2
    <3> QED
      BY <3>1 DEF Listed
  <2>3. CASE ~(j < i)
    <3>1. j # i
      BY <1>6, <2>1
    <3>2. j - 1 \in 1..Len(s) /\ ~(j - 1 < i) /\ (j - 1) + 1 = j
      BY <1>1, <1>4, <2>1, <2>3, <3>1
    <3>3. s[j - 1] = r
      BY <1>3, <1>4, <2>1, <3>2
    <3> QED
      BY <3>2, <3>3 DEF Listed
  <2> QED
    BY <2>2, <2>3
<1> QED
  BY <1>3, <1>4, <1>5, <1>6 DEF s

(* _remove_region leaves a part of the list, in order. *)
LEMMA RemoveRegion ==
    ASSUME NEW regs \in Seq(Region), NEW i \in 1..Len(regs)
    PROVE  LET s == _remove_region(regs, i) IN
           /\ s \in Seq(Region)
           /\ Listed(s) \subseteq Listed(regs)
           /\ Sorted(regs) => Sorted(s)
<1> DEFINE n == Len(regs)
<1>0. n \in Nat /\ \A j \in 1..n : regs[j] \in Region
  OBVIOUS
<1>1. CASE regs[1].addr = regs[i].addr
  <2>1. PICK s : s = SubSeq(regs, i + 1, n)
    OBVIOUS
  <2>2. s \in Seq(Region) /\ Len(s) = n - i /\ \A j \in 1..Len(s) : s[j] = regs[j + i]
    BY <1>0, <2>1
  <2>3. Sublist(s, regs, [j \in 1..(n - i) |-> j + i])
    BY <1>0, <2>2 DEF Sublist
  <2>4. _remove_region(regs, i) = s
    BY <1>1, <2>1 DEF _remove_region
  <2> QED
    BY <2>2, <2>3, <2>4, SublistSorted
<1>2. CASE regs[1].addr # regs[i].addr /\ regs[n].addr = regs[i].addr
  <2>1. PICK s : s = SubSeq(regs, 1, i - 1)
    OBVIOUS
  <2>2. s \in Seq(Region) /\ Len(s) = i - 1 /\ \A j \in 1..Len(s) : s[j] = regs[j]
    BY <1>0, <2>1
  <2>3. Sublist(s, regs, [j \in 1..(i - 1) |-> j])
    BY <1>0, <2>2 DEF Sublist
  <2>4. _remove_region(regs, i) = s
    BY <1>2, <2>1 DEF _remove_region
  <2> QED
    BY <2>2, <2>3, <2>4, SublistSorted
<1>3. CASE regs[1].addr # regs[i].addr /\ regs[n].addr # regs[i].addr
  <2>1. PICK s : s = RemoveIndex(regs, i)
    OBVIOUS
  <2>2. s \in Seq(Region) /\ \E f : Sublist(s, regs, f)
    BY <2>1, RemoveIndexFacts
  <2>3. _remove_region(regs, i) = s
    BY <1>3, <2>1 DEF _remove_region
  <2> QED
    BY <2>2, <2>3, SublistSorted
<1> QED
  BY <1>1, <1>2, <1>3

(* _find_region finds the first region that contains the address or the byte in
   front of it. *)
Touches(r, addr) == r.addr <= addr /\ addr <= End(r)

LEMMA FindRegion ==
    ASSUME NEW a, a.regs \in Seq(Region), NEW addr
    PROVE  LET i == _find_region(a, addr) IN
           /\ i \in 0..Len(a.regs)
           /\ i = 0 => \A r \in Listed(a.regs) : ~Touches(r, addr)
           /\ i # 0 => /\ i \in 1..Len(a.regs) /\ Touches(a.regs[i], addr)
                       /\ a.regs[i] \in Listed(a.regs) /\ a.regs[i] \in Region
                       /\ \A j \in 1..Len(a.regs) : j < i => ~Touches(a.regs[j], addr)
<1> DEFINE found == {i \in 1..Len(a.regs) : Touches(a.regs[i], addr)}
           i == _find_region(a, addr)
<1>1. i = IF found = {} THEN 0 ELSE Min(found)
  BY DEF _find_region, Touches
<1>2. CASE found = {}
  <2>1. i = 0
    BY <1>1, <1>2
  <2>2. \A r \in Listed(a.regs) : ~Touches(r, addr)
    BY <1>2 DEF Listed
  <2> QED
    BY <2>1, <2>2
<1>3. CASE found # {}
  <2>1. found \in SUBSET Nat
    OBVIOUS
  <2>2. i \in found /\ \A j \in found : i <= j
    BY <1>1, <1>3, <2>1, MinIs
  <2> HIDE DEF i
  <2>3. i \in 1..Len(a.regs) /\ Touches(a.regs[i], addr)
    BY <2>2
  <2>4. \A j \in 1..Len(a.regs) : j < i => ~Touches(a.regs[j], addr)
    BY <2>2, <2>3
  <2>5. a.regs[i] \in Listed(a.regs) /\ a.regs[i] \in Region
    BY <2>3 DEF Listed
  <2> QED
    BY <2>3, <2>4, <2>5 DEF i
<1> QED
  BY <1>2, <1>3

(* What _is_area_free found out: the region in front of which the area ends, or
   that the area lies behind all regions.  The regions before begin before it. *)
FreeBefore(regs, addr, top, m) ==
    /\ addr <= regs[m].addr /\ top <= regs[m].addr
    /\ \A j \in 1..Len(regs) : j < m => regs[j].addr < addr

LEMMA AreaFree ==
    ASSUME NEW a, a.regs \in Seq(Region), NEW addr \in Nat, NEW size \in Nat, _is_area_free(a, addr, size)
    PROVE  LET top == (addr + size) % Word
               regs == a.regs IN
           \/ regs = <<>>
           \/ regs # <<>> /\ End(regs[Len(regs)]) <= addr /\ top <= VM_USER_END
           \/ \E m \in 1..Len(regs) : FreeBefore(regs, addr, top, m)
<1> DEFINE top == (addr + size) % Word
           regs == a.regs
           behind == {i \in 1..Len(regs) : addr <= regs[i].addr}
<1>1. IF regs = <<>> THEN TRUE
      ELSE IF addr >= End(regs[Len(regs)]) THEN top <= VM_USER_END
      ELSE IF behind = {} THEN FALSE
      ELSE top <= regs[Min(behind)].addr
  BY DEF _is_area_free
<1>2. \A i \in 1..Len(regs) : regs[i] \in Region
  OBVIOUS
<1>3. ASSUME NEW i \in 1..Len(regs) PROVE regs[i].addr \in Nat /\ End(regs[i]) \in Nat
  BY <1>2, EndIsNat
<1>4. CASE regs = <<>>
  BY <1>4
<1>5. CASE regs # <<>> /\ addr >= End(regs[Len(regs)])
  <2>1. Len(regs) \in 1..Len(regs)
    BY <1>5
  <2> QED
    BY <1>1, <1>3, <1>5, <2>1
<1>6. CASE regs # <<>> /\ ~(addr >= End(regs[Len(regs)]))
  <2>1. behind # {} /\ top <= regs[Min(behind)].addr
    BY <1>1, <1>6
  <2>2. behind \in SUBSET Nat
    OBVIOUS
  <2>3. PICK m : m = Min(behind)
    OBVIOUS
  <2>4. m \in behind /\ \A j \in behind : m <= j
    BY <2>1, <2>2, <2>3, MinIs
  <2>5. \A j \in 1..Len(regs) : j < m => regs[j].addr < addr
    BY <1>3, <2>4
  <2>6. m \in 1..Len(regs) /\ addr <= regs[m].addr
    BY <2>4
  <2>7. FreeBefore(regs, addr, top, m)
    BY <2>1, <2>3, <2>5, <2>6 DEF FreeBefore
  <2> QED
    BY <2>6, <2>7, Zenon
<1> QED
  BY <1>4, <1>5, <1>6
-----------------------------------------------------------------------------
(* Handing out the lowest frames *)

(* How many elements of S are not above x. *)
Rank(S, x) == Cardinality({y \in S : y <= x})

LEMMA RankIs ==
    ASSUME NEW S \in SUBSET Int, IsFiniteSet(S)
    PROVE  /\ Cardinality(S) \in Nat
           /\ \A x \in S : Rank(S, x) \in 1..Cardinality(S)
           /\ \A x, y \in S : x < y => Rank(S, x) < Rank(S, y)
<1> DEFINE Low(x) == {y \in S : y <= x}
<1>1. Cardinality(S) \in Nat
  BY FS_CardinalityType
<1>2. ASSUME NEW x \in S
      PROVE  IsFiniteSet(Low(x)) /\ Cardinality(Low(x)) \in Nat /\ Cardinality(Low(x)) <= Cardinality(S) /\ x \in Low(x)
  <2>1. Low(x) \in SUBSET S /\ x \in Low(x)
    OBVIOUS
  <2> HIDE DEF Low
  <2>2. IsFiniteSet(Low(x)) /\ Cardinality(Low(x)) <= Cardinality(S)
    BY <2>1, FS_Subset
  <2> QED
    BY <2>1, <2>2, FS_CardinalityType
<1>3. ASSUME NEW x \in S PROVE Rank(S, x) \in 1..Cardinality(S)
  <2>1. Cardinality(Low(x)) # 0
    <3>1. Low(x) # {} /\ IsFiniteSet(Low(x))
      BY <1>2
    <3> HIDE DEF Low
    <3> QED
      BY <3>1, FS_EmptySet
  <2>2. Rank(S, x) = Cardinality(Low(x))
    BY DEF Rank
  <2> HIDE DEF Low
  <2> QED
    BY <1>1, <1>2, <2>1, <2>2
<1>4. ASSUME NEW x \in S, NEW y \in S, x < y PROVE Rank(S, x) < Rank(S, y)
  <2>0. x \in Int /\ y \in Int
    OBVIOUS
  <2>1. Low(x) \in SUBSET Low(y) /\ y \in Low(y) /\ y \notin Low(x)
    <3>1. ASSUME NEW z \in Low(x) PROVE z \in Low(y)
      <4>1. z \in S /\ z \in Int /\ z <= x
        OBVIOUS
      <4> QED
        BY <1>4, <2>0, <4>1
    <3>2. y \in Low(y) /\ y \notin Low(x)
      BY <1>4, <2>0
    <3> HIDE DEF Low
    <3> QED
      BY <3>1, <3>2
  <2>2. Low(x) # Low(y)
    BY <2>1
  <2>3. Rank(S, x) = Cardinality(Low(x)) /\ Rank(S, y) = Cardinality(Low(y))
    BY DEF Rank
  <2>4. IsFiniteSet(Low(y)) /\ Cardinality(Low(x)) \in Nat /\ Cardinality(Low(y)) \in Nat
    BY <1>2
  <2> HIDE DEF Low
  <2>5. Cardinality(Low(x)) <= Cardinality(Low(y)) /\ Cardinality(Low(x)) # Cardinality(Low(y))
    BY <2>1, <2>2, <2>4, FS_Subset
  <2> QED
    BY <2>3, <2>4, <2>5
<1> QED
  BY <1>1, <1>3, <1>4

(* Every rank is taken. *)
LEMMA RankTaken ==
    ASSUME NEW S \in SUBSET Int, IsFiniteSet(S), NEW k \in 1..Cardinality(S)
    PROVE  \E x \in S : Rank(S, x) = k
<1> DEFINE n == Cardinality(S)
           f == [x \in S |-> Rank(S, x)]
<1>1. n \in Nat /\ (\A x \in S : Rank(S, x) \in 1..n) /\ \A x, y \in S : x < y => Rank(S, x) < Rank(S, y)
  BY RankIs
<1>2. f \in [S -> 1..n]
  BY <1>1
<1>3. ASSUME NEW x \in S, NEW y \in S, f[x] = f[y] PROVE x = y
  <2>1. x \in Int /\ y \in Int /\ Rank(S, x) = Rank(S, y) /\ Rank(S, x) \in Nat
    BY <1>1, <1>3
  <2>2. ~(x < y) /\ ~(y < x)
    BY <1>1, <2>1
  <2> QED
    BY <2>1, <2>2
<1>4. f \in Injection(S, 1..n)
  <2> HIDE DEF f, n
  <2> QED
    BY <1>2, <1>3 DEF Injection, IsInjective
<1>5. IsFiniteSet(1..n) /\ Cardinality(1..n) = n
  BY <1>1, FS_Interval
<1>6. f \in Surjection(S, 1..n)
  <2> HIDE DEF f
  <2> QED
    BY <1>4, <1>5, FS_Injection
<1>7. PICK x \in S : f[x] = k
  <2> HIDE DEF f, n
  <2>1. k \in 1..n
    BY DEF n
  <2> QED
    BY <1>6, <2>1 DEF Surjection
<1> QED
  BY <1>7

(* The k-th of n frames is one of the lowest n, and no other one is. *)
LEMMA NthIs ==
    ASSUME NEW S \in SUBSET Int, IsFiniteSet(S), NEW n \in Nat, n <= Cardinality(S), NEW k \in 1..n
    PROVE  /\ Nth(S, k) \in S /\ Nth(S, k) \in Lowest(S, n)
           /\ Rank(S, Nth(S, k)) = k
<1>1. Cardinality(S) \in Nat
  BY FS_CardinalityType
<1>2. k \in 1..Cardinality(S)
  BY <1>1
<1>3. \E x \in S : Rank(S, x) = k
  BY <1>2, RankTaken
<1>4. Nth(S, k) = CHOOSE x \in S : Rank(S, x) = k
  BY DEF Nth, Rank
<1>5. PICK x : x = Nth(S, k)
  OBVIOUS
<1>6. x \in S /\ Rank(S, x) = k
  BY <1>3, <1>4, <1>5
<1>7. x \in Lowest(S, n)
  BY <1>6 DEF Lowest, Rank
<1> QED
  BY <1>5, <1>6, <1>7

-----------------------------------------------------------------------------
(* Page tables *)

Table == [UserPages -> Entry]

LEMMA EntryIs ==
    /\ Absent \in Entry
    /\ \A f \in Frames \cup {0}, rw \in BOOLEAN :
          [frame |-> f, rw |-> rw] \in Entry /\ [frame |-> f, rw |-> rw] # Absent
    /\ \A e \in Entry : e # Absent => e.frame \in Frames \cup {0} /\ e.frame \in Nat /\ e.rw \in BOOLEAN
<1>1. Frames \subseteq Nat
  BY VmmAssumption
<1>2. ASSUME NEW f \in Frames \cup {0}, NEW rw \in BOOLEAN
      PROVE  [frame |-> f, rw |-> rw] \in Entry /\ [frame |-> f, rw |-> rw] # Absent
  <2>1. f \in Nat
    BY <1>1
  <2>2. [frame |-> f, rw |-> rw] \in Entry
    BY DEF Entry
  <2>3. [frame |-> f, rw |-> rw].frame # Absent.frame
    BY <2>1 DEF Absent
  <2> QED
    BY <2>2, <2>3
<1>3. ASSUME NEW e \in Entry, e # Absent
      PROVE  e.frame \in Frames \cup {0} /\ e.frame \in Nat /\ e.rw \in BOOLEAN
  <2>1. e \in [frame : Frames \cup {0}, rw : BOOLEAN]
    BY <1>3 DEF Entry
  <2>2. e.frame \in Frames \cup {0}
    BY <2>1
  <2>3. e.rw \in BOOLEAN
    BY <2>1, Zenon
  <2>4. e.frame \in Nat
    <3>1. Frames \cup {0} \subseteq Nat
      BY <1>1
    <3> QED
      BY <2>2, <3>1, Zenon
  <2> QED
    BY <2>2, <2>3, <2>4, Zenon
<1>4. Absent \in Entry
  BY DEF Entry
<1> QED
  BY <1>2, <1>3, <1>4

(* Frames and pages are finitely many numbers. *)
LEMMA FreeFinite ==
    /\ IsFiniteSet(UserPages) /\ UserPages \subseteq Nat
    /\ \A fr \in SUBSET (Frames \cup {0}) : fr \in SUBSET Int /\ fr \in SUBSET Nat /\ IsFiniteSet(fr)
<1>1. IsFiniteSet(UserPages) /\ UserPages \subseteq Nat
  <2>1. (VM_USER_END - 1) \div PAGE_SIZE \in Int
    BY Machine
  <2> QED
    BY <2>1, FS_Interval DEF UserPages
<1>2. IsFiniteSet(Frames \cup {0}) /\ Frames \cup {0} \subseteq Nat
  BY VmmAssumption, FS_AddElement
<1>3. ASSUME NEW fr \in SUBSET (Frames \cup {0}) PROVE fr \in SUBSET Int /\ fr \in SUBSET Nat /\ IsFiniteSet(fr)
  BY <1>2, FS_Subset
<1> QED
  BY <1>1, <1>3

(* What mapping pages does to a page table and the free frames: what was present
   keeps its frame, what was not gets frames of its own. *)
Gains(pt, fr, pt2, fr2) ==
    /\ fr2 \subseteq fr
    /\ \A p \in UserPages : pt[p] # Absent => pt2[p] # Absent /\ pt2[p].frame = pt[p].frame
    /\ \A p \in UserPages : pt[p] = Absent /\ pt2[p] # Absent => pt2[p].frame \in fr \ fr2
    /\ \A p, q \in UserPages : /\ pt[p] = Absent /\ pt2[p] # Absent
                               /\ pt[q] = Absent /\ pt2[q] # Absent
                               /\ pt2[p].frame = pt2[q].frame
                               => p = q

LEMMA GainsNothing ==
    ASSUME NEW pt, NEW fr, NEW fr2 \in SUBSET fr
    PROVE  Gains(pt, fr, pt, fr2)
BY DEF Gains

(* The table that vmm_mmap_at leaves when it has mapped the pages `done'. *)
NewTable(pt, fr, done, new, rw) ==
    [p \in UserPages |-> IF p \in done
                         THEN [frame |-> IF p \in new THEN Nth(fr, Rank(new, p)) ELSE pt[p].frame, rw |-> rw]
                         ELSE pt[p]]

Lacks(pt, done, new) == \A p \in UserPages : p \in done => (pt[p] = Absent <=> p \in new)

Maps(pt, pt2, done, rw) ==
    /\ \A p \in UserPages : p \in done => pt2[p] # Absent /\ pt2[p].rw = rw
    /\ \A p \in UserPages : p \notin done => pt2[p] = pt[p]

LEMMA NewTableIs ==
    ASSUME NEW pt \in Table, NEW fr \in SUBSET (Frames \cup {0}), NEW done, NEW rw \in BOOLEAN,
           NEW new \in SUBSET UserPages, Lacks(pt, done, new),
           Cardinality(new) <= Cardinality(fr), NEW pt2, pt2 = NewTable(pt, fr, done, new, rw)
    PROVE  /\ pt2 \in Table
           /\ Gains(pt, fr, pt2, fr \ Lowest(fr, Cardinality(new)))
           /\ Maps(pt, pt2, done, rw)
<1>1. pt2 = NewTable(pt, fr, done, new, rw)
  OBVIOUS
<1>2. PICK n : n = Cardinality(new)
  OBVIOUS
<1>3. IsFiniteSet(fr) /\ fr \in SUBSET Int /\ IsFiniteSet(new) /\ new \in SUBSET Int /\ n \in Nat
  <2>1. IsFiniteSet(fr) /\ fr \in SUBSET Int
    BY FreeFinite
  <2>2. IsFiniteSet(UserPages) /\ new \in SUBSET Int
    BY FreeFinite
  <2>3. IsFiniteSet(new)
    BY <2>2, FS_Subset
  <2>4. Cardinality(new) \in Nat
    BY <2>3, FS_CardinalityType
  <2> QED
    BY <1>2, <2>1, <2>2, <2>3, <2>4
<1>4. ASSUME NEW p \in new
      PROVE  /\ Rank(new, p) \in 1..n
             /\ Nth(fr, Rank(new, p)) \in fr /\ Nth(fr, Rank(new, p)) \in Lowest(fr, n)
             /\ Rank(fr, Nth(fr, Rank(new, p))) = Rank(new, p)
  <2>1. Rank(new, p) \in 1..n
    BY <1>2, <1>3, RankIs
  <2> QED
    BY <1>2, <1>3, <2>1, NthIs
<1>5. ASSUME NEW p \in new, NEW q \in new, Nth(fr, Rank(new, p)) = Nth(fr, Rank(new, q)) PROVE p = q
  <2>1. Rank(new, p) = Rank(new, q) /\ Rank(new, p) \in Int
    BY <1>4, <1>5
  <2>2. p \in Int /\ q \in Int
    BY <1>3
  <2>3. ~(p < q) /\ ~(q < p)
    BY <1>3, <2>1, RankIs
  <2> QED
    BY <2>2, <2>3
<1>6. ASSUME NEW p \in UserPages, p \in done, p \in new
      PROVE  pt2[p].frame = Nth(fr, Rank(new, p)) /\ pt2[p] # Absent /\ pt2[p].rw = rw /\ pt2[p] \in Entry
             /\ pt2[p].frame \in fr \cap Lowest(fr, n)
  <2>1. pt2[p] = [frame |-> Nth(fr, Rank(new, p)), rw |-> rw]
    BY <1>1, <1>6 DEF NewTable
  <2>2. Nth(fr, Rank(new, p)) \in fr \cap Lowest(fr, n) /\ Nth(fr, Rank(new, p)) \in Frames \cup {0}
    BY <1>4, <1>6
  <2>3. pt2[p] \in Entry /\ pt2[p] # Absent
    BY <2>1, <2>2, EntryIs
  <2> QED
    BY <2>1, <2>2, <2>3
<1>7. ASSUME NEW p \in UserPages, p \in done, p \notin new
      PROVE  pt2[p].frame = pt[p].frame /\ pt2[p] # Absent /\ pt2[p].rw = rw /\ pt2[p] \in Entry /\ pt[p] # Absent
  <2>1. pt2[p] = [frame |-> pt[p].frame, rw |-> rw]
    BY <1>1, <1>7 DEF NewTable
  <2>2. pt[p] \in Entry /\ pt[p] # Absent
    BY <1>7 DEF Table, Lacks
  <2>3. pt[p].frame \in Frames \cup {0}
    BY <2>2, EntryIs
  <2>4. pt2[p] \in Entry /\ pt2[p] # Absent
    BY <2>1, <2>3, EntryIs
  <2> QED
    BY <2>1, <2>2, <2>4
<1>8. ASSUME NEW p \in UserPages, p \notin done
      PROVE  pt2[p] = pt[p] /\ pt2[p] \in Entry
  BY <1>1, <1>8 DEF NewTable, Table
<1>9. pt2 \in Table
  <2>1. pt2 = [p \in UserPages |-> pt2[p]]
    BY <1>1 DEF NewTable
  <2>2. \A p \in UserPages : pt2[p] \in Entry
    BY <1>6, <1>7, <1>8
  <2> QED
    BY <2>1, <2>2 DEF Table
<1>10. ASSUME NEW p \in UserPages, pt[p] # Absent PROVE pt2[p] # Absent /\ pt2[p].frame = pt[p].frame
  BY <1>7, <1>8, <1>10 DEF Lacks
<1>11. ASSUME NEW p \in UserPages, pt[p] = Absent, pt2[p] # Absent PROVE p \in done /\ p \in new
  BY <1>8, <1>11 DEF Lacks
<1>12. ASSUME NEW p \in UserPages, pt[p] = Absent, pt2[p] # Absent
       PROVE  pt2[p].frame \in fr \ (fr \ Lowest(fr, n))
  BY <1>6, <1>11, <1>12
<1>13. ASSUME NEW p \in UserPages, NEW q \in UserPages, pt[p] = Absent, pt2[p] # Absent,
              pt[q] = Absent, pt2[q] # Absent, pt2[p].frame = pt2[q].frame
       PROVE  p = q
  <2>1. p \in done /\ p \in new /\ q \in done /\ q \in new
    BY <1>11, <1>13
  <2>2. Nth(fr, Rank(new, p)) = Nth(fr, Rank(new, q))
    BY <1>6, <1>13, <2>1
  <2> QED
    BY <1>5, <2>1, <2>2
<1>14. Gains(pt, fr, pt2, fr \ Lowest(fr, n))
  BY <1>10, <1>12, <1>13 DEF Gains
<1>15. \A p \in UserPages : p \in done => pt2[p] # Absent /\ pt2[p].rw = rw
  BY <1>6, <1>7
<1>16. Maps(pt, pt2, done, rw)
  BY <1>8, <1>15 DEF Maps
<1> QED
  BY <1>2, <1>9, <1>14, <1>16
-----------------------------------------------------------------------------
(* vmm_mmap_at *)

LEMMA SpaceIs ==
    ASSUME NEW a \in Space
    PROVE  /\ a.regs \in Seq(Region) /\ a.pt \in Table /\ a.elf_end \in Nat /\ a.data_end \in Nat
           /\ a.stack_end \in Nat /\ a.page_counter \in Int /\ a.tables \in SUBSET Nat /\ a.pd \in Frames \cup {0}
BY DEF Space, Table

(* The heap, the stack and the directory are where they were. *)
SameEnds(a, b) == b.elf_end = a.elf_end /\ b.data_end = a.data_end /\ b.stack_end = a.stack_end /\ b.pd = a.pd

LEMMA SpaceWithTable ==
    ASSUME NEW a \in Space, NEW pt \in Table, NEW b, b = [a EXCEPT !.pt = pt]
    PROVE  b \in Space /\ b.regs = a.regs /\ b.pt = pt /\ SameEnds(a, b)
BY DEF Space, Table, SameEnds

Outcomes == {"ok", "nothing", "ENOMEM", "EIO", "EINVAL", "panic", "corrupt", "wrapped"}
Results == [st : Outcomes, a : Space, free : SUBSET (Frames \cup {0}), ret : Nat]

(* What mmap_area returns: a new region and its pages, some pages, or nothing. *)
Mapping(m, a, fr, addr, size, asize, rw, avail) ==
    /\ m \in Results
    /\ SameEnds(a, m.a)
    /\ Gains(a.pt, fr, m.a.pt, m.free)
    /\ m.st # "ok" => m.a.regs = a.regs
    /\ m.st \notin {"ok", "EIO"} => m.a = a /\ m.free = fr
    /\ m.st = "nothing" => size = 0
    /\ m.st \notin {"EINVAL", "wrapped"} /\ (m.st = "EIO" => avail < size)
    /\ m.st = "ENOMEM" => addr = 0 \/ ~_is_area_free(a, addr, asize)
    /\ m.st \in {"ok", "corrupt"} => addr # 0 /\ size # 0 /\ _is_area_free(a, addr, asize)
    /\ m.st = "corrupt" => ~(PagesOf(addr, size) \subseteq UserPages)
    /\ m.st = "ok" => /\ m.ret = addr
                      /\ PagesOf(addr, size) \subseteq UserPages
                      /\ m.a.regs = _insert_region(a.regs, [addr |-> addr, size |-> asize, rw |-> rw])
                      /\ \A p \in PagesOf(addr, size) : m.a.pt[p] # Absent /\ m.a.pt[p].rw = rw
    /\ \A p \in UserPages : p \notin PagesOf(addr, size) => m.a.pt[p] = a.pt[p]

(* A result that leaves everything alone. *)
LEMMA MapsNothing ==
    ASSUME NEW a \in Space, NEW fr \in SUBSET (Frames \cup {0}), NEW addr, NEW size, NEW asize, NEW rw, NEW avail,
           NEW st \in Outcomes \ {"ok", "EIO", "EINVAL", "wrapped"}, st = "nothing" => size = 0,
           st = "ENOMEM" => addr = 0 \/ ~_is_area_free(a, addr, asize),
           st = "corrupt" => /\ addr # 0 /\ size # 0 /\ _is_area_free(a, addr, asize)
                             /\ ~(PagesOf(addr, size) \subseteq UserPages)
    PROVE  Mapping(Result(st, a, fr, 0), a, fr, addr, size, asize, rw, avail)
<1>1. PICK m : m = Result(st, a, fr, 0)
  OBVIOUS
<1>2. m \in Results /\ m.st = st /\ m.a = a /\ m.free = fr
  BY <1>1 DEF Result, Results
<1>3. Gains(a.pt, fr, m.a.pt, m.free)
  BY <1>2, GainsNothing
<1>4. SameEnds(a, m.a)
  BY <1>2 DEF SameEnds
<1>5. st # "ok" /\ st # "EIO" /\ st # "EINVAL" /\ st # "wrapped" /\ (st = "nothing" => size = 0)
      /\ (st = "ENOMEM" => addr = 0 \/ ~_is_area_free(a, addr, asize))
      /\ (st = "corrupt" => addr # 0 /\ size # 0 /\ _is_area_free(a, addr, asize) /\ ~(PagesOf(addr, size) \subseteq UserPages))
  OBVIOUS
<1>6. Mapping(m, a, fr, addr, size, asize, rw, avail)
  BY <1>2, <1>3, <1>4, <1>5 DEF Mapping
<1> QED
  BY <1>1, <1>6, Zenon

(* A page of the area begins before its end. *)
LEMMA PageInArea ==
    ASSUME NEW addr \in Nat, NEW size \in Nat, NEW p \in PagesOf(addr, size)
    PROVE  size # 0 /\ p \in Nat /\ p * PAGE_SIZE < addr + size
<1>1. size # 0 /\ p \in Page(addr)..Page(addr + size - 1)
  BY DEF PagesOf
<1>2. addr + size - 1 \in Nat
  BY <1>1
<1>3. Page(addr) \in Nat /\ Page(addr + size - 1) \in Nat /\ PAGE_SIZE * Page(addr + size - 1) <= addr + size - 1
  BY <1>2, PageIs
<1>4. PAGE_SIZE \in Nat /\ p \in Nat /\ p <= Page(addr + size - 1)
  BY <1>1, <1>3, Machine
<1>5. PAGE_SIZE * p <= PAGE_SIZE * Page(addr + size - 1)
  BY <1>3, <1>4
<1>6. p * PAGE_SIZE = PAGE_SIZE * p /\ PAGE_SIZE * p \in Nat
  BY <1>4
<1> QED
  BY <1>1, <1>2, <1>3, <1>4, <1>5, <1>6

LEMMA MmapArea ==
    ASSUME NEW a \in Space, NEW fr \in SUBSET (Frames \cup {0}), NEW addr \in Nat, NEW size \in Nat, NEW asize \in Nat,
           NEW rw \in BOOLEAN, NEW avail \in Nat
    PROVE  Mapping(mmap_area(a, fr, addr, size, asize, rw, avail), a, fr, addr, size, asize, rw, avail)
<1> DEFINE pages == PagesOf(addr, size)
           offset(p) == IF p * PAGE_SIZE <= addr THEN 0 ELSE p * PAGE_SIZE - addr
           failed == {p \in pages : offset(p) >= avail}
           reached == {p \in pages : failed = {} \/ p <= Min(failed)}
           new == {p \in reached : a.pt[p] = Absent}
           done == reached \ failed
           pt == NewTable(a.pt, fr, done, new, rw)
           fr2 == fr \ Lowest(fr, Cardinality(new))
           reg == [addr |-> addr, size |-> asize, rw |-> rw]
           no == addr = 0 \/ ~_is_area_free(a, addr, asize)
<1>0. mmap_area(a, fr, addr, size, asize, rw, avail) =
        IF no THEN Result("ENOMEM", a, fr, 0)
        ELSE IF size = 0 THEN Result("nothing", a, fr, 0)
        ELSE IF ~(reached \subseteq UserPages) THEN Result("corrupt", a, fr, 0)
        ELSE IF Cardinality(fr) < Cardinality(new) THEN Result("panic", a, fr, 0)
        ELSE IF failed # {} THEN Result("EIO", [a EXCEPT !.pt = pt], fr2, 0)
        ELSE Result("ok", [a EXCEPT !.pt = pt, !.regs = _insert_region(@, reg),
                                    !.page_counter = @ + Cardinality(new)], fr2, addr)
  BY DEF mmap_area, NewTable, Rank
<1>a. reached \subseteq pages /\ new \subseteq reached /\ done \subseteq reached
  OBVIOUS
<1>b. failed # {} => avail < size
  <2> SUFFICES ASSUME NEW p \in failed PROVE avail < size
    OBVIOUS
  <2>1. p \in pages /\ offset(p) >= avail
    OBVIOUS
  <2>2. size # 0 /\ p \in Nat /\ p * PAGE_SIZE < addr + size
    BY <2>1, PageInArea
  <2>3. PAGE_SIZE \in Nat
    BY Machine
  <2> QED
    BY <2>1, <2>2, <2>3
<1>c. failed = {} => reached = pages /\ done = pages
  OBVIOUS
<1>d. PICK m : m = mmap_area(a, fr, addr, size, asize, rw, avail)
  OBVIOUS
<1>1. CASE no
  <2>1. m = Result("ENOMEM", a, fr, 0)
    BY <1>0, <1>1, <1>d
  <2> QED
    BY <1>1, <1>d, <2>1, MapsNothing DEF Outcomes
<1>2. CASE ~no /\ size = 0
  <2>1. m = Result("nothing", a, fr, 0)
    BY <1>0, <1>2, <1>d
  <2> QED
    BY <1>2, <1>d, <2>1, MapsNothing DEF Outcomes
<1>3. CASE ~no /\ size # 0 /\ ~(reached \subseteq UserPages)
  <2>1. m = Result("corrupt", a, fr, 0)
    BY <1>0, <1>3, <1>d
  <2>2. ~(pages \subseteq UserPages)
    BY <1>3, <1>a
  <2> QED
    BY <1>3, <1>d, <2>1, <2>2, MapsNothing DEF Outcomes
<1>4. CASE ~no /\ size # 0 /\ reached \subseteq UserPages /\ Cardinality(fr) < Cardinality(new)
  <2>1. m = Result("panic", a, fr, 0)
    BY <1>0, <1>4, <1>d
  <2> QED
    BY <1>d, <2>1, MapsNothing DEF Outcomes
<1>5. CASE ~no /\ size # 0 /\ reached \subseteq UserPages /\ ~(Cardinality(fr) < Cardinality(new))
  <2>0. new \in SUBSET UserPages /\ Lacks(a.pt, done, new)
    BY <1>5, <1>a DEF Lacks
  <2>1. Cardinality(new) \in Nat /\ Cardinality(new) <= Cardinality(fr)
    <3> HIDE DEF new
    <3>1. IsFiniteSet(new) /\ IsFiniteSet(fr)
      BY <2>0, FreeFinite, FS_Subset
    <3>2. Cardinality(new) \in Nat /\ Cardinality(fr) \in Nat
      BY <3>1, FS_CardinalityType
    <3> QED
      BY <1>5, <3>2
  <2>2. a.pt \in Table /\ a.regs \in Seq(Region) /\ a.page_counter \in Int
    BY SpaceIs
  <2>3. pt \in Table /\ Gains(a.pt, fr, pt, fr2) /\ Maps(a.pt, pt, done, rw)
    <3> HIDE DEF new, done, fr2, pt
    <3>1. pt = NewTable(a.pt, fr, done, new, rw) /\ fr2 = fr \ Lowest(fr, Cardinality(new))
      BY DEF pt, fr2
    <3> QED
      BY <3>1, <2>0, <2>1, <2>2, NewTableIs
  <2>4. \A p \in UserPages : p \notin pages => pt[p] = a.pt[p]
    BY <1>a, <2>3 DEF Maps
  <2>5. fr2 \in SUBSET (Frames \cup {0})
    OBVIOUS
  <2>6. addr # 0 /\ _is_area_free(a, addr, asize)
    BY <1>5
  <2> HIDE DEF pt, fr2, done, new, reached, no, offset
  <2>7. CASE failed # {}
    <3>1. PICK b : b = [a EXCEPT !.pt = pt]
      OBVIOUS
    <3>2. m = Result("EIO", b, fr2, 0)
      BY <1>0, <1>5, <1>d, <2>7, <3>1
    <3>3. b \in Space /\ b.regs = a.regs /\ b.pt = pt /\ SameEnds(a, b)
      BY <2>3, <3>1, SpaceWithTable
    <3>4. m \in Results /\ m.st = "EIO" /\ m.a = b /\ m.free = fr2
      BY <2>5, <3>2, <3>3 DEF Result, Results, Outcomes
    <3>5. Mapping(m, a, fr, addr, size, asize, rw, avail)
      BY <1>b, <2>3, <2>4, <2>7, <3>3, <3>4 DEF Mapping
    <3> QED
      BY <1>d, <3>5, Zenon
  <2>8. CASE failed = {}
    <3>1. reg \in Region
      BY DEF Region
    <3>2. PICK regs : regs = _insert_region(a.regs, reg)
      OBVIOUS
    <3>3. regs \in Seq(Region)
      BY <2>2, <3>1, <3>2, InsertRegion
    <3>4. PICK c \in Int : c = a.page_counter + Cardinality(new)
      BY <2>1, <2>2
    <3>5. PICK b : b = [a EXCEPT !.pt = pt, !.regs = regs, !.page_counter = c]
      OBVIOUS
    <3>6. m = Result("ok", b, fr2, addr)
      BY <1>0, <1>5, <1>d, <2>8, <3>2, <3>4, <3>5
    <3>7. b \in Space /\ b.regs = regs /\ b.pt = pt /\ SameEnds(a, b)
      <4>1. pt \in Table
        BY <2>3
      <4> QED
        BY <3>3, <3>5, <4>1 DEF Space, Table, SameEnds
    <3>8. m \in Results /\ m.st = "ok" /\ m.a = b /\ m.free = fr2 /\ m.ret = addr
      BY <2>5, <3>6, <3>7 DEF Result, Results, Outcomes
    <3>9. pages \subseteq UserPages /\ \A p \in pages : pt[p] # Absent /\ pt[p].rw = rw
      BY <1>5, <1>c, <2>3, <2>8 DEF Maps
    <3>10. Mapping(m, a, fr, addr, size, asize, rw, avail)
      BY <1>5, <2>3, <2>4, <2>6, <3>2, <3>7, <3>8, <3>9 DEF Mapping
    <3> QED
      BY <1>d, <3>10, Zenon
  <2> QED
    BY <2>7, <2>8
<1> QED
  BY <1>1, <1>2, <1>3, <1>4, <1>5

(* The size of the region is a number, and positive for a positive size. *)
LEMMA AlignedSize ==
    ASSUME NEW addr \in Nat, NEW size \in Nat, NEW align \in Nat, align > 0
    PROVE  LET n == aligned_size(addr, size, align) IN
           /\ n \in Nat /\ (size = 0 => n = 0) /\ (size # 0 => n > 0)
           /\ n < size + align
           /\ (addr % align = 0 => n = RoundUp(size, align))
<1>1. addr % align \in 0..(align - 1) /\ size % align \in 0..(align - 1)
  BY DivMod
<1>2. RoundUp(size, align) \in Nat /\ size <= RoundUp(size, align) /\ RoundUp(size, align) < size + align
  BY RoundUpIs
<1>3. CASE size % align = 0
  BY <1>2, <1>3 DEF aligned_size, RoundUp
<1>4. CASE size % align # 0
  <2>1. RoundUp(size, align) = (size - (size % align)) + align
    BY <1>4 DEF RoundUp
  <2>2. size - (size % align) \in Nat
    <3>1. size \div align \in Int /\ size = align * (size \div align) + (size % align)
      BY DivMod
    <3>2. size \div align >= 0
      <4> SUFFICES ASSUME size \div align <= -1 PROVE FALSE
        BY <3>1
      <4>1. align * (size \div align) <= align * (-1)
        BY <3>1
      <4> QED
        BY <1>1, <3>1, <4>1
    <3> QED
      BY <1>1, <3>1, <3>2
  <2>3. aligned_size(addr, size, align) = RoundUp(size, align) - (addr % align)
    BY <1>4 DEF aligned_size
  <2>4. size # 0
    <3> SUFFICES ASSUME size = 0 PROVE FALSE
      OBVIOUS
    <3>1. 0 % align = 0
      <4>1. align * 0 <= 0 /\ 0 < align * 0 + align
        OBVIOUS
      <4>2. 0 % align = 0 - align * 0
        BY <4>1, DivIs
      <4> QED
        BY <4>2
    <3> QED
      BY <1>4, <3>1
  <2> QED
    BY <1>1, <1>2, <2>1, <2>2, <2>3, <2>4
<1> QED
  BY <1>3, <1>4

(* The search for a free area stays among the addresses it can go to, and ends
   at one of them: below 0, too low, or taken. *)
FoundAt(a, x, addr) ==
    addr = IF x < 0 THEN (x + Word) % Word ELSE IF x < a.data_end + PAGE_SIZE THEN 0 ELSE x

(* The run of the search. *)
Searches(f, a, size) ==
    f = [k \in 0..VM_USER_END |->
           IF k = 0 THEN a.stack_end - PAGE_SIZE - size ELSE search_round(a, size, f[k - 1])]

LEMMA SearchEnds ==
    ASSUME NEW a, NEW size, NEW f, Searches(f, a, size)
    PROVE  FoundAt(a, f[VM_USER_END], _find_free_area(a, size))
<1> DEFINE n == VM_USER_END
           at[k \in 0..VM_USER_END] ==
             IF k = 0 THEN a.stack_end - PAGE_SIZE - size ELSE search_round(a, size, at[k - 1])
<1>1. FoundAt(a, at[VM_USER_END], _find_free_area(a, size))
  BY Zenon DEF _find_free_area, FoundAt
<1>2. n \in Nat /\ n \in Int /\ 0 \in Int /\ n \in 0..n
  BY Machine
<1>5. f = [k \in 0..VM_USER_END |->
             IF k = 0 THEN a.stack_end - PAGE_SIZE - size ELSE search_round(a, size, f[k - 1])]
  BY DEF Searches
<1>6. at = [k \in 0..VM_USER_END |->
              IF k = 0 THEN a.stack_end - PAGE_SIZE - size ELSE search_round(a, size, at[k - 1])]
  BY <1>5, Zenon
<1> HIDE DEF at, n
<1>7. \A k \in 0..n : at[k] = f[k]
  <2>1. at[0] = f[0]
    BY <1>2, <1>5, <1>6 DEF n
  <2>2. ASSUME NEW k \in 0..n, k # 0, at[k - 1] = f[k - 1] PROVE at[k] = f[k]
    <3>1. k \in 0..VM_USER_END
      BY DEF n
    <3>2. f[k] = search_round(a, size, f[k - 1]) /\ at[k] = search_round(a, size, at[k - 1])
      BY <1>5, <1>6, <2>2, <3>1
    <3> QED
      BY <2>2, <3>2, Zenon
  <2>3. \A k \in 0..n : k # 0 /\ at[k - 1] = f[k - 1] => at[k] = f[k]
    BY <2>2
  <2>4. InStep(at, f, 0, n)
    BY <2>1, <2>3, Zenon DEF InStep
  <2>5. Agree(at, f, 0, n)
    BY <1>2, <2>4, SameSteps
  <2> QED
    BY <2>5, Zenon DEF Agree
<1>8. at[n] = f[n]
  BY <1>2, <1>7
<1> QED
  BY <1>1, <1>8 DEF n

LEMMA SearchRuns ==
    ASSUME NEW a, NEW size, NEW I, a.stack_end - PAGE_SIZE - size \in I,
           \A x \in I : search_round(a, size, x) \in I
    PROVE  \E f : Searches(f, a, size) /\ f[VM_USER_END] \in I
<1> DEFINE start == a.stack_end - PAGE_SIZE - size
           n == VM_USER_END
           S == [k \in 0..n |-> I]
           G == [k \in 0..n |-> [x \in I |-> search_round(a, size, x)]]
<1>2. n \in Nat /\ n \in Int /\ 0 \in Int /\ n \in 0..n
  BY Machine
<1>3. PICK f : Runs(f, 0, n, start, G) /\ \A k \in 0..n : f[k] \in S[k]
  <2>1. start \in S[0]
    BY <1>2
  <2>2. ASSUME NEW k \in 0..n, k # 0, NEW x \in S[k - 1] PROVE G[k][x] \in S[k]
    <3>1. k - 1 \in 0..n /\ x \in I
      BY <1>2, <2>2
    <3>2. G[k][x] = search_round(a, size, x)
      BY <3>1
    <3> QED
      BY <3>1, <3>2
  <2> HIDE DEF G, S, n, start
  <2> QED
    BY <1>2, <2>1, <2>2, RunExists
<1>4. ASSUME NEW k \in 0..n
      PROVE  f[k] = (IF k = 0 THEN start ELSE search_round(a, size, f[k - 1])) /\ f[k] \in I
  <2>1. f[k] = IF k = 0 THEN start ELSE G[k][f[k - 1]]
    <3> HIDE DEF G, n, start
    <3> QED
      BY <1>3 DEF Runs
  <2>2. f[k] \in I
    BY <1>3
  <2>3. CASE k = 0
    BY <2>1, <2>2, <2>3
  <2>4. CASE k # 0
    <3>1. k - 1 \in 0..n
      BY <1>2, <2>4
    <3>2. f[k - 1] \in I
      BY <1>3, <3>1
    <3>3. G[k][f[k - 1]] = search_round(a, size, f[k - 1])
      BY <3>2
    <3> HIDE DEF G
    <3> QED
      BY <2>1, <2>2, <2>4, <3>3
  <2> QED
    BY <2>3, <2>4
<1>5. f = [k \in 0..VM_USER_END |->
             IF k = 0 THEN a.stack_end - PAGE_SIZE - size ELSE search_round(a, size, f[k - 1])]
  <2>1. f = [k \in 0..n |-> f[k]]
    <3> HIDE DEF G, n, start
    <3> QED
      BY <1>3 DEF Runs
  <2> QED
    BY <1>4, <2>1
<1>6. f[n] \in I
  BY <1>2, <1>4
<1>7. Searches(f, a, size)
  BY <1>5, Zenon DEF Searches
<1> QED
  BY <1>6, <1>7

LEMMA FindFree ==
    ASSUME NEW a, NEW size, NEW I, a.stack_end - PAGE_SIZE - size \in I,
           \A x \in I : search_round(a, size, x) \in I
    PROVE  \E x \in I : FoundAt(a, x, _find_free_area(a, size))
<1>1. PICK f : Searches(f, a, size) /\ f[VM_USER_END] \in I
  BY SearchRuns
<1> QED
  BY <1>1, SearchEnds

(* A round goes down by the size from an address or a region. *)
LEMMA SearchRound ==
    ASSUME NEW a \in Space, NEW size \in Nat, NEW x \in Int
    PROVE  LET y == search_round(a, size, x) IN
           \/ y = x
           \/ x >= a.data_end + PAGE_SIZE /\ y = x - size
           \/ x >= a.data_end + PAGE_SIZE /\ \E r \in Listed(a.regs) : Touches(r, x) /\ y = r.addr - size
<1>1. a.regs \in Seq(Region) /\ a.data_end \in Nat /\ PAGE_SIZE \in Nat
  BY SpaceIs, Machine
<1>2. PICK i : i = _find_region(a, x)
  OBVIOUS
<1>3. i # 0 => Touches(a.regs[i], x) /\ a.regs[i] \in Listed(a.regs)
  BY <1>1, <1>2, FindRegion
<1>4. PICK y : y = search_round(a, size, x)
  OBVIOUS
<1>5. y = IF x < a.data_end + PAGE_SIZE \/ _is_area_free(a, x, size) THEN x
          ELSE IF i = 0 THEN x - size ELSE a.regs[i].addr - size
  BY <1>2, <1>4 DEF search_round
<1>6. \/ y = x
      \/ x >= a.data_end + PAGE_SIZE /\ y = x - size
      \/ x >= a.data_end + PAGE_SIZE /\ i # 0 /\ y = a.regs[i].addr - size
  BY <1>1, <1>5
<1> QED
  BY <1>3, <1>4, <1>6

(* The addresses to which it can go. *)
Reach(size) == {x \in Int : x + size >= 0}

LEMMA SearchStays ==
    ASSUME NEW a \in Space, a.stack_end >= PAGE_SIZE, NEW size \in Nat
    PROVE  a.stack_end - PAGE_SIZE - size \in Reach(size) /\ \A x \in Reach(size) : search_round(a, size, x) \in Reach(size)
<1> DEFINE I == {x \in Int : x + size >= 0}
<1>1. a.regs \in Seq(Region) /\ a.data_end \in Nat /\ a.stack_end \in Nat /\ PAGE_SIZE \in Nat
  BY SpaceIs, Machine
<1>2. a.stack_end - PAGE_SIZE - size \in I
  BY <1>1
<1>3. ASSUME NEW x \in I PROVE search_round(a, size, x) \in I
  <2>1. x \in Int /\ x + size >= 0
    OBVIOUS
  <2>2. PICK y : y = search_round(a, size, x)
    OBVIOUS
  <2>3. \/ y = x
        \/ x >= a.data_end + PAGE_SIZE /\ y = x - size
        \/ \E r \in Listed(a.regs) : y = r.addr - size
    BY <2>1, <2>2, SearchRound
  <2>4. CASE y = x \/ (x >= a.data_end + PAGE_SIZE /\ y = x - size)
    BY <1>1, <2>1, <2>2, <2>4
  <2>5. CASE \E r \in Listed(a.regs) : y = r.addr - size
    <3>1. PICK r \in Listed(a.regs) : y = r.addr - size
      BY <2>5
    <3>2. r \in Region
      BY <1>1 DEF Listed
    <3>3. r.addr \in Nat
      BY <3>2, EndIsNat, Zenon
    <3> QED
      BY <2>2, <3>1, <3>3
  <2> QED
    BY <2>3, <2>4, <2>5
<1> QED
  BY <1>2, <1>3 DEF Reach

(* It is the same in spaces with the same regions and ends. *)
LEMMA SameSearch ==
    ASSUME NEW a \in Space, a.stack_end >= PAGE_SIZE, NEW b, b.regs = a.regs, SameEnds(a, b), NEW size \in Nat
    PROVE  _find_free_area(b, size) = _find_free_area(a, size)
<1>1. PICK f : Searches(f, a, size)
  BY SearchStays, SearchRuns
<1>2. b.regs = a.regs /\ b.data_end = a.data_end /\ b.stack_end = a.stack_end
  BY DEF SameEnds
<1>3. ASSUME NEW x PROVE search_round(b, size, x) = search_round(a, size, x)
  BY <1>2 DEF search_round, _find_region, _is_area_free
<1>4. Searches(f, b, size)
  BY <1>1, <1>2, <1>3 DEF Searches
<1>5. FoundAt(a, f[VM_USER_END], _find_free_area(a, size)) /\ FoundAt(b, f[VM_USER_END], _find_free_area(b, size))
  BY <1>1, <1>4, SearchEnds
<1> QED
  BY <1>2, <1>5 DEF FoundAt

(* The address of _find_free_area: none, one above the heap, or one from which
   the area goes over the end of memory. *)
LEMMA FindFreeArea ==
    ASSUME NEW a \in Space, a.stack_end >= PAGE_SIZE, NEW size \in Nat, size <= Word
    PROVE  LET addr == _find_free_area(a, size) IN
           addr \in Nat /\ (addr = 0 \/ addr >= a.data_end + PAGE_SIZE \/ addr + size >= Word)
<1> DEFINE I == Reach(size)
<1>1. a.regs \in Seq(Region) /\ a.data_end \in Nat /\ a.stack_end \in Nat /\ PAGE_SIZE \in Nat /\ Word \in Nat /\ Word > 0
  BY SpaceIs, Machine
<1>2. a.stack_end - PAGE_SIZE - size \in I /\ \A x \in I : search_round(a, size, x) \in I
  BY SearchStays
<1>4. PICK x \in I : FoundAt(a, x, _find_free_area(a, size))
  <2> HIDE DEF I
  <2> QED
    BY <1>2, FindFree
<1>5. x \in Int /\ x + size >= 0
  BY DEF Reach
<1>6. PICK addr : addr = _find_free_area(a, size)
  OBVIOUS
<1>7. addr = IF x < 0 THEN (x + Word) % Word ELSE IF x < a.data_end + PAGE_SIZE THEN 0 ELSE x
  BY <1>4, <1>6 DEF FoundAt
<1>8. CASE x < 0
  <2>1. x + Word \in Int /\ Word * 0 <= x + Word /\ x + Word < Word * 0 + Word
    BY <1>1, <1>5, <1>8
  <2>2. (x + Word) % Word = x + Word - Word * 0
    BY <1>1, <2>1, DivIs
  <2>3. addr = x + Word
    BY <1>1, <1>5, <1>7, <1>8, <2>2
  <2> QED
    BY <1>1, <1>5, <1>6, <1>8, <2>3
<1>9. CASE ~(x < 0)
  BY <1>1, <1>5, <1>6, <1>7, <1>9
<1> QED
  BY <1>8, <1>9

(* vmm_mmap_at, with the address and the size that it chooses. *)
LEMMA MmapAt ==
    ASSUME NEW a \in Space, NEW fr \in SUBSET (Frames \cup {0}), NEW hint \in Nat, NEW size \in Nat, NEW align \in Nat,
           NEW rw \in BOOLEAN, NEW avail \in Nat, NEW unit, unit = (IF align = 0 THEN PAGE_SIZE ELSE align),
           hint = 0 => a.stack_end >= PAGE_SIZE /\ align = 0 /\ size + PAGE_SIZE <= Word,
           NEW asize, asize = aligned_size(hint, size, unit),
           NEW addr, addr = (IF hint = 0 THEN _find_free_area(a, asize) ELSE hint),
           NEW m, m = vmm_mmap_at(a, fr, hint, size, align, rw, avail)
    PROVE  addr \in Nat /\ asize \in Nat /\ Mapping(m, a, fr, addr, size, asize, rw, avail)
<1>1. PAGE_SIZE \in Nat /\ PAGE_SIZE > 0 /\ Word \in Nat
  BY Machine
<1>2. unit \in Nat /\ unit > 0
  BY <1>1
<1>4. asize \in Nat /\ asize < size + unit
  BY <1>2, AlignedSize
<1>6. addr \in Nat
  <2>1. CASE hint = 0
    <3>1. asize <= Word
      BY <1>1, <1>4, <2>1
    <3>2. _find_free_area(a, asize) \in Nat
      BY <1>4, <2>1, <3>1, FindFreeArea
    <3> QED
      BY <2>1, <3>2
  <2>2. CASE hint # 0
    BY <2>2
  <2> QED
    BY <2>1, <2>2
<1>7. m = mmap_area(a, fr, addr, size, asize, rw, avail)
  BY DEF vmm_mmap_at
<1> QED
  BY <1>4, <1>6, <1>7, MmapArea

-----------------------------------------------------------------------------
(* vmm_munmap *)

Round0(a, fr) == [st |-> "ok", pt |-> a.pt, free |-> fr, twice |-> 0, ctr |-> 0]

Rounds == [st : {"ok", "panic", "corrupt"}, pt : Table, free : SUBSET (Frames \cup {0}), twice : Nat, ctr : Nat]

(* When each round leads from one set of states to the next, the loop ends in
   the last one. *)
LEMMA MunmapLoop ==
    ASSUME NEW a, NEW fr, NEW i, NEW addr, NEW n \in Nat, n = Cardinality(PagesOf(a.regs[i].addr, a.regs[i].size)),
           NEW S, Round0(a, fr) \in S[0],
           \A k \in 1..n : \A s \in S[k - 1] : munmap_round(a, i, addr, k, s) \in S[k]
    PROVE  munmap_loop(a, fr, i, addr) \in S[n]
<1> DEFINE start == [st |-> "ok", pt |-> a.pt, free |-> fr, twice |-> 0, ctr |-> 0]
           N == Cardinality(PagesOf(a.regs[i].addr, a.regs[i].size))
           round[k \in 0..N] == IF k = 0 THEN [st |-> "ok", pt |-> a.pt, free |-> fr, twice |-> 0, ctr |-> 0]
                                ELSE munmap_round(a, i, addr, k, round[k - 1])
           G == [k \in 0..n |-> [s \in S[k - 1] |-> munmap_round(a, i, addr, k, s)]]
<1>0. N = n
  OBVIOUS
<1>1. munmap_loop(a, fr, i, addr) = round[N]
  BY Zenon DEF munmap_loop
<1>2. n \in Int /\ 0 \in Int /\ n \in 0..n
  OBVIOUS
<1>3. PICK f : Runs(f, 0, n, start, G) /\ \A k \in 0..n : f[k] \in S[k]
  <2>1. start \in S[0]
    BY DEF Round0
  <2>2. ASSUME NEW k \in 0..n, k # 0, NEW s \in S[k - 1] PROVE G[k][s] \in S[k]
    <3>1. k \in 1..n
      BY <2>2
    <3>2. G[k][s] = munmap_round(a, i, addr, k, s)
      OBVIOUS
    <3> HIDE DEF G
    <3> QED
      BY <3>1, <3>2
  <2> HIDE DEF G, start
  <2> QED
    BY <1>2, <2>1, <2>2, RunExists
<1>4. ASSUME NEW k \in 0..n
      PROVE  f[k] = (IF k = 0 THEN start ELSE munmap_round(a, i, addr, k, f[k - 1])) /\ f[k] \in S[k]
  <2>1. f[k] = IF k = 0 THEN start ELSE G[k][f[k - 1]]
    <3> HIDE DEF G, start
    <3> QED
      BY <1>3 DEF Runs
  <2>2. f[k] \in S[k]
    BY <1>3
  <2>3. CASE k = 0
    BY <2>1, <2>2, <2>3
  <2>4. CASE k # 0
    <3>1. k - 1 \in 0..n
      BY <2>4
    <3>2. f[k - 1] \in S[k - 1]
      BY <1>3, <3>1
    <3>3. G[k][f[k - 1]] = munmap_round(a, i, addr, k, f[k - 1])
      BY <3>2
    <3> HIDE DEF G
    <3> QED
      BY <2>1, <2>2, <2>4, <3>3
  <2> QED
    BY <2>3, <2>4
<1>5. f = [k \in 0..N |-> IF k = 0 THEN [st |-> "ok", pt |-> a.pt, free |-> fr, twice |-> 0, ctr |-> 0]
                          ELSE munmap_round(a, i, addr, k, f[k - 1])]
  <2>1. f = [k \in 0..n |-> f[k]]
    <3> HIDE DEF G, start
    <3> QED
      BY <1>3 DEF Runs
  <2> HIDE DEF N
  <2>2. \A k \in 0..N : f[k] = IF k = 0 THEN [st |-> "ok", pt |-> a.pt, free |-> fr, twice |-> 0, ctr |-> 0]
                               ELSE munmap_round(a, i, addr, k, f[k - 1])
    BY <1>0, <1>4, Zenon
  <2> QED
    BY <1>0, <2>1, <2>2, Zenon
<1>6. round = [k \in 0..N |-> IF k = 0 THEN [st |-> "ok", pt |-> a.pt, free |-> fr, twice |-> 0, ctr |-> 0]
                              ELSE munmap_round(a, i, addr, k, round[k - 1])]
  BY <1>5, Zenon
<1> HIDE DEF round, G, N
<1>7. \A k \in 0..n : round[k] = f[k]
  <2>1. round[0] = f[0]
    BY <1>0, <1>5, <1>6
  <2>2. ASSUME NEW k \in 0..n, k # 0, round[k - 1] = f[k - 1] PROVE round[k] = f[k]
    <3>1. k \in 0..N
      BY <1>0
    <3>2. f[k] = munmap_round(a, i, addr, k, f[k - 1]) /\ round[k] = munmap_round(a, i, addr, k, round[k - 1])
      BY <1>5, <1>6, <2>2, <3>1
    <3> QED
      BY <2>2, <3>2, Zenon
  <2>3. \A k \in 0..n : k # 0 /\ round[k - 1] = f[k - 1] => round[k] = f[k]
    BY <2>2
  <2>4. InStep(round, f, 0, n)
    BY <2>1, <2>3, Zenon DEF InStep
  <2>5. Agree(round, f, 0, n)
    BY <1>2, <2>4, SameSteps
  <2> QED
    BY <2>5, Zenon DEF Agree
<1> QED
  BY <1>0, <1>1, <1>2, <1>4, <1>7

(* A byte of user memory is in a user page. *)
LEMMA UserPage ==
    ASSUME NEW addr \in UserAddresses
    PROVE  addr \in Nat /\ Page(addr) \in UserPages
<1>1. addr \in Nat /\ VM_USER_END - 1 \in Nat /\ addr <= VM_USER_END - 1
  BY Machine DEF UserAddresses
<1>2. Page(addr) \in Nat /\ Page(VM_USER_END - 1) \in Nat /\ Page(addr) <= Page(VM_USER_END - 1)
  BY <1>1, PageIs, PageMono
<1> QED
  BY <1>1, <1>2 DEF UserPages, Page

(* A round keeps the types. *)
LEMMA MunmapRound ==
    ASSUME NEW a \in Space, NEW i, NEW addr \in UserAddresses, NEW k, NEW s \in Rounds
    PROVE  munmap_round(a, i, addr, k, s) \in Rounds
<1> DEFINE page == Page(a.regs[i].addr) + k - 1
           e == s.pt[Page(addr)]
           s2 == [s EXCEPT !.pt[page] = Absent, !.free = @ \cup {e.frame},
                           !.twice = @ + (IF e.frame \in s.free THEN 1 ELSE 0), !.ctr = @ + 1]
<1>1. \/ munmap_round(a, i, addr, k, s) = s
      \/ munmap_round(a, i, addr, k, s) = [s EXCEPT !.st = "panic"]
      \/ munmap_round(a, i, addr, k, s) = [s EXCEPT !.st = "corrupt"]
      \/ e # Absent /\ munmap_round(a, i, addr, k, s) = s2
  BY DEF munmap_round, looked_up
<1>2. [s EXCEPT !.st = "panic"] \in Rounds /\ [s EXCEPT !.st = "corrupt"] \in Rounds
  BY DEF Rounds
<1>3. ASSUME e # Absent PROVE s2 \in Rounds
  <2>1. e \in Entry
    BY UserPage DEF Rounds, Table
  <2>2. e.frame \in Frames \cup {0}
    BY <1>3, <2>1, EntryIs
  <2>3. PICK f \in Frames \cup {0} : f = e.frame
    BY <2>2
  <2>4. [s.pt EXCEPT ![page] = Absent] \in Table
    <3>1. s.pt \in [UserPages -> Entry] /\ Absent \in Entry
      BY EntryIs DEF Rounds, Table
    <3> HIDE DEF page
    <3> QED
      BY <3>1 DEF Table
  <2>5. PICK pt \in Table : pt = [s.pt EXCEPT ![page] = Absent]
    BY <2>4
  <2>6. PICK d \in Nat : d = IF f \in s.free THEN 1 ELSE 0
    OBVIOUS
  <2>7. s2 = [s EXCEPT !.pt = pt, !.free = s.free \cup {f}, !.twice = s.twice + d, !.ctr = s.ctr + 1]
    BY <2>3, <2>5, <2>6 DEF Rounds
  <2> HIDE DEF s2, e, page
  <2>8. s.free \cup {f} \in SUBSET (Frames \cup {0}) /\ s.twice + d \in Nat /\ s.ctr + 1 \in Nat
    BY DEF Rounds
  <2> QED
    BY <2>7, <2>8 DEF Rounds
<1> QED
  BY <1>1, <1>2, <1>3

(* pg_unmap_from clears entries. *)
LEMMA Unmapped ==
    ASSUME NEW pt \in Table, NEW S, NEW pt2, pt2 = pg_unmap_from(pt, S)
    PROVE  pt2 \in Table /\ \A p \in UserPages : pt2[p] = IF p \in S THEN Absent ELSE pt[p]
<1>1. pt2 = [p \in UserPages |-> IF p \in S THEN Absent ELSE pt[p]]
  BY DEF pg_unmap_from
<1>2. \A p \in UserPages : pt2[p] \in Entry
  BY <1>1, EntryIs DEF Table
<1> QED
  BY <1>1, <1>2 DEF Table

(* What _destroy_region does to the record. *)
Destroyed(a, m, i) == _destroy_region([a EXCEPT !.pt = m.pt, !.page_counter = @ - m.ctr], i)

LEMMA DestroyRegion ==
    ASSUME NEW a \in Space, NEW i \in 1..Len(a.regs), NEW m \in Rounds, NEW b, b = Destroyed(a, m, i)
    PROVE  /\ b \in Space /\ SameEnds(a, b) /\ b.regs = _remove_region(a.regs, i)
           /\ \A p \in UserPages : b.pt[p] = IF p \in Steps(a.regs[i]) THEN Absent ELSE m.pt[p]
<1>1. a.regs \in Seq(Region) /\ a.page_counter \in Int /\ m.pt \in Table /\ m.ctr \in Nat
  BY SpaceIs DEF Rounds
<1>2. PICK regs : regs = _remove_region(a.regs, i)
  OBVIOUS
<1>3. regs \in Seq(Region)
  BY <1>1, <1>2, RemoveRegion
<1>4. PICK pt : pt = pg_unmap_from(m.pt, Steps(a.regs[i]))
  OBVIOUS
<1>5. pt \in Table /\ \A p \in UserPages : pt[p] = IF p \in Steps(a.regs[i]) THEN Absent ELSE m.pt[p]
  BY <1>1, <1>4, Unmapped
<1>6. PICK c \in Int : c = a.page_counter - m.ctr
  BY <1>1
<1>7. b = [a EXCEPT !.pt = pt, !.page_counter = c, !.regs = regs]
  BY <1>2, <1>4, <1>6 DEF Destroyed, _destroy_region, Space
<1>8. b \in Space /\ SameEnds(a, b) /\ b.regs = regs /\ b.pt = pt
  <2>1. pt \in Table
    BY <1>5
  <2> QED
    BY <1>3, <1>7, <2>1 DEF Space, Table, SameEnds
<1> QED
  BY <1>2, <1>5, <1>8

(* vmm_munmap takes out regions and pages, or fails. *)
Unmapping(m, a, fr, i) ==
    /\ m \in Results /\ SameEnds(a, m.a)
    /\ m.st # "ok" => m.a = a /\ m.free = fr /\ m.ret = 0
    /\ m.st = "ok" => m.a.regs = _remove_region(a.regs, i)

LEMMA PagesFinite ==
    ASSUME NEW addr \in Nat, NEW size \in Nat
    PROVE  Cardinality(PagesOf(addr, size)) \in Nat
<1>1. CASE size = 0
  BY <1>1, FS_EmptySet DEF PagesOf
<1>2. CASE size # 0
  <2>1. Page(addr) \in Int /\ Page(addr + size - 1) \in Int
    BY <1>2, PageIs
  <2>2. IsFiniteSet(Page(addr)..Page(addr + size - 1))
    BY <2>1, FS_Interval
  <2> QED
    BY <1>2, <2>2, FS_CardinalityType DEF PagesOf
<1> QED
  BY <1>1, <1>2

LEMMA Munmap ==
    ASSUME NEW a \in Space, NEW fr \in SUBSET (Frames \cup {0}), NEW addr \in UserAddresses,
           NEW i, i = _find_region(a, addr), i # 0
    PROVE  Unmapping(vmm_munmap(a, fr, addr), a, fr, i)
<1>1. a.regs \in Seq(Region) /\ a.pt \in Table
  BY SpaceIs
<1>2. i \in 1..Len(a.regs) /\ a.regs[i] \in Region
  BY <1>1, FindRegion
<1>3. a.regs[i].addr \in Nat /\ a.regs[i].size \in Nat
  BY <1>2, EndIsNat
<1>4. PICK n \in Nat : n = Cardinality(PagesOf(a.regs[i].addr, a.regs[i].size))
  BY <1>3, PagesFinite
<1>5. munmap_loop(a, fr, i, addr) \in Rounds
  <2> DEFINE S == [k \in 0..n |-> Rounds]
  <2>1. Round0(a, fr) \in Rounds
    BY <1>1 DEF Round0, Rounds
  <2>2. Round0(a, fr) \in S[0]
    BY <2>1
  <2>3. ASSUME NEW k \in 1..n, NEW s \in S[k - 1] PROVE munmap_round(a, i, addr, k, s) \in S[k]
    <3>1. k - 1 \in 0..n /\ k \in 0..n
      OBVIOUS
    <3>2. s \in Rounds
      BY <3>1
    <3>3. munmap_round(a, i, addr, k, s) \in Rounds
      BY <3>2, MunmapRound
    <3> QED
      BY <3>1, <3>3
  <2>4. S[n] = Rounds
    OBVIOUS
  <2> HIDE DEF S
  <2>5. munmap_loop(a, fr, i, addr) \in S[n]
    BY <1>4, <2>2, <2>3, MunmapLoop
  <2> QED
    BY <2>4, <2>5
<1>6. PICK m \in Rounds : m = munmap_loop(a, fr, i, addr)
  BY <1>5
<1>7. PICK b : b = Destroyed(a, m, i)
  OBVIOUS
<1>8. b \in Space /\ SameEnds(a, b) /\ b.regs = _remove_region(a.regs, i)
  BY <1>2, <1>7, DestroyRegion
<1>9. vmm_munmap(a, fr, addr) = IF m.st # "ok" THEN Result(m.st, a, fr, 0) ELSE Result("ok", b, m.free, m.twice)
  BY <1>6, <1>7 DEF vmm_munmap, Destroyed
<1>10. m.st \in Outcomes /\ m.free \in SUBSET (Frames \cup {0}) /\ m.twice \in Nat
  BY DEF Rounds, Outcomes
<1>11. SameEnds(a, a)
  BY DEF SameEnds
<1>12. CASE m.st # "ok"
  <2>1. PICK w : w = Result(m.st, a, fr, 0)
    OBVIOUS
  <2>2. w \in Results /\ w.a = a /\ w.st = m.st /\ w.free = fr /\ w.ret = 0
    BY <1>10, <2>1 DEF Result, Results
  <2>3. Unmapping(w, a, fr, i)
    BY <1>11, <1>12, <2>2 DEF Unmapping
  <2> QED
    BY <1>9, <1>12, <2>1, <2>3
<1>13. CASE m.st = "ok"
  <2>1. PICK w : w = Result("ok", b, m.free, m.twice)
    OBVIOUS
  <2>2. w \in Results /\ w.a = b /\ w.st = "ok"
    BY <1>8, <1>10, <2>1 DEF Result, Results, Outcomes
  <2>3. Unmapping(w, a, fr, i)
    BY <1>8, <2>2 DEF Unmapping
  <2> QED
    BY <1>9, <1>13, <2>1, <2>3
<1> QED
  BY <1>12, <1>13

(* The walk over one whole page. *)
LEMMA OnePage ==
    ASSUME NEW r \in Region, r.size = PAGE_SIZE, r.addr % PAGE_SIZE = 0
    PROVE  /\ PagesOf(r.addr, r.size) = {Page(r.addr)}
           /\ Steps(r) = {Page(r.addr)}
<1>1. r.addr \in Nat /\ PAGE_SIZE \in Nat /\ PAGE_SIZE > 1 /\ End(r) = r.addr + PAGE_SIZE
  BY EndIsNat, Machine
<1>2. PICK q \in Nat : q = Page(r.addr)
  BY <1>1, PageIs
<1>3. r.addr = PAGE_SIZE * q
  <2>1. PAGE_SIZE > 0
    BY <1>1
  <2>2. r.addr = PAGE_SIZE * (r.addr \div PAGE_SIZE) + (r.addr % PAGE_SIZE) /\ r.addr \div PAGE_SIZE \in Int
    BY <1>1, <2>1, DivMod
  <2> QED
    BY <1>1, <1>2, <2>2 DEF Page
<1>4. \A x \in Nat : r.addr <= x /\ x < r.addr + PAGE_SIZE => Page(x) = q
  BY <1>2, <1>3, PageIs
<1>5. r.addr + r.size - 1 \in Nat /\ Page(r.addr + r.size - 1) = q
  BY <1>1, <1>4
<1>6. PagesOf(r.addr, r.size) = {q}
  BY <1>1, <1>2, <1>5 DEF PagesOf
<1>7. ASSUME NEW p \in Steps(r) PROVE p = q
  <2>1. PICK x \in r.addr..(End(r) - 1) : p = Page(x)
    BY DEF Steps
  <2> QED
    BY <1>1, <1>4, <2>1
<1>8. q \in Steps(r)
  <2>0. 0 * PAGE_SIZE = 0 /\ r.size \in Nat
    BY <1>1
  <2>1. 0 \in 0..r.size /\ r.addr = r.addr + 0 * PAGE_SIZE /\ r.addr \in r.addr..(End(r) - 1)
    <3>1. 0 \in 0..r.size
      BY <2>0
    <3>2. PICK z : z = 0 * PAGE_SIZE
      OBVIOUS
    <3>3. r.addr = r.addr + z
      BY <1>1, <2>0, <3>2
    <3>4. r.addr <= End(r) - 1 /\ End(r) - 1 \in Int
      BY <1>1
    <3>5. r.addr \in r.addr..(End(r) - 1)
      BY <1>1, <3>4
    <3> QED
      BY <3>1, <3>2, <3>3, <3>5
  <2>2. r.addr \in {r.addr + k * PAGE_SIZE : k \in 0..r.size} \cap (r.addr..(End(r) - 1))
    BY <2>1
  <2> QED
    BY <1>2, <2>2 DEF Steps
<1> QED
  BY <1>2, <1>6, <1>7, <1>8

(* vmm_munmap of a region that is one whole page. *)
(* What vmm_munmap does to a region of one page: its frame is freed. *)
OnePageGone(m, a, fr, addr, e) ==
    /\ e # Absent /\ m.free = fr \cup {e.frame} /\ (e.frame \notin fr => m.ret = 0)
    /\ \A p \in UserPages : m.a.pt[p] = IF p = Page(addr) THEN Absent ELSE a.pt[p]

(* The single round for such a region. *)
OnceGone(s, a, fr, addr, e) ==
    /\ e # Absent
    /\ s = [Round0(a, fr) EXCEPT !.pt[Page(addr) + 1 - 1] = Absent, !.free = @ \cup {e.frame},
                                 !.twice = @ + (IF e.frame \in Round0(a, fr).free THEN 1 ELSE 0), !.ctr = @ + 1]

LEMMA MunmapOnce ==
    ASSUME NEW a \in Space, NEW fr \in SUBSET (Frames \cup {0}), NEW addr \in UserAddresses,
           NEW i, i = _find_region(a, addr), i # 0,
           a.regs[i].addr = addr, a.regs[i].size = PAGE_SIZE, addr % PAGE_SIZE = 0,
           NEW s, s = munmap_round(a, i, addr, 1, Round0(a, fr)), NEW e, e = a.pt[Page(addr)]
    PROVE  /\ munmap_loop(a, fr, i, addr) = s /\ s.st \in {"ok", "panic"}
           /\ s.st = "ok" => OnceGone(s, a, fr, addr, e)
<1>1. a.regs \in Seq(Region)
  BY SpaceIs
<1>2. i \in 1..Len(a.regs) /\ a.regs[i] \in Region
  BY <1>1, FindRegion
<1>3. addr \in Nat /\ PAGE_SIZE \in Nat /\ PAGE_SIZE > 1
  BY UserPage, Machine
<1>4. PagesOf(a.regs[i].addr, a.regs[i].size) = {Page(addr)}
  BY <1>2, OnePage
<1>5. Cardinality(PagesOf(a.regs[i].addr, a.regs[i].size)) = 1
  BY <1>4, FS_Singleton
<1>7. munmap_loop(a, fr, i, addr) = s
  <2> DEFINE S == [k \in 0..1 |-> IF k = 0 THEN {Round0(a, fr)} ELSE {s}]
  <2>1. Round0(a, fr) \in S[0]
    OBVIOUS
  <2>2. ASSUME NEW k \in 1..1, NEW x \in S[k - 1] PROVE munmap_round(a, i, addr, k, x) \in S[k]
    <3>1. k = 1 /\ k - 1 = 0
      OBVIOUS
    <3>2. x = Round0(a, fr) /\ S[k] = {s}
      BY <3>1
    <3> QED
      BY <3>1, <3>2
  <2>3. S[1] = {s}
    OBVIOUS
  <2> HIDE DEF S
  <2>4. munmap_loop(a, fr, i, addr) \in S[1]
    BY <1>5, <2>1, <2>2, MunmapLoop
  <2> QED
    BY <2>3, <2>4
<1>8. PICK z : z = Round0(a, fr)
  OBVIOUS
<1>9. z.st = "ok" /\ z.pt[Page(addr)] = e /\ [z EXCEPT !.st = "panic"].st = "panic"
  BY <1>8 DEF Round0
<1>10. End(a.regs[i]) - addr = PAGE_SIZE /\ PAGE_SIZE - (addr % PAGE_SIZE) = PAGE_SIZE /\ ~(PAGE_SIZE < PAGE_SIZE)
  BY <1>2, <1>3, EndIsNat
<1>11. s = IF e = Absent THEN [z EXCEPT !.st = "panic"]
           ELSE [z EXCEPT !.pt[Page(addr) + 1 - 1] = Absent, !.free = @ \cup {e.frame},
                          !.twice = @ + (IF e.frame \in z.free THEN 1 ELSE 0), !.ctr = @ + 1]
  BY <1>8, <1>9, <1>10 DEF munmap_round, looked_up
<1>12. CASE e = Absent
  BY <1>7, <1>9, <1>11, <1>12
<1>13. CASE e # Absent
  <2>1. s.st = z.st
    BY <1>8, <1>11, <1>13 DEF Round0
  <2> QED
    BY <1>7, <1>8, <1>9, <1>11, <1>13, <2>1 DEF OnceGone
<1> QED
  BY <1>12, <1>13

LEMMA MunmapPage ==
    ASSUME NEW a \in Space, NEW fr \in SUBSET (Frames \cup {0}), NEW addr \in UserAddresses,
           NEW i, i = _find_region(a, addr), i # 0,
           a.regs[i].addr = addr, a.regs[i].size = PAGE_SIZE, addr % PAGE_SIZE = 0,
           NEW m, m = vmm_munmap(a, fr, addr), m.st = "ok",
           NEW e, e = a.pt[Page(addr)]
    PROVE  OnePageGone(m, a, fr, addr, e)
<1>1. a.regs \in Seq(Region) /\ a.pt \in Table
  BY SpaceIs
<1>2. i \in 1..Len(a.regs) /\ a.regs[i] \in Region
  BY <1>1, FindRegion
<1>3. addr \in Nat /\ Page(addr) \in UserPages /\ PAGE_SIZE \in Nat /\ PAGE_SIZE > 1
  BY UserPage, Machine
<1>4. PagesOf(a.regs[i].addr, a.regs[i].size) = {Page(addr)} /\ Steps(a.regs[i]) = {Page(addr)}
  BY <1>2, OnePage
<1>6. PICK s : s = munmap_round(a, i, addr, 1, Round0(a, fr))
  OBVIOUS
<1>b. munmap_loop(a, fr, i, addr) = s /\ (s.st = "ok" => OnceGone(s, a, fr, addr, e))
  BY <1>6, MunmapOnce
<1>7. munmap_loop(a, fr, i, addr) = s
  BY <1>b
<1>8. Round0(a, fr) \in Rounds
  BY <1>1 DEF Round0, Rounds
<1>9. s \in Rounds
  BY <1>6, <1>8, MunmapRound
<1>10. PICK b : b = Destroyed(a, s, i)
  OBVIOUS
<1>11. m = IF s.st # "ok" THEN Result(s.st, a, fr, 0) ELSE Result("ok", b, s.free, s.twice)
  BY <1>7, <1>10 DEF vmm_munmap, Destroyed
<1>12. s.st = "ok"
  BY <1>11 DEF Result
<1>13. m.a = b /\ m.free = s.free /\ m.ret = s.twice
  BY <1>11, <1>12 DEF Result
<1>14. \A p \in UserPages : b.pt[p] = IF p = Page(addr) THEN Absent ELSE s.pt[p]
  BY <1>2, <1>4, <1>9, <1>10, DestroyRegion
<1>15. /\ e # Absent
       /\ s = [Round0(a, fr) EXCEPT !.pt[Page(addr) + 1 - 1] = Absent, !.free = @ \cup {e.frame},
                                    !.twice = @ + (IF e.frame \in Round0(a, fr).free THEN 1 ELSE 0), !.ctr = @ + 1]
  BY <1>12, <1>b DEF OnceGone
<1>16. Page(addr) + 1 - 1 = Page(addr)
  BY <1>3, PageIs
<1>17. s.free = fr \cup {e.frame} /\ (e.frame \notin fr => s.twice = 0)
  BY <1>15 DEF Round0
<1>18. \A p \in UserPages : p # Page(addr) => s.pt[p] = a.pt[p]
  BY <1>15, <1>16 DEF Round0, Table
<1> QED
  BY <1>13, <1>14, <1>15, <1>17, <1>18 DEF OnePageGone
(* Unmapping a single page reaches nothing of the kernel's. *)
LEMMA MunmapHarmless ==
    ASSUME NEW a \in Space, NEW fr \in SUBSET (Frames \cup {0}), NEW addr \in UserAddresses,
           NEW i, i = _find_region(a, addr), i # 0,
           a.regs[i].addr = addr, a.regs[i].size = PAGE_SIZE, addr % PAGE_SIZE = 0
    PROVE  vmm_munmap(a, fr, addr).st # "corrupt"
<1>1. PICK s, e : s = munmap_round(a, i, addr, 1, Round0(a, fr)) /\ e = a.pt[Page(addr)]
  OBVIOUS
<1>2. munmap_loop(a, fr, i, addr) = s /\ s.st \in {"ok", "panic"}
  BY <1>1, MunmapOnce
<1> QED
  BY <1>2 DEF vmm_munmap, Result
-----------------------------------------------------------------------------
(* vmm_set_brk *)

(* A region of the list gets another size. *)
Resized(regs, i, n) == [regs EXCEPT ![i].size = n]

LEMMA ResizedIs ==
    ASSUME NEW regs \in Seq(Region), NEW i \in 1..Len(regs), NEW n \in Nat, NEW s, s = Resized(regs, i, n)
    PROVE  /\ s \in Seq(Region) /\ Len(s) = Len(regs)
           /\ \A j \in 1..Len(regs) : j # i => s[j] = regs[j]
           /\ s[i] \in Region /\ s[i].addr = regs[i].addr /\ s[i].rw = regs[i].rw /\ s[i].size = n
<1>1. regs[i] \in Region
  OBVIOUS
<1>2. PICK r : r = [regs[i] EXCEPT !.size = n]
  OBVIOUS
<1>3. r \in Region /\ r.addr = regs[i].addr /\ r.rw = regs[i].rw /\ r.size = n
  BY <1>1, <1>2 DEF Region
<1>4. s = [regs EXCEPT ![i] = r]
  BY <1>2 DEF Resized
<1> QED
  BY <1>3, <1>4

(* It may end before, or up to where the next one begins. *)
LEMMA ResizedSorted ==
    ASSUME NEW regs \in Seq(Region), Sorted(regs), NEW i \in 1..Len(regs), NEW n \in Nat,
           n <= regs[i].size \/ (i < Len(regs) /\ regs[i].addr + n <= regs[i + 1].addr)
    PROVE  Sorted(Resized(regs, i, n))
<1>1. PICK s : s = Resized(regs, i, n)
  OBVIOUS
<1>2. /\ Len(s) = Len(regs)
      /\ \A j \in 1..Len(regs) : j # i => s[j] = regs[j]
      /\ s[i] \in Region /\ s[i].addr = regs[i].addr /\ s[i].size = n
  BY <1>1, ResizedIs
<1>3. ASSUME NEW j \in 1..Len(regs) PROVE regs[j].addr \in Nat /\ regs[j].size \in Nat /\ End(regs[j]) = regs[j].addr + regs[j].size
  <2>1. regs[j] \in Region
    OBVIOUS
  <2> QED
    BY <2>1, EndIsNat, Zenon
<1>4. End(s[i]) = regs[i].addr + n
  BY <1>2 DEF End
<1>5. ASSUME NEW j \in 1..Len(regs), NEW k \in 1..Len(regs), j < k PROVE End(s[j]) <= s[k].addr
  <2>1. End(regs[j]) <= regs[k].addr
    BY <1>5 DEF Sorted
  <2>2. s[k].addr = regs[k].addr
    BY <1>2
  <2>3. CASE j # i
    <3>1. s[j] = regs[j]
      BY <1>2, <2>3
    <3> QED
      BY <2>1, <2>2, <3>1
  <2>4. CASE j = i /\ n <= regs[i].size
    BY <1>3, <1>4, <2>1, <2>2, <2>4
  <2>5. CASE j = i /\ i < Len(regs) /\ regs[i].addr + n <= regs[i + 1].addr
    <3>1. i + 1 \in 1..Len(regs)
      BY <2>5
    <3>2. regs[i + 1].addr <= regs[k].addr
      <4>1. CASE k = i + 1
        BY <1>3, <3>1, <4>1
      <4>2. CASE k # i + 1
        <5>1. End(regs[i + 1]) <= regs[k].addr
          <6>1. i + 1 < k
            BY <1>5, <2>5, <4>2
          <6> QED
            BY <3>1, <6>1 DEF Sorted
        <5>2. regs[i + 1].addr \in Nat /\ regs[i + 1].size \in Nat /\ regs[k].addr \in Nat
              /\ End(regs[i + 1]) = regs[i + 1].addr + regs[i + 1].size
          BY <1>3, <3>1
        <5>3. PICK a \in Nat : a = regs[i + 1].addr
          BY <5>2, Zenon
        <5>4. PICK z \in Nat : z = regs[i + 1].size
          BY <5>2, Zenon
        <5>5. PICK b \in Nat : b = regs[k].addr
          BY <5>2, Zenon
        <5>6. a + z <= b
          BY <5>1, <5>2, <5>3, <5>4, <5>5, Zenon
        <5>7. a <= b
          BY <5>6
        <5> QED
          BY <5>3, <5>5, <5>7, Zenon
      <4> QED
        BY <4>1, <4>2
    <3> QED
      BY <1>3, <1>4, <2>2, <2>5, <3>1, <3>2
  <2> QED
    BY <2>3, <2>4, <2>5
<1> QED
  BY <1>1, <1>2, <1>5 DEF Sorted

(* The four ways in which a break moves. *)
BrkFirst(a, b, addr, r) ==
    /\ a.data_end = a.elf_end /\ a.elf_end <= addr
    /\ r = [addr |-> a.data_end, size |-> RoundUp(addr - a.data_end, PAGE_SIZE), rw |-> TRUE]
    /\ _is_area_free(a, a.data_end, r.size) /\ a.data_end + r.size < Word
    /\ b.regs = _insert_region(a.regs, r) /\ b.pt = a.pt /\ b.data_end = addr

BrkWithin(a, b, i, addr) ==
    addr > a.data_end /\ addr <= End(a.regs[i]) /\ b.regs = a.regs /\ b.pt = a.pt /\ b.data_end = addr

BrkGrow(a, b, i, addr, n) ==
    /\ addr > a.data_end /\ addr > End(a.regs[i])
    /\ n = RoundUp(addr - a.data_end, PAGE_SIZE)
    /\ i < Len(a.regs) /\ End(a.regs[i]) + n <= a.regs[i + 1].addr
    /\ b.regs = Resized(a.regs, i, a.regs[i].size + n) /\ b.pt = a.pt /\ b.data_end = addr

BrkShrink(a, b, i, addr, ctr, n) ==
    /\ a.elf_end < addr /\ addr <= a.data_end
    /\ ctr = (a.data_end - addr) \div PAGE_SIZE
    /\ ctr * PAGE_SIZE <= a.regs[i].size /\ n = a.regs[i].size - ctr * PAGE_SIZE
    /\ b.regs = Resized(a.regs, i, n) /\ b.data_end = addr
    /\ b.pt = pg_unmap_from(a.pt, {Page(End(a.regs[i]) - k * PAGE_SIZE) : k \in 0..(ctr - 1)})

Moves(a, b, i, addr) ==
    \/ \E r \in Region : BrkFirst(a, b, addr, r)
    \/ /\ a.data_end # a.elf_end /\ i # 0
       /\ \/ BrkWithin(a, b, i, addr)
          \/ \E n \in Nat : BrkGrow(a, b, i, addr, n)
          \/ \E n \in Nat, ctr \in Nat : BrkShrink(a, b, i, addr, ctr, n)

Breaking(m, a, fr, i, addr) ==
    /\ m \in Results /\ m.free = fr
    /\ m.a.elf_end = a.elf_end /\ m.a.stack_end = a.stack_end /\ m.a.pd = a.pd
    /\ m.st # "ok" => m.a = a
    /\ m.st = "ok" => Moves(a, m.a, i, addr)
    /\ m.st = "corrupt" => a.data_end # a.elf_end /\ i # 0 /\ i = Len(a.regs)

(* A failure. *)
LEMMA BrkFails ==
    ASSUME NEW a \in Space, NEW fr \in SUBSET (Frames \cup {0}), NEW i, NEW addr, NEW st \in {"ENOMEM", "panic", "corrupt", "wrapped"},
           st = "corrupt" => a.data_end # a.elf_end /\ i # 0 /\ i = Len(a.regs), NEW m, m = Result(st, a, fr, 0)
    PROVE  Breaking(m, a, fr, i, addr)
<1>1. m \in Results /\ m.st = st /\ m.a = a /\ m.free = fr
  BY DEF Result, Results, Outcomes
<1> QED
  BY <1>1 DEF Breaking

(* A success, with the space it leaves. *)
LEMMA BrkWorks ==
    ASSUME NEW a \in Space, NEW fr \in SUBSET (Frames \cup {0}), NEW i, NEW addr \in Nat,
           NEW regs \in Seq(Region), NEW pt \in Table, NEW b, b = [a EXCEPT !.regs = regs, !.pt = pt, !.data_end = addr],
           NEW m, m = Result("ok", b, fr, 0), Moves(a, b, i, addr)
    PROVE  Breaking(m, a, fr, i, addr)
<1>1. b \in Space /\ b.elf_end = a.elf_end /\ b.stack_end = a.stack_end /\ b.pd = a.pd
  BY DEF Space, Table
<1>2. m \in Results /\ m.st = "ok" /\ m.a = b /\ m.free = fr
  BY <1>1 DEF Result, Results, Outcomes
<1> QED
  BY <1>1, <1>2 DEF Breaking

(* A sum that fits into a word is not reduced. *)
LEMMA SmallMod ==
    ASSUME NEW x \in Nat, NEW d \in Nat, x < d
    PROVE  x % d = x
<1>1. d > 0 /\ d * 0 <= x /\ x < d * 0 + d
  OBVIOUS
<1>2. x % d = x - d * 0
  BY <1>1, DivIs
<1> QED
  BY <1>2

LEMMA SetBrk ==
    ASSUME NEW a \in Space, NEW fr \in SUBSET (Frames \cup {0}), NEW addr \in Nat,
           NEW i, i = _find_region(a, a.elf_end + 1)
    PROVE  Breaking(vmm_set_brk(a, fr, addr), a, fr, i, addr)
<1>1. /\ a.regs \in Seq(Region) /\ a.pt \in Table /\ a.elf_end \in Nat /\ a.data_end \in Nat
      /\ PAGE_SIZE \in Nat /\ PAGE_SIZE > 0 /\ Word \in Nat /\ Word > 0
  BY SpaceIs, Machine
<1>2. PICK m : m = vmm_set_brk(a, fr, addr)
  OBVIOUS
<1>3. m = IF addr < a.elf_end THEN Result("ENOMEM", a, fr, 0)
          ELSE IF a.data_end = a.elf_end THEN brk_first(a, fr, addr)
          ELSE IF i = 0 THEN Result("panic", a, fr, 0)
          ELSE IF addr > a.data_end THEN brk_grow(a, fr, i, addr)
          ELSE brk_shrink(a, fr, i, addr)
  BY <1>2 DEF vmm_set_brk
<1>4. CASE addr < a.elf_end
  <2>1. m = Result("ENOMEM", a, fr, 0)
    BY <1>3, <1>4
  <2> QED
    BY <1>2, <2>1, BrkFails
<1>5. CASE ~(addr < a.elf_end) /\ a.data_end = a.elf_end
  <2>1. m = brk_first(a, fr, addr)
    BY <1>3, <1>5
  <2>2. addr - a.data_end \in Nat
    BY <1>1, <1>5
  <2>3. PICK size : size = RoundUp(addr - a.data_end, PAGE_SIZE)
    OBVIOUS
  <2>4. size \in Nat
    BY <1>1, <2>2, <2>3, RoundUpIs
  <2>5. PICK r : r = [addr |-> a.data_end, size |-> size, rw |-> TRUE]
    OBVIOUS
  <2>6. r \in Region /\ r.size = size
    BY <1>1, <2>4, <2>5 DEF Region
  <2>7. CASE ~_is_area_free(a, a.data_end, size)
    <3>1. m = Result("ENOMEM", a, fr, 0)
      BY <2>1, <2>3, <2>7 DEF brk_first
    <3> QED
      BY <1>2, <3>1, BrkFails
  <2>9. CASE _is_area_free(a, a.data_end, size) /\ a.data_end + size >= Word
    <3>1. m = Result("wrapped", a, fr, 0)
      BY <2>1, <2>3, <2>9 DEF brk_first
    <3> QED
      BY <1>2, <3>1, BrkFails
  <2>8. CASE _is_area_free(a, a.data_end, size) /\ ~(a.data_end + size >= Word)
    <3>1. PICK regs : regs = _insert_region(a.regs, r)
      OBVIOUS
    <3>2. regs \in Seq(Region)
      BY <1>1, <2>6, <3>1, InsertRegion
    <3>3. PICK b : b = [a EXCEPT !.regs = regs, !.pt = a.pt, !.data_end = addr]
      OBVIOUS
    <3>4. b.regs = regs /\ b.pt = a.pt /\ b.data_end = addr
      BY <3>3 DEF Space
    <3>5. m = Result("ok", [a EXCEPT !.regs = regs, !.data_end = addr], fr, 0)
      BY <2>1, <2>3, <2>5, <2>8, <3>1 DEF brk_first
    <3>6. [a EXCEPT !.regs = regs, !.data_end = addr] = b
      BY <3>3 DEF Space
    <3>9. a.data_end + r.size < Word
      BY <1>1, <2>4, <2>6, <2>8
    <3>7. BrkFirst(a, b, addr, r)
      BY <1>1, <1>5, <2>3, <2>5, <2>6, <2>8, <3>1, <3>4, <3>9 DEF BrkFirst
    <3>8. Moves(a, b, i, addr)
      BY <2>6, <3>7 DEF Moves
    <3> QED
      BY <1>1, <1>2, <3>2, <3>3, <3>5, <3>6, <3>8, BrkWorks
  <2> QED
    BY <2>7, <2>8, <2>9
<1>6. CASE ~(addr < a.elf_end) /\ a.data_end # a.elf_end /\ i = 0
  <2>1. m = Result("panic", a, fr, 0)
    BY <1>3, <1>6
  <2> QED
    BY <1>2, <2>1, BrkFails
<1>7. CASE ~(addr < a.elf_end) /\ a.data_end # a.elf_end /\ i # 0
  <2>0. i \in 1..Len(a.regs) /\ a.regs[i] \in Region
    BY <1>1, <1>7, FindRegion
  <2>a. a.regs[i].addr \in Nat /\ a.regs[i].size \in Nat /\ End(a.regs[i]) = a.regs[i].addr + a.regs[i].size
    BY <2>0, EndIsNat, Zenon
  <2>1. CASE addr > a.data_end /\ addr <= End(a.regs[i])
    <3>1. PICK b : b = [a EXCEPT !.regs = a.regs, !.pt = a.pt, !.data_end = addr]
      OBVIOUS
    <3>2. b.regs = a.regs /\ b.pt = a.pt /\ b.data_end = addr
      BY <3>1 DEF Space
    <3>3. m = Result("ok", [a EXCEPT !.data_end = addr], fr, 0)
      BY <1>3, <1>7, <2>1 DEF brk_grow
    <3>4. [a EXCEPT !.data_end = addr] = b
      BY <3>1 DEF Space
    <3>5. BrkWithin(a, b, i, addr)
      BY <2>1, <3>2 DEF BrkWithin
    <3>6. Moves(a, b, i, addr)
      BY <1>7, <3>5 DEF Moves
    <3> QED
      BY <1>1, <1>2, <3>1, <3>3, <3>4, <3>6, BrkWorks
  <2>2. CASE addr > a.data_end /\ ~(addr <= End(a.regs[i])) /\ i = Len(a.regs)
    <3>1. m = Result("corrupt", a, fr, 0)
      BY <1>3, <1>7, <2>2 DEF brk_grow
    <3> QED
      BY <1>2, <1>7, <2>2, <3>1, BrkFails
  <2>3. CASE addr > a.data_end /\ ~(addr <= End(a.regs[i])) /\ i # Len(a.regs)
    <3>0. PICK n : n = RoundUp(addr - a.data_end, PAGE_SIZE)
      OBVIOUS
    <3>1. n \in Nat
      <4>1. addr - a.data_end \in Nat
        BY <1>1, <2>3
      <4> QED
        BY <1>1, <3>0, <4>1, RoundUpIs
    <3>2. CASE (End(a.regs[i]) + n) % Word > a.regs[i + 1].addr
      <4>1. m = Result("ENOMEM", a, fr, 0)
        BY <1>3, <1>7, <2>3, <3>0, <3>2 DEF brk_grow
      <4> QED
        BY <1>2, <4>1, BrkFails
    <3>4. CASE ~((End(a.regs[i]) + n) % Word > a.regs[i + 1].addr) /\ End(a.regs[i]) + n >= Word
      <4>1. m = Result("wrapped", a, fr, 0)
        BY <1>3, <1>7, <2>3, <3>0, <3>4 DEF brk_grow
      <4> QED
        BY <1>2, <4>1, BrkFails
    <3>3. CASE ~((End(a.regs[i]) + n) % Word > a.regs[i + 1].addr) /\ ~(End(a.regs[i]) + n >= Word)
      <4>1. PICK regs : regs = Resized(a.regs, i, a.regs[i].size + n)
        OBVIOUS
      <4>2. regs \in Seq(Region)
        BY <1>1, <2>0, <2>a, <3>1, <4>1, ResizedIs
      <4>3. PICK b : b = [a EXCEPT !.regs = regs, !.pt = a.pt, !.data_end = addr]
        OBVIOUS
      <4>4. b.regs = regs /\ b.pt = a.pt /\ b.data_end = addr
        BY <4>3 DEF Space
      <4>5. m = Result("ok", [a EXCEPT !.data_end = addr, !.regs[i].size = @ + n], fr, 0)
        BY <1>3, <1>7, <2>3, <3>0, <3>3 DEF brk_grow
      <4>6. [a EXCEPT !.data_end = addr, !.regs[i].size = @ + n] = b
        BY <4>1, <4>3 DEF Space, Resized
      <4>7. a.regs[i + 1].addr \in Nat
        <5>1. a.regs[i + 1] \in Region
          BY <1>1, <2>0, <2>3
        <5> QED
          BY <5>1, EndIsNat, Zenon
      <4>a. End(a.regs[i]) \in Nat /\ i < Len(a.regs)
        BY <2>0, <2>a, <2>3
      <4>b. End(a.regs[i]) + n <= a.regs[i + 1].addr /\ addr > End(a.regs[i])
        <5>1. PICK e \in Nat : e = End(a.regs[i]) + n
          BY <3>1, <4>a
        <5>2. e < Word /\ ~(e % Word > a.regs[i + 1].addr)
          BY <1>1, <3>3, <5>1
        <5>3. e % Word = e
          BY <1>1, <5>2, SmallMod
        <5>4. e <= a.regs[i + 1].addr
          BY <4>7, <5>2, <5>3
        <5> QED
          BY <1>1, <2>3, <4>a, <5>1, <5>4
      <4>8. BrkGrow(a, b, i, addr, n)
        BY <2>3, <3>0, <4>1, <4>4, <4>a, <4>b DEF BrkGrow
      <4>9. Moves(a, b, i, addr)
        BY <1>7, <3>1, <4>8 DEF Moves
      <4>10. m = Result("ok", b, fr, 0) /\ a.pt \in Table
        BY <1>1, <4>5, <4>6
      <4> QED
        BY <1>2, <4>2, <4>3, <4>9, <4>10, BrkWorks
    <3> QED
      BY <3>2, <3>3, <3>4
  <2>4. CASE ~(addr > a.data_end) /\ addr <= a.elf_end
    <3>1. m = Result("ENOMEM", a, fr, 0)
      BY <1>3, <1>7, <2>4 DEF brk_shrink
    <3> QED
      BY <1>2, <3>1, BrkFails
  <2>6. CASE ~(addr > a.data_end) /\ ~(addr <= a.elf_end)
             /\ ((a.data_end - addr) \div PAGE_SIZE) * PAGE_SIZE > a.regs[i].size
    <3>1. m = Result("wrapped", a, fr, 0)
      BY <1>3, <1>7, <2>6 DEF brk_shrink
    <3> QED
      BY <1>2, <3>1, BrkFails
  <2>5. CASE ~(addr > a.data_end) /\ ~(addr <= a.elf_end)
             /\ ~(((a.data_end - addr) \div PAGE_SIZE) * PAGE_SIZE > a.regs[i].size)
    <3>0. a.data_end - addr \in Nat
      BY <1>1, <2>5
    <3>1. PICK ctr : ctr = (a.data_end - addr) \div PAGE_SIZE
      OBVIOUS
    <3>2. ctr \in Nat
      BY <3>0, <3>1, PageIs DEF Page
    <3>a. ctr * PAGE_SIZE \in Nat /\ ctr * PAGE_SIZE <= a.regs[i].size
      <4>1. PICK w \in Nat : w = ctr * PAGE_SIZE
        BY <1>1, <3>2
      <4>2. ~(w > a.regs[i].size)
        BY <2>5, <3>1, <4>1
      <4> QED
        BY <2>a, <4>1, <4>2
    <3>3. PICK n : n = a.regs[i].size - ctr * PAGE_SIZE
      OBVIOUS
    <3>4. n \in Nat
      BY <2>a, <3>3, <3>a
    <3>5. PICK regs : regs = Resized(a.regs, i, n)
      OBVIOUS
    <3>6. regs \in Seq(Region)
      BY <1>1, <2>0, <3>4, <3>5, ResizedIs
    <3>7. PICK pt : pt = pg_unmap_from(a.pt, {Page(End(a.regs[i]) - k * PAGE_SIZE) : k \in 0..(ctr - 1)})
      OBVIOUS
    <3>8. pt \in Table
      BY <1>1, <3>7, Unmapped
    <3>9. PICK b : b = [a EXCEPT !.regs = regs, !.pt = pt, !.data_end = addr]
      OBVIOUS
    <3>10. b.regs = regs /\ b.pt = pt /\ b.data_end = addr
      BY <3>9 DEF Space
    <3>11. m = Result("ok", [a EXCEPT !.data_end = addr, !.regs[i].size = n, !.pt = pt], fr, 0)
      BY <1>3, <1>7, <2>5, <3>1, <3>3, <3>7 DEF brk_shrink
    <3>12. [a EXCEPT !.data_end = addr, !.regs[i].size = n, !.pt = pt] = b
      BY <3>5, <3>9 DEF Space, Resized
    <3>13. BrkShrink(a, b, i, addr, ctr, n)
      BY <1>1, <2>5, <3>1, <3>3, <3>5, <3>7, <3>10, <3>a DEF BrkShrink
    <3>14. Moves(a, b, i, addr)
      BY <1>7, <3>2, <3>4, <3>13 DEF Moves
    <3> QED
      BY <1>2, <3>6, <3>8, <3>9, <3>11, <3>12, <3>14, BrkWorks
  <2> QED
    BY <2>1, <2>2, <2>3, <2>4, <2>5, <2>6
<1> QED
  BY <1>4, <1>5, <1>6, <1>7
-----------------------------------------------------------------------------
(* _fork_aspace *)

(* The walk over a region visits pages between its first byte and its last. *)
LEMMA StepsAre ==
    ASSUME NEW r \in Region
    PROVE  /\ Steps(r) \subseteq Nat /\ IsFiniteSet(Steps(r))
           /\ \A p \in Steps(r) : \E x \in Nat : p = Page(x) /\ r.addr <= x /\ x < End(r)
           /\ Steps(r) \subseteq PagesOf(r.addr, r.size)
<1>1. r.addr \in Nat /\ r.size \in Nat /\ End(r) \in Nat /\ End(r) = r.addr + r.size
  BY EndIsNat
<1>2. ASSUME NEW p \in Steps(r) PROVE \E x \in Nat : p = Page(x) /\ r.addr <= x /\ x < End(r)
  <2>1. PICK x \in r.addr..(End(r) - 1) : p = Page(x)
    BY DEF Steps
  <2>2. x \in Nat /\ r.addr <= x /\ x < End(r)
    BY <1>1
  <2> QED
    BY <2>1, <2>2
<1>3. ASSUME NEW p \in Steps(r) PROVE p \in Nat /\ p \in PagesOf(r.addr, r.size)
  <2>1. PICK x \in Nat : p = Page(x) /\ r.addr <= x /\ x < End(r)
    BY <1>2
  <2>2. r.size # 0 /\ r.addr + r.size - 1 \in Nat /\ x <= r.addr + r.size - 1
    BY <1>1, <2>1
  <2>3. Page(r.addr) \in Nat /\ Page(x) \in Nat /\ Page(r.addr + r.size - 1) \in Nat
    BY <1>1, <2>2, PageIs
  <2>4. Page(r.addr) <= Page(x) /\ Page(x) <= Page(r.addr + r.size - 1)
    BY <1>1, <2>1, <2>2, PageMono
  <2> QED
    BY <2>1, <2>2, <2>3, <2>4 DEF PagesOf
<1>4. IsFiniteSet(Steps(r))
  <2>1. CASE r.size = 0
    <3>1. Steps(r) = {}
      BY <1>1, <1>2, <2>1
    <3> QED
      BY <3>1, FS_EmptySet
  <2>2. CASE r.size # 0
    <3>1. Page(r.addr) \in Int /\ Page(r.addr + r.size - 1) \in Int
      BY <1>1, <2>2, PageIs
    <3>2. IsFiniteSet(Page(r.addr)..Page(r.addr + r.size - 1))
      BY <3>1, FS_Interval
    <3>3. Steps(r) \subseteq Page(r.addr)..Page(r.addr + r.size - 1)
      BY <1>3, <2>2 DEF PagesOf
    <3> QED
      BY <3>2, <3>3, FS_Subset
  <2> QED
    BY <2>1, <2>2
<1> QED
  BY <1>2, <1>3, <1>4

(* The pages of one region, with its number. *)
CopiesOf(a, i) == {<<i, p>> : p \in Steps(a.regs[i])}

LEMMA CopiesAre ==
    ASSUME NEW a, a.regs \in Seq(Region)
    PROVE  /\ IsFiniteSet(Copies(a)) /\ Copies(a) \subseteq Nat \X Nat
           /\ \A i, p : <<i, p>> \in Copies(a) <=> i \in 1..Len(a.regs) /\ p \in Steps(a.regs[i])
<1> DEFINE I == 1..Len(a.regs)
           All == {CopiesOf(a, i) : i \in I}
           f == [i \in I |-> CopiesOf(a, i)]
<1>1. Copies(a) = UNION All
  BY DEF Copies, CopiesOf
<1>2. ASSUME NEW i \in I
      PROVE  i \in Nat /\ Steps(a.regs[i]) \subseteq Nat /\ IsFiniteSet(Steps(a.regs[i]))
  <2>1. a.regs[i] \in Region
    OBVIOUS
  <2> QED
    BY <2>1, StepsAre
<1>3. ASSUME NEW i \in I PROVE IsFiniteSet(CopiesOf(a, i))
  <2> DEFINE g == [p \in Steps(a.regs[i]) |-> <<i, p>>]
  <2>1. g \in Surjection(Steps(a.regs[i]), CopiesOf(a, i))
    BY DEF Surjection, CopiesOf
  <2> HIDE DEF g
  <2> QED
    BY <1>2, <2>1, FS_Surjection
<1>4. IsFiniteSet(All)
  <2>1. f \in Surjection(I, All)
    BY DEF Surjection
  <2>2. IsFiniteSet(I)
    BY FS_Interval
  <2> HIDE DEF f, All, I
  <2> QED
    BY <2>1, <2>2, FS_Surjection
<1>5. IsFiniteSet(UNION All)
  <2>1. \A T \in All : IsFiniteSet(T)
    BY <1>3
  <2> HIDE DEF All
  <2> QED
    BY <1>4, <2>1, FS_UNION
<1>6. ASSUME NEW c \in Copies(a) PROVE \E i \in I : \E p \in Steps(a.regs[i]) : c = <<i, p>>
  BY DEF Copies
<1>7. Copies(a) \subseteq Nat \X Nat
  BY <1>2, <1>6
<1>8. ASSUME NEW i, NEW p, <<i, p>> \in Copies(a) PROVE i \in I /\ p \in Steps(a.regs[i])
  <2>1. PICK j \in I : \E q \in Steps(a.regs[j]) : <<i, p>> = <<j, q>>
    BY <1>6, <1>8
  <2> QED
    BY <2>1
<1>9. ASSUME NEW i \in I, NEW p \in Steps(a.regs[i]) PROVE <<i, p>> \in Copies(a)
  BY DEF Copies
<1> QED
  BY <1>1, <1>5, <1>7, <1>8, <1>9

(* The order in which pages are copied, and the number of a page in it. *)
UpTo(d, c) == d[1] < c[1] \/ (d[1] = c[1] /\ d[2] <= c[2])
Turn(S, c) == Cardinality({d \in S : UpTo(d, c)})

LEMMA TurnIs ==
    ASSUME NEW S \in SUBSET (Nat \X Nat), IsFiniteSet(S)
    PROVE  /\ Cardinality(S) \in Nat
           /\ \A c \in S : Turn(S, c) \in 1..Cardinality(S)
           /\ \A c, d \in S : Turn(S, c) = Turn(S, d) => c = d
<1> DEFINE Low(c) == {d \in S : UpTo(d, c)}
<1>0. ASSUME NEW c \in S PROVE c[1] \in Nat /\ c[2] \in Nat /\ c = <<c[1], c[2]>>
  OBVIOUS
<1>1. Cardinality(S) \in Nat
  BY FS_CardinalityType
<1>2. ASSUME NEW c \in S
      PROVE  IsFiniteSet(Low(c)) /\ Cardinality(Low(c)) \in 1..Cardinality(S) /\ c \in Low(c)
             /\ Turn(S, c) = Cardinality(Low(c))
  <2>1. Low(c) \in SUBSET S /\ c \in Low(c)
    BY <1>0 DEF UpTo
  <2>2. Turn(S, c) = Cardinality(Low(c))
    BY DEF Turn
  <2> HIDE DEF Low
  <2>3. IsFiniteSet(Low(c)) /\ Cardinality(Low(c)) <= Cardinality(S)
    BY <2>1, FS_Subset
  <2>4. Cardinality(Low(c)) \in Nat /\ Cardinality(Low(c)) # 0
    <3>1. Low(c) # {}
      BY <2>1
    <3> QED
      BY <2>3, <3>1, FS_CardinalityType, FS_EmptySet
  <2> QED
    BY <1>1, <2>1, <2>2, <2>3, <2>4
<1>3. ASSUME NEW c \in S, NEW d \in S, UpTo(c, d), c # d PROVE Turn(S, c) # Turn(S, d)
  <2>0. c[1] \in Nat /\ c[2] \in Nat /\ d[1] \in Nat /\ d[2] \in Nat
    BY <1>0
  <2>1. ~UpTo(d, c)
    <3>1. c[1] # d[1] \/ c[2] # d[2]
      BY <1>0, <1>3
    <3> QED
      BY <1>3, <2>0, <3>1 DEF UpTo
  <2>2. Low(c) \in SUBSET Low(d)
    <3> SUFFICES ASSUME NEW x \in S, UpTo(x, c) PROVE UpTo(x, d)
      OBVIOUS
    <3>1. x[1] \in Nat /\ x[2] \in Nat
      BY <1>0
    <3> QED
      BY <1>3, <2>0, <3>1 DEF UpTo
  <2>3. d \in Low(d) /\ d \notin Low(c)
    BY <1>2, <2>1
  <2>4. Low(c) # Low(d)
    BY <2>3
  <2>5. IsFiniteSet(Low(d)) /\ Turn(S, c) = Cardinality(Low(c)) /\ Turn(S, d) = Cardinality(Low(d))
    BY <1>2
  <2> HIDE DEF Low
  <2> QED
    BY <2>2, <2>4, <2>5, FS_Subset
<1>4. ASSUME NEW c \in S, NEW d \in S, Turn(S, c) = Turn(S, d) PROVE c = d
  <2>1. c[1] \in Nat /\ c[2] \in Nat /\ d[1] \in Nat /\ d[2] \in Nat
    BY <1>0
  <2>2. UpTo(c, d) \/ UpTo(d, c)
    BY <2>1 DEF UpTo
  <2> QED
    BY <1>3, <1>4, <2>2
<1>5. ASSUME NEW c \in S PROVE Turn(S, c) \in 1..Cardinality(S)
  <2> HIDE DEF Low
  <2> QED
    BY <1>2
<1> QED
  BY <1>1, <1>4, <1>5

(* What _fork_aspace returns: a space with the same regions, with a page wherever
   the walk over the regions comes by.  The rest of its tables is as it was. *)
Walked(a, p) == \E i \in 1..Len(a.regs) : p \in Steps(a.regs[i])

Forking(m, a, dst, fr) ==
    /\ m \in Results /\ m.st \in {"ok", "panic"}
    /\ m.a.elf_end = a.elf_end /\ m.a.data_end = a.data_end /\ m.a.stack_end = a.stack_end
    /\ m.a.regs = a.regs
    /\ m.free \subseteq fr
    /\ m.st = "panic" => m.a = a /\ m.free = fr
    /\ m.st = "ok" => m.a.pd = dst.pd
    /\ m.st = "ok" => \A p \in UserPages :
          /\ Walked(a, p) => m.a.pt[p] # Absent
          /\ Walked(a, p) =>
                \E i \in 1..Len(a.regs) : p \in Steps(a.regs[i]) /\ m.a.pt[p].rw = a.regs[i].rw
          /\ Walked(a, p) /\ a.pt[p] # Absent => m.a.pt[p].frame \in fr \ m.free
          /\ ~Walked(a, p) => m.a.pt[p] = dst.pt[p]
    /\ m.st = "ok" => \A p, q \in UserPages :
          /\ Walked(a, p) /\ a.pt[p] # Absent /\ Walked(a, q) /\ a.pt[q] # Absent
          /\ m.a.pt[p].frame = m.a.pt[q].frame
          => p = q

LEMMA ForkAspace ==
    ASSUME NEW a \in Space, NEW dst \in Space, NEW fr \in SUBSET (Frames \cup {0})
    PROVE  Forking(_fork_aspace(a, dst, fr), a, dst, fr)
<1> DEFINE needed == {c \in Copies(a) : a.pt[c[2]] # Absent}
           I == 1..Len(a.regs)
           last(p) == Max({i \in I : <<i, p>> \in Copies(a)})
           walked(p) == \E i \in I : <<i, p>> \in Copies(a)
           k(p) == Turn(needed, <<last(p), p>>)
           pt == [p \in UserPages |-> IF walked(p) THEN fork_entry(a, fr, last(p), p, k(p)) ELSE dst.pt[p]]
           n == Cardinality(needed)
           fr2 == fr \ Lowest(fr, n)
<1>0. _fork_aspace(a, dst, fr) =
        IF Cardinality(fr) < n THEN Result("panic", a, fr, 0)
        ELSE Result("ok", [a EXCEPT !.pt = pt, !.tables = dst.tables, !.pd = dst.pd], fr2, 0)
  BY DEF _fork_aspace, Turn, UpTo
<1>1. a.regs \in Seq(Region) /\ a.pt \in Table /\ dst.pt \in Table /\ dst.tables \in SUBSET Nat /\ dst.pd \in Frames \cup {0}
  BY SpaceIs
<1>2. IsFiniteSet(Copies(a)) /\ Copies(a) \subseteq Nat \X Nat
      /\ \A i, p : <<i, p>> \in Copies(a) <=> i \in I /\ p \in Steps(a.regs[i])
  BY <1>1, CopiesAre
<1>3. needed \in SUBSET (Nat \X Nat) /\ IsFiniteSet(needed)
  BY <1>2, FS_Subset
<1>4. /\ n \in Nat
      /\ \A c \in needed : Turn(needed, c) \in 1..n
      /\ \A c, d \in needed : Turn(needed, c) = Turn(needed, d) => c = d
  <2> HIDE DEF needed
  <2> QED
    BY <1>3, TurnIs
<1>5. fr \in SUBSET Int /\ fr \in SUBSET Nat /\ IsFiniteSet(fr) /\ Cardinality(fr) \in Nat
  BY FreeFinite, FS_CardinalityType
<1>7. ASSUME NEW p \in UserPages PROVE walked(p) <=> Walked(a, p)
  BY <1>2 DEF Walked
<1>8. ASSUME NEW p \in UserPages, walked(p) PROVE last(p) \in I /\ <<last(p), p>> \in Copies(a) /\ p \in Steps(a.regs[last(p)])
  <2> DEFINE T == {i \in I : <<i, p>> \in Copies(a)}
  <2>1. T \in SUBSET (0..Len(a.regs)) /\ T # {} /\ Len(a.regs) \in Nat
    BY <1>1, <1>8
  <2>2. Max(T) \in T
    <3> HIDE DEF T
    <3> QED
      BY <2>1, MaxIs
  <2> QED
    BY <1>2, <2>2
<1>9. PICK m : m = _fork_aspace(a, dst, fr)
  OBVIOUS
<1>10. CASE Cardinality(fr) < n
  <2>1. m = Result("panic", a, fr, 0)
    BY <1>0, <1>9, <1>10
  <2>2. m \in Results /\ m.st = "panic" /\ m.a = a /\ m.free = fr
    BY <2>1 DEF Result, Results, Outcomes
  <2>3. Forking(m, a, dst, fr)
    BY <2>2 DEF Forking
  <2> QED
    BY <1>9, <2>3
<1>11. CASE ~(Cardinality(fr) < n)
  <2>1. ASSUME NEW c \in needed
        PROVE  /\ Nth(fr, Turn(needed, c)) \in fr /\ Nth(fr, Turn(needed, c)) \in Lowest(fr, n)
               /\ Rank(fr, Nth(fr, Turn(needed, c))) = Turn(needed, c)
    <3> HIDE DEF n, needed
    <3>1. Turn(needed, c) \in 1..n /\ n <= Cardinality(fr)
      BY <1>4, <1>5, <1>11
    <3> QED
      BY <1>4, <1>5, <3>1, NthIs
  <2>2. ASSUME NEW p \in UserPages, walked(p)
        PROVE  pt[p] = fork_entry(a, fr, last(p), p, k(p))
    BY <2>2
  <2>3. ASSUME NEW p \in UserPages, ~walked(p) PROVE pt[p] = dst.pt[p]
    BY <2>3
  <2>4. ASSUME NEW p \in UserPages, walked(p), a.pt[p] # Absent
        PROVE  /\ <<last(p), p>> \in needed
               /\ pt[p].frame = Nth(fr, k(p)) /\ pt[p].frame \in fr /\ pt[p].frame \in Lowest(fr, n)
               /\ Rank(fr, pt[p].frame) = k(p)
    <3>1. <<last(p), p>> \in Copies(a)
      BY <1>8, <2>4
    <3>2. <<last(p), p>> \in needed
      <4> HIDE DEF last
      <4> QED
        BY <2>4, <3>1
    <3>3. pt[p].frame = Nth(fr, k(p))
      <4>1. pt[p] = fork_entry(a, fr, last(p), p, k(p)) /\ a.pt[p] # Absent
        BY <2>2, <2>4
      <4> HIDE DEF k, last, pt
      <4> QED
        BY <4>1 DEF fork_entry
    <3> HIDE DEF needed, last, pt
    <3> QED
      BY <2>1, <3>2, <3>3
  <2>5. ASSUME NEW p \in UserPages, walked(p)
        PROVE  pt[p] # Absent /\ pt[p] \in Entry /\ last(p) \in I /\ p \in Steps(a.regs[last(p)])
               /\ pt[p].rw = a.regs[last(p)].rw
    <3>1. last(p) \in I /\ p \in Steps(a.regs[last(p)])
      BY <1>8, <2>5
    <3>2. a.pt[p] # Absent => Nth(fr, k(p)) \in fr
      BY <2>4, <2>5
    <3>3. pt[p] = fork_entry(a, fr, last(p), p, k(p))
      BY <2>2, <2>5
    <3> HIDE DEF last, k, pt
    <3>4. a.regs[last(p)] \in Region
      BY <1>1, <3>1
    <3>5. a.regs[last(p)].rw \in BOOLEAN
      BY <3>4, EndIsNat, Zenon
    <3>6. PICK f : f = IF a.pt[p] = Absent THEN 0 ELSE Nth(fr, k(p))
      OBVIOUS
    <3>7. f \in Frames \cup {0}
      BY <3>2, <3>6
    <3>8. pt[p] = [frame |-> f, rw |-> a.regs[last(p)].rw]
      BY <3>3, <3>6, Zenon DEF fork_entry
    <3>9. pt[p] \in Entry /\ pt[p] # Absent
      BY <3>5, <3>7, <3>8, EntryIs
    <3> QED
      BY <3>1, <3>8, <3>9
  <2>6. pt \in Table
    <3>1. \A p \in UserPages : pt[p] \in Entry
      <4> SUFFICES ASSUME NEW p \in UserPages PROVE pt[p] \in Entry
        OBVIOUS
      <4>1. CASE walked(p)
        BY <2>5, <4>1
      <4>2. CASE ~walked(p)
        <5>1. pt[p] = dst.pt[p]
          BY <2>3, <4>2
        <5> HIDE DEF pt
        <5> QED
          BY <1>1, <5>1 DEF Table
      <4> HIDE DEF walked, pt
      <4> QED
        BY <4>1, <4>2
    <3>2. pt = [p \in UserPages |-> pt[p]]
      OBVIOUS
    <3> HIDE DEF pt
    <3> QED
      BY <3>1, <3>2 DEF Table
  <2> HIDE DEF pt
  <2>7. PICK b : b = [a EXCEPT !.pt = pt, !.tables = dst.tables, !.pd = dst.pd]
    OBVIOUS
  <2>8. /\ b \in Space /\ b.regs = a.regs /\ b.pt = pt /\ b.pd = dst.pd
        /\ b.elf_end = a.elf_end /\ b.data_end = a.data_end /\ b.stack_end = a.stack_end
    BY <1>1, <2>6, <2>7 DEF Space, Table
  <2>9. m = Result("ok", b, fr2, 0)
    BY <1>0, <1>9, <1>11, <2>7
  <2> HIDE DEF walked, last, k, fr2
  <2>10. m \in Results /\ m.st = "ok" /\ m.a = b /\ m.free = fr2 /\ fr2 \subseteq fr
    <3>1. fr2 \in SUBSET (Frames \cup {0}) /\ fr2 \subseteq fr
      BY DEF fr2
    <3> QED
      BY <2>8, <2>9, <3>1 DEF Result, Results, Outcomes
  <2>11. ASSUME NEW p \in UserPages
         PROVE  /\ Walked(a, p) => pt[p] # Absent
                /\ Walked(a, p) => \E i \in 1..Len(a.regs) : p \in Steps(a.regs[i]) /\ pt[p].rw = a.regs[i].rw
                /\ Walked(a, p) /\ a.pt[p] # Absent => pt[p].frame \in fr \ fr2
                /\ ~Walked(a, p) => pt[p] = dst.pt[p]
    <3>1. walked(p) <=> Walked(a, p)
      BY <1>7
    <3>2. walked(p) => \E i \in 1..Len(a.regs) : p \in Steps(a.regs[i]) /\ pt[p].rw = a.regs[i].rw
      BY <2>5
    <3>3. walked(p) /\ a.pt[p] # Absent => pt[p].frame \in fr \ fr2
      BY <2>4 DEF fr2
    <3>4. walked(p) => pt[p] # Absent
      BY <2>5
    <3>5. ~walked(p) => pt[p] = dst.pt[p]
      BY <2>3
    <3> QED
      BY <3>1, <3>2, <3>3, <3>4, <3>5
  <2>12. ASSUME NEW p \in UserPages, NEW q \in UserPages, Walked(a, p), a.pt[p] # Absent, Walked(a, q), a.pt[q] # Absent,
                pt[p].frame = pt[q].frame
         PROVE  p = q
    <3>1. walked(p) /\ walked(q)
      BY <1>7, <2>12
    <3>2. <<last(p), p>> \in needed /\ <<last(q), q>> \in needed /\ k(p) = k(q)
      BY <2>4, <2>12, <3>1
    <3>3. Turn(needed, <<last(p), p>>) = Turn(needed, <<last(q), q>>)
      BY <3>2 DEF k
    <3>4. <<last(p), p>> = <<last(q), q>>
      <4> HIDE DEF needed
      <4> QED
        BY <1>4, <3>2, <3>3
    <3> QED
      BY <3>4
  <2>13. Forking(m, a, dst, fr)
    <3> HIDE DEF fr2
    <3>1. m.a.pt = pt /\ m.free = fr2 /\ m.st = "ok" /\ m.a.regs = a.regs /\ m.a.pd = dst.pd
          /\ m.a.elf_end = a.elf_end /\ m.a.data_end = a.data_end /\ m.a.stack_end = a.stack_end
      BY <2>8, <2>10
    <3> QED
      BY <2>10, <2>11, <2>12, <3>1 DEF Forking
  <2> QED
    BY <1>9, <2>13
<1> QED
  BY <1>10, <1>11
-----------------------------------------------------------------------------
(* Loading a program *)

(* The address and the size of the regions of a segment. *)
FileUnit(seg) == IF seg.memsz > seg.filesz
                 THEN IF seg.filesz = 0 THEN PAGE_SIZE ELSE seg.filesz
                 ELSE seg.align
FileSize(seg) == aligned_size(seg.vaddr, seg.filesz, FileUnit(seg))
BssSize(seg) == aligned_size(seg.vaddr + seg.filesz, seg.memsz - seg.filesz, seg.align)

LoadsFile(f, m, seg) == Mapping(f, m.a, m.free, seg.vaddr, seg.filesz, FileSize(seg), seg.rw, Word)
LoadsBss(g, f, seg) ==
    Mapping(g, f.a, f.free, seg.vaddr + seg.filesz, seg.memsz - seg.filesz, BssSize(seg), seg.rw, Word)
HasBss(f, seg) == seg.memsz > seg.filesz /\ f.st \in {"ok", "nothing"}

(* From the result m of the segments before, segment seg leads to w. *)
Loads(w, m, seg) ==
    /\ w \in Results
    /\ \E f, g : /\ LoadsFile(f, m, seg)
                 /\ IF HasBss(f, seg) THEN LoadsBss(g, f, seg) ELSE g = f
                 /\ w.a = g.a /\ w.free = g.free /\ w.st = g.st
    /\ w.ret = RoundUp(seg.vaddr + seg.memsz, seg.align)

LEMMA SegmentIs ==
    ASSUME NEW seg \in Segment
    PROVE  /\ seg.vaddr \in Nat /\ seg.vaddr > 0 /\ seg.filesz \in Nat /\ seg.memsz \in Nat
           /\ seg.align \in Nat /\ seg.align > 0 /\ seg.rw \in BOOLEAN
           /\ RoundUp(seg.vaddr + seg.memsz, seg.align) \in Nat
           /\ seg.vaddr + seg.memsz <= RoundUp(seg.vaddr + seg.memsz, seg.align)
<1>1. seg.vaddr \in Nat /\ seg.vaddr > 0 /\ seg.filesz \in Nat /\ seg.memsz \in Nat
      /\ seg.align \in Nat /\ seg.align > 0
  BY DEF Segment
<1>2. seg.rw \in BOOLEAN
  BY Zenon DEF Segment
<1>3. seg.vaddr + seg.memsz \in Nat
  BY <1>1
<1> QED
  BY <1>1, <1>2, <1>3, RoundUpIs

LEMMA SegmentSizes ==
    ASSUME NEW seg \in Segment
    PROVE  /\ FileUnit(seg) \in Nat /\ FileUnit(seg) > 0 /\ FileSize(seg) \in Nat
           /\ seg.memsz > seg.filesz => BssSize(seg) \in Nat /\ seg.memsz - seg.filesz \in Nat
           /\ seg.memsz > seg.filesz => FileSize(seg) = seg.filesz
<1>1. seg.vaddr \in Nat /\ seg.filesz \in Nat /\ seg.memsz \in Nat /\ seg.align \in Nat /\ seg.align > 0
      /\ PAGE_SIZE \in Nat /\ PAGE_SIZE > 0
  BY SegmentIs, Machine
<1>2. FileUnit(seg) \in Nat /\ FileUnit(seg) > 0
  BY <1>1 DEF FileUnit
<1>3. FileSize(seg) \in Nat /\ (seg.filesz = 0 => FileSize(seg) = 0)
  BY <1>1, <1>2, AlignedSize DEF FileSize
<1>4. ASSUME seg.memsz > seg.filesz PROVE BssSize(seg) \in Nat /\ seg.memsz - seg.filesz \in Nat
  <2>1. seg.memsz - seg.filesz \in Nat /\ seg.vaddr + seg.filesz \in Nat
    BY <1>1, <1>4
  <2> QED
    BY <1>1, <2>1, AlignedSize DEF BssSize
<1>5. ASSUME seg.memsz > seg.filesz, seg.filesz # 0 PROVE FileSize(seg) = seg.filesz
  <2>1. FileUnit(seg) = seg.filesz
    BY <1>5 DEF FileUnit
  <2>2. seg.filesz > 0 /\ seg.filesz * 1 <= seg.filesz /\ seg.filesz < seg.filesz * 1 + seg.filesz
    BY <1>1, <1>5
  <2>3. seg.filesz % seg.filesz = seg.filesz - seg.filesz * 1
    BY <1>1, <2>2, DivIs
  <2>4. seg.filesz % seg.filesz = 0
    BY <1>1, <2>3
  <2> QED
    BY <2>1, <2>4 DEF FileSize, aligned_size
<1> QED
  BY <1>2, <1>3, <1>4, <1>5

(* A mapping at an address that is given. *)
LEMMA MmapThere ==
    ASSUME NEW a \in Space, NEW fr \in SUBSET (Frames \cup {0}), NEW hint \in Nat, hint # 0, NEW size \in Nat,
           NEW align \in Nat, NEW rw \in BOOLEAN, NEW avail \in Nat, NEW unit, unit = (IF align = 0 THEN PAGE_SIZE ELSE align)
    PROVE  Mapping(vmm_mmap_at(a, fr, hint, size, align, rw, avail), a, fr, hint, size, aligned_size(hint, size, unit), rw, avail)
<1>1. PICK asize : asize = aligned_size(hint, size, unit)
  OBVIOUS
<1>2. PICK addr : addr = IF hint = 0 THEN _find_free_area(a, asize) ELSE hint
  OBVIOUS
<1>3. addr = hint
  BY <1>2
<1> QED
  BY <1>1, <1>2, <1>3, MmapAt

LEMMA LoadSegment ==
    ASSUME NEW m \in Results, m.st = "ok", NEW seg \in Segment
    PROVE  Loads(load_segment(m, seg), m, seg)
<1>1. seg.vaddr \in Nat /\ seg.vaddr # 0 /\ seg.filesz \in Nat /\ seg.memsz \in Nat /\ seg.align \in Nat /\ seg.align > 0
      /\ seg.rw \in BOOLEAN /\ Word \in Nat /\ seg.vaddr + seg.filesz \in Nat /\ seg.vaddr + seg.filesz # 0
  BY SegmentIs, Machine
<1>2. m.a \in Space /\ m.free \in SUBSET (Frames \cup {0})
  BY DEF Results
<1>3. PICK al : al = IF seg.memsz > seg.filesz THEN seg.filesz ELSE seg.align
  OBVIOUS
<1>4. al \in Nat /\ FileUnit(seg) = IF al = 0 THEN PAGE_SIZE ELSE al
  BY <1>1, <1>3 DEF FileUnit
<1>5. PICK f : f = vmm_mmap_at(m.a, m.free, seg.vaddr, seg.filesz, al, seg.rw, Word)
  OBVIOUS
<1>6. LoadsFile(f, m, seg)
  BY <1>1, <1>2, <1>4, <1>5, MmapThere DEF LoadsFile, FileSize
<1>7. f \in Results /\ f.a \in Space /\ f.free \in SUBSET (Frames \cup {0})
  BY <1>6 DEF LoadsFile, Mapping, Results
<1>8. PICK ret \in Nat : ret = RoundUp(seg.vaddr + seg.memsz, seg.align)
  BY SegmentIs
<1>9. PICK g : g = IF HasBss(f, seg) THEN vmm_mmap_at(f.a, f.free, seg.vaddr + seg.filesz, seg.memsz - seg.filesz, seg.align, seg.rw, Word)
                                    ELSE f
  OBVIOUS
<1>10. load_segment(m, seg) = [g EXCEPT !.ret = ret]
  BY <1>3, <1>5, <1>8, <1>9 DEF load_segment, HasBss
<1>11. ASSUME HasBss(f, seg) PROVE LoadsBss(g, f, seg)
  <2>1. seg.memsz - seg.filesz \in Nat /\ seg.align # 0
    BY <1>1, <1>11 DEF HasBss
  <2>2. PICK u : u = IF seg.align = 0 THEN PAGE_SIZE ELSE seg.align
    OBVIOUS
  <2>3. u = seg.align
    BY <2>1, <2>2
  <2>4. Mapping(g, f.a, f.free, seg.vaddr + seg.filesz, seg.memsz - seg.filesz,
                aligned_size(seg.vaddr + seg.filesz, seg.memsz - seg.filesz, u), seg.rw, Word)
    BY <1>1, <1>7, <1>9, <1>11, <2>1, <2>2, MmapThere
  <2> QED
    BY <2>3, <2>4 DEF LoadsBss, BssSize
<1>12. g \in Results
  BY <1>7, <1>9, <1>11 DEF LoadsBss, Mapping
<1>13. PICK w : w = [g EXCEPT !.ret = ret]
  OBVIOUS
<1>14. w \in Results /\ w.a = g.a /\ w.free = g.free /\ w.st = g.st /\ w.ret = ret
  BY <1>12, <1>13 DEF Results
<1>15. IF HasBss(f, seg) THEN LoadsBss(g, f, seg) ELSE g = f
  BY <1>9, <1>11
<1>16. Loads(w, m, seg)
  BY <1>6, <1>8, <1>14, <1>15 DEF Loads
<1> QED
  BY <1>10, <1>13, <1>16

(* When each segment leads from one set of results to the next, the whole
   program ends in the last one. *)
LEMMA ElfLoad ==
    ASSUME NEW a, NEW fr, NEW prog \in Seq(Segment), NEW S,
           Result("ok", a, fr, 0) \in S[0],
           \A k \in 1..Len(prog) : \A m \in S[k - 1] : load_segment(m, prog[k]) \in S[k]
    PROVE  \E m \in S[Len(prog)] : elf_load(a, fr, prog) = set_ends(m)
<1> DEFINE start == Result("ok", a, fr, 0)
           n == Len(prog)
           loaded[k \in 0..Len(prog)] == IF k = 0 THEN Result("ok", a, fr, 0)
                                         ELSE load_segment(loaded[k - 1], prog[k])
           G == [k \in 0..n |-> [m \in S[k - 1] |-> load_segment(m, prog[k])]]
<1>1. elf_load(a, fr, prog) = set_ends(loaded[Len(prog)])
  BY Zenon DEF elf_load
<1>2. n \in Nat /\ n \in Int /\ 0 \in Int /\ n \in 0..n
  OBVIOUS
<1>3. PICK f : Runs(f, 0, n, start, G) /\ \A k \in 0..n : f[k] \in S[k]
  <2>1. start \in S[0]
    OBVIOUS
  <2>2. ASSUME NEW k \in 0..n, k # 0, NEW m \in S[k - 1] PROVE G[k][m] \in S[k]
    <3>1. k \in 1..n
      BY <2>2
    <3>2. G[k][m] = load_segment(m, prog[k])
      OBVIOUS
    <3> HIDE DEF G
    <3> QED
      BY <3>1, <3>2
  <2> HIDE DEF G, n, start
  <2> QED
    BY <1>2, <2>1, <2>2, RunExists
<1>4. ASSUME NEW k \in 0..n
      PROVE  f[k] = (IF k = 0 THEN start ELSE load_segment(f[k - 1], prog[k])) /\ f[k] \in S[k]
  <2>1. f[k] = IF k = 0 THEN start ELSE G[k][f[k - 1]]
    <3> HIDE DEF G, n, start
    <3> QED
      BY <1>3 DEF Runs
  <2>2. f[k] \in S[k]
    BY <1>3
  <2>3. CASE k = 0
    BY <2>1, <2>2, <2>3
  <2>4. CASE k # 0
    <3>1. k - 1 \in 0..n
      BY <1>2, <2>4
    <3>2. f[k - 1] \in S[k - 1]
      BY <1>3, <3>1
    <3>3. G[k][f[k - 1]] = load_segment(f[k - 1], prog[k])
      BY <3>2
    <3> HIDE DEF G
    <3> QED
      BY <2>1, <2>2, <2>4, <3>3
  <2> QED
    BY <2>3, <2>4
<1>5. f = [k \in 0..Len(prog) |-> IF k = 0 THEN Result("ok", a, fr, 0)
                                  ELSE load_segment(f[k - 1], prog[k])]
  <2>1. f = [k \in 0..n |-> f[k]]
    <3> HIDE DEF G, n, start
    <3> QED
      BY <1>3 DEF Runs
  <2> QED
    BY <1>4, <2>1, Zenon
<1>6. loaded = [k \in 0..Len(prog) |-> IF k = 0 THEN Result("ok", a, fr, 0)
                                       ELSE load_segment(loaded[k - 1], prog[k])]
  BY <1>5, Zenon
<1> HIDE DEF loaded, G, n
<1>7. \A k \in 0..n : loaded[k] = f[k]
  <2>1. loaded[0] = f[0]
    BY <1>2, <1>5, <1>6 DEF n
  <2>2. ASSUME NEW k \in 0..n, k # 0, loaded[k - 1] = f[k - 1] PROVE loaded[k] = f[k]
    <3>1. k \in 0..Len(prog)
      BY DEF n
    <3>2. f[k] = load_segment(f[k - 1], prog[k]) /\ loaded[k] = load_segment(loaded[k - 1], prog[k])
      BY <1>5, <1>6, <2>2, <3>1
    <3> QED
      BY <2>2, <3>2, Zenon
  <2>3. \A k \in 0..n : k # 0 /\ loaded[k - 1] = f[k - 1] => loaded[k] = f[k]
    BY <2>2
  <2>4. InStep(loaded, f, 0, n)
    BY <2>1, <2>3, Zenon DEF InStep
  <2>5. Agree(loaded, f, 0, n)
    BY <1>2, <2>4, SameSteps
  <2> QED
    BY <2>5, Zenon DEF Agree
<1>8. loaded[n] \in S[n]
  BY <1>2, <1>4, <1>7
<1> QED
  BY <1>1, <1>8 DEF n

LEMMA EmptySpaceIs ==
    ASSUME NEW pd \in Frames \cup {0}, NEW a, a = EmptySpace(pd)
    PROVE  a \in Space /\ a.regs = <<>> /\ a.pt = Clear /\ a.pd = pd
<1>1. Clear \in [UserPages -> Entry]
  BY EntryIs DEF Clear
<1>2. <<>> \in Seq(Region) /\ {} \in SUBSET Nat
  OBVIOUS
<1> QED
  BY <1>1, <1>2 DEF Space, EmptySpace

LEMMA ClearIs ==
    Clear \in Table /\ \A p \in UserPages : Clear[p] = Absent
BY EntryIs DEF Clear, Table

(* The end of the program becomes the break, and the stack is mapped. *)
WithEnds(a, ret) == [a EXCEPT !.elf_end = ret, !.data_end = ret]
StackEnd == VM_USER_STACK - StackSize

(* From the segments' result m, whose space gets its ends, to the new space. *)
Stacks(w, m) ==
    /\ w \in Results
    /\ m.st # "ok" => w.st = m.st /\ w.free = m.free
    /\ m.st = "ok" => \E s : /\ Mapping(s, WithEnds(m.a, m.ret), m.free, StackEnd, StackSize, StackSize, TRUE, Word)
                             /\ w.free = s.free /\ w.st = (IF s.st = "panic" THEN "panic" ELSE "ok")
                             /\ w.a.regs = s.a.regs /\ w.a.pt = s.a.pt
                             /\ w.a.elf_end = m.ret /\ w.a.data_end = m.ret /\ w.a.stack_end = StackEnd /\ w.a.pd = m.a.pd

LEMMA WithEndsIs ==
    ASSUME NEW a \in Space, NEW ret \in Nat, NEW b, b = WithEnds(a, ret)
    PROVE  b \in Space /\ b.regs = a.regs /\ b.pt = a.pt /\ b.elf_end = ret /\ b.data_end = ret /\ b.pd = a.pd
BY DEF WithEnds, Space

LEMMA WithEndsSpace ==
    ASSUME NEW m \in Results, NEW b, b = WithEnds(m.a, m.ret)
    PROVE  b \in Space /\ b.regs = m.a.regs /\ b.pt = m.a.pt
<1>1. m.a \in Space /\ m.ret \in Nat
  BY DEF Results
<1> QED
  BY <1>1, WithEndsIs

LEMMA StackIs ==
    /\ StackEnd \in Nat /\ StackEnd >= PAGE_SIZE /\ StackEnd # 0 /\ StackEnd + StackSize = VM_USER_STACK
    /\ aligned_size(StackEnd, StackSize, PAGE_SIZE) = StackSize
<1>1. StackSize % PAGE_SIZE = 0
  BY VmmAssumption
<1> QED
  BY <1>1, Machine DEF StackEnd, aligned_size

LEMMA MapStack ==
    ASSUME NEW m \in Results
    PROVE  Stacks(map_stack(set_ends(m)), m)
<1>1. m.a \in Space /\ m.free \in SUBSET (Frames \cup {0}) /\ m.ret \in Nat /\ m.st \in Outcomes
  BY DEF Results
<1>2. PICK b : b = WithEnds(m.a, m.ret)
  OBVIOUS
<1>3. b \in Space /\ b.elf_end = m.ret /\ b.data_end = m.ret /\ b.regs = m.a.regs /\ b.pt = m.a.pt /\ b.pd = m.a.pd
  BY <1>1, <1>2, WithEndsIs
<1>4. set_ends(m) = [m EXCEPT !.a = b]
  BY <1>2 DEF set_ends, WithEnds, Results, Space
<1>5. PICK e : e = set_ends(m)
  OBVIOUS
<1>6. e \in Results /\ e.a = b /\ e.free = m.free /\ e.st = m.st
  BY <1>3, <1>4, <1>5 DEF Results
<1>7. PICK s : s = vmm_mmap_at(b, m.free, StackEnd, StackSize, 0, TRUE, Word)
  OBVIOUS
<1>8. Mapping(s, b, m.free, StackEnd, StackSize, StackSize, TRUE, Word)
  <2>1. StackEnd \in Nat /\ StackEnd # 0 /\ StackSize \in Nat /\ Word \in Nat /\ 0 \in Nat
    BY StackIs, Machine
  <2>2. PICK u : u = IF 0 = 0 THEN PAGE_SIZE ELSE 0
    OBVIOUS
  <2>3. Mapping(s, b, m.free, StackEnd, StackSize, aligned_size(StackEnd, StackSize, u), TRUE, Word)
    BY <1>1, <1>3, <1>7, <2>1, <2>2, MmapThere
  <2>4. aligned_size(StackEnd, StackSize, u) = StackSize
    BY <2>2, StackIs
  <2> QED
    BY <2>3, <2>4
<1>9. s \in Results /\ SameEnds(b, s.a) /\ s.a \in Space
  BY <1>8 DEF Mapping, Results
<1>10. PICK w : w = map_stack(e)
  OBVIOUS
<1>11. CASE m.st # "ok"
  <2>1. w = e
    BY <1>6, <1>10, <1>11 DEF map_stack
  <2>2. Stacks(w, m)
    BY <1>6, <1>11, <2>1 DEF Stacks
  <2> QED
    BY <1>5, <1>10, <2>2
<1>12. CASE m.st = "ok"
  <2>1. PICK st : st = IF s.st = "panic" THEN "panic" ELSE "ok"
    OBVIOUS
  <2>2. PICK c : c = [s.a EXCEPT !.stack_end = StackEnd]
    OBVIOUS
  <2>3. c \in Space /\ c.regs = s.a.regs /\ c.pt = s.a.pt /\ c.elf_end = m.ret /\ c.data_end = m.ret /\ c.stack_end = StackEnd
        /\ c.pd = m.a.pd
    <3>1. s.a.elf_end = m.ret /\ s.a.data_end = m.ret /\ s.a.pd = m.a.pd
      BY <1>3, <1>9 DEF SameEnds
    <3> QED
      BY <1>9, <2>2, <3>1, StackIs DEF Space
  <2>4. w = [s EXCEPT !.st = st, !.a = c]
    BY <1>6, <1>7, <1>9, <1>10, <1>12, <2>1, <2>2 DEF map_stack, StackEnd, Results, Space
  <2>5. st \in Outcomes
    BY <2>1 DEF Outcomes
  <2>6. w \in Results /\ w.st = st /\ w.a = c /\ w.free = s.free
    BY <1>9, <2>3, <2>4, <2>5 DEF Results
  <2>7. Stacks(w, m)
    BY <1>2, <1>8, <1>12, <2>1, <2>3, <2>6 DEF Stacks
  <2> QED
    BY <1>5, <1>10, <2>7
<1> QED
  BY <1>11, <1>12

(* The whole of do_execve's work on the new space, as a chain of results. *)
Chain(S, a, fr, prog) ==
    /\ \A k \in 0..Len(prog) : S[k] \subseteq Results
    /\ Result("ok", a, fr, 0) \in S[0]
    /\ \A k \in 1..Len(prog) : \A m \in S[k - 1] : m.st # "ok" => m \in S[k]
    /\ \A k \in 1..Len(prog) : \A m \in S[k - 1] : \A w :
          m.st = "ok" /\ Loads(w, m, prog[k]) => w \in S[k]

LEMMA ExecveSpace ==
    ASSUME NEW a, NEW fr \in SUBSET (Frames \cup {0}), NEW prog \in Seq(Segment), NEW S, Chain(S, a, fr, prog)
    PROVE  \E m \in S[Len(prog)] : m \in Results /\ Stacks(execve_space(a, fr, prog), m)
<1>1. ASSUME NEW k \in 1..Len(prog), NEW m \in S[k - 1] PROVE load_segment(m, prog[k]) \in S[k]
  <2>1. CASE m.st # "ok"
    <3>1. load_segment(m, prog[k]) = m
      BY <2>1 DEF load_segment
    <3> QED
      BY <2>1, <3>1 DEF Chain
  <2>2. CASE m.st = "ok"
    <3>1. prog[k] \in Segment
      OBVIOUS
    <3>2. m \in Results
      <4>1. k - 1 \in 0..Len(prog)
        OBVIOUS
      <4> QED
        BY <4>1 DEF Chain
    <3>3. Loads(load_segment(m, prog[k]), m, prog[k])
      BY <2>2, <3>1, <3>2, LoadSegment
    <3> QED
      BY <2>2, <3>3 DEF Chain
  <2> QED
    BY <2>1, <2>2
<1>2. Result("ok", a, fr, 0) \in S[0]
  BY DEF Chain
<1>3. PICK m \in S[Len(prog)] : elf_load(a, fr, prog) = set_ends(m)
  BY <1>1, <1>2, ElfLoad
<1>4. Len(prog) \in 0..Len(prog)
  OBVIOUS
<1>5. m \in Results
  BY <1>4 DEF Chain
<1>6. Stacks(map_stack(set_ends(m)), m)
  BY <1>5, MapStack
<1> QED
  BY <1>3, <1>5, <1>6 DEF execve_space

(* The first link of a chain. *)
LEMMA FirstResult ==
    ASSUME NEW a \in Space, NEW fr \in SUBSET (Frames \cup {0}), NEW m, m = Result("ok", a, fr, 0)
    PROVE  m \in Results /\ m.st = "ok" /\ m.a = a /\ m.free = fr /\ m.ret = 0
BY DEF Result, Results, Outcomes

-----------------------------------------------------------------------------
(* Page tables *)

(* From a to b, and from fr to fr1, page tables were made; u tells whether they
   held something. *)
Unclean == {"uncleared table"}

Prepared(a, fr, b, fr1, u) ==
    /\ b \in Space /\ b.regs = a.regs /\ SameEnds(a, b)
    /\ fr1 \subseteq fr
    /\ u \subseteq Unclean /\ (u = {} => b.pt = a.pt)

(* A new space and its tables, with the frames that are left. *)
Started(dst, fr, fr1, u) ==
    /\ dst \in Space /\ dst.regs = <<>>
    /\ fr1 \subseteq fr /\ dst.pd \in fr /\ dst.pd \notin fr1
    /\ u \subseteq Unclean /\ (u = {} => dst.pt = Clear)

LEMMA JunkIs ==
    ASSUME NEW fr, NEW old, NEW k, NEW junk \in JunkIn(fr, old, k)
    PROVE  junk \in Table
BY GarbageAssumption, ClearIs DEF JunkIn, Table

LEMMA TablesMade ==
    ASSUME NEW a \in Space, NEW S \in SUBSET UserPages, NEW junk \in Table, NEW b, b = make_tables(a, S, junk)
    PROVE  b \in Space /\ b.regs = a.regs /\ SameEnds(a, b)
<1> DEFINE new == missing_tables(a, S)
           behind(p) == \E q \in S : TableOf(q) = TableOf(p) /\ q < p
           before(p) == \A q \in S : TableOf(q) = TableOf(p) => p < q
           pt == [p \in UserPages |-> IF TableOf(p) \in new /\ (behind(p) \/ before(p)) THEN junk[p] ELSE a.pt[p]]
<1>1. a.pt \in Table /\ a.tables \in SUBSET Nat
  BY SpaceIs
<1>2. new \in SUBSET Nat
  <2>1. ASSUME NEW p \in S PROVE TableOf(p) \in Nat
    <3>1. p \in Nat /\ TableEntries \in Nat /\ TableEntries > 0
      BY VmmAssumption DEF UserPages
    <3> QED
      BY <3>1, DivMod DEF TableOf
  <2> QED
    BY <2>1 DEF missing_tables
<1>3. pt \in Table
  <2> HIDE DEF new, behind, before
  <2> QED
    BY <1>1 DEF Table
<1>4. b = [a EXCEPT !.tables = a.tables \cup new, !.pt = pt]
  BY DEF make_tables, Space
<1> HIDE DEF pt, new
<1> QED
  BY <1>1, <1>2, <1>3, <1>4 DEF Space, Table, SameEnds

LEMMA Preparing ==
    ASSUME NEW a \in Space, NEW fr, NEW S \in SUBSET UserPages, NEW junk \in Table,
           NEW b, b = make_tables(a, S, junk), NEW fr1, fr1 = without_tables(fr, a, S)
    PROVE  Prepared(a, fr, b, fr1, Unclear(a.pt, b.pt))
<1>1. b \in Space /\ b.regs = a.regs /\ SameEnds(a, b)
  BY TablesMade
<1>2. fr1 \subseteq fr
  BY DEF without_tables
<1> QED
  BY <1>1, <1>2 DEF Prepared, Unclear, Unclean

LEMMA Unprepared ==
    ASSUME NEW a \in Space, NEW fr
    PROVE  Prepared(a, fr, a, fr, {})
BY DEF Prepared, SameEnds

LEMMA Beginning ==
    ASSUME NEW fr \in SUBSET (Frames \cup {0}), fr # {}, NEW S \in SUBSET UserPages, NEW junk \in Table, NEW x,
           NEW dst, dst = make_tables(EmptySpace(Min(fr)), S, junk), NEW fr1, fr1 = without_tables(fr \ {Min(fr)}, x, S)
    PROVE  Started(dst, fr, fr1, Unclear(Clear, dst.pt))
<1>1. Min(fr) \in fr
  <2>1. fr \in SUBSET Nat
    BY FreeFinite
  <2> QED
    BY <2>1, MinIs
<1>2. PICK a : a = EmptySpace(Min(fr))
  OBVIOUS
<1>3. a \in Space /\ a.regs = <<>> /\ a.pt = Clear /\ a.pd = Min(fr)
  BY <1>1, <1>2, EmptySpaceIs
<1>4. dst \in Space /\ dst.regs = <<>> /\ dst.pd = Min(fr)
  <2>1. dst \in Space /\ dst.regs = a.regs /\ SameEnds(a, dst)
    BY <1>2, <1>3, TablesMade
  <2> QED
    BY <1>3, <2>1 DEF SameEnds
<1>5. fr1 \subseteq fr /\ Min(fr) \notin fr1
  BY DEF without_tables
<1> QED
  BY <1>1, <1>4, <1>5 DEF Started, Unclear, Unclean

-----------------------------------------------------------------------------
(* The steps of the system *)

(* What is unusual about a call. *)
Wraps(a, hint, size) == mmap_address(a, hint, size) + aligned_size(hint, size, PAGE_SIZE) >= Word
MmapOdd(a, hint, size, avail, m) ==
    {x \in {"fixed address", "unaligned address", "short file", "wraps around", "area in use"} :
        \/ x = "fixed address" /\ hint # 0 /\ hint % PAGE_SIZE = 0
        \/ x = "unaligned address" /\ hint % PAGE_SIZE # 0
        \/ x = "short file" /\ avail < size
        \/ x = "wraps around" /\ Wraps(a, hint, size)
        \/ x = "area in use" /\ hint = 0 /\ m.st = "ok" /\ InUse(a, m.ret, size)}
MunmapOdd(a, addr, i) ==
    IF /\ addr = a.regs[i].addr /\ a.regs[i].size = PAGE_SIZE /\ a.regs[i].addr % PAGE_SIZE = 0
       /\ a.regs[i].addr >= a.data_end /\ a.regs[i].addr # a.stack_end
    THEN {} ELSE {"odd munmap"}
BrkOdd(a, addr) ==
    {x \in {"shrink", "lost heap"} :
        \/ x = "shrink" /\ a.data_end - addr >= PAGE_SIZE
        \/ x = "lost heap" /\ ~HasHeap(a)}

(* The system calls that change the caller's space, and the access that maps a
   page: m is the result, `what' is unusual about it, d frames are freed twice. *)
Mmaps(a, fr, m, what, hint, size, rw, avail) ==
    /\ size + PAGE_SIZE <= Word /\ rw \in BOOLEAN
    /\ mmap_address(a, hint, size) \in Nat /\ aligned_size(hint, size, PAGE_SIZE) \in Nat
    /\ Mapping(m, a, fr, mmap_address(a, hint, size), size, aligned_size(hint, size, PAGE_SIZE), rw, avail)
    /\ what = MmapOdd(a, hint, size, avail, m)

Munmaps(a, fr, m, what, addr, i) ==
    /\ i = _find_region(a, addr) /\ i # 0
    /\ m = vmm_munmap(a, fr, addr) /\ Unmapping(m, a, fr, i)
    /\ what = MunmapOdd(a, addr, i)

Brks(a, fr, m, what, addr) ==
    /\ addr < Word
    /\ Breaking(m, a, fr, _find_region(a, a.elf_end + 1), addr)
    /\ what = BrkOdd(a, addr)

Accesses(a, fr, m, addr, i) ==
    /\ i = _find_region(a, addr) /\ i # 0 /\ fr # {} /\ a.pt[Page(addr)] = Absent
    /\ m \in Results /\ m.st = "ok" /\ SameEnds(a, m.a) /\ m.a.regs = a.regs
    /\ m.free = fr \ {Min(fr)}
    /\ m.a.pt = [a.pt EXCEPT ![Page(addr)] = [frame |-> Min(fr), rw |-> a.regs[i].rw]]

Evolves(a, fr, m, what, d) ==
    \/ /\ d = 0
       /\ \E hint \in Nat, size \in Nat, avail \in Nat : \E rw : Mmaps(a, fr, m, what, hint, size, rw, avail)
    \/ d = m.ret /\ \E addr \in UserAddresses, i \in Nat : Munmaps(a, fr, m, what, addr, i)
    \/ d = 0 /\ \E addr \in Nat : Brks(a, fr, m, what, addr)
    \/ /\ d = 0
       /\ \E addr \in UserAddresses, i \in Nat :
             Accesses(a, fr, m, addr, i) /\ (InRegion(a, addr) \/ "illegal access" \in what)
       /\ what \subseteq {"illegal access"}

(* The variables have their types, and every stack its place. *)
TypeInv ==
    /\ as = [t \in Spaces |-> as[t]]
    /\ \A t \in Live : as[t] \in Space /\ as[t].stack_end = StackEnd
    /\ free \subseteq Frames \cup {0}
    /\ touched \subseteq Frames \cup {0}
    /\ drift \in Nat
    /\ fault \in {"none", "refused", "repeats"}
    /\ status \in {"running", "panic", "corrupt", "wrapped"}

(* A step is one of these. *)
EvolveStep(t, b, fr, u, m, what, d) ==
    /\ Prepared(as[t], free, b, fr, u) /\ Evolves(b, fr, m, what, d)
    /\ as' = [as EXCEPT ![t] = m.a] /\ free' = m.free /\ drift' = drift + d
    /\ odd' = odd \cup u \cup what /\ status' = Halt(m) /\ fault' = fault
Evolution(t) == \E b, fr, u, m, what, d : EvolveStep(t, b, fr, u, m, what, d)

ForkStep(t, c, dst, fr, u, m) ==
    /\ Forking(m, as[t], dst, fr) /\ fr \subseteq free /\ (m.st = "ok" => Started(dst, free, fr, u))
    /\ as[c] = NULL /\ as' = [as EXCEPT ![c] = IF m.st = "ok" THEN m.a ELSE NULL]
    /\ free' = m.free /\ drift' = drift /\ status' = Halt(m) /\ fault' = fault
    /\ odd' = odd \cup (IF \E x \in Copies(as[t]) : as[t].pt[x[2]] = Absent THEN {"fork before use"} ELSE {})
                  \cup (IF m.st = "ok" THEN u ELSE {})

ExecveStep(t, prog, dst, fr, u, m) ==
    /\ \/ m.st = "panic" /\ m.free = free
       \/ Started(dst, free, fr, u) /\ m = execve_space(dst, fr, prog)
    /\ \/ as' = as /\ odd' = odd
       \/ m.st = "ok" /\ as' = [as EXCEPT ![t] = m.a] /\ odd' = odd \cup u
    /\ free' = m.free /\ drift' = drift /\ status' = Halt(m) /\ fault' = fault

AccessStep(t, addr, write, junk) ==
    /\ access(t, addr, write, junk)
    /\ as' = as /\ free' = free /\ drift' = drift
    /\ status' \in {status, "panic"} /\ odd \subseteq odd'

(* Spaces that agree on their regions and ends lead mmap to one address. *)
LEMMA SameAddress ==
    ASSUME NEW a \in Space, a.stack_end = StackEnd, NEW b, b.regs = a.regs, SameEnds(a, b),
           NEW hint, NEW size \in Nat
    PROVE  mmap_address(b, hint, size) = mmap_address(a, hint, size)
<1>1. a.stack_end >= PAGE_SIZE /\ aligned_size(0, size, PAGE_SIZE) \in Nat
  <2>1. PAGE_SIZE \in Nat /\ PAGE_SIZE > 0 /\ 0 \in Nat
    BY Machine
  <2>2. aligned_size(0, size, PAGE_SIZE) \in Nat
    BY <2>1, AlignedSize
  <2> QED
    BY <2>2, StackIs
<1> QED
  BY <1>1, SameSearch DEF mmap_address

LEMMA MmapStep ==
    ASSUME TypeInv, NEW t \in Live, NEW hint \in {0} \cup Hints, NEW size \in MmapSizes, NEW rw \in Protections,
           NEW avail \in {0, PAGE_SIZE, Word}, NEW junk \in Junk(1), mmap(t, hint, size, rw, avail, junk)
    PROVE  Evolution(t)
<1>1. as[t] \in Space /\ as[t].stack_end = StackEnd /\ free \in SUBSET (Frames \cup {0}) /\ drift \in Nat
  BY DEF TypeInv
<1>2. hint \in Nat /\ size \in Nat /\ rw \in BOOLEAN /\ avail \in Nat /\ PAGE_SIZE \in Nat /\ PAGE_SIZE > 0 /\ Word \in Nat
      /\ size + PAGE_SIZE <= Word
  <2>1. Hints \subseteq Nat /\ MmapSizes \subseteq 0..(Word - PAGE_SIZE) /\ Protections \subseteq BOOLEAN
    BY VmmAssumption
  <2>2. PAGE_SIZE \in Nat /\ PAGE_SIZE > 0 /\ Word \in Nat
    BY Machine
  <2>3. rw \in BOOLEAN
    BY <2>1, Zenon
  <2> QED
    BY <2>1, <2>2, <2>3
<1>3. PICK asize : asize = aligned_size(hint, size, PAGE_SIZE)
  OBVIOUS
<1>4. PICK addr : addr = mmap_address(as[t], hint, size)
  OBVIOUS
<1>5. addr = IF hint = 0 THEN _find_free_area(as[t], asize) ELSE hint
  BY <1>3, <1>4 DEF mmap_address
<1>6. addr \in Nat /\ asize \in Nat
  <2>1. PICK z \in Nat : z = 0
    OBVIOUS
  <2>2. PICK a \in Space : a = as[t]
    BY <1>1
  <2>3. PICK fr \in SUBSET (Frames \cup {0}) : fr = free
    BY <1>1
  <2>4. a.stack_end >= PAGE_SIZE
    BY <1>1, <2>2, StackIs
  <2>5. PICK u : u = IF z = 0 THEN PAGE_SIZE ELSE z
    OBVIOUS
  <2>6. asize = aligned_size(hint, size, u)
    BY <1>3, <2>1, <2>5
  <2>7. hint = 0 => a.stack_end >= PAGE_SIZE /\ z = 0 /\ size + PAGE_SIZE <= Word
    BY <1>2, <2>1, <2>4
  <2>8. PICK m : m = vmm_mmap_at(a, fr, hint, size, z, rw, avail)
    OBVIOUS
  <2>9. addr = IF hint = 0 THEN _find_free_area(a, asize) ELSE hint
    BY <1>5, <2>2
  <2>10. addr \in Nat /\ asize \in Nat /\ Mapping(m, a, fr, addr, size, asize, rw, avail)
    BY <1>2, <2>5, <2>6, <2>7, <2>8, <2>9, MmapAt
  <2> QED
    BY <2>10
<1>7. PICK S : S = mmap_pages(as[t], addr, size, asize, avail)
  OBVIOUS
<1>8. S \in SUBSET UserPages
  BY <1>7 DEF mmap_pages
<1>9. PICK b, fr : b = make_tables(as[t], S, junk) /\ fr = without_tables(free, as[t], S)
  OBVIOUS
<1>10. PICK u : u = Unclear(as[t].pt, b.pt)
  OBVIOUS
<1>11. Prepared(as[t], free, b, fr, u)
  <2>1. junk \in Table
    BY JunkIs DEF Junk
  <2> QED
    BY <1>1, <1>8, <1>9, <1>10, <2>1, Preparing
<1>12. b \in Space /\ b.regs = as[t].regs /\ SameEnds(as[t], b) /\ fr \in SUBSET (Frames \cup {0})
  BY <1>1, <1>11 DEF Prepared
<1>13. PICK m : m = mmap_area(b, fr, addr, size, asize, rw, avail)
  OBVIOUS
<1>14. Mapping(m, b, fr, addr, size, asize, rw, avail)
  BY <1>2, <1>6, <1>12, <1>13, MmapArea
<1>15. mmap_address(b, hint, size) = addr
  <2>1. PICK a \in Space : a = as[t]
    BY <1>1
  <2>2. a.stack_end = StackEnd /\ b.regs = a.regs /\ SameEnds(a, b)
    BY <1>1, <1>12, <2>1
  <2>3. mmap_address(b, hint, size) = mmap_address(a, hint, size)
    BY <1>2, <2>2, SameAddress
  <2> QED
    BY <1>4, <2>1, <2>3
<1>16. PICK what : what = MmapOdd(b, hint, size, avail, m)
  OBVIOUS
<1>17. Mmaps(b, fr, m, what, hint, size, rw, avail)
  BY <1>2, <1>3, <1>6, <1>14, <1>15, <1>16 DEF Mmaps
<1>18. Evolves(b, fr, m, what, 0)
  BY <1>2, <1>17 DEF Evolves
<1>19. Apply(t, m, u \cup what) /\ drift' = drift
  <2>1. PICK odds : odds = {x \in {"fixed address", "unaligned address", "short file", "wraps around", "area in use"} :
                      \/ x = "fixed address" /\ hint # 0 /\ hint % PAGE_SIZE = 0
                      \/ x = "unaligned address" /\ hint % PAGE_SIZE # 0
                      \/ x = "short file" /\ avail < size
                      \/ x = "wraps around" /\ addr + asize >= Word
                      \/ x = "area in use" /\ hint = 0 /\ m.st = "ok" /\ InUse(as[t], m.ret, size)}
    OBVIOUS
  <2>2. Apply(t, m, u \cup odds) /\ drift' = drift
    BY <1>3, <1>4, <1>7, <1>9, <1>10, <1>13, <2>1 DEF mmap
  <2>3. what = odds
    <3>1. InUse(b, m.ret, size) = InUse(as[t], m.ret, size)
      BY <1>12 DEF InUse
    <3>2. Wraps(b, hint, size) = (addr + asize >= Word)
      BY <1>3, <1>15 DEF Wraps
    <3> QED
      BY <1>16, <2>1, <3>1, <3>2 DEF MmapOdd
  <2> QED
    BY <2>2, <2>3
<1>20. EvolveStep(t, b, fr, u, m, what, 0)
  <2>1. drift + 0 = drift /\ odd \cup (u \cup what) = odd \cup u \cup what
    BY <1>1
  <2> QED
    BY <1>11, <1>18, <1>19, <2>1 DEF Apply, EvolveStep
<1> QED
  BY <1>20 DEF Evolution

LEMMA MunmapStep ==
    ASSUME TypeInv, NEW t \in Live, NEW addr \in UserAddresses, munmap(t, addr)
    PROVE  Evolution(t)
<1>1. as[t] \in Space /\ as[t].stack_end = StackEnd /\ free \in SUBSET (Frames \cup {0}) /\ drift \in Nat
  BY DEF TypeInv
<1>2. PICK i : i = _find_region(as[t], addr)
  OBVIOUS
<1>3. i # 0
  BY <1>2 DEF munmap
<1>4. i \in Nat
  <2>1. as[t].regs \in Seq(Region)
    BY <1>1, SpaceIs
  <2>2. i \in 0..Len(as[t].regs)
    BY <1>2, <2>1, FindRegion
  <2> QED
    BY <2>2
<1>5. PICK m : m = vmm_munmap(as[t], free, addr)
  OBVIOUS
<1>6. Unmapping(m, as[t], free, i)
  BY <1>1, <1>2, <1>3, <1>5, Munmap
<1>7. Munmaps(as[t], free, m, MunmapOdd(as[t], addr, i), addr, i)
  BY <1>2, <1>3, <1>5, <1>6 DEF Munmaps
<1>8. Evolves(as[t], free, m, MunmapOdd(as[t], addr, i), m.ret)
  BY <1>4, <1>7 DEF Evolves
<1>9. EvolveStep(t, as[t], free, {}, m, MunmapOdd(as[t], addr, i), m.ret)
  <2>1. Prepared(as[t], free, as[t], free, {})
    BY <1>1, Unprepared
  <2> QED
    BY <1>2, <1>5, <1>8, <2>1 DEF munmap, Apply, EvolveStep, MunmapOdd
<1> QED
  BY <1>9 DEF Evolution

LEMMA BrkStep ==
    ASSUME TypeInv, NEW t \in Live, NEW inc \in Breaks, brk(t, inc)
    PROVE  Evolution(t)
<1>1. as[t] \in Space /\ as[t].stack_end = StackEnd /\ free \in SUBSET (Frames \cup {0}) /\ drift \in Nat
  BY DEF TypeInv
<1>2. inc \in Int /\ as[t].data_end \in Nat
  BY <1>1, SpaceIs, VmmAssumption
<1>3. PICK addr : addr = (as[t].data_end + inc) % Word
  OBVIOUS
<1>4. addr \in Nat /\ addr < Word
  <2>0. PICK d \in Nat : d = as[t].data_end
    BY <1>2
  <2>1. PICK x \in Int : x = d + inc
    BY <1>2
  <2>2. Word \in Nat /\ Word > 0
    BY Machine
  <2>3. x % Word \in 0..(Word - 1)
    BY <2>2, DivMod
  <2>4. addr = x % Word
    BY <1>3, <2>0, <2>1
  <2> QED
    BY <2>2, <2>3, <2>4
<1>5. PICK m : m = vmm_set_brk(as[t], free, addr)
  OBVIOUS
<1>6. Breaking(m, as[t], free, _find_region(as[t], as[t].elf_end + 1), addr)
  BY <1>1, <1>4, <1>5, SetBrk
<1>7. Brks(as[t], free, m, BrkOdd(as[t], addr), addr)
  BY <1>4, <1>6 DEF Brks
<1>8. Evolves(as[t], free, m, BrkOdd(as[t], addr), 0)
  BY <1>4, <1>7 DEF Evolves
<1>9. EvolveStep(t, as[t], free, {}, m, BrkOdd(as[t], addr), 0)
  <2>1. drift + 0 = drift
    BY <1>1
  <2>2. Prepared(as[t], free, as[t], free, {})
    BY <1>1, Unprepared
  <2> QED
    BY <1>3, <1>5, <1>8, <2>1, <2>2 DEF brk, Apply, EvolveStep, BrkOdd
<1> QED
  BY <1>9 DEF Evolution

LEMMA AccessStepIs ==
    ASSUME TypeInv, status = "running", NEW t \in Live, NEW addr \in UserAddresses, NEW write \in BOOLEAN,
           NEW junk \in Junk(1), access(t, addr, write, junk)
    PROVE  AccessStep(t, addr, write, junk) \/ Evolution(t)
<1> DEFINE a == as[t]
           e == a.pt[Page(addr)]
           legal == InRegion(a, addr) /\ (write => Writable(a, addr))
           what == IF legal THEN {} ELSE {"illegal access"}
           i == _find_region(a, addr)
           b == make_tables(a, {Page(addr)}, junk)
           fr == without_tables(free, a, {Page(addr)})
           u == Unclear(a.pt, b.pt)
<1>1. a \in Space /\ free \in SUBSET (Frames \cup {0}) /\ drift \in Nat
  BY DEF TypeInv
<1>2. Page(addr) \in UserPages
  BY UserPage
<1>3. Prepared(a, free, b, fr, u)
  <2>1. junk \in Table /\ {Page(addr)} \in SUBSET UserPages
    BY <1>2, JunkIs DEF Junk
  <2> HIDE DEF a
  <2> QED
    BY <1>1, <2>1, Preparing
<1>4. b \in Space /\ b.regs = a.regs /\ SameEnds(a, b) /\ fr \in SUBSET (Frames \cup {0})
  <2> HIDE DEF a, b, fr, u
  <2> QED
    BY <1>1, <1>3 DEF Prepared
<1>a. b.regs \in Seq(Region) /\ b.pt \in Table /\ b.page_counter \in Int
  <2> HIDE DEF b
  <2> QED
    BY <1>4, SpaceIs
<1>5. \/ as' = as /\ free' = free /\ status' \in {status, "panic"} /\ drift' = drift /\ odd \subseteq odd'
      \/ /\ ~segfault(a, addr, write) /\ e = Absent /\ fr # {}
         /\ as' = [as EXCEPT ![t] = [b EXCEPT !.pt = pg_map_to(@, Page(addr), Min(fr), a.regs[i].rw),
                                              !.page_counter = @ + 1]]
         /\ free' = fr \ {Min(fr)} /\ fault' = fault /\ status' = status /\ drift' = drift
         /\ odd' = odd \cup what \cup (IF as'[t] = a THEN {} ELSE u)
  BY DEF access
<1>6. CASE as' = as /\ free' = free /\ status' \in {status, "panic"} /\ drift' = drift /\ odd \subseteq odd'
  BY <1>6 DEF AccessStep
<1>7. CASE /\ ~segfault(a, addr, write) /\ e = Absent /\ fr # {}
           /\ as' = [as EXCEPT ![t] = [b EXCEPT !.pt = pg_map_to(@, Page(addr), Min(fr), a.regs[i].rw),
                                                !.page_counter = @ + 1]]
           /\ free' = fr \ {Min(fr)} /\ fault' = fault /\ status' = status /\ drift' = drift
           /\ odd' = odd \cup what \cup (IF as'[t] = a THEN {} ELSE u)
  <2>0. i = _find_region(b, addr) /\ i # 0
    <3> HIDE DEF a, b
    <3> QED
      BY <1>4, <1>7 DEF segfault, _find_region
  <2>1. InRegion(a, addr) = InRegion(b, addr)
    <3> HIDE DEF a, b
    <3> QED
      BY <1>4 DEF InRegion
  <2>2. i \in Nat /\ b.regs[i] \in Region
    <3> HIDE DEF a, b, i
    <3> QED
      BY <1>a, <2>0, FindRegion
  <2>3. b.regs[i].rw \in BOOLEAN
    BY <2>2, EndIsNat, Zenon
  <2>4. Min(fr) \in Frames \cup {0}
    <3> HIDE DEF fr
    <3>1. fr \in SUBSET Nat
      BY <1>4, FreeFinite
    <3> QED
      BY <1>4, <1>7, <3>1, MinIs
  <2>5. b.pt[Page(addr)] = Absent
    <3>1. make_tables(a, {Page(addr)}, junk).pt[Page(addr)] = a.pt[Page(addr)]
      <4>1. PICK x \in Space : x = a
        BY <1>1
      <4>2. PICK p \in UserPages : p = Page(addr)
        BY <1>2
      <4>3. ~(\E q \in {p} : TableOf(q) = TableOf(p) /\ q < p) /\ ~(\A q \in {p} : TableOf(q) = TableOf(p) => p < q)
        BY DEF UserPages
      <4>4. make_tables(x, {p}, junk).pt[p] = x.pt[p]
        BY <4>3 DEF make_tables, Space
      <4> QED
        BY <4>1, <4>2, <4>4
    <3> QED
      BY <1>7, <3>1
  <2> HIDE DEF a, b, fr, i, e, u, what, legal
  <2>6. PICK x : x = [frame |-> Min(fr), rw |-> b.regs[i].rw]
    OBVIOUS
  <2>7. x \in Entry
    BY <2>3, <2>4, <2>6, EntryIs
  <2>8. PICK pt : pt = [b.pt EXCEPT ![Page(addr)] = x]
    OBVIOUS
  <2>9. pt \in Table
    BY <1>a, <2>7, <2>8 DEF Table
  <2>10. PICK c \in Int : c = b.page_counter + 1
    BY <1>a
  <2>11. PICK w : w = [b EXCEPT !.pt = pt, !.page_counter = c]
    OBVIOUS
  <2>12. w \in Space /\ SameEnds(b, w) /\ w.regs = b.regs /\ w.pt = pt
    BY <1>4, <2>9, <2>10, <2>11 DEF Space, Table, SameEnds
  <2>13. PICK m : m = Result("ok", w, fr \ {Min(fr)}, 0)
    OBVIOUS
  <2>14. m \in Results /\ m.st = "ok" /\ m.a = w /\ m.free = fr \ {Min(fr)}
    BY <1>4, <2>12, <2>13 DEF Result, Results, Outcomes
  <2>15. Accesses(b, fr, m, addr, i)
    BY <1>7, <2>0, <2>5, <2>6, <2>8, <2>12, <2>14 DEF Accesses
  <2>16. what \subseteq {"illegal access"} /\ (InRegion(b, addr) \/ "illegal access" \in what)
    BY <2>1 DEF what, legal
  <2>17. Evolves(b, fr, m, what, 0)
    BY <2>2, <2>15, <2>16 DEF Evolves
  <2>18. as' = [as EXCEPT ![t] = w]
    <3>1. a.regs[i].rw = b.regs[i].rw
      BY <1>4
    <3> QED
      BY <1>7, <2>6, <2>8, <2>10, <2>11, <3>1 DEF pg_map_to
  <2>19. Halt(m) = status /\ drift + 0 = drift
    BY <1>1, <2>14 DEF Halt
  <2>20. odd' = odd \cup u \cup what
    <3>1. as'[t] = w
      <4>1. t \in Spaces /\ as = [v \in Spaces |-> as[v]]
        BY DEF Live, TypeInv
      <4> QED
        BY <2>18, <4>1
    <3>2. w # a
      <4>1. w.pt[Page(addr)] = x
        BY <1>2, <1>a, <2>8, <2>12 DEF Table
      <4>2. a.pt[Page(addr)] = Absent
        BY <1>7 DEF e
      <4>3. x # Absent
        BY <2>4, <2>6, <2>3, EntryIs
      <4> QED
        BY <4>1, <4>2, <4>3
    <3> QED
      BY <1>7, <3>1, <3>2
  <2>21. EvolveStep(t, b, fr, u, m, what, 0)
    BY <1>3, <1>7, <2>14, <2>17, <2>18, <2>19, <2>20 DEF EvolveStep, a
  <2> QED
    BY <2>21 DEF Evolution
<1> QED
  BY <1>5, <1>6, <1>7

LEMMA ForkStepIs ==
    ASSUME TypeInv, NEW t \in Live, NEW c \in Spaces, NEW junk \in Junk(2), fork(t, c, junk)
    PROVE  \E dst, fr, u, m : ForkStep(t, c, dst, fr, u, m)
<1> DEFINE S == {x[2] : x \in Copies(as[t])} \cap UserPages
           dst == make_tables(EmptySpace(Min(free)), S, junk)
           left == without_tables(free \ {Min(free)}, EmptySpace(0), S)
           k == Cardinality(missing_tables(EmptySpace(0), S))
           u == Unclear(Clear, dst.pt)
<1>1. as[t] \in Space /\ free \in SUBSET (Frames \cup {0})
  BY DEF TypeInv
<1>2. PICK m : m = IF Cardinality(free) <= k THEN Result("panic", as[t], free, 0) ELSE _fork_aspace(as[t], dst, left)
  OBVIOUS
<1>3. /\ as[c] = NULL /\ as' = [as EXCEPT ![c] = IF m.st = "ok" THEN m.a ELSE NULL]
      /\ free' = m.free /\ drift' = drift /\ status' = Halt(m) /\ fault' = fault
      /\ odd' = odd \cup (IF \E x \in Copies(as[t]) : as[t].pt[x[2]] = Absent THEN {"fork before use"} ELSE {})
                    \cup (IF m.st = "ok" THEN u ELSE {})
  BY <1>2 DEF fork
<1>4. CASE Cardinality(free) <= k
  <2>1. m \in Results /\ m.st = "panic" /\ m.a = as[t] /\ m.free = free
    BY <1>1, <1>2, <1>4 DEF Result, Results, Outcomes
  <2>2. Forking(m, as[t], as[t], free)
    BY <2>1 DEF Forking
  <2>3. ForkStep(t, c, as[t], free, u, m)
    <3> HIDE DEF u
    <3> QED
      BY <1>3, <2>1, <2>2 DEF ForkStep
  <2> QED
    BY <2>3
<1>5. CASE ~(Cardinality(free) <= k)
  <2>1. free # {}
    <3> SUFFICES ASSUME free = {} PROVE FALSE
      OBVIOUS
    <3>1. Cardinality(free) = 0 /\ k \in Nat
      <4>1. IsFiniteSet(S)
        <5>1. IsFiniteSet(UserPages)
          BY FreeFinite
        <5> HIDE DEF S
        <5>2. S \subseteq UserPages
          BY DEF S
        <5> QED
          BY <5>1, <5>2, FS_Subset
      <4>2. IsFiniteSet({TableOf(p) : p \in S})
        <5> HIDE DEF S
        <5>1. PICK T : T = {TableOf(p) : p \in S}
          OBVIOUS
        <5>2. PICK f : f = [p \in S |-> TableOf(p)]
          OBVIOUS
        <5>3. f \in Surjection(S, T)
          BY <5>1, <5>2 DEF Surjection
        <5> QED
          BY <4>1, <5>1, <5>3, FS_Surjection
      <4>3. IsFiniteSet(missing_tables(EmptySpace(0), S))
        BY <4>2, FS_Subset DEF missing_tables
      <4> QED
        BY <4>3, FS_CardinalityType, FS_EmptySet
    <3> QED
      BY <1>5, <3>1
  <2>2. S \in SUBSET UserPages /\ junk \in Table
    BY JunkIs DEF Junk
  <2>3. Started(dst, free, left, u)
    <3> HIDE DEF S
    <3> QED
      BY <1>1, <2>1, <2>2, Beginning
  <2>4. dst \in Space /\ left \in SUBSET (Frames \cup {0}) /\ left \subseteq free
    <3> HIDE DEF S, dst, left, u
    <3> QED
      BY <1>1, <2>3 DEF Started
  <2>5. m = _fork_aspace(as[t], dst, left)
    BY <1>2, <1>5
  <2> HIDE DEF S, dst, left, u, k
  <2>6. Forking(m, as[t], dst, left)
    BY <1>1, <2>4, <2>5, ForkAspace
  <2>7. ForkStep(t, c, dst, left, u, m)
    BY <1>3, <2>3, <2>4, <2>6 DEF ForkStep
  <2> QED
    BY <2>7
<1> QED
  BY <1>4, <1>5

(* The new space of do_execve. *)
ExecStart(m, prog, fr, dst, fr1, u) ==
    \/ m.st = "panic" /\ m.free = fr
    \/ Started(dst, fr, fr1, u) /\ m = execve_space(dst, fr1, prog)

LEMMA ExecAspace ==
    ASSUME NEW fr \in SUBSET (Frames \cup {0}), NEW prog \in Programs, NEW junk \in Table,
           NEW m, m = exec_aspace(fr, prog, junk), NEW u, u = Unclear(Clear, exec_tables(fr, prog, junk).pt)
    PROVE  \E dst, fr1 : ExecStart(m, prog, fr, dst, fr1, u)
<1>1. CASE fr = {}
  <2>1. m = Result("panic", EmptySpace(0), fr, 0)
    BY <1>1 DEF exec_aspace
  <2>2. m.st = "panic" /\ m.free = fr
    BY <2>1 DEF Result
  <2> QED
    BY <2>2 DEF ExecStart
<1>2. CASE fr # {}
  <2>1. PICK S : S = LoadedPages[prog]
    OBVIOUS
  <2>2. S \in SUBSET UserPages
    BY <2>1 DEF LoadedPages, Mapped
  <2>3. PICK dst, fr1 : dst = make_tables(EmptySpace(Min(fr)), S, junk)
                        /\ fr1 = without_tables(fr \ {Min(fr)}, EmptySpace(0), S)
    OBVIOUS
  <2>4. dst = exec_tables(fr, prog, junk) /\ m = execve_space(dst, fr1, prog)
    BY <1>2, <2>1, <2>3 DEF exec_aspace, exec_tables
  <2>5. Started(dst, fr, fr1, Unclear(Clear, dst.pt))
    BY <1>2, <2>2, <2>3, Beginning
  <2>6. u = Unclear(Clear, dst.pt)
    BY <2>4
  <2> QED
    BY <2>4, <2>5, <2>6 DEF ExecStart
<1> QED
  BY <1>1, <1>2

LEMMA ExecveStepIs ==
    ASSUME TypeInv, NEW t \in Live, NEW prog \in Programs, NEW copied \in BOOLEAN, NEW junk \in Junk(2),
           execve(t, prog, copied, junk)
    PROVE  \E dst, fr, u, m : ExecveStep(t, prog, dst, fr, u, m)
<1>1. free \in SUBSET (Frames \cup {0}) /\ as = [v \in Spaces |-> as[v]] /\ junk \in Table
  BY JunkIs DEF TypeInv, Junk
<1>2. PICK m, u : m = exec_aspace(free, prog, junk) /\ u = Unclear(Clear, exec_tables(free, prog, junk).pt)
  OBVIOUS
<1>3. PICK dst, fr : ExecStart(m, prog, free, dst, fr, u)
  BY <1>1, <1>2, ExecAspace
<1>4. /\ as' = [as EXCEPT ![t] = IF m.st = "ok" /\ copied THEN m.a ELSE @]
      /\ odd' = odd \cup (IF m.st = "ok" /\ copied THEN u ELSE {})
      /\ free' = m.free /\ drift' = drift /\ status' = Halt(m) /\ fault' = fault
  BY <1>2 DEF execve
<1>5. \/ as' = as /\ odd' = odd
      \/ m.st = "ok" /\ as' = [as EXCEPT ![t] = m.a] /\ odd' = odd \cup u
  BY <1>1, <1>4
<1>6. ExecveStep(t, prog, dst, fr, u, m)
  BY <1>3, <1>4, <1>5 DEF ExecveStep, ExecStart
<1> QED
  BY <1>6

(* Every step is one of these. *)
Stepping(t) ==
    \/ Evolution(t)
    \/ \E c \in Spaces : \E dst, fr, u, m : ForkStep(t, c, dst, fr, u, m)
    \/ \E prog \in Programs : \E dst, fr, u, m : ExecveStep(t, prog, dst, fr, u, m)
    \/ exit(t)
    \/ \E addr \in UserAddresses, write \in BOOLEAN, junk \in Junk(1) : AccessStep(t, addr, write, junk)

LEMMA NextSteps ==
    ASSUME TypeInv, Next
    PROVE  \E t \in Live : Stepping(t)
<1>1. status = "running"
  BY DEF Next
<1>2. PICK t \in Live :
        \/ \E hint \in {0} \cup Hints, size \in MmapSizes, rw \in Protections,
             avail \in {0, PAGE_SIZE, Word}, junk \in Junk(1) : mmap(t, hint, size, rw, avail, junk)
        \/ \E addr \in UserAddresses : munmap(t, addr)
        \/ \E inc \in Breaks : brk(t, inc)
        \/ \E addr \in UserAddresses, write \in BOOLEAN, junk \in Junk(1) : access(t, addr, write, junk)
        \/ \E c \in Spaces, junk \in Junk(2) : fork(t, c, junk)
        \/ \E prog \in Programs, copied \in BOOLEAN, junk \in Junk(2) : execve(t, prog, copied, junk)
        \/ exit(t)
  BY DEF Next
<1>3. CASE \E hint \in {0} \cup Hints, size \in MmapSizes, rw \in Protections,
             avail \in {0, PAGE_SIZE, Word}, junk \in Junk(1) : mmap(t, hint, size, rw, avail, junk)
  BY <1>3, MmapStep DEF Stepping
<1>4. CASE \E addr \in UserAddresses : munmap(t, addr)
  BY <1>4, MunmapStep DEF Stepping
<1>5. CASE \E inc \in Breaks : brk(t, inc)
  BY <1>5, BrkStep DEF Stepping
<1>6. CASE \E addr \in UserAddresses, write \in BOOLEAN, junk \in Junk(1) : access(t, addr, write, junk)
  BY <1>1, <1>6, AccessStepIs DEF Stepping
<1>7. CASE \E c \in Spaces, junk \in Junk(2) : fork(t, c, junk)
  BY <1>7, ForkStepIs DEF Stepping
<1>8. CASE \E prog \in Programs, copied \in BOOLEAN, junk \in Junk(2) : execve(t, prog, copied, junk)
  BY <1>8, ExecveStepIs DEF Stepping
<1> QED
  BY <1>2, <1>3, <1>4, <1>5, <1>6, <1>7, <1>8 DEF Stepping

(* Spaces with their types and the stack in its place. *)
Typed == {a \in Space : a.stack_end = StackEnd /\ a.elf_end <= a.data_end}

(* Page tables were made for space a, and for a new space; where X forbids it, they
   held nothing. *)
Retabled(a, b, X) ==
    /\ b \in Space /\ b.regs = a.regs /\ SameEnds(a, b)
    /\ "uncleared table" \in X => b.pt = a.pt
Blank(dst, X) ==
    /\ dst \in Space /\ dst.regs = <<>>
    /\ "uncleared table" \in X => dst.pt = Clear

(* A set of spaces that no operation leaves, as long as nothing of X is done. *)
Keeps(Good, X) ==
    /\ Good \subseteq Typed
    /\ \A a \in Good : \A b : Retabled(a, b, X) => b \in Good
    /\ \A a \in Good : \A fr \in SUBSET (Frames \cup {0}) : \A m, what, d :
          Evolves(a, fr, m, what, d) /\ what \cap X = {} => m.a \in Good
    /\ \A a \in Good : \A fr \in SUBSET (Frames \cup {0}) : \A dst, m :
          Blank(dst, X) /\ Forking(m, a, dst, fr) /\ m.st = "ok" => m.a \in Good
    /\ \A fr \in SUBSET (Frames \cup {0}) : \A prog \in Programs : \A dst, m :
          Blank(dst, X) /\ m = execve_space(dst, fr, prog) /\ m.st = "ok" => m.a \in Good

AllIn(Good) == \A t \in Live : as[t] \in Good

LEMMA PreparedIs ==
    ASSUME NEW a, NEW fr, NEW b, NEW fr1, NEW u, NEW X, Prepared(a, fr, b, fr1, u), u \cap X = {}
    PROVE  Retabled(a, b, X)
BY DEF Prepared, Retabled, Unclean

LEMMA StartedIs ==
    ASSUME NEW dst, NEW fr, NEW fr1, NEW u, NEW X, Started(dst, fr, fr1, u), u \cap X = {}
    PROVE  Blank(dst, X)
BY DEF Started, Blank, Unclean

LEMMA FirstStart ==
    ASSUME Init
    PROVE  \E prog \in Programs : \E dst, fr, m :
             /\ Started(dst, Frames, fr, odd) /\ m = execve_space(dst, fr, prog) /\ m.st = "ok"
             /\ as = [t \in Spaces |-> IF t = first THEN m.a ELSE NULL] /\ free = m.free
             /\ touched = Used \cup (Frames \ m.free) /\ drift = 0 /\ fault = "none" /\ status = "running"
<1>1. PICK prog \in Programs, junk \in JunkIn(Frames, Used, 2) : \E m \in {exec_aspace(Frames, prog, junk)} :
        /\ m.st = "ok"
        /\ as = [t \in Spaces |-> IF t = first THEN m.a ELSE NULL] /\ free = m.free
        /\ touched = Used \cup (Frames \ m.free) /\ drift = 0 /\ fault = "none" /\ status = "running"
        /\ odd = Unclear(Clear, exec_tables(Frames, prog, junk).pt)
  BY DEF Init
<1>2. PICK m : /\ m = exec_aspace(Frames, prog, junk) /\ m.st = "ok"
               /\ as = [t \in Spaces |-> IF t = first THEN m.a ELSE NULL] /\ free = m.free
               /\ touched = Used \cup (Frames \ m.free) /\ drift = 0 /\ fault = "none" /\ status = "running"
               /\ odd = Unclear(Clear, exec_tables(Frames, prog, junk).pt)
  BY <1>1
<1>3. Frames \in SUBSET (Frames \cup {0}) /\ junk \in Table
  BY JunkIs
<1>4. PICK dst, fr : ExecStart(m, prog, Frames, dst, fr, odd)
  BY <1>2, <1>3, ExecAspace
<1>5. Started(dst, Frames, fr, odd) /\ m = execve_space(dst, fr, prog)
  BY <1>2, <1>4 DEF ExecStart
<1> QED
  BY <1>2, <1>5

LEMMA FirstSpace ==
    ASSUME NEW Good, NEW X, Keeps(Good, X), Init, odd \cap X = {}
    PROVE  AllIn(Good)
<1>1. PICK prog, dst, fr, m :
        /\ prog \in Programs
        /\ Started(dst, Frames, fr, odd) /\ m = execve_space(dst, fr, prog) /\ m.st = "ok"
        /\ as = [t \in Spaces |-> IF t = first THEN m.a ELSE NULL] /\ free = m.free
        /\ touched = Used \cup (Frames \ m.free) /\ drift = 0 /\ fault = "none" /\ status = "running"
  BY FirstStart
<1>2. Blank(dst, X) /\ fr \in SUBSET (Frames \cup {0})
  <2>1. fr \subseteq Frames
    BY <1>1 DEF Started
  <2> QED
    BY <1>1, <2>1, StartedIs
<1>3. m.a \in Good
  BY <1>1, <1>2 DEF Keeps
<1> QED
  BY <1>1, <1>3 DEF AllIn, Live

LEMMA ReplacedIn ==
    ASSUME NEW Good, AllIn(Good), as = [t \in Spaces |-> as[t]], NEW t, NEW b, as' = [as EXCEPT ![t] = b],
           b \in Good \/ b = NULL
    PROVE  AllIn(Good)'
BY DEF AllIn, Live

LEMMA EachSpace ==
    ASSUME NEW Good, NEW X, Keeps(Good, X), TypeInv, Next, odd' \cap X = {}, AllIn(Good)
    PROVE  AllIn(Good)'
<1>0. as = [t \in Spaces |-> as[t]] /\ free \in SUBSET (Frames \cup {0})
  BY DEF TypeInv
<1>1. PICK t \in Live : Stepping(t)
  BY NextSteps
<1>2. as[t] \in Good
  BY DEF AllIn
<1>3. ASSUME NEW b, NEW fr, NEW u, NEW m, NEW what, NEW d, EvolveStep(t, b, fr, u, m, what, d) PROVE AllIn(Good)'
  <2>1. /\ Prepared(as[t], free, b, fr, u) /\ Evolves(b, fr, m, what, d) /\ as' = [as EXCEPT ![t] = m.a]
        /\ u \cap X = {} /\ what \cap X = {}
    BY <1>3 DEF EvolveStep
  <2>2. b \in Good
    <3>1. Retabled(as[t], b, X)
      BY <2>1, PreparedIs
    <3> QED
      BY <1>2, <3>1 DEF Keeps
  <2>3. fr \in SUBSET (Frames \cup {0})
    BY <1>0, <2>1 DEF Prepared
  <2>4. m.a \in Good
    BY <2>1, <2>2, <2>3 DEF Keeps
  <2> QED
    BY <1>0, <2>1, <2>4, ReplacedIn
<1>4. ASSUME NEW c \in Spaces, NEW dst, NEW fr, NEW u, NEW m, ForkStep(t, c, dst, fr, u, m) PROVE AllIn(Good)'
  <2>1. Forking(m, as[t], dst, fr) /\ fr \subseteq free
    BY <1>4 DEF ForkStep
  <2>2. ASSUME m.st = "ok" PROVE m.a \in Good
    <3>1. Started(dst, free, fr, u) /\ u \cap X = {}
      BY <1>4, <2>2 DEF ForkStep
    <3>2. Blank(dst, X)
      BY <3>1, StartedIs
    <3>3. fr \in SUBSET (Frames \cup {0})
      BY <1>0, <2>1
    <3> QED
      BY <1>2, <2>1, <2>2, <3>2, <3>3 DEF Keeps
  <2>3. PICK b : b = IF m.st = "ok" THEN m.a ELSE NULL
    OBVIOUS
  <2>4. as' = [as EXCEPT ![c] = b] /\ (b \in Good \/ b = NULL)
    BY <1>4, <2>2, <2>3 DEF ForkStep
  <2> QED
    BY <1>0, <2>4, ReplacedIn
<1>5. ASSUME NEW prog \in Programs, NEW dst, NEW fr, NEW u, NEW m, ExecveStep(t, prog, dst, fr, u, m) PROVE AllIn(Good)'
  <2>1. CASE as' = as
    BY <2>1 DEF AllIn, Live
  <2>2. CASE m.st = "ok" /\ as' = [as EXCEPT ![t] = m.a] /\ odd' = odd \cup u
    <3>1. Started(dst, free, fr, u) /\ m = execve_space(dst, fr, prog)
      BY <1>5, <2>2 DEF ExecveStep
    <3>2. Blank(dst, X)
      BY <2>2, <3>1, StartedIs
    <3>3. fr \in SUBSET (Frames \cup {0})
      BY <1>0, <3>1 DEF Started
    <3>4. m.a \in Good
      BY <2>2, <3>1, <3>2, <3>3 DEF Keeps
    <3> QED
      BY <1>0, <2>2, <3>4, ReplacedIn
  <2> QED
    BY <1>5, <2>1, <2>2 DEF ExecveStep
<1>6. ASSUME exit(t) PROVE AllIn(Good)'
  <2>1. as' = [as EXCEPT ![t] = NULL]
    BY <1>6 DEF exit
  <2> QED
    BY <1>0, <2>1, ReplacedIn
<1>7. ASSUME NEW addr, NEW write, NEW junk, AccessStep(t, addr, write, junk) PROVE AllIn(Good)'
  <2>1. as' = as
    BY <1>7 DEF AccessStep
  <2> QED
    BY <2>1 DEF AllIn, Live
<1> QED
  BY <1>1, <1>3, <1>4, <1>5, <1>6, <1>7 DEF Stepping, Evolution

(* Every operation keeps the types. *)
LEMMA EvolveTyped ==
    ASSUME NEW a \in Typed, NEW fr \in SUBSET (Frames \cup {0}), NEW m, NEW what, NEW d, Evolves(a, fr, m, what, d)
    PROVE  m \in Results /\ m.a \in Typed /\ m.a.elf_end = a.elf_end /\ d \in Nat
<1>1. a \in Space /\ a.stack_end = StackEnd /\ a.elf_end <= a.data_end
  BY DEF Typed
<1>2. CASE d = 0 /\ \E hint \in Nat, size \in Nat, avail \in Nat : \E rw : Mmaps(a, fr, m, what, hint, size, rw, avail)
  <2>1. m \in Results /\ SameEnds(a, m.a)
    BY <1>2 DEF Mmaps, Mapping
  <2>2. m.a \in Space
    BY <2>1 DEF Results
  <2> QED
    BY <1>1, <1>2, <2>1, <2>2 DEF SameEnds, Typed
<1>3. CASE d = m.ret /\ \E addr \in UserAddresses, i \in Nat : Munmaps(a, fr, m, what, addr, i)
  <2>1. m \in Results /\ SameEnds(a, m.a)
    BY <1>3 DEF Munmaps, Unmapping
  <2>2. m.a \in Space /\ m.ret \in Nat
    BY <2>1 DEF Results
  <2> QED
    BY <1>1, <1>3, <2>1, <2>2 DEF SameEnds, Typed
<1>4. CASE d = 0 /\ \E addr \in Nat : Brks(a, fr, m, what, addr)
  <2>1. PICK addr \in Nat : Brks(a, fr, m, what, addr)
    BY <1>4
  <2>2. PICK i : i = _find_region(a, a.elf_end + 1)
    OBVIOUS
  <2>3. Breaking(m, a, fr, i, addr)
    BY <2>1, <2>2 DEF Brks
  <2>4. m \in Results /\ m.a.elf_end = a.elf_end /\ m.a.stack_end = a.stack_end
    BY <2>3 DEF Breaking
  <2>5. m.a \in Space
    BY <2>4 DEF Results
  <2>a. a.elf_end \in Nat /\ a.data_end \in Nat
    BY <1>1, SpaceIs
  <2>6. a.elf_end <= m.a.data_end
    <3>1. CASE m.st # "ok"
      BY <1>1, <2>3, <3>1 DEF Breaking
    <3>2. CASE m.st = "ok"
      <4>1. Moves(a, m.a, i, addr)
        BY <2>3, <3>2 DEF Breaking
      <4>2. CASE \E r \in Region : BrkFirst(a, m.a, addr, r)
        BY <4>2 DEF BrkFirst
      <4>3. CASE BrkWithin(a, m.a, i, addr)
        BY <1>1, <2>a, <4>3 DEF BrkWithin
      <4>4. CASE \E n \in Nat : BrkGrow(a, m.a, i, addr, n)
        BY <1>1, <2>a, <4>4 DEF BrkGrow
      <4>5. CASE \E n \in Nat, ctr \in Nat : BrkShrink(a, m.a, i, addr, ctr, n)
        BY <2>a, <4>5 DEF BrkShrink
      <4> QED
        BY <4>1, <4>2, <4>3, <4>4, <4>5 DEF Moves
    <3> QED
      BY <3>1, <3>2
  <2> QED
    BY <1>1, <1>4, <2>4, <2>5, <2>6 DEF Typed
<1>5. CASE d = 0 /\ \E addr \in UserAddresses, i \in Nat : Accesses(a, fr, m, addr, i)
  <2>1. m \in Results /\ SameEnds(a, m.a)
    BY <1>5 DEF Accesses
  <2>2. m.a \in Space
    BY <2>1 DEF Results
  <2> QED
    BY <1>1, <1>5, <2>1, <2>2 DEF SameEnds, Typed
<1> QED
  BY <1>2, <1>3, <1>4, <1>5 DEF Evolves

LEMMA ForkTyped ==
    ASSUME NEW a \in Typed, NEW fr, NEW dst, NEW m, Forking(m, a, dst, fr)
    PROVE  m \in Results /\ m.a \in Typed /\ m.a.elf_end = a.elf_end /\ m.a.data_end = a.data_end
BY DEF Forking, Typed, Results

LEMMA ProgramIs ==
    ASSUME NEW prog \in Programs
    PROVE  prog \in Seq(Segment)
BY VmmAssumption

LEMMA LoadTyped ==
    ASSUME NEW fr \in SUBSET (Frames \cup {0}), NEW prog \in Programs, NEW dst \in Space, NEW w, w = execve_space(dst, fr, prog)
    PROVE  w \in Results /\ (w.st = "ok" => w.a \in Typed)
<1>1. prog \in Seq(Segment)
  BY ProgramIs
<1> DEFINE S == [k \in 0..Len(prog) |-> Results]
<1>3. Chain(S, dst, fr, prog)
  <2>1. Result("ok", dst, fr, 0) \in Results
    BY FirstResult
  <2>2. \A k \in 0..Len(prog) : S[k] = Results
    OBVIOUS
  <2>3. 0 \in 0..Len(prog) /\ \A k \in 1..Len(prog) : k \in 0..Len(prog) /\ k - 1 \in 0..Len(prog)
    BY <1>1
  <2>4. \A x, m, seg : Loads(x, m, seg) => x \in Results
    BY DEF Loads
  <2> HIDE DEF S
  <2> QED
    BY <2>1, <2>2, <2>3, <2>4 DEF Chain
<1> HIDE DEF S
<1>4. PICK m \in S[Len(prog)] : m \in Results /\ Stacks(w, m)
  BY <1>1, <1>3, ExecveSpace
<1>5. w.st = "ok" => m.st = "ok"
  BY <1>4 DEF Stacks
<1>6. w.st = "ok" => w.a.elf_end = m.ret /\ w.a.data_end = m.ret /\ w.a.stack_end = StackEnd
  BY <1>4, <1>5 DEF Stacks
<1>7. w \in Results /\ m.ret \in Nat
  BY <1>4 DEF Results, Stacks
<1>8. w.a \in Space
  BY <1>7 DEF Results
<1> QED
  BY <1>6, <1>7, <1>8 DEF Typed

LEMMA RetabledTyped ==
    ASSUME NEW a \in Typed, NEW b, NEW X, Retabled(a, b, X)
    PROVE  b \in Typed
BY DEF Retabled, SameEnds, Typed

LEMMA TypedKept == Keeps(Typed, {})
BY EvolveTyped, ForkTyped, LoadTyped, RetabledTyped DEF Keeps, Blank

LEMMA InitType ==
    ASSUME Init
    PROVE  TypeInv
<1>1. PICK prog, dst, fr, m :
        /\ prog \in Programs
        /\ Started(dst, Frames, fr, odd) /\ m = execve_space(dst, fr, prog)
        /\ as = [t \in Spaces |-> IF t = first THEN m.a ELSE NULL] /\ free = m.free
        /\ touched = Used \cup (Frames \ m.free) /\ drift = 0 /\ fault = "none" /\ status = "running"
  BY FirstStart
<1>2. dst \in Space /\ fr \in SUBSET (Frames \cup {0})
  BY <1>1 DEF Started
<1>3. m \in Results
  BY <1>1, <1>2, LoadTyped
<1>4. free \subseteq Frames \cup {0} /\ touched \subseteq Frames \cup {0}
  <2>1. Used \subseteq Frames
    BY VmmAssumption
  <2> QED
    BY <1>1, <1>3, <2>1 DEF Results
<1>5. AllIn(Typed)
  BY FirstSpace, TypedKept
<1>6. as = [t \in Spaces |-> as[t]]
  BY <1>1
<1> QED
  BY <1>1, <1>4, <1>5, <1>6 DEF TypeInv, AllIn, Typed

LEMMA NextType ==
    ASSUME TypeInv, AllIn(Typed), [Next]_vars
    PROVE  TypeInv' /\ AllIn(Typed)'
<1>1. CASE UNCHANGED vars
  BY <1>1 DEF TypeInv, AllIn, Live, vars
<1>2. CASE Next
  <2>1. AllIn(Typed)'
    BY <1>2, EachSpace, TypedKept
  <2>2. PICK t \in Live : Stepping(t)
    BY <1>2, NextSteps
  <2>3. /\ as[t] \in Typed /\ as[t] \in Space /\ as = [u \in Spaces |-> as[u]] /\ free \in SUBSET (Frames \cup {0}) /\ drift \in Nat
        /\ fault \in {"none", "refused", "repeats"} /\ status \in {"running", "panic", "corrupt", "wrapped"}
    BY DEF AllIn, TypeInv
  <2>4. touched' \subseteq Frames \cup {0}
    BY <1>2 DEF Next, TypeInv
  <2>5. ASSUME NEW m, NEW u, NEW b, as' = [as EXCEPT ![u] = b] \/ as' = as, free' = m.free, m.free \subseteq Frames \cup {0},
               drift' \in Nat, status' = Halt(m), fault' = fault
        PROVE  TypeInv'
    <3>1. as' = [x \in Spaces |-> as'[x]]
      BY <2>3, <2>5
    <3>2. free' \subseteq Frames \cup {0} /\ status' \in {"running", "panic", "corrupt", "wrapped"}
      BY <2>3, <2>5 DEF Halt
    <3> QED
      BY <2>1, <2>3, <2>4, <2>5, <3>1, <3>2 DEF TypeInv, AllIn, Typed
  <2>6. ASSUME NEW b, NEW fr, NEW u, NEW m, NEW what, NEW d, EvolveStep(t, b, fr, u, m, what, d) PROVE TypeInv'
    <3>1. Prepared(as[t], free, b, fr, u) /\ Evolves(b, fr, m, what, d)
      BY <2>6 DEF EvolveStep
    <3>2. fr \in SUBSET (Frames \cup {0})
      BY <2>3, <3>1 DEF Prepared
    <3>3. b \in Typed
      <4>1. u \cap {} = {}
        OBVIOUS
      <4>2. Retabled(as[t], b, {})
        BY <3>1, <4>1, PreparedIs
      <4> QED
        BY <2>3, <4>2, RetabledTyped
    <3>4. m \in Results /\ d \in Nat
      BY <3>1, <3>2, <3>3, EvolveTyped
    <3>5. m.free \subseteq Frames \cup {0}
      BY <3>4 DEF Results
    <3>6. drift' \in Nat
      BY <2>3, <2>6, <3>4 DEF EvolveStep
    <3> QED
      BY <2>5, <2>6, <3>5, <3>6 DEF EvolveStep
  <2>7. ASSUME NEW c \in Spaces, NEW dst, NEW fr, NEW u, NEW m, ForkStep(t, c, dst, fr, u, m) PROVE TypeInv'
    <3>1. m.free \subseteq Frames \cup {0}
      BY <2>3, <2>7 DEF ForkStep, Forking
    <3>2. drift' \in Nat
      BY <2>3, <2>7 DEF ForkStep
    <3> QED
      BY <2>5, <2>7, <3>1, <3>2 DEF ForkStep
  <2>8. ASSUME NEW prog \in Programs, NEW dst, NEW fr, NEW u, NEW m, ExecveStep(t, prog, dst, fr, u, m) PROVE TypeInv'
    <3>1. m.free \subseteq Frames \cup {0}
      <4>1. CASE m.free = free
        BY <2>3, <4>1
      <4>2. CASE Started(dst, free, fr, u) /\ m = execve_space(dst, fr, prog)
        <5>1. dst \in Space /\ fr \in SUBSET (Frames \cup {0})
          BY <2>3, <4>2 DEF Started
        <5>2. m \in Results
          BY <4>2, <5>1, LoadTyped
        <5> QED
          BY <5>2 DEF Results
      <4> QED
        BY <2>8, <4>1, <4>2 DEF ExecveStep
    <3>2. drift' \in Nat
      BY <2>3, <2>8 DEF ExecveStep
    <3> QED
      BY <2>5, <2>8, <3>1, <3>2 DEF ExecveStep
  <2>9. ASSUME exit(t) PROVE TypeInv'
    <3>1. as' = [x \in Spaces |-> as'[x]]
      BY <2>3, <2>9 DEF exit
    <3>2. free' \subseteq Frames \cup {0}
      <4>1. as[t].pd \in Frames \cup {0}
        BY <2>3, SpaceIs
      <4> QED
        BY <2>3, <2>9, <4>1 DEF exit
    <3>3. drift' \in Nat
      <4>1. PICK d \in Nat : d = IF as[t].pd \in free THEN 1 ELSE 0
        OBVIOUS
      <4>2. drift' = drift + d
        BY <2>9, <4>1 DEF exit
      <4>3. PICK x \in Nat : x = drift
        BY <2>3
      <4>4. x + d \in Nat
        OBVIOUS
      <4> QED
        BY <4>2, <4>3, <4>4, Zenon
    <3> QED
      BY <2>1, <2>3, <2>4, <2>9, <3>1, <3>2, <3>3 DEF TypeInv, AllIn, Typed, exit
  <2>10. ASSUME NEW addr, NEW write, NEW junk, AccessStep(t, addr, write, junk) PROVE TypeInv'
    <3>1. fault' \in {"none", "refused", "repeats"}
      BY <2>3, <2>10 DEF AccessStep, access
    <3> QED
      BY <2>1, <2>3, <2>4, <2>10, <3>1 DEF TypeInv, AllIn, Typed, AccessStep
  <2> QED
    BY <2>1, <2>2, <2>6, <2>7, <2>8, <2>9, <2>10 DEF Stepping, Evolution
<1> QED
  BY <1>1, <1>2

LEMMA TypeInvariant == Spec => [](TypeInv /\ AllIn(Typed))
<1>1. Init => TypeInv /\ AllIn(Typed)
  <2>1. odd \cap {} = {}
    OBVIOUS
  <2> QED
    BY <2>1, InitType, FirstSpace, TypedKept
<1>2. (TypeInv /\ AllIn(Typed)) /\ [Next]_vars => (TypeInv /\ AllIn(Typed))'
  BY NextType
<1> QED
  BY <1>1, <1>2, PTL DEF Spec
-----------------------------------------------------------------------------
(* Regions stay sorted *)

(* Spaces stay in a set as long as nothing of X has been done. *)
Guarded(Good, X) == odd \cap X = {} => AllIn(Good)

LEMMA OddGrows ==
    ASSUME TypeInv, Next
    PROVE  odd \subseteq odd'
<1>1. PICK t \in Live : Stepping(t)
  BY NextSteps
<1> QED
  BY <1>1 DEF Stepping, Evolution, EvolveStep, ForkStep, ExecveStep, exit, AccessStep

LEMMA GuardedKept ==
    ASSUME NEW Good, NEW X, Keeps(Good, X), TypeInv, Guarded(Good, X), [Next]_vars
    PROVE  Guarded(Good, X)'
<1>1. CASE UNCHANGED vars
  BY <1>1 DEF Guarded, AllIn, Live, vars
<1>2. CASE Next
  <2>1. odd \subseteq odd'
    BY <1>2, OddGrows
  <2>2. ASSUME odd' \cap X = {} PROVE AllIn(Good)'
    <3>1. AllIn(Good)
      BY <2>1, <2>2 DEF Guarded
    <3> QED
      BY <1>2, <2>2, <3>1, EachSpace
  <2> QED
    BY <2>2 DEF Guarded
<1> QED
  BY <1>1, <1>2

LEMMA TypeFirst ==
    ASSUME Init
    PROVE  AllIn(Typed)
<1>1. odd \cap {} = {}
  OBVIOUS
<1> QED
  BY <1>1, FirstSpace, TypedKept

LEMMA GuardedFirst ==
    ASSUME NEW Good, NEW X, Keeps(Good, X), Init
    PROVE  Guarded(Good, X)
BY FirstSpace DEF Guarded

(* A mapping keeps the order. *)
LEMMA MappingSorted ==
    ASSUME NEW a \in Space, NEW addr \in Nat, NEW asize \in Nat, NEW rw, rw \in BOOLEAN, NEW m, NEW fr, NEW size, NEW avail,
           Mapping(m, a, fr, addr, size, asize, rw, avail), Sorted(a.regs)
    PROVE  Sorted(m.a.regs)
<1>1. PICK r : r = [addr |-> addr, size |-> asize, rw |-> rw]
  OBVIOUS
<1>2. r \in Region /\ a.regs \in Seq(Region)
  BY <1>1, SpaceIs DEF Region
<1>3. m.a.regs = a.regs \/ m.a.regs = _insert_region(a.regs, r)
  BY <1>1 DEF Mapping
<1>4. Sorted(_insert_region(a.regs, r))
  BY <1>2, InsertRegion
<1> QED
  BY <1>3, <1>4

LEMMA MmapsSorted ==
    ASSUME NEW a, a \in Space, Sorted(a.regs), NEW fr, NEW m, NEW what, NEW hint, NEW size, NEW rw, NEW avail,
           Mmaps(a, fr, m, what, hint, size, rw, avail)
    PROVE  Sorted(m.a.regs)
<1>1. PICK at, n : at \in Nat /\ n \in Nat /\ Mapping(m, a, fr, at, size, n, rw, avail)
  BY DEF Mmaps
<1>2. rw \in BOOLEAN
  BY DEF Mmaps
<1> QED
  BY <1>1, <1>2, MappingSorted

(* The region of the heap is the one that vmm_set_brk finds. *)
LEMMA HeapIsFound ==
    ASSUME NEW a \in Typed, Sorted(a.regs), HasHeap(a), a.data_end # a.elf_end,
           NEW i, i = _find_region(a, a.elf_end + 1)
    PROVE  i \in 1..Len(a.regs) /\ HeapRegion(a, i)
<1>1. a.regs \in Seq(Region) /\ a.elf_end \in Nat /\ a.data_end \in Nat /\ a.elf_end <= a.data_end
  BY SpaceIs DEF Typed
<1>2. a.data_end > a.elf_end
  BY <1>1
<1>3. PICK j \in 1..Len(a.regs) : HeapRegion(a, j)
  BY <1>2 DEF HasHeap
<1>4. a.regs[j] \in Region
  BY <1>1
<1>5. a.regs[j].addr = a.elf_end /\ a.data_end <= End(a.regs[j]) /\ End(a.regs[j]) \in Nat
  BY <1>3, <1>4, EndIsNat DEF HeapRegion
<1>6. Touches(a.regs[j], a.elf_end + 1)
  BY <1>1, <1>2, <1>5 DEF Touches
<1>7. i # 0 /\ i \in 1..Len(a.regs) /\ Touches(a.regs[i], a.elf_end + 1) /\ ~(j < i)
  <2>1. i \in 0..Len(a.regs) /\ (i = 0 => \A r \in Listed(a.regs) : ~Touches(r, a.elf_end + 1))
        /\ (i # 0 => i \in 1..Len(a.regs) /\ Touches(a.regs[i], a.elf_end + 1)
                     /\ \A k \in 1..Len(a.regs) : k < i => ~Touches(a.regs[k], a.elf_end + 1))
    BY <1>1, FindRegion
  <2>2. a.regs[j] \in Listed(a.regs)
    BY <1>1, ListedIs
  <2> QED
    BY <1>6, <2>1, <2>2
<1>8. ~(i < j)
  <2> SUFFICES ASSUME i < j PROVE FALSE
    OBVIOUS
  <2>1. End(a.regs[i]) <= a.regs[j].addr
    BY <1>7 DEF Sorted
  <2>2. a.regs[i] \in Region
    BY <1>1, <1>7
  <2>3. End(a.regs[i]) \in Nat
    BY <2>2, EndIsNat, Zenon
  <2>4. a.elf_end + 1 <= End(a.regs[i])
    BY <1>7 DEF Touches
  <2> QED
    BY <1>1, <1>5, <2>1, <2>3, <2>4
<1>9. i = j
  BY <1>7, <1>8
<1> QED
  BY <1>3, <1>9

(* Shrinking the heap takes no more than the heap has. *)
LEMMA ShrinkSize ==
    ASSUME NEW a \in Typed, NEW i \in 1..Len(a.regs), HeapRegion(a, i), NEW b, NEW addr \in Nat, NEW ctr \in Nat, NEW n \in Nat,
           BrkShrink(a, b, i, addr, ctr, n)
    PROVE  /\ ctr * PAGE_SIZE \in Nat /\ n = a.regs[i].size - ctr * PAGE_SIZE
           /\ n <= a.regs[i].size /\ addr <= a.regs[i].addr + n
<1>1. a.regs \in Seq(Region) /\ a.elf_end \in Nat /\ a.data_end \in Nat /\ PAGE_SIZE \in Nat /\ PAGE_SIZE > 0
  BY SpaceIs, Machine DEF Typed
<1>2. a.regs[i] \in Region
  BY <1>1
<1>3. a.regs[i].addr \in Nat /\ a.regs[i].size \in Nat /\ End(a.regs[i]) = a.regs[i].addr + a.regs[i].size
  BY <1>2, EndIsNat, Zenon
<1>4. a.regs[i].addr = a.elf_end /\ a.data_end <= a.regs[i].addr + a.regs[i].size
  BY <1>3 DEF HeapRegion
<1>5. a.elf_end < addr /\ addr <= a.data_end
  BY DEF BrkShrink
<1>6. PICK x \in Nat : x = a.data_end - addr
  BY <1>1, <1>5
<1>7. ctr = Page(x)
  BY <1>6 DEF BrkShrink, Page
<1>8. PICK w \in Nat : w = ctr * PAGE_SIZE /\ w = PAGE_SIZE * ctr
  BY <1>1
<1>9. w <= x
  BY <1>7, <1>8, PageIs
<1>a. PICK start \in Nat, size \in Nat, old \in Nat :
        start = a.regs[i].addr /\ size = a.regs[i].size /\ old = a.data_end
  BY <1>1, <1>3
<1>b. start < addr /\ addr <= old /\ old <= start + size /\ x = old - addr
  BY <1>4, <1>5, <1>6, <1>a
<1>10. w <= size
  BY <1>9, <1>b
<1>11. n = size - w
  BY <1>8, <1>10, <1>a DEF BrkShrink
<1>12. n <= size /\ addr <= start + n
  BY <1>9, <1>10, <1>11, <1>b
<1> QED
  BY <1>8, <1>11, <1>12, <1>a

LEMMA MovesSorted ==
    ASSUME NEW a \in Typed, Sorted(a.regs), HasHeap(a), NEW b, NEW addr \in Nat,
           NEW i, i = _find_region(a, a.elf_end + 1), Moves(a, b, i, addr)
    PROVE  Sorted(b.regs)
<1>1. a.regs \in Seq(Region)
  BY SpaceIs DEF Typed
<1>2. ASSUME NEW r \in Region, BrkFirst(a, b, addr, r) PROVE Sorted(b.regs)
  <2>1. b.regs = _insert_region(a.regs, r)
    BY <1>2 DEF BrkFirst
  <2> QED
    BY <1>1, <2>1, InsertRegion
<1>3. ASSUME a.data_end # a.elf_end
      PROVE  i \in 1..Len(a.regs) /\ HeapRegion(a, i) /\ a.regs[i] \in Region
             /\ a.regs[i].addr \in Nat /\ a.regs[i].size \in Nat /\ End(a.regs[i]) = a.regs[i].addr + a.regs[i].size
  <2>1. i \in 1..Len(a.regs) /\ HeapRegion(a, i)
    BY <1>3, HeapIsFound
  <2>2. a.regs[i] \in Region
    BY <1>1, <2>1
  <2> QED
    BY <2>1, <2>2, EndIsNat, Zenon
<1>4. ASSUME BrkWithin(a, b, i, addr) PROVE Sorted(b.regs)
  BY <1>4 DEF BrkWithin
<1>5. ASSUME a.data_end # a.elf_end, NEW n \in Nat, BrkGrow(a, b, i, addr, n) PROVE Sorted(b.regs)
  <2>1. i < Len(a.regs) /\ End(a.regs[i]) + n <= a.regs[i + 1].addr /\ b.regs = Resized(a.regs, i, a.regs[i].size + n)
    BY <1>5 DEF BrkGrow
  <2>2. PICK k \in Nat : k = a.regs[i].size + n
    BY <1>3, <1>5
  <2>3. i < Len(a.regs) /\ a.regs[i].addr + k <= a.regs[i + 1].addr
    BY <1>3, <1>5, <2>1, <2>2
  <2> QED
    BY <1>1, <1>3, <1>5, <2>1, <2>2, <2>3, ResizedSorted
<1>6. ASSUME a.data_end # a.elf_end, NEW n \in Nat, NEW ctr \in Nat, BrkShrink(a, b, i, addr, ctr, n) PROVE Sorted(b.regs)
  <2>1. n <= a.regs[i].size
    BY <1>3, <1>6, ShrinkSize
  <2>2. b.regs = Resized(a.regs, i, n)
    BY <1>6 DEF BrkShrink
  <2> QED
    BY <1>1, <1>3, <1>6, <2>1, <2>2, ResizedSorted
<1> QED
  BY <1>2, <1>4, <1>5, <1>6 DEF Moves

SortedSpaces == {a \in Typed : Sorted(a.regs)}

LEMMA EvolveSorted ==
    ASSUME NEW a \in SortedSpaces, NEW fr \in SUBSET (Frames \cup {0}), NEW m, NEW what, NEW d, Evolves(a, fr, m, what, d),
           "lost heap" \notin what
    PROVE  m.a \in SortedSpaces
<1>1. a \in Typed /\ Sorted(a.regs) /\ a \in Space /\ a.regs \in Seq(Region)
  BY SpaceIs DEF SortedSpaces, Typed
<1>2. m.a \in Typed
  BY <1>1, EvolveTyped
<1>3. ASSUME NEW hint \in Nat, NEW size \in Nat, NEW avail \in Nat, NEW rw, Mmaps(a, fr, m, what, hint, size, rw, avail)
      PROVE  Sorted(m.a.regs)
  BY <1>1, <1>3, MmapsSorted
<1>4. ASSUME NEW addr \in UserAddresses, NEW i \in Nat, Munmaps(a, fr, m, what, addr, i) PROVE Sorted(m.a.regs)
  <2>1. i = _find_region(a, addr) /\ i # 0 /\ Unmapping(m, a, fr, i)
    BY <1>4 DEF Munmaps
  <2>2. i \in 1..Len(a.regs)
    BY <1>1, <2>1, FindRegion
  <2>3. Sorted(_remove_region(a.regs, i))
    BY <1>1, <2>2, RemoveRegion
  <2> QED
    BY <1>1, <2>1, <2>3 DEF Unmapping
<1>5. ASSUME NEW addr \in Nat, Brks(a, fr, m, what, addr) PROVE Sorted(m.a.regs)
  <2>1. PICK i : i = _find_region(a, a.elf_end + 1)
    OBVIOUS
  <2>2. Breaking(m, a, fr, i, addr)
    BY <1>5, <2>1 DEF Brks
  <2>3. HasHeap(a)
    BY <1>5 DEF Brks, BrkOdd
  <2> QED
    BY <1>1, <2>1, <2>2, <2>3, MovesSorted DEF Breaking
<1>6. ASSUME NEW addr, NEW i, Accesses(a, fr, m, addr, i) PROVE Sorted(m.a.regs)
  BY <1>1, <1>6 DEF Accesses
<1>7. Sorted(m.a.regs)
  BY <1>3, <1>4, <1>5, <1>6 DEF Evolves
<1> QED
  BY <1>2, <1>7 DEF SortedSpaces

LEMMA LoadsSorted ==
    ASSUME NEW m \in Results, Sorted(m.a.regs), NEW seg \in Segment, NEW w, Loads(w, m, seg)
    PROVE  Sorted(w.a.regs)
<1>1. PICK f, g : /\ LoadsFile(f, m, seg) /\ (IF HasBss(f, seg) THEN LoadsBss(g, f, seg) ELSE g = f)
                  /\ w.a = g.a
  BY DEF Loads
<1>2. seg.vaddr \in Nat /\ seg.rw \in BOOLEAN /\ FileSize(seg) \in Nat /\ seg.vaddr + seg.filesz \in Nat
      /\ (seg.memsz > seg.filesz => BssSize(seg) \in Nat)
  BY SegmentIs, SegmentSizes
<1>3. m.a \in Space
  BY DEF Results
<1>4. Sorted(f.a.regs) /\ f.a \in Space
  <2>1. Mapping(f, m.a, m.free, seg.vaddr, seg.filesz, FileSize(seg), seg.rw, Word)
    BY <1>1 DEF LoadsFile
  <2>2. Sorted(f.a.regs)
    BY <1>2, <1>3, <2>1, MappingSorted
  <2>3. f \in Results
    BY <2>1 DEF Mapping
  <2> QED
    BY <2>2, <2>3 DEF Results
<1>5. CASE HasBss(f, seg)
  <2>1. BssSize(seg) \in Nat
    BY <1>2, <1>5 DEF HasBss
  <2>2. Mapping(g, f.a, f.free, seg.vaddr + seg.filesz, seg.memsz - seg.filesz, BssSize(seg), seg.rw, Word)
    BY <1>1, <1>5 DEF LoadsBss
  <2>3. Sorted(g.a.regs)
    BY <1>2, <1>4, <2>1, <2>2, MappingSorted
  <2> QED
    BY <1>1, <2>3
<1>6. CASE ~HasBss(f, seg)
  BY <1>1, <1>4, <1>6
<1> QED
  BY <1>5, <1>6

LEMMA LoadSorted ==
    ASSUME NEW fr \in SUBSET (Frames \cup {0}), NEW prog \in Programs, NEW dst \in Space, dst.regs = <<>>,
           NEW w, w = execve_space(dst, fr, prog), w.st = "ok"
    PROVE  w.a \in SortedSpaces
<1>1. prog \in Seq(Segment) /\ w \in Results /\ w.a \in Typed
  BY ProgramIs, LoadTyped
<1> DEFINE R == {m \in Results : Sorted(m.a.regs)}
           S == [k \in 0..Len(prog) |-> R]
<1>2. Chain(S, dst, fr, prog)
  <2>1. Result("ok", dst, fr, 0) \in R
    <3>1. Sorted(<<>>)
      BY DEF Sorted
    <3> QED
      BY <3>1, FirstResult
  <2>2. \A k \in 0..Len(prog) : S[k] = R
    OBVIOUS
  <2>3. 0 \in 0..Len(prog) /\ \A k \in 1..Len(prog) : k \in 0..Len(prog) /\ k - 1 \in 0..Len(prog) /\ prog[k] \in Segment
    BY <1>1
  <2>4. \A x : \A m \in R : \A seg \in Segment : Loads(x, m, seg) => x \in R
    BY LoadsSorted DEF Loads
  <2>5. R \subseteq Results
    OBVIOUS
  <2> HIDE DEF S, R
  <2> QED
    BY <2>1, <2>2, <2>3, <2>4, <2>5 DEF Chain
<1>3. Len(prog) \in 0..Len(prog)
  BY <1>1
<1>4. S[Len(prog)] = R
  BY <1>3
<1> HIDE DEF S
<1>5. PICK m \in S[Len(prog)] : m \in Results /\ Stacks(w, m)
  BY <1>1, <1>2, ExecveSpace
<1>6. Sorted(m.a.regs) /\ m.st = "ok"
  BY <1>4, <1>5 DEF Stacks
<1>7. PICK s : /\ Mapping(s, WithEnds(m.a, m.ret), m.free, StackEnd, StackSize, StackSize, TRUE, Word)
               /\ w.a.regs = s.a.regs
  BY <1>5, <1>6 DEF Stacks
<1>8. PICK b : b = WithEnds(m.a, m.ret)
  OBVIOUS
<1>9. b \in Space /\ b.regs = m.a.regs
  BY <1>5, <1>8, WithEndsSpace
<1>10. Mapping(s, b, m.free, StackEnd, StackSize, StackSize, TRUE, Word)
  BY <1>7, <1>8
<1>11. Sorted(s.a.regs)
  <2>1. StackEnd \in Nat /\ StackSize \in Nat /\ Sorted(b.regs)
    BY <1>6, <1>9, StackIs, Machine
  <2> QED
    BY <1>9, <1>10, <2>1, MappingSorted
<1> QED
  BY <1>1, <1>7, <1>11 DEF SortedSpaces

LEMMA SortedKept == Keeps(SortedSpaces, {"lost heap"})
<1>1. SortedSpaces \subseteq Typed
  BY DEF SortedSpaces
<1>2. ASSUME NEW a \in SortedSpaces, NEW fr, NEW dst, NEW m, Forking(m, a, dst, fr) PROVE m.a \in SortedSpaces
  <2>1. a \in Typed /\ Sorted(a.regs)
    BY DEF SortedSpaces
  <2>2. m.a \in Typed
    BY <1>2, <2>1, ForkTyped
  <2>3. m.a.regs = a.regs
    BY <1>2 DEF Forking
  <2> QED
    BY <2>1, <2>2, <2>3 DEF SortedSpaces
<1>4. ASSUME NEW a \in SortedSpaces, NEW b, Retabled(a, b, {"lost heap"}) PROVE b \in SortedSpaces
  BY <1>4, RetabledTyped DEF SortedSpaces, Retabled
<1>3. \A what : what \cap {"lost heap"} = {} => "lost heap" \notin what
  OBVIOUS
<1> QED
  BY <1>1, <1>2, <1>3, <1>4, EvolveSorted, LoadSorted DEF Keeps, Blank

(* In every reachable state the regions of every space are sorted and disjoint
   until a program that lost its heap region moves its break, or a break takes
   the heap over the end of the address space: _insert_region and vmm_set_brk
   keep the order whatever _is_area_free has answered. *)
THEOREM RegionsAlwaysSorted == Spec => []RegionsSorted
<1> DEFINE Inv == TypeInv /\ AllIn(Typed) /\ Guarded(SortedSpaces, {"lost heap"})
<1>1. Init => Inv
  BY InitType, TypeFirst, GuardedFirst, SortedKept
<1>2. Inv /\ [Next]_vars => Inv'
  BY NextType, GuardedKept, SortedKept
<1>3. Inv => RegionsSorted
  <2> SUFFICES ASSUME Inv PROVE RegionsSorted
    OBVIOUS
  <2>1. TypeOK
    BY DEF TypeInv, TypeOK
  <2>2. ASSUME "lost heap" \notin odd, NEW t \in Live PROVE Sorted(as[t].regs)
    BY <2>2 DEF Guarded, AllIn, SortedSpaces
  <2> QED
    BY <2>1, <2>2 DEF RegionsSorted, Sorted
<1> QED
  BY <1>1, <1>2, <1>3, PTL DEF Spec
-----------------------------------------------------------------------------
(* No frame is used twice *)

(* The frames of a table are its own, and not free. *)
Own(pt, fr) ==
    /\ \A p \in UserPages : pt[p] # Absent => pt[p].frame \in Frames \ fr
    /\ \A p, q \in UserPages : pt[p] # Absent /\ pt[q] # Absent /\ pt[p].frame = pt[q].frame => p = q

(* A table is replaced by one whose frames it had or were free; what becomes
   free was free or its own. *)
Swap(pt, fr, pt2, fr2) ==
    /\ fr2 \subseteq Frames /\ Own(pt2, fr2)
    /\ \A p \in UserPages : pt2[p] # Absent => \/ pt[p] # Absent /\ pt2[p].frame = pt[p].frame
                                               \/ pt2[p].frame \in fr
    /\ \A f \in fr2 : f \in fr \/ \E p \in UserPages : pt[p] # Absent /\ pt[p].frame = f

LEMMA GainsSwap ==
    ASSUME NEW pt, NEW pt2, NEW fr \in SUBSET Frames, NEW fr2, Own(pt, fr), Gains(pt, fr, pt2, fr2)
    PROVE  Swap(pt, fr, pt2, fr2)
<1>1. ASSUME NEW p \in UserPages, pt2[p] # Absent
      PROVE  \/ pt[p] # Absent /\ pt2[p].frame = pt[p].frame /\ pt2[p].frame \in Frames \ fr
             \/ pt[p] = Absent /\ pt2[p].frame \in fr \ fr2
  BY <1>1 DEF Own, Gains
<1>2. fr2 \subseteq fr
  BY DEF Gains
<1>3. ASSUME NEW p \in UserPages, NEW q \in UserPages, pt2[p] # Absent, pt2[q] # Absent, pt2[p].frame = pt2[q].frame
      PROVE  p = q
  BY <1>1, <1>3 DEF Own, Gains
<1>4. \A p \in UserPages : pt2[p] # Absent => pt2[p].frame \in Frames \ fr2
  BY <1>1, <1>2
<1>5. Own(pt2, fr2)
  BY <1>3, <1>4 DEF Own
<1>6. \A p \in UserPages : pt2[p] # Absent => (pt[p] # Absent /\ pt2[p].frame = pt[p].frame) \/ pt2[p].frame \in fr
  BY <1>1
<1> QED
  BY <1>2, <1>5, <1>6 DEF Swap

LEMMA GainsTrans ==
    ASSUME NEW pt, NEW fr, NEW pt2, NEW fr2, NEW pt3, NEW fr3, Gains(pt, fr, pt2, fr2), Gains(pt2, fr2, pt3, fr3)
    PROVE  Gains(pt, fr, pt3, fr3)
<1>1. fr3 \subseteq fr
  BY DEF Gains
<1>2. \A p \in UserPages : pt[p] # Absent => pt3[p] # Absent /\ pt3[p].frame = pt[p].frame
  BY DEF Gains
<1>3. ASSUME NEW p \in UserPages, pt[p] = Absent, pt3[p] # Absent
      PROVE  \/ pt2[p] = Absent /\ pt3[p].frame \in fr2 \ fr3
             \/ pt2[p] # Absent /\ pt3[p].frame = pt2[p].frame /\ pt3[p].frame \in fr \ fr2
  BY <1>3 DEF Gains
<1>4. fr2 \subseteq fr /\ fr3 \subseteq fr2
  BY DEF Gains
<1>5. \A p \in UserPages : pt[p] = Absent /\ pt3[p] # Absent => pt3[p].frame \in fr \ fr3
  BY <1>3, <1>4
<1>6. ASSUME NEW p \in UserPages, NEW q \in UserPages, pt[p] = Absent, pt3[p] # Absent, pt[q] = Absent, pt3[q] # Absent,
             pt3[p].frame = pt3[q].frame
      PROVE  p = q
  <2>1. CASE pt2[p] = Absent /\ pt2[q] = Absent
    BY <1>6, <2>1 DEF Gains
  <2>2. CASE pt2[p] # Absent /\ pt2[q] # Absent
    <3>1. pt2[p].frame = pt2[q].frame
      BY <1>3, <1>6, <2>2
    <3> QED
      BY <1>6, <2>2, <3>1 DEF Gains
  <2>3. (pt2[p] = Absent) = (pt2[q] = Absent)
    BY <1>3, <1>6
  <2> QED
    BY <2>1, <2>2, <2>3
<1> QED
  BY <1>1, <1>2, <1>5, <1>6 DEF Gains

(* A new space takes its frames from the free ones. *)
LEMMA LoadsGains ==
    ASSUME NEW m \in Results, NEW seg, NEW w, Loads(w, m, seg)
    PROVE  Gains(m.a.pt, m.free, w.a.pt, w.free)
<1>1. PICK f, g : /\ LoadsFile(f, m, seg) /\ (IF HasBss(f, seg) THEN LoadsBss(g, f, seg) ELSE g = f)
                  /\ w.a = g.a /\ w.free = g.free
  BY DEF Loads
<1>2. Gains(m.a.pt, m.free, f.a.pt, f.free)
  BY <1>1 DEF LoadsFile, Mapping
<1>3. CASE HasBss(f, seg)
  <2>1. Gains(f.a.pt, f.free, g.a.pt, g.free)
    BY <1>1, <1>3 DEF LoadsBss, Mapping
  <2> QED
    BY <1>1, <1>2, <2>1, GainsTrans
<1>4. CASE ~HasBss(f, seg)
  BY <1>1, <1>2, <1>4
<1> QED
  BY <1>3, <1>4

LEMMA LoadsDirectory ==
    ASSUME NEW m, NEW seg, NEW w, Loads(w, m, seg)
    PROVE  w.a.pd = m.a.pd
<1>1. PICK f, g : /\ LoadsFile(f, m, seg) /\ (IF HasBss(f, seg) THEN LoadsBss(g, f, seg) ELSE g = f)
                  /\ w.a = g.a
  BY DEF Loads
<1>2. f.a.pd = m.a.pd
  BY <1>1 DEF LoadsFile, Mapping, SameEnds
<1>3. CASE HasBss(f, seg)
  <2>1. g.a.pd = f.a.pd
    BY <1>1, <1>3 DEF LoadsBss, Mapping, SameEnds
  <2> QED
    BY <1>1, <1>2, <2>1
<1>4. CASE ~HasBss(f, seg)
  BY <1>1, <1>2, <1>4
<1> QED
  BY <1>3, <1>4

LEMMA LoadGains ==
    ASSUME NEW fr \in SUBSET (Frames \cup {0}), NEW prog \in Programs, NEW dst \in Space, NEW w, w = execve_space(dst, fr, prog)
    PROVE  w.free \subseteq fr /\ (w.st = "ok" => Gains(dst.pt, fr, w.a.pt, w.free) /\ w.a.pd = dst.pd)
<1>1. prog \in Seq(Segment)
  BY ProgramIs
<1> DEFINE R == {m \in Results : Gains(dst.pt, fr, m.a.pt, m.free) /\ m.a.pd = dst.pd}
           S == [k \in 0..Len(prog) |-> R]
<1>2. Chain(S, dst, fr, prog)
  <2>1. Result("ok", dst, fr, 0) \in R
    <3>1. PICK m : m = Result("ok", dst, fr, 0)
      OBVIOUS
    <3>2. m \in Results /\ m.a = dst /\ m.free = fr
      BY <3>1, FirstResult
    <3>3. Gains(dst.pt, fr, m.a.pt, m.free)
      BY <3>2, GainsNothing
    <3> QED
      BY <3>1, <3>2, <3>3
  <2>2. \A k \in 0..Len(prog) : S[k] = R
    OBVIOUS
  <2>3. 0 \in 0..Len(prog) /\ \A k \in 1..Len(prog) : k \in 0..Len(prog) /\ k - 1 \in 0..Len(prog)
    BY <1>1
  <2>4. ASSUME NEW x, NEW m \in R, NEW seg, Loads(x, m, seg) PROVE x \in R
    <3>1. Gains(dst.pt, fr, m.a.pt, m.free) /\ Gains(m.a.pt, m.free, x.a.pt, x.free)
      BY <2>4, LoadsGains
    <3>2. Gains(dst.pt, fr, x.a.pt, x.free)
      BY <3>1, GainsTrans
    <3>3. x.a.pd = dst.pd
      BY <2>4, LoadsDirectory
    <3> QED
      BY <2>4, <3>2, <3>3 DEF Loads
  <2>5. R \subseteq Results
    OBVIOUS
  <2> HIDE DEF S, R
  <2> QED
    BY <2>1, <2>2, <2>3, <2>4, <2>5 DEF Chain
<1>3. Len(prog) \in 0..Len(prog)
  BY <1>1
<1>4. S[Len(prog)] = R
  BY <1>3
<1> HIDE DEF S
<1>5. PICK m \in S[Len(prog)] : m \in Results /\ Stacks(w, m)
  BY <1>1, <1>2, ExecveSpace
<1>6. Gains(dst.pt, fr, m.a.pt, m.free) /\ m.free \subseteq fr /\ m.a.pd = dst.pd
  BY <1>4, <1>5 DEF Gains
<1>7. CASE m.st # "ok"
  BY <1>5, <1>6, <1>7 DEF Stacks
<1>8. CASE m.st = "ok"
  <2>1. PICK s : /\ Mapping(s, WithEnds(m.a, m.ret), m.free, StackEnd, StackSize, StackSize, TRUE, Word)
                 /\ w.free = s.free /\ w.a.pt = s.a.pt /\ w.a.pd = m.a.pd
    BY <1>5, <1>8 DEF Stacks
  <2>2. PICK b : b = WithEnds(m.a, m.ret)
    OBVIOUS
  <2>3. b.pt = m.a.pt
    BY <1>5, <2>2, WithEndsSpace
  <2>4. Gains(m.a.pt, m.free, w.a.pt, w.free)
    BY <2>1, <2>2, <2>3 DEF Mapping
  <2>5. Gains(dst.pt, fr, w.a.pt, w.free)
    BY <1>6, <2>4, GainsTrans
  <2> QED
    BY <1>6, <2>1, <2>5 DEF Gains
<1> QED
  BY <1>7, <1>8

-----------------------------------------------------------------------------
(* All spaces together *)

(* Two tables hold no frame together. *)
Apart(pt, pt2) == \A p, q \in UserPages : pt[p] # Absent /\ pt2[q] # Absent => pt[p].frame # pt2[q].frame

(* Table pt does not lead to frame f. *)
Misses(pt, f) == \A p \in UserPages : pt[p] # Absent => pt[p].frame # f

Exclusive ==
    /\ free \subseteq Frames
    /\ \A t \in Live : Own(as[t].pt, free) /\ as[t].pd \in Frames \ free
    /\ \A t, u \in Live : t # u => Apart(as[t].pt, as[u].pt) /\ as[t].pd # as[u].pd
    /\ \A t, u \in Live : Misses(as[t].pt, as[u].pd)

FrameOdd == {"fork before use", "odd munmap", "uncleared table"}
FrameInv == odd \cap FrameOdd = {} => drift = 0 /\ Exclusive

LEMMA ApartBoth ==
    ASSUME NEW pt, NEW pt2, Apart(pt, pt2)
    PROVE  Apart(pt2, pt)
BY DEF Apart

LEMMA EmptyApart ==
    ASSUME NEW pt, NEW pt2, \A p \in UserPages : pt[p] = Absent
    PROVE  Apart(pt, pt2)
BY DEF Apart

(* A swap leaves every other table as it was. *)
LEMMA SwapApart ==
    ASSUME NEW pt, NEW fr, NEW pt2, NEW fr2, NEW other, Swap(pt, fr, pt2, fr2), Own(other, fr), Apart(pt, other)
    PROVE  Own(other, fr2) /\ Apart(pt2, other)
<1>1. ASSUME NEW q \in UserPages, other[q] # Absent
      PROVE  /\ other[q].frame \in Frames \ fr2
             /\ \A p \in UserPages : pt2[p] # Absent => pt2[p].frame # other[q].frame
  <2>1. PICK f : f = other[q].frame
    OBVIOUS
  <2>2. f \in Frames \ fr
    BY <1>1, <2>1 DEF Own
  <2>3. \A p \in UserPages : pt[p] # Absent => pt[p].frame # f
    BY <1>1, <2>1 DEF Apart
  <2>4. f \notin fr2
    BY <2>2, <2>3 DEF Swap
  <2>5. \A p \in UserPages : pt2[p] # Absent => pt2[p].frame # f
    BY <2>2, <2>3 DEF Swap
  <2> QED
    BY <2>1, <2>2, <2>4, <2>5
<1>2. Own(other, fr2)
  BY <1>1 DEF Own
<1>3. Apart(pt2, other)
  BY <1>1 DEF Apart
<1> QED
  BY <1>2, <1>3

LEMMA SwapWithout ==
    ASSUME NEW pt, NEW fr, NEW pt2, NEW fr2, NEW f, Swap(pt, fr, pt2, fr2), f \notin fr, Misses(pt, f)
    PROVE  f \notin fr2 /\ Misses(pt2, f)
BY DEF Swap, Misses

(* More frames may be free before. *)
LEMMA SwapMore ==
    ASSUME NEW pt, NEW fr, NEW pt2, NEW fr2, NEW fr0, Swap(pt, fr, pt2, fr2), fr \subseteq fr0
    PROVE  Swap(pt, fr0, pt2, fr2)
BY DEF Swap

(* A space gives up its table for another one, or a new one comes. *)
Follows(t, pt, b) ==
    \/ t \in Live /\ pt = as[t].pt /\ b.pd = as[t].pd
    \/ /\ \A p \in UserPages : pt[p] = Absent
       /\ b.pd \in free /\ b.pd \notin free' /\ Misses(b.pt, b.pd)

LEMMA SwapKeeps ==
    ASSUME Exclusive, as = [t \in Spaces |-> as[t]], NEW t, NEW b, as' = [as EXCEPT ![t] = b],
           NEW pt, Follows(t, pt, b), Swap(pt, free, b.pt, free')
    PROVE  Exclusive'
<1>1. ASSUME NEW u \in Live' PROVE (u = t /\ as'[u] = b) \/ (u # t /\ u \in Live /\ as'[u] = as[u])
  BY DEF Live
<1>0. PICK fr2, pt2 : fr2 = free' /\ pt2 = b.pt
  OBVIOUS
<1>2. fr2 \subseteq Frames /\ Own(pt2, fr2) /\ Swap(pt, free, pt2, fr2)
  BY <1>0 DEF Swap
<1>3. b.pd \in Frames \ fr2 /\ Misses(pt2, b.pd)
  <2>1. CASE t \in Live /\ pt = as[t].pt /\ b.pd = as[t].pd
    <3>1. PICK f : f = b.pd
      OBVIOUS
    <3>2. f \in Frames \ free /\ Misses(pt, f)
      BY <2>1, <3>1 DEF Exclusive
    <3>3. f \notin fr2 /\ Misses(pt2, f)
      BY <1>2, <3>2, SwapWithout
    <3> QED
      BY <3>1, <3>2, <3>3
  <2>2. CASE b.pd \in free /\ b.pd \notin free' /\ Misses(b.pt, b.pd)
    BY <1>0, <2>2 DEF Exclusive
  <2> QED
    BY <2>1, <2>2 DEF Follows
<1>4. ASSUME NEW u \in Live, u # t
      PROVE  /\ Own(as[u].pt, fr2) /\ Apart(pt2, as[u].pt) /\ Apart(as[u].pt, pt2)
             /\ as[u].pd \in Frames \ fr2 /\ as[u].pd # b.pd
             /\ Misses(as[u].pt, b.pd) /\ Misses(pt2, as[u].pd)
  <2>1. Own(as[u].pt, free) /\ as[u].pd \in Frames \ free
    BY DEF Exclusive
  <2>2. Apart(pt, as[u].pt) /\ Misses(pt, as[u].pd)
    <3>1. CASE t \in Live /\ pt = as[t].pt
      BY <1>4, <3>1 DEF Exclusive
    <3>2. CASE \A p \in UserPages : pt[p] = Absent
      BY <3>2, EmptyApart DEF Misses
    <3> QED
      BY <3>1, <3>2 DEF Follows
  <2>3. Own(as[u].pt, fr2) /\ Apart(pt2, as[u].pt)
    <3>1. PICK other : other = as[u].pt
      OBVIOUS
    <3>2. Own(other, free) /\ Apart(pt, other)
      BY <2>1, <2>2, <3>1
    <3>3. Own(other, fr2) /\ Apart(pt2, other)
      BY <1>2, <3>2, SwapApart
    <3> QED
      BY <3>1, <3>3
  <2>4. as[u].pd \notin fr2 /\ Misses(pt2, as[u].pd)
    <3>1. PICK f : f = as[u].pd
      OBVIOUS
    <3>2. f \notin free /\ Misses(pt, f)
      BY <2>1, <2>2, <3>1
    <3>3. f \notin fr2 /\ Misses(pt2, f)
      BY <1>2, <3>2, SwapWithout
    <3> QED
      BY <3>1, <3>3
  <2>5. as[u].pd # b.pd /\ Misses(as[u].pt, b.pd)
    <3>1. CASE t \in Live /\ b.pd = as[t].pd
      BY <1>4, <3>1 DEF Exclusive
    <3>2. CASE b.pd \in free
      BY <2>1, <3>2 DEF Own, Misses
    <3> QED
      BY <3>1, <3>2 DEF Follows
  <2>6. Apart(as[u].pt, pt2)
    BY <2>3, ApartBoth
  <2> QED
    BY <2>1, <2>3, <2>4, <2>5, <2>6
<1>5. ASSUME NEW u \in Live' PROVE Own(as'[u].pt, free') /\ as'[u].pd \in Frames \ free'
  BY <1>0, <1>1, <1>2, <1>3, <1>4
<1>6. ASSUME NEW u \in Live', NEW v \in Live'
      PROVE  /\ u # v => Apart(as'[u].pt, as'[v].pt) /\ as'[u].pd # as'[v].pd
             /\ Misses(as'[u].pt, as'[v].pd)
  <2>1. CASE u # t /\ u \in Live /\ as'[u] = as[u] /\ v # t /\ v \in Live /\ as'[v] = as[v]
    BY <1>6, <2>1 DEF Exclusive
  <2>2. CASE u = t /\ as'[u] = b /\ v # t /\ v \in Live /\ as'[v] = as[v]
    BY <1>0, <1>4, <2>2
  <2>3. CASE u # t /\ u \in Live /\ as'[u] = as[u] /\ v = t /\ as'[v] = b
    BY <1>0, <1>4, <2>3
  <2>4. CASE u = t /\ as'[u] = b /\ v = t /\ as'[v] = b
    BY <1>0, <1>3, <2>4
  <2> QED
    BY <1>1, <2>1, <2>2, <2>3, <2>4
<1> QED
  BY <1>0, <1>2, <1>5, <1>6 DEF Exclusive

(* Spaces may go, and free frames may be lost. *)
LEMMA OwnMore ==
    ASSUME NEW pt, NEW fr, NEW fr2, Own(pt, fr), fr2 \subseteq fr
    PROVE  Own(pt, fr2)
BY DEF Own

LEMMA LosingKeeps ==
    ASSUME Exclusive, as = [t \in Spaces |-> as[t]], NEW t, as' = as \/ as' = [as EXCEPT ![t] = NULL], free' \subseteq free
    PROVE  Exclusive'
<1>1. ASSUME NEW u \in Live' PROVE u \in Live /\ as'[u] = as[u]
  BY DEF Live
<1>2. ASSUME NEW u \in Live' PROVE Own(as'[u].pt, free') /\ as'[u].pd \in Frames \ free'
  <2>1. Own(as[u].pt, free) /\ as[u].pd \in Frames \ free
    BY <1>1 DEF Exclusive
  <2> QED
    BY <1>1, <2>1, OwnMore
<1>3. free' \subseteq Frames
  BY DEF Exclusive
<1>4. ASSUME NEW u \in Live', NEW v \in Live'
      PROVE  /\ u # v => Apart(as'[u].pt, as'[v].pt) /\ as'[u].pd # as'[v].pd
             /\ Misses(as'[u].pt, as'[v].pd)
  BY <1>1, <1>4 DEF Exclusive
<1> QED
  BY <1>2, <1>3, <1>4 DEF Exclusive

(* A task that is gone has put its directory back. *)
LEMMA ExitKeeps ==
    ASSUME Exclusive, as = [t \in Spaces |-> as[t]], NEW t \in Live, as' = [as EXCEPT ![t] = NULL], free' = free \cup {as[t].pd}
    PROVE  Exclusive'
<1>1. ASSUME NEW u \in Live' PROVE u \in Live /\ u # t /\ as'[u] = as[u]
  BY DEF Live
<1>2. ASSUME NEW u \in Live' PROVE Own(as'[u].pt, free') /\ as'[u].pd \in Frames \ free'
  <2>1. Own(as[u].pt, free) /\ as[u].pd \in Frames \ free /\ as[u].pd # as[t].pd /\ Misses(as[u].pt, as[t].pd)
    BY <1>1 DEF Exclusive
  <2>2. PICK pt, f : pt = as[u].pt /\ f = as[t].pd
    OBVIOUS
  <2>3. Own(pt, free) /\ Misses(pt, f)
    BY <2>1, <2>2
  <2>4. Own(pt, free \cup {f})
    BY <2>3 DEF Own, Misses
  <2>5. as'[u].pt = pt /\ free' = free \cup {f}
    BY <1>1, <2>2
  <2>6. as'[u].pd \in Frames \ free'
    <3>1. as'[u].pd = as[u].pd
      BY <1>1
    <3>2. as[u].pd \in Frames \ (free \cup {f})
      BY <2>1, <2>2
    <3> QED
      BY <2>5, <3>1, <3>2
  <2> QED
    BY <2>4, <2>5, <2>6
<1>3. free' \subseteq Frames
  BY DEF Exclusive
<1>4. ASSUME NEW u \in Live', NEW v \in Live'
      PROVE  /\ u # v => Apart(as'[u].pt, as'[v].pt) /\ as'[u].pd # as'[v].pd
             /\ Misses(as'[u].pt, as'[v].pd)
  BY <1>1, <1>4 DEF Exclusive
<1> QED
  BY <1>2, <1>3, <1>4 DEF Exclusive

(* Unmapping pages and keeping their frames. *)
LEMMA DropSwap ==
    ASSUME NEW pt, NEW fr \in SUBSET Frames, Own(pt, fr), NEW pt2, \A p \in UserPages : pt2[p] = pt[p] \/ pt2[p] = Absent
    PROVE  Swap(pt, fr, pt2, fr)
BY DEF Own, Swap

LEMMA NothingMore ==
    ASSUME NEW x, NEW y, NEW d, y = 0, d \in {0}, x = y + d
    PROVE  x = 0
OBVIOUS

(* Each operation swaps the tables. *)
LEMMA BreakSwap ==
    ASSUME NEW a \in Space, NEW fr \in SUBSET Frames, Own(a.pt, fr), NEW m, NEW i, NEW addr, Breaking(m, a, fr, i, addr)
    PROVE  Swap(a.pt, fr, m.a.pt, m.free)
<1>1. m.free = fr /\ a.pt \in Table
  BY SpaceIs DEF Breaking
<1>2. \A p \in UserPages : m.a.pt[p] = a.pt[p] \/ m.a.pt[p] = Absent
  <2>1. CASE m.st # "ok"
    BY <2>1 DEF Breaking
  <2>2. CASE m.st = "ok"
    <3>1. Moves(a, m.a, i, addr)
      BY <2>2 DEF Breaking
    <3>2. m.a.pt = a.pt \/ \E S : m.a.pt = pg_unmap_from(a.pt, S)
      <4>1. ASSUME NEW n, NEW ctr, BrkShrink(a, m.a, i, addr, ctr, n) PROVE \E S : m.a.pt = pg_unmap_from(a.pt, S)
        BY <4>1 DEF BrkShrink
      <4>2. ASSUME NEW n, BrkGrow(a, m.a, i, addr, n) PROVE m.a.pt = a.pt
        BY <4>2 DEF BrkGrow
      <4>3. ASSUME NEW r, BrkFirst(a, m.a, addr, r) PROVE m.a.pt = a.pt
        BY <4>3 DEF BrkFirst
      <4>4. ASSUME BrkWithin(a, m.a, i, addr) PROVE m.a.pt = a.pt
        BY <4>4 DEF BrkWithin
      <4> QED
        BY <3>1, <4>1, <4>2, <4>3, <4>4 DEF Moves
    <3>3. ASSUME NEW S, m.a.pt = pg_unmap_from(a.pt, S) PROVE \A p \in UserPages : m.a.pt[p] = a.pt[p] \/ m.a.pt[p] = Absent
      BY <1>1, <3>3, Unmapped
    <3> QED
      BY <3>2, <3>3
  <2> QED
    BY <2>1, <2>2
<1> QED
  BY <1>1, <1>2, DropSwap

LEMMA MunmapSwap ==
    ASSUME NEW a \in Space, NEW fr \in SUBSET Frames, Own(a.pt, fr), NEW m, NEW addr \in UserAddresses, NEW i,
           Munmaps(a, fr, m, {}, addr, i)
    PROVE  Swap(a.pt, fr, m.a.pt, m.free) /\ m.ret = 0
<1>1. i = _find_region(a, addr) /\ i # 0 /\ m = vmm_munmap(a, fr, addr) /\ Unmapping(m, a, fr, i) /\ MunmapOdd(a, addr, i) = {}
  BY DEF Munmaps
<1>2. a.regs[i].addr = addr /\ a.regs[i].size = PAGE_SIZE /\ addr % PAGE_SIZE = 0
  BY <1>1 DEF MunmapOdd
<1>3. fr \in SUBSET (Frames \cup {0})
  OBVIOUS
<1>4. CASE m.st # "ok"
  <2>1. m.a = a /\ m.free = fr /\ m.ret = 0
    BY <1>1, <1>4 DEF Unmapping
  <2> QED
    BY <2>1, DropSwap
<1>5. CASE m.st = "ok"
  <2>1. PICK e : e = a.pt[Page(addr)]
    OBVIOUS
  <2>2. OnePageGone(m, a, fr, addr, e)
    <3>1. m = vmm_munmap(a, fr, addr) /\ i = _find_region(a, addr) /\ i # 0
      BY <1>1
    <3>2. PICK fx \in SUBSET (Frames \cup {0}) : fx = fr
      BY <1>3
    <3>3. m = vmm_munmap(a, fx, addr)
      BY <3>1, <3>2
    <3>4. OnePageGone(m, a, fx, addr, e)
      BY <1>2, <1>5, <2>1, <3>1, <3>3, MunmapPage
    <3> QED
      BY <3>2, <3>4
  <2>9. /\ e # Absent /\ m.free = fr \cup {e.frame} /\ (e.frame \notin fr => m.ret = 0)
        /\ \A p \in UserPages : m.a.pt[p] = IF p = Page(addr) THEN Absent ELSE a.pt[p]
    BY <2>2 DEF OnePageGone
  <2>3. Page(addr) \in UserPages
    BY UserPage
  <2>4. e.frame \in Frames \ fr
    BY <2>1, <2>9, <2>3 DEF Own
  <2>5. Own(m.a.pt, m.free)
    <3>1. ASSUME NEW p \in UserPages, m.a.pt[p] # Absent PROVE p # Page(addr) /\ m.a.pt[p] = a.pt[p]
      BY <2>9, <3>1
    <3>2. ASSUME NEW p \in UserPages, m.a.pt[p] # Absent PROVE m.a.pt[p].frame \in Frames \ m.free
      BY <2>1, <2>9, <2>3, <3>1, <3>2 DEF Own
    <3>3. ASSUME NEW p \in UserPages, NEW q \in UserPages, m.a.pt[p] # Absent, m.a.pt[q] # Absent, m.a.pt[p].frame = m.a.pt[q].frame
          PROVE  p = q
      BY <3>1, <3>3 DEF Own
    <3> QED
      BY <3>2, <3>3 DEF Own
  <2>6. \A p \in UserPages : m.a.pt[p] # Absent => a.pt[p] # Absent /\ m.a.pt[p].frame = a.pt[p].frame
    BY <2>9
  <2>7. \A f \in m.free : f \in fr \/ \E p \in UserPages : a.pt[p] # Absent /\ a.pt[p].frame = f
    BY <2>1, <2>9, <2>3
  <2>8. m.free \subseteq Frames
    BY <2>9, <2>4
  <2> QED
    BY <2>9, <2>4, <2>5, <2>6, <2>7, <2>8 DEF Swap
<1> QED
  BY <1>4, <1>5

LEMMA AccessSwap ==
    ASSUME NEW a \in Space, NEW fr \in SUBSET Frames, Own(a.pt, fr), NEW m, NEW addr \in UserAddresses, NEW i, Accesses(a, fr, m, addr, i)
    PROVE  Swap(a.pt, fr, m.a.pt, m.free)
<1>1. a.pt \in Table /\ Page(addr) \in UserPages
  BY SpaceIs, UserPage
<1>2. PICK x : x = [frame |-> Min(fr), rw |-> a.regs[i].rw]
  OBVIOUS
<1>3. m.a.pt = [a.pt EXCEPT ![Page(addr)] = x] /\ a.pt[Page(addr)] = Absent /\ m.free = fr \ {Min(fr)} /\ fr # {}
  BY <1>2 DEF Accesses
<1>4. Min(fr) \in fr
  <2>1. fr \in SUBSET Nat
    BY FreeFinite
  <2> QED
    BY <1>3, <2>1, MinIs
<1>5. \A p \in UserPages : m.a.pt[p] = IF p = Page(addr) THEN x ELSE a.pt[p]
  BY <1>1, <1>3 DEF Table
<1>6. x.frame = Min(fr)
  BY <1>2
<1>7. Gains(a.pt, fr, m.a.pt, m.free)
  BY <1>3, <1>4, <1>5, <1>6 DEF Gains
<1> QED
  BY <1>7, GainsSwap

LEMMA EvolveSwap ==
    ASSUME NEW a \in Space, NEW fr \in SUBSET Frames, Own(a.pt, fr), NEW m, NEW what, NEW d, Evolves(a, fr, m, what, d),
           "odd munmap" \notin what
    PROVE  Swap(a.pt, fr, m.a.pt, m.free) /\ d \in {0}
<1>1. ASSUME NEW hint, NEW size, NEW rw, NEW avail, Mmaps(a, fr, m, what, hint, size, rw, avail) PROVE Swap(a.pt, fr, m.a.pt, m.free)
  <2>1. Gains(a.pt, fr, m.a.pt, m.free)
    BY <1>1 DEF Mmaps, Mapping
  <2> QED
    BY <2>1, GainsSwap
<1>2. ASSUME NEW addr \in UserAddresses, NEW i \in Nat, Munmaps(a, fr, m, what, addr, i) PROVE Swap(a.pt, fr, m.a.pt, m.free) /\ m.ret = 0
  <2>1. what = {}
    BY <1>2 DEF Munmaps, MunmapOdd
  <2> QED
    BY <1>2, <2>1, MunmapSwap
<1>3. ASSUME NEW addr \in Nat, Brks(a, fr, m, what, addr) PROVE Swap(a.pt, fr, m.a.pt, m.free)
  BY <1>3, BreakSwap DEF Brks
<1>4. ASSUME NEW addr \in UserAddresses, NEW i \in Nat, Accesses(a, fr, m, addr, i) PROVE Swap(a.pt, fr, m.a.pt, m.free)
  BY <1>4, AccessSwap
<1> QED
  BY <1>1, <1>2, <1>3, <1>4 DEF Evolves

LEMMA EvolveDirectory ==
    ASSUME NEW a, NEW fr, NEW m, NEW what, NEW d, Evolves(a, fr, m, what, d)
    PROVE  m.a.pd = a.pd
<1>1. ASSUME NEW hint, NEW size, NEW rw, NEW avail, Mmaps(a, fr, m, what, hint, size, rw, avail) PROVE m.a.pd = a.pd
  BY <1>1 DEF Mmaps, Mapping, SameEnds
<1>2. ASSUME NEW addr, NEW i, Munmaps(a, fr, m, what, addr, i) PROVE m.a.pd = a.pd
  BY <1>2 DEF Munmaps, Unmapping, SameEnds
<1>3. ASSUME NEW addr, Brks(a, fr, m, what, addr) PROVE m.a.pd = a.pd
  BY <1>3 DEF Brks, Breaking
<1>4. ASSUME NEW addr, NEW i, Accesses(a, fr, m, addr, i) PROVE m.a.pd = a.pd
  BY <1>4 DEF Accesses, SameEnds
<1> QED
  BY <1>1, <1>2, <1>3, <1>4 DEF Evolves

(* A child's frames are free ones when every page of its parent was there. *)
LEMMA ForkSwap ==
    ASSUME NEW a \in Space, NEW fr \in SUBSET Frames, NEW dst, dst.pt = Clear, NEW m, Forking(m, a, dst, fr), m.st = "ok",
           ~ \E x \in Copies(a) : a.pt[x[2]] = Absent
    PROVE  Swap(Clear, fr, m.a.pt, m.free) /\ m.free \subseteq fr /\ m.a.pd = dst.pd
<1>1. a.regs \in Seq(Region)
  BY SpaceIs
<1>2. ASSUME NEW p \in UserPages, m.a.pt[p] # Absent PROVE Walked(a, p) /\ a.pt[p] # Absent
  <2>0. Walked(a, p)
    <3>1. ~Walked(a, p) => m.a.pt[p] = dst.pt[p]
      BY DEF Forking
    <3>2. dst.pt[p] = Absent
      BY ClearIs
    <3> QED
      BY <1>2, <3>1, <3>2
  <2>1. PICK i \in 1..Len(a.regs) : p \in Steps(a.regs[i])
    BY <2>0 DEF Walked
  <2>2. <<i, p>> \in Copies(a)
    BY <1>1, <2>1, CopiesAre
  <2>3. <<i, p>>[2] = p
    OBVIOUS
  <2> QED
    BY <2>0, <2>2, <2>3
<1>3. \A p \in UserPages : m.a.pt[p] # Absent => m.a.pt[p].frame \in fr \ m.free
  BY <1>2 DEF Forking
<1>4. ASSUME NEW p \in UserPages, NEW q \in UserPages, m.a.pt[p] # Absent, m.a.pt[q] # Absent, m.a.pt[p].frame = m.a.pt[q].frame
      PROVE  p = q
  BY <1>2, <1>4 DEF Forking
<1>5. m.free \subseteq fr /\ m.a.pd = dst.pd
  BY DEF Forking
<1> QED
  BY <1>3, <1>4, <1>5 DEF Swap, Own

LEMMA ClearOwn ==
    ASSUME NEW fr
    PROVE  Own(Clear, fr) /\ \A p \in UserPages : Clear[p] = Absent
BY ClearIs DEF Own

(* The frames of a new space are free ones, and its directory is none of them. *)
LEMMA FreshSpace ==
    ASSUME NEW dst, NEW fr0, NEW fr, NEW u, Started(dst, fr0, fr, u), NEW b, NEW fr2, Swap(Clear, fr, b.pt, fr2),
           fr2 \subseteq fr, b.pd = dst.pd
    PROVE  Swap(Clear, fr0, b.pt, fr2) /\ b.pd \in fr0 /\ b.pd \notin fr2 /\ Misses(b.pt, b.pd)
<1>1. fr \subseteq fr0 /\ b.pd \in fr0 /\ b.pd \notin fr
  BY DEF Started
<1>2. Misses(Clear, b.pd)
  BY ClearIs DEF Misses
<1> QED
  BY <1>1, <1>2, SwapMore, SwapWithout

LEMMA StartedClear ==
    ASSUME NEW dst, NEW fr0, NEW fr, NEW u, Started(dst, fr0, fr, u), NEW o, u \subseteq o, o \cap FrameOdd = {}
    PROVE  dst \in Space /\ dst.pt = Clear
BY DEF Started, FrameOdd, Unclean

LEMMA InitFrames ==
    ASSUME Init
    PROVE  FrameInv
<1> SUFFICES ASSUME odd \cap FrameOdd = {} PROVE drift = 0 /\ Exclusive
  BY DEF FrameInv
<1>1. PICK prog, dst, fr, m :
        /\ prog \in Programs
        /\ Started(dst, Frames, fr, odd) /\ m = execve_space(dst, fr, prog) /\ m.st = "ok"
        /\ as = [t \in Spaces |-> IF t = first THEN m.a ELSE NULL] /\ free = m.free
        /\ touched = Used \cup (Frames \ m.free) /\ drift = 0 /\ fault = "none" /\ status = "running"
  BY FirstStart
<1>2. dst \in Space /\ dst.pt = Clear
  BY <1>1, StartedClear
<1>3. fr \in SUBSET Frames /\ fr \in SUBSET (Frames \cup {0})
  BY <1>1 DEF Started
<1>4. m.free \subseteq fr /\ Gains(Clear, fr, m.a.pt, m.free) /\ m.a.pd = dst.pd
  BY <1>1, <1>2, <1>3, LoadGains
<1>5. Swap(Clear, fr, m.a.pt, m.free)
  BY <1>3, <1>4, ClearOwn, GainsSwap
<1>6. PICK b : b = m.a
  OBVIOUS
<1>7. Swap(Clear, Frames, b.pt, free) /\ b.pd \in Frames /\ b.pd \notin free /\ Misses(b.pt, b.pd)
  <2>1. Swap(Clear, fr, b.pt, free) /\ free \subseteq fr /\ b.pd = dst.pd
    BY <1>1, <1>4, <1>5, <1>6
  <2> QED
    BY <1>1, <2>1, FreshSpace
<1>8. ASSUME NEW t \in Live PROVE t = first /\ as[t] = b
  BY <1>1, <1>6 DEF Live
<1>9. Exclusive
  BY <1>7, <1>8 DEF Exclusive, Swap
<1> QED
  BY <1>1, <1>9

LEMMA NextFrames ==
    ASSUME TypeInv, Next, FrameInv
    PROVE  FrameInv'
<1>0. as = [t \in Spaces |-> as[t]] /\ free \in SUBSET (Frames \cup {0}) /\ drift \in Nat /\ \A t \in Live : as[t] \in Space
  BY DEF TypeInv
<1> SUFFICES ASSUME odd' \cap FrameOdd = {}
             PROVE  drift' = 0 /\ Exclusive'
  BY DEF FrameInv
<1>1. odd \subseteq odd'
  BY OddGrows
<1>2. drift = 0 /\ Exclusive
  BY <1>1 DEF FrameInv
<1>3. free \in SUBSET Frames /\ \A t \in Live : Own(as[t].pt, free) /\ as[t].pd \in Frames \ free
  BY <1>2 DEF Exclusive
<1>4. PICK t \in Live : Stepping(t)
  BY NextSteps
<1>5. ASSUME NEW a, NEW fr, NEW u, NEW m, NEW what, NEW d, EvolveStep(t, a, fr, u, m, what, d) PROVE drift' = 0 /\ Exclusive'
  <2>1. /\ Prepared(as[t], free, a, fr, u) /\ Evolves(a, fr, m, what, d)
        /\ as' = [as EXCEPT ![t] = m.a] /\ free' = m.free /\ drift' = drift + d
        /\ "odd munmap" \notin what /\ "uncleared table" \notin u
    BY <1>5 DEF EvolveStep, FrameOdd
  <2>2. a \in Space /\ a.pt = as[t].pt /\ a.pd = as[t].pd /\ fr \subseteq free
    BY <2>1 DEF Prepared, Unclean, SameEnds
  <2>3. fr \in SUBSET Frames
    BY <1>3, <2>2
  <2>4. Own(a.pt, fr)
    <3>1. Own(as[t].pt, free)
      BY <1>3
    <3> QED
      BY <2>2, <3>1, OwnMore
  <2>5. "odd munmap" \notin what
    BY <2>1
  <2>6. Swap(a.pt, fr, m.a.pt, m.free) /\ d \in {0}
    BY <2>1, <2>2, <2>3, <2>4, <2>5, EvolveSwap
  <2>7. Swap(as[t].pt, free, m.a.pt, free')
    <3>1. Swap(a.pt, free, m.a.pt, m.free)
      BY <2>2, <2>6, SwapMore
    <3> QED
      BY <2>1, <2>2, <3>1
  <2>8. m.a.pd = as[t].pd
    BY <2>1, <2>2, EvolveDirectory
  <2>9. PICK b, pt : b = m.a /\ pt = as[t].pt
    OBVIOUS
  <2>10. Follows(t, pt, b)
    BY <2>8, <2>9 DEF Follows
  <2>11. Exclusive'
    <3>1. as' = [as EXCEPT ![t] = b] /\ Swap(pt, free, b.pt, free')
      BY <2>1, <2>7, <2>9
    <3> QED
      BY <1>0, <1>2, <2>10, <3>1, SwapKeeps
  <2>12. drift' = 0
    <3>1. PICK x : x = drift'
      OBVIOUS
    <3>2. x = drift + d
      BY <2>1, <3>1
    <3>3. x = 0
      BY <1>2, <2>6, <3>2, NothingMore
    <3> QED
      BY <3>1, <3>3
  <2> QED
    BY <2>11, <2>12
<1>6. ASSUME NEW dst, NEW fr, NEW u, NEW b, NEW c, Started(dst, free, fr, u), u \subseteq odd', Swap(Clear, fr, b.pt, free'),
             free' \subseteq fr, b.pd = dst.pd, as' = [as EXCEPT ![c] = b]
      PROVE  Exclusive'
  <2>1. PICK fr2 : fr2 = free'
    OBVIOUS
  <2>2. Swap(Clear, free, b.pt, fr2) /\ b.pd \in free /\ b.pd \notin fr2 /\ Misses(b.pt, b.pd)
    BY <1>6, <2>1, FreshSpace
  <2>3. PICK pt : pt = Clear
    OBVIOUS
  <2>4. Follows(c, pt, b)
    BY <2>1, <2>2, <2>3, ClearIs DEF Follows
  <2>5. Swap(pt, free, b.pt, free')
    BY <2>1, <2>2, <2>3
  <2> QED
    BY <1>0, <1>2, <1>6, <2>4, <2>5, SwapKeeps
<1>7. ASSUME NEW c \in Spaces, NEW dst, NEW fr, NEW u, NEW m, ForkStep(t, c, dst, fr, u, m) PROVE drift' = 0 /\ Exclusive'
  <2>1. /\ Forking(m, as[t], dst, fr) /\ fr \subseteq free /\ free' = m.free /\ drift' = drift
        /\ as' = [as EXCEPT ![c] = IF m.st = "ok" THEN m.a ELSE NULL]
    BY <1>7 DEF ForkStep
  <2>2. CASE m.st = "ok"
    <3>1. ~ \E x \in Copies(as[t]) : as[t].pt[x[2]] = Absent
      BY <1>7 DEF ForkStep, FrameOdd
    <3>2. Started(dst, free, fr, u) /\ u \subseteq odd'
      BY <1>7, <2>2 DEF ForkStep
    <3>3. dst.pt = Clear
      BY <3>2, StartedClear
    <3>4. fr \in SUBSET Frames
      BY <1>3, <2>1
    <3>5. Swap(Clear, fr, m.a.pt, m.free) /\ m.free \subseteq fr /\ m.a.pd = dst.pd
      <4>1. PICK a \in Space : a = as[t]
        BY <1>0
      <4>2. Forking(m, a, dst, fr) /\ ~ \E x \in Copies(a) : a.pt[x[2]] = Absent
        BY <2>1, <3>1, <4>1
      <4> QED
        BY <2>2, <3>3, <3>4, <4>2, ForkSwap
    <3>6. PICK b : b = m.a
      OBVIOUS
    <3>7. as' = [as EXCEPT ![c] = b] /\ Swap(Clear, fr, b.pt, free') /\ free' \subseteq fr /\ b.pd = dst.pd
      BY <2>1, <2>2, <3>5, <3>6
    <3>8. Exclusive'
      BY <1>6, <3>2, <3>7
    <3> QED
      BY <1>2, <2>1, <3>8
  <2>3. CASE m.st # "ok"
    <3>1. free' \subseteq free /\ as' = [as EXCEPT ![c] = NULL]
      BY <2>1, <2>3 DEF Forking
    <3> QED
      BY <1>0, <1>2, <2>1, <3>1, LosingKeeps
  <2> QED
    BY <2>2, <2>3
<1>8. ASSUME NEW prog \in Programs, NEW dst, NEW fr, NEW u, NEW m, ExecveStep(t, prog, dst, fr, u, m) PROVE drift' = 0 /\ Exclusive'
  <2>1. free' = m.free /\ drift' = drift
    BY <1>8 DEF ExecveStep
  <2>2. ASSUME Started(dst, free, fr, u)
        PROVE  dst \in Space /\ fr \in SUBSET Frames /\ fr \in SUBSET (Frames \cup {0}) /\ fr \subseteq free
    BY <1>3, <2>2 DEF Started
  <2>3. CASE as' = as
    <3>1. m.free \subseteq free
      <4>1. CASE m.free = free
        BY <4>1
      <4>2. CASE Started(dst, free, fr, u) /\ m = execve_space(dst, fr, prog)
        <5>1. m.free \subseteq fr
          BY <2>2, <4>2, LoadGains
        <5> QED
          BY <2>2, <4>2, <5>1
      <4> QED
        BY <1>8, <4>1, <4>2 DEF ExecveStep
    <3> QED
      BY <1>0, <1>2, <2>1, <2>3, <3>1, LosingKeeps
  <2>4. CASE m.st = "ok" /\ as' = [as EXCEPT ![t] = m.a] /\ odd' = odd \cup u
    <3>1. Started(dst, free, fr, u) /\ m = execve_space(dst, fr, prog) /\ u \subseteq odd'
      BY <1>8, <2>4 DEF ExecveStep
    <3>2. dst \in Space /\ dst.pt = Clear
      BY <3>1, StartedClear
    <3>3. m.free \subseteq fr /\ Gains(Clear, fr, m.a.pt, m.free) /\ m.a.pd = dst.pd
      <4>1. PICK fx \in SUBSET (Frames \cup {0}), dx \in Space : fx = fr /\ dx = dst
        BY <2>2, <3>1, <3>2
      <4>2. m = execve_space(dx, fx, prog)
        BY <3>1, <4>1
      <4>3. m.free \subseteq fx /\ Gains(dx.pt, fx, m.a.pt, m.free) /\ m.a.pd = dx.pd
        BY <2>4, <4>2, LoadGains
      <4> QED
        BY <3>2, <4>1, <4>3
    <3>4. Swap(Clear, fr, m.a.pt, m.free)
      BY <2>2, <3>1, <3>3, ClearOwn, GainsSwap
    <3>5. PICK b : b = m.a
      OBVIOUS
    <3>6. as' = [as EXCEPT ![t] = b] /\ Swap(Clear, fr, b.pt, free') /\ free' \subseteq fr /\ b.pd = dst.pd
      BY <2>1, <2>4, <3>3, <3>4, <3>5
    <3>7. Exclusive'
      BY <1>6, <3>1, <3>6
    <3> QED
      BY <1>2, <2>1, <3>7
  <2> QED
    BY <1>8, <2>3, <2>4 DEF ExecveStep
<1>9. ASSUME exit(t) PROVE drift' = 0 /\ Exclusive'
  <2>1. as' = [as EXCEPT ![t] = NULL] /\ free' = free \cup {as[t].pd}
    BY <1>9 DEF exit
  <2>2. drift' = drift + 0
    BY <1>3, <1>9 DEF exit
  <2>3. Exclusive'
    BY <1>0, <1>2, <2>1, ExitKeeps
  <2> QED
    BY <1>2, <2>2, <2>3
<1>10. ASSUME NEW addr, NEW write, NEW junk, AccessStep(t, addr, write, junk) PROVE drift' = 0 /\ Exclusive'
  <2>1. as' = as /\ free' = free /\ drift' = drift
    BY <1>10 DEF AccessStep
  <2> QED
    BY <1>0, <1>2, <2>1, LosingKeeps
<1> QED
  BY <1>4, <1>5, <1>7, <1>8, <1>9, <1>10 DEF Stepping, Evolution

(* Until a program forks with memory it has not touched, unmaps something odd or
   gets a page table that holds something, no two page table entries of programs
   hold the same frame, none holds the directory of a program, no frame in use is
   free and no frame is freed twice. *)
THEOREM FramesAlwaysExclusive == Spec => []FramesExclusive
<1> DEFINE Inv == TypeInv /\ AllIn(Typed) /\ FrameInv
<1>1. Init => Inv
  BY InitType, TypeFirst, InitFrames
<1>2. Inv /\ [Next]_vars => Inv'
  <2> SUFFICES ASSUME Inv, [Next]_vars PROVE Inv'
    OBVIOUS
  <2>1. TypeInv' /\ AllIn(Typed)'
    BY NextType
  <2>2. CASE Next
    BY <2>1, <2>2, NextFrames
  <2>3. CASE UNCHANGED vars
    <3>1. FrameInv'
      BY <2>3 DEF FrameInv, Exclusive, Live, vars
    <3> QED
      BY <2>1, <3>1
  <2> QED
    BY <2>2, <2>3
<1>3. Inv => FramesExclusive
  <2>0. SUFFICES ASSUME Inv, odd \cap FrameOdd = {}
                 PROVE  /\ drift = 0
                        /\ \A t, u \in Live :
                              /\ as[t].pd \in Frames \ free
                              /\ as[t].pd = as[u].pd => t = u
                              /\ \A p, q \in UserPages : as[t].pt[p] # Absent =>
                                    /\ as[t].pt[p].frame \in Frames \ free /\ as[t].pt[p].frame # as[u].pd
                                    /\ as[t].pt[p].frame = as[u].pt[q].frame => t = u /\ p = q
    BY Zenon DEF FramesExclusive, FrameOdd
  <2>1. drift = 0 /\ Exclusive
    BY <2>0 DEF FrameInv
  <2>a. \A t, u \in Live : as[t].pd \in Frames \ free /\ (as[t].pd = as[u].pd => t = u)
    BY <2>1 DEF Exclusive
  <2> SUFFICES ASSUME NEW t \in Live, NEW u \in Live, NEW p \in UserPages, NEW q \in UserPages, as[t].pt[p] # Absent
               PROVE  /\ as[t].pt[p].frame \in Frames \ free /\ as[t].pt[p].frame # as[u].pd
                      /\ as[t].pt[p].frame = as[u].pt[q].frame => t = u /\ p = q
    BY <2>1, <2>a, ZenonT(60)
  <2>2. as[t].pt[p].frame \in Frames \ free /\ as[t].pt[p].frame # as[u].pd
    BY <2>1 DEF Exclusive, Own, Misses
  <2>3. ASSUME as[t].pt[p].frame = as[u].pt[q].frame PROVE as[u].pt[q] # Absent
    <3>1. as[t].pt[p].frame \in Nat
      BY <2>2, VmmAssumption
    <3>2. Absent.frame = -1
      BY DEF Absent
    <3>3. SUFFICES ASSUME as[u].pt[q] = Absent PROVE FALSE
      OBVIOUS
    <3>4. as[t].pt[p].frame = -1
      BY <2>3, <3>2, <3>3
    <3>5. -1 \in Nat
      BY <3>1, <3>4
    <3> QED
      BY <3>5
  <2>4. ASSUME as[t].pt[p].frame = as[u].pt[q].frame PROVE t = u
    BY <2>1, <2>3, <2>4 DEF Exclusive, Apart
  <2>5. as[t].pt[p].frame = as[u].pt[q].frame => p = q
    <3> SUFFICES ASSUME as[t].pt[p].frame = as[u].pt[q].frame PROVE p = q
      OBVIOUS
    <3>1. t = u /\ as[u].pt[q] # Absent
      BY <2>3, <2>4
    <3>2. PICK pt : pt = as[t].pt
      OBVIOUS
    <3>3. Own(pt, free) /\ pt[p] # Absent /\ pt[q] # Absent /\ pt[p].frame = pt[q].frame
      BY <2>1, <3>1, <3>2 DEF Exclusive
    <3> QED
      BY <3>3 DEF Own
  <2> QED
    BY <2>1, <2>2, <2>4, <2>5
<1> QED
  BY <1>1, <1>2, <1>3, PTL DEF Spec
-----------------------------------------------------------------------------
(* Programs as the linker writes them *)

LEMMA Quotient ==
    ASSUME NEW x \in Int, NEW d \in Nat, d > 0
    PROVE  \E q \in Int : \E o \in 0..(d - 1) : o = x % d /\ x = d * q + o
<1>1. x \div d \in Int /\ x % d \in 0..(d - 1) /\ x = d * (x \div d) + (x % d)
  BY DivMod
<1> QED
  BY <1>1

LEMMA Multiple ==
    ASSUME NEW x \in Int, NEW d \in Nat, d > 0
    PROVE  /\ x % d = 0 => \E q \in Int : x = d * q
           /\ \A q \in Int : x = d * q => x % d = 0
<1>1. PICK q \in Int, o \in 0..(d - 1) : o = x % d /\ x = d * q + o
  BY Quotient
<1>2. x % d = 0 => x = d * q
  BY <1>1
<1>3. ASSUME NEW p \in Int, x = d * p PROVE x % d = 0
  <2>1. x % d = x - d * p
    BY <1>3, DivIs
  <2> QED
    BY <1>3, <2>1
<1> QED
  BY <1>2, <1>3

(* The end of an aligned area. *)
LEMMA AlignedEnd ==
    ASSUME NEW addr \in Nat, NEW size \in Nat, NEW d \in Nat, d > 0, NEW n, n = aligned_size(addr, size, d)
    PROVE  /\ addr + n <= RoundUp(addr + size, d)
           /\ size % d # 0 => (addr + n) % d = 0
           /\ size % d = 0 => n = size
<1>1. addr + size \in Nat /\ size \in Int
  OBVIOUS
<1>a. \E p \in Int : \E s \in 0..(d - 1) : s = size % d /\ size = d * p + s
  BY <1>1, Quotient, Zenon
<1>2. PICK t \in Nat : t = RoundUp(addr + size, d) /\ addr + size <= t /\ t % d = 0
  BY <1>1, RoundUpIs
<1>3. CASE size % d = 0
  BY <1>2, <1>3 DEF aligned_size
<1>4. CASE size % d # 0
  <2>1. PICK q \in Int, o \in 0..(d - 1) : o = addr % d /\ addr = d * q + o
    BY Quotient
  <2>2. PICK p \in Int, s \in 0..(d - 1) : s = size % d /\ size = d * p + s
    BY <1>a, Zenon
  <2>3. PICK x \in Int : t = d * x
    BY <1>2, Multiple
  <2>4. n = ((size - s) + d) - o
    BY <1>4, <2>1, <2>2 DEF aligned_size, RoundUp
  <2>5. d * (q + p + 1) = d * q + d * p + d /\ q + p + 1 \in Int
    OBVIOUS
  <2>6. PICK u \in Int, v \in Int : u = d * q /\ v = d * p
    OBVIOUS
  <2>7. addr + n = d * (q + p + 1)
    BY <2>1, <2>2, <2>4, <2>5, <2>6
  <2>8. s # 0
    BY <1>4, <2>2
  <2>9. u + v < t
    BY <1>2, <2>1, <2>2, <2>6, <2>8
  <2>10. x >= q + p + 1
    <3> SUFFICES ASSUME x <= q + p PROVE FALSE
      OBVIOUS
    <3>1. d * x <= d * (q + p)
      OBVIOUS
    <3>2. d * (q + p) = d * q + d * p
      OBVIOUS
    <3> QED
      BY <2>3, <2>6, <2>9, <3>1, <3>2
  <2>11. d * x >= d * (q + p + 1)
    BY <2>5, <2>10
  <2>12. addr + n <= t
    BY <2>3, <2>7, <2>11
  <2>13. PICK y \in Int : y = addr + n /\ y = d * (q + p + 1)
    BY <2>5, <2>7
  <2>14. y % d = 0
    BY <2>5, <2>13, Multiple
  <2> QED
    BY <1>2, <1>4, <2>12, <2>13, <2>14
<1> QED
  BY <1>3, <1>4

(* The end of a segment and its regions. *)
SegEnd(seg) == RoundUp(seg.vaddr + seg.memsz, seg.align)
FileRegion(seg) == [addr |-> seg.vaddr, size |-> FileSize(seg), rw |-> seg.rw]
BssRegion(seg) == [addr |-> seg.vaddr + seg.filesz, size |-> BssSize(seg), rw |-> seg.rw]
SegRegions(seg) == (IF seg.filesz = 0 THEN {} ELSE {FileRegion(seg)})
                   \cup (IF seg.memsz > seg.filesz THEN {BssRegion(seg)} ELSE {})

(* A segment that is well linked. *)
Linked(seg) ==
    /\ seg \in Segment /\ seg.filesz <= seg.memsz /\ seg.memsz # 0 /\ seg.align % PAGE_SIZE = 0
    /\ SegEnd(seg) + PAGE_SIZE <= StackEnd

LEMMA ProgramLinked ==
    ASSUME NEW prog \in Programs
    PROVE  /\ prog \in Seq(Segment) /\ Len(prog) \in 1..Len(prog) /\ prog[Len(prog)].rw
           /\ \A k \in 1..Len(prog) : Linked(prog[k])
           /\ \A j, k \in 1..Len(prog) : j < k => prog[j].vaddr + prog[j].memsz <= prog[k].vaddr
           /\ \A j, k \in 1..Len(prog) : j < k /\ prog[j].rw # prog[k].rw =>
                 Page(prog[j].vaddr + prog[j].memsz - 1) < Page(prog[k].vaddr)
<1>1. prog \in Seq(Segment)
  BY ProgramIs
<1>2. prog # <<>> /\ prog[Len(prog)].rw
  BY ProgramAssumption
<1>3. Len(prog) \in 1..Len(prog)
  BY <1>1, <1>2
<1>4. ASSUME NEW k \in 1..Len(prog) PROVE Linked(prog[k])
  <2>1. prog[k] \in Segment
    BY <1>1
  <2>2. /\ prog[k].filesz <= prog[k].memsz /\ prog[k].memsz # 0
        /\ prog[k].align % PAGE_SIZE = 0
        /\ RoundUp(prog[k].vaddr + prog[k].memsz, prog[k].align) + PAGE_SIZE <= VM_USER_STACK - StackSize
    BY ProgramAssumption
  <2> QED
    BY <2>1, <2>2 DEF Linked, SegEnd, StackEnd
<1>5. ASSUME NEW j \in 1..Len(prog), NEW k \in 1..Len(prog), j < k
      PROVE  /\ prog[j].vaddr + prog[j].memsz <= prog[k].vaddr
             /\ prog[j].rw # prog[k].rw => Page(prog[j].vaddr + prog[j].memsz - 1) < Page(prog[k].vaddr)
  BY <1>5, ProgramAssumption
<1> QED
  BY <1>1, <1>2, <1>3, <1>4, <1>5

LEMMA SegmentRegions ==
    ASSUME NEW seg, Linked(seg), NEW r \in SegRegions(seg)
    PROVE  /\ r \in Region /\ r.size > 0 /\ r.rw = seg.rw
           /\ seg.vaddr <= r.addr /\ r.addr < seg.vaddr + seg.memsz /\ End(r) <= SegEnd(seg)
<1>1. seg \in Segment /\ seg.filesz <= seg.memsz /\ seg.memsz # 0
  BY DEF Linked
<1>2. seg.vaddr \in Nat /\ seg.filesz \in Nat /\ seg.memsz \in Nat /\ seg.align \in Nat /\ seg.align > 0 /\ seg.rw \in BOOLEAN
  BY <1>1, SegmentIs
<1>3. PICK v \in Nat, f \in Nat, s \in Nat, d \in Nat : v = seg.vaddr /\ f = seg.filesz /\ s = seg.memsz /\ d = seg.align
  BY <1>2
<1>4. PICK e \in Nat : e = SegEnd(seg) /\ v + s <= e /\ e = RoundUp(v + s, d)
  BY <1>1, <1>3, SegmentIs DEF SegEnd
<1>5. f <= s /\ s # 0 /\ d > 0
  BY <1>1, <1>2, <1>3
<1>6. CASE r = FileRegion(seg) /\ f # 0
  <2>1. PICK n \in Nat : n = FileSize(seg) /\ (s > f => n = f)
    BY <1>1, <1>3, SegmentSizes
  <2>2. r = [addr |-> v, size |-> n, rw |-> seg.rw]
    BY <1>3, <1>6, <2>1 DEF FileRegion
  <2>3. r \in Region /\ r.addr = v /\ r.size = n /\ r.rw = seg.rw /\ End(r) = v + n
    BY <1>2, <2>2 DEF Region, End
  <2>4. CASE s > f
    BY <1>3, <1>4, <1>5, <1>6, <2>1, <2>3, <2>4
  <2>5. CASE ~(s > f)
    <3>1. n = aligned_size(v, f, d)
      BY <1>3, <2>1, <2>5 DEF FileSize, FileUnit
    <3>2. n > 0 /\ v + n <= RoundUp(v + f, d)
      BY <1>5, <1>6, <3>1, AlignedSize, AlignedEnd
    <3>3. f = s
      BY <1>5, <2>5
    <3> QED
      BY <1>3, <1>4, <1>5, <2>3, <3>2, <3>3
  <2> QED
    BY <2>4, <2>5
<1>7. CASE r = BssRegion(seg) /\ s > f
  <2>1. PICK n \in Nat : n = BssSize(seg)
    BY <1>1, <1>3, <1>7, SegmentSizes
  <2>2. PICK x \in Nat, y \in Nat : x = v + f /\ y = s - f
    BY <1>7
  <2>3. r = [addr |-> x, size |-> n, rw |-> seg.rw]
    BY <1>3, <1>7, <2>1, <2>2 DEF BssRegion
  <2>4. r \in Region /\ r.addr = x /\ r.size = n /\ r.rw = seg.rw /\ End(r) = x + n
    BY <1>2, <2>3 DEF Region, End
  <2>5. n = aligned_size(x, y, d)
    BY <1>3, <2>1, <2>2 DEF BssSize
  <2>6. y # 0
    BY <1>7, <2>2
  <2>7. n > 0 /\ x + n <= RoundUp(x + y, d)
    BY <1>5, <2>5, <2>6, AlignedSize, AlignedEnd
  <2>8. x + y = v + s
    BY <2>2
  <2> QED
    BY <1>3, <1>4, <1>7, <2>2, <2>4, <2>7, <2>8
<1>8. (r = FileRegion(seg) /\ f # 0) \/ (r = BssRegion(seg) /\ s > f)
  BY <1>3 DEF SegRegions
<1> QED
  BY <1>6, <1>7, <1>8

(* A mapping behind the regions there are is put at the end of the list. *)
LEMMA Appends ==
    ASSUME NEW a \in Space, Sorted(a.regs), NEW addr \in Nat, NEW asize \in Nat, NEW rw, rw \in BOOLEAN,
           \A q \in Listed(a.regs) : q.addr < addr,
           NEW f, NEW fr, NEW size, NEW avail, Mapping(f, a, fr, addr, size, asize, rw, avail), f.st = "ok",
           NEW r, r = [addr |-> addr, size |-> asize, rw |-> rw]
    PROVE  /\ Sorted(f.a.regs) /\ Listed(f.a.regs) = Listed(a.regs) \cup {r}
           /\ \A q \in Listed(a.regs) : End(q) <= addr
<1>1. a.regs \in Seq(Region) /\ r \in Region /\ r.addr = addr
  BY SpaceIs DEF Region
<1>2. f.a.regs = _insert_region(a.regs, r) /\ _is_area_free(a, addr, asize)
  BY DEF Mapping
<1>3. PICK s : s = _insert_region(a.regs, r)
  OBVIOUS
<1>4. /\ Listed(a.regs) \subseteq Listed(s) /\ Listed(s) \subseteq Listed(a.regs) \cup {r}
      /\ (\E i \in 0..Len(a.regs) : Place(a.regs, r, i)) => r \in Listed(s)
      /\ Sorted(s)
  BY <1>1, <1>3, InsertRegion
<1>5. \A i \in 1..Len(a.regs) : a.regs[i] \in Region /\ a.regs[i] \in Listed(a.regs) /\ a.regs[i].addr < addr
  BY <1>1, ListedIs
<1>6. PICK top : top = (addr + asize) % Word
  OBVIOUS
<1>7. \/ a.regs = <<>>
      \/ a.regs # <<>> /\ End(a.regs[Len(a.regs)]) <= addr
      \/ \E k \in 1..Len(a.regs) : FreeBefore(a.regs, addr, top, k)
  BY <1>1, <1>2, <1>6, AreaFree
<1>8. ~ \E k \in 1..Len(a.regs) : FreeBefore(a.regs, addr, top, k)
  <2> SUFFICES ASSUME NEW k \in 1..Len(a.regs), FreeBefore(a.regs, addr, top, k) PROVE FALSE
    OBVIOUS
  <2>1. a.regs[k].addr \in Nat /\ a.regs[k].addr < addr
    BY <1>5, EndIsNat
  <2>2. addr <= a.regs[k].addr
    BY DEF FreeBefore
  <2> QED
    BY <2>1, <2>2
<1>9. CASE a.regs = <<>>
  <2>1. Len(a.regs) = 0 /\ Place(a.regs, r, 0) /\ 0 \in 0..Len(a.regs)
    BY <1>9 DEF Place
  <2>2. Listed(a.regs) = {}
    BY <1>9 DEF Listed
  <2> QED
    BY <1>2, <1>3, <1>4, <2>1, <2>2
<1>10. CASE a.regs # <<>> /\ End(a.regs[Len(a.regs)]) <= addr
  <2>1. Len(a.regs) \in 1..Len(a.regs) /\ Len(a.regs) \in 0..Len(a.regs)
    BY <1>1, <1>10
  <2>2. Place(a.regs, r, Len(a.regs))
    BY <1>1, <1>10, <2>1 DEF Place
  <2>3. ASSUME NEW i \in 1..Len(a.regs) PROVE End(a.regs[i]) <= addr
    <3>1. CASE i = Len(a.regs)
      BY <1>10, <3>1
    <3>2. CASE i # Len(a.regs)
      <4>1. End(a.regs[i]) <= a.regs[Len(a.regs)].addr
        BY <2>1, <3>2 DEF Sorted
      <4>2. End(a.regs[i]) \in Nat /\ a.regs[Len(a.regs)].addr \in Nat /\ End(a.regs[Len(a.regs)]) \in Nat
            /\ a.regs[Len(a.regs)].addr <= End(a.regs[Len(a.regs)])
        BY <1>5, <2>1, EndIsNat
      <4> QED
        BY <1>10, <4>1, <4>2
    <3> QED
      BY <3>1, <3>2
  <2>4. \A q \in Listed(a.regs) : End(q) <= addr
    BY <1>1, <2>3, ListedIs
  <2> QED
    BY <1>2, <1>3, <1>4, <2>1, <2>2, <2>4
<1> QED
  BY <1>7, <1>8, <1>9, <1>10

LEMMA LoadsAppends ==
    ASSUME NEW m \in Results, Sorted(m.a.regs), NEW seg, Linked(seg), \A q \in Listed(m.a.regs) : q.addr < seg.vaddr,
           NEW w, Loads(w, m, seg), w.st = "ok"
    PROVE  /\ Sorted(w.a.regs) /\ Listed(w.a.regs) = Listed(m.a.regs) \cup SegRegions(seg)
           /\ \A q \in Listed(m.a.regs) : End(q) <= seg.vaddr
<1>1. PICK f, g : /\ LoadsFile(f, m, seg) /\ (IF HasBss(f, seg) THEN LoadsBss(g, f, seg) ELSE g = f)
                  /\ w.a = g.a /\ w.st = g.st
  BY DEF Loads
<1>2. seg \in Segment /\ seg.filesz <= seg.memsz /\ seg.memsz # 0
  BY DEF Linked
<1>3. seg.vaddr \in Nat /\ seg.rw \in BOOLEAN /\ FileSize(seg) \in Nat /\ seg.vaddr + seg.filesz \in Nat
      /\ (seg.memsz > seg.filesz => BssSize(seg) \in Nat) /\ seg.filesz \in Nat /\ seg.memsz \in Nat
  BY <1>2, SegmentIs, SegmentSizes
<1>4. m.a \in Space
  BY DEF Results
<1>5. Mapping(f, m.a, m.free, seg.vaddr, seg.filesz, FileSize(seg), seg.rw, Word)
  BY <1>1 DEF LoadsFile
<1>6. f \in Results /\ f.a \in Space
  BY <1>5 DEF Mapping, Results
<1>7. f.st \in {"ok", "nothing"}
  BY <1>1 DEF HasBss
<1>8. f.st = "nothing" => seg.filesz = 0 /\ f.a = m.a
  BY <1>5 DEF Mapping
<1>9. f.st = "ok" => seg.filesz # 0
  BY <1>5 DEF Mapping
<1>10. PICK r : r = FileRegion(seg)
  OBVIOUS
<1>11. r = [addr |-> seg.vaddr, size |-> FileSize(seg), rw |-> seg.rw]
  BY <1>10 DEF FileRegion
<1>12. ASSUME f.st = "ok"
       PROVE  /\ Sorted(f.a.regs) /\ Listed(f.a.regs) = Listed(m.a.regs) \cup {r}
              /\ \A q \in Listed(m.a.regs) : End(q) <= seg.vaddr
  <2>1. PICK a \in Space : a = m.a
    BY <1>4
  <2>2. PICK v, n, b : v \in Nat /\ n \in Nat /\ v = seg.vaddr /\ n = FileSize(seg) /\ b = seg.rw /\ b \in BOOLEAN
    BY <1>3
  <2>3. Mapping(f, a, m.free, v, seg.filesz, n, b, Word) /\ r = [addr |-> v, size |-> n, rw |-> b]
    BY <1>5, <1>11, <2>1, <2>2
  <2>4. Sorted(a.regs) /\ \A q \in Listed(a.regs) : q.addr < v
    BY <2>1, <2>2
  <2>5. /\ Sorted(f.a.regs) /\ Listed(f.a.regs) = Listed(a.regs) \cup {r}
        /\ \A q \in Listed(a.regs) : End(q) <= v
    BY <1>12, <2>2, <2>3, <2>4, Appends
  <2> QED
    BY <2>1, <2>2, <2>5
<1>13. CASE ~(seg.memsz > seg.filesz)
  <2>1. seg.filesz # 0 /\ w.a = f.a /\ f.st = "ok"
    BY <1>1, <1>2, <1>3, <1>7, <1>8, <1>13 DEF HasBss
  <2>2. SegRegions(seg) = {r}
    BY <1>10, <1>13, <2>1 DEF SegRegions
  <2> QED
    BY <1>12, <2>1, <2>2
<1>14. CASE seg.memsz > seg.filesz
  <2>1. PICK x, n, b : x \in Nat /\ n \in Nat /\ x = seg.vaddr + seg.filesz /\ n = BssSize(seg) /\ b = seg.rw /\ b \in BOOLEAN
    BY <1>3, <1>14
  <2>2. PICK s : s = [addr |-> x, size |-> n, rw |-> b]
    OBVIOUS
  <2>3. s = BssRegion(seg)
    BY <2>1, <2>2 DEF BssRegion
  <2>4. Mapping(g, f.a, f.free, x, seg.memsz - seg.filesz, n, b, Word) /\ g.st = "ok" /\ w.a = g.a
    BY <1>1, <1>7, <1>14, <2>1 DEF HasBss, LoadsBss
  <2>5. ASSUME Sorted(f.a.regs), \A q \in Listed(f.a.regs) : q.addr < x
        PROVE  /\ Sorted(g.a.regs) /\ Listed(g.a.regs) = Listed(f.a.regs) \cup {s}
               /\ \A q \in Listed(f.a.regs) : End(q) <= x
    <3>1. PICK a \in Space : a = f.a
      BY <1>6
    <3>2. Mapping(g, a, f.free, x, seg.memsz - seg.filesz, n, b, Word) /\ Sorted(a.regs) /\ \A q \in Listed(a.regs) : q.addr < x
      BY <2>4, <2>5, <3>1
    <3>3. /\ Sorted(g.a.regs) /\ Listed(g.a.regs) = Listed(a.regs) \cup {s}
          /\ \A q \in Listed(a.regs) : End(q) <= x
      BY <2>1, <2>2, <2>4, <3>2, Appends
    <3> QED
      BY <3>1, <3>3
  <2>6. CASE f.st = "nothing"
    <3>1. seg.filesz = 0 /\ f.a = m.a /\ x = seg.vaddr
      BY <1>3, <1>8, <2>1, <2>6
    <3>2. SegRegions(seg) = {s}
      BY <1>14, <2>3, <3>1 DEF SegRegions
    <3> QED
      BY <2>4, <2>5, <3>1, <3>2
  <2>7. CASE f.st = "ok"
    <3>1. SegRegions(seg) = {r, s}
      BY <1>9, <1>10, <1>14, <2>3, <2>7 DEF SegRegions
    <3>2. r.addr = seg.vaddr /\ seg.vaddr < x
      BY <1>3, <1>9, <1>11, <2>1, <2>7
    <3>3. \A q \in Listed(f.a.regs) : q.addr < x
      <4>1. ASSUME NEW q \in Listed(m.a.regs) PROVE q.addr < x
        <5>1. q.addr \in Nat
          BY <1>4, SpaceIs, ListedIs, EndIsNat
        <5> QED
          BY <1>3, <2>1, <3>2, <5>1
      <4> QED
        BY <1>12, <2>7, <3>2, <4>1
    <3> QED
      BY <1>12, <2>4, <2>5, <2>7, <3>1, <3>3
  <2> QED
    BY <1>7, <2>6, <2>7
<1> QED
  BY <1>13, <1>14

(* The pages of an area. *)
LEMMA PagesIn ==
    ASSUME NEW x \in Nat, NEW n \in Nat, NEW y \in Nat, x <= y, y < x + n
    PROVE  Page(y) \in PagesOf(x, n)
<1>1. n # 0 /\ x + n - 1 \in Nat /\ y <= x + n - 1
  OBVIOUS
<1>2. Page(x) \in Nat /\ Page(y) \in Nat /\ Page(x + n - 1) \in Nat
  BY <1>1, PageIs
<1>3. Page(x) <= Page(y) /\ Page(y) <= Page(x + n - 1)
  BY <1>1, PageMono
<1> QED
  BY <1>1, <1>2, <1>3 DEF PagesOf

LEMMA PagesSpan ==
    ASSUME NEW x \in Nat, NEW n \in Nat, NEW p \in PagesOf(x, n)
    PROVE  n > 0 /\ p \in Nat /\ Page(x) <= p /\ p <= Page(x + n - 1)
<1>1. n # 0 /\ p \in Page(x)..Page(x + n - 1)
  BY DEF PagesOf
<1>2. x + n - 1 \in Nat
  BY <1>1
<1>3. Page(x) \in Nat /\ Page(x + n - 1) \in Nat
  BY <1>2, PageIs
<1> QED
  BY <1>1, <1>3

(* The pages of two areas side by side. *)
Splits(S, A, B) == S = A \cup B

LEMMA SplitPages ==
    ASSUME NEW x \in Nat, NEW n \in Nat, n > 0, NEW k \in Nat, k > 0, NEW y, y = x + n, NEW z, z = n + k
    PROVE  Splits(PagesOf(x, z), PagesOf(x, n), PagesOf(y, k))
<1>1. PAGE_SIZE \in Nat /\ PAGE_SIZE > 0 /\ y \in Nat /\ x + n - 1 \in Nat /\ y + k - 1 \in Nat /\ x + (n + k) - 1 = y + k - 1
  BY Machine
<1>2. PICK b \in Nat, c \in Nat, d \in Nat, e \in Nat : b = Page(x) /\ c = Page(x + n - 1) /\ d = Page(y) /\ e = Page(y + k - 1)
  BY <1>1, PageIs
<1>3. b <= c /\ c <= d /\ d <= e
  <2>1. x <= x + n - 1 /\ x + n - 1 <= y /\ y <= y + k - 1
    BY <1>1
  <2> QED
    BY <1>1, <1>2, <2>1, PageMono
<1>4. d <= c + 1
  <2> SUFFICES ASSUME d >= c + 2 PROVE FALSE
    OBVIOUS
  <2>1. PAGE_SIZE * d <= y /\ x + n - 1 < PAGE_SIZE * c + PAGE_SIZE
    BY <1>1, <1>2, PageIs
  <2>2. PAGE_SIZE * (c + 2) <= PAGE_SIZE * d
    BY <1>1
  <2>3. PAGE_SIZE * (c + 2) = PAGE_SIZE * c + PAGE_SIZE + PAGE_SIZE
    BY <1>1
  <2>4. PICK u \in Int, v \in Int : u = PAGE_SIZE * c /\ v = PAGE_SIZE * d
    BY <1>1
  <2>5. v <= y /\ x + n - 1 < u + PAGE_SIZE /\ u + PAGE_SIZE + PAGE_SIZE <= v /\ PAGE_SIZE > 1
    BY <2>1, <2>2, <2>3, <2>4, Machine
  <2> QED
    BY <1>1, <2>5
<1>5. PagesOf(x, z) = b..e
  <2>1. z # 0 /\ x + z - 1 = y + k - 1
    BY <1>1
  <2> QED
    BY <1>1, <1>2, <2>1 DEF PagesOf
<1>6. PagesOf(x, n) = b..c
  BY <1>2 DEF PagesOf
<1>7. PagesOf(y, k) = d..e
  BY <1>2 DEF PagesOf
<1> QED
  BY <1>3, <1>4, <1>5, <1>6, <1>7 DEF Splits

(* Loading a segment maps its pages, with its protection. *)
SegPages(seg) == PagesOf(seg.vaddr, seg.memsz)
MapsPages(pt, S, rw, pt2) ==
    /\ \A p \in UserPages : p \in S => pt2[p] # Absent /\ pt2[p].rw = rw
    /\ \A p \in UserPages : p \notin S => pt2[p] = pt[p]

LEMMA LoadsPages ==
    ASSUME NEW m \in Results, NEW seg, Linked(seg), NEW w, Loads(w, m, seg), w.st = "ok"
    PROVE  MapsPages(m.a.pt, SegPages(seg), seg.rw, w.a.pt)
<1>1. PICK f, g : /\ LoadsFile(f, m, seg)
                  /\ IF HasBss(f, seg) THEN LoadsBss(g, f, seg) ELSE g = f
                  /\ w.a = g.a /\ w.free = g.free /\ w.st = g.st
  BY DEF Loads
<1>2. seg.vaddr \in Nat /\ seg.filesz \in Nat /\ seg.memsz \in Nat /\ seg.filesz <= seg.memsz
  BY SegmentIs DEF Linked
<1>3. CASE seg.memsz = seg.filesz
  <2>1. g = f
    BY <1>1, <1>2, <1>3 DEF HasBss
  <2>2. f.st = "ok" /\ w.a = f.a
    BY <1>1, <2>1
  <2> QED
    BY <1>1, <1>3, <2>2 DEF LoadsFile, Mapping, MapsPages, SegPages
<1>4. CASE seg.memsz # seg.filesz
  <2>1. seg.memsz > seg.filesz
    BY <1>2, <1>4
  <2>2. HasBss(f, seg) /\ LoadsBss(g, f, seg) /\ g.st = "ok"
    <3>1. HasBss(f, seg)
      BY <1>1, <2>1 DEF HasBss
    <3> QED
      BY <1>1, <3>1
  <2>3. PICK y \in Nat, k \in Nat : y = seg.vaddr + seg.filesz /\ k = seg.memsz - seg.filesz /\ k > 0
    BY <1>2, <2>1
  <2>4. MapsPages(f.a.pt, PagesOf(y, k), seg.rw, g.a.pt)
    BY <2>2, <2>3 DEF LoadsBss, Mapping, MapsPages
  <2>5. CASE f.st = "nothing"
    <3>1. seg.filesz = 0 /\ f.a = m.a
      BY <1>1, <2>5 DEF LoadsFile, Mapping
    <3>2. y = seg.vaddr /\ k = seg.memsz
      BY <1>2, <2>3, <3>1
    <3> QED
      BY <1>1, <2>4, <3>1, <3>2 DEF SegPages
  <2>6. CASE f.st = "ok"
    <3>1. MapsPages(m.a.pt, PagesOf(seg.vaddr, seg.filesz), seg.rw, f.a.pt) /\ seg.filesz # 0
      BY <1>1, <2>6 DEF LoadsFile, Mapping, MapsPages
    <3>2. SegPages(seg) = PagesOf(seg.vaddr, seg.filesz) \cup PagesOf(y, k)
      <4>1. seg.filesz > 0 /\ seg.memsz = seg.filesz + k
        BY <1>2, <2>3, <3>1
      <4>2. PICK x \in Nat, n \in Nat : x = seg.vaddr /\ n = seg.filesz
        BY <1>2
      <4>3. n > 0 /\ y = x + n /\ k > 0
        BY <2>3, <4>1, <4>2
      <4>4. seg.memsz = n + k
        BY <4>1, <4>2
      <4>5. Splits(PagesOf(x, seg.memsz), PagesOf(x, n), PagesOf(y, k))
        BY <4>3, <4>4, SplitPages
      <4> QED
        BY <4>2, <4>5 DEF SegPages, Splits
    <3> QED
      BY <1>1, <2>4, <3>1, <3>2 DEF MapsPages
  <2> QED
    BY <2>2, <2>5, <2>6 DEF HasBss
<1> QED
  BY <1>3, <1>4

(* The page table after k segments, where it was `old' before the first. *)
Tabled(pt, prog, k, old) ==
    /\ \A j \in 1..k : \A p \in UserPages : p \in SegPages(prog[j]) => pt[p] # Absent
    /\ \A p \in UserPages : pt[p] # Absent /\ old[p] = Absent => \E j \in 1..k : p \in SegPages(prog[j]) /\ pt[p].rw = prog[j].rw

LEMMA TabledNext ==
    ASSUME NEW prog, NEW k \in Nat, k > 0, NEW old, NEW pt, Tabled(pt, prog, k - 1, old), NEW pt2,
           MapsPages(pt, SegPages(prog[k]), prog[k].rw, pt2)
    PROVE  Tabled(pt2, prog, k, old)
<1>1. k \in 1..k /\ \A j : j \in 1..k <=> j \in 1..(k - 1) \/ j = k
  OBVIOUS
<1>2. ASSUME NEW j \in 1..k, NEW p \in UserPages, p \in SegPages(prog[j]) PROVE pt2[p] # Absent
  BY <1>1, <1>2 DEF Tabled, MapsPages
<1>3. ASSUME NEW p \in UserPages, pt2[p] # Absent, old[p] = Absent PROVE \E j \in 1..k : p \in SegPages(prog[j]) /\ pt2[p].rw = prog[j].rw
  <2>1. CASE p \in SegPages(prog[k])
    BY <1>1, <2>1 DEF MapsPages
  <2>2. CASE p \notin SegPages(prog[k])
    <3>1. pt2[p] = pt[p]
      BY <2>2 DEF MapsPages
    <3>2. PICK j \in 1..(k - 1) : p \in SegPages(prog[j]) /\ pt[p].rw = prog[j].rw
      BY <1>3, <3>1 DEF Tabled
    <3> QED
      BY <1>1, <3>1, <3>2
  <2> QED
    BY <2>1, <2>2
<1> QED
  BY <1>2, <1>3 DEF Tabled

(* The space after k segments. *)
RegionsOf(prog, k) == UNION {SegRegions(prog[j]) : j \in 1..k}
(* The regions of a segment end before the next segment begins. *)
InOrder(prog, k) == \A i, j \in 1..k : j < i => \A r \in SegRegions(prog[j]) : End(r) <= prog[i].vaddr
Loaded(m, prog, k, old) ==
    /\ Sorted(m.a.regs) /\ Listed(m.a.regs) = RegionsOf(prog, k)
    /\ InOrder(prog, k) /\ Tabled(m.a.pt, prog, k, old)
    /\ k > 0 => m.ret = SegEnd(prog[k])

LEMMA LoadedNext ==
    ASSUME NEW prog \in Programs, NEW k \in 1..Len(prog), NEW m \in Results, NEW old, Loaded(m, prog, k - 1, old),
           NEW w, Loads(w, m, prog[k]), w.st = "ok"
    PROVE  Loaded(w, prog, k, old)
<1>1. prog \in Seq(Segment) /\ Len(prog) \in Nat /\ Linked(prog[k])
  BY ProgramLinked
<1>2. \A j \in 1..(k - 1) : j \in 1..Len(prog) /\ j < k
  BY <1>1
<1>3. \A q \in Listed(m.a.regs) : \E j \in 1..(k - 1) : q \in SegRegions(prog[j])
  BY DEF Loaded, RegionsOf
<1>4. ASSUME NEW q \in Listed(m.a.regs) PROVE q.addr < prog[k].vaddr
  <2>1. PICK j \in 1..(k - 1) : q \in SegRegions(prog[j])
    BY <1>3
  <2>2. Linked(prog[j]) /\ prog[j].vaddr + prog[j].memsz <= prog[k].vaddr
    BY <1>2, ProgramLinked
  <2>3. q \in Region /\ q.addr < prog[j].vaddr + prog[j].memsz
    BY <2>1, <2>2, SegmentRegions
  <2>4. q.addr \in Nat
    BY <2>3, EndIsNat, Zenon
  <2>5. prog[j].vaddr \in Nat /\ prog[j].memsz \in Nat /\ prog[k].vaddr \in Nat
    BY <1>1, <2>2, SegmentIs DEF Linked
  <2> QED
    BY <2>2, <2>3, <2>4, <2>5
<1>5. /\ Sorted(w.a.regs) /\ Listed(w.a.regs) = Listed(m.a.regs) \cup SegRegions(prog[k])
      /\ \A q \in Listed(m.a.regs) : End(q) <= prog[k].vaddr
  <2>1. PICK seg : seg = prog[k]
    OBVIOUS
  <2>2. Linked(seg) /\ Loads(w, m, seg) /\ \A q \in Listed(m.a.regs) : q.addr < seg.vaddr
    BY <1>1, <1>4, <2>1
  <2>3. Sorted(m.a.regs)
    BY DEF Loaded
  <2>4. /\ Sorted(w.a.regs) /\ Listed(w.a.regs) = Listed(m.a.regs) \cup SegRegions(seg)
        /\ \A q \in Listed(m.a.regs) : End(q) <= seg.vaddr
    BY <2>2, <2>3, LoadsAppends
  <2> QED
    BY <2>1, <2>4
<1>6. RegionsOf(prog, k) = RegionsOf(prog, k - 1) \cup SegRegions(prog[k])
  <2>1. \A j : j \in 1..k <=> j \in 1..(k - 1) \/ j = k
    OBVIOUS
  <2> QED
    BY <2>1 DEF RegionsOf
<1>7. ASSUME NEW i \in 1..k, NEW j \in 1..k, j < i, NEW r \in SegRegions(prog[j]) PROVE End(r) <= prog[i].vaddr
  <2>1. CASE i = k
    <3>1. j \in 1..(k - 1)
      BY <1>7, <2>1
    <3>2. r \in Listed(m.a.regs)
      BY <3>1 DEF Loaded, RegionsOf
    <3> QED
      BY <1>5, <2>1, <3>2
  <2>2. CASE i # k
    <3>1. i \in 1..(k - 1) /\ j \in 1..(k - 1)
      BY <1>7, <2>2
    <3> QED
      BY <1>7, <3>1 DEF Loaded, InOrder
  <2> QED
    BY <2>1, <2>2
<1>8. w.ret = SegEnd(prog[k])
  BY DEF Loads, SegEnd
<1>9. Listed(w.a.regs) = RegionsOf(prog, k)
  BY <1>5, <1>6 DEF Loaded
<1>10. Tabled(w.a.pt, prog, k, old)
  <2>1. MapsPages(m.a.pt, SegPages(prog[k]), prog[k].rw, w.a.pt)
    BY <1>1, LoadsPages
  <2>2. Tabled(m.a.pt, prog, k - 1, old) /\ k \in Nat /\ k > 0
    BY <1>1 DEF Loaded
  <2> QED
    BY <2>1, <2>2, TabledNext
<1> QED
  BY <1>5, <1>7, <1>8, <1>9, <1>10 DEF Loaded, InOrder

(* The space of a program that has just been loaded. *)
StackRegion == [addr |-> StackEnd, size |-> StackSize, rw |-> TRUE]
NewSpace(a, prog, old) ==
    /\ a \in Typed /\ Sorted(a.regs)
    /\ Listed(a.regs) = RegionsOf(prog, Len(prog)) \cup {StackRegion}
    /\ a.elf_end = SegEnd(prog[Len(prog)]) /\ a.data_end = a.elf_end
    /\ a.elf_end + PAGE_SIZE <= StackEnd
    /\ InOrder(prog, Len(prog))
    /\ \E pt : Tabled(pt, prog, Len(prog), old) /\ MapsPages(pt, PagesOf(StackEnd, StackSize), TRUE, a.pt)

LEMMA ProgramRegions ==
    ASSUME NEW prog \in Programs, InOrder(prog, Len(prog)), NEW r \in RegionsOf(prog, Len(prog))
    PROVE  r \in Region /\ r.size > 0 /\ r.addr < SegEnd(prog[Len(prog)]) /\ End(r) <= SegEnd(prog[Len(prog)])
<1>1. PICK n : n = Len(prog)
  OBVIOUS
<1>2. n \in 1..n /\ n \in Nat /\ Linked(prog[n]) /\ \A k \in 1..n : Linked(prog[k])
  BY <1>1, ProgramLinked
<1>3. PICK j \in 1..n : r \in SegRegions(prog[j])
  BY <1>1 DEF RegionsOf
<1>4. r \in Region /\ r.size > 0 /\ End(r) <= SegEnd(prog[j])
  BY <1>2, <1>3, SegmentRegions
<1>5. r.addr \in Nat /\ r.size \in Nat /\ End(r) = r.addr + r.size
  BY <1>4, EndIsNat, Zenon
<1>6. End(r) <= SegEnd(prog[n])
  <2>1. CASE j = n
    BY <1>4, <2>1
  <2>2. CASE j # n
    <3>0. j < n
      BY <1>2, <2>2
    <3>1. End(r) <= prog[n].vaddr
      BY <1>1, <1>2, <1>3, <3>0 DEF InOrder
    <3>2. prog[n] \in Segment
      BY <1>2 DEF Linked
    <3>3. prog[n].vaddr \in Nat /\ prog[n].memsz \in Nat /\ SegEnd(prog[n]) \in Nat
          /\ prog[n].vaddr + prog[n].memsz <= SegEnd(prog[n])
      BY <3>2, SegmentIs DEF SegEnd
    <3> QED
      BY <1>5, <3>1, <3>3
  <2> QED
    BY <2>1, <2>2
<1>7. SegEnd(prog[n]) \in Nat
  BY <1>2, SegmentIs DEF Linked, SegEnd
<1> QED
  BY <1>1, <1>4, <1>5, <1>6, <1>7

(* The stack is mapped behind the program. *)
LEMMA StackMapped ==
    ASSUME NEW b \in Space, NEW e \in Nat, e + PAGE_SIZE <= StackEnd, Sorted(b.regs),
           \A r \in Listed(b.regs) : r \in Region /\ r.addr < e /\ End(r) <= e,
           NEW s, NEW fr, Mapping(s, b, fr, StackEnd, StackSize, StackSize, TRUE, Word), s.st # "panic"
    PROVE  s.st = "ok" /\ Sorted(s.a.regs) /\ Listed(s.a.regs) = Listed(b.regs) \cup {StackRegion}
<1>0. StackEnd \in Nat /\ StackEnd # 0 /\ StackSize \in Nat /\ StackSize > 0 /\ StackEnd + StackSize = VM_USER_STACK
      /\ VM_USER_STACK <= VM_USER_END /\ VM_USER_END \in Nat /\ VM_USER_STACK \in Nat
      /\ Word \in Nat /\ VM_USER_END < Word /\ PAGE_SIZE \in Nat /\ PAGE_SIZE > 1
  BY StackIs, Machine
<1>1. b.regs \in Seq(Region)
  BY SpaceIs
<1>2. (StackEnd + StackSize) % Word = StackEnd + StackSize
  <2>1. PICK x \in Nat : x = StackEnd + StackSize /\ x <= VM_USER_END /\ x < Word
    BY <1>0
  <2>2. x % Word = x - Word * 0
    BY <1>0, <2>1, DivIs
  <2> QED
    BY <1>0, <2>1, <2>2
<1>3. _is_area_free(b, StackEnd, StackSize)
  <2>1. CASE b.regs = <<>>
    BY <2>1 DEF _is_area_free
  <2>2. CASE b.regs # <<>>
    <3>1. Len(b.regs) \in 1..Len(b.regs)
      BY <1>1, <2>2
    <3>2. b.regs[Len(b.regs)] \in Listed(b.regs)
      BY <1>1, <3>1, ListedIs
    <3>3. End(b.regs[Len(b.regs)]) <= e /\ End(b.regs[Len(b.regs)]) \in Nat
      BY <3>2, EndIsNat
    <3>4. StackEnd >= End(b.regs[Len(b.regs)])
      BY <1>0, <3>3
    <3>5. (StackEnd + StackSize) % Word <= VM_USER_END
      BY <1>0, <1>2
    <3> QED
      BY <2>2, <3>4, <3>5 DEF _is_area_free
  <2> QED
    BY <2>1, <2>2
<1>4. PagesOf(StackEnd, StackSize) \subseteq UserPages
  <2>1. StackSize # 0 /\ StackEnd + StackSize - 1 \in Nat /\ StackEnd + StackSize - 1 <= VM_USER_END - 1 /\ VM_USER_END - 1 \in Nat
    BY <1>0
  <2>2. Page(StackEnd + StackSize - 1) <= Page(VM_USER_END - 1)
    BY <2>1, PageMono
  <2>3. Page(StackEnd) \in Nat /\ Page(StackEnd + StackSize - 1) \in Nat /\ Page(VM_USER_END - 1) \in Nat
    BY <1>0, <2>1, PageIs
  <2>4. UserPages = 0..Page(VM_USER_END - 1)
    BY DEF UserPages, Page
  <2> QED
    BY <2>1, <2>2, <2>3, <2>4 DEF PagesOf
<1>5. s.st = "ok"
  <2>1. s.st \in Outcomes
    BY DEF Mapping, Results
  <2>2. s.st # "EIO"
    <3>1. ~(Word < StackSize)
      BY <1>0
    <3> QED
      BY <3>1 DEF Mapping
  <2>3. s.st # "nothing" /\ s.st # "ENOMEM" /\ s.st # "corrupt"
    BY <1>0, <1>3, <1>4 DEF Mapping
  <2>4. s.st # "EINVAL" /\ s.st # "wrapped"
    BY DEF Mapping
  <2> QED
    BY <2>1, <2>2, <2>3, <2>4 DEF Outcomes
<1>6. \A r \in Listed(b.regs) : r.addr < StackEnd
  <2> SUFFICES ASSUME NEW r \in Listed(b.regs) PROVE r.addr < StackEnd
    OBVIOUS
  <2>1. r.addr \in Nat /\ r.addr < e
    BY EndIsNat
  <2> QED
    BY <1>0, <2>1
<1>7. PICK x, n, t : x \in Nat /\ n \in Nat /\ x = StackEnd /\ n = StackSize /\ t = TRUE /\ t \in BOOLEAN
  BY <1>0
<1>8. PICK r : r = [addr |-> x, size |-> n, rw |-> t]
  OBVIOUS
<1>9. Mapping(s, b, fr, x, n, n, t, Word) /\ \A q \in Listed(b.regs) : q.addr < x
  BY <1>6, <1>7
<1>10. Sorted(s.a.regs) /\ Listed(s.a.regs) = Listed(b.regs) \cup {r}
  <2>1. t \in BOOLEAN /\ x \in Nat /\ n \in Nat
    BY <1>7
  <2> QED
    BY <1>5, <1>8, <1>9, <2>1, Appends
<1>11. r = StackRegion
  BY <1>7, <1>8 DEF StackRegion
<1> QED
  BY <1>5, <1>10, <1>11

(* An area whose pages are a program's ends where the program's memory ends. *)
LEMMA AreaBelow ==
    ASSUME NEW addr \in Nat, NEW size \in Nat, size # 0, PagesOf(addr, size) \subseteq UserPages
    PROVE  addr + size <= VM_USER_END
<1>1. PICK x \in Nat : x = addr + size - 1
  OBVIOUS
<1>2. PAGE_SIZE \in Nat /\ PAGE_SIZE > 0 /\ VM_USER_END \in Nat /\ VM_USER_END > 0 /\ VM_USER_END - 1 \in Nat
  BY Machine
<1>3. Page(addr) \in Nat /\ Page(x) \in Nat /\ Page(addr) <= Page(x)
  BY <1>1, PageIs, PageMono
<1>4. Page(x) \in UserPages
  BY <1>1, <1>3 DEF PagesOf
<1>5. PICK q \in Int : VM_USER_END = PAGE_SIZE * q
  <2>1. VM_USER_END % PAGE_SIZE = 0
    BY VmmAssumption
  <2>2. VM_USER_END \in Int
    BY <1>2
  <2> QED
    BY <1>2, <2>1, <2>2, Multiple
<1>6. PICK p \in Nat : p = Page(x) /\ x < PAGE_SIZE * p + PAGE_SIZE
  BY <1>3, PageIs
<1>7. PICK t \in Nat : t = Page(VM_USER_END - 1) /\ PAGE_SIZE * t <= VM_USER_END - 1
  BY <1>2, PageIs
<1>8. p <= t
  BY <1>4, <1>6, <1>7 DEF UserPages, Page
<1>9. t < q
  <2> SUFFICES ASSUME q <= t PROVE FALSE
    OBVIOUS
  <2>1. PAGE_SIZE * q <= PAGE_SIZE * t
    BY <1>2
  <2> QED
    BY <1>2, <1>5, <1>7, <2>1
<1>10. PAGE_SIZE * (p + 1) <= PAGE_SIZE * q
  BY <1>2, <1>8, <1>9
<1>11. PAGE_SIZE * (p + 1) = PAGE_SIZE * p + PAGE_SIZE
  BY <1>2
<1> QED
  BY <1>1, <1>2, <1>5, <1>6, <1>10, <1>11

LEMMA LoadedSpace ==
    ASSUME NEW fr \in SUBSET (Frames \cup {0}), NEW prog \in Programs, NEW dst \in Space, dst.regs = <<>>,
           NEW w, w = execve_space(dst, fr, prog), w.st = "ok"
    PROVE  NewSpace(w.a, prog, dst.pt)
<1>1. prog \in Seq(Segment) /\ w \in Results /\ w.a \in Typed /\ Len(prog) \in Nat /\ Len(prog) \in 1..Len(prog)
  BY LoadTyped, ProgramLinked
<1>0. PICK old : old = dst.pt
  OBVIOUS
<1> DEFINE R(k) == {m \in Results : m.st = "ok" => Loaded(m, prog, k, old)}
           S == [k \in 0..Len(prog) |-> R(k)]
<1>2. Chain(S, dst, fr, prog)
  <2>1. \A k \in 0..Len(prog) : \A m : m \in S[k] <=> m \in Results /\ (m.st = "ok" => Loaded(m, prog, k, old))
    OBVIOUS
  <2>2. Result("ok", dst, fr, 0) \in R(0)
    <3>1. PICK m : m = Result("ok", dst, fr, 0)
      OBVIOUS
    <3>2. m \in Results /\ m.a.regs = <<>>
      BY <3>1, FirstResult
    <3>4. Tabled(m.a.pt, prog, 0, old)
      <4>1. m.a.pt = old
        BY <1>0, <3>1, FirstResult
      <4> QED
        BY <4>1 DEF Tabled
    <3>3. Loaded(m, prog, 0, old)
      BY <3>2, <3>4 DEF Loaded, InOrder, Sorted, Listed, RegionsOf
    <3> QED
      BY <3>1, <3>2, <3>3
  <2>3. 0 \in 0..Len(prog) /\ \A k \in 1..Len(prog) : k \in 0..Len(prog) /\ k - 1 \in 0..Len(prog)
    BY <1>1
  <2>4. Result("ok", dst, fr, 0) \in S[0]
    BY <2>2, <2>3
  <2> HIDE DEF S
  <2>5. ASSUME NEW k \in 1..Len(prog), NEW m \in S[k - 1], NEW x, m.st = "ok", Loads(x, m, prog[k]) PROVE x \in S[k]
    <3>1. m \in Results /\ Loaded(m, prog, k - 1, old)
      BY <2>1, <2>3, <2>5
    <3>2. x.st = "ok" => Loaded(x, prog, k, old)
      BY <2>5, <3>1, LoadedNext
    <3>3. x \in Results
      BY <2>5 DEF Loads
    <3> QED
      BY <2>1, <2>3, <3>2, <3>3
  <2>6. ASSUME NEW k \in 1..Len(prog), NEW m \in S[k - 1], m.st # "ok" PROVE m \in S[k]
    BY <2>1, <2>3, <2>6
  <2>7. \A k \in 0..Len(prog) : S[k] \subseteq Results
    BY <2>1
  <2> QED
    BY <2>4, <2>5, <2>6, <2>7 DEF Chain
<1>3. Len(prog) \in 0..Len(prog)
  BY <1>1
<1>4. \A m \in S[Len(prog)] : m \in Results /\ (m.st = "ok" => Loaded(m, prog, Len(prog), old))
  BY <1>3
<1> HIDE DEF S, R
<1>5. PICK m \in S[Len(prog)] : m \in Results /\ Stacks(w, m)
  BY <1>1, <1>2, ExecveSpace
<1>6. Loaded(m, prog, Len(prog), old) /\ m.st = "ok"
  BY <1>4, <1>5 DEF Stacks
<1>7. PICK s : /\ Mapping(s, WithEnds(m.a, m.ret), m.free, StackEnd, StackSize, StackSize, TRUE, Word)
               /\ w.st = (IF s.st = "panic" THEN "panic" ELSE "ok") /\ w.a.regs = s.a.regs /\ w.a.pt = s.a.pt
               /\ w.a.elf_end = m.ret /\ w.a.data_end = m.ret
  BY <1>5, <1>6 DEF Stacks
<1>8. PICK b : b = WithEnds(m.a, m.ret)
  OBVIOUS
<1>9. b \in Space /\ b.regs = m.a.regs /\ b.pt = m.a.pt
  BY <1>5, <1>8, WithEndsSpace
<1>10. PICK e \in Nat : e = SegEnd(prog[Len(prog)]) /\ e + PAGE_SIZE <= StackEnd
  <2>1. Linked(prog[Len(prog)])
    BY <1>1, ProgramLinked
  <2> QED
    BY <2>1, SegmentIs DEF Linked, SegEnd
<1>11. Sorted(b.regs) /\ Listed(b.regs) = RegionsOf(prog, Len(prog))
  BY <1>6, <1>9 DEF Loaded
<1>16. InOrder(prog, Len(prog))
  BY <1>6 DEF Loaded
<1>12. \A r \in Listed(b.regs) : r \in Region /\ r.addr < e /\ End(r) <= e
  BY <1>6, <1>10, <1>11, <1>16, ProgramRegions
<1>13. Mapping(s, b, m.free, StackEnd, StackSize, StackSize, TRUE, Word) /\ s.st # "panic"
  BY <1>7, <1>8
<1>14. s.st = "ok" /\ Sorted(s.a.regs) /\ Listed(s.a.regs) = Listed(b.regs) \cup {StackRegion}
  BY <1>9, <1>10, <1>11, <1>12, <1>13, StackMapped
<1>15. m.ret = e
  BY <1>1, <1>6, <1>10 DEF Loaded
<1>17. Tabled(m.a.pt, prog, Len(prog), old) /\ MapsPages(m.a.pt, PagesOf(StackEnd, StackSize), TRUE, w.a.pt)
  <2>1. MapsPages(b.pt, PagesOf(StackEnd, StackSize), TRUE, s.a.pt)
    BY <1>13, <1>14 DEF Mapping, MapsPages
  <2> QED
    BY <1>6, <1>7, <1>9, <2>1 DEF Loaded
<1> QED
  BY <1>0, <1>1, <1>7, <1>10, <1>11, <1>14, <1>15, <1>16, <1>17 DEF NewSpace
-----------------------------------------------------------------------------
(* The heap stays covered *)

(* Regions that begin in the program end there. *)
Below(a) == \A r \in Listed(a.regs) : r.addr < a.elf_end => End(r) <= a.elf_end
HeapSpaces == {a \in Typed : Sorted(a.regs) /\ Below(a) /\ HasHeap(a)}

LEMMA HeapListed ==
    ASSUME NEW a, a.regs \in Seq(Region)
    PROVE  HasHeap(a) <=> (a.data_end > a.elf_end =>
              \E r \in Listed(a.regs) : r.rw /\ r.addr = a.elf_end /\ a.data_end <= End(r))
<1>1. ASSUME NEW i \in 1..Len(a.regs), HeapRegion(a, i)
      PROVE  \E r \in Listed(a.regs) : r.rw /\ r.addr = a.elf_end /\ a.data_end <= End(r)
  BY <1>1, ListedIs DEF HeapRegion
<1>2. ASSUME NEW r \in Listed(a.regs), r.rw, r.addr = a.elf_end, a.data_end <= End(r)
      PROVE  \E i \in 1..Len(a.regs) : HeapRegion(a, i)
  BY <1>2, ListedIs DEF HeapRegion
<1> QED
  BY <1>1, <1>2 DEF HasHeap

(* An area that mmap finds for a program lies behind its heap. *)
LEMMA FoundBehindHeap ==
    ASSUME NEW a \in Typed, NEW size \in Nat, NEW fr, NEW m, NEW what, NEW rw, NEW avail,
           Mmaps(a, fr, m, what, 0, size, rw, avail), m.st = "ok", NEW addr, addr = mmap_address(a, 0, size)
    PROVE  addr \in Nat /\ addr >= a.data_end + PAGE_SIZE
<1>1. PICK asize : asize = aligned_size(0, size, PAGE_SIZE)
  OBVIOUS
<1>2. addr \in Nat /\ asize \in Nat /\ size + PAGE_SIZE <= Word /\ Mapping(m, a, fr, addr, size, asize, rw, avail)
  BY <1>1 DEF Mmaps
<1>3. addr # 0 /\ size # 0 /\ PagesOf(addr, size) \subseteq UserPages
  BY <1>2 DEF Mapping
<1>4. PAGE_SIZE \in Nat /\ PAGE_SIZE > 0 /\ Word \in Nat /\ VM_USER_END \in Nat /\ VM_USER_END + PAGE_SIZE <= Word
  BY Machine
<1>5. 0 \in Nat
  OBVIOUS
<1>6. asize < size + PAGE_SIZE
  BY <1>1, <1>4, <1>5, AlignedSize
<1>7. addr = _find_free_area(a, asize)
  BY <1>1 DEF mmap_address
<1>8. a \in Space /\ a.stack_end >= PAGE_SIZE /\ a.data_end \in Nat
  BY StackIs, SpaceIs DEF Typed
<1>9. addr = 0 \/ addr >= a.data_end + PAGE_SIZE \/ addr + asize >= Word
  <2>1. asize <= Word
    BY <1>2, <1>4, <1>6
  <2> QED
    BY <1>2, <1>7, <1>8, <2>1, FindFreeArea
<1>10. addr + size <= VM_USER_END
  BY <1>2, <1>3, AreaBelow
<1> QED
  BY <1>2, <1>3, <1>4, <1>6, <1>9, <1>10

(* Removing a region leaves the others that are not empty. *)
LEMMA RemoveKeeps ==
    ASSUME NEW regs \in Seq(Region), Sorted(regs), NEW i \in 1..Len(regs), regs[i].size > 0,
           NEW r \in Listed(regs), r.size > 0, r.addr # regs[i].addr
    PROVE  r \in Listed(_remove_region(regs, i))
<1> DEFINE n == Len(regs)
<1>0. n \in Nat /\ 1 \in 1..n /\ n \in 1..n
  OBVIOUS
<1>1. PICK k \in 1..n : r = regs[k]
  BY ListedIs
<1>2. ASSUME NEW j \in 1..n PROVE regs[j].addr \in Nat /\ regs[j].size \in Nat /\ End(regs[j]) = regs[j].addr + regs[j].size
  <2>1. regs[j] \in Region
    OBVIOUS
  <2> QED
    BY <2>1, EndIsNat, Zenon
<1>3. k # i
  BY <1>1
<1>4. CASE regs[1].addr = regs[i].addr
  <2>1. k > i
    <3> SUFFICES ASSUME k < i PROVE FALSE
      BY <1>3
    <3>1. End(regs[k]) <= regs[i].addr
      BY DEF Sorted
    <3>2. regs[1].addr <= regs[k].addr
      <4>1. CASE k = 1
        BY <1>0, <1>2, <4>1
      <4>2. CASE k # 1
        <5>1. End(regs[1]) <= regs[k].addr
          <6>1. 1 < k
            BY <4>2
          <6> QED
            BY <1>0, <6>1 DEF Sorted
        <5> QED
          BY <1>0, <1>2, <5>1
      <4> QED
        BY <4>1, <4>2
    <3> QED
      BY <1>0, <1>1, <1>2, <1>4, <3>1, <3>2
  <2>2. PICK s : s = SubSeq(regs, i + 1, n)
    OBVIOUS
  <2>3. Len(s) = n - i /\ \A j \in 1..Len(s) : s[j] = regs[j + i]
    BY <1>0, <2>2
  <2>4. PICK j \in 1..Len(s) : j + i = k
    <3>1. k - i \in 1..Len(s) /\ (k - i) + i = k
      BY <1>0, <2>1, <2>3
    <3> QED
      BY <3>1
  <2>5. s[j] = r
    BY <1>1, <2>3, <2>4
  <2>6. _remove_region(regs, i) = s
    BY <1>4, <2>2 DEF _remove_region
  <2> QED
    BY <2>5, <2>6 DEF Listed
<1>5. CASE regs[1].addr # regs[i].addr /\ regs[n].addr = regs[i].addr
  <2>1. i = n
    <3> SUFFICES ASSUME i < n PROVE FALSE
      BY <1>0
    <3>1. End(regs[i]) <= regs[n].addr
      BY <1>0 DEF Sorted
    <3> QED
      BY <1>0, <1>2, <1>5, <3>1
  <2>2. PICK s : s = SubSeq(regs, 1, i - 1)
    OBVIOUS
  <2>3. Len(s) = i - 1 /\ \A j \in 1..Len(s) : s[j] = regs[j]
    BY <1>0, <2>2
  <2>4. k \in 1..Len(s) /\ s[k] = r
    BY <1>0, <1>1, <1>3, <2>1, <2>3
  <2>5. _remove_region(regs, i) = s
    BY <1>5, <2>2 DEF _remove_region
  <2> QED
    BY <2>4, <2>5 DEF Listed
<1>6. CASE regs[1].addr # regs[i].addr /\ regs[n].addr # regs[i].addr
  <2>1. _remove_region(regs, i) = RemoveIndex(regs, i)
    BY <1>6 DEF _remove_region
  <2>2. r # regs[i]
    OBVIOUS
  <2> QED
    BY <2>1, <2>2, RemoveIndexFacts
<1> QED
  BY <1>4, <1>5, <1>6

(* The regions when one of them gets another size. *)
LEMMA ResizedListed ==
    ASSUME NEW regs \in Seq(Region), NEW i \in 1..Len(regs), NEW n \in Nat, NEW s, s = Resized(regs, i, n)
    PROVE  /\ s[i] \in Listed(s)
           /\ \A r \in Listed(s) : r = s[i] \/ r \in Listed(regs)
           /\ \A r \in Listed(regs) : r = regs[i] \/ r \in Listed(s)
<1>1. Len(s) = Len(regs) /\ \A j \in 1..Len(regs) : j # i => s[j] = regs[j]
  BY ResizedIs
<1> QED
  BY <1>1 DEF Listed

(* The first heap region finds its place behind the program. *)
LEMMA FirstPlaced ==
    ASSUME NEW a \in Typed, Sorted(a.regs), Below(a), NEW addr \in Nat,
           NEW r \in Region, NEW b, BrkFirst(a, b, addr, r)
    PROVE  /\ r.rw /\ r.addr = a.elf_end /\ addr <= End(r) /\ End(r) < addr + PAGE_SIZE
           /\ b.regs \in Seq(Region) /\ Listed(b.regs) = Listed(a.regs) \cup {r}
           /\ \/ a.regs = <<>> \/ End(r) <= VM_USER_END \/ \E q \in Listed(a.regs) : End(r) <= q.addr
<1>1. a.regs \in Seq(Region) /\ a.elf_end \in Nat /\ a.data_end \in Nat
  BY SpaceIs DEF Typed
<1>2. PAGE_SIZE \in Nat /\ PAGE_SIZE > 0 /\ Word \in Nat
  BY Machine
<1>3. PICK e \in Nat : e = a.elf_end /\ e = a.data_end /\ e <= addr
  BY <1>1 DEF BrkFirst
<1>4. PICK x \in Nat : x = addr - e
  BY <1>3
<1>5. PICK n \in Nat : n = RoundUp(x, PAGE_SIZE) /\ x <= n /\ n < x + PAGE_SIZE
  BY <1>2, RoundUpIs
<1>6. r = [addr |-> e, size |-> n, rw |-> TRUE] /\ b.regs = _insert_region(a.regs, r)
  BY <1>3, <1>4, <1>5 DEF BrkFirst
<1>7. r.addr = e /\ r.size = n /\ r.rw /\ End(r) = e + n
  BY <1>6 DEF End
<1>8. _is_area_free(a, e, n)
  BY <1>3, <1>7 DEF BrkFirst
<1>9. e + n < addr + PAGE_SIZE /\ addr <= e + n /\ e + n < Word
  <2>1. e + n < Word
    BY <1>3, <1>7 DEF BrkFirst
  <2> QED
    BY <1>2, <1>3, <1>4, <1>5, <2>1
<1>10. (e + n) % Word = e + n
  <2>1. PICK y \in Nat : y = e + n
    OBVIOUS
  <2>2. y % Word = y - Word * 0
    BY <1>2, <1>9, <2>1, DivIs
  <2> QED
    BY <1>2, <2>1, <2>2
<1>11. PICK top : top = (e + n) % Word
  OBVIOUS
<1>12. \/ a.regs = <<>>
       \/ a.regs # <<>> /\ End(a.regs[Len(a.regs)]) <= e /\ top <= VM_USER_END
       \/ \E k \in 1..Len(a.regs) : FreeBefore(a.regs, e, top, k)
  BY <1>1, <1>8, <1>11, AreaFree
<1>13. top = End(r)
  BY <1>7, <1>10, <1>11
<1>14. PICK s : s = _insert_region(a.regs, r)
  OBVIOUS
<1>15. /\ s \in Seq(Region) /\ Listed(a.regs) \subseteq Listed(s) /\ Listed(s) \subseteq Listed(a.regs) \cup {r}
       /\ (\E i \in 0..Len(a.regs) : Place(a.regs, r, i)) => r \in Listed(s)
  BY <1>1, <1>14, InsertRegion
<1>16. CASE a.regs = <<>>
  <2>1. Place(a.regs, r, 0) /\ 0 \in 0..Len(a.regs)
    BY <1>16 DEF Place
  <2> QED
    BY <1>3, <1>6, <1>7, <1>9, <1>14, <1>15, <1>16, <2>1
<1>17. CASE a.regs # <<>> /\ End(a.regs[Len(a.regs)]) <= e /\ top <= VM_USER_END
  <2>1. Place(a.regs, r, Len(a.regs)) /\ Len(a.regs) \in 0..Len(a.regs)
    BY <1>1, <1>7, <1>17 DEF Place
  <2> QED
    BY <1>3, <1>6, <1>7, <1>9, <1>13, <1>14, <1>15, <1>17, <2>1
<1>18. ASSUME NEW k \in 1..Len(a.regs), FreeBefore(a.regs, e, top, k) PROVE r \in Listed(s) /\ End(r) <= a.regs[k].addr /\ a.regs[k] \in Listed(a.regs)
  <2>1. End(r) <= a.regs[k].addr
    BY <1>13, <1>18 DEF FreeBefore
  <2>2. PICK i \in 0..Len(a.regs) : i = k - 1
    OBVIOUS
  <2>3. i = 0 \/ End(a.regs[i]) <= e
    <3> SUFFICES ASSUME i # 0 PROVE End(a.regs[i]) <= e
      OBVIOUS
    <3>1. i \in 1..Len(a.regs) /\ i < k
      BY <2>2
    <3>2. a.regs[i].addr < e
      BY <1>18, <3>1 DEF FreeBefore
    <3>3. a.regs[i] \in Listed(a.regs)
      BY <1>1, <3>1, ListedIs
    <3> QED
      BY <1>3, <3>2, <3>3 DEF Below
  <2>4. i + 1 = k
    BY <2>2
  <2>5. Place(a.regs, r, i)
    BY <1>7, <2>1, <2>3, <2>4 DEF Place
  <2>6. a.regs[k] \in Listed(a.regs)
    BY <1>1, ListedIs
  <2> QED
    BY <1>15, <2>1, <2>5, <2>6
<1> QED
  BY <1>3, <1>6, <1>7, <1>9, <1>12, <1>14, <1>15, <1>16, <1>17, <1>18

(* However the break moves, the heap's region goes with it. *)
LEMMA MovesHeap ==
    ASSUME NEW a \in HeapSpaces, NEW addr \in Nat, NEW b \in Space, b.elf_end = a.elf_end,
           NEW i, i = _find_region(a, a.elf_end + 1), Moves(a, b, i, addr)
    PROVE  Below(b) /\ HasHeap(b)
<1>1. a \in Typed /\ Sorted(a.regs) /\ Below(a) /\ HasHeap(a) /\ a.regs \in Seq(Region) /\ a.elf_end \in Nat /\ a.data_end \in Nat
      /\ b.regs \in Seq(Region)
  BY SpaceIs DEF HeapSpaces, Typed
<1>a. PAGE_SIZE \in Nat /\ PAGE_SIZE > 0
  BY Machine
<1>2. ASSUME NEW r \in Region, BrkFirst(a, b, addr, r) PROVE Below(b) /\ HasHeap(b)
  <2>1. r.rw /\ r.addr = a.elf_end /\ addr <= End(r) /\ Listed(b.regs) = Listed(a.regs) \cup {r}
    <3>1. /\ r.rw /\ r.addr = a.elf_end /\ addr <= End(r) /\ End(r) < addr + PAGE_SIZE
          /\ b.regs \in Seq(Region) /\ Listed(b.regs) = Listed(a.regs) \cup {r}
          /\ \/ a.regs = <<>> \/ End(r) <= VM_USER_END \/ \E q \in Listed(a.regs) : End(r) <= q.addr
      <4>1. a \in Typed /\ Sorted(a.regs) /\ Below(a)
        BY <1>1
      <4> QED
        BY <1>2, <4>1, FirstPlaced
    <3> QED
      BY <3>1
  <2>2. b.data_end = addr
    BY <1>2 DEF BrkFirst
  <2>3. ASSUME NEW q \in Listed(b.regs), q.addr < b.elf_end PROVE End(q) <= b.elf_end
    <3>1. q # r
      BY <1>1, <2>1, <2>3
    <3> QED
      BY <1>1, <2>1, <2>3, <3>1 DEF Below
  <2>4. HasHeap(b)
    <3>1. r \in Listed(b.regs) /\ r.addr = b.elf_end /\ b.data_end <= End(r)
      BY <2>1, <2>2
    <3> QED
      BY <1>1, <2>1, <3>1, HeapListed
  <2> QED
    BY <2>3, <2>4 DEF Below
<1>3. ASSUME a.data_end # a.elf_end
      PROVE  /\ i \in 1..Len(a.regs) /\ HeapRegion(a, i) /\ a.regs[i] \in Region
             /\ a.regs[i].addr \in Nat /\ a.regs[i].size \in Nat /\ End(a.regs[i]) = a.regs[i].addr + a.regs[i].size
             /\ a.regs[i].rw /\ a.regs[i].addr = a.elf_end /\ a.data_end <= End(a.regs[i])
  <2>1. i \in 1..Len(a.regs) /\ HeapRegion(a, i)
    BY <1>1, <1>3, HeapIsFound
  <2>2. a.regs[i] \in Region
    BY <1>1, <2>1
  <2>3. a.regs[i].addr \in Nat /\ a.regs[i].size \in Nat /\ End(a.regs[i]) = a.regs[i].addr + a.regs[i].size
    BY <2>2, EndIsNat, Zenon
  <2> QED
    BY <2>1, <2>2, <2>3 DEF HeapRegion
<1>4. ASSUME a.data_end # a.elf_end, NEW n \in Nat, b.regs = Resized(a.regs, i, n), b.data_end <= a.elf_end + n
      PROVE  Below(b) /\ HasHeap(b)
  <2>1. PICK r : r = b.regs[i]
    OBVIOUS
  <2>2. r \in Region /\ r.addr = a.elf_end /\ r.rw = a.regs[i].rw /\ r.size = n
    BY <1>1, <1>3, <1>4, <2>1, ResizedIs
  <2>3. r \in Listed(b.regs) /\ \A q \in Listed(b.regs) : q = r \/ q \in Listed(a.regs)
    BY <1>1, <1>3, <1>4, <2>1, ResizedListed
  <2>4. End(r) = a.elf_end + n
    BY <2>2 DEF End
  <2>5. ASSUME NEW q \in Listed(b.regs), q.addr < b.elf_end PROVE End(q) <= b.elf_end
    <3>1. q # r
      BY <1>1, <2>2, <2>5
    <3> QED
      BY <1>1, <2>3, <2>5, <3>1 DEF Below
  <2>6. HasHeap(b)
    <3>1. r.rw
      BY <1>3, <1>4, <2>2
    <3>2. r.addr = b.elf_end /\ b.data_end <= End(r)
      BY <1>4, <2>2, <2>4
    <3> QED
      BY <1>1, <2>3, <3>1, <3>2, HeapListed
  <2> QED
    BY <2>5, <2>6 DEF Below
<1>5. ASSUME a.data_end # a.elf_end, BrkWithin(a, b, i, addr) PROVE Below(b) /\ HasHeap(b)
  <2>1. b.regs = a.regs /\ b.data_end <= End(a.regs[i])
    BY <1>5 DEF BrkWithin
  <2>2. HeapRegion(b, i)
    BY <1>3, <1>5, <2>1 DEF HeapRegion
  <2>3. HasHeap(b)
    BY <1>3, <1>5, <2>1, <2>2 DEF HasHeap
  <2> QED
    BY <1>1, <2>1, <2>3 DEF Below
<1>6. ASSUME a.data_end # a.elf_end, NEW n \in Nat, BrkGrow(a, b, i, addr, n) PROVE Below(b) /\ HasHeap(b)
  <2>1. PICK z \in Nat, e \in Nat, old \in Nat : z = a.regs[i].size /\ e = a.elf_end /\ old = a.data_end /\ old <= e + z
    BY <1>1, <1>3, <1>6
  <2>2. b.regs = Resized(a.regs, i, z + n) /\ b.data_end = addr /\ addr > old /\ n = RoundUp(addr - old, PAGE_SIZE)
    BY <1>6, <2>1 DEF BrkGrow
  <2>3. PICK x \in Nat : x = addr - old
    BY <2>2
  <2>4. x <= n
    BY <1>a, <2>2, <2>3, RoundUpIs
  <2>5. addr <= e + (z + n)
    BY <2>1, <2>3, <2>4
  <2>6. PICK k \in Nat : k = z + n
    BY <2>1
  <2> QED
    BY <1>4, <1>6, <2>1, <2>2, <2>5, <2>6
<1>7. ASSUME a.data_end # a.elf_end, NEW n \in Nat, NEW ctr \in Nat, BrkShrink(a, b, i, addr, ctr, n) PROVE Below(b) /\ HasHeap(b)
  <2>1. addr <= a.regs[i].addr + n
    BY <1>1, <1>3, <1>7, ShrinkSize
  <2>2. b.regs = Resized(a.regs, i, n) /\ b.data_end = addr
    BY <1>7 DEF BrkShrink
  <2> QED
    BY <1>3, <1>4, <1>7, <2>1, <2>2
<1> QED
  BY <1>2, <1>5, <1>6, <1>7 DEF Moves

HeapOdd == {"odd munmap", "fixed address", "unaligned address"}

(* A call of mmap that is not odd gives no address. *)
LEMMA NoHint ==
    ASSUME NEW hint \in Nat, NEW a, NEW size, NEW avail, NEW m,
           "fixed address" \notin MmapOdd(a, hint, size, avail, m), "unaligned address" \notin MmapOdd(a, hint, size, avail, m)
    PROVE  hint = 0
BY DEF MmapOdd

LEMMA EvolveHeap ==
    ASSUME NEW a \in HeapSpaces, NEW fr \in SUBSET (Frames \cup {0}), NEW m, NEW what, NEW d, Evolves(a, fr, m, what, d),
           what \cap HeapOdd = {}
    PROVE  m.a \in HeapSpaces
<1>1. a \in Typed /\ Sorted(a.regs) /\ Below(a) /\ HasHeap(a) /\ a \in Space /\ a.regs \in Seq(Region)
      /\ a.elf_end \in Nat /\ a.data_end \in Nat /\ a.elf_end <= a.data_end
  BY SpaceIs DEF HeapSpaces, Typed
<1>2. m.a \in Typed /\ m.a.elf_end = a.elf_end /\ m.a \in Space /\ m.a.regs \in Seq(Region)
  BY <1>1, EvolveTyped, SpaceIs DEF Typed
<1>3. "odd munmap" \notin what /\ "fixed address" \notin what /\ "unaligned address" \notin what
  BY DEF HeapOdd
<1>a. PAGE_SIZE \in Nat /\ PAGE_SIZE > 0
  BY Machine
<1>4. ASSUME NEW hint \in Nat, NEW size \in Nat, NEW avail \in Nat, NEW rw, Mmaps(a, fr, m, what, hint, size, rw, avail)
      PROVE  Sorted(m.a.regs) /\ Below(m.a) /\ HasHeap(m.a)
  <2>1. hint = 0
    BY <1>3, <1>4, NoHint DEF Mmaps
  <2>2. Sorted(m.a.regs)
    BY <1>1, <1>4, MmapsSorted
  <2>3. PICK addr, asize : addr = mmap_address(a, hint, size) /\ asize = aligned_size(hint, size, PAGE_SIZE)
    OBVIOUS
  <2>4. Mapping(m, a, fr, addr, size, asize, rw, avail) /\ addr \in Nat /\ asize \in Nat /\ rw \in BOOLEAN
    BY <1>4, <2>3 DEF Mmaps
  <2>5. m.a.data_end = a.data_end
    BY <2>4 DEF Mapping, SameEnds
  <2>6. CASE m.st # "ok"
    <3>1. m.a.regs = a.regs
      BY <2>4, <2>6 DEF Mapping
    <3> QED
      BY <1>1, <1>2, <2>2, <2>5, <3>1 DEF Below, HasHeap, HeapRegion
  <2>7. CASE m.st = "ok"
    <3>1. addr >= a.data_end + PAGE_SIZE
      BY <1>1, <1>4, <2>1, <2>3, <2>7, FoundBehindHeap
    <3>2. PICK r : r = [addr |-> addr, size |-> asize, rw |-> rw]
      OBVIOUS
    <3>3. r \in Region /\ r.addr = addr /\ m.a.regs = _insert_region(a.regs, r)
      BY <2>4, <2>7, <3>2 DEF Mapping, Region
    <3>4. Listed(a.regs) \subseteq Listed(m.a.regs) /\ Listed(m.a.regs) \subseteq Listed(a.regs) \cup {r}
      BY <1>1, <3>3, InsertRegion
    <3>5. ~(r.addr < a.elf_end)
      BY <1>1, <1>a, <2>4, <3>1, <3>3
    <3>6. Below(m.a)
      BY <1>1, <1>2, <3>4, <3>5 DEF Below
    <3>7. HasHeap(m.a)
      BY <1>1, <1>2, <2>5, <3>4, HeapListed
    <3> QED
      BY <2>2, <3>6, <3>7
  <2> QED
    BY <2>6, <2>7
<1>5. ASSUME NEW addr \in UserAddresses, NEW i \in Nat, Munmaps(a, fr, m, what, addr, i)
      PROVE  Sorted(m.a.regs) /\ Below(m.a) /\ HasHeap(m.a)
  <2>1. i = _find_region(a, addr) /\ i # 0 /\ Unmapping(m, a, fr, i) /\ "odd munmap" \notin MunmapOdd(a, addr, i)
    BY <1>3, <1>5 DEF Munmaps
  <2>2. i \in 1..Len(a.regs)
    BY <1>1, <2>1, FindRegion
  <2>3. a.regs[i].size = PAGE_SIZE /\ a.regs[i].addr >= a.data_end
    BY <2>1 DEF MunmapOdd
  <2>4. CASE m.st # "ok"
    BY <1>1, <2>1, <2>4 DEF Unmapping
  <2>5. CASE m.st = "ok"
    <3>1. m.a.regs = _remove_region(a.regs, i) /\ m.a.data_end = a.data_end
      BY <2>1, <2>5 DEF Unmapping, SameEnds
    <3>2. Sorted(m.a.regs) /\ Listed(m.a.regs) \subseteq Listed(a.regs)
      BY <1>1, <2>2, <3>1, RemoveRegion
    <3>3. Below(m.a)
      BY <1>1, <1>2, <3>2 DEF Below
    <3>4. HasHeap(m.a)
      <4>1. SUFFICES ASSUME a.data_end > a.elf_end
                     PROVE  \E r \in Listed(m.a.regs) : r.rw /\ r.addr = a.elf_end /\ a.data_end <= End(r)
        BY <1>2, <3>1, HeapListed
      <4>2. PICK r \in Listed(a.regs) : r.rw /\ r.addr = a.elf_end /\ a.data_end <= End(r)
        BY <1>1, <4>1, HeapListed
      <4>3. r \in Region
        BY <1>1, ListedIs
      <4>4. r.addr \in Nat /\ r.size \in Nat /\ End(r) = r.addr + r.size
        BY <4>3, EndIsNat, Zenon
      <4>5. r.size > 0
        BY <1>1, <4>1, <4>2, <4>4
      <4>6. a.regs[i] \in Region
        BY <1>1, <2>2
      <4>7. a.regs[i].addr \in Nat
        BY <4>6, EndIsNat, Zenon
      <4>8. r.addr # a.regs[i].addr
        BY <1>1, <2>3, <4>1, <4>2, <4>7
      <4>9. r \in Listed(m.a.regs)
        BY <1>1, <1>a, <2>2, <2>3, <3>1, <4>5, <4>8, RemoveKeeps
      <4> QED
        BY <4>2, <4>9
    <3> QED
      BY <3>2, <3>3, <3>4
  <2> QED
    BY <2>4, <2>5
<1>6. ASSUME NEW addr \in Nat, Brks(a, fr, m, what, addr) PROVE Sorted(m.a.regs) /\ Below(m.a) /\ HasHeap(m.a)
  <2>1. PICK i : i = _find_region(a, a.elf_end + 1)
    OBVIOUS
  <2>2. Breaking(m, a, fr, i, addr)
    BY <1>6, <2>1 DEF Brks
  <2>3. CASE m.st # "ok"
    BY <1>1, <2>2, <2>3 DEF Breaking
  <2>4. CASE m.st = "ok"
    <3>1. Moves(a, m.a, i, addr)
      BY <2>2, <2>4 DEF Breaking
    <3>2. Sorted(m.a.regs)
      BY <1>1, <2>1, <3>1, MovesSorted
    <3>3. Below(m.a) /\ HasHeap(m.a)
      BY <1>2, <2>1, <2>2, <3>1, MovesHeap
    <3> QED
      BY <3>2, <3>3
  <2> QED
    BY <2>3, <2>4
<1>7. ASSUME NEW addr, NEW i, Accesses(a, fr, m, addr, i) PROVE Sorted(m.a.regs) /\ Below(m.a) /\ HasHeap(m.a)
  <2>1. m.a.regs = a.regs /\ m.a.data_end = a.data_end
    BY <1>7 DEF Accesses, SameEnds
  <2> QED
    BY <1>1, <1>2, <2>1 DEF Below, HasHeap, HeapRegion
<1>8. Sorted(m.a.regs) /\ Below(m.a) /\ HasHeap(m.a)
  BY <1>4, <1>5, <1>6, <1>7, Zenon DEF Evolves
<1> QED
  BY <1>2, <1>8 DEF HeapSpaces

LEMMA ForkHeap ==
    ASSUME NEW a \in HeapSpaces, NEW fr, NEW dst, NEW m, Forking(m, a, dst, fr)
    PROVE  m.a \in HeapSpaces
<1>1. a \in Typed /\ Sorted(a.regs) /\ Below(a) /\ HasHeap(a)
  BY DEF HeapSpaces
<1>2. m.a \in Typed /\ m.a.elf_end = a.elf_end /\ m.a.data_end = a.data_end
  BY <1>1, ForkTyped
<1>3. m.a.regs = a.regs
  BY DEF Forking
<1> QED
  BY <1>1, <1>2, <1>3 DEF HeapSpaces, Below, HasHeap, HeapRegion

LEMMA NewHeap ==
    ASSUME NEW prog \in Programs, NEW a, NEW old, NewSpace(a, prog, old)
    PROVE  a \in HeapSpaces
<1>1. a \in Typed /\ Sorted(a.regs) /\ a.data_end = a.elf_end /\ a.elf_end \in Nat
  BY SpaceIs DEF NewSpace, Typed
<1>2. HasHeap(a)
  BY <1>1 DEF HasHeap
<1>3. Below(a)
  <2> SUFFICES ASSUME NEW r \in Listed(a.regs), r.addr < a.elf_end PROVE End(r) <= a.elf_end
    BY DEF Below
  <2>1. r # StackRegion
    <3>1. PAGE_SIZE \in Nat /\ StackEnd \in Nat /\ a.elf_end + PAGE_SIZE <= StackEnd
      BY StackIs, Machine DEF NewSpace
    <3>2. StackRegion.addr = StackEnd
      BY DEF StackRegion
    <3> QED
      BY <1>1, <3>1, <3>2
  <2>2. r \in RegionsOf(prog, Len(prog))
    BY <2>1 DEF NewSpace
  <2> QED
    BY <2>2, ProgramRegions DEF NewSpace
<1> QED
  BY <1>1, <1>2, <1>3 DEF HeapSpaces

LEMMA HeapKept == Keeps(HeapSpaces, HeapOdd)
<1>1. HeapSpaces \subseteq Typed
  BY DEF HeapSpaces
<1>2. ASSUME NEW fr \in SUBSET (Frames \cup {0}), NEW prog \in Programs, NEW dst, Blank(dst, HeapOdd), NEW m,
             m = execve_space(dst, fr, prog), m.st = "ok"
      PROVE  m.a \in HeapSpaces
  <2>1. dst \in Space /\ dst.regs = <<>>
    BY <1>2 DEF Blank
  <2>2. NewSpace(m.a, prog, dst.pt)
    BY <1>2, <2>1, LoadedSpace
  <2> QED
    BY <2>2, NewHeap
<1>3. ASSUME NEW a \in HeapSpaces, NEW b, Retabled(a, b, HeapOdd) PROVE b \in HeapSpaces
  <2>1. a \in Typed /\ Sorted(a.regs) /\ Below(a) /\ HasHeap(a)
    BY DEF HeapSpaces
  <2>2. b \in Typed
    BY <1>3, <2>1, RetabledTyped
  <2>3. b.regs = a.regs /\ b.elf_end = a.elf_end /\ b.data_end = a.data_end
    BY <1>3 DEF Retabled, SameEnds
  <2> QED
    BY <2>1, <2>2, <2>3 DEF HeapSpaces, Below, HasHeap, HeapRegion
<1> QED
  BY <1>1, <1>2, <1>3, EvolveHeap, ForkHeap DEF Keeps

(* In every reachable state the heap of every program, from the end of its last
   segment to its break, lies in one writable region, as long as no program
   asked mmap for a fixed address or unmapped something odd, and no break took a
   heap over the end of the address space: vmm_set_brk finds the region again
   however mappings, forks and breaks follow each other. *)
THEOREM HeapAlwaysCovered == Spec => []HeapCovered
<1> DEFINE Inv == TypeInv /\ AllIn(Typed) /\ Guarded(HeapSpaces, HeapOdd)
<1>1. Init => Inv
  BY InitType, TypeFirst, GuardedFirst, HeapKept
<1>2. Inv /\ [Next]_vars => Inv'
  BY NextType, GuardedKept, HeapKept
<1>3. Inv => HeapCovered
  BY DEF Guarded, AllIn, HeapSpaces, Typed, HeapCovered, HeapOdd
<1> QED
  BY <1>1, <1>2, <1>3, PTL DEF Spec
-----------------------------------------------------------------------------
(* The kernel's memory is untouched *)

(* Everything lies below the kernel, and the stack is behind the heap. *)
HasStack(a) == \E r \in Listed(a.regs) : r.addr = StackEnd /\ r.size > 0
Bounded(a) == \A r \in Listed(a.regs) : End(r) <= VM_USER_END
StackSpaces == {a \in Typed : /\ Sorted(a.regs) /\ HasStack(a) /\ Bounded(a)
                              /\ a.elf_end + PAGE_SIZE <= StackEnd}
StackOdd == {"wraps around", "unaligned address", "odd munmap", "lost heap"}

LEMMA PagesBelow ==
    ASSUME NEW addr \in Nat, NEW size \in Nat, size # 0, addr + size <= VM_USER_END
    PROVE  PagesOf(addr, size) \subseteq UserPages
<1>1. PICK x \in Nat, y \in Nat : x = addr + size - 1 /\ y = VM_USER_END - 1 /\ x <= y /\ addr <= x
  BY Machine
<1>2. Page(x) <= Page(y) /\ Page(x) \in Nat /\ Page(y) \in Nat /\ Page(addr) \in Nat
  BY <1>1, PageMono, PageIs
<1>3. UserPages = 0..Page(y)
  BY <1>1 DEF UserPages, Page
<1>4. PagesOf(addr, size) = Page(addr)..Page(x)
  BY <1>1 DEF PagesOf
<1> QED
  BY <1>2, <1>3, <1>4

(* An area that is free ends below the kernel. *)
LEMMA FreeBounded ==
    ASSUME NEW a, a.regs \in Seq(Region), HasStack(a), Bounded(a), NEW addr \in Nat, NEW size \in Nat,
           addr + size < Word, _is_area_free(a, addr, size)
    PROVE  addr + size <= VM_USER_END
<1>0. Word \in Nat /\ Word > 0 /\ VM_USER_END \in Nat
  BY Machine
<1>1. PICK top : top = (addr + size) % Word
  OBVIOUS
<1>2. top = addr + size
  <2>1. PICK x \in Nat : x = addr + size
    OBVIOUS
  <2>2. x % Word = x - Word * 0
    BY <1>0, <2>1, DivIs
  <2> QED
    BY <1>0, <1>1, <2>1, <2>2
<1>3. a.regs # <<>>
  BY DEF HasStack, Listed
<1>4. \/ a.regs # <<>> /\ End(a.regs[Len(a.regs)]) <= addr /\ top <= VM_USER_END
      \/ \E k \in 1..Len(a.regs) : FreeBefore(a.regs, addr, top, k)
  BY <1>1, <1>3, AreaFree
<1>5. ASSUME NEW k \in 1..Len(a.regs), FreeBefore(a.regs, addr, top, k) PROVE addr + size <= VM_USER_END
  <2>1. a.regs[k] \in Region /\ a.regs[k] \in Listed(a.regs)
    BY ListedIs
  <2>2. a.regs[k].addr \in Nat /\ End(a.regs[k]) \in Nat /\ a.regs[k].addr <= End(a.regs[k])
    BY <2>1, EndIsNat, Zenon
  <2>3. End(a.regs[k]) <= VM_USER_END
    BY <2>1 DEF Bounded
  <2>4. top <= a.regs[k].addr
    BY <1>5 DEF FreeBefore
  <2> QED
    BY <1>0, <1>2, <2>2, <2>3, <2>4
<1> QED
  BY <1>2, <1>4, <1>5

LEMMA MmapBounded ==
    ASSUME NEW a \in StackSpaces, NEW fr, NEW m, NEW what, NEW hint \in Nat, NEW size \in Nat, NEW avail, NEW rw,
           Mmaps(a, fr, m, what, hint, size, rw, avail), what \cap StackOdd = {}
    PROVE  m.st # "corrupt" /\ Sorted(m.a.regs) /\ HasStack(m.a) /\ Bounded(m.a)
<1>1. a \in Typed /\ Sorted(a.regs) /\ HasStack(a) /\ Bounded(a) /\ a \in Space /\ a.regs \in Seq(Region)
  BY SpaceIs DEF StackSpaces, Typed
<1>2. Sorted(m.a.regs)
  BY <1>1, MmapsSorted
<1>3. PICK addr, asize : addr = mmap_address(a, hint, size) /\ asize = aligned_size(hint, size, PAGE_SIZE)
  OBVIOUS
<1>4. Mapping(m, a, fr, addr, size, asize, rw, avail) /\ addr \in Nat /\ asize \in Nat /\ rw \in BOOLEAN
  BY <1>3 DEF Mmaps
<1>5. ~(addr + asize >= Word)
  BY <1>3 DEF Mmaps, MmapOdd, Wraps, StackOdd
<1>6. hint % PAGE_SIZE = 0
  BY DEF Mmaps, MmapOdd, StackOdd
<1>7. PAGE_SIZE \in Nat /\ PAGE_SIZE > 0 /\ VM_USER_END \in Nat /\ Word \in Nat
  BY Machine
<1>8. asize = RoundUp(size, PAGE_SIZE)
  BY <1>3, <1>6, <1>7, AlignedSize
<1>9. size <= asize
  BY <1>7, <1>8, RoundUpIs
<1>10. CASE m.st \notin {"ok", "corrupt"}
  <2>1. m.a.regs = a.regs
    BY <1>4, <1>10 DEF Mapping
  <2> QED
    BY <1>1, <1>2, <1>10, <2>1 DEF HasStack, Bounded
<1>11. CASE m.st \in {"ok", "corrupt"}
  <2>1. size # 0 /\ _is_area_free(a, addr, asize)
    BY <1>4, <1>11 DEF Mapping
  <2>2. addr + asize <= VM_USER_END
    <3>1. addr + asize < Word
      BY <1>4, <1>5, <1>7
    <3> QED
      BY <1>1, <1>4, <2>1, <3>1, FreeBounded
  <2>3. addr + size <= VM_USER_END
    BY <1>4, <1>7, <1>9, <2>2
  <2>4. PagesOf(addr, size) \subseteq UserPages
    BY <1>4, <2>1, <2>3, PagesBelow
  <2>5. m.st = "ok"
    BY <1>4, <1>11, <2>4 DEF Mapping
  <2>6. PICK r : r = [addr |-> addr, size |-> asize, rw |-> rw]
    OBVIOUS
  <2>7. r \in Region /\ End(r) = addr + asize /\ m.a.regs = _insert_region(a.regs, r)
    BY <1>4, <2>5, <2>6 DEF Mapping, Region, End
  <2>8. Listed(a.regs) \subseteq Listed(m.a.regs) /\ Listed(m.a.regs) \subseteq Listed(a.regs) \cup {r}
    BY <1>1, <2>7, InsertRegion
  <2>9. HasStack(m.a)
    BY <1>1, <2>8 DEF HasStack
  <2>10. Bounded(m.a)
    BY <1>1, <2>2, <2>7, <2>8 DEF Bounded
  <2> QED
    BY <1>2, <2>5, <2>9, <2>10
<1> QED
  BY <1>10, <1>11

LEMMA MunmapBounded ==
    ASSUME NEW a \in StackSpaces, NEW fr \in SUBSET (Frames \cup {0}), NEW m, NEW what, NEW addr \in UserAddresses, NEW i,
           Munmaps(a, fr, m, what, addr, i), what \cap StackOdd = {}
    PROVE  m.st # "corrupt" /\ Sorted(m.a.regs) /\ HasStack(m.a) /\ Bounded(m.a)
<1>1. a \in Typed /\ Sorted(a.regs) /\ HasStack(a) /\ Bounded(a) /\ a \in Space /\ a.regs \in Seq(Region)
      /\ a.stack_end = StackEnd
  BY SpaceIs DEF StackSpaces, Typed
<1>2. i = _find_region(a, addr) /\ i # 0 /\ Unmapping(m, a, fr, i) /\ "odd munmap" \notin MunmapOdd(a, addr, i)
      /\ m = vmm_munmap(a, fr, addr)
  BY DEF Munmaps, StackOdd
<1>3. i \in 1..Len(a.regs)
  BY <1>1, <1>2, FindRegion
<1>4. a.regs[i].addr = addr /\ a.regs[i].size = PAGE_SIZE /\ addr % PAGE_SIZE = 0 /\ addr # StackEnd
  BY <1>1, <1>2 DEF MunmapOdd
<1>5. m.st # "corrupt"
  BY <1>1, <1>2, <1>4, MunmapHarmless
<1>6. CASE m.st # "ok"
  <2>1. m.a = a
    BY <1>2, <1>6 DEF Unmapping
  <2> QED
    BY <1>1, <1>5, <2>1
<1>7. CASE m.st = "ok"
  <2>1. m.a.regs = _remove_region(a.regs, i)
    BY <1>2, <1>7 DEF Unmapping
  <2>2. Sorted(m.a.regs) /\ Listed(m.a.regs) \subseteq Listed(a.regs)
    BY <1>1, <1>3, <2>1, RemoveRegion
  <2>3. Bounded(m.a)
    BY <1>1, <2>2 DEF Bounded
  <2>4. HasStack(m.a)
    <3>1. PICK r \in Listed(a.regs) : r.addr = StackEnd /\ r.size > 0
      BY <1>1 DEF HasStack
    <3>2. a.regs[i].size > 0 /\ r.addr # a.regs[i].addr
      BY <1>4, <3>1, Machine
    <3>3. r \in Listed(m.a.regs)
      BY <1>1, <1>3, <2>1, <3>1, <3>2, RemoveKeeps
    <3> QED
      BY <3>1, <3>3 DEF HasStack
  <2> QED
    BY <1>5, <2>2, <2>3, <2>4
<1> QED
  BY <1>6, <1>7

(* The heap's region is never the last one. *)
LEMMA HeapBeforeStack ==
    ASSUME NEW a \in StackSpaces, NEW i \in 1..Len(a.regs), HeapRegion(a, i)
    PROVE  /\ a.regs[i] \in Region /\ a.regs[i].addr = a.elf_end /\ a.regs[i].addr # StackEnd
           /\ i # Len(a.regs)
<1>1. a.regs \in Seq(Region) /\ a.elf_end \in Nat /\ Sorted(a.regs) /\ HasStack(a) /\ a.elf_end + PAGE_SIZE <= StackEnd
  BY SpaceIs DEF StackSpaces, Typed
<1>2. PAGE_SIZE \in Nat /\ PAGE_SIZE > 0 /\ StackEnd \in Nat
  BY Machine, StackIs
<1>3. a.regs[i] \in Region
  BY <1>1
<1>4. a.regs[i].addr = a.elf_end /\ a.elf_end < StackEnd
  BY <1>1, <1>2 DEF HeapRegion
<1>5. PICK r \in Listed(a.regs) : r.addr = StackEnd /\ r.size > 0
  BY <1>1 DEF HasStack
<1>6. PICK k \in 1..Len(a.regs) : r = a.regs[k]
  BY <1>1, ListedIs
<1>7. r \in Region
  BY <1>1, ListedIs
<1>8. r.size \in Nat /\ End(r) = StackEnd + r.size
  BY <1>5, <1>7, EndIsNat
<1>9. k # i
  BY <1>1, <1>2, <1>4, <1>5, <1>6
<1>10. ~(k < i)
  <2> SUFFICES ASSUME k < i PROVE FALSE
    OBVIOUS
  <2>1. End(r) <= a.regs[i].addr
    BY <1>1, <1>6 DEF Sorted
  <2> QED
    BY <1>1, <1>2, <1>4, <1>5, <1>8, <2>1
<1>11. i # Len(a.regs)
  BY <1>9, <1>10
<1> QED
  BY <1>1, <1>2, <1>3, <1>4, <1>11

LEMMA BrkBounded ==
    ASSUME NEW a \in StackSpaces, NEW fr, NEW m, NEW what, NEW addr \in Nat, Brks(a, fr, m, what, addr), what \cap StackOdd = {}
    PROVE  m.st # "corrupt" /\ Sorted(m.a.regs) /\ HasStack(m.a) /\ Bounded(m.a)
<1>1. a \in Typed /\ Sorted(a.regs) /\ HasStack(a) /\ Bounded(a) /\ a \in Space /\ a.regs \in Seq(Region)
      /\ a.elf_end \in Nat /\ a.data_end \in Nat
  BY SpaceIs DEF StackSpaces, Typed
<1>2. HasHeap(a)
  BY DEF Brks, BrkOdd, StackOdd
<1>3. PICK i : i = _find_region(a, a.elf_end + 1)
  OBVIOUS
<1>4. Breaking(m, a, fr, i, addr)
  BY <1>3 DEF Brks
<1>a. PAGE_SIZE \in Nat /\ PAGE_SIZE > 0 /\ VM_USER_END \in Nat /\ Word \in Nat
  BY Machine
<1>5. ASSUME a.data_end # a.elf_end
      PROVE  /\ i \in 1..Len(a.regs) /\ HeapRegion(a, i) /\ a.regs[i] \in Region
             /\ a.regs[i].addr = a.elf_end /\ a.regs[i].addr # StackEnd /\ i # Len(a.regs)
             /\ a.regs[i].addr \in Nat /\ a.regs[i].size \in Nat /\ End(a.regs[i]) = a.regs[i].addr + a.regs[i].size
  <2>1. i \in 1..Len(a.regs) /\ HeapRegion(a, i)
    BY <1>1, <1>2, <1>3, <1>5, HeapIsFound
  <2>2. a.regs[i] \in Region /\ a.regs[i].addr = a.elf_end /\ a.regs[i].addr # StackEnd /\ i # Len(a.regs)
    BY <2>1, HeapBeforeStack
  <2> QED
    BY <2>1, <2>2, EndIsNat, Zenon
<1>6. m.st # "corrupt"
  BY <1>4, <1>5 DEF Breaking
<1>7. CASE m.st # "ok"
  <2>1. m.a = a
    BY <1>4, <1>7 DEF Breaking
  <2> QED
    BY <1>1, <1>6, <2>1
<1>8. CASE m.st = "ok"
  <2>1. PICK b : b = m.a
    OBVIOUS
  <2>2. Moves(a, b, i, addr)
    BY <1>4, <1>8, <2>1 DEF Breaking
  <2>3. Sorted(b.regs)
    BY <1>1, <1>2, <1>3, <2>2, MovesSorted
  <2>4. ASSUME NEW r \in Region, BrkFirst(a, b, addr, r) PROVE HasStack(b) /\ Bounded(b)
    <3>1. PICK e \in Nat, x \in Nat : e = a.data_end /\ x = addr - e
      BY <1>1, <2>4 DEF BrkFirst
    <3>2. PICK n \in Nat : n = RoundUp(x, PAGE_SIZE) /\ n < x + PAGE_SIZE
      BY <1>a, RoundUpIs
    <3>3. r = [addr |-> e, size |-> n, rw |-> TRUE] /\ b.regs = _insert_region(a.regs, r) /\ _is_area_free(a, e, r.size)
      BY <2>4, <3>1, <3>2 DEF BrkFirst
    <3>4. r.size = n /\ End(r) = e + n
      BY <3>3 DEF End
    <3>5. e + n < Word
      BY <2>4, <3>1, <3>4 DEF BrkFirst
    <3>6. e + n <= VM_USER_END
      BY <1>1, <3>3, <3>4, <3>5, FreeBounded
    <3>7. Listed(a.regs) \subseteq Listed(b.regs) /\ Listed(b.regs) \subseteq Listed(a.regs) \cup {r}
      <4>1. b.regs = _insert_region(a.regs, r)
        BY <3>3
      <4> QED
        BY <1>1, <4>1, InsertRegion
    <3>8. HasStack(b)
      BY <1>1, <3>7 DEF HasStack
    <3>9. Bounded(b)
      BY <1>1, <3>4, <3>6, <3>7 DEF Bounded
    <3> QED
      BY <3>8, <3>9
  <2>5. ASSUME a.data_end # a.elf_end, NEW n \in Nat, b.regs = Resized(a.regs, i, n), a.regs[i].addr + n <= VM_USER_END
        PROVE  HasStack(b) /\ Bounded(b)
    <3>1. PICK r : r = b.regs[i]
      OBVIOUS
    <3>2. r.addr = a.regs[i].addr /\ r.size = n
      <4>1. i \in 1..Len(a.regs) /\ b.regs = Resized(a.regs, i, n)
        BY <1>5, <2>5
      <4> QED
        BY <1>1, <3>1, <4>1, ResizedIs
    <3>3. /\ \A q \in Listed(b.regs) : q = r \/ q \in Listed(a.regs)
          /\ \A q \in Listed(a.regs) : q = a.regs[i] \/ q \in Listed(b.regs)
      BY <1>1, <1>5, <2>5, <3>1, ResizedListed
    <3>4. End(r) <= VM_USER_END
      BY <2>5, <3>2 DEF End
    <3>5. Bounded(b)
      BY <1>1, <3>3, <3>4 DEF Bounded
    <3>6. HasStack(b)
      BY <1>1, <1>5, <2>5, <3>3 DEF HasStack
    <3> QED
      BY <3>5, <3>6
  <2>6. ASSUME BrkWithin(a, b, i, addr) PROVE HasStack(b) /\ Bounded(b)
    BY <1>1, <2>6 DEF BrkWithin, HasStack, Bounded
  <2>7. ASSUME a.data_end # a.elf_end, NEW n \in Nat, BrkGrow(a, b, i, addr, n) PROVE HasStack(b) /\ Bounded(b)
    <3>1. PICK s \in Nat, z \in Nat : s = a.regs[i].addr /\ z = a.regs[i].size /\ End(a.regs[i]) = s + z
      BY <1>5, <2>7
    <3>2. i + 1 \in 1..Len(a.regs) /\ (s + z) + n <= a.regs[i + 1].addr /\ b.regs = Resized(a.regs, i, z + n)
      BY <1>5, <2>7, <3>1 DEF BrkGrow
    <3>3. PICK q : q = a.regs[i + 1]
      OBVIOUS
    <3>4. q \in Region /\ q \in Listed(a.regs)
      BY <1>1, <3>2, <3>3, ListedIs
    <3>5. q.addr \in Nat /\ End(q) \in Nat /\ q.addr <= End(q)
      BY <3>4, EndIsNat, Zenon
    <3>6. End(q) <= VM_USER_END
      BY <1>1, <3>4 DEF Bounded
    <3>7. PICK k \in Nat : k = z + n
      BY <3>1
    <3>8. s + k <= VM_USER_END
      BY <1>a, <3>2, <3>3, <3>5, <3>6, <3>7
    <3> QED
      BY <2>5, <2>7, <3>1, <3>2, <3>7, <3>8
  <2>8. ASSUME a.data_end # a.elf_end, NEW n \in Nat, NEW ctr \in Nat, BrkShrink(a, b, i, addr, ctr, n) PROVE HasStack(b) /\ Bounded(b)
    <3>1. n <= a.regs[i].size
      BY <1>1, <1>5, <2>8, ShrinkSize
    <3>2. b.regs = Resized(a.regs, i, n)
      BY <2>8 DEF BrkShrink
    <3>3. End(a.regs[i]) <= VM_USER_END
      BY <1>1, <1>5, <2>8, ListedIs DEF Bounded
    <3>4. a.regs[i].addr + n <= VM_USER_END
      BY <1>5, <1>a, <2>8, <3>1, <3>3
    <3> QED
      BY <2>5, <2>8, <3>2, <3>4
  <2>9. HasStack(b) /\ Bounded(b)
    BY <2>2, <2>4, <2>6, <2>7, <2>8 DEF Moves
  <2> QED
    BY <1>6, <2>1, <2>3, <2>9
<1> QED
  BY <1>7, <1>8

LEMMA EvolveBounded ==
    ASSUME NEW a \in StackSpaces, NEW fr \in SUBSET (Frames \cup {0}), NEW m, NEW what, NEW d, Evolves(a, fr, m, what, d),
           what \cap StackOdd = {}
    PROVE  m.st # "corrupt" /\ m.a \in StackSpaces
<1>1. a \in Typed /\ Sorted(a.regs) /\ HasStack(a) /\ Bounded(a) /\ a.elf_end + PAGE_SIZE <= StackEnd
  BY DEF StackSpaces
<1>2. m.a \in Typed /\ m.a.elf_end = a.elf_end
  BY <1>1, EvolveTyped
<1>3. ASSUME NEW addr, NEW i, Accesses(a, fr, m, addr, i)
      PROVE  m.st # "corrupt" /\ Sorted(m.a.regs) /\ HasStack(m.a) /\ Bounded(m.a)
  <2>1. m.st = "ok" /\ m.a.regs = a.regs
    BY <1>3 DEF Accesses
  <2> QED
    BY <1>1, <2>1 DEF HasStack, Bounded
<1>4. m.st # "corrupt" /\ Sorted(m.a.regs) /\ HasStack(m.a) /\ Bounded(m.a)
  BY <1>3, MmapBounded, MunmapBounded, BrkBounded, Zenon DEF Evolves
<1> QED
  BY <1>1, <1>2, <1>4 DEF StackSpaces

(* A program is loaded below the kernel. *)
LEMMA LoadsBounded ==
    ASSUME NEW m, NEW seg, Linked(seg), NEW w, Loads(w, m, seg)
    PROVE  w.st # "corrupt"
<1>1. seg \in Segment /\ seg.filesz <= seg.memsz /\ SegEnd(seg) + PAGE_SIZE <= StackEnd
  BY DEF Linked
<1>2. seg.vaddr \in Nat /\ seg.filesz \in Nat /\ seg.memsz \in Nat /\ SegEnd(seg) \in Nat /\ seg.vaddr + seg.memsz <= SegEnd(seg)
  BY <1>1, SegmentIs DEF SegEnd
<1>3. PICK v \in Nat, f \in Nat, s \in Nat, e \in Nat : v = seg.vaddr /\ f = seg.filesz /\ s = seg.memsz /\ e = SegEnd(seg)
  BY <1>2
<1>4. PAGE_SIZE \in Nat /\ StackEnd \in Nat /\ StackEnd <= VM_USER_END /\ VM_USER_END \in Nat
  BY Machine, StackIs
<1>5. v + s <= VM_USER_END /\ f <= s
  BY <1>1, <1>2, <1>3, <1>4
<1>6. ASSUME NEW x, NEW y, NEW z, NEW fr, NEW addr \in Nat, NEW size \in Nat, NEW n, NEW rw, NEW avail,
             Mapping(x, y, fr, addr, size, n, rw, avail), addr + size <= VM_USER_END
      PROVE  x.st # "corrupt"
  BY <1>6, PagesBelow DEF Mapping
<1>7. PICK h, g : LoadsFile(h, m, seg) /\ (IF HasBss(h, seg) THEN LoadsBss(g, h, seg) ELSE g = h) /\ w.st = g.st
  BY DEF Loads
<1>8. h.st # "corrupt"
  <2>1. v + f <= VM_USER_END
    BY <1>4, <1>5
  <2>2. Mapping(h, m.a, m.free, v, f, FileSize(seg), seg.rw, Word)
    BY <1>3, <1>7 DEF LoadsFile
  <2> QED
    BY <1>6, <2>1, <2>2
<1>9. ASSUME HasBss(h, seg) PROVE g.st # "corrupt"
  <2>1. PICK x \in Nat, y \in Nat : x = v + f /\ y = s - f
    BY <1>5
  <2>2. x + y <= VM_USER_END
    BY <1>5, <2>1
  <2>3. Mapping(g, h.a, h.free, x, y, BssSize(seg), seg.rw, Word)
    BY <1>3, <1>7, <1>9, <2>1 DEF LoadsBss
  <2> QED
    BY <1>6, <2>2, <2>3
<1> QED
  BY <1>7, <1>8, <1>9

LEMMA LoadBounded ==
    ASSUME NEW fr \in SUBSET (Frames \cup {0}), NEW prog \in Programs, NEW dst \in Space, NEW w,
           w = execve_space(dst, fr, prog)
    PROVE  w.st # "corrupt"
<1>1. prog \in Seq(Segment) /\ \A k \in 1..Len(prog) : Linked(prog[k])
  BY ProgramLinked
<1> DEFINE R == {m \in Results : m.st # "corrupt"}
           S == [k \in 0..Len(prog) |-> R]
<1>2. Chain(S, dst, fr, prog)
  <2>1. Result("ok", dst, fr, 0) \in R
    <3>1. PICK m : m = Result("ok", dst, fr, 0)
      OBVIOUS
    <3>2. m \in Results /\ m.st = "ok"
      BY <3>1, FirstResult
    <3> QED
      BY <3>1, <3>2
  <2>2. \A k \in 0..Len(prog) : S[k] = R
    OBVIOUS
  <2>3. 0 \in 0..Len(prog) /\ \A k \in 1..Len(prog) : k \in 0..Len(prog) /\ k - 1 \in 0..Len(prog)
    BY <1>1
  <2>4. \A x, m : \A k \in 1..Len(prog) : Loads(x, m, prog[k]) => x \in R
    <3> SUFFICES ASSUME NEW x, NEW m, NEW k \in 1..Len(prog), Loads(x, m, prog[k]) PROVE x \in R
      OBVIOUS
    <3>1. x.st # "corrupt"
      BY <1>1, LoadsBounded
    <3>2. x \in Results
      BY DEF Loads
    <3> QED
      BY <3>1, <3>2
  <2>5. R \subseteq Results
    OBVIOUS
  <2> HIDE DEF S, R
  <2> QED
    BY <2>1, <2>2, <2>3, <2>4, <2>5 DEF Chain
<1>3. Len(prog) \in 0..Len(prog)
  BY <1>1
<1>4. \A m \in S[Len(prog)] : m.st # "corrupt"
  BY <1>3
<1> HIDE DEF S, R
<1>5. PICK m \in S[Len(prog)] : Stacks(w, m)
  BY <1>1, <1>2, ExecveSpace
<1> QED
  BY <1>4, <1>5 DEF Stacks

LEMMA NewBounded ==
    ASSUME NEW prog \in Programs, NEW a, NEW old, NewSpace(a, prog, old)
    PROVE  a \in StackSpaces
<1>1. a \in Typed /\ Sorted(a.regs) /\ a.elf_end + PAGE_SIZE <= StackEnd /\ a.elf_end \in Nat
      /\ Listed(a.regs) = RegionsOf(prog, Len(prog)) \cup {StackRegion}
      /\ a.elf_end = SegEnd(prog[Len(prog)]) /\ InOrder(prog, Len(prog))
  BY SpaceIs DEF NewSpace, Typed
<1>2. StackEnd \in Nat /\ StackSize \in Nat /\ StackSize > 0 /\ StackEnd + StackSize = VM_USER_STACK
      /\ VM_USER_STACK <= VM_USER_END /\ VM_USER_END \in Nat /\ VM_USER_STACK \in Nat /\ PAGE_SIZE \in Nat
  BY Machine, StackIs
<1>3. StackRegion.addr = StackEnd /\ StackRegion.size = StackSize /\ End(StackRegion) = StackEnd + StackSize
  BY DEF StackRegion, End
<1>4. HasStack(a)
  BY <1>1, <1>2, <1>3 DEF HasStack
<1>5. ASSUME NEW r \in RegionsOf(prog, Len(prog)) PROVE End(r) <= VM_USER_END
  <2>1. r \in Region /\ End(r) <= a.elf_end
    BY <1>1, ProgramRegions
  <2>2. End(r) \in Nat
    BY <2>1, EndIsNat
  <2> QED
    BY <1>1, <1>2, <2>1, <2>2
<1>6. Bounded(a)
  <2>1. End(StackRegion) <= VM_USER_END
    BY <1>2, <1>3
  <2> QED
    BY <1>1, <1>5, <2>1 DEF Bounded
<1> QED
  BY <1>1, <1>4, <1>6 DEF StackSpaces

LEMMA BoundedKept == Keeps(StackSpaces, StackOdd)
<1>1. StackSpaces \subseteq Typed
  BY DEF StackSpaces
<1>2. ASSUME NEW a \in StackSpaces, NEW fr \in SUBSET (Frames \cup {0}), NEW dst, NEW m, Forking(m, a, dst, fr)
      PROVE  m.a \in StackSpaces
  <2>1. a \in Typed /\ Sorted(a.regs) /\ HasStack(a) /\ Bounded(a) /\ a.elf_end + PAGE_SIZE <= StackEnd
    BY DEF StackSpaces
  <2>2. m.a \in Typed /\ m.a.elf_end = a.elf_end /\ m.a.regs = a.regs
    <3>1. m.a.regs = a.regs
      BY <1>2 DEF Forking
    <3> QED
      BY <1>2, <2>1, <3>1, ForkTyped
  <2>3. HasStack(m.a) /\ Bounded(m.a)
    BY <2>1, <2>2 DEF HasStack, Bounded
  <2> QED
    BY <2>1, <2>2, <2>3 DEF StackSpaces
<1>3. ASSUME NEW fr \in SUBSET (Frames \cup {0}), NEW prog \in Programs, NEW dst, Blank(dst, StackOdd), NEW m,
             m = execve_space(dst, fr, prog), m.st = "ok"
      PROVE  m.a \in StackSpaces
  <2>1. dst \in Space /\ dst.regs = <<>>
    BY <1>3 DEF Blank
  <2>2. NewSpace(m.a, prog, dst.pt)
    BY <1>3, <2>1, LoadedSpace
  <2> QED
    BY <2>2, NewBounded
<1>4. ASSUME NEW a \in StackSpaces, NEW b, Retabled(a, b, StackOdd) PROVE b \in StackSpaces
  <2>1. a \in Typed /\ Sorted(a.regs) /\ HasStack(a) /\ Bounded(a) /\ a.elf_end + PAGE_SIZE <= StackEnd
    BY DEF StackSpaces
  <2>2. b \in Typed
    BY <1>4, <2>1, RetabledTyped
  <2>3. b.regs = a.regs /\ b.elf_end = a.elf_end
    BY <1>4 DEF Retabled, SameEnds
  <2> QED
    BY <2>1, <2>2, <2>3 DEF StackSpaces, HasStack, Bounded
<1> QED
  BY <1>1, <1>2, <1>3, <1>4, EvolveBounded DEF Keeps

KernelInv == odd \cap StackOdd = {} => AllIn(StackSpaces) /\ status # "corrupt"

LEMMA NextKernel ==
    ASSUME TypeInv, KernelInv, [Next]_vars
    PROVE  KernelInv'
<1>1. CASE UNCHANGED vars
  BY <1>1 DEF KernelInv, AllIn, Live, vars
<1>2. CASE Next
  <2>1. odd \subseteq odd' /\ status = "running" /\ free \in SUBSET (Frames \cup {0})
    BY <1>2, OddGrows DEF Next, TypeInv
  <2> SUFFICES ASSUME odd' \cap StackOdd = {} PROVE AllIn(StackSpaces)' /\ status' # "corrupt"
    BY DEF KernelInv
  <2>2. AllIn(StackSpaces)
    BY <2>1 DEF KernelInv
  <2>3. AllIn(StackSpaces)'
    BY <1>2, <2>2, BoundedKept, EachSpace
  <2>4. PICK t \in Live : Stepping(t)
    BY <1>2, NextSteps
  <2>5. as[t] \in StackSpaces
    BY <2>2 DEF AllIn
  <2>6. ASSUME NEW m, m.st # "corrupt", status' = Halt(m) PROVE status' # "corrupt"
    BY <2>1, <2>6 DEF Halt
  <2>7. ASSUME NEW b, NEW fr, NEW u, NEW m, NEW what, NEW d, EvolveStep(t, b, fr, u, m, what, d) PROVE status' # "corrupt"
    <3>1. /\ Prepared(as[t], free, b, fr, u) /\ Evolves(b, fr, m, what, d)
          /\ what \cap StackOdd = {} /\ u \cap StackOdd = {} /\ status' = Halt(m)
      BY <2>7 DEF EvolveStep
    <3>2. fr \in SUBSET (Frames \cup {0})
      BY <2>1, <3>1 DEF Prepared
    <3>3. b \in StackSpaces
      <4>1. Retabled(as[t], b, StackOdd)
        BY <3>1, PreparedIs
      <4> QED
        BY <2>5, <4>1, BoundedKept DEF Keeps
    <3>4. m.st # "corrupt"
      BY <3>1, <3>2, <3>3, EvolveBounded
    <3> QED
      BY <2>6, <3>1, <3>4
  <2>8. ASSUME NEW c \in Spaces, NEW dst, NEW fr, NEW u, NEW m, ForkStep(t, c, dst, fr, u, m) PROVE status' # "corrupt"
    <3>1. m.st # "corrupt" /\ status' = Halt(m)
      BY <2>8 DEF ForkStep, Forking
    <3> QED
      BY <2>6, <3>1
  <2>9. ASSUME NEW prog \in Programs, NEW dst, NEW fr, NEW u, NEW m, ExecveStep(t, prog, dst, fr, u, m) PROVE status' # "corrupt"
    <3>1. status' = Halt(m)
      BY <2>9 DEF ExecveStep
    <3>2. m.st # "corrupt"
      <4>1. CASE m.st = "panic"
        BY <4>1
      <4>2. CASE Started(dst, free, fr, u) /\ m = execve_space(dst, fr, prog)
        <5>1. dst \in Space /\ fr \in SUBSET (Frames \cup {0})
          BY <2>1, <4>2 DEF Started
        <5> QED
          BY <4>2, <5>1, LoadBounded
      <4> QED
        BY <2>9, <4>1, <4>2 DEF ExecveStep
    <3> QED
      BY <2>6, <3>1, <3>2
  <2>10. ASSUME exit(t) PROVE status' # "corrupt"
    BY <2>1, <2>10 DEF exit
  <2>11. ASSUME NEW addr, NEW write, NEW junk, AccessStep(t, addr, write, junk) PROVE status' # "corrupt"
    BY <2>1, <2>11 DEF AccessStep
  <2> QED
    BY <2>3, <2>4, <2>7, <2>8, <2>9, <2>10, <2>11 DEF Stepping, Evolution
<1> QED
  BY <1>1, <1>2

(* No operation of a program reaches the kernel's half of the address space, as
   long as no mapping goes over the end of the machine's addresses or begins
   inside a page, munmap is used for single pages and the heap is in its place:
   the stack's region stands between the heap and the kernel, so vmm_set_brk
   never falls through to its shrinking code. *)
THEOREM KernelNeverTouched == Spec => []KernelUntouched
<1> DEFINE Inv == TypeInv /\ AllIn(Typed) /\ KernelInv
<1>1. Init => Inv
  <2>1. Init => status = "running"
    BY DEF Init
  <2>2. Init => KernelInv
    BY <2>1, FirstSpace, BoundedKept DEF KernelInv
  <2> QED
    BY <2>2, InitType, TypeFirst
<1>2. Inv /\ [Next]_vars => Inv'
  BY NextType, NextKernel
<1>3. Inv => KernelUntouched
  BY DEF KernelInv, KernelUntouched, StackOdd
<1> QED
  BY <1>1, <1>2, <1>3, PTL DEF Spec
-----------------------------------------------------------------------------
(* fork copies every page *)

LEMMA Multiples ==
    ASSUME NEW x \in Int, NEW y \in Int, NEW d \in Nat, d > 0, x % d = 0, y % d = 0
    PROVE  (x + y) % d = 0 /\ (x - y) % d = 0
<1>1. PICK p \in Int : x = d * p
  BY Multiple
<1>2. PICK q \in Int : y = d * q
  BY Multiple
<1>3. d * p + d * q = d * (p + q) /\ d * p - d * q = d * (p - q) /\ p + q \in Int /\ p - q \in Int
  OBVIOUS
<1>4. PICK s \in Int, t \in Int : s = x + y /\ t = x - y
  OBVIOUS
<1>5. s = d * (p + q) /\ t = d * (p - q)
  BY <1>1, <1>2, <1>3, <1>4
<1>6. s % d = 0 /\ t % d = 0
  BY <1>3, <1>5, Multiple
<1> QED
  BY <1>4, <1>6

LEMMA MultipleOf ==
    ASSUME NEW x \in Int, NEW d \in Nat, d > 0, x % d = 0, d % PAGE_SIZE = 0
    PROVE  x % PAGE_SIZE = 0
<1>0. PAGE_SIZE \in Nat /\ PAGE_SIZE > 0 /\ d \in Int
  BY Machine
<1>1. PICK p \in Int : x = d * p
  BY Multiple
<1>2. PICK q \in Int : d = PAGE_SIZE * q
  BY <1>0, Multiple
<1>3. (PAGE_SIZE * q) * p = PAGE_SIZE * (q * p) /\ q * p \in Int
  BY <1>0
<1>4. x = PAGE_SIZE * (q * p)
  BY <1>1, <1>2, <1>3
<1> QED
  BY <1>0, <1>3, <1>4, Multiple

(* The walk over a region visits all its pages, except for the last one when
   neither the beginning nor the end is at a page. *)
LEMMA WalkVisits ==
    ASSUME NEW r \in Region, NEW p \in PagesOf(r.addr, r.size)
    PROVE  \/ p \in Steps(r)
           \/ r.addr % PAGE_SIZE # 0 /\ End(r) % PAGE_SIZE # 0 /\ p = Page(End(r))
<1>0. PAGE_SIZE \in Nat /\ PAGE_SIZE > 0
  BY Machine
<1>1. PICK s \in Nat, n \in Nat : s = r.addr /\ n = r.size /\ End(r) = s + n
  BY EndIsNat
<1>2. n # 0
  BY <1>1 DEF PagesOf
<1>3. PICK y \in Nat : y = s + n - 1
  BY <1>2
<1>4. p \in Page(s)..Page(y)
  BY <1>1, <1>2, <1>3 DEF PagesOf
<1>5. PICK u \in Nat : u = Page(s) /\ PAGE_SIZE * u <= s /\ s < PAGE_SIZE * u + PAGE_SIZE
  BY PageIs
<1>6. PICK v \in Nat : v = Page(y) /\ PAGE_SIZE * v <= y /\ y < PAGE_SIZE * v + PAGE_SIZE
  BY PageIs
<1>7. p \in Nat /\ u <= p /\ p <= v
  BY <1>4, <1>5, <1>6
<1>8. PICK k \in Nat : k = p - u
  BY <1>7
<1>9. PICK w \in Nat : w = k * PAGE_SIZE
  BY <1>0
<1>10. PICK x \in Nat : x = s + w
  OBVIOUS
<1>11. w = PAGE_SIZE * p - PAGE_SIZE * u /\ k <= w
  <2>1. k * PAGE_SIZE = PAGE_SIZE * p - PAGE_SIZE * u
    BY <1>0, <1>7, <1>8
  <2>2. k <= k * PAGE_SIZE
    BY <1>0
  <2> QED
    BY <1>9, <2>1, <2>2
<1>12. PICK a \in Nat, b \in Nat : a = PAGE_SIZE * p /\ b = PAGE_SIZE * u
  BY <1>0, <1>7
<1>13. a <= x /\ x < a + PAGE_SIZE /\ x - a = s - b
  BY <1>0, <1>5, <1>10, <1>11, <1>12
<1>14. Page(x) = p
  BY <1>7, <1>12, <1>13, PageIs
<1>15. CASE x < s + n
  <2>1. k \in 0..n
    BY <1>10, <1>11, <1>15
  <2>2. x \in {s + j * PAGE_SIZE : j \in 0..n}
    BY <1>9, <1>10, <2>1
  <2>3. x \in s..((s + n) - 1)
    BY <1>10, <1>15
  <2> QED
    BY <1>1, <1>14, <2>2, <2>3 DEF Steps
<1>16. CASE ~(x < s + n)
  <2>1. PAGE_SIZE * p <= PAGE_SIZE * v
    BY <1>0, <1>6, <1>7
  <2>2. PICK c \in Nat : c = PAGE_SIZE * v
    BY <1>0, <1>6
  <2>3. a <= y
    BY <1>6, <1>12, <2>1, <2>2
  <2>4. PICK e \in Nat : e = s + n
    OBVIOUS
  <2>5. a < e /\ e < a + PAGE_SIZE
    BY <1>0, <1>2, <1>3, <1>13, <1>16, <2>3, <2>4
  <2>6. Page(e) = p
    BY <1>7, <1>12, <2>5, PageIs
  <2>7. e % PAGE_SIZE = e - PAGE_SIZE * p
    BY <1>0, <1>7, <1>12, <2>5, DivIs
  <2>8. s % PAGE_SIZE = s - PAGE_SIZE * u
    <3>1. PAGE_SIZE * u <= s /\ s < PAGE_SIZE * u + PAGE_SIZE /\ s \in Int /\ u \in Int
      BY <1>5
    <3> QED
      BY <1>0, <3>1, DivIs, Zenon
  <2>9. e % PAGE_SIZE # 0
    BY <1>12, <2>5, <2>7
  <2>10. s % PAGE_SIZE # 0
    BY <1>0, <1>3, <1>12, <1>13, <1>16, <2>3, <2>8
  <2> QED
    BY <1>1, <2>4, <2>6, <2>9, <2>10
<1> QED
  BY <1>15, <1>16

(* Regions that begin inside a page are the program's: they end at a page, have
   the size of whole pages, or another region begins where they end. *)
Joined(regs, r) == \E q \in Listed(regs) : q.size > 0 /\ q.addr = End(r)
Shaped(a, r) ==
    \/ r.addr % PAGE_SIZE = 0
    \/ /\ End(r) <= a.elf_end
       /\ r.size % PAGE_SIZE = 0 \/ End(r) % PAGE_SIZE = 0 \/ Joined(a.regs, r)
ShapedSpaces == {a \in SortedSpaces : a.elf_end % PAGE_SIZE = 0 /\ \A r \in Listed(a.regs) : Shaped(a, r)}
ShapeOdd == {"unaligned address", "odd munmap", "lost heap"}

(* The walks over all regions visit every page of a region. *)
LEMMA AllVisited ==
    ASSUME NEW a \in ShapedSpaces, NEW r \in Listed(a.regs), r.addr % PAGE_SIZE = 0 \/ r.size % PAGE_SIZE # 0,
           NEW p \in PagesOf(r.addr, r.size)
    PROVE  Walked(a, p)
<1>1. a.regs \in Seq(Region) /\ Shaped(a, r)
  BY SpaceIs DEF ShapedSpaces, SortedSpaces, Typed
<1>2. r \in Region
  BY <1>1, ListedIs
<1>3. ASSUME NEW q \in Listed(a.regs), p \in Steps(q) PROVE Walked(a, p)
  BY <1>1, <1>3, ListedIs DEF Walked
<1>4. CASE p \in Steps(r)
  BY <1>3, <1>4
<1>5. CASE r.addr % PAGE_SIZE # 0 /\ End(r) % PAGE_SIZE # 0 /\ p = Page(End(r))
  <2>1. Joined(a.regs, r)
    BY <1>1, <1>5 DEF Shaped
  <2>2. PICK q \in Listed(a.regs) : q.size > 0 /\ q.addr = End(r)
    BY <2>1 DEF Joined
  <2>3. q \in Region
    BY <1>1, ListedIs
  <2>4. PICK s \in Nat, n \in Nat : s = q.addr /\ n = q.size /\ End(q) = s + n /\ n > 0
    BY <2>2, <2>3, EndIsNat
  <2>5. s = s + 0 * PAGE_SIZE /\ 0 \in 0..n /\ s \in s..((s + n) - 1)
    BY <2>4, Machine
  <2>6. s \in {s + k * PAGE_SIZE : k \in 0..n}
    BY <2>5
  <2>7. Page(s) \in Steps(q)
    BY <2>4, <2>5, <2>6 DEF Steps
  <2> QED
    BY <1>3, <1>5, <2>2, <2>4, <2>7
<1> QED
  BY <1>2, <1>4, <1>5, WalkVisits

LEMMA ShapedIs ==
    ASSUME NEW a \in ShapedSpaces
    PROVE  /\ a \in SortedSpaces /\ a \in Typed /\ Sorted(a.regs) /\ a \in Space /\ a.regs \in Seq(Region)
           /\ a.elf_end \in Nat /\ a.data_end \in Nat /\ a.elf_end <= a.data_end /\ a.stack_end = StackEnd
           /\ a.elf_end % PAGE_SIZE = 0 /\ \A r \in Listed(a.regs) : Shaped(a, r)
BY SpaceIs DEF ShapedSpaces, SortedSpaces, Typed

LEMMA ShapedMore ==
    ASSUME NEW a, NEW b, b.elf_end = a.elf_end, Listed(a.regs) \subseteq Listed(b.regs), NEW r, Shaped(a, r)
    PROVE  Shaped(b, r)
BY DEF Shaped, Joined

(* The areas that mmap finds begin at a page. *)
LEMMA FoundAligned ==
    ASSUME NEW a \in ShapedSpaces, NEW size \in Nat, size # 0, size + PAGE_SIZE <= Word,
           NEW n, n = aligned_size(0, size, PAGE_SIZE),
           NEW addr \in Nat, addr = _find_free_area(a, n), addr + size <= VM_USER_END
    PROVE  addr % PAGE_SIZE = 0
<1>1. /\ a \in Space /\ a.regs \in Seq(Region) /\ a.elf_end \in Nat /\ a.data_end \in Nat /\ a.elf_end <= a.data_end
      /\ a.stack_end = StackEnd /\ \A r \in Listed(a.regs) : Shaped(a, r)
  BY ShapedIs
<1>2. PAGE_SIZE \in Nat /\ PAGE_SIZE > 0 /\ Word \in Nat /\ VM_USER_END \in Nat /\ VM_USER_END + PAGE_SIZE <= Word
  BY Machine
<1>3. StackEnd \in Nat /\ StackEnd >= PAGE_SIZE
  BY StackIs
<1>4. 0 \in Nat /\ 0 % PAGE_SIZE = 0 /\ PAGE_SIZE % PAGE_SIZE = 0
  <2>1. 0 \in Int /\ PAGE_SIZE \in Int /\ 1 \in Int /\ 0 = PAGE_SIZE * 0 /\ PAGE_SIZE = PAGE_SIZE * 1
    BY <1>2
  <2> QED
    BY <1>2, <2>1, Multiple
<1>5. n \in Nat /\ n < size + PAGE_SIZE /\ n = RoundUp(size, PAGE_SIZE)
  BY <1>2, <1>4, AlignedSize
<1>6. n % PAGE_SIZE = 0
  BY <1>2, <1>5, RoundUpIs
<1>7. StackEnd % PAGE_SIZE = 0
  <2>1. VM_USER_STACK \in Int /\ StackSize \in Int /\ VM_USER_STACK % PAGE_SIZE = 0 /\ StackSize % PAGE_SIZE = 0
    BY VmmAssumption
  <2> QED
    BY <1>2, <2>1, Multiples DEF StackEnd
<1> DEFINE I == {x \in Int : x + n >= 0 /\ x % PAGE_SIZE = 0}
<1>8. a.stack_end - PAGE_SIZE - n \in I
  <2>1. PICK y \in Int : y = StackEnd - PAGE_SIZE /\ y >= 0
    BY <1>2, <1>3
  <2>2. y % PAGE_SIZE = 0
    <3>1. PICK u \in Int, v \in Int : u = StackEnd /\ v = PAGE_SIZE
      BY <1>2, <1>3
    <3>2. u % PAGE_SIZE = 0 /\ v % PAGE_SIZE = 0 /\ y = u - v
      BY <1>4, <1>7, <2>1, <3>1
    <3> QED
      BY <1>2, <3>2, Multiples
  <2>3. PICK x \in Int : x = y - n
    BY <1>5
  <2>4. x % PAGE_SIZE = 0
    BY <1>2, <1>5, <1>6, <2>2, <2>3, Multiples
  <2>5. x + n >= 0
    BY <1>5, <2>1, <2>3
  <2> QED
    BY <1>1, <2>1, <2>3, <2>4, <2>5
<1>9. ASSUME NEW x \in I PROVE search_round(a, n, x) \in I
  <2>1. x \in Int /\ x + n >= 0 /\ x % PAGE_SIZE = 0
    OBVIOUS
  <2>2. PICK y : y = search_round(a, n, x)
    OBVIOUS
  <2>3. \/ y = x
        \/ x >= a.data_end + PAGE_SIZE /\ y = x - n
        \/ x >= a.data_end + PAGE_SIZE /\ \E r \in Listed(a.regs) : Touches(r, x) /\ y = r.addr - n
    BY <1>1, <1>5, <2>1, <2>2, SearchRound
  <2>4. ASSUME NEW z \in Int, z >= 0, z % PAGE_SIZE = 0, y = z - n PROVE y \in I
    <3>1. PICK w \in Int : w = z - n
      BY <1>5, <2>4
    <3>2. w % PAGE_SIZE = 0
      BY <1>2, <1>5, <1>6, <2>4, <3>1, Multiples
    <3>3. w + n >= 0
      BY <1>5, <2>4, <3>1
    <3> QED
      BY <2>4, <3>1, <3>2, <3>3
  <2>5. CASE x >= a.data_end + PAGE_SIZE /\ y = x - n
    <3>1. x >= 0
      BY <1>1, <1>2, <2>1, <2>5
    <3> QED
      BY <2>1, <2>2, <2>4, <2>5, <3>1
  <2>6. CASE x >= a.data_end + PAGE_SIZE /\ \E r \in Listed(a.regs) : Touches(r, x) /\ y = r.addr - n
    <3>1. PICK r \in Listed(a.regs) : Touches(r, x) /\ y = r.addr - n
      BY <2>6
    <3>2. r \in Region /\ Shaped(a, r)
      BY <1>1, ListedIs
    <3>3. r.addr \in Nat /\ End(r) \in Nat
      BY <3>2, EndIsNat, Zenon
    <3>4. x <= End(r)
      BY <3>1 DEF Touches
    <3>5. ~(End(r) <= a.elf_end)
      BY <1>1, <1>2, <2>1, <2>6, <3>3, <3>4
    <3>6. r.addr % PAGE_SIZE = 0
      BY <3>2, <3>5 DEF Shaped
    <3>7. r.addr \in Int /\ r.addr >= 0
      BY <3>3
    <3> QED
      BY <2>2, <2>4, <3>1, <3>6, <3>7
  <2> QED
    BY <2>2, <2>3, <2>5, <2>6
<1>10. PICK x \in I : FoundAt(a, x, _find_free_area(a, n))
  <2> HIDE DEF I
  <2> QED
    BY <1>8, <1>9, FindFree
<1>11. x \in Int /\ x + n >= 0 /\ x % PAGE_SIZE = 0
  OBVIOUS
<1>12. addr = IF x < 0 THEN (x + Word) % Word ELSE IF x < a.data_end + PAGE_SIZE THEN 0 ELSE x
  BY <1>10 DEF FoundAt
<1>13. ~(x < 0)
  <2> SUFFICES ASSUME x < 0 PROVE FALSE
    OBVIOUS
  <2>1. x + Word \in Int /\ Word * 0 <= x + Word /\ x + Word < Word * 0 + Word
    BY <1>2, <1>5, <1>11
  <2>2. (x + Word) % Word = x + Word - Word * 0
    BY <1>2, <2>1, DivIs
  <2>3. addr = x + Word
    BY <1>2, <1>11, <1>12, <2>2
  <2> QED
    BY <1>2, <1>5, <1>11, <2>3
<1> QED
  BY <1>4, <1>11, <1>12, <1>13

MoreAligned(a, b) ==
    /\ Listed(a.regs) \subseteq Listed(b.regs)
    /\ \A r \in Listed(b.regs) : r \in Listed(a.regs) \/ r.addr % PAGE_SIZE = 0

LEMMA MmapShaped ==
    ASSUME NEW a \in ShapedSpaces, NEW fr, NEW m, NEW what, NEW hint \in Nat, NEW size \in Nat, NEW avail, NEW rw,
           Mmaps(a, fr, m, what, hint, size, rw, avail), what \cap ShapeOdd = {}
    PROVE  m.a.elf_end = a.elf_end /\ MoreAligned(a, m.a)
<1>1. a.regs \in Seq(Region)
  BY ShapedIs
<1>2. PICK addr, n : addr = mmap_address(a, hint, size) /\ n = aligned_size(hint, size, PAGE_SIZE)
  OBVIOUS
<1>3. Mapping(m, a, fr, addr, size, n, rw, avail) /\ addr \in Nat /\ n \in Nat /\ rw \in BOOLEAN /\ size + PAGE_SIZE <= Word
  BY <1>2 DEF Mmaps
<1>4. hint % PAGE_SIZE = 0
  BY DEF Mmaps, MmapOdd, ShapeOdd
<1>5. m.a.elf_end = a.elf_end
  BY <1>3 DEF Mapping, SameEnds
<1>6. CASE m.st # "ok"
  BY <1>3, <1>5, <1>6 DEF Mapping, MoreAligned
<1>7. CASE m.st = "ok"
  <2>1. size # 0 /\ PagesOf(addr, size) \subseteq UserPages
    BY <1>3, <1>7 DEF Mapping
  <2>2. addr + size <= VM_USER_END
    BY <1>3, <2>1, AreaBelow
  <2>3. addr % PAGE_SIZE = 0
    <3>1. CASE hint = 0
      <4>1. n = aligned_size(0, size, PAGE_SIZE) /\ addr = _find_free_area(a, n)
        BY <1>2, <3>1 DEF mmap_address
      <4> QED
        BY <1>3, <2>1, <2>2, <4>1, FoundAligned
    <3>2. CASE hint # 0
      BY <1>2, <1>4, <3>2 DEF mmap_address
    <3> QED
      BY <3>1, <3>2
  <2>4. PICK r : r = [addr |-> addr, size |-> n, rw |-> rw]
    OBVIOUS
  <2>5. r \in Region /\ r.addr = addr /\ m.a.regs = _insert_region(a.regs, r)
    BY <1>3, <1>7, <2>4 DEF Mapping, Region
  <2>6. Listed(a.regs) \subseteq Listed(m.a.regs) /\ Listed(m.a.regs) \subseteq Listed(a.regs) \cup {r}
    BY <1>1, <2>5, InsertRegion
  <2> QED
    BY <1>5, <2>3, <2>5, <2>6 DEF MoreAligned
<1> QED
  BY <1>6, <1>7

(* The heap's region begins at a page. *)
LEMMA EvolveShaped ==
    ASSUME NEW a \in ShapedSpaces, NEW fr \in SUBSET (Frames \cup {0}), NEW m, NEW what, NEW d, Evolves(a, fr, m, what, d),
           what \cap ShapeOdd = {}
    PROVE  m.a \in ShapedSpaces
<1>1. /\ a \in SortedSpaces /\ a \in Typed /\ Sorted(a.regs) /\ a \in Space /\ a.regs \in Seq(Region)
      /\ a.elf_end % PAGE_SIZE = 0 /\ \A r \in Listed(a.regs) : Shaped(a, r)
  BY ShapedIs
<1>2. m.a \in SortedSpaces /\ m.a.elf_end = a.elf_end
  <2>1. "lost heap" \notin what
    BY DEF ShapeOdd
  <2> QED
    BY <1>1, <2>1, EvolveSorted, EvolveTyped
<1>3. ASSUME Listed(a.regs) \subseteq Listed(m.a.regs), \A r \in Listed(m.a.regs) : r \in Listed(a.regs) \/ r.addr % PAGE_SIZE = 0
      PROVE  \A r \in Listed(m.a.regs) : Shaped(m.a, r)
  <2> SUFFICES ASSUME NEW r \in Listed(m.a.regs) PROVE Shaped(m.a, r)
    OBVIOUS
  <2>1. CASE r \in Listed(a.regs)
    BY <1>1, <1>2, <1>3, <2>1, ShapedMore
  <2>2. CASE r.addr % PAGE_SIZE = 0
    BY <2>2 DEF Shaped
  <2> QED
    BY <1>3, <2>1, <2>2
<1>4. ASSUME NEW hint \in Nat, NEW size \in Nat, NEW avail \in Nat, NEW rw, Mmaps(a, fr, m, what, hint, size, rw, avail)
      PROVE  \A r \in Listed(m.a.regs) : Shaped(m.a, r)
  <2>1. MoreAligned(a, m.a)
    BY <1>4, MmapShaped
  <2> QED
    BY <1>3, <2>1 DEF MoreAligned
<1>5. ASSUME NEW s, s \in Region, s \in Listed(a.regs), s.addr % PAGE_SIZE = 0,
             \A r \in Listed(a.regs) : r.size > 0 => r.addr = s.addr \/ r \in Listed(m.a.regs),
             NEW r \in Listed(a.regs)
      PROVE  Shaped(m.a, r)
  <2>1. Shaped(a, r)
    BY <1>1
  <2>2. CASE r.addr % PAGE_SIZE = 0
    BY <2>2 DEF Shaped
  <2>3. CASE End(r) <= a.elf_end /\ (r.size % PAGE_SIZE = 0 \/ End(r) % PAGE_SIZE = 0)
    BY <1>2, <2>3 DEF Shaped
  <2>4. CASE End(r) <= a.elf_end /\ Joined(a.regs, r)
    <3>1. PICK q \in Listed(a.regs) : q.size > 0 /\ q.addr = End(r)
      BY <2>4 DEF Joined
    <3>2. CASE q.addr = s.addr
      BY <1>2, <1>5, <2>4, <3>1, <3>2 DEF Shaped
    <3>3. CASE q \in Listed(m.a.regs)
      BY <1>2, <2>4, <3>1, <3>3 DEF Shaped, Joined
    <3> QED
      BY <1>5, <3>1, <3>2, <3>3
  <2> QED
    BY <2>1, <2>2, <2>3, <2>4 DEF Shaped
<1>6. ASSUME NEW addr \in UserAddresses, NEW i \in Nat, Munmaps(a, fr, m, what, addr, i)
      PROVE  \A r \in Listed(m.a.regs) : Shaped(m.a, r)
  <2>1. i = _find_region(a, addr) /\ i # 0 /\ Unmapping(m, a, fr, i) /\ "odd munmap" \notin MunmapOdd(a, addr, i)
    BY <1>6 DEF Munmaps, ShapeOdd
  <2>2. i \in 1..Len(a.regs) /\ a.regs[i] \in Region /\ a.regs[i] \in Listed(a.regs)
    BY <1>1, <2>1, FindRegion
  <2>3. a.regs[i].size = PAGE_SIZE /\ a.regs[i].addr % PAGE_SIZE = 0
    BY <2>1 DEF MunmapOdd
  <2>4. CASE m.st # "ok"
    BY <1>1, <2>1, <2>4 DEF Unmapping
  <2>5. CASE m.st = "ok"
    <3>1. m.a.regs = _remove_region(a.regs, i)
      BY <2>1, <2>5 DEF Unmapping
    <3>2. Listed(m.a.regs) \subseteq Listed(a.regs)
      BY <1>1, <2>2, <3>1, RemoveRegion
    <3>3. a.regs[i].size > 0
      BY <2>3, Machine
    <3>4. \A r \in Listed(a.regs) : r.size > 0 => r.addr = a.regs[i].addr \/ r \in Listed(m.a.regs)
      BY <1>1, <2>2, <3>1, <3>3, RemoveKeeps
    <3> QED
      BY <1>5, <2>2, <2>3, <3>2, <3>4
  <2> QED
    BY <2>4, <2>5
<1>7. ASSUME NEW addr \in Nat, Brks(a, fr, m, what, addr) PROVE \A r \in Listed(m.a.regs) : Shaped(m.a, r)
  <2>1. PICK i : i = _find_region(a, a.elf_end + 1)
    OBVIOUS
  <2>2. Breaking(m, a, fr, i, addr) /\ HasHeap(a)
    BY <1>7, <2>1 DEF Brks, BrkOdd, ShapeOdd
  <2>3. CASE m.st # "ok"
    BY <1>1, <2>2, <2>3 DEF Breaking
  <2>4. CASE m.st = "ok"
    <3>1. Moves(a, m.a, i, addr)
      BY <2>2, <2>4 DEF Breaking
    <3>2. ASSUME NEW r \in Region, BrkFirst(a, m.a, addr, r) PROVE \A q \in Listed(m.a.regs) : Shaped(m.a, q)
      <4>1. r.addr = a.elf_end /\ m.a.regs = _insert_region(a.regs, r)
        BY <3>2 DEF BrkFirst
      <4>2. Listed(a.regs) \subseteq Listed(m.a.regs) /\ Listed(m.a.regs) \subseteq Listed(a.regs) \cup {r}
        BY <1>1, <4>1, InsertRegion
      <4> QED
        BY <1>1, <1>3, <4>1, <4>2
    <3>3. ASSUME BrkWithin(a, m.a, i, addr) PROVE \A q \in Listed(m.a.regs) : Shaped(m.a, q)
      <4>1. m.a.regs = a.regs
        BY <3>3 DEF BrkWithin
      <4> QED
        BY <1>3, <4>1
    <3>4. ASSUME a.data_end # a.elf_end, NEW n \in Nat, m.a.regs = Resized(a.regs, i, n)
          PROVE  \A q \in Listed(m.a.regs) : Shaped(m.a, q)
      <4>1. i \in 1..Len(a.regs) /\ HeapRegion(a, i)
        BY <1>1, <2>1, <2>2, <3>4, HeapIsFound
      <4>2. a.regs[i] \in Region /\ a.regs[i] \in Listed(a.regs)
        BY <1>1, <4>1, ListedIs
      <4>3. a.regs[i].addr % PAGE_SIZE = 0
        BY <1>1, <4>1 DEF HeapRegion
      <4>4. PICK r : r = m.a.regs[i]
        OBVIOUS
      <4>5. r.addr = a.regs[i].addr
        BY <1>1, <3>4, <4>1, <4>4, ResizedIs
      <4>6. /\ \A q \in Listed(m.a.regs) : q = r \/ q \in Listed(a.regs)
            /\ \A q \in Listed(a.regs) : q = a.regs[i] \/ q \in Listed(m.a.regs)
        BY <1>1, <3>4, <4>1, <4>4, ResizedListed
      <4>7. Shaped(m.a, r)
        BY <4>3, <4>5 DEF Shaped
      <4>8. ASSUME NEW q \in Listed(a.regs) PROVE Shaped(m.a, q)
        BY <1>5, <4>2, <4>3, <4>6
      <4> QED
        BY <4>6, <4>7, <4>8
    <3>5. ASSUME a.data_end # a.elf_end, NEW n \in Nat, BrkGrow(a, m.a, i, addr, n)
          PROVE  \A q \in Listed(m.a.regs) : Shaped(m.a, q)
      <4>1. i \in 1..Len(a.regs) /\ m.a.regs = Resized(a.regs, i, a.regs[i].size + n)
        BY <1>1, <2>1, <2>2, <3>5, HeapIsFound DEF BrkGrow
      <4>2. a.regs[i] \in Region
        BY <1>1, <4>1
      <4>3. a.regs[i].size + n \in Nat
        BY <4>2, EndIsNat
      <4> QED
        BY <3>4, <3>5, <4>1, <4>3
    <3>6. ASSUME a.data_end # a.elf_end, NEW n \in Nat, NEW ctr \in Nat, BrkShrink(a, m.a, i, addr, ctr, n)
          PROVE  \A q \in Listed(m.a.regs) : Shaped(m.a, q)
      BY <3>4, <3>6 DEF BrkShrink
    <3> QED
      BY <3>1, <3>2, <3>3, <3>5, <3>6 DEF Moves
  <2> QED
    BY <2>3, <2>4
<1>8. ASSUME NEW addr, NEW i, Accesses(a, fr, m, addr, i) PROVE \A r \in Listed(m.a.regs) : Shaped(m.a, r)
  <2>1. m.a.regs = a.regs
    BY <1>8 DEF Accesses
  <2> QED
    BY <1>3, <2>1
<1>9. \A r \in Listed(m.a.regs) : Shaped(m.a, r)
  BY <1>4, <1>6, <1>7, <1>8, Zenon DEF Evolves
<1> QED
  BY <1>1, <1>2, <1>9 DEF ShapedSpaces

(* The regions of a segment. *)
LEMMA SegmentShaped ==
    ASSUME NEW seg, Linked(seg), NEW r \in SegRegions(seg)
    PROVE  \/ r.size % PAGE_SIZE = 0 \/ End(r) % PAGE_SIZE = 0
           \/ \E q \in SegRegions(seg) : q.size > 0 /\ q.addr = End(r)
<1>1. seg \in Segment /\ seg.filesz <= seg.memsz /\ seg.align % PAGE_SIZE = 0
  BY DEF Linked
<1>2. seg.vaddr \in Nat /\ seg.filesz \in Nat /\ seg.memsz \in Nat /\ seg.align \in Nat /\ seg.align > 0
  BY <1>1, SegmentIs
<1>3. PICK v \in Nat, f \in Nat, s \in Nat, d \in Nat : v = seg.vaddr /\ f = seg.filesz /\ s = seg.memsz /\ d = seg.align
  BY <1>2
<1>4. f <= s /\ d > 0 /\ d % PAGE_SIZE = 0
  BY <1>1, <1>2, <1>3
<1>5. ASSUME NEW x \in Nat, NEW y \in Nat, NEW n \in Nat, n = aligned_size(x, y, d)
      PROVE  n % PAGE_SIZE = 0 \/ (x + n) % PAGE_SIZE = 0
  <2>1. CASE y % d = 0
    <3>1. n = y /\ n \in Int /\ n % d = 0
      BY <1>4, <1>5, <2>1, AlignedEnd
    <3>2. n % PAGE_SIZE = 0
      BY <1>4, <3>1, MultipleOf
    <3> QED
      BY <3>2
  <2>2. CASE y % d # 0
    <3>1. PICK e \in Int : e = x + n
      OBVIOUS
    <3>2. e % d = 0
      BY <1>4, <1>5, <2>2, <3>1, AlignedEnd
    <3>3. e % PAGE_SIZE = 0
      BY <1>4, <3>2, MultipleOf
    <3> QED
      BY <3>1, <3>3
  <2> QED
    BY <2>1, <2>2
<1>6. CASE r = FileRegion(seg) /\ f # 0
  <2>1. PICK n \in Nat : n = FileSize(seg) /\ (s > f => n = f)
    BY <1>1, <1>3, SegmentSizes
  <2>2. r.addr = v /\ r.size = n /\ End(r) = v + n
    BY <1>3, <1>6, <2>1 DEF FileRegion, End
  <2>3. CASE s > f
    <3>1. BssRegion(seg) \in SegRegions(seg)
      BY <1>3, <2>3 DEF SegRegions
    <3>2. BssRegion(seg).addr = v + f /\ BssRegion(seg).size > 0
      BY <1>3, <3>1, SegmentRegions DEF BssRegion
    <3> QED
      BY <2>1, <2>2, <2>3, <3>1, <3>2
  <2>4. CASE ~(s > f)
    <3>1. n = aligned_size(v, f, d)
      BY <1>3, <2>1, <2>4 DEF FileSize, FileUnit
    <3> QED
      BY <1>5, <2>2, <3>1
  <2> QED
    BY <2>3, <2>4
<1>7. CASE r = BssRegion(seg) /\ s > f
  <2>1. PICK x \in Nat, y \in Nat : x = v + f /\ y = s - f
    BY <1>7
  <2>2. PICK n \in Nat : n = BssSize(seg)
    BY <1>1, <1>3, <1>7, SegmentSizes
  <2>3. r.addr = x /\ r.size = n /\ End(r) = x + n
    BY <1>3, <1>7, <2>1, <2>2 DEF BssRegion, End
  <2>4. n = aligned_size(x, y, d)
    BY <1>3, <2>1, <2>2 DEF BssSize
  <2> QED
    BY <1>5, <2>3, <2>4
<1>8. (r = FileRegion(seg) /\ f # 0) \/ (r = BssRegion(seg) /\ s > f)
  BY <1>3 DEF SegRegions
<1> QED
  BY <1>6, <1>7, <1>8

(* The program and its heap's beginning. *)
LEMMA NewShaped ==
    ASSUME NEW prog \in Programs, NEW a, NEW old, NewSpace(a, prog, old)
    PROVE  a \in ShapedSpaces
<1>1. /\ a \in Typed /\ Sorted(a.regs) /\ a.elf_end \in Nat /\ InOrder(prog, Len(prog))
      /\ Listed(a.regs) = RegionsOf(prog, Len(prog)) \cup {StackRegion} /\ a.elf_end = SegEnd(prog[Len(prog)])
  BY SpaceIs DEF NewSpace, Typed
<1>2. Len(prog) \in 1..Len(prog) /\ \A k \in 1..Len(prog) : Linked(prog[k])
  BY ProgramLinked
<1>3. a.elf_end % PAGE_SIZE = 0
  <2>1. PICK seg : seg = prog[Len(prog)] /\ Linked(seg)
    BY <1>2
  <2>2. seg \in Segment /\ seg.align % PAGE_SIZE = 0
    BY <2>1 DEF Linked
  <2>3. PICK d \in Nat, x \in Nat : d = seg.align /\ d > 0 /\ x = seg.vaddr + seg.memsz
    BY <2>2, SegmentIs
  <2>4. PICK e \in Nat : e = RoundUp(x, d) /\ e % d = 0
    BY <2>3, RoundUpIs
  <2>a. e \in Int
    OBVIOUS
  <2>5. e % PAGE_SIZE = 0
    BY <2>2, <2>3, <2>4, <2>a, MultipleOf
  <2> QED
    BY <1>1, <2>1, <2>3, <2>4, <2>5 DEF SegEnd
<1>4. Shaped(a, StackRegion)
  <2>1. StackEnd % PAGE_SIZE = 0
    <3>1. VM_USER_STACK \in Int /\ StackSize \in Int /\ VM_USER_STACK % PAGE_SIZE = 0 /\ StackSize % PAGE_SIZE = 0
      BY VmmAssumption
    <3>2. PAGE_SIZE \in Nat /\ PAGE_SIZE > 0
      BY Machine
    <3> QED
      BY <3>1, <3>2, Multiples DEF StackEnd
  <2> QED
    BY <2>1 DEF Shaped, StackRegion
<1>5. ASSUME NEW r \in RegionsOf(prog, Len(prog)) PROVE Shaped(a, r)
  <2>1. End(r) <= a.elf_end
    BY <1>1, ProgramRegions
  <2>2. PICK j \in 1..Len(prog) : r \in SegRegions(prog[j])
    BY DEF RegionsOf
  <2>3. SegRegions(prog[j]) \subseteq Listed(a.regs)
    BY <1>1 DEF RegionsOf
  <2>4. \/ r.size % PAGE_SIZE = 0 \/ End(r) % PAGE_SIZE = 0
        \/ \E q \in SegRegions(prog[j]) : q.size > 0 /\ q.addr = End(r)
    BY <1>2, <2>2, SegmentShaped
  <2> QED
    BY <2>1, <2>3, <2>4 DEF Shaped, Joined
<1> QED
  BY <1>1, <1>3, <1>4, <1>5 DEF ShapedSpaces, SortedSpaces

LEMMA ForkShaped ==
    ASSUME NEW a \in ShapedSpaces, NEW fr, NEW dst, NEW m, Forking(m, a, dst, fr)
    PROVE  m.a \in ShapedSpaces
<1>1. a \in Typed /\ Sorted(a.regs) /\ a.elf_end % PAGE_SIZE = 0 /\ \A r \in Listed(a.regs) : Shaped(a, r)
  BY ShapedIs
<1>2. m.a.regs = a.regs
  BY DEF Forking
<1>3. m.a \in Typed /\ m.a.elf_end = a.elf_end
  BY <1>1, ForkTyped
<1>4. \A r \in Listed(m.a.regs) : Shaped(m.a, r)
  BY <1>1, <1>2, <1>3, ShapedMore
<1> QED
  BY <1>1, <1>2, <1>3, <1>4 DEF ShapedSpaces, SortedSpaces

LEMMA ShapedKept == Keeps(ShapedSpaces, ShapeOdd)
<1>1. ShapedSpaces \subseteq Typed
  BY ShapedIs
<1>2. ASSUME NEW fr \in SUBSET (Frames \cup {0}), NEW prog \in Programs, NEW dst, Blank(dst, ShapeOdd), NEW m,
             m = execve_space(dst, fr, prog), m.st = "ok"
      PROVE  m.a \in ShapedSpaces
  <2>1. dst \in Space /\ dst.regs = <<>>
    BY <1>2 DEF Blank
  <2>2. NewSpace(m.a, prog, dst.pt)
    BY <1>2, <2>1, LoadedSpace
  <2> QED
    BY <2>2, NewShaped
<1>3. ASSUME NEW a \in ShapedSpaces, NEW b, Retabled(a, b, ShapeOdd) PROVE b \in ShapedSpaces
  <2>1. a \in Typed /\ Sorted(a.regs) /\ a.elf_end % PAGE_SIZE = 0 /\ \A r \in Listed(a.regs) : Shaped(a, r)
    BY ShapedIs
  <2>2. b \in Typed
    BY <1>3, <2>1, RetabledTyped
  <2>3. b.regs = a.regs /\ b.elf_end = a.elf_end
    BY <1>3 DEF Retabled, SameEnds
  <2>4. \A r \in Listed(b.regs) : Shaped(b, r)
    BY <2>1, <2>3, ShapedMore
  <2> QED
    BY <2>1, <2>2, <2>3, <2>4 DEF ShapedSpaces, SortedSpaces
<1> QED
  BY <1>1, <1>2, <1>3, EvolveShaped, ForkShaped DEF Keeps

(* A step of fork leaves the child every page of its parent's regions. *)
LEMMA ForkComplete ==
    ASSUME TypeInv, NEW t \in Live, as[t] \in ShapedSpaces, NEW c \in Spaces \ Live, as'[c] # NULL,
           NEW junk \in Junk(2), fork(t, c, junk), NEW i \in 1..Len(as[t].regs), NEW r, r = as[t].regs[i], r.addr % PAGE_SIZE = 0 \/ r.size % PAGE_SIZE # 0,
           NEW p \in PagesOf(r.addr, r.size) \cap UserPages
    PROVE  as'[c].pt[p] # Absent
<1>1. PICK dst, fr, u, m : ForkStep(t, c, dst, fr, u, m)
  BY ForkStepIs
<1>2. as[t] \in Space /\ as = [v \in Spaces |-> as[v]]
  BY DEF TypeInv
<1>3. Forking(m, as[t], dst, fr)
  BY <1>1 DEF ForkStep
<1>4. as' = [as EXCEPT ![c] = IF m.st = "ok" THEN m.a ELSE NULL]
  BY <1>1 DEF ForkStep
<1>5. m.st = "ok"
  BY <1>2, <1>4
<1>6. as'[c] = m.a
  BY <1>2, <1>4, <1>5
<1>7. as[t].regs \in Seq(Region)
  BY <1>2, SpaceIs
<1>8. r \in Listed(as[t].regs)
  BY <1>7, ListedIs
<1>9. Walked(as[t], p)
  BY <1>8, AllVisited
<1>10. m.a.pt[p] # Absent
  BY <1>3, <1>5, <1>9 DEF Forking
<1> QED
  BY <1>6, <1>10

(* In every step in which a program forks, its child gets every page of its
   regions that it has, except the last page of a region that begins inside a
   page and has the size of whole pages: the walk of _fork_aspace misses a page
   at the end of a region only where the next region begins in it. *)
THEOREM ForksAreComplete == Spec => ForkIsComplete
<1> DEFINE Inv == TypeInv /\ AllIn(Typed) /\ Guarded(ShapedSpaces, ShapeOdd)
           Copied == odd \cap {"unaligned address", "odd munmap", "lost heap"} = {} =>
             \A t \in Live, c \in Spaces \ Live : as'[c] # NULL /\ (\E junk \in Junk(2) : fork(t, c, junk)) =>
                \A i \in 1..Len(as[t].regs) : LET r == as[t].regs[i] IN
                    r.addr % PAGE_SIZE = 0 \/ r.size % PAGE_SIZE # 0 =>
                        \A p \in PagesOf(r.addr, r.size) \cap UserPages :
                            as[t].pt[p] # Absent => as'[c].pt[p] # Absent
<1>1. Init => Inv
  BY InitType, TypeFirst, GuardedFirst, ShapedKept
<1>2. Inv /\ [Next]_vars => Inv'
  BY NextType, GuardedKept, ShapedKept
<1>3. Inv => Copied
  <2> SUFFICES ASSUME Inv, odd \cap {"unaligned address", "odd munmap", "lost heap"} = {},
                      NEW t \in Live, NEW c \in Spaces \ Live, as'[c] # NULL,
                      NEW junk \in Junk(2), fork(t, c, junk), NEW i \in 1..Len(as[t].regs), NEW r, r = as[t].regs[i],
                      r.addr % PAGE_SIZE = 0 \/ r.size % PAGE_SIZE # 0,
                      NEW p \in PagesOf(r.addr, r.size) \cap UserPages
               PROVE  as'[c].pt[p] # Absent
    BY Zenon
  <2>1. as[t] \in ShapedSpaces /\ TypeInv
    BY DEF Guarded, AllIn, ShapeOdd
  <2> QED
    BY <2>1, ForkComplete
<1>4. Inv => [Copied]_vars
  BY <1>3
<1> QED
  BY <1>1, <1>2, <1>4, PTL DEF Spec, ForkIsComplete
-----------------------------------------------------------------------------
(* Page faults *)

(* Nothing in front of the beginning of a page is on it. *)
LEMMA PageBefore ==
    ASSUME NEW x \in Nat, NEW y \in Nat, x < y, y % PAGE_SIZE = 0
    PROVE  Page(x) < Page(y)
<1>1. PAGE_SIZE \in Nat /\ PAGE_SIZE > 0 /\ y \in Int
  BY Machine
<1>2. PICK q \in Int : y = PAGE_SIZE * q
  BY <1>1, Multiple
<1>3. Page(y) = q
  <2>1. PAGE_SIZE * q <= y /\ y < PAGE_SIZE * q + PAGE_SIZE
    BY <1>1, <1>2
  <2> QED
    BY <2>1, PageIs
<1>4. Page(x) \in Nat /\ PAGE_SIZE * Page(x) <= x
  BY PageIs
<1> SUFFICES ASSUME q <= Page(x) PROVE FALSE
  BY <1>3, <1>4
<1>5. PAGE_SIZE * q <= PAGE_SIZE * Page(x)
  BY <1>1, <1>4
<1> QED
  BY <1>1, <1>2, <1>4, <1>5

(* In a sorted list a byte is in one region at most. *)
LEMMA SameByte ==
    ASSUME NEW regs \in Seq(Region), Sorted(regs), NEW r \in Listed(regs), NEW q \in Listed(regs),
           NEW x \in Nat, r.addr <= x, x < End(r), q.addr <= x, x < End(q)
    PROVE  q = r
<1>1. PICK i \in 1..Len(regs), j \in 1..Len(regs) : r = regs[i] /\ q = regs[j]
  BY DEF Listed
<1>2. r \in Region /\ q \in Region
  BY <1>1
<1>3. r.addr \in Nat /\ End(r) \in Nat /\ q.addr \in Nat /\ End(q) \in Nat
  BY <1>2, EndIsNat, Zenon
<1>4. ~(i < j)
  <2> SUFFICES ASSUME i < j PROVE FALSE
    OBVIOUS
  <2>1. End(r) <= q.addr
    BY <1>1 DEF Sorted
  <2> QED
    BY <1>3, <2>1
<1>5. ~(j < i)
  <2> SUFFICES ASSUME j < i PROVE FALSE
    OBVIOUS
  <2>1. End(q) <= r.addr
    BY <1>1 DEF Sorted
  <2> QED
    BY <1>3, <2>1
<1>6. i = j
  BY <1>4, <1>5
<1> QED
  BY <1>1, <1>6

(* Two regions share no page when the first one, and the second one if it is
   behind, begin with a page. *)
LEMMA SharedPage ==
    ASSUME NEW regs \in Seq(Region), Sorted(regs), NEW r \in Listed(regs), NEW q \in Listed(regs),
           NEW p \in PagesOf(r.addr, r.size), p \in PagesOf(q.addr, q.size),
           r.addr % PAGE_SIZE = 0, r.addr < q.addr => q.addr % PAGE_SIZE = 0
    PROVE  q = r
<1>1. r \in Region /\ q \in Region
  BY ListedIs
<1>2. r.addr \in Nat /\ r.size \in Nat /\ End(r) = r.addr + r.size /\ q.addr \in Nat /\ q.size \in Nat /\ End(q) = q.addr + q.size
  BY <1>1, EndIsNat, Zenon
<1>3. r.size > 0 /\ Page(r.addr) <= p /\ p <= Page(r.addr + r.size - 1) /\ p \in Nat
  BY <1>2, PagesSpan
<1>4. q.size > 0 /\ Page(q.addr) <= p /\ p <= Page(q.addr + q.size - 1)
  BY <1>2, PagesSpan
<1>5. CASE r.addr < q.addr
  <2>1. End(r) <= q.addr
    BY <1>5, SortedApart
  <2>2. r.addr + r.size - 1 \in Nat /\ r.addr + r.size - 1 < q.addr
    BY <1>2, <1>3, <2>1
  <2>3. Page(r.addr + r.size - 1) < Page(q.addr)
    <3>1. q.addr % PAGE_SIZE = 0 /\ q.addr \in Nat
      BY <1>2, <1>5
    <3> QED
      BY <2>2, <3>1, PageBefore
  <2>4. Page(r.addr + r.size - 1) \in Nat /\ Page(q.addr) \in Nat
    BY <1>2, <2>2, PageIs
  <2> QED
    BY <1>3, <1>4, <2>3, <2>4
<1>6. CASE q.addr < r.addr
  <2>1. End(q) <= r.addr
    BY <1>6, SortedApart
  <2>2. q.addr + q.size - 1 \in Nat /\ q.addr + q.size - 1 < r.addr
    BY <1>2, <1>4, <2>1
  <2>3. Page(q.addr + q.size - 1) < Page(r.addr)
    BY <1>2, <2>2, PageBefore
  <2>4. Page(q.addr + q.size - 1) \in Nat /\ Page(r.addr) \in Nat
    BY <1>2, <2>2, PageIs
  <2> QED
    BY <1>3, <1>4, <2>3, <2>4
<1>7. CASE q.addr = r.addr
  <2>1. r.addr < End(r) /\ q.addr < End(q)
    BY <1>2, <1>3, <1>4
  <2> QED
    BY <1>2, <1>7, <2>1, SameByte
<1> QED
  BY <1>2, <1>5, <1>6, <1>7

(* The heap and what is behind it share no page with another region. *)
LEMMA OwnPages ==
    ASSUME NEW a \in ShapedSpaces, NEW r \in Listed(a.regs), NEW q \in Listed(a.regs), a.elf_end <= r.addr,
           NEW p \in PagesOf(r.addr, r.size), p \in PagesOf(q.addr, q.size)
    PROVE  q = r
<1>1. a.regs \in Seq(Region) /\ Sorted(a.regs) /\ a.elf_end \in Nat /\ Shaped(a, r) /\ Shaped(a, q)
  BY ShapedIs
<1>2. r \in Region /\ q \in Region
  BY <1>1, ListedIs
<1>3. r.addr \in Nat /\ r.size \in Nat /\ End(r) = r.addr + r.size /\ q.addr \in Nat /\ q.size \in Nat /\ End(q) = q.addr + q.size
  BY <1>2, EndIsNat, Zenon
<1>4. r.size > 0 /\ q.size > 0
  BY <1>3, PagesSpan
<1>5. r.addr % PAGE_SIZE = 0
  <2>1. ~(End(r) <= a.elf_end)
    BY <1>1, <1>3, <1>4
  <2> QED
    BY <1>1, <2>1 DEF Shaped
<1>6. r.addr < q.addr => q.addr % PAGE_SIZE = 0
  <2> SUFFICES ASSUME r.addr < q.addr PROVE q.addr % PAGE_SIZE = 0
    OBVIOUS
  <2>1. ~(End(q) <= a.elf_end)
    BY <1>1, <1>3, <1>4
  <2> QED
    BY <1>1, <2>1 DEF Shaped
<1> QED
  BY <1>1, <1>5, <1>6, SharedPage

(* What makes the faults of a program's own accesses honest: a page that is
   mapped has the protection of its regions, the first page of every region but
   the heap's is mapped, regions on one page have one protection, behind the
   program only pages of regions are mapped, and no read-only region is at the
   end of the program. *)
Protected(a) == \A r \in Listed(a.regs) : \A p \in PagesOf(r.addr, r.size) \cap UserPages :
                   a.pt[p] # Absent => a.pt[p].rw = r.rw
Begun(a) == \A r \in Listed(a.regs) : r.size > 0 /\ r.addr # a.elf_end /\ Page(r.addr) \in UserPages =>
               a.pt[Page(r.addr)] # Absent
Agreed(a) == \A r, q \in Listed(a.regs) : \A p \in PagesOf(r.addr, r.size) :
                p \in PagesOf(q.addr, q.size) => r.rw = q.rw
Owned(a) == \A p \in UserPages : a.pt[p] # Absent /\ Page(a.elf_end) <= p =>
               \E r \in Listed(a.regs) : p \in PagesOf(r.addr, r.size)
EndWritable(a) == \A r \in Listed(a.regs) : r.rw \/ (r.addr # a.elf_end /\ End(r) # a.elf_end)

Honest(a) == Protected(a) /\ Begun(a) /\ Agreed(a) /\ Owned(a) /\ EndWritable(a)
HonestSpaces == {a \in HeapSpaces \cap ShapedSpaces : Honest(a)}
HonestOdd == {"area in use", "odd munmap", "illegal access", "fixed address", "unaligned address", "short file", "shrink",
              "uncleared table"}

LEMMA HonestIs ==
    ASSUME NEW a \in HonestSpaces
    PROVE  /\ a \in HeapSpaces /\ a \in ShapedSpaces /\ a \in Typed /\ a \in Space
           /\ a.regs \in Seq(Region) /\ Sorted(a.regs) /\ a.elf_end \in Nat /\ a.data_end \in Nat
           /\ a.pt \in Table
           /\ Protected(a) /\ Begun(a) /\ Agreed(a) /\ Owned(a) /\ EndWritable(a)
<1>1. a \in HeapSpaces /\ a \in ShapedSpaces /\ Protected(a) /\ Begun(a) /\ Agreed(a) /\ Owned(a) /\ EndWritable(a)
  BY DEF HonestSpaces, Honest
<1>2. a \in Typed /\ a \in Space /\ a.regs \in Seq(Region) /\ Sorted(a.regs) /\ a.elf_end \in Nat /\ a.data_end \in Nat
  BY <1>1, ShapedIs
<1>3. a.pt \in Table
  BY <1>2, SpaceIs
<1> QED
  BY <1>1, <1>2, <1>3

BothWritable(r, q) == r.rw = TRUE /\ q.rw = TRUE

(* Where a region ends and another one contains the next byte, that one begins
   there; if its first page is not mapped, it is the heap. *)
LEMMA FoundFirst ==
    ASSUME NEW a \in HonestSpaces, NEW addr \in UserAddresses, NEW i, i = _find_region(a, addr),
           NEW g \in Listed(a.regs), g.addr <= addr, addr < End(g)
    PROVE  /\ i \in 1..Len(a.regs) /\ a.regs[i] \in Listed(a.regs) /\ a.regs[i] \in Region
           /\ a.regs[i] = g \/ (g.addr = addr /\ End(a.regs[i]) = addr)
           /\ a.pt[Page(addr)] = Absent /\ a.regs[i] # g => BothWritable(a.regs[i], g)
<1>1. a.regs \in Seq(Region) /\ Sorted(a.regs) /\ a.elf_end \in Nat /\ Begun(a) /\ EndWritable(a)
  BY HonestIs
<1>2. addr \in Nat /\ Page(addr) \in UserPages
  BY UserPage
<1>3. g \in Region
  BY <1>1, ListedIs
<1>4. g.addr \in Nat /\ g.size \in Nat /\ g.rw \in BOOLEAN /\ End(g) = g.addr + g.size
  BY <1>3, EndIsNat, Zenon
<1>5. i # 0
  <2>1. Touches(g, addr)
    BY <1>2, <1>4 DEF Touches
  <2> QED
    BY <1>1, <2>1, FindRegion
<1>6. i \in 1..Len(a.regs) /\ Touches(a.regs[i], addr) /\ a.regs[i] \in Listed(a.regs) /\ a.regs[i] \in Region
  BY <1>1, <1>5, FindRegion
<1>7. PICK f \in Region : f = a.regs[i]
  BY <1>6
<1>8. f.addr \in Nat /\ f.size \in Nat /\ f.rw \in BOOLEAN /\ End(f) = f.addr + f.size
  BY EndIsNat, Zenon
<1>9. f \in Listed(a.regs) /\ f.addr <= addr /\ addr <= End(f)
  BY <1>6, <1>7 DEF Touches
<1>10. f = g \/ (g.addr = addr /\ End(f) = addr)
  <2>1. CASE addr < End(f)
    BY <1>1, <1>2, <1>9, <2>1, SameByte
  <2>2. CASE addr = End(f)
    <3>1. ~(g.addr < f.addr)
      <4> SUFFICES ASSUME g.addr < f.addr PROVE FALSE
        OBVIOUS
      <4>1. End(g) <= f.addr
        BY <1>1, <1>9, SortedApart
      <4> QED
        BY <1>2, <1>4, <1>8, <1>9, <4>1
    <3>2. CASE f.addr < g.addr
      <4>1. End(f) <= g.addr
        BY <1>1, <1>9, <3>2, SortedApart
      <4> QED
        BY <1>2, <1>4, <1>8, <2>2, <4>1
    <3>3. CASE f.addr = g.addr
      <4>1. CASE f.size = 0
        BY <1>2, <1>4, <1>8, <2>2, <3>3, <4>1
      <4>2. CASE f.size > 0
        <5>1. f.addr < End(f) /\ g.addr <= f.addr /\ f.addr < End(g)
          BY <1>2, <1>4, <1>8, <1>9, <3>3, <4>2
        <5> QED
          BY <1>1, <1>8, <1>9, <5>1, SameByte
      <4> QED
        BY <1>8, <4>1, <4>2
    <3> QED
      BY <1>4, <1>8, <3>1, <3>2, <3>3
  <2> QED
    BY <1>2, <1>8, <1>9, <2>1, <2>2
<1>11. a.pt[Page(addr)] = Absent /\ f # g => BothWritable(f, g)
  <2> SUFFICES ASSUME a.pt[Page(addr)] = Absent, f # g PROVE BothWritable(f, g)
    OBVIOUS
  <2>1. g.addr = addr /\ End(f) = addr /\ g.size > 0
    BY <1>2, <1>4, <1>10
  <2>2. addr = a.elf_end
    BY <1>1, <1>2, <2>1 DEF Begun
  <2>3. g.rw /\ f.rw
    BY <1>1, <1>9, <2>1, <2>2 DEF EndWritable
  <2> QED
    BY <1>4, <1>8, <2>3 DEF BothWritable
<1> QED
  BY <1>6, <1>7, <1>10, <1>11

(* The fault of a legal access maps a page. *)
LEMMA AccessHonest ==
    ASSUME NEW a \in HonestSpaces, NEW addr \in UserAddresses, NEW write, InRegion(a, addr), write => Writable(a, addr),
           a.pt[Page(addr)] = Absent \/ (write /\ ~a.pt[Page(addr)].rw)
    PROVE  ~segfault(a, addr, write) /\ a.pt[Page(addr)] = Absent
<1>1. PICK i : i = _find_region(a, addr)
  OBVIOUS
<1>2. a.regs \in Seq(Region) /\ Protected(a)
  BY HonestIs
<1>3. addr \in Nat /\ Page(addr) \in UserPages
  BY UserPage
<1>4. PICK g \in Listed(a.regs) : g.addr <= addr /\ addr < End(g)
  BY DEF InRegion, Listed
<1>5. i \in 1..Len(a.regs)
  BY <1>1, <1>4, FoundFirst
<1>6. ASSUME write PROVE a.pt[Page(addr)] = Absent /\ a.regs[i].rw
  <2>1. PICK h \in Listed(a.regs) : h.addr <= addr /\ addr < End(h) /\ h.rw
    BY <1>6 DEF Writable, Listed
  <2>2. h \in Region
    BY <1>2, ListedIs
  <2>3. h.addr \in Nat /\ h.size \in Nat /\ h.rw \in BOOLEAN /\ End(h) = h.addr + h.size
    BY <2>2, EndIsNat, Zenon
  <2>4. Page(addr) \in PagesOf(h.addr, h.size)
    BY <1>3, <2>1, <2>3, PagesIn
  <2>5. a.pt[Page(addr)] # Absent => a.pt[Page(addr)].rw = h.rw
    BY <1>2, <1>3, <2>4 DEF Protected
  <2>6. a.pt[Page(addr)] = Absent
    BY <2>1, <2>5
  <2>7. a.regs[i] = h \/ a.regs[i].rw = TRUE
    <3>1. h.addr <= addr /\ addr < End(h)
      BY <2>1
    <3>2. a.pt[Page(addr)] = Absent /\ a.regs[i] # h => BothWritable(a.regs[i], h)
      BY <1>1, <3>1, FoundFirst
    <3> QED
      BY <2>6, <3>2 DEF BothWritable
  <2> QED
    BY <2>1, <2>6, <2>7
<1>7. a.pt[Page(addr)] = Absent
  BY <1>6
<1>8. ~segfault(a, addr, write)
  BY <1>1, <1>5, <1>6 DEF segfault
<1> QED
  BY <1>7, <1>8

(* The heap's region begins or grows. *)
Grown(r, g) == r.rw = g.rw /\ PagesOf(r.addr, r.size) \subseteq PagesOf(g.addr, g.size)

LEMMA HeapGrows ==
    ASSUME NEW a \in HonestSpaces, NEW b \in ShapedSpaces, b.elf_end = a.elf_end, b.pt = a.pt,
           NEW g \in Listed(b.regs), g.rw, g.addr = a.elf_end,
           \A r \in Listed(b.regs) : r = g \/ r \in Listed(a.regs),
           \A r \in Listed(a.regs) : r \in Listed(b.regs) \/ Grown(r, g)
    PROVE  Honest(b)
<1>1. Protected(a) /\ Begun(a) /\ Agreed(a) /\ Owned(a) /\ EndWritable(a) /\ a.elf_end \in Nat
  BY HonestIs
<1>2. b.regs \in Seq(Region)
  BY ShapedIs
<1>3. ASSUME NEW q \in Listed(b.regs), NEW p \in PagesOf(g.addr, g.size), p \in PagesOf(q.addr, q.size)
      PROVE  q = g
  <2>1. b.elf_end <= g.addr
    BY <1>1
  <2> QED
    BY <1>3, <2>1, OwnPages
<1>4. Protected(b)
  <2> SUFFICES ASSUME NEW r \in Listed(b.regs), NEW p \in PagesOf(r.addr, r.size) \cap UserPages, b.pt[p] # Absent
               PROVE  b.pt[p].rw = r.rw
    BY DEF Protected
  <2>1. CASE r \in Listed(a.regs)
    BY <1>1, <2>1 DEF Protected
  <2>2. CASE r = g
    <3>1. g \in Region
      BY <1>2, ListedIs
    <3>2. g.addr \in Nat /\ g.size \in Nat
      BY <3>1, EndIsNat, Zenon
    <3>3. p \in PagesOf(g.addr, g.size)
      BY <2>2
    <3>4. Page(a.elf_end) <= p
      BY <3>2, <3>3, PagesSpan
    <3>5. PICK q \in Listed(a.regs) : p \in PagesOf(q.addr, q.size)
      BY <1>1, <3>4 DEF Owned
    <3>6. a.pt[p].rw = q.rw
      BY <1>1, <3>5 DEF Protected
    <3>7. q.rw = g.rw
      BY <1>3, <3>3, <3>5 DEF Grown
    <3> QED
      BY <2>2, <3>6, <3>7
  <2> QED
    BY <2>1, <2>2
<1>5. Begun(b)
  BY <1>1 DEF Begun
<1>6. Agreed(b)
  <2> SUFFICES ASSUME NEW r \in Listed(b.regs), NEW q \in Listed(b.regs), NEW p \in PagesOf(r.addr, r.size),
                      p \in PagesOf(q.addr, q.size)
               PROVE  r.rw = q.rw
    BY DEF Agreed
  <2>1. CASE r = g \/ q = g
    BY <1>3, <2>1
  <2>2. CASE r \in Listed(a.regs) /\ q \in Listed(a.regs)
    BY <1>1, <2>2 DEF Agreed
  <2> QED
    BY <2>1, <2>2
<1>7. Owned(b)
  BY <1>1 DEF Owned, Grown
<1>8. EndWritable(b)
  BY <1>1 DEF EndWritable
<1> QED
  BY <1>4, <1>5, <1>6, <1>7, <1>8 DEF Honest

(* A longer area has more pages. *)
LEMMA MorePages ==
    ASSUME NEW x \in Nat, NEW n \in Nat, NEW k \in Nat, n <= k
    PROVE  PagesOf(x, n) \subseteq PagesOf(x, k)
<1> SUFFICES ASSUME NEW p \in PagesOf(x, n) PROVE p \in PagesOf(x, k)
  OBVIOUS
<1>1. n > 0 /\ p \in Nat /\ Page(x) <= p /\ p <= Page(x + n - 1)
  BY PagesSpan
<1>2. x + n - 1 \in Nat /\ x + k - 1 \in Nat /\ x + n - 1 <= x + k - 1 /\ k # 0
  BY <1>1
<1>3. Page(x + n - 1) <= Page(x + k - 1)
  BY <1>2, PageMono
<1>4. Page(x) \in Nat /\ Page(x + n - 1) \in Nat /\ Page(x + k - 1) \in Nat
  BY <1>2, PageIs
<1> QED
  BY <1>1, <1>2, <1>3, <1>4 DEF PagesOf

(* The break moves, but not down by a page. *)
LEMMA MovesHonest ==
    ASSUME NEW a \in HonestSpaces, NEW b \in HeapSpaces \cap ShapedSpaces, b.elf_end = a.elf_end,
           NEW addr \in Nat, a.data_end < addr + PAGE_SIZE,
           NEW i, i = _find_region(a, a.elf_end + 1), Moves(a, b, i, addr)
    PROVE  Honest(b)
<1>1. a \in HeapSpaces /\ a \in Typed /\ a.regs \in Seq(Region) /\ Sorted(a.regs) /\ a.elf_end \in Nat /\ a.data_end \in Nat
      /\ a.pt \in Table
  BY HonestIs
<1>2. Below(a) /\ HasHeap(a)
  BY <1>1 DEF HeapSpaces
<1>3. ASSUME NEW r \in Region, BrkFirst(a, b, addr, r) PROVE Honest(b)
  <2>1. r.rw /\ r.addr = a.elf_end /\ Listed(b.regs) = Listed(a.regs) \cup {r}
    <3>1. a \in Typed /\ Sorted(a.regs) /\ Below(a) /\ addr \in Nat /\ r \in Region /\ BrkFirst(a, b, addr, r)
      BY <1>1, <1>2, <1>3
    <3>2. r.rw /\ r.addr = a.elf_end /\ Listed(b.regs) = Listed(a.regs) \cup {r}
      BY ONLY <3>1, FirstPlaced
    <3> QED
      BY <3>2
  <2>2. b.pt = a.pt
    BY <1>3 DEF BrkFirst
  <2>3. r \in Listed(b.regs) /\ \A q \in Listed(b.regs) : q = r \/ q \in Listed(a.regs)
    BY <2>1
  <2>4. \A q \in Listed(a.regs) : q \in Listed(b.regs) \/ Grown(q, r)
    BY <2>1
  <2> QED
    BY <2>1, <2>2, <2>3, <2>4, HeapGrows
<1>4. ASSUME a.data_end # a.elf_end, NEW n \in Nat, a.regs[i].size <= n,
             b.regs = Resized(a.regs, i, n), b.pt = a.pt
      PROVE  Honest(b)
  <2>1. i \in 1..Len(a.regs) /\ HeapRegion(a, i)
    BY <1>1, <1>2, <1>4, HeapIsFound
  <2>2. PICK h \in Region : h = a.regs[i]
    BY <1>1, <2>1
  <2>3. h.addr \in Nat /\ h.size \in Nat /\ h.rw \in BOOLEAN
    BY EndIsNat, Zenon
  <2>4. h.rw /\ h.addr = a.elf_end /\ h.size <= n
    BY <1>4, <2>1, <2>2 DEF HeapRegion
  <2>5. PICK g : g = b.regs[i]
    OBVIOUS
  <2>6. g.addr = h.addr /\ g.rw = h.rw /\ g.size = n
    BY <1>1, <1>4, <2>1, <2>2, <2>5, ResizedIs
  <2>7. /\ g \in Listed(b.regs)
        /\ \A r \in Listed(b.regs) : r = g \/ r \in Listed(a.regs)
        /\ \A r \in Listed(a.regs) : r = h \/ r \in Listed(b.regs)
    BY <1>1, <1>4, <2>1, <2>2, <2>5, ResizedListed
  <2>8. Grown(h, g)
    <3>1. PagesOf(h.addr, h.size) \subseteq PagesOf(h.addr, n)
      BY <2>3, <2>4, MorePages
    <3> QED
      BY <2>6, <3>1 DEF Grown
  <2>9. \A r \in Listed(a.regs) : r \in Listed(b.regs) \/ Grown(r, g)
    BY <2>7, <2>8
  <2>10. g.rw /\ g.addr = a.elf_end
    BY <2>4, <2>6
  <2> QED
    BY <1>4, <2>7, <2>9, <2>10, HeapGrows
<1>5. ASSUME a.data_end # a.elf_end, i # 0, BrkWithin(a, b, i, addr) PROVE Honest(b)
  <2>1. b.regs = a.regs /\ b.pt = a.pt
    BY <1>5 DEF BrkWithin
  <2>2. Protected(a) /\ Begun(a) /\ Agreed(a) /\ Owned(a) /\ EndWritable(a)
    BY HonestIs
  <2> QED
    BY <2>1, <2>2 DEF Honest, Protected, Begun, Agreed, Owned, EndWritable
<1>6. ASSUME a.data_end # a.elf_end, i # 0, NEW n \in Nat, BrkGrow(a, b, i, addr, n) PROVE Honest(b)
  <2>1. a.regs[i] \in Region
    BY <1>1, <1>2, <1>6, HeapIsFound
  <2>2. a.regs[i].size \in Nat
    BY <2>1, EndIsNat, Zenon
  <2>3. PICK k : k = a.regs[i].size + n
    OBVIOUS
  <2>4. k \in Nat /\ a.regs[i].size <= k
    BY <2>2, <2>3
  <2>5. b.regs = Resized(a.regs, i, k) /\ b.pt = a.pt
    BY <1>6, <2>3 DEF BrkGrow
  <2> QED
    BY <1>4, <1>6, <2>4, <2>5
<1>7. ASSUME a.data_end # a.elf_end, i # 0, NEW n \in Nat, NEW ctr \in Nat, BrkShrink(a, b, i, addr, ctr, n) PROVE Honest(b)
  <2>1. a.regs[i] \in Region
    BY <1>1, <1>2, <1>7, HeapIsFound
  <2>2. a.regs[i].size \in Nat
    BY <2>1, EndIsNat, Zenon
  <2>3. ctr = 0
    <3>1. PICK y \in Int : y = a.data_end - addr
      BY <1>1
    <3>2. 0 <= y /\ y < PAGE_SIZE /\ ctr = y \div PAGE_SIZE
      <4>1. addr <= a.data_end /\ ctr = (a.data_end - addr) \div PAGE_SIZE
        BY <1>7 DEF BrkShrink
      <4>2. PAGE_SIZE \in Nat /\ a.data_end \in Nat
        BY <1>1, Machine
      <4>3. 0 <= y /\ y < PAGE_SIZE
        BY <3>1, <4>1, <4>2
      <4> QED
        BY <3>1, <4>1, <4>3
    <3>3. PAGE_SIZE \in Nat /\ PAGE_SIZE > 0 /\ 0 \in Int /\ PAGE_SIZE * 0 <= y /\ y < PAGE_SIZE * 0 + PAGE_SIZE
      BY <3>2, Machine
    <3>4. y \div PAGE_SIZE = 0
      BY <3>3, DivIs
    <3> QED
      BY <3>2, <3>4
  <2>4. ctr * PAGE_SIZE = 0
    BY <2>3, Machine
  <2>5. n = a.regs[i].size
    BY <1>7, <2>2, <2>4 DEF BrkShrink
  <2>6. b.regs = Resized(a.regs, i, n)
    BY <1>7 DEF BrkShrink
  <2>7. b.pt = a.pt
    <3>1. PICK S : S = {Page(End(a.regs[i]) - k * PAGE_SIZE) : k \in 0..(ctr - 1)}
      OBVIOUS
    <3>2. S = {}
      <4>1. 0..(ctr - 1) = {}
        BY <2>3
      <4> QED
        BY <3>1, <4>1
    <3>3. b.pt = pg_unmap_from(a.pt, S)
      BY <1>7, <3>1 DEF BrkShrink
    <3>4. a.pt = [p \in UserPages |-> a.pt[p]]
      BY <1>1 DEF Table
    <3> QED
      BY <3>2, <3>3, <3>4 DEF pg_unmap_from
  <2>8. a.regs[i].size <= n
    BY <2>2, <2>5
  <2> QED
    BY <1>4, <1>7, <2>6, <2>7, <2>8
<1> QED
  BY <1>3, <1>5, <1>6, <1>7 DEF Moves

(* A region behind the end of the program is added, with all its pages. *)
LEMMA RegionMapped ==
    ASSUME NEW a \in HonestSpaces, NEW b \in ShapedSpaces, b.elf_end = a.elf_end,
           NEW r, Listed(b.regs) = Listed(a.regs) \cup {r}, a.elf_end < r.addr, r.size > 0,
           NEW S, S = PagesOf(r.addr, r.size),
           \A p \in UserPages : p \in S => b.pt[p] # Absent /\ b.pt[p].rw = r.rw,
           \A p \in UserPages : p \notin S => b.pt[p] = a.pt[p]
    PROVE  Honest(b)
<1>1. Protected(a) /\ Begun(a) /\ Agreed(a) /\ Owned(a) /\ EndWritable(a) /\ a.elf_end \in Nat
  BY HonestIs
<1>2. r \in Listed(b.regs) /\ b.regs \in Seq(Region)
  BY ShapedIs
<1>3. r \in Region
  BY <1>2, ListedIs
<1>4. r.addr \in Nat /\ r.size \in Nat /\ End(r) = r.addr + r.size
  BY <1>3, EndIsNat, Zenon
<1>5. ASSUME NEW q \in Listed(b.regs), NEW p \in S, p \in PagesOf(q.addr, q.size)
      PROVE  q = r
  <2>1. b.elf_end <= r.addr
    BY <1>1, <1>4
  <2> QED
    BY <1>2, <1>5, <2>1, OwnPages
<1>6. Page(r.addr) \in S
  BY <1>4, PagesIn
<1>7. Protected(b)
  <2> SUFFICES ASSUME NEW q \in Listed(b.regs), NEW p \in PagesOf(q.addr, q.size) \cap UserPages, b.pt[p] # Absent
               PROVE  b.pt[p].rw = q.rw
    BY DEF Protected
  <2>1. CASE p \in S
    BY <1>5, <2>1
  <2>2. CASE p \notin S
    BY <1>1, <2>2 DEF Protected
  <2> QED
    BY <2>1, <2>2
<1>8. Begun(b)
  <2> SUFFICES ASSUME NEW q \in Listed(b.regs), q.size > 0, q.addr # a.elf_end, Page(q.addr) \in UserPages
               PROVE  b.pt[Page(q.addr)] # Absent
    BY DEF Begun
  <2>1. CASE q = r
    BY <1>6, <2>1
  <2>2. CASE q \in Listed(a.regs)
    BY <1>1, <2>2 DEF Begun
  <2> QED
    BY <2>1, <2>2
<1>9. Agreed(b)
  <2> SUFFICES ASSUME NEW u \in Listed(b.regs), NEW q \in Listed(b.regs), NEW p \in PagesOf(u.addr, u.size),
                      p \in PagesOf(q.addr, q.size)
               PROVE  u.rw = q.rw
    BY DEF Agreed
  <2>1. CASE u = r \/ q = r
    BY <1>5, <2>1
  <2>2. CASE u \in Listed(a.regs) /\ q \in Listed(a.regs)
    BY <1>1, <2>2 DEF Agreed
  <2> QED
    BY <2>1, <2>2
<1>10. Owned(b)
  <2> SUFFICES ASSUME NEW p \in UserPages, b.pt[p] # Absent, Page(a.elf_end) <= p
               PROVE  \E q \in Listed(b.regs) : p \in PagesOf(q.addr, q.size)
    BY DEF Owned
  <2>1. CASE p \in S
    BY <1>2, <2>1
  <2>2. CASE p \notin S
    BY <1>1, <2>2 DEF Owned
  <2> QED
    BY <2>1, <2>2
<1>11. EndWritable(b)
  <2>1. r.addr # a.elf_end /\ End(r) # a.elf_end
    BY <1>1, <1>4
  <2> QED
    BY <1>1, <2>1 DEF EndWritable
<1> QED
  BY <1>7, <1>8, <1>9, <1>10, <1>11 DEF Honest

(* Rounding up the size of an area that begins with a page adds no page. *)
LEMMA SamePages ==
    ASSUME NEW x \in Nat, x % PAGE_SIZE = 0, NEW size \in Nat, size > 0, NEW n \in Nat, n = RoundUp(size, PAGE_SIZE)
    PROVE  PagesOf(x, n) = PagesOf(x, size)
<1>1. PAGE_SIZE \in Nat /\ PAGE_SIZE > 0 /\ x \in Int /\ n \in Int
  BY Machine
<1>2. size <= n /\ n < size + PAGE_SIZE /\ n % PAGE_SIZE = 0
  BY <1>1, RoundUpIs
<1>3. x + size - 1 \in Nat /\ x + n - 1 \in Nat
  BY <1>2
<1>4. PICK k \in Nat : k = Page(x + size - 1)
  BY <1>3, PageIs
<1>5. PICK l \in Nat : l = Page(x + n - 1)
  BY <1>3, PageIs
<1>6. x + size - 1 < PAGE_SIZE * k + PAGE_SIZE
  BY <1>3, <1>4, PageIs
<1>7. PAGE_SIZE * l <= x + n - 1
  BY <1>3, <1>5, PageIs
<1>8. k <= l
  <2>1. x + size - 1 <= x + n - 1
    BY <1>2
  <2> QED
    BY <1>3, <1>4, <1>5, <2>1, PageMono
<1>9. ~(k < l)
  <2> SUFFICES ASSUME k < l PROVE FALSE
    OBVIOUS
  <2>1. PICK c \in Int : x + n = PAGE_SIZE * c
    <3>1. PICK y \in Int, z \in Int : y = x /\ z = n /\ y % PAGE_SIZE = 0 /\ z % PAGE_SIZE = 0
      BY <1>1, <1>2
    <3>2. (y + z) % PAGE_SIZE = 0
      BY <1>1, <3>1, Multiples
    <3>3. PICK c \in Int : y + z = PAGE_SIZE * c
      BY <1>1, <3>2, Multiple
    <3> QED
      BY <3>1, <3>3
  <2>2. l < c
    <3> SUFFICES ASSUME c <= l PROVE FALSE
      OBVIOUS
    <3>1. PAGE_SIZE * c <= PAGE_SIZE * l
      BY <1>1
    <3>2. PAGE_SIZE * c \in Int /\ PAGE_SIZE * l \in Int
      BY <1>1
    <3> QED
      BY <1>1, <1>7, <2>1, <3>1, <3>2
  <2>3. PAGE_SIZE * (k + 2) <= PAGE_SIZE * c
    <3>1. k + 2 <= c
      BY <2>2
    <3> QED
      BY <1>1, <3>1
  <2>4. PAGE_SIZE * (k + 2) = PAGE_SIZE * k + PAGE_SIZE + PAGE_SIZE
    BY <1>1
  <2>5. PICK y \in Int, z \in Int : y = PAGE_SIZE * k /\ z = PAGE_SIZE * c
    BY <1>1
  <2>6. x + size - 1 < y + PAGE_SIZE /\ y + PAGE_SIZE + PAGE_SIZE <= z /\ x + n = z
    BY <1>6, <2>1, <2>3, <2>4, <2>5
  <2>7. n < size + PAGE_SIZE
    BY <1>2
  <2> QED
    BY <1>1, <2>6, <2>7
<1>10. k = l
  BY <1>8, <1>9
<1> QED
  BY <1>2, <1>4, <1>5, <1>10 DEF PagesOf

(* A free area that nothing is in has its place in the list. *)
LEMMA AreaPlaced ==
    ASSUME NEW a, a.regs \in Seq(Region), Sorted(a.regs), NEW addr \in Nat, NEW size \in Nat, size > 0, NEW n \in Nat,
           addr + n < Word, _is_area_free(a, addr, n), ~InUse(a, addr, size),
           NEW r \in Region, r.addr = addr, End(r) = addr + n
    PROVE  r \in Listed(_insert_region(a.regs, r))
<1>1. PICK regs \in Seq(Region) : regs = a.regs
  OBVIOUS
<1>2. Len(regs) \in Nat
  OBVIOUS
<1>3. (addr + n) % Word = addr + n
  <2>1. PICK t \in Int : t = addr + n
    OBVIOUS
  <2>2. Word \in Nat /\ Word > 0 /\ 0 \in Int /\ Word * 0 <= t /\ t < Word * 0 + Word /\ t - Word * 0 = t
    BY <2>1, Machine
  <2>3. t % Word = t - Word * 0
    BY <2>2, DivIs
  <2> QED
    BY <2>1, <2>2, <2>3
<1>4. \/ regs = <<>>
      \/ regs # <<>> /\ End(regs[Len(regs)]) <= addr
      \/ \E m \in 1..Len(regs) : FreeBefore(regs, addr, addr + n, m)
  BY <1>1, <1>3, AreaFree
<1>5. \E i \in 0..Len(regs) : Place(regs, r, i)
  <2>1. CASE regs = <<>>
    <3>1. Place(regs, r, 0) /\ 0 \in 0..Len(regs)
      BY <1>2, <2>1 DEF Place
    <3> QED
      BY <3>1
  <2>2. CASE regs # <<>> /\ End(regs[Len(regs)]) <= addr
    <3>1. Place(regs, r, Len(regs)) /\ Len(regs) \in 0..Len(regs)
      BY <1>2, <2>2 DEF Place
    <3> QED
      BY <3>1
  <2>3. ASSUME NEW m \in 1..Len(regs), FreeBefore(regs, addr, addr + n, m) PROVE \E i \in 0..Len(regs) : Place(regs, r, i)
    <3>1. m - 1 \in 0..Len(regs) /\ m - 1 # Len(regs) /\ (m - 1) + 1 = m
      BY <1>2
    <3>2. End(r) <= regs[m].addr
      BY <2>3 DEF FreeBefore
    <3>3. m - 1 # 0 => End(regs[m - 1]) <= addr
      <4> SUFFICES ASSUME m - 1 # 0 PROVE End(regs[m - 1]) <= addr
        OBVIOUS
      <4>1. m - 1 \in 1..Len(regs) /\ m - 1 < m
        BY <1>2
      <4>2. regs[m - 1].addr < addr
        BY <2>3, <4>1 DEF FreeBefore
      <4>3. regs[m - 1] \in Region
        BY <4>1
      <4>4. regs[m - 1].addr \in Nat /\ End(regs[m - 1]) \in Nat
        BY <4>3, EndIsNat, Zenon
      <4>5. regs[m - 1].addr < addr + size
        BY <4>2, <4>4
      <4>6. ~(addr < End(regs[m - 1]))
        BY <1>1, <4>1, <4>5 DEF InUse
      <4> QED
        BY <4>4, <4>6
    <3>4. Place(regs, r, m - 1)
      BY <3>1, <3>2, <3>3 DEF Place
    <3> QED
      BY <3>1, <3>4
  <2> QED
    BY <1>4, <2>1, <2>2, <2>3
<1> QED
  BY <1>1, <1>5, InsertRegion

(* A call of mmap that chooses the address itself, finds an area that nothing is
   in and can read all of its object. *)
LEMMA MmapHonest ==
    ASSUME NEW a \in HonestSpaces, NEW fr, NEW m, NEW what, NEW size \in Nat, NEW rw, NEW avail,
           Mmaps(a, fr, m, what, 0, size, rw, avail), what \cap HonestOdd = {}, m.a \in ShapedSpaces
    PROVE  Honest(m.a)
<1>1. a \in ShapedSpaces /\ a \in Typed /\ a.regs \in Seq(Region) /\ Sorted(a.regs) /\ a.elf_end \in Nat /\ a.data_end \in Nat
      /\ a.elf_end <= a.data_end /\ Honest(a)
  BY HonestIs, ShapedIs DEF HonestSpaces
<1>2. PICK addr, n : addr = mmap_address(a, 0, size) /\ n = aligned_size(0, size, PAGE_SIZE)
  OBVIOUS
<1>3. Mapping(m, a, fr, addr, size, n, rw, avail) /\ addr \in Nat /\ n \in Nat /\ rw \in BOOLEAN /\ size + PAGE_SIZE <= Word
  BY <1>2 DEF Mmaps
<1>4. ~(avail < size) /\ (m.st = "ok" => ~InUse(a, m.ret, size))
  BY DEF Mmaps, MmapOdd, HonestOdd
<1>5. CASE m.st # "ok"
  <2>1. m.a = a
    BY <1>3, <1>4, <1>5 DEF Mapping
  <2> QED
    BY <1>1, <2>1
<1>6. CASE m.st = "ok"
  <2>1. size # 0 /\ PagesOf(addr, size) \subseteq UserPages /\ _is_area_free(a, addr, n) /\ ~InUse(a, addr, size)
        /\ m.a.elf_end = a.elf_end
    BY <1>3, <1>4, <1>6 DEF Mapping, SameEnds
  <2>2. addr + size <= VM_USER_END
    BY <1>3, <2>1, AreaBelow
  <2>3. addr % PAGE_SIZE = 0
    <3>1. addr = _find_free_area(a, n)
      BY <1>2 DEF mmap_address
    <3> QED
      BY <1>1, <1>2, <1>3, <2>1, <2>2, <3>1, FoundAligned
  <2>4. n = RoundUp(size, PAGE_SIZE) /\ n > 0 /\ n < size + PAGE_SIZE
    <3>1. PICK z \in Nat, u \in Nat : z = 0 /\ u = PAGE_SIZE /\ u > 0
      BY Machine
    <3>2. z % u = 0
      BY <3>1
    <3>3. n = aligned_size(z, size, u)
      BY <1>2, <3>1
    <3>4. n = RoundUp(size, u) /\ n > 0 /\ n < size + u
      BY <2>1, <3>1, <3>2, <3>3, AlignedSize
    <3> QED
      BY <3>1, <3>4
  <2>5. addr > a.elf_end
    <3>1. addr >= a.data_end + PAGE_SIZE
      BY <1>1, <1>2, <1>6, FoundBehindHeap
    <3>2. a.elf_end \in Nat /\ a.data_end \in Nat /\ a.elf_end <= a.data_end /\ PAGE_SIZE \in Nat /\ PAGE_SIZE > 0 /\ addr \in Nat
      BY <1>1, <1>3, Machine
    <3> QED
      BY <3>1, <3>2
  <2>6. PICK r : r = [addr |-> addr, size |-> n, rw |-> rw]
    OBVIOUS
  <2>7. r \in Region /\ r.addr = addr /\ r.size = n /\ r.rw = rw /\ m.a.regs = _insert_region(a.regs, r)
    BY <1>3, <1>6, <2>6 DEF Mapping, Region
  <2>8. End(r) = addr + n
    BY <2>7 DEF End
  <2>9. addr + n < Word
    BY <1>3, <2>2, <2>4, Machine
  <2>10. r \in Listed(m.a.regs)
    <3>1. size > 0
      BY <2>1
    <3>2. r \in Listed(_insert_region(a.regs, r))
      BY <1>1, <1>3, <2>1, <2>7, <2>8, <2>9, <3>1, AreaPlaced
    <3> QED
      BY <2>7, <3>2
  <2>11. Listed(m.a.regs) = Listed(a.regs) \cup {r}
    <3>1. Listed(a.regs) \subseteq Listed(m.a.regs) /\ Listed(m.a.regs) \subseteq Listed(a.regs) \cup {r}
      BY <1>1, <2>7, InsertRegion
    <3> QED
      BY <2>10, <3>1
  <2>12. PICK S : S = PagesOf(r.addr, r.size)
    OBVIOUS
  <2>13. S = PagesOf(addr, size)
    <3>1. size > 0
      BY <2>1
    <3>2. PagesOf(addr, n) = PagesOf(addr, size)
      BY <1>3, <2>3, <2>4, <3>1, SamePages
    <3> QED
      BY <2>7, <2>12, <3>2
  <2>14. /\ \A p \in UserPages : p \in S => m.a.pt[p] # Absent /\ m.a.pt[p].rw = r.rw
         /\ \A p \in UserPages : p \notin S => m.a.pt[p] = a.pt[p]
    BY <1>3, <1>6, <2>7, <2>13 DEF Mapping
  <2>15. a.elf_end < r.addr /\ r.size > 0
    BY <1>1, <1>3, <2>4, <2>5, <2>7
  <2> QED
    BY <2>1, <2>11, <2>12, <2>14, <2>15, RegionMapped
<1> QED
  BY <1>5, <1>6

(* What is left after a region is removed were other regions. *)
LEMMA RemovedOthers ==
    ASSUME NEW regs \in Seq(Region), NEW i \in 1..Len(regs), NEW r \in Listed(_remove_region(regs, i))
    PROVE  \E k \in 1..Len(regs) : k # i /\ r = regs[k]
<1>1. PICK n \in Nat : n = Len(regs)
  OBVIOUS
<1>2. PICK s : s = _remove_region(regs, i)
  OBVIOUS
<1>3. PICK j \in 1..Len(s) : r = s[j]
  BY <1>2 DEF Listed
<1>4. CASE regs[1].addr = regs[i].addr
  <2>1. s = SubSeq(regs, i + 1, n)
    BY <1>1, <1>2, <1>4 DEF _remove_region
  <2>2. Len(s) = n - i /\ s[j] = regs[j + i]
    BY <1>1, <1>3, <2>1
  <2>3. j + i \in 1..n /\ j + i # i
    BY <1>1, <1>3, <2>2
  <2> QED
    BY <1>1, <1>3, <2>2, <2>3
<1>5. CASE regs[1].addr # regs[i].addr /\ regs[n].addr = regs[i].addr
  <2>1. s = SubSeq(regs, 1, i - 1)
    BY <1>1, <1>2, <1>5 DEF _remove_region
  <2>2. Len(s) = i - 1 /\ s[j] = regs[j]
    BY <1>1, <1>3, <2>1
  <2>3. j \in 1..n /\ j # i
    BY <1>1, <1>3, <2>2
  <2> QED
    BY <1>1, <1>3, <2>2, <2>3
<1>6. CASE regs[1].addr # regs[i].addr /\ regs[n].addr # regs[i].addr
  <2>1. s = RemoveIndex(regs, i)
    BY <1>1, <1>2, <1>6 DEF _remove_region
  <2>2. Len(s) = n - 1 /\ s[j] = IF j < i THEN regs[j] ELSE regs[j + 1]
    BY <1>1, <1>3, <2>1, RemoveIndexFacts
  <2>3. CASE j < i
    <3>1. j \in 1..n /\ j # i /\ s[j] = regs[j]
      BY <1>1, <1>3, <2>2, <2>3
    <3> QED
      BY <1>1, <1>3, <3>1
  <2>4. CASE ~(j < i)
    <3>1. j + 1 \in 1..n /\ j + 1 # i /\ s[j] = regs[j + 1]
      BY <1>1, <1>3, <2>2, <2>4
    <3> QED
      BY <1>1, <1>3, <3>1
  <2> QED
    BY <2>3, <2>4
<1> QED
  BY <1>4, <1>5, <1>6

(* A single page is unmapped. *)
LEMMA MunmapHonest ==
    ASSUME NEW a \in HonestSpaces, NEW fr \in SUBSET (Frames \cup {0}), NEW m, NEW addr \in UserAddresses, NEW i,
           Munmaps(a, fr, m, {}, addr, i)
    PROVE  Honest(m.a)
<1>1. a \in Space /\ a.regs \in Seq(Region) /\ Sorted(a.regs) /\ a.elf_end \in Nat
  BY HonestIs
<1>2. Protected(a) /\ Begun(a) /\ Agreed(a) /\ Owned(a) /\ EndWritable(a)
  BY HonestIs
<1>3. i = _find_region(a, addr) /\ i # 0 /\ m = vmm_munmap(a, fr, addr) /\ Unmapping(m, a, fr, i) /\ MunmapOdd(a, addr, i) = {}
  BY DEF Munmaps
<1>4. a.regs[i].addr = addr /\ a.regs[i].size = PAGE_SIZE /\ addr % PAGE_SIZE = 0
  BY <1>3 DEF MunmapOdd
<1>5. CASE m.st # "ok"
  <2>1. m.a = a
    BY <1>3, <1>5 DEF Unmapping
  <2> QED
    BY <1>2, <2>1 DEF Honest
<1>6. CASE m.st = "ok"
  <2>1. m.a.regs = _remove_region(a.regs, i) /\ m.a.elf_end = a.elf_end
    BY <1>3, <1>6 DEF Unmapping, SameEnds
  <2>2. PICK e : e = a.pt[Page(addr)]
    OBVIOUS
  <2>3. OnePageGone(m, a, fr, addr, e)
    <3>1. m = vmm_munmap(a, fr, addr) /\ i = _find_region(a, addr) /\ i # 0
      BY <1>3
    <3> QED
      BY <1>1, <1>4, <1>6, <2>2, <3>1, MunmapPage
  <2>4. \A p \in UserPages : m.a.pt[p] = IF p = Page(addr) THEN Absent ELSE a.pt[p]
    BY <2>3 DEF OnePageGone
  <2>5. i \in 1..Len(a.regs) /\ a.regs[i] \in Region /\ a.regs[i] \in Listed(a.regs)
    BY <1>1, <1>3, FindRegion
  <2>6. Listed(m.a.regs) \subseteq Listed(a.regs)
    BY <1>1, <2>1, <2>5, RemoveRegion
  <2>7. addr \in Nat /\ PAGE_SIZE \in Nat /\ PAGE_SIZE > 0 /\ End(a.regs[i]) = addr + PAGE_SIZE
    <3>1. addr \in Nat /\ PAGE_SIZE \in Nat /\ PAGE_SIZE > 0
      BY UserPage, Machine
    <3> QED
      BY <1>4, <3>1 DEF End
  <2>8. Protected(m.a)
    BY <1>2, <2>4, <2>6 DEF Protected
  <2>9. Begun(m.a)
    <3> SUFFICES ASSUME NEW r \in Listed(m.a.regs), r.size > 0, r.addr # a.elf_end, Page(r.addr) \in UserPages
                 PROVE  m.a.pt[Page(r.addr)] # Absent
      BY <2>1 DEF Begun
    <3>1. a.pt[Page(r.addr)] # Absent
      BY <1>2, <2>6 DEF Begun
    <3>2. PICK k \in 1..Len(a.regs) : k # i /\ r = a.regs[k]
      BY <1>1, <2>1, <2>5, RemovedOthers
    <3>3. r \in Region
      BY <1>1, <3>2
    <3>4. r.addr \in Nat /\ r.size \in Nat /\ End(r) = r.addr + r.size
      BY <3>3, EndIsNat, Zenon
    <3>5. Page(r.addr) # Page(addr)
      <4>1. CASE k < i
        <5>1. End(r) <= addr
          BY <1>1, <1>4, <2>5, <3>2, <4>1 DEF Sorted
        <5>2. r.addr < addr
          BY <2>7, <3>4, <5>1
        <5>3. Page(r.addr) < Page(addr)
          BY <1>4, <2>7, <3>4, <5>2, PageBefore
        <5>4. Page(r.addr) \in Nat /\ Page(addr) \in Nat
          BY <2>7, <3>4, PageIs
        <5> QED
          BY <5>3, <5>4
      <4>2. CASE i < k
        <5>1. addr + PAGE_SIZE <= r.addr
          BY <1>1, <2>5, <2>7, <3>2, <4>2 DEF Sorted
        <5>2. PAGE_SIZE * Page(addr) <= addr /\ Page(addr) \in Nat
          BY <2>7, PageIs
        <5>3. Page(r.addr) \in Nat /\ r.addr < PAGE_SIZE * Page(r.addr) + PAGE_SIZE
          BY <3>4, PageIs
        <5>4. addr % PAGE_SIZE = 0 /\ addr = PAGE_SIZE * Page(addr)
          <6>1. addr \in Int
            BY <2>7
          <6>2. addr = PAGE_SIZE * (addr \div PAGE_SIZE) + (addr % PAGE_SIZE) /\ addr \div PAGE_SIZE \in Int
            BY <2>7, <6>1, DivMod
          <6> QED
            BY <1>4, <2>7, <6>2 DEF Page
        <5> QED
          BY <2>7, <3>4, <5>1, <5>2, <5>3, <5>4
      <4> QED
        BY <2>5, <3>2, <4>1, <4>2
    <3> QED
      BY <2>4, <3>1, <3>5
  <2>10. Agreed(m.a)
    BY <1>2, <2>6 DEF Agreed
  <2>11. Owned(m.a)
    <3> SUFFICES ASSUME NEW p \in UserPages, m.a.pt[p] # Absent, Page(a.elf_end) <= p
                 PROVE  \E r \in Listed(m.a.regs) : p \in PagesOf(r.addr, r.size)
      BY <2>1 DEF Owned
    <3>1. p # Page(addr) /\ a.pt[p] # Absent
      BY <2>4
    <3>2. PICK r \in Listed(a.regs) : p \in PagesOf(r.addr, r.size)
      BY <1>2, <3>1 DEF Owned
    <3>3. r \in Region
      BY <1>1, ListedIs
    <3>4. r.addr \in Nat /\ r.size \in Nat /\ End(r) = r.addr + r.size
      BY <3>3, EndIsNat, Zenon
    <3>5. r.size > 0
      BY <3>2, <3>4, PagesSpan
    <3>6. r.addr # addr
      <4> SUFFICES ASSUME r.addr = addr PROVE FALSE
        OBVIOUS
      <4>1. r.addr <= addr /\ addr < End(r) /\ a.regs[i].addr <= addr /\ addr < End(a.regs[i])
        BY <1>4, <2>7, <3>4, <3>5
      <4>2. r = a.regs[i]
        BY <1>1, <2>5, <2>7, <4>1, SameByte
      <4>3. PagesOf(r.addr, r.size) = {Page(addr)}
        BY <1>4, <2>5, <4>2, OnePage
      <4> QED
        BY <3>1, <3>2, <4>3
    <3>7. a.regs[i].size > 0 /\ r.addr # a.regs[i].addr
      BY <1>4, <2>7, <3>6
    <3>8. r \in Listed(m.a.regs)
      BY <1>1, <2>1, <2>5, <3>5, <3>7, RemoveKeeps
    <3> QED
      BY <3>2, <3>8
  <2>12. EndWritable(m.a)
    BY <1>2, <2>1, <2>6 DEF EndWritable
  <2> QED
    BY <2>8, <2>9, <2>10, <2>11, <2>12 DEF Honest
<1> QED
  BY <1>5, <1>6

(* An access maps a page. *)
LEMMA AccessesHonest ==
    ASSUME NEW a \in HonestSpaces, NEW fr, NEW m, NEW addr \in UserAddresses, NEW i,
           Accesses(a, fr, m, addr, i), InRegion(a, addr)
    PROVE  Honest(m.a)
<1>1. a.regs \in Seq(Region) /\ a.pt \in Table
  BY HonestIs
<1>2. Protected(a) /\ Begun(a) /\ Agreed(a) /\ Owned(a) /\ EndWritable(a)
  BY HonestIs
<1>3. i = _find_region(a, addr) /\ a.pt[Page(addr)] = Absent /\ m.a.regs = a.regs /\ m.a.elf_end = a.elf_end
  BY DEF Accesses, SameEnds
<1>4. addr \in Nat /\ Page(addr) \in UserPages
  BY UserPage
<1>5. /\ \A p \in UserPages : p # Page(addr) => m.a.pt[p] = a.pt[p]
      /\ m.a.pt[Page(addr)].rw = a.regs[i].rw
  BY <1>1, <1>4 DEF Accesses, Table
<1>6. PICK g \in Listed(a.regs) : g.addr <= addr /\ addr < End(g)
  BY DEF InRegion, Listed
<1>7. g \in Region
  BY <1>1, ListedIs
<1>8. g.addr \in Nat /\ g.size \in Nat /\ End(g) = g.addr + g.size
  BY <1>7, EndIsNat, Zenon
<1>9. Page(addr) \in PagesOf(g.addr, g.size)
  BY <1>4, <1>6, <1>8, PagesIn
<1>10. a.regs[i].rw = g.rw
  <2>1. a.pt[Page(addr)] = Absent /\ a.regs[i] # g => BothWritable(a.regs[i], g)
    BY <1>3, <1>6, FoundFirst
  <2> QED
    BY <1>3, <2>1 DEF BothWritable
<1>11. Protected(m.a)
  <2> SUFFICES ASSUME NEW r \in Listed(a.regs), NEW p \in PagesOf(r.addr, r.size) \cap UserPages, m.a.pt[p] # Absent
               PROVE  m.a.pt[p].rw = r.rw
    BY <1>3 DEF Protected
  <2>1. CASE p = Page(addr)
    <3>1. g.rw = r.rw
      BY <1>2, <1>9, <2>1 DEF Agreed
    <3> QED
      BY <1>5, <1>10, <2>1, <3>1
  <2>2. CASE p # Page(addr)
    BY <1>2, <1>5, <2>2 DEF Protected
  <2> QED
    BY <2>1, <2>2
<1>12. Begun(m.a)
  BY <1>2, <1>3, <1>5 DEF Begun
<1>13. Agreed(m.a) /\ EndWritable(m.a)
  BY <1>2, <1>3 DEF Agreed, EndWritable
<1>14. Owned(m.a)
  BY <1>2, <1>3, <1>5, <1>6, <1>9 DEF Owned
<1> QED
  BY <1>11, <1>12, <1>13, <1>14 DEF Honest

(* A walk begins with the first page. *)
LEMMA FirstStep ==
    ASSUME NEW r \in Region, r.size > 0
    PROVE  Page(r.addr) \in Steps(r)
<1>1. r.addr \in Nat /\ r.size \in Nat /\ End(r) = r.addr + r.size
  BY EndIsNat
<1>2. PICK z \in Int : z = 0 * PAGE_SIZE /\ z = 0
  BY Machine
<1>3. r.addr = r.addr + z /\ 0 \in 0..r.size /\ r.addr \in r.addr..(End(r) - 1)
  BY <1>1, <1>2
<1>4. r.addr \in {r.addr + k * PAGE_SIZE : k \in 0..r.size}
  BY <1>2, <1>3
<1> QED
  BY <1>3, <1>4 DEF Steps

LEMMA ForkHonest ==
    ASSUME NEW a \in HonestSpaces, NEW fr, NEW dst, dst.pt = Clear, NEW m, Forking(m, a, dst, fr)
    PROVE  Honest(m.a)
<1>1. a.regs \in Seq(Region)
  BY HonestIs
<1>2. Protected(a) /\ Begun(a) /\ Agreed(a) /\ Owned(a) /\ EndWritable(a)
  BY HonestIs
<1>3. m.a.regs = a.regs /\ m.a.elf_end = a.elf_end
  BY DEF Forking, SameEnds
<1>4. CASE m.st # "ok"
  <2>1. m.a = a
    BY <1>4 DEF Forking
  <2> QED
    BY <1>2, <2>1 DEF Honest
<1>5. CASE m.st = "ok"
  <2>1. ASSUME NEW p \in UserPages, m.a.pt[p] # Absent
        PROVE  \E r \in Listed(a.regs) : p \in PagesOf(r.addr, r.size) /\ m.a.pt[p].rw = r.rw
    <3>0. Walked(a, p)
      <4>1. Clear[p] = Absent
        BY DEF Clear
      <4> QED
        BY <1>5, <2>1, <4>1 DEF Forking
    <3>1. PICK i \in 1..Len(a.regs) : p \in Steps(a.regs[i]) /\ m.a.pt[p].rw = a.regs[i].rw
      BY <1>5, <3>0 DEF Forking
    <3>2. a.regs[i] \in Region /\ a.regs[i] \in Listed(a.regs)
      BY <1>1, ListedIs
    <3>3. p \in PagesOf(a.regs[i].addr, a.regs[i].size)
      BY <3>1, <3>2, StepsAre
    <3> QED
      BY <3>1, <3>2, <3>3
  <2>2. Protected(m.a)
    <3> SUFFICES ASSUME NEW r \in Listed(a.regs), NEW p \in PagesOf(r.addr, r.size) \cap UserPages, m.a.pt[p] # Absent
                 PROVE  m.a.pt[p].rw = r.rw
      BY <1>3 DEF Protected
    <3>1. PICK q \in Listed(a.regs) : p \in PagesOf(q.addr, q.size) /\ m.a.pt[p].rw = q.rw
      BY <2>1
    <3>2. r.rw = q.rw
      BY <1>2, <3>1 DEF Agreed
    <3> QED
      BY <3>1, <3>2
  <2>3. Begun(m.a)
    <3> SUFFICES ASSUME NEW r \in Listed(a.regs), r.size > 0, Page(r.addr) \in UserPages
                 PROVE  m.a.pt[Page(r.addr)] # Absent
      BY <1>3 DEF Begun
    <3>1. PICK i \in 1..Len(a.regs) : r = a.regs[i]
      BY DEF Listed
    <3>2. r \in Region
      BY <1>1, ListedIs
    <3>3. Page(r.addr) \in Steps(r)
      BY <3>2, FirstStep
    <3>4. Walked(a, Page(r.addr))
      BY <3>1, <3>3 DEF Walked
    <3> QED
      BY <1>5, <3>4 DEF Forking
  <2>4. Agreed(m.a) /\ EndWritable(m.a)
    BY <1>2, <1>3 DEF Agreed, EndWritable
  <2>5. Owned(m.a)
    BY <1>3, <2>1 DEF Owned
  <2> QED
    BY <2>2, <2>3, <2>4, <2>5 DEF Honest
<1> QED
  BY <1>4, <1>5

(* No break of a space whose heap is covered is moved without its heap. *)
LEMMA NotLost ==
    ASSUME NEW a \in HonestSpaces, NEW fr, NEW m, NEW what, NEW d, Evolves(a, fr, m, what, d), what \cap HonestOdd = {}
    PROVE  what \cap ShapeOdd = {} /\ what \cap HeapOdd = {}
<1>1. HasHeap(a)
  BY HonestIs DEF HeapSpaces
<1>2. "lost heap" \notin what
  <2>1. ASSUME NEW hint, NEW size, NEW rw, NEW avail, Mmaps(a, fr, m, what, hint, size, rw, avail) PROVE "lost heap" \notin what
    BY <2>1 DEF Mmaps, MmapOdd
  <2>2. ASSUME NEW addr, NEW i, Munmaps(a, fr, m, what, addr, i) PROVE "lost heap" \notin what
    BY <2>2 DEF Munmaps, MunmapOdd
  <2>3. ASSUME NEW addr, Brks(a, fr, m, what, addr) PROVE "lost heap" \notin what
    BY <1>1, <2>3 DEF Brks, BrkOdd
  <2> QED
    BY <2>1, <2>2, <2>3 DEF Evolves
<1> QED
  BY <1>2 DEF HonestOdd, ShapeOdd, HeapOdd

LEMMA EvolveHonest ==
    ASSUME NEW a \in HonestSpaces, NEW fr \in SUBSET (Frames \cup {0}), NEW m, NEW what, NEW d, Evolves(a, fr, m, what, d),
           what \cap HonestOdd = {}
    PROVE  m.a \in HonestSpaces
<1>1. a \in HeapSpaces /\ a \in ShapedSpaces /\ a \in Typed /\ a.data_end \in Nat /\ Honest(a)
  BY HonestIs DEF HonestSpaces
<1>2. what \cap ShapeOdd = {} /\ what \cap HeapOdd = {}
  BY NotLost
<1>3. m.a \in ShapedSpaces
  BY <1>1, <1>2, EvolveShaped
<1>4. m.a \in HeapSpaces
  BY <1>1, <1>2, EvolveHeap
<1>5. m.a.elf_end = a.elf_end
  BY <1>1, EvolveTyped
<1>6. ASSUME NEW hint \in Nat, NEW size \in Nat, NEW rw, NEW avail, Mmaps(a, fr, m, what, hint, size, rw, avail) PROVE Honest(m.a)
  <2>1. hint = 0
    <3>1. what = MmapOdd(a, hint, size, avail, m)
      BY <1>6 DEF Mmaps
    <3>2. "fixed address" \notin what /\ "unaligned address" \notin what
      BY DEF HonestOdd
    <3> QED
      BY <3>1, <3>2, NoHint
  <2>2. Mmaps(a, fr, m, what, 0, size, rw, avail)
    BY <1>6, <2>1
  <2> QED
    BY <1>3, <2>2, MmapHonest
<1>7. ASSUME NEW addr \in UserAddresses, NEW i, Munmaps(a, fr, m, what, addr, i) PROVE Honest(m.a)
  <2>1. what = {}
    <3>1. what = MunmapOdd(a, addr, i)
      BY <1>7 DEF Munmaps
    <3> QED
      BY <3>1 DEF MunmapOdd, HonestOdd
  <2>2. Munmaps(a, fr, m, {}, addr, i)
    BY <1>7, <2>1
  <2> QED
    BY <2>2, MunmapHonest
<1>8. ASSUME NEW addr \in Nat, Brks(a, fr, m, what, addr) PROVE Honest(m.a)
  <2>1. PICK i : i = _find_region(a, a.elf_end + 1)
    OBVIOUS
  <2>2. Breaking(m, a, fr, i, addr) /\ what = BrkOdd(a, addr)
    BY <1>8, <2>1 DEF Brks
  <2>3. CASE m.st # "ok"
    <3>1. m.a = a
      BY <2>2, <2>3 DEF Breaking
    <3> QED
      BY <1>1, <3>1
  <2>4. CASE m.st = "ok"
    <3>1. Moves(a, m.a, i, addr)
      BY <2>2, <2>4 DEF Breaking
    <3>2. ~(a.data_end - addr >= PAGE_SIZE)
      BY <2>2 DEF BrkOdd, HonestOdd
    <3>3. a.data_end < addr + PAGE_SIZE
      BY <1>1, <3>2, Machine
    <3> QED
      BY <1>3, <1>4, <1>5, <2>1, <3>1, <3>3, MovesHonest
  <2> QED
    BY <2>3, <2>4
<1>9. ASSUME NEW addr \in UserAddresses, NEW i, Accesses(a, fr, m, addr, i), InRegion(a, addr) \/ "illegal access" \in what
      PROVE  Honest(m.a)
  <2>1. InRegion(a, addr)
    BY <1>9 DEF HonestOdd
  <2> QED
    BY <1>9, <2>1, AccessesHonest
<1>10. Honest(m.a)
  BY <1>6, <1>7, <1>8, <1>9, Zenon DEF Evolves
<1> QED
  BY <1>3, <1>4, <1>10 DEF HonestSpaces

(* A region of a segment ends within the segment or at the end of a page. *)
LEMMA SegmentEnds ==
    ASSUME NEW seg, Linked(seg), NEW r \in SegRegions(seg)
    PROVE  End(r) <= seg.vaddr + seg.memsz \/ End(r) % PAGE_SIZE = 0
<1>1. seg \in Segment /\ seg.filesz <= seg.memsz /\ seg.align % PAGE_SIZE = 0
  BY DEF Linked
<1>2. seg.vaddr \in Nat /\ seg.filesz \in Nat /\ seg.memsz \in Nat /\ seg.align \in Nat /\ seg.align > 0
  BY <1>1, SegmentIs
<1>3. PICK v \in Nat, f \in Nat, s \in Nat, d \in Nat : v = seg.vaddr /\ f = seg.filesz /\ s = seg.memsz /\ d = seg.align
  BY <1>2
<1>4. f <= s /\ d > 0 /\ d % PAGE_SIZE = 0
  BY <1>1, <1>2, <1>3
<1>5. ASSUME NEW x \in Nat, NEW y \in Nat, NEW n \in Nat, n = aligned_size(x, y, d)
      PROVE  n = y \/ (x + n) % PAGE_SIZE = 0
  <2>1. CASE y % d = 0
    BY <1>4, <1>5, <2>1, AlignedEnd
  <2>2. CASE y % d # 0
    <3>1. PICK e \in Int : e = x + n
      OBVIOUS
    <3>2. e % d = 0
      BY <1>4, <1>5, <2>2, <3>1, AlignedEnd
    <3>3. e % PAGE_SIZE = 0
      BY <1>4, <3>2, MultipleOf
    <3> QED
      BY <3>1, <3>3
  <2> QED
    BY <2>1, <2>2
<1>6. CASE r = FileRegion(seg) /\ f # 0
  <2>1. PICK n \in Nat : n = FileSize(seg) /\ (s > f => n = f)
    BY <1>1, <1>3, SegmentSizes
  <2>2. r.addr = v /\ r.size = n /\ End(r) = v + n
    BY <1>3, <1>6, <2>1 DEF FileRegion, End
  <2>3. n = f \/ (v + n) % PAGE_SIZE = 0
    <3>1. CASE s > f
      BY <2>1, <3>1
    <3>2. CASE ~(s > f)
      <4>1. n = aligned_size(v, f, d)
        BY <1>3, <2>1, <3>2 DEF FileSize, FileUnit
      <4> QED
        BY <1>5, <4>1
    <3> QED
      BY <3>1, <3>2
  <2>4. v + f <= v + s
    BY <1>4
  <2> QED
    BY <1>3, <2>2, <2>3, <2>4
<1>7. CASE r = BssRegion(seg) /\ s > f
  <2>1. PICK x \in Nat, y \in Nat : x = v + f /\ y = s - f
    BY <1>7
  <2>2. PICK n \in Nat : n = BssSize(seg)
    BY <1>1, <1>3, <1>7, SegmentSizes
  <2>3. r.addr = x /\ r.size = n /\ End(r) = x + n
    BY <1>3, <1>7, <2>1, <2>2 DEF BssRegion, End
  <2>4. n = aligned_size(x, y, d)
    BY <1>3, <2>1, <2>2 DEF BssSize
  <2>5. n = y \/ (x + n) % PAGE_SIZE = 0
    BY <1>5, <2>4
  <2>6. n = y => x + n = v + s
    BY <2>1
  <2> QED
    BY <1>3, <2>3, <2>5, <2>6
<1>8. (r = FileRegion(seg) /\ f # 0) \/ (r = BssRegion(seg) /\ s > f)
  BY <1>3 DEF SegRegions
<1> QED
  BY <1>6, <1>7, <1>8

(* No page of a segment's regions is in front of the segment. *)
LEMMA RegionPages ==
    ASSUME NEW seg, Linked(seg), NEW r \in SegRegions(seg), NEW p \in PagesOf(r.addr, r.size)
    PROVE  /\ p \in Nat /\ Page(seg.vaddr) \in Nat /\ Page(seg.vaddr) <= p
           /\ End(r) - 1 \in Nat /\ Page(End(r) - 1) \in Nat /\ p <= Page(End(r) - 1)
<1>1. seg.vaddr \in Nat
  BY SegmentIs DEF Linked
<1>2. r \in Region /\ seg.vaddr <= r.addr
  BY SegmentRegions
<1>3. r.addr \in Nat /\ r.size \in Nat /\ End(r) = r.addr + r.size
  BY <1>2, EndIsNat, Zenon
<1>4. r.size > 0 /\ p \in Nat /\ Page(r.addr) <= p /\ p <= Page(r.addr + r.size - 1)
  BY <1>3, PagesSpan
<1>5. Page(seg.vaddr) \in Nat /\ Page(r.addr) \in Nat /\ Page(seg.vaddr) <= Page(r.addr)
  BY <1>1, <1>2, <1>3, PageIs, PageMono
<1>6. PICK e \in Nat : e = End(r) - 1 /\ e = r.addr + r.size - 1
  BY <1>3, <1>4
<1>7. Page(e) \in Nat
  BY PageIs
<1> QED
  BY <1>4, <1>5, <1>6, <1>7

LEMMA OwnSegPages ==
    ASSUME NEW seg, Linked(seg), NEW p \in SegPages(seg)
    PROVE  /\ p \in Nat /\ Page(seg.vaddr) \in Nat /\ Page(seg.vaddr) <= p
           /\ seg.vaddr + seg.memsz - 1 \in Nat
           /\ Page(seg.vaddr + seg.memsz - 1) \in Nat /\ p <= Page(seg.vaddr + seg.memsz - 1)
<1>1. seg.vaddr \in Nat /\ seg.memsz \in Nat
  BY SegmentIs DEF Linked
<1>2. seg.memsz > 0 /\ p \in Nat /\ Page(seg.vaddr) <= p /\ p <= Page(seg.vaddr + seg.memsz - 1)
  BY <1>1, PagesSpan DEF SegPages
<1>3. PICK e \in Nat : e = seg.vaddr + seg.memsz - 1
  BY <1>1, <1>2
<1> QED
  BY <1>1, <1>2, <1>3, PageIs

(* Where the pages of a segment's region reach the next segments, these have its
   protection. *)
LEMMA RegionReaches ==
    ASSUME NEW prog \in Programs, InOrder(prog, Len(prog)), NEW j \in 1..Len(prog), NEW k \in 1..Len(prog), j < k,
           NEW r \in SegRegions(prog[j]), NEW p \in PagesOf(r.addr, r.size), Page(prog[k].vaddr) <= p
    PROVE  prog[j].rw = prog[k].rw
<1> SUFFICES ASSUME prog[j].rw # prog[k].rw PROVE FALSE
  OBVIOUS
<1>1. Linked(prog[j]) /\ Linked(prog[k]) /\ Page(prog[j].vaddr + prog[j].memsz - 1) < Page(prog[k].vaddr)
  BY ProgramLinked
<1>2. p \in Nat /\ End(r) - 1 \in Nat /\ Page(End(r) - 1) \in Nat /\ p <= Page(End(r) - 1)
  BY <1>1, RegionPages
<1>3. prog[j].vaddr \in Nat /\ prog[j].memsz \in Nat /\ prog[k].vaddr \in Nat /\ prog[j].memsz # 0
  BY <1>1, SegmentIs DEF Linked
<1>4. Page(prog[k].vaddr) \in Nat
  BY <1>3, PageIs
<1>5. End(r) <= prog[k].vaddr
  BY DEF InOrder
<1>6. r \in Region
  BY <1>1, SegmentRegions
<1>7. PICK e \in Nat : e = End(r) /\ e > 0
  BY <1>2, <1>6, EndIsNat
<1>8. CASE e <= prog[j].vaddr + prog[j].memsz
  <2>1. PICK x \in Nat, y \in Nat : x = e - 1 /\ y = prog[j].vaddr + prog[j].memsz - 1 /\ x <= y
    BY <1>3, <1>7, <1>8
  <2>2. Page(x) <= Page(y) /\ Page(x) \in Nat /\ Page(y) \in Nat
    BY <2>1, PageMono, PageIs
  <2> QED
    BY <1>1, <1>2, <1>4, <1>7, <2>1, <2>2
<1>9. CASE e % PAGE_SIZE = 0
  <2>1. PICK x \in Nat : x = e - 1 /\ x < e
    BY <1>7
  <2>2. Page(x) < Page(e)
    BY <1>9, <2>1, PageBefore
  <2>3. Page(x) \in Nat /\ Page(e) \in Nat /\ Page(e) <= Page(prog[k].vaddr)
    BY <1>3, <1>5, <1>7, PageIs, PageMono
  <2> QED
    BY <1>2, <1>4, <1>7, <2>1, <2>2, <2>3
<1> QED
  BY <1>1, <1>7, <1>8, <1>9, SegmentEnds

LEMMA SegmentReaches ==
    ASSUME NEW prog \in Programs, NEW j \in 1..Len(prog), NEW k \in 1..Len(prog), j < k,
           NEW p \in SegPages(prog[j]), Page(prog[k].vaddr) <= p
    PROVE  prog[j].rw = prog[k].rw
<1> SUFFICES ASSUME prog[j].rw # prog[k].rw PROVE FALSE
  OBVIOUS
<1>1. Linked(prog[j]) /\ Linked(prog[k]) /\ Page(prog[j].vaddr + prog[j].memsz - 1) < Page(prog[k].vaddr)
  BY ProgramLinked
<1>2. p \in Nat /\ Page(prog[j].vaddr + prog[j].memsz - 1) \in Nat /\ p <= Page(prog[j].vaddr + prog[j].memsz - 1)
  BY <1>1, OwnSegPages
<1>3. Page(prog[k].vaddr) \in Nat
  BY <1>1, SegmentIs, PageIs DEF Linked
<1> QED
  BY <1>1, <1>2, <1>3

(* What is on one page has one protection. *)
LEMMA OneProtection ==
    ASSUME NEW prog \in Programs, InOrder(prog, Len(prog)), NEW j \in 1..Len(prog), NEW k \in 1..Len(prog),
           NEW r \in SegRegions(prog[j]), NEW p \in PagesOf(r.addr, r.size)
    PROVE  /\ p \in SegPages(prog[k]) => prog[k].rw = prog[j].rw
           /\ \A q \in SegRegions(prog[k]) : p \in PagesOf(q.addr, q.size) => prog[k].rw = prog[j].rw
<1>1. Linked(prog[j]) /\ Linked(prog[k])
  BY ProgramLinked
<1>2. Page(prog[j].vaddr) <= p
  BY <1>1, RegionPages
<1>3. ASSUME j < k, Page(prog[k].vaddr) <= p PROVE prog[k].rw = prog[j].rw
  BY <1>3, RegionReaches
<1>4. ASSUME p \in SegPages(prog[k]) PROVE prog[k].rw = prog[j].rw
  <2>1. CASE j < k
    BY <1>1, <1>3, <1>4, <2>1, OwnSegPages
  <2>2. CASE k < j
    BY <1>2, <1>4, <2>2, SegmentReaches
  <2> QED
    BY <2>1, <2>2
<1>5. ASSUME NEW q \in SegRegions(prog[k]), p \in PagesOf(q.addr, q.size) PROVE prog[k].rw = prog[j].rw
  <2>1. CASE j < k
    BY <1>1, <1>3, <1>5, <2>1, RegionPages
  <2>2. CASE k < j
    BY <1>2, <1>5, <2>2, RegionReaches
  <2> QED
    BY <2>1, <2>2
<1> QED
  BY <1>4, <1>5

(* The stack has pages of its own. *)
LEMMA StackPages ==
    ASSUME NEW prog \in Programs, InOrder(prog, Len(prog)), NEW r \in RegionsOf(prog, Len(prog)),
           NEW p \in PagesOf(r.addr, r.size)
    PROVE  p \notin PagesOf(StackEnd, StackSize)
<1> SUFFICES ASSUME p \in PagesOf(StackEnd, StackSize) PROVE FALSE
  OBVIOUS
<1>1. StackEnd \in Nat /\ StackSize \in Nat /\ PAGE_SIZE \in Nat /\ PAGE_SIZE > 0
  BY StackIs, Machine
<1>2. StackEnd % PAGE_SIZE = 0
  <2>1. VM_USER_STACK \in Int /\ StackSize \in Int /\ VM_USER_STACK % PAGE_SIZE = 0 /\ StackSize % PAGE_SIZE = 0
    BY VmmAssumption
  <2> QED
    BY <1>1, <2>1, Multiples DEF StackEnd
<1>3. Page(StackEnd) \in Nat /\ Page(StackEnd) <= p /\ p \in Nat
  BY <1>1, PagesSpan, PageIs
<1>4. PICK n : n = Len(prog) /\ n \in 1..n /\ Linked(prog[n]) /\ \A k \in 1..n : Linked(prog[k])
  BY ProgramLinked
<1>5. PICK j \in 1..n : r \in SegRegions(prog[j])
  BY <1>4 DEF RegionsOf
<1>6. End(r) - 1 \in Nat /\ Page(End(r) - 1) \in Nat /\ p <= Page(End(r) - 1)
  BY <1>4, <1>5, RegionPages
<1>7. r \in Region /\ End(r) <= SegEnd(prog[n])
  BY <1>4, ProgramRegions
<1>8. SegEnd(prog[n]) \in Nat /\ SegEnd(prog[n]) + PAGE_SIZE <= StackEnd
  BY <1>4, SegmentIs DEF Linked, SegEnd
<1>9. PICK x \in Nat : x = End(r) - 1 /\ x < StackEnd
  BY <1>1, <1>6, <1>7, <1>8, EndIsNat
<1>10. Page(x) < Page(StackEnd)
  BY <1>1, <1>2, <1>9, PageBefore
<1> QED
  BY <1>3, <1>6, <1>9, <1>10

(* A program that has just been loaded finds its memory as its regions say. *)
LEMMA NewHonest ==
    ASSUME NEW prog \in Programs, NEW a, NewSpace(a, prog, Clear)
    PROVE  a \in HonestSpaces
<1>1. a \in HeapSpaces /\ a \in ShapedSpaces
  BY NewHeap, NewShaped
<1>2. /\ Listed(a.regs) = RegionsOf(prog, Len(prog)) \cup {StackRegion}
      /\ a.elf_end = SegEnd(prog[Len(prog)]) /\ a.elf_end + PAGE_SIZE <= StackEnd /\ InOrder(prog, Len(prog))
  BY DEF NewSpace
<1>3. PICK pt : Tabled(pt, prog, Len(prog), Clear) /\ MapsPages(pt, PagesOf(StackEnd, StackSize), TRUE, a.pt)
  BY DEF NewSpace
<1>a. \A p \in UserPages : Clear[p] = Absent
  BY DEF Clear
<1>4. /\ StackRegion.addr = StackEnd /\ StackRegion.size = StackSize /\ StackRegion.rw = TRUE
      /\ StackEnd \in Nat /\ StackSize \in Nat /\ StackSize > 0 /\ PAGE_SIZE \in Nat /\ PAGE_SIZE > 0
  BY StackIs, Machine DEF StackRegion
<1>5. Len(prog) \in 1..Len(prog) /\ prog[Len(prog)].rw /\ \A k \in 1..Len(prog) : Linked(prog[k])
  BY ProgramLinked
<1>6. ASSUME NEW r \in Listed(a.regs) PROVE r = StackRegion \/ \E j \in 1..Len(prog) : r \in SegRegions(prog[j]) /\ r \in RegionsOf(prog, Len(prog))
  BY <1>2 DEF RegionsOf
<1>7. a.elf_end \in Nat /\ a.elf_end % PAGE_SIZE = 0
  BY <1>1, ShapedIs
<1>8. Protected(a)
  <2> SUFFICES ASSUME NEW r \in Listed(a.regs), NEW p \in PagesOf(r.addr, r.size) \cap UserPages, a.pt[p] # Absent
               PROVE  a.pt[p].rw = r.rw
    BY DEF Protected
  <2>1. CASE r = StackRegion
    BY <1>3, <1>4, <2>1 DEF MapsPages
  <2>2. ASSUME NEW j \in 1..Len(prog), r \in SegRegions(prog[j]), r \in RegionsOf(prog, Len(prog)) PROVE a.pt[p].rw = r.rw
    <3>1. a.pt[p] = pt[p]
      BY <1>2, <1>3, <2>2, StackPages DEF MapsPages
    <3>2. PICK k \in 1..Len(prog) : p \in SegPages(prog[k]) /\ pt[p].rw = prog[k].rw
      BY <1>3, <1>a, <3>1 DEF Tabled
    <3>3. prog[k].rw = prog[j].rw
      BY <1>2, <2>2, <3>2, OneProtection
    <3>4. r.rw = prog[j].rw
      BY <1>5, <2>2, SegmentRegions
    <3> QED
      BY <3>1, <3>2, <3>3, <3>4
  <2> QED
    BY <1>6, <2>1, <2>2
<1>9. Begun(a)
  <2> SUFFICES ASSUME NEW r \in Listed(a.regs), r.size > 0, Page(r.addr) \in UserPages
               PROVE  a.pt[Page(r.addr)] # Absent
    BY DEF Begun
  <2>1. CASE r = StackRegion
    <3>1. Page(StackEnd) \in PagesOf(StackEnd, StackSize)
      BY <1>4, PagesIn
    <3> QED
      BY <1>3, <1>4, <2>1, <3>1 DEF MapsPages
  <2>2. ASSUME NEW j \in 1..Len(prog), r \in SegRegions(prog[j]) PROVE a.pt[Page(r.addr)] # Absent
    <3>1. Linked(prog[j])
      BY <1>5
    <3>2. r \in Region /\ prog[j].vaddr <= r.addr /\ r.addr < prog[j].vaddr + prog[j].memsz
      BY <2>2, <3>1, SegmentRegions
    <3>3. r.addr \in Nat /\ prog[j].vaddr \in Nat /\ prog[j].memsz \in Nat
      BY <3>1, <3>2, EndIsNat, SegmentIs DEF Linked
    <3>4. Page(r.addr) \in SegPages(prog[j])
      BY <3>2, <3>3, PagesIn DEF SegPages
    <3>5. pt[Page(r.addr)] # Absent
      BY <1>3, <3>4 DEF Tabled
    <3> QED
      BY <1>3, <3>5 DEF MapsPages
  <2> QED
    BY <1>6, <2>1, <2>2
<1>10. Agreed(a)
  <2> SUFFICES ASSUME NEW r \in Listed(a.regs), NEW q \in Listed(a.regs), NEW p \in PagesOf(r.addr, r.size),
                      p \in PagesOf(q.addr, q.size)
               PROVE  r.rw = q.rw
    BY DEF Agreed
  <2>1. ASSUME r = StackRegion \/ q = StackRegion PROVE r.rw = q.rw
    <3>1. r = q
      BY <1>2, <1>4, <1>6, <2>1, StackPages
    <3> QED
      BY <3>1
  <2>2. ASSUME NEW j \in 1..Len(prog), NEW k \in 1..Len(prog), r \in SegRegions(prog[j]), q \in SegRegions(prog[k]) PROVE r.rw = q.rw
    <3>1. prog[k].rw = prog[j].rw
      BY <1>2, <2>2, OneProtection
    <3> QED
      BY <1>5, <2>2, <3>1, SegmentRegions
  <2> QED
    BY <1>6, <2>1, <2>2
<1>11. Owned(a)
  <2> SUFFICES ASSUME NEW p \in UserPages, a.pt[p] # Absent, Page(a.elf_end) <= p, p \notin PagesOf(StackEnd, StackSize)
               PROVE  FALSE
    BY <1>2, <1>4 DEF Owned
  <2>1. a.pt[p] = pt[p]
    BY <1>3 DEF MapsPages
  <2>2. PICK k \in 1..Len(prog) : p \in SegPages(prog[k])
    BY <1>3, <1>a, <2>1 DEF Tabled
  <2>3. Linked(prog[k]) /\ Linked(prog[Len(prog)])
    BY <1>5
  <2>4. PICK y \in Nat : y = prog[k].vaddr + prog[k].memsz - 1 /\ p \in Nat /\ p <= Page(y) /\ Page(y) \in Nat
    BY <2>2, <2>3, OwnSegPages
  <2>5. prog[k].vaddr + prog[k].memsz <= a.elf_end
    <3>1. prog[k].vaddr \in Nat /\ prog[k].memsz \in Nat
      BY <2>3, SegmentIs DEF Linked
    <3>2. PICK n \in 1..Len(prog) : n = Len(prog)
      BY <1>5
    <3>3. prog[n].vaddr \in Nat /\ prog[n].memsz \in Nat /\ prog[n].vaddr + prog[n].memsz <= a.elf_end
      BY <1>2, <2>3, <3>2, SegmentIs DEF Linked, SegEnd
    <3>4. k = n \/ k < n
      BY <3>2
    <3>5. CASE k = n
      BY <3>3, <3>5
    <3>6. CASE k < n
      <4>1. prog[k].vaddr + prog[k].memsz <= prog[n].vaddr
        BY <3>2, <3>6, ProgramLinked
      <4> QED
        BY <1>7, <3>1, <3>3, <4>1
    <3> QED
      BY <3>4, <3>5, <3>6
  <2>6. y < a.elf_end
    <3>1. prog[k].vaddr \in Nat /\ prog[k].memsz \in Nat
      BY <2>3, SegmentIs DEF Linked
    <3> QED
      BY <1>7, <2>4, <2>5, <3>1
  <2>7. Page(y) < Page(a.elf_end) /\ Page(a.elf_end) \in Nat
    BY <1>7, <2>6, PageBefore, PageIs
  <2> QED
    BY <2>4, <2>7
<1>12. EndWritable(a)
  <2> SUFFICES ASSUME NEW r \in Listed(a.regs) PROVE r.rw \/ (r.addr # a.elf_end /\ End(r) # a.elf_end)
    BY DEF EndWritable
  <2>1. ASSUME NEW j \in 1..Len(prog), r \in SegRegions(prog[j]), r \in RegionsOf(prog, Len(prog)), ~r.rw
        PROVE  r.addr # a.elf_end /\ End(r) # a.elf_end
    <3>1. Linked(prog[j]) /\ Linked(prog[Len(prog)])
      BY <1>5
    <3>2. r \in Region /\ r.rw = prog[j].rw /\ r.addr < a.elf_end
      BY <1>2, <2>1, <3>1, SegmentRegions, ProgramRegions
    <3>3. j # Len(prog)
      BY <1>5, <2>1, <3>2
    <3>4. PICK n \in 1..Len(prog) : n = Len(prog) /\ j < n
      BY <1>5, <3>3
    <3>5. End(r) <= prog[n].vaddr
      BY <1>2, <2>1, <3>4 DEF InOrder
    <3>6. prog[n].vaddr \in Nat /\ prog[n].memsz \in Nat /\ prog[n].memsz # 0 /\ prog[n].vaddr + prog[n].memsz <= a.elf_end
      BY <1>2, <3>1, <3>4, SegmentIs DEF Linked, SegEnd
    <3>7. r.addr \in Nat /\ End(r) \in Nat
      BY <3>2, EndIsNat
    <3> QED
      BY <1>7, <3>2, <3>5, <3>6, <3>7
  <2> QED
    BY <1>4, <1>6, <2>1
<1> QED
  BY <1>1, <1>8, <1>9, <1>10, <1>11, <1>12 DEF HonestSpaces, Honest

LEMMA HonestKept == Keeps(HonestSpaces, HonestOdd)
<1>1. HonestSpaces \subseteq Typed
  BY HonestIs
<1>2. ASSUME NEW a \in HonestSpaces, NEW fr \in SUBSET (Frames \cup {0}), NEW dst, Blank(dst, HonestOdd), NEW m,
             Forking(m, a, dst, fr), m.st = "ok"
      PROVE  m.a \in HonestSpaces
  <2>1. a \in HeapSpaces /\ a \in ShapedSpaces
    BY HonestIs
  <2>2. m.a \in HeapSpaces
    BY <1>2, <2>1, ForkHeap
  <2>3. m.a \in ShapedSpaces
    BY <1>2, <2>1, ForkShaped
  <2>4. dst.pt = Clear
    BY <1>2 DEF Blank, HonestOdd
  <2>5. Honest(m.a)
    BY <1>2, <2>4, ForkHonest
  <2> QED
    BY <2>2, <2>3, <2>5 DEF HonestSpaces
<1>3. ASSUME NEW fr \in SUBSET (Frames \cup {0}), NEW prog \in Programs, NEW dst, Blank(dst, HonestOdd), NEW m,
             m = execve_space(dst, fr, prog), m.st = "ok"
      PROVE  m.a \in HonestSpaces
  <2>1. dst \in Space /\ dst.regs = <<>> /\ dst.pt = Clear
    BY <1>3 DEF Blank, HonestOdd
  <2>2. NewSpace(m.a, prog, dst.pt)
    BY <1>3, <2>1, LoadedSpace
  <2>3. NewSpace(m.a, prog, Clear)
    BY <2>1, <2>2
  <2> QED
    BY <2>3, NewHonest
<1>4. ASSUME NEW a \in HonestSpaces, NEW b, Retabled(a, b, HonestOdd) PROVE b \in HonestSpaces
  <2>1. a \in HeapSpaces /\ a \in ShapedSpaces
    BY HonestIs
  <2>2. Protected(a) /\ Begun(a) /\ Agreed(a) /\ Owned(a) /\ EndWritable(a)
    BY HonestIs
  <2>3. b.regs = a.regs /\ b.elf_end = a.elf_end /\ b.pt = a.pt
    BY <1>4 DEF Retabled, SameEnds, HonestOdd
  <2>4. Honest(b)
    BY <2>2, <2>3 DEF Honest, Protected, Begun, Agreed, Owned, EndWritable
  <2>5. Retabled(a, b, HeapOdd) /\ Retabled(a, b, ShapeOdd)
    BY <1>4, <2>3 DEF Retabled
  <2>6. b \in HeapSpaces /\ b \in ShapedSpaces
    BY <2>1, <2>5, HeapKept, ShapedKept DEF Keeps
  <2> QED
    BY <2>4, <2>6 DEF HonestSpaces
<1> QED
  BY <1>1, <1>2, <1>3, <1>4, EvolveHonest DEF Keeps

FaultInv == odd \cap HonestOdd = {} => AllIn(HonestSpaces) /\ fault = "none"

LEMMA NextFault ==
    ASSUME TypeInv, FaultInv, [Next]_vars
    PROVE  FaultInv'
<1>1. CASE UNCHANGED vars
  BY <1>1 DEF FaultInv, AllIn, Live, vars
<1>2. CASE Next
  <2>1. odd \subseteq odd'
    BY <1>2, OddGrows
  <2> SUFFICES ASSUME odd' \cap HonestOdd = {} PROVE AllIn(HonestSpaces)' /\ fault' = "none"
    BY DEF FaultInv
  <2>2. AllIn(HonestSpaces) /\ fault = "none"
    BY <2>1 DEF FaultInv
  <2>3. AllIn(HonestSpaces)'
    BY <1>2, <2>2, HonestKept, EachSpace
  <2>4. PICK t \in Live : Stepping(t)
    BY <1>2, NextSteps
  <2>5. as[t] \in HonestSpaces
    BY <2>2 DEF AllIn
  <2>6. ASSUME NEW addr \in UserAddresses, NEW write \in BOOLEAN, NEW junk \in Junk(1), AccessStep(t, addr, write, junk)
        PROVE  fault' = fault
    <3>1. PICK a : a = as[t]
      OBVIOUS
    <3>2. access(t, addr, write, junk)
      BY <2>6 DEF AccessStep
    <3>3. a.pt[Page(addr)] = Absent \/ (write /\ ~a.pt[Page(addr)].rw)
      BY <3>1, <3>2 DEF access
    <3>4. InRegion(a, addr) /\ (write => Writable(a, addr))
      <4> SUFFICES ASSUME ~(InRegion(a, addr) /\ (write => Writable(a, addr))) PROVE FALSE
        OBVIOUS
      <4>1. "illegal access" \in odd'
        BY <3>1, <3>2 DEF access
      <4> QED
        BY <4>1 DEF HonestOdd
    <3>5. ~segfault(a, addr, write) /\ a.pt[Page(addr)] = Absent
      BY <2>5, <3>1, <3>3, <3>4, AccessHonest
    <3> QED
      BY <3>1, <3>2, <3>5 DEF access
  <2>7. ASSUME NEW b, NEW fr, NEW u, NEW m, NEW what, NEW d, EvolveStep(t, b, fr, u, m, what, d) PROVE fault' = fault
    BY <2>7 DEF EvolveStep
  <2>8. ASSUME NEW c \in Spaces, NEW dst, NEW fr, NEW u, NEW m, ForkStep(t, c, dst, fr, u, m) PROVE fault' = fault
    BY <2>8 DEF ForkStep
  <2>9. ASSUME NEW prog \in Programs, NEW dst, NEW fr, NEW u, NEW m, ExecveStep(t, prog, dst, fr, u, m) PROVE fault' = fault
    BY <2>9 DEF ExecveStep
  <2>10. ASSUME exit(t) PROVE fault' = fault
    BY <2>10 DEF exit
  <2>11. fault' = fault
    BY <2>4, <2>6, <2>7, <2>8, <2>9, <2>10 DEF Stepping, Evolution
  <2> QED
    BY <2>2, <2>3, <2>11
<1> QED
  BY <1>1, <1>2

(* No program is killed for an access to memory of its own and no page fault
   repeats, as long as programs let mmap choose the addresses of whole files,
   unmap single pages, touch their own memory only, give back less than a page
   of their heap and get page tables that hold nothing: every page that is
   mapped has the protection of the regions on it, so vmm_page_fault_handler is
   only reached for pages that are not there, and the region it finds allows what
   the region of the byte does. *)
THEOREM FaultsAlwaysHonest == Spec => []FaultsHonest
<1> DEFINE Inv == TypeInv /\ AllIn(Typed) /\ FaultInv
<1>1. Init => Inv
  <2>1. Init => fault = "none"
    BY DEF Init
  <2>2. Init => FaultInv
    BY <2>1, FirstSpace, HonestKept DEF FaultInv
  <2> QED
    BY <2>2, InitType, TypeFirst
<1>2. Inv /\ [Next]_vars => Inv'
  BY NextType, NextFault
<1>3. Inv => FaultsHonest
  BY DEF FaultInv, FaultsHonest, HonestOdd
<1> QED
  BY <1>1, <1>2, <1>3, PTL DEF Spec
=============================================================================
