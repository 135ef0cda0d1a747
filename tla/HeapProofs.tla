----------------------------- MODULE HeapProofs -----------------------------
(***************************************************************************)
(* Proofs about the two heaps, for heaps of any size, any requests and any *)
(* width of a word: the chunks tile the memory that was used, every free   *)
(* chunk is in exactly one bin, the sortedbin is sorted and what a holder  *)
(* asked for fits into its chunk.                                          *)
(***************************************************************************)
EXTENDS Malloc, SequenceLemmas

(* Below, a request leaves room for the header and one alignment unit (on i386,
   at most 2^32 - 24 bytes: a larger one wraps around in AlignedSize, and malloc
   returns a chunk of 0 or 16 bytes for it) ... *)
RequestsFit == \A req \in Requests : req + CHUNK_DATA_OFFSET + CHUNK_ALIGNMENT <= Word

(* ... and the heap stays below a quarter of the address space, 1 GB on i386,
   which is what the 30 bits of a chunk's size can count. *)
HeapBelowQuarter == MaxVoid - HeapStart < Word \div 4

-----------------------------------------------------------------------------
(* Sizes *)

(* A remainder is the number itself below the modulus. *)
LEMMA SmallMod ==
    ASSUME NEW a \in Nat, NEW b \in Nat, a < b
    PROVE  a % b = a
  BY SMT

(* The least number of bytes a chunk for the request takes. *)
LEMMA AlignedSizeFits ==
    ASSUME RequestsFit, NEW req \in Requests
    PROVE  /\ AlignedSize(req) \in Nat
           /\ AlignedSize(req) >= MINIMAL_CHUNK_SIZE
           /\ AlignedSize(req) >= req + CHUNK_DATA_OFFSET
           /\ req \in Nat
<1> DEFINE r == req % 16
           up == (req - r) + 16
           aligned == IF r > 0 THEN up % Word ELSE req
<1>1. req \in Nat /\ req + 24 <= Word /\ Word \in Nat
  BY HeapAssumption DEF RequestsFit, CHUNK_DATA_OFFSET, CHUNK_ALIGNMENT
<1>2. r \in 0..15 /\ r <= req
  BY <1>1
<1> HIDE DEF r
<1>3. up \in Nat /\ up < Word /\ up >= 16 /\ up >= req
  BY <1>1, <1>2
<1> HIDE DEF up
<1>4. up % Word = up
  BY <1>1, <1>3, SmallMod
<1>5. aligned \in Nat /\ aligned >= req /\ (r > 0 => aligned >= 16) /\ (r = 0 => aligned = req)
  BY <1>1, <1>2, <1>3, <1>4
<1> HIDE DEF aligned
<1>6. (req + 8) % Word = req + 8
  BY <1>1, SmallMod
<1>7. AlignedSize(req) = IF (req + 8) % Word > aligned THEN (aligned + 16) % Word ELSE aligned
  BY DEF AlignedSize, CHUNK_ALIGNMENT, CHUNK_DATA_OFFSET, aligned, up, r
<1>8. CASE req + 8 > aligned
  <2>1. aligned + 16 < Word /\ aligned + 16 \in Nat
    BY <1>1, <1>5, <1>8
  <2>2. (aligned + 16) % Word = aligned + 16
    BY <1>1, <2>1, SmallMod
  <2> QED
    BY <1>1, <1>5, <1>6, <1>7, <1>8, <2>2 DEF MINIMAL_CHUNK_SIZE, CHUNK_DATA_OFFSET
<1>9. CASE ~(req + 8 > aligned)
  BY <1>1, <1>2, <1>5, <1>6, <1>7, <1>9 DEF MINIMAL_CHUNK_SIZE, CHUNK_DATA_OFFSET
<1> QED
  BY <1>8, <1>9

(* A quarter of the address space. *)
LEMMA Quarter == Word \div 4 \in Nat /\ Word \div 4 > MINIMAL_CHUNK_SIZE
  BY HeapAssumption DEF MINIMAL_CHUNK_SIZE

(* A header counts sizes below a quarter of the address space. *)
LEMMA ChunkSizeExact ==
    ASSUME NEW n \in Nat, n >= MINIMAL_CHUNK_SIZE, n < Word \div 4
    PROVE  ChunkSize(n) = n
  BY SmallMod, Quarter DEF ChunkSize, MINIMAL_CHUNK_SIZE

(* No request rounds to a quarter of the address space or more. *)
LEMMA ChunkSizeBounded ==
    ASSUME NEW n \in Nat
    PROVE  ChunkSize(n) \in Nat /\ ChunkSize(n) < Word \div 4
<1> DEFINE m == Word \div 4
<1>1. m \in Nat /\ m > 16
  BY Quarter DEF MINIMAL_CHUNK_SIZE
<1> HIDE DEF m
<1>2. n % m \in Nat /\ n % m < m
  BY <1>1
<1> QED
  BY <1>1, <1>2 DEF ChunkSize, MINIMAL_CHUNK_SIZE, m

-----------------------------------------------------------------------------
(* Chunks *)

Header == [size : Nat, free : BOOLEAN, prev : Nat, req : Nat]

(* The chunks ch tile the memory from the start of the heap to v. *)
Tiled(ch, v) ==
    /\ v \in Nat /\ HeapStart <= v
    /\ HeapStart \in DOMAIN ch \cup {v}
    /\ \A c \in DOMAIN ch :
        /\ c \in Nat /\ HeapStart <= c /\ c < v
        /\ ch[c] \in Header
        /\ ch[c].size >= MINIMAL_CHUNK_SIZE /\ ch[c].size < Word \div 4
        /\ c + ch[c].size \in DOMAIN ch \cup {v}
        /\ \A d \in DOMAIN ch \cup {v} : c < d => c + ch[c].size <= d

(* Only the sizes count. *)
LEMMA TiledSameSizes ==
    ASSUME NEW ch, NEW v, Tiled(ch, v), NEW ch2, DOMAIN ch2 = DOMAIN ch,
           \A c \in DOMAIN ch : ch2[c] \in Header /\ ch2[c].size = ch[c].size
    PROVE  Tiled(ch2, v)
  BY DEF Tiled

(* A chunk at the start of the memory that was never used. *)
LEMMA TiledCreate ==
    ASSUME NEW ch, NEW v, Tiled(ch, v), NEW r \in Header,
           r.size >= MINIMAL_CHUNK_SIZE, r.size < Word \div 4
    PROVE  Tiled(Put(ch, v, r), v + r.size)
<1> DEFINE ch2 == Put(ch, v, r)
           n == r.size
<1>1. n \in Nat /\ n >= 16 /\ v \in Nat /\ HeapStart <= v /\ HeapStart \in Nat /\ n < Word \div 4
  BY HeapAssumption DEF Tiled, Header, MINIMAL_CHUNK_SIZE
<1>2. v \notin DOMAIN ch
  BY <1>1 DEF Tiled
<1>3. DOMAIN ch2 = DOMAIN ch \cup {v} /\ ch2[v] = r /\ \A c \in DOMAIN ch : ch2[c] = ch[c]
  BY <1>2 DEF Put
<1> HIDE DEF ch2, n
<1>4. ASSUME NEW c \in DOMAIN ch2
      PROVE  /\ c \in Nat /\ HeapStart <= c /\ c < v + n
             /\ ch2[c] \in Header
             /\ ch2[c].size >= MINIMAL_CHUNK_SIZE /\ ch2[c].size < Word \div 4
             /\ c + ch2[c].size \in DOMAIN ch2 \cup {v + n}
             /\ \A d \in DOMAIN ch2 \cup {v + n} : c < d => c + ch2[c].size <= d
  <2>1. CASE c = v
    <3>1. ch2[c].size = n
      BY <1>3, <2>1 DEF n
    <3>2. \A d \in DOMAIN ch2 : d <= v
      BY <1>1, <1>3 DEF Tiled
    <3>3. \A d \in DOMAIN ch2 : d \in Nat
      BY <1>1, <1>3 DEF Tiled
    <3> QED
      BY <1>1, <1>3, <2>1, <3>1, <3>2, <3>3 DEF MINIMAL_CHUNK_SIZE
  <2>2. CASE c # v
    <3>1. c \in DOMAIN ch /\ ch2[c] = ch[c]
      BY <1>3, <2>2
    <3>2. /\ c \in Nat /\ HeapStart <= c /\ c < v
          /\ ch[c] \in Header
          /\ ch[c].size >= MINIMAL_CHUNK_SIZE /\ ch[c].size < Word \div 4
          /\ c + ch[c].size \in DOMAIN ch \cup {v}
          /\ \A d \in DOMAIN ch \cup {v} : c < d => c + ch[c].size <= d
      BY <3>1 DEF Tiled
    <3>3. c + ch[c].size <= v
      BY <3>2
    <3>4. c + ch[c].size <= v + n
      BY <1>1, <3>2, <3>3 DEF Header
    <3> QED
      BY <1>1, <1>3, <3>1, <3>2, <3>4
  <2> QED
    BY <2>1, <2>2
<1>5. Tiled(ch2, v + n)
  BY <1>1, <1>3, <1>4 DEF Tiled
<1> QED
  BY <1>5 DEF ch2, n

(* Two headers for what was one chunk of z bytes. *)
Halves(r1, r2, z) ==
    /\ r1 \in Header /\ r1.size >= MINIMAL_CHUNK_SIZE
    /\ r2 \in Header /\ r2.size >= MINIMAL_CHUNK_SIZE
    /\ r1.size + r2.size = z

(* ch2 is ch with chunk c cut at address b. *)
Cut(ch, ch2, c, r1, b, r2) ==
    /\ b \notin DOMAIN ch /\ b # c
    /\ DOMAIN ch2 = DOMAIN ch \cup {b}
    /\ ch2[c] = r1 /\ ch2[b] = r2
    /\ \A x \in DOMAIN ch : x # c => ch2[x] = ch[x]

(* A chunk c is split: its first bytes stay, a header is put behind them. *)
LEMMA TiledSplit ==
    ASSUME NEW ch, NEW v, Tiled(ch, v), NEW c \in DOMAIN ch,
           NEW r1, NEW r2, Halves(r1, r2, ch[c].size),
           NEW ch2, ch2 = Put(Put(ch, c, r1), c + r1.size, r2)
    PROVE  Cut(ch, ch2, c, r1, c + r1.size, r2) /\ Tiled(ch2, v)
<1> USE DEF Halves
<1> DEFINE n == r1.size
           m == r2.size
           b == c + n
           z == ch[c].size
<1>1. /\ n \in Nat /\ n >= 16 /\ m \in Nat /\ m >= 16 /\ n + m = z
      /\ v \in Nat /\ HeapStart <= v /\ HeapStart \in Nat /\ z < Word \div 4 /\ Word \div 4 \in Nat
      /\ c \in Nat /\ HeapStart <= c /\ c < v /\ z \in Nat
  BY HeapAssumption, Quarter DEF Tiled, Header, MINIMAL_CHUNK_SIZE
<1>2. /\ c + z \in DOMAIN ch \cup {v}
      /\ \A d \in DOMAIN ch \cup {v} : c < d => c + z <= d
  BY DEF Tiled
<1> HIDE DEF n, m, z
<1>3. b \notin DOMAIN ch /\ b # c /\ b \in Nat /\ HeapStart <= b /\ b < v
  BY <1>1, <1>2
<1>4. /\ DOMAIN ch2 = DOMAIN ch \cup {b}
      /\ ch2[c] = r1 /\ ch2[b] = r2
      /\ \A x \in DOMAIN ch : x # c => ch2[x] = ch[x]
  BY <1>3 DEF Put, n
<1> HIDE DEF b
<1>5. ASSUME NEW x \in DOMAIN ch2
      PROVE  /\ x \in Nat /\ HeapStart <= x /\ x < v
             /\ ch2[x] \in Header
             /\ ch2[x].size >= MINIMAL_CHUNK_SIZE /\ ch2[x].size < Word \div 4
             /\ x + ch2[x].size \in DOMAIN ch2 \cup {v}
             /\ \A d \in DOMAIN ch2 \cup {v} : x < d => x + ch2[x].size <= d
  <2>1. CASE x = c
    <3>1. ch2[x].size = n /\ x + n = b
      BY <1>4, <2>1 DEF n, b
    <3>2. ASSUME NEW d \in DOMAIN ch2 \cup {v}, x < d PROVE b <= d
      <4>1. CASE d = b
        BY <1>3, <4>1
      <4>2. CASE d # b
        <5>1. c + z <= d /\ d \in Nat
          BY <1>1, <1>2, <1>4, <2>1, <3>2, <4>2 DEF Tiled
        <5> QED
          BY <1>1, <5>1 DEF b
      <4> QED
        BY <4>1, <4>2
    <3> QED
      BY <1>1, <1>4, <2>1, <3>1, <3>2 DEF MINIMAL_CHUNK_SIZE
  <2>2. CASE x = b
    <3>1. ch2[x].size = m /\ x + m = c + z
      BY <1>1, <1>4, <2>2 DEF m, b
    <3>2. ASSUME NEW d \in DOMAIN ch2 \cup {v}, x < d PROVE c + z <= d
      <4>1. d # b /\ d \in DOMAIN ch \cup {v} /\ d \in Nat
        BY <1>1, <1>3, <1>4, <2>2, <3>2 DEF Tiled
      <4> QED
        BY <1>1, <1>2, <2>2, <3>2, <4>1 DEF b
    <3> QED
      BY <1>1, <1>2, <1>3, <1>4, <2>2, <3>1, <3>2 DEF MINIMAL_CHUNK_SIZE
  <2>3. CASE x # c /\ x # b
    <3>1. x \in DOMAIN ch /\ ch2[x] = ch[x]
      BY <1>4, <2>3
    <3>2. /\ x \in Nat /\ HeapStart <= x /\ x < v
          /\ ch[x] \in Header
          /\ ch[x].size >= MINIMAL_CHUNK_SIZE /\ ch[x].size < Word \div 4
          /\ x + ch[x].size \in DOMAIN ch \cup {v}
          /\ \A d \in DOMAIN ch \cup {v} : x < d => x + ch[x].size <= d
      BY <3>1 DEF Tiled
    <3>3. x < b => x + ch[x].size <= b
      <4> SUFFICES ASSUME x < b PROVE x + ch[x].size <= b
        OBVIOUS
      <4>1. x < c
        BY <1>1, <1>2, <2>3, <3>1, <3>2 DEF b
      <4>2. x + ch[x].size <= c
        BY <3>2, <4>1
      <4>3. ch[x].size \in Nat
        BY <3>2 DEF Header
      <4> QED
        BY <1>1, <3>2, <4>2, <4>3 DEF b
    <3> QED
      BY <1>4, <3>1, <3>2, <3>3
  <2> QED
    BY <2>1, <2>2, <2>3
<1>6. Tiled(ch2, v)
  BY <1>1, <1>4, <1>5 DEF Tiled
<1>7. Cut(ch, ch2, c, r1, b, r2)
  BY <1>3, <1>4 DEF Cut
<1> QED
  BY <1>6, <1>7 DEF b, n

(* r is ch with chunk c free, or not. *)
Marked(ch, r, c, is_free) ==
    /\ DOMAIN r = DOMAIN ch
    /\ \A x \in DOMAIN ch : /\ r[x] \in Header
                            /\ r[x].size = ch[x].size
                            /\ x # c => r[x].free = ch[x].free /\ r[x].req = ch[x].req
    /\ r[c].free = is_free

(* kfree changes who is free and what the next header remembers. *)
LEMMA AfterFreeFacts ==
    ASSUME NEW ch, NEW v, Tiled(ch, v), NEW c \in DOMAIN ch
    PROVE  Marked(ch, ChunksAfterFree(ch, c), c, TRUE)
<1> DEFINE r == ChunksAfterFree(ch, c)
<1>0. \A x \in DOMAIN ch : ch[x] \in Header
  BY DEF Tiled
<1> DEFINE n == End(ch, c)
           told == IF n < void THEN [ch EXCEPT ![n].prev = ch[c].size] ELSE ch
<1>1. r = [told EXCEPT ![c].free = TRUE]
  BY DEF ChunksAfterFree
<1>2. /\ DOMAIN told = DOMAIN ch
      /\ \A x \in DOMAIN ch : /\ told[x] \in Header
                              /\ told[x].size = ch[x].size /\ told[x].req = ch[x].req
                              /\ told[x].free = ch[x].free
  BY <1>0 DEF Header
<1> HIDE DEF told, r
<1>3. Marked(ch, r, c, TRUE)
  BY <1>1, <1>2 DEF Header, Marked
<1> QED
  BY <1>3 DEF r

(* Handing out c changes that it is free, and what the next header remembers. *)
LEMMA TakenFacts ==
    ASSUME NEW ch, NEW v, Tiled(ch, v), NEW c \in DOMAIN ch, NEW req \in Nat
    PROVE  Marked(ch, Taken(ch, c, req), c, FALSE) /\ Taken(ch, c, req)[c].req = req
<1> DEFINE r == Taken(ch, c, req)
<1>0. \A x \in DOMAIN ch : ch[x] \in Header
  BY DEF Tiled
<1> DEFINE a == End(ch, c)
           told == IF a \in DOMAIN ch THEN [ch EXCEPT ![a].prev = 0] ELSE ch
<1>1. r = [told EXCEPT ![c].free = FALSE, ![c].req = req]
  BY DEF Taken
<1>2. /\ DOMAIN told = DOMAIN ch
      /\ \A x \in DOMAIN ch : /\ told[x] \in Header
                              /\ told[x].size = ch[x].size /\ told[x].req = ch[x].req
                              /\ told[x].free = ch[x].free
  BY <1>0 DEF Header
<1> HIDE DEF told
<1> DEFINE mine == [told EXCEPT ![c].free = FALSE]
<1>3. /\ DOMAIN mine = DOMAIN ch
      /\ \A x \in DOMAIN ch : /\ mine[x] \in Header
                              /\ mine[x].size = ch[x].size
                              /\ x # c => mine[x] = told[x]
      /\ mine[c].free = FALSE
  BY <1>2 DEF Header
<1>4. r = [mine EXCEPT ![c].req = req]
  BY <1>1
<1> HIDE DEF mine, r
<1>5. Marked(ch, r, c, FALSE) /\ r[c].req = req
  BY <1>2, <1>3, <1>4 DEF Header, Marked
<1> QED
  BY <1>5 DEF r
-----------------------------------------------------------------------------
(* Bins *)

(* The sequence s lists the elements of S, each once. *)
Once(s, S) ==
    /\ \A i, j \in 1..Len(s) : s[i] = s[j] => i = j
    /\ \A i \in 1..Len(s) : s[i] \in S
    /\ \A c \in S : \E i \in 1..Len(s) : s[i] = c

(* The same said of injective sequences. *)
LEMMA OnceIsSet ==
    ASSUME NEW D, NEW s \in Seq(D), NEW S
    PROVE  Once(s, S) <=> IsInjective(s) /\ ToSet(s) = S
<1>1. DOMAIN s = 1..Len(s)
  OBVIOUS
<1>2. IsInjective(s) <=> \A i, j \in 1..Len(s) : s[i] = s[j] => i = j
  BY <1>1 DEF IsInjective
<1>3. ToSet(s) = {s[i] : i \in 1..Len(s)}
  BY <1>1 DEF ToSet
<1>4. ToSet(s) = S <=> /\ \A i \in 1..Len(s) : s[i] \in S
                       /\ \A c \in S : \E i \in 1..Len(s) : s[i] = c
  BY <1>3
<1> QED
  BY <1>2, <1>4 DEF Once

(* A bin with a chunk put in front. *)
LEMMA OncePush ==
    ASSUME NEW D, NEW s \in Seq(D), NEW S, Once(s, S), NEW c \in D, c \notin S
    PROVE  <<c>> \o s \in Seq(D) /\ Once(<<c>> \o s, S \cup {c})
<1> DEFINE t == <<c>> \o s
<1>0. Len(s) \in Nat
  OBVIOUS
<1>1. <<c>> \in Seq(D) /\ Len(<<c>>) = 1 /\ <<c>>[1] = c
  OBVIOUS
<1>2. /\ t \in Seq(D) /\ Len(t) = Len(<<c>>) + Len(s)
      /\ \A j \in 1..(Len(<<c>>) + Len(s)) :
            t[j] = IF j <= Len(<<c>>) THEN <<c>>[j] ELSE s[j - Len(<<c>>)]
  BY <1>1, ConcatProperties, Zenon
<1>3. /\ t \in Seq(D) /\ Len(t) = 1 + Len(s) /\ t[1] = c
      /\ \A j \in 1..Len(t) : j # 1 => j - 1 \in 1..Len(s) /\ t[j] = s[j - 1]
      /\ \A j \in 1..Len(s) : j + 1 \in 1..Len(t) /\ t[j + 1] = s[j]
  <2>1. ASSUME NEW j \in 1..Len(s) PROVE j + 1 \in 1..Len(t) /\ t[j + 1] = s[j]
    <3>1. j + 1 \in 1..(1 + Len(s)) /\ ~(j + 1 <= 1) /\ (j + 1) - 1 = j
      BY <1>0
    <3> QED
      BY <1>1, <1>2, <3>1
  <2> QED
    BY <1>0, <1>1, <1>2, <2>1
<1> HIDE DEF t
<1>4. Once(t, S \cup {c})
  <2>1. ASSUME NEW i \in 1..Len(t), NEW j \in 1..Len(t), t[i] = t[j] PROVE i = j
    <3>1. CASE i = 1 /\ j = 1
      BY <3>1
    <3>2. CASE i = 1 /\ j # 1
      <4>1. t[j] \in S
        BY <1>3, <3>2 DEF Once
      <4> QED
        BY <1>3, <2>1, <3>2, <4>1
    <3>3. CASE i # 1 /\ j = 1
      <4>1. t[i] \in S
        BY <1>3, <3>3 DEF Once
      <4> QED
        BY <1>3, <2>1, <3>3, <4>1
    <3>4. CASE i # 1 /\ j # 1
      <4>1. /\ i - 1 \in 1..Len(s) /\ t[i] = s[i - 1]
            /\ j - 1 \in 1..Len(s) /\ t[j] = s[j - 1]
        BY <1>3, <3>4
      <4>2. i - 1 = j - 1
        BY <2>1, <4>1 DEF Once
      <4> QED
        BY <4>2
    <3> QED
      BY <3>1, <3>2, <3>3, <3>4
  <2>2. ASSUME NEW i \in 1..Len(t) PROVE t[i] \in S \cup {c}
    BY <1>3 DEF Once
  <2>3. ASSUME NEW d \in S \cup {c} PROVE \E i \in 1..Len(t) : t[i] = d
    <3>1. CASE d = c
      BY <1>0, <1>3, <3>1
    <3>2. CASE d # c
      <4>1. PICK i \in 1..Len(s) : s[i] = d
        BY <3>2 DEF Once
      <4> QED
        BY <1>3, <4>1
    <3> QED
      BY <3>1, <3>2
  <2> QED
    BY <2>1, <2>2, <2>3 DEF Once
<1> QED
  BY <1>3, <1>4 DEF t

(* A bin with a chunk taken out. *)
LEMMA OnceWithout ==
    ASSUME NEW D, NEW s \in Seq(D), NEW S, Once(s, S), NEW k \in 1..Len(s)
    PROVE  Once(Without(s, k), S \ {s[k]})
<1> DEFINE t == Without(s, k)
           pos(j) == IF j < k THEN j ELSE j + 1
<1>0. Len(s) \in Nat
  OBVIOUS
<1>1. Len(t) = Len(s) - 1 /\ \A j \in 1..(Len(s) - 1) : t[j] = IF j < k THEN s[j] ELSE s[j + 1]
  BY WithoutFacts
<1> HIDE DEF t
<1>2. /\ \A j \in 1..Len(t) : pos(j) \in 1..Len(s) /\ pos(j) # k /\ t[j] = s[pos(j)]
      /\ \A i, j \in 1..Len(t) : pos(i) = pos(j) => i = j
      /\ \A i \in 1..Len(s) : i # k => \E j \in 1..Len(t) : pos(j) = i
  <2>1. ASSUME NEW i \in 1..Len(s), i # k PROVE \E j \in 1..Len(t) : pos(j) = i
    <3> DEFINE j == IF i < k THEN i ELSE i - 1
    <3>1. j \in 1..Len(t) /\ pos(j) = i
      BY <1>0, <1>1, <2>1
    <3> QED
      BY <3>1
  <2> QED
    BY <1>0, <1>1, <2>1
<1> HIDE DEF pos
<1>3. Once(t, S \ {s[k]})
  <2>1. ASSUME NEW i \in 1..Len(t), NEW j \in 1..Len(t), t[i] = t[j] PROVE i = j
    <3>1. pos(i) \in 1..Len(s) /\ pos(j) \in 1..Len(s) /\ s[pos(i)] = s[pos(j)]
      BY <1>2, <2>1
    <3>2. pos(i) = pos(j)
      BY <3>1 DEF Once
    <3> QED
      BY <1>2, <3>2
  <2>2. ASSUME NEW i \in 1..Len(t) PROVE t[i] \in S \ {s[k]}
    BY <1>2 DEF Once
  <2>3. ASSUME NEW d \in S \ {s[k]} PROVE \E i \in 1..Len(t) : t[i] = d
    <3>1. PICK i \in 1..Len(s) : s[i] = d
      BY DEF Once
    <3>2. PICK j \in 1..Len(t) : pos(j) = i
      BY <1>2, <3>1
    <3> QED
      BY <1>2, <3>1, <3>2
  <2> QED
    BY <2>1, <2>2, <2>3 DEF Once
<1> QED
  BY <1>3 DEF t

(* A bin with a chunk put in its place. *)
LEMMA OnceWith ==
    ASSUME NEW D, NEW s \in Seq(D), NEW S, Once(s, S), NEW k \in 1..(Len(s) + 1),
           NEW c \in D, c \notin S
    PROVE  Once(With(s, k, c), S \cup {c})
<1> DEFINE t == With(s, k, c)
           pos(j) == IF j < k THEN j ELSE j - 1
<1>0. Len(s) \in Nat
  OBVIOUS
<1>1. /\ Len(t) = Len(s) + 1
      /\ \A j \in 1..(Len(s) + 1) : t[j] = IF j < k THEN s[j] ELSE IF j = k THEN c ELSE s[j - 1]
  BY WithFacts
<1> HIDE DEF t
<1>2. /\ k \in 1..Len(t) /\ t[k] = c
      /\ \A j \in 1..Len(t) : j # k => pos(j) \in 1..Len(s) /\ t[j] = s[pos(j)]
      /\ \A i, j \in 1..Len(t) : i # k /\ j # k /\ pos(i) = pos(j) => i = j
      /\ \A i \in 1..Len(s) : \E j \in 1..Len(t) : j # k /\ pos(j) = i
  <2>1. ASSUME NEW i \in 1..Len(s) PROVE \E j \in 1..Len(t) : j # k /\ pos(j) = i
    <3> DEFINE j == IF i < k THEN i ELSE i + 1
    <3>1. j \in 1..Len(t) /\ j # k /\ pos(j) = i
      BY <1>0, <1>1
    <3> QED
      BY <3>1
  <2> QED
    BY <1>0, <1>1, <2>1
<1> HIDE DEF pos
<1>3. Once(t, S \cup {c})
  <2>1. ASSUME NEW i \in 1..Len(t), NEW j \in 1..Len(t), t[i] = t[j] PROVE i = j
    <3>1. CASE i = k
      BY <1>2, <2>1, <3>1 DEF Once
    <3>2. CASE i # k
      BY <1>2, <2>1, <3>2, SMTT(30) DEF Once
    <3> QED
      BY <3>1, <3>2
  <2>2. ASSUME NEW i \in 1..Len(t) PROVE t[i] \in S \cup {c}
    BY <1>2 DEF Once
  <2>3. ASSUME NEW d \in S \cup {c} PROVE \E i \in 1..Len(t) : t[i] = d
    <3>1. CASE d = c
      BY <1>2, <3>1
    <3>2. CASE d # c
      <4>1. PICK i \in 1..Len(s) : s[i] = d
        BY <3>2 DEF Once
      <4>2. PICK j \in 1..Len(t) : j # k /\ pos(j) = i
        BY <1>2
      <4> QED
        BY <1>2, <4>1, <4>2
    <3> QED
      BY <3>1, <3>2
  <2> QED
    BY <2>1, <2>2, <2>3 DEF Once
<1> QED
  BY <1>3 DEF t

(* _insert_in_sortedbin finds a place behind no larger and before no smaller size. *)
LEMMA InsertIndexFits ==
    ASSUME NEW sizes \in Seq(Nat), NEW n \in Nat,
           \A i, j \in 1..Len(sizes) : i < j => sizes[i] <= sizes[j],
           NEW k, k = InsertIndex(sizes, n)
    PROVE  /\ k \in 0..Len(sizes)
           /\ \A j \in 1..Len(sizes) : /\ j <= k => sizes[j] <= n
                                       /\ j > k => n <= sizes[j]
<1> DEFINE len == Len(sizes)
<1>0. len \in Nat /\ \A i \in 1..len : sizes[i] \in Nat
  OBVIOUS
<1>1. CASE len = 0 \/ sizes[1] > n
  <2>1. k = 0
    BY <1>1 DEF InsertIndex
  <2>2. ASSUME NEW j \in 1..len PROVE n <= sizes[j]
    <3>1. 1 \in 1..len /\ sizes[1] > n /\ sizes[1] \in Nat /\ sizes[j] \in Nat
      BY <1>0, <1>1
    <3>2. sizes[1] <= sizes[j]
      BY <1>0, <3>1
    <3> QED
      BY <3>1, <3>2
  <2> QED
    BY <1>0, <2>1, <2>2
<1>2. CASE ~(len = 0 \/ sizes[1] > n) /\ sizes[len] <= n
  <2>1. k = len
    BY <1>2 DEF InsertIndex
  <2>2. ASSUME NEW j \in 1..len PROVE sizes[j] <= n
    <3>1. len \in 1..len /\ sizes[len] \in Nat /\ sizes[j] \in Nat
      BY <1>0
    <3>2. sizes[j] <= sizes[len]
      BY <1>0, <3>1
    <3> QED
      BY <1>2, <3>1, <3>2
  <2> QED
    BY <1>0, <2>1, <2>2
<1>3. CASE ~(len = 0 \/ sizes[1] > n) /\ ~(sizes[len] <= n)
  <2> DEFINE Here(i) == sizes[i] <= n /\ n <= sizes[i + 1]
             T == {i \in 1..len : n <= sizes[i]}
             U == {i \in 1..(len - 1) : Here(i)}
  <2>1. 1 \in 1..len /\ len \in 1..len /\ sizes[1] <= n /\ n < sizes[len]
    BY <1>0, <1>3
  <2>2. len \in T /\ T \in SUBSET Nat
    BY <1>0, <2>1
  <2> HIDE DEF T
  <2>3. PICK t \in T : \A y \in T : t <= y
    BY <2>2, LeastNat, Zenon
  <2>4. t \in 1..len /\ n <= sizes[t]
    BY DEF T
  <2>5. \E i \in 1..(len - 1) : Here(i)
    <3>1. CASE t = 1
      <4>1. sizes[1] = n /\ 2 \in 1..len /\ 1 \in 1..(len - 1)
        BY <1>0, <2>1, <2>4, <3>1
      <4>2. sizes[1] <= sizes[2]
        BY <2>1, <4>1
      <4>3. Here(1)
        BY <1>0, <2>1, <4>1, <4>2
      <4> QED
        BY <4>1, <4>3
    <3>2. CASE t # 1
      <4>1. t - 1 \in 1..(len - 1) /\ t - 1 \in 1..len /\ (t - 1) + 1 = t /\ ~(t <= t - 1)
        BY <1>0, <2>4, <3>2
      <4>2. ~(n <= sizes[t - 1])
        BY <2>3, <4>1 DEF T
      <4>3. Here(t - 1)
        BY <1>0, <2>4, <4>1, <4>2
      <4> QED
        BY <4>1, <4>3
    <3> QED
      BY <3>1, <3>2
  <2> HIDE DEF Here
  <2>6. U # {} /\ U \in SUBSET Nat
    BY <1>0, <2>5, SMTT(30)
  <2>7. PICK u \in U : \A y \in U : u <= y
    BY <2>6, LeastNat, Zenon
  <2>8. u \in 1..(len - 1) /\ Here(u) /\ \A j \in 1..(u - 1) : ~Here(j)
    <3>1. u \in 1..(len - 1) /\ Here(u)
      OBVIOUS
    <3>2. ASSUME NEW j \in 1..(u - 1), Here(j) PROVE FALSE
      <4>1. j \in U /\ ~(u <= j)
        BY <1>0, <3>1, <3>2
      <4> QED
        BY <2>7, <4>1
    <3> QED
      BY <3>1, <3>2
  <2>9. k = CHOOSE i \in 1..(len - 1) : Here(i) /\ \A j \in 1..(i - 1) : ~Here(j)
    <3>1. k = CHOOSE i \in 1..(len - 1) :
                /\ sizes[i] <= n /\ n <= sizes[i + 1]
                /\ \A j \in 1..(i - 1) : ~(sizes[j] <= n /\ n <= sizes[j + 1])
      BY <1>3, Zenon DEF InsertIndex
    <3> QED
      BY <3>1, Zenon DEF Here
  <2>10. k \in 1..(len - 1) /\ Here(k)
    BY <2>8, <2>9, Zenon
  <2>11. /\ k \in 1..len /\ k + 1 \in 1..len /\ k \in Nat
         /\ sizes[k] <= n /\ n <= sizes[k + 1] /\ sizes[k] \in Nat /\ sizes[k + 1] \in Nat
    <3>1. k \in 1..len /\ k + 1 \in 1..len /\ k \in Nat
      BY <1>0, <2>10
    <3> QED
      BY <1>0, <2>10, <3>1 DEF Here
  <2>12. ASSUME NEW j \in 1..len, j <= k PROVE sizes[j] <= n
    <3>1. j = k \/ sizes[j] <= sizes[k]
      BY <1>0, <2>11, <2>12, SMTT(30)
    <3> QED
      BY <1>0, <2>11, <3>1, SMTT(30)
  <2>13. ASSUME NEW j \in 1..len, j > k PROVE n <= sizes[j]
    <3>1. j = k + 1 \/ sizes[k + 1] <= sizes[j]
      BY <1>0, <2>11, <2>13, SMTT(30)
    <3> QED
      BY <1>0, <2>11, <3>1, SMTT(30)
  <2> QED
    BY <1>0, <2>11, <2>12, <2>13, SMTT(30)
<1> QED
  BY <1>1, <1>2, <1>3
(* The bins hold the chunks of F, each once and in the right place, and the
   sortedbin is sorted. *)
Binned(ch, sb, so, F) ==
    /\ F \subseteq DOMAIN ch
    /\ sb \in [BinSizes -> Seq(DOMAIN ch)] /\ so \in Seq(DOMAIN ch)
    /\ \A n \in BinSizes : Once(sb[n], {c \in F : ch[c].size = n})
    /\ Once(so, {c \in F : ch[c].size \notin BinSizes})
    /\ \A i, j \in 1..Len(so) : i < j => ch[so[i]].size <= ch[so[j]].size

(* Only the sizes of the chunks in the bins count. *)
LEMMA BinnedSameSizes ==
    ASSUME NEW ch, NEW sb, NEW so, NEW F, Binned(ch, sb, so, F),
           NEW ch2, F \subseteq DOMAIN ch2,
           \A c \in F : ch2[c].size = ch[c].size
    PROVE  Binned(ch2, sb, so, F)
<1> DEFINE S(n) == {c \in F : ch[c].size = n}
           R == {c \in F : ch[c].size \notin BinSizes}
<1>1. {c \in F : ch2[c].size \notin BinSizes} = R /\ \A n : {c \in F : ch2[c].size = n} = S(n)
  OBVIOUS
<1>2. ASSUME NEW D, NEW t \in Seq(D), NEW T \in SUBSET F, Once(t, T) PROVE t \in Seq(DOMAIN ch2)
  <2>1. \A i \in 1..Len(t) : t[i] \in DOMAIN ch2
    BY <1>2 DEF Once
  <2>2. Len(t) \in Nat /\ t = [i \in 1..Len(t) |-> t[i]]
    OBVIOUS
  <2> QED
    BY <2>1, <2>2
<1>3. so \in Seq(DOMAIN ch) /\ Once(so, R) /\ R \in SUBSET F
  BY DEF Binned
<1>4. \A n \in BinSizes : sb[n] \in Seq(DOMAIN ch) /\ Once(sb[n], S(n)) /\ S(n) \in SUBSET F
  BY DEF Binned
<1> HIDE DEF S, R
<1>5. so \in Seq(DOMAIN ch2) /\ Once(so, {c \in F : ch2[c].size \notin BinSizes})
  BY <1>1, <1>2, <1>3
<1>6. \A n \in BinSizes : sb[n] \in Seq(DOMAIN ch2) /\ Once(sb[n], {c \in F : ch2[c].size = n})
  BY <1>1, <1>2, <1>4
<1>7. sb \in [BinSizes -> Seq(DOMAIN ch2)]
  BY <1>6 DEF Binned
<1>8. \A i \in 1..Len(so) : so[i] \in F
  BY <1>3 DEF Once
<1>9. \A i, j \in 1..Len(so) : i < j => ch2[so[i]].size <= ch2[so[j]].size
  BY <1>8 DEF Binned
<1> QED
  BY <1>5, <1>6, <1>7, <1>9 DEF Binned

(* A chunk goes into its sizebin, or into the sortedbin at its place. *)
LEMMA BinnedFree ==
    ASSUME NEW ch, NEW sb, NEW so, NEW F, Binned(ch, sb, so, F),
           NEW c \in DOMAIN ch, c \notin F, \A x \in DOMAIN ch : ch[x].size \in Nat
    PROVE  Binned(ch, SizebinAfterFree(ch, sb, c), SortedbinAfterFree(ch, so, c), F \cup {c})
<1> DEFINE D == DOMAIN ch
           G == F \cup {c}
           z == ch[c].size
           S(H, n) == {x \in H : ch[x].size = n}
           R(H) == {x \in H : ch[x].size \notin BinSizes}
           sb2 == SizebinAfterFree(ch, sb, c)
           so2 == SortedbinAfterFree(ch, so, c)
<1>1. /\ sb \in [BinSizes -> Seq(D)] /\ so \in Seq(D) /\ F \subseteq D
      /\ \A n \in BinSizes : Once(sb[n], S(F, n))
      /\ Once(so, R(F))
      /\ \A i, j \in 1..Len(so) : i < j => ch[so[i]].size <= ch[so[j]].size
  BY DEF Binned
<1>2. c \notin S(F, z) /\ c \notin R(F) /\ c \in D /\ z \in Nat
  OBVIOUS
<1>3. CASE z \in BinSizes
  <2>1. sb2 = [sb EXCEPT ![z] = <<c>> \o @] /\ so2 = so
    BY <1>3 DEF SizebinAfterFree, SortedbinAfterFree
  <2>2. R(G) = R(F) /\ S(G, z) = S(F, z) \cup {c} /\ \A n \in BinSizes : n # z => S(G, n) = S(F, n)
    BY <1>3
  <2> HIDE DEF S, R, sb2, so2, D
  <2>3. sb[z] \in Seq(D) /\ Once(sb[z], S(F, z))
    BY <1>1, <1>3
  <2>4. <<c>> \o sb[z] \in Seq(D) /\ Once(<<c>> \o sb[z], S(G, z))
    <3>1. <<c>> \o sb[z] \in Seq(D) /\ Once(<<c>> \o sb[z], S(F, z) \cup {c})
      BY <1>2, <2>3, OncePush
    <3> QED
      BY <2>2, <3>1
  <2>5. sb2 \in [BinSizes -> Seq(D)] /\ sb2[z] = <<c>> \o sb[z] /\ \A n \in BinSizes : n # z => sb2[n] = sb[n]
    BY <1>1, <1>3, <2>1, <2>4
  <2>6. \A n \in BinSizes : Once(sb2[n], S(G, n))
    BY <1>1, <2>2, <2>4, <2>5
  <2>7. Once(so2, R(G)) /\ so2 \in Seq(D) /\ G \subseteq D
    BY <1>1, <1>2, <2>1, <2>2
  <2>8. \A i, j \in 1..Len(so2) : i < j => ch[so2[i]].size <= ch[so2[j]].size
    BY <1>1, <2>1
  <2> QED
    BY <2>5, <2>6, <2>7, <2>8 DEF Binned, S, R, sb2, so2, D
<1>4. CASE z \notin BinSizes
  <2> DEFINE sizes == [i \in DOMAIN so |-> ch[so[i]].size]
             k == InsertIndex(sizes, z)
  <2>1. sb2 = sb /\ so2 = With(so, k + 1, c)
    BY <1>4 DEF SizebinAfterFree, SortedbinAfterFree, _insert_in_sortedbin, InsertAt, With
  <2>2. R(G) = R(F) \cup {c} /\ \A n \in BinSizes : S(G, n) = S(F, n)
    BY <1>4
  <2>3. Len(so) \in Nat /\ DOMAIN so = 1..Len(so)
    BY <1>1
  <2>4. sizes \in Seq(Nat) /\ Len(sizes) = Len(so) /\ \A i \in 1..Len(so) : sizes[i] = ch[so[i]].size
    <3>1. \A i \in 1..Len(so) : ch[so[i]].size \in Nat
      BY <1>1
    <3>2. sizes = [i \in 1..Len(so) |-> ch[so[i]].size]
      BY <2>3
    <3> HIDE DEF sizes
    <3>3. sizes \in [1..Len(so) -> Nat]
      BY <3>1, <3>2
    <3> QED
      BY <2>3, <3>2, <3>3
  <2> HIDE DEF sizes
  <2>5. \A i, j \in 1..Len(sizes) : i < j => sizes[i] <= sizes[j]
    BY <1>1, <2>4
  <2>6. /\ k \in 0..Len(so)
        /\ \A j \in 1..Len(so) : /\ j <= k => ch[so[j]].size <= z
                                 /\ j > k => z <= ch[so[j]].size
    <3>1. /\ k \in 0..Len(sizes)
          /\ \A j \in 1..Len(sizes) : /\ j <= k => sizes[j] <= z
                                      /\ j > k => z <= sizes[j]
      <4>1. sizes \in Seq(Nat) /\ z \in Nat
        BY <1>2, <2>4
      <4>2. k = InsertIndex(sizes, z)
        OBVIOUS
      <4> HIDE DEF k, z
      <4> QED
        BY <2>5, <4>1, <4>2, InsertIndexFits
    <3> HIDE DEF k, z
    <3> QED
      BY <2>4, <3>1
  <2> HIDE DEF S, R, sb2, so2, D, k
  <2>7. k + 1 \in 1..(Len(so) + 1)
    BY <2>3, <2>6
  <2>8. Once(so2, R(G))
    <3>1. so \in Seq(D) /\ Once(so, R(F)) /\ c \in D /\ c \notin R(F)
      BY <1>1, <1>2
    <3>2. Once(With(so, k + 1, c), R(F) \cup {c})
      BY <2>7, <3>1, OnceWith
    <3> QED
      BY <2>1, <2>2, <3>2
  <2>9. /\ so2 \in Seq(D) /\ Len(so2) = Len(so) + 1
        /\ \A j \in 1..(Len(so) + 1) :
              so2[j] = IF j < k + 1 THEN so[j] ELSE IF j = k + 1 THEN c ELSE so[j - 1]
    <3>1. so \in Seq(D) /\ c \in D
      BY <1>1, <1>2
    <3>2. /\ With(so, k + 1, c) \in Seq(D) /\ Len(With(so, k + 1, c)) = Len(so) + 1
          /\ \A j \in 1..(Len(so) + 1) : With(so, k + 1, c)[j] =
                IF j < k + 1 THEN so[j] ELSE IF j = k + 1 THEN c ELSE so[j - 1]
      <4> DEFINE p == k + 1
      <4>0. p \in 1..(Len(so) + 1)
        BY <2>7
      <4> HIDE DEF p
      <4>1. /\ With(so, p, c) \in Seq(D) /\ Len(With(so, p, c)) = Len(so) + 1
            /\ \A j \in 1..(Len(so) + 1) : With(so, p, c)[j] =
                  IF j < p THEN so[j] ELSE IF j = p THEN c ELSE so[j - 1]
        BY <3>1, <4>0, WithFacts
      <4> QED
        BY <4>1 DEF p
    <3> QED
      BY <2>1, <3>2
  <2>10. ASSUME NEW i \in 1..Len(so2), NEW j \in 1..Len(so2), i < j
         PROVE  ch[so2[i]].size <= ch[so2[j]].size
    <3>1. i \in 1..(Len(so) + 1) /\ j \in 1..(Len(so) + 1) /\ k \in Int /\ i \in Int /\ j \in Int
      BY <2>3, <2>6, <2>9
    <3>2. CASE j < k + 1
      <4>1. i \in 1..Len(so) /\ j \in 1..Len(so) /\ i < k + 1
        BY <2>3, <2>6, <2>10, <3>1, <3>2
      <4> QED
        BY <1>1, <2>9, <2>10, <3>1, <3>2, <4>1
    <3>3. CASE j = k + 1
      <4>1. i \in 1..Len(so) /\ i < k + 1 /\ i <= k
        BY <2>3, <2>6, <2>10, <3>1, <3>3
      <4>2. so2[i] = so[i] /\ so2[j] = c
        BY <2>9, <3>1, <3>3, <4>1
      <4> QED
        BY <2>6, <4>1, <4>2 DEF z
    <3>4. CASE i = k + 1
      <4>1. j - 1 \in 1..Len(so) /\ j - 1 > k /\ ~(j < k + 1) /\ j # k + 1
        BY <2>3, <2>6, <2>10, <3>1, <3>4
      <4>2. so2[j] = so[j - 1] /\ so2[i] = c
        BY <2>9, <3>1, <3>4, <4>1
      <4> QED
        BY <2>6, <4>1, <4>2 DEF z
    <3>5. CASE i < k + 1 /\ j > k + 1
      <4>1. i \in 1..Len(so) /\ j - 1 \in 1..Len(so) /\ i < j - 1 /\ ~(j < k + 1) /\ j # k + 1
        BY <2>3, <2>6, <2>10, <3>1, <3>5
      <4>2. so2[i] = so[i] /\ so2[j] = so[j - 1]
        BY <2>9, <3>1, <3>5, <4>1
      <4> QED
        BY <1>1, <4>1, <4>2
    <3>6. CASE i > k + 1
      <4>1. /\ i - 1 \in 1..Len(so) /\ j - 1 \in 1..Len(so) /\ i - 1 < j - 1
            /\ ~(j < k + 1) /\ j # k + 1 /\ ~(i < k + 1) /\ i # k + 1
        BY <2>3, <2>6, <2>10, <3>1, <3>6
      <4>2. so2[i] = so[i - 1] /\ so2[j] = so[j - 1]
        BY <2>9, <3>1, <4>1
      <4> QED
        BY <1>1, <4>1, <4>2
    <3> QED
      BY <3>1, <3>2, <3>3, <3>4, <3>5, <3>6
  <2>11. /\ sb2 \in [BinSizes -> Seq(D)] /\ G \subseteq D
         /\ \A n \in BinSizes : Once(sb2[n], S(G, n))
    BY <1>1, <1>2, <2>1, <2>2
  <2> QED
    BY <2>8, <2>9, <2>10, <2>11 DEF Binned, S, R, sb2, so2, D
<1> QED
  BY <1>3, <1>4

(* The newest chunk of a sizebin is taken out. *)
LEMMA BinnedTake ==
    ASSUME NEW ch, NEW sb, NEW so, NEW F, Binned(ch, sb, so, F),
           NEW n \in BinSizes, sb[n] # <<>>
    PROVE  /\ sb[n][1] \in F /\ ch[sb[n][1]].size = n
           /\ Binned(ch, [sb EXCEPT ![n] = Tail(@)], so, F \ {sb[n][1]})
<1> DEFINE D == DOMAIN ch
           S(H, m) == {x \in H : ch[x].size = m}
           R(H) == {x \in H : ch[x].size \notin BinSizes}
           s == sb[n]
           c == s[1]
           G == F \ {c}
           sb2 == [sb EXCEPT ![n] = Tail(@)]
<1>1. /\ sb \in [BinSizes -> Seq(D)] /\ so \in Seq(D) /\ F \subseteq D
      /\ \A m \in BinSizes : Once(sb[m], S(F, m))
      /\ Once(so, R(F))
      /\ \A i, j \in 1..Len(so) : i < j => ch[so[i]].size <= ch[so[j]].size
  BY DEF Binned
<1>2. s \in Seq(D) /\ Once(s, S(F, n)) /\ Len(s) \in Nat /\ Len(s) > 0
  BY <1>1
<1>3. 1 \in 1..Len(s) /\ c \in S(F, n)
  BY <1>2 DEF Once
<1>4. c \in F /\ ch[c].size = n
  BY <1>3
<1>5. R(G) = R(F) /\ S(G, n) = S(F, n) \ {c} /\ \A m \in BinSizes : m # n => S(G, m) = S(F, m)
  BY <1>4
<1>6. Tail(s) = Without(s, 1)
  <2>1. /\ Tail(s) \in Seq(D) /\ Len(Tail(s)) = Len(s) - 1
        /\ \A j \in 1..(Len(s) - 1) : Tail(s)[j] = s[j + 1]
    <3> HIDE DEF s, D
    <3> QED
      BY <1>2, HeadTailProperties
  <2>2. /\ Without(s, 1) \in Seq(D) /\ Len(Without(s, 1)) = Len(s) - 1
        /\ \A j \in 1..(Len(s) - 1) : Without(s, 1)[j] = IF j < 1 THEN s[j] ELSE s[j + 1]
    BY <1>2, <1>3, WithoutFacts
  <2>3. \A j \in 1..(Len(s) - 1) : Without(s, 1)[j] = s[j + 1]
    BY <2>2
  <2> DEFINE x == Tail(s)
             y == Without(s, 1)
  <2> HIDE DEF x, y
  <2>4. x \in Seq(D) /\ y \in Seq(D) /\ Len(x) = Len(y) /\ \A j \in 1..Len(x) : x[j] = y[j]
    BY <2>1, <2>2, <2>3 DEF x, y
  <2>5. x = y
    BY <2>4, SeqEqual
  <2> QED
    BY <2>5 DEF x, y
<1> HIDE DEF S, R, D
<1>7. Tail(s) \in Seq(D) /\ Once(Tail(s), S(G, n))
  <2>1. Once(Without(s, 1), S(F, n) \ {c}) /\ Without(s, 1) \in Seq(D)
    BY <1>2, <1>3, OnceWithout, WithoutFacts
  <2> QED
    BY <1>5, <1>6, <2>1
<1>8. sb2 \in [BinSizes -> Seq(D)] /\ sb2[n] = Tail(s) /\ \A m \in BinSizes : m # n => sb2[m] = sb[m]
  BY <1>1, <1>7
<1> HIDE DEF sb2
<1>9. \A m \in BinSizes : Once(sb2[m], S(G, m))
  BY <1>1, <1>5, <1>7, <1>8
<1>10. Binned(ch, sb2, so, G)
  BY <1>1, <1>5, <1>8, <1>9 DEF Binned, S, R, D
<1> QED
  BY <1>4, <1>10 DEF sb2

(* A chunk of the sortedbin is taken out. *)
LEMMA BinnedTakeSorted ==
    ASSUME NEW ch, NEW sb, NEW so, NEW F, Binned(ch, sb, so, F), NEW k \in 1..Len(so)
    PROVE  so[k] \in F /\ Binned(ch, sb, Without(so, k), F \ {so[k]})
<1> DEFINE D == DOMAIN ch
           S(H, m) == {x \in H : ch[x].size = m}
           R(H) == {x \in H : ch[x].size \notin BinSizes}
           c == so[k]
           G == F \ {c}
           so2 == Without(so, k)
           pos(j) == IF j < k THEN j ELSE j + 1
<1>1. /\ sb \in [BinSizes -> Seq(D)] /\ so \in Seq(D) /\ F \subseteq D
      /\ \A m \in BinSizes : Once(sb[m], S(F, m))
      /\ Once(so, R(F))
      /\ \A i, j \in 1..Len(so) : i < j => ch[so[i]].size <= ch[so[j]].size
  BY DEF Binned
<1>2. c \in R(F) /\ Len(so) \in Nat
  BY <1>1 DEF Once
<1>3. c \in F /\ R(G) = R(F) \ {c} /\ \A m \in BinSizes : S(G, m) = S(F, m)
  BY <1>2
<1> HIDE DEF S, R, D
<1>4. Once(so2, R(G))
  <2>1. so \in Seq(D) /\ Once(so, R(F))
    BY <1>1
  <2>2. Once(Without(so, k), R(F) \ {so[k]})
    BY <2>1, OnceWithout
  <2> QED
    BY <1>3, <2>2
<1>5. /\ so2 \in Seq(D) /\ Len(so2) = Len(so) - 1
      /\ \A j \in 1..(Len(so) - 1) : so2[j] = IF j < k THEN so[j] ELSE so[j + 1]
  BY <1>1, WithoutFacts
<1> HIDE DEF so2
<1>6. ASSUME NEW i \in 1..Len(so2), NEW j \in 1..Len(so2), i < j
      PROVE  ch[so2[i]].size <= ch[so2[j]].size
  <2>1. so2[i] = so[pos(i)] /\ so2[j] = so[pos(j)]
    BY <1>5
  <2>2. pos(i) \in 1..Len(so) /\ pos(j) \in 1..Len(so) /\ pos(i) < pos(j)
    BY <1>2, <1>5, <1>6
  <2> QED
    BY <1>1, <2>1, <2>2
<1>7. Binned(ch, sb, so2, G)
  BY <1>1, <1>3, <1>4, <1>5, <1>6 DEF Binned, S, R, D
<1> QED
  BY <1>3, <1>7 DEF so2
-----------------------------------------------------------------------------
(* The heap *)

(* The inductive invariant: chunks tile the heap, each free one is in its bin. *)
HeapInv ==
    /\ Tiled(chunks, void)
    /\ Binned(chunks, sizebin, sortedbin, FreeChunks)
    /\ DataFits
    /\ void_size \in Nat /\ void_size < Word \div 4

(* It says what the runs check. *)
LEMMA HeapInvImplies == HeapInv => ChunksTile /\ BinsExact /\ SortedbinSorted /\ DataFits
<1> SUFFICES ASSUME HeapInv PROVE ChunksTile /\ BinsExact /\ SortedbinSorted /\ DataFits
  OBVIOUS
<1>1. /\ sizebin \in [BinSizes -> Seq(Chunks)] /\ sortedbin \in Seq(Chunks)
      /\ \A n \in BinSizes : Once(sizebin[n], {c \in FreeChunks : chunks[c].size = n})
      /\ Once(sortedbin, {c \in FreeChunks : chunks[c].size \notin BinSizes})
      /\ \A i, j \in 1..Len(sortedbin) :
            i < j => chunks[sortedbin[i]].size <= chunks[sortedbin[j]].size
  BY DEF HeapInv, Binned, Chunks
<1>2. ChunksTile
  <2>1. HeapTypeOK
    BY <1>1 DEF HeapInv, Tiled, HeapTypeOK, Header, Chunks
  <2> QED
    BY <2>1 DEF HeapInv, Tiled, ChunksTile, End, Chunks
<1>3. BinsExact
  <2>1. \A n \in BinSizes : sizebin[n] \in Seq(Chunks)
    BY <1>1
  <2>2. /\ IsInjective(sortedbin)
        /\ ToSet(sortedbin) = {c \in FreeChunks : chunks[c].size \notin BinSizes}
    BY <1>1, OnceIsSet
  <2>3. ASSUME NEW n \in BinSizes
        PROVE  /\ IsInjective(sizebin[n])
               /\ ToSet(sizebin[n]) = {c \in FreeChunks : chunks[c].size = n}
    BY <1>1, <2>1, OnceIsSet
  <2> QED
    BY <2>2, <2>3 DEF BinsExact
<1>4. SortedbinSorted
  BY <1>1 DEF SortedbinSorted
<1> QED
  BY <1>2, <1>3, <1>4 DEF HeapInv

(* The bins hold F and the headers say that F is free. *)
LEMMA FreeAre ==
    ASSUME NEW F, F \subseteq DOMAIN chunks', \A x \in DOMAIN chunks' : chunks'[x].free <=> x \in F
    PROVE  FreeChunks' = F
  BY DEF FreeChunks, Chunks

(* The free chunks are those flagged free. *)
LEMMA FreeNow == \A x \in DOMAIN chunks : x \in FreeChunks <=> chunks[x].free
  BY DEF FreeChunks, Chunks

(* kfree *)
LEMMA FreeKeeps ==
    ASSUME HeapInv, NEW c \in Chunks, kfree(c)
    PROVE  HeapInv'
<1> DEFINE F == FreeChunks
           G == F \cup {c}
<1>1. /\ Tiled(chunks, void) /\ Binned(chunks, sizebin, sortedbin, F) /\ DataFits
      /\ void_size \in Nat /\ void_size < Word \div 4
  BY DEF HeapInv
<1>2. /\ ~chunks[c].free /\ c \in DOMAIN chunks
      /\ sizebin' = SizebinAfterFree(chunks, sizebin, c)
      /\ sortedbin' = SortedbinAfterFree(chunks, sortedbin, c)
      /\ chunks' = ChunksAfterFree(chunks, c)
      /\ void' = void /\ void_size' = void_size
  BY DEF kfree, Chunks
<1>3. \A x \in DOMAIN chunks : chunks[x] \in Header /\ chunks[x].size \in Nat
  BY <1>1 DEF Tiled, Header
<1>4. /\ DOMAIN chunks' = DOMAIN chunks
      /\ \A x \in DOMAIN chunks : /\ chunks'[x] \in Header
                                  /\ chunks'[x].size = chunks[x].size
                                  /\ x # c => /\ chunks'[x].free = chunks[x].free
                                              /\ chunks'[x].req = chunks[x].req
      /\ chunks'[c].free = TRUE
  <2>1. Marked(chunks, chunks', c, TRUE)
    BY <1>1, <1>2, AfterFreeFacts
  <2> QED
    BY <2>1 DEF Marked
<1>5. Tiled(chunks', void')
  BY <1>1, <1>2, <1>4, TiledSameSizes
<1>6. c \notin F /\ F \subseteq DOMAIN chunks
  BY <1>2 DEF FreeChunks, Chunks
<1>7. FreeChunks' = G
  <2>1. G \subseteq DOMAIN chunks'
    BY <1>2, <1>4, <1>6
  <2>2. \A x \in DOMAIN chunks' : chunks'[x].free <=> x \in G
    BY <1>2, <1>4, FreeNow
  <2> QED
    BY <2>1, <2>2, FreeAre
<1> HIDE DEF F
<1>8. Binned(chunks, sizebin', sortedbin', G)
  BY <1>1, <1>2, <1>3, <1>6, BinnedFree
<1>9. Binned(chunks', sizebin', sortedbin', G)
  <2>1. G \subseteq DOMAIN chunks' /\ \A x \in G : chunks'[x].size = chunks[x].size
    BY <1>2, <1>4, <1>6
  <2> QED
    BY <1>8, <2>1, BinnedSameSizes
<1>10. DataFits'
  BY <1>1, <1>4 DEF DataFits, Chunks
<1> QED
  BY <1>1, <1>2, <1>5, <1>7, <1>9, <1>10 DEF HeapInv

(* A free chunk c is handed out as it is; the bins hold the others. *)
LEMMA TakeKeeps ==
    ASSUME HeapInv, NEW c \in FreeChunks, NEW req \in Nat,
           req + CHUNK_DATA_OFFSET <= chunks[c].size,
           chunks' = Taken(chunks, c, req), UNCHANGED <<void, void_size>>,
           Binned(chunks, sizebin', sortedbin', FreeChunks \ {c})
    PROVE  HeapInv'
<1> DEFINE G == FreeChunks \ {c}
<1>1. /\ Tiled(chunks, void) /\ DataFits
      /\ void_size \in Nat /\ void_size < Word \div 4
  BY DEF HeapInv
<1>2. c \in DOMAIN chunks /\ void' = void /\ void_size' = void_size
  BY DEF FreeChunks, Chunks
<1>4. /\ DOMAIN chunks' = DOMAIN chunks
      /\ \A x \in DOMAIN chunks : /\ chunks'[x] \in Header
                                  /\ chunks'[x].size = chunks[x].size
                                  /\ x # c => /\ chunks'[x].free = chunks[x].free
                                              /\ chunks'[x].req = chunks[x].req
      /\ chunks'[c].free = FALSE /\ chunks'[c].req = req
  <2>1. Marked(chunks, chunks', c, FALSE) /\ chunks'[c].req = req
    BY <1>1, <1>2, TakenFacts
  <2> QED
    BY <2>1 DEF Marked
<1>5. Tiled(chunks', void')
  BY <1>1, <1>2, <1>4, TiledSameSizes
<1>6. FreeChunks' = G
  <2>1. FreeChunks \subseteq DOMAIN chunks
    BY DEF FreeChunks, Chunks
  <2>2. \A x \in DOMAIN chunks' : chunks'[x].free <=> x \in G
    BY <1>2, <1>4, FreeNow
  <2> QED
    BY <1>4, <2>1, <2>2, FreeAre
<1>7. Binned(chunks', sizebin', sortedbin', G)
  <2>1. G \subseteq DOMAIN chunks' /\ \A x \in G : chunks'[x].size = chunks[x].size
    BY <1>4 DEF FreeChunks, Chunks
  <2> QED
    BY <2>1, BinnedSameSizes
<1>8. DataFits'
  <2> SUFFICES ASSUME NEW x \in DOMAIN chunks, ~chunks'[x].free
               PROVE  chunks'[x].req + CHUNK_DATA_OFFSET <= chunks'[x].size
    BY <1>4 DEF DataFits, Chunks
  <2>1. CASE x = c
    BY <1>4, <2>1
  <2>2. CASE x # c
    <3>1. ~chunks[x].free /\ chunks'[x].req = chunks[x].req /\ chunks'[x].size = chunks[x].size
      BY <1>4, <2>2
    <3> QED
      BY <1>1, <3>1 DEF DataFits, Chunks
  <2> QED
    BY <2>1, <2>2
<1> QED
  BY <1>1, <1>2, <1>5, <1>6, <1>7, <1>8 DEF HeapInv

(* A request of n bytes with its header. *)
Asks(n, req) ==
    n \in Nat /\ req \in Nat /\ n >= MINIMAL_CHUNK_SIZE /\ n >= req + CHUNK_DATA_OFFSET

(* A chunk of exactly the size, from its bin. *)
LEMMA TakeFromSizebinKeeps ==
    ASSUME HeapInv, NEW n, NEW req, Asks(n, req), take_from_sizebin(n, req)
    PROVE  HeapInv'
<1> DEFINE c == sizebin[n][1]
           F == FreeChunks
<1>1. /\ n \in BinSizes /\ sizebin[n] # <<>>
      /\ chunks' = Taken(chunks, c, req)
      /\ sizebin' = [sizebin EXCEPT ![n] = Tail(@)]
      /\ sortedbin' = sortedbin /\ UNCHANGED <<void, void_size>>
  BY DEF take_from_sizebin, InSizebin
<1>2. Binned(chunks, sizebin, sortedbin, F)
  BY DEF HeapInv
<1> HIDE DEF F
<1>3. /\ c \in F /\ chunks[c].size = n
      /\ Binned(chunks, [sizebin EXCEPT ![n] = Tail(@)], sortedbin, F \ {c})
  BY <1>1, <1>2, BinnedTake
<1>4. Binned(chunks, sizebin', sortedbin', FreeChunks \ {c})
  BY <1>1, <1>3 DEF F
<1>5. c \in FreeChunks /\ req \in Nat /\ req + CHUNK_DATA_OFFSET <= chunks[c].size
  BY <1>3 DEF F, Asks
<1> HIDE DEF c
<1> QED
  BY <1>1, <1>4, <1>5, TakeKeeps

(* A chunk that is too small to split, from the sorted bin. *)
LEMMA TakeFromSortedbinKeeps ==
    ASSUME HeapInv, NEW n, NEW req, Asks(n, req), take_from_sortedbin(n, req)
    PROVE  HeapInv'
<1>1. PICK i \in DOMAIN sortedbin :
        /\ FirstFit(i, n)
        /\ sortedbin' = RemoveAt(sortedbin, i)
        /\ chunks' = Taken(chunks, sortedbin[i], req)
  BY DEF take_from_sortedbin
<1>2. sizebin' = sizebin /\ UNCHANGED <<void, void_size>>
  BY DEF take_from_sortedbin
<1> DEFINE c == sortedbin[i]
           F == FreeChunks
<1>3. Binned(chunks, sizebin, sortedbin, F)
  BY DEF HeapInv
<1>4. i \in 1..Len(sortedbin)
  BY <1>3 DEF Binned
<1> HIDE DEF F
<1>5. c \in F /\ Binned(chunks, sizebin, Without(sortedbin, i), F \ {c})
  BY <1>3, <1>4, BinnedTakeSorted
<1>6. Binned(chunks, sizebin', sortedbin', FreeChunks \ {c})
  BY <1>1, <1>2, <1>5 DEF F, RemoveAt, Without
<1>7. chunks[c].size \in Nat
  BY <1>5 DEF F, FreeChunks, Chunks, HeapInv, Tiled, Header
<1>8. c \in FreeChunks /\ req \in Nat /\ req + CHUNK_DATA_OFFSET <= chunks[c].size
  BY <1>1, <1>5, <1>7 DEF F, Asks, FirstFit, CHUNK_DATA_OFFSET
<1>9. chunks' = Taken(chunks, c, req)
  BY <1>1
<1> HIDE DEF c
<1> QED
  BY <1>2, <1>6, <1>8, <1>9, TakeKeeps

(* A chunk of the sorted bin is split, and the rest of it binned. *)
LEMMA SplitKeeps ==
    ASSUME HeapInv, NEW n, NEW req, Asks(n, req), split_from_sortedbin(n, req)
    PROVE  HeapInv'
<1>1. PICK i \in DOMAIN sortedbin :
        LET c == sortedbin[i]
            rest == c + n
            split == Put(Put(chunks, c, _create_chunk(n, req)),
                         rest, _create_chunk(chunks[c].size - n, 0))
        IN
        /\ FirstFit(i, n)
        /\ chunks[c].size - n >= MINIMAL_CHUNK_SIZE
        /\ sizebin' = SizebinAfterFree(split, sizebin, rest)
        /\ sortedbin' = SortedbinAfterFree(split, RemoveAt(sortedbin, i), rest)
        /\ chunks' = Taken(ChunksAfterFree(split, rest), c, req)
  BY DEF split_from_sortedbin
<1> DEFINE c == sortedbin[i]
           F == FreeChunks
           z == chunks[c].size
           rest == c + n
           r1 == _create_chunk(n, req)
           r2 == _create_chunk(z - n, 0)
           split == Put(Put(chunks, c, r1), rest, r2)
           freed == ChunksAfterFree(split, rest)
           G == (F \ {c}) \cup {rest}
<1>2. /\ Tiled(chunks, void) /\ Binned(chunks, sizebin, sortedbin, F) /\ DataFits
      /\ void_size \in Nat /\ void_size < Word \div 4
      /\ void' = void /\ void_size' = void_size
  BY DEF HeapInv, split_from_sortedbin
<1>3. i \in 1..Len(sortedbin)
  BY <1>2 DEF Binned
<1>4. c \in F /\ Binned(chunks, sizebin, Without(sortedbin, i), F \ {c})
  BY <1>2, <1>3, BinnedTakeSorted
<1>5. c \in DOMAIN chunks /\ F \subseteq DOMAIN chunks
  BY <1>4 DEF FreeChunks, Chunks
<1>6. /\ z \in Nat /\ z < Word \div 4 /\ z - n >= MINIMAL_CHUNK_SIZE
      /\ c \in Nat /\ n \in Nat /\ req \in Nat /\ n >= MINIMAL_CHUNK_SIZE
      /\ z - n \in Nat /\ z - n < Word \div 4 /\ n < Word \div 4
      /\ req + CHUNK_DATA_OFFSET <= n
  <2>1. z \in Nat /\ z < Word \div 4 /\ c \in Nat
    BY <1>2, <1>5 DEF Tiled, Header
  <2>2. z - n >= MINIMAL_CHUNK_SIZE
    BY <1>1
  <2> QED
    BY <2>1, <2>2, Quarter DEF Asks, MINIMAL_CHUNK_SIZE, CHUNK_DATA_OFFSET
<1>7. /\ sizebin' = SizebinAfterFree(split, sizebin, rest)
      /\ sortedbin' = SortedbinAfterFree(split, Without(sortedbin, i), rest)
      /\ chunks' = Taken(freed, c, req)
  BY <1>1 DEF RemoveAt, Without
<1> HIDE DEF c, F, z
<1>8. /\ r1 \in Header /\ r1.size = n /\ r1.free = FALSE /\ r1.req = req
      /\ r2 \in Header /\ r2.size = z - n /\ r2.free = FALSE
  BY <1>6, ChunkSizeExact DEF _create_chunk, Header
<1> HIDE DEF r1, r2
<1>9. /\ rest \notin DOMAIN chunks /\ rest # c
      /\ DOMAIN split = DOMAIN chunks \cup {rest}
      /\ split[c] = r1 /\ split[rest] = r2
      /\ \A x \in DOMAIN chunks : x # c => split[x] = chunks[x]
      /\ Tiled(split, void)
  <2>1. Halves(r1, r2, chunks[c].size)
    BY <1>6, <1>8 DEF z, Halves
  <2>2. rest = c + r1.size
    BY <1>8
  <2>3. split = Put(Put(chunks, c, r1), c + r1.size, r2)
    BY <2>2
  <2> HIDE DEF split, rest
  <2>4. Cut(chunks, split, c, r1, c + r1.size, r2) /\ Tiled(split, void)
    BY <1>2, <1>5, <2>1, <2>3, TiledSplit
  <2>5. Cut(chunks, split, c, r1, rest, r2)
    BY <2>2, <2>4
  <2> QED
    BY <2>4, <2>5 DEF Cut
<1> HIDE DEF rest, split
<1>10. Binned(split, sizebin, Without(sortedbin, i), F \ {c})
  <2>1. F \ {c} \subseteq DOMAIN split /\ \A x \in F \ {c} : split[x].size = chunks[x].size
    BY <1>5, <1>9
  <2> QED
    BY <1>4, <2>1, BinnedSameSizes
<1>11. Binned(split, sizebin', sortedbin', G)
  <2>1. rest \in DOMAIN split /\ rest \notin F \ {c}
    BY <1>5, <1>9
  <2>2. \A x \in DOMAIN split : split[x].size \in Nat
    BY <1>9 DEF Tiled, Header
  <2>3. Binned(split, SizebinAfterFree(split, sizebin, rest),
               SortedbinAfterFree(split, Without(sortedbin, i), rest), (F \ {c}) \cup {rest})
    BY <1>10, <2>1, <2>2, BinnedFree
  <2> QED
    BY <1>7, <2>3
<1>12. Marked(split, freed, rest, TRUE)
  BY <1>9, AfterFreeFacts
<1> HIDE DEF freed
<1>13. Tiled(freed, void)
  BY <1>9, <1>12, TiledSameSizes DEF Marked
<1>14. Marked(freed, chunks', c, FALSE) /\ chunks'[c].req = req
  <2>1. c \in DOMAIN freed
    BY <1>5, <1>9, <1>12 DEF Marked
  <2> QED
    BY <1>6, <1>7, <1>13, <2>1, TakenFacts
<1>15. Tiled(chunks', void')
  BY <1>2, <1>13, <1>14, TiledSameSizes DEF Marked
<1>16. /\ DOMAIN chunks' = DOMAIN chunks \cup {rest}
       /\ \A x \in DOMAIN chunks' : chunks'[x].size = split[x].size
       /\ chunks'[c].free = FALSE /\ chunks'[c].req = req /\ chunks'[c].size = n
       /\ chunks'[rest].free = TRUE
       /\ \A x \in DOMAIN chunks : x # c => /\ chunks'[x].free = chunks[x].free
                                            /\ chunks'[x].req = chunks[x].req
                                            /\ chunks'[x].size = chunks[x].size
  BY <1>5, <1>8, <1>9, <1>12, <1>14 DEF Marked
<1>17. Binned(chunks', sizebin', sortedbin', G)
  <2>1. G \subseteq DOMAIN chunks' /\ \A x \in G : chunks'[x].size = split[x].size
    BY <1>5, <1>16
  <2> QED
    BY <1>11, <2>1, BinnedSameSizes
<1>18. FreeChunks' = G
  <2>1. G \subseteq DOMAIN chunks'
    BY <1>5, <1>16
  <2>2. ASSUME NEW x \in DOMAIN chunks' PROVE chunks'[x].free <=> x \in G
    <3>1. CASE x = rest
      BY <1>16, <3>1
    <3>2. CASE x = c
      BY <1>9, <1>16, <3>2
    <3>3. CASE x # rest /\ x # c
      BY <1>16, <3>3, FreeNow DEF F
    <3> QED
      BY <3>1, <3>2, <3>3
  <2> QED
    BY <2>1, <2>2, FreeAre
<1>19. DataFits'
  <2> SUFFICES ASSUME NEW x \in DOMAIN chunks', ~chunks'[x].free
               PROVE  chunks'[x].req + CHUNK_DATA_OFFSET <= chunks'[x].size
    BY DEF DataFits, Chunks
  <2>1. CASE x = c
    BY <1>6, <1>16, <2>1
  <2>2. CASE x # c
    <3>1. x \in DOMAIN chunks /\ ~chunks[x].free
      BY <1>16, <2>2
    <3>2. chunks[x].req + CHUNK_DATA_OFFSET <= chunks[x].size
      BY <1>2, <3>1 DEF DataFits, Chunks
    <3> QED
      BY <1>16, <2>2, <3>1, <3>2
  <2> QED
    BY <2>1, <2>2
<1> QED
  BY <1>2, <1>15, <1>17, <1>18, <1>19 DEF HeapInv

(* A chunk off the void at the end of the heap. *)
LEMMA TakeFromVoidKeeps ==
    ASSUME HeapInv, NEW n, NEW req, Asks(n, req), n < Word \div 4,
           NEW newsize \in Nat, take_from_void(n, req, newsize)
    PROVE  HeapInv'
<1> DEFINE F == FreeChunks
           r == _create_chunk(n, req)
<1>1. /\ Tiled(chunks, void) /\ Binned(chunks, sizebin, sortedbin, F) /\ DataFits
      /\ void \in Nat /\ void \notin DOMAIN chunks
  BY DEF HeapInv, Tiled
<1>2. /\ chunks' = Put(chunks, void, r) /\ void' = void + n
      /\ void_size' = ChunkSize(newsize) /\ sizebin' = sizebin /\ sortedbin' = sortedbin
  BY DEF take_from_void
<1>3. r \in Header /\ r.size = n /\ r.free = FALSE /\ r.req = req /\ n >= MINIMAL_CHUNK_SIZE
  BY ChunkSizeExact DEF _create_chunk, Header, Asks
<1> HIDE DEF r
<1>4. Tiled(chunks', void')
  BY <1>1, <1>2, <1>3, TiledCreate
<1>5. /\ DOMAIN chunks' = DOMAIN chunks \cup {void} /\ chunks'[void] = r
      /\ \A x \in DOMAIN chunks : chunks'[x] = chunks[x]
  BY <1>1, <1>2 DEF Put
<1>6. FreeChunks' = F
  <2>1. F \subseteq DOMAIN chunks /\ F \subseteq DOMAIN chunks'
    BY <1>5 DEF FreeChunks, Chunks
  <2>2. ASSUME NEW x \in DOMAIN chunks' PROVE chunks'[x].free <=> x \in F
    <3>1. CASE x = void
      BY <1>1, <1>3, <1>5, <2>1, <3>1
    <3>2. CASE x # void
      BY <1>5, <3>2, FreeNow
    <3> QED
      BY <3>1, <3>2
  <2> HIDE DEF F
  <2> QED
    BY <2>1, <2>2, FreeAre
<1> HIDE DEF F
<1>7. Binned(chunks', sizebin', sortedbin', F)
  <2>1. F \subseteq DOMAIN chunks' /\ \A x \in F : chunks'[x].size = chunks[x].size
    BY <1>1, <1>5 DEF Binned
  <2> QED
    BY <1>1, <1>2, <2>1, BinnedSameSizes
<1>8. DataFits'
  <2> SUFFICES ASSUME NEW x \in DOMAIN chunks', ~chunks'[x].free
               PROVE  chunks'[x].req + CHUNK_DATA_OFFSET <= chunks'[x].size
    BY DEF DataFits, Chunks
  <2>1. CASE x = void
    BY <1>3, <1>5, <2>1 DEF Asks
  <2>2. CASE x # void
    BY <1>1, <1>5, <2>2 DEF DataFits, Chunks
  <2> QED
    BY <2>1, <2>2
<1>9. void_size' \in Nat /\ void_size' < Word \div 4
  BY <1>2, ChunkSizeBounded
<1> QED
  BY <1>4, <1>6, <1>7, <1>8, <1>9 DEF HeapInv

(* _malloc_init *)
LEMMA InitHeap == Init => HeapInv
<1> SUFFICES ASSUME Init PROVE HeapInv
  OBVIOUS
<1>1. PICK size \in Nat : HeapInit(size)
  BY HeapAssumption, MallocAssumption DEF Init, KernelVoidSize
<1>2. DOMAIN chunks = {} /\ FreeChunks = {}
  BY <1>1 DEF HeapInit, FreeChunks, Chunks
<1>3. Tiled(chunks, void)
  BY <1>1, <1>2, HeapAssumption DEF HeapInit, Tiled
<1>4. Binned(chunks, sizebin, sortedbin, FreeChunks)
  BY <1>1, <1>2 DEF HeapInit, Binned, Once
<1>5. void_size \in Nat /\ void_size < Word \div 4
  BY <1>1, ChunkSizeBounded DEF HeapInit
<1> QED
  BY <1>2, <1>3, <1>4, <1>5 DEF HeapInv, DataFits, Chunks

(* Every step keeps the invariant. *)
LEMMA NextHeap ==
    RequestsFit /\ HeapBelowQuarter /\ HeapInv /\ [Next]_vars => HeapInv'
<1> SUFFICES ASSUME RequestsFit, HeapBelowQuarter, HeapInv, [Next]_vars PROVE HeapInv'
  OBVIOUS
<1>1. CASE UNCHANGED vars
  BY <1>1 DEF vars, heapVars, HeapInv, FreeChunks, DataFits, Chunks
<1>2. ASSUME NEW c \in Chunks, free(c) PROVE HeapInv'
  BY <1>2, FreeKeeps DEF free
<1>3. ASSUME NEW req \in Requests PROVE Asks(AlignedSize(req), req)
  BY AlignedSizeFits DEF Asks
<1>4. ASSUME NEW req \in Requests, malloc_from_bins(req) PROVE HeapInv'
  <2>1. \/ take_from_sizebin(AlignedSize(req), req)
        \/ take_from_sortedbin(AlignedSize(req), req)
        \/ split_from_sortedbin(AlignedSize(req), req)
    BY <1>4 DEF malloc_from_bins
  <2> QED
    BY <1>3, <2>1, TakeFromSizebinKeeps, TakeFromSortedbinKeeps, SplitKeeps
<1>5. ASSUME NEW req \in Requests, malloc_from_void(req) PROVE HeapInv'
  <2> DEFINE n == AlignedSize(req)
  <2>1. Asks(n, req) /\ n \in Nat
    BY <1>3 DEF Asks
  <2>2. void_size >= n /\ take_from_void(n, req, void_size - n)
    BY <1>5 DEF malloc_from_void
  <2> HIDE DEF n
  <2>3. n < Word \div 4 /\ void_size - n \in Nat
    BY <2>1, <2>2, Quarter DEF HeapInv
  <2> QED
    BY <2>1, <2>2, <2>3, TakeFromVoidKeeps
<1>6. ASSUME NEW req \in Requests, kmalloc_panic(req) PROVE HeapInv'
  BY <1>6 DEF kmalloc_panic, heapVars, HeapInv, FreeChunks, DataFits, Chunks
<1>7. ASSUME NEW req \in Requests, malloc_expand(req) PROVE HeapInv'
  <2> DEFINE n == AlignedSize(req)
  <2>1. Asks(n, req) /\ n \in Nat
    BY <1>3 DEF Asks
  <2>2. void + n <= MaxVoid /\ take_from_void(n, req, (void_size - n) % Word)
    BY <1>7 DEF malloc_expand
  <2> HIDE DEF n
  <2>3. void \in Nat /\ HeapStart <= void /\ HeapStart \in Nat /\ MaxVoid \in Nat
    BY HeapAssumption, MallocAssumption DEF HeapInv, Tiled
  <2>4. n < Word \div 4
    BY <2>1, <2>2, <2>3, Quarter DEF HeapBelowQuarter
  <2>5. (void_size - n) % Word \in Nat
    <3>1. void_size - n \in Int /\ Word \in Nat /\ Word > 0
      BY <2>1, HeapAssumption DEF HeapInv
    <3> QED
      BY <3>1
  <2> QED
    BY <2>1, <2>2, <2>4, <2>5, TakeFromVoidKeeps
<1> QED
  BY <1>1, <1>2, <1>4, <1>5, <1>6, <1>7 DEF Next

(* The invariant holds of either heap from _malloc_init on. *)
THEOREM HeapSafe ==
    ASSUME RequestsFit, HeapBelowQuarter
    PROVE  Spec => []HeapInv
<1>1. HeapInv /\ [Next]_vars => HeapInv'
  BY NextHeap
<1> QED
  BY <1>1, InitHeap, PTL DEF Spec

(* Whatever is requested and freed, the chunks of either heap tile the memory that
   was used: no two holders share a byte. *)
THEOREM ChunksTileSafe ==
    ASSUME RequestsFit, HeapBelowQuarter
    PROVE  Spec => []ChunksTile
  BY HeapInvImplies, HeapSafe, PTL

(* Every free chunk is in exactly one bin, once, and no other chunk is in a bin:
   none is leaked, none can be handed out twice. *)
THEOREM BinsExactSafe ==
    ASSUME RequestsFit, HeapBelowQuarter
    PROVE  Spec => []BinsExact
  BY HeapInvImplies, HeapSafe, PTL

(* The sortedbin stays sorted, wherever _insert_in_sortedbin puts a chunk. *)
THEOREM SortedbinSafe ==
    ASSUME RequestsFit, HeapBelowQuarter
    PROVE  Spec => []SortedbinSorted
  BY HeapInvImplies, HeapSafe, PTL

(* What a holder asked for fits between its header and the next one. *)
THEOREM DataFitsSafe ==
    ASSUME RequestsFit, HeapBelowQuarter
    PROVE  Spec => []DataFits
  BY HeapInvImplies, HeapSafe, PTL
=============================================================================
