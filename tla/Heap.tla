-------------------------------- MODULE Heap --------------------------------
(***************************************************************************)
(* Chunks and bins of the heap allocator, which the kernel (klib/kmalloc.c *)
(* and kfree.c) and the C library (stdlib/malloc.c and free.c) share line  *)
(* by line.  Module Malloc adds what differs: where the memory comes from  *)
(* and what happens when it is used up.                                    *)
(*                                                                         *)
(* Addresses and sizes are in bytes.  A chunk is known by the address of   *)
(* its header; `void' is the chunk of memory that was never used.          *)
(*                                                                         *)
(* A definition mut_... is a faulty variant of one that follows it, used   *)
(* only to show that the properties notice the fault.                      *)
(***************************************************************************)
EXTENDS Integers, FiniteSets, SequencesExt

CONSTANTS
    HeapStart,
    Requests,       \* sizes that callers ask for
    Word            \* size_t counts modulo Word: 2^32 on i386

(* Word is a parameter because 2^32 is not a number TLC can compute with. *)
ASSUME HeapAssumption ==
    /\ HeapStart \in Nat
    /\ Word \in Nat /\ Word % 64 = 0 /\ Word > 64
    /\ Requests \subseteq 0..(Word - 1)

VARIABLES
    chunks,         \* address |-> header of the chunk there
    sizebin,        \* stored_size |-> its chunks, the newest first
    sortedbin,      \* chunks of all other sizes, by increasing size
    void,           \* malloc_state.void_chunk
    void_size       \* void_chunk->size

heapVars == <<chunks, sizebin, sortedbin, void, void_size>>

CHUNK_ALIGNMENT == 16
MINIMAL_CHUNK_SIZE == 16    \* sizeof(struct chunk_header)
CHUNK_DATA_OFFSET == 8
BinSizes == {32, 48, 64, 80, 96}

Chunks == DOMAIN chunks
FreeChunks == {c \in Chunks : chunks[c].free}
End(ch, c) == c + ch[c].size

mut_AlignedSize(n) ==
    IF n % CHUNK_ALIGNMENT > 0 THEN (n - (n % CHUNK_ALIGNMENT)) + CHUNK_ALIGNMENT
    ELSE IF n = 0 THEN CHUNK_ALIGNMENT ELSE n

(* The size of the chunk for a request of n bytes. *)
AlignedSize(n) ==
    LET aligned == IF n % CHUNK_ALIGNMENT > 0
                   THEN ((n - (n % CHUNK_ALIGNMENT)) + CHUNK_ALIGNMENT) % Word
                   ELSE n
    IN  IF (n + CHUNK_DATA_OFFSET) % Word > aligned
        THEN (aligned + CHUNK_ALIGNMENT) % Word
        ELSE aligned

(* _create_chunk: a header, with the size in a bit field two bits short of a word.  `prev' is
   prev_size where prev_free is set and 0 where it is not; `req' remembers
   what the holder asked for. *)
ChunkSize(n) == IF n < MINIMAL_CHUNK_SIZE THEN MINIMAL_CHUNK_SIZE ELSE n % (Word \div 4)
_create_chunk(n, req) ==
    [size |-> ChunkSize(n), free |-> FALSE, prev |-> 0, req |-> req]

(* ch with the header r at address c. *)
Put(ch, c, r) == [x \in DOMAIN ch \cup {c} |-> IF x = c THEN r ELSE ch[x]]

-----------------------------------------------------------------------------
(* kfree *)

mut_InsertIndex(sizes, n) ==
    LET len == Len(sizes) IN
    IF len = 0 \/ sizes[1] > n THEN 0 ELSE len

(* The index behind which _insert_in_sortedbin puts a chunk of size n, among
   chunks with the given sizes. *)
InsertIndex(sizes, n) ==
    LET len == Len(sizes) IN
    IF len = 0 \/ sizes[1] > n THEN 0
    ELSE IF sizes[len] <= n THEN len
    ELSE CHOOSE i \in 1..(len - 1) :
            /\ sizes[i] <= n /\ n <= sizes[i + 1]
            /\ \A j \in 1..(i - 1) : ~(sizes[j] <= n /\ n <= sizes[j + 1])

(* _insert_in_sortedbin *)
_insert_in_sortedbin(ch, bin, c) ==
    InsertAt(bin, InsertIndex([i \in DOMAIN bin |-> ch[bin[i]].size], ch[c].size) + 1, c)

(* The bins after kfree of c; the sizebins are stacks. *)
SizebinAfterFree(ch, bins, c) ==
    IF ch[c].size \in BinSizes
    THEN [bins EXCEPT ![ch[c].size] = <<c>> \o @] ELSE bins

SortedbinAfterFree(ch, bin, c) ==
    IF ch[c].size \in BinSizes THEN bin ELSE _insert_in_sortedbin(ch, bin, c)

(* The headers after kfree of c: it is free, and the chunk behind it knows. *)
ChunksAfterFree(ch, c) ==
    LET n == End(ch, c)
        told == IF n < void THEN [ch EXCEPT ![n].prev = ch[c].size] ELSE ch
    IN  [told EXCEPT ![c].free = TRUE]

(* kfree of a chunk that its holder gives back. *)
kfree(c) ==
    /\ ~chunks[c].free
    /\ sizebin' = SizebinAfterFree(chunks, sizebin, c)
    /\ sortedbin' = SortedbinAfterFree(chunks, sortedbin, c)
    /\ chunks' = ChunksAfterFree(chunks, c)
    /\ UNCHANGED <<void, void_size>>

-----------------------------------------------------------------------------
(* _find_free_chunk *)

(* The chunk behind c is told that c is no longer free. *)
Taken(ch, c, req) ==
    LET a == End(ch, c)
        told == IF a \in DOMAIN ch THEN [ch EXCEPT ![a].prev = 0] ELSE ch
    IN  [told EXCEPT ![c].free = FALSE, ![c].req = req]

(* From the sizebin of exactly this size: the chunk freed last. *)
InSizebin(n) == n \in BinSizes /\ sizebin[n] # <<>>

mut_take_from_sizebin(n, req) ==
    /\ InSizebin(n)
    /\ chunks' = Taken(chunks, sizebin[n][1], req)
    /\ UNCHANGED <<sizebin, sortedbin, void, void_size>>

take_from_sizebin(n, req) ==
    /\ InSizebin(n)
    /\ chunks' = Taken(chunks, sizebin[n][1], req)
    /\ sizebin' = [sizebin EXCEPT ![n] = Tail(@)]
    /\ UNCHANGED <<sortedbin, void, void_size>>

(* i is the index of the first chunk of the sortedbin that is large enough. *)
FirstFit(i, n) ==
    /\ i \in DOMAIN sortedbin
    /\ chunks[sortedbin[i]].size >= n
    /\ \A j \in 1..(i - 1) : chunks[sortedbin[j]].size < n

InSortedbin(n) == \E i \in DOMAIN sortedbin : chunks[sortedbin[i]].size >= n

(* From the sortedbin, as a whole ... *)
take_from_sortedbin(n, req) ==
    /\ ~InSizebin(n)
    /\ \E i \in DOMAIN sortedbin :
        LET c == sortedbin[i] IN
        /\ FirstFit(i, n)
        /\ chunks[c].size - n < MINIMAL_CHUNK_SIZE
        /\ sortedbin' = RemoveAt(sortedbin, i)
        /\ chunks' = Taken(chunks, c, req)
    /\ UNCHANGED <<sizebin, void, void_size>>

mut_split_from_sortedbin(n, req) ==
    /\ ~InSizebin(n)
    /\ \E i \in DOMAIN sortedbin :
        LET c == sortedbin[i]
            rest == c + n
            split == Put(Put(chunks, c, _create_chunk(n, req)),
                         rest, _create_chunk(chunks[c].size, 0))
        IN
        /\ FirstFit(i, n)
        /\ chunks[c].size - n >= MINIMAL_CHUNK_SIZE
        /\ sizebin' = SizebinAfterFree(split, sizebin, rest)
        /\ sortedbin' = SortedbinAfterFree(split, RemoveAt(sortedbin, i), rest)
        /\ chunks' = Taken([split EXCEPT ![rest].free = TRUE], c, req)
    /\ UNCHANGED <<void, void_size>>

(* ... or split (_split_chunk), the rest being freed at once. *)
split_from_sortedbin(n, req) ==
    /\ ~InSizebin(n)
    /\ \E i \in DOMAIN sortedbin :
        LET c == sortedbin[i]
            rest == c + n
            split == Put(Put(chunks, c, _create_chunk(n, req)),
                         rest, _create_chunk(chunks[c].size - n, 0))
        IN
        /\ FirstFit(i, n)
        /\ chunks[c].size - n >= MINIMAL_CHUNK_SIZE
        /\ sizebin' = SizebinAfterFree(split, sizebin, rest)
        /\ sortedbin' = SortedbinAfterFree(split, RemoveAt(sortedbin, i), rest)
        /\ chunks' = Taken(ChunksAfterFree(split, rest), c, req)
    /\ UNCHANGED <<void, void_size>>

(* _find_free_chunk returns NULL. *)
NothingFound(n) == ~InSizebin(n) /\ ~InSortedbin(n)

(* A new chunk at the start of the void chunk, which becomes newsize bytes. *)
take_from_void(n, req, newsize) ==
    /\ chunks' = Put(chunks, void, _create_chunk(n, req))
    /\ void' = void + n
    /\ void_size' = ChunkSize(newsize)
    /\ UNCHANGED <<sizebin, sortedbin>>

(* _malloc_init *)
HeapInit(size) ==
    /\ chunks = [c \in {} |-> 0]
    /\ sizebin = [n \in BinSizes |-> <<>>]
    /\ sortedbin = <<>>
    /\ void = HeapStart
    /\ void_size = ChunkSize(size)

-----------------------------------------------------------------------------
(* Properties *)

(* The variables have their types. *)
HeapTypeOK ==
    /\ \A c \in Chunks : /\ c \in Nat
                         /\ chunks[c] \in [size : Nat, free : BOOLEAN, prev : Nat, req : Nat]
    /\ sizebin \in [BinSizes -> Seq(Chunks)]
    /\ sortedbin \in Seq(Chunks)
    /\ void \in Nat /\ void_size \in Nat

(* The chunks tile the memory from the start of the heap to the void chunk
   without gap or overlap: no two holders share a byte, and walking the headers
   from the start meets every chunk. *)
ChunksTile ==
    /\ HeapTypeOK
    /\ HeapStart \in Chunks \cup {void}
    /\ \A c \in Chunks :
        /\ chunks[c].size >= MINIMAL_CHUNK_SIZE
        /\ End(chunks, c) \in Chunks \cup {void}
        /\ \A d \in Chunks \cup {void} : c < d => End(chunks, c) <= d

(* Every free chunk is in exactly one bin, once, and a sizebin holds chunks of
   its size only: none is leaked and none can be handed out twice. *)
BinsExact ==
    /\ IsInjective(sortedbin)
    /\ \A n \in BinSizes :
        /\ IsInjective(sizebin[n])
        /\ ToSet(sizebin[n]) = {c \in FreeChunks : chunks[c].size = n}
    /\ ToSet(sortedbin) = {c \in FreeChunks : chunks[c].size \notin BinSizes}

(* The first fit in the sortedbin is the best fit. *)
SortedbinSorted ==
    \A i, j \in DOMAIN sortedbin :
        i < j => chunks[sortedbin[i]].size <= chunks[sortedbin[j]].size

(* The holder of a chunk can write the bytes it asked for without touching the
   header of the next chunk. *)
DataFits ==
    \A c \in Chunks : ~chunks[c].free =>
        chunks[c].req + CHUNK_DATA_OFFSET <= chunks[c].size
=============================================================================
