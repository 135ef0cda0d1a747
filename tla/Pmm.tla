-------------------------------- MODULE Pmm --------------------------------
(***************************************************************************)
(* The physical memory manager, kernel/memory/pmm.c.                       *)
(*                                                                         *)
(* One bit of pmm_bitmap per frame, a count of the free frames and a hint  *)
(* from where the next search starts.  The bitmap is the set `used' of     *)
(* frame indices whose bit is set; an address and its index differ only by *)
(* the factor FRAME_SIZE.  The callers (paging, vmm, ramfs) are one        *)
(* environment that gives back only what it holds: `holders' counts, for   *)
(* each frame, how many times it is currently handed out.                  *)
(*                                                                         *)
(* A definition mut_... is a faulty variant of one that follows it, used   *)
(* only to show that the properties notice the fault.                      *)
(***************************************************************************)
EXTENDS Integers, FiniteSets

CONSTANTS
    TotalFrames,        \* pmm_global.total_frames
    ReservedFrames      \* frames below reserved_end: kernel image and modules

(* arch_init.c passes reserved_start = 0 and the end of the kernel image or
   of the last boot module, so at least one frame is reserved.             *)
ASSUME PmmAssumption ==
    /\ TotalFrames \in Nat
    /\ ReservedFrames \in 1..TotalFrames

VARIABLES
    used,               \* indices whose bit in pmm_bitmap is 1
    free_frames,        \* pmm_global.free_frames
    last_free_idx,
    holders,            \* frame |-> how many callers hold it
    pmm_status          \* panic("[PMM] System run out of memory!")

pmm_vars == <<used, free_frames, last_free_idx, holders, pmm_status>>

AllFrames == 0..(TotalFrames - 1)
Reserved  == 0..(ReservedFrames - 1)

mut_kernel_end_idx == ReservedFrames + 1

kernel_end_idx == ReservedFrames - 1

(* pmm_init: the reserved range is marked, everything else is free. *)
pmm_init ==
    /\ used = Reserved
    /\ free_frames = TotalFrames - ReservedFrames
    /\ last_free_idx = ReservedFrames
    /\ holders = [f \in AllFrames |-> 0]
    /\ pmm_status = "running"

mut_IDX_SET(S) ==
    /\ used' = used \cup S
    /\ free_frames' = free_frames - 1

(* _IDX_SET and _IDX_UNSET applied to every index of S. *)
IDX_SET(S) ==
    /\ used' = used \cup S
    /\ free_frames' = free_frames - Cardinality(S)

mut_IDX_UNSET_counter(S) ==
    /\ used' = used \ S
    /\ free_frames' = free_frames

IDX_UNSET(S) ==
    /\ used' = used \ S
    /\ free_frames' = free_frames + Cardinality(S)

mut_FreeFrom(from) == {i \in AllFrames : i >= from}

(* The frames a scan that starts at index `from' would stop at. *)
FreeFrom(from) == {i \in AllFrames : i >= from /\ i \notin used}

(* i is where the scan from `from' stops. *)
IsFirstFree(i, from) ==
    /\ i \in FreeFrom(from)
    /\ \A j \in FreeFrom(from) : i <= j

(***************************************************************************)
(* pmm_get_frame: scan from the hint; when nothing is found restart at     *)
(* kernel_end_idx (the recursive call).  The hint moves by one, not to the *)
(* frame found.                                                            *)
(***************************************************************************)
pmm_get_frame ==
    /\ pmm_status = "running" /\ free_frames # 0
    /\ LET from == IF FreeFrom(last_free_idx) = {} THEN kernel_end_idx
                                                   ELSE last_free_idx
       IN \E i \in AllFrames :
            /\ IsFirstFree(i, from)
            /\ IDX_SET({i})
            /\ holders' = [holders EXCEPT ![i] = @ + 1]
            /\ last_free_idx' = from + 1
    /\ UNCHANGED pmm_status

(* pmm_get_frame with the counter at zero. *)
OutOfMemory ==
    /\ pmm_status = "running" /\ free_frames = 0
    /\ pmm_status' = "panic"
    /\ UNCHANGED <<used, free_frames, last_free_idx, holders>>

(* pmm_free_frame of a frame some caller holds. *)
pmm_free_frame(f) ==
    /\ pmm_status = "running" /\ holders[f] > 0
    /\ IDX_UNSET({f})
    /\ last_free_idx' = f
    /\ holders' = [holders EXCEPT ![f] = @ - 1]
    /\ UNCHANGED pmm_status

(* The run of n frames that starts at s. *)
Pool(s, n) == s..(s + n - 1)

(* s starts a run of n free frames, none of them below kernel_end_idx. *)
FreePoolAt(s, n) ==
    /\ s >= kernel_end_idx
    /\ Pool(s, n) \subseteq AllFrames \ used

(***************************************************************************)
(* pmm_get_pool: the lowest run of n free frames, or address 0 and no      *)
(* change when there is none.  The hint is left alone.                     *)
(***************************************************************************)
pmm_get_pool(s, n) ==
    /\ pmm_status = "running"
    /\ FreePoolAt(s, n)
    /\ \A r \in AllFrames : FreePoolAt(r, n) => s <= r
    /\ IDX_SET(Pool(s, n))
    /\ holders' = [f \in AllFrames |-> IF f \in Pool(s, n) THEN holders[f] + 1
                                                        ELSE holders[f]]
    /\ UNCHANGED <<last_free_idx, pmm_status>>

(* pmm_free_pool of frames some caller holds. *)
pmm_free_pool(s, n) ==
    /\ pmm_status = "running"
    /\ Pool(s, n) \subseteq AllFrames
    /\ \A f \in Pool(s, n) : holders[f] > 0
    /\ IDX_UNSET(Pool(s, n))
    /\ last_free_idx' = s + n - 1
    /\ holders' = [f \in AllFrames |-> IF f \in Pool(s, n) THEN holders[f] - 1
                                                        ELSE holders[f]]
    /\ UNCHANGED pmm_status

PmmNext ==
    \/ pmm_get_frame
    \/ OutOfMemory
    \/ \E f \in AllFrames : pmm_free_frame(f)
    \/ \E s \in AllFrames, n \in 1..TotalFrames :
          pmm_get_pool(s, n) \/ pmm_free_pool(s, n)

PmmSpec == pmm_init /\ [][PmmNext]_pmm_vars

-----------------------------------------------------------------------------
(* The variables have their types. *)
PmmTypeOK ==
    /\ used \subseteq AllFrames
    /\ free_frames \in 0..TotalFrames
    /\ last_free_idx \in 0..TotalFrames
    /\ holders \in [AllFrames -> Nat]
    /\ pmm_status \in {"running", "panic"}

(* No frame is handed out while somebody still holds it, whatever the order
   of pmm_get_frame, pmm_get_pool and the frees, and no reserved frame ever
   leaves the allocator. *)
ExclusiveFrames ==
    /\ \A f \in AllFrames : holders[f] <= 1
    /\ \A f \in Reserved : holders[f] = 0

(* The bitmap marks exactly the reserved frames and the frames in use. *)
BitmapExact == used = Reserved \cup {f \in AllFrames : holders[f] > 0}

(* free_frames, which _IDX_SET and _IDX_UNSET maintain by hand, is the number
   of clear bits. *)
Accounting == free_frames = Cardinality(AllFrames \ used)

(* The retry of pmm_get_frame (a recursive call with no other exit) finds a
   frame whenever the counter says there is one, so the recursion ends. *)
RetryFindsFrame == free_frames # 0 => FreeFrom(kernel_end_idx) # {}

(* The kernel panics for lack of memory only when every frame that is not
   reserved is in use. *)
PanicOnlyWhenFull ==
    pmm_status = "panic" => \A f \in AllFrames \ Reserved : holders[f] = 1

=============================================================================
