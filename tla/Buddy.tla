------------------------------- MODULE Buddy -------------------------------
(***************************************************************************)
(* The buddy allocator of one zone (mm/page_alloc.c): __free_pages_ok,     *)
(* rmqueue and expand, the list of pages freed in interrupts that keventd  *)
(* works off, and the block a process keeps to itself while it shrinks the *)
(* caches (balance_classzone).                                             *)
(*                                                                         *)
(* A block <<order, n>> is the n-th run of 2^order pages of the zone.  One *)
(* step is one turn of the loops that run under zone->lock; what the lock  *)
(* keeps out waits until doing is "none".  The free lists are sets: which  *)
(* of several free blocks of an order is taken makes no difference here.   *)
(***************************************************************************)
EXTENDS Integers, FiniteSets

CONSTANTS
    Procs,      \* the processes that allocate and free
    MAX_ORDER,
    Size,       \* zone->size, in pages
    Lru,        \* the pages that may be on the LRU lists
    NoBlock

BuddyAssumption ==
    /\ MAX_ORDER \in Nat \ {0} /\ Size \in Nat \ {0}
    /\ Lru \subseteq 0 .. Size - 1

VARIABLES
    free,        \* the blocks on the free lists
    map,         \* the bits that are set: <<order, index>>
    free_pages,  \* zone->free_pages
    doing,       \* what the holder of zone->lock does: "none", "free", "expand"
    blk,         \* its block
    low,         \* the order that is being allocated
    used,        \* the pages in use
    deferred,    \* free_pages_ok_no_irq_head
    drain,       \* what do_free_pages_ok_no_irq has taken of it
    shrinking,   \* process -> the order for which it shrinks, or -1
    local        \* process -> the block on its local_pages, or NoBlock

zoneVars == <<free, map, free_pages, doing, blk, low>>
vars     == <<zoneVars, used, deferred, drain, shrinking, local>>

Orders == 0 .. MAX_ORDER - 1
Zone   == 0 .. Size - 1

\* The pages of a block, also where it goes past the end of the zone.
Pages(b) == b[2] * 2 ^ b[1] .. (b[2] + 1) * 2 ^ b[1] - 1

\* The blocks of the zone.
Blocks == {b \in Orders \X Zone : Pages(b) \subseteq Zone}

\* page_idx ^ -mask
Buddy(b) == <<b[1], IF b[2] % 2 = 0 THEN b[2] + 1 ELSE b[2] - 1>>

\* page_idx & (mask << 1), one order up
Parent(b) == <<b[1] + 1, b[2] \div 2>>

\* The lower and the upper half
Lower(b) == <<b[1] - 1, 2 * b[2]>>
Upper(b) == <<b[1] - 1, 2 * b[2] + 1>>

\* The bit of a pair: page_idx >> (1 + order)
Bit(b) == <<b[1], b[2] \div 2>>

\* __change_bit
Flip(b) == IF Bit(b) \in map THEN map \ {Bit(b)} ELSE map \cup {Bit(b)}

\* free_area_init_core: the lists are empty, the maps are zero, and all pages are
\* reserved until free_all_bootmem frees them one by one.
Init ==
    /\ free = {} /\ map = {} /\ free_pages = 0
    /\ doing = "none" /\ blk = NoBlock /\ low = 0
    /\ used = Zone
    /\ deferred = {} /\ drain = {}
    /\ shrinking = [p \in Procs |-> -1]
    /\ local = [p \in Procs |-> NoBlock]

-----------------------------------------------------------------------------
(***************************************************************************)
(* __free_pages_ok.                                                        *)
(***************************************************************************)
\* zone->lock is taken and the pages are counted.
FreeLocked(b) ==
    /\ doing = "none"
    /\ doing' = "free" /\ blk' = b
    /\ free_pages' = free_pages + 2 ^ b[1]
    /\ UNCHANGED <<free, map, low>>

\* The pages of the LRU lists that are freed in an interrupt are left to keventd.
FreeInIrq(b) ==
    /\ Pages(b) \subseteq used /\ b[2] * 2 ^ b[1] \in Lru
    /\ used' = used \ Pages(b)
    /\ deferred' = deferred \cup {b}
    /\ UNCHANGED <<zoneVars, drain, shrinking, local>>

\* PF_FREE_PAGES is set and nr_local_pages is 0
Keeps(p) == shrinking[p] # -1 /\ local[p] = NoBlock

\* Otherwise, from a process: local_freelist, or the zone.
Free(p, b) ==
    /\ Pages(b) \subseteq used
    /\ used' = used \ Pages(b)
    /\ \/ /\ Keeps(p)
          /\ local' = [local EXCEPT ![p] = b]
          /\ UNCHANGED zoneVars
       \/ /\ ~Keeps(p)
          /\ FreeLocked(b)
          /\ UNCHANGED local
    /\ UNCHANGED <<deferred, drain, shrinking>>

\* From an interrupt, pages that are on no LRU list: in_interrupt() sends them past
\* local_freelist.
FreeIrqZone(b) ==
    /\ Pages(b) \subseteq used
    /\ used' = used \ Pages(b)
    /\ FreeLocked(b)
    /\ UNCHANGED <<deferred, drain, shrinking, local>>

\* One turn of the loop: __test_and_change_bit tells whether the buddy is free; then
\* it leaves its list and the two go up one order, else the block is put on the list.
Merge ==
    /\ doing = "free" /\ blk[1] # MAX_ORDER - 1
    /\ map' = Flip(blk)
    /\ \/ /\ Bit(blk) \notin map
          /\ free' = free \cup {blk}
          /\ doing' = "none" /\ blk' = NoBlock
       \/ /\ Bit(blk) \in map
          /\ free' = free \ {Buddy(blk)}
          /\ blk' = Parent(blk)
          /\ UNCHANGED doing
    /\ UNCHANGED <<free_pages, low, used, deferred, drain, shrinking, local>>

\* At the highest order there is no bit: list_add, and the lock is released.
Top ==
    /\ doing = "free" /\ blk[1] = MAX_ORDER - 1
    /\ free' = free \cup {blk}
    /\ doing' = "none" /\ blk' = NoBlock
    /\ UNCHANGED <<map, free_pages, low, used, deferred, drain, shrinking, local>>

-----------------------------------------------------------------------------
(***************************************************************************)
(* rmqueue and expand.                                                     *)
(***************************************************************************)
\* The free blocks of the lowest order that has one, from order on.
Candidates(order) ==
    LET fit == {b \in free : b[1] >= order}
    IN  {b \in fit : \A c \in fit : b[1] <= c[1]}

\* A block leaves its list.
Rmqueue(order) ==
    /\ doing = "none"
    /\ \E b \in Candidates(order) :
         /\ free' = free \ {b}
         /\ map' = IF b[1] # MAX_ORDER - 1 THEN Flip(b) ELSE map
         /\ blk' = b
    /\ free_pages' = free_pages - 2 ^ order
    /\ low' = order /\ doing' = "expand"
    /\ UNCHANGED <<used, deferred, drain, shrinking, local>>

\* Mutant: the bit of the half that is put back is not changed.
ExpandForgetsBit ==
    /\ doing = "expand" /\ blk[1] > low
    /\ free' = free \cup {Lower(blk)}
    /\ map' = map
    /\ blk' = Upper(blk)
    /\ UNCHANGED <<free_pages, doing, low, used, deferred, drain, shrinking, local>>

\* expand: the lower half goes on the list of its order, the upper half is split on.
Expand ==
    /\ doing = "expand" /\ blk[1] > low
    /\ free' = free \cup {Lower(blk)}
    /\ map' = Flip(Lower(blk))
    /\ blk' = Upper(blk)
    /\ UNCHANGED <<free_pages, doing, low, used, deferred, drain, shrinking, local>>

\* The block is what was asked for.
Allocated ==
    /\ doing = "expand" /\ blk[1] = low
    /\ used' = used \cup Pages(blk)
    /\ doing' = "none" /\ blk' = NoBlock /\ low' = 0
    /\ UNCHANGED <<free, map, free_pages, deferred, drain, shrinking, local>>

-----------------------------------------------------------------------------
(***************************************************************************)
(* balance_classzone: PF_FREE_PAGES is set around try_to_free_pages_zone.  *)
(***************************************************************************)
Shrink(p, order) ==
    /\ shrinking[p] = -1
    /\ shrinking' = [shrinking EXCEPT ![p] = order]
    /\ UNCHANGED <<zoneVars, used, deferred, drain, local>>

\* It returns with the local block if that has the order, unless nothing was freed, and
\* else frees it for all.
Shrunk(p) ==
    /\ shrinking[p] # -1
    /\ shrinking' = [shrinking EXCEPT ![p] = -1]
    /\ local' = [local EXCEPT ![p] = NoBlock]
    /\ \/ /\ local[p] = NoBlock
          /\ UNCHANGED <<zoneVars, used>>
       \/ /\ local[p] # NoBlock /\ local[p][1] = shrinking[p]
          /\ used' = used \cup Pages(local[p])
          /\ UNCHANGED zoneVars
       \/ /\ local[p] # NoBlock
          /\ FreeLocked(local[p])
          /\ UNCHANGED used
    /\ UNCHANGED <<deferred, drain>>

-----------------------------------------------------------------------------
(***************************************************************************)
(* do_free_pages_ok_no_irq, run by keventd.                                *)
(***************************************************************************)
DrainTake ==
    /\ drain = {} /\ deferred # {}
    /\ drain' = deferred /\ deferred' = {}
    /\ UNCHANGED <<zoneVars, used, shrinking, local>>

DrainFree(b) ==
    /\ b \in drain
    /\ drain' = drain \ {b}
    /\ FreeLocked(b)
    /\ UNCHANGED <<used, deferred, shrinking, local>>

-----------------------------------------------------------------------------
Next ==
    \/ Merge \/ Top \/ Expand \/ Allocated
    \/ \E order \in Orders : Rmqueue(order)
    \/ \E b \in Blocks : FreeInIrq(b) \/ FreeIrqZone(b) \/ DrainFree(b)
    \/ DrainTake
    \/ \E p \in Procs : \/ \E b \in Blocks : Free(p, b)
                        \/ \E order \in Orders : Shrink(p, order)
                        \/ Shrunk(p)

Spec == Init /\ [][Next]_vars

-----------------------------------------------------------------------------
\* The variables have their types; a block at hand is a block of the zone.
TypeOK ==
    /\ free \subseteq Blocks
    /\ \A x \in map : x[1] \in 0 .. MAX_ORDER - 2 /\ x[2] \in Zone
    /\ free_pages \in Nat
    /\ doing \in {"none", "free", "expand"}
    /\ blk \in Blocks \cup {NoBlock} /\ (blk = NoBlock <=> doing = "none")
    /\ low \in Orders
    /\ used \subseteq Zone
    /\ deferred \subseteq Blocks /\ drain \subseteq Blocks
    /\ shrinking \in [Procs -> Orders \cup {-1}]
    /\ local \in [Procs -> Blocks \cup {NoBlock}]

\* The pages of a set of blocks.
PagesOf(bs) == UNION {Pages(b) : b \in bs}

\* "one bit for each pair of blocks, which is set to 1 iff only one of the pair is
\* allocated" (page_alloc.c:101): exactly one of them is on the free list.  It holds at
\* every turn of the loops, so what __test_and_change_bit answers is true, and the
\* buddy that list_del takes off is on the list (page_alloc.c:179-196).
BitsTell ==
    \A b \in Blocks : b[1] # MAX_ORDER - 1 =>
        (Bit(b) \in map <=> (b \in free) # (Buddy(b) \in free))

\* Every page of the zone is in exactly one place: in use, on a free list, in the
\* hands of the one with the lock, on a local list, or on the list for keventd; and
\* no two blocks overlap.
OnePlace ==
    LET held   == {blk} \cup {local[p] : p \in Procs}
        blocks == free \cup deferred \cup drain \cup (held \ {NoBlock})
    IN  /\ PagesOf(blocks) = Zone \ used
        /\ \A b, c \in blocks : b # c => Pages(b) \cap Pages(c) = {}
        /\ free \cap (deferred \cup drain \cup held) = {} /\ deferred \cap drain = {}
        /\ {local[p] : p \in Procs} \cap (deferred \cup drain \cup ({blk} \ {NoBlock})) = {}
        /\ blk \notin deferred \cup drain

\* Everything that is free is found: a run of free pages that could be one block is
\* inside one free block, so rmqueue fails only if there is no such run
\* (page_alloc.c:104-107).
NoneHidden ==
    \A b \in Blocks : Pages(b) \subseteq PagesOf(free) =>
        \E c \in free : Pages(b) \subseteq Pages(c)

\* zone->free_pages counts the pages of the free lists and what is on its way to or
\* from them (page_alloc.c:172, 266).
FreeCounted ==
    free_pages = Cardinality(PagesOf(free))
                   + (CASE doing = "free" -> 2 ^ blk[1]
                        [] doing = "expand" -> 2 ^ blk[1] - 2 ^ low
                        [] OTHER -> 0)
=============================================================================
