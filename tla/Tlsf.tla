--------------------------------- MODULE Tlsf ---------------------------------
(***************************************************************************)
(* The allocator of tlsf.c: its functions as operators on its memory.      *)
(*                                                                         *)
(* An address, a size and an alignment count words of ALIGN_SIZE bytes.    *)
(* The mappings from sizes to lists only look at the highest bits of a     *)
(* size, so they give in words what they give in bytes.                    *)
(*                                                                         *)
(* A memory m is a record:                                                 *)
(*   m.blk   address of a block -> its header.  A header that block_absorb *)
(*           turned into payload is not in it.                             *)
(*   m.tlsf  address of a control_t -> its bitmaps and its lists; a list,  *)
(*           linked through next_free and prev_free in the code, is a      *)
(*           sequence, head first, and block_null does not appear.         *)
(*   m.abort whether an assertion failed: tlsf.c is compiled with them     *)
(*           (NDEBUG is defined in sdrad.h only).                          *)
(***************************************************************************)
EXTENDS Integers, SequencesExt, FiniteSetsExt

CONSTANTS
  SL_INDEX_COUNT_LOG2,   \* 5 in the code
  FL_INDEX_MAX,          \* 29 in the code, which counts bytes: 32
  TLSF_SIZE              \* tlsf_size(): words of a control_t

ASSUME TlsfAssumption ==
  /\ SL_INDEX_COUNT_LOG2 \in Nat \ {0} /\ FL_INDEX_MAX \in Nat
  /\ FL_INDEX_MAX > SL_INDEX_COUNT_LOG2
  /\ TLSF_SIZE \in Nat \ {0}

power2[k \in Nat] == IF k = 0 THEN 1 ELSE 2 * power2[k - 1]      \* 1 << k

SL_INDEX_COUNT   == power2[SL_INDEX_COUNT_LOG2]
FL_INDEX_COUNT   == FL_INDEX_MAX - SL_INDEX_COUNT_LOG2 + 1
SMALL_BLOCK_SIZE == SL_INDEX_COUNT

block_header_overhead == 1     \* the size field
block_start_offset    == 2     \* prev_phys_block and size
sizeof_block_header   == 4     \* those and next_free, prev_free
block_size_min        == 3
block_size_max        == power2[FL_INDEX_MAX]

NO_BLOCK == 0                  \* the null pointer of block and user addresses

-----------------------------------------------------------------------------
(* block_header_t *)

(* prev_phys is read only while prev_free is set.  Otherwise the word belongs *)
(* to the user of the previous block, and is NO_BLOCK here.                  *)
Header(size, free, prev_free) ==
  [size |-> size, free |-> free, prev_free |-> prev_free, prev_phys |-> NO_BLOCK]

tlsf_assert(m, holds) == [m EXCEPT !.abort = @ \/ ~holds]

(* f with v at x, where it may have had nothing. *)
With(f, x, v) == [y \in DOMAIN f \cup {x} |-> IF y = x THEN v ELSE f[y]]

SetHeader(m, b, header) == [m EXCEPT !.blk = With(@, b, header)]

block_from_ptr(ptr) == ptr - block_start_offset
block_to_ptr(b)     == b + block_start_offset

block_next(m, b) == block_to_ptr(b) + m.blk[b].size - block_header_overhead

block_set_size(m, b, size) == [m EXCEPT !.blk[b].size = size]
block_set_free(m, b)       == [m EXCEPT !.blk[b].free = TRUE]
block_set_used(m, b)       == [m EXCEPT !.blk[b].free = FALSE]
block_set_prev_free(m, b)  == [m EXCEPT !.blk[b].prev_free = TRUE]
block_set_prev_used(m, b)  == [m EXCEPT !.blk[b].prev_free = FALSE, !.blk[b].prev_phys = NO_BLOCK]
set_prev_phys(m, b, prev)  == [m EXCEPT !.blk[b].prev_phys = prev]

(* block_next asserts that there is a next block. *)
assert_not_last(m, b) == tlsf_assert(m, m.blk[b].size # 0)

block_link_next(m, b) == set_prev_phys(assert_not_last(m, b), block_next(m, b), b)

block_mark_as_free(m, b) ==
  block_set_free(block_set_prev_free(block_link_next(m, b), block_next(m, b)), b)

block_mark_as_used(m, b) ==
  block_set_used(block_set_prev_used(assert_not_last(m, b), block_next(m, b)), b)

align_up(x, align) == ((x + align - 1) \div align) * align

(* The size to look for, 0 when the request is 0 or too large. *)
adjust_request_size(size, align) ==
  LET aligned == align_up(size, align)
  IN  IF size = 0 \/ aligned >= block_size_max THEN 0
      ELSE IF aligned < block_size_min THEN block_size_min ELSE aligned

-----------------------------------------------------------------------------
(* From sizes to free lists *)

tlsf_fls(size) == CHOOSE k \in 0 .. FL_INDEX_MAX + 1 : power2[k] <= size /\ size < power2[k + 1]

mapping_insert(size) ==
  IF size < SMALL_BLOCK_SIZE
    THEN [fl |-> 0, sl |-> size]
    ELSE LET k == tlsf_fls(size)
         IN  [fl |-> k - (SL_INDEX_COUNT_LOG2 - 1),
              sl |-> size \div power2[k - SL_INDEX_COUNT_LOG2] - SL_INDEX_COUNT]

(* Mutant: the size is not rounded up to the next list. *)
mapping_search_same_list(size) == mapping_insert(size)

(* Rounded up, so that every block of the list is large enough. *)
mapping_search(size) ==
  mapping_insert(IF size < SMALL_BLOCK_SIZE THEN size
                 ELSE size + power2[tlsf_fls(size) - SL_INDEX_COUNT_LOG2] - 1)

(* Mutant: the lists of larger first-level ranges are not looked at. *)
search_one_level(m, c, at) ==
  LET sl_map == {sl \in m.tlsf[c].sl_bitmap[at.fl] : sl >= at.sl}
  IN  IF sl_map = {} THEN {} ELSE {[fl |-> at.fl, sl |-> Min(sl_map)]}

(* The head of the first list at or after `at` that is not empty, as its     *)
(* index; none when memory is exhausted.                                     *)
search_suitable_block(m, c, at) ==
  LET t      == m.tlsf[c]
      sl_map == {sl \in t.sl_bitmap[at.fl] : sl >= at.sl}
      fl_map == {fl \in t.fl_bitmap : fl > at.fl}
  IN  IF sl_map # {} THEN {[fl |-> at.fl, sl |-> Min(sl_map)]}
      ELSE IF fl_map = {} THEN {}
      ELSE {[fl |-> Min(fl_map), sl |-> Min(t.sl_bitmap[Min(fl_map)])]}

remove_free_block(m, c, b, at) ==
  LET t      == m.tlsf[c]
      list   == RemoveFirst(t.blocks[at.fl][at.sl], b)
      sl_map == IF list = <<>> THEN t.sl_bitmap[at.fl] \ {at.sl} ELSE t.sl_bitmap[at.fl]
  IN  [m EXCEPT !.tlsf[c] =
         [blocks    |-> [t.blocks EXCEPT ![at.fl][at.sl] = list],
          sl_bitmap |-> [t.sl_bitmap EXCEPT ![at.fl] = sl_map],
          fl_bitmap |-> IF sl_map = {} THEN t.fl_bitmap \ {at.fl} ELSE t.fl_bitmap]]

insert_free_block(m, c, b, at) ==
  LET t == m.tlsf[c]
  IN  [m EXCEPT !.tlsf[c] =
         [blocks    |-> [t.blocks EXCEPT ![at.fl][at.sl] = Cons(b, @)],
          sl_bitmap |-> [t.sl_bitmap EXCEPT ![at.fl] = @ \cup {at.sl}],
          fl_bitmap |-> t.fl_bitmap \cup {at.fl}]]

block_remove(m, c, b) == remove_free_block(m, c, b, mapping_insert(m.blk[b].size))
block_insert(m, c, b) == insert_free_block(m, c, b, mapping_insert(m.blk[b].size))

-----------------------------------------------------------------------------
(* Splitting and merging *)

block_can_split(m, b, size) == m.blk[b].size >= sizeof_block_header + size

split_off(b, size) == b + size + block_header_overhead

(* The second part is free.  Its prev_free bit is whatever was in memory: it *)
(* is set by everyone who calls this.                                        *)
block_split(m, b, size) ==
  LET remaining   == split_off(b, size)
      remain_size == m.blk[b].size - (size + block_header_overhead)
      cut == block_set_size(SetHeader(m, remaining, Header(remain_size, FALSE, FALSE)), b, size)
  IN  block_mark_as_free(tlsf_assert(cut, remain_size >= block_size_min), remaining)

(* Mutant: the block after is not told where its free neighbour now starts. *)
block_absorb_without_link(m, prev, b) ==
  [m EXCEPT !.blk = [a \in DOMAIN @ \ {b} |->
     IF a = prev THEN [@[a] EXCEPT !.size = @ + m.blk[b].size + block_header_overhead]
                 ELSE @[a]]]

drop_header(m, b) == [m EXCEPT !.blk = Restrict(@, DOMAIN @ \ {b})]

block_absorb(m, prev, b) ==
  LET size == m.blk[prev].size + m.blk[b].size + block_header_overhead
  IN  block_link_next(drop_header(block_set_size(assert_not_last(m, prev), prev, size), b), prev)

(* Where the block will start once merged with a free block before it. *)
merged_start(m, b) == IF m.blk[b].prev_free THEN m.blk[b].prev_phys ELSE b

block_merge_prev(m, c, b) ==
  LET prev == merged_start(m, b)
  IN  IF prev = b THEN m
      ELSE block_absorb(block_remove(tlsf_assert(m, m.blk[prev].free), c, prev), prev, b)

(* Mutant: a free block after the one that is freed is left alone. *)
block_merge_next_never(m, c, b) == m

(* Mutant: the free block after it stays in its list. *)
block_merge_next_listed(m, c, b) ==
  IF m.blk[block_next(m, b)].free THEN block_absorb(m, b, block_next(m, b)) ELSE m

block_merge_next(m, c, b) ==
  LET next == block_next(m, b)
  IN  IF m.blk[next].free THEN block_absorb(block_remove(m, c, next), b, next) ELSE m

(* What is cut off the end of a free block goes back to the pool ... *)
block_trim_free(m, c, b, size) ==
  LET rest == split_off(b, size)
      m1   == tlsf_assert(m, m.blk[b].free)
  IN  IF block_can_split(m, b, size)
        THEN block_insert(block_set_prev_free(block_link_next(block_split(m1, b, size), b), rest),
                          c, rest)
        ELSE m1

(* ... and off the end of a used block, merged with a free block after it ... *)
block_trim_used(m, c, b, size) ==
  LET rest == split_off(b, size)
      m1   == tlsf_assert(m, ~m.blk[b].free)
  IN  IF block_can_split(m, b, size)
        THEN block_insert(block_merge_next(block_set_prev_used(block_split(m1, b, size), rest),
                                           c, rest), c, rest)
        ELSE m1

(* ... and what is cut off the start: the second part is what is wanted. *)
trimmed_start(m, b, size) ==
  IF block_can_split(m, b, size) THEN split_off(b, size - block_header_overhead) ELSE b

block_trim_free_leading(m, c, b, size) ==
  LET rest == trimmed_start(m, b, size)
  IN  IF rest = b THEN m
      ELSE block_insert(
             block_link_next(block_set_prev_free(
               block_split(m, b, size - block_header_overhead), rest), b), c, b)

(* The lists that block_locate_free takes a block from: at most one. *)
LocateIndex(m, c, size) ==
  LET at == mapping_search(size)
  IN  IF size = 0 \/ at.fl >= FL_INDEX_COUNT THEN {} ELSE search_suitable_block(m, c, at)

LocatedBlock(m, c, size) ==
  LET where == LocateIndex(m, c, size)
  IN  IF where = {} THEN NO_BLOCK
      ELSE LET at == CHOOSE i \in where : TRUE IN Head(m.tlsf[c].blocks[at.fl][at.sl])

block_locate_free(m, c, size) ==
  LET b == LocatedBlock(m, c, size)
  IN  IF b = NO_BLOCK THEN m
      ELSE remove_free_block(tlsf_assert(m, m.blk[b].size >= size), c, b,
                             CHOOSE i \in LocateIndex(m, c, size) : TRUE)

block_prepare_used(m, c, b, size) ==
  IF b = NO_BLOCK THEN m
  ELSE block_mark_as_used(block_trim_free(tlsf_assert(m, size # 0), c, b, size), b)

-----------------------------------------------------------------------------
(* The interface.  What allocates returns its memory and the user's pointer. *)

Returns(m, ptr) == [mem |-> m, ptr |-> ptr]
UserPtr(b) == IF b = NO_BLOCK THEN NO_BLOCK ELSE block_to_ptr(b)

tlsf_malloc(m, c, size) ==
  LET adjust == adjust_request_size(size, 1)
      b      == LocatedBlock(m, c, adjust)
  IN  Returns(block_prepare_used(block_locate_free(m, c, adjust), c, b, adjust), UserPtr(b))

(* The words to skip so that the user's pointer is aligned: none, or enough  *)
(* to leave a free block in front.                                           *)
AlignGap(b, align) ==
  LET ptr  == block_to_ptr(b)
      gap  == align_up(ptr, align) - ptr
      skip == Max({sizeof_block_header - gap, align})
  IN  IF gap = 0 \/ gap >= sizeof_block_header THEN gap
      ELSE align_up(align_up(ptr, align) + skip, align) - ptr

(* Mutant: no room is asked for the free block in front. *)
aligned_request_without_gap(adjust, align) ==
  IF adjust = 0 \/ align <= 1 THEN adjust ELSE adjust_request_size(adjust + align, align)

AlignedRequest(adjust, align) ==
  IF adjust = 0 \/ align <= 1 THEN adjust
  ELSE adjust_request_size(adjust + align + sizeof_block_header, align)

tlsf_memalign(m, c, align, size) ==
  LET adjust == adjust_request_size(size, 1)
      asked  == AlignedRequest(adjust, align)
      found  == LocatedBlock(m, c, asked)
      gap    == AlignGap(found, align)
      m1     == block_locate_free(m, c, asked)
      b      == IF gap = 0 THEN found ELSE trimmed_start(m1, found, gap)
      m2     == IF gap = 0 THEN m1 ELSE block_trim_free_leading(m1, c, found, gap)
  IN  IF found = NO_BLOCK THEN Returns(m, NO_BLOCK)
      ELSE Returns(block_prepare_used(m2, c, b, adjust), block_to_ptr(b))

tlsf_free(m, c, ptr) ==
  LET b  == block_from_ptr(ptr)
      m1 == tlsf_assert(m, ~m.blk[b].free /\ m.blk[b].size # 0)
      m2 == block_mark_as_free(m1, b)
      start == merged_start(m2, b)
      m3 == block_merge_next(block_merge_prev(m2, c, b), c, start)
  IN  IF ptr = NO_BLOCK THEN m ELSE IF m1.abort THEN m1 ELSE block_insert(m3, c, start)

(* The next block is free and has enough space for the block to grow. *)
GrowsInPlace(m, b, adjust) ==
  LET next == block_next(m, b)
  IN  m.blk[next].free /\ adjust <= m.blk[b].size + m.blk[next].size + block_header_overhead

tlsf_realloc(m, c, ptr, size) ==
  LET b      == block_from_ptr(ptr)
      adjust == adjust_request_size(size, 1)
      grow   == adjust > m.blk[b].size
      moved  == tlsf_malloc(m, c, size)
      m1     == tlsf_assert(m, ~m.blk[b].free /\ m.blk[b].size # 0)
      grown  == IF grow THEN block_mark_as_used(block_merge_next(m1, c, b), b) ELSE m1
  IN  IF ptr = NO_BLOCK THEN tlsf_malloc(m, c, size)
      ELSE IF m1.abort THEN Returns(m1, NO_BLOCK)
      ELSE IF size = 0 THEN Returns(tlsf_free(m, c, ptr), NO_BLOCK)
      ELSE IF ~grow \/ GrowsInPlace(m, b, adjust)
        THEN Returns(block_trim_used(grown, c, b, adjust), ptr)
      ELSE IF moved.ptr = NO_BLOCK THEN moved
      ELSE Returns(tlsf_free(moved.mem, c, ptr), moved.ptr)

-----------------------------------------------------------------------------
(* Pools *)

pool_overhead == 2 * block_header_overhead
tlsf_get_pool(c) == c + TLSF_SIZE
FirstBlock(pool) == pool - block_header_overhead

(* A pool of a wrong size is refused, and nobody looks at the answer. *)
tlsf_add_pool(m, c, pool, words) ==
  LET b == FirstBlock(pool)
      pool_words == words - pool_overhead
      sentinel   == b + pool_words + block_header_overhead
      m1 == SetHeader(SetHeader(m, b, Header(pool_words, TRUE, FALSE)),
                      sentinel, Header(0, FALSE, TRUE))
  IN  IF pool_words < block_size_min \/ pool_words > block_size_max THEN m
      ELSE block_link_next(block_insert(m1, c, b), b)

control_construct ==
  [blocks    |-> [fl \in 0 .. FL_INDEX_COUNT - 1 |-> [sl \in 0 .. SL_INDEX_COUNT - 1 |-> <<>>]],
   sl_bitmap |-> [fl \in 0 .. FL_INDEX_COUNT - 1 |-> {}],
   fl_bitmap |-> {}]

(* What was in the memory is gone. *)
tlsf_create(m, c, words) ==
  [m EXCEPT !.tlsf = With(@, c, control_construct),
            !.blk = Restrict(@, DOMAIN @ \ (c .. c + words - 1))]

tlsf_create_with_pool(m, c, words) ==
  tlsf_add_pool(tlsf_create(m, c, words), c, tlsf_get_pool(c), words - TLSF_SIZE)

(* The blocks of a pool in the order of their addresses, up to the first one *)
(* of size 0.                                                                *)
tlsf_walk_pool(m, pool) ==
  LET walk[b \in DOMAIN m.blk] ==
        IF m.blk[b].size = 0 THEN <<>> ELSE <<b>> \o walk[block_next(m, b)]
  IN  walk[FirstBlock(pool)]

(* One step of the loop of tlsf_merge_pool: every block is told that the     *)
(* block before it is used, and free ones go to the lists of tlsf_1.         *)
merge_block(m, tlsf_1, b) ==
  LET m1 == block_set_prev_used(m, b)
  IN  IF m.blk[b].free THEN block_link_next(block_insert(m1, tlsf_1, b), b) ELSE m1

(* last_unused: the block after the last free one, which the code takes for  *)
(* the end of the pool.  It is not initialised when no block is free.        *)
LastUnused(m, tlsf_2) ==
  LET free == SelectSeq(tlsf_walk_pool(m, tlsf_get_pool(tlsf_2)), LAMBDA b : m.blk[b].free)
  IN  IF free = <<>> THEN {} ELSE {block_next(m, Last(free))}

tlsf_merge_pool(m, tlsf_1, tlsf_2) ==
  LET end    == CHOOSE b \in LastUnused(m, tlsf_2) : TRUE
      merged == FoldLeft(LAMBDA acc, b : merge_block(acc, tlsf_1, b), m,
                         tlsf_walk_pool(m, tlsf_get_pool(tlsf_2)))
  IN  [merged EXCEPT !.blk[end].size = 0, !.blk[end].free = FALSE, !.blk[end].prev_free = TRUE]

-----------------------------------------------------------------------------
(* The checks the allocator has for itself *)

tlsf_check(m, c) ==
  LET t == m.tlsf[c]
  IN  \A fl \in 0 .. FL_INDEX_COUNT - 1, sl \in 0 .. SL_INDEX_COUNT - 1 :
        LET list == t.blocks[fl][sl]
        IN  /\ fl \notin t.fl_bitmap => sl \notin t.sl_bitmap[fl]
            /\ sl \in t.sl_bitmap[fl] <=> list # <<>>
            /\ \A b \in ToSet(list) :
                 /\ m.blk[b].free /\ ~m.blk[b].prev_free
                 /\ ~m.blk[block_next(m, b)].free /\ m.blk[block_next(m, b)].prev_free
                 /\ m.blk[b].size >= block_size_min
                 /\ mapping_insert(m.blk[b].size) = [fl |-> fl, sl |-> sl]

(* integrity_walker: each block knows whether the one before it is free. *)
tlsf_check_pool(m, pool) ==
  LET blocks == tlsf_walk_pool(m, pool)
  IN  \A i \in DOMAIN blocks :
        m.blk[blocks[i]].prev_free = (i > 1 /\ m.blk[blocks[i - 1]].free)
=============================================================================
