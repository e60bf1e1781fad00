------------------------------- MODULE HeapSpec -------------------------------
(***************************************************************************)
(* What the users of a set of heaps may rely on.  Memory is granted to a   *)
(* heap in arenas; an allocation is a chunk inside one arena of the heap   *)
(* it was asked from, as large and as aligned as asked and apart from all  *)
(* other chunks, and it stays what it is until its user frees or resizes   *)
(* it, or its heap is discarded.  How a heap keeps its free memory is not  *)
(* said.                                                                   *)
(***************************************************************************)
EXTENDS Integers

VARIABLES
  arena,         \* address -> [size, heap]: the memory that starts there
  chunk          \* address -> [asked, align, size]: what a user was given there

heapSpecVars == <<arena, chunk>>

Heaps == {arena[a].heap : a \in DOMAIN arena}

Words(start, size) == start .. start + size - 1

InArena(arenas, p, size, heap) ==
  \E a \in DOMAIN arenas :
    arenas[a].heap = heap /\ Words(p, size) \subseteq Words(a, arenas[a].size)

ChunksOf(heap) == {p \in DOMAIN chunk : InArena(arena, p, chunk[p].size, heap)}

Without(f, S) == [x \in DOMAIN f \ S |-> f[x]]

(* A chunk that its user may be given at p beside the others. *)
Granted(p, new, others) ==
  /\ new.asked > 0 /\ new.size >= new.asked
  /\ p % new.align = 0
  /\ \A q \in others : Words(p, new.size) \cap Words(q, chunk[q].size) = {}

(* A heap may be given more memory whenever it is used. *)
Grow ==
  /\ DOMAIN arena \subseteq DOMAIN arena'
  /\ \A a \in DOMAIN arena : arena'[a] = arena[a]
  /\ \A a \in DOMAIN arena' \ DOMAIN arena, b \in DOMAIN arena' :
       a # b => Words(a, arena'[a].size) \cap Words(b, arena'[b].size) = {}

Init == arena = <<>> /\ chunk = <<>>

Allocate(heap) ==
  /\ Grow
  /\ \E p \in DOMAIN chunk' \ DOMAIN chunk :
       /\ Granted(p, chunk'[p], DOMAIN chunk)
       /\ InArena(arena', p, chunk'[p].size, heap)
       /\ Without(chunk', {p}) = chunk

Free == \E p \in DOMAIN chunk : chunk' = Without(chunk, {p}) /\ Grow

(* In place, or to a place of its own in the same heap. *)
Resize(heap) ==
  \E p \in ChunksOf(heap), q \in DOMAIN chunk' :
    /\ q = p \/ q \notin DOMAIN chunk
    /\ Granted(q, chunk'[q], DOMAIN chunk \ {p})
    /\ InArena(arena, q, chunk'[q].size, heap)
    /\ Without(chunk', {q}) = Without(chunk, {p})
    /\ UNCHANGED arena

(* The memory of a discarded heap may stay with it, or be taken back. *)
Discard(heap) ==
  LET gone == {a \in DOMAIN arena : arena[a].heap = heap}
  IN  /\ chunk' = Without(chunk, ChunksOf(heap))
      /\ arena' \in {arena, Without(arena, gone)}

(* A heap takes over another one, with every chunk in it. *)
TakeOver(heap, other) ==
  /\ arena' = [a \in DOMAIN arena |->
                 IF arena[a].heap = other THEN [arena[a] EXCEPT !.heap = heap] ELSE arena[a]]
  /\ UNCHANGED chunk

Next ==
  \/ Grow /\ UNCHANGED chunk
  \/ Free
  \/ \E heap \in Heaps' : Allocate(heap)
  \/ \E heap \in Heaps : Resize(heap) \/ Discard(heap)
  \/ \E heap, other \in Heaps : TakeOver(heap, other)

Spec == Init /\ [][Next]_heapSpecVars
=============================================================================
