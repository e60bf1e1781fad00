--------------------------- MODULE SdradHeaps_proofs ---------------------------
(***************************************************************************)
(* What the allocator guarantees (Tlsf_proofs) carried over to the         *)
(* library's heaps: whatever the application allocates, frees and resizes, *)
(* and whichever domains it makes, enters, leaves and destroys.            *)
(***************************************************************************)
EXTENDS SdradHeaps, Tlsf_proofs, FiniteSetTheorems

(* What the theorems are about.  Every heap is one pool.                     *)
OnePool ==
  /\ {MonitorSize, SDRAD_DEFAULT_HEAP_SIZE, SDRAD_DEFAULT_DATA_DOMAIN_SIZE}
       \subseteq 0 .. block_size_max
  /\ {SDRAD_DEFAULT_HEAP_SIZE, SDRAD_DEFAULT_DATA_DOMAIN_SIZE}
       \subseteq 0 .. SDRAD_TLSF_MAX_HEAP_SIZE

(* No request is for more than a heap can have.                              *)
RequestsFit == \A size \in Sizes : size < block_size_max

(* Domains are destroyed in the reverse order of their creation, with their  *)
(* heaps left to the cache; and either all by sdrad_destroy, or, data        *)
(* domains aside, all by a rewind: a slot that a rewind frees may otherwise  *)
(* be given out while the heap it still knows of waits in the cache.         *)
OneWayOut ==
  /\ LastFirst = TRUE /\ Options \subseteq {"NO_HEAP_MERGE"}
  /\ "fault" \in Calls => Options = {} /\ Kinds \subseteq {"EXECUTION"}

-----------------------------------------------------------------------------
(* The invariant, in parts *)

(* The words of the heaps: the monitor's, and what is mapped (reg: region). *)
Ext(reg) == [c \in {1} \cup DOMAIN reg |-> IF c = 1 THEN MonitorSize ELSE reg[c].size]

Within(reg, a, b) == a <= b /\ b < a + reg[a].size

RegionsIn(reg, end) ==
  \A a \in DOMAIN reg :
    /\ a \in Nat /\ a >= 1 + MonitorSize
    /\ reg[a].size \in Nat \ {0} /\ a + reg[a].size <= end
    /\ reg[a] = [size |-> reg[a].size, heap |-> reg[a].heap]
    /\ reg[a].heap \in {a, NULL}
    /\ reg[a].size <= block_size_max

(* What the application holds (l: live) are blocks of heaps in use, large    *)
(* enough; h: the headers.                                                   *)
LiveIn(l, reg, h) ==
  \A p \in DOMAIN l :
    /\ p \in Nat /\ l[p].asked \in Sizes
    /\ Used(h, block_from_ptr(p)) /\ h[block_from_ptr(p)].size >= l[p].asked
    /\ \E a \in DOMAIN reg : reg[a].heap = a /\ Within(reg, a, block_from_ptr(p))

(* What the monitor keeps, the nodes and the entries K, are blocks of its heap. *)
KeptIn(K, h) ==
  \A k \in K :
    /\ k \in Nat /\ Used(h, block_from_ptr(k))
    /\ 1 <= block_from_ptr(k) /\ block_from_ptr(k) < 1 + MonitorSize

(* The blocks held are as large as they were, headers h having become k. *)
SameSizes(l, h, k) ==
  \A p \in DOMAIN l : k[block_from_ptr(p)].size = h[block_from_ptr(p)].size

(* All that is in the heaps. *)
Sound(m, reg, end, l, K) ==
  /\ end \in Nat /\ end >= 1 + MonitorSize
  /\ RegionsIn(reg, end) /\ Valid(m, Ext(reg))
  /\ LiveIn(l, reg, m.blk) /\ KeptIn(K, m.blk)

-----------------------------------------------------------------------------
(* Regions *)

LEMMA ExtFacts ==
  ASSUME NEW reg, NEW end, RegionsIn(reg, end), NEW a \in DOMAIN reg
  PROVE  /\ a \in DOMAIN Ext(reg) /\ 1 \in DOMAIN Ext(reg) /\ a # 1
         /\ Ext(reg)[a] = reg[a].size /\ Ext(reg)[1] = MonitorSize
         /\ \A b : In(Ext(reg), a, b) <=> Within(reg, a, b)
<1>1. MonitorSize \in Nat \ {0} /\ a \in Nat /\ a >= 1 + MonitorSize
  BY HeapsAssumption DEF RegionsIn
<1>2. a # 1
  BY <1>1
<1> QED BY <1>2 DEF Ext, In, Within

LEMMA MonitorExt ==
  ASSUME NEW reg, NEW end, RegionsIn(reg, end)
  PROVE  1 \in DOMAIN Ext(reg) /\ Ext(reg)[1] = MonitorSize /\ 1 \notin DOMAIN reg
<1>1. MonitorSize \in Nat \ {0}
  BY HeapsAssumption
<1>2. 1 \notin DOMAIN reg
  BY <1>1 DEF RegionsIn
<1> QED BY <1>2 DEF Ext

(* Mapping a heap at the end: reg becomes new. *)
Mapped(reg, new, end, words) ==
  /\ RegionsIn(new, end + words) /\ Ext(new) = With(Ext(reg), end, words)
  /\ MayCreate(Ext(reg), end, words) /\ end \notin DOMAIN reg /\ end \in DOMAIN new
  /\ new[end].heap = end /\ new[end].size = words
  /\ DOMAIN new = DOMAIN reg \cup {end} /\ \A a \in DOMAIN reg : new[a] = reg[a]
  /\ end \notin DOMAIN Ext(reg)

LEMMA Mapping ==
  ASSUME NEW reg, NEW end \in Nat, end >= 1 + MonitorSize, RegionsIn(reg, end), Layout(Ext(reg)),
         NEW words \in Nat \ {0}, words <= block_size_max,
         NEW new, new = With(reg, end, [size |-> words, heap |-> end])
  PROVE  Mapped(reg, new, end, words)
<1>1. MonitorSize \in Nat \ {0} /\ block_size_max \in Nat
  BY HeapsAssumption, Numbers
<1>2. end \notin DOMAIN reg /\ end # 1
  BY <1>1 DEF RegionsIn
<1>3. /\ DOMAIN new = DOMAIN reg \cup {end} /\ (\A a \in DOMAIN reg : new[a] = reg[a])
      /\ new[end] = [size |-> words, heap |-> end]
  BY <1>2 DEF With
<1>4. RegionsIn(new, end + words)
  BY <1>1, <1>2, <1>3 DEF RegionsIn
<1>5. Ext(new) = With(Ext(reg), end, words)
  BY <1>2, <1>3 DEF Ext, With
<1>6. /\ DOMAIN Ext(reg) = {1} \cup DOMAIN reg /\ end \notin DOMAIN Ext(reg)
      /\ \A c \in DOMAIN Ext(reg) : Ext(reg)[c] \in Nat /\ c \in Nat /\ c + Ext(reg)[c] <= end
  BY <1>1, <1>2 DEF Ext, RegionsIn
<1> DEFINE ext == Ext(reg)
           big == With(ext, end, words)
<1> HIDE DEF ext
<1>7. /\ DOMAIN big = DOMAIN ext \cup {end} /\ big[end] = words
      /\ (\A c \in DOMAIN ext : big[c] = ext[c]) /\ big \in [DOMAIN big -> Nat]
  BY <1>6 DEF With, ext
<1>8. Layout(big)
  <2> HIDE DEF big
  <2>1. Layout(ext) /\ end \in Nat \ {0}
    BY <1>1 DEF ext
  <2>2. \A c \in DOMAIN ext : ext[c] \in Nat /\ c \in Nat /\ c + ext[c] <= end
    BY <1>6 DEF ext
  <2> QED BY <1>7, <2>1, <2>2 DEF Layout
<1>9. MayCreate(ext, end, words)
  BY <1>1, <1>6, <1>8 DEF MayCreate, ext
<1> QED BY <1>2, <1>3, <1>4, <1>5, <1>6, <1>9 DEF ext, Mapped

(* Where a block lies, it lies only once. *)
LEMMA OneRegion ==
  ASSUME NEW reg, NEW end, RegionsIn(reg, end), Layout(Ext(reg)),
         NEW a \in DOMAIN reg, NEW b \in Nat, Within(reg, a, b)
  PROVE  /\ \A c \in DOMAIN reg : Within(reg, c, b) => c = a
         /\ ~(b < 1 + MonitorSize)
<1>1. \A c \in DOMAIN reg : Within(reg, c, b) => c = a
  BY ExtFacts, OneOwner
<1>2. a \in Nat /\ a >= 1 + MonitorSize /\ MonitorSize \in Nat /\ a <= b
  BY HeapsAssumption DEF RegionsIn, Within
<1>3. ~(b < 1 + MonitorSize)
  BY <1>2
<1> QED BY <1>1, <1>3

-----------------------------------------------------------------------------
(* What the calls of the allocator do to what is held *)

LEMMA PointerFacts ==
  ASSUME NEW p \in Nat
  PROVE  /\ block_from_ptr(p) = p - 2 /\ block_to_ptr(block_from_ptr(p)) = p
         /\ \A q \in Nat : block_from_ptr(q) = block_from_ptr(p) => q = p
BY DEF block_from_ptr, block_to_ptr, block_start_offset

(* Headers h become k, with what is in use as it was, but for S. *)
LEMMA HeldAsBefore ==
  ASSUME NEW reg, NEW h, NEW k, NEW S, Intact(h, k, S),
         NEW l, LiveIn(l, reg, h), NEW K, KeptIn(K, h)
  PROVE  /\ (\A q \in K : block_from_ptr(q) \notin S) => KeptIn(K, k)
         /\ (\A p \in DOMAIN l : block_from_ptr(p) \notin S) => LiveIn(l, reg, k)
<1>1. ASSUME \A q \in K : block_from_ptr(q) \notin S PROVE KeptIn(K, k)
  BY <1>1 DEF KeptIn, Intact, Used
<1>2. ASSUME \A p \in DOMAIN l : block_from_ptr(p) \notin S PROVE LiveIn(l, reg, k)
  <2> SUFFICES ASSUME NEW p \in DOMAIN l
               PROVE  /\ p \in Nat /\ l[p].asked \in Sizes
                      /\ Used(k, block_from_ptr(p)) /\ k[block_from_ptr(p)].size >= l[p].asked
                      /\ \E a \in DOMAIN reg : reg[a].heap = a /\ Within(reg, a, block_from_ptr(p))
    BY DEF LiveIn
  <2>1. /\ p \in Nat /\ l[p].asked \in Sizes
        /\ Used(h, block_from_ptr(p)) /\ h[block_from_ptr(p)].size >= l[p].asked
        /\ \E a \in DOMAIN reg : reg[a].heap = a /\ Within(reg, a, block_from_ptr(p))
    BY DEF LiveIn
  <2>2. Used(k, block_from_ptr(p)) /\ k[block_from_ptr(p)].size = h[block_from_ptr(p)].size
    BY <1>2, <2>1 DEF Intact, Used
  <2> QED BY <2>1, <2>2
<1> QED BY <1>1, <1>2

LEMMA IntactSizes ==
  ASSUME NEW reg, NEW h, NEW k, Intact(h, k, {}), NEW l, LiveIn(l, reg, h)
  PROVE  SameSizes(l, h, k)
BY DEF SameSizes, Intact, LiveIn, Used

(* One more allocation of the application's, or none. *)
LEMMA HoldOne ==
  ASSUME NEW reg, NEW h, NEW l, LiveIn(l, reg, h), NEW ptr, NEW asked \in Sizes, NEW align,
         ptr # NULL => /\ ptr \in Nat /\ Used(h, block_from_ptr(ptr))
                       /\ h[block_from_ptr(ptr)].size >= asked
                       /\ \E a \in DOMAIN reg : reg[a].heap = a /\ Within(reg, a, block_from_ptr(ptr))
  PROVE  LiveIn(Hold(ptr, asked, align, l), reg, h)
<1>1. CASE ptr = NULL
  BY <1>1 DEF Hold
<1>2. CASE ptr # NULL
  <2> DEFINE n == With(l, ptr, [asked |-> asked, align |-> align])
  <2>1. /\ DOMAIN n = DOMAIN l \cup {ptr} /\ n[ptr].asked = asked
        /\ \A p \in DOMAIN l : p # ptr => n[p] = l[p]
    BY DEF With
  <2> HIDE DEF n
  <2>2. LiveIn(n, reg, h)
    BY <1>2, <2>1 DEF LiveIn
  <2> QED BY <1>2, <2>2 DEF Hold, n
<1> QED BY <1>1, <1>2

(* Fewer. *)
LEMMA HoldLess ==
  ASSUME NEW reg, NEW h, NEW l, LiveIn(l, reg, h), NEW S
  PROVE  LiveIn(Restrict(l, DOMAIN l \ S), reg, h)
<1> DEFINE n == Restrict(l, DOMAIN l \ S)
<1>1. DOMAIN n = DOMAIN l \ S /\ \A p \in DOMAIN n : n[p] = l[p]
  BY DEF Restrict
<1> HIDE DEF n
<1>2. LiveIn(n, reg, h)
  BY <1>1 DEF LiveIn
<1> QED BY <1>2 DEF n

(* The answer to an allocation of the application's. *)
LEMMA SoundAllocation ==
  ASSUME NEW m, NEW reg, NEW end, NEW l, NEW K, Sound(m, reg, end, l, K),
         NEW c \in DOMAIN reg, reg[c].heap = c, NEW size \in Sizes, NEW align,
         NEW r, Allocated(m, r, Ext(reg), c, size), r.ptr \in Nat
  PROVE  Sound(r.mem, reg, end, Hold(r.ptr, size, align, l), K)
<1>1. CASE r.ptr = NULL
  BY <1>1 DEF Sound, Allocated, Hold, NULL, NO_BLOCK
<1>2. CASE r.ptr # NULL
  <2> DEFINE b == block_from_ptr(r.ptr)
  <2>1. /\ Valid(r.mem, Ext(reg)) /\ Intact(m.blk, r.mem.blk, {})
        /\ Used(r.mem.blk, b) /\ In(Ext(reg), c, b) /\ r.mem.blk[b].size >= size
    BY <1>2 DEF Allocated, NULL, NO_BLOCK
  <2>2. LiveIn(l, reg, r.mem.blk) /\ KeptIn(K, r.mem.blk)
    <3>1. LiveIn(l, reg, m.blk) /\ KeptIn(K, m.blk)
      BY DEF Sound
    <3> QED BY <2>1, <3>1, HeldAsBefore
  <2>3. Within(reg, c, b)
    BY <2>1, ExtFacts DEF Sound
  <2>4. LiveIn(Hold(r.ptr, size, align, l), reg, r.mem.blk)
    BY <2>1, <2>2, <2>3, HoldOne
  <2> QED BY <2>1, <2>2, <2>4 DEF Sound
<1> QED BY <1>1, <1>2

(* The answer to an allocation of the monitor's. *)
LEMMA SoundMonitor ==
  ASSUME NEW m, NEW reg, NEW end, NEW l, NEW K, Sound(m, reg, end, l, K),
         NEW size, NEW r, Allocated(m, r, Ext(reg), 1, size), r.ptr \in Nat \ {NULL}
  PROVE  Sound(r.mem, reg, end, l, K \cup {r.ptr})
<1> DEFINE b == block_from_ptr(r.ptr)
<1>1. /\ Valid(r.mem, Ext(reg)) /\ Intact(m.blk, r.mem.blk, {})
      /\ Used(r.mem.blk, b) /\ In(Ext(reg), 1, b)
  BY DEF Allocated, NULL, NO_BLOCK
<1>2. LiveIn(l, reg, r.mem.blk) /\ KeptIn(K, r.mem.blk)
  <2>1. LiveIn(l, reg, m.blk) /\ KeptIn(K, m.blk)
    BY DEF Sound
  <2> QED BY <1>1, <2>1, HeldAsBefore
<1>3. 1 <= b /\ b < 1 + MonitorSize
  BY <1>1, MonitorExt DEF Sound, In
<1>4. KeptIn(K \cup {r.ptr}, r.mem.blk)
  BY <1>1, <1>2, <1>3 DEF KeptIn
<1> QED BY <1>1, <1>2, <1>4 DEF Sound

(* A new heap at the end of what is mapped. *)
LEMMA SoundMap ==
  ASSUME NEW m, NEW reg, NEW end, NEW l, NEW K, Sound(m, reg, end, l, K),
         NEW words \in Nat \ {0}, words <= block_size_max,
         NEW new, new = With(reg, end, [size |-> words, heap |-> end])
  PROVE  /\ Sound(tlsf_create_with_pool(m, end, words), new, end + words, l, K)
         /\ SameSizes(l, m.blk, tlsf_create_with_pool(m, end, words).blk)
<1> DEFINE n == tlsf_create_with_pool(m, end, words)
<1>1. /\ end \in Nat /\ end >= 1 + MonitorSize /\ RegionsIn(reg, end) /\ Layout(Ext(reg))
      /\ Valid(m, Ext(reg)) /\ LiveIn(l, reg, m.blk) /\ KeptIn(K, m.blk) /\ MonitorSize \in Nat
  BY HeapsAssumption DEF Sound, Valid, Between
<1>2. /\ RegionsIn(new, end + words) /\ Ext(new) = With(Ext(reg), end, words)
      /\ MayCreate(Ext(reg), end, words) /\ DOMAIN new = DOMAIN reg \cup {end}
      /\ \A a \in DOMAIN reg : new[a] = reg[a]
  <2>1. Mapped(reg, new, end, words)
    BY <1>1, Mapping
  <2> QED BY <2>1 DEF Mapped
<1>3. Valid(n, Ext(new)) /\ Intact(m.blk, n.blk, end .. end + words - 1)
  BY <1>1, <1>2, CreateIsSound
<1> HIDE DEF n
<1>4. \A a \in DOMAIN reg, b \in Nat : Within(reg, a, b) => b < end
  BY <1>1 DEF RegionsIn, Within
<1>5. \A p \in DOMAIN l : block_from_ptr(p) \notin end .. end + words - 1
  <2> SUFFICES ASSUME NEW p \in DOMAIN l, block_from_ptr(p) \in end .. end + words - 1 PROVE FALSE
    OBVIOUS
  <2>1. block_from_ptr(p) \in Nat /\ end <= block_from_ptr(p)
    BY <1>1
  <2> QED BY <1>1, <1>4, <2>1 DEF LiveIn
<1>6. \A q \in K : block_from_ptr(q) \notin end .. end + words - 1
  <2> SUFFICES ASSUME NEW q \in K, block_from_ptr(q) \in end .. end + words - 1 PROVE FALSE
    OBVIOUS
  <2>1. block_from_ptr(q) \in Nat /\ end <= block_from_ptr(q) /\ block_from_ptr(q) < 1 + MonitorSize
    BY <1>1 DEF KeptIn
  <2> QED BY <1>1, <2>1
<1>7. LiveIn(l, reg, n.blk) /\ KeptIn(K, n.blk)
  BY <1>1, <1>3, <1>5, <1>6, HeldAsBefore
<1>8. LiveIn(l, new, n.blk)
  BY <1>2, <1>7 DEF LiveIn, Within
<1>9. end + words \in Nat /\ end + words >= 1 + MonitorSize
  BY <1>1
<1>10. SameSizes(l, m.blk, n.blk)
  BY <1>1, <1>3, <1>5 DEF SameSizes, Intact, LiveIn, Used
<1> QED BY <1>2, <1>3, <1>7, <1>8, <1>9, <1>10 DEF Sound, n

(* A heap that was taken back is made empty, and is in use again. *)
LEMMA SoundRecycle ==
  ASSUME NEW m, NEW reg, NEW end, NEW l, NEW K, Sound(m, reg, end, l, K),
         NEW a \in DOMAIN reg, reg[a].heap = NULL,
         NEW new, new = [reg EXCEPT ![a].heap = a]
  PROVE  /\ Sound(tlsf_create_with_pool(m, a, reg[a].size), new, end, l, K)
         /\ SameSizes(l, m.blk, tlsf_create_with_pool(m, a, reg[a].size).blk)
<1> DEFINE words == reg[a].size
           n     == tlsf_create_with_pool(m, a, words)
           ext   == Ext(reg)
<1>1. /\ RegionsIn(reg, end) /\ Layout(ext) /\ Valid(m, ext)
      /\ LiveIn(l, reg, m.blk) /\ KeptIn(K, m.blk) /\ MonitorSize \in Nat
  BY HeapsAssumption DEF Sound, Valid, Between
<1>2. /\ a \in Nat \ {0} /\ words \in Nat /\ words <= block_size_max /\ a >= 1 + MonitorSize
      /\ a \in DOMAIN ext /\ ext[a] = words
  <2>1. a \in Nat /\ a >= 1 + MonitorSize /\ words \in Nat /\ words <= block_size_max
    BY <1>1 DEF RegionsIn
  <2>2. a \in DOMAIN ext /\ ext[a] = words
    BY <1>1, ExtFacts
  <2> QED BY <1>1, <2>1, <2>2
<1>3. /\ DOMAIN new = DOMAIN reg /\ new[a].heap = a
      /\ \A d \in DOMAIN reg : new[d].size = reg[d].size /\ (d # a => new[d] = reg[d])
      /\ new[a] = [size |-> words, heap |-> a]
  <2>1. reg[a] = [size |-> words, heap |-> reg[a].heap]
    BY <1>1 DEF RegionsIn
  <2> QED BY <2>1
<1>4. RegionsIn(new, end)
  BY <1>1, <1>3 DEF RegionsIn
<1>5. Ext(new) = ext
  BY <1>3 DEF Ext
<1> HIDE DEF ext, words
<1>6. With(ext, a, words) = ext
  <2>1. ext \in [DOMAIN ext -> Nat]
    BY <1>1 DEF Layout
  <2> QED BY <1>2, <2>1 DEF With
<1>7. MayCreate(ext, a, words)
  BY <1>1, <1>2, <1>6 DEF MayCreate
<1>8. Valid(n, ext) /\ Intact(m.blk, n.blk, a .. a + words - 1)
  <2>1. Valid(n, With(ext, a, words)) /\ Intact(m.blk, n.blk, a .. a + words - 1)
    BY <1>1, <1>7, CreateIsSound
  <2> QED BY <1>6, <2>1
<1> HIDE DEF n
<1>9. \A b \in Nat : b \in a .. a + words - 1 => Within(reg, a, b)
  BY <1>2 DEF Within, words
<1>10. \A p \in DOMAIN l : block_from_ptr(p) \notin a .. a + words - 1
  <2> SUFFICES ASSUME NEW p \in DOMAIN l, block_from_ptr(p) \in a .. a + words - 1 PROVE FALSE
    OBVIOUS
  <2>1. block_from_ptr(p) \in Nat /\ Within(reg, a, block_from_ptr(p))
    BY <1>2, <1>9
  <2>2. PICK d \in DOMAIN reg : reg[d].heap = d /\ Within(reg, d, block_from_ptr(p))
    BY <1>1 DEF LiveIn
  <2>3. d = a
    BY <1>1, <2>1, <2>2, OneRegion DEF ext
  <2> QED BY <1>2, <2>2, <2>3 DEF NULL
<1>11. \A q \in K : block_from_ptr(q) \notin a .. a + words - 1
  <2> SUFFICES ASSUME NEW q \in K, block_from_ptr(q) \in a .. a + words - 1 PROVE FALSE
    OBVIOUS
  <2>1. block_from_ptr(q) \in Nat /\ a <= block_from_ptr(q) /\ block_from_ptr(q) < 1 + MonitorSize
    BY <1>1, <1>2 DEF KeptIn
  <2> QED BY <1>1, <1>2, <2>1
<1>12. LiveIn(l, reg, n.blk) /\ KeptIn(K, n.blk)
  <2> DEFINE gone == a .. a + words - 1
             h    == m.blk
             k    == n.blk
  <2>1. /\ Intact(h, k, gone) /\ LiveIn(l, reg, h) /\ KeptIn(K, h)
        /\ (\A q \in K : block_from_ptr(q) \notin gone)
        /\ (\A p \in DOMAIN l : block_from_ptr(p) \notin gone)
    BY <1>1, <1>8, <1>10, <1>11
  <2> HIDE DEF gone, h, k
  <2>2. LiveIn(l, reg, k) /\ KeptIn(K, k)
    BY <2>1, HeldAsBefore
  <2> QED BY <2>2 DEF k
<1>13. LiveIn(l, new, n.blk)
  BY <1>3, <1>12 DEF LiveIn, Within
<1>14. SameSizes(l, m.blk, n.blk)
  BY <1>1, <1>8, <1>10 DEF SameSizes, Intact, LiveIn, Used
<1> QED BY <1>4, <1>5, <1>8, <1>12, <1>13, <1>14 DEF Sound, n, words

(* The blocks held are all different, and none is the application's and the *)
(* monitor's.                                                               *)
LEMMA HeldApart ==
  ASSUME NEW m, NEW reg, NEW end, NEW l, NEW K, Sound(m, reg, end, l, K), NEW p \in DOMAIN l
  PROVE  /\ \A q \in DOMAIN l \ {p} : block_from_ptr(q) # block_from_ptr(p)
         /\ \A q \in K : block_from_ptr(q) # block_from_ptr(p)
<1>1. /\ RegionsIn(reg, end) /\ Layout(Ext(reg)) /\ LiveIn(l, reg, m.blk) /\ KeptIn(K, m.blk)
      /\ DOMAIN m.blk \subseteq Nat
  BY DEF Sound, Valid, Between
<1>2. \A q \in DOMAIN l : q \in Nat
  BY <1>1 DEF LiveIn
<1>3. PICK a \in DOMAIN reg : Within(reg, a, block_from_ptr(p))
  BY <1>1 DEF LiveIn
<1>4. block_from_ptr(p) \in Nat
  BY <1>1 DEF LiveIn, Used
<1>5. ~(block_from_ptr(p) < 1 + MonitorSize)
  BY <1>1, <1>3, <1>4, OneRegion
<1> QED BY <1>1, <1>2, <1>5, PointerFacts DEF KeptIn

LEMMA SoundFree ==
  ASSUME NEW m, NEW reg, NEW end, NEW l, NEW K, Sound(m, reg, end, l, K), NEW p \in DOMAIN l,
         NEW c \in DOMAIN reg, Within(reg, c, block_from_ptr(p))
  PROVE  /\ Sound(tlsf_free(m, c, p), reg, end, Restrict(l, DOMAIN l \ {p}), K)
         /\ SameSizes(Restrict(l, DOMAIN l \ {p}), m.blk, tlsf_free(m, c, p).blk)
<1> DEFINE b  == block_from_ptr(p)
           n  == tlsf_free(m, c, p)
           l2 == Restrict(l, DOMAIN l \ {p})
<1>1. /\ RegionsIn(reg, end) /\ Valid(m, Ext(reg)) /\ LiveIn(l, reg, m.blk) /\ KeptIn(K, m.blk)
  BY DEF Sound
<1>2. p \in Nat /\ Used(m.blk, b) /\ block_to_ptr(b) = p
  BY <1>1, PointerFacts DEF LiveIn
<1>3. c \in DOMAIN Ext(reg) /\ In(Ext(reg), c, b)
  BY <1>1, ExtFacts
<1> HIDE DEF b
<1>4. Valid(n, Ext(reg)) /\ Intact(m.blk, n.blk, {b})
  <2>1. Valid(tlsf_free(m, c, block_to_ptr(b)), Ext(reg))
        /\ Intact(m.blk, tlsf_free(m, c, block_to_ptr(b)).blk, {b})
    BY <1>1, <1>2, <1>3, FreeIsSound
  <2> QED BY <1>2, <2>1
<1>5. DOMAIN l2 = DOMAIN l \ {p}
  BY DEF Restrict
<1>6. LiveIn(l2, reg, m.blk)
  BY <1>1, HoldLess
<1>7. (\A q \in DOMAIN l2 : block_from_ptr(q) \notin {b}) /\ (\A q \in K : block_from_ptr(q) \notin {b})
  BY <1>5, HeldApart DEF b
<1> HIDE DEF n, l2
<1>8. LiveIn(l2, reg, n.blk) /\ KeptIn(K, n.blk)
  BY <1>1, <1>4, <1>6, <1>7, HeldAsBefore
<1>9. SameSizes(l2, m.blk, n.blk)
  BY <1>4, <1>6, <1>7 DEF SameSizes, Intact, LiveIn, Used
<1> QED BY <1>1, <1>4, <1>8, <1>9 DEF Sound, n, l2

(* What the application holds after it resized what it held at p. *)
HeldAfter(l, p, r, size) ==
  IF r.ptr = NULL /\ size # 0 THEN l ELSE Hold(r.ptr, size, 1, Restrict(l, DOMAIN l \ {p}))

LEMMA SoundResize ==
  ASSUME NEW m, NEW reg, NEW end, NEW l, NEW K, Sound(m, reg, end, l, K), NEW p \in DOMAIN l,
         NEW c \in DOMAIN reg, reg[c].heap = c, Within(reg, c, block_from_ptr(p)),
         NEW size \in Sizes, NEW r, Reallocated(m, r, Ext(reg), c, block_from_ptr(p), size),
         r.ptr \in Nat
  PROVE  /\ Sound(r.mem, reg, end, HeldAfter(l, p, r, size), K)
         /\ SameSizes(Restrict(l, DOMAIN l \ {p}), m.blk, r.mem.blk)
<1> DEFINE b  == block_from_ptr(p)
           l2 == Restrict(l, DOMAIN l \ {p})
<1>1. /\ RegionsIn(reg, end) /\ LiveIn(l, reg, m.blk) /\ KeptIn(K, m.blk)
  BY DEF Sound
<1>2. DOMAIN l2 = DOMAIN l \ {p}
  BY DEF Restrict
<1>3. LiveIn(l2, reg, m.blk)
  BY <1>1, HoldLess
<1>4. (\A q \in DOMAIN l2 : block_from_ptr(q) \notin {b}) /\ (\A q \in K : block_from_ptr(q) \notin {b})
  BY <1>2, HeldApart
<1> HIDE DEF l2, b
<1>5. ASSUME Valid(r.mem, Ext(reg)), Intact(m.blk, r.mem.blk, {b})
      PROVE  /\ LiveIn(l2, reg, r.mem.blk) /\ KeptIn(K, r.mem.blk)
             /\ SameSizes(l2, m.blk, r.mem.blk)
  <2>1. LiveIn(l2, reg, r.mem.blk) /\ KeptIn(K, r.mem.blk)
    BY <1>1, <1>3, <1>4, <1>5, HeldAsBefore
  <2>2. SameSizes(l2, m.blk, r.mem.blk)
    BY <1>3, <1>4, <1>5 DEF SameSizes, Intact, LiveIn, Used
  <2> QED BY <2>1, <2>2
<1>6. CASE r.ptr = NULL /\ size # 0
  <2>1. r.mem = m /\ HeldAfter(l, p, r, size) = l
    BY <1>6 DEF Reallocated, HeldAfter, NULL, NO_BLOCK
  <2>2. SameSizes(l2, m.blk, r.mem.blk)
    BY <2>1 DEF SameSizes
  <2> QED BY <2>1, <2>2 DEF l2
<1>7. CASE r.ptr = NULL /\ size = 0
  <2>1. Valid(r.mem, Ext(reg)) /\ Intact(m.blk, r.mem.blk, {b})
    BY <1>7 DEF Reallocated, NULL, NO_BLOCK, b
  <2>2. HeldAfter(l, p, r, size) = l2
    BY <1>7 DEF HeldAfter, Hold, l2
  <2> QED BY <1>5, <2>1, <2>2 DEF Sound, l2
<1>8. CASE r.ptr # NULL
  <2> DEFINE to == block_from_ptr(r.ptr)
  <2>1. /\ Valid(r.mem, Ext(reg)) /\ Intact(m.blk, r.mem.blk, {b})
        /\ Used(r.mem.blk, to) /\ In(Ext(reg), c, to) /\ r.mem.blk[to].size >= size
    BY <1>8 DEF Reallocated, NULL, NO_BLOCK, b
  <2>2. LiveIn(l2, reg, r.mem.blk) /\ KeptIn(K, r.mem.blk) /\ SameSizes(l2, m.blk, r.mem.blk)
    BY <1>5, <2>1
  <2>3. Within(reg, c, to)
    BY <1>1, <2>1, ExtFacts
  <2>4. LiveIn(Hold(r.ptr, size, 1, l2), reg, r.mem.blk)
    BY <2>1, <2>2, <2>3, HoldOne
  <2>5. HeldAfter(l, p, r, size) = Hold(r.ptr, size, 1, l2)
    BY <1>8 DEF HeldAfter, l2
  <2> QED BY <2>1, <2>2, <2>4, <2>5 DEF Sound, l2
<1> QED BY <1>6, <1>7, <1>8

(* The heap h serves no more, or as before; and only S was held in it. *)
Retired(reg, new, h) ==
  /\ DOMAIN new = DOMAIN reg /\ \A a \in DOMAIN reg : a # h => new[a] = reg[a]
  /\ h \in DOMAIN reg => new[h] = reg[h] \/ new[h] = [reg[h] EXCEPT !.heap = NULL]

NothingBut(S, l, reg, h) ==
  \A p \in DOMAIN l \ S : ~(h \in DOMAIN reg /\ Within(reg, h, block_from_ptr(p)))

(* The heap h is taken back, with what was held in it. *)
LEMMA SoundDiscard ==
  ASSUME NEW m, NEW reg, NEW end, NEW l, NEW K, Sound(m, reg, end, l, K),
         NEW h, NEW S, NothingBut(S, l, reg, h), NEW new, Retired(reg, new, h)
  PROVE  Sound(m, new, end, Restrict(l, DOMAIN l \ S), K)
<1> DEFINE l2 == Restrict(l, DOMAIN l \ S)
<1>0. /\ DOMAIN new = DOMAIN reg /\ \A a \in DOMAIN reg : a # h => new[a] = reg[a]
      /\ h \in DOMAIN reg => new[h] = reg[h] \/ new[h] = [reg[h] EXCEPT !.heap = NULL]
      /\ \A p \in DOMAIN l \ S : ~(h \in DOMAIN reg /\ Within(reg, h, block_from_ptr(p)))
  BY DEF Retired, NothingBut
<1>1. RegionsIn(reg, end) /\ LiveIn(l, reg, m.blk)
  BY DEF Sound
<1>2. \A a \in DOMAIN reg : new[a].size = reg[a].size /\ (a # h => new[a].heap = reg[a].heap)
  <2>1. \A a \in DOMAIN reg : reg[a] = [size |-> reg[a].size, heap |-> reg[a].heap]
    BY <1>1 DEF RegionsIn
  <2> QED BY <1>0, <2>1
<1>3. RegionsIn(new, end)
  <2>1. \A a \in DOMAIN reg : /\ new[a] = [size |-> new[a].size, heap |-> new[a].heap]
                              /\ new[a].heap = reg[a].heap \/ new[a].heap = NULL
    <3>1. \A a \in DOMAIN reg : reg[a] = [size |-> reg[a].size, heap |-> reg[a].heap]
      BY <1>1 DEF RegionsIn
    <3> QED BY <1>0, <3>1
  <2> QED BY <1>0, <1>1, <1>2, <2>1 DEF RegionsIn
<1>4. Ext(new) = Ext(reg)
  BY <1>0, <1>2 DEF Ext
<1>5. DOMAIN l2 = DOMAIN l \ S
  BY DEF Restrict
<1>6. LiveIn(l2, reg, m.blk)
  BY <1>1, HoldLess
<1> HIDE DEF l2
<1>7. LiveIn(l2, new, m.blk)
  <2> SUFFICES ASSUME NEW p \in DOMAIN l2
               PROVE  \E a \in DOMAIN new : new[a].heap = a /\ Within(new, a, block_from_ptr(p))
    BY <1>6 DEF LiveIn
  <2>1. PICK a \in DOMAIN reg : reg[a].heap = a /\ Within(reg, a, block_from_ptr(p))
    BY <1>6 DEF LiveIn
  <2>2. a # h
    BY <1>0, <1>5, <2>1
  <2> QED BY <1>0, <1>2, <2>1, <2>2 DEF Within
<1> QED BY <1>3, <1>4, <1>7 DEF Sound, l2

(* Fewer of the monitor's blocks are referred to. *)
LEMMA SoundFewer ==
  ASSUME NEW m, NEW reg, NEW end, NEW l, NEW K, Sound(m, reg, end, l, K), NEW J \in SUBSET K
  PROVE  Sound(m, reg, end, l, J)
BY DEF Sound, KeptIn

-----------------------------------------------------------------------------
(* The invariant of the specification *)

NodeRecord  == [sdi : Slot, node : Nat]
EntryRecord == [heap : Nat, size : Nat, entry : Nat]

Typed ==
  /\ smd_tlsf = 1 /\ brk \in Nat /\ tlsf_structure \in Nat
  /\ sdi_tlsf \in [Slot -> Nat] /\ sdi_size_of_heap \in [Slot -> Nat]
  /\ sdi_init_heap_flag \in [Slot -> BOOLEAN] /\ sdi_parent_domain \in [Slot -> Nat]
  /\ udi_control \in Seq(NodeRecord) /\ cache \in Seq(EntryRecord)
  /\ status \subseteq Slot /\ ctl \in {"app", "fault", "corrupt"}

Domains == Listed \cup {ROOT_DOMAIN}

(* A domain is in the list once, below those that were made before it, its   *)
(* parent among them.                                                        *)
Listing ==
  /\ ROOT_DOMAIN \in status /\ Listed \subseteq status /\ ROOT_DOMAIN \notin Listed
  /\ \A i, j \in DOMAIN udi_control : udi_control[i].sdi = udi_control[j].sdi => i = j
  /\ \A i \in DOMAIN udi_control :
       LET parent == sdi_parent_domain[udi_control[i].sdi]
       IN  \/ parent = ROOT_DOMAIN
           \/ \E j \in DOMAIN udi_control : i < j /\ udi_control[j].sdi = parent
  /\ active_domain \in Domains

(* A heap that serves: nobody took it back. *)
Serves(a) == a \in DOMAIN region /\ region[a].heap = a

(* No two domains share a heap, and the heap that is selected is the active  *)
(* domain's or nobody's.                                                     *)
Owning ==
  /\ \A s \in Domains :
       sdi_tlsf[s] # NULL =>
         /\ Serves(sdi_tlsf[s]) /\ sdi_size_of_heap[s] = region[sdi_tlsf[s]].size
         /\ \A t \in Domains : t # s => sdi_tlsf[t] # sdi_tlsf[s]
         /\ s # active_domain => tlsf_structure # sdi_tlsf[s]
  /\ \A s \in Domains : sdi_init_heap_flag[s] => sdi_tlsf[s] # NULL
  /\ tlsf_structure # NULL => Serves(tlsf_structure)

(* The heaps in the cache serve nobody, and are in it once. *)
Caching ==
  \A i \in DOMAIN cache :
    cache[i].heap # NULL =>
      /\ cache[i].heap \in DOMAIN region /\ region[cache[i].heap].heap = NULL
      /\ cache[i].size = region[cache[i].heap].size
      /\ \A j \in DOMAIN cache : cache[j].heap = cache[i].heap => i = j

(* What a slot still knows of a heap when it is given out: nothing ...       *)
Fresh == \A s \in Slot \ status : sdi_tlsf[s] = NULL /\ ~sdi_init_heap_flag[s]

(* ... or, where domains go by rewinds alone, the heap that waits in the     *)
(* cache for this very slot.                                                 *)
Aligned ==
  LET top == 1 + Len(udi_control)
  IN  /\ status = 0 .. top
      /\ \A i \in DOMAIN udi_control : udi_control[i].sdi = 1 + top - i
      /\ \A s \in Slot : sdi_init_heap_flag[s] <=> sdi_tlsf[s] # NULL
      /\ \A s \in Slot : s > top =>
           sdi_tlsf[s] = IF s - top \in DOMAIN cache THEN cache[s - top].heap ELSE NULL

Slots == IF "fault" \in Calls THEN Aligned ELSE Fresh

HeapSound == Sound(mem, region, brk, live, Kept)

HeapsInv == Typed /\ Listing /\ Owning /\ Caching /\ Slots /\ HeapSound

LEMMA SlotFacts == ROOT_DOMAIN \in Slot /\ 0 \in Slot /\ NULL \in Nat /\ ROOT_DOMAIN # 0
  BY HeapsAssumption DEF Slot, ROOT_DOMAIN, NULL

LEMMA DomainsAreSlots ==
  ASSUME Typed
  PROVE  Listed \subseteq Slot /\ Domains \subseteq Slot
<1>1. \A i \in DOMAIN udi_control : udi_control[i] \in NodeRecord
  <2>1. DOMAIN udi_control = 1 .. Len(udi_control)
    BY LenProperties DEF Typed
  <2> QED BY <2>1, ElementOfSeq DEF Typed
<1>2. Listed \subseteq Slot
  BY <1>1 DEF Listed, NodeRecord
<1> QED BY <1>2, SlotFacts DEF Domains

(* A heap that is asked from, before the answer: the one at c, and the       *)
(* memory m it is in.                                                        *)
Asking(m, c, s) ==
  \/ KeepHeaps /\ m = mem /\ Serves(c)
  \/ /\ c = brk /\ m = NewHeap(mem) /\ MapHeap(s, SDRAD_DEFAULT_HEAP_SIZE)

LEMMA OnePoolCreated ==
  ASSUME OnePool, NEW m, NEW c, NEW rest
  PROVE  /\ CreatePools(m, c, SDRAD_DEFAULT_HEAP_SIZE, rest)
              = tlsf_create_with_pool(m, c, SDRAD_DEFAULT_HEAP_SIZE)
         /\ CreatePools(m, c, SDRAD_DEFAULT_DATA_DOMAIN_SIZE, rest)
              = tlsf_create_with_pool(m, c, SDRAD_DEFAULT_DATA_DOMAIN_SIZE)
<1>1. /\ SDRAD_DEFAULT_HEAP_SIZE <= SDRAD_TLSF_MAX_HEAP_SIZE
      /\ SDRAD_DEFAULT_DATA_DOMAIN_SIZE <= SDRAD_TLSF_MAX_HEAP_SIZE
  BY HeapsAssumption DEF OnePool
<1> QED BY <1>1 DEF CreatePools

(* With the heap that is asked from there, all is sound as before. *)
Asked(m, c) ==
  /\ Sound(m, region', brk', live, Kept)
  /\ c \in DOMAIN region' /\ region'[c].heap = c
  /\ \A a \in DOMAIN region : a \in DOMAIN region' /\ region'[a] = region[a]
  /\ SameSizes(live, mem.blk, m.blk)

LEMMA AskingIsSound ==
  ASSUME OnePool, HeapSound, NEW m, NEW c, NEW s, Asking(m, c, s)
  PROVE  Asked(m, c)
<1>1. CASE KeepHeaps /\ m = mem /\ Serves(c)
  BY <1>1 DEF KeepHeaps, Serves, HeapSound, Asked, SameSizes
<1>2. CASE c = brk /\ m = NewHeap(mem) /\ MapHeap(s, SDRAD_DEFAULT_HEAP_SIZE)
  <2> DEFINE words == SDRAD_DEFAULT_HEAP_SIZE
             new   == region'
  <2>1. /\ m = tlsf_create_with_pool(mem, brk, words) /\ brk' = brk + words
        /\ new = With(region, brk, [size |-> words, heap |-> brk])
    BY <1>2, OnePoolCreated DEF NewHeap, MapHeap
  <2>2. words \in Nat \ {0} /\ words <= block_size_max
    BY HeapsAssumption, Numbers DEF OnePool
  <2> HIDE DEF words, new
  <2>3. Sound(m, new, brk', live, Kept) /\ SameSizes(live, mem.blk, m.blk)
    BY <2>1, <2>2, SoundMap DEF HeapSound
  <2>4. Mapped(region, new, brk, words)
    <3>1. brk \in Nat /\ brk >= 1 + MonitorSize /\ RegionsIn(region, brk) /\ Layout(Ext(region))
      BY DEF HeapSound, Sound, Valid, Between
    <3> QED BY <2>1, <2>2, <3>1, Mapping
  <2> QED BY <1>2, <2>3, <2>4 DEF Mapped, Asked, new
<1> QED BY <1>1, <1>2 DEF Asking

(* Nothing but the heaps of a domain is touched. *)
LEMMA AskingKeepsOwners ==
  ASSUME OnePool, HeapsInv, NEW m, NEW c, NEW s \in Domains, Asking(m, c, s),
         UNCHANGED <<infoVars, listVars, active_domain, smd_tlsf, ctl>>,
         \/ UNCHANGED tlsf_structure
         \/ tlsf_structure' = c /\ s = active_domain /\ c = brk /\ MapHeap(s, SDRAD_DEFAULT_HEAP_SIZE)
  PROVE  Typed' /\ Listing' /\ Owning' /\ Caching' /\ Slots'
<1>0. /\ Typed /\ Listing /\ Owning /\ Caching /\ Slots /\ HeapSound /\ s \in Slot /\ Domains \subseteq Slot
      /\ Listed' = Listed /\ Domains' = Domains
  BY DomainsAreSlots DEF HeapsInv, Domains, Listed, listVars
<1>1. Listing'
  BY <1>0 DEF Listing, infoVars, listVars
<1>2. CASE KeepHeaps /\ UNCHANGED tlsf_structure
  <2>1. Typed' /\ Owning' /\ Caching'
    BY <1>0, <1>2 DEF KeepHeaps, Typed, Owning, Caching, Serves, infoVars, listVars
  <2>2. Slots'
    BY <1>0, <1>2 DEF KeepHeaps, Slots, Aligned, Fresh, infoVars, listVars
  <2> QED BY <1>1, <2>1, <2>2
<1>3. CASE /\ MapHeap(s, SDRAD_DEFAULT_HEAP_SIZE)
           /\ UNCHANGED tlsf_structure \/ (tlsf_structure' = brk /\ s = active_domain)
  <2> DEFINE words == SDRAD_DEFAULT_HEAP_SIZE
             new   == region'
  <2>1. words \in Nat \ {0} /\ words <= block_size_max
    BY HeapsAssumption, Numbers DEF OnePool
  <2>2. /\ new = With(region, brk, [size |-> words, heap |-> brk]) /\ brk' = brk + words
        /\ sdi_tlsf' = [sdi_tlsf EXCEPT ![s] = brk]
        /\ sdi_size_of_heap' = [sdi_size_of_heap EXCEPT ![s] = words]
        /\ sdi_init_heap_flag' = [sdi_init_heap_flag EXCEPT ![s] = TRUE]
    BY <1>3 DEF MapHeap
  <2> HIDE DEF words, new
  <2>3. /\ brk \in Nat /\ brk >= 1 + MonitorSize /\ RegionsIn(region, brk) /\ Layout(Ext(region))
        /\ brk # NULL /\ MonitorSize \in Nat
    <3>1. brk \in Nat /\ brk >= 1 + MonitorSize /\ RegionsIn(region, brk) /\ Layout(Ext(region))
      BY <1>0 DEF HeapSound, Sound, Valid, Between
    <3> QED BY <3>1, HeapsAssumption DEF NULL
  <2>4. Mapped(region, new, brk, words)
    BY <2>1, <2>2, <2>3, Mapping
  <2>5. /\ brk \notin DOMAIN region /\ DOMAIN new = DOMAIN region \cup {brk}
        /\ (\A a \in DOMAIN region : new[a] = region[a]) /\ new[brk].heap = brk /\ new[brk].size = words
    BY <2>4 DEF Mapped
  <2>6. Typed'
    BY <1>0, <1>3, <2>1, <2>2, <2>3 DEF Typed, infoVars, listVars
  <2>7. /\ sdi_tlsf'[s] = brk /\ sdi_size_of_heap'[s] = words /\ sdi_init_heap_flag'[s] = TRUE
        /\ \A t \in Slot \ {s} : /\ sdi_tlsf'[t] = sdi_tlsf[t] /\ sdi_size_of_heap'[t] = sdi_size_of_heap[t]
                                 /\ sdi_init_heap_flag'[t] = sdi_init_heap_flag[t]
    BY <1>0, <2>2 DEF Typed
  <2>8. Owning'
    <3>1. \A a : Serves(a) => a \in DOMAIN region' /\ region'[a] = region[a] /\ region[a].heap = a /\ a # brk
      BY <2>5 DEF Serves, new
    <3>2. brk \in DOMAIN region' /\ region'[brk].heap = brk /\ region'[brk].size = words
      BY <2>5 DEF new
    <3>3. active_domain' = active_domain
      OBVIOUS
    <3> SUFFICES ASSUME NEW t \in Domains
                 PROVE  /\ sdi_tlsf'[t] # NULL =>
                             /\ sdi_tlsf'[t] \in DOMAIN region' /\ region'[sdi_tlsf'[t]].heap = sdi_tlsf'[t]
                             /\ sdi_size_of_heap'[t] = region'[sdi_tlsf'[t]].size
                             /\ \A u \in Domains : u # t => sdi_tlsf'[u] # sdi_tlsf'[t]
                             /\ t # active_domain => tlsf_structure' # sdi_tlsf'[t]
                        /\ sdi_init_heap_flag'[t] => sdi_tlsf'[t] # NULL
                        /\ tlsf_structure' # NULL =>
                             tlsf_structure' \in DOMAIN region' /\ region'[tlsf_structure'].heap = tlsf_structure'
      BY <1>0, <3>3 DEF Owning, Serves
    <3>4. /\ sdi_tlsf[t] # NULL =>
               /\ Serves(sdi_tlsf[t]) /\ sdi_size_of_heap[t] = region[sdi_tlsf[t]].size
               /\ \A u \in Domains : u # t => sdi_tlsf[u] # sdi_tlsf[t]
               /\ t # active_domain => tlsf_structure # sdi_tlsf[t]
          /\ sdi_init_heap_flag[t] => sdi_tlsf[t] # NULL
          /\ tlsf_structure # NULL => Serves(tlsf_structure)
          /\ \A u \in Domains : sdi_tlsf[u] # NULL => Serves(sdi_tlsf[u])
      BY <1>0 DEF Owning
    <3>5. CASE t = s
      BY <1>0, <1>3, <2>3, <2>7, <3>1, <3>2, <3>4, <3>5
    <3>6. CASE t # s
      BY <1>0, <1>3, <2>3, <2>7, <3>1, <3>2, <3>4, <3>6
    <3> QED BY <3>5, <3>6
  <2>9. Caching'
    <3>1. cache' = cache
      BY DEF listVars
    <3> QED BY <1>0, <2>5, <3>1 DEF Caching, new
  <2>10. Slots'
    <3>1. UNCHANGED <<udi_control, cache, status>>
      BY DEF listVars, infoVars
    <3>2. s \in status
      BY <1>0 DEF Domains, Listing
    <3>3. ASSUME Fresh PROVE Fresh'
      BY <3>1, <3>2, <3>3, <2>7 DEF Fresh
    <3>4. ASSUME Aligned PROVE Aligned'
      <4>1. Len(udi_control) \in Nat /\ s <= 1 + Len(udi_control)
        BY <1>0, <3>2, <3>4, LenProperties DEF Aligned, Typed
      <4>2. \A t \in Slot : t \in Int
        BY DEF Slot
      <4> QED BY <1>0, <2>3, <2>7, <3>1, <3>4, <4>1, <4>2 DEF Aligned
    <3> QED BY <1>0, <3>3, <3>4 DEF Slots
  <2> QED BY <1>1, <2>6, <2>8, <2>9, <2>10
<1> QED BY <1>2, <1>3 DEF Asking

-----------------------------------------------------------------------------
(* What the application does with memory *)

LEMMA KeptUnchanged ==
  ASSUME UNCHANGED listVars
  PROVE  Kept' = Kept
BY DEF Kept, listVars

(* Where what the application holds lies. *)
LEMMA WhereHeld ==
  ASSUME HeapSound, NEW p \in DOMAIN live
  PROVE  \E a \in DOMAIN region :
           /\ HeapOf(p) = a /\ region[a].heap = a /\ Within(region, a, block_from_ptr(p))
           /\ a < p /\ p < a + region[a].size
           /\ \A c \in DOMAIN region : c < p /\ p < c + region[c].size => c = a
<1> DEFINE b == block_from_ptr(p)
           h == mem.blk
<1>1. /\ RegionsIn(region, brk) /\ Layout(Ext(region)) /\ LiveIn(live, region, h)
      /\ Between(mem, Ext(region), {}, {}) /\ Placed(h, Ext(region))
  BY DEF HeapSound, Sound, Valid, Between
<1>2. /\ p \in Nat /\ Used(h, b) /\ b = p - 2
  BY <1>1, PointerFacts DEF LiveIn
<1>3. PICK a \in DOMAIN region : region[a].heap = a /\ Within(region, a, b)
  BY <1>1 DEF LiveIn
<1>4. /\ b \in Nat \ {0} /\ h[b].size \in Nat /\ NextOf(h, b) = b + h[b].size + 1
      /\ h[b].size >= 3
  BY <1>1, <1>2, BlockParts DEF Used, block_size_min
<1>5. NextOf(h, b) + 1 < a + region[a].size
  <2>1. a \in DOMAIN Ext(region) /\ Ext(region)[a] = region[a].size /\ In(Ext(region), a, b)
    BY <1>1, <1>3, ExtFacts
  <2> QED BY <1>1, <1>2, <2>1 DEF Placed, Used
<1> HIDE DEF h, b
<1>6. a <= b /\ a \in Nat /\ region[a].size \in Nat
  BY <1>1, <1>3 DEF Within, RegionsIn
<1>7. a <= p /\ p < a + region[a].size /\ Within(region, a, p) /\ a < p
  BY <1>2, <1>4, <1>5, <1>6 DEF Within
<1>8. \A c \in DOMAIN region : Within(region, c, p) => c = a
  BY <1>1, <1>2, <1>7, OneRegion
<1>9. \A c \in DOMAIN region : c \in Nat /\ region[c].size \in Nat
  BY <1>1 DEF RegionsIn
<1>10. {x \in DOMAIN region : p \in x .. x + region[x].size - 1} = {a}
  <2>1. \A x \in DOMAIN region : p \in x .. x + region[x].size - 1 <=> Within(region, x, p)
    BY <1>2, <1>9 DEF Within
  <2> QED BY <1>7, <1>8, <2>1
<1>11. HeapOf(p) = a
  <2>1. (CHOOSE x \in {a} : TRUE) = a
    OBVIOUS
  <2> QED BY <1>3, <1>10, <2>1 DEF HeapOf
<1>12. \A c \in DOMAIN region : c < p /\ p < c + region[c].size => c = a
  BY <1>2, <1>8, <1>9 DEF Within
<1> QED BY <1>3, <1>7, <1>11, <1>12 DEF b

(* A call that allocates from the heap at c, in the memory m. *)
Allocates(m, c, s, size, align, r) ==
  /\ Asking(m, c, s) /\ UNCHANGED <<infoVars, listVars, active_domain, smd_tlsf, ctl>>
  /\ \/ UNCHANGED tlsf_structure
     \/ tlsf_structure' = c /\ s = active_domain /\ c = brk /\ MapHeap(s, SDRAD_DEFAULT_HEAP_SIZE)
  /\ \/ align = 1 /\ r = tlsf_malloc(m, c, size)
     \/ align \in Nat \ {0} /\ r = tlsf_memalign(m, c, align, size)
  /\ mem' = r.mem /\ live' = Hold(r.ptr, size, align, live)

LEMMA MallocAllocates ==
  ASSUME HeapsInv, NEW size \in Sizes,
         malloc(size) \/ \E align \in Aligns : posix_memalign(align, size)
  PROVE  \E m, c, s, align, r : s \in Domains /\ Allocates(m, c, s, size, align, r)
<1>1. active_domain \in Domains /\ (tlsf_structure # NULL => Serves(tlsf_structure))
  BY DEF HeapsInv, Listing, Owning
<1>2. ASSUME SelectHeap
      PROVE  /\ Asking(SelectedMem, Selected, active_domain)
             /\ \/ UNCHANGED tlsf_structure
                \/ /\ tlsf_structure' = Selected /\ active_domain = active_domain /\ Selected = brk
                   /\ MapHeap(active_domain, SDRAD_DEFAULT_HEAP_SIZE)
  BY <1>1, <1>2 DEF SelectHeap, SelectedMem, Selected, Asking, sdrad_heap_domain_init
<1>3. CASE malloc(size)
  <2> DEFINE r == tlsf_malloc(SelectedMem, Selected, size)
  <2>1. /\ SelectHeap /\ UNCHANGED <<infoVars, listVars, active_domain, smd_tlsf, ctl>>
        /\ mem' = r.mem /\ live' = Hold(r.ptr, size, 1, live)
    BY <1>3 DEF malloc
  <2>2. Allocates(SelectedMem, Selected, active_domain, size, 1, r)
    BY <1>2, <2>1 DEF Allocates
  <2> QED BY <1>1, <2>2
<1>4. CASE \E align \in Aligns : posix_memalign(align, size)
  <2>1. PICK align \in Aligns : posix_memalign(align, size)
    BY <1>4
  <2> DEFINE r == tlsf_memalign(SelectedMem, Selected, align, size)
  <2>2. /\ SelectHeap /\ UNCHANGED <<infoVars, listVars, active_domain, smd_tlsf, ctl>>
        /\ mem' = r.mem /\ live' = Hold(r.ptr, size, align, live)
    BY <2>1 DEF posix_memalign
  <2>3. align \in Nat \ {0}
    BY HeapsAssumption
  <2>4. Allocates(SelectedMem, Selected, active_domain, size, align, r)
    BY <1>2, <2>2, <2>3 DEF Allocates
  <2> QED BY <1>1, <2>4
<1> QED BY <1>3, <1>4

LEMMA DomainMallocAllocates ==
  ASSUME HeapsInv, NEW size \in Sizes, NEW sdi \in Listed,
         sdrad_malloc(sdi, size) \/ \E align \in Aligns : sdrad_memalign(sdi, align, size)
  PROVE  \E m, c, s, align, r : s \in Domains /\ Allocates(m, c, s, size, align, r)
<1>1. sdi \in Domains /\ (sdi_init_heap_flag[sdi] => Serves(sdi_tlsf[sdi]))
  BY DEF HeapsInv, Owning, Domains
<1> DEFINE m == DomainHeapMem(sdi)
           c == DomainHeap(sdi)
<1>2. ASSUME UseDomainHeap(sdi) PROVE Asking(m, c, sdi)
  BY <1>1, <1>2 DEF UseDomainHeap, DomainHeapMem, DomainHeap, Asking, sdrad_heap_domain_init
<1>3. CASE sdrad_malloc(sdi, size)
  <2> DEFINE r == tlsf_malloc(m, c, size)
  <2>1. /\ UseDomainHeap(sdi) /\ UNCHANGED <<infoVars, listVars, selVars, smd_tlsf, ctl>>
        /\ mem' = r.mem /\ live' = Hold(r.ptr, size, 1, live)
    BY <1>3 DEF sdrad_malloc
  <2>2. Allocates(m, c, sdi, size, 1, r)
    BY <1>2, <2>1 DEF Allocates, selVars
  <2> QED BY <1>1, <2>2
<1>4. CASE \E align \in Aligns : sdrad_memalign(sdi, align, size)
  <2>1. PICK align \in Aligns : sdrad_memalign(sdi, align, size)
    BY <1>4
  <2> DEFINE r == tlsf_memalign(m, c, align, size)
  <2>2. /\ UseDomainHeap(sdi) /\ UNCHANGED <<infoVars, listVars, selVars, smd_tlsf, ctl>>
        /\ mem' = r.mem /\ live' = Hold(r.ptr, size, align, live)
    BY <2>1 DEF sdrad_memalign
  <2>3. align \in Nat \ {0}
    BY HeapsAssumption
  <2>4. Allocates(m, c, sdi, size, align, r)
    BY <1>2, <2>2, <2>3 DEF Allocates, selVars
  <2> QED BY <1>1, <2>4
<1> QED BY <1>3, <1>4

(* What such a call answers. *)
LEMMA CallAnswered ==
  ASSUME OnePool, HeapSound, NEW m, NEW c, NEW s, NEW size \in Sizes, NEW align, NEW r,
         Allocates(m, c, s, size, align, r)
  PROVE  Asked(m, c) /\ Allocated(m, r, Ext(region'), c, size)
<1>1. Asked(m, c)
  BY AskingIsSound DEF Allocates
<1>2. Valid(m, Ext(region')) /\ c \in DOMAIN Ext(region') /\ size \in Nat
  <2>1. Sound(m, region', brk', live, Kept) /\ c \in DOMAIN region' /\ region'[c].heap = c
    BY <1>1 DEF Asked
  <2>2. RegionsIn(region', brk') /\ Valid(m, Ext(region'))
    BY <2>1 DEF Sound
  <2> QED BY <2>1, <2>2, ExtFacts, HeapsAssumption
<1>3. Allocated(m, r, Ext(region'), c, size)
  <2> DEFINE ext == Ext(region')
  <2>1. Valid(m, ext) /\ c \in DOMAIN ext
    BY <1>2
  <2> HIDE DEF ext
  <2>2. Allocated(m, tlsf_malloc(m, c, size), ext, c, size)
    BY <1>2, <2>1, MallocIsSound
  <2>3. align \in Nat \ {0} => Allocated(m, tlsf_memalign(m, c, align, size), ext, c, size)
    BY <1>2, <2>1, MemalignIsSound
  <2> QED BY <2>2, <2>3 DEF ext, Allocates
<1> QED BY <1>1, <1>3

LEMMA AllocationKeepsInv ==
  ASSUME OnePool, HeapsInv, NEW m, NEW c, NEW s \in Domains, NEW size \in Sizes, NEW align, NEW r,
         Allocates(m, c, s, size, align, r)
  PROVE  HeapsInv'
<1>1. Asked(m, c) /\ Allocated(m, r, Ext(region'), c, size)
  BY CallAnswered DEF HeapsInv
<1>2. Typed' /\ Listing' /\ Owning' /\ Caching' /\ Slots'
  BY AskingKeepsOwners DEF Allocates
<1>3. Sound(r.mem, region', brk', Hold(r.ptr, size, align, live), Kept)
  <2>1. r.ptr \in Nat
    BY <1>1 DEF Allocated
  <2>2. Sound(m, region', brk', live, Kept) /\ c \in DOMAIN region' /\ region'[c].heap = c
    BY <1>1 DEF Asked
  <2> QED BY <1>1, <2>1, <2>2, SoundAllocation
<1>4. HeapSound'
  BY <1>3, KeptUnchanged DEF HeapSound, Allocates
<1> QED BY <1>2, <1>4 DEF HeapsInv

(* A call that frees or resizes in the heaps there are. *)
LEMMA NothingSelected ==
  ASSUME HeapsInv, KeepHeaps, UNCHANGED <<infoVars, listVars, selVars, smd_tlsf>>,
         ctl' \in {"app", "fault", "corrupt"}
  PROVE  Typed' /\ Listing' /\ Owning' /\ Caching' /\ Slots' /\ Kept' = Kept
<1>1. UNCHANGED <<brk, region, sdi_tlsf, sdi_size_of_heap, sdi_init_heap_flag, sdi_parent_domain,
                  sdi_options, status, udi_control, cache, made, active_domain, tlsf_structure, smd_tlsf>>
  BY DEF KeepHeaps, infoVars, listVars, selVars
<1>2. Listed' = Listed /\ Domains' = Domains /\ Kept' = Kept
  BY <1>1 DEF Listed, Domains, Kept
<1>3. Typed'
  BY <1>1 DEF HeapsInv, Typed
<1>4. Listing'
  BY <1>1, <1>2 DEF HeapsInv, Listing
<1>5. Owning' /\ Caching'
  BY <1>1, <1>2 DEF HeapsInv, Owning, Caching, Serves
<1>6. Slots'
  BY <1>1 DEF HeapsInv, Slots, Aligned, Fresh
<1> QED BY <1>2, <1>3, <1>4, <1>5, <1>6

LEMMA FreeKeepsInv ==
  ASSUME HeapsInv, NEW p \in DOMAIN live, free(p)
  PROVE  HeapsInv' /\ SameSizes(live', mem.blk, mem'.blk)
<1>1. /\ HeapOf(p) = tlsf_structure /\ mem' = tlsf_free(mem, tlsf_structure, p)
      /\ live' = Restrict(live, DOMAIN live \ {p}) /\ KeepHeaps
      /\ UNCHANGED <<infoVars, listVars, selVars, smd_tlsf, ctl>>
  BY DEF free, Drop
<1>2. HeapSound /\ Typed
  BY DEF HeapsInv
<1>3. Typed' /\ Listing' /\ Owning' /\ Caching' /\ Slots' /\ Kept' = Kept
  BY <1>1, <1>2, NothingSelected DEF Typed
<1>4. tlsf_structure \in DOMAIN region /\ Within(region, tlsf_structure, block_from_ptr(p))
  BY <1>1, <1>2, WhereHeld
<1>5. Sound(mem', region, brk, live', Kept) /\ SameSizes(live', mem.blk, mem'.blk)
  BY <1>1, <1>2, <1>4, SoundFree DEF HeapSound
<1>6. HeapSound'
  BY <1>1, <1>3, <1>5 DEF HeapSound, KeepHeaps
<1> QED BY <1>3, <1>5, <1>6 DEF HeapsInv

(* The search of sdrad_free finds the heap that what the application holds is *)
(* from, or none.                                                            *)
LEMMA SearchedHeap ==
  ASSUME HeapSound, Typed, Owning, NEW p \in DOMAIN live,
         NEW c, c = sdrad_search_tlsf_control(p), c # NULL
  PROVE  c \in DOMAIN region /\ Within(region, c, block_from_ptr(p))
<1>1. \E s \in Domains : c = sdi_tlsf[s] /\ InHeap(p, s)
  <2>1. CASE InHeap(p, ROOT_DOMAIN)
    BY <2>1 DEF sdrad_search_tlsf_control, Domains
  <2>2. CASE ~InHeap(p, ROOT_DOMAIN)
    <3> DEFINE found == {i \in DOMAIN udi_control : InHeap(p, udi_control[i].sdi)}
    <3>1. c = IF found = {} THEN NULL ELSE sdi_tlsf[udi_control[Min(found)].sdi]
      BY <2>2 DEF sdrad_search_tlsf_control, DomainHeapOf
    <3>2. found # {}
      BY <3>1
    <3>3. found \subseteq Nat
      <4>1. DOMAIN udi_control \subseteq Nat
        BY LenProperties DEF Typed
      <4> QED BY <4>1
    <3>4. Min(found) \in found
      BY <3>2, <3>3, MinProperties
    <3>5. Min(found) \in DOMAIN udi_control /\ InHeap(p, udi_control[Min(found)].sdi)
      BY <3>4
    <3> HIDE DEF found
    <3> QED BY <3>1, <3>2, <3>5 DEF Domains, Listed
  <2> QED BY <2>1, <2>2
<1>2. PICK s \in Domains : c = sdi_tlsf[s] /\ InHeap(p, s)
  BY <1>1
<1>3. Serves(c) /\ sdi_size_of_heap[s] = region[c].size
  BY <1>2 DEF Owning
<1>4. c \in DOMAIN region /\ c < p /\ p < c + region[c].size
  BY <1>2, <1>3 DEF Serves, InHeap
<1> QED BY <1>4, WhereHeld

LEMMA DomainFreeKeepsInv ==
  ASSUME HeapsInv, NEW p \in DOMAIN live, sdrad_free(p)
  PROVE  HeapsInv' /\ SameSizes(live', mem.blk, mem'.blk)
<1> DEFINE c == sdrad_search_tlsf_control(p)
<1>1. /\ IF c = NULL THEN ctl' = "fault" /\ UNCHANGED <<mem, live>>
         ELSE /\ mem' = tlsf_free(mem, c, p)
              /\ live' = Restrict(live, DOMAIN live \ {p})
              /\ UNCHANGED ctl
      /\ KeepHeaps /\ UNCHANGED <<infoVars, listVars, selVars, smd_tlsf>>
  BY DEF sdrad_free, Drop
<1>2. HeapSound /\ Typed /\ Owning
  BY DEF HeapsInv
<1>3. Typed' /\ Listing' /\ Owning' /\ Caching' /\ Slots' /\ Kept' = Kept
  BY <1>1, <1>2, NothingSelected DEF Typed
<1>4. CASE c = NULL
  <2>1. HeapSound'
    BY <1>1, <1>2, <1>3, <1>4 DEF HeapSound, KeepHeaps
  <2>2. SameSizes(live', mem.blk, mem'.blk)
    BY <1>1, <1>4 DEF SameSizes
  <2> QED BY <1>3, <2>1, <2>2 DEF HeapsInv
<1>5. CASE c # NULL
  <2>1. c \in DOMAIN region /\ Within(region, c, block_from_ptr(p))
    BY <1>2, <1>5, SearchedHeap
  <2>2. Sound(mem', region, brk, live', Kept) /\ SameSizes(live', mem.blk, mem'.blk)
    BY <1>1, <1>2, <1>5, <2>1, SoundFree DEF HeapSound
  <2>3. HeapSound'
    BY <1>1, <1>3, <2>2 DEF HeapSound, KeepHeaps
  <2> QED BY <1>3, <2>2, <2>3 DEF HeapsInv
<1> QED BY <1>4, <1>5

(* What a call that resizes answers: it is asked of the heap p came from. *)
LEMMA ResizeAnswered ==
  ASSUME RequestsFit, HeapSound, NEW p \in DOMAIN live, NEW c, HeapOf(p) = c, NEW size \in Sizes,
         NEW r, r = tlsf_realloc(mem, c, p, size)
  PROVE  /\ c \in DOMAIN region /\ region[c].heap = c /\ Within(region, c, block_from_ptr(p))
         /\ Reallocated(mem, r, Ext(region), c, block_from_ptr(p), size)
<1> DEFINE b   == block_from_ptr(p)
           ext == Ext(region)
<1>1. c \in DOMAIN region /\ region[c].heap = c /\ Within(region, c, b)
  BY WhereHeld
<1>2. /\ Valid(mem, ext) /\ c \in DOMAIN ext /\ In(ext, c, b)
      /\ Used(mem.blk, b) /\ block_to_ptr(b) = p /\ size \in Nat /\ size < block_size_max
  <2>1. Valid(mem, ext) /\ RegionsIn(region, brk) /\ LiveIn(live, region, mem.blk)
    BY DEF HeapSound, Sound
  <2>2. p \in Nat /\ Used(mem.blk, b)
    BY <2>1 DEF LiveIn
  <2> QED BY <1>1, <2>1, <2>2, ExtFacts, PointerFacts, HeapsAssumption DEF RequestsFit
<1> HIDE DEF b, ext
<1>3. Reallocated(mem, tlsf_realloc(mem, c, block_to_ptr(b), size), ext, c, b, size)
  BY <1>2, ReallocIsSound
<1> QED BY <1>1, <1>2, <1>3 DEF b, ext

LEMMA ResizeKeepsInv ==
  ASSUME RequestsFit, HeapsInv, NEW size \in Sizes, NEW p \in DOMAIN live,
         realloc(p, size) \/ \E sdi \in Listed : sdrad_realloc(sdi, p, size)
  PROVE  HeapsInv' /\ SameSizes(Drop({p}), mem.blk, mem'.blk)
<1>1. PICK c : /\ HeapOf(p) = c /\ mem' = tlsf_realloc(mem, c, p, size).mem
               /\ live' = Resized(p, tlsf_realloc(mem, c, p, size), size) /\ KeepHeaps
               /\ UNCHANGED <<infoVars, listVars, selVars, smd_tlsf, ctl>>
  BY DEF realloc, sdrad_realloc
<1> DEFINE r == tlsf_realloc(mem, c, p, size)
           b == block_from_ptr(p)
<1>2. HeapSound /\ Typed
  BY DEF HeapsInv
<1>3. Typed' /\ Listing' /\ Owning' /\ Caching' /\ Slots' /\ Kept' = Kept
  BY <1>1, <1>2, NothingSelected DEF Typed
<1>4. /\ c \in DOMAIN region /\ region[c].heap = c /\ Within(region, c, b)
      /\ Reallocated(mem, r, Ext(region), c, b, size)
  BY <1>1, <1>2, ResizeAnswered
<1>5. mem' = r.mem /\ live' = HeldAfter(live, p, r, size)
  BY <1>1 DEF HeldAfter, Resized, Drop
<1> HIDE DEF r, b
<1>6. /\ Sound(r.mem, region, brk, HeldAfter(live, p, r, size), Kept)
      /\ SameSizes(Restrict(live, DOMAIN live \ {p}), mem.blk, r.mem.blk)
  <2>1. r.ptr \in Nat
    BY <1>4 DEF Reallocated
  <2> QED BY <1>2, <1>4, <2>1, SoundResize DEF HeapSound, b
<1>7. HeapSound'
  BY <1>1, <1>3, <1>5, <1>6 DEF HeapSound, KeepHeaps
<1> QED BY <1>3, <1>5, <1>6, <1>7 DEF HeapsInv, Drop

-----------------------------------------------------------------------------
(* Making a domain *)

(* The list v is the list u with e before it. *)
Prefixed(v, e, u) ==
  /\ v \in Seq(NodeRecord) /\ Len(v) = Len(u) + 1
  /\ \A i \in 1 .. Len(u) + 1 : v[i] = IF i = 1 THEN e ELSE u[i - 1]

(* The list with the new domain at its head. *)
LEMMA NewDomainListed ==
  ASSUME Typed, Listing, NEW s \in Slot \ status, NEW node \in Nat,
         udi_control' = Cons([sdi |-> s, node |-> node], udi_control),
         status' = status \cup {s}, active_domain' = active_domain,
         sdi_parent_domain' = [sdi_parent_domain EXCEPT ![s] = active_domain]
  PROVE  /\ Listing' /\ udi_control' \in Seq(NodeRecord)
         /\ Len(udi_control') = Len(udi_control) + 1
         /\ \A i \in 1 .. Len(udi_control) + 1 :
              udi_control'[i] = IF i = 1 THEN [sdi |-> s, node |-> node] ELSE udi_control[i - 1]
         /\ Listed' = Listed \cup {s} /\ Domains' = Domains \cup {s}
         /\ {udi_control'[i].node : i \in DOMAIN udi_control'}
              \subseteq {udi_control[i].node : i \in DOMAIN udi_control} \cup {node}
         /\ Prefixed(udi_control', [sdi |-> s, node |-> node], udi_control)
<1> DEFINE e == [sdi |-> s, node |-> node]
           u == udi_control
           v == udi_control'
           n == Len(udi_control)
<1>1. e \in NodeRecord /\ u \in Seq(NodeRecord) /\ n \in Nat /\ DOMAIN u = 1 .. n
  BY LenProperties DEF Typed, NodeRecord
<1>2. v = <<e>> \o u
  BY DEF Cons
<1> HIDE DEF e, v
<1>3. /\ v \in Seq(NodeRecord) /\ Len(v) = n + 1
      /\ \A i \in 1 .. n + 1 : v[i] = IF i = 1 THEN e ELSE u[i - 1]
  BY <1>1, <1>2, PushProperties
<1>4. DOMAIN v = 1 .. n + 1
  BY <1>3, LenProperties
<1>5. e.sdi = s /\ e.node = node
  BY DEF e
<1> HIDE DEF u, n
<1>6. /\ 1 \in DOMAIN v /\ v[1] = e
      /\ \A i \in DOMAIN v : i # 1 => i - 1 \in DOMAIN u /\ v[i] = u[i - 1] /\ i \in Nat
      /\ \A i \in DOMAIN u : i + 1 \in DOMAIN v /\ v[i + 1] = u[i] /\ i \in Nat /\ i + 1 # 1
  BY <1>1, <1>3, <1>4
<1>7. {v[i].sdi : i \in DOMAIN v} = {u[i].sdi : i \in DOMAIN u} \cup {s}
  <2>1. \A i \in DOMAIN v : v[i].sdi = s \/ \E j \in DOMAIN u : v[i].sdi = u[j].sdi
    BY <1>5, <1>6
  <2>2. \A j \in DOMAIN u : \E i \in DOMAIN v : v[i].sdi = u[j].sdi
    BY <1>6
  <2>3. \E i \in DOMAIN v : v[i].sdi = s
    BY <1>5, <1>6
  <2> QED BY <2>1, <2>2, <2>3
<1>8. {v[i].node : i \in DOMAIN v} \subseteq {u[i].node : i \in DOMAIN u} \cup {node}
  <2>1. \A i \in DOMAIN v : v[i].node = node \/ \E j \in DOMAIN u : v[i].node = u[j].node
    BY <1>5, <1>6
  <2> QED BY <2>1
<1>9. Listed' = Listed \cup {s} /\ Domains' = Domains \cup {s}
  BY <1>7 DEF Listed, Domains, u, v
<1>10. Listing'
  <2>0. Listed = {u[i].sdi : i \in DOMAIN u}
    BY DEF Listed, u
  <2>1. /\ ROOT_DOMAIN \in status /\ Listed \subseteq status /\ ROOT_DOMAIN \notin Listed
        /\ \A i, j \in DOMAIN u : u[i].sdi = u[j].sdi => i = j
        /\ \A i \in DOMAIN u :
             \/ sdi_parent_domain[u[i].sdi] = ROOT_DOMAIN
             \/ \E j \in DOMAIN u : i < j /\ u[j].sdi = sdi_parent_domain[u[i].sdi]
        /\ active_domain \in Domains
    BY DEF Listing, u
  <2>2. \A i \in DOMAIN u : u[i].sdi \in status /\ u[i].sdi # s
    BY <2>0, <2>1
  <2>3. \A i, j \in DOMAIN v : v[i].sdi = v[j].sdi => i = j
    <3> SUFFICES ASSUME NEW i \in DOMAIN v, NEW j \in DOMAIN v, v[i].sdi = v[j].sdi PROVE i = j
      OBVIOUS
    <3>1. CASE i = 1 \/ j = 1
      BY <1>5, <1>6, <2>2, <3>1
    <3>2. CASE i # 1 /\ j # 1
      <4>1. i - 1 = j - 1 /\ i \in Nat /\ j \in Nat
        BY <1>6, <2>1, <3>2
      <4> QED BY <4>1
    <3> QED BY <3>1, <3>2
  <2>4. ASSUME NEW i \in DOMAIN v
        PROVE  \/ sdi_parent_domain'[v[i].sdi] = ROOT_DOMAIN
               \/ \E j \in DOMAIN v : i < j /\ v[j].sdi = sdi_parent_domain'[v[i].sdi]
    <3>1. CASE i = 1
      <4>1. sdi_parent_domain'[v[i].sdi] = active_domain
        BY <1>5, <1>6, <3>1 DEF Typed
      <4>2. CASE active_domain = ROOT_DOMAIN
        BY <4>1, <4>2
      <4>3. CASE active_domain # ROOT_DOMAIN
        <5>1. PICK j \in DOMAIN u : u[j].sdi = active_domain
          BY <2>0, <2>1, <4>3 DEF Domains
        <5>2. j + 1 \in DOMAIN v /\ v[j + 1].sdi = active_domain /\ i < j + 1
          <6>1. j \in Nat /\ j >= 1
            BY <1>1 DEF u
          <6> QED BY <1>6, <3>1, <5>1, <6>1
        <5> QED BY <4>1, <5>2
      <4> QED BY <4>2, <4>3
    <3>2. CASE i # 1
      <4>1. i - 1 \in DOMAIN u /\ v[i] = u[i - 1] /\ i \in Nat
        BY <1>6, <3>2
      <4>2. sdi_parent_domain'[v[i].sdi] = sdi_parent_domain[u[i - 1].sdi]
        BY <2>2, <4>1 DEF Typed
      <4>3. CASE sdi_parent_domain[u[i - 1].sdi] = ROOT_DOMAIN
        BY <4>2, <4>3
      <4>4. CASE sdi_parent_domain[u[i - 1].sdi] # ROOT_DOMAIN
        <5>1. PICK j \in DOMAIN u : i - 1 < j /\ u[j].sdi = sdi_parent_domain[u[i - 1].sdi]
          BY <2>1, <4>1, <4>4
        <5>2. j + 1 \in DOMAIN v /\ v[j + 1] = u[j] /\ i < j + 1
          BY <1>6, <4>1, <5>1
        <5> QED BY <4>2, <5>1, <5>2
      <4> QED BY <4>3, <4>4
    <3> QED BY <3>1, <3>2
  <2>5. ROOT_DOMAIN \in status' /\ Listed' \subseteq status' /\ ROOT_DOMAIN \notin Listed' /\ active_domain' \in Domains'
    BY <1>9, <2>1
  <2> QED BY <2>3, <2>4, <2>5 DEF Listing, v
<1>11. Prefixed(v, e, u)
  BY <1>3 DEF Prefixed, u, n
<1> QED BY <1>3, <1>8, <1>9, <1>10, <1>11 DEF u, v, n, e

(* The new domain has the heap h, or none. *)
LEMMA NewDomainOwns ==
  ASSUME Typed, Listing, Owning, NEW s \in Slot \ status, Domains' = Domains \cup {s},
         UNCHANGED <<active_domain, tlsf_structure>>, NEW h \in Nat,
         \A t \in Domains : /\ sdi_tlsf'[t] = sdi_tlsf[t] /\ sdi_size_of_heap'[t] = sdi_size_of_heap[t]
                            /\ sdi_init_heap_flag'[t] = sdi_init_heap_flag[t],
         sdi_tlsf'[s] = h, sdi_init_heap_flag'[s] => h # NULL,
         \A a : Serves(a) => a \in DOMAIN region' /\ region'[a] = region[a],
         h # NULL => /\ h \in DOMAIN region' /\ region'[h].heap = h /\ ~Serves(h)
                     /\ sdi_size_of_heap'[s] = region'[h].size
  PROVE  Owning'
<1>1. s \notin Domains /\ active_domain \in Domains
  BY DEF Listing, Domains
<1>2. \A t \in Domains :
        sdi_tlsf[t] # NULL =>
          /\ Serves(sdi_tlsf[t]) /\ sdi_size_of_heap[t] = region[sdi_tlsf[t]].size
          /\ \A u \in Domains : u # t => sdi_tlsf[u] # sdi_tlsf[t]
          /\ t # active_domain => tlsf_structure # sdi_tlsf[t]
  BY DEF Owning
<1>3. /\ \A t \in Domains : sdi_init_heap_flag[t] => sdi_tlsf[t] # NULL
      /\ tlsf_structure # NULL => Serves(tlsf_structure)
  BY DEF Owning
<1>4. ASSUME NEW t \in Domains \cup {s}, sdi_tlsf'[t] # NULL
      PROVE  /\ sdi_tlsf'[t] \in DOMAIN region' /\ region'[sdi_tlsf'[t]].heap = sdi_tlsf'[t]
             /\ sdi_size_of_heap'[t] = region'[sdi_tlsf'[t]].size
             /\ \A u \in Domains \cup {s} : u # t => sdi_tlsf'[u] # sdi_tlsf'[t]
             /\ t # active_domain => tlsf_structure # sdi_tlsf'[t]
  <2>1. CASE t = s
    <3>1. h # NULL
      BY <1>4, <2>1
    <3>2. \A u \in Domains : sdi_tlsf[u] # h
      BY <1>2, <3>1
    <3>3. tlsf_structure # h
      BY <1>3, <3>1
    <3> QED BY <1>1, <2>1, <3>1, <3>2, <3>3
  <2>2. CASE t \in Domains
    <3>1. sdi_tlsf'[t] = sdi_tlsf[t] /\ sdi_tlsf[t] # NULL
      BY <1>4, <2>2
    <3>2. Serves(sdi_tlsf[t]) /\ region[sdi_tlsf[t]].heap = sdi_tlsf[t]
      BY <1>2, <2>2, <3>1 DEF Serves
    <3>3. h # sdi_tlsf[t]
      BY <3>1, <3>2
    <3> QED BY <1>2, <2>2, <3>1, <3>2, <3>3
  <2> QED BY <2>1, <2>2
<1>5. \A t \in Domains \cup {s} : sdi_init_heap_flag'[t] => sdi_tlsf'[t] # NULL
  BY <1>3
<1>6. tlsf_structure # NULL => tlsf_structure \in DOMAIN region' /\ region'[tlsf_structure].heap = tlsf_structure
  BY <1>3 DEF Serves
<1> QED BY <1>4, <1>5, <1>6 DEF Owning, Serves

LEMMA NewSlotFacts ==
  ASSUME Typed, status # Slot
  PROVE  NewSlot \in Slot \ status /\ \A t \in Slot \ status : NewSlot <= t
<1>1. Slot \subseteq Nat
  BY DEF Slot
<1>2. Slot \ status # {} /\ Slot \ status \subseteq Nat
  BY <1>1 DEF Typed
<1> QED BY <1>2, MinProperties DEF NewSlot

(* What the new slot knew of a heap. *)
LEMMA SpareSlot ==
  ASSUME Typed, Listing, Slots, status # Slot
  PROVE  /\ "fault" \notin Calls => sdi_tlsf[NewSlot] = NULL /\ ~sdi_init_heap_flag[NewSlot]
         /\ "fault" \in Calls =>
              /\ NewSlot = 2 + Len(udi_control)
              /\ sdi_init_heap_flag[NewSlot] <=> sdi_tlsf[NewSlot] # NULL
              /\ sdi_tlsf[NewSlot] = IF cache = <<>> THEN NULL ELSE Head(cache).heap
<1>1. NewSlot \in Slot \ status /\ \A t \in Slot \ status : NewSlot <= t
  BY NewSlotFacts
<1>2. ASSUME "fault" \notin Calls PROVE sdi_tlsf[NewSlot] = NULL /\ ~sdi_init_heap_flag[NewSlot]
  BY <1>1, <1>2 DEF Slots, Fresh
<1>3. ASSUME "fault" \in Calls
      PROVE  /\ NewSlot = 2 + Len(udi_control)
             /\ sdi_init_heap_flag[NewSlot] <=> sdi_tlsf[NewSlot] # NULL
             /\ sdi_tlsf[NewSlot] = IF cache = <<>> THEN NULL ELSE Head(cache).heap
  <2> DEFINE n == Len(udi_control)
  <2>1. Aligned /\ n \in Nat /\ TOTAL_DOMAIN \in Nat
    BY <1>3, LenProperties, HeapsAssumption DEF Slots, Typed
  <2>2. status = 0 .. 1 + n
    BY <2>1 DEF Aligned
  <2> HIDE DEF n
  <2>3. NewSlot = 2 + n
    <3>1. NewSlot \in 0 .. TOTAL_DOMAIN - 1 /\ NewSlot \notin 0 .. 1 + n
      BY <1>1, <2>2 DEF Slot
    <3>2. 2 + n \in Slot \ status
      BY <2>1, <2>2, <3>1 DEF Slot
    <3>3. NewSlot <= 2 + n
      BY <1>1, <3>2
    <3> QED BY <2>1, <3>1, <3>3
  <2>4. sdi_tlsf[NewSlot] = IF 1 \in DOMAIN cache THEN cache[1].heap ELSE NULL
    <3>1. NewSlot > 1 + n /\ NewSlot - (1 + n) = 1
      BY <2>1, <2>3
    <3> QED BY <1>1, <2>1, <3>1 DEF Aligned, n
  <2>5. (cache = <<>> => 1 \notin DOMAIN cache) /\ (cache # <<>> => 1 \in DOMAIN cache /\ Head(cache) = cache[1])
    <3>1. cache \in Seq(EntryRecord)
      BY DEF Typed
    <3> QED BY <3>1, HeadProperties
  <2>6. sdi_init_heap_flag[NewSlot] <=> sdi_tlsf[NewSlot] # NULL
    BY <1>1, <2>1 DEF Aligned
  <2> QED BY <2>3, <2>4, <2>5, <2>6 DEF n
<1> QED BY <1>2, <1>3

(* The cache without its head. *)
LEMMA CacheTail ==
  ASSUME Typed, cache # <<>>, cache' = Tail(cache)
  PROVE  /\ cache' \in Seq(EntryRecord) /\ 1 \in DOMAIN cache /\ Head(cache) = cache[1]
         /\ cache[1] \in EntryRecord
         /\ \A i \in Nat : /\ i \in DOMAIN cache' => i + 1 \in DOMAIN cache /\ cache'[i] = cache[i + 1]
                           /\ i + 1 \in DOMAIN cache /\ i >= 1 => i \in DOMAIN cache'
         /\ DOMAIN cache' \subseteq Nat \ {0}
         /\ {cache'[i].entry : i \in DOMAIN cache'} \subseteq {cache[i].entry : i \in DOMAIN cache}
<1> DEFINE n == Len(cache)
<1>1. cache \in Seq(EntryRecord) /\ n \in Nat /\ DOMAIN cache = 1 .. n
  BY LenProperties DEF Typed
<1>2. /\ 1 \in DOMAIN cache /\ Head(cache) = cache[1] /\ cache[1] \in EntryRecord
      /\ cache' \in Seq(EntryRecord) /\ Len(cache') = n - 1
      /\ \A i \in 1 .. n - 1 : cache'[i] = cache[i + 1]
  BY <1>1, HeadProperties
<1>3. DOMAIN cache' = 1 .. n - 1
  BY <1>2, LenProperties
<1> HIDE DEF n
<1>4. /\ \A i \in Nat : /\ i \in DOMAIN cache' => i + 1 \in DOMAIN cache /\ cache'[i] = cache[i + 1]
                        /\ i + 1 \in DOMAIN cache /\ i >= 1 => i \in DOMAIN cache'
      /\ DOMAIN cache' \subseteq Nat \ {0}
  BY <1>1, <1>2, <1>3
<1>5. {cache'[i].entry : i \in DOMAIN cache'} \subseteq {cache[i].entry : i \in DOMAIN cache}
  BY <1>4
<1> QED BY <1>2, <1>4, <1>5

(* What waits in the cache for the other slots. *)
LEMMA NewDomainSlots ==
  ASSUME Typed, Listing, Slots, NEW s \in Slot \ status, s = NewSlot, status # Slot,
         status' = status \cup {s}, NEW node,
         Len(udi_control') = Len(udi_control) + 1,
         udi_control' \in Seq(NodeRecord),
         \A i \in 1 .. Len(udi_control) + 1 :
           udi_control'[i] = IF i = 1 THEN [sdi |-> s, node |-> node] ELSE udi_control[i - 1],
         \A t \in Slot \ {s} : /\ sdi_tlsf'[t] = sdi_tlsf[t]
                               /\ sdi_init_heap_flag'[t] = sdi_init_heap_flag[t],
         "fault" \in Calls =>
           /\ cache' = IF cache = <<>> THEN cache ELSE Tail(cache)
           /\ sdi_init_heap_flag'[s] <=> sdi_tlsf'[s] # NULL
  PROVE  Slots'
<1>1. CASE "fault" \notin Calls
  BY <1>1 DEF Slots, Fresh
<1>2. CASE "fault" \in Calls
  <2> DEFINE n == Len(udi_control)
             v == udi_control'
  <2>1. Aligned /\ n \in Nat /\ DOMAIN udi_control = 1 .. n
    BY <1>2, LenProperties DEF Slots, Typed
  <2>2. s = 2 + n
    BY <1>2, SpareSlot
  <2>3. /\ status = 0 .. 1 + n
        /\ \A i \in 1 .. n : udi_control[i].sdi = 2 + n - i
        /\ \A t \in Slot : sdi_init_heap_flag[t] <=> sdi_tlsf[t] # NULL
        /\ \A t \in Slot : t > 1 + n =>
             sdi_tlsf[t] = IF t - (1 + n) \in DOMAIN cache THEN cache[t - (1 + n)].heap ELSE NULL
    BY <2>1 DEF Aligned
  <2>4. /\ Len(v) = n + 1 /\ DOMAIN v = 1 .. n + 1
        /\ \A i \in 1 .. n + 1 : v[i] = IF i = 1 THEN [sdi |-> s, node |-> node] ELSE udi_control[i - 1]
    <3>1. Len(v) = n + 1 /\ v \in Seq(NodeRecord)
      OBVIOUS
    <3>2. DOMAIN v = 1 .. Len(v)
      <4> HIDE DEF v
      <4> QED BY <3>1, LenProperties
    <3> QED BY <3>1, <3>2
  <2> HIDE DEF v, n
  <2>5. status' = 0 .. 2 + n
    BY <2>1, <2>2, <2>3
  <2>6. \A i \in DOMAIN v : v[i].sdi = 3 + n - i
    <3> SUFFICES ASSUME NEW i \in 1 .. n + 1 PROVE v[i].sdi = 3 + n - i
      BY <2>4
    <3>1. CASE i = 1
      BY <2>1, <2>2, <2>4, <3>1
    <3>2. CASE i # 1
      <4>1. i - 1 \in 1 .. n /\ v[i] = udi_control[i - 1]
        BY <2>1, <2>4, <3>2
      <4>2. udi_control[i - 1].sdi = 2 + n - (i - 1)
        BY <2>3, <4>1
      <4> QED BY <2>1, <4>1, <4>2
    <3> QED BY <3>1, <3>2
  <2>7. \A t \in Slot : sdi_init_heap_flag'[t] <=> sdi_tlsf'[t] # NULL
    BY <1>2, <2>3
  <2>8. ASSUME NEW t \in Slot, t > 2 + n
        PROVE  sdi_tlsf'[t] = IF t - (2 + n) \in DOMAIN cache' THEN cache'[t - (2 + n)].heap ELSE NULL
    <3>0. t \in Nat
      BY DEF Slot
    <3>1. /\ t - (2 + n) \in Nat /\ t - (2 + n) >= 1 /\ t - (1 + n) = (t - (2 + n)) + 1
          /\ t > 1 + n /\ t # s
      BY <2>1, <2>2, <2>8, <3>0
    <3>2. sdi_tlsf'[t] = IF t - (1 + n) \in DOMAIN cache THEN cache[t - (1 + n)].heap ELSE NULL
      BY <2>3, <3>1
    <3>3. CASE cache = <<>>
      <4>1. cache' = <<>> /\ \A i : i \notin DOMAIN <<>>
        BY <1>2, <3>3
      <4>2. sdi_tlsf'[t] = NULL
        BY <3>2, <3>3, <4>1
      <4> QED BY <4>1, <4>2
    <3>4. CASE cache # <<>>
      <4>1. cache' = Tail(cache)
        BY <1>2, <3>4
      <4> DEFINE i == t - (2 + n)
      <4>2. /\ i \in DOMAIN cache' => i + 1 \in DOMAIN cache /\ cache'[i] = cache[i + 1]
            /\ i + 1 \in DOMAIN cache => i \in DOMAIN cache'
        BY <3>1, <3>4, <4>1, CacheTail
      <4> QED BY <3>1, <3>2, <4>2
    <3> QED BY <3>3, <3>4
  <2>9. Len(udi_control)' = n + 1 /\ 1 + (n + 1) = 2 + n
    BY <2>1, <2>4 DEF v
  <2>10. Aligned'
    BY <2>1, <2>5, <2>6, <2>7, <2>8, <2>9 DEF Aligned, v
  <2> QED BY <1>2, <2>10 DEF Slots
<1> QED BY <1>1, <1>2

(* What the monitor keeps once a domain is made. *)
LEMMA NewDomainKept ==
  ASSUME NEW node, {udi_control'[i].node : i \in DOMAIN udi_control'}
                     \subseteq {udi_control[i].node : i \in DOMAIN udi_control} \cup {node},
         {cache'[i].entry : i \in DOMAIN cache'} \subseteq {cache[i].entry : i \in DOMAIN cache}
  PROVE  Kept' \subseteq Kept \cup {node}
BY DEF Kept

(* The heaps that serve go on serving, with what is held in them. *)
Growing == \A a : Serves(a) => a \in DOMAIN region' /\ region'[a] = region[a]

Undisturbed(m) == Growing /\ SameSizes(live, m.blk, mem'.blk)

(* A domain that gets the heap at the head of the cache. *)
LEMMA RecycledInit ==
  ASSUME HeapsInv, status # Slot, CachedHeap, NEW m, NEW K, Kept' \subseteq K,
         Sound(m, region, brk, live, K), TakeCachedHeap(m), cache' = Tail(cache),
         live' = live, NEW s, s = NewSlot,
         sdi_init_heap_flag' = sdi_init_heap_flag
           \/ sdi_init_heap_flag' = [sdi_init_heap_flag EXCEPT ![s] = TRUE],
         Domains' = Domains \cup {s}, UNCHANGED <<active_domain, tlsf_structure, smd_tlsf, ctl>>,
         Listing', udi_control' \in Seq(NodeRecord), sdi_parent_domain' \in [Slot -> Nat],
         status' = status \cup {s}
  PROVE  /\ Typed' /\ Owning' /\ Caching' /\ HeapSound' /\ Undisturbed(m)
         /\ \A t \in Slot \ {s} : /\ sdi_tlsf'[t] = sdi_tlsf[t]
                                  /\ sdi_init_heap_flag'[t] = sdi_init_heap_flag[t]
         /\ "fault" \in Calls => /\ cache' = IF cache = <<>> THEN cache ELSE Tail(cache)
                                 /\ sdi_init_heap_flag'[s] <=> sdi_tlsf'[s] # NULL
<1> DEFINE head == Head(cache)
           h    == head.heap
           new  == region'
<1>1. Typed /\ Listing /\ Owning /\ Caching /\ Slots /\ HeapSound /\ cache # <<>> /\ h # NULL
  BY DEF HeapsInv, CachedHeap
<1>2. s \in Slot \ status /\ Domains \subseteq Slot /\ s \notin Domains
  <2>1. s \in Slot \ status
    BY <1>1, NewSlotFacts
  <2>2. Domains \subseteq status
    BY <1>1 DEF Domains, Listing
  <2> QED BY <1>1, <2>1, <2>2, DomainsAreSlots
<1>3. /\ cache' \in Seq(EntryRecord) /\ 1 \in DOMAIN cache /\ head = cache[1]
      /\ cache[1] \in EntryRecord
      /\ \A i \in Nat : i \in DOMAIN cache' => i + 1 \in DOMAIN cache /\ cache'[i] = cache[i + 1]
      /\ DOMAIN cache' \subseteq Nat \ {0}
  BY <1>1, CacheTail
<1>4. /\ h \in DOMAIN region /\ region[h].heap = NULL /\ head.size = region[h].size
      /\ \A j \in DOMAIN cache : cache[j].heap = h => j = 1
      /\ h \in Nat /\ head.size \in Nat
  BY <1>1, <1>3 DEF Caching, EntryRecord
<1>5. /\ mem' = tlsf_create_with_pool(m, h, region[h].size)
      /\ new = [region EXCEPT ![h].heap = h] /\ brk' = brk
      /\ sdi_tlsf' = [sdi_tlsf EXCEPT ![s] = h]
      /\ sdi_size_of_heap' = [sdi_size_of_heap EXCEPT ![s] = head.size]
  BY <1>4 DEF TakeCachedHeap, RecycledHeap
<1> HIDE DEF h, head, new
<1>6. Sound(mem', new, brk, live, K) /\ SameSizes(live, m.blk, mem'.blk)
  BY <1>4, <1>5, SoundRecycle
<1>7. HeapSound'
  <2>1. Sound(mem', new, brk, live, Kept')
    BY <1>6, SoundFewer
  <2> QED BY <1>5, <2>1 DEF HeapSound, new
<1>8. /\ \A t \in Slot \ {s} : /\ sdi_tlsf'[t] = sdi_tlsf[t] /\ sdi_size_of_heap'[t] = sdi_size_of_heap[t]
                               /\ sdi_init_heap_flag'[t] = sdi_init_heap_flag[t]
      /\ sdi_tlsf'[s] = h /\ sdi_size_of_heap'[s] = head.size
      /\ sdi_init_heap_flag'[s] = sdi_init_heap_flag[s] \/ sdi_init_heap_flag'[s] = TRUE
  BY <1>1, <1>2, <1>5 DEF Typed
<1>9. /\ DOMAIN new = DOMAIN region /\ new[h].heap = h /\ new[h].size = region[h].size
      /\ \A a \in DOMAIN region : a # h => new[a] = region[a]
  <2>1. region[h] = [size |-> region[h].size, heap |-> region[h].heap]
    BY <1>1, <1>4 DEF HeapSound, Sound, RegionsIn
  <2> QED BY <1>4, <1>5, <2>1
<1>10. Owning'
  <2>1. ~Serves(h) /\ \A a : Serves(a) => a \in DOMAIN region' /\ region'[a] = region[a]
    BY <1>1, <1>4, <1>9 DEF Serves, new
  <2>2. \A t \in Domains : /\ sdi_tlsf'[t] = sdi_tlsf[t] /\ sdi_size_of_heap'[t] = sdi_size_of_heap[t]
                           /\ sdi_init_heap_flag'[t] = sdi_init_heap_flag[t]
    BY <1>2, <1>8
  <2>3. h \in DOMAIN region' /\ region'[h].heap = h /\ sdi_size_of_heap'[s] = region'[h].size
    BY <1>4, <1>8, <1>9 DEF new
  <2> QED BY <1>1, <1>2, <1>4, <1>8, <2>1, <2>2, <2>3, NewDomainOwns
<1>11. Caching'
  <2> SUFFICES ASSUME NEW i \in DOMAIN cache', cache'[i].heap # NULL
               PROVE  /\ cache'[i].heap \in DOMAIN new /\ new[cache'[i].heap].heap = NULL
                      /\ cache'[i].size = new[cache'[i].heap].size
                      /\ \A j \in DOMAIN cache' : cache'[j].heap = cache'[i].heap => i = j
    BY DEF Caching, new
  <2>1. i \in Nat \ {0} /\ i + 1 \in DOMAIN cache /\ cache'[i] = cache[i + 1] /\ i + 1 # 1
    BY <1>3
  <2>2. cache[i + 1].heap # h
    BY <1>4, <2>1
  <2>3. /\ cache[i + 1].heap \in DOMAIN region /\ region[cache[i + 1].heap].heap = NULL
        /\ cache[i + 1].size = region[cache[i + 1].heap].size
        /\ \A j \in DOMAIN cache : cache[j].heap = cache[i + 1].heap => i + 1 = j
    BY <1>1, <2>1 DEF Caching
  <2>4. ASSUME NEW j \in DOMAIN cache', cache'[j].heap = cache'[i].heap PROVE i = j
    <3>1. j \in Nat /\ j + 1 \in DOMAIN cache /\ cache'[j] = cache[j + 1]
      BY <1>3
    <3>2. i + 1 = j + 1
      BY <2>1, <2>3, <2>4, <3>1
    <3> QED BY <2>1, <3>1, <3>2
  <2> QED BY <1>9, <2>1, <2>2, <2>3, <2>4
<1>12. Typed'
  <2>1. /\ sdi_tlsf' \in [Slot -> Nat] /\ sdi_size_of_heap' \in [Slot -> Nat]
        /\ sdi_init_heap_flag' \in [Slot -> BOOLEAN]
    BY <1>1, <1>2, <1>4, <1>5 DEF Typed
  <2> QED BY <1>1, <1>2, <1>3, <1>5, <2>1 DEF Typed
<1>13. ASSUME "fault" \in Calls PROVE sdi_init_heap_flag'[s] <=> sdi_tlsf'[s] # NULL
  BY <1>1, <1>8, <1>13, SpareSlot DEF h, head
<1>14. Undisturbed(m)
  <2>1. Growing
    BY <1>1, <1>4, <1>9 DEF Growing, Serves, new
  <2> QED BY <1>6, <2>1 DEF Undisturbed
<1> QED BY <1>1, <1>7, <1>8, <1>10, <1>11, <1>12, <1>13, <1>14

(* Memory for the monitor. *)
LEMMA MonitorAsks ==
  ASSUME HeapSound, smd_tlsf = 1, NEW size \in Nat, NEW r, r = tlsf_malloc(mem, smd_tlsf, size),
         r.ptr # NULL
  PROVE  /\ r.ptr \in Nat /\ Sound(r.mem, region, brk, live, Kept \cup {r.ptr})
         /\ SameSizes(live, mem.blk, r.mem.blk)
<1> DEFINE ext == Ext(region)
<1>1. Valid(mem, ext) /\ 1 \in DOMAIN ext
  BY MonitorExt DEF HeapSound, Sound
<1> HIDE DEF ext
<1>2. Allocated(mem, r, ext, 1, size)
  BY <1>1, MallocIsSound
<1>3. r.ptr \in Nat \ {NULL}
  BY <1>2 DEF Allocated
<1>4. Sound(r.mem, region, brk, live, Kept \cup {r.ptr})
  BY <1>2, <1>3, SoundMonitor DEF ext, HeapSound
<1>5. SameSizes(live, mem.blk, r.mem.blk)
  <2>1. Intact(mem.blk, r.mem.blk, {})
    BY <1>2 DEF Allocated, NULL, NO_BLOCK
  <2>2. LiveIn(live, region, mem.blk)
    BY DEF HeapSound, Sound
  <2> QED BY <2>1, <2>2, IntactSizes
<1> QED BY <1>3, <1>4, <1>5

(* A call that faults in the library changes nothing else. *)
LEMMA FaultKeepsInv ==
  ASSUME HeapsInv, LibraryFaults("fault")
  PROVE  HeapsInv'
<1>1. /\ KeepHeaps /\ UNCHANGED <<infoVars, listVars, selVars, smd_tlsf>> /\ ctl' = "fault"
      /\ UNCHANGED <<mem, brk, region, live>>
  BY DEF LibraryFaults, heapVars, KeepHeaps
<1>2. Typed' /\ Listing' /\ Owning' /\ Caching' /\ Slots' /\ Kept' = Kept
  BY <1>1, NothingSelected
<1>3. HeapSound'
  BY <1>1, <1>2 DEF HeapsInv, HeapSound
<1> QED BY <1>2, <1>3 DEF HeapsInv

(* A data domain for which a heap is mapped. *)
LEMMA MappedInit ==
  ASSUME OnePool, HeapsInv, status # Slot, NEW m, NEW K, Kept' \subseteq K,
         Sound(m, region, brk, live, K), NEW s, s = NewSlot,
         MapHeap(s, SDRAD_DEFAULT_DATA_DOMAIN_SIZE),
         mem' = CreatePools(m, brk, SDRAD_DEFAULT_DATA_DOMAIN_SIZE, FALSE),
         live' = live, cache' = cache, "fault" \notin Calls,
         Domains' = Domains \cup {s}, UNCHANGED <<active_domain, tlsf_structure, smd_tlsf, ctl>>,
         udi_control' \in Seq(NodeRecord), sdi_parent_domain' \in [Slot -> Nat],
         status' = status \cup {s}
  PROVE  /\ Typed' /\ Owning' /\ Caching' /\ HeapSound' /\ Undisturbed(m)
         /\ \A t \in Slot \ {s} : /\ sdi_tlsf'[t] = sdi_tlsf[t]
                                  /\ sdi_init_heap_flag'[t] = sdi_init_heap_flag[t]
<1> DEFINE words == SDRAD_DEFAULT_DATA_DOMAIN_SIZE
           new   == region'
<1>1. Typed /\ Listing /\ Owning /\ Caching /\ Slots /\ HeapSound
  BY DEF HeapsInv
<1>2. s \in Slot \ status /\ Domains \subseteq Slot /\ s \notin Domains
  <2>1. s \in Slot \ status
    BY <1>1, NewSlotFacts
  <2>2. Domains \subseteq status
    BY <1>1 DEF Domains, Listing
  <2> QED BY <1>1, <2>1, <2>2, DomainsAreSlots
<1>3. words \in Nat \ {0} /\ words <= block_size_max
  BY HeapsAssumption, Numbers DEF OnePool
<1>4. /\ new = With(region, brk, [size |-> words, heap |-> brk]) /\ brk' = brk + words
      /\ sdi_tlsf' = [sdi_tlsf EXCEPT ![s] = brk]
      /\ sdi_size_of_heap' = [sdi_size_of_heap EXCEPT ![s] = words]
      /\ sdi_init_heap_flag' = [sdi_init_heap_flag EXCEPT ![s] = TRUE]
      /\ mem' = tlsf_create_with_pool(m, brk, words)
  BY OnePoolCreated DEF MapHeap
<1> HIDE DEF words, new
<1>5. /\ brk \in Nat /\ brk >= 1 + MonitorSize /\ RegionsIn(region, brk) /\ Layout(Ext(region))
      /\ brk # NULL /\ MonitorSize \in Nat
  <2>1. brk \in Nat /\ brk >= 1 + MonitorSize /\ RegionsIn(region, brk) /\ Layout(Ext(region))
    BY <1>1 DEF HeapSound, Sound, Valid, Between
  <2> QED BY <2>1, HeapsAssumption DEF NULL
<1>6. Mapped(region, new, brk, words)
  BY <1>3, <1>4, <1>5, Mapping
<1>7. /\ brk \notin DOMAIN region /\ DOMAIN new = DOMAIN region \cup {brk}
      /\ (\A a \in DOMAIN region : new[a] = region[a]) /\ new[brk].heap = brk /\ new[brk].size = words
  BY <1>6 DEF Mapped
<1>8. HeapSound'
  <2>1. /\ new = With(region, brk, [size |-> words, heap |-> brk])
        /\ mem' = tlsf_create_with_pool(m, brk, words) /\ brk' = brk + words
        /\ words \in Nat \ {0} /\ words <= block_size_max
    BY <1>3, <1>4
  <2>2. Sound(tlsf_create_with_pool(m, brk, words), new, brk + words, live, K)
    BY <2>1, SoundMap
  <2>3. Sound(mem', new, brk', live, Kept')
    BY <2>1, <2>2, SoundFewer
  <2> QED BY <2>3 DEF HeapSound, new
<1>9. /\ \A t \in Slot \ {s} : /\ sdi_tlsf'[t] = sdi_tlsf[t] /\ sdi_size_of_heap'[t] = sdi_size_of_heap[t]
                               /\ sdi_init_heap_flag'[t] = sdi_init_heap_flag[t]
      /\ sdi_tlsf'[s] = brk /\ sdi_size_of_heap'[s] = words
  BY <1>1, <1>2, <1>4 DEF Typed
<1>10. Owning'
  <2>1. ~Serves(brk) /\ \A a : Serves(a) => a \in DOMAIN region' /\ region'[a] = region[a]
    BY <1>7 DEF Serves, new
  <2>2. \A t \in Domains : /\ sdi_tlsf'[t] = sdi_tlsf[t] /\ sdi_size_of_heap'[t] = sdi_size_of_heap[t]
                           /\ sdi_init_heap_flag'[t] = sdi_init_heap_flag[t]
    BY <1>2, <1>9
  <2>3. brk \in DOMAIN region' /\ region'[brk].heap = brk /\ sdi_size_of_heap'[s] = region'[brk].size
    BY <1>7, <1>9 DEF new
  <2> QED BY <1>1, <1>2, <1>5, <1>9, <2>1, <2>2, <2>3, NewDomainOwns
<1>11. Caching'
  BY <1>1, <1>7 DEF Caching, new
<1>12. Typed'
  <2>1. /\ sdi_tlsf' \in [Slot -> Nat] /\ sdi_size_of_heap' \in [Slot -> Nat]
        /\ sdi_init_heap_flag' \in [Slot -> BOOLEAN] /\ brk' \in Nat
    BY <1>1, <1>2, <1>3, <1>4, <1>5 DEF Typed
  <2> QED BY <1>1, <1>2, <2>1 DEF Typed
<1>13. Undisturbed(m)
  <2>1. /\ new = With(region, brk, [size |-> words, heap |-> brk])
        /\ mem' = tlsf_create_with_pool(m, brk, words)
        /\ words \in Nat \ {0} /\ words <= block_size_max
    BY <1>3, <1>4
  <2>2. SameSizes(live, m.blk, tlsf_create_with_pool(m, brk, words).blk)
    BY <2>1, SoundMap
  <2>3. Growing
    BY <1>7 DEF Growing, Serves, new
  <2> QED BY <2>1, <2>2, <2>3 DEF Undisturbed
<1> QED BY <1>8, <1>9, <1>10, <1>11, <1>12, <1>13

(* An execution domain without a heap: it gets one when it asks for memory. *)
LEMMA BareInit ==
  ASSUME HeapsInv, status # Slot, ~CachedHeap, NEW K, Kept' \subseteq K,
         Sound(mem', region, brk, live, K), NEW s, s = NewSlot,
         UNCHANGED <<brk, region, sdi_tlsf, live>>,
         sdi_size_of_heap' = [sdi_size_of_heap EXCEPT ![s] = SDRAD_DEFAULT_HEAP_SIZE],
         \/ cache = <<>> /\ UNCHANGED <<cache, sdi_init_heap_flag>>
         \/ /\ cache # <<>> /\ cache' = Tail(cache)
            /\ sdi_init_heap_flag' = [sdi_init_heap_flag EXCEPT ![s] = FALSE],
         Domains' = Domains \cup {s}, UNCHANGED <<active_domain, tlsf_structure, smd_tlsf, ctl>>,
         udi_control' \in Seq(NodeRecord), sdi_parent_domain' \in [Slot -> Nat],
         status' = status \cup {s}
  PROVE  /\ Typed' /\ Owning' /\ Caching' /\ HeapSound'
         /\ \A t \in Slot \ {s} : /\ sdi_tlsf'[t] = sdi_tlsf[t]
                                  /\ sdi_init_heap_flag'[t] = sdi_init_heap_flag[t]
         /\ "fault" \in Calls => /\ cache' = IF cache = <<>> THEN cache ELSE Tail(cache)
                                 /\ sdi_init_heap_flag'[s] <=> sdi_tlsf'[s] # NULL
<1>1. Typed /\ Listing /\ Owning /\ Caching /\ Slots /\ HeapSound
  BY DEF HeapsInv
<1>2. s \in Slot \ status /\ Domains \subseteq Slot /\ s \notin Domains
  <2>1. s \in Slot \ status
    BY <1>1, NewSlotFacts
  <2>2. Domains \subseteq status
    BY <1>1 DEF Domains, Listing
  <2> QED BY <1>1, <2>1, <2>2, DomainsAreSlots
<1>3. sdi_tlsf[s] = NULL /\ (sdi_init_heap_flag[s] => sdi_tlsf[s] # NULL)
  BY <1>1, SpareSlot DEF CachedHeap
<1>4. HeapSound'
  <2>1. Sound(mem', region, brk, live, Kept')
    BY SoundFewer
  <2> QED BY <2>1 DEF HeapSound
<1>5. /\ \A t \in Slot \ {s} : /\ sdi_tlsf'[t] = sdi_tlsf[t] /\ sdi_size_of_heap'[t] = sdi_size_of_heap[t]
                               /\ sdi_init_heap_flag'[t] = sdi_init_heap_flag[t]
      /\ sdi_tlsf'[s] = NULL /\ ~sdi_init_heap_flag'[s]
  BY <1>1, <1>2, <1>3 DEF Typed
<1>6. Owning'
  <2>1. \A a : Serves(a) => a \in DOMAIN region' /\ region'[a] = region[a]
    BY DEF Serves
  <2>2. \A t \in Domains : /\ sdi_tlsf'[t] = sdi_tlsf[t] /\ sdi_size_of_heap'[t] = sdi_size_of_heap[t]
                           /\ sdi_init_heap_flag'[t] = sdi_init_heap_flag[t]
    BY <1>2, <1>5
  <2> QED BY <1>1, <1>2, <1>5, <2>1, <2>2, SlotFacts, NewDomainOwns
<1>7. sdi_size_of_heap' \in [Slot -> Nat]
  <2>1. sdi_size_of_heap \in [Slot -> Nat] /\ SDRAD_DEFAULT_HEAP_SIZE \in Nat
    BY <1>1, HeapsAssumption DEF Typed
  <2> QED BY <2>1
<1>8. CASE cache = <<>>
  <2>1. cache' = cache
    BY <1>8
  <2>2. Caching'
    BY <1>1, <2>1 DEF Caching
  <2>3. Typed'
    <3>1. sdi_init_heap_flag' = sdi_init_heap_flag
      BY <1>8
    <3> QED BY <1>1, <1>2, <1>7, <2>1, <3>1 DEF Typed
  <2> QED BY <1>4, <1>5, <1>6, <1>8, <2>1, <2>2, <2>3
<1>9. CASE cache # <<>>
  <2>1. /\ cache' = Tail(cache) /\ cache' \in Seq(EntryRecord)
        /\ \A i \in Nat : i \in DOMAIN cache' => i + 1 \in DOMAIN cache /\ cache'[i] = cache[i + 1]
        /\ DOMAIN cache' \subseteq Nat \ {0}
    BY <1>1, <1>9, CacheTail
  <2>2. Caching'
    <3> SUFFICES ASSUME NEW i \in DOMAIN cache', cache'[i].heap # NULL
                 PROVE  /\ cache'[i].heap \in DOMAIN region /\ region[cache'[i].heap].heap = NULL
                        /\ cache'[i].size = region[cache'[i].heap].size
                        /\ \A j \in DOMAIN cache' : cache'[j].heap = cache'[i].heap => i = j
      BY DEF Caching
    <3>1. i \in Nat /\ i + 1 \in DOMAIN cache /\ cache'[i] = cache[i + 1]
      BY <2>1
    <3>2. /\ cache[i + 1].heap \in DOMAIN region /\ region[cache[i + 1].heap].heap = NULL
          /\ cache[i + 1].size = region[cache[i + 1].heap].size
          /\ \A j \in DOMAIN cache : cache[j].heap = cache[i + 1].heap => i + 1 = j
      BY <1>1, <3>1 DEF Caching
    <3>3. ASSUME NEW j \in DOMAIN cache', cache'[j].heap = cache'[i].heap PROVE i = j
      <4>1. j \in Nat /\ j + 1 \in DOMAIN cache /\ cache'[j] = cache[j + 1]
        BY <2>1
      <4>2. i + 1 = j + 1
        BY <3>1, <3>2, <3>3, <4>1
      <4> QED BY <3>1, <4>1, <4>2
    <3> QED BY <3>1, <3>2, <3>3
  <2>3. Typed'
    <3>1. sdi_init_heap_flag' \in [Slot -> BOOLEAN]
      BY <1>1, <1>2, <1>9 DEF Typed
    <3> QED BY <1>1, <1>2, <1>7, <2>1, <3>1 DEF Typed
  <2> QED BY <1>4, <1>5, <1>6, <1>9, <2>1, <2>2, <2>3
<1> QED BY <1>8, <1>9

LEMMA InitKeepsInv ==
  ASSUME OnePool, OneWayOut, HeapsInv, NEW kind \in Kinds, sdrad_init(kind)
  PROVE  HeapsInv' /\ Undisturbed(mem)
<1> DEFINE r == sdrad_malloc_mdd(NodeSize)
           s == NewSlot
           K == Kept \cup {r.ptr}
<1>1. /\ Typed /\ Listing /\ Owning /\ Caching /\ Slots /\ HeapSound /\ status # Slot
      /\ smd_tlsf = 1 /\ NodeSize \in Nat /\ Domains \subseteq Slot /\ r = tlsf_malloc(mem, smd_tlsf, NodeSize)
  BY HeapsAssumption, DomainsAreSlots DEF HeapsInv, sdrad_init, Typed, sdrad_malloc_mdd
<1>2. CASE r.ptr = NULL
  <2>1. LibraryFaults("fault")
    BY <1>2 DEF sdrad_init
  <2>2. UNCHANGED <<mem, region>>
    BY <2>1 DEF LibraryFaults, heapVars
  <2>3. Undisturbed(mem)
    BY <2>2 DEF Undisturbed, Growing, SameSizes, Serves
  <2> QED BY <2>1, <2>3, FaultKeepsInv
<1>3. CASE r.ptr # NULL
  <2>1. /\ MapNewDomain(kind, r.ptr)
        /\ IF kind = "DATA" THEN sdrad_data_domain_init(r.mem) ELSE sdrad_execution_domain_init(r.mem)
        /\ UNCHANGED <<active_domain, tlsf_structure, smd_tlsf, ctl, live>>
    BY <1>3 DEF sdrad_init, selVars
  <2> HIDE DEF r
  <2>2. /\ r.ptr \in Nat /\ Sound(r.mem, region, brk, live, K)
        /\ SameSizes(live, mem.blk, r.mem.blk)
    BY <1>1, <1>3, MonitorAsks
  <2> HIDE DEF s
  <2>3. s \in Slot \ status /\ s = NewSlot
    BY <1>1, NewSlotFacts DEF s
  <2>4. /\ udi_control' = Cons([sdi |-> s, node |-> r.ptr], udi_control)
        /\ status' = status \cup {s}
        /\ sdi_parent_domain' = [sdi_parent_domain EXCEPT ![s] = active_domain]
    BY <2>1, <2>3 DEF MapNewDomain
  <2>5. /\ Listing' /\ udi_control' \in Seq(NodeRecord)
        /\ Len(udi_control') = Len(udi_control) + 1
        /\ \A i \in 1 .. Len(udi_control) + 1 :
             udi_control'[i] = IF i = 1 THEN [sdi |-> s, node |-> r.ptr] ELSE udi_control[i - 1]
        /\ Listed' = Listed \cup {s} /\ Domains' = Domains \cup {s}
        /\ {udi_control'[i].node : i \in DOMAIN udi_control'}
             \subseteq {udi_control[i].node : i \in DOMAIN udi_control} \cup {r.ptr}
    <3> DEFINE node == r.ptr
    <3>1. /\ Typed /\ Listing /\ s \in Slot \ status /\ node \in Nat
          /\ udi_control' = Cons([sdi |-> s, node |-> node], udi_control)
          /\ status' = status \cup {s} /\ active_domain' = active_domain
          /\ sdi_parent_domain' = [sdi_parent_domain EXCEPT ![s] = active_domain]
      BY <1>1, <2>1, <2>2, <2>3, <2>4
    <3> HIDE DEF node
    <3>2. /\ Listing' /\ udi_control' \in Seq(NodeRecord)
          /\ Len(udi_control') = Len(udi_control) + 1
          /\ \A i \in 1 .. Len(udi_control) + 1 :
               udi_control'[i] = IF i = 1 THEN [sdi |-> s, node |-> node] ELSE udi_control[i - 1]
          /\ Listed' = Listed \cup {s} /\ Domains' = Domains \cup {s}
          /\ {udi_control'[i].node : i \in DOMAIN udi_control'}
               \subseteq {udi_control[i].node : i \in DOMAIN udi_control} \cup {node}
          /\ Prefixed(udi_control', [sdi |-> s, node |-> node], udi_control)
      BY <3>1, NewDomainListed
    <3> QED BY <3>2 DEF node
  <2>6. sdi_parent_domain' \in [Slot -> Nat]
    <3>1. active_domain \in Nat
      BY <1>1 DEF Listing, Slot
    <3> QED BY <1>1, <2>3, <2>4, <3>1 DEF Typed
  <2>7. ASSUME cache' = cache \/ (cache # <<>> /\ cache' = Tail(cache)) PROVE Kept' \subseteq K
    <3>1. {cache'[i].entry : i \in DOMAIN cache'} \subseteq {cache[i].entry : i \in DOMAIN cache}
      BY <1>1, <2>7, CacheTail
    <3> QED BY <2>5, <3>1, NewDomainKept
  <2> HIDE DEF K
  <2>8. ASSUME /\ Typed' /\ Owning' /\ Caching' /\ HeapSound'
               /\ \A t \in Slot \ {s} : /\ sdi_tlsf'[t] = sdi_tlsf[t]
                                        /\ sdi_init_heap_flag'[t] = sdi_init_heap_flag[t]
               /\ "fault" \in Calls => /\ cache' = IF cache = <<>> THEN cache ELSE Tail(cache)
                                       /\ sdi_init_heap_flag'[s] <=> sdi_tlsf'[s] # NULL
               /\ Undisturbed(r.mem)
        PROVE HeapsInv' /\ Undisturbed(mem)
    <3>1. Slots'
      BY <1>1, <2>3, <2>4, <2>5, <2>8, NewDomainSlots
    <3>2. Undisturbed(mem)
      BY <2>2, <2>8 DEF Undisturbed, SameSizes
    <3> QED BY <2>5, <2>8, <3>1, <3>2 DEF HeapsInv
  <2>9. CASE CachedHeap
    <3>1. /\ TakeCachedHeap(r.mem) /\ cache' = Tail(cache) /\ cache # <<>>
          /\ \/ sdi_init_heap_flag' = sdi_init_heap_flag
             \/ sdi_init_heap_flag' = [sdi_init_heap_flag EXCEPT ![s] = TRUE]
      BY <2>1, <2>3, <2>9 DEF sdrad_data_domain_init, sdrad_execution_domain_init, CachedHeap
    <3>2. Kept' \subseteq K
      BY <2>7, <3>1
    <3> QED BY <1>1, <2>1, <2>2, <2>3, <2>4, <2>5, <2>6, <2>8, <2>9, <3>1, <3>2, RecycledInit
  <2>10. CASE ~CachedHeap /\ kind = "DATA"
    <3>1. "fault" \notin Calls
      BY <2>10 DEF OneWayOut
    <3>2. /\ cache' = cache /\ MapHeap(s, SDRAD_DEFAULT_DATA_DOMAIN_SIZE)
          /\ mem' = CreatePools(r.mem, brk, SDRAD_DEFAULT_DATA_DOMAIN_SIZE, FALSE)
      <4>1. ~sdi_init_heap_flag[NewSlot]
        BY <1>1, <3>1, SpareSlot
      <4> QED BY <2>1, <2>3, <2>10, <4>1 DEF sdrad_data_domain_init
    <3>3. Kept' \subseteq K
      BY <2>7, <3>2
    <3> QED BY <1>1, <2>1, <2>2, <2>3, <2>4, <2>5, <2>6, <2>8, <3>1, <3>2, <3>3, MappedInit
  <2>11. CASE ~CachedHeap /\ kind # "DATA"
    <3>1. /\ mem' = r.mem /\ UNCHANGED <<brk, region, sdi_tlsf>>
          /\ sdi_size_of_heap' = [sdi_size_of_heap EXCEPT ![s] = SDRAD_DEFAULT_HEAP_SIZE]
          /\ \/ cache = <<>> /\ UNCHANGED <<cache, sdi_init_heap_flag>>
             \/ /\ cache # <<>> /\ cache' = Tail(cache)
                /\ sdi_init_heap_flag' = [sdi_init_heap_flag EXCEPT ![s] = FALSE]
      BY <2>1, <2>3, <2>11 DEF sdrad_execution_domain_init, sdrad_get_config
    <3>2. Kept' \subseteq K
      BY <2>7, <3>1
    <3>3. Undisturbed(r.mem)
      BY <3>1 DEF Undisturbed, Growing, SameSizes, Serves
    <3> QED BY <1>1, <2>1, <2>2, <2>3, <2>4, <2>5, <2>6, <2>8, <2>11, <3>1, <3>2, <3>3, BareInit
  <2> QED BY <2>9, <2>10, <2>11
<1> QED BY <1>2, <1>3

-----------------------------------------------------------------------------
(* Entering a domain, and leaving it *)

LEMMA ParentIsDomain ==
  ASSUME Listing, NEW s \in Listed
  PROVE  sdi_parent_domain[s] \in Domains
<1>1. PICK i \in DOMAIN udi_control : udi_control[i].sdi = s
  BY DEF Listed
<1>2. \/ sdi_parent_domain[s] = ROOT_DOMAIN
      \/ \E j \in DOMAIN udi_control : i < j /\ udi_control[j].sdi = sdi_parent_domain[s]
  BY <1>1 DEF Listing
<1> QED BY <1>2 DEF Domains, Listed

LEMMA SwitchKeepsInv ==
  ASSUME HeapsInv, NEW s \in Domains, active_domain' = s, tlsf_structure' = sdi_tlsf[s],
         UNCHANGED <<heapVars, infoVars, listVars, smd_tlsf, ctl, live>>
  PROVE  HeapsInv'
<1>1. UNCHANGED <<mem, brk, region, sdi_tlsf, sdi_size_of_heap, sdi_init_heap_flag, sdi_parent_domain,
                  status, udi_control, cache, smd_tlsf, ctl, live>>
  BY DEF heapVars, infoVars, listVars
<1>2. Listed' = Listed /\ Domains' = Domains /\ Kept' = Kept
  BY <1>1 DEF Listed, Domains, Kept
<1>3. Typed' /\ Listing'
  <2>1. Typed /\ Listing /\ s \in Slot
    BY DomainsAreSlots DEF HeapsInv
  <2>2. sdi_tlsf[s] \in Nat
    BY <2>1 DEF Typed
  <2> QED BY <1>1, <1>2, <2>1, <2>2 DEF Typed, Listing
<1>4. Owning'
  <2>1. \A t \in Domains :
          sdi_tlsf[t] # NULL =>
            /\ Serves(sdi_tlsf[t]) /\ sdi_size_of_heap[t] = region[sdi_tlsf[t]].size
            /\ \A u \in Domains : u # t => sdi_tlsf[u] # sdi_tlsf[t]
    BY DEF HeapsInv, Owning
  <2>2. \A t \in Domains : sdi_init_heap_flag[t] => sdi_tlsf[t] # NULL
    BY DEF HeapsInv, Owning
  <2> QED BY <1>1, <1>2, <2>1, <2>2 DEF Owning, Serves
<1>5. Caching' /\ Slots' /\ HeapSound'
  BY <1>1, <1>2 DEF HeapsInv, Caching, Slots, Aligned, Fresh, HeapSound
<1> QED BY <1>3, <1>4, <1>5 DEF HeapsInv

LEMMA EnterKeepsInv ==
  ASSUME HeapsInv, NEW sdi \in Listed, sdrad_enter(sdi)
  PROVE  HeapsInv'
BY SwitchKeepsInv DEF sdrad_enter, Domains

LEMMA ExitKeepsInv ==
  ASSUME HeapsInv, sdrad_exit
  PROVE  HeapsInv'
<1> DEFINE s == sdi_parent_domain[active_domain]
<1>1. active_domain \in Listed
  BY DEF HeapsInv, Listing, Domains, sdrad_exit
<1>2. s \in Domains
  BY <1>1, ParentIsDomain DEF HeapsInv
<1> QED BY <1>2, SwitchKeepsInv DEF sdrad_exit, Resume

-----------------------------------------------------------------------------
(* Taking a domain back *)

(* The walk up from the active domain, over n domains. *)
UpFrom(n, g) ==
  /\ DOMAIN g = 0 .. n /\ g[0] = active_domain
  /\ \A k \in 0 .. n : k # 0 => g[k] = sdi_parent_domain[g[k - 1]]

LEMMA UpExists ==
  ASSUME NEW n \in Nat
  PROVE  \E g : UpFrom(n, g)
<1> DEFINE D == {i \in Nat : ~\E g : UpFrom(i, g)}
<1>1. SUFFICES ASSUME D # {} PROVE FALSE
  OBVIOUS
<1>2. PICK i \in D : \A j \in D : i <= j
  BY <1>1, LeastNatural
<1>3. CASE i = 0
  <2>1. UpFrom(0, [k \in 0 .. 0 |-> active_domain])
    BY DEF UpFrom
  <2> QED BY <2>1, <1>2, <1>3
<1>4. CASE i # 0
  <2>1. i - 1 \in Nat /\ i - 1 \notin D
    BY <1>2, <1>4
  <2>2. PICK g : UpFrom(i - 1, g)
    BY <2>1
  <2> DEFINE h == [k \in 0 .. i |-> IF k = i THEN sdi_parent_domain[g[i - 1]] ELSE g[k]]
  <2>3. h[0] = active_domain
    BY <2>2, <1>4 DEF UpFrom
  <2>4. ASSUME NEW k \in 0 .. i, k # 0 PROVE h[k] = sdi_parent_domain[h[k - 1]]
    <3>1. k - 1 \in 0 .. i /\ k - 1 # i /\ h[k - 1] = g[k - 1]
      BY <2>4
    <3>2. CASE k = i
      BY <3>1, <3>2
    <3>3. CASE k # i
      <4>1. k \in 0 .. i - 1
        BY <3>3
      <4>2. h[k] = g[k] /\ g[k] = sdi_parent_domain[g[k - 1]]
        BY <4>1, <3>3, <2>2, <2>4 DEF UpFrom
      <4> QED BY <4>2, <3>1
    <3> QED BY <3>2, <3>3
  <2>5. UpFrom(i, h)
    BY <2>3, <2>4 DEF UpFrom
  <2> QED BY <2>5, <1>2
<1> QED BY <1>3, <1>4

LEMMA ActiveInChain == active_domain \in Chain
<1> DEFINE N == TOTAL_DOMAIN
           F(f) == [k \in 0 .. N |-> IF k = 0 THEN active_domain ELSE sdi_parent_domain[f[k - 1]]]
           up == CHOOSE f : f = F(f)
<1>1. N \in Nat
  BY HeapsAssumption
<1>2. Chain = {up[k] : k \in 0 .. N}
  BY DEF Chain
<1>3. PICK g : UpFrom(N, g)
  BY <1>1, UpExists
<1> DEFINE f == [k \in 0 .. N |-> g[k]]
<1>4. f = F(f)
  <2>1. ASSUME NEW k \in 0 .. N PROVE f[k] = IF k = 0 THEN active_domain ELSE sdi_parent_domain[f[k - 1]]
    <3>1. CASE k = 0
      BY <1>3, <3>1 DEF UpFrom
    <3>2. CASE k # 0
      <4>1. k - 1 \in 0 .. N
        BY <1>1, <3>2
      <4>2. g[k] = sdi_parent_domain[g[k - 1]]
        BY <1>3, <3>2 DEF UpFrom
      <4> QED BY <3>2, <4>1, <4>2
    <3> QED BY <3>1, <3>2
  <2> QED BY <2>1
<1>5. up = F(up)
  <2>1. \E g2 : g2 = F(g2)
    <3> HIDE DEF f
    <3> QED BY <1>4
  <2> HIDE DEF F
  <2> QED BY <2>1
<1> HIDE DEF up
<1>6. 0 \in 0 .. N
  BY <1>1
<1>7. up[0] = active_domain
  <2>1. F(up)[0] = active_domain
    BY <1>6
  <2> HIDE DEF F
  <2> QED BY <1>5, <2>1
<1> QED BY <1>2, <1>6, <1>7

(* The lists without the domain at the head, and with one more entry. *)
LEMMA Removed ==
  ASSUME Typed, Listing, NEW s \in Listed, NodeIndex(s) = 1, NEW e \in EntryRecord,
         cache' = Cons(e, cache), udi_control' = RemoveAt(udi_control, 1)
  PROVE  /\ udi_control' \in Seq(NodeRecord) /\ Len(udi_control') = Len(udi_control) - 1
         /\ 1 \in DOMAIN udi_control /\ udi_control[1].sdi = s
         /\ \A i \in 1 .. Len(udi_control) - 1 : udi_control'[i] = udi_control[i + 1]
         /\ cache' \in Seq(EntryRecord) /\ Len(cache') = Len(cache) + 1 /\ cache'[1] = e
         /\ \A i \in 1 .. Len(cache) : cache'[i + 1] = cache[i]
         /\ Listed' = Listed \ {s} /\ Kept' \subseteq Kept \cup {e.entry}
<1> DEFINE u == udi_control
           v == udi_control'
           n == Len(udi_control)
           m == Len(cache)
<1>1. /\ u \in Seq(NodeRecord) /\ n \in Nat /\ DOMAIN u = 1 .. n
      /\ cache \in Seq(EntryRecord) /\ m \in Nat /\ DOMAIN cache = 1 .. m
  BY LenProperties DEF Typed
<1>2. \E i \in DOMAIN u : u[i].sdi = s
  BY DEF Listed
<1>3. 1 \in DOMAIN u /\ u[1].sdi = s
  BY <1>2 DEF NodeIndex
<1> HIDE DEF u
<1>4. /\ v \in Seq(NodeRecord) /\ Len(v) = n - 1
      /\ \A i \in 1 .. n - 1 : v[i] = u[i + 1]
  <2>1. 1 \in 1 .. Len(u) /\ v = RemoveAt(u, 1) /\ Len(u) = n
    BY <1>1, <1>3 DEF u
  <2> HIDE DEF v, n
  <2>2. /\ RemoveAt(u, 1) \in Seq(NodeRecord) /\ Len(RemoveAt(u, 1)) = Len(u) - 1
        /\ \A i \in 1 .. Len(u) - 1 : RemoveAt(u, 1)[i] = IF i < 1 THEN u[i] ELSE u[i + 1]
    BY <1>1, <2>1, RemoveAtProperties
  <2> QED BY <2>1, <2>2
<1>5. DOMAIN v = 1 .. n - 1
  <2> HIDE DEF v, n
  <2> QED BY <1>4, LenProperties
<1> DEFINE c == cache'
<1>6. /\ c \in Seq(EntryRecord) /\ Len(c) = m + 1
      /\ \A i \in 1 .. m + 1 : c[i] = IF i = 1 THEN e ELSE cache[i - 1]
  <2>1. c = <<e>> \o cache
    BY DEF Cons
  <2> HIDE DEF c
  <2> QED BY <1>1, <2>1, PushProperties
<1>7. DOMAIN c = 1 .. m + 1
  <2> HIDE DEF c, m
  <2> QED BY <1>6, LenProperties
<1> HIDE DEF v, n, m, c
<1>8. c[1] = e /\ \A i \in 1 .. m : c[i + 1] = cache[i]
  BY <1>1, <1>6
<1>9. {v[i].sdi : i \in DOMAIN v} = {u[i].sdi : i \in DOMAIN u} \ {s}
  <2>1. \A i, j \in DOMAIN u : u[i].sdi = u[j].sdi => i = j
    BY DEF Listing, u
  <2>2. ASSUME NEW i \in DOMAIN v PROVE v[i].sdi # s /\ \E j \in DOMAIN u : v[i].sdi = u[j].sdi
    <3>1. i + 1 \in DOMAIN u /\ v[i] = u[i + 1] /\ i + 1 # 1
      BY <1>1, <1>4, <1>5
    <3> QED BY <1>3, <2>1, <3>1
  <2>3. ASSUME NEW j \in DOMAIN u, u[j].sdi # s PROVE \E i \in DOMAIN v : v[i].sdi = u[j].sdi
    <3>1. j # 1
      BY <1>3, <2>3
    <3>2. j - 1 \in DOMAIN v /\ v[j - 1] = u[(j - 1) + 1] /\ (j - 1) + 1 = j
      BY <1>1, <1>4, <1>5, <3>1
    <3> QED BY <3>2
  <2> QED BY <2>2, <2>3
<1>10. {v[i].node : i \in DOMAIN v} \subseteq {u[i].node : i \in DOMAIN u}
  <2>1. ASSUME NEW i \in DOMAIN v PROVE \E j \in DOMAIN u : v[i].node = u[j].node
    <3>1. i + 1 \in DOMAIN u /\ v[i] = u[i + 1]
      BY <1>1, <1>4, <1>5
    <3> QED BY <3>1
  <2> QED BY <2>1
<1>11. {c[i].entry : i \in DOMAIN c} \subseteq {cache[i].entry : i \in DOMAIN cache} \cup {e.entry}
  <2>1. ASSUME NEW i \in DOMAIN c, i # 1 PROVE \E j \in DOMAIN cache : c[i].entry = cache[j].entry
    <3>1. i - 1 \in DOMAIN cache /\ c[i] = cache[i - 1]
      BY <1>1, <1>6, <1>7, <2>1
    <3> QED BY <3>1
  <2> QED BY <1>8, <2>1
<1>12. Listed' = Listed \ {s} /\ Kept' \subseteq Kept \cup {e.entry}
  BY <1>9, <1>10, <1>11 DEF Listed, Kept, u, v, c
<1> QED BY <1>3, <1>4, <1>6, <1>8, <1>12 DEF u, v, n, m, c

(* The heap of a domain is taken back with what was held in it. *)
Cached(s) == IF sdi_init_heap_flag[s] THEN sdi_tlsf[s] ELSE NULL

LEMMA TakenBackSound ==
  ASSUME HeapsInv, NEW s \in Listed, NEW m, NEW K, Sound(m, region, brk, live, K),
         NEW h, h = sdi_tlsf[s], Serve(h, IF sdi_init_heap_flag[s] THEN NULL ELSE h),
         live' = Discarded(h), brk' = brk
  PROVE  /\ Sound(m, region', brk', live', K)
         /\ DOMAIN region' = DOMAIN region
         /\ \A a \in DOMAIN region : region'[a].size = region[a].size
                                     /\ (a # Cached(s) => region'[a] = region[a])
         /\ Cached(s) # NULL => /\ Cached(s) = h /\ Serves(h) /\ region'[h].heap = NULL
                                /\ sdi_size_of_heap[s] = region[h].size
<1> DEFINE new  == region'
           back == IF sdi_init_heap_flag[s] THEN NULL ELSE h
           S    == {p \in DOMAIN live : HeapOf(p) = h}
<1>1. /\ HeapSound /\ RegionsIn(region, brk) /\ Layout(Ext(region))
      /\ (sdi_init_heap_flag[s] => h # NULL) /\ (h # NULL => Serves(h) /\ sdi_size_of_heap[s] = region[h].size)
  BY DEF HeapsInv, Owning, HeapSound, Sound, Valid, Between, Domains
<1>2. DOMAIN new = DOMAIN region /\ \A a \in DOMAIN region :
        new[a] = IF h # NULL /\ region[a].heap = h THEN [region[a] EXCEPT !.heap = back] ELSE region[a]
  BY DEF Serve
<1>3. /\ \A a \in DOMAIN region : region[a].heap \in {a, NULL}
      /\ \A a \in DOMAIN region : region[a] = [size |-> region[a].size, heap |-> region[a].heap]
  BY <1>1 DEF RegionsIn
<1> HIDE DEF new, back, S
<1>4. \A a \in DOMAIN region : a # h => new[a] = region[a]
  BY <1>2, <1>3
<1>5. h \in DOMAIN region =>
        /\ new[h] = region[h] \/ new[h] = [region[h] EXCEPT !.heap = NULL]
        /\ sdi_init_heap_flag[s] => new[h] = [region[h] EXCEPT !.heap = NULL]
        /\ ~sdi_init_heap_flag[s] => new[h] = region[h]
  <2> SUFFICES ASSUME h \in DOMAIN region
               PROVE  /\ sdi_init_heap_flag[s] => new[h] = [region[h] EXCEPT !.heap = NULL]
                      /\ ~sdi_init_heap_flag[s] => new[h] = region[h]
    OBVIOUS
  <2>1. ASSUME sdi_init_heap_flag[s] PROVE new[h] = [region[h] EXCEPT !.heap = NULL]
    BY <1>1, <1>2, <2>1 DEF Serves, back
  <2>2. ASSUME ~sdi_init_heap_flag[s] PROVE new[h] = region[h]
    <3>1. CASE h = NULL
      BY <1>2, <3>1
    <3>2. CASE h # NULL
      <4>1. region[h].heap = h /\ back = h
        BY <1>1, <2>2, <3>2 DEF Serves, back
      <4>2. new[h] = [region[h] EXCEPT !.heap = h]
        BY <1>2, <3>2, <4>1
      <4>3. region[h] = [size |-> region[h].size, heap |-> h]
        BY <1>3, <4>1
      <4> QED BY <4>2, <4>3
    <3> QED BY <3>1, <3>2
  <2> QED BY <2>1, <2>2
<1>6. live' = Restrict(live, DOMAIN live \ S)
  BY DEF Discarded, Drop, S
<1>7. \A p \in DOMAIN live \ S : ~(h \in DOMAIN region /\ Within(region, h, block_from_ptr(p)))
  <2> SUFFICES ASSUME NEW p \in DOMAIN live, h \in DOMAIN region, Within(region, h, block_from_ptr(p))
               PROVE  HeapOf(p) = h
    BY DEF S
  <2>1. PICK a \in DOMAIN region : HeapOf(p) = a /\ Within(region, a, block_from_ptr(p))
    BY <1>1, WhereHeld
  <2>2. block_from_ptr(p) \in Nat
    BY <1>1 DEF HeapSound, Sound, LiveIn, Valid, Between, Used
  <2>3. h = a
    BY <1>1, <2>1, <2>2, OneRegion
  <2> QED BY <2>1, <2>3
<1>8. Sound(m, new, brk, Restrict(live, DOMAIN live \ S), K)
  <2>1. Retired(region, new, h)
    BY <1>2, <1>4, <1>5 DEF Retired
  <2>2. NothingBut(S, live, region, h)
    BY <1>7 DEF NothingBut
  <2> QED BY <2>1, <2>2, SoundDiscard
<1>9. Sound(m, new, brk', live', K)
  BY <1>6, <1>8
<1>10. ASSUME NEW a \in DOMAIN region
       PROVE  new[a].size = region[a].size /\ (a # Cached(s) => new[a] = region[a])
  <2>1. region[a] = [size |-> region[a].size, heap |-> region[a].heap]
    BY <1>3
  <2> QED BY <1>4, <1>5, <2>1 DEF Cached
<1>11. Cached(s) # NULL => /\ Cached(s) = h /\ Serves(h) /\ new[h].heap = NULL
                           /\ sdi_size_of_heap[s] = region[h].size
  <2> SUFFICES ASSUME Cached(s) # NULL
               PROVE  /\ Cached(s) = h /\ Serves(h) /\ new[h].heap = NULL
                      /\ sdi_size_of_heap[s] = region[h].size
    OBVIOUS
  <2>1. sdi_init_heap_flag[s] /\ Cached(s) = h /\ h # NULL
    BY <1>1 DEF Cached
  <2>2. h \in DOMAIN region /\ Serves(h)
    BY <1>1, <2>1 DEF Serves
  <2>3. region[h] = [size |-> region[h].size, heap |-> region[h].heap]
    BY <1>3, <2>2
  <2> QED BY <1>1, <1>5, <2>1, <2>2, <2>3
<1> QED BY <1>2, <1>9, <1>10, <1>11 DEF new

(* The lists lose the domain at their head. *)
LEMMA ListingWithout ==
  ASSUME Typed, Listing, NEW s \in Listed, udi_control[1].sdi = s, 1 \in DOMAIN udi_control,
         udi_control' \in Seq(NodeRecord), Len(udi_control') = Len(udi_control) - 1,
         \A i \in 1 .. Len(udi_control) - 1 : udi_control'[i] = udi_control[i + 1],
         Listed' = Listed \ {s}, sdi_parent_domain' = sdi_parent_domain,
         status' = status \/ status' = status \ {s},
         active_domain' \in Domains \ {s}
  PROVE  Listing'
<1> DEFINE u == udi_control
           v == udi_control'
           n == Len(udi_control)
<1>1. /\ u \in Seq(NodeRecord) /\ n \in Nat /\ DOMAIN u = 1 .. n
  BY LenProperties DEF Typed
<1>2. DOMAIN v = 1 .. n - 1
  <2>1. v \in Seq(NodeRecord) /\ Len(v) = n - 1
    OBVIOUS
  <2> HIDE DEF v, n
  <2> QED BY <2>1, LenProperties
<1>3. /\ ROOT_DOMAIN \in status /\ Listed \subseteq status /\ ROOT_DOMAIN \notin Listed
      /\ \A i, j \in DOMAIN u : u[i].sdi = u[j].sdi => i = j
      /\ \A i \in DOMAIN u :
           \/ sdi_parent_domain[u[i].sdi] = ROOT_DOMAIN
           \/ \E j \in DOMAIN u : i < j /\ u[j].sdi = sdi_parent_domain[u[i].sdi]
  BY DEF Listing
<1>4. \A i \in DOMAIN v : i \in Nat /\ i + 1 \in DOMAIN u /\ v[i] = u[i + 1]
  BY <1>1, <1>2
<1>5. \A j \in DOMAIN u : j \in Nat /\ (j # 1 => j - 1 \in DOMAIN v /\ v[j - 1] = u[j])
  <2> SUFFICES ASSUME NEW j \in DOMAIN u, j # 1 PROVE j - 1 \in DOMAIN v /\ v[j - 1] = u[j]
    BY <1>1
  <2>1. j - 1 \in 1 .. n - 1 /\ (j - 1) + 1 = j
    BY <1>1
  <2> QED BY <1>2, <2>1
<1> HIDE DEF u, v, n
<1>6. \A i, j \in DOMAIN v : v[i].sdi = v[j].sdi => i = j
  <2> SUFFICES ASSUME NEW i \in DOMAIN v, NEW j \in DOMAIN v, v[i].sdi = v[j].sdi PROVE i = j
    OBVIOUS
  <2>1. i + 1 = j + 1 /\ i \in Nat /\ j \in Nat
    BY <1>3, <1>4
  <2> QED BY <2>1
<1>7. ASSUME NEW i \in DOMAIN v
      PROVE  \/ sdi_parent_domain'[v[i].sdi] = ROOT_DOMAIN
             \/ \E j \in DOMAIN v : i < j /\ v[j].sdi = sdi_parent_domain'[v[i].sdi]
  <2>1. i \in Nat /\ i + 1 \in DOMAIN u /\ v[i] = u[i + 1]
    BY <1>4
  <2>2. ASSUME sdi_parent_domain[v[i].sdi] # ROOT_DOMAIN
        PROVE  \E j \in DOMAIN v : i < j /\ v[j].sdi = sdi_parent_domain[v[i].sdi]
    <3>1. PICK j \in DOMAIN u : i + 1 < j /\ u[j].sdi = sdi_parent_domain[v[i].sdi]
      BY <1>3, <2>1, <2>2
    <3>2. j \in Nat /\ j # 1 /\ i < j - 1
      BY <1>5, <2>1, <3>1
    <3> QED BY <1>5, <3>1, <3>2
  <2> QED BY <2>2
<1>8. active_domain' \in Domains'
  BY DEF Domains
<1>9. ROOT_DOMAIN \in status' /\ Listed' \subseteq status' /\ ROOT_DOMAIN \notin Listed'
  BY <1>3
<1> QED BY <1>6, <1>7, <1>8, <1>9 DEF Listing, v

(* The active domain once s is gone: the same, or the parent of s. *)
LEMMA ActiveAfter ==
  ASSUME HeapsInv, NEW s \in Listed, NodeIndex(s) = 1,
         \/ s # active_domain /\ UNCHANGED <<active_domain, tlsf_structure>>
         \/ s = active_domain /\ Resume(sdi_parent_domain[s])
  PROVE  /\ active_domain' \in Domains \ {s}
         /\ tlsf_structure' # NULL =>
              /\ Serves(tlsf_structure') /\ tlsf_structure' # sdi_tlsf[s]
              /\ \A t \in Domains : t # active_domain' => tlsf_structure' # sdi_tlsf[t]
<1>1. /\ Typed /\ Listing
      /\ \A t \in Domains :
           sdi_tlsf[t] # NULL =>
             /\ Serves(sdi_tlsf[t])
             /\ \A u \in Domains : u # t => sdi_tlsf[u] # sdi_tlsf[t]
             /\ t # active_domain => tlsf_structure # sdi_tlsf[t]
      /\ tlsf_structure # NULL => Serves(tlsf_structure)
      /\ active_domain \in Domains /\ s \in Domains
  BY DEF HeapsInv, Owning, Listing, Domains
<1>2. CASE s # active_domain /\ UNCHANGED <<active_domain, tlsf_structure>>
  BY <1>1, <1>2
<1>3. CASE s = active_domain /\ Resume(sdi_parent_domain[s])
  <2> DEFINE q == sdi_parent_domain[s]
  <2>1. q \in Domains /\ active_domain' = q /\ tlsf_structure' = sdi_tlsf[q]
    BY <1>1, <1>3, ParentIsDomain DEF Resume
  <2>2. q # s
    <3>1. PICK i \in DOMAIN udi_control : udi_control[i].sdi = s
      BY DEF Listed
    <3>2. /\ i \in Nat /\ s # ROOT_DOMAIN
          /\ \/ q = ROOT_DOMAIN
             \/ \E j \in DOMAIN udi_control : i < j /\ udi_control[j].sdi = q
          /\ \A j \in DOMAIN udi_control : udi_control[j].sdi = s => i = j
      <4>1. DOMAIN udi_control = 1 .. Len(udi_control)
        BY <1>1, LenProperties DEF Typed
      <4> QED BY <1>1, <3>1, <4>1 DEF Listing
    <3> QED BY <3>2
  <2> HIDE DEF q
  <2> QED BY <1>1, <2>1, <2>2
<1> QED BY <1>2, <1>3

LEMMA TakenBack ==
  ASSUME HeapsInv, NEW s \in Listed, NodeIndex(s) = 1,
         NEW r, r = tlsf_malloc(mem, smd_tlsf, EntrySize), r.ptr # NULL,
         RemoveDomain(r.mem, s, HeapCached(s), r.ptr),
         Serve(sdi_tlsf[s], IF HeapCached(s) THEN NULL ELSE sdi_tlsf[s]),
         live' = Discarded(sdi_tlsf[s]),
         UNCHANGED <<brk, sdi_tlsf, sdi_size_of_heap, sdi_init_heap_flag, sdi_parent_domain, smd_tlsf, ctl>>,
         status' = status \/ status' = status \ {s},
         \/ s # active_domain /\ UNCHANGED <<active_domain, tlsf_structure>>
         \/ s = active_domain /\ Resume(sdi_parent_domain[s])
  PROVE  /\ Typed' /\ Listing' /\ Owning' /\ Caching' /\ HeapSound'
         /\ SameSizes(live, mem.blk, mem'.blk)
<1> DEFINE h    == sdi_tlsf[s]
           flag == sdi_init_heap_flag[s]
           e    == CacheEntry(s, flag, r.ptr)
           new  == region'
<1>1. /\ Typed /\ Listing /\ Owning /\ Caching /\ HeapSound /\ s \in Slot /\ s \in Domains
      /\ smd_tlsf = 1 /\ EntrySize \in Nat /\ Domains \subseteq Slot
  BY HeapsAssumption, DomainsAreSlots DEF HeapsInv, Domains, Typed
<1>2. /\ r.ptr \in Nat /\ Sound(r.mem, region, brk, live, Kept \cup {r.ptr})
      /\ SameSizes(live, mem.blk, r.mem.blk)
  BY <1>1, MonitorAsks
<1>3. /\ cache' = Cons(e, cache) /\ udi_control' = RemoveAt(udi_control, 1) /\ mem' = r.mem
      /\ Serve(h, IF flag THEN NULL ELSE h) /\ live' = Discarded(h) /\ brk' = brk
  BY DEF RemoveDomain, HeapCached, sdrad_delete_control_structure, FreesNode
<1>4. /\ h \in Nat /\ sdi_size_of_heap[s] \in Nat /\ flag \in BOOLEAN
  BY <1>1 DEF Typed
<1>5. /\ e \in EntryRecord /\ e.heap = Cached(s) /\ e.entry = r.ptr
      /\ Cached(s) # NULL => e.size = sdi_size_of_heap[s]
  BY <1>2, <1>4, SlotFacts DEF CacheEntry, EntryRecord, Cached
<1> HIDE DEF h, e, flag, new
<1>6. /\ udi_control' \in Seq(NodeRecord) /\ Len(udi_control') = Len(udi_control) - 1
      /\ 1 \in DOMAIN udi_control /\ udi_control[1].sdi = s
      /\ \A i \in 1 .. Len(udi_control) - 1 : udi_control'[i] = udi_control[i + 1]
      /\ cache' \in Seq(EntryRecord) /\ Len(cache') = Len(cache) + 1 /\ cache'[1] = e
      /\ \A i \in 1 .. Len(cache) : cache'[i + 1] = cache[i]
      /\ Listed' = Listed \ {s} /\ Kept' \subseteq Kept \cup {r.ptr}
  BY <1>1, <1>3, <1>5, Removed
<1>7. /\ Sound(mem', new, brk', live', Kept \cup {r.ptr})
      /\ DOMAIN new = DOMAIN region
      /\ \A a \in DOMAIN region : new[a].size = region[a].size
                                  /\ (a # Cached(s) => new[a] = region[a])
      /\ Cached(s) # NULL => /\ Cached(s) = h /\ Serves(h) /\ new[h].heap = NULL
                             /\ sdi_size_of_heap[s] = region[h].size
  <2> DEFINE K == Kept \cup {r.ptr}
             m == r.mem
  <2>1. Sound(m, region, brk, live, K) /\ mem' = m
    BY <1>2, <1>3
  <2> HIDE DEF K, m
  <2>2. h = sdi_tlsf[s] /\ Serve(h, IF sdi_init_heap_flag[s] THEN NULL ELSE h)
    BY <1>3 DEF h, flag
  <2>3. /\ Sound(m, region', brk', live', K)
        /\ DOMAIN region' = DOMAIN region
        /\ \A a \in DOMAIN region : region'[a].size = region[a].size
                                    /\ (a # Cached(s) => region'[a] = region[a])
        /\ Cached(s) # NULL => /\ Cached(s) = h /\ Serves(h) /\ region'[h].heap = NULL
                               /\ sdi_size_of_heap[s] = region[h].size
    BY <1>3, <2>1, <2>2, TakenBackSound
  <2> QED BY <2>1, <2>3 DEF K, new
<1>8. HeapSound'
  <2>1. Sound(mem', new, brk', live', Kept')
    BY <1>6, <1>7, SoundFewer
  <2> QED BY <2>1 DEF HeapSound, new
<1>9. /\ active_domain' \in Domains \ {s}
      /\ tlsf_structure' # NULL =>
           /\ Serves(tlsf_structure') /\ tlsf_structure' # h
           /\ \A t \in Domains : t # active_domain' => tlsf_structure' # sdi_tlsf[t]
  BY ActiveAfter DEF h
<1>10. Listing'
  BY <1>1, <1>6, <1>9, ListingWithout
<1>11. Domains' = Domains \ {s}
  BY <1>1, <1>6 DEF Domains, Listing
<1>12. Owning'
  <2>1. \A t \in Domains :
          sdi_tlsf[t] # NULL =>
            /\ Serves(sdi_tlsf[t]) /\ sdi_size_of_heap[t] = region[sdi_tlsf[t]].size
            /\ \A u \in Domains : u # t => sdi_tlsf[u] # sdi_tlsf[t]
    BY <1>1 DEF Owning
  <2>2. \A t \in Domains : sdi_init_heap_flag[t] => sdi_tlsf[t] # NULL
    BY <1>1 DEF Owning
  <2>3. \A a : Serves(a) /\ a # Cached(s) => a \in DOMAIN new /\ new[a].heap = a /\ new[a].size = region[a].size
    BY <1>7 DEF Serves
  <2>4. \A t \in Domains \ {s} : sdi_tlsf[t] # NULL => sdi_tlsf[t] # Cached(s)
    BY <1>1, <1>7, <2>1 DEF h
  <2>5. tlsf_structure' # NULL => tlsf_structure' \in DOMAIN new /\ new[tlsf_structure'].heap = tlsf_structure'
    BY <1>7, <1>9, <2>3
  <2>6. ASSUME NEW t \in Domains \ {s}, sdi_tlsf[t] # NULL
        PROVE  /\ sdi_tlsf[t] \in DOMAIN new /\ new[sdi_tlsf[t]].heap = sdi_tlsf[t]
               /\ sdi_size_of_heap[t] = new[sdi_tlsf[t]].size
               /\ \A u \in Domains \ {s} : u # t => sdi_tlsf[u] # sdi_tlsf[t]
               /\ t # active_domain' => tlsf_structure' # sdi_tlsf[t]
    BY <1>9, <2>1, <2>3, <2>4, <2>6
  <2> QED BY <1>11, <2>2, <2>5, <2>6 DEF Owning, Serves, new
<1>13. Caching'
  <2> DEFINE c == cache'
  <2>1. /\ DOMAIN c = 1 .. Len(cache) + 1 /\ DOMAIN cache = 1 .. Len(cache) /\ Len(cache) \in Nat
    <3>1. c \in Seq(EntryRecord) /\ Len(c) = Len(cache) + 1 /\ cache \in Seq(EntryRecord)
      BY <1>1, <1>6 DEF Typed
    <3> HIDE DEF c
    <3> QED BY <3>1, LenProperties
  <2>2. /\ c[1] = e
        /\ \A i \in DOMAIN c : i \in Nat /\ (i # 1 => i - 1 \in DOMAIN cache /\ c[i] = cache[i - 1])
    <3> SUFFICES ASSUME NEW i \in DOMAIN c, i # 1 PROVE i - 1 \in DOMAIN cache /\ c[i] = cache[i - 1]
      BY <1>6, <2>1
    <3>1. i - 1 \in 1 .. Len(cache) /\ (i - 1) + 1 = i
      BY <2>1
    <3> QED BY <1>6, <2>1, <3>1
  <2> HIDE DEF c
  <2>3. \A j \in DOMAIN cache : cache[j].heap # NULL => cache[j].heap # Cached(s)
    BY <1>1, <1>7 DEF Caching, Serves
  <2>4. ASSUME NEW i \in DOMAIN c, c[i].heap # NULL
        PROVE  /\ c[i].heap \in DOMAIN new /\ new[c[i].heap].heap = NULL
               /\ c[i].size = new[c[i].heap].size
               /\ \A j \in DOMAIN c : c[j].heap = c[i].heap => i = j
    <3>1. CASE i = 1
      <4>1. Cached(s) # NULL /\ c[i].heap = h /\ c[i].size = sdi_size_of_heap[s] /\ h = Cached(s)
        BY <1>5, <1>7, <2>2, <2>4, <3>1
      <4>2. h \in DOMAIN new /\ new[h].heap = NULL /\ sdi_size_of_heap[s] = new[h].size
        BY <1>7, <4>1 DEF Serves
      <4>3. \A j \in DOMAIN c : c[j].heap = h => j = 1
        BY <2>2, <2>3, <4>1, <2>4
      <4> QED BY <3>1, <4>1, <4>2, <4>3
    <3>2. CASE i # 1
      <4>1. i - 1 \in DOMAIN cache /\ c[i] = cache[i - 1] /\ i \in Nat
        BY <2>2, <3>2
      <4>2. /\ cache[i - 1].heap \in DOMAIN region /\ region[cache[i - 1].heap].heap = NULL
            /\ cache[i - 1].size = region[cache[i - 1].heap].size
            /\ \A j \in DOMAIN cache : cache[j].heap = cache[i - 1].heap => i - 1 = j
            /\ cache[i - 1].heap # Cached(s)
        BY <1>1, <2>3, <2>4, <4>1 DEF Caching
      <4>3. ASSUME NEW j \in DOMAIN c, c[j].heap = c[i].heap PROVE i = j
        <5>1. j # 1
          BY <1>5, <2>2, <4>1, <4>2, <4>3
        <5>2. j - 1 \in DOMAIN cache /\ c[j] = cache[j - 1] /\ j \in Nat
          BY <2>2, <5>1
        <5>3. i - 1 = j - 1
          BY <4>1, <4>2, <4>3, <5>2
        <5> QED BY <4>1, <5>2, <5>3
      <4> QED BY <1>7, <4>1, <4>2, <4>3
    <3> QED BY <3>1, <3>2
  <2> QED BY <2>4 DEF Caching, c, new
<1>14. Typed'
  <2>1. tlsf_structure' \in Nat
    <3>1. CASE tlsf_structure' = NULL
      BY <3>1, SlotFacts
    <3>2. CASE tlsf_structure' # NULL
      BY <1>1, <1>9, <3>2 DEF Serves, HeapSound, Sound, RegionsIn
    <3> QED BY <3>1, <3>2
  <2> QED BY <1>1, <1>6, <2>1 DEF Typed
<1> QED BY <1>2, <1>3, <1>8, <1>10, <1>12, <1>13, <1>14

(* What destroying the domain s does to what the application holds. *)
TakesBack(s) ==
  /\ Serve(sdi_tlsf[s], IF HeapCached(s) THEN NULL ELSE sdi_tlsf[s])
  /\ live' = Discarded(sdi_tlsf[s]) /\ brk' = brk /\ SameSizes(live, mem.blk, mem'.blk)

LEMMA DestroyKeepsInv ==
  ASSUME OneWayOut, HeapsInv, NEW sdi \in Listed, NEW options \in Options, sdrad_destroy(sdi, options)
  PROVE  HeapsInv' /\ (TakesBack(sdi) \/ LibraryFaults("fault"))
<1> DEFINE r == sdrad_malloc_mdd(EntrySize)
<1>1. /\ sdi \notin Chain /\ NodeIndex(sdi) = 1 /\ options = "NO_HEAP_MERGE" /\ "fault" \notin Calls
  BY DEF sdrad_destroy, MayGo, OneWayOut
<1>2. sdi # active_domain
  BY <1>1, ActiveInChain
<1>3. CASE r.ptr = NULL \/ FreeFaults(sdi)
  BY <1>3, FaultKeepsInv DEF sdrad_destroy
<1>4. CASE ~(r.ptr = NULL \/ FreeFaults(sdi))
  <2>1. /\ destroy_cached(sdi, r)
        /\ UNCHANGED <<brk, sdi_tlsf, sdi_size_of_heap, sdi_init_heap_flag, infoVars, made, selVars, smd_tlsf>>
    BY <1>1, <1>4 DEF sdrad_destroy
  <2>2. r.ptr # NULL /\ r = tlsf_malloc(mem, smd_tlsf, EntrySize)
    BY <1>4 DEF sdrad_malloc_mdd
  <2> HIDE DEF r
  <2>3. /\ RemoveDomain(r.mem, sdi, HeapCached(sdi), r.ptr)
        /\ Serve(sdi_tlsf[sdi], IF HeapCached(sdi) THEN NULL ELSE sdi_tlsf[sdi])
        /\ live' = Discarded(sdi_tlsf[sdi])
    BY <2>1 DEF destroy_cached
  <2>4. /\ UNCHANGED <<brk, sdi_tlsf, sdi_size_of_heap, sdi_init_heap_flag, sdi_parent_domain, smd_tlsf, ctl>>
        /\ UNCHANGED <<status, active_domain, tlsf_structure>>
    BY <2>1 DEF destroy_cached, infoVars, selVars
  <2>5. /\ Typed' /\ Listing' /\ Owning' /\ Caching' /\ HeapSound'
        /\ SameSizes(live, mem.blk, mem'.blk)
    BY <1>1, <1>2, <2>2, <2>3, <2>4, TakenBack
  <2>6. Slots'
    BY <1>1, <2>4 DEF HeapsInv, Slots, Fresh
  <2> QED BY <2>3, <2>4, <2>5, <2>6 DEF HeapsInv, TakesBack
<1> QED BY <1>3, <1>4

(* The slot that a rewind frees knows of the heap that it puts in the cache. *)
LEMMA RewindSlots ==
  ASSUME Typed, Listing, Aligned, NEW s \in Listed, udi_control[1].sdi = s, 1 \in DOMAIN udi_control,
         udi_control' \in Seq(NodeRecord), Len(udi_control') = Len(udi_control) - 1,
         \A i \in 1 .. Len(udi_control) - 1 : udi_control'[i] = udi_control[i + 1],
         NEW e, e.heap = Cached(s),
         cache' \in Seq(EntryRecord), Len(cache') = Len(cache) + 1, cache'[1] = e,
         \A i \in 1 .. Len(cache) : cache'[i + 1] = cache[i],
         UNCHANGED <<sdi_tlsf, sdi_init_heap_flag>>, status' = status \ {s}
  PROVE  Aligned'
<1> DEFINE n == Len(udi_control)
           m == Len(cache)
           u == udi_control
           v == udi_control'
           c == cache'
<1>1. /\ n \in Nat /\ m \in Nat /\ DOMAIN u = 1 .. n /\ DOMAIN cache = 1 .. m
      /\ u \in Seq(NodeRecord) /\ cache \in Seq(EntryRecord)
  BY LenProperties DEF Typed
<1>2. DOMAIN v = 1 .. n - 1 /\ Len(v) = n - 1
  <2>1. v \in Seq(NodeRecord) /\ Len(v) = n - 1
    OBVIOUS
  <2> HIDE DEF v, n
  <2> QED BY <2>1, LenProperties
<1>3. DOMAIN c = 1 .. m + 1
  <2>1. c \in Seq(EntryRecord) /\ Len(c) = m + 1
    OBVIOUS
  <2> HIDE DEF c, m
  <2> QED BY <2>1, LenProperties
<1>4. /\ status = 0 .. 1 + n
      /\ \A i \in DOMAIN u : u[i].sdi = 2 + n - i
      /\ \A t \in Slot : sdi_init_heap_flag[t] <=> sdi_tlsf[t] # NULL
      /\ \A t \in Slot : t > 1 + n =>
           sdi_tlsf[t] = IF t - (1 + n) \in DOMAIN cache THEN cache[t - (1 + n)].heap ELSE NULL
  <2>1. status = 0 .. 1 + n /\ \A t \in Slot : sdi_init_heap_flag[t] <=> sdi_tlsf[t] # NULL
    BY DEF Aligned
  <2>2. ASSUME NEW i \in DOMAIN u PROVE u[i].sdi = 2 + n - i
    <3>1. u[i].sdi = 1 + (1 + n) - i
      BY <2>2 DEF Aligned
    <3> QED BY <1>1, <2>2, <3>1
  <2>3. \A t \in Slot : t > 1 + n =>
          sdi_tlsf[t] = IF t - (1 + n) \in DOMAIN cache THEN cache[t - (1 + n)].heap ELSE NULL
    BY DEF Aligned
  <2> QED BY <2>1, <2>2, <2>3
<1>5. s = 1 + n /\ n >= 1 /\ s \in Slot
  <2>0. 1 \in DOMAIN u /\ u[1].sdi = s
    OBVIOUS
  <2> HIDE DEF n, u
  <2>1. s = 2 + n - 1
    BY <1>4, <2>0
  <2>2. n >= 1
    BY <1>1, <2>0
  <2>3. s \in Slot
    BY DomainsAreSlots
  <2> QED BY <1>1, <2>1, <2>2, <2>3
<1>6. \A i \in 1 .. n - 1 : v[i] = u[i + 1]
  OBVIOUS
<1>7. c[1].heap = Cached(s) /\ \A i \in 1 .. m : c[i + 1] = cache[i]
  OBVIOUS
<1> HIDE DEF n, m, u, v, c
<1>8. status' = 0 .. n
  BY <1>1, <1>4, <1>5
<1>9. \A i \in DOMAIN v : v[i].sdi = 1 + n - i
  <2> SUFFICES ASSUME NEW i \in 1 .. n - 1 PROVE v[i].sdi = 1 + n - i
    BY <1>2
  <2>1. i + 1 \in DOMAIN u /\ v[i] = u[i + 1]
    BY <1>1, <1>6
  <2>2. u[i + 1].sdi = 2 + n - (i + 1)
    BY <1>4, <2>1
  <2> QED BY <1>1, <2>1, <2>2
<1>10. ASSUME NEW t \in Slot, t > n
       PROVE  sdi_tlsf[t] = IF t - n \in DOMAIN c THEN c[t - n].heap ELSE NULL
  <2>0. t \in Nat
    BY DEF Slot
  <2>1. CASE t = 1 + n
    <3>1. t - n = 1 /\ 1 \in DOMAIN c
      BY <1>1, <1>3, <2>1
    <3>2. sdi_tlsf[s] = Cached(s)
      BY <1>4, <1>5 DEF Cached
    <3> QED BY <1>5, <1>7, <2>1, <3>1, <3>2
  <2>2. CASE t # 1 + n
    <3> DEFINE k == t - (1 + n)
    <3>1. k \in Nat \ {0} /\ k + 1 = t - n /\ t > 1 + n
      BY <1>1, <1>10, <2>0, <2>2
    <3>2. sdi_tlsf[t] = IF k \in DOMAIN cache THEN cache[k].heap ELSE NULL
      BY <1>4, <3>1
    <3> HIDE DEF k
    <3>3. /\ k \in DOMAIN cache <=> k + 1 \in DOMAIN c
          /\ k \in DOMAIN cache => c[k + 1] = cache[k]
      BY <1>1, <1>3, <1>7, <3>1
    <3> QED BY <3>1, <3>2, <3>3
  <2> QED BY <2>1, <2>2
<1>11. 1 + Len(udi_control') = n /\ UNCHANGED <<sdi_tlsf, sdi_init_heap_flag>>
  BY <1>1, <1>2 DEF v
<1> QED BY <1>4, <1>8, <1>9, <1>10, <1>11 DEF Aligned, v, c

LEMMA RewindKeepsInv ==
  ASSUME OneWayOut, HeapsInv, sdrad_init_destroy
  PROVE  /\ HeapsInv' /\ active_domain \in Listed
         /\ TakesBack(active_domain) \/ LibraryFaults("fault")
<1> DEFINE r == sdrad_malloc_mdd(EntrySize)
           s == active_domain
<1>1. /\ Typed /\ Listing /\ s \in Listed /\ NodeIndex(s) = 1 /\ "fault" \in Calls
      /\ Aligned /\ smd_tlsf = 1 /\ EntrySize \in Nat /\ HeapSound /\ s \in Slot
  <2>1. Typed /\ Listing /\ "fault" \in Calls /\ NodeIndex(s) = 1 /\ s \in Listed
    BY DEF sdrad_init_destroy, Call, MayGo, OneWayOut, HeapsInv, Listing, Domains
  <2> QED BY <2>1, HeapsAssumption, DomainsAreSlots DEF HeapsInv, Slots, Typed
<1>2. CASE r.ptr = NULL \/ FreeFaults(s)
  BY <1>1, <1>2, FaultKeepsInv DEF sdrad_init_destroy
<1>3. CASE ~(r.ptr = NULL \/ FreeFaults(s))
  <2>1. /\ RemoveDomain(r.mem, s, HeapCached(s), r.ptr)
        /\ Serve(sdi_tlsf[s], IF HeapCached(s) THEN NULL ELSE sdi_tlsf[s])
        /\ live' = Discarded(sdi_tlsf[s])
        /\ status' = status \ {s} /\ Resume(sdi_parent_domain[s])
        /\ UNCHANGED <<brk, sdi_tlsf, sdi_size_of_heap, sdi_init_heap_flag, sdi_parent_domain, smd_tlsf, ctl>>
    BY <1>3 DEF sdrad_init_destroy
  <2>2. r.ptr # NULL /\ r = tlsf_malloc(mem, smd_tlsf, EntrySize)
    BY <1>3 DEF sdrad_malloc_mdd
  <2> HIDE DEF r
  <2>3. r.ptr \in Nat
    BY <1>1, <2>2, MonitorAsks
  <2> DEFINE e == CacheEntry(s, sdi_init_heap_flag[s], r.ptr)
  <2>4. e \in EntryRecord /\ e.heap = Cached(s) /\ e.entry = r.ptr
    <3>1. sdi_tlsf[s] \in Nat /\ sdi_size_of_heap[s] \in Nat
      BY <1>1 DEF Typed
    <3> QED BY <2>3, <3>1, SlotFacts DEF CacheEntry, EntryRecord, Cached
  <2>5. cache' = Cons(e, cache) /\ udi_control' = RemoveAt(udi_control, 1)
    BY <1>1, <2>1 DEF RemoveDomain, HeapCached
  <2> HIDE DEF s
  <2>6. /\ Typed' /\ Listing' /\ Owning' /\ Caching' /\ HeapSound'
        /\ SameSizes(live, mem.blk, mem'.blk)
    <3>1. s = active_domain
      BY DEF s
    <3> QED BY <1>1, <2>1, <2>2, <3>1, TakenBack
  <2> HIDE DEF e
  <2>7. /\ udi_control' \in Seq(NodeRecord) /\ Len(udi_control') = Len(udi_control) - 1
        /\ 1 \in DOMAIN udi_control /\ udi_control[1].sdi = s
        /\ \A i \in 1 .. Len(udi_control) - 1 : udi_control'[i] = udi_control[i + 1]
        /\ cache' \in Seq(EntryRecord) /\ Len(cache') = Len(cache) + 1 /\ cache'[1] = e
        /\ \A i \in 1 .. Len(cache) : cache'[i + 1] = cache[i]
    BY <1>1, <2>4, <2>5, Removed
  <2>8. Aligned'
    BY <1>1, <2>1, <2>4, <2>7, RewindSlots
  <2>9. Slots'
    BY <1>1, <2>8 DEF Slots
  <2> QED BY <1>1, <2>1, <2>6, <2>9 DEF HeapsInv, TakesBack, s
<1> QED BY <1>2, <1>3

-----------------------------------------------------------------------------
(* The start, and every step *)

LEMMA NothingIsValid ==
  Valid([blk |-> <<>>, tlsf |-> <<>>, abort |-> FALSE], <<>>)
<1> DEFINE m == [blk |-> <<>>, tlsf |-> <<>>, abort |-> FALSE]
<1>1. /\ DOMAIN m.blk = {} /\ DOMAIN m.tlsf = {} /\ DOMAIN <<>> = {} /\ m.abort = FALSE
      /\ m.blk = <<>> /\ m.tlsf = <<>>
  OBVIOUS
<1>2. \A S : <<>> \in [{} -> S]
  OBVIOUS
<1>3. m \in Memory(DOMAIN m.blk, DOMAIN <<>>)
  BY <1>1, <1>2 DEF Memory
<1>4. Layout(<<>>)
  BY <1>1, <1>2 DEF Layout
<1> HIDE DEF m
<1>5. /\ Tiled(m.blk) /\ Linked(m.blk) /\ FreeApart(m.blk, {}) /\ Placed(m.blk, <<>>)
      /\ ListsOK(m.blk, m.tlsf, <<>>, {}) /\ BitmapsOK(m.tlsf)
  BY <1>1 DEF Tiled, Linked, FreeApart, Placed, ListsOK, BitmapsOK
<1>6. Valid(m, <<>>)
  BY <1>1, <1>3, <1>4, <1>5 DEF Valid, Between
<1> QED BY <1>6 DEF m

LEMMA MonitorMayBe ==
  ASSUME OnePool
  PROVE  MayCreate(<<>>, 1, MonitorSize)
<1> DEFINE w == With(<<>>, 1, MonitorSize)
<1>1. MonitorSize \in Nat /\ MonitorSize <= block_size_max
  BY HeapsAssumption, Numbers DEF OnePool
<1>2. DOMAIN w = {1} /\ w[1] = MonitorSize /\ w \in [DOMAIN w -> Nat] /\ 1 \notin DOMAIN <<>>
  BY <1>1 DEF With
<1> HIDE DEF w
<1>3. Layout(w)
  BY <1>1, <1>2 DEF Layout
<1> QED BY <1>1, <1>2, <1>3 DEF MayCreate, w

LEMMA StartIsSound ==
  ASSUME OnePool, Init
  PROVE  HeapsInv
<1> DEFINE empty == [blk |-> <<>>, tlsf |-> <<>>, abort |-> FALSE]
           m == tlsf_create_with_pool(empty, 1, MonitorSize)
           r == tlsf_malloc(m, 1, NodeSize)
           ext == Ext(region)
<1>1. /\ mem = r.mem /\ smd_tlsf = 1 /\ brk = 1 + MonitorSize /\ region = <<>> /\ live = <<>>
      /\ sdi_tlsf = [i \in Slot |-> NULL]
      /\ sdi_size_of_heap = [i \in Slot |-> IF i = ROOT_DOMAIN THEN SDRAD_DEFAULT_HEAP_SIZE ELSE 0]
      /\ sdi_init_heap_flag = [i \in Slot |-> FALSE]
      /\ sdi_parent_domain = [i \in Slot |-> IF i = ROOT_DOMAIN THEN ROOT_DOMAIN ELSE 0]
      /\ status = {0, ROOT_DOMAIN} /\ udi_control = <<>> /\ cache = <<>>
      /\ active_domain = ROOT_DOMAIN /\ tlsf_structure = NULL /\ ctl = "app"
  BY DEF Init
<1>2. /\ MonitorSize \in Nat \ {0} /\ NodeSize \in Nat /\ MonitorSize <= block_size_max
      /\ SDRAD_DEFAULT_HEAP_SIZE \in Nat
  BY HeapsAssumption, Numbers DEF OnePool
<1>3. DOMAIN region = {} /\ DOMAIN udi_control = {} /\ DOMAIN cache = {} /\ DOMAIN live = {}
      /\ Len(udi_control) = 0
  BY <1>1
<1>4. ext = With(<<>>, 1, MonitorSize)
  <2>1. DOMAIN <<>> = {}
    OBVIOUS
  <2> QED BY <1>3, <2>1 DEF Ext, With
<1>5. MayCreate(<<>>, 1, MonitorSize)
  BY MonitorMayBe
<1>6. Valid(m, ext)
  <2>1. Valid(empty, <<>>)
    BY NothingIsValid
  <2> HIDE DEF empty
  <2>2. Valid(m, With(<<>>, 1, MonitorSize))
    BY <1>5, <2>1, CreateIsSound
  <2> HIDE DEF m
  <2> QED BY <1>4, <2>2
<1>7. Valid(mem, ext)
  <2>1. 1 \in DOMAIN ext
    BY DEF Ext
  <2> HIDE DEF m, ext
  <2>2. Allocated(m, r, ext, 1, NodeSize)
    BY <1>2, <1>6, <2>1, MallocIsSound
  <2> QED BY <1>1, <1>6, <2>2 DEF Allocated
<1> HIDE DEF m, r, empty
<1>8. HeapSound
  <2>1. Kept = {}
    BY <1>3 DEF Kept
  <2>2. brk \in Nat /\ brk >= 1 + MonitorSize
    BY <1>1, <1>2
  <2> QED BY <1>3, <1>7, <2>1, <2>2 DEF HeapSound, Sound, RegionsIn, LiveIn, KeptIn
<1>9. Listed = {} /\ Domains = {ROOT_DOMAIN}
  BY <1>3 DEF Listed, Domains
<1>10. Typed
  <2>1. ROOT_DOMAIN \in Nat /\ 0 \in Nat /\ NULL \in Nat
    BY DEF ROOT_DOMAIN, NULL
  <2> QED BY <1>1, <1>2, <2>1, SlotFacts DEF Typed
<1>11. Listing
  BY <1>1, <1>3, <1>9 DEF Listing
<1>12. \A s \in Slot : sdi_tlsf[s] = NULL /\ ~sdi_init_heap_flag[s]
  BY <1>1
<1>13. Owning /\ Caching
  BY <1>1, <1>3, <1>9, <1>12, SlotFacts DEF Owning, Caching
<1>14. Fresh /\ Aligned
  <2>1. status = 0 .. 1
    BY <1>1 DEF ROOT_DOMAIN
  <2> QED BY <1>3, <1>12, <2>1 DEF Fresh, Aligned
<1> QED BY <1>8, <1>10, <1>11, <1>13, <1>14 DEF HeapsInv, Slots

LEMMA StutterKeepsInv ==
  ASSUME HeapsInv, UNCHANGED vars
  PROVE  HeapsInv'
<1>1. /\ KeepHeaps /\ UNCHANGED <<infoVars, listVars, selVars, smd_tlsf>> /\ ctl' = ctl
      /\ UNCHANGED <<mem, brk, region, live>>
  BY DEF vars, heapVars, KeepHeaps
<1>2. Typed' /\ Listing' /\ Owning' /\ Caching' /\ Slots' /\ Kept' = Kept
  BY <1>1, NothingSelected DEF HeapsInv, Typed
<1>3. HeapSound'
  BY <1>1, <1>2 DEF HeapsInv, HeapSound
<1> QED BY <1>2, <1>3 DEF HeapsInv

LEMMA NextKeepsInv ==
  ASSUME OnePool, RequestsFit, OneWayOut, HeapsInv, Next
  PROVE  HeapsInv'
<1>1. CASE \E size \in Sizes : malloc(size) \/ \E align \in Aligns : posix_memalign(align, size)
  BY <1>1, MallocAllocates, AllocationKeepsInv
<1>2. CASE \E size \in Sizes, p \in DOMAIN live : realloc(p, size)
  BY <1>2, ResizeKeepsInv
<1>3. CASE \E size \in Sizes, sdi \in Listed :
             sdrad_malloc(sdi, size) \/ \E align \in Aligns : sdrad_memalign(sdi, align, size)
  BY <1>3, DomainMallocAllocates, AllocationKeepsInv
<1>4. CASE \E size \in Sizes, p \in DOMAIN live, sdi \in Listed : sdrad_realloc(sdi, p, size)
  BY <1>4, ResizeKeepsInv
<1>5. CASE \E p \in DOMAIN live : free(p)
  BY <1>5, FreeKeepsInv
<1>6. CASE \E p \in DOMAIN live : sdrad_free(p)
  BY <1>6, DomainFreeKeepsInv
<1>7. CASE \E kind \in Kinds : sdrad_init(kind)
  BY <1>7, InitKeepsInv
<1>8. CASE \E sdi \in Listed : sdrad_enter(sdi)
  BY <1>8, EnterKeepsInv
<1>9. CASE \E sdi \in Listed, options \in Options : sdrad_destroy(sdi, options)
  BY <1>9, DestroyKeepsInv
<1>10. CASE sdrad_exit
  BY <1>10, ExitKeepsInv
<1>11. CASE sdrad_init_destroy
  BY <1>11, RewindKeepsInv
<1> QED BY <1>1, <1>2, <1>3, <1>4, <1>5, <1>6, <1>7, <1>8, <1>9, <1>10, <1>11 DEF Next

(* The invariant: every heap is in order, the heaps lie apart, what the      *)
(* application and the monitor hold are used blocks of heaps that serve, and *)
(* no two domains, nor a domain and the cache, share a heap.                 *)
THEOREM HeapsInvariance ==
  ASSUME OnePool, RequestsFit, OneWayOut
  PROVE  Spec => []HeapsInv
<1>1. Init => HeapsInv
  BY StartIsSound
<1>2. HeapsInv /\ [Next]_vars => HeapsInv'
  BY NextKeepsInv, StutterKeepsInv
<1> QED BY <1>1, <1>2, PTL DEF Spec

-----------------------------------------------------------------------------
(* What the invariant says of the heaps in use *)

LEMMA HeapsInUse ==
  ASSUME HeapsInv, NEW c \in InUse
  PROVE  /\ c \in DOMAIN Ext(region) /\ c \in DOMAIN mem.tlsf
         /\ c = 1 \/ (c # 1 /\ Serves(c) /\ Ext(region)[c] = region[c].size)
         /\ Between(mem, Ext(region), {}, {})
<1>1. /\ smd_tlsf = 1 /\ RegionsIn(region, brk) /\ Between(mem, Ext(region), {}, {})
  BY DEF HeapsInv, Typed, HeapSound, Sound, Valid
<1>2. c = 1 \/ Serves(c)
  BY <1>1 DEF InUse, HeapsInv, Owning, Domains
<1>3. c \in DOMAIN Ext(region) /\ (c # 1 => Serves(c) /\ Ext(region)[c] = region[c].size)
  <2>1. CASE c = 1
    BY <1>1, <2>1, MonitorExt
  <2>2. CASE c # 1
    BY <1>1, <1>2, <2>2, ExtFacts DEF Serves
  <2> QED BY <2>1, <2>2
<1>4. DOMAIN mem.tlsf = DOMAIN Ext(region)
  BY <1>1 DEF Between, Memory
<1> QED BY <1>1, <1>3, <1>4

(* A block in a list of a heap is a free one of its memory. *)
LEMMA ListedFree ==
  ASSUME HeapsInv, NEW c \in InUse, NEW b \in FreeBlocks(c)
  PROVE  /\ b \in DOMAIN mem.blk /\ mem.blk[b].free /\ In(Ext(region), c, b)
         /\ \E fl \in FL, sl \in SL : /\ mapping_insert(mem.blk[b].size) = [fl |-> fl, sl |-> sl]
                                      /\ mem.tlsf[c].blocks[fl][sl] # <<>>
<1>1. PICK fl \in FL, sl \in SL : b \in ToSet(mem.tlsf[c].blocks[fl][sl])
  BY DEF FreeBlocks, FL, SL
<1>2. c \in DOMAIN Ext(region) /\ ListsOK(mem.blk, mem.tlsf, Ext(region), {})
  BY HeapsInUse DEF Between
<1>3. b \in Belong(mem.blk, Ext(region), {}, c, fl, sl)
  BY <1>1, <1>2 DEF ListsOK
<1>4. mem.tlsf[c].blocks[fl][sl] # <<>>
  <2>1. ToSet(<<>>) = {}
    BY DEF ToSet
  <2> QED BY <1>1, <2>1
<1> QED BY <1>3, <1>4 DEF Belong

(* No assertion of tlsf.c ever fails: the library does not call abort().     *)
THEOREM AssertionsHold ==
  ASSUME OnePool, RequestsFit, OneWayOut
  PROVE  Spec => []AssertsHold
<1>1. HeapsInv => AssertsHold
  BY DEF HeapsInv, HeapSound, Sound, Valid, AssertsHold
<1> QED BY <1>1, HeapsInvariance, PTL

(* The headers are what tlsf.c's fields can hold, a block's previous one is  *)
(* a block, and every heap that a call may be given has a control.           *)
THEOREM HeapsTypeCorrect ==
  ASSUME OnePool, RequestsFit, OneWayOut
  PROVE  Spec => []TypeOK
<1>1. HeapsInv => TypeOK
  <2> SUFFICES ASSUME HeapsInv PROVE TypeOK
    OBVIOUS
  <2>1. Between(mem, Ext(region), {}, {}) /\ LiveIn(live, region, mem.blk) /\ Typed /\ Listing
    BY DEF HeapsInv, HeapSound, Sound, Valid
  <2>2. ASSUME NEW b \in DOMAIN mem.blk
        PROVE  mem.blk[b] \in [size : Nat, free : BOOLEAN, prev_free : BOOLEAN,
                               prev_phys : DOMAIN mem.blk \cup {NO_BLOCK}]
    <3>1. mem.blk[b] \in HeaderType
      BY <2>1 DEF Between, Memory
    <3>2. mem.blk[b].prev_phys \in DOMAIN mem.blk \cup {NO_BLOCK}
      <4> DEFINE h == mem.blk
      <4>1. Linked(h) /\ b \in DOMAIN h
        BY <2>1 DEF Between
      <4> HIDE DEF h
      <4>2. h[b].prev_phys \in DOMAIN h \/ h[b].prev_phys = NO_BLOCK
        BY <4>1 DEF Linked
      <4> QED BY <4>2 DEF h
    <3> QED BY <3>1, <3>2 DEF HeaderType
  <2>3. InUse \subseteq DOMAIN mem.tlsf
    BY HeapsInUse
  <2>4. status \subseteq Slot /\ active_domain \in status /\ ctl \in {"app", "fault", "corrupt"}
    BY <2>1 DEF Typed, Listing, Domains
  <2>5. \A p \in DOMAIN live : live[p].asked \in Sizes
    BY <2>1 DEF LiveIn
  <2> QED BY <2>2, <2>3, <2>4, <2>5 DEF TypeOK
<1> QED BY <1>1, HeapsInvariance, PTL

(* A heap only ever hands out its own memory.                                *)
THEOREM HeapsStayApart ==
  ASSUME OnePool, RequestsFit, OneWayOut
  PROVE  Spec => []HeapsApart
<1>1. HeapsInv => HeapsApart
  <2> SUFFICES ASSUME HeapsInv, NEW c \in InUse, NEW b \in FreeBlocks(c)
               PROVE  b + 1 .. b + 1 + mem.blk[b].size \subseteq OwnWords(c)
    BY DEF HeapsApart
  <2> DEFINE h == mem.blk
             ext == Ext(region)
  <2>1. b \in DOMAIN h /\ h[b].free /\ In(ext, c, b)
    BY ListedFree
  <2>2. c \in DOMAIN ext /\ (c = 1 \/ (c # 1 /\ Serves(c) /\ ext[c] = region[c].size))
    BY HeapsInUse
  <2>3. /\ Placed(h, ext) /\ Tiled(h) /\ DOMAIN h \subseteq Nat \ {0} /\ h \in [DOMAIN h -> HeaderType]
        /\ Layout(ext) /\ smd_tlsf = 1 /\ RegionsIn(region, brk)
    <3>1. Between(mem, ext, {}, {}) /\ RegionsIn(region, brk) /\ smd_tlsf = 1
      BY DEF HeapsInv, HeapSound, Sound, Valid, Typed
    <3>2. h \in [DOMAIN h -> HeaderType]
      BY <3>1 DEF Between, Memory
    <3> QED BY <3>1, <3>2 DEF Between
  <2>4. ext[1] = MonitorSize
    BY <2>3, MonitorExt
  <2> HIDE DEF h, ext
  <2>5. h[b].size # 0 /\ h[b].size \in Nat /\ b \in Nat /\ c \in Nat /\ ext[c] \in Nat
    BY <2>1, <2>2, <2>3 DEF Tiled, HeaderType, Layout
  <2>6. NextOf(h, b) + 1 < c + ext[c] /\ c <= b
    BY <2>1, <2>2, <2>3, <2>5 DEF Placed, In
  <2>7. b + 1 .. b + 1 + h[b].size \subseteq c .. c + ext[c] - 1
    BY <2>5, <2>6 DEF NextOf
  <2>8. c .. c + ext[c] - 1 \subseteq OwnWords(c)
    <3>1. CASE c = 1
      BY <2>3, <2>4, <3>1 DEF OwnWords
    <3>2. CASE c # 1
      <4>1. c \in DOMAIN region /\ region[c].heap = c /\ ext[c] = region[c].size
        BY <2>2, <3>2 DEF Serves
      <4> QED BY <2>3, <3>2, <4>1 DEF OwnWords
    <3> QED BY <3>1, <3>2
  <2> QED BY <2>7, <2>8 DEF h
<1> QED BY <1>1, HeapsInvariance, PTL

(* A request is refused only if no free block of the heap has the size of    *)
(* the list where the search starts.                                         *)
THEOREM RefusedOnlyWhenFull ==
  ASSUME OnePool, RequestsFit, OneWayOut
  PROVE  Spec => []RefusedOnlyIfFull
<1>1. HeapsInv => RefusedOnlyIfFull
  <2> SUFFICES ASSUME HeapsInv, NEW c \in InUse, NEW size \in Sizes,
                      adjust_request_size(size, 1) # 0,
                      LocateIndex(mem, c, adjust_request_size(size, 1)) = {},
                      NEW b \in FreeBlocks(c)
               PROVE  LET at  == mapping_search(adjust_request_size(size, 1))
                          has == mapping_insert(mem.blk[b].size)
                      IN  has.fl < at.fl \/ (has.fl = at.fl /\ has.sl < at.sl)
    BY DEF RefusedOnlyIfFull
  <2> DEFINE adjust == adjust_request_size(size, 1)
             at  == mapping_search(adjust)
             has == mapping_insert(mem.blk[b].size)
             t   == mem.tlsf[c]
  <2>1. PICK fl \in FL, sl \in SL : has = [fl |-> fl, sl |-> sl] /\ t.blocks[fl][sl] # <<>>
    BY ListedFree
  <2>2. c \in DOMAIN mem.tlsf /\ BitmapsOK(mem.tlsf) /\ t \in ControlType
    <3>1. c \in DOMAIN mem.tlsf /\ Between(mem, Ext(region), {}, {})
      BY HeapsInUse
    <3> QED BY <3>1 DEF Between, Memory
  <2>3. sl \in t.sl_bitmap[fl] /\ fl \in t.fl_bitmap
    BY <2>1, <2>2 DEF BitmapsOK
  <2>4. adjust \in Nat /\ adjust < block_size_max /\ adjust # 0
    <3>1. size \in Nat
      BY HeapsAssumption
    <3> QED BY <3>1, AdjustedSize
  <2>5. LocateIndex(mem, c, adjust) = {}
    OBVIOUS
  <2> HIDE DEF adjust, has, t
  <2>6. at.fl \in Nat /\ at.sl \in SL
    BY <2>4, SearchInRange
  <2>7. FL \subseteq Nat /\ SL \subseteq Nat /\ \A i \in FL : i < FL_INDEX_COUNT
    BY Numbers DEF FL, SL
  <2> HIDE DEF at
  <2>8. CASE at.fl >= FL_INDEX_COUNT
    BY <2>1, <2>6, <2>7, <2>8, Numbers DEF at, has, adjust
  <2>9. CASE ~(at.fl >= FL_INDEX_COUNT)
    <3>1. search_suitable_block(mem, c, at) = {}
      BY <2>4, <2>5, <2>9 DEF LocateIndex, at
    <3>2. ~\E i \in t.sl_bitmap[at.fl] : i >= at.sl
      BY <3>1 DEF search_suitable_block, t
    <3>3. ~\E i \in t.fl_bitmap : i > at.fl
      BY <3>1 DEF search_suitable_block, t
    <3>4. ~(fl > at.fl) /\ ~(fl = at.fl /\ sl >= at.sl)
      BY <2>3, <3>2, <3>3
    <3>5. has.fl < at.fl \/ (has.fl = at.fl /\ has.sl < at.sl)
      BY <2>1, <2>6, <2>7, <3>4
    <3> QED BY <3>5 DEF at, has, adjust
  <2> QED BY <2>8, <2>9
<1> QED BY <1>1, HeapsInvariance, PTL

-----------------------------------------------------------------------------
(* What the users of the heaps are promised: HeapSpec *)

ArenaOf(reg)   == [a \in {x \in DOMAIN reg : reg[x].heap # NULL} |-> reg[a]]
SizeOf(h, p)   == h[block_from_ptr(p)].size
WordsOf(h, p)  == Alloc!Words(p, SizeOf(h, p))

(* The regions lie apart, and those that serve a heap are arenas. *)
ArenasServe(A, reg) ==
  /\ DOMAIN A = {a \in DOMAIN reg : reg[a].heap = a}
  /\ \A a \in DOMAIN A : A[a] = reg[a] /\ A[a].heap = a /\ a # NULL
  /\ \A a, b \in DOMAIN reg :
       a # b => Alloc!Words(a, reg[a].size) \cap Alloc!Words(b, reg[b].size) = {}

LEMMA ArenaFacts ==
  ASSUME NEW reg, NEW end, RegionsIn(reg, end), Layout(Ext(reg))
  PROVE  ArenasServe(ArenaOf(reg), reg)
<1>1. \A a \in DOMAIN reg : /\ a \in Nat \ {0} /\ reg[a].size \in Nat
                            /\ reg[a].heap # NULL <=> reg[a].heap = a
  BY HeapsAssumption DEF RegionsIn, NULL
<1>2. /\ DOMAIN ArenaOf(reg) = {a \in DOMAIN reg : reg[a].heap = a}
      /\ \A a \in DOMAIN ArenaOf(reg) : ArenaOf(reg)[a] = reg[a]
  BY <1>1 DEF ArenaOf
<1>3. ASSUME NEW a \in DOMAIN reg, NEW b \in DOMAIN reg, a # b
      PROVE  Alloc!Words(a, reg[a].size) \cap Alloc!Words(b, reg[b].size) = {}
  <2>1. /\ a \in DOMAIN Ext(reg) /\ b \in DOMAIN Ext(reg)
        /\ Ext(reg)[a] = reg[a].size /\ Ext(reg)[b] = reg[b].size
    BY ExtFacts
  <2>2. a + reg[a].size <= b \/ b + reg[b].size <= a
    BY <1>3, <2>1 DEF Layout
  <2> QED BY <1>1, <2>2 DEF Alloc!Words
<1> DEFINE A == ArenaOf(reg)
<1>4. DOMAIN A = {a \in DOMAIN reg : reg[a].heap = a} /\ \A a \in DOMAIN A : A[a] = reg[a]
  BY <1>2
<1> HIDE DEF A
<1>5. ArenasServe(A, reg)
  BY <1>1, <1>3, <1>4 DEF ArenasServe, NULL
<1> QED BY <1>5 DEF A

(* A chunk lies in the region of its block. *)
LEMMA ChunkPlaced ==
  ASSUME NEW m, NEW reg, NEW end, NEW l, NEW K, Sound(m, reg, end, l, K), NEW p \in DOMAIN l,
         NEW c \in DOMAIN reg, Within(reg, c, block_from_ptr(p))
  PROVE  /\ p \in Nat /\ SizeOf(m.blk, p) \in Nat /\ SizeOf(m.blk, p) >= 3
         /\ SizeOf(m.blk, p) >= l[p].asked
         /\ p \in WordsOf(m.blk, p)
         /\ WordsOf(m.blk, p) \subseteq Alloc!Words(c, reg[c].size)
<1> DEFINE b == block_from_ptr(p)
           h == m.blk
<1>1. /\ RegionsIn(reg, end) /\ LiveIn(l, reg, h)
      /\ Between(m, Ext(reg), {}, {}) /\ Placed(h, Ext(reg))
  BY DEF Sound, Valid, Between
<1>2. p \in Nat /\ Used(h, b) /\ b = p - 2 /\ h[b].size >= l[p].asked
  BY <1>1, PointerFacts DEF LiveIn
<1>3. /\ b \in Nat \ {0} /\ h[b].size \in Nat /\ NextOf(h, b) = b + h[b].size + 1
      /\ h[b].size >= 3
  BY <1>1, <1>2, BlockParts DEF Used, block_size_min
<1>4. NextOf(h, b) + 1 < c + reg[c].size
  <2>1. c \in DOMAIN Ext(reg) /\ Ext(reg)[c] = reg[c].size /\ In(Ext(reg), c, b)
    BY <1>1, ExtFacts
  <2> QED BY <1>1, <1>2, <2>1 DEF Placed, Used
<1>5. c <= b /\ c \in Nat /\ reg[c].size \in Nat
  BY <1>1 DEF Within, RegionsIn
<1> HIDE DEF b, h
<1>6. /\ p \in Alloc!Words(p, h[b].size)
      /\ Alloc!Words(p, h[b].size) \subseteq Alloc!Words(c, reg[c].size)
  BY <1>2, <1>3, <1>4, <1>5 DEF Alloc!Words
<1> QED BY <1>2, <1>3, <1>6 DEF b, h, SizeOf, WordsOf

(* Two chunks have no word in common. *)
LEMMA ChunksApart ==
  ASSUME NEW m, NEW reg, NEW end, NEW l, NEW K, Sound(m, reg, end, l, K),
         NEW p \in DOMAIN l, NEW q \in DOMAIN l, p # q
  PROVE  WordsOf(m.blk, p) \cap WordsOf(m.blk, q) = {}
<1> DEFINE b == block_from_ptr(p)
           d == block_from_ptr(q)
           h == m.blk
<1>1. LiveIn(l, reg, h) /\ Between(m, Ext(reg), {}, {}) /\ Tiled(h)
  BY DEF Sound, Valid, Between
<1>2. /\ p \in Nat /\ Used(h, b) /\ b = p - 2 /\ q \in Nat /\ Used(h, d) /\ d = q - 2
  BY <1>1, PointerFacts DEF LiveIn
<1>3. /\ b \in Nat \ {0} /\ h[b].size \in Nat /\ NextOf(h, b) = b + h[b].size + 1
      /\ d \in Nat \ {0} /\ h[d].size \in Nat /\ NextOf(h, d) = d + h[d].size + 1
  BY <1>1, <1>2, BlockParts DEF Used
<1>4. (d <= b \/ d >= NextOf(h, b)) /\ (b <= d \/ b >= NextOf(h, d))
  BY <1>1, <1>2 DEF Tiled, Used
<1> HIDE DEF b, d, h
<1>5. d >= b + h[b].size + 1 \/ b >= d + h[d].size + 1
  BY <1>2, <1>3, <1>4
<1>6. Alloc!Words(p, h[b].size) \cap Alloc!Words(q, h[d].size) = {}
  BY <1>2, <1>3, <1>5 DEF Alloc!Words
<1> QED BY <1>6 DEF b, d, h, SizeOf, WordsOf

(* A chunk is in one arena. *)
InOneArena(reg, p, size, c) ==
  \A heap : Alloc!InArena(ArenaOf(reg), p, size, heap) <=> heap = c

LEMMA InItsArena ==
  ASSUME NEW m, NEW reg, NEW end, NEW l, NEW K, Sound(m, reg, end, l, K), NEW p \in DOMAIN l,
         NEW c \in DOMAIN reg, reg[c].heap = c, Within(reg, c, block_from_ptr(p))
  PROVE  InOneArena(reg, p, SizeOf(m.blk, p), c)
<1> DEFINE A == ArenaOf(reg)
<1>1. RegionsIn(reg, end) /\ Layout(Ext(reg))
  BY DEF Sound, Valid, Between
<1>2. ArenasServe(A, reg)
  BY <1>1, ArenaFacts
<1>3. /\ p \in Alloc!Words(p, SizeOf(m.blk, p))
      /\ Alloc!Words(p, SizeOf(m.blk, p)) \subseteq Alloc!Words(c, reg[c].size)
  BY ChunkPlaced DEF WordsOf
<1> HIDE DEF A
<1>4. ASSUME NEW heap, Alloc!InArena(A, p, SizeOf(m.blk, p), heap) PROVE heap = c
  BY <1>2, <1>3, <1>4 DEF Alloc!InArena, ArenasServe
<1>5. Alloc!InArena(A, p, SizeOf(m.blk, p), c)
  BY <1>2, <1>3 DEF Alloc!InArena, ArenasServe
<1> QED BY <1>4, <1>5 DEF A, InOneArena

-----------------------------------------------------------------------------
(* Steps of the heaps as steps of HeapSpec *)

LEMMA ArenaChunk ==
  /\ Arena = ArenaOf(region) /\ Arena' = ArenaOf(region')
  /\ DOMAIN Chunk = DOMAIN live /\ DOMAIN Chunk' = DOMAIN live'
  /\ \A p \in DOMAIN live :
       Chunk[p] = [asked |-> live[p].asked, align |-> live[p].align, size |-> SizeOf(mem.blk, p)]
  /\ \A p \in DOMAIN live' :
       Chunk'[p] = [asked |-> live'[p].asked, align |-> live'[p].align, size |-> SizeOf(mem'.blk, p)]
BY DEF Arena, ArenaOf, Chunk, SizeOf

(* Chunks that keep their record and their size. *)
LEMMA SameChunk ==
  ASSUME NEW p \in DOMAIN live, p \in DOMAIN live', live'[p] = live[p],
         SizeOf(mem'.blk, p) = SizeOf(mem.blk, p)
  PROVE  Chunk'[p] = Chunk[p]
BY ArenaChunk

LEMMA ChunksAreFunctions ==
  /\ Chunk = [p \in DOMAIN Chunk |-> Chunk[p]] /\ Chunk' = [p \in DOMAIN Chunk' |-> Chunk'[p]]
  /\ Arena = [a \in DOMAIN Arena |-> Arena[a]] /\ Arena' = [a \in DOMAIN Arena' |-> Arena'[a]]
BY DEF Chunk, Arena

LEMMA Granting ==
  ASSUME HeapSound, HeapSound', Growing
  PROVE  Alloc!Grow
<1>1. RegionsIn(region, brk) /\ Layout(Ext(region)) /\ RegionsIn(region', brk') /\ Layout(Ext(region'))
  BY DEF HeapSound, Sound, Valid, Between
<1>20. ArenasServe(ArenaOf(region), region) /\ ArenasServe(ArenaOf(region'), region')
  BY <1>1, ArenaFacts
<1>2. ArenasServe(Arena, region)
  BY <1>20, ArenaChunk
<1>3. ArenasServe(Arena', region')
  BY <1>20, ArenaChunk
<1>4. \A a \in DOMAIN Arena : a \in DOMAIN region' /\ region'[a] = region[a]
  BY <1>2 DEF Growing, Serves, ArenasServe
<1>5. DOMAIN Arena \subseteq DOMAIN Arena' /\ \A a \in DOMAIN Arena : Arena'[a] = Arena[a]
  BY <1>2, <1>3, <1>4 DEF ArenasServe
<1>6. ASSUME NEW a \in DOMAIN Arena', NEW b \in DOMAIN Arena', a # b
      PROVE  Alloc!Words(a, Arena'[a].size) \cap Alloc!Words(b, Arena'[b].size) = {}
  <2>1. Arena'[a] = region'[a] /\ Arena'[b] = region'[b] /\ a \in DOMAIN region' /\ b \in DOMAIN region'
    BY <1>3 DEF ArenasServe
  <2> QED BY <1>3, <1>6, <2>1 DEF ArenasServe
<1> QED BY <1>5, <1>6 DEF Alloc!Grow

(* The application is given nothing and loses nothing. *)
LEMMA NothingGiven ==
  ASSUME HeapSound, HeapSound', Growing, DOMAIN live' = DOMAIN live,
         \A p \in DOMAIN live : live'[p] = live[p], SameSizes(live, mem.blk, mem'.blk)
  PROVE  Alloc!Next
<1>1. \A p \in DOMAIN live : Chunk'[p] = Chunk[p]
  BY SameChunk DEF SameSizes, SizeOf
<1>2. Chunk' = Chunk
  BY <1>1, ArenaChunk, ChunksAreFunctions
<1> QED BY <1>2, Granting DEF Alloc!Next

LEMMA NothingTouched ==
  ASSUME UNCHANGED <<mem, region, live>>
  PROVE  UNCHANGED <<Arena, Chunk>>
BY DEF Arena, Chunk

(* The application gives one chunk back. *)
LEMMA OneFreed ==
  ASSUME HeapSound, HeapSound', region' = region, NEW p \in DOMAIN live, live' = Drop({p}),
         SameSizes(live', mem.blk, mem'.blk)
  PROVE  Alloc!Next
<1>1. /\ DOMAIN live' = DOMAIN live \ {p} /\ \A q \in DOMAIN live' : live'[q] = live[q]
  BY DEF Drop, Restrict
<1>2. \A q \in DOMAIN live' : Chunk'[q] = Chunk[q]
  BY <1>1, SameChunk DEF SameSizes, SizeOf
<1>3. Chunk' = Alloc!Without(Chunk, {p})
  <2>1. DOMAIN Chunk' = DOMAIN Chunk \ {p}
    BY <1>1, ArenaChunk
  <2> QED BY <1>1, <1>2, <2>1, ArenaChunk, ChunksAreFunctions DEF Alloc!Without
<1>4. Growing
  BY DEF Growing, Serves
<1>5. Alloc!Free
  BY <1>3, <1>4, Granting, ArenaChunk DEF Alloc!Free
<1> QED BY <1>5 DEF Alloc!Next

(* A request for nothing is given nothing. *)
LEMMA NothingForNothing ==
  ASSUME NEW m, NEW c, NEW align, NEW p
  PROVE  /\ tlsf_malloc(m, c, 0).ptr = NULL
         /\ tlsf_memalign(m, c, align, 0).ptr = NULL
         /\ tlsf_realloc(m, c, p, 0).ptr = NULL
<1>1. adjust_request_size(0, 1) = 0
  BY DEF adjust_request_size
<1>2. LocatedBlock(m, c, 0) = NO_BLOCK
  BY DEF LocatedBlock, LocateIndex
<1>3. AlignedRequest(0, align) = 0
  BY DEF AlignedRequest
<1>4. tlsf_malloc(m, c, 0).ptr = NULL
  BY <1>1, <1>2 DEF tlsf_malloc, Returns, UserPtr, NULL, NO_BLOCK
<1>5. tlsf_memalign(m, c, align, 0).ptr = NULL
  BY <1>1, <1>2, <1>3 DEF tlsf_memalign, Returns, UserPtr, NULL, NO_BLOCK
<1>6. tlsf_realloc(m, c, p, 0).ptr = NULL
  <2>1. CASE p = NO_BLOCK
    BY <1>4, <2>1 DEF tlsf_realloc
  <2>2. CASE p # NO_BLOCK
    <3> DEFINE m1 == tlsf_assert(m, ~m.blk[block_from_ptr(p)].free /\ m.blk[block_from_ptr(p)].size # 0)
    <3>1. tlsf_realloc(m, c, p, 0) = IF m1.abort THEN Returns(m1, NO_BLOCK)
                                    ELSE Returns(tlsf_free(m, c, p), NO_BLOCK)
      BY <2>2 DEF tlsf_realloc
    <3> HIDE DEF m1
    <3> QED BY <3>1 DEF Returns, NULL, NO_BLOCK
  <2> QED BY <2>1, <2>2
<1> QED BY <1>4, <1>5, <1>6

LEMMA MultipleModulo ==
  ASSUME NEW x \in Nat, NEW align \in Nat \ {0}, IsMultiple(x, align)
  PROVE  x % align = 0
<1>1. PICK q \in Nat : x = q * align
  BY DEF IsMultiple
<1> DEFINE d == x \div align
           y == x % align
<1>2. d \in Int /\ y \in Nat /\ y < align /\ x = align * d + y
  OBVIOUS
<1> HIDE DEF d, y
<1>3. CASE q > d
  <2>1. align * (d + 1) <= align * q
    BY <1>2, <1>3, ProductMonotonic
  <2>2. align * (d + 1) = align * d + align /\ align * q = x
    BY <1>1, <1>2
  <2> QED BY <1>2, <2>1, <2>2
<1>4. CASE q <= d
  <2>1. align * q <= align * d
    BY <1>2, <1>4, ProductMonotonic
  <2>2. align * q = x /\ align * q \in Int /\ align * d \in Int
    BY <1>1, <1>2
  <2>3. y = 0
    BY <1>2, <2>1, <2>2
  <2> QED BY <2>3 DEF y
<1> QED BY <1>1, <1>2, <1>3, <1>4

(* What an allocation answers is aligned, and is NULL if nothing was asked for. *)
LEMMA AnswerAligned ==
  ASSUME NEW m, NEW ext, Valid(m, ext), NEW c \in DOMAIN ext, NEW size \in Nat, NEW align, NEW r,
         \/ align = 1 /\ r = tlsf_malloc(m, c, size)
         \/ align \in Nat \ {0} /\ r = tlsf_memalign(m, c, align, size),
         r.ptr # NULL, r.ptr \in Nat
  PROVE  size > 0 /\ r.ptr % align = 0
<1>1. size # 0
  BY NothingForNothing
<1>2. CASE align = 1 /\ r = tlsf_malloc(m, c, size)
  BY <1>1, <1>2
<1>3. CASE align \in Nat \ {0} /\ r = tlsf_memalign(m, c, align, size)
  <2>1. IsMultiple(r.ptr, align)
    BY <1>3, MemalignIsSound DEF NULL, NO_BLOCK
  <2> QED BY <1>1, <1>3, <2>1, MultipleModulo
<1> QED BY <1>2, <1>3

(* The application is given a chunk at p, which was nobody's. *)
LEMMA OneGiven ==
  ASSUME HeapSound, HeapSound', Growing, SameSizes(live, mem.blk, mem'.blk),
         NEW p \in Nat, p \notin DOMAIN live, NEW size \in Nat, size > 0, NEW align, p % align = 0,
         live' = With(live, p, [asked |-> size, align |-> align]),
         NEW c \in DOMAIN region', region'[c].heap = c, Within(region', c, block_from_ptr(p))
  PROVE  Alloc!Next
<1>1. Sound(mem', region', brk', live', Kept')
  BY DEF HeapSound
<1>2. /\ DOMAIN live' = DOMAIN live \cup {p} /\ live'[p] = [asked |-> size, align |-> align]
      /\ \A q \in DOMAIN live : live'[q] = live[q]
  BY DEF With
<1>3. \A q \in DOMAIN live : Chunk'[q] = Chunk[q] /\ SizeOf(mem'.blk, q) = SizeOf(mem.blk, q)
  BY <1>2, SameChunk DEF SameSizes, SizeOf
<1>4. Chunk'[p] = [asked |-> size, align |-> align, size |-> SizeOf(mem'.blk, p)]
  BY <1>2, ArenaChunk
<1>5. /\ SizeOf(mem'.blk, p) >= size
      /\ \A heap : Alloc!InArena(Arena', p, SizeOf(mem'.blk, p), heap) <=> heap = c
  <2>1. p \in DOMAIN live' /\ live'[p].asked = size
    BY <1>2
  <2>2. SizeOf(mem'.blk, p) >= live'[p].asked
    BY <1>1, <2>1, ChunkPlaced
  <2>3. ASSUME NEW heap
        PROVE  Alloc!InArena(ArenaOf(region'), p, SizeOf(mem'.blk, p), heap) <=> heap = c
    <3> DEFINE m == mem'
               reg == region'
               l == live'
               end == brk'
               K == Kept'
    <3>1. /\ Sound(m, reg, end, l, K) /\ p \in DOMAIN l
          /\ c \in DOMAIN reg /\ reg[c].heap = c /\ Within(reg, c, block_from_ptr(p))
      BY <1>1, <2>1
    <3> HIDE DEF m, reg, l, end, K
    <3>2. InOneArena(reg, p, SizeOf(m.blk, p), c)
      BY <3>1, InItsArena
    <3> QED BY <3>2 DEF m, reg, InOneArena
  <2>4. Arena' = ArenaOf(region')
    BY ArenaChunk
  <2> QED BY <2>1, <2>2, <2>3, <2>4
<1>6. \A q \in DOMAIN Chunk : Alloc!Words(p, Chunk'[p].size) \cap Alloc!Words(q, Chunk[q].size) = {}
  <2> SUFFICES ASSUME NEW q \in DOMAIN live
               PROVE  Alloc!Words(p, Chunk'[p].size) \cap Alloc!Words(q, Chunk[q].size) = {}
    BY ArenaChunk
  <2>1. WordsOf(mem'.blk, p) \cap WordsOf(mem'.blk, q) = {}
    BY <1>1, <1>2, ChunksApart
  <2> QED BY <1>3, <1>4, <2>1, ArenaChunk DEF WordsOf
<1>7. Alloc!Granted(p, Chunk'[p], DOMAIN Chunk)
  BY <1>4, <1>5, <1>6 DEF Alloc!Granted
<1>8. Alloc!Without(Chunk', {p}) = Chunk
  <2>1. DOMAIN Chunk' \ {p} = DOMAIN Chunk
    BY <1>2, ArenaChunk
  <2> QED BY <1>3, <2>1, ArenaChunk, ChunksAreFunctions DEF Alloc!Without
<1>9. p \in DOMAIN Chunk' \ DOMAIN Chunk
  BY <1>2, ArenaChunk
<1>10. Alloc!Allocate(c)
  <2>1. Alloc!InArena(Arena', p, Chunk'[p].size, c)
    BY <1>4, <1>5
  <2>2. Alloc!Grow
    BY Granting
  <2> QED BY <1>7, <1>8, <1>9, <2>1, <2>2 DEF Alloc!Allocate
<1>11. c \in Alloc!Heaps'
  <2>1. RegionsIn(region', brk') /\ Layout(Ext(region'))
    BY <1>1 DEF Sound, Valid, Between
  <2>2. c \in DOMAIN ArenaOf(region') /\ ArenaOf(region')[c].heap = c
    BY <2>1, ArenaFacts DEF ArenasServe
  <2>3. Arena' = ArenaOf(region')
    BY ArenaChunk
  <2> QED BY <2>2, <2>3 DEF Alloc!Heaps
<1> QED BY <1>10, <1>11 DEF Alloc!Next

LEMMA AllocationRefines ==
  ASSUME OnePool, HeapsInv, HeapsInv', NEW m, NEW c, NEW s \in Domains, NEW size \in Sizes,
         NEW align, NEW r, Allocates(m, c, s, size, align, r)
  PROVE  Alloc!Next
<1>1. /\ Asked(m, c) /\ Allocated(m, r, Ext(region'), c, size) /\ HeapSound /\ HeapSound'
      /\ mem' = r.mem /\ live' = Hold(r.ptr, size, align, live)
  BY CallAnswered DEF HeapsInv, Allocates
<1>2. /\ Growing /\ c \in DOMAIN region' /\ region'[c].heap = c /\ r.ptr \in Nat
      /\ Sound(m, region', brk', live, Kept) /\ SameSizes(live, mem.blk, m.blk)
  BY <1>1 DEF Asked, Growing, Serves, Allocated
<1>3. /\ RegionsIn(region', brk') /\ Valid(m, Ext(region')) /\ LiveIn(live, region', m.blk)
  BY <1>2 DEF Sound
<1>4. CASE r.ptr = NULL
  <2>1. mem' = m /\ live' = live
    BY <1>1, <1>4 DEF Allocated, NULL, NO_BLOCK, Hold
  <2> QED BY <1>1, <1>2, <2>1, NothingGiven
<1>5. CASE r.ptr # NULL
  <2> DEFINE p == r.ptr
  <2>1. /\ Intact(m.blk, mem'.blk, {}) /\ ~Used(m.blk, block_from_ptr(p))
        /\ In(Ext(region'), c, block_from_ptr(p))
    BY <1>1, <1>5 DEF Allocated, NULL, NO_BLOCK
  <2>2. SameSizes(live, mem.blk, mem'.blk)
    <3>1. SameSizes(live, m.blk, mem'.blk)
      BY <1>3, <2>1, IntactSizes
    <3> QED BY <1>2, <3>1 DEF SameSizes
  <2>3. p \notin DOMAIN live
    BY <1>3, <2>1 DEF LiveIn
  <2>4. Within(region', c, block_from_ptr(p)) /\ c \in DOMAIN Ext(region')
    BY <1>2, <1>3, <2>1, ExtFacts
  <2>5. size \in Nat /\ size > 0 /\ p % align = 0
    <3>1. size \in Nat
      BY HeapsAssumption
    <3>2. \/ align = 1 /\ r = tlsf_malloc(m, c, size)
          \/ align \in Nat \ {0} /\ r = tlsf_memalign(m, c, align, size)
      BY DEF Allocates
    <3> QED BY <1>2, <1>3, <1>5, <2>4, <3>1, <3>2, AnswerAligned
  <2>6. live' = With(live, p, [asked |-> size, align |-> align]) /\ p \in Nat
    BY <1>1, <1>2, <1>5 DEF Hold
  <2> QED BY <1>1, <1>2, <2>2, <2>3, <2>4, <2>5, <2>6, OneGiven
<1> QED BY <1>4, <1>5

(* The application gives p back for q, with another size. *)
LEMMA OneResized ==
  ASSUME HeapSound, HeapSound', region' = region, NEW p \in DOMAIN live,
         NEW q \in Nat, q = p \/ q \notin DOMAIN live, NEW size \in Nat, size > 0,
         live' = With(Drop({p}), q, [asked |-> size, align |-> 1]),
         SameSizes(Drop({p}), mem.blk, mem'.blk),
         NEW c \in DOMAIN region, region[c].heap = c,
         Within(region, c, block_from_ptr(p)), Within(region, c, block_from_ptr(q))
  PROVE  Alloc!Next
<1>1. /\ Sound(mem, region, brk, live, Kept) /\ Sound(mem', region, brk', live', Kept')
      /\ RegionsIn(region, brk) /\ Layout(Ext(region))
  BY DEF HeapSound, Sound, Valid, Between
<1>2. /\ DOMAIN live' = (DOMAIN live \ {p}) \cup {q} /\ live'[q] = [asked |-> size, align |-> 1]
      /\ \A x \in DOMAIN live \ {p} : x # q /\ live'[x] = live[x]
  BY DEF With, Drop, Restrict
<1>3. \A x \in DOMAIN live \ {p} : Chunk'[x] = Chunk[x] /\ SizeOf(mem'.blk, x) = SizeOf(mem.blk, x)
  <2>1. DOMAIN Drop({p}) = DOMAIN live \ {p}
    BY DEF Drop, Restrict
  <2> QED BY <1>2, <2>1, SameChunk DEF SameSizes, SizeOf
<1>4. Chunk'[q] = [asked |-> size, align |-> 1, size |-> SizeOf(mem'.blk, q)]
  <2>1. q \in DOMAIN live' /\ live'[q].asked = size /\ live'[q].align = 1
    BY <1>2
  <2>2. Chunk'[q] = [asked |-> live'[q].asked, align |-> live'[q].align, size |-> SizeOf(mem'.blk, q)]
    BY <2>1, ArenaChunk
  <2> QED BY <2>1, <2>2
<1>5. Arena' = Arena /\ Arena = ArenaOf(region)
  BY ArenaChunk
<1>6. SizeOf(mem'.blk, q) >= size /\ Alloc!InArena(Arena, q, Chunk'[q].size, c)
  <2> DEFINE m == mem'
             l == live'
             end == brk'
             K == Kept'
  <2>1. Sound(m, region, end, l, K) /\ q \in DOMAIN l /\ l[q].asked = size
    BY <1>1, <1>2
  <2> HIDE DEF m, l, end, K
  <2>2. SizeOf(m.blk, q) >= size
    BY <2>1, ChunkPlaced
  <2>3. InOneArena(region, q, SizeOf(m.blk, q), c)
    BY <2>1, InItsArena
  <2> QED BY <1>4, <1>5, <2>2, <2>3 DEF m, InOneArena
<1>7. p \in Alloc!ChunksOf(c)
  <2>1. Alloc!InArena(ArenaOf(region), p, SizeOf(mem.blk, p), c)
    BY <1>1, InItsArena DEF InOneArena
  <2>2. p \in DOMAIN Chunk /\ Chunk[p].size = SizeOf(mem.blk, p)
    BY ArenaChunk
  <2> QED BY <1>5, <2>1, <2>2 DEF Alloc!ChunksOf
<1>8. Alloc!Granted(q, Chunk'[q], DOMAIN Chunk \ {p})
  <2>1. \A x \in DOMAIN Chunk \ {p} : Alloc!Words(q, Chunk'[q].size) \cap Alloc!Words(x, Chunk[x].size) = {}
    <3> SUFFICES ASSUME NEW x \in DOMAIN live \ {p}
                 PROVE  Alloc!Words(q, Chunk'[q].size) \cap Alloc!Words(x, Chunk[x].size) = {}
      BY ArenaChunk
    <3>1. WordsOf(mem'.blk, q) \cap WordsOf(mem'.blk, x) = {}
      BY <1>1, <1>2, ChunksApart
    <3> QED BY <1>3, <1>4, <3>1, ArenaChunk DEF WordsOf
  <2>2. q % 1 = 0
    OBVIOUS
  <2> QED BY <1>4, <1>6, <2>1, <2>2 DEF Alloc!Granted
<1>9. Alloc!Without(Chunk', {q}) = Alloc!Without(Chunk, {p})
  <2>1. DOMAIN Chunk' \ {q} = DOMAIN Chunk \ {p}
    BY <1>2, ArenaChunk
  <2>2. \A x \in DOMAIN Chunk \ {p} : Chunk'[x] = Chunk[x]
    BY <1>3, ArenaChunk
  <2> QED BY <2>1, <2>2 DEF Alloc!Without
<1>10. q \in DOMAIN Chunk' /\ (q = p \/ q \notin DOMAIN Chunk)
  BY <1>2, ArenaChunk
<1>11. Alloc!Resize(c)
  BY <1>5, <1>6, <1>7, <1>8, <1>9, <1>10 DEF Alloc!Resize
<1>12. c \in Alloc!Heaps
  <2>1. c \in DOMAIN ArenaOf(region) /\ ArenaOf(region)[c].heap = c
    BY <1>1, ArenaFacts DEF ArenasServe
  <2> QED BY <1>5, <2>1 DEF Alloc!Heaps
<1> QED BY <1>11, <1>12 DEF Alloc!Next

LEMMA ResizeRefines ==
  ASSUME RequestsFit, HeapsInv, HeapsInv', NEW size \in Sizes, NEW p \in DOMAIN live,
         realloc(p, size) \/ \E sdi \in Listed : sdrad_realloc(sdi, p, size)
  PROVE  Alloc!Next
<1>1. PICK c : /\ HeapOf(p) = c /\ mem' = tlsf_realloc(mem, c, p, size).mem
               /\ live' = Resized(p, tlsf_realloc(mem, c, p, size), size) /\ KeepHeaps
  BY DEF realloc, sdrad_realloc
<1> DEFINE r == tlsf_realloc(mem, c, p, size)
           b == block_from_ptr(p)
<1>2. /\ HeapSound /\ HeapSound' /\ RegionsIn(region, brk) /\ LiveIn(live, region, mem.blk)
      /\ region' = region /\ Growing /\ size \in Nat
  BY <1>1, HeapsAssumption DEF HeapsInv, HeapSound, Sound, KeepHeaps, Growing, Serves
<1>3. /\ c \in DOMAIN region /\ region[c].heap = c /\ Within(region, c, b)
      /\ Reallocated(mem, r, Ext(region), c, b, size)
  BY <1>1, <1>2, ResizeAnswered
<1>4. SameSizes(Drop({p}), mem.blk, mem'.blk)
  BY ResizeKeepsInv
<1>5. size = 0 => r.ptr = NULL
  BY NothingForNothing
<1>6. mem' = r.mem /\ live' = Resized(p, r, size)
  BY <1>1
<1> HIDE DEF r
<1>7. CASE r.ptr = NULL /\ size # 0
  <2>1. mem' = mem /\ live' = live
    BY <1>3, <1>6, <1>7 DEF Reallocated, NULL, NO_BLOCK, Resized
  <2> QED BY <1>2, <2>1, NothingGiven DEF SameSizes
<1>8. CASE size = 0
  <2>1. live' = Drop({p})
    BY <1>5, <1>6, <1>8 DEF Resized, Hold
  <2> QED BY <1>2, <1>4, <2>1, OneFreed
<1>9. CASE r.ptr # NULL /\ size # 0
  <2> DEFINE q == r.ptr
  <2>1. /\ q \in Nat /\ In(Ext(region), c, block_from_ptr(q))
        /\ block_from_ptr(q) = b \/ ~Used(mem.blk, block_from_ptr(q))
    BY <1>3, <1>9 DEF Reallocated, NULL, NO_BLOCK
  <2>2. q = p \/ q \notin DOMAIN live
    BY <1>2, <2>1, PointerFacts DEF LiveIn
  <2>3. Within(region, c, block_from_ptr(q))
    BY <1>2, <1>3, <2>1, ExtFacts
  <2>4. live' = With(Drop({p}), q, [asked |-> size, align |-> 1])
    BY <1>6, <1>9 DEF Resized, Hold
  <2> QED BY <1>2, <1>3, <1>4, <1>9, <2>1, <2>2, <2>3, <2>4, OneResized
<1> QED BY <1>7, <1>8, <1>9

(* The chunks of a heap are what is held in it. *)
LEMMA HeldInHeap ==
  ASSUME HeapSound, NEW p \in DOMAIN live, NEW heap
  PROVE  Alloc!InArena(Arena, p, Chunk[p].size, heap) <=> HeapOf(p) = heap
<1>1. Sound(mem, region, brk, live, Kept)
  BY DEF HeapSound
<1>2. PICK c \in DOMAIN region : HeapOf(p) = c /\ region[c].heap = c /\ Within(region, c, block_from_ptr(p))
  BY WhereHeld
<1>3. Alloc!InArena(ArenaOf(region), p, SizeOf(mem.blk, p), heap) <=> heap = c
  <2> DEFINE m   == mem
             reg == region
             l   == live
             end == brk
             K   == Kept
  <2>1. /\ Sound(m, reg, end, l, K) /\ p \in DOMAIN l
        /\ c \in DOMAIN reg /\ reg[c].heap = c /\ Within(reg, c, block_from_ptr(p))
    BY <1>1, <1>2
  <2> HIDE DEF m, reg, l, end, K
  <2>2. InOneArena(reg, p, SizeOf(m.blk, p), c)
    BY <2>1, InItsArena
  <2> QED BY <2>2 DEF m, reg, InOneArena
<1>4. Arena = ArenaOf(region) /\ Chunk[p].size = SizeOf(mem.blk, p)
  BY ArenaChunk
<1> QED BY <1>2, <1>3, <1>4

LEMMA DiscardedChunks ==
  ASSUME HeapSound, NEW h, DOMAIN live' = {p \in DOMAIN live : HeapOf(p) # h},
         \A p \in DOMAIN live' : Chunk'[p] = Chunk[p]
  PROVE  Chunk' = Alloc!Without(Chunk, Alloc!ChunksOf(h))
<1>1. Alloc!ChunksOf(h) = {p \in DOMAIN live : HeapOf(p) = h}
  <2>1. Alloc!ChunksOf(h) = {p \in DOMAIN live : Alloc!InArena(Arena, p, Chunk[p].size, h)}
    BY ArenaChunk DEF Alloc!ChunksOf
  <2> QED BY <2>1, HeldInHeap
<1>2. DOMAIN Chunk' = DOMAIN Chunk \ Alloc!ChunksOf(h)
  BY <1>1, ArenaChunk
<1> QED BY <1>2, ArenaChunk, ChunksAreFunctions DEF Alloc!Without

(* The heap of a domain that ends is discarded. *)
LEMMA Discarding ==
  ASSUME HeapsInv, HeapsInv', NEW s \in Listed, TakesBack(s)
  PROVE  Alloc!Next
<1> DEFINE h == sdi_tlsf[s]
<1>1. /\ HeapSound /\ HeapSound' /\ Sound(mem, region, brk, live, Kept)
      /\ RegionsIn(region, brk) /\ Layout(Ext(region)) /\ LiveIn(live, region, mem.blk)
      /\ Serve(h, IF sdi_init_heap_flag[s] THEN NULL ELSE h)
      /\ live' = Discarded(h) /\ brk' = brk /\ SameSizes(live, mem.blk, mem'.blk)
  BY DEF HeapsInv, HeapSound, Sound, Valid, Between, TakesBack, HeapCached
<1>2. h # NULL => Serves(h)
  BY DEF HeapsInv, Owning, Domains
<1> HIDE DEF h
<1>3. /\ DOMAIN region' = DOMAIN region
      /\ \A a \in DOMAIN region : a # Cached(s) => region'[a] = region[a]
      /\ Cached(s) # NULL => Cached(s) = h /\ region'[h].heap = NULL
  BY <1>1, TakenBackSound DEF h
<1>4. /\ DOMAIN live' = {p \in DOMAIN live : HeapOf(p) # h}
      /\ \A p \in DOMAIN live' : live'[p] = live[p]
  BY <1>1 DEF Discarded, Drop, Restrict
<1>5. \A p \in DOMAIN live' : p \in DOMAIN live /\ Chunk'[p] = Chunk[p]
  BY <1>1, <1>4, SameChunk DEF SameSizes, SizeOf
<1>6. RegionsIn(region', brk') /\ Layout(Ext(region'))
  BY <1>1 DEF HeapSound, Sound, Valid, Between
<1>7. /\ Arena = ArenaOf(region) /\ Arena' = ArenaOf(region')
      /\ DOMAIN Arena = {a \in DOMAIN region : region[a].heap = a}
      /\ DOMAIN Arena' = {a \in DOMAIN region' : region'[a].heap = a}
      /\ \A a \in DOMAIN Arena : Arena[a] = region[a] /\ Arena[a].heap = a /\ a # NULL
      /\ \A a \in DOMAIN Arena' : Arena'[a] = region'[a]
  <2>1. Arena = ArenaOf(region) /\ Arena' = ArenaOf(region')
    BY ArenaChunk
  <2>2. /\ DOMAIN ArenaOf(region) = {a \in DOMAIN region : region[a].heap = a}
        /\ \A a \in DOMAIN ArenaOf(region) :
             ArenaOf(region)[a] = region[a] /\ ArenaOf(region)[a].heap = a /\ a # NULL
    BY <1>1, ArenaFacts DEF ArenasServe
  <2>3. /\ DOMAIN ArenaOf(region') = {a \in DOMAIN region' : region'[a].heap = a}
        /\ \A a \in DOMAIN ArenaOf(region') : ArenaOf(region')[a] = region'[a]
    BY <1>6, ArenaFacts DEF ArenasServe
  <2> QED BY <2>1, <2>2, <2>3
<1>8. \A p \in DOMAIN live : HeapOf(p) # NULL
  BY <1>1, <1>7, WhereHeld
<1>9. CASE Cached(s) = NULL
  <2>1. \A a \in DOMAIN region : region'[a] = region[a]
    <3>1. NULL \notin DOMAIN region
      BY <1>1, HeapsAssumption DEF RegionsIn, NULL
    <3> QED BY <1>3, <1>9, <3>1
  <2>2. Arena' = Arena
    BY <1>3, <1>7, <2>1, ChunksAreFunctions
  <2>3. CASE h = NULL
    <3>1. DOMAIN live' = DOMAIN live
      BY <1>4, <1>8, <2>3
    <3>2. Growing
      BY <1>3, <2>1 DEF Growing, Serves
    <3> QED BY <1>1, <1>4, <3>1, <3>2, NothingGiven
  <2>4. CASE h # NULL
    <3>1. h \in Alloc!Heaps
      BY <1>2, <1>7, <2>4 DEF Alloc!Heaps, Serves
    <3>2. Chunk' = Alloc!Without(Chunk, Alloc!ChunksOf(h))
      BY <1>1, <1>4, <1>5, DiscardedChunks
    <3>3. Alloc!Discard(h)
      BY <2>2, <3>2 DEF Alloc!Discard
    <3> QED BY <3>1, <3>3 DEF Alloc!Next
  <2> QED BY <2>3, <2>4
<1>10. CASE Cached(s) # NULL
  <2>1. /\ h \in DOMAIN Arena /\ DOMAIN Arena' = DOMAIN Arena \ {h}
        /\ \A a \in DOMAIN Arena' : Arena'[a] = Arena[a]
    <3>1. h # NULL /\ Serves(h) /\ Cached(s) = h /\ region'[h].heap = NULL
      BY <1>2, <1>3, <1>10
    <3>2. h \in DOMAIN Arena
      BY <1>7, <3>1 DEF Serves
    <3>3. h \notin DOMAIN Arena'
      BY <1>7, <3>1
    <3> QED BY <1>3, <1>7, <3>1, <3>2, <3>3
  <2>2. {a \in DOMAIN Arena : Arena[a].heap = h} = {h} /\ h \in Alloc!Heaps
    BY <1>7, <2>1 DEF Alloc!Heaps
  <2>3. Arena' = Alloc!Without(Arena, {h})
    BY <2>1, ChunksAreFunctions DEF Alloc!Without
  <2>4. Chunk' = Alloc!Without(Chunk, Alloc!ChunksOf(h))
    BY <1>1, <1>4, <1>5, DiscardedChunks
  <2>5. Alloc!Discard(h)
    BY <2>2, <2>3, <2>4 DEF Alloc!Discard
  <2> QED BY <2>2, <2>5 DEF Alloc!Next
<1> QED BY <1>9, <1>10

-----------------------------------------------------------------------------
(* The refinement *)

LEMMA StartRefines ==
  ASSUME Init
  PROVE  Alloc!Init
<1>1. region = <<>> /\ live = <<>>
  BY DEF Init
<1>2. DOMAIN Arena = {} /\ DOMAIN Chunk = {}
  BY <1>1 DEF Arena, Chunk
<1>3. Arena = <<>> /\ Chunk = <<>>
  BY <1>2, ChunksAreFunctions
<1> QED BY <1>3 DEF Alloc!Init

LEMMA StepRefines ==
  ASSUME OnePool, RequestsFit, OneWayOut, HeapsInv, HeapsInv', Next
  PROVE  Alloc!Next \/ UNCHANGED <<Arena, Chunk>>
<1>1. CASE \E size \in Sizes : malloc(size) \/ \E align \in Aligns : posix_memalign(align, size)
  BY <1>1, MallocAllocates, AllocationRefines
<1>2. CASE \E size \in Sizes, p \in DOMAIN live : realloc(p, size)
  BY <1>2, ResizeRefines
<1>3. CASE \E size \in Sizes, sdi \in Listed :
             sdrad_malloc(sdi, size) \/ \E align \in Aligns : sdrad_memalign(sdi, align, size)
  BY <1>3, DomainMallocAllocates, AllocationRefines
<1>4. CASE \E size \in Sizes, p \in DOMAIN live, sdi \in Listed : sdrad_realloc(sdi, p, size)
  BY <1>4, ResizeRefines
<1>5. CASE \E p \in DOMAIN live : free(p)
  <2>1. PICK p \in DOMAIN live : free(p)
    BY <1>5
  <2>2. region' = region /\ live' = Drop({p}) /\ SameSizes(live', mem.blk, mem'.blk)
    BY <2>1, FreeKeepsInv DEF free, KeepHeaps
  <2> QED BY <2>2, OneFreed DEF HeapsInv
<1>6. CASE \E p \in DOMAIN live : sdrad_free(p)
  <2>1. PICK p \in DOMAIN live : sdrad_free(p)
    BY <1>6
  <2>2. CASE sdrad_search_tlsf_control(p) = NULL
    <3>1. UNCHANGED <<mem, live, region>>
      BY <2>1, <2>2 DEF sdrad_free, KeepHeaps
    <3> QED BY <3>1, NothingTouched
  <2>3. CASE sdrad_search_tlsf_control(p) # NULL
    <3>1. region' = region /\ live' = Drop({p})
      BY <2>1, <2>3 DEF sdrad_free, KeepHeaps
    <3>2. SameSizes(live', mem.blk, mem'.blk)
      BY <2>1, DomainFreeKeepsInv
    <3> QED BY <3>1, <3>2, OneFreed DEF HeapsInv
  <2> QED BY <2>2, <2>3
<1>7. CASE \E kind \in Kinds : sdrad_init(kind)
  <2>1. PICK kind \in Kinds : sdrad_init(kind)
    BY <1>7
  <2>2. Growing /\ SameSizes(live, mem.blk, mem'.blk)
    BY <2>1, InitKeepsInv DEF Undisturbed
  <2>3. live' = live
    BY <2>1 DEF sdrad_init, LibraryFaults
  <2> QED BY <2>2, <2>3, NothingGiven DEF HeapsInv
<1>8. CASE \E sdi \in Listed : sdrad_enter(sdi)
  BY <1>8, NothingTouched DEF sdrad_enter, heapVars
<1>9. CASE \E sdi \in Listed, options \in Options : sdrad_destroy(sdi, options)
  <2>1. PICK sdi \in Listed, options \in Options : sdrad_destroy(sdi, options)
    BY <1>9
  <2>2. TakesBack(sdi) \/ LibraryFaults("fault")
    BY <2>1, DestroyKeepsInv
  <2> QED BY <2>2, Discarding, NothingTouched DEF LibraryFaults, heapVars
<1>10. CASE sdrad_exit
  BY <1>10, NothingTouched DEF sdrad_exit, heapVars
<1>11. CASE sdrad_init_destroy
  <2>1. active_domain \in Listed /\ (TakesBack(active_domain) \/ LibraryFaults("fault"))
    BY <1>11, RewindKeepsInv
  <2> QED BY <2>1, Discarding, NothingTouched DEF LibraryFaults, heapVars
<1> QED BY <1>1, <1>2, <1>3, <1>4, <1>5, <1>6, <1>7, <1>8, <1>9, <1>10, <1>11 DEF Next

(* The heaps keep what HeapSpec promises: a chunk is where it was asked for, *)
(* as large and as aligned as asked, apart from all others, and stays what   *)
(* it is until it is freed or resized, or its heap discarded.                *)
THEOREM HeapsImplementHeapSpec ==
  ASSUME OnePool, RequestsFit, OneWayOut
  PROVE  Spec => AllocatorSpec
<1>1. Init => Alloc!Init
  BY StartRefines
<1>2. HeapsInv /\ HeapsInv' /\ [Next]_vars => [Alloc!Next]_<<Arena, Chunk>>
  <2> SUFFICES ASSUME HeapsInv, HeapsInv', [Next]_vars
               PROVE  Alloc!Next \/ UNCHANGED <<Arena, Chunk>>
    OBVIOUS
  <2>1. CASE Next
    BY <2>1, StepRefines
  <2>2. CASE UNCHANGED vars
    BY <2>2, NothingTouched DEF vars, heapVars
  <2> QED BY <2>1, <2>2
<1>3. HeapsInv /\ HeapsInv' /\ [Next]_vars => [Alloc!Next]_Alloc!heapSpecVars
  BY <1>2 DEF Alloc!heapSpecVars
<1> QED BY <1>1, <1>3, HeapsInvariance, PTL DEF Spec, AllocatorSpec, Alloc!Spec

-----------------------------------------------------------------------------
(* What is in a heap, to the last block *)

(* Every heap has the words of a control and of a block.                     *)
PoolsFit ==
  \A words \in {MonitorSize, SDRAD_DEFAULT_HEAP_SIZE, SDRAD_DEFAULT_DATA_DOMAIN_SIZE} : FitsPool(words)

(* The blocks of every heap are one row, and what is mapped is as large as a *)
(* heap of one pool.                                                         *)
Rows == Headed(mem.blk, Ext(region))

Sized ==
  \A a \in DOMAIN region :
    region[a].size \in {SDRAD_DEFAULT_HEAP_SIZE, SDRAD_DEFAULT_DATA_DOMAIN_SIZE}

(* The blocks in use in the heap at c (h: headers) are the application's.    *)
Told(h, l, reg, c) ==
  \A b \in DOMAIN h : Within(reg, c, b) /\ Used(h, b) => block_to_ptr(b) \in DOMAIN l

(* In a heap that a domain has flagged as its own nothing is in use but what *)
(* the application holds.                                                    *)
Accounted ==
  \A s \in Domains : sdi_init_heap_flag[s] => Told(mem.blk, live, region, sdi_tlsf[s])

(* No two nodes and entries are one block.                                   *)
NodesOnce   == \A i, j \in DOMAIN udi_control : udi_control[i].node = udi_control[j].node => i = j
EntriesOnce == \A i, j \in DOMAIN cache : cache[i].entry = cache[j].entry => i = j
KeptOnce ==
  /\ NodesOnce /\ EntriesOnce
  /\ \A i \in DOMAIN udi_control, j \in DOMAIN cache : udi_control[i].node # cache[j].entry

Exact == Rows /\ Sized /\ Accounted /\ KeptOnce

(* The step from headers h to k uses no block but those of T.                *)
NoMore(h, k, T) == \A b \in DOMAIN k \ T : Used(k, b) => Used(h, b)

LEMMA ToldAfter ==
  ASSUME NEW h, NEW k, NEW T, NoMore(h, k, T), NEW l, NEW l2, NEW reg, NEW new, NEW c,
         Told(h, l, reg, c), \A b : Within(new, c, b) => Within(reg, c, b),
         \A b \in T : Used(k, b) /\ Within(new, c, b) => block_to_ptr(b) \in DOMAIN l2,
         \A p \in DOMAIN l : p \in DOMAIN l2 \/ \A b \in DOMAIN k :
           p = block_to_ptr(b) => ~Used(k, b) \/ ~Within(new, c, b)
  PROVE  Told(k, l2, new, c)
<1> SUFFICES ASSUME NEW b \in DOMAIN k, Within(new, c, b), Used(k, b)
             PROVE  block_to_ptr(b) \in DOMAIN l2
  BY DEF Told
<1>1. CASE b \in T
  BY <1>1
<1>2. CASE b \notin T
  <2>1. Used(h, b) /\ b \in DOMAIN h
    BY <1>2 DEF NoMore, Used
  <2>2. block_to_ptr(b) \in DOMAIN l
    BY <2>1 DEF Told
  <2> QED BY <2>2
<1> QED BY <1>1, <1>2

(* A heap that is mapped has its row, and nothing in it is in use.           *)
LEMMA MappedExactly ==
  ASSUME OnePool, PoolsFit, HeapSound, Sized, NEW m, Valid(m, Ext(region)), Headed(m.blk, Ext(region)),
         NEW words \in {SDRAD_DEFAULT_HEAP_SIZE, SDRAD_DEFAULT_DATA_DOMAIN_SIZE},
         NEW n, n = tlsf_create_with_pool(m, brk, words),
         region' = With(region, brk, [size |-> words, heap |-> brk])
  PROVE  /\ Headed(n.blk, Ext(region')) /\ Sized' /\ NoMore(m.blk, n.blk, {})
         /\ \A b \in DOMAIN n.blk : Within(region', brk, b) => ~Used(n.blk, b)
         /\ \A a \in DOMAIN region : \A b : Within(region', a, b) => Within(region, a, b)
<1> DEFINE new == region'
           ext == Ext(region)
<1>1. /\ words \in Nat \ {0} /\ words <= block_size_max /\ FitsPool(words)
  BY HeapsAssumption, Numbers DEF OnePool, PoolsFit
<1>2. /\ brk \in Nat /\ brk >= 1 + MonitorSize /\ RegionsIn(region, brk) /\ Layout(ext)
  BY DEF HeapSound, Sound, Valid, Between
<1> HIDE DEF new
<1>3. new = With(region, brk, [size |-> words, heap |-> brk])
  BY DEF new
<1>4. Mapped(region, new, brk, words)
  BY <1>1, <1>2, <1>3, Mapping
<1>5. /\ MayCreate(ext, brk, words) /\ Ext(new) = With(ext, brk, words)
      /\ DOMAIN new = DOMAIN region \cup {brk} /\ (\A a \in DOMAIN region : new[a] = region[a])
      /\ new[brk].size = words /\ brk \in DOMAIN new /\ RegionsIn(new, brk + words)
  BY <1>4 DEF Mapped
<1> HIDE DEF ext
<1>6. Headed(n.blk, Ext(new))
  BY <1>1, <1>5, CreateKeepsHeads DEF ext
<1>7. Sized'
  BY <1>5 DEF Sized, new
<1>8. /\ NoMore(m.blk, n.blk, {})
      /\ \A a \in DOMAIN n.blk : In(With(ext, brk, words), brk, a) => ~Used(n.blk, a)
  BY <1>5, CreateIsSound DEF NoMore, ext
<1>9. \A b : Within(new, brk, b) => In(Ext(new), brk, b)
  BY <1>5, ExtFacts
<1>10. \A a \in DOMAIN region : \A b : Within(new, a, b) => Within(region, a, b)
  BY <1>5 DEF Within
<1> QED BY <1>5, <1>6, <1>7, <1>8, <1>9, <1>10 DEF new

(* And so has one that was taken back, once it is made empty.                *)
LEMMA RecycledExactly ==
  ASSUME OnePool, PoolsFit, HeapSound, Sized, NEW m, Valid(m, Ext(region)), Headed(m.blk, Ext(region)),
         NEW h \in DOMAIN region, NEW n, n = tlsf_create_with_pool(m, h, region[h].size),
         region' = [region EXCEPT ![h].heap = h]
  PROVE  /\ Headed(n.blk, Ext(region')) /\ Sized' /\ NoMore(m.blk, n.blk, {})
         /\ \A b \in DOMAIN n.blk : Within(region', h, b) => ~Used(n.blk, b)
         /\ \A a \in DOMAIN region : \A b : Within(region', a, b) => Within(region, a, b)
<1> DEFINE ext   == Ext(region)
           words == region[h].size
<1>1. /\ RegionsIn(region, brk) /\ Layout(ext) /\ FitsPool(words)
  BY DEF HeapSound, Sound, Valid, Between, Sized, PoolsFit
<1>2. /\ h \in Nat \ {0} /\ words \in Nat /\ words <= block_size_max
      /\ h \in DOMAIN ext /\ ext[h] = words /\ \A b : Within(region, h, b) => In(ext, h, b)
  <2>1. h \in Nat /\ h >= 1 + MonitorSize /\ words \in Nat /\ words <= block_size_max /\ MonitorSize \in Nat
    BY <1>1, HeapsAssumption DEF RegionsIn
  <2>2. h \in DOMAIN ext /\ ext[h] = words /\ \A b : In(ext, h, b) <=> Within(region, h, b)
    BY <1>1, ExtFacts
  <2> QED BY <2>1, <2>2
<1>3. DOMAIN region' = DOMAIN region /\ \A a \in DOMAIN region : region'[a].size = region[a].size
  <2>1. \A a \in DOMAIN region : region[a] = [size |-> region[a].size, heap |-> region[a].heap]
    BY <1>1 DEF RegionsIn
  <2> QED BY <2>1
<1>4. Ext(region') = ext /\ Sized' /\ \A a \in DOMAIN region : \A b : Within(region', a, b) <=> Within(region, a, b)
  BY <1>3 DEF Ext, Sized, Within
<1> HIDE DEF ext, words
<1>5. With(ext, h, words) = ext
  <2>1. ext \in [DOMAIN ext -> Nat]
    BY <1>1 DEF Layout
  <2> QED BY <1>2, <2>1 DEF With
<1>6. MayCreate(ext, h, words)
  BY <1>1, <1>2, <1>5 DEF MayCreate
<1>7. n = tlsf_create_with_pool(m, h, words) /\ Valid(m, ext) /\ Headed(m.blk, ext)
  BY DEF words, ext
<1>8. Headed(n.blk, ext)
  BY <1>1, <1>5, <1>6, <1>7, CreateKeepsHeads
<1>9. /\ NoMore(m.blk, n.blk, {})
      /\ \A a \in DOMAIN n.blk : In(With(ext, h, words), h, a) => ~Used(n.blk, a)
  BY <1>6, <1>7, CreateIsSound DEF NoMore
<1> QED BY <1>2, <1>4, <1>5, <1>8, <1>9

(* The domains D whose heaps stay, or are new and empty, m becoming n.       *)
LEMMA EmptyAccounted ==
  ASSUME HeapsInv, NEW m, NEW n, NoMore(m.blk, n.blk, {}), NEW D, NEW c,
         \A t \in Domains : sdi_init_heap_flag[t] => Told(m.blk, live, region, sdi_tlsf[t]),
         \A a \in DOMAIN region : \A b : Within(region', a, b) => Within(region, a, b),
         \A b \in DOMAIN n.blk : Within(region', c, b) => ~Used(n.blk, b),
         \A t \in D : \/ ~sdi_init_heap_flag'[t] \/ sdi_tlsf'[t] = c
                      \/ t \in Domains /\ sdi_init_heap_flag[t] /\ sdi_tlsf'[t] = sdi_tlsf[t]
  PROVE  \A t \in D : sdi_init_heap_flag'[t] => Told(n.blk, live, region', sdi_tlsf'[t])
<1> SUFFICES ASSUME NEW t \in D, sdi_init_heap_flag'[t]
             PROVE  Told(n.blk, live, region', sdi_tlsf'[t])
  OBVIOUS
<1>1. CASE sdi_tlsf'[t] = c
  BY <1>1 DEF Told
<1>2. CASE t \in Domains /\ sdi_init_heap_flag[t] /\ sdi_tlsf'[t] = sdi_tlsf[t]
  <2> DEFINE a == sdi_tlsf[t]
  <2>1. a \in DOMAIN region
    BY <1>2 DEF HeapsInv, Owning, Serves
  <2>2. Told(m.blk, live, region, a)
    BY <1>2
  <2> HIDE DEF a
  <2>3. Told(n.blk, live, region', a)
    BY <2>1, <2>2 DEF Told, NoMore, Used
  <2> QED BY <1>2, <2>3 DEF a
<1> QED BY <1>1, <1>2

(* The heap that is asked from has its row, and if it is new, nothing in it. *)
LEMMA AskedExactly ==
  ASSUME OnePool, PoolsFit, HeapsInv, Exact, NEW m, NEW c, NEW s \in Domains, Asking(m, c, s)
  PROVE  /\ Headed(m.blk, Ext(region')) /\ Sized'
         /\ \A t \in Domains : sdi_init_heap_flag'[t] => Told(m.blk, live, region', sdi_tlsf'[t])
<1>1. CASE KeepHeaps /\ m = mem /\ Serves(c)
  BY <1>1 DEF KeepHeaps, Exact, Rows, Sized, Accounted
<1>2. CASE c = brk /\ m = NewHeap(mem) /\ MapHeap(s, SDRAD_DEFAULT_HEAP_SIZE)
  <2>1. /\ m = tlsf_create_with_pool(mem, brk, SDRAD_DEFAULT_HEAP_SIZE)
        /\ region' = With(region, brk, [size |-> SDRAD_DEFAULT_HEAP_SIZE, heap |-> brk])
        /\ sdi_tlsf' = [sdi_tlsf EXCEPT ![s] = brk]
        /\ sdi_init_heap_flag' = [sdi_init_heap_flag EXCEPT ![s] = TRUE]
    BY <1>2, OnePoolCreated DEF NewHeap, MapHeap
  <2>2. HeapSound /\ Typed /\ Domains \subseteq Slot /\ Valid(mem, Ext(region)) /\ Headed(mem.blk, Ext(region))
        /\ Sized
    BY DomainsAreSlots DEF HeapsInv, HeapSound, Sound, Exact, Rows
  <2>3. /\ Headed(m.blk, Ext(region')) /\ Sized' /\ NoMore(mem.blk, m.blk, {})
        /\ \A b \in DOMAIN m.blk : Within(region', brk, b) => ~Used(m.blk, b)
        /\ \A a \in DOMAIN region : \A b : Within(region', a, b) => Within(region, a, b)
    BY <2>1, <2>2, MappedExactly
  <2>4. \A t \in Domains : \/ ~sdi_init_heap_flag'[t] \/ sdi_tlsf'[t] = brk
                           \/ t \in Domains /\ sdi_init_heap_flag[t] /\ sdi_tlsf'[t] = sdi_tlsf[t]
    BY <2>1, <2>2 DEF Typed
  <2>5. \A t \in Domains : sdi_init_heap_flag[t] => Told(mem.blk, live, region, sdi_tlsf[t])
    BY DEF Exact, Accounted
  <2>6. \A t \in Domains : sdi_init_heap_flag'[t] => Told(m.blk, live, region', sdi_tlsf'[t])
    BY <2>3, <2>4, <2>5, EmptyAccounted
  <2> QED BY <2>3, <2>6
<1> QED BY <1>1, <1>2 DEF Asking

LEMMA AllocationKeepsExact ==
  ASSUME OnePool, PoolsFit, HeapsInv, Exact, NEW m, NEW c, NEW s \in Domains, NEW size \in Sizes,
         NEW align, NEW r, Allocates(m, c, s, size, align, r)
  PROVE  Exact'
<1>1. Asked(m, c) /\ Allocated(m, r, Ext(region'), c, size)
  BY CallAnswered DEF HeapsInv
<1>2. /\ Asking(m, c, s) /\ mem' = r.mem /\ live' = Hold(r.ptr, size, align, live)
      /\ UNCHANGED listVars
  BY DEF Allocates
<1>3. /\ Headed(m.blk, Ext(region')) /\ Sized'
      /\ \A t \in Domains : sdi_init_heap_flag'[t] => Told(m.blk, live, region', sdi_tlsf'[t])
  BY <1>2, AskedExactly
<1>4. KeptOnce' /\ Domains' = Domains
  BY <1>2 DEF Exact, KeptOnce, NodesOnce, EntriesOnce, listVars, Domains, Listed
<1>5. CASE r.ptr = NULL
  <2>1. mem' = m /\ live' = live
    BY <1>1, <1>2, <1>5 DEF Allocated, Hold, NULL, NO_BLOCK
  <2>2. Rows' /\ Accounted'
    BY <1>3, <1>4, <2>1 DEF Rows, Accounted
  <2> QED BY <1>3, <1>4, <2>2 DEF Exact
<1>6. CASE r.ptr # NULL
  <2> DEFINE b == block_from_ptr(r.ptr)
  <2>1. Steady(m.blk, mem'.blk, {b}) /\ r.ptr \in Nat
    BY <1>1, <1>2, <1>6 DEF Allocated, NULL, NO_BLOCK
  <2>2. DOMAIN live' = DOMAIN live \cup {r.ptr} /\ block_to_ptr(b) = r.ptr
    BY <1>2, <1>6, <2>1, PointerFacts DEF Hold, With
  <2> HIDE DEF b
  <2>3. Rows'
    BY <1>3, <2>1, SteadyKeepsHeads DEF Rows
  <2>4. NoMore(m.blk, mem'.blk, {b})
    BY <2>1 DEF Steady, NoMore
  <2>5. Accounted'
    <3> SUFFICES ASSUME NEW t \in Domains, sdi_init_heap_flag'[t]
                 PROVE  Told(mem'.blk, live', region', sdi_tlsf'[t])
      BY <1>4 DEF Accounted
    <3>1. Told(m.blk, live, region', sdi_tlsf'[t])
      BY <1>3
    <3> QED BY <2>2, <2>4, <3>1, ToldAfter
  <2> QED BY <1>3, <1>4, <2>3, <2>5 DEF Exact
<1> QED BY <1>5, <1>6

(* A step in which the heaps and the domains stay.                           *)
LEMMA SteadyKeepsExact ==
  ASSUME Exact, KeepHeaps, UNCHANGED listVars, NEW T, Steady(mem.blk, mem'.blk, T),
         \A b \in T : Used(mem'.blk, b) => block_to_ptr(b) \in DOMAIN live',
         \A p \in DOMAIN live : p \in DOMAIN live' \/ \A b \in DOMAIN mem'.blk :
           p = block_to_ptr(b) => ~Used(mem'.blk, b)
  PROVE  Exact'
<1>1. /\ UNCHANGED <<region, sdi_tlsf, sdi_init_heap_flag, udi_control, cache>> /\ Domains' = Domains
  BY DEF KeepHeaps, listVars, Domains, Listed
<1>2. Rows' /\ Sized' /\ KeptOnce'
  BY <1>1, SteadyKeepsHeads DEF Exact, Rows, Sized, KeptOnce, NodesOnce, EntriesOnce
<1>3. NoMore(mem.blk, mem'.blk, T)
  BY DEF Steady, NoMore
<1>4. Accounted'
  <2> SUFFICES ASSUME NEW s \in Domains, sdi_init_heap_flag[s]
               PROVE  Told(mem'.blk, live', region, sdi_tlsf[s])
    BY <1>1 DEF Accounted
  <2>1. Told(mem.blk, live, region, sdi_tlsf[s])
    BY DEF Exact, Accounted
  <2> QED BY <1>3, <2>1, ToldAfter
<1> QED BY <1>2, <1>4 DEF Exact

LEMMA StillKeepsExact ==
  ASSUME HeapsInv, Exact, UNCHANGED <<mem, region, sdi_tlsf, sdi_init_heap_flag, live>>, UNCHANGED listVars
  PROVE  Exact'
<1>1. UNCHANGED <<udi_control, cache>> /\ Domains' = Domains
  BY DEF listVars, Domains, Listed
<1> QED BY <1>1 DEF Exact, Rows, Sized, Accounted, KeptOnce, NodesOnce, EntriesOnce

LEMMA BlockOfPointer ==
  ASSUME HeapSound, NEW p \in DOMAIN live
  PROVE  /\ p \in Nat /\ Used(mem.blk, block_from_ptr(p)) /\ block_to_ptr(block_from_ptr(p)) = p
         /\ \A b \in Nat : p = block_to_ptr(b) => b = block_from_ptr(p)
<1>1. p \in Nat /\ Used(mem.blk, block_from_ptr(p))
  BY DEF HeapSound, Sound, LiveIn
<1>2. \A b \in Nat : p = block_to_ptr(b) => b = block_from_ptr(p)
  BY <1>1 DEF block_to_ptr, block_from_ptr, block_start_offset
<1> QED BY <1>1, <1>2, PointerFacts

(* Freeing what the application holds at p, in the heap at c it is from.     *)
LEMMA FreeingKeepsExact ==
  ASSUME HeapsInv, HeapSound', Exact, KeepHeaps, UNCHANGED listVars, NEW p \in DOMAIN live,
         NEW c \in DOMAIN region, Within(region, c, block_from_ptr(p)),
         mem' = tlsf_free(mem, c, p), live' = Restrict(live, DOMAIN live \ {p})
  PROVE  Exact'
<1> DEFINE b   == block_from_ptr(p)
           ext == Ext(region)
<1>1. HeapSound /\ RegionsIn(region, brk) /\ Valid(mem, ext)
  BY DEF HeapsInv, HeapSound, Sound
<1>2. /\ Used(mem.blk, b) /\ block_to_ptr(b) = p
      /\ \A a \in Nat : p = block_to_ptr(a) => a = b
  BY <1>1, BlockOfPointer
<1>3. c \in DOMAIN ext /\ In(ext, c, b)
  BY <1>1, ExtFacts
<1> HIDE DEF b, ext
<1>4. /\ Steady(mem.blk, tlsf_free(mem, c, block_to_ptr(b)).blk, {})
      /\ ~Used(tlsf_free(mem, c, block_to_ptr(b)).blk, b)
  BY <1>1, <1>2, <1>3, FreeIsSound
<1>5. Steady(mem.blk, mem'.blk, {}) /\ ~Used(mem'.blk, b)
  BY <1>2, <1>4
<1>6. DOMAIN live' = DOMAIN live \ {p} /\ DOMAIN mem'.blk \subseteq Nat
  BY DEF Restrict, HeapSound, Sound, Valid, Between
<1>7. \A q \in DOMAIN live : q \in DOMAIN live' \/ \A a \in DOMAIN mem'.blk :
        q = block_to_ptr(a) => ~Used(mem'.blk, a)
  BY <1>2, <1>5, <1>6
<1> QED BY <1>5, <1>7, SteadyKeepsExact

LEMMA FreeKeepsExact ==
  ASSUME HeapsInv, Exact, NEW p \in DOMAIN live, free(p)
  PROVE  Exact'
<1>1. /\ HeapOf(p) = tlsf_structure /\ mem' = tlsf_free(mem, tlsf_structure, p)
      /\ live' = Restrict(live, DOMAIN live \ {p}) /\ KeepHeaps /\ UNCHANGED listVars
  BY DEF free, Drop
<1>2. HeapSound /\ HeapSound'
  BY FreeKeepsInv DEF HeapsInv
<1>3. tlsf_structure \in DOMAIN region /\ Within(region, tlsf_structure, block_from_ptr(p))
  BY <1>1, <1>2, WhereHeld
<1> QED BY <1>1, <1>2, <1>3, FreeingKeepsExact

LEMMA DomainFreeKeepsExact ==
  ASSUME HeapsInv, Exact, NEW p \in DOMAIN live, sdrad_free(p)
  PROVE  Exact'
<1> DEFINE c == sdrad_search_tlsf_control(p)
<1>1. /\ IF c = NULL THEN ctl' = "fault" /\ UNCHANGED <<mem, live>>
         ELSE /\ mem' = tlsf_free(mem, c, p)
              /\ live' = Restrict(live, DOMAIN live \ {p})
      /\ KeepHeaps /\ UNCHANGED listVars
  BY DEF sdrad_free, Drop
<1>2. HeapSound /\ Typed /\ Owning /\ HeapSound'
  BY DomainFreeKeepsInv DEF HeapsInv
<1> HIDE DEF c
<1>3. CASE c = NULL
  BY <1>1, <1>3, StillKeepsExact DEF KeepHeaps
<1>4. CASE c # NULL
  <2>1. c \in DOMAIN region /\ Within(region, c, block_from_ptr(p))
    BY <1>2, <1>4, SearchedHeap DEF c
  <2> QED BY <1>1, <1>2, <1>4, <2>1, FreeingKeepsExact
<1> QED BY <1>3, <1>4

LEMMA ResizeKeepsExact ==
  ASSUME RequestsFit, HeapsInv, Exact, NEW size \in Sizes, NEW p \in DOMAIN live,
         realloc(p, size) \/ \E sdi \in Listed : sdrad_realloc(sdi, p, size)
  PROVE  Exact'
<1>1. PICK c : /\ HeapOf(p) = c /\ mem' = tlsf_realloc(mem, c, p, size).mem
               /\ live' = Resized(p, tlsf_realloc(mem, c, p, size), size) /\ KeepHeaps
               /\ UNCHANGED listVars
  BY DEF realloc, sdrad_realloc
<1> DEFINE r  == tlsf_realloc(mem, c, p, size)
           b  == block_from_ptr(p)
           l2 == Restrict(live, DOMAIN live \ {p})
<1>2. HeapSound /\ HeapSound'
  BY ResizeKeepsInv DEF HeapsInv
<1>3. Reallocated(mem, r, Ext(region), c, b, size)
  BY <1>1, <1>2, ResizeAnswered
<1>4. /\ mem' = r.mem /\ DOMAIN l2 = DOMAIN live \ {p}
      /\ live' = IF r.ptr = NULL /\ size # 0 THEN live ELSE Hold(r.ptr, size, 1, l2)
  BY <1>1 DEF Resized, Drop, Restrict
<1>5. /\ DOMAIN mem'.blk \subseteq Nat /\ p \in Nat /\ block_to_ptr(b) = p
      /\ \A a \in Nat : p = block_to_ptr(a) => a = b
  <2>1. DOMAIN mem'.blk \subseteq Nat
    BY <1>2 DEF HeapSound, Sound, Valid, Between
  <2> QED BY <1>2, <2>1, BlockOfPointer
<1> HIDE DEF r, b, l2
<1>6. CASE r.ptr = NULL /\ size # 0
  <2>1. mem' = mem /\ live' = live
    BY <1>3, <1>4, <1>6 DEF Reallocated, NULL, NO_BLOCK
  <2> QED BY <1>1, <2>1, StillKeepsExact DEF KeepHeaps
<1>7. CASE r.ptr = NULL /\ size = 0
  <2>1. Steady(mem.blk, mem'.blk, {}) /\ ~Used(mem'.blk, b)
    BY <1>3, <1>4, <1>7 DEF Reallocated, NULL, NO_BLOCK
  <2>2. DOMAIN live' = DOMAIN live \ {p}
    BY <1>4, <1>7 DEF Hold
  <2>3. \A q \in DOMAIN live : q \in DOMAIN live' \/ \A a \in DOMAIN mem'.blk :
          q = block_to_ptr(a) => ~Used(mem'.blk, a)
    BY <1>5, <2>1, <2>2
  <2> QED BY <1>1, <2>1, <2>3, SteadyKeepsExact
<1>8. CASE r.ptr # NULL
  <2> DEFINE to == block_from_ptr(r.ptr)
  <2>1. /\ Steady(mem.blk, mem'.blk, {to}) /\ r.ptr \in Nat
        /\ to # b => ~Used(mem'.blk, b)
    BY <1>3, <1>4, <1>8 DEF Reallocated, NULL, NO_BLOCK
  <2>2. DOMAIN live' = (DOMAIN live \ {p}) \cup {r.ptr}
    BY <1>4, <1>8 DEF Hold, With
  <2>3. block_to_ptr(to) = r.ptr
    BY <2>1, PointerFacts
  <2> HIDE DEF to
  <2>4. \A q \in DOMAIN live : q \in DOMAIN live' \/ \A a \in DOMAIN mem'.blk :
          q = block_to_ptr(a) => ~Used(mem'.blk, a)
    BY <1>5, <2>1, <2>2, <2>3
  <2> QED BY <1>1, <2>1, <2>2, <2>3, <2>4, SteadyKeepsExact
<1> QED BY <1>6, <1>7, <1>8

LEMMA FaultKeepsExact ==
  ASSUME HeapsInv, Exact, LibraryFaults("fault")
  PROVE  Exact'
BY StillKeepsExact DEF LibraryFaults, heapVars

LEMMA SwitchKeepsExact ==
  ASSUME HeapsInv, Exact, (\E sdi \in Listed : sdrad_enter(sdi)) \/ sdrad_exit
  PROVE  Exact'
BY StillKeepsExact DEF sdrad_enter, sdrad_exit, heapVars

(* The monitor is given a block that nobody had.                             *)
LEMMA MonitorAnswers ==
  ASSUME HeapsInv, Exact, NEW size \in Nat, NEW r, r = tlsf_malloc(mem, smd_tlsf, size), r.ptr # NULL
  PROVE  /\ r.ptr \in Nat \ Kept /\ Valid(r.mem, Ext(region)) /\ Headed(r.mem.blk, Ext(region))
         /\ \A s \in Domains : sdi_init_heap_flag[s] => Told(r.mem.blk, live, region, sdi_tlsf[s])
<1> DEFINE ext == Ext(region)
           b   == block_from_ptr(r.ptr)
<1>1. /\ HeapSound /\ RegionsIn(region, brk) /\ Valid(mem, ext) /\ smd_tlsf = 1 /\ KeptIn(Kept, mem.blk)
      /\ Layout(ext)
  BY DEF HeapsInv, HeapSound, Sound, Typed, Valid, Between
<1>2. 1 \in DOMAIN ext /\ ext[1] = MonitorSize
  BY <1>1, MonitorExt
<1> HIDE DEF ext
<1>3. Allocated(mem, r, ext, 1, size)
  BY <1>1, <1>2, MallocIsSound
<1>4. /\ r.ptr \in Nat /\ Valid(r.mem, ext) /\ Steady(mem.blk, r.mem.blk, {b})
      /\ ~Used(mem.blk, b) /\ Used(r.mem.blk, b) /\ In(ext, 1, b)
  BY <1>3 DEF Allocated, NULL, NO_BLOCK
<1>5. r.ptr \notin Kept
  BY <1>1, <1>4 DEF KeptIn
<1>6. Headed(r.mem.blk, ext) /\ NoMore(mem.blk, r.mem.blk, {b})
  BY <1>4, SteadyKeepsHeads DEF Exact, Rows, ext, Steady, NoMore
<1>7. b \in Nat /\ b < 1 + MonitorSize
  <2>1. b \in Nat
    BY <1>4 DEF Used, Valid, Between
  <2> QED BY <1>2, <1>4, <2>1 DEF In
<1> HIDE DEF b
<1>8. ASSUME NEW s \in Domains, sdi_init_heap_flag[s]
      PROVE  Told(r.mem.blk, live, region, sdi_tlsf[s])
  <2> DEFINE a == sdi_tlsf[s]
  <2>1. a \in DOMAIN region /\ Told(mem.blk, live, region, a)
    BY <1>8 DEF HeapsInv, Owning, Serves, Exact, Accounted
  <2> HIDE DEF a
  <2>2. ~Within(region, a, b)
    BY <1>1, <1>7, <2>1, OneRegion DEF ext
  <2>3. Told(r.mem.blk, live, region, a)
    BY <1>6, <2>1, <2>2, ToldAfter
  <2> QED BY <2>3 DEF a
<1> QED BY <1>4, <1>5, <1>6, <1>8 DEF ext

LEMMA NewDomainFirst ==
  ASSUME Typed, Listing, NEW s \in Slot \ status, NEW node \in Nat,
         udi_control' = Cons([sdi |-> s, node |-> node], udi_control),
         status' = status \cup {s}, active_domain' = active_domain,
         sdi_parent_domain' = [sdi_parent_domain EXCEPT ![s] = active_domain]
  PROVE  /\ Prefixed(udi_control', [sdi |-> s, node |-> node], udi_control)
         /\ Domains' = Domains \cup {s} /\ s \notin Domains
<1>1. s \notin Domains
  BY DEF Domains, Listing
<1>2. Domains' = Domains \cup {s}
  BY NewDomainListed
<1>3. Prefixed(udi_control', [sdi |-> s, node |-> node], udi_control)
  BY NewDomainListed
<1> QED BY <1>1, <1>2, <1>3

(* A node that nobody had is put before the others, and the cache may lose   *)
(* its head.                                                                 *)
LEMMA NodeKeptOnce ==
  ASSUME Typed, KeptOnce, NEW node, node \notin Kept, NEW s,
         Prefixed(udi_control', [sdi |-> s, node |-> node], udi_control),
         cache' = cache \/ (cache # <<>> /\ cache' = Tail(cache))
  PROVE  KeptOnce'
<1> DEFINE u == udi_control
           v == udi_control'
           n == Len(udi_control)
           c == cache'
<1>1. n \in Nat /\ DOMAIN u = 1 .. n
  BY LenProperties DEF Typed
<1>2. DOMAIN v = 1 .. n + 1
  <2> HIDE DEF v
  <2>1. v \in Seq(NodeRecord) /\ Len(v) = n + 1
    BY DEF v, Prefixed
  <2> QED BY <2>1, LenProperties
<1>3. /\ \A i \in DOMAIN v : i # 1 => i - 1 \in DOMAIN u /\ v[i] = u[i - 1]
      /\ v[1].node = node /\ \A i \in DOMAIN v : i \in Nat
  <2>1. /\ v[1] = [sdi |-> s, node |-> node]
        /\ \A i \in 1 .. n + 1 : i # 1 => v[i] = u[i - 1]
    BY <1>1 DEF Prefixed
  <2> HIDE DEF u, v, n
  <2> QED BY <1>1, <1>2, <2>1
<1>4. /\ \A i \in DOMAIN u : u[i].node # node
      /\ \A i \in DOMAIN cache : cache[i].entry # node
  BY DEF Kept
<1>5. \E f : /\ \A i \in DOMAIN c : f[i] \in DOMAIN cache /\ c[i] = cache[f[i]]
             /\ \A i, j \in DOMAIN c : f[i] = f[j] => i = j
  <2>1. CASE c = cache
    <3> DEFINE f == [i \in DOMAIN c |-> i]
    <3>1. \A i \in DOMAIN c : f[i] = i
      OBVIOUS
    <3> HIDE DEF f
    <3> QED BY <2>1, <3>1
  <2>2. CASE cache # <<>> /\ c = Tail(cache)
    <3> DEFINE f == [i \in DOMAIN c |-> i + 1]
    <3>1. \A i \in DOMAIN c : f[i] = i + 1
      OBVIOUS
    <3>2. /\ DOMAIN c \subseteq Nat
          /\ \A i \in Nat : i \in DOMAIN c => i + 1 \in DOMAIN cache /\ c[i] = cache[i + 1]
      BY <2>2, CacheTail
    <3> HIDE DEF f, c
    <3>3. \A i, j \in DOMAIN c : f[i] = f[j] => i = j
      <4> SUFFICES ASSUME NEW i \in DOMAIN c, NEW j \in DOMAIN c, f[i] = f[j] PROVE i = j
        OBVIOUS
      <4>1. i \in Nat /\ j \in Nat /\ i + 1 = j + 1
        BY <3>1, <3>2
      <4> QED BY <4>1
    <3>4. \A i \in DOMAIN c : f[i] \in DOMAIN cache /\ c[i] = cache[f[i]]
      BY <3>1, <3>2
    <3> QED BY <3>3, <3>4
  <2> QED BY <2>1, <2>2
<1>6. /\ \A i, j \in DOMAIN u : u[i].node = u[j].node => i = j
      /\ \A i, j \in DOMAIN cache : cache[i].entry = cache[j].entry => i = j
      /\ \A i \in DOMAIN u, j \in DOMAIN cache : u[i].node # cache[j].entry
  BY DEF KeptOnce, NodesOnce, EntriesOnce
<1> HIDE DEF u, v, n, c
<1>7. \A i, j \in DOMAIN v : v[i].node = v[j].node => i = j
  <2> SUFFICES ASSUME NEW i \in DOMAIN v, NEW j \in DOMAIN v, v[i].node = v[j].node PROVE i = j
    OBVIOUS
  <2>1. CASE i = 1 \/ j = 1
    BY <1>3, <1>4, <2>1
  <2>2. CASE i # 1 /\ j # 1
    <3>1. i - 1 = j - 1 /\ i \in Nat /\ j \in Nat
      BY <1>3, <1>6, <2>2
    <3> QED BY <3>1
  <2> QED BY <2>1, <2>2
<1>8. \A i, j \in DOMAIN c : c[i].entry = c[j].entry => i = j
  BY <1>5, <1>6
<1>9. \A i \in DOMAIN v, j \in DOMAIN c : v[i].node # c[j].entry
  BY <1>3, <1>4, <1>5, <1>6
<1> QED BY <1>7, <1>8, <1>9 DEF KeptOnce, NodesOnce, EntriesOnce, v, c

LEMMA InitKeepsExact ==
  ASSUME OnePool, PoolsFit, OneWayOut, HeapsInv, Exact, NEW kind \in Kinds, sdrad_init(kind)
  PROVE  Exact'
<1> DEFINE r == sdrad_malloc_mdd(NodeSize)
           s == NewSlot
<1>1. /\ Typed /\ Listing /\ Owning /\ Caching /\ Slots /\ HeapSound /\ status # Slot
      /\ NodeSize \in Nat /\ Domains \subseteq Slot /\ r = tlsf_malloc(mem, smd_tlsf, NodeSize)
  BY HeapsAssumption, DomainsAreSlots DEF HeapsInv, sdrad_init, sdrad_malloc_mdd
<1>2. CASE r.ptr = NULL
  BY <1>2, FaultKeepsExact DEF sdrad_init
<1>3. CASE r.ptr # NULL
  <2>1. /\ MapNewDomain(kind, r.ptr)
        /\ IF kind = "DATA" THEN sdrad_data_domain_init(r.mem) ELSE sdrad_execution_domain_init(r.mem)
        /\ UNCHANGED <<active_domain, live>>
    BY <1>3 DEF sdrad_init, selVars
  <2> HIDE DEF r
  <2>2. /\ r.ptr \in Nat \ Kept /\ Valid(r.mem, Ext(region)) /\ Headed(r.mem.blk, Ext(region))
        /\ \A t \in Domains : sdi_init_heap_flag[t] => Told(r.mem.blk, live, region, sdi_tlsf[t])
    BY <1>1, <1>3, MonitorAnswers
  <2> HIDE DEF s
  <2>3. s \in Slot \ status /\ s = NewSlot
    BY <1>1, NewSlotFacts DEF s
  <2>4. /\ udi_control' = Cons([sdi |-> s, node |-> r.ptr], udi_control)
        /\ status' = status \cup {s}
        /\ sdi_parent_domain' = [sdi_parent_domain EXCEPT ![s] = active_domain]
    BY <2>1, <2>3 DEF MapNewDomain
  <2>5. /\ Prefixed(udi_control', [sdi |-> s, node |-> r.ptr], udi_control)
        /\ Domains' = Domains \cup {s} /\ s \notin Domains
    <3> DEFINE node == r.ptr
    <3>1. /\ Typed /\ Listing /\ s \in Slot \ status /\ node \in Nat
          /\ udi_control' = Cons([sdi |-> s, node |-> node], udi_control)
          /\ status' = status \cup {s} /\ active_domain' = active_domain
          /\ sdi_parent_domain' = [sdi_parent_domain EXCEPT ![s] = active_domain]
      BY <1>1, <2>1, <2>2, <2>3, <2>4
    <3> HIDE DEF node
    <3>2. /\ Prefixed(udi_control', [sdi |-> s, node |-> node], udi_control)
          /\ Domains' = Domains \cup {s} /\ s \notin Domains
      BY <3>1, NewDomainFirst
    <3> QED BY <3>2 DEF node
  <2>6. ASSUME cache' = cache \/ (cache # <<>> /\ cache' = Tail(cache)) PROVE KeptOnce'
    <3> DEFINE node == r.ptr
    <3>1. node \notin Kept /\ Prefixed(udi_control', [sdi |-> s, node |-> node], udi_control)
      BY <2>2, <2>5
    <3>2. Typed /\ KeptOnce
      BY <1>1 DEF Exact
    <3> HIDE DEF node
    <3> QED BY <2>6, <3>1, <3>2, NodeKeptOnce
  <2>7. Sized
    BY DEF Exact
  <2>8. CASE CachedHeap
    <3> DEFINE h == Head(cache).heap
    <3>1. /\ TakeCachedHeap(r.mem) /\ cache' = Tail(cache) /\ cache # <<>>
          /\ \/ sdi_init_heap_flag' = sdi_init_heap_flag
             \/ sdi_init_heap_flag' = [sdi_init_heap_flag EXCEPT ![s] = TRUE]
      BY <2>1, <2>3, <2>8 DEF sdrad_data_domain_init, sdrad_execution_domain_init, CachedHeap
    <3>2. h \in DOMAIN region /\ Head(cache).size = region[h].size
      <4>1. 1 \in DOMAIN cache /\ Head(cache) = cache[1]
        BY <1>1, <3>1, CacheTail
      <4> QED BY <1>1, <2>8, <4>1 DEF Caching, CachedHeap
    <3>3. /\ mem' = tlsf_create_with_pool(r.mem, h, region[h].size)
          /\ region' = [region EXCEPT ![h].heap = h]
          /\ sdi_tlsf' = [sdi_tlsf EXCEPT ![s] = h]
      BY <2>3, <3>1, <3>2 DEF TakeCachedHeap, RecycledHeap
    <3> HIDE DEF h
    <3>4. /\ Headed(mem'.blk, Ext(region')) /\ Sized' /\ NoMore(r.mem.blk, mem'.blk, {})
          /\ \A b \in DOMAIN mem'.blk : Within(region', h, b) => ~Used(mem'.blk, b)
          /\ \A a \in DOMAIN region : \A b : Within(region', a, b) => Within(region, a, b)
      BY <1>1, <2>2, <2>7, <3>2, <3>3, RecycledExactly
    <3>5. \A t \in Domains' : \/ ~sdi_init_heap_flag'[t] \/ sdi_tlsf'[t] = h
                              \/ t \in Domains /\ sdi_init_heap_flag[t] /\ sdi_tlsf'[t] = sdi_tlsf[t]
      BY <1>1, <2>3, <2>5, <3>1, <3>3 DEF Typed
    <3>6. \A t \in Domains' : sdi_init_heap_flag'[t] => Told(mem'.blk, live, region', sdi_tlsf'[t])
      <4> DEFINE m == r.mem
                 n == mem'
                 D == Domains'
      <4>1. /\ NoMore(m.blk, n.blk, {})
            /\ \A t \in Domains : sdi_init_heap_flag[t] => Told(m.blk, live, region, sdi_tlsf[t])
            /\ \A a \in DOMAIN region : \A b : Within(region', a, b) => Within(region, a, b)
            /\ \A b \in DOMAIN n.blk : Within(region', h, b) => ~Used(n.blk, b)
            /\ \A t \in D : \/ ~sdi_init_heap_flag'[t] \/ sdi_tlsf'[t] = h
                            \/ t \in Domains /\ sdi_init_heap_flag[t] /\ sdi_tlsf'[t] = sdi_tlsf[t]
        BY <2>2, <3>4, <3>5
      <4> HIDE DEF m, n, D
      <4>2. \A t \in D : sdi_init_heap_flag'[t] => Told(n.blk, live, region', sdi_tlsf'[t])
        BY <4>1, EmptyAccounted
      <4> QED BY <4>2 DEF n, D
    <3>7. KeptOnce'
      BY <2>6, <3>1
    <3>8. Accounted'
      BY <2>1, <3>6 DEF Accounted
    <3> QED BY <3>4, <3>7, <3>8 DEF Exact, Rows
  <2>9. CASE ~CachedHeap /\ kind = "DATA"
    <3>1. "fault" \notin Calls
      BY <2>9 DEF OneWayOut
    <3>2. /\ cache' = cache /\ MapHeap(s, SDRAD_DEFAULT_DATA_DOMAIN_SIZE)
          /\ mem' = CreatePools(r.mem, brk, SDRAD_DEFAULT_DATA_DOMAIN_SIZE, FALSE)
      <4>1. ~sdi_init_heap_flag[NewSlot]
        BY <1>1, <3>1, SpareSlot
      <4> QED BY <2>1, <2>3, <2>9, <4>1 DEF sdrad_data_domain_init
    <3>3. /\ mem' = tlsf_create_with_pool(r.mem, brk, SDRAD_DEFAULT_DATA_DOMAIN_SIZE)
          /\ region' = With(region, brk, [size |-> SDRAD_DEFAULT_DATA_DOMAIN_SIZE, heap |-> brk])
          /\ sdi_tlsf' = [sdi_tlsf EXCEPT ![s] = brk]
          /\ sdi_init_heap_flag' = [sdi_init_heap_flag EXCEPT ![s] = TRUE]
      BY <3>2, OnePoolCreated DEF MapHeap
    <3>4. /\ Headed(mem'.blk, Ext(region')) /\ Sized' /\ NoMore(r.mem.blk, mem'.blk, {})
          /\ \A b \in DOMAIN mem'.blk : Within(region', brk, b) => ~Used(mem'.blk, b)
          /\ \A a \in DOMAIN region : \A b : Within(region', a, b) => Within(region, a, b)
      BY <1>1, <2>2, <2>7, <3>3, MappedExactly
    <3>5. \A t \in Domains' : \/ ~sdi_init_heap_flag'[t] \/ sdi_tlsf'[t] = brk
                              \/ t \in Domains /\ sdi_init_heap_flag[t] /\ sdi_tlsf'[t] = sdi_tlsf[t]
      <4>1. sdi_tlsf'[s] = brk
        BY <1>1, <2>3, <3>3 DEF Typed
      <4>2. \A t \in Domains : sdi_tlsf'[t] = sdi_tlsf[t] /\ sdi_init_heap_flag'[t] = sdi_init_heap_flag[t]
        BY <1>1, <2>5, <3>3 DEF Typed
      <4> QED BY <2>5, <4>1, <4>2
    <3>6. \A t \in Domains' : sdi_init_heap_flag'[t] => Told(mem'.blk, live, region', sdi_tlsf'[t])
      <4> DEFINE m == r.mem
                 n == mem'
                 D == Domains'
      <4>1. /\ NoMore(m.blk, n.blk, {})
            /\ \A t \in Domains : sdi_init_heap_flag[t] => Told(m.blk, live, region, sdi_tlsf[t])
            /\ \A a \in DOMAIN region : \A b : Within(region', a, b) => Within(region, a, b)
            /\ \A b \in DOMAIN n.blk : Within(region', brk, b) => ~Used(n.blk, b)
            /\ \A t \in D : \/ ~sdi_init_heap_flag'[t] \/ sdi_tlsf'[t] = brk
                            \/ t \in Domains /\ sdi_init_heap_flag[t] /\ sdi_tlsf'[t] = sdi_tlsf[t]
        BY <2>2, <3>4, <3>5
      <4> HIDE DEF m, n, D
      <4>2. \A t \in D : sdi_init_heap_flag'[t] => Told(n.blk, live, region', sdi_tlsf'[t])
        BY <4>1, EmptyAccounted
      <4> QED BY <4>2 DEF n, D
    <3>7. KeptOnce'
      BY <2>6, <3>2
    <3>8. Accounted'
      BY <2>1, <3>6 DEF Accounted
    <3> QED BY <3>4, <3>7, <3>8 DEF Exact, Rows
  <2>10. CASE ~CachedHeap /\ kind # "DATA"
    <3>1. /\ mem' = r.mem /\ UNCHANGED <<brk, region, sdi_tlsf>>
          /\ \/ cache = <<>> /\ UNCHANGED <<cache, sdi_init_heap_flag>>
             \/ /\ cache # <<>> /\ cache' = Tail(cache)
                /\ sdi_init_heap_flag' = [sdi_init_heap_flag EXCEPT ![s] = FALSE]
      BY <2>1, <2>3, <2>10 DEF sdrad_execution_domain_init
    <3>2. ~sdi_init_heap_flag'[s]
      <4>1. sdi_tlsf[s] = NULL /\ (sdi_init_heap_flag[s] => sdi_tlsf[s] # NULL)
        BY <1>1, <2>3, <2>10, SpareSlot DEF CachedHeap
      <4> QED BY <1>1, <2>3, <3>1, <4>1 DEF Typed
    <3>3. \A t \in Domains : sdi_init_heap_flag'[t] = sdi_init_heap_flag[t]
      BY <1>1, <2>5, <3>1 DEF Typed
    <3>4. Accounted'
      BY <2>1, <2>2, <2>5, <3>1, <3>2, <3>3 DEF Accounted
    <3>5. Rows' /\ Sized' /\ KeptOnce'
      BY <2>2, <2>6, <2>7, <3>1 DEF Rows, Sized
    <3> QED BY <3>4, <3>5 DEF Exact
  <2> QED BY <2>8, <2>9, <2>10
<1> QED BY <1>2, <1>3

(* The node at the head goes, and an entry that nobody had comes first in    *)
(* the cache.                                                                *)
LEMMA EntryKeptOnce ==
  ASSUME Typed, KeptOnce, NEW e, e.entry \notin Kept,
         udi_control' \in Seq(NodeRecord), Len(udi_control') = Len(udi_control) - 1,
         1 \in DOMAIN udi_control,
         \A i \in 1 .. Len(udi_control) - 1 : udi_control'[i] = udi_control[i + 1],
         cache' \in Seq(EntryRecord), Len(cache') = Len(cache) + 1, cache'[1] = e,
         \A i \in 1 .. Len(cache) : cache'[i + 1] = cache[i]
  PROVE  KeptOnce'
<1> DEFINE u == udi_control
           v == udi_control'
           c == cache'
           n == Len(udi_control)
           k == Len(cache)
<1>1. n \in Nat /\ DOMAIN u = 1 .. n /\ k \in Nat /\ DOMAIN cache = 1 .. k
  BY LenProperties DEF Typed
<1>2. DOMAIN v = 1 .. n - 1 /\ DOMAIN c = 1 .. k + 1
  <2> HIDE DEF v, c, n, k
  <2>1. v \in Seq(NodeRecord) /\ Len(v) = n - 1 /\ c \in Seq(EntryRecord) /\ Len(c) = k + 1
    BY DEF v, c, n, k
  <2> QED BY <2>1, LenProperties
<1>3. /\ \A i \in DOMAIN v : i \in Nat /\ i + 1 \in DOMAIN u /\ v[i] = u[i + 1]
      /\ \A i \in DOMAIN c : i \in Nat /\ (i # 1 => i - 1 \in DOMAIN cache /\ c[i] = cache[i - 1])
      /\ c[1] = e
  <2>1. /\ \A i \in 1 .. n - 1 : v[i] = u[i + 1]
        /\ \A i \in 1 .. k : c[i + 1] = cache[i] 
        /\ c[1] = e
    OBVIOUS
  <2> HIDE DEF u, v, n, c, k
  <2>2. ASSUME NEW i \in DOMAIN c, i # 1 PROVE i - 1 \in DOMAIN cache /\ c[i] = cache[i - 1]
    <3>1. i - 1 \in 1 .. k /\ (i - 1) + 1 = i
      BY <1>1, <1>2, <2>2
    <3>2. c[(i - 1) + 1] = cache[i - 1]
      BY <2>1, <3>1
    <3> QED BY <1>1, <3>1, <3>2
  <2> QED BY <1>1, <1>2, <2>1, <2>2
<1>4. /\ \A i \in DOMAIN u : u[i].node # e.entry
      /\ \A i \in DOMAIN cache : cache[i].entry # e.entry
  BY DEF Kept
<1>5. /\ \A i, j \in DOMAIN u : u[i].node = u[j].node => i = j
      /\ \A i, j \in DOMAIN cache : cache[i].entry = cache[j].entry => i = j
      /\ \A i \in DOMAIN u, j \in DOMAIN cache : u[i].node # cache[j].entry
  BY DEF KeptOnce, NodesOnce, EntriesOnce
<1> HIDE DEF u, v, n, c, k
<1>6. \A i, j \in DOMAIN v : v[i].node = v[j].node => i = j
  <2> SUFFICES ASSUME NEW i \in DOMAIN v, NEW j \in DOMAIN v, v[i].node = v[j].node PROVE i = j
    OBVIOUS
  <2>1. i + 1 = j + 1 /\ i \in Nat /\ j \in Nat
    BY <1>3, <1>5
  <2> QED BY <2>1
<1>7. \A i, j \in DOMAIN c : c[i].entry = c[j].entry => i = j
  <2> SUFFICES ASSUME NEW i \in DOMAIN c, NEW j \in DOMAIN c, c[i].entry = c[j].entry PROVE i = j
    OBVIOUS
  <2>1. CASE i = 1 \/ j = 1
    BY <1>3, <1>4, <2>1
  <2>2. CASE i # 1 /\ j # 1
    <3>1. i - 1 = j - 1 /\ i \in Nat /\ j \in Nat
      BY <1>3, <1>5, <2>2
    <3> QED BY <3>1
  <2> QED BY <2>1, <2>2
<1>8. \A i \in DOMAIN v, j \in DOMAIN c : v[i].node # c[j].entry
  <2> SUFFICES ASSUME NEW i \in DOMAIN v, NEW j \in DOMAIN c PROVE v[i].node # c[j].entry
    OBVIOUS
  <2>1. CASE j = 1
    BY <1>3, <1>4, <2>1
  <2>2. CASE j # 1
    BY <1>3, <1>5, <2>2
  <2> QED BY <2>1, <2>2
<1> QED BY <1>6, <1>7, <1>8 DEF KeptOnce, NodesOnce, EntriesOnce, v, c

LEMMA TakingBackKeepsExact ==
  ASSUME HeapsInv, Exact, NEW s \in Listed, NodeIndex(s) = 1,
         NEW r, r = tlsf_malloc(mem, smd_tlsf, EntrySize), r.ptr # NULL,
         RemoveDomain(r.mem, s, HeapCached(s), r.ptr),
         Serve(sdi_tlsf[s], IF HeapCached(s) THEN NULL ELSE sdi_tlsf[s]),
         live' = Discarded(sdi_tlsf[s]),
         UNCHANGED <<brk, sdi_tlsf, sdi_init_heap_flag>>
  PROVE  Exact'
<1> DEFINE h    == sdi_tlsf[s]
           flag == sdi_init_heap_flag[s]
           e    == CacheEntry(s, flag, r.ptr)
           m    == r.mem
<1>1. /\ Typed /\ Listing /\ Owning /\ HeapSound /\ RegionsIn(region, brk) /\ Layout(Ext(region))
      /\ EntrySize \in Nat /\ s \in Domains /\ s \in Slot
  BY HeapsAssumption, DomainsAreSlots DEF HeapsInv, HeapSound, Sound, Valid, Between, Domains
<1>2. /\ r.ptr \in Nat \ Kept /\ Valid(m, Ext(region)) /\ Headed(m.blk, Ext(region))
      /\ \A t \in Domains : sdi_init_heap_flag[t] => Told(m.blk, live, region, sdi_tlsf[t])
  BY <1>1, MonitorAnswers
<1>3. /\ cache' = Cons(e, cache) /\ udi_control' = RemoveAt(udi_control, 1) /\ mem' = m
  BY DEF RemoveDomain, HeapCached, sdrad_delete_control_structure, FreesNode
<1>4. e \in EntryRecord /\ e.entry = r.ptr
  <2>1. sdi_tlsf[s] \in Nat /\ sdi_size_of_heap[s] \in Nat
    BY <1>1 DEF Typed
  <2> QED BY <1>2, <2>1, SlotFacts DEF CacheEntry, EntryRecord
<1> HIDE DEF h, e, flag, m
<1>5. /\ udi_control' \in Seq(NodeRecord) /\ Len(udi_control') = Len(udi_control) - 1
      /\ 1 \in DOMAIN udi_control
      /\ \A i \in 1 .. Len(udi_control) - 1 : udi_control'[i] = udi_control[i + 1]
      /\ cache' \in Seq(EntryRecord) /\ Len(cache') = Len(cache) + 1 /\ cache'[1] = e
      /\ \A i \in 1 .. Len(cache) : cache'[i + 1] = cache[i]
      /\ Listed' = Listed \ {s}
  BY <1>1, <1>3, <1>4, Removed
<1>6. KeptOnce'
  BY <1>1, <1>2, <1>4, <1>5, EntryKeptOnce DEF Exact
<1>7. /\ DOMAIN region' = DOMAIN region
      /\ \A a \in DOMAIN region : region'[a].size = region[a].size
  <2>1. HeapSound /\ Sound(mem, region, brk, live, Kept)
    BY <1>1 DEF HeapSound
  <2> QED BY <2>1, TakenBackSound DEF HeapCached
<1>8. Ext(region') = Ext(region) /\ Sized' /\ \A a \in DOMAIN region : \A b : Within(region', a, b) <=> Within(region, a, b)
  BY <1>7 DEF Ext, Sized, Exact, Within
<1>9. Rows'
  BY <1>2, <1>3, <1>8 DEF Rows
<1>10. Domains' \subseteq Domains \ {s}
  BY <1>1, <1>5 DEF Domains, Listing
<1>11. ASSUME NEW t \in Domains', sdi_init_heap_flag[t]
       PROVE  Told(m.blk, live', region', sdi_tlsf[t])
  <2> DEFINE a == sdi_tlsf[t]
  <2>1. t \in Domains /\ t # s
    BY <1>10
  <2>2. a # NULL /\ a \in DOMAIN region /\ h # a
    BY <1>1, <1>11, <2>1 DEF Owning, Serves, h
  <2>3. Told(m.blk, live, region, a)
    BY <1>2, <1>11, <2>1
  <2> HIDE DEF a
  <2> SUFFICES ASSUME NEW b \in DOMAIN m.blk, Within(region', a, b), Used(m.blk, b)
               PROVE  block_to_ptr(b) \in DOMAIN live'
    BY DEF Told, a
  <2>4. Within(region, a, b) /\ b \in Nat
    BY <1>2, <1>8, <2>2 DEF Valid, Between
  <2>5. block_to_ptr(b) \in DOMAIN live /\ block_from_ptr(block_to_ptr(b)) = b
    BY <2>3, <2>4 DEF Told, block_to_ptr, block_from_ptr, block_start_offset
  <2>6. HeapOf(block_to_ptr(b)) = a
    <3>1. PICK x \in DOMAIN region : HeapOf(block_to_ptr(b)) = x /\ Within(region, x, b)
      BY <1>1, <2>5, WhereHeld
    <3> QED BY <1>1, <2>2, <2>4, <3>1, OneRegion
  <2> QED BY <2>2, <2>5, <2>6 DEF Discarded, Drop, Restrict, h
<1>12. Accounted'
  BY <1>3, <1>11 DEF Accounted
<1> QED BY <1>6, <1>8, <1>9, <1>12 DEF Exact

LEMMA DestroyKeepsExact ==
  ASSUME OneWayOut, HeapsInv, Exact, NEW sdi \in Listed, NEW options \in Options,
         sdrad_destroy(sdi, options)
  PROVE  Exact'
<1> DEFINE r == sdrad_malloc_mdd(EntrySize)
<1>1. NodeIndex(sdi) = 1 /\ options = "NO_HEAP_MERGE"
  BY DEF sdrad_destroy, MayGo, OneWayOut
<1>2. CASE r.ptr = NULL \/ FreeFaults(sdi)
  BY <1>2, FaultKeepsExact DEF sdrad_destroy
<1>3. CASE ~(r.ptr = NULL \/ FreeFaults(sdi))
  <2>1. destroy_cached(sdi, r) /\ UNCHANGED <<brk, sdi_tlsf, sdi_init_heap_flag>>
    BY <1>1, <1>3 DEF sdrad_destroy
  <2>2. r.ptr # NULL /\ r = tlsf_malloc(mem, smd_tlsf, EntrySize)
    BY <1>3 DEF sdrad_malloc_mdd
  <2> HIDE DEF r
  <2> QED BY <1>1, <2>1, <2>2, TakingBackKeepsExact DEF destroy_cached
<1> QED BY <1>2, <1>3

LEMMA RewindKeepsExact ==
  ASSUME OneWayOut, HeapsInv, Exact, sdrad_init_destroy
  PROVE  Exact'
<1> DEFINE r == sdrad_malloc_mdd(EntrySize)
           s == active_domain
<1>1. s \in Listed /\ NodeIndex(s) = 1
  BY RewindKeepsInv DEF sdrad_init_destroy, MayGo, OneWayOut
<1>2. CASE r.ptr = NULL \/ FreeFaults(s)
  BY <1>2, FaultKeepsExact DEF sdrad_init_destroy
<1>3. CASE ~(r.ptr = NULL \/ FreeFaults(s))
  <2>1. /\ RemoveDomain(r.mem, s, HeapCached(s), r.ptr)
        /\ Serve(sdi_tlsf[s], IF HeapCached(s) THEN NULL ELSE sdi_tlsf[s])
        /\ live' = Discarded(sdi_tlsf[s])
        /\ UNCHANGED <<brk, sdi_tlsf, sdi_init_heap_flag>>
    BY <1>3 DEF sdrad_init_destroy
  <2>2. r.ptr # NULL /\ r = tlsf_malloc(mem, smd_tlsf, EntrySize)
    BY <1>3 DEF sdrad_malloc_mdd
  <2> HIDE DEF r, s
  <2> QED BY <1>1, <2>1, <2>2, TakingBackKeepsExact
<1> QED BY <1>2, <1>3


LEMMA StartIsExact ==
  ASSUME OnePool, PoolsFit, Init
  PROVE  Exact
<1> DEFINE empty == [blk |-> <<>>, tlsf |-> <<>>, abort |-> FALSE]
           m == tlsf_create_with_pool(empty, 1, MonitorSize)
           r == tlsf_malloc(m, 1, NodeSize)
           ext == With(<<>>, 1, MonitorSize)
<1>1. /\ mem = r.mem /\ region = <<>> /\ udi_control = <<>> /\ cache = <<>>
      /\ sdi_init_heap_flag = [i \in Slot |-> FALSE]
  BY DEF Init
<1>2. DOMAIN region = {} /\ DOMAIN udi_control = {} /\ DOMAIN cache = {} /\ DOMAIN <<>> = {}
  BY <1>1
<1>3. MayCreate(<<>>, 1, MonitorSize) /\ FitsPool(MonitorSize) /\ NodeSize \in Nat
  BY MonitorMayBe, HeapsAssumption DEF PoolsFit
<1>4. Valid(empty, <<>>) /\ Headed(empty.blk, <<>>)
  <2>1. empty.blk = <<>> /\ Starts(<<>>) = {}
    BY <1>2 DEF Starts
  <2>2. Headed(<<>>, <<>>)
    BY <1>2, <2>1 DEF Headed
  <2> QED BY <2>1, <2>2, NothingIsValid
<1>5. 1 \in DOMAIN ext /\ Ext(region) = ext
  BY <1>2 DEF Ext, With
<1> HIDE DEF empty
<1>6. Valid(m, ext) /\ Headed(m.blk, ext)
  BY <1>3, <1>4, CreateIsSound, CreateKeepsHeads
<1> HIDE DEF m, ext
<1>7. Allocated(m, r, ext, 1, NodeSize)
  BY <1>3, <1>5, <1>6, MallocIsSound
<1> HIDE DEF r
<1>8. Headed(mem.blk, ext)
  BY <1>1, <1>6, <1>7, SteadyKeepsHeads DEF Allocated
<1>9. Rows
  BY <1>5, <1>8 DEF Rows
<1>10. Sized /\ KeptOnce
  BY <1>2 DEF Sized, KeptOnce, NodesOnce, EntriesOnce
<1>11. Accounted
  <2>1. Domains = {ROOT_DOMAIN}
    BY <1>2 DEF Domains, Listed
  <2> QED BY <1>1, <2>1, SlotFacts DEF Accounted
<1> QED BY <1>9, <1>10, <1>11 DEF Exact

LEMMA NextKeepsExact ==
  ASSUME OnePool, PoolsFit, RequestsFit, OneWayOut, HeapsInv, Exact, Next
  PROVE  Exact'
<1>1. CASE \E size \in Sizes : malloc(size) \/ \E align \in Aligns : posix_memalign(align, size)
  BY <1>1, MallocAllocates, AllocationKeepsExact
<1>2. CASE \E size \in Sizes, p \in DOMAIN live : realloc(p, size)
  BY <1>2, ResizeKeepsExact
<1>3. CASE \E size \in Sizes, sdi \in Listed :
             sdrad_malloc(sdi, size) \/ \E align \in Aligns : sdrad_memalign(sdi, align, size)
  BY <1>3, DomainMallocAllocates, AllocationKeepsExact
<1>4. CASE \E size \in Sizes, p \in DOMAIN live, sdi \in Listed : sdrad_realloc(sdi, p, size)
  BY <1>4, ResizeKeepsExact
<1>5. CASE \E p \in DOMAIN live : free(p)
  BY <1>5, FreeKeepsExact
<1>6. CASE \E p \in DOMAIN live : sdrad_free(p)
  BY <1>6, DomainFreeKeepsExact
<1>7. CASE \E kind \in Kinds : sdrad_init(kind)
  BY <1>7, InitKeepsExact
<1>8. CASE (\E sdi \in Listed : sdrad_enter(sdi)) \/ sdrad_exit
  BY <1>8, SwitchKeepsExact
<1>9. CASE \E sdi \in Listed, options \in Options : sdrad_destroy(sdi, options)
  BY <1>9, DestroyKeepsExact
<1>10. CASE sdrad_init_destroy
  BY <1>10, RewindKeepsExact
<1> QED BY <1>1, <1>2, <1>3, <1>4, <1>5, <1>6, <1>7, <1>8, <1>9, <1>10 DEF Next

(* The second invariant: the blocks of every heap are one row from the start *)
(* of its pool to its end, in a domain's own heap nothing is in use but what *)
(* the application holds, and no two nodes and cache entries are one block.  *)
THEOREM ExactInvariance ==
  ASSUME OnePool, PoolsFit, RequestsFit, OneWayOut
  PROVE  Spec => []Exact
<1>1. Init => Exact
  BY StartIsExact
<1>2. HeapsInv /\ Exact /\ [Next]_vars => Exact'
  <2>1. ASSUME HeapsInv, Exact, UNCHANGED vars PROVE Exact'
    BY <2>1, StillKeepsExact DEF vars, heapVars
  <2> QED BY <2>1, NextKeepsExact
<1> QED BY <1>1, <1>2, HeapsInvariance, PTL DEF Spec

-----------------------------------------------------------------------------
(* What the second invariant says of the heaps in use *)

LEMMA MemoryEnds ==
  ASSUME HeapSound
  PROVE  brk \in Nat /\ \A a \in DOMAIN mem.blk : a < brk
<1>1. /\ brk \in Nat /\ brk >= 1 + MonitorSize /\ RegionsIn(region, brk) /\ MonitorSize \in Nat
      /\ DOMAIN mem.blk \subseteq Nat /\ Placed(mem.blk, Ext(region))
  BY HeapsAssumption DEF HeapSound, Sound, Valid, Between
<1>2. ASSUME NEW a \in DOMAIN mem.blk PROVE a < brk
  <2>1. PICK c \in DOMAIN Ext(region) : In(Ext(region), c, a)
    BY <1>1 DEF Placed
  <2>2. CASE c = 1
    <3>1. a \in Nat /\ a < 1 + MonitorSize
      BY <1>1, <2>1, <2>2 DEF In, Ext
    <3> QED BY <1>1, <3>1
  <2>3. CASE c # 1
    <3>1. /\ c \in DOMAIN region /\ a \in Nat /\ a < c + region[c].size
          /\ c \in Nat /\ region[c].size \in Nat /\ c + region[c].size <= brk
      BY <1>1, <2>1, <2>3 DEF In, Ext, RegionsIn
    <3> QED BY <1>1, <3>1
  <2> QED BY <2>2, <2>3
<1> QED BY <1>1, <1>2

(* A heap has the pool it was created with and no other: it fits in one, and *)
(* none is merged into it.                                                   *)
LEMMA PoolsInUse ==
  ASSUME OnePool, HeapsInv, Exact, NEW c \in InUse
  PROVE  PoolsOf(c) = {tlsf_get_pool(c)}
<1>1. smd_tlsf = 1 /\ RegionsIn(region, brk)
  BY DEF HeapsInv, Typed, HeapSound, Sound
<1>2. CASE c = 1
  BY <1>1, <1>2 DEF PoolsOf
<1>3. CASE c # 1
  <2>1. c \in DOMAIN region /\ c # NULL
    BY <1>3, HeapsInUse DEF Serves, InUse
  <2>2. FullPools(region[c].size) = 0
    <3> DEFINE words == region[c].size
               limit == SDRAD_TLSF_MAX_HEAP_SIZE
    <3>1. words \in Nat \ {0} /\ words <= limit /\ limit \in Nat \ {0}
      BY <1>1, <2>1, HeapsAssumption DEF Exact, Sized, OnePool, RegionsIn
    <3> HIDE DEF words, limit
    <3>2. words - 1 \in Nat /\ words - 1 < limit
      BY <3>1
    <3>3. (words - 1) \div limit = 0
      BY <3>1, <3>2
    <3> QED BY <3>3 DEF FullPools, words, limit
  <2>3. {PoolAt(c, k) : k \in 1 .. FullPools(region[c].size)} = {}
    BY <2>2
  <2>4. PoolAt(c, 0) = tlsf_get_pool(c)
    BY DEF PoolAt
  <2>5. CreatedPools(c) = {tlsf_get_pool(c)}
    BY <2>3, <2>4 DEF CreatedPools
  <2>6. {x \in DOMAIN region : region[x].heap = c /\ x # c} = {}
    BY <1>1, <2>1 DEF RegionsIn
  <2> QED BY <1>1, <1>3, <2>5, <2>6 DEF PoolsOf
<1> QED BY <1>2, <1>3

(* What a walk over a heap in use comes to.                                  *)
LEMMA HeapWalked ==
  ASSUME HeapsInv, Exact, NEW c \in InUse
  PROVE  /\ ToSet(tlsf_walk_pool(mem, tlsf_get_pool(c)))
              = {b \in DOMAIN mem.blk : In(Ext(region), c, b) /\ mem.blk[b].size # 0}
         /\ c \in DOMAIN Ext(region)
<1>1. c \in DOMAIN Ext(region) /\ Between(mem, Ext(region), {}, {})
  BY HeapsInUse
<1>2. brk \in Nat /\ (\A a \in DOMAIN mem.blk : a < brk) /\ Headed(mem.blk, Ext(region))
  BY MemoryEnds DEF HeapsInv, Exact, Rows
<1> DEFINE ext == Ext(region)
<1> HIDE DEF ext
<1>3. PoolWalk(mem, ext, c, FirstBlock(tlsf_get_pool(c)), tlsf_walk_pool(mem, tlsf_get_pool(c)))
  BY <1>1, <1>2, WalkIsSound DEF ext
<1> QED BY <1>1, <1>3 DEF PoolWalk, ext

(* tlsf_check and tlsf_check_pool find nothing wrong with any heap.          *)
THEOREM HeapsPassTheirChecks ==
  ASSUME OnePool, PoolsFit, RequestsFit, OneWayOut
  PROVE  Spec => []HeapsChecked
<1>1. HeapsInv /\ Exact => HeapsChecked
  <2> SUFFICES ASSUME HeapsInv, Exact, NEW c \in InUse
               PROVE  tlsf_check(mem, c) /\ \A q \in PoolsOf(c) : tlsf_check_pool(mem, q)
    BY DEF HeapsChecked
  <2>1. c \in DOMAIN Ext(region) /\ Between(mem, Ext(region), {}, {})
    BY HeapsInUse
  <2>2. brk \in Nat /\ (\A a \in DOMAIN mem.blk : a < brk) /\ Headed(mem.blk, Ext(region))
    BY MemoryEnds DEF HeapsInv, Exact, Rows
  <2>3. tlsf_check(mem, c) /\ tlsf_check_pool(mem, tlsf_get_pool(c))
    BY <2>1, <2>2, CheckIsSound, CheckPoolIsSound
  <2> QED BY <2>3, PoolsInUse
<1> QED BY <1>1, HeapsInvariance, ExactInvariance, PTL

(* The lists of a heap hold exactly the free blocks that a walk over its     *)
(* pools comes to: none is lost, and none that is in use is there.           *)
THEOREM ListsStayExact ==
  ASSUME OnePool, PoolsFit, RequestsFit, OneWayOut
  PROVE  Spec => []ListsExact
<1>1. HeapsInv /\ Exact => ListsExact
  <2> SUFFICES ASSUME HeapsInv, Exact, NEW c \in InUse
               PROVE  FreeBlocks(c) = {b \in UNION {ToSet(tlsf_walk_pool(mem, q)) : q \in PoolsOf(c)} :
                                         mem.blk[b].free}
    BY DEF ListsExact
  <2> DEFINE ext == Ext(region)
             walked == ToSet(tlsf_walk_pool(mem, tlsf_get_pool(c)))
  <2>1. c \in DOMAIN ext /\ Between(mem, ext, {}, {})
    BY HeapsInUse
  <2>2. walked = {b \in DOMAIN mem.blk : In(ext, c, b) /\ mem.blk[b].size # 0}
    BY HeapWalked
  <2>3. \A b \in DOMAIN mem.blk : mem.blk[b].free => mem.blk[b].size # 0
    BY <2>1 DEF Between, Tiled
  <2>4. UNION {ToSet(tlsf_walk_pool(mem, q)) : q \in PoolsOf(c)} = walked
    BY PoolsInUse
  <2> HIDE DEF ext, walked
  <2>5. FreeBlocks(c) = {b \in DOMAIN mem.blk : mem.blk[b].free /\ In(ext, c, b)}
    BY <2>1, ListsAreExact DEF FreeBlocks
  <2>6. {b \in walked : mem.blk[b].free} = {b \in DOMAIN mem.blk : mem.blk[b].free /\ In(ext, c, b)}
    BY <2>2, <2>3
  <2> QED BY <2>4, <2>5, <2>6
<1> QED BY <1>1, HeapsInvariance, ExactInvariance, PTL

(* A heap of a domain in which the application holds nothing is one free     *)
(* block again, as it was created.                                           *)
THEOREM NothingIsLeftBehind ==
  ASSUME OnePool, PoolsFit, RequestsFit, OneWayOut
  PROVE  Spec => []NoResidue
<1>1. HeapsInv /\ Exact => NoResidue
  <2> SUFFICES ASSUME HeapsInv, Exact, NEW c \in OwnHeaps, \A p \in DOMAIN live : HeapOf(p) # c
               PROVE  \A q \in PoolsOf(c) :
                        Len(tlsf_walk_pool(mem, q)) = 1 /\ mem.blk[FirstBlock(q)].free
    BY DEF NoResidue
  <2>1. PICK s \in Domains : sdi_init_heap_flag[s] /\ c = sdi_tlsf[s]
    BY DEF OwnHeaps, Domains
  <2>2. HeapSound /\ RegionsIn(region, brk) /\ Layout(Ext(region)) /\ c # NULL /\ c \in DOMAIN region
    BY <2>1 DEF HeapsInv, Owning, Serves, HeapSound, Sound, Valid, Between
  <2>3. c \in InUse
    BY <2>1, <2>2 DEF InUse, Domains
  <2>4. c \in DOMAIN Ext(region) /\ Between(mem, Ext(region), {}, {}) /\ DOMAIN mem.blk \subseteq Nat
    BY <2>3, HeapsInUse DEF Between
  <2>5. brk \in Nat /\ (\A a \in DOMAIN mem.blk : a < brk) /\ Headed(mem.blk, Ext(region))
    BY MemoryEnds DEF HeapsInv, Exact, Rows
  <2>6. ASSUME NEW b \in DOMAIN mem.blk, In(Ext(region), c, b), Used(mem.blk, b) PROVE FALSE
    <3> DEFINE p == block_to_ptr(b)
    <3>1. Within(region, c, b) /\ b \in Nat
      BY <2>2, <2>4, <2>6, ExtFacts
    <3>2. p \in DOMAIN live /\ block_from_ptr(p) = b
      BY <2>1, <2>6, <3>1 DEF Exact, Accounted, Told, block_to_ptr, block_from_ptr, block_start_offset
    <3> HIDE DEF p
    <3>3. PICK a \in DOMAIN region : HeapOf(p) = a /\ Within(region, a, b)
      BY <2>2, <3>2, WhereHeld
    <3> QED BY <2>2, <3>1, <3>2, <3>3, OneRegion
  <2>7. Len(tlsf_walk_pool(mem, tlsf_get_pool(c))) = 1 /\ mem.blk[FirstBlock(tlsf_get_pool(c))].free
    BY <2>4, <2>5, <2>6, UnusedIsWhole
  <2> QED BY <2>3, <2>7, PoolsInUse
<1> QED BY <1>1, HeapsInvariance, ExactInvariance, PTL

(* A list without a repetition has as many values as entries.                *)
LEMMA OnceCounted ==
  ASSUME NEW n \in Nat, NEW f, f = [i \in 1 .. n |-> f[i]], \A i, j \in 1 .. n : f[i] = f[j] => i = j
  PROVE  IsFiniteSet({f[i] : i \in 1 .. n}) /\ Cardinality({f[i] : i \in 1 .. n}) = n
<1> DEFINE T == {f[i] : i \in 1 .. n}
<1>1. f \in Bijection(1 .. n, T)
  BY DEF Bijection, Injection, Surjection, IsInjective
<1>2. ExistsBijection(1 .. n, T)
  BY <1>1 DEF ExistsBijection
<1> HIDE DEF T
<1>3. IsFiniteSet(1 .. n) /\ Cardinality(1 .. n) = n
  <2>1. 1 \in Int /\ n \in Int
    OBVIOUS
  <2>2. IsFiniteSet(1 .. n) /\ Cardinality(1 .. n) = IF 1 > n THEN 0 ELSE n - 1 + 1
    BY <2>1, FS_Interval, Zenon
  <2> QED BY <2>2
<1>4. IsFiniteSet(T) /\ Cardinality(T) = n
  BY <1>2, <1>3, FS_Bijection
<1> QED BY <1>4 DEF T

LEMMA KeptCounted ==
  ASSUME Typed, KeptOnce
  PROVE  Cardinality(Kept) = Len(udi_control) + Len(cache)
<1> DEFINE N == {udi_control[i].node : i \in DOMAIN udi_control}
           E == {cache[i].entry : i \in DOMAIN cache}
<1>1. /\ Len(udi_control) \in Nat /\ DOMAIN udi_control = 1 .. Len(udi_control)
      /\ Len(cache) \in Nat /\ DOMAIN cache = 1 .. Len(cache)
  BY LenProperties DEF Typed
<1>2. /\ \A i, j \in 1 .. Len(udi_control) : udi_control[i].node = udi_control[j].node => i = j
      /\ \A i, j \in 1 .. Len(cache) : cache[i].entry = cache[j].entry => i = j
  BY <1>1 DEF KeptOnce, NodesOnce, EntriesOnce
<1>3. IsFiniteSet(N) /\ Cardinality(N) = Len(udi_control)
  <2> DEFINE f == [i \in 1 .. Len(udi_control) |-> udi_control[i].node]
  <2>1. N = {f[i] : i \in 1 .. Len(udi_control)}
    BY <1>1
  <2>2. f = [i \in 1 .. Len(udi_control) |-> f[i]] /\ \A i, j \in 1 .. Len(udi_control) : f[i] = f[j] => i = j
    BY <1>2
  <2> DEFINE n == Len(udi_control)
  <2>3. n \in Nat /\ N = {f[i] : i \in 1 .. n}
    BY <1>1, <2>1
  <2> HIDE DEF f, n, N
  <2>4. f = [i \in 1 .. n |-> f[i]] /\ \A i, j \in 1 .. n : f[i] = f[j] => i = j
    BY <2>2 DEF n
  <2>5. IsFiniteSet({f[i] : i \in 1 .. n}) /\ Cardinality({f[i] : i \in 1 .. n}) = n
    BY <2>3, <2>4, OnceCounted
  <2> QED BY <2>3, <2>5 DEF n
<1>4. IsFiniteSet(E) /\ Cardinality(E) = Len(cache)
  <2> DEFINE f == [i \in 1 .. Len(cache) |-> cache[i].entry]
  <2>1. E = {f[i] : i \in 1 .. Len(cache)}
    BY <1>1
  <2>2. f = [i \in 1 .. Len(cache) |-> f[i]] /\ \A i, j \in 1 .. Len(cache) : f[i] = f[j] => i = j
    BY <1>2
  <2> DEFINE n == Len(cache)
  <2>3. n \in Nat /\ E = {f[i] : i \in 1 .. n}
    BY <1>1, <2>1
  <2> HIDE DEF f, n, E
  <2>4. f = [i \in 1 .. n |-> f[i]] /\ \A i, j \in 1 .. n : f[i] = f[j] => i = j
    BY <2>2 DEF n
  <2>5. IsFiniteSet({f[i] : i \in 1 .. n}) /\ Cardinality({f[i] : i \in 1 .. n}) = n
    BY <2>3, <2>4, OnceCounted
  <2> QED BY <2>3, <2>5 DEF n
<1>5. N \cap E = {}
  BY DEF KeptOnce
<1>6. Kept = N \cup E
  BY DEF Kept
<1> HIDE DEF N, E
<1>7. Cardinality(Kept) = Cardinality(N) + Cardinality(E) - Cardinality({})
  BY <1>3, <1>4, <1>5, <1>6, FS_Union
<1> QED BY <1>1, <1>3, <1>4, <1>7, FS_EmptySet

(* The monitor's nodes and cache entries are blocks of its heap, in use, and *)
(* each is its own: no two of them are one block, and the application was    *)
(* given none of them.                                                       *)
THEOREM MonitorKeepsItsBlocks ==
  ASSUME OnePool, PoolsFit, RequestsFit, OneWayOut
  PROVE  Spec => []MonitorBlocksKept
<1>1. HeapsInv /\ Exact => MonitorBlocksKept
  <2> SUFFICES ASSUME HeapsInv, Exact PROVE MonitorBlocksKept
    OBVIOUS
  <2>1. Cardinality(Kept) = Len(udi_control) + Len(cache)
    BY KeptCounted DEF HeapsInv, Exact
  <2>2. /\ Sound(mem, region, brk, live, Kept) /\ RegionsIn(region, brk) /\ KeptIn(Kept, mem.blk)
        /\ smd_tlsf = 1 /\ 1 \in InUse
    BY DEF HeapsInv, Typed, HeapSound, Sound, InUse, NULL
  <2>3. Ext(region)[1] = MonitorSize
    BY <2>2, MonitorExt
  <2>4. ToSet(tlsf_walk_pool(mem, tlsf_get_pool(1)))
          = {b \in DOMAIN mem.blk : In(Ext(region), 1, b) /\ mem.blk[b].size # 0}
    BY <2>2, HeapWalked
  <2>5. ASSUME NEW p \in Kept
        PROVE  /\ block_from_ptr(p) \in ToSet(tlsf_walk_pool(mem, tlsf_get_pool(smd_tlsf)))
               /\ ~mem.blk[block_from_ptr(p)].free
               /\ p \notin DOMAIN live
    <3> DEFINE b == block_from_ptr(p)
    <3>1. Used(mem.blk, b) /\ 1 <= b /\ b < 1 + MonitorSize
      BY <2>2 DEF KeptIn
    <3>2. In(Ext(region), 1, b)
      BY <2>3, <3>1 DEF In
    <3>3. b \in ToSet(tlsf_walk_pool(mem, tlsf_get_pool(1))) /\ ~mem.blk[b].free
      BY <2>4, <3>1, <3>2 DEF Used
    <3>4. p \notin DOMAIN live
      BY <2>2, HeldApart
    <3> QED BY <2>2, <3>3, <3>4
  <2> QED BY <2>1, <2>5 DEF MonitorBlocksKept
<1> QED BY <1>1, HeapsInvariance, ExactInvariance, PTL

-----------------------------------------------------------------------------
(* That the monitor's heap has room *)

(* The words of its one pool, and what a node and an entry take of them, with *)
(* their headers.  A node at the head of the list is never freed, nor is the *)
(* entry of a heap that is used again.                                       *)
PoolWords  == MonitorSize - TLSF_SIZE - pool_overhead
NodeWords  == adjust_request_size(NodeSize, 1) + 1
EntryWords == adjust_request_size(EntrySize, 1) + 1
Taken(nodes, entries) == nodes * NodeWords + entries * EntryWords

(* It fits a node and an entry for every domain that is made, the node of    *)
(* the root, and one request more, less its header: the search for a block   *)
(* begins above the size asked for, and twice that size is always found.     *)
MonitorFits ==
  /\ MaxDomains \in Nat
  /\ \A size \in {NodeSize, EntrySize} :
       /\ adjust_request_size(size, 1) # 0
       /\ Taken(MaxDomains + 1, MaxDomains) + adjust_request_size(size, 1) <= PoolWords

(* A free block of the monitor's with so many words. *)
Spare(m, ext, words) ==
  \E e \in DOMAIN m.blk : m.blk[e].free /\ In(ext, 1, e) /\ m.blk[e].size >= words

(* One block has the words that no node and no entry has taken.              *)
Room ==
  /\ made \in 0 .. MaxDomains /\ Len(udi_control) <= made
  /\ Spare(mem, Ext(region), PoolWords - Taken(1 + made, made - Len(udi_control)))

LEMMA RoomNumbers ==
  ASSUME MonitorFits
  PROVE  /\ PoolWords \in Int /\ NodeWords \in Nat /\ EntryWords \in Nat
         /\ adjust_request_size(NodeSize, 1) \in Nat /\ adjust_request_size(EntrySize, 1) \in Nat
         /\ \A n, k \in Nat : /\ Taken(n, k) \in Nat
                              /\ Taken(n + 1, k) = Taken(n, k) + NodeWords
                              /\ Taken(n, k + 1) = Taken(n, k) + EntryWords
         /\ Taken(1, 0) = NodeWords
<1>1. /\ adjust_request_size(NodeSize, 1) \in Nat /\ adjust_request_size(EntrySize, 1) \in Nat
  BY HeapsAssumption, AdjustedSize
<1>2. PoolWords \in Int
  BY HeapsAssumption, TlsfAssumption DEF PoolWords, pool_overhead, block_header_overhead
<1>3. NodeWords \in Nat /\ EntryWords \in Nat
  BY <1>1 DEF NodeWords, EntryWords
<1> HIDE DEF NodeWords, EntryWords
<1>4. ASSUME NEW n \in Nat, NEW k \in Nat
      PROVE  /\ Taken(n, k) \in Nat /\ Taken(n + 1, k) = Taken(n, k) + NodeWords
             /\ Taken(n, k + 1) = Taken(n, k) + EntryWords
  <2>1. (n + 1) * NodeWords = n * NodeWords + NodeWords /\ n * NodeWords \in Nat
    BY <1>3
  <2>2. (k + 1) * EntryWords = k * EntryWords + EntryWords /\ k * EntryWords \in Nat
    BY <1>3
  <2> QED BY <1>3, <2>1, <2>2 DEF Taken
<1>5. Taken(1, 0) = NodeWords
  BY <1>3 DEF Taken
<1> QED BY <1>1, <1>2, <1>3, <1>4, <1>5

(* More nodes and more entries take more words. *)
LEMMA TakenGrows ==
  ASSUME MonitorFits, NEW n \in Nat, NEW a \in Nat, NEW k \in Nat, NEW b \in Nat, n <= a, k <= b
  PROVE  Taken(n, k) <= Taken(a, b)
<1>1. NodeWords \in Nat /\ EntryWords \in Nat
  BY RoomNumbers
<1> HIDE DEF NodeWords, EntryWords
<1>2. n * NodeWords <= a * NodeWords /\ n * NodeWords \in Nat /\ a * NodeWords \in Nat
  <2>1. PICK d \in Nat : a = n + d
    <3>1. a - n \in Nat /\ a = n + (a - n)
      OBVIOUS
    <3> QED BY <3>1
  <2>2. (n + d) * NodeWords = n * NodeWords + d * NodeWords /\ d * NodeWords \in Nat /\ n * NodeWords \in Nat
    BY <1>1
  <2> QED BY <2>1, <2>2
<1>3. k * EntryWords <= b * EntryWords /\ k * EntryWords \in Nat /\ b * EntryWords \in Nat
  <2>1. PICK d \in Nat : b = k + d
    <3>1. b - k \in Nat /\ b = k + (b - k)
      OBVIOUS
    <3> QED BY <3>1
  <2>2. (k + d) * EntryWords = k * EntryWords + d * EntryWords /\ d * EntryWords \in Nat /\ k * EntryWords \in Nat
    BY <1>1
  <2> QED BY <2>1, <2>2
<1> QED BY <1>2, <1>3 DEF Taken

(* A request is answered from the spare block, and the rest stays spare.     *)
LEMMA SpareGiven ==
  ASSUME NEW m, NEW ext, Valid(m, ext), 1 \in DOMAIN ext, NEW size \in Nat,
         adjust_request_size(size, 1) # 0, NEW words \in Int, words > 2 * adjust_request_size(size, 1),
         Spare(m, ext, words), NEW r, r = tlsf_malloc(m, 1, size)
  PROVE  r.ptr # NULL /\ Valid(r.mem, ext) /\ Spare(r.mem, ext, words - (adjust_request_size(size, 1) + 1))
<1> DEFINE adjust == adjust_request_size(size, 1)
<1>1. PICK e \in DOMAIN m.blk : m.blk[e].free /\ In(ext, 1, e) /\ m.blk[e].size >= words
  BY DEF Spare
<1>2. adjust \in Nat /\ adjust # 0 /\ m.blk[e].size \in Nat
  BY AdjustedSize, BlockParts DEF Valid
<1> HIDE DEF adjust
<1>3. m.blk[e].size > 2 * adjust
  BY <1>1, <1>2 DEF adjust
<1>4. /\ r.ptr # NO_BLOCK
      /\ \E f \in DOMAIN r.mem.blk : /\ r.mem.blk[f].free /\ In(ext, 1, f)
                                     /\ r.mem.blk[f].size >= m.blk[e].size - (adjust + 1)
  BY <1>1, <1>2, <1>3, RequestLeavesRest DEF adjust
<1>5. Valid(r.mem, ext)
  <2>1. Allocated(m, r, ext, 1, size)
    BY MallocIsSound
  <2> QED BY <1>4, <2>1 DEF Allocated
<1>6. Spare(r.mem, ext, words - (adjust + 1))
  <2>1. PICK f \in DOMAIN r.mem.blk : /\ r.mem.blk[f].free /\ In(ext, 1, f)
                                      /\ r.mem.blk[f].size >= m.blk[e].size - (adjust + 1)
    BY <1>4
  <2>2. r.mem.blk[f].size \in Nat
    BY <1>5, BlockParts DEF Valid
  <2>3. r.mem.blk[f].size >= words - (adjust + 1)
    BY <1>1, <1>2, <2>1, <2>2
  <2> QED BY <2>1, <2>3 DEF Spare
<1> QED BY <1>4, <1>5, <1>6 DEF adjust, NULL, NO_BLOCK

(* A step in the other heaps leaves the spare block alone.                   *)
LEMMA SpareStays ==
  ASSUME NEW m, NEW n, NEW ext, Valid(m, ext), Valid(n, ext), 1 \in DOMAIN ext,
         NEW S, NEW T, Intact(m.blk, n.blk, S), Steady(m.blk, n.blk, T),
         \A x \in S \cup T : ~In(ext, 1, x), NEW words, Spare(m, ext, words)
  PROVE  Spare(n, ext, words)
<1>1. PICK e \in DOMAIN m.blk : m.blk[e].free /\ In(ext, 1, e) /\ m.blk[e].size >= words
  BY DEF Spare
<1>2. e \in DOMAIN n.blk /\ n.blk[e].free /\ n.blk[e].size = m.blk[e].size
  BY <1>1, FreeBlocksStay DEF Valid
<1> QED BY <1>1, <1>2 DEF Spare

(* Creating a heap above the monitor's does so too.                          *)
LEMMA SpareKept ==
  ASSUME NEW m, NEW ext, Valid(m, ext), NEW c, NEW w, MayCreate(ext, c, w), c >= 1 + MonitorSize,
         NEW n, n = tlsf_create_with_pool(m, c, w), NEW new, new = With(ext, c, w),
         1 \in DOMAIN ext, ext[1] = MonitorSize, NEW words, Spare(m, ext, words)
  PROVE  Spare(n, new, words)
<1>1. PICK e \in DOMAIN m.blk : m.blk[e].free /\ In(ext, 1, e) /\ m.blk[e].size >= words
  BY DEF Spare
<1>2. /\ c \in Nat /\ w \in Nat /\ MonitorSize \in Nat /\ e \in Nat /\ 1 # c
  BY <1>1, HeapsAssumption DEF MayCreate, Valid, Between
<1>3. In(new, 1, e) /\ e \notin c .. c + w - 1
  <2>1. new[1] = MonitorSize
    BY <1>2 DEF With
  <2> QED BY <1>1, <1>2, <2>1 DEF In
<1>4. e \in DOMAIN n.blk /\ n.blk[e] = m.blk[e]
  BY <1>1, <1>3, CreateIsSound
<1> QED BY <1>1, <1>3, <1>4 DEF Spare

(* What a region has is not the monitor's. *)
LEMMA NotMonitors ==
  ASSUME NEW reg, NEW end, RegionsIn(reg, end), Layout(Ext(reg)), NEW a \in DOMAIN reg,
         NEW b \in Nat, In(Ext(reg), a, b)
  PROVE  ~In(Ext(reg), 1, b)
<1>1. ~(b < 1 + MonitorSize) /\ Ext(reg)[1] = MonitorSize
  BY ExtFacts, OneRegion
<1> QED BY <1>1 DEF In

(* What was spare in the monitor's heap is spare. *)
SpareAfter == \A words : Spare(mem, Ext(region), words) => Spare(mem', Ext(region'), words)

LEMMA SpareKeepsRoom ==
  ASSUME Room, SpareAfter, UNCHANGED listVars
  PROVE  Room'
<1>1. UNCHANGED <<made, udi_control>>
  BY DEF listVars
<1>2. Room' <=> /\ made \in 0 .. MaxDomains /\ Len(udi_control) <= made
                /\ Spare(mem', Ext(region'), PoolWords - Taken(1 + made, made - Len(udi_control)))
  BY <1>1 DEF Room
<1> QED BY <1>2 DEF Room, SpareAfter

(* In the heaps there are, with no region given to or taken from one.        *)
LEMMA StepKeepsSpare ==
  ASSUME HeapSound, HeapSound', UNCHANGED region, NEW a \in DOMAIN region,
         NEW S, NEW T, Intact(mem.blk, mem'.blk, S), Steady(mem.blk, mem'.blk, T),
         \A x \in S \cup T : x \in Nat /\ In(Ext(region), a, x)
  PROVE  SpareAfter
<1> DEFINE ext == Ext(region)
<1>1. /\ Valid(mem, ext) /\ Valid(mem', ext) /\ RegionsIn(region, brk) /\ Layout(ext) /\ 1 \in DOMAIN ext
  BY MonitorExt DEF HeapSound, Sound, Valid, Between
<1>2. \A x \in S \cup T : ~In(ext, 1, x)
  BY <1>1, NotMonitors
<1> HIDE DEF ext
<1>3. ASSUME NEW words, Spare(mem, ext, words) PROVE Spare(mem', ext, words)
  BY <1>1, <1>2, <1>3, SpareStays
<1> QED BY <1>3 DEF SpareAfter, ext

LEMMA StillKeepsRoom ==
  ASSUME Room, UNCHANGED <<mem, region>>, UNCHANGED listVars
  PROVE  Room'
BY SpareKeepsRoom DEF SpareAfter

LEMMA AllocationKeepsRoom ==
  ASSUME OnePool, HeapsInv, HeapsInv', Room, NEW m, NEW c, NEW s \in Domains, NEW size \in Sizes,
         NEW align, NEW r, Allocates(m, c, s, size, align, r)
  PROVE  Room'
<1> DEFINE new == region'
           ext == Ext(new)
           n   == mem'
           b   == block_from_ptr(r.ptr)
<1>1. Asked(m, c) /\ Allocated(m, r, ext, c, size)
  BY CallAnswered DEF HeapsInv
<1>2. /\ Valid(m, ext) /\ RegionsIn(new, brk') /\ Layout(ext) /\ c \in DOMAIN new /\ Valid(n, ext)
      /\ 1 \in DOMAIN ext
  BY <1>1, MonitorExt DEF Asked, Sound, Valid, Between, HeapsInv, HeapSound
<1>3. Asking(m, c, s) /\ UNCHANGED listVars /\ n = r.mem
  BY DEF Allocates
<1> HIDE DEF ext, new, n
<1>4. ASSUME NEW words, Spare(mem, Ext(region), words) PROVE Spare(m, ext, words)
  <2>1. CASE KeepHeaps /\ m = mem
    BY <1>4, <2>1 DEF KeepHeaps, ext, new
  <2>2. CASE c = brk /\ m = NewHeap(mem) /\ MapHeap(s, SDRAD_DEFAULT_HEAP_SIZE)
    <3> DEFINE w == SDRAD_DEFAULT_HEAP_SIZE
    <3>1. m = tlsf_create_with_pool(mem, brk, w) /\ new = With(region, brk, [size |-> w, heap |-> brk])
      BY <2>2, OnePoolCreated DEF NewHeap, MapHeap, new
    <3>2. w \in Nat \ {0} /\ w <= block_size_max
      BY HeapsAssumption, Numbers DEF OnePool
    <3>3. /\ brk \in Nat /\ brk >= 1 + MonitorSize /\ RegionsIn(region, brk) /\ Layout(Ext(region))
          /\ Valid(mem, Ext(region)) /\ 1 \in DOMAIN Ext(region) /\ Ext(region)[1] = MonitorSize
      BY MonitorExt DEF HeapsInv, HeapSound, Sound, Valid, Between
    <3> HIDE DEF w
    <3>4. Mapped(region, new, brk, w)
      BY <3>1, <3>2, <3>3, Mapping
    <3>5. ext = With(Ext(region), brk, w) /\ MayCreate(Ext(region), brk, w)
      BY <3>4 DEF Mapped, ext
    <3> QED BY <1>4, <3>1, <3>3, <3>5, SpareKept
  <2> QED BY <1>3, <2>1, <2>2 DEF Asking
<1>5. ASSUME NEW words, Spare(m, ext, words) PROVE Spare(n, ext, words)
  <2>1. CASE r.ptr = NO_BLOCK
    BY <1>1, <1>3, <1>5, <2>1 DEF Allocated
  <2>2. CASE r.ptr # NO_BLOCK
    <3>1. /\ Intact(m.blk, n.blk, {}) /\ Steady(m.blk, n.blk, {b}) /\ In(ext, c, b) /\ Used(n.blk, b)
      BY <1>1, <1>3, <2>2 DEF Allocated
    <3> HIDE DEF b
    <3>2. b \in Nat
      BY <1>2, <3>1 DEF Used, Valid, Between
    <3>3. \A x \in {} \cup {b} : ~In(ext, 1, x)
      BY <1>2, <3>1, <3>2, NotMonitors DEF ext
    <3> QED BY <1>2, <1>5, <3>1, <3>3, SpareStays
  <2> QED BY <2>1, <2>2
<1>6. SpareAfter
  BY <1>4, <1>5 DEF SpareAfter, ext, new, n
<1> QED BY <1>3, <1>6, SpareKeepsRoom

(* Freeing what the application holds at p, in the heap at c it is from.     *)
LEMMA FreeingKeepsRoom ==
  ASSUME HeapSound, HeapSound', Room, UNCHANGED region, UNCHANGED listVars, NEW p \in DOMAIN live,
         NEW c \in DOMAIN region, Within(region, c, block_from_ptr(p)), mem' = tlsf_free(mem, c, p)
  PROVE  Room'
<1> DEFINE b   == block_from_ptr(p)
           ext == Ext(region)
<1>1. RegionsIn(region, brk) /\ Valid(mem, ext)
  BY DEF HeapSound, Sound
<1>2. Used(mem.blk, b) /\ block_to_ptr(b) = p
  BY BlockOfPointer
<1>3. c \in DOMAIN ext /\ In(ext, c, b)
  BY <1>1, ExtFacts
<1>4. b \in Nat
  BY <1>1, <1>2 DEF Used, Valid, Between
<1> HIDE DEF b, ext
<1>5. Intact(mem.blk, mem'.blk, {b}) /\ Steady(mem.blk, mem'.blk, {})
  BY <1>1, <1>2, <1>3, FreeIsSound
<1>6. SpareAfter
  BY <1>3, <1>4, <1>5, StepKeepsSpare DEF ext
<1> QED BY <1>6, SpareKeepsRoom

LEMMA FreeKeepsRoom ==
  ASSUME HeapsInv, HeapsInv', Room, NEW p \in DOMAIN live, free(p) \/ sdrad_free(p)
  PROVE  Room'
<1>1. HeapSound /\ HeapSound' /\ Typed /\ Owning
  BY DEF HeapsInv
<1>2. CASE free(p)
  <2>1. /\ HeapOf(p) = tlsf_structure /\ mem' = tlsf_free(mem, tlsf_structure, p)
        /\ UNCHANGED region /\ UNCHANGED listVars
    BY <1>2 DEF free, KeepHeaps
  <2>2. tlsf_structure \in DOMAIN region /\ Within(region, tlsf_structure, block_from_ptr(p))
    BY <1>1, <2>1, WhereHeld
  <2> QED BY <1>1, <2>1, <2>2, FreeingKeepsRoom
<1>3. CASE sdrad_free(p)
  <2> DEFINE c == sdrad_search_tlsf_control(p)
  <2>1. /\ IF c = NULL THEN UNCHANGED mem ELSE mem' = tlsf_free(mem, c, p)
        /\ UNCHANGED region /\ UNCHANGED listVars
    BY <1>3 DEF sdrad_free, KeepHeaps
  <2>2. c # NULL => c \in DOMAIN region /\ Within(region, c, block_from_ptr(p))
    BY <1>1, SearchedHeap
  <2> HIDE DEF c
  <2>3. CASE c = NULL
    BY <2>1, <2>3, StillKeepsRoom
  <2>4. CASE c # NULL
    BY <1>1, <2>1, <2>2, <2>4, FreeingKeepsRoom
  <2> QED BY <2>3, <2>4
<1> QED BY <1>2, <1>3

LEMMA ResizeKeepsRoom ==
  ASSUME RequestsFit, HeapsInv, HeapsInv', Room, NEW size \in Sizes, NEW p \in DOMAIN live,
         realloc(p, size) \/ \E sdi \in Listed : sdrad_realloc(sdi, p, size)
  PROVE  Room'
<1>1. PICK c : /\ HeapOf(p) = c /\ mem' = tlsf_realloc(mem, c, p, size).mem
               /\ UNCHANGED region /\ UNCHANGED listVars
  BY DEF realloc, sdrad_realloc, KeepHeaps
<1> DEFINE r   == tlsf_realloc(mem, c, p, size)
           b   == block_from_ptr(p)
           to  == block_from_ptr(r.ptr)
           ext == Ext(region)
<1>2. HeapSound /\ HeapSound'
  BY DEF HeapsInv
<1>3. /\ c \in DOMAIN region /\ Within(region, c, b) /\ Reallocated(mem, r, ext, c, b, size)
  BY <1>1, <1>2, ResizeAnswered
<1>4. RegionsIn(region, brk) /\ Valid(mem, ext) /\ Used(mem.blk, b) /\ mem' = r.mem /\ Valid(mem', ext)
  BY <1>1, <1>2, BlockOfPointer DEF HeapSound, Sound
<1>5. b \in Nat /\ In(ext, c, b)
  BY <1>3, <1>4, ExtFacts DEF Used, Valid, Between
<1> HIDE DEF r, b, to, ext
<1>6. CASE r.ptr = NO_BLOCK /\ size # 0
  <2>1. mem' = mem
    BY <1>3, <1>4, <1>6 DEF Reallocated
  <2> QED BY <1>1, <2>1, StillKeepsRoom
<1>7. CASE r.ptr = NO_BLOCK /\ size = 0
  <2>1. Intact(mem.blk, mem'.blk, {b}) /\ Steady(mem.blk, mem'.blk, {})
    BY <1>3, <1>4, <1>7 DEF Reallocated
  <2>2. SpareAfter
    BY <1>1, <1>2, <1>3, <1>5, <2>1, StepKeepsSpare DEF ext
  <2> QED BY <1>1, <2>2, SpareKeepsRoom
<1>8. CASE r.ptr # NO_BLOCK
  <2>1. /\ Intact(mem.blk, mem'.blk, {b}) /\ Steady(mem.blk, mem'.blk, {to})
        /\ Used(mem'.blk, to) /\ In(ext, c, to)
    BY <1>3, <1>4, <1>8 DEF Reallocated, to
  <2>2. to \in Nat
    BY <1>4, <2>1 DEF Used, Valid, Between
  <2>3. \A x \in {b} \cup {to} : x \in Nat /\ In(ext, c, x)
    BY <1>5, <2>1, <2>2
  <2>4. SpareAfter
    BY <1>1, <1>2, <1>3, <2>1, <2>3, StepKeepsSpare DEF ext
  <2> QED BY <1>1, <2>4, SpareKeepsRoom
<1> QED BY <1>6, <1>7, <1>8

(* Until all domains are made a node is answered, and an entry as long as    *)
(* there is a domain; with the words that are left then.                     *)
LEMMA RoomAnswers ==
  ASSUME MonitorFits, HeapsInv, Room, NEW left, left = made - Len(udi_control)
  PROVE  /\ made < MaxDomains =>
              LET r == tlsf_malloc(mem, smd_tlsf, NodeSize)
              IN  /\ r.ptr # NULL /\ Valid(r.mem, Ext(region))
                  /\ Spare(r.mem, Ext(region), PoolWords - Taken(2 + made, left))
         /\ udi_control # <<>> =>
              LET r == tlsf_malloc(mem, smd_tlsf, EntrySize)
              IN  /\ r.ptr # NULL /\ Valid(r.mem, Ext(region))
                  /\ Spare(r.mem, Ext(region), PoolWords - Taken(1 + made, left + 1))
<1> DEFINE ext  == Ext(region)
           node == adjust_request_size(NodeSize, 1)
           item == adjust_request_size(EntrySize, 1)
           len  == Len(udi_control)
           W    == PoolWords - Taken(1 + made, left)
<1>1. /\ Valid(mem, ext) /\ 1 \in DOMAIN ext /\ smd_tlsf = 1 /\ NodeSize \in Nat /\ EntrySize \in Nat
  BY MonitorExt, HeapsAssumption DEF HeapsInv, Typed, HeapSound, Sound
<1>2. made \in Nat /\ MaxDomains \in Nat /\ made <= MaxDomains /\ len \in Nat /\ len <= made /\ left \in Nat
  <2>1. len \in Nat
    BY LenProperties DEF HeapsInv, Typed
  <2> HIDE DEF len
  <2>2. made \in 0 .. MaxDomains /\ len <= made /\ left = made - len
    BY DEF Room, len
  <2>3. MaxDomains \in Nat
    BY DEF MonitorFits
  <2> QED BY <2>1, <2>2, <2>3
<1>3. Spare(mem, ext, W)
  BY DEF Room
<1>4. /\ PoolWords \in Int /\ node \in Nat /\ item \in Nat /\ NodeWords = node + 1 /\ EntryWords = item + 1
      /\ node # 0 /\ item # 0
  BY RoomNumbers DEF NodeWords, EntryWords, MonitorFits
<1>5. /\ Taken(MaxDomains + 1, MaxDomains) + node <= PoolWords
      /\ Taken(MaxDomains + 1, MaxDomains) + item <= PoolWords
  BY DEF MonitorFits
<1> DEFINE now   == Taken(1 + made, left)
           nodes == Taken(2 + made, left)
           items == Taken(1 + made, left + 1)
           all   == Taken(MaxDomains + 1, MaxDomains)
<1>6. /\ now \in Nat /\ nodes = now + NodeWords /\ items = now + EntryWords
      /\ nodes \in Nat /\ items \in Nat /\ all \in Nat
  <2>1. 1 + made \in Nat /\ 2 + made = (1 + made) + 1 /\ 2 + made \in Nat /\ left + 1 \in Nat
        /\ MaxDomains + 1 \in Nat
    BY <1>2
  <2>2. now \in Nat /\ Taken((1 + made) + 1, left) = now + NodeWords /\ items = now + EntryWords
    BY <1>2, <2>1, RoomNumbers
  <2>3. nodes \in Nat /\ items \in Nat
    BY <1>2, <2>1, RoomNumbers
  <2>4. all \in Nat
    BY <1>2, <2>1, RoomNumbers
  <2> QED BY <2>1, <2>2, <2>3, <2>4
<1> HIDE DEF node, item, ext, len
<1>7. ASSUME made < MaxDomains
      PROVE  LET r == tlsf_malloc(mem, smd_tlsf, NodeSize)
             IN  /\ r.ptr # NULL /\ Valid(r.mem, Ext(region))
                 /\ Spare(r.mem, Ext(region), PoolWords - Taken(2 + made, left))
  <2>1. nodes <= all
    BY <1>2, <1>7, TakenGrows
  <2>2. all + node <= PoolWords
    BY <1>5
  <2> HIDE DEF now, nodes, items, all
  <2>3. W \in Int /\ W > 2 * node /\ W - (node + 1) = PoolWords - nodes
    <3>1. W = PoolWords - now
      BY DEF now
    <3> HIDE DEF W
    <3> QED BY <1>4, <1>6, <2>1, <2>2, <3>1
  <2> HIDE DEF W
  <2> DEFINE r == tlsf_malloc(mem, 1, NodeSize)
  <2>4. r.ptr # NULL /\ Valid(r.mem, ext) /\ Spare(r.mem, ext, W - (node + 1))
    BY <1>1, <1>3, <1>4, <2>3, SpareGiven DEF node
  <2> QED BY <1>1, <2>3, <2>4 DEF ext, nodes
<1>8. ASSUME udi_control # <<>>
      PROVE  LET r == tlsf_malloc(mem, smd_tlsf, EntrySize)
             IN  /\ r.ptr # NULL /\ Valid(r.mem, Ext(region))
                 /\ Spare(r.mem, Ext(region), PoolWords - Taken(1 + made, left + 1))
  <2>1. len # 0
    BY <1>8, EmptySeq DEF HeapsInv, Typed, len
  <2>2. left + 1 <= MaxDomains
    BY <1>2, <2>1 DEF len
  <2>3. items <= all
    BY <1>2, <2>2, TakenGrows
  <2>4. all + item <= PoolWords
    BY <1>5
  <2> HIDE DEF now, nodes, items, all
  <2>5. W \in Int /\ W > 2 * item /\ W - (item + 1) = PoolWords - items
    <3>1. W = PoolWords - now
      BY DEF now
    <3> HIDE DEF W
    <3> QED BY <1>4, <1>6, <2>3, <2>4, <3>1
  <2> HIDE DEF W
  <2> DEFINE r == tlsf_malloc(mem, 1, EntrySize)
  <2>6. r.ptr # NULL /\ Valid(r.mem, ext) /\ Spare(r.mem, ext, W - (item + 1))
    BY <1>1, <1>3, <1>4, <2>5, SpareGiven DEF item
  <2> QED BY <1>1, <2>5, <2>6 DEF ext, items
<1> QED BY <1>7, <1>8

(* A domain is made: its node is taken from the spare block, and the heap it *)
(* gets, if any, lies above.                                                 *)
LEMMA InitKeepsRoom ==
  ASSUME OnePool, OneWayOut, MonitorFits, HeapsInv, Exact, Room, NEW kind \in Kinds, sdrad_init(kind)
  PROVE  Room'
<1> DEFINE r    == tlsf_malloc(mem, smd_tlsf, NodeSize)
           s    == NewSlot
           left == made - Len(udi_control)
           W    == PoolWords - Taken(2 + made, left)
           ext  == Ext(region)
<1>1. /\ Typed /\ Listing /\ Owning /\ Caching /\ Slots /\ HeapSound /\ status # Slot
      /\ smd_tlsf = 1 /\ NodeSize \in Nat /\ made < MaxDomains
  BY HeapsAssumption DEF HeapsInv, sdrad_init, Typed
<1>2. r.ptr # NULL /\ Valid(r.mem, ext) /\ Spare(r.mem, ext, W)
  BY <1>1, RoomAnswers
<1>3. /\ MapNewDomain(kind, r.ptr)
      /\ IF kind = "DATA" THEN sdrad_data_domain_init(r.mem) ELSE sdrad_execution_domain_init(r.mem)
      /\ UNCHANGED <<active_domain, live>>
  BY <1>2 DEF sdrad_init, sdrad_malloc_mdd, selVars
<1>4. r.ptr \in Nat
  BY <1>1, <1>2, MonitorAsks
<1>5. s \in Slot \ status /\ s = NewSlot
  BY <1>1, NewSlotFacts DEF s
<1>6. /\ brk \in Nat /\ brk >= 1 + MonitorSize /\ RegionsIn(region, brk) /\ Layout(ext)
      /\ 1 \in DOMAIN ext /\ ext[1] = MonitorSize
  BY <1>1, MonitorExt DEF HeapSound, Sound, Valid, Between
<1> HIDE DEF r, s, ext, W
<1>7. made' = made + 1 /\ Len(udi_control') = Len(udi_control) + 1
  <2> DEFINE node == r.ptr
  <2>1. /\ udi_control' = Cons([sdi |-> s, node |-> node], udi_control)
        /\ status' = status \cup {s} /\ made' = made + 1
        /\ sdi_parent_domain' = [sdi_parent_domain EXCEPT ![s] = active_domain]
        /\ active_domain' = active_domain /\ node \in Nat
    BY <1>3, <1>4, <1>5 DEF MapNewDomain
  <2> HIDE DEF node
  <2> QED BY <1>1, <1>5, <2>1, NewDomainListed
<1>8. Spare(mem', Ext(region'), W)
  <2>1. CASE CachedHeap
    <3> DEFINE h == Head(cache).heap
               w == region[h].size
    <3>1. TakeCachedHeap(r.mem) /\ cache # <<>>
      BY <1>3, <2>1 DEF sdrad_data_domain_init, sdrad_execution_domain_init, CachedHeap
    <3>2. h \in DOMAIN region /\ Head(cache).size = w
      <4>1. 1 \in DOMAIN cache /\ Head(cache) = cache[1]
        BY <1>1, <3>1, CacheTail
      <4> QED BY <1>1, <2>1, <4>1 DEF Caching, CachedHeap
    <3>3. mem' = tlsf_create_with_pool(r.mem, h, w) /\ region' = [region EXCEPT ![h].heap = h]
      BY <3>1, <3>2 DEF TakeCachedHeap, RecycledHeap
    <3> HIDE DEF h
    <3>4. /\ h \in Nat \ {0} /\ h >= 1 + MonitorSize /\ w \in Nat /\ w <= block_size_max
          /\ h \in DOMAIN ext /\ ext[h] = w
      <4>1. h \in Nat /\ h >= 1 + MonitorSize /\ w \in Nat /\ w <= block_size_max /\ MonitorSize \in Nat
        BY <1>6, <3>2, HeapsAssumption DEF RegionsIn
      <4>2. h \in DOMAIN ext /\ ext[h] = w
        BY <1>6, <3>2, ExtFacts DEF ext
      <4> QED BY <4>1, <4>2
    <3>5. Ext(region') = ext
      <4>1. \A a \in DOMAIN region : region[a] = [size |-> region[a].size, heap |-> region[a].heap]
        BY <1>6 DEF RegionsIn
      <4>2. DOMAIN region' = DOMAIN region /\ \A a \in DOMAIN region : region'[a].size = region[a].size
        BY <3>2, <3>3, <4>1
      <4> QED BY <4>2 DEF Ext, ext
    <3> HIDE DEF w
    <3>6. With(ext, h, w) = ext
      <4>1. ext \in [DOMAIN ext -> Nat]
        BY <1>6 DEF Layout
      <4> QED BY <3>4, <4>1 DEF With
    <3>7. MayCreate(ext, h, w)
      BY <1>6, <3>4, <3>6 DEF MayCreate
    <3>8. Spare(mem', ext, W)
      BY <1>2, <1>6, <3>3, <3>4, <3>6, <3>7, SpareKept
    <3> QED BY <3>5, <3>8
  <2>2. CASE ~CachedHeap /\ kind = "DATA"
    <3> DEFINE w   == SDRAD_DEFAULT_DATA_DOMAIN_SIZE
               new == region'
    <3>1. /\ MapHeap(s, w) /\ mem' = CreatePools(r.mem, brk, w, FALSE)
      <4>1. "fault" \notin Calls
        BY <2>2 DEF OneWayOut
      <4>2. ~sdi_init_heap_flag[NewSlot]
        BY <1>1, <4>1, SpareSlot
      <4> QED BY <1>3, <1>5, <2>2, <4>2 DEF sdrad_data_domain_init
    <3>2. mem' = tlsf_create_with_pool(r.mem, brk, w) /\ new = With(region, brk, [size |-> w, heap |-> brk])
      BY <3>1, OnePoolCreated DEF MapHeap
    <3>3. w \in Nat \ {0} /\ w <= block_size_max
      BY HeapsAssumption, Numbers DEF OnePool
    <3> HIDE DEF w, new
    <3>4. Mapped(region, new, brk, w)
      BY <1>6, <3>2, <3>3, Mapping DEF ext
    <3>5. Ext(new) = With(ext, brk, w) /\ MayCreate(ext, brk, w)
      BY <3>4 DEF Mapped, ext
    <3>6. Spare(mem', Ext(new), W)
      BY <1>2, <1>6, <3>2, <3>5, SpareKept
    <3> QED BY <3>6 DEF new
  <2>3. CASE ~CachedHeap /\ kind # "DATA"
    <3>1. mem' = r.mem /\ UNCHANGED region
      BY <1>3, <2>3 DEF sdrad_execution_domain_init
    <3> QED BY <1>2, <3>1 DEF ext
  <2> QED BY <2>1, <2>2, <2>3
<1>9. made' \in 0 .. MaxDomains /\ Len(udi_control') <= made'
      /\ Taken(1 + made', made' - Len(udi_control')) = Taken(2 + made, left)
  <2>1. /\ made \in 0 .. MaxDomains /\ Len(udi_control) <= made /\ MaxDomains \in Nat
        /\ Len(udi_control) \in Nat
    BY <1>1, LenProperties DEF Room, MonitorFits, Typed
  <2>2. 1 + made' = 2 + made /\ made' - Len(udi_control') = left
    BY <1>7, <2>1
  <2>3. made' \in 0 .. MaxDomains /\ Len(udi_control') <= made'
    BY <1>1, <1>7, <2>1
  <2> QED BY <2>2, <2>3
<1> QED BY <1>8, <1>9 DEF Room, W

(* A domain goes: its entry is taken from the spare block.                   *)
LEMMA TakingBackKeepsRoom ==
  ASSUME MonitorFits, HeapsInv, Room, NEW s \in Listed, NodeIndex(s) = 1, UNCHANGED made,
         NEW r, r = tlsf_malloc(mem, smd_tlsf, EntrySize),
         RemoveDomain(r.mem, s, HeapCached(s), r.ptr),
         Serve(sdi_tlsf[s], IF HeapCached(s) THEN NULL ELSE sdi_tlsf[s])
  PROVE  Room'
<1> DEFINE left == made - Len(udi_control)
           flag == sdi_init_heap_flag[s]
           e    == CacheEntry(s, flag, r.ptr)
           W    == PoolWords - Taken(1 + made, left + 1)
<1>1. /\ Typed /\ Listing /\ HeapSound /\ Sound(mem, region, brk, live, Kept) /\ smd_tlsf = 1
      /\ EntrySize \in Nat /\ s \in Slot
  BY HeapsAssumption, DomainsAreSlots DEF HeapsInv, HeapSound, Typed
<1>2. udi_control # <<>>
  BY DEF Listed
<1>3. r.ptr # NULL /\ Spare(r.mem, Ext(region), W)
  BY <1>2, RoomAnswers
<1>4. r.ptr \in Nat
  BY <1>1, <1>3, MonitorAsks
<1>5. /\ cache' = Cons(e, cache) /\ udi_control' = RemoveAt(udi_control, 1) /\ mem' = r.mem
  BY DEF RemoveDomain, HeapCached, sdrad_delete_control_structure, FreesNode
<1>6. e \in EntryRecord
  <2>1. sdi_tlsf[s] \in Nat /\ sdi_size_of_heap[s] \in Nat
    BY <1>1 DEF Typed
  <2> QED BY <1>4, <2>1, SlotFacts DEF CacheEntry, EntryRecord
<1> HIDE DEF e, flag, W
<1>7. Len(udi_control') = Len(udi_control) - 1
  BY <1>1, <1>5, <1>6, Removed
<1>8. /\ DOMAIN region' = DOMAIN region
      /\ \A a \in DOMAIN region : region'[a].size = region[a].size
  <2>1. RegionsIn(region, brk)
    BY <1>1 DEF Sound
  <2>2. \A a \in DOMAIN region : region[a] = [size |-> region[a].size, heap |-> region[a].heap]
    BY <2>1 DEF RegionsIn
  <2> QED BY <2>2 DEF Serve
<1>9. Spare(mem', Ext(region'), W)
  BY <1>3, <1>5, <1>8 DEF Ext
<1>10. /\ made' \in 0 .. MaxDomains /\ Len(udi_control') <= made'
       /\ Taken(1 + made', made' - Len(udi_control')) = Taken(1 + made, left + 1)
  <2>1. /\ made \in 0 .. MaxDomains /\ Len(udi_control) <= made /\ MaxDomains \in Nat
        /\ Len(udi_control) \in Nat
    BY <1>1, LenProperties DEF Room, MonitorFits, Typed
  <2>2. made' - Len(udi_control') = left + 1
    BY <1>7, <2>1
  <2> QED BY <1>7, <2>1, <2>2
<1> QED BY <1>9, <1>10 DEF Room, W

LEMMA DestroyKeepsRoom ==
  ASSUME OneWayOut, MonitorFits, HeapsInv, Room, NEW sdi \in Listed, NEW options \in Options,
         sdrad_destroy(sdi, options)
  PROVE  Room'
<1> DEFINE r == sdrad_malloc_mdd(EntrySize)
<1>1. NodeIndex(sdi) = 1 /\ options = "NO_HEAP_MERGE"
  BY DEF sdrad_destroy, MayGo, OneWayOut
<1>2. CASE r.ptr = NULL \/ FreeFaults(sdi)
  BY <1>2, StillKeepsRoom DEF sdrad_destroy, LibraryFaults, heapVars
<1>3. CASE ~(r.ptr = NULL \/ FreeFaults(sdi))
  <2>1. destroy_cached(sdi, r) /\ UNCHANGED made
    BY <1>1, <1>3 DEF sdrad_destroy
  <2>2. r = tlsf_malloc(mem, smd_tlsf, EntrySize)
    BY DEF sdrad_malloc_mdd
  <2> HIDE DEF r
  <2> QED BY <1>1, <2>1, <2>2, TakingBackKeepsRoom DEF destroy_cached
<1> QED BY <1>2, <1>3

LEMMA RewindKeepsRoom ==
  ASSUME OneWayOut, MonitorFits, HeapsInv, Room, sdrad_init_destroy
  PROVE  Room'
<1> DEFINE r == sdrad_malloc_mdd(EntrySize)
           s == active_domain
<1>1. s \in Listed /\ NodeIndex(s) = 1
  BY RewindKeepsInv DEF sdrad_init_destroy, MayGo, OneWayOut
<1>2. CASE r.ptr = NULL \/ FreeFaults(s)
  BY <1>2, StillKeepsRoom DEF sdrad_init_destroy, LibraryFaults, heapVars
<1>3. CASE ~(r.ptr = NULL \/ FreeFaults(s))
  <2>1. /\ RemoveDomain(r.mem, s, HeapCached(s), r.ptr)
        /\ Serve(sdi_tlsf[s], IF HeapCached(s) THEN NULL ELSE sdi_tlsf[s])
        /\ UNCHANGED made
    BY <1>3 DEF sdrad_init_destroy
  <2>2. r = tlsf_malloc(mem, smd_tlsf, EntrySize)
    BY DEF sdrad_malloc_mdd
  <2> HIDE DEF r, s
  <2> QED BY <1>1, <2>1, <2>2, TakingBackKeepsRoom
<1> QED BY <1>2, <1>3

(* At the start the pool is one free block, and the root's node is taken.    *)
LEMMA StartHasRoom ==
  ASSUME OnePool, PoolsFit, MonitorFits, Init
  PROVE  Room
<1> DEFINE empty  == [blk |-> <<>>, tlsf |-> <<>>, abort |-> FALSE]
           m      == tlsf_create_with_pool(empty, 1, MonitorSize)
           r      == tlsf_malloc(m, 1, NodeSize)
           ext    == With(<<>>, 1, MonitorSize)
           first  == FirstBlock(tlsf_get_pool(1))
           adjust == adjust_request_size(NodeSize, 1)
<1>1. mem = r.mem /\ region = <<>> /\ udi_control = <<>> /\ made = 0
  BY DEF Init
<1>2. DOMAIN region = {} /\ DOMAIN <<>> = {} /\ Len(udi_control) = 0
  BY <1>1, EmptySeq
<1>3. MayCreate(<<>>, 1, MonitorSize) /\ FitsPool(MonitorSize) /\ NodeSize \in Nat /\ MonitorSize \in Nat
  BY MonitorMayBe, HeapsAssumption DEF PoolsFit
<1>4. Valid(empty, <<>>)
  BY NothingIsValid
<1>5. 1 \in DOMAIN ext /\ ext[1] = MonitorSize /\ Ext(region) = ext
  BY <1>2 DEF Ext, With
<1> HIDE DEF empty, ext
<1>6. Valid(m, ext) /\ Whole(m.blk, 1, MonitorSize)
  BY <1>3, <1>4, CreateIsSound DEF ext
<1> HIDE DEF m
<1>7. /\ first \in DOMAIN m.blk /\ m.blk[first].free /\ m.blk[first].size = PoolWords
      /\ In(ext, 1, first)
  <2>1. /\ first \in DOMAIN m.blk /\ m.blk[first].free = TRUE /\ m.blk[first].size = PoolWords
    BY <1>6 DEF Whole, PoolWords
  <2>2. In(ext, 1, first)
    BY <1>3, <1>5, TlsfAssumption
       DEF In, FitsPool, FirstBlock, tlsf_get_pool, pool_overhead, block_header_overhead, block_size_min
  <2> QED BY <2>1, <2>2
<1> HIDE DEF first
<1>8. /\ PoolWords \in Nat /\ adjust \in Nat /\ adjust # 0 /\ NodeWords = adjust + 1
      /\ Taken(1, 0) = NodeWords /\ Taken(MaxDomains + 1, MaxDomains) + adjust <= PoolWords
      /\ Taken(1, 0) <= Taken(MaxDomains + 1, MaxDomains) /\ Taken(MaxDomains + 1, MaxDomains) \in Nat
      /\ MaxDomains \in Nat
  <2>1. m.blk[first].size \in Nat
    BY <1>6, <1>7, BlockParts DEF Valid
  <2>2. MaxDomains \in Nat /\ MaxDomains + 1 \in Nat /\ 1 <= MaxDomains + 1 /\ 0 <= MaxDomains
    BY DEF MonitorFits
  <2>3. Taken(1, 0) <= Taken(MaxDomains + 1, MaxDomains) /\ Taken(MaxDomains + 1, MaxDomains) \in Nat
    BY <2>2, TakenGrows, RoomNumbers
  <2> QED BY <1>7, <2>1, <2>2, <2>3, RoomNumbers DEF MonitorFits, NodeWords
<1> HIDE DEF adjust
<1>9. PoolWords > 2 * adjust
  BY <1>8
<1>10. Spare(m, ext, PoolWords)
  BY <1>7, <1>8 DEF Spare
<1>11. Spare(r.mem, ext, PoolWords - (adjust + 1))
  <2>1. PoolWords \in Int
    BY <1>8
  <2> DEFINE w == PoolWords
  <2> HIDE DEF w, r
  <2>2. w \in Int /\ w > 2 * adjust /\ Spare(m, ext, w) /\ r = tlsf_malloc(m, 1, NodeSize)
    BY <1>9, <1>10, <2>1 DEF w, r
  <2>3. Spare(r.mem, ext, w - (adjust + 1))
    BY <1>3, <1>5, <1>6, <1>8, <2>2, SpareGiven DEF adjust
  <2> QED BY <2>3 DEF w
<1> HIDE DEF r
<1>12. 1 + made = 1 /\ made - Len(udi_control) = 0 /\ made \in 0 .. MaxDomains /\ Len(udi_control) <= made
  <2>1. made = 0 /\ Len(udi_control) = 0 /\ MaxDomains \in Nat
    BY <1>1, <1>2, <1>8
  <2> QED BY ONLY <2>1
<1> QED BY <1>1, <1>5, <1>8, <1>11, <1>12 DEF Room

LEMMA NextKeepsRoom ==
  ASSUME OnePool, PoolsFit, RequestsFit, OneWayOut, MonitorFits, HeapsInv, HeapsInv', Exact, Room, Next
  PROVE  Room'
<1>1. CASE \E size \in Sizes : malloc(size) \/ \E align \in Aligns : posix_memalign(align, size)
  BY <1>1, MallocAllocates, AllocationKeepsRoom
<1>2. CASE \E size \in Sizes, p \in DOMAIN live : realloc(p, size)
  BY <1>2, ResizeKeepsRoom
<1>3. CASE \E size \in Sizes, sdi \in Listed :
             sdrad_malloc(sdi, size) \/ \E align \in Aligns : sdrad_memalign(sdi, align, size)
  BY <1>3, DomainMallocAllocates, AllocationKeepsRoom
<1>4. CASE \E size \in Sizes, p \in DOMAIN live, sdi \in Listed : sdrad_realloc(sdi, p, size)
  BY <1>4, ResizeKeepsRoom
<1>5. CASE \E p \in DOMAIN live : free(p) \/ sdrad_free(p)
  BY <1>5, FreeKeepsRoom
<1>6. CASE \E kind \in Kinds : sdrad_init(kind)
  BY <1>6, InitKeepsRoom
<1>7. CASE (\E sdi \in Listed : sdrad_enter(sdi)) \/ sdrad_exit
  BY <1>7, StillKeepsRoom DEF sdrad_enter, sdrad_exit, heapVars
<1>8. CASE \E sdi \in Listed, options \in Options : sdrad_destroy(sdi, options)
  BY <1>8, DestroyKeepsRoom
<1>9. CASE sdrad_init_destroy
  BY <1>9, RewindKeepsRoom
<1> QED BY <1>1, <1>2, <1>3, <1>4, <1>5, <1>6, <1>7, <1>8, <1>9 DEF Next

(* The third invariant: the monitor's heap has, in one block, all the words  *)
(* that no node and no entry has taken.                                      *)
THEOREM RoomInvariance ==
  ASSUME OnePool, PoolsFit, RequestsFit, OneWayOut, MonitorFits
  PROVE  Spec => []Room
<1>1. Init => Room
  BY StartHasRoom
<1>2. HeapsInv /\ HeapsInv' /\ Exact /\ Room /\ [Next]_vars => Room'
  <2>1. ASSUME Room, UNCHANGED vars PROVE Room'
    BY <2>1, StillKeepsRoom DEF vars, heapVars
  <2> QED BY <2>1, NextKeepsRoom
<1> QED BY <1>1, <1>2, HeapsInvariance, ExactInvariance, PTL DEF Spec

-----------------------------------------------------------------------------
(* That the library itself does not fault *)

(* The heaps are mapped above the addresses that a size alone reaches: a     *)
(* domain whose heap is still NULL has a size for it all the same.           *)
HeapsHigh == {SDRAD_DEFAULT_HEAP_SIZE, SDRAD_DEFAULT_DATA_DOMAIN_SIZE} \subseteq 0 .. MonitorSize

(* The monitor's heap has a block for a node while there are domains to be   *)
(* made, and for an entry while there are domains: what it answers is not    *)
(* checked.                                                                  *)
MonitorHasRoom ==
  /\ made < MaxDomains => sdrad_malloc_mdd(NodeSize).ptr # NULL
  /\ udi_control # <<>> => sdrad_malloc_mdd(EntrySize).ptr # NULL

Low == \A s \in Slot : sdi_size_of_heap[s] <= MonitorSize

LEMMA RegionsLow ==
  ASSUME HeapsHigh, Exact, NEW a \in DOMAIN region
  PROVE  region[a].size <= MonitorSize
BY HeapsAssumption DEF HeapsHigh, Exact, Sized

(* sdrad_free finds the heap of what the application holds.                  *)
LEMMA SearchFinds ==
  ASSUME HeapsHigh, HeapsInv, Low, NEW p \in DOMAIN live, NEW sdi \in Domains, HeapOf(p) = sdi_tlsf[sdi]
  PROVE  sdrad_search_tlsf_control(p) # NULL
<1>1. PICK a \in DOMAIN region : HeapOf(p) = a /\ a < p /\ p < a + region[a].size
  BY WhereHeld DEF HeapsInv
<1>2. /\ Typed /\ Owning /\ RegionsIn(region, brk) /\ Domains \subseteq Slot /\ MonitorSize \in Nat
      /\ p \in Nat
  BY HeapsAssumption, DomainsAreSlots DEF HeapsInv, HeapSound, Sound, LiveIn
<1>3. a \in Nat /\ a >= 1 + MonitorSize /\ a # NULL
  BY <1>2 DEF RegionsIn, NULL
<1>4. InHeap(p, sdi)
  BY <1>1, <1>2, <1>3 DEF Owning, InHeap
<1>5. \A s \in Domains : InHeap(p, s) => sdi_tlsf[s] # NULL
  <2> SUFFICES ASSUME NEW s \in Domains, InHeap(p, s), sdi_tlsf[s] = NULL PROVE FALSE
    OBVIOUS
  <2>1. p < 0 + sdi_size_of_heap[s] /\ sdi_size_of_heap[s] \in Nat /\ sdi_size_of_heap[s] <= MonitorSize
    BY <1>2 DEF InHeap, NULL, Low, Typed
  <2> QED BY <1>1, <1>2, <1>3, <2>1
<1>6. CASE InHeap(p, ROOT_DOMAIN)
  BY <1>5, <1>6 DEF sdrad_search_tlsf_control, Domains
<1>7. CASE ~InHeap(p, ROOT_DOMAIN)
  <2> DEFINE found == {i \in DOMAIN udi_control : InHeap(p, udi_control[i].sdi)}
  <2>1. sdrad_search_tlsf_control(p) = IF found = {} THEN NULL ELSE sdi_tlsf[udi_control[Min(found)].sdi]
    BY <1>7 DEF sdrad_search_tlsf_control, DomainHeapOf
  <2>2. found # {}
    BY <1>4, <1>7 DEF Domains, Listed
  <2>3. found \subseteq Nat
    <3>1. DOMAIN udi_control \subseteq Nat
      BY <1>2, LenProperties DEF Typed
    <3> QED BY <3>1
  <2>4. Min(found) \in found
    BY <2>2, <2>3, MinProperties
  <2>5. Min(found) \in DOMAIN udi_control /\ InHeap(p, udi_control[Min(found)].sdi)
    BY <2>4
  <2> HIDE DEF found
  <2>6. udi_control[Min(found)].sdi \in Domains
    BY <2>5 DEF Domains, Listed
  <2> QED BY <1>5, <2>1, <2>2, <2>5, <2>6
<1> QED BY <1>6, <1>7

LEMMA AllocationAnswers ==
  ASSUME HeapsHigh, HeapsInv, Low, NEW m, NEW c, NEW s, NEW size, NEW align, NEW r,
         Allocates(m, c, s, size, align, r)
  PROVE  ctl' = ctl /\ Low'
<1>1. CASE KeepHeaps
  BY <1>1 DEF Allocates, KeepHeaps, Low
<1>2. CASE MapHeap(s, SDRAD_DEFAULT_HEAP_SIZE)
  <2>1. SDRAD_DEFAULT_HEAP_SIZE <= MonitorSize /\ sdi_size_of_heap \in [Slot -> Nat]
    BY HeapsAssumption DEF HeapsHigh, HeapsInv, Typed
  <2> QED BY <1>2, <2>1 DEF Allocates, MapHeap, Low
<1> QED BY <1>1, <1>2 DEF Allocates, Asking

LEMMA InitAnswers ==
  ASSUME HeapsHigh, HeapsInv, Exact, Low, MonitorHasRoom, NEW kind \in Kinds, sdrad_init(kind)
  PROVE  ctl' = ctl /\ Low'
<1> DEFINE r == sdrad_malloc_mdd(NodeSize)
<1>1. /\ IF kind = "DATA" THEN sdrad_data_domain_init(r.mem) ELSE sdrad_execution_domain_init(r.mem)
      /\ ctl' = ctl
  BY DEF sdrad_init, MonitorHasRoom
<1>2. /\ SDRAD_DEFAULT_HEAP_SIZE <= MonitorSize /\ SDRAD_DEFAULT_DATA_DOMAIN_SIZE <= MonitorSize
      /\ sdi_size_of_heap \in [Slot -> Nat]
  BY HeapsAssumption DEF HeapsHigh, HeapsInv, Typed
<1> HIDE DEF r
<1>3. CASE CachedHeap
  <2>1. sdi_size_of_heap' = [sdi_size_of_heap EXCEPT ![NewSlot] = Head(cache).size]
    BY <1>1, <1>3 DEF sdrad_data_domain_init, sdrad_execution_domain_init, TakeCachedHeap
  <2>2. Head(cache).size <= MonitorSize
    <3>1. 1 \in DOMAIN cache /\ Head(cache) = cache[1]
      BY <1>3, HeadProperties DEF HeapsInv, Typed, CachedHeap
    <3>2. cache[1].heap \in DOMAIN region /\ cache[1].size = region[cache[1].heap].size
      BY <1>3, <3>1 DEF HeapsInv, Caching, CachedHeap
    <3> QED BY <3>1, <3>2, RegionsLow
  <2> QED BY <1>1, <1>2, <2>1, <2>2 DEF Low
<1>4. CASE ~CachedHeap
  <2>1. \/ sdi_size_of_heap' = [sdi_size_of_heap EXCEPT ![NewSlot] = SDRAD_DEFAULT_DATA_DOMAIN_SIZE]
        \/ sdi_size_of_heap' = [sdi_size_of_heap EXCEPT ![NewSlot] = SDRAD_DEFAULT_HEAP_SIZE]
    BY <1>1, <1>4 DEF sdrad_data_domain_init, sdrad_execution_domain_init, sdrad_get_config, MapHeap
  <2> QED BY <1>1, <1>2, <2>1 DEF Low
<1> QED BY <1>3, <1>4

LEMMA NextAnswers ==
  ASSUME HeapsHigh, OneWayOut, HeapsInv, Exact, Low, MonitorHasRoom, Next
  PROVE  ctl' = ctl /\ Low'
<1>0. Listed # {} => udi_control # <<>>
  BY DEF Listed
<1>1. CASE \E size \in Sizes : malloc(size) \/ \E align \in Aligns : posix_memalign(align, size)
  BY <1>1, MallocAllocates, AllocationAnswers
<1>2. CASE \E size \in Sizes, p \in DOMAIN live : realloc(p, size)
  BY <1>2 DEF realloc, KeepHeaps, Low
<1>3. CASE \E size \in Sizes, sdi \in Listed :
             sdrad_malloc(sdi, size) \/ \E align \in Aligns : sdrad_memalign(sdi, align, size)
  BY <1>3, DomainMallocAllocates, AllocationAnswers
<1>4. CASE \E size \in Sizes, p \in DOMAIN live, sdi \in Listed : sdrad_realloc(sdi, p, size)
  BY <1>4 DEF sdrad_realloc, KeepHeaps, Low
<1>5. CASE \E p \in DOMAIN live : free(p)
  BY <1>5 DEF free, KeepHeaps, Low
<1>6. CASE \E p \in DOMAIN live : sdrad_free(p)
  <2>1. PICK p \in DOMAIN live : sdrad_free(p)
    BY <1>6
  <2>2. \E sdi \in Domains : HeapOf(p) = sdi_tlsf[sdi]
    BY <2>1 DEF sdrad_free, Domains
  <2>3. sdrad_search_tlsf_control(p) # NULL
    BY <2>2, SearchFinds
  <2> QED BY <2>1, <2>3 DEF sdrad_free, KeepHeaps, Low
<1>7. CASE \E kind \in Kinds : sdrad_init(kind)
  BY <1>7, InitAnswers
<1>8. CASE (\E sdi \in Listed : sdrad_enter(sdi)) \/ sdrad_exit
  BY <1>8 DEF sdrad_enter, sdrad_exit, heapVars, Low
<1>9. CASE \E sdi \in Listed, options \in Options : sdrad_destroy(sdi, options)
  <2>1. PICK sdi \in Listed, options \in Options : sdrad_destroy(sdi, options)
    BY <1>9
  <2>2. options = "NO_HEAP_MERGE" /\ NodeIndex(sdi) = 1
    BY <2>1 DEF sdrad_destroy, MayGo, OneWayOut
  <2>3. ~FreeFaults(sdi)
    BY <2>2 DEF FreeFaults, FreesNode
  <2> QED BY <1>0, <2>1, <2>2, <2>3 DEF sdrad_destroy, destroy_cached, MonitorHasRoom, Low
<1>10. CASE sdrad_init_destroy
  <2>1. ~FreeFaults(active_domain)
    BY <1>10 DEF sdrad_init_destroy, MayGo, OneWayOut, FreeFaults, FreesNode
  <2>2. active_domain \in Listed
    BY <1>10, RewindKeepsInv
  <2> QED BY <1>0, <1>10, <2>1, <2>2 DEF sdrad_init_destroy, MonitorHasRoom, Low
<1> QED BY <1>1, <1>2, <1>3, <1>4, <1>5, <1>6, <1>7, <1>8, <1>9, <1>10 DEF Next

(* As long as the monitor's heap fits the domains that are made, it answers  *)
(* every request of sdrad_init, sdrad_destroy and of a rewind, which use the *)
(* pointer unchecked.                                                        *)
THEOREM MonitorKeepsRoom ==
  ASSUME OnePool, PoolsFit, RequestsFit, OneWayOut, MonitorFits
  PROVE  Spec => []MonitorHasRoom
<1>1. HeapsInv /\ Room => MonitorHasRoom
  <2> SUFFICES ASSUME HeapsInv, Room PROVE MonitorHasRoom
    OBVIOUS
  <2>1. /\ made < MaxDomains => tlsf_malloc(mem, smd_tlsf, NodeSize).ptr # NULL
        /\ udi_control # <<>> => tlsf_malloc(mem, smd_tlsf, EntrySize).ptr # NULL
    BY RoomAnswers
  <2> QED BY <2>1 DEF MonitorHasRoom, sdrad_malloc_mdd
<1> QED BY <1>1, HeapsInvariance, RoomInvariance, PTL

(* No call that the application may make faults in the library or makes it   *)
(* abort: sdrad_free finds the heap of every pointer it may be given, no     *)
(* node is freed where there is no heap to free it in, and the monitor       *)
(* always gets the memory that it does not check for.                        *)
THEOREM CallsAlwaysReturn ==
  ASSUME OnePool, PoolsFit, RequestsFit, OneWayOut, HeapsHigh, MonitorFits
  PROVE  Spec => []CallsReturn
<1> DEFINE Answers == ctl = "app" /\ Low
<1>1. Init => Answers
  <2> SUFFICES ASSUME Init PROVE Answers
    OBVIOUS
  <2>1. SDRAD_DEFAULT_HEAP_SIZE <= MonitorSize /\ 0 <= MonitorSize
    BY HeapsAssumption DEF HeapsHigh
  <2> QED BY <2>1 DEF Init, Low
<1>2. HeapsInv /\ Exact /\ MonitorHasRoom /\ Answers /\ [Next]_vars => Answers'
  <2>1. ASSUME Answers, UNCHANGED vars PROVE Answers'
    BY <2>1 DEF vars, heapVars, Low
  <2> QED BY <2>1, NextAnswers
<1>3. Answers /\ AssertsHold => CallsReturn
  BY DEF CallsReturn
<1> HIDE DEF Answers
<1> QED BY <1>1, <1>2, <1>3, HeapsInvariance, ExactInvariance, MonitorKeepsRoom, AssertionsHold,
           PTL DEF Spec
=============================================================================
