------------------------------ MODULE SdradHeaps ------------------------------
(***************************************************************************)
(* What is in the heaps: the monitor's, the root domain's and those of the *)
(* domains, each with a TLSF control at its start.  One thread, the build  *)
(* of the Makefile.  SdradDomains says when a heap is created and which    *)
(* one is selected; here the calls that allocate, free, hand over and      *)
(* reuse heap memory are carried out on the allocator's own structures.    *)
(* Keys, stacks and saved contexts are left to SdradDomains, and of its    *)
(* domains those are taken that return to their caller.                    *)
(***************************************************************************)
EXTENDS Tlsf

CONSTANTS
  TOTAL_DOMAIN,
  MonitorSize,                     \* smd_size_of_data_domain, in words
  SDRAD_DEFAULT_HEAP_SIZE,         \* in words, as the next two
  SDRAD_DEFAULT_DATA_DOMAIN_SIZE,
  SDRAD_TLSF_MAX_HEAP_SIZE,
  NodeSize,      \* sizeof(udi_control_t): 4 words
  EntrySize,     \* sizeof(sdrad_cache_domain_info_t): 8 words
  Sizes,         \* what the application asks for
  Aligns,
  Kinds,         \* the kinds of domain it makes
  Options,       \* what it passes to sdrad_destroy
  Calls,         \* the calls it makes
  LastFirst,     \* it destroys a domain only if it made none after it
  MaxWords,      \* bound: words that may be mapped
  MaxDomains,    \* bound: domains made
  MaxListed,     \* bound: domains that exist at once
  MaxChunks      \* bound: allocations held at once

ASSUME HeapsAssumption ==
  /\ TOTAL_DOMAIN \in Nat /\ TOTAL_DOMAIN > 2
  /\ {MonitorSize, SDRAD_DEFAULT_HEAP_SIZE, SDRAD_DEFAULT_DATA_DOMAIN_SIZE,
      SDRAD_TLSF_MAX_HEAP_SIZE} \subseteq Nat \ {0}
  /\ {NodeSize, EntrySize} \subseteq Nat \ {0}
  /\ Sizes \subseteq Nat /\ Aligns \subseteq Nat \ {0}
  /\ Kinds \subseteq {"EXECUTION", "DATA"}
  /\ Options \subseteq {"HEAP_MERGE", "NO_HEAP_MERGE"}
  /\ LastFirst \in BOOLEAN

VARIABLES
  mem,                  \* the memory of Tlsf
  brk,                  \* where mmap puts the next region
  smd_tlsf,             \* the monitor's heap
  \* --- sdrad_d_info, one function per field; a heap's address is its control's
  sdi_tlsf,
  sdi_size_of_heap,
  sdi_init_heap_flag,
  sdi_parent_domain,
  sdi_options,
  status,               \* the slots in use
  udi_control,          \* the list of [sdi, node], head first; node: where it is
  cache,                \* the list of [heap, size, entry], head first; heap 0: none
  active_domain,
  tlsf_structure,
  made,                 \* domains made so far (the bound)
  ctl,                  \* "app"; "fault": the library itself faults; "corrupt"
  region,               \* what is mapped: address -> [size, heap]; see HeapSpec
  live                  \* what the application holds: address -> [asked, align]

infoVars == <<sdi_parent_domain, sdi_options, status>>
listVars == <<udi_control, cache, made>>
heapVars == <<mem, brk, sdi_tlsf, sdi_size_of_heap, sdi_init_heap_flag, region>>
selVars  == <<active_domain, tlsf_structure>>
vars == <<heapVars, infoVars, listVars, selVars, smd_tlsf, ctl, live>>

NULL == 0
ROOT_DOMAIN == 1
Slot == 0 .. TOTAL_DOMAIN - 1
App == ctl = "app" /\ ~mem.abort
Listed == {udi_control[i].sdi : i \in DOMAIN udi_control}

-----------------------------------------------------------------------------
(* Creating heaps *)

(* Pools of at most SDRAD_TLSF_MAX_HEAP_SIZE.  `rest` tells whether the loop *)
(* is followed by a call for what remains.                                   *)
FullPools(words) == (words - 1) \div SDRAD_TLSF_MAX_HEAP_SIZE
PoolAt(c, k) == IF k = 0 THEN tlsf_get_pool(c) ELSE c + k * SDRAD_TLSF_MAX_HEAP_SIZE

CreatePools(m, c, words, rest) ==
  LET limit == SDRAD_TLSF_MAX_HEAP_SIZE
      full  == FullPools(words)
      added == FoldLeft(LAMBDA acc, k : tlsf_add_pool(acc, c, PoolAt(c, k), limit),
                        tlsf_create_with_pool(m, c, limit), [k \in 1 .. full - 1 |-> k])
  IN  IF words <= limit THEN tlsf_create_with_pool(m, c, words)
      ELSE IF rest THEN tlsf_add_pool(added, c, PoolAt(c, full), words - full * limit)
      ELSE added

(* mmap a heap of a slot.  What the slot had before is forgotten. *)
MapHeap(sdi, words) ==
  /\ brk' = brk + words
  /\ region' = With(region, brk, [size |-> words, heap |-> brk])
  /\ sdi_tlsf' = [sdi_tlsf EXCEPT ![sdi] = brk]
  /\ sdi_size_of_heap' = [sdi_size_of_heap EXCEPT ![sdi] = words]
  /\ sdi_init_heap_flag' = [sdi_init_heap_flag EXCEPT ![sdi] = TRUE]

KeepHeaps == UNCHANGED <<brk, region, sdi_tlsf, sdi_size_of_heap, sdi_init_heap_flag>>

(* sdrad_heap_domain_init, with the memory it leaves. *)
sdrad_heap_domain_init(sdi) == MapHeap(sdi, SDRAD_DEFAULT_HEAP_SIZE)
NewHeap(m) == CreatePools(m, brk, SDRAD_DEFAULT_HEAP_SIZE, TRUE)

(* Mutant: the application's malloc is called, as its free is. *)
mdd_from_selected(size) ==
  tlsf_malloc(mem, IF tlsf_structure = NULL THEN smd_tlsf ELSE tlsf_structure, size)

(* Monitor memory for a node or a cache entry. *)
sdrad_malloc_mdd(size) == tlsf_malloc(mem, smd_tlsf, size)

(* Bounds on what the application starts. *)
MayMap(words) == brk + words <= MaxWords
MayHold == Cardinality(DOMAIN live) < MaxChunks

-----------------------------------------------------------------------------
(* After sdrad_constructor: the monitor's heap holds the thread's metadata.  *)
Init ==
  LET empty == [blk |-> <<>>, tlsf |-> <<>>, abort |-> FALSE]
  IN  /\ smd_tlsf = 1
      /\ mem = tlsf_malloc(tlsf_create_with_pool(empty, 1, MonitorSize), 1, NodeSize).mem
      /\ brk = 1 + MonitorSize
      /\ region = <<>>
      /\ sdi_tlsf = [i \in Slot |-> NULL]
      /\ sdi_size_of_heap = [i \in Slot |-> IF i = ROOT_DOMAIN THEN SDRAD_DEFAULT_HEAP_SIZE ELSE 0]
      /\ sdi_init_heap_flag = [i \in Slot |-> FALSE]
      /\ sdi_parent_domain = [i \in Slot |-> IF i = ROOT_DOMAIN THEN ROOT_DOMAIN ELSE 0]
      /\ sdi_options = [i \in Slot |-> "EXECUTION"]
      /\ status = {0, ROOT_DOMAIN}
      /\ udi_control = <<>> /\ cache = <<>> /\ made = 0
      /\ active_domain = ROOT_DOMAIN
      /\ tlsf_structure = NULL
      /\ ctl = "app"
      /\ live = <<>>

-----------------------------------------------------------------------------
(* malloc, calloc, free, realloc, posix_memalign: they work on               *)
(* tlsf_structure, and create the active domain's heap if it is NULL.        *)

Selected    == IF tlsf_structure = NULL THEN brk ELSE tlsf_structure
SelectedMem == IF tlsf_structure = NULL THEN NewHeap(mem) ELSE mem
SelectHeap ==
  IF tlsf_structure = NULL
    THEN sdrad_heap_domain_init(active_domain) /\ tlsf_structure' = brk
    ELSE KeepHeaps /\ UNCHANGED tlsf_structure

(* The application gets a pointer, or NULL. *)
Hold(ptr, asked, align, held) ==
  IF ptr = NULL THEN held ELSE With(held, ptr, [asked |-> asked, align |-> align])

Drop(S) == Restrict(live, DOMAIN live \ S)

(* The heap that serves the memory p lies in, as far as the application knows *)
(* (it knows of no memory that is the monitor's).                            *)
HeapOf(p) ==
  LET around == {a \in DOMAIN region : p \in a .. a + region[a].size - 1}
  IN  IF around = {} THEN smd_tlsf ELSE region[CHOOSE a \in around : TRUE].heap

Call(name) == App /\ name \in Calls

malloc(size) ==
  LET r == tlsf_malloc(SelectedMem, Selected, size)
  IN  /\ Call("malloc") /\ MayHold
      /\ tlsf_structure = NULL => MayMap(SDRAD_DEFAULT_HEAP_SIZE)
      /\ SelectHeap
      /\ mem' = r.mem
      /\ live' = Hold(r.ptr, size, 1, live)
      /\ UNCHANGED <<infoVars, listVars, active_domain, smd_tlsf, ctl>>

posix_memalign(align, size) ==
  LET r == tlsf_memalign(SelectedMem, Selected, align, size)
  IN  /\ Call("posix_memalign") /\ MayHold
      /\ tlsf_structure = NULL => MayMap(SDRAD_DEFAULT_HEAP_SIZE)
      /\ SelectHeap
      /\ mem' = r.mem
      /\ live' = Hold(r.ptr, size, align, live)
      /\ UNCHANGED <<infoVars, listVars, active_domain, smd_tlsf, ctl>>

(* The application frees and resizes what came from the heap it runs on. *)
free(p) ==
  /\ Call("free")
  /\ HeapOf(p) = tlsf_structure
  /\ mem' = tlsf_free(mem, tlsf_structure, p)
  /\ live' = Drop({p})
  /\ KeepHeaps
  /\ UNCHANGED <<infoVars, listVars, selVars, smd_tlsf, ctl>>

(* NULL and a size other than 0: the old allocation stays. *)
Resized(p, r, size) ==
  IF r.ptr = NULL /\ size # 0 THEN live ELSE Hold(r.ptr, size, 1, Drop({p}))

realloc(p, size) ==
  LET r == tlsf_realloc(mem, tlsf_structure, p, size)
  IN  /\ Call("realloc")
      /\ HeapOf(p) = tlsf_structure
      /\ mem' = r.mem
      /\ live' = Resized(p, r, size)
      /\ KeepHeaps
      /\ UNCHANGED <<infoVars, listVars, selVars, smd_tlsf, ctl>>

-----------------------------------------------------------------------------
(* sdrad_malloc, sdrad_calloc, sdrad_memalign, sdrad_realloc, sdrad_free     *)

DomainHeap(sdi)    == IF sdi_init_heap_flag[sdi] THEN sdi_tlsf[sdi] ELSE brk
DomainHeapMem(sdi) == IF sdi_init_heap_flag[sdi] THEN mem ELSE NewHeap(mem)
UseDomainHeap(sdi) == IF sdi_init_heap_flag[sdi] THEN KeepHeaps ELSE sdrad_heap_domain_init(sdi)

sdrad_malloc(sdi, size) ==
  LET r == tlsf_malloc(DomainHeapMem(sdi), DomainHeap(sdi), size)
  IN  /\ Call("sdrad_malloc") /\ MayHold
      /\ sdi_init_heap_flag[sdi] \/ MayMap(SDRAD_DEFAULT_HEAP_SIZE)
      /\ UseDomainHeap(sdi)
      /\ mem' = r.mem
      /\ live' = Hold(r.ptr, size, 1, live)
      /\ UNCHANGED <<infoVars, listVars, selVars, smd_tlsf, ctl>>

sdrad_memalign(sdi, align, size) ==
  LET r == tlsf_memalign(DomainHeapMem(sdi), DomainHeap(sdi), align, size)
  IN  /\ Call("sdrad_memalign") /\ MayHold
      /\ sdi_init_heap_flag[sdi] \/ MayMap(SDRAD_DEFAULT_HEAP_SIZE)
      /\ UseDomainHeap(sdi)
      /\ mem' = r.mem
      /\ live' = Hold(r.ptr, size, align, live)
      /\ UNCHANGED <<infoVars, listVars, selVars, smd_tlsf, ctl>>

(* The application resizes what sdrad_malloc gave it, so there is a heap.    *)
sdrad_realloc(sdi, p, size) ==
  LET r == tlsf_realloc(mem, sdi_tlsf[sdi], p, size)
  IN  /\ Call("sdrad_realloc")
      /\ HeapOf(p) = sdi_tlsf[sdi] /\ sdi_init_heap_flag[sdi]
      /\ KeepHeaps
      /\ mem' = r.mem
      /\ live' = Resized(p, r, size)
      /\ UNCHANGED <<infoVars, listVars, selVars, smd_tlsf, ctl>>

(* The heap whose address range holds the pointer: the root's, or the first  *)
(* one of the list.                                                          *)
InHeap(p, sdi) == sdi_tlsf[sdi] < p /\ p < sdi_tlsf[sdi] + sdi_size_of_heap[sdi]

DomainHeapOf(p) ==
  LET found == {i \in DOMAIN udi_control : InHeap(p, udi_control[i].sdi)}
  IN  IF found = {} THEN NULL ELSE sdi_tlsf[udi_control[Min(found)].sdi]

(* Mutant: the root, which is not in the list, is forgotten. *)
search_list_only(p) == DomainHeapOf(p)

sdrad_search_tlsf_control(p) ==
  IF InHeap(p, ROOT_DOMAIN) THEN sdi_tlsf[ROOT_DOMAIN] ELSE DomainHeapOf(p)

(* With no heap found, tlsf_free puts the block in the lists at address 0. *)
sdrad_free(p) ==
  LET c == sdrad_search_tlsf_control(p)
  IN  /\ Call("sdrad_free")
      /\ \E sdi \in Listed \cup {ROOT_DOMAIN} : HeapOf(p) = sdi_tlsf[sdi]
      /\ IF c = NULL THEN ctl' = "fault" /\ UNCHANGED <<mem, live>>
         ELSE /\ mem' = tlsf_free(mem, c, p)
              /\ live' = Drop({p})
              /\ UNCHANGED ctl
      /\ KeepHeaps
      /\ UNCHANGED <<infoVars, listVars, selVars, smd_tlsf>>

-----------------------------------------------------------------------------
(* The library's own use: sdrad_init *)

(* The call dereferences a pointer it did not check, or one that faults under *)
(* the PKRU in force: the rest of it does not happen.                        *)
LibraryFaults(how) ==
  /\ ctl' = how
  /\ UNCHANGED <<heapVars, infoVars, listVars, selVars, smd_tlsf, live>>

NewSlot == Min(Slot \ status)

(* A node for the list, from the monitor's heap, and the creator as parent. *)
MapNewDomain(kind, node) ==
  /\ status' = status \cup {NewSlot}
  /\ udi_control' = Cons([sdi |-> NewSlot, node |-> node], udi_control)
  /\ sdi_parent_domain' = [sdi_parent_domain EXCEPT ![NewSlot] = active_domain]
  /\ sdi_options' = [sdi_options EXCEPT ![NewSlot] = kind]
  /\ made' = made + 1

(* sdrad_request_sdi gives the slot the configured size, which stands unless *)
(* the domain gets a heap at once.                                           *)
sdrad_get_config ==
  sdi_size_of_heap' = [sdi_size_of_heap EXCEPT ![NewSlot] = SDRAD_DEFAULT_HEAP_SIZE]

(* Mutant: the old structures are used as they are. *)
recycle_as_is(m, c, words) == m

RecycledHeap(m, c, words) == tlsf_create_with_pool(m, c, words)

(* The heap of the cached head is made empty. *)
TakeCachedHeap(m) ==
  LET head == Head(cache)
  IN  /\ mem' = RecycledHeap(m, head.heap, head.size)
      /\ region' = [region EXCEPT ![head.heap].heap = head.heap]
      /\ sdi_tlsf' = [sdi_tlsf EXCEPT ![NewSlot] = head.heap]
      /\ sdi_size_of_heap' = [sdi_size_of_heap EXCEPT ![NewSlot] = head.size]
      /\ UNCHANGED brk

CachedHeap == cache # <<>> /\ Head(cache).heap # NULL

sdrad_data_domain_init(m) ==
  IF CachedHeap
    THEN /\ TakeCachedHeap(m)
         /\ sdi_init_heap_flag' = [sdi_init_heap_flag EXCEPT ![NewSlot] = TRUE]
         /\ cache' = Tail(cache)
    ELSE /\ UNCHANGED cache
         /\ IF sdi_init_heap_flag[NewSlot]
              THEN /\ mem' = m
                   /\ sdrad_get_config
                   /\ UNCHANGED <<brk, region, sdi_tlsf, sdi_init_heap_flag>>
              ELSE /\ mem' = CreatePools(m, brk, SDRAD_DEFAULT_DATA_DOMAIN_SIZE, FALSE)
                   /\ MapHeap(NewSlot, SDRAD_DEFAULT_DATA_DOMAIN_SIZE)

(* The flag is not set when the heap comes from the cache. *)
sdrad_execution_domain_init(m) ==
  IF CachedHeap
    THEN /\ TakeCachedHeap(m)
         /\ UNCHANGED sdi_init_heap_flag
         /\ cache' = Tail(cache)
    ELSE /\ mem' = m
         /\ sdrad_get_config
         /\ UNCHANGED <<brk, region, sdi_tlsf>>
         /\ IF cache = <<>>
              THEN UNCHANGED <<cache, sdi_init_heap_flag>>
              ELSE /\ sdi_init_heap_flag' = [sdi_init_heap_flag EXCEPT ![NewSlot] = FALSE]
                   /\ cache' = Tail(cache)

sdrad_init(kind) ==
  LET r == sdrad_malloc_mdd(NodeSize)
  IN  /\ App /\ MayMap(SDRAD_DEFAULT_DATA_DOMAIN_SIZE)
      /\ made < MaxDomains /\ Len(udi_control) < MaxListed
      /\ status # Slot
      /\ IF r.ptr = NULL THEN LibraryFaults("fault")
         ELSE /\ MapNewDomain(kind, r.ptr)
              /\ IF kind = "DATA" THEN sdrad_data_domain_init(r.mem)
                                  ELSE sdrad_execution_domain_init(r.mem)
              /\ UNCHANGED <<selVars, smd_tlsf, ctl, live>>

-----------------------------------------------------------------------------
(* sdrad_enter, sdrad_exit: which heap is selected *)

sdrad_enter(sdi) ==
  /\ App
  /\ sdi_options[sdi] = "EXECUTION" /\ sdi_parent_domain[sdi] = active_domain
  /\ active_domain' = sdi
  /\ tlsf_structure' = sdi_tlsf[sdi]
  /\ UNCHANGED <<heapVars, infoVars, listVars, smd_tlsf, ctl, live>>

(* Mutant: the child's heap stays selected. *)
exit_keeps_heap(sdi) == active_domain' = sdi /\ UNCHANGED tlsf_structure

Resume(sdi) ==
  /\ active_domain' = sdi
  /\ tlsf_structure' = sdi_tlsf[sdi]

sdrad_exit ==
  /\ App
  /\ active_domain # ROOT_DOMAIN
  /\ Resume(sdi_parent_domain[active_domain])
  /\ UNCHANGED <<heapVars, infoVars, listVars, smd_tlsf, ctl, live>>

-----------------------------------------------------------------------------
(* sdrad_destroy, and the rewind of a faulting domain *)

(* The domains that have been entered and not left. *)
Chain ==
  LET up[k \in 0 .. TOTAL_DOMAIN] ==
        IF k = 0 THEN active_domain ELSE sdi_parent_domain[up[k - 1]]
  IN  {up[k] : k \in 0 .. TOTAL_DOMAIN}

NodeIndex(sdi) == CHOOSE i \in DOMAIN udi_control : udi_control[i].sdi = sdi

(* Mutant: the node at the head is freed as well. *)
frees_every_node(sdi) == TRUE

(* "free(temp)" is called for a node that is not the head. *)
FreesNode(sdi) == NodeIndex(sdi) > 1

(* It is the application's free(): it works on the heap that is selected,    *)
(* though the node is the monitor's.  With no heap selected it faults: see   *)
(* FreeFaults of SdradDomains.                                               *)
sdrad_delete_control_structure(m, sdi) ==
  IF FreesNode(sdi) /\ tlsf_structure # NULL
    THEN tlsf_free(m, tlsf_structure, udi_control[NodeIndex(sdi)].node)
    ELSE m

FreeFaults(sdi) == FreesNode(sdi) /\ tlsf_structure = NULL

CacheEntry(sdi, with_heap, entry) ==
  [heap  |-> IF with_heap THEN sdi_tlsf[sdi] ELSE NULL,
   size  |-> IF with_heap THEN sdi_size_of_heap[sdi] ELSE 0,
   entry |-> entry]

(* Who serves the memory of a heap from now on, as the application knows it. *)
Serve(heap, new) ==
  region' = [a \in DOMAIN region |->
               IF heap # NULL /\ region[a].heap = heap THEN [region[a] EXCEPT !.heap = new]
                                                       ELSE region[a]]

(* What the application held in a heap that is discarded. *)
Discarded(heap) == Drop({p \in DOMAIN live : HeapOf(p) = heap})

HeapCached(sdi) == sdi_init_heap_flag[sdi]

RemoveDomain(m, sdi, with_heap, entry) ==
  /\ cache' = Cons(CacheEntry(sdi, with_heap, entry), cache)
  /\ udi_control' = RemoveAt(udi_control, NodeIndex(sdi))
  /\ mem' = sdrad_delete_control_structure(m, sdi)

MayGo(sdi) == LastFirst => NodeIndex(sdi) = 1

destroy_cached(sdi, r) ==
  /\ RemoveDomain(r.mem, sdi, HeapCached(sdi), r.ptr)
  /\ Serve(sdi_tlsf[sdi], IF HeapCached(sdi) THEN NULL ELSE sdi_tlsf[sdi])
  /\ live' = Discarded(sdi_tlsf[sdi])
  /\ UNCHANGED ctl

(* Where the domain has no heap flag nothing is merged. *)
destroy_merged(sdi, r) ==
  LET parent_tlsf == sdi_tlsf[sdi_parent_domain[sdi]]
      merges == sdi_init_heap_flag[sdi]
      m == IF merges THEN tlsf_merge_pool(r.mem, parent_tlsf, sdi_tlsf[sdi]) ELSE r.mem
  IN  IF merges /\ parent_tlsf = NULL
        THEN ctl' = "fault" /\ UNCHANGED <<mem, region, live, cache, udi_control>>
      ELSE IF merges /\ LastUnused(r.mem, sdi_tlsf[sdi]) = {}
        THEN ctl' = "corrupt" /\ UNCHANGED <<mem, region, live, cache, udi_control>>
      ELSE /\ RemoveDomain(m, sdi, FALSE, r.ptr)
           /\ Serve(sdi_tlsf[sdi], parent_tlsf)
           /\ UNCHANGED <<ctl, live>>

sdrad_destroy(sdi, options) ==
  LET r == sdrad_malloc_mdd(EntrySize)
  IN  /\ App
      /\ sdi \notin Chain /\ MayGo(sdi)
      /\ IF r.ptr = NULL \/ FreeFaults(sdi) THEN LibraryFaults("fault")
         ELSE /\ IF options = "HEAP_MERGE" THEN destroy_merged(sdi, r) ELSE destroy_cached(sdi, r)
              /\ UNCHANGED <<brk, sdi_tlsf, sdi_size_of_heap, sdi_init_heap_flag, infoVars,
                             made, selVars, smd_tlsf>>

(* sdrad_abnormal_domain_exit and sdrad_init_destroy: the faulting domain is *)
(* destroyed, its slot is free again, and its parent continues.              *)
sdrad_init_destroy ==
  LET sdi == active_domain
      r   == sdrad_malloc_mdd(EntrySize)
  IN  /\ Call("fault")
      /\ sdi # ROOT_DOMAIN /\ MayGo(sdi)
      /\ IF r.ptr = NULL \/ FreeFaults(sdi) THEN LibraryFaults("fault")
         ELSE /\ RemoveDomain(r.mem, sdi, HeapCached(sdi), r.ptr)
              /\ Serve(sdi_tlsf[sdi], IF HeapCached(sdi) THEN NULL ELSE sdi_tlsf[sdi])
              /\ live' = Discarded(sdi_tlsf[sdi])
              /\ status' = status \ {sdi}
              /\ Resume(sdi_parent_domain[sdi])
              /\ UNCHANGED <<brk, sdi_tlsf, sdi_size_of_heap, sdi_init_heap_flag,
                             sdi_parent_domain, sdi_options, made, smd_tlsf, ctl>>

-----------------------------------------------------------------------------
Next ==
  \/ \E size \in Sizes :
       \/ malloc(size)
       \/ \E align \in Aligns : posix_memalign(align, size)
       \/ \E p \in DOMAIN live : realloc(p, size)
       \/ \E sdi \in Listed :
            \/ sdrad_malloc(sdi, size)
            \/ \E align \in Aligns : sdrad_memalign(sdi, align, size)
            \/ \E p \in DOMAIN live : sdrad_realloc(sdi, p, size)
  \/ \E p \in DOMAIN live : free(p) \/ sdrad_free(p)
  \/ \E kind \in Kinds : sdrad_init(kind)
  \/ \E sdi \in Listed : sdrad_enter(sdi) \/ \E options \in Options : sdrad_destroy(sdi, options)
  \/ sdrad_exit
  \/ sdrad_init_destroy

Spec == Init /\ [][Next]_vars

-----------------------------------------------------------------------------
(* Properties *)

(* The heaps some call may work on. *)
InUse == ({smd_tlsf, tlsf_structure} \cup {sdi_tlsf[sdi] : sdi \in Listed \cup {ROOT_DOMAIN}}) \ {NULL}

TypeOK ==
  /\ \A b \in DOMAIN mem.blk :
       mem.blk[b] \in [size : Nat, free : BOOLEAN, prev_free : BOOLEAN,
                       prev_phys : DOMAIN mem.blk \cup {NO_BLOCK}]
  /\ InUse \subseteq DOMAIN mem.tlsf
  /\ status \subseteq Slot /\ active_domain \in status
  /\ ctl \in {"app", "fault", "corrupt"}
  /\ \A p \in DOMAIN live : live[p].asked \in Sizes

(* No assertion of tlsf.c fails, so the library never calls abort(): what is *)
(* freed, resized, split and merged is what the allocator believes it to be. *)
AssertsHold == ~mem.abort

(* And no call the application is allowed to make faults in the library.     *)
CallsReturn == AssertsHold /\ ctl = "app"

(* The memory of a heap, by address. *)
OwnWords(c) ==
  IF c = smd_tlsf THEN c .. c + MonitorSize - 1
  ELSE UNION {a .. a + region[a].size - 1 : a \in {x \in DOMAIN region : region[x].heap = c}}

FreeBlocks(c) ==
  UNION {ToSet(mem.tlsf[c].blocks[fl][sl]) :
           fl \in 0 .. FL_INDEX_COUNT - 1, sl \in 0 .. SL_INDEX_COUNT - 1}

(* A heap only ever hands out its own memory: every block in its lists lies  *)
(* in memory that was mapped for it or merged into it.                       *)
HeapsApart ==
  \A c \in InUse, b \in DOMAIN mem.blk :
    b \in FreeBlocks(c) => b + 1 .. b + 1 + mem.blk[b].size \subseteq OwnWords(c)

(* The pools whose blocks a heap is meant to have: those it was created with *)
(* (a heap that was used before is one pool), and the first one of each heap *)
(* merged into it.                                                           *)
CreatedPools(c) ==
  LET first == PoolAt(c, 0)
      rest  == {PoolAt(c, k) : k \in 1 .. FullPools(region[c].size)}
  IN  {first} \cup {q \in rest : FirstBlock(q) \in DOMAIN mem.blk \ ToSet(tlsf_walk_pool(mem, first))}

PoolsOf(c) ==
  IF c = smd_tlsf THEN {tlsf_get_pool(c)}
  ELSE CreatedPools(c) \cup {PoolAt(a, 0) : a \in {x \in DOMAIN region : region[x].heap = c /\ x # c}}

(* The lists of a heap hold exactly the free blocks of its pools: none is    *)
(* lost, none is there that is in use, whatever was merged and reused.       *)
ListsExact ==
  \A c \in InUse :
    FreeBlocks(c) = {b \in UNION {ToSet(tlsf_walk_pool(mem, q)) : q \in PoolsOf(c)} : mem.blk[b].free}

(* tlsf_check and tlsf_check_pool find nothing wrong with any heap: bitmaps  *)
(* and lists agree, blocks know their neighbours, and no two free blocks are *)
(* side by side.                                                             *)
HeapsChecked ==
  \A c \in InUse : tlsf_check(mem, c) /\ \A q \in PoolsOf(c) : tlsf_check_pool(mem, q)

(* A request is refused only if no free block has the size of the list where *)
(* the search starts: good fit, over both levels of bitmaps.                 *)
RefusedOnlyIfFull ==
  \A c \in InUse, size \in Sizes :
    LET adjust == adjust_request_size(size, 1)
        at     == mapping_search(adjust)
    IN  adjust # 0 /\ LocateIndex(mem, c, adjust) = {} =>
          \A b \in FreeBlocks(c) :
            LET has == mapping_insert(mem.blk[b].size)
            IN  has.fl < at.fl \/ (has.fl = at.fl /\ has.sl < at.sl)

(* A heap in which the application holds nothing is as it was created: what  *)
(* freeing, resizing, discarding and reusing left behind has come together   *)
(* again.                                                                    *)
OwnHeaps == {sdi_tlsf[sdi] : sdi \in {s \in Listed \cup {ROOT_DOMAIN} : sdi_init_heap_flag[s]}}

NoResidue ==
  \A c \in OwnHeaps :
    (\A p \in DOMAIN live : HeapOf(p) # c) =>
      \A q \in PoolsOf(c) :
        Len(tlsf_walk_pool(mem, q)) = 1 /\ mem.blk[FirstBlock(q)].free

(* The monitor's nodes and entries are blocks of its heap that nobody else   *)
(* was given.                                                                *)
Kept == {udi_control[i].node : i \in DOMAIN udi_control} \cup {cache[i].entry : i \in DOMAIN cache}

MonitorBlocksKept ==
  /\ Cardinality(Kept) = Len(udi_control) + Len(cache)
  /\ \A p \in Kept :
       /\ block_from_ptr(p) \in ToSet(tlsf_walk_pool(mem, tlsf_get_pool(smd_tlsf)))
       /\ ~mem.blk[block_from_ptr(p)].free
       /\ p \notin DOMAIN live

(* In the words of HeapSpec: the memory that serves a heap, and the chunks.  *)
Arena == [a \in {x \in DOMAIN region : region[x].heap # NULL} |-> region[a]]

Chunk == [p \in DOMAIN live |-> [asked |-> live[p].asked, align |-> live[p].align,
                                 size  |-> mem.blk[block_from_ptr(p)].size]]

Alloc == INSTANCE HeapSpec WITH arena <- Arena, chunk <- Chunk

(* What the allocating functions promise: HeapSpec. *)
AllocatorSpec == Alloc!Spec
=============================================================================
