# A specification of SDRaD

SDRaD (`libsdrad`) lets a C program run parts of itself in *domains*.  An
execution domain has its own stack, heap and memory protection key; when code in
it faults, the library discards the domain and makes the `sdrad_init` call that
created it return a second time.  A data domain is only a heap with a key.  The
library's own tables are under a key no domain may touch; every API call opens
all keys first (`sdrad_store_pkru_config(PKRU_ALL_UNSET)`) and is meant to
restore the PKRU of the domain that runs.

This directory holds TLA+ modules for that library, TLC configurations, and
proofs checked by TLAPS.

    tlc -config nested.cfg MCSdradDomains.tla      one run
    tlapm SdradDomains_proofs.tla                  the proofs of a module

Paths below are relative to `src/src/`, the library's directory.

## 1. Inventory

| component | state | operations | modelled in |
|---|---|---|---|
| domain life cycle: `sdrad_api.c`, `sdrad.c` | per process: slot table `status`, keys `pdi`, list of `udi_control_t`; per thread: `active_domain`, `pkru_config[]`, `sdrad_d_info[]` | `sdrad_init`, `sdrad_enter`, `sdrad_exit`, `sdrad_deinit`, `sdrad_destroy`, `sdrad_dprotect` | `SdradDomains` |
| fault and rewind: `sdrad_signal.c`, `sdrad_error_handling.c`, `sdrad.c`, `sdrad_init.S` | the saved `jmp_buf`, the signal mask | SIGSEGV/SIGALRM handler, `__wrap___stack_chk_fail`, `sdrad_abnormal_domain_exit`, `sdrad_init_destroy` | `SdradDomains`, `SdradSignals`, `RewindStack` |
| domain cache: `sdrad_cache.c` | a stack of destroyed domains: stack, heap, key | insert (destroy, rewind), delete (init) | `SdradDomains` |
| keys: `sdrad_pkey.c` | the PKRU register, `pkey_alloc` | compute and load a PKRU | `SdradBase`, `SdradDomains` |
| heaps: `sdrad_heap_mng.c` | `tlsf_structure`, each domain's heap | `malloc` family, `sdrad_malloc` family, lazy creation | `SdradDomains` (which heap, under which key), `SdradHeaps` (what is in it), `SdradShared` (heaps used by several threads) |
| threads: `sdrad_thread.c`, `.h` | `sgm_thread_id[]`, `stm_ptr[]`, `sgm_lock`, the handshake | `pthread_create`, `sdrad_pthread_construstor`, `pthread_join`, `sdrad_get_sti` | `SdradThreads` |
| TLSF: `tlsf.c` | blocks and free lists of a heap | malloc, free, realloc, memalign, `tlsf_merge_pool`, `tlsf_check` | `Tlsf`, `SdradHeaps`, `HeapSpec` |
| startup: `sdrad_constructor`, `__libc_start_main`, `sdrad_enter_root.S`, `sdrad_exit_root.S` | the root domain's stack | run before `main` | its result is `Init` |
| `sdrad_call` | none | init, malloc, enter, call, exit, destroy | not modelled |

**How they interact.**  The API functions call each other's helpers directly and
share the global manager and one metadata record per thread.  A fault enters
through the kernel: the handler puts `sdrad_abnormal_domain_exit` in the place of
the interrupted instruction, that looks at the active domain's key and either
calls `abort()` or `longjmp`s into the frame `sdrad_init` saved, where
`sdrad_init_destroy` destroys the domain and moves the active domain to its
parent.  The parts of the library that allocate use the application's own
`malloc`/`free`, which are the library's too: that is how a rewind can run heap
code, create a heap, and fault again.  Threads meet only in the global manager.

**What is hard.**  Return addresses, parents, saved contexts and stack pointers
are kept in five places that must agree after any order of calls and faults.
`longjmp` goes to a frame that may be gone.  Slots, keys and stacks are reused
without being reset.  Keys travel between domains through the cache.  A fault can
happen during the recovery from a fault.  The tables are small and their searches
answer −1 or −20, which the code uses as indexes since `NDEBUG` removes every
`assert` (`sdrad.h:26`).  With threads: a handshake over one global, searches and
stores without the lock, and `pthread_t` values that the C library reuses;
copies of a domain's entry in the tables of other threads, made at the first call
and never refreshed; two mutexes for one heap.  With timers: the handler of
SIGALRM rewinds whatever it interrupts, the library and the recovery included.
In the heaps: the allocator keeps what it knows of a block in its neighbours'
headers, and the library recycles, merges and abandons heaps under it.

**What makes each part correct.**

- life cycle: the library's idea of who called whom is the truth (`CallChain`);
  udi and slots map one to one (`ControlWellFormed`); the code that runs has the
  PKRU of the active domain and can use its own stack (`PkruOfActive`,
  `StackUsable`).
- fault and rewind: a fault costs the faulting domain and nothing else
  (`RewindStackSpec`), and recovery ends (`FaultResolved`).
- cache: no key or stack is lost or has two owners (`KeysConserved`,
  `StacksOwned`).
- keys: nobody gets the monitor's key, and only the root writes under the root's
  (`MonitorShut`).
- threads: a thread runs its own routine (`RightRoutine`), `pthread_create`
  returns (`CreateReturns`), a thread finds its own metadata (`FindsItself`), a
  domain slot has one holder (`DomainsDistinct`), no slot leaks
  (`SlotsAccounted`).
- TLSF: the free lists hold exactly the free blocks (`ListsExact`), the allocator's
  own checks find nothing (`HeapsChecked`), a request is refused only when
  nothing fits (`RefusedOnlyIfFull`), and users get disjoint, large enough, aligned
  memory that stays theirs (`AllocatorSpec`).
- heaps: a heap hands out only its own memory (`HeapsApart`), a heap that is
  empty again has come together again (`NoResidue`), and the monitor's nodes are
  nobody else's (`MonitorBlocksKept`).
- shared domains: one heap for a domain whoever calls first (`UsesOwnersHeap`,
  `FreedWhereAllocated`, `HeapsOwned`), one thread in a heap (`HeapExclusive`), and
  no call waits for ever (`CallsEnd`).
- signals: the next violation can be caught (`SegvDeliverable`), malloc uses the
  heap of the domain that runs (`HeapSelected`), and a timer is a fault before or
  after the call it interrupts (`RewindStackSpec`, `ChainApart`).

`PROJECT.json` lists under "hazards" where each of these can go wrong, by line,
also for the parts with no property yet.

## 2. Modules

| module | what it is |
|---|---|
| `SdradBase` | slots, init flags, PKRU values: constants and operators |
| `SdradDomains` | one thread: every API call, malloc, faults, the handler |
| `RewindStack` | abstract specification of control flow |
| `SdradDomainClaims` | what comments and assertions claim and the code does not do |
| `MCSdradDomains` | instances of the above |
| `SdradDomains_proofs` | theorems about `SdradDomains`, and about who owns a key or a stack in it |
| `ListLemmas` | lemmas about lists and stacks as sequences |
| `Tlsf` | the allocator's functions, as operators on its memory |
| `Tlsf_proofs` | theorems about these operators |
| `SdradHeaps` | the heaps: allocation, recycling, merging, on the memory of `Tlsf` |
| `HeapSpec` | abstract specification of a set of heaps |
| `MCSdradHeaps` | instances of `SdradHeaps` |
| `SdradHeaps_proofs` | theorems about `SdradHeaps`, its refinement of `HeapSpec` among them |
| `SdradSignals` | the life cycle and the recovery write by write, with a timer |
| `MCSdradSignals` | its instance |
| `SdradSignals_proofs` | theorems about `SdradSignals` |
| `SdradSignalsOwners_proofs` | theorems about its bounds, and who owns a key or a stack in it |
| `SdradThreads` | the thread table, the handshake, slot allocation between threads |
| `MCSdradThreads` | instances of it |
| `SdradThreads_proofs` | theorems about `SdradThreads` |
| `SdradShared` | domains whose heap several threads use |
| `MCSdradShared` | its instance |
| `SdradShared_proofs` | theorems about `SdradShared` |

How they fit: `SdradDomains` takes a library call as one step and a heap as a
number.  `SdradHeaps` opens the heaps, `SdradSignals` the steps, and each leaves
the other's detail out.  `RewindStack` is implemented by `SdradDomains` and by
`SdradSignals`, so both agree on what a fault does; `SdradHeaps` extends `Tlsf` and
implements `HeapSpec`.  `SdradThreads` is about the threads themselves,
`SdradShared` about what they do to each other's domains.

### SdradDomains

The default build: `PKEY_ENABLE`, one thread (`Makefile:4`), assertions compiled
out.  One action is one library call, from the application's point of view
atomic: with one thread only a signal could come between its steps, and that
is `SdradSignals`.
Variables have the names of the C fields.  Three abstractions:

- *Memory* is a sequence `mapped` of regions, each with its key; a region number
  stands for an address, `NULL` is 0.  What is in a heap is not modelled.
- *A PKRU* is a function from keys to the two bits of each.
- *Frames.*  `calls` is a ghost variable: the domains whose frames are on the
  stacks, the root first.  `sdi_last_rsp` and `sdi_buffer` (the stack pointer and
  the `jmp_buf` that the code saves) hold levels of that chain instead of
  addresses, so that `CallChain` can say whether they point at a live frame.

`ctl` tells who runs: the application, a raised fault whose handler has not run,
`sdrad_init` resumed by `longjmp`, nobody after `abort()`, and `"oob"` once slot
−1 was used as an index: from there the memory is corrupt and nothing more is
modelled.  `"killed"` is `sdrad_enter` of a domain that has no stack
(`sdrad_enter_no_stack`), which faults where no handler can run.  A failed search that is *not* fatal is modelled to the end: when
`sdrad_search_udi_control` answers −20 the code writes `pdi[-20]`, which is an
element of `status` (`OverwrittenSlot`).  The store before it, `sgm_udi_to_sdi[-20]`
(`sdrad.c:753`), is not modelled: it lands in the last entries of `sgm_thread_id`, which
matter only to a process with more than 180 threads.

*The environment.*  The application may call anything in any order, within what
the API header asks of it: it enters a domain from the frame that initialised it,
does not deinit or destroy a domain that is on the call chain, names a data
domain as the source of `sdrad_dprotect`, exits only what it entered.  A function
does not return out of the frame that called `sdrad_init` before
`sdrad_deinit` or `sdrad_destroy`.  A fault may happen whenever application code
runs, and inside the library's recovery where its code can touch a closed page.

*Fairness.*  `WF(Handler)`: a raised signal is delivered, and its handler, which
waits for nothing, runs.  The application may stop calling at any time.

### RewindStack

A stack of domains and the frames saved by `sdrad_init`.  `Save`, `Call`,
`Return`, `Fault`, `Unwind`, `Abort`, `Corrupt`.  `Unwind` takes exactly the top
of the stack off, and its fairness says that recovery comes to an end.
`SdradDomains` implements it with `chain <- calls, frame <- sdi_buffer,
mode <- Mode`.  It does not for `SDRAD_RETURN_TO_PARENT` domains, whose faults are
meant to take two.

### Tlsf, SdradHeaps, HeapSpec

`Tlsf` has one operator for each function of `tlsf.c`, with its name; a memory `m`
is the block headers that are meaningful (`m.blk`, by address), the control
structures (`m.tlsf`: both bitmaps and the lists) and whether an assertion has
failed (`m.abort`; `tlsf.c` does not see `NDEBUG`).  Addresses and sizes count words of
`ALIGN_SIZE` bytes; `SL_INDEX_COUNT_LOG2` and `FL_INDEX_MAX` are constants, so that
both levels of the lists are used by blocks of a few words.  `1 << k` is the recursive
function `power2`, and a header that a new block brings into being is added `With` the
others; both are written so that they can be reasoned about.

`SdradHeaps` is the library on top: which control structure each call works on, how
a heap is created in pools, what becomes of it when its domain is destroyed,
merged or rewound, and where the library itself allocates (a `udi_control_t` for
each domain, a cache entry for each destroyed one).  `region` and `live` are ghost
variables: what was mapped, and what the application holds.  The application frees
and resizes only what it holds, with the call that belongs to the heap it came from.
`LastFirst` restricts it to destroy domains in the reverse order of their creation:
without it `HeapsApart` is false (section 3).

`HeapSpec` is what a user relies on: chunks lie in arenas of their heap, apart from
each other, as large and aligned as asked, and stay until freed, resized or
discarded with their heap.  `SdradHeaps` implements it with `arena` from `region`
and `chunk` from `live` and the sizes in the block headers.

### SdradSignals

The life cycle of execution domains once more, a step for each write to the tables
that a signal handler can see (`ctl` is the place in the call), and `Alarm`, which
may happen before any of them, also inside the handler and inside
`sdrad_init_destroy`.  `mask` is the signal mask: the kernel blocks the signal that is
handled, the handler unblocks SIGSEGV alone, `longjmp` restores nothing.  So there
is at most one timeout in the life of a thread, and a SIGSEGV raised while it is
blocked kills the process.  `torn` records that the timer went off in one of the
`HalfUpdated` steps, in which the tables contradict themselves.  A node that was linked
and not filled in has the slot `NO_SLOT`: in the code it holds what the allocator left in
the block, which is no slot's number.  A call that finds such a node works far from the
tables and faults or spoils memory (`CallWithoutSlot`; `"corrupt"`, after which nothing
more is modelled).

*Fairness.*  `WF(Recovery)`: the thread goes on.  A timer may cut every recovery
short, but only once.

### SdradShared

The calls of the `sdrad_malloc` family in the `SDRAD_MULTITHREAD` build, each from
its search for the domain to its unlock: which thread's `sdrad_d_info` it looks at,
when it copies the owner's and when it makes a heap.  `sgm_lock` is recursive,
`malloc_mutex` is the other lock.  One thread, `Maker`, makes and destroys domains;
`SdradThreads` shows what happens with two.  A fault in the allocator (`Rewind`)
takes the thread out of the call and leaves the lock.

*Fairness.*  `WF` of each thread's steps inside a call.

### SdradThreads

The `SDRAD_MULTITHREAD` build.  A step is what a thread does between two accesses
that another thread can come between: `pc` is the thread's place in
`sdrad_pthread_construstor`, `pthread_create` or `pthread_join`.  In particular
the look at `status[i]` and the store to it are two steps (`sdrad.c:67-68`), and
so are the C library's `pthread_join` and the release of the slots after it
(`sdrad_thread.c:263-270`).  `tid` is the `pthread_t`, which the C library may
give to a new thread once the old one is joined, or has ended if detached
(external).  The condition variable does not appear: its calls are arguments of
`assert`, so the creator spins (`pthread_create_spins`).  `"corrupt"` is
the use of −1 as an index.

*Fairness.*  `WF` of every thread's steps inside the library (`Library(t)`): the
kernel schedules a runnable thread.  Nothing forces the application to call,
and nothing forces a mutex to be granted that is not free.

## 3. Runs

Passing runs.  Every property has a mutant of a mapped definition in
`PROJECT.json` (a dropped guard, a swapped order, a wrong index) that breaks it.

| run | instance | states | shows |
|---|---|---|---|
| `nested` | 2 udi, 3 free slots: two levels, reuse through the cache | 1 684 000 | `ControlWellFormed`, `CallChain`, `KeysConserved`, `StacksOwned`, `StackUsable`, `PkruOfActive` |
| `data` | isolated, non-isolated and data domains, `dprotect`, heap merging, a rejected flag set | 700 000 | `TypeOK`, `MonitorShut`, `FaultResolved`, `RewindStackSpec` |
| `parent` | `SDRAD_RETURN_TO_PARENT` | 76 000 | `ControlWellFormed`, `FaultResolved` |
| `tlsf` | one heap of two pools, 4 allocations at once, sizes in three lists, one alignment | 19 000 | `TypeOK`, `CallsReturn`, `ListsExact`, `HeapsChecked`, `RefusedOnlyIfFull`, `AllocatorSpec` |
| `heaps` | 3 domains of both kinds one after the other, on heaps of one or two pools, with faults | 106 000 | `CallsReturn`, `HeapsApart`, `NoResidue`, `MonitorBlocksKept`, `AllocatorSpec` |
| `signals` | 2 udi, 2 free slots, one timer, 2 violations | 134 000 | `TypeOK`, `SegvDeliverable`, `HeapSelected`, `ChainApart`, `RewindStackSpec` |
| `threads` | 5 threads, one creates and joins and calls `sdrad_init`, creation may fail, 4 `pthread_t` | 172 000 | `TypeOK`, `FindsItself`, `DomainsDistinct`, `SlotsAccounted` |
| `creators` | 4 threads, 2 create and join, 4 slots in each table, one detached thread | 64 000 | `RightRoutine`, `CreateReturns` |
| `shared` | 3 threads, 2 domains, 3 calls, a fault in the allocator | 297 000 | `TypeOK`, `HeapExclusive`, `UsesOwnersHeap`, `FreedWhereAllocated`, `HeapsOwned`, `CallsEnd` |

Runs that refute what the source says of itself (findings):

| run | property | what happens |
|---|---|---|
| `slots` | `SlotFound` | `sdrad_destroy` never gives `status[sdi]` back: 28 domains made one after another use up the table, and −1 becomes an index |
| `no_stack` | `EntersOwnStack` | an execution domain made while the head of the cache is what is left of a data domain gets that one's stack, which is none (`sdrad.c:495`) |
| `merge` | `AssertsHold` | `tlsf_merge_pool` gives the block after the last free one size 0, also when it is in use (`tlsf.c:1088`); a later `free()` of it fails an assertion |

More claims do not hold.  They have no run of their own; each is refuted when it is
checked with the configuration named here, changed as said.  The first nine are
in `SdradDomainClaims`; the others are properties of the passing runs, which the
change takes out of the instance in which they hold.

| claim | source | configuration | what happens |
|---|---|---|---|
| `RecoveryReturns` | `sdrad_api.h:58` | `nested` | the rewind calls the application's `free()` on a monitor node; with no heap selected it creates one, closes the monitor and faults (`sdrad.c:663`) |
| `IsolatedFromParent` | `sdrad_api.h:63` | `data` | a parent keeps the rights it had to a key's previous owner (`sdrad_api.c:247`), and the key is reused for an isolated child |
| `HeapIsOwn` | `sdrad_api.h:57` | `nested` | a slot that is reused keeps the heap of its last owner when the cache entry has none |
| `RewoundHeapCached` | `sdrad_cache.c:4` | `nested` | the heap flag is not set when the heap came from the cache, so the next rewind loses the heap |
| `DataKeySeparate` | `sdrad_api.h:67` | `data`, `TOTAL_DOMAIN = 5` | a data domain takes the key of a cached head without a heap, which stays in the cache for the next domain |
| `OnlyRootAborts` | `sdrad.c:369` | `parent`, `TOTAL_DOMAIN = 5` | rewinding a child of the root with `SDRAD_RETURN_TO_PARENT` caches the root's key |
| `StackHasOwnKey` | `sdrad_api.h:57` | `data`, `Features <- NonIsolatedAndData`, `TOTAL_DOMAIN = 5`, `NUM_PKEYS = 5`, `Options = {"NO_HEAP_MERGE"}`, `Access = {}`, `MaxRegions = 5`, `MaxCache = 3` | `sdrad_data_domain_init` leaves the stack of the slot's last owner in the table, `sdrad_destroy` caches it with the data domain's key (`sdrad_api.c:332`), and the next execution domain runs on a stack that another domain's key opens |
| `PkruRestored` | `sdrad_api.c:353` | `nested` | error returns leave the register open |
| `DprotectKeepsCaller` | `sdrad_api.h:109` | `data` | with the root as target the caller continues with the root's PKRU |
| `PkruOfActive` | | `data` | the same, seen as a state |
| `StackUsable` | | as `StackHasOwnKey` | the stack of that claim, in a domain that has no rights to its key |
| `HeapsApart` | | `heaps`, `LastFirst = FALSE`, `MaxListed = 2` | the node of a domain that is not the last is freed into the heap that is selected, which hands out monitor memory from then on |
| `CallsReturn` | | `heaps`, `SDRAD_DEFAULT_HEAP_SIZE = 12`, `SDRAD_DEFAULT_DATA_DOMAIN_SIZE = 20` | a slot that keeps the heap of its last owner has its `sdi_size_of_heap` reset to the configured one (`sdrad.c:170`); where `SDRAD_HEAP_SIZE` is less than `SDRAD_DATA_DOMAIN_SIZE`, `sdrad_free` does not find memory in the last part of the heap and faults |
| `AssertsHold` | `tlsf.c:1271` | `tlsf`, 32 = 2^`FL_INDEX_MAX` added to `Sizes` | a `realloc` that asks for `block_size_max` or more has its size adjusted to 0 and trims the block to nothing |
| `FindsItself` | `sdrad.c:272` | `threads`, `Creators = {0, 1}` | a slot is given back after the thread is reaped (`sdrad_thread.c:263`), a new thread with the same `pthread_t` finds the old slot |
| `FindsItself` | `sdrad.c:272` | `threads`, `Detached = {2}` | the slot of a thread that nobody joins is never given back (`sdrad_thread.c:270`) |
| `DomainsDistinct` | `sdrad.c:148` | `threads`, `Requesters = {0, 1}` | `sdrad_find_free_domain` is check-then-set without a lock (`sdrad.c:67`) |
| `CreateReturns` | `sdrad_thread.c:239` | `creators`, `MayFail = TRUE` | `real_pthread_create` fails, the caller spins for ever with `sgm_lock` held (`sdrad_thread.c:241`) |
| `UsesOwnersHeap`, `FreedWhereAllocated` | | `shared`, `calloc` and `realloc` on execution domains | they copy the entry of an owner that has no heap yet and mark the copy as initialised (`sdrad_heap_mng.c:475`, `330`) |
| `HeapExclusive` | | `shared`, with `memalign` | `sdrad_memalign` takes the other mutex (`sdrad_heap_mng.c:374`) |
| `HeapsOwned` | | `shared`, `Ends = {"rewind"}`, `MaxMade = 3`, 2 threads | a slot that comes back by a rewind still has its old heap in the tables of other threads |

The passing runs stay on the near side of these: `heaps` with one listed domain,
`shared` with the calls in the order that works (`CallsInOrder`) and without
`memalign`, `threads` with one creator.  They say that nothing *else* goes wrong
there.  In `signals` the near side is part of the property: `HalfUpdated` names the
eight steps a timer must not interrupt, and none of them can be left out (each was
taken out and `ChainApart` refuted; for `d_fill` and `r_fill` with five slots and
three udi).  In `shared` it is `LockOrphaned`: a fault in the allocator leaves
`sgm_lock` taken for ever, and all that `CallsEnd` promises is that nothing else does.

**Bounds.**  `TOTAL_DOMAIN` 4 or 5 leaves 2 or 3 slots to domains: enough for a
domain inside a domain, for reuse of a slot's fields, and for running out.
`DOMAIN_NO_MAP` is scaled with the table (−20 of 30 becomes −1 of 4), so that the
stray store lands in the same array.  `NUM_PKEYS` gives every domain that can be
alive or cached a key and is never reached with fewer; three udi add only
symmetric copies.  `MaxRegions` and `MaxCache` bound the application's calls
alone: no handler, rewind or recovery is ever cut off by them, so the liveness
properties are not vacuous.

For the heaps: with `SL_INDEX_COUNT_LOG2` 2 and `FL_INDEX_MAX` 5 or 6 a heap of 40
words has blocks in several lists of both levels, and splits, merges to both sides,
in-place growth and moves all happen; the heap is larger than
`SDRAD_TLSF_MAX_HEAP_SIZE`, so that it has two pools.  `MaxChunks` 4 lets a free
block lie between two used ones on both sides.  In `heaps` the monitor's heap has
room for as many nodes and entries as `MaxDomains` needs; with less the library
writes through the NULL that `sdrad_malloc_mdd` returns.  Heaps of execution and of data
domains are equally large there, as they are in the code unless the environment says
otherwise (`sdrad.h:56-58`).

For threads: 5 threads let a slot be reused twice; with 4 slots
`find_thread_slot` fails, with 4 domain slots `find_domain` does; in `threads` there
are fewer `pthread_t` than threads, so that reuse happens; `creators` has one for
each, so that two threads can be created at once.  `Tid` and `Udi` are symmetric;
symmetry is used only in runs without temporal properties.  The branch of
`join_scan` with no answer needs two joiners and two reuses; no passing run is large
enough to reach it, and the theorems that hold for two joiners cover it.  In `shared`
three threads are an owner and two users; three calls are an allocation, another one
in between, and a free.

Deadlock is checked except in `heaps` and `merge`, where the library may have
faulted or used up the bounds, in `shared`, whose bounded calls come to an end, and
in `signals`, whose last states stutter in any case.

## 4. Proofs

`SdradDomains_proofs`, from `BaseAssumption`, `DomainsAssumption` and
`NoReturnToParent` (no flag set contains `SDRAD_RETURN_TO_PARENT`), for every
table size, number of keys, udi, flag sets and bounds:

| theorem | |
|---|---|
| `Invariance` | the inductive invariant `IInv` |
| `TypeCorrect`, `ControlSafe`, `CallChainSafe`, `MonitorStaysShut` | the safety invariants of the runs |
| `ImplementsRewindStack` | `Spec => Rewind!Init /\ [][Rewind!Next]_(Rewind!vars)` |

`CallChain` is not inductive.  Entering a domain must link it to the active one,
so it must be known *before* `sdrad_enter` that a saved frame is on the chain and
in the domain the new one calls parent (`FrameOwner`).  A fault must not be taken
for the root's, so no key that can be handed on may be the root's
(`ReservedKeys`: over `pdi`, the udi list and the cache), which needs that the
cache is never fed a parent's key (`OptionsKnown`, from `NoReturnToParent`).
`ConfigsShut` extends `MonitorShut` to the domains that can be entered later;
`ReservedSlots` keeps the two slots of the constructor out of the search; and
`RewindAboveRoot` says that `longjmp` never happens in the root domain.  The
assumption is needed: with `SDRAD_RETURN_TO_PARENT` the root's key does get into
the cache (`OnlyRootAborts` is refuted).

The proof has a lemma per action and, for the refinement, a lemma per action that
names the abstract step.  `IInv` was model-checked before it was proved.

The second part of the module goes on from `IInv`, with one more assumption, `ExecutionOnly`:
no flag set makes a data domain and no destroy merges heaps.

| theorem | |
|---|---|
| `OwnersInvariance` | the inductive invariant `OInv` |
| `KeysAreConserved`, `StacksAreOwned`, `StacksAreUsable`, `PkruIsOfActive` | the safety invariants of `nested` that are about ownership |

A key is in the udi list, in the cache, or has not been allocated; every call moves
at most one of them.  `KeysApart` and `KeysFound` say that of keys, `KeysTaken` that
what is fresh from `pkey_alloc` is nobody's, `StacksTagged` that a stack goes where
the key goes that it was tagged with, and `OwnKeyOpen` that a listed domain can use
its own key, which is what its stack needs.  `ChainListed` makes them facts about
the domains that run: sdrad_destroy refuses a domain with frames on its stack.
`OptionsExecution` is why the head of the cache leaves the cache whenever its key is
used; with data domains it may stay (`DataKeySeparate`) and the theorems are false,
`StackUsable` too (`StackHasOwnKey` in section 3).  Most actions move nothing, and one lemma
(`QuietStep`) covers them; the four that move an entry have a lemma each.
`OInv`, too, was model-checked before it was proved, with three free slots.

`SdradThreads_proofs`, from `BaseAssumption` and `ThreadsAssumption`:

| theorem | extra assumption |
|---|---|
| `ThreadsTypeCorrect`, `RoutinesRight` | none: any number of creators, full tables, failing creation, detached threads |
| `ThreadsFindThemselves` | `OneCreator`: thread 0 alone creates and joins, nobody is detached |
| `ThreadsHoldDistinctDomains`, `ThreadSlotsAccounted` | and `OneRequester`: thread 0 alone calls `sdrad_init` |

The handshake needs only `Handshake`: the holder of `sgm_lock` is the thread
that spins, and while a constructor has yet to read the routine somebody spins
and the routine is that constructor's.  `ThreadInv` adds that live threads have
distinct `pthread_t`, that every `pthread_t` in the table belongs to a live
thread in the slot it found, that a slot found by a constructor is still free when
it is written, and that nothing lies above `sgm_total_thread`.  `DomainInv` says
of the domain table that what threads keep is disjoint, occupied, and all there
is.  The extra assumptions cannot be dropped: section 3 names the instances that
refute `FindsItself` and `DomainsDistinct` without them.

What the theorems of this second module say of the code in one sentence: a
program whose main thread alone creates, joins and initialises domains is safe
from the races in the thread code, at any size.

`SdradSignals_proofs`, from `SignalsAssumption` (a table of more than two slots, and the two keys that the
constructor takes), for
every number of slots, keys, udi and faults:

| theorem | |
|---|---|
| `Invariance` | the inductive invariant `IInv` |
| `SegvAlwaysDeliverable`, `HeapAlwaysSelected` | two safety invariants of `signals` |
| `ImplementsRewindStack` | `Spec => Stack!Init /\ [][Stack!Next]_(Stack!vars)` |

`SegvDeliverable` is inductive alone; the others are about the chain, and a timer can
leave the tables wrong in ways that come back to it.  Three facts keep it whole.
`RootKeyKept`: however often a half-updated entry is used, the root's key is never in
the cache or in another slot, so a fault that aborts is the root's.  `ListedOnce`: a
slot that is allocated again is not in the list any more, so a domain on the chain
keeps its parent and its frame (`Chain`, `Frames`).  `MonitorSlot`: the monitor's slot
is in no node and not on the chain; a node that a timer left half filled names no slot
(`HalfFilled`), so it gives nobody a slot to enter, leave or rewind, and a call that
finds it is `CallWithoutSlot`, a fault of its caller or the end.  Refinement has one lemma per
kind of step: the write to `active_domain` in `sdrad_enter` and `sdrad_exit` is the
abstract call and return, and a rewind cut short by a second signal is an unwinding
that faults.  `ListLemmas` holds what the proof modules say about sequences.

`SdradSignalsOwners_proofs` goes on from that `IInv`, with no further assumption:

| theorem | |
|---|---|
| `SignalOwnersInvariance` | the inductive invariant `OInv`: `IInv`, bounds, and `Apart` unless `torn` |
| `SignalsTypeCorrect`, `ChainStaysApart` | the other two safety invariants of `signals` |

`TypeOK` needs a fact that is not about types: a jmp_buf is at a level of a chain
whose domains are distinct, so no deeper than the table (`ChainIsShort`).  For
`ChainApart` a slot is followed write by write.  A slot that is listed or on the chain
is an `Owner`; while `sdrad_init` has yet to write its key and stack, or
`sdrad_destroy` has cleared the key, it is `Partial`; while it is in the cache and
still in the tables it is `GivenUp`; an entry that is linked and not filled in is
`Blank`.  Around these exceptions (the `HalfUpdated` steps and the last two of a rewind) keys
are in one place (`KeysApart`), a stack goes with the key it was made with (`Pairs`), the key that
`sdrad_init` holds between its writes is the head's or nobody's (`KeyReserved`), and a
node without a slot has no udi by which a call could find it (`NodesWhole`).  The
theorem is then what it says in section 3: a timer at any other step leaves no
exception behind, because the slot in work is by then either whole or nobody's.
`Apart`, too, was model-checked before it was proved.

`SdradShared_proofs`, from `SharedAssumption`, for any number of threads, domains,
slots and calls:

| theorem | extra assumption |
|---|---|
| `SharedInvariance` (`SInv`), `SharedTypesCorrect` | none |
| `HeapsAreExclusive` | `NoMemalign`: nobody calls `sdrad_memalign` |
| `SharedOwnersInvariance` (`OInv`), `OwnersHeapUsed`, `FreesReachTheirHeap`, `HeapsHaveOneOwner` | `CallsOrdered` |

`SInv` holds of every application the module describes: a thread past the lock of
its call holds that lock (not another), the domain it calls on is still listed and
the slot it looked up is the one the list still names.  It is enough for
`HeapExclusive` once `sdrad_memalign`, which takes the other mutex, is not called; a
fault in the allocator only leaves the lock with the thread that faulted.

`CallsOrdered` is `NoMemalign`, `sdrad_calloc` and `sdrad_realloc` on data domains
only, and domains that end by `sdrad_destroy`.  Each part is needed: section 3 has
the instance that refutes the property without it.  `OInv` then relates the
`sdrad_d_info` of a caller to that of the thread that made the domain.
`CopiesAgree`: whoever has a heap for a slot has the maker's.  It survives the
copying because of `CallsKnow`, which says at each step of a call what it has found
out: the maker alone gets to make a heap, others copy an entry that has one, and a
call that frees was handed a block of that heap.  `DataHasHeap` is what makes
`sdrad_calloc` right on data domains, whose heap is made with them.  `SlotsUsedOnce`
and `Filling` say that the slot of a new domain is one no table has a heap for, which
is what a rewind breaks.  `LiveApart`, `LiveNotCached` and `CachedApart` follow a heap
from a domain into the cache and out of it.  `SInv` and `OInv` were model-checked
before they were proved, with more calls and more domains than `shared` has.

`Tlsf_proofs`, from `TlsfAssumption`, about the operators of `Tlsf` on any memory with its
heaps anywhere, any number of lists on both levels and any size:

| theorem | |
|---|---|
| `GoodFit` | every block of a list at or after `mapping_search(s)` has at least size `s` |
| `MallocIsSound`, `FreeIsSound`, `ReallocIsSound`, `MemalignIsSound` | a call on a `Valid` memory leaves it `Valid`, answers as it should, and leaves every block in use that it was not given as it was |
| `CreateIsSound` | so does making a heap, in new memory or over an old heap |
| `WalkIsSound` | `tlsf_walk_pool` comes to every block of a heap, in order of addresses, and to no other |
| `CheckIsSound`, `CheckPoolIsSound` | `tlsf_check` and `tlsf_check_pool` pass |
| `UnusedIsWhole` | with nothing in use a heap is one free block |
| `RequestLeavesRest` | a free block of more than twice a request's size is enough for it, and what it does not need stays in one block |

`Valid` is what the comments of `tlsf.c` call the physical and the logical order.  The
blocks cover each heap from its first header to the block of size 0, each starting
where the one before ends (`Tiled`, `Placed`); a block knows whether the one before it is
free, and then where that starts (`Linked`); no two free blocks are neighbours
(`FreeApart`); a block is in a list exactly when it is free, in the one list of its size,
once, and of its own heap (`ListsOK`); the bitmaps say which lists are not empty
(`BitmapsOK`).  In the middle of a call it is `Between` that holds: `FreeApart` with
the exception of the blocks being merged or split (`E`), `ListsOK` with the exception of
those that are free and not yet in a list (`U`).  Each helper of `tlsf.c` has a lemma
that says how it moves a block in and out of these exceptions, and the calls put them
together.  That no assertion fails is part of `Valid`: `block_next` is never asked for
the successor of the last block, `block_merge_prev` never meets a used one, a
remainder is never too small for a header.

`1 << k` needs an induction, and so does the logarithm: the library's theorems on
well-founded relations give a least element of a set of numbers (`LeastNatural`), and every
induction here is about the least number for which something fails.

The five theorems from `WalkIsSound` on need one thing that `Valid` does not say: that a heap's blocks are one
row, not two rings or a row and a piece that no walk comes to.  `Starts` is the set of the blocks
that follow no other; `Headed` says that these are the first blocks of the pools,
one for each heap; and `Steady`, which each helper's lemma now carries next to `Intact`, that a call
makes no new start and no new end of a row (`Ends`), and uses no block but the one it answers with.  From `Headed`,
every block has one before it or is the first of its heap (`RowOf`), so a walk, which is a
recursive function over the addresses, is sound by an induction on the block it has got to.

`RequestLeavesRest` bounds good fit from the other side than `GoodFit`.  The search starts at the list above
the size asked for, which may pass over a block that is large enough; but the rounding at most doubles a size
(`MappingGrows`, `SearchReaches`), so it never passes over one of twice the size (`TwiceIsFound`), and
what is cut off the block found goes back to the lists (`MallocCuts`).

`ReallocIsSound` has the hypothesis that the request is smaller than
`block_size_max`, and it is needed.  `adjust_request_size` answers 0 for what is larger,
`tlsf_realloc` takes that for a request to shrink (`tlsf.c:1326`), cuts the block and
returns it as if it had grown.  `tlsf_malloc` and `tlsf_memalign` answer NULL there, and
their theorems have no such hypothesis.

`SdradHeaps_proofs`, from the assumptions on the constants and the hypotheses below:

| theorem | |
|---|---|
| `HeapsInvariance` | the inductive invariant `HeapsInv` |
| `HeapsTypeCorrect`, `HeapsStayApart`, `RefusedOnlyWhenFull` | three safety invariants of `tlsf` and `heaps` |
| `AssertionsHold` | what the run `merge` refutes, without `SDRAD_HEAP_MERGE` |
| `HeapsImplementHeapSpec` | `Spec => AllocatorSpec` |
| `ExactInvariance` | the second invariant, `Exact` |
| `HeapsPassTheirChecks`, `ListsStayExact`, `NothingIsLeftBehind` | `HeapsChecked`, `ListsExact`, `NoResidue`: what is in a heap, to the last block |
| `MonitorKeepsItsBlocks` | `MonitorBlocksKept` |
| `MonitorKeepsRoom` | the monitor's heap answers every request of the library |
| `CallsAlwaysReturn` | `CallsReturn`: no call faults in the library or aborts |

`HeapsInv` is that the memory is `Valid`, that what the application holds (`LiveIn`) and
what the monitor holds (`KeptIn`) are blocks in use of heaps that serve, large enough
(`HeapSound`); that no two domains have the same heap, and the selected one is the
active domain's or nobody's (`Owning`); that the heaps in the cache serve nobody and are
there once (`Caching`); that parents lie below their children in the list
(`Listing`); and what a free slot still knows of heaps (`Slots`).  The allocator's theorems
carry `HeapSound` through every call; the rest is about which heap it is.  In the
refinement a live block is a chunk whose size is the one in its header, so that
`Intact` is what says that a call moves nobody else's chunk.

`HeapsInv` says what is surely there, and `Exact` that nothing else is.  `Rows`: the
memory stays `Headed` as heaps are made and made again.  `Sized`: what is mapped has one of the two default sizes, so
a heap from the cache is as large as one that is made for its slot.  `Accounted`:
of a heap that a domain has flagged as its own, no block is in use but what the application holds.  A
call that answers with a block has it put into `live`, and a `tlsf_realloc` that moves frees the old one; `NoMore` is the step's side
of this.  A domain that takes a heap from the cache without making it anew is not flagged
(`sdrad.c:501`), and of such a heap nothing is claimed.  `KeptOnce`: no two nodes and entries are one
block; a node becomes the entry of no other domain, and `destroy_cached` frees the node that it takes off
the list, not another one.  With `WalkIsSound` and `UnusedIsWhole`, the three properties of a heap's contents follow.

`CallsReturn` is that no call faults or aborts.  `sdrad_free` must find the heap of every pointer
it may be given, so the search over the list must not end at a domain whose heap is
still NULL (`HeapsHigh`), and a node must be freed while the heap that it is from is
there; and the monitor's heap must have a block for each node and entry, since what `sdrad_malloc_mdd` answers
is not checked (`sdrad.c:624`, `sdrad_cache.c:54`).  `InitAnswers` and `NextAnswers` go through the calls one by
one.  For the last of the three there is a third invariant, `Room`: one free block of the
monitor's heap has all the words that no node and no entry has taken.  Each request of the library's own takes
its words from that block or from another one and leaves the rest (`RequestLeavesRest`); whatever the application does to
its heaps, and whatever heaps are made or emptied, leaves it (lemma `FreeBlocksStay`, and `CreateIsSound`).  Nodes and entries are counted
over the life of the program, not by what exists at once: the node at the head is never freed, nor is an entry
when its heap is used again.

- `OnePool`: a heap is no larger than `SDRAD_TLSF_MAX_HEAP_SIZE` and so one pool, as it
  is in the code, where both are 4 GiB (`sdrad.h:56-57`).  The runs use two pools.
- `RequestsFit`: see `ReallocIsSound`.
- `OneWayOut`: domains are destroyed last first and without a merge (section 3 has the
  counterexamples to either), and they go by `sdrad_destroy` alone or, execution domains
  only, by rewinds alone.  A rewind frees the slot and leaves its `sdi_tlsf`; alone, it
  frees them in the order in which the cache gives the heaps back, so a slot
  meets its own heap again (`Aligned`).  Where `sdrad_destroy`, which keeps the slot, comes
  in between, or a data domain that leaves the head of the cache where it is,
  the slot may share a heap that waits in the cache, and `HeapIsOwn` is what fails.  `heaps`
  does mix them, with one domain listed at a time.
- `PoolsFit`, for what follows from `Exact`: a heap is large enough for the control and one block.  A smaller
  one is not a heap (`tlsf_create_with_pool`, `tlsf.c:1018`).
- `HeapsHigh`, for `CallsReturn` alone: the default sizes are no larger than the
  monitor's.  A domain that has made no heap yet has a NULL `sdi_tlsf` and a size all the same, so
  the search in `sdrad_free` would take an address below that size for one of its own.  In the
  code, `mmap` answers with addresses far above 4 GiB; in the model the monitor's heap lies below all others.
- `MonitorFits`, for `MonitorKeepsRoom` and `CallsReturn`: the monitor's heap is as large as a node and an entry, with their headers, for each of the
  `MaxDomains` that are made, the root's node, and one request more.  With 60 words, as in `heaps`, that is three
  domains; with the 4 GiB of the code (`sdrad.c:188`), at 40 bytes for a node and 72 for an entry, some 38 million over the life of
  a process, and the next `sdrad_init` or `sdrad_destroy` after the heap is full faults.

The parts of the invariants were model-checked before they were proved, on three instances:
the allocator alone, domains that are destroyed, and domains that are rewound.  The latter two, with heaps of one pool,
also satisfy all the hypotheses above.

**Left to TLC**: liveness (`FaultResolved`, `CreateReturns`, `CallsEnd`, the fairness half
of `RewindStackSpec`); the ownership of keys next to data domains (where
`DataKeySeparate` says what goes wrong); everything about `SDRAD_RETURN_TO_PARENT`; and of
`SdradHeaps`: heaps of several pools, and merging.  Every safety invariant that a run checks is stated by a theorem.

## 5. Not modelled, and why

- `sdrad_call` (`sdrad_api.c:452`): a sequence of modelled calls around the
  application's function; `SdradDomains` and `SdradHeaps` contain its behaviours, with
  `sdrad_malloc` answering NULL among them.  What it keeps in the registers r11
  and r15 across its calls is the compiler's business.
- a timer in the middle of an allocator call: `SdradSignals` takes those as one step.
- two threads that both make domains, beyond the slot table: the unlocked cache
  and the nodes of the udi list.
- `pthread_create` and `pthread_join` leave the register open
  (`sdrad_thread.c:242`, `259`).
- a `malloc` before the constructor, which creates the monitor a second time
  (`sdrad_heap_mng.c:189`).
- rights wider than two bits given to `sdrad_dprotect` (`sdrad_pkey.h:41`).
- `tlsf_remove_pool`, which nobody calls, the walkers of `tlsf.c` that print, the
  generic bit scans behind `tlsf_ffs`.
- register allocation in the assembly files, allocation failure of `mmap`,
  configuration from the environment, `ZERO_DOMAIN`, the examples.

## 6. Plan

1. Proofs: what of the ownership theorems of `SdradDomains` holds next to data domains and
   merged heaps, under an assumption weaker than `ExecutionOnly`; `ControlWellFormed` with
   `SDRAD_RETURN_TO_PARENT`; heaps of several pools, and rewinds beside `sdrad_destroy`,
   under what keeps a slot from sharing a cached heap.
2. `sdrad_call` as a client of `SdradDomains`, by composition.
3. Two makers in `SdradShared`, with the cache and the list unlocked.
