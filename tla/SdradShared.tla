------------------------------ MODULE SdradShared ------------------------------
(***************************************************************************)
(* Domains whose heap several threads use, in the SDRAD_MULTITHREAD build: *)
(* sdrad_malloc, sdrad_calloc, sdrad_realloc, sdrad_memalign, sdrad_free   *)
(* against each other and against the sdrad_init and sdrad_destroy of the  *)
(* domain's owner.                                                         *)
(*                                                                         *)
(* Every thread has a table of sdrad_d_info of its own.  The first call a  *)
(* thread makes on a domain of another thread copies the owner's entry,    *)
(* and the copy is used from then on.  sgm_lock (recursive) guards all     *)
(* calls but sdrad_memalign, which takes malloc_mutex, and the life cycle, *)
(* which takes none but for the udi list.                                  *)
(*                                                                         *)
(* A step is what a thread does between two accesses to state of others.   *)
(* A heap is a number; what is in it is the subject of SdradHeaps.  The    *)
(* domain a thread makes its calls in is left out: a fault there rewinds   *)
(* the thread out of the call.                                             *)
(***************************************************************************)
EXTENDS Naturals, Sequences, FiniteSets

CONSTANTS
  Thread, NoThread,
  Maker,           \* the thread that makes and ends domains
  Udi,
  TOTAL_DOMAIN,
  Calls,           \* what the application calls: [name, kind of the domain]
  Kinds,
  Ends,            \* how its domains end
  MayFault,        \* a call may fault in the allocator
  MaxCalls,        \* bound: calls made
  MaxMade          \* bound: domains made

Names == {"malloc", "calloc", "realloc", "memalign", "free"}

ASSUME SharedAssumption ==
  /\ NoThread \notin Thread
  /\ Maker \in Thread
  /\ TOTAL_DOMAIN \in Nat /\ TOTAL_DOMAIN > 2
  /\ Calls \subseteq [name : Names, kind : {"EXECUTION", "DATA"}]
  /\ Kinds \subseteq {"EXECUTION", "DATA"}
  /\ Ends \subseteq {"destroy", "rewind"}
  /\ MayFault \in BOOLEAN
  /\ MaxCalls \in Nat /\ MaxMade \in Nat

VARIABLES
  \* --- the global manager
  udi_control,          \* listed udi -> sdi
  status,               \* the slots in use
  sgm_sdi_to_tdi,       \* slot -> the thread that made the domain
  cache,                \* the heaps of the cached domains, head first; 0: none
  sgm_lock, sgm_count,  \* its holder, and how often it holds it
  malloc_mutex,
  \* --- sdrad_d_info of each thread: thread -> slot -> field
  sdi_tlsf,
  sdi_init_heap_flag,
  \* --- each thread
  pc, name, udi, sdi, ptr,   \* its call, and the heap of the pointer it frees
  kind,                      \* udi -> the kind it was made with
  held,                      \* [udi, heap]: the application holds memory there
  called,                    \* calls made (the bound)
  made, mapped               \* domains made, heaps mapped so far

domainVars == <<udi_control, status, sgm_sdi_to_tdi, cache, kind, made>>
lockVars   == <<sgm_lock, sgm_count, malloc_mutex>>
infoVars   == <<sdi_tlsf, sdi_init_heap_flag, mapped>>
localVars  == <<name, udi, sdi, ptr>>
callVars   == <<localVars, called>>
vars == <<domainVars, lockVars, infoVars, callVars, pc, held>>

NULL == 0
Slot == 2 .. TOTAL_DOMAIN - 1

LifePc == {"take", "fill", "unlist"}
Locked == {"find", "check", "own", "owner", "copy", "late", "tlsf"}
CallPc == {"search", "lock"} \cup Locked

AnyUdi == CHOOSE u \in Udi : TRUE

At(t, here) == pc[t] = here
Goto(t, there) == pc' = [pc EXCEPT ![t] = there]

(* The library returns, and the locals of the call are gone. *)
Leave(t) ==
  /\ Goto(t, "app")
  /\ name' = [name EXCEPT ![t] = "malloc"]
  /\ udi' = [udi EXCEPT ![t] = AnyUdi]
  /\ sdi' = [sdi EXCEPT ![t] = 2]
  /\ ptr' = [ptr EXCEPT ![t] = NULL]

Owner(t) == sgm_sdi_to_tdi[sdi[t]]
Flag(t, owner) == sdi_init_heap_flag[owner][sdi[t]]
Heap(t) == sdi_tlsf[t][sdi[t]]

-----------------------------------------------------------------------------
Init ==
  /\ udi_control = <<>> /\ status = {} /\ cache = <<>> /\ made = 0 /\ mapped = 0
  /\ sgm_sdi_to_tdi \in [Slot -> {NoThread}]
  /\ sgm_lock = NoThread /\ sgm_count = 0 /\ malloc_mutex = NoThread
  /\ sdi_tlsf = [t \in Thread |-> [s \in Slot |-> NULL]]
  /\ sdi_init_heap_flag = [t \in Thread |-> [s \in Slot |-> FALSE]]
  /\ pc = [t \in Thread |-> "app"]
  /\ name = [t \in Thread |-> "malloc"]
  /\ udi = [t \in Thread |-> AnyUdi]
  /\ sdi = [t \in Thread |-> 2]
  /\ ptr = [t \in Thread |-> NULL]
  /\ kind = [u \in Udi |-> "DATA"]
  /\ held = {}
  /\ called = 0

-----------------------------------------------------------------------------
(* The locks *)

(* Mutant: a lock that is not recursive. *)
not_recursive(t) == sgm_lock = NoThread

CanLock(t) == sgm_lock \in {NoThread, t}

Take(t, n) ==
  IF n = "memalign"
    THEN malloc_mutex' = t /\ UNCHANGED <<sgm_lock, sgm_count>>
    ELSE sgm_lock' = t /\ sgm_count' = sgm_count + 1 /\ UNCHANGED malloc_mutex

(* Mutant: the lock is given up and the count forgotten. *)
release_without_count(t, n) ==
  sgm_lock' = NoThread /\ UNCHANGED <<sgm_count, malloc_mutex>>

Release(t, n) ==
  IF n = "memalign"
    THEN malloc_mutex' = NoThread /\ UNCHANGED <<sgm_lock, sgm_count>>
    ELSE /\ sgm_count' = sgm_count - 1
         /\ sgm_lock' = IF sgm_count = 1 THEN NoThread ELSE sgm_lock
         /\ UNCHANGED malloc_mutex

-----------------------------------------------------------------------------
(* sdrad_init, as far as the heaps and the lists are concerned               *)

(* The key is the business of SdradDomains. *)
sdrad_init(t, u, k) ==
  /\ At(t, "app") /\ t = Maker
  /\ u \notin DOMAIN udi_control /\ \A v \in Thread : pc[v] \in LifePc => udi[v] # u
  /\ CanLock(t)
  /\ made < MaxMade /\ status # Slot
  /\ udi' = [udi EXCEPT ![t] = u]
  /\ kind' = [kind EXCEPT ![u] = k]
  /\ made' = made + 1
  /\ Goto(t, "take")
  /\ UNCHANGED <<udi_control, status, sgm_sdi_to_tdi, cache, lockVars, infoVars, name, sdi,
                 ptr, called, held>>

(* The first free slot, if there is one. *)
sdrad_find_free_domain ==
  {s \in Slot \ status : \A r \in Slot \ status : s <= r}

(* sdrad_request_sdi and sdrad_insert_control_structure.  With one maker the *)
(* slot, and then the head of the cache, is found and taken in one step;     *)
(* SdradThreads shows what two makers do to each other.                      *)
TakeSlot(t) ==
  /\ At(t, "take") /\ CanLock(t)
  /\ \E new \in sdrad_find_free_domain :
       /\ status' = status \cup {new}
       /\ sgm_sdi_to_tdi' = [sgm_sdi_to_tdi EXCEPT ![new] = t]
       /\ udi_control' = [v \in DOMAIN udi_control \cup {udi[t]} |->
                            IF v = udi[t] THEN new ELSE udi_control[v]]
       /\ sdi' = [sdi EXCEPT ![t] = new]
  /\ Goto(t, "fill")
  /\ UNCHANGED <<cache, kind, made, lockVars, infoVars, name, udi, ptr, called, held>>

SetHeap(t, s, heap, flag) ==
  /\ sdi_tlsf' = [sdi_tlsf EXCEPT ![t][s] = heap]
  /\ sdi_init_heap_flag' = [sdi_init_heap_flag EXCEPT ![t][s] = flag]

(* sdrad_heap_domain_init: a new heap. *)
MapHeap(t, s) == SetHeap(t, s, mapped + 1, TRUE) /\ mapped' = mapped + 1

KeepHeaps == UNCHANGED infoVars

(* sdrad_data_domain_init.  Mutant: the head stays in the cache. *)
fill_keeps_head(t, s) ==
  IF cache # <<>> /\ Head(cache) # NULL
    THEN SetHeap(t, s, Head(cache), TRUE) /\ UNCHANGED <<cache, mapped>>
    ELSE /\ IF sdi_init_heap_flag[t][s] THEN KeepHeaps ELSE MapHeap(t, s)
         /\ UNCHANGED cache

FillData(t, s) ==
  IF cache # <<>> /\ Head(cache) # NULL
    THEN SetHeap(t, s, Head(cache), TRUE) /\ cache' = Tail(cache) /\ UNCHANGED mapped
    ELSE /\ IF sdi_init_heap_flag[t][s] THEN KeepHeaps ELSE MapHeap(t, s)
         /\ UNCHANGED cache

(* sdrad_execution_domain_init *)
FillExecution(t, s) ==
  IF cache = <<>> THEN KeepHeaps /\ UNCHANGED cache
  ELSE /\ cache' = Tail(cache)
       /\ UNCHANGED mapped
       /\ IF Head(cache) # NULL
            THEN SetHeap(t, s, Head(cache), sdi_init_heap_flag[t][s])
            ELSE SetHeap(t, s, sdi_tlsf[t][s], FALSE)

FillDomain(t) ==
  /\ At(t, "fill")
  /\ IF kind[udi[t]] = "DATA" THEN FillData(t, sdi[t]) ELSE FillExecution(t, sdi[t])
  /\ Leave(t)
  /\ UNCHANGED <<udi_control, status, sgm_sdi_to_tdi, kind, made, lockVars, called, held>>

-----------------------------------------------------------------------------
(* sdrad_destroy by the owner, and the rewind of the domain, which also gives *)
(* the slot back: the entry goes to the cache before the domain leaves the    *)
(* list.                                                                      *)

(* The application ends a domain that no other thread is calling on. *)
Idle(u) == \A v \in Thread : pc[v] \in LifePc \cup CallPc => udi[v] # u

sdrad_destroy(t, u, how) ==
  /\ At(t, "app") /\ t = Maker
  /\ u \in DOMAIN udi_control /\ sgm_sdi_to_tdi[udi_control[u]] = t
  /\ Idle(u) /\ CanLock(t)
  /\ LET s == udi_control[u]
     IN  /\ udi' = [udi EXCEPT ![t] = u]
         /\ sdi' = [sdi EXCEPT ![t] = s]
         /\ cache' = <<IF sdi_init_heap_flag[t][s] THEN sdi_tlsf[t][s] ELSE NULL>> \o cache
         /\ status' = IF how = "rewind" THEN status \ {s} ELSE status
  /\ held' = {h \in held : h.udi # u}
  /\ Goto(t, "unlist")
  /\ UNCHANGED <<udi_control, sgm_sdi_to_tdi, kind, made, lockVars, infoVars, name, ptr, called>>

Unlist(t) ==
  /\ At(t, "unlist")
  /\ udi_control' = [v \in DOMAIN udi_control \ {udi[t]} |-> udi_control[v]]
  /\ kind' = [kind EXCEPT ![udi[t]] = "DATA"]
  /\ Leave(t)
  /\ UNCHANGED <<status, sgm_sdi_to_tdi, cache, made, lockVars, infoVars, called, held>>

-----------------------------------------------------------------------------
(* The calls on a domain *)

(* The application calls on a domain once its sdrad_init has returned, and   *)
(* frees what it was given there.                                            *)
Offered(u) == u \in DOMAIN udi_control /\ \A v \in Thread : pc[v] \in LifePc => udi[v] # u

Begin(t, n, u) ==
  /\ At(t, "app") /\ called < MaxCalls
  /\ Offered(u) /\ [name |-> n, kind |-> kind[u]] \in Calls
  /\ \E h \in IF n \in {"free", "realloc"} THEN {x.heap : x \in {y \in held : y.udi = u}} ELSE {NULL} :
       ptr' = [ptr EXCEPT ![t] = h]
  /\ name' = [name EXCEPT ![t] = n]
  /\ udi' = [udi EXCEPT ![t] = u]
  /\ called' = called + 1
  /\ Goto(t, IF n = "free" THEN "lock" ELSE "search")
  /\ UNCHANGED <<domainVars, lockVars, infoVars, sdi, held>>

(* sdrad_search_udi_control takes the lock for itself; sdrad_free calls it    *)
(* while it holds the lock.                                                   *)
Search(t) ==
  /\ pc[t] \in {"search", "find"} /\ CanLock(t)
  /\ sdi' = [sdi EXCEPT ![t] = udi_control[udi[t]]]
  /\ Goto(t, IF pc[t] = "search" THEN "lock" ELSE "check")
  /\ UNCHANGED <<domainVars, lockVars, infoVars, name, udi, ptr, called, held>>

(* Mutant: nobody waits for the lock. *)
never_locked(t, n) == TRUE

Unlocked(t, n) == IF n = "memalign" THEN malloc_mutex = NoThread ELSE CanLock(t)

Lock(t) ==
  /\ At(t, "lock") /\ Unlocked(t, name[t])
  /\ Take(t, name[t])
  /\ Goto(t, IF name[t] = "free" THEN "find" ELSE "check")
  /\ UNCHANGED <<domainVars, infoVars, localVars, called, held>>

(* Mutant: sdrad_malloc too copies first. *)
check_copies_first(t) ==
  /\ At(t, "check")
  /\ Goto(t, IF Flag(t, t) THEN "tlsf"
             ELSE IF Owner(t) = t THEN (IF name[t] = "free" THEN "tlsf" ELSE "own")
             ELSE "copy")
  /\ UNCHANGED <<domainVars, lockVars, infoVars, callVars, held>>

(* Who has no heap for the domain gets the owner's, or makes his own:        *)
(* sdrad_memalign does not ask whose the domain is, sdrad_free makes none,   *)
(* and only sdrad_malloc looks at the owner's entry before it copies it.     *)
Check(t) ==
  /\ At(t, "check")
  /\ Goto(t, IF Flag(t, t) THEN "tlsf"
             ELSE IF name[t] = "memalign" THEN "own"
             ELSE IF Owner(t) = t THEN (IF name[t] = "free" THEN "tlsf" ELSE "own")
             ELSE IF name[t] = "malloc" THEN "owner" ELSE "copy")
  /\ UNCHANGED <<domainVars, lockVars, infoVars, callVars, held>>

InitOwn(t) ==
  /\ At(t, "own")
  /\ MapHeap(t, sdi[t])
  /\ Goto(t, "tlsf")
  /\ UNCHANGED <<domainVars, lockVars, callVars, held>>

(* Mutant: the owner is given a new heap whether it has one or not. *)
always_init(t) == MapHeap(Owner(t), sdi[t])

OwnerHeap(t) == IF Flag(t, Owner(t)) THEN KeepHeaps ELSE MapHeap(Owner(t), sdi[t])

(* sdrad_malloc before it copies the entry, sdrad_realloc after it. *)
InitOwner(t) ==
  /\ pc[t] \in {"owner", "late"}
  /\ OwnerHeap(t)
  /\ Goto(t, IF pc[t] = "owner" THEN "copy" ELSE "tlsf")
  /\ UNCHANGED <<domainVars, lockVars, callVars, held>>

Copy(t) ==
  /\ At(t, "copy")
  /\ SetHeap(t, sdi[t], sdi_tlsf[Owner(t)][sdi[t]], TRUE)
  /\ Goto(t, IF name[t] = "realloc" THEN "late" ELSE "tlsf")
  /\ UNCHANGED <<mapped, domainVars, lockVars, callVars, held>>

(* The allocator is done and the lock is given back. *)
Return(t) ==
  LET mine == [udi |-> udi[t], heap |-> Heap(t)]
  IN  /\ At(t, "tlsf")
      /\ held' \in IF name[t] = "free" THEN {held, held \ {[udi |-> udi[t], heap |-> ptr[t]]}}
                   ELSE {held, held \cup {mine}}
      /\ Release(t, name[t])
      /\ Leave(t)
      /\ UNCHANGED <<domainVars, infoVars, called>>

(* A fault in the allocator: the handler rewinds the domain the thread was   *)
(* in, and longjmp leaves the lock as it is.                                 *)
Rewind(t) ==
  /\ MayFault
  /\ At(t, "tlsf")
  /\ Leave(t)
  /\ UNCHANGED <<domainVars, lockVars, infoVars, called, held>>

CallStep(t) ==
  Search(t) \/ Lock(t) \/ Check(t) \/ InitOwn(t) \/ InitOwner(t) \/ Copy(t) \/ Return(t)

Next ==
  \E t \in Thread :
    \/ \E u \in Udi :
         \/ \E k \in Kinds : sdrad_init(t, u, k)
         \/ \E how \in Ends : sdrad_destroy(t, u, how)
         \/ \E n \in Names : Begin(t, n, u)
    \/ TakeSlot(t) \/ FillDomain(t) \/ Unlist(t)
    \/ CallStep(t)
    \/ Rewind(t)

(* A thread in a call goes on when it can.  The run makes finitely many      *)
(* calls, so a mutex that lets waiters overtake is good enough.              *)
Fairness == \A t \in Thread : WF_vars(CallStep(t) \/ TakeSlot(t) \/ FillDomain(t) \/ Unlist(t))

Spec == Init /\ [][Next]_vars /\ Fairness
-----------------------------------------------------------------------------
(* Properties *)

(* What the variables range over, and: a thread is past the lock exactly     *)
(* when the lock was given to it.                                            *)
TypeOK ==
  /\ DOMAIN udi_control \subseteq Udi
  /\ \A u \in DOMAIN udi_control : udi_control[u] \in Slot
  /\ status \subseteq Slot
  /\ sgm_sdi_to_tdi \in [Slot -> Thread \cup {NoThread}]
  /\ cache \in Seq(0 .. mapped)
  /\ sgm_lock \in Thread \cup {NoThread} /\ malloc_mutex \in Thread \cup {NoThread}
  /\ sgm_count \in Nat /\ (sgm_count = 0 <=> sgm_lock = NoThread)
  /\ sdi_tlsf \in [Thread -> [Slot -> 0 .. mapped]]
  /\ sdi_init_heap_flag \in [Thread -> [Slot -> BOOLEAN]]
  /\ pc \in [Thread -> {"app"} \cup LifePc \cup CallPc]
  /\ \A t \in Thread : pc[t] \in Locked =>
       IF name[t] = "memalign" THEN malloc_mutex = t ELSE sgm_lock = t

(* Two threads are never in the allocator on one heap: tlsf keeps no lock of *)
(* its own, and the heap's lists are updated in many writes.                 *)
HeapExclusive ==
  \A t, v \in Thread : t # v /\ At(t, "tlsf") /\ At(v, "tlsf") => Heap(t) # Heap(v)

(* The heap a call is made on is that of the domain's owner, and the owner   *)
(* knows that it has one: on a heap the owner does not know, destroy could   *)
(* not recycle the memory, and another thread would allocate elsewhere.      *)
UsesOwnersHeap ==
  \A t \in Thread : At(t, "tlsf") =>
    /\ Heap(t) # NULL
    /\ Heap(t) = sdi_tlsf[Owner(t)][sdi[t]]
    /\ Flag(t, Owner(t))

(* What one thread was given of a domain, another can free: both come to the *)
(* same heap, whichever of them called first.                                *)
FreedWhereAllocated ==
  \A t \in Thread : At(t, "tlsf") /\ name[t] \in {"free", "realloc"} => Heap(t) = ptr[t]

(* A heap belongs to one domain, and what a domain in use has is not in the  *)
(* cache, from where it would go to the next one as well.                    *)
HeapsOwned ==
  LET Flagged(u) == sdi_init_heap_flag[sgm_sdi_to_tdi[udi_control[u]]][udi_control[u]]
      HeapOf(u)  == sdi_tlsf[sgm_sdi_to_tdi[udi_control[u]]][udi_control[u]]
  IN  \A u \in Udi : Offered(u) /\ Flagged(u) =>
        /\ \A i \in DOMAIN cache : cache[i] # HeapOf(u)
        /\ \A v \in Udi \ {u} : Offered(v) /\ Flagged(v) => HeapOf(u) # HeapOf(v)

(* A rewind left the lock taken. *)
LockOrphaned ==
  sgm_lock # NoThread /\ (pc[sgm_lock] \notin Locked \/ name[sgm_lock] = "memalign" \/ sgm_count > 1)

(* A call on a domain ends, unless a rewind out of the allocator has left    *)
(* the lock taken: nobody waits for a thread that waits for him.             *)
CallsEnd == \A t \in Thread : pc[t] \in CallPc ~> (At(t, "app") \/ LockOrphaned)
=============================================================================
