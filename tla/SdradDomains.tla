----------------------------- MODULE SdradDomains -----------------------------
(***************************************************************************)
(* The life cycle of domains in one thread: sdrad_init, sdrad_enter,       *)
(* sdrad_exit, sdrad_deinit, sdrad_destroy, sdrad_dprotect, the lazy       *)
(* creation of heaps, and what a fault does: sdrad_abnormal_domain_exit    *)
(* followed by sdrad_init_destroy.                                         *)
(*                                                                         *)
(* The build modelled is the Makefile's default: PKEY_ENABLE, neither      *)
(* SDRAD_MULTITHREAD nor ZERO_DOMAIN, assertions compiled out (sdrad.h:26).*)
(*                                                                         *)
(* Stacks and heaps are numbered regions, 0 being NULL.  A heap's address  *)
(* and its TLSF control are one region number: the code always sets them   *)
(* together.  The contents of heaps are not modelled.                      *)
(***************************************************************************)
EXTENDS SdradBase, SequencesExt

CONSTANTS
  Udi,          \* the domain names the application uses
  Features,     \* the flag sets it passes to sdrad_init
  Options,      \* the options it passes to sdrad_destroy
  Access,       \* the rights it passes to sdrad_dprotect
  MaxRegions,   \* bound: regions the application may have the library map
  MaxCache      \* bound: cached domains the application may make

ASSUME DomainsAssumption ==
  /\ Features \subseteq SUBSET Flag
  /\ Options \subseteq DestroyOption
  /\ Access \subseteq Right
  /\ 0 \notin Udi
  /\ MaxRegions \in Nat /\ MaxCache \in Nat

VARIABLES
  \* --- the global manager
  status,               \* slot -> occupied, free, or overwritten with 0
  udi_control,          \* the list of [udi, sdi] nodes, head first
  pdi,                  \* slot -> protection key
  cache,                \* the list of destroyed domains, head first
  next_pkey,            \* what pkey_alloc gives next: keys are never freed
  \* --- the thread's metadata
  active_domain,
  pkru_config,          \* slot -> PKRU
  \* --- the thread's sdrad_d_info, one function per field
  sdi_parent_domain,
  sdi_address_stack,
  sdi_tlsf,
  sdi_init_heap_flag,
  sdi_saved_ex,
  sdi_options,
  sdi_buffer,           \* level of the call chain whose frame called sdrad_init, 0: none or gone
  sdi_last_rsp,         \* level of the call chain that sdrad_exit returns to
  \* --- process state
  tlsf_structure,       \* the heap malloc and free use
  mapped,               \* key of every region mapped so far
  pkru,                 \* the register
  ctl,                  \* who runs: see Control
  calls                 \* the chain of domains whose stacks hold live frames (not in the code)

mgrVars  == <<status, udi_control, pdi, cache, next_pkey>>
infoVars == <<sdi_parent_domain, sdi_address_stack, sdi_tlsf, sdi_init_heap_flag,
              sdi_saved_ex, sdi_options, sdi_buffer, sdi_last_rsp>>
heapVars == <<sdi_tlsf, sdi_init_heap_flag, tlsf_structure, mapped>>
vars == <<mgrVars, infoVars, active_domain, pkru_config, tlsf_structure, mapped,
          pkru, ctl, calls>>

(* "app": application code runs.  "fault": a fault is raised and its handler *)
(* has not run.  "rewind": longjmp has resumed sdrad_init, which is about to *)
(* run sdrad_init_destroy.  "aborted": abort() was called.  "oob": slot -1   *)
(* was used as an index, the state is corrupt from here.  "killed": the      *)
(* stack pointer is no stack, so that the handler cannot run either.         *)
Control == {"app", "fault", "rewind", "aborted", "oob", "killed"}

-----------------------------------------------------------------------------
Node == [udi : Udi, sdi : Slot]
CacheEntry == [stack : Nat, heap : Nat, key : Key]   \* heap = NULL: the heap flag is false

App == ctl = "app"

(* sdrad_search_udi_control: the slot udi is mapped to, none for NO_MAP.     *)
(* A udi is in the list at most once (ControlWellFormed).                    *)
sdrad_search_udi_control(udi) ==
  {udi_control[k].sdi : k \in {j \in DOMAIN udi_control : udi_control[j].udi = udi}}

(* sdrad_find_free_domain: the lowest free slot, none for -1. *)
sdrad_find_free_domain ==
  {i \in Slot : /\ status[i] = DOMAIN_NONOCCUPIED
                /\ \A j \in 0 .. i - 1 : status[j] # DOMAIN_NONOCCUPIED}

(* sdrad_delete_control_structure: the list without the slot's node ... *)
NodeIndex(list, sdi) == CHOOSE k \in DOMAIN list : list[k].sdi = sdi

(* Mutant: only the nodes after the head are searched. *)
delete_control_structure_skips_head(list, sdi) ==
  IF \E k \in DOMAIN list : k > 1 /\ list[k].sdi = sdi
    THEN RemoveAt(list, CHOOSE k \in DOMAIN list : k > 1 /\ list[k].sdi = sdi)
    ELSE list

sdrad_delete_control_structure(list, sdi) ==
  IF \E k \in DOMAIN list : list[k].sdi = sdi
    THEN RemoveAt(list, NodeIndex(list, sdi))
    ELSE list

(* ... and whether it calls free() on the node, which it does unless the     *)
(* node is the head.                                                         *)
FreesNode(list, sdi) == \E k \in DOMAIN list : k > 1 /\ list[k].sdi = sdi

(* free() with no heap selected creates one for the active domain, drops to  *)
(* that domain's PKRU and then reads the node's header in monitor memory,    *)
(* which no domain may read: a second fault.                                 *)
FreeFaults(list, sdi) == tlsf_structure = NULL /\ FreesNode(list, sdi)

(* The frames that die when the chain is cut down to `level`. *)
FramesUpTo(level) ==
  [d \in Slot |-> IF sdi_buffer[d] > level THEN 0 ELSE sdi_buffer[d]]

OffChain(sdi) == \A i \in DOMAIN calls : calls[i] # sdi

(* The bounds, on what the application starts: the handlers are never cut.   *)
MayMap == Len(mapped) < MaxRegions
MayFault == Len(mapped) <= MaxRegions /\ Len(cache) < MaxCache

(* sdrad_heap_domain_init: map a heap tagged with the key, whatever was there. *)
sdrad_heap_domain_init(sdi, pkey) ==
  /\ mapped' = Append(mapped, pkey)
  /\ sdi_tlsf' = [sdi_tlsf EXCEPT ![sdi] = Len(mapped) + 1]
  /\ sdi_init_heap_flag' = [sdi_init_heap_flag EXCEPT ![sdi] = TRUE]

(* What malloc, free and realloc do first when tlsf_structure is NULL. *)
CreateActiveHeap(sdi) ==
  /\ sdrad_heap_domain_init(sdi, pdi[sdi])
  /\ tlsf_structure' = Len(mapped) + 1

(* Mutant: the register keeps the PKRU of the domain that is left. *)
resume_with_old_pkru(domain) ==
  /\ active_domain' = domain
  /\ tlsf_structure' = sdi_tlsf[domain]
  /\ pkru' = pkru_config[active_domain]

(* Mutant: control always goes back to the root domain. *)
resume_root(domain) ==
  /\ active_domain' = ROOT_DOMAIN
  /\ tlsf_structure' = sdi_tlsf[ROOT_DOMAIN]
  /\ pkru' = pkru_config[ROOT_DOMAIN]

(* The end of __sdrad_exit and of sdrad_init_destroy: the domain whose frame *)
(* is about to run, its heap and its PKRU.                                   *)
Resume(domain) ==
  /\ active_domain' = domain
  /\ tlsf_structure' = sdi_tlsf[domain]
  /\ pkru' = pkru_config[domain]

(* sdrad_init copies the jmp_buf its assembly part filled. *)
SaveContext(sdi) ==
  /\ sdi_buffer' = [sdi_buffer EXCEPT ![sdi] = Len(calls)]
  /\ sdi_saved_ex' = [sdi_saved_ex EXCEPT ![sdi] = TRUE]

(* Mutant: the oldest entry is taken out. *)
delete_oldest_cache_domain == cache' = Front(cache)

(* The head entry was used. *)
sdrad_delete_cache_domain == cache' = Tail(cache)

-----------------------------------------------------------------------------
(* After sdrad_constructor: the root domain's stack is region 1. *)
Init ==
  /\ status = [i \in Slot |-> IF i < DOMAIN_2 THEN DOMAIN_OCCUPIED ELSE DOMAIN_NONOCCUPIED]
  /\ udi_control = <<>>
  /\ pdi = [i \in Slot |-> IF i = MONITOR_DATA THEN 1 ELSE IF i = ROOT_DOMAIN THEN 2 ELSE 0]
  /\ cache = <<>>
  /\ next_pkey = 3
  /\ active_domain = ROOT_DOMAIN
  /\ pkru_config = [i \in Slot |-> IF i = ROOT_DOMAIN THEN sdrad_pkru_default_config(2)
                                                      ELSE PKRU_ALL_UNSET]
  /\ sdi_parent_domain = [i \in Slot |-> IF i = ROOT_DOMAIN THEN ROOT_DOMAIN ELSE MONITOR_DATA]
  /\ sdi_address_stack = [i \in Slot |-> IF i = ROOT_DOMAIN THEN 1 ELSE NULL]
  /\ sdi_tlsf = [i \in Slot |-> NULL]
  /\ sdi_init_heap_flag = [i \in Slot |-> FALSE]
  /\ sdi_saved_ex = [i \in Slot |-> FALSE]
  /\ sdi_options = [i \in Slot |-> {}]
  /\ sdi_buffer = [i \in Slot |-> 0]
  /\ sdi_last_rsp = [i \in Slot |-> 0]
  /\ tlsf_structure = NULL
  /\ mapped = <<2>>
  /\ pkru = sdrad_pkru_default_config(2)
  /\ ctl = "app"
  /\ calls = <<ROOT_DOMAIN>>

(* An error return: the handlers open the PKRU first and the error paths do  *)
(* not restore it.                                                           *)
ReturnError ==
  /\ pkru' = PKRU_ALL_UNSET
  /\ UNCHANGED <<mgrVars, infoVars, active_domain, pkru_config, tlsf_structure,
                 mapped, ctl, calls>>

-----------------------------------------------------------------------------
(* __sdrad_init *)

(* Mutant: the saved context is not asked for. *)
never_already_init(sdi) == FALSE

AlreadyInit(sdi) == sdi_saved_ex[sdi]

InitFails(udi, domain_feature) ==
  \/ ~sdrad_check_init_config(domain_feature)
  \/ \E sdi \in sdrad_search_udi_control(udi) : AlreadyInit(sdi)
  \/ /\ sdrad_search_udi_control(udi) = {}
     /\ cache = <<>> /\ next_pkey = NUM_PKEYS

sdrad_init_error(udi, domain_feature) ==
  /\ App
  /\ InitFails(udi, domain_feature)
  /\ ReturnError

(* A mapped domain whose context was given up gets a new one, and a new      *)
(* parent.  The PKRU is left open here too.                                  *)
sdrad_init_save_context(udi, domain_feature) ==
  /\ App
  /\ sdrad_check_init_config(domain_feature)
  /\ \E sdi \in sdrad_search_udi_control(udi) :
       /\ ~AlreadyInit(sdi)
       /\ SaveContext(sdi)
       /\ sdi_parent_domain' = [sdi_parent_domain EXCEPT ![sdi] = active_domain]
  /\ pkru' = PKRU_ALL_UNSET
  /\ UNCHANGED <<mgrVars, active_domain, pkru_config, sdi_address_stack, sdi_tlsf,
                 sdi_init_heap_flag, sdi_options, sdi_last_rsp, tlsf_structure,
                 mapped, ctl, calls>>

(* The key a new domain gets: the cached head's, or a fresh one. *)
NewKey == IF cache = <<>> THEN next_pkey ELSE Head(cache).key

(* Mutant: the udi list is not searched before a domain is mapped. *)
init_accepts_without_search(udi, domain_feature) ==
  /\ App
  /\ sdrad_check_init_config(domain_feature)
  /\ cache = <<>> \/ "DATA" \in domain_feature => MayMap
  /\ cache = <<>> => next_pkey < NUM_PKEYS

InitAccepts(udi, domain_feature) ==
  /\ App
  /\ sdrad_check_init_config(domain_feature)
  /\ cache = <<>> \/ "DATA" \in domain_feature => MayMap
  /\ sdrad_search_udi_control(udi) = {}
  /\ cache = <<>> => next_pkey < NUM_PKEYS

(* With no free slot the slot is -1, used as an index into every table. *)
sdrad_init_no_slot(udi, domain_feature) ==
  /\ InitAccepts(udi, domain_feature)
  /\ sdrad_find_free_domain = {}
  /\ ctl' = "oob"
  /\ UNCHANGED <<mgrVars, infoVars, active_domain, pkru_config, tlsf_structure,
                 mapped, pkru, calls>>

(* The part common to data and execution domains. *)
MapNewDomain(udi, domain_feature, sdi) ==
  /\ InitAccepts(udi, domain_feature)
  /\ next_pkey' = IF cache = <<>> THEN next_pkey + 1 ELSE next_pkey
  /\ status' = [status EXCEPT ![sdi] = DOMAIN_OCCUPIED]
  /\ udi_control' = <<[udi |-> udi, sdi |-> sdi]>> \o udi_control
  /\ pdi' = [pdi EXCEPT ![sdi] = NewKey]
  /\ sdi_options' = [sdi_options EXCEPT ![sdi] = domain_feature]
  /\ sdi_parent_domain' = [sdi_parent_domain EXCEPT ![sdi] = active_domain]

(* sdrad_data_domain_init: the head's heap if it has one (and then the head  *)
(* leaves the cache), else a new one unless the slot's heap flag is set.     *)
sdrad_data_domain_init(sdi, pkey) ==
  IF cache # <<>> /\ Head(cache).heap # NULL
    THEN /\ sdi_tlsf' = [sdi_tlsf EXCEPT ![sdi] = Head(cache).heap]
         /\ sdi_init_heap_flag' = [sdi_init_heap_flag EXCEPT ![sdi] = TRUE]
         /\ sdrad_delete_cache_domain
         /\ UNCHANGED mapped
    ELSE /\ UNCHANGED cache
         /\ IF sdi_init_heap_flag[sdi]
              THEN UNCHANGED <<sdi_tlsf, sdi_init_heap_flag, mapped>>
              ELSE sdrad_heap_domain_init(sdi, pkey)

sdrad_init_data(udi, domain_feature) ==
  /\ "DATA" \in domain_feature
  /\ \E sdi \in sdrad_find_free_domain :
       /\ MapNewDomain(udi, domain_feature, sdi)
       /\ sdrad_data_domain_init(sdi, NewKey)
       /\ pkru_config' = [pkru_config EXCEPT ![active_domain] =
                            sdrad_set_access_pdi(@, NewKey, 0)]
       /\ pkru' = pkru_config'[active_domain]
  /\ UNCHANGED <<active_domain, sdi_address_stack, sdi_saved_ex, sdi_buffer,
                 sdi_last_rsp, tlsf_structure, ctl, calls>>

(* sdrad_execution_domain_init: the cached head's stack and heap, or a new   *)
(* stack.  The heap flag is cleared when the head has no heap, and not set   *)
(* when it has one.                                                          *)
sdrad_execution_domain_init(sdi, pkey) ==
  IF cache # <<>>
    THEN /\ sdi_address_stack' = [sdi_address_stack EXCEPT ![sdi] = Head(cache).stack]
         /\ IF Head(cache).heap # NULL
              THEN /\ sdi_tlsf' = [sdi_tlsf EXCEPT ![sdi] = Head(cache).heap]
                   /\ UNCHANGED sdi_init_heap_flag
              ELSE /\ sdi_init_heap_flag' = [sdi_init_heap_flag EXCEPT ![sdi] = FALSE]
                   /\ UNCHANGED sdi_tlsf
         /\ sdrad_delete_cache_domain
         /\ UNCHANGED mapped
    ELSE /\ sdi_address_stack' = [sdi_address_stack EXCEPT ![sdi] = Len(mapped) + 1]
         /\ mapped' = Append(mapped, pkey)
         /\ UNCHANGED <<cache, sdi_tlsf, sdi_init_heap_flag>>

(* Mutant: the new domain's PKRU does not open its own key. *)
configs_without_own_key(sdi, domain_feature) ==
  [pkru_config EXCEPT
     ![sdi] = PKRU_ALL_READ_ONLY_RD,
     ![active_domain] = IF "NONISOLATED" \in domain_feature
                          THEN sdrad_set_access_pdi(@, NewKey, 0) ELSE @]

(* The new domain's own PKRU, and the creator's access to it if not isolated. *)
ConfigsForNew(sdi, domain_feature) ==
  [pkru_config EXCEPT
     ![sdi] = sdrad_pkru_default_config(NewKey),
     ![active_domain] = IF "NONISOLATED" \in domain_feature
                          THEN sdrad_set_access_pdi(@, NewKey, 0) ELSE @]

sdrad_init_exec(udi, domain_feature) ==
  /\ "DATA" \notin domain_feature
  /\ \E sdi \in sdrad_find_free_domain :
       /\ MapNewDomain(udi, domain_feature, sdi)
       /\ sdrad_execution_domain_init(sdi, NewKey)
       /\ pkru_config' = ConfigsForNew(sdi, domain_feature)
       /\ pkru' = pkru_config'[active_domain]
       /\ IF "TO_PARENT" \in domain_feature
            THEN UNCHANGED <<sdi_buffer, sdi_saved_ex>>
            ELSE SaveContext(sdi)
  /\ UNCHANGED <<active_domain, sdi_last_rsp, tlsf_structure, ctl, calls>>

-----------------------------------------------------------------------------
(* __sdrad_enter, __sdrad_exit *)

Enterable(sdi) == "DATA" \notin sdi_options[sdi] /\ sdi_saved_ex[sdi]

sdrad_enter_error(udi) ==
  /\ App
  /\ \A sdi \in sdrad_search_udi_control(udi) : ~Enterable(sdi)
  /\ ReturnError

(* What the code does not check is left to the application: it enters a      *)
(* domain from its parent, while the frame that called sdrad_init is there   *)
(* (sdrad_deinit is how it gives up that frame).  With RETURN_TO_PARENT the  *)
(* application has no frame of its own to keep.                              *)
EntersOwnChild(sdi) ==
  /\ active_domain = sdi_parent_domain[sdi]
  /\ sdi_buffer[sdi] # 0 \/ "TO_PARENT" \in sdi_options[sdi]

(* The head of the cache was a data domain: the domain got no stack from it. *)
sdrad_enter_no_stack(udi) ==
  /\ App
  /\ \E sdi \in sdrad_search_udi_control(udi) :
       Enterable(sdi) /\ EntersOwnChild(sdi) /\ sdi_address_stack[sdi] = NULL
  /\ ctl' = "killed"
  /\ UNCHANGED <<mgrVars, infoVars, active_domain, pkru_config, tlsf_structure,
                 mapped, pkru, calls>>

sdrad_enter(udi) ==
  /\ App
  /\ \E sdi \in sdrad_search_udi_control(udi) :
       /\ Enterable(sdi)
       /\ EntersOwnChild(sdi)
       /\ sdi_address_stack[sdi] # NULL
       /\ tlsf_structure' = sdi_tlsf[sdi]
       /\ active_domain' = sdi
       /\ sdi_last_rsp' = [sdi_last_rsp EXCEPT ![sdi_parent_domain[sdi]] = Len(calls)]
       /\ pkru' = pkru_config[sdi]
       /\ calls' = Append(calls, sdi)
  /\ UNCHANGED <<mgrVars, pkru_config, sdi_parent_domain, sdi_address_stack, sdi_tlsf,
                 sdi_init_heap_flag, sdi_saved_ex, sdi_options, sdi_buffer, mapped, ctl>>

(* The application exits only what it entered. *)
sdrad_exit ==
  LET parent == sdi_parent_domain[active_domain]
      level  == sdi_last_rsp[parent]
  IN  /\ App
      /\ Len(calls) > 1
      /\ Resume(parent)
      /\ calls' = SubSeq(calls, 1, level)
      /\ sdi_buffer' = FramesUpTo(level)
      /\ UNCHANGED <<mgrVars, pkru_config, sdi_parent_domain, sdi_address_stack, sdi_tlsf,
                     sdi_init_heap_flag, sdi_saved_ex, sdi_options, sdi_last_rsp,
                     mapped, ctl>>

-----------------------------------------------------------------------------
(* sdrad_deinit, sdrad_destroy.  The application applies them to domains     *)
(* none of whose code is on the call chain.                                  *)

sdrad_deinit(udi) ==
  /\ App
  /\ \E sdi \in sdrad_search_udi_control(udi) :
       /\ OffChain(sdi)
       /\ sdi_saved_ex' = [sdi_saved_ex EXCEPT ![sdi] = FALSE]
  /\ pkru' = pkru_config[active_domain]
  /\ UNCHANGED <<mgrVars, active_domain, pkru_config, sdi_parent_domain,
                 sdi_address_stack, sdi_tlsf, sdi_init_heap_flag, sdi_options,
                 sdi_buffer, sdi_last_rsp, tlsf_structure, mapped, ctl, calls>>

sdrad_no_such_domain(udi) ==     \* sdrad_deinit, sdrad_destroy, sdrad_malloc ...
  /\ App
  /\ sdrad_search_udi_control(udi) = {}
  /\ ReturnError

(* The slot keeps its status: sdrad_destroy does not free it. *)
sdrad_destroy(udi, options) ==
  /\ App
  /\ MayFault
  /\ \E sdi \in sdrad_search_udi_control(udi) :
       LET merge == sdi_init_heap_flag[sdi] /\ options = "HEAP_MERGE"
           entry == [stack |-> sdi_address_stack[sdi],
                     heap  |-> IF sdi_init_heap_flag[sdi] /\ ~merge THEN sdi_tlsf[sdi] ELSE NULL,
                     key   |-> pdi[sdi]]
       IN  /\ OffChain(sdi)
           /\ cache' = <<entry>> \o cache
           /\ IF merge /\ sdi_tlsf[sdi_parent_domain[sdi]] = NULL
                THEN \* tlsf_merge_pool dereferences the parent's heap, which is NULL
                     /\ pkru' = PKRU_ALL_UNSET
                     /\ ctl' = "fault"
                     /\ UNCHANGED <<pdi, udi_control, heapVars>>
                ELSE /\ pdi' = [pdi EXCEPT ![sdi] = 0]
                     /\ udi_control' = sdrad_delete_control_structure(udi_control, sdi)
                     /\ pkru' = pkru_config[active_domain]
                     /\ IF FreeFaults(udi_control, sdi)
                          THEN /\ CreateActiveHeap(active_domain)
                               /\ ctl' = "fault"
                          ELSE UNCHANGED <<heapVars, ctl>>
  /\ UNCHANGED <<status, next_pkey, active_domain, pkru_config, sdi_parent_domain,
                 sdi_address_stack, sdi_saved_ex, sdi_options, sdi_buffer,
                 sdi_last_rsp, calls>>

-----------------------------------------------------------------------------
(* sdrad_dprotect.  `target` and `source` are slots the two udi resolve to,  *)
(* the root domain standing for udi 0.  The application names a data domain  *)
(* as the source.                                                            *)

DprotectSlot(udi) ==
  IF udi = 0 THEN {ROOT_DOMAIN} ELSE sdrad_search_udi_control(udi)

(* pdi[parent] = pdi[active_domain]: only the creator may give access. *)
MayDprotect(source) == pdi[active_domain] = pdi[sdi_parent_domain[source]]

sdrad_dprotect_error(udi, source_udi) ==
  /\ App
  /\ \/ DprotectSlot(udi) = {}
     \/ \A source \in DprotectSlot(source_udi) : ~MayDprotect(source)
  /\ ReturnError

sdrad_dprotect(udi, source_udi, access_status) ==
  /\ App
  /\ \E sdi \in DprotectSlot(udi), source \in sdrad_search_udi_control(source_udi) :
       /\ "DATA" \in sdi_options[source]
       /\ MayDprotect(source)
       /\ pkru_config' = [pkru_config EXCEPT ![sdi] =
                            sdrad_set_access_pdi(@, pdi[source], access_status)]
       /\ pkru' = IF sdi = ROOT_DOMAIN THEN pkru_config'[ROOT_DOMAIN]
                                       ELSE pkru_config'[active_domain]
  /\ UNCHANGED <<mgrVars, infoVars, active_domain, tlsf_structure, mapped, ctl, calls>>

-----------------------------------------------------------------------------
(* malloc and the sdrad_malloc family: which heap is created when.  Calls    *)
(* that find their heap change nothing this module tells apart.              *)

malloc ==
  /\ App
  /\ MayMap
  /\ tlsf_structure = NULL
  /\ CreateActiveHeap(active_domain)
  /\ pkru' = pkru_config[active_domain]
  /\ UNCHANGED <<mgrVars, active_domain, pkru_config, sdi_parent_domain,
                 sdi_address_stack, sdi_saved_ex, sdi_options, sdi_buffer,
                 sdi_last_rsp, ctl, calls>>

sdrad_malloc(udi) ==
  /\ App
  /\ MayMap
  /\ \E sdi \in sdrad_search_udi_control(udi) :
       IF sdi_init_heap_flag[sdi]
         THEN UNCHANGED <<mapped, sdi_tlsf, sdi_init_heap_flag>>
         ELSE sdrad_heap_domain_init(sdi, pdi[sdi])
  /\ pkru' = pkru_config[active_domain]
  /\ UNCHANGED <<mgrVars, active_domain, pkru_config, sdi_parent_domain,
                 sdi_address_stack, sdi_saved_ex, sdi_options, sdi_buffer,
                 sdi_last_rsp, tlsf_structure, ctl, calls>>

-----------------------------------------------------------------------------
(* Faults *)

(* Application code raises SIGSEGV, has its SIGALRM delivered, or fails a    *)
(* stack-protector check.                                                    *)
Violation ==
  /\ App
  /\ MayFault
  /\ ctl' = "fault"
  /\ UNCHANGED <<mgrVars, infoVars, active_domain, pkru_config, tlsf_structure,
                 mapped, pkru, calls>>

(* Mutant: the parent's key is compared with the root's. *)
parent_has_root_key == pdi[sdi_parent_domain[active_domain]] = pdi[ROOT_DOMAIN]

(* "no return for PDI root domain" *)
HasRootKey == pdi[active_domain] = pdi[ROOT_DOMAIN]

(* Mutant: the handler returns, and the faulting instruction runs again. *)
abnormal_exit_returns ==
  /\ ctl = "fault"
  /\ pkru' = PKRU_ALL_UNSET
  /\ ctl' = IF HasRootKey THEN "aborted" ELSE "fault"
  /\ UNCHANGED <<mgrVars, infoVars, active_domain, pkru_config, tlsf_structure,
                 mapped, calls>>

(* The handler: abort() when the active domain holds the root domain's key,  *)
(* else longjmp to the context its sdrad_init saved.                         *)
sdrad_abnormal_domain_exit ==
  /\ ctl = "fault"
  /\ pkru' = PKRU_ALL_UNSET
  /\ ctl' = IF HasRootKey THEN "aborted" ELSE "rewind"
  /\ UNCHANGED <<mgrVars, infoVars, active_domain, pkru_config, tlsf_structure,
                 mapped, calls>>

(* Mutant: the entry gets the parent's key. *)
rewound_entry_parent_key(sdi, key) ==
  [stack |-> sdi_address_stack[sdi],
   heap  |-> IF sdi_init_heap_flag[sdi] THEN sdi_tlsf[sdi] ELSE NULL,
   key   |-> pdi[sdi_parent_domain[sdi]]]

(* sdrad_destroy_domain: the cache entry made of the slot's memory and of a  *)
(* key which is the slot's own, or its parent's with RETURN_TO_PARENT.       *)
RewoundEntry(sdi, key) ==
  [stack |-> sdi_address_stack[sdi],
   heap  |-> IF sdi_init_heap_flag[sdi] THEN sdi_tlsf[sdi] ELSE NULL,
   key   |-> key]

(* What remains when free() faults in the middle of sdrad_init_destroy: the  *)
(* application is back at `level` and `active` is the domain that faults.    *)
RewindFaults(active, level) ==
  /\ active_domain' = active
  /\ CreateActiveHeap(active)
  /\ pkru' = pkru_config[active]
  /\ calls' = SubSeq(calls, 1, level)
  /\ sdi_buffer' = FramesUpTo(level)
  /\ ctl' = "fault"
  /\ UNCHANGED status

(* What remains when it runs to its end.  The udi it is given is whatever    *)
(* register rdi holds after longjmp, so its search ends in NO_MAP and its    *)
(* last store, pdi[DOMAIN_NO_MAP] = 0, falls into the table before pdi,      *)
(* which is status.  The store before it, sgm_udi_to_sdi[DOMAIN_NO_MAP] = 0, *)
(* falls into the entries of threads far beyond the one there is here.       *)
OverwrittenSlot == TOTAL_DOMAIN + DOMAIN_NO_MAP

(* Mutant: the sentinel of the thread table is stored in the domain table. *)
status_thread_sentinel(sdi) ==
  status' = [status EXCEPT ![sdi] = THREAD_NONOCCUPIED, ![OverwrittenSlot] = 0]

FreeRewoundSlot(sdi) ==
  status' = [status EXCEPT ![sdi] = DOMAIN_NONOCCUPIED, ![OverwrittenSlot] = 0]

RewindCompletes(sdi, level) ==
  /\ FreeRewoundSlot(sdi)
  /\ Resume(sdi_parent_domain[sdi])
  /\ calls' = SubSeq(calls, 1, level)
  /\ sdi_buffer' = FramesUpTo(level)
  /\ ctl' = "app"
  /\ UNCHANGED <<sdi_tlsf, sdi_init_heap_flag, mapped>>

(* RETURN_TO_CURRENT, the default: destroy the active domain, go to its      *)
(* parent.                                                                   *)
RewindToCurrent ==
  LET sdi == active_domain
  IN  /\ "TO_PARENT" \notin sdi_options[sdi]
      /\ cache' = <<RewoundEntry(sdi, pdi[sdi])>> \o cache
      /\ udi_control' = sdrad_delete_control_structure(udi_control, sdi)
      /\ IF FreeFaults(udi_control, sdi)
           THEN RewindFaults(sdi_parent_domain[sdi], sdi_buffer[sdi])
           ELSE RewindCompletes(sdi, sdi_buffer[sdi])

(* RETURN_TO_PARENT: first the parent's node is deleted, with the active     *)
(* domain's memory cached under the parent's key, then the active domain.    *)
RewindToParent ==
  LET sdi      == active_domain
      parent   == sdi_parent_domain[sdi]
      grand    == sdi_parent_domain[parent]
      first    == <<RewoundEntry(sdi, pdi[parent])>> \o cache
      orphaned == sdrad_delete_control_structure(udi_control, parent)
  IN  /\ "TO_PARENT" \in sdi_options[sdi]
      /\ IF FreeFaults(udi_control, parent)
           THEN /\ cache' = first
                /\ udi_control' = orphaned
                /\ RewindFaults(grand, sdi_buffer[sdi])
           ELSE /\ cache' = <<RewoundEntry(sdi, pdi[sdi])>> \o first
                /\ udi_control' = sdrad_delete_control_structure(orphaned, sdi)
                /\ IF FreeFaults(orphaned, sdi)
                     THEN RewindFaults(grand, sdi_buffer[sdi])
                     ELSE RewindCompletes(sdi, sdi_buffer[sdi])

sdrad_init_destroy ==
  /\ ctl = "rewind"
  /\ RewindToCurrent \/ RewindToParent
  /\ UNCHANGED <<pdi, next_pkey, pkru_config, sdi_parent_domain, sdi_address_stack,
                 sdi_saved_ex, sdi_options, sdi_last_rsp>>

(* The process is gone, or its state is corrupt: nothing more is modelled. *)
Ended == ctl \in {"aborted", "oob", "killed"} /\ UNCHANGED vars

-----------------------------------------------------------------------------
ApiCall(udi) ==
  \/ \E feature \in Features :
       \/ sdrad_init_error(udi, feature)
       \/ sdrad_init_save_context(udi, feature)
       \/ sdrad_init_no_slot(udi, feature)
       \/ sdrad_init_data(udi, feature)
       \/ sdrad_init_exec(udi, feature)
  \/ sdrad_enter_error(udi)
  \/ sdrad_enter_no_stack(udi)
  \/ sdrad_enter(udi)
  \/ sdrad_no_such_domain(udi)
  \/ sdrad_deinit(udi)
  \/ \E options \in Options : sdrad_destroy(udi, options)
  \/ \E target \in Udi \cup {0} :
       \/ sdrad_dprotect_error(target, udi)
       \/ \E access_status \in Access : sdrad_dprotect(target, udi, access_status)
  \/ sdrad_malloc(udi)

Handler == sdrad_abnormal_domain_exit \/ sdrad_init_destroy

Next ==
  \/ \E udi \in Udi : ApiCall(udi)
  \/ sdrad_exit
  \/ malloc
  \/ Violation
  \/ Handler
  \/ Ended

(* A raised signal is delivered and its handler runs on; the application may *)
(* stop calling the library at any time.                                     *)
Fairness == WF_vars(Handler)

Spec == Init /\ [][Next]_vars /\ Fairness

-----------------------------------------------------------------------------
(* Properties *)

TypeOK ==
  /\ status \in [Slot -> {0, DOMAIN_OCCUPIED, DOMAIN_NONOCCUPIED}]
  /\ udi_control \in Seq(Node)
  /\ pdi \in [Slot -> Key]
  /\ cache \in Seq(CacheEntry)
  /\ next_pkey \in 3 .. NUM_PKEYS
  /\ active_domain \in Slot
  /\ pkru_config \in [Slot -> Pkru]
  /\ sdi_parent_domain \in [Slot -> Slot]
  /\ sdi_address_stack \in [Slot -> Nat]
  /\ sdi_tlsf \in [Slot -> Nat]
  /\ sdi_init_heap_flag \in [Slot -> BOOLEAN]
  /\ sdi_saved_ex \in [Slot -> BOOLEAN]
  /\ sdi_options \in [Slot -> SUBSET Flag]
  /\ sdi_buffer \in [Slot -> Nat]
  /\ sdi_last_rsp \in [Slot -> Nat]
  /\ tlsf_structure \in Nat
  /\ mapped \in Seq(Key)
  /\ pkru \in Pkru
  /\ ctl \in Control
  /\ calls \in Seq(Slot)

(* The udi list is a one-to-one map from udi to slots: the searches, which   *)
(* stop at the first match, have one answer, and no listed slot can be given *)
(* out again by sdrad_find_free_domain.                                      *)
ControlWellFormed ==
  /\ \A i, j \in DOMAIN udi_control :
       i # j => /\ udi_control[i].udi # udi_control[j].udi
                /\ udi_control[i].sdi # udi_control[j].sdi
  /\ \A i \in DOMAIN udi_control :
       /\ udi_control[i].sdi >= DOMAIN_2
       /\ status[udi_control[i].sdi] # DOMAIN_NONOCCUPIED

(* The domain at a level of the chain was entered by the one below it, whose *)
(* saved stack pointer and saved context are in the frame of that call.      *)
Linked(i) ==
  /\ sdi_parent_domain[calls[i]] = calls[i - 1]
  /\ sdi_last_rsp[calls[i - 1]] = i - 1
  /\ sdi_buffer[calls[i]] = i - 1
  /\ sdi_saved_ex[calls[i]]
  /\ calls[i] >= DOMAIN_2
  /\ status[calls[i]] # DOMAIN_NONOCCUPIED
  /\ "DATA" \notin sdi_options[calls[i]]

(* What the code believes about who called whom, spread over active_domain,  *)
(* sdi_parent_domain, sdi_last_rsp and sdi_buffer, agrees with the frames    *)
(* that are really on the stacks: every domain on the chain was entered by   *)
(* its parent, the parent's saved stack pointer is that frame, the context a *)
(* fault would resume is alive and in that parent, and the slot cannot be    *)
(* given to somebody else meanwhile.                                         *)
CallChain ==
  /\ Len(calls) > 0 /\ calls[1] = ROOT_DOMAIN
  /\ active_domain = calls[Len(calls)]
  /\ \A i, j \in DOMAIN calls : i # j => calls[i] # calls[j]
  /\ \A i \in 2 .. Len(calls) : Linked(i)

(* A fault leaves the process either dead, which only happens to the root    *)
(* domain, or back in application code: a second fault inside the recovery   *)
(* cannot make it run for ever.                                              *)
FaultResolved == ctl \in {"fault", "rewind"} ~> ctl \in {"app", "aborted"}

(* No domain on the chain was ever given the monitor's key, and none but the *)
(* root may write under the root's: keys that travel through pdi, the cache  *)
(* and sdrad_dprotect never include these two.                               *)
MonitorShut ==
  \A i \in DOMAIN calls :
    /\ pkru_config[calls[i]][pdi[MONITOR_DATA]] = 3
    /\ calls[i] # ROOT_DOMAIN => pkru_config[calls[i]][pdi[ROOT_DOMAIN]] = PKEY_DISABLE_WRITE

(* While application code runs the register is the active domain's PKRU, or  *)
(* the open one that an error return leaves behind.                          *)
PkruOfActive ==
  ctl = "app" => pkru \in {PKRU_ALL_UNSET, pkru_config[active_domain]}

(* What a key is for: the domains listed and the domains cached, as records. *)
Owners ==
  {[at |-> <<"list", i>>, stack |-> sdi_address_stack[udi_control[i].sdi],
    key |-> pdi[udi_control[i].sdi]] : i \in DOMAIN udi_control}
  \cup
  {[at |-> <<"cache", i>>, stack |-> cache[i].stack, key |-> cache[i].key]
     : i \in DOMAIN cache}

(* Destroying, rewinding and reusing domains neither lose a key nor share    *)
(* one: every key taken from pkey_alloc has one owner.                       *)
KeysConserved ==
  \A k \in 3 .. next_pkey - 1 :
    \E o \in Owners : \A p \in Owners : p.key = k <=> p = o

(* A stack has one owner and carries that owner's key, through any number of *)
(* reuses, none of which tags it again.                                      *)
StacksOwned ==
  \A o \in Owners :
    /\ o.stack \in DOMAIN mapped /\ mapped[o.stack] = o.key
    /\ \A p \in Owners : p.stack = o.stack => p = o

(* The code that is running can use the stack it runs on. *)
StackUsable ==
  \A i \in DOMAIN calls :
    pkru_config[calls[i]][mapped[sdi_address_stack[calls[i]]]] = 0

(* The abstract specification: a stack of domains, unwound one at a time. *)
Mode == CASE ctl = "app" -> "run"
          [] ctl \in {"fault", "rewind"} -> "fault"
          [] ctl = "aborted" -> "aborted"
          [] ctl \in {"oob", "killed"} -> "corrupt"

Rewind == INSTANCE RewindStack WITH
            Domain <- Slot, Root <- ROOT_DOMAIN,
            chain <- calls, frame <- sdi_buffer, mode <- Mode

(* What the library promises its callers: RewindStack. *)
RewindStackSpec == Rewind!Spec
=============================================================================
