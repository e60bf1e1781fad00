-------------------------- MODULE SdradDomains_proofs -------------------------
(***************************************************************************)
(* Safety of the domain life cycle for every number of slots, keys and     *)
(* udi, every set of flags without RETURN_TO_PARENT, and any bounds; and   *)
(* with execution domains only, who owns a key and a stack.                *)
(***************************************************************************)
EXTENDS SdradDomains, ListLemmas

-----------------------------------------------------------------------------
(* The invariant.  CallChain alone is not inductive: that the frame a domain *)
(* saved is in its parent must be known before the domain is entered, and    *)
(* that no key handed on is the root's before it is handed on.               *)

NoReturnToParent == \A feature \in Features : "TO_PARENT" \notin feature

OptionsKnown == \A d \in Slot : "TO_PARENT" \notin sdi_options[d]

(* A saved frame is on the chain; an execution domain's is in the domain     *)
(* that it calls parent.                                                     *)
OwnsFrame(d) ==
  /\ sdi_buffer[d] <= Len(calls)
  /\ sdi_buffer[d] # 0 /\ "DATA" \notin sdi_options[d]
       => sdi_parent_domain[d] = calls[sdi_buffer[d]]

FrameOwner == \A d \in Slot : OwnsFrame(d)

(* The monitor has key 1 and the root key 2; nobody else has either. *)
ReservedKeys ==
  /\ pdi[MONITOR_DATA] = 1 /\ pdi[ROOT_DOMAIN] = 2
  /\ \A i \in DOMAIN udi_control : pdi[udi_control[i].sdi] >= 3
  /\ \A i \in 2 .. Len(calls) : pdi[calls[i]] >= 3
  /\ \A i \in DOMAIN cache : cache[i].key >= 3

Shut(d) ==
  /\ pkru_config[d][1] = 3
  /\ d # ROOT_DOMAIN => pkru_config[d][2] = PKEY_DISABLE_WRITE

(* MonitorShut, extended to the domains that may be entered later. *)
ConfigsShut ==
  /\ \A i \in DOMAIN calls : Shut(calls[i])
  /\ \A i \in DOMAIN udi_control :
       "DATA" \notin sdi_options[udi_control[i].sdi] => Shut(udi_control[i].sdi)

(* sdrad_find_free_domain never finds the two slots of the constructor. *)
ReservedSlots == \A i \in {MONITOR_DATA, ROOT_DOMAIN} : status[i] # DOMAIN_NONOCCUPIED

(* The root domain's fault never gets as far as a rewind. *)
RewindAboveRoot == ctl = "rewind" => Len(calls) > 1

IInv ==
  /\ TypeOK
  /\ ControlWellFormed
  /\ CallChain
  /\ OptionsKnown
  /\ FrameOwner
  /\ ReservedKeys
  /\ ConfigsShut
  /\ ReservedSlots
  /\ RewindAboveRoot

-----------------------------------------------------------------------------
(* Sequences *)

(* The list without a slot's node: the other nodes, in their order. *)
Without(S, list, rest, sdi) ==
  /\ rest \in Seq(S)
  /\ \A i, j \in DOMAIN rest : i # j =>
       \E p, q \in DOMAIN list : p # q /\ rest[i] = list[p] /\ rest[j] = list[q]
  /\ \A i \in DOMAIN rest : \E p \in DOMAIN list : rest[i] = list[p]
  /\ (\A p, q \in DOMAIN list : p # q => list[p].sdi # list[q].sdi)
       => \A i \in DOMAIN rest : rest[i].sdi # sdi

LEMMA DeleteProperties ==
  ASSUME NEW S, NEW list \in Seq(S), NEW sdi
  PROVE  Without(S, list, sdrad_delete_control_structure(list, sdi), sdi)
<1> DEFINE rest == sdrad_delete_control_structure(list, sdi)
<1>0. Len(list) \in Nat /\ DOMAIN list = 1 .. Len(list)
  BY LenProperties
<1>1. CASE \E k \in DOMAIN list : list[k].sdi = sdi
  <2> DEFINE k == NodeIndex(list, sdi)
  <2>1. k \in DOMAIN list /\ list[k].sdi = sdi
    BY <1>1 DEF NodeIndex
  <2>2. rest = RemoveAt(list, k)
    BY <1>1 DEF sdrad_delete_control_structure
  <2> HIDE DEF k, rest
  <2>3. /\ rest \in Seq(S) /\ Len(rest) = Len(list) - 1
        /\ \A i \in 1 .. Len(list) - 1 : rest[i] = IF i < k THEN list[i] ELSE list[i + 1]
    BY <1>0, <2>1, <2>2, RemoveAtProperties
  <2>4. DOMAIN rest = 1 .. Len(list) - 1
    BY <2>3, LenProperties
  <2> DEFINE at(i) == IF i < k THEN i ELSE i + 1
  <2>5. \A i \in DOMAIN rest : at(i) \in DOMAIN list /\ at(i) # k /\ rest[i] = list[at(i)]
    BY <1>0, <2>1, <2>3, <2>4
  <2>6. \A i, j \in DOMAIN rest : i # j => at(i) # at(j)
    BY <1>0, <2>1, <2>4
  <2> HIDE DEF at
  <2>7. \A i, j \in DOMAIN rest : i # j =>
          \E p, q \in DOMAIN list : p # q /\ rest[i] = list[p] /\ rest[j] = list[q]
    BY <2>5, <2>6
  <2>8. \A i \in DOMAIN rest : \E p \in DOMAIN list : rest[i] = list[p]
    BY <2>5
  <2>9. (\A p, q \in DOMAIN list : p # q => list[p].sdi # list[q].sdi)
          => \A i \in DOMAIN rest : rest[i].sdi # sdi
    BY <2>1, <2>5
  <2> QED
    BY <2>3, <2>7, <2>8, <2>9 DEF rest, Without
<1>2. CASE ~\E k \in DOMAIN list : list[k].sdi = sdi
  <2>1. rest = list
    BY <1>2 DEF sdrad_delete_control_structure
  <2> QED
    BY <1>2, <2>1 DEF Without
<1> QED
  BY <1>1, <1>2

-----------------------------------------------------------------------------
(* What the invariant says of the slots the operations work on. *)

(* The chain is never empty, and everything on it is a slot. *)
LEMMA ChainFacts ==
  ASSUME IInv
  PROVE  /\ Len(calls) \in Nat /\ Len(calls) > 0
         /\ DOMAIN calls = 1 .. Len(calls)
         /\ \A i \in 1 .. Len(calls) : calls[i] \in Slot
         /\ active_domain \in Slot
<1>1. calls \in Seq(Slot) /\ Len(calls) > 0 /\ active_domain \in Slot
  BY DEF IInv, TypeOK, CallChain
<1> QED
  BY <1>1, LenProperties, ElementOfSeq

(* Every element of the udi list is a node. *)
LEMMA ListFacts ==
  ASSUME IInv
  PROVE  /\ DOMAIN udi_control = 1 .. Len(udi_control)
         /\ Len(udi_control) \in Nat
         /\ \A i \in DOMAIN udi_control : udi_control[i] \in Node
<1>1. udi_control \in Seq(Node)
  BY DEF IInv, TypeOK
<1> QED
  BY <1>1, LenProperties, ElementOfSeq

(* A slot that the search finds is in the list. *)
LEMMA SearchFacts ==
  ASSUME IInv, NEW udi, NEW sdi \in sdrad_search_udi_control(udi)
  PROVE  /\ \E k \in DOMAIN udi_control : udi_control[k].sdi = sdi
         /\ sdi \in Slot /\ sdi >= DOMAIN_2
         /\ status[sdi] # DOMAIN_NONOCCUPIED
         /\ pdi[sdi] \in Key /\ pdi[sdi] >= 3
<1>1. PICK k \in DOMAIN udi_control : udi_control[k].sdi = sdi
  BY DEF sdrad_search_udi_control
<1>2. udi_control[k] \in Node
  BY ListFacts
<1>3. sdi \in Slot
  BY <1>1, <1>2 DEF Node
<1>4. sdi >= DOMAIN_2 /\ status[sdi] # DOMAIN_NONOCCUPIED
  BY <1>1 DEF IInv, ControlWellFormed
<1>5. pdi[sdi] \in Key /\ pdi[sdi] >= 3
  BY <1>1, <1>3 DEF IInv, TypeOK, ReservedKeys
<1> QED
  BY <1>1, <1>3, <1>4, <1>5

(* A slot that is free is nobody's. *)
LEMMA FreeFacts ==
  ASSUME IInv, NEW sdi \in sdrad_find_free_domain
  PROVE  /\ sdi \in Slot /\ sdi >= DOMAIN_2
         /\ \A k \in DOMAIN udi_control : udi_control[k].sdi # sdi
         /\ OffChain(sdi)
<1>1. sdi \in Slot /\ status[sdi] = DOMAIN_NONOCCUPIED
  BY DEF sdrad_find_free_domain
<1>2. sdi # MONITOR_DATA /\ sdi # ROOT_DOMAIN
  BY <1>1 DEF IInv, ReservedSlots
<1>3. sdi >= DOMAIN_2
  BY <1>1, <1>2 DEF Slot, MONITOR_DATA, ROOT_DOMAIN, DOMAIN_2
<1>4. \A k \in DOMAIN udi_control : udi_control[k].sdi # sdi
  BY <1>1 DEF IInv, ControlWellFormed
<1>5. ASSUME NEW i \in DOMAIN calls PROVE calls[i] # sdi
  <2>1. CASE i = 1
    BY <1>2, <2>1 DEF IInv, CallChain
  <2>2. CASE i # 1
    BY <1>1, <2>2, ChainFacts DEF IInv, CallChain, Linked
  <2> QED
    BY <2>1, <2>2
<1> QED
  BY <1>1, <1>3, <1>4, <1>5 DEF OffChain

(* A domain whose context may be replaced is not on the chain. *)
LEMMA UnsavedOffChain ==
  ASSUME IInv, NEW sdi \in Slot, sdi >= DOMAIN_2, ~sdi_saved_ex[sdi]
  PROVE  OffChain(sdi)
<1>1. ASSUME NEW i \in DOMAIN calls PROVE calls[i] # sdi
  <2>1. CASE i = 1
    BY <2>1 DEF IInv, CallChain, ROOT_DOMAIN, DOMAIN_2
  <2>2. CASE i # 1
    BY <2>2, ChainFacts DEF IInv, CallChain, Linked
  <2> QED
    BY <2>1, <2>2
<1> QED
  BY <1>1 DEF OffChain

(* Steps that leave the chain alone, and the slots on it, keep its links. *)
LEMMA SameChain ==
  ASSUME IInv,
         UNCHANGED <<calls, active_domain, sdi_last_rsp>>,
         \A i \in 2 .. Len(calls) :
           /\ sdi_parent_domain'[calls[i]] = sdi_parent_domain[calls[i]]
           /\ sdi_buffer'[calls[i]] = sdi_buffer[calls[i]]
           /\ sdi_saved_ex'[calls[i]] = sdi_saved_ex[calls[i]]
           /\ sdi_options'[calls[i]] = sdi_options[calls[i]]
           /\ status'[calls[i]] = status[calls[i]]
  PROVE  CallChain'
<1>1. ASSUME NEW i \in 2 .. Len(calls) PROVE Linked(i)'
  BY DEF IInv, CallChain, Linked
<1> QED
  BY <1>1 DEF IInv, CallChain

(* The keys of new domains. *)
LEMMA NewKeyFacts ==
  ASSUME IInv, cache = <<>> => next_pkey < NUM_PKEYS
  PROVE  NewKey \in Key /\ NewKey >= 3
<1>1. CASE cache = <<>>
  BY <1>1, BaseAssumption DEF IInv, TypeOK, NewKey, Key
<1>2. CASE cache # <<>>
  <2>1. cache \in Seq(CacheEntry)
    BY DEF IInv, TypeOK
  <2>2. Head(cache) \in CacheEntry /\ Head(cache) = cache[1] /\ 1 \in DOMAIN cache
    BY <1>2, <2>1, HeadTailProperties, LenProperties, EmptySeq
  <2> QED
    BY <1>2, <2>2 DEF IInv, ReservedKeys, NewKey, CacheEntry
<1> QED
  BY <1>1, <1>2

(* Setting the rights of one key in a PKRU. *)
LEMMA SetAccessType ==
  ASSUME NEW value \in Pkru, NEW key \in Key, NEW access \in Right
  PROVE  sdrad_set_access_pdi(value, key, access) \in Pkru
BY DEF sdrad_set_access_pdi, Pkru

(* The PKRU constants of sdrad_pkey.h are PKRU values. *)
LEMMA PkruTypes ==
  /\ PKRU_ALL_UNSET \in Pkru
  /\ PKRU_ALL_READ_ONLY_RD \in Pkru
  /\ \A key \in Key : sdrad_pkru_default_config(key) \in Pkru
<1>1. PKRU_ALL_UNSET \in Pkru
  BY DEF PKRU_ALL_UNSET, Pkru, Right
<1>2. PKRU_ALL_READ_ONLY_RD \in Pkru
  BY DEF PKRU_ALL_READ_ONLY_RD, Pkru, Right, PKEY_DISABLE_WRITE
<1>3. 0 \in Right
  BY DEF Right
<1> QED
  BY <1>1, <1>2, <1>3, SetAccessType DEF sdrad_pkru_default_config

-----------------------------------------------------------------------------
(* The steps *)

(* Error returns, the raise of a fault, its handler, and the end. *)
LEMMA RegisterStep ==
  ASSUME IInv, pkru' \in Pkru, ctl' \in Control,
         ctl' = "rewind" => Len(calls) > 1,
         UNCHANGED <<mgrVars, infoVars, active_domain, pkru_config, tlsf_structure,
                     mapped, calls>>
  PROVE  IInv'
<1> USE DEF mgrVars, infoVars
<1>1. TypeOK'
  BY DEF IInv, TypeOK
<1>2. ControlWellFormed' /\ ReservedSlots'
  BY DEF IInv, ControlWellFormed, ReservedSlots
<1>3. CallChain'
  BY SameChain DEF IInv
<1>4. OptionsKnown' /\ FrameOwner'
  BY DEF IInv, OptionsKnown, FrameOwner, OwnsFrame
<1>5. ReservedKeys' /\ ConfigsShut'
  BY DEF IInv, ReservedKeys, ConfigsShut, Shut
<1>6. RewindAboveRoot'
  BY DEF RewindAboveRoot
<1> QED
  BY <1>1, <1>2, <1>3, <1>4, <1>5, <1>6 DEF IInv

(* Creating heaps touches nothing that the invariant relates. *)
LEMMA HeapStep ==
  ASSUME IInv, pkru' \in Pkru,
         mapped' \in Seq(Key), sdi_tlsf' \in [Slot -> Nat],
         sdi_init_heap_flag' \in [Slot -> BOOLEAN], tlsf_structure' \in Nat,
         UNCHANGED <<mgrVars, active_domain, pkru_config, sdi_parent_domain,
                     sdi_address_stack, sdi_saved_ex, sdi_options, sdi_buffer,
                     sdi_last_rsp, ctl, calls>>
  PROVE  IInv'
<1> USE DEF mgrVars
<1>1. TypeOK'
  BY DEF IInv, TypeOK
<1>2. ControlWellFormed' /\ ReservedSlots'
  BY DEF IInv, ControlWellFormed, ReservedSlots
<1>3. CallChain'
  BY SameChain DEF IInv
<1>4. OptionsKnown' /\ FrameOwner'
  BY DEF IInv, OptionsKnown, FrameOwner, OwnsFrame
<1>5. ReservedKeys' /\ ConfigsShut'
  BY DEF IInv, ReservedKeys, ConfigsShut, Shut
<1>6. RewindAboveRoot'
  BY DEF IInv, RewindAboveRoot
<1> QED
  BY <1>1, <1>2, <1>3, <1>4, <1>5, <1>6 DEF IInv

(* An error return opens the register and changes nothing else. *)
LEMMA ReturnErrorPreserves ==
  ASSUME IInv, App, ReturnError
  PROVE  IInv'
<1>1. ctl' \in Control /\ ctl' # "rewind"
  BY DEF App, ReturnError, Control
<1>2. pkru' \in Pkru
  BY PkruTypes DEF ReturnError
<1> QED
  BY <1>1, <1>2, RegisterStep DEF ReturnError

(* Using slot -1 ends what is modelled. *)
LEMMA NoSlotPreserves ==
  ASSUME IInv, NEW udi, NEW feature, sdrad_init_no_slot(udi, feature)
  PROVE  IInv'
<1>1. pkru' \in Pkru
  BY DEF IInv, TypeOK, sdrad_init_no_slot
<1>2. ctl' \in Control /\ ctl' # "rewind"
  BY DEF sdrad_init_no_slot, Control
<1> QED
  BY <1>1, <1>2, RegisterStep DEF sdrad_init_no_slot

(* Entering a domain that has no stack ends it too. *)
LEMMA EnterNoStackPreserves ==
  ASSUME IInv, NEW udi, sdrad_enter_no_stack(udi)
  PROVE  IInv'
<1>1. pkru' \in Pkru
  BY DEF IInv, TypeOK, sdrad_enter_no_stack
<1>2. ctl' \in Control /\ ctl' # "rewind"
  BY DEF sdrad_enter_no_stack, Control
<1> QED
  BY <1>1, <1>2, RegisterStep DEF sdrad_enter_no_stack

(* A fault changes only who runs. *)
LEMMA ViolationPreserves ==
  ASSUME IInv, Violation
  PROVE  IInv'
<1>1. pkru' \in Pkru
  BY DEF IInv, TypeOK, Violation
<1>2. ctl' \in Control /\ ctl' # "rewind"
  BY DEF Violation, Control
<1> QED
  BY <1>1, <1>2, RegisterStep DEF Violation

(* A fault of the root domain ends in abort(), so the chain that a rewind    *)
(* cuts has something above the root.                                        *)
LEMMA AbnormalExitPreserves ==
  ASSUME IInv, sdrad_abnormal_domain_exit
  PROVE  IInv'
<1>1. pkru' \in Pkru
  BY PkruTypes DEF sdrad_abnormal_domain_exit
<1>2. ctl' \in Control
  BY DEF sdrad_abnormal_domain_exit, Control
<1>3. ASSUME ctl' = "rewind" PROVE Len(calls) > 1
  <2>1. active_domain # ROOT_DOMAIN
    BY <1>3 DEF sdrad_abnormal_domain_exit, HasRootKey
  <2> QED
    BY <2>1, ChainFacts DEF IInv, CallChain
<1> QED
  BY <1>1, <1>2, <1>3, RegisterStep DEF sdrad_abnormal_domain_exit

(* Nothing happens. *)
LEMMA StutterPreserves ==
  ASSUME IInv, UNCHANGED vars
  PROVE  IInv'
<1>1. pkru' \in Pkru /\ ctl' \in Control
  BY DEF IInv, TypeOK, vars
<1>2. ctl' = "rewind" => Len(calls) > 1
  BY DEF IInv, RewindAboveRoot, vars
<1> QED
  BY <1>1, <1>2, RegisterStep DEF vars

(* A new heap for a slot. *)
LEMMA HeapInitFacts ==
  ASSUME IInv, NEW sdi \in Slot, NEW key \in Key, sdrad_heap_domain_init(sdi, key)
  PROVE  /\ mapped' \in Seq(Key)
         /\ sdi_tlsf' \in [Slot -> Nat]
         /\ sdi_init_heap_flag' \in [Slot -> BOOLEAN]
         /\ Len(mapped) + 1 \in Nat
<1>1. mapped \in Seq(Key)
  BY DEF IInv, TypeOK
<1>2. Len(mapped) \in Nat /\ Append(mapped, key) \in Seq(Key)
  BY <1>1, LenProperties, AppendProperties
<1> QED
  BY <1>2 DEF IInv, TypeOK, sdrad_heap_domain_init

(* The heap that malloc and free create for the active domain. *)
LEMMA ActiveHeapFacts ==
  ASSUME IInv, NEW sdi \in Slot, CreateActiveHeap(sdi)
  PROVE  /\ mapped' \in Seq(Key)
         /\ sdi_tlsf' \in [Slot -> Nat]
         /\ sdi_init_heap_flag' \in [Slot -> BOOLEAN]
         /\ tlsf_structure' \in Nat
<1>1. pdi[sdi] \in Key
  BY DEF IInv, TypeOK
<1> QED
  BY <1>1, HeapInitFacts DEF CreateActiveHeap

(* malloc creates a heap or finds one. *)
LEMMA MallocPreserves ==
  ASSUME IInv, malloc
  PROVE  IInv'
<1>1. active_domain \in Slot /\ pkru' \in Pkru
  BY DEF IInv, TypeOK, malloc
<1>2. CreateActiveHeap(active_domain)
  BY DEF malloc
<1> QED
  BY <1>1, <1>2, ActiveHeapFacts, HeapStep DEF malloc

(* So does the sdrad_malloc family, for a named domain. *)
LEMMA SdradMallocPreserves ==
  ASSUME IInv, NEW udi, sdrad_malloc(udi)
  PROVE  IInv'
<1>1. PICK sdi \in sdrad_search_udi_control(udi) :
        IF sdi_init_heap_flag[sdi]
          THEN UNCHANGED <<mapped, sdi_tlsf, sdi_init_heap_flag>>
          ELSE sdrad_heap_domain_init(sdi, pdi[sdi])
  BY DEF sdrad_malloc
<1>2. /\ mapped' \in Seq(Key)
      /\ sdi_tlsf' \in [Slot -> Nat]
      /\ sdi_init_heap_flag' \in [Slot -> BOOLEAN]
  <2>1. CASE sdi_init_heap_flag[sdi]
    BY <1>1, <2>1 DEF IInv, TypeOK
  <2>2. CASE ~sdi_init_heap_flag[sdi]
    BY <1>1, <2>2, SearchFacts, HeapInitFacts
  <2> QED
    BY <2>1, <2>2
<1>3. pkru' \in Pkru /\ tlsf_structure' \in Nat
  BY DEF IInv, TypeOK, sdrad_malloc
<1> QED
  BY <1>2, <1>3, HeapStep DEF sdrad_malloc

-----------------------------------------------------------------------------
(* A domain gets a new context and parent.  It has no frame on the chain, so *)
(* no link of the chain changes.                                             *)
LEMMA SaveContextPreserves ==
  ASSUME IInv, NEW udi, NEW feature, sdrad_init_save_context(udi, feature)
  PROVE  IInv'
<1> USE DEF mgrVars
<1>1. PICK sdi \in sdrad_search_udi_control(udi) :
        /\ ~AlreadyInit(sdi)
        /\ SaveContext(sdi)
        /\ sdi_parent_domain' = [sdi_parent_domain EXCEPT ![sdi] = active_domain]
  BY DEF sdrad_init_save_context
<1>2. sdi \in Slot /\ sdi >= DOMAIN_2
  BY SearchFacts
<1>3. OffChain(sdi)
  BY <1>1, <1>2, UnsavedOffChain DEF AlreadyInit
<1>4. /\ sdi_buffer' = [sdi_buffer EXCEPT ![sdi] = Len(calls)]
      /\ sdi_saved_ex' = [sdi_saved_ex EXCEPT ![sdi] = TRUE]
  BY <1>1 DEF SaveContext
<1>5. /\ pkru' = PKRU_ALL_UNSET /\ ctl' = ctl /\ ctl = "app"
      /\ UNCHANGED <<mgrVars, active_domain, pkru_config, sdi_address_stack, sdi_tlsf,
                     sdi_init_heap_flag, sdi_options, sdi_last_rsp, tlsf_structure,
                     mapped, ctl, calls>>
  BY DEF sdrad_init_save_context, App
<1>6. TypeOK'
  BY <1>1, <1>2, <1>4, <1>5, ChainFacts, PkruTypes DEF IInv, TypeOK
<1>7. ControlWellFormed' /\ ReservedSlots'
  BY <1>5 DEF IInv, ControlWellFormed, ReservedSlots
<1>8. CallChain'
  <2>1. ASSUME NEW i \in 2 .. Len(calls)
        PROVE  calls[i] \in Slot /\ calls[i] # sdi
    BY <1>3, ChainFacts DEF OffChain
  <2> QED
    BY <1>1, <1>4, <1>5, <2>1, SameChain DEF IInv, TypeOK
<1>9. OptionsKnown' /\ FrameOwner'
  <2>1. OptionsKnown'
    BY <1>5 DEF IInv, OptionsKnown
  <2>2. active_domain = calls[Len(calls)]
    BY DEF IInv, CallChain
  <2>3. ASSUME NEW d \in Slot PROVE OwnsFrame(d)'
    <3>1. CASE d = sdi
      BY <1>1, <1>2, <1>4, <1>5, <2>2, <3>1, ChainFacts DEF IInv, TypeOK, OwnsFrame
    <3>2. CASE d # sdi
      BY <1>1, <1>2, <1>4, <1>5, <3>2 DEF IInv, TypeOK, FrameOwner, OwnsFrame
    <3> QED
      BY <3>1, <3>2
  <2> QED
    BY <2>1, <2>3 DEF FrameOwner
<1>10. ReservedKeys' /\ ConfigsShut'
  BY <1>5 DEF IInv, ReservedKeys, ConfigsShut, Shut
<1>11. RewindAboveRoot'
  BY <1>5 DEF RewindAboveRoot
<1> QED
  BY <1>6, <1>7, <1>8, <1>9, <1>10, <1>11 DEF IInv

(* The context that sdrad_deinit gives up belongs to no domain on the chain. *)
LEMMA DeinitPreserves ==
  ASSUME IInv, NEW udi, sdrad_deinit(udi)
  PROVE  IInv'
<1> USE DEF mgrVars
<1>1. PICK sdi \in sdrad_search_udi_control(udi) :
        OffChain(sdi) /\ sdi_saved_ex' = [sdi_saved_ex EXCEPT ![sdi] = FALSE]
  BY DEF sdrad_deinit
<1>2. sdi \in Slot
  BY SearchFacts
<1>3. /\ pkru' = pkru_config[active_domain] /\ ctl = "app"
      /\ UNCHANGED <<mgrVars, active_domain, pkru_config, sdi_parent_domain,
                     sdi_address_stack, sdi_tlsf, sdi_init_heap_flag, sdi_options,
                     sdi_buffer, sdi_last_rsp, tlsf_structure, mapped, ctl, calls>>
  BY DEF sdrad_deinit, App
<1>4. TypeOK'
  BY <1>1, <1>2, <1>3 DEF IInv, TypeOK
<1>5. ControlWellFormed' /\ ReservedSlots'
  BY <1>3 DEF IInv, ControlWellFormed, ReservedSlots
<1>6. CallChain'
  <2>1. ASSUME NEW i \in 2 .. Len(calls)
        PROVE  calls[i] \in Slot /\ calls[i] # sdi
    BY <1>1, ChainFacts DEF OffChain
  <2> QED
    BY <1>1, <1>3, <2>1, SameChain DEF IInv, TypeOK
<1>7. OptionsKnown' /\ FrameOwner'
  BY <1>3 DEF IInv, OptionsKnown, FrameOwner, OwnsFrame
<1>8. ReservedKeys' /\ ConfigsShut'
  BY <1>3 DEF IInv, ReservedKeys, ConfigsShut, Shut
<1>9. RewindAboveRoot'
  BY <1>3 DEF RewindAboveRoot
<1> QED
  BY <1>4, <1>5, <1>6, <1>7, <1>8, <1>9 DEF IInv

-----------------------------------------------------------------------------
(* sdrad_init maps a domain to a free slot. *)

(* What sdrad_init stores in the tables has the tables' types. *)
LEMMA MapNewDomainFacts ==
  ASSUME IInv, NEW udi \in Udi, NEW feature \in Features,
         NEW sdi \in sdrad_find_free_domain, MapNewDomain(udi, feature, sdi)
  PROVE  /\ NewKey \in Key /\ NewKey >= 3
         /\ next_pkey' \in 3 .. NUM_PKEYS
         /\ status' \in [Slot -> {0, DOMAIN_OCCUPIED, DOMAIN_NONOCCUPIED}]
         /\ udi_control' \in Seq(Node)
         /\ pdi' \in [Slot -> Key]
         /\ sdi_options' \in [Slot -> SUBSET Flag]
         /\ sdi_parent_domain' \in [Slot -> Slot]
         /\ ctl = "app"
<1>1. ctl = "app" /\ (cache = <<>> => next_pkey < NUM_PKEYS)
  BY DEF MapNewDomain, InitAccepts, App
<1>2. NewKey \in Key /\ NewKey >= 3
  BY <1>1, NewKeyFacts
<1>3. sdi \in Slot
  BY FreeFacts
<1>4. next_pkey' \in 3 .. NUM_PKEYS
  BY <1>1, BaseAssumption DEF IInv, TypeOK, MapNewDomain
<1>5. udi_control' \in Seq(Node)
  <2>1. [udi |-> udi, sdi |-> sdi] \in Node /\ udi_control \in Seq(Node)
    BY <1>3 DEF Node, IInv, TypeOK
  <2> QED
    BY <2>1, PushProperties DEF MapNewDomain
<1>6. feature \in SUBSET Flag
  BY DomainsAssumption
<1>7. /\ status' \in [Slot -> {0, DOMAIN_OCCUPIED, DOMAIN_NONOCCUPIED}]
      /\ pdi' \in [Slot -> Key]
      /\ sdi_options' \in [Slot -> SUBSET Flag]
      /\ sdi_parent_domain' \in [Slot -> Slot]
  BY <1>2, <1>3, <1>6 DEF IInv, TypeOK, MapNewDomain
<1> QED
  BY <1>1, <1>2, <1>4, <1>5, <1>7

(* The list after a push: the new node, then the old ones. *)
LEMMA PushedList ==
  ASSUME IInv, NEW udi \in Udi, NEW feature,
         NEW sdi \in sdrad_find_free_domain, MapNewDomain(udi, feature, sdi)
  PROVE  /\ DOMAIN udi_control' = 1 .. Len(udi_control) + 1
         /\ \A i \in DOMAIN udi_control' :
              \/ i = 1 /\ udi_control'[i] = [udi |-> udi, sdi |-> sdi]
              \/ /\ i - 1 \in DOMAIN udi_control
                 /\ udi_control'[i] = udi_control[i - 1]
<1>1. [udi |-> udi, sdi |-> sdi] \in Node /\ udi_control \in Seq(Node)
  BY FreeFacts DEF Node, IInv, TypeOK
<1>2. udi_control' = <<[udi |-> udi, sdi |-> sdi]>> \o udi_control
  BY DEF MapNewDomain
<1>3. /\ udi_control' \in Seq(Node)
      /\ Len(udi_control') = Len(udi_control) + 1
      /\ \A i \in 1 .. Len(udi_control) + 1 :
           udi_control'[i] = IF i = 1 THEN [udi |-> udi, sdi |-> sdi]
                                      ELSE udi_control[i - 1]
  BY <1>1, <1>2, PushProperties
<1>4. DOMAIN udi_control' = 1 .. Len(udi_control) + 1
  BY <1>3, LenProperties
<1> QED
  BY <1>3, <1>4, ListFacts

(* The search found nothing, so neither the udi nor the slot comes twice. *)
LEMMA MapNewDomainControl ==
  ASSUME IInv, NEW udi \in Udi, NEW feature,
         NEW sdi \in sdrad_find_free_domain, MapNewDomain(udi, feature, sdi)
  PROVE  ControlWellFormed' /\ ReservedSlots'
<1>1. \A k \in DOMAIN udi_control : udi_control[k].udi # udi
  BY DEF MapNewDomain, InitAccepts, sdrad_search_udi_control
<1>2. /\ sdi \in Slot /\ sdi >= DOMAIN_2
      /\ \A k \in DOMAIN udi_control : udi_control[k].sdi # sdi
  BY FreeFacts
<1>3. /\ status' = [status EXCEPT ![sdi] = DOMAIN_OCCUPIED]
      /\ status \in [Slot -> {0, DOMAIN_OCCUPIED, DOMAIN_NONOCCUPIED}]
  BY DEF MapNewDomain, IInv, TypeOK
<1>4. ASSUME NEW i \in DOMAIN udi_control', NEW j \in DOMAIN udi_control', i # j
      PROVE  /\ udi_control'[i].udi # udi_control'[j].udi
             /\ udi_control'[i].sdi # udi_control'[j].sdi
  <2>1. i \in Int /\ j \in Int
    BY PushedList, ListFacts
  <2>2. CASE i = 1
    <3>1. udi_control'[i] = [udi |-> udi, sdi |-> sdi]
      BY <2>1, <2>2, PushedList
    <3>2. j - 1 \in DOMAIN udi_control /\ udi_control'[j] = udi_control[j - 1]
      BY <1>4, <2>2, PushedList
    <3> QED
      BY <1>1, <1>2, <3>1, <3>2
  <2>3. CASE j = 1
    <3>1. udi_control'[j] = [udi |-> udi, sdi |-> sdi]
      BY <2>1, <2>3, PushedList
    <3>2. i - 1 \in DOMAIN udi_control /\ udi_control'[i] = udi_control[i - 1]
      BY <1>4, <2>3, PushedList
    <3> QED
      BY <1>1, <1>2, <3>1, <3>2
  <2>4. CASE i # 1 /\ j # 1
    <3>1. i - 1 # j - 1 BY <1>4, <2>1
    <3> QED BY <2>4, <3>1, PushedList DEF IInv, ControlWellFormed
  <2> QED
    BY <2>2, <2>3, <2>4
<1>5. ASSUME NEW i \in DOMAIN udi_control'
      PROVE  /\ udi_control'[i].sdi >= DOMAIN_2
             /\ status'[udi_control'[i].sdi] # DOMAIN_NONOCCUPIED
  <2>1. CASE udi_control'[i] = [udi |-> udi, sdi |-> sdi]
    BY <1>2, <1>3, <2>1 DEF DOMAIN_OCCUPIED, DOMAIN_NONOCCUPIED
  <2>2. CASE i - 1 \in DOMAIN udi_control /\ udi_control'[i] = udi_control[i - 1]
    <3>1. udi_control[i - 1] \in Node
      BY <2>2, ListFacts
    <3> QED
      BY <1>2, <1>3, <2>2, <3>1 DEF IInv, ControlWellFormed, Node
  <2> QED
    BY <2>1, <2>2, PushedList
<1>6. ReservedSlots'
  BY <1>2, <1>3, BaseAssumption
    DEF IInv, ReservedSlots, MONITOR_DATA, ROOT_DOMAIN, DOMAIN_2, Slot
<1> QED
  BY <1>4, <1>5, <1>6 DEF ControlWellFormed

(* Nobody on the chain is touched. *)
LEMMA MapNewDomainChain ==
  ASSUME IInv, NEW udi \in Udi, NEW feature \in Features,
         NEW sdi \in sdrad_find_free_domain, MapNewDomain(udi, feature, sdi),
         UNCHANGED <<calls, active_domain, sdi_last_rsp>>,
         \A d \in Slot \ {sdi} : /\ sdi_buffer'[d] = sdi_buffer[d]
                                 /\ sdi_saved_ex'[d] = sdi_saved_ex[d]
  PROVE  CallChain'
<1>1. ASSUME NEW i \in 2 .. Len(calls)
      PROVE  calls[i] \in Slot /\ calls[i] # sdi
  BY ChainFacts, FreeFacts DEF OffChain
<1> QED
  BY <1>1, SameChain DEF IInv, TypeOK, MapNewDomain

(* The new domain's frame, if it saves one, is its creator's. *)
LEMMA MapNewDomainFrames ==
  ASSUME IInv, NoReturnToParent, NEW udi \in Udi, NEW feature \in Features,
         NEW sdi \in sdrad_find_free_domain, MapNewDomain(udi, feature, sdi),
         UNCHANGED calls,
         \A d \in Slot \ {sdi} : sdi_buffer'[d] = sdi_buffer[d],
         \/ sdi_buffer'[sdi] = Len(calls)
         \/ "DATA" \in feature /\ sdi_buffer'[sdi] = sdi_buffer[sdi]
  PROVE  OptionsKnown' /\ FrameOwner'
<1>1. OptionsKnown'
  BY DEF IInv, TypeOK, OptionsKnown, NoReturnToParent, MapNewDomain
<1>2. sdi \in Slot /\ active_domain = calls[Len(calls)]
  BY FreeFacts DEF IInv, CallChain
<1>3. ASSUME NEW d \in Slot PROVE OwnsFrame(d)'
  <2>1. CASE d = sdi
    <3>1. sdi_options'[sdi] = feature /\ sdi_parent_domain'[sdi] = active_domain
      BY <1>2 DEF IInv, TypeOK, MapNewDomain
    <3>2. sdi_buffer[sdi] <= Len(calls)
      BY <1>2 DEF IInv, FrameOwner, OwnsFrame
    <3> QED
      BY <1>2, <2>1, <3>1, <3>2, ChainFacts DEF OwnsFrame
  <2>2. CASE d # sdi
    <3>1. /\ sdi_options'[d] = sdi_options[d]
          /\ sdi_parent_domain'[d] = sdi_parent_domain[d]
      BY <1>2, <2>2 DEF IInv, TypeOK, MapNewDomain
    <3> QED
      BY <2>2, <3>1 DEF IInv, FrameOwner, OwnsFrame
  <2> QED
    BY <2>1, <2>2
<1> QED
  BY <1>1, <1>3 DEF FrameOwner

(* The cache keeps its type and its keys when its head is taken. *)
LEMMA TakenCache ==
  ASSUME IInv, cache # <<>>
  PROVE  /\ Head(cache) \in CacheEntry
         /\ Tail(cache) \in Seq(CacheEntry)
         /\ \A i \in DOMAIN Tail(cache) : Tail(cache)[i].key >= 3
<1>1. cache \in Seq(CacheEntry)
  BY DEF IInv, TypeOK
<1>2. Len(cache) \in Nat \ {0} /\ DOMAIN cache = 1 .. Len(cache)
  BY <1>1, LenProperties, EmptySeq
<1>3. /\ Head(cache) \in CacheEntry
      /\ Tail(cache) \in Seq(CacheEntry)
      /\ Len(Tail(cache)) = Len(cache) - 1
      /\ \A i \in 1 .. Len(Tail(cache)) : Tail(cache)[i] = cache[i + 1]
  BY <1>1, HeadTailProperties
<1>4. DOMAIN Tail(cache) = 1 .. Len(cache) - 1
  BY <1>3, LenProperties
<1> QED
  BY <1>2, <1>3, <1>4 DEF IInv, ReservedKeys

(* The new domain's key is none of the two reserved ones. *)
LEMMA MapNewDomainKeys ==
  ASSUME IInv, NEW udi \in Udi, NEW feature \in Features,
         NEW sdi \in sdrad_find_free_domain, MapNewDomain(udi, feature, sdi),
         UNCHANGED calls,
         cache' = cache \/ (cache # <<>> /\ cache' = Tail(cache))
  PROVE  ReservedKeys'
<1>1. /\ pdi' = [pdi EXCEPT ![sdi] = NewKey] /\ pdi \in [Slot -> Key]
      /\ NewKey >= 3
  BY MapNewDomainFacts DEF IInv, TypeOK, MapNewDomain
<1>2. sdi \in Slot /\ sdi >= DOMAIN_2 /\ OffChain(sdi)
  BY FreeFacts
<1>3. pdi'[MONITOR_DATA] = 1 /\ pdi'[ROOT_DOMAIN] = 2
  BY <1>1, <1>2, BaseAssumption
    DEF IInv, ReservedKeys, MONITOR_DATA, ROOT_DOMAIN, DOMAIN_2, Slot
<1>4. ASSUME NEW i \in DOMAIN udi_control' PROVE pdi'[udi_control'[i].sdi] >= 3
  <2>1. CASE udi_control'[i] = [udi |-> udi, sdi |-> sdi]
    BY <1>1, <1>2, <2>1
  <2>2. CASE i - 1 \in DOMAIN udi_control /\ udi_control'[i] = udi_control[i - 1]
    <3>1. udi_control[i - 1].sdi \in Slot
      BY <2>2, ListFacts DEF Node
    <3> QED
      BY <1>1, <1>2, <2>2, <3>1 DEF IInv, ReservedKeys
  <2> QED
    BY <2>1, <2>2, PushedList
<1>5. ASSUME NEW i \in 2 .. Len(calls) PROVE pdi'[calls[i]] >= 3
  BY <1>1, <1>2, ChainFacts DEF IInv, ReservedKeys, OffChain
<1>6. \A i \in DOMAIN cache' : cache'[i].key >= 3
  BY TakenCache DEF IInv, ReservedKeys
<1> QED
  BY <1>3, <1>4, <1>5, <1>6 DEF ReservedKeys

(* Rights for keys handed to applications leave the two reserved keys alone. *)
LEMMA SetAccessShut ==
  ASSUME NEW value \in Pkru, NEW key \in Key, key >= 3, NEW access \in Right
  PROVE  /\ sdrad_set_access_pdi(value, key, access)[1] = value[1]
         /\ sdrad_set_access_pdi(value, key, access)[2] = value[2]
BY BaseAssumption DEF sdrad_set_access_pdi, Pkru, Key

(* sdrad_pkru_default_config shuts the monitor's key and the root's for writing. *)
LEMMA DefaultShut ==
  ASSUME NEW key \in Key, key >= 3
  PROVE  /\ sdrad_pkru_default_config(key)[1] = 3
         /\ sdrad_pkru_default_config(key)[2] = PKEY_DISABLE_WRITE
<1>1. /\ PKRU_ALL_READ_ONLY_RD[1] = 3
      /\ PKRU_ALL_READ_ONLY_RD[2] = PKEY_DISABLE_WRITE
  BY BaseAssumption DEF PKRU_ALL_READ_ONLY_RD, Key
<1>2. 0 \in Right
  BY DEF Right
<1> QED
  BY <1>1, <1>2, PkruTypes, SetAccessShut DEF sdrad_pkru_default_config

(* No PKRU that matters is opened by sdrad_init. *)
LEMMA MapNewDomainShut ==
  ASSUME IInv, NEW udi \in Udi, NEW feature \in Features,
         NEW sdi \in sdrad_find_free_domain, MapNewDomain(udi, feature, sdi),
         UNCHANGED calls,
         \A d \in Slot \ {sdi} : Shut(d) => Shut(d)',
         "DATA" \in feature \/ Shut(sdi)'
  PROVE  ConfigsShut'
<1>1. sdi \in Slot /\ OffChain(sdi)
      /\ \A k \in DOMAIN udi_control : udi_control[k].sdi # sdi
  BY FreeFacts
<1>2. ASSUME NEW i \in DOMAIN calls PROVE Shut(calls[i])'
  BY <1>1, ChainFacts DEF IInv, ConfigsShut, OffChain, Shut
<1>3. /\ sdi_options' = [sdi_options EXCEPT ![sdi] = feature]
      /\ sdi_options \in [Slot -> SUBSET Flag]
  BY DEF MapNewDomain, IInv, TypeOK
<1>4. ASSUME NEW i \in DOMAIN udi_control',
             "DATA" \notin sdi_options'[udi_control'[i].sdi]
      PROVE  Shut(udi_control[i].sdi)'
  <2>1. CASE udi_control'[i] = [udi |-> udi, sdi |-> sdi]
    BY <1>1, <1>3, <1>4, <2>1 DEF Shut
  <2>2. CASE i - 1 \in DOMAIN udi_control /\ udi_control'[i] = udi_control[i - 1]
    <3>1. udi_control[i - 1].sdi \in Slot \ {sdi}
      BY <1>1, <2>2, ListFacts DEF Node
    <3>2. "DATA" \notin sdi_options[udi_control[i - 1].sdi]
      BY <1>3, <1>4, <2>2, <3>1
    <3>3. Shut(udi_control[i - 1].sdi)
      BY <2>2, <3>2 DEF IInv, ConfigsShut
    <3> QED
      BY <2>2, <3>1, <3>3 DEF Shut
  <2> QED
    BY <2>1, <2>2, PushedList
<1> QED
  BY <1>2, <1>4 DEF ConfigsShut

(* sdrad_init of a data domain, with all that it stores. *)
LEMMA InitDataPreserves ==
  ASSUME IInv, NoReturnToParent, NEW udi \in Udi, NEW feature \in Features,
         sdrad_init_data(udi, feature)
  PROVE  IInv'
<1>1. PICK sdi \in sdrad_find_free_domain :
        /\ MapNewDomain(udi, feature, sdi)
        /\ sdrad_data_domain_init(sdi, NewKey)
        /\ pkru_config' = [pkru_config EXCEPT ![active_domain] =
                             sdrad_set_access_pdi(@, NewKey, 0)]
        /\ pkru' = pkru_config'[active_domain]
  BY DEF sdrad_init_data
<1>2. /\ "DATA" \in feature
      /\ UNCHANGED <<active_domain, sdi_address_stack, sdi_saved_ex, sdi_buffer,
                     sdi_last_rsp, tlsf_structure, ctl, calls>>
  BY DEF sdrad_init_data
<1>3. NewKey \in Key /\ NewKey >= 3 /\ ctl = "app"
  BY <1>1, MapNewDomainFacts
<1>4. sdi \in Slot
  BY FreeFacts
<1>5. /\ cache' = cache \/ (cache # <<>> /\ cache' = Tail(cache))
      /\ mapped' \in Seq(Key)
      /\ sdi_tlsf' \in [Slot -> Nat]
      /\ sdi_init_heap_flag' \in [Slot -> BOOLEAN]
  <2>1. CASE cache # <<>> /\ Head(cache).heap # NULL
    BY <1>1, <1>4, <2>1, TakenCache
      DEF sdrad_data_domain_init, sdrad_delete_cache_domain, IInv, TypeOK, CacheEntry
  <2>2. CASE ~(cache # <<>> /\ Head(cache).heap # NULL)
    <3>1. CASE sdi_init_heap_flag[sdi]
      BY <1>1, <2>2, <3>1 DEF sdrad_data_domain_init, IInv, TypeOK
    <3>2. CASE ~sdi_init_heap_flag[sdi]
      BY <1>1, <1>3, <1>4, <2>2, <3>2, HeapInitFacts DEF sdrad_data_domain_init
    <3> QED
      BY <3>1, <3>2
  <2> QED
    BY <2>1, <2>2
<1>6. pkru_config' \in [Slot -> Pkru] /\ pkru' \in Pkru
  <2>1. pkru_config \in [Slot -> Pkru] /\ active_domain \in Slot /\ 0 \in Right
    BY DEF IInv, TypeOK, Right
  <2>2. sdrad_set_access_pdi(pkru_config[active_domain], NewKey, 0) \in Pkru
    BY <1>3, <2>1, SetAccessType
  <2> QED
    BY <1>1, <2>1, <2>2
<1>7. TypeOK'
  <2>1. cache' \in Seq(CacheEntry)
    BY <1>5, TakenCache DEF IInv, TypeOK
  <2> QED
    BY <1>1, <1>2, <1>5, <1>6, <2>1, MapNewDomainFacts DEF IInv, TypeOK
<1>8. CallChain' /\ OptionsKnown' /\ FrameOwner'
  BY <1>1, <1>2, MapNewDomainChain, MapNewDomainFrames
<1>9. ConfigsShut'
  <2>1. ASSUME NEW d \in Slot \ {sdi}, Shut(d) PROVE Shut(d)'
    <3>1. pkru_config \in [Slot -> Pkru] /\ 0 \in Right
      BY DEF IInv, TypeOK, Right
    <3> QED
      BY <1>1, <1>3, <2>1, <3>1, SetAccessShut DEF Shut
  <2> QED
    BY <1>1, <1>2, <2>1, MapNewDomainShut
<1> QED
  BY <1>1, <1>2, <1>3, <1>5, <1>7, <1>8, <1>9, MapNewDomainControl, MapNewDomainKeys
    DEF IInv, RewindAboveRoot

(* sdrad_init of an execution domain, with all that it stores. *)
LEMMA InitExecPreserves ==
  ASSUME IInv, NoReturnToParent, NEW udi \in Udi, NEW feature \in Features,
         sdrad_init_exec(udi, feature)
  PROVE  IInv'
<1>1. "TO_PARENT" \notin feature /\ "DATA" \notin feature
  BY DEF NoReturnToParent, sdrad_init_exec
<1>2. PICK sdi \in sdrad_find_free_domain :
        /\ MapNewDomain(udi, feature, sdi)
        /\ sdrad_execution_domain_init(sdi, NewKey)
        /\ pkru_config' = ConfigsForNew(sdi, feature)
        /\ pkru' = pkru_config'[active_domain]
        /\ SaveContext(sdi)
  BY <1>1 DEF sdrad_init_exec
<1>3. UNCHANGED <<active_domain, sdi_last_rsp, tlsf_structure, ctl, calls>>
  BY DEF sdrad_init_exec
<1>4. NewKey \in Key /\ NewKey >= 3 /\ ctl = "app"
  BY <1>2, MapNewDomainFacts
<1>5. sdi \in Slot /\ sdi >= DOMAIN_2 /\ sdi # active_domain
  BY FreeFacts, ChainFacts DEF OffChain, IInv, CallChain
<1>6. /\ cache' = cache \/ (cache # <<>> /\ cache' = Tail(cache))
      /\ mapped' \in Seq(Key)
      /\ sdi_address_stack' \in [Slot -> Nat]
      /\ sdi_tlsf' \in [Slot -> Nat]
      /\ sdi_init_heap_flag' \in [Slot -> BOOLEAN]
  <2>1. CASE cache # <<>>
    BY <1>2, <1>5, <2>1, TakenCache
      DEF sdrad_execution_domain_init, sdrad_delete_cache_domain, IInv, TypeOK, CacheEntry
  <2>2. CASE cache = <<>>
    <3>1. mapped \in Seq(Key) /\ Len(mapped) + 1 \in Nat
      BY LenProperties DEF IInv, TypeOK
    <3>2. Append(mapped, NewKey) \in Seq(Key)
      BY <1>4, <3>1, AppendProperties
    <3>3. /\ sdi_address_stack' = [sdi_address_stack EXCEPT ![sdi] = Len(mapped) + 1]
          /\ mapped' = Append(mapped, NewKey)
          /\ UNCHANGED <<cache, sdi_tlsf, sdi_init_heap_flag>>
      BY <1>2, <2>2 DEF sdrad_execution_domain_init
    <3> QED
      BY <3>1, <3>2, <3>3 DEF IInv, TypeOK
  <2> QED
    BY <2>1, <2>2
<1>7. /\ sdi_buffer' = [sdi_buffer EXCEPT ![sdi] = Len(calls)]
      /\ sdi_saved_ex' = [sdi_saved_ex EXCEPT ![sdi] = TRUE]
      /\ sdi_buffer \in [Slot -> Nat] /\ sdi_saved_ex \in [Slot -> BOOLEAN]
  BY <1>2 DEF SaveContext, IInv, TypeOK
<1>8. pkru_config \in [Slot -> Pkru] /\ active_domain \in Slot /\ 0 \in Right
  BY DEF IInv, TypeOK, Right
<1>9. /\ pkru_config'[sdi] = sdrad_pkru_default_config(NewKey)
      /\ \/ pkru_config'[active_domain] = pkru_config[active_domain]
         \/ pkru_config'[active_domain] =
              sdrad_set_access_pdi(pkru_config[active_domain], NewKey, 0)
      /\ \A d \in Slot \ {sdi, active_domain} : pkru_config'[d] = pkru_config[d]
      /\ DOMAIN pkru_config' = Slot
      /\ pkru_config' = [d \in Slot |-> pkru_config'[d]]
  BY <1>2, <1>5, <1>8 DEF ConfigsForNew
<1>10. pkru_config' \in [Slot -> Pkru] /\ pkru' \in Pkru
  <2>1. \A d \in Slot : pkru_config'[d] \in Pkru
    BY <1>4, <1>8, <1>9, PkruTypes, SetAccessType
  <2> QED
    BY <1>2, <1>8, <1>9, <2>1
<1>11. TypeOK'
  <2>1. cache' \in Seq(CacheEntry)
    BY <1>6, TakenCache DEF IInv, TypeOK
  <2>2. sdi_buffer' \in [Slot -> Nat] /\ sdi_saved_ex' \in [Slot -> BOOLEAN]
    BY <1>5, <1>7, ChainFacts
  <2> QED
    BY <1>2, <1>3, <1>6, <1>10, <2>1, <2>2, MapNewDomainFacts DEF IInv, TypeOK
<1>12. CallChain' /\ OptionsKnown' /\ FrameOwner'
  BY <1>2, <1>3, <1>5, <1>7, MapNewDomainChain, MapNewDomainFrames
<1>13. ConfigsShut'
  <2>1. ASSUME NEW d \in Slot \ {sdi}, Shut(d) PROVE Shut(d)'
    BY <1>4, <1>8, <1>9, <2>1, SetAccessShut DEF Shut
  <2>2. Shut(sdi)'
    BY <1>4, <1>9, DefaultShut DEF Shut
  <2> QED
    BY <1>2, <1>3, <2>1, <2>2, MapNewDomainShut
<1> QED
  BY <1>2, <1>3, <1>4, <1>6, <1>11, <1>12, <1>13, MapNewDomainControl, MapNewDomainKeys
    DEF IInv, RewindAboveRoot

-----------------------------------------------------------------------------
(* sdrad_enter and sdrad_exit: the chain grows and shrinks. *)

(* A domain entered from its parent is not on the chain yet, and the frame   *)
(* it saved is in the domain that enters it.                                 *)
LEMMA EnteredFacts ==
  ASSUME IInv, NEW udi, NEW sdi \in sdrad_search_udi_control(udi),
         Enterable(sdi), EntersOwnChild(sdi)
  PROVE  OffChain(sdi) /\ sdi_buffer[sdi] = Len(calls)
<1>1. /\ sdi \in Slot /\ sdi >= DOMAIN_2
      /\ sdi_parent_domain[sdi] = calls[Len(calls)]
  BY SearchFacts DEF IInv, CallChain, EntersOwnChild
<1>2. sdi_buffer[sdi] = Len(calls)
  <2>1. sdi_buffer[sdi] # 0 /\ sdi_buffer[sdi] \in Nat
    BY <1>1 DEF IInv, TypeOK, OptionsKnown, EntersOwnChild
  <2>2. /\ sdi_buffer[sdi] <= Len(calls)
        /\ sdi_parent_domain[sdi] = calls[sdi_buffer[sdi]]
    BY <1>1, <2>1 DEF IInv, FrameOwner, OwnsFrame, Enterable
  <2>3. sdi_buffer[sdi] \in DOMAIN calls /\ Len(calls) \in DOMAIN calls
    BY <2>1, <2>2, ChainFacts
  <2>4. \A i, j \in DOMAIN calls : i # j => calls[i] # calls[j]
    BY DEF IInv, CallChain
  <2> QED
    BY <1>1, <2>2, <2>3, <2>4
<1>3. ASSUME NEW i \in DOMAIN calls PROVE calls[i] # sdi
  <2>1. CASE i = 1
    BY <1>1, <2>1 DEF IInv, CallChain, ROOT_DOMAIN, DOMAIN_2
  <2>2. CASE i # 1
    <3>1. Linked(i) /\ i \in 2 .. Len(calls)
      BY <2>2, ChainFacts DEF IInv, CallChain
    <3>2. sdi_buffer[calls[i]] # Len(calls)
      BY <3>1, ChainFacts DEF Linked
    <3> QED
      BY <1>2, <3>2
  <2> QED
    BY <2>1, <2>2
<1> QED
  BY <1>2, <1>3 DEF OffChain

(* sdrad_enter links one more domain to the chain. *)
LEMMA EnterPreserves ==
  ASSUME IInv, NEW udi, sdrad_enter(udi)
  PROVE  IInv'
<1> USE DEF mgrVars
<1>1. PICK sdi \in sdrad_search_udi_control(udi) :
        /\ Enterable(sdi)
        /\ EntersOwnChild(sdi)
        /\ tlsf_structure' = sdi_tlsf[sdi]
        /\ active_domain' = sdi
        /\ sdi_last_rsp' = [sdi_last_rsp EXCEPT ![sdi_parent_domain[sdi]] = Len(calls)]
        /\ pkru' = pkru_config[sdi]
        /\ calls' = Append(calls, sdi)
  BY DEF sdrad_enter
<1>2. /\ ctl = "app"
      /\ UNCHANGED <<mgrVars, pkru_config, sdi_parent_domain, sdi_address_stack, sdi_tlsf,
                     sdi_init_heap_flag, sdi_saved_ex, sdi_options, sdi_buffer, mapped, ctl>>
  BY DEF sdrad_enter, App
<1>3. /\ \E k \in DOMAIN udi_control : udi_control[k].sdi = sdi
      /\ sdi \in Slot /\ sdi >= DOMAIN_2
      /\ status[sdi] # DOMAIN_NONOCCUPIED
      /\ pdi[sdi] >= 3
  BY SearchFacts
<1>4. /\ OffChain(sdi) /\ sdi_buffer[sdi] = Len(calls)
      /\ sdi_parent_domain[sdi] = calls[Len(calls)]
  BY <1>1, EnteredFacts DEF EntersOwnChild, IInv, CallChain
<1>5. /\ calls' \in Seq(Slot) /\ Len(calls') = Len(calls) + 1
      /\ DOMAIN calls' = 1 .. Len(calls) + 1
      /\ \A i \in 1 .. Len(calls) : calls'[i] = calls[i]
      /\ calls'[Len(calls) + 1] = sdi
  <2>1. calls \in Seq(Slot)
    BY DEF IInv, TypeOK
  <2> QED
    BY <1>1, <1>3, <2>1, AppendProperties, LenProperties
<1>6. TypeOK'
  BY <1>1, <1>2, <1>3, <1>5, ChainFacts DEF IInv, TypeOK
<1>7. ControlWellFormed' /\ ReservedSlots'
  BY <1>2 DEF IInv, ControlWellFormed, ReservedSlots
<1>8. CallChain'
  <2>1. \A i, j \in DOMAIN calls' : i # j => calls'[i] # calls'[j]
    BY <1>4, <1>5, ChainFacts DEF IInv, CallChain, OffChain
  <2>2. ASSUME NEW i \in 2 .. Len(calls') PROVE Linked(i)'
    <3>1. CASE i = Len(calls) + 1
      <4>1. calls'[i] = sdi /\ calls'[i - 1] = calls[Len(calls)] /\ i - 1 = Len(calls)
        BY <1>5, <3>1, ChainFacts
      <4>2. calls[Len(calls)] \in Slot /\ sdi_last_rsp \in [Slot -> Nat]
        <5>1. Len(calls) \in 1 .. Len(calls)
          BY ChainFacts
        <5>2. sdi_last_rsp \in [Slot -> Nat]
          BY DEF IInv, TypeOK
        <5> QED
          BY <5>1, <5>2, ChainFacts
      <4>3. sdi_last_rsp'[calls[Len(calls)]] = Len(calls)
        BY <1>1, <1>4, <4>2
      <4>4. "DATA" \notin sdi_options[sdi] /\ sdi_saved_ex[sdi]
        BY <1>1 DEF Enterable
      <4> QED
        BY <1>2, <1>3, <1>4, <4>1, <4>3, <4>4 DEF Linked
    <3>2. CASE i # Len(calls) + 1
      <4>1. Linked(i) /\ i \in 2 .. Len(calls)
        BY <1>5, <3>2, ChainFacts DEF IInv, CallChain
      <4>2. calls[i - 1] # calls[Len(calls)] /\ calls[i - 1] \in Slot
        BY <4>1, ChainFacts DEF IInv, CallChain
      <4>3. calls'[i] = calls[i] /\ calls'[i - 1] = calls[i - 1]
        BY <1>5, <4>1, ChainFacts
      <4> QED
        BY <1>1, <1>2, <1>4, <4>1, <4>2, <4>3 DEF IInv, TypeOK, Linked
    <3> QED
      BY <3>1, <3>2
  <2> QED
    BY <1>1, <1>5, <2>1, <2>2, ChainFacts DEF IInv, CallChain
<1>9. OptionsKnown' /\ FrameOwner'
  <2>1. ASSUME NEW d \in Slot PROVE OwnsFrame(d)'
    <3>1. sdi_buffer[d] \in Nat
      BY DEF IInv, TypeOK
    <3> QED
      BY <1>2, <1>5, <3>1, ChainFacts DEF IInv, FrameOwner, OwnsFrame
  <2> QED
    BY <1>2, <2>1 DEF IInv, OptionsKnown, FrameOwner
<1>10. ReservedKeys'
  <2>1. ASSUME NEW i \in 2 .. Len(calls') PROVE pdi'[calls'[i]] >= 3
    BY <1>2, <1>3, <1>5, ChainFacts DEF IInv, ReservedKeys
  <2> QED
    BY <1>2, <2>1 DEF IInv, ReservedKeys
<1>11. ConfigsShut'
  <2>1. Shut(sdi)
    BY <1>1, <1>3 DEF IInv, ConfigsShut, Enterable
  <2>2. ASSUME NEW i \in DOMAIN calls' PROVE Shut(calls[i])'
    BY <1>2, <1>5, <2>1, ChainFacts DEF IInv, ConfigsShut, Shut
  <2>3. ASSUME NEW i \in DOMAIN udi_control', "DATA" \notin sdi_options'[udi_control'[i].sdi]
        PROVE  Shut(udi_control[i].sdi)'
    BY <1>2, <2>3 DEF IInv, ConfigsShut, Shut
  <2> QED
    BY <2>2, <2>3 DEF ConfigsShut
<1>12. RewindAboveRoot'
  BY <1>2 DEF RewindAboveRoot
<1> QED
  BY <1>6, <1>7, <1>8, <1>9, <1>10, <1>11, <1>12 DEF IInv

(* Cutting the top off the chain: sdrad_exit and the rewind. *)
LEMMA CutChain ==
  ASSUME IInv, Len(calls) > 1,
         calls' = SubSeq(calls, 1, Len(calls) - 1),
         sdi_buffer' = FramesUpTo(Len(calls) - 1),
         active_domain' = sdi_parent_domain[active_domain],
         UNCHANGED <<sdi_parent_domain, sdi_last_rsp, sdi_saved_ex, sdi_options>>,
         \A i \in 2 .. Len(calls) - 1 : status'[calls[i]] # DOMAIN_NONOCCUPIED
  PROVE  /\ calls' \in Seq(Slot) /\ Len(calls') = Len(calls) - 1
         /\ DOMAIN calls' = 1 .. Len(calls) - 1
         /\ \A i \in 1 .. Len(calls) - 1 : calls'[i] = calls[i]
         /\ sdi_buffer' \in [Slot -> Nat]
         /\ CallChain' /\ FrameOwner'
<1>1. calls \in Seq(Slot) /\ Len(calls) - 1 \in 0 .. Len(calls)
  <2>1. calls \in Seq(Slot)
    BY DEF IInv, TypeOK
  <2> QED
    BY <2>1, ChainFacts
<1>2. /\ calls' \in Seq(Slot) /\ Len(calls') = Len(calls) - 1
      /\ \A i \in 1 .. Len(calls) - 1 : calls'[i] = calls[i]
  BY <1>1, CutProperties
<1>3. DOMAIN calls' = 1 .. Len(calls) - 1
  BY <1>2, LenProperties
<1>4. sdi_buffer' \in [Slot -> Nat]
  BY DEF IInv, TypeOK, FramesUpTo
<1>5. CallChain'
  <2>1. active_domain' = calls'[Len(calls')]
    <3>1. Linked(Len(calls)) /\ active_domain = calls[Len(calls)]
      BY ChainFacts DEF IInv, CallChain
    <3> QED
      BY <1>2, <3>1, ChainFacts DEF Linked
  <2>2. \A i, j \in DOMAIN calls' : i # j => calls'[i] # calls'[j]
    BY <1>2, <1>3, ChainFacts DEF IInv, CallChain
  <2>3. ASSUME NEW i \in 2 .. Len(calls') PROVE Linked(i)'
    <3>1. Linked(i)
      BY <1>2, ChainFacts DEF IInv, CallChain
    <3>2. calls'[i] = calls[i] /\ calls'[i - 1] = calls[i - 1] /\ calls[i] \in Slot
      BY <1>2, ChainFacts
    <3>3. sdi_buffer'[calls[i]] = sdi_buffer[calls[i]]
      BY <1>2, <3>1, <3>2, ChainFacts DEF FramesUpTo, Linked
    <3> QED
      BY <1>2, <3>1, <3>2, <3>3, ChainFacts DEF Linked
  <2> QED
    BY <1>2, <1>3, <2>1, <2>2, <2>3, ChainFacts DEF IInv, CallChain
<1>6. ASSUME NEW d \in Slot PROVE OwnsFrame(d)'
  <2>1. sdi_buffer[d] \in Nat
    BY DEF IInv, TypeOK
  <2>2. sdi_buffer'[d] = IF sdi_buffer[d] > Len(calls) - 1 THEN 0 ELSE sdi_buffer[d]
    BY DEF FramesUpTo
  <2> QED
    BY <1>2, <2>1, <2>2, ChainFacts DEF IInv, FrameOwner, OwnsFrame
<1> QED
  BY <1>2, <1>3, <1>4, <1>5, <1>6 DEF FrameOwner

(* sdrad_exit takes the top off the chain. *)
LEMMA ExitPreserves ==
  ASSUME IInv, sdrad_exit
  PROVE  IInv'
<1> USE DEF mgrVars
<1>1. Len(calls) > 1 /\ ctl = "app"
  BY DEF sdrad_exit, App
<1>2. sdi_last_rsp[sdi_parent_domain[active_domain]] = Len(calls) - 1
  <2>1. Linked(Len(calls)) /\ active_domain = calls[Len(calls)]
    BY <1>1, ChainFacts DEF IInv, CallChain
  <2> QED
    BY <2>1 DEF Linked
<1>3. /\ calls' = SubSeq(calls, 1, Len(calls) - 1)
      /\ sdi_buffer' = FramesUpTo(Len(calls) - 1)
      /\ Resume(sdi_parent_domain[active_domain])
  BY <1>2 DEF sdrad_exit
<1>4. UNCHANGED <<mgrVars, pkru_config, sdi_parent_domain, sdi_address_stack, sdi_tlsf,
                  sdi_init_heap_flag, sdi_saved_ex, sdi_options, sdi_last_rsp,
                  mapped, ctl>>
  BY DEF sdrad_exit
<1>5. \A i \in 2 .. Len(calls) - 1 : status'[calls[i]] # DOMAIN_NONOCCUPIED
  BY <1>4, ChainFacts DEF IInv, CallChain, Linked
<1>6. active_domain' = sdi_parent_domain[active_domain]
  BY <1>3 DEF Resume
<1>7. /\ calls' \in Seq(Slot) /\ Len(calls') = Len(calls) - 1
      /\ DOMAIN calls' = 1 .. Len(calls) - 1
      /\ \A i \in 1 .. Len(calls) - 1 : calls'[i] = calls[i]
      /\ sdi_buffer' \in [Slot -> Nat]
      /\ CallChain' /\ FrameOwner'
  BY <1>1, <1>3, <1>4, <1>5, <1>6, CutChain
<1>8. TypeOK'
  <2>1. active_domain' \in Slot /\ tlsf_structure' \in Nat /\ pkru' \in Pkru
    BY <1>3 DEF IInv, TypeOK, Resume
  <2> QED
    BY <1>4, <1>7, <2>1 DEF IInv, TypeOK
<1>9. ControlWellFormed' /\ ReservedSlots' /\ OptionsKnown'
  BY <1>4 DEF IInv, ControlWellFormed, ReservedSlots, OptionsKnown
<1>10. ReservedKeys'
  BY <1>4, <1>7, ChainFacts DEF IInv, ReservedKeys
<1>11. ConfigsShut'
  <2>1. ASSUME NEW i \in DOMAIN calls' PROVE Shut(calls[i])'
    <3>1. i \in DOMAIN calls /\ calls'[i] = calls[i]
      BY <1>7, ChainFacts
    <3>2. Shut(calls[i])
      BY <3>1 DEF IInv, ConfigsShut
    <3> QED
      BY <1>4, <3>1, <3>2 DEF Shut
  <2> QED
    BY <1>4, <2>1 DEF IInv, ConfigsShut, Shut
<1>12. RewindAboveRoot'
  BY <1>1, <1>4 DEF RewindAboveRoot
<1> QED
  BY <1>7, <1>8, <1>9, <1>10, <1>11, <1>12 DEF IInv

-----------------------------------------------------------------------------
(* A domain leaves the list for the cache: sdrad_destroy and the rewind. *)

(* The list without the node. *)
LEMMA RemovedFacts ==
  ASSUME IInv, NEW sdi,
         udi_control' = sdrad_delete_control_structure(udi_control, sdi)
  PROVE  /\ udi_control' \in Seq(Node)
         /\ \A i, j \in DOMAIN udi_control' : i # j =>
              /\ udi_control'[i].udi # udi_control'[j].udi
              /\ udi_control'[i].sdi # udi_control'[j].sdi
         /\ \A i \in DOMAIN udi_control' :
              /\ udi_control'[i].sdi # sdi
              /\ \E p \in DOMAIN udi_control : udi_control'[i] = udi_control[p]
<1>1. udi_control \in Seq(Node)
  BY DEF IInv, TypeOK
<1>2. \A p, q \in DOMAIN udi_control : p # q =>
        /\ udi_control[p].udi # udi_control[q].udi
        /\ udi_control[p].sdi # udi_control[q].sdi
  BY DEF IInv, ControlWellFormed
<1> DEFINE rest == sdrad_delete_control_structure(udi_control, sdi)
<1>3. /\ rest \in Seq(Node)
      /\ \A i, j \in DOMAIN rest : i # j =>
           \E p, q \in DOMAIN udi_control :
             p # q /\ rest[i] = udi_control[p] /\ rest[j] = udi_control[q]
      /\ \A i \in DOMAIN rest : \E p \in DOMAIN udi_control : rest[i] = udi_control[p]
      /\ \A i \in DOMAIN rest : rest[i].sdi # sdi
  <2>1. \A p, q \in DOMAIN udi_control : p # q => udi_control[p].sdi # udi_control[q].sdi
    BY <1>2
  <2> QED
    <3>1. Without(Node, udi_control, rest, sdi)
      BY <1>1, DeleteProperties
    <3> HIDE DEF rest
    <3> QED
      BY <2>1, <3>1 DEF Without
<1>4. udi_control' = rest
  OBVIOUS
<1> HIDE DEF rest
<1>5. ASSUME NEW i \in DOMAIN rest, NEW j \in DOMAIN rest, i # j
      PROVE  rest[i].udi # rest[j].udi /\ rest[i].sdi # rest[j].sdi
  BY <1>2, <1>3, <1>5
<1> QED
  BY <1>3, <1>4, <1>5

(* The cache with one more entry. *)
LEMMA CachedFacts ==
  ASSUME IInv, NEW entry \in CacheEntry, entry.key >= 3, cache' = <<entry>> \o cache
  PROVE  /\ cache' \in Seq(CacheEntry)
         /\ \A i \in DOMAIN cache' : cache'[i].key >= 3
<1>1. cache \in Seq(CacheEntry)
  BY DEF IInv, TypeOK
<1>2. /\ cache' \in Seq(CacheEntry)
      /\ Len(cache') = Len(cache) + 1
      /\ \A i \in 1 .. Len(cache) + 1 :
           cache'[i] = IF i = 1 THEN entry ELSE cache[i - 1]
  BY <1>1, PushProperties
<1>3. DOMAIN cache' = 1 .. Len(cache) + 1 /\ DOMAIN cache = 1 .. Len(cache) /\ Len(cache) \in Nat
  BY <1>1, <1>2, LenProperties
<1> QED
  BY <1>2, <1>3 DEF IInv, ReservedKeys

(* sdrad_dprotect gives rights to a listed domain's key only. *)
LEMMA DprotectPreserves ==
  ASSUME IInv, NEW udi, NEW source_udi, NEW access_status \in Access,
         sdrad_dprotect(udi, source_udi, access_status)
  PROVE  IInv'
<1> USE DEF mgrVars, infoVars
<1>1. PICK sdi \in DprotectSlot(udi), source \in sdrad_search_udi_control(source_udi) :
        /\ pkru_config' = [pkru_config EXCEPT ![sdi] =
                             sdrad_set_access_pdi(@, pdi[source], access_status)]
        /\ pkru' = IF sdi = ROOT_DOMAIN THEN pkru_config'[ROOT_DOMAIN]
                                        ELSE pkru_config'[active_domain]
  BY DEF sdrad_dprotect
<1>2. /\ ctl = "app"
      /\ UNCHANGED <<mgrVars, infoVars, active_domain, tlsf_structure, mapped, ctl, calls>>
  BY DEF sdrad_dprotect, App
<1>3. ROOT_DOMAIN \in Slot
  BY BaseAssumption DEF ROOT_DOMAIN, Slot
<1>4. sdi \in Slot
  BY <1>3, SearchFacts DEF DprotectSlot
<1>5. pdi[source] \in Key /\ pdi[source] >= 3 /\ access_status \in Right
  BY SearchFacts, DomainsAssumption
<1>6. pkru_config \in [Slot -> Pkru] /\ active_domain \in Slot
  BY DEF IInv, TypeOK
<1>7. pkru_config' \in [Slot -> Pkru] /\ pkru' \in Pkru
  <2>1. sdrad_set_access_pdi(pkru_config[sdi], pdi[source], access_status) \in Pkru
    BY <1>4, <1>5, <1>6, SetAccessType
  <2> QED
    BY <1>1, <1>3, <1>4, <1>6, <2>1
<1>8. ASSUME NEW d \in Slot, Shut(d) PROVE Shut(d)'
  BY <1>1, <1>4, <1>5, <1>6, <1>8, SetAccessShut DEF Shut
<1>9. TypeOK'
  BY <1>2, <1>7 DEF IInv, TypeOK
<1>10. ControlWellFormed' /\ ReservedSlots' /\ OptionsKnown' /\ FrameOwner'
  BY <1>2 DEF IInv, ControlWellFormed, ReservedSlots, OptionsKnown, FrameOwner, OwnsFrame
<1>11. CallChain'
  BY <1>2, SameChain
<1>12. ReservedKeys'
  BY <1>2 DEF IInv, ReservedKeys
<1>13. ConfigsShut'
  <2>1. ASSUME NEW i \in DOMAIN calls' PROVE Shut(calls[i])'
    BY <1>2, <1>8, ChainFacts DEF IInv, ConfigsShut, Shut
  <2>2. ASSUME NEW i \in DOMAIN udi_control', "DATA" \notin sdi_options'[udi_control'[i].sdi]
        PROVE  Shut(udi_control[i].sdi)'
    <3>1. udi_control[i].sdi \in Slot
      BY <1>2, ListFacts DEF Node
    <3>2. Shut(udi_control[i].sdi)
      BY <1>2, <2>2 DEF IInv, ConfigsShut
    <3> QED
      BY <1>2, <1>8, <3>1, <3>2 DEF Shut
  <2> QED
    BY <2>1, <2>2 DEF ConfigsShut
<1>14. RewindAboveRoot'
  BY <1>2 DEF RewindAboveRoot
<1> QED
  BY <1>9, <1>10, <1>11, <1>12, <1>13, <1>14 DEF IInv

(* sdrad_destroy caches a domain that is off the chain, even when it faults. *)
LEMMA DestroyPreserves ==
  ASSUME IInv, NEW udi, NEW options, sdrad_destroy(udi, options)
  PROVE  IInv'
<1> DEFINE merge(sdi) == sdi_init_heap_flag[sdi] /\ options = "HEAP_MERGE"
           entry(sdi) ==
             [stack |-> sdi_address_stack[sdi],
              heap  |-> IF sdi_init_heap_flag[sdi] /\ ~merge(sdi) THEN sdi_tlsf[sdi] ELSE NULL,
              key   |-> pdi[sdi]]
           MergeFault(sdi) == merge(sdi) /\ sdi_tlsf[sdi_parent_domain[sdi]] = NULL
<1>1. PICK sdi \in sdrad_search_udi_control(udi) :
        /\ OffChain(sdi)
        /\ cache' = <<entry(sdi)>> \o cache
        /\ IF MergeFault(sdi)
             THEN /\ pkru' = PKRU_ALL_UNSET
                  /\ ctl' = "fault"
                  /\ UNCHANGED <<pdi, udi_control, heapVars>>
             ELSE /\ pdi' = [pdi EXCEPT ![sdi] = 0]
                  /\ udi_control' = sdrad_delete_control_structure(udi_control, sdi)
                  /\ pkru' = pkru_config[active_domain]
                  /\ IF FreeFaults(udi_control, sdi)
                       THEN CreateActiveHeap(active_domain) /\ ctl' = "fault"
                       ELSE UNCHANGED <<heapVars, ctl>>
  BY DEF sdrad_destroy
<1>2. /\ ctl = "app"
      /\ UNCHANGED <<status, next_pkey, active_domain, pkru_config, sdi_parent_domain,
                     sdi_address_stack, sdi_saved_ex, sdi_options, sdi_buffer,
                     sdi_last_rsp, calls>>
  BY DEF sdrad_destroy, App
<1>3. sdi \in Slot /\ sdi >= DOMAIN_2 /\ pdi[sdi] \in Key /\ pdi[sdi] >= 3
  BY SearchFacts
<1>4. cache' \in Seq(CacheEntry) /\ \A i \in DOMAIN cache' : cache'[i].key >= 3
  <2>1. entry(sdi) \in CacheEntry /\ entry(sdi).key >= 3
    BY <1>3 DEF IInv, TypeOK, CacheEntry, NULL
  <2> HIDE DEF entry
  <2> QED
    BY <1>1, <2>1, CachedFacts
<1> HIDE DEF entry, MergeFault
<1>5. /\ ctl' \in {"app", "fault"}
      /\ mapped' \in Seq(Key)
      /\ sdi_tlsf' \in [Slot -> Nat]
      /\ sdi_init_heap_flag' \in [Slot -> BOOLEAN]
      /\ tlsf_structure' \in Nat
      /\ pkru' \in Pkru
  <2>1. active_domain \in Slot /\ pkru_config[active_domain] \in Pkru
    BY DEF IInv, TypeOK
  <2>2. pkru' \in Pkru /\ ctl' \in {"app", "fault"}
    BY <1>1, <1>2, <2>1, PkruTypes DEF heapVars
  <2>3. CASE UNCHANGED heapVars
    BY <2>2, <2>3 DEF IInv, TypeOK, heapVars
  <2>4. CASE CreateActiveHeap(active_domain)
    BY <2>1, <2>2, <2>4, ActiveHeapFacts
  <2> QED
    BY <1>1, <2>3, <2>4
<1>6. \/ UNCHANGED <<pdi, udi_control>>
      \/ /\ pdi' = [pdi EXCEPT ![sdi] = 0]
         /\ udi_control' = sdrad_delete_control_structure(udi_control, sdi)
  BY <1>1
<1>7. pdi' \in [Slot -> Key] /\ udi_control' \in Seq(Node)
  <2>1. 0 \in Key /\ pdi \in [Slot -> Key] /\ udi_control \in Seq(Node)
    BY BaseAssumption DEF Key, IInv, TypeOK
  <2> QED
    BY <1>3, <1>6, <2>1, RemovedFacts
<1>8. TypeOK'
  BY <1>2, <1>4, <1>5, <1>7 DEF IInv, TypeOK, Control
<1>9. ControlWellFormed' /\ ReservedSlots'
  <2>1. CASE UNCHANGED udi_control
    BY <1>2, <2>1 DEF IInv, ControlWellFormed, ReservedSlots
  <2>2. CASE udi_control' = sdrad_delete_control_structure(udi_control, sdi)
    BY <1>2, <2>2, RemovedFacts DEF IInv, ControlWellFormed, ReservedSlots
  <2> QED
    BY <1>6, <2>1, <2>2
<1>10. CallChain'
  BY <1>2, SameChain
<1>11. OptionsKnown' /\ FrameOwner'
  BY <1>2 DEF IInv, OptionsKnown, FrameOwner, OwnsFrame
<1>12. ReservedKeys'
  <2>1. CASE UNCHANGED <<pdi, udi_control>>
    BY <1>2, <1>4, <2>1 DEF IInv, ReservedKeys
  <2>2. CASE /\ pdi' = [pdi EXCEPT ![sdi] = 0]
             /\ udi_control' = sdrad_delete_control_structure(udi_control, sdi)
    <3>1. pdi \in [Slot -> Key]
      BY DEF IInv, TypeOK
    <3>2. pdi'[MONITOR_DATA] = 1 /\ pdi'[ROOT_DOMAIN] = 2
      BY <1>3, <2>2, <3>1, BaseAssumption
        DEF IInv, ReservedKeys, MONITOR_DATA, ROOT_DOMAIN, DOMAIN_2, Slot
    <3>3. ASSUME NEW i \in DOMAIN udi_control' PROVE pdi'[udi_control'[i].sdi] >= 3
      <4>1. PICK p \in DOMAIN udi_control : udi_control'[i] = udi_control[p]
        BY <2>2, RemovedFacts
      <4>2. udi_control[p].sdi \in Slot /\ udi_control[p].sdi # sdi
        BY <2>2, <4>1, RemovedFacts, ListFacts DEF Node
      <4> QED
        BY <2>2, <3>1, <4>1, <4>2 DEF IInv, ReservedKeys
    <3>4. ASSUME NEW i \in 2 .. Len(calls) PROVE pdi'[calls[i]] >= 3
      BY <1>1, <2>2, <3>1, ChainFacts DEF IInv, ReservedKeys, OffChain
    <3> QED
      BY <1>2, <1>4, <3>2, <3>3, <3>4 DEF ReservedKeys
  <2> QED
    BY <1>6, <2>1, <2>2
<1>13. ConfigsShut'
  <2>1. ASSUME NEW i \in DOMAIN calls' PROVE Shut(calls[i])'
    BY <1>2 DEF IInv, ConfigsShut, Shut
  <2>2. ASSUME NEW i \in DOMAIN udi_control', "DATA" \notin sdi_options'[udi_control'[i].sdi]
        PROVE  Shut(udi_control[i].sdi)'
    <3>1. PICK p \in DOMAIN udi_control : udi_control'[i] = udi_control[p]
      BY <1>6, RemovedFacts
    <3> QED
      BY <1>2, <2>2, <3>1 DEF IInv, ConfigsShut, Shut
  <2> QED
    BY <2>1, <2>2 DEF ConfigsShut
<1>14. RewindAboveRoot'
  BY <1>5 DEF RewindAboveRoot
<1> QED
  BY <1>8, <1>9, <1>10, <1>11, <1>12, <1>13, <1>14 DEF IInv

(* The rewind: the top of the chain is destroyed and the domain below it     *)
(* resumes, or faults in its turn.                                           *)
LEMMA RewindPreserves ==
  ASSUME IInv, sdrad_init_destroy
  PROVE  IInv'
<1> DEFINE sdi == active_domain
<1>1. /\ Len(calls) > 1
      /\ "TO_PARENT" \notin sdi_options[sdi]
      /\ UNCHANGED <<pdi, next_pkey, pkru_config, sdi_parent_domain, sdi_address_stack,
                     sdi_saved_ex, sdi_options, sdi_last_rsp>>
  BY ChainFacts DEF IInv, RewindAboveRoot, OptionsKnown, sdrad_init_destroy
<1>2. /\ cache' = <<RewoundEntry(sdi, pdi[sdi])>> \o cache
      /\ udi_control' = sdrad_delete_control_structure(udi_control, sdi)
      /\ IF FreeFaults(udi_control, sdi)
           THEN RewindFaults(sdi_parent_domain[sdi], sdi_buffer[sdi])
           ELSE RewindCompletes(sdi, sdi_buffer[sdi])
  BY <1>1 DEF sdrad_init_destroy, RewindToCurrent, RewindToParent
<1>3. /\ sdi = calls[Len(calls)] /\ Linked(Len(calls)) /\ sdi \in Slot
      /\ \A i \in 1 .. Len(calls) - 1 : calls[i] # sdi
  BY <1>1, ChainFacts DEF IInv, CallChain
<1>4. /\ sdi_buffer[sdi] = Len(calls) - 1 /\ sdi >= DOMAIN_2
      /\ sdi_parent_domain[sdi] \in Slot
      /\ pdi[sdi] \in Key /\ pdi[sdi] >= 3
  <2>1. sdi_buffer[sdi] = Len(calls) - 1 /\ sdi >= DOMAIN_2
    BY <1>3 DEF Linked
  <2>2. sdi_parent_domain[sdi] \in Slot /\ pdi[sdi] \in Key
    BY <1>3 DEF IInv, TypeOK
  <2>3. pdi[sdi] >= 3
    BY <1>1, <1>3, ChainFacts DEF IInv, ReservedKeys
  <2> QED
    BY <2>1, <2>2, <2>3
<1>5. /\ active_domain' = sdi_parent_domain[sdi]
      /\ calls' = SubSeq(calls, 1, Len(calls) - 1)
      /\ sdi_buffer' = FramesUpTo(Len(calls) - 1)
      /\ ctl' \in {"app", "fault"}
      /\ status' = status \/ FreeRewoundSlot(sdi)
  BY <1>2, <1>4 DEF RewindFaults, RewindCompletes, Resume
<1>6. /\ mapped' \in Seq(Key)
      /\ sdi_tlsf' \in [Slot -> Nat]
      /\ sdi_init_heap_flag' \in [Slot -> BOOLEAN]
      /\ tlsf_structure' \in Nat
      /\ pkru' \in Pkru
  <2>1. pkru_config[sdi_parent_domain[sdi]] \in Pkru /\ sdi_tlsf[sdi_parent_domain[sdi]] \in Nat
    BY <1>4 DEF IInv, TypeOK
  <2>2. CASE RewindFaults(sdi_parent_domain[sdi], sdi_buffer[sdi])
    BY <1>4, <2>1, <2>2, ActiveHeapFacts DEF RewindFaults
  <2>3. CASE RewindCompletes(sdi, sdi_buffer[sdi])
    BY <2>1, <2>3 DEF RewindCompletes, Resume, IInv, TypeOK
  <2> QED
    BY <1>2, <2>2, <2>3
<1>7. cache' \in Seq(CacheEntry) /\ \A i \in DOMAIN cache' : cache'[i].key >= 3
  <2>1. RewoundEntry(sdi, pdi[sdi]) \in CacheEntry /\ RewoundEntry(sdi, pdi[sdi]).key >= 3
    BY <1>3, <1>4 DEF RewoundEntry, IInv, TypeOK, CacheEntry, NULL
  <2> QED
    BY <1>2, <2>1, CachedFacts
<1>8. /\ udi_control' \in Seq(Node)
      /\ \A i, j \in DOMAIN udi_control' : i # j =>
           /\ udi_control'[i].udi # udi_control'[j].udi
           /\ udi_control'[i].sdi # udi_control'[j].sdi
      /\ \A i \in DOMAIN udi_control' :
           /\ udi_control'[i].sdi # sdi
           /\ \E p \in DOMAIN udi_control : udi_control'[i] = udi_control[p]
  BY <1>2, RemovedFacts
<1>9. /\ status' \in [Slot -> {0, DOMAIN_OCCUPIED, DOMAIN_NONOCCUPIED}]
      /\ \A d \in Slot \ {sdi} : status[d] # DOMAIN_NONOCCUPIED => status'[d] # DOMAIN_NONOCCUPIED
  <2>1. status \in [Slot -> {0, DOMAIN_OCCUPIED, DOMAIN_NONOCCUPIED}]
    BY DEF IInv, TypeOK
  <2>2. OverwrittenSlot \in Slot
    BY BaseAssumption DEF OverwrittenSlot, Slot
  <2> QED
    BY <1>3, <1>5, <2>1, <2>2 DEF FreeRewoundSlot, DOMAIN_NONOCCUPIED
<1>10. /\ calls' \in Seq(Slot) /\ Len(calls') = Len(calls) - 1
       /\ DOMAIN calls' = 1 .. Len(calls) - 1
       /\ \A i \in 1 .. Len(calls) - 1 : calls'[i] = calls[i]
       /\ sdi_buffer' \in [Slot -> Nat]
       /\ CallChain' /\ FrameOwner'
  <2>1. ASSUME NEW i \in 2 .. Len(calls) - 1 PROVE status'[calls[i]] # DOMAIN_NONOCCUPIED
    <3>1. i \in 2 .. Len(calls) /\ calls[i] \in Slot \ {sdi}
      BY <1>3, ChainFacts
    <3>2. status[calls[i]] # DOMAIN_NONOCCUPIED
      BY <3>1 DEF IInv, CallChain, Linked
    <3> QED
      BY <1>9, <3>1, <3>2
  <2> QED
    BY <1>1, <1>5, <2>1, CutChain
<1>11. TypeOK'
  BY <1>1, <1>4, <1>5, <1>6, <1>7, <1>8, <1>9, <1>10 DEF IInv, TypeOK, Control
<1>12. ControlWellFormed'
  <2>1. ASSUME NEW i \in DOMAIN udi_control'
        PROVE  /\ udi_control'[i].sdi >= DOMAIN_2
               /\ status'[udi_control'[i].sdi] # DOMAIN_NONOCCUPIED
    <3>1. PICK p \in DOMAIN udi_control : udi_control'[i] = udi_control[p]
      BY <1>8
    <3>2. udi_control[p].sdi \in Slot /\ udi_control[p].sdi # sdi
      BY <1>8, <3>1, ListFacts DEF Node
    <3> QED
      BY <1>9, <3>1, <3>2 DEF IInv, ControlWellFormed
  <2> QED
    BY <1>8, <2>1 DEF ControlWellFormed
<1>13. ReservedSlots' /\ OptionsKnown'
  <2>1. /\ MONITOR_DATA \in Slot \ {sdi} /\ ROOT_DOMAIN \in Slot \ {sdi}
    BY <1>4, BaseAssumption DEF MONITOR_DATA, ROOT_DOMAIN, DOMAIN_2, Slot
  <2> QED
    BY <1>1, <1>9, <2>1 DEF IInv, ReservedSlots, OptionsKnown
<1>14. ReservedKeys'
  <2>1. ASSUME NEW i \in 2 .. Len(calls') PROVE pdi'[calls'[i]] >= 3
    <3>1. i \in 2 .. Len(calls) /\ calls'[i] = calls[i]
      BY <1>10, ChainFacts
    <3> QED
      BY <1>1, <3>1 DEF IInv, ReservedKeys
  <2>2. ASSUME NEW i \in DOMAIN udi_control' PROVE pdi'[udi_control'[i].sdi] >= 3
    BY <1>1, <1>8 DEF IInv, ReservedKeys
  <2> QED
    BY <1>1, <1>7, <2>1, <2>2 DEF IInv, ReservedKeys
<1>15. ConfigsShut'
  <2>1. ASSUME NEW i \in DOMAIN calls' PROVE Shut(calls[i])'
    <3>1. i \in DOMAIN calls /\ calls'[i] = calls[i]
      BY <1>10, ChainFacts
    <3> QED
      BY <1>1, <3>1 DEF IInv, ConfigsShut, Shut
  <2>2. ASSUME NEW i \in DOMAIN udi_control', "DATA" \notin sdi_options'[udi_control'[i].sdi]
        PROVE  Shut(udi_control[i].sdi)'
    <3>1. PICK p \in DOMAIN udi_control : udi_control'[i] = udi_control[p]
      BY <1>8
    <3> QED
      BY <1>1, <2>2, <3>1 DEF IInv, ConfigsShut, Shut
  <2> QED
    BY <2>1, <2>2 DEF ConfigsShut
<1>16. RewindAboveRoot'
  BY <1>5 DEF RewindAboveRoot
<1> QED
  BY <1>10, <1>11, <1>12, <1>13, <1>14, <1>15, <1>16 DEF IInv

-----------------------------------------------------------------------------
(* The theorems *)

(* sdrad_constructor establishes the invariant. *)
LEMMA InitIInv ==
  ASSUME Init
  PROVE  IInv
<1> USE BaseAssumption
<1>1. /\ Slot \subseteq Nat /\ MONITOR_DATA \in Slot /\ ROOT_DOMAIN \in Slot
      /\ {0, 1, 2} \subseteq Key
  BY DEF Slot, MONITOR_DATA, ROOT_DOMAIN, Key
<1>2. /\ calls = <<ROOT_DOMAIN>> /\ calls \in Seq(Slot) /\ Len(calls) = 1
      /\ DOMAIN calls = {1} /\ calls[1] = ROOT_DOMAIN
  BY <1>1 DEF Init
<1>3. udi_control = <<>> /\ DOMAIN udi_control = {} /\ cache = <<>> /\ DOMAIN cache = {}
  BY DEF Init
<1>4. TypeOK
  <2>1. pkru \in Pkru /\ pkru_config \in [Slot -> Pkru]
    BY <1>1, PkruTypes DEF Init
  <2>2. udi_control \in Seq(Node) /\ cache \in Seq(CacheEntry) /\ mapped \in Seq(Key)
    BY <1>1 DEF Init
  <2>3. /\ status \in [Slot -> {0, DOMAIN_OCCUPIED, DOMAIN_NONOCCUPIED}]
        /\ pdi \in [Slot -> Key]
        /\ sdi_parent_domain \in [Slot -> Slot]
        /\ next_pkey \in 3 .. NUM_PKEYS
    BY <1>1 DEF Init
  <2>4. /\ sdi_address_stack \in [Slot -> Nat] /\ sdi_tlsf \in [Slot -> Nat]
        /\ sdi_init_heap_flag \in [Slot -> BOOLEAN] /\ sdi_saved_ex \in [Slot -> BOOLEAN]
        /\ sdi_options \in [Slot -> SUBSET Flag]
        /\ sdi_buffer \in [Slot -> Nat] /\ sdi_last_rsp \in [Slot -> Nat]
        /\ tlsf_structure \in Nat /\ ctl \in Control /\ active_domain \in Slot
    BY <1>1 DEF Init, NULL, Control
  <2> QED
    BY <1>2, <2>1, <2>2, <2>3, <2>4 DEF TypeOK
<1>5. ControlWellFormed
  BY <1>3 DEF ControlWellFormed
<1>6. CallChain
  BY <1>2 DEF CallChain, Init
<1>7. OptionsKnown /\ FrameOwner
  BY DEF Init, OptionsKnown, FrameOwner, OwnsFrame
<1>8. ReservedKeys
  <2>1. pdi[MONITOR_DATA] = 1 /\ pdi[ROOT_DOMAIN] = 2
    BY <1>1 DEF Init, MONITOR_DATA, ROOT_DOMAIN
  <2> QED
    BY <1>2, <1>3, <2>1 DEF ReservedKeys
<1>9. ConfigsShut
  <2>1. pkru_config[ROOT_DOMAIN] = sdrad_pkru_default_config(2)
    BY <1>1 DEF Init
  <2>2. sdrad_pkru_default_config(2)[1] = 3
    BY <1>1 DEF sdrad_pkru_default_config, sdrad_set_access_pdi, PKRU_ALL_READ_ONLY_RD
  <2> QED
    BY <1>2, <1>3, <2>1, <2>2 DEF ConfigsShut, Shut
<1>10. ReservedSlots
  BY <1>1 DEF Init, ReservedSlots, MONITOR_DATA, ROOT_DOMAIN, DOMAIN_2,
             DOMAIN_OCCUPIED, DOMAIN_NONOCCUPIED
<1>11. RewindAboveRoot
  BY DEF Init, RewindAboveRoot
<1> QED
  BY <1>4, <1>5, <1>6, <1>7, <1>8, <1>9, <1>10, <1>11 DEF IInv

(* Every call for a udi preserves it. *)
LEMMA ApiCallPreserves ==
  ASSUME NoReturnToParent, IInv, NEW udi \in Udi, ApiCall(udi)
  PROVE  IInv'
<1>1. CASE \E feature \in Features : sdrad_init_error(udi, feature)
  BY <1>1, ReturnErrorPreserves DEF sdrad_init_error
<1>2. CASE \E feature \in Features : sdrad_init_save_context(udi, feature)
  BY <1>2, SaveContextPreserves
<1>3. CASE \E feature \in Features : sdrad_init_no_slot(udi, feature)
  BY <1>3, NoSlotPreserves
<1>4. CASE \E feature \in Features : sdrad_init_data(udi, feature)
  BY <1>4, InitDataPreserves
<1>5. CASE \E feature \in Features : sdrad_init_exec(udi, feature)
  BY <1>5, InitExecPreserves
<1>6. CASE sdrad_enter_error(udi) \/ sdrad_no_such_domain(udi)
  BY <1>6, ReturnErrorPreserves DEF sdrad_enter_error, sdrad_no_such_domain
<1>7. CASE sdrad_enter(udi)
  BY <1>7, EnterPreserves
<1>8. CASE sdrad_deinit(udi)
  BY <1>8, DeinitPreserves
<1>9. CASE \E options \in Options : sdrad_destroy(udi, options)
  BY <1>9, DestroyPreserves
<1>10. CASE \E target \in Udi \cup {0} : sdrad_dprotect_error(target, udi)
  BY <1>10, ReturnErrorPreserves DEF sdrad_dprotect_error
<1>11. CASE \E target \in Udi \cup {0}, access_status \in Access :
              sdrad_dprotect(target, udi, access_status)
  BY <1>11, DprotectPreserves
<1>12. CASE sdrad_malloc(udi)
  BY <1>12, SdradMallocPreserves
<1>13. CASE sdrad_enter_no_stack(udi)
  BY <1>13, EnterNoStackPreserves
<1> QED
  BY <1>1, <1>2, <1>3, <1>4, <1>5, <1>6, <1>7, <1>8, <1>9, <1>10, <1>11, <1>12, <1>13 DEF ApiCall

(* Every step preserves it. *)
LEMMA NextIInv ==
  ASSUME NoReturnToParent, IInv, [Next]_vars
  PROVE  IInv'
<1>1. CASE \E udi \in Udi : ApiCall(udi)
  BY <1>1, ApiCallPreserves
<1>2. CASE sdrad_exit
  BY <1>2, ExitPreserves
<1>3. CASE malloc
  BY <1>3, MallocPreserves
<1>4. CASE Violation
  BY <1>4, ViolationPreserves
<1>5. CASE Handler
  BY <1>5, AbnormalExitPreserves, RewindPreserves DEF Handler
<1>6. CASE Ended
  BY <1>6, StutterPreserves DEF Ended
<1>7. CASE UNCHANGED vars
  BY <1>7, StutterPreserves
<1> QED
  BY <1>1, <1>2, <1>3, <1>4, <1>5, <1>6, <1>7 DEF Next

(* Without RETURN_TO_PARENT domains, the inductive invariant holds.          *)
THEOREM Invariance ==
  ASSUME NoReturnToParent
  PROVE  Spec => []IInv
<1>1. Init => IInv
  BY InitIInv
<1>2. IInv /\ [Next]_vars => IInv'
  BY NextIInv
<1> QED
  BY <1>1, <1>2, PTL DEF Spec

(* Every table of the manager and of the thread keeps its type: no index     *)
(* leaves the tables, the key counter stays within the keys, and a freed     *)
(* slot's status is one that sdrad_find_free_domain knows.                   *)
THEOREM TypeCorrect ==
  ASSUME NoReturnToParent
  PROVE  Spec => []TypeOK
<1>1. IInv => TypeOK
  BY DEF IInv
<1> QED
  BY <1>1, Invariance, PTL

(* The udi list stays a one-to-one map to slots that are not free.           *)
THEOREM ControlSafe ==
  ASSUME NoReturnToParent
  PROVE  Spec => []ControlWellFormed
<1>1. IInv => ControlWellFormed
  BY DEF IInv
<1> QED
  BY <1>1, Invariance, PTL

(* The parents, saved stack pointers and saved contexts of the code agree    *)
(* with the frames that are on the stacks.                                   *)
THEOREM CallChainSafe ==
  ASSUME NoReturnToParent
  PROVE  Spec => []CallChain
<1>1. IInv => CallChain
  BY DEF IInv
<1> QED
  BY <1>1, Invariance, PTL

(* No domain that runs, or that waits for one it called, can reach the       *)
(* monitor's memory, nor write the root's.                                   *)
THEOREM MonitorStaysShut ==
  ASSUME NoReturnToParent
  PROVE  Spec => []MonitorShut
<1>1. IInv => MonitorShut
  BY DEF IInv, ConfigsShut, ReservedKeys, Shut, MonitorShut
<1> QED
  BY <1>1, Invariance, PTL

-----------------------------------------------------------------------------
(* The library does to the chain what RewindStack says. *)

(* Most calls leave the chain, the frames and the mode alone. *)
LEMMA InvisibleStep ==
  ASSUME UNCHANGED <<calls, sdi_buffer, ctl>>
  PROVE  UNCHANGED Rewind!vars
BY DEF Rewind!vars, Mode

(* A context saved for a domain off the chain. *)
LEMMA SaveStep ==
  ASSUME IInv, ctl = "app", NEW sdi \in Slot, OffChain(sdi), SaveContext(sdi),
         UNCHANGED <<calls, ctl>>
  PROVE  Rewind!Save(sdi)
BY ChainFacts DEF Rewind!Save, Mode, OffChain, SaveContext

(* A fault raised while the application, or the library for it, runs. *)
LEMMA FaultStep ==
  ASSUME ctl = "app", ctl' = "fault", UNCHANGED <<calls, sdi_buffer>>
  PROVE  Rewind!Fault
BY DEF Rewind!Fault, Mode

(* Cutting the chain to the frame below its top removes the top's frames only. *)
LEMMA CutStep ==
  ASSUME IInv, sdi_buffer' = FramesUpTo(Len(calls) - 1),
         calls' = SubSeq(calls, 1, Len(calls) - 1)
  PROVE  calls' = Rewind!Below /\ sdi_buffer' = Rewind!FramesBelow
<1>1. ASSUME NEW d \in Slot
      PROVE  sdi_buffer[d] > Len(calls) - 1 <=> sdi_buffer[d] = Len(calls)
  <2>1. sdi_buffer[d] \in Nat
    BY DEF IInv, TypeOK
  <2>2. sdi_buffer[d] <= Len(calls)
    BY DEF IInv, FrameOwner, OwnsFrame
  <2> QED
    BY <2>1, <2>2, ChainFacts
<1> QED
  BY <1>1 DEF FramesUpTo, Rewind!Below, Rewind!FramesBelow

(* What the calls for a udi do to the chain. *)
LEMMA ApiCallStep ==
  ASSUME NoReturnToParent, IInv, NEW udi \in Udi, ApiCall(udi)
  PROVE  Rewind!Next \/ UNCHANGED Rewind!vars
<1> USE DEF Rewind!Next
<1>1. CASE \E feature \in Features : sdrad_init_error(udi, feature)
  BY <1>1, InvisibleStep DEF sdrad_init_error, ReturnError, infoVars
<1>2. CASE \E feature \in Features : sdrad_init_save_context(udi, feature)
  <2>1. PICK feature \in Features : sdrad_init_save_context(udi, feature)
    BY <1>2
  <2>2. PICK sdi \in sdrad_search_udi_control(udi) : ~AlreadyInit(sdi) /\ SaveContext(sdi)
    BY <2>1 DEF sdrad_init_save_context
  <2>3. sdi \in Slot /\ OffChain(sdi)
    BY <2>2, SearchFacts, UnsavedOffChain DEF AlreadyInit
  <2>4. ctl = "app" /\ UNCHANGED <<calls, ctl>>
    BY <2>1 DEF sdrad_init_save_context, App
  <2> QED
    BY <2>2, <2>3, <2>4, SaveStep
<1>3. CASE \E feature \in Features : sdrad_init_no_slot(udi, feature)
  <2>1. ctl = "app" /\ ctl' = "oob" /\ UNCHANGED <<calls, sdi_buffer>>
    BY <1>3 DEF sdrad_init_no_slot, InitAccepts, App, infoVars
  <2>2. Rewind!Corrupt
    BY <2>1 DEF Rewind!Corrupt, Mode
  <2> QED
    BY <2>2
<1>4. CASE \E feature \in Features : sdrad_init_data(udi, feature)
  BY <1>4, InvisibleStep DEF sdrad_init_data
<1>5. CASE \E feature \in Features : sdrad_init_exec(udi, feature)
  <2>1. PICK feature \in Features : sdrad_init_exec(udi, feature)
    BY <1>5
  <2>2. "TO_PARENT" \notin feature
    BY DEF NoReturnToParent
  <2>3. PICK sdi \in sdrad_find_free_domain :
          MapNewDomain(udi, feature, sdi) /\ SaveContext(sdi)
    BY <2>1, <2>2 DEF sdrad_init_exec
  <2>4. sdi \in Slot /\ OffChain(sdi)
    BY FreeFacts
  <2>5. ctl = "app" /\ UNCHANGED <<calls, ctl>>
    BY <2>1, <2>3 DEF sdrad_init_exec, MapNewDomain, InitAccepts, App
  <2> QED
    BY <2>3, <2>4, <2>5, SaveStep
<1>6. CASE sdrad_enter_error(udi) \/ sdrad_no_such_domain(udi)
  BY <1>6, InvisibleStep DEF sdrad_enter_error, sdrad_no_such_domain, ReturnError, infoVars
<1>7. CASE sdrad_enter(udi)
  <2>1. PICK sdi \in sdrad_search_udi_control(udi) :
          Enterable(sdi) /\ EntersOwnChild(sdi) /\ calls' = Append(calls, sdi)
    BY <1>7 DEF sdrad_enter
  <2>2. sdi \in Slot /\ OffChain(sdi) /\ sdi_buffer[sdi] = Len(calls)
    BY <2>1, SearchFacts, EnteredFacts
  <2>3. ctl = "app" /\ UNCHANGED <<sdi_buffer, ctl>>
    BY <1>7 DEF sdrad_enter, App
  <2>4. Rewind!Call(sdi)
    BY <2>1, <2>2, <2>3, ChainFacts DEF Rewind!Call, Mode, OffChain
  <2> QED
    BY <2>2, <2>4
<1>8. CASE sdrad_deinit(udi)
  BY <1>8, InvisibleStep DEF sdrad_deinit
<1>9. CASE \E options \in Options : sdrad_destroy(udi, options)
  <2>1. ctl = "app" /\ ctl' \in {"app", "fault"} /\ UNCHANGED <<calls, sdi_buffer>>
    BY <1>9 DEF sdrad_destroy, App, heapVars
  <2> QED
    BY <2>1, FaultStep, InvisibleStep
<1>10. CASE \E target \in Udi \cup {0} : sdrad_dprotect_error(target, udi)
  BY <1>10, InvisibleStep DEF sdrad_dprotect_error, ReturnError, infoVars
<1>11. CASE \E target \in Udi \cup {0}, access_status \in Access :
              sdrad_dprotect(target, udi, access_status)
  BY <1>11, InvisibleStep DEF sdrad_dprotect, infoVars
<1>12. CASE sdrad_malloc(udi)
  BY <1>12, InvisibleStep DEF sdrad_malloc
<1>13. CASE sdrad_enter_no_stack(udi)
  <2>1. ctl = "app" /\ ctl' = "killed" /\ UNCHANGED <<calls, sdi_buffer>>
    BY <1>13 DEF sdrad_enter_no_stack, App, infoVars
  <2>2. Rewind!Corrupt
    BY <2>1 DEF Rewind!Corrupt, Mode
  <2> QED
    BY <2>2
<1> QED
  BY <1>1, <1>2, <1>3, <1>4, <1>5, <1>6, <1>7, <1>8, <1>9, <1>10, <1>11, <1>12, <1>13 DEF ApiCall

(* sdrad_exit is a return to the domain below. *)
LEMMA ExitStep ==
  ASSUME IInv, sdrad_exit
  PROVE  Rewind!Return
<1>1. Len(calls) > 1 /\ ctl = "app" /\ ctl' = ctl
  BY DEF sdrad_exit, App
<1>2. sdi_last_rsp[sdi_parent_domain[active_domain]] = Len(calls) - 1
  <2>1. Linked(Len(calls)) /\ active_domain = calls[Len(calls)]
    BY <1>1, ChainFacts DEF IInv, CallChain
  <2> QED
    BY <2>1 DEF Linked
<1>3. calls' = Rewind!Below /\ sdi_buffer' = Rewind!FramesBelow
  BY <1>2, CutStep DEF sdrad_exit
<1> QED
  BY <1>1, <1>3 DEF Rewind!Return, Mode

(* Only the root's fault aborts; any other takes the top off the chain.      *)
LEMMA HandlerStep ==
  ASSUME IInv, Handler
  PROVE  Rewind!Next \/ UNCHANGED Rewind!vars
<1>1. CASE sdrad_abnormal_domain_exit
  <2>1. ctl = "fault" /\ UNCHANGED <<calls, sdi_buffer>>
    BY <1>1 DEF sdrad_abnormal_domain_exit, infoVars
  <2>2. CASE HasRootKey
    <3>1. Len(calls) = 1
      <4>1. pdi[calls[Len(calls)]] = 2
        BY <2>2 DEF HasRootKey, IInv, ReservedKeys, CallChain
      <4>2. ASSUME Len(calls) \in 2 .. Len(calls) PROVE FALSE
        BY <4>1, <4>2 DEF IInv, ReservedKeys
      <4> QED
        BY <4>2, ChainFacts
    <3>2. calls = <<ROOT_DOMAIN>>
      BY <3>1 DEF IInv, TypeOK, CallChain
    <3>3. ctl' = "aborted"
      BY <1>1, <2>2 DEF sdrad_abnormal_domain_exit
    <3> QED
      BY <2>1, <3>2, <3>3 DEF Rewind!Next, Rewind!Abort, Mode
  <2>3. CASE ~HasRootKey
    <3>1. ctl' = "rewind"
      BY <1>1, <2>3 DEF sdrad_abnormal_domain_exit
    <3> QED
      BY <2>1, <3>1 DEF Rewind!vars, Mode
  <2> QED
    BY <2>2, <2>3
<1>2. CASE sdrad_init_destroy
  <2> DEFINE sdi == active_domain
  <2>1. ctl = "rewind" /\ Len(calls) > 1 /\ "TO_PARENT" \notin sdi_options[sdi]
    BY <1>2 DEF IInv, TypeOK, RewindAboveRoot, OptionsKnown, sdrad_init_destroy
  <2>2. sdi = calls[Len(calls)] /\ sdi_buffer[sdi] = Len(calls) - 1
    <3>1. Linked(Len(calls)) /\ sdi = calls[Len(calls)]
      BY <2>1, ChainFacts DEF IInv, CallChain
    <3> QED
      BY <3>1 DEF Linked
  <2>3. /\ calls' = SubSeq(calls, 1, Len(calls) - 1)
        /\ sdi_buffer' = FramesUpTo(Len(calls) - 1)
        /\ ctl' \in {"app", "fault"}
    BY <1>2, <2>1, <2>2 DEF sdrad_init_destroy, RewindToCurrent, RewindToParent,
                            RewindFaults, RewindCompletes
  <2>4. calls' = Rewind!Below /\ sdi_buffer' = Rewind!FramesBelow
    BY <2>3, CutStep
  <2>5. Rewind!Unwind
    BY <2>1, <2>2, <2>3, <2>4 DEF Rewind!Unwind, Rewind!Top, Mode
  <2> QED
    BY <2>5 DEF Rewind!Next
<1> QED
  BY <1>1, <1>2 DEF Handler

(* Without RETURN_TO_PARENT domains, every behaviour of the library is a     *)
(* behaviour of the stack of domains: nothing but the top of the chain is    *)
(* lost in a fault, control returns to the frame that its sdrad_init was     *)
(* called from, and abort() is for the root domain alone.  (That the unwind  *)
(* comes at all is RewindStack's fairness, and left to the model checker.)   *)
THEOREM ImplementsRewindStack ==
  ASSUME NoReturnToParent
  PROVE  Spec => Rewind!Init /\ [][Rewind!Next]_(Rewind!vars)
<1>1. Init => Rewind!Init
  BY DEF Init, Rewind!Init, Mode
<1>2. IInv /\ [Next]_vars => [Rewind!Next]_(Rewind!vars)
  <2> SUFFICES ASSUME IInv, [Next]_vars
               PROVE  Rewind!Next \/ UNCHANGED Rewind!vars
    OBVIOUS
  <2>1. CASE \E udi \in Udi : ApiCall(udi)
    BY <2>1, ApiCallStep
  <2>2. CASE sdrad_exit
    BY <2>2, ExitStep DEF Rewind!Next
  <2>3. CASE malloc
    BY <2>3, InvisibleStep DEF malloc
  <2>4. CASE Violation
    BY <2>4, FaultStep DEF Violation, App, infoVars, Rewind!Next
  <2>5. CASE Handler
    BY <2>5, HandlerStep
  <2>6. CASE UNCHANGED vars
    BY <2>6, InvisibleStep DEF vars, infoVars
  <2> QED
    BY <2>1, <2>2, <2>3, <2>4, <2>5, <2>6 DEF Next, Ended
<1> QED
  BY <1>1, <1>2, Invariance, PTL DEF Spec

-----------------------------------------------------------------------------
(* Who owns a key and a stack, in a program that has execution domains only  *)
(* and never merges heaps.                                                   *)

(* With data domains the head of the cache can give its key and stay, and    *)
(* the merge of heaps can fault between the two lists: SdradDomains says     *)
(* where.                                                                    *)
ExecutionOnly ==
  /\ \A feature \in Features : "TO_PARENT" \notin feature /\ "DATA" \notin feature
  /\ "HEAP_MERGE" \notin Options

(* The slots in the udi list. *)
Listed == {udi_control[i].sdi : i \in DOMAIN udi_control}

OptionsExecution == \A d \in Slot : "DATA" \notin sdi_options[d]

(* A domain whose frames are on a stack is in the list. *)
ChainListed == \A i \in 2 .. Len(calls) : calls[i] \in Listed

(* No key is in two places. *)
KeysApart ==
  /\ \A d, e \in Listed : pdi[d] = pdi[e] => d = e
  /\ \A d \in Listed : \A i \in DOMAIN cache : pdi[d] # cache[i].key
  /\ \A i, j \in DOMAIN cache : cache[i].key = cache[j].key => i = j

(* Keys in use have been allocated ... *)
KeysTaken ==
  /\ \A d \in Listed : pdi[d] < next_pkey
  /\ \A i \in DOMAIN cache : cache[i].key < next_pkey

(* ... and no allocated key is lost. *)
KeysFound ==
  \A k \in 3 .. next_pkey - 1 :
    \/ \E d \in Listed : pdi[d] = k
    \/ \E i \in DOMAIN cache : cache[i].key = k

(* A stack carries the key of the domain, or of the cache entry, it is in.   *)
StacksTagged ==
  /\ \A d \in Listed : /\ sdi_address_stack[d] \in DOMAIN mapped
                       /\ mapped[sdi_address_stack[d]] = pdi[d]
  /\ \A i \in DOMAIN cache : /\ cache[i].stack \in DOMAIN mapped
                             /\ mapped[cache[i].stack] = cache[i].key

RootStack ==
  /\ sdi_address_stack[ROOT_DOMAIN] \in DOMAIN mapped
  /\ mapped[sdi_address_stack[ROOT_DOMAIN]] = 2
  /\ pkru_config[ROOT_DOMAIN][2] = 0

OwnKeyOpen == \A d \in Listed : pkru_config[d][pdi[d]] = 0

(* What the four transfers of a domain (new, from the cache, to the cache,   *)
(* not at all) have to keep.                                                 *)
Ownership ==
  /\ KeysApart
  /\ KeysTaken
  /\ KeysFound
  /\ StacksTagged
  /\ RootStack
  /\ OwnKeyOpen

OInv ==
  /\ IInv
  /\ OptionsExecution
  /\ ChainListed
  /\ Ownership
  /\ PkruOfActive

(* Memory is only ever added. *)
MappedKept ==
  \A r \in DOMAIN mapped : r \in DOMAIN mapped' /\ mapped'[r] = mapped[r]

-----------------------------------------------------------------------------
(* What the lists hold *)

(* The hypothesis covers the one of the lower proofs. *)
LEMMA ExecutionImpliesCurrent ==
  ASSUME ExecutionOnly
  PROVE  NoReturnToParent
BY DEF ExecutionOnly, NoReturnToParent

(* A listed slot is a slot above the root's, with a key above the root's. *)
LEMMA ListedFacts ==
  ASSUME IInv, NEW d \in Listed
  PROVE  /\ d \in Slot /\ d >= DOMAIN_2 /\ d # ROOT_DOMAIN
         /\ status[d] # DOMAIN_NONOCCUPIED
         /\ pdi[d] \in Key /\ pdi[d] >= 3
<1>1. PICK i \in DOMAIN udi_control : udi_control[i].sdi = d
  BY DEF Listed
<1>2. d \in Slot
  BY <1>1, ListFacts DEF Node
<1>3. d >= DOMAIN_2 /\ status[d] # DOMAIN_NONOCCUPIED /\ pdi[d] >= 3
  BY <1>1 DEF IInv, ControlWellFormed, ReservedKeys
<1>4. pdi[d] \in Key
  BY <1>2 DEF IInv, TypeOK
<1> QED
  BY <1>2, <1>3, <1>4 DEF DOMAIN_2, ROOT_DOMAIN, Slot

(* Cache entries have keys above the root's. *)
LEMMA CacheFacts ==
  ASSUME IInv
  PROVE  /\ Len(cache) \in Nat /\ DOMAIN cache = 1 .. Len(cache)
         /\ \A i \in DOMAIN cache : cache[i] \in CacheEntry /\ cache[i].key >= 3
<1>1. cache \in Seq(CacheEntry)
  BY DEF IInv, TypeOK
<1> QED
  BY <1>1, LenProperties, ElementOfSeq DEF IInv, ReservedKeys

(* The search answers listed slots. *)
LEMMA SearchListed ==
  ASSUME NEW udi, NEW sdi \in sdrad_search_udi_control(udi)
  PROVE  sdi \in Listed
BY DEF Listed, sdrad_search_udi_control

(* Removing a node takes its slot, and no other, off the list. *)
LEMMA ListedWithout ==
  ASSUME IInv, NEW sdi \in Listed,
         udi_control' = sdrad_delete_control_structure(udi_control, sdi)
  PROVE  Listed' = Listed \ {sdi}
<1> DEFINE k == NodeIndex(udi_control, sdi)
<1>1. \E j \in DOMAIN udi_control : udi_control[j].sdi = sdi
  BY DEF Listed
<1>2. k \in DOMAIN udi_control /\ udi_control[k].sdi = sdi
  BY <1>1 DEF NodeIndex
<1>3. udi_control' = RemoveAt(udi_control, k)
  BY <1>1 DEF sdrad_delete_control_structure
<1> HIDE DEF k
<1>4. Len(udi_control) \in Nat /\ DOMAIN udi_control = 1 .. Len(udi_control)
  BY ListFacts
<1>5. /\ udi_control' \in Seq(Node) /\ Len(udi_control') = Len(udi_control) - 1
      /\ \A i \in 1 .. Len(udi_control) - 1 :
           udi_control'[i] = IF i < k THEN udi_control[i] ELSE udi_control[i + 1]
  <2>1. udi_control \in Seq(Node)
    BY DEF IInv, TypeOK
  <2> QED
    BY <1>2, <1>3, <1>4, <2>1, RemoveAtProperties
<1>6. DOMAIN udi_control' = 1 .. Len(udi_control) - 1
  BY <1>5, LenProperties
<1>7. ASSUME NEW d \in Listed' PROVE d \in Listed /\ d # sdi
  <2>1. PICK i \in DOMAIN udi_control' : udi_control'[i].sdi = d
    BY DEF Listed
  <2>2. \E p \in DOMAIN udi_control : udi_control'[i] = udi_control[p]
    BY <2>1, RemovedFacts
  <2>3. d # sdi
    BY <2>1, RemovedFacts
  <2> QED
    BY <2>1, <2>2, <2>3 DEF Listed
<1>8. ASSUME NEW d \in Listed, d # sdi PROVE d \in Listed'
  <2>1. PICK p \in DOMAIN udi_control : udi_control[p].sdi = d
    BY DEF Listed
  <2>2. p # k
    BY <1>2, <1>8, <2>1
  <2> DEFINE i == IF p < k THEN p ELSE p - 1
  <2>3. i \in DOMAIN udi_control' /\ udi_control'[i] = udi_control[p]
    BY <1>2, <1>4, <1>5, <1>6, <2>1, <2>2
  <2> QED
    BY <2>1, <2>3 DEF Listed
<1> QED
  BY <1>7, <1>8

(* A new node puts one more slot on it. *)
LEMMA ListedWith ==
  ASSUME IInv, NEW udi \in Udi, NEW feature,
         NEW sdi \in sdrad_find_free_domain, MapNewDomain(udi, feature, sdi)
  PROVE  Listed' = Listed \cup {sdi} /\ sdi \notin Listed
<1>1. sdi \notin Listed
  BY FreeFacts DEF Listed
<1>2. [udi |-> udi, sdi |-> sdi] \in Node /\ udi_control \in Seq(Node)
  BY FreeFacts DEF Node, IInv, TypeOK
<1>3. udi_control' = <<[udi |-> udi, sdi |-> sdi]>> \o udi_control
  BY DEF MapNewDomain
<1>4. /\ udi_control' \in Seq(Node)
      /\ Len(udi_control') = Len(udi_control) + 1
      /\ \A i \in 1 .. Len(udi_control) + 1 :
           udi_control'[i] = IF i = 1 THEN [udi |-> udi, sdi |-> sdi]
                                      ELSE udi_control[i - 1]
  BY <1>2, <1>3, PushProperties
<1>5. /\ DOMAIN udi_control' = 1 .. Len(udi_control) + 1
      /\ Len(udi_control) \in Nat /\ DOMAIN udi_control = 1 .. Len(udi_control)
  BY <1>4, LenProperties, ListFacts
<1>6. ASSUME NEW d \in Listed' PROVE d \in Listed \cup {sdi}
  <2>1. PICK i \in DOMAIN udi_control' : udi_control'[i].sdi = d
    BY DEF Listed
  <2>2. CASE i = 1
    BY <1>4, <1>5, <2>1, <2>2
  <2>3. CASE i # 1
    <3>1. i - 1 \in DOMAIN udi_control /\ udi_control'[i] = udi_control[i - 1]
      BY <1>4, <1>5, <2>3
    <3> QED
      BY <2>1, <3>1 DEF Listed
  <2> QED
    BY <2>2, <2>3
<1>7. sdi \in Listed'
  BY <1>4, <1>5 DEF Listed
<1>8. ASSUME NEW d \in Listed PROVE d \in Listed'
  <2>1. PICK p \in DOMAIN udi_control : udi_control[p].sdi = d
    BY DEF Listed
  <2>2. p + 1 \in DOMAIN udi_control' /\ udi_control'[p + 1] = udi_control[p]
    BY <1>4, <1>5, <2>1
  <2> QED
    BY <2>1, <2>2 DEF Listed
<1> QED
  BY <1>1, <1>6, <1>7, <1>8

(* The cache with one more entry. *)
LEMMA PushedCache ==
  ASSUME IInv, NEW entry \in CacheEntry, cache' = <<entry>> \o cache
  PROVE  /\ DOMAIN cache' = 1 .. Len(cache) + 1
         /\ cache'[1] = entry
         /\ \A i \in 2 .. Len(cache) + 1 : cache'[i] = cache[i - 1]
<1>1. cache \in Seq(CacheEntry)
  BY DEF IInv, TypeOK
<1>2. /\ cache' \in Seq(CacheEntry) /\ Len(cache') = Len(cache) + 1
      /\ \A i \in 1 .. Len(cache) + 1 :
           cache'[i] = IF i = 1 THEN entry ELSE cache[i - 1]
  BY <1>1, PushProperties
<1>3. DOMAIN cache' = 1 .. Len(cache) + 1
  BY <1>2, LenProperties
<1> QED
  BY <1>2, <1>3, CacheFacts

(* The cache without its head. *)
LEMMA PoppedCache ==
  ASSUME IInv, cache # <<>>
  PROVE  /\ Len(cache) > 0 /\ Head(cache) = cache[1]
         /\ DOMAIN Tail(cache) = 1 .. Len(cache) - 1
         /\ \A i \in 1 .. Len(cache) - 1 : Tail(cache)[i] = cache[i + 1]
<1>1. cache \in Seq(CacheEntry)
  BY DEF IInv, TypeOK
<1>2. Len(cache) \in Nat \ {0}
  BY <1>1, LenProperties, EmptySeq
<1>3. /\ Head(cache) = cache[1] /\ Tail(cache) \in Seq(CacheEntry)
      /\ Len(Tail(cache)) = Len(cache) - 1
      /\ \A i \in 1 .. Len(Tail(cache)) : Tail(cache)[i] = cache[i + 1]
  BY <1>1, <1>2, HeadTailProperties
<1>4. DOMAIN Tail(cache) = 1 .. Len(cache) - 1
  BY <1>3, LenProperties
<1> QED
  BY <1>2, <1>3, <1>4

(* One more region leaves the others as they are. *)
LEMMA AppendKeeps ==
  ASSUME IInv, NEW key \in Key, mapped' = Append(mapped, key)
  PROVE  /\ MappedKept
         /\ Len(mapped) + 1 \in DOMAIN mapped' /\ mapped'[Len(mapped) + 1] = key
<1>1. mapped \in Seq(Key)
  BY DEF IInv, TypeOK
<1>2. /\ mapped' \in Seq(Key) /\ Len(mapped') = Len(mapped) + 1
      /\ \A i \in 1 .. Len(mapped) : mapped'[i] = mapped[i]
      /\ mapped'[Len(mapped) + 1] = key
  BY <1>1, AppendProperties
<1>3. /\ DOMAIN mapped = 1 .. Len(mapped) /\ Len(mapped) \in Nat
      /\ DOMAIN mapped' = 1 .. Len(mapped) + 1
  BY <1>1, <1>2, LenProperties
<1> QED
  BY <1>2, <1>3 DEF MappedKept

-----------------------------------------------------------------------------
(* The four transfers *)

(* Nothing changes hands. *)
LEMMA SameOwners ==
  ASSUME IInv, Ownership, MappedKept,
         UNCHANGED <<udi_control, pdi, cache, next_pkey, sdi_address_stack, pkru_config>>
  PROVE  Ownership' /\ Listed' = Listed
<1>1. Listed' = Listed
  BY DEF Listed
<1>2. KeysApart' /\ KeysTaken' /\ KeysFound' /\ OwnKeyOpen'
  BY <1>1 DEF Ownership, KeysApart, KeysTaken, KeysFound, OwnKeyOpen
<1>3. StacksTagged' /\ RootStack'
  BY <1>1 DEF Ownership, StacksTagged, RootStack, MappedKept
<1> QED
  BY <1>1, <1>2, <1>3 DEF Ownership

(* A domain goes from the list to the head of the cache, with its key and    *)
(* its stack: sdrad_destroy and the rewind.                                  *)
LEMMA Retired ==
  ASSUME IInv, Ownership, MappedKept, NEW sdi \in Listed,
         NEW entry \in CacheEntry,
         entry.key = pdi[sdi], entry.stack = sdi_address_stack[sdi],
         cache' = <<entry>> \o cache,
         udi_control' = sdrad_delete_control_structure(udi_control, sdi),
         \A d \in Listed \ {sdi} : pdi'[d] = pdi[d],
         UNCHANGED <<next_pkey, sdi_address_stack, pkru_config>>
  PROVE  Ownership' /\ Listed' = Listed \ {sdi}
<1>1. Listed' = Listed \ {sdi}
  BY ListedWithout
<1>2. /\ DOMAIN cache' = 1 .. Len(cache) + 1
      /\ cache'[1] = entry
      /\ \A i \in 2 .. Len(cache) + 1 : cache'[i] = cache[i - 1]
      /\ Len(cache) \in Nat /\ DOMAIN cache = 1 .. Len(cache)
  BY PushedCache, CacheFacts
<1>3. ASSUME NEW i \in DOMAIN cache'
      PROVE  \/ i = 1 /\ cache'[i] = entry
             \/ i - 1 \in DOMAIN cache /\ cache'[i] = cache[i - 1]
  BY <1>2
<1>4. KeysApart'
  <2>1. ASSUME NEW d \in Listed', NEW e \in Listed', pdi'[d] = pdi'[e] PROVE d = e
    BY <1>1, <2>1 DEF Ownership, KeysApart
  <2>2. ASSUME NEW d \in Listed', NEW i \in DOMAIN cache' PROVE pdi'[d] # cache'[i].key
    <3>1. d \in Listed /\ d # sdi /\ pdi'[d] = pdi[d]
      BY <1>1
    <3>2. CASE cache'[i] = entry
      BY <3>1, <3>2 DEF Ownership, KeysApart
    <3>3. CASE i - 1 \in DOMAIN cache /\ cache'[i] = cache[i - 1]
      BY <3>1, <3>3 DEF Ownership, KeysApart
    <3> QED
      BY <1>3, <3>2, <3>3
  <2>3. ASSUME NEW i \in DOMAIN cache', NEW j \in DOMAIN cache',
               cache'[i].key = cache'[j].key
        PROVE  i = j
    <3>1. \A p \in DOMAIN cache : cache[p].key # entry.key
      BY DEF Ownership, KeysApart
    <3>2. i \in Int /\ j \in Int
      BY <1>2
    <3>3. CASE i = 1 /\ j # 1
      BY <1>2, <1>3, <2>3, <3>1, <3>3
    <3>4. CASE j = 1 /\ i # 1
      BY <1>2, <1>3, <2>3, <3>1, <3>4
    <3>5. CASE i # 1 /\ j # 1
      <4>1. /\ i - 1 \in DOMAIN cache /\ cache'[i] = cache[i - 1]
            /\ j - 1 \in DOMAIN cache /\ cache'[j] = cache[j - 1]
        BY <1>3, <3>5
      <4>2. i - 1 = j - 1
        BY <2>3, <4>1 DEF Ownership, KeysApart
      <4> QED
        BY <3>2, <4>2
    <3> QED
      BY <3>3, <3>4, <3>5
  <2> QED
    BY <2>1, <2>2, <2>3 DEF KeysApart
<1>5. KeysTaken'
  <2>1. \A d \in Listed' : pdi'[d] < next_pkey'
    BY <1>1 DEF Ownership, KeysTaken
  <2>2. ASSUME NEW i \in DOMAIN cache' PROVE cache'[i].key < next_pkey'
    BY <1>3 DEF Ownership, KeysTaken
  <2> QED
    BY <2>1, <2>2 DEF KeysTaken
<1>6. KeysFound'
  <2>1. ASSUME NEW k \in 3 .. next_pkey - 1
        PROVE  (\E d \in Listed' : pdi'[d] = k) \/ (\E i \in DOMAIN cache' : cache'[i].key = k)
    <3>1. CASE k = pdi[sdi]
      BY <1>2, <3>1
    <3>2. CASE \E d \in Listed \ {sdi} : pdi[d] = k
      BY <1>1, <3>2
    <3>3. CASE \E i \in DOMAIN cache : cache[i].key = k
      <4>1. PICK i \in DOMAIN cache : cache[i].key = k
        BY <3>3
      <4>2. i + 1 \in DOMAIN cache' /\ cache'[i + 1] = cache[i]
        BY <1>2, <4>1
      <4> QED
        BY <4>1, <4>2
    <3> QED
      BY <3>1, <3>2, <3>3 DEF Ownership, KeysFound
  <2> QED
    BY <2>1 DEF KeysFound
<1>7. StacksTagged'
  <2>1. ASSUME NEW d \in Listed'
        PROVE  /\ sdi_address_stack'[d] \in DOMAIN mapped'
               /\ mapped'[sdi_address_stack'[d]] = pdi'[d]
    BY <1>1 DEF Ownership, StacksTagged, MappedKept
  <2>2. ASSUME NEW i \in DOMAIN cache'
        PROVE  cache'[i].stack \in DOMAIN mapped' /\ mapped'[cache'[i].stack] = cache'[i].key
    <3>1. CASE cache'[i] = entry
      BY <3>1 DEF Ownership, StacksTagged, MappedKept
    <3>2. CASE i - 1 \in DOMAIN cache /\ cache'[i] = cache[i - 1]
      BY <3>2 DEF Ownership, StacksTagged, MappedKept
    <3> QED
      BY <1>3, <3>1, <3>2
  <2> QED
    BY <2>1, <2>2 DEF StacksTagged
<1>8. RootStack'
  BY DEF Ownership, RootStack, MappedKept
<1>9. OwnKeyOpen'
  BY <1>1 DEF Ownership, OwnKeyOpen
<1> QED
  BY <1>1, <1>4, <1>5, <1>6, <1>7, <1>8, <1>9 DEF Ownership

(* The tables as sdrad_init leaves them: a new slot with a key that nobody   *)
(* on the list has, and a PKRU that opens it.                                *)
NewOwner(sdi) ==
  /\ Listed' = Listed \cup {sdi} /\ sdi \notin Listed
  /\ sdi \in Slot /\ sdi # ROOT_DOMAIN
  /\ pdi'[sdi] = NewKey
  /\ \A d \in Slot \ {sdi} : /\ pdi'[d] = pdi[d]
                             /\ sdi_address_stack'[d] = sdi_address_stack[d]
                             /\ \A k \in Key : pkru_config[d][k] = 0 => pkru_config'[d][k] = 0
  /\ pkru_config'[sdi][NewKey] = 0

(* What holds of either kind of new domain. *)
LEMMA NewOwnerFacts ==
  ASSUME IInv, Ownership, MappedKept, NEW sdi, NewOwner(sdi)
  PROVE  /\ OwnKeyOpen' /\ RootStack'
         /\ \A d \in Listed : /\ pdi'[d] = pdi[d]
                              /\ sdi_address_stack'[d] = sdi_address_stack[d]
                              /\ d # sdi
<1>1. ASSUME NEW d \in Listed
      PROVE  /\ d \in Slot \ {sdi} /\ pdi'[d] = pdi[d]
             /\ sdi_address_stack'[d] = sdi_address_stack[d]
  BY ListedFacts DEF NewOwner
<1>2. ASSUME NEW d \in Listed' PROVE pkru_config'[d][pdi'[d]] = 0
  <2>1. CASE d = sdi
    BY <2>1 DEF NewOwner
  <2>2. CASE d \in Listed
    BY <1>1, <2>2, ListedFacts DEF NewOwner, Ownership, OwnKeyOpen
  <2> QED
    BY <2>1, <2>2 DEF NewOwner
<1>3. RootStack'
  <2>1. ROOT_DOMAIN \in Slot \ {sdi} /\ 2 \in Key
    BY BaseAssumption DEF NewOwner, ROOT_DOMAIN, Slot, Key
  <2> QED
    BY <2>1 DEF NewOwner, Ownership, RootStack, MappedKept
<1> QED
  BY <1>1, <1>2, <1>3 DEF OwnKeyOpen

(* A domain with a fresh key and a fresh stack. *)
LEMMA Created ==
  ASSUME IInv, Ownership, NEW sdi, NewOwner(sdi),
         cache = <<>>, next_pkey < NUM_PKEYS,
         next_pkey' = next_pkey + 1, UNCHANGED cache,
         mapped' = Append(mapped, NewKey),
         sdi_address_stack'[sdi] = Len(mapped) + 1
  PROVE  Ownership'
<1>1. NewKey = next_pkey /\ next_pkey \in Nat /\ next_pkey >= 3 /\ NewKey \in Key
  BY NewKeyFacts DEF NewKey, IInv, TypeOK
<1>2. /\ MappedKept
      /\ Len(mapped) + 1 \in DOMAIN mapped' /\ mapped'[Len(mapped) + 1] = NewKey
  BY <1>1, AppendKeeps
<1>3. DOMAIN cache = {} /\ DOMAIN cache' = {}
  OBVIOUS
<1>4. \A d \in Listed : /\ pdi'[d] = pdi[d]
                        /\ sdi_address_stack'[d] = sdi_address_stack[d]
                        /\ pdi[d] < next_pkey /\ pdi[d] \in Nat
  BY <1>2, NewOwnerFacts, ListedFacts DEF Ownership, KeysTaken, Key
<1>5. KeysApart' /\ KeysTaken'
  BY <1>1, <1>3, <1>4 DEF NewOwner, Ownership, KeysApart, KeysTaken
<1>6. KeysFound'
  <2>1. ASSUME NEW k \in 3 .. next_pkey' - 1 PROVE \E d \in Listed' : pdi'[d] = k
    <3>1. CASE k = next_pkey
      BY <1>1, <3>1 DEF NewOwner
    <3>2. CASE k # next_pkey
      <4>1. k \in 3 .. next_pkey - 1
        BY <1>1, <3>2
      <4>2. PICK d \in Listed : pdi[d] = k
        BY <1>3, <4>1 DEF Ownership, KeysFound
      <4> QED
        BY <1>4, <4>2 DEF NewOwner
    <3> QED
      BY <3>1, <3>2
  <2> QED
    BY <2>1 DEF KeysFound
<1>7. StacksTagged'
  <2>1. ASSUME NEW d \in Listed'
        PROVE  /\ sdi_address_stack'[d] \in DOMAIN mapped'
               /\ mapped'[sdi_address_stack'[d]] = pdi'[d]
    <3>1. CASE d = sdi
      BY <1>2, <3>1 DEF NewOwner
    <3>2. CASE d \in Listed
      BY <1>2, <1>4, <3>2 DEF Ownership, StacksTagged, MappedKept
    <3> QED
      BY <3>1, <3>2 DEF NewOwner
  <2> QED
    BY <1>3, <2>1 DEF StacksTagged
<1> QED
  BY <1>2, <1>5, <1>6, <1>7, NewOwnerFacts DEF Ownership

(* A domain with the key and the stack of the head of the cache. *)
LEMMA Reused ==
  ASSUME IInv, Ownership, NEW sdi, NewOwner(sdi),
         cache # <<>>, cache' = Tail(cache), UNCHANGED <<next_pkey, mapped>>,
         sdi_address_stack'[sdi] = Head(cache).stack
  PROVE  Ownership'
<1>1. /\ Len(cache) \in Nat /\ Len(cache) > 0
      /\ Head(cache) = cache[1] /\ NewKey = cache[1].key
      /\ DOMAIN cache = 1 .. Len(cache)
      /\ DOMAIN cache' = 1 .. Len(cache) - 1
      /\ \A i \in 1 .. Len(cache) - 1 : cache'[i] = cache[i + 1]
  BY PoppedCache, CacheFacts DEF NewKey
<1>2. 1 \in DOMAIN cache
  BY <1>1
<1>3. ASSUME NEW i \in DOMAIN cache'
      PROVE  i + 1 \in DOMAIN cache /\ i + 1 # 1 /\ cache'[i] = cache[i + 1]
  BY <1>1
<1>4. MappedKept
  BY DEF MappedKept
<1>5. \A d \in Listed : pdi'[d] = pdi[d] /\ sdi_address_stack'[d] = sdi_address_stack[d]
  BY <1>4, NewOwnerFacts
<1>6. KeysApart'
  <2>1. ASSUME NEW d \in Listed', NEW e \in Listed', pdi'[d] = pdi'[e] PROVE d = e
    BY <1>1, <1>2, <1>5, <2>1 DEF NewOwner, Ownership, KeysApart
  <2>2. ASSUME NEW d \in Listed', NEW i \in DOMAIN cache' PROVE pdi'[d] # cache'[i].key
    <3>1. CASE d = sdi
      BY <1>1, <1>2, <1>3, <3>1 DEF NewOwner, Ownership, KeysApart
    <3>2. CASE d \in Listed
      BY <1>3, <1>5, <3>2 DEF Ownership, KeysApart
    <3> QED
      BY <3>1, <3>2 DEF NewOwner
  <2>3. ASSUME NEW i \in DOMAIN cache', NEW j \in DOMAIN cache',
               cache'[i].key = cache'[j].key
        PROVE  i = j
    <3>1. i + 1 = j + 1
      BY <1>3, <2>3 DEF Ownership, KeysApart
    <3> QED
      BY <1>1, <3>1
  <2> QED
    BY <2>1, <2>2, <2>3 DEF KeysApart
<1>7. KeysTaken'
  <2>1. \A d \in Listed' : pdi'[d] < next_pkey'
    BY <1>1, <1>2, <1>5 DEF NewOwner, Ownership, KeysTaken
  <2>2. \A i \in DOMAIN cache' : cache'[i].key < next_pkey'
    BY <1>3 DEF Ownership, KeysTaken
  <2> QED
    BY <2>1, <2>2 DEF KeysTaken
<1>8. KeysFound'
  <2>1. ASSUME NEW k \in 3 .. next_pkey - 1
        PROVE  (\E d \in Listed' : pdi'[d] = k) \/ (\E i \in DOMAIN cache' : cache'[i].key = k)
    <3>1. CASE \E d \in Listed : pdi[d] = k
      BY <1>5, <3>1 DEF NewOwner
    <3>2. CASE \E i \in DOMAIN cache : cache[i].key = k
      <4>1. PICK i \in DOMAIN cache : cache[i].key = k
        BY <3>2
      <4>2. CASE i = 1
        BY <1>1, <4>1, <4>2 DEF NewOwner
      <4>3. CASE i # 1
        <5>1. i - 1 \in DOMAIN cache' /\ cache'[i - 1] = cache[i]
          BY <1>1, <4>1, <4>3
        <5> QED
          BY <4>1, <5>1
      <4> QED
        BY <4>2, <4>3
    <3> QED
      BY <3>1, <3>2 DEF Ownership, KeysFound
  <2> QED
    BY <2>1 DEF KeysFound
<1>9. StacksTagged'
  <2>1. ASSUME NEW d \in Listed'
        PROVE  /\ sdi_address_stack'[d] \in DOMAIN mapped'
               /\ mapped'[sdi_address_stack'[d]] = pdi'[d]
    <3>1. CASE d = sdi
      BY <1>1, <1>2, <3>1 DEF NewOwner, Ownership, StacksTagged
    <3>2. CASE d \in Listed
      BY <1>5, <3>2 DEF Ownership, StacksTagged
    <3> QED
      BY <3>1, <3>2 DEF NewOwner
  <2>2. ASSUME NEW i \in DOMAIN cache'
        PROVE  cache'[i].stack \in DOMAIN mapped' /\ mapped'[cache'[i].stack] = cache'[i].key
    BY <1>3 DEF Ownership, StacksTagged
  <2> QED
    BY <2>1, <2>2 DEF StacksTagged
<1> QED
  BY <1>4, <1>6, <1>7, <1>8, <1>9, NewOwnerFacts DEF Ownership

-----------------------------------------------------------------------------
(* The steps.  What each does to IInv is in SdradDomains_proofs.             *)

(* Steps that hand no domain on. *)
LEMMA QuietStep ==
  ASSUME OInv, IInv', MappedKept,
         UNCHANGED <<udi_control, pdi, cache, next_pkey, sdi_address_stack, pkru_config,
                     sdi_options>>,
         \A i \in 2 .. Len(calls') : calls'[i] \in Listed,
         ctl' = "app" => pkru' \in {PKRU_ALL_UNSET, pkru_config[active_domain']}
  PROVE  OInv'
<1>1. Ownership' /\ Listed' = Listed
  BY SameOwners DEF OInv
<1>2. OptionsExecution' /\ ChainListed'
  BY <1>1 DEF OInv, OptionsExecution, ChainListed
<1>3. PkruOfActive'
  BY DEF PkruOfActive
<1> QED
  BY <1>1, <1>2, <1>3 DEF OInv

(* The same, when the chain and the memory stay too. *)
LEMMA SilentStep ==
  ASSUME OInv, IInv',
         UNCHANGED <<udi_control, pdi, cache, next_pkey, sdi_address_stack, pkru_config,
                     sdi_options, mapped, calls>>,
         ctl' = "app" => pkru' \in {PKRU_ALL_UNSET, pkru_config[active_domain']}
  PROVE  OInv'
<1>1. MappedKept
  BY DEF MappedKept
<1>2. \A i \in 2 .. Len(calls') : calls'[i] \in Listed
  BY DEF OInv, ChainListed
<1> QED
  BY <1>1, <1>2, QuietStep

(* The actions that write none of the owners' tables, one by one. *)
LEMMA ReturnErrorOwners ==
  ASSUME OInv, IInv', ReturnError
  PROVE  OInv'
BY SilentStep DEF ReturnError, mgrVars, infoVars

(* A second sdrad_init of a listed domain takes nothing. *)
LEMMA SaveContextOwners ==
  ASSUME OInv, IInv', NEW udi, NEW feature, sdrad_init_save_context(udi, feature)
  PROVE  OInv'
BY SilentStep DEF sdrad_init_save_context, mgrVars

(* Nor does one that finds no slot. *)
LEMMA NoSlotOwners ==
  ASSUME OInv, IInv', NEW udi, NEW feature, sdrad_init_no_slot(udi, feature)
  PROVE  OInv'
BY SilentStep DEF sdrad_init_no_slot, mgrVars, infoVars

(* Entering a domain that has no stack ends the program. *)
LEMMA EnterNoStackOwners ==
  ASSUME OInv, IInv', NEW udi, sdrad_enter_no_stack(udi)
  PROVE  OInv'
BY SilentStep DEF sdrad_enter_no_stack, mgrVars, infoVars

(* sdrad_deinit forgets a saved context and no more. *)
LEMMA DeinitOwners ==
  ASSUME OInv, IInv', NEW udi, sdrad_deinit(udi)
  PROVE  OInv'
BY SilentStep DEF sdrad_deinit, mgrVars

(* A fault changes nothing before the handler runs. *)
LEMMA ViolationOwners ==
  ASSUME OInv, IInv', Violation
  PROVE  OInv'
BY SilentStep DEF Violation, mgrVars, infoVars

(* The handler chooses the way out and moves nothing. *)
LEMMA AbnormalExitOwners ==
  ASSUME OInv, IInv', sdrad_abnormal_domain_exit
  PROVE  OInv'
BY SilentStep DEF sdrad_abnormal_domain_exit, mgrVars, infoVars

(* A step that changes nothing. *)
LEMMA StutterOwners ==
  ASSUME OInv, IInv', UNCHANGED vars
  PROVE  OInv'
BY SilentStep DEF vars, mgrVars, infoVars, OInv, PkruOfActive

(* A heap for a slot is one more region. *)
LEMMA HeapKeeps ==
  ASSUME IInv, NEW sdi \in Slot, sdrad_heap_domain_init(sdi, pdi[sdi])
  PROVE  MappedKept
<1>1. pdi[sdi] \in Key /\ mapped' = Append(mapped, pdi[sdi])
  BY DEF IInv, TypeOK, sdrad_heap_domain_init
<1> QED
  BY <1>1, AppendKeeps

(* The first malloc of a domain maps its heap. *)
LEMMA MallocOwners ==
  ASSUME OInv, IInv', malloc
  PROVE  OInv'
<1>1. MappedKept
  BY HeapKeeps DEF OInv, IInv, TypeOK, malloc, CreateActiveHeap
<1>2. \A i \in 2 .. Len(calls') : calls'[i] \in Listed
  BY DEF OInv, ChainListed, malloc
<1> QED
  BY <1>1, <1>2, QuietStep DEF malloc, mgrVars

(* So does the first sdrad_malloc on a domain. *)
LEMMA SdradMallocOwners ==
  ASSUME OInv, IInv', NEW udi, sdrad_malloc(udi)
  PROVE  OInv'
<1>1. PICK sdi \in sdrad_search_udi_control(udi) :
        IF sdi_init_heap_flag[sdi]
          THEN UNCHANGED <<mapped, sdi_tlsf, sdi_init_heap_flag>>
          ELSE sdrad_heap_domain_init(sdi, pdi[sdi])
  BY DEF sdrad_malloc
<1>2. sdi \in Slot
  BY SearchListed, ListedFacts DEF OInv
<1>3. MappedKept
  <2>1. CASE mapped' = mapped
    BY <2>1 DEF MappedKept
  <2>2. CASE sdrad_heap_domain_init(sdi, pdi[sdi])
    BY <1>2, <2>2, HeapKeeps DEF OInv
  <2> QED
    BY <1>1, <2>1, <2>2
<1>4. \A i \in 2 .. Len(calls') : calls'[i] \in Listed
  BY DEF OInv, ChainListed, sdrad_malloc
<1> QED
  BY <1>3, <1>4, QuietStep DEF sdrad_malloc, mgrVars

(* The domain entered is listed: it was found in the list. *)
LEMMA EnterOwners ==
  ASSUME OInv, IInv', NEW udi, sdrad_enter(udi)
  PROVE  OInv'
<1>1. PICK sdi \in sdrad_search_udi_control(udi) :
        /\ active_domain' = sdi
        /\ pkru' = pkru_config[sdi]
        /\ calls' = Append(calls, sdi)
  BY DEF sdrad_enter
<1>2. sdi \in Listed /\ sdi \in Slot
  BY SearchListed, ListedFacts DEF OInv
<1>3. \A i \in 2 .. Len(calls') : calls'[i] \in Listed
  <2>1. calls \in Seq(Slot)
    BY DEF OInv, IInv, TypeOK
  <2>2. /\ Len(calls') = Len(calls) + 1 /\ Len(calls) \in Nat
        /\ \A i \in 1 .. Len(calls) : calls'[i] = calls[i]
        /\ calls'[Len(calls) + 1] = sdi
    BY <1>1, <1>2, <2>1, AppendProperties, LenProperties
  <2> QED
    BY <1>2, <2>2 DEF OInv, ChainListed
<1>4. MappedKept
  BY DEF sdrad_enter, MappedKept
<1> QED
  BY <1>1, <1>3, <1>4, QuietStep DEF sdrad_enter, mgrVars

(* A chain that is cut holds what it held. *)
LEMMA CutListed ==
  ASSUME OInv, Len(calls) > 1, calls' = SubSeq(calls, 1, Len(calls) - 1)
  PROVE  /\ Len(calls') = Len(calls) - 1 /\ Len(calls) \in Nat
         /\ \A i \in 2 .. Len(calls') : calls'[i] = calls[i] /\ calls[i] \in Listed
<1>1. calls \in Seq(Slot)
  BY DEF OInv, IInv, TypeOK
<1>2. Len(calls) \in Nat /\ Len(calls) - 1 \in 0 .. Len(calls)
  BY <1>1, LenProperties
<1>3. /\ Len(calls') = Len(calls) - 1
      /\ \A i \in 1 .. Len(calls) - 1 : calls'[i] = calls[i]
  BY <1>1, <1>2, CutProperties
<1> QED
  BY <1>2, <1>3 DEF OInv, ChainListed

(* sdrad_exit goes back to a domain that was on the chain. *)
LEMMA ExitOwners ==
  ASSUME OInv, IInv', sdrad_exit
  PROVE  OInv'
<1>1. sdi_last_rsp[sdi_parent_domain[active_domain]] = Len(calls) - 1 /\ Len(calls) > 1
  <2>1. Len(calls) > 1
    BY DEF sdrad_exit
  <2>2. Linked(Len(calls)) /\ active_domain = calls[Len(calls)]
    BY <2>1, ChainFacts DEF OInv, IInv, CallChain
  <2> QED
    BY <2>1, <2>2 DEF Linked
<1>2. \A i \in 2 .. Len(calls') : calls'[i] \in Listed
  BY <1>1, CutListed DEF sdrad_exit
<1>3. MappedKept
  BY DEF sdrad_exit, MappedKept
<1> QED
  BY <1>2, <1>3, QuietStep DEF sdrad_exit, Resume, mgrVars

(* A new domain takes a fresh key, or that of the head of the cache.         *)
LEMMA InitExecOwners ==
  ASSUME ExecutionOnly, OInv, IInv', NEW udi \in Udi, NEW feature \in Features,
         sdrad_init_exec(udi, feature)
  PROVE  OInv'
<1>1. PICK sdi \in sdrad_find_free_domain :
        /\ MapNewDomain(udi, feature, sdi)
        /\ sdrad_execution_domain_init(sdi, NewKey)
        /\ pkru_config' = ConfigsForNew(sdi, feature)
        /\ pkru' = pkru_config'[active_domain]
  BY DEF sdrad_init_exec
<1>2. UNCHANGED <<active_domain, calls>> /\ "DATA" \notin feature
  BY DEF sdrad_init_exec
<1>3. IInv /\ Ownership
  BY DEF OInv
<1>4. /\ Listed' = Listed \cup {sdi} /\ sdi \notin Listed
      /\ sdi \in Slot /\ sdi # ROOT_DOMAIN /\ sdi # active_domain
  <2>1. sdi \in Slot /\ sdi >= DOMAIN_2 /\ OffChain(sdi)
    BY <1>3, FreeFacts
  <2>2. sdi # active_domain
    BY <1>3, <2>1, ChainFacts DEF IInv, CallChain, OffChain
  <2> QED
    BY <1>1, <1>3, <2>1, <2>2, ListedWith DEF DOMAIN_2, ROOT_DOMAIN, Slot
<1>5. /\ NewKey \in Key /\ NewKey >= 3
      /\ (cache = <<>> => next_pkey < NUM_PKEYS)
  BY <1>1, <1>3, NewKeyFacts DEF MapNewDomain, InitAccepts
<1>6. /\ pdi \in [Slot -> Key] /\ pkru_config \in [Slot -> Pkru]
      /\ sdi_options \in [Slot -> SUBSET Flag]
      /\ sdi_address_stack \in [Slot -> Nat] /\ active_domain \in Slot
  BY <1>3 DEF IInv, TypeOK
<1>7. /\ pdi'[sdi] = NewKey /\ \A d \in Slot \ {sdi} : pdi'[d] = pdi[d]
      /\ \A d \in Slot \ {sdi} : sdi_options'[d] = sdi_options[d]
      /\ sdi_options'[sdi] = feature
      /\ next_pkey' = IF cache = <<>> THEN next_pkey + 1 ELSE next_pkey
  BY <1>1, <1>4, <1>6 DEF MapNewDomain
<1>8. pkru_config'[sdi][NewKey] = 0
  <2>1. pkru_config'[sdi] = sdrad_pkru_default_config(NewKey)
    BY <1>1, <1>4, <1>6 DEF ConfigsForNew
  <2>2. PKRU_ALL_READ_ONLY_RD \in Pkru
    BY PkruTypes
  <2> QED
    BY <1>5, <2>1, <2>2 DEF sdrad_pkru_default_config, sdrad_set_access_pdi, Pkru
<1>9. ASSUME NEW d \in Slot \ {sdi}, NEW k \in Key, pkru_config[d][k] = 0
      PROVE  pkru_config'[d][k] = 0
  <2>1. \/ pkru_config'[d] = pkru_config[d]
        \/ pkru_config'[d] = sdrad_set_access_pdi(pkru_config[d], NewKey, 0)
    BY <1>1, <1>4, <1>6 DEF ConfigsForNew
  <2>2. pkru_config[d] \in Pkru
    BY <1>6
  <2> QED
    BY <1>5, <1>9, <2>1, <2>2 DEF sdrad_set_access_pdi, Pkru
<1>10. \A d \in Slot \ {sdi} : sdi_address_stack'[d] = sdi_address_stack[d]
  BY <1>1, <1>6 DEF sdrad_execution_domain_init
<1>11. NewOwner(sdi)
  BY <1>4, <1>7, <1>8, <1>9, <1>10 DEF NewOwner
<1>12. Ownership'
  <2>1. CASE cache = <<>>
    <3>1. /\ sdi_address_stack'[sdi] = Len(mapped) + 1
          /\ mapped' = Append(mapped, NewKey) /\ cache' = cache
      BY <1>1, <1>4, <1>6, <2>1 DEF sdrad_execution_domain_init
    <3>2. next_pkey' = next_pkey + 1
      BY <1>7, <2>1
    <3> QED
      BY <1>3, <1>5, <1>11, <2>1, <3>1, <3>2, Created
  <2>2. CASE cache # <<>>
    <3>1. /\ sdi_address_stack'[sdi] = Head(cache).stack
          /\ cache' = Tail(cache) /\ mapped' = mapped
      BY <1>1, <1>4, <1>6, <2>2 DEF sdrad_execution_domain_init, sdrad_delete_cache_domain
    <3>2. next_pkey' = next_pkey
      BY <1>7, <2>2
    <3> QED
      BY <1>3, <1>11, <2>2, <3>1, <3>2, Reused
  <2> QED
    BY <2>1, <2>2
<1>13. OptionsExecution' /\ ChainListed' /\ PkruOfActive'
  BY <1>1, <1>2, <1>4, <1>7 DEF OInv, OptionsExecution, ChainListed, PkruOfActive
<1> QED
  BY <1>12, <1>13 DEF OInv

(* A destroyed domain goes to the cache; without HEAP_MERGE it leaves the    *)
(* list in the same call.                                                    *)
LEMMA DestroyOwners ==
  ASSUME ExecutionOnly, OInv, IInv', NEW udi, NEW options \in Options,
         sdrad_destroy(udi, options)
  PROVE  OInv'
<1> DEFINE entry(sdi) ==
             [stack |-> sdi_address_stack[sdi],
              heap  |-> IF sdi_init_heap_flag[sdi] THEN sdi_tlsf[sdi] ELSE NULL,
              key   |-> pdi[sdi]]
<1>1. options # "HEAP_MERGE"
  BY DEF ExecutionOnly
<1>2. PICK sdi \in sdrad_search_udi_control(udi) :
        /\ OffChain(sdi)
        /\ cache' = <<entry(sdi)>> \o cache
        /\ pdi' = [pdi EXCEPT ![sdi] = 0]
        /\ udi_control' = sdrad_delete_control_structure(udi_control, sdi)
        /\ pkru' = pkru_config[active_domain]
        /\ IF FreeFaults(udi_control, sdi)
             THEN CreateActiveHeap(active_domain) /\ ctl' = "fault"
             ELSE UNCHANGED <<heapVars, ctl>>
  BY <1>1 DEF sdrad_destroy
<1>3. UNCHANGED <<next_pkey, active_domain, pkru_config, sdi_address_stack, sdi_options, calls>>
  BY DEF sdrad_destroy
<1>4. /\ sdi \in Listed /\ sdi \in Slot /\ IInv /\ Ownership
      /\ pdi \in [Slot -> Key] /\ active_domain \in Slot
  BY SearchListed, ListedFacts DEF OInv, IInv, TypeOK
<1>5. MappedKept
  <2>1. CASE UNCHANGED heapVars
    BY <2>1 DEF MappedKept, heapVars
  <2>2. CASE CreateActiveHeap(active_domain)
    BY <1>4, <2>2, HeapKeeps DEF CreateActiveHeap
  <2> QED
    BY <1>2, <2>1, <2>2
<1>6. /\ entry(sdi) \in CacheEntry
      /\ entry(sdi).key = pdi[sdi] /\ entry(sdi).stack = sdi_address_stack[sdi]
  BY <1>4 DEF IInv, TypeOK, CacheEntry, NULL
<1> HIDE DEF entry
<1>7. \A d \in Listed \ {sdi} : pdi'[d] = pdi[d]
  BY <1>2, <1>4, ListedFacts
<1>8. Ownership' /\ Listed' = Listed \ {sdi}
  BY <1>2, <1>3, <1>4, <1>5, <1>6, <1>7, Retired
<1>9. ChainListed'
  BY <1>2, <1>3, <1>8, ChainFacts DEF OInv, ChainListed, OffChain
<1>10. OptionsExecution' /\ PkruOfActive'
  BY <1>2, <1>3 DEF OInv, OptionsExecution, PkruOfActive
<1> QED
  BY <1>8, <1>9, <1>10 DEF OInv

(* So does the domain that a rewind destroys. *)
LEMMA RewindOwners ==
  ASSUME OInv, IInv', sdrad_init_destroy
  PROVE  OInv'
<1> DEFINE sdi == active_domain
<1>1. IInv /\ Ownership /\ Len(calls) > 1
  BY DEF OInv, IInv, RewindAboveRoot, sdrad_init_destroy
<1>2. sdi = calls[Len(calls)] /\ sdi_buffer[sdi] = Len(calls) - 1 /\ sdi \in Slot
  <2>1. Linked(Len(calls)) /\ sdi = calls[Len(calls)] /\ sdi \in Slot
    BY <1>1, ChainFacts DEF IInv, CallChain
  <2> QED
    BY <2>1 DEF Linked
<1>3. sdi \in Listed
  BY <1>1, <1>2, ChainFacts DEF OInv, ChainListed
<1>4. /\ cache' = <<RewoundEntry(sdi, pdi[sdi])>> \o cache
      /\ udi_control' = sdrad_delete_control_structure(udi_control, sdi)
      /\ IF FreeFaults(udi_control, sdi)
           THEN RewindFaults(sdi_parent_domain[sdi], sdi_buffer[sdi])
           ELSE RewindCompletes(sdi, sdi_buffer[sdi])
      /\ UNCHANGED <<pdi, next_pkey, pkru_config, sdi_parent_domain, sdi_address_stack,
                     sdi_options>>
  BY <1>1, <1>2 DEF IInv, OptionsKnown, sdrad_init_destroy, RewindToCurrent, RewindToParent
<1>5. calls' = SubSeq(calls, 1, Len(calls) - 1)
  BY <1>2, <1>4 DEF RewindFaults, RewindCompletes
<1>6. MappedKept
  <2>1. sdi_parent_domain[sdi] \in Slot
    BY <1>1, <1>2 DEF IInv, TypeOK
  <2>2. CASE RewindFaults(sdi_parent_domain[sdi], sdi_buffer[sdi])
    BY <1>1, <2>1, <2>2, HeapKeeps DEF RewindFaults, CreateActiveHeap
  <2>3. CASE RewindCompletes(sdi, sdi_buffer[sdi])
    BY <2>3 DEF RewindCompletes, MappedKept
  <2> QED
    BY <1>4, <2>2, <2>3
<1>7. /\ RewoundEntry(sdi, pdi[sdi]) \in CacheEntry
      /\ RewoundEntry(sdi, pdi[sdi]).key = pdi[sdi]
      /\ RewoundEntry(sdi, pdi[sdi]).stack = sdi_address_stack[sdi]
  BY <1>1, <1>2 DEF RewoundEntry, IInv, TypeOK, CacheEntry, NULL
<1> HIDE DEF sdi
<1>8. Ownership' /\ Listed' = Listed \ {sdi}
  BY <1>1, <1>3, <1>4, <1>6, <1>7, Retired
<1>9. ChainListed'
  <2>1. \A i \in 1 .. Len(calls) - 1 : calls[i] # sdi
    BY <1>1, <1>2, ChainFacts DEF IInv, CallChain
  <2> QED
    BY <1>1, <1>5, <1>8, <2>1, CutListed DEF ChainListed
<1>10. OptionsExecution'
  BY <1>4 DEF OInv, OptionsExecution
<1>11. PkruOfActive'
  BY <1>4 DEF PkruOfActive, RewindFaults, RewindCompletes, Resume
<1> QED
  BY <1>8, <1>9, <1>10, <1>11 DEF OInv

-----------------------------------------------------------------------------
(* The theorems *)

(* At the start only the root owns anything. *)
LEMMA InitOwners ==
  ASSUME Init
  PROVE  OInv
<1> USE BaseAssumption
<1>1. IInv
  BY InitIInv
<1>2. /\ Listed = {} /\ cache = <<>> /\ DOMAIN cache = {} /\ next_pkey = 3
      /\ calls = <<ROOT_DOMAIN>> /\ Len(calls) = 1
  BY DEF Init, Listed
<1>3. ROOT_DOMAIN \in Slot /\ 2 \in Key
  BY DEF ROOT_DOMAIN, Slot, Key
<1>4. RootStack
  <2>1. pkru_config[ROOT_DOMAIN] = sdrad_pkru_default_config(2)
    BY <1>3 DEF Init
  <2>2. pkru_config[ROOT_DOMAIN][2] = 0
    BY <1>3, <2>1 DEF sdrad_pkru_default_config, sdrad_set_access_pdi, PKRU_ALL_READ_ONLY_RD
  <2>3. /\ sdi_address_stack[ROOT_DOMAIN] = 1
        /\ mapped = <<2>> /\ DOMAIN mapped = {1} /\ mapped[1] = 2
    BY <1>3 DEF Init
  <2> QED
    BY <2>2, <2>3 DEF RootStack
<1>5. Ownership
  BY <1>2, <1>4 DEF Ownership, KeysApart, KeysTaken, KeysFound, StacksTagged, OwnKeyOpen
<1>6. OptionsExecution /\ ChainListed /\ PkruOfActive
  BY <1>2, <1>3 DEF Init, OptionsExecution, ChainListed, PkruOfActive
<1> QED
  BY <1>1, <1>5, <1>6 DEF OInv

(* Every call for a udi preserves it: there is no data domain to create, nor *)
(* one to give access to.                                                    *)
LEMMA ApiCallOwners ==
  ASSUME ExecutionOnly, OInv, IInv', NEW udi \in Udi, ApiCall(udi)
  PROVE  OInv'
<1>1. CASE \E feature \in Features : sdrad_init_error(udi, feature)
  BY <1>1, ReturnErrorOwners DEF sdrad_init_error
<1>2. CASE \E feature \in Features : sdrad_init_save_context(udi, feature)
  BY <1>2, SaveContextOwners
<1>3. CASE \E feature \in Features : sdrad_init_no_slot(udi, feature)
  BY <1>3, NoSlotOwners
<1>4. CASE \E feature \in Features : sdrad_init_data(udi, feature)
  BY <1>4 DEF ExecutionOnly, sdrad_init_data
<1>5. CASE \E feature \in Features : sdrad_init_exec(udi, feature)
  BY <1>5, InitExecOwners
<1>6. CASE sdrad_enter_error(udi) \/ sdrad_no_such_domain(udi)
  BY <1>6, ReturnErrorOwners DEF sdrad_enter_error, sdrad_no_such_domain
<1>7. CASE sdrad_enter(udi)
  BY <1>7, EnterOwners
<1>8. CASE sdrad_deinit(udi)
  BY <1>8, DeinitOwners
<1>9. CASE \E options \in Options : sdrad_destroy(udi, options)
  BY <1>9, DestroyOwners
<1>10. CASE \E target \in Udi \cup {0} : sdrad_dprotect_error(target, udi)
  BY <1>10, ReturnErrorOwners DEF sdrad_dprotect_error
<1>11. CASE \E target \in Udi \cup {0}, access_status \in Access :
              sdrad_dprotect(target, udi, access_status)
  <2>1. PICK source \in sdrad_search_udi_control(udi) : "DATA" \in sdi_options[source]
    BY <1>11 DEF sdrad_dprotect
  <2>2. source \in Slot
    BY SearchListed, ListedFacts DEF OInv
  <2> QED
    BY <2>1, <2>2 DEF OInv, OptionsExecution
<1>12. CASE sdrad_malloc(udi)
  BY <1>12, SdradMallocOwners
<1>13. CASE sdrad_enter_no_stack(udi)
  BY <1>13, EnterNoStackOwners
<1> QED
  BY <1>1, <1>2, <1>3, <1>4, <1>5, <1>6, <1>7, <1>8, <1>9, <1>10, <1>11, <1>12, <1>13
    DEF ApiCall

(* Every step keeps the ownership invariant. *)
LEMMA NextOwners ==
  ASSUME ExecutionOnly, OInv, [Next]_vars
  PROVE  OInv'
<1>1. IInv'
  BY ExecutionImpliesCurrent, NextIInv DEF OInv
<1>2. CASE \E udi \in Udi : ApiCall(udi)
  BY <1>1, <1>2, ApiCallOwners
<1>3. CASE sdrad_exit
  BY <1>1, <1>3, ExitOwners
<1>4. CASE malloc
  BY <1>1, <1>4, MallocOwners
<1>5. CASE Violation
  BY <1>1, <1>5, ViolationOwners
<1>6. CASE Handler
  BY <1>1, <1>6, AbnormalExitOwners, RewindOwners DEF Handler
<1>7. CASE Ended
  BY <1>1, <1>7, StutterOwners DEF Ended
<1>8. CASE UNCHANGED vars
  BY <1>1, <1>8, StutterOwners
<1> QED
  BY <1>2, <1>3, <1>4, <1>5, <1>6, <1>7, <1>8 DEF Next

(* With execution domains only, the ownership invariant holds.               *)
THEOREM OwnersInvariance ==
  ASSUME ExecutionOnly
  PROVE  Spec => []OInv
<1>1. Init => OInv
  BY InitOwners
<1>2. OInv /\ [Next]_vars => OInv'
  BY NextOwners
<1> QED
  BY <1>1, <1>2, PTL DEF Spec

(* The records of SdradDomains: what stands in the list and in the cache. *)
ListOwner(i) ==
  [at |-> <<"list", i>>, stack |-> sdi_address_stack[udi_control[i].sdi],
   key |-> pdi[udi_control[i].sdi]]
CacheOwner(i) ==
  [at |-> <<"cache", i>>, stack |-> cache[i].stack, key |-> cache[i].key]

(* The set Owners of SdradDomains, by its two kinds of members. *)
LEMMA OwnersAre ==
  ASSUME NEW o
  PROVE  o \in Owners <=> \/ \E i \in DOMAIN udi_control : o = ListOwner(i)
                          \/ \E i \in DOMAIN cache : o = CacheOwner(i)
BY DEF Owners, ListOwner, CacheOwner

(* No two owners have one key. *)
LEMMA OwnersApart ==
  ASSUME OInv, NEW o \in Owners, NEW p \in Owners, o.key = p.key
  PROVE  o = p
<1>1. KeysApart
  BY DEF OInv, Ownership
<1>2. CASE \E i \in DOMAIN udi_control : o = ListOwner(i)
  <2>1. PICK i \in DOMAIN udi_control : o = ListOwner(i)
    BY <1>2
  <2>2. udi_control[i].sdi \in Listed /\ o.key = pdi[udi_control[i].sdi]
    BY <2>1 DEF Listed, ListOwner
  <2>3. ASSUME NEW j \in DOMAIN udi_control, p = ListOwner(j) PROVE o = p
    <3>1. udi_control[j].sdi \in Listed /\ p.key = pdi[udi_control[j].sdi]
      BY <2>3 DEF Listed, ListOwner
    <3>2. udi_control[i].sdi = udi_control[j].sdi
      BY <1>1, <2>2, <3>1 DEF KeysApart
    <3>3. i = j
      BY <3>2 DEF OInv, IInv, ControlWellFormed
    <3> QED
      BY <2>1, <2>3, <3>3
  <2>4. ASSUME NEW j \in DOMAIN cache, p = CacheOwner(j) PROVE FALSE
    BY <1>1, <2>2, <2>4 DEF CacheOwner, KeysApart
  <2> QED
    BY <2>3, <2>4, OwnersAre
<1>3. CASE \E i \in DOMAIN cache : o = CacheOwner(i)
  <2>1. PICK i \in DOMAIN cache : o = CacheOwner(i)
    BY <1>3
  <2>2. o.key = cache[i].key
    BY <2>1 DEF CacheOwner
  <2>3. ASSUME NEW j \in DOMAIN udi_control, p = ListOwner(j) PROVE FALSE
    <3>1. udi_control[j].sdi \in Listed /\ p.key = pdi[udi_control[j].sdi]
      BY <2>3 DEF Listed, ListOwner
    <3> QED
      BY <1>1, <2>2, <3>1 DEF KeysApart
  <2>4. ASSUME NEW j \in DOMAIN cache, p = CacheOwner(j) PROVE o = p
    <3>1. p.key = cache[j].key
      BY <2>4 DEF CacheOwner
    <3>2. i = j
      BY <1>1, <2>2, <3>1 DEF KeysApart
    <3> QED
      BY <2>1, <2>4, <3>2
  <2> QED
    BY <2>3, <2>4, OwnersAre
<1> QED
  BY <1>2, <1>3, OwnersAre

(* Creating, destroying, rewinding and reusing execution domains, in any     *)
(* order and any number of times, neither loses a protection key nor gives   *)
(* one to two of them.                                                       *)
THEOREM KeysAreConserved ==
  ASSUME ExecutionOnly
  PROVE  Spec => []KeysConserved
<1>1. OInv => KeysConserved
  <2> SUFFICES ASSUME OInv, NEW k \in 3 .. next_pkey - 1
               PROVE  \E o \in Owners : \A p \in Owners : p.key = k <=> p = o
    BY DEF KeysConserved
  <2>1. PICK o \in Owners : o.key = k
    <3>1. CASE \E d \in Listed : pdi[d] = k
      <4>1. PICK i \in DOMAIN udi_control : pdi[udi_control[i].sdi] = k
        BY <3>1 DEF Listed
      <4>2. ListOwner(i) \in Owners /\ ListOwner(i).key = k
        BY <4>1, OwnersAre DEF ListOwner
      <4> QED
        BY <4>2
    <3>2. CASE \E i \in DOMAIN cache : cache[i].key = k
      <4>1. PICK i \in DOMAIN cache : cache[i].key = k
        BY <3>2
      <4>2. CacheOwner(i) \in Owners /\ CacheOwner(i).key = k
        BY <4>1, OwnersAre DEF CacheOwner
      <4> QED
        BY <4>2
    <3> QED
      BY <3>1, <3>2 DEF OInv, Ownership, KeysFound
  <2>2. \A p \in Owners : p.key = k <=> p = o
    BY <2>1, OwnersApart
  <2> QED
    BY <2>2
<1> QED
  BY <1>1, OwnersInvariance, PTL

(* A stack is never in two hands, and the tag it was given when it was       *)
(* mapped stays the key of whoever has it.                                   *)
THEOREM StacksAreOwned ==
  ASSUME ExecutionOnly
  PROVE  Spec => []StacksOwned
<1>1. OInv => StacksOwned
  <2> SUFFICES ASSUME OInv PROVE StacksOwned
    OBVIOUS
  <2>1. ASSUME NEW o \in Owners
        PROVE  o.stack \in DOMAIN mapped /\ mapped[o.stack] = o.key
    <3>1. StacksTagged
      BY DEF OInv, Ownership
    <3>2. ASSUME NEW i \in DOMAIN udi_control, o = ListOwner(i)
          PROVE  o.stack \in DOMAIN mapped /\ mapped[o.stack] = o.key
      <4>1. udi_control[i].sdi \in Listed
        BY DEF Listed
      <4> QED
        BY <3>1, <3>2, <4>1 DEF ListOwner, StacksTagged
    <3>3. ASSUME NEW i \in DOMAIN cache, o = CacheOwner(i)
          PROVE  o.stack \in DOMAIN mapped /\ mapped[o.stack] = o.key
      BY <3>1, <3>3 DEF CacheOwner, StacksTagged
    <3> QED
      BY <3>2, <3>3, OwnersAre
  <2>2. ASSUME NEW o \in Owners, NEW p \in Owners, p.stack = o.stack PROVE p = o
    BY <2>1, <2>2, OwnersApart
  <2> QED
    BY <2>1, <2>2 DEF StacksOwned
<1> QED
  BY <1>1, OwnersInvariance, PTL

(* Every domain that runs, or waits for one it called, can use its stack.    *)
THEOREM StacksAreUsable ==
  ASSUME ExecutionOnly
  PROVE  Spec => []StackUsable
<1>1. OInv => StackUsable
  <2> SUFFICES ASSUME OInv, NEW i \in DOMAIN calls
               PROVE  pkru_config[calls[i]][mapped[sdi_address_stack[calls[i]]]] = 0
    BY DEF StackUsable
  <2>1. CASE i = 1
    BY <2>1 DEF OInv, IInv, CallChain, Ownership, RootStack
  <2>2. CASE i # 1
    <3>1. calls[i] \in Listed
      BY <2>2, ChainFacts DEF OInv, ChainListed
    <3> QED
      BY <3>1 DEF OInv, Ownership, StacksTagged, OwnKeyOpen
  <2> QED
    BY <2>1, <2>2
<1> QED
  BY <1>1, OwnersInvariance, PTL

(* However control came back to application code, the register is the PKRU   *)
(* of the domain that runs, or the open one of an error return.              *)
THEOREM PkruIsOfActive ==
  ASSUME ExecutionOnly
  PROVE  Spec => []PkruOfActive
<1>1. OInv => PkruOfActive
  BY DEF OInv
<1> QED
  BY <1>1, OwnersInvariance, PTL
=============================================================================
