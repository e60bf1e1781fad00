----------------------------- MODULE SdradSignals -----------------------------
(***************************************************************************)
(* Signals that arrive while the library is at work.  One handler serves   *)
(* SIGSEGV and SIGALRM, and rewinds whatever domain is active at that      *)
(* moment; a timer can go off between any two writes of sdrad_init,        *)
(* sdrad_enter, sdrad_exit, sdrad_destroy, of the handler and of           *)
(* sdrad_init_destroy.  SdradDomains takes each of these as one step; here *)
(* a step is one write to the tables, for execution domains that return to *)
(* their creator, and what does not matter to that is left out.            *)
(*                                                                         *)
(* A blocked signal stays blocked: longjmp does not restore the mask.  A   *)
(* SIGSEGV that is raised while it is blocked kills the process.           *)
(*                                                                         *)
(* The allocator's calls are one step each; a timer in the middle of one   *)
(* on the monitor's heap is not modelled.                                  *)
(***************************************************************************)
EXTENDS Naturals, Sequences, SequencesExt

CONSTANTS
  TOTAL_DOMAIN, Udi,
  MaxKeys,        \* the last protection key, 15 on x86
  MaxFaults       \* bound: faults of the application

(* The constructor has made two domains, with two keys. *)
ASSUME SignalsAssumption ==
  /\ TOTAL_DOMAIN \in Nat /\ TOTAL_DOMAIN > 2
  /\ Udi \subseteq Nat \ {0}
  /\ MaxKeys \in Nat /\ MaxKeys > 1 /\ MaxFaults \in Nat

VARIABLES
  status,              \* the slots in use
  udi_control,         \* the list of [udi, sdi], head first
  pdi,                 \* slot -> key
  sdi_address_stack,   \* slot -> stack
  cache,               \* the list of [key, stack], head first
  sdi_parent_domain, sdi_saved_ex,
  sdi_buffer,          \* slot -> the level of calls its jmp_buf belongs to, 0: none
  active_domain,
  tlsf_structure,      \* the slot whose heap malloc uses
  mask,                \* the blocked signals
  ctl,                 \* "app", or the next step of the library
  udi, sdi, pkey,      \* locals of the call
  next,                \* the next key, and the next stack
  calls,               \* the domains on the call chain
  ready,               \* the slots for which the application saw sdrad_init succeed
  torn,                \* a timer went off with the tables half updated
  faults

listVars == <<status, udi_control, cache, next>>
slotVars == <<pdi, sdi_address_stack, sdi_parent_domain, sdi_saved_ex, sdi_buffer, ready>>
runVars  == <<active_domain, tlsf_structure, calls>>
locals   == <<udi, sdi, pkey>>
vars == <<listVars, slotVars, runVars, locals, mask, ctl, torn, faults>>

MONITOR_DATA == 0
ROOT_DOMAIN  == 1
Slot == 0 .. TOTAL_DOMAIN - 1
NULL == 0

(* The slot of a node that is linked and not filled in: the memory holds     *)
(* list pointers of the allocator, which are no slot.                        *)
NO_SLOT == TOTAL_DOMAIN

InitPc    == {"slot", "node", "udi", "sdi", "key", "stack", "context"}
EnterPc   == {"e_active", "e_switch"}
ExitPc    == {"x_heap"}
DestroyPc == {"d_cache", "d_fill", "d_key", "d_unlist"}
HandlerPc == {"handler", "longjmp"}
RewindPc  == {"rewind", "r_cache", "r_fill", "r_unlist", "r_status", "r_resume"}
Over      == {"aborted", "killed", "corrupt"}
Control   == {"app"} \cup InitPc \cup EnterPc \cup ExitPc \cup DestroyPc
             \cup HandlerPc \cup RewindPc \cup Over

(* Between these writes the tables contradict themselves. *)
HalfUpdated == {"sdi", "key", "stack", "d_fill", "d_key", "d_unlist", "r_fill", "r_unlist"}

App == ctl = "app"
At(here) == ctl = here
Goto(there) == ctl' = there

-----------------------------------------------------------------------------
Init ==
  /\ status = {MONITOR_DATA, ROOT_DOMAIN}
  /\ udi_control = <<>> /\ cache = <<>>
  /\ pdi = [s \in Slot |-> CASE s = MONITOR_DATA -> 1 [] s = ROOT_DOMAIN -> 2 [] OTHER -> 0]
  /\ sdi_address_stack = [s \in Slot |-> IF s = ROOT_DOMAIN THEN 2 ELSE NULL]
  /\ sdi_parent_domain = [s \in Slot |-> IF s = ROOT_DOMAIN THEN ROOT_DOMAIN ELSE MONITOR_DATA]
  /\ sdi_saved_ex = [s \in Slot |-> FALSE]
  /\ sdi_buffer = [s \in Slot |-> 0]
  /\ active_domain = ROOT_DOMAIN /\ tlsf_structure = ROOT_DOMAIN /\ calls = <<ROOT_DOMAIN>>
  /\ mask = {} /\ ctl = "app" /\ udi = 0 /\ sdi = 0 /\ pkey = 0
  /\ next = 3 /\ ready = {} /\ torn = FALSE /\ faults = 0

(* The least of some numbers, as a set: searches go upwards and stop at it. *)
First(hits) == {k \in hits : \A j \in hits : k <= j}

sdrad_search_udi_control(u) ==
  {udi_control[k].sdi : k \in First({k \in DOMAIN udi_control : udi_control[k].udi = u})}

(* What it answers for u, unless that is the content of a node left half filled in. *)
FoundSlot(u) == sdrad_search_udi_control(u) \ {NO_SLOT}

(* The library returns to the application. *)
ReturnFrom == Goto("app") /\ udi' = 0 /\ sdi' = 0 /\ pkey' = 0

(* SIGSEGV, from application code or from the library's own. *)
RaiseSegv ==
  IF "SIGSEGV" \in mask THEN Goto("killed") /\ UNCHANGED mask
                        ELSE Goto("handler") /\ mask' = mask \cup {"SIGSEGV"}

(* The frames that die when the chain is cut down to level. *)
FramesUpTo(level) == [d \in Slot |-> IF sdi_buffer[d] > level THEN 0 ELSE sdi_buffer[d]]

-----------------------------------------------------------------------------
(* sdrad_init                                                                *)

FreeSlot == Slot \ status

(* Mutant: pkey_alloc is not asked whether it failed. *)
no_key_check == TRUE

HasKey == cache # <<>> \/ next <= MaxKeys

(* Of a listed domain it saves the context; of a new one it takes the key.   *)
sdrad_init(u) ==
  /\ App
  /\ \/ /\ \E s \in FoundSlot(u) :
             ~sdi_saved_ex[s] /\ (\A i \in DOMAIN calls : calls[i] # s) /\ sdi' = s
        /\ Goto("context")
        /\ UNCHANGED <<pkey, next>>
     \/ /\ sdrad_search_udi_control(u) = {}
        /\ FreeSlot # {}
        /\ HasKey
        /\ pkey' = IF cache = <<>> THEN next ELSE Head(cache).key
        /\ next' = IF cache = <<>> THEN next + 1 ELSE next
        /\ Goto("slot")
        /\ UNCHANGED sdi
  /\ udi' = u
  /\ UNCHANGED <<status, udi_control, cache, slotVars, runVars, mask, torn, faults>>

InitSlot ==
  /\ At("slot")
  /\ sdi' \in First(FreeSlot)
  /\ status' = status \cup {sdi'}
  /\ ready' = ready \ {sdi'}
  /\ Goto("node")
  /\ UNCHANGED <<udi_control, cache, next, pdi, sdi_address_stack, sdi_parent_domain,
                 sdi_saved_ex, sdi_buffer, runVars, udi, pkey, mask, torn, faults>>

(* sdrad_insert_control_structure links the node, the caller fills it in:    *)
(* until then it has the slot NO_SLOT and a udi that is none, 0.             *)
InitNode ==
  /\ \/ At("node") /\ udi_control' = <<[udi |-> 0, sdi |-> NO_SLOT]>> \o udi_control /\ Goto("udi")
     \/ At("udi") /\ udi_control' = [udi_control EXCEPT ![1].udi = udi] /\ Goto("sdi")
     \/ At("sdi") /\ udi_control' = [udi_control EXCEPT ![1].sdi = sdi] /\ Goto("key")
  /\ UNCHANGED <<status, cache, next, slotVars, runVars, locals, mask, torn, faults>>

InitKey ==
  /\ At("key")
  /\ pdi' = [pdi EXCEPT ![sdi] = pkey]
  /\ sdi_parent_domain' = [sdi_parent_domain EXCEPT ![sdi] = active_domain]
  /\ Goto("stack")
  /\ UNCHANGED <<listVars, sdi_address_stack, sdi_saved_ex, sdi_buffer, ready, runVars, locals,
                 mask, torn, faults>>

(* Mutant: the head that was used stays in the cache. *)
keep_cached_head == cache

CacheWithoutHead == IF cache = <<>> THEN cache ELSE Tail(cache)

(* sdrad_execution_domain_init: a new stack goes with a new key. *)
InitStack ==
  /\ At("stack")
  /\ sdi_address_stack' = [sdi_address_stack EXCEPT ![sdi] =
                             IF cache = <<>> THEN pkey ELSE Head(cache).stack]
  /\ cache' = CacheWithoutHead
  /\ Goto("context")
  /\ UNCHANGED <<status, udi_control, next, pdi, sdi_parent_domain, sdi_saved_ex, sdi_buffer,
                 ready, runVars, locals, mask, torn, faults>>

InitContext ==
  /\ At("context")
  /\ sdi_buffer' = [sdi_buffer EXCEPT ![sdi] = Len(calls)]
  /\ sdi_saved_ex' = [sdi_saved_ex EXCEPT ![sdi] = TRUE]
  /\ sdi_parent_domain' = [sdi_parent_domain EXCEPT ![sdi] = active_domain]
  /\ ready' = ready \cup {sdi}
  /\ ReturnFrom
  /\ UNCHANGED <<listVars, pdi, sdi_address_stack, runVars, mask, torn, faults>>

sdrad_deinit(u) ==
  /\ App
  /\ \E s \in FoundSlot(u) :
       /\ \A i \in DOMAIN calls : calls[i] # s
       /\ sdi_saved_ex[s]
       /\ sdi_saved_ex' = [sdi_saved_ex EXCEPT ![s] = FALSE]
  /\ UNCHANGED <<listVars, pdi, sdi_address_stack, sdi_parent_domain, sdi_buffer, ready, runVars,
                 locals, mask, ctl, torn, faults>>

-----------------------------------------------------------------------------
(* sdrad_enter, sdrad_exit.  The application enters, from the domain it      *)
(* made them in, domains whose sdrad_init succeeded.                         *)

sdrad_enter(u) ==
  /\ App
  /\ \E s \in FoundSlot(u) :
       /\ sdi_saved_ex[s]
       /\ s \in ready /\ sdi_parent_domain[s] = active_domain /\ sdi_buffer[s] # 0
       /\ tlsf_structure' = s
       /\ sdi' = s
  /\ Goto("e_active")
  /\ UNCHANGED <<listVars, slotVars, active_domain, calls, udi, pkey, mask, torn, faults>>

(* From here on a signal rewinds the child. *)
EnterActive ==
  /\ At("e_active")
  /\ active_domain' = sdi
  /\ calls' = Append(calls, sdi)
  /\ Goto("e_switch")
  /\ UNCHANGED <<listVars, slotVars, tlsf_structure, locals, mask, torn, faults>>

(* The assembly part changes to the child's stack and PKRU. *)
EnterSwitch ==
  /\ At("e_switch")
  /\ IF sdi_address_stack[sdi] = NULL THEN Goto("corrupt") /\ UNCHANGED locals ELSE ReturnFrom
  /\ UNCHANGED <<listVars, slotVars, runVars, mask, torn, faults>>

(* From here on a signal rewinds the parent. *)
sdrad_exit ==
  /\ App /\ Len(calls) > 1
  /\ active_domain' = sdi_parent_domain[active_domain]
  /\ calls' = Front(calls)
  /\ sdi_buffer' = FramesUpTo(Len(calls) - 1)
  /\ Goto("x_heap")
  /\ UNCHANGED <<listVars, pdi, sdi_address_stack, sdi_parent_domain, sdi_saved_ex, ready,
                 tlsf_structure, locals, mask, torn, faults>>

ExitHeap ==
  /\ At("x_heap")
  /\ tlsf_structure' = active_domain
  /\ ReturnFrom
  /\ UNCHANGED <<listVars, slotVars, active_domain, calls, mask, torn, faults>>

-----------------------------------------------------------------------------
(* What sdrad_destroy and the rewind have in common                          *)

(* The entry is linked before it is filled in. *)
LinkEntry == cache' = <<[key |-> 0, stack |-> NULL]>> \o cache
FillEntry(s) == cache' = <<[key |-> pdi[s], stack |-> sdi_address_stack[s]]>> \o Tail(cache)

NodeAt(s) == {k \in DOMAIN udi_control : udi_control[k].sdi = s}

(* sdrad_init, deinit, enter or destroy finds a node without a slot, and     *)
(* reads and writes far from the tables: that faults, or spoils memory.  (It *)
(* may also return an error, which changes nothing here.)                    *)
CallWithoutSlot(u) ==
  /\ App
  /\ NO_SLOT \in sdrad_search_udi_control(u)
  /\ RaiseSegv \/ (Goto("corrupt") /\ UNCHANGED mask)
  /\ UNCHANGED <<listVars, slotVars, runVars, locals, torn, faults>>

(* Every node but the head is given to free(), which faults when the active  *)
(* domain has no heap: whether it has is left open.                          *)
Unlist(s, there) ==
  IF NodeAt(s) = {} THEN Goto(there) /\ UNCHANGED <<udi_control, mask>>
  ELSE \E k \in First(NodeAt(s)) :
         /\ udi_control' = RemoveAt(udi_control, k)
         /\ \/ Goto(there) /\ UNCHANGED mask
            \/ k > 1 /\ RaiseSegv

sdrad_destroy(u) ==
  /\ App
  /\ \E s \in FoundSlot(u) :
       (\A i \in DOMAIN calls : calls[i] # s) /\ sdi' = s
  /\ Goto("d_cache")
  /\ UNCHANGED <<listVars, slotVars, runVars, udi, pkey, mask, torn, faults>>

DestroyCache ==
  /\ \/ At("d_cache") /\ LinkEntry /\ Goto("d_fill")
     \/ At("d_fill") /\ FillEntry(sdi) /\ Goto("d_key")
  /\ UNCHANGED <<status, udi_control, next, slotVars, runVars, locals, mask, torn, faults>>

DestroyKey ==
  /\ At("d_key")
  /\ pdi' = [pdi EXCEPT ![sdi] = 0]
  /\ Goto("d_unlist")
  /\ UNCHANGED <<listVars, sdi_address_stack, sdi_parent_domain, sdi_saved_ex, sdi_buffer, ready,
                 runVars, locals, mask, torn, faults>>

DestroyUnlist ==
  /\ At("d_unlist")
  /\ Unlist(sdi, "app")
  /\ udi' = 0 /\ sdi' = 0 /\ pkey' = 0
  /\ UNCHANGED <<status, cache, next, slotVars, runVars, torn, faults>>

-----------------------------------------------------------------------------
(* Signals *)

(* A domain violates its bounds, or fails a stack-protector check, which     *)
(* calls sdrad_abnormal_domain_exit with no signal.                          *)
Violation ==
  /\ App /\ faults < MaxFaults
  /\ faults' = faults + 1
  /\ RaiseSegv \/ (Goto("longjmp") /\ UNCHANGED mask)
  /\ UNCHANGED <<listVars, slotVars, runVars, locals, torn>>

(* The rewind is cut short by a second fault or a timer after it has made    *)
(* the parent active: the faulted domain is off the chain.                   *)
Rewinding == ctl \in RewindPc \ {"rewind"}
Cut ==
  IF Rewinding THEN calls' = Front(calls) /\ sdi_buffer' = FramesUpTo(Len(calls) - 1)
               ELSE UNCHANGED <<calls, sdi_buffer>>

(* The timer goes off, in the application, the library or the handler. *)
Alarm ==
  /\ ctl \notin Over /\ "SIGALRM" \notin mask
  /\ mask' = mask \cup {"SIGALRM"}
  /\ torn' = (torn \/ ctl \in HalfUpdated)
  /\ Cut
  /\ Goto("handler")
  /\ UNCHANGED <<listVars, pdi, sdi_address_stack, sdi_parent_domain, sdi_saved_ex, ready,
                 active_domain, tlsf_structure, locals, faults>>

(* Mutant: the handler leaves the mask alone. *)
no_sigprocmask == mask

MaskInHandler == mask \ {"SIGSEGV"}

sdrad_signal_handler ==
  /\ At("handler")
  /\ mask' = MaskInHandler
  /\ Goto("longjmp")
  /\ UNCHANGED <<listVars, slotVars, runVars, locals, torn, faults>>

(* Mutant: the parent's key is compared with the root's. *)
parent_has_root_key == pdi[sdi_parent_domain[active_domain]] = pdi[ROOT_DOMAIN]

HasRootKey == pdi[active_domain] = pdi[ROOT_DOMAIN]

sdrad_abnormal_domain_exit ==
  /\ At("longjmp")
  /\ Goto(IF HasRootKey THEN "aborted" ELSE "rewind")
  /\ udi' = 0 /\ sdi' = 0 /\ pkey' = 0
  /\ UNCHANGED <<listVars, slotVars, runVars, mask, torn, faults>>

-----------------------------------------------------------------------------
(* sdrad_init_destroy, in the frame longjmp has gone back to                 *)

RewindStart ==
  /\ At("rewind")
  /\ sdi' = active_domain
  /\ active_domain' = sdi_parent_domain[active_domain]
  /\ Goto("r_cache")
  /\ UNCHANGED <<listVars, slotVars, tlsf_structure, calls, udi, pkey, mask, torn, faults>>

RewindCache ==
  /\ \/ At("r_cache") /\ LinkEntry /\ Goto("r_fill")
     \/ At("r_fill") /\ FillEntry(sdi) /\ Goto("r_unlist")
  /\ UNCHANGED <<status, udi_control, next, slotVars, runVars, locals, mask, torn, faults>>

RewindUnlist ==
  /\ At("r_unlist")
  /\ Unlist(sdi, "r_status")
  /\ IF ctl' = "r_status" THEN UNCHANGED <<calls, sdi_buffer>> ELSE Cut
  /\ UNCHANGED <<status, cache, next, pdi, sdi_address_stack, sdi_parent_domain, sdi_saved_ex,
                 ready, active_domain, tlsf_structure, locals, torn, faults>>

RewindStatus ==
  /\ At("r_status")
  /\ status' = status \ {sdi}
  /\ Goto("r_resume")
  /\ UNCHANGED <<udi_control, cache, next, slotVars, runVars, locals, mask, torn, faults>>

(* Mutant: the heap of the domain that is gone stays selected. *)
heap_of_rewound == sdi

HeapOfResumed == sdi_parent_domain[sdi]

RewindResume ==
  /\ At("r_resume")
  /\ active_domain' = sdi_parent_domain[sdi]
  /\ tlsf_structure' = HeapOfResumed
  /\ Cut
  /\ ReturnFrom
  /\ UNCHANGED <<listVars, pdi, sdi_address_stack, sdi_parent_domain, sdi_saved_ex, ready,
                 mask, torn, faults>>

(* The process is gone, or runs on a stack it does not have. *)
Ended == ctl \in Over /\ UNCHANGED vars

-----------------------------------------------------------------------------
Recovery ==
  \/ sdrad_signal_handler \/ sdrad_abnormal_domain_exit
  \/ RewindStart \/ RewindCache \/ RewindUnlist \/ RewindStatus \/ RewindResume

LibraryStep ==
  \/ InitSlot \/ InitNode \/ InitKey \/ InitStack \/ InitContext
  \/ EnterActive \/ EnterSwitch \/ ExitHeap
  \/ DestroyCache \/ DestroyKey \/ DestroyUnlist

Next ==
  \/ \E u \in Udi : sdrad_init(u) \/ sdrad_deinit(u) \/ sdrad_enter(u) \/ sdrad_destroy(u)
                  \/ CallWithoutSlot(u)
  \/ sdrad_exit
  \/ LibraryStep
  \/ Violation \/ Alarm
  \/ Recovery
  \/ Ended

(* The thread goes on. *)
Fairness == WF_vars(Recovery)

Spec == Init /\ [][Next]_vars /\ Fairness

-----------------------------------------------------------------------------
(* Properties *)

TypeOK ==
  /\ status \subseteq Slot
  /\ udi_control \in Seq([udi : Udi \cup {0}, sdi : Slot \cup {NO_SLOT}])
  /\ pdi \in [Slot -> 0 .. MaxKeys] /\ sdi_address_stack \in [Slot -> 0 .. MaxKeys]
  /\ cache \in Seq([key : 0 .. MaxKeys, stack : 0 .. MaxKeys])
  /\ sdi_parent_domain \in [Slot -> Slot] /\ sdi_saved_ex \in [Slot -> BOOLEAN]
  /\ sdi_buffer \in [Slot -> 0 .. TOTAL_DOMAIN]
  /\ active_domain \in Slot /\ tlsf_structure \in Slot
  /\ mask \subseteq {"SIGSEGV", "SIGALRM"}
  /\ ctl \in Control
  /\ calls \in Seq(Slot) /\ ready \subseteq Slot

(* Outside the handler a SIGSEGV can be delivered, also to code that a       *)
(* rewind has resumed: the next violation is caught like the first, and does *)
(* not kill the process.                                                     *)
SegvDeliverable == ctl # "handler" => "SIGSEGV" \notin mask /\ ctl # "killed"

(* When application code runs, malloc takes from the heap of the domain that *)
(* runs, whichever write of enter, exit or a rewind a signal came after.     *)
HeapSelected == App => tlsf_structure = active_domain /\ active_domain = Last(calls)

(* Unless a timer went off inside one of the HalfUpdated steps, the domains  *)
(* on the call chain run on stacks of their own under keys of their own,     *)
(* and nothing of theirs is in the cache.  So those are the only steps that  *)
(* would have to hold SIGALRM off.                                           *)
ChainApart ==
  ~torn =>
    /\ ctl # "corrupt"
    /\ \A i \in DOMAIN calls :
         /\ sdi_address_stack[calls[i]] # NULL /\ pdi[calls[i]] # pdi[MONITOR_DATA]
         /\ \A j \in DOMAIN calls : j # i =>
              /\ sdi_address_stack[calls[j]] # sdi_address_stack[calls[i]]
              /\ pdi[calls[j]] # pdi[calls[i]]
         /\ App => \A k \in DOMAIN cache :
              cache[k].stack # sdi_address_stack[calls[i]] /\ cache[k].key # pdi[calls[i]]

Mode == CASE ctl \in HandlerPc \cup RewindPc -> "fault"
          [] ctl \in Over -> ctl
          [] OTHER -> "run"

Stack == INSTANCE RewindStack WITH
  Domain <- Slot, Root <- ROOT_DOMAIN, chain <- calls, frame <- sdi_buffer, mode <- Mode

(* Whatever step a signal interrupts, the effect is that of a fault before   *)
(* or after the call: the domain on top of the chain goes, the one that made *)
(* it resumes where it made it, and the recovery ends.                       *)
RewindStackSpec == Stack!Spec
=============================================================================
