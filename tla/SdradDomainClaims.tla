-------------------------- MODULE SdradDomainClaims ---------------------------
(***************************************************************************)
(* What comments, documentation and assertions of the source say of the    *)
(* domain life cycle and the code does not do.  SlotFound and              *)
(* EntersOwnStack have runs that refute them; README.md names, for each of *)
(* the others, a configuration that does when it is added.                 *)
(***************************************************************************)
EXTENDS SdradDomains

(* sdrad.c:168, "assert(free_domain != -1)": a new domain finds a slot.  The *)
(* run has one udi, so at most one domain at a time; but sdrad_destroy never *)
(* gives the slot back.                                                      *)
SlotFound == ctl # "oob"

(* sdrad_api.h:57, "Execution Domain has own stack and heap area": a domain  *)
(* that is entered has a stack to run on.  One made from the cache after a   *)
(* data domain was destroyed has not.                                        *)
EntersOwnStack == ctl # "killed"

(* sdrad_api.h:57, "Execution Domain has own stack and heap area": the stack *)
(* a domain runs on carries the domain's own key.  sdrad_data_domain_init    *)
(* leaves the stack of the slot's last owner in the table, sdrad_destroy     *)
(* puts it in the cache with the data domain's key, and the next execution   *)
(* domain runs on a stack that another domain's key opens.                   *)
StackHasOwnKey ==
  \A i \in DOMAIN calls : mapped[sdi_address_stack[calls[i]]] = pdi[calls[i]]

(* sdrad_api.h:58, "On an abnormal domain exit, sdrad_init() returns": once  *)
(* longjmp is taken the application gets control back.  The free() of a      *)
(* control node that is not the head faults again.                           *)
RecoveryReturns == [][ctl = "rewind" => ctl' = "app"]_vars

(* sdrad_api.h:57, "Execution Domain has own stack and heap area": malloc    *)
(* works on a heap that carries the key of the domain that runs.  A reused   *)
(* slot keeps its last owner's heap when the cache entry has none.           *)
HeapIsOwn ==
  ctl = "app" /\ tlsf_structure # NULL => mapped[tlsf_structure] = pdi[active_domain]

(* sdrad_cache.c:4, "Destroyed domain is never unmapped, they are cached":   *)
(* the heap a rewound domain was entered with is in its cache entry.  The    *)
(* heap flag is not set when the heap came from the cache.                   *)
RewoundHeapCached ==
  [][ctl = "rewind" /\ sdi_tlsf[active_domain] # NULL
       /\ mapped[sdi_tlsf[active_domain]] = pdi[active_domain]
     => cache'[1].heap = sdi_tlsf[active_domain]]_vars

(* sdrad_api.h:63, "The newly created domain can be fully isolated from the  *)
(* parent domain": the parent's PKRU shuts an isolated child's key.  Rights  *)
(* given for a key's previous owner are still in the parent's PKRU.          *)
IsolatedFromParent ==
  \A i \in DOMAIN udi_control :
    LET sdi == udi_control[i].sdi
    IN  "ISOLATED" \in sdi_options[sdi] => pkru_config[sdi_parent_domain[sdi]][pdi[sdi]] = 3

(* sdrad_api.h:67, "Data Domain does have a separate subheap area.  It can   *)
(* be used to protect a database": no other domain has a data domain's key.  *)
(* A data domain made while the cached head has no heap takes the head's key *)
(* and leaves the head in the cache.                                         *)
DataKeySeparate ==
  \A i, j \in DOMAIN udi_control :
    /\ i # j
    /\ "DATA" \in sdi_options[udi_control[i].sdi]
    => pdi[udi_control[i].sdi] # pdi[udi_control[j].sdi]

(* sdrad.c:369, "no return for PDI root domain": abort() is for a fault of   *)
(* the root domain.  Rewinding a RETURN_TO_PARENT child of the root puts the *)
(* root's key in the cache, and the next domain gets it.                     *)
OnlyRootAborts == ctl = "aborted" => active_domain = ROOT_DOMAIN

(* sdrad_api.c:353, "restore PKU config": a call leaves the register as the  *)
(* active domain's PKRU.  The error returns do not.                          *)
PkruRestored == ctl = "app" => pkru = pkru_config[active_domain]

(* sdrad_api.h:109, "Set domain udi's access permissions": sdrad_dprotect    *)
(* leaves its caller with its own PKRU.  With the root as target the caller  *)
(* gets the root's.                                                          *)
DprotectKeepsCaller ==
  [][ctl = "app" /\ ctl' = "app" /\ active_domain' = active_domain
       /\ pkru_config' # pkru_config
     => pkru' = pkru_config'[active_domain]]_vars
=============================================================================
