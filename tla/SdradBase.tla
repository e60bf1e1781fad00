------------------------------ MODULE SdradBase ------------------------------
(***************************************************************************)
(* Constants, init flags and protection-key arithmetic of the SDRaD        *)
(* library (sdrad.h, sdrad_api.h, sdrad_pkey.h, sdrad_pkey.c).             *)
(***************************************************************************)
EXTENDS Integers

CONSTANTS
  TOTAL_DOMAIN,   \* domain slots, 30 in sdrad.h
  DOMAIN_NO_MAP,  \* SDRAD_ERROR_DOMAIN_NO_MAP, -20: the failed search's answer
  NUM_PKEYS       \* protection keys of the processor, 16 on x86

ASSUME BaseAssumption ==
  /\ TOTAL_DOMAIN \in Nat /\ TOTAL_DOMAIN > 2
  /\ DOMAIN_NO_MAP \in Int /\ DOMAIN_NO_MAP < 0
  /\ TOTAL_DOMAIN + DOMAIN_NO_MAP > 1
  /\ NUM_PKEYS \in Nat /\ NUM_PKEYS > 2

-----------------------------------------------------------------------------
(* Domain slots.  0 is the monitor's data, 1 the root domain. *)
MONITOR_DATA == 0
ROOT_DOMAIN  == 1
DOMAIN_2     == 2
Slot         == 0 .. TOTAL_DOMAIN - 1

DOMAIN_OCCUPIED    == 55
DOMAIN_NONOCCUPIED == 56
THREAD_NONOCCUPIED == -1

NULL == 0

(* The flags of sdrad_init and the options of sdrad_destroy, one name per bit. *)
Flag == {"EXECUTION", "DATA", "ISOLATED", "NONISOLATED", "TO_PARENT", "TO_CURRENT"}
DestroyOption == {"NO_HEAP_MERGE", "HEAP_MERGE"}

(* At most one flag of each pair. *)
sdrad_check_init_config(domain_feature) ==
  \A pair \in {{"DATA", "EXECUTION"}, {"ISOLATED", "NONISOLATED"},
               {"TO_PARENT", "TO_CURRENT"}} : ~(pair \subseteq domain_feature)

-----------------------------------------------------------------------------
(* Protection keys.  A PKRU value gives two bits to every key: bit 0 denies  *)
(* any access, bit 1 denies writes.                                          *)
Key      == 0 .. NUM_PKEYS - 1
PkeyNone == 0                       \* the key of memory nobody tagged
Right    == 0 .. 3
Pkru     == [Key -> Right]

PKEY_DISABLE_ACCESS == 1
PKEY_DISABLE_WRITE  == 2

PKRU_ALL_UNSET == [k \in Key |-> 0]

(* 0xFFFFFFEC: key 0 open, key 2 (the root domain's) read only, others shut. *)
PKRU_ALL_READ_ONLY_RD ==
  [k \in Key |-> IF k = 0 THEN 0 ELSE IF k = 2 THEN PKEY_DISABLE_WRITE ELSE 3]

(* SDRAD_PKRU_SET_DOMAIN: clear the two bits of the key, then set them. *)
sdrad_set_access_pdi(pkru, pkru_domain, access) ==
  [pkru EXCEPT ![pkru_domain] = access]

sdrad_pkru_default_config(pkru_domain) ==
  sdrad_set_access_pdi(PKRU_ALL_READ_ONLY_RD, pkru_domain, 0)
=============================================================================
