----------------------------- MODULE MCSdradHeaps -----------------------------
(* Small instances of SdradHeaps for TLC. *)
EXTENDS SdradHeaps

LibcCalls == {"malloc", "free", "realloc", "posix_memalign"}
DomainCalls == {"malloc", "free", "sdrad_malloc", "sdrad_memalign", "sdrad_realloc",
                "sdrad_free", "fault"}
=============================================================================
