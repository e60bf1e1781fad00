---------------------------- MODULE MCSdradDomains ----------------------------
(* Small instances of SdradDomains for TLC. *)
EXTENDS SdradDomainClaims

CONSTANTS u1, u2, u3

SymUdi == Permutations(Udi)

(* Execution domains only, as sdrad_call and the examples create them. *)
ExecFeatures == {{"EXECUTION", "ISOLATED"}, {"EXECUTION", "NONISOLATED"}}
NonIsolated  == {{"EXECUTION", "NONISOLATED"}}

(* Data domains too, and a flag set that sdrad_init rejects. *)
ExecAndData == ExecFeatures \cup {{"DATA"}, {"DATA", "EXECUTION"}}

(* Data domains take turns with execution domains in a slot. *)
NonIsolatedAndData == NonIsolated \cup {{"DATA"}}

(* A domain whose fault destroys its parent, and one it can be made from. *)
ToParent == {{"EXECUTION", "NONISOLATED"}, {"EXECUTION", "TO_PARENT"}}

(* The answer of a failed search, scaled with the table: -20 of 30 slots. *)
MinusOne == -1
=============================================================================
