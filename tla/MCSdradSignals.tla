---------------------------- MODULE MCSdradSignals ----------------------------
(* The instance of SdradSignals that TLC checks: signals.cfg. *)
EXTENDS SdradSignals
=============================================================================
