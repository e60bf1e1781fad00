----------------------------- MODULE MCSdradShared -----------------------------
(* The instance of SdradShared that TLC checks. *)
EXTENDS SdradShared

(* sdrad_calloc and sdrad_realloc copy the owner's entry before the owner has *)
(* a heap: they are called on data domains, which get one when they are made. *)
CallsInOrder ==
  [name : {"malloc", "free"}, kind : {"EXECUTION", "DATA"}] \cup
  [name : {"calloc", "realloc"}, kind : {"DATA"}]
=============================================================================
