----------------------------- MODULE MCAcpiListen -----------------------------
(* Instances of AcpiListen for TLC. *)
EXTENDS AcpiListen

MCKinds == {"power", "lidclose", "other"}
=============================================================================
