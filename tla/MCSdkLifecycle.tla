--------------------------- MODULE MCSdkLifecycle ---------------------------
(* SdkLifecycle for TLC. *)
EXTENDS SdkLifecycle
=============================================================================
