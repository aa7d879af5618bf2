---------------------------- MODULE MCUbxParser -----------------------------
(***************************************************************************)
(* Bytes of three values.  The payload of a NAV-PVT is two bytes, so that  *)
(* its order matters; payloads of three and four are followed but do not   *)
(* fit, and lengths up to eight can be declared.  The class and one byte   *)
(* of the sync pair are the same value, so that payloads look like syncs.  *)
(***************************************************************************)
EXTENDS UbxParser
=============================================================================
