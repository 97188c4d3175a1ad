---------------------------- MODULE MCSelfUpdate ----------------------------
(***************************************************************************)
(* One or two servers and a few upgrade requests within two seconds.       *)
(***************************************************************************)
EXTENDS SelfUpdate
=============================================================================
