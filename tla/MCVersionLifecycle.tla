-------------------------- MODULE MCVersionLifecycle --------------------------
(***************************************************************************)
(* Instances of VersionLifecycle for TLC.                                  *)
(***************************************************************************)
EXTENDS VersionLifecycle
=============================================================================
