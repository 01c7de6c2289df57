-------------------------- MODULE MC_LifecycleStore --------------------------
(***************************************************************************)
(* LifecycleStore with values from its configurations: two readers, and     *)
(* timeouts short enough for touch, idle timeout, cap and key expiry to fall *)
(* within one behaviour.                                                     *)
(***************************************************************************)
EXTENDS LifecycleStore
=============================================================================
