---------------------------- MODULE MCLifecycle -----------------------------
(* Instances of Lifecycle: the old and the new pod of a rolling update. *)
EXTENDS Lifecycle, TLC

CONSTANTS old, new, uid1, uid2
MCPodUID == old :> uid1 @@ new :> uid2

(* The manifest's port, and a disabled health check. *)
MCPort == old :> 51515 @@ new :> -1
=============================================================================
