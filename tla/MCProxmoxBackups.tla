-------------------------- MODULE MCProxmoxBackups --------------------------
(* Small instances of ProxmoxBackups: how the labels of the guests overlap. *)
EXTENDS ProxmoxBackups

NoOverlap == [v \in Label |-> {v}]
=============================================================================
