--------------------------- MODULE MCServerHealth ---------------------------
(* Small instances of ServerHealth.                                         *)
EXTENDS ServerHealth
=============================================================================
