-------------------------- MODULE MCBundleInstaller --------------------------
(***************************************************************************)
(* Three bundles: the old release pins b1, the new one b2 and a repackaged  *)
(* b3.                                                                      *)
(***************************************************************************)
EXTENDS BundleInstaller

CONSTANTS b1, b2, b3, old, new

MCPins == [r \in {old, new} |-> IF r = old THEN {b1} ELSE {b2, b3}]
=============================================================================
