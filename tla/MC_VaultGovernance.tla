------------------------- MODULE MC_VaultGovernance -------------------------
(* A parameter set that starts empty and one that a constructor fills; the *)
(* governance delay can be cut from three to one, and the other governance *)
(* waits one.  Permissions and validators have a run of their own.         *)
EXTENDS VaultGovernance
=============================================================================
