----------------------- MODULE MC_ProtocolGovernance -----------------------
(* One target, one permission, two validators, and a governance delay that *)
(* can be cut from three to one.                                           *)
EXTENDS ProtocolGovernance
=============================================================================
