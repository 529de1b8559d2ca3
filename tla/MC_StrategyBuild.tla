-------------------------- MODULE MC_StrategyBuild --------------------------
(* Another holder of CREATE_VAULT, who may also register a vault of his own; *)
(* two runs, one crash and two calls of the others.                           *)
EXTENDS StrategyBuild, TLC

CONSTANTS dep, adm, msa, app, s1, s2, s3, s4, reb, gov, p

MCUser == {dep, adm, msa, app}
MCCreators == {dep, adm}
MCStrategy == {s1, s2, s3, s4, reb}
MCStrategyAddress == <<s1, s2, s3, s4>>
MCRegistrars == p :> {gov, adm}
MCDelay == p :> 1
=============================================================================
