--------------------------- MODULE MC_Deployment ---------------------------
(* The networks with a command in package.json; one run of another tag, one *)
(* crash or swallowed failure; one token repriced by the admin.             *)
EXTENDS Deployment
MCToken == {"weth", "wbtc", "usdc", "usdt", "dai", "wsteth"}
MCNetworks == {"mainnet", "arbitrum", "polygon", "optimism"}
MCSelections == {"core", "LStrategy"}
MCRepriced == {"weth"}
=============================================================================
