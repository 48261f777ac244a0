-------------------------- MODULE MCAssetReducer --------------------------
(* A small instance of AssetReducer for TLC. *)
EXTENDS AssetReducer

CONSTANTS usdc, weth
=============================================================================
