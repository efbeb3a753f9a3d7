--------------------------- MODULE MCProviderCache ---------------------------
(* Constant definitions for model-checking ProviderCache. *)
EXTENDS ProviderCache

CONSTANTS current   \* the prefix of the deployed retention policy

CurrentPrefix == [w \in Workers |-> current]
==============================================================================
