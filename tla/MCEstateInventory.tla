-------------------------- MODULE MCEstateInventory --------------------------
(***************************************************************************)
(* An instance of EstateInventory for TLC.                                 *)
(***************************************************************************)
EXTENDS EstateInventory

MCScopes == <<"github.repositories", "huggingface.models">>
=============================================================================
