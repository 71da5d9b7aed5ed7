---------------------------- MODULE MCSmokePacket ----------------------------
(***************************************************************************)
(* A smoke packet over any snapshot: sae_lens asks for the config, reads   *)
(* the shapes through the patched lookup, then asks for the weights.       *)
(***************************************************************************)
EXTENDS SmokePacket

MCLoaders  == {"gemma_all", "gemma_generated_only"}
MCRequests == <<"config.json", "params.safetensors", "params.safetensors">>
MCLookups  == {2}
===============================================================================
