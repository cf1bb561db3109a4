------------------------------- MODULE MCEMap --------------------------------
(* FiesEMap_add over one small device, two files and every request. *)
EXTENDS EMap
==============================================================================
