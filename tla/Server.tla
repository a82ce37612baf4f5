-------------------------------- MODULE Server --------------------------------
(***************************************************************************)
(* The process around the handlers: its start with the providers'          *)
(* metadata, and the gate that requests pass.  The two share no state, so  *)
(* the order of their steps tells nothing: a behaviour runs one of them.   *)
(***************************************************************************)
EXTENDS MetadataCache, Gate

VARIABLE part  \* "start" or "gate"

vars == <<part, cacheVars, gateVars>>

Init == part \in {"start", "gate"} /\ CacheInit /\ GateInit

Next ==
  /\ \/ part = "start" /\ CacheNext /\ UNCHANGED gateVars
     \/ part = "gate" /\ GateNext /\ UNCHANGED cacheVars
  /\ UNCHANGED part

Spec == Init /\ [][Next]_vars /\ (part = "start" => CacheFairness)

-------------------------------------------------------------------------------

TypeOK == CacheTypeOK /\ GateTypeOK
===============================================================================
