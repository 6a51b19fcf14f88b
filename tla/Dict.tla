-------------------------------- MODULE Dict --------------------------------
(***************************************************************************)
(* What a hash map promises: a finite map from keys to values.  A put is   *)
(* called and takes effect at one moment, with nothing else changing from  *)
(* the call to that moment.  Hashmap implements it, one dictionary per     *)
(* map.                                                                    *)
(***************************************************************************)
CONSTANTS Maps, Keys, Values, NoValue

VARIABLES
  dict,       \* dict[m][k]: the value of k in m, or NoValue
  call        \* the put in progress, or NoValue

dvars == <<dict, call>>

Init ==
  /\ dict = [m \in Maps |-> [k \in Keys |-> NoValue]]
  /\ call = NoValue

Call ==
  /\ call = NoValue
  /\ call' \in [map : Maps, key : Keys, data : Values]
  /\ UNCHANGED dict

Take ==
  /\ call # NoValue
  /\ dict' = [dict EXCEPT ![call.map][call.key] = call.data]
  /\ call' = NoValue

Remove ==
  /\ call = NoValue
  /\ \E m \in Maps, k \in Keys : dict' = [dict EXCEPT ![m][k] = NoValue]
  /\ UNCHANGED call

Next == Call \/ Take \/ Remove

Spec == Init /\ [][Next]_dvars
=============================================================================
