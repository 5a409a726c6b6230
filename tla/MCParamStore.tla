---------------------------- MODULE MCParamStore ----------------------------
(* Instances of ParamStore for TLC. *)
EXTENDS ParamStore

KeySet == {"big", "huge", "small"}
BigKeys == {"big", "huge"}

(* One collective at a time in any mixture, or two left running when each *)
(* of them is measured.                                                   *)
OrderlyPrograms ==
  {[keys |-> <<"big", "small", "big">>, depth |-> 1, results |-> BOOLEAN],
   [keys |-> <<"big", "huge", "big">>, depth |-> 2, results |-> {TRUE}]}

(* Two collectives left running, a third one that is not measured: no       *)
(* configuration uses it, since it hangs.                                   *)
MixedPrograms == {[keys |-> <<"big", "big", "small", "big">>, depth |-> 2, results |-> {TRUE}]}

=============================================================================
