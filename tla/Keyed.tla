-------------------------------- MODULE Keyed --------------------------------
(***************************************************************************)
(* What a dictionary promises: it maps keys to values, equal keys alike.   *)
(***************************************************************************)
CONSTANTS Keys, Values, Nil
VARIABLES
  map,    \* the value of each key, Nil for none
  same    \* which keys are equal, in the eyes of this dictionary

Init == map = [k \in Keys |-> Nil] /\ same \subseteq Keys \X Keys
setObject(k, v) == map' = [j \in Keys |-> IF <<j, k>> \in same THEN v ELSE map[j]]
\* Filling a new dictionary is one step
fill ==
  /\ map = [k \in Keys |-> Nil]
  /\ map' \in [Keys -> Values \cup {Nil}] /\ \A p \in same : map'[p[1]] = map'[p[2]]
Next ==
  /\ \/ fill
     \/ \E k \in Keys, v \in Values \cup {Nil} : setObject(k, v)
     \/ map' = [k \in Keys |-> Nil]
  /\ UNCHANGED same
Spec == Init /\ [][Next]_<<map, same>>
=============================================================================
