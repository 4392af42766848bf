------------------------------- MODULE GLState -------------------------------
(***************************************************************************)
(* What OpenGL ES promises a guest about its own state: a setting keeps    *)
(* the value the guest gave it last, and one call gives one setting a      *)
(* value.  Drawing and presenting are not among the calls that change any. *)
(***************************************************************************)
EXTENDS Naturals, FiniteSets

CONSTANTS
  Settings,     \* everything a call of the guest can set
  Values(_)     \* the values of a setting

VARIABLE st     \* what the guest has told OpenGL

IsState(x) == DOMAIN x = Settings /\ \A s \in Settings : x[s] \in Values(s)
Init == IsState(st)
\* One setting takes some value and the others stay
Differ(old, new) == {s \in Settings : new[s] # old[s]}
Set(old, new) == IsState(new) /\ Cardinality(Differ(old, new)) <= 1
Next == Set(st, st')
Spec == Init /\ [][Next]_st
=============================================================================
