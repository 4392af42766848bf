------------------------------ MODULE MCObjects ------------------------------
(***************************************************************************)
(* The lifetimes of objects (ObjC) and the collections that hold them in   *)
(* one run: a behaviour is that of one of them, the other rests.           *)
(***************************************************************************)
EXTENDS Collections

CONSTANTS Guests, Threads, Addresses, Locations, MaxRefs, MaxPools
VARIABLES guest, state, refcount, field, owned, pools, leaked, weak, weak_references, todo

O == INSTANCE ObjC WITH Objects <- Addresses
objc_vars == <<state, refcount, field, owned, pools, leaked, weak, weak_references, todo>>

\* a and b are equal, c collides with them, d does not
MCHash == [o \in Objects |-> IF o = "d" THEN 2 ELSE 1]
MCClass == [o \in Objects |-> CASE o \in {"a", "b"} -> 1 [] o = "c" -> 2 [] OTHER -> 3]

MCInit == Init /\ O!Init /\ guest \in Guests /\ (guest # "collections" => kind = "NSArray")
MCNext ==
  /\ \/ guest = "collections" /\ Next /\ UNCHANGED objc_vars
     \* one guest has no weak variables, the other no pools
     \/ guest = "pools" /\ O!Next /\ UNCHANGED <<vars, weak>>
     \/ guest = "weak" /\ O!Next /\ UNCHANGED <<vars, pools>>
  /\ UNCHANGED guest
MCSpec == MCInit /\ [][MCNext]_<<vars, objc_vars, guest>>

=============================================================================
