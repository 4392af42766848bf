-------------------------------- MODULE Nibs --------------------------------
(***************************************************************************)
(* Loading of a nib (uikit/ui_nib.rs) with the decoder of its binary       *)
(* format (_nib_archive_decoder.rs): objects are made recursively through  *)
(* initWithCoder:, which may put another object in place of the one it was *)
(* sent to; outlets and actions are connected, objects told, and windows   *)
(* shown.  A nib is a sequence of entries [class, val, kids]; the first    *)
(* has the arrays of objects, connections, visible windows and top-level   *)
(* objects.  Memory is freed by reference counts.                          *)
(***************************************************************************)
EXTENDS Integers, Sequences, FiniteSetsExt, SequencesExt, TLC

CONSTANT NibFiles

VARIABLES
  nib,
  current_idx,  \* current_object_idx
  unarchived,   \* already_unarchived, 0 for None
  stack,        \* entries being decoded, the innermost last
  heap,         \* objects: [class, kids, outlets, targets, rc, hidden, awake]
  file_owner,   \* of the UINib, 0 for nil
  pc, at,       \* the step of load_nib_file and where in an array it is
  early         \* ghost: was an object told before all was connected?
vars == <<nib, current_idx, unarchived, stack, heap, file_owner, pc, at, early>>

Owner == 1
NewObject(class) == [class |-> class, kids |-> <<>>, outlets |-> <<>>, targets |-> {}, rc |-> 1, hidden |-> TRUE, awake |-> 0]
Init ==
  /\ nib \in NibFiles /\ heap = <<NewObject("owner")>>
  /\ current_idx = 1 /\ unarchived = [i \in DOMAIN nib |-> 0] /\ stack = <<>>
  /\ file_owner = 0 /\ pc = "begin" /\ at = 0 /\ early = FALSE

InStack == stack # <<>>
Top == Last(stack)
Array(n) == nib[1].kids[n]
\* instantiateWithOwner:
begin ==
  /\ pc = "begin" /\ pc' = "objects" /\ file_owner' = Owner
  /\ UNCHANGED <<nib, current_idx, unarchived, stack, heap, at, early>>

-----------------------------------------------------------------------------
\* The step of load_nib_file needs an array, or an object being made needs
\* another one: of a custom object only the names of its class are read
ArrayFor == [objects |-> Array(1), connect |-> Array(2), show |-> Array(3), return |-> Array(4)]
Parts(i) == IF nib[i].class = "swapper" /\ nib[i].val = "custom" THEN SubSeq(nib[i].kids, 1, 2) ELSE nib[i].kids
Wants == IF InStack THEN Len(Top.got) < Len(Parts(Top.idx)) ELSE pc \in DOMAIN ArrayFor /\ unarchived[ArrayFor[pc]] = 0
Wanted == IF InStack THEN Parts(current_idx)[Len(Top.got) + 1] ELSE ArrayFor[pc]
Deliver(s, x) == IF s = <<>> THEN s ELSE [s EXCEPT ![Len(s)].got = Append(@, x)]
\* decode_current_array retains what it gets
InArray(s) == s # <<>> /\ nib[Last(s).idx].class = "array"
Kept(h, s, x) == IF InArray(s) THEN [h EXCEPT ![x].rc = @ + 1] ELSE h
RestLoad == UNCHANGED <<nib, file_owner, pc, at, early>>
unarchived_before ==
  /\ Wants /\ unarchived[Wanted] # 0
  /\ stack' = Deliver(stack, unarchived[Wanted]) /\ heap' = Kept(heap, stack, unarchived[Wanted])
  /\ RestLoad /\ UNCHANGED <<current_idx, unarchived>>
unarchive_obj ==
  /\ Wants /\ unarchived[Wanted] = 0
  /\ heap' = Append(heap, NewObject(nib[Wanted].class))
  /\ stack' = Append(stack, [idx |-> Wanted, old |-> current_idx, got |-> <<>>, obj |-> Len(heap) + 1])
  /\ current_idx' = Wanted /\ RestLoad /\ UNCHANGED unarchived
\* initWithCoder: returns, perhaps another object.  The proxy of the owner is
\* replaced by it, a swapper by an object of the named class
IsOwner(f) == nib[f.idx].class = "proxy" /\ nib[f.idx].val = "owner"
Replacement(f) == IF IsOwner(f) THEN file_owner ELSE f.obj
Holds(f) == CASE nib[f.idx].class = "swapper" -> SubSeq(f.got, 3, Len(f.got))
              [] nib[f.idx].class = "proxy" -> <<>>
              [] OTHER -> f.got
Retains(h, s) == FoldLeft(LAMBDA g, x : [g EXCEPT ![x].rc = @ + 1], h, s)
init_proxy(f) == [heap EXCEPT ![f.obj].rc = 0, ![file_owner].rc = @ + 1]
init_object(f) ==
  LET h == [heap EXCEPT ![f.obj].kids = Holds(f), ![f.obj].class = IF @ = "swapper" THEN "view" ELSE @]
  IN  IF nib[f.idx].class = "array" THEN h ELSE Retains(h, Holds(f))
initWithCoder ==
  LET x == Replacement(Top)
      h == IF IsOwner(Top) THEN init_proxy(Top) ELSE init_object(Top)
  IN  /\ InStack /\ ~Wants
      /\ heap' = Kept(h, Front(stack), x)
      /\ current_idx' = Top.old /\ unarchived' = [unarchived EXCEPT ![Top.idx] = x]
      /\ stack' = Deliver(Front(stack), x) /\ RestLoad

-----------------------------------------------------------------------------
\* load_nib_file, once it has the array of the step
Ready(step) == pc = step /\ ~InStack /\ ~Wants
Elements(n) == heap[unarchived[Array(n)]].kids
RestDecode == UNCHANGED <<nib, current_idx, unarchived, stack, file_owner>>
objects_decoded == Ready("objects") /\ pc' = "connect" /\ at' = 1 /\ RestDecode /\ UNCHANGED <<heap, early>>
\* connect: the source of an outlet retains its destination, a control does
\* not retain the target of its action
Connected(c) ==
  LET d == heap[c].kids[1]
      s == heap[c].kids[3]
  IN  IF heap[c].class = "outlet" THEN [heap EXCEPT ![s].outlets = Append(@, d), ![d].rc = @ + 1]
      ELSE [heap EXCEPT ![s].targets = @ \cup {d}]
connect ==
  /\ Ready("connect") /\ at <= Len(Elements(2)) /\ heap' = Connected(Elements(2)[at]) /\ at' = at + 1
  /\ RestDecode /\ UNCHANGED <<pc, early>>
connected == Ready("connect") /\ at > Len(Elements(2)) /\ pc' = "awake" /\ at' = 1 /\ RestDecode /\ UNCHANGED <<heap, early>>
AllConnected == \A i \in DOMAIN nib : nib[i].class \in {"outlet", "event"} /\ unarchived[i] \in Range(Elements(2)) =>
  LET c == heap[unarchived[i]]
  IN  c.kids[1] \in Range(heap[c.kids[3]].outlets) \cup heap[c.kids[3]].targets
awakeFromNib ==
  /\ Ready("awake") /\ at <= Len(Elements(1))
  /\ heap' = [heap EXCEPT ![Elements(1)[at]].awake = @ + 1] /\ early' = (early \/ ~AllConnected) /\ at' = at + 1
  /\ RestDecode /\ UNCHANGED pc
awoken == Ready("awake") /\ at > Len(Elements(1)) /\ pc' = "show" /\ at' = 1 /\ RestDecode /\ UNCHANGED <<heap, early>>
setHidden ==
  /\ Ready("show") /\ at <= Len(Elements(3)) /\ heap' = [heap EXCEPT ![Elements(3)[at]].hidden = FALSE] /\ at' = at + 1
  /\ RestDecode /\ UNCHANGED <<pc, early>>
shown == Ready("show") /\ at > Len(Elements(3)) /\ pc' = "return" /\ at' = 0 /\ RestDecode /\ UNCHANGED <<heap, early>>

\* The decoder is released, and the objects that nobody holds are freed: they
\* release what they hold, only connections of events do not.  The guest keeps
\* the array it gets
Leaks(o) == o.class = "event"
Count(s, x) == Cardinality({i \in DOMAIN s : s[i] = x})
Dealloc(h) ==
  LET Dead == {x \in DOMAIN h : h[x].rc = 0 /\ h[x].class # "freed"}
  IN  [x \in DOMAIN h |->
        IF x \in Dead THEN [h[x] EXCEPT !.class = "freed", !.kids = IF Leaks(h[x]) THEN @ ELSE <<>>, !.outlets = <<>>]
        ELSE [h[x] EXCEPT !.rc = @ - MapThenSumSet(LAMBDA y : IF Leaks(h[y]) THEN 0 ELSE Count(h[y].kids \o h[y].outlets, x), Dead)]]
Released == [x \in DOMAIN heap |->
  [heap[x] EXCEPT !.rc = @ - Cardinality({i \in DOMAIN nib : unarchived[i] = x}) + (IF x = unarchived[Array(4)] THEN 1 ELSE 0)]]
return ==
  /\ Ready("return") /\ pc' = "done" /\ file_owner' = 0
  /\ heap' = FoldLeft(LAMBDA h, i : Dealloc(h), Released, [i \in DOMAIN heap |-> i])
  /\ UNCHANGED <<nib, current_idx, unarchived, stack, at, early>>

Next ==
  \/ begin \/ unarchived_before \/ unarchive_obj \/ initWithCoder \/ objects_decoded \/ connect \/ connected
  \/ awakeFromNib \/ awoken \/ setHidden \/ shown \/ return
Spec == Init /\ [][Next]_vars

-----------------------------------------------------------------------------
\* When a nib is loaded every entry was made into one object, which all that
\* refer to it share, the owner's proxy into the owner; objects are told only
\* when everything is connected, and windows shown; what is still held is
\* held by exactly those that refer to it (and for ever by connections of
\* events), and nothing that is left refers to what is gone
NibSound ==
  /\ ~early
  /\ pc = "done" =>
       /\ \A i, j \in DOMAIN nib : i # j /\ unarchived[i] # 0 => unarchived[i] # unarchived[j] \/ unarchived[i] = Owner
       /\ \A i \in DOMAIN nib : unarchived[i] = Owner => nib[i].class = "proxy"
       /\ \A i \in DOMAIN nib : nib[i].class = "outlet" /\ i \in Range(nib[Array(2)].kids) =>
            unarchived[nib[i].kids[1]] \in Range(heap[unarchived[nib[i].kids[3]]].outlets) \/ heap[unarchived[nib[i].kids[3]]].rc = 0
       /\ \A i \in Range(nib[Array(3)].kids) : ~heap[unarchived[i]].hidden
       /\ \A x \in DOMAIN heap :
            /\ heap[x].rc = MapThenSumSet(LAMBDA y : Count(heap[y].kids \o heap[y].outlets, x), DOMAIN heap)
                            + (IF x \in {Owner, unarchived[Array(4)]} THEN 1 ELSE 0)
            /\ heap[x].rc > 0 => \A y \in heap[x].targets : heap[y].rc > 0
=============================================================================
