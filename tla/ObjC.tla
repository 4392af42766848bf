------------------------------- MODULE ObjC -------------------------------
(***************************************************************************)
(* Lifetimes of Objective-C objects and blocks (objc.rs, objc/objects.rs,  *)
(* objc/blocks.rs, objc/properties.rs, ns_object.rs) with autorelease      *)
(* pools (ns_autorelease_pool.rs) and zeroing weak references.             *)
(*                                                                         *)
(* A release may run the guest's -dealloc or dispose helper, which         *)
(* releases more: `todo` is what a thread has still to do.  The guest's    *)
(* other threads run between any two steps of it.                          *)
(***************************************************************************)
EXTENDS Integers, Sequences, FiniteSets, SequencesExt, FiniteSetsExt

CONSTANTS
  Threads,
  Objects,      \* addresses of objects and of blocks on the heap
  Locations,    \* variables of the guest declared __weak
  Nil,
  MaxRefs,      \* bound on the references the guest takes to an object
  MaxPools      \* bound on the nesting of pools
VARIABLES
  state,            \* "free", "object", "block", or "dying": its dealloc runs
  refcount,         \* HostObjectEntry::refcount, malloc_block_refcounts
  field,            \* the object that an object's property, or a block's captured variable, refers to
  owned,            \* references in strong variables of each thread
  pools,            \* pool_stack, each with its objects
  leaked,           \* autoreleased without a pool
  weak,             \* what the weak variables hold
  weak_references,  \* ObjC::weak_references
  todo              \* releases and deallocations under way on each thread

vars == <<state, refcount, field, owned, pools, leaked, weak, weak_references, todo>>
Live(o) == state[o] \in {"object", "block"}
Init ==
  /\ state = [o \in Objects |-> "free"] /\ refcount = [o \in Objects |-> 0]
  /\ field = [o \in Objects |-> Nil]
  /\ owned = [t \in Threads |-> [o \in Objects |-> 0]]
  /\ pools = [t \in Threads |-> <<>>] /\ leaked = [o \in Objects |-> 0]
  /\ weak = [l \in Locations |-> Nil] /\ weak_references = [o \in Objects |-> {}]
  /\ todo = [t \in Threads |-> <<>>]

-----------------------------------------------------------------------------
Step(kind, o) == [kind |-> kind, obj |-> o]
\* Guest code runs at the top of a thread or within a dealloc of its own
InGuest(t) == todo[t] # <<>> => Head(todo[t]).kind = "free"
Does(t, s) == todo' = [todo EXCEPT ![t] = s \o @]
Take(t, o) == owned' = [owned EXCEPT ![t][o] = @ + 1]
Drop(t, o) == owned' = [owned EXCEPT ![t][o] = @ - 1]
Releases(o) == IF o = Nil THEN <<>> ELSE <<Step("release", o)>>

\* +alloc gives an object one reference
alloc(t, o) ==
  /\ InGuest(t) /\ state[o] = "free"
  /\ state' = [state EXCEPT ![o] = "object"] /\ refcount' = [refcount EXCEPT ![o] = 1]
  /\ Take(t, o)
  /\ UNCHANGED <<field, pools, leaked, weak, weak_references, todo>>
\* copy_known_block: the copy of a block on the stack has one reference, and
\* its copy helper retains the captured object (_Block_object_assign)
copy_stack_block(t, b, o) ==
  /\ InGuest(t) /\ state[b] = "free"
  /\ o # Nil => owned[t][o] > 0 /\ refcount[o] < MaxRefs
  /\ state' = [state EXCEPT ![b] = "block"]
  /\ refcount' = [p \in Objects |-> IF p = b THEN 1 ELSE refcount[p] + (IF p = o THEN 1 ELSE 0)]
  /\ field' = [field EXCEPT ![b] = o] /\ Take(t, b)
  /\ UNCHANGED <<pools, leaked, weak, weak_references, todo>>
\* objc_retain, -retain, _Block_copy of a block on the heap
objc_retain(t, o) ==
  /\ InGuest(t) /\ owned[t][o] > 0 /\ refcount[o] < MaxRefs
  /\ refcount' = [refcount EXCEPT ![o] = @ + 1] /\ Take(t, o)
  /\ UNCHANGED <<state, field, pools, leaked, weak, weak_references, todo>>
objc_release(t, o) ==
  /\ InGuest(t) /\ owned[t][o] > 0
  /\ Drop(t, o) /\ Does(t, Releases(o))
  /\ UNCHANGED <<state, refcount, field, pools, leaked, weak, weak_references>>
\* A thread hands a reference it has over to another
hand_over(t, u, o) ==
  /\ t # u /\ InGuest(t) /\ owned[t][o] > 0
  /\ owned' = [owned EXCEPT ![t][o] = @ - 1, ![u][o] = @ + 1]
  /\ UNCHANGED <<state, refcount, field, pools, leaked, weak, weak_references, todo>>
\* objc_autorelease: without a pool the object leaks
objc_autorelease(t, o) ==
  /\ InGuest(t) /\ owned[t][o] > 0 /\ Drop(t, o)
  /\ IF pools[t] = <<>>
     THEN leaked' = [leaked EXCEPT ![o] = @ + 1] /\ UNCHANGED pools
     ELSE pools' = [pools EXCEPT ![t][Len(pools[t])] = Append(@, o)] /\ UNCHANGED leaked
  /\ UNCHANGED <<state, refcount, field, weak, weak_references, todo>>
\* objc_storeStrong and objc_setProperty: the new value is retained before the
\* old one is released, which matters when they are the same
objc_storeStrong(t, o, v) ==
  /\ InGuest(t) /\ owned[t][o] > 0 /\ state[o] = "object"
  /\ v # Nil => owned[t][v] > 0 /\ refcount[v] < MaxRefs
  /\ refcount' = [p \in Objects |-> IF p = v THEN refcount[p] + 1 ELSE refcount[p]]
  /\ field' = [field EXCEPT ![o] = v] /\ Does(t, Releases(field[o]))
  /\ UNCHANGED <<state, owned, pools, leaked, weak, weak_references>>
objc_autoreleasePoolPush(t) ==
  /\ InGuest(t) /\ Len(pools[t]) < MaxPools
  /\ pools' = [pools EXCEPT ![t] = Append(@, <<>>)]
  /\ UNCHANGED <<state, refcount, field, owned, leaked, weak, weak_references, todo>>
Drained(p, i) == FlattenSeq(Reverse(SubSeq(p, i, Len(p))))
objc_autoreleasePoolPop(t, i) ==
  /\ InGuest(t) /\ i \in DOMAIN pools[t]
  /\ pools' = [pools EXCEPT ![t] = SubSeq(@, 1, i - 1)]
  /\ Does(t, LET d == Drained(pools[t], i) IN [j \in DOMAIN d |-> Step("release", d[j])])
  /\ UNCHANGED <<state, refcount, field, owned, leaked, weak, weak_references>>

-----------------------------------------------------------------------------
(***************************************************************************)
(* What a release does.                                                    *)
(***************************************************************************)
Rest(t) == Tail(todo[t])
\* decrement_refcount; at the last reference -dealloc, or the dispose helper,
\* runs, which releases what the object refers to
release(t) ==
  /\ todo[t] # <<>> /\ Head(todo[t]).kind = "release"
  /\ LET o == Head(todo[t]).obj
     IN  /\ refcount' = [refcount EXCEPT ![o] = @ - 1]
         /\ IF refcount[o] = 1
            THEN /\ state' = [state EXCEPT ![o] = "dying"] /\ field' = [field EXCEPT ![o] = Nil]
                 /\ todo' = [todo EXCEPT ![t] = Releases(field[o]) \o <<Step("free", o)>> \o Rest(t)]
            ELSE todo' = [todo EXCEPT ![t] = Rest(t)] /\ UNCHANGED <<state, field>>
  /\ UNCHANGED <<owned, pools, leaked, weak, weak_references>>
clear_weak_references(o) ==
  /\ weak' = [l \in Locations |-> IF l \in weak_references[o] THEN Nil ELSE weak[l]]
  /\ weak_references' = [weak_references EXCEPT ![o] = {}]
\* dealloc_object, end of release_malloc_block
dealloc_object(t) ==
  /\ todo[t] # <<>> /\ Head(todo[t]).kind = "free"
  /\ clear_weak_references(Head(todo[t]).obj)
  /\ state' = [state EXCEPT ![Head(todo[t]).obj] = "free"]
  /\ todo' = [todo EXCEPT ![t] = Rest(t)]
  /\ UNCHANGED <<refcount, field, owned, pools, leaked>>

-----------------------------------------------------------------------------
(***************************************************************************)
(* Weak references.                                                        *)
(***************************************************************************)
Unregister(w, l, o) == IF o = Nil THEN w ELSE [w EXCEPT ![o] = @ \ {l}]
\* A weak reference to something that is gone is nil from the start
initialize_weak_reference(l, o, v, w) ==
  LET x == IF o # Nil /\ state[o] = "free" THEN Nil ELSE o
  IN  /\ weak' = [v EXCEPT ![l] = x]
      /\ weak_references' = IF x = Nil THEN w ELSE [w EXCEPT ![x] = @ \cup {l}]
\* objc_initWeak is objc_storeWeak to a variable that holds nil
objc_storeWeak(t, l, o) ==
  /\ InGuest(t)
  /\ initialize_weak_reference(l, o, weak, Unregister(weak_references, l, weak[l]))
  /\ UNCHANGED <<state, refcount, field, owned, pools, leaked, todo>>
objc_destroyWeak(t, l) ==
  /\ InGuest(t)
  /\ weak_references' = Unregister(weak_references, l, weak[l]) /\ weak' = [weak EXCEPT ![l] = Nil]
  /\ UNCHANGED <<state, refcount, field, owned, pools, leaked, todo>>
\* The destination of a copy or a move is not initialised yet
objc_copyWeak(t, l, m) ==
  /\ InGuest(t) /\ l # m /\ weak[l] = Nil
  /\ initialize_weak_reference(l, weak[m], weak, weak_references)
  /\ UNCHANGED <<state, refcount, field, owned, pools, leaked, todo>>
objc_moveWeak(t, l, m) ==
  /\ InGuest(t) /\ l # m /\ weak[l] = Nil
  /\ initialize_weak_reference(l, weak[m], [weak EXCEPT ![m] = Nil],
                               Unregister(weak_references, m, weak[m]))
  /\ UNCHANGED <<state, refcount, field, owned, pools, leaked, todo>>
\* objc_loadWeakRetained (objc_loadWeak autoreleases the result as well)
objc_loadWeakRetained(t, l) ==
  /\ InGuest(t) /\ weak[l] # Nil /\ Live(weak[l]) /\ refcount[weak[l]] < MaxRefs
  /\ refcount' = [refcount EXCEPT ![weak[l]] = @ + 1] /\ Take(t, weak[l])
  /\ UNCHANGED <<state, field, pools, leaked, weak, weak_references, todo>>
\* While the object's dealloc runs its refcount is that of a static object, so
\* the guest gets a reference which is not counted
load_dying(t, l) ==
  /\ InGuest(t) /\ weak[l] # Nil /\ state[weak[l]] = "dying"
  /\ Take(t, weak[l])
  /\ UNCHANGED <<state, refcount, field, pools, leaked, weak, weak_references, todo>>

-----------------------------------------------------------------------------
Next ==
  \E t \in Threads :
    \/ release(t) \/ dealloc_object(t) \/ objc_autoreleasePoolPush(t)
    \/ \E i \in 1 .. MaxPools : objc_autoreleasePoolPop(t, i)
    \/ \E o \in Objects :
         \/ alloc(t, o) \/ objc_retain(t, o) \/ objc_release(t, o) \/ objc_autorelease(t, o)
         \/ \E v \in Objects \cup {Nil} : copy_stack_block(t, o, v) \/ objc_storeStrong(t, o, v)
         \/ \E u \in Threads : hand_over(t, u, o)
         \/ \E l \in Locations : objc_storeWeak(t, l, o)
    \/ \E l \in Locations : objc_destroyWeak(t, l) \/ objc_loadWeakRetained(t, l)
    \/ \E l, m \in Locations : objc_copyWeak(t, l, m) \/ objc_moveWeak(t, l, m)
Spec == Init /\ [][Next]_vars

-----------------------------------------------------------------------------
(***************************************************************************)
(* Properties.                                                             *)
(***************************************************************************)
\* An object's count is the number of references there are to it: in
\* variables of the guest, properties of other objects and captured variables
\* of blocks, autorelease pools, and releases under way.  Nothing refers to an
\* object that is freed or whose dealloc has begun, whatever dealloc methods
\* and drained pools release in turn.
Count(s, o) == Cardinality({i \in DOMAIN s : s[i] = o})
References(o) ==
  leaked[o] + Cardinality({p \in Objects : field[p] = o})
  + MapThenSumSet(LAMBDA t : owned[t][o] + Count(FlattenSeq(pools[t]), o)
                                           + Count(todo[t], Step("release", o)), Threads)
RefsTrue == \A o \in Objects : References(o) = (IF Live(o) THEN refcount[o] ELSE 0)

\* "A zeroing weak reference cannot legally point to a deallocated object"
\* (objc.rs): a weak variable holds nil or an object that exists, and is
\* registered with exactly the object it holds.
WeakTrue ==
  \A l \in Locations, o \in Objects :
    /\ weak[l] = o <=> l \in weak_references[o]
    /\ weak[l] = o => state[o] # "free"
===========================================================================
