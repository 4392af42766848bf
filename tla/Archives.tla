------------------------------ MODULE Archives ------------------------------
(***************************************************************************)
(* NSKeyedArchiver and NSKeyedUnarchiver: an object graph becomes a list   *)
(* of entries, which refer to each other by index, and objects again.      *)
(* Both go down recursively through encodeWithCoder: and initWithCoder: of *)
(* the objects, which are the guest's for class "thing"; current_key says  *)
(* whose entry is being written or read.  Objects are named by Objects     *)
(* while they are encoded, and by their place in `heap' once decoded.      *)
(***************************************************************************)
EXTENDS Integers, Sequences, FiniteSetsExt, SequencesExt, TLC

CONSTANTS
  Objects,    \* objects to archive
  Graphs,     \* their graphs: functions from objects to [class, val, kids]
  Nil

VARIABLES
  graph, root,  \* what is archived
  phase,        \* "encode", "decode", "done"
  own,          \* does the guest use an unarchiver of its own, which it releases?
  plist,        \* $objects
  top,          \* $top
  current_key,  \* of the archiver, or the unarchiver; 0 for None
  archived,     \* already_archived
  unarchived,   \* already_unarchived, 0 for None
  stack,        \* what is being encoded or decoded, the innermost last
  heap,         \* objects that were decoded: [class, val, kids, rc]
  panic
vars == <<graph, root, phase, own, plist, top, current_key, archived, unarchived, stack, heap, panic>>

Null == 1
ValueOf(is, val) == [is |-> is, class |-> 0, val |-> val, kids |-> <<>>]
Init ==
  /\ graph \in Graphs /\ root \in Objects \cup {Nil} /\ own \in BOOLEAN
  /\ phase = "encode" /\ plist = <<ValueOf("string", "$null")>> /\ top = 0 /\ current_key = 0
  /\ archived = (Nil :> Null) /\ unarchived = <<>> /\ stack = <<>> /\ heap = <<>> /\ panic = FALSE

InStack == stack # <<>>
Top == Last(stack)
\* The innermost coder gets what it asked for; the outermost is done
Deliver(s, x) == IF s = <<>> THEN s ELSE [s EXCEPT ![Len(s)].got = Append(@, x)]

-----------------------------------------------------------------------------
\* encode_object for what is asked for next
Asked == IF InStack THEN graph[Top.obj].kids[Len(Top.got) + 1] ELSE root
Asks == IF InStack THEN Len(Top.got) < Len(graph[Top.obj].kids) ELSE top = 0
Encoding == phase = "encode" /\ ~panic
Rest == UNCHANGED <<graph, root, phase, own, unarchived, heap>>
Found(x) == stack' = Deliver(stack, x) /\ top' = (IF InStack THEN top ELSE x)
encode_known ==
  /\ Encoding /\ Asks /\ Asked \in DOMAIN archived /\ Found(archived[Asked])
  /\ Rest /\ UNCHANGED <<plist, current_key, archived, panic>>
\* A new entry; its $class, unless it is a string; then encodeWithCoder:.
\* Numbers other than Int, Double and Bool are not implemented
Classed(o) == graph[o].class # "string"
NoCoder(o) == graph[o].class = "number" /\ graph[o].val = "longlong"
encode_object(o) ==
  LET uid == Len(plist) + 1
      class == graph[o].class
      class_uid == IF class \in DOMAIN archived THEN archived[class] ELSE uid + 1
      entry == [ValueOf("dict", "none") EXCEPT !.class = IF Classed(o) THEN class_uid ELSE 0]
  IN  /\ Encoding /\ Asks /\ o = Asked /\ o \notin DOMAIN archived /\ Len(stack) <= Cardinality(Objects)
      /\ panic' = NoCoder(o)
      /\ plist' = plist \o <<entry>> \o (IF Classed(o) /\ class \notin DOMAIN archived THEN <<ValueOf("class", class)>> ELSE <<>>)
      /\ archived' = (IF Classed(o) THEN (class :> class_uid) @@ archived ELSE archived)
      /\ stack' = Append(stack, [obj |-> o, uid |-> uid, prev |-> current_key, got |-> <<>>])
      /\ current_key' = uid /\ Rest /\ UNCHANGED top
\* encodeWithCoder: has everything: it writes to the scope of current_key, and
\* the object counts as archived only now
Restored_not(f) == current_key
Restored(f) == f.prev
Scope(o, got) == IF Classed(o) THEN [plist[current_key] EXCEPT !.val = graph[o].val, !.kids = got] ELSE ValueOf("string", graph[o].val)
encoded ==
  /\ Encoding /\ InStack /\ ~Asks
  /\ plist' = [plist EXCEPT ![current_key] = Scope(Top.obj, Top.got)]
  /\ current_key' = Restored(Top) /\ archived' = archived @@ (Top.obj :> Top.uid)
  /\ stack' = Deliver(Front(stack), Top.uid) /\ top' = (IF Len(stack) = 1 THEN Top.uid ELSE top)
  /\ Rest /\ UNCHANGED panic
\* A cycle never ends
overflow ==
  /\ ~panic /\ Len(stack) > Cardinality(Objects) /\ panic' = TRUE
  /\ UNCHANGED <<graph, root, phase, own, plist, top, current_key, archived, unarchived, stack, heap>>
finishEncoding ==
  /\ Encoding /\ ~InStack /\ ~Asks /\ phase' = "decode"
  /\ unarchived' = [u \in DOMAIN plist |-> 0]
  /\ UNCHANGED <<graph, root, own, plist, top, current_key, archived, stack, heap, panic>>

-----------------------------------------------------------------------------
\* unarchive_key for what is asked for next, by the entry of current_key
NewObject(class, val) == [class |-> class, val |-> val, kids |-> <<>>, rc |-> 1]
Decoding == phase = "decode" /\ ~panic
Wants == IF InStack THEN Len(Top.got) < Len(plist[current_key].kids) ELSE heap = <<>>
Wanted == IF InStack THEN plist[current_key].kids[Len(Top.got) + 1] ELSE top
\* decode_current_array retains what it gets at once
Retained(h, x) == IF InStack /\ heap[Top.obj].class = "array" THEN [h EXCEPT ![x].rc = @ + 1] ELSE h
RestDecode == UNCHANGED <<graph, root, phase, own, plist, top, archived, panic>>
unarchived_before ==
  /\ Decoding /\ Wants /\ unarchived[Wanted] # 0
  /\ stack' = Deliver(stack, unarchived[Wanted]) /\ heap' = Retained(heap, unarchived[Wanted])
  /\ RestDecode /\ UNCHANGED <<current_key, unarchived>>
\* A string, which may be the one of nil
unarchive_value ==
  LET x == Len(heap) + 1
  IN  /\ Decoding /\ Wants /\ unarchived[Wanted] = 0 /\ plist[Wanted].is = "string"
      /\ heap' = Retained(Append(heap, NewObject("string", plist[Wanted].val)), x)
      /\ unarchived' = [unarchived EXCEPT ![Wanted] = x] /\ stack' = Deliver(stack, x)
      /\ RestDecode /\ UNCHANGED current_key
\* A dictionary: alloc and initWithCoder: of its class
DecodedVal(v) == IF v = "int" THEN "longlong" ELSE v
unarchive_key ==
  LET entry == plist[Wanted]
      class == plist[entry.class].val
  IN  /\ Decoding /\ Wants /\ unarchived[Wanted] = 0 /\ entry.is = "dict"
      /\ heap' = Append(heap, NewObject(class, DecodedVal(entry.val)))
      /\ stack' = Append(stack, [obj |-> Len(heap) + 1, uid |-> Wanted, prev |-> current_key, got |-> <<>>])
      /\ current_key' = Wanted /\ RestDecode /\ UNCHANGED unarchived
Retains(h, s) == FoldLeft(LAMBDA g, x : [g EXCEPT ![x].rc = @ + 1], h, s)
unarchived_now ==
  LET h == [heap EXCEPT ![Top.obj].kids = Top.got]
      f == Front(stack)
      kept == IF h[Top.obj].class = "array" THEN h ELSE Retains(h, Top.got)
  IN  /\ Decoding /\ InStack /\ ~Wants
      /\ heap' = (IF f # <<>> /\ heap[Last(f).obj].class = "array" THEN [kept EXCEPT ![Top.obj].rc = @ + 1] ELSE kept)
      /\ current_key' = Top.prev /\ unarchived' = [unarchived EXCEPT ![Top.uid] = Top.obj]
      /\ stack' = Deliver(f, Top.obj) /\ RestDecode
\* The guest retains the root.  Its own unarchiver it releases, which lets go
\* of all it decoded; unarchiveObjectWithData: autoreleases the root once more
\* instead, and never releases its unarchiver
Decoded == {unarchived[u] : u \in DOMAIN unarchived} \ {0}
Root == unarchived[top]
unarchive_ends ==
  /\ Decoding /\ ~InStack /\ ~Wants /\ phase' = "done"
  /\ heap' = [x \in DOMAIN heap |->
       [heap[x] EXCEPT !.rc = @ + (IF x = Root THEN 1 ELSE 0) - (IF (own /\ x \in Decoded) \/ (~own /\ x = Root) THEN 1 ELSE 0)]]
  /\ UNCHANGED <<graph, root, own, plist, top, current_key, archived, unarchived, stack, panic>>

Next ==
  \/ encode_known \/ (\E o \in Objects : encode_object(o)) \/ encoded \/ overflow \/ finishEncoding
  \/ unarchived_before \/ unarchive_value \/ unarchive_key \/ unarchived_now \/ unarchive_ends
Spec == Init /\ [][Next]_vars

-----------------------------------------------------------------------------
Reachable(S) == FoldLeft(LAMBDA R, i : R \cup UNION {Range(graph[o].kids) \ {Nil} : o \in R}, S, [i \in 1..Cardinality(Objects) |-> i])
Cyclic == \E o \in Reachable({root} \ {Nil}) : o \in Reachable(Range(graph[o].kids) \ {Nil})
Uncodable == \E o \in Reachable({root} \ {Nil}) : NoCoder(o)
Copy(o) == unarchived[archived[o]]
References(x) == MapThenSumSet(LAMBDA y : Cardinality({i \in DOMAIN heap[y].kids : heap[y].kids[i] = x}), DOMAIN heap)
\* What was archived comes back: the same classes, values and references,
\* shared where they were shared, each object once, except that nil comes back
\* as the string "$null"; only cycles, and numbers that cannot be encoded,
\* stop the archiver.  In the end an object is held by those that refer to it,
\* the root by the guest, and by nobody else but an unarchiver that was never
\* released
ArchiveTrue ==
  /\ panic => Cyclic \/ Uncodable
  /\ phase = "done" =>
       /\ LET R == Reachable({root} \ {Nil})
          IN  /\ \A o \in R : LET c == heap[Copy(o)]
                              IN  /\ c.class = graph[o].class /\ c.val = DecodedVal(graph[o].val)
                                  /\ c.kids = [i \in DOMAIN graph[o].kids |-> Copy(graph[o].kids[i])]
              /\ DOMAIN heap = {Copy(o) : o \in R} \cup (IF unarchived[Null] # 0 THEN {unarchived[Null]} ELSE {})
              /\ \A o, p \in R : o # p => Copy(o) # Copy(p)
       /\ \A x \in DOMAIN heap : heap[x].rc = References(x) + (IF x = Root THEN 1 ELSE 0) + (IF own \/ x = Root THEN 0 ELSE 1)
=============================================================================
