------------------------------ MODULE Classes ------------------------------
(***************************************************************************)
(* The Objective-C class table (objc/classes.rs, methods.rs, selectors.rs, *)
(* protocols.rs, properties.rs): classes of the host come from templates   *)
(* when something refers to them, those of the app from its binary, some   *)
(* of which are replaced by fakes; sizes are reconciled, categories added, *)
(* and messages find their method along the superclasses.                  *)
(*                                                                         *)
(* A class is <<name, meta>>.  Sizes are in words.                         *)
(***************************************************************************)
EXTENDS Integers, Sequences, FiniteSets, SequencesExt, FiniteSetsExt

CONSTANTS
  Template,     \* host classes: superclass and selectors by name
  BinClass,     \* __objc_classlist: superclass, alignment of variables, methods and protocols by name
  Fakes,        \* names for which substitute_classes finds a fake
  Category,     \* __objc_catlist: a sequence of class, selectors, protocols
  Proto,        \* __objc_protolist: name and adopted protocols
  Selectors, Nil,
  Sizes,        \* how many words of an object a class may start at or have itself
  MaxAdded      \* bound on methods added at run time
VARIABLES
  phase,            \* "relocate", "run"
  linked,           \* host classes and placeholders in ObjC::classes
  superclass,       \* of each class in ObjC::classes
  methods,          \* the implementation a class has for a selector, or NoMethod
  layout,           \* of app classes: instance_start, instance_size, the offset in memory of
                    \* the first variable, and how far the address to read it from was moved
  class_protocols,
  added             \* methods added at run time

vars == <<phase, linked, superclass, methods, layout, class_protocols, added>>
Root == "NSObject"
NoMethod == <<Nil, -1>>
Known == DOMAIN BinClass \cup DOMAIN Template \cup {BinClass[c].super : c \in DOMAIN BinClass} \cup {Nil}
Names == Known \ {Nil}
All == Names \X BOOLEAN
\* As many rounds as a set has members
Times(S) == [i \in 1 .. Cardinality(S) |-> i]
Empty == [s \in Selectors |-> NoMethod]
Init ==
  /\ phase = "relocate" /\ linked = {} /\ added = 0
  /\ superclass = [c \in All |-> <<Nil, FALSE>>] /\ methods = [c \in All |-> Empty]
  /\ \E f, g \in [DOMAIN BinClass -> Sizes] :
       layout = [n \in DOMAIN BinClass |-> [start |-> f[n], size |-> f[n] + g[n], offset |-> f[n], moved |-> 0]]
  /\ class_protocols = [n \in Names |-> {}]

-----------------------------------------------------------------------------
(***************************************************************************)
(* Host classes.                                                           *)
(***************************************************************************)
\* The classes a template leads to; NSObject's metaclass needs NSObject
Above[n \in Known] == IF n \in DOMAIN Template THEN {n} \cup Above[Template[n].super] ELSE {}
IsPlaceholder(n) == n \notin DOMAIN Template /\ n \notin DOMAIN BinClass
\* from_template
Implemented(n, meta, by) == [s \in Selectors |-> IF <<s, meta>> \in by THEN <<n, 0>> ELSE NoMethod]
\* The metaclass's superclass is that of the superclass, NSObject's is NSObject
MetaSuper(n, s) == IF s = Nil THEN <<n, FALSE>> ELSE <<s, TRUE>>
\* link_class_inner: a class and its metaclass are made together, after those
\* above them; a name without a template gets a placeholder below NSObject
Superclass(n) == IF n \in DOMAIN Template THEN Template[n].super ELSE Root
link_class(n) ==
  /\ phase = "relocate" /\ n \notin DOMAIN BinClass /\ n \notin linked
  /\ LET new == ({n} \cup Above[n] \cup Above[Root]) \ linked
     IN  /\ linked' = linked \cup new
         /\ superclass' = [c \in All |-> IF c[1] \notin new THEN superclass[c]
                                         ELSE IF c[2] THEN MetaSuper(c[1], Superclass(c[1])) ELSE <<Superclass(c[1]), FALSE>>]
         /\ methods' = [c \in All |-> IF c[1] \in new /\ c[1] \in DOMAIN Template
                                      THEN Implemented(c[1], c[2], Template[c[1]].methods) ELSE methods[c]]
  /\ UNCHANGED <<phase, layout, class_protocols, added>>

-----------------------------------------------------------------------------
(***************************************************************************)
(* The app's classes.                                                      *)
(***************************************************************************)
IsFake(n) == n \in Fakes
Real(n) == n # Nil /\ ~IsFake(n) /\ ~IsPlaceholder(n)
SizeOf(l, n) == IF n \in DOMAIN BinClass THEN l[n].size ELSE 1    \* just the isa pointer
AlignUp(d, a) == ((d + a - 1) \div a) * a
\* need_ivar_reconciliation
Overlap(l, n) ==
  LET s == BinClass[n].super
  IN  IF ~Real(n) \/ ~Real(s) \/ l[n].start >= SizeOf(l, s) THEN 0 ELSE SizeOf(l, s) - l[n].start
\* One class is moved by a multiple of its variables' alignment
Reconcile(l, n) ==
  LET d == AlignUp(Overlap(l, n), BinClass[n].align)
  \* what is moved with them is the address at which the offset is read
  IN  [l EXCEPT ![n].start = @ + d, ![n].size = @ + d, ![n].moved = d]
\* Breadth first from the classes without a superclass, "as one overgrown
\* class potentially implies reconciliation for all of subclasses".  Real
\* classes below a fake or a placeholder are not reached.
Below(cs) == {n \in DOMAIN BinClass : Real(n) /\ BinClass[n].super \in cs}
HostReal == {n \in linked : n \in DOMAIN Template}
Levels[d \in 0 .. Cardinality(DOMAIN BinClass)] == IF d = 0 THEN Below(HostReal) ELSE Below(Levels[d - 1])
Order == FoldLeft(LAMBDA s, d : s \o SetToSeq(Levels[d - 1]), <<>>, Times(DOMAIN BinClass))
\* register_bin_protocols, register_bin_classes, register_bin_categories.
\* A category adds to a class, or replaces what it has; the last one counts.
AddCategory(m, k) ==
  LET cat == Category[k]
  IN  [c \in All |-> IF c[1] # cat.class \/ ~Real(cat.class) THEN m[c]
                     ELSE [s \in Selectors |-> IF <<s, c[2]>> \in cat.methods THEN <<cat.class, k>> ELSE m[c][s]]]
FromBin == [c \in All |-> IF c[1] \in DOMAIN BinClass /\ Real(c[1])
                          THEN Implemented(c[1], c[2], BinClass[c[1]].methods) ELSE methods[c]]
register_bin ==
  /\ phase = "relocate" /\ phase' = "run"
  \* every superclass has been linked by a relocation
  /\ \A n \in DOMAIN BinClass : BinClass[n].super \in linked \cup DOMAIN BinClass
  /\ superclass' = [c \in All |-> IF c[1] \notin DOMAIN BinClass THEN superclass[c]
                                  ELSE <<BinClass[c[1]].super, c[2]>>]
  /\ layout' = FoldLeft(Reconcile, layout, Order)
  /\ methods' = FoldLeft(AddCategory, FromBin, [k \in DOMAIN Category |-> k])
  /\ class_protocols' =
       [n \in Names |-> (IF n \in DOMAIN BinClass THEN BinClass[n].protocols ELSE {})
                        \cup UNION {Category[k].protocols : k \in {j \in DOMAIN Category : Category[j].class = n}}]
  /\ UNCHANGED <<linked, added>>

-----------------------------------------------------------------------------
(***************************************************************************)
(* At run time.                                                            *)
(***************************************************************************)
InTable(n) == n \in linked \cup DOMAIN BinClass
\* class_addMethod does nothing if the class itself has the method
class_addMethod(c, s) ==
  /\ phase = "run" /\ InTable(c[1]) /\ Real(c[1]) /\ added < MaxAdded
  /\ added' = added + 1
  /\ methods' = IF methods[c][s] = NoMethod THEN [methods EXCEPT ![c][s] = <<c[1], 100>>] ELSE methods
  /\ UNCHANGED <<phase, linked, superclass, layout, class_protocols>>
\* The chain of classes a message looks at
Upwards(ch) == LET s == superclass[Last(ch)] IN IF s[1] = Nil THEN ch ELSE Append(ch, s)
ChainOf(c) == FoldLeft(LAMBDA ch, n : Upwards(ch), <<c>>, Times(All))
\* objc_msgSend_inner: the first class that has the method, unless a fake
\* comes first (nothing happens) or a placeholder (the program stops)
Stops(c) == ~Real(c[1])
Hits(chain, s) == {i \in DOMAIN chain : Stops(chain[i]) \/ methods[chain[i]][s] # NoMethod}
objc_msgSend(chain, s) ==
  LET hits == Hits(chain, s) at == chain[Min(hits)]
  IN  IF hits = {} THEN <<"does not respond", 0>>
      ELSE IF IsFake(at[1]) THEN <<Nil, 0>> ELSE IF Stops(at) THEN <<"unimplemented", 0>> ELSE methods[at][s]
\* class_has_method
class_has_method(chain, s) == \E i \in DOMAIN chain : methods[chain[i]][s] # NoMethod
\* protocol_conforms_to_protocol: all that p adopts, and they in turn; two
\* protocols may have one name
Visited(p) == FoldLeft(LAMBDA v, q : v \cup UNION {Proto[r].adopts : r \in v}, {p}, Times(DOMAIN Proto))
protocol_conforms(p, q) == \E r \in Visited(p) : Proto[r].name = Proto[q].name
class_conforms(chain, q) == \E i \in DOMAIN chain : \E p \in class_protocols[chain[i][1]] : protocol_conforms(p, q)

Next ==
  \/ \E n \in Names : link_class(n)
  \/ register_bin
  \/ \E c \in All, s \in Selectors : class_addMethod(c, s)
Spec == Init /\ [][Next]_vars

-----------------------------------------------------------------------------
(***************************************************************************)
(* Properties.                                                             *)
(***************************************************************************)
\* "ensure no superclass has grown into any of its subclasses" (classes.rs):
\* the variables of a class come after all those of its superclass, also
\* after that one has been moved itself.
NoneGrownInto ==
  phase = "run" =>
    \A n \in DOMAIN BinClass :
      /\ layout[n].start = layout[n].offset + layout[n].moved
      /\ Real(n) /\ Real(BinClass[n].super) => layout[n].start >= SizeOf(layout, BinClass[n].super)
\* The same of where the app's code finds them: by the offset in memory
IvarsMoved ==
  phase = "run" =>
    \A n \in DOMAIN BinClass :
      Real(n) /\ Real(BinClass[n].super) => layout[n].offset >= SizeOf(layout, BinClass[n].super)

\* In whatever order classes are referred to, each class and each metaclass
\* ends in NSObject's class, the metaclasses run parallel to the classes, and
\* an object answers to a selector exactly when a message with it would find
\* a method, which is the nearest one, added last.
Declares(d, q) ==
  \/ d \in DOMAIN BinClass /\ \E p \in BinClass[d].protocols : protocol_conforms(p, q)
  \/ \E k \in DOMAIN Category : Category[k].class = d /\ \E p \in Category[k].protocols : protocol_conforms(p, q)
DispatchRight ==
  phase = "run" =>
    \A n \in {m \in Names : InTable(m)} :
      LET class == ChainOf(<<n, FALSE>>) meta == ChainOf(<<n, TRUE>>)
      IN  /\ Last(class) = <<Root, FALSE>>
          /\ meta = [i \in DOMAIN class |-> <<class[i][1], TRUE>>] \o <<<<Root, FALSE>>>>
          /\ \A chain \in {class, meta}, s \in Selectors :
               LET found == objc_msgSend(chain, s) own == methods[chain[1]][s]
               IN  /\ class_has_method(chain, s) => found # <<"does not respond", 0>>
                   /\ own # NoMethod => found = own
                   /\ \A k \in DOMAIN Category :
                        Category[k].class = n /\ Real(n) /\ <<s, chain[1][2]>> \in Category[k].methods
                          => \E j \in k .. Len(Category) : own = <<n, j>>
          /\ \A q \in DOMAIN Proto :
               class_conforms(class, q) <=>
                 \E d \in Names : n # Nil /\ (\E i \in DOMAIN class : class[i] = <<d, FALSE>>) /\ Declares(d, q)
=============================================================================
