-------------------------------- MODULE Views --------------------------------
(***************************************************************************)
(* The tree of views and the tree of layers below it (ui_view.rs,          *)
(* ca_layer.rs), windows (ui_window.rs), view controllers                  *)
(* (ui_view_controller.rs) and navigation controllers                      *)
(* (ui_navigation_controller.rs): who is in whom, in which order, and who  *)
(* keeps whom alive.                                                       *)
(*                                                                         *)
(* A view has one layer, which goes by the view's name here.  Deallocation *)
(* happens within the call that released the last reference.  The guest    *)
(* does not keep layers of views, and makes no view a descendant of itself.*)
(***************************************************************************)
EXTENDS Integers, Sequences, FiniteSets, SequencesExt, FiniteSetsExt

CONSTANTS
  Nil,
  Windows, Plain,   \* addresses of windows and of other views
  Controllers,      \* addresses of view controllers
  Nav               \* the one among them that is a navigation controller

VARIABLES
  views,      \* see NoViews: the state of the views and layers
  windows,    \* State::windows of ui_window.rs, in the order of creation
  key_window,
  root,       \* root_view_controllers
  held,       \* references of the guest's own
  stack       \* navigation_stack of Nav

vars == <<views, windows, key_window, root, held, stack>>
Views == Windows \cup Plain
Things == Views \cup Controllers

NoViews == [
  live |-> {},                                   \* views and controllers that exist
  refs |-> [x \in Things |-> 0],
  superview |-> [v \in Views |-> Nil], subviews |-> [v \in Views |-> <<>>],
  superlayer |-> [v \in Views |-> Nil], sublayers |-> [v \in Views |-> <<>>],
  layer_refs |-> [v \in Views |-> 0],
  view_controller |-> [v \in Views |-> Nil],     \* of a view, not retained
  view |-> [c \in Controllers |-> Nil]]          \* of a controller, retained
Init ==
  /\ views = NoViews /\ windows = <<>> /\ key_window = Nil
  /\ root = [w \in Windows |-> Nil] /\ held = [x \in Things |-> 0] /\ stack = <<>>

-----------------------------------------------------------------------------
(***************************************************************************)
(* Layers.                                                                 *)
(***************************************************************************)
removeFromSuperlayer(t, v) ==
  IF t.superlayer[v] = Nil THEN t
  ELSE [t EXCEPT !.superlayer[v] = Nil, !.sublayers[t.superlayer[v]] = Remove(@, v), !.layer_refs[v] = @ - 1]
InLayer(t, p, v, i) ==
  LET u == removeFromSuperlayer([t EXCEPT !.layer_refs[v] = @ + 1], v)
  IN  [u EXCEPT !.superlayer[v] = p, !.sublayers[p] = InsertAt(@, i, v)]
addSublayer(t, p, v) == InLayer(t, p, v, Len(removeFromSuperlayer(t, v).sublayers[p]) + 1)
insertSublayer_atIndex(t, p, v, i) == InLayer(t, p, v, i + 1)
PositionOf(s, x) == Min({i \in DOMAIN s : s[i] = x})
insertSublayer_below(t, p, v, sibling) ==
  InLayer(t, p, v, PositionOf(removeFromSuperlayer(t, v).sublayers[p], sibling))
\* -[CALayer dealloc], once the view has let go of it
layer_dealloc(t, v) ==
  LET S == ToSet(t.sublayers[v])
  IN  [t EXCEPT !.sublayers[v] = <<>>,
                !.superlayer = [u \in Views |-> IF u \in S THEN Nil ELSE @[u]],
                !.layer_refs = [u \in Views |-> @[u] - (IF u \in S THEN 1 ELSE 0)]]

-----------------------------------------------------------------------------
(***************************************************************************)
(* Views, as functions of the state t.                                     *)
(***************************************************************************)
retain(t, x) == IF x = Nil THEN t ELSE [t EXCEPT !.refs[x] = @ + 1]
release(t, x) == IF x = Nil THEN t ELSE [t EXCEPT !.refs[x] = @ - 1]
\* init_common: the view keeps its layer
alloc(t, v) == [t EXCEPT !.live = @ \cup {v}, !.refs[v] = 1, !.layer_refs[v] = 1,
                         !.superview[v] = Nil, !.subviews[v] = <<>>, !.view_controller[v] = Nil]
\* -[UIView dealloc].  The assertions there are OutOfTrees below.
dealloc_keeping_superview(t, v) ==
  LET u == [t EXCEPT !.layer_refs[v] = @ - 1]
      l == IF u.layer_refs[v] = 0 THEN layer_dealloc(u, v) ELSE u
      S == ToSet(t.subviews[v])
  IN  [l EXCEPT !.live = @ \ {v}, !.subviews[v] = <<>>,
                !.refs = [x \in Things |-> @[x] - (IF x \in S THEN 1 ELSE 0)]]
dealloc(t, v) ==
  LET u == [t EXCEPT !.layer_refs[v] = @ - 1]
      l == IF u.layer_refs[v] = 0 THEN layer_dealloc(u, v) ELSE u
      S == ToSet(t.subviews[v])
  IN  [l EXCEPT !.live = @ \ {v}, !.subviews[v] = <<>>,
                !.superview = [x \in Views |-> IF x \in S THEN Nil ELSE @[x]],
                !.refs = [x \in Things |-> @[x] - (IF x \in S THEN 1 ELSE 0)]]
set_view_controller(t, v, c) == IF v = Nil THEN t ELSE [t EXCEPT !.view_controller[v] = c]
\* -[UIViewController dealloc]
controller_dealloc(t, c) ==
  release(set_view_controller([t EXCEPT !.live = @ \ {c}, !.view[c] = Nil], t.view[c], Nil), t.view[c])
\* What the last releases of a call lead to
Doomed(t) == {x \in t.live : t.refs[x] = 0}
Freed(t) ==
  FoldLeft(LAMBDA u, i : IF Doomed(u) = {} THEN u
                         ELSE LET x == CHOOSE x \in Doomed(u) : TRUE
                              IN  IF x \in Views THEN dealloc(u, x) ELSE controller_dealloc(u, x),
           t, [i \in 1 .. Cardinality(Things) |-> i])

removeFromSuperview(t, v) ==
  IF v = Nil \/ t.superview[v] = Nil THEN t
  ELSE release([removeFromSuperlayer(t, v) EXCEPT !.superview[v] = Nil,
                                                  !.subviews[t.superview[v]] = Remove(@, v)], v)
\* Retained first: taking it out of where it is must not end it
Moved(t, p, v) == [removeFromSuperview(retain(t, v), v) EXCEPT !.superview[v] = p]
bringSubviewToFront(t, p, v) ==
  IF ~Contains(t.subviews[p], v) THEN t
  ELSE addSublayer(removeFromSuperlayer([t EXCEPT !.subviews[p] = Append(Remove(@, v), v)], v), p, v)
sendSubviewToBack(t, p, v) ==
  IF ~Contains(t.subviews[p], v) THEN t
  ELSE insertSublayer_atIndex(removeFromSuperlayer([t EXCEPT !.subviews[p] = <<v>> \o Remove(@, v)], v), p, v, 0)
addSubview(t, p, v) ==
  IF t.superview[v] = p THEN bringSubviewToFront(t, p, v)
  ELSE LET u == Moved(t, p, v) IN addSublayer([u EXCEPT !.subviews[p] = Append(@, v)], p, v)
insertSubview_atIndex(t, p, v, i) ==
  LET u == Moved(t, p, v) IN insertSublayer_atIndex([u EXCEPT !.subviews[p] = InsertAt(@, i + 1, v)], p, v, i)
insertSubview_below(t, p, v, sibling) ==
  LET u == Moved(t, p, v) i == PositionOf(u.subviews[p], sibling)
  IN  insertSublayer_below([u EXCEPT !.subviews[p] = InsertAt(@, i, v)], p, v, sibling)

\* Controllers.  A view that loadView makes for itself is retained twice.
setView(t, c, v) ==
  release(retain(set_view_controller(set_view_controller([t EXCEPT !.view[c] = v], t.view[c], Nil), v, c), v), t.view[c])
Unused(t) == {v \in Plain : v \notin t.live}
view(t, c) == IF t.view[c] # Nil THEN t ELSE LET v == CHOOSE u \in Unused(t) : TRUE IN setView(alloc(t, v), c, v)
Loadable(t, cs) == Cardinality({c \in cs : t.view[c] = Nil}) <= Cardinality(Unused(t))

-----------------------------------------------------------------------------
(***************************************************************************)
(* The guest's calls.                                                      *)
(***************************************************************************)
\* The whole call: what it did, then what its releases deallocated, windows
\* and their root controllers included
\* -[UIWindow dealloc] drops the window's entries and releases its root
Finish(t, r) ==
  LET u == Freed(t)
      gone == {w \in Windows : w \in views.live /\ w \notin u.live}
      rooted == {w \in gone : r[w] # Nil}
      v == Freed([u EXCEPT !.refs = [x \in Things |-> @[x] - Cardinality({w \in rooted : r[w] = x})]])
  IN  /\ views' = v
      /\ windows' = SelectSeq(windows, LAMBDA w : w \notin gone)
      /\ key_window' = IF key_window \in gone THEN Nil ELSE key_window
      /\ root' = [w \in Windows |-> IF w \in gone THEN Nil ELSE r[w]]
Live(x) == x \in views.live
Mine(x) == held[x] > 0
Gets(x) == held' = [held EXCEPT ![x] = @ + 1]
Ancestors(p) ==
  FoldLeft(LAMBDA S, i : S \cup {views.superview[v] : v \in S \ {Nil}}, {p}, [i \in 1 .. Cardinality(Views) |-> i])
Usable(p, v) == Mine(p) /\ Mine(v) /\ p # v /\ v \notin Ancestors(p) /\ v \notin Windows

initWithFrame(v) ==
  /\ ~Live(v) /\ Gets(v)
  /\ views' = alloc(views, v)
  /\ windows' = IF v \in Windows THEN Append(windows, v) ELSE windows
  /\ UNCHANGED <<key_window, root, stack>>
\* A navigation controller that goes leaves its stack, which nothing releases;
\* another is only made here if that was empty
initWithNibName(c) ==
  /\ ~Live(c) /\ Gets(c) /\ (c = Nav => stack = <<>>)
  /\ views' = [views EXCEPT !.live = @ \cup {c}, !.refs[c] = 1]
  /\ UNCHANGED <<windows, key_window, root, stack>>
Release(x) ==
  /\ Mine(x) /\ held' = [held EXCEPT ![x] = @ - 1]
  /\ Finish(release(views, x), root) /\ UNCHANGED stack
Add(p, v) == Usable(p, v) /\ Finish(addSubview(views, p, v), root) /\ UNCHANGED <<held, stack>>
InsertAtIndex(p, v, i) ==
  /\ Usable(p, v) /\ i \in 0 .. Len(Remove(views.subviews[p], v))
  /\ Finish(insertSubview_atIndex(views, p, v, i), root) /\ UNCHANGED <<held, stack>>
InsertBelow(p, v, sibling) ==
  /\ Usable(p, v) /\ sibling # v /\ Contains(views.subviews[p], sibling)
  /\ Finish(insertSubview_below(views, p, v, sibling), root) /\ UNCHANGED <<held, stack>>
ToFront(p, v) == Usable(p, v) /\ Finish(bringSubviewToFront(views, p, v), root) /\ UNCHANGED <<held, stack>>
ToBack(p, v) == Usable(p, v) /\ Finish(sendSubviewToBack(views, p, v), root) /\ UNCHANGED <<held, stack>>
RemoveView(v) == Mine(v) /\ Finish(removeFromSuperview(views, v), root) /\ UNCHANGED <<held, stack>>
makeKeyWindow(w) == Mine(w) /\ key_window' = w /\ UNCHANGED <<views, windows, root, held, stack>>

SetView(c, v) == Mine(c) /\ (v # Nil => Mine(v)) /\ Finish(setView(views, c, v), root) /\ UNCHANGED <<held, stack>>
\* The new root is kept before the old one is let go
setRootViewController(w, c) ==
  /\ Mine(w) /\ c # root[w] /\ (c # Nil => Mine(c))
  /\ LET old == root[w]
         t == retain(views, c)
         u == IF old = Nil THEN t ELSE LET o == view(t, old) IN release(removeFromSuperview(o, o.view[old]), old)
         n == IF c = Nil THEN u ELSE LET o == view(u, c) IN addSubview(o, w, o.view[c])
     IN  /\ Loadable(t, {old, c} \ {Nil})
         /\ Finish(n, [root EXCEPT ![w] = c])
  /\ UNCHANGED <<held, stack>>
Pushed(t, c) == LET o == view(view(retain(t, c), Nav), c) IN addSubview(o, o.view[Nav], o.view[c])
pushViewController(c) ==
  /\ Mine(Nav) /\ Mine(c) /\ c # Nav /\ ~Contains(stack, c) /\ Loadable(views, {Nav, c})
  /\ stack' = Append(stack, c) /\ Finish(Pushed(views, c), root) /\ UNCHANGED held
\* The controllers there are must show in the navigation controller's view
setViewControllers(cs) ==
  /\ Mine(Nav) /\ cs # <<>> /\ \A i \in DOMAIN cs : Mine(cs[i]) /\ cs[i] # Nav
  /\ \A i \in DOMAIN stack : views.view[stack[i]] # Nil /\ views.superview[views.view[stack[i]]] = views.view[Nav]
  /\ Loadable(views, {Nav, Last(cs)})
  /\ LET t == FoldLeft(LAMBDA u, c : release(removeFromSuperview(u, u.view[c]), c), views, stack)
         u == FoldLeft(LAMBDA a, c : retain(a, c), t, Front(cs))
     IN  Finish(Pushed(u, Last(cs)), root)
  /\ stack' = cs /\ UNCHANGED held

TreeNext ==
  \/ \E v \in Views : initWithFrame(v) \/ RemoveView(v) \/ Release(v)
  \/ \E w \in Windows : makeKeyWindow(w)
  \/ \E p, v \in Views :
       \/ Add(p, v) \/ ToFront(p, v) \/ ToBack(p, v)
       \/ \E i \in 0 .. Cardinality(Views) : InsertAtIndex(p, v, i)
       \/ \E s \in Views : InsertBelow(p, v, s)
ControllerNext ==
  \/ \E v \in Views : initWithFrame(v) \/ Release(v)
  \/ \E c \in Controllers : initWithNibName(c) \/ Release(c) \/ pushViewController(c)
  \/ \E c \in Controllers, v \in Plain \cup {Nil} : SetView(c, v)
  \/ \E w \in Windows, c \in Controllers \cup {Nil} : setRootViewController(w, c)
  \/ \E c, d \in Controllers : setViewControllers(IF c = d THEN <<c>> ELSE <<c, d>>)

-----------------------------------------------------------------------------
(***************************************************************************)
(* Properties.                                                             *)
(***************************************************************************)
\* What is touched is what is seen: of the views there are, one is in the list
\* of its superview, once, and in no other; and the layers, which are what is
\* drawn, form the same tree in the same order, after any calls and whatever
\* was deallocated within them.
TreesMatch ==
  \A p \in views.live \cap Views :
    /\ views.sublayers[p] = views.subviews[p]
    /\ \A v \in Views : (views.superview[v] = p /\ v \in views.live) <=> Contains(views.subviews[p], v)
    /\ IsInjective(views.subviews[p])
    /\ views.superlayer[p] = views.superview[p]
    /\ views.superview[p] # Nil => views.superview[p] \in views.live

\* Nothing refers to what has gone.  A controller that a view names exists and
\* has that view: deallocation and setView: leave no view with a controller
\* that has gone, to send viewWillAppear: to.  The assertions of
\* -[UIView dealloc] hold: what is gone has neither controller nor superview.
\* And the windows in the list, the key window, the roots and the controllers
\* on the navigation stack all exist.
ControllersTrue ==
  /\ \A v \in Views : views.view_controller[v] # Nil =>
       views.view_controller[v] \in views.live /\ views.view[views.view_controller[v]] = v
  /\ \A v \in Views \ views.live : views.superview[v] = Nil /\ views.view_controller[v] = Nil
  /\ ToSet(windows) = views.live \cap Windows /\ key_window \in (views.live \cap Windows) \cup {Nil}
  /\ \A w \in Windows : root[w] # Nil => {w, root[w]} \subseteq views.live
  /\ ToSet(stack) \subseteq views.live
=============================================================================
