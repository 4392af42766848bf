------------------------------- MODULE Input -------------------------------
(***************************************************************************)
(* From the host's input devices to the guest's views: the events that     *)
(* Window::poll_for_events makes of those of SDL (window.rs), how          *)
(* handle_events takes them out (uikit.rs), and the touches and messages   *)
(* ui_touch.rs makes of them.                                              *)
(*                                                                         *)
(* A finger is anything that can touch the screen: the mouse, a finger, a  *)
(* controller's button, stick or d-pad mapped to a place, or the cursor    *)
(* that the right stick moves.  A place stands for coordinates; At is what *)
(* hitTest: finds there.  There is one controller, which is not unplugged  *)
(* with something held.                                                    *)
(***************************************************************************)
EXTENDS Integers, Sequences, FiniteSets, SequencesExt, FiniteSetsExt, Functions

CONSTANTS
  Nil,
  Touchscreen,    \* the fingers on a touch screen
  Places, At,     \* places on the screen, and the view at each or Nil
  Multiple,       \* views with isMultipleTouchEnabled
  TouchViews,     \* all views
  Moves,          \* places a finger may move to
  MaxSdl,         \* bound on the host's events that wait
  MaxTouches      \* bound on the fingers held at once

VARIABLES
  sdl,        \* events of the host not polled yet
  down,       \* what the user holds: where each finger is, or Nil
  pad,        \* directions held on the d-pad
  win,        \* Window: its queue and what it remembers of the controller
  current,    \* current_touches: the number of each finger's touch, 0 if none
  touch,      \* UITouchHostObject of each touch, and NoTouch once it is over
  messages,   \* the messages that handle_touches_* has still to send
  told        \* touches each view was told have begun and not that they ended

input_vars == <<sdl, down, pad, win, current, touch, messages, told>>
Fingers == Touchscreen \cup {"Mouse", "ButtonToTouch", "StickToTouch", "DpadToTouch", "VirtualCursor"}
Touches == 1 .. MaxTouches + 2   \* the cursor's end comes after what else happened
NoTouch == [view |-> Nil, phase |-> "Ended", location |-> Nil]
InputInit ==
  /\ sdl = <<>> /\ down = [f \in Fingers |-> Nil] /\ pad = {}
  /\ win = [queue |-> <<>>, high_priority |-> Nil, polling |-> TRUE, dpad |-> {}, dpad_active |-> FALSE,
            stick_active |-> FALSE, cursor |-> Nil]
  /\ current = [f \in Fingers |-> 0] /\ touch = [n \in Touches |-> NoTouch]
  /\ messages = <<>> /\ told = [v \in TouchViews |-> {}]

-----------------------------------------------------------------------------
(***************************************************************************)
(* The user.  An event has the time of the one before it or a later one;   *)
(* only the difference between neighbours matters.  Events queue up in the *)
(* order they come, so that nothing is lost if the user acts when there    *)
(* is nothing left to handle.                                              *)
(***************************************************************************)
Ev(type, what, finger, at, time) == [type |-> type, what |-> what, finger |-> finger, at |-> at, time |-> time]
Room == Len(sdl) < MaxSdl /\ win.queue = <<>> /\ messages = <<>>
Times == IF sdl = <<>> THEN {0} ELSE {0, 1}
Held == {f \in Fingers : down[f] # Nil}
Happens(e) == Room /\ sdl' = Append(sdl, e) /\ UNCHANGED <<win, current, touch, messages, told>>
press(f, at, time) ==
  /\ down[f] = Nil /\ Cardinality(Held) < MaxTouches
  /\ down' = [down EXCEPT ![f] = at] /\ UNCHANGED pad
  /\ Happens(Ev(f, "Down", f, at, time))
drag(f, at, time) ==
  /\ down[f] \notin {Nil, at} /\ down' = [down EXCEPT ![f] = at] /\ UNCHANGED pad
  /\ Happens(Ev(f, "Move", f, at, time))
lift(f, time) ==
  /\ down[f] # Nil /\ down' = [down EXCEPT ![f] = Nil] /\ UNCHANGED pad
  /\ Happens(Ev(f, "Up", f, down[f], time))
\* A change on the d-pad; it holds the screen while any direction is held
dpad(d) ==
  /\ pad' = (pad \ {d}) \cup ({d} \ pad)
  /\ pad = {} => Cardinality(Held) < MaxTouches
  /\ down' = [down EXCEPT !["DpadToTouch"] = IF pad' = {} THEN Nil ELSE CHOOSE p \in Places : At[p] # Nil]
  /\ Happens(Ev("dpad", IF d \in pad THEN "Up" ELSE "Down", d, Nil, 0))
other(type) == UNCHANGED <<down, pad>> /\ Happens(Ev(type, Nil, Nil, Nil, 0))

-----------------------------------------------------------------------------
(***************************************************************************)
(* Window::poll_for_events.                                                *)
(***************************************************************************)
Touched(what, map) == [what |-> what, map |-> map]
One(what, f, at) == Touched(what, f :> at)
Queued(w, e) == [w EXCEPT !.queue = Append(@, e)]
\* The finger events that come with one time and of one kind make one event
NoGroup == [what |-> Nil, time |-> 0, map |-> <<>>]
Flush(acc) ==
  IF acc.group.what = Nil THEN acc
  ELSE [acc EXCEPT !.win = Queued(@, Touched(acc.group.what, acc.group.map)), !.group = NoGroup]
is_same_kind(g, e) == g.what = e.what /\ g.time = e.time
finger_event(acc, e) ==
  IF is_same_kind(acc.group, e)
  THEN [acc EXCEPT !.group.map = (e.finger :> e.at) @@ @]
  ELSE [Flush(acc) EXCEPT !.group = [what |-> e.what, time |-> e.time, map |-> e.finger :> e.at]]
\* A d-pad in use goes down, moves about and up as one finger
dpad_event(w, e) ==
  LET held == IF e.what = "Down" THEN w.dpad \cup {e.finger} ELSE w.dpad \ {e.finger}
      u == [w EXCEPT !.dpad = held, !.dpad_active = held # {}]
      at == CHOOSE p \in Places : At[p] # Nil
  IN  IF ~w.dpad_active /\ held # {} THEN Queued(u, One("Down", "DpadToTouch", at))
      ELSE IF w.dpad_active /\ held # {} THEN Queued(u, One("Move", "DpadToTouch", at))
      ELSE IF w.dpad_active THEN Queued(u, One("Up", "DpadToTouch", at))
      ELSE u
\* A stick is read as it is now, not as it was when it moved
stick_event(w) ==
  LET at == down["StickToTouch"]
  IN  IF at = Nil /\ ~w.stick_active THEN w
      ELSE IF at = Nil
      THEN Queued([w EXCEPT !.stick_active = FALSE], One("Up", "StickToTouch", CHOOSE p \in Places : TRUE))
      ELSE IF ~w.stick_active THEN Queued([w EXCEPT !.stick_active = TRUE], One("Down", "StickToTouch", at))
      ELSE Queued(w, One("Move", "StickToTouch", at))
\* The application is about to leave: nothing more is polled
leaving(w, what) == [w EXCEPT !.high_priority = what, !.polling = FALSE]
\* One round of the loop
Polled(acc, e) ==
  IF ~acc.win.polling THEN [acc EXCEPT !.rest = Append(@, e)]
  ELSE IF e.type \in Touchscreen THEN finger_event(acc, e)
  ELSE IF e.type = "gesture" /\ acc.group.what # Nil /\ acc.group.time = e.time THEN acc
  ELSE LET a == Flush(acc) w == a.win IN
    CASE e.type \in {"Mouse", "ButtonToTouch"} ->
           [a EXCEPT !.win = Queued(w, One(e.what, e.finger, e.at)), !.updated = @ \/ e.type = "ButtonToTouch"]
      [] e.type = "dpad" -> [a EXCEPT !.win = dpad_event(w, e), !.updated = TRUE]
      [] e.type = "StickToTouch" -> [a EXCEPT !.win = stick_event(w), !.updated = TRUE]
      [] e.type = "VirtualCursor" -> [a EXCEPT !.updated = TRUE]
      [] e.type = "background" -> [a EXCEPT !.win = leaving(w, "AppWillResignActive")]
      [] e.type = "terminating" -> [a EXCEPT !.win = leaving(w, "AppWillTerminate")]
      [] e.type \in {"quit", "text", "F12"} -> [a EXCEPT !.win = Queued(w, Touched(e.type, <<>>))]
      [] OTHER -> a
\* update_virtual_cursor: pressed or moved since it was last looked at, after
\* all events and by how things are now
cursor_event(w) ==
  LET at == down["VirtualCursor"] u == [w EXCEPT !.cursor = at]
  IN  IF at = w.cursor THEN w
      ELSE IF w.cursor = Nil THEN Queued(u, One("Down", "VirtualCursor", at))
      ELSE IF at = Nil THEN Queued(u, One("Up", "VirtualCursor", w.cursor))
      ELSE Queued(u, One("Move", "VirtualCursor", at))
poll_for_events ==
  /\ sdl # <<>> /\ win.polling
  /\ LET a == Flush(FoldLeft(Polled, [win |-> win, group |-> NoGroup, updated |-> FALSE, rest |-> <<>>], sdl))
     IN  win' = (IF a.updated THEN cursor_event(a.win) ELSE a.win) /\ sdl' = a.rest
  /\ UNCHANGED <<down, pad, current, touch, messages, told>>

-----------------------------------------------------------------------------
(***************************************************************************)
(* ui_touch.rs.  The messages of an event go out one after the other, in   *)
(* any order of the views, and guest code runs in each.                    *)
(***************************************************************************)
Numbers == {current[f] : f \in Fingers} \ {0}
Still == [n \in Touches |-> IF n \in Numbers THEN [touch[n] EXCEPT !.phase = "Stationary"] ELSE NoTouch]
Unused == SetToSortSeq(Touches \ Numbers, <)
\* view_touches in the order a hash map happens to have
ByView(what, m) == {[what |-> what, view |-> v, touches |-> m[v]] : v \in {u \in DOMAIN m : u # Nil /\ m[u] # {}}}
Orders(S) == {s \in [1 .. Cardinality(S) -> S] : IsInjective(s)}
\* What of the new touches, taken one after the other, goes to which view: a
\* view without multiple touch takes one, and none while it has one
views_with_existing_touches == {touch[n].view : n \in Numbers}
Accepted(acc, n, v) ==
  v # Nil /\ (v \in Multiple \/ (acc[v] = {} /\ v \notin views_with_existing_touches))
Hit(news, ns) ==
  FoldLeft(LAMBDA acc, n : LET v == At[news[n]] IN IF Accepted(acc, n, v) THEN [acc EXCEPT ![v] = @ \cup {n}] ELSE acc,
           [v \in TouchViews |-> {}], ns)
handle_touches_move(map) ==
  LET moved == {f \in DOMAIN map : current[f] # 0 /\ touch[current[f]].location # map[f]}
      t == [n \in Touches |->
              IF \E f \in moved : current[f] = n
              THEN [touch[n] EXCEPT !.location = map[CHOOSE f \in moved : current[f] = n], !.phase = "Moved"]
              ELSE Still[n]]
  IN  /\ touch' = t /\ UNCHANGED current
      /\ messages' \in Orders(ByView("Moved", [v \in TouchViews |-> {current[f] : f \in {g \in moved : touch[current[g]].view = v}}]))
\* None of the fingers is down: for that the same button would have to be held
\* on two controllers
handle_touches_down(map) ==
  /\ \A f \in DOMAIN map : current[f] = 0
  /\ LET fs == CHOOSE s \in Orders(DOMAIN map) : TRUE
         number == [f \in DOMAIN map |-> Unused[CHOOSE i \in DOMAIN fs : fs[i] = f]]
         place == [n \in Range(number) |-> map[CHOOSE f \in DOMAIN map : number[f] = n]]
     IN  \E ns \in Orders(Range(number)) :
           LET got == Hit(place, ns)
               view(n) == IF \E v \in TouchViews : n \in got[v] THEN CHOOSE v \in TouchViews : n \in got[v] ELSE Nil
           IN  /\ current' = [f \in Fingers |-> IF f \in DOMAIN map THEN number[f] ELSE current[f]]
               /\ touch' = [n \in Touches |-> IF n \in DOMAIN place
                                              THEN [view |-> view(n), phase |-> "Began", location |-> place[n]]
                                              ELSE Still[n]]
               /\ messages' \in Orders(ByView("Began", got))
handle_touches_up(map) ==
  LET ended == {f \in DOMAIN map : current[f] # 0}
  IN  /\ touch' = [n \in Touches |->
                     IF \E f \in ended : current[f] = n
                     THEN [touch[n] EXCEPT !.location = map[CHOOSE f \in ended : current[f] = n], !.phase = "Ended"]
                     ELSE Still[n]]
      /\ current' = [f \in Fingers |-> IF f \in ended THEN 0 ELSE current[f]]
      /\ messages' \in Orders(ByView("Ended", [v \in TouchViews |-> {current[f] : f \in {g \in ended : touch[current[g]].view = v}}]))
\* handle_events: one event; the next after its messages.  The ones that end
\* the application go first.
handle_event ==
  /\ messages = <<>> /\ win.high_priority = Nil /\ win.queue # <<>>
  /\ LET e == Head(win.queue)
     IN  \/ e.what = "Down" /\ handle_touches_down(e.map)
         \/ e.what = "Move" /\ handle_touches_move(e.map)
         \/ e.what = "Up" /\ handle_touches_up(e.map)
         \/ e.what \notin {"Down", "Move", "Up"} /\ UNCHANGED <<current, touch, messages>>
  /\ win' = [win EXCEPT !.queue = Tail(@)] /\ UNCHANGED <<sdl, down, pad, told>>
\* A view takes a message
Taken(m) ==
  told' = [told EXCEPT ![m.view] = IF m.what = "Began" THEN @ \cup m.touches
                                   ELSE IF m.what = "Ended" THEN @ \ m.touches ELSE @]

UserNext ==
  \/ \E f \in Touchscreen, t \in Times :
       lift(f, t) \/ \E p \in Places : press(f, p, t) \/ (p \in Moves /\ drag(f, p, t))
  \/ sdl # <<>> /\ other("gesture")
PadNext ==
  \/ \E d \in {"left", "right"} : dpad(d)
  \/ \E f \in {"Mouse", "StickToTouch", "VirtualCursor", "ButtonToTouch"} :
       lift(f, 0) \/ \E p \in Moves : press(f, p, 0)
  \/ \E f \in {"Mouse", "StickToTouch", "VirtualCursor"}, p \in Places : drag(f, p, 0)
  \/ \E type \in {"background", "terminating", "quit", "text"} : sdl = <<>> /\ other(type)

-----------------------------------------------------------------------------
(***************************************************************************)
(* Properties.                                                             *)
(***************************************************************************)
\* No finger stays on the screen and none is missed: once all events are
\* polled and handled, the fingers UIKit knows of are the ones the user holds,
\* however their events were grouped, interleaved and merged.
Settled == sdl = <<>> /\ win.queue = <<>> /\ messages = <<>>
FingersTrue == Settled => \A f \in Fingers : current[f] # 0 <=> down[f] # Nil

\* A view that was told of a touch is told of its end, and of no other: it has
\* heard of exactly the touches that are down and its own, and a view without
\* multiple touch of one at most.
TouchesPaired ==
  messages = <<>> => \A v \in TouchViews :
    /\ told[v] = {n \in Numbers : touch[n].view = v}
    /\ v \notin Multiple => Cardinality(told[v]) <= 1

-----------------------------------------------------------------------------
(***************************************************************************)
(* Controls (ui_control.rs), buttons (ui_button.rs), switches              *)
(* (ui_switch.rs) and text fields (ui_text_field.rs): what they make of    *)
(* the touches they get, and what they show.                               *)
(***************************************************************************)
CONSTANTS
  Control,     \* the view among TouchViews that is a control, and a button
  States,      \* control states that have a title of their own
  Fields,      \* text fields
  Titles

VARIABLES
  control,     \* UIControlHostObject
  titles,      \* titles_for_states
  shown,       \* the title the button's label has
  on,          \* of a switch: is_on, and whether the label "ON" is visible
  first_responder, editing, text_input

control_vars == <<control, titles, shown>>
field_vars == <<on, first_responder, editing, text_input>>
NoControl == [enabled |-> TRUE, selected |-> FALSE, highlighted |-> FALSE, tracked_touch |-> 0, tracking |-> FALSE]
ControlInit ==
  /\ control = NoControl /\ titles = [s \in {"Normal"} |-> Nil] /\ shown = Nil
  /\ on = [is_on |-> FALSE, label_on |-> FALSE]
  /\ first_responder = Nil /\ editing = [f \in Fields |-> FALSE] /\ text_input = FALSE

-----------------------------------------------------------------------------
\* A state is a set of flags; one without a title takes that of Normal
state(c) == (IF c.highlighted THEN {"Highlighted"} ELSE {}) \cup (IF c.enabled THEN {} ELSE {"Disabled"})
            \cup (IF c.selected THEN {"Selected"} ELSE {})
Key(S) == IF S = {} THEN "Normal" ELSE IF S = {"Highlighted"} THEN "Highlighted"
          ELSE IF S = {"Disabled"} THEN "Disabled" ELSE "Other"
titleForState(t, c) == LET k == Key(state(c)) IN IF k \in DOMAIN t THEN t[k] ELSE t["Normal"]
\* update() of a button
update(c, t) == shown' = titleForState(t, c)
Becomes(c) == control' = c /\ update(c, titles) /\ UNCHANGED titles
setEnabled(b) == b # control.enabled /\ Becomes([control EXCEPT !.enabled = b])
setSelected(b) == b # control.selected /\ Becomes([control EXCEPT !.selected = b])
setTitle(s, x) ==
  /\ titles' = [k \in DOMAIN titles \cup {s} |-> IF k = s THEN x ELSE titles[k]]
  /\ update(control, titles') /\ UNCHANGED control

\* The guest may refuse to track a touch, or to go on
touchesBegan(n, begins) ==
  IF control.enabled /\ begins
  THEN Becomes([control EXCEPT !.tracking = TRUE, !.tracked_touch = n, !.highlighted = TRUE])
  ELSE UNCHANGED control_vars
touchesMoved(n, continues) ==
  IF control.enabled /\ control.tracked_touch = n /\ ~continues
  THEN Becomes([control EXCEPT !.tracking = FALSE, !.tracked_touch = 0, !.highlighted = FALSE])
  ELSE UNCHANGED control_vars
touchesEnded(n) ==
  IF control.tracked_touch = n
  THEN Becomes([control EXCEPT !.tracking = FALSE, !.tracked_touch = 0, !.highlighted = FALSE])
  ELSE UNCHANGED control_vars
\* A view gets its message, and a control acts on it
deliver ==
  /\ messages # <<>> /\ messages' = Tail(messages) /\ UNCHANGED <<sdl, down, pad, win, current, touch>>
  /\ LET m == Head(messages)
     IN  /\ Taken(m)
         /\ IF m.view # Control THEN UNCHANGED control_vars
            ELSE \E n \in m.touches, b \in BOOLEAN :   \* anyObject
                   CASE m.what = "Began" -> touchesBegan(n, b)
                     [] m.what = "Moved" -> touchesMoved(n, b)
                     [] m.what = "Ended" -> touchesEnded(n)
InputNext ==
  \/ (UserNext \/ poll_for_events \/ handle_event) /\ UNCHANGED control_vars
  \/ deliver
\* The guest's calls, in its handlers or between events
GuestNext ==
  \/ \E b \in BOOLEAN : (setEnabled(b) \/ setSelected(b)) /\ UNCHANGED input_vars
  \/ \E s \in States, x \in Titles : setTitle(s, x) /\ UNCHANGED input_vars

-----------------------------------------------------------------------------
(***************************************************************************)
(* Switches and text fields.                                               *)
(***************************************************************************)
setOn(b) == on' = [is_on |-> b, label_on |-> b] /\ UNCHANGED <<first_responder, editing, text_input>>
\* _touchHLE_flipAction:, the switch's own action for TouchUpInside
flipAction == setOn(~on.is_on)
\* A field that edits already does nothing; one that begins takes the keyboard,
\* from whoever has it.  In the notifications another field may begin or end.
becomeFirstResponder(f, should) ==
  IF editing[f] \/ ~should THEN UNCHANGED field_vars
  ELSE /\ first_responder' = f /\ text_input' = TRUE /\ editing' = [editing EXCEPT ![f] = TRUE] /\ UNCHANGED on
resignFirstResponder(f, should) ==
  IF ~editing[f] \/ ~should THEN UNCHANGED field_vars
  ELSE /\ first_responder' = Nil /\ text_input' = FALSE /\ editing' = [editing EXCEPT ![f] = FALSE] /\ UNCHANGED on
endEditing == IF first_responder = Nil THEN UNCHANGED field_vars ELSE resignFirstResponder(first_responder, TRUE)
FieldNext ==
  \/ flipAction \/ endEditing
  \/ \E b \in BOOLEAN : setOn(b)
  \/ \E f \in Fields, b \in BOOLEAN : becomeFirstResponder(f, b) \/ resignFirstResponder(f, b)

-----------------------------------------------------------------------------
(***************************************************************************)
(* Properties.                                                             *)
(***************************************************************************)
\* A control lets go of its touch: the touch it tracks is down and is its own,
\* and it is highlighted just as long, even if the guest disables it in
\* between.  What a button shows is the title of the state it is in.
ControlSettles ==
  /\ control.tracking <=> control.tracked_touch # 0
  /\ control.highlighted <=> control.tracking
  /\ messages = <<>> /\ control.tracking => control.tracked_touch \in told[Control]
  /\ shown = titleForState(titles, control)
  /\ on.label_on = on.is_on

\* What is typed goes to a field that is editing, and the host collects text
\* just as long as there is one to give it to.
KeyboardTrue ==
  /\ first_responder # Nil => editing[first_responder]
  /\ text_input <=> first_responder # Nil
=============================================================================
