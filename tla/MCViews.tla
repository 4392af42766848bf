------------------------------- MODULE MCViews -------------------------------
(***************************************************************************)
(* UIKit and Core Animation on small instances.  The guest of a behaviour  *)
(* is fixed at its start and exercises one part: the tree of views, the    *)
(* view controllers, fingers on a touch screen, a controller with buttons, *)
(* d-pad and cursor, buttons with their titles, text fields, animations,   *)
(* frames of the compositor and their pace.                                *)
(***************************************************************************)
EXTENDS Views
CONSTANTS
  Guests, Touchscreen, Places, Multiple, TouchViews, Moves, MaxSdl, MaxTouches, Control, States, Fields, Titles,
  Anims, Blocks, Durations, Delays, RepeatCounts, MaxDepth, Pictures, Interval, Intervals, MaxLate
VARIABLES guest, sdl, down, pad, win, current, touch, messages, told,
          control, titles, shown, on, first_responder, editing, text_input,
          explicit, implicit, anim, block, reached, frame,
          calayer, wanted, pass, fast_path, recomposite_next, accelerometer
MCAt == [p \in Places |-> IF p = "in" THEN "button" ELSE "canvas"]
C == INSTANCE Input WITH At <- MCAt
MCLayers == {"root", "drawn", "image"}
MCParent == [l \in MCLayers |-> IF l = "root" THEN Nil ELSE IF l = "drawn" THEN "root" ELSE "drawn"]
F == INSTANCE CoreAnimation WITH
       Nobody <- Nil, ViewLayers <- {"view"}, OtherLayers <- {"plain"},
       CALayers <- MCLayers, Parent <- MCParent, Drawers <- {"drawn"}, Givers <- {"image"}

touch_vars == <<sdl, down, pad, win, current, touch, messages, told>>
control_vars == <<control, titles, shown>>
field_vars == <<on, first_responder, editing, text_input>>
anim_vars == <<explicit, implicit, anim, block, reached, frame>>
comp_vars == <<calayer, wanted, pass, fast_path, recomposite_next, accelerometer>>
MCInit == Init /\ C!InputInit /\ C!ControlInit /\ F!AnimInit /\ F!CompInit /\ guest \in Guests

\* The layers: a root, a layer drawn by its view, and an image above it
Draws ==
  \/ \E p \in Pictures : F!setNeedsDisplay("drawn", p) \/ F!setNeedsDisplay("image", p)
  \/ \E p \in Pictures \cup {Nil} : F!setContents("image", p)
  \/ \E l \in {"root", "drawn"}, b \in BOOLEAN : F!setHidden(l, b)
  \/ F!present_pixels("image", "p")
Frame == F!recomposite_if_necessary \/ F!displayIfNeeded_begins \/ F!displayIfNeeded_ends \/ F!composite_layers
Late(t) == t # Nil => t > -MaxLate
Pace ==
  \/ F!recomposite_if_necessary \/ F!composite_layers \/ F!handle_accelerometer
  \/ F!Passes /\ Late(recomposite_next) /\ Late(accelerometer.due)
  \/ \E b \in BOOLEAN : F!setDelegate(b) \/ F!fullscreen(b)
  \/ \E i \in Intervals : F!setUpdateInterval(i)
\* Apart from delegates one thing is set in all, and before anything is animated
OptionsSet(t) == {f \in {"animation_duration", "delay", "repeat_count", "disable_actions"} :
                    t[f] # F!NewTransaction(t.kind)[f]}
Modest ==
  /\ \A i, j \in DOMAIN explicit' : Cardinality(OptionsSet(explicit'[i])) + (IF i = j THEN 0 ELSE Cardinality(OptionsSet(explicit'[j]))) <= 1
  /\ Len(explicit') = Len(explicit) /\ explicit # explicit' /\ Last(explicit).animations # <<>>
       => Last(explicit').animations # Last(explicit).animations
  /\ Len(explicit') > 1 => explicit'[1].animations = <<>> /\ ~explicit'[2].delegate /\ OptionsSet(explicit'[1]) = {}
  /\ reached # reached' => explicit = <<>> /\ frame = F!NoFrame

MCNext ==
  /\ UNCHANGED guest
  /\ \/ guest = "tree" /\ TreeNext /\ UNCHANGED <<touch_vars, control_vars, field_vars, anim_vars, comp_vars>>
     \/ guest = "controllers" /\ ControllerNext /\ "c" \notin views'.live
        /\ UNCHANGED <<touch_vars, control_vars, field_vars, anim_vars, comp_vars>>
     \/ guest = "fingers" /\ C!InputNext /\ UNCHANGED <<vars, field_vars, anim_vars, comp_vars>>
     \/ guest = "pad" /\ (C!PadNext \/ C!poll_for_events \/ C!handle_event) /\ Len(sdl') <= 2
        /\ UNCHANGED <<vars, control_vars, field_vars, anim_vars, comp_vars>>
     \/ guest = "pad" /\ C!deliver /\ UNCHANGED <<vars, field_vars, anim_vars, comp_vars>>
     \/ guest = "fingers" /\ sdl = <<>>
        /\ \E b \in BOOLEAN : C!setEnabled(b) /\ (~b => control.tracking)
        /\ UNCHANGED <<vars, touch_vars, field_vars, anim_vars, comp_vars>>
     \/ guest = "titles" /\ C!GuestNext /\ UNCHANGED <<vars, field_vars, anim_vars, comp_vars>>
     \/ guest = "fields" /\ C!FieldNext /\ UNCHANGED <<vars, touch_vars, control_vars, anim_vars, comp_vars>>
     \/ guest = "animations" /\ F!AnimNext /\ Modest /\ UNCHANGED <<vars, touch_vars, control_vars, field_vars, comp_vars>>
     \/ guest = "frames" /\ (Frame \/ Draws \/ (recomposite_next # Nil /\ recomposite_next > 0 /\ F!Passes))
        /\ UNCHANGED <<vars, touch_vars, control_vars, field_vars, anim_vars>>
     \/ guest = "pace" /\ Pace /\ UNCHANGED <<vars, touch_vars, control_vars, field_vars, anim_vars>>
MCSpec == MCInit /\ [][MCNext]_<<guest, vars, touch_vars, control_vars, field_vars, anim_vars, comp_vars>>

\* Views, layers and view controllers form the trees that the guest built: see TreesMatch and
\* ControllersTrue of Views
TreesTrue == TreesMatch /\ ControllersTrue
\* A frame shows what the layers last showed, and frames keep their pace: see FrameFresh and
\* FramesPaced of CoreAnimation
FramesTrue == F!FrameFresh /\ F!FramesPaced
=============================================================================
