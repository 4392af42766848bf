--------------------------- MODULE CoreAnimation ---------------------------
(***************************************************************************)
(* Core Animation's transactions (ca_transaction.rs), the animation blocks *)
(* of UIView built on them (ui_view.rs), and the animations a composited   *)
(* frame starts and finishes (animation.rs).                               *)
(*                                                                         *)
(* Time is counted in ticks; only durations are kept.  The values animated *)
(* are left out.  The guest balances begin and commit, has no transaction  *)
(* open when its run loop turns, and does not take away animations that it *)
(* added itself while it is told about others.                             *)
(***************************************************************************)
EXTENDS Integers, Sequences, FiniteSets, SequencesExt, FiniteSetsExt, Functions

CONSTANTS
  Nobody, Anims, Blocks,
  ViewLayers, OtherLayers,   \* layers with a UIView as their delegate, and others
  Durations, Delays, RepeatCounts,
  MaxDepth                   \* bound on the transactions open at once

VARIABLES
  explicit,   \* explicit_transactions of the main thread
  implicit,   \* implicit_transaction, or NoTransaction
  anim,       \* CAAnimation objects
  block,      \* _touchHLE_UIView_AnimationDelegate objects, and what their delegates heard
  reached,    \* the layers that composite_layer_recursive gets to
  frame       \* animation::State: animations whose delegates are still to be told

anim_vars == <<explicit, implicit, anim, block, reached, frame>>
AnimLayers == ViewLayers \cup OtherLayers
NoTransaction == [open |-> FALSE]
NewTransaction(kind) ==
  [open |-> TRUE, kind |-> kind, animations |-> <<>>, disable_actions |-> FALSE, animation_duration |-> 1,
   delegate |-> FALSE, delay |-> Nobody, repeat_count |-> 0]
NewAnimation == [layer |-> Nobody, on |-> FALSE, key |-> FALSE, delegate |-> Nobody, repeat_count |-> 0,
                 duration |-> 0, begins_in |-> 0, started |-> FALSE, elapsed |-> 0]
NewDelegate == [total |-> 0, started |-> 0, finished |-> 0, will_start |-> 0, did_stop |-> 0]
NoFrame == [started |-> <<>>, finished |-> <<>>, removing |-> Nobody]
AnimInit ==
  /\ explicit = <<>> /\ implicit = NoTransaction
  /\ anim = [a \in Anims |-> NewAnimation] /\ block = [b \in Blocks |-> NewDelegate]
  /\ reached = AnimLayers /\ frame = NoFrame

-----------------------------------------------------------------------------
Queued == UNION {ToSet(explicit[i].animations) : i \in DOMAIN explicit}
          \cup (IF implicit.open THEN ToSet(implicit.animations) ELSE {})
FreeAnims == {a \in Anims \ Queued : ~anim[a].on}
InBlock(b) == {a \in Anims \ FreeAnims : anim[a].delegate = b}
FreeBlocks == {b \in Blocks : InBlock(b) = {}}
animation_block_count == Cardinality({i \in DOMAIN explicit : explicit[i].kind = "block"})
is_implicit_animation_enabled(l) == l \in ViewLayers => animation_block_count > 0

\* +[CATransaction begin]; +[UIView beginAnimations:context:]
begin(kind) ==
  /\ Len(explicit) < MaxDepth
  /\ explicit' = Append(explicit, NewTransaction(kind))
  /\ UNCHANGED <<implicit, anim, block, reached, frame>>
\* +[CATransaction setValue:forKey:] and the +[UIView setAnimation...:] that use it
setValue(field, v) ==
  /\ explicit # <<>> /\ explicit' = [explicit EXCEPT ![Len(explicit)][field] = v]
  /\ UNCHANGED <<implicit, anim, block, reached, frame>>

\* A setter of an animatable property of l, given another value than before
add_animation(l) ==
  /\ is_implicit_animation_enabled(l) /\ FreeAnims # {}
  /\ LET a == CHOOSE a \in FreeAnims : TRUE IN
     /\ anim' = [anim EXCEPT ![a] = [NewAnimation EXCEPT !.layer = l]]
     /\ IF explicit # <<>>
        THEN explicit' = [explicit EXCEPT ![Len(explicit)].animations = Append(@, a)] /\ UNCHANGED implicit
        ELSE /\ implicit' = LET t == IF implicit.open THEN implicit ELSE NewTransaction("implicit")
                            IN  [t EXCEPT !.animations = Append(@, a)]
             /\ UNCHANGED explicit
  /\ UNCHANGED <<block, reached, frame>>

\* -[CALayer addAnimation:forKey:] takes a missing duration from the
\* transaction that is now the current one, and there has to be one
Outer(rest) == IF rest # <<>> THEN Last(rest).animation_duration
               ELSE IF implicit.open THEN implicit.animation_duration ELSE 0
Duration(d, rest) == IF d = 0 THEN Outer(rest) ELSE d
\* Transaction::commit for t, once it is off the stack and rest is left there;
\* the animations of an animation block were told of b and the rest before
Committed(t, rest, b) ==
  [a \in Anims |->
    IF ~Contains(t.animations, a) THEN anim[a]
    ELSE IF t.disable_actions THEN NewAnimation
    ELSE [anim[a] EXCEPT !.on = TRUE, !.duration = Duration(t.animation_duration, rest), !.delegate = b,
                         !.begins_in = IF t.delay = Nobody THEN 0 ELSE t.delay,
                         !.repeat_count = t.repeat_count]]
Commits(t, rest) == Duration(t.animation_duration, rest) > 0 \/ t.disable_actions \/ t.animations = <<>>
commit ==
  /\ explicit # <<>> /\ Last(explicit).kind = "plain"
  /\ LET t == Last(explicit) rest == Front(explicit) IN
     Commits(t, rest) /\ explicit' = rest /\ anim' = Committed(t, rest, Nobody)
  /\ UNCHANGED <<implicit, block, reached, frame>>
commitAnimations ==
  /\ explicit # <<>> /\ Last(explicit).kind = "block"
  /\ LET t == Last(explicit) rest == Front(explicit) IN
     /\ Commits(t, rest) /\ explicit' = rest
     /\ IF ~t.delegate THEN anim' = Committed(t, rest, Nobody) /\ UNCHANGED block
        ELSE /\ FreeBlocks # {}
             /\ LET b == CHOOSE b \in FreeBlocks : TRUE IN
                /\ anim' = Committed(t, rest, b)
                /\ block' = IF t.disable_actions THEN block   \* nothing will ever be told to it
                            ELSE [block EXCEPT ![b] = [NewDelegate EXCEPT !.total = Len(t.animations)]]
  /\ UNCHANGED <<implicit, reached, frame>>
\* At every turn of the main run loop
commit_implicit_transaction ==
  /\ explicit = <<>> /\ implicit.open /\ frame = NoFrame
  /\ anim' = Committed(implicit, <<>>, Nobody) /\ implicit' = NoTransaction
  /\ UNCHANGED <<explicit, block, reached, frame>>

\* An animation of the guest's own, under the one key it uses for a layer
Keyed(l) == {a \in Anims : anim[a].on /\ anim[a].key /\ anim[a].layer = l}
addAnimation_forKey(l) ==
  /\ frame = NoFrame /\ FreeAnims # {}
  /\ LET a == CHOOSE a \in FreeAnims : TRUE IN
     anim' = [c \in Anims |->
               IF c = a THEN [NewAnimation EXCEPT !.layer = l, !.on = TRUE, !.key = TRUE, !.duration = 1]
               ELSE IF c \in Keyed(l) THEN NewAnimation ELSE anim[c]]
  /\ UNCHANGED <<explicit, implicit, block, reached, frame>>
removeAnimationForKey(l) ==
  /\ frame = NoFrame /\ Keyed(l) # {}
  /\ anim' = [a \in Anims |-> IF a \in Keyed(l) THEN NewAnimation ELSE anim[a]]
  /\ UNCHANGED <<explicit, implicit, block, reached, frame>>

-----------------------------------------------------------------------------
\* A repeat count of 0, the default, is one run
EffectiveRepeatCount(a) == IF anim[a].repeat_count = 0 THEN 1 ELSE anim[a].repeat_count
\* create_presentation_layer for every layer: an animation starts in the first
\* frame after its begin time and has finished in the first after its last run
Starts(a) == ~anim[a].started /\ anim[a].begins_in = 0
Over(a) == anim[a].elapsed >= anim[a].duration * EffectiveRepeatCount(a)
composite ==
  /\ frame = NoFrame /\ explicit = <<>> /\ ~implicit.open
  /\ LET seen == {a \in Anims : anim[a].on /\ anim[a].layer \in reached} IN
     /\ \E s \in SetToSeqs({a \in seen : Starts(a)}) : \E f \in SetToSeqs({a \in seen : (anim[a].started \/ Starts(a)) /\ Over(a)}) :
          frame' = [started |-> s, finished |-> f, removing |-> Nobody] /\ (s # <<>> \/ f # <<>>)
     /\ anim' = [a \in Anims |-> IF a \in seen /\ Starts(a) THEN [anim[a] EXCEPT !.started = TRUE] ELSE anim[a]]
  /\ UNCHANGED <<explicit, implicit, block, reached>>

\* update_started_and_finished_animations: all that started, then all that
\* finished, each taken off its layer once its delegate knows
Heard(b, d) == block' = IF b = Nobody THEN block ELSE [block EXCEPT ![b] = d]
animationDidStart ==
  /\ frame.started # <<>> /\ frame.removing = Nobody
  /\ LET b == anim[Head(frame.started)].delegate IN
     Heard(b, IF b = Nobody THEN NewDelegate
              ELSE [block[b] EXCEPT !.started = @ + 1, !.will_start = IF block[b].started = 0 THEN @ + 1 ELSE @])
  /\ frame' = [frame EXCEPT !.started = Tail(@)]
  /\ UNCHANGED <<explicit, implicit, anim, reached>>
Stopped(d) == [d EXCEPT !.finished = @ + 1, !.did_stop = IF d.finished + 1 = d.total THEN @ + 1 ELSE @]
animationDidStop ==
  /\ frame.started = <<>> /\ frame.finished # <<>> /\ frame.removing = Nobody
  /\ LET b == anim[Head(frame.finished)].delegate IN
     Heard(b, IF b = Nobody THEN NewDelegate ELSE Stopped(block[b]))
  /\ frame' = [frame EXCEPT !.finished = Tail(@), !.removing = Head(frame.finished)]
  /\ UNCHANGED <<explicit, implicit, anim, reached>>
remove_finished ==
  /\ frame.removing # Nobody
  /\ anim' = [anim EXCEPT ![frame.removing] = NewAnimation]
  /\ LET b == anim[frame.removing].delegate IN
     block' = IF b # Nobody /\ InBlock(b) = {frame.removing} /\ block[b].did_stop = 1
              THEN [block EXCEPT ![b] = NewDelegate] ELSE block
  /\ frame' = [frame EXCEPT !.removing = Nobody]
  /\ UNCHANGED <<explicit, implicit, reached>>

\* A layer is hidden, or taken out of the window, or put back
reach(l) == /\ reached' = IF l \in reached THEN reached \ {l} ELSE reached \cup {l}
            /\ UNCHANGED <<explicit, implicit, anim, block, frame>>
Tick ==
  /\ frame = NoFrame /\ explicit = <<>>
  /\ \E a \in Anims : anim[a].on /\ (anim[a].begins_in > 0 \/ (anim[a].started /\ ~Over(a)))
  /\ anim' = [a \in Anims |->
       IF ~anim[a].on THEN anim[a]
       ELSE IF anim[a].started THEN [anim[a] EXCEPT !.elapsed = IF Over(a) THEN @ ELSE @ + 1]
       ELSE [anim[a] EXCEPT !.begins_in = IF @ > 0 THEN @ - 1 ELSE 0]]
  /\ UNCHANGED <<explicit, implicit, block, reached, frame>>

AnimNext ==
  \/ \E kind \in {"plain", "block"} : begin(kind)
  \/ \E d \in Durations : setValue("animation_duration", d)
  \/ \E d \in Delays : setValue("delay", d) /\ Last(explicit).kind = "block"
  \/ \E n \in RepeatCounts : setValue("repeat_count", n) /\ Last(explicit).kind = "block"
  \/ setValue("delegate", TRUE) /\ Last(explicit).kind = "block"
  \/ setValue("disable_actions", TRUE)
  \/ commit \/ commitAnimations \/ commit_implicit_transaction
  \/ \E l \in AnimLayers : add_animation(l)
  \/ \E l \in ViewLayers : reach(l)
  \/ \E l \in OtherLayers : addAnimation_forKey(l) \/ removeAnimationForKey(l)
  \/ composite \/ animationDidStart \/ animationDidStop \/ remove_finished \/ Tick


-----------------------------------------------------------------------------
(***************************************************************************)
(* The compositor of Core Animation (composition.rs): when it makes a      *)
(* frame, which layers it has drawn again first, and which textures it     *)
(* uploads.  The same reckoning paces the accelerometer                    *)
(* (ui_accelerometer.rs).                                                  *)
(*                                                                         *)
(* What a layer shows is a value of Pictures.  Parent is the tree of       *)
(* layers in the window.  Drawers have a delegate that draws them in a     *)
(* bitmap context, Givers one with displayLayer:, which sets their         *)
(* contents.  Due times are kept as the time left until them.              *)
(***************************************************************************)
CONSTANTS
  CALayers, Parent, Drawers, Givers, Pictures,
  Interval,      \* of a frame, in ticks
  Intervals,     \* the accelerometer's update intervals
  MaxLate        \* bound on how late the main thread is

VARIABLES
  calayer,   \* CALayerHostObject: what a frame reads and sets
  wanted,    \* the picture the delegate of each layer would draw now
  pass,      \* the frame that is being made: layers display_layers still has to draw
  fast_path, \* no visible window, or find_fullscreen_eagl_layer finds one
  recomposite_next, \* time left, or Nobody
  accelerometer     \* delegate, update_interval and due_by

comp_vars == <<calayer, wanted, pass, fast_path, recomposite_next, accelerometer>>
NoPass == [making |-> FALSE, layers |-> <<>>, drawing |-> Nobody]
CompInit ==
  /\ calayer = [l \in CALayers |-> [hidden |-> FALSE, needs_display |-> FALSE, cg_context |-> Nobody, contents |-> Nobody,
                                    presented_pixels |-> Nobody, gles_texture |-> Nobody, gles_texture_is_up_to_date |-> FALSE]]
  /\ wanted = [l \in CALayers |-> Nobody] /\ pass = NoPass /\ fast_path = FALSE
  /\ recomposite_next = Nobody
  /\ accelerometer = [delegate |-> FALSE, interval |-> Interval, due |-> Nobody]

-----------------------------------------------------------------------------
\* The guest, between frames and while one of its delegates draws
Touch(c, w) == calayer' = c /\ wanted' = w /\ UNCHANGED <<pass, fast_path, recomposite_next, accelerometer>>
setNeedsDisplay(l, p) == Touch([calayer EXCEPT ![l].needs_display = TRUE], [wanted EXCEPT ![l] = p])
setContents_keeping_texture(l, p) == Touch([calayer EXCEPT ![l].contents = p], wanted)
setContents(l, p) == Touch([calayer EXCEPT ![l].contents = p, ![l].gles_texture_is_up_to_date = FALSE], wanted)
setHidden(l, b) == calayer[l].hidden # b /\ Touch([calayer EXCEPT ![l].hidden = b], wanted)
\* present_pixels of ca_eagl_layer.rs, when the layer is not alone on the screen
present_pixels(l, p) ==
  Touch([calayer EXCEPT ![l].presented_pixels = p, ![l].gles_texture_is_up_to_date = FALSE], wanted)
\* A CAEAGLLayer comes to cover the screen, or no longer does
fullscreen(b) == fast_path # b /\ fast_path' = b /\ UNCHANGED <<calayer, wanted, pass, recomposite_next, accelerometer>>

Ancestors(l) == {l} \cup (IF Parent[l] = Nobody THEN {} ELSE {Parent[l]} \cup
                          (IF Parent[Parent[l]] = Nobody THEN {} ELSE {Parent[Parent[l]]}))
Shown(l) == \A m \in Ancestors(l) : ~calayer[m].hidden
\* traverse: the layers to draw again, parents first; nothing below a hidden one
LayersNeedingDisplay == {l \in CALayers : Shown(l) /\ calayer[l].needs_display}
TreeOrder(s) == \A i, j \in DOMAIN s : s[i] \in Ancestors(s[j]) /\ s[i] # s[j] => i < j

\* After a frame was due: the next one is at the next multiple of the interval
\* from there that is not over yet
AdvanceBy(left, interval) == LET late == 0 - left IN Max({-((-late) \div interval), 1})
NextDue(left, interval) == left + AdvanceBy(left, interval) * interval

\* recomposite_if_necessary, up to the traversal
recomposite_if_necessary ==
  /\ ~pass.making /\ ~fast_path
  /\ recomposite_next # Nobody => recomposite_next <= 0
  /\ recomposite_next' = IF recomposite_next = Nobody THEN Interval ELSE NextDue(recomposite_next, Interval)
  /\ \E s \in SetToSeqs(LayersNeedingDisplay) :
       TreeOrder(s) /\ pass' = [making |-> TRUE, layers |-> s, drawing |-> Nobody]
  /\ UNCHANGED <<calayer, wanted, fast_path, accelerometer>>
\* display_layers and -[CALayer displayIfNeeded], until the delegate is called
displayIfNeeded_begins ==
  /\ pass.layers # <<>> /\ pass.drawing = Nobody
  /\ LET l == Head(pass.layers)
         draws == calayer[l].needs_display /\ l \in Drawers \cup Givers
     IN  /\ calayer' = [calayer EXCEPT ![l].needs_display = FALSE,
                                       ![l].gles_texture_is_up_to_date = @ /\ ~(draws /\ l \in Drawers)]
         /\ pass' = [pass EXCEPT !.layers = Tail(@), !.drawing = IF draws THEN l ELSE Nobody]
  /\ UNCHANGED <<wanted, fast_path, recomposite_next, accelerometer>>
\* The delegate has drawn in the layer's context, or has set its contents
displayIfNeeded_ends ==
  /\ pass.drawing # Nobody
  /\ LET l == pass.drawing IN
     calayer' = IF l \in Drawers THEN [calayer EXCEPT ![l].cg_context = wanted[l]]
                ELSE [calayer EXCEPT ![l].contents = wanted[l], ![l].gles_texture_is_up_to_date = FALSE]
  /\ pass' = [pass EXCEPT !.drawing = Nobody]
  /\ UNCHANGED <<wanted, fast_path, recomposite_next, accelerometer>>

\* composite_layer_recursive: what is uploaded last is in the texture
NeedTexture(c) == c.presented_pixels # Nobody \/ c.contents # Nobody \/ c.cg_context # Nobody
Content(c) == IF c.contents # Nobody THEN c.contents
              ELSE IF c.cg_context # Nobody THEN c.cg_context ELSE c.presented_pixels
composite_layers ==
  /\ pass.making /\ pass.layers = <<>> /\ pass.drawing = Nobody
  /\ calayer' = [l \in CALayers |-> LET c == calayer[l] IN
                  IF Shown(l) /\ NeedTexture(c) /\ ~c.gles_texture_is_up_to_date
                  THEN [c EXCEPT !.gles_texture = Content(c), !.gles_texture_is_up_to_date = TRUE] ELSE c]
  /\ pass' = NoPass
  /\ UNCHANGED <<wanted, fast_path, recomposite_next, accelerometer>>

\* -[UIAccelerometer setDelegate:], setUpdateInterval:
setDelegate(b) == accelerometer.delegate # b /\ accelerometer' = [accelerometer EXCEPT !.delegate = b]
                  /\ UNCHANGED <<calayer, wanted, pass, fast_path, recomposite_next>>
setUpdateInterval(i) == accelerometer' = [accelerometer EXCEPT !.interval = i]
                        /\ UNCHANGED <<calayer, wanted, pass, fast_path, recomposite_next>>
handle_accelerometer ==
  /\ accelerometer.delegate
  /\ accelerometer.due # Nobody => accelerometer.due <= 0
  /\ accelerometer' = [accelerometer EXCEPT !.due = IF accelerometer.due = Nobody THEN accelerometer.interval
                                                    ELSE NextDue(accelerometer.due, accelerometer.interval)]
  /\ UNCHANGED <<calayer, wanted, pass, fast_path, recomposite_next>>
Later(left) == IF left = Nobody THEN left ELSE left - 1
Passes == ~pass.making /\ recomposite_next' = Later(recomposite_next) /\ accelerometer' = [accelerometer EXCEPT !.due = Later(@)]
          /\ UNCHANGED <<calayer, wanted, pass, fast_path>>

(***************************************************************************)
(* FrameFresh.  A frame that is finished shows, of every layer that is     *)
(* visible and not marked again while the frame was made, the last         *)
(* contents it was given, and what its delegate last drew is what it wants *)
(* to show.  The flags needs_display and gles_texture_is_up_to_date are    *)
(* set and cleared on five different paths, with the guest's drawing in    *)
(* between, and a layer hidden for a while keeps both.                     *)
(***************************************************************************)
FrameFresh ==
  [][composite_layers =>
       \A l \in CALayers : Shown(l) =>
         LET c == calayer'[l] IN
         /\ NeedTexture(c) => c.gles_texture = Content(c)
         /\ l \in Drawers /\ wanted[l] # Nobody /\ ~c.needs_display => c.cg_context = wanted[l]]_comp_vars
(***************************************************************************)
(* FramesPaced.  After a frame, or a report of the accelerometer, the next *)
(* is due at most one interval later and not in the past, however late     *)
(* this one was: neither a burst to catch up nor a pause.                  *)
(***************************************************************************)
FramesPaced ==
  /\ [][recomposite_if_necessary => recomposite_next' \in 0 .. Interval]_comp_vars
  /\ [][handle_accelerometer => accelerometer'.due \in 0 .. accelerometer.interval]_comp_vars
=============================================================================
