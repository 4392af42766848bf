------------------------------ MODULE AudioUnits ------------------------------
(***************************************************************************)
(* Output audio units (audio_toolbox/audio_unit.rs and                     *)
(* audio_components.rs), which the main run loop renders in turn from a    *)
(* copy of its list (ns_run_loop.rs): each pass unqueues what the OpenAL   *)
(* source of the unit has played, asks the guest for as many buffers as    *)
(* are missing, and queues them.  The guest runs within its render         *)
(* callback and may do anything there, also to the unit being rendered.    *)
(***************************************************************************)
EXTENDS ALSource, FiniteSetsExt, SequencesExt, TLC

CONSTANTS
  Units,        \* addresses of instances
  FirstTarget,  \* target_queued_buffers of a unit that starts, 5 in the code
  LastTarget,   \* and the most it becomes, 8 in the code
  MaxCalls      \* calls the guest makes

VARIABLES
  unit,      \* AudioComponentInstanceHostObject by address; alive: is it in the table?
  src,       \* the OpenAL sources: source name -> ALSource, whose queue holds buffer names
  loop,      \* audio_units of the main run loop
  todo,      \* what is left of its copy; its first is being rendered
  pass,      \* the rendering in progress: [source, primed, free, left, underrun]
  bufs,      \* OpenAL buffers that exist
  orphans,   \* ghost: buffers that went with a deleted source
  dry,       \* ghost: how often the source of a unit ran dry since it started
  misuse,    \* ghost: the guest did what the code cannot take
  calls, panic
vars == <<unit, src, loop, todo, pass, bufs, orphans, dry, misuse, calls, panic>>

None == 0
Formats == {"none", "int", "float"}
NewUnit == [alive |-> TRUE, started |-> FALSE, input |-> "none", output |-> "none", callback |-> FALSE,
            source |-> None, primed |-> FALSE, target |-> FirstTarget, handler |-> FALSE]
Gone == [NewUnit EXCEPT !.alive = FALSE]
NoPass == [source |-> None, primed |-> FALSE, free |-> <<>>, left |-> 0, underrun |-> FALSE]
Fresh(S) == Min((1..(Cardinality(S) + 1)) \ S)
Idle == todo = <<>>
Rendering(u) == todo # <<>> /\ Head(todo) = u /\ pass.source # None

\* Some units may have been created and set up already
Ready == [NewUnit EXCEPT !.input = "int", !.callback = TRUE]
Init ==
  /\ \E set \in SUBSET Units : /\ unit = [u \in Units |-> IF u \in set THEN Ready ELSE Gone]
                             /\ loop = SetToSeq(set)
  /\ calls = 0 /\ src = <<>> /\ todo = <<>> /\ pass = NoPass
  /\ bufs = {} /\ orphans = {} /\ dry = [u \in Units |-> 0] /\ misuse = FALSE /\ panic = FALSE

\* Guest calls: anywhere outside the host's rendering code, that is between
\* passes of the run loop or in a render callback
Guest == ~panic /\ (todo = <<>> \/ pass.source # None) /\ calls < MaxCalls /\ calls' = calls + 1
Others == UNCHANGED <<todo, pass, bufs>>

AudioComponentInstanceNew(u) ==
  /\ Guest /\ ~unit[u].alive /\ u \notin Range(loop) \cup Range(todo)
  /\ unit' = [unit EXCEPT ![u] = NewUnit] /\ dry' = [dry EXCEPT ![u] = 0]
  /\ Others /\ UNCHANGED <<src, loop, orphans, misuse, panic>>
\* The OpenAL source of a unit that was not stopped stays, and so does the
\* run loop's entry of one that was not uninitialized
AudioComponentInstanceDispose(u) ==
  /\ Guest /\ unit[u].alive
  /\ unit' = [unit EXCEPT ![u] = Gone]
  /\ misuse' = (misuse \/ u \in Range(loop) \cup Range(todo) \/ unit[u].source # None)
  /\ Others /\ UNCHANGED <<src, loop, orphans, dry, panic>>
AudioUnitInitialize(u) ==
  /\ Guest /\ unit[u].alive /\ u \notin Range(loop)
  /\ loop' = Append(loop, u)
  /\ Others /\ UNCHANGED <<unit, src, orphans, dry, misuse, panic>>
\* remove_audio_unit: an entry that is not there is an error, reported
AudioUnitUninitialize(u) ==
  /\ Guest /\ unit[u].alive /\ u \in Range(loop)
  /\ loop' = SelectSeq(loop, LAMBDA v : v # u)
  /\ Others /\ UNCHANGED <<unit, src, orphans, dry, misuse, panic>>
AudioUnitSetProperty(u, what, fmt) ==
  /\ Guest /\ unit[u].alive
  /\ unit' = [unit EXCEPT ![u].callback = @ \/ what = "callback", ![u].input = IF what = "input" THEN fmt ELSE @,
                          ![u].output = IF what = "output" THEN fmt ELSE @]
  /\ Others /\ UNCHANGED <<src, loop, orphans, dry, misuse, panic>>
\* A source of its own every time; a source it had is forgotten
AudioOutputUnitStart(u) ==
  LET s == Fresh(DOMAIN src)
  IN  /\ Guest /\ unit[u].alive
      /\ src' = src @@ (s :> SourcePlay(NewSource))
      /\ unit' = [unit EXCEPT ![u].source = s, ![u].primed = FALSE, ![u].target = FirstTarget, ![u].started = TRUE]
      /\ dry' = [dry EXCEPT ![u] = 0] /\ misuse' = (misuse \/ Rendering(u))
      /\ Others /\ UNCHANGED <<loop, orphans, panic>>
\* The buffers queued on the source are not deleted with it
AudioOutputUnitStop(u) ==
  /\ Guest /\ unit[u].alive
  /\ unit' = [unit EXCEPT ![u].started = FALSE, ![u].source = None, ![u].primed = FALSE]
  /\ IF unit[u].source = None THEN UNCHANGED <<src, orphans>>
     ELSE /\ src' = [s \in DOMAIN src \ {unit[u].source} |-> src[s]]
          /\ orphans' = orphans \cup Range(src[unit[u].source].queue)
  /\ misuse' = (misuse \/ Rendering(u))
  /\ Others /\ UNCHANGED <<loop, dry, panic>>

-----------------------------------------------------------------------------
\* The run loop (or the scheduler's pump) copies the list and renders each;
\* a nested pass, from within a callback, finds the unit's handler running
run_loop_pass ==
  /\ ~panic /\ Idle /\ loop # <<>>
  /\ todo' = loop
  /\ UNCHANGED <<unit, src, loop, pass, bufs, orphans, dry, misuse, calls, panic>>
\* The formats: the input's, else the output's; without either, or with two
\* that differ, or one that is not supported, the code gives up
Renderable(o) ==
  /\ ~(o.input # "none" /\ o.output # "none" /\ o.input # o.output)
  /\ o.input # "none" \/ o.output # "none"
  /\ o.input # "float" /\ (o.input = "none" => o.output # "float")
  /\ o.callback
Skips(u) == ~unit[u].started \/ unit[u].handler
Drained(s) == SubSeq(src[s].queue, 1, Processed(src[s]))
render_begins(u) ==
  LET o == unit[u]
      s == o.source
  IN  /\ ~panic /\ todo # <<>> /\ Head(todo) = u /\ pass.source = None
      /\ \/ ~o.alive /\ panic' = TRUE /\ UNCHANGED <<unit, src, todo, pass, misuse>>
         \/ o.alive /\ Skips(u) /\ todo' = Tail(todo) /\ UNCHANGED <<unit, src, pass, misuse, panic>>
         \/ /\ o.alive /\ ~Skips(u) /\ ~Renderable(o) /\ panic' = TRUE /\ misuse' = TRUE
            /\ UNCHANGED <<unit, src, todo, pass>>
         \/ /\ o.alive /\ ~Skips(u) /\ Renderable(o)
            /\ unit' = [unit EXCEPT ![u].handler = TRUE]
            /\ src' = [src EXCEPT ![s] = Unqueued(@)]
            /\ pass' = [source |-> s, primed |-> o.primed, free |-> Drained(s), underrun |-> FALSE,
                        left |-> Max({0, o.target - (Len(src[s].queue) - Processed(src[s]))})]
            /\ UNCHANGED <<todo, misuse, panic>>
      /\ UNCHANGED <<loop, bufs, orphans, dry, calls>>
\* A callback returns: its data goes to a buffer that was unqueued, or a new
\* one, and a source that is not playing is started.  The source is the one
\* read before the callback: if it was deleted, OpenAL reports an error
callback_returns ==
  LET u == Head(todo)
      s == pass.source
      b == IF pass.free = <<>> THEN Fresh(bufs) ELSE Last(pass.free)
      pushed == [src[s] EXCEPT !.queue = Append(@, b)]
      plays == src[s].state = "playing"
  IN  /\ ~panic /\ pass.source # None /\ pass.left > 0
      /\ IF s \notin DOMAIN src THEN panic' = TRUE /\ UNCHANGED <<src, pass, bufs>>
         ELSE /\ src' = [src EXCEPT ![s] = IF plays THEN pushed ELSE SourcePlay(pushed)]
              /\ bufs' = bufs \cup {b}
              /\ pass' = [pass EXCEPT !.left = @ - 1, !.free = IF @ = <<>> THEN @ ELSE Front(@),
                                      !.underrun = @ \/ (~plays /\ pass.primed), !.primed = @ \/ ~plays]
              /\ UNCHANGED panic
      /\ UNCHANGED <<unit, loop, todo, orphans, dry, misuse, calls>>
\* The buffers left over are deleted, and the unit is looked up again
Raised(o) == IF pass.underrun /\ o.target < LastTarget THEN o.target + 1 ELSE o.target
render_ends(u) ==
  /\ ~panic /\ todo # <<>> /\ Head(todo) = u /\ pass.source # None /\ pass.left = 0
  /\ bufs' = bufs \ Range(pass.free)
  /\ IF unit[u].alive
       THEN /\ unit' = [unit EXCEPT ![u].primed = pass.primed, ![u].target = Raised(unit[u]), ![u].handler = FALSE]
            /\ UNCHANGED panic
       ELSE panic' = TRUE /\ UNCHANGED unit
  /\ todo' = Tail(todo) /\ pass' = NoPass
  /\ UNCHANGED <<src, loop, orphans, dry, misuse, calls>>
\* The device plays; a source whose queue ends stops
device_plays(s) ==
  /\ ~panic /\ src[s].state = "playing" /\ src' = [src EXCEPT ![s] = SourceAdvances(@)]
  /\ dry' = [u \in Units |-> IF unit[u].source = s /\ src'[s].state = "stopped" /\ dry[u] < LastTarget - FirstTarget THEN dry[u] + 1 ELSE dry[u]]
  /\ UNCHANGED <<unit, loop, todo, pass, bufs, orphans, misuse, calls, panic>>

\* Formats are set before a unit starts: each pass reads them anew
Next ==
  \/ \E u \in Units :
       \/ AudioComponentInstanceNew(u) \/ AudioComponentInstanceDispose(u)
       \/ AudioUnitInitialize(u) \/ AudioUnitUninitialize(u)
       \/ ~unit[u].started /\ Idle /\ AudioUnitSetProperty(u, "callback", "none")
       \/ ~unit[u].started /\ Idle /\ \E what \in {"input", "output"}, fmt \in Formats \ {"none"} : AudioUnitSetProperty(u, what, fmt)
       \/ Cardinality(DOMAIN src) < 2 /\ AudioOutputUnitStart(u)
       \/ AudioOutputUnitStop(u)
       \/ render_begins(u) \/ render_ends(u)
  \/ run_loop_pass \/ callback_returns
  \/ \E s \in DOMAIN src : device_plays(s)
Spec == Init /\ [][Next]_vars

-----------------------------------------------------------------------------
\* As long as the guest does not stop, restart or dispose of a unit within its
\* own callback, dispose of one that is started or initialized, or render
\* without a usable format, nothing gives up: the sources and units read
\* before a callback are there after it
RenderSafe == panic => misuse

\* Every OpenAL buffer is queued on a source, held by the pass in progress, or
\* went with a deleted source; none is in two places; no unit has more buffers
\* queued than its target, which only real underruns raise
Held == IF pass.source = None THEN {} ELSE Range(pass.free)
BuffersAccounted ==
  (~misuse /\ ~panic) =>
    /\ bufs = Held \cup orphans \cup UNION {Range(src[s].queue) : s \in DOMAIN src}
    /\ Cardinality(Held \cup UNION {Range(src[s].queue) : s \in DOMAIN src})
         = Cardinality(Held) + MapThenSumSet(LAMBDA s : Len(src[s].queue), DOMAIN src)
    /\ \A u \in Units : unit[u].source # None =>
         /\ Len(src[unit[u].source].queue) <= unit[u].target
         /\ unit[u].target \in FirstTarget..LastTarget /\ unit[u].target - FirstTarget <= dry[u]
    /\ \A u \in Units : unit[u].handler => Rendering(u)
=============================================================================
