------------------------------ MODULE RunLoop ------------------------------
(***************************************************************************)
(* The main thread's run loop (frameworks/foundation/ns_run_loop.rs), its  *)
(* timers (ns_timer.rs) and the perform requests other threads send it     *)
(* (ns_object.rs).  All of it is re-entrant: timer targets, performed      *)
(* selectors, isEqual: and event handlers are guest code, which may call   *)
(* back into the loop, so its activations form a stack of frames.          *)
(***************************************************************************)
EXTENDS Integers, Sequences, FiniteSets, SequencesExt, FiniteSetsExt, FiniteSetTheorems,
        SequenceTheorems, TLAPS

CONSTANTS
  Timers,       \* addresses of NSTimers
  Intervals,    \* their rust_interval, in clock ticks
  Requests,     \* perform requests (each is sent once)
  Selectors,    \* what they name: a target and a selector
  MaxTime,      \* bound on the clock
  MaxDepth      \* bound on the nesting of frames

ASSUME RunLoopAssumption ==
  /\ Intervals \subseteq Nat \ {0}
  /\ MaxTime \in Nat /\ MaxDepth \in Nat \ {0}

VARIABLES
  now,       \* Instant::now()
  tm,        \* NSTimerHostObject and refcount of every timer
  timers,    \* NSRunLoopHostObject::timers
  requests,  \* NSRunLoopHostObject::selector_objects
  fate,      \* what became of each request, and its semaphore
  stack,     \* frames of the main thread, the innermost last
  panic

vars == <<now, tm, timers, requests, fate, stack, panic>>

None == -1
Forever == MaxTime + 1

\* run_run_loop: pass is what is left of timers_tmp, timer and req what is
\* being served.  A single iteration has limit 0.
LoopFrame(limit) ==
  [kind |-> "loop", pc |-> "events", limit |-> limit, pass |-> {}, timer |-> {}, req |-> <<>>]
\* -[NSTimer fire]
FireFrame(t) == [kind |-> "fire", pc |-> "callback", timer |-> {t}, pass |-> {}]
\* cancel_perform_requests inside isEqual: for the first of rest
CancelFrame(sel, is_nil, rest, kept) ==
  [kind |-> "cancel", pc |-> "isEqual", sel |-> sel, is_nil |-> is_nil,
   rest |-> rest, kept |-> kept, pass |-> {}, timer |-> {}]

Top == stack[Len(stack)]
Below == SubSeq(stack, 1, Len(stack) - 1)
Goto(f) == stack' = Below \o <<f>>
\* Is the main thread in guest code?
InGuest == panic = "no" /\ Top.pc \in {"events", "callback", "audio", "perform", "isEqual"}
MayNest == InGuest /\ Len(stack) < MaxDepth

Init ==
  /\ now = 0
  /\ tm = [t \in Timers |->
             [made |-> FALSE, refs |-> 0, held |-> FALSE, repeats |-> FALSE, interval |-> 0,
              due_by |-> None, is_running_callback |-> FALSE, has_loop |-> FALSE]]
  /\ timers = {} /\ requests = <<>>
  /\ fate = [r \in Requests |-> "unsent"]
  /\ stack = <<LoopFrame(Forever)>>
  /\ panic = "no"

tick ==
  /\ now < MaxTime /\ now' = now + 1
  /\ UNCHANGED <<tm, timers, requests, fate, stack, panic>>

-----------------------------------------------------------------------------
(***************************************************************************)
(* Timers.  Reference counts: release at 1 deallocates (refs = 0).         *)
(***************************************************************************)
Retain(x, S) == [t \in Timers |-> IF t \in S THEN [x[t] EXCEPT !.refs = @ + 1] ELSE x[t]]
Release(x, t) == [x EXCEPT ![t].refs = @ - 1]

\* The new timer is autoreleased: the guest's pool, or the guest if it
\* retains it, holds one reference.
timerWithTimeInterval(t, interval, repeats) ==
  /\ InGuest /\ ~tm[t].made
  /\ tm' = [tm EXCEPT ![t] = [@ EXCEPT !.made = TRUE, !.refs = 1, !.held = TRUE,
                                       !.repeats = repeats, !.interval = interval,
                                       !.due_by = now + interval]]
  /\ UNCHANGED <<now, timers, requests, fate, stack, panic>>

guest_releases(t) ==
  /\ InGuest /\ tm[t].held
  /\ tm' = [Release(tm, t) EXCEPT ![t].held = FALSE]
  /\ UNCHANGED <<now, timers, requests, fate, stack, panic>>

\* The guest adds a timer once (doing it again is an assertion marked TODO)
addTimer(t) ==
  /\ InGuest /\ tm[t].refs > 0 /\ ~tm[t].has_loop
  /\ tm' = [Retain(tm, {t}) EXCEPT ![t].has_loop = TRUE]
  /\ timers' = timers \cup {t}
  /\ UNCHANGED <<now, requests, fate, stack, panic>>

\* set_time_interval, for CADisplayLink
set_time_interval(t, interval) ==
  /\ InGuest /\ tm[t].refs > 0
  /\ tm' = [tm EXCEPT ![t].interval = interval]
  /\ UNCHANGED <<now, timers, requests, fate, stack, panic>>

\* The loop's reference goes (and the timer leaves timers)
remove_timer(x, t) == Release(x, t)
\* What -[NSTimer invalidate] leaves of tm
Invalidated(x, t) ==
  IF x[t].due_by = None THEN x ELSE remove_timer([x EXCEPT ![t].due_by = None], t)
InvalidatePanics(x, t) == x[t].due_by # None /\ ~x[t].has_loop
invalidate(t) ==
  /\ InGuest /\ tm[t].refs > 0
  /\ \/ /\ InvalidatePanics(tm, t)
        /\ panic' = "no run loop" /\ UNCHANGED <<tm, timers>>
     \/ /\ ~InvalidatePanics(tm, t)
        /\ tm' = Invalidated(tm, t) /\ timers' = timers \ {t}
        /\ UNCHANGED panic
  /\ UNCHANGED <<now, requests, fate, stack>>

fire(t) ==
  /\ MayNest /\ tm[t].refs > 0 /\ tm[t].held
  /\ stack' = Append(stack, FireFrame(t))
  /\ UNCHANGED <<now, tm, timers, requests, fate, panic>>
\* a timer that does not repeat is invalidated after its message
fire_returns ==
  /\ InGuest /\ Top.kind = "fire"
  /\ \E t \in Top.timer :
        \/ /\ ~tm[t].repeats /\ tm[t].refs > 0 /\ InvalidatePanics(tm, t)
           /\ panic' = "no run loop" /\ UNCHANGED <<tm, timers, stack>>
        \/ /\ ~tm[t].repeats /\ tm[t].refs = 0
           /\ panic' = "timer gone" /\ UNCHANGED <<tm, timers, stack>>
        \/ /\ tm[t].repeats \/ (tm[t].refs > 0 /\ ~InvalidatePanics(tm, t))
           /\ tm' = IF tm[t].repeats THEN tm ELSE Invalidated(tm, t)
           /\ timers' = IF tm[t].repeats THEN timers ELSE timers \ {t}
           /\ stack' = Below
           /\ UNCHANGED panic
  /\ UNCHANGED <<now, requests, fate>>

\* handle_timer: the next time is a multiple of the interval after the last
CeilDiv(a, b) == (a + b - 1) \div b
advance_by(t) ==
  LET n == CeilDiv(now - tm[t].due_by, tm[t].interval) IN IF n < 1 THEN 1 ELSE n
is_due(t) == ~tm[t].is_running_callback /\ tm[t].due_by # None /\ tm[t].due_by <= now

\* timers_tmp: the timers are retained in case one cancels another
Snapshot_unretained == tm
Snapshot == Retain(tm, timers)
begin_timers ==
  /\ InGuest /\ Top.kind = "loop" /\ Top.pc = "events"
  /\ tm' = Snapshot
  /\ Goto([Top EXCEPT !.pc = "timers", !.pass = timers])
  /\ UNCHANGED <<now, timers, requests, fate, panic>>

AtTimers == panic = "no" /\ Top.kind = "loop" /\ Top.pc = "timers"
handle_timer_idle(t) ==
  /\ AtTimers /\ t \in Top.pass /\ ~is_due(t)
  /\ tm' = Release(tm, t)
  /\ Goto([Top EXCEPT !.pass = @ \ {t}])
  /\ UNCHANGED <<now, timers, requests, fate, panic>>
\* The timer is retained for its callback; one that does not repeat leaves
\* the loop, which releases it
handle_timer_fires(t) ==
  /\ AtTimers /\ t \in Top.pass /\ is_due(t)
  /\ tm' = IF tm[t].repeats
           THEN [Retain(tm, {t}) EXCEPT
                   ![t].due_by = @ + advance_by(t) * tm[t].interval,
                   ![t].is_running_callback = TRUE]
           ELSE [remove_timer(Retain(tm, {t}), t) EXCEPT
                   ![t].due_by = None, ![t].is_running_callback = TRUE]
  /\ timers' = IF tm[t].repeats THEN timers ELSE timers \ {t}
  /\ Goto([Top EXCEPT !.pc = "callback", !.pass = @ \ {t}, !.timer = {t}])
  /\ UNCHANGED <<now, requests, fate, panic>>
CallbackDone(t) == [Release(Release(tm, t), t) EXCEPT ![t].is_running_callback = FALSE]
timer_callback_returns ==
  /\ InGuest /\ Top.kind = "loop" /\ Top.pc = "callback"
  /\ \E t \in Top.timer : tm' = CallbackDone(t)
  /\ Goto([Top EXCEPT !.pc = "timers", !.timer = {}])
  /\ UNCHANGED <<now, timers, requests, fate, panic>>
\* Audio queues and audio units are served next; their callbacks are guest code
begin_audio ==
  /\ AtTimers /\ Top.pass = {}
  /\ Goto([Top EXCEPT !.pc = "audio"])
  /\ UNCHANGED <<now, tm, timers, requests, fate, panic>>
begin_requests ==
  /\ InGuest /\ Top.kind = "loop" /\ Top.pc = "audio"
  /\ Goto([Top EXCEPT !.pc = "requests"])
  /\ UNCHANGED <<now, tm, timers, requests, fate, panic>>

-----------------------------------------------------------------------------
(***************************************************************************)
(* Perform requests.  A request waits at its place in the queue; fate also *)
(* says whether its semaphore has been posted ("done" or "cancelled").     *)
(***************************************************************************)
Request(r, sel, is_nil, due_by) == [id |-> r, sel |-> sel, is_nil |-> is_nil, due_by |-> due_by]
add_perform_request(r, sel, is_nil, due_by) ==
  /\ fate[r] = "unsent" /\ panic = "no"
  /\ requests' = Append(requests, Request(r, sel, is_nil, due_by))
  /\ fate' = [fate EXCEPT ![r] = "pending"]
  /\ UNCHANGED <<now, tm, timers, stack, panic>>
\* On the main thread, with a delay (waiting there calls the target directly)
performSelectorAfterDelay(r, sel, is_nil, delay) ==
  InGuest /\ now + delay <= MaxTime /\ add_perform_request(r, sel, is_nil, now + delay)
\* On any other thread, which may wait for the semaphore
performSelectorOnMainThread(r, sel, is_nil) == add_perform_request(r, sel, is_nil, None)

AtRequests == panic = "no" /\ Top.kind = "loop" /\ Top.pc = "requests"
Runnable == {i \in 1 .. Len(requests) : requests[i].due_by <= now}
RemoveRun_kept(i) == requests
RemoveRun(i) == RemoveAt(requests, i)
run_request ==
  /\ AtRequests /\ Runnable # {}
  /\ LET i == Min(Runnable)
     IN  /\ requests' = RemoveRun(i)
         /\ fate' = [fate EXCEPT ![requests[i].id] = "running"]
         /\ Goto([Top EXCEPT !.pc = "perform", !.req = <<requests[i].id>>])
  /\ UNCHANGED <<now, tm, timers, panic>>
perform_returns ==
  /\ InGuest /\ Top.kind = "loop" /\ Top.pc = "perform"
  /\ fate' = [fate EXCEPT ![Head(Top.req)] = "done"]
  /\ Goto([Top EXCEPT !.pc = "requests", !.req = <<>>])
  /\ UNCHANGED <<now, tm, timers, requests, panic>>
\* Having slept, the loop starts over or returns
end_iteration ==
  /\ AtRequests /\ Runnable = {}
  /\ stack' = IF Top.limit <= now THEN Below
              ELSE Below \o <<[Top EXCEPT !.pc = "events"]>>
  /\ UNCHANGED <<now, tm, timers, requests, fate, panic>>

\* run, runUntilDate, CFRunLoopRunInMode
run_run_loop(limit) ==
  /\ MayNest
  /\ stack' = Append(stack, LoopFrame(limit))
  /\ UNCHANGED <<now, tm, timers, requests, fate, panic>>

\* cancel_perform_requests scans the queue it has taken away up to the next
\* request whose argument it must compare with isEqual:
NeedsIsEqual(req, sel) == req.sel = sel /\ ~req.is_nil
CancelledByHost(req, sel, is_nil) == req.sel = sel /\ req.is_nil /\ is_nil
NextIsEqual(q, sel) ==
  LET I == {i \in 1 .. Len(q) : NeedsIsEqual(q[i], sel)}
  IN  IF I = {} THEN Len(q) + 1 ELSE Min(I)
Scanned(q, sel) == SubSeq(q, 1, NextIsEqual(q, sel) - 1)
\* The j-th of a set of numbers
Nth(I, j) == CHOOSE i \in I : Cardinality({h \in I : h <= i}) = j
Kept(q, sel, is_nil) ==
  LET s == Scanned(q, sel)
      I == {i \in 1 .. Len(s) : ~CancelledByHost(s[i], sel, is_nil)}
  IN  [j \in 1 .. Cardinality(I) |-> s[Nth(I, j)]]
Dropped(q, sel, is_nil) == {req.id : req \in {x \in Range(Scanned(q, sel)) : CancelledByHost(x, sel, is_nil)}}
Cancelled(ids) == [r \in Requests |-> IF r \in ids THEN "cancelled" ELSE fate[r]]
scan(below, q, kept, sel, is_nil, dropped) ==
  LET rest == SubSeq(q, NextIsEqual(q, sel), Len(q))
      k == kept \o Kept(q, sel, is_nil)
  IN  /\ fate' = Cancelled(dropped \cup Dropped(q, sel, is_nil))
      /\ IF rest = <<>>
         THEN requests' = k /\ stack' = below
         ELSE /\ requests' = IF Len(below) < Len(stack) THEN requests ELSE <<>>
              /\ stack' = Append(below, CancelFrame(sel, is_nil, rest, k))
      /\ UNCHANGED <<now, tm, timers, panic>>
cancel_perform_requests(sel, is_nil) ==
  MayNest /\ scan(stack, requests, <<>>, sel, is_nil, {})
isEqual_returns(equal) ==
  /\ InGuest /\ Top.kind = "cancel"
  /\ LET req == Head(Top.rest)
     IN  scan(Below, Tail(Top.rest), IF equal THEN Top.kept ELSE Append(Top.kept, req),
              Top.sel, Top.is_nil, IF equal THEN {req.id} ELSE {})

-----------------------------------------------------------------------------
loop_step ==
  \/ begin_timers \/ begin_audio \/ begin_requests
  \/ \E t \in Timers : handle_timer_idle(t) \/ handle_timer_fires(t)
  \/ run_request \/ end_iteration
guest_returns ==
  \/ timer_callback_returns \/ fire_returns \/ perform_returns
  \/ \E equal \in BOOLEAN : isEqual_returns(equal)
TimerCall ==
  \E t \in Timers :
    \/ \E i \in Intervals, repeats \in BOOLEAN : timerWithTimeInterval(t, i, repeats)
    \/ \E i \in Intervals : set_time_interval(t, i)
    \/ guest_releases(t) \/ addTimer(t) \/ invalidate(t) \/ fire(t)
NestCall == \E limit \in 0 .. MaxTime : run_run_loop(limit)
CancelCall == \E sel \in Selectors, is_nil \in BOOLEAN : cancel_perform_requests(sel, is_nil)
DelayCall ==
  \E r \in Requests, sel \in Selectors, is_nil \in BOOLEAN, d \in {0, 1} :
    performSelectorAfterDelay(r, sel, is_nil, d)
OtherThread ==
  \E r \in Requests, sel \in Selectors, is_nil \in BOOLEAN :
    performSelectorOnMainThread(r, sel, is_nil)
Next ==
  \/ loop_step \/ guest_returns \/ tick
  \/ TimerCall \/ NestCall \/ CancelCall \/ DelayCall \/ OtherThread

Spec == Init /\ [][Next]_vars
\* The guests that send nothing while the main thread compares arguments
Cancelling == \E i \in 1 .. Len(stack) : stack[i].kind = "cancel"
QuietNext ==
  \/ loop_step \/ guest_returns \/ tick
  \/ TimerCall \/ NestCall \/ CancelCall
  \/ ~Cancelling /\ (DelayCall \/ OtherThread)
QuietSpec == Init /\ [][QuietNext]_vars
\* The main thread runs, the clock goes on, and guest code returns after
\* finitely many calls back into the loop
Fairness ==
  /\ WF_vars(loop_step) /\ WF_vars(tick)
  /\ SF_vars(timer_callback_returns) /\ SF_vars(fire_returns) /\ SF_vars(perform_returns)
  /\ SF_vars(\E equal \in BOOLEAN : isEqual_returns(equal))
  /\ SF_vars(begin_timers) /\ SF_vars(begin_requests)

-----------------------------------------------------------------------------
(***************************************************************************)
(* Properties.                                                             *)
(***************************************************************************)
\* Every part of the state has its type, and frames nest as far as allowed.
TypeOK ==
  /\ now \in 0 .. MaxTime
  /\ timers \subseteq Timers
  /\ \A t \in Timers : tm[t].refs \in Nat /\ tm[t].due_by \in {None} \cup Nat
  /\ Len(stack) \in 1 .. MaxDepth
  /\ \A i \in 1 .. Len(stack) : Cardinality(stack[i].timer) <= 1

\* Every reference is accounted for: one for the guest, one for the loop, one
\* for each pass that still has to look at the timer and two while its
\* message is being sent.  A pass that served a freed timer, or a release too
\* many, would break it.
Frames == 1 .. Len(stack)
Serving(t) == {i \in Frames : stack[i].kind = "loop" /\ t \in stack[i].timer}
RefsExact ==
  panic = "no" =>
    \A t \in Timers :
      tm[t].refs = (IF tm[t].held THEN 1 ELSE 0) + (IF t \in timers THEN 1 ELSE 0)
        + Cardinality({i \in Frames : t \in stack[i].pass})
        + 2 * Cardinality(Serving(t))

\* The loop owns exactly the valid timers that were added to it, and a timer's
\* flag is set exactly while the loop sends its message, in one frame only.
TimersValid ==
  panic = "no" =>
    \A t \in Timers :
      /\ t \in timers <=> tm[t].has_loop /\ tm[t].due_by # None
      /\ Cardinality(Serving(t)) = IF tm[t].is_running_callback THEN 1 ELSE 0

\* "the next firing should be based on when the timer should have fired" and
\* "it should not try to catch up": the new time is the first multiple of the
\* interval that is not already past.
NoDrift ==
  [][\A t \in Timers :
       tm[t].due_by # None /\ tm'[t].due_by # None /\ tm'[t].due_by # tm[t].due_by
         => LET step == tm'[t].due_by - tm[t].due_by
            IN  /\ step % tm[t].interval = 0 /\ step > 0
                /\ tm'[t].due_by >= now
                /\ step = tm[t].interval \/ tm'[t].due_by - tm[t].interval < now]_vars

\* Where a request is: in the queue, or with what a cancellation has yet to look at or keeps
CancelFrames == {f \in Frames : stack[f].kind = "cancel"}
InQueue(q, r) == {i \in 1 .. Len(q) : q[i].id = r}
PlacesOf(r) ==
  {<<0, "queue", i>> : i \in InQueue(requests, r)}
    \cup UNION {{<<f, "rest", i>> : i \in InQueue(stack[f].rest, r)}
                 \cup {<<f, "kept", i>> : i \in InQueue(stack[f].kept, r)} : f \in CancelFrames}
\* A request is never in two places, whoever sends and cancels in between, and in none
\* before it is sent and after it is performed or cancelled: none is performed twice.
RequestsOnce ==
  \A r \in Requests :
    Cardinality(PlacesOf(r)) <= 1 /\ (PlacesOf(r) # {} => fate[r] = "pending")
\* A request stays in the queue, or in the hands of a cancellation, until it
\* is performed or cancelled, and is nowhere twice.
RequestsKept ==
  /\ \A r \in Requests : Cardinality(PlacesOf(r)) = IF fate[r] = "pending" THEN 1 ELSE 0
  /\ IsFiniteSet(Requests) => Len(requests) <= Cardinality(Requests)

\* A thread that waits for its request is released: the request is performed
\* or cancelled, which posts its semaphore.
WaiterReleased ==
  \A r \in Requests : fate[r] = "pending" ~> fate[r] \in {"done", "cancelled"} \/ panic # "no"

\* A timer that is due fires or is invalidated.
TimerServed ==
  \A t \in Timers :
    (t \in timers /\ tm[t].due_by = now)
      ~> (tm[t].due_by > now \/ t \notin timers \/ Serving(t) # {} \/ panic # "no")

\* Every reference to a timer is accounted for and every flag true: RefsExact and
\* TimersValid
LoopSound == TypeOK /\ RefsExact /\ TimersValid

-----------------------------------------------------------------------------
(***************************************************************************)
(* Proofs: LoopSound and NoDrift for any timers, intervals and nesting,    *)
(* whatever the guest does inside the loop.                                *)
(***************************************************************************)
TimerRecord ==
  [made : BOOLEAN, refs : Nat, held : BOOLEAN, repeats : BOOLEAN, interval : Nat,
   due_by : Nat \cup {None}, is_running_callback : BOOLEAN, has_loop : BOOLEAN]
\* Only a loop between its timers has some left to look at, and only while a
\* message is being sent is a timer being served.
FrameSane(f) ==
  /\ f.kind \in {"loop", "fire", "cancel"}
  /\ f.kind = "loop" =>
       /\ DOMAIN f = {"kind", "pc", "limit", "pass", "timer", "req"}
       /\ f.pc \in {"events", "timers", "callback", "audio", "requests", "perform"}
       /\ f.pc \notin {"timers", "callback"} => f.pass = {}
       /\ f.pc # "callback" => f.timer = {}
       /\ f.pc = "callback" => \E t \in Timers : f.timer = {t}
  /\ f.kind = "fire" => f.pass = {} /\ \E t \in Timers : f.timer = {t}
  /\ f.kind = "cancel" => f.pass = {} /\ f.timer = {}
IsStack(s) == s \in Seq(Range(s))
PassedBy(t) == {i \in Frames : t \in stack[i].pass}
TimerSane(t) ==
  /\ tm[t].made => tm[t].interval > 0
  /\ ~tm[t].made => tm[t].refs = 0 /\ ~tm[t].has_loop /\ tm[t].due_by = None
  /\ tm[t].made /\ ~tm[t].has_loop => tm[t].due_by # None
  /\ PassedBy(t) # {} => tm[t].has_loop
  /\ t \in timers <=> tm[t].has_loop /\ tm[t].due_by # None
TimerHeld(t) ==
  /\ tm[t].refs = (IF tm[t].held THEN 1 ELSE 0) + (IF t \in timers THEN 1 ELSE 0)
                  + Cardinality(PassedBy(t)) + 2 * Cardinality(Serving(t))
  /\ Cardinality(Serving(t)) = IF tm[t].is_running_callback THEN 1 ELSE 0
StackInv ==
  /\ IsStack(stack) /\ Len(stack) \in 1 .. MaxDepth
  /\ \A i \in Frames : FrameSane(stack[i])
  /\ stack[1].kind = "loop" /\ stack[1].limit = Forever
LoopInv ==
  /\ now \in 0 .. MaxTime /\ timers \subseteq Timers /\ tm \in [Timers -> TimerRecord]
  /\ StackInv
  /\ \A t \in Timers : TimerSane(t) /\ TimerHeld(t)

-----------------------------------------------------------------------------
(***************************************************************************)
(* Stacks, and which frames know a timer.                                  *)
(***************************************************************************)
LEMMA StackOf == ASSUME NEW S, NEW s \in Seq(S) PROVE IsStack(s)
<1>1. DOMAIN s = 1 .. Len(s) /\ Len(s) \in Nat
  OBVIOUS
<1>2. \A i \in 1 .. Len(s) : s[i] \in Range(s)
  BY <1>1 DEF Range
<1>3. s = [i \in 1 .. Len(s) |-> s[i]]
  OBVIOUS
<1>4. s \in [1 .. Len(s) -> Range(s)]
  BY <1>2, <1>3
<1> QED BY <1>1, <1>4 DEF IsStack

LEMMA PushFacts ==
  ASSUME NEW s, IsStack(s), NEW f
  PROVE  /\ IsStack(Append(s, f)) /\ Len(Append(s, f)) = Len(s) + 1
         /\ \A i \in 1 .. Len(s) : Append(s, f)[i] = s[i]
         /\ Append(s, f)[Len(s) + 1] = f
<1> DEFINE S == Range(s) \cup {f}
<1>1. s \in Seq(S) /\ f \in S
  BY DEF IsStack
<1> HIDE DEF S
<1>2. Append(s, f) \in Seq(S)
  BY <1>1
<1>3. IsStack(Append(s, f))
  BY <1>2, StackOf
<1> QED BY <1>1, <1>3

LEMMA PopFacts ==
  ASSUME NEW s, IsStack(s), Len(s) \in Nat \ {0}
  PROVE  /\ IsStack(SubSeq(s, 1, Len(s) - 1)) /\ Len(SubSeq(s, 1, Len(s) - 1)) = Len(s) - 1
         /\ \A i \in 1 .. Len(s) - 1 : SubSeq(s, 1, Len(s) - 1)[i] = s[i]
<1> DEFINE S == Range(s)  b == SubSeq(s, 1, Len(s) - 1)
<1>1. s \in Seq(S)
  BY DEF IsStack
<1> HIDE DEF S
<1> DEFINE n == Len(s) - 1
<1>n. n \in 0 .. Len(s)
  OBVIOUS
<1> HIDE DEF n
<1>a. SubSeq(s, 1, n) \in Seq(S) /\ Len(SubSeq(s, 1, n)) = n /\ \A i \in 1 .. n : SubSeq(s, 1, n)[i] = s[i]
  BY <1>1, <1>n
<1>2. b \in Seq(S) /\ Len(b) = Len(s) - 1 /\ \A i \in 1 .. Len(s) - 1 : b[i] = s[i]
  BY <1>a DEF n
<1>3. IsStack(b)
  BY <1>2, StackOf
<1> QED BY <1>2, <1>3

LEMMA GotoFacts ==
  ASSUME IsStack(stack), Len(stack) \in Nat \ {0}, NEW f, Goto(f)
  PROVE  /\ IsStack(stack') /\ Len(stack') = Len(stack)
         /\ \A i \in 1 .. Len(stack) - 1 : stack'[i] = stack[i]
         /\ stack'[Len(stack)] = f
<1> DEFINE S == Range(Below) \cup {f}
<1>1. IsStack(Below) /\ Len(Below) = Len(stack) - 1 /\ \A i \in 1 .. Len(stack) - 1 : Below[i] = stack[i]
  BY PopFacts DEF Below
<1>2. Below \in Seq(S) /\ <<f>> \in Seq(S)
  BY <1>1 DEF IsStack
<1> HIDE DEF S
<1>3. stack' = Below \o <<f>>
  BY DEF Goto
<1>4. stack' \in Seq(S) /\ Len(stack') = Len(stack)
  BY <1>1, <1>2, <1>3
<1>5. IsStack(stack')
  BY <1>4, StackOf
<1>6. stack'[Len(stack)] = f /\ \A i \in 1 .. Len(stack) - 1 : stack'[i] = Below[i]
  BY <1>1, <1>2, <1>3
<1> QED BY <1>1, <1>4, <1>5, <1>6

\* The top frame becomes f
LEMMA GotoKnown ==
  ASSUME StackInv, NEW f, FrameSane(f), f.kind = "loop", f.limit = Top.limit, Goto(f), NEW t
  PROVE  /\ StackInv' /\ Frames' = Frames
         /\ PassedBy(t)' = IF t \in f.pass THEN PassedBy(t) \cup {Len(stack)} ELSE PassedBy(t) \ {Len(stack)}
         /\ Serving(t)' = IF t \in f.timer
                          THEN Serving(t) \cup {Len(stack)} ELSE Serving(t) \ {Len(stack)}
         /\ Len(stack) \in PassedBy(t) <=> t \in Top.pass
         /\ Len(stack) \in Serving(t) <=> Top.kind = "loop" /\ t \in Top.timer
<1>1. /\ IsStack(stack') /\ Len(stack') = Len(stack) /\ Len(stack) \in Nat \ {0}
      /\ \A i \in 1 .. Len(stack) - 1 : stack'[i] = stack[i]
      /\ stack'[Len(stack)] = f
  BY GotoFacts DEF StackInv
<1>2. \A i \in Frames : stack'[i] = IF i = Len(stack) THEN f ELSE stack[i]
  BY <1>1 DEF Frames
<1>3. Frames' = Frames /\ Len(stack) \in Frames
  BY <1>1 DEF Frames
<1>4. StackInv'
  <2>1. \A i \in Frames : FrameSane(stack'[i])
    BY <1>2, <1>3 DEF StackInv
  <2>2. (\A i \in Frames : FrameSane(stack[i]))'
    BY <1>3, <2>1 DEF FrameSane
  <2>3. stack'[1].kind = "loop" /\ stack'[1].limit = Forever
    BY <1>1, <1>2, <1>3 DEF StackInv, Top, Frames
  <2> QED BY <1>1, <2>2, <2>3 DEF StackInv, Forever
<1> QED BY <1>2, <1>3, <1>4 DEF PassedBy, Serving, Top

\* A frame is put on that knows no timers, but for a fire
LEMMA PushKnown ==
  ASSUME StackInv, Len(stack) < MaxDepth, NEW f, FrameSane(f), stack' = Append(stack, f), NEW t,
         f.pass = {}, f.kind = "loop" => f.timer = {}
  PROVE  StackInv' /\ PassedBy(t)' = PassedBy(t) /\ Serving(t)' = Serving(t)
<1>1. /\ IsStack(stack') /\ Len(stack') = Len(stack) + 1 /\ Len(stack) \in Nat \ {0}
      /\ \A i \in 1 .. Len(stack) : stack'[i] = stack[i]
      /\ stack'[Len(stack) + 1] = f
  BY PushFacts DEF StackInv
<1>2. Frames' = Frames \cup {Len(stack) + 1} /\ Len(stack) + 1 \notin Frames
  BY <1>1 DEF Frames
<1>3. \A i \in Frames' : stack'[i] = IF i \in Frames THEN stack[i] ELSE f
  BY <1>1, <1>2 DEF Frames
<1>4. StackInv'
  <2>1. \A i \in Frames' : FrameSane(stack'[i])
    BY <1>2, <1>3 DEF StackInv
  <2>2. Len(stack') \in 1 .. MaxDepth
    BY <1>1, RunLoopAssumption
  <2>3. (\A i \in Frames : FrameSane(stack[i]))'
    BY <2>1 DEF FrameSane
  <2>4. stack'[1].kind = "loop" /\ stack'[1].limit = Forever
    BY <1>1 DEF StackInv
  <2> QED BY <1>1, <2>2, <2>3, <2>4 DEF StackInv, Forever
<1> QED BY <1>2, <1>3, <1>4 DEF PassedBy, Serving

\* The top frame goes, which knows no timers
LEMMA PopKnown ==
  ASSUME StackInv, Len(stack) > 1, stack' = Below, NEW t,
         Top.pass = {}, Top.kind = "loop" => Top.timer = {}
  PROVE  StackInv' /\ PassedBy(t)' = PassedBy(t) /\ Serving(t)' = Serving(t)
<1>1. /\ IsStack(stack') /\ Len(stack') = Len(stack) - 1 /\ Len(stack) \in Nat \ {0}
      /\ \A i \in 1 .. Len(stack) - 1 : stack'[i] = stack[i]
  BY PopFacts DEF StackInv, Below
<1>2. Frames' = Frames \ {Len(stack)} /\ Len(stack) \in Frames
  BY <1>1 DEF Frames
<1>3. \A i \in Frames' : stack'[i] = stack[i]
  BY <1>1, <1>2 DEF Frames
<1>4. StackInv'
  <2>1. \A i \in Frames' : FrameSane(stack'[i])
    BY <1>2, <1>3 DEF StackInv
  <2>2. Len(stack') \in 1 .. MaxDepth
    BY <1>1, RunLoopAssumption DEF StackInv
  <2>3. (\A i \in Frames : FrameSane(stack[i]))'
    BY <2>1 DEF FrameSane
  <2>4. stack'[1].kind = "loop" /\ stack'[1].limit = Forever
    BY <1>1 DEF StackInv
  <2> QED BY <1>1, <2>2, <2>3, <2>4 DEF StackInv, Forever
<1> QED BY <1>2, <1>3, <1>4 DEF PassedBy, Serving, Top

LEMMA KnownFinite ==
  ASSUME StackInv, NEW t
  PROVE  /\ IsFiniteSet(PassedBy(t)) /\ Cardinality(PassedBy(t)) \in Nat
         /\ IsFiniteSet(Serving(t)) /\ Cardinality(Serving(t)) \in Nat
<1>1. IsFiniteSet(Frames)
  BY FS_Interval DEF Frames, StackInv
<1>2. PassedBy(t) \subseteq Frames /\ Serving(t) \subseteq Frames
  BY DEF PassedBy, Serving
<1> QED BY <1>1, <1>2, FS_Subset, FS_CardinalityType

LEMMA CountIn ==
  ASSUME NEW S, IsFiniteSet(S), NEW x
  PROVE  /\ x \notin S => Cardinality(S \cup {x}) = Cardinality(S) + 1
         /\ x \in S => S \cup {x} = S
         /\ x \in S => Cardinality(S \ {x}) = Cardinality(S) - 1
         /\ x \notin S => S \ {x} = S
BY FS_AddElement, FS_RemoveElement

LEMMA LoopInit == Init => LoopInv
<1> SUFFICES ASSUME Init PROVE LoopInv
  OBVIOUS
<1> DEFINE f == LoopFrame(Forever)
<1>1. /\ stack = <<f>> /\ f.kind = "loop" /\ f.pc = "events" /\ f.pass = {} /\ f.timer = {}
      /\ f.limit = Forever /\ DOMAIN f = {"kind", "pc", "limit", "pass", "timer", "req"}
  BY DEF Init, LoopFrame
<1> HIDE DEF f
<1>2. IsStack(stack) /\ Len(stack) = 1 /\ Frames = {1} /\ stack[1] = f
  <2>1. stack \in Seq({f})
    BY <1>1
  <2>2. IsStack(stack)
    BY <2>1, StackOf
  <2>3. Len(stack) = 1 /\ stack[1] = f
    BY <1>1
  <2>4. 1 .. 1 = {1}
    OBVIOUS
  <2> QED BY <2>2, <2>3, <2>4 DEF Frames
<1>3. StackInv
  BY <1>1, <1>2, RunLoopAssumption DEF StackInv, FrameSane
<1>4. ASSUME NEW t \in Timers PROVE TimerSane(t) /\ TimerHeld(t)
  <2>1. PassedBy(t) = {} /\ Serving(t) = {}
    BY <1>1, <1>2 DEF PassedBy, Serving
  <2>2. Cardinality(PassedBy(t)) = 0 /\ Cardinality(Serving(t)) = 0
    BY <2>1, FS_EmptySet
  <2>3. /\ tm[t] = [made |-> FALSE, refs |-> 0, held |-> FALSE, repeats |-> FALSE, interval |-> 0,
                    due_by |-> None, is_running_callback |-> FALSE, has_loop |-> FALSE]
        /\ t \notin timers
    BY DEF Init
  <2>4. TimerSane(t)
    BY <2>1, <2>3 DEF TimerSane
  <2>5. TimerHeld(t)
    BY <2>2, <2>3 DEF TimerHeld
  <2> QED BY <2>4, <2>5
<1>5. now \in 0 .. MaxTime /\ timers \subseteq Timers /\ tm \in [Timers -> TimerRecord]
  BY RunLoopAssumption DEF Init, TimerRecord, None
<1> QED BY <1>3, <1>4, <1>5 DEF LoopInv

\* A step that leaves the timers alone, and who knows them
LEMMA TimersRest ==
  ASSUME LoopInv, StackInv', now' \in 0 .. MaxTime, tm' = tm, timers' = timers,
         \A t \in Timers : PassedBy(t)' = PassedBy(t) /\ Serving(t)' = Serving(t)
  PROVE  LoopInv'
<1>1. ASSUME NEW t \in Timers PROVE TimerSane(t)' /\ TimerHeld(t)'
  BY DEF LoopInv, TimerSane, TimerHeld
<1> QED BY <1>1 DEF LoopInv

LEMMA StackRests ==
  ASSUME StackInv, stack' = stack
  PROVE  StackInv' /\ \A t : PassedBy(t)' = PassedBy(t) /\ Serving(t)' = Serving(t)
BY DEF StackInv, PassedBy, Serving, Frames, FrameSane, Forever

LEMMA GotoSame ==
  ASSUME StackInv, NEW f, FrameSane(f), f.kind = "loop", f.limit = Top.limit, Goto(f),
         Top.kind = "loop", f.pass = Top.pass, f.timer = Top.timer
  PROVE  StackInv' /\ \A t : PassedBy(t)' = PassedBy(t) /\ Serving(t)' = Serving(t)
<1>1. StackInv'
  BY GotoKnown
<1>2. ASSUME NEW t PROVE PassedBy(t)' = PassedBy(t) /\ Serving(t)' = Serving(t)
  <2>1. /\ PassedBy(t)' = IF t \in f.pass THEN PassedBy(t) \cup {Len(stack)} ELSE PassedBy(t) \ {Len(stack)}
        /\ Serving(t)' = IF t \in f.timer THEN Serving(t) \cup {Len(stack)} ELSE Serving(t) \ {Len(stack)}
        /\ Len(stack) \in PassedBy(t) <=> t \in Top.pass
        /\ Len(stack) \in Serving(t) <=> t \in Top.timer
    BY GotoKnown
  <2> QED BY <2>1
<1> QED BY <1>1, <1>2

\* The top frame and what EXCEPT leaves of it
LEMMA TopSane ==
  ASSUME StackInv
  PROVE  /\ FrameSane(Top) /\ (Len(stack) = 1 => Top.kind = "loop" /\ Top.limit = Forever)
         /\ Top.kind = "loop" => DOMAIN Top = {"kind", "pc", "limit", "pass", "timer", "req"}
<1>1. Len(stack) \in Frames
  BY DEF StackInv, Frames
<1> QED BY <1>1 DEF StackInv, Top, FrameSane

\* One timer changes
LEMMA OneChanges ==
  ASSUME LoopInv, StackInv', now' = now, NEW t \in Timers,
         tm' \in [Timers -> TimerRecord], \A u \in Timers \ {t} : tm'[u] = tm[u],
         timers' = timers \/ timers' = timers \cup {t} \/ timers' = timers \ {t},
         \A u \in Timers \ {t} : PassedBy(u)' = PassedBy(u) /\ Serving(u)' = Serving(u),
         TimerSane(t)', TimerHeld(t)'
  PROVE  LoopInv'
<1>1. ASSUME NEW u \in Timers, u # t PROVE TimerSane(u)' /\ TimerHeld(u)'
  <2>1. /\ tm'[u] = tm[u] /\ PassedBy(u)' = PassedBy(u) /\ Serving(u)' = Serving(u)
        /\ u \in timers' <=> u \in timers
    BY <1>1
  <2> QED BY <2>1 DEF LoopInv, TimerSane, TimerHeld
<1>2. now' \in 0 .. MaxTime /\ timers' \subseteq Timers
  BY DEF LoopInv
<1> QED BY <1>1, <1>2 DEF LoopInv

\* What one edit of a timer leaves
LEMMA EditRefs ==
  ASSUME NEW x \in TimerRecord, NEW n \in Nat
  PROVE  LET y == [x EXCEPT !.refs = n]
         IN  /\ y \in TimerRecord /\ y.refs = n
             /\ y.made = x.made /\ y.held = x.held /\ y.repeats = x.repeats
             /\ y.interval = x.interval /\ y.due_by = x.due_by /\ y.has_loop = x.has_loop
             /\ y.is_running_callback = x.is_running_callback
BY DEF TimerRecord
LEMMA EditDue ==
  ASSUME NEW x \in TimerRecord, NEW n \in Nat \cup {None}
  PROVE  LET y == [x EXCEPT !.due_by = n]
         IN  /\ y \in TimerRecord /\ y.due_by = n
             /\ y.made = x.made /\ y.held = x.held /\ y.repeats = x.repeats
             /\ y.interval = x.interval /\ y.refs = x.refs /\ y.has_loop = x.has_loop
             /\ y.is_running_callback = x.is_running_callback
BY DEF TimerRecord
LEMMA EditInterval ==
  ASSUME NEW x \in TimerRecord, NEW n \in Nat
  PROVE  LET y == [x EXCEPT !.interval = n]
         IN  /\ y \in TimerRecord /\ y.interval = n
             /\ y.made = x.made /\ y.held = x.held /\ y.repeats = x.repeats
             /\ y.due_by = x.due_by /\ y.refs = x.refs /\ y.has_loop = x.has_loop
             /\ y.is_running_callback = x.is_running_callback
BY DEF TimerRecord
LEMMA EditFlags ==
  ASSUME NEW x \in TimerRecord, NEW b \in BOOLEAN
  PROVE  /\ LET y == [x EXCEPT !.held = b]
            IN  /\ y \in TimerRecord /\ y.held = b
                /\ y.made = x.made /\ y.repeats = x.repeats /\ y.interval = x.interval
                /\ y.due_by = x.due_by /\ y.refs = x.refs /\ y.has_loop = x.has_loop
                /\ y.is_running_callback = x.is_running_callback
         /\ LET y == [x EXCEPT !.has_loop = b]
            IN  /\ y \in TimerRecord /\ y.has_loop = b
                /\ y.made = x.made /\ y.held = x.held /\ y.repeats = x.repeats
                /\ y.interval = x.interval /\ y.due_by = x.due_by /\ y.refs = x.refs
                /\ y.is_running_callback = x.is_running_callback
         /\ LET y == [x EXCEPT !.is_running_callback = b]
            IN  /\ y \in TimerRecord /\ y.is_running_callback = b
                /\ y.made = x.made /\ y.held = x.held /\ y.repeats = x.repeats
                /\ y.interval = x.interval /\ y.due_by = x.due_by /\ y.refs = x.refs
                /\ y.has_loop = x.has_loop
BY DEF TimerRecord

LEMMA AboveOne == ASSUME NEW n \in Nat \ {0}, n # 1 PROVE n > 1
OBVIOUS

\* One timer becomes y
LEMMA TimerBecomes ==
  ASSUME LoopInv, NEW t \in Timers, NEW y \in TimerRecord, tm' = [tm EXCEPT ![t] = y]
  PROVE  /\ tm' \in [Timers -> TimerRecord] /\ tm'[t] = y
         /\ \A u \in Timers \ {t} : tm'[u] = tm[u]
BY DEF LoopInv

\* What is known of one timer
LEMMA TimerFacts ==
  ASSUME LoopInv, NEW t \in Timers
  PROVE  /\ StackInv /\ tm[t] \in TimerRecord /\ TimerSane(t) /\ TimerHeld(t)
         /\ tm[t].refs \in Nat /\ tm[t].interval \in Nat /\ tm[t].due_by \in Nat \cup {None}
         /\ tm[t].made \in BOOLEAN /\ tm[t].held \in BOOLEAN /\ tm[t].repeats \in BOOLEAN
         /\ tm[t].has_loop \in BOOLEAN /\ tm[t].is_running_callback \in BOOLEAN
         /\ now \in Nat
         /\ Cardinality(PassedBy(t)) \in Nat /\ Cardinality(Serving(t)) \in Nat
         /\ Cardinality(PassedBy(t)) = 0 => PassedBy(t) = {}
<1>1. StackInv /\ tm[t] \in TimerRecord /\ TimerSane(t) /\ TimerHeld(t) /\ now \in Nat
  BY RunLoopAssumption DEF LoopInv
<1>2. /\ tm[t].refs \in Nat /\ tm[t].interval \in Nat /\ tm[t].due_by \in Nat \cup {None}
      /\ tm[t].made \in BOOLEAN /\ tm[t].held \in BOOLEAN /\ tm[t].repeats \in BOOLEAN
      /\ tm[t].has_loop \in BOOLEAN /\ tm[t].is_running_callback \in BOOLEAN
  BY <1>1 DEF TimerRecord
<1>3. /\ Cardinality(PassedBy(t)) \in Nat /\ Cardinality(Serving(t)) \in Nat
      /\ IsFiniteSet(PassedBy(t))
  BY <1>1, KnownFinite
<1>4. Cardinality(PassedBy(t)) = 0 => PassedBy(t) = {}
  BY <1>3, FS_EmptySet
<1> QED BY <1>1, <1>2, <1>3, <1>4

-----------------------------------------------------------------------------
(***************************************************************************)
(* What the guest does with its timers.                                    *)
(***************************************************************************)
LEMMA ReleaseKeeps == ASSUME LoopInv, NEW t \in Timers, guest_releases(t) PROVE LoopInv'
<1> DEFINE y1 == [tm[t] EXCEPT !.refs = tm[t].refs - 1]
           y == [y1 EXCEPT !.held = FALSE]
<1>1. /\ tm[t] \in TimerRecord /\ tm[t].refs \in Nat /\ TimerSane(t) /\ TimerHeld(t) /\ StackInv
      /\ Cardinality(PassedBy(t)) \in Nat /\ Cardinality(Serving(t)) \in Nat
  BY TimerFacts
<1>2. tm[t].held /\ now' = now /\ timers' = timers /\ stack' = stack
  BY DEF guest_releases
<1>3. tm[t].refs - 1 \in Nat /\ tm[t].made
  BY <1>1, <1>2 DEF TimerHeld, TimerSane
<1>4. /\ y1 \in TimerRecord /\ y1.refs = tm[t].refs - 1
      /\ y1.made = tm[t].made /\ y1.interval = tm[t].interval
      /\ y1.due_by = tm[t].due_by /\ y1.has_loop = tm[t].has_loop
      /\ y1.is_running_callback = tm[t].is_running_callback
  BY <1>1, <1>3, EditRefs
<1>5. tm' = [tm EXCEPT ![t] = y]
  BY DEF guest_releases, Release, LoopInv
<1> HIDE DEF y1
<1>6. /\ y \in TimerRecord /\ y.held = FALSE /\ y.refs = y1.refs
      /\ y.made = y1.made /\ y.interval = y1.interval
      /\ y.due_by = y1.due_by /\ y.has_loop = y1.has_loop
      /\ y.is_running_callback = y1.is_running_callback
  BY <1>4, EditFlags
<1> HIDE DEF y
<1>7. tm' \in [Timers -> TimerRecord] /\ tm'[t] = y /\ \A u \in Timers \ {t} : tm'[u] = tm[u]
  BY <1>5, <1>6, TimerBecomes
<1>8. StackInv' /\ \A u : PassedBy(u)' = PassedBy(u) /\ Serving(u)' = Serving(u)
  BY <1>1, <1>2, StackRests
<1>9. TimerSane(t)'
  BY <1>1, <1>2, <1>3, <1>4, <1>6, <1>7, <1>8 DEF TimerSane
<1>10. TimerHeld(t)'
  BY <1>1, <1>2, <1>4, <1>6, <1>7, <1>8 DEF TimerHeld
<1> QED BY <1>2, <1>7, <1>8, <1>9, <1>10, OneChanges

LEMMA AddKeeps == ASSUME LoopInv, NEW t \in Timers, addTimer(t) PROVE LoopInv'
<1> DEFINE y1 == [tm[t] EXCEPT !.refs = tm[t].refs + 1]
           y == [y1 EXCEPT !.has_loop = TRUE]
<1>1. /\ tm[t] \in TimerRecord /\ tm[t].refs \in Nat /\ TimerSane(t) /\ TimerHeld(t) /\ StackInv
      /\ Cardinality(PassedBy(t)) \in Nat /\ Cardinality(Serving(t)) \in Nat
  BY TimerFacts
<1>2. tm[t].refs > 0 /\ ~tm[t].has_loop /\ now' = now /\ timers' = timers \cup {t} /\ stack' = stack
  BY DEF addTimer
<1>3. tm[t].refs + 1 \in Nat /\ tm[t].made /\ tm[t].due_by # None /\ t \notin timers
  BY <1>1, <1>2 DEF TimerSane
<1>4. /\ y1 \in TimerRecord /\ y1.refs = tm[t].refs + 1
      /\ y1.made = tm[t].made /\ y1.interval = tm[t].interval
      /\ y1.due_by = tm[t].due_by /\ y1.held = tm[t].held
      /\ y1.is_running_callback = tm[t].is_running_callback
  BY <1>1, <1>3, EditRefs
<1>5. tm' = [tm EXCEPT ![t] = y]
  BY DEF addTimer, Retain, LoopInv
<1> HIDE DEF y1
<1>6. /\ y \in TimerRecord /\ y.held = y1.held /\ y.refs = y1.refs
      /\ y.made = y1.made /\ y.interval = y1.interval
      /\ y.due_by = y1.due_by /\ y.has_loop = TRUE
      /\ y.is_running_callback = y1.is_running_callback
  BY <1>4, EditFlags
<1> HIDE DEF y
<1>7. tm' \in [Timers -> TimerRecord] /\ tm'[t] = y /\ \A u \in Timers \ {t} : tm'[u] = tm[u]
  BY <1>5, <1>6, TimerBecomes
<1>8. StackInv' /\ \A u : PassedBy(u)' = PassedBy(u) /\ Serving(u)' = Serving(u)
  BY <1>1, <1>2, StackRests
<1>9. TimerSane(t)'
  BY <1>1, <1>2, <1>3, <1>4, <1>6, <1>7, <1>8 DEF TimerSane
<1>10. TimerHeld(t)'
  BY <1>1, <1>2, <1>3, <1>4, <1>6, <1>7, <1>8 DEF TimerHeld
<1> QED BY <1>2, <1>7, <1>8, <1>9, <1>10, OneChanges

LEMMA IntervalKeeps ==
  ASSUME LoopInv, NEW t \in Timers, NEW i \in Intervals, set_time_interval(t, i) PROVE LoopInv'
<1> DEFINE y == [tm[t] EXCEPT !.interval = i]
<1>1. /\ tm[t] \in TimerRecord /\ tm[t].refs \in Nat /\ TimerSane(t) /\ TimerHeld(t) /\ StackInv
  BY TimerFacts
<1>2. now' = now /\ timers' = timers /\ stack' = stack /\ tm' = [tm EXCEPT ![t] = y] /\ i \in Nat /\ i > 0
  BY RunLoopAssumption DEF set_time_interval
<1>3. /\ y \in TimerRecord /\ y.interval = i
      /\ y.made = tm[t].made /\ y.held = tm[t].held /\ y.repeats = tm[t].repeats
      /\ y.due_by = tm[t].due_by /\ y.refs = tm[t].refs /\ y.has_loop = tm[t].has_loop
      /\ y.is_running_callback = tm[t].is_running_callback
  BY <1>1, <1>2, EditInterval
<1> HIDE DEF y
<1>7. tm' \in [Timers -> TimerRecord] /\ tm'[t] = y /\ \A u \in Timers \ {t} : tm'[u] = tm[u]
  BY <1>2, <1>3, TimerBecomes
<1>8. StackInv' /\ \A u : PassedBy(u)' = PassedBy(u) /\ Serving(u)' = Serving(u)
  BY <1>1, <1>2, StackRests
<1>9. TimerSane(t)'
  BY <1>1, <1>2, <1>3, <1>7, <1>8 DEF TimerSane
<1>10. TimerHeld(t)'
  BY <1>1, <1>2, <1>3, <1>7, <1>8 DEF TimerHeld
<1> QED BY <1>2, <1>7, <1>8, <1>9, <1>10, OneChanges

LEMMA MakeKeeps ==
  ASSUME LoopInv, NEW t \in Timers, NEW i \in Intervals, NEW b \in BOOLEAN, timerWithTimeInterval(t, i, b)
  PROVE  LoopInv'
<1> DEFINE y == [tm[t] EXCEPT !.made = TRUE, !.refs = 1, !.held = TRUE, !.repeats = b,
                              !.interval = i, !.due_by = now + i]
<1>1. /\ tm[t] \in TimerRecord /\ tm[t].refs \in Nat /\ TimerSane(t) /\ TimerHeld(t) /\ StackInv
      /\ Cardinality(PassedBy(t)) \in Nat /\ Cardinality(Serving(t)) \in Nat
      /\ now \in Nat /\ tm[t].has_loop \in BOOLEAN /\ tm[t].is_running_callback \in BOOLEAN
      /\ Cardinality(PassedBy(t)) = 0 => PassedBy(t) = {}
  BY TimerFacts
<1>2. ~tm[t].made /\ now' = now /\ timers' = timers /\ stack' = stack /\ i \in Nat /\ i > 0
  BY RunLoopAssumption DEF timerWithTimeInterval
<1>3. tm' = [tm EXCEPT ![t] = y]
  BY DEF timerWithTimeInterval, LoopInv
<1>4. tm[t].refs = 0 /\ ~tm[t].has_loop /\ t \notin timers
  BY <1>1, <1>2 DEF TimerSane
<1>5. Cardinality(PassedBy(t)) = 0 /\ Cardinality(Serving(t)) = 0 /\ PassedBy(t) = {}
  BY <1>1, <1>4 DEF TimerHeld
<1>6. /\ y \in TimerRecord /\ y.interval = i /\ y.made = TRUE /\ y.held = TRUE
      /\ y.due_by = now + i /\ y.refs = 1 /\ y.has_loop = tm[t].has_loop
      /\ y.is_running_callback = tm[t].is_running_callback
  <2> DEFINE x == tm[t]  z == now + i
  <2>1. x \in TimerRecord /\ z \in Nat
    BY <1>1, <1>2
  <2> HIDE DEF x, z
  <2> DEFINE w == [x EXCEPT !.made = TRUE, !.refs = 1, !.held = TRUE, !.repeats = b, !.interval = i, !.due_by = z]
  <2>2. w.interval = i /\ w.due_by = z /\ w.refs = 1
    BY <2>1 DEF TimerRecord
  <2>3. w.made = TRUE /\ w.held = TRUE
    BY <2>1 DEF TimerRecord
  <2>4. w.has_loop = x.has_loop /\ w.is_running_callback = x.is_running_callback
    BY <2>1 DEF TimerRecord
  <2>5. w \in TimerRecord
    BY <2>1, <1>2 DEF TimerRecord
  <2> QED BY <2>2, <2>3, <2>4, <2>5 DEF x, z
<1> HIDE DEF y
<1>7. tm' \in [Timers -> TimerRecord] /\ tm'[t] = y /\ \A u \in Timers \ {t} : tm'[u] = tm[u]
  BY <1>3, <1>6, TimerBecomes
<1>8. StackInv' /\ \A u : PassedBy(u)' = PassedBy(u) /\ Serving(u)' = Serving(u)
  BY <1>1, <1>2, StackRests
<1>9. TimerSane(t)'
  BY <1>1, <1>2, <1>4, <1>5, <1>6, <1>7, <1>8 DEF TimerSane, None
<1>10. TimerHeld(t)'
  BY <1>1, <1>2, <1>4, <1>5, <1>6, <1>7, <1>8 DEF TimerHeld
<1> QED BY <1>2, <1>7, <1>8, <1>9, <1>10, OneChanges

\* A timer is invalidated, by the guest or after a fire
LEMMA InvalidatedKeeps ==
  ASSUME LoopInv, StackInv', now' = now, NEW t \in Timers, tm[t].refs > 0, ~InvalidatePanics(tm, t),
         tm' = Invalidated(tm, t), timers' = timers \ {t},
         \A u \in Timers : PassedBy(u)' = PassedBy(u) /\ Serving(u)' = Serving(u)
  PROVE  LoopInv'
<1>1. /\ tm[t] \in TimerRecord /\ tm[t].refs \in Nat /\ TimerSane(t) /\ TimerHeld(t) /\ StackInv
      /\ Cardinality(PassedBy(t)) \in Nat /\ Cardinality(Serving(t)) \in Nat
  BY TimerFacts
<1>2. CASE tm[t].due_by = None
  <2>1. tm' = tm /\ t \notin timers /\ timers' = timers
    BY <1>1, <1>2 DEF Invalidated, TimerSane
  <2>2. now' \in 0 .. MaxTime
    BY DEF LoopInv
  <2> QED BY <2>1, <2>2, TimersRest
<1>3. CASE tm[t].due_by # None
  <2> DEFINE y1 == [tm[t] EXCEPT !.due_by = None]
             y == [y1 EXCEPT !.refs = tm[t].refs - 1]
  <2>1. tm[t].has_loop /\ t \in timers /\ tm[t].refs - 1 \in Nat /\ tm[t].made
    BY <1>1, <1>3 DEF InvalidatePanics, TimerSane
  <2>2. /\ y1 \in TimerRecord /\ y1.due_by = None /\ y1.refs = tm[t].refs
        /\ y1.made = tm[t].made /\ y1.interval = tm[t].interval
        /\ y1.held = tm[t].held /\ y1.has_loop = tm[t].has_loop
        /\ y1.is_running_callback = tm[t].is_running_callback
    BY <1>1, EditDue
  <2>3. tm' = [tm EXCEPT ![t] = y]
    BY <1>1, <1>3, <2>2 DEF Invalidated, remove_timer, Release, LoopInv
  <2> HIDE DEF y1
  <2>4. /\ y \in TimerRecord /\ y.refs = tm[t].refs - 1
        /\ y.made = y1.made /\ y.held = y1.held /\ y.interval = y1.interval
        /\ y.due_by = y1.due_by /\ y.has_loop = y1.has_loop
        /\ y.is_running_callback = y1.is_running_callback
    BY <2>1, <2>2, EditRefs
  <2> HIDE DEF y
  <2>5. tm' \in [Timers -> TimerRecord] /\ tm'[t] = y /\ \A u \in Timers \ {t} : tm'[u] = tm[u]
    BY <2>3, <2>4, TimerBecomes
  <2>6. TimerSane(t)'
    BY <1>1, <2>1, <2>2, <2>4, <2>5 DEF TimerSane
  <2>7. TimerHeld(t)'
    BY <1>1, <2>1, <2>2, <2>4, <2>5 DEF TimerHeld
  <2> QED BY <2>5, <2>6, <2>7, OneChanges
<1> QED BY <1>2, <1>3

\* Nothing the invariant is about changes
LEMMA StutterKeeps ==
  ASSUME LoopInv, UNCHANGED <<tm, timers, stack>>, now' \in 0 .. MaxTime PROVE LoopInv'
<1>1. StackInv' /\ \A u : PassedBy(u)' = PassedBy(u) /\ Serving(u)' = Serving(u)
  BY StackRests DEF LoopInv
<1> QED BY <1>1, TimersRest

LEMMA InvalidateKeeps == ASSUME LoopInv, NEW t \in Timers, invalidate(t) PROVE LoopInv'
<1>1. stack' = stack /\ now' = now /\ now' \in 0 .. MaxTime /\ tm[t].refs > 0
  BY DEF invalidate, LoopInv
<1>2. CASE InvalidatePanics(tm, t)
  BY <1>1, <1>2, StutterKeeps DEF invalidate
<1>3. CASE ~InvalidatePanics(tm, t)
  <2>1. tm' = Invalidated(tm, t) /\ timers' = timers \ {t}
    BY <1>3 DEF invalidate
  <2>2. StackInv' /\ \A u : PassedBy(u)' = PassedBy(u) /\ Serving(u)' = Serving(u)
    BY <1>1, StackRests DEF LoopInv
  <2> QED BY <1>1, <1>3, <2>1, <2>2, InvalidatedKeeps
<1> QED BY <1>2, <1>3

\* A frame is put on that knows no timers, but for a fire
LEMMA PushKeeps ==
  ASSUME LoopInv, Len(stack) < MaxDepth, NEW f, FrameSane(f), stack' = Append(stack, f),
         f.pass = {}, f.kind = "loop" => f.timer = {}, UNCHANGED <<now, tm, timers>>
  PROVE  LoopInv'
<1>1. StackInv
  BY DEF LoopInv
<1>2. StackInv' /\ \A t : PassedBy(t)' = PassedBy(t) /\ Serving(t)' = Serving(t)
  BY <1>1, PushKnown
<1> QED BY <1>2, TimersRest DEF LoopInv

LEMMA FireKeeps == ASSUME LoopInv, NEW t \in Timers, fire(t) PROVE LoopInv'
<1> DEFINE f == FireFrame(t)
<1>1. f.kind = "fire" /\ f.pass = {} /\ f.timer = {t}
  BY DEF FireFrame
<1>2. stack' = Append(stack, f) /\ Len(stack) < MaxDepth /\ UNCHANGED <<now, tm, timers>>
  BY DEF fire, MayNest
<1> HIDE DEF f
<1>3. FrameSane(f)
  BY <1>1 DEF FrameSane
<1> QED BY <1>1, <1>2, <1>3, PushKeeps

LEMMA RunKeeps == ASSUME LoopInv, NEW limit, run_run_loop(limit) PROVE LoopInv'
<1> DEFINE f == LoopFrame(limit)
<1>1. /\ f.kind = "loop" /\ f.pc = "events" /\ f.pass = {} /\ f.timer = {}
      /\ DOMAIN f = {"kind", "pc", "limit", "pass", "timer", "req"}
  BY DEF LoopFrame
<1>2. stack' = Append(stack, f) /\ Len(stack) < MaxDepth /\ UNCHANGED <<now, tm, timers>>
  BY DEF run_run_loop, MayNest
<1> HIDE DEF f
<1>3. FrameSane(f)
  BY <1>1 DEF FrameSane
<1> QED BY <1>1, <1>2, <1>3, PushKeeps

LEMMA FireReturnKeeps == ASSUME LoopInv, fire_returns PROVE LoopInv'
<1>1. Top.kind = "fire" /\ now' = now /\ StackInv /\ now' \in 0 .. MaxTime
  BY DEF fire_returns, LoopInv
<1>2. Top.pass = {} /\ Len(stack) > 1 /\ \E t \in Timers : Top.timer = {t}
  <2>1. FrameSane(Top) /\ (Len(stack) = 1 => Top.kind = "loop")
    BY <1>1, TopSane
  <2>2. Top.pass = {} /\ \E t \in Timers : Top.timer = {t}
    BY <1>1, <2>1 DEF FrameSane
  <2>3. Len(stack) \in Nat \ {0}
    BY <1>1, RunLoopAssumption DEF StackInv
  <2>4. Len(stack) # 1
    BY <1>1, <2>1
  <2>5. Len(stack) > 1
    BY <2>3, <2>4, AboveOne
  <2> QED BY <2>2, <2>5
<1>3. PICK t \in Timers : Top.timer = {t}
  BY <1>2
<1>4. CASE tm' = tm /\ timers' = timers /\ stack' = stack
  BY <1>1, <1>4, StutterKeeps
<1>5. CASE stack' = Below /\ tm[t].repeats /\ tm' = tm /\ timers' = timers
  <2>1. StackInv' /\ \A u : PassedBy(u)' = PassedBy(u) /\ Serving(u)' = Serving(u)
    BY <1>1, <1>2, <1>5, PopKnown
  <2> QED BY <1>1, <1>5, <2>1, TimersRest
<1>6. CASE stack' = Below /\ tm[t].refs > 0 /\ ~InvalidatePanics(tm, t) /\ tm' = Invalidated(tm, t) /\ timers' = timers \ {t}
  <2>1. StackInv' /\ \A u : PassedBy(u)' = PassedBy(u) /\ Serving(u)' = Serving(u)
    BY <1>1, <1>2, <1>6, PopKnown
  <2> QED BY <1>1, <1>6, <2>1, InvalidatedKeeps
<1>7. \/ tm' = tm /\ timers' = timers /\ stack' = stack
      \/ stack' = Below /\ tm[t].repeats /\ tm' = tm /\ timers' = timers
      \/ stack' = Below /\ tm[t].refs > 0 /\ ~InvalidatePanics(tm, t) /\ tm' = Invalidated(tm, t) /\ timers' = timers \ {t}
  BY <1>3 DEF fire_returns
<1> QED BY <1>4, <1>5, <1>6, <1>7

-----------------------------------------------------------------------------
(***************************************************************************)
(* What the loop does.                                                     *)
(***************************************************************************)
LEMMA TopLoop ==
  ASSUME StackInv, Top.kind = "loop"
  PROVE  /\ DOMAIN Top = {"kind", "pc", "limit", "pass", "timer", "req"}
         /\ Top.pc \in {"events", "timers", "callback", "audio", "requests", "perform"}
         /\ Top.pc \notin {"timers", "callback"} => Top.pass = {}
         /\ Top.pc # "callback" => Top.timer = {}
         /\ Top.pc = "callback" => \E t \in Timers : Top.timer = {t}
<1>1. FrameSane(Top)
  BY TopSane
<1> QED BY <1>1 DEF FrameSane

\* A step of the loop that neither takes up nor lays down a timer
LEMMA GotoKeeps ==
  ASSUME LoopInv, NEW f, Goto(f), UNCHANGED <<now, tm, timers>>, Top.kind = "loop",
         f.kind = "loop", f.limit = Top.limit, f.pass = Top.pass, f.timer = Top.timer,
         DOMAIN f = DOMAIN Top, Top.pass = {}, Top.timer = {},
         f.pc \in {"events", "audio", "requests", "perform"}
  PROVE  LoopInv'
<1>1. StackInv /\ now' \in 0 .. MaxTime
  BY DEF LoopInv
<1>2. DOMAIN f = {"kind", "pc", "limit", "pass", "timer", "req"}
  BY <1>1, TopLoop
<1>3. FrameSane(f)
  BY <1>2 DEF FrameSane
<1>4. StackInv' /\ \A t : PassedBy(t)' = PassedBy(t) /\ Serving(t)' = Serving(t)
  BY <1>1, <1>3, GotoSame
<1> QED BY <1>1, <1>4, TimersRest

LEMMA AudioKeeps == ASSUME LoopInv, begin_audio PROVE LoopInv'
<1> DEFINE f == [Top EXCEPT !.pc = "audio"]
<1>1. StackInv /\ Top.kind = "loop" /\ Top.pc = "timers" /\ Top.pass = {} /\ Goto(f) /\ UNCHANGED <<now, tm, timers>>
  BY DEF begin_audio, AtTimers, LoopInv
<1>2. DOMAIN Top = {"kind", "pc", "limit", "pass", "timer", "req"} /\ Top.timer = {}
  BY <1>1, TopLoop
<1>3. /\ f.kind = Top.kind /\ f.limit = Top.limit /\ f.pass = Top.pass /\ f.timer = Top.timer
      /\ DOMAIN f = DOMAIN Top /\ f.pc = "audio"
  BY <1>2
<1> HIDE DEF f
<1> QED BY <1>1, <1>2, <1>3, GotoKeeps

LEMMA BeginRequestsKeeps == ASSUME LoopInv, begin_requests PROVE LoopInv'
<1> DEFINE f == [Top EXCEPT !.pc = "requests"]
<1>1. StackInv /\ Top.kind = "loop" /\ Top.pc = "audio" /\ Goto(f) /\ UNCHANGED <<now, tm, timers>>
  BY DEF begin_requests, LoopInv
<1>2. DOMAIN Top = {"kind", "pc", "limit", "pass", "timer", "req"} /\ Top.timer = {} /\ Top.pass = {}
  BY <1>1, TopLoop
<1>3. /\ f.kind = Top.kind /\ f.limit = Top.limit /\ f.pass = Top.pass /\ f.timer = Top.timer
      /\ DOMAIN f = DOMAIN Top /\ f.pc = "requests"
  BY <1>2
<1> HIDE DEF f
<1> QED BY <1>1, <1>2, <1>3, GotoKeeps

LEMMA RunRequestKeeps == ASSUME LoopInv, run_request PROVE LoopInv'
<1> DEFINE r == <<requests[Min(Runnable)].id>>
           f == [Top EXCEPT !.pc = "perform", !.req = r]
<1>1. StackInv /\ Top.kind = "loop" /\ Top.pc = "requests" /\ Goto(f) /\ UNCHANGED <<now, tm, timers>>
  BY DEF run_request, AtRequests, LoopInv
<1> HIDE DEF r
<1>2. DOMAIN Top = {"kind", "pc", "limit", "pass", "timer", "req"} /\ Top.timer = {} /\ Top.pass = {}
  BY <1>1, TopLoop
<1>3. /\ f.kind = Top.kind /\ f.limit = Top.limit /\ f.pass = Top.pass /\ f.timer = Top.timer
      /\ DOMAIN f = DOMAIN Top /\ f.pc = "perform"
  BY <1>2
<1> HIDE DEF f
<1> QED BY <1>1, <1>2, <1>3, GotoKeeps

LEMMA PerformReturnKeeps == ASSUME LoopInv, perform_returns PROVE LoopInv'
<1> DEFINE f == [Top EXCEPT !.pc = "requests", !.req = <<>>]
<1>1. StackInv /\ Top.kind = "loop" /\ Top.pc = "perform" /\ Goto(f) /\ UNCHANGED <<now, tm, timers>>
  BY DEF perform_returns, LoopInv
<1>2. DOMAIN Top = {"kind", "pc", "limit", "pass", "timer", "req"} /\ Top.timer = {} /\ Top.pass = {}
  BY <1>1, TopLoop
<1>3. /\ f.kind = Top.kind /\ f.limit = Top.limit /\ f.pass = Top.pass /\ f.timer = Top.timer
      /\ DOMAIN f = DOMAIN Top /\ f.pc = "requests"
  BY <1>2
<1> HIDE DEF f
<1> QED BY <1>1, <1>2, <1>3, GotoKeeps

LEMMA EndIterationKeeps == ASSUME LoopInv, end_iteration PROVE LoopInv'
<1> DEFINE f == [Top EXCEPT !.pc = "events"]
<1>1. /\ StackInv /\ Top.kind = "loop" /\ Top.pc = "requests" /\ UNCHANGED <<now, tm, timers>>
      /\ now \in 0 .. MaxTime /\ now' \in 0 .. MaxTime
  BY DEF end_iteration, AtRequests, LoopInv
<1>2. DOMAIN Top = {"kind", "pc", "limit", "pass", "timer", "req"} /\ Top.timer = {} /\ Top.pass = {}
  BY <1>1, TopLoop
<1>3. /\ f.kind = Top.kind /\ f.limit = Top.limit /\ f.pass = Top.pass /\ f.timer = Top.timer
      /\ DOMAIN f = DOMAIN Top /\ f.pc = "events"
  BY <1>2
<1>4. CASE Top.limit <= now
  <2>1. Len(stack) \in Nat \ {0} /\ stack' = Below
    BY <1>1, <1>4, RunLoopAssumption DEF end_iteration, StackInv
  <2>2. Len(stack) = 1 => Top.limit = Forever
    BY <1>1, TopSane
  <2>3. Len(stack) > 1
    <3>1. ASSUME Len(stack) = 1 PROVE FALSE
      <4>1. MaxTime + 1 <= now
        BY <1>4, <2>2, <3>1 DEF Forever
      <4> QED BY <1>1, <4>1, RunLoopAssumption
    <3> QED BY <2>1, <3>1, AboveOne
  <2>4. StackInv' /\ \A u : PassedBy(u)' = PassedBy(u) /\ Serving(u)' = Serving(u)
    BY <1>1, <1>2, <2>1, <2>3, PopKnown
  <2> QED BY <1>1, <2>4, TimersRest
<1>5. CASE ~(Top.limit <= now)
  <2>1. stack' = Below \o <<f>>
    BY <1>5 DEF end_iteration
  <2>2. Goto(f)
    BY <2>1 DEF Goto
  <2> HIDE DEF f
  <2> QED BY <1>1, <1>2, <1>3, <2>2, GotoKeeps
<1> QED BY <1>4, <1>5

LEMMA BeginTimersKeeps == ASSUME LoopInv, begin_timers PROVE LoopInv'
<1> DEFINE f == [Top EXCEPT !.pc = "timers", !.pass = timers]
<1>1. /\ StackInv /\ Top.kind = "loop" /\ Top.pc = "events" /\ Goto(f) /\ now' = now /\ timers' = timers
      /\ timers \subseteq Timers /\ now' \in 0 .. MaxTime /\ tm' = Retain(tm, timers)
  BY DEF begin_timers, LoopInv, Snapshot
<1>2. DOMAIN Top = {"kind", "pc", "limit", "pass", "timer", "req"} /\ Top.timer = {} /\ Top.pass = {}
  BY <1>1, TopLoop
<1>3. /\ f.kind = Top.kind /\ f.limit = Top.limit /\ f.pass = timers /\ f.timer = Top.timer
      /\ DOMAIN f = DOMAIN Top /\ f.pc = "timers"
  BY <1>2
<1> HIDE DEF f
<1>4. FrameSane(f)
  BY <1>1, <1>2, <1>3 DEF FrameSane
<1>5. StackInv'
  BY <1>1, <1>3, <1>4, GotoKnown
<1>6. ASSUME NEW t \in Timers PROVE tm'[t] \in TimerRecord /\ TimerSane(t)' /\ TimerHeld(t)'
  <2>1. /\ tm[t] \in TimerRecord /\ tm[t].refs \in Nat /\ TimerSane(t) /\ TimerHeld(t)
        /\ Cardinality(PassedBy(t)) \in Nat /\ Cardinality(Serving(t)) \in Nat
    BY TimerFacts
  <2>2. /\ PassedBy(t)' = IF t \in f.pass THEN PassedBy(t) \cup {Len(stack)} ELSE PassedBy(t) \ {Len(stack)}
        /\ Serving(t)' = IF t \in f.timer THEN Serving(t) \cup {Len(stack)} ELSE Serving(t) \ {Len(stack)}
        /\ Len(stack) \in PassedBy(t) <=> t \in Top.pass
        /\ Len(stack) \in Serving(t) <=> Top.kind = "loop" /\ t \in Top.timer
    BY <1>1, <1>3, <1>4, GotoKnown
  <2>3. Serving(t)' = Serving(t) /\ Len(stack) \notin PassedBy(t)
    BY <1>2, <1>3, <2>2
  <2>4. CASE t \in timers
    <3> DEFINE y == [tm[t] EXCEPT !.refs = tm[t].refs + 1]
    <3>1. tm'[t] = y
      BY <1>1, <2>4 DEF Retain
    <3>2. /\ y \in TimerRecord /\ y.refs = tm[t].refs + 1
          /\ y.made = tm[t].made /\ y.interval = tm[t].interval /\ y.held = tm[t].held
          /\ y.due_by = tm[t].due_by /\ y.has_loop = tm[t].has_loop
          /\ y.is_running_callback = tm[t].is_running_callback
      BY <2>1, EditRefs
    <3> HIDE DEF y
    <3>3. PassedBy(t)' = PassedBy(t) \cup {Len(stack)} /\ IsFiniteSet(PassedBy(t))
      BY <1>1, <1>3, <2>2, <2>4, KnownFinite
    <3>4. Cardinality(PassedBy(t)') = Cardinality(PassedBy(t)) + 1
      BY <2>3, <3>3, CountIn
    <3>5. tm[t].has_loop /\ tm[t].due_by # None /\ tm[t].made
      BY <2>1, <2>4 DEF TimerSane
    <3>6. TimerSane(t)'
      BY <1>1, <2>1, <2>4, <3>1, <3>2, <3>5 DEF TimerSane
    <3>7. TimerHeld(t)'
      BY <1>1, <2>1, <2>3, <2>4, <3>1, <3>2, <3>4 DEF TimerHeld
    <3> QED BY <3>1, <3>2, <3>6, <3>7
  <2>5. CASE t \notin timers
    <3>1. tm'[t] = tm[t]
      BY <1>1, <2>5 DEF Retain
    <3>2. PassedBy(t)' = PassedBy(t)
      BY <1>3, <2>2, <2>3, <2>5
    <3>3. TimerSane(t)'
      BY <1>1, <2>1, <2>5, <3>1, <3>2 DEF TimerSane
    <3>4. TimerHeld(t)'
      BY <1>1, <2>1, <2>3, <2>5, <3>1, <3>2 DEF TimerHeld
    <3> QED BY <2>1, <3>1, <3>3, <3>4
  <2> QED BY <2>4, <2>5
<1>7. tm' \in [Timers -> TimerRecord]
  BY <1>1, <1>6 DEF Retain
<1> QED BY <1>1, <1>5, <1>6, <1>7 DEF LoopInv

\* The pass has looked at a timer: it lets go of it, or serves it
LEMMA PassShrinks ==
  ASSUME StackInv, AtTimers, NEW t \in Timers, t \in Top.pass, NEW f, Goto(f), f.kind = "loop", f.limit = Top.limit,
         f.pass = Top.pass \ {t}, DOMAIN f = DOMAIN Top,
         \/ f.pc = "timers" /\ f.timer = {}
         \/ f.pc = "callback" /\ f.timer = {t}
  PROVE  /\ StackInv'
         /\ \A u \in Timers \ {t} : PassedBy(u)' = PassedBy(u) /\ Serving(u)' = Serving(u)
         /\ Cardinality(PassedBy(t)') = Cardinality(PassedBy(t)) - 1
         /\ f.timer = {} => Serving(t)' = Serving(t)
         /\ f.timer = {t} => Cardinality(Serving(t)') = Cardinality(Serving(t)) + 1
         /\ PassedBy(t) # {}
<1>1. Top.kind = "loop" /\ Top.pc = "timers"
  BY DEF AtTimers
<1>2. DOMAIN Top = {"kind", "pc", "limit", "pass", "timer", "req"} /\ Top.timer = {}
  BY <1>1, TopLoop
<1>3. FrameSane(f)
  BY <1>2 DEF FrameSane
<1>4. StackInv'
  BY <1>3, GotoKnown
<1>5. ASSUME NEW u \in Timers \ {t} PROVE PassedBy(u)' = PassedBy(u) /\ Serving(u)' = Serving(u)
  <2>1. /\ PassedBy(u)' = IF u \in f.pass THEN PassedBy(u) \cup {Len(stack)} ELSE PassedBy(u) \ {Len(stack)}
        /\ Serving(u)' = IF u \in f.timer THEN Serving(u) \cup {Len(stack)} ELSE Serving(u) \ {Len(stack)}
        /\ Len(stack) \in PassedBy(u) <=> u \in Top.pass
        /\ Len(stack) \in Serving(u) <=> Top.kind = "loop" /\ u \in Top.timer
    BY <1>3, GotoKnown
  <2>2. u \notin f.timer /\ u \notin Top.timer /\ (u \in f.pass <=> u \in Top.pass)
    BY <1>2
  <2> QED BY <2>1, <2>2
<1>6. /\ PassedBy(t)' = PassedBy(t) \ {Len(stack)} /\ Len(stack) \in PassedBy(t)
      /\ Serving(t)' = IF t \in f.timer THEN Serving(t) \cup {Len(stack)} ELSE Serving(t) \ {Len(stack)}
      /\ Len(stack) \notin Serving(t)
  <2>1. /\ PassedBy(t)' = IF t \in f.pass THEN PassedBy(t) \cup {Len(stack)} ELSE PassedBy(t) \ {Len(stack)}
        /\ Serving(t)' = IF t \in f.timer THEN Serving(t) \cup {Len(stack)} ELSE Serving(t) \ {Len(stack)}
        /\ Len(stack) \in PassedBy(t) <=> t \in Top.pass
        /\ Len(stack) \in Serving(t) <=> Top.kind = "loop" /\ t \in Top.timer
    BY <1>3, GotoKnown
  <2> QED BY <1>2, <2>1
<1>7. IsFiniteSet(PassedBy(t)) /\ IsFiniteSet(Serving(t))
  BY KnownFinite
<1>8. Cardinality(PassedBy(t)') = Cardinality(PassedBy(t)) - 1
  BY <1>6, <1>7, CountIn
<1>9. Cardinality(Serving(t) \cup {Len(stack)}) = Cardinality(Serving(t)) + 1 /\ Serving(t) \ {Len(stack)} = Serving(t)
  BY <1>6, <1>7, CountIn
<1> QED BY <1>4, <1>5, <1>6, <1>8, <1>9

LEMMA IdleKeeps == ASSUME LoopInv, NEW t \in Timers, handle_timer_idle(t) PROVE LoopInv'
<1> DEFINE f == [Top EXCEPT !.pass = Top.pass \ {t}]
           y == [tm[t] EXCEPT !.refs = tm[t].refs - 1]
<1>1. /\ StackInv /\ AtTimers /\ Top.kind = "loop" /\ Top.pc = "timers" /\ t \in Top.pass /\ Goto(f)
      /\ now' = now /\ timers' = timers /\ tm' = [tm EXCEPT ![t] = y]
  BY DEF handle_timer_idle, LoopInv, AtTimers, Release
<1>2. DOMAIN Top = {"kind", "pc", "limit", "pass", "timer", "req"} /\ Top.timer = {}
  BY <1>1, TopLoop
<1>3. /\ f.kind = Top.kind /\ f.limit = Top.limit /\ f.pass = Top.pass \ {t} /\ f.timer = Top.timer
      /\ DOMAIN f = DOMAIN Top /\ f.pc = "timers"
  BY <1>1, <1>2
<1> HIDE DEF f
<1>4. /\ StackInv' /\ PassedBy(t) # {}
      /\ \A u \in Timers \ {t} : PassedBy(u)' = PassedBy(u) /\ Serving(u)' = Serving(u)
      /\ Cardinality(PassedBy(t)') = Cardinality(PassedBy(t)) - 1
      /\ Serving(t)' = Serving(t)
  BY <1>1, <1>2, <1>3, PassShrinks
<1>5. /\ tm[t] \in TimerRecord /\ tm[t].refs \in Nat /\ TimerSane(t) /\ TimerHeld(t)
      /\ Cardinality(PassedBy(t)) \in Nat /\ Cardinality(Serving(t)) \in Nat
      /\ Cardinality(PassedBy(t)) = 0 => PassedBy(t) = {}
  BY TimerFacts
<1>6. tm[t].refs - 1 \in Nat
  BY <1>4, <1>5 DEF TimerHeld
<1>m. tm[t].has_loop /\ tm[t].made
  BY <1>4, <1>5 DEF TimerSane
<1>7. /\ y \in TimerRecord /\ y.refs = tm[t].refs - 1
      /\ y.made = tm[t].made /\ y.interval = tm[t].interval /\ y.held = tm[t].held
      /\ y.due_by = tm[t].due_by /\ y.has_loop = tm[t].has_loop
      /\ y.is_running_callback = tm[t].is_running_callback
  BY <1>5, <1>6, EditRefs
<1> HIDE DEF y
<1>8. tm' \in [Timers -> TimerRecord] /\ tm'[t] = y /\ \A u \in Timers \ {t} : tm'[u] = tm[u]
  BY <1>1, <1>7, TimerBecomes
<1>9. TimerSane(t)'
  BY <1>1, <1>5, <1>m, <1>7, <1>8 DEF TimerSane
<1>10. TimerHeld(t)'
  BY <1>1, <1>4, <1>5, <1>7, <1>8 DEF TimerHeld
<1> QED BY <1>1, <1>4, <1>8, <1>9, <1>10, OneChanges

\* The first multiple of the interval that reaches now
LEMMA CeilDivFacts ==
  ASSUME NEW a \in Nat, NEW b \in Nat \ {0}
  PROVE  /\ CeilDiv(a, b) \in Nat
         /\ CeilDiv(a, b) * b >= a /\ CeilDiv(a, b) * b - b < a
<1> DEFINE c == a + b - 1  q == c \div b
<1>1. c \in Nat
  OBVIOUS
<1> HIDE DEF c
<1>2. q \in Int /\ b * q <= c /\ c < b * q + b
  BY <1>1
<1> HIDE DEF q
<1>3. q * b = b * q /\ q * b \in Int
  BY <1>2
<1>4. q * b >= a /\ q * b - b < a
  BY <1>2, <1>3 DEF c
<1>5. q >= 0
  <2>1. ASSUME q < 0 PROVE FALSE
    <3>1. q + 1 <= 0 /\ b * (q + 1) <= 0
      BY <1>2, <2>1
    <3>2. b * (q + 1) = b * q + b
      BY <1>2
    <3> QED BY <1>1, <1>2, <3>1, <3>2
  <2> QED BY <1>2, <2>1
<1>6. CeilDiv(a, b) = q
  BY DEF CeilDiv, c, q
<1> QED BY <1>2, <1>4, <1>5, <1>6

LEMMA MultipleFacts ==
  ASSUME NEW n \in Nat \ {0}, NEW b \in Nat \ {0}
  PROVE  n * b \in Nat /\ n * b > 0 /\ (n * b) % b = 0
<1>1. n * b \in Nat /\ n * b >= b
  OBVIOUS
<1>2. (n * b) % b = 0
  OBVIOUS
<1> QED BY <1>1, <1>2

LEMMA AdvanceFacts ==
  ASSUME LoopInv, NEW t \in Timers, tm[t].made, is_due(t)
  PROVE  LET i == tm[t].interval  due == tm[t].due_by  step == advance_by(t) * i
         IN  /\ step \in Nat /\ step > 0 /\ step % i = 0 /\ due + step \in Nat
             /\ due + step >= now
             /\ step = i \/ due + step - i < now
<1> DEFINE i == tm[t].interval  due == tm[t].due_by  a == now - due  n == CeilDiv(a, i)  m == advance_by(t)
<1>1. i \in Nat \ {0} /\ due \in Nat /\ now \in Nat /\ due <= now
  <2>1. TimerSane(t) /\ tm[t].interval \in Nat /\ tm[t].due_by \in Nat \cup {None} /\ now \in Nat
    BY TimerFacts
  <2> QED BY <2>1 DEF TimerSane, is_due
<1>2. m = IF n < 1 THEN 1 ELSE n
  BY DEF advance_by
<1> HIDE DEF i, due, n, m
<1>3. a \in Nat
  BY <1>1
<1>4. n \in Nat /\ n * i >= a /\ n * i - i < a
  BY <1>1, <1>3, CeilDivFacts DEF n
<1>5. m \in Nat \ {0}
  BY <1>2, <1>4
<1>6. m * i \in Nat /\ m * i > 0 /\ (m * i) % i = 0
  BY <1>1, <1>5, MultipleFacts
<1>7. CASE n < 1
  <2>1. m = 1 /\ n = 0 /\ n * i = 0
    BY <1>1, <1>2, <1>4, <1>7
  <2>2. m * i = i /\ a <= 0
    BY <1>1, <1>3, <1>4, <2>1
  <2>3. due + m * i \in Nat /\ due + m * i >= now
    BY <1>1, <1>6, <2>2
  <2> QED BY <1>6, <2>2, <2>3 DEF i, due, m
<1>8. CASE ~(n < 1)
  <2>1. m = n
    BY <1>2, <1>8
  <2>2. due + m * i \in Nat /\ due + m * i >= now /\ due + m * i - i < now
    BY <1>1, <1>4, <1>6, <2>1
  <2> QED BY <1>6, <2>2 DEF i, due, m
<1> QED BY <1>7, <1>8

\* The record of a timer whose message is about to be sent
LEMMA FiredRecord ==
  ASSUME LoopInv, NEW t \in Timers, handle_timer_fires(t), tm[t].made, tm[t].refs \in Nat
  PROVE  \E y \in TimerRecord :
           /\ tm' = [tm EXCEPT ![t] = y]
           /\ y.made = tm[t].made /\ y.held = tm[t].held /\ y.has_loop = tm[t].has_loop
           /\ y.interval = tm[t].interval /\ y.is_running_callback = TRUE
           /\ tm[t].repeats => y.refs = tm[t].refs + 1 /\ y.due_by = tm[t].due_by + advance_by(t) * tm[t].interval
           /\ ~tm[t].repeats => y.refs = tm[t].refs /\ y.due_by = None
<1> DEFINE x == tm[t]
           y0 == [x EXCEPT !.refs = x.refs + 1]
<1>1. x \in TimerRecord /\ is_due(t) /\ DOMAIN tm = Timers
  BY DEF LoopInv, handle_timer_fires
<1>n. x.refs + 1 \in Nat /\ (x.refs + 1) - 1 = x.refs
  OBVIOUS
<1>2. /\ y0 \in TimerRecord /\ y0.refs = x.refs + 1
      /\ y0.made = x.made /\ y0.interval = x.interval /\ y0.held = x.held
      /\ y0.due_by = x.due_by /\ y0.has_loop = x.has_loop
  BY <1>1, <1>n, EditRefs
<1>3. Retain(tm, {t}) = [tm EXCEPT ![t] = y0]
  BY <1>1 DEF Retain
<1>4. CASE tm[t].repeats
  <2> DEFINE d == tm[t].due_by + advance_by(t) * tm[t].interval
             y1 == [y0 EXCEPT !.due_by = d]
             y == [y1 EXCEPT !.is_running_callback = TRUE]
  <2>1. d \in Nat
    BY <1>1, AdvanceFacts
  <2>2. tm' = [Retain(tm, {t}) EXCEPT ![t].due_by = @ + advance_by(t) * tm[t].interval,
                                      ![t].is_running_callback = TRUE]
    BY <1>4 DEF handle_timer_fires
  <2> HIDE DEF y0
  <2>3. tm' = [tm EXCEPT ![t] = y]
    BY <1>1, <1>2, <1>3, <2>2
  <2> HIDE DEF d, x
  <2>4. /\ y1 \in TimerRecord /\ y1.due_by = d
        /\ y1.made = y0.made /\ y1.held = y0.held
        /\ y1.interval = y0.interval /\ y1.refs = y0.refs /\ y1.has_loop = y0.has_loop
    BY <1>2, <2>1, EditDue
  <2> HIDE DEF y1
  <2>5. /\ y \in TimerRecord /\ y.is_running_callback = TRUE
        /\ y.made = y1.made /\ y.held = y1.held
        /\ y.interval = y1.interval /\ y.due_by = y1.due_by /\ y.refs = y1.refs
        /\ y.has_loop = y1.has_loop
    BY <2>4, EditFlags
  <2> HIDE DEF y
  <2> QED BY <1>2, <1>4, <2>3, <2>4, <2>5 DEF x, d
<1>5. CASE ~tm[t].repeats
  <2> DEFINE y1 == [y0 EXCEPT !.refs = x.refs]
             y2 == [y1 EXCEPT !.due_by = None]
             y == [y2 EXCEPT !.is_running_callback = TRUE]
  <2>1. tm' = [remove_timer(Retain(tm, {t}), t) EXCEPT ![t].due_by = None, ![t].is_running_callback = TRUE]
    BY <1>5 DEF handle_timer_fires
  <2> HIDE DEF y0
  <2>2. remove_timer(Retain(tm, {t}), t) = [tm EXCEPT ![t] = y1]
    <3>1. y0.refs - 1 = x.refs
      BY <1>2, <1>n
    <3> DEFINE z == [tm EXCEPT ![t] = y0]
    <3>2. z[t] = y0 /\ [z EXCEPT ![t] = y1] = [tm EXCEPT ![t] = y1]
      BY <1>1
    <3>3. remove_timer(z, t) = [z EXCEPT ![t] = [z[t] EXCEPT !.refs = z[t].refs - 1]]
      BY DEF remove_timer, Release
    <3> QED BY <1>3, <3>1, <3>2, <3>3
  <2>3. tm' = [tm EXCEPT ![t] = y]
    BY <1>1, <2>1, <2>2
  <2> HIDE DEF x
  <2>4. /\ y1 \in TimerRecord /\ y1.refs = x.refs
        /\ y1.made = y0.made /\ y1.held = y0.held
        /\ y1.interval = y0.interval /\ y1.has_loop = y0.has_loop
    BY <1>2, EditRefs DEF x
  <2> HIDE DEF y1
  <2>5. /\ y2 \in TimerRecord /\ y2.due_by = None
        /\ y2.made = y1.made /\ y2.held = y1.held
        /\ y2.interval = y1.interval /\ y2.refs = y1.refs /\ y2.has_loop = y1.has_loop
    BY <2>4, EditDue
  <2> HIDE DEF y2
  <2>6. /\ y \in TimerRecord /\ y.is_running_callback = TRUE
        /\ y.made = y2.made /\ y.held = y2.held
        /\ y.interval = y2.interval /\ y.due_by = y2.due_by /\ y.refs = y2.refs
        /\ y.has_loop = y2.has_loop
    BY <2>5, EditFlags
  <2> HIDE DEF y
  <2> QED BY <1>2, <1>5, <2>3, <2>4, <2>5, <2>6 DEF x
<1> QED BY <1>4, <1>5

LEMMA FiresKeeps == ASSUME LoopInv, NEW t \in Timers, handle_timer_fires(t) PROVE LoopInv'
<1> DEFINE f == [Top EXCEPT !.pc = "callback", !.pass = Top.pass \ {t}, !.timer = {t}]
<1>1. /\ StackInv /\ AtTimers /\ Top.kind = "loop" /\ Top.pc = "timers" /\ t \in Top.pass /\ Goto(f) /\ is_due(t)
      /\ now' = now /\ timers' = IF tm[t].repeats THEN timers ELSE timers \ {t}
  BY DEF handle_timer_fires, LoopInv, AtTimers
<1>2. DOMAIN Top = {"kind", "pc", "limit", "pass", "timer", "req"}
  BY <1>1, TopLoop
<1>3. /\ f.kind = Top.kind /\ f.limit = Top.limit /\ f.pass = Top.pass \ {t} /\ f.timer = {t}
      /\ DOMAIN f = DOMAIN Top /\ f.pc = "callback"
  BY <1>2
<1> HIDE DEF f
<1>4. /\ StackInv' /\ PassedBy(t) # {}
      /\ \A u \in Timers \ {t} : PassedBy(u)' = PassedBy(u) /\ Serving(u)' = Serving(u)
      /\ Cardinality(PassedBy(t)') = Cardinality(PassedBy(t)) - 1
      /\ Cardinality(Serving(t)') = Cardinality(Serving(t)) + 1
  BY <1>1, <1>3, PassShrinks
<1>5. /\ tm[t] \in TimerRecord /\ tm[t].refs \in Nat /\ TimerSane(t) /\ TimerHeld(t)
      /\ Cardinality(PassedBy(t)) \in Nat /\ Cardinality(Serving(t)) \in Nat /\ tm[t].repeats \in BOOLEAN
      /\ tm[t].due_by \in Nat \cup {None} /\ now \in Nat
  BY TimerFacts
<1>6. tm[t].has_loop /\ tm[t].made /\ t \in timers /\ tm[t].interval > 0 /\ tm[t].due_by \in Nat
  BY <1>1, <1>4, <1>5 DEF TimerSane, is_due
<1>7. Cardinality(Serving(t)) = 0
  BY <1>1, <1>5 DEF TimerHeld, is_due
<1>8. tm[t].due_by + advance_by(t) * tm[t].interval \in Nat
  BY <1>1, <1>6, AdvanceFacts
<1>9. PICK y \in TimerRecord :
           /\ tm' = [tm EXCEPT ![t] = y]
           /\ y.made = tm[t].made /\ y.held = tm[t].held /\ y.has_loop = tm[t].has_loop
           /\ y.interval = tm[t].interval /\ y.is_running_callback = TRUE
           /\ tm[t].repeats => y.refs = tm[t].refs + 1 /\ y.due_by = tm[t].due_by + advance_by(t) * tm[t].interval
           /\ ~tm[t].repeats => y.refs = tm[t].refs /\ y.due_by = None
  BY <1>5, <1>6, FiredRecord
<1>10. tm' \in [Timers -> TimerRecord] /\ tm'[t] = y /\ \A u \in Timers \ {t} : tm'[u] = tm[u]
  BY <1>9, TimerBecomes
<1>11. tm[t].repeats => y.due_by \in Nat
  BY <1>8, <1>9
<1>12. t \in timers' <=> tm[t].repeats
  BY <1>1, <1>6
<1>13. TimerSane(t)'
  <2>1. tm'[t].made /\ tm'[t].has_loop /\ tm'[t].interval > 0
    BY <1>6, <1>9, <1>10
  <2>2. t \in timers' <=> tm'[t].due_by # None
    BY <1>5, <1>9, <1>10, <1>11, <1>12 DEF None
  <2> QED BY <2>1, <2>2 DEF TimerSane
<1>14. TimerHeld(t)'
  BY <1>4, <1>5, <1>6, <1>7, <1>9, <1>10, <1>12 DEF TimerHeld
<1> QED BY <1>1, <1>4, <1>10, <1>13, <1>14, OneChanges

LEMMA CallbackKeeps == ASSUME LoopInv, timer_callback_returns PROVE LoopInv'
<1> DEFINE f == [Top EXCEPT !.pc = "timers", !.timer = {}]
<1>1. /\ StackInv /\ Top.kind = "loop" /\ Top.pc = "callback" /\ Goto(f)
      /\ now' = now /\ timers' = timers /\ \E t \in Top.timer : tm' = CallbackDone(t)
  BY DEF timer_callback_returns, LoopInv
<1>2. DOMAIN Top = {"kind", "pc", "limit", "pass", "timer", "req"} /\ \E t \in Timers : Top.timer = {t}
  BY <1>1, TopLoop
<1>3. PICK t \in Timers : Top.timer = {t}
  BY <1>2
<1>4. tm' = CallbackDone(t)
  BY <1>1, <1>3
<1>5. /\ f.kind = Top.kind /\ f.limit = Top.limit /\ f.pass = Top.pass /\ f.timer = {}
      /\ DOMAIN f = DOMAIN Top /\ f.pc = "timers"
  BY <1>2
<1> HIDE DEF f
<1>6. FrameSane(f)
  BY <1>1, <1>2, <1>5 DEF FrameSane
<1>7. StackInv'
  BY <1>1, <1>5, <1>6, GotoKnown
<1>8. ASSUME NEW u
      PROVE  PassedBy(u)' = PassedBy(u) /\ Serving(u)' = Serving(u) \ {Len(stack)}
             /\ (Len(stack) \in Serving(u) <=> u = t)
  <2>1. /\ PassedBy(u)' = IF u \in f.pass THEN PassedBy(u) \cup {Len(stack)} ELSE PassedBy(u) \ {Len(stack)}
        /\ Serving(u)' = IF u \in f.timer THEN Serving(u) \cup {Len(stack)} ELSE Serving(u) \ {Len(stack)}
        /\ Len(stack) \in PassedBy(u) <=> u \in Top.pass
        /\ Len(stack) \in Serving(u) <=> Top.kind = "loop" /\ u \in Top.timer
    BY <1>1, <1>5, <1>6, GotoKnown
  <2> QED BY <1>1, <1>3, <1>5, <2>1
<1>9. \A u \in Timers \ {t} : PassedBy(u)' = PassedBy(u) /\ Serving(u)' = Serving(u)
  BY <1>8
<1>10. Cardinality(Serving(t)') = Cardinality(Serving(t)) - 1 /\ PassedBy(t)' = PassedBy(t) /\ Serving(t) # {}
  <2>1. IsFiniteSet(Serving(t))
    BY <1>1, KnownFinite
  <2>2. Serving(t)' = Serving(t) \ {Len(stack)} /\ Len(stack) \in Serving(t) /\ PassedBy(t)' = PassedBy(t)
    BY <1>8
  <2> QED BY <2>1, <2>2, CountIn
<1>11. /\ tm[t] \in TimerRecord /\ tm[t].refs \in Nat /\ TimerSane(t) /\ TimerHeld(t)
       /\ Cardinality(PassedBy(t)) \in Nat /\ Cardinality(Serving(t)) \in Nat
  BY TimerFacts
<1>12. Cardinality(Serving(t)) = 1
  <2>1. IsFiniteSet(Serving(t))
    BY <1>1, KnownFinite
  <2>2. Cardinality(Serving(t)) # 0
    BY <1>10, <2>1, FS_EmptySet
  <2> QED BY <1>11, <2>2 DEF TimerHeld
<1>13. tm[t].refs >= 2 /\ tm[t].refs - 2 \in Nat /\ tm[t].made
  BY <1>11, <1>12 DEF TimerHeld, TimerSane
<1> DEFINE x == tm[t]
           y1 == [x EXCEPT !.refs = x.refs - 2]
           y == [y1 EXCEPT !.is_running_callback = FALSE]
<1>14. tm' = [tm EXCEPT ![t] = y]
  <2> DEFINE w == [x EXCEPT !.refs = x.refs - 1]
  <2>1. x \in TimerRecord /\ DOMAIN tm = Timers /\ x.refs - 1 \in Nat
    BY <1>11, <1>13 DEF LoopInv
  <2>2. w.refs = x.refs - 1
    BY <2>1, EditRefs
  <2>3. Release(tm, t) = [tm EXCEPT ![t] = w]
    BY <2>1 DEF Release
  <2>4. [w EXCEPT !.refs = w.refs - 1] = y1
    <3>1. w.refs - 1 = x.refs - 2
      BY <2>2, <1>11
    <3>2. [w EXCEPT !.refs = x.refs - 2] = y1
      BY <2>1 DEF TimerRecord
    <3> QED BY <3>1, <3>2
  <2> HIDE DEF w, y1, x
  <2>5. Release(Release(tm, t), t) = [tm EXCEPT ![t] = y1]
    <3> DEFINE z == [tm EXCEPT ![t] = w]
    <3>1. z[t] = w /\ [z EXCEPT ![t] = y1] = [tm EXCEPT ![t] = y1]
      BY <2>1
    <3>2. Release(z, t) = [z EXCEPT ![t] = [z[t] EXCEPT !.refs = z[t].refs - 1]]
      BY DEF Release
    <3> QED BY <2>3, <2>4, <3>1, <3>2
  <2> QED BY <1>4, <2>1, <2>5 DEF CallbackDone
<1>15. /\ y1 \in TimerRecord /\ y1.refs = tm[t].refs - 2
      /\ y1.made = tm[t].made /\ y1.interval = tm[t].interval /\ y1.held = tm[t].held
      /\ y1.due_by = tm[t].due_by /\ y1.has_loop = tm[t].has_loop
  BY <1>11, <1>13, EditRefs
<1> HIDE DEF y1
<1>16. /\ y \in TimerRecord /\ y.held = y1.held /\ y.refs = y1.refs
      /\ y.made = y1.made /\ y.interval = y1.interval
      /\ y.due_by = y1.due_by /\ y.has_loop = y1.has_loop
      /\ y.is_running_callback = FALSE
  BY <1>15, EditFlags
<1> HIDE DEF y
<1>17. tm' \in [Timers -> TimerRecord] /\ tm'[t] = y /\ \A u \in Timers \ {t} : tm'[u] = tm[u]
  BY <1>14, <1>16, TimerBecomes
<1>18. TimerSane(t)'
  BY <1>1, <1>10, <1>11, <1>13, <1>15, <1>16, <1>17 DEF TimerSane
<1>19. TimerHeld(t)'
  BY <1>1, <1>10, <1>11, <1>12, <1>13, <1>15, <1>16, <1>17 DEF TimerHeld
<1> QED BY <1>1, <1>7, <1>9, <1>17, <1>18, <1>19, OneChanges

-----------------------------------------------------------------------------
(***************************************************************************)
(* Cancellations, and every step.                                          *)
(***************************************************************************)
LEMMA CancelSane ==
  ASSUME NEW sel, NEW n, NEW rest, NEW kept
  PROVE  LET f == CancelFrame(sel, n, rest, kept) IN FrameSane(f) /\ f.pass = {} /\ f.kind = "cancel"
BY DEF CancelFrame, FrameSane

\* One cancellation gives way to another
LEMMA ReplaceKnown ==
  ASSUME StackInv, Len(stack) > 1, Top.pass = {}, Top.kind = "cancel",
         NEW f, FrameSane(f), f.pass = {}, f.kind = "cancel", stack' = Append(Below, f)
  PROVE  StackInv' /\ \A t : PassedBy(t)' = PassedBy(t) /\ Serving(t)' = Serving(t)
<1>1. /\ IsStack(Below) /\ Len(Below) = Len(stack) - 1 /\ Len(stack) \in Nat \ {0}
      /\ \A i \in 1 .. Len(stack) - 1 : Below[i] = stack[i]
  BY PopFacts DEF StackInv, Below
<1>2. /\ IsStack(stack') /\ Len(stack') = Len(Below) + 1
      /\ \A i \in 1 .. Len(Below) : stack'[i] = Below[i]
      /\ stack'[Len(Below) + 1] = f
  BY <1>1, PushFacts
<1>3. Len(stack') = Len(stack) /\ stack'[Len(stack)] = f
  BY <1>1, <1>2
<1>4. \A i \in 1 .. Len(stack) - 1 : stack'[i] = stack[i]
  BY <1>1, <1>2
<1>5. Frames' = Frames /\ Len(stack) \in Frames
  BY <1>1, <1>3 DEF Frames
<1>6. \A i \in Frames : stack'[i] = IF i = Len(stack) THEN f ELSE stack[i]
  BY <1>1, <1>3, <1>4 DEF Frames
<1>7. StackInv'
  <2>1. \A i \in Frames : FrameSane(stack'[i])
    BY <1>6 DEF StackInv
  <2>2. (\A i \in Frames : FrameSane(stack[i]))'
    BY <1>5, <2>1 DEF FrameSane
  <2>3. 1 \in 1 .. Len(stack) - 1
    BY <1>1
  <2>4. stack'[1].kind = "loop" /\ stack'[1].limit = Forever
    BY <1>4, <2>3 DEF StackInv
  <2>5. Len(stack') \in 1 .. MaxDepth
    BY <1>3 DEF StackInv
  <2> QED BY <1>2, <2>2, <2>4, <2>5 DEF StackInv, Forever
<1>8. ASSUME NEW t PROVE PassedBy(t)' = PassedBy(t) /\ Serving(t)' = Serving(t)
  BY <1>5, <1>6 DEF PassedBy, Serving, Top
<1> QED BY <1>7, <1>8

LEMMA ScanCases ==
  ASSUME NEW below, NEW q, NEW kept, NEW sel, NEW n, NEW dropped, scan(below, q, kept, sel, n, dropped)
  PROVE  /\ UNCHANGED <<now, tm, timers>>
         /\ \/ stack' = below
            \/ \E r, k : stack' = Append(below, CancelFrame(sel, n, r, k))
BY DEF scan

LEMMA CancelKeeps ==
  ASSUME LoopInv, NEW sel, NEW n, cancel_perform_requests(sel, n) PROVE LoopInv'
<1>1. MayNest /\ scan(stack, requests, <<>>, sel, n, {})
  BY DEF cancel_perform_requests
<1>2. /\ UNCHANGED <<now, tm, timers>>
      /\ stack' = stack \/ \E r, k : stack' = Append(stack, CancelFrame(sel, n, r, k))
  BY <1>1, ScanCases
<1>3. CASE stack' = stack
  <2>1. now' \in 0 .. MaxTime
    BY <1>2 DEF LoopInv
  <2> QED BY <1>2, <1>3, <2>1, StutterKeeps
<1>4. CASE \E r, k : stack' = Append(stack, CancelFrame(sel, n, r, k))
  <2>1. PICK r, k : stack' = Append(stack, CancelFrame(sel, n, r, k))
    BY <1>4
  <2> DEFINE f == CancelFrame(sel, n, r, k)
  <2>2. FrameSane(f) /\ f.pass = {} /\ f.kind = "cancel"
    BY CancelSane
  <2>3. Len(stack) < MaxDepth /\ stack' = Append(stack, f)
    BY <1>1, <2>1 DEF MayNest
  <2> HIDE DEF f
  <2> QED BY <1>2, <2>2, <2>3, PushKeeps
<1> QED BY <1>2, <1>3, <1>4

LEMMA IsEqualKeeps ==
  ASSUME LoopInv, NEW equal, isEqual_returns(equal) PROVE LoopInv'
<1>1. Top.kind = "cancel" /\ StackInv /\ now \in 0 .. MaxTime
  BY DEF isEqual_returns, LoopInv
<1>2. Top.pass = {} /\ Len(stack) > 1
  <2>1. FrameSane(Top) /\ (Len(stack) = 1 => Top.kind = "loop")
    BY <1>1, TopSane
  <2>2. Top.pass = {}
    BY <1>1, <2>1 DEF FrameSane
  <2>3. Len(stack) \in Nat \ {0}
    BY <1>1, RunLoopAssumption DEF StackInv
  <2>4. Len(stack) # 1
    BY <1>1, <2>1
  <2> QED BY <2>2, <2>3, <2>4, AboveOne
<1>3. \E q, kept, dropped : scan(Below, q, kept, Top.sel, Top.is_nil, dropped)
  BY DEF isEqual_returns
<1>4. /\ UNCHANGED <<now, tm, timers>>
      /\ stack' = Below \/ \E r, k : stack' = Append(Below, CancelFrame(Top.sel, Top.is_nil, r, k))
  BY <1>3, ScanCases
<1>5. CASE stack' = Below
  <2>1. StackInv' /\ \A u : PassedBy(u)' = PassedBy(u) /\ Serving(u)' = Serving(u)
    BY <1>1, <1>2, <1>5, PopKnown
  <2> QED BY <1>1, <1>4, <2>1, TimersRest
<1>6. CASE \E r, k : stack' = Append(Below, CancelFrame(Top.sel, Top.is_nil, r, k))
  <2>1. PICK r, k : stack' = Append(Below, CancelFrame(Top.sel, Top.is_nil, r, k))
    BY <1>6
  <2> DEFINE f == CancelFrame(Top.sel, Top.is_nil, r, k)
  <2>2. FrameSane(f) /\ f.pass = {} /\ f.kind = "cancel" /\ stack' = Append(Below, f)
    BY <2>1, CancelSane
  <2> HIDE DEF f
  <2>3. StackInv' /\ \A u : PassedBy(u)' = PassedBy(u) /\ Serving(u)' = Serving(u)
    BY <1>1, <1>2, <2>2, ReplaceKnown
  <2> QED BY <1>1, <1>4, <2>3, TimersRest
<1> QED BY <1>4, <1>5, <1>6

LEMMA TimerCallKeeps == ASSUME LoopInv, TimerCall PROVE LoopInv'
<1>1. PICK t \in Timers :
        \/ \E i \in Intervals, repeats \in BOOLEAN : timerWithTimeInterval(t, i, repeats)
        \/ \E i \in Intervals : set_time_interval(t, i)
        \/ guest_releases(t) \/ addTimer(t) \/ invalidate(t) \/ fire(t)
  BY DEF TimerCall
<1> QED BY <1>1, MakeKeeps, IntervalKeeps, ReleaseKeeps, AddKeeps, InvalidateKeeps, FireKeeps

LEMMA LoopStepKeeps == ASSUME LoopInv, loop_step PROVE LoopInv'
BY BeginTimersKeeps, AudioKeeps, BeginRequestsKeeps, IdleKeeps, FiresKeeps, RunRequestKeeps, EndIterationKeeps
DEF loop_step

LEMMA GuestReturnsKeeps == ASSUME LoopInv, guest_returns PROVE LoopInv'
BY CallbackKeeps, FireReturnKeeps, PerformReturnKeeps, IsEqualKeeps DEF guest_returns

LEMMA SendKeeps == ASSUME LoopInv, DelayCall \/ OtherThread PROVE LoopInv'
<1>1. UNCHANGED <<now, tm, timers, stack>>
  BY DEF DelayCall, OtherThread, performSelectorAfterDelay, performSelectorOnMainThread, add_perform_request
<1>2. now' \in 0 .. MaxTime
  BY <1>1 DEF LoopInv
<1> QED BY <1>1, <1>2, StutterKeeps

LEMMA LoopStep == LoopInv /\ [Next]_vars => LoopInv'
<1> SUFFICES ASSUME LoopInv, [Next]_vars PROVE LoopInv'
  OBVIOUS
<1>1. CASE loop_step
  BY <1>1, LoopStepKeeps
<1>2. CASE guest_returns
  BY <1>2, GuestReturnsKeeps
<1>3. CASE tick
  <2>1. UNCHANGED <<tm, timers, stack>> /\ now' \in 0 .. MaxTime
    BY <1>3, RunLoopAssumption DEF tick, LoopInv
  <2> QED BY <2>1, StutterKeeps
<1>4. CASE TimerCall
  BY <1>4, TimerCallKeeps
<1>5. CASE NestCall
  BY <1>5, RunKeeps DEF NestCall
<1>6. CASE CancelCall
  BY <1>6, CancelKeeps DEF CancelCall
<1>7. CASE DelayCall \/ OtherThread
  BY <1>7, SendKeeps
<1>8. CASE UNCHANGED vars
  <2>1. UNCHANGED <<tm, timers, stack>> /\ now' \in 0 .. MaxTime
    BY <1>8 DEF vars, LoopInv
  <2> QED BY <2>1, StutterKeeps
<1> QED BY <1>1, <1>2, <1>3, <1>4, <1>5, <1>6, <1>7, <1>8 DEF Next

LEMMA LoopInvSound == LoopInv => LoopSound
<1> SUFFICES ASSUME LoopInv PROVE LoopSound
  OBVIOUS
<1>1. TypeOK
  <2>1. ASSUME NEW i \in Frames PROVE Cardinality(stack[i].timer) <= 1
    <3>1. FrameSane(stack[i])
      BY DEF LoopInv, StackInv
    <3>2. stack[i].timer = {} \/ \E t \in Timers : stack[i].timer = {t}
      BY <3>1 DEF FrameSane
    <3>3. CASE stack[i].timer = {}
      BY <3>3, FS_EmptySet
    <3>4. CASE \E t \in Timers : stack[i].timer = {t}
      <4>1. Cardinality(stack[i].timer) = 1
        BY <3>4, FS_Singleton
      <4> QED BY <4>1
    <3> QED BY <3>2, <3>3, <3>4
  <2>2. \A t \in Timers : tm[t].refs \in Nat /\ tm[t].due_by \in {None} \cup Nat
    BY TimerFacts
  <2> QED BY <2>1, <2>2 DEF TypeOK, LoopInv, StackInv, Frames
<1>2. RefsExact
  BY DEF LoopInv, RefsExact, TimerHeld, PassedBy
<1>3. TimersValid
  BY DEF LoopInv, TimersValid, TimerSane, TimerHeld
<1> QED BY <1>1, <1>2, <1>3 DEF LoopSound

\* Whatever the guest does inside the loop, with any number of timers and any nesting: every
\* reference to a timer is accounted for, the loop owns exactly the valid timers, and the flag
\* that keeps a timer from firing inside its own message is set exactly then.
THEOREM LoopAlwaysSound == Spec => []LoopSound
<1>1. Spec => []LoopInv
  BY LoopInit, LoopStep, PTL DEF Spec
<1> QED BY <1>1, LoopInvSound, PTL

-----------------------------------------------------------------------------
(***************************************************************************)
(* The times a timer fires at.                                             *)
(***************************************************************************)
\* Does this step move the time of a timer that has one to another time?
Moved(t) == tm[t].due_by # None /\ tm'[t].due_by # None /\ tm'[t].due_by # tm[t].due_by

\* Only the loop does
LEMMA MovedByLoop ==
  ASSUME LoopInv, [Next]_vars, NEW t \in Timers, Moved(t)
  PROVE  handle_timer_fires(t)
<1>1. tm[t] \in TimerRecord /\ DOMAIN tm = Timers /\ TimerSane(t)
  BY DEF LoopInv
<1>2. tm' # tm
  BY DEF Moved
<1>3. CASE loop_step
  <2>1. ~begin_audio /\ ~begin_requests /\ ~run_request /\ ~end_iteration
    BY <1>2 DEF begin_audio, begin_requests, run_request, end_iteration
  <2>2. ~begin_timers
    <3>1. ASSUME begin_timers PROVE FALSE
      <4>1. tm'[t] = IF t \in timers THEN [tm[t] EXCEPT !.refs = @ + 1] ELSE tm[t]
        BY <3>1 DEF begin_timers, Snapshot, Retain
      <4>2. tm'[t].due_by = tm[t].due_by
        BY <1>1, <4>1 DEF TimerRecord
      <4> QED BY <4>2 DEF Moved
    <3> QED BY <3>1
  <2>3. ASSUME NEW u \in Timers PROVE ~handle_timer_idle(u)
    <3>1. ASSUME handle_timer_idle(u) PROVE FALSE
      <4>1. tm' = [tm EXCEPT ![u].refs = @ - 1]
        BY <3>1 DEF handle_timer_idle, Release
      <4>2. tm'[t].due_by = tm[t].due_by
        BY <1>1, <4>1 DEF TimerRecord
      <4> QED BY <4>2 DEF Moved
    <3> QED BY <3>1
  <2>4. ASSUME NEW u \in Timers, u # t PROVE ~handle_timer_fires(u)
    <3>1. ASSUME handle_timer_fires(u) PROVE FALSE
      <4>1. tm'[t] = tm[t]
        BY <1>1, <2>4, <3>1 DEF handle_timer_fires, Retain, remove_timer, Release
      <4> QED BY <4>1 DEF Moved
    <3> QED BY <3>1
  <2> QED BY <1>3, <2>1, <2>2, <2>3, <2>4 DEF loop_step
<1>4. CASE guest_returns
  <2>1. ~perform_returns /\ \A equal : ~isEqual_returns(equal)
    BY <1>2 DEF perform_returns, isEqual_returns, scan
  <2>2. ~timer_callback_returns
    <3>1. ASSUME timer_callback_returns PROVE FALSE
      <4>1. PICK u : tm' = CallbackDone(u)
        BY <3>1 DEF timer_callback_returns
      <4>2. tm'[t].due_by = tm[t].due_by
        BY <1>1, <4>1 DEF CallbackDone, Release, TimerRecord
      <4> QED BY <4>2 DEF Moved
    <3> QED BY <3>1
  <2>3. ~fire_returns
    <3>1. ASSUME fire_returns PROVE FALSE
      <4>1. PICK u : tm' = Invalidated(tm, u)
        BY <1>2, <3>1 DEF fire_returns
      <4>2. tm'[t].due_by = tm[t].due_by \/ tm'[t].due_by = None
        BY <1>1, <4>1 DEF Invalidated, remove_timer, Release, TimerRecord
      <4> QED BY <4>2 DEF Moved
    <3> QED BY <3>1
  <2> QED BY <1>4, <2>1, <2>2, <2>3 DEF guest_returns
<1>5. CASE TimerCall
  <2>1. PICK u \in Timers :
          \/ \E i \in Intervals, repeats \in BOOLEAN : timerWithTimeInterval(u, i, repeats)
          \/ \E i \in Intervals : set_time_interval(u, i)
          \/ guest_releases(u) \/ addTimer(u) \/ invalidate(u) \/ fire(u)
    BY <1>5 DEF TimerCall
  <2>2. ASSUME NEW i, NEW b, timerWithTimeInterval(u, i, b) PROVE FALSE
    <3>1. ~tm[u].made /\ \A v \in Timers \ {u} : tm'[v] = tm[v]
      BY <1>1, <2>2 DEF timerWithTimeInterval
    <3>2. t = u
      BY <3>1 DEF Moved
    <3> QED BY <1>1, <3>1, <3>2 DEF TimerSane, Moved
  <2>3. ASSUME NEW i, set_time_interval(u, i) PROVE FALSE
    <3>1. tm'[t].due_by = tm[t].due_by
      BY <1>1, <2>3 DEF set_time_interval, TimerRecord
    <3> QED BY <3>1 DEF Moved
  <2>4. ASSUME guest_releases(u) PROVE FALSE
    <3>1. tm'[t].due_by = tm[t].due_by
      BY <1>1, <2>4 DEF guest_releases, Release, TimerRecord
    <3> QED BY <3>1 DEF Moved
  <2>5. ASSUME addTimer(u) PROVE FALSE
    <3>1. tm'[t].due_by = tm[t].due_by
      BY <1>1, <2>5 DEF addTimer, Retain, TimerRecord
    <3> QED BY <3>1 DEF Moved
  <2>6. ASSUME invalidate(u) PROVE FALSE
    <3>1. tm' = Invalidated(tm, u)
      BY <1>2, <2>6 DEF invalidate
    <3>2. tm'[t].due_by = tm[t].due_by \/ tm'[t].due_by = None
      BY <1>1, <3>1 DEF Invalidated, remove_timer, Release, TimerRecord
    <3> QED BY <3>2 DEF Moved
  <2>7. ~fire(u)
    BY <1>2 DEF fire
  <2> QED BY <2>1, <2>2, <2>3, <2>4, <2>5, <2>6, <2>7
<1>6. ~tick /\ ~NestCall /\ ~CancelCall /\ ~DelayCall /\ ~OtherThread /\ ~UNCHANGED vars
  BY <1>2 DEF tick, NestCall, run_run_loop, CancelCall, cancel_perform_requests, scan, DelayCall, OtherThread,
              performSelectorAfterDelay, performSelectorOnMainThread, add_perform_request, vars
<1> QED BY <1>3, <1>4, <1>5, <1>6 DEF Next

LEMMA MovedRight ==
  ASSUME LoopInv, [Next]_vars, NEW t \in Timers, Moved(t)
  PROVE  LET step == tm'[t].due_by - tm[t].due_by
         IN  /\ step % tm[t].interval = 0 /\ step > 0
             /\ tm'[t].due_by >= now
             /\ step = tm[t].interval \/ tm'[t].due_by - tm[t].interval < now
<1>1. handle_timer_fires(t)
  BY MovedByLoop
<1>2. /\ TimerSane(t) /\ tm[t].refs \in Nat /\ is_due(t) /\ tm[t].repeats \in BOOLEAN
      /\ tm[t].due_by \in Nat \cup {None} /\ tm[t].interval \in Nat /\ now \in Nat
  BY <1>1, TimerFacts DEF handle_timer_fires
<1>3. tm[t].made /\ tm[t].due_by \in Nat
  BY <1>2 DEF TimerSane, Moved
<1>4. tm'[t].due_by = tm[t].due_by + advance_by(t) * tm[t].interval
  <2>1. PICK y \in TimerRecord :
           /\ tm' = [tm EXCEPT ![t] = y]
           /\ tm[t].repeats => y.due_by = tm[t].due_by + advance_by(t) * tm[t].interval
           /\ ~tm[t].repeats => y.due_by = None
    BY <1>1, <1>2, <1>3, FiredRecord
  <2>2. tm'[t] = y
    BY <2>1, TimerBecomes
  <2> QED BY <1>2, <2>1, <2>2 DEF Moved
<1> DEFINE s == advance_by(t) * tm[t].interval
<1>5. /\ s \in Nat /\ s > 0 /\ s % tm[t].interval = 0 /\ tm[t].due_by + s \in Nat
      /\ tm[t].due_by + s >= now
      /\ s = tm[t].interval \/ tm[t].due_by + s - tm[t].interval < now
  BY <1>2, <1>3, AdvanceFacts
<1> HIDE DEF s
<1>6. tm'[t].due_by = tm[t].due_by + s
  BY <1>4 DEF s
<1>7. tm'[t].due_by - tm[t].due_by = s
  BY <1>3, <1>5, <1>6
<1>8. (tm'[t].due_by - tm[t].due_by) % tm[t].interval = 0 /\ tm'[t].due_by - tm[t].due_by > 0
  BY <1>5, <1>7, Zenon
<1>9. tm'[t].due_by >= now
  BY <1>5, <1>6, Zenon
<1>10. tm'[t].due_by - tm[t].due_by = tm[t].interval \/ tm'[t].due_by - tm[t].interval < now
  <2>1. CASE s = tm[t].interval
    BY <1>7, <2>1
  <2>2. CASE tm[t].due_by + s - tm[t].interval < now
    BY <1>2, <1>3, <1>5, <1>6, <2>2
  <2> QED BY <1>5, <2>1, <2>2
<1> QED BY <1>8, <1>9, <1>10

\* A timer fires at multiples of its interval after the time it should have fired at, and
\* however late the loop comes to it it skips the times that have passed.
THEOREM TimersDoNotDrift == Spec => NoDrift
<1>1. Spec => []LoopInv
  BY LoopInit, LoopStep, PTL DEF Spec
<1>2. LoopInv /\ [Next]_vars
      => [\A t \in Timers :
            tm[t].due_by # None /\ tm'[t].due_by # None /\ tm'[t].due_by # tm[t].due_by
              => LET step == tm'[t].due_by - tm[t].due_by
                 IN  /\ step % tm[t].interval = 0 /\ step > 0
                     /\ tm'[t].due_by >= now
                     /\ step = tm[t].interval \/ tm'[t].due_by - tm[t].interval < now]_vars
  BY MovedRight DEF Moved
<1> QED BY <1>1, <1>2, PTL DEF Spec, NoDrift
-----------------------------------------------------------------------------
(***************************************************************************)
(* Perform requests: the queue and what cancellations hold.                *)
(***************************************************************************)
Ids(q) == {q[i].id : i \in 1 .. Len(q)}
\* A queue that lists no request twice
Listed(q) == IsStack(q) /\ \A i, j \in 1 .. Len(q) : q[i].id = q[j].id => i = j
HeldBy(c) == Ids(c.rest) \cup Ids(c.kept)
HoldSane(c) == Listed(c.rest) /\ Listed(c.kept) /\ Ids(c.rest) \cap Ids(c.kept) = {} /\ c.rest # <<>>
Pending == {r \in Requests : fate[r] = "pending"}
Settled == {r \in Requests : fate[r] \notin {"unsent", "pending"}}
Performing(c) == c.kind = "loop" /\ c.pc = "perform"
Fates == {"unsent", "pending", "running", "done", "cancelled"}
FateRests == Pending' = Pending /\ Settled' = Settled /\ fate' \in [Requests -> Fates]
\* What is listed is pending and nowhere else; what is performed is not listed
RequestsInv ==
  /\ fate \in [Requests -> Fates]
  /\ Listed(requests) /\ Ids(requests) \subseteq Pending
  /\ \A f \in CancelFrames : HoldSane(stack[f]) /\ HeldBy(stack[f]) \subseteq Pending \ Ids(requests)
  /\ \A f, g \in CancelFrames : f # g => HeldBy(stack[f]) \cap HeldBy(stack[g]) = {}
  /\ \A f \in Frames : Performing(stack[f]) => \E r \in Settled : stack[f].req = <<r>>
\* Nothing is lost while a cancellation that took the queue away finds it empty when it ends
QuietInv ==
  /\ \A f, g \in CancelFrames : f = g
  /\ CancelFrames # {} => requests = <<>>
  /\ Pending \subseteq Ids(requests) \cup UNION {HeldBy(stack[f]) : f \in CancelFrames}

LEMMA SliceFacts ==
  ASSUME NEW q, Listed(q), NEW m \in 1 .. Len(q) + 1, NEW n \in m - 1 .. Len(q)
  PROVE  /\ Listed(SubSeq(q, m, n)) /\ Len(SubSeq(q, m, n)) = n + 1 - m
         /\ \A i \in 1 .. n + 1 - m : SubSeq(q, m, n)[i] = q[m + i - 1]
         /\ Ids(SubSeq(q, m, n)) = {q[i].id : i \in m .. n}
<1> DEFINE S == Range(q)  p == SubSeq(q, m, n)
<1>1. q \in Seq(S) /\ Len(q) \in Nat
  BY DEF Listed, IsStack
<1> HIDE DEF S
<1>2. p \in Seq(S) /\ Len(p) = n + 1 - m /\ \A i \in 1 .. n + 1 - m : p[i] = q[m + i - 1]
  BY <1>1
<1> HIDE DEF p
<1>3. IsStack(p)
  BY <1>2, StackOf
<1>4. \A i, j \in 1 .. Len(p) : p[i].id = p[j].id => i = j
  <2>1. \A i \in 1 .. Len(p) : m + i - 1 \in 1 .. Len(q) /\ p[i] = q[m + i - 1]
    BY <1>1, <1>2
  <2>2. \A h, j \in 1 .. Len(q) : q[h].id = q[j].id => h = j
    BY DEF Listed
  <2>3. ASSUME NEW i \in 1 .. Len(p), NEW j \in 1 .. Len(p), p[i].id = p[j].id PROVE i = j
    <3>1. m + i - 1 = m + j - 1
      BY <2>1, <2>2, <2>3
    <3> QED BY <1>1, <1>2, <3>1
  <2> QED BY <2>3
<1>5. Ids(p) = {q[i].id : i \in m .. n}
  <2>1. ASSUME NEW i \in 1 .. Len(p) PROVE p[i].id \in {q[h].id : h \in m .. n}
    <3>1. p[i] = q[m + i - 1] /\ m + i - 1 \in m .. n
      BY <1>1, <1>2
    <3> QED BY <3>1
  <2>2. ASSUME NEW h \in m .. n PROVE q[h].id \in Ids(p)
    <3>1. h - m + 1 \in 1 .. Len(p) /\ m + (h - m + 1) - 1 = h
      BY <1>1, <1>2
    <3>2. p[h - m + 1] = q[h]
      BY <1>2, <3>1
    <3> QED BY <3>1, <3>2 DEF Ids
  <2> QED BY <2>1, <2>2 DEF Ids
<1> QED BY <1>2, <1>3, <1>4, <1>5 DEF Listed, p

LEMMA ConcatFacts ==
  ASSUME NEW p, NEW q, Listed(p), Listed(q), Ids(p) \cap Ids(q) = {}
  PROVE  Listed(p \o q) /\ Ids(p \o q) = Ids(p) \cup Ids(q) /\ Len(p \o q) = Len(p) + Len(q)
<1> DEFINE S == Range(p) \cup Range(q)  c == p \o q
<1>1. p \in Seq(Range(p)) /\ q \in Seq(Range(q)) /\ Len(p) \in Nat /\ Len(q) \in Nat
  BY DEF Listed, IsStack
<1>2. p \in Seq(S) /\ q \in Seq(S)
  BY <1>1
<1> HIDE DEF S
<1>3. /\ c \in Seq(S) /\ Len(c) = Len(p) + Len(q)
      /\ \A i \in 1 .. Len(c) : c[i] = IF i <= Len(p) THEN p[i] ELSE q[i - Len(p)]
  BY <1>2
<1> HIDE DEF c
<1>4. IsStack(c)
  BY <1>3, StackOf
<1>5. \A i \in 1 .. Len(c) : \/ i \in 1 .. Len(p) /\ c[i] = p[i]
                             \/ i > Len(p) /\ i - Len(p) \in 1 .. Len(q) /\ c[i] = q[i - Len(p)]
  BY <1>1, <1>3
<1>6. \A i \in 1 .. Len(p) : p[i].id \in Ids(p)
  BY DEF Ids
<1>7. \A i \in 1 .. Len(q) : q[i].id \in Ids(q)
  BY DEF Ids
<1>8. \A i, j \in 1 .. Len(c) : c[i].id = c[j].id => i = j
  <2> SUFFICES ASSUME NEW i \in 1 .. Len(c), NEW j \in 1 .. Len(c), c[i].id = c[j].id PROVE i = j
    OBVIOUS
  <2>1. CASE i \in 1 .. Len(p) /\ c[i] = p[i] /\ j \in 1 .. Len(p) /\ c[j] = p[j]
    BY <2>1 DEF Listed
  <2>2. CASE /\ i > Len(p) /\ i - Len(p) \in 1 .. Len(q) /\ c[i] = q[i - Len(p)]
             /\ j > Len(p) /\ j - Len(p) \in 1 .. Len(q) /\ c[j] = q[j - Len(p)]
    <3>1. i - Len(p) = j - Len(p)
      BY <2>2 DEF Listed
    <3> QED BY <1>1, <1>3, <3>1
  <2>3. CASE i \in 1 .. Len(p) /\ c[i] = p[i] /\ j - Len(p) \in 1 .. Len(q) /\ c[j] = q[j - Len(p)]
    BY <1>6, <1>7, <2>3
  <2>4. CASE j \in 1 .. Len(p) /\ c[j] = p[j] /\ i - Len(p) \in 1 .. Len(q) /\ c[i] = q[i - Len(p)]
    BY <1>6, <1>7, <2>4
  <2> QED BY <1>5, <2>1, <2>2, <2>3, <2>4
<1>9. Ids(c) = Ids(p) \cup Ids(q)
  <2>1. Ids(c) \subseteq Ids(p) \cup Ids(q)
    BY <1>5 DEF Ids
  <2>2. ASSUME NEW i \in 1 .. Len(p) PROVE p[i].id \in Ids(c)
    <3>1. i \in 1 .. Len(c) /\ c[i] = p[i]
      BY <1>1, <1>3
    <3> QED BY <3>1 DEF Ids
  <2>3. ASSUME NEW i \in 1 .. Len(q) PROVE q[i].id \in Ids(c)
    <3>1. i + Len(p) \in 1 .. Len(c) /\ ~(i + Len(p) <= Len(p)) /\ (i + Len(p)) - Len(p) = i
      BY <1>1, <1>3
    <3>2. c[i + Len(p)] = q[i]
      BY <1>3, <3>1
    <3> QED BY <3>1, <3>2 DEF Ids
  <2>4. Ids(p) \subseteq Ids(c)
    BY <2>2 DEF Ids
  <2>5. Ids(q) \subseteq Ids(c)
    BY <2>3 DEF Ids
  <2> QED BY <2>1, <2>4, <2>5, Zenon
<1> QED BY <1>3, <1>4, <1>8, <1>9 DEF Listed, c

LEMMA SingleListed == ASSUME NEW x PROVE Listed(<<x>>) /\ Ids(<<x>>) = {x.id} /\ Listed(<<>>) /\ Ids(<<>>) = {}
<1>1. <<x>> \in Seq({x}) /\ Len(<<x>>) = 1 /\ <<x>>[1] = x
  OBVIOUS
<1>2. IsStack(<<x>>)
  BY <1>1, StackOf
<1>3. <<>> \in Seq({x}) /\ Len(<<>>) = 0
  OBVIOUS
<1>4. IsStack(<<>>)
  BY <1>3, StackOf
<1>5. 1 .. 1 = {1} /\ 1 .. 0 = {}
  OBVIOUS
<1> QED BY <1>1, <1>2, <1>3, <1>4, <1>5 DEF Listed, Ids

LEMMA AppendListed ==
  ASSUME NEW q, Listed(q), NEW x, x.id \notin Ids(q)
  PROVE  Listed(Append(q, x)) /\ Ids(Append(q, x)) = Ids(q) \cup {x.id}
<1>1. Listed(<<x>>) /\ Ids(<<x>>) = {x.id}
  BY SingleListed
<1>2. Append(q, x) = q \o <<x>>
  <2>1. q \in Seq(Range(q) \cup {x})
    BY DEF Listed, IsStack
  <2> QED BY <2>1
<1> QED BY <1>1, <1>2, ConcatFacts

LEMMA RemoveFacts ==
  ASSUME NEW q, Listed(q), NEW i \in 1 .. Len(q)
  PROVE  Listed(RemoveAt(q, i)) /\ Ids(RemoveAt(q, i)) = Ids(q) \ {q[i].id}
<1> DEFINE p == SubSeq(q, 1, i - 1)  r == SubSeq(q, i + 1, Len(q))
<1>1. Len(q) \in Nat
  BY DEF Listed, IsStack
<1>2. 1 \in 1 .. Len(q) + 1 /\ i - 1 \in 1 - 1 .. Len(q)
  BY <1>1
<1>3. i + 1 \in 1 .. Len(q) + 1 /\ Len(q) \in (i + 1) - 1 .. Len(q)
  BY <1>1
<1>4. Listed(p) /\ Ids(p) = {q[h].id : h \in 1 .. i - 1}
  BY <1>2, SliceFacts
<1>5. Listed(r) /\ Ids(r) = {q[h].id : h \in i + 1 .. Len(q)}
  BY <1>3, SliceFacts
<1> HIDE DEF p, r
<1>6. \A h, j \in 1 .. Len(q) : q[h].id = q[j].id => h = j
  BY DEF Listed
<1>7. \A h \in 1 .. i - 1 : h \in 1 .. Len(q) /\ h # i
  BY <1>1
<1>8. \A h \in i + 1 .. Len(q) : h \in 1 .. Len(q) /\ h # i /\ h \notin 1 .. i - 1
  BY <1>1
<1>9. Ids(p) \cap Ids(r) = {}
  BY <1>4, <1>5, <1>6, <1>7, <1>8
<1>10. Ids(p) \cup Ids(r) = Ids(q) \ {q[i].id}
  <2>1. \A h \in 1 .. Len(q) : h = i \/ h \in 1 .. i - 1 \/ h \in i + 1 .. Len(q)
    BY <1>1
  <2> QED BY <1>4, <1>5, <1>6, <1>7, <1>8, <2>1 DEF Ids
<1>11. Listed(p \o r) /\ Ids(p \o r) = Ids(p) \cup Ids(r)
  BY <1>4, <1>5, <1>9, ConcatFacts
<1> QED BY <1>10, <1>11 DEF RemoveAt, p, r

LEMMA TailListed ==
  ASSUME NEW q, Listed(q), q # <<>>
  PROVE  /\ Listed(Tail(q)) /\ Ids(Tail(q)) = Ids(q) \ {Head(q).id} /\ Head(q).id \in Ids(q)
<1>1. Len(q) \in Nat /\ Len(q) # 0 /\ Head(q) = q[1] /\ Tail(q) = SubSeq(q, 2, Len(q))
  <2>1. q \in Seq(Range(q))
    BY DEF Listed, IsStack
  <2>2. Len(q) \in Nat /\ Len(q) # 0 /\ Head(q) = q[1]
    BY <2>1
  <2>3. Tail(q) = SubSeq(q, 2, Len(q))
    BY <2>1, <2>2, TailIsSubSeq
  <2> QED BY <2>2, <2>3
<1>2. 2 \in 1 .. Len(q) + 1 /\ Len(q) \in 2 - 1 .. Len(q) /\ 1 \in 1 .. Len(q)
  BY <1>1
<1>3. Listed(Tail(q)) /\ Ids(Tail(q)) = {q[i].id : i \in 2 .. Len(q)}
  <2>1. Listed(SubSeq(q, 2, Len(q))) /\ Ids(SubSeq(q, 2, Len(q))) = {q[i].id : i \in 2 .. Len(q)}
    BY <1>2, SliceFacts
  <2> QED BY <1>1, <2>1
<1>4. \A i \in 1 .. Len(q) : i = 1 \/ i \in 2 .. Len(q)
  BY <1>1
<1>5. \A i \in 2 .. Len(q) : i \in 1 .. Len(q) /\ i # 1
  BY <1>1
<1>6. \A h, j \in 1 .. Len(q) : q[h].id = q[j].id => h = j
  BY DEF Listed
<1>7. Head(q).id \in Ids(q)
  BY <1>1, <1>2 DEF Ids
<1>8. Ids(Tail(q)) = Ids(q) \ {q[1].id}
  BY <1>2, <1>3, <1>4, <1>5, <1>6 DEF Ids
<1> QED BY <1>1, <1>3, <1>7, <1>8
\* The numbers of a finite set by rank: each has one, and each rank has a number
LEMMA NthFacts ==
  ASSUME NEW n \in Nat, NEW I \in SUBSET (1 .. n)
  PROVE  /\ Cardinality(I) \in Nat
         /\ \A j \in 1 .. Cardinality(I) : Nth(I, j) \in I /\ Cardinality({h \in I : h <= Nth(I, j)}) = j
         /\ \A j, k \in 1 .. Cardinality(I) : Nth(I, j) = Nth(I, k) => j = k
         /\ \A i \in I : \E j \in 1 .. Cardinality(I) : Nth(I, j) = i
<1> DEFINE Upto(i) == {h \in I : h <= i}  R == [i \in I |-> Cardinality(Upto(i))]
           N == Cardinality(I)
<1>1. IsFiniteSet(I) /\ N \in Nat /\ I \subseteq Nat
  <2>1. IsFiniteSet(1 .. n)
    BY FS_Interval
  <2>2. IsFiniteSet(I)
    BY <2>1, FS_Subset
  <2> QED BY <2>2, FS_CardinalityType
<1>2. \A i \in I : IsFiniteSet(Upto(i)) /\ Cardinality(Upto(i)) \in Nat /\ Cardinality(Upto(i)) <= N
  BY <1>1, FS_Subset, FS_CardinalityType
<1>3. ASSUME NEW i \in I, NEW k \in I, i < k PROVE Cardinality(Upto(i)) < Cardinality(Upto(k))
  <2>1. Upto(i) \subseteq Upto(k)
    <3>1. \A h \in Nat : h <= i => h <= k
      BY <1>1, <1>3
    <3> QED BY <1>1, <3>1, Zenon
  <2>2. k \in Upto(k) /\ k \notin Upto(i)
    <3>1. k \in Nat /\ i \in Nat /\ k \in I
      BY <1>1
    <3>2. k <= k /\ ~(k <= i)
      BY <1>3, <3>1
    <3> QED BY <3>1, <3>2
  <2> HIDE DEF Upto
  <2>3. Cardinality(Upto(i)) <= Cardinality(Upto(k)) /\ Cardinality(Upto(i)) # Cardinality(Upto(k))
    BY <1>2, <2>1, <2>2, FS_Subset
  <2> QED BY <1>2, <2>3
<1>4. ASSUME NEW i \in I PROVE Cardinality(Upto(i)) \in 1 .. N
  <2>1. Upto(i) # {}
    OBVIOUS
  <2> HIDE DEF Upto
  <2>2. Cardinality(Upto(i)) # 0
    BY <1>2, <2>1, FS_EmptySet
  <2> QED BY <1>1, <1>2, <2>2
<1>5. \A i, k \in I : Cardinality(Upto(i)) = Cardinality(Upto(k)) => i = k
  <2> SUFFICES ASSUME NEW i \in I, NEW k \in I, Cardinality(Upto(i)) = Cardinality(Upto(k)) PROVE i = k
    OBVIOUS
  <2>1. ~(i < k) /\ ~(k < i)
    <3> HIDE DEF Upto
    <3> QED BY <1>2, <1>3
  <2> QED BY <2>1
<1>6. R \in Injection(I, 1 .. N)
  <2>1. R \in [I -> 1 .. N]
    <3> HIDE DEF Upto
    <3> QED BY <1>4
  <2>2. \A i, k \in I : R[i] = R[k] => i = k
    <3> HIDE DEF Upto
    <3> QED BY <1>5
  <2> HIDE DEF R
  <2> QED BY <2>1, <2>2 DEF Injection, IsInjective
<1>7. IsFiniteSet(1 .. N) /\ Cardinality(1 .. N) = N
  BY <1>1, FS_Interval
<1>8. R \in Surjection(I, 1 .. N)
  <2> HIDE DEF R, N
  <2>1. N = Cardinality(I)
    BY DEF N
  <2> QED BY <1>6, <1>7, <2>1, FS_Injection
<1>9. \A j \in 1 .. N : \E i \in I : Cardinality(Upto(i)) = j
  <2>1. \A j \in 1 .. N : \E i \in I : R[i] = j
    <3> HIDE DEF R
    <3> QED BY <1>8 DEF Surjection
  <2> HIDE DEF Upto, N
  <2> QED BY <2>1
<1>10. \A j \in 1 .. N : Nth(I, j) \in I /\ Cardinality(Upto(Nth(I, j))) = j
  BY <1>9 DEF Nth
<1>11. \A i \in I : Nth(I, Cardinality(Upto(i))) = i
  <2> HIDE DEF Upto, N
  <2> QED BY <1>4, <1>5, <1>10
<1>12. \A i \in I : \E j \in 1 .. N : Nth(I, j) = i
  <2> HIDE DEF Upto, N
  <2> QED BY <1>4, <1>11
<1>13. \A j, k \in 1 .. N : Nth(I, j) = Nth(I, k) => j = k
  <2> HIDE DEF Upto, N
  <2> QED BY <1>10
<1> QED BY <1>1, <1>10, <1>12, <1>13

LEMMA LeastIn ==
  ASSUME NEW n \in Nat, NEW I \in SUBSET (1 .. n), I # {}
  PROVE  Min(I) \in I /\ \A i \in I : Min(I) <= i
<1> DEFINE x == Nth(I, 1)
<1>1. IsFiniteSet(I) /\ Cardinality(I) \in Nat /\ Cardinality(I) # 0
  <2>1. IsFiniteSet(1 .. n)
    BY FS_Interval
  <2>2. IsFiniteSet(I)
    BY <2>1, FS_Subset
  <2> QED BY <2>2, FS_CardinalityType, FS_EmptySet
<1>2. 1 \in 1 .. Cardinality(I)
  BY <1>1
<1>3. x \in I /\ Cardinality({h \in I : h <= x}) = 1
  BY <1>2, NthFacts
<1> HIDE DEF x
<1>4. IsFiniteSet({h \in I : h <= x})
  BY <1>1, FS_Subset
<1>5. PICK y : {h \in I : h <= x} = {y}
  BY <1>3, <1>4, FS_Singleton
<1>6. \A i \in I : x <= i
  BY <1>3, <1>5
<1> QED BY <1>3, <1>6 DEF Min

\* What a cancellation keeps of a queue and what it drops make up the queue
LEMMA KeptFacts ==
  ASSUME NEW q, Listed(q), NEW sel, NEW n
  PROVE  /\ Listed(Kept(q, sel, n)) /\ Ids(Kept(q, sel, n)) \cap Dropped(q, sel, n) = {}
         /\ Ids(Kept(q, sel, n)) \cup Dropped(q, sel, n) = Ids(Scanned(q, sel))
         /\ Listed(Scanned(q, sel)) /\ Listed(SubSeq(q, NextIsEqual(q, sel), Len(q)))
         /\ Ids(Scanned(q, sel)) \cap Ids(SubSeq(q, NextIsEqual(q, sel), Len(q))) = {}
         /\ Ids(Scanned(q, sel)) \cup Ids(SubSeq(q, NextIsEqual(q, sel), Len(q))) = Ids(q)
<1> DEFINE s == Scanned(q, sel)  m == NextIsEqual(q, sel)  rest == SubSeq(q, m, Len(q))
           I == {i \in 1 .. Len(s) : ~CancelledByHost(s[i], sel, n)}
           k == Kept(q, sel, n)  D == Dropped(q, sel, n)
<1>1. Len(q) \in Nat /\ \A i, j \in 1 .. Len(q) : q[i].id = q[j].id => i = j
  BY DEF Listed, IsStack
<1>2. m \in 1 .. Len(q) + 1
  <2> DEFINE E == {i \in 1 .. Len(q) : NeedsIsEqual(q[i], sel)}
  <2>1. CASE E = {}
    BY <1>1, <2>1 DEF NextIsEqual
  <2>2. CASE E # {}
    <3>1. Min(E) \in E
      BY <1>1, <2>2, LeastIn
    <3>2. m = Min(E)
      BY <2>2 DEF NextIsEqual
    <3> QED BY <1>1, <3>1, <3>2
  <2> QED BY <2>1, <2>2
<1> HIDE DEF m
<1>3. Listed(s) /\ Ids(s) = {q[i].id : i \in 1 .. m - 1}
  <2>1. 1 \in 1 .. Len(q) + 1 /\ m - 1 \in 1 - 1 .. Len(q)
    BY <1>1, <1>2
  <2>2. s = SubSeq(q, 1, m - 1)
    BY DEF Scanned, m
  <2> QED BY <2>1, <2>2, SliceFacts
<1>4. Listed(rest) /\ Ids(rest) = {q[i].id : i \in m .. Len(q)}
  <2>1. Len(q) \in m - 1 .. Len(q)
    BY <1>1, <1>2
  <2> QED BY <1>2, <2>1, SliceFacts
<1> HIDE DEF s, rest
<1>5. Ids(s) \cap Ids(rest) = {} /\ Ids(s) \cup Ids(rest) = Ids(q)
  <2>1. \A i \in 1 .. Len(q) : i \in 1 .. m - 1 \/ i \in m .. Len(q)
    BY <1>1, <1>2
  <2>2. \A i \in 1 .. m - 1 : i \in 1 .. Len(q) /\ i \notin m .. Len(q)
    BY <1>1, <1>2
  <2>3. \A i \in m .. Len(q) : i \in 1 .. Len(q)
    BY <1>1, <1>2
  <2>4. Ids(s) \cap Ids(rest) = {}
    BY <1>1, <1>3, <1>4, <2>2, <2>3
  <2> QED BY <1>3, <1>4, <2>1, <2>2, <2>3, <2>4 DEF Ids
<1>6. s \in Seq(Range(s)) /\ Len(s) \in Nat /\ \A i, j \in 1 .. Len(s) : s[i].id = s[j].id => i = j
  BY <1>3 DEF Listed, IsStack
<1>7. /\ Cardinality(I) \in Nat /\ \A j \in 1 .. Cardinality(I) : Nth(I, j) \in I
      /\ \A j, h \in 1 .. Cardinality(I) : Nth(I, j) = Nth(I, h) => j = h
      /\ \A i \in I : \E j \in 1 .. Cardinality(I) : Nth(I, j) = i
  <2>1. I \in SUBSET (1 .. Len(s)) /\ Len(s) \in Nat
    BY <1>6
  <2> HIDE DEF I
  <2> QED BY <2>1, NthFacts
<1>8. k = [j \in 1 .. Cardinality(I) |-> s[Nth(I, j)]]
  BY DEF Kept, s
<1>9. D = {s[i].id : i \in (1 .. Len(s)) \ I}
  <2>1. Range(s) = {s[i] : i \in 1 .. Len(s)}
    BY <1>6 DEF Range
  <2> QED BY <2>1 DEF Dropped, s
<1> HIDE DEF k, D
<1>10. I \subseteq 1 .. Len(s)
  OBVIOUS
<1> HIDE DEF I
<1>11. k \in Seq(Range(s)) /\ Len(k) = Cardinality(I)
  <2>1. \A i \in 1 .. Len(s) : s[i] \in Range(s)
    BY <1>6
  <2>2. \A j \in 1 .. Cardinality(I) : s[Nth(I, j)] \in Range(s)
    BY <1>7, <1>10, <2>1
  <2> QED BY <1>7, <1>8, <2>2
<1>12. Listed(k)
  <2>1. IsStack(k)
    BY <1>11, StackOf
  <2>2. \A j, h \in 1 .. Len(k) : k[j].id = k[h].id => j = h
    <3> SUFFICES ASSUME NEW j \in 1 .. Len(k), NEW h \in 1 .. Len(k), k[j].id = k[h].id PROVE j = h
      OBVIOUS
    <3>1. j \in 1 .. Cardinality(I) /\ h \in 1 .. Cardinality(I)
      BY <1>11
    <3>2. k[j] = s[Nth(I, j)] /\ k[h] = s[Nth(I, h)]
      BY <1>8, <3>1
    <3>3. Nth(I, j) \in 1 .. Len(s) /\ Nth(I, h) \in 1 .. Len(s)
      BY <1>7, <1>10, <3>1
    <3>4. Nth(I, j) = Nth(I, h)
      BY <1>6, <3>2, <3>3
    <3> QED BY <1>7, <3>1, <3>4
  <2> QED BY <2>1, <2>2 DEF Listed
<1>13. Ids(k) = {s[i].id : i \in I}
  BY <1>7, <1>8, <1>11 DEF Ids
<1>14. Ids(k) \cap D = {}
  BY <1>6, <1>9, <1>10, <1>13
<1>15. Ids(k) \cup D = Ids(s)
  BY <1>9, <1>10, <1>13 DEF Ids
<1> QED BY <1>3, <1>4, <1>5, <1>12, <1>14, <1>15 DEF k, D, s, rest, m
LEMMA FateSame == ASSUME RequestsInv, UNCHANGED fate PROVE FateRests
BY DEF RequestsInv, FateRests, Pending, Settled

\* A step that sends and takes nothing: cancellations stay as they are, no performance begins
LEMMA QueuesRest ==
  ASSUME RequestsInv, FateRests, UNCHANGED requests,
         \A f \in CancelFrames : f \in Frames' /\ stack'[f] = stack[f],
         \A f \in Frames' : stack'[f].kind = "cancel" \/ Performing(stack'[f])
                              => f \in Frames /\ stack'[f] = stack[f]
  PROVE  RequestsInv' /\ CancelFrames' = CancelFrames /\ (QuietInv => QuietInv')
<1>1. CancelFrames' = CancelFrames
  BY DEF CancelFrames
<1>2. \A f \in CancelFrames : stack'[f] = stack[f]
  OBVIOUS
<1>3. Pending' = Pending /\ Settled' = Settled /\ fate' \in [Requests -> Fates]
  BY DEF FateRests
<1>4. (\A f \in CancelFrames : HoldSane(stack[f]) /\ HeldBy(stack[f]) \subseteq Pending \ Ids(requests))'
  BY <1>1, <1>2, <1>3 DEF RequestsInv, HoldSane, HeldBy
<1>5. (\A f, g \in CancelFrames : f # g => HeldBy(stack[f]) \cap HeldBy(stack[g]) = {})'
  BY <1>1, <1>2 DEF RequestsInv, HeldBy
<1>6. (\A f \in Frames : Performing(stack[f]) => \E r \in Settled : stack[f].req = <<r>>)'
  <2>1. ASSUME NEW f \in Frames', Performing(stack'[f]) PROVE \E r \in Settled : stack'[f].req = <<r>>
    BY <2>1 DEF RequestsInv
  <2> QED BY <1>3, <2>1 DEF Performing
<1>7. (Listed(requests) /\ Ids(requests) \subseteq Pending)'
  BY <1>3 DEF RequestsInv
<1>8. RequestsInv'
  BY <1>3, <1>4, <1>5, <1>6, <1>7 DEF RequestsInv
<1>9. ASSUME QuietInv PROVE QuietInv'
  BY <1>1, <1>2, <1>3, <1>9 DEF QuietInv, HeldBy
<1> QED BY <1>1, <1>8, <1>9

\* Frames of other kinds come and go
LEMMA PushQueues ==
  ASSUME LoopInv, RequestsInv, UNCHANGED requests, FateRests, NEW f, stack' = Append(stack, f),
         f.kind # "cancel", ~Performing(f)
  PROVE  RequestsInv' /\ (QuietInv => QuietInv')
<1>1. /\ Len(stack') = Len(stack) + 1 /\ Len(stack) \in Nat /\ stack'[Len(stack) + 1] = f
      /\ \A i \in 1 .. Len(stack) : stack'[i] = stack[i]
  BY PushFacts DEF LoopInv, StackInv
<1>2. Frames' = Frames \cup {Len(stack) + 1} /\ \A i \in Frames : stack'[i] = stack[i]
  BY <1>1 DEF Frames
<1> QED BY <1>1, <1>2, QueuesRest DEF CancelFrames

LEMMA PopQueues ==
  ASSUME LoopInv, RequestsInv, UNCHANGED requests, FateRests, stack' = Below, Top.kind # "cancel"
  PROVE  RequestsInv' /\ (QuietInv => QuietInv')
<1>1. /\ Len(stack') = Len(stack) - 1 /\ Len(stack) \in Nat \ {0}
      /\ \A i \in 1 .. Len(stack) - 1 : stack'[i] = stack[i]
  BY PopFacts DEF LoopInv, StackInv, Below
<1>2. Frames' = Frames \ {Len(stack)} /\ \A i \in Frames' : stack'[i] = stack[i]
  BY <1>1 DEF Frames
<1> QED BY <1>1, <1>2, QueuesRest DEF CancelFrames, Top

LEMMA GotoQueues ==
  ASSUME LoopInv, RequestsInv, UNCHANGED requests, FateRests, Top.kind # "cancel",
         NEW f, Goto(f), f.kind # "cancel", ~Performing(f)
  PROVE  RequestsInv' /\ (QuietInv => QuietInv')
<1>1. /\ Len(stack') = Len(stack) /\ Len(stack) \in Nat \ {0} /\ stack'[Len(stack)] = f
      /\ \A i \in 1 .. Len(stack) - 1 : stack'[i] = stack[i]
  BY GotoFacts DEF LoopInv, StackInv
<1>2. Frames' = Frames /\ \A i \in Frames : i = Len(stack) \/ stack'[i] = stack[i]
  BY <1>1 DEF Frames
<1> QED BY <1>1, <1>2, QueuesRest DEF CancelFrames, Top

LEMMA SameQueues ==
  ASSUME RequestsInv, UNCHANGED <<requests, fate, stack>>
  PROVE  RequestsInv' /\ (QuietInv => QuietInv')
<1>1. Frames' = Frames /\ CancelFrames \subseteq Frames
  BY DEF Frames, CancelFrames
<1> QED BY <1>1, FateSame, QueuesRest
LEMMA TimerCallQueues == ASSUME LoopInv, RequestsInv, TimerCall PROVE RequestsInv' /\ (QuietInv => QuietInv')
<1>1. PICK t \in Timers :
        \/ \E i \in Intervals, repeats \in BOOLEAN : timerWithTimeInterval(t, i, repeats)
        \/ \E i \in Intervals : set_time_interval(t, i)
        \/ guest_releases(t) \/ addTimer(t) \/ invalidate(t) \/ fire(t)
  BY DEF TimerCall
<1>2. CASE fire(t)
  <2> DEFINE f == FireFrame(t)
  <2>1. UNCHANGED requests /\ FateRests /\ stack' = Append(stack, f)
    BY <1>2, FateSame DEF fire
  <2>2. f.kind # "cancel" /\ ~Performing(f)
    BY DEF FireFrame, Performing
  <2> HIDE DEF f
  <2> QED BY <2>1, <2>2, PushQueues
<1>3. CASE ~fire(t)
  <2>1. UNCHANGED <<requests, fate, stack>>
    BY <1>1, <1>3 DEF timerWithTimeInterval, set_time_interval, guest_releases, addTimer, invalidate
  <2> QED BY <2>1, SameQueues
<1> QED BY <1>2, <1>3

\* The loop's steps that leave the queue alone put another frame of the loop on top
LEMMA LoopGoes ==
  ASSUME LoopInv, RequestsInv, UNCHANGED requests, FateRests, Top.kind = "loop",
         NEW f, Goto(f), f.kind = Top.kind, f.pc # "perform"
  PROVE  RequestsInv' /\ (QuietInv => QuietInv')
<1>1. Top.kind # "cancel" /\ f.kind # "cancel" /\ ~Performing(f)
  BY DEF Performing
<1> QED BY <1>1, GotoQueues

LEMMA TopIsLoop ==
  ASSUME LoopInv, Top.kind = "loop"
  PROVE  DOMAIN Top = {"kind", "pc", "limit", "pass", "timer", "req"} /\ Len(stack) \in Frames
<1>1. StackInv /\ Len(stack) \in Nat \ {0}
  BY RunLoopAssumption DEF LoopInv, StackInv
<1>2. FrameSane(Top)
  BY <1>1, TopSane
<1> QED BY <1>1, <1>2 DEF FrameSane, Frames

LEMMA LoopQueues ==
  ASSUME LoopInv, RequestsInv,
         \/ begin_timers \/ begin_audio \/ begin_requests \/ timer_callback_returns
         \/ \E t \in Timers : handle_timer_idle(t) \/ handle_timer_fires(t)
  PROVE  RequestsInv' /\ (QuietInv => QuietInv')
<1> DEFINE Moves(f) == Goto(f) /\ f.kind = Top.kind /\ f.pc # "perform"
<1>1. Top.kind = "loop" /\ UNCHANGED <<requests, fate>>
  BY DEF begin_timers, begin_audio, begin_requests, timer_callback_returns, handle_timer_idle,
         handle_timer_fires, AtTimers
<1>2. DOMAIN Top = {"kind", "pc", "limit", "pass", "timer", "req"}
  BY <1>1, TopIsLoop
<1>3. \E f : Moves(f)
  <2>1. CASE begin_timers
    <3>1. Goto([Top EXCEPT !.pc = "timers", !.pass = timers])
      BY <2>1 DEF begin_timers
    <3> DEFINE f == [Top EXCEPT !.pc = "timers", !.pass = timers]
    <3>2. f.kind = Top.kind /\ f.pc # "perform"
      BY <1>2
    <3> HIDE DEF f
    <3> QED BY <3>1, <3>2 DEF f
  <2>2. CASE begin_audio
    <3> DEFINE f == [Top EXCEPT !.pc = "audio"]
    <3>1. Goto(f)
      BY <2>2 DEF begin_audio
    <3>2. f.kind = Top.kind /\ f.pc # "perform"
      BY <1>2
    <3> HIDE DEF f
    <3> QED BY <3>1, <3>2
  <2>3. CASE begin_requests
    <3> DEFINE f == [Top EXCEPT !.pc = "requests"]
    <3>1. Goto(f)
      BY <2>3 DEF begin_requests
    <3>2. f.kind = Top.kind /\ f.pc # "perform"
      BY <1>2
    <3> HIDE DEF f
    <3> QED BY <3>1, <3>2
  <2>4. CASE timer_callback_returns
    <3> DEFINE f == [Top EXCEPT !.pc = "timers", !.timer = {}]
    <3>1. Goto(f)
      BY <2>4 DEF timer_callback_returns
    <3>2. f.kind = Top.kind /\ f.pc # "perform"
      BY <1>2
    <3> HIDE DEF f
    <3> QED BY <3>1, <3>2
  <2>5. CASE \E t \in Timers : handle_timer_idle(t)
    <3>1. PICK t \in Timers : Goto([Top EXCEPT !.pass = @ \ {t}]) /\ AtTimers
      BY <2>5 DEF handle_timer_idle
    <3> DEFINE f == [Top EXCEPT !.pass = @ \ {t}]
    <3>2. f.kind = Top.kind /\ f.pc # "perform"
      BY <1>2, <3>1 DEF AtTimers
    <3> HIDE DEF f
    <3> QED BY <3>1, <3>2 DEF f
  <2>6. CASE \E t \in Timers : handle_timer_fires(t)
    <3>1. PICK t \in Timers : Goto([Top EXCEPT !.pc = "callback", !.pass = @ \ {t}, !.timer = {t}])
      BY <2>6 DEF handle_timer_fires
    <3> DEFINE f == [Top EXCEPT !.pc = "callback", !.pass = @ \ {t}, !.timer = {t}]
    <3>2. f.kind = Top.kind /\ f.pc # "perform"
      BY <1>2
    <3> HIDE DEF f
    <3> QED BY <3>1, <3>2 DEF f
  <2> QED BY <2>1, <2>2, <2>3, <2>4, <2>5, <2>6
<1>4. FateRests
  BY <1>1, FateSame
<1> QED BY <1>1, <1>3, <1>4, LoopGoes

LEMMA EndQueues == ASSUME LoopInv, RequestsInv, end_iteration PROVE RequestsInv' /\ (QuietInv => QuietInv')
<1>1. Top.kind = "loop" /\ UNCHANGED requests /\ FateRests
  BY FateSame DEF end_iteration, AtRequests
<1>2. CASE Top.limit <= now
  <2>1. stack' = Below
    BY <1>2 DEF end_iteration
  <2> QED BY <1>1, <2>1, PopQueues
<1>3. CASE ~(Top.limit <= now)
  <2> DEFINE f == [Top EXCEPT !.pc = "events"]
  <2>1. Goto(f)
    BY <1>3 DEF end_iteration, Goto
  <2>2. f.kind = Top.kind /\ f.pc # "perform"
    BY <1>1, TopIsLoop
  <2> HIDE DEF f
  <2> QED BY <1>1, <2>1, <2>2, LoopGoes
<1> QED BY <1>2, <1>3

\* The request that has been performed was not listed, and is settled still
LEMMA PerformedQueues == ASSUME LoopInv, RequestsInv, perform_returns PROVE RequestsInv' /\ (QuietInv => QuietInv')
<1>1. Top.kind = "loop" /\ Top.pc = "perform" /\ UNCHANGED requests
  BY DEF perform_returns
<1>2. Len(stack) \in Frames /\ DOMAIN Top = {"kind", "pc", "limit", "pass", "timer", "req"}
  BY <1>1, TopIsLoop
<1>3. PICK r \in Settled : Top.req = <<r>>
  BY <1>1, <1>2 DEF RequestsInv, Performing, Top
<1>4. fate' = [fate EXCEPT ![r] = "done"] /\ r \in Requests /\ fate \in [Requests -> Fates]
  BY <1>3 DEF perform_returns, Settled, RequestsInv
<1>5. FateRests
  <2>1. fate' \in [Requests -> Fates]
    BY <1>4 DEF Fates
  <2>2. \A q \in Requests : fate'[q] = IF q = r THEN "done" ELSE fate[q]
    BY <1>4
  <2> QED BY <1>3, <2>1, <2>2 DEF FateRests, Pending, Settled
<1> DEFINE f == [Top EXCEPT !.pc = "requests", !.req = <<>>]
<1>6. Goto(f)
  BY DEF perform_returns
<1>7. f.kind = Top.kind /\ f.pc # "perform"
  BY <1>2
<1> HIDE DEF f
<1> QED BY <1>1, <1>5, <1>6, <1>7, LoopGoes
LEMMA NestQueues == ASSUME LoopInv, RequestsInv, NestCall PROVE RequestsInv' /\ (QuietInv => QuietInv')
<1>1. PICK limit : run_run_loop(limit)
  BY DEF NestCall
<1> DEFINE f == LoopFrame(limit)
<1>2. stack' = Append(stack, f) /\ UNCHANGED requests /\ FateRests
  BY <1>1, FateSame DEF run_run_loop
<1>3. f.kind # "cancel" /\ ~Performing(f)
  BY DEF LoopFrame, Performing
<1> HIDE DEF f
<1> QED BY <1>2, <1>3, PushQueues

LEMMA FireReturnQueues == ASSUME LoopInv, RequestsInv, fire_returns PROVE RequestsInv' /\ (QuietInv => QuietInv')
<1>1. Top.kind = "fire" /\ UNCHANGED <<requests, fate>> /\ (stack' = stack \/ stack' = Below)
  BY DEF fire_returns
<1> QED BY <1>1, FateSame, SameQueues, PopQueues

LEMMA SendQueues ==
  ASSUME RequestsInv, DelayCall \/ OtherThread PROVE RequestsInv' /\ (QuietInv /\ ~Cancelling => QuietInv')
<1>1. PICK r, sel, n, d : r \in Requests /\ add_perform_request(r, sel, n, d)
  BY DEF DelayCall, OtherThread, performSelectorAfterDelay, performSelectorOnMainThread
<1> DEFINE x == Request(r, sel, n, d)
<1>2. /\ fate[r] = "unsent" /\ requests' = Append(requests, x) /\ fate' = [fate EXCEPT ![r] = "pending"]
      /\ UNCHANGED stack /\ x.id = r
  BY <1>1 DEF add_perform_request, Request
<1> HIDE DEF x
<1>3. r \notin Pending /\ r \notin Settled /\ fate \in [Requests -> Fates]
  BY <1>2 DEF Pending, Settled, RequestsInv
<1>4. fate' \in [Requests -> Fates] /\ \A q \in Requests : fate'[q] = IF q = r THEN "pending" ELSE fate[q]
  BY <1>2, <1>3 DEF Fates
<1>5. Pending' = Pending \cup {r} /\ Settled' = Settled
  BY <1>2, <1>4 DEF Pending, Settled
<1>6. Listed(requests') /\ Ids(requests') = Ids(requests) \cup {r}
  BY <1>2, <1>3, AppendListed DEF RequestsInv
<1>7. Frames' = Frames /\ CancelFrames' = CancelFrames
  BY <1>2 DEF Frames, CancelFrames
<1>8. \A f \in CancelFrames : HoldSane(stack[f]) /\ HeldBy(stack[f]) \subseteq Pending' \ Ids(requests')
  BY <1>3, <1>5, <1>6 DEF RequestsInv
<1>9. RequestsInv'
  <2>1. (\A f \in CancelFrames : HoldSane(stack[f]) /\ HeldBy(stack[f]) \subseteq Pending \ Ids(requests))'
    BY <1>2, <1>7, <1>8
  <2>2. (\A f, g \in CancelFrames : f # g => HeldBy(stack[f]) \cap HeldBy(stack[g]) = {})'
    BY <1>2, <1>7 DEF RequestsInv
  <2>3. (\A f \in Frames : Performing(stack[f]) => \E q \in Settled : stack[f].req = <<q>>)'
    BY <1>2, <1>5, <1>7 DEF RequestsInv
  <2>4. Ids(requests') \subseteq Pending'
    BY <1>5, <1>6 DEF RequestsInv
  <2> QED BY <1>4, <1>6, <2>1, <2>2, <2>3, <2>4 DEF RequestsInv
<1>10. ASSUME QuietInv, ~Cancelling PROVE QuietInv'
  <2>1. CancelFrames = {}
    BY <1>10 DEF Cancelling, CancelFrames, Frames
  <2>2. Pending \subseteq Ids(requests)
    BY <1>10, <2>1 DEF QuietInv
  <2> QED BY <1>5, <1>6, <1>7, <2>1, <2>2 DEF QuietInv
<1> QED BY <1>9, <1>10

\* The first runnable request leaves the queue and is settled
LEMMA RunQueues == ASSUME LoopInv, RequestsInv, run_request PROVE RequestsInv' /\ (QuietInv => QuietInv')
<1> DEFINE i == Min(Runnable)  r == requests[i].id  f == [Top EXCEPT !.pc = "perform", !.req = <<r>>]
<1>1. /\ Top.kind = "loop" /\ Runnable # {} /\ requests' = RemoveAt(requests, i)
      /\ fate' = [fate EXCEPT ![r] = "running"] /\ Goto(f)
  BY DEF run_request, AtRequests, RemoveRun
<1>2. i \in 1 .. Len(requests)
  <2>1. Len(requests) \in Nat /\ Runnable \in SUBSET (1 .. Len(requests))
    BY DEF RequestsInv, Listed, IsStack, Runnable
  <2>2. Min(Runnable) \in Runnable
    BY <1>1, <2>1, LeastIn
  <2> QED BY <2>1, <2>2
<1> HIDE DEF i
<1>3. Listed(requests') /\ Ids(requests') = Ids(requests) \ {r} /\ r \in Ids(requests)
  <2>1. Listed(requests) /\ requests' = RemoveAt(requests, i)
    BY <1>1 DEF RequestsInv
  <2>2. Listed(requests') /\ Ids(requests') = Ids(requests) \ {r}
    BY <1>2, <2>1, RemoveFacts
  <2>3. r \in Ids(requests)
    BY <1>2 DEF Ids
  <2> QED BY <2>2, <2>3
<1>4. f.kind = "loop" /\ f.req = <<r>>
  BY <1>1, TopIsLoop
<1> HIDE DEF r, f
<1>5. r \in Pending /\ r \in Requests /\ fate \in [Requests -> Fates]
  BY <1>3 DEF RequestsInv, Pending
<1>6. fate' \in [Requests -> Fates] /\ \A q \in Requests : fate'[q] = IF q = r THEN "running" ELSE fate[q]
  BY <1>1, <1>5 DEF Fates
<1>7. Pending' = Pending \ {r} /\ Settled' = Settled \cup {r}
  BY <1>5, <1>6 DEF Pending, Settled
<1>8. /\ Len(stack') = Len(stack) /\ Len(stack) \in Nat \ {0} /\ stack'[Len(stack)] = f
      /\ \A j \in 1 .. Len(stack) - 1 : stack'[j] = stack[j]
  BY <1>1, GotoFacts DEF LoopInv, StackInv
<1>9. Frames' = Frames /\ \A j \in Frames : stack'[j] = IF j = Len(stack) THEN f ELSE stack[j]
  BY <1>8 DEF Frames
<1>10. CancelFrames' = CancelFrames /\ \A j \in CancelFrames : stack'[j] = stack[j]
  BY <1>1, <1>4, <1>9 DEF CancelFrames, Top
<1>11. \A j \in CancelFrames : HoldSane(stack[j]) /\ HeldBy(stack[j]) \subseteq Pending' \ Ids(requests')
  BY <1>3, <1>7 DEF RequestsInv
<1>12. RequestsInv'
  <2>1. (\A j \in CancelFrames : HoldSane(stack[j]) /\ HeldBy(stack[j]) \subseteq Pending \ Ids(requests))'
    BY <1>10, <1>11
  <2>2. (\A j, g \in CancelFrames : j # g => HeldBy(stack[j]) \cap HeldBy(stack[g]) = {})'
    BY <1>10 DEF RequestsInv
  <2>3. ASSUME NEW j \in Frames', Performing(stack'[j]) PROVE \E q \in Settled' : stack'[j].req = <<q>>
    BY <1>4, <1>7, <1>9, <2>3 DEF RequestsInv
  <2>4. (\A j \in Frames : Performing(stack[j]) => \E q \in Settled : stack[j].req = <<q>>)'
    BY <2>3
  <2>5. Ids(requests') \subseteq Pending'
    BY <1>3, <1>7 DEF RequestsInv
  <2> QED BY <1>3, <1>6, <2>1, <2>2, <2>4, <2>5 DEF RequestsInv
<1>13. ASSUME QuietInv PROVE QuietInv'
  <2>1. CancelFrames = {}
    <3>1. requests # <<>>
      BY <1>3, SingleListed
    <3> QED BY <1>13, <3>1 DEF QuietInv
  <2>2. Pending \subseteq Ids(requests)
    BY <1>13, <2>1 DEF QuietInv
  <2> QED BY <1>3, <1>7, <1>10, <2>1, <2>2 DEF QuietInv
<1> QED BY <1>12, <1>13
LEMMA EmptyIds == ASSUME NEW q, Listed(q) PROVE Ids(q) = {} <=> q = <<>>
<1>1. q \in Seq(Range(q)) /\ Len(q) \in Nat
  BY DEF Listed, IsStack
<1>2. ASSUME Ids(q) = {} PROVE q = <<>>
  <2>1. 1 \notin 1 .. Len(q)
    BY <1>2 DEF Ids
  <2>2. Len(q) = 0
    BY <1>1, <2>1
  <2> QED BY <1>1, <2>2
<1> QED BY <1>2, SingleListed

\* A scan of the requests all drops some of them, and which others it keeps or sets aside
ScanGives(below, all, sel, n, rest, k, gone) ==
  /\ fate' = Cancelled(gone) /\ Listed(rest) /\ Listed(k) /\ Ids(rest) \cap Ids(k) = {}
  /\ Ids(rest) \cup Ids(k) = all \ gone /\ gone \subseteq all
  /\ \/ rest = <<>> /\ requests' = k /\ stack' = below
     \/ /\ rest # <<>> /\ requests' = IF Len(below) < Len(stack) THEN requests ELSE <<>>
        /\ stack' = Append(below, CancelFrame(sel, n, rest, k))
LEMMA ScanQueues ==
  ASSUME NEW below, NEW q, NEW kept, NEW sel, NEW n, NEW dropped, scan(below, q, kept, sel, n, dropped),
         Listed(q), Listed(kept), Ids(q) \cap Ids(kept) = {}, dropped \cap (Ids(q) \cup Ids(kept)) = {}
  PROVE  \E rest, k, gone : ScanGives(below, dropped \cup Ids(q) \cup Ids(kept), sel, n, rest, k, gone)
<1> DEFINE rest == SubSeq(q, NextIsEqual(q, sel), Len(q))  kq == Kept(q, sel, n)  k == kept \o kq
           D == Dropped(q, sel, n)  S == Ids(Scanned(q, sel))
<1>1. /\ Listed(kq) /\ Ids(kq) \cap D = {} /\ Ids(kq) \cup D = S /\ Listed(rest)
      /\ S \cap Ids(rest) = {} /\ S \cup Ids(rest) = Ids(q)
  BY KeptFacts
<1>2. fate' = Cancelled(dropped \cup D)
  BY DEF scan
<1>3. \/ rest = <<>> /\ requests' = k /\ stack' = below
      \/ /\ rest # <<>> /\ requests' = IF Len(below) < Len(stack) THEN requests ELSE <<>>
         /\ stack' = Append(below, CancelFrame(sel, n, rest, k))
  BY DEF scan
<1> HIDE DEF rest, kq, D, S
<1>4. Ids(kept) \cap Ids(kq) = {}
  BY <1>1
<1>5. Listed(k) /\ Ids(k) = Ids(kept) \cup Ids(kq)
  BY <1>1, <1>4, ConcatFacts
<1> HIDE DEF k
<1>6. Ids(rest) \cap Ids(k) = {} /\ Ids(rest) \cup Ids(k) = (dropped \cup Ids(q) \cup Ids(kept)) \ (dropped \cup D)
  BY <1>1, <1>5
<1>7. dropped \cup D \subseteq dropped \cup Ids(q) \cup Ids(kept)
  BY <1>1
<1> QED BY <1>1, <1>2, <1>3, <1>5, <1>6, <1>7 DEF ScanGives

LEMMA CancelledFate ==
  ASSUME RequestsInv, NEW gone, gone \subseteq Pending, fate' = Cancelled(gone)
  PROVE  fate' \in [Requests -> Fates] /\ Pending' = Pending \ gone /\ Settled' = Settled \cup gone
<1>1. \A r \in Requests : fate'[r] = IF r \in gone THEN "cancelled" ELSE fate[r]
  BY DEF Cancelled
<1>2. fate' \in [Requests -> Fates]
  BY DEF Cancelled, RequestsInv, Fates
<1> QED BY <1>1, <1>2 DEF Pending, Settled

\* The queue is taken away, and what is kept put back or held until isEqual: returns
LEMMA CancelQueues ==
  ASSUME LoopInv, RequestsInv, NEW sel, NEW n, cancel_perform_requests(sel, n)
  PROVE  RequestsInv' /\ (QuietInv => QuietInv')
<1>1. scan(stack, requests, <<>>, sel, n, {}) /\ Listed(requests) /\ Ids(requests) \subseteq Pending
  BY DEF cancel_perform_requests, RequestsInv
<1>2. Listed(<<>>) /\ Ids(<<>>) = {}
  BY SingleListed
<1>3. PICK rest, k, gone : ScanGives(stack, Ids(requests), sel, n, rest, k, gone)
  <2>1. Ids(requests) \cap Ids(<<>>) = {} /\ {} \cap (Ids(requests) \cup Ids(<<>>)) = {}
    BY <1>2
  <2>2. {} \cup Ids(requests) \cup Ids(<<>>) = Ids(requests)
    BY <1>2
  <2>3. \E rest, k, gone : ScanGives(stack, {} \cup Ids(requests) \cup Ids(<<>>), sel, n, rest, k, gone)
    BY <1>1, <1>2, <2>1, ScanQueues
  <2> QED BY <2>2, <2>3
<1>s. /\ fate' = Cancelled(gone) /\ Listed(rest) /\ Listed(k) /\ Ids(rest) \cap Ids(k) = {}
      /\ \/ rest = <<>> /\ requests' = k /\ stack' = stack
         \/ /\ rest # <<>> /\ requests' = IF Len(stack) < Len(stack) THEN requests ELSE <<>>
            /\ stack' = Append(stack, CancelFrame(sel, n, rest, k))
  BY <1>3 DEF ScanGives
<1>4. gone \subseteq Ids(requests) /\ Ids(rest) \cup Ids(k) = Ids(requests) \ gone
  BY <1>3 DEF ScanGives
<1>5. fate' \in [Requests -> Fates] /\ Pending' = Pending \ gone /\ Settled' = Settled \cup gone
  BY <1>1, <1>s, <1>4, CancelledFate
<1>6. \A f \in CancelFrames : HoldSane(stack[f]) /\ HeldBy(stack[f]) \subseteq Pending' \ Ids(requests)
  BY <1>4, <1>5 DEF RequestsInv
<1>7. \A f, g \in CancelFrames : f # g => HeldBy(stack[f]) \cap HeldBy(stack[g]) = {}
  BY DEF RequestsInv
<1>8. \A f \in Frames : Performing(stack[f]) => \E r \in Settled' : stack[f].req = <<r>>
  BY <1>5 DEF RequestsInv
<1>9. CASE rest = <<>> /\ requests' = k /\ stack' = stack
  <2>1. Frames' = Frames /\ CancelFrames' = CancelFrames
    BY <1>9 DEF Frames, CancelFrames
  <2>2. Listed(requests') /\ Ids(requests') = Ids(requests) \ gone
    BY <1>2, <1>s, <1>4, <1>9
  <2>3. (\A f \in CancelFrames : HoldSane(stack[f]) /\ HeldBy(stack[f]) \subseteq Pending \ Ids(requests))'
    BY <1>6, <1>9, <2>1, <2>2
  <2>4. (\A f, g \in CancelFrames : f # g => HeldBy(stack[f]) \cap HeldBy(stack[g]) = {})'
    BY <1>7, <1>9, <2>1
  <2>5. (\A f \in Frames : Performing(stack[f]) => \E r \in Settled : stack[f].req = <<r>>)'
    BY <1>8, <1>9, <2>1
  <2>6. Ids(requests') \subseteq Pending'
    BY <1>1, <1>5, <2>2
  <2>7. RequestsInv'
    BY <1>5, <2>2, <2>3, <2>4, <2>5, <2>6 DEF RequestsInv
  <2>8. ASSUME QuietInv PROVE QuietInv'
    <3>1. ASSUME CancelFrames # {} PROVE requests' = <<>>
      <4>1. Ids(k) = {} /\ Listed(k)
        BY <1>2, <1>s, <1>4, <2>8, <3>1 DEF QuietInv
      <4> QED BY <1>9, <4>1, EmptyIds
    <3>2. Pending' \subseteq Ids(requests') \cup UNION {HeldBy(stack[f]) : f \in CancelFrames}
      BY <1>5, <2>2, <2>8 DEF QuietInv
    <3>3. (UNION {HeldBy(stack[f]) : f \in CancelFrames})' = UNION {HeldBy(stack[f]) : f \in CancelFrames}
      BY <1>9, <2>1
    <3>4. (\A f, g \in CancelFrames : f = g)' /\ (CancelFrames # {} => requests = <<>>)'
      BY <2>1, <2>8, <3>1 DEF QuietInv
    <3> QED BY <3>2, <3>3, <3>4 DEF QuietInv
  <2> QED BY <2>7, <2>8
<1>10. CASE rest # <<>> /\ requests' = <<>> /\ stack' = Append(stack, CancelFrame(sel, n, rest, k))
  <2> DEFINE c == CancelFrame(sel, n, rest, k)  m == Len(stack) + 1
  <2>1. c.kind = "cancel" /\ c.rest = rest /\ c.kept = k
    BY DEF CancelFrame
  <2>2. HoldSane(c) /\ HeldBy(c) = Ids(requests) \ gone /\ ~Performing(c)
    BY <1>s, <1>4, <1>10, <2>1 DEF HoldSane, HeldBy, Performing
  <2> HIDE DEF c
  <2>3. /\ Len(stack') = Len(stack) + 1 /\ Len(stack) \in Nat /\ stack'[Len(stack) + 1] = c
        /\ \A i \in 1 .. Len(stack) : stack'[i] = stack[i]
    BY <1>10, PushFacts DEF LoopInv, StackInv, c
  <2>4. Frames' = Frames \cup {m} /\ m \notin Frames /\ stack'[m] = c /\ \A i \in Frames : stack'[i] = stack[i]
    BY <2>3 DEF Frames
  <2> HIDE DEF m
  <2>5. CancelFrames' = CancelFrames \cup {m} /\ CancelFrames \subseteq Frames
    BY <2>1, <2>4 DEF CancelFrames
  <2>6. Ids(requests') = {} /\ Listed(requests')
    BY <1>2, <1>10
  <2>7. (\A f \in CancelFrames : HoldSane(stack[f]) /\ HeldBy(stack[f]) \subseteq Pending \ Ids(requests))'
    <3>1. ASSUME NEW f \in CancelFrames' PROVE HoldSane(stack'[f]) /\ HeldBy(stack'[f]) \subseteq Pending'
      BY <1>1, <1>5, <1>6, <2>2, <2>4, <2>5
    <3> QED BY <2>6, <3>1
  <2>8. (\A f, g \in CancelFrames : f # g => HeldBy(stack[f]) \cap HeldBy(stack[g]) = {})'
    <3>1. \A f \in CancelFrames : HeldBy(stack[f]) \cap HeldBy(c) = {}
      BY <1>6, <2>2
    <3>2. ASSUME NEW f \in CancelFrames', NEW g \in CancelFrames', f # g
          PROVE HeldBy(stack'[f]) \cap HeldBy(stack'[g]) = {}
      BY <1>7, <2>4, <2>5, <3>1, <3>2
    <3> QED BY <3>2
  <2>9. (\A f \in Frames : Performing(stack[f]) => \E r \in Settled : stack[f].req = <<r>>)'
    <3>1. ASSUME NEW f \in Frames', Performing(stack'[f]) PROVE \E r \in Settled' : stack'[f].req = <<r>>
      BY <1>8, <2>2, <2>4, <3>1
    <3> QED BY <3>1
  <2>10. RequestsInv'
    BY <1>5, <2>6, <2>7, <2>8, <2>9 DEF RequestsInv
  <2>11. ASSUME QuietInv PROVE QuietInv'
    <3>1. CancelFrames = {}
      <4>1. requests # <<>>
        <5>1. Ids(rest) # {}
          BY <1>s, <1>10, EmptyIds
        <5> QED BY <1>2, <1>4, <5>1
      <4> QED BY <2>11, <4>1 DEF QuietInv
    <3>2. Pending \subseteq Ids(requests)
      BY <2>11, <3>1 DEF QuietInv
    <3>3. Pending' \subseteq HeldBy(c)
      BY <1>5, <2>2, <3>2
    <3>4. (\A f, g \in CancelFrames : f = g)'
      BY <2>5, <3>1
    <3>5. HeldBy(c) \subseteq (UNION {HeldBy(stack[f]) : f \in CancelFrames})'
      BY <2>4, <2>5
    <3> QED BY <1>10, <3>3, <3>4, <3>5 DEF QuietInv
  <2> QED BY <2>10, <2>11
<1>11. ~(Len(stack) < Len(stack))
  BY DEF LoopInv, StackInv
<1> QED BY <1>s, <1>9, <1>10, <1>11
\* The request compared is dropped or kept, and the scan of what is left goes on
LEMMA ComparedScan ==
  ASSUME NEW equal, Listed(Top.rest), Listed(Top.kept), Top.rest # <<>>,
         Ids(Top.rest) \cap Ids(Top.kept) = {}, isEqual_returns(equal)
  PROVE  \E rest, k, gone : ScanGives(Below, HeldBy(Top), Top.sel, Top.is_nil, rest, k, gone)
<1> DEFINE q == Tail(Top.rest)  x == Head(Top.rest)
           kept == IF equal THEN Top.kept ELSE Append(Top.kept, x)
           dropped == IF equal THEN {x.id} ELSE {}
<1>1. scan(Below, q, kept, Top.sel, Top.is_nil, dropped)
  BY DEF isEqual_returns
<1>2. Listed(q) /\ Ids(q) = Ids(Top.rest) \ {x.id} /\ x.id \in Ids(Top.rest)
  BY TailListed
<1> HIDE DEF q, x
<1>3. Listed(kept) /\ Ids(kept) \cup dropped = Ids(Top.kept) \cup {x.id} /\ Ids(kept) \cap dropped = {}
      /\ Ids(Top.kept) \subseteq Ids(kept)
  <2>1. x.id \notin Ids(Top.kept)
    BY <1>2
  <2>2. Listed(Append(Top.kept, x)) /\ Ids(Append(Top.kept, x)) = Ids(Top.kept) \cup {x.id}
    BY <2>1, AppendListed
  <2>3. CASE equal
    BY <2>1, <2>3
  <2>4. CASE ~equal
    BY <2>2, <2>4
  <2> QED BY <2>3, <2>4
<1> HIDE DEF kept, dropped
<1>4. Ids(q) \cap Ids(kept) = {} /\ dropped \cap (Ids(q) \cup Ids(kept)) = {}
  BY <1>2, <1>3
<1>5. \E rest, k, gone : ScanGives(Below, dropped \cup Ids(q) \cup Ids(kept), Top.sel, Top.is_nil, rest, k, gone)
  BY <1>1, <1>2, <1>3, <1>4, ScanQueues
<1>6. dropped \cup Ids(q) \cup Ids(kept) = HeldBy(Top)
  BY <1>2, <1>3 DEF HeldBy
<1> QED BY <1>5, <1>6

LEMMA IsEqualQueues ==
  ASSUME LoopInv, RequestsInv, NEW equal, isEqual_returns(equal)
  PROVE  RequestsInv' /\ (QuietInv => QuietInv')
<1> DEFINE m == Len(stack)
<1>1. m \in Frames /\ m \in CancelFrames /\ stack[m] = Top /\ Top.kind = "cancel" /\ m \in Nat \ {0}
  BY RunLoopAssumption DEF isEqual_returns, LoopInv, StackInv, Frames, CancelFrames, Top
<1>2. HoldSane(Top) /\ HeldBy(Top) \subseteq Pending \ Ids(requests)
  BY <1>1 DEF RequestsInv
<1>3. PICK rest, k, gone : ScanGives(Below, HeldBy(Top), Top.sel, Top.is_nil, rest, k, gone)
  BY <1>2, ComparedScan DEF HoldSane
<1>4. gone \subseteq HeldBy(Top) /\ Ids(rest) \cup Ids(k) = HeldBy(Top) \ gone
  BY <1>3 DEF ScanGives
<1>5. fate' \in [Requests -> Fates] /\ Pending' = Pending \ gone /\ Settled' = Settled \cup gone
  <2>1. fate' = Cancelled(gone) /\ gone \subseteq Pending
    BY <1>2, <1>3, <1>4 DEF ScanGives
  <2> QED BY <2>1, CancelledFate
<1>6. IsStack(Below) /\ Len(Below) = m - 1 /\ \A i \in 1 .. m - 1 : Below[i] = stack[i]
  BY <1>1, PopFacts DEF LoopInv, StackInv, Below
<1>7. \A f \in CancelFrames \ {m} :
        HoldSane(stack[f]) /\ HeldBy(stack[f]) \subseteq Pending' \ Ids(requests)
        /\ HeldBy(stack[f]) \cap HeldBy(Top) = {}
  BY <1>1, <1>4, <1>5 DEF RequestsInv
<1>8. \A f, g \in CancelFrames : f # g => HeldBy(stack[f]) \cap HeldBy(stack[g]) = {}
  BY DEF RequestsInv
<1>9. \A f \in Frames : Performing(stack[f]) => \E r \in Settled' : stack[f].req = <<r>>
  BY <1>5 DEF RequestsInv
<1>10. ASSUME QuietInv PROVE CancelFrames = {m} /\ requests = <<>> /\ Pending \subseteq HeldBy(Top)
  <2>1. CancelFrames = {m} /\ requests = <<>>
    BY <1>1, <1>10 DEF QuietInv
  <2>2. Ids(requests) = {}
    BY <2>1, SingleListed
  <2> QED BY <1>1, <1>10, <2>1, <2>2 DEF QuietInv
<1>11. Len(Below) < Len(stack)
  BY <1>1, <1>6
<1>12. CASE rest = <<>> /\ requests' = k /\ stack' = Below
  <2>1. Listed(requests') /\ Ids(requests') = HeldBy(Top) \ gone
    <3>1. Ids(rest) = {}
      BY <1>12, SingleListed
    <3>2. Listed(k)
      BY <1>3 DEF ScanGives
    <3> QED BY <1>4, <1>12, <3>1, <3>2
  <2>2. Frames' = Frames \ {m} /\ \A i \in Frames' : stack'[i] = stack[i]
    BY <1>1, <1>6, <1>12 DEF Frames
  <2> HIDE DEF m
  <2>3. CancelFrames' = CancelFrames \ {m} /\ CancelFrames' \subseteq Frames'
    BY <2>2 DEF CancelFrames
  <2>4. (\A f \in CancelFrames : HoldSane(stack[f]) /\ HeldBy(stack[f]) \subseteq Pending \ Ids(requests))'
    <3>1. ASSUME NEW f \in CancelFrames'
          PROVE HoldSane(stack'[f]) /\ HeldBy(stack'[f]) \subseteq Pending' \ Ids(requests')
      BY <1>7, <2>1, <2>2, <2>3
    <3> QED BY <3>1
  <2>5. (\A f, g \in CancelFrames : f # g => HeldBy(stack[f]) \cap HeldBy(stack[g]) = {})'
    <3>1. ASSUME NEW f \in CancelFrames', NEW g \in CancelFrames', f # g
          PROVE HeldBy(stack'[f]) \cap HeldBy(stack'[g]) = {}
      BY <1>8, <2>2, <2>3, <3>1
    <3> QED BY <3>1
  <2>6. (\A f \in Frames : Performing(stack[f]) => \E r \in Settled : stack[f].req = <<r>>)'
    <3>1. ASSUME NEW f \in Frames', Performing(stack'[f]) PROVE \E r \in Settled' : stack'[f].req = <<r>>
      BY <1>9, <2>2, <3>1
    <3> QED BY <3>1
  <2>7. Ids(requests') \subseteq Pending'
    BY <1>2, <1>5, <2>1
  <2>8. RequestsInv'
    BY <1>5, <2>1, <2>4, <2>5, <2>6, <2>7 DEF RequestsInv
  <2>9. ASSUME QuietInv PROVE QuietInv'
    <3>1. CancelFrames' = {} /\ Pending' \subseteq Ids(requests')
      BY <1>5, <1>10, <2>1, <2>3, <2>9
    <3> QED BY <3>1 DEF QuietInv
  <2> QED BY <2>8, <2>9
<1>13. CASE /\ rest # <<>> /\ requests' = requests
            /\ stack' = Append(Below, CancelFrame(Top.sel, Top.is_nil, rest, k))
  <2> DEFINE c == CancelFrame(Top.sel, Top.is_nil, rest, k)
  <2>1. c.kind = "cancel" /\ c.rest = rest /\ c.kept = k
    BY DEF CancelFrame
  <2>2. HoldSane(c) /\ HeldBy(c) = HeldBy(Top) \ gone /\ ~Performing(c)
    <3>1. Listed(rest) /\ Listed(k) /\ Ids(rest) \cap Ids(k) = {}
      BY <1>3 DEF ScanGives
    <3>2. HeldBy(c) = Ids(rest) \cup Ids(k)
      BY <2>1 DEF HeldBy
    <3> HIDE DEF c
    <3> QED BY <1>4, <1>13, <2>1, <3>1, <3>2 DEF HoldSane, Performing
  <2>3. stack' = Append(Below, c)
    BY <1>13
  <2> HIDE DEF c
  <2>4. /\ Len(stack') = Len(Below) + 1 /\ stack'[Len(Below) + 1] = c
        /\ \A i \in 1 .. Len(Below) : stack'[i] = Below[i]
    BY <1>6, <2>3, PushFacts
  <2>5. Len(stack') = m /\ stack'[m] = c /\ \A i \in 1 .. m - 1 : stack'[i] = stack[i]
    BY <1>1, <1>6, <2>4
  <2>6. Frames' = Frames /\ stack'[m] = c /\ \A i \in Frames \ {m} : stack'[i] = stack[i]
    BY <1>1, <2>5 DEF Frames
  <2> HIDE DEF m
  <2>7. CancelFrames' = CancelFrames /\ CancelFrames \subseteq Frames
    BY <1>1, <2>1, <2>6 DEF CancelFrames
  <2>8. (\A f \in CancelFrames : HoldSane(stack[f]) /\ HeldBy(stack[f]) \subseteq Pending \ Ids(requests))'
    <3>1. ASSUME NEW f \in CancelFrames
          PROVE HoldSane(stack'[f]) /\ HeldBy(stack'[f]) \subseteq Pending' \ Ids(requests)
      <4>1. CASE f = m
        BY <1>2, <1>5, <2>2, <2>6, <4>1
      <4>2. CASE f # m
        BY <1>7, <2>6, <2>7, <4>2
      <4> QED BY <4>1, <4>2
    <3> QED BY <1>13, <2>7, <3>1
  <2>9. (\A f, g \in CancelFrames : f # g => HeldBy(stack[f]) \cap HeldBy(stack[g]) = {})'
    <3>1. \A f \in CancelFrames \ {m} : HeldBy(stack[f]) \cap HeldBy(c) = {}
      BY <1>7, <2>2
    <3>2. ASSUME NEW f \in CancelFrames, NEW g \in CancelFrames, f # g
          PROVE HeldBy(stack'[f]) \cap HeldBy(stack'[g]) = {}
      BY <1>8, <2>6, <2>7, <3>1, <3>2
    <3> QED BY <2>7, <3>2
  <2>10. (\A f \in Frames : Performing(stack[f]) => \E r \in Settled : stack[f].req = <<r>>)'
    <3>1. ASSUME NEW f \in Frames, Performing(stack'[f]) PROVE \E r \in Settled' : stack'[f].req = <<r>>
      BY <1>9, <2>2, <2>6, <3>1
    <3> QED BY <2>6, <3>1
  <2>11. Listed(requests') /\ Ids(requests') \subseteq Pending'
    BY <1>2, <1>4, <1>5, <1>13 DEF RequestsInv
  <2>12. RequestsInv'
    BY <1>5, <2>8, <2>9, <2>10, <2>11 DEF RequestsInv
  <2>13. ASSUME QuietInv PROVE QuietInv'
    <3>1. CancelFrames' = {m} /\ requests' = <<>> /\ Pending' \subseteq HeldBy(c)
      BY <1>5, <1>10, <1>13, <2>2, <2>7, <2>13
    <3>2. HeldBy(c) \subseteq (UNION {HeldBy(stack[f]) : f \in CancelFrames})'
      BY <2>6, <3>1
    <3>3. (\A f, g \in CancelFrames : f = g)'
      BY <3>1
    <3> QED BY <3>1, <3>2, <3>3 DEF QuietInv
  <2> QED BY <2>12, <2>13
<1> QED
  <2>1. \/ rest = <<>> /\ requests' = k /\ stack' = Below
        \/ /\ rest # <<>> /\ requests' = IF Len(Below) < Len(stack) THEN requests ELSE <<>>
           /\ stack' = Append(Below, CancelFrame(Top.sel, Top.is_nil, rest, k))
    BY <1>3 DEF ScanGives
  <2> QED BY <1>11, <1>12, <1>13, <2>1
LEMMA RequestsInit == Init => RequestsInv /\ QuietInv
<1> SUFFICES ASSUME Init PROVE RequestsInv /\ QuietInv
  OBVIOUS
<1>1. stack = <<LoopFrame(Forever)>> /\ requests = <<>> /\ fate = [r \in Requests |-> "unsent"]
  BY DEF Init
<1>2. Len(stack) = 1 /\ Frames = {1} /\ stack[1].kind = "loop" /\ stack[1].pc = "events"
  <2>1. Len(stack) = 1 /\ stack[1] = LoopFrame(Forever)
    BY <1>1
  <2>2. 1 .. 1 = {1}
    OBVIOUS
  <2> QED BY <2>1, <2>2 DEF Frames, LoopFrame
<1>3. CancelFrames = {} /\ ~Performing(stack[1])
  BY <1>2 DEF CancelFrames, Performing
<1>4. Listed(<<>>) /\ Ids(<<>>) = {}
  BY SingleListed
<1>5. fate \in [Requests -> Fates] /\ Pending = {}
  BY <1>1 DEF Fates, Pending
<1> QED BY <1>1, <1>2, <1>3, <1>4, <1>5 DEF RequestsInv, QuietInv

\* Any step keeps the one, and those of quiet guests the other
LEMMA RequestsStep ==
  ASSUME LoopInv, RequestsInv, [Next]_vars
  PROVE  RequestsInv' /\ (QuietInv /\ [QuietNext]_vars => QuietInv')
<1>1. CASE loop_step
  BY <1>1, LoopQueues, RunQueues, EndQueues DEF loop_step
<1>2. CASE guest_returns
  BY <1>2, LoopQueues, FireReturnQueues, PerformedQueues, IsEqualQueues DEF guest_returns
<1>3. CASE tick \/ UNCHANGED vars
  <2>1. UNCHANGED <<requests, fate, stack>>
    BY <1>3 DEF tick, vars
  <2> QED BY <2>1, SameQueues
<1>4. CASE TimerCall
  BY <1>4, TimerCallQueues
<1>5. CASE NestCall
  BY <1>5, NestQueues
<1>6. CASE CancelCall
  BY <1>6, CancelQueues DEF CancelCall
<1>7. CASE DelayCall \/ OtherThread
  <2>1. RequestsInv' /\ (QuietInv /\ ~Cancelling => QuietInv')
    BY <1>7, SendQueues
  <2>2. CASE Cancelling
    <3>1. ASSUME [QuietNext]_vars
          PROVE  loop_step \/ guest_returns \/ tick \/ TimerCall \/ NestCall \/ CancelCall \/ UNCHANGED vars
      BY <2>2, <3>1 DEF QuietNext
    <3> QED BY <1>1, <1>2, <1>3, <1>4, <1>5, <1>6, <2>1, <3>1
  <2> QED BY <2>1, <2>2
<1> QED BY <1>1, <1>2, <1>3, <1>4, <1>5, <1>6, <1>7 DEF Next

LEMMA QuietIsNext == [QuietNext]_vars => [Next]_vars
BY DEF QuietNext, Next

LEMMA OnceInQueue ==
  ASSUME NEW q, Listed(q), NEW r
  PROVE  /\ \A i, j \in InQueue(q, r) : i = j
         /\ InQueue(q, r) # {} <=> r \in Ids(q)
BY DEF Listed, InQueue, Ids

\* All the places of a request are one, and it has one just when it is listed
LEMMA OnePlace ==
  ASSUME RequestsInv, NEW r
  PROVE  /\ PlacesOf(r) = {} \/ \E p : PlacesOf(r) = {p}
         /\ PlacesOf(r) # {} <=> r \in Ids(requests) \cup UNION {HeldBy(stack[f]) : f \in CancelFrames}
<1> DEFINE Q(p) == \E i \in InQueue(requests, r) : p = <<0, "queue", i>>
           R(p, f) == \E i \in InQueue(stack[f].rest, r) : p = <<f, "rest", i>>
           K(p, f) == \E i \in InQueue(stack[f].kept, r) : p = <<f, "kept", i>>
<1>1. \A p : p \in PlacesOf(r) <=> Q(p) \/ \E f \in CancelFrames : R(p, f) \/ K(p, f)
  BY DEF PlacesOf
<1>2. Listed(requests) /\ \A f \in CancelFrames : HoldSane(stack[f]) /\ HeldBy(stack[f]) \cap Ids(requests) = {}
  BY DEF RequestsInv
<1>3. \A f, g \in CancelFrames : f # g => HeldBy(stack[f]) \cap HeldBy(stack[g]) = {}
  BY DEF RequestsInv
<1>4. \A p : Q(p) => r \in Ids(requests)
  BY <1>2, OnceInQueue
<1>5. ASSUME NEW f \in CancelFrames
      PROVE  /\ \A p : R(p, f) => r \in Ids(stack[f].rest)
             /\ \A p : K(p, f) => r \in Ids(stack[f].kept)
             /\ \A p, o : R(p, f) /\ R(o, f) => p = o
             /\ \A p, o : K(p, f) /\ K(o, f) => p = o
             /\ r \in Ids(stack[f].rest) => \E p : R(p, f)
             /\ r \in Ids(stack[f].kept) => \E p : K(p, f)
  <2>1. Listed(stack[f].rest) /\ Listed(stack[f].kept)
    BY <1>2 DEF HoldSane
  <2> QED BY <2>1, OnceInQueue
<1>6. (\A p, o : Q(p) /\ Q(o) => p = o) /\ (r \in Ids(requests) => \E p : Q(p))
  <2>1. (\A i, j \in InQueue(requests, r) : i = j) /\ (InQueue(requests, r) # {} <=> r \in Ids(requests))
    BY <1>2, OnceInQueue
  <2> QED BY <2>1
<1>7. \A f \in CancelFrames : Ids(stack[f].rest) \cap Ids(stack[f].kept) = {}
  BY <1>2 DEF HoldSane
<1> HIDE DEF Q, R, K
<1>8. ASSUME NEW p \in PlacesOf(r), NEW o \in PlacesOf(r) PROVE p = o
  <2>1. CASE Q(p) /\ Q(o)
    BY <1>6, <2>1
  <2>2. CASE Q(p) /\ \E f \in CancelFrames : R(o, f) \/ K(o, f)
    BY <1>2, <1>4, <1>5, <2>2 DEF HeldBy
  <2>3. CASE Q(o) /\ \E f \in CancelFrames : R(p, f) \/ K(p, f)
    BY <1>2, <1>4, <1>5, <2>3 DEF HeldBy
  <2>4. CASE \E f, g \in CancelFrames : (R(p, f) \/ K(p, f)) /\ (R(o, g) \/ K(o, g))
    <3>1. PICK f \in CancelFrames, g \in CancelFrames : (R(p, f) \/ K(p, f)) /\ (R(o, g) \/ K(o, g))
      BY <2>4
    <3>2. r \in HeldBy(stack[f]) /\ r \in HeldBy(stack[g])
      BY <1>5, <3>1 DEF HeldBy
    <3>3. f = g
      BY <1>3, <3>2
    <3> QED BY <1>5, <1>7, <3>1, <3>3
  <2> QED BY <1>1, <2>1, <2>2, <2>3, <2>4
<1>9. PlacesOf(r) # {} <=> r \in Ids(requests) \cup UNION {HeldBy(stack[f]) : f \in CancelFrames}
  <2>1. \A f \in CancelFrames : r \in HeldBy(stack[f]) <=> \E p : R(p, f) \/ K(p, f)
    BY <1>5 DEF HeldBy
  <2>2. r \in UNION {HeldBy(stack[f]) : f \in CancelFrames} <=> \E f \in CancelFrames : \E p : R(p, f) \/ K(p, f)
    BY <2>1
  <2>3. PlacesOf(r) # {} <=> \E p : Q(p) \/ \E f \in CancelFrames : R(p, f) \/ K(p, f)
    BY <1>1
  <2> QED BY <1>4, <1>6, <2>2, <2>3
<1> QED BY <1>8, <1>9

LEMMA InvOnce == ASSUME RequestsInv PROVE RequestsOnce
<1>1. ASSUME NEW r \in Requests PROVE Cardinality(PlacesOf(r)) <= 1 /\ (PlacesOf(r) # {} => fate[r] = "pending")
  <2>1. PlacesOf(r) = {} \/ \E p : PlacesOf(r) = {p}
    BY OnePlace
  <2>2. CASE PlacesOf(r) = {}
    BY <2>2, FS_EmptySet
  <2>3. CASE \E p : PlacesOf(r) = {p}
    <3>1. Cardinality(PlacesOf(r)) = 1
      BY <2>3, FS_Singleton
    <3>2. r \in Ids(requests) \cup UNION {HeldBy(stack[f]) : f \in CancelFrames}
      BY <2>3, OnePlace
    <3>3. r \in Pending
      BY <3>2 DEF RequestsInv
    <3> QED BY <3>1, <3>3 DEF Pending
  <2> QED BY <2>1, <2>2, <2>3
<1> QED BY <1>1 DEF RequestsOnce

LEMMA InvKept == ASSUME RequestsInv, QuietInv PROVE RequestsKept
<1>1. ASSUME NEW r \in Requests PROVE Cardinality(PlacesOf(r)) = IF fate[r] = "pending" THEN 1 ELSE 0
  <2>1. PlacesOf(r) # {} => fate[r] = "pending"
    BY InvOnce DEF RequestsOnce
  <2>2. CASE PlacesOf(r) = {}
    <3>1. r \notin Pending
      BY <2>2, OnePlace DEF QuietInv
    <3> QED BY <2>2, <3>1, FS_EmptySet DEF Pending
  <2>3. CASE PlacesOf(r) # {}
    <3>1. Cardinality(PlacesOf(r)) = 1
      BY <2>3, OnePlace, FS_Singleton
    <3> QED BY <2>1, <2>3, <3>1
  <2> QED BY <2>2, <2>3
<1>2. ASSUME IsFiniteSet(Requests) PROVE Len(requests) <= Cardinality(Requests)
  <2> DEFINE N == Len(requests)  h == [i \in 1 .. N |-> requests[i].id]
  <2>1. N \in Nat /\ \A i, j \in 1 .. N : requests[i].id = requests[j].id => i = j
    BY DEF RequestsInv, Listed, IsStack
  <2>2. \A i \in 1 .. N : requests[i].id \in Requests
    BY DEF RequestsInv, Ids, Pending
  <2>3. h \in Injection(1 .. N, Requests)
    <3> HIDE DEF N
    <3> QED BY <2>1, <2>2 DEF Injection, IsInjective
  <2>4. Cardinality(1 .. N) <= Cardinality(Requests)
    BY <1>2, <2>3, FS_Injection
  <2>5. Cardinality(1 .. N) = N
    <3>1. N \in Nat
      BY <2>1
    <3> HIDE DEF N
    <3> QED BY <3>1, FS_Interval
  <2> QED BY <2>4, <2>5
<1> QED BY <1>1, <1>2 DEF RequestsKept

\* However run loops, performances and cancellations are nested, and whoever sends in between:
\* no request is ever queued twice, nor again once it is being performed or was cancelled.
THEOREM NothingTwice == Spec => []RequestsOnce
<1>1. Spec => []LoopInv
  BY LoopInit, LoopStep, PTL DEF Spec
<1>2. LoopInv /\ RequestsInv /\ [Next]_vars => RequestsInv'
  BY RequestsStep
<1>3. Init => RequestsInv
  BY RequestsInit
<1>4. Spec => []RequestsInv
  BY <1>1, <1>2, <1>3, PTL DEF Spec
<1>5. RequestsInv => RequestsOnce
  BY InvOnce
<1> QED BY <1>4, <1>5, PTL

\* Of guests that send nothing while the main thread compares arguments none loses a request:
\* until it is performed or cancelled it is in the queue or in the hands of the one cancellation.
THEOREM NothingLost == QuietSpec => []RequestsKept
<1>1. LoopInv /\ [QuietNext]_vars => LoopInv'
  BY QuietIsNext, LoopStep
<1>2. LoopInv /\ RequestsInv /\ QuietInv /\ [QuietNext]_vars => RequestsInv' /\ QuietInv'
  BY QuietIsNext, RequestsStep
<1>3. Init => LoopInv /\ RequestsInv /\ QuietInv
  BY LoopInit, RequestsInit
<1>4. QuietSpec => [](LoopInv /\ RequestsInv /\ QuietInv)
  BY <1>1, <1>2, <1>3, PTL DEF QuietSpec
<1>5. LoopInv /\ RequestsInv /\ QuietInv => RequestsKept
  BY InvKept
<1> QED BY <1>4, <1>5, PTL
============================================================================
