------------------------------ MODULE MCRunLoop ------------------------------
(***************************************************************************)
(* Guests for the run loop.  A behaviour is that of one guest, chosen at   *)
(* the start.                                                              *)
(***************************************************************************)
EXTENDS RunLoop

CONSTANT Guests   \* the guests to look at
VARIABLE guest

\* The place of a request in an order
Order == SetToSeq(Requests)
Rank(r) == CHOOSE i \in DOMAIN Order : Order[i] = r
\* A guest that uses one timer, in any way
First == CHOOSE t \in Timers : TRUE
timer_guest == TimerCall /\ \A t \in Timers \ {First} : ~tm'[t].made
\* One that uses several, which it makes at the start and all but one of which are repeating
\* ones with the shortest interval, which it does not fire itself; that one it keeps
Plain(t) == tm'[t].made => tm'[t].repeats /\ tm'[t].interval = Min(Intervals)
FiresFirst == \A i \in DOMAIN stack' : stack'[i].kind = "fire" => stack'[i].timer = {First}
pair_guest ==
  /\ TimerCall /\ FiresFirst
  /\ \A t \in Timers : (tm'[t].made # tm[t].made => now = 0) /\ (t # First => Plain(t))
  /\ tm[First].held => tm'[First].held
\* Guest threads that send and cancel perform requests, but send none while the main thread
\* compares arguments.  Requests are interchangeable: they are sent in a fixed order
InOrder == \A r \in Requests : fate'[r] # "unsent" => \A q \in Requests : Rank(q) < Rank(r) => fate'[q] # "unsent"
request_guest == CancelCall \/ (~Cancelling /\ (DelayCall \/ OtherThread) /\ InOrder)
\* Nested loops run once or as long as they can
nest == run_run_loop(0) \/ run_run_loop(MaxTime)

GuestNext ==
  /\ \/ guest = "timer" /\ timer_guest
     \/ guest = "pair" /\ pair_guest
     \/ guest = "requests" /\ request_guest
     \/ loop_step \/ guest_returns \/ nest
     \/ tick /\ (guest # "timer" => now' < MaxTime)
  /\ UNCHANGED guest
GuestInit == Init /\ guest \in Guests
GuestSpec == GuestInit /\ [][GuestNext]_<<vars, guest>>
FairGuestSpec == GuestSpec /\ Fairness
=============================================================================
