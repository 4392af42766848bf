------------------------------- MODULE ALSource -------------------------------
(***************************************************************************)
(* A streaming source of OpenAL (external): what alSourcePlay, Pause, Stop *)
(* and the queries do, as the audio queues, the audio units and the guest's *)
(* own OpenAL calls rely on.  A source that never played stays initial     *)
(* when it is stopped, and none of its buffers counts as processed.        *)
(***************************************************************************)
EXTENDS Integers, Sequences

NoSource == [state |-> "none", queue |-> <<>>, done |-> 0]
HasSource(s) == s.state # "none"
NewSource == [NoSource EXCEPT !.state = "initial"]
Processed(s) ==
  CASE s.state = "stopped" -> Len(s.queue)
    [] s.state \in {"playing", "paused"} -> s.done
    [] OTHER -> 0
SourcePlay(s) ==
  [s EXCEPT !.state = IF s.queue = <<>> THEN "stopped" ELSE "playing",
            !.done = IF s.state = "paused" THEN s.done ELSE 0]
SourcePause(s) == IF s.state = "playing" THEN [s EXCEPT !.state = "paused"] ELSE s
SourceStop(s) == IF s.state \in {"playing", "paused"} THEN [s EXCEPT !.state = "stopped"] ELSE s
Unqueued(s) ==
  LET n == Processed(s) IN [s EXCEPT !.queue = SubSeq(@, n + 1, Len(@)), !.done = 0]
SourceRewind(s) == IF HasSource(s) THEN [s EXCEPT !.state = "initial", !.done = 0] ELSE s
\* The first n processed buffers leave the queue
UnqueuedN(s, n) == [s EXCEPT !.queue = SubSeq(@, n + 1, Len(@)), !.done = IF s.state = "stopped" THEN 0 ELSE @ - n]
\* A buffer of a playing source has been played
SourceAdvances(s) ==
  [s EXCEPT !.done = @ + 1, !.state = IF s.done + 1 = Len(s.queue) THEN "stopped" ELSE @]
=============================================================================
