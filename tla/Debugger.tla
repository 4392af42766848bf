------------------------------ MODULE Debugger ------------------------------
(***************************************************************************)
(* The remote debugging server (gdb.rs) and how the executor               *)
(* (environment.rs) hands control to it: a thread that meets an error of   *)
(* the CPU, and every thread while single-stepping, stops, and a packet of *)
(* the debugger resumes it.  A packet has two parts, which TCP may deliver *)
(* together or not; BufReader reads from the socket only when its buffer   *)
(* is empty.  The debugger (external) sends one command and waits for its  *)
(* reply, and after `c' and `s' for the next stop.                         *)
(***************************************************************************)
EXTENDS Integers, Sequences, FiniteSets

CONSTANTS
  Threads,
  MaxPackets  \* packets the debugger sends

VARIABLES
  thread,     \* [alive, blocked] of each thread
  cur,        \* Environment::current_thread
  stepping,   \* of Environment::run
  halted,     \* is wait_for_debugger running, and why: [on, reason]
  wire, sock, \* tokens on their way, and those that arrived
  buf,        \* of GdbServer::reader
  out,        \* replies on their way to the debugger
  dbg,        \* the debugger may send a "command", awaits a "reply" or the target is "running"
  code,       \* an instruction in memory: "plain", or "break" once the debugger put one there
  cache,      \* what the CPU has translated of it, or "none"
  asked,      \* ghost: how the debugger resumed last
  fresh,      \* ghost: did the CPU run what is in memory?
  packets, panic
vars == <<thread, cur, stepping, halted, wire, sock, buf, out, dbg, code, cache, asked, fresh, packets, panic>>

Ack == "+"
End == "#"
Reads == {"g", "p", "m", "q"}
Writes == {"G", "P"}
Commands == Reads \cup Writes \cup {"M", "?", "c", "s", "k"}
Halted(reason) == [on |-> TRUE, reason |-> reason]
NotHalted == [on |-> FALSE, reason |-> "none"]

\* The debugger has connected and the program waits for it to continue: the
\* first halt, of which the debugger is not told (first_halt)
Init ==
  /\ thread = [t \in Threads |-> [alive |-> TRUE, blocked |-> "no"]] /\ cur \in Threads
  /\ stepping = FALSE /\ halted = Halted("none")
  /\ wire = <<>> /\ sock = <<>> /\ buf = <<>> /\ out = <<>> /\ dbg = "command"
  /\ code = "plain" /\ cache = "none" /\ asked = "none" /\ fresh = TRUE /\ packets = 0 /\ panic = FALSE

-----------------------------------------------------------------------------
\* The debugger and the network (external)
Target == UNCHANGED <<thread, cur, stepping, halted, buf, code, cache, asked, fresh, panic>>
debugger_sends(cmd) ==
  /\ ~panic /\ dbg = "command" /\ packets < MaxPackets /\ packets' = packets + 1
  /\ wire' = wire \o <<cmd, End>> /\ dbg' = (IF cmd \in {"c", "s"} THEN "running" ELSE "reply")
  /\ Target /\ UNCHANGED <<sock, out>>
debugger_receives ==
  /\ ~panic /\ out # <<>> /\ out' = Tail(out) /\ dbg' = "command" /\ wire' = Append(wire, Ack)
  /\ Target /\ UNCHANGED <<sock, packets>>
\* Everything sent so far arrives, or only a part
arrive(n) ==
  /\ ~panic /\ n \in 1..Len(wire)
  /\ sock' = sock \o SubSeq(wire, 1, n) /\ wire' = SubSeq(wire, n + 1, Len(wire))
  /\ Target /\ UNCHANGED <<out, dbg, packets>>

-----------------------------------------------------------------------------
\* read_packet.  fill_buf: the buffer, or if it is empty what has arrived
Filled == IF buf = <<>> THEN sock ELSE buf
Unread == IF buf = <<>> THEN <<>> ELSE sock
HasPacket == Len(Filled) >= 2 /\ Filled[1] # Ack
Net == UNCHANGED <<wire, dbg, packets>>
read_nothing ==
  /\ ~panic /\ halted.on /\ Filled # <<>> /\ ~HasPacket
  /\ buf' = (IF Filled[1] = Ack THEN Tail(Filled) ELSE Filled) /\ sock' = Unread
  /\ Net /\ UNCHANGED <<thread, cur, stepping, halted, out, code, cache, asked, fresh, panic>>
Consumed == buf' = SubSeq(Filled, 3, Len(Filled)) /\ sock' = Unread
Reply == out' = Append(out, "reply")
StaysHalted == UNCHANGED <<thread, cur, stepping, halted, asked, fresh>>
\* Packets that are answered: registers and memory are read and written (the
\* values are left out), queries
answer ==
  /\ ~panic /\ halted.on /\ HasPacket /\ Filled[1] \in Reads \cup Writes
  /\ Consumed /\ Reply /\ StaysHalted /\ Net /\ UNCHANGED <<code, cache, panic>>
\* M: the translation of what is written to is dropped
invalidate_cache_range_not == cache
invalidate_cache_range == "none"
write_memory(i) ==
  /\ ~panic /\ halted.on /\ HasPacket /\ Filled[1] = "M" /\ code' = i
  /\ cache' = invalidate_cache_range
  /\ Consumed /\ Reply /\ StaysHalted /\ Net /\ UNCHANGED panic
\* `?' is only expected when there was no error; `k' ends the program
question ==
  /\ ~panic /\ halted.on /\ HasPacket /\ Filled[1] = "?"
  /\ panic' = (halted.reason # "none") /\ Consumed
  /\ (IF halted.reason # "none" THEN UNCHANGED out ELSE Reply) /\ StaysHalted /\ Net /\ UNCHANGED <<code, cache>>
kill ==
  /\ ~panic /\ halted.on /\ HasPacket /\ Filled[1] = "k" /\ panic' = TRUE
  /\ Consumed /\ StaysHalted /\ Net /\ UNCHANGED <<out, code, cache>>
\* c and s: wait_for_debugger returns whether to step, and the executor goes on
Stepping(step) == stepping \/ step
resume(cmd) ==
  /\ ~panic /\ halted.on /\ HasPacket /\ Filled[1] = cmd
  /\ IF asked = "none" /\ cmd = "s" THEN panic' = TRUE /\ UNCHANGED stepping
     ELSE stepping' = Stepping(cmd = "s") /\ UNCHANGED panic
  /\ halted' = NotHalted /\ asked' = cmd
  /\ Consumed /\ Net /\ UNCHANGED <<thread, cur, out, code, cache, fresh>>

-----------------------------------------------------------------------------
\* The executor.  A thread runs for its time slice, or one instruction when
\* stepping, and yields: at the end of the slice, blocked, after its end, or
\* with an error of the CPU
Runnable(t) == thread[t].alive /\ thread[t].blocked = "no"
\* The CPU runs what it has translated, and translates what it has not
Translated == IF cache = "none" THEN code ELSE cache
Yields(how) ==
  CASE how = "slice" -> UNCHANGED thread
    [] how = "error" -> UNCHANGED thread
    [] how = "blocks" -> thread' = [thread EXCEPT ![cur].blocked = "other"]
    [] how = "exits" -> thread' = [thread EXCEPT ![cur].alive = FALSE]
run_thread(how) ==
  LET reason == IF how = "error" THEN "error" ELSE "none"
      seen == Translated
  IN  /\ ~panic /\ ~halted.on /\ Runnable(cur)
      /\ (how = "error") = (seen = "break")
      /\ Yields(how) /\ cache' = seen /\ fresh' = (fresh /\ seen = code)
      /\ cur' \in (IF stepping \/ how = "error"
                     THEN IF how \in {"blocks", "exits"} THEN {t \in Threads \ {cur} : Runnable(t)} ELSE {cur}
                   ELSE {t \in Threads : thread'[t].alive /\ thread'[t].blocked = "no"})
      /\ IF stepping \/ how = "error"
           THEN halted' = Halted(reason) /\ out' = Append(out, "stop")
           ELSE UNCHANGED <<halted, out>>
      /\ Net /\ UNCHANGED <<stepping, sock, buf, code, asked, panic>>
\* What another thread waited for happens
wake(t) ==
  /\ ~panic /\ ~halted.on /\ thread[t].alive /\ thread[t].blocked = "other"
  /\ thread' = [thread EXCEPT ![t].blocked = "no"]
  /\ Net /\ UNCHANGED <<cur, stepping, halted, sock, buf, out, code, cache, asked, fresh, panic>>

ReadPacket == read_nothing \/ answer \/ question \/ kill \/ (\E i \in {"plain", "break"} : write_memory(i)) \/ \E c \in {"c", "s"} : resume(c)
Next ==
  \/ \E c \in Commands : debugger_sends(c)
  \/ debugger_receives \/ \E n \in 1..3 : arrive(n)
  \/ ReadPacket
  \/ \E how \in {"slice", "error", "blocks", "exits"} : run_thread(how)
  \/ \E t \in Threads : wake(t)
Spec == Init /\ [][Next]_vars

-----------------------------------------------------------------------------
\* The debugger is owed exactly one reply for what it sent, or a stop while
\* the program runs, and gets no other; the thread it sees can run on; and the
\* CPU never runs an instruction that the debugger has replaced
Waiting(s) == Cardinality({i \in DOMAIN s : s[i] \in Commands})
DebuggerServed ==
  /\ ~panic => Waiting(wire) + Waiting(sock) + Waiting(buf) + Len(out) + (IF halted.on THEN 0 ELSE 1) = (IF dbg = "command" THEN 0 ELSE 1)
  /\ halted.on => Runnable(cur)
  /\ fresh

\* "or [false] if it should resume normal execution": after `c' the program
\* runs until it meets an error
ContinueResumes == halted.on /\ asked = "c" => halted.reason # "none"
=============================================================================
