----------------------------- MODULE AudioQueue -----------------------------
(***************************************************************************)
(* An output audio queue (frameworks/audio_toolbox/audio_queue.rs): guest  *)
(* buffers go through buffer_queue into the queue of an OpenAL source and  *)
(* come back to the guest in callbacks.  Three parties take turns: guest   *)
(* threads, which may call the API at any time, also from a callback; the  *)
(* handler, run by a run loop or by the internal audio thread, which stops *)
(* being atomic whenever it calls the guest; and the audio device, which   *)
(* is taken to make no progress while host code of the handler runs.       *)
(***************************************************************************)
EXTENDS ALSource, FiniteSets, SequencesExt, SequenceTheorems, TLAPS

CONSTANTS
  Buffers,       \* guest addresses of AudioQueueBuffers
  QueueKinds,    \* what AudioQueueNewOutput may be asked for: see Kind
  OutputFails,   \* may creating the OpenAL source fail?
  MaxQueue       \* bound on the length of buffer_queue

\* internal: run_loop is null, and the internal audio thread serves the queue;
\* supported: is_supported_audio_format; tiny: the buffers with a capacity of
\* at most 4 bytes
Kind == [internal : BOOLEAN, supported : BOOLEAN, tiny : SUBSET Buffers]

ASSUME AudioAssumption ==
  /\ QueueKinds \subseteq Kind
  /\ OutputFails \in BOOLEAN
  /\ MaxQueue \in Nat

VARIABLES
  q,         \* AudioQueueHostObject; alive: is it in State::audio_queues?
  al,        \* the OpenAL source: its state, queue and playing position
  phase,     \* where the handler is: idle, or in which guest call
  to_reuse,  \* buffers_to_reuse, the first being in its callback
  snapshot,  \* is_running as the handler read it
  panic

vars == <<q, al, phase, to_reuse, snapshot, panic>>

device_plays ==
  /\ al.state = "playing"
  /\ al' = SourceAdvances(al)
  /\ UNCHANGED <<q, phase, to_reuse, snapshot, panic>>

-----------------------------------------------------------------------------
Internal == q.kind.internal
Supported == q.kind.supported
IsTiny(o) == o.buffer_queue # <<>> /\ Head(o.buffer_queue) \in o.kind.tiny

\* prime_audio_queue: with a source (if one can be had) and at least two
\* unprocessed buffers queued on it, as far as there are any.  A source of
\* the internal thread is deferred while a tiny buffer is first.
Deferred(o) == Internal /\ (o.buffer_queue = <<>> \/ IsTiny(o))
Primes(o) == Supported /\ ~o.failed /\ ~Deferred(o)
GenSourceFails(o, s, gen_ok) == Primes(o) /\ ~HasSource(s) /\ ~gen_ok
QueuedLength(o, s) ==
  LET want == IF s.state = "stopped" THEN Len(o.buffer_queue) ELSE Processed(s) + 2
      most == IF want < Len(o.buffer_queue) THEN want ELSE Len(o.buffer_queue)
  IN  IF most > Len(s.queue) THEN most ELSE Len(s.queue)
NextToQueue(o, s) == SubSeq(o.buffer_queue, Len(s.queue) + 1, QueuedLength(o, s))
PrimedSource(o, s0, gen_ok) ==
  LET s == IF HasSource(s0) THEN s0 ELSE NewSource
  IN  IF ~Primes(o) \/ GenSourceFails(o, s0, gen_ok) THEN s0
      ELSE [s EXCEPT !.queue = @ \o NextToQueue(o, s)]
PrimedQueue(o, s, gen_ok) == [o EXCEPT !.failed = @ \/ GenSourceFails(o, s, gen_ok)]
\* the assertion of its loop
PrimeAsserts(o, s) == Primes(o) /\ Len(s.queue) > Len(o.buffer_queue)
GenOutcomes == IF OutputFails THEN BOOLEAN ELSE {TRUE}

\* AudioQueueReset, on a source that is stopped first if need be
ResetSource(s) == IF HasSource(s) THEN Unqueued(SourceStop(s)) ELSE s
ResetQueue(o) == [o EXCEPT !.buffer_queue = <<>>]
ResetAsserts(o, s) == Processed(SourceStop(s)) > Len(o.buffer_queue)
\* finish_stopping_audio_queue
StoppedQueue(o) == [ResetQueue(o) EXCEPT !.is_running = "Stopped"]

Init ==
  /\ \E kind \in QueueKinds :
     q = [alive |-> TRUE, is_running |-> "Stopped", buffers |-> {}, buffer_queue |-> <<>>,
          failed |-> FALSE, is_running_handler |-> FALSE, initial_callback_sent |-> FALSE,
          listener |-> FALSE, kind |-> kind]
  /\ al = NoSource
  /\ phase = "idle" /\ to_reuse = <<>> /\ snapshot = "Stopped"
  /\ panic = "no"

\* A guest call needs a queue that has not been disposed of
Calling == panic = "no" /\ q.alive
handlerVars == <<phase, to_reuse, snapshot>>
Panic(site) == panic' = site /\ UNCHANGED <<q, al>>
Return == UNCHANGED <<handlerVars, panic>>

AudioQueueAllocateBuffer(b) ==
  /\ Calling /\ b \notin q.buffers
  /\ q' = [q EXCEPT !.buffers = @ \cup {b}]
  /\ UNCHANGED al /\ Return

\* kAudioQueueErr_BufferInQueue, or the buffer's memory is freed
AudioQueueFreeBuffer_unchecked(b) ==
  /\ Calling /\ b \in q.buffers
  /\ q' = [q EXCEPT !.buffers = @ \ {b}]
  /\ UNCHANGED al /\ Return
AudioQueueFreeBuffer(b) ==
  /\ Calling /\ b \in q.buffers /\ ~Contains(q.buffer_queue, b)
  /\ q' = [q EXCEPT !.buffers = @ \ {b}]
  /\ UNCHANGED al /\ Return

AudioQueueEnqueueBuffer(b) ==
  LET o == [q EXCEPT !.buffer_queue = Append(@, b)]
  IN  /\ Calling /\ b \in q.buffers /\ Len(q.buffer_queue) < MaxQueue
      /\ \/ q.is_running # "Running" /\ q' = o /\ UNCHANGED al /\ Return
         \/ /\ q.is_running = "Running" /\ PrimeAsserts(o, al)
            /\ Panic("out_of_sync") /\ UNCHANGED handlerVars
         \/ /\ q.is_running = "Running" /\ ~PrimeAsserts(o, al)
            /\ \E gen_ok \in GenOutcomes :
                  LET s == PrimedSource(o, al, gen_ok)
                  IN  /\ q' = PrimedQueue(o, al, gen_ok)
                      /\ al' = IF Supported /\ HasSource(s) THEN SourcePlay(s) ELSE s
            /\ Return

AudioQueuePrime ==
  /\ Calling
  /\ \/ PrimeAsserts(q, al) /\ Panic("out_of_sync") /\ UNCHANGED handlerVars
     \/ /\ ~PrimeAsserts(q, al)
        /\ \E gen_ok \in GenOutcomes :
              q' = PrimedQueue(q, al, gen_ok) /\ al' = PrimedSource(q, al, gen_ok)
        /\ Return

AudioQueueStart ==
  /\ Calling
  /\ \/ PrimeAsserts(q, al) /\ Panic("out_of_sync") /\ UNCHANGED handlerVars
     \/ /\ ~PrimeAsserts(q, al)
        /\ \E gen_ok \in GenOutcomes :
              LET s == PrimedSource(q, al, gen_ok)
              IN  /\ q' = [PrimedQueue(q, al, gen_ok) EXCEPT
                             !.is_running = "Running",
                             !.initial_callback_sent = q.is_running # "Stopped" /\ @]
                  /\ al' = IF Supported /\ HasSource(s) THEN SourcePlay(s) ELSE s
        /\ Return

AudioQueuePause ==
  /\ Calling
  /\ q' = [q EXCEPT !.is_running = "Stopped"]
  /\ al' = SourcePause(al)
  /\ Return

\* Immediately, or by the handler once the source has run out of data
AudioQueueStop(in_immediate) ==
  /\ Calling
  /\ \/ /\ in_immediate /\ ResetAsserts(q, al)
        /\ Panic("out_of_sync") /\ UNCHANGED handlerVars
     \/ /\ in_immediate /\ ~ResetAsserts(q, al)
        /\ q' = StoppedQueue(q) /\ al' = ResetSource(al)
        /\ Return
     \/ /\ ~in_immediate /\ q.is_running # "Stopped"
        /\ q' = [q EXCEPT !.is_running = "Stopping"]
        /\ UNCHANGED al /\ Return

AudioQueueReset ==
  /\ Calling
  /\ \/ ResetAsserts(q, al) /\ Panic("out_of_sync") /\ UNCHANGED handlerVars
     \/ /\ ~ResetAsserts(q, al)
        /\ q' = ResetQueue(q) /\ al' = ResetSource(al)
        /\ Return

AudioQueueAddPropertyListener ==
  /\ Calling /\ q' = [q EXCEPT !.listener = TRUE] /\ UNCHANGED al /\ Return
AudioQueueRemovePropertyListener ==
  /\ Calling /\ q' = [q EXCEPT !.listener = FALSE] /\ UNCHANGED al /\ Return

\* The buffers are freed and the source is deleted
AudioQueueDispose ==
  /\ Calling
  /\ q' = [q EXCEPT !.alive = FALSE, !.buffers = {}]
  /\ al' = NoSource
  /\ Return

-----------------------------------------------------------------------------
(***************************************************************************)
(* handle_audio_queue.  Nested calls find is_running_handler set and       *)
(* return, so that it begins only when idle.                               *)
(***************************************************************************)
BeginsIdle == Calling /\ phase = "idle"

\* The callback for a tiny buffer of an internal queue
ProbeBegins == Internal /\ q.is_running = "Running" /\ ~q.is_running_handler /\ IsTiny(q)
probe_callback ==
  /\ BeginsIdle /\ ProbeBegins
  /\ q' = [q EXCEPT !.buffer_queue = Tail(@), !.is_running_handler = TRUE]
  /\ phase' = "probe" /\ to_reuse' = <<Head(q.buffer_queue)>>
  /\ UNCHANGED <<al, snapshot, panic>>

\* handle_silent_audio_queue: without output, buffers are recycled unplayed,
\* and the guest is asked once for data (with the first of its buffers, here
\* any) if it has queued nothing
Silent == ~HasSource(al) /\ q.failed
silent_callback ==
  /\ BeginsIdle /\ ~ProbeBegins /\ Silent /\ Supported
  /\ q.is_running # "Stopped" /\ ~q.is_running_handler
  /\ \/ /\ q.buffer_queue # <<>>
        /\ q' = [q EXCEPT !.buffer_queue = Tail(@), !.is_running_handler = TRUE]
        /\ to_reuse' = <<Head(q.buffer_queue)>>
     \/ /\ q.buffer_queue = <<>> /\ ~q.initial_callback_sent
        /\ \E b \in q.buffers :
              /\ q' = [q EXCEPT !.initial_callback_sent = TRUE, !.is_running_handler = TRUE]
              /\ to_reuse' = <<b>>
  /\ phase' = "silent"
  /\ UNCHANGED <<al, snapshot, panic>>

\* After the callbacks: prime, restart a source that ran out of data, and
\* complete an asynchronous stop if there is none.  seen is is_running as it
\* was before the callbacks.
Restarted(s, seen) ==
  IF seen # "Stopped" /\ s.state = "stopped" THEN SourcePlay(s) ELSE s
StopCompletes_never(s, seen) == FALSE
StopCompletes(s, seen) == seen = "Stopping" /\ s.state = "stopped"
FlagAfter(o, wait) == wait
push_new_buffers(o, s0, seen) ==
  \/ ~o.alive /\ Panic("queue_gone") /\ UNCHANGED handlerVars
  \/ o.alive /\ PrimeAsserts(o, s0) /\ Panic("out_of_sync") /\ UNCHANGED handlerVars
  \/ /\ o.alive /\ ~PrimeAsserts(o, s0)
     /\ LET s == Restarted(PrimedSource(o, s0, TRUE), seen)
            stop == StopCompletes(s, seen)
            wait == stop /\ o.listener
        IN  /\ al' = IF stop THEN ResetSource(s) ELSE s
            /\ q' = [IF stop THEN StoppedQueue(o) ELSE o EXCEPT
                       !.is_running_handler = FlagAfter(o, wait)]
            /\ phase' = IF wait THEN "notify" ELSE "idle"
     /\ to_reuse' = <<>> /\ snapshot' = seen
     /\ UNCHANGED panic

\* The processed buffers leave both queues, and the first callback begins
collect_buffers ==
  LET n == Processed(al)
  IN  /\ BeginsIdle /\ ~ProbeBegins /\ HasSource(al) /\ Supported /\ ~q.is_running_handler
      /\ \/ n > Len(q.buffer_queue) /\ Panic("out_of_sync") /\ UNCHANGED handlerVars
         \/ n = 0 /\ push_new_buffers(q, al, q.is_running)
         \/ /\ n \in 1 .. Len(q.buffer_queue)
            /\ q' = [q EXCEPT !.buffer_queue = SubSeq(@, n + 1, Len(@)),
                              !.is_running_handler = TRUE]
            /\ al' = Unqueued(al)
            /\ to_reuse' = SubSeq(q.buffer_queue, 1, n)
            /\ snapshot' = q.is_running
            /\ phase' = "callbacks"
            /\ UNCHANGED panic

\* A guest callback returns
callback_returns ==
  /\ panic = "no" /\ phase = "callbacks"
  /\ \/ /\ Len(to_reuse) > 1
        /\ to_reuse' = Tail(to_reuse)
        /\ UNCHANGED <<q, al, phase, snapshot, panic>>
     \/ Len(to_reuse) = 1 /\ push_new_buffers(q, al, snapshot)
handler_returns ==
  /\ panic = "no" /\ phase \in {"probe", "silent", "notify"}
  /\ q' = [q EXCEPT !.is_running_handler = FALSE]
  /\ phase' = "idle" /\ to_reuse' = <<>>
  /\ UNCHANGED <<al, snapshot, panic>>

handle_audio_queue ==
  \/ probe_callback \/ silent_callback \/ collect_buffers
  \/ callback_returns \/ handler_returns

PlaybackCall ==
  \/ AudioQueuePause \/ AudioQueueReset
  \/ \E in_immediate \in BOOLEAN : AudioQueueStop(in_immediate)
BufferCall ==
  \E b \in Buffers :
    AudioQueueAllocateBuffer(b) \/ AudioQueueFreeBuffer(b) \/ AudioQueueEnqueueBuffer(b)
ListenerCall == AudioQueueAddPropertyListener \/ AudioQueueRemovePropertyListener
Next ==
  \/ AudioQueueStart \/ PlaybackCall \/ BufferCall \/ ListenerCall
  \/ AudioQueuePrime \/ AudioQueueDispose
  \/ handle_audio_queue
  \/ device_plays

Spec == Init /\ [][Next]_vars

\* The queues of a guest that does not mix tiny and full-sized buffers
PlainKinds ==
  {k \in Kind : k.supported /\ k.tiny \in {{}, IF k.internal THEN Buffers ELSE {}}}

\* A guest that starts queues rather than priming them, only when they do not
\* run yet (alSourcePlay on a playing source begins again), and neither
\* starts nor disposes of a queue inside its callback (a pass of the handler
\* that began with a stopped queue does not restart the source).  While it stops a queue
\* asynchronously it queues nothing more and waits.
CarefulNext ==
  \/ q.is_running = "Stopped" /\ phase = "idle" /\ AudioQueueStart
  \/ q.is_running # "Stopping" /\ (PlaybackCall \/ BufferCall \/ ListenerCall)
  \/ phase = "idle" /\ AudioQueueDispose
  \/ handle_audio_queue
  \/ device_plays

CarefulSpec == Init /\ q.kind \in PlainKinds /\ [][CarefulNext]_vars

-----------------------------------------------------------------------------
(***************************************************************************)
(* Properties.                                                             *)
(***************************************************************************)
\* Every part of the state has its type, the playing position lies in the
\* source's queue, and buffers are handed over exactly while callbacks run.
RunStates == {"Running", "Stopping", "Stopped"}
QueueRecord ==
  [alive : BOOLEAN, is_running : RunStates, buffers : SUBSET Buffers,
   buffer_queue : Seq(Buffers), failed : BOOLEAN, is_running_handler : BOOLEAN,
   initial_callback_sent : BOOLEAN, listener : BOOLEAN, kind : QueueKinds]
SourceRecord ==
  [state : {"none", "initial", "playing", "paused", "stopped"},
   queue : Seq(Buffers), done : Nat]
TypeOK ==
  /\ q \in QueueRecord
  /\ al \in SourceRecord /\ al.done <= Len(al.queue)
  /\ phase \in {"idle", "probe", "silent", "callbacks", "notify"}
  /\ to_reuse \in Seq(Buffers)
  /\ to_reuse # <<>> <=> phase \in {"probe", "silent", "callbacks"}
  /\ snapshot \in RunStates
  /\ panic \in {"no", "out_of_sync", "queue_gone"}

\* "the nth item in this queue must also be the nth item in the OpenAL queue,
\* though the OpenAL queue may be shorter"
QueuesSynced == q.alive /\ panic = "no" => IsPrefix(al.queue, q.buffer_queue)

\* A buffer that is queued has not been freed: priming reads its memory.
QueuedBuffersLive == q.alive => q.buffer_queue \in Seq(q.buffers)

\* One handler at a time, and the flag is clear when none runs: otherwise the
\* queue would never be served again.
HandlerFlag == q.alive /\ panic = "no" => (q.is_running_handler <=> phase # "idle")

\* No buffer is skipped: OpenAL reports every buffer of a stopped source as
\* processed, so one that is pushed to a source that ran dry would be handed
\* back unplayed if the source were not restarted.
NothingSkipped ==
  q.alive /\ panic = "no" /\ phase = "idle" /\ q.is_running # "Stopped" /\ al.state = "stopped"
    => al.done = Len(al.queue)

\* The handler finds the queue it is serving (the unwrap() of prime_audio_queue).
QueueNotGone == panic # "queue_gone"

\* In any hands the queue keeps its buffers and its flags right.
QueueTrue == TypeOK /\ QueuedBuffersLive /\ HandlerFlag

\* In those of a careful guest its two queues agree, every buffer is played
\* and no assertion of prime_audio_queue, handle_audio_queue or
\* AudioQueueReset fails.
QueueFaithful == QueuesSynced /\ NothingSkipped /\ panic = "no"

Fairness == WF_vars(handle_audio_queue) /\ WF_vars(device_plays)

\* A running queue with buffers gives one back to the guest in a callback,
\* played, unplayed for want of an output or as a probe of the internal
\* thread, unless the guest resets, stops or disposes of the queue.
BuffersComeBack ==
  (q.alive /\ Supported /\ q.is_running = "Running" /\ q.buffer_queue # <<>>)
    ~> \/ to_reuse # <<>> \/ q.buffer_queue = <<>>
       \/ q.is_running # "Running" \/ ~q.alive \/ panic # "no"

\* "If it's stopping asynchronously, the audio queue stop can be completed":
\* it is, by the handler that finds the source out of data.  (Without a
\* source, nothing completes it: neither handle_silent_audio_queue nor the
\* handler of an internal queue that was started before it had a buffer.)
AsyncStopCompletes ==
  (q.alive /\ q.is_running = "Stopping" /\ Supported /\ HasSource(al))
    ~> (q.is_running # "Stopping" \/ ~q.alive \/ panic # "no")
-----------------------------------------------------------------------------
(***************************************************************************)
(* Proofs.  A source that plays or is paused has a buffer to play: without *)
(* that the playing position would leave the queue.                        *)
(***************************************************************************)
SourceOk(s) ==
  /\ s \in SourceRecord
  /\ s.done <= Len(s.queue)
  /\ s.state \in {"playing", "paused"} => s.done < Len(s.queue)
  /\ s.state = "none" => s.queue = <<>> /\ s.done = 0

\* The inductive invariant of any guest
QueueInv == QueueTrue /\ SourceOk(al)

\* What a careful guest keeps between a queue o and its source s: the source
\* holds the first buffers of the queue, an internal queue with tiny buffers
\* having none; it has been started and, while the queue runs, stops only
\* when all it holds is played.
HoldsFirst(o, s) ==
  /\ Len(s.queue) <= Len(o.buffer_queue)
  /\ \A i \in 1 .. Len(s.queue) : s.queue[i] = o.buffer_queue[i]
  /\ o.kind.internal /\ o.kind.tiny # {} => s.state = "none"
InStep(o, s) ==
  /\ HoldsFirst(o, s)
  /\ s.state # "initial"
  /\ o.is_running # "Stopped" /\ s.state = "stopped" => s.done = Len(s.queue)

\* The inductive invariant of a careful guest
CarefulInv ==
  /\ QueueInv
  /\ q.kind \in PlainKinds
  /\ panic = "no"
  /\ ~q.alive => phase = "idle"
  /\ q.alive => InStep(q, al)
  /\ phase = "callbacks" => HasSource(al) /\ (snapshot = "Stopped" => q.is_running = "Stopped")

\* What is between m and n of a sequence is one again.
LEMMA Part ==
  ASSUME NEW S, NEW s \in Seq(S), NEW m \in Nat \ {0}, NEW n \in Nat, n <= Len(s)
  PROVE  /\ SubSeq(s, m, n) \in Seq(S)
         /\ Len(SubSeq(s, m, n)) = IF m <= n THEN n - m + 1 ELSE 0
         /\ \A i \in 1 .. Len(SubSeq(s, m, n)) : SubSeq(s, m, n)[i] = s[m + i - 1]
<1>0. Len(s) \in Nat BY LenProperties
<1>1. ASSUME NEW i \in m .. n PROVE s[i] \in S
  <2>1. i \in 1 .. Len(s) BY <1>0
  <2> QED BY <2>1, ElementOfSeq
<1>2. m \in Int /\ n \in Int OBVIOUS
<1>3. /\ SubSeq(s, m, n) \in Seq(S)
      /\ Len(SubSeq(s, m, n)) = IF m <= n THEN n - m + 1 ELSE 0
      /\ \A i \in 1 .. n - m + 1 : SubSeq(s, m, n)[i] = s[m + i - 1]
  BY <1>1, <1>2, SubSeqProperties
<1> QED BY <1>3

\* What is left when the first n are gone
LEMMA Dropped ==
  ASSUME NEW S, NEW s \in Seq(S), NEW n \in Nat, n <= Len(s)
  PROVE  LET t == SubSeq(s, n + 1, Len(s))
         IN  /\ t \in Seq(S) /\ Len(t) = Len(s) - n
             /\ \A i \in 1 .. Len(t) : t[i] = s[n + i]
<1> DEFINE t == SubSeq(s, n + 1, Len(s))
<1>1. Len(s) \in Nat /\ Len(s) <= Len(s) /\ n + 1 \in Nat \ {0} BY LenProperties
<1>2. /\ t \in Seq(S) /\ Len(t) = IF n + 1 <= Len(s) THEN Len(s) - (n + 1) + 1 ELSE 0
      /\ \A i \in 1 .. Len(t) : t[i] = s[(n + 1) + i - 1]
  BY <1>1, Part
<1> HIDE DEF t
<1>3. Len(t) \in Nat /\ Len(t) = Len(s) - n BY <1>1, <1>2
<1>4. ASSUME NEW i \in 1 .. Len(t) PROVE t[i] = s[n + i]
  <2>1. (n + 1) + i - 1 = n + i BY <1>3
  <2> QED BY <1>2, <2>1
<1> QED BY <1>2, <1>3, <1>4 DEF t

\* The three parts of a source of the right types are a source again.
LEMMA SourceEdits ==
  ASSUME NEW s \in SourceRecord
  PROVE  /\ \A x \in {"none", "initial", "playing", "paused", "stopped"} :
              LET t == [s EXCEPT !.state = x]
              IN  t \in SourceRecord /\ t.state = x /\ t.queue = s.queue /\ t.done = s.done
         /\ \A x \in Seq(Buffers) :
              LET t == [s EXCEPT !.queue = x]
              IN  t \in SourceRecord /\ t.queue = x /\ t.state = s.state /\ t.done = s.done
         /\ \A x \in Nat :
              LET t == [s EXCEPT !.done = x]
              IN  t \in SourceRecord /\ t.done = x /\ t.state = s.state /\ t.queue = s.queue
BY DEF SourceRecord

LEMMA NoSourceOk == SourceOk(NoSource) /\ SourceOk(NewSource)
<1>1. <<>> \in Seq(Buffers) /\ Len(<<>>) = 0 BY EmptySeq
<1>2. NoSource \in SourceRecord BY <1>1 DEF SourceRecord, NoSource
<1>3. NewSource \in SourceRecord /\ NewSource.state = "initial"
      /\ NewSource.queue = NoSource.queue /\ NewSource.done = NoSource.done
  <2>1. "initial" \in {"none", "initial", "playing", "paused", "stopped"} OBVIOUS
  <2> HIDE DEF NoSource
  <2> QED BY <1>2, <2>1, SourceEdits DEF NewSource
<1>4. NoSource.state = "none" /\ NoSource.queue = <<>> /\ NoSource.done = 0 BY DEF NoSource
<1>5. SourceOk(NoSource)
  <2> HIDE DEF NoSource
  <2> QED BY <1>1, <1>2, <1>4 DEF SourceOk
<1>6. SourceOk(NewSource)
  <2> HIDE DEF NoSource, NewSource
  <2> QED BY <1>1, <1>3, <1>4 DEF SourceOk
<1> QED BY <1>5, <1>6

LEMMA ProcessedFacts ==
  ASSUME NEW s, SourceOk(s)
  PROVE  /\ Len(s.queue) \in Nat /\ Processed(s) \in Nat /\ Processed(s) <= Len(s.queue)
         /\ s.state = "stopped" => Processed(s) = Len(s.queue)
         /\ s.state \in {"none", "initial"} => Processed(s) = 0
         /\ s.state \in {"playing", "paused"} => Processed(s) < Len(s.queue)
<1>1. Len(s.queue) \in Nat BY LenProperties DEF SourceOk, SourceRecord
<1>2. s.state \in {"none", "initial", "playing", "paused", "stopped"} /\ s.done \in Nat
  BY DEF SourceOk, SourceRecord
<1> QED BY <1>1, <1>2 DEF SourceOk, Processed

\* Playing from the beginning, or going on after a pause
LEMMA PlayOk ==
  ASSUME NEW s, SourceOk(s), HasSource(s)
  PROVE  LET t == SourcePlay(s)
         IN  /\ SourceOk(t) /\ t.queue = s.queue
             /\ t.state = IF s.queue = <<>> THEN "stopped" ELSE "playing"
             /\ s.queue = <<>> => t.done = 0
<1>0. s \in SourceRecord BY DEF SourceOk
<1>1. Len(s.queue) \in Nat /\ (s.queue # <<>> => Len(s.queue) > 0) /\ Len(<<>>) = 0
  BY <1>0, EmptySeq, LenProperties DEF SourceRecord
<1> DEFINE st == IF s.queue = <<>> THEN "stopped" ELSE "playing"
           dn == IF s.state = "paused" THEN s.done ELSE 0
           u == [s EXCEPT !.state = st]
           t == [u EXCEPT !.done = dn]
<1>2. u \in SourceRecord /\ u.state = st /\ u.queue = s.queue /\ u.done = s.done
  <2>1. st \in {"none", "initial", "playing", "paused", "stopped"} OBVIOUS
  <2> QED BY <1>0, <2>1, SourceEdits
<1>3. t \in SourceRecord /\ t.done = dn /\ t.state = u.state /\ t.queue = u.queue
  <2>1. dn \in Nat BY <1>0 DEF SourceRecord
  <2> HIDE DEF u, dn
  <2> QED BY <1>2, <2>1, SourceEdits
<1>4. SourcePlay(s) = t BY <1>0 DEF SourcePlay, SourceRecord
<1>5. dn <= Len(s.queue) /\ (s.queue # <<>> => dn < Len(s.queue)) /\ (s.queue = <<>> => dn = 0)
  <2>1. s.done \in Nat BY <1>0 DEF SourceRecord
  <2>2. s.state = "paused" => s.done < Len(s.queue) BY DEF SourceOk
  <2>3. CASE s.state = "paused"
    <3>1. s.queue # <<>> BY <1>1, <2>1, <2>2, <2>3
    <3> QED BY <1>1, <2>1, <2>2, <2>3, <3>1
  <2> QED BY <1>1, <2>3
<1>6. t.state = st /\ t.queue = s.queue /\ t.done = dn BY <1>2, <1>3
<1>7. SourceOk(t)
  <2> HIDE DEF t, u, dn
  <2> QED BY <1>1, <1>3, <1>5, <1>6 DEF SourceOk
<1> HIDE DEF t, dn
<1> QED BY <1>4, <1>5, <1>6, <1>7

LEMMA PauseOk ==
  ASSUME NEW s, SourceOk(s)
  PROVE  LET t == SourcePause(s)
         IN  /\ SourceOk(t) /\ t.queue = s.queue /\ t.done = s.done
             /\ t.state = IF s.state = "playing" THEN "paused" ELSE s.state
<1>0. s \in SourceRecord BY DEF SourceOk
<1>1. CASE s.state = "playing"
  <2> DEFINE t == [s EXCEPT !.state = "paused"]
  <2>1. t \in SourceRecord /\ t.state = "paused" /\ t.queue = s.queue /\ t.done = s.done
    BY <1>0, SourceEdits
  <2>2. SourcePause(s) = t BY <1>1 DEF SourcePause
  <2> HIDE DEF t
  <2> QED BY <1>1, <2>1, <2>2 DEF SourceOk
<1>2. CASE s.state # "playing"
  BY <1>2 DEF SourcePause
<1> QED BY <1>1, <1>2

LEMMA StopOk ==
  ASSUME NEW s, SourceOk(s)
  PROVE  LET t == SourceStop(s)
         IN  /\ SourceOk(t) /\ t.queue = s.queue /\ t.done = s.done
             /\ t.state = IF s.state \in {"playing", "paused"} THEN "stopped" ELSE s.state
<1>0. s \in SourceRecord BY DEF SourceOk
<1>1. CASE s.state \in {"playing", "paused"}
  <2> DEFINE t == [s EXCEPT !.state = "stopped"]
  <2>1. t \in SourceRecord /\ t.state = "stopped" /\ t.queue = s.queue /\ t.done = s.done
    BY <1>0, SourceEdits
  <2>2. SourceStop(s) = t BY <1>1 DEF SourceStop
  <2> HIDE DEF t
  <2> QED BY <1>1, <2>1, <2>2 DEF SourceOk
<1>2. CASE s.state \notin {"playing", "paused"}
  BY <1>2 DEF SourceStop
<1> QED BY <1>1, <1>2

\* The processed buffers leave; a playing or paused source keeps one.
LEMMA UnqueuedOk ==
  ASSUME NEW s, SourceOk(s)
  PROVE  LET t == Unqueued(s) n == Processed(s)
         IN  /\ SourceOk(t) /\ t.state = s.state /\ t.done = 0
             /\ Len(t.queue) = Len(s.queue) - n
             /\ \A i \in 1 .. Len(t.queue) : t.queue[i] = s.queue[n + i]
<1> DEFINE n == Processed(s)
           rest == SubSeq(s.queue, n + 1, Len(s.queue))
           u == [s EXCEPT !.queue = rest]
           t == [u EXCEPT !.done = 0]
<1>0. s \in SourceRecord /\ s.queue \in Seq(Buffers) BY DEF SourceOk, SourceRecord
<1>1. Len(s.queue) \in Nat /\ n \in Nat /\ n <= Len(s.queue)
      /\ (s.state \in {"playing", "paused"} => n < Len(s.queue))
  BY ProcessedFacts
<1>2. /\ rest \in Seq(Buffers) /\ Len(rest) = Len(s.queue) - n
      /\ \A i \in 1 .. Len(rest) : rest[i] = s.queue[n + i]
  BY <1>0, <1>1, Dropped
<1>3. Len(rest) \in Nat BY <1>2, LenProperties
<1>4. Len(rest) = Len(s.queue) - n /\ \A i \in 1 .. Len(rest) : rest[i] = s.queue[n + i]
  BY <1>2
<1> HIDE DEF rest, n
<1>5. u \in SourceRecord /\ u.queue = rest /\ u.state = s.state /\ u.done = s.done
  BY <1>0, <1>2, SourceEdits
<1>6. t \in SourceRecord /\ t.done = 0 /\ t.state = u.state /\ t.queue = u.queue
  <2>1. u \in SourceRecord /\ 0 \in Nat BY <1>5
  <2> HIDE DEF u
  <2>2. \A x \in Nat :
          LET y == [u EXCEPT !.done = x]
          IN  y \in SourceRecord /\ y.done = x /\ y.state = u.state /\ y.queue = u.queue
    BY <2>1, SourceEdits
  <2> QED BY <2>1, <2>2
<1>7. Unqueued(s) = t BY <1>0 DEF Unqueued, SourceRecord, rest, n
<1> HIDE DEF t, u
<1>8. t.state = s.state /\ t.queue = rest /\ t.done = 0 BY <1>5, <1>6
<1>9. t.state = "none" => t.queue = <<>>
  <2>1. SUFFICES ASSUME t.state = "none" PROVE rest = <<>> BY <1>8
  <2>2. s.queue = <<>> /\ Len(<<>>) = 0 BY <1>8, <2>1, EmptySeq DEF SourceOk
  <2>3. Len(rest) = 0 BY <1>1, <1>3, <1>4, <2>2
  <2> QED BY <1>2, <2>3, EmptySeq
<1>10. SourceOk(t)
  BY <1>1, <1>3, <1>4, <1>6, <1>8, <1>9 DEF SourceOk
<1>11. t.queue = rest BY <1>8
<1> QED BY <1>4, <1>7, <1>8, <1>10, <1>11 DEF n

\* A source that is reset keeps no processed buffer.
LEMMA ResetOk ==
  ASSUME NEW s, SourceOk(s)
  PROVE  LET t == ResetSource(s)
         IN  /\ SourceOk(t) /\ t.done = 0
             /\ t.state = IF s.state \in {"playing", "paused"} THEN "stopped" ELSE s.state
             /\ s.state # "initial" => t.queue = <<>>
<1>1. CASE ~HasSource(s)
  <2>1. s.state = "none" /\ s.queue = <<>> /\ s.done = 0 BY <1>1 DEF HasSource, SourceOk
  <2> QED BY <1>1, <2>1 DEF ResetSource
<1>2. CASE HasSource(s)
  <2> DEFINE u == SourceStop(s)  t == Unqueued(u)
  <2>1. SourceOk(u) /\ u.queue = s.queue
        /\ u.state = IF s.state \in {"playing", "paused"} THEN "stopped" ELSE s.state
    BY StopOk
  <2>2. ResetSource(s) = t BY <1>2 DEF ResetSource
  <2> HIDE DEF u
  <2>3. SourceOk(t) /\ t.state = u.state /\ t.done = 0
        /\ Len(t.queue) = Len(u.queue) - Processed(u)
    BY <2>1, UnqueuedOk
  <2>4. ASSUME s.state # "initial" PROVE t.queue = <<>>
    <3>1. s.state \in {"none", "initial", "playing", "paused", "stopped"}
      BY DEF SourceOk, SourceRecord
    <3>2. u.state = "stopped" BY <1>2, <2>1, <2>4, <3>1 DEF HasSource
    <3>3. Len(u.queue) \in Nat /\ Processed(u) = Len(u.queue) BY <2>1, <3>2, ProcessedFacts
    <3>4. Len(t.queue) = 0 BY <2>3, <3>3
    <3> HIDE DEF t
    <3> QED BY <2>3, <3>4, EmptySeq DEF SourceOk, SourceRecord
  <2> HIDE DEF t
  <2> QED BY <2>1, <2>2, <2>3, <2>4
<1> QED BY <1>1, <1>2

LEMMA AdvanceOk ==
  ASSUME NEW s, SourceOk(s), s.state = "playing"
  PROVE  LET t == SourceAdvances(s)
         IN  /\ SourceOk(t) /\ t.queue = s.queue
             /\ t.state \in {"playing", "stopped"}
             /\ t.state = "stopped" => t.done = Len(t.queue)
<1>0. s \in SourceRecord /\ s.done \in Nat BY DEF SourceOk, SourceRecord
<1>1. Len(s.queue) \in Nat /\ s.done < Len(s.queue) BY ProcessedFacts DEF SourceOk
<1> DEFINE st == IF s.done + 1 = Len(s.queue) THEN "stopped" ELSE "playing"
           u == [s EXCEPT !.done = s.done + 1]
           t == [u EXCEPT !.state = st]
<1>2. u \in SourceRecord /\ u.done = s.done + 1 /\ u.state = s.state /\ u.queue = s.queue
  <2>1. s.done + 1 \in Nat BY <1>0
  <2> QED BY <1>0, <2>1, SourceEdits
<1>3. t \in SourceRecord /\ t.state = st /\ t.queue = u.queue /\ t.done = u.done
  <2>1. st \in {"none", "initial", "playing", "paused", "stopped"} OBVIOUS
  <2> HIDE DEF u, st
  <2> QED BY <1>2, <2>1, SourceEdits
<1>4. SourceAdvances(s) = t BY <1>0 DEF SourceAdvances, SourceRecord
<1> HIDE DEF t, u
<1>5. t.queue = s.queue /\ t.done = s.done + 1 /\ t.state = st BY <1>2, <1>3
<1>6. SourceOk(t) BY <1>0, <1>1, <1>3, <1>5 DEF SourceOk
<1> QED BY <1>4, <1>5, <1>6


-----------------------------------------------------------------------------
\* The parts of a queue object that the invariants speak of, when one changes
LEMMA EditAlive ==
  ASSUME NEW o \in QueueRecord, NEW v \in BOOLEAN
  PROVE  LET y == [o EXCEPT !.alive = v]
         IN  /\ y \in QueueRecord /\ y.alive = v
             /\ y.is_running = o.is_running /\ y.buffers = o.buffers /\ y.buffer_queue = o.buffer_queue
             /\ y.is_running_handler = o.is_running_handler /\ y.kind = o.kind
BY DEF QueueRecord
LEMMA EditRunning ==
  ASSUME NEW o \in QueueRecord, NEW v \in RunStates
  PROVE  LET y == [o EXCEPT !.is_running = v]
         IN  /\ y \in QueueRecord /\ y.is_running = v
             /\ y.alive = o.alive /\ y.buffers = o.buffers /\ y.buffer_queue = o.buffer_queue
             /\ y.is_running_handler = o.is_running_handler /\ y.kind = o.kind
BY DEF QueueRecord
LEMMA EditBuffers ==
  ASSUME NEW o \in QueueRecord, NEW v \in SUBSET Buffers
  PROVE  LET y == [o EXCEPT !.buffers = v]
         IN  /\ y \in QueueRecord /\ y.buffers = v
             /\ y.alive = o.alive /\ y.is_running = o.is_running /\ y.buffer_queue = o.buffer_queue
             /\ y.is_running_handler = o.is_running_handler /\ y.kind = o.kind
BY DEF QueueRecord
LEMMA EditQueue ==
  ASSUME NEW o \in QueueRecord, NEW v \in Seq(Buffers)
  PROVE  LET y == [o EXCEPT !.buffer_queue = v]
         IN  /\ y \in QueueRecord /\ y.buffer_queue = v
             /\ y.alive = o.alive /\ y.is_running = o.is_running /\ y.buffers = o.buffers
             /\ y.is_running_handler = o.is_running_handler /\ y.kind = o.kind
BY DEF QueueRecord
LEMMA EditFailed ==
  ASSUME NEW o \in QueueRecord, NEW v \in BOOLEAN
  PROVE  LET y == [o EXCEPT !.failed = v]
         IN  /\ y \in QueueRecord /\ y.failed = v
             /\ y.alive = o.alive /\ y.is_running = o.is_running /\ y.buffers = o.buffers
             /\ y.buffer_queue = o.buffer_queue /\ y.is_running_handler = o.is_running_handler /\ y.kind = o.kind
BY DEF QueueRecord
LEMMA EditFlag ==
  ASSUME NEW o \in QueueRecord, NEW v \in BOOLEAN
  PROVE  LET y == [o EXCEPT !.is_running_handler = v]
         IN  /\ y \in QueueRecord /\ y.is_running_handler = v
             /\ y.alive = o.alive /\ y.is_running = o.is_running /\ y.buffers = o.buffers
             /\ y.buffer_queue = o.buffer_queue /\ y.kind = o.kind
BY DEF QueueRecord
LEMMA EditSent ==
  ASSUME NEW o \in QueueRecord, NEW v \in BOOLEAN
  PROVE  LET y == [o EXCEPT !.initial_callback_sent = v]
         IN  /\ y \in QueueRecord /\ y.initial_callback_sent = v
             /\ y.alive = o.alive /\ y.is_running = o.is_running /\ y.buffers = o.buffers
             /\ y.buffer_queue = o.buffer_queue /\ y.is_running_handler = o.is_running_handler /\ y.kind = o.kind
BY DEF QueueRecord
LEMMA EditListener ==
  ASSUME NEW o \in QueueRecord, NEW v \in BOOLEAN
  PROVE  LET y == [o EXCEPT !.listener = v]
         IN  /\ y \in QueueRecord /\ y.listener = v
             /\ y.alive = o.alive /\ y.is_running = o.is_running /\ y.buffers = o.buffers
             /\ y.buffer_queue = o.buffer_queue /\ y.is_running_handler = o.is_running_handler /\ y.kind = o.kind
BY DEF QueueRecord

\* The source after priming: it holds some more of the first buffers of the
\* queue, and plays on or stays where it was.
QueuesFrom(s, o, t) ==
  /\ Len(t.queue) \in Len(s.queue) .. Len(o.buffer_queue)
  /\ \A i \in 1 .. Len(t.queue) :
       t.queue[i] = IF i <= Len(s.queue) THEN s.queue[i] ELSE o.buffer_queue[i]

LEMMA QueuedLengthFacts ==
  ASSUME NEW o \in QueueRecord, NEW s, SourceOk(s), Len(s.queue) <= Len(o.buffer_queue)
  PROVE  /\ Len(s.queue) \in Nat /\ Len(o.buffer_queue) \in Nat
         /\ QueuedLength(o, s) \in Len(s.queue) .. Len(o.buffer_queue)
<1>1. Len(s.queue) \in Nat /\ Processed(s) \in Nat BY ProcessedFacts
<1>2. Len(o.buffer_queue) \in Nat BY LenProperties DEF QueueRecord
<1> QED BY <1>1, <1>2 DEF QueuedLength

LEMMA NextFacts ==
  ASSUME NEW o \in QueueRecord, NEW s, SourceOk(s), Len(s.queue) <= Len(o.buffer_queue)
  PROVE  LET n == NextToQueue(o, s)
         IN  /\ n \in Seq(Buffers)
             /\ Len(n) = QueuedLength(o, s) - Len(s.queue)
             /\ \A i \in 1 .. Len(n) : n[i] = o.buffer_queue[Len(s.queue) + i]
<1> DEFINE a == Len(s.queue)  b == QueuedLength(o, s)  n == SubSeq(o.buffer_queue, a + 1, b)
<1>1. a \in Nat /\ Len(o.buffer_queue) \in Nat /\ b \in a .. Len(o.buffer_queue)
  BY QueuedLengthFacts
<1>2. NextToQueue(o, s) = n BY DEF NextToQueue
<1>3. o.buffer_queue \in Seq(Buffers) BY DEF QueueRecord
<1> HIDE DEF a, b
<1>4. a + 1 \in Nat \ {0} /\ b \in Nat /\ b <= Len(o.buffer_queue) /\ a <= b BY <1>1
<1>5. /\ n \in Seq(Buffers)
      /\ Len(n) = IF a + 1 <= b THEN b - (a + 1) + 1 ELSE 0
      /\ \A i \in 1 .. Len(n) : n[i] = o.buffer_queue[(a + 1) + i - 1]
  BY <1>3, <1>4, Part
<1> HIDE DEF n
<1>6. Len(n) = b - a BY <1>1, <1>4, <1>5
<1>7. ASSUME NEW i \in 1 .. Len(n) PROVE n[i] = o.buffer_queue[a + i]
  <2>1. (a + 1) + i - 1 = a + i BY <1>1, <1>6
  <2> QED BY <1>5, <2>1
<1> QED BY <1>2, <1>5, <1>6, <1>7 DEF a, b

LEMMA PrimedOk ==
  ASSUME NEW o \in QueueRecord, NEW s0, SourceOk(s0), NEW gen_ok \in BOOLEAN,
         ~PrimeAsserts(o, s0)
  PROVE  LET t == PrimedSource(o, s0, gen_ok)
         IN  /\ SourceOk(t) /\ t.done = s0.done
             /\ t = s0 \/ QueuesFrom(s0, o, t)
             /\ HasSource(s0) => t.state = s0.state
             /\ ~HasSource(s0) => t = s0 \/ (t.state = "initial" /\ Primes(o))
<1>1. CASE ~Primes(o) \/ GenSourceFails(o, s0, gen_ok)
  <2>1. PrimedSource(o, s0, gen_ok) = s0 BY <1>1 DEF PrimedSource
  <2> QED BY <2>1 DEF HasSource
<1>2. CASE Primes(o) /\ ~GenSourceFails(o, s0, gen_ok)
  <2> DEFINE s == IF HasSource(s0) THEN s0 ELSE NewSource
             n == NextToQueue(o, s)
             c == s.queue \o n
             t == [s EXCEPT !.queue = c]
  <2>1. Len(s0.queue) \in Nat /\ Len(o.buffer_queue) \in Nat /\ Len(s0.queue) <= Len(o.buffer_queue)
    <3>1. Len(s0.queue) \in Nat BY ProcessedFacts
    <3>2. Len(o.buffer_queue) \in Nat BY LenProperties DEF QueueRecord
    <3> QED BY <1>2, <3>1, <3>2 DEF PrimeAsserts
  <2>2. /\ SourceOk(s) /\ s.queue = s0.queue /\ s.done = s0.done
        /\ HasSource(s0) => s.state = s0.state
        /\ ~HasSource(s0) => s.state = "initial"
    <3>1. CASE HasSource(s0) BY <3>1
    <3>2. CASE ~HasSource(s0)
      <4>1. s = NewSource BY <3>2
      <4>2. NewSource.queue = <<>> /\ NewSource.done = 0 /\ NewSource.state = "initial"
        BY DEF NewSource, NoSource
      <4>3. s0.queue = <<>> /\ s0.done = 0 BY <3>2 DEF HasSource, SourceOk
      <4> HIDE DEF s
      <4> QED BY <3>2, <4>1, <4>2, <4>3, NoSourceOk
    <3> QED BY <3>1, <3>2
  <2>3. PrimedSource(o, s0, gen_ok) = t BY <1>2 DEF PrimedSource
  <2> HIDE DEF s
  <2>4. s \in SourceRecord /\ s.queue \in Seq(Buffers) BY <2>2 DEF SourceOk, SourceRecord
  <2>5. QueuedLength(o, s) \in Len(s.queue) .. Len(o.buffer_queue)
    BY <2>1, <2>2, QueuedLengthFacts
  <2>6. /\ n \in Seq(Buffers) /\ Len(n) = QueuedLength(o, s) - Len(s.queue)
        /\ \A i \in 1 .. Len(n) : n[i] = o.buffer_queue[Len(s.queue) + i]
    BY <2>1, <2>2, NextFacts
  <2> HIDE DEF n
  <2>7. /\ c \in Seq(Buffers) /\ Len(c) = Len(s.queue) + Len(n)
        /\ \A i \in 1 .. Len(s.queue) + Len(n) :
             c[i] = IF i <= Len(s.queue) THEN s.queue[i] ELSE n[i - Len(s.queue)]
    BY <2>4, <2>6, ConcatProperties
  <2> HIDE DEF c
  <2>8. t \in SourceRecord /\ t.queue = c /\ t.state = s.state /\ t.done = s.done
    BY <2>4, <2>7, SourceEdits
  <2>9. Len(n) \in Nat /\ Len(c) \in Len(s.queue) .. Len(o.buffer_queue)
    BY <2>1, <2>2, <2>5, <2>6, <2>7
  <2>10. ASSUME NEW i \in 1 .. Len(c)
         PROVE  c[i] = IF i <= Len(s.queue) THEN s.queue[i] ELSE o.buffer_queue[i]
    <3>1. i \in 1 .. Len(s.queue) + Len(n) BY <2>7
    <3>2. CASE i <= Len(s.queue) BY <2>7, <3>1, <3>2
    <3>3. CASE ~(i <= Len(s.queue))
      <4>1. i - Len(s.queue) \in 1 .. Len(n) /\ Len(s.queue) + (i - Len(s.queue)) = i
        BY <2>1, <2>2, <2>9, <3>1, <3>3
      <4>2. c[i] = n[i - Len(s.queue)] BY <2>7, <3>1, <3>3
      <4>3. n[i - Len(s.queue)] = o.buffer_queue[Len(s.queue) + (i - Len(s.queue))]
        BY <2>6, <4>1
      <4> QED BY <3>3, <4>1, <4>2, <4>3
    <3> QED BY <3>2, <3>3
  <2> HIDE DEF t
  <2>11. QueuesFrom(s0, o, t)
    BY <2>2, <2>8, <2>9, <2>10 DEF QueuesFrom
  <2>12. SourceOk(t)
    <3>1. Len(s.queue) \in Nat /\ Len(c) \in Nat /\ Len(s.queue) <= Len(c) /\ s.done \in Nat
      BY <2>1, <2>2, <2>4, <2>9 DEF SourceRecord
    <3>2. s.state # "none" BY <2>2 DEF HasSource
    <3>3. s.done <= Len(s.queue) /\ (s.state \in {"playing", "paused"} => s.done < Len(s.queue))
      BY <2>2 DEF SourceOk
    <3> QED BY <2>8, <3>1, <3>2, <3>3 DEF SourceOk
  <2> QED BY <1>2, <2>2, <2>3, <2>8, <2>11, <2>12
<1> QED BY <1>1, <1>2

LEMMA PrimedQueueOk ==
  ASSUME NEW o \in QueueRecord, NEW s, NEW gen_ok \in BOOLEAN
  PROVE  LET y == PrimedQueue(o, s, gen_ok)
         IN  /\ y \in QueueRecord
             /\ y.alive = o.alive /\ y.is_running = o.is_running /\ y.buffers = o.buffers
             /\ y.buffer_queue = o.buffer_queue
             /\ y.is_running_handler = o.is_running_handler /\ y.kind = o.kind
<1> DEFINE v == o.failed \/ GenSourceFails(o, s, gen_ok)
<1>1. v \in BOOLEAN OBVIOUS
<1>2. PrimedQueue(o, s, gen_ok) = [o EXCEPT !.failed = v] BY DEF PrimedQueue, QueueRecord
<1> HIDE DEF v
<1> QED BY <1>1, <1>2, EditFailed

LEMMA ResetQueueOk ==
  ASSUME NEW o \in QueueRecord
  PROVE  LET y == ResetQueue(o)
         IN  /\ y \in QueueRecord /\ y.buffer_queue = <<>>
             /\ y.alive = o.alive /\ y.is_running = o.is_running /\ y.buffers = o.buffers
             /\ y.is_running_handler = o.is_running_handler /\ y.kind = o.kind
<1>1. <<>> \in Seq(Buffers) BY EmptySeq
<1> QED BY <1>1, EditQueue DEF ResetQueue

LEMMA StoppedQueueOk ==
  ASSUME NEW o \in QueueRecord
  PROVE  LET y == StoppedQueue(o)
         IN  /\ y \in QueueRecord /\ y.buffer_queue = <<>> /\ y.is_running = "Stopped"
             /\ y.alive = o.alive /\ y.buffers = o.buffers
             /\ y.is_running_handler = o.is_running_handler /\ y.kind = o.kind
<1> DEFINE r == ResetQueue(o)
<1>1. /\ r \in QueueRecord /\ r.buffer_queue = <<>>
      /\ r.alive = o.alive /\ r.buffers = o.buffers
      /\ r.is_running_handler = o.is_running_handler /\ r.kind = o.kind
  BY ResetQueueOk
<1>2. StoppedQueue(o) = [r EXCEPT !.is_running = "Stopped"] BY DEF StoppedQueue
<1>3. "Stopped" \in RunStates BY DEF RunStates
<1> HIDE DEF r
<1> QED BY <1>1, <1>2, <1>3, EditRunning

-----------------------------------------------------------------------------
\* Any guest
QueueOk(o) == o \in QueueRecord /\ (o.alive => o.buffer_queue \in Seq(o.buffers))

LEMMA InvParts == QueueInv => QueueOk(q) /\ SourceOk(al) /\ q \in QueueRecord
BY DEF QueueInv, QueueTrue, TypeOK, QueuedBuffersLive, QueueOk

\* A call of the guest touches the queue and its source alone.
LEMMA CallKeeps ==
  ASSUME QueueInv, Calling, Return, QueueOk(q'), SourceOk(al)',
         q'.is_running_handler = q.is_running_handler
  PROVE  QueueInv'
<1>1. TypeOK'
  BY DEF QueueInv, QueueTrue, TypeOK, Return, handlerVars, QueueOk, SourceOk
<1>2. QueuedBuffersLive' BY DEF QueuedBuffersLive, QueueOk
<1>3. HandlerFlag'
  BY DEF QueueInv, QueueTrue, HandlerFlag, Calling, Return, handlerVars
<1> QED BY <1>1, <1>2, <1>3 DEF QueueInv, QueueTrue

LEMMA PanicKeeps ==
  ASSUME QueueInv, NEW site \in {"out_of_sync", "queue_gone"}, Panic(site), UNCHANGED handlerVars
  PROVE  QueueInv'
<1>1. TypeOK'
  BY DEF QueueInv, QueueTrue, TypeOK, Panic, handlerVars
<1>2. QueuedBuffersLive' BY DEF QueueInv, QueueTrue, QueuedBuffersLive, Panic
<1>3. HandlerFlag' BY DEF HandlerFlag, Panic
<1>4. SourceOk(al)' BY DEF Panic, QueueInv
<1> QED BY <1>1, <1>2, <1>3, <1>4 DEF QueueInv, QueueTrue

LEMMA AllocateKeeps ==
  ASSUME QueueInv, NEW b \in Buffers, AudioQueueAllocateBuffer(b) PROVE QueueInv'
<1> DEFINE B == q.buffers \cup {b}
<1>1. Calling /\ Return /\ al' = al /\ q' = [q EXCEPT !.buffers = B]
  BY DEF AudioQueueAllocateBuffer
<1>2. q \in QueueRecord /\ QueueOk(q) /\ SourceOk(al) BY InvParts
<1>3. B \in SUBSET Buffers /\ q.buffers \subseteq B BY <1>2 DEF QueueRecord
<1> HIDE DEF B
<1>4. /\ q' \in QueueRecord /\ q'.buffers = B /\ q'.alive = q.alive
      /\ q'.buffer_queue = q.buffer_queue /\ q'.is_running_handler = q.is_running_handler
  BY <1>1, <1>2, <1>3, EditBuffers
<1>5. ASSUME q.alive PROVE q.buffer_queue \in Seq(B)
  <2>1. q.buffer_queue \in Seq(q.buffers) BY <1>2, <1>5 DEF QueueOk
  <2> QED BY <1>3, <2>1, SeqMonotonic
<1>6. QueueOk(q') BY <1>4, <1>5 DEF QueueOk
<1> QED BY <1>1, <1>2, <1>4, <1>6, CallKeeps

\* A buffer that is not queued may go.
LEMMA FreeKeeps ==
  ASSUME QueueInv, NEW b \in Buffers, AudioQueueFreeBuffer(b) PROVE QueueInv'
<1> DEFINE B == q.buffers \ {b}
<1>1. Calling /\ Return /\ al' = al /\ q' = [q EXCEPT !.buffers = B]
      /\ ~Contains(q.buffer_queue, b)
  BY DEF AudioQueueFreeBuffer
<1>2. q \in QueueRecord /\ QueueOk(q) /\ SourceOk(al) BY InvParts
<1>3. B \in SUBSET Buffers BY <1>2 DEF QueueRecord
<1>4. ASSUME q.alive PROVE q.buffer_queue \in Seq(B)
  <2>1. q.buffer_queue \in Seq(q.buffers) BY <1>2, <1>4 DEF QueueOk
  <2>2. q.buffer_queue \in [1 .. Len(q.buffer_queue) -> q.buffers] /\ Len(q.buffer_queue) \in Nat
    BY <2>1, LenProperties
  <2>3. \A i \in 1 .. Len(q.buffer_queue) : q.buffer_queue[i] \in B
    BY <1>1, <2>2 DEF Contains
  <2> HIDE DEF B
  <2>4. q.buffer_queue \in [1 .. Len(q.buffer_queue) -> B] BY <2>2, <2>3
  <2> QED BY <2>2, <2>4
<1> HIDE DEF B
<1>5. /\ q' \in QueueRecord /\ q'.buffers = B /\ q'.alive = q.alive
      /\ q'.buffer_queue = q.buffer_queue /\ q'.is_running_handler = q.is_running_handler
  BY <1>1, <1>2, <1>3, EditBuffers
<1>6. QueueOk(q') BY <1>4, <1>5 DEF QueueOk
<1> QED BY <1>1, <1>2, <1>5, <1>6, CallKeeps

\* The queue object that AudioQueueEnqueueBuffer primes
LEMMA Appended ==
  ASSUME QueueInv, q.alive, NEW b \in q.buffers
  PROVE  LET o == [q EXCEPT !.buffer_queue = Append(@, b)]
         IN  /\ QueueOk(o) /\ o \in QueueRecord
             /\ o.buffer_queue = Append(q.buffer_queue, b)
             /\ o.alive = q.alive /\ o.is_running = q.is_running /\ o.buffers = q.buffers
             /\ o.is_running_handler = q.is_running_handler /\ o.kind = q.kind
<1> DEFINE a == Append(q.buffer_queue, b)  o == [q EXCEPT !.buffer_queue = a]
<1>1. q \in QueueRecord /\ q.buffer_queue \in Seq(q.buffers) BY InvParts DEF QueueOk
<1>2. a \in Seq(q.buffers) BY <1>1, AppendProperties
<1>3. a \in Seq(Buffers)
  <2>1. q.buffers \subseteq Buffers BY <1>1 DEF QueueRecord
  <2> QED BY <1>2, <2>1, SeqMonotonic
<1>4. [q EXCEPT !.buffer_queue = Append(@, b)] = o BY <1>1 DEF QueueRecord
<1> HIDE DEF a
<1>5. /\ o \in QueueRecord /\ o.buffer_queue = a
      /\ o.alive = q.alive /\ o.is_running = q.is_running /\ o.buffers = q.buffers
      /\ o.is_running_handler = q.is_running_handler /\ o.kind = q.kind
  BY <1>1, <1>3, EditQueue
<1> HIDE DEF o
<1>6. QueueOk(o) BY <1>2, <1>5 DEF QueueOk
<1> QED BY <1>4, <1>5, <1>6 DEF a

\* What Enqueue and Start do with the source that they have primed
PlayedIf(c, s) == IF c /\ HasSource(s) THEN SourcePlay(s) ELSE s
LEMMA PlayedOk ==
  ASSUME NEW s, SourceOk(s), NEW c
  PROVE  SourceOk(PlayedIf(c, s)) /\ PlayedIf(c, s).queue = s.queue
BY PlayOk DEF PlayedIf

LEMMA EnqueueKeeps ==
  ASSUME QueueInv, NEW b \in Buffers, AudioQueueEnqueueBuffer(b) PROVE QueueInv'
<1> DEFINE o == [q EXCEPT !.buffer_queue = Append(@, b)]
<1>1. Calling /\ q.alive /\ b \in q.buffers BY DEF AudioQueueEnqueueBuffer, Calling
<1>2. /\ QueueOk(o) /\ o \in QueueRecord /\ o.alive = q.alive /\ o.buffers = q.buffers
      /\ o.is_running_handler = q.is_running_handler
  BY <1>1, Appended
<1>3. SourceOk(al) BY InvParts
<1>4. \/ q' = o /\ al' = al /\ Return
      \/ Panic("out_of_sync") /\ UNCHANGED handlerVars
      \/ ~PrimeAsserts(o, al) /\ Return /\ \E gen_ok \in GenOutcomes :
            /\ q' = PrimedQueue(o, al, gen_ok)
            /\ al' = PlayedIf(Supported, PrimedSource(o, al, gen_ok))
  BY DEF AudioQueueEnqueueBuffer, PlayedIf
<1> HIDE DEF o
<1>5. CASE q' = o /\ al' = al /\ Return
  BY <1>1, <1>2, <1>3, <1>5, CallKeeps
<1>6. CASE Panic("out_of_sync") /\ UNCHANGED handlerVars
  BY <1>6, PanicKeeps
<1>7. CASE ~PrimeAsserts(o, al) /\ Return /\ \E gen_ok \in GenOutcomes :
              /\ q' = PrimedQueue(o, al, gen_ok)
              /\ al' = PlayedIf(Supported, PrimedSource(o, al, gen_ok))
  <2>1. PICK gen_ok \in BOOLEAN : /\ q' = PrimedQueue(o, al, gen_ok)
                                  /\ al' = PlayedIf(Supported, PrimedSource(o, al, gen_ok))
    BY <1>7 DEF GenOutcomes
  <2>2. SourceOk(PrimedSource(o, al, gen_ok)) BY <1>2, <1>3, <1>7, PrimedOk
  <2>3. SourceOk(al)' BY <2>1, <2>2, PlayedOk
  <2>4. /\ q' \in QueueRecord /\ q'.alive = o.alive /\ q'.buffers = o.buffers
        /\ q'.buffer_queue = o.buffer_queue /\ q'.is_running_handler = o.is_running_handler
    BY <1>2, <2>1, PrimedQueueOk
  <2>5. QueueOk(q') BY <1>2, <2>4 DEF QueueOk
  <2> QED BY <1>1, <1>2, <1>7, <2>3, <2>4, <2>5, CallKeeps
<1> QED BY <1>4, <1>5, <1>6, <1>7

LEMMA PrimeKeeps == ASSUME QueueInv, AudioQueuePrime PROVE QueueInv'
<1>1. Calling BY DEF AudioQueuePrime
<1>2. q \in QueueRecord /\ QueueOk(q) /\ SourceOk(al) BY InvParts
<1>3. CASE Panic("out_of_sync") /\ UNCHANGED handlerVars
  BY <1>3, PanicKeeps
<1>4. CASE ~PrimeAsserts(q, al) /\ Return /\ \E gen_ok \in GenOutcomes :
              q' = PrimedQueue(q, al, gen_ok) /\ al' = PrimedSource(q, al, gen_ok)
  <2>1. PICK gen_ok \in BOOLEAN :
              q' = PrimedQueue(q, al, gen_ok) /\ al' = PrimedSource(q, al, gen_ok)
    BY <1>4 DEF GenOutcomes
  <2>2. SourceOk(PrimedSource(q, al, gen_ok)) BY <1>2, <1>4, PrimedOk
  <2>3. SourceOk(al)' BY <2>1, <2>2
  <2>4. /\ q' \in QueueRecord /\ q'.alive = q.alive /\ q'.buffers = q.buffers
        /\ q'.buffer_queue = q.buffer_queue /\ q'.is_running_handler = q.is_running_handler
    BY <1>2, <2>1, PrimedQueueOk
  <2>5. QueueOk(q') BY <1>2, <2>4 DEF QueueOk
  <2> QED BY <1>1, <1>4, <2>3, <2>4, <2>5, CallKeeps
<1> QED BY <1>3, <1>4 DEF AudioQueuePrime

\* A queue that is primed and set running
StartedQueue(o, s, gen_ok) ==
  [PrimedQueue(o, s, gen_ok) EXCEPT
     !.is_running = "Running",
     !.initial_callback_sent = q.is_running # "Stopped" /\ @]
LEMMA StartedQueueOk ==
  ASSUME q \in QueueRecord, NEW s, NEW gen_ok \in BOOLEAN
  PROVE  LET y == StartedQueue(q, s, gen_ok)
         IN  /\ y \in QueueRecord /\ y.is_running = "Running"
             /\ y.alive = q.alive /\ y.buffers = q.buffers /\ y.buffer_queue = q.buffer_queue
             /\ y.is_running_handler = q.is_running_handler /\ y.kind = q.kind
<1> DEFINE p == PrimedQueue(q, s, gen_ok)
           r == [p EXCEPT !.is_running = "Running"]
           v == q.is_running # "Stopped" /\ p.initial_callback_sent
           y == [r EXCEPT !.initial_callback_sent = v]
<1>1. /\ p \in QueueRecord
      /\ p.alive = q.alive /\ p.buffers = q.buffers /\ p.buffer_queue = q.buffer_queue
      /\ p.is_running_handler = q.is_running_handler /\ p.kind = q.kind
  BY PrimedQueueOk
<1> HIDE DEF p
<1>2. StartedQueue(q, s, gen_ok) = y BY <1>1 DEF StartedQueue, QueueRecord, p
<1>3. v \in BOOLEAN /\ "Running" \in RunStates BY DEF RunStates
<1> HIDE DEF v
<1>4. /\ r \in QueueRecord /\ r.is_running = "Running"
      /\ r.alive = p.alive /\ r.buffers = p.buffers /\ r.buffer_queue = p.buffer_queue
      /\ r.is_running_handler = p.is_running_handler /\ r.kind = p.kind
  BY <1>1, <1>3, EditRunning
<1> HIDE DEF r
<1>5. /\ y \in QueueRecord /\ y.is_running = r.is_running
      /\ y.alive = r.alive /\ y.buffers = r.buffers /\ y.buffer_queue = r.buffer_queue
      /\ y.is_running_handler = r.is_running_handler /\ y.kind = r.kind
  BY <1>3, <1>4, EditSent
<1> HIDE DEF y
<1> QED BY <1>1, <1>2, <1>4, <1>5

LEMMA StartKeeps == ASSUME QueueInv, AudioQueueStart PROVE QueueInv'
<1>1. Calling BY DEF AudioQueueStart
<1>2. q \in QueueRecord /\ QueueOk(q) /\ SourceOk(al) BY InvParts
<1>3. CASE Panic("out_of_sync") /\ UNCHANGED handlerVars
  BY <1>3, PanicKeeps
<1>4. CASE ~PrimeAsserts(q, al) /\ Return /\ \E gen_ok \in GenOutcomes :
              /\ q' = StartedQueue(q, al, gen_ok)
              /\ al' = PlayedIf(Supported, PrimedSource(q, al, gen_ok))
  <2>1. PICK gen_ok \in BOOLEAN : /\ q' = StartedQueue(q, al, gen_ok)
                                  /\ al' = PlayedIf(Supported, PrimedSource(q, al, gen_ok))
    BY <1>4 DEF GenOutcomes
  <2>2. SourceOk(PrimedSource(q, al, gen_ok)) BY <1>2, <1>4, PrimedOk
  <2>3. SourceOk(al)' BY <2>1, <2>2, PlayedOk
  <2>4. /\ q' \in QueueRecord /\ q'.alive = q.alive /\ q'.buffers = q.buffers
        /\ q'.buffer_queue = q.buffer_queue /\ q'.is_running_handler = q.is_running_handler
    BY <1>2, <2>1, StartedQueueOk
  <2>5. QueueOk(q') BY <1>2, <2>4 DEF QueueOk
  <2> QED BY <1>1, <1>4, <2>3, <2>4, <2>5, CallKeeps
<1> QED BY <1>3, <1>4 DEF AudioQueueStart, StartedQueue, PlayedIf

LEMMA PauseKeeps == ASSUME QueueInv, AudioQueuePause PROVE QueueInv'
<1>1. Calling /\ Return /\ al' = SourcePause(al) /\ q' = [q EXCEPT !.is_running = "Stopped"]
  BY DEF AudioQueuePause
<1>2. q \in QueueRecord /\ QueueOk(q) /\ SourceOk(al) BY InvParts
<1>3. /\ q' \in QueueRecord /\ q'.alive = q.alive /\ q'.buffers = q.buffers
      /\ q'.buffer_queue = q.buffer_queue /\ q'.is_running_handler = q.is_running_handler
  <2>1. "Stopped" \in RunStates BY DEF RunStates
  <2> QED BY <1>1, <1>2, <2>1, EditRunning
<1>4. SourceOk(al)' BY <1>1, <1>2, PauseOk
<1>5. QueueOk(q') BY <1>2, <1>3 DEF QueueOk
<1> QED BY <1>1, <1>3, <1>4, <1>5, CallKeeps

LEMMA EmptiedOk ==
  ASSUME NEW o, o \in QueueRecord, o.buffer_queue = <<>> PROVE QueueOk(o)
BY EmptySeq DEF QueueOk

LEMMA StopKeeps ==
  ASSUME QueueInv, NEW in_immediate \in BOOLEAN, AudioQueueStop(in_immediate) PROVE QueueInv'
<1>1. Calling BY DEF AudioQueueStop
<1>2. q \in QueueRecord /\ QueueOk(q) /\ SourceOk(al) BY InvParts
<1>3. CASE Panic("out_of_sync") /\ UNCHANGED handlerVars
  BY <1>3, PanicKeeps
<1>4. CASE q' = StoppedQueue(q) /\ al' = ResetSource(al) /\ Return
  <2>1. SourceOk(al)' BY <1>2, <1>4, ResetOk
  <2>2. /\ q' \in QueueRecord /\ q'.buffer_queue = <<>>
        /\ q'.is_running_handler = q.is_running_handler
    BY <1>2, <1>4, StoppedQueueOk
  <2>3. QueueOk(q') BY <2>2, EmptiedOk
  <2> QED BY <1>1, <1>4, <2>1, <2>2, <2>3, CallKeeps
<1>5. CASE q' = [q EXCEPT !.is_running = "Stopping"] /\ al' = al /\ Return
  <2>1. "Stopping" \in RunStates BY DEF RunStates
  <2>2. /\ q' \in QueueRecord /\ q'.alive = q.alive /\ q'.buffers = q.buffers
        /\ q'.buffer_queue = q.buffer_queue /\ q'.is_running_handler = q.is_running_handler
    BY <1>2, <1>5, <2>1, EditRunning
  <2>3. QueueOk(q') BY <1>2, <2>2 DEF QueueOk
  <2> QED BY <1>1, <1>2, <1>5, <2>2, <2>3, CallKeeps
<1> QED BY <1>3, <1>4, <1>5 DEF AudioQueueStop

LEMMA ResetKeeps == ASSUME QueueInv, AudioQueueReset PROVE QueueInv'
<1>1. Calling BY DEF AudioQueueReset
<1>2. q \in QueueRecord /\ SourceOk(al) BY InvParts
<1>3. CASE Panic("out_of_sync") /\ UNCHANGED handlerVars
  BY <1>3, PanicKeeps
<1>4. CASE q' = ResetQueue(q) /\ al' = ResetSource(al) /\ Return
  <2>1. SourceOk(al)' BY <1>2, <1>4, ResetOk
  <2>2. /\ q' \in QueueRecord /\ q'.buffer_queue = <<>>
        /\ q'.is_running_handler = q.is_running_handler
    BY <1>2, <1>4, ResetQueueOk
  <2>3. QueueOk(q') BY <2>2, EmptiedOk
  <2> QED BY <1>1, <1>4, <2>1, <2>2, <2>3, CallKeeps
<1> QED BY <1>3, <1>4 DEF AudioQueueReset

LEMMA ListenerKeeps == ASSUME QueueInv, ListenerCall PROVE QueueInv'
<1>1. PICK v \in BOOLEAN : q' = [q EXCEPT !.listener = v] /\ al' = al /\ Return /\ Calling
  BY DEF ListenerCall, AudioQueueAddPropertyListener, AudioQueueRemovePropertyListener
<1>2. q \in QueueRecord /\ QueueOk(q) /\ SourceOk(al) BY InvParts
<1>3. /\ q' \in QueueRecord /\ q'.alive = q.alive /\ q'.buffers = q.buffers
      /\ q'.buffer_queue = q.buffer_queue /\ q'.is_running_handler = q.is_running_handler
  BY <1>1, <1>2, EditListener
<1>4. QueueOk(q') BY <1>2, <1>3 DEF QueueOk
<1> QED BY <1>1, <1>2, <1>3, <1>4, CallKeeps

LEMMA DisposeKeeps == ASSUME QueueInv, AudioQueueDispose PROVE QueueInv'
<1> DEFINE d == [q EXCEPT !.alive = FALSE]  e == [d EXCEPT !.buffers = {}]
<1>1. Calling /\ Return /\ al' = NoSource /\ q' = [q EXCEPT !.alive = FALSE, !.buffers = {}]
  BY DEF AudioQueueDispose
<1>2. q \in QueueRecord BY InvParts
<1>3. q' = e BY <1>1, <1>2 DEF QueueRecord
<1>4. /\ d \in QueueRecord /\ d.alive = FALSE /\ d.is_running_handler = q.is_running_handler
  BY <1>2, EditAlive
<1> HIDE DEF d
<1>5. /\ e \in QueueRecord /\ e.alive = d.alive /\ e.is_running_handler = d.is_running_handler
  <2>1. {} \in SUBSET Buffers OBVIOUS
  <2> QED BY <1>4, <2>1, EditBuffers
<1> HIDE DEF e
<1>6. QueueOk(q') BY <1>3, <1>4, <1>5 DEF QueueOk
<1>7. SourceOk(al)' BY <1>1, NoSourceOk
<1> QED BY <1>1, <1>3, <1>4, <1>5, <1>6, <1>7, CallKeeps

LEMMA DeviceKeeps == ASSUME QueueInv, device_plays PROVE QueueInv'
<1>1. SourceOk(al) BY InvParts
<1>2. SourceOk(al)' BY <1>1, AdvanceOk DEF device_plays
<1>3. TypeOK'
  BY <1>2 DEF device_plays, QueueInv, QueueTrue, TypeOK, SourceOk
<1>4. QueuedBuffersLive' /\ HandlerFlag'
  BY DEF device_plays, QueueInv, QueueTrue, QueuedBuffersLive, HandlerFlag
<1> QED BY <1>2, <1>3, <1>4 DEF QueueInv, QueueTrue

-----------------------------------------------------------------------------
\* A step of the handler leaves it in one of its phases, with its flag set in
\* all but the idle one.
LEMMA HandlerKeeps ==
  ASSUME QueueInv, QueueOk(q'), SourceOk(al)', UNCHANGED panic,
         phase' \in {"idle", "probe", "silent", "callbacks", "notify"},
         to_reuse' \in Seq(Buffers),
         to_reuse' # <<>> <=> phase' \in {"probe", "silent", "callbacks"},
         snapshot' \in RunStates,
         q'.is_running_handler <=> phase' # "idle"
  PROVE  QueueInv'
<1>1. TypeOK' BY DEF QueueInv, QueueTrue, TypeOK, QueueOk, SourceOk
<1>2. QueuedBuffersLive' BY DEF QueuedBuffersLive, QueueOk
<1>3. HandlerFlag' BY DEF HandlerFlag
<1> QED BY <1>1, <1>2, <1>3 DEF QueueInv, QueueTrue

LEMMA ControlTypes ==
  QueueInv => /\ snapshot \in RunStates /\ to_reuse \in Seq(Buffers) /\ q.is_running \in RunStates
              /\ to_reuse # <<>> <=> phase \in {"probe", "silent", "callbacks"}
BY DEF QueueInv, QueueTrue, TypeOK, QueueRecord

LEMMA OneBuffer ==
  ASSUME NEW b \in Buffers PROVE <<b>> \in Seq(Buffers) /\ <<b>> # <<>> /\ Len(<<b>>) = 1
OBVIOUS

\* The first buffer leaves the queue for its callback.
LEMMA PoppedOk ==
  ASSUME QueueInv, q.alive, q.buffer_queue # <<>>
  PROVE  LET y == [q EXCEPT !.buffer_queue = Tail(@), !.is_running_handler = TRUE]
         IN  /\ QueueOk(y) /\ y \in QueueRecord /\ y.is_running_handler = TRUE
             /\ y.alive = q.alive /\ y.is_running = q.is_running /\ y.kind = q.kind
             /\ Head(q.buffer_queue) \in Buffers
<1> DEFINE t == Tail(q.buffer_queue)
           r == [q EXCEPT !.buffer_queue = t]
           y == [r EXCEPT !.is_running_handler = TRUE]
<1>1. q \in QueueRecord /\ q.buffer_queue \in Seq(q.buffers) /\ q.buffer_queue \in Seq(Buffers)
  BY InvParts DEF QueueOk, QueueRecord
<1>2. t \in Seq(q.buffers) /\ t \in Seq(Buffers) /\ Head(q.buffer_queue) \in Buffers
  BY <1>1, HeadTailProperties
<1>3. [q EXCEPT !.buffer_queue = Tail(@), !.is_running_handler = TRUE] = y
  BY <1>1 DEF QueueRecord
<1> HIDE DEF t
<1>4. /\ r \in QueueRecord /\ r.buffer_queue = t /\ r.alive = q.alive
      /\ r.is_running = q.is_running /\ r.buffers = q.buffers /\ r.kind = q.kind
  BY <1>1, <1>2, EditQueue
<1> HIDE DEF r
<1>5. /\ y \in QueueRecord /\ y.is_running_handler = TRUE /\ y.alive = r.alive
      /\ y.is_running = r.is_running /\ y.buffers = r.buffers /\ y.kind = r.kind
      /\ y.buffer_queue = r.buffer_queue
  BY <1>4, EditFlag
<1> HIDE DEF y
<1>6. QueueOk(y) BY <1>2, <1>4, <1>5 DEF QueueOk
<1> QED BY <1>2, <1>3, <1>4, <1>5, <1>6

LEMMA ProbeKeeps == ASSUME QueueInv, probe_callback PROVE QueueInv'
<1>1. q.alive /\ q.buffer_queue # <<>> BY DEF probe_callback, BeginsIdle, Calling, ProbeBegins, IsTiny
<1>2. QueueOk(q') /\ q'.is_running_handler = TRUE /\ Head(q.buffer_queue) \in Buffers
  BY <1>1, PoppedOk DEF probe_callback
<1>3. to_reuse' \in Seq(Buffers) /\ to_reuse' # <<>>
  BY <1>2, OneBuffer DEF probe_callback
<1>4. SourceOk(al)' BY InvParts DEF probe_callback
<1>5. UNCHANGED <<snapshot, panic>> /\ phase' = "probe" BY DEF probe_callback
<1> QED BY <1>2, <1>3, <1>4, <1>5, ControlTypes, HandlerKeeps

\* The guest is asked for its first data.
LEMMA AskedOk ==
  ASSUME QueueInv
  PROVE  LET y == [q EXCEPT !.initial_callback_sent = TRUE, !.is_running_handler = TRUE]
         IN  /\ QueueOk(y) /\ y \in QueueRecord /\ y.is_running_handler = TRUE
             /\ y.alive = q.alive /\ y.is_running = q.is_running /\ y.kind = q.kind
<1> DEFINE r == [q EXCEPT !.initial_callback_sent = TRUE]
           y == [r EXCEPT !.is_running_handler = TRUE]
<1>1. q \in QueueRecord /\ QueueOk(q) BY InvParts
<1>2. [q EXCEPT !.initial_callback_sent = TRUE, !.is_running_handler = TRUE] = y
  BY <1>1 DEF QueueRecord
<1>3. /\ r \in QueueRecord /\ r.alive = q.alive /\ r.is_running = q.is_running
      /\ r.buffers = q.buffers /\ r.buffer_queue = q.buffer_queue /\ r.kind = q.kind
  BY <1>1, EditSent
<1> HIDE DEF r
<1>4. /\ y \in QueueRecord /\ y.is_running_handler = TRUE /\ y.alive = r.alive
      /\ y.is_running = r.is_running /\ y.buffers = r.buffers /\ y.kind = r.kind
      /\ y.buffer_queue = r.buffer_queue
  BY <1>3, EditFlag
<1> HIDE DEF y
<1>5. QueueOk(y) BY <1>1, <1>3, <1>4 DEF QueueOk
<1> QED BY <1>2, <1>3, <1>4, <1>5

LEMMA SilentKeeps == ASSUME QueueInv, silent_callback PROVE QueueInv'
<1>1. q.alive BY DEF silent_callback, BeginsIdle, Calling
<1>2. UNCHANGED <<al, snapshot, panic>> /\ phase' = "silent" BY DEF silent_callback
<1>3. SourceOk(al)' BY <1>2, InvParts
<1>4. QueueOk(q') /\ q'.is_running_handler = TRUE /\ \E b \in Buffers : to_reuse' = <<b>>
  <2>1. CASE /\ q.buffer_queue # <<>>
             /\ q' = [q EXCEPT !.buffer_queue = Tail(@), !.is_running_handler = TRUE]
             /\ to_reuse' = <<Head(q.buffer_queue)>>
    BY <1>1, <2>1, PoppedOk
  <2>2. CASE \E b \in q.buffers :
               /\ q' = [q EXCEPT !.initial_callback_sent = TRUE, !.is_running_handler = TRUE]
               /\ to_reuse' = <<b>>
    <3>1. q.buffers \subseteq Buffers BY InvParts DEF QueueRecord
    <3> QED BY <2>2, <3>1, AskedOk
  <2> QED BY <2>1, <2>2 DEF silent_callback
<1>5. to_reuse' \in Seq(Buffers) /\ to_reuse' # <<>>
  <2>1. PICK b \in Buffers : to_reuse' = <<b>> BY <1>4
  <2> QED BY <2>1, OneBuffer
<1> QED BY <1>2, <1>3, <1>4, <1>5, ControlTypes, HandlerKeeps

\* The queue object after a pass of the handler
AfterPass(o, stop) ==
  [IF stop THEN StoppedQueue(o) ELSE o EXCEPT
     !.is_running_handler = FlagAfter(o, stop /\ o.listener)]
LEMMA AfterPassOk ==
  ASSUME QueueInv, NEW stop \in BOOLEAN
  PROVE  LET y == AfterPass(q, stop)
         IN  /\ QueueOk(y) /\ y \in QueueRecord /\ y.alive = q.alive /\ y.kind = q.kind
             /\ y.is_running_handler <=> stop /\ q.listener
             /\ stop => y.is_running = "Stopped" /\ y.buffer_queue = <<>>
             /\ ~stop => y.is_running = q.is_running /\ y.buffer_queue = q.buffer_queue
<1> DEFINE o == IF stop THEN StoppedQueue(q) ELSE q
           w == stop /\ q.listener
           y == [o EXCEPT !.is_running_handler = w]
<1>1. q \in QueueRecord /\ QueueOk(q) BY InvParts
<1>2. /\ o \in QueueRecord /\ o.alive = q.alive /\ o.buffers = q.buffers /\ o.kind = q.kind
      /\ stop => o.is_running = "Stopped" /\ o.buffer_queue = <<>>
      /\ ~stop => o.is_running = q.is_running /\ o.buffer_queue = q.buffer_queue
  BY <1>1, StoppedQueueOk
<1>3. w \in BOOLEAN BY <1>1 DEF QueueRecord
<1>4. AfterPass(q, stop) = y BY DEF AfterPass, FlagAfter
<1> HIDE DEF o, w
<1>5. /\ y \in QueueRecord /\ y.is_running_handler = w /\ y.alive = o.alive
      /\ y.is_running = o.is_running /\ y.buffers = o.buffers /\ y.kind = o.kind
      /\ y.buffer_queue = o.buffer_queue
  BY <1>2, <1>3, EditFlag
<1> HIDE DEF y
<1>6. QueueOk(y)
  <2>1. CASE stop BY <1>2, <1>5, <2>1, EmptiedOk
  <2>2. CASE ~stop BY <1>1, <1>2, <1>5, <2>2 DEF QueueOk
  <2> QED BY <2>1, <2>2
<1>7. y.is_running_handler <=> stop /\ q.listener BY <1>5 DEF w
<1> QED BY <1>2, <1>4, <1>5, <1>6, <1>7

LEMMA RestartedOk ==
  ASSUME NEW s, SourceOk(s), NEW seen
  PROVE  /\ SourceOk(Restarted(s, seen)) /\ Restarted(s, seen).queue = s.queue
         /\ HasSource(s) => Restarted(s, seen).state # "none"
<1>1. CASE seen # "Stopped" /\ s.state = "stopped"
  <2>1. HasSource(s) BY <1>1 DEF HasSource
  <2>2. /\ SourceOk(SourcePlay(s)) /\ SourcePlay(s).queue = s.queue
        /\ SourcePlay(s).state # "none"
    BY <2>1, PlayOk
  <2> QED BY <1>1, <2>2 DEF Restarted
<1>2. CASE ~(seen # "Stopped" /\ s.state = "stopped")
  BY <1>2 DEF Restarted, HasSource
<1> QED BY <1>1, <1>2

\* What is left of push_new_buffers when the queue is there
PassEnds(seen) ==
  LET s == Restarted(PrimedSource(q, al, TRUE), seen)
      stop == StopCompletes(s, seen)
      wait == stop /\ q.listener
  IN  /\ ~PrimeAsserts(q, al) /\ q.alive
      /\ al' = IF stop THEN ResetSource(s) ELSE s
      /\ q' = AfterPass(q, stop)
      /\ phase' = IF wait THEN "notify" ELSE "idle"
      /\ to_reuse' = <<>> /\ snapshot' = seen /\ UNCHANGED panic
LEMMA PushCases ==
  ASSUME NEW seen, push_new_buffers(q, al, seen)
  PROVE  \/ Panic("queue_gone") /\ UNCHANGED handlerVars /\ ~q.alive
         \/ Panic("out_of_sync") /\ UNCHANGED handlerVars /\ PrimeAsserts(q, al)
         \/ PassEnds(seen)
BY DEF push_new_buffers, PassEnds, AfterPass

LEMMA PushKeeps ==
  ASSUME QueueInv, NEW seen \in RunStates, push_new_buffers(q, al, seen) PROVE QueueInv'
<1>1. CASE Panic("queue_gone") /\ UNCHANGED handlerVars BY <1>1, PanicKeeps
<1>2. CASE Panic("out_of_sync") /\ UNCHANGED handlerVars BY <1>2, PanicKeeps
<1>3. CASE PassEnds(seen)
  <2> DEFINE p == PrimedSource(q, al, TRUE)
             s == Restarted(p, seen)
             stop == StopCompletes(s, seen)
  <2>1. /\ ~PrimeAsserts(q, al) /\ al' = IF stop THEN ResetSource(s) ELSE s
        /\ q' = AfterPass(q, stop)
        /\ phase' = IF stop /\ q.listener THEN "notify" ELSE "idle"
        /\ to_reuse' = <<>> /\ snapshot' = seen /\ UNCHANGED panic
    BY <1>3 DEF PassEnds
  <2>2. q \in QueueRecord /\ SourceOk(al) BY InvParts
  <2>3. SourceOk(p) BY <2>1, <2>2, PrimedOk
  <2>4. stop \in BOOLEAN BY DEF StopCompletes
  <2> HIDE DEF p
  <2>5. SourceOk(s) BY <2>3, RestartedOk
  <2> HIDE DEF s, stop
  <2>6. SourceOk(al)'
    <3>1. SourceOk(ResetSource(s)) BY <2>5, ResetOk
    <3> QED BY <2>1, <2>5, <3>1
  <2>7. QueueOk(q') /\ (q'.is_running_handler <=> stop /\ q.listener)
    BY <2>1, <2>4, AfterPassOk
  <2>8. to_reuse' \in Seq(Buffers) /\ to_reuse' = <<>> /\ phase' \in {"idle", "notify"}
    BY <2>1, EmptySeq
  <2>9. phase' # "idle" <=> stop /\ q.listener BY <2>1
  <2> QED BY <2>1, <2>6, <2>7, <2>8, <2>9, HandlerKeeps
<1> QED BY <1>1, <1>2, <1>3, PushCases

\* The processed buffers leave the queue for their callbacks.
LEMMA CollectedOk ==
  ASSUME QueueInv, q.alive, NEW n \in 1 .. Len(q.buffer_queue)
  PROVE  LET y == [q EXCEPT !.buffer_queue = SubSeq(@, n + 1, Len(@)), !.is_running_handler = TRUE]
             reuse == SubSeq(q.buffer_queue, 1, n)
         IN  /\ QueueOk(y) /\ y \in QueueRecord /\ y.is_running_handler = TRUE
             /\ y.alive = q.alive /\ y.is_running = q.is_running /\ y.kind = q.kind
             /\ Len(y.buffer_queue) = Len(q.buffer_queue) - n
             /\ \A i \in 1 .. Len(y.buffer_queue) : y.buffer_queue[i] = q.buffer_queue[n + i]
             /\ reuse \in Seq(Buffers) /\ reuse # <<>>
<1> DEFINE t == SubSeq(q.buffer_queue, n + 1, Len(q.buffer_queue))
           r == [q EXCEPT !.buffer_queue = t]
           y == [r EXCEPT !.is_running_handler = TRUE]
           reuse == SubSeq(q.buffer_queue, 1, n)
<1>1. q \in QueueRecord /\ q.buffer_queue \in Seq(q.buffers) /\ q.buffer_queue \in Seq(Buffers)
  BY InvParts DEF QueueOk, QueueRecord
<1>2. Len(q.buffer_queue) \in Nat /\ n \in Nat /\ n <= Len(q.buffer_queue) /\ n >= 1
  BY <1>1, LenProperties
<1>3. 1 \in Nat \ {0} OBVIOUS
<1>4. /\ t \in Seq(q.buffers) /\ Len(t) = Len(q.buffer_queue) - n
      /\ \A i \in 1 .. Len(t) : t[i] = q.buffer_queue[n + i]
  BY <1>1, <1>2, Dropped
<1>5. t \in Seq(Buffers)
  <2>1. q.buffers \subseteq Buffers BY <1>1 DEF QueueRecord
  <2> QED BY <1>4, <2>1, SeqMonotonic
<1>6. reuse \in Seq(Buffers) /\ Len(reuse) = IF 1 <= n THEN n - 1 + 1 ELSE 0
  BY <1>1, <1>2, <1>3, Part
<1>7. reuse # <<>>
  <2>1. Len(reuse) > 0 BY <1>2, <1>6
  <2> HIDE DEF reuse
  <2> QED BY <2>1, EmptySeq
<1>10. [q EXCEPT !.buffer_queue = SubSeq(@, n + 1, Len(@)), !.is_running_handler = TRUE] = y
  BY <1>1 DEF QueueRecord
<1> HIDE DEF t, reuse
<1>11. /\ r \in QueueRecord /\ r.buffer_queue = t /\ r.alive = q.alive
       /\ r.is_running = q.is_running /\ r.buffers = q.buffers /\ r.kind = q.kind
  BY <1>1, <1>5, EditQueue
<1> HIDE DEF r
<1>12. /\ y \in QueueRecord /\ y.is_running_handler = TRUE /\ y.alive = r.alive
       /\ y.is_running = r.is_running /\ y.buffers = r.buffers /\ y.kind = r.kind
       /\ y.buffer_queue = r.buffer_queue
  BY <1>11, EditFlag
<1> HIDE DEF y
<1>13. y.buffer_queue = t /\ y.alive = q.alive /\ y.buffers = q.buffers
       /\ y.is_running = q.is_running /\ y.kind = q.kind
  BY <1>11, <1>12
<1>14. QueueOk(y) BY <1>4, <1>12, <1>13 DEF QueueOk
<1> QED BY <1>4, <1>6, <1>7, <1>10, <1>12, <1>13, <1>14 DEF reuse

\* collect_buffers when some have been processed
Collects ==
  LET n == Processed(al)
  IN  /\ n \in 1 .. Len(q.buffer_queue)
      /\ q' = [q EXCEPT !.buffer_queue = SubSeq(@, n + 1, Len(@)), !.is_running_handler = TRUE]
      /\ al' = Unqueued(al)
      /\ to_reuse' = SubSeq(q.buffer_queue, 1, n)
      /\ snapshot' = q.is_running /\ phase' = "callbacks" /\ UNCHANGED panic
LEMMA CollectCases ==
  ASSUME collect_buffers
  PROVE  /\ q.alive /\ HasSource(al)
         /\ \/ Processed(al) > Len(q.buffer_queue) /\ Panic("out_of_sync") /\ UNCHANGED handlerVars
            \/ push_new_buffers(q, al, q.is_running)
            \/ Collects
BY DEF collect_buffers, Collects, BeginsIdle, Calling

LEMMA CollectKeeps == ASSUME QueueInv, collect_buffers PROVE QueueInv'
<1>1. CASE Panic("out_of_sync") /\ UNCHANGED handlerVars BY <1>1, PanicKeeps
<1>2. CASE push_new_buffers(q, al, q.is_running)
  BY <1>2, ControlTypes, PushKeeps
<1>3. CASE Collects
  <2> DEFINE n == Processed(al)
  <2>1. q.alive /\ n \in 1 .. Len(q.buffer_queue) BY <1>3, CollectCases DEF Collects
  <2>2. /\ q' = [q EXCEPT !.buffer_queue = SubSeq(@, n + 1, Len(@)), !.is_running_handler = TRUE]
        /\ to_reuse' = SubSeq(q.buffer_queue, 1, n) /\ al' = Unqueued(al)
        /\ snapshot' = q.is_running /\ phase' = "callbacks" /\ UNCHANGED panic
    BY <1>3 DEF Collects
  <2> HIDE DEF n
  <2>3. /\ QueueOk(q') /\ q'.is_running_handler = TRUE
        /\ to_reuse' \in Seq(Buffers) /\ to_reuse' # <<>>
    BY <2>1, <2>2, CollectedOk
  <2>4. SourceOk(al)' BY <2>2, InvParts, UnqueuedOk
  <2> QED BY <2>2, <2>3, <2>4, ControlTypes, HandlerKeeps
<1> QED BY <1>1, <1>2, <1>3, CollectCases

LEMMA CallbackKeeps == ASSUME QueueInv, callback_returns PROVE QueueInv'
<1>1. CASE push_new_buffers(q, al, snapshot)
  BY <1>1, ControlTypes, PushKeeps
<1>2. CASE /\ Len(to_reuse) > 1 /\ to_reuse' = Tail(to_reuse)
           /\ UNCHANGED <<q, al, phase, snapshot, panic>>
  <2>1. to_reuse \in Seq(Buffers) /\ to_reuse # <<>> /\ Len(to_reuse) \in Nat
    BY <1>2, ControlTypes, LenProperties, EmptySeq DEF callback_returns
  <2>2. to_reuse' \in Seq(Buffers) /\ Len(to_reuse') = Len(to_reuse) - 1
    BY <1>2, <2>1, HeadTailProperties
  <2>3. to_reuse' # <<>>
    <3>1. Len(to_reuse') > 0 BY <1>2, <2>1, <2>2
    <3> QED BY <3>1, EmptySeq
  <2>4. TypeOK'
    BY <1>2, <2>2, <2>3 DEF callback_returns, QueueInv, QueueTrue, TypeOK
  <2>5. QueuedBuffersLive' /\ HandlerFlag' /\ SourceOk(al)'
    BY <1>2 DEF QueueInv, QueueTrue, QueuedBuffersLive, HandlerFlag
  <2> QED BY <2>4, <2>5 DEF QueueInv, QueueTrue
<1> QED BY <1>1, <1>2 DEF callback_returns

LEMMA ReturnKeeps == ASSUME QueueInv, handler_returns PROVE QueueInv'
<1>1. /\ q' = [q EXCEPT !.is_running_handler = FALSE] /\ phase' = "idle" /\ to_reuse' = <<>>
      /\ UNCHANGED <<al, snapshot, panic>>
  BY DEF handler_returns
<1>2. q \in QueueRecord /\ QueueOk(q) /\ SourceOk(al) BY InvParts
<1>3. /\ q' \in QueueRecord /\ q'.is_running_handler = FALSE /\ q'.alive = q.alive
      /\ q'.buffers = q.buffers /\ q'.buffer_queue = q.buffer_queue
  BY <1>1, <1>2, EditFlag
<1>4. QueueOk(q') BY <1>2, <1>3 DEF QueueOk
<1>5. SourceOk(al)' BY <1>1, <1>2
<1>6. to_reuse' \in Seq(Buffers) BY <1>1, EmptySeq
<1> QED BY <1>1, <1>3, <1>4, <1>5, <1>6, ControlTypes, HandlerKeeps

LEMMA QueueInit == Init => QueueInv
<1> SUFFICES ASSUME Init PROVE QueueInv
  OBVIOUS
<1>1. PICK kind \in QueueKinds :
       q = [alive |-> TRUE, is_running |-> "Stopped", buffers |-> {}, buffer_queue |-> <<>>,
            failed |-> FALSE, is_running_handler |-> FALSE, initial_callback_sent |-> FALSE,
            listener |-> FALSE, kind |-> kind]
  BY DEF Init
<1>2. <<>> \in Seq(Buffers) /\ <<>> \in Seq({}) BY EmptySeq
<1>3. q \in QueueRecord BY <1>1, <1>2 DEF QueueRecord, RunStates
<1>4. SourceOk(al) BY NoSourceOk DEF Init
<1>5. TypeOK BY <1>2, <1>3, <1>4 DEF Init, TypeOK, SourceOk, RunStates
<1>6. QueuedBuffersLive BY <1>1, <1>2 DEF QueuedBuffersLive
<1>7. HandlerFlag BY <1>1 DEF HandlerFlag, Init
<1> QED BY <1>4, <1>5, <1>6, <1>7 DEF QueueInv, QueueTrue

LEMMA QueueStep == QueueInv /\ [Next]_vars => QueueInv'
<1> SUFFICES ASSUME QueueInv, [Next]_vars PROVE QueueInv'
  OBVIOUS
<1>1. CASE AudioQueueStart \/ AudioQueuePrime \/ AudioQueueDispose
  BY <1>1, StartKeeps, PrimeKeeps, DisposeKeeps
<1>2. CASE PlaybackCall
  BY <1>2, PauseKeeps, ResetKeeps, StopKeeps DEF PlaybackCall
<1>3. CASE BufferCall
  BY <1>3, AllocateKeeps, FreeKeeps, EnqueueKeeps DEF BufferCall
<1>4. CASE ListenerCall BY <1>4, ListenerKeeps
<1>5. CASE handle_audio_queue
  BY <1>5, ProbeKeeps, SilentKeeps, CollectKeeps, CallbackKeeps, ReturnKeeps DEF handle_audio_queue
<1>6. CASE device_plays BY <1>6, DeviceKeeps
<1>7. CASE UNCHANGED vars
  BY <1>7 DEF vars, QueueInv, QueueTrue, TypeOK, QueuedBuffersLive, HandlerFlag
<1> QED BY <1>1, <1>2, <1>3, <1>4, <1>5, <1>6, <1>7 DEF Next

\* Whatever the guest calls, also from its callbacks and for a queue without
\* an output: a buffer in the queue has not been freed, the playing position
\* never leaves the source's queue, and the flag of the handler is set exactly
\* while it runs.
THEOREM QueueAlwaysTrue == Spec => []QueueTrue
<1>1. Init => QueueInv BY QueueInit
<1>2. QueueInv /\ [Next]_vars => QueueInv' BY QueueStep
<1>3. QueueInv => QueueTrue BY DEF QueueInv
<1> QED BY <1>1, <1>2, <1>3, PTL DEF Spec

-----------------------------------------------------------------------------
\* A careful guest
LEMMA EmptyHolds ==
  ASSUME NEW o \in QueueRecord, NEW s, s.queue = <<>>,
         o.kind.internal /\ o.kind.tiny # {} => s.state = "none"
  PROVE  HoldsFirst(o, s)
<1>1. Len(s.queue) = 0 BY EmptySeq
<1>2. Len(o.buffer_queue) \in Nat BY LenProperties DEF QueueRecord
<1> QED BY <1>1, <1>2 DEF HoldsFirst

\* Without a source there is nothing to keep in step.
LEMMA NoneInStep ==
  ASSUME NEW o \in QueueRecord, NEW s, SourceOk(s), s.state = "none" PROVE InStep(o, s)
<1>1. s.queue = <<>> BY DEF SourceOk
<1>2. HoldsFirst(o, s) BY <1>1, EmptyHolds
<1> QED BY <1>2 DEF InStep

LEMMA PlayedInStep ==
  ASSUME NEW o \in QueueRecord, NEW s, SourceOk(s), HasSource(s), HoldsFirst(o, s)
  PROVE  InStep(o, SourcePlay(s))
<1> DEFINE t == SourcePlay(s)
<1>1. SourceOk(t) /\ t.queue = s.queue /\ t.state \in {"playing", "stopped"}
      /\ (t.state = "stopped" => t.done = 0 /\ t.queue = <<>>)
  BY PlayOk
<1> HIDE DEF t
<1>2. HoldsFirst(o, t) BY <1>1 DEF HoldsFirst, HasSource
<1>3. t.state = "stopped" => t.done = Len(t.queue) BY <1>1, EmptySeq
<1> QED BY <1>1, <1>2, <1>3 DEF InStep, t

LEMMA ResetInStep ==
  ASSUME NEW o \in QueueRecord, NEW s, SourceOk(s), s.state # "initial",
         o.kind.internal /\ o.kind.tiny # {} => s.state = "none"
  PROVE  InStep(o, ResetSource(s))
<1> DEFINE t == ResetSource(s)
<1>1. t.done = 0 /\ t.queue = <<>> /\ t.state # "initial" /\ (s.state = "none" => t.state = "none")
  BY ResetOk
<1> HIDE DEF t
<1>2. HoldsFirst(o, t) BY <1>1, EmptyHolds
<1>3. t.done = Len(t.queue) BY <1>1, EmptySeq
<1> QED BY <1>1, <1>2, <1>3 DEF InStep, t

\* No queue of plain kind with tiny buffers is ever primed.
LEMMA PlainPrimes ==
  ASSUME NEW o \in QueueRecord, o.kind = q.kind, q.kind \in PlainKinds,
         q.kind.internal, q.kind.tiny # {}
  PROVE  ~Primes(o)
<1>1. q.kind.tiny = Buffers BY DEF PlainKinds, Kind
<1>2. ASSUME o.buffer_queue # <<>> PROVE Head(o.buffer_queue) \in o.kind.tiny
  <2>1. o.buffer_queue \in Seq(Buffers) BY DEF QueueRecord
  <2> QED BY <1>1, <1>2, <2>1, HeadTailProperties
<1> QED BY <1>2 DEF Primes, Deferred, Internal, IsTiny

LEMMA PrimedHolds ==
  ASSUME NEW o \in QueueRecord, NEW s0, SourceOk(s0), NEW gen_ok \in BOOLEAN,
         o.kind = q.kind, q.kind \in PlainKinds, HoldsFirst(o, s0)
  PROVE  HoldsFirst(o, PrimedSource(o, s0, gen_ok)) /\ ~PrimeAsserts(o, s0)
<1> DEFINE t == PrimedSource(o, s0, gen_ok)
<1>0. Len(s0.queue) \in Nat /\ Len(o.buffer_queue) \in Nat
  BY ProcessedFacts, LenProperties DEF QueueRecord
<1>1. ~PrimeAsserts(o, s0) BY <1>0 DEF PrimeAsserts, HoldsFirst
<1>2. /\ t = s0 \/ QueuesFrom(s0, o, t)
      /\ HasSource(s0) => t.state = s0.state
      /\ ~HasSource(s0) => t = s0 \/ (t.state = "initial" /\ Primes(o))
  BY <1>1, PrimedOk
<1>3. ASSUME o.kind.internal, o.kind.tiny # {} PROVE t.state = "none"
  <2>1. ~Primes(o) BY <1>3, PlainPrimes
  <2>2. s0.state = "none" BY <1>3 DEF HoldsFirst
  <2> HIDE DEF t
  <2> QED BY <1>2, <2>1, <2>2 DEF HasSource
<1> HIDE DEF t
<1>4. CASE t = s0 BY <1>1, <1>4 DEF t
<1>5. CASE QueuesFrom(s0, o, t)
  <2>1. Len(t.queue) \in Nat /\ Len(t.queue) <= Len(o.buffer_queue)
    BY <1>0, <1>5 DEF QueuesFrom
  <2>2. ASSUME NEW i \in 1 .. Len(t.queue) PROVE t.queue[i] = o.buffer_queue[i]
    <3>1. t.queue[i] = IF i <= Len(s0.queue) THEN s0.queue[i] ELSE o.buffer_queue[i]
      BY <1>5 DEF QueuesFrom
    <3>2. i <= Len(s0.queue) => s0.queue[i] = o.buffer_queue[i]
      BY <1>0, <2>1 DEF HoldsFirst
    <3> QED BY <3>1, <3>2
  <2>3. HoldsFirst(o, t) BY <1>3, <2>1, <2>2 DEF HoldsFirst
  <2> QED BY <1>1, <2>3 DEF t
<1> QED BY <1>2, <1>4, <1>5

\* The queue y, which differs from the primed o in is_running at most, and
\* its source, which has been played if there is one
LEMMA PrimedInStep ==
  ASSUME NEW o \in QueueRecord, NEW s0, SourceOk(s0), NEW gen_ok \in BOOLEAN,
         o.kind = q.kind, q.kind \in PlainKinds, HoldsFirst(o, s0),
         NEW y \in QueueRecord, y.buffer_queue = o.buffer_queue, y.kind = o.kind
  PROVE  LET t == PlayedIf(Supported, PrimedSource(o, s0, gen_ok))
         IN  InStep(y, t) /\ (HasSource(s0) => HasSource(t)) /\ ~PrimeAsserts(o, s0)
<1> DEFINE p == PrimedSource(o, s0, gen_ok)
<1>1. HoldsFirst(o, p) /\ ~PrimeAsserts(o, s0) BY PrimedHolds
<1>2. SourceOk(p) /\ (HasSource(s0) => p.state = s0.state) BY <1>1, PrimedOk
<1>3. Supported BY DEF Supported, PlainKinds
<1> HIDE DEF p
<1>4. HoldsFirst(y, p) BY <1>1 DEF HoldsFirst
<1>5. CASE HasSource(p)
  <2>1. PlayedIf(Supported, p) = SourcePlay(p) BY <1>3, <1>5 DEF PlayedIf
  <2>2. InStep(y, SourcePlay(p)) BY <1>2, <1>4, <1>5, PlayedInStep
  <2>3. HasSource(SourcePlay(p)) BY <1>2, <1>5, PlayOk DEF HasSource
  <2> QED BY <1>1, <2>1, <2>2, <2>3 DEF p
<1>6. CASE ~HasSource(p)
  <2>1. PlayedIf(Supported, p) = p BY <1>6 DEF PlayedIf
  <2>2. InStep(y, p) BY <1>2, <1>6, NoneInStep DEF HasSource
  <2>3. ~HasSource(s0) BY <1>2, <1>6 DEF HasSource
  <2> QED BY <1>1, <2>1, <2>2, <2>3 DEF p
<1> QED BY <1>5, <1>6

LEMMA CarefulParts ==
  ASSUME CarefulInv, q.alive
  PROVE  /\ QueueInv /\ q \in QueueRecord /\ SourceOk(al) /\ q.kind \in PlainKinds
         /\ InStep(q, al) /\ HoldsFirst(q, al) /\ al.state # "initial"
         /\ q.kind.internal /\ q.kind.tiny # {} => al.state = "none"
BY InvParts DEF CarefulInv, InStep, HoldsFirst

\* What is left to show of a call
LEMMA CarefulCall ==
  ASSUME CarefulInv, QueueInv', Calling, Return, q'.kind = q.kind, q'.alive = q.alive,
         InStep(q', al'), HasSource(al) => HasSource(al'),
         phase = "idle" \/ (q.is_running = "Stopped" => q'.is_running = "Stopped")
  PROVE  CarefulInv'
<1>1. q.alive /\ phase' = phase /\ snapshot' = snapshot /\ panic' = panic
  BY DEF Calling, Return, handlerVars
<1>2. q'.alive => InStep(q', al') OBVIOUS
<1> QED BY <1>1, <1>2 DEF CarefulInv, HasSource

LEMMA CarefulStart ==
  ASSUME CarefulInv, phase = "idle", AudioQueueStart PROVE CarefulInv'
<1>1. Calling /\ q.alive BY DEF AudioQueueStart, Calling
<1>2. /\ QueueInv /\ q \in QueueRecord /\ SourceOk(al) /\ q.kind \in PlainKinds /\ HoldsFirst(q, al)
  BY <1>1, CarefulParts
<1>3. ~PrimeAsserts(q, al)
  <2>1. TRUE \in BOOLEAN OBVIOUS
  <2> QED BY <1>2, <2>1, PrimedHolds
<1>4. PICK gen_ok \in BOOLEAN : /\ q' = StartedQueue(q, al, gen_ok)
                                /\ al' = PlayedIf(Supported, PrimedSource(q, al, gen_ok))
                                /\ Return
  BY <1>3 DEF AudioQueueStart, StartedQueue, PlayedIf, GenOutcomes
<1>5. /\ q' \in QueueRecord /\ q'.alive = q.alive /\ q'.kind = q.kind
      /\ q'.buffer_queue = q.buffer_queue
  BY <1>2, <1>4, StartedQueueOk
<1>6. InStep(q', al') /\ (HasSource(al) => HasSource(al'))
  BY <1>2, <1>4, <1>5, PrimedInStep
<1>7. QueueInv' BY <1>2, StartKeeps
<1> QED BY <1>1, <1>4, <1>5, <1>6, <1>7, CarefulCall

LEMMA CarefulEnqueue ==
  ASSUME CarefulInv, q.is_running # "Stopping", NEW b \in Buffers, AudioQueueEnqueueBuffer(b)
  PROVE  CarefulInv'
<1> DEFINE o == [q EXCEPT !.buffer_queue = Append(@, b)]
<1>1. Calling /\ q.alive /\ b \in q.buffers BY DEF AudioQueueEnqueueBuffer, Calling
<1>2. /\ QueueInv /\ q \in QueueRecord /\ SourceOk(al) /\ q.kind \in PlainKinds
      /\ InStep(q, al) /\ HoldsFirst(q, al) /\ al.state # "initial"
  BY <1>1, CarefulParts
<1>3. /\ o \in QueueRecord /\ o.alive = q.alive /\ o.kind = q.kind
      /\ o.is_running = q.is_running /\ o.buffer_queue = Append(q.buffer_queue, b)
  BY <1>1, <1>2, Appended
<1>4. \/ q.is_running # "Running" /\ q' = o /\ al' = al /\ Return
      \/ PrimeAsserts(o, al)
      \/ Return /\ \E gen_ok \in GenOutcomes :
            /\ q' = PrimedQueue(o, al, gen_ok)
            /\ al' = PlayedIf(Supported, PrimedSource(o, al, gen_ok))
  BY DEF AudioQueueEnqueueBuffer, PlayedIf
<1> HIDE DEF o
<1>5. HoldsFirst(o, al)
  <2>1. q.buffer_queue \in Seq(Buffers) /\ Len(al.queue) \in Nat
    BY <1>2, ProcessedFacts DEF QueueRecord
  <2>2. /\ Len(q.buffer_queue) \in Nat /\ Len(o.buffer_queue) = Len(q.buffer_queue) + 1
        /\ \A i \in 1 .. Len(q.buffer_queue) : o.buffer_queue[i] = q.buffer_queue[i]
    BY <1>3, <2>1, AppendProperties, LenProperties
  <2>3. ASSUME NEW i \in 1 .. Len(al.queue) PROVE al.queue[i] = o.buffer_queue[i]
    <3>1. i \in 1 .. Len(q.buffer_queue) BY <1>2, <2>1, <2>2 DEF HoldsFirst
    <3> QED BY <1>2, <2>2, <3>1 DEF HoldsFirst
  <2>4. Len(al.queue) <= Len(o.buffer_queue) BY <1>2, <2>1, <2>2 DEF HoldsFirst
  <2> QED BY <1>2, <1>3, <2>3, <2>4 DEF HoldsFirst
<1>6. ~PrimeAsserts(o, al)
  <2>1. TRUE \in BOOLEAN OBVIOUS
  <2> QED BY <1>2, <1>3, <1>5, <2>1, PrimedHolds
<1>7. QueueInv' BY <1>2, EnqueueKeeps
<1>8. CASE q.is_running # "Running" /\ q' = o /\ al' = al /\ Return
  <2>1. q.is_running = "Stopped" BY <1>2, <1>8 DEF QueueRecord, RunStates
  <2>2. InStep(o, al) BY <1>2, <1>3, <1>5, <2>1 DEF InStep
  <2>3. InStep(q', al') BY <1>8, <2>2
  <2> QED BY <1>1, <1>3, <1>7, <1>8, <2>3, CarefulCall
<1>9. CASE Return /\ \E gen_ok \in GenOutcomes :
             /\ q' = PrimedQueue(o, al, gen_ok)
             /\ al' = PlayedIf(Supported, PrimedSource(o, al, gen_ok))
  <2>1. PICK gen_ok \in BOOLEAN : /\ q' = PrimedQueue(o, al, gen_ok)
                                  /\ al' = PlayedIf(Supported, PrimedSource(o, al, gen_ok))
    BY <1>9 DEF GenOutcomes
  <2>2. /\ q' \in QueueRecord /\ q'.alive = o.alive /\ q'.kind = o.kind
        /\ q'.buffer_queue = o.buffer_queue /\ q'.is_running = o.is_running
    BY <1>3, <2>1, PrimedQueueOk
  <2>3. InStep(q', al') /\ (HasSource(al) => HasSource(al'))
    BY <1>2, <1>3, <1>5, <2>1, <2>2, PrimedInStep
  <2> QED BY <1>1, <1>3, <1>7, <1>9, <2>2, <2>3, CarefulCall
<1> QED BY <1>4, <1>6, <1>8, <1>9

\* The processed buffers of a source in step are among those of the queue.
LEMMA ResetHolds ==
  ASSUME CarefulInv, q.alive PROVE ~ResetAsserts(q, al)
<1>1. q \in QueueRecord /\ SourceOk(al) /\ HoldsFirst(q, al) BY CarefulParts
<1> DEFINE t == SourceStop(al)
<1>2. SourceOk(t) /\ t.queue = al.queue BY <1>1, StopOk
<1> HIDE DEF t
<1>3. Len(t.queue) \in Nat /\ Processed(t) \in Nat /\ Processed(t) <= Len(t.queue)
  BY <1>2, ProcessedFacts
<1>4. Len(q.buffer_queue) \in Nat BY <1>1, LenProperties DEF QueueRecord
<1> QED BY <1>1, <1>2, <1>3, <1>4 DEF ResetAsserts, HoldsFirst, t

LEMMA CarefulPlayback ==
  ASSUME CarefulInv, q.is_running # "Stopping", PlaybackCall PROVE CarefulInv'
<1>1. Calling /\ q.alive
  BY DEF PlaybackCall, AudioQueuePause, AudioQueueReset, AudioQueueStop, Calling
<1>2. /\ QueueInv /\ q \in QueueRecord /\ SourceOk(al) /\ q.kind \in PlainKinds
      /\ InStep(q, al) /\ HoldsFirst(q, al) /\ al.state # "initial"
      /\ q.kind.internal /\ q.kind.tiny # {} => al.state = "none"
  BY <1>1, CarefulParts
<1>3. ~ResetAsserts(q, al) BY <1>1, ResetHolds
<1>4. QueueInv'
  BY <1>2, PauseKeeps, ResetKeeps, StopKeeps DEF PlaybackCall
<1>5. HasSource(al) => HasSource(ResetSource(al)) BY <1>2, ResetOk DEF HasSource
<1>6. CASE AudioQueuePause
  <2>1. /\ q' = [q EXCEPT !.is_running = "Stopped"] /\ al' = SourcePause(al) /\ Return
    BY <1>6 DEF AudioQueuePause
  <2>2. /\ q' \in QueueRecord /\ q'.is_running = "Stopped" /\ q'.alive = q.alive
        /\ q'.kind = q.kind /\ q'.buffer_queue = q.buffer_queue
    <3>1. "Stopped" \in RunStates BY DEF RunStates
    <3> QED BY <1>2, <2>1, <3>1, EditRunning
  <2>3. /\ al'.queue = al.queue
        /\ al'.state = IF al.state = "playing" THEN "paused" ELSE al.state
    BY <1>2, <2>1, PauseOk
  <2>4. HoldsFirst(q', al') BY <1>2, <2>2, <2>3 DEF HoldsFirst
  <2>5. InStep(q', al') BY <1>2, <2>2, <2>3, <2>4 DEF InStep
  <2>6. HasSource(al) => HasSource(al') BY <2>3 DEF HasSource
  <2> QED BY <1>1, <1>4, <2>1, <2>2, <2>5, <2>6, CarefulCall
<1>7. CASE AudioQueueReset
  <2>1. q' = ResetQueue(q) /\ al' = ResetSource(al) /\ Return
    BY <1>3, <1>7 DEF AudioQueueReset
  <2>2. /\ q' \in QueueRecord /\ q'.is_running = q.is_running /\ q'.alive = q.alive
        /\ q'.kind = q.kind
    BY <1>2, <2>1, ResetQueueOk
  <2>3. InStep(q', al') BY <1>2, <2>1, <2>2, ResetInStep
  <2> QED BY <1>1, <1>4, <1>5, <2>1, <2>2, <2>3, CarefulCall
<1>8. ASSUME NEW in_immediate \in BOOLEAN, AudioQueueStop(in_immediate) PROVE CarefulInv'
  <2>1. CASE q' = StoppedQueue(q) /\ al' = ResetSource(al) /\ Return
    <3>1. /\ q' \in QueueRecord /\ q'.is_running = "Stopped" /\ q'.alive = q.alive
          /\ q'.kind = q.kind
      BY <1>2, <2>1, StoppedQueueOk
    <3>2. InStep(q', al') BY <1>2, <2>1, <3>1, ResetInStep
    <3> QED BY <1>1, <1>4, <1>5, <2>1, <3>1, <3>2, CarefulCall
  <2>2. CASE /\ q.is_running # "Stopped" /\ q' = [q EXCEPT !.is_running = "Stopping"]
             /\ al' = al /\ Return
    <3>1. /\ q' \in QueueRecord /\ q'.alive = q.alive /\ q'.kind = q.kind
          /\ q'.buffer_queue = q.buffer_queue
      <4>1. "Stopping" \in RunStates BY DEF RunStates
      <4> QED BY <1>2, <2>2, <4>1, EditRunning
    <3>2. InStep(q', al') BY <1>2, <2>2, <3>1 DEF InStep, HoldsFirst
    <3> QED BY <1>1, <1>4, <2>2, <3>1, <3>2, CarefulCall
  <2> QED BY <1>3, <1>8, <2>1, <2>2 DEF AudioQueueStop
<1> QED BY <1>6, <1>7, <1>8 DEF PlaybackCall

\* The calls that change neither the queue nor how it runs
LEMMA CarefulQuiet ==
  ASSUME CarefulInv, QueueInv', Calling, Return, al' = al,
         q'.alive = q.alive, q'.kind = q.kind, q'.buffer_queue = q.buffer_queue,
         q'.is_running = q.is_running
  PROVE  CarefulInv'
<1>1. q.alive BY DEF Calling
<1>2. InStep(q, al) BY <1>1, CarefulParts
<1>3. InStep(q', al') BY <1>2 DEF InStep, HoldsFirst
<1> QED BY <1>3, CarefulCall

LEMMA CarefulBuffers ==
  ASSUME CarefulInv, q.is_running # "Stopping", BufferCall \/ ListenerCall PROVE CarefulInv'
<1>1. QueueInv /\ q \in QueueRecord BY InvParts DEF CarefulInv
<1>2. ASSUME NEW b \in Buffers, AudioQueueAllocateBuffer(b) \/ AudioQueueFreeBuffer(b)
      PROVE  CarefulInv'
  <2>1. PICK B \in SUBSET Buffers : q' = [q EXCEPT !.buffers = B] /\ Calling /\ Return /\ al' = al
    <3>1. q.buffers \cup {b} \in SUBSET Buffers /\ q.buffers \ {b} \in SUBSET Buffers
      BY <1>1 DEF QueueRecord
    <3> QED BY <1>2, <3>1 DEF AudioQueueAllocateBuffer, AudioQueueFreeBuffer
  <2>2. /\ q'.alive = q.alive /\ q'.kind = q.kind /\ q'.buffer_queue = q.buffer_queue
        /\ q'.is_running = q.is_running
    BY <1>1, <2>1, EditBuffers
  <2>3. QueueInv' BY <1>1, <1>2, AllocateKeeps, FreeKeeps
  <2> QED BY <2>1, <2>2, <2>3, CarefulQuiet
<1>3. CASE ListenerCall
  <2>1. PICK v \in BOOLEAN : q' = [q EXCEPT !.listener = v] /\ Calling /\ Return /\ al' = al
    BY <1>3 DEF ListenerCall, AudioQueueAddPropertyListener, AudioQueueRemovePropertyListener
  <2>2. /\ q'.alive = q.alive /\ q'.kind = q.kind /\ q'.buffer_queue = q.buffer_queue
        /\ q'.is_running = q.is_running
    BY <1>1, <2>1, EditListener
  <2>3. QueueInv' BY <1>1, <1>3, ListenerKeeps
  <2> QED BY <2>1, <2>2, <2>3, CarefulQuiet
<1> QED BY <1>2, <1>3, CarefulEnqueue DEF BufferCall

LEMMA CarefulDispose ==
  ASSUME CarefulInv, phase = "idle", AudioQueueDispose PROVE CarefulInv'
<1>1. QueueInv /\ q \in QueueRecord BY InvParts DEF CarefulInv
<1>2. /\ q' = [q EXCEPT !.alive = FALSE, !.buffers = {}] /\ Return
  BY DEF AudioQueueDispose
<1>3. q'.alive = FALSE /\ q'.kind = q.kind BY <1>1, <1>2 DEF QueueRecord
<1>4. phase' = "idle" /\ panic' = panic BY <1>2 DEF Return, handlerVars
<1>5. QueueInv' BY <1>1, DisposeKeeps
<1>6. q'.kind \in PlainKinds BY <1>3 DEF CarefulInv
<1> QED BY <1>3, <1>4, <1>5, <1>6 DEF CarefulInv

\* A disposed queue has no source that could play.
LEMMA CarefulDevice == ASSUME CarefulInv, device_plays PROVE CarefulInv'
<1>1. QueueInv /\ SourceOk(al) BY InvParts DEF CarefulInv
<1>2. QueueInv' BY <1>1, DeviceKeeps
<1>3. /\ al.state = "playing" /\ al' = SourceAdvances(al)
      /\ UNCHANGED <<q, phase, snapshot, panic>>
  BY DEF device_plays
<1>4. /\ al'.queue = al.queue /\ al'.state \in {"playing", "stopped"}
      /\ al'.state = "stopped" => al'.done = Len(al'.queue)
  BY <1>1, <1>3, AdvanceOk
<1>5. ASSUME q.alive PROVE InStep(q, al')
  <2>1. HoldsFirst(q, al) BY <1>5, CarefulParts
  <2>2. HoldsFirst(q, al') BY <1>3, <1>4, <2>1 DEF HoldsFirst
  <2> QED BY <1>4, <2>2 DEF InStep
<1>6. HasSource(al)' BY <1>4 DEF HasSource
<1>7. q'.alive => InStep(q', al') BY <1>3, <1>5
<1> QED BY <1>2, <1>3, <1>6, <1>7 DEF CarefulInv

\* What is left to show of a step of the handler that ends outside the
\* callbacks for processed buffers
LEMMA CarefulHandler ==
  ASSUME CarefulInv, QueueInv', UNCHANGED panic, q.alive, q'.kind = q.kind, q'.alive = q.alive,
         InStep(q', al'), phase' # "callbacks"
  PROVE  CarefulInv'
<1>1. q'.alive => InStep(q', al') OBVIOUS
<1> QED BY <1>1 DEF CarefulInv

LEMMA CarefulProbe == ASSUME CarefulInv, probe_callback PROVE CarefulInv'
<1>1. /\ q.alive /\ q.buffer_queue # <<>> /\ q.kind.internal
      /\ Head(q.buffer_queue) \in q.kind.tiny
  BY DEF probe_callback, BeginsIdle, Calling, ProbeBegins, Internal, IsTiny
<1>2. /\ QueueInv /\ SourceOk(al) /\ al.state = "none" BY <1>1, CarefulParts
<1>3. QueueInv' BY <1>2, ProbeKeeps
<1>4. q' \in QueueRecord /\ q'.alive = q.alive /\ q'.kind = q.kind
  BY <1>1, <1>2, PoppedOk DEF probe_callback
<1>5. al' = al /\ panic' = panic /\ phase' = "probe" BY DEF probe_callback
<1>6. InStep(q', al') BY <1>2, <1>4, <1>5, NoneInStep
<1> QED BY <1>1, <1>3, <1>4, <1>5, <1>6, CarefulHandler

LEMMA CarefulSilent == ASSUME CarefulInv, silent_callback PROVE CarefulInv'
<1>1. q.alive /\ al.state = "none"
  BY DEF silent_callback, BeginsIdle, Calling, Silent, HasSource
<1>2. QueueInv /\ SourceOk(al) BY <1>1, CarefulParts
<1>3. QueueInv' BY <1>2, SilentKeeps
<1>4. q' \in QueueRecord /\ q'.alive = q.alive /\ q'.kind = q.kind
  <2>1. CASE /\ q.buffer_queue # <<>>
             /\ q' = [q EXCEPT !.buffer_queue = Tail(@), !.is_running_handler = TRUE]
    BY <1>1, <1>2, <2>1, PoppedOk
  <2>2. CASE q' = [q EXCEPT !.initial_callback_sent = TRUE, !.is_running_handler = TRUE]
    BY <1>2, <2>2, AskedOk
  <2> QED BY <2>1, <2>2 DEF silent_callback
<1>5. al' = al /\ panic' = panic /\ phase' = "silent" BY DEF silent_callback
<1>6. InStep(q', al') BY <1>1, <1>2, <1>4, <1>5, NoneInStep
<1> QED BY <1>1, <1>3, <1>4, <1>5, <1>6, CarefulHandler

LEMMA CarefulReturn == ASSUME CarefulInv, handler_returns PROVE CarefulInv'
<1>1. phase # "idle" /\ q' = [q EXCEPT !.is_running_handler = FALSE] /\ phase' = "idle"
      /\ UNCHANGED <<al, snapshot, panic>>
  BY DEF handler_returns
<1>2. q.alive /\ QueueInv /\ q \in QueueRecord BY <1>1, InvParts DEF CarefulInv
<1>3. QueueInv' BY <1>2, ReturnKeeps
<1>4. /\ q'.alive = q.alive /\ q'.kind = q.kind /\ q'.buffer_queue = q.buffer_queue
      /\ q'.is_running = q.is_running
  BY <1>1, <1>2, EditFlag
<1>5. InStep(q, al) BY <1>2, CarefulParts
<1>6. InStep(q', al') BY <1>1, <1>4, <1>5 DEF InStep, HoldsFirst
<1> QED BY <1>1, <1>2, <1>3, <1>4, <1>6, CarefulHandler

\* A pass that began while the queue was running restarts a source that ran
\* dry, and no careful guest starts the queue during another.
LEMMA CarefulPush ==
  ASSUME CarefulInv, q.alive, HasSource(al), NEW seen \in RunStates,
         seen = "Stopped" => q.is_running = "Stopped", push_new_buffers(q, al, seen)
  PROVE  CarefulInv'
<1> DEFINE p == PrimedSource(q, al, TRUE)
           s == Restarted(p, seen)
           stop == StopCompletes(s, seen)
<1>1. /\ QueueInv /\ q \in QueueRecord /\ SourceOk(al) /\ q.kind \in PlainKinds
      /\ HoldsFirst(q, al) /\ al.state # "initial"
  BY CarefulParts
<1>2. QueueInv' BY <1>1, PushKeeps
<1>3. HoldsFirst(q, p) /\ ~PrimeAsserts(q, al)
  <2>1. TRUE \in BOOLEAN OBVIOUS
  <2> QED BY <1>1, <2>1, PrimedHolds
<1>4. SourceOk(p) /\ p.state = al.state
  <2>1. TRUE \in BOOLEAN OBVIOUS
  <2> QED BY <1>1, <1>3, <2>1, PrimedOk
<1>5. PassEnds(seen) BY <1>3, PushCases
<1>6. /\ al' = IF stop THEN ResetSource(s) ELSE s
      /\ q' = AfterPass(q, stop)
      /\ phase' # "callbacks" /\ UNCHANGED panic
  BY <1>5 DEF PassEnds
<1>7. stop \in BOOLEAN BY DEF StopCompletes
<1> HIDE DEF p
<1>8. SourceOk(s) /\ InStep(q, s)
  <2>1. CASE seen # "Stopped" /\ p.state = "stopped"
    <3>1. s = SourcePlay(p) BY <2>1 DEF Restarted
    <3>2. HasSource(p) BY <2>1 DEF HasSource
    <3> HIDE DEF s
    <3> QED BY <1>1, <1>3, <1>4, <3>1, <3>2, PlayedInStep, PlayOk
  <2>2. CASE ~(seen # "Stopped" /\ p.state = "stopped")
    <3>1. s = p BY <2>2 DEF Restarted
    <3>2. q.is_running # "Stopped" => p.state # "stopped" BY <2>2
    <3>3. InStep(q, p) BY <1>1, <1>3, <1>4, <3>2 DEF InStep
    <3> HIDE DEF s
    <3> QED BY <1>4, <3>1, <3>3
  <2> QED BY <2>1, <2>2
<1> HIDE DEF s, stop
<1>9. /\ q' \in QueueRecord /\ q'.alive = q.alive /\ q'.kind = q.kind
      /\ ~stop => q'.is_running = q.is_running /\ q'.buffer_queue = q.buffer_queue
  BY <1>1, <1>6, <1>7, AfterPassOk
<1>10. InStep(q', al')
  <2>1. CASE stop
    <3>1. s.state # "initial" /\ (q'.kind.internal /\ q'.kind.tiny # {} => s.state = "none")
      BY <1>8, <1>9 DEF InStep, HoldsFirst
    <3>2. InStep(q', ResetSource(s)) BY <1>8, <1>9, <3>1, ResetInStep
    <3> QED BY <1>6, <2>1, <3>2
  <2>2. CASE ~stop
    <3>1. InStep(q', s) BY <1>8, <1>9, <2>2 DEF InStep, HoldsFirst
    <3> QED BY <1>6, <2>2, <3>1
  <2> QED BY <1>7, <2>1, <2>2
<1> QED BY <1>2, <1>6, <1>9, <1>10, CarefulHandler

LEMMA CarefulCollect == ASSUME CarefulInv, collect_buffers PROVE CarefulInv'
<1>1. q.alive /\ HasSource(al) BY CollectCases
<1>2. /\ QueueInv /\ q \in QueueRecord /\ SourceOk(al) /\ q.kind \in PlainKinds
      /\ InStep(q, al) /\ HoldsFirst(q, al) /\ al.state # "initial"
  BY <1>1, CarefulParts
<1> DEFINE n == Processed(al)
<1>3. /\ Len(al.queue) \in Nat /\ n \in Nat /\ n <= Len(al.queue)
      /\ al.state = "stopped" => n = Len(al.queue)
  BY <1>2, ProcessedFacts
<1>4. Len(q.buffer_queue) \in Nat /\ Len(al.queue) <= Len(q.buffer_queue)
  BY <1>2, LenProperties DEF QueueRecord, HoldsFirst
<1>5. ~(n > Len(q.buffer_queue)) BY <1>3, <1>4
<1>6. CASE push_new_buffers(q, al, q.is_running)
  BY <1>1, <1>2, <1>6, ControlTypes, CarefulPush
<1>7. CASE Collects
  <2>1. /\ n \in 1 .. Len(q.buffer_queue)
        /\ q' = [q EXCEPT !.buffer_queue = SubSeq(@, n + 1, Len(@)), !.is_running_handler = TRUE]
        /\ al' = Unqueued(al)
        /\ snapshot' = q.is_running /\ phase' = "callbacks" /\ UNCHANGED panic
    BY <1>7 DEF Collects
  <2>2. QueueInv' BY <1>2, CollectKeeps
  <2>3. /\ SourceOk(al') /\ al'.state = al.state /\ al'.done = 0
        /\ Len(al'.queue) = Len(al.queue) - n
        /\ \A i \in 1 .. Len(al'.queue) : al'.queue[i] = al.queue[n + i]
    BY <1>2, <2>1, UnqueuedOk
  <2> HIDE DEF n
  <2>4. /\ q' \in QueueRecord /\ q'.alive = q.alive /\ q'.is_running = q.is_running
        /\ q'.kind = q.kind
        /\ Len(q'.buffer_queue) = Len(q.buffer_queue) - n
        /\ \A i \in 1 .. Len(q'.buffer_queue) : q'.buffer_queue[i] = q.buffer_queue[n + i]
    BY <1>1, <1>2, <2>1, CollectedOk
  <2>5. Len(al'.queue) <= Len(q'.buffer_queue) BY <1>3, <1>4, <2>3, <2>4
  <2>6. ASSUME NEW i \in 1 .. Len(al'.queue) PROVE al'.queue[i] = q'.buffer_queue[i]
    <3>1. n + i \in 1 .. Len(al.queue) /\ i \in 1 .. Len(q'.buffer_queue)
      BY <1>3, <1>4, <2>3, <2>4
    <3>2. al.queue[n + i] = q.buffer_queue[n + i] BY <1>2, <3>1 DEF HoldsFirst
    <3> QED BY <2>3, <2>4, <3>1, <3>2
  <2>7. HoldsFirst(q', al') BY <1>2, <2>3, <2>4, <2>5, <2>6 DEF HoldsFirst
  <2>8. al'.state = "stopped" => al'.done = Len(al'.queue) BY <1>3, <2>3
  <2>9. InStep(q', al') BY <1>2, <2>3, <2>7, <2>8 DEF InStep
  <2>10. HasSource(al)' BY <1>1, <2>3 DEF HasSource
  <2>11. /\ panic' = "no" /\ q'.kind \in PlainKinds /\ q'.alive /\ phase' = "callbacks"
         /\ snapshot' = "Stopped" => q'.is_running = "Stopped"
    BY <1>1, <1>2, <2>1, <2>4 DEF CarefulInv
  <2> QED BY <2>2, <2>9, <2>10, <2>11 DEF CarefulInv
<1> QED BY <1>5, <1>6, <1>7, CollectCases

LEMMA CarefulCallback == ASSUME CarefulInv, callback_returns PROVE CarefulInv'
<1>1. phase = "callbacks" BY DEF callback_returns
<1>2. /\ q.alive /\ HasSource(al) /\ QueueInv
      /\ snapshot = "Stopped" => q.is_running = "Stopped"
  BY <1>1 DEF CarefulInv
<1>3. QueueInv' BY <1>2, CallbackKeeps
<1>4. CASE push_new_buffers(q, al, snapshot)
  BY <1>2, <1>4, ControlTypes, CarefulPush
<1>5. CASE UNCHANGED <<q, al, phase, snapshot, panic>>
  BY <1>3, <1>5 DEF CarefulInv, HasSource, InStep, HoldsFirst
<1> QED BY <1>4, <1>5 DEF callback_returns

LEMMA CarefulStep == CarefulInv /\ [CarefulNext]_vars => CarefulInv'
<1> SUFFICES ASSUME CarefulInv, [CarefulNext]_vars PROVE CarefulInv'
  OBVIOUS
<1>1. CASE phase = "idle" /\ AudioQueueStart BY <1>1, CarefulStart
<1>2. CASE q.is_running # "Stopping" /\ (PlaybackCall \/ BufferCall \/ ListenerCall)
  BY <1>2, CarefulPlayback, CarefulBuffers
<1>3. CASE phase = "idle" /\ AudioQueueDispose BY <1>3, CarefulDispose
<1>4. CASE handle_audio_queue
  BY <1>4, CarefulProbe, CarefulSilent, CarefulCollect, CarefulCallback, CarefulReturn
  DEF handle_audio_queue
<1>5. CASE device_plays BY <1>5, CarefulDevice
<1>6. CASE UNCHANGED vars
  <2>1. UNCHANGED <<q, al, phase, to_reuse, snapshot, panic>> BY <1>6 DEF vars
  <2>2. QueueInv'
    BY <2>1 DEF CarefulInv, QueueInv, QueueTrue, TypeOK, QueuedBuffersLive, HandlerFlag
  <2> QED BY <2>1, <2>2 DEF CarefulInv, HasSource, InStep, HoldsFirst
<1> QED BY <1>1, <1>2, <1>3, <1>4, <1>5, <1>6 DEF CarefulNext

LEMMA CarefulInit == Init /\ q.kind \in PlainKinds => CarefulInv
<1> SUFFICES ASSUME Init, q.kind \in PlainKinds PROVE CarefulInv
  OBVIOUS
<1>1. QueueInv BY QueueInit
<1>2. q \in QueueRecord /\ SourceOk(al) BY <1>1, InvParts
<1>3. al.state = "none" /\ phase = "idle" /\ panic = "no" BY DEF Init, NoSource
<1>4. InStep(q, al) BY <1>2, <1>3, NoneInStep
<1> QED BY <1>1, <1>3, <1>4 DEF CarefulInv

LEMMA CarefulFaithful == CarefulInv => QueueFaithful
<1> SUFFICES ASSUME CarefulInv PROVE QueueFaithful
  OBVIOUS
<1>1. QueueInv /\ q \in QueueRecord /\ SourceOk(al) /\ panic = "no"
  BY InvParts DEF CarefulInv
<1>2. ASSUME q.alive PROVE IsPrefix(al.queue, q.buffer_queue)
  <2> DEFINE s == al.queue  t == q.buffer_queue
  <2>1. s \in Seq(Buffers) /\ t \in Seq(Buffers) BY <1>1 DEF QueueRecord, SourceOk, SourceRecord
  <2>2. Len(s) \in Nat /\ Len(t) \in Nat /\ Len(s) <= Len(t) /\ Len(s) <= Len(s)
        /\ \A i \in 1 .. Len(s) : s[i] = t[i]
    <3>1. HoldsFirst(q, al) BY <1>2, CarefulParts
    <3> QED BY <2>1, <3>1, LenProperties DEF HoldsFirst
  <2> HIDE DEF s, t
  <2>3. SubSeq(s, 1, Len(s)) = s BY <2>1, SubSeqFull
  <2>4. SubSeq(t, 1, Len(s)) = s
    <3> DEFINE u == SubSeq(t, 1, Len(s))
    <3>1. 1 \in Nat \ {0} OBVIOUS
    <3>2. /\ u \in Seq(Buffers) /\ Len(u) = IF 1 <= Len(s) THEN Len(s) - 1 + 1 ELSE 0
          /\ \A i \in 1 .. Len(u) : u[i] = t[1 + i - 1]
      BY <2>1, <2>2, <3>1, Part
    <3> HIDE DEF u
    <3>3. Len(u) = Len(s) BY <2>2, <3>2
    <3>4. ASSUME NEW i \in 1 .. Len(u) PROVE u[i] = s[i]
      <4>1. 1 + i - 1 = i BY <2>2, <3>3
      <4> QED BY <2>2, <3>2, <3>3, <4>1
    <3>5. u = s BY <2>1, <3>2, <3>3, <3>4, SeqEqual
    <3> QED BY <3>5 DEF u
  <2> QED BY <2>2, <2>3, <2>4 DEF IsPrefix, s, t
<1>3. QueuesSynced BY <1>2 DEF QueuesSynced
<1>4. NothingSkipped BY CarefulParts DEF NothingSkipped, InStep
<1> QED BY <1>1, <1>3, <1>4 DEF QueueFaithful

\* In the hands of a careful guest the nth buffer of the queue is the nth of
\* the source, whatever the device, the handler, resets and stops do and
\* wherever a callback is interrupted; a running source stops only when all
\* it holds has been played, and no assertion fails.
THEOREM QueueAlwaysFaithful == CarefulSpec => []QueueFaithful
<1>1. Init /\ q.kind \in PlainKinds => CarefulInv BY CarefulInit
<1>2. CarefulInv /\ [CarefulNext]_vars => CarefulInv' BY CarefulStep
<1>3. CarefulInv => QueueFaithful BY CarefulFaithful
<1> QED BY <1>1, <1>2, <1>3, PTL DEF CarefulSpec
=============================================================================
