------------------------------ MODULE AudioFiles ------------------------------
(***************************************************************************)
(* Audio files (audio.rs, audio_toolbox/audio_file.rs), extended audio     *)
(* files (extended_audio_file.rs) and AVAudioPlayer                        *)
(* (avfoundation/av_audio_player.rs), which plays a file by feeding an     *)
(* audio queue from its callback.  Of the queue (see AudioQueue) only its  *)
(* buffers and whether it runs matter here.  A file is its length in bytes *)
(* and its packet size; "decoded" files are those Symphonia decodes as a   *)
(* whole, "wave" files are read by hound.                                  *)
(***************************************************************************)
EXTENDS Integers, Sequences, FiniteSetsExt, SequencesExt

CONSTANTS
  Kinds,       \* the files: [kind, bytes, packet, frame]
  NumBuffers,  \* kNumberBuffers, 3 in the code
  PerBuffer,   \* packets that derive_buffer_size gives a buffer
  MaxCalls     \* calls the guest makes on a player

VARIABLES
  file,      \* the file at the guest's path
  handles,   \* State::audio_files
  player,    \* AVAudioPlayerHostObject
  aq,        \* its audio queue: [run, queue, due], due being processed buffers not yet called back
  expect,    \* ghost: [at, loops, bytes]: the packet to be heard next, and the loops granted
  right,     \* ghost: has everything been enqueued as expected?
  ext,       \* ExtAudioFileHostObject
  got,       \* ghost: bytes read through it
  calls, panic
vars == <<file, handles, player, aq, expect, right, ext, got, calls, panic>>

Nil == 0
Ceil(a, b) == (a + b - 1) \div b
Fresh == Min((1..(Cardinality(handles) + 1)) \ handles)
packet_count(f) == Ceil(f.bytes, f.packet)
\* Reading decoded data from beyond its end fails; hound reads nothing there
read_bytes(f, offset, n) ==
  IF offset > f.bytes THEN [err |-> f.kind = "decoded", n |-> 0]
  ELSE [err |-> FALSE, n |-> Min({n, f.bytes - offset})]
\* AudioFileReadBytes: fewer bytes than asked for is eofErr
AudioFileReadBytes(f, offset, n) ==
  LET r == read_bytes(f, offset, n) IN [err |-> r.err, n |-> r.n, eof |-> r.n < n]
PacketsRead(f, bytes) == Ceil(bytes, f.packet)
AudioFileReadPackets(f, start, n) ==
  LET r == AudioFileReadBytes(f, start * f.packet, n * f.packet)
  IN  [err |-> r.err, eof |-> r.eof, bytes |-> r.n, packets |-> PacketsRead(f, r.n)]

NoPlayer == [alive |-> FALSE, file |-> Nil, at |-> 0, playing |-> FALSE, loops |-> 0, seek |-> 0]
NoQueue == [run |-> "none", queue |-> <<>>, due |-> 0]
NoExt == [file |-> Nil, fmt |-> FALSE, at |-> 0]
Init ==
  /\ file \in Kinds /\ handles = {} /\ player = NoPlayer /\ aq = NoQueue
  /\ expect = [at |-> 0, loops |-> 0, bytes |-> 0] /\ right = TRUE
  /\ ext = NoExt /\ got = 0 /\ calls = 0 /\ panic = FALSE
Calls == ~panic /\ calls < MaxCalls /\ calls' = calls + 1
ExtOnly == UNCHANGED <<file, player, aq, expect, right>>
PlayerOnly == UNCHANGED <<file, ext, got>>

-----------------------------------------------------------------------------
\* AVAudioPlayer.  A file that cannot be opened leaves a null handle, and the
\* object deallocates itself
initWithContentsOfURL(ok) ==
  /\ Calls /\ ~player.alive
  /\ IF ok THEN player' = [NoPlayer EXCEPT !.alive = TRUE, !.file = Fresh] /\ handles' = handles \cup {Fresh}
     ELSE UNCHANGED <<player, handles>>
  /\ PlayerOnly /\ UNCHANGED <<aq, expect, right, panic>>
\* _touchHLE_AVAudioPlayerOutputBufferHelper on a free buffer: the next packets
\* of the file, at the end the first ones while there are loops left, else an
\* asynchronous stop.  The state is [p, q, e, right, panic]
LoopsAfter(n) == IF n > 0 THEN n - 1 ELSE n
Wrapped(z) == [z EXCEPT !.p.at = 0, !.p.loops = LoopsAfter(@)]
Stopped(z) == [z EXCEPT !.p.playing = FALSE, !.q.run = IF @ = "Stopped" THEN @ ELSE "Stopping"]
\* What the guest should hear: the packets in order; the file again only when
\* all of it was heard, and no more often than granted
Heard(z, r) ==
  LET e == z.e
      again == e.at # z.p.at
  IN  [z EXCEPT !.right = @ /\ (again => z.p.at = 0 /\ e.bytes = file.bytes /\ e.loops # 0),
                !.e = [at |-> z.p.at + r.packets, loops |-> IF again /\ e.loops > 0 THEN e.loops - 1 ELSE e.loops,
                       bytes |-> (IF again THEN 0 ELSE e.bytes) + r.bytes]]
Enqueued(z, r) ==
  LET y == Heard(z, r)
  IN  [y EXCEPT !.q.queue = Append(@, [from |-> z.p.at, n |-> r.packets]), !.p.at = @ + r.packets]
Feed(z, r) ==
  IF r.err THEN [z EXCEPT !.panic = TRUE]
  ELSE IF r.packets > 0 THEN Enqueued(z, r)
  ELSE [Stopped(z) EXCEPT !.right = @ /\ z.e.bytes = file.bytes]
ReadAt(z) == AudioFileReadPackets(file, z.p.at, PerBuffer)
AtEnd(z, r) == ~r.err /\ r.packets = 0 /\ z.p.loops # 0
OutputBufferHelper(z) ==
  IF z.panic \/ ~z.p.playing THEN z
  ELSE IF AtEnd(z, ReadAt(z)) THEN Feed(Wrapped(z), ReadAt(Wrapped(z)))
  ELSE Feed(z, ReadAt(z))
State == [p |-> player, q |-> aq, e |-> expect, right |-> right, panic |-> panic]
Becomes(state) ==
  \E z \in {state} : player' = z.p /\ aq' = z.q /\ expect' = z.e /\ right' = z.right /\ panic' = z.panic

\* setCurrentTime: times in packets; outside the file is its start
SeekTo(t) == IF t < 0 \/ t > packet_count(file) THEN 0 ELSE t
\* A part of the file counts as heard once it has been skipped
Skipped(t) == [at |-> SeekTo(t), loops |-> player.loops, bytes |-> Min({file.bytes, SeekTo(t) * file.packet})]
setCurrentTime(t) ==
  /\ Calls /\ player.alive
  /\ player' = [player EXCEPT !.seek = t, !.at = IF aq.run = "none" THEN @ ELSE SeekTo(t)]
  /\ expect' = (IF aq.run = "none" THEN expect ELSE Skipped(t))
  /\ PlayerOnly /\ UNCHANGED <<handles, aq, right, panic>>
setNumberOfLoops(n) ==
  /\ Calls /\ player.alive /\ player' = [player EXCEPT !.loops = n] /\ expect' = [expect EXCEPT !.loops = n]
  /\ PlayerOnly /\ UNCHANGED <<handles, aq, right, panic>>
Filled(z) == FoldLeft(LAMBDA w, i : OutputBufferHelper(w), z, [i \in 1..NumBuffers |-> i])
\* prepareToPlay: a queue, all its buffers fed as if playing
Prepared ==
  IF aq.run # "none" THEN State
  ELSE LET z == [State EXCEPT !.p.at = SeekTo(player.seek), !.p.playing = TRUE, !.e = Skipped(player.seek),
                              !.q = [NoQueue EXCEPT !.run = "Stopped"]]
       IN  [Filled(z) EXCEPT !.p.playing = FALSE]
prepareToPlay ==
  /\ Calls /\ player.alive /\ aq.run = "none"
  /\ Becomes(Prepared) /\ PlayerOnly /\ UNCHANGED handles
play ==
  /\ Calls /\ player.alive
  /\ \E z \in {Prepared} : Becomes(IF z.panic THEN z ELSE [z EXCEPT !.p.playing = TRUE, !.q.run = "Running"])
  /\ PlayerOnly /\ UNCHANGED handles
pause ==
  /\ Calls /\ player.alive
  /\ player' = [player EXCEPT !.playing = FALSE]
  /\ aq' = (IF aq.run = "none" THEN aq ELSE [aq EXCEPT !.run = "Stopped"])
  /\ PlayerOnly /\ UNCHANGED <<handles, expect, right, panic>>
\* The queue is disposed of; the file and the number of loops stay
AfterStop(p) == [p EXCEPT !.at = 0, !.playing = FALSE, !.seek = 0]
stop ==
  /\ Calls /\ player.alive /\ aq.run # "none"
  /\ player' = AfterStop(player) /\ aq' = NoQueue
  /\ PlayerOnly /\ UNCHANGED <<handles, expect, right, panic>>
dealloc ==
  /\ Calls /\ player.alive /\ player' = NoPlayer /\ aq' = NoQueue /\ handles' = handles \ {player.file}
  /\ PlayerOnly /\ UNCHANGED <<expect, right, panic>>
\* The queue: the device plays a buffer; the handler calls back for one, and
\* completes an asynchronous stop when nothing is left
device_plays ==
  /\ ~panic /\ aq.run \in {"Running", "Stopping"} /\ aq.queue # <<>>
  /\ aq' = [aq EXCEPT !.queue = Tail(@), !.due = @ + 1]
  /\ PlayerOnly /\ UNCHANGED <<handles, player, expect, right, calls, panic>>
handle_audio_queue ==
  /\ ~panic /\ aq.due > 0
  /\ Becomes(OutputBufferHelper([State EXCEPT !.q.due = @ - 1]))
  /\ PlayerOnly /\ UNCHANGED <<handles, calls>>
finish_stopping ==
  /\ ~panic /\ aq.run = "Stopping" /\ aq.due = 0 /\ aq.queue = <<>> /\ aq' = [aq EXCEPT !.run = "Stopped"]
  /\ PlayerOnly /\ UNCHANGED <<handles, player, expect, right, calls, panic>>

-----------------------------------------------------------------------------
\* Extended audio files: a file handle of its own, and a place in the file
ExtAudioFileOpenURL(ok) ==
  /\ Calls /\ ext.file = Nil
  /\ IF ok THEN ext' = [NoExt EXCEPT !.file = Fresh] /\ handles' = handles \cup {Fresh} /\ got' = 0
     ELSE UNCHANGED <<ext, handles, got>>
  /\ ExtOnly /\ UNCHANGED panic
\* The client format has to be the file's, and is set once
ExtAudioFileSetProperty ==
  /\ Calls /\ ext.file # Nil /\ ~ext.fmt /\ ext' = [ext EXCEPT !.fmt = TRUE]
  /\ ExtOnly /\ UNCHANGED <<handles, got, panic>>
\* A read that reaches the end of the file before it is complete gives no
\* frames and leaves the place where it was
ExtAudioFileRead(frames) ==
  LET r == AudioFileReadBytes(file, ext.at, frames * file.frame)
  IN  /\ Calls /\ ext.file # Nil /\ ext.fmt
      /\ IF r.eof THEN UNCHANGED <<ext, got>>
         ELSE ext' = [ext EXCEPT !.at = @ + r.n] /\ got' = got + r.n
      /\ panic' = r.err /\ ExtOnly /\ UNCHANGED handles
ExtAudioFileDispose ==
  /\ Calls /\ ext.file # Nil /\ handles' = handles \ {ext.file} /\ ext' = NoExt /\ got' = 0
  /\ ExtOnly /\ UNCHANGED panic

Device == device_plays \/ handle_audio_queue \/ finish_stopping
Next ==
  \/ \E ok \in BOOLEAN : initWithContentsOfURL(ok) \/ ExtAudioFileOpenURL(ok)
  \/ \E t \in -1..(packet_count(file) + 1) : setCurrentTime(t)
  \/ \E n \in {0, 1} : setNumberOfLoops(n)
  \/ prepareToPlay \/ play \/ pause \/ stop \/ dealloc
  \/ ExtAudioFileSetProperty \/ (\E n \in 1..2 : ExtAudioFileRead(n)) \/ ExtAudioFileDispose
  \/ Device
Spec == Init /\ [][Next]_vars
Fairness == WF_vars(device_plays) /\ WF_vars(handle_audio_queue)

-----------------------------------------------------------------------------
\* A player is heard in order and to the end of its file, whatever buffers,
\* seeks and pauses come in between, begins again only when a loop is due, and
\* an extended file is read without gaps
HeardInOrder ==
  /\ right
  /\ ext.at = got /\ got <= file.bytes
  /\ aq.due + Len(aq.queue) <= NumBuffers
  /\ (~panic /\ aq.queue # <<>>) => Last(aq.queue).from + Last(aq.queue).n = expect.at \/ player.seek # 0 \/ expect.at = 0

\* Every open file belongs to a live player or an extended file, each has its
\* own, and none is closed under its owner
FilesOwned ==
  /\ handles = {player.file, ext.file} \ {Nil}
  /\ player.file # Nil => player.file # ext.file

\* A player that plays and has buffers ends, unless it is told to go on
PlayEnds == (player.playing /\ aq.run = "Running" /\ aq.due + Len(aq.queue) > 0) ~> (~player.playing \/ panic)
=============================================================================
