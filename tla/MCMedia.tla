------------------------------- MODULE MCMedia -------------------------------
(***************************************************************************)
(* The audio queue and the parts of the system that play, in one run: a    *)
(* behaviour is that of one of the guests, the other parts rest.           *)
(*   "careful"  an audio queue, used with care   "free"    in any way      *)
(*   "openal"   the guest's OpenAL               "units"   audio units     *)
(*   "player"   audio files and AVAudioPlayer    "movies"  the movie player*)
(***************************************************************************)
EXTENDS AudioQueue

CONSTANTS Guests, Addr, HostDev, HostCtx, AlBuffers, MaxAlCalls, MaxCalls,
          Units, FirstTarget, LastTarget, MaxUnitCalls,
          Kinds, NumBuffers, PerBuffer, Movie, MaxPlays
VARIABLES guest, calls, panics,
          devices, contexts, current_ctx, host_current, ctx, meant, want,
          unit, src, loop, todo, pass, bufs, orphans, dry, misuse,
          file, handles, player, aq, expect, right, ext, got,
          refs, mine, active, pending, to_post

O == INSTANCE OpenAL WITH al <- ctx, panic <- panics, MaxCalls <- MaxAlCalls
U == INSTANCE AudioUnits WITH panic <- panics, MaxCalls <- MaxUnitCalls
F == INSTANCE AudioFiles WITH panic <- panics
M == INSTANCE MoviePlayer WITH panic <- panics, plays <- calls

queue_vars == vars
openal_vars == <<devices, contexts, current_ctx, host_current, ctx, meant, want>>
unit_vars == <<unit, src, loop, todo, pass, bufs, orphans, dry, misuse>>
file_vars == <<file, handles, player, aq, expect, right, ext, got>>
movie_vars == <<refs, mine, active, pending, to_post>>

\* The buffers are alike: no need for each one of two that are tiny
FreeKinds ==
  {k \in Kind : k.tiny \in {{}, Buffers, {CHOOSE b \in Buffers : TRUE}} /\ (~k.supported => k.tiny = {})}

\* The files: a wave file, whose packets are frames, and two decoded ones, of
\* which one ends with a whole packet
PartKinds == {[kind |-> "decoded", bytes |-> 7, packet |-> 2, frame |-> 1]}
MCKinds == {[kind |-> "wave", bytes |-> 5, packet |-> 1, frame |-> 1],
            [kind |-> "decoded", bytes |-> 8, packet |-> 2, frame |-> 1]} \cup PartKinds

MCInit ==
  /\ Init /\ O!Init /\ U!Init /\ F!Init /\ M!Init /\ guest \in Guests
  /\ guest = "careful" => q.kind \in PlainKinds
  /\ guest = "free" => q.kind \in FreeKinds
  /\ guest \notin {"careful", "free"} => q.kind = CHOOSE k \in PlainKinds : TRUE
  /\ guest # "units" => loop = <<>>
  /\ guest # "player" => file = CHOOSE f \in Kinds : TRUE
MCNext ==
  /\ UNCHANGED guest
  /\ \/ guest = "careful" /\ CarefulNext /\ UNCHANGED <<openal_vars, unit_vars, file_vars, movie_vars, calls, panics>>
     \/ guest = "free" /\ Next /\ UNCHANGED <<openal_vars, unit_vars, file_vars, movie_vars, calls, panics>>
     \/ guest = "openal" /\ O!Next /\ UNCHANGED <<queue_vars, unit_vars, file_vars, movie_vars>>
     \/ guest = "units" /\ U!Next /\ UNCHANGED <<queue_vars, openal_vars, file_vars, movie_vars>>
     \/ guest = "player" /\ F!Next /\ UNCHANGED <<queue_vars, openal_vars, unit_vars, movie_vars>>
     \/ guest = "movies" /\ M!Next /\ UNCHANGED <<queue_vars, openal_vars, unit_vars, file_vars>>
all_vars == <<guest, calls, panics, queue_vars, openal_vars, unit_vars, file_vars, movie_vars>>
MCSpec == MCInit /\ [][MCNext]_all_vars /\ Fairness /\ F!Fairness

-----------------------------------------------------------------------------
\* The buffers of a careful guest come back, its asynchronous stops complete, and what a player
\* plays comes to an end: see BuffersComeBack and AsyncStopCompletes of AudioQueue and PlayEnds
\* of AudioFiles
PlaybackServed == (guest = "careful" => BuffersComeBack /\ AsyncStopCompletes) /\ F!PlayEnds
=============================================================================
