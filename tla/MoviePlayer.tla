------------------------------ MODULE MoviePlayer ------------------------------
(***************************************************************************)
(* MPMoviePlayerController (media_player/movie_player.rs): no movie is     *)
(* shown, but the application is told that it was preloaded and, a second  *)
(* after it began, that it finished.  The runtime keeps the playing object *)
(* alive.  Notifications wait in a queue until the run loop handles them;  *)
(* their observers are guest code, which runs between two of them.         *)
(***************************************************************************)
EXTENDS Integers, Sequences, SequencesExt, FiniteSetsExt

CONSTANTS Movie, MaxPlays   \* controllers; `play' messages the guest sends

VARIABLES
  refs,      \* reference counts
  mine,      \* ghost: references the guest holds
  active,    \* State::active_player
  pending,   \* State::pending_notifications: [name, obj, due]
  to_post,   \* notifs_to_run of handle_players
  plays, panic
vars == <<refs, mine, active, pending, to_post, plays, panic>>
Nil == "nil"

Init ==
  /\ refs = [m \in Movie |-> 0] /\ mine = refs /\ active = Nil
  /\ pending = <<>> /\ to_post = <<>> /\ plays = 0 /\ panic = FALSE
Ok == ~panic
Told(q, m) == \E i \in DOMAIN q : q[i].obj = m

\* A new object at an address that no notification names any more
initWithContentURL(m) ==
  /\ Ok /\ refs[m] = 0 /\ ~Told(pending \o to_post, m)
  /\ refs' = [refs EXCEPT ![m] = 1] /\ mine' = [mine EXCEPT ![m] = 1]
  /\ pending' = Append(pending, [name |-> "preloaded", obj |-> m, due |-> TRUE])
  /\ UNCHANGED <<active, to_post, plays, panic>>
\* The guest keeps its object until it has been told everything about it: the
\* queue does not retain the objects it names
release(m) ==
  /\ Ok /\ mine[m] > 0 /\ ~Told(pending \o to_post, m)
  /\ mine' = [mine EXCEPT ![m] = 0] /\ refs' = [refs EXCEPT ![m] = @ - 1]
  /\ UNCHANGED <<active, pending, to_post, plays, panic>>
\* stop of the active player releases it; of another one it asserts, and with
\* none active it does nothing
Stopped(m) == [refs |-> IF active = Nil THEN refs ELSE [refs EXCEPT ![active] = @ - 1], active |-> Nil]
stop(m) ==
  /\ Ok /\ mine[m] > 0
  /\ IF active \notin {Nil, m} THEN panic' = TRUE /\ UNCHANGED <<refs, active>>
     ELSE refs' = Stopped(m).refs /\ active' = Stopped(m).active /\ UNCHANGED panic
  /\ UNCHANGED <<mine, pending, to_post, plays>>
\* play stops the one that plays.  A finish that is already due for the same
\* object is not announced twice
Waiting(m) == \E i \in DOMAIN pending : pending[i].name = "finished" /\ pending[i].obj = m
play(m) ==
  /\ Ok /\ mine[m] > 0 /\ plays < MaxPlays /\ plays' = plays + 1
  /\ refs' = [Stopped(active).refs EXCEPT ![m] = @ + 1] /\ active' = m
  /\ pending' = (IF Waiting(m) THEN pending ELSE Append(pending, [name |-> "finished", obj |-> m, due |-> FALSE]))
  /\ UNCHANGED <<mine, to_post, panic>>
\* The second passes
tick(i) ==
  /\ Ok /\ i \in DOMAIN pending /\ ~pending[i].due /\ pending' = [pending EXCEPT ![i].due = TRUE]
  /\ UNCHANGED <<refs, mine, active, to_post, plays, panic>>
\* handle_players: a due entry is replaced by the last one, which is looked at next
RECURSIVE Due(_, _, _)
Due(q, i, out) ==
  IF i > Len(q) THEN [left |-> q, out |-> out]
  ELSE IF ~q[i].due THEN Due(q, i + 1, out)
  ELSE Due(Front([q EXCEPT ![i] = Last(q)]), i, Append(out, q[i]))
handle_players ==
  /\ Ok /\ to_post = <<>> /\ \E i \in DOMAIN pending : pending[i].due
  /\ pending' = Due(pending, 1, <<>>).left /\ to_post' = Due(pending, 1, <<>>).out
  /\ UNCHANGED <<refs, mine, active, plays, panic>>
post ==
  /\ Ok /\ to_post # <<>> /\ to_post' = Tail(to_post)
  /\ UNCHANGED <<refs, mine, active, pending, plays, panic>>

Next ==
  \/ \E m \in Movie : initWithContentURL(m) \/ release(m) \/ stop(m) \/ play(m)
  \/ \E i \in 1..(2 * Cardinality(Movie)) : tick(i)
  \/ handle_players \/ post
Spec == Init /\ [][Next]_vars

-----------------------------------------------------------------------------
\* The playing object is held exactly once by the runtime however play and
\* stop follow each other, no object is told twice in one go that it finished,
\* and every notification names an object that is still there
Count(q, name, m) == Cardinality({i \in DOMAIN q : q[i].name = name /\ q[i].obj = m})
MoviesKept ==
  /\ \A m \in Movie : refs[m] = mine[m] + (IF active = m THEN 1 ELSE 0)
  /\ \A m \in Movie : Count(pending, "finished", m) <= 1 /\ Count(pending \o to_post, "preloaded", m) <= 1
  /\ \A i \in DOMAIN pending : refs[pending[i].obj] > 0
  /\ panic => active # Nil
=============================================================================
