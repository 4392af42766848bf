---------------------------- MODULE Notifications ----------------------------
(***************************************************************************)
(* NSNotificationCenter (ns_notification_center.rs): who is registered,    *)
(* what a registration retains, and posting, during which the observers'   *)
(* code registers, removes and posts again.                                *)
(***************************************************************************)
EXTENDS Integers, Sequences, FiniteSets, SequencesExt, FiniteSetsExt

CONSTANTS
  Nil, Names,
  Things,       \* objects of the guest: observers and the objects of posts
  Sources,      \* the things that post
  Tokens,       \* addresses of block observers, each with the block it holds
  MaxEntries, MaxPosts, MaxDepth

VARIABLES
  observers,    \* by name, Nil for all names
  held,         \* references of the guest's own to each thing
  refs,         \* all references to each thing and token
  posting,      \* the calls of postNotification under way, innermost last
  posts

vars == <<observers, held, refs, posting, posts>>
Init ==
  /\ observers = [n \in Names \cup {Nil} |-> <<>>]
  /\ held = [o \in Things |-> 1]
  /\ refs = [o \in Things \cup Tokens |-> IF o \in Things THEN 1 ELSE 0]
  /\ posting = <<>> /\ posts = 0

Entry(observer, object) == [observer |-> observer, object |-> object]
AllEntries == UNION {{observers[n][i] : i \in DOMAIN observers[n]} : n \in DOMAIN observers}
Size == MapThenSumSet(LAMBDA n : Len(observers[n]), DOMAIN observers)
\* Guest code runs: outside any post, or in the handler of the innermost
Guest == posting # <<>> => Last(posting).calling # Nil
Count(o, S) == Cardinality({i \in DOMAIN S : S[i].object = o}) + Cardinality({i \in DOMAIN S : S[i].observer = o /\ o \in Tokens})
Alive(o) == refs[o] > 0

-----------------------------------------------------------------------------
\* The object is retained, the observer is not
addObserver(o, n, object) ==
  /\ Guest /\ held[o] > 0 /\ (object # Nil => held[object] > 0)
  /\ Size < MaxEntries
  /\ observers' = [observers EXCEPT ![n] = Append(@, Entry(o, object))]
  /\ refs' = [r \in DOMAIN refs |-> refs[r] + (IF r = object THEN 1 ELSE 0)]
  /\ UNCHANGED <<held, posting, posts>>
\* The block is copied, and stands for its observer here
addObserverForName(k, n, object) ==
  /\ Guest /\ ~Alive(k) /\ (object # Nil => held[object] > 0)
  /\ Size < MaxEntries
  /\ observers' = [observers EXCEPT ![n] = Append(@, Entry(k, object))]
  /\ refs' = [r \in DOMAIN refs |-> refs[r] + (IF r \in {k, object} THEN 1 ELSE 0)]
  /\ UNCHANGED <<held, posting, posts>>

\* remove_observers_internal with swap_remove: the last entry takes the place
\* of one that goes, and is looked at next
Matches(e, o, object) == e.observer = o /\ object \in {Nil, e.object}
Step(o, object, acc) ==
  IF acc.i > Len(acc.kept) THEN acc
  ELSE IF ~Matches(acc.kept[acc.i], o, object) THEN [acc EXCEPT !.i = @ + 1]
  ELSE [acc EXCEPT !.gone = Append(@, acc.kept[acc.i]),
                   !.kept = Front([acc.kept EXCEPT ![acc.i] = Last(acc.kept)])]
remove_observers_internal(s, o, object) ==
  FoldLeft(LAMBDA acc, x : Step(o, object, acc), [i |-> 1, kept |-> s, gone |-> <<>>], s)
removeObserver(o, n, object) ==
  /\ Guest
  /\ LET S == IF n = Nil THEN DOMAIN observers ELSE {n}
         of == [m \in S |-> remove_observers_internal(observers[m], o, object)]
     IN  /\ \E m \in S : of[m].gone # <<>>
         /\ observers' = [m \in DOMAIN observers |-> IF m \in S THEN of[m].kept ELSE observers[m]]
         /\ refs' = [r \in DOMAIN refs |-> refs[r] - MapThenSumSet(LAMBDA m : Count(r, of[m].gone), S)]
  /\ UNCHANGED <<held, posting, posts>>

\* The list is copied before the first observer is called
postNotification(n, poster) ==
  /\ Guest /\ held[poster] > 0 /\ Len(posting) < MaxDepth /\ posts < MaxPosts /\ posts' = posts + 1
  /\ posting' = Append(posting, [left |-> observers[n] \o observers[Nil], poster |-> poster, calling |-> Nil])
  /\ UNCHANGED <<observers, held, refs>>
Top == Last(posting)
Becomes(f) == posting' = Append(Front(posting), f)
deliver ==
  /\ posting # <<>> /\ Top.calling = Nil /\ Top.left # <<>>
  /\ LET e == Head(Top.left) wanted == e.object \in {Nil, Top.poster}
     IN  /\ Becomes([Top EXCEPT !.left = Tail(@), !.calling = IF wanted THEN e.observer ELSE Nil])
         /\ refs' = IF wanted /\ e.observer \in Things THEN [refs EXCEPT ![e.observer] = @ + 1] ELSE refs
  /\ UNCHANGED <<observers, held, posts>>
handler_returns ==
  /\ posting # <<>> /\ Top.calling # Nil /\ Becomes([Top EXCEPT !.calling = Nil])
  /\ refs' = IF Top.calling \in Things THEN [refs EXCEPT ![Top.calling] = @ - 1] ELSE refs
  /\ UNCHANGED <<observers, held, posts>>
post_returns ==
  /\ posting # <<>> /\ Top.calling = Nil /\ Top.left = <<>> /\ posting' = Front(posting)
  /\ UNCHANGED <<observers, held, refs, posts>>
\* The guest lets go of a thing, which is no observer any more and no post
\* still has to reach
Expected(o) == \E i \in DOMAIN posting : \E j \in DOMAIN posting[i].left : posting[i].left[j].observer = o
release(o) ==
  /\ Guest /\ held[o] > 0 /\ (\A e \in AllEntries : e.observer # o) /\ ~Expected(o)
  /\ \A i \in DOMAIN posting : posting[i].poster # o
  /\ held' = [held EXCEPT ![o] = @ - 1] /\ refs' = [refs EXCEPT ![o] = @ - 1]
  /\ UNCHANGED <<observers, posting, posts>>
\* -[NSNotificationCenter dealloc]
dealloc ==
  /\ posting = <<>> /\ AllEntries # {}
  /\ refs' = [r \in DOMAIN refs |-> refs[r] - MapThenSumSet(LAMBDA n : Count(r, observers[n]), DOMAIN observers)]
  /\ observers' = [n \in DOMAIN observers |-> <<>>]
  /\ UNCHANGED <<held, posting, posts>>

Next ==
  \/ deliver \/ handler_returns \/ post_returns \/ dealloc
  \/ \E o \in Things : release(o)
  \/ \E o \in Sources, n \in Names : postNotification(n, o)
  \/ \E n \in Names \cup {Nil}, object \in Sources \cup {Nil} :
       \/ \E o \in Things : addObserver(o, n, object)
       \/ \E k \in Tokens : addObserverForName(k, n, object)
       \/ \E o \in Things \cup Tokens : removeObserver(o, n, object)

-----------------------------------------------------------------------------
(***************************************************************************)
(* Properties.                                                             *)
(***************************************************************************)
\* "In some cases, observer could be removed during the processing of the
\* notification, effectively releasing it ... We need to retain it for
\* correctness" (ns_notification_center.rs): the observer whose method runs is
\* alive, whatever its method, and posts within it, remove and release.
CalledAlive == \A i \in DOMAIN posting : posting[i].calling \in Things => Alive(posting[i].calling)

\* Nothing is retained for nobody and nothing released twice: the references
\* to a thing or a token are the guest's, one for each registration with it,
\* and one for each call under way.
RegistrationsHeld ==
  \A r \in DOMAIN refs :
    refs[r] = (IF r \in Things THEN held[r] + Cardinality({i \in DOMAIN posting : posting[i].calling = r}) ELSE 0)
              + Cardinality(UNION {{<<n, i>> : i \in {j \in DOMAIN observers[n] :
                                     r \in (Tokens \cap {observers[n][j].observer}) \cup {observers[n][j].object}}} :
                                   n \in DOMAIN observers})
=============================================================================
