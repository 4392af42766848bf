------------------------------ MODULE Defaults ------------------------------
(***************************************************************************)
(* An app's life and what outlives it: UIApplicationMain and exit, with    *)
(* the delegate they tell, and NSUserDefaults, whose app domain is written *)
(* as a property list.  The file is truncated and then written, and the    *)
(* process may be killed between any two steps.  Between the steps of the  *)
(* system the delegate's methods do as they like.  A number's v counts in  *)
(* halves; containers hold leaves.                                         *)
(***************************************************************************)
EXTENDS Integers, Sequences

CONSTANTS
  Keys, Global,   \* defaults keys, and the one of the global domain
  Values,         \* what the app sets: records [is, v, kids]
  Launches,       \* processes in a row
  Changes         \* calls to change the defaults, per process

VARIABLES
  up,             \* "down", "nib", "launching", "active", "running", "sync", "resign", "terminate", "gone"
  launches, changes,
  delegate, delegate_is_retained, rc, kept,  \* rc of "first", the delegate of the launch; was it the delegate throughout?
  loaded,         \* has standard_defaults been made?
  app, registered,   \* the domains: functions from Keys
  writing,        \* is the file being written?
  file,           \* [whole, dict], of property list values
  saved, dirty, late,  \* app at the last synchronize; keys changed since, and those changed as the app exits
  panic
vars == <<up, launches, changes, delegate, delegate_is_retained, rc, kept, loaded, app, registered, writing, file,
          saved, dirty, late, panic>>
life == <<up, launches>>
ui == <<delegate, delegate_is_retained, rc, kept>>

None == [is |-> "none", v |-> 0, kids |-> <<>>]
Empty == [k \in Keys |-> None]
GlobalDomain == [k \in Keys |-> IF k = Global THEN [is |-> "array", v |-> 0, kids |-> <<[is |-> "string", v |-> 1]>>] ELSE None]

Init ==
  /\ up = "down" /\ launches = 0 /\ changes = 0 /\ delegate = "none" /\ delegate_is_retained = FALSE /\ rc = 0 /\ kept = FALSE
  /\ loaded = FALSE /\ app = Empty /\ registered = Empty /\ writing = FALSE
  /\ file = [whole |-> FALSE, dict |-> Empty] /\ saved = Empty /\ dirty = {} /\ late = {} /\ panic = FALSE

-----------------------------------------------------------------------------
\* Property lists: serialize_plist loses what kind of number it was, and knows not every kind.
\* Dates count from 2001, and earlier ones cannot be converted
Integer == {"int", "uint", "longlong", "short", "char"}
SerializedIs(is) == IF is \in Integer THEN "integer" ELSE IF is \in {"float", "double"} THEN "real" ELSE is
DeserializedIs(is) == CASE is = "integer" -> "longlong" [] is = "real" -> "double" [] OTHER -> is
NoPlist(x) == x.is \in {"ulonglong", "ushort", "decimal", "mutabledata", "object"} \/ (x.is = "date" /\ x.v < 0)
Unwritable(x) == NoPlist(x) \/ \E i \in DOMAIN x.kids : NoPlist(x.kids[i])
Converted(x, Is(_)) == [x EXCEPT !.is = Is(@), !.kids = [i \in DOMAIN @ |-> [@[i] EXCEPT !.is = Is(@)]]]
serialize_plist(dict) == [k \in Keys |-> Converted(dict[k], SerializedIs)]
deserialize_plist(dict) == [k \in Keys |-> Converted(dict[k], DeserializedIs)]
\* deserialize_plist_from_file: a file that cannot be parsed counts as none
deserialize_plist_from_file == IF file.whole THEN deserialize_plist(file.dict) ELSE Empty

-----------------------------------------------------------------------------
\* standardUserDefaults is made when it is first asked for
Standard == IF loaded THEN app ELSE deserialize_plist_from_file
objectForKey(k) ==
  IF app[k] # None THEN app[k] ELSE IF GlobalDomain[k] # None THEN GlobalDomain[k] ELSE registered[k]
Entries(d, e) == [k \in Keys |-> IF e[k] # None THEN e[k] ELSE d[k]]
dictionaryRepresentation == Entries(Entries(registered, GlobalDomain), app)
\* The typed getters
boolForKey(x) == x.v # 0
integerForKey(x) == IF x.is \notin {"float", "double"} THEN x.v ELSE IF x.v < 0 THEN -((-x.v) \div 2) ELSE x.v \div 2
doubleForKey(x) == IF x.is \in {"float", "double"} THEN x.v ELSE 2 * x.v
stringForKey(x) == x.is \in Integer \cup {"bool", "float", "double", "string"}

Handling == up \in {"nib", "launching", "active", "running", "resign", "terminate"} /\ ~writing /\ ~panic
Exiting == up \in {"resign", "terminate"}
Changed(k) == dirty' = dirty \cup {k} /\ late' = (IF Exiting THEN late \cup {k} ELSE late) /\ changes' = changes + 1
setObject_forKey(k, x) ==
  /\ Handling /\ changes < Changes /\ app' = [Standard EXCEPT ![k] = x] /\ loaded' = TRUE /\ Changed(k)
  /\ UNCHANGED <<life, ui, registered, writing, file, saved, panic>>
removeObjectForKey(k) ==
  /\ Handling /\ changes < Changes /\ app' = [Standard EXCEPT ![k] = None] /\ loaded' = TRUE /\ Changed(k)
  /\ UNCHANGED <<life, ui, registered, writing, file, saved, panic>>
registerDefaults(e) ==
  /\ Handling /\ changes < Changes /\ changes' = changes + 1 /\ registered' = Entries(registered, e)
  /\ app' = Standard /\ loaded' = TRUE
  /\ UNCHANGED <<life, ui, writing, file, saved, dirty, late, panic>>

Written == app
SyncBegin ==
  /\ app' = Standard /\ loaded' = TRUE
  /\ \/ (\E k \in Keys : Unwritable(app'[k])) /\ panic' = TRUE /\ UNCHANGED <<file, writing, saved>>
     \/ (\A k \in Keys : ~Unwritable(app'[k])) /\ writing' = TRUE /\ file' = [whole |-> FALSE, dict |-> Empty]
        /\ saved' = Empty /\ UNCHANGED panic
synchronize ==
  /\ Handling /\ SyncBegin /\ UNCHANGED <<life, changes, ui, registered, dirty, late>>
synchronized ==
  /\ writing /\ writing' = FALSE /\ file' = [whole |-> TRUE, dict |-> serialize_plist(Written)] /\ saved' = app /\ dirty' = {}
  /\ up' = (IF up = "sync" THEN "resign" ELSE up)
  /\ UNCHANGED <<launches, changes, ui, loaded, app, registered, late, panic>>

-----------------------------------------------------------------------------
\* UIApplicationMain: the nib makes the delegate, or else the class that was named
rest == <<changes, loaded, app, registered, writing, file, saved, dirty, late, panic>>
UIApplicationMain(from) ==
  /\ up = "down" /\ launches < Launches /\ launches' = launches + 1
  /\ up' = (IF from = "nib" THEN "nib" ELSE "launching")
  /\ delegate' = "first" /\ delegate_is_retained' = FALSE /\ rc' = 1 /\ kept' = TRUE
  /\ changes' = 0 /\ loaded' = FALSE /\ app' = Empty /\ registered' = Empty /\ writing' = FALSE /\ dirty' = {} /\ late' = {}
  /\ UNCHANGED <<file, saved, panic>>
\* The delegate found after the nib was loaded is retained before the pool is drained
nib_loaded ==
  /\ up = "nib" /\ Handling /\ up' = "launching" /\ delegate_is_retained' = TRUE
  /\ rc' = (IF delegate = "first" THEN rc ELSE rc - 1)
  /\ UNCHANGED <<launches, delegate, kept, rest>>
setDelegate(d) ==
  /\ Handling /\ delegate' = d /\ delegate_is_retained' = FALSE /\ kept' = (kept /\ d = "first")
  /\ rc' = (IF delegate_is_retained /\ d # delegate /\ delegate = "first" THEN rc - 1 ELSE rc)
  /\ UNCHANGED <<life, rest>>
\* applicationDidFinishLaunching:, applicationDidBecomeActive:, the run loop; and at exit, once the
\* defaults are synchronized, applicationWillResignActive:, applicationWillTerminate:
After == [launching |-> "active", active |-> "running", resign |-> "terminate", terminate |-> "gone"]
told == up \in DOMAIN After /\ Handling /\ up' = After[up] /\ UNCHANGED <<launches, ui, rest>>
exit ==
  /\ up \in {"launching", "active", "running"} /\ Handling /\ SyncBegin
  /\ up' = "sync" /\ UNCHANGED <<launches, changes, ui, registered, dirty, late>>
\* The process is killed, or has panicked, or has exited
ends ==
  /\ up # "down" /\ up' = "down" /\ delegate' = "none" /\ rc' = 0 /\ kept' = FALSE /\ delegate_is_retained' = FALSE
  /\ loaded' = FALSE /\ app' = Empty /\ registered' = Empty /\ writing' = FALSE /\ dirty' = {} /\ late' = {} /\ panic' = FALSE
  /\ changes' = 0 /\ UNCHANGED <<launches, file, saved>>

Next ==
  \/ \E from \in {"nib", "class"} : UIApplicationMain(from)
  \/ nib_loaded \/ told \/ exit \/ ends \/ synchronize \/ synchronized
  \/ \E d \in {"first", "second"} : setDelegate(d)
  \/ \E k \in Keys : removeObjectForKey(k) \/ \E x \in Values : setObject_forKey(k, x) \/ registerDefaults([Empty EXCEPT ![k] = x])
Spec == Init /\ [][Next]_vars

-----------------------------------------------------------------------------
\* What the app reads is the same whether it asks for one key or for all; a default that has not
\* changed since it was synchronized, by the app or as it exits, reads the same after a restart,
\* by every getter, however the process ended (one that is killed inside of synchronize leaves
\* none of them at all); an app that exits loses only what was set as it did so; and
\* the delegate of the launch is alive for as long as it is the delegate
Same(x, y) ==
  /\ boolForKey(x) = boolForKey(y) /\ integerForKey(x) = integerForKey(y) /\ doubleForKey(x) = doubleForKey(y)
  /\ stringForKey(x) = stringForKey(y) /\ Len(x.kids) = Len(y.kids)
  /\ \A i \in DOMAIN x.kids : integerForKey(x.kids[i]) = integerForKey(y.kids[i])
=============================================================================
