---------------------------- MODULE ObjCThreads ----------------------------
(***************************************************************************)
(* Where threads meet in the Objective-C runtime: +initialize, sent before *)
(* the first message to a class (objc/messages.rs), and @synchronized      *)
(* (objc/synchronization.rs).                                              *)
(*                                                                         *)
(* Host code runs without interruption; a thread yields inside +initialize *)
(* methods, which are guest code, and where it blocks.                     *)
(***************************************************************************)
EXTENDS Integers, Sequences, FiniteSets, SequencesExt, FiniteSetsExt, FiniteSetTheorems, SequenceTheorems,
        TLAPS

CONSTANTS
  Threads, Classes, Nil,
  Super,        \* the superclass of each class, or Nil
  Uses,         \* the classes to which a class's +initialize sends messages
  Locks,        \* objects to synchronise on
  MaxSends      \* bound on the messages of the guest
VARIABLES
  is_initialized,       \* ClassHostObject::is_initialized
  initializer_threads,  \* ObjC::initializer_threads
  stack,                \* what each thread is in: messages and initialisations
  sent,                 \* messages the guest has sent
  ran,                  \* how often each +initialize has been sent
  ended,                \* classes whose +initialize has come to its end
  panic,                \* a look for an entry that is not there, or a failed assertion
  sync_mutexes,         \* ObjC::sync_mutexes, with the mutexes it names
  inside,               \* which @synchronized blocks each thread has entered
  blocked               \* the object whose mutex a thread waits for

class_vars == <<is_initialized, initializer_threads, stack, sent, ran, ended, panic>>
sync_vars == <<sync_mutexes, inside, blocked>>
vars == <<class_vars, sync_vars>>
NoMutex == [made |-> FALSE, owner |-> Nil, count |-> 0, waiting |-> 0]
NoEntry == [tid |-> Nil, waiters |-> 0, cond |-> 0]
Init ==
  /\ is_initialized = [c \in Classes |-> "NotInitialized"]
  /\ initializer_threads = [c \in Classes |-> NoEntry]
  /\ stack = [t \in Threads |-> <<>>] /\ sent = 0 /\ ran = [c \in Classes |-> 0]
  /\ ended = {} /\ panic = FALSE
  /\ sync_mutexes = [o \in Locks |-> NoMutex]
  /\ inside = [t \in Threads |-> [o \in Locks |-> 0]] /\ blocked = [t \in Threads |-> Nil]

-----------------------------------------------------------------------------
(***************************************************************************)
(* +initialize.  A frame is "send" (the message waits for its receiver's   *)
(* class), "enter" (maybe_initialize_class begins), "super" (it has called *)
(* itself for the superclass and goes on with the status it read before),  *)
(* "waiting" for a condition variable, "woken" from it, with or next in    *)
(* line for its mutex, or "initialize" (the guest's method runs).  Every   *)
(* +initialize makes a condition variable of its own, known by a number.   *)
(***************************************************************************)
Frame(at, c, s) == [at |-> at, class |-> c, status |-> s]
Top(t) == Last(stack[t])
At(t, at) == stack[t] # <<>> /\ Top(t).at = at
Host(t) == \E at \in {"send", "enter", "super"} : At(t, at)
\* Host code of other threads does not come in between
Undisturbed(t) == ~panic /\ \A u \in Threads \ {t} : ~Host(u)
Return(t) == stack' = [stack EXCEPT ![t] = Front(@)]
Become(t, f) == stack' = [stack EXCEPT ![t] = Append(Front(@), f)]
Asleep(c, n) == {u \in Threads : stack[u] # <<>> /\ Top(u) \in {Frame("waiting", c, n), Frame("woken", c, n)}}
\* The entry that is looked for is gone, or the condition variable to be
\* destroyed is in use: a second +initialize of the class has come in between
Fails(t) ==
  LET c == Top(t).class n == Top(t).status e == initializer_threads[c]
  IN  \/ At(t, "super") /\ n = "Initializing" /\ e = NoEntry
      \/ At(t, "woken") /\ is_initialized[c] = "Initialized" /\ (e = NoEntry \/ (e.waiters = 1 /\ Asleep(c, n) # {t}))
      \/ At(t, "initialize") /\ (e = NoEntry \/ (e.waiters = 0 /\ Asleep(c, n) # {}))
panics(t) ==
  /\ Undisturbed(t) /\ Fails(t) /\ panic' = TRUE
  /\ UNCHANGED <<is_initialized, initializer_threads, stack, sent, ran, ended, sync_vars>>

\* Guest code sends a message to a class, from a +initialize or elsewhere
objc_msgSend(t, c) ==
  /\ Undisturbed(t) /\ sent < MaxSends /\ sent' = sent + 1
  /\ stack[t] # <<>> => At(t, "initialize") /\ c \in Uses[Top(t).class]
  /\ stack' = [stack EXCEPT ![t] = @ \o <<Frame("send", c, Nil), Frame("enter", c, Nil)>>]
  /\ UNCHANGED <<is_initialized, initializer_threads, ran, ended, panic, sync_vars>>
\* The method is looked up and runs
dispatch(t) ==
  /\ At(t, "send") /\ Undisturbed(t) /\ Return(t)
  /\ UNCHANGED <<is_initialized, initializer_threads, sent, ran, ended, panic, sync_vars>>
\* The superclasses are not looked at
maybe_initialize_class_only(t) ==
  /\ At(t, "enter") /\ Undisturbed(t)
  /\ LET c == Top(t).class s == is_initialized[c]
     IN  IF s = "Initialized" THEN Return(t) ELSE Become(t, Frame("super", c, s))
  /\ UNCHANGED <<is_initialized, initializer_threads, sent, ran, ended, panic, sync_vars>>
maybe_initialize_class(t) ==
  /\ At(t, "enter") /\ Undisturbed(t)
  /\ LET c == Top(t).class s == is_initialized[c]
     IN  \/ s = "Initialized" /\ Return(t)
         \/ /\ s # "Initialized"
            /\ stack' = [stack EXCEPT ![t] = Front(@) \o <<Frame("super", c, s)>>
                           \o (IF Super[c] = Nil THEN <<>> ELSE <<Frame("enter", Super[c], Nil)>>)]
  /\ UNCHANGED <<is_initialized, initializer_threads, sent, ran, ended, panic, sync_vars>>
\* Somebody is at it: wait, unless it is this thread or has come to its end
wait_for_initializer(t) ==
  /\ At(t, "super") /\ Undisturbed(t) /\ Top(t).status = "Initializing" /\ ~Fails(t)
  /\ LET c == Top(t).class e == initializer_threads[c]
     IN  /\ initializer_threads' = [initializer_threads EXCEPT ![c].waiters = @ + 1]
         /\ IF e.tid = t THEN Return(t)
            ELSE Become(t, Frame(IF is_initialized[c] = "Initialized" THEN "woken" ELSE "waiting", c, e.cond))
  /\ UNCHANGED <<is_initialized, sent, ran, ended, panic, sync_vars>>
\* The status is looked at again, and the last waiter cleans up.  What is
\* found in the map may be the entry of another +initialize; its count may
\* wrap (which nobody tells from a negative number).
wake_waiter(t) ==
  /\ At(t, "woken") /\ Undisturbed(t) /\ ~Fails(t)
  /\ LET c == Top(t).class e == initializer_threads[c]
     IN  IF is_initialized[c] = "Initialized"
         THEN /\ initializer_threads' =
                   [initializer_threads EXCEPT ![c] = IF e.waiters = 1 THEN NoEntry ELSE [e EXCEPT !.waiters = e.waiters - 1]]
              /\ Return(t)
         ELSE Become(t, Frame("waiting", c, Top(t).status)) /\ UNCHANGED initializer_threads
  /\ UNCHANGED <<is_initialized, sent, ran, ended, panic, sync_vars>>
\* initialize is a message to the class like any other, and so it passes
\* maybe_initialize_class again, which counts the thread as its own waiter
begin_initialize(t) ==
  /\ At(t, "super") /\ Undisturbed(t) /\ Top(t).status = "NotInitialized"
  /\ LET c == Top(t).class n == ran[c] + 1
     IN  /\ initializer_threads' = [initializer_threads EXCEPT ![c] = [tid |-> t, waiters |-> 0, cond |-> n]]
         /\ is_initialized' = [is_initialized EXCEPT ![c] = "Initializing"]
         /\ ran' = [ran EXCEPT ![c] = n]
         /\ stack' = [stack EXCEPT ![t] = Front(@) \o <<Frame("initialize", c, n), Frame("enter", c, Nil)>>]
  /\ UNCHANGED <<sent, ended, panic, sync_vars>>
\* pthread_cond_broadcast, by the thread that returns from its method
Awaken(s, c, n) ==
  IF s # <<>> /\ Last(s) = Frame("waiting", c, n) THEN Append(Front(s), Frame("woken", c, n)) ELSE s
end_initialize_quiet(t) ==
  /\ At(t, "initialize") /\ Undisturbed(t)
  /\ LET c == Top(t).class
     IN  is_initialized' = [is_initialized EXCEPT ![c] = "Initialized"] /\ ended' = ended \cup {c}
  /\ Return(t)
  /\ UNCHANGED <<initializer_threads, sent, ran, panic, sync_vars>>
end_initialize(t) ==
  /\ At(t, "initialize") /\ Undisturbed(t) /\ ~Fails(t)
  /\ LET c == Top(t).class n == Top(t).status e == initializer_threads[c]
     IN  /\ is_initialized' = [is_initialized EXCEPT ![c] = "Initialized"] /\ ended' = ended \cup {c}
         /\ IF e.waiters = 0
            THEN initializer_threads' = [initializer_threads EXCEPT ![c] = NoEntry] /\ Return(t)
            ELSE /\ stack' = [u \in Threads |-> IF u = t THEN Front(stack[t]) ELSE Awaken(stack[u], c, n)]
                 /\ UNCHANGED initializer_threads
  /\ UNCHANGED <<sent, ran, panic, sync_vars>>
class_step(t) ==
  \/ dispatch(t) \/ maybe_initialize_class(t) \/ wait_for_initializer(t) \/ wake_waiter(t)
  \/ begin_initialize(t) \/ end_initialize(t) \/ panics(t)

-----------------------------------------------------------------------------
(***************************************************************************)
(* @synchronized.                                                          *)
(***************************************************************************)
\* lock_mutex: a thread that must wait is counted, which keeps the mutex
objc_sync_enter(t, o) ==
  /\ blocked[t] = Nil /\ inside[t][o] < 2
  /\ LET m == [sync_mutexes[o] EXCEPT !.made = TRUE]
     IN  IF m.owner \in {Nil, t}
         THEN /\ sync_mutexes' = [sync_mutexes EXCEPT ![o] = [m EXCEPT !.owner = t, !.count = @ + 1]]
              /\ inside' = [inside EXCEPT ![t][o] = @ + 1] /\ UNCHANGED blocked
         ELSE /\ sync_mutexes' = [sync_mutexes EXCEPT ![o] = [m EXCEPT !.waiting = @ + 1]]
              /\ blocked' = [blocked EXCEPT ![t] = o] /\ UNCHANGED inside
  /\ UNCHANGED class_vars
\* The scheduler takes the mutex for a blocked thread
relock(t) ==
  /\ blocked[t] # Nil
  /\ LET o == blocked[t] m == sync_mutexes[o]
     IN  /\ m.owner = Nil
         /\ sync_mutexes' = [sync_mutexes EXCEPT ![o] = [m EXCEPT !.owner = t, !.count = 1, !.waiting = @ - 1]]
         /\ inside' = [inside EXCEPT ![t][o] = 1]
  /\ blocked' = [blocked EXCEPT ![t] = Nil]
  /\ UNCHANGED class_vars
\* The mutex goes with the last block, unless somebody waits for it
Freed(m) == m.count = 1 /\ m.waiting = 0
objc_sync_exit(t, o) ==
  /\ blocked[t] = Nil /\ inside[t][o] > 0
  /\ LET m == sync_mutexes[o]
     IN  sync_mutexes' = [sync_mutexes EXCEPT ![o] =
                            IF Freed(m) THEN NoMutex
                            ELSE [m EXCEPT !.count = @ - 1, !.owner = IF m.count = 1 THEN Nil ELSE @]]
  /\ inside' = [inside EXCEPT ![t][o] = @ - 1]
  /\ UNCHANGED <<blocked, class_vars>>

-----------------------------------------------------------------------------
ClassNext == \E t \in Threads : class_step(t) \/ \E c \in Classes : objc_msgSend(t, c)
SyncNext == \E t \in Threads : relock(t) \/ \E o \in Locks : objc_sync_enter(t, o) \/ objc_sync_exit(t, o)
\* Every +initialize comes to its end, and the scheduler is fair
ClassFairness == \A t \in Threads : WF_class_vars(class_step(t))
ClassSpec == Init /\ [][ClassNext]_vars /\ ClassFairness
SyncSpec == Init /\ [][SyncNext]_vars

-----------------------------------------------------------------------------
(***************************************************************************)
(* Properties.                                                             *)
(***************************************************************************)
\* A message reaches a class only when its +initialize has come to its end, or
\* from within it on the thread that runs it, and the superclass's came first
\* ("there might be classes above it in the hierarchy that also need to be
\* checked, so check those first", messages.rs).
Runs(t, c) == \E i \in DOMAIN stack[t] : stack[t][i].at = "initialize" /\ stack[t][i].class = c
Ready(t, c) == c \in ended \/ Runs(t, c)
InitializedFirst ==
  \A t \in Threads :
    /\ At(t, "send") => Ready(t, Top(t).class)
    /\ At(t, "initialize") /\ Super[Top(t).class] # Nil => Ready(t, Super[Top(t).class])

\* A thread that waits for another to initialise a class goes on, as long as
\* no +initialize has been sent twice.
SentTwice == \E c \in Classes : ran[c] > 1
WaiterGoesOn == \A t \in Threads : At(t, "waiting") \/ At(t, "woken") ~> Host(t) \/ At(t, "initialize") \/ SentTwice \/ panic

\* Blocks synchronised on one object exclude each other, and a mutex is there
\* as long as somebody is inside or waits.
SyncExcludes ==
  \A o \in Locks :
    /\ Cardinality({t \in Threads : inside[t][o] > 0}) <= 1
    /\ (\E t \in Threads : inside[t][o] > 0 \/ blocked[t] = o) <=> sync_mutexes[o].made

-----------------------------------------------------------------------------
(***************************************************************************)
(* Foundation's locks (ns_lock.rs) and NSThread (ns_thread.rs), over the   *)
(* mutexes, condition variables and threads of GuestThreads: one lock of   *)
(* some class and a few thread objects.                                    *)
(***************************************************************************)
CONSTANTS
  Lockers,        \* the threads that use Foundation's locks
  Conditions,     \* values of an NSConditionLock
  NSThreads,      \* addresses of thread objects
  Targets,        \* objects threads are started on
  MaxRefs

VARIABLES
  class,          \* of the lock
  owner, count,   \* its mutex
  condition,      \* NSConditionLockHostObject::condition
  at, want,       \* where each thread is, and the condition it asks for
  thread,         \* NSThreadHostObject of each thread object, or Nil
  ns_threads,     \* the threads State::ns_threads knows
  refs            \* how often each target is retained for a thread object

lock_vars == <<class, owner, count, condition, at, want>>
thread_vars == <<thread, ns_threads, refs>>

LockClasses == {"NSLock", "NSRecursiveLock", "NSCondition", "NSConditionLock"}
LockInit ==
  /\ class \in LockClasses /\ owner = Nil /\ count = 0 /\ condition = 0
  /\ at = [t \in Lockers |-> "out"] /\ want = [t \in Lockers |-> Nil]
  /\ thread = [n \in NSThreads |-> Nil] /\ ns_threads = {} /\ refs = [o \in Targets |-> 0]

-----------------------------------------------------------------------------
(***************************************************************************)
(* Locks.  A thread is "out", waits for the "mutex", waits for a signal    *)
(* ("signal"), has been signalled and waits for the mutex again ("woken"), *)
(* or is "in".                                                             *)
(***************************************************************************)
\* lock_mutex
Take(t) ==
  IF owner = Nil \/ owner = t
  THEN owner' = t /\ count' = count + 1 /\ at' = [at EXCEPT ![t] = "in"]
  ELSE at' = [at EXCEPT ![t] = "mutex"] /\ UNCHANGED <<owner, count>>
lock(t) ==
  /\ at[t] = "out" \/ (at[t] = "in" /\ class = "NSRecursiveLock" /\ count < MaxRefs)
  /\ want' = [want EXCEPT ![t] = Nil] /\ Take(t)
  /\ UNCHANGED <<class, condition, thread_vars>>
\* tryLock gives up as soon as the mutex is locked, by its owner too
tryLock(t) ==
  /\ at[t] = "out" /\ owner = Nil /\ Take(t) /\ want' = [want EXCEPT ![t] = Nil]
  /\ UNCHANGED <<class, condition, thread_vars>>
\* unlock_mutex, by the thread that holds the lock
Leave(t) ==
  /\ at[t] = "in" /\ count' = count - 1
  /\ owner' = IF count = 1 THEN Nil ELSE owner
unlock(t) ==
  /\ Leave(t)
  /\ at' = [at EXCEPT ![t] = IF count = 1 THEN "out" ELSE @]
  /\ UNCHANGED <<class, condition, want, thread_vars>>
\* if in place of while
\* The rest of lockWhenCondition: with the mutex in hand: pthread_cond_wait
\* gives it up again while the condition is another
Loop(t, others) ==
  IF want[t]' = Nil \/ want[t]' = condition
  THEN owner' = t /\ count' = 1 /\ at' = [others EXCEPT ![t] = "in"]
  ELSE owner' = Nil /\ count' = 0 /\ at' = [others EXCEPT ![t] = "signal"]
lockWhenCondition(t, c) ==
  /\ class = "NSConditionLock" /\ at[t] = "out" /\ want' = [want EXCEPT ![t] = c]
  /\ IF owner = Nil THEN Loop(t, at)
     ELSE at' = [at EXCEPT ![t] = "mutex"] /\ UNCHANGED <<owner, count>>
  /\ UNCHANGED <<class, condition, thread_vars>>
tryLockWhenCondition(t, c) ==
  /\ class = "NSConditionLock" /\ at[t] = "out" /\ condition = c /\ owner = Nil
  /\ owner' = t /\ count' = 1 /\ at' = [at EXCEPT ![t] = "in"] /\ want' = [want EXCEPT ![t] = c]
  /\ UNCHANGED <<class, condition, thread_vars>>
\* The scheduler gives a free mutex to one of those that wait for it
relocked(t) ==
  /\ at[t] \in {"mutex", "woken"} /\ owner = Nil /\ UNCHANGED want
  /\ Loop(t, at)
  /\ UNCHANGED <<class, condition, thread_vars>>
\* pthread_cond_signal for pthread_cond_broadcast
Broadcast_signal ==
  LET waiting == {u \in Lockers : at[u] = "signal"}
  IN  IF waiting = {} THEN at ELSE [at EXCEPT ![CHOOSE u \in waiting : TRUE] = "woken"]
Broadcast == [u \in Lockers |-> IF at[u] = "signal" THEN "woken" ELSE at[u]]
unlockWithCondition(t, c) ==
  /\ class = "NSConditionLock" /\ Leave(t) /\ condition' = c
  /\ at' = [Broadcast EXCEPT ![t] = "out"]
  /\ UNCHANGED <<class, want, thread_vars>>
\* NSCondition
wait(t) ==
  /\ class = "NSCondition" /\ at[t] = "in"
  /\ owner' = Nil /\ count' = 0 /\ at' = [at EXCEPT ![t] = "signal"]
  /\ UNCHANGED <<class, condition, want, thread_vars>>
signal(u) ==
  /\ class = "NSCondition" /\ at[u] = "signal" /\ at' = [at EXCEPT ![u] = "woken"]
  /\ UNCHANGED <<class, owner, count, condition, want, thread_vars>>
broadcast ==
  /\ class = "NSCondition" /\ Broadcast # at /\ at' = Broadcast
  /\ UNCHANGED <<class, owner, count, condition, want, thread_vars>>

-----------------------------------------------------------------------------
(***************************************************************************)
(* NSThread.  A thread object is retained by its creator, whom the program *)
(* lets go of it when it has finished, or by itself ("owned").             *)
(***************************************************************************)
initWithTarget(n, o, owned) ==
  /\ thread[n] = Nil
  /\ thread' = [thread EXCEPT ![n] = [target |-> o, owned |-> owned, finished |-> FALSE, state |-> "new"]]
  /\ refs' = [refs EXCEPT ![o] = @ + 1]
  /\ UNCHANGED <<lock_vars, ns_threads>>
\* pthread_create: the thread is known before it runs
start(n) ==
  /\ thread[n] # Nil /\ thread[n].state = "new"
  /\ ns_threads' = ns_threads \cup {n} /\ thread' = [thread EXCEPT ![n].state = "started"]
  /\ UNCHANGED <<lock_vars, refs>>
detach_new_thread_inner(n, o) ==
  /\ thread[n] = Nil
  /\ thread' = [thread EXCEPT ![n] = [target |-> o, owned |-> TRUE, finished |-> FALSE, state |-> "started"]]
  /\ refs' = [refs EXCEPT ![o] = @ + 1] /\ ns_threads' = ns_threads \cup {n}
  /\ UNCHANGED lock_vars
main(n) ==
  /\ thread[n] # Nil /\ thread[n].state = "started" /\ thread' = [thread EXCEPT ![n].state = "main"]
  /\ UNCHANGED <<lock_vars, ns_threads, refs>>
\* The end of _touchHLE_NSThreadInvocationHelper
NSThreadInvocationHelper(n) ==
  /\ thread[n] # Nil /\ thread[n].state = "main"
  /\ refs' = [refs EXCEPT ![thread[n].target] = @ - 1] /\ ns_threads' = ns_threads \ {n}
  /\ thread' = [thread EXCEPT ![n] = IF @.owned THEN Nil ELSE [@ EXCEPT !.finished = TRUE, !.state = "done"]]
  /\ UNCHANGED lock_vars
\* The creator's last release; dealloc leaves the target to the helper
dealloc(n) ==
  /\ thread[n] # Nil /\ ~thread[n].owned /\ thread[n].state = "done"
  /\ thread' = [thread EXCEPT ![n] = Nil]
  /\ UNCHANGED <<lock_vars, ns_threads, refs>>

-----------------------------------------------------------------------------
LockNext ==
  \/ broadcast
  \/ \E t \in Lockers :
       \/ lock(t) \/ tryLock(t) \/ unlock(t) \/ relocked(t) \/ wait(t) \/ signal(t)
       \/ \E c \in Conditions : lockWhenCondition(t, c) \/ tryLockWhenCondition(t, c) \/ unlockWithCondition(t, c)
ThreadNext ==
  \E n \in NSThreads :
    \/ start(n) \/ main(n) \/ NSThreadInvocationHelper(n) \/ dealloc(n)
    \/ \E o \in Targets : detach_new_thread_inner(n, o) \/ initWithTarget(n, o, FALSE)

-----------------------------------------------------------------------------
(***************************************************************************)
(* Properties.                                                             *)
(***************************************************************************)
\* Whoever asked for a condition and has the lock finds that condition, alone;
\* and nobody sleeps on a condition that has come true: a change of the
\* condition wakes every waiter, who looks again.
ConditionLockTrue ==
  /\ Cardinality({t \in Lockers : at[t] = "in"}) <= 1
  /\ \A t \in Lockers :
       class = "NSConditionLock" /\ want[t] # Nil =>
         /\ at[t] = "in" => owner = t /\ condition = want[t]
         /\ at[t] = "signal" => condition # want[t]

\* "The objects target and argument are retained during the execution of the
\* detached thread.  They are released when the thread finally exits"
\* (ns_thread.rs), once for each thread; and a thread that runs finds itself
\* among the known ones, which no thread outlives.
ThreadsKnown ==
  /\ \A o \in Targets :
       refs[o] = Cardinality({n \in NSThreads : thread[n] # Nil /\ thread[n].target = o /\ ~thread[n].finished})
  /\ ns_threads = {n \in NSThreads : thread[n] # Nil /\ thread[n].state \in {"started", "main"}}

\* No class is used early; whatever kind of lock it is, whoever is inside is alone; and all that
\* waits or runs is known: InitializedFirst, SyncExcludes, ConditionLockTrue and ThreadsKnown
MeetingsTrue == InitializedFirst /\ SyncExcludes /\ ConditionLockTrue /\ ThreadsKnown

-----------------------------------------------------------------------------
(***************************************************************************)
(* Proofs: MeetingsTrue for any classes, and any number of threads,        *)
(* objects and conditions.  All parts together: each rests while another   *)
(* moves.                                                                  *)
(***************************************************************************)
Next ==
  \/ (ClassNext \/ SyncNext) /\ UNCHANGED <<lock_vars, thread_vars>>
  \/ (LockNext \/ ThreadNext) /\ UNCHANGED vars
Spec == Init /\ LockInit /\ [][Next]_<<vars, lock_vars, thread_vars>>

NSThreadObject ==
  [target : Targets, owned : BOOLEAN, finished : BOOLEAN, state : {"new", "started", "main", "done"}]
ASSUME ObjCThreadsAssumption ==
  /\ IsFiniteSet(Threads) /\ IsFiniteSet(NSThreads)
  /\ Super \in [Classes -> Classes \cup {Nil}] /\ Nil \notin Classes
  /\ Nil \notin Threads /\ Nil \notin Locks /\ Nil \notin Lockers /\ Nil \notin NSThreadObject

\* @synchronized: a thread has entered as often as the mutex it owns counts,
\* and whoever is blocked is counted as waiting.
Waiting(o) == {t \in Threads : blocked[t] = o}
SyncType ==
  /\ sync_mutexes \in [Locks -> [made : BOOLEAN, owner : Threads \cup {Nil}, count : Nat, waiting : Nat]]
  /\ inside \in [Threads -> [Locks -> Nat]]
  /\ blocked \in [Threads -> Locks \cup {Nil}]
MutexTrue(m, o) ==
  /\ m.owner = Nil <=> m.count = 0
  /\ m.waiting = Cardinality(Waiting(o))
  /\ m.made <=> m.count > 0 \/ m.waiting > 0
  /\ \A t \in Threads : inside[t][o] = IF m.owner = t THEN m.count ELSE 0
SyncInv == SyncType /\ \A o \in Locks : MutexTrue(sync_mutexes[o], o)

\* Foundation's locks: whoever is in owns the mutex, which only a recursive
\* lock counts beyond one; and what ConditionLockTrue says of the condition.
LockInv ==
  /\ class \in LockClasses /\ owner \in Lockers \cup {Nil} /\ count \in Nat
  /\ at \in [Lockers -> {"out", "mutex", "signal", "woken", "in"}]
  /\ want \in [Lockers -> Conditions \cup {Nil}]
  /\ owner = Nil <=> count = 0
  /\ class # "NSRecursiveLock" => count <= 1
  /\ \A t \in Lockers : at[t] = "in" <=> owner = t
  /\ \A t \in Lockers :
       class = "NSConditionLock" /\ want[t] # Nil =>
         /\ at[t] = "in" => condition = want[t]
         /\ at[t] = "signal" => condition # want[t]

\* NSThread: a target is retained once for each thread object that still
\* needs it, and the registered threads are those that run.
Holders(o) == {n \in NSThreads : thread[n] # Nil /\ thread[n].target = o /\ ~thread[n].finished}
NSThreadInv ==
  /\ thread \in [NSThreads -> NSThreadObject \cup {Nil}] /\ refs \in [Targets -> Nat]
  /\ \A n \in NSThreads : thread[n] # Nil => (thread[n].finished <=> thread[n].state = "done")
  /\ \A o \in Targets : refs[o] = Cardinality(Holders(o))
  /\ ns_threads = {n \in NSThreads : thread[n] # Nil /\ thread[n].state \in {"started", "main"}}

\* +initialize.  A frame waits for the one above it: a message and a look at
\* a superclass go on when that one has returned, which it does when its class
\* has been initialised or is being initialised further down on this thread.
Frames ==
  [at : {"send", "enter", "super", "waiting", "woken", "initialize"}, class : Classes,
   status : {"NotInitialized", "Initializing", "Initialized", Nil} \cup Nat]
Asks(f, c) == f.at # "send" /\ f.class = c
RunsBelow(s, c, i) == \E j \in 1 .. i - 1 : s[j].at = "initialize" /\ s[j].class = c
ReadyBelow(e, s, c, i) == c \in e \/ RunsBelow(s, c, i)
SuperReady(e, s, i) == Super[s[i].class] # Nil => ReadyBelow(e, s, Super[s[i].class], i)
FrameOk(e, s, i) ==
  /\ s[i].at \in {"enter", "waiting", "woken"} => i = Len(s)
  /\ s[i].at = "send" => IF i = Len(s) THEN ReadyBelow(e, s, s[i].class, i) ELSE Asks(s[i + 1], s[i].class)
  /\ s[i].at = "super" => IF i = Len(s) THEN SuperReady(e, s, i) ELSE Asks(s[i + 1], Super[s[i].class])
  /\ s[i].at = "initialize" => SuperReady(e, s, i)
StackOk(e, s) == \A i \in 1 .. Len(s) : FrameOk(e, s, i)
ClassType ==
  /\ is_initialized \in [Classes -> {"NotInitialized", "Initializing", "Initialized"}]
  /\ initializer_threads \in [Classes -> [tid : Threads \cup {Nil}, waiters : Int, cond : Nat]]
  /\ stack \in [Threads -> Seq(Frames)] /\ ran \in [Classes -> Nat]
\* An initialised class's method has ended; the thread in an entry runs the
\* method, or has.
ClassInv ==
  /\ ClassType
  /\ \A c \in Classes : is_initialized[c] = "Initialized" => c \in ended
  /\ \A c \in Classes, t \in Threads :
       initializer_threads[c].tid = t => ReadyBelow(ended, stack[t], c, Len(stack[t]) + 1)
  /\ \A t \in Threads : StackOk(ended, stack[t])

LEMMA AtMostOne ==
  ASSUME NEW S, \A a, b \in S : a = b
  PROVE  Cardinality(S) <= 1
<1>1. CASE S = {}
  BY <1>1, FS_EmptySet
<1>2. ASSUME NEW a \in S PROVE Cardinality(S) <= 1
  <2>1. S = {a}
    BY <1>2
  <2> QED BY <2>1, FS_Singleton
<1> QED BY <1>1, <1>2

LEMMA SyncInit == Init => SyncInv
<1> SUFFICES ASSUME Init PROVE SyncInv
  OBVIOUS
<1>1. SyncType
  BY DEF Init, SyncType, NoMutex
<1>2. ASSUME NEW o \in Locks PROVE MutexTrue(sync_mutexes[o], o)
  <2>1. sync_mutexes[o] = NoMutex /\ \A t \in Threads : inside[t][o] = 0 /\ blocked[t] = Nil
    BY DEF Init
  <2>2. Waiting(o) = {}
    BY <2>1, ObjCThreadsAssumption DEF Waiting
  <2>3. Cardinality(Waiting(o)) = 0
    BY <2>2, FS_EmptySet
  <2> QED BY <2>1, <2>3, ObjCThreadsAssumption DEF MutexTrue, NoMutex
<1> QED BY <1>1, <1>2 DEF SyncInv

LEMMA WaitingFinite == \A o : IsFiniteSet(Waiting(o)) /\ Cardinality(Waiting(o)) \in Nat
<1> SUFFICES ASSUME NEW o PROVE IsFiniteSet(Waiting(o)) /\ Cardinality(Waiting(o)) \in Nat
  OBVIOUS
<1>1. Waiting(o) \subseteq Threads
  BY DEF Waiting
<1> QED BY <1>1, ObjCThreadsAssumption, FS_Subset, FS_CardinalityType

LEMMA EnterKeeps ==
  ASSUME SyncInv, NEW t \in Threads, NEW o \in Locks, objc_sync_enter(t, o)
  PROVE  SyncInv'
<1> DEFINE m == sync_mutexes[o]
<1>0. /\ m \in [made : BOOLEAN, owner : Threads \cup {Nil}, count : Nat, waiting : Nat]
      /\ MutexTrue(m, o)
  BY DEF SyncInv, SyncType
<1>1. CASE m.owner \in {Nil, t}
  <2>1. /\ sync_mutexes' = [sync_mutexes EXCEPT ![o] =
             [made |-> TRUE, owner |-> t, count |-> m.count + 1, waiting |-> m.waiting]]
        /\ inside' = [inside EXCEPT ![t][o] = @ + 1] /\ blocked' = blocked
    BY <1>0, <1>1 DEF objc_sync_enter
  <2>2. SyncType'
    BY <1>0, <2>1 DEF SyncInv, SyncType
  <2>3. ASSUME NEW p \in Locks PROVE MutexTrue(sync_mutexes[p], p)'
    <3>1. Waiting(p)' = Waiting(p)
      BY <2>1 DEF Waiting
    <3>2. CASE p = o
      <4>1. sync_mutexes'[o] = [made |-> TRUE, owner |-> t, count |-> m.count + 1, waiting |-> m.waiting]
        BY <2>1 DEF SyncInv, SyncType
      <4>2. ASSUME NEW u \in Threads PROVE inside'[u][o] = IF u = t THEN m.count + 1 ELSE 0
        BY <1>0, <1>1, <2>1, ObjCThreadsAssumption DEF SyncInv, SyncType, MutexTrue
      <4> HIDE DEF m
      <4> QED BY <1>0, <3>1, <3>2, <4>1, <4>2, ObjCThreadsAssumption DEF MutexTrue
    <3>3. CASE p # o
      <4>1. sync_mutexes'[p] = sync_mutexes[p] /\ \A u \in Threads : inside'[u][p] = inside[u][p]
        BY <2>1, <3>3 DEF SyncInv, SyncType
      <4> QED BY <3>1, <4>1 DEF SyncInv, MutexTrue
    <3> QED BY <3>2, <3>3
  <2> QED BY <2>2, <2>3 DEF SyncInv
<1>2. CASE m.owner \notin {Nil, t}
  <2>1. /\ sync_mutexes' = [sync_mutexes EXCEPT ![o] =
             [made |-> TRUE, owner |-> m.owner, count |-> m.count, waiting |-> m.waiting + 1]]
        /\ inside' = inside /\ blocked' = [blocked EXCEPT ![t] = o] /\ blocked[t] = Nil
    BY <1>0, <1>2 DEF objc_sync_enter
  <2>2. SyncType'
    BY <1>0, <2>1 DEF SyncInv, SyncType
  <2>3. ASSUME NEW p \in Locks PROVE MutexTrue(sync_mutexes[p], p)'
    <3>2. CASE p = o
      <4>1. sync_mutexes'[o] = [made |-> TRUE, owner |-> m.owner, count |-> m.count, waiting |-> m.waiting + 1]
        BY <2>1 DEF SyncInv, SyncType
      <4>2. Waiting(o)' = Waiting(o) \cup {t} /\ t \notin Waiting(o)
        BY <2>1, ObjCThreadsAssumption DEF Waiting, SyncInv, SyncType
      <4>3. Cardinality(Waiting(o)') = Cardinality(Waiting(o)) + 1
        BY <4>2, WaitingFinite, FS_AddElement
      <4>4. \A u \in Threads : inside'[u][o] = IF m.owner = u THEN m.count ELSE 0
        BY <1>0, <2>1 DEF MutexTrue
      <4> HIDE DEF m
      <4> QED BY <1>0, <3>2, <4>1, <4>3, <4>4 DEF MutexTrue
    <3>3. CASE p # o
      <4>1. sync_mutexes'[p] = sync_mutexes[p] /\ \A u \in Threads : inside'[u][p] = inside[u][p]
        BY <2>1, <3>3 DEF SyncInv, SyncType
      <4>2. Waiting(p)' = Waiting(p)
        BY <2>1, <3>3, ObjCThreadsAssumption DEF Waiting, SyncInv, SyncType
      <4> QED BY <4>1, <4>2 DEF SyncInv, MutexTrue
    <3> QED BY <3>2, <3>3
  <2> QED BY <2>2, <2>3 DEF SyncInv
<1> QED BY <1>1, <1>2

LEMMA RelockKeeps ==
  ASSUME SyncInv, NEW t \in Threads, relock(t)
  PROVE  SyncInv'
<1> PICK o \in Locks : o = blocked[t]
  BY DEF relock, SyncInv, SyncType
<1> DEFINE m == sync_mutexes[o]
<1>0. /\ m \in [made : BOOLEAN, owner : Threads \cup {Nil}, count : Nat, waiting : Nat]
      /\ MutexTrue(m, o)
  BY DEF SyncInv, SyncType
<1>1. t \in Waiting(o) /\ Cardinality(Waiting(o) \ {t}) = Cardinality(Waiting(o)) - 1
  <2>1. t \in Waiting(o)
    BY DEF Waiting
  <2> QED BY <2>1, WaitingFinite, FS_RemoveElement
<1>2. Cardinality(Waiting(o) \ {t}) \in Nat
  BY WaitingFinite, FS_Subset, FS_CardinalityType
<1>3. /\ m.owner = Nil /\ m.made /\ m.waiting - 1 \in Nat /\ m.count = 0
  BY <1>0, <1>1, <1>2 DEF relock, MutexTrue
<1> DEFINE n == [m EXCEPT !.owner = t, !.count = 1, !.waiting = @ - 1]
<1>4. /\ sync_mutexes' = [sync_mutexes EXCEPT ![o] = n]
      /\ inside' = [inside EXCEPT ![t][o] = 1] /\ blocked' = [blocked EXCEPT ![t] = Nil]
  BY DEF relock
<1>n. /\ n \in [made : BOOLEAN, owner : Threads \cup {Nil}, count : Nat, waiting : Nat]
      /\ n.made /\ n.owner = t /\ n.count = 1 /\ n.waiting = m.waiting - 1
  <2> HIDE DEF m
  <2> QED BY <1>0, <1>3
<1>5. SyncType'
  <2> HIDE DEF n
  <2> QED BY <1>n, <1>4 DEF SyncInv, SyncType
<1>6. ASSUME NEW p \in Locks PROVE MutexTrue(sync_mutexes[p], p)'
  <2>1. CASE p = o
    <3>1. sync_mutexes'[o] = n
      BY <1>4 DEF SyncInv, SyncType
    <3>2. Waiting(o)' = Waiting(o) \ {t}
      BY <1>4, ObjCThreadsAssumption DEF Waiting, SyncInv, SyncType
    <3>3. \A u \in Threads : inside'[u][o] = IF u = t THEN 1 ELSE 0
      BY <1>0, <1>3, <1>4, ObjCThreadsAssumption DEF SyncInv, SyncType, MutexTrue
    <3> HIDE DEF m, n
    <3> QED BY <1>0, <1>1, <1>3, <1>n, <2>1, <3>1, <3>2, <3>3, ObjCThreadsAssumption DEF MutexTrue
  <2>2. CASE p # o
    <3>1. sync_mutexes'[p] = sync_mutexes[p] /\ \A u \in Threads : inside'[u][p] = inside[u][p]
      BY <1>4, <2>2 DEF SyncInv, SyncType
    <3>2. Waiting(p)' = Waiting(p)
      BY <1>4, <2>2, ObjCThreadsAssumption DEF Waiting, SyncInv, SyncType
    <3> QED BY <3>1, <3>2 DEF SyncInv, MutexTrue
  <2> QED BY <2>1, <2>2
<1> QED BY <1>5, <1>6 DEF SyncInv

LEMMA ExitKeeps ==
  ASSUME SyncInv, NEW t \in Threads, NEW o \in Locks, objc_sync_exit(t, o)
  PROVE  SyncInv'
<1> DEFINE m == sync_mutexes[o]
           left == IF m.count = 1 THEN Nil ELSE t
           stays == m.count > 1 \/ m.waiting > 0
           n == IF Freed(m) THEN NoMutex
                ELSE [m EXCEPT !.count = @ - 1, !.owner = IF m.count = 1 THEN Nil ELSE @]
<1>0. /\ m \in [made : BOOLEAN, owner : Threads \cup {Nil}, count : Nat, waiting : Nat]
      /\ MutexTrue(m, o)
  BY DEF SyncInv, SyncType
<1>1. m.owner = t /\ m.count - 1 \in Nat /\ m.made
  BY <1>0 DEF objc_sync_exit, MutexTrue
<1>2. /\ sync_mutexes' = [sync_mutexes EXCEPT ![o] = n]
      /\ inside' = [inside EXCEPT ![t][o] = @ - 1] /\ blocked' = blocked
  BY DEF objc_sync_exit
<1>n. /\ n \in [made : BOOLEAN, owner : Threads \cup {Nil}, count : Nat, waiting : Nat]
      /\ n.made <=> stays
      /\ n.owner = left /\ n.count = m.count - 1 /\ n.waiting = m.waiting
  <2>1. CASE Freed(m)
    BY <1>0, <1>1, <2>1 DEF Freed, NoMutex
  <2>2. CASE ~Freed(m)
    <3>1. stays
      BY <1>0, <1>1, <2>2 DEF Freed
    <3>2. n = [m EXCEPT !.count = @ - 1, !.owner = IF m.count = 1 THEN Nil ELSE @]
      BY <2>2
    <3> HIDE DEF m, stays, n
    <3> QED BY <1>0, <1>1, <3>1, <3>2
  <2> QED BY <2>1, <2>2
<1>3. SyncType'
  <2>1. inside[t][o] - 1 \in Nat
    BY <1>0, <1>1 DEF MutexTrue
  <2> HIDE DEF n
  <2> QED BY <1>2, <1>n, <2>1 DEF SyncInv, SyncType
<1>4. ASSUME NEW p \in Locks PROVE MutexTrue(sync_mutexes[p], p)'
  <2>1. Waiting(p)' = Waiting(p)
    BY <1>2 DEF Waiting
  <2>2. CASE p = o
    <3>1. sync_mutexes'[o] = n
      BY <1>2 DEF SyncInv, SyncType
    <3>2. \A u \in Threads : inside'[u][o] = IF u = t THEN m.count - 1 ELSE 0
      BY <1>0, <1>1, <1>2 DEF SyncInv, SyncType, MutexTrue
    <3>3. left = Nil <=> m.count - 1 = 0
      BY <1>0, <1>1, ObjCThreadsAssumption
    <3>4. stays <=> m.count - 1 > 0 \/ m.waiting > 0
      BY <1>0, <1>1
    <3>5. \A u \in Threads : inside'[u][o] = IF left = u THEN m.count - 1 ELSE 0
      BY <1>0, <1>1, <3>2, ObjCThreadsAssumption
    <3> HIDE DEF m, left, stays, n
    <3> QED BY <1>0, <1>n, <2>1, <2>2, <3>1, <3>3, <3>4, <3>5 DEF MutexTrue
  <2>3. CASE p # o
    <3>1. sync_mutexes'[p] = sync_mutexes[p] /\ \A u \in Threads : inside'[u][p] = inside[u][p]
      BY <1>2, <2>3 DEF SyncInv, SyncType
    <3> QED BY <2>1, <3>1 DEF SyncInv, MutexTrue
  <2> QED BY <2>2, <2>3
<1> QED BY <1>3, <1>4 DEF SyncInv

LEMMA SyncImplies == SyncInv => SyncExcludes
<1> SUFFICES ASSUME SyncInv, NEW o \in Locks
             PROVE  /\ Cardinality({t \in Threads : inside[t][o] > 0}) <= 1
                    /\ (\E t \in Threads : inside[t][o] > 0 \/ blocked[t] = o) <=> sync_mutexes[o].made
  BY DEF SyncExcludes
<1> DEFINE m == sync_mutexes[o]
<1>1. /\ m \in [made : BOOLEAN, owner : Threads \cup {Nil}, count : Nat, waiting : Nat]
      /\ MutexTrue(m, o)
  BY DEF SyncInv, SyncType
<1>2. \A t \in Threads : inside[t][o] > 0 <=> t = m.owner
  BY <1>1, ObjCThreadsAssumption DEF MutexTrue
<1>3. Cardinality({t \in Threads : inside[t][o] > 0}) <= 1
  BY <1>2, AtMostOne
<1>4. (\E t \in Threads : blocked[t] = o) <=> m.waiting > 0
  <2>1. Waiting(o) = {} <=> Cardinality(Waiting(o)) = 0
    BY WaitingFinite, FS_EmptySet
  <2> QED BY <1>1, <2>1, WaitingFinite DEF MutexTrue, Waiting
<1>5. (\E t \in Threads : inside[t][o] > 0) <=> m.count > 0
  BY <1>1, <1>2 DEF MutexTrue
<1> QED BY <1>1, <1>3, <1>4, <1>5 DEF MutexTrue

LEMMA SyncKeeps == SyncInv /\ (SyncNext \/ UNCHANGED sync_vars) => SyncInv'
<1>1. ASSUME SyncInv, SyncNext PROVE SyncInv'
  BY <1>1, EnterKeeps, RelockKeeps, ExitKeeps DEF SyncNext
<1>2. ASSUME SyncInv, UNCHANGED sync_vars PROVE SyncInv'
  <2>1. sync_mutexes' = sync_mutexes /\ inside' = inside /\ \A o : Waiting(o)' = Waiting(o)
    BY <1>2 DEF sync_vars, Waiting
  <2>2. SyncType'
    BY <1>2 DEF sync_vars, SyncInv, SyncType
  <2>3. ASSUME NEW o \in Locks PROVE MutexTrue(sync_mutexes[o], o)'
    BY <1>2, <2>1 DEF SyncInv, MutexTrue
  <2> QED BY <2>2, <2>3 DEF SyncInv
<1> QED BY <1>1, <1>2

LEMMA FrontFacts ==
  ASSUME NEW S, NEW s \in Seq(S), s # <<>>
  PROVE  /\ Front(s) \in Seq(S) /\ Len(Front(s)) = Len(s) - 1 /\ Len(s) \in Nat \ {0}
         /\ \A i \in 1 .. Len(s) - 1 : Front(s)[i] = s[i]
         /\ Last(s) = s[Len(s)] /\ Last(s) \in S
<1>1. Len(s) \in Nat \ {0} /\ Len(s) \in 1 .. Len(s) /\ Len(s) - 1 \in Int /\ 1 \in Int
  BY EmptySeq
<1>a. \A i \in 1 .. Len(s) - 1 : s[i] \in S
  BY <1>1, ElementOfSeq
<1>2. Front(s) = SubSeq(s, 1, Len(s) - 1) /\ Last(s) = s[Len(s)]
  BY DEF Front, Last
<1>3. /\ SubSeq(s, 1, Len(s) - 1) \in Seq(S) /\ Len(SubSeq(s, 1, Len(s) - 1)) = Len(s) - 1
      /\ \A i \in 1 .. Len(s) - 1 : SubSeq(s, 1, Len(s) - 1)[i] = s[i]
  <2>1. /\ SubSeq(s, 1, Len(s) - 1) \in Seq(S)
        /\ Len(SubSeq(s, 1, Len(s) - 1)) = IF 1 <= Len(s) - 1 THEN Len(s) - 1 - 1 + 1 ELSE 0
        /\ \A i \in 1 .. Len(s) - 1 - 1 + 1 : SubSeq(s, 1, Len(s) - 1)[i] = s[1 + i - 1]
    BY <1>1, <1>a, SubSeqProperties
  <2>2. Len(s) - 1 - 1 + 1 = Len(s) - 1 /\ \A i \in 1 .. Len(s) - 1 : 1 + i - 1 = i
    BY <1>1
  <2>3. Len(SubSeq(s, 1, Len(s) - 1)) = Len(s) - 1
    <3>1. CASE 1 <= Len(s) - 1
      BY <2>1, <2>2, <3>1
    <3>2. CASE ~(1 <= Len(s) - 1)
      <4>1. \A n \in Nat \ {0} : ~(1 <= n - 1) => n - 1 = 0
        OBVIOUS
      <4>2. Len(s) - 1 = 0
        BY <1>1, <3>2, <4>1
      <4> QED BY <2>1, <3>2, <4>2
    <3> QED BY <3>1, <3>2
  <2> QED BY <2>1, <2>2, <2>3
<1>4. s[Len(s)] \in S
  BY <1>1, ElementOfSeq
<1> QED BY <1>1, <1>2, <1>3, <1>4

\* z is s with f for its last element, and a after it
Replaced(z, s, f, a) == z = Front(s) \o <<f>> \o a
LEMMA ReplacedFacts ==
  ASSUME NEW S, NEW s \in Seq(S), s # <<>>, NEW f \in S, NEW a \in Seq(S),
         NEW z, Replaced(z, s, f, a)
  PROVE  /\ z \in Seq(S) /\ Len(s) \in Nat \ {0} /\ Len(a) \in Nat /\ Len(z) = Len(s) + Len(a)
         /\ z[Len(s)] = f /\ \A i \in 1 .. Len(s) - 1 : z[i] = s[i]
         /\ \A j \in 1 .. Len(a) : z[Len(s) + j] = a[j]
<1> DEFINE p == Front(s)
<1>1. /\ p \in Seq(S) /\ Len(p) = Len(s) - 1 /\ Len(s) \in Nat \ {0}
      /\ \A i \in 1 .. Len(s) - 1 : p[i] = s[i]
  BY FrontFacts
<1> HIDE DEF p
<1> DEFINE y == p \o <<f>>
<1>2. /\ y \in Seq(S) /\ Len(y) = Len(s) /\ y[Len(s)] = f /\ \A i \in 1 .. Len(s) - 1 : y[i] = s[i]
  <2>1. <<f>> \in Seq(S) /\ Len(<<f>>) = 1 /\ <<f>>[1] = f
    OBVIOUS
  <2>2. /\ y \in Seq(S) /\ Len(y) = Len(p) + 1
        /\ \A i \in 1 .. Len(p) + 1 : y[i] = IF i <= Len(p) THEN p[i] ELSE <<f>>[i - Len(p)]
    BY <1>1, <2>1, ConcatProperties
  <2> HIDE DEF y
  <2>3. y[Len(s)] = f
    BY <1>1, <2>1, <2>2
  <2> QED BY <1>1, <2>2, <2>3
<1>3. z = y \o a
  BY DEF p, Replaced
<1> HIDE DEF y
<1>4. /\ z \in Seq(S) /\ Len(z) = Len(y) + Len(a) /\ Len(a) \in Nat
      /\ \A i \in 1 .. Len(y) + Len(a) : z[i] = IF i <= Len(y) THEN y[i] ELSE a[i - Len(y)]
  <2>1. /\ y \o a \in Seq(S) /\ Len(y \o a) = Len(y) + Len(a)
        /\ \A i \in 1 .. Len(y) + Len(a) : (y \o a)[i] = IF i <= Len(y) THEN y[i] ELSE a[i - Len(y)]
    BY <1>2, ConcatProperties
  <2>2. Len(a) \in Nat
    BY LenProperties
  <2> QED BY <1>3, <2>1, <2>2
<1>5. ASSUME NEW j \in 1 .. Len(a) PROVE z[Len(s) + j] = a[j]
  <2>1. Len(s) + j \in 1 .. Len(y) + Len(a) /\ ~(Len(s) + j <= Len(y)) /\ Len(s) + j - Len(y) = j
    BY <1>1, <1>2, <1>4
  <2> QED BY <1>4, <2>1
<1>6. ASSUME NEW i \in 1 .. Len(s) PROVE z[i] = y[i]
  <2>1. i \in 1 .. Len(y) + Len(a) /\ i <= Len(y)
    BY <1>1, <1>2, <1>4
  <2> QED BY <1>4, <2>1
<1>7. z[Len(s)] = f /\ \A i \in 1 .. Len(s) - 1 : z[i] = s[i]
  <2>1. Len(s) \in 1 .. Len(s) /\ \A i \in 1 .. Len(s) - 1 : i \in 1 .. Len(s)
    BY <1>1
  <2> QED BY <1>2, <1>6, <2>1
<1> QED BY <1>1, <1>2, <1>4, <1>5, <1>7

\* The stack up to k stays, and what is above is as it should be
LEMMA StackKept ==
  ASSUME NEW s \in Seq(Frames), NEW z \in Seq(Frames), NEW e, NEW f, e \subseteq f,
         NEW k \in Nat, k <= Len(s), k <= Len(z), \A i \in 1 .. k : z[i] = s[i],
         StackOk(e, s), \A i \in 1 .. Len(z) : i >= k => FrameOk(f, z, i)
  PROVE  StackOk(f, z)
<1> SUFFICES ASSUME NEW i \in 1 .. Len(z), i < k PROVE FrameOk(f, z, i)
  BY DEF StackOk
<1>1. FrameOk(e, s, i) /\ i # Len(s) /\ i # Len(z)
  BY DEF StackOk
<1>2. z[i] = s[i] /\ z[i + 1] = s[i + 1]
  OBVIOUS
<1>3. \A c : ReadyBelow(e, s, c, i) => ReadyBelow(f, z, c, i)
  BY DEF ReadyBelow, RunsBelow
<1> QED BY <1>1, <1>2, <1>3 DEF FrameOk, SuperReady

\* A frame returns
LEMMA StackReturns ==
  ASSUME NEW s \in Seq(Frames), s # <<>>, NEW e, NEW f, e \subseteq f, StackOk(e, s),
         Last(s).at = "send" \/ ReadyBelow(f, s, Last(s).class, Len(s))
  PROVE  StackOk(f, Front(s))
<1> DEFINE n == Len(s)  z == Front(s)
<1>1. /\ z \in Seq(Frames) /\ Len(z) = n - 1 /\ n \in Nat \ {0} /\ \A i \in 1 .. n - 1 : z[i] = s[i]
      /\ Last(s) = s[n]
  BY FrontFacts
<1>2. ASSUME NEW i \in 1 .. Len(z), i >= n - 1 PROVE FrameOk(f, z, i)
  <2>1. i = n - 1 /\ i + 1 = n /\ i # n /\ i = Len(z) /\ z[i] = s[i] /\ i \in 1 .. n
    BY <1>1, <1>2
  <2>2. FrameOk(e, s, i)
    BY <2>1 DEF StackOk
  <2>3. ASSUME NEW c, s[i].at # "initialize", ReadyBelow(f, s, c, n) PROVE ReadyBelow(f, z, c, i)
    BY <1>1, <2>1, <2>3 DEF ReadyBelow, RunsBelow
  <2>4. \A c : ReadyBelow(e, s, c, i) => ReadyBelow(f, z, c, i)
    BY <1>1, <2>1 DEF ReadyBelow, RunsBelow
  <2>5. s[i].at \notin {"enter", "waiting", "woken"}
    BY <2>1, <2>2 DEF FrameOk
  <2>6. s[i].at = "send" => ReadyBelow(f, z, s[i].class, i)
    BY <1>1, <2>1, <2>2, <2>3 DEF FrameOk, Asks
  <2>7. s[i].at = "super" => ReadyBelow(f, z, Super[s[i].class], i)
    BY <1>1, <2>1, <2>2, <2>3 DEF FrameOk, Asks
  <2>8. s[i].at = "initialize" => SuperReady(f, z, i)
    BY <2>1, <2>2, <2>4 DEF FrameOk, SuperReady
  <2> HIDE DEF n, z
  <2> QED BY <2>1, <2>5, <2>6, <2>7, <2>8 DEF FrameOk, SuperReady
<1> HIDE DEF n, z
<1>3. n - 1 \in Nat /\ n - 1 <= Len(s) /\ n - 1 <= Len(z)
  BY <1>1 DEF n
<1>4. StackOk(f, z)
  BY <1>1, <1>2, <1>3, StackKept
<1> QED BY <1>4 DEF z

\* A frame turns into another of its class, with more frames on it, maybe
LEMMA StackBecomes ==
  ASSUME NEW s \in Seq(Frames), s # <<>>, NEW z \in Seq(Frames), NEW e, StackOk(e, s),
         Last(s).at # "send", Len(z) >= Len(s), \A i \in 1 .. Len(s) - 1 : z[i] = s[i],
         Asks(z[Len(s)], Last(s).class), \A i \in Len(s) .. Len(z) : FrameOk(e, z, i)
  PROVE  StackOk(e, z)
<1> DEFINE n == Len(s)
<1>1. n \in Nat \ {0} /\ Last(s) = s[n]
  BY FrontFacts
<1>2. ASSUME NEW i \in 1 .. Len(z), i >= n - 1 PROVE FrameOk(e, z, i)
  <2>1. CASE i >= n
    BY <2>1
  <2>2. CASE i = n - 1
    <3>1. FrameOk(e, s, i) /\ i # n /\ i # Len(z) /\ i + 1 = n /\ z[i] = s[i]
      BY <1>1, <2>2 DEF StackOk
    <3>2. \A c : ReadyBelow(e, s, c, i) => ReadyBelow(e, z, c, i)
      BY <1>1, <2>2 DEF ReadyBelow, RunsBelow
    <3> QED BY <1>1, <3>1, <3>2 DEF FrameOk, SuperReady, Asks
  <2> QED BY <1>1, <1>2, <2>1, <2>2
<1>3. n - 1 \in Nat /\ n - 1 <= Len(s) /\ n - 1 <= Len(z)
  BY <1>1
<1> HIDE DEF n
<1>4. \A i \in 1 .. n - 1 : z[i] = s[i]
  BY DEF n
<1> QED BY <1>2, <1>3, <1>4, StackKept

LEMMA StackGrows ==
  ASSUME NEW s \in Seq(Frames), NEW e, NEW f, e \subseteq f, StackOk(e, s)
  PROVE  StackOk(f, s)
<1> SUFFICES ASSUME NEW i \in 1 .. Len(s) PROVE FrameOk(f, s, i)
  BY DEF StackOk
<1>1. FrameOk(e, s, i)
  BY DEF StackOk
<1>2. \A c : ReadyBelow(e, s, c, i) => ReadyBelow(f, s, c, i)
  BY DEF ReadyBelow
<1> QED BY <1>1, <1>2 DEF FrameOk, SuperReady

\* What thread t is in becomes z, and the rest of the state follows
Follows(t, z) ==
  /\ z \in Seq(Frames) /\ stack' = [stack EXCEPT ![t] = z] /\ StackOk(ended', z)
  /\ ended \subseteq ended'
  /\ \A c \in Classes : ReadyBelow(ended, stack[t], c, Len(stack[t]) + 1) => ReadyBelow(ended', z, c, Len(z) + 1)
LEMMA ClassFollows ==
  ASSUME ClassInv, NEW t \in Threads, NEW z, Follows(t, z),
         is_initialized' \in [Classes -> {"NotInitialized", "Initializing", "Initialized"}],
         initializer_threads' \in [Classes -> [tid : Threads \cup {Nil}, waiters : Int, cond : Nat]],
         ran' \in [Classes -> Nat],
         \A c \in Classes : is_initialized'[c] = "Initialized" => c \in ended',
         \A c \in Classes, u \in Threads :
           initializer_threads'[c].tid = u =>
             initializer_threads[c].tid = u \/ (u = t /\ ReadyBelow(ended', z, c, Len(z) + 1))
  PROVE  ClassInv'
<1>1. ClassType'
  BY DEF ClassInv, ClassType, Follows
<1>2. stack'[t] = z /\ \A u \in Threads \ {t} : stack'[u] = stack[u]
  BY DEF ClassInv, ClassType, Follows
<1>3. ASSUME NEW u \in Threads PROVE StackOk(ended', stack'[u])
  <2>1. CASE u = t
    BY <1>2, <2>1 DEF Follows
  <2>2. CASE u # t
    BY <1>2, <2>2, StackGrows DEF ClassInv, ClassType, Follows
  <2> QED BY <2>1, <2>2
<1>4. ASSUME NEW c \in Classes, NEW u \in Threads, initializer_threads'[c].tid = u
      PROVE  ReadyBelow(ended', stack'[u], c, Len(stack'[u]) + 1)
  <2>1. CASE u = t
    BY <1>2, <1>4, <2>1 DEF ClassInv, Follows
  <2>2. CASE u # t
    <3>1. ReadyBelow(ended, stack[u], c, Len(stack[u]) + 1)
      BY <1>4, <2>2 DEF ClassInv
    <3> QED BY <1>2, <2>2, <3>1 DEF ReadyBelow, Follows
  <2> QED BY <2>1, <2>2
<1> QED BY <1>1, <1>3, <1>4 DEF ClassInv

\* A frame that is no +initialize may go, if what it stood for is done
LEMMA ReturnFollows ==
  ASSUME ClassInv, NEW t \in Threads, Return(t), stack[t] # <<>>, ended \subseteq ended',
         Top(t).at = "send" \/ ReadyBelow(ended', stack[t], Top(t).class, Len(stack[t])),
         Top(t).at = "initialize" => Top(t).class \in ended'
  PROVE  Follows(t, Front(stack[t]))
<1> DEFINE s == stack[t]  z == Front(s)
<1>1. s \in Seq(Frames) /\ StackOk(ended, s) /\ stack' = [stack EXCEPT ![t] = z]
  BY DEF ClassInv, ClassType, Return
<1>2. /\ z \in Seq(Frames) /\ Len(z) = Len(s) - 1 /\ Len(s) \in Nat \ {0}
      /\ \A i \in 1 .. Len(s) - 1 : z[i] = s[i]
      /\ Last(s) = s[Len(s)]
  BY <1>1, FrontFacts
<1>3. StackOk(ended', z)
  BY <1>1, StackReturns DEF Top
<1>4. ASSUME NEW c \in Classes, ReadyBelow(ended, s, c, Len(s) + 1) PROVE ReadyBelow(ended', z, c, Len(z) + 1)
  <2>1. CASE c \in ended
    BY <2>1 DEF ReadyBelow
  <2>2. ASSUME NEW j \in 1 .. Len(s), s[j].at = "initialize", s[j].class = c
        PROVE  ReadyBelow(ended', z, c, Len(z) + 1)
    <3>1. CASE j = Len(s)
      BY <1>2, <2>2, <3>1 DEF Top, ReadyBelow
    <3>2. CASE j < Len(s)
      <4>1. j \in 1 .. Len(z) /\ z[j] = s[j]
        BY <1>2, <3>2
      <4> HIDE DEF s, z
      <4> QED BY <1>2, <2>2, <4>1 DEF ReadyBelow, RunsBelow
    <3> QED BY <1>2, <3>1, <3>2
  <2>3. RunsBelow(s, c, Len(s) + 1) => \E j \in 1 .. Len(s) : s[j].at = "initialize" /\ s[j].class = c
    BY <1>2 DEF RunsBelow
  <2> QED BY <1>4, <2>1, <2>2, <2>3 DEF ReadyBelow
<1> QED BY <1>1, <1>2, <1>3, <1>4 DEF Follows

\* A frame that runs no method may turn into others of its class
LEMMA BecomeFollows ==
  ASSUME ClassInv, NEW t \in Threads, stack[t] # <<>>, NEW z \in Seq(Frames), stack' = [stack EXCEPT ![t] = z],
         ended' = ended, Top(t).at \notin {"send", "initialize"}, Len(z) >= Len(stack[t]),
         \A i \in 1 .. Len(stack[t]) - 1 : z[i] = stack[t][i], Asks(z[Len(stack[t])], Top(t).class),
         \A i \in Len(stack[t]) .. Len(z) : FrameOk(ended, z, i)
  PROVE  Follows(t, z)
<1> DEFINE s == stack[t]
<1>1. s \in Seq(Frames) /\ StackOk(ended, s)
  BY DEF ClassInv, ClassType
<1>2. Len(s) \in Nat \ {0} /\ Last(s) = s[Len(s)]
  BY <1>1, FrontFacts
<1>z. Len(z) \in Nat
  OBVIOUS
<1>3. StackOk(ended, z)
  BY <1>1, StackBecomes DEF Top
<1>4. ASSUME NEW c \in Classes, ReadyBelow(ended, s, c, Len(s) + 1) PROVE ReadyBelow(ended, z, c, Len(z) + 1)
  <2>1. s[Len(s)].at # "initialize"
    BY <1>2 DEF Top
  <2> QED BY <1>2, <1>z, <1>4, <2>1 DEF ReadyBelow, RunsBelow
<1> QED BY <1>1, <1>3, <1>4 DEF Follows

LEMMA TopFacts ==
  ASSUME ClassInv, NEW t \in Threads, stack[t] # <<>>
  PROVE  /\ stack[t] \in Seq(Frames) /\ Len(stack[t]) \in Nat \ {0} /\ Top(t) = stack[t][Len(stack[t])]
         /\ Top(t) \in Frames /\ Top(t).class \in Classes
         /\ FrameOk(ended, stack[t], Len(stack[t]))
<1>1. stack[t] \in Seq(Frames) /\ StackOk(ended, stack[t])
  BY DEF ClassInv, ClassType
<1>2. Len(stack[t]) \in Nat \ {0} /\ Top(t) = stack[t][Len(stack[t])] /\ Top(t) \in Frames
  BY <1>1, FrontFacts DEF Top
<1>3. Top(t).class \in Classes
  BY <1>2 DEF Frames
<1> QED BY <1>1, <1>2, <1>3 DEF StackOk

LEMMA SendKeeps ==
  ASSUME ClassInv, NEW t \in Threads, NEW c \in Classes, objc_msgSend(t, c)
  PROVE  ClassInv'
<1> DEFINE s == stack[t]  z == s \o <<Frame("send", c, Nil), Frame("enter", c, Nil)>>
<1>1. s \in Seq(Frames) /\ StackOk(ended, s)
  BY DEF ClassInv, ClassType
<1>2. Frame("send", c, Nil) \in Frames /\ Frame("enter", c, Nil) \in Frames
  BY DEF Frame, Frames
<1>3. /\ z \in Seq(Frames) /\ Len(z) = Len(s) + 2 /\ Len(s) \in Nat /\ \A i \in 1 .. Len(s) : z[i] = s[i]
      /\ z[Len(s) + 1] = Frame("send", c, Nil) /\ z[Len(s) + 2] = Frame("enter", c, Nil)
  BY <1>1, <1>2
<1>4. stack' = [stack EXCEPT ![t] = z] /\ UNCHANGED <<is_initialized, initializer_threads, ran, ended>>
  BY DEF objc_msgSend
<1>5. s # <<>> => s[Len(s)].at = "initialize"
  BY TopFacts DEF objc_msgSend, At
<1> HIDE DEF z
<1>6. ASSUME NEW i \in 1 .. Len(z), i >= Len(s) PROVE FrameOk(ended, z, i)
  <2>1. CASE i = Len(s)
    <3>1. FrameOk(ended, s, i) /\ s[i].at = "initialize" /\ z[i] = s[i]
      BY <1>1, <1>3, <1>5, <2>1 DEF StackOk
    <3>2. \A d : ReadyBelow(ended, s, d, i) => ReadyBelow(ended, z, d, i)
      BY <1>3, <2>1 DEF ReadyBelow, RunsBelow
    <3> QED BY <3>1, <3>2 DEF FrameOk, SuperReady
  <2>2. CASE i = Len(s) + 1
    BY <1>3, <2>2 DEF FrameOk, Frame, Asks
  <2>3. CASE i = Len(s) + 2
    BY <1>3, <2>3 DEF FrameOk, Frame
  <2> QED BY <1>3, <1>6, <2>1, <2>2, <2>3
<1>7. StackOk(ended, z)
  <2> HIDE DEF s
  <2>1. ended \subseteq ended /\ Len(s) <= Len(s) /\ Len(s) <= Len(z)
    BY <1>3
  <2> QED BY <1>1, <1>3, <1>6, <2>1, StackKept
<1>8. \A d \in Classes : ReadyBelow(ended, s, d, Len(s) + 1) => ReadyBelow(ended, z, d, Len(z) + 1)
  BY <1>3 DEF ReadyBelow, RunsBelow
<1>9. Follows(t, z)
  BY <1>3, <1>4, <1>7, <1>8 DEF Follows
<1> QED BY <1>4, <1>9, ClassFollows DEF ClassInv, ClassType

LEMMA DispatchKeeps ==
  ASSUME ClassInv, NEW t \in Threads, dispatch(t)
  PROVE  ClassInv'
<1>1. /\ Return(t) /\ stack[t] # <<>> /\ Top(t).at = "send"
      /\ UNCHANGED <<is_initialized, initializer_threads, ran, ended>>
  BY DEF dispatch, At
<1>2. Follows(t, Front(stack[t]))
  BY <1>1, ReturnFollows
<1> QED BY <1>1, <1>2, ClassFollows DEF ClassInv, ClassType

LEMMA EnterClassKeeps ==
  ASSUME ClassInv, NEW t \in Threads, maybe_initialize_class(t)
  PROVE  ClassInv'
<1> DEFINE s == stack[t]  c == Top(t).class  st == is_initialized[c]
           above == IF Super[c] = Nil THEN <<>> ELSE <<Frame("enter", Super[c], Nil)>>
           z == Front(s) \o <<Frame("super", c, st)>> \o above
<1>1. s # <<>> /\ Top(t).at = "enter" /\ UNCHANGED <<is_initialized, initializer_threads, ran, ended>>
  BY DEF maybe_initialize_class, At
<1>2. s \in Seq(Frames) /\ Len(s) \in Nat \ {0} /\ Top(t) = s[Len(s)] /\ c \in Classes
  BY <1>1, TopFacts
<1>3. CASE st = "Initialized" /\ Return(t)
  <2>1. c \in ended
    BY <1>2, <1>3 DEF ClassInv
  <2>2. Follows(t, Front(s))
    BY <1>1, <1>3, <2>1, ReturnFollows DEF ReadyBelow
  <2> QED BY <1>1, <2>2, ClassFollows DEF ClassInv, ClassType
<1>4. CASE stack' = [stack EXCEPT ![t] = z]
  <2>1. Frame("super", c, st) \in Frames
    BY <1>2 DEF Frame, Frames, ClassInv, ClassType
  <2>2. above \in Seq(Frames) /\ (above = <<>> => Super[c] = Nil)
        /\ (above # <<>> => Len(above) = 1 /\ above[1] = Frame("enter", Super[c], Nil))
    <3>1. CASE Super[c] = Nil
      BY <3>1
    <3>2. CASE Super[c] # Nil
      <4>1. Frame("enter", Super[c], Nil) \in Frames
        BY <1>2, <3>2, ObjCThreadsAssumption DEF Frame, Frames
      <4> QED BY <3>2, <4>1
    <3> QED BY <3>1, <3>2
  <2> DEFINE f == Frame("super", c, st)
  <2> HIDE DEF above, f
  <2>5. z = Front(s) \o <<f>> \o above /\ f \in Frames
    BY <2>1 DEF f
  <2> HIDE DEF z
  <2>6. /\ z \in Seq(Frames) /\ Len(z) = Len(s) + Len(above) /\ Len(above) \in Nat
        /\ z[Len(s)] = f /\ \A i \in 1 .. Len(s) - 1 : z[i] = s[i]
        /\ \A j \in 1 .. Len(above) : z[Len(s) + j] = above[j]
    <3>1. s \in Seq(Frames) /\ s # <<>> /\ f \in Frames /\ above \in Seq(Frames)
      BY <1>1, <1>2, <2>2, <2>5
    <3> HIDE DEF s
    <3> PICK s0, f0, a0, z0 : s0 = s /\ f0 = f /\ a0 = above /\ z0 = z
      OBVIOUS
    <3>2. s0 \in Seq(Frames) /\ s0 # <<>> /\ f0 \in Frames /\ a0 \in Seq(Frames) /\ Replaced(z0, s0, f0, a0)
      BY <2>5, <3>1 DEF Replaced
    <3>3. /\ z0 \in Seq(Frames) /\ Len(z0) = Len(s0) + Len(a0) /\ Len(a0) \in Nat
          /\ z0[Len(s0)] = f0 /\ \A i \in 1 .. Len(s0) - 1 : z0[i] = s0[i]
          /\ \A j \in 1 .. Len(a0) : z0[Len(s0) + j] = a0[j]
      BY <3>2, ReplacedFacts
    <3> QED BY <3>3
  <2>7. f.at = "super" /\ f.class = c
    BY DEF f, Frame
  <2>8. ASSUME NEW i \in Len(s) .. Len(z) PROVE FrameOk(ended, z, i)
    <3>1. CASE i = Len(s)
      <4>1. CASE above = <<>>
        BY <1>2, <2>2, <2>6, <2>7, <3>1, <4>1 DEF FrameOk, SuperReady
      <4>2. CASE above # <<>>
        BY <1>2, <2>2, <2>6, <2>7, <3>1, <4>2 DEF FrameOk, Asks, Frame
      <4> QED BY <4>1, <4>2
    <3>2. CASE i # Len(s)
      <4>1. above # <<>> /\ i = Len(s) + 1 /\ i = Len(z)
        <5>1. above = <<>> => Len(above) = 0
          OBVIOUS
        <5>2. Len(s) \in Nat /\ i \in Int /\ i >= Len(s) + 1 /\ i <= Len(z)
          BY <1>2, <2>6, <3>2
        <5>3. Len(above) # 0
          BY <2>6, <5>2
        <5>4. above # <<>> /\ Len(above) = 1
          BY <2>2, <5>1, <5>3
        <5>5. Len(z) = Len(s) + 1
          BY <2>6, <5>4
        <5> QED BY <5>2, <5>4, <5>5
      <4>2. z[i].at = "enter"
        BY <2>2, <2>6, <4>1 DEF Frame
      <4> QED BY <4>1, <4>2 DEF FrameOk
    <3> QED BY <3>1, <3>2
  <2>9. Len(z) >= Len(s) /\ Asks(z[Len(s)], Top(t).class)
    BY <1>2, <2>6, <2>7 DEF Asks
  <2>10. Follows(t, z)
    BY <1>1, <1>4, <2>6, <2>8, <2>9, BecomeFollows
  <2> QED BY <1>1, <2>10, ClassFollows DEF ClassInv, ClassType
<1> QED BY <1>3, <1>4 DEF maybe_initialize_class

\* A look at a class turns into waiting, or waiting into waking up and back
LEMMA StackSleeps ==
  ASSUME NEW s \in Seq(Frames), s # <<>>, NEW e, StackOk(e, s), Last(s).at \notin {"send", "initialize"},
         NEW g \in Frames, g.at \in {"waiting", "woken"}, g.class = Last(s).class
  PROVE  /\ Append(Front(s), g) \in Seq(Frames) /\ StackOk(e, Append(Front(s), g))
         /\ \A c : ReadyBelow(e, s, c, Len(s) + 1) =>
              ReadyBelow(e, Append(Front(s), g), c, Len(Append(Front(s), g)) + 1)
<1> DEFINE z == Append(Front(s), g)
<1>1. /\ Front(s) \in Seq(Frames) /\ Len(Front(s)) = Len(s) - 1 /\ Len(s) \in Nat \ {0}
      /\ \A i \in 1 .. Len(s) - 1 : Front(s)[i] = s[i]
      /\ Last(s) = s[Len(s)]
  BY FrontFacts
<1>2. /\ z \in Seq(Frames) /\ Len(z) = Len(Front(s)) + 1 /\ z[Len(Front(s)) + 1] = g
      /\ \A i \in 1 .. Len(Front(s)) : z[i] = Front(s)[i]
  BY <1>1, AppendProperties
<1> HIDE DEF z
<1>3. Len(z) = Len(s) /\ z[Len(s)] = g /\ \A i \in 1 .. Len(s) - 1 : z[i] = s[i]
  BY <1>1, <1>2
<1>4. \A i \in Len(s) .. Len(z) : FrameOk(e, z, i)
  BY <1>1, <1>3 DEF FrameOk
<1>5. Last(s).at # "send" /\ Len(z) >= Len(s) /\ Asks(z[Len(s)], Last(s).class)
  BY <1>1, <1>3 DEF Asks
<1>6. StackOk(e, z)
  BY <1>2, <1>3, <1>4, <1>5, StackBecomes
<1>7. ASSUME NEW c, ReadyBelow(e, s, c, Len(s) + 1) PROVE ReadyBelow(e, z, c, Len(z) + 1)
  BY <1>1, <1>3, <1>7 DEF ReadyBelow, RunsBelow
<1> QED BY <1>2, <1>6, <1>7 DEF z

LEMMA SleepFollows ==
  ASSUME ClassInv, NEW t \in Threads, stack[t] # <<>>, Top(t).at \notin {"send", "initialize"},
         NEW g \in Frames, g.at \in {"waiting", "woken"}, g.class = Top(t).class,
         Become(t, g), ended' = ended
  PROVE  Follows(t, Append(Front(stack[t]), g))
<1>1. stack[t] \in Seq(Frames) /\ StackOk(ended, stack[t]) /\ Last(stack[t]) = Top(t)
  BY DEF ClassInv, ClassType, Top
<1>2. /\ Append(Front(stack[t]), g) \in Seq(Frames) /\ StackOk(ended, Append(Front(stack[t]), g))
      /\ \A c : ReadyBelow(ended, stack[t], c, Len(stack[t]) + 1) =>
           ReadyBelow(ended, Append(Front(stack[t]), g), c, Len(Append(Front(stack[t]), g)) + 1)
  BY <1>1, StackSleeps
<1> QED BY <1>2 DEF Follows, Become

LEMMA ClassSame ==
  ASSUME ClassInv, UNCHANGED <<is_initialized, initializer_threads, stack, ran, ended>>
  PROVE  ClassInv'
BY DEF ClassInv, ClassType

LEMMA WaitKeeps ==
  ASSUME ClassInv, NEW t \in Threads, wait_for_initializer(t)
  PROVE  ClassInv'
<1> DEFINE c == Top(t).class  e == initializer_threads[c]
           g == Frame(IF is_initialized[c] = "Initialized" THEN "woken" ELSE "waiting", c, e.cond)
<1>1. stack[t] # <<>> /\ Top(t).at = "super"
  BY DEF wait_for_initializer, At
<1>2. stack[t] \in Seq(Frames) /\ Len(stack[t]) \in Nat \ {0} /\ Top(t) = stack[t][Len(stack[t])] /\ c \in Classes
  BY <1>1, TopFacts
<1>3. /\ initializer_threads' = [initializer_threads EXCEPT ![c].waiters = @ + 1]
      /\ UNCHANGED <<is_initialized, ran, ended>>
      /\ IF e.tid = t THEN Return(t) ELSE Become(t, g)
  BY DEF wait_for_initializer
<1>4. /\ initializer_threads' \in [Classes -> [tid : Threads \cup {Nil}, waiters : Int, cond : Nat]]
      /\ \A d \in Classes : initializer_threads'[d].tid = initializer_threads[d].tid
  <2> DEFINE y == [e EXCEPT !.waiters = e.waiters + 1]
  <2>1. e \in [tid : Threads \cup {Nil}, waiters : Int, cond : Nat]
    BY <1>2 DEF ClassInv, ClassType
  <2>2. y \in [tid : Threads \cup {Nil}, waiters : Int, cond : Nat] /\ y.tid = e.tid
    BY <2>1
  <2>3. initializer_threads' = [initializer_threads EXCEPT ![c] = y]
    BY <1>3
  <2> HIDE DEF y
  <2> QED BY <1>2, <2>2, <2>3 DEF ClassInv, ClassType
<1>5. ASSUME NEW z, Follows(t, z) PROVE ClassInv'
  BY <1>3, <1>4, <1>5, ClassFollows DEF ClassInv, ClassType
<1>6. CASE e.tid = t
  <2>1. ReadyBelow(ended, stack[t], c, Len(stack[t]) + 1)
    BY <1>2, <1>6 DEF ClassInv
  <2>2. ReadyBelow(ended, stack[t], c, Len(stack[t]))
    BY <1>1, <1>2, <2>1 DEF ReadyBelow, RunsBelow
  <2>3. Follows(t, Front(stack[t]))
    BY <1>1, <1>3, <1>6, <2>2, ReturnFollows
  <2> QED BY <1>5, <2>3
<1>7. CASE e.tid # t
  <2>1. g \in Frames /\ g.at \in {"waiting", "woken"} /\ g.class = Top(t).class
    BY <1>2 DEF Frame, Frames, ClassInv, ClassType
  <2> HIDE DEF g
  <2>2. PICK h : h = g
    OBVIOUS
  <2>3. Become(t, h) /\ h \in Frames /\ h.at \in {"waiting", "woken"} /\ h.class = Top(t).class
    BY <1>3, <1>7, <2>1, <2>2
  <2>4. Follows(t, Append(Front(stack[t]), h))
    BY <1>1, <1>3, <2>3, SleepFollows
  <2> QED BY <1>5, <2>4
<1> QED BY <1>6, <1>7

LEMMA WakeKeeps ==
  ASSUME ClassInv, NEW t \in Threads, wake_waiter(t)
  PROVE  ClassInv'
<1> DEFINE c == Top(t).class  n == Top(t).status
<1>1. stack[t] # <<>> /\ Top(t).at = "woken"
  BY DEF wake_waiter, At
<1>2. /\ Top(t) = stack[t][Len(stack[t])] /\ c \in Classes /\ Top(t) \in Frames
  BY <1>1, TopFacts
<1>4. CASE Become(t, Frame("waiting", c, n)) /\ UNCHANGED <<is_initialized, initializer_threads, ran, ended>>
  <2>1. PICK g : g = Frame("waiting", c, n)
    OBVIOUS
  <2>2. Become(t, g) /\ g \in Frames /\ g.at \in {"waiting", "woken"} /\ g.class = Top(t).class
    BY <1>2, <1>4, <2>1 DEF Frame, Frames
  <2>3. Follows(t, Append(Front(stack[t]), g))
    BY <1>1, <1>4, <2>2, SleepFollows
  <2> QED BY <1>4, <2>3, ClassFollows DEF ClassInv, ClassType
<1>5. CASE /\ is_initialized[c] = "Initialized" /\ Return(t) /\ UNCHANGED <<is_initialized, ran, ended>>
           /\ initializer_threads' =
                [initializer_threads EXCEPT ![c] = IF initializer_threads[c].waiters = 1 THEN NoEntry
                                                   ELSE [initializer_threads[c] EXCEPT
                                                           !.waiters = initializer_threads[c].waiters - 1]]
  <2>1. Follows(t, Front(stack[t]))
    BY <1>1, <1>2, <1>5, ReturnFollows DEF ReadyBelow, ClassInv
  <2> DEFINE x == initializer_threads[c]  y == IF x.waiters = 1 THEN NoEntry ELSE [x EXCEPT !.waiters = x.waiters - 1]
  <2>x. x \in [tid : Threads \cup {Nil}, waiters : Int, cond : Nat]
    BY <1>2 DEF ClassInv, ClassType
  <2>2. /\ y \in [tid : Threads \cup {Nil}, waiters : Int, cond : Nat] /\ y.tid \in {x.tid, Nil}
    <3> HIDE DEF x
    <3> QED BY <2>x DEF NoEntry
  <2>3. initializer_threads' = [initializer_threads EXCEPT ![c] = y]
    BY <1>5
  <2> HIDE DEF y
  <2>4. /\ initializer_threads' \in [Classes -> [tid : Threads \cup {Nil}, waiters : Int, cond : Nat]]
        /\ \A d \in Classes, u \in Threads : initializer_threads'[d].tid = u => initializer_threads[d].tid = u
    BY <1>2, <2>2, <2>3, ObjCThreadsAssumption DEF ClassInv, ClassType
  <2>5. UNCHANGED <<is_initialized, ran, ended>>
    BY <1>5
  <2>6. ASSUME NEW z, Follows(t, z) PROVE ClassInv'
    <3>1. /\ is_initialized' \in [Classes -> {"NotInitialized", "Initializing", "Initialized"}]
          /\ ran' \in [Classes -> Nat] /\ \A d \in Classes : is_initialized'[d] = "Initialized" => d \in ended'
      BY <2>5 DEF ClassInv, ClassType
    <3> QED BY <2>4, <2>6, <3>1, ClassFollows
  <2> QED BY <2>1, <2>6
<1> QED BY <1>4, <1>5 DEF wake_waiter

LEMMA BeginKeeps ==
  ASSUME ClassInv, NEW t \in Threads, begin_initialize(t)
  PROVE  ClassInv'
<1> DEFINE s == stack[t]  c == Top(t).class  n == ran[c] + 1
           f == Frame("initialize", c, n)  a == <<Frame("enter", c, Nil)>>  z == Front(s) \o <<f>> \o a
<1>1. s # <<>> /\ Top(t).at = "super"
  BY DEF begin_initialize, At
<1>2. /\ s \in Seq(Frames) /\ Len(s) \in Nat \ {0} /\ Top(t) = s[Len(s)] /\ c \in Classes
      /\ FrameOk(ended, s, Len(s))
  BY <1>1, TopFacts
<1>3. /\ initializer_threads' = [initializer_threads EXCEPT ![c] = [tid |-> t, waiters |-> 0, cond |-> n]]
      /\ is_initialized' = [is_initialized EXCEPT ![c] = "Initializing"]
      /\ ran' = [ran EXCEPT ![c] = n] /\ ended' = ended
      /\ stack' = [stack EXCEPT ![t] = Front(s) \o <<f, Frame("enter", c, Nil)>>]
  BY DEF begin_initialize
<1>4. n \in Nat
  BY <1>2 DEF ClassInv, ClassType
<1>5. f \in Frames /\ a \in Seq(Frames) /\ f.at = "initialize" /\ f.class = c /\ a[1].at = "enter" /\ Len(a) = 1
  <2>1. Frame("enter", c, Nil) \in Frames /\ f \in Frames
    BY <1>2, <1>4 DEF Frame, Frames
  <2>2. Frame("enter", c, Nil).at = "enter" /\ f.at = "initialize" /\ f.class = c
    BY DEF Frame
  <2> QED BY <2>1, <2>2
<1>6. stack' = [stack EXCEPT ![t] = z]
  <2> DEFINE p == Front(s)  g == Frame("enter", c, Nil)
  <2>1. p \in Seq(Frames)
    BY <1>1, <1>2, FrontFacts
  <2> HIDE DEF p, f, g
  <2>2. p \o <<f, g>> = p \o <<f>> \o <<g>>
    BY <2>1
  <2> QED BY <1>3, <2>2 DEF p, g
<1> HIDE DEF a, f, n
<1>7. PICK f0, a0, z0 : f0 = f /\ a0 = a /\ z0 = z
  OBVIOUS
<1>8. /\ z0 \in Seq(Frames) /\ Len(z0) = Len(s) + 1 /\ z0[Len(s)] = f0 /\ z0[Len(s) + 1] = a0[1]
      /\ \A i \in 1 .. Len(s) - 1 : z0[i] = s[i]
  <2>1. PICK s0, f1, a1, z1 : s0 = s /\ f1 = f0 /\ a1 = a0 /\ z1 = z0
    OBVIOUS
  <2>2. s0 \in Seq(Frames) /\ s0 # <<>> /\ f1 \in Frames /\ a1 \in Seq(Frames)
    BY <1>1, <1>2, <1>5, <1>7, <2>1
  <2>3. Replaced(z1, s0, f1, a1)
    BY <1>7, <2>1 DEF Replaced
  <2> HIDE DEF s, z
  <2>4. /\ z1 \in Seq(Frames) /\ Len(z1) = Len(s0) + Len(a1) /\ Len(a1) \in Nat
        /\ z1[Len(s0)] = f1 /\ \A i \in 1 .. Len(s0) - 1 : z1[i] = s0[i]
        /\ \A j \in 1 .. Len(a1) : z1[Len(s0) + j] = a1[j]
    BY <2>2, <2>3, ReplacedFacts
  <2>5. Len(a1) = 1
    BY <1>5, <1>7, <2>1
  <2> QED BY <2>1, <2>4, <2>5
<1>9. f0.at = "initialize" /\ f0.class = c /\ a0[1].at = "enter"
  BY <1>5, <1>7
<1>10. ASSUME NEW i \in Len(s) .. Len(z0) PROVE FrameOk(ended, z0, i)
  <2>1. CASE i = Len(s)
    <3>1. SuperReady(ended, s, i)
      BY <1>1, <1>2, <2>1 DEF FrameOk
    <3>2. \A d : ReadyBelow(ended, s, d, i) => ReadyBelow(ended, z0, d, i)
      BY <1>2, <1>8, <2>1 DEF ReadyBelow, RunsBelow
    <3>3. z0[i].at = "initialize" /\ z0[i].class = s[i].class
      BY <1>2, <1>8, <1>9, <2>1
    <3> QED BY <3>1, <3>2, <3>3 DEF FrameOk, SuperReady
  <2>2. CASE i # Len(s)
    <3>1. i = Len(s) + 1 /\ i = Len(z0)
      BY <1>2, <1>8, <2>2
    <3> QED BY <1>8, <1>9, <3>1 DEF FrameOk
  <2> QED BY <2>1, <2>2
<1>11. Follows(t, z0)
  <2>1. Len(z0) >= Len(s) /\ Asks(z0[Len(s)], Top(t).class) /\ Top(t).at \notin {"send", "initialize"}
    BY <1>1, <1>2, <1>8, <1>9 DEF Asks
  <2>2. stack' = [stack EXCEPT ![t] = z0] /\ ended' = ended
    BY <1>3, <1>6, <1>7
  <2> HIDE DEF z
  <2> QED BY <1>1, <1>8, <1>10, <2>1, <2>2, BecomeFollows
<1>12. ReadyBelow(ended', z0, c, Len(z0) + 1)
  BY <1>2, <1>8, <1>9 DEF ReadyBelow, RunsBelow
<1>13. /\ is_initialized' \in [Classes -> {"NotInitialized", "Initializing", "Initialized"}]
       /\ ran' \in [Classes -> Nat] /\ \A d \in Classes : is_initialized'[d] = "Initialized" => d \in ended'
  BY <1>2, <1>3, <1>4 DEF ClassInv, ClassType
<1>14. /\ initializer_threads' \in [Classes -> [tid : Threads \cup {Nil}, waiters : Int, cond : Nat]]
       /\ \A d \in Classes, u \in Threads :
            initializer_threads'[d].tid = u =>
              initializer_threads[d].tid = u \/ (u = t /\ ReadyBelow(ended', z0, d, Len(z0) + 1))
  <2> DEFINE y == [tid |-> t, waiters |-> 0, cond |-> n]
  <2>1. y \in [tid : Threads \cup {Nil}, waiters : Int, cond : Nat] /\ y.tid = t
    BY <1>4
  <2>2. initializer_threads' = [initializer_threads EXCEPT ![c] = y]
    BY <1>3
  <2> HIDE DEF y
  <2>3. initializer_threads \in [Classes -> [tid : Threads \cup {Nil}, waiters : Int, cond : Nat]]
    BY DEF ClassInv, ClassType
  <2> QED BY <1>2, <1>12, <2>1, <2>2, <2>3
<1> HIDE DEF z
<1> QED BY <1>11, <1>13, <1>14, ClassFollows

LEMMA EndKeeps ==
  ASSUME ClassInv, NEW t \in Threads, end_initialize(t)
  PROVE  ClassInv'
<1> DEFINE c == Top(t).class  n == Top(t).status  e == initializer_threads[c]
<1>1. stack[t] # <<>> /\ Top(t).at = "initialize"
  BY DEF end_initialize, At
<1>2. /\ stack[t] \in Seq(Frames) /\ Len(stack[t]) \in Nat \ {0} /\ Top(t) = stack[t][Len(stack[t])]
      /\ c \in Classes /\ Top(t) \in Frames
  BY <1>1, TopFacts
<1>3. /\ is_initialized' = [is_initialized EXCEPT ![c] = "Initialized"] /\ ended' = ended \cup {c}
      /\ ran' = ran
      /\ IF e.waiters = 0
         THEN initializer_threads' = [initializer_threads EXCEPT ![c] = NoEntry] /\ Return(t)
         ELSE /\ stack' = [u \in Threads |-> IF u = t THEN Front(stack[t]) ELSE Awaken(stack[u], c, n)]
              /\ initializer_threads' = initializer_threads
  BY DEF end_initialize
<1>4. /\ is_initialized' \in [Classes -> {"NotInitialized", "Initializing", "Initialized"}]
      /\ ran' \in [Classes -> Nat] /\ \A d \in Classes : is_initialized'[d] = "Initialized" => d \in ended'
  BY <1>2, <1>3 DEF ClassInv, ClassType
<1>5. /\ initializer_threads' \in [Classes -> [tid : Threads \cup {Nil}, waiters : Int, cond : Nat]]
      /\ \A d \in Classes, u \in Threads : initializer_threads'[d].tid = u => initializer_threads[d].tid = u
  <2>1. initializer_threads \in [Classes -> [tid : Threads \cup {Nil}, waiters : Int, cond : Nat]]
    BY DEF ClassInv, ClassType
  <2>2. NoEntry \in [tid : Threads \cup {Nil}, waiters : Int, cond : Nat] /\ NoEntry.tid = Nil
    BY DEF NoEntry
  <2> QED BY <1>2, <1>3, <2>1, <2>2, ObjCThreadsAssumption
<1>6. /\ ended \subseteq ended' /\ c \in ended'
      /\ Top(t).at = "send" \/ ReadyBelow(ended', stack[t], Top(t).class, Len(stack[t]))
  BY <1>3 DEF ReadyBelow
<1>7. CASE Return(t)
  <2>1. Follows(t, Front(stack[t]))
    BY <1>1, <1>6, <1>7, ReturnFollows
  <2> QED BY <1>4, <1>5, <2>1, ClassFollows
<1>8. CASE stack' = [u \in Threads |-> IF u = t THEN Front(stack[t]) ELSE Awaken(stack[u], c, n)]
  <2>1. ASSUME NEW u \in Threads
        PROVE  /\ stack'[u] \in Seq(Frames) /\ StackOk(ended', stack'[u])
               /\ \A d \in Classes : ReadyBelow(ended, stack[u], d, Len(stack[u]) + 1) =>
                                       ReadyBelow(ended', stack'[u], d, Len(stack'[u]) + 1)
    <3> DEFINE s == stack[u]
    <3>1. s \in Seq(Frames) /\ StackOk(ended, s) /\ StackOk(ended', s)
      BY <1>6, StackGrows DEF ClassInv, ClassType
    <3>2. CASE u = t
      <4>1. PICK z0 : z0 = [stack EXCEPT ![t] = Front(stack[t])]
        OBVIOUS
      <4>2. stack'[u] = Front(s)
        BY <1>8, <3>2
      <4>3. Front(s) \in Seq(Frames) /\ Len(Front(s)) = Len(s) - 1 /\ \A i \in 1 .. Len(s) - 1 : Front(s)[i] = s[i]
        BY <1>1, <3>1, <3>2, FrontFacts
      <4>4. StackOk(ended', Front(s))
        BY <1>1, <1>2, <1>6, <3>1, <3>2, StackReturns DEF Top
      <4>5. ASSUME NEW d \in Classes, ReadyBelow(ended, s, d, Len(s) + 1)
            PROVE  ReadyBelow(ended', Front(s), d, Len(Front(s)) + 1)
        <5>1. CASE d = c
          BY <1>6, <5>1 DEF ReadyBelow
        <5>2. CASE d # c
          <6>1. s[Len(s)].class # d
            BY <1>2, <3>2, <5>2
          <6> HIDE DEF s
          <6> QED BY <1>2, <1>6, <3>1, <3>2, <4>3, <4>5, <6>1 DEF ReadyBelow, RunsBelow, s
        <5> QED BY <5>1, <5>2
      <4> QED BY <4>2, <4>3, <4>4, <4>5
    <3>3. CASE u # t /\ stack'[u] = s
      BY <1>6, <3>1, <3>3 DEF ReadyBelow
    <3>4. CASE u # t /\ stack'[u] # s
      <4>1. PICK g : g = Frame("woken", c, n)
        OBVIOUS
      <4>2. s # <<>> /\ Last(s) = Frame("waiting", c, n) /\ stack'[u] = Append(Front(s), g)
        BY <1>8, <3>4, <4>1 DEF Awaken
      <4>3. g \in Frames /\ g.at \in {"waiting", "woken"} /\ g.class = Last(s).class /\ Last(s).at = "waiting"
        BY <1>2, <4>1, <4>2 DEF Frame, Frames
      <4>4. /\ Append(Front(s), g) \in Seq(Frames) /\ StackOk(ended, Append(Front(s), g))
            /\ \A d : ReadyBelow(ended, s, d, Len(s) + 1) =>
                 ReadyBelow(ended, Append(Front(s), g), d, Len(Append(Front(s), g)) + 1)
        BY <3>1, <4>2, <4>3, StackSleeps
      <4>5. StackOk(ended', Append(Front(s), g))
        BY <1>6, <4>4, StackGrows
      <4> QED BY <1>6, <4>2, <4>4, <4>5 DEF ReadyBelow
    <3> QED BY <3>2, <3>3, <3>4
  <2>2. stack' \in [Threads -> Seq(Frames)]
    BY <1>8, <2>1
  <2>3. ClassType'
    BY <1>4, <1>5, <2>2 DEF ClassType
  <2>4. ASSUME NEW d \in Classes, NEW u \in Threads, initializer_threads'[d].tid = u
        PROVE  ReadyBelow(ended', stack'[u], d, Len(stack'[u]) + 1)
    <3>1. ReadyBelow(ended, stack[u], d, Len(stack[u]) + 1)
      BY <1>5, <2>4 DEF ClassInv
    <3> QED BY <2>1, <3>1
  <2> QED BY <1>4, <2>1, <2>3, <2>4 DEF ClassInv
<1> QED BY <1>3, <1>7, <1>8

LEMMA PanicKeeps ==
  ASSUME ClassInv, NEW t \in Threads, panics(t)
  PROVE  ClassInv'
BY ClassSame DEF panics

LEMMA ClassesInit == Init => ClassInv
<1> SUFFICES ASSUME Init PROVE ClassInv
  OBVIOUS
<1>1. ClassType
  BY DEF Init, ClassType, NoEntry
<1>2. \A c \in Classes : is_initialized[c] # "Initialized" /\ initializer_threads[c].tid = Nil
  BY DEF Init, NoEntry
<1>3. ASSUME NEW t \in Threads PROVE StackOk(ended, stack[t])
  BY DEF Init, StackOk
<1> QED BY <1>1, <1>2, <1>3, ObjCThreadsAssumption DEF ClassInv

LEMMA ClassKeeps == ClassInv /\ (ClassNext \/ UNCHANGED class_vars) => ClassInv'
<1>1. ASSUME ClassInv, UNCHANGED class_vars PROVE ClassInv'
  BY <1>1, ClassSame DEF class_vars
<1>2. ASSUME ClassInv, ClassNext PROVE ClassInv'
  BY <1>2, SendKeeps, DispatchKeeps, EnterClassKeeps, WaitKeeps, WakeKeeps, BeginKeeps, EndKeeps, PanicKeeps
     DEF ClassNext, class_step
<1> QED BY <1>1, <1>2

LEMMA ClassImplies == ClassInv => InitializedFirst
<1> SUFFICES ASSUME ClassInv, NEW t \in Threads
             PROVE  /\ At(t, "send") => Ready(t, Top(t).class)
                    /\ At(t, "initialize") /\ Super[Top(t).class] # Nil => Ready(t, Super[Top(t).class])
  BY DEF InitializedFirst
<1>1. ASSUME NEW c, stack[t] # <<>>, ReadyBelow(ended, stack[t], c, Len(stack[t])) PROVE Ready(t, c)
  <2>1. stack[t] \in Seq(Frames) /\ Len(stack[t]) \in Nat \ {0}
    BY <1>1, TopFacts
  <2>2. DOMAIN stack[t] = 1 .. Len(stack[t])
    BY <2>1, LenProperties
  <2> QED BY <1>1, <2>1, <2>2 DEF ReadyBelow, RunsBelow, Ready, Runs
<1>2. stack[t] # <<>> => FrameOk(ended, stack[t], Len(stack[t])) /\ Top(t) = stack[t][Len(stack[t])]
  BY TopFacts
<1> QED BY <1>1, <1>2 DEF FrameOk, SuperReady, At

LEMMA LocksInit == LockInit => LockInv
BY ObjCThreadsAssumption DEF LockInit, LockInv, LockClasses

LEMMA LockKeeps == LockInv /\ (LockNext \/ UNCHANGED lock_vars) => LockInv'
<1> SUFFICES ASSUME LockInv PROVE LockNext \/ UNCHANGED lock_vars => LockInv'
  OBVIOUS
<1> USE ObjCThreadsAssumption DEF LockInv
<1>1. ASSUME UNCHANGED lock_vars PROVE LockInv'
  BY <1>1 DEF lock_vars
<1>2. ASSUME broadcast PROVE LockInv'
  BY <1>2 DEF broadcast, Broadcast
<1>3. ASSUME NEW t \in Lockers, lock(t) PROVE LockInv'
  BY <1>3 DEF lock, Take, LockClasses
<1>4. ASSUME NEW t \in Lockers, tryLock(t) PROVE LockInv'
  BY <1>4 DEF tryLock, Take
<1>5. ASSUME NEW t \in Lockers, unlock(t) PROVE LockInv'
  BY <1>5 DEF unlock, Leave
<1>6. ASSUME NEW t \in Lockers, relocked(t) PROVE LockInv'
  BY <1>6 DEF relocked, Loop
<1>7. ASSUME NEW t \in Lockers, wait(t) PROVE LockInv'
  BY <1>7 DEF wait
<1>8. ASSUME NEW t \in Lockers, signal(t) PROVE LockInv'
  BY <1>8 DEF signal
<1>9. ASSUME NEW t \in Lockers, NEW c \in Conditions, lockWhenCondition(t, c) PROVE LockInv'
  BY <1>9 DEF lockWhenCondition, Loop
<1>10. ASSUME NEW t \in Lockers, NEW c \in Conditions, tryLockWhenCondition(t, c) PROVE LockInv'
  BY <1>10 DEF tryLockWhenCondition
<1>11. ASSUME NEW t \in Lockers, NEW c \in Conditions, unlockWithCondition(t, c) PROVE LockInv'
  BY <1>11 DEF unlockWithCondition, Leave, Broadcast
<1> QED BY <1>1, <1>2, <1>3, <1>4, <1>5, <1>6, <1>7, <1>8, <1>9, <1>10, <1>11 DEF LockNext

LEMMA LockImplies == LockInv => ConditionLockTrue
<1> SUFFICES ASSUME LockInv PROVE ConditionLockTrue
  OBVIOUS
<1>1. Cardinality({t \in Lockers : at[t] = "in"}) <= 1
  BY AtMostOne DEF LockInv
<1> QED BY <1>1 DEF LockInv, ConditionLockTrue

LEMMA HoldersFinite == \A o : IsFiniteSet(Holders(o)) /\ Cardinality(Holders(o)) \in Nat
<1> SUFFICES ASSUME NEW o PROVE IsFiniteSet(Holders(o)) /\ Cardinality(Holders(o)) \in Nat
  OBVIOUS
<1>1. Holders(o) \subseteq NSThreads
  BY DEF Holders
<1> QED BY <1>1, ObjCThreadsAssumption, FS_Subset, FS_CardinalityType

LEMMA ThreadsInit == LockInit => NSThreadInv
<1> SUFFICES ASSUME LockInit PROVE NSThreadInv
  OBVIOUS
<1>1. ASSUME NEW o \in Targets PROVE refs[o] = Cardinality(Holders(o))
  <2>1. Holders(o) = {}
    BY DEF LockInit, Holders
  <2> QED BY <2>1, FS_EmptySet DEF LockInit
<1> QED BY <1>1 DEF LockInit, NSThreadInv

\* A thread object is made for a target
LEMMA MadeKeeps ==
  ASSUME NSThreadInv, NEW n \in NSThreads, NEW o \in Targets, NEW x \in NSThreadObject,
         thread[n] = Nil, thread' = [thread EXCEPT ![n] = x], refs' = [refs EXCEPT ![o] = @ + 1],
         x.target = o, ~x.finished, x.state \in {"new", "started"},
         ns_threads' = IF x.state = "started" THEN ns_threads \cup {n} ELSE ns_threads
  PROVE  NSThreadInv'
<1>1. \A q \in NSThreads : thread'[q] = IF q = n THEN x ELSE thread[q]
  BY DEF NSThreadInv
<1>2. ASSUME NEW p \in Targets PROVE refs'[p] = Cardinality(Holders(p)')
  <2>1. CASE p = o
    <3>1. Holders(o)' = Holders(o) \cup {n} /\ n \notin Holders(o)
      BY <1>1, ObjCThreadsAssumption DEF Holders
    <3>2. Cardinality(Holders(o)') = Cardinality(Holders(o)) + 1
      BY <3>1, HoldersFinite, FS_AddElement
    <3> QED BY <2>1, <3>2 DEF NSThreadInv
  <2>2. CASE p # o
    <3>1. Holders(p)' = Holders(p)
      BY <1>1, <2>2 DEF Holders
    <3> QED BY <2>2, <3>1 DEF NSThreadInv
  <2> QED BY <2>1, <2>2
<1>3. ns_threads' = {q \in NSThreads : thread'[q] # Nil /\ thread'[q].state \in {"started", "main"}}
  BY <1>1, ObjCThreadsAssumption DEF NSThreadInv
<1>4. /\ thread' \in [NSThreads -> NSThreadObject \cup {Nil}] /\ refs' \in [Targets -> Nat]
      /\ \A q \in NSThreads : thread'[q] # Nil => (thread'[q].finished <=> thread'[q].state = "done")
  BY <1>1 DEF NSThreadInv
<1> QED BY <1>2, <1>3, <1>4 DEF NSThreadInv

LEMMA ThreadKeeps == NSThreadInv /\ (ThreadNext \/ UNCHANGED thread_vars) => NSThreadInv'
<1> SUFFICES ASSUME NSThreadInv PROVE ThreadNext \/ UNCHANGED thread_vars => NSThreadInv'
  OBVIOUS
<1>1. ASSUME UNCHANGED thread_vars PROVE NSThreadInv'
  BY <1>1 DEF thread_vars, NSThreadInv, Holders
<1>2. ASSUME NEW n \in NSThreads, NEW o \in Targets, initWithTarget(n, o, FALSE) PROVE NSThreadInv'
  <2> DEFINE x == [target |-> o, owned |-> FALSE, finished |-> FALSE, state |-> "new"]
  <2>1. x \in NSThreadObject /\ x.target = o /\ ~x.finished /\ x.state = "new"
    BY DEF NSThreadObject
  <2>2. /\ thread[n] = Nil /\ thread' = [thread EXCEPT ![n] = x]
        /\ refs' = [refs EXCEPT ![o] = @ + 1] /\ ns_threads' = ns_threads
    BY <1>2 DEF initWithTarget
  <2> HIDE DEF x
  <2> QED BY <2>1, <2>2, MadeKeeps
<1>3. ASSUME NEW n \in NSThreads, NEW o \in Targets, detach_new_thread_inner(n, o) PROVE NSThreadInv'
  <2> DEFINE x == [target |-> o, owned |-> TRUE, finished |-> FALSE, state |-> "started"]
  <2>1. x \in NSThreadObject /\ x.target = o /\ ~x.finished /\ x.state = "started"
    BY DEF NSThreadObject
  <2>2. /\ thread[n] = Nil /\ thread' = [thread EXCEPT ![n] = x]
        /\ refs' = [refs EXCEPT ![o] = @ + 1] /\ ns_threads' = ns_threads \cup {n}
    BY <1>3 DEF detach_new_thread_inner
  <2> HIDE DEF x
  <2> QED BY <2>1, <2>2, MadeKeeps
<1>4. ASSUME NEW n \in NSThreads, thread[n] # Nil, thread[n].state = "new" \/ thread[n].state = "started",
             NEW s \in {"started", "main"}, thread' = [thread EXCEPT ![n].state = s],
             refs' = refs, ns_threads' = ns_threads \cup {n}
      PROVE  NSThreadInv'
  <2>0. thread[n] \in NSThreadObject /\ ~thread[n].finished
    BY <1>4 DEF NSThreadInv
  <2> DEFINE x == [thread[n] EXCEPT !.state = s]
  <2>1. /\ x \in NSThreadObject /\ x.target = thread[n].target /\ x.state = s
        /\ x.finished = thread[n].finished
    BY <1>4, <2>0 DEF NSThreadObject
  <2>2. \A q \in NSThreads : thread'[q] = IF q = n THEN x ELSE thread[q]
    BY <1>4 DEF NSThreadInv
  <2>3. thread' \in [NSThreads -> NSThreadObject \cup {Nil}]
    BY <1>4, <2>1 DEF NSThreadInv
  <2> HIDE DEF x
  <2>4. \A o \in Targets : Holders(o)' = Holders(o)
    BY <1>4, <2>0, <2>1, <2>2, ObjCThreadsAssumption DEF Holders
  <2>5. ns_threads' = {q \in NSThreads : thread'[q] # Nil /\ thread'[q].state \in {"started", "main"}}
    BY <1>4, <2>1, <2>2, ObjCThreadsAssumption DEF NSThreadInv
  <2>6. \A q \in NSThreads : thread'[q] # Nil => (thread'[q].finished <=> thread'[q].state = "done")
    BY <1>4, <2>0, <2>1, <2>2 DEF NSThreadInv
  <2> QED BY <1>4, <2>3, <2>4, <2>5, <2>6 DEF NSThreadInv
<1>5. ASSUME NEW n \in NSThreads, start(n) PROVE NSThreadInv'
  BY <1>4, <1>5 DEF start
<1>6. ASSUME NEW n \in NSThreads, main(n) PROVE NSThreadInv'
  <2>1. n \in ns_threads
    BY <1>6 DEF main, NSThreadInv
  <2> QED BY <1>4, <1>6, <2>1 DEF main
<1>7. ASSUME NEW n \in NSThreads, NSThreadInvocationHelper(n) PROVE NSThreadInv'
  <2> DEFINE x == IF thread[n].owned THEN Nil ELSE [thread[n] EXCEPT !.finished = TRUE, !.state = "done"]
  <2>0. thread[n] \in NSThreadObject /\ ~thread[n].finished /\ thread[n] # Nil
    BY <1>7 DEF NSThreadInv, NSThreadInvocationHelper
  <2> PICK o \in Targets : o = thread[n].target
    BY <2>0 DEF NSThreadObject
  <2>1. /\ x \in NSThreadObject \cup {Nil}
        /\ x # Nil => x.finished /\ x.state = "done"
    BY <2>0 DEF NSThreadObject
  <2>2. /\ thread' = [thread EXCEPT ![n] = x] /\ refs' = [refs EXCEPT ![o] = @ - 1]
        /\ ns_threads' = ns_threads \ {n}
    BY <1>7 DEF NSThreadInvocationHelper
  <2> HIDE DEF x
  <2>3. \A q \in NSThreads : thread'[q] = IF q = n THEN x ELSE thread[q]
    BY <2>2 DEF NSThreadInv
  <2>4. Holders(o)' = Holders(o) \ {n} /\ n \in Holders(o)
    BY <2>0, <2>1, <2>3 DEF Holders
  <2>5. Cardinality(Holders(o)') = Cardinality(Holders(o)) - 1 /\ Cardinality(Holders(o)') \in Nat
    BY <2>4, HoldersFinite, FS_RemoveElement, FS_CardinalityType
  <2>6. ASSUME NEW p \in Targets PROVE refs'[p] = Cardinality(Holders(p)') /\ refs'[p] \in Nat
    <3>1. CASE p = o
      BY <2>2, <2>5, <3>1 DEF NSThreadInv
    <3>2. CASE p # o
      <4>1. Holders(p)' = Holders(p)
        BY <2>0, <2>1, <2>3, <3>2 DEF Holders
      <4> QED BY <2>2, <3>2, <4>1 DEF NSThreadInv
    <3> QED BY <3>1, <3>2
  <2>7. /\ thread' \in [NSThreads -> NSThreadObject \cup {Nil}] /\ refs' \in [Targets -> Nat]
    BY <2>1, <2>2, <2>6 DEF NSThreadInv
  <2>8. \A q \in NSThreads : thread'[q] # Nil => (thread'[q].finished <=> thread'[q].state = "done")
    BY <2>1, <2>3 DEF NSThreadInv
  <2>9. ns_threads' = {q \in NSThreads : thread'[q] # Nil /\ thread'[q].state \in {"started", "main"}}
    BY <2>1, <2>2, <2>3 DEF NSThreadInv
  <2> QED BY <2>6, <2>7, <2>8, <2>9 DEF NSThreadInv
<1>8. ASSUME NEW n \in NSThreads, dealloc(n) PROVE NSThreadInv'
  <2>1. \A q \in NSThreads : thread'[q] = IF q = n THEN Nil ELSE thread[q]
    BY <1>8 DEF dealloc, NSThreadInv
  <2>2. /\ thread[n].finished /\ thread[n].state = "done" /\ refs' = refs /\ ns_threads' = ns_threads
        /\ thread' \in [NSThreads -> NSThreadObject \cup {Nil}]
    BY <1>8 DEF dealloc, NSThreadInv
  <2>3. \A o \in Targets : Holders(o)' = Holders(o)
    BY <2>1, <2>2 DEF Holders
  <2> QED BY <2>1, <2>2, <2>3 DEF NSThreadInv
<1> QED BY <1>1, <1>2, <1>3, <1>5, <1>6, <1>7, <1>8 DEF ThreadNext

\* Whatever the threads do with classes, @synchronized, Foundation's locks and NSThread,
\* no class is used before its +initialize, whoever is inside a lock is alone, a lock with a
\* condition is given only while the condition holds, and every thread and target is accounted for.
THEOREM MeetingsAlwaysTrue == Spec => []MeetingsTrue
<1> DEFINE Inv == ClassInv /\ SyncInv /\ LockInv /\ NSThreadInv
<1>1. Init /\ LockInit => Inv
  BY ClassesInit, SyncInit, LocksInit, ThreadsInit
<1>2. Inv /\ [Next]_<<vars, lock_vars, thread_vars>> => Inv'
  <2> SUFFICES ASSUME Inv, [Next]_<<vars, lock_vars, thread_vars>> PROVE Inv'
    OBVIOUS
  <2>1. CASE ClassNext /\ UNCHANGED <<lock_vars, thread_vars>>
    <3>1. UNCHANGED sync_vars
      BY <2>1 DEF ClassNext, class_step, dispatch, maybe_initialize_class, wait_for_initializer,
         wake_waiter, begin_initialize, end_initialize, objc_msgSend, panics, sync_vars
    <3> QED BY <2>1, <3>1, ClassKeeps, SyncKeeps, LockKeeps, ThreadKeeps
  <2>2. CASE SyncNext /\ UNCHANGED <<lock_vars, thread_vars>>
    <3>1. UNCHANGED class_vars
      BY <2>2 DEF SyncNext, objc_sync_enter, relock, objc_sync_exit
    <3> QED BY <2>2, <3>1, ClassKeeps, SyncKeeps, LockKeeps, ThreadKeeps
  <2>3. CASE LockNext /\ UNCHANGED vars
    <3>1. UNCHANGED thread_vars
      BY <2>3 DEF LockNext, broadcast, lock, tryLock, unlock, relocked, wait, signal,
         lockWhenCondition, tryLockWhenCondition, unlockWithCondition, thread_vars
    <3>2. UNCHANGED class_vars /\ UNCHANGED sync_vars
      BY <2>3 DEF vars
    <3> QED BY <2>3, <3>1, <3>2, ClassKeeps, SyncKeeps, LockKeeps, ThreadKeeps
  <2>4. CASE ThreadNext /\ UNCHANGED vars
    <3>1. UNCHANGED lock_vars
      BY <2>4 DEF ThreadNext, start, main, NSThreadInvocationHelper, dealloc, detach_new_thread_inner,
         initWithTarget, lock_vars
    <3>2. UNCHANGED class_vars /\ UNCHANGED sync_vars
      BY <2>4 DEF vars
    <3> QED BY <2>4, <3>1, <3>2, ClassKeeps, SyncKeeps, LockKeeps, ThreadKeeps
  <2>5. CASE UNCHANGED <<vars, lock_vars, thread_vars>>
    BY <2>5, ClassKeeps, SyncKeeps, LockKeeps, ThreadKeeps DEF vars
  <2> QED BY <2>1, <2>2, <2>3, <2>4, <2>5 DEF Next
<1>3. Inv => MeetingsTrue
  BY ClassImplies, SyncImplies, LockImplies DEF MeetingsTrue, NSThreadInv, ThreadsKnown, Holders
<1> QED BY <1>1, <1>2, <1>3, PTL DEF Spec
=============================================================================
