---------------------------- MODULE GuestThreads ----------------------------
(***************************************************************************)
(* The cooperative thread scheduler of the emulator (environment.rs) with  *)
(* everything a guest thread can block on: sleeping, mutexes               *)
(* (environment/mutex.rs, libc/pthread/mutex.rs), condition variables      *)
(* (libc/pthread/cond.rs), semaphores (libc/semaphore.rs), joining         *)
(* (libc/pthread/thread.rs), the FILE lock (libc/stdio.rs) and Mach        *)
(* suspension (libc/mach/arm/thread_act.rs).                               *)
(*                                                                         *)
(* Exactly one guest thread runs at a time.  In phase "run" the current    *)
(* thread makes any call it likes; a call that blocks, and the end of a    *)
(* timeslice, lead to phase "sched", where Environment::run picks the next *)
(* thread.  A host panic ends the program: `panic` then names its site.    *)
(*                                                                         *)
(* Data is abstracted: addresses are small sets, a deadline is reduced to  *)
(* "has it passed" (the set due), errno results are the absence of a state *)
(* change, and the return value of a thread is not kept.                   *)
(***************************************************************************)
EXTENDS Integers, Sequences, FiniteSets

CONSTANTS
  MaxThreads,   \* bound on threads.len()
  Mutexes,      \* guest addresses of pthread_mutex_t objects
  MaxMutexIds,  \* bound on mutex_count
  MutexTypes,   \* the mutex types the guest uses
  MaxDepth,     \* bound on the lock count of a recursive mutex or FILE
  Conds,        \* guest addresses of pthread_cond_t objects
  TimedWaits,   \* the kinds of condition wait the guest makes (BOOLEANs)
  Sems,         \* guest addresses of sem_t objects
  MaxSem,       \* bound on the value of a semaphore
  Files,        \* guest addresses of FILE objects
  MaxSuspend    \* bound on the suspend count of a thread

ASSUME ThreadsAssumption == MaxThreads \in Nat \ {0}
ASSUME BoundsAssumption ==
  /\ MaxMutexIds \in Nat
  /\ MaxDepth \in Nat \ {0}
  /\ MaxSem \in Nat
  /\ MaxSuspend \in Nat
ASSUME KindsAssumption ==
  /\ MutexTypes \subseteq {"normal", "errorcheck", "recursive"}
  /\ TimedWaits \subseteq BOOLEAN

ThreadIds == 0 .. MaxThreads - 1
MutexIds == 0 .. MaxMutexIds - 1
None == -1            \* an absent Option
MAGIC_STATIC == -2    \* a statically initialised pthread_mutex_t
NO_MAGIC == -3        \* a pthread_mutex_t without a magic number

VARIABLES
  nthreads,   \* threads.len()
  active,     \* Thread::active
  blocked_by, \* Thread::blocked_by, the one under Suspended if suspended
  suspended,  \* the count of ThreadBlock::Suspended, 0 if not suspended
  due,        \* threads whose sleep or wait deadline has passed
  current,    \* Environment::current_thread
  phase,      \* "run": guest code of current; "sched": Environment::run
  panic,      \* "no", or the site of the panic that ended the program
  guest_ctx,  \* threads whose Thread::guest_context is Some
  host_ctx,   \* threads whose Thread::host_context is Some
  stacks,     \* threads whose Thread::stack is Some
  handle,     \* guest memory of each pthread_mutex_t
  mutexes,    \* MutexState::mutexes
  mutex_count,
  conds,      \* cond::State::condition_variables and the guest magic
  sems,       \* semaphore::State::open_semaphores
  files,      \* the lock of stdio::FILEHostObject
  joined_by,  \* ThreadHostObject::joined_by
  detached,   \* ThreadHostObject::attr.detachstate
  held        \* history: the locks each thread has been told it holds

threadVars == <<nthreads, active, joined_by, detached>>
ctxVars == <<guest_ctx, host_ctx, stacks>>
mutexVars == <<handle, mutexes, mutex_count>>
syncVars == <<mutexVars, conds, sems, files>>
runVars == <<blocked_by, suspended, due, current, phase, panic>>
vars == <<threadVars, ctxVars, syncVars, runVars, held>>

(***************************************************************************)
(* ThreadBlock: `on` is the mutex id or the thread being joined, `obj` the *)
(* address of the condition variable, semaphore or FILE.                   *)
(***************************************************************************)
NotBlocked == [kind |-> "none", on |-> None, obj |-> "null", timed |-> FALSE]
Sleeping == [NotBlocked EXCEPT !.kind = "sleep"]
BlockMutex(id) == [NotBlocked EXCEPT !.kind = "mutex", !.on = id]
BlockSem(s) == [NotBlocked EXCEPT !.kind = "sem", !.obj = s]
BlockCond(c, t) == [NotBlocked EXCEPT !.kind = "cond", !.obj = c, !.timed = t]
BlockJoin(j) == [NotBlocked EXCEPT !.kind = "join", !.on = j]
BlockFile(f) == [NotBlocked EXCEPT !.kind = "file", !.obj = f]

NoMutex == [live |-> FALSE, type_ |-> "normal", waiting_count |-> 0,
            owner |-> None, lock_count |-> 0]
NewMutex(type_) == [NoMutex EXCEPT !.live = TRUE, !.type_ = type_]
CondStatic == [st |-> "static", waiting |-> <<>>, waking |-> <<>>,
               curr_mutex |-> None]
NewCond == [CondStatic EXCEPT !.st = "live"]

Existing == 0 .. nthreads - 1
IsBlocked(t) == suspended[t] > 0 \/ blocked_by[t] # NotBlocked

Init ==
  /\ nthreads = 1
  /\ active = [t \in ThreadIds |-> t = 0]
  /\ blocked_by = [t \in ThreadIds |-> NotBlocked]
  /\ suspended = [t \in ThreadIds |-> 0]
  /\ due = {}
  /\ current = 0
  /\ phase = "run"
  /\ panic = "no"
  /\ guest_ctx = {}
  /\ host_ctx = {}
  /\ stacks = {0}
  /\ handle \in [Mutexes -> {MAGIC_STATIC, NO_MAGIC}]
  /\ mutexes = [id \in MutexIds |-> NoMutex]
  /\ mutex_count = 0
  /\ conds = [c \in Conds |-> CondStatic]
  /\ sems = [s \in Sems |-> [live |-> FALSE, value |-> 0]]
  /\ files = [f \in Files |-> [owner |-> None, lock_count |-> 0]]
  /\ joined_by = [t \in ThreadIds |-> None]
  /\ detached = [t \in ThreadIds |-> FALSE]
  /\ held = [t \in ThreadIds |-> [id \in MutexIds |-> 0]]

(***************************************************************************)
(* How a call of the current thread ends: it returns to guest code, it     *)
(* yields until block b is lifted, or it panics.                           *)
(***************************************************************************)
Running == panic = "no" /\ phase = "run"
Return == UNCHANGED runVars
Panic(site) == panic' = site /\ UNCHANGED <<blocked_by, suspended, due, current, phase>>

\* Environment::yield_thread
yield_thread(b) ==
  IF IsBlocked(current)
    THEN Panic("yield while blocked")
    ELSE /\ blocked_by' = [blocked_by EXCEPT ![current] = b]
         /\ due' = due \ {current}
         /\ phase' = "sched"
         /\ UNCHANGED <<suspended, current, panic>>

-----------------------------------------------------------------------------
(***************************************************************************)
(* Mutexes.  A handle's id always names a live mutex (HandlesLive), so the *)
(* unwrap()s of lock_mutex, unlock_mutex and destroy_mutex are not shown.  *)
(***************************************************************************)
\* check_or_register_mutex: the id and the mutex a handle stands for, once a
\* statically initialised one has been registered
HasMagic(p) ==
  \/ handle[p] \in MutexIds
  \/ handle[p] = MAGIC_STATIC /\ mutex_count < MaxMutexIds
IdOf(p) == IF handle[p] = MAGIC_STATIC THEN mutex_count ELSE handle[p]
MutexOf(p) ==
  IF handle[p] = MAGIC_STATIC THEN NewMutex("normal") ELSE mutexes[handle[p]]
check_or_register_mutex(p) ==
  /\ HasMagic(p)
  /\ handle' = [handle EXCEPT ![p] = IdOf(p)]
  /\ mutex_count' = IF handle[p] = MAGIC_STATIC THEN mutex_count + 1 ELSE mutex_count

mutex_is_locked_twice(id) == mutexes[id].lock_count > 1
mutex_is_locked(id) == mutexes[id].owner # None
SetMutex(id, m) == mutexes' = [mutexes EXCEPT ![id] = m]
Hold(t, id, n) == [held EXCEPT ![t] = [held[t] EXCEPT ![id] = n]]

pthread_mutex_init(p, type_) ==
  /\ Running
  /\ mutex_count < MaxMutexIds
  /\ handle' = [handle EXCEPT ![p] = mutex_count]
  /\ mutex_count' = mutex_count + 1
  /\ SetMutex(mutex_count, NewMutex(type_))
  /\ Return
  /\ UNCHANGED <<threadVars, ctxVars, conds, sems, files, held>>

\* Environment::lock_mutex on the mutex m with the given id
LockFree(id, m) ==
  /\ m.owner = None
  /\ SetMutex(id, [m EXCEPT !.owner = current, !.lock_count = 1])
  /\ held' = Hold(current, id, held[current][id] + 1)
  /\ Return
LockAgain(id, m) ==
  /\ m.owner = current
  /\ CASE m.type_ = "normal" -> Panic("relock of a normal mutex") /\ UNCHANGED <<mutexes, held>>
       [] m.type_ = "errorcheck" -> Return /\ UNCHANGED <<mutexes, held>>
       [] m.type_ = "recursive" ->
            /\ m.lock_count < MaxDepth
            /\ SetMutex(id, [m EXCEPT !.lock_count = @ + 1])
            /\ held' = Hold(current, id, held[current][id] + 1)
            /\ Return
LockWait(id, m) ==
  /\ m.owner \notin {None, current}
  /\ SetMutex(id, [m EXCEPT !.waiting_count = @ + 1])
  /\ yield_thread(BlockMutex(id))
  /\ UNCHANGED held
lock_mutex(id, m) == LockFree(id, m) \/ LockAgain(id, m) \/ LockWait(id, m)

pthread_mutex_lock(p) ==
  /\ Running
  /\ check_or_register_mutex(p)
  /\ lock_mutex(IdOf(p), MutexOf(p))
  /\ UNCHANGED <<threadVars, ctxVars, conds, sems, files>>

\* EBUSY (no change) unless the mutex is free or recursively lockable
pthread_mutex_trylock(p) ==
  /\ Running
  /\ check_or_register_mutex(p)
  /\ LET m == MutexOf(p)
     IN  m.owner = None \/ (m.type_ = "recursive" /\ m.owner = current)
  /\ lock_mutex(IdOf(p), MutexOf(p))
  /\ UNCHANGED <<threadVars, ctxVars, conds, sems, files>>

\* Environment::unlock_mutex: its result for the current thread, the mutex
\* after a successful unlock, and the lock taken from its owner
unlock_result(m) ==
  CASE m.owner = None -> IF m.type_ = "normal" THEN "panic" ELSE "EPERM"
    [] m.owner # None /\ m.owner # current /\ m.type_ # "normal" -> "EPERM"
    [] OTHER -> "ok"
Unlocked(m) ==
  IF m.lock_count = 1 THEN [m EXCEPT !.owner = None, !.lock_count = 0]
                      ELSE [m EXCEPT !.lock_count = @ - 1]
Unhold(id, m) == Hold(m.owner, id, held[m.owner][id] - 1)

pthread_mutex_unlock(p) ==
  /\ Running
  /\ check_or_register_mutex(p)
  /\ LET m == MutexOf(p)
     IN  CASE unlock_result(m) = "panic" ->
                /\ Panic("unlock of an unlocked mutex")
                /\ SetMutex(IdOf(p), m)
                /\ UNCHANGED held
           [] unlock_result(m) = "EPERM" -> Return /\ UNCHANGED <<mutexes, held>>
           [] unlock_result(m) = "ok" ->
                SetMutex(IdOf(p), Unlocked(m)) /\ held' = Unhold(IdOf(p), m) /\ Return
  /\ UNCHANGED <<threadVars, ctxVars, conds, sems, files>>

\* MutexState::destroy_mutex fails with EBUSY
DestroyBusy_no_waiters(m) == m.owner # None
DestroyBusy(m) == m.owner # None \/ m.waiting_count # 0

\* The magic number is erased first, even when destroy_mutex then fails
ErasedHandle(p) == NO_MAGIC
pthread_mutex_destroy(p) ==
  /\ Running
  /\ handle[p] \in MutexIds
  /\ handle' = [handle EXCEPT ![p] = ErasedHandle(p)]
  /\ LET m == mutexes[handle[p]]
     IN  IF DestroyBusy(m)
           THEN UNCHANGED mutexes
           ELSE SetMutex(handle[p], NoMutex)
  /\ Return
  /\ UNCHANGED <<threadVars, ctxVars, mutex_count, conds, sems, files, held>>

-----------------------------------------------------------------------------
(***************************************************************************)
(* Condition variables.  `st` is "static" (PTHREAD_COND_INITIALIZER),      *)
(* "live" (registered) or "gone" (destroyed: the magic number stays, the   *)
(* host object does not, so a later use panics on an unwrap()).            *)
(***************************************************************************)
SetCond(c, h) == conds' = [conds EXCEPT ![c] = h]
CondOf(c) == IF conds[c].st = "static" THEN NewCond ELSE conds[c]
condFrame == <<threadVars, ctxVars, sems, files>>

pthread_cond_init(c) ==
  /\ Running
  /\ IF conds[c].st = "live" THEN Panic("cond_init of a live cond") /\ UNCHANGED conds
                             ELSE SetCond(c, NewCond) /\ Return
  /\ UNCHANGED <<condFrame, mutexVars, held>>

\* pthread_cond_wait, pthread_cond_timedwait and _timedwait_relative_np
WaitRefused(c, p) ==
  \/ conds[c].st = "gone"
  \/ handle[p] = NO_MAGIC
  \/ unlock_result(MutexOf(p)) # "ok"
  \/ CondOf(c).curr_mutex # IdOf(p) /\ CondOf(c).waiting \o CondOf(c).waking # <<>>
pthread_cond_wait(c, p, timed) ==
  /\ Running
  /\ IF WaitRefused(c, p)
       THEN /\ Panic("cond wait")
            /\ UNCHANGED <<mutexVars, conds, held>>
       ELSE /\ SetMutex(IdOf(p), Unlocked(MutexOf(p)))
            /\ held' = Unhold(IdOf(p), MutexOf(p))
            /\ SetCond(c, [CondOf(c) EXCEPT !.curr_mutex = IdOf(p),
                                            !.waiting = Append(@, current)])
            /\ yield_thread(BlockCond(c, timed))
            /\ UNCHANGED <<handle, mutex_count>>
  /\ UNCHANGED condFrame

pthread_cond_signal(c) ==
  /\ Running
  /\ LET h == CondOf(c)
     IN  CASE h.st = "gone" -> Panic("cond gone") /\ UNCHANGED conds
           [] h.st # "gone" /\ h.waiting = <<>> -> SetCond(c, h) /\ Return
           [] h.st # "gone" /\ h.waiting # <<>> ->
                /\ SetCond(c, [h EXCEPT !.waiting = Tail(@),
                                        !.waking = Append(@, Head(h.waiting))])
                /\ Return
  /\ UNCHANGED <<condFrame, mutexVars, held>>

pthread_cond_broadcast(c) ==
  /\ Running
  /\ LET h == CondOf(c)
     IN  IF h.st = "gone"
           THEN Panic("cond gone") /\ UNCHANGED conds
           ELSE SetCond(c, [h EXCEPT !.waiting = <<>>, !.waking = @ \o h.waiting]) /\ Return
  /\ UNCHANGED <<condFrame, mutexVars, held>>

pthread_cond_destroy(c) ==
  /\ Running
  /\ LET h == CondOf(c)
     IN  IF h.st = "gone" \/ h.waiting # <<>> \/ h.waking # <<>>
           THEN Panic("cond destroy") /\ UNCHANGED conds
           ELSE SetCond(c, [CondStatic EXCEPT !.st = "gone"]) /\ Return
  /\ UNCHANGED <<condFrame, mutexVars, held>>

-----------------------------------------------------------------------------
(***************************************************************************)
(* Semaphores at a guest address (sem_init and friends).                   *)
(***************************************************************************)
semFrame == <<threadVars, ctxVars, mutexVars, conds, files, held>>

\* A second sem_init of a live semaphore is ignored
sem_init(s, value) ==
  /\ Running
  /\ ~sems[s].live
  /\ sems' = [sems EXCEPT ![s] = [live |-> TRUE, value |-> value]]
  /\ Return
  /\ UNCHANGED semFrame

sem_destroy(s) ==
  /\ Running
  /\ sems[s].live
  /\ sems' = [sems EXCEPT ![s] = [live |-> FALSE, value |-> 0]]
  /\ Return
  /\ UNCHANGED semFrame

\* sem_increment, through sem_post
sem_post(s) ==
  /\ Running
  /\ \/ /\ ~sems[s].live
        /\ Panic("no semaphore")
        /\ UNCHANGED sems
     \/ /\ sems[s].live
        /\ sems[s].value < MaxSem
        /\ sems' = [sems EXCEPT ![s].value = @ + 1]
        /\ Return
  /\ UNCHANGED semFrame

\* sem_decrement, through sem_wait (wait_on_lock) and sem_trywait
sem_decrement(s, wait_on_lock) ==
  /\ Running
  /\ \/ ~sems[s].live /\ Panic("no semaphore") /\ UNCHANGED sems
     \/ /\ sems[s].live /\ sems[s].value > 0
        /\ sems' = [sems EXCEPT ![s].value = @ - 1]
        /\ Return
     \/ /\ sems[s].live /\ sems[s].value = 0 /\ wait_on_lock
        /\ yield_thread(BlockSem(s))
        /\ UNCHANGED sems
  /\ UNCHANGED semFrame

-----------------------------------------------------------------------------
(***************************************************************************)
(* The lock of a FILE.  ftrylockfile is flockfile without the wait.        *)
(***************************************************************************)
fileFrame == <<threadVars, ctxVars, mutexVars, conds, sems, held>>

LockFile(f) ==
  /\ files[f].owner \in {None, current}
  /\ files[f].lock_count < MaxDepth
  /\ files' = [files EXCEPT ![f] = [owner |-> current, lock_count |-> @.lock_count + 1]]
  /\ Return
flockfile(f) ==
  /\ Running
  /\ \/ LockFile(f)
     \/ /\ files[f].owner \notin {None, current}
        /\ yield_thread(BlockFile(f))
        /\ UNCHANGED files
  /\ UNCHANGED fileFrame

ftrylockfile(f) ==
  /\ Running
  /\ LockFile(f)
  /\ UNCHANGED fileFrame

ReleasedOwner_kept(n) == current
ReleasedOwner(n) == IF n = 1 THEN None ELSE current
funlockfile(f) ==
  /\ Running
  /\ IF files[f].owner # current
       THEN Panic("funlockfile by another thread") /\ UNCHANGED files
       ELSE /\ files' = [files EXCEPT ![f] =
                 [owner |-> ReleasedOwner(@.lock_count),
                  lock_count |-> @.lock_count - 1]]
            /\ Return
  /\ UNCHANGED fileFrame

\* Any other stdio call first makes chronahle_check_file_object_lock
stdio_call(f) ==
  /\ Running
  /\ files[f].owner \notin {None, current}
  /\ Panic("stdio call on a locked FILE")
  /\ UNCHANGED <<fileFrame, files>>

-----------------------------------------------------------------------------
(***************************************************************************)
(* The life of a thread.                                                   *)
(***************************************************************************)
\* pthread_create and Environment::new_thread
pthread_create(detach) ==
  /\ Running
  /\ nthreads < MaxThreads
  /\ nthreads' = nthreads + 1
  /\ active' = [active EXCEPT ![nthreads] = TRUE]
  /\ detached' = [detached EXCEPT ![nthreads] = detach]
  /\ guest_ctx' = guest_ctx \cup {nthreads}
  /\ host_ctx' = host_ctx \cup {nthreads}
  /\ stacks' = stacks \cup {nthreads}
  /\ Return
  /\ UNCHANGED <<joined_by, syncVars, held>>

\* The start routine returns: the coroutine ends, and Environment::run drops
\* it and frees the stack.  The main thread must never get here.
thread_exit ==
  /\ Running
  /\ IF current = 0
       THEN /\ Panic("main function exited")
            /\ UNCHANGED <<active, stacks>>
       ELSE /\ active' = [active EXCEPT ![current] = FALSE]
            /\ stacks' = stacks \ {current}
            /\ phase' = "sched"
            /\ UNCHANGED <<blocked_by, suspended, due, current, panic>>
  /\ UNCHANGED <<nthreads, joined_by, detached, guest_ctx, host_ctx, syncVars, held>>

\* Self-join, a join the joinee is waiting for and a detached joinee are
\* refused with an errno
JoinRefused(j) == j = current \/ joined_by[current] = j \/ detached[j]
pthread_join(j) ==
  /\ Running
  /\ \/ j = 0 /\ Panic("join of the main thread") /\ UNCHANGED joined_by
     \/ /\ j # 0
        /\ ~JoinRefused(j)
        /\ joined_by' = [joined_by EXCEPT ![j] = current]
        /\ yield_thread(BlockJoin(j))
  /\ UNCHANGED <<nthreads, active, detached, ctxVars, syncVars, held>>

pthread_detach(j) ==
  /\ Running
  /\ ~detached[j]
  /\ detached' = [detached EXCEPT ![j] = TRUE]
  /\ Return
  /\ UNCHANGED <<nthreads, active, joined_by, ctxVars, syncVars, held>>

sleep ==
  /\ Running
  /\ yield_thread(Sleeping)
  /\ UNCHANGED <<threadVars, ctxVars, syncVars, held>>

suspend_thread(t) ==
  /\ Running
  /\ suspended[t] < MaxSuspend
  /\ suspended' = [suspended EXCEPT ![t] = @ + 1]
  /\ UNCHANGED <<blocked_by, due, current, phase, panic>>
  /\ UNCHANGED <<threadVars, ctxVars, syncVars, held>>

resume_thread(t) ==
  /\ Running
  /\ IF suspended[t] = 0
       THEN Panic("resume of a running thread")
       ELSE /\ suspended' = [suspended EXCEPT ![t] = @ - 1]
            /\ UNCHANGED <<blocked_by, due, current, phase, panic>>
  /\ UNCHANGED <<threadVars, ctxVars, syncVars, held>>

\* run_inner: the timeslice is used up
end_timeslice ==
  /\ Running
  /\ yield_thread(NotBlocked)
  /\ UNCHANGED <<threadVars, ctxVars, syncVars, held>>

\* The host clock reaches the deadline of a sleep or a timed wait
deadline_passes(t) ==
  /\ panic = "no"
  /\ t \notin due
  /\ blocked_by[t].kind = "sleep" \/ blocked_by[t].timed
  /\ due' = due \cup {t}
  /\ UNCHANGED <<threadVars, ctxVars, syncVars, held>>
  /\ UNCHANGED <<blocked_by, suspended, current, phase, panic>>

-----------------------------------------------------------------------------
(***************************************************************************)
(* schedule_next_thread.  Look(t) is what examining thread t comes to:     *)
(* "skip", "wake" or "timeout" (t is unblocked and returned), or the site  *)
(* of the panic it runs into.                                              *)
(***************************************************************************)
Relocks(id, outcome) == IF mutexes[id].live THEN outcome ELSE "relock of no mutex"
LookMutex(id) == IF mutex_is_locked(id) THEN "skip" ELSE Relocks(id, "wake")
LookSem_off_by_one(s) == IF sems[s].value > 1 THEN "wake" ELSE "skip"
LookSem(s) ==
  IF ~sems[s].live THEN "wait on no semaphore"
  ELSE IF sems[s].value > 0 THEN "wake" ELSE "skip"
LookCond(t, c) ==
  LET h == conds[c]
  IN  CASE h.waking # <<>> /\ Head(h.waking) = t /\ ~mutex_is_locked(h.curr_mutex) ->
             Relocks(h.curr_mutex, "wake")
        [] OTHER ->
             IF ~(blocked_by[t].timed /\ t \in due) THEN "skip"
             ELSE IF h.waking # <<>> THEN "timeout while waking"
             ELSE IF mutex_is_locked(h.curr_mutex) THEN "timeout while locked"
             ELSE Relocks(h.curr_mutex, "timeout")
PassedOver(t) == ~active[t] \/ suspended[t] > 0
Look(t) ==
  LET b == blocked_by[t]
  IN  IF PassedOver(t) THEN "skip"
      ELSE CASE b.kind = "none" -> "wake"
             [] b.kind = "sleep" -> IF t \in due THEN "wake" ELSE "skip"
             [] b.kind = "mutex" -> LookMutex(b.on)
             [] b.kind = "sem" -> LookSem(b.obj)
             [] b.kind = "cond" -> LookCond(t, b.obj)
             [] b.kind = "join" -> IF active[b.on] THEN "skip" ELSE "wake"
             [] b.kind = "file" -> IF files[b.obj].lock_count = 0 THEN "wake" ELSE "skip"

\* The scan starts with the thread after the current one and wraps around
ScanIndex(t) == IF t > current THEN t - current - 1 ELSE t - current - 1 + nthreads
FoundFirst(t) ==
  /\ Look(t) # "skip"
  /\ \A u \in Existing : ScanIndex(u) < ScanIndex(t) => Look(u) = "skip"

\* relock_unblocked_mutex_for_thread
Relocked_current(t, m) == [m EXCEPT !.owner = current, !.lock_count = 1]
Relocked(t, m) == [m EXCEPT !.owner = t, !.lock_count = 1,
                            !.waiting_count = IF @ > 0 THEN @ - 1 ELSE @]
relock_unblocked_mutex_for_thread(t, id) ==
  /\ SetMutex(id, Relocked(t, mutexes[id]))
  /\ held' = Hold(t, id, held[t][id] + 1)

\* host_cond.waiting.retain(|&t| t != thread_id): a thread is listed at most
\* once (CondQueuesExact), so this closes one gap
Retain_all(q, t) == q
Retain(q, t) ==
  IF \A i \in 1 .. Len(q) : q[i] # t THEN q
  ELSE LET gap == CHOOSE i \in 1 .. Len(q) : q[i] = t
       IN  [i \in 1 .. Len(q) - 1 |-> IF i < gap THEN q[i] ELSE q[i + 1]]

\* What unblocking t does to the object it was blocked on
Fulfil(t) ==
  LET b == blocked_by[t]
  IN  /\ CASE b.kind = "mutex" ->
                relock_unblocked_mutex_for_thread(t, b.on)
           [] b.kind = "cond" ->
                relock_unblocked_mutex_for_thread(t, conds[b.obj].curr_mutex)
           [] OTHER -> UNCHANGED <<mutexes, held>>
      /\ conds' = IF b.kind # "cond" THEN conds
                  ELSE IF Look(t) = "wake" THEN [conds EXCEPT ![b.obj].waking = Tail(@)]
                  ELSE [conds EXCEPT ![b.obj].waiting = Retain(@, t)]
      /\ sems' = IF b.kind = "sem" THEN [sems EXCEPT ![b.obj].value = @ - 1] ELSE sems
      /\ files' = IF b.kind = "file"
                    THEN [files EXCEPT ![b.obj] = [owner |-> t, lock_count |-> 1]]
                    ELSE files
      /\ UNCHANGED <<handle, mutex_count>>

\* switch_thread: contexts change hands.  A finished thread has no host
\* context left to put back.
KeptContext_always == {current}
KeptContext == IF active[current] THEN {current} ELSE {}
switch_thread(t) ==
  IF t = current THEN UNCHANGED <<guest_ctx, host_ctx>>
  ELSE /\ guest_ctx' = (guest_ctx \ {t}) \cup {current}
       /\ host_ctx' = (host_ctx \ {t}) \cup KeptContext

schedule(t) ==
  /\ panic = "no" /\ phase = "sched"
  /\ FoundFirst(t)
  /\ \/ /\ Look(t) \in {"wake", "timeout"}
        /\ Fulfil(t)
        /\ blocked_by' = [blocked_by EXCEPT ![t] = NotBlocked]
        /\ due' = due \ {t}
        /\ switch_thread(t)
        /\ current' = t
        /\ phase' = "run"
        /\ UNCHANGED <<suspended, panic>>
     \/ /\ Look(t) \notin {"wake", "timeout"}
        /\ Panic(Look(t))
        /\ UNCHANGED <<syncVars, guest_ctx, host_ctx, held>>
  /\ UNCHANGED <<threadVars, stacks>>

\* Nothing to run and nobody asleep: a deadlock.  With somebody asleep the
\* host sleeps until deadline_passes.
AwaitsClock(t) == active[t] /\ suspended[t] = 0 /\ blocked_by[t].kind = "sleep"
no_thread_left ==
  /\ panic = "no" /\ phase = "sched"
  /\ \A t \in Existing : Look(t) = "skip" /\ ~AwaitsClock(t)
  /\ Panic("deadlock")
  /\ UNCHANGED <<threadVars, ctxVars, syncVars, held>>

\* The program has ended
ended == panic # "no" /\ UNCHANGED vars

MutexCall(p) ==
  \/ \E type_ \in MutexTypes : pthread_mutex_init(p, type_)
  \/ pthread_mutex_lock(p)
  \/ pthread_mutex_trylock(p)
  \/ pthread_mutex_unlock(p)
  \/ pthread_mutex_destroy(p)
CondCall(c) ==
  \/ pthread_cond_init(c)
  \/ \E p \in Mutexes, timed \in TimedWaits : pthread_cond_wait(c, p, timed)
  \/ pthread_cond_signal(c)
  \/ pthread_cond_broadcast(c)
  \/ pthread_cond_destroy(c)
SemCall(s) ==
  \/ \E value \in 0 .. MaxSem : sem_init(s, value)
  \/ sem_destroy(s)
  \/ sem_post(s)
  \/ \E wait_on_lock \in BOOLEAN : sem_decrement(s, wait_on_lock)
FileCall(f) == flockfile(f) \/ ftrylockfile(f) \/ funlockfile(f) \/ stdio_call(f)
ThreadCall ==
  \/ \E detach \in BOOLEAN : pthread_create(detach)
  \/ thread_exit
  \/ sleep
  \/ \E t \in Existing :
        pthread_join(t) \/ pthread_detach(t) \/ suspend_thread(t) \/ resume_thread(t)
Scheduling ==
  \/ end_timeslice
  \/ \E t \in Existing : deadline_passes(t) \/ schedule(t)
  \/ no_thread_left

Next ==
  \/ \E p \in Mutexes : MutexCall(p)
  \/ \E c \in Conds : CondCall(c)
  \/ \E s \in Sems : SemCall(s)
  \/ \E f \in Files : FileCall(f)
  \/ ThreadCall
  \/ Scheduling
  \/ ended

Spec == Init /\ [][Next]_vars

-----------------------------------------------------------------------------
(***************************************************************************)
(* Properties.                                                             *)
(***************************************************************************)
Block ==
  [kind : {"none", "sleep", "mutex", "sem", "cond", "join", "file"},
   on : ThreadIds \cup MutexIds \cup {None},
   obj : Conds \cup Sems \cup Files \cup {"null"},
   timed : BOOLEAN]
Mutex ==
  [live : BOOLEAN, type_ : {"normal", "errorcheck", "recursive"},
   waiting_count : Nat, owner : ThreadIds \cup {None}, lock_count : Nat]
Cond ==
  [st : {"static", "live", "gone"}, waiting : Seq(ThreadIds),
   waking : Seq(ThreadIds), curr_mutex : MutexIds \cup {None}]

CallPanics ==
  {"yield while blocked", "relock of a normal mutex", "unlock of an unlocked mutex",
   "cond_init of a live cond", "cond wait", "cond gone", "cond destroy",
   "no semaphore", "funlockfile by another thread", "stdio call on a locked FILE",
   "main function exited", "join of the main thread", "resume of a running thread"}
SchedPanics ==
  {"relock of no mutex", "wait on no semaphore", "timeout while waking",
   "timeout while locked", "deadlock"}
TypeThreads ==
  /\ nthreads \in 1 .. MaxThreads
  /\ active \in [ThreadIds -> BOOLEAN]
  /\ blocked_by \in [ThreadIds -> Block]
  /\ suspended \in [ThreadIds -> Nat]
  /\ due \subseteq ThreadIds
  /\ current \in Existing
  /\ phase \in {"run", "sched"}
  /\ panic \in {"no"} \cup CallPanics \cup SchedPanics
TypeMutexes ==
  /\ handle \in [Mutexes -> MutexIds \cup {MAGIC_STATIC, NO_MAGIC}]
  /\ mutexes \in [MutexIds -> Mutex]
  /\ mutex_count \in 0 .. MaxMutexIds
  /\ held \in [ThreadIds -> [MutexIds -> Nat]]
TypeObjects ==
  /\ conds \in [Conds -> Cond]
  /\ sems \in [Sems -> [live : BOOLEAN, value : Nat]]
  /\ files \in [Files -> [owner : ThreadIds \cup {None}, lock_count : Nat]]
  /\ joined_by \in [ThreadIds -> ThreadIds \cup {None}]
  /\ detached \in [ThreadIds -> BOOLEAN]
\* Every variable has its type; in particular current is a created thread,
\* and no count (of locks, waiters, a semaphore, a FILE) falls below zero.
TypeOK == TypeThreads /\ TypeMutexes /\ TypeObjects

\* What a thread was told by lock, trylock, unlock and the condition waits is
\* what the mutex records, whoever the scheduler relocked it for: a thread
\* holds a mutex exactly lock_count times if it is the owner, and not at all
\* otherwise.  Mutual exclusion follows.
LockOwnership ==
  \A id \in MutexIds : \A t \in ThreadIds :
    held[t][id] = IF mutexes[id].owner = t THEN mutexes[id].lock_count ELSE 0

\* Two threads never hold the same mutex, whether they got it by locking it,
\* by waiting for it or by being woken from a condition variable.
MutualExclusion ==
  \A id \in MutexIds : \A t, u \in ThreadIds :
    held[t][id] > 0 /\ held[u][id] > 0 => t = u

\* A mutex some thread is blocked on is never destroyed (the waiting_count
\* of lock_mutex is there for that).
BlockedMutexLive ==
  panic = "no" =>
    \A t \in ThreadIds :
      blocked_by[t].kind = "mutex" => mutexes[blocked_by[t].on].live

\* As long as no condition variable was used, waiting_count keeps a mutex
\* alive for its waiters: relock_unblocked_mutex_for_thread then takes back
\* just what lock_mutex added, and destroy_mutex sees every waiter.
CondsUntouched == \A c \in Conds : conds[c].st = "static"
WaitersKeepMutex == CondsUntouched => BlockedMutexLive

\* Why WaitersKeepMutex is kept: a mutex counts at least the threads blocked
\* on it, and one that is destroyed counts none.
MutexWaiters(id) == {t \in ThreadIds : blocked_by[t].kind = "mutex" /\ blocked_by[t].on = id}
Counted(id) ==
  /\ mutexes[id].waiting_count >= Cardinality(MutexWaiters(id))
  /\ ~mutexes[id].live => mutexes[id].waiting_count = 0
NoCondBlock(b) == b.kind # "cond" /\ (b.kind = "mutex" => b.on \in MutexIds)
WaitersInv ==
  CondsUntouched =>
    /\ \A t \in ThreadIds : NoCondBlock(blocked_by[t])
    /\ \A id \in MutexIds : Counted(id)

Waiters(c) == {t \in ThreadIds : blocked_by[t].kind = "cond" /\ blocked_by[t].obj = c}
\* The threads blocked on a condition variable are exactly those in its two
\* queues, each in one place: nobody waits unlisted, so that no signal could
\* reach it, and nobody is woken who does not wait.
CondQueuesExact ==
  panic = "no" =>
    \A c \in Conds :
      LET q == conds[c].waiting \o conds[c].waking
      IN  /\ {q[i] : i \in 1 .. Len(q)} = Waiters(c)
          /\ \A i, j \in 1 .. Len(q) : q[i] = q[j] => i = j

\* Why CondQueuesExact is kept: the two queues of a condition variable have no
\* thread in common, and one that is not registered has empty queues, so that
\* registering it loses nobody.
Listed(q) == {q[i] : i \in 1 .. Len(q)}
Distinct(q) == \A i, j \in 1 .. Len(q) : q[i] = q[j] => i = j
QueuesSane(h, waiters) ==
  /\ h.st # "live" => h.waiting = <<>> /\ h.waking = <<>>
  /\ Distinct(h.waiting) /\ Distinct(h.waking)
  /\ Listed(h.waiting) \cap Listed(h.waking) = {}
  /\ Listed(h.waiting) \cup Listed(h.waking) = waiters
CondInv == panic = "no" => \A c \in Conds : QueuesSane(conds[c], Waiters(c))

\* "There should always be (threads.len() - 1) contexts": every thread but
\* the current one has its guest context in store, and every unfinished one
\* its coroutine, so that switch_thread never unwraps a None.
ContextsInStore ==
  /\ guest_ctx = Existing \ {current}
  /\ host_ctx = {t \in Existing \ {current} : active[t]}

\* Only an unfinished thread runs, unblocked unless it suspended itself, and
\* only finished threads have lost their stack.
RunningThreadSane ==
  /\ phase = "run" => active[current] /\ blocked_by[current] = NotBlocked
  /\ stacks = {t \in Existing : active[t]}

\* The lock of a FILE has an owner just when its count is not zero (asserted
\* by try_acquire_file_object_lock), and nobody waits for a lock it owns.
FileLockSane ==
  \A f \in Files :
    /\ files[f].owner = None <=> files[f].lock_count = 0
    /\ \A t \in ThreadIds :
         blocked_by[t].kind = "file" /\ blocked_by[t].obj = f => files[f].owner # t

\* A guest handle with a magic number names a mutex that exists: the unwrap()s
\* of lock_mutex, unlock_mutex and destroy_mutex cannot panic.
HandlesLive ==
  \A p \in Mutexes : handle[p] \in MutexIds => mutexes[handle[p]].live

\* A mutex has an owner just when its lock count is not zero, ids not given
\* out yet name no mutex, and no two handles share an id.
MutexesSane ==
  /\ \A id \in MutexIds :
       /\ mutexes[id].owner = None <=> mutexes[id].lock_count = 0
       /\ id >= mutex_count => mutexes[id] = NoMutex
  /\ \A p \in Mutexes : handle[p] \in MutexIds => handle[p] < mutex_count
  /\ \A p, q \in Mutexes : handle[p] \in MutexIds /\ handle[p] = handle[q] => p = q

\* Everything has its type, and the recursive lock of a FILE its owner: TypeOK and FileLockSane
ThreadsSound == TypeOK /\ FileLockSane

\* The inductive invariants behind the theorems of GuestThreads_proofs
ThreadInv == TypeThreads /\ ContextsInStore /\ RunningThreadSane
MutexInv == TypeMutexes /\ LockOwnership /\ MutexesSane /\ HandlesLive

(***************************************************************************)
(* Liveness.  The CPU runs a timeslice of bounded length, the scheduler is *)
(* host code, and the clock advances.                                      *)
(***************************************************************************)
Fairness ==
  /\ WF_vars(end_timeslice)
  /\ \A t \in ThreadIds : WF_vars(t \in Existing /\ schedule(t))
  /\ WF_vars(no_thread_left)
  /\ \A t \in ThreadIds : WF_vars(t \in Existing /\ deadline_passes(t))
FairSpec == Spec /\ Fairness

Runs(t) == current = t /\ phase = "run"
Ended == panic # "no"
\* Round robin: a thread that could run gets the CPU, however busy the others.
RunnableRuns ==
  \A t \in ThreadIds :
    (active[t] /\ ~IsBlocked(t)) ~> (Runs(t) \/ suspended[t] > 0 \/ Ended)

\* A sleeping thread wakes up, and is never mistaken for a deadlock.
SleeperWakes ==
  \A t \in ThreadIds :
    (active[t] /\ blocked_by[t].kind = "sleep")
      ~> (Runs(t) \/ suspended[t] > 0 \/ panic \notin {"no", "deadlock"})

\* A post is not lost: with a thread blocked on a semaphore of positive value,
\* that thread or another takes the value down.
PostNotLost ==
  \A t \in ThreadIds : \A s \in Sems :
    (blocked_by[t].kind = "sem" /\ blocked_by[t].obj = s /\ sems[s].value > 0)
      ~> (blocked_by[t].kind # "sem" \/ sems[s].value = 0 \/ suspended[t] > 0 \/ Ended)

\* All waits that should end do: RunnableRuns, SleeperWakes and PostNotLost
WaitsEnd == RunnableRuns /\ SleeperWakes /\ PostNotLost
=============================================================================
