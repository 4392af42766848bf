------------------------ MODULE GuestThreads_proofs ------------------------
(***************************************************************************)
(* Proofs about GuestThreads, for any number of threads and objects.       *)
(***************************************************************************)
EXTENDS GuestThreads, FiniteSetTheorems, TLAPS

(***************************************************************************)
(* ThreadInv: the scheduler only ever runs an unfinished thread, and every *)
(* context is where switch_thread looks for it.  A guest call touches the  *)
(* state ThreadInv is about in one of the ways CallEnds lists.             *)
(***************************************************************************)
CallEnds ==
  \/ UNCHANGED runVars
  \/ \E b \in Block : yield_thread(b)
  \/ \E site \in CallPanics \cup SchedPanics : Panic(site)

LEMMA ThreadIdsFact == 0 \in ThreadIds /\ ThreadIds \subseteq Nat
BY ThreadsAssumption DEF ThreadIds

LEMMA BlocksTyped ==
  /\ NotBlocked \in Block
  /\ Sleeping \in Block
  /\ \A id \in MutexIds : BlockMutex(id) \in Block
  /\ \A s \in Sems : BlockSem(s) \in Block
  /\ \A c \in Conds, timed \in BOOLEAN : BlockCond(c, timed) \in Block
  /\ \A t \in ThreadIds : BlockJoin(t) \in Block
  /\ \A f \in Files : BlockFile(f) \in Block
BY DEF NotBlocked, Sleeping, BlockMutex, BlockSem, BlockCond, BlockJoin, BlockFile, Block

LEMMA ThreadInvInit == Init => ThreadInv
<1> SUFFICES ASSUME Init PROVE ThreadInv
  OBVIOUS
<1>1. active \in [ThreadIds -> BOOLEAN] /\ active[0] /\ 0 \in ThreadIds
  <2>1. 0 \in ThreadIds
    BY ThreadIdsFact
  <2> QED BY <2>1, Zenon DEF Init
<1>2. blocked_by \in [ThreadIds -> Block] /\ suspended \in [ThreadIds -> Nat]
      /\ blocked_by[0] = NotBlocked
  BY <1>1, BlocksTyped DEF Init
<1>3. nthreads \in 1 .. MaxThreads /\ current \in Existing /\ Existing = {0}
  BY ThreadsAssumption DEF Init, Existing
<1>a. due = {} /\ phase = "run" /\ panic = "no"
  BY DEF Init
<1>4. TypeThreads
  BY <1>1, <1>2, <1>3, <1>a DEF TypeThreads
<1>5. ContextsInStore /\ RunningThreadSane
  BY <1>1, <1>2, <1>3 DEF Init, ContextsInStore, RunningThreadSane
<1> QED BY <1>4, <1>5 DEF ThreadInv

\* A call that only ends in one of the three ways keeps ThreadInv.
LEMMA CallKeepsThreadInv ==
  ASSUME ThreadInv, CallEnds, UNCHANGED <<threadVars, ctxVars>>
  PROVE  ThreadInv'
<1> USE DEF threadVars, ctxVars, ThreadInv
<1>1. CASE UNCHANGED runVars
  BY <1>1 DEF runVars, TypeThreads, ContextsInStore, RunningThreadSane, Existing
<1>2. ASSUME NEW site \in CallPanics \cup SchedPanics, Panic(site) PROVE ThreadInv'
  BY <1>2 DEF Panic, TypeThreads, ContextsInStore, RunningThreadSane, Existing
<1>3. ASSUME NEW b \in Block, yield_thread(b) PROVE ThreadInv'
  <2>1. CASE IsBlocked(current)
    <3>1. Panic("yield while blocked")
      BY <1>3, <2>1 DEF yield_thread
    <3> QED BY <3>1, <1>2 DEF CallPanics
  <2>2. CASE ~IsBlocked(current)
    BY <1>3, <2>2 DEF yield_thread, TypeThreads, ContextsInStore, RunningThreadSane, Existing
  <2> QED BY <2>1, <2>2
<1> QED BY <1>1, <1>2, <1>3 DEF CallEnds

\* What check_or_register_mutex hands on is the id of a mutex.
LEMMA IdOfTyped ==
  ASSUME TypeMutexes, NEW p \in Mutexes, HasMagic(p)
  PROVE  IdOf(p) \in MutexIds
BY BoundsAssumption DEF TypeMutexes, HasMagic, IdOf, MutexIds, MAGIC_STATIC, NO_MAGIC

LEMMA LockEnds ==
  ASSUME NEW id \in MutexIds, NEW m \in Mutex, lock_mutex(id, m)
  PROVE  CallEnds
<1>1. CASE LockFree(id, m)
  BY <1>1 DEF LockFree, Return, CallEnds
<1>2. CASE LockAgain(id, m)
  <2>1. UNCHANGED runVars \/ Panic("relock of a normal mutex")
    BY <1>2 DEF LockAgain, Return, Mutex
  <2> QED BY <2>1 DEF CallEnds, CallPanics
<1>3. CASE LockWait(id, m)
  BY <1>3, BlocksTyped DEF LockWait, CallEnds
<1> QED BY <1>1, <1>2, <1>3 DEF lock_mutex

LEMMA MutexOfTyped ==
  ASSUME TypeMutexes, NEW p \in Mutexes, HasMagic(p)
  PROVE  MutexOf(p) \in Mutex
BY DEF TypeMutexes, HasMagic, MutexOf, NewMutex, NoMutex, Mutex, MutexIds, MAGIC_STATIC, None

LEMMA MutexCallEnds ==
  ASSUME TypeMutexes, NEW p \in Mutexes, MutexCall(p)
  PROVE  CallEnds /\ UNCHANGED <<threadVars, ctxVars>>
<1>1. ASSUME NEW type_ \in MutexTypes, pthread_mutex_init(p, type_)
      PROVE  CallEnds /\ UNCHANGED <<threadVars, ctxVars>>
  BY <1>1 DEF pthread_mutex_init, Return, CallEnds
<1>2. CASE pthread_mutex_lock(p)
  BY <1>2, IdOfTyped, MutexOfTyped, LockEnds DEF pthread_mutex_lock, check_or_register_mutex
<1>3. CASE pthread_mutex_trylock(p)
  BY <1>3, IdOfTyped, MutexOfTyped, LockEnds DEF pthread_mutex_trylock, check_or_register_mutex
<1>4. CASE pthread_mutex_unlock(p)
  <2>1. UNCHANGED runVars \/ Panic("unlock of an unlocked mutex")
    BY <1>4 DEF pthread_mutex_unlock, unlock_result, Return
  <2> QED BY <1>4, <2>1 DEF CallEnds, CallPanics, pthread_mutex_unlock
<1>5. CASE pthread_mutex_destroy(p)
  BY <1>5 DEF pthread_mutex_destroy, Return, CallEnds
<1> QED BY <1>1, <1>2, <1>3, <1>4, <1>5 DEF MutexCall

LEMMA CondCallEnds ==
  ASSUME NEW c \in Conds, CondCall(c)
  PROVE  CallEnds /\ UNCHANGED <<threadVars, ctxVars>>
<1> USE DEF condFrame
<1>1. CASE pthread_cond_init(c)
  BY <1>1 DEF pthread_cond_init, Return, CallEnds, CallPanics
<1>2. ASSUME NEW p \in Mutexes, NEW timed \in TimedWaits, pthread_cond_wait(c, p, timed)
      PROVE  CallEnds /\ UNCHANGED <<threadVars, ctxVars>>
  <2>1. Panic("cond wait") \/ yield_thread(BlockCond(c, timed))
    BY <1>2 DEF pthread_cond_wait
  <2>2. BlockCond(c, timed) \in Block
    BY KindsAssumption, BlocksTyped
  <2> QED BY <1>2, <2>1, <2>2 DEF CallEnds, CallPanics, pthread_cond_wait
<1>3. CASE pthread_cond_signal(c)
  <2>1. UNCHANGED runVars \/ Panic("cond gone")
    BY <1>3 DEF pthread_cond_signal, Return
  <2> QED BY <1>3, <2>1 DEF pthread_cond_signal, CallEnds, CallPanics
<1>4. CASE pthread_cond_broadcast(c)
  BY <1>4 DEF pthread_cond_broadcast, Return, CallEnds, CallPanics
<1>5. CASE pthread_cond_destroy(c)
  BY <1>5 DEF pthread_cond_destroy, Return, CallEnds, CallPanics
<1> QED BY <1>1, <1>2, <1>3, <1>4, <1>5 DEF CondCall

LEMMA SemCallEnds ==
  ASSUME NEW s \in Sems, SemCall(s)
  PROVE  CallEnds /\ UNCHANGED <<threadVars, ctxVars>>
<1> USE DEF semFrame
<1>1. ASSUME NEW value \in 0 .. MaxSem, sem_init(s, value)
      PROVE  CallEnds /\ UNCHANGED <<threadVars, ctxVars>>
  BY <1>1 DEF sem_init, Return, CallEnds
<1>2. CASE sem_destroy(s)
  BY <1>2 DEF sem_destroy, Return, CallEnds
<1>3. CASE sem_post(s)
  BY <1>3 DEF sem_post, Return, CallEnds, CallPanics
<1>4. ASSUME NEW wait_on_lock \in BOOLEAN, sem_decrement(s, wait_on_lock)
      PROVE  CallEnds /\ UNCHANGED <<threadVars, ctxVars>>
  <2>1. UNCHANGED runVars \/ Panic("no semaphore") \/ yield_thread(BlockSem(s))
    BY <1>4 DEF sem_decrement, Return
  <2>2. BlockSem(s) \in Block
    BY BlocksTyped
  <2> QED BY <1>4, <2>1, <2>2 DEF sem_decrement, CallEnds, CallPanics
<1> QED BY <1>1, <1>2, <1>3, <1>4 DEF SemCall

LEMMA FileCallEnds ==
  ASSUME NEW f \in Files, FileCall(f)
  PROVE  CallEnds /\ UNCHANGED <<threadVars, ctxVars>>
<1> USE DEF fileFrame
<1>1. CASE flockfile(f)
  BY <1>1, BlocksTyped DEF flockfile, LockFile, Return, CallEnds
<1>2. CASE ftrylockfile(f)
  BY <1>2 DEF ftrylockfile, LockFile, Return, CallEnds
<1>3. CASE funlockfile(f)
  BY <1>3 DEF funlockfile, Return, CallEnds, CallPanics
<1>4. CASE stdio_call(f)
  BY <1>4 DEF stdio_call, CallEnds, CallPanics
<1> QED BY <1>1, <1>2, <1>3, <1>4 DEF FileCall

\* Creating, ending, joining, detaching, suspending and resuming threads.
LEMMA ThreadCallKeepsThreadInv ==
  ASSUME ThreadInv, ThreadCall
  PROVE  ThreadInv'
<1> USE DEF threadVars, ctxVars
<1>0. Existing \subseteq ThreadIds /\ current \in ThreadIds
  BY ThreadsAssumption DEF ThreadInv, TypeThreads, Existing, ThreadIds
<1>1. ASSUME NEW detach \in BOOLEAN, pthread_create(detach) PROVE ThreadInv'
  <2> USE <1>1 DEF pthread_create, ThreadInv, Return, runVars
  <2>1. nthreads \in ThreadIds /\ Existing' = Existing \cup {nthreads} /\ nthreads \notin Existing
    BY ThreadsAssumption DEF TypeThreads, Existing, ThreadIds
  <2>2. active' \in [ThreadIds -> BOOLEAN] /\ active'[nthreads]
        /\ \A t \in Existing : active'[t] = active[t]
    BY <2>1, <1>0 DEF TypeThreads
  <2>3. TypeThreads'
    BY <2>1, <2>2, ThreadsAssumption DEF TypeThreads, Existing
  <2>4. ContextsInStore'
    BY <2>1, <2>2, <1>0 DEF ContextsInStore, TypeThreads
  <2>5. RunningThreadSane'
    BY <2>1, <2>2, <1>0 DEF RunningThreadSane, TypeThreads
  <2> QED BY <2>3, <2>4, <2>5
<1>2. CASE thread_exit
  <2>1. CASE current = 0
    <3>1. CallEnds /\ UNCHANGED <<threadVars, ctxVars>>
      BY <1>2, <2>1 DEF thread_exit, CallEnds, CallPanics
    <3> QED BY <3>1, CallKeepsThreadInv
  <2>2. CASE current # 0
    <3> USE <1>2, <2>2 DEF thread_exit, ThreadInv
    <3>1. active' \in [ThreadIds -> BOOLEAN] /\ ~active'[current]
          /\ \A t \in Existing \ {current} : active'[t] = active[t]
      BY <1>0 DEF TypeThreads
    <3>2. TypeThreads'
      BY <3>1 DEF TypeThreads, Existing
    <3>3. ContextsInStore' /\ RunningThreadSane'
      BY <3>1, <1>0 DEF ContextsInStore, RunningThreadSane, Existing
    <3> QED BY <3>2, <3>3
  <2> QED BY <2>1, <2>2
<1>3. CASE sleep
  BY <1>3, BlocksTyped, CallKeepsThreadInv DEF sleep, CallEnds
<1>4. ASSUME NEW t \in Existing, pthread_join(t) PROVE ThreadInv'
  <2>1. CallEnds
    BY <1>4, <1>0, BlocksTyped DEF pthread_join, CallEnds, CallPanics
  <2>2. UNCHANGED <<nthreads, active, detached, ctxVars>>
    BY <1>4 DEF pthread_join
  <2>3. CASE UNCHANGED joined_by
    BY <2>1, <2>2, <2>3, CallKeepsThreadInv
  <2>4. CASE yield_thread(BlockJoin(t))
    <3>1. BlockJoin(t) \in Block
      BY <1>0, BlocksTyped
    <3>2. CASE IsBlocked(current)
      BY <2>2, <2>4, <3>2 DEF yield_thread, Panic, ThreadInv, TypeThreads, CallPanics,
           ContextsInStore, RunningThreadSane, Existing
    <3>3. CASE ~IsBlocked(current)
      BY <2>2, <2>4, <3>1, <3>3 DEF yield_thread, ThreadInv, TypeThreads,
           ContextsInStore, RunningThreadSane, Existing
    <3> QED BY <3>2, <3>3
  <2> QED BY <1>4, <2>3, <2>4 DEF pthread_join
<1>5. ASSUME NEW t \in Existing, pthread_detach(t) PROVE ThreadInv'
  BY <1>5 DEF pthread_detach, Return, runVars, ThreadInv, TypeThreads, ContextsInStore,
     RunningThreadSane, Existing
<1>6. ASSUME NEW t \in Existing, suspend_thread(t) PROVE ThreadInv'
  BY <1>6, <1>0 DEF suspend_thread, ThreadInv, TypeThreads, ContextsInStore,
     RunningThreadSane, Existing
<1>7. ASSUME NEW t \in Existing, resume_thread(t) PROVE ThreadInv'
  <2>1. CASE suspended[t] = 0
    <3>1. CallEnds /\ UNCHANGED <<threadVars, ctxVars>>
      BY <1>7, <2>1 DEF resume_thread, CallEnds, CallPanics
    <3> QED BY <3>1, CallKeepsThreadInv
  <2>2. CASE suspended[t] # 0
    <3>1. suspended' \in [ThreadIds -> Nat]
      BY <1>7, <2>2, <1>0 DEF resume_thread, ThreadInv, TypeThreads
    <3> QED BY <3>1, <1>7, <2>2 DEF resume_thread, ThreadInv, TypeThreads, ContextsInStore,
         RunningThreadSane, Existing
  <2> QED BY <2>1, <2>2
<1> QED BY <1>1, <1>2, <1>3, <1>4, <1>5, <1>6, <1>7 DEF ThreadCall

\* Examining a thread that is not passed over finds a live thread, and comes
\* to one of the listed outcomes.
LEMMA LookOutcome ==
  ASSUME TypeThreads, NEW t \in ThreadIds, Look(t) # "skip"
  PROVE  /\ active[t]
         /\ Look(t) \in {"wake", "timeout"} \cup SchedPanics
<1>1. active[t] /\ ~PassedOver(t)
  BY DEF Look, PassedOver
<1> DEFINE Outcomes == {"skip", "wake", "timeout"} \cup SchedPanics
<1>2. \A id : LookMutex(id) \in Outcomes
  BY DEF LookMutex, Relocks, SchedPanics
<1>3. \A s : LookSem(s) \in Outcomes
  BY DEF LookSem, SchedPanics
<1>4. \A c : LookCond(t, c) \in Outcomes
  BY DEF LookCond, Relocks, SchedPanics
<1>5. blocked_by[t].kind \in {"none", "sleep", "mutex", "sem", "cond", "join", "file"}
  BY DEF TypeThreads, Block
<1>6. Look(t) \in Outcomes
  BY <1>1, <1>2, <1>3, <1>4, <1>5 DEF Look
<1> QED BY <1>1, <1>6

LEMMA SchedulingKeepsThreadInv ==
  ASSUME ThreadInv, Scheduling
  PROVE  ThreadInv'
<1> USE DEF threadVars, ctxVars
<1>0. Existing \subseteq ThreadIds /\ current \in ThreadIds
  BY ThreadsAssumption DEF ThreadInv, TypeThreads, Existing, ThreadIds
<1>1. CASE end_timeslice
  BY <1>1, BlocksTyped, CallKeepsThreadInv DEF end_timeslice, CallEnds
<1>2. CASE no_thread_left
  BY <1>2, CallKeepsThreadInv DEF no_thread_left, CallEnds, SchedPanics
<1>3. ASSUME NEW t \in Existing, deadline_passes(t) PROVE ThreadInv'
  BY <1>3, <1>0 DEF deadline_passes, ThreadInv, TypeThreads, ContextsInStore,
     RunningThreadSane, Existing
<1>4. ASSUME NEW t \in Existing, schedule(t) PROVE ThreadInv'
  <2>0. t \in ThreadIds /\ active[t]
    BY <1>4, <1>0, LookOutcome DEF schedule, FoundFirst, ThreadInv
  <2>1. CASE Look(t) \in {"wake", "timeout"}
    <3> USE <1>4, <2>0, <2>1, <1>0 DEF schedule, ThreadInv, SchedPanics
    <3>1. /\ blocked_by' = [blocked_by EXCEPT ![t] = NotBlocked]
          /\ due' = due \ {t} /\ current' = t /\ phase' = "run"
          /\ switch_thread(t)
          /\ UNCHANGED <<suspended, panic, nthreads, active, stacks>>
      OBVIOUS
    <3>2. TypeThreads'
      BY <3>1, BlocksTyped DEF TypeThreads, Existing
    <3>3. ContextsInStore'
      <4>1. CASE t = current
        BY <3>1, <4>1 DEF ContextsInStore, switch_thread, Existing
      <4>2. CASE t # current
        <5>1. guest_ctx' = (guest_ctx \ {t}) \cup {current}
              /\ host_ctx' = (host_ctx \ {t}) \cup KeptContext
          BY <3>1, <4>2 DEF switch_thread
        <5>2. Existing' = Existing /\ current \in Existing
          BY <3>1 DEF Existing, TypeThreads
        <5> QED BY <3>1, <4>2, <5>1, <5>2 DEF ContextsInStore, KeptContext
      <4> QED BY <4>1, <4>2
    <3>4. RunningThreadSane'
      BY <3>1 DEF RunningThreadSane, TypeThreads, Existing
    <3> QED BY <3>2, <3>3, <3>4
  <2>2. CASE Look(t) \notin {"wake", "timeout"}
    <3>1. Look(t) \in SchedPanics /\ Panic(Look(t))
      BY <1>4, <2>0, <2>2, <1>0, LookOutcome DEF schedule, FoundFirst, ThreadInv
    <3>2. CallEnds /\ UNCHANGED <<threadVars, ctxVars>>
      BY <1>4, <2>2, <3>1 DEF schedule, CallEnds
    <3> QED BY <3>2, CallKeepsThreadInv
  <2> QED BY <2>1, <2>2
<1> QED BY <1>1, <1>2, <1>3, <1>4 DEF Scheduling

-----------------------------------------------------------------------------
(***************************************************************************)
(* MutexInv: the record of a mutex agrees with what the threads were told. *)
(* OwnedSane and HandlesSane are its two halves: ownership, which every    *)
(* lock, unlock and relock changes, and the table of handles, which only   *)
(* registration and destruction change.                                    *)
(***************************************************************************)
OwnedSane ==
  /\ mutexes \in [MutexIds -> Mutex]
  /\ held \in [ThreadIds -> [MutexIds -> Nat]]
  /\ LockOwnership
  /\ \A id \in MutexIds : mutexes[id].owner = None <=> mutexes[id].lock_count = 0
HandlesSane ==
  /\ handle \in [Mutexes -> MutexIds \cup {MAGIC_STATIC, NO_MAGIC}]
  /\ mutex_count \in 0 .. MaxMutexIds
  /\ HandlesLive
  /\ \A id \in MutexIds : id >= mutex_count => mutexes[id] = NoMutex
  /\ \A p \in Mutexes : handle[p] \in MutexIds => handle[p] < mutex_count
  /\ \A p, q \in Mutexes : handle[p] \in MutexIds /\ handle[p] = handle[q] => p = q

LEMMA MutexInvParts ==
  /\ MutexInv <=> OwnedSane /\ HandlesSane
  /\ MutexInv' <=> OwnedSane' /\ HandlesSane'
BY DEF MutexInv, OwnedSane, HandlesSane, TypeMutexes, MutexesSane

LEMMA MutexInvInit == Init => MutexInv
<1> SUFFICES ASSUME Init PROVE OwnedSane /\ HandlesSane
  BY MutexInvParts
<1>1. NoMutex \in Mutex /\ NoMutex.owner = None /\ NoMutex.lock_count = 0
  BY DEF NoMutex, Mutex
<1>2. \A t \in ThreadIds : t # None
  BY ThreadIdsFact DEF None
<1>3. OwnedSane
  BY <1>1, <1>2 DEF Init, OwnedSane, LockOwnership
<1>4. \A p \in Mutexes : handle[p] \notin MutexIds
  <2>1. \A p \in Mutexes : handle[p] \in {MAGIC_STATIC, NO_MAGIC}
    BY DEF Init
  <2>2. MAGIC_STATIC \notin MutexIds /\ NO_MAGIC \notin MutexIds
    BY BoundsAssumption DEF MutexIds, MAGIC_STATIC, NO_MAGIC
  <2> QED BY <2>1, <2>2
<1>5. HandlesSane
  <2>1. handle \in [Mutexes -> {MAGIC_STATIC, NO_MAGIC}] /\ mutex_count = 0
        /\ mutexes = [id \in MutexIds |-> NoMutex]
    BY DEF Init
  <2> QED BY <1>4, <2>1, BoundsAssumption DEF HandlesSane, HandlesLive
<1> QED BY <1>3, <1>5

\* Writing mutex m at id keeps OwnedSane if the locks the threads hold on id
\* become those m records.
LEMMA OwnedStep ==
  ASSUME OwnedSane, NEW id \in MutexIds, NEW m \in Mutex, SetMutex(id, m),
         held' \in [ThreadIds -> [MutexIds -> Nat]],
         \A t \in ThreadIds : \A i \in MutexIds \ {id} : held'[t][i] = held[t][i],
         \A t \in ThreadIds : held'[t][id] = IF m.owner = t THEN m.lock_count ELSE 0,
         m.owner = None <=> m.lock_count = 0
  PROVE  OwnedSane'
<1>1. mutexes' \in [MutexIds -> Mutex] /\ mutexes'[id] = m
      /\ \A i \in MutexIds \ {id} : mutexes'[i] = mutexes[i]
  BY DEF OwnedSane, SetMutex
<1>2. LockOwnership'
  BY <1>1 DEF LockOwnership, OwnedSane
<1> QED BY <1>1, <1>2 DEF OwnedSane

\* Registration keeps HandlesSane if the mutex written is a live one.
LEMMA RegisterStep ==
  ASSUME HandlesSane, mutexes \in [MutexIds -> Mutex], NEW p \in Mutexes,
         check_or_register_mutex(p), NEW m, m.live, SetMutex(IdOf(p), m)
  PROVE  HandlesSane'
<1>1. IdOf(p) \in MutexIds /\ IdOf(p) < mutex_count' /\ mutex_count <= mutex_count'
      /\ mutex_count' \in 0 .. MaxMutexIds
      /\ handle' = [handle EXCEPT ![p] = IdOf(p)]
      /\ (IdOf(p) = handle[p] \/ IdOf(p) = mutex_count)
  BY BoundsAssumption
     DEF HandlesSane, check_or_register_mutex, HasMagic, IdOf, MutexIds, MAGIC_STATIC, NO_MAGIC
<1>2. handle' \in [Mutexes -> MutexIds \cup {MAGIC_STATIC, NO_MAGIC}]
  BY <1>1 DEF HandlesSane
<1>3. mutexes'[IdOf(p)] = m /\ \A i \in MutexIds \ {IdOf(p)} : mutexes'[i] = mutexes[i]
  BY <1>1 DEF SetMutex
<1>4. \A q \in Mutexes : handle'[q] \in MutexIds =>
        handle'[q] < mutex_count' /\ mutexes'[handle'[q]].live
  BY <1>1, <1>2, <1>3 DEF HandlesSane, HandlesLive, MutexIds
<1>5. \A i \in MutexIds : i >= mutex_count' => mutexes'[i] = NoMutex
  BY <1>1, <1>3 DEF HandlesSane, MutexIds
<1>6. \A q, r \in Mutexes : handle'[q] \in MutexIds /\ handle'[q] = handle'[r] => q = r
  BY <1>1 DEF HandlesSane, MutexIds
<1> QED BY <1>1, <1>2, <1>4, <1>5, <1>6 DEF HandlesSane, HandlesLive

\* The mutex behind a handle: live, well typed, and held as it records.
LEMMA MutexBehindHandle ==
  ASSUME OwnedSane, HandlesSane, NEW p \in Mutexes, HasMagic(p)
  PROVE  /\ IdOf(p) \in MutexIds
         /\ MutexOf(p) \in Mutex
         /\ MutexOf(p).live
         /\ MutexOf(p).owner = None <=> MutexOf(p).lock_count = 0
         /\ \A t \in ThreadIds :
              held[t][IdOf(p)] = IF MutexOf(p).owner = t THEN MutexOf(p).lock_count ELSE 0
<1>1. \A t \in ThreadIds : t # None
  BY ThreadIdsFact DEF None
<1>2. CASE handle[p] \in MutexIds
  <2>1. IdOf(p) = handle[p] /\ MutexOf(p) = mutexes[handle[p]]
    BY <1>2 DEF IdOf, MutexOf, MutexIds, MAGIC_STATIC
  <2> QED BY <1>2, <2>1 DEF OwnedSane, HandlesSane, HandlesLive, LockOwnership
<1>3. CASE handle[p] = MAGIC_STATIC /\ mutex_count < MaxMutexIds
  <2>1. IdOf(p) = mutex_count /\ MutexOf(p) = NewMutex("normal") /\ mutex_count \in MutexIds
    BY <1>3, BoundsAssumption DEF IdOf, MutexOf, MutexIds, HandlesSane
  <2>2. mutexes[mutex_count] = NoMutex
    BY <2>1 DEF HandlesSane, MutexIds
  <2>3. NewMutex("normal") \in Mutex /\ NewMutex("normal").owner = None
        /\ NewMutex("normal").lock_count = 0 /\ NewMutex("normal").live
        /\ NoMutex.owner = None
    BY DEF NewMutex, NoMutex, Mutex
  <2>4. \A t \in ThreadIds : held[t][mutex_count] = 0
    BY <1>1, <2>1, <2>2, <2>3 DEF OwnedSane, LockOwnership
  <2> QED BY <1>1, <2>1, <2>3, <2>4
<1> QED BY <1>2, <1>3 DEF HasMagic

\* Telling one thread it holds id n times changes nothing else.
LEMMA HoldFacts ==
  ASSUME held \in [ThreadIds -> [MutexIds -> Nat]],
         NEW t \in ThreadIds, NEW id \in MutexIds, NEW n \in Nat, held' = Hold(t, id, n)
  PROVE  /\ held' \in [ThreadIds -> [MutexIds -> Nat]]
         /\ \A u \in ThreadIds : \A i \in MutexIds \ {id} : held'[u][i] = held[u][i]
         /\ \A u \in ThreadIds : held'[u][id] = IF u = t THEN n ELSE held[u][id]
BY DEF Hold

LEMMA LockKeepsMutexInv ==
  ASSUME OwnedSane, HandlesSane, current \in ThreadIds,
         NEW p \in Mutexes, check_or_register_mutex(p), lock_mutex(IdOf(p), MutexOf(p))
  PROVE  OwnedSane' /\ HandlesSane'
<1> DEFINE id == IdOf(p)
           m == MutexOf(p)
<1>0. HasMagic(p)
  BY DEF check_or_register_mutex
<1>1. /\ id \in MutexIds /\ m \in Mutex /\ m.live
      /\ m.owner = None <=> m.lock_count = 0
      /\ \A t \in ThreadIds : held[t][id] = IF m.owner = t THEN m.lock_count ELSE 0
  BY <1>0, MutexBehindHandle
<1>2. current # None /\ mutexes \in [MutexIds -> Mutex]
      /\ held \in [ThreadIds -> [MutexIds -> Nat]]
  BY ThreadIdsFact DEF None, OwnedSane
<1> HIDE DEF id, m
<1>3. CASE LockFree(id, m)
  <2>1. [m EXCEPT !.owner = current, !.lock_count = 1] \in Mutex
    BY <1>1 DEF Mutex
  <2>2. held[current][id] = 0 /\ \A t \in ThreadIds : held[t][id] = 0
    BY <1>1, <1>3, ThreadIdsFact DEF LockFree, None
  <2>3. held' = Hold(current, id, 1)
    BY <1>3, <2>2 DEF LockFree
  <2>4. OwnedSane'
    <3> DEFINE m2 == [m EXCEPT !.owner = current, !.lock_count = 1]
    <3>1. m2 \in Mutex /\ m2.owner = current /\ m2.lock_count = 1 /\ SetMutex(id, m2)
      BY <1>1, <1>3, <2>1 DEF LockFree, Mutex
    <3>2. held' \in [ThreadIds -> [MutexIds -> Nat]]
          /\ (\A t \in ThreadIds : \A i \in MutexIds \ {id} : held'[t][i] = held[t][i])
          /\ \A t \in ThreadIds : held'[t][id] = IF t = current THEN 1 ELSE 0
      BY <1>1, <1>2, <2>2, <2>3, HoldFacts
    <3> HIDE DEF m2
    <3> QED BY <1>1, <1>2, <3>1, <3>2, OwnedStep
  <2>5. HandlesSane'
    BY <1>1, <1>2, <1>3, RegisterStep DEF LockFree, Mutex, id
  <2> QED BY <2>4, <2>5
<1>4. CASE LockAgain(id, m)
  <2>1. handle[p] \in MutexIds /\ mutexes[id] = m
    BY <1>0, <1>2, <1>4 DEF LockAgain, HasMagic, IdOf, MutexOf, NewMutex, NoMutex, id, m, MutexIds, MAGIC_STATIC
  <2>2. CASE m.type_ = "recursive"
    <3>1. SetMutex(id, [m EXCEPT !.lock_count = m.lock_count + 1])
          /\ held' = Hold(current, id, held[current][id] + 1)
      BY <1>4, <2>2 DEF LockAgain
    <3>2. [m EXCEPT !.lock_count = m.lock_count + 1] \in Mutex
      BY <1>1 DEF Mutex
    <3>3. held[current][id] = m.lock_count /\ m.owner = current /\ m.lock_count \in Nat
      BY <1>1, <1>4 DEF LockAgain, Mutex
    <3>4. OwnedSane'
      <4> DEFINE m2 == [m EXCEPT !.lock_count = m.lock_count + 1]
      <4>1. m2 \in Mutex /\ m2.owner = current /\ m2.lock_count = m.lock_count + 1 /\ SetMutex(id, m2)
        BY <1>1, <3>1, <3>2, <3>3 DEF Mutex
      <4>2. m.lock_count + 1 \in Nat /\ held' = Hold(current, id, m.lock_count + 1)
        BY <3>1, <3>3
      <4>3. held' \in [ThreadIds -> [MutexIds -> Nat]]
            /\ (\A t \in ThreadIds : \A i \in MutexIds \ {id} : held'[t][i] = held[t][i])
            /\ \A t \in ThreadIds : held'[t][id] = IF t = current THEN m.lock_count + 1 ELSE held[t][id]
        BY <1>1, <1>2, <4>2, HoldFacts
      <4>4. \A t \in ThreadIds : held'[t][id] = IF m2.owner = t THEN m2.lock_count ELSE 0
        <5> HIDE DEF m2
        <5> QED BY <1>1, <3>3, <4>1, <4>3
      <4>5. m2.owner = None <=> m2.lock_count = 0
        <5> HIDE DEF m2
        <5> QED BY <1>2, <3>3, <4>1
      <4> HIDE DEF m2
      <4> QED BY <1>1, <4>1, <4>3, <4>4, <4>5, OwnedStep
    <3>5. HandlesSane'
      BY <1>1, <1>2, <3>1, RegisterStep DEF Mutex, id
    <3> QED BY <3>4, <3>5
  <2>3. CASE m.type_ # "recursive"
    <3>1. UNCHANGED <<mutexes, held>>
      BY <1>1, <1>4, <2>3 DEF LockAgain, Mutex
    <3>2. UNCHANGED <<handle, mutex_count>>
      BY <2>1 DEF check_or_register_mutex, IdOf, HandlesSane, MutexIds, MAGIC_STATIC
    <3> QED BY <3>1, <3>2 DEF OwnedSane, HandlesSane, LockOwnership, HandlesLive
  <2> QED BY <2>2, <2>3
<1>5. CASE LockWait(id, m)
  <2>1. SetMutex(id, [m EXCEPT !.waiting_count = m.waiting_count + 1]) /\ held' = held
    BY <1>5 DEF LockWait
  <2>2. [m EXCEPT !.waiting_count = m.waiting_count + 1] \in Mutex
    BY <1>1 DEF Mutex
  <2>3. OwnedSane'
    BY <1>1, <1>2, <2>1, <2>2, OwnedStep DEF Mutex
  <2>4. HandlesSane'
    BY <1>1, <1>2, <2>1, RegisterStep DEF Mutex, id
  <2> QED BY <2>3, <2>4
<1> QED BY <1>3, <1>4, <1>5 DEF lock_mutex, id, m

\* A successful unlock, by the owner or of a normal mutex by anybody.
LEMMA UnlockedFacts ==
  ASSUME OwnedSane, HandlesSane, current \in ThreadIds,
         NEW p \in Mutexes, HasMagic(p), unlock_result(MutexOf(p)) = "ok",
         SetMutex(IdOf(p), Unlocked(MutexOf(p))), held' = Unhold(IdOf(p), MutexOf(p))
  PROVE  OwnedSane' /\ Unlocked(MutexOf(p)).live
<1> DEFINE id == IdOf(p)
           m == MutexOf(p)
<1>1. /\ id \in MutexIds /\ m \in Mutex /\ m.live
      /\ m.owner = None <=> m.lock_count = 0
      /\ \A t \in ThreadIds : held[t][id] = IF m.owner = t THEN m.lock_count ELSE 0
  BY MutexBehindHandle
<1> HIDE DEF id, m
<1>2. m.owner \in ThreadIds /\ m.lock_count \in Nat \ {0}
  BY <1>1 DEF unlock_result, Mutex, m
<1>3. held[m.owner][id] = m.lock_count /\ held' = Hold(m.owner, id, m.lock_count - 1)
      /\ held \in [ThreadIds -> [MutexIds -> Nat]]
  BY <1>1, <1>2 DEF Unhold, OwnedSane, id, m
<1>4. Unlocked(m) \in Mutex /\ Unlocked(m).live
      /\ Unlocked(m).lock_count = m.lock_count - 1
      /\ Unlocked(m).owner = IF m.lock_count = 1 THEN None ELSE m.owner
  <2>1. CASE m.lock_count = 1
    <3>1. Unlocked(m) = [m EXCEPT !.owner = None, !.lock_count = 0]
      BY <2>1 DEF Unlocked
    <3>2. m.lock_count - 1 = 0
      BY <2>1
    <3>3. Unlocked(m) \in Mutex
      <4>1. None \in ThreadIds \cup {None} /\ 0 \in Nat
        OBVIOUS
      <4>2. [m EXCEPT !.owner = None, !.lock_count = 0] \in Mutex
        BY <1>1, <4>1 DEF Mutex
      <4> QED BY <3>1, <4>2
    <3>4. Unlocked(m).live /\ Unlocked(m).owner = None /\ Unlocked(m).lock_count = 0
      BY <1>1, <3>1 DEF Mutex
    <3> QED BY <2>1, <3>2, <3>3, <3>4
  <2>2. CASE m.lock_count # 1
    <3>1. Unlocked(m) = [m EXCEPT !.lock_count = m.lock_count - 1]
      BY <2>2 DEF Unlocked
    <3>2. m.lock_count - 1 \in Nat
      BY <1>2
    <3> QED BY <1>1, <2>2, <3>1, <3>2 DEF Mutex
  <2> QED BY <2>1, <2>2
<1>5. \A t \in ThreadIds : t # None
  BY ThreadIdsFact DEF None
<1>6. OwnedSane'
  <2>1. \A t \in ThreadIds :
          held'[t][id] = IF Unlocked(m).owner = t THEN Unlocked(m).lock_count ELSE 0
    BY <1>1, <1>2, <1>3, <1>4, <1>5, HoldFacts
  <2>2. held' \in [ThreadIds -> [MutexIds -> Nat]]
        /\ \A t \in ThreadIds : \A i \in MutexIds \ {id} : held'[t][i] = held[t][i]
    BY <1>1, <1>2, <1>3, HoldFacts
  <2>3. SetMutex(id, Unlocked(m))
    BY DEF id, m
  <2>4. Unlocked(m).owner = None <=> Unlocked(m).lock_count = 0
    BY <1>2, <1>4, <1>5
  <2> HIDE DEF m
  <2> QED BY <1>1, <1>4, <2>1, <2>2, <2>3, <2>4, OwnedStep
<1> QED BY <1>4, <1>6 DEF m

LEMMA MutexCallKeepsMutexInv ==
  ASSUME MutexInv, current \in ThreadIds, NEW p \in Mutexes, MutexCall(p)
  PROVE  MutexInv'
<1> SUFFICES OwnedSane' /\ HandlesSane'
  BY MutexInvParts
<1>0. OwnedSane /\ HandlesSane
  BY MutexInvParts
<1>1. ASSUME NEW type_ \in MutexTypes, pthread_mutex_init(p, type_)
      PROVE  OwnedSane' /\ HandlesSane'
  <2>1. mutex_count \in MutexIds /\ mutexes[mutex_count] = NoMutex
    BY <1>0, <1>1, BoundsAssumption DEF pthread_mutex_init, HandlesSane, MutexIds
  <2>2. NewMutex(type_) \in Mutex /\ NewMutex(type_).owner = None
        /\ NewMutex(type_).lock_count = 0 /\ NewMutex(type_).live
    BY KindsAssumption DEF NewMutex, NoMutex, Mutex
  <2>3. \A t \in ThreadIds : held[t][mutex_count] = 0 /\ t # None
    BY <1>0, <2>1, ThreadIdsFact DEF OwnedSane, LockOwnership, NoMutex, None
  <2>4. SetMutex(mutex_count, NewMutex(type_)) /\ held' = held
        /\ handle' = [handle EXCEPT ![p] = mutex_count] /\ mutex_count' = mutex_count + 1
        /\ mutex_count < MaxMutexIds
    BY <1>1 DEF pthread_mutex_init
  <2>5. OwnedSane'
    BY <1>0, <2>1, <2>2, <2>3, <2>4, OwnedStep DEF OwnedSane
  <2>6. HandlesSane'
    <3>1. mutexes'[mutex_count].live
          /\ \A i \in MutexIds \ {mutex_count} : mutexes'[i] = mutexes[i]
      BY <1>0, <2>1, <2>2, <2>4 DEF SetMutex, OwnedSane
    <3>2. handle' \in [Mutexes -> MutexIds \cup {MAGIC_STATIC, NO_MAGIC}]
          /\ mutex_count' \in 0 .. MaxMutexIds
      BY <1>0, <2>1, <2>4, BoundsAssumption DEF HandlesSane
    <3>3. \A q \in Mutexes : handle'[q] \in MutexIds =>
            handle'[q] < mutex_count' /\ mutexes'[handle'[q]].live
      BY <1>0, <2>1, <2>4, <3>1 DEF HandlesSane, HandlesLive, MutexIds
    <3>4. \A i \in MutexIds : i >= mutex_count' => mutexes'[i] = NoMutex
      BY <1>0, <2>1, <2>4, <3>1 DEF HandlesSane, MutexIds
    <3>5. \A q, r \in Mutexes : handle'[q] \in MutexIds /\ handle'[q] = handle'[r] => q = r
      BY <1>0, <2>1, <2>4 DEF HandlesSane, MutexIds
    <3> QED BY <3>2, <3>3, <3>4, <3>5 DEF HandlesSane, HandlesLive
  <2> QED BY <2>5, <2>6
<1>2. CASE pthread_mutex_lock(p)
  BY <1>0, <1>2, LockKeepsMutexInv DEF pthread_mutex_lock
<1>3. CASE pthread_mutex_trylock(p)
  BY <1>0, <1>3, LockKeepsMutexInv DEF pthread_mutex_trylock
<1>4. CASE pthread_mutex_unlock(p)
  <2>0. check_or_register_mutex(p) /\ HasMagic(p)
    BY <1>4 DEF pthread_mutex_unlock, check_or_register_mutex
  <2>1. mutexes \in [MutexIds -> Mutex]
    BY <1>0 DEF OwnedSane
  <2>2. CASE unlock_result(MutexOf(p)) = "ok"
    <3>1. SetMutex(IdOf(p), Unlocked(MutexOf(p))) /\ held' = Unhold(IdOf(p), MutexOf(p))
      BY <1>4, <2>2 DEF pthread_mutex_unlock
    <3>2. OwnedSane' /\ Unlocked(MutexOf(p)).live
      BY <1>0, <2>0, <2>2, <3>1, UnlockedFacts
    <3>3. HandlesSane'
      BY <1>0, <2>0, <2>1, <3>1, <3>2, RegisterStep
    <3> QED BY <3>2, <3>3
  <2>3. CASE unlock_result(MutexOf(p)) = "panic"
    <3>1. SetMutex(IdOf(p), MutexOf(p)) /\ held' = held
      BY <1>4, <2>3 DEF pthread_mutex_unlock
    <3>2. OwnedSane'
      BY <1>0, <2>0, <3>1, MutexBehindHandle, OwnedStep DEF OwnedSane
    <3>3. HandlesSane'
      BY <1>0, <2>0, <2>1, <3>1, MutexBehindHandle, RegisterStep
    <3> QED BY <3>2, <3>3
  <2>4. CASE unlock_result(MutexOf(p)) = "EPERM"
    <3>1. UNCHANGED <<mutexes, held>>
      BY <1>4, <2>4 DEF pthread_mutex_unlock
    <3>2. handle[p] # MAGIC_STATIC
      BY <2>4 DEF MutexOf, unlock_result, NewMutex, NoMutex
    <3>3. UNCHANGED <<handle, mutex_count>>
      BY <1>0, <2>0, <3>2 DEF check_or_register_mutex, IdOf, HandlesSane
    <3> QED BY <1>0, <3>1, <3>3 DEF OwnedSane, HandlesSane, LockOwnership, HandlesLive
  <2> QED BY <2>2, <2>3, <2>4 DEF unlock_result
<1>5. CASE pthread_mutex_destroy(p)
  <2>0. handle[p] \in MutexIds /\ handle' = [handle EXCEPT ![p] = NO_MAGIC]
        /\ UNCHANGED <<mutex_count, held>>
    BY <1>5 DEF pthread_mutex_destroy, ErasedHandle
  <2>1. NO_MAGIC \notin MutexIds
    BY DEF NO_MAGIC, MutexIds
  <2>2. CASE DestroyBusy(mutexes[handle[p]])
    <3>1. UNCHANGED mutexes
      BY <1>5, <2>2 DEF pthread_mutex_destroy
    <3>2. OwnedSane'
      BY <1>0, <2>0, <3>1 DEF OwnedSane, LockOwnership
    <3>3. HandlesSane'
      BY <1>0, <2>0, <2>1, <3>1 DEF HandlesSane, HandlesLive
    <3> QED BY <3>2, <3>3
  <2>3. CASE ~DestroyBusy(mutexes[handle[p]])
    <3>1. SetMutex(handle[p], NoMutex) /\ mutexes[handle[p]].owner = None
      BY <1>5, <2>3 DEF pthread_mutex_destroy, DestroyBusy
    <3>2. NoMutex \in Mutex /\ NoMutex.owner = None /\ NoMutex.lock_count = 0
      BY DEF NoMutex, Mutex
    <3>3. \A t \in ThreadIds : held[t][handle[p]] = 0 /\ t # None
      BY <1>0, <2>0, <3>1, ThreadIdsFact DEF OwnedSane, LockOwnership, None
    <3>4. OwnedSane'
      BY <1>0, <2>0, <3>1, <3>2, <3>3, OwnedStep DEF OwnedSane
    <3>5. mutexes' = [mutexes EXCEPT ![handle[p]] = NoMutex]
          /\ \A q \in Mutexes \ {p} : handle'[q] = handle[q]
                /\ (handle[q] \in MutexIds => handle[q] # handle[p])
      BY <1>0, <2>0, <3>1 DEF SetMutex, HandlesSane
    <3>6. HandlesSane'
      BY <1>0, <2>0, <2>1, <3>5 DEF HandlesSane, HandlesLive, OwnedSane
    <3> QED BY <3>4, <3>6
  <2> QED BY <2>2, <2>3
<1> QED BY <1>1, <1>2, <1>3, <1>4, <1>5 DEF MutexCall

\* A condition wait unlocks the mutex and keeps the invariant; the other calls
\* leave mutexes alone.
LEMMA CondCallKeepsMutexInv ==
  ASSUME MutexInv, current \in ThreadIds, NEW c \in Conds, CondCall(c)
  PROVE  MutexInv'
<1>0. OwnedSane /\ HandlesSane
  BY MutexInvParts
<1>1. ASSUME UNCHANGED <<mutexVars, held>> PROVE MutexInv'
  BY <1>1 DEF mutexVars, MutexInv, TypeMutexes, LockOwnership, MutexesSane, HandlesLive
<1>2. ASSUME NEW p \in Mutexes, NEW timed \in TimedWaits, pthread_cond_wait(c, p, timed)
      PROVE  MutexInv'
  <2>1. CASE WaitRefused(c, p)
    BY <1>1, <1>2, <2>1 DEF pthread_cond_wait
  <2>2. CASE ~WaitRefused(c, p)
    <3>1. SetMutex(IdOf(p), Unlocked(MutexOf(p))) /\ held' = Unhold(IdOf(p), MutexOf(p))
          /\ UNCHANGED <<handle, mutex_count>>
      BY <1>2, <2>2 DEF pthread_cond_wait
    <3>2. unlock_result(MutexOf(p)) = "ok" /\ handle[p] # NO_MAGIC
      BY <2>2 DEF WaitRefused
    <3>3. handle[p] \in MutexIds
      BY <1>0, <3>2 DEF MutexOf, unlock_result, NewMutex, NoMutex, HandlesSane
    <3>4. HasMagic(p) /\ IdOf(p) = handle[p]
      BY <3>3 DEF HasMagic, IdOf, MutexIds, MAGIC_STATIC
    <3>5. OwnedSane' /\ Unlocked(MutexOf(p)).live
      BY <1>0, <3>1, <3>2, <3>4, UnlockedFacts
    <3>6. check_or_register_mutex(p)
      BY <1>0, <3>1, <3>3, <3>4 DEF check_or_register_mutex, HandlesSane, MutexIds, MAGIC_STATIC
    <3>7. HandlesSane'
      BY <1>0, <3>1, <3>5, <3>6, RegisterStep DEF OwnedSane
    <3> QED BY <3>5, <3>7, MutexInvParts
  <2> QED BY <2>1, <2>2
<1>3. CASE pthread_cond_init(c)
  BY <1>1, <1>3 DEF pthread_cond_init
<1>4. CASE pthread_cond_signal(c)
  BY <1>1, <1>4 DEF pthread_cond_signal
<1>5. CASE pthread_cond_broadcast(c)
  BY <1>1, <1>5 DEF pthread_cond_broadcast
<1>6. CASE pthread_cond_destroy(c)
  BY <1>1, <1>6 DEF pthread_cond_destroy
<1> QED BY <1>2, <1>3, <1>4, <1>5, <1>6 DEF CondCall

\* The scheduler relocks a mutex only when nobody holds it, and for the
\* thread it returns.
LEMMA ScheduleKeepsMutexInv ==
  ASSUME MutexInv, TypeThreads, NEW t \in ThreadIds, schedule(t)
  PROVE  MutexInv'
<1>0. OwnedSane /\ HandlesSane
  BY MutexInvParts
<1>a. \A u \in ThreadIds : u # None
  BY ThreadIdsFact DEF None
<1>1. ASSUME UNCHANGED <<mutexVars, held>> PROVE MutexInv'
  BY <1>1 DEF mutexVars, MutexInv, TypeMutexes, LockOwnership, MutexesSane, HandlesLive
<1>2. ASSUME NEW id \in MutexIds, mutexes[id].owner = None, mutexes[id].live,
             relock_unblocked_mutex_for_thread(t, id), UNCHANGED <<handle, mutex_count>>
      PROVE  MutexInv'
  <2> DEFINE m == mutexes[id]
             m2 == Relocked(t, m)
  <2>1. m \in Mutex /\ (\A u \in ThreadIds : held[u][id] = 0)
        /\ held \in [ThreadIds -> [MutexIds -> Nat]]
    BY <1>0, <1>2, <1>a DEF OwnedSane, LockOwnership
  <2>2. m2 \in Mutex /\ m2.owner = t /\ m2.lock_count = 1 /\ m2.live
    <3>1. (IF m.waiting_count > 0 THEN m.waiting_count - 1 ELSE m.waiting_count) \in Nat
      BY <2>1 DEF Mutex
    <3> QED BY <1>2, <2>1, <3>1 DEF Relocked, Mutex
  <2>3. SetMutex(id, m2) /\ held' = Hold(t, id, 1)
    BY <1>2, <2>1 DEF relock_unblocked_mutex_for_thread
  <2>4. held' \in [ThreadIds -> [MutexIds -> Nat]]
        /\ (\A u \in ThreadIds : \A i \in MutexIds \ {id} : held'[u][i] = held[u][i])
        /\ \A u \in ThreadIds : held'[u][id] = IF u = t THEN 1 ELSE 0
    BY <2>1, <2>3, HoldFacts
  <2> HIDE DEF m2
  <2>5. OwnedSane'
    BY <1>0, <1>2, <1>a, <2>2, <2>3, <2>4, OwnedStep
  <2>6. mutexes' = [mutexes EXCEPT ![id] = m2] /\ m2.live /\ id < mutex_count
    <3>1. ~(id >= mutex_count)
      BY <1>0, <1>2 DEF HandlesSane, NoMutex
    <3> QED BY <1>0, <2>2, <2>3, <3>1 DEF SetMutex, HandlesSane, MutexIds
  <2>7. HandlesSane'
    BY <1>0, <1>2, <2>6 DEF HandlesSane, HandlesLive, OwnedSane, MutexIds
  <2> QED BY <2>5, <2>7, MutexInvParts
<1>3. ASSUME NEW id, id \notin MutexIds, relock_unblocked_mutex_for_thread(t, id),
             UNCHANGED <<handle, mutex_count>>
      PROVE  MutexInv'
  <2>1. mutexes' = mutexes
    BY <1>0, <1>3 DEF relock_unblocked_mutex_for_thread, SetMutex, OwnedSane
  <2>2. held[t] \in [MutexIds -> Nat]
    BY <1>0 DEF OwnedSane
  <2>3. [held[t] EXCEPT ![id] = held[t][id] + 1] = held[t]
    BY <1>3, <2>2
  <2>4. held' = held
    BY <1>0, <1>3, <2>3 DEF relock_unblocked_mutex_for_thread, Hold, OwnedSane
  <2> QED BY <1>1, <1>3, <2>1, <2>4 DEF mutexVars
<1>4. CASE Look(t) \in {"wake", "timeout"}
  <2> DEFINE b == blocked_by[t]
  <2>0. Fulfil(t) /\ ~PassedOver(t)
    BY <1>4 DEF schedule, Look, SchedPanics
  <2>1. UNCHANGED <<handle, mutex_count>>
    BY <2>0 DEF Fulfil
  <2>2. CASE b.kind = "mutex"
    <3>1. relock_unblocked_mutex_for_thread(t, b.on)
      BY <2>0, <2>2 DEF Fulfil
    <3>2. LookMutex(b.on) = Look(t)
      BY <2>0, <2>2 DEF Look
    <3>3. mutexes[b.on].owner = None /\ mutexes[b.on].live
      BY <1>4, <3>2 DEF LookMutex, mutex_is_locked, Relocks
    <3> QED BY <1>2, <1>3, <2>1, <3>1, <3>3
  <2>3. CASE b.kind = "cond"
    <3> DEFINE id == conds[b.obj].curr_mutex
    <3>1. relock_unblocked_mutex_for_thread(t, id)
      BY <2>0, <2>3 DEF Fulfil
    <3>2. LookCond(t, b.obj) = Look(t)
      BY <2>0, <2>3 DEF Look
    <3>3. mutexes[id].owner = None /\ mutexes[id].live
      BY <1>4, <3>2 DEF LookCond, mutex_is_locked, Relocks
    <3> QED BY <1>2, <1>3, <2>1, <3>1, <3>3
  <2>4. CASE b.kind \notin {"mutex", "cond"}
    <3>1. UNCHANGED <<mutexes, held>>
      BY <2>0, <2>4 DEF Fulfil
    <3> QED BY <1>1, <2>1, <3>1 DEF mutexVars
  <2> QED BY <2>2, <2>3, <2>4
<1>5. CASE Look(t) \notin {"wake", "timeout"}
  <2>1. UNCHANGED <<mutexVars, held>>
    BY <1>5 DEF schedule, syncVars
  <2> QED BY <1>1, <2>1
<1> QED BY <1>4, <1>5

\* The combined invariant is inductive.
LEMMA InvariantStep ==
  ASSUME ThreadInv, MutexInv, [Next]_vars
  PROVE  ThreadInv' /\ MutexInv'
<1>0. TypeThreads /\ TypeMutexes /\ current \in ThreadIds /\ Existing \subseteq ThreadIds
  BY ThreadsAssumption DEF ThreadInv, MutexInv, TypeThreads, Existing, ThreadIds
<1>1. ASSUME UNCHANGED <<mutexVars, held>> PROVE MutexInv'
  BY <1>1 DEF mutexVars, MutexInv, TypeMutexes, LockOwnership, MutexesSane, HandlesLive
<1>2. ASSUME NEW p \in Mutexes, MutexCall(p) PROVE ThreadInv' /\ MutexInv'
  BY <1>0, <1>2, MutexCallEnds, CallKeepsThreadInv, MutexCallKeepsMutexInv
<1>3. ASSUME NEW c \in Conds, CondCall(c) PROVE ThreadInv' /\ MutexInv'
  BY <1>0, <1>3, CondCallEnds, CallKeepsThreadInv, CondCallKeepsMutexInv
<1>4. ASSUME NEW s \in Sems, SemCall(s) PROVE ThreadInv' /\ MutexInv'
  <2>1. UNCHANGED <<mutexVars, held>>
    BY <1>4 DEF SemCall, sem_init, sem_destroy, sem_post, sem_decrement, semFrame
  <2> QED BY <1>1, <1>4, <2>1, SemCallEnds, CallKeepsThreadInv
<1>5. ASSUME NEW f \in Files, FileCall(f) PROVE ThreadInv' /\ MutexInv'
  <2>1. UNCHANGED <<mutexVars, held>>
    BY <1>5 DEF FileCall, flockfile, ftrylockfile, funlockfile, stdio_call, fileFrame
  <2> QED BY <1>1, <1>5, <2>1, FileCallEnds, CallKeepsThreadInv
<1>6. CASE ThreadCall
  <2>1. UNCHANGED <<mutexVars, held>>
    BY <1>6 DEF ThreadCall, pthread_create, thread_exit, sleep, pthread_join, pthread_detach,
         suspend_thread, resume_thread, syncVars
  <2> QED BY <1>1, <1>6, <2>1, ThreadCallKeepsThreadInv
<1>7. CASE Scheduling
  <2>0. ThreadInv'
    BY <1>7, SchedulingKeepsThreadInv
  <2>1. ASSUME NEW t \in Existing, schedule(t) PROVE MutexInv'
    BY <1>0, <2>1, ScheduleKeepsMutexInv
  <2>2. CASE end_timeslice \/ no_thread_left \/ \E t \in Existing : deadline_passes(t)
    <3>1. UNCHANGED <<mutexVars, held>>
      BY <2>2 DEF end_timeslice, no_thread_left, deadline_passes, syncVars
    <3> QED BY <1>1, <2>0, <3>1
  <2>3. MutexInv'
    BY <1>7, <2>1, <2>2 DEF Scheduling
  <2> QED BY <2>0, <2>3
<1>8. CASE UNCHANGED vars
  <2>1. UNCHANGED <<mutexVars, held>> /\ UNCHANGED runVars /\ UNCHANGED <<threadVars, ctxVars>>
    BY <1>8 DEF vars, syncVars
  <2> QED BY <1>1, <2>1, CallKeepsThreadInv DEF CallEnds
<1> QED BY <1>2, <1>3, <1>4, <1>5, <1>6, <1>7, <1>8 DEF Next, ended

\* Both inductive invariants, for any guest program.
THEOREM Invariance == Spec => [](ThreadInv /\ MutexInv)
<1>1. Init => ThreadInv /\ MutexInv
  BY ThreadInvInit, MutexInvInit
<1>2. ThreadInv /\ MutexInv /\ [Next]_vars => (ThreadInv /\ MutexInv)'
  BY InvariantStep
<1> QED BY <1>1, <1>2, PTL DEF Spec

\* The scheduler: only unfinished threads run, and switch_thread always finds
\* the contexts it takes ("There should always be (threads.len() - 1)
\* contexts in existence").
THEOREM SchedulerCorrect == Spec => []ThreadInv
BY Invariance, PTL

\* Mutual exclusion of guest mutexes, for every program: however threads
\* lock, try, wait, time out, are suspended or exit, no two hold one mutex.
THEOREM MutexExcludes == Spec => []MutualExclusion
<1>1. MutexInv => MutualExclusion
  <2> SUFFICES ASSUME MutexInv, NEW id \in MutexIds, NEW t \in ThreadIds, NEW u \in ThreadIds,
                      held[t][id] > 0, held[u][id] > 0
               PROVE  t = u
    BY DEF MutualExclusion
  <2> QED BY DEF MutexInv, LockOwnership
<1> QED BY <1>1, Invariance, PTL

\* What threads were told about locks is what mutexes record, and a handle
\* with a magic number never dangles.
THEOREM MutexRecordsTrue == Spec => [](LockOwnership /\ HandlesLive)
<1>1. MutexInv => LockOwnership /\ HandlesLive
  BY DEF MutexInv
<1> QED BY <1>1, Invariance, PTL

-----------------------------------------------------------------------------
(***************************************************************************)
(* The objects threads wait for: the types of condition variables,         *)
(* semaphores and FILEs, the owner of a FILE (FileLockSane), and the       *)
(* queues of condition variables (CondInv).  A call blocks nobody but the  *)
(* current thread, which was not blocked before; BlocksBut says so and     *)
(* which kinds of block the call does not use.                             *)
(***************************************************************************)
BlocksBut(kinds) ==
  \/ UNCHANGED blocked_by
  \/ /\ blocked_by[current] = NotBlocked
     /\ \E b \in Block : b.kind \notin kinds /\ blocked_by' = [blocked_by EXCEPT ![current] = b]

LEMMA YieldBlocks ==
  ASSUME NEW b \in Block, NEW kinds, b.kind \notin kinds, yield_thread(b)
  PROVE  BlocksBut(kinds)
BY DEF yield_thread, BlocksBut, IsBlocked, Panic

\* The kind of each block.
LEMMA BlockKinds ==
  /\ NotBlocked.kind = "none" /\ Sleeping.kind = "sleep"
  /\ \A id : BlockMutex(id).kind = "mutex"
  /\ \A s : BlockSem(s).kind = "sem"
  /\ \A c, timed : /\ BlockCond(c, timed).kind = "cond"
                   /\ BlockCond(c, timed).obj = c
  /\ \A t : BlockJoin(t).kind = "join"
  /\ \A f : BlockFile(f).kind = "file" /\ BlockFile(f).obj = f
BY DEF NotBlocked, Sleeping, BlockMutex, BlockSem, BlockCond, BlockJoin, BlockFile

LEMMA LockBlocks ==
  ASSUME NEW id \in MutexIds, NEW m \in Mutex, lock_mutex(id, m)
  PROVE  BlocksBut({"cond", "file"})
<1>1. CASE LockFree(id, m)
  BY <1>1 DEF LockFree, Return, runVars, BlocksBut
<1>2. CASE LockAgain(id, m)
  BY <1>2 DEF LockAgain, Return, Panic, runVars, BlocksBut, Mutex
<1>3. CASE LockWait(id, m)
  BY <1>3, BlocksTyped, BlockKinds, YieldBlocks DEF LockWait
<1> QED BY <1>1, <1>2, <1>3 DEF lock_mutex

LEMMA MutexCallBlocks ==
  ASSUME TypeMutexes, NEW p \in Mutexes, MutexCall(p)
  PROVE  BlocksBut({"cond", "file"}) /\ UNCHANGED <<threadVars, conds, sems, files>>
<1>1. ASSUME NEW type_ \in MutexTypes, pthread_mutex_init(p, type_)
      PROVE  BlocksBut({"cond", "file"}) /\ UNCHANGED <<threadVars, conds, sems, files>>
  BY <1>1 DEF pthread_mutex_init, Return, runVars, BlocksBut
<1>2. CASE pthread_mutex_lock(p)
  BY <1>2, IdOfTyped, MutexOfTyped, LockBlocks DEF pthread_mutex_lock, check_or_register_mutex
<1>3. CASE pthread_mutex_trylock(p)
  BY <1>3, IdOfTyped, MutexOfTyped, LockBlocks DEF pthread_mutex_trylock, check_or_register_mutex
<1>4. CASE pthread_mutex_unlock(p)
  <2>1. UNCHANGED blocked_by
    BY <1>4 DEF pthread_mutex_unlock, unlock_result, Return, Panic, runVars
  <2> QED BY <1>4, <2>1 DEF BlocksBut, pthread_mutex_unlock
<1>5. CASE pthread_mutex_destroy(p)
  BY <1>5 DEF pthread_mutex_destroy, Return, runVars, BlocksBut
<1> QED BY <1>1, <1>2, <1>3, <1>4, <1>5 DEF MutexCall

LEMMA SemCallBlocks ==
  ASSUME NEW s \in Sems, SemCall(s)
  PROVE  BlocksBut({"cond", "file"}) /\ UNCHANGED <<threadVars, conds, files>>
<1> USE DEF semFrame
<1>1. ASSUME NEW value \in 0 .. MaxSem, sem_init(s, value)
      PROVE  BlocksBut({"cond", "file"}) /\ UNCHANGED <<threadVars, conds, files>>
  BY <1>1 DEF sem_init, Return, runVars, BlocksBut
<1>2. CASE sem_destroy(s)
  BY <1>2 DEF sem_destroy, Return, runVars, BlocksBut
<1>3. CASE sem_post(s)
  BY <1>3 DEF sem_post, Return, Panic, runVars, BlocksBut
<1>4. ASSUME NEW wait_on_lock \in BOOLEAN, sem_decrement(s, wait_on_lock)
      PROVE  BlocksBut({"cond", "file"}) /\ UNCHANGED <<threadVars, conds, files>>
  <2>1. UNCHANGED blocked_by \/ yield_thread(BlockSem(s))
    BY <1>4 DEF sem_decrement, Return, Panic, runVars
  <2>2. BlocksBut({"cond", "file"})
    BY <2>1, BlocksTyped, BlockKinds, YieldBlocks DEF BlocksBut
  <2> QED BY <1>4, <2>2 DEF sem_decrement
<1> QED BY <1>1, <1>2, <1>3, <1>4 DEF SemCall

LEMMA ThreadCallBlocks ==
  ASSUME ThreadInv, ThreadCall
  PROVE  BlocksBut({"cond", "file"}) /\ UNCHANGED <<conds, sems, files>>
<1> USE DEF syncVars
<1>0. Existing \subseteq ThreadIds
  BY ThreadsAssumption DEF ThreadInv, TypeThreads, Existing, ThreadIds
<1>1. UNCHANGED <<conds, sems, files>>
  BY DEF ThreadCall, pthread_create, thread_exit, sleep, pthread_join, pthread_detach,
     suspend_thread, resume_thread
<1>2. CASE sleep
  BY <1>1, <1>2, BlocksTyped, BlockKinds, YieldBlocks DEF sleep
<1>3. ASSUME NEW t \in Existing, pthread_join(t) PROVE BlocksBut({"cond", "file"})
  <2>1. UNCHANGED blocked_by \/ yield_thread(BlockJoin(t))
    BY <1>3 DEF pthread_join, Panic
  <2> QED BY <1>0, <2>1, BlocksTyped, BlockKinds, YieldBlocks DEF BlocksBut
<1>4. CASE (\E detach \in BOOLEAN : pthread_create(detach)) \/ thread_exit
  BY <1>1, <1>4 DEF pthread_create, thread_exit, Return, Panic, runVars, BlocksBut
<1>5. ASSUME NEW t \in Existing, pthread_detach(t) \/ suspend_thread(t) \/ resume_thread(t)
      PROVE  BlocksBut({"cond", "file"})
  BY <1>5 DEF pthread_detach, suspend_thread, resume_thread, Return, Panic, runVars, BlocksBut
<1> QED BY <1>1, <1>2, <1>3, <1>4, <1>5 DEF ThreadCall

\* The lock of a FILE: its type, and FileLockSane.
FilesInv ==
  /\ files \in [Files -> [owner : ThreadIds \cup {None}, lock_count : Nat]]
  /\ FileLockSane

\* A step that touches no FILE and blocks nobody on one.
LEMMA OtherKeepsFilesInv ==
  ASSUME FilesInv, TypeThreads, BlocksBut({"cond", "file"}) \/ BlocksBut({"file"}),
         UNCHANGED files
  PROVE  FilesInv'
<1>1. current \in ThreadIds
  BY ThreadsAssumption DEF TypeThreads, Existing, ThreadIds
<1>2. \A t \in ThreadIds : blocked_by'[t].kind = "file" => blocked_by'[t] = blocked_by[t]
  BY <1>1 DEF BlocksBut, TypeThreads
<1> QED BY <1>2 DEF FilesInv, FileLockSane

LEMMA FileCallKeepsFilesInv ==
  ASSUME FilesInv, ThreadInv, NEW f \in Files, FileCall(f)
  PROVE  FilesInv'
<1>0. current \in ThreadIds /\ current # None
  BY ThreadsAssumption DEF ThreadInv, TypeThreads, Existing, ThreadIds, None
<1>1. files[f] \in [owner : ThreadIds \cup {None}, lock_count : Nat]
      /\ (files[f].owner = None <=> files[f].lock_count = 0)
  BY DEF FilesInv, FileLockSane
<1>2. ASSUME NEW n \in Nat, NEW o \in {None, current}, o = None <=> n = 0,
             files' = [files EXCEPT ![f] = [owner |-> o, lock_count |-> n]],
             UNCHANGED blocked_by, blocked_by[current] = NotBlocked
      PROVE  FilesInv'
  <2>1. files' \in [Files -> [owner : ThreadIds \cup {None}, lock_count : Nat]]
    BY <1>0, <1>2 DEF FilesInv
  <2>2. files'[f].owner = o /\ files'[f].lock_count = n
        /\ \A g \in Files \ {f} : files'[g] = files[g]
    BY <1>2 DEF FilesInv
  <2>3. \A t \in ThreadIds : blocked_by[t].kind = "file" => t # o
    BY <1>0, <1>2, ThreadIdsFact, BlockKinds DEF None
  <2>4. FileLockSane'
    BY <1>2, <2>2, <2>3 DEF FilesInv, FileLockSane
  <2> QED BY <2>1, <2>4 DEF FilesInv
<1>3. ASSUME UNCHANGED <<files, blocked_by>> PROVE FilesInv'
  BY <1>3 DEF FilesInv, FileLockSane
<1>4. blocked_by[current] = NotBlocked
  BY DEF ThreadInv, RunningThreadSane, FileCall, flockfile, ftrylockfile, funlockfile,
     stdio_call, Running
<1>5. ASSUME LockFile(f) PROVE FilesInv'
  <2>1. files[f].lock_count + 1 \in Nat /\ files[f].lock_count + 1 # 0
    BY <1>1
  <2>2. files' = [files EXCEPT ![f] = [owner |-> current, lock_count |-> files[f].lock_count + 1]]
        /\ UNCHANGED blocked_by
    BY <1>5 DEF LockFile, Return, runVars
  <2> QED BY <1>0, <1>2, <1>4, <2>1, <2>2
<1>6. ASSUME yield_thread(BlockFile(f)), UNCHANGED files, files[f].owner # current PROVE FilesInv'
  <2>1. CASE IsBlocked(current)
    BY <1>3, <1>6, <2>1 DEF yield_thread, Panic
  <2>2. CASE ~IsBlocked(current)
    <3>1. blocked_by' = [blocked_by EXCEPT ![current] = BlockFile(f)]
      BY <1>6, <2>2 DEF yield_thread
    <3>2. blocked_by'[current].obj = f
          /\ \A t \in ThreadIds : t # current => blocked_by'[t] = blocked_by[t]
      BY <1>0, <3>1, BlockKinds DEF ThreadInv, TypeThreads
    <3> QED BY <1>6, <3>2 DEF FilesInv, FileLockSane
  <2> QED BY <2>1, <2>2
<1>7. CASE funlockfile(f)
  <2>1. CASE files[f].owner # current
    BY <1>3, <1>7, <2>1 DEF funlockfile, Panic
  <2>2. CASE files[f].owner = current
    <3>1. files[f].lock_count - 1 \in Nat
          /\ (ReleasedOwner(files[f].lock_count) = None <=> files[f].lock_count - 1 = 0)
          /\ ReleasedOwner(files[f].lock_count) \in {None, current}
      BY <1>0, <1>1, <2>2 DEF ReleasedOwner
    <3>2. files' = [files EXCEPT ![f] = [owner |-> ReleasedOwner(files[f].lock_count),
                                         lock_count |-> files[f].lock_count - 1]]
          /\ UNCHANGED blocked_by
      BY <1>7, <2>2 DEF funlockfile, Return, runVars
    <3> QED BY <1>2, <1>4, <3>1, <3>2
  <2> QED BY <2>1, <2>2
<1>8. CASE flockfile(f)
  BY <1>5, <1>6, <1>8 DEF flockfile
<1>9. CASE ftrylockfile(f)
  BY <1>5, <1>9 DEF ftrylockfile
<1>10. CASE stdio_call(f)
  BY <1>3, <1>10 DEF stdio_call, Panic
<1> QED BY <1>7, <1>8, <1>9, <1>10 DEF FileCall

\* The scheduler gives the lock of a FILE to a thread that waits for it only
\* when nobody has it.
LEMMA ScheduleKeepsFilesInv ==
  ASSUME FilesInv, TypeThreads, NEW t \in ThreadIds, schedule(t)
  PROVE  FilesInv'
<1>0. t # None
  BY ThreadIdsFact DEF None
<1>1. CASE Look(t) \notin {"wake", "timeout"}
  BY <1>1 DEF schedule, Panic, syncVars, FilesInv, FileLockSane
<1>2. CASE Look(t) \in {"wake", "timeout"}
  <2> DEFINE b == blocked_by[t]
  <2>1. Fulfil(t) /\ blocked_by' = [blocked_by EXCEPT ![t] = NotBlocked]
    BY <1>2 DEF schedule
  <2>2. \A u \in ThreadIds : blocked_by'[u].kind = "file" => u # t /\ blocked_by'[u] = blocked_by[u]
    BY <2>1, BlockKinds DEF TypeThreads
  <2>3. CASE b.kind # "file"
    <3>1. UNCHANGED files
      BY <2>1, <2>3 DEF Fulfil
    <3> QED BY <2>2, <3>1 DEF FilesInv, FileLockSane
  <2>4. CASE b.kind = "file" /\ b.obj \notin Files
    <3>1. UNCHANGED files
      BY <2>1, <2>4 DEF Fulfil, FilesInv
    <3> QED BY <2>2, <3>1 DEF FilesInv, FileLockSane
  <2>5. CASE b.kind = "file" /\ b.obj \in Files
    <3>1. files' = [files EXCEPT ![b.obj] = [owner |-> t, lock_count |-> 1]]
      BY <2>1, <2>5 DEF Fulfil
    <3>2. files' \in [Files -> [owner : ThreadIds \cup {None}, lock_count : Nat]]
      BY <3>1 DEF FilesInv
    <3>3. files'[b.obj].owner = t /\ files'[b.obj].lock_count = 1
          /\ \A g \in Files : g # b.obj => files'[g] = files[g]
      BY <2>5, <3>1 DEF FilesInv
    <3>4. FileLockSane'
      BY <1>0, <2>2, <3>3 DEF FilesInv, FileLockSane
    <3> QED BY <3>2, <3>4 DEF FilesInv
  <2> QED BY <2>3, <2>4, <2>5
<1> QED BY <1>1, <1>2

\* The value of a semaphore stays a natural number: the scheduler takes one
\* only from a semaphore that has one.
SemsInv == sems \in [Sems -> [live : BOOLEAN, value : Nat]]

LEMMA SemCallKeepsSemsInv ==
  ASSUME SemsInv, NEW s \in Sems, SemCall(s)
  PROVE  SemsInv'
<1>0. sems[s] \in [live : BOOLEAN, value : Nat]
  BY DEF SemsInv
<1>1. ASSUME NEW value \in 0 .. MaxSem, sem_init(s, value) PROVE SemsInv'
  <2>1. value \in Nat
    BY BoundsAssumption
  <2> QED BY <1>1, <2>1 DEF sem_init, SemsInv
<1>2. CASE sem_destroy(s)
  BY <1>2 DEF sem_destroy, SemsInv
<1>3. CASE sem_post(s)
  <2>1. CASE UNCHANGED sems
    BY <2>1 DEF SemsInv
  <2>2. CASE sems' = [sems EXCEPT ![s].value = @ + 1]
    BY <1>0, <2>2 DEF SemsInv
  <2> QED BY <1>3, <2>1, <2>2 DEF sem_post
<1>4. ASSUME NEW wait_on_lock \in BOOLEAN, sem_decrement(s, wait_on_lock) PROVE SemsInv'
  <2>1. CASE UNCHANGED sems
    BY <2>1 DEF SemsInv
  <2>2. CASE sems[s].value > 0 /\ sems' = [sems EXCEPT ![s].value = @ - 1]
    BY <1>0, <2>2 DEF SemsInv
  <2> QED BY <1>4, <2>1, <2>2 DEF sem_decrement
<1> QED BY <1>1, <1>2, <1>3, <1>4 DEF SemCall

LEMMA ScheduleKeepsSemsInv ==
  ASSUME SemsInv, TypeThreads, NEW t \in ThreadIds, schedule(t)
  PROVE  SemsInv'
<1> DEFINE b == blocked_by[t]
<1>1. CASE Look(t) \notin {"wake", "timeout"}
  BY <1>1 DEF schedule, syncVars, SemsInv
<1>2. CASE Look(t) \in {"wake", "timeout"} /\ b.kind # "sem"
  BY <1>2 DEF schedule, Fulfil, SemsInv
<1>3. CASE Look(t) \in {"wake", "timeout"} /\ b.kind = "sem"
  <2>1. sems' = [sems EXCEPT ![b.obj].value = @ - 1]
    BY <1>3 DEF schedule, Fulfil
  <2>2. ~PassedOver(t) /\ Look(t) = LookSem(b.obj)
    BY <1>3 DEF Look
  <2>3. sems[b.obj].value > 0
    BY <1>3, <2>2 DEF LookSem
  <2>4. CASE b.obj \in Sems
    <3>1. sems[b.obj] \in [live : BOOLEAN, value : Nat]
      BY <2>4 DEF SemsInv
    <3>2. sems[b.obj].value - 1 \in Nat
      BY <3>1, <2>3
    <3> QED BY <2>1, <2>4, <3>1, <3>2 DEF SemsInv
  <2>5. CASE b.obj \notin Sems
    <3>1. sems' = sems
      BY <2>1, <2>5 DEF SemsInv
    <3> QED BY <3>1 DEF SemsInv
  <2> QED BY <2>4, <2>5
<1> QED BY <1>1, <1>2, <1>3

\* The two fields of thread objects that only their calls write.
JoinsInv ==
  /\ joined_by \in [ThreadIds -> ThreadIds \cup {None}]
  /\ detached \in [ThreadIds -> BOOLEAN]

LEMMA ThreadCallKeepsJoinsInv ==
  ASSUME JoinsInv, ThreadInv, ThreadCall
  PROVE  JoinsInv'
<1>0. Existing \subseteq ThreadIds /\ current \in ThreadIds
  BY ThreadsAssumption DEF ThreadInv, TypeThreads, Existing, ThreadIds
<1>1. ASSUME NEW detach \in BOOLEAN, pthread_create(detach) PROVE JoinsInv'
  BY <1>1 DEF pthread_create, JoinsInv
<1>2. ASSUME NEW t \in Existing, pthread_join(t) PROVE JoinsInv'
  BY <1>0, <1>2 DEF pthread_join, JoinsInv
<1>3. ASSUME NEW t \in Existing, pthread_detach(t) PROVE JoinsInv'
  BY <1>0, <1>3 DEF pthread_detach, JoinsInv
<1>4. CASE UNCHANGED <<joined_by, detached>>
  BY <1>4 DEF JoinsInv
<1> QED BY <1>1, <1>2, <1>3, <1>4
     DEF ThreadCall, thread_exit, sleep, suspend_thread, resume_thread, threadVars

-----------------------------------------------------------------------------
(***************************************************************************)
(* CondInv.  First what closing a gap, moving the head of one queue to the *)
(* end of the other and joining the queues do to who is listed.            *)
(***************************************************************************)
LEMMA RetainFacts ==
  ASSUME NEW S, NEW q \in Seq(S), NEW t \in S, Distinct(q)
  PROVE  /\ Retain(q, t) \in Seq(S)
         /\ Distinct(Retain(q, t))
         /\ Listed(Retain(q, t)) = Listed(q) \ {t}
<1>1. CASE \A i \in 1 .. Len(q) : q[i] # t
  BY <1>1 DEF Retain, Listed
<1>2. ASSUME NEW g \in 1 .. Len(q), q[g] = t
      PROVE  /\ Retain(q, t) \in Seq(S)
             /\ Distinct(Retain(q, t))
             /\ Listed(Retain(q, t)) = Listed(q) \ {t}
  <2> DEFINE r == [i \in 1 .. Len(q) - 1 |-> IF i < g THEN q[i] ELSE q[i + 1]]
  <2>1. g = CHOOSE i \in 1 .. Len(q) : q[i] = t
    BY <1>2 DEF Distinct
  <2>2. Retain(q, t) = r
    BY <1>2, <2>1 DEF Retain
  <2>3. Len(q) \in Nat /\ \A i \in 1 .. Len(q) : q[i] \in S
    OBVIOUS
  <2>4. r \in Seq(S) /\ Len(r) = Len(q) - 1
    BY <1>2, <2>3
  <2>5. \A i \in 1 .. Len(q) - 1 : r[i] = IF i < g THEN q[i] ELSE q[i + 1]
    OBVIOUS
  <2> HIDE DEF r
  <2>6. Distinct(r)
    BY <1>2, <2>3, <2>4, <2>5 DEF Distinct
  <2>7. Listed(r) \subseteq Listed(q) \ {t}
    BY <1>2, <2>3, <2>4, <2>5 DEF Distinct, Listed
  <2>8. ASSUME NEW x \in Listed(q), x # t PROVE x \in Listed(r)
    <3>1. PICK k \in 1 .. Len(q) : q[k] = x
      BY <2>8 DEF Listed
    <3>2. CASE k < g
      BY <1>2, <2>3, <2>4, <2>5, <3>1, <3>2 DEF Listed
    <3>3. CASE k > g
      <4>1. k - 1 \in 1 .. Len(q) - 1 /\ ~(k - 1 < g) /\ (k - 1) + 1 = k
        BY <1>2, <2>3, <3>3
      <4> QED BY <2>4, <2>5, <3>1, <4>1 DEF Listed
    <3> QED BY <1>2, <2>8, <3>1, <3>2, <3>3
  <2> QED BY <2>2, <2>4, <2>6, <2>7, <2>8
<1> QED BY <1>1, <1>2

LEMMA AppendFacts ==
  ASSUME NEW S, NEW q \in Seq(S), NEW t \in S, t \notin Listed(q), Distinct(q)
  PROVE  /\ Append(q, t) \in Seq(S)
         /\ Distinct(Append(q, t))
         /\ Listed(Append(q, t)) = Listed(q) \cup {t}
<1> DEFINE r == Append(q, t)
<1>1. r \in Seq(S) /\ Len(r) = Len(q) + 1 /\ Len(q) \in Nat
      /\ (\A i \in 1 .. Len(q) : r[i] = q[i]) /\ r[Len(q) + 1] = t
  OBVIOUS
<1> HIDE DEF r
<1>2. Distinct(r)
  BY <1>1 DEF Distinct, Listed
<1>3. Listed(r) = Listed(q) \cup {t}
  BY <1>1 DEF Listed
<1> QED BY <1>1, <1>2, <1>3 DEF r

LEMMA TailFacts ==
  ASSUME NEW S, NEW q \in Seq(S), q # <<>>, Distinct(q)
  PROVE  /\ Tail(q) \in Seq(S) /\ Head(q) \in S
         /\ Distinct(Tail(q))
         /\ Listed(Tail(q)) = Listed(q) \ {Head(q)}
         /\ Head(q) \in Listed(q)
<1> DEFINE r == Tail(q)
<1>1. r \in Seq(S) /\ Len(r) = Len(q) - 1 /\ Len(q) \in Nat /\ Len(q) > 0
      /\ (\A i \in 1 .. Len(r) : r[i] = q[i + 1]) /\ Head(q) = q[1]
  OBVIOUS
<1> HIDE DEF r
<1>2. Distinct(r)
  BY <1>1 DEF Distinct
<1>3. Listed(r) \subseteq Listed(q) \ {q[1]}
  BY <1>1 DEF Distinct, Listed
<1>4. ASSUME NEW x \in Listed(q), x # q[1] PROVE x \in Listed(r)
  <2>1. PICK k \in 1 .. Len(q) : q[k] = x
    BY <1>4 DEF Listed
  <2>2. k - 1 \in 1 .. Len(r) /\ (k - 1) + 1 = k
    BY <1>1, <1>4, <2>1
  <2> QED BY <1>1, <2>1, <2>2 DEF Listed
<1>5. q[1] \in Listed(q) /\ q[1] \in S
  BY <1>1 DEF Listed
<1> QED BY <1>1, <1>2, <1>3, <1>4, <1>5 DEF r

LEMMA JoinFacts ==
  ASSUME NEW S, NEW q \in Seq(S), NEW r \in Seq(S), Distinct(q), Distinct(r),
         Listed(q) \cap Listed(r) = {}
  PROVE  /\ q \o r \in Seq(S)
         /\ Distinct(q \o r)
         /\ Listed(q \o r) = Listed(q) \cup Listed(r)
<1> DEFINE s == q \o r
<1>1. s \in Seq(S) /\ Len(s) = Len(q) + Len(r) /\ Len(q) \in Nat /\ Len(r) \in Nat
      /\ \A i \in 1 .. Len(s) : s[i] = IF i <= Len(q) THEN q[i] ELSE r[i - Len(q)]
  OBVIOUS
<1> HIDE DEF s
<1>2. ASSUME NEW i \in 1 .. Len(s), i > Len(q)
      PROVE  i - Len(q) \in 1 .. Len(r) /\ s[i] = r[i - Len(q)] /\ s[i] \in Listed(r)
  BY <1>1, <1>2 DEF Listed
<1>3. ASSUME NEW i \in 1 .. Len(s), i <= Len(q)
      PROVE  i \in 1 .. Len(q) /\ s[i] = q[i] /\ s[i] \in Listed(q)
  BY <1>1, <1>3 DEF Listed
<1>4. Distinct(s)
  <2> SUFFICES ASSUME NEW i \in 1 .. Len(s), NEW j \in 1 .. Len(s), s[i] = s[j]
               PROVE  i = j
    BY DEF Distinct
  <2>1. CASE i <= Len(q) /\ j <= Len(q)
    BY <1>3, <2>1 DEF Distinct
  <2>2. CASE i > Len(q) /\ j > Len(q)
    <3>1. i - Len(q) = j - Len(q)
      BY <1>2, <2>2 DEF Distinct
    <3> QED BY <1>1, <3>1
  <2>3. CASE (i <= Len(q) /\ j > Len(q)) \/ (i > Len(q) /\ j <= Len(q))
    BY <1>2, <1>3, <2>3
  <2> QED BY <1>1, <2>1, <2>2, <2>3
<1>5. ASSUME NEW x \in Listed(s) PROVE x \in Listed(q) \cup Listed(r)
  <2>1. PICK i \in 1 .. Len(s) : s[i] = x
    BY <1>5 DEF Listed
  <2>2. CASE i <= Len(q)
    BY <1>3, <2>1, <2>2
  <2>3. CASE i > Len(q)
    BY <1>2, <2>1, <2>3
  <2> QED BY <1>1, <2>2, <2>3
<1>6. Listed(q) \subseteq Listed(s)
  BY <1>1 DEF Listed
<1>7. ASSUME NEW x \in Listed(r) PROVE x \in Listed(s)
  <2>1. PICK k \in 1 .. Len(r) : r[k] = x
    BY <1>7 DEF Listed
  <2>2. k + Len(q) \in 1 .. Len(s) /\ ~(k + Len(q) <= Len(q)) /\ (k + Len(q)) - Len(q) = k
    BY <1>1, <2>1
  <2> QED BY <1>1, <2>1, <2>2 DEF Listed
<1> QED BY <1>1, <1>4, <1>5, <1>6, <1>7 DEF s

\* A condition variable whose queues are replaced, and nobody else's waiters.
LEMMA CondStep ==
  ASSUME conds \in [Conds -> Cond], CondInv, panic = "no", NEW c \in Conds, NEW h \in Cond,
         SetCond(c, h), QueuesSane(h, Waiters(c)'),
         \A d \in Conds : d # c => Waiters(d)' = Waiters(d)
  PROVE  conds' \in [Conds -> Cond] /\ CondInv'
<1>1. conds' \in [Conds -> Cond] /\ conds'[c] = h /\ \A d \in Conds : d # c => conds'[d] = conds[d]
  BY DEF SetCond
<1>2. ASSUME NEW d \in Conds PROVE QueuesSane(conds'[d], Waiters(d)')
  <2>1. CASE d = c
    BY <1>1, <2>1
  <2>2. CASE d # c
    BY <1>1, <2>2 DEF CondInv
  <2> QED BY <2>1, <2>2
<1> QED BY <1>1, <1>2 DEF CondInv

\* A step that leaves condition variables alone and blocks nobody on one.
LEMMA OtherKeepsCondInv ==
  ASSUME TypeThreads, CondInv, panic' = "no" => panic = "no", UNCHANGED conds,
         BlocksBut({"cond", "file"}) \/ BlocksBut({"cond"})
  PROVE  CondInv'
<1>1. current \in ThreadIds
  BY ThreadsAssumption DEF TypeThreads, Existing, ThreadIds
<1>2. ASSUME NEW t \in ThreadIds
      PROVE  \/ blocked_by'[t] = blocked_by[t]
             \/ blocked_by'[t].kind # "cond" /\ blocked_by[t].kind # "cond"
  BY <1>1, BlockKinds DEF BlocksBut, TypeThreads
<1>3. ASSUME NEW c PROVE Waiters(c)' = Waiters(c)
  BY <1>2 DEF Waiters
<1> QED BY <1>3 DEF CondInv

\* The empty queues of condition variables nobody waits on.
LEMMA EmptyQueue == <<>> \in Seq(ThreadIds) /\ Listed(<<>>) = {} /\ Distinct(<<>>)
<1>1. <<>> \in Seq(ThreadIds)
  OBVIOUS
<1> QED BY <1>1 DEF Listed, Distinct

LEMMA FreshConds ==
  /\ CondStatic \in Cond /\ CondStatic.waiting = <<>> /\ CondStatic.waking = <<>>
  /\ NewCond \in Cond /\ NewCond.waiting = <<>> /\ NewCond.waking = <<>> /\ NewCond.st = "live"
  /\ \A st \in {"static", "live", "gone"} :
       LET g == [CondStatic EXCEPT !.st = st]
       IN  g \in Cond /\ g.waiting = <<>> /\ g.waking = <<>>
<1>1. CondStatic \in Cond /\ CondStatic.waiting = <<>> /\ CondStatic.waking = <<>>
  BY EmptyQueue DEF CondStatic, Cond
<1>2. ASSUME NEW st \in {"static", "live", "gone"}
      PROVE  LET g == [CondStatic EXCEPT !.st = st]
             IN  g \in Cond /\ g.waiting = <<>> /\ g.waking = <<>> /\ g.st = st
  BY <1>1 DEF Cond
<1> QED BY <1>1, <1>2 DEF NewCond

\* Registering a statically initialised condition variable loses nobody.
LEMMA CondOfSane ==
  ASSUME conds \in [Conds -> Cond], CondInv, panic = "no", NEW c \in Conds
  PROVE  /\ CondOf(c) \in Cond
         /\ CondOf(c).st # "gone" => CondOf(c).st = "live"
         /\ QueuesSane(CondOf(c), Waiters(c))
<1>1. conds[c] \in Cond /\ QueuesSane(conds[c], Waiters(c))
  BY DEF CondInv
<1>2. NewCond.waiting = <<>> /\ NewCond.waking = <<>> /\ NewCond \in Cond /\ NewCond.st = "live"
  BY FreshConds
<1>3. CASE conds[c].st = "static"
  <2>1. CondOf(c) = NewCond
    BY <1>3 DEF CondOf
  <2>2. conds[c].waiting = <<>> /\ conds[c].waking = <<>>
    BY <1>1, <1>3 DEF QueuesSane
  <2>3. QueuesSane(NewCond, Waiters(c))
    BY <1>1, <1>2, <2>2 DEF QueuesSane
  <2> QED BY <1>2, <2>1, <2>3
<1>4. CASE conds[c].st # "static"
  BY <1>1, <1>4 DEF CondOf, Cond
<1> QED BY <1>3, <1>4

\* yield_thread refuses to block a thread that is already blocked, by a panic.
LEMMA YieldOrPanic ==
  ASSUME NEW b, yield_thread(b), panic' = "no"
  PROVE  blocked_by' = [blocked_by EXCEPT ![current] = b]
BY DEF yield_thread, Panic

LEMMA CondCallKeepsCondInv ==
  ASSUME ThreadInv, MutexInv, conds \in [Conds -> Cond], CondInv, NEW c \in Conds, CondCall(c)
  PROVE  conds' \in [Conds -> Cond] /\ CondInv'
<1> DEFINE h == CondOf(c)
<1>0. panic = "no" /\ blocked_by[current] = NotBlocked /\ current \in ThreadIds
  <2>1. Running
    BY DEF CondCall, pthread_cond_init, pthread_cond_wait, pthread_cond_signal,
       pthread_cond_broadcast, pthread_cond_destroy
  <2> QED BY <2>1, ThreadsAssumption
       DEF Running, ThreadInv, RunningThreadSane, TypeThreads, Existing, ThreadIds
<1>1. /\ h \in Cond /\ (h.st # "gone" => h.st = "live") /\ QueuesSane(h, Waiters(c))
      /\ conds[c] \in Cond /\ QueuesSane(conds[c], Waiters(c))
  BY <1>0, CondOfSane DEF CondInv
<1>2. ASSUME UNCHANGED <<conds, blocked_by>> PROVE conds' \in [Conds -> Cond] /\ CondInv'
  BY <1>0, <1>2 DEF CondInv, Waiters
<1>3. ASSUME NEW g \in Cond, SetCond(c, g), QueuesSane(g, Waiters(c)), UNCHANGED blocked_by
      PROVE  conds' \in [Conds -> Cond] /\ CondInv'
  <2>1. \A d : Waiters(d)' = Waiters(d)
    BY <1>3 DEF Waiters
  <2> QED BY <1>0, <1>3, <2>1, CondStep
<1>4. CASE pthread_cond_init(c)
  <2>1. CASE conds[c].st = "live"
    BY <1>2, <1>4, <2>1 DEF pthread_cond_init, Panic
  <2>2. CASE conds[c].st # "live"
    <3>1. SetCond(c, NewCond) /\ UNCHANGED blocked_by
      BY <1>4, <2>2 DEF pthread_cond_init, Return, runVars
    <3>2. conds[c].waiting = <<>> /\ conds[c].waking = <<>>
      BY <1>1, <2>2 DEF QueuesSane
    <3>3. NewCond.waiting = <<>> /\ NewCond.waking = <<>> /\ NewCond \in Cond
          /\ NewCond.st = "live"
      BY FreshConds
    <3>4. QueuesSane(NewCond, Waiters(c))
      BY <1>1, <3>2, <3>3 DEF QueuesSane
    <3> QED BY <1>3, <3>1, <3>3, <3>4
  <2> QED BY <2>1, <2>2
<1>5. ASSUME NEW p \in Mutexes, NEW timed \in TimedWaits, pthread_cond_wait(c, p, timed)
      PROVE  conds' \in [Conds -> Cond] /\ CondInv'
  <2>1. CASE WaitRefused(c, p)
    BY <1>2, <1>5, <2>1 DEF pthread_cond_wait, Panic
  <2>2. CASE ~WaitRefused(c, p)
    <3> DEFINE g == [h EXCEPT !.curr_mutex = IdOf(p), !.waiting = Append(@, current)]
    <3>1. SetCond(c, g) /\ yield_thread(BlockCond(c, timed))
      BY <1>5, <2>2 DEF pthread_cond_wait
    <3>2. unlock_result(MutexOf(p)) = "ok" /\ handle[p] # NO_MAGIC /\ conds[c].st # "gone"
      BY <2>2 DEF WaitRefused
    <3>3. handle[p] \in MutexIds
      BY <3>2 DEF MutexOf, unlock_result, NewMutex, NoMutex, MutexInv, TypeMutexes
    <3>4. IdOf(p) \in MutexIds
      BY <3>3 DEF IdOf, MutexIds, MAGIC_STATIC
    <3>5. h.st = "live"
      BY <1>1, <3>2 DEF CondOf, NewCond, CondStatic, Cond
    <3>6. current \notin Waiters(c)
      BY <1>0, BlockKinds DEF Waiters
    <3>7. current \notin Listed(h.waiting) /\ current \notin Listed(h.waking)
          /\ Distinct(h.waiting) /\ h.waiting \in Seq(ThreadIds)
      BY <1>1, <3>6 DEF QueuesSane, Cond
    <3>8. Append(h.waiting, current) \in Seq(ThreadIds)
          /\ Distinct(Append(h.waiting, current))
          /\ Listed(Append(h.waiting, current)) = Listed(h.waiting) \cup {current}
      BY <1>0, <3>7, AppendFacts
    <3>9. g \in Cond /\ g.st = "live" /\ g.waiting = Append(h.waiting, current)
          /\ g.waking = h.waking
      BY <1>1, <3>4, <3>5, <3>8 DEF Cond
    <3> HIDE DEF g
    <3>10. QueuesSane(g, Waiters(c) \cup {current})
      BY <1>1, <3>7, <3>8, <3>9 DEF QueuesSane
    <3>11. conds' \in [Conds -> Cond]
      BY <3>1, <3>9 DEF SetCond
    <3>12. ASSUME panic' = "no" PROVE CondInv'
      <4>1. blocked_by' = [blocked_by EXCEPT ![current] = BlockCond(c, timed)]
        BY <3>1, <3>12, YieldOrPanic
      <4>2. blocked_by'[current].kind = "cond" /\ blocked_by'[current].obj = c
            /\ \A t \in ThreadIds : t # current => blocked_by'[t] = blocked_by[t]
        BY <1>0, <4>1, BlockKinds DEF ThreadInv, TypeThreads
      <4>3. Waiters(c)' = Waiters(c) \cup {current}
        BY <1>0, <4>2 DEF Waiters
      <4>4. \A d \in Conds : d # c => Waiters(d)' = Waiters(d)
        BY <1>0, <4>2, BlockKinds DEF Waiters
      <4> QED BY <1>0, <3>1, <3>9, <3>10, <4>3, <4>4, CondStep
    <3> QED BY <3>11, <3>12 DEF CondInv
  <2> QED BY <2>1, <2>2
<1>6. CASE pthread_cond_signal(c)
  <2>1. CASE h.st = "gone"
    BY <1>2, <1>6, <2>1 DEF pthread_cond_signal, Panic
  <2>2. CASE h.st # "gone" /\ h.waiting = <<>>
    BY <1>1, <1>3, <1>6, <2>2 DEF pthread_cond_signal, Return, runVars
  <2>3. CASE h.st # "gone" /\ h.waiting # <<>>
    <3> DEFINE g == [h EXCEPT !.waiting = Tail(@), !.waking = Append(@, Head(h.waiting))]
               t == Head(h.waiting)
    <3>1. SetCond(c, g) /\ UNCHANGED blocked_by
      BY <1>6, <2>3 DEF pthread_cond_signal, Return, runVars
    <3>2. h.waiting \in Seq(ThreadIds) /\ h.waking \in Seq(ThreadIds)
          /\ Distinct(h.waiting) /\ Distinct(h.waking)
          /\ Listed(h.waiting) \cap Listed(h.waking) = {}
      BY <1>1 DEF Cond, QueuesSane
    <3>3. /\ Tail(h.waiting) \in Seq(ThreadIds) /\ t \in ThreadIds
          /\ Distinct(Tail(h.waiting))
          /\ Listed(Tail(h.waiting)) = Listed(h.waiting) \ {t}
          /\ t \in Listed(h.waiting)
      BY <2>3, <3>2, TailFacts
    <3>4. Append(h.waking, t) \in Seq(ThreadIds) /\ Distinct(Append(h.waking, t))
          /\ Listed(Append(h.waking, t)) = Listed(h.waking) \cup {t}
      BY <3>2, <3>3, AppendFacts
    <3>5. g \in Cond /\ g.st = "live" /\ g.waiting = Tail(h.waiting)
          /\ g.waking = Append(h.waking, t)
      BY <1>1, <2>3, <3>3, <3>4 DEF Cond
    <3> HIDE DEF g, t
    <3>6. QueuesSane(g, Waiters(c))
      BY <1>1, <3>2, <3>3, <3>4, <3>5 DEF QueuesSane
    <3> QED BY <1>3, <3>1, <3>5, <3>6
  <2> QED BY <2>1, <2>2, <2>3
<1>7. CASE pthread_cond_broadcast(c)
  <2>1. CASE h.st = "gone"
    BY <1>2, <1>7, <2>1 DEF pthread_cond_broadcast, Panic
  <2>2. CASE h.st # "gone"
    <3> DEFINE g == [h EXCEPT !.waiting = <<>>, !.waking = @ \o h.waiting]
    <3>1. SetCond(c, g) /\ UNCHANGED blocked_by
      BY <1>7, <2>2 DEF pthread_cond_broadcast, Return, runVars
    <3>2. h.waiting \in Seq(ThreadIds) /\ h.waking \in Seq(ThreadIds)
          /\ Distinct(h.waiting) /\ Distinct(h.waking)
          /\ Listed(h.waking) \cap Listed(h.waiting) = {}
      BY <1>1 DEF Cond, QueuesSane
    <3>3. h.waking \o h.waiting \in Seq(ThreadIds) /\ Distinct(h.waking \o h.waiting)
          /\ Listed(h.waking \o h.waiting) = Listed(h.waking) \cup Listed(h.waiting)
      BY <3>2, JoinFacts
    <3>4. g \in Cond /\ g.st = "live" /\ g.waiting = <<>> /\ g.waking = h.waking \o h.waiting
      BY <1>1, <2>2, <3>3, EmptyQueue DEF Cond
    <3> HIDE DEF g
    <3>5. QueuesSane(g, Waiters(c))
      BY <1>1, <3>3, <3>4, EmptyQueue DEF QueuesSane
    <3> QED BY <1>3, <3>1, <3>4, <3>5
  <2> QED BY <2>1, <2>2
<1>8. CASE pthread_cond_destroy(c)
  <2>1. CASE h.st = "gone" \/ h.waiting # <<>> \/ h.waking # <<>>
    BY <1>2, <1>8, <2>1 DEF pthread_cond_destroy, Panic
  <2>2. CASE ~(h.st = "gone" \/ h.waiting # <<>> \/ h.waking # <<>>)
    <3> DEFINE g == [CondStatic EXCEPT !.st = "gone"]
    <3>1. SetCond(c, g) /\ UNCHANGED blocked_by
      BY <1>8, <2>2 DEF pthread_cond_destroy, Return, runVars
    <3>2. g \in Cond /\ g.waiting = <<>> /\ g.waking = <<>>
      BY FreshConds
    <3> HIDE DEF g
    <3>3. QueuesSane(g, Waiters(c))
      BY <1>1, <2>2, <3>2 DEF QueuesSane
    <3> QED BY <1>3, <3>1, <3>2, <3>3
  <2> QED BY <2>1, <2>2
<1> QED BY <1>4, <1>5, <1>6, <1>7, <1>8 DEF CondCall

\* A waiter is woken from the head of the queue of threads being woken, and
\* times out only when that queue is empty.
LEMMA LookCondFacts ==
  ASSUME NEW t \in ThreadIds, NEW c \in Conds, conds[c] \in Cond
  PROVE  /\ LookCond(t, c) = "wake" => conds[c].waking # <<>> /\ Head(conds[c].waking) = t
         /\ LookCond(t, c) = "timeout" => conds[c].waking = <<>>
<1>1. \A id : Relocks(id, "wake") # "timeout" /\ Relocks(id, "timeout") # "wake"
  BY DEF Relocks
<1>2. CASE /\ conds[c].waking # <<>> /\ Head(conds[c].waking) = t
           /\ ~mutex_is_locked(conds[c].curr_mutex)
  BY <1>1, <1>2 DEF LookCond
<1>3. CASE ~(/\ conds[c].waking # <<>> /\ Head(conds[c].waking) = t
             /\ ~mutex_is_locked(conds[c].curr_mutex))
  BY <1>1, <1>3 DEF LookCond
<1> QED BY <1>2, <1>3

LEMMA ScheduleKeepsCondInv ==
  ASSUME TypeThreads, conds \in [Conds -> Cond], CondInv, NEW t \in ThreadIds, schedule(t)
  PROVE  conds' \in [Conds -> Cond] /\ CondInv'
<1> DEFINE b == blocked_by[t]
<1>0. panic = "no"
  BY DEF schedule
<1>1. CASE Look(t) \notin {"wake", "timeout"}
  BY <1>0, <1>1 DEF schedule, Panic, syncVars, CondInv, Waiters
<1>2. CASE Look(t) \in {"wake", "timeout"}
  <2>1. Fulfil(t) /\ blocked_by' = [blocked_by EXCEPT ![t] = NotBlocked] /\ ~PassedOver(t)
    BY <1>2 DEF schedule, Look
  <2>2. blocked_by'[t].kind # "cond"
        /\ \A u \in ThreadIds : u # t => blocked_by'[u] = blocked_by[u]
    BY <2>1, BlockKinds DEF TypeThreads
  <2>3. ASSUME NEW c PROVE Waiters(c)' = Waiters(c) \ {t}
    BY <2>2 DEF Waiters
  <2>4. ASSUME NEW c, b.kind # "cond" \/ b.obj # c PROVE Waiters(c)' = Waiters(c)
    BY <2>3, <2>4 DEF Waiters
  <2>5. CASE b.kind # "cond"
    BY <1>0, <2>1, <2>4, <2>5 DEF Fulfil, CondInv
  <2>6. CASE b.kind = "cond" /\ b.obj \notin Conds
    <3>1. conds' = conds
      BY <2>1, <2>6 DEF Fulfil
    <3> QED BY <1>0, <2>4, <2>6, <3>1 DEF CondInv
  <2>7. CASE b.kind = "cond" /\ b.obj \in Conds
    <3>0. PICK c \in Conds : c = b.obj
      BY <2>7
    <3> DEFINE h == conds[c]
    <3>1. h \in Cond /\ QueuesSane(h, Waiters(c)) /\ t \in Waiters(c)
      BY <1>0, <2>7, <3>0 DEF CondInv, Waiters
    <3>2. h.waiting \in Seq(ThreadIds) /\ h.waking \in Seq(ThreadIds)
          /\ Distinct(h.waiting) /\ Distinct(h.waking)
          /\ Listed(h.waiting) \cap Listed(h.waking) = {}
          /\ Listed(h.waiting) \cup Listed(h.waking) = Waiters(c)
      BY <3>1 DEF Cond, QueuesSane
    <3>3. Look(t) = LookCond(t, c)
      BY <2>1, <2>7, <3>0 DEF Look
    <3>4. ASSUME NEW g \in Cond, SetCond(c, g), g.st = h.st, h.st = "live",
                 Distinct(g.waiting), Distinct(g.waking),
                 Listed(g.waiting) = Listed(h.waiting) \ {t},
                 Listed(g.waking) = Listed(h.waking) \ {t}
          PROVE  conds' \in [Conds -> Cond] /\ CondInv'
      <4>1. QueuesSane(g, Waiters(c)')
        BY <2>3, <3>2, <3>4 DEF QueuesSane
      <4> QED BY <1>0, <2>4, <3>0, <3>4, <4>1, CondStep
    <3>5. CASE Look(t) = "wake"
      <4> DEFINE g == [h EXCEPT !.waking = Tail(@)]
      <4>1. h.waking # <<>> /\ Head(h.waking) = t
        BY <3>1, <3>3, <3>5, LookCondFacts
      <4>2. SetCond(c, g)
        BY <2>1, <2>7, <3>0, <3>5 DEF Fulfil, SetCond
      <4>3. Tail(h.waking) \in Seq(ThreadIds) /\ Distinct(Tail(h.waking))
            /\ Listed(Tail(h.waking)) = Listed(h.waking) \ {t} /\ t \in Listed(h.waking)
        BY <3>2, <4>1, TailFacts
      <4>4. g \in Cond /\ g.st = h.st /\ g.waiting = h.waiting /\ g.waking = Tail(h.waking)
        BY <3>1, <4>3 DEF Cond
      <4>5. h.st = "live"
        BY <3>1, <4>1 DEF QueuesSane
      <4>6. Listed(h.waiting) = Listed(h.waiting) \ {t}
        BY <3>2, <4>3
      <4> HIDE DEF g
      <4> QED BY <3>2, <3>4, <4>2, <4>3, <4>4, <4>5, <4>6
    <3>6. CASE Look(t) = "timeout"
      <4> DEFINE g == [h EXCEPT !.waiting = Retain(@, t)]
      <4>1. h.waking = <<>>
        BY <3>1, <3>3, <3>6, LookCondFacts
      <4>2. SetCond(c, g)
        BY <2>1, <2>7, <3>0, <3>6 DEF Fulfil, SetCond
      <4>3. Retain(h.waiting, t) \in Seq(ThreadIds) /\ Distinct(Retain(h.waiting, t))
            /\ Listed(Retain(h.waiting, t)) = Listed(h.waiting) \ {t}
        BY <3>2, RetainFacts
      <4>4. g \in Cond /\ g.st = h.st /\ g.waiting = Retain(h.waiting, t) /\ g.waking = h.waking
        BY <3>1, <4>3 DEF Cond
      <4>5. Listed(h.waking) = {} /\ Listed(h.waiting) # {}
        BY <3>1, <3>2, <4>1, EmptyQueue
      <4>6. h.st = "live"
        BY <3>1, <4>5, EmptyQueue DEF QueuesSane
      <4> HIDE DEF g
      <4> QED BY <3>2, <3>4, <4>2, <4>3, <4>4, <4>5, <4>6
    <3> QED BY <1>2, <3>5, <3>6
  <2> QED BY <2>5, <2>6, <2>7
<1> QED BY <1>1, <1>2

LEMMA CondCallBlocks ==
  ASSUME NEW c \in Conds, CondCall(c)
  PROVE  BlocksBut({"file"}) /\ UNCHANGED <<threadVars, sems, files>>
<1> USE DEF condFrame
<1>1. UNCHANGED <<threadVars, sems, files>>
  BY DEF CondCall, pthread_cond_init, pthread_cond_wait, pthread_cond_signal,
     pthread_cond_broadcast, pthread_cond_destroy
<1>2. ASSUME NEW p \in Mutexes, NEW timed \in TimedWaits, pthread_cond_wait(c, p, timed)
      PROVE  BlocksBut({"file"})
  <2>1. UNCHANGED blocked_by \/ yield_thread(BlockCond(c, timed))
    BY <1>2 DEF pthread_cond_wait, Panic
  <2>2. BlockCond(c, timed) \in Block
    BY KindsAssumption, BlocksTyped
  <2> QED BY <2>1, <2>2, BlockKinds, YieldBlocks DEF BlocksBut
<1>3. CASE pthread_cond_signal(c)
  <2>1. UNCHANGED blocked_by
    BY <1>3 DEF pthread_cond_signal, Return, Panic, runVars
  <2> QED BY <1>1, <2>1 DEF BlocksBut
<1>4. CASE pthread_cond_init(c) \/ pthread_cond_broadcast(c) \/ pthread_cond_destroy(c)
  BY <1>4 DEF pthread_cond_init, pthread_cond_broadcast, pthread_cond_destroy, Return, Panic,
     runVars, BlocksBut
<1> QED BY <1>1, <1>2, <1>3, <1>4 DEF CondCall

LEMMA FileCallBlocks ==
  ASSUME NEW f \in Files, FileCall(f)
  PROVE  BlocksBut({"cond"}) /\ UNCHANGED <<threadVars, conds, sems>>
<1> USE DEF fileFrame
<1>1. UNCHANGED <<threadVars, conds, sems>>
  BY DEF FileCall, flockfile, ftrylockfile, funlockfile, stdio_call
<1>2. CASE flockfile(f)
  <2>1. UNCHANGED blocked_by \/ yield_thread(BlockFile(f))
    BY <1>2 DEF flockfile, LockFile, Return, runVars
  <2>2. BlockFile(f) \in Block /\ BlockFile(f).kind \notin {"cond"}
    BY BlocksTyped, BlockKinds
  <2>3. BlocksBut({"cond"})
    BY <2>1, <2>2, YieldBlocks DEF BlocksBut
  <2> QED BY <1>1, <2>3
<1>3. CASE ftrylockfile(f) \/ funlockfile(f) \/ stdio_call(f)
  BY <1>1, <1>3 DEF ftrylockfile, LockFile, funlockfile, stdio_call, Return, Panic, runVars,
     BlocksBut
<1> QED BY <1>2, <1>3 DEF FileCall

\* Everything about the objects threads wait for.
ObjectsInv == TypeObjects /\ FileLockSane /\ CondInv

LEMMA ObjectsInvParts ==
  /\ ObjectsInv <=> conds \in [Conds -> Cond] /\ CondInv /\ FilesInv /\ SemsInv /\ JoinsInv
  /\ ObjectsInv' <=>
       conds' \in [Conds -> Cond] /\ CondInv' /\ FilesInv' /\ SemsInv' /\ JoinsInv'
BY DEF ObjectsInv, TypeObjects, FilesInv, SemsInv, JoinsInv

LEMMA ObjectsInvInit == Init => ObjectsInv
<1> SUFFICES ASSUME Init PROVE ObjectsInv
  OBVIOUS
<1>1. conds = [c \in Conds |-> CondStatic] /\ blocked_by = [t \in ThreadIds |-> NotBlocked]
  BY DEF Init
<1>2. conds \in [Conds -> Cond]
  BY <1>1, FreshConds
<1>3. CondInv
  <2>1. \A c : Waiters(c) = {}
    BY <1>1, BlockKinds DEF Waiters
  <2>2. ASSUME NEW c \in Conds PROVE QueuesSane(conds[c], Waiters(c))
    BY <1>1, <2>1, FreshConds, EmptyQueue DEF QueuesSane
  <2> QED BY <2>2 DEF CondInv
<1>4. FilesInv
  <2>1. files = [f \in Files |-> [owner |-> None, lock_count |-> 0]]
    BY DEF Init
  <2>2. \A t \in ThreadIds : blocked_by[t].kind # "file"
    BY <1>1, BlockKinds
  <2> QED BY <2>1, <2>2 DEF FilesInv, FileLockSane
<1>5. SemsInv
  BY DEF Init, SemsInv
<1>6. JoinsInv
  <2>1. joined_by = [t \in ThreadIds |-> None] /\ detached = [t \in ThreadIds |-> FALSE]
    BY DEF Init
  <2> QED BY <2>1 DEF JoinsInv
<1> QED BY <1>2, <1>3, <1>4, <1>5, <1>6, ObjectsInvParts

LEMMA ObjectsInvStep ==
  ASSUME ThreadInv, MutexInv, ObjectsInv, [Next]_vars
  PROVE  ObjectsInv'
<1> USE DEF threadVars
<1>0. /\ TypeThreads /\ TypeMutexes /\ Existing \subseteq ThreadIds
      /\ conds \in [Conds -> Cond] /\ CondInv /\ FilesInv /\ SemsInv /\ JoinsInv
  BY ThreadsAssumption, ObjectsInvParts
     DEF ThreadInv, MutexInv, TypeThreads, Existing, ThreadIds
<1>1. ASSUME UNCHANGED <<joined_by, detached>> PROVE JoinsInv'
  BY <1>0, <1>1 DEF JoinsInv
<1>2. ASSUME UNCHANGED sems PROVE SemsInv'
  BY <1>0, <1>2 DEF SemsInv
<1>3. ASSUME NEW p \in Mutexes, MutexCall(p) PROVE ObjectsInv'
  <2>1. BlocksBut({"cond", "file"}) /\ UNCHANGED <<threadVars, conds, sems, files>>
    BY <1>0, <1>3, MutexCallBlocks
  <2>2. panic = "no"
    BY <1>3 DEF MutexCall, pthread_mutex_init, pthread_mutex_lock, pthread_mutex_trylock,
       pthread_mutex_unlock, pthread_mutex_destroy, Running
  <2> QED BY <1>0, <1>1, <1>2, <2>1, <2>2, OtherKeepsFilesInv, OtherKeepsCondInv, ObjectsInvParts
<1>4. ASSUME NEW c \in Conds, CondCall(c) PROVE ObjectsInv'
  BY <1>0, <1>1, <1>2, <1>4, CondCallBlocks, CondCallKeepsCondInv, OtherKeepsFilesInv,
     ObjectsInvParts
<1>5. ASSUME NEW s \in Sems, SemCall(s) PROVE ObjectsInv'
  <2>1. BlocksBut({"cond", "file"}) /\ UNCHANGED <<threadVars, conds, files>>
    BY <1>5, SemCallBlocks
  <2>2. panic = "no"
    BY <1>5 DEF SemCall, sem_init, sem_destroy, sem_post, sem_decrement, Running
  <2> QED BY <1>0, <1>1, <1>5, <2>1, <2>2, OtherKeepsFilesInv, OtherKeepsCondInv,
       SemCallKeepsSemsInv, ObjectsInvParts
<1>6. ASSUME NEW f \in Files, FileCall(f) PROVE ObjectsInv'
  <2>1. BlocksBut({"cond"}) /\ UNCHANGED <<threadVars, conds, sems>>
    BY <1>6, FileCallBlocks
  <2>2. panic = "no"
    BY <1>6 DEF FileCall, flockfile, ftrylockfile, funlockfile, stdio_call, Running
  <2> QED BY <1>0, <1>1, <1>2, <1>6, <2>1, <2>2, OtherKeepsCondInv, FileCallKeepsFilesInv,
       ObjectsInvParts
<1>7. CASE ThreadCall
  <2>1. BlocksBut({"cond", "file"}) /\ UNCHANGED <<conds, sems, files>>
    BY <1>7, ThreadCallBlocks
  <2>2. panic = "no"
    BY <1>7 DEF ThreadCall, pthread_create, thread_exit, sleep, pthread_join, pthread_detach,
       suspend_thread, resume_thread, Running
  <2> QED BY <1>0, <1>2, <1>7, <2>1, <2>2, OtherKeepsFilesInv, OtherKeepsCondInv,
       ThreadCallKeepsJoinsInv, ObjectsInvParts
<1>8. ASSUME NEW t \in Existing, schedule(t) PROVE ObjectsInv'
  <2>1. UNCHANGED <<joined_by, detached>>
    BY <1>8 DEF schedule
  <2> QED BY <1>0, <1>1, <1>8, <2>1, ScheduleKeepsCondInv, ScheduleKeepsFilesInv,
       ScheduleKeepsSemsInv, ObjectsInvParts
<1>9. CASE end_timeslice \/ no_thread_left \/ \E t \in Existing : deadline_passes(t)
  <2>1. UNCHANGED <<joined_by, detached, conds, sems, files>> /\ panic = "no"
    BY <1>9 DEF end_timeslice, no_thread_left, deadline_passes, syncVars, Running
  <2>2. CASE end_timeslice
    <3>1. BlocksBut({"cond", "file"})
      BY <2>2, BlocksTyped, BlockKinds, YieldBlocks DEF end_timeslice
    <3> QED BY <1>0, <1>1, <1>2, <2>1, <3>1, OtherKeepsFilesInv, OtherKeepsCondInv,
         ObjectsInvParts
  <2>3. CASE no_thread_left \/ \E t \in Existing : deadline_passes(t)
    <3>1. BlocksBut({"cond", "file"})
      BY <2>3 DEF no_thread_left, deadline_passes, Panic, BlocksBut
    <3> QED BY <1>0, <1>1, <1>2, <2>1, <3>1, OtherKeepsFilesInv, OtherKeepsCondInv,
         ObjectsInvParts
  <2> QED BY <1>9, <2>2, <2>3
<1>10. CASE UNCHANGED vars
  <2>1. UNCHANGED <<joined_by, detached, conds, sems, files, blocked_by, panic>>
    BY <1>10 DEF vars, syncVars, runVars
  <2>2. BlocksBut({"cond", "file"})
    BY <2>1 DEF BlocksBut
  <2> QED BY <1>0, <1>1, <1>2, <2>1, <2>2, OtherKeepsFilesInv, OtherKeepsCondInv,
       ObjectsInvParts
<1> QED BY <1>3, <1>4, <1>5, <1>6, <1>7, <1>8, <1>9, <1>10 DEF Next, Scheduling, ended

\* Types, FILE owners and the queues of condition variables, all together: the
\* invariant the two theorems below are read off.
THEOREM ObjectsInvariance == Spec => []ObjectsInv
<1>1. Init => ObjectsInv
  BY ObjectsInvInit
<1>2. ThreadInv /\ MutexInv /\ ObjectsInv /\ [Next]_vars => ObjectsInv'
  BY ObjectsInvStep
<1> QED BY <1>1, <1>2, Invariance, PTL DEF Spec

\* Type correctness of the whole scheduler and the sanity of FILE locks, for
\* any number of threads and objects: no count falls below zero, current is
\* always a created thread, and nobody waits for a FILE it owns.
THEOREM ThreadsSoundAlways == Spec => []ThreadsSound
<1>1. ThreadInv /\ MutexInv /\ ObjectsInv => ThreadsSound
  BY DEF ThreadInv, MutexInv, ObjectsInv, ThreadsSound, TypeOK
<1> QED BY <1>1, Invariance, ObjectsInvariance, PTL

\* No thread waits on a condition variable unlisted and none is listed that
\* does not wait, for any number of threads, condition variables and timed
\* waits: a signal always reaches a waiter, and a timeout never leaves a
\* thread behind in a queue.
THEOREM CondQueuesTrue == Spec => []CondQueuesExact
<1>1. ObjectsInv => CondQueuesExact
  <2> SUFFICES ASSUME ObjectsInv, panic = "no", NEW c \in Conds
               PROVE  LET q == conds[c].waiting \o conds[c].waking
                      IN  Listed(q) = Waiters(c) /\ Distinct(q)
    BY DEF CondQueuesExact, Listed, Distinct
  <2>1. conds[c] \in Cond /\ QueuesSane(conds[c], Waiters(c))
    BY DEF ObjectsInv, TypeObjects, CondInv
  <2>2. conds[c].waiting \in Seq(ThreadIds) /\ conds[c].waking \in Seq(ThreadIds)
    BY <2>1 DEF Cond
  <2>3. Distinct(conds[c].waiting) /\ Distinct(conds[c].waking)
        /\ Listed(conds[c].waiting) \cap Listed(conds[c].waking) = {}
        /\ Listed(conds[c].waiting) \cup Listed(conds[c].waking) = Waiters(c)
    BY <2>1 DEF QueuesSane
  <2> DEFINE q == conds[c].waiting
             r == conds[c].waking
  <2> HIDE DEF q, r
  <2>4. Distinct(q \o r) /\ Listed(q \o r) = Listed(q) \cup Listed(r)
    BY <2>2, <2>3, JoinFacts DEF q, r
  <2> QED BY <2>3, <2>4 DEF q, r
<1> QED BY <1>1, ObjectsInvariance, PTL
-----------------------------------------------------------------------------
(***************************************************************************)
(* The waiters of a mutex.  Every block on a mutex added one to its        *)
(* waiting_count (LockWait), and the wakeup that ends it takes one back    *)
(* (Relocked).  A wakeup from a condition variable takes one back too,     *)
(* although nobody added it: WaitersInv only speaks of programs that have  *)
(* not used a condition variable yet.                                      *)
(***************************************************************************)
LEMMA WaitersFinite ==
  ASSUME NEW id
  PROVE  IsFiniteSet(MutexWaiters(id)) /\ Cardinality(MutexWaiters(id)) \in Nat
<1>1. IsFiniteSet(ThreadIds)
  BY FS_Interval, ThreadsAssumption DEF ThreadIds
<1>2. MutexWaiters(id) \subseteq ThreadIds
  BY DEF MutexWaiters
<1> QED BY <1>1, <1>2, FS_Subset, FS_CardinalityType

\* Nobody new waits for id, and its count does not fall.
LEMMA CountStays ==
  ASSUME NEW id, Counted(id), mutexes[id].waiting_count \in Nat,
         mutexes'[id].waiting_count \in Nat,
         MutexWaiters(id)' \subseteq MutexWaiters(id),
         mutexes'[id].waiting_count >= mutexes[id].waiting_count,
         mutexes'[id].live \/ mutexes'[id].waiting_count = 0
  PROVE  Counted(id)'
<1>1. IsFiniteSet(MutexWaiters(id)) /\ Cardinality(MutexWaiters(id)) \in Nat
  BY WaitersFinite
<1> DEFINE S == MutexWaiters(id)
           T == MutexWaiters(id)'
<1> HIDE DEF S, T
<1>2. Cardinality(T) \in Nat /\ Cardinality(T) <= Cardinality(S)
  BY <1>1, FS_Subset, FS_CardinalityType DEF S, T
<1> QED BY <1>1, <1>2 DEF Counted, S, T

\* One thread begins to wait for id, and its count grows by one.
LEMMA CountGrows ==
  ASSUME NEW id, Counted(id), mutexes[id].waiting_count \in Nat, NEW t,
         MutexWaiters(id)' \subseteq MutexWaiters(id) \cup {t},
         mutexes'[id].waiting_count = mutexes[id].waiting_count + 1,
         mutexes'[id].live
  PROVE  Counted(id)'
<1>1. IsFiniteSet(MutexWaiters(id)) /\ Cardinality(MutexWaiters(id)) \in Nat
  BY WaitersFinite
<1> DEFINE S == MutexWaiters(id)
           T == MutexWaiters(id)'
<1> HIDE DEF S, T
<1>2. IsFiniteSet(S \cup {t}) /\ Cardinality(S \cup {t}) <= Cardinality(S) + 1
      /\ Cardinality(S \cup {t}) \in Nat
  <2>1. IsFiniteSet(S) /\ Cardinality(S) \in Nat
    BY <1>1 DEF S
  <2>2. IsFiniteSet(S \cup {t})
        /\ Cardinality(S \cup {t}) = IF t \in S THEN Cardinality(S) ELSE Cardinality(S) + 1
    BY <2>1, FS_AddElement
  <2> QED BY <2>1, <2>2
<1>3. Cardinality(T) \in Nat /\ Cardinality(T) <= Cardinality(S \cup {t})
  BY <1>2, FS_Subset, FS_CardinalityType DEF S, T
<1> QED BY <1>1, <1>2, <1>3 DEF Counted, S, T

\* A waiter of id stops waiting, and its count falls by one.
LEMMA CountFalls ==
  ASSUME NEW id, Counted(id), mutexes[id].waiting_count \in Nat, NEW t \in MutexWaiters(id),
         MutexWaiters(id)' \subseteq MutexWaiters(id) \ {t},
         mutexes'[id] = Relocked(t, mutexes[id]), mutexes[id] \in Mutex, mutexes[id].live
  PROVE  Counted(id)'
<1>1. IsFiniteSet(MutexWaiters(id)) /\ Cardinality(MutexWaiters(id)) \in Nat
  BY WaitersFinite
<1> DEFINE S == MutexWaiters(id)
           T == MutexWaiters(id)'
<1> HIDE DEF S, T
<1>2. IsFiniteSet(S \ {t}) /\ Cardinality(S \ {t}) = Cardinality(S) - 1
      /\ Cardinality(S \ {t}) \in Nat
  BY <1>1, FS_RemoveElement, FS_CardinalityType DEF S
<1>3. Cardinality(T) \in Nat /\ Cardinality(T) <= Cardinality(S \ {t})
  BY <1>2, FS_Subset, FS_CardinalityType DEF S, T
<1>4. mutexes[id].waiting_count > 0
  BY <1>1, <1>2 DEF Counted, S
<1>5. mutexes'[id].waiting_count = mutexes[id].waiting_count - 1 /\ mutexes'[id].live
  BY <1>4 DEF Relocked, Mutex
<1> QED BY <1>1, <1>2, <1>3, <1>5 DEF Counted, S, T

\* A step that gives nobody a block on a mutex or a condition variable.
LEMMA FewerWaiters ==
  ASSUME TypeThreads, current \in ThreadIds, BlocksBut({"mutex", "cond"})
  PROVE  /\ \A id : MutexWaiters(id)' \subseteq MutexWaiters(id)
         /\ \A t \in ThreadIds :
              blocked_by'[t].kind \in {"mutex", "cond"} => blocked_by'[t] = blocked_by[t]
<1>1. \A t \in ThreadIds : blocked_by'[t].kind \in {"mutex", "cond"} => blocked_by'[t] = blocked_by[t]
  BY DEF BlocksBut, TypeThreads
<1> QED BY <1>1 DEF MutexWaiters

\* The calls that have nothing to do with mutexes and condition variables.
LEMMA OtherBlocks ==
  ASSUME ThreadInv,
         \/ \E s \in Sems : SemCall(s)
         \/ \E f \in Files : FileCall(f)
         \/ ThreadCall
         \/ end_timeslice \/ no_thread_left \/ \E t \in Existing : deadline_passes(t)
  PROVE  BlocksBut({"mutex", "cond"}) /\ UNCHANGED <<mutexes, conds>>
<1> USE DEF syncVars, mutexVars, semFrame, fileFrame
<1>0. Existing \subseteq ThreadIds
  BY ThreadsAssumption DEF ThreadInv, TypeThreads, Existing, ThreadIds
<1>a. BlocksBut({"mutex", "cond"}) <=>
        \/ UNCHANGED blocked_by
        \/ /\ blocked_by[current] = NotBlocked
           /\ \E b \in Block : b.kind \notin {"mutex", "cond"}
                               /\ blocked_by' = [blocked_by EXCEPT ![current] = b]
  BY DEF BlocksBut
<1>1. ASSUME NEW s \in Sems, SemCall(s) PROVE BlocksBut({"mutex", "cond"}) /\ UNCHANGED <<mutexes, conds>>
  <2>1. UNCHANGED blocked_by \/ yield_thread(BlockSem(s))
    BY <1>1 DEF SemCall, sem_init, sem_destroy, sem_post, sem_decrement, Return, Panic, runVars
  <2>2. UNCHANGED <<mutexes, conds>>
    BY <1>1 DEF SemCall, sem_init, sem_destroy, sem_post, sem_decrement
  <2> QED BY <2>1, <2>2, <1>a, BlocksTyped, BlockKinds, YieldBlocks
<1>2. ASSUME NEW f \in Files, FileCall(f) PROVE BlocksBut({"mutex", "cond"}) /\ UNCHANGED <<mutexes, conds>>
  <2>1. UNCHANGED blocked_by \/ yield_thread(BlockFile(f))
    BY <1>2 DEF FileCall, flockfile, ftrylockfile, LockFile, funlockfile, stdio_call, Return,
       Panic, runVars
  <2>2. UNCHANGED <<mutexes, conds>>
    BY <1>2 DEF FileCall, flockfile, ftrylockfile, funlockfile, stdio_call
  <2> QED BY <2>1, <2>2, <1>a, BlocksTyped, BlockKinds, YieldBlocks
<1>3. CASE ThreadCall
  <2>1. UNCHANGED <<mutexes, conds>>
    BY <1>3 DEF ThreadCall, pthread_create, thread_exit, sleep, pthread_join, pthread_detach,
       suspend_thread, resume_thread
  <2>2. UNCHANGED blocked_by \/ yield_thread(Sleeping)
        \/ \E t \in Existing : yield_thread(BlockJoin(t))
    BY <1>3 DEF ThreadCall, pthread_create, thread_exit, sleep, pthread_join, pthread_detach,
       suspend_thread, resume_thread, Return, Panic, runVars
  <2> QED BY <2>1, <2>2, <1>0, <1>a, BlocksTyped, BlockKinds, YieldBlocks
<1>4. CASE end_timeslice
  BY <1>4, BlocksTyped, BlockKinds, YieldBlocks DEF end_timeslice
<1>5. CASE no_thread_left \/ \E t \in Existing : deadline_passes(t)
  BY <1>5, <1>a DEF no_thread_left, deadline_passes, Panic
<1> QED BY <1>1, <1>2, <1>3, <1>4, <1>5

LEMMA MutexOfCount ==
  ASSUME HandlesSane, NEW p \in Mutexes, HasMagic(p)
  PROVE  MutexOf(p).waiting_count = mutexes[IdOf(p)].waiting_count
<1>1. CASE handle[p] = MAGIC_STATIC
  <2>1. MutexOf(p) = NewMutex("normal") /\ IdOf(p) = mutex_count /\ mutex_count < MaxMutexIds
    BY <1>1, BoundsAssumption DEF MutexOf, IdOf, HasMagic, MutexIds, MAGIC_STATIC
  <2>2. mutexes[mutex_count] = NoMutex
    BY <2>1, BoundsAssumption DEF HandlesSane, MutexIds
  <2> QED BY <2>1, <2>2 DEF NewMutex, NoMutex
<1>2. CASE handle[p] # MAGIC_STATIC
  BY <1>2 DEF MutexOf, IdOf
<1> QED BY <1>1, <1>2

\* What a mutex call does to the blocks, and to the count of the one mutex
\* it writes.
CountWritten(id, m) ==
  /\ SetMutex(id, m)
  /\ \/ /\ m.waiting_count = mutexes[id].waiting_count
        /\ m.live \/ m.waiting_count = 0
        /\ UNCHANGED blocked_by
     \/ /\ m.waiting_count = mutexes[id].waiting_count + 1
        /\ m.live
        /\ \/ UNCHANGED blocked_by
           \/ blocked_by' = [blocked_by EXCEPT ![current] = BlockMutex(id)]
MutexWritten ==
  \/ UNCHANGED <<mutexes, blocked_by>>
  \/ \E id \in MutexIds : \E m \in Mutex : CountWritten(id, m)

LEMMA MutexCallCounts ==
  ASSUME OwnedSane, HandlesSane, current \in ThreadIds, NEW p \in Mutexes, MutexCall(p)
  PROVE  MutexWritten
<1> USE DEF CountWritten
<1>a. mutexes \in [MutexIds -> Mutex]
  BY DEF OwnedSane
<1>1. ASSUME NEW type_ \in MutexTypes, pthread_mutex_init(p, type_) PROVE MutexWritten
  <2>1. mutex_count \in MutexIds /\ mutexes[mutex_count] = NoMutex
    BY <1>1, BoundsAssumption DEF pthread_mutex_init, HandlesSane, MutexIds
  <2>2. NewMutex(type_) \in Mutex /\ NewMutex(type_).live
        /\ NewMutex(type_).waiting_count = NoMutex.waiting_count
    BY KindsAssumption DEF NewMutex, NoMutex, Mutex
  <2>3. SetMutex(mutex_count, NewMutex(type_)) /\ UNCHANGED blocked_by
    BY <1>1 DEF pthread_mutex_init, Return, runVars
  <2> QED BY <2>1, <2>2, <2>3 DEF MutexWritten
<1>2. ASSUME check_or_register_mutex(p), lock_mutex(IdOf(p), MutexOf(p)) PROVE MutexWritten
  <2> DEFINE id == IdOf(p)
             m == MutexOf(p)
  <2>1. HasMagic(p)
    BY <1>2 DEF check_or_register_mutex
  <2>2. id \in MutexIds /\ m \in Mutex /\ m.live /\ m.waiting_count = mutexes[id].waiting_count
        /\ lock_mutex(id, m)
    BY <1>2, <2>1, MutexBehindHandle, MutexOfCount
  <2> HIDE DEF id, m
  <2>3. CASE LockFree(id, m)
    <3> DEFINE n == [m EXCEPT !.owner = current, !.lock_count = 1]
    <3>1. n \in Mutex /\ n.live /\ n.waiting_count = m.waiting_count
      BY <2>2 DEF Mutex
    <3>2. SetMutex(id, n) /\ UNCHANGED blocked_by
      BY <2>3 DEF LockFree, Return, runVars
    <3> HIDE DEF n
    <3> QED BY <2>2, <3>1, <3>2 DEF MutexWritten
  <2>4. CASE LockAgain(id, m)
    <3> DEFINE n == [m EXCEPT !.lock_count = m.lock_count + 1]
    <3>1. n \in Mutex /\ n.live /\ n.waiting_count = m.waiting_count
      BY <2>2 DEF Mutex
    <3>2. UNCHANGED blocked_by /\ (UNCHANGED mutexes \/ SetMutex(id, n))
      BY <2>2, <2>4 DEF LockAgain, Return, runVars, Panic, Mutex
    <3> HIDE DEF n
    <3> QED BY <2>2, <3>1, <3>2 DEF MutexWritten
  <2>5. CASE LockWait(id, m)
    <3> DEFINE n == [m EXCEPT !.waiting_count = m.waiting_count + 1]
    <3>1. n \in Mutex /\ n.live /\ n.waiting_count = m.waiting_count + 1
      BY <2>2 DEF Mutex
    <3>2. SetMutex(id, n)
      BY <2>5 DEF LockWait
    <3>3. UNCHANGED blocked_by \/ blocked_by' = [blocked_by EXCEPT ![current] = BlockMutex(id)]
      BY <2>5 DEF LockWait, yield_thread, Panic
    <3> HIDE DEF n
    <3> QED BY <2>2, <3>1, <3>2, <3>3 DEF MutexWritten
  <2> QED BY <2>2, <2>3, <2>4, <2>5 DEF lock_mutex
<1>3. CASE pthread_mutex_lock(p) \/ pthread_mutex_trylock(p)
  BY <1>2, <1>3 DEF pthread_mutex_lock, pthread_mutex_trylock
<1>4. CASE pthread_mutex_unlock(p)
  <2> DEFINE id == IdOf(p)
             m == MutexOf(p)
  <2>1. HasMagic(p)
    BY <1>4 DEF pthread_mutex_unlock, check_or_register_mutex
  <2>2. id \in MutexIds /\ m \in Mutex /\ m.live /\ m.waiting_count = mutexes[id].waiting_count
        /\ (m.owner = None <=> m.lock_count = 0)
    BY <1>4, <2>1, MutexBehindHandle, MutexOfCount
  <2>3. UNCHANGED blocked_by
        /\ \/ SetMutex(id, m)
           \/ UNCHANGED mutexes
           \/ unlock_result(m) = "ok" /\ SetMutex(id, Unlocked(m))
    <3>1. CASE unlock_result(m) = "panic"
      BY <1>4, <3>1 DEF pthread_mutex_unlock, Panic
    <3>2. CASE unlock_result(m) = "EPERM"
      BY <1>4, <3>2 DEF pthread_mutex_unlock, Return, runVars
    <3>3. CASE unlock_result(m) = "ok"
      BY <1>4, <3>3 DEF pthread_mutex_unlock, Return, runVars
    <3> QED BY <3>1, <3>2, <3>3 DEF unlock_result
  <2> HIDE DEF id, m
  <2>4. ASSUME unlock_result(m) = "ok" 
        PROVE Unlocked(m) \in Mutex /\ Unlocked(m).live
              /\ Unlocked(m).waiting_count = m.waiting_count
    <3>1. m.owner # None
      BY <2>4 DEF unlock_result
    <3>2. m.lock_count \in Nat /\ m.lock_count # 0
      BY <2>2, <3>1 DEF Mutex
    <3>3. CASE m.lock_count = 1
      BY <2>2, <3>3 DEF Unlocked, Mutex
    <3>4. CASE m.lock_count # 1
      BY <2>2, <3>2, <3>4 DEF Unlocked, Mutex
    <3> QED BY <3>3, <3>4
  <2> QED BY <2>2, <2>3, <2>4 DEF MutexWritten
<1>5. CASE pthread_mutex_destroy(p)
  <2> DEFINE id == handle[p]
  <2>1. id \in MutexIds /\ UNCHANGED blocked_by
        /\ \/ UNCHANGED mutexes
           \/ mutexes[id].waiting_count = 0 /\ SetMutex(id, NoMutex)
    <3>1. id \in MutexIds /\ UNCHANGED blocked_by
      BY <1>5 DEF pthread_mutex_destroy, Return, runVars
    <3>2. CASE DestroyBusy(mutexes[id])
      BY <1>5, <3>1, <3>2 DEF pthread_mutex_destroy
    <3>3. CASE ~DestroyBusy(mutexes[id])
      BY <1>5, <3>1, <3>3 DEF pthread_mutex_destroy, DestroyBusy
    <3> QED BY <3>1, <3>2, <3>3
  <2>2. NoMutex \in Mutex /\ NoMutex.waiting_count = 0
    BY DEF NoMutex, Mutex
  <2> HIDE DEF id
  <2> QED BY <2>1, <2>2 DEF MutexWritten
<1> QED BY <1>1, <1>3, <1>4, <1>5 DEF MutexCall

LEMMA WaitersInvInit == Init => WaitersInv
<1> SUFFICES ASSUME Init PROVE WaitersInv
  OBVIOUS
<1>1. blocked_by = [t \in ThreadIds |-> NotBlocked] /\ mutexes = [id \in MutexIds |-> NoMutex]
  BY DEF Init
<1>2. \A t \in ThreadIds : blocked_by[t].kind = "none"
  BY <1>1, BlockKinds
<1>3. \A id : MutexWaiters(id) = {}
  BY <1>2 DEF MutexWaiters
<1>4. \A id \in MutexIds : mutexes[id].waiting_count = 0
  BY <1>1 DEF NoMutex
<1>5. ASSUME NEW id \in MutexIds PROVE Counted(id)
  BY <1>3, <1>4, FS_EmptySet DEF Counted
<1> QED BY <1>2, <1>5 DEF WaitersInv, NoCondBlock

\* A step that writes no mutex and blocks nobody on one.
LEMMA OtherKeepsWaitersInv ==
  ASSUME WaitersInv, ThreadInv, TypeMutexes, BlocksBut({"mutex", "cond"}),
         UNCHANGED <<mutexes, conds>>
  PROVE  WaitersInv'
<1> SUFFICES ASSUME CondsUntouched
             PROVE  /\ \A t \in ThreadIds : NoCondBlock(blocked_by'[t])
                    /\ \A id \in MutexIds : Counted(id)'
  BY DEF WaitersInv, CondsUntouched
<1>1. TypeThreads /\ current \in ThreadIds
  BY ThreadsAssumption DEF ThreadInv, TypeThreads, Existing, ThreadIds
<1>2. (\A t \in ThreadIds : NoCondBlock(blocked_by[t])) /\ \A id \in MutexIds : Counted(id)
  BY DEF WaitersInv
<1>3. ASSUME NEW id \in MutexIds PROVE Counted(id)'
  <2>1. mutexes[id].waiting_count \in Nat /\ mutexes' = mutexes
    BY DEF TypeMutexes, Mutex
  <2>2. Counted(id) /\ (mutexes[id].live \/ mutexes[id].waiting_count = 0)
    BY <1>2 DEF Counted
  <2>3. MutexWaiters(id)' \subseteq MutexWaiters(id)
    BY <1>1, FewerWaiters
  <2> QED BY <2>1, <2>2, <2>3, CountStays
<1> QED BY <1>1, <1>2, <1>3, FewerWaiters DEF NoCondBlock

\* lock_mutex counts a thread before it blocks it, and destroy_mutex refuses
\* a mutex that counts one.
LEMMA MutexCallKeepsWaitersInv ==
  ASSUME WaitersInv, ThreadInv, MutexInv, NEW p \in Mutexes, MutexCall(p)
  PROVE  WaitersInv'
<1>1. TypeThreads /\ TypeMutexes /\ current \in ThreadIds /\ OwnedSane /\ HandlesSane
  BY ThreadsAssumption, MutexInvParts
     DEF ThreadInv, MutexInv, TypeThreads, Existing, ThreadIds
<1>2. MutexWritten /\ UNCHANGED conds
  BY <1>1, MutexCallCounts, MutexCallBlocks
<1> SUFFICES ASSUME CondsUntouched
             PROVE  /\ \A t \in ThreadIds : NoCondBlock(blocked_by'[t])
                    /\ \A id \in MutexIds : Counted(id)'
  BY <1>2 DEF WaitersInv, CondsUntouched
<1>3. (\A t \in ThreadIds : NoCondBlock(blocked_by[t])) /\ \A id \in MutexIds : Counted(id)
  BY DEF WaitersInv
<1>4. CASE UNCHANGED <<mutexes, blocked_by>>
  BY <1>3, <1>4 DEF Counted, MutexWaiters
<1>5. ASSUME NEW id \in MutexIds, NEW m \in Mutex, CountWritten(id, m)
      PROVE  /\ \A t \in ThreadIds : NoCondBlock(blocked_by'[t])
             /\ \A i \in MutexIds : Counted(i)'
  <2>1. mutexes'[id] = m /\ (\A i \in MutexIds \ {id} : mutexes'[i] = mutexes[i])
        /\ mutexes \in [MutexIds -> Mutex]
    BY <1>1, <1>5 DEF CountWritten, SetMutex, OwnedSane
  <2>2. \/ UNCHANGED blocked_by
        \/ /\ blocked_by' = [blocked_by EXCEPT ![current] = BlockMutex(id)]
           /\ m.waiting_count = mutexes[id].waiting_count + 1 /\ m.live
    BY <1>5 DEF CountWritten
  <2>3. \A t \in ThreadIds :
          \/ blocked_by'[t] = blocked_by[t]
          \/ t = current /\ blocked_by'[t] = BlockMutex(id)
    <3>1. blocked_by \in [ThreadIds -> Block]
      BY <1>1 DEF TypeThreads
    <3> QED BY <2>2, <3>1
  <2>4. BlockMutex(id).kind = "mutex" /\ BlockMutex(id).on = id /\ NoCondBlock(BlockMutex(id))
    BY DEF BlockMutex, NotBlocked, NoCondBlock
  <2>5. \A t \in ThreadIds : NoCondBlock(blocked_by'[t])
    BY <1>3, <2>3, <2>4
  <2>6. ASSUME NEW i \in MutexIds, i # id PROVE Counted(i)'
    <3>1. MutexWaiters(i)' \subseteq MutexWaiters(i)
      BY <2>3, <2>4, <2>6 DEF MutexWaiters
    <3>2. mutexes'[i] = mutexes[i] /\ mutexes[i].waiting_count \in Nat
      BY <2>1, <2>6 DEF Mutex
    <3>3. Counted(i) /\ (mutexes[i].live \/ mutexes[i].waiting_count = 0)
      BY <1>3 DEF Counted
    <3> QED BY <3>1, <3>2, <3>3, CountStays
  <2>7. Counted(id)'
    <3>1. mutexes[id].waiting_count \in Nat /\ m.waiting_count \in Nat /\ Counted(id)
      BY <1>3, <2>1 DEF Mutex
    <3>2. CASE UNCHANGED blocked_by
      <4>1. MutexWaiters(id)' \subseteq MutexWaiters(id)
        BY <3>2 DEF MutexWaiters
      <4>2. m.waiting_count >= mutexes[id].waiting_count /\ (m.live \/ m.waiting_count = 0)
        BY <1>5, <3>1 DEF CountWritten
      <4> QED BY <2>1, <3>1, <4>1, <4>2, CountStays
    <3>3. CASE m.waiting_count = mutexes[id].waiting_count + 1 /\ m.live
      <4>1. MutexWaiters(id)' \subseteq MutexWaiters(id) \cup {current}
        BY <2>3 DEF MutexWaiters
      <4> QED BY <2>1, <3>1, <3>3, <4>1, CountGrows
    <3> QED BY <2>2, <3>2, <3>3
  <2> QED BY <2>5, <2>6, <2>7
<1> QED BY <1>2, <1>4, <1>5 DEF MutexWritten

\* Whatever a condition variable is used for, it is not static afterwards.
LEMMA CondCallTouches ==
  ASSUME conds \in [Conds -> Cond], NEW c \in Conds, CondCall(c), CondsUntouched'
  PROVE  UNCHANGED <<mutexes, conds, blocked_by>>
<1>1. conds'[c].st = "static"
  BY DEF CondsUntouched
<1>2. NewCond.st = "live" /\ CondStatic.st = "static"
  BY DEF NewCond, CondStatic
<1>3. \A h : SetCond(c, h) => h.st = "static"
  BY <1>1 DEF SetCond
<1>4. CondOf(c).st # "static"
  BY <1>2 DEF CondOf
<1>5. CASE pthread_cond_init(c)
  BY <1>2, <1>3, <1>5 DEF pthread_cond_init, Panic, mutexVars
<1>6. ASSUME NEW p \in Mutexes, NEW timed \in TimedWaits, pthread_cond_wait(c, p, timed)
      PROVE  UNCHANGED <<mutexes, conds, blocked_by>>
  <2>1. CASE WaitRefused(c, p)
    BY <1>6, <2>1 DEF pthread_cond_wait, Panic, mutexVars
  <2>2. CASE ~WaitRefused(c, p)
    <3> DEFINE h == [CondOf(c) EXCEPT !.curr_mutex = IdOf(p),
                                      !.waiting = Append(CondOf(c).waiting, current)]
    <3>1. SetCond(c, h)
      BY <1>6, <2>2 DEF pthread_cond_wait
    <3>2. CondOf(c) \in [st : {"static", "live", "gone"}, waiting : Seq(ThreadIds),
                         waking : Seq(ThreadIds), curr_mutex : MutexIds \cup {None}]
      BY FreshConds DEF CondOf, Cond
    <3>3. h.st = CondOf(c).st
      BY <3>2
    <3> QED BY <1>3, <1>4, <3>1, <3>3
  <2> QED BY <2>1, <2>2
<1>7. CASE pthread_cond_signal(c)
  <2> DEFINE h == CondOf(c)
             g == [h EXCEPT !.waiting = Tail(h.waiting),
                            !.waking = Append(h.waking, Head(h.waiting))]
  <2>1. (Panic("cond gone") /\ UNCHANGED <<conds, mutexes>>) \/ SetCond(c, h) \/ SetCond(c, g)
    BY <1>7 DEF pthread_cond_signal, mutexVars
  <2>2. h \in [st : {"static", "live", "gone"}, waiting : Seq(ThreadIds),
               waking : Seq(ThreadIds), curr_mutex : MutexIds \cup {None}]
    BY FreshConds DEF CondOf, Cond
  <2>3. g.st = h.st
    BY <2>2
  <2> QED BY <1>3, <1>4, <2>1, <2>3 DEF Panic
<1>8. CASE pthread_cond_broadcast(c)
  <2> DEFINE h == CondOf(c)
             g == [h EXCEPT !.waiting = <<>>, !.waking = h.waking \o h.waiting]
  <2>1. (Panic("cond gone") /\ UNCHANGED <<conds, mutexes>>) \/ SetCond(c, g)
    BY <1>8 DEF pthread_cond_broadcast, mutexVars
  <2>2. h \in [st : {"static", "live", "gone"}, waiting : Seq(ThreadIds),
               waking : Seq(ThreadIds), curr_mutex : MutexIds \cup {None}]
    BY FreshConds DEF CondOf, Cond
  <2>3. g.st = h.st
    BY <2>2
  <2> QED BY <1>3, <1>4, <2>1, <2>3 DEF Panic
<1>9. CASE pthread_cond_destroy(c)
  <2>1. (Panic("cond destroy") /\ UNCHANGED <<conds, mutexes>>)
        \/ SetCond(c, [CondStatic EXCEPT !.st = "gone"])
    BY <1>9 DEF pthread_cond_destroy, mutexVars
  <2>2. [CondStatic EXCEPT !.st = "gone"].st = "gone"
    BY DEF CondStatic
  <2> QED BY <1>3, <2>1, <2>2 DEF Panic
<1> QED BY <1>5, <1>6, <1>7, <1>8, <1>9 DEF CondCall

\* The scheduler takes one from the count of the mutex whose waiter it wakes.
LEMMA ScheduleKeepsWaitersInv ==
  ASSUME WaitersInv, TypeThreads, TypeMutexes, conds \in [Conds -> Cond],
         NEW t \in ThreadIds, schedule(t), CondsUntouched'
  PROVE  WaitersInv'
<1>1. CASE Look(t) \notin {"wake", "timeout"}
  <2>1. UNCHANGED <<mutexes, conds, blocked_by>>
    BY <1>1 DEF schedule, Panic, syncVars, mutexVars
  <2> QED BY <2>1 DEF WaitersInv, CondsUntouched, Counted, MutexWaiters
<1>2. CASE Look(t) \in {"wake", "timeout"}
  <2> DEFINE b == blocked_by[t]
  <2>1. Fulfil(t) /\ ~PassedOver(t) /\ blocked_by' = [blocked_by EXCEPT ![t] = NotBlocked]
    BY <1>2 DEF schedule, Look, SchedPanics
  <2>2. \A c \in Conds : conds'[c].st = conds[c].st
    <3> DEFINE c == b.obj
               woken == Tail(conds[c].waking)
               kept == Retain(conds[c].waiting, t)
    <3>1. conds' = IF b.kind # "cond" THEN conds
                   ELSE IF Look(t) = "wake" THEN [conds EXCEPT ![c].waking = woken]
                   ELSE [conds EXCEPT ![c].waiting = kept]
      BY <2>1 DEF Fulfil
    <3> HIDE DEF woken, kept
    <3>2. CASE b.kind # "cond"
      BY <3>1, <3>2
    <3>3. CASE b.kind = "cond" /\ Look(t) = "wake"
      BY <3>1, <3>3 DEF Cond
    <3>4. CASE b.kind = "cond" /\ Look(t) # "wake"
      BY <3>1, <3>4 DEF Cond
    <3> QED BY <3>2, <3>3, <3>4
  <2>3. (\A u \in ThreadIds : NoCondBlock(blocked_by[u])) /\ \A id \in MutexIds : Counted(id)
    <3>1. CondsUntouched
      BY <2>2 DEF CondsUntouched
    <3> QED BY <3>1 DEF WaitersInv
  <2>4. blocked_by'[t].kind = "none" /\ \A u \in ThreadIds : u # t => blocked_by'[u] = blocked_by[u]
    BY <2>1, BlockKinds DEF TypeThreads
  <2>5. \A u \in ThreadIds : NoCondBlock(blocked_by'[u])
    BY <2>3, <2>4 DEF NoCondBlock
  <2>6. \A i : MutexWaiters(i)' \subseteq MutexWaiters(i) \ {t}
    BY <2>4 DEF MutexWaiters
  <2>7. ASSUME NEW i \in MutexIds, mutexes'[i] = mutexes[i] PROVE Counted(i)'
    <3>1. mutexes[i].waiting_count \in Nat
      BY DEF TypeMutexes, Mutex
    <3>2. Counted(i) /\ (mutexes[i].live \/ mutexes[i].waiting_count = 0)
      BY <2>3 DEF Counted
    <3>3. MutexWaiters(i)' \subseteq MutexWaiters(i)
      BY <2>6
    <3> QED BY <2>7, <3>1, <3>2, <3>3, CountStays
  <2>8. CASE b.kind = "mutex"
    <3>1. SetMutex(b.on, Relocked(t, mutexes[b.on])) /\ Look(t) = LookMutex(b.on)
      BY <2>1, <2>8 DEF Fulfil, relock_unblocked_mutex_for_thread, Look
    <3>2. mutexes[b.on].live
      BY <1>2, <3>1 DEF LookMutex, Relocks
    <3>3. ASSUME NEW i \in MutexIds PROVE Counted(i)'
      <4>1. CASE i # b.on
        <5>1. mutexes'[i] = mutexes[i]
          BY <3>1, <4>1 DEF SetMutex, TypeMutexes
        <5> QED BY <2>7, <5>1
      <4>2. CASE i = b.on
        <5>1. mutexes'[i] = Relocked(t, mutexes[i]) /\ mutexes[i] \in Mutex
              /\ mutexes[i].waiting_count \in Nat /\ mutexes[i].live
          BY <3>1, <3>2, <4>2 DEF SetMutex, TypeMutexes, Mutex
        <5>2. t \in MutexWaiters(i)
          BY <2>8, <4>2 DEF MutexWaiters
        <5>3. Counted(i) /\ MutexWaiters(i)' \subseteq MutexWaiters(i) \ {t}
          BY <2>3, <2>6
        <5> QED BY <5>1, <5>2, <5>3, CountFalls
      <4> QED BY <4>1, <4>2
    <3> QED BY <2>5, <3>3 DEF WaitersInv
  <2>9. CASE b.kind # "mutex"
    <3>1. mutexes' = mutexes
      BY <2>1, <2>3, <2>9 DEF Fulfil, NoCondBlock
    <3> QED BY <2>5, <2>7, <3>1 DEF WaitersInv
  <2> QED BY <2>8, <2>9
<1> QED BY <1>1, <1>2

LEMMA WaitersInvStep ==
  ASSUME ThreadInv, MutexInv, ObjectsInv, WaitersInv, [Next]_vars
  PROVE  WaitersInv'
<1>0. /\ TypeThreads /\ TypeMutexes /\ Existing \subseteq ThreadIds
      /\ conds \in [Conds -> Cond]
  BY ThreadsAssumption
     DEF ThreadInv, MutexInv, ObjectsInv, TypeObjects, TypeThreads, Existing, ThreadIds
<1>1. ASSUME NEW p \in Mutexes, MutexCall(p) PROVE WaitersInv'
  BY <1>1, MutexCallKeepsWaitersInv
<1>2. ASSUME NEW c \in Conds, CondCall(c) PROVE WaitersInv'
  <2>1. CASE ~CondsUntouched'
    BY <2>1 DEF WaitersInv
  <2>2. CASE CondsUntouched'
    <3>1. UNCHANGED <<mutexes, conds, blocked_by>>
      BY <1>0, <1>2, <2>2, CondCallTouches
    <3> QED BY <3>1 DEF WaitersInv, CondsUntouched, Counted, MutexWaiters
  <2> QED BY <2>1, <2>2
<1>3. ASSUME NEW t \in Existing, schedule(t) PROVE WaitersInv'
  <2>1. CASE ~CondsUntouched'
    BY <2>1 DEF WaitersInv
  <2>2. CASE CondsUntouched'
    BY <1>0, <1>3, <2>2, ScheduleKeepsWaitersInv
  <2> QED BY <2>1, <2>2
<1>4. CASE \/ \E s \in Sems : SemCall(s)
           \/ \E f \in Files : FileCall(f)
           \/ ThreadCall
           \/ end_timeslice \/ no_thread_left \/ \E t \in Existing : deadline_passes(t)
  BY <1>0, <1>4, OtherBlocks, OtherKeepsWaitersInv
<1>5. CASE UNCHANGED vars
  <2>1. UNCHANGED <<mutexes, conds, blocked_by>>
    BY <1>5 DEF vars, syncVars, mutexVars, runVars
  <2> QED BY <2>1 DEF WaitersInv, CondsUntouched, Counted, MutexWaiters
<1> QED BY <1>1, <1>2, <1>3, <1>4, <1>5 DEF Next, Scheduling, ended

\* A mutex some thread is blocked on is not destroyed under it, for any number
\* of threads and mutexes, as long as no condition variable was used: the
\* unwrap() of relock_unblocked_mutex finds the mutex it relocks.
THEOREM WaitersAlwaysKeepMutex == Spec => []WaitersKeepMutex
<1>1. Init => WaitersInv
  BY WaitersInvInit
<1>2. ThreadInv /\ MutexInv /\ ObjectsInv /\ WaitersInv /\ [Next]_vars => WaitersInv'
  BY WaitersInvStep
<1>3. ThreadInv /\ MutexInv /\ WaitersInv => WaitersKeepMutex
  <2> SUFFICES ASSUME TypeThreads, TypeMutexes, WaitersInv, CondsUntouched,
                      NEW t \in ThreadIds, blocked_by[t].kind = "mutex"
               PROVE  mutexes[blocked_by[t].on].live
    BY DEF ThreadInv, MutexInv, WaitersKeepMutex, BlockedMutexLive
  <2> DEFINE id == blocked_by[t].on
  <2>1. id \in MutexIds /\ Counted(id) /\ t \in MutexWaiters(id)
    BY DEF WaitersInv, NoCondBlock, MutexWaiters
  <2> HIDE DEF id
  <2>2. IsFiniteSet(MutexWaiters(id)) /\ Cardinality(MutexWaiters(id)) \in Nat
    BY WaitersFinite
  <2>3. Cardinality(MutexWaiters(id)) # 0
    BY <2>1, <2>2, FS_EmptySet
  <2>4. mutexes[id].waiting_count # 0
    BY <2>1, <2>2, <2>3 DEF Counted, TypeMutexes, Mutex
  <2> QED BY <2>1, <2>4 DEF Counted, id
<1> QED BY <1>1, <1>2, <1>3, Invariance, ObjectsInvariance, PTL DEF Spec
=============================================================================
