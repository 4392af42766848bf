--------------------------- MODULE MCGuestThreads ---------------------------
(***************************************************************************)
(* Guest programs for model checking GuestThreads: each uses one family of *)
(* primitives, so that more threads and objects fit.  A behaviour is that  *)
(* of one guest, chosen at the start.                                      *)
(***************************************************************************)
EXTENDS GuestThreads

CONSTANT Guests   \* the guests to look at
VARIABLE guest

CreateOrExit == pthread_create(FALSE) \/ thread_exit
\* The mutex the guest with a condition variable uses with it
CondMutex == CHOOSE p \in Mutexes : TRUE

\* A guest that only uses mutexes
mutex_guest == (\E p \in Mutexes : MutexCall(p)) \/ CreateOrExit
\* A guest that uses a mutex, made once, and condition variables
cond_guest ==
  /\ MutexCall(CondMutex) \/ (\E c \in Conds : CondCall(c)) \/ CreateOrExit
  /\ mutex_count' <= 1
\* A guest that uses semaphores, FILE locks and sleeps
sem_guest ==
  (\E s \in Sems : SemCall(s)) \/ (\E f \in Files : FileCall(f)) \/ sleep \/ CreateOrExit
\* A guest that creates, joins, detaches and suspends threads
thread_guest == ThreadCall

GuestNext ==
  /\ \/ guest = "mutex" /\ mutex_guest
     \/ guest = "cond" /\ cond_guest
     \/ guest = "sem" /\ sem_guest
     \/ guest = "thread" /\ thread_guest
     \/ Scheduling
     \/ ended
  /\ UNCHANGED guest
GuestInit == Init /\ guest \in Guests
GuestSpec == GuestInit /\ [][GuestNext]_<<vars, guest>>
FairGuestSpec == GuestSpec /\ Fairness
=============================================================================
