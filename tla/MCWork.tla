------------------------------- MODULE MCWork -------------------------------
(***************************************************************************)
(* What threads share beside the primitives of GuestThreads, in one run: a *)
(* behaviour is that of one of the guests, the other parts rest.           *)
(*   "classes"     +initialize             "sync"        @synchronized     *)
(*   "queues"      dispatch, one thread    "once"        two threads       *)
(*   "operations"  NSOperation             "sources"     and thread data   *)
(*   "locks"       Foundation's locks      "threads"     NSThread          *)
(*   "posts"       notifications                                           *)
(***************************************************************************)
EXTENDS ObjCThreads

CONSTANTS Guests, Callers, Created, Objects, Predicates, Operations, Blocks, MaxDepth, MaxWork,
          MaxValue, PTHREAD_KEYS_MAX,
          Names, Things, Tokens, MaxEntries, MaxPosts
VARIABLES guest, main_queue, global_queues, queues, current_queue, semaphores, sources,
          predicates, operation, keys, calls, work, once,
          observers, held, references, posting, posts

\* Callers are the threads that hand work to queues
D == INSTANCE Dispatch WITH stack <- calls, Threads <- Callers
N == INSTANCE Notifications WITH refs <- references, MaxDepth <- 2, Sources <- {"a"}

queue_vars == <<main_queue, global_queues, queues, current_queue, predicates, calls, work, once>>
source_vars == <<semaphores, sources, keys>>
post_vars == <<observers, held, references, posting, posts>>
others == <<operation, queue_vars, source_vars, lock_vars, thread_vars, post_vars>>

\* Class "sub" of "mid" of "base"; +initialize of the top class uses the bottom one, the others the top
MCSuper == [c \in Classes |-> IF c = "sub" THEN "mid" ELSE IF c = "mid" THEN "base" ELSE Nil]
MCUses == [c \in Classes |-> IF c = "base" THEN {"sub"} ELSE {"base"}]

MCInit ==
  /\ Init /\ D!Init /\ LockInit /\ N!Init /\ guest \in Guests
  /\ guest # "locks" => class = "NSLock"
One == \A t \in Callers \ {"t1"} : calls'[t] = <<>>
MCNext ==
  /\ UNCHANGED guest
  /\ \/ guest = "classes" /\ ClassNext /\ UNCHANGED others
     \/ guest = "sync" /\ SyncNext /\ UNCHANGED others
     \/ guest = "queues" /\ D!QueueNext /\ One /\ UNCHANGED <<vars, lock_vars, thread_vars, post_vars>>
     \/ /\ guest = "once" /\ D!QueueNext
        /\ UNCHANGED <<global_queues, queues["root"], queues["mine"], vars, lock_vars, thread_vars, post_vars>>
     \/ guest = "operations" /\ D!OperationNext /\ UNCHANGED <<vars, lock_vars, thread_vars, post_vars>>
     \/ guest = "sources" /\ D!SourceNext /\ UNCHANGED <<vars, lock_vars, thread_vars, post_vars>>
     \/ guest = "locks" /\ LockNext /\ UNCHANGED <<vars, operation, queue_vars, source_vars, post_vars>>
     \/ guest = "threads" /\ ThreadNext /\ UNCHANGED <<vars, operation, queue_vars, source_vars, post_vars>>
     \/ guest = "posts" /\ N!Next /\ UNCHANGED <<vars, operation, queue_vars, source_vars, lock_vars, thread_vars>>
all_vars == <<guest, vars, others>>
MCSpec == MCInit /\ [][MCNext]_all_vars /\ ClassFairness

\* What is to run once runs once, and a block sees its own queue: see OnceOnly and QueueSeen of
\* Dispatch
OnceTrue == D!OnceOnly /\ (guest = "queues" => D!QueueSeen)
\* A thread that waits for +initialize goes on, and a cancelled operation ends: see WaiterGoesOn
\* of ObjCThreads and CancelledStops of Dispatch
WorkGoesOn == WaiterGoesOn /\ D!CancelledStops
=============================================================================
