------------------------------ MODULE Dispatch ------------------------------
(***************************************************************************)
(* Work handed to queues: Grand Central Dispatch (libc/dispatch.rs),       *)
(* pthread_once and thread-specific data (libc/pthread/once.rs, key.rs)    *)
(* and NSOperation with its queues (ns_operation_queue.rs).                *)
(*                                                                         *)
(* Queues have no threads of their own: a block runs at once, on the       *)
(* thread that hands it in.  Blocks are guest code, so another thread may  *)
(* go on while one runs, and a block may hand in further work.             *)
(***************************************************************************)
EXTENDS Integers, Sequences, FiniteSets, SequencesExt

CONSTANTS
  Threads, Nil,
  Created,        \* addresses of the queues a guest creates
  Objects,        \* addresses of semaphores and sources
  Predicates,     \* of dispatch_once and pthread_once
  Operations, Blocks,
  MaxDepth, MaxWork, MaxValue, PTHREAD_KEYS_MAX

VARIABLES
  main_queue, global_queues, queues, current_queue, semaphores, sources,
  predicates,   \* guest memory: which predicates are no longer zero
  operation,    \* NSOperationHostObject of each operation
  keys,         \* the slots: Nil, or the values by thread
  stack,        \* the blocks each thread is in
  work, once    \* pieces of work begun, and initialisers among them

dispatch_vars == <<main_queue, global_queues, queues, current_queue, semaphores, sources>>
vars == <<dispatch_vars, predicates, operation, keys, stack, work, once>>

NoQueue == [alive |-> FALSE, global |-> FALSE, specific |-> Nil]
New(global) == [alive |-> TRUE, global |-> global, specific |-> Nil]
Queues == {"main", "root"} \cup Created
NewOperation ==
  [cancelled |-> FALSE, executing |-> FALSE, finished |-> FALSE, dependencies |-> {},
   completion |-> FALSE, execution_blocks |-> <<>>]
Init ==
  /\ main_queue = Nil /\ global_queues = Nil /\ current_queue = Nil
  /\ queues = [q \in Queues |-> NoQueue]
  /\ semaphores = [o \in Objects |-> Nil] /\ sources = [o \in Objects |-> Nil]
  /\ predicates = {} /\ operation = [o \in Operations |-> NewOperation]
  /\ keys = <<>> /\ stack = [t \in Threads |-> <<>>] /\ work = 0 /\ once = [p \in Predicates |-> 0]

Frame(at, of, old, left) == [at |-> at, of |-> of, old |-> old, left |-> left]
Push(t, f) == stack' = [stack EXCEPT ![t] = Append(@, f)]
\* Guest code has room for another call (the bounds of the model)
MayCall(t) == Len(stack[t]) < MaxDepth /\ work < MaxWork /\ work' = work + 1

-----------------------------------------------------------------------------
(***************************************************************************)
(* Queues.  Only the default priority of the global queues is used.        *)
(***************************************************************************)
\* main_queue: the queue, created when it is first asked for
WithMain == [queues EXCEPT !["main"] = IF main_queue = Nil THEN New(TRUE) ELSE @]
dispatch_get_main_queue ==
  /\ main_queue = Nil /\ main_queue' = "main" /\ queues' = WithMain
  /\ UNCHANGED <<global_queues, current_queue, semaphores, sources, predicates, operation, keys, stack, work, once>>
dispatch_get_global_queue ==
  /\ global_queues = Nil /\ global_queues' = "root"
  /\ queues' = [queues EXCEPT !["root"] = New(TRUE)]
  /\ UNCHANGED <<main_queue, current_queue, semaphores, sources, predicates, operation, keys, stack, work, once>>
dispatch_queue_create(q) ==
  /\ ~queues[q].alive /\ queues' = [queues EXCEPT ![q] = New(FALSE)]
  /\ UNCHANGED <<main_queue, global_queues, current_queue, semaphores, sources, predicates, operation, keys, stack, work, once>>
dispatch_queue_set_specific(q, context) ==
  /\ queues[q].alive /\ queues' = [queues EXCEPT ![q].specific = context]
  /\ UNCHANGED <<main_queue, global_queues, current_queue, semaphores, sources, predicates, operation, keys, stack, work, once>>
\* What dispatch_get_specific and dispatch_get_current_queue tell a guest
dispatch_get_specific == IF current_queue = Nil THEN Nil ELSE queues[current_queue].specific
dispatch_get_current_queue == IF current_queue = Nil THEN "main" ELSE current_queue

\* run_block: the queue is current while the block runs, and then the one
\* that was current before
run_block(t, q, of) ==
  Push(t, Frame("block", of, current_queue, <<>>)) /\ current_queue' = q
\* dispatch_sync, dispatch_async and dispatch_after do the same
dispatch_sync(t, q) ==
  /\ queues[q].alive /\ MayCall(t) /\ run_block(t, q, q)
  /\ UNCHANGED <<main_queue, global_queues, queues, semaphores, sources, predicates, operation, keys, once>>
block_returns(t) ==
  /\ stack[t] # <<>> /\ Last(stack[t]).at = "block"
  /\ current_queue' = Last(stack[t]).old
  /\ stack' = [stack EXCEPT ![t] = Front(@)]
  /\ UNCHANGED <<main_queue, global_queues, queues, semaphores, sources, predicates, operation, keys, work, once>>
dispatch_release(o) ==
  /\ \/ /\ o \in Created /\ queues[o].alive /\ ~queues[o].global
        /\ queues' = [queues EXCEPT ![o] = NoQueue] /\ UNCHANGED <<semaphores, sources>>
     \/ /\ o \in Objects /\ semaphores[o] # Nil
        /\ semaphores' = [semaphores EXCEPT ![o] = Nil] /\ UNCHANGED <<queues, sources>>
     \/ /\ o \in Objects /\ sources[o] # Nil
        /\ sources' = [sources EXCEPT ![o] = Nil] /\ UNCHANGED <<queues, semaphores>>
  /\ UNCHANGED <<main_queue, global_queues, current_queue, predicates, operation, keys, stack, work, once>>

\* The predicate is left for the block to mark
once_begins_unmarked(t, p) ==
  /\ p \notin predicates
  /\ once' = [once EXCEPT ![p] = @ + 1] /\ UNCHANGED predicates
  /\ main_queue' = "main" /\ queues' = WithMain /\ run_block(t, "main", p)
\* The predicate is marked before the block runs: whoever comes second goes
\* on, also while it still runs
once_begins(t, p) ==
  /\ p \notin predicates
  /\ predicates' = predicates \cup {p} /\ once' = [once EXCEPT ![p] = @ + 1]
  /\ main_queue' = "main" /\ queues' = WithMain /\ run_block(t, "main", p)
dispatch_once(t, p) ==
  /\ MayCall(t) /\ once_begins(t, p)
  /\ UNCHANGED <<global_queues, semaphores, sources, operation, keys>>
\* dispatch_once_f and pthread_once leave the queues alone
pthread_once(t, p) ==
  /\ MayCall(t) /\ p \notin predicates
  /\ predicates' = predicates \cup {p} /\ once' = [once EXCEPT ![p] = @ + 1]
  /\ Push(t, Frame("routine", p, Nil, <<>>))
  /\ UNCHANGED <<dispatch_vars, operation, keys>>
routine_returns(t) ==
  /\ stack[t] # <<>> /\ Last(stack[t]).at \in {"routine", "completion"}
  /\ stack' = [stack EXCEPT ![t] = Front(@)]
  /\ UNCHANGED <<dispatch_vars, predicates, operation, keys, work, once>>

-----------------------------------------------------------------------------
(***************************************************************************)
(* Semaphores, which never make anybody wait, and sources, which never     *)
(* fire.                                                                   *)
(***************************************************************************)
Unused(o) == semaphores[o] = Nil /\ sources[o] = Nil
sem_unchanged == <<main_queue, global_queues, queues, current_queue, sources, predicates, operation, keys, stack, work, once>>
dispatch_semaphore_create(o, value) ==
  /\ Unused(o) /\ semaphores' = [semaphores EXCEPT ![o] = value] /\ UNCHANGED sem_unchanged
\* saturating_add: the largest value of an i64 is MaxValue here
dispatch_semaphore_signal(o) ==
  /\ semaphores[o] # Nil
  /\ semaphores' = [semaphores EXCEPT ![o] = IF @ < MaxValue THEN @ + 1 ELSE @] /\ UNCHANGED sem_unchanged
\* It returns 1 for a value of 0
dispatch_semaphore_wait(o) ==
  /\ semaphores[o] # Nil /\ semaphores[o] > 0
  /\ semaphores' = [semaphores EXCEPT ![o] = @ - 1] /\ UNCHANGED sem_unchanged
source_unchanged == <<main_queue, global_queues, queues, current_queue, semaphores, predicates, operation, keys, stack, work, once>>
dispatch_source_create(o) ==
  /\ Unused(o) /\ sources' = [sources EXCEPT ![o] = [handler |-> Nil, cancelled |-> FALSE]]
  /\ UNCHANGED source_unchanged
dispatch_source_set_event_handler(o, b) ==
  /\ sources[o] # Nil /\ sources' = [sources EXCEPT ![o].handler = b] /\ UNCHANGED source_unchanged
dispatch_source_cancel(o) ==
  /\ sources[o] # Nil /\ sources' = [sources EXCEPT ![o].cancelled = TRUE] /\ UNCHANGED source_unchanged

-----------------------------------------------------------------------------
(***************************************************************************)
(* Operations.                                                             *)
(***************************************************************************)
op_unchanged == <<dispatch_vars, predicates, keys, once>>
\* -[NSBlockOperation main] from the block it has come to: the next block, or
\* the end of -start and the completion block.  The blocks were copied.
Goes(t, below, o, left, ops, on) ==
  IF on
  THEN /\ stack' = [stack EXCEPT ![t] = Append(below, Frame("main", o, Nil, Tail(left)))]
       /\ operation' = ops
  ELSE /\ stack' = [stack EXCEPT ![t] = below \o (IF ops[o].completion THEN <<Frame("completion", o, Nil, <<>>)>> ELSE <<>>)]
       /\ operation' = [ops EXCEPT ![o].executing = FALSE, ![o].finished = TRUE]
main(t, below, o, left, ops) == Goes(t, below, o, left, ops, left # <<>> /\ ~ops[o].cancelled)
\* addOperation: sends it too, whatever the operation depends on
start(t, o) ==
  /\ ~operation[o].finished /\ MayCall(t)
  /\ IF operation[o].cancelled
     THEN operation' = [operation EXCEPT ![o].finished = TRUE] /\ UNCHANGED stack
     ELSE main(t, stack[t], o, operation[o].execution_blocks, [operation EXCEPT ![o].executing = TRUE])
  /\ UNCHANGED op_unchanged
execution_block_returns(t) ==
  /\ stack[t] # <<>> /\ Last(stack[t]).at = "main"
  /\ LET f == Last(stack[t]) IN main(t, Front(stack[t]), f.of, f.left, operation)
  /\ UNCHANGED <<op_unchanged, work>>
cancel(o) ==
  /\ operation' = [operation EXCEPT ![o].cancelled = TRUE] /\ UNCHANGED <<op_unchanged, stack, work>>
addExecutionBlock(o, b) ==
  /\ Len(operation[o].execution_blocks) < 2
  /\ operation' = [operation EXCEPT ![o].execution_blocks = Append(@, b)]
  /\ UNCHANGED <<op_unchanged, stack, work>>
setCompletionBlock(o) ==
  /\ operation' = [operation EXCEPT ![o].completion = TRUE] /\ UNCHANGED <<op_unchanged, stack, work>>
addDependency(o, d) ==
  /\ operation' = [operation EXCEPT ![o].dependencies = @ \cup {d}] /\ UNCHANGED <<op_unchanged, stack, work>>
removeDependency(o, d) ==
  /\ d \in operation[o].dependencies
  /\ operation' = [operation EXCEPT ![o].dependencies = @ \ {d}] /\ UNCHANGED <<op_unchanged, stack, work>>
isReady(o) == \A d \in operation[o].dependencies : operation[d].finished
\* addOperationWithBlock: the block runs, on no queue
addOperationWithBlock(t) ==
  /\ MayCall(t) /\ Push(t, Frame("routine", Nil, Nil, <<>>))
  /\ UNCHANGED <<op_unchanged, operation>>

-----------------------------------------------------------------------------
(***************************************************************************)
(* Thread-specific data: slots are used again, destructors are not called. *)
(***************************************************************************)
key_unchanged == <<dispatch_vars, predicates, operation, stack, work, once>>
NoValues == [t \in Threads |-> Nil]
FreeSlots == {i \in DOMAIN keys : keys[i] = Nil}
pthread_key_create ==
  /\ \/ /\ FreeSlots # {}
        /\ keys' = [keys EXCEPT ![CHOOSE i \in FreeSlots : \A j \in FreeSlots : i <= j] = NoValues]
     \/ FreeSlots = {} /\ Len(keys) < PTHREAD_KEYS_MAX /\ keys' = Append(keys, NoValues)
  /\ UNCHANGED key_unchanged
pthread_setspecific(t, i, v) ==
  /\ i \in DOMAIN keys /\ keys[i] # Nil /\ keys' = [keys EXCEPT ![i][t] = v] /\ UNCHANGED key_unchanged
pthread_getspecific(t, i) == IF i \in DOMAIN keys /\ keys[i] # Nil THEN keys[i][t] ELSE Nil
pthread_key_delete(i) ==
  /\ i \in DOMAIN keys /\ keys[i] # Nil /\ keys' = [keys EXCEPT ![i] = Nil] /\ UNCHANGED key_unchanged

-----------------------------------------------------------------------------
QueueNext ==
  \/ dispatch_get_main_queue \/ dispatch_get_global_queue
  \/ \E q \in Created : dispatch_queue_create(q) \/ dispatch_release(q)
  \/ \E q \in Queues, c \in {Nil, "context"} : dispatch_queue_set_specific(q, c)
  \/ \E t \in Threads :
       \/ block_returns(t) \/ routine_returns(t)
       \/ \E q \in Queues : dispatch_sync(t, q)
       \/ \E p \in Predicates : dispatch_once(t, p) \/ pthread_once(t, p)
SourceNext ==
  \/ \E o \in Objects :
       \/ dispatch_semaphore_create(o, 0) \/ dispatch_semaphore_signal(o) \/ dispatch_semaphore_wait(o)
       \/ dispatch_source_create(o) \/ dispatch_source_cancel(o) \/ dispatch_release(o)
       \/ \E b \in Blocks : dispatch_source_set_event_handler(o, b)
  \/ pthread_key_create
  \/ \E i \in DOMAIN keys : pthread_key_delete(i) \/ \E t \in Threads : pthread_setspecific(t, i, "value")
OperationNext ==
  \/ \E t \in Threads : execution_block_returns(t) \/ routine_returns(t) \/ addOperationWithBlock(t)
  \/ \E o \in Operations :
       \/ cancel(o) \/ setCompletionBlock(o)
       \/ \E t \in Threads : start(t, o)
       \/ \E b \in Blocks : addExecutionBlock(o, b)
       \/ \E d \in Operations : addDependency(o, d) \/ removeDependency(o, d)

-----------------------------------------------------------------------------
(***************************************************************************)
(* Properties.                                                             *)
(***************************************************************************)
\* An initialiser handed to dispatch_once or pthread_once runs once, whichever
\* threads ask for it and whatever it calls itself.
OnceOnly == \A p \in Predicates : once[p] <= 1

\* With one thread at work, the current queue is that of the innermost block,
\* also after blocks within it have come to their end, and none outside.
InBlocks(t) == SelectSeq(stack[t], LAMBDA f : f.at = "block")
QueueOf(f) == IF f.of \in Predicates THEN "main" ELSE f.of
QueueSeen ==
  \A t \in Threads : (\A u \in Threads \ {t} : stack[u] = <<>>) =>
    dispatch_get_current_queue = IF InBlocks(t) = <<>> THEN "main" ELSE QueueOf(Last(InBlocks(t)))

\* No block of a cancelled operation begins: main looks before each block,
\* also at those it copied before.
CancelledStops ==
  [][\A t \in Threads, o \in Operations :
       operation[o].cancelled /\ stack'[t] # stack[t] /\ stack'[t] # <<>> /\ Len(stack'[t]) >= Len(stack[t]) =>
         ~(Last(stack'[t]).at = "main" /\ Last(stack'[t]).of = o)]_vars
=============================================================================
