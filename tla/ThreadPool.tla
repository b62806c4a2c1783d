----------------------------- MODULE ThreadPool ------------------------------
(***************************************************************************)
(* libass/ass_threading.c: the persistent worker pool and its nestable     *)
(* parallel-for, from creation to destruction.                             *)
(*                                                                         *)
(* One thread, Caller, owns the pool: it creates it, posts jobs and        *)
(* destroys it (an ASS_Renderer is driven by one thread).  The others are  *)
(* the workers.  A thread's C stack is the sequence stack[t] of its        *)
(* ass_thread_pool_run ("run") and run_claimed ("task") activations; a     *)
(* TaskRegion lives in the frame of the run that posted it and dies with   *)
(* it.  Code between lock and unlock is one step per loop iteration, with  *)
(* the lock a variable; the atomic increment of `done`, made without the   *)
(* lock, is a step of its own.                                             *)
(***************************************************************************)
EXTENDS Integers, Sequences, FiniteSets, SequencesExt

CONSTANTS
  NWorkers,         \* requested number of workers (n_threads - 1)
  Regions,          \* names of stack-allocated TaskRegions (bounds nesting)
  MaxCount,         \* bound on the task count of one run
  MaxCalls,         \* bound on the runs one task body posts
  Failures,         \* allocations that may fail: "pool", "threads", "start"
  NestedExclusive,  \* may an exclusive task post an exclusive job?
  Spurious          \* may condition variables wake up spuriously?

ASSUME ConstantsAssumption ==
  /\ NWorkers \in Nat
  /\ MaxCount \in Nat \ {0}
  /\ MaxCalls \in Nat
  /\ Failures \subseteq {"pool", "threads", "start"}
  /\ NestedExclusive \in BOOLEAN
  /\ Spurious \in BOOLEAN

Workers == 0 .. NWorkers - 1
Caller  == NWorkers            \* the thread that owns the pool
Threads == Workers \cup {Caller}
NoThread == -1
Outside  == -1                 \* SIZE_MAX in tls_thread_id

VARIABLES
  pool,           \* "none", "live" or "freed": the ass_thread_pool itself
  threads,        \* has pool->threads been allocated?
  lock,           \* the thread holding pool->lock, or NoThread
  asleep,         \* threads blocked in ass_cond_wait(&pool->cond)
  active,         \* regions linked from pool->head, most recent first
  region,         \* the TaskRegions
  n_workers, started, ready_workers, shutdown,
  stack,          \* per thread, its run and task activations, innermost last
  pc,             \* per thread, where it is
  tls_thread_id, tls_excl_depth

create == <<pool, threads, n_workers, started>>
tls    == <<tls_thread_id, tls_excl_depth>>
vars   == <<create, lock, asleep, active, region, ready_workers, shutdown,
            stack, pc, tls>>

\* A region that is not in use: its stack frame is gone.
Dead == [owner |-> NoThread, count |-> 0, next |-> 0, done |-> 0,
         exclusive |-> FALSE, ran |-> {}]

Indices(n) == 0 .. n - 1

Frame == [kind  : {"run", "task"}, reg : Regions, idx : Indices(MaxCount),
          id    : -1 .. NWorkers,     \* my_id: the scratch slot in use
          saved : -1 .. NWorkers,     \* tls_thread_id to restore
          calls : 0 .. MaxCalls]      \* runs this task body has posted

TaskRegion == [owner     : Threads \cup {NoThread},
               count     : 0 .. MaxCount,
               next      : 0 .. MaxCount,
               done      : Nat,
               exclusive : BOOLEAN,
               ran       : SUBSET Indices(MaxCount)]   \* indices finished

PC == {"create", "spawn", "finalize", "await", "await_relock", "idle",
       "publish", "inline", "loop", "body", "rejoin", "rejoin_last",
       "boot", "shut", "join", "off", "exited", "freed", "no_pool", "crashed"}

TypeOK ==
  /\ pool \in {"none", "live", "freed"}
  /\ threads \in BOOLEAN
  /\ lock \in Threads \cup {NoThread}
  /\ asleep \subseteq Threads
  /\ active \in Seq(Regions)
  /\ region \in [Regions -> TaskRegion]
  /\ n_workers \in 0 .. NWorkers
  /\ started \in 0 .. NWorkers
  /\ ready_workers \in Nat
  /\ shutdown \in BOOLEAN
  /\ stack \in [Threads -> Seq(Frame)]
  /\ pc \in [Threads -> PC]
  /\ tls_thread_id \in [Threads -> -1 .. NWorkers]
  /\ tls_excl_depth \in [Threads -> Int]

Init ==
  /\ pool = "none"
  /\ threads = FALSE
  /\ lock = NoThread
  /\ asleep = {}
  /\ active = <<>>
  /\ region = [r \in Regions |-> Dead]
  /\ n_workers = 0 /\ started = 0 /\ ready_workers = 0
  /\ shutdown = FALSE
  /\ stack = [t \in Threads |-> <<>>]
  /\ pc = [t \in Threads |-> IF t = Caller THEN "create" ELSE "off"]
  /\ tls_thread_id = [t \in Threads |-> Outside]
  /\ tls_excl_depth = [t \in Threads |-> 0]

-----------------------------------------------------------------------------
(* Locks and condition variables (external: pthreads or Win32)             *)

Goto(t, l) == pc' = [pc EXCEPT ![t] = l]

\* ass_mutex_lock, for a thread at one of its lock calls or waking from
\* ass_cond_wait: it must have been woken, and the mutex must be free.
Lock(t)   == t \notin asleep /\ lock = NoThread /\ lock' = t
Unlock(t) == lock = t /\ lock' = NoThread
Wait(t)   == Unlock(t) /\ asleep' = asleep \cup {t}
Broadcast == asleep' = {}

SpuriousWake(t) ==
  /\ Spurious
  /\ t \in asleep
  /\ asleep' = asleep \ {t}
  /\ UNCHANGED <<create, lock, active, region, ready_workers, shutdown,
                 stack, pc, tls>>

-----------------------------------------------------------------------------
(* Creation                                                                *)

\* ass_thread_pool_create up to the worker loop.  Failing to allocate the
\* pool or to initialise its lock returns NULL; failing to allocate the
\* thread array calls ass_thread_pool_destroy with n_workers already set.
Create ==
  /\ pc[Caller] = "create"
  /\ \/ /\ "pool" \in Failures
        /\ Goto(Caller, "no_pool")
        /\ UNCHANGED create
     \/ /\ pool' = "live"
        /\ n_workers' = NWorkers
        /\ UNCHANGED started
        /\ \/ /\ threads' = (NWorkers > 0)
              /\ Goto(Caller, IF NWorkers = 0 THEN "idle" ELSE "spawn")
           \/ /\ NWorkers > 0
              /\ "threads" \in Failures
              /\ UNCHANGED threads
              /\ Goto(Caller, "shut")
  /\ UNCHANGED <<lock, asleep, active, region, ready_workers, shutdown, stack,
                 tls>>

\* One iteration of the start loop.
Spawn ==
  /\ pc[Caller] = "spawn"
  /\ started < NWorkers
  /\ pc' = [pc EXCEPT ![started] = "boot"]
  /\ started' = started + 1
  /\ UNCHANGED <<pool, threads, n_workers, lock, asleep, active, region,
                 ready_workers, shutdown, stack, tls>>

\* The start loop ends, early if an argument or a thread cannot be had.
SpawnEnd ==
  /\ pc[Caller] = "spawn"
  /\ started = NWorkers \/ "start" \in Failures
  /\ Goto(Caller, "finalize")
  /\ UNCHANGED <<create, lock, asleep, active, region, ready_workers,
                 shutdown, stack, tls>>

\* Under the lock: n_workers takes the number of threads that did start.
Finalize ==
  /\ pc[Caller] = "finalize"
  /\ Lock(Caller)
  /\ n_workers' = started
  /\ Goto(Caller, "await")
  /\ UNCHANGED <<pool, threads, started, asleep, active, region,
                 ready_workers, shutdown, stack, tls>>

\* while (pool->ready_workers < started) wait; then the pool is returned.
Await ==
  /\ pc[Caller] = "await"
  /\ lock = Caller
  /\ IF ready_workers < started
       THEN Wait(Caller) /\ Goto(Caller, "await_relock")
       ELSE Unlock(Caller) /\ Goto(Caller, "idle") /\ UNCHANGED asleep
  /\ UNCHANGED <<create, active, region, ready_workers, shutdown, stack, tls>>

\* (Mutant: `if` for `while`.)
AwaitRelock_if ==
  /\ pc[Caller] = "await_relock"
  /\ Caller \notin asleep /\ lock = NoThread
  /\ Goto(Caller, "idle")
  /\ UNCHANGED <<create, lock, asleep, active, region, ready_workers, shutdown,
                 stack, tls>>

AwaitRelock ==
  /\ pc[Caller] = "await_relock"
  /\ Lock(Caller)
  /\ Goto(Caller, "await")
  /\ UNCHANGED <<create, asleep, active, region, ready_workers, shutdown,
                 stack, tls>>

\* worker_loop's entry: learn the id, announce readiness, start looping.
Boot(t) ==
  /\ pc[t] = "boot"
  /\ Lock(t)
  /\ tls_thread_id' = [tls_thread_id EXCEPT ![t] = t]
  /\ ready_workers' = ready_workers + 1
  /\ Broadcast
  /\ Goto(t, "loop")
  /\ UNCHANGED <<create, active, region, shutdown, stack, tls_excl_depth>>

-----------------------------------------------------------------------------
(* The loop shared by workers and waiting callers; entered with the lock   *)

\* (Mutant: exclusive regions are not skipped.)
Claimable_exclusive(t, r) == region[r].next < region[r].count

\* claim_index skips exclusive regions on a thread already running an
\* exclusive task, and regions with no unclaimed index.
Claimable(t, r) ==
  /\ ~(region[r].exclusive /\ tls_excl_depth[t] > 0)
  /\ region[r].next < region[r].count

NothingClaimable(t) == \A k \in DOMAIN active : ~Claimable(t, active[k])

\* The slot the running loop belongs to: worker_id, or my_id of the run.
LoopId(t) == IF stack[t] = <<>> THEN t ELSE Last(stack[t]).id

EnterTask(t, r) ==
  /\ stack' = [stack EXCEPT ![t] =
       Append(@, [kind |-> "task", reg |-> r, idx |-> region[r].next,
                  id |-> LoopId(t), saved |-> tls_thread_id[t], calls |-> 0])]
  /\ Goto(t, "body")

\* claim_index finds the first claimable region; run_claimed drops the lock
\* and enters the task body under the loop's id.
Claim(t) ==
  /\ pc[t] = "loop"
  /\ Unlock(t)
  /\ \E k \in DOMAIN active :
       LET r == active[k] IN
       /\ Claimable(t, r)
       /\ \A j \in 1 .. k - 1 : ~Claimable(t, active[j])
       /\ region' = [region EXCEPT ![r].next = @ + 1]
       /\ EnterTask(t, r)
       /\ tls_thread_id' = [tls_thread_id EXCEPT ![t] = LoopId(t)]
       /\ tls_excl_depth' = [tls_excl_depth EXCEPT ![t] =
                               IF region[r].exclusive THEN @ + 1 ELSE @]
  /\ UNCHANGED <<create, asleep, active, ready_workers, shutdown>>

\* (Mutant: leaves when every index is claimed, finished or not.)
ReturnFromRun_claimed(t) ==
  /\ pc[t] = "loop"
  /\ stack[t] # <<>>
  /\ NothingClaimable(t)
  /\ LET r == Last(stack[t]).reg IN
       /\ region[r].next = region[r].count
       /\ \E k \in DOMAIN active :
            active[k] = r /\ active' = RemoveAt(active, k)
       /\ region' = [region EXCEPT ![r] = Dead]
  /\ Unlock(t)
  /\ stack' = [stack EXCEPT ![t] = Front(@)]
  /\ Goto(t, IF Len(stack[t]) = 1 THEN "idle" ELSE "body")
  /\ UNCHANGED <<create, asleep, ready_workers, shutdown, tls>>

\* A caller's region is complete and nothing else can be helped with: unlink
\* the region and return into the task that posted it, or to the outside.
ReturnFromRun(t) ==
  /\ pc[t] = "loop"
  /\ stack[t] # <<>>
  /\ NothingClaimable(t)
  /\ LET r == Last(stack[t]).reg IN
       /\ region[r].done = region[r].count
       /\ \E k \in DOMAIN active :
            active[k] = r /\ active' = RemoveAt(active, k)
       /\ region' = [region EXCEPT ![r] = Dead]
  /\ Unlock(t)
  /\ stack' = [stack EXCEPT ![t] = Front(@)]
  /\ Goto(t, IF Len(stack[t]) = 1 THEN "idle" ELSE "body")
  /\ UNCHANGED <<create, asleep, ready_workers, shutdown, tls>>

\* Neither work to help with nor, yet, a reason to leave: sleep.
LoopWait(t) ==
  /\ pc[t] = "loop"
  /\ NothingClaimable(t)
  /\ IF stack[t] = <<>>
       THEN ~shutdown
       ELSE LET r == Last(stack[t]).reg IN region[r].done # region[r].count
  /\ Wait(t)
  /\ Goto(t, "rejoin")
  /\ UNCHANGED <<create, active, region, ready_workers, shutdown, stack, tls>>

\* A worker leaves only when shut down and out of work.
WorkerExit(t) ==
  /\ pc[t] = "loop"
  /\ stack[t] = <<>>
  /\ NothingClaimable(t)
  /\ shutdown
  /\ Unlock(t)
  /\ Goto(t, "exited")
  /\ UNCHANGED <<create, asleep, active, region, ready_workers, shutdown,
                 stack, tls>>

-----------------------------------------------------------------------------
(* Task bodies                                                             *)

\* The exclusive tasks t is in the middle of.
ExclusiveFrames(t) == {k \in DOMAIN stack[t] :
  stack[t][k].kind = "task" /\ region[stack[t][k].reg].exclusive}

\* ass_thread_pool_run, up to its lock call.  Without workers the indices are
\* run inline.  An exclusive task posts only non-exclusive jobs, as rendering
\* an event does, unless NestedExclusive.
Run(t) ==
  /\ \/ pc[t] = "idle"
     \/ pc[t] = "body" /\ Last(stack[t]).calls < MaxCalls
  /\ \E r \in Regions, n \in 1 .. MaxCount, x \in BOOLEAN :
       LET my_id == IF tls_thread_id[t] = Outside THEN n_workers
                                                   ELSE tls_thread_id[t]
           frame == [kind |-> "run", reg |-> r, idx |-> 0, id |-> my_id,
                     saved |-> tls_thread_id[t], calls |-> 0]
           below == IF stack[t] = <<>> THEN <<>>
                    ELSE [stack[t] EXCEPT ![Len(stack[t])].calls = @ + 1]
       IN /\ region[r].owner = NoThread
          /\ x => NestedExclusive \/ ExclusiveFrames(t) = {}
          /\ region' = [region EXCEPT ![r] =
               [owner |-> t, count |-> n, next |-> 0, done |-> 0,
                exclusive |-> x, ran |-> {}]]
          /\ stack' = [stack EXCEPT ![t] = Append(below, frame)]
          /\ IF n_workers = 0
               THEN /\ Goto(t, "inline")
                    /\ tls_thread_id' = [tls_thread_id EXCEPT ![t] = my_id]
               ELSE Goto(t, "publish") /\ UNCHANGED tls_thread_id
  /\ UNCHANGED <<create, lock, asleep, active, ready_workers, shutdown,
                 tls_excl_depth>>

\* Under the lock: link the region at the head of the list, wake everybody.
Publish(t) ==
  /\ pc[t] = "publish"
  /\ Lock(t)
  /\ active' = <<Last(stack[t]).reg>> \o active
  /\ Broadcast
  /\ Goto(t, "loop")
  /\ UNCHANGED <<create, region, ready_workers, shutdown, stack, tls>>

Finished(reg, i) == [reg EXCEPT !.done = @ + 1, !.ran = @ \cup {i}]

\* The tail of run_claimed: restore the thread's state, then release-increment
\* done.  The count is read first, because the region may die right after.
\* A task run inline (no workers) only moves the for loop on.
FinishTask(t) ==
  /\ pc[t] = "body"
  /\ LET f == Last(stack[t])
         r == f.reg
         last == region[r].done + 1 = region[r].count
     IN /\ region' = [region EXCEPT ![r] = Finished(@, f.idx)]
        /\ IF n_workers = 0
             THEN Goto(t, "inline") /\ UNCHANGED tls
             ELSE /\ Goto(t, IF last THEN "rejoin_last" ELSE "rejoin")
                  /\ tls_thread_id' = [tls_thread_id EXCEPT ![t] = f.saved]
                  /\ tls_excl_depth' = [tls_excl_depth EXCEPT ![t] =
                       IF region[r].exclusive THEN @ - 1 ELSE @]
  /\ stack' = [stack EXCEPT ![t] = Front(@)]
  /\ UNCHANGED <<create, lock, asleep, active, ready_workers, shutdown>>

\* (Mutant: the owner is not woken.)
Rejoin_quiet(t) ==
  /\ pc[t] \in {"rejoin", "rejoin_last"}
  /\ Lock(t)
  /\ Goto(t, "loop")
  /\ UNCHANGED <<create, asleep, active, region, ready_workers, shutdown, stack,
                 tls>>

\* Retaking the lock after a task or after ass_cond_wait; whoever finished the
\* last task of a region wakes its owner.
Rejoin(t) ==
  /\ pc[t] \in {"rejoin", "rejoin_last"}
  /\ Lock(t)
  /\ IF pc[t] = "rejoin_last" THEN Broadcast ELSE UNCHANGED asleep
  /\ Goto(t, "loop")
  /\ UNCHANGED <<create, active, region, ready_workers, shutdown, stack, tls>>

\* for (i = 0; i < count; i++) task(arg, i, my_id), then return.
Inline(t) ==
  /\ pc[t] = "inline"
  /\ LET f == Last(stack[t])
         r == f.reg
     IN IF region[r].next < region[r].count
          THEN /\ region' = [region EXCEPT ![r].next = @ + 1]
               /\ EnterTask(t, r)
               /\ UNCHANGED tls_thread_id
          ELSE /\ region' = [region EXCEPT ![r] = Dead]
               /\ stack' = [stack EXCEPT ![t] = Front(@)]
               /\ tls_thread_id' = [tls_thread_id EXCEPT ![t] = f.saved]
               /\ Goto(t, IF Len(stack[t]) = 1 THEN "idle" ELSE "body")
  /\ UNCHANGED <<create, lock, asleep, active, ready_workers, shutdown,
                 tls_excl_depth>>

-----------------------------------------------------------------------------
(* Destruction, and building another pool                                  *)

\* ass_thread_pool_destroy: with workers, shut them down first.
Destroy ==
  /\ pc[Caller] = "idle"
  /\ IF n_workers = 0
       THEN Goto(Caller, "freed") /\ pool' = "freed"
       ELSE Goto(Caller, "shut") /\ UNCHANGED pool
  /\ UNCHANGED <<threads, n_workers, started, lock, asleep, active, region,
                 ready_workers, shutdown, stack, tls>>

\* (Mutant: sleeping workers are not woken.)
Shut_quiet ==
  /\ pc[Caller] = "shut"
  /\ lock = NoThread
  /\ shutdown' = TRUE
  /\ Goto(Caller, "join")
  /\ UNCHANGED <<create, lock, asleep, active, region, ready_workers, stack, tls>>

\* lock; shutdown = true; broadcast; unlock.
Shut ==
  /\ pc[Caller] = "shut"
  /\ lock = NoThread
  /\ shutdown' = TRUE
  /\ Broadcast
  /\ Goto(Caller, "join")
  /\ UNCHANGED <<create, lock, active, region, ready_workers, stack, tls>>

\* Join pool->threads[0 .. n_workers - 1], then free the pool.  Without the
\* array the first join dereferences a null pointer.
Join ==
  /\ pc[Caller] = "join"
  /\ IF threads
       THEN /\ \A t \in Indices(n_workers) : pc[t] = "exited"
            /\ pool' = "freed"
            /\ Goto(Caller, "freed")
       ELSE Goto(Caller, "crashed") /\ UNCHANGED pool
  /\ UNCHANGED <<threads, n_workers, started, lock, asleep, active, region,
                 ready_workers, shutdown, stack, tls>>

\* ass_renderer_update_pool builds a new pool after destroying the old one,
\* or tries again after a failure.  The new workers are new threads; the
\* caller keeps its thread-local state.
Restart ==
  /\ pc[Caller] \in {"freed", "no_pool"}
  /\ pool' = "none" /\ threads' = FALSE
  /\ n_workers' = 0 /\ started' = 0 /\ ready_workers' = 0
  /\ shutdown' = FALSE
  /\ pc' = [t \in Threads |-> IF t = Caller THEN "create" ELSE "off"]
  /\ tls_thread_id' = [t \in Threads |->
                         IF t = Caller THEN tls_thread_id[t] ELSE Outside]
  /\ UNCHANGED <<lock, asleep, active, region, stack, tls_excl_depth>>

-----------------------------------------------------------------------------

Lifecycle == \/ Create \/ Spawn \/ SpawnEnd \/ Finalize \/ Await
             \/ AwaitRelock \/ Destroy \/ Shut \/ Join \/ Restart

Loop(t) == Claim(t) \/ ReturnFromRun(t) \/ LoopWait(t) \/ WorkerExit(t)

Step(t) == \/ Boot(t) \/ Loop(t) \/ Run(t) \/ Publish(t) \/ FinishTask(t)
           \/ Rejoin(t) \/ Inline(t) \/ SpuriousWake(t)

Next == Lifecycle \/ \E t \in Threads : Step(t)

Spec == Init /\ [][Next]_vars

\* Threads keep running: a thread that holds the lock goes on, one that wants
\* a free mutex gets it, and a task body, which posts boundedly many jobs,
\* returns.  Nobody is obliged to post a job or to destroy the pool.
Progress(t) == \/ Boot(t) \/ Loop(t) \/ Publish(t) \/ FinishTask(t)
               \/ Rejoin(t) \/ Inline(t)
Fairness == /\ \A t \in Threads : WF_vars(Progress(t))
            /\ WF_vars(Create \/ Spawn \/ SpawnEnd \/ Finalize \/ Await
                         \/ AwaitRelock \/ Shut \/ Join)
FairSpec == Spec /\ Fairness

-----------------------------------------------------------------------------
(* Properties                                                              *)

Busy(t) == pc[t] \notin {"off", "exited"}
Open(r) == region[r].owner # NoThread

\* A thread inside a task, or in the run that posted a job, still holds a
\* pointer into that job's region: the region's stack frame must not have
\* been given up by its owner (the comment in run_claimed on reading count).
NoDanglingRegion ==
  \A t \in Threads : \A k \in DOMAIN stack[t] :
    LET r == stack[t][k].reg IN
    /\ Open(r)
    /\ \E j \in DOMAIN stack[region[r].owner] :
         stack[region[r].owner][j].kind = "run"
         /\ stack[region[r].owner][j].reg = r

\* Per-thread scratch (worker_ctx[worker_id]) belongs to one exclusive task at
\* a time: no two exclusive tasks in progress anywhere, nested on one thread
\* or running on two, were given the same worker_id.
ScratchExclusive ==
  \A t, u \in Threads :
    \A k \in ExclusiveFrames(t), j \in ExclusiveFrames(u) :
      stack[t][k].id = stack[u][j].id => t = u /\ k = j

\* run returns only after every one of its tasks ran, to completion.
CompleteOnReturn ==
  [][\A r \in Regions : Open(r) /\ ~Open(r)' =>
       region[r].ran = Indices(region[r].count)]_vars

\* No worker touches the pool after it is freed or before it is returned by
\* ass_thread_pool_create: it is freed only when they all have exited, and a
\* job is posted only when all that started have reached their loop.
PoolOutlivesWorkers ==
  /\ pool = "freed" => \A t \in Workers : ~Busy(t)
  /\ pc[Caller] = "idle" =>
       \A t \in Workers : pc[t] \notin {"boot", "exited"}

\* Creation returns a pool or, on failure, NULL; it does not crash.
NullOnFailure == pc[Caller] # "crashed"

\* Every posted job is eventually finished and its caller resumed.
EveryRunReturns == \A r \in Regions : Open(r) ~> ~Open(r)

\* Once started, destruction ends: no worker sleeps through the shutdown.
DestroyReturns == (pc[Caller] = "shut") ~> (pc[Caller] = "freed")

\* The pool implements the parallel-for its callers are promised.
\* A region not in use reads as a closed job: every field of Dead is empty.
JobOf(reg) == [count   |-> reg.count,
               todo    |-> reg.next .. reg.count - 1,
               running |-> Indices(reg.next) \ reg.ran,
               ran     |-> reg.ran]
PF == INSTANCE ParallelFor WITH job <- [r \in Regions |-> JobOf(region[r])]
ImplementsParallelFor == PF!Spec
=============================================================================
