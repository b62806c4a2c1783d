-------------------------- MODULE ThreadPoolProofs --------------------------
(***************************************************************************)
(* Inductive invariants of ThreadPool, and what follows from them: the     *)
(* types are kept, no thread is left in a dead region, a run returns only  *)
(* when its tasks are done, the pool implements ParallelFor, no worker     *)
(* outlives it, and no two tasks share a scratch.                          *)
(***************************************************************************)
EXTENDS ThreadPool, FiniteSetTheorems, TLAPS

-----------------------------------------------------------------------------
(* The first inductive invariant: every variable keeps its type, every     *)
(* stack alternates runs and tasks in agreement with its thread's          *)
(* position, and the life cycle of pool and workers is as                  *)
(* ass_thread_pool_create and ass_thread_pool_destroy leave it.            *)

\* Pushing a frame adds it at the end and moves nothing else.
LEMMA AppendFacts ==
  ASSUME NEW s \in Seq(Frame), NEW e \in Frame
  PROVE  /\ Append(s, e) \in Seq(Frame)
         /\ Len(Append(s, e)) = Len(s) + 1
         /\ DOMAIN Append(s, e) = 1 .. Len(s) + 1
         /\ DOMAIN s = 1 .. Len(s)
         /\ Append(s, e) # <<>>
         /\ Append(s, e)[Len(s) + 1] = e
         /\ \A k \in 1 .. Len(s) : Append(s, e)[k] = s[k]
         /\ Last(Append(s, e)) = e
BY DEF Last

\* Popping a frame takes away the last one and moves nothing else.
LEMMA FrontFacts ==
  ASSUME NEW s \in Seq(Frame), s # <<>>
  PROVE  /\ Front(s) \in Seq(Frame)
         /\ Len(s) \in Nat \ {0}
         /\ Len(Front(s)) = Len(s) - 1
         /\ DOMAIN Front(s) = 1 .. Len(s) - 1
         /\ DOMAIN s = 1 .. Len(s)
         /\ \A k \in 1 .. Len(s) - 1 : Front(s)[k] = s[k]
         /\ Last(s) = s[Len(s)] /\ Last(s) \in Frame
         /\ Front(s) = <<>> <=> Len(s) = 1
         /\ Len(s) > 1 => Last(Front(s)) = s[Len(s) - 1]
         /\ \A k \in 1 .. Len(s) : s[k] \in Frame
<1>1. Len(s) \in Nat \ {0} /\ DOMAIN s = 1 .. Len(s) /\ Last(s) = s[Len(s)] /\
         Last(s) \in Frame
  BY DEF Last
<1>2. Front(s) = SubSeq(s, 1, Len(s) - 1)
  BY DEF Front
<1>3. /\ Front(s) \in Seq(Frame)
         /\ Len(Front(s)) = Len(s) - 1
         /\ DOMAIN Front(s) = 1 .. Len(s) - 1
         /\ \A k \in 1 .. Len(s) - 1 : Front(s)[k] = s[k]
  BY <1>1, <1>2
<1>4. Front(s) = <<>> <=> Len(s) = 1
  BY <1>1, <1>3
<1>5. Len(s) > 1 => Last(Front(s)) = s[Len(s) - 1]
  BY <1>1, <1>3 DEF Last
<1> QED BY <1>1, <1>3, <1>4, <1>5

\* Unlinking an element leaves a sequence over the same set.
LEMMA RemoveAtFacts ==
  ASSUME NEW S, NEW s \in Seq(S), NEW k \in DOMAIN s
  PROVE  RemoveAt(s, k) \in Seq(S)
<1>1. RemoveAt(s, k) = SubSeq(s, 1, k-1) \o SubSeq(s, k+1, Len(s))
  BY DEF RemoveAt
<1>2. SubSeq(s, 1, k-1) \in Seq(S) /\ SubSeq(s, k+1, Len(s)) \in Seq(S) OBVIOUS
<1> QED BY <1>1, <1>2

\* Where a thread can be with an empty stack.
IdlePC(t) == IF t = Caller
  THEN {"create", "spawn", "finalize", "await", "await_relock",
        "idle", "shut", "join", "freed", "no_pool", "crashed"}
  ELSE {"off", "boot", "loop", "rejoin", "rejoin_last", "exited"}

\* Where a thread can be inside activation f.
TopPC(f) == IF f.kind = "task" THEN {"body"}
            ELSE {"publish", "inline", "loop", "rejoin", "rejoin_last"}

\* The caller's stack starts with a run, a worker's with a task; runs and
\* tasks alternate from there on.
Alternates(t, s) == \A k \in DOMAIN s :
  IF k = 1 THEN s[k].kind = IF t = Caller THEN "run" ELSE "task"
           ELSE s[k].kind # s[k-1].kind

\* Stack s and program counter p of thread t fit together.
ShapeOf(t, s, p) ==
  /\ Alternates(t, s)
  /\ s = <<>> => p \in IdlePC(t)
  /\ s # <<>> => p \in TopPC(Last(s))

\* run posts from a task body and run_claimed runs in a run's loop: the C stack
\* of each thread alternates between the two and agrees with its position.
StackShape == \A t \in Threads : ShapeOf(t, stack[t], pc[t])

\* What ass_thread_pool_create and _destroy establish about n_workers, the
\* thread array and the threads, at each stage.
Startup ==
  /\ started <= n_workers
  /\ \A t \in Workers : t >= started => pc[t] = "off"
  /\ pc[Caller] \in {"create", "no_pool"} =>
       n_workers = 0 /\ started = 0 /\ ~threads
  /\ pc[Caller] \in {"spawn", "finalize"} => n_workers = NWorkers
  /\ threads /\ pc[Caller] \notin {"spawn", "finalize"} => n_workers = started
  /\ pc[Caller] = "freed" => \A t \in Workers : pc[t] \in {"off", "exited"}
  /\ \A t \in Threads : pc[t] = "inline" => n_workers = 0
  /\ pc[Caller] \in {"publish", "loop", "rejoin", "rejoin_last"} =>
           n_workers > 0

\* The first inductive invariant: types, stacks and life cycle.
WellFormed == TypeOK /\ StackShape /\ Startup

\* Threads are 0 .. NWorkers, the caller the last of them.
LEMMA ThreadFacts ==
  /\ NWorkers \in Nat /\ MaxCount \in Nat \ {0} /\ MaxCalls \in Nat
  /\ Workers = 0 .. NWorkers - 1
  /\ Caller = NWorkers
  /\ Caller \in Threads /\ Caller \notin Workers
  /\ Threads = 0 .. NWorkers
  /\ Workers \subseteq Threads
  /\ \A t \in Threads : t \in Workers <=> t # Caller
BY ConstantsAssumption DEF Workers, Caller, Threads

\* An unused region is a well-typed one.
LEMMA DeadRegion == Dead \in TaskRegion
BY ThreadFacts DEF Dead, TaskRegion, Indices

\* The initial state is well formed.
LEMMA InitWellFormed == Init => WellFormed
<1> SUFFICES ASSUME Init PROVE WellFormed OBVIOUS
<1>1. TypeOK
  <2>1. region \in [Regions -> TaskRegion]
    BY DeadRegion DEF Init
  <2>2. stack \in [Threads -> Seq(Frame)] /\ active \in Seq(Regions)
    BY DEF Init
  <2>3. pc \in [Threads -> PC]
    BY DEF Init, PC
  <2>4. tls_thread_id \in [Threads -> -1 .. NWorkers]
    BY ThreadFacts DEF Init, Outside
  <2>5. tls_excl_depth \in [Threads -> Int]
    BY DEF Init
  <2>7. threads \in BOOLEAN /\ shutdown \in BOOLEAN
    BY Zenon DEF Init
  <2>6. /\ pool \in {"none", "live", "freed"}
        /\ lock \in Threads \cup {NoThread} /\ asleep \subseteq Threads
        /\ n_workers \in 0 .. NWorkers /\ started \in 0 .. NWorkers
        /\ ready_workers \in Nat
    BY ThreadFacts DEF Init
  <2> QED
    BY <2>1, <2>2, <2>3, <2>4, <2>5, <2>6, <2>7 DEF TypeOK
<1>2. StackShape
  BY ThreadFacts DEF Init, StackShape, ShapeOf, Alternates, IdlePC
<1>3. Startup
  BY ThreadFacts DEF Init, Startup
<1> QED BY <1>1, <1>2, <1>3 DEF WellFormed

\* Pushing an activation of the other kind keeps a stack well shaped.
LEMMA Pushed ==
  ASSUME NEW t \in Threads, NEW s \in Seq(Frame), NEW f \in Frame, NEW p, NEW q,
         ShapeOf(t, s, p),
         s = <<>> => f.kind = IF t = Caller THEN "run" ELSE "task",
         s # <<>> => f.kind # Last(s).kind,
         q \in TopPC(f)
  PROVE ShapeOf(t, Append(s, f), q)
<1> DEFINE a == Append(s, f)
<1>0. /\ Len(s) \in Nat /\ DOMAIN s = 1 .. Len(s)
      /\ DOMAIN a = 1 .. Len(s) + 1 /\ a # <<>>
      /\ a[Len(s) + 1] = f /\ Last(a) = f
      /\ \A k \in 1 .. Len(s) : a[k] = s[k]
  BY AppendFacts
<1>1. s = <<>> \/ Len(s) > 0 OBVIOUS
<1> SUFFICES ShapeOf(t, a, q) OBVIOUS
<1> HIDE DEF a
<1>2. Alternates(t, a)
  <2> SUFFICES \A k \in DOMAIN a :
       IF k = 1 THEN a[k].kind = IF t = Caller THEN "run" ELSE "task"
                ELSE a[k].kind # a[k-1].kind
    BY DEF Alternates
  <2> TAKE k \in DOMAIN a
  <2>1. CASE k = Len(s) + 1
    <3>1. CASE s = <<>> BY <1>0, <2>1, <3>1 DEF ShapeOf, Alternates
    <3>2. CASE s # <<>> BY <1>0, <1>1, <2>1, <3>2 DEF ShapeOf, Alternates, Last
    <3> QED BY <3>1, <3>2
  <2>2. CASE k \in 1 .. Len(s)
    <3>1. a[k] = s[k] /\ (k # 1 => a[k-1] = s[k-1]) BY <1>0, <2>2
    <3> QED BY <1>0, <2>2, <3>1 DEF ShapeOf, Alternates
  <2> QED BY <1>0, <2>1, <2>2
<1> QED BY <1>0, <1>2 DEF ShapeOf

\* Popping an activation keeps a stack well shaped.
LEMMA Popped ==
  ASSUME NEW t \in Threads, NEW s \in Seq(Frame), s # <<>>, NEW p, NEW q,
         ShapeOf(t, s, p),
         Len(s) = 1 => q \in IdlePC(t),
         Len(s) > 1 /\ Last(s).kind = "run" => q = "body",
         Len(s) > 1 /\ Last(s).kind # "run" =>
                  q \in {"inline", "rejoin", "rejoin_last"}
  PROVE ShapeOf(t, Front(s), q)
<1> DEFINE a == Front(s)
<1>0. /\ Len(s) \in Nat \ {0} /\ DOMAIN s = 1 .. Len(s)
      /\ DOMAIN a = 1 .. Len(s) - 1 /\ Last(s) = s[Len(s)]
      /\ \A k \in 1 .. Len(s) - 1 : a[k] = s[k]
      /\ a = <<>> <=> Len(s) = 1
      /\ Len(s) > 1 => Last(a) = s[Len(s) - 1]
      /\ Last(s) \in Frame /\ \A k \in 1 .. Len(s) : s[k] \in Frame
  BY FrontFacts
<1> SUFFICES ShapeOf(t, a, q) OBVIOUS
<1> HIDE DEF a
<1>1. Alternates(t, a)
  <2> SUFFICES \A k \in DOMAIN a :
       IF k = 1 THEN a[k].kind = IF t = Caller THEN "run" ELSE "task"
                ELSE a[k].kind # a[k-1].kind
    BY DEF Alternates
  <2> TAKE k \in DOMAIN a
  <2>1. k \in 1 .. Len(s) /\ a[k] = s[k] /\ (k # 1 => a[k-1] = s[k-1])
    BY <1>0
  <2>2. IF k = 1 THEN s[k].kind = IF t = Caller THEN "run" ELSE "task"
                ELSE s[k].kind # s[k-1].kind
    BY <1>0, <2>1 DEF ShapeOf, Alternates
  <2> QED BY <2>1, <2>2
<1>2. CASE Len(s) = 1
  <2>1. a = <<>> BY <1>0, <1>2
  <2> QED BY <1>1, <1>2, <2>1 DEF ShapeOf
<1>3. CASE Len(s) > 1
  <2>1. Last(s).kind # Last(a).kind
    <3>1. Len(s) # 1 /\ Len(s) \in DOMAIN s BY <1>0, <1>3
    <3>2. s[Len(s)].kind # s[Len(s) - 1].kind BY <3>1 DEF ShapeOf, Alternates
    <3> QED BY <1>0, <1>3, <3>2
  <2>2. Last(s).kind \in {"run", "task"} /\ Last(a).kind \in {"run", "task"}
    <3>1. Last(s) \in Frame /\ Last(a) \in Frame BY <1>0, <1>3
    <3> QED BY <3>1 DEF Frame
  <2>3. a # <<>> /\ Len(s) # 1 BY <1>0, <1>3
  <2>4. q \in TopPC(Last(a))
    BY <1>3, <2>1, <2>2 DEF TopPC
  <2> QED BY <1>1, <2>3, <2>4 DEF ShapeOf
<1> QED BY <1>0, <1>2, <1>3

\* If one thread's stack and position change and fit, all stacks still do.
LEMMA Moved ==
  ASSUME WellFormed, NEW t \in Threads, NEW s, NEW q, ShapeOf(t, s, q),
         stack' = [stack EXCEPT ![t] = s], pc' = [pc EXCEPT ![t] = q]
  PROVE  StackShape'
<1> SUFFICES ASSUME NEW u \in Threads PROVE ShapeOf(u, stack'[u], pc'[u])
  BY DEF StackShape, ShapeOf, Alternates, IdlePC, TopPC
<1>1. stack \in [Threads -> Seq(Frame)] /\ pc \in [Threads -> PC]
  BY DEF WellFormed, TypeOK
<1>2. CASE u = t BY <1>1, <1>2
<1>3. CASE u # t BY <1>1, <1>3 DEF WellFormed, StackShape
<1> QED BY <1>2, <1>3

\* The case of Moved in which the stack does not change.
LEMMA Stayed ==
  ASSUME WellFormed, NEW t \in Threads, NEW q, stack' = stack,
         pc' = [pc EXCEPT ![t] = q],
         stack[t] = <<>> => q \in IdlePC(t),
         stack[t] # <<>> => q \in TopPC(Last(stack[t]))
  PROVE  StackShape'
<1>1. stack \in [Threads -> Seq(Frame)] BY DEF WellFormed, TypeOK
<1>2. ShapeOf(t, stack[t], q) BY DEF WellFormed, StackShape, ShapeOf
<1>3. stack' = [stack EXCEPT ![t] = stack[t]] BY <1>1
<1> QED BY <1>2, <1>3, Moved

\* Where the caller can be outside ass_thread_pool_run.
CallerPC == {"create", "spawn", "finalize", "await", "await_relock",
             "idle", "shut", "join", "freed", "no_pool", "crashed"}

\* Moving one thread keeps the program counters typed.
LEMMA PcMoved ==
  ASSUME WellFormed, NEW t \in Threads, NEW q \in PC, pc' = [pc EXCEPT ![t] = q]
  PROVE  pc' \in [Threads -> PC]
BY DEF WellFormed, TypeOK

\* A caller that is creating or destroying the pool has an empty stack.
LEMMA CallerOutside ==
  ASSUME WellFormed, pc[Caller] \in CallerPC
  PROVE stack[Caller] = <<>>
<1>1. ShapeOf(Caller, stack[Caller], pc[Caller])
  BY ThreadFacts DEF WellFormed, StackShape
<1>2. stack[Caller] # <<>> => pc[Caller] \in TopPC(Last(stack[Caller]))
  BY <1>1 DEF ShapeOf
<1> QED BY <1>2 DEF TopPC, CallerPC

\* A move of the caller outside any run keeps stacks and positions.
LEMMA CallerMoved ==
  ASSUME WellFormed, pc[Caller] \in CallerPC, NEW q \in CallerPC,
         stack' = stack, Goto(Caller, q)
  PROVE  StackShape' /\ pc' \in [Threads -> PC]
<1>1. stack[Caller] = <<>> BY CallerOutside
<1>2. q \in IdlePC(Caller) BY DEF IdlePC, CallerPC
<1>3. StackShape' BY <1>1, <1>2, Stayed, ThreadFacts DEF Goto
<1>4. q \in PC BY DEF CallerPC, PC
<1> QED BY <1>3, <1>4, PcMoved, ThreadFacts DEF Goto

\* A worker that is not started yet, or has exited, has an empty stack.
LEMMA OffFacts ==
  ASSUME WellFormed, NEW t \in Workers, pc[t] \in {"off", "exited"}
  PROVE  stack[t] = <<>>
<1>1. ShapeOf(t, stack[t], pc[t]) BY ThreadFacts DEF WellFormed, StackShape
<1>2. stack[t] # <<>> => pc[t] \in TopPC(Last(stack[t])) BY <1>1 DEF ShapeOf
<1> QED BY <1>2 DEF TopPC

\* Creation and destruction keep the life-cycle invariant.
LEMMA StartupLifecycle == WellFormed /\ Lifecycle => Startup'
<1> SUFFICES ASSUME WellFormed, Lifecycle PROVE Startup' OBVIOUS
<1> USE DEF Startup
<1>0. /\ Caller \in Threads /\ Caller = NWorkers /\ NWorkers \in Nat /\
         Caller \notin Workers
      /\ Workers = 0 .. NWorkers - 1 /\ Threads = 0 .. NWorkers
      /\ pc \in [Threads -> PC] /\ Startup /\ started \in 0 .. NWorkers /\
               n_workers \in 0 .. NWorkers
  BY ThreadFacts DEF WellFormed, TypeOK
<1>a. \A t \in Threads : pc[t] = "inline" => t = Caller
  BY <1>0
<1>1. CASE Create BY <1>0, <1>a, <1>1 DEF Create, Goto, create
<1>2. CASE Spawn BY <1>0, <1>2 DEF Spawn
<1>3. CASE SpawnEnd BY <1>0, <1>3 DEF SpawnEnd, Goto, create
<1>4. CASE Finalize BY <1>0, <1>a, <1>4 DEF Finalize, Goto
<1>5. CASE Await BY <1>0, <1>5 DEF Await, Goto, create
<1>6. CASE AwaitRelock BY <1>0, <1>6 DEF AwaitRelock, Goto, create
<1>7. CASE Destroy BY <1>0, <1>7 DEF Destroy, Goto, create
<1>8. CASE Shut BY <1>0, <1>8 DEF Shut, Goto, create
<1>9. CASE Join BY <1>0, <1>9 DEF Join, Goto, create, Indices
<1>10. CASE Restart BY <1>0, <1>10 DEF Restart
<1> QED
  BY <1>1, <1>2, <1>3, <1>4, <1>5, <1>6, <1>7, <1>8, <1>9, <1>10 DEF Lifecycle

\* Creation and destruction keep the first invariant.
LEMMA LifecycleWellFormed == WellFormed /\ Lifecycle => WellFormed'
<1> SUFFICES ASSUME WellFormed, Lifecycle PROVE WellFormed' OBVIOUS
<1> USE DEF CallerPC
<1>0. Startup' BY StartupLifecycle
<1> SUFFICES TypeOK' /\ StackShape' BY <1>0 DEF WellFormed
<1>1. Caller \in Threads /\ Caller = NWorkers /\ NWorkers \in Nat BY ThreadFacts
<1>2. CASE Create
  <2>1. PICK q \in {"no_pool", "idle", "spawn", "shut"} : Goto(Caller, q)
    BY <1>2 DEF Create
  <2>2. StackShape' /\ pc' \in [Threads -> PC]
    BY <1>2, <2>1, CallerMoved DEF Create
  <2>3. /\ pool' \in {"none", "live", "freed"} /\ n_workers' \in 0 .. NWorkers
        /\ started' = started
    BY <1>1, <1>2 DEF Create, WellFormed, TypeOK, create
  <2>4. threads' \in BOOLEAN
    <3>1. (NWorkers > 0) \in BOOLEAN OBVIOUS
    <3> QED BY <1>2, <3>1, Zenon DEF Create, WellFormed, TypeOK, create
  <2> QED BY <1>2, <2>2, <2>3, <2>4 DEF WellFormed, Create, TypeOK, tls
<1>3. CASE Spawn
  <2> USE DEF Spawn
  <2>1. started \in Workers /\ started + 1 \in 0 .. NWorkers
    BY <1>3, ThreadFacts DEF WellFormed, TypeOK
  <2>2. StackShape'
    <3>1. pc[started] = "off"
      BY <2>1, ThreadFacts DEF WellFormed, Startup, TypeOK
    <3>2. stack[started] = <<>> BY <2>1, <3>1, OffFacts
    <3>3. "boot" \in IdlePC(started) BY <2>1, ThreadFacts DEF IdlePC
    <3> QED BY <1>3, <2>1, <3>2, <3>3, Stayed, ThreadFacts
  <2>3. pc' \in [Threads -> PC] BY <1>3, <2>1, PcMoved, ThreadFacts DEF PC
  <2> QED BY <1>3, <2>1, <2>2, <2>3 DEF WellFormed, TypeOK, tls
<1>4. CASE SpawnEnd
  <2>2. StackShape' /\ pc' \in [Threads -> PC]
    BY <1>4, CallerMoved DEF SpawnEnd
  <2> QED BY <1>4, <2>2 DEF WellFormed, SpawnEnd, TypeOK, tls, create
<1>5. CASE Finalize
  <2>2. StackShape' /\ pc' \in [Threads -> PC]
    BY <1>5, CallerMoved DEF Finalize
  <2> QED BY <1>1, <1>5, <2>2 DEF WellFormed, Finalize, TypeOK, tls, Lock
<1>6. CASE Await
  <2>1. PICK q \in {"await_relock", "idle"} : Goto(Caller, q)
    BY <1>6 DEF Await
  <2>2. StackShape' /\ pc' \in [Threads -> PC]
    BY <1>6, <2>1, CallerMoved DEF Await
  <2> QED
    BY <1>1, <1>6, <2>2 DEF WellFormed, Await, TypeOK, tls, create, Wait, Unlock
<1>7. CASE AwaitRelock
  <2>2. StackShape' /\ pc' \in [Threads -> PC]
    BY <1>7, CallerMoved DEF AwaitRelock
  <2> QED
    BY <1>1, <1>7, <2>2 DEF WellFormed, AwaitRelock, TypeOK, tls, create, Lock
<1>8. CASE Destroy
  <2>1. PICK q \in {"freed", "shut"} : Goto(Caller, q)
    BY <1>8 DEF Destroy
  <2>2. StackShape' /\ pc' \in [Threads -> PC]
    BY <1>8, <2>1, CallerMoved DEF Destroy
  <2> QED BY <1>8, <2>2 DEF WellFormed, Destroy, TypeOK, tls
<1>9. CASE Shut
  <2>2. StackShape' /\ pc' \in [Threads -> PC]
    BY <1>9, CallerMoved DEF Shut
  <2> QED BY <1>9, <2>2 DEF WellFormed, Shut, TypeOK, tls, create, Broadcast
<1>10. CASE Join
  <2>1. PICK q \in {"freed", "crashed"} : Goto(Caller, q)
    BY <1>10 DEF Join
  <2>2. StackShape' /\ pc' \in [Threads -> PC]
    BY <1>10, <2>1, CallerMoved DEF Join
  <2> QED BY <1>10, <2>2 DEF WellFormed, Join, TypeOK, tls
<1>11. CASE Restart
  <2> USE DEF Restart
  <2>2. StackShape'
    <3> SUFFICES ASSUME NEW t \in Threads PROVE ShapeOf(t, stack'[t], pc'[t])
      BY DEF StackShape, ShapeOf, Alternates, IdlePC, TopPC
    <3>1. stack[t] = <<>>
      <4>1. CASE t = Caller BY <1>11, <4>1, CallerOutside
      <4>2. CASE t # Caller
        <5>1. t \in Workers BY <4>2, ThreadFacts
        <5>2. pc[t] \in {"off", "exited"}
          <6>1. t >= started \/ pc[Caller] = "freed"
            BY <1>11, <5>1, ThreadFacts DEF WellFormed, Startup, TypeOK
          <6> QED BY <5>1, <6>1 DEF WellFormed, Startup
        <5> QED BY <5>1, <5>2, OffFacts
      <4> QED BY <4>1, <4>2
    <3>2. pc'[t] \in IdlePC(t) BY <1>11 DEF IdlePC
    <3> QED BY <1>11, <3>1, <3>2 DEF ShapeOf, Alternates
  <2>3. pc' \in [Threads -> PC] BY <1>11 DEF PC
  <2>4. tls_thread_id' \in [Threads -> -1 .. NWorkers]
    BY <1>1, <1>11 DEF WellFormed, TypeOK, Outside
  <2>5. threads' \in BOOLEAN /\ shutdown' \in BOOLEAN BY <1>11, Zenon
  <2>6. /\ pool' \in {"none", "live", "freed"} /\ ready_workers' \in Nat
        /\ n_workers' \in 0 .. NWorkers /\ started' \in 0 .. NWorkers
    BY <1>1, <1>11
  <2> QED BY <1>11, <2>2, <2>3, <2>4, <2>5, <2>6 DEF WellFormed, TypeOK
<1> QED
  BY <1>2, <1>3, <1>4, <1>5, <1>6, <1>7, <1>8, <1>9, <1>10, <1>11 DEF Lifecycle

\* A step of the pool at work keeps the life-cycle invariant.
LEMMA StartupStep ==
  ASSUME WellFormed, NEW t \in Threads, NEW q \in PC, Goto(t, q),
      UNCHANGED create,
         pc[t] \notin {"off", "exited"},
         t = Caller => pc[t] \notin CallerPC \ {"idle"} /\
                  q \notin CallerPC \ {"idle"},
         q = "inline" => n_workers = 0,
         t = Caller /\ q \in {"publish", "loop", "rejoin", "rejoin_last"} =>
                  n_workers # 0
  PROVE  Startup'
<1>0. /\ Caller \in Threads /\ Caller = NWorkers /\ NWorkers \in Nat /\
         Caller \notin Workers
      /\ Workers = 0 .. NWorkers - 1 /\ Threads = 0 .. NWorkers
      /\ pc \in [Threads -> PC] /\ Startup /\ started \in 0 .. NWorkers /\
               n_workers \in 0 .. NWorkers
  BY ThreadFacts DEF WellFormed, TypeOK
<1> QED BY <1>0 DEF Startup, Goto, create, CallerPC

\* What the position of a thread says about the top of its stack.
LEMMA ShapeFacts ==
  ASSUME WellFormed, NEW t \in Threads
  PROVE  /\ stack[t] \in Seq(Frame) /\ pc[t] \in PC
         /\ ShapeOf(t, stack[t], pc[t])
         /\ Len(stack[t]) \in Nat /\ DOMAIN stack[t] = 1 .. Len(stack[t])
         /\ pc[t] = "body" => stack[t] # <<>> /\ Last(stack[t]).kind = "task"
         /\ pc[t] \in {"publish", "inline"} =>
                  stack[t] # <<>> /\ Last(stack[t]).kind = "run"
         /\ pc[t] \in {"loop", "rejoin", "rejoin_last"} =>
              IF stack[t] = <<>> THEN t \in Workers ELSE Last(stack[t]).kind = "run"
         /\ pc[t] = "boot" => stack[t] = <<>> /\ t \in Workers
         /\ stack[t] # <<>> => Last(stack[t]) \in Frame
         /\ stack[t] # <<>> /\ Len(stack[t]) = 1 =>
              Last(stack[t]).kind = IF t = Caller THEN "run" ELSE "task"
<1>1. stack[t] \in Seq(Frame) /\ pc[t] \in PC /\ ShapeOf(t, stack[t], pc[t])
  BY DEF WellFormed, TypeOK, StackShape
<1>2. Len(stack[t]) \in Nat /\ DOMAIN stack[t] = 1 .. Len(stack[t]) BY <1>1
<1>3. stack[t] # <<>> => /\ Last(stack[t]) \in Frame
                         /\ Last(stack[t]).kind \in {"run", "task"}
                         /\ Last(stack[t]) = stack[t][Len(stack[t])]
                         /\ Len(stack[t]) \in DOMAIN stack[t]
  <2> SUFFICES ASSUME stack[t] # <<>> PROVE /\ Last(stack[t]) \in Frame
                         /\ Last(stack[t]).kind \in {"run", "task"}
                         /\ Last(stack[t]) = stack[t][Len(stack[t])]
                         /\ Len(stack[t]) \in DOMAIN stack[t]
    OBVIOUS
  <2>1. Last(stack[t]) \in Frame /\ Last(stack[t]) = stack[t][Len(stack[t])]
     /\ Len(stack[t]) \in Nat \ {0} BY <1>1, FrontFacts
  <2> QED BY <1>2, <2>1 DEF Frame
<1>4. stack[t] # <<>> => pc[t] \in TopPC(Last(stack[t])) BY <1>1 DEF ShapeOf
<1>5. stack[t] = <<>> => pc[t] \in IdlePC(t) BY <1>1 DEF ShapeOf
<1>6. stack[t] # <<>> /\ Len(stack[t]) = 1 =>
              Last(stack[t]).kind = IF t = Caller THEN "run" ELSE "task"
  BY <1>1, <1>2, <1>3 DEF ShapeOf, Alternates
<1>7. pc[t] = "body" => stack[t] # <<>> /\ Last(stack[t]).kind = "task"
  BY <1>3, <1>4, <1>5 DEF TopPC, IdlePC
<1>8. pc[t] \in {"publish", "inline"} =>
         stack[t] # <<>> /\ Last(stack[t]).kind = "run"
  BY <1>3, <1>4, <1>5 DEF TopPC, IdlePC
<1>9. pc[t] \in {"loop", "rejoin", "rejoin_last"} =>
              IF stack[t] = <<>> THEN t \in Workers ELSE Last(stack[t]).kind = "run"
  BY <1>3, <1>4, <1>5, ThreadFacts DEF TopPC, IdlePC
<1>10. pc[t] = "boot" => stack[t] = <<>> /\ t \in Workers
  BY <1>3, <1>4, <1>5, ThreadFacts DEF TopPC, IdlePC
<1> QED BY <1>1, <1>2, <1>3, <1>6, <1>7, <1>8, <1>9, <1>10

\* Steps that only move a thread's program counter keep the stack shape.
LEMMA PcStep ==
  ASSUME WellFormed, NEW t \in Threads, NEW q \in {"loop", "rejoin", "exited"},
         Goto(t, q), UNCHANGED <<create, stack>>,
         pc[t] \in {"boot", "loop", "publish", "rejoin", "rejoin_last"},
         q = "exited" => stack[t] = <<>>
  PROVE  Startup' /\ StackShape' /\ pc' \in [Threads -> PC]
<1>1. q \in PC BY DEF PC
<1>2. Startup'
  <2>1. t = Caller => n_workers # 0
    <3>1. t = Caller => pc[t] # "boot" BY ShapeFacts, ThreadFacts
    <3> QED BY <3>1, ThreadFacts DEF WellFormed, TypeOK, Startup
  <2>2. q # "inline" OBVIOUS
  <2>3. t = Caller => q # "exited"
    <3>1. t = Caller /\ stack[t] = <<>> => pc[t] \in IdlePC(t)
      BY ShapeFacts DEF ShapeOf
    <3> QED BY <3>1 DEF IdlePC
  <2> QED BY <1>1, <2>1, <2>2, <2>3, StartupStep DEF CallerPC
<1>3. stack[t] = <<>> => q \in IdlePC(t)
  BY ShapeFacts, ThreadFacts DEF IdlePC
<1>4. stack[t] # <<>> => q \in TopPC(Last(stack[t]))
  BY ShapeFacts DEF TopPC
<1>5. StackShape' BY <1>3, <1>4, Stayed DEF Goto
<1> QED BY <1>1, <1>2, <1>5, PcMoved DEF Goto

\* The task frame EnterTask builds is a well-typed frame.
LEMMA FrameBuilt ==
  ASSUME WellFormed, NEW t \in Threads, NEW r \in Regions,
      region[r].next < region[r].count
  PROVE  [kind |-> "task", reg |-> r, idx |-> region[r].next,
                  id |-> LoopId(t), saved |-> tls_thread_id[t],
                      calls |-> 0] \in Frame
<1>1. region[r] \in TaskRegion BY DEF WellFormed, TypeOK
<1>2. region[r].next \in Indices(MaxCount)
  BY <1>1, ThreadFacts DEF TaskRegion, Indices
<1>3. LoopId(t) \in -1 .. NWorkers
  <2>1. CASE stack[t] = <<>> BY <2>1, ThreadFacts DEF LoopId
  <2>2. CASE stack[t] # <<>>
    <3>1. Last(stack[t]) \in Frame BY <2>2, ShapeFacts
    <3> QED BY <2>2, <3>1 DEF LoopId, Frame
  <2> QED BY <2>1, <2>2
<1>4. tls_thread_id[t] \in -1 .. NWorkers /\ 0 \in 0 .. MaxCalls
  BY ThreadFacts DEF WellFormed, TypeOK
<1> QED BY <1>2, <1>3, <1>4 DEF Frame

\* Entering a task keeps stacks, positions and life cycle.
LEMMA EnterTaskWellFormed ==
  ASSUME WellFormed, NEW t \in Threads, NEW r \in Regions, EnterTask(t, r),
         pc[t] \in {"loop", "inline"}, region[r].next < region[r].count,
         UNCHANGED create
  PROVE  /\ Startup' /\ StackShape' /\ pc' \in [Threads -> PC]
         /\ stack' \in [Threads -> Seq(Frame)]
<1> DEFINE f == [kind |-> "task", reg |-> r, idx |-> region[r].next,
                  id |-> LoopId(t), saved |-> tls_thread_id[t], calls |-> 0]
<1>1. f \in Frame /\ f.kind = "task" BY FrameBuilt
<1>2. stack' = [stack EXCEPT ![t] = Append(stack[t], f)] /\ Goto(t, "body")
  BY DEF EnterTask, WellFormed, TypeOK
<1> HIDE DEF f
<1>3. stack[t] \in Seq(Frame) /\ Append(stack[t], f) \in Seq(Frame)
  BY <1>1, ShapeFacts, AppendFacts
<1>4. Startup' BY <1>2, StartupStep DEF PC, CallerPC
<1>5. ShapeOf(t, Append(stack[t], f), "body")
  <2>1. "body" \in TopPC(f) BY <1>1 DEF TopPC
  <2>2. stack[t] = <<>> => f.kind = IF t = Caller THEN "run" ELSE "task"
    BY <1>1, ShapeFacts, ThreadFacts
  <2>3. stack[t] # <<>> => f.kind # Last(stack[t]).kind
    BY <1>1, ShapeFacts
  <2> QED BY <1>1, <1>3, <2>1, <2>2, <2>3, ShapeFacts, Pushed
<1>6. StackShape' BY <1>2, <1>5, Moved DEF Goto
<1>7. pc' \in [Threads -> PC] BY <1>2, PcMoved DEF Goto, PC
<1>8. stack' \in [Threads -> Seq(Frame)] BY <1>2, <1>3 DEF WellFormed, TypeOK
<1> QED BY <1>4, <1>6, <1>7, <1>8

\* Leaving the innermost activation keeps stacks, positions and life cycle.
LEMMA PopWellFormed ==
  ASSUME WellFormed, NEW t \in Threads, NEW q \in PC,
         stack[t] # <<>>, stack' = [stack EXCEPT ![t] = Front(@)], Goto(t, q),
         UNCHANGED create, q = "inline" => n_workers = 0 /\ t = Caller,
         Last(stack[t]).kind = "run" =>
           q = IF Len(stack[t]) = 1 THEN "idle" ELSE "body",
         Last(stack[t]).kind # "run" =>
                  q \in {"rejoin", "rejoin_last", "inline"},
         t = Caller /\ q \in {"rejoin", "rejoin_last"} => n_workers # 0
  PROVE  /\ Startup' /\ StackShape' /\ pc' \in [Threads -> PC]
         /\ stack' \in [Threads -> Seq(Frame)]
<1>0. stack[t] \in Seq(Frame) /\ ShapeOf(t, stack[t], pc[t]) BY ShapeFacts
<1>1. stack' = [stack EXCEPT ![t] = Front(stack[t])] BY DEF WellFormed, TypeOK
<1>2. Front(stack[t]) \in Seq(Frame) BY <1>0, FrontFacts
<1>3. pc[t] \in TopPC(Last(stack[t])) BY <1>0 DEF ShapeOf
<1>4. Startup' BY <1>3, StartupStep DEF TopPC, CallerPC
<1>5. Len(stack[t]) = 1 => q \in IdlePC(t)
  <2> SUFFICES ASSUME Len(stack[t]) = 1 PROVE q \in IdlePC(t) OBVIOUS
  <2>1. Last(stack[t]).kind = IF t = Caller THEN "run" ELSE "task"
    BY ShapeFacts
  <2>2. CASE t = Caller
    <3>1. q = "idle" BY <2>1, <2>2
    <3> QED BY <2>2, <3>1 DEF IdlePC
  <2>3. CASE t # Caller
    <3>1. q \in {"rejoin", "rejoin_last"} BY <2>1, <2>3
    <3> QED BY <2>3, <3>1 DEF IdlePC
  <2> QED BY <2>2, <2>3
<1>6. Len(stack[t]) > 1 /\ Last(stack[t]).kind = "run" => q = "body"
  <2> SUFFICES ASSUME Len(stack[t]) > 1, Last(stack[t]).kind = "run"
      PROVE q = "body"
    OBVIOUS
  <2>1. Len(stack[t]) \in Nat BY ShapeFacts
  <2>2. \A n \in Nat : n > 1 => n # 1 OBVIOUS
  <2>3. Len(stack[t]) # 1 BY <2>1, <2>2, Zenon
  <2> QED BY <2>3, Zenon
<1>7. ShapeOf(t, Front(stack[t]), q) BY <1>0, <1>5, <1>6, Popped
<1>8. StackShape' BY <1>1, <1>7, Moved DEF Goto
<1>9. pc' \in [Threads -> PC] BY PcMoved DEF Goto
<1>10. stack' \in [Threads -> Seq(Frame)] BY <1>1, <1>2 DEF WellFormed, TypeOK
<1> QED BY <1>4, <1>8, <1>9, <1>10

\* Assigning a well-typed region keeps the regions typed.
LEMMA RegionTyped ==
  ASSUME WellFormed, NEW r \in Regions, NEW e \in TaskRegion,
      region' = [region EXCEPT ![r] = e]
  PROVE region' \in [Regions -> TaskRegion]
BY DEF WellFormed, TypeOK

\* Claiming an index keeps the regions typed.
LEMMA NextBumped ==
  ASSUME WellFormed, NEW r \in Regions, region[r].next < region[r].count
  PROVE  [region EXCEPT ![r].next = @ + 1] \in [Regions -> TaskRegion]
<1>1. region \in [Regions -> TaskRegion] /\ region[r] \in TaskRegion
  BY DEF WellFormed, TypeOK
<1>2. [region[r] EXCEPT !.next = @ + 1] \in TaskRegion
  BY <1>1, ThreadFacts DEF TaskRegion
<1> QED BY <1>1, <1>2

\* Finishing a task adds one index to ran and one to done, nothing else.
LEMMA FinishedFacts ==
  ASSUME NEW e \in TaskRegion, NEW i \in Indices(MaxCount)
  PROVE  /\ Finished(e, i) \in TaskRegion
         /\ Finished(e, i).owner = e.owner /\ Finished(e, i).count = e.count
         /\ Finished(e, i).next = e.next /\
                  Finished(e, i).exclusive = e.exclusive
         /\ Finished(e, i).ran = e.ran \cup {i} /\
                  Finished(e, i).done = e.done + 1
<1>1. e.done + 1 \in Nat /\ e.ran \cup {i} \in SUBSET Indices(MaxCount)
  BY DEF TaskRegion
<1> QED BY <1>1 DEF Finished, TaskRegion

\* The stack of a task body that has posted one more run.
Bump(s) == [s EXCEPT ![Len(s)].calls = @ + 1]

\* Counting a posted run changes nothing else of the stack.
LEMMA BumpFacts ==
  ASSUME NEW s \in Seq(Frame), s # <<>>, Last(s).calls < MaxCalls
  PROVE  /\ Bump(s) \in Seq(Frame) /\ Len(Bump(s)) = Len(s) /\ Bump(s) # <<>>
         /\ DOMAIN Bump(s) = 1 .. Len(s) /\ DOMAIN s = 1 .. Len(s)
         /\ \A k \in 1 .. Len(s) :
              /\ Bump(s)[k].kind = s[k].kind /\ Bump(s)[k].reg = s[k].reg
              /\ Bump(s)[k].idx = s[k].idx   /\ Bump(s)[k].id = s[k].id
              /\ Bump(s)[k].saved = s[k].saved
<1>1. Len(s) \in Nat \ {0} /\ DOMAIN s = 1 .. Len(s) /\ Last(s) = s[Len(s)]
      /\ \A k \in 1 .. Len(s) : s[k] \in Frame
  BY FrontFacts
<1>2. [s[Len(s)] EXCEPT !.calls = @ + 1] \in Frame
  <2>1. s[Len(s)] \in Frame /\ s[Len(s)].calls < MaxCalls BY <1>1
  <2>2. s[Len(s)].calls + 1 \in 0 .. MaxCalls BY <2>1, ThreadFacts DEF Frame
  <2> QED BY <2>1, <2>2 DEF Frame
<1>3. Bump(s) = [s EXCEPT ![Len(s)] = [s[Len(s)] EXCEPT !.calls = @ + 1]]
  BY <1>1 DEF Bump
<1>4. Bump(s) \in Seq(Frame) /\ Len(Bump(s)) = Len(s) /\
         DOMAIN Bump(s) = 1 .. Len(s)
  BY <1>1, <1>2, <1>3
<1>5. ASSUME NEW k \in 1 .. Len(s)
      PROVE /\ Bump(s)[k].kind = s[k].kind /\ Bump(s)[k].reg = s[k].reg
              /\ Bump(s)[k].idx = s[k].idx   /\ Bump(s)[k].id = s[k].id
              /\ Bump(s)[k].saved = s[k].saved
  <2>1. CASE k = Len(s) BY <1>1, <1>3, <2>1 DEF Frame
  <2>2. CASE k # Len(s) BY <1>1, <1>3, <2>2
  <2> QED BY <2>1, <2>2
<1>6. Bump(s) # <<>> BY <1>1, <1>4
<1> QED BY <1>1, <1>4, <1>5, <1>6

\* Every step of a thread keeps the first invariant.
LEMMA StepWellFormed == ASSUME WellFormed, NEW t \in Threads, Step(t)
    PROVE WellFormed'
<1>0. /\ Caller \in Threads /\ NWorkers \in Nat /\ Caller = NWorkers /\
         Threads = 0 .. NWorkers
  BY ThreadFacts
<1>1. CASE Boot(t)
  <2> USE DEF Boot
  <2>1. Startup' /\ StackShape' /\ pc' \in [Threads -> PC]
    BY <1>1, PcStep
  <2>2. tls_thread_id' \in [Threads -> -1 .. NWorkers]
    BY <1>0, <1>1 DEF WellFormed, TypeOK
  <2> QED BY <1>1, <2>1, <2>2 DEF WellFormed, TypeOK, create, Lock, Broadcast
<1>2. CASE Claim(t)
  <2> USE DEF Claim
  <2>1. PICK k \in DOMAIN active :
       LET r == active[k] IN
       /\ Claimable(t, r)
       /\ region' = [region EXCEPT ![r].next = @ + 1]
       /\ EnterTask(t, r)
       /\ tls_thread_id' = [tls_thread_id EXCEPT ![t] = LoopId(t)]
       /\ tls_excl_depth' = [tls_excl_depth EXCEPT ![t] =
                               IF region[r].exclusive THEN @ + 1 ELSE @]
    BY <1>2
  <2> DEFINE r == active[k]
  <2>2. r \in Regions BY DEF WellFormed, TypeOK
  <2>3. /\ Startup' /\ StackShape' /\ pc' \in [Threads -> PC]
        /\ stack' \in [Threads -> Seq(Frame)]
    BY <1>2, <2>1, <2>2, EnterTaskWellFormed DEF Claimable
  <2>4. region' \in [Regions -> TaskRegion]
    BY <2>1, <2>2, NextBumped DEF Claimable
  <2>5. tls_thread_id' \in [Threads -> -1 .. NWorkers]
    <3>1. LoopId(t) \in -1 .. NWorkers
      BY <1>0, <2>1, <2>2, FrameBuilt DEF Claimable, Frame
    <3> QED BY <2>1, <3>1 DEF WellFormed, TypeOK
  <2>6. tls_excl_depth' \in [Threads -> Int]
    <3>1. tls_excl_depth \in [Threads -> Int] BY DEF WellFormed, TypeOK
    <3>2. CASE region[r].exclusive BY <2>1, <3>1, <3>2
    <3>3. CASE ~region[r].exclusive BY <2>1, <3>1, <3>3
    <3> QED BY <3>2, <3>3
  <2> QED BY <1>2, <2>3, <2>4, <2>5, <2>6 DEF WellFormed, TypeOK, create, Unlock
<1>3. CASE ReturnFromRun(t)
  <2> USE DEF ReturnFromRun
  <2> DEFINE r == Last(stack[t]).reg
  <2>1. stack[t] # <<>> /\ Last(stack[t]) \in Frame /\
           Last(stack[t]).kind = "run"
    BY <1>3, ShapeFacts
  <2>2. r \in Regions BY <2>1 DEF Frame
  <2>3. /\ Startup' /\ StackShape' /\ pc' \in [Threads -> PC]
        /\ stack' \in [Threads -> Seq(Frame)]
    BY <1>3, <2>1, PopWellFormed DEF PC
  <2>4. region' \in [Regions -> TaskRegion]
    BY <1>3, <2>2, DeadRegion, RegionTyped
  <2>5. active' \in Seq(Regions)
    BY <1>3, RemoveAtFacts DEF WellFormed, TypeOK
  <2> QED BY <1>3, <2>3, <2>4, <2>5 DEF WellFormed, TypeOK, create, Unlock, tls
<1>4. CASE LoopWait(t)
  <2>1. Startup' /\ StackShape' /\ pc' \in [Threads -> PC]
    BY <1>4, PcStep DEF LoopWait
  <2> QED
    BY <1>4, <2>1 DEF LoopWait, WellFormed, TypeOK, create, Unlock, tls, Wait
<1>5. CASE WorkerExit(t)
  <2>1. Startup' /\ StackShape' /\ pc' \in [Threads -> PC]
    BY <1>5, PcStep DEF WorkerExit
  <2> QED BY <1>5, <2>1 DEF WorkerExit, WellFormed, TypeOK, create, Unlock, tls
<1>7. CASE Publish(t)
  <2>1. Startup' /\ StackShape' /\ pc' \in [Threads -> PC]
    BY <1>7, PcStep DEF Publish
  <2>2. active' \in Seq(Regions)
    <3>1. Last(stack[t]).reg \in Regions BY <1>7, ShapeFacts DEF Publish, Frame
    <3> QED BY <1>7, <3>1 DEF Publish, WellFormed, TypeOK
  <2> QED
    BY <1>7, <2>1, <2>2 DEF Publish, WellFormed, TypeOK, create, Lock,
        Broadcast, tls
<1>9. CASE Rejoin(t)
  <2>1. Startup' /\ StackShape' /\ pc' \in [Threads -> PC]
    BY <1>9, PcStep DEF Rejoin
  <2> QED
    BY <1>9, <2>1 DEF Rejoin, WellFormed, TypeOK, create, Lock, Broadcast, tls
<1>11. CASE SpuriousWake(t)
  <2>0. Startup' BY <1>11 DEF SpuriousWake, WellFormed, Startup, create
  <2>1. StackShape'
    BY <1>11 DEF SpuriousWake, WellFormed, StackShape, ShapeOf, Alternates,
        TopPC, IdlePC
  <2> QED BY <1>11, <2>0, <2>1 DEF SpuriousWake, WellFormed, TypeOK, create, tls
<1>6. CASE Run(t)
  <2> USE DEF Run
  <2>1. PICK r \in Regions, n \in 1 .. MaxCount, x \in BOOLEAN :
       LET my_id == IF tls_thread_id[t] = Outside THEN n_workers
                                                   ELSE tls_thread_id[t]
           frame == [kind |-> "run", reg |-> r, idx |-> 0, id |-> my_id,
                     saved |-> tls_thread_id[t], calls |-> 0]
           below == IF stack[t] = <<>> THEN <<>>
                    ELSE [stack[t] EXCEPT ![Len(stack[t])].calls = @ + 1]
       IN /\ region' = [region EXCEPT ![r] =
               [owner |-> t, count |-> n, next |-> 0, done |-> 0,
                exclusive |-> x, ran |-> {}]]
          /\ stack' = [stack EXCEPT ![t] = Append(below, frame)]
          /\ IF n_workers = 0
               THEN /\ Goto(t, "inline")
                    /\ tls_thread_id' = [tls_thread_id EXCEPT ![t] = my_id]
               ELSE Goto(t, "publish") /\ UNCHANGED tls_thread_id
    BY <1>6
  <2> DEFINE my_id == IF tls_thread_id[t] = Outside THEN n_workers
                                                   ELSE tls_thread_id[t]
             frame == [kind |-> "run", reg |-> r, idx |-> 0, id |-> my_id,
                     saved |-> tls_thread_id[t], calls |-> 0]
             below == IF stack[t] = <<>> THEN <<>>
                    ELSE [stack[t] EXCEPT ![Len(stack[t])].calls = @ + 1]
             q == IF n_workers = 0 THEN "inline" ELSE "publish"
  <2>2. my_id \in -1 .. NWorkers /\ tls_thread_id[t] \in -1 .. NWorkers
    BY <1>0 DEF WellFormed, TypeOK
  <2>3. frame \in Frame /\ frame.kind = "run"
    BY <2>2, ThreadFacts DEF Frame, Indices
  <2>4. region' \in [Regions -> TaskRegion]
    <3>1. [owner |-> t, count |-> n, next |-> 0, done |-> 0,
                exclusive |-> x, ran |-> {}] \in TaskRegion
      BY ThreadFacts DEF TaskRegion, Indices
    <3> QED BY <2>1, <3>1, RegionTyped
  <2>5. /\ below \in Seq(Frame)
        /\ ShapeOf(t, below, pc[t])
        /\ below = <<>> => t = Caller
        /\ below # <<>> => Last(below).kind = "task"
    <3>1. CASE stack[t] = <<>>
      <4>1. t = Caller
        BY <1>6, <3>1, ShapeFacts, ThreadFacts DEF ShapeOf, IdlePC
      <4>2. below = stack[t] BY <3>1
      <4> QED BY <3>1, <4>1, <4>2, ShapeFacts
    <3>2. CASE stack[t] # <<>>
      <4>1. pc[t] = "body" /\ Last(stack[t]).calls < MaxCalls
        BY <1>6, <3>2, ShapeFacts DEF ShapeOf, TopPC
      <4>2. below = Bump(stack[t]) BY <3>2 DEF Bump
      <4> HIDE DEF below
      <4>3. ShapeOf(t, stack[t], pc[t]) /\ stack[t] \in Seq(Frame) BY ShapeFacts
      <4>4. Alternates(t, below)
        <5>1. /\ DOMAIN below = 1 .. Len(stack[t]) /\
                 DOMAIN stack[t] = 1 .. Len(stack[t])
              /\ \A k \in 1 .. Len(stack[t]) : below[k].kind = stack[t][k].kind
          BY <3>2, <4>1, <4>2, <4>3, BumpFacts
        <5>2. Alternates(t, stack[t]) BY <4>3 DEF ShapeOf
        <5>3. Len(stack[t]) \in Nat BY ShapeFacts
        <5> QED BY <5>1, <5>2, <5>3 DEF Alternates
      <4>5. Last(below).kind = "task" /\ below # <<>>
        <5>1. Last(stack[t]).kind = "task" BY <4>1, ShapeFacts
        <5>2. Len(stack[t]) \in Nat \ {0} BY <3>2, <4>3
        <5> QED BY <3>2, <4>1, <4>2, <4>3, <5>1, <5>2, BumpFacts DEF Last
      <4>6. "body" \in TopPC(Last(below)) BY <4>5 DEF TopPC
      <4> QED BY <3>2, <4>1, <4>2, <4>3, <4>4, <4>5, <4>6, BumpFacts DEF ShapeOf
    <3> QED BY <3>1, <3>2
  <2>6. stack' = [stack EXCEPT ![t] = Append(below, frame)] /\ Goto(t, q)
    BY <2>1
  <2>7. tls_thread_id' \in [Threads -> -1 .. NWorkers]
    BY <2>1, <2>2 DEF WellFormed, TypeOK
  <2> HIDE DEF my_id, frame, below
  <2>8. ShapeOf(t, Append(below, frame), q)
    <3>1. q \in TopPC(frame) BY <2>3 DEF TopPC
    <3> QED BY <2>3, <2>5, <3>1, Pushed
  <2>9. StackShape' BY <2>6, <2>8, Moved DEF Goto
  <2>10. Append(below, frame) \in Seq(Frame) BY <2>3, <2>5, AppendFacts
  <2>11. q \in PC BY DEF PC
  <2>12. Startup' BY <1>6, <2>6, <2>11, StartupStep DEF CallerPC
  <2>13. pc' \in [Threads -> PC] BY <2>6, <2>11, PcMoved DEF Goto
  <2>14. stack' \in [Threads -> Seq(Frame)]
    BY <2>6, <2>10 DEF WellFormed, TypeOK
  <2> QED
    BY <1>6, <2>4, <2>7, <2>9, <2>12, <2>13, <2>14
        DEF WellFormed, TypeOK, create
<1>8. CASE FinishTask(t)
  <2> USE DEF FinishTask
  <2> DEFINE f == Last(stack[t])  r == f.reg
             q == IF n_workers = 0 THEN "inline"
                  ELSE IF region[r].done + 1 = region[r].count
                  THEN "rejoin_last" ELSE "rejoin"
  <2>1. stack[t] # <<>> /\ f \in Frame /\ f.kind = "task"
    BY <1>8, ShapeFacts
  <2>2. r \in Regions /\ f.idx \in Indices(MaxCount) /\
           f.saved \in -1 .. NWorkers
    BY <2>1 DEF Frame
  <2>3. Goto(t, q) /\ q \in PC BY <1>8 DEF PC
  <2>4. n_workers = 0 => t = Caller
    <3>1. t \in Workers /\ n_workers = 0 => pc[t] = "off"
      BY ThreadFacts DEF WellFormed, TypeOK, Startup
    <3> QED BY <1>8, <3>1, ThreadFacts
  <2>5. /\ Startup' /\ StackShape' /\ pc' \in [Threads -> PC]
        /\ stack' \in [Threads -> Seq(Frame)]
    BY <1>8, <2>1, <2>3, <2>4, PopWellFormed
  <2>6. region' \in [Regions -> TaskRegion]
    <3>1. region[r] \in TaskRegion BY <2>2 DEF WellFormed, TypeOK
    <3> QED
      BY <1>8, <2>2, <3>1, FinishedFacts, RegionTyped DEF WellFormed, TypeOK
  <2>7. tls_thread_id' \in [Threads -> -1 .. NWorkers]
    BY <1>8, <2>2 DEF WellFormed, TypeOK, tls
  <2>8. tls_excl_depth' \in [Threads -> Int]
    <3>1. tls_excl_depth \in [Threads -> Int] BY DEF WellFormed, TypeOK
    <3>2. tls_excl_depth' \in {tls_excl_depth,
        [tls_excl_depth EXCEPT ![t] = @ - 1]}
      BY <1>8, <3>1 DEF tls
    <3> QED BY <3>1, <3>2
  <2> QED BY <1>8, <2>5, <2>6, <2>7, <2>8 DEF WellFormed, TypeOK, create
<1>10. CASE Inline(t)
  <2> USE DEF Inline
  <2> DEFINE f == Last(stack[t])  r == f.reg
  <2>1. stack[t] # <<>> /\ f \in Frame /\ f.kind = "run"
    BY <1>10, ShapeFacts
  <2>2. r \in Regions /\ f.saved \in -1 .. NWorkers
    BY <2>1 DEF Frame
  <2>3. CASE region[r].next < region[r].count
    <3>1. /\ Startup' /\ StackShape' /\ pc' \in [Threads -> PC]
          /\ stack' \in [Threads -> Seq(Frame)]
      BY <1>10, <2>2, <2>3, EnterTaskWellFormed
    <3>2. region' \in [Regions -> TaskRegion]
      BY <1>10, <2>2, <2>3, NextBumped
    <3> QED BY <1>10, <2>3, <3>1, <3>2 DEF WellFormed, TypeOK, create
  <2>4. CASE ~(region[r].next < region[r].count)
    <3>1. /\ Startup' /\ StackShape' /\ pc' \in [Threads -> PC]
          /\ stack' \in [Threads -> Seq(Frame)]
      BY <1>10, <2>1, <2>4, PopWellFormed DEF PC
    <3>2. region' \in [Regions -> TaskRegion]
      BY <1>10, <2>2, <2>4, DeadRegion, RegionTyped
    <3>3. tls_thread_id' \in [Threads -> -1 .. NWorkers]
      BY <1>10, <2>2, <2>4 DEF WellFormed, TypeOK
    <3> QED BY <1>10, <2>4, <3>1, <3>2, <3>3 DEF WellFormed, TypeOK, create
  <2> QED BY <2>3, <2>4
<1> QED
  BY <1>1, <1>2, <1>3, <1>4, <1>5, <1>6, <1>7, <1>8, <1>9, <1>10, <1>11
  DEF Step, Loop

\* Every state of the pool is well formed: types, stacks and life cycle.
THEOREM Typing == Spec => []WellFormed
<1>1. WellFormed /\ [Next]_vars => WellFormed'
  <2> SUFFICES ASSUME WellFormed, [Next]_vars PROVE WellFormed' OBVIOUS
  <2>1. CASE Next BY <2>1, LifecycleWellFormed, StepWellFormed DEF Next
  <2>2. CASE UNCHANGED vars
    BY <2>2 DEF vars, create, tls, WellFormed, TypeOK, StackShape, Startup,
        ShapeOf,
                Alternates, TopPC, IdlePC
  <2> QED BY <2>1, <2>2
<1> QED BY <1>1, InitWellFormed, PTL DEF Spec

\* Type correctness of the pool, for every number of workers and regions.
THEOREM TypeCorrect == Spec => []TypeOK
BY Typing, PTL DEF WellFormed

-----------------------------------------------------------------------------
(* The second inductive invariant: every index of a region that was handed *)
(* out is accounted for.                                                   *)

\* A region counts right: an unused one is empty, next never passes count, and
\* done is the number of indices finished, all of them claimed before.
Accounting ==
  \A r \in Regions :
    /\ ~Open(r) => region[r] = Dead
    /\ region[r].next <= region[r].count
    /\ region[r].ran \subseteq Indices(region[r].next)
    /\ region[r].done = Cardinality(region[r].ran)

\* The indices of a region that are claimed and not finished.
Claimed(reg) == Indices(reg.next) \ reg.ran

\* Somebody is running every index that is claimed and not finished.
Unfinished ==
  \A r \in Regions : \A i \in Claimed(region[r]) :
    \E t \in Threads : \E k \in DOMAIN stack[t] :
      stack[t][k].kind = "task" /\ stack[t][k].reg = r /\ stack[t][k].idx = i

\* The run that posted an open region is still on its owner's stack.
Owned ==
  \A r \in Regions : Open(r) =>
    \E k \in DOMAIN stack[region[r].owner] :
      stack[region[r].owner][k].kind = "run" /\
               stack[region[r].owner][k].reg = r

\* A run on a stack belongs to the region's owner, and is the only one for it.
RunFrames ==
  \A t \in Threads : \A k \in DOMAIN stack[t] : stack[t][k].kind = "run" =>
    /\ region[stack[t][k].reg].owner = t
    /\ \A j \in DOMAIN stack[t] :
         stack[t][j].kind = "run" /\ stack[t][j].reg = stack[t][k].reg => j = k

\* A task on a stack is running an index that is claimed and not finished, and
\* no other task on any stack is running the same one.
TaskFrames ==
  \A t \in Threads : \A k \in DOMAIN stack[t] : stack[t][k].kind = "task" =>
    /\ stack[t][k].idx \in Claimed(region[stack[t][k].reg])
    /\ \A u \in Threads : \A j \in DOMAIN stack[u] :
         /\ stack[u][j].kind = "task"
         /\ stack[u][j].reg = stack[t][k].reg
         /\ stack[u][j].idx = stack[t][k].idx
         => u = t /\ j = k

\* Without workers a task sits on top of the very run that posted it.
InlineShape == n_workers = 0 =>
  \A k \in DOMAIN stack[Caller] : stack[Caller][k].kind = "task" =>
    stack[Caller][k].reg = stack[Caller][k-1].reg

\* The second inductive invariant: regions, runs and tasks account for each
\* other.  It is what makes `done == count' mean that nobody uses the region.
Bookkeeping == Accounting /\ Unfinished /\ Owned /\ RunFrames /\ TaskFrames /\
         InlineShape

\* The inductive invariant: the activations on every stack have the shape the
\* code gives them, and the regions' books are kept.
IInv == WellFormed /\ Bookkeeping

\* The initial state keeps the books.
LEMMA InitBookkeeping == Init => Bookkeeping
<1> SUFFICES ASSUME Init PROVE Bookkeeping OBVIOUS
<1>1. \A r \in Regions : region[r] = Dead /\ ~Open(r) BY DEF Init, Open, Dead
<1>2. Accounting
  <2>1. Cardinality({}) = 0 BY FS_EmptySet
  <2>2. /\ Dead.next = 0 /\ Dead.count = 0 /\ Dead.ran = {} /\ Dead.done = 0
    BY DEF Dead
  <2>3. Dead.next <= Dead.count /\ Dead.ran \subseteq Indices(Dead.next)
        /\ Dead.done = Cardinality(Dead.ran)
    BY <2>1, <2>2
  <2> QED BY <1>1, <2>3 DEF Accounting
<1>3. \A r \in Regions : Claimed(region[r]) = {}
  BY <1>1 DEF Claimed, Dead, Indices
<1>4. \A t \in Threads : stack[t] = <<>> BY DEF Init
<1>5. Owned BY <1>1 DEF Owned
<1>6. Unfinished
  <2> SUFFICES ASSUME NEW r \in Regions, NEW i \in Claimed(region[r])
      PROVE FALSE
    BY DEF Unfinished
  <2> QED BY <1>3
<1>7. RunFrames /\ TaskFrames /\ InlineShape
  BY <1>4, ThreadFacts DEF RunFrames, TaskFrames, InlineShape
<1> QED BY <1>2, <1>5, <1>6, <1>7 DEF Bookkeeping

\* Every activation on a stack is well typed.
LEMMA FrameFacts ==
  ASSUME WellFormed, NEW t \in Threads, NEW k \in DOMAIN stack[t]
  PROVE  /\ stack[t][k] \in Frame /\ stack[t][k].kind \in {"run", "task"}
         /\ stack[t][k].reg \in Regions /\ k \in Nat \ {0} /\ k <= Len(stack[t])
<1>1. stack[t] \in Seq(Frame) BY DEF WellFormed, TypeOK
<1>2. stack[t][k] \in Frame /\ k \in 1 .. Len(stack[t]) /\ Len(stack[t]) \in Nat
  BY <1>1
<1> QED BY <1>2 DEF Frame

\* Every region is well typed.
LEMMA RegionFacts ==
  ASSUME WellFormed, NEW r \in Regions
  PROVE  /\ region \in [Regions -> TaskRegion]
         /\ region[r].owner \in Threads \cup {NoThread} /\
                  region[r].count \in 0 .. MaxCount
         /\ region[r].next \in 0 .. MaxCount /\ region[r].done \in Nat
         /\ region[r].ran \in SUBSET Indices(MaxCount)
         /\ NoThread \notin Threads
<1>1. region \in [Regions -> TaskRegion] /\ region[r] \in TaskRegion
  BY DEF WellFormed, TypeOK
<1>2. NoThread \notin Threads BY ThreadFacts DEF NoThread
<1> QED BY <1>1, <1>2 DEF TaskRegion

\* Two frames that differ at most in the number of runs posted.
Same(f, g) == /\ f.kind = g.kind /\ f.reg = g.reg /\ f.idx = g.idx
              /\ f.id = g.id /\ f.saved = g.saved

\* Frame f has been pushed at position n of t's stack.
Push(t, n, f) ==
  /\ n \notin DOMAIN stack[t] /\ n \in DOMAIN stack'[t] /\ stack'[t][n] = f
  /\ \A u \in Threads : \A k \in DOMAIN stack[u] :
       k \in DOMAIN stack'[u] /\ Same(stack'[u][k], stack[u][k])
  /\ \A u \in Threads : \A k \in DOMAIN stack'[u] :
       k \in DOMAIN stack[u] \/ (u = t /\ k = n)

\* The frame at position n of t's stack has been popped.
Pop(t, n) ==
  /\ n \in DOMAIN stack[t] /\ n \notin DOMAIN stack'[t]
  /\ \A u \in Threads : \A k \in DOMAIN stack'[u] :
       k \in DOMAIN stack[u] /\ stack'[u][k] = stack[u][k]
  /\ \A u \in Threads : \A k \in DOMAIN stack[u] :
       k \in DOMAIN stack'[u] \/ (u = t /\ k = n)

\* Appending to a stack is a Push, whatever happened to the calls counters.
LEMMA Pushes ==
  ASSUME WellFormed, NEW t \in Threads, NEW s \in Seq(Frame), NEW f \in Frame,
         stack' = [stack EXCEPT ![t] = Append(s, f)],
         Len(s) = Len(stack[t]),
         \A k \in 1 .. Len(s) : Same(s[k], stack[t][k])
  PROVE  Push(t, Len(stack[t]) + 1, f)
<1>1. /\ stack \in [Threads -> Seq(Frame)] /\ Len(stack[t]) \in Nat
      /\ stack'[t] = Append(s, f)
      /\ DOMAIN stack[t] = 1 .. Len(stack[t])
  BY DEF WellFormed, TypeOK
<1>2. /\ DOMAIN stack'[t] = 1 .. Len(stack[t]) + 1
      /\ stack'[t][Len(stack[t]) + 1] = f
      /\ \A k \in 1 .. Len(stack[t]) : stack'[t][k] = s[k]
  BY <1>1, AppendFacts
<1>3. \A u \in Threads : u # t => stack'[u] = stack[u] BY <1>1
<1>4. Len(stack[t]) + 1 \notin DOMAIN stack[t] /\
         Len(stack[t]) + 1 \in DOMAIN stack'[t]
  BY <1>1, <1>2
<1>5. \A u \in Threads : \A k \in DOMAIN stack[u] :
       k \in DOMAIN stack'[u] /\ Same(stack'[u][k], stack[u][k])
  BY <1>1, <1>2, <1>3 DEF Same
<1>6. \A u \in Threads : \A k \in DOMAIN stack'[u] :
       k \in DOMAIN stack[u] \/ (u = t /\ k = Len(stack[t]) + 1)
  BY <1>1, <1>2, <1>3
<1> QED BY <1>2, <1>4, <1>5, <1>6 DEF Push

\* Taking the front of a stack is a Pop.
LEMMA Pops ==
  ASSUME WellFormed, NEW t \in Threads, stack[t] # <<>>,
         stack' = [stack EXCEPT ![t] = Front(@)]
  PROVE  Pop(t, Len(stack[t])) /\ stack[t][Len(stack[t])] = Last(stack[t])
<1>1. /\ stack \in [Threads -> Seq(Frame)] /\ stack[t] \in Seq(Frame)
      /\ stack'[t] = Front(stack[t])
  BY DEF WellFormed, TypeOK
<1>2. /\ Len(stack[t]) \in Nat \ {0} /\ Last(stack[t]) = stack[t][Len(stack[t])]
      /\ DOMAIN stack[t] = 1 .. Len(stack[t])
      /\ DOMAIN stack'[t] = 1 .. Len(stack[t]) - 1
      /\ \A k \in 1 .. Len(stack[t]) - 1 : stack'[t][k] = stack[t][k]
  BY <1>1, FrontFacts
<1>3. \A u \in Threads : u # t => stack'[u] = stack[u] BY <1>1
<1>4. Len(stack[t]) \in DOMAIN stack[t] /\ Len(stack[t]) \notin DOMAIN stack'[t]
  BY <1>2
<1>5. \A u \in Threads : \A k \in DOMAIN stack'[u] :
       k \in DOMAIN stack[u] /\ stack'[u][k] = stack[u][k]
  BY <1>2, <1>3
<1>6. \A u \in Threads : \A k \in DOMAIN stack[u] :
       k \in DOMAIN stack'[u] \/ (u = t /\ k = Len(stack[t]))
  BY <1>2, <1>3
<1> QED BY <1>2, <1>4, <1>5, <1>6 DEF Pop

\* Claiming an index and entering its task keeps the books.
LEMMA ClaimBookkeeping ==
  ASSUME WellFormed, Bookkeeping, NEW t \in Threads, NEW n, NEW r \in Regions,
      NEW f \in Frame,
         Push(t, n, f), f.kind = "task", f.reg = r, f.idx = region[r].next,
         region[r].next < region[r].count,
         region' = [region EXCEPT ![r].next = @ + 1]
  PROVE  Accounting' /\ Unfinished' /\ Owned' /\ RunFrames' /\ TaskFrames'
<1>0. /\ region \in [Regions -> TaskRegion]
      /\ \A q \in Regions : region[q].next \in Nat /\ region[q].count \in Nat
  BY RegionFacts
<1>1. /\ \A q \in Regions : q # r => region'[q] = region[q]
      /\ region'[r].next = region[r].next + 1
      /\ \A q \in Regions : /\ region'[q].owner = region[q].owner
                            /\ region'[q].count = region[q].count
                            /\ region'[q].done = region[q].done
                            /\ region'[q].exclusive = region[q].exclusive
                            /\ region'[q].ran = region[q].ran
  BY <1>0, RegionFacts DEF TaskRegion
<1>2. region[r] # Dead BY DEF Dead
<1>3. Open(r) BY <1>2 DEF Bookkeeping, Accounting
<1>4. \A q \in Regions : Open(q)' <=> Open(q) BY <1>1 DEF Open
<1>5. region[r].next \notin Claimed(region[r])
      /\ Claimed(region'[r]) = Claimed(region[r]) \cup {region[r].next}
      /\ \A q \in Regions : q # r => Claimed(region'[q]) = Claimed(region[q])
  <2>1. region[r].ran \subseteq Indices(region[r].next)
    BY DEF Bookkeeping, Accounting
  <2> QED BY <1>0, <1>1, <2>1 DEF Claimed, Indices
<1>6. Accounting'
  <2> SUFFICES ASSUME NEW q \in Regions
      PROVE ( /\ ~Open(q) => region[q] = Dead
              /\ region[q].next <= region[q].count
              /\ region[q].ran \subseteq Indices(region[q].next)
              /\ region[q].done = Cardinality(region[q].ran) )'
    BY DEF Accounting
  <2>1. CASE q = r
    <3>1. region[r].ran \subseteq Indices(region[r].next)
          /\ region[r].done = Cardinality(region[r].ran)
      BY DEF Bookkeeping, Accounting
    <3> QED BY <1>0, <1>1, <1>3, <1>4, <2>1, <3>1 DEF Indices
  <2>2. CASE q # r BY <1>1, <1>4, <2>2 DEF Bookkeeping, Accounting
  <2> QED BY <2>1, <2>2
<1>7. Unfinished'
  <2> SUFFICES ASSUME NEW q \in Regions, NEW i \in Claimed(region'[q])
      PROVE \E u \in Threads : \E k \in DOMAIN stack'[u] :
              stack'[u][k].kind = "task" /\ stack'[u][k].reg = q /\
                       stack'[u][k].idx = i
    BY DEF Unfinished
  <2>1. CASE i \in Claimed(region[q])
    <3>0. PICK u \in Threads : \E k \in DOMAIN stack[u] :
            stack[u][k].kind = "task" /\ stack[u][k].reg = q /\
                     stack[u][k].idx = i
      BY <2>1 DEF Bookkeeping, Unfinished
    <3>1. PICK k \in DOMAIN stack[u] :
            stack[u][k].kind = "task" /\ stack[u][k].reg = q /\
                     stack[u][k].idx = i
      BY <3>0
    <3>2. k \in DOMAIN stack'[u] /\ Same(stack'[u][k], stack[u][k]) BY DEF Push
    <3> QED BY <3>1, <3>2 DEF Same
  <2>2. CASE q = r /\ i = region[r].next BY <2>2 DEF Push
  <2> QED BY <1>5, <2>1, <2>2
<1>8. Owned'
  <2> SUFFICES ASSUME NEW q \in Regions, Open(q)
      PROVE \E k \in DOMAIN stack'[region[q].owner] :
              stack'[region[q].owner][k].kind = "run" /\
                       stack'[region[q].owner][k].reg = q
    BY <1>1, <1>4 DEF Owned
  <2>1. PICK k \in DOMAIN stack[region[q].owner] :
          stack[region[q].owner][k].kind = "run" /\
                   stack[region[q].owner][k].reg = q
    BY DEF Bookkeeping, Owned
  <2>2. region[q].owner \in Threads BY RegionFacts DEF Open
  <2>3. k \in DOMAIN stack'[region[q].owner] /\
           Same(stack'[region[q].owner][k], stack[region[q].owner][k])
    BY <2>2 DEF Push
  <2> QED BY <2>1, <2>3 DEF Same
<1>9. RunFrames'
  <2> SUFFICES ASSUME NEW u \in Threads, NEW k \in DOMAIN stack'[u],
      stack'[u][k].kind = "run"
      PROVE /\ region'[stack'[u][k].reg].owner = u
            /\ \A j \in DOMAIN stack'[u] :
                 stack'[u][j].kind = "run" /\
                          stack'[u][j].reg = stack'[u][k].reg => j = k
    BY DEF RunFrames
  <2>1. \A j \in DOMAIN stack'[u] : stack'[u][j].kind = "run" =>
          j \in DOMAIN stack[u] /\ Same(stack'[u][j], stack[u][j])
    BY DEF Push
  <2>2. k \in DOMAIN stack[u] /\ Same(stack'[u][k], stack[u][k]) BY <2>1
  <2>3. stack[u][k].reg \in Regions BY <2>2, FrameFacts
  <2> QED BY <1>1, <2>1, <2>2, <2>3 DEF Bookkeeping, RunFrames, Same
<1>10. TaskFrames'
  <2> SUFFICES ASSUME NEW u \in Threads, NEW k \in DOMAIN stack'[u],
      stack'[u][k].kind = "task"
      PROVE /\ stack'[u][k].idx \in Claimed(region'[stack'[u][k].reg])
            /\ \A v \in Threads : \A j \in DOMAIN stack'[v] :
                 /\ stack'[v][j].kind = "task"
                 /\ stack'[v][j].reg = stack'[u][k].reg
                 /\ stack'[v][j].idx = stack'[u][k].idx
                 => v = u /\ j = k
    BY DEF TaskFrames
  <2>1. \A v \in Threads : \A j \in DOMAIN stack'[v] :
          \/ j \in DOMAIN stack[v] /\ Same(stack'[v][j], stack[v][j])
          \/ v = t /\ j = n /\ stack'[v][j] = f
    BY DEF Push
  <2>2. \A v \in Threads : \A j \in DOMAIN stack[v] :
          stack[v][j].kind = "task" => /\ stack[v][j].reg \in Regions
                                       /\ stack[v][j].idx \in Claimed(region[stack[v][j].reg])
    BY FrameFacts DEF Bookkeeping, TaskFrames
  <2>3. CASE u = t /\ k = n /\ stack'[u][k] = f
    BY <1>5, <2>1, <2>2, <2>3 DEF Same
  <2>4. CASE k \in DOMAIN stack[u] /\ Same(stack'[u][k], stack[u][k])
    <3>1. stack'[u][k].idx \in Claimed(region'[stack'[u][k].reg])
      BY <1>5, <2>2, <2>4 DEF Same
    <3>2. ASSUME NEW v \in Threads, NEW j \in DOMAIN stack'[v],
                 stack'[v][j].kind = "task",
                     stack'[v][j].reg = stack'[u][k].reg,
                 stack'[v][j].idx = stack'[u][k].idx
          PROVE  v = u /\ j = k
      <4>1. CASE j \in DOMAIN stack[v] /\ Same(stack'[v][j], stack[v][j])
        <5>1. /\ stack[u][k].kind = "task" /\ stack[v][j].kind = "task"
              /\ stack[v][j].reg = stack[u][k].reg
              /\ stack[v][j].idx = stack[u][k].idx
          BY <2>4, <3>2, <4>1 DEF Same
        <5>2. TaskFrames BY DEF Bookkeeping
        <5> QED BY <2>4, <4>1, <5>1, <5>2 DEF TaskFrames
      <4>2. CASE v = t /\ j = n /\ stack'[v][j] = f
        BY <1>5, <2>2, <2>4, <3>2, <4>2 DEF Same
      <4> QED BY <2>1, <4>1, <4>2
    <3> QED BY <3>1, <3>2
  <2> QED BY <2>1, <2>3, <2>4
<1> QED BY <1>6, <1>7, <1>8, <1>9, <1>10

\* Posting a job keeps the books.
LEMMA OpenBookkeeping ==
  ASSUME WellFormed, Bookkeeping, NEW t \in Threads, NEW n, NEW r \in Regions,
      NEW f \in Frame,
         NEW c \in 1 .. MaxCount, NEW x \in BOOLEAN,
         Push(t, n, f), f.kind = "run", f.reg = r, ~Open(r),
         region' = [region EXCEPT ![r] = [owner |-> t, count |-> c, next |-> 0,
             done |-> 0,
                exclusive |-> x, ran |-> {}]]
  PROVE  Accounting' /\ Unfinished' /\ Owned' /\ RunFrames' /\ TaskFrames'
<1>1. /\ \A q \in Regions : q # r => region'[q] = region[q]
      /\ region'[r] = [owner |-> t, count |-> c, next |-> 0, done |-> 0,
                exclusive |-> x, ran |-> {}]
      /\ region[r] = Dead
      /\ t # NoThread
  BY RegionFacts DEF Bookkeeping, Accounting
<1>2. Claimed(region'[r]) = {} /\ Claimed(region[r]) = {}
  BY <1>1 DEF Claimed, Indices, Dead
<1>3. Open(r)' /\ \A q \in Regions : q # r => (Open(q)' <=> Open(q))
  BY <1>1 DEF Open
<1>4. \A u \in Threads : \A k \in DOMAIN stack[u] :
        /\ stack[u][k].reg \in Regions
        /\ stack[u][k].kind \in {"run", "task"}
        /\ stack[u][k].reg # r
  <2> SUFFICES ASSUME NEW u \in Threads, NEW k \in DOMAIN stack[u]
      PROVE stack[u][k].reg # r
    BY FrameFacts
  <2>1. CASE stack[u][k].kind = "task"
    BY <1>2, <2>1 DEF Bookkeeping, TaskFrames
  <2>2. CASE stack[u][k].kind = "run"
    <3>1. region[stack[u][k].reg].owner = u BY <2>2 DEF Bookkeeping, RunFrames
    <3>2. Dead.owner = NoThread /\ u # NoThread BY RegionFacts DEF Dead
    <3> QED BY <1>1, <3>1, <3>2
  <2> QED BY <2>1, <2>2, FrameFacts
<1>5. \A u \in Threads : \A k \in DOMAIN stack'[u] :
          \/ k \in DOMAIN stack[u] /\ Same(stack'[u][k], stack[u][k])
          \/ u = t /\ k = n /\ stack'[u][k] = f
  BY DEF Push
<1>6. Accounting'
  <2> SUFFICES ASSUME NEW q \in Regions
      PROVE ( /\ ~Open(q) => region[q] = Dead
              /\ region[q].next <= region[q].count
              /\ region[q].ran \subseteq Indices(region[q].next)
              /\ region[q].done = Cardinality(region[q].ran) )'
    BY DEF Accounting
  <2>1. CASE q = r
    <3>1. /\ region'[r].next = 0 /\ region'[r].count = c /\ region'[r].ran = {}
          /\ region'[r].done = 0
      BY <1>1
    <3>2. Cardinality({}) = 0 BY FS_EmptySet
    <3>3. 0 <= c BY ThreadFacts
    <3> QED BY <1>3, <2>1, <3>1, <3>2, <3>3
  <2>2. CASE q # r BY <1>1, <1>3, <2>2 DEF Bookkeeping, Accounting
  <2> QED BY <2>1, <2>2
<1>7. Unfinished'
  <2> SUFFICES ASSUME NEW q \in Regions, NEW i \in Claimed(region'[q])
      PROVE \E u \in Threads : \E k \in DOMAIN stack'[u] :
              stack'[u][k].kind = "task" /\ stack'[u][k].reg = q /\
                       stack'[u][k].idx = i
    BY DEF Unfinished
  <2>1. q # r /\ i \in Claimed(region[q]) BY <1>1, <1>2
  <2>2. PICK u \in Threads : \E k \in DOMAIN stack[u] :
          stack[u][k].kind = "task" /\ stack[u][k].reg = q /\
                   stack[u][k].idx = i
    BY <2>1 DEF Bookkeeping, Unfinished
  <2>3. PICK k \in DOMAIN stack[u] :
          stack[u][k].kind = "task" /\ stack[u][k].reg = q /\
                   stack[u][k].idx = i
    BY <2>2
  <2>4. k \in DOMAIN stack'[u] /\ Same(stack'[u][k], stack[u][k]) BY DEF Push
  <2> QED BY <2>3, <2>4 DEF Same
<1>8. Owned'
  <2> SUFFICES ASSUME NEW q \in Regions, Open(q)'
      PROVE \E k \in DOMAIN stack'[region'[q].owner] :
              stack'[region'[q].owner][k].kind = "run" /\
                       stack'[region'[q].owner][k].reg = q
    BY DEF Owned
  <2>1. CASE q = r
    <3>1. region'[q].owner = t BY <1>1, <2>1
    <3>2. n \in DOMAIN stack'[t] /\ stack'[t][n] = f BY DEF Push
    <3> QED BY <2>1, <3>1, <3>2
  <2>2. CASE q # r
    <3>0. Open(q) /\ region'[q].owner = region[q].owner BY <1>1, <1>3, <2>2
    <3>1. PICK k \in DOMAIN stack[region[q].owner] :
            stack[region[q].owner][k].kind = "run" /\
                     stack[region[q].owner][k].reg = q
      BY <3>0 DEF Bookkeeping, Owned
    <3>2. region[q].owner \in Threads BY <3>0, RegionFacts DEF Open
    <3>3. k \in DOMAIN stack'[region[q].owner] /\
             Same(stack'[region[q].owner][k], stack[region[q].owner][k])
      BY <3>2 DEF Push
    <3> QED BY <3>0, <3>1, <3>3 DEF Same
  <2> QED BY <2>1, <2>2
<1>9. RunFrames'
  <2> SUFFICES ASSUME NEW u \in Threads, NEW k \in DOMAIN stack'[u],
      stack'[u][k].kind = "run"
      PROVE /\ region'[stack'[u][k].reg].owner = u
            /\ \A j \in DOMAIN stack'[u] :
                 stack'[u][j].kind = "run" /\
                          stack'[u][j].reg = stack'[u][k].reg => j = k
    BY DEF RunFrames
  <2>1. CASE k \in DOMAIN stack[u] /\ Same(stack'[u][k], stack[u][k])
    <3>1. stack'[u][k].reg = stack[u][k].reg /\ stack[u][k].kind = "run"
      BY <2>1 DEF Same
    <3>2. region'[stack'[u][k].reg].owner = u
      BY <1>1, <1>4, <2>1, <3>1 DEF Bookkeeping, RunFrames
    <3>3. ASSUME NEW j \in DOMAIN stack'[u], stack'[u][j].kind = "run",
                 stack'[u][j].reg = stack'[u][k].reg
          PROVE  j = k
      <4>1. j \in DOMAIN stack[u] /\ Same(stack'[u][j], stack[u][j])
        BY <1>4, <1>5, <2>1, <3>1, <3>3
      <4>2. stack[u][j].kind = "run" /\ stack[u][j].reg = stack[u][k].reg
        BY <3>1, <3>3, <4>1 DEF Same
      <4>3. RunFrames BY DEF Bookkeeping
      <4> QED BY <2>1, <3>1, <4>1, <4>2, <4>3 DEF RunFrames
    <3> QED BY <3>2, <3>3
  <2>2. CASE u = t /\ k = n /\ stack'[u][k] = f
    <3>1. \A j \in DOMAIN stack[u] : Same(stack'[u][j], stack[u][j]) =>
             stack'[u][j].reg # r
      BY <1>4 DEF Same
    <3> QED BY <1>1, <1>5, <2>2, <3>1
  <2> QED BY <1>5, <2>1, <2>2
<1>10. TaskFrames'
  <2> SUFFICES ASSUME NEW u \in Threads, NEW k \in DOMAIN stack'[u],
      stack'[u][k].kind = "task"
      PROVE /\ stack'[u][k].idx \in Claimed(region'[stack'[u][k].reg])
            /\ \A v \in Threads : \A j \in DOMAIN stack'[v] :
                 /\ stack'[v][j].kind = "task"
                 /\ stack'[v][j].reg = stack'[u][k].reg
                 /\ stack'[v][j].idx = stack'[u][k].idx
                 => v = u /\ j = k
    BY DEF TaskFrames
  <2>1. \A v \in Threads : \A j \in DOMAIN stack'[v] : stack'[v][j].kind = "task" =>
          j \in DOMAIN stack[v] /\ Same(stack'[v][j], stack[v][j])
    BY <1>5
  <2>2. k \in DOMAIN stack[u] /\ Same(stack'[u][k], stack[u][k]) BY <2>1
  <2>3. stack'[u][k].idx \in Claimed(region'[stack'[u][k].reg])
    BY <1>1, <1>4, <2>2 DEF Bookkeeping, TaskFrames, Same
  <2>4. ASSUME NEW v \in Threads, NEW j \in DOMAIN stack'[v],
               stack'[v][j].kind = "task", stack'[v][j].reg = stack'[u][k].reg,
               stack'[v][j].idx = stack'[u][k].idx
        PROVE  v = u /\ j = k
    <3>1. j \in DOMAIN stack[v] /\ Same(stack'[v][j], stack[v][j]) BY <2>1, <2>4
    <3>2. /\ stack[u][k].kind = "task" /\ stack[v][j].kind = "task"
          /\ stack[v][j].reg = stack[u][k].reg /\
                   stack[v][j].idx = stack[u][k].idx
      BY <2>2, <2>4, <3>1 DEF Same
    <3>3. TaskFrames BY DEF Bookkeeping
    <3> QED BY <2>2, <3>1, <3>2, <3>3 DEF TaskFrames
  <2> QED BY <2>3, <2>4
<1> QED BY <1>6, <1>7, <1>8, <1>9, <1>10

\* Finishing a task keeps the books.
LEMMA FinishBookkeeping ==
  ASSUME WellFormed, Bookkeeping, NEW t \in Threads, NEW n, Pop(t, n), NEW f,
      f = stack[t][n],
         f.kind = "task",
         region' = [region EXCEPT ![f.reg] = Finished(@, f.idx)]
  PROVE  Accounting' /\ Unfinished' /\ Owned' /\ RunFrames' /\ TaskFrames'
<1> DEFINE r == f.reg
<1>0. n \in DOMAIN stack[t] /\ r \in Regions
  BY FrameFacts DEF Pop
<1>1. /\ \A q \in Regions : q # r => region'[q] = region[q]
      /\ region'[r].ran = region[r].ran \cup {f.idx}
      /\ region'[r].done = region[r].done + 1
      /\ \A q \in Regions : /\ region'[q].owner = region[q].owner
                            /\ region'[q].count = region[q].count
                            /\ region'[q].next = region[q].next
                            /\ region'[q].exclusive = region[q].exclusive
  <2>1. region \in [Regions -> TaskRegion] /\ region[r] \in TaskRegion
        /\ f.idx \in Indices(MaxCount)
    BY <1>0, FrameFacts DEF WellFormed, TypeOK, Frame
  <2>2. region'[r] = Finished(region[r], f.idx)
        /\ \A q \in Regions : q # r => region'[q] = region[q]
    BY <1>0, <2>1
  <2> HIDE DEF r
  <2> QED BY <2>1, <2>2, FinishedFacts
<1>2. f.idx \in Claimed(region[r]) BY <1>0 DEF Bookkeeping, TaskFrames
<1>3. Claimed(region'[r]) = Claimed(region[r]) \ {f.idx}
  BY <1>0, <1>1 DEF Claimed
<1>4. Open(r) /\ \A q \in Regions : (Open(q)' <=> Open(q))
  <2>1. Claimed(Dead) = {} BY DEF Claimed, Dead, Indices
  <2> QED BY <1>0, <1>1, <1>2, <2>1 DEF Open, Bookkeeping, Accounting
<1>5. Accounting'
  <2> SUFFICES ASSUME NEW q \in Regions
      PROVE ( /\ ~Open(q) => region[q] = Dead
              /\ region[q].next <= region[q].count
              /\ region[q].ran \subseteq Indices(region[q].next)
              /\ region[q].done = Cardinality(region[q].ran) )'
    BY DEF Accounting
  <2>1. CASE q = r
    <3>1. /\ region[r].ran \subseteq Indices(region[r].next)
          /\ region[r].done = Cardinality(region[r].ran)
          /\ region[r].next <= region[r].count
      BY <1>0 DEF Bookkeeping, Accounting
    <3>2. f.idx \notin region[r].ran /\ f.idx \in Indices(region[r].next)
      BY <1>2 DEF Claimed
    <3>3. IsFiniteSet(region[r].ran)
      <4>1. IsFiniteSet(Indices(MaxCount))
        <5>1. 0 \in Int /\ MaxCount - 1 \in Int BY ThreadFacts
        <5>2. IsFiniteSet(0 .. MaxCount - 1) BY <5>1, FS_Interval, Zenon
        <5> QED BY <5>2 DEF Indices
      <4>2. region[r].ran \subseteq Indices(MaxCount) BY <1>0, RegionFacts
      <4> QED BY <4>1, <4>2, FS_Subset
    <3>4. Cardinality(region[r].ran \cup {f.idx}) = Cardinality(region[r].ran) + 1
      BY <3>2, <3>3, FS_AddElement
    <3>5. region'[r].done = Cardinality(region'[r].ran)
      BY <1>1, <3>1, <3>4
    <3>6. region'[r].ran \subseteq Indices(region'[r].next)
          /\ region'[r].next <= region'[r].count
      BY <1>0, <1>1, <3>1, <3>2
    <3> HIDE DEF r
    <3> QED BY <1>0, <1>4, <2>1, <3>5, <3>6
  <2>2. CASE q # r BY <1>1, <1>4, <2>2 DEF Bookkeeping, Accounting
  <2> QED BY <2>1, <2>2
<1>6. \A u \in Threads : \A k \in DOMAIN stack'[u] :
        k \in DOMAIN stack[u] /\ stack'[u][k] = stack[u][k] /\ ~(u = t /\ k = n)
  BY DEF Pop
<1>7. Unfinished'
  <2> SUFFICES ASSUME NEW q \in Regions, NEW i \in Claimed(region'[q])
      PROVE \E u \in Threads : \E k \in DOMAIN stack'[u] :
              stack'[u][k].kind = "task" /\ stack'[u][k].reg = q /\
                       stack'[u][k].idx = i
    BY DEF Unfinished
  <2>1. i \in Claimed(region[q]) /\ ~(q = r /\ i = f.idx) BY <1>1, <1>3
  <2>2. PICK u \in Threads : \E k \in DOMAIN stack[u] :
          stack[u][k].kind = "task" /\ stack[u][k].reg = q /\
                   stack[u][k].idx = i
    BY <2>1 DEF Bookkeeping, Unfinished
  <2>3. PICK k \in DOMAIN stack[u] :
          stack[u][k].kind = "task" /\ stack[u][k].reg = q /\
                   stack[u][k].idx = i
    BY <2>2
  <2>4. ~(u = t /\ k = n) BY <2>1, <2>3
  <2>5. k \in DOMAIN stack'[u] BY <2>4 DEF Pop
  <2>6. stack'[u][k] = stack[u][k] BY <1>6, <2>5
  <2> QED BY <2>3, <2>5, <2>6
<1>8. Owned'
  <2> SUFFICES ASSUME NEW q \in Regions, Open(q)'
      PROVE \E k \in DOMAIN stack'[region'[q].owner] :
              stack'[region'[q].owner][k].kind = "run" /\
                       stack'[region'[q].owner][k].reg = q
    BY DEF Owned
  <2>0. Open(q) /\ region'[q].owner = region[q].owner BY <1>1, <1>4
  <2>1. PICK k \in DOMAIN stack[region[q].owner] :
          stack[region[q].owner][k].kind = "run" /\
                   stack[region[q].owner][k].reg = q
    BY <2>0 DEF Bookkeeping, Owned
  <2>2. region[q].owner \in Threads BY <2>0, RegionFacts DEF Open
  <2>3. ~(region[q].owner = t /\ k = n) BY <2>1
  <2>4. k \in DOMAIN stack'[region[q].owner] BY <2>2, <2>3 DEF Pop
  <2>5. stack'[region[q].owner][k] = stack[region[q].owner][k]
    BY <1>6, <2>2, <2>4
  <2> QED BY <2>0, <2>1, <2>4, <2>5
<1>9. RunFrames'
  BY <1>1, <1>6, FrameFacts DEF Bookkeeping, RunFrames
<1>10. TaskFrames'
  <2> SUFFICES ASSUME NEW u \in Threads, NEW k \in DOMAIN stack'[u],
      stack'[u][k].kind = "task"
      PROVE /\ stack'[u][k].idx \in Claimed(region'[stack'[u][k].reg])
            /\ \A v \in Threads : \A j \in DOMAIN stack'[v] :
                 /\ stack'[v][j].kind = "task"
                 /\ stack'[v][j].reg = stack'[u][k].reg
                 /\ stack'[v][j].idx = stack'[u][k].idx
                 => v = u /\ j = k
    BY DEF TaskFrames
  <2>1. TaskFrames /\ stack[u][k].kind = "task" BY <1>6 DEF Bookkeeping
  <2>2. k \in DOMAIN stack[u] /\ stack[u][k].reg \in Regions BY <1>6, FrameFacts
  <2>3. stack[u][k].idx \in Claimed(region[stack[u][k].reg])
    BY <2>1, <2>2 DEF TaskFrames
  <2>4. ~(stack[u][k].reg = r /\ stack[u][k].idx = f.idx)
    BY <1>0, <1>6, <2>1, <2>2 DEF TaskFrames
  <2>5. stack[u][k].idx \in Claimed(region'[stack[u][k].reg])
    <3>1. CASE stack[u][k].reg = r BY <1>3, <2>3, <2>4, <3>1
    <3>2. CASE stack[u][k].reg # r BY <1>1, <2>2, <2>3, <3>2
    <3> QED BY <3>1, <3>2
  <2>6. \A v \in Threads : \A j \in DOMAIN stack'[v] :
          /\ stack'[v][j].kind = "task"
          /\ stack'[v][j].reg = stack'[u][k].reg
          /\ stack'[v][j].idx = stack'[u][k].idx
          => v = u /\ j = k
    BY <1>6, <2>1, <2>2 DEF TaskFrames
  <2> QED BY <1>6, <2>5, <2>6
<1> QED BY <1>5, <1>7, <1>8, <1>9, <1>10

\* Returning from a run none of whose tasks is outstanding keeps the books.
LEMMA CloseBookkeeping ==
  ASSUME WellFormed, Bookkeeping, NEW t \in Threads, NEW n, Pop(t, n), NEW f,
      f = stack[t][n],
         f.kind = "run",
         Claimed(region[f.reg]) = {},
         region' = [region EXCEPT ![f.reg] = Dead]
  PROVE  Accounting' /\ Unfinished' /\ Owned' /\ RunFrames' /\ TaskFrames'
<1> DEFINE r == f.reg
<1>0. n \in DOMAIN stack[t] /\ r \in Regions
  BY FrameFacts DEF Pop
<1>1. region'[r] = Dead /\ \A q \in Regions : q # r => region'[q] = region[q]
  BY <1>0 DEF WellFormed, TypeOK
<1>2. region[r].owner = t BY <1>0 DEF Bookkeeping, RunFrames
<1>3. ~Open(r)' /\ \A q \in Regions : q # r => (Open(q)' <=> Open(q))
  BY <1>1 DEF Open, Dead
<1>4. \A u \in Threads : \A k \in DOMAIN stack'[u] :
        /\ k \in DOMAIN stack[u] /\ stack'[u][k] = stack[u][k] /\ ~(u = t /\
                 k = n)
        /\ stack[u][k].reg \in Regions /\ stack[u][k].kind \in {"run", "task"}
  BY FrameFacts DEF Pop
<1>5. \A u \in Threads : \A k \in DOMAIN stack'[u] : stack[u][k].reg # r
  <2> SUFFICES ASSUME NEW u \in Threads, NEW k \in DOMAIN stack'[u],
      stack[u][k].reg = r
      PROVE FALSE
    OBVIOUS
  <2>0. k \in DOMAIN stack[u] /\ ~(u = t /\ k = n) BY <1>4
  <2>1. CASE stack[u][k].kind = "task"
    <3>1. TaskFrames BY DEF Bookkeeping
    <3>2. stack[u][k].idx \in Claimed(region[stack[u][k].reg])
      BY <2>0, <2>1, <3>1 DEF TaskFrames
    <3> QED BY <3>2
  <2>2. CASE stack[u][k].kind = "run"
    <3>1. u = t BY <1>2, <2>0, <2>2 DEF Bookkeeping, RunFrames
    <3>2. RunFrames BY DEF Bookkeeping
    <3> QED BY <1>0, <2>0, <2>2, <3>1, <3>2 DEF RunFrames
  <2> QED BY <1>4, <2>1, <2>2
<1>6. Accounting'
  <2> SUFFICES ASSUME NEW q \in Regions
      PROVE ( /\ ~Open(q) => region[q] = Dead
              /\ region[q].next <= region[q].count
              /\ region[q].ran \subseteq Indices(region[q].next)
              /\ region[q].done = Cardinality(region[q].ran) )'
    BY DEF Accounting
  <2>1. CASE q = r
    <3>1. Cardinality({}) = 0 BY FS_EmptySet
    <3>2. /\ Dead.next = 0 /\ Dead.count = 0 /\ Dead.ran = {} /\ Dead.done = 0
      BY DEF Dead
    <3> HIDE DEF r
    <3> QED BY <1>1, <1>3, <2>1, <3>1, <3>2
  <2>2. CASE q # r BY <1>1, <1>3, <2>2 DEF Bookkeeping, Accounting
  <2> QED BY <2>1, <2>2
<1>7. Unfinished'
  <2> SUFFICES ASSUME NEW q \in Regions, NEW i \in Claimed(region'[q])
      PROVE \E u \in Threads : \E k \in DOMAIN stack'[u] :
              stack'[u][k].kind = "task" /\ stack'[u][k].reg = q /\
                       stack'[u][k].idx = i
    BY DEF Unfinished
  <2>0. Claimed(Dead) = {} BY DEF Claimed, Dead, Indices
  <2>1. q # r /\ i \in Claimed(region[q]) BY <1>1, <2>0
  <2>2. PICK u \in Threads : \E k \in DOMAIN stack[u] :
          stack[u][k].kind = "task" /\ stack[u][k].reg = q /\
                   stack[u][k].idx = i
    BY <2>1 DEF Bookkeeping, Unfinished
  <2>3. PICK k \in DOMAIN stack[u] :
          stack[u][k].kind = "task" /\ stack[u][k].reg = q /\
                   stack[u][k].idx = i
    BY <2>2
  <2>4. ~(u = t /\ k = n) BY <2>1, <2>3
  <2>5. k \in DOMAIN stack'[u] BY <2>4 DEF Pop
  <2>6. stack'[u][k] = stack[u][k] BY <1>4, <2>5
  <2> QED BY <2>3, <2>5, <2>6
<1>8. Owned'
  <2> SUFFICES ASSUME NEW q \in Regions, Open(q)'
      PROVE \E k \in DOMAIN stack'[region'[q].owner] :
              stack'[region'[q].owner][k].kind = "run" /\
                       stack'[region'[q].owner][k].reg = q
    BY DEF Owned
  <2>0. q # r /\ Open(q) /\ region'[q].owner = region[q].owner BY <1>1, <1>3
  <2>1. PICK k \in DOMAIN stack[region[q].owner] :
          stack[region[q].owner][k].kind = "run" /\
                   stack[region[q].owner][k].reg = q
    BY <2>0 DEF Bookkeeping, Owned
  <2>2. region[q].owner \in Threads BY <2>0, RegionFacts DEF Open
  <2>3. ~(region[q].owner = t /\ k = n) BY <2>0, <2>1
  <2>4. k \in DOMAIN stack'[region[q].owner] BY <2>2, <2>3 DEF Pop
  <2>5. stack'[region[q].owner][k] = stack[region[q].owner][k]
    BY <1>4, <2>2, <2>4
  <2> QED BY <2>0, <2>1, <2>4, <2>5
<1>9. RunFrames'
  <2> HIDE DEF r
  <2> QED BY <1>1, <1>4, <1>5 DEF Bookkeeping, RunFrames
<1>10. TaskFrames'
  <2> SUFFICES ASSUME NEW u \in Threads, NEW k \in DOMAIN stack'[u],
      stack'[u][k].kind = "task"
      PROVE /\ stack'[u][k].idx \in Claimed(region'[stack'[u][k].reg])
            /\ \A v \in Threads : \A j \in DOMAIN stack'[v] :
                 /\ stack'[v][j].kind = "task"
                 /\ stack'[v][j].reg = stack'[u][k].reg
                 /\ stack'[v][j].idx = stack'[u][k].idx
                 => v = u /\ j = k
    BY DEF TaskFrames
  <2>1. TaskFrames /\ stack[u][k].kind = "task" BY <1>4 DEF Bookkeeping
  <2>2. k \in DOMAIN stack[u] /\ stack[u][k].reg \in Regions /\
           stack[u][k].reg # r
    BY <1>4, <1>5
  <2>3. stack[u][k].idx \in Claimed(region[stack[u][k].reg])
    BY <2>1, <2>2 DEF TaskFrames
  <2>5. stack[u][k].idx \in Claimed(region'[stack[u][k].reg])
    BY <1>1, <2>2, <2>3
  <2>6. \A v \in Threads : \A j \in DOMAIN stack'[v] :
          /\ stack'[v][j].kind = "task"
          /\ stack'[v][j].reg = stack'[u][k].reg
          /\ stack'[v][j].idx = stack'[u][k].idx
          => v = u /\ j = k
    BY <1>4, <2>1, <2>2 DEF TaskFrames
  <2> QED BY <1>4, <2>5, <2>6
<1> QED BY <1>6, <1>7, <1>8, <1>9, <1>10

\* A region that counts as done has had every index run to completion.
LEMMA AllRan ==
  ASSUME WellFormed, Bookkeeping, NEW r \in Regions,
      region[r].done = region[r].count
  PROVE  region[r].ran = Indices(region[r].count) /\ Claimed(region[r]) = {}
<1>1. /\ region[r].count \in Nat /\ region[r].next \in Nat
      /\ region[r].next <= region[r].count
      /\ region[r].ran \subseteq Indices(region[r].next)
      /\ region[r].done = Cardinality(region[r].ran)
  BY RegionFacts DEF Bookkeeping, Accounting
<1>2. region[r].ran \subseteq Indices(region[r].count)
      /\ Indices(region[r].next) \subseteq Indices(region[r].count)
  BY <1>1 DEF Indices
<1>3. IsFiniteSet(Indices(region[r].count)) /\
         Cardinality(Indices(region[r].count)) = region[r].count
  <2>1. 0 \in Int /\ region[r].count - 1 \in Int BY <1>1
  <2>2. /\ IsFiniteSet(0 .. region[r].count - 1)
        /\ Cardinality(0 .. region[r].count - 1) =
             IF 0 > region[r].count - 1 THEN 0 ELSE region[r].count - 1 - 0 + 1
    BY <2>1, FS_Interval, Zenon
  <2>3. (IF 0 > region[r].count - 1 THEN 0 ELSE region[r].count - 1 - 0 + 1) = region[r].count
    BY <1>1
  <2> QED BY <2>2, <2>3 DEF Indices
<1>4. region[r].ran = Indices(region[r].count)
  BY <1>1, <1>2, <1>3, FS_Subset
<1> QED BY <1>2, <1>4 DEF Claimed

\* Without workers, a run back in its own loop has no task outstanding.
LEMMA InlineDone ==
  ASSUME WellFormed, Bookkeeping, NEW t \in Threads, pc[t] = "inline"
  PROVE  Claimed(region[Last(stack[t]).reg]) = {}
<1> DEFINE r == Last(stack[t]).reg
<1>1. /\ stack[t] # <<>> /\ Last(stack[t]).kind = "run" /\
         Last(stack[t]) \in Frame
      /\ DOMAIN stack[t] = 1 .. Len(stack[t]) /\ Len(stack[t]) \in Nat
      /\ stack[t] \in Seq(Frame)
  BY ShapeFacts
<1>2. n_workers = 0 /\ started = 0 /\ \A u \in Workers : pc[u] = "off"
  BY ThreadFacts DEF WellFormed, TypeOK, Startup
<1>3. t = Caller BY <1>2, ThreadFacts
<1>4. \A u \in Threads : u # Caller => stack[u] = <<>>
  BY <1>2, OffFacts, ThreadFacts
<1>5. r \in Regions BY <1>1 DEF Frame
<1> SUFFICES ASSUME NEW i \in Claimed(region[r]) PROVE FALSE OBVIOUS
<1>6. PICK u \in Threads : \E k \in DOMAIN stack[u] :
          stack[u][k].kind = "task" /\ stack[u][k].reg = r /\
                   stack[u][k].idx = i
  BY <1>5 DEF Bookkeeping, Unfinished
<1>7. PICK k \in DOMAIN stack[u] :
          stack[u][k].kind = "task" /\ stack[u][k].reg = r /\
                   stack[u][k].idx = i
  BY <1>6
<1>8. u = Caller BY <1>4, <1>7
<1>9. Alternates(Caller, stack[Caller])
  BY ThreadFacts DEF WellFormed, StackShape, ShapeOf
<1>10. k # 1 /\ stack[Caller][k-1].kind # "task"
  BY <1>7, <1>8, <1>9 DEF Alternates
<1>11. k - 1 \in DOMAIN stack[Caller] /\ k \in 1 .. Len(stack[Caller])
  BY <1>1, <1>3, <1>7, <1>8, <1>10
<1>12. stack[Caller][k-1].kind = "run"
  BY <1>10, <1>11, FrameFacts, ThreadFacts
<1>13. stack[Caller][k-1].reg = r
  BY <1>2, <1>7, <1>8 DEF Bookkeeping, InlineShape
<1>14. Len(stack[Caller]) \in DOMAIN stack[Caller]
       /\ stack[Caller][Len(stack[Caller])] = Last(stack[Caller])
  BY <1>1, <1>3, <1>11 DEF Last
<1>15. Len(stack[Caller]) = k - 1
  BY <1>1, <1>3, <1>11, <1>12, <1>13, <1>14, ThreadFacts
      DEF Bookkeeping, RunFrames
<1> QED BY <1>1, <1>3, <1>11, <1>15

\* Steps that touch neither regions nor stacks keep the books.
LEMMA UnchangedBookkeeping ==
  ASSUME Bookkeeping, UNCHANGED <<region, stack>>
  PROVE  Accounting' /\ Unfinished' /\ Owned' /\ RunFrames' /\ TaskFrames'
BY DEF Bookkeeping, Accounting, Unfinished, Owned, RunFrames, TaskFrames, Open

\* Creation and destruction keep the books.
LEMMA LifecycleBookkeeping == WellFormed /\ Bookkeeping /\ Lifecycle =>
         Bookkeeping'
<1> SUFFICES ASSUME WellFormed, Bookkeeping, Lifecycle PROVE Bookkeeping'
  OBVIOUS
<1>1. UNCHANGED <<region, stack>> /\ pc[Caller] \in CallerPC
  BY DEF Lifecycle, Create, Spawn, SpawnEnd, Finalize, Await, AwaitRelock,
         Destroy, Shut, Join, Restart, CallerPC
<1>2. stack[Caller] = <<>> BY <1>1, CallerOutside
<1>3. InlineShape' BY <1>1, <1>2 DEF InlineShape
<1> QED BY <1>1, <1>3, UnchangedBookkeeping DEF Bookkeeping

\* Below each of the caller's tasks there is a run.
LEMMA CallerBelow ==
  ASSUME WellFormed, NEW k \in DOMAIN stack[Caller],
      stack[Caller][k].kind = "task"
  PROVE  k - 1 \in DOMAIN stack[Caller]
<1>1. Alternates(Caller, stack[Caller])
  BY ThreadFacts DEF WellFormed, StackShape, ShapeOf
<1>2. k # 1 BY <1>1 DEF Alternates
<1>3. DOMAIN stack[Caller] = 1 .. Len(stack[Caller]) /\
         Len(stack[Caller]) \in Nat
  BY ShapeFacts, ThreadFacts
<1> QED BY <1>2, <1>3

\* A push keeps InlineShape if a task goes on top of its own run.
LEMMA InlinePush ==
  ASSUME WellFormed, Bookkeeping, n_workers' = n_workers, NEW t \in Threads,
      NEW f \in Frame,
         Push(t, Len(stack[t]) + 1, f),
         f.kind = "task" /\ n_workers = 0 =>
                  stack[t] # <<>> /\ f.reg = Last(stack[t]).reg
  PROVE  InlineShape'
<1> SUFFICES ASSUME n_workers = 0, NEW k \in DOMAIN stack'[Caller],
                    stack'[Caller][k].kind = "task"
    PROVE stack'[Caller][k].reg = stack'[Caller][k-1].reg
  BY DEF InlineShape
<1>0. Caller \in Threads BY ThreadFacts
<1>1. CASE k \in DOMAIN stack[Caller]
  <2>1. Same(stack'[Caller][k], stack[Caller][k]) BY <1>0, <1>1 DEF Push
  <2>2. stack[Caller][k].kind = "task" BY <2>1 DEF Same
  <2>3. k - 1 \in DOMAIN stack[Caller] BY <1>1, <2>2, CallerBelow
  <2>4. Same(stack'[Caller][k-1], stack[Caller][k-1]) BY <1>0, <2>3 DEF Push
  <2>5. stack[Caller][k].reg = stack[Caller][k-1].reg
    BY <1>1, <2>2 DEF Bookkeeping, InlineShape
  <2> QED BY <2>1, <2>4, <2>5 DEF Same
<1>2. CASE t = Caller /\ k = Len(stack[t]) + 1
  <2>1. stack'[Caller][k] = f BY <1>2 DEF Push
  <2>2. f.reg = Last(stack[t]).reg /\ stack[t] # <<>> BY <2>1
  <2>3. Len(stack[t]) \in Nat /\ DOMAIN stack[t] = 1 .. Len(stack[t]) /\
           stack[t] \in Seq(Frame)
    BY ShapeFacts
  <2>4. k - 1 = Len(stack[t]) /\ k - 1 \in DOMAIN stack[t] BY <1>2, <2>2, <2>3
  <2>5. Same(stack'[t][k-1], stack[t][k-1]) BY <2>4 DEF Push
  <2>6. Last(stack[t]) = stack[t][k-1] BY <2>4 DEF Last
  <2> QED BY <1>2, <2>1, <2>2, <2>5, <2>6 DEF Same
<1> QED BY <1>0, <1>1, <1>2 DEF Push

\* A pop keeps InlineShape.
LEMMA InlinePop ==
  ASSUME WellFormed, Bookkeeping, n_workers' = n_workers, NEW t \in Threads,
      stack[t] # <<>>,
         Pop(t, Len(stack[t]))
  PROVE  InlineShape'
<1> SUFFICES ASSUME n_workers = 0, NEW k \in DOMAIN stack'[Caller],
                    stack'[Caller][k].kind = "task"
    PROVE stack'[Caller][k].reg = stack'[Caller][k-1].reg
  BY DEF InlineShape
<1>0. Caller \in Threads BY ThreadFacts
<1>1. k \in DOMAIN stack[Caller] /\ stack'[Caller][k] = stack[Caller][k]
      /\ ~(t = Caller /\ k = Len(stack[t]))
  BY <1>0 DEF Pop
<1>2. k - 1 \in DOMAIN stack[Caller] BY <1>1, CallerBelow
<1>3. k - 1 # Len(stack[Caller])
  BY <1>0, <1>1, ShapeFacts
<1>4. k - 1 \in DOMAIN stack'[Caller] BY <1>0, <1>2, <1>3 DEF Pop
<1>5. stack'[Caller][k-1] = stack[Caller][k-1] BY <1>0, <1>4 DEF Pop
<1> QED BY <1>1, <1>5 DEF Bookkeeping, InlineShape

\* Entering a task keeps the second invariant.
LEMMA EnterTaskBookkeeping ==
  ASSUME WellFormed, Bookkeeping, NEW t \in Threads, NEW r \in Regions,
      EnterTask(t, r),
         region[r].next < region[r].count, UNCHANGED create,
         n_workers = 0 => stack[t] # <<>> /\ r = Last(stack[t]).reg,
         region' = [region EXCEPT ![r].next = @ + 1]
  PROVE  Bookkeeping'
<1> DEFINE f == [kind |-> "task", reg |-> r, idx |-> region[r].next,
                  id |-> LoopId(t), saved |-> tls_thread_id[t], calls |-> 0]
<1>1. f \in Frame /\ f.kind = "task" /\ f.reg = r /\ f.idx = region[r].next
  BY FrameBuilt
<1>2. stack' = [stack EXCEPT ![t] = Append(stack[t], f)] /\
         stack[t] \in Seq(Frame)
  BY DEF EnterTask, WellFormed, TypeOK
<1> HIDE DEF f
<1>3. Push(t, Len(stack[t]) + 1, f)
  BY <1>1, <1>2, Pushes DEF Same
<1>4. InlineShape' BY <1>1, <1>3, InlinePush DEF create
<1> QED BY <1>1, <1>3, <1>4, ClaimBookkeeping DEF Bookkeeping

\* Returning from a run keeps the second invariant.
LEMMA ReturnBookkeeping ==
  ASSUME WellFormed, Bookkeeping, NEW t \in Threads, stack[t] # <<>>,
      Last(stack[t]).kind = "run",
         stack' = [stack EXCEPT ![t] = Front(@)], UNCHANGED create,
         Claimed(region[Last(stack[t]).reg]) = {},
         region' = [region EXCEPT ![Last(stack[t]).reg] = Dead]
  PROVE  Bookkeeping'
<1>1. Pop(t, Len(stack[t])) /\ stack[t][Len(stack[t])] = Last(stack[t]) BY Pops
<1>2. InlineShape' BY <1>1, InlinePop DEF create
<1>3. Accounting' /\ Unfinished' /\ Owned' /\ RunFrames' /\ TaskFrames'
  BY <1>1, CloseBookkeeping
<1> QED BY <1>2, <1>3 DEF Bookkeeping

\* Every step of a thread keeps the second invariant.
LEMMA StepBookkeeping == ASSUME WellFormed, Bookkeeping, NEW t \in Threads,
    Step(t) PROVE Bookkeeping'
<1>1. CASE Claim(t)
  <2>1. PICK k \in DOMAIN active :
       LET r == active[k] IN
       /\ Claimable(t, r)
       /\ region' = [region EXCEPT ![r].next = @ + 1]
       /\ EnterTask(t, r)
    BY <1>1 DEF Claim
  <2>2. active[k] \in Regions BY DEF WellFormed, TypeOK
  <2>3. n_workers # 0
    <3>1. CASE t = Caller
      BY <1>1, <3>1, ThreadFacts DEF Claim, WellFormed, Startup, TypeOK
    <3>2. CASE t # Caller
      <4>1. t \in Workers /\ pc[t] # "off" BY <1>1, <3>2, ThreadFacts DEF Claim
      <4> QED BY <4>1, ThreadFacts DEF WellFormed, Startup, TypeOK
    <3> QED BY <3>1, <3>2
  <2> QED BY <1>1, <2>1, <2>2, <2>3, EnterTaskBookkeeping DEF Claim, Claimable
<1>2. CASE ReturnFromRun(t)
  <2> DEFINE r == Last(stack[t]).reg
  <2>1. stack[t] # <<>> /\ Last(stack[t]) \in Frame /\
           Last(stack[t]).kind = "run"
    BY <1>2, ShapeFacts DEF ReturnFromRun
  <2>2. r \in Regions /\ region[r].done = region[r].count
    BY <1>2, <2>1 DEF ReturnFromRun, Frame
  <2>3. Claimed(region[r]) = {} BY <2>2, AllRan
  <2> QED BY <1>2, <2>1, <2>3, ReturnBookkeeping DEF ReturnFromRun
<1>3. CASE Run(t)
  <2>1. PICK r \in Regions, c \in 1 .. MaxCount, x \in BOOLEAN :
       LET my_id == IF tls_thread_id[t] = Outside THEN n_workers
                                                   ELSE tls_thread_id[t]
           frame == [kind |-> "run", reg |-> r, idx |-> 0, id |-> my_id,
                     saved |-> tls_thread_id[t], calls |-> 0]
           below == IF stack[t] = <<>> THEN <<>>
                    ELSE [stack[t] EXCEPT ![Len(stack[t])].calls = @ + 1]
       IN /\ region[r].owner = NoThread
          /\ region' = [region EXCEPT ![r] =
               [owner |-> t, count |-> c, next |-> 0, done |-> 0,
                exclusive |-> x, ran |-> {}]]
          /\ stack' = [stack EXCEPT ![t] = Append(below, frame)]
    BY <1>3 DEF Run
  <2> DEFINE my_id == IF tls_thread_id[t] = Outside THEN n_workers
                                                   ELSE tls_thread_id[t]
             f == [kind |-> "run", reg |-> r, idx |-> 0, id |-> my_id,
                     saved |-> tls_thread_id[t], calls |-> 0]
             below == IF stack[t] = <<>> THEN <<>>
                    ELSE [stack[t] EXCEPT ![Len(stack[t])].calls = @ + 1]
  <2>2. my_id \in -1 .. NWorkers /\ tls_thread_id[t] \in -1 .. NWorkers
    BY ThreadFacts DEF WellFormed, TypeOK
  <2>3. f \in Frame /\ f.kind = "run" /\ f.reg = r
    BY <2>2, ThreadFacts DEF Frame, Indices
  <2>4. stack' = [stack EXCEPT ![t] = Append(below, f)] /\ ~Open(r)
    BY <2>1 DEF Open
  <2>5. below \in Seq(Frame) /\ Len(below) = Len(stack[t])
        /\ \A k \in 1 .. Len(below) : Same(below[k], stack[t][k])
    <3>1. CASE stack[t] = <<>>
      <4>1. below = stack[t] BY <3>1
      <4> HIDE DEF below
      <4> QED BY <4>1, ShapeFacts DEF Same
    <3>2. CASE stack[t] # <<>>
      <4>1. Last(stack[t]).calls < MaxCalls
        BY <1>3, <3>2, ShapeFacts DEF Run, ShapeOf, TopPC
      <4>2. below = Bump(stack[t]) BY <3>2 DEF Bump
      <4> HIDE DEF below
      <4>3. stack[t] \in Seq(Frame) BY ShapeFacts
      <4> QED BY <3>2, <4>1, <4>2, <4>3, BumpFacts DEF Same
    <3> QED BY <3>1, <3>2
  <2> HIDE DEF f, below
  <2>6. Push(t, Len(stack[t]) + 1, f) BY <2>3, <2>4, <2>5, Pushes
  <2>7. InlineShape' BY <1>3, <2>3, <2>6, InlinePush DEF Run, create
  <2>8. Accounting' /\ Unfinished' /\ Owned' /\ RunFrames' /\ TaskFrames'
    BY <2>1, <2>3, <2>4, <2>6, OpenBookkeeping
  <2> QED BY <2>7, <2>8 DEF Bookkeeping
<1>4. CASE FinishTask(t)
  <2> DEFINE f == Last(stack[t])
  <2>1. stack[t] # <<>> /\ f \in Frame /\ f.kind = "task"
    BY <1>4, ShapeFacts DEF FinishTask
  <2>2. Pop(t, Len(stack[t])) /\ stack[t][Len(stack[t])] = f
    BY <1>4, <2>1, Pops DEF FinishTask
  <2>3. region' = [region EXCEPT ![f.reg] = Finished(@, f.idx)]
    BY <1>4 DEF FinishTask
  <2>4. InlineShape' BY <1>4, <2>1, <2>2, InlinePop DEF FinishTask, create
  <2>5. Accounting' /\ Unfinished' /\ Owned' /\ RunFrames' /\ TaskFrames'
    BY <2>1, <2>2, <2>3, FinishBookkeeping
  <2> QED BY <2>4, <2>5 DEF Bookkeeping
<1>5. CASE Inline(t)
  <2> DEFINE r == Last(stack[t]).reg
  <2>1. stack[t] # <<>> /\ Last(stack[t]) \in Frame /\
           Last(stack[t]).kind = "run"
        /\ pc[t] = "inline"
    BY <1>5, ShapeFacts DEF Inline
  <2>2. r \in Regions BY <2>1 DEF Frame
  <2>3. CASE region[r].next < region[r].count
    BY <1>5, <2>1, <2>2, <2>3, EnterTaskBookkeeping DEF Inline
  <2>4. CASE ~(region[r].next < region[r].count)
    BY <1>5, <2>1, <2>4, InlineDone, ReturnBookkeeping DEF Inline
  <2> QED BY <2>3, <2>4
<1>6. CASE Boot(t) \/ LoopWait(t) \/ WorkerExit(t) \/ Publish(t) \/ Rejoin(t) \/ SpuriousWake(t)
  <2>1. UNCHANGED <<region, stack, n_workers>>
    BY <1>6 DEF Boot, LoopWait, WorkerExit, Publish, Rejoin, SpuriousWake,
        create
  <2>2. InlineShape' BY <2>1 DEF Bookkeeping, InlineShape
  <2> QED BY <2>1, <2>2, UnchangedBookkeeping DEF Bookkeeping
<1> QED BY <1>1, <1>2, <1>3, <1>4, <1>5, <1>6 DEF Step, Loop

\* Both invariants hold in every state of the pool.
THEOREM Accounted == Spec => []IInv
<1>1. IInv /\ [Next]_vars => IInv'
  <2> SUFFICES ASSUME WellFormed, Bookkeeping, [Next]_vars
      PROVE WellFormed' /\ Bookkeeping'
    BY DEF IInv
  <2>1. WellFormed'
    <3>1. CASE Next BY <3>1, LifecycleWellFormed, StepWellFormed DEF Next
    <3>2. CASE UNCHANGED vars
      BY <3>2 DEF vars, create, tls, WellFormed, TypeOK, StackShape, Startup,
          ShapeOf,
                  Alternates, TopPC, IdlePC
    <3> QED BY <3>1, <3>2
  <2>2. Bookkeeping'
    <3>1. CASE Next BY <3>1, LifecycleBookkeeping, StepBookkeeping DEF Next
    <3>2. CASE UNCHANGED vars
      <4>1. UNCHANGED <<region, stack, n_workers>> BY <3>2 DEF vars, create
      <4>2. InlineShape' BY <4>1 DEF Bookkeeping, InlineShape
      <4> QED BY <4>1, <4>2, UnchangedBookkeeping DEF Bookkeeping
    <3> QED BY <3>1, <3>2
  <2> QED BY <2>1, <2>2
<1>2. Init => IInv BY InitWellFormed, InitBookkeeping DEF IInv
<1> QED BY <1>1, <1>2, PTL DEF Spec

\* Every activation is about a region in use.
LEMMA FramesOpen ==
  ASSUME WellFormed, Bookkeeping, NEW t \in Threads, NEW k \in DOMAIN stack[t]
  PROVE  Open(stack[t][k].reg)
<1> DEFINE r == stack[t][k].reg
<1>1. r \in Regions /\ stack[t][k].kind \in {"run", "task"} BY FrameFacts
<1>2. CASE stack[t][k].kind = "run"
  BY <1>2, <1>1, RegionFacts DEF Bookkeeping, RunFrames, Open
<1>3. CASE stack[t][k].kind = "task"
  <2>1. Claimed(Dead) = {} BY DEF Claimed, Dead, Indices
  <2>2. stack[t][k].idx \in Claimed(region[r])
    BY <1>3 DEF Bookkeeping, TaskFrames
  <2> QED BY <1>1, <2>1, <2>2 DEF Bookkeeping, Accounting
<1> QED BY <1>1, <1>2, <1>3

\* No thread is ever left with a pointer into a region whose stack frame is
\* gone: run_claimed never touches a dead TaskRegion, however many workers,
\* jobs and levels of nesting there are.
THEOREM RegionsAlive == Spec => []NoDanglingRegion
<1>1. WellFormed /\ Bookkeeping => NoDanglingRegion
  BY FrameFacts, FramesOpen DEF Bookkeeping, Owned, NoDanglingRegion
<1> QED BY <1>1, Accounted, PTL DEF IInv

\* What a step can do to region r: post a job, begin a task, end one, return.
Posts(r)    == /\ ~Open(r)
               /\ \E t \in Threads, n \in 1 .. MaxCount, x \in BOOLEAN :
                 region' = [region EXCEPT ![r] =
                   [owner |-> t, count |-> n, next |-> 0, done |-> 0,
                    exclusive |-> x, ran |-> {}]]
Begins(r)   == /\ region[r].next < region[r].count
               /\ region' = [region EXCEPT ![r].next = @ + 1]
Ends(r)     == \E i \in Claimed(region[r]) :
                 region' = [region EXCEPT ![r] = Finished(@, i)]
Returns(r)  == /\ region[r].ran = Indices(region[r].count)
               /\ region' = [region EXCEPT ![r] = Dead]

\* Every step changes at most one region, in one of those four ways.
LEMMA RegionSteps ==
  ASSUME WellFormed, Bookkeeping, [Next]_vars
  PROVE  \/ region' = region
         \/ \E r \in Regions : Posts(r) \/ Begins(r) \/ Ends(r) \/ Returns(r)
<1>1. CASE Lifecycle
  BY <1>1 DEF Lifecycle, Create, Spawn, SpawnEnd, Finalize, Await, AwaitRelock,
         Destroy, Shut, Join, Restart
<1>2. CASE UNCHANGED vars BY <1>2 DEF vars
<1>3. ASSUME NEW t \in Threads, Step(t)
      PROVE  \/ region' = region
             \/ \E r \in Regions : Posts(r) \/ Begins(r) \/ Ends(r) \/ Returns(r)
  <2>1. CASE Claim(t)
    <3>1. PICK k \in DOMAIN active :
           LET r == active[k] IN
           /\ Claimable(t, r)
           /\ region' = [region EXCEPT ![r].next = @ + 1]
      BY <2>1 DEF Claim
    <3>2. active[k] \in Regions BY DEF WellFormed, TypeOK
    <3> QED BY <3>1, <3>2 DEF Claimable, Begins
  <2>2. CASE ReturnFromRun(t)
    <3> DEFINE r == Last(stack[t]).reg
    <3>1. stack[t] # <<>> /\ Last(stack[t]) \in Frame
      BY <2>2, ShapeFacts DEF ReturnFromRun
    <3>2. r \in Regions /\ region[r].done = region[r].count
      BY <2>2, <3>1 DEF ReturnFromRun, Frame
    <3>3. region[r].ran = Indices(region[r].count) BY <3>2, AllRan
    <3> QED BY <2>2, <3>2, <3>3 DEF ReturnFromRun, Returns
  <2>3. CASE Run(t)
    <3>1. PICK r \in Regions, n \in 1 .. MaxCount, x \in BOOLEAN :
            /\ region[r].owner = NoThread
            /\ region' = [region EXCEPT ![r] =
                 [owner |-> t, count |-> n, next |-> 0, done |-> 0,
                  exclusive |-> x, ran |-> {}]]
      BY <2>3 DEF Run
    <3> QED BY <1>3, <3>1 DEF Posts, Open
  <2>4. CASE FinishTask(t)
    <3> DEFINE f == Last(stack[t])
    <3>1. stack[t] # <<>> /\ f \in Frame /\ f.kind = "task"
      BY <2>4, ShapeFacts DEF FinishTask
    <3>2. f.reg \in Regions BY <3>1 DEF Frame
    <3>3. f.idx \in Claimed(region[f.reg])
      <4>1. stack[t] \in Seq(Frame) BY ShapeFacts
      <4>2. Len(stack[t]) \in DOMAIN stack[t] /\ f = stack[t][Len(stack[t])]
        BY <3>1, <4>1, FrontFacts
      <4> HIDE DEF f
      <4>3. TaskFrames BY DEF Bookkeeping
      <4> QED BY <3>1, <4>2, <4>3 DEF TaskFrames
    <3>4. region' = [region EXCEPT ![f.reg] = Finished(@, f.idx)]
      BY <2>4 DEF FinishTask
    <3> QED BY <3>2, <3>3, <3>4 DEF Ends
  <2>5. CASE Inline(t)
    <3> DEFINE r == Last(stack[t]).reg
    <3>1. pc[t] = "inline" /\ stack[t] # <<>> /\ Last(stack[t]) \in Frame
      BY <2>5, ShapeFacts DEF Inline
    <3>2. r \in Regions BY <3>1 DEF Frame
    <3>3. CASE region[r].next < region[r].count
      BY <2>5, <3>2, <3>3 DEF Inline, Begins
    <3>4. CASE ~(region[r].next < region[r].count)
      <4>1. /\ region[r].next \in Nat /\ region[r].count \in Nat
            /\ region[r].next <= region[r].count
            /\ region[r].ran \subseteq Indices(region[r].next)
        BY <3>2, RegionFacts DEF Bookkeeping, Accounting
      <4>2. region[r].next = region[r].count BY <3>4, <4>1
      <4>3. Claimed(region[r]) = {} BY <3>1, InlineDone
      <4>4. region[r].ran = Indices(region[r].count)
        BY <4>1, <4>2, <4>3 DEF Claimed
      <4> QED BY <2>5, <3>2, <3>4, <4>4 DEF Inline, Returns
    <3> QED BY <3>3, <3>4
  <2>6. CASE Boot(t) \/ LoopWait(t) \/ WorkerExit(t) \/ Publish(t) \/ Rejoin(t) \/ SpuriousWake(t)
    BY <2>6 DEF Boot, LoopWait, WorkerExit, Publish, Rejoin, SpuriousWake
  <2> QED BY <1>3, <2>1, <2>2, <2>3, <2>4, <2>5, <2>6 DEF Step, Loop
<1> QED BY <1>1, <1>2, <1>3 DEF Next

\* ass_thread_pool_run returns only when each of its tasks has run.
THEOREM Completion == Spec => CompleteOnReturn
<1> DEFINE A == \A r \in Regions : Open(r) /\ ~Open(r)' =>
                  region[r].ran = Indices(region[r].count)
<1>1. WellFormed /\ Bookkeeping /\ [Next]_vars => [A]_vars
  <2> SUFFICES ASSUME WellFormed, Bookkeeping, [Next]_vars, NEW q \in Regions,
      Open(q), ~Open(q)'
      PROVE region[q].ran = Indices(region[q].count)
    OBVIOUS
  <2>0. region \in [Regions -> TaskRegion] BY DEF WellFormed, TypeOK
  <2>1. PICK r \in Regions : Posts(r) \/ Begins(r) \/ Ends(r) \/ Returns(r)
    BY RegionSteps DEF Open
  <2>2. CASE r # q
    BY <2>0, <2>1, <2>2 DEF Posts, Begins, Ends, Returns, Open
  <2>3. CASE r = q
    <3>1. CASE Posts(r) BY <2>3, <3>1 DEF Posts
    <3>2. CASE Begins(r) BY <2>0, <2>3, <3>2 DEF Begins, Open, TaskRegion
    <3>3. CASE Ends(r)
      <4>1. PICK i \in Claimed(region[r]) : region' = [region EXCEPT ![r] = Finished(@, i)]
        BY <3>3 DEF Ends
      <4>2. i \in Indices(MaxCount)
        BY RegionFacts, ThreadFacts DEF Claimed, Indices
      <4>3. region'[r].owner = region[r].owner
        BY <2>0, <4>1, <4>2, FinishedFacts
      <4> QED BY <2>3, <4>3 DEF Open
    <3>4. CASE Returns(r) BY <2>3, <3>4 DEF Returns
    <3> QED BY <2>1, <3>1, <3>2, <3>3, <3>4
  <2> QED BY <2>2, <2>3
<1> QED BY <1>1, Accounted, PTL DEF IInv, Spec, CompleteOnReturn

\* The worker pool implements the parallel-for: each index of each job is run
\* exactly once, and the call returns when all have finished.
THEOREM Implementation == Spec => ImplementsParallelFor
<1>1. Init => PF!Init
  <2>1. JobOf(Dead) = PF!Closed BY DEF JobOf, Dead, PF!Closed, Indices
  <2> QED BY <2>1 DEF Init, PF!Init
<1>2. WellFormed /\ Bookkeeping /\ [Next]_vars =>
         [PF!Next]_([r \in Regions |-> JobOf(region[r])])
  <2> DEFINE job == [r \in Regions |-> JobOf(region[r])]
  <2> SUFFICES ASSUME WellFormed, Bookkeeping, [Next]_vars, region' # region
      PROVE PF!Next \/ job' = job
    BY DEF JobOf
  <2>0. region \in [Regions -> TaskRegion] BY DEF WellFormed, TypeOK
  <2>1. PICK r \in Regions : Posts(r) \/ Begins(r) \/ Ends(r) \/ Returns(r)
    BY RegionSteps
  <2>2. region[r] \in TaskRegion /\ job[r] = JobOf(region[r]) /\
           job'[r] = JobOf(region'[r])
    BY <2>0
  <2>3. \A e : region' = [region EXCEPT ![r] = e] =>
           job' = [job EXCEPT ![r] = JobOf(e)]
    BY <2>0
  <2>4. CASE Posts(r)
    <3>1. PICK t \in Threads, n \in 1 .. MaxCount, x \in BOOLEAN :
            region' = [region EXCEPT ![r] =
                   [owner |-> t, count |-> n, next |-> 0, done |-> 0,
                    exclusive |-> x, ran |-> {}]]
      BY <2>4 DEF Posts
    <3>2. region[r] = Dead BY <2>4 DEF Posts, Bookkeeping, Accounting
    <3>3. JobOf(Dead) = PF!Closed BY DEF JobOf, Dead, PF!Closed, Indices
    <3>4. JobOf([owner |-> t, count |-> n, next |-> 0, done |-> 0,
                 exclusive |-> x, ran |-> {}])
          = [count |-> n, todo |-> PF!Indices(n), running |-> {}, ran |-> {}]
      BY DEF JobOf, Indices, PF!Indices
    <3>5. PF!Post(r, n) BY <2>2, <2>3, <3>1, <3>2, <3>3, <3>4 DEF PF!Post
    <3> QED BY <3>5 DEF PF!Next
  <2>5. CASE Begins(r)
    <3> DEFINE i == region[r].next  e == [region[r] EXCEPT !.next = @ + 1]
    <3>1. /\ i \in Nat /\ region[r].count \in 0 .. MaxCount /\
             i < region[r].count
          /\ region[r].ran \subseteq Indices(i)
      BY <2>5, RegionFacts DEF Begins, Bookkeeping, Accounting
    <3>2. i \in PF!Indices(MaxCount) BY <3>1, ThreadFacts DEF PF!Indices
    <3>3. i \in JobOf(region[r]).todo BY <3>1 DEF JobOf
    <3>4. /\ e.count = region[r].count /\ e.next = i + 1 /\
             e.ran = region[r].ran
      BY <2>2 DEF TaskRegion
    <3>5. region' = [region EXCEPT ![r] = e] BY <2>5 DEF Begins
    <3> HIDE DEF e
    <3>6. JobOf(e) = PF!Begun(JobOf(region[r]), i)
      <4>1. (i + 1) .. region[r].count - 1 = (i .. region[r].count - 1) \ {i}
        BY <3>1
      <4>2. Indices(i + 1) \ region[r].ran = (Indices(i) \ region[r].ran) \cup {i}
        BY <3>1 DEF Indices
      <4> HIDE DEF i
      <4> QED BY <3>4, <4>1, <4>2 DEF JobOf, PF!Begun, i
    <3>7. PF!Begin(r, i) BY <2>2, <2>3, <3>3, <3>5, <3>6 DEF PF!Begin
    <3> QED BY <3>2, <3>7 DEF PF!Next
  <2>6. CASE Ends(r)
    <3>1. PICK i \in Claimed(region[r]) : region' = [region EXCEPT ![r] = Finished(@, i)]
      BY <2>6 DEF Ends
    <3>2. i \in Indices(MaxCount) /\ i \in PF!Indices(MaxCount)
      BY RegionFacts, ThreadFacts DEF Claimed, Indices, PF!Indices
    <3>3. region' = [region EXCEPT ![r] = Finished(region[r], i)] BY <3>1
    <3>4. JobOf(Finished(region[r], i)) = PF!Ended(JobOf(region[r]), i)
      <4>1. /\ Finished(region[r], i).count = region[r].count
            /\ Finished(region[r], i).next = region[r].next
            /\ Finished(region[r], i).ran = region[r].ran \cup {i}
        BY <2>2, <3>2, FinishedFacts
      <4> QED BY <4>1 DEF JobOf, PF!Ended
    <3>5. i \in JobOf(region[r]).running BY DEF JobOf, Claimed
    <3>6. PF!End(r, i) BY <2>2, <2>3, <3>3, <3>4, <3>5 DEF PF!End
    <3> QED BY <3>2, <3>6 DEF PF!Next
  <2>7. CASE Returns(r)
    <3>1. region' = [region EXCEPT ![r] = Dead] /\ JobOf(Dead) = PF!Closed
      BY <2>7 DEF Returns, JobOf, Dead, PF!Closed, Indices
    <3>2. job' = [job EXCEPT ![r] = PF!Closed] BY <2>3, <3>1
    <3>3. /\ region[r].count \in Nat /\ region[r].next \in Nat
          /\ region[r].next <= region[r].count
          /\ region[r].ran = Indices(region[r].count)
          /\ region[r].ran \subseteq Indices(region[r].next)
      BY <2>7, RegionFacts DEF Returns, Bookkeeping, Accounting
    <3>4. CASE region[r].count > 0
      <4>1. PF!Return(r)
        BY <2>2, <3>2, <3>3, <3>4 DEF PF!Return, JobOf, PF!Indices, Indices
      <4> QED BY <4>1 DEF PF!Next
    <3>5. CASE region[r].count = 0
      <4>1. JobOf(region[r]) = PF!Closed
        <5>1. region[r].next = 0 BY <3>3, <3>5
        <5>2. Indices(0) = {} /\ 0 .. 0 - 1 = {} BY DEF Indices
        <5>3. region[r].ran = {} BY <3>3, <3>5, <5>2
        <5> QED BY <3>5, <5>1, <5>2, <5>3 DEF JobOf, PF!Closed
      <4>2. job' = job BY <2>2, <3>2, <4>1
      <4> QED BY <4>2
    <3> QED BY <3>3, <3>4, <3>5
  <2> QED BY <2>1, <2>4, <2>5, <2>6, <2>7
<1> QED BY <1>1, <1>2, Accounted, PTL DEF IInv, Spec, ImplementsParallelFor, PF!Spec

-----------------------------------------------------------------------------
(* The scratch of the threads: no two exclusive tasks in progress use the  *)
(* same per-thread scratch, and no worker outlives or precedes the pool.   *)

\* The scratch slot a thread works in: a worker its own, the caller the last.
Slot(t) == IF t = Caller THEN n_workers ELSE t

\* v is what tls_thread_id[t] holds n activations deep.  A worker's is its own
\* id; the caller's is set while a task runs, and without workers already by
\* the run, which calls the tasks itself.
Holds(t, n, v) ==
  IF t = Caller
    THEN v = IF n = 0 \/ (n = 1 /\ n_workers > 0) THEN Outside ELSE n_workers
    ELSE n > 0 => v = t

\* Every activation uses its thread's slot and saved what the thread-local id
\* was below it.
Slots ==
  \A t \in Threads :
    /\ Holds(t, Len(stack[t]), tls_thread_id[t])
    /\ \A k \in DOMAIN stack[t] : /\ stack[t][k].id = Slot(t)
                                  /\ Holds(t, k - 1, stack[t][k].saved)

\* A thread is in at most one exclusive task, and tls_excl_depth counts it,
\* unless the caller runs its tasks inline.
Depths ==
  \A t \in Threads :
    /\ \A j, k \in ExclusiveFrames(t) : j = k
    /\ tls_excl_depth[t] =
         IF ExclusiveFrames(t) = {} \/ (t = Caller /\ n_workers = 0) THEN 0 ELSE 1

\* Without workers, the run of an exclusive job has no exclusive task below it.
InlineDepth ==
  n_workers = 0 =>
    \A k \in DOMAIN stack[Caller] :
      /\ stack[Caller][k].kind = "run"
      /\ region[stack[Caller][k].reg].exclusive
      => \A j \in ExclusiveFrames(Caller) : j > k

\* The third inductive invariant: who uses which scratch.
Scratch == Slots /\ Depths /\ InlineDepth

\* The fourth: when a worker can be booting or gone.  A worker is up once it has
\* announced itself, and ready_workers counts those.
Up == {t \in Workers : pc[t] \notin {"off", "boot"}}
Working == {"idle", "publish", "inline", "loop", "body", "rejoin",
            "rejoin_last"}
Presence ==
  /\ ready_workers = Cardinality(Up)
  /\ pool = "freed" => pc[Caller] = "freed"
  /\ shutdown => pc[Caller] \in {"join", "freed", "crashed"}
  /\ \A t \in Workers : pc[t] = "exited" => shutdown
  /\ pc[Caller] \in Working => \A t \in Workers : pc[t] # "boot"
-----------------------------------------------------------------------------
(* Workers and the life of the pool                                        *)

\* Workers are finitely many, and so are those that are up.
LEMMA UpFacts == IsFiniteSet(Workers) /\ IsFiniteSet(Up)
<1>1. IsFiniteSet(Workers) BY ThreadFacts, FS_Interval
<1> QED BY <1>1, FS_Subset DEF Up

\* A thread that is up and moves, without exiting early or leaving the caller's
\* working positions, keeps the presence invariant.
LEMMA MovedPresence ==
  ASSUME WellFormed, Presence, NEW t \in Threads, NEW q, Goto(t, q),
         UNCHANGED <<pool, ready_workers, shutdown>>,
         t = Caller => pc[t] \in Working /\ q \in Working,
         t # Caller => pc[t] \notin {"off", "boot"} /\ q \notin {"off", "boot"},
         t # Caller /\ q = "exited" => shutdown
  PROVE  Presence'
<1>1. pc \in [Threads -> PC] BY DEF WellFormed, TypeOK
<1>2. Up' = Up
  BY <1>1, ThreadFacts DEF Up, Goto
<1>3. (pool = "freed" => pc[Caller] = "freed")'
  BY <1>1, ThreadFacts DEF Presence, Working, Goto
<1>4. (shutdown => pc[Caller] \in {"join", "freed", "crashed"})'
  BY <1>1, ThreadFacts DEF Presence, Working, Goto
<1>5. (\A u \in Workers : pc[u] = "exited" => shutdown)'
  BY <1>1, ThreadFacts DEF Presence, Goto
<1>6. (pc[Caller] \in Working => \A u \in Workers : pc[u] # "boot")'
  BY <1>1, ThreadFacts DEF Presence, Working, Goto
<1> QED BY <1>2, <1>3, <1>4, <1>5, <1>6 DEF Presence

\* Every step of a thread keeps the presence invariant.
LEMMA StepPresence ==
  ASSUME WellFormed, Presence, NEW t \in Threads, Step(t)
  PROVE  Presence'
<1>0. pc \in [Threads -> PC] BY DEF WellFormed, TypeOK
<1>1. CASE Boot(t)
  <2>1. t \in Workers /\ pc[t] = "boot" BY <1>1, ShapeFacts DEF Boot
  <2>2. Up' = Up \cup {t} /\ t \notin Up
    BY <1>0, <1>1, <2>1, ThreadFacts DEF Boot, Up, Goto
  <2>3. Cardinality(Up') = Cardinality(Up) + 1
    BY <2>2, UpFacts, FS_AddElement
  <2>4. ready_workers' = ready_workers + 1 /\ pool' = pool /\ shutdown' = shutdown
    BY <1>1 DEF Boot, create
  <2>5. pc'[Caller] = pc[Caller]
        /\ \A u \in Workers : pc'[u] = IF u = t THEN "loop" ELSE pc[u]
    BY <1>0, <1>1, <2>1, ThreadFacts DEF Boot, Goto
  <2> QED BY <2>3, <2>4, <2>5 DEF Presence
<1>2. CASE Claim(t)
  <2>1. Goto(t, "body") /\ pc[t] = "loop" BY <1>2 DEF Claim, EnterTask
  <2> QED BY <1>2, <2>1, MovedPresence DEF Claim, Working, create
<1>3. CASE ReturnFromRun(t)
  <2>1. PICK q \in {"idle", "body"} : Goto(t, q) BY <1>3 DEF ReturnFromRun
  <2>2. pc[t] = "loop" BY <1>3 DEF ReturnFromRun
  <2> QED BY <1>3, <2>1, <2>2, MovedPresence DEF ReturnFromRun, Working, create
<1>4. CASE LoopWait(t)
  BY <1>4, MovedPresence DEF LoopWait, Working, create
<1>5. CASE WorkerExit(t)
  <2>1. t # Caller BY <1>5, ShapeFacts, ThreadFacts DEF WorkerExit
  <2> QED BY <1>5, <2>1, MovedPresence DEF WorkerExit, create
<1>6. CASE Run(t)
  <2>1. PICK q \in {"inline", "publish"} : Goto(t, q) BY <1>6 DEF Run
  <2>2. pc[t] \in {"idle", "body"} BY <1>6 DEF Run
  <2> QED BY <1>6, <2>1, <2>2, MovedPresence DEF Run, Working, create
<1>7. CASE Publish(t)
  BY <1>7, MovedPresence DEF Publish, Working, create
<1>8. CASE FinishTask(t)
  <2>1. PICK q \in {"inline", "rejoin", "rejoin_last"} : Goto(t, q)
    BY <1>8 DEF FinishTask
  <2>2. pc[t] = "body" BY <1>8 DEF FinishTask
  <2> QED BY <1>8, <2>1, <2>2, MovedPresence DEF FinishTask, Working, create
<1>9. CASE Rejoin(t)
  BY <1>9, MovedPresence DEF Rejoin, Working, create
<1>10. CASE Inline(t)
  <2>1. PICK q \in {"body", "idle"} : Goto(t, q) BY <1>10 DEF Inline, EnterTask
  <2>2. pc[t] = "inline" BY <1>10 DEF Inline
  <2> QED BY <1>10, <2>1, <2>2, MovedPresence DEF Inline, Working, create
<1>11. CASE SpuriousWake(t)
  BY <1>11 DEF SpuriousWake, Presence, Up, create
<1> QED
  BY <1>1, <1>2, <1>3, <1>4, <1>5, <1>6, <1>7, <1>8, <1>9, <1>10, <1>11
  DEF Step, Loop

\* Creation and destruction keep the presence invariant.
LEMMA LifecyclePresence == WellFormed /\ Presence /\ Lifecycle => Presence'
<1> SUFFICES ASSUME WellFormed, Presence, Lifecycle PROVE Presence' OBVIOUS
<1>0. /\ Caller \in Threads /\ Caller = NWorkers /\ NWorkers \in Nat
      /\ Caller \notin Workers /\ Workers = 0 .. NWorkers - 1
      /\ Threads = 0 .. NWorkers
      /\ pc \in [Threads -> PC] /\ started \in 0 .. NWorkers
      /\ ready_workers \in Nat
  BY ThreadFacts DEF WellFormed, TypeOK
<1>a. ASSUME NEW q, Goto(Caller, q)
      PROVE  /\ pc'[Caller] = q /\ Up' = Up
             /\ \A t \in Workers : pc'[t] = pc[t]
  BY <1>0, <1>a DEF Goto, Up
<1>b. \A t \in Workers : pc[t] = "boot" => t < started
  BY <1>0 DEF WellFormed, Startup
<1>1. CASE Create
  <2>1. PICK q \in {"no_pool", "idle", "spawn", "shut"} : Goto(Caller, q)
    BY <1>1 DEF Create
  <2>2. pool' \in {pool, "live"} /\ shutdown' = shutdown
        /\ ready_workers' = ready_workers
    BY <1>1 DEF Create, create
  <2>3. pc[Caller] = "create" BY <1>1 DEF Create
  <2>4. \A t \in Workers : pc[t] # "boot"
    BY <1>0, <1>b, <2>3 DEF WellFormed, Startup
  <2> QED BY <1>a, <2>1, <2>2, <2>3, <2>4 DEF Presence, Working
<1>2. CASE Spawn
  <2>1. started \in Workers /\ pc[started] = "off"
    BY <1>0, <1>2 DEF Spawn, WellFormed, Startup
  <2>2. /\ pc'[Caller] = "spawn" /\ pc'[started] = "boot"
        /\ \A t \in Workers : t # started => pc'[t] = pc[t]
    BY <1>0, <1>2, <2>1 DEF Spawn
  <2>3. Up' = Up BY <2>1, <2>2 DEF Up
  <2> QED BY <1>2, <2>2, <2>3 DEF Spawn, Presence, Working
<1>3. CASE SpawnEnd
  <2>1. Goto(Caller, "finalize") BY <1>3 DEF SpawnEnd
  <2> QED BY <1>3, <1>a, <2>1 DEF SpawnEnd, Presence, Working, create
<1>4. CASE Finalize
  <2>1. Goto(Caller, "await") BY <1>4 DEF Finalize
  <2> QED BY <1>4, <1>a, <2>1 DEF Finalize, Presence, Working
<1>5. CASE Await
  <2>1. CASE ready_workers < started
    <3>1. Goto(Caller, "await_relock") BY <1>5, <2>1 DEF Await
    <3> QED BY <1>5, <1>a, <3>1 DEF Await, Presence, Working, create
  <2>2. CASE ~(ready_workers < started)
    <3>1. Goto(Caller, "idle") BY <1>5, <2>2 DEF Await
    <3>2. Up \subseteq 0 .. started - 1
      BY <1>0 DEF Up, WellFormed, Startup
    <3>3. IsFiniteSet(0 .. started - 1) /\ Cardinality(0 .. started - 1) = started
      <4>1. started \in Nat /\ 0 \in Int /\ started - 1 \in Int BY <1>0
      <4>2. /\ IsFiniteSet(0 .. started - 1)
            /\ Cardinality(0 .. started - 1) =
                 IF 0 > started - 1 THEN 0 ELSE started - 1 - 0 + 1
        BY <4>1, FS_Interval
      <4> QED BY <4>1, <4>2
    <3>4. Cardinality(Up) = started /\ Up = 0 .. started - 1
      <4>1. Cardinality(Up) <= started BY <3>2, <3>3, FS_Subset
      <4>2. Cardinality(Up) = ready_workers BY DEF Presence
      <4>3. Cardinality(Up) = started BY <1>0, <2>2, <4>1, <4>2
      <4> QED BY <3>2, <3>3, <4>3, FS_Subset
    <3>5. \A t \in Workers : pc[t] # "boot" BY <1>0, <1>b, <3>4 DEF Up
    <3> QED BY <1>5, <1>a, <3>1, <3>5 DEF Await, Presence, Working, create
  <2> QED BY <2>1, <2>2
<1>6. CASE AwaitRelock
  <2>1. Goto(Caller, "await") BY <1>6 DEF AwaitRelock
  <2> QED BY <1>6, <1>a, <2>1 DEF AwaitRelock, Presence, Working, create
<1>7. CASE Destroy
  <2>1. CASE n_workers = 0
    <3>1. Goto(Caller, "freed") BY <1>7, <2>1 DEF Destroy
    <3> QED BY <1>7, <1>a, <2>1, <3>1 DEF Destroy, Presence, Working
  <2>2. CASE n_workers # 0
    <3>1. Goto(Caller, "shut") /\ pc[Caller] = "idle" /\ pool' = pool
      BY <1>7, <2>2 DEF Destroy
    <3> QED BY <1>7, <1>a, <3>1 DEF Destroy, Presence, Working
  <2> QED BY <2>1, <2>2
<1>8. CASE Shut
  <2>1. Goto(Caller, "join") /\ pc[Caller] = "shut" BY <1>8 DEF Shut
  <2> QED BY <1>8, <1>a, <2>1 DEF Shut, Presence, Working, create
<1>9. CASE Join
  <2>1. CASE threads
    <3>1. Goto(Caller, "freed") BY <1>9, <2>1 DEF Join
    <3> QED BY <1>9, <1>a, <2>1, <3>1 DEF Join, Presence, Working
  <2>2. CASE ~threads
    <3>1. Goto(Caller, "crashed") /\ pc[Caller] = "join" /\ pool' = pool
      BY <1>9, <2>2 DEF Join
    <3> QED BY <1>9, <1>a, <3>1 DEF Join, Presence, Working
  <2> QED BY <2>1, <2>2
<1>10. CASE Restart
  <2>1. pc'[Caller] = "create" /\ \A t \in Workers : pc'[t] = "off"
    BY <1>0, <1>10 DEF Restart
  <2>2. Up' = {} BY <2>1 DEF Up
  <2> QED BY <1>10, <2>1, <2>2, FS_EmptySet DEF Restart, Presence, Working
<1> QED
  BY <1>1, <1>2, <1>3, <1>4, <1>5, <1>6, <1>7, <1>8, <1>9, <1>10 DEF Lifecycle

\* Nobody uses the pool before ass_thread_pool_create has returned it or after
\* it is freed, however many workers there are and however few could start.
THEOREM PoolOutlives == Spec => []PoolOutlivesWorkers
<1>1. Init => Presence
  <2> SUFFICES ASSUME Init PROVE Presence OBVIOUS
  <2>1. Up = {} BY ThreadFacts DEF Init, Up
  <2> QED BY <2>1, ThreadFacts, FS_EmptySet DEF Init, Presence, Working
<1>2. WellFormed /\ Presence /\ [Next]_vars => Presence'
  <2> SUFFICES ASSUME WellFormed, Presence, [Next]_vars PROVE Presence' OBVIOUS
  <2>1. CASE Next BY <2>1, LifecyclePresence, StepPresence DEF Next
  <2>2. CASE UNCHANGED vars BY <2>2 DEF vars, create, Presence, Up
  <2> QED BY <2>1, <2>2
<1>3. WellFormed /\ Presence => PoolOutlivesWorkers
  BY DEF WellFormed, Startup, Presence, Working, PoolOutlivesWorkers, Busy
<1> QED BY <1>1, <1>2, <1>3, Typing, PTL DEF Spec
-----------------------------------------------------------------------------
(* Scratch slots                                                           *)

\* Without workers only the caller is anywhere in the pool.
LEMMA OnlyCaller ==
  ASSUME WellFormed, NEW t \in Threads, n_workers = 0,
         pc[t] \notin {"off", "exited"}
  PROVE  t = Caller
BY ThreadFacts DEF WellFormed, TypeOK, Startup

\* Entering a task adds it to the exclusive ones if its region is.
LEMMA TaskPushed ==
  ASSUME WellFormed, NEW t \in Threads, NEW n, NEW f, Push(t, n, f),
         f.kind = "task", f.reg \in Regions,
         \A q \in Regions : region'[q].exclusive = region[q].exclusive
  PROVE  /\ \A u \in Threads : u # t => ExclusiveFrames(u)' = ExclusiveFrames(u)
         /\ ExclusiveFrames(t)' = ExclusiveFrames(t) \cup
              (IF region[f.reg].exclusive THEN {n} ELSE {})
<1>1. \A u \in Threads : \A k \in DOMAIN stack[u] :
        /\ k \in DOMAIN stack'[u] /\ stack'[u][k].kind = stack[u][k].kind
        /\ stack'[u][k].reg = stack[u][k].reg /\ stack[u][k].reg \in Regions
  BY FrameFacts DEF Push, Same
<1>2. \A u \in Threads : u # t => DOMAIN stack'[u] = DOMAIN stack[u]
  BY <1>1 DEF Push
<1>3. DOMAIN stack'[t] = DOMAIN stack[t] \cup {n} /\ n \notin DOMAIN stack[t]
      /\ stack'[t][n] = f
  BY <1>1 DEF Push
<1> QED BY <1>1, <1>2, <1>3 DEF ExclusiveFrames

\* Leaving a task removes it from the exclusive ones.
LEMMA TaskPopped ==
  ASSUME WellFormed, NEW t \in Threads, NEW n, Pop(t, n),
         \A q \in Regions : region'[q].exclusive = region[q].exclusive
  PROVE  /\ \A u \in Threads : u # t => ExclusiveFrames(u)' = ExclusiveFrames(u)
         /\ ExclusiveFrames(t)' = ExclusiveFrames(t) \ {n}
<1>1. \A u \in Threads : \A k \in DOMAIN stack'[u] :
        /\ k \in DOMAIN stack[u] /\ stack'[u][k] = stack[u][k]
        /\ stack[u][k].reg \in Regions
  BY FrameFacts DEF Pop
<1>2. \A u \in Threads : u # t => DOMAIN stack'[u] = DOMAIN stack[u]
  BY <1>1 DEF Pop
<1>3. DOMAIN stack'[t] = DOMAIN stack[t] \ {n}
  BY <1>1 DEF Pop
<1> QED BY <1>1, <1>2, <1>3 DEF ExclusiveFrames

\* Beginning a run in an unused region changes nobody's exclusive tasks.
LEMMA RunPushed ==
  ASSUME WellFormed, Bookkeeping, NEW t \in Threads, NEW n, NEW f,
         Push(t, n, f), f.kind = "run", NEW r \in Regions, ~Open(r),
         \A q \in Regions : q # r => region'[q] = region[q]
  PROVE  \A u \in Threads : ExclusiveFrames(u)' = ExclusiveFrames(u)
<1>1. \A u \in Threads : \A k \in DOMAIN stack[u] :
        /\ k \in DOMAIN stack'[u] /\ stack'[u][k].kind = stack[u][k].kind
        /\ stack'[u][k].reg = stack[u][k].reg /\ stack[u][k].reg \in Regions
        /\ stack[u][k].reg # r
  BY FrameFacts, FramesOpen DEF Push, Same
<1>2. \A u \in Threads : \A k \in DOMAIN stack'[u] :
        k \in DOMAIN stack[u] \/ stack'[u][k].kind = "run"
  BY DEF Push
<1> QED BY <1>1, <1>2 DEF ExclusiveFrames

\* Returning from a run whose tasks are done changes nobody's exclusive tasks.
LEMMA RunPopped ==
  ASSUME WellFormed, Bookkeeping, NEW t \in Threads, NEW n, Pop(t, n),
         stack[t][n].kind = "run", NEW r \in Regions, Claimed(region[r]) = {},
         \A q \in Regions : q # r => region'[q] = region[q]
  PROVE  \A u \in Threads : ExclusiveFrames(u)' = ExclusiveFrames(u)
<1>1. \A u \in Threads : \A k \in DOMAIN stack[u] : stack[u][k].kind = "task" =>
        stack[u][k].reg # r /\ stack[u][k].reg \in Regions
  BY FrameFacts DEF Bookkeeping, TaskFrames
<1>2. \A u \in Threads : \A k \in DOMAIN stack'[u] :
        k \in DOMAIN stack[u] /\ stack'[u][k] = stack[u][k]
  BY DEF Pop
<1>3. \A u \in Threads : \A k \in DOMAIN stack[u] :
        stack[u][k].kind = "task" => k \in DOMAIN stack'[u]
  BY DEF Pop
<1> QED BY <1>1, <1>2, <1>3 DEF ExclusiveFrames

\* Pushing an activation with the thread's slot and its present id keeps Slots.
LEMMA PushSlots ==
  ASSUME WellFormed, Slots, NEW t \in Threads, NEW s \in Seq(Frame),
         NEW f \in Frame, stack' = [stack EXCEPT ![t] = Append(s, f)],
         Len(s) = Len(stack[t]),
         \A k \in 1 .. Len(s) : Same(s[k], stack[t][k]),
         n_workers' = n_workers,
         f.id = Slot(t), f.saved = tls_thread_id[t],
         NEW v, tls_thread_id' = [tls_thread_id EXCEPT ![t] = v],
         Holds(t, Len(stack[t]) + 1, v)
  PROVE  Slots'
<1>1. /\ stack \in [Threads -> Seq(Frame)] /\ Len(stack[t]) \in Nat
      /\ DOMAIN stack[t] = 1 .. Len(stack[t])
      /\ tls_thread_id \in [Threads -> -1 .. NWorkers]
      /\ stack'[t] = Append(s, f)
  BY DEF WellFormed, TypeOK
<1>2. /\ DOMAIN stack'[t] = 1 .. Len(stack[t]) + 1
      /\ Len(stack'[t]) = Len(stack[t]) + 1
      /\ stack'[t][Len(stack[t]) + 1] = f
      /\ \A k \in 1 .. Len(stack[t]) : stack'[t][k] = s[k]
  BY <1>1, AppendFacts
<1>3. \A u \in Threads : Slot(u)' = Slot(u) BY DEF Slot
<1>4. \A u, m, w : Holds(u, m, w)' <=> Holds(u, m, w)
  BY DEF Holds
<1> SUFFICES ASSUME NEW u \in Threads
    PROVE /\ Holds(u, Len(stack'[u]), tls_thread_id'[u])
          /\ \A k \in DOMAIN stack'[u] :
               /\ stack'[u][k].id = Slot(u)
               /\ Holds(u, k - 1, stack'[u][k].saved)
  BY <1>3, <1>4 DEF Slots, Holds, Slot
<1>5. CASE u # t BY <1>1, <1>5 DEF Slots
<1>6. CASE u = t
  <2>1. Holds(t, Len(stack'[t]), tls_thread_id'[t]) BY <1>1, <1>2
  <2>2. ASSUME NEW k \in DOMAIN stack'[t]
        PROVE  stack'[t][k].id = Slot(t) /\ Holds(t, k - 1, stack'[t][k].saved)
    <3>1. CASE k = Len(stack[t]) + 1
      <4>1. k - 1 = Len(stack[t]) BY <1>1, <3>1
      <4> QED BY <1>2, <3>1, <4>1 DEF Slots
    <3>2. CASE k \in 1 .. Len(stack[t])
      BY <1>1, <1>2, <3>2 DEF Slots, Same
    <3> QED BY <1>1, <1>2, <3>1, <3>2
  <2> QED BY <1>6, <2>1, <2>2
<1> QED BY <1>5, <1>6

\* Popping an activation keeps Slots if the id is what it was below.
LEMMA PopSlots ==
  ASSUME WellFormed, Slots, NEW t \in Threads, stack[t] # <<>>,
         stack' = [stack EXCEPT ![t] = Front(@)], n_workers' = n_workers,
         NEW v, tls_thread_id' = [tls_thread_id EXCEPT ![t] = v],
         Holds(t, Len(stack[t]) - 1, v)
  PROVE  Slots'
<1>1. /\ stack \in [Threads -> Seq(Frame)] /\ stack[t] \in Seq(Frame)
      /\ tls_thread_id \in [Threads -> -1 .. NWorkers]
      /\ stack'[t] = Front(stack[t])
  BY DEF WellFormed, TypeOK
<1>2. /\ Len(stack'[t]) = Len(stack[t]) - 1 /\ Len(stack[t]) \in Nat \ {0}
      /\ DOMAIN stack'[t] = 1 .. Len(stack[t]) - 1
      /\ DOMAIN stack[t] = 1 .. Len(stack[t])
      /\ \A k \in 1 .. Len(stack[t]) - 1 : stack'[t][k] = stack[t][k]
  BY <1>1, FrontFacts
<1> SUFFICES ASSUME NEW u \in Threads
    PROVE /\ Holds(u, Len(stack'[u]), tls_thread_id'[u])
          /\ \A k \in DOMAIN stack'[u] :
               /\ stack'[u][k].id = Slot(u)
               /\ Holds(u, k - 1, stack'[u][k].saved)
  BY DEF Slots, Holds, Slot
<1>3. CASE u # t BY <1>1, <1>3 DEF Slots
<1>4. CASE u = t BY <1>1, <1>2, <1>4 DEF Slots
<1> QED BY <1>3, <1>4

\* A loop claims under its thread's slot.
LEMMA LoopSlot ==
  ASSUME WellFormed, Slots, NEW t \in Threads,
         pc[t] \in {"loop", "inline"}
  PROVE  LoopId(t) = Slot(t)
<1>1. CASE stack[t] = <<>>
  BY <1>1, ShapeFacts, ThreadFacts DEF LoopId, Slot
<1>2. CASE stack[t] # <<>>
  <2>1. Last(stack[t]) = stack[t][Len(stack[t])] /\
           Len(stack[t]) \in DOMAIN stack[t]
    BY <1>2, ShapeFacts, FrontFacts
  <2> QED BY <1>2, <2>1 DEF LoopId, Slots
<1> QED BY <1>1, <1>2

\* A run on the caller's stack is never second: a task lies between two runs.
LEMMA RunPosition ==
  ASSUME WellFormed, NEW t \in Threads, stack[t] # <<>>
  PROVE  /\ t = Caller /\ Last(stack[t]).kind = "run" =>
              Len(stack[t]) = 1 \/ Len(stack[t]) > 2
         /\ t = Caller /\ Last(stack[t]).kind = "task" => Len(stack[t]) > 1
         /\ Len(stack[t]) \in Nat \ {0}
<1>1. /\ Len(stack[t]) \in Nat \ {0} /\ DOMAIN stack[t] = 1 .. Len(stack[t])
      /\ Last(stack[t]) = stack[t][Len(stack[t])]
  BY ShapeFacts, FrontFacts
<1>2. Alternates(t, stack[t]) BY ShapeFacts DEF ShapeOf
<1>3. t = Caller => stack[t][1].kind = "run"
  <2>1. 1 \in DOMAIN stack[t] BY <1>1
  <2> QED BY <1>2, <2>1 DEF Alternates
<1>4. Len(stack[t]) = 2 => stack[t][2].kind # stack[t][1].kind
  <2> SUFFICES ASSUME Len(stack[t]) = 2
      PROVE stack[t][2].kind # stack[t][1].kind
    OBVIOUS
  <2>1. 2 \in DOMAIN stack[t] BY <1>1
  <2>2. \A k \in DOMAIN stack[t] : k # 1 =>
           stack[t][k].kind # stack[t][k-1].kind
    BY <1>2 DEF Alternates
  <2>3. 2 # 1 /\ 2 - 1 = 1 OBVIOUS
  <2>4. stack[t][2].kind # stack[t][2-1].kind BY <2>1, <2>2, <2>3, Zenon
  <2> QED BY <2>3, <2>4, Zenon
<1>5. CASE Len(stack[t]) = 1 BY <1>1, <1>3, <1>5
<1>6. CASE Len(stack[t]) = 2 BY <1>1, <1>3, <1>4, <1>6
<1>7. CASE Len(stack[t]) > 2 BY <1>1, <1>7
<1>8. Len(stack[t]) = 1 \/ Len(stack[t]) = 2 \/ Len(stack[t]) > 2
  <2>1. \A n \in Nat \ {0} : n = 1 \/ n = 2 \/ n > 2 OBVIOUS
  <2> QED BY <1>1, <2>1, Zenon
<1> QED BY <1>5, <1>6, <1>7, <1>8, Zenon

\* Entering a task keeps the scratch invariant, if the task gets the thread's
\* slot and an exclusive one is the thread's only one.
LEMMA EnterTaskScratch ==
  ASSUME WellFormed, Scratch, NEW t \in Threads, NEW r \in Regions,
         EnterTask(t, r), pc[t] \in {"loop", "inline"},
         region[r].next < region[r].count, n_workers' = n_workers,
         region' = [region EXCEPT ![r].next = @ + 1],
         region[r].exclusive => ExclusiveFrames(t) = {},
         NEW v, tls_thread_id' = [tls_thread_id EXCEPT ![t] = v],
         Holds(t, Len(stack[t]) + 1, v),
         NEW d, tls_excl_depth' = [tls_excl_depth EXCEPT ![t] = d],
         d = IF region[r].exclusive /\ ~(t = Caller /\ n_workers = 0)
               THEN 1 ELSE tls_excl_depth[t]
  PROVE  Scratch'
<1> DEFINE f == [kind |-> "task", reg |-> r, idx |-> region[r].next,
                  id |-> LoopId(t), saved |-> tls_thread_id[t], calls |-> 0]
           n == Len(stack[t]) + 1
<1>1. f \in Frame /\ f.kind = "task" /\ f.reg = r /\ f.id = Slot(t)
      /\ f.saved = tls_thread_id[t]
  BY FrameBuilt, LoopSlot DEF Scratch
<1>2. stack' = [stack EXCEPT ![t] = Append(stack[t], f)] /\
         stack[t] \in Seq(Frame)
  BY DEF EnterTask, WellFormed, TypeOK
<1> HIDE DEF f
<1>3. Push(t, n, f) BY <1>1, <1>2, Pushes DEF Same
<1>4. \A q \in Regions : region'[q].exclusive = region[q].exclusive
  BY RegionFacts DEF TaskRegion
<1>5. Slots'
  <2>1. \A k \in 1 .. Len(stack[t]) : Same(stack[t][k], stack[t][k]) BY DEF Same
  <2> QED BY <1>1, <1>2, <2>1, PushSlots DEF Scratch
<1>6. /\ \A u \in Threads : u # t => ExclusiveFrames(u)' = ExclusiveFrames(u)
      /\ ExclusiveFrames(t)' = ExclusiveFrames(t) \cup
           (IF region[r].exclusive THEN {n} ELSE {})
  BY <1>1, <1>3, <1>4, TaskPushed
<1>7. Depths'
  <2> SUFFICES ASSUME NEW u \in Threads
      PROVE /\ \A j, k \in ExclusiveFrames(u)' : j = k
            /\ tls_excl_depth'[u] =
                 IF ExclusiveFrames(u)' = {} \/ (u = Caller /\ n_workers = 0)
                   THEN 0 ELSE 1
    BY DEF Depths
  <2>0. tls_excl_depth \in [Threads -> Int] BY DEF WellFormed, TypeOK
  <2>1. CASE u # t BY <1>6, <2>0, <2>1 DEF Scratch, Depths
  <2>2. CASE u = t /\ ~region[r].exclusive
    BY <1>6, <2>0, <2>2 DEF Scratch, Depths
  <2>3. CASE u = t /\ region[r].exclusive
    BY <1>6, <2>0, <2>3 DEF Scratch, Depths
  <2> QED BY <2>1, <2>2, <2>3
<1>8. InlineDepth'
  <2> SUFFICES ASSUME n_workers = 0, NEW k \in DOMAIN stack'[Caller],
                      stack'[Caller][k].kind = "run",
                      region'[stack'[Caller][k].reg].exclusive,
                      NEW j \in ExclusiveFrames(Caller)'
      PROVE j > k
    BY DEF InlineDepth
  <2>0. Caller \in Threads BY ThreadFacts
  <2>1. k \in DOMAIN stack[Caller] /\ Same(stack'[Caller][k], stack[Caller][k])
    BY <1>1, <1>3, <2>0 DEF Push
  <2>2. stack[Caller][k].kind = "run" /\ region[stack[Caller][k].reg].exclusive
    <3>1. stack[Caller][k].reg \in Regions BY <2>0, <2>1, FrameFacts
    <3> QED BY <1>4, <2>1, <3>1 DEF Same
  <2>3. \A i \in ExclusiveFrames(Caller) : i > k
    BY <2>1, <2>2 DEF Scratch, InlineDepth
  <2>4. j \in ExclusiveFrames(Caller) \/ (t = Caller /\ j = n)
    BY <1>6, <2>0
  <2>5. t = Caller => n > k BY <2>0, <2>1, ShapeFacts
  <2> QED BY <2>3, <2>4, <2>5
<1> QED BY <1>5, <1>7, <1>8 DEF Scratch

\* Returning from a run keeps the scratch invariant.
LEMMA ReturnScratch ==
  ASSUME WellFormed, Bookkeeping, Scratch, NEW t \in Threads,
         stack[t] # <<>>, Last(stack[t]).kind = "run",
         stack' = [stack EXCEPT ![t] = Front(@)], n_workers' = n_workers,
         Claimed(region[Last(stack[t]).reg]) = {},
         region' = [region EXCEPT ![Last(stack[t]).reg] = Dead],
         NEW v, tls_thread_id' = [tls_thread_id EXCEPT ![t] = v],
         Holds(t, Len(stack[t]) - 1, v),
         UNCHANGED tls_excl_depth
  PROVE  Scratch'
<1> DEFINE r == Last(stack[t]).reg
<1>1. Pop(t, Len(stack[t])) /\ stack[t][Len(stack[t])] = Last(stack[t]) BY Pops
<1>2. r \in Regions BY ShapeFacts DEF Frame
<1>3. region'[r] = Dead /\ \A q \in Regions : q # r => region'[q] = region[q]
  BY <1>2, RegionFacts
<1>4. Slots' BY PopSlots DEF Scratch
<1>5. \A u \in Threads : ExclusiveFrames(u)' = ExclusiveFrames(u)
  BY <1>1, <1>2, <1>3, RunPopped
<1>6. Depths' BY <1>5 DEF Scratch, Depths
<1>7. InlineDepth'
  <2> SUFFICES ASSUME n_workers = 0, NEW k \in DOMAIN stack'[Caller],
                      stack'[Caller][k].kind = "run",
                      region'[stack'[Caller][k].reg].exclusive,
                      NEW j \in ExclusiveFrames(Caller)'
      PROVE j > k
    BY DEF InlineDepth
  <2>0. Caller \in Threads BY ThreadFacts
  <2>1. k \in DOMAIN stack[Caller] /\ stack'[Caller][k] = stack[Caller][k]
    BY <1>1, <2>0 DEF Pop
  <2>2. stack[Caller][k].reg \in Regions BY <2>0, <2>1, FrameFacts
  <2>3. stack[Caller][k].reg # r BY <1>3, <2>1 DEF Dead
  <2>4. region[stack[Caller][k].reg].exclusive BY <1>3, <2>1, <2>2, <2>3
  <2> QED BY <1>5, <2>0, <2>1, <2>4 DEF Scratch, InlineDepth
<1> QED BY <1>4, <1>6, <1>7 DEF Scratch

\* Posting a job keeps the scratch invariant, if an exclusive task posts no
\* exclusive job.
LEMMA RunScratch ==
  ASSUME WellFormed, Bookkeeping, Scratch, ~NestedExclusive, NEW t \in Threads,
         Run(t)
  PROVE  Scratch'
<1>1. PICK r \in Regions, c \in 1 .. MaxCount, x \in BOOLEAN :
     LET my_id == IF tls_thread_id[t] = Outside THEN n_workers
                                                 ELSE tls_thread_id[t]
         frame == [kind |-> "run", reg |-> r, idx |-> 0, id |-> my_id,
                   saved |-> tls_thread_id[t], calls |-> 0]
         below == IF stack[t] = <<>> THEN <<>>
                  ELSE [stack[t] EXCEPT ![Len(stack[t])].calls = @ + 1]
     IN /\ region[r].owner = NoThread
        /\ x => NestedExclusive \/ ExclusiveFrames(t) = {}
        /\ region' = [region EXCEPT ![r] =
             [owner |-> t, count |-> c, next |-> 0, done |-> 0,
              exclusive |-> x, ran |-> {}]]
        /\ stack' = [stack EXCEPT ![t] = Append(below, frame)]
        /\ IF n_workers = 0
             THEN /\ Goto(t, "inline")
                  /\ tls_thread_id' = [tls_thread_id EXCEPT ![t] = my_id]
             ELSE Goto(t, "publish") /\ UNCHANGED tls_thread_id
  BY DEF Run
<1> DEFINE my_id == IF tls_thread_id[t] = Outside THEN n_workers
                                                   ELSE tls_thread_id[t]
           f == [kind |-> "run", reg |-> r, idx |-> 0, id |-> my_id,
                   saved |-> tls_thread_id[t], calls |-> 0]
           below == IF stack[t] = <<>> THEN <<>>
                  ELSE [stack[t] EXCEPT ![Len(stack[t])].calls = @ + 1]
           n == Len(stack[t]) + 1
           v == IF n_workers = 0 THEN my_id ELSE tls_thread_id[t]
<1>2. /\ my_id \in -1 .. NWorkers /\ tls_thread_id[t] \in -1 .. NWorkers
      /\ n_workers \in Nat /\ t \in Nat /\ Outside = -1
      /\ tls_thread_id \in [Threads -> -1 .. NWorkers]
      /\ Len(stack[t]) \in Nat
  <2>1. t \in Nat /\ Len(stack[t]) \in Nat BY ThreadFacts, ShapeFacts
  <2>2. /\ tls_thread_id \in [Threads -> -1 .. NWorkers]
        /\ n_workers \in 0 .. NWorkers /\ NWorkers \in Nat
    BY ThreadFacts DEF WellFormed, TypeOK
  <2>3. tls_thread_id[t] \in -1 .. NWorkers BY <2>2
  <2>4. my_id \in -1 .. NWorkers BY <2>2, <2>3
  <2> QED BY <2>1, <2>2, <2>3, <2>4 DEF Outside
<1>3. f \in Frame /\ f.kind = "run" /\ f.reg = r /\ f.id = my_id
      /\ f.saved = tls_thread_id[t]
  BY <1>2, ThreadFacts DEF Frame, Indices
<1>4. stack' = [stack EXCEPT ![t] = Append(below, f)] /\ ~Open(r)
  BY <1>1 DEF Open
<1>5. below \in Seq(Frame) /\ Len(below) = Len(stack[t])
      /\ \A k \in 1 .. Len(below) : Same(below[k], stack[t][k])
  <2>1. CASE stack[t] = <<>>
    <3>1. below = stack[t] BY <2>1
    <3> HIDE DEF below
    <3> QED BY <3>1, ShapeFacts DEF Same
  <2>2. CASE stack[t] # <<>>
    <3>1. Last(stack[t]).calls < MaxCalls
      BY <2>2, ShapeFacts DEF Run, ShapeOf, TopPC
    <3>2. below = Bump(stack[t]) BY <2>2 DEF Bump
    <3> HIDE DEF below
    <3>3. stack[t] \in Seq(Frame) BY ShapeFacts
    <3> QED BY <2>2, <3>1, <3>2, <3>3, BumpFacts DEF Same
  <2> QED BY <2>1, <2>2
<1>6. Holds(t, Len(stack[t]), tls_thread_id[t]) BY DEF Scratch, Slots
<1>7. t # Caller => Len(stack[t]) > 0
  <2>1. t # Caller => pc[t] = "body"
    BY ShapeFacts DEF Run, ShapeOf, TopPC, IdlePC
  <2> QED BY <2>1, ShapeFacts, RunPosition
<1>8. t = Caller => Len(stack[t]) # 1
  <2>1. CASE stack[t] = <<>> BY <2>1
  <2>2. CASE stack[t] # <<>>
    <3>1. Last(stack[t]).kind = "task"
      BY <2>2, ShapeFacts DEF Run, ShapeOf, TopPC
    <3>2. t = Caller => Len(stack[t]) > 1 BY <2>2, <3>1, RunPosition
    <3>3. \A m \in Nat : m > 1 => m # 1 OBVIOUS
    <3> QED BY <1>2, <3>2, <3>3, Zenon
  <2> QED BY <2>1, <2>2
<1>9. my_id = Slot(t) BY <1>2, <1>6, <1>7 DEF Holds, Slot
<1>10. n_workers = 0 => t = Caller BY OnlyCaller DEF Run
<1>11. Holds(t, n, v) BY <1>2, <1>6, <1>7, <1>8, <1>9, <1>10 DEF Holds, Slot
<1>12. tls_thread_id' = [tls_thread_id EXCEPT ![t] = v]
  BY <1>1, <1>2
<1>13. n_workers' = n_workers /\ UNCHANGED tls_excl_depth BY DEF Run, create
<1> HIDE DEF f, below, v, my_id
<1>14. Slots'
  BY <1>3, <1>4, <1>5, <1>9, <1>11, <1>12, <1>13, PushSlots DEF Scratch
<1>15. Push(t, n, f) BY <1>3, <1>4, <1>5, Pushes
<1>16. region'[r].exclusive = x /\ \A q \in Regions : q # r => region'[q] = region[q]
  BY <1>1, RegionFacts
<1>17. \A u \in Threads : ExclusiveFrames(u)' = ExclusiveFrames(u)
  BY <1>3, <1>4, <1>15, <1>16, RunPushed
<1>18. Depths' BY <1>13, <1>17 DEF Scratch, Depths
<1>19. InlineDepth'
  <2> SUFFICES ASSUME n_workers = 0, NEW k \in DOMAIN stack'[Caller],
                      stack'[Caller][k].kind = "run",
                      region'[stack'[Caller][k].reg].exclusive,
                      NEW j \in ExclusiveFrames(Caller)'
      PROVE j > k
    BY <1>13 DEF InlineDepth
  <2>0. Caller \in Threads BY ThreadFacts
  <2>1. j \in ExclusiveFrames(Caller) BY <1>17, <2>0
  <2>2. CASE t = Caller /\ k = n
    <3>1. x = FALSE
      BY <1>1, <2>1, <2>2
    <3>2. stack'[Caller][k].reg = r BY <1>3, <1>15, <2>2 DEF Push
    <3> QED BY <1>16, <3>1, <3>2
  <2>3. CASE k \in DOMAIN stack[Caller]
    <3>1. Same(stack'[Caller][k], stack[Caller][k]) BY <1>15, <2>0, <2>3 DEF Push
    <3>2. stack[Caller][k].reg \in Regions /\ stack[Caller][k].reg # r
      BY <1>4, <2>0, <2>3, FrameFacts, FramesOpen
    <3> QED BY <1>16, <2>1, <2>3, <3>1, <3>2 DEF Same, Scratch, InlineDepth
  <2> QED BY <1>15, <2>0, <2>2, <2>3 DEF Push
<1> QED BY <1>14, <1>18, <1>19 DEF Scratch

\* Ending a task keeps the scratch invariant.
LEMMA FinishScratch ==
  ASSUME WellFormed, Scratch, NEW t \in Threads, FinishTask(t)
  PROVE  Scratch'
<1> DEFINE f == Last(stack[t])
           r == f.reg
           n == Len(stack[t])
           v == IF n_workers = 0 THEN tls_thread_id[t] ELSE f.saved
<1>1. /\ stack[t] # <<>> /\ f \in Frame /\ f.kind = "task"
      /\ stack' = [stack EXCEPT ![t] = Front(@)]
      /\ region' = [region EXCEPT ![r] = Finished(@, f.idx)]
      /\ n_workers' = n_workers
  BY ShapeFacts DEF FinishTask, create
<1>2. Pop(t, n) /\ stack[t][n] = f BY <1>1, Pops
<1>3. n \in DOMAIN stack[t] /\ r \in Regions /\ f.idx \in Indices(MaxCount)
  BY <1>1, <1>2 DEF Pop, Frame
<1>4. \A q \in Regions : region'[q].exclusive = region[q].exclusive
  <2>1. region \in [Regions -> TaskRegion] /\ region[r] \in TaskRegion
    BY <1>3, RegionFacts
  <2>2. Finished(region[r], f.idx).exclusive = region[r].exclusive
    BY <1>3, <2>1, FinishedFacts
  <2> QED BY <1>1, <1>3, <2>1, <2>2
<1>5. n_workers = 0 => t = Caller BY OnlyCaller DEF FinishTask
<1>6. t = Caller => n > 1 BY <1>1, RunPosition
<1>7. Holds(t, n, tls_thread_id[t]) /\ Holds(t, n - 1, f.saved)
  BY <1>2, <1>3 DEF Scratch, Slots
<1>8. n \in Nat /\ n_workers \in Nat
  BY <1>1, RunPosition DEF WellFormed, TypeOK
<1>9. Holds(t, n - 1, v)
  <2> HIDE DEF n, f
  <2>1. CASE n_workers # 0 BY <1>7, <2>1
  <2>2. CASE n_workers = 0
    <3>1. n - 1 # 0 /\ n # 0 /\ n # 1 /\ t = Caller
      BY <1>5, <1>6, <1>8, <2>2
    <3> QED BY <1>7, <2>2, <3>1 DEF Holds
  <2> QED BY <2>1, <2>2
<1>10. tls_thread_id' = [tls_thread_id EXCEPT ![t] = v]
  <2>1. tls_thread_id \in [Threads -> -1 .. NWorkers] BY DEF WellFormed, TypeOK
  <2> QED BY <2>1 DEF FinishTask, tls
<1>11. tls_excl_depth' = [tls_excl_depth EXCEPT ![t] =
         IF n_workers # 0 /\ region[r].exclusive THEN @ - 1 ELSE @]
  <2>1. tls_excl_depth \in [Threads -> Int] BY DEF WellFormed, TypeOK
  <2> QED BY <2>1 DEF FinishTask, tls
<1> HIDE DEF f, v
<1>12. Slots' BY <1>1, <1>9, <1>10, PopSlots DEF Scratch
<1>13. /\ \A u \in Threads : u # t => ExclusiveFrames(u)' = ExclusiveFrames(u)
       /\ ExclusiveFrames(t)' = ExclusiveFrames(t) \ {n}
  BY <1>2, <1>4, TaskPopped
<1>14. region[r].exclusive <=> n \in ExclusiveFrames(t)
  BY <1>1, <1>2, <1>3 DEF ExclusiveFrames
<1>15. Depths'
  <2> SUFFICES ASSUME NEW u \in Threads
      PROVE /\ \A j, k \in ExclusiveFrames(u)' : j = k
            /\ tls_excl_depth'[u] =
                 IF ExclusiveFrames(u)' = {} \/ (u = Caller /\ n_workers = 0)
                   THEN 0 ELSE 1
    BY <1>1 DEF Depths
  <2>0. tls_excl_depth \in [Threads -> Int] BY DEF WellFormed, TypeOK
  <2>1. CASE u # t BY <1>11, <1>13, <2>0, <2>1 DEF Scratch, Depths
  <2>2. CASE u = t /\ ~region[r].exclusive
    BY <1>11, <1>13, <1>14, <2>0, <2>2 DEF Scratch, Depths
  <2>3. CASE u = t /\ region[r].exclusive
    <3>1. \A j, k \in ExclusiveFrames(t) : j = k BY DEF Scratch, Depths
    <3>2. ExclusiveFrames(t)' = {} BY <1>13, <1>14, <2>3, <3>1
    <3>3. tls_excl_depth[t] = IF t = Caller /\ n_workers = 0 THEN 0 ELSE 1
      BY <1>14, <2>3 DEF Scratch, Depths
    <3> QED BY <1>5, <1>11, <2>0, <2>3, <3>2, <3>3
  <2> QED BY <2>1, <2>2, <2>3
<1>16. InlineDepth'
  <2> SUFFICES ASSUME n_workers = 0, NEW k \in DOMAIN stack'[Caller],
                      stack'[Caller][k].kind = "run",
                      region'[stack'[Caller][k].reg].exclusive,
                      NEW j \in ExclusiveFrames(Caller)'
      PROVE j > k
    BY <1>1 DEF InlineDepth
  <2>0. Caller \in Threads BY ThreadFacts
  <2>1. k \in DOMAIN stack[Caller] /\ stack'[Caller][k] = stack[Caller][k]
    BY <1>2, <2>0 DEF Pop
  <2>2. stack[Caller][k].reg \in Regions BY <2>0, <2>1, FrameFacts
  <2>3. j \in ExclusiveFrames(Caller) BY <1>13, <2>0
  <2> QED BY <1>4, <2>1, <2>2, <2>3 DEF Scratch, InlineDepth
<1> QED BY <1>12, <1>15, <1>16 DEF Scratch

\* Every step of a thread keeps the scratch invariant.
LEMMA StepScratch ==
  ASSUME WellFormed, Bookkeeping, Scratch, ~NestedExclusive, NEW t \in Threads,
         Step(t)
  PROVE  Scratch'
<1>0. /\ tls_thread_id \in [Threads -> -1 .. NWorkers]
      /\ tls_excl_depth \in [Threads -> Int] /\ n_workers \in Nat
      /\ Len(stack[t]) \in Nat
  BY ShapeFacts DEF WellFormed, TypeOK
<1>a. Holds(t, Len(stack[t]), tls_thread_id[t]) BY DEF Scratch, Slots
<1>b. \A m \in Nat : m + 1 # 0 /\ (m # 0 => m + 1 # 1) OBVIOUS
<1>1. CASE Claim(t)
  <2>1. PICK k \in DOMAIN active :
       LET r == active[k] IN
       /\ Claimable(t, r)
       /\ region' = [region EXCEPT ![r].next = @ + 1]
       /\ EnterTask(t, r)
       /\ tls_thread_id' = [tls_thread_id EXCEPT ![t] = LoopId(t)]
       /\ tls_excl_depth' = [tls_excl_depth EXCEPT ![t] =
                               IF region[r].exclusive THEN @ + 1 ELSE @]
    BY <1>1 DEF Claim
  <2> DEFINE r == active[k]
  <2>2. r \in Regions BY DEF WellFormed, TypeOK
  <2>3. n_workers # 0
    <3>1. t = Caller => n_workers # 0
      BY <1>1, ThreadFacts DEF Claim, WellFormed, Startup, TypeOK
    <3> QED BY <1>1, <3>1, OnlyCaller DEF Claim
  <2>4. LoopId(t) = Slot(t) BY <1>1, LoopSlot DEF Claim, Scratch
  <2>5. t = Caller => Len(stack[t]) # 0
    <3>1. t = Caller => stack[t] # <<>>
      BY <1>1, ShapeFacts, ThreadFacts DEF Claim
    <3>2. stack[t] # <<>> => Len(stack[t]) \in Nat \ {0} BY RunPosition
    <3> QED BY <3>1, <3>2
  <2>6. Holds(t, Len(stack[t]) + 1, LoopId(t))
    <3>1. t = Caller => Len(stack[t]) + 1 # 0 /\ Len(stack[t]) + 1 # 1
      BY <1>0, <1>b, <2>5, Zenon
    <3> QED BY <2>4, <3>1 DEF Holds, Slot
  <2>7. region[r].exclusive =>
          ExclusiveFrames(t) = {} /\ tls_excl_depth[t] = 0
    BY <2>1, <2>3 DEF Claimable, Scratch, Depths
  <2>8. tls_excl_depth' = [tls_excl_depth EXCEPT ![t] =
          IF region[r].exclusive /\ ~(t = Caller /\ n_workers = 0)
            THEN 1 ELSE tls_excl_depth[t]]
    <3> HIDE DEF r
    <3>1. tls_excl_depth' = [tls_excl_depth EXCEPT ![t] =
            IF region[r].exclusive THEN tls_excl_depth[t] + 1
                                   ELSE tls_excl_depth[t]]
      BY <1>0, <2>1 DEF r
    <3>2. CASE region[r].exclusive
      <4>1. tls_excl_depth[t] + 1 = 1 BY <2>7, <3>2
      <4> QED BY <2>3, <3>1, <3>2, <4>1
    <3>3. CASE ~region[r].exclusive BY <3>1, <3>3
    <3> QED BY <3>2, <3>3
  <2>9. region[r].next < region[r].count /\ pc[t] = "loop"
        /\ n_workers' = n_workers
    BY <1>1, <2>1 DEF Claimable, Claim, create
  <2> QED BY <2>1, <2>2, <2>6, <2>7, <2>8, <2>9, EnterTaskScratch
<1>2. CASE ReturnFromRun(t)
  <2> DEFINE r == Last(stack[t]).reg
  <2>1. stack[t] # <<>> /\ Last(stack[t]) \in Frame /\
           Last(stack[t]).kind = "run" /\ pc[t] = "loop"
    BY <1>2, ShapeFacts DEF ReturnFromRun
  <2>2. r \in Regions /\ region[r].done = region[r].count
    BY <1>2, <2>1 DEF ReturnFromRun, Frame
  <2>3. Claimed(region[r]) = {} BY <2>2, AllRan
  <2>4. t = Caller => n_workers > 0 BY <2>1 DEF WellFormed, Startup
  <2>5. Holds(t, Len(stack[t]) - 1, tls_thread_id[t])
    <3>1. /\ t = Caller => Len(stack[t]) = 1 \/ Len(stack[t]) > 2
          /\ Len(stack[t]) \in Nat \ {0}
      BY <2>1, RunPosition
    <3>2. \A m \in Nat \ {0} :
            /\ m = 1 => m - 1 = 0
            /\ m > 2 => m # 0 /\ m # 1 /\ m - 1 # 0 /\ m - 1 # 1
            /\ m - 1 > 0 => m > 0
      OBVIOUS
    <3>3. CASE t # Caller BY <1>a, <3>1, <3>2, <3>3 DEF Holds
    <3>4. CASE t = Caller /\ Len(stack[t]) = 1
      BY <1>a, <2>4, <3>4 DEF Holds
    <3>5. CASE t = Caller /\ Len(stack[t]) > 2
      BY <1>a, <3>1, <3>2, <3>5 DEF Holds
    <3> QED BY <3>1, <3>3, <3>4, <3>5
  <2>6. tls_thread_id' = [tls_thread_id EXCEPT ![t] = tls_thread_id[t]]
        /\ UNCHANGED tls_excl_depth /\ n_workers' = n_workers
    BY <1>0, <1>2 DEF ReturnFromRun, tls, create
  <2> QED BY <1>2, <2>1, <2>3, <2>5, <2>6, ReturnScratch DEF ReturnFromRun
<1>3. CASE Run(t) BY <1>3, RunScratch
<1>4. CASE FinishTask(t) BY <1>4, FinishScratch
<1>5. CASE Inline(t)
  <2> DEFINE f == Last(stack[t])
             r == f.reg
  <2>1. stack[t] # <<>> /\ f \in Frame /\ f.kind = "run" /\ pc[t] = "inline"
        /\ UNCHANGED tls_excl_depth /\ n_workers' = n_workers
    BY <1>5, ShapeFacts DEF Inline, create
  <2>2. r \in Regions BY <2>1 DEF Frame
  <2>3. n_workers = 0 /\ t = Caller
    <3>1. n_workers = 0 BY <2>1 DEF WellFormed, Startup
    <3> QED BY <2>1, <3>1, OnlyCaller
  <2>4. Len(stack[t]) \in DOMAIN stack[t] /\ f = stack[t][Len(stack[t])]
        /\ Len(stack[t]) # 0
    BY <2>1, ShapeFacts, FrontFacts
  <2>5. CASE region[r].next < region[r].count
    <3>1. Holds(t, Len(stack[t]) + 1, tls_thread_id[t])
      <4>1. Len(stack[t]) + 1 # 0 BY <1>0, <1>b
      <4> QED BY <1>a, <2>3, <2>4, <4>1 DEF Holds
    <3>2. region[r].exclusive => ExclusiveFrames(t) = {}
      <4> SUFFICES ASSUME region[r].exclusive, NEW j \in ExclusiveFrames(t)
          PROVE FALSE
        OBVIOUS
      <4>1. j > Len(stack[t]) BY <2>1, <2>3, <2>4 DEF Scratch, InlineDepth
      <4>2. j \in 1 .. Len(stack[t]) BY ShapeFacts DEF ExclusiveFrames
      <4> QED BY <1>0, <4>1, <4>2
    <3>3. tls_thread_id' = [tls_thread_id EXCEPT ![t] = tls_thread_id[t]]
          /\ tls_excl_depth' = [tls_excl_depth EXCEPT ![t] = tls_excl_depth[t]]
          /\ EnterTask(t, r) /\ region' = [region EXCEPT ![r].next = @ + 1]
      BY <1>0, <1>5, <2>1, <2>5 DEF Inline
    <3> HIDE DEF r
    <3> QED
      BY <2>1, <2>2, <2>3, <2>5, <3>1, <3>2, <3>3, EnterTaskScratch
  <2>6. CASE ~(region[r].next < region[r].count)
    <3>1. Claimed(region[r]) = {} BY <2>1, InlineDone
    <3>2. Holds(t, Len(stack[t]) - 1, f.saved) BY <2>4 DEF Scratch, Slots
    <3> QED BY <1>5, <2>1, <2>6, <3>1, <3>2, ReturnScratch DEF Inline
  <2> QED BY <2>5, <2>6
<1>6. CASE LoopWait(t) \/ WorkerExit(t) \/ Publish(t) \/ Rejoin(t) \/ SpuriousWake(t)
  BY <1>6 DEF LoopWait, WorkerExit, Publish, Rejoin, SpuriousWake, create, tls,
     Scratch, Slots, Depths, InlineDepth, Holds, Slot, ExclusiveFrames
<1>7. CASE Boot(t)
  <2>1. stack[t] = <<>> /\ t # Caller BY <1>7, ShapeFacts, ThreadFacts DEF Boot
  <2>2. UNCHANGED <<stack, region, n_workers, tls_excl_depth>>
        /\ \A u \in Threads : u # t => tls_thread_id'[u] = tls_thread_id[u]
    BY <1>0, <1>7 DEF Boot, create
  <2>3. Slots' BY <2>1, <2>2 DEF Scratch, Slots, Holds, Slot
  <2>4. Depths' /\ InlineDepth'
    BY <2>2 DEF Scratch, Depths, InlineDepth, ExclusiveFrames
  <2> QED BY <2>3, <2>4 DEF Scratch
<1> QED BY <1>1, <1>2, <1>3, <1>4, <1>5, <1>6, <1>7 DEF Step, Loop

\* Creation and destruction keep the scratch invariant: the caller is outside.
LEMMA LifecycleScratch == WellFormed /\ Scratch /\ Lifecycle => Scratch'
<1> SUFFICES ASSUME WellFormed, Scratch, Lifecycle PROVE Scratch' OBVIOUS
<1>1. UNCHANGED <<region, stack, tls_excl_depth>> /\ pc[Caller] \in CallerPC
  BY DEF Lifecycle, Create, Spawn, SpawnEnd, Finalize, Await, AwaitRelock,
         Destroy, Shut, Join, Restart, CallerPC, tls
<1>2. stack[Caller] = <<>> BY <1>1, CallerOutside
<1>3. /\ Caller \in Threads /\ tls_thread_id'[Caller] = tls_thread_id[Caller]
      /\ \A t \in Workers : stack[t] # <<>> =>
           tls_thread_id'[t] = tls_thread_id[t]
  <2>1. CASE Restart
    <3>1. ASSUME NEW t \in Workers PROVE stack[t] = <<>>
      <4>1. pc[t] \in {"off", "exited"}
        BY <2>1, ThreadFacts DEF Restart, WellFormed, Startup, TypeOK
      <4> QED BY <4>1, OffFacts
    <3> QED BY <2>1, <3>1, ThreadFacts DEF Restart
  <2>2. CASE ~Restart
    BY <2>2, ThreadFacts DEF Lifecycle, Create, Spawn, SpawnEnd, Finalize,
       Await, AwaitRelock, Destroy, Shut, Join, tls
  <2> QED BY <2>1, <2>2
<1>4. \A t \in Threads : ExclusiveFrames(t)' = ExclusiveFrames(t)
  BY <1>1 DEF ExclusiveFrames
<1>5. Slots'
  <2> SUFFICES ASSUME NEW t \in Threads
      PROVE ( /\ Holds(t, Len(stack[t]), tls_thread_id[t])
              /\ \A k \in DOMAIN stack[t] :
                   /\ stack[t][k].id = Slot(t)
                   /\ Holds(t, k - 1, stack[t][k].saved) )'
    BY DEF Slots
  <2>1. CASE t = Caller
    <3>1. Len(stack[Caller]) = 0 /\ DOMAIN stack[Caller] = {} BY <1>2
    <3> QED BY <1>1, <1>3, <2>1, <3>1 DEF Scratch, Slots, Holds
  <2>2. CASE t # Caller
    <3>1. t \in Workers BY <2>2, ThreadFacts
    <3>2. CASE stack[t] = <<>>
      <4>1. Len(stack[t]) = 0 /\ DOMAIN stack[t] = {} BY <3>2
      <4> QED BY <1>1, <2>2, <4>1 DEF Holds
    <3>3. CASE stack[t] # <<>>
      BY <1>1, <1>3, <2>2, <3>1, <3>3 DEF Scratch, Slots, Holds, Slot
    <3> QED BY <3>2, <3>3
  <2> QED BY <2>1, <2>2
<1>6. Depths'
  <2>1. ExclusiveFrames(Caller) = {} BY <1>2 DEF ExclusiveFrames
  <2> QED BY <1>1, <1>3, <1>4, <2>1 DEF Scratch, Depths
<1>7. InlineDepth' BY <1>1, <1>2 DEF InlineDepth
<1> QED BY <1>5, <1>6, <1>7 DEF Scratch

\* Exclusive tasks never share per-thread scratch, whatever nests and however
\* the workers interleave, provided an exclusive task posts no exclusive job:
\* what ass_render.c, where only the event job is exclusive, keeps to.
THEOREM ScratchNotShared == ~NestedExclusive => (Spec => []ScratchExclusive)
<1> SUFFICES ASSUME ~NestedExclusive PROVE Spec => []ScratchExclusive OBVIOUS
<1>1. Init => Scratch
  <2> SUFFICES ASSUME Init PROVE Scratch OBVIOUS
  <2>1. \A t \in Threads : stack[t] = <<>> /\ ExclusiveFrames(t) = {}
    BY DEF Init, ExclusiveFrames
  <2>2. \A t \in Threads : Len(stack[t]) = 0 /\ DOMAIN stack[t] = {} BY <2>1
  <2>3. Slots BY <2>2 DEF Init, Slots, Holds
  <2>4. Depths BY <2>1 DEF Init, Depths
  <2>5. InlineDepth BY <2>2, ThreadFacts DEF InlineDepth
  <2> QED BY <2>3, <2>4, <2>5 DEF Scratch
<1>2. IInv /\ Scratch /\ [Next]_vars => Scratch'
  <2> SUFFICES ASSUME WellFormed, Bookkeeping, Scratch, [Next]_vars
      PROVE Scratch'
    BY DEF IInv
  <2>1. CASE Next BY <2>1, LifecycleScratch, StepScratch DEF Next
  <2>2. CASE UNCHANGED vars
    BY <2>2 DEF vars, create, tls, Scratch, Slots, Depths, InlineDepth, Holds,
       Slot, ExclusiveFrames
  <2> QED BY <2>1, <2>2
<1>3. IInv /\ Scratch => ScratchExclusive
  <2> SUFFICES ASSUME WellFormed, Scratch, NEW t \in Threads, NEW u \in Threads,
                      NEW k \in ExclusiveFrames(t), NEW j \in ExclusiveFrames(u),
                      stack[t][k].id = stack[u][j].id
      PROVE t = u /\ k = j
    BY DEF IInv, ScratchExclusive
  <2>1. k \in DOMAIN stack[t] /\ j \in DOMAIN stack[u] BY DEF ExclusiveFrames
  <2>2. Slot(t) = Slot(u) BY <2>1 DEF Scratch, Slots
  <2>3. ASSUME NEW w \in Workers, NEW m \in DOMAIN stack[w] PROVE w # n_workers
    <3>1. stack[w] # <<>>
      <4>1. stack[w] = <<>> => DOMAIN stack[w] = {} OBVIOUS
      <4> QED BY <4>1
    <3>2. pc[w] # "off" BY <3>1, OffFacts
    <3> QED BY <3>2, ThreadFacts DEF WellFormed, Startup, TypeOK
  <2>4. t = u BY <2>1, <2>2, <2>3, ThreadFacts DEF Slot
  <2> QED BY <2>4 DEF Scratch, Depths
<1> QED BY <1>1, <1>2, <1>3, Accounted, PTL DEF Spec
=============================================================================
