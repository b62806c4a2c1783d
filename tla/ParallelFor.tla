----------------------------- MODULE ParallelFor -----------------------------
(***************************************************************************)
(* What ass_thread_pool_run() promises its callers (ass_threading.h):      *)
(* every index of a posted job is run exactly once, in any order and on    *)
(* any thread, and the call returns only when all of them have finished.   *)
(* Several jobs may be outstanding at once, because tasks may themselves   *)
(* post jobs.                                                              *)
(***************************************************************************)
EXTENDS Integers

CONSTANTS Regions,     \* names of the calls that can be outstanding at once
          MaxCount     \* bound on the number of tasks of one call

VARIABLE job           \* job[r]: the outstanding call r, or Closed

Indices(n) == 0 .. n - 1

Closed == [count |-> 0, todo |-> {}, running |-> {}, ran |-> {}]

Init == job = [r \in Regions |-> Closed]

\* A caller asks for n tasks to be run.
Post(r, n) ==
  /\ job[r] = Closed
  /\ job' = [job EXCEPT ![r] =
       [count |-> n, todo |-> Indices(n), running |-> {}, ran |-> {}]]

\* Some thread starts task i of job r.
Begun(j, i) == [count   |-> j.count,            todo |-> j.todo \ {i},
                running |-> j.running \cup {i}, ran  |-> j.ran]
Begin(r, i) ==
  /\ i \in job[r].todo
  /\ job' = [job EXCEPT ![r] = Begun(@, i)]

\* The thread running task i of job r finishes it.
Ended(j, i) == [count   |-> j.count,          todo |-> j.todo,
                running |-> j.running \ {i},  ran  |-> j.ran \cup {i}]
End(r, i) ==
  /\ i \in job[r].running
  /\ job' = [job EXCEPT ![r] = Ended(@, i)]

\* The call returns: every task has run to completion.
Return(r) ==
  /\ job[r].count > 0
  /\ job[r].ran = Indices(job[r].count)
  /\ job' = [job EXCEPT ![r] = Closed]

Next == \E r \in Regions :
          \/ \E n \in 1 .. MaxCount : Post(r, n)
          \/ \E i \in Indices(MaxCount) : Begin(r, i) \/ End(r, i)
          \/ Return(r)

Spec == Init /\ [][Next]_job
=============================================================================
