------------------------------ MODULE TaskQueue ------------------------------
(***************************************************************************)
(* The task queue of exec/task.c: every task structure carries next/prev   *)
(* pointers, and together they form one cyclic doubly linked list that     *)
(* always contains task_kernel.                                            *)
(*                                                                         *)
(* task_insert() and the unlinking done by task_do_delete() write four and *)
(* two pointers.  Outside interrupt context a timer interrupt can arrive   *)
(* between the writes, so each operation is two steps here, and the links  *)
(* are inconsistent in between.                                            *)
(***************************************************************************)
EXTENDS Integers, FiniteSets

CONSTANTS Task,        \* addresses of task structures
          task_kernel, \* the structure made by task_init_stub()
          NULL

ASSUME TaskAssumption == /\ task_kernel \in Task
                         /\ NULL \notin Task
                         /\ IsFiniteSet(Task)

VARIABLES next, prev   \* task_common_t links; NULL in a structure not linked yet

links == <<next, prev>>

\* Tasks whose links have been written.
Linked == {t \in Task : next[t] # NULL}

LinksType == /\ next \in [Task -> Task \union {NULL}]
             /\ prev \in [Task -> Task \union {NULL}]

\* task_init_stub(): the kernel task is a ring of one.
QueueInit == /\ next = [t \in Task |-> IF t = task_kernel THEN t ELSE NULL]
             /\ prev = next

\* A slip: the old successor does not learn of the new task.
InsertBackLinksLost(task, target) ==
  /\ next' = [next EXCEPT ![task] = next[target]]
  /\ prev' = [prev EXCEPT ![task] = target]

\* task_insert(), up to the last pointer write but one.
InsertBackLinks(task, target) ==
  /\ next' = [next EXCEPT ![task] = next[target]]
  /\ prev' = [prev EXCEPT ![task] = target, ![next[target]] = task]

\* The last write of task_insert(): the task becomes reachable.
InsertForwardLink(task, target) ==
  /\ next' = [next EXCEPT ![target] = task]
  /\ UNCHANGED prev

\* task_do_delete(): the predecessor skips the task ...
UnlinkForward(task) ==
  /\ next' = [next EXCEPT ![prev[task]] = next[task]]
  /\ UNCHANGED prev

\* A slip: the second link is not repaired.
UnlinkBackLost(task) ==
  /\ next' = [next EXCEPT ![task] = NULL]
  /\ prev' = [prev EXCEPT ![task] = NULL]

\* ... then the successor does, and the structure is given back to the heap.
UnlinkBack(task) ==
  /\ next' = [next EXCEPT ![task] = NULL]
  /\ prev' = [prev EXCEPT ![next[task]] = prev[task], ![task] = NULL]

\* Both writes at once, for a deletion that no interrupt can split.
Unlink(task) ==
  /\ next' = [next EXCEPT ![prev[task]] = next[task], ![task] = NULL]
  /\ prev' = [prev EXCEPT ![next[task]] = prev[task], ![task] = NULL]

(***************************************************************************)
(* Walking the ring as the loop of task_yield() does.                      *)
(***************************************************************************)
\* The task reached from `from` by following next n times.
Walk(from) ==
  LET at[n \in 0 .. Cardinality(Task)] == IF n = 0 THEN from ELSE next[at[n - 1]]
  IN  at

\* How many steps the scan takes from `from` until it first meets t.
Distance(from, t) ==
  CHOOSE n \in 1 .. Cardinality(Task) :
    /\ Walk(from)[n] = t
    /\ \A m \in 1 .. n - 1 : Walk(from)[m] # t

\* next and prev are inverse of each other on the linked tasks.
LinksInverse ==
  \A t \in Linked : /\ next[t] \in Linked
                    /\ prev[t] \in Linked
                    /\ prev[next[t]] = t
                    /\ next[prev[t]] = t

\* All linked tasks lie on the single cycle through task_kernel: following
\* next from it leaves none of them out.
OneCycle ==
  \A S \in SUBSET Linked :
    task_kernel \in S /\ (\A t \in S : next[t] \in S) => S = Linked
=============================================================================
