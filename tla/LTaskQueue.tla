------------------------------ MODULE LTaskQueue ------------------------------
(***************************************************************************)
(* The linked list of LTask as a sequence: the chain of tasks from the     *)
(* head to the right, what IsRunning says of it, and the mapping under     *)
(* which the list implements the sequence of module TaskSchedule.          *)
(***************************************************************************)
EXTENDS LTask, FiniteSets

\* There is room for so many tasks only.
ASSUME TasksFinite == IsFiniteSet(Task)

\* q are the tasks from the head on, each the right neighbour of the one before.
IsChain(q) ==
  /\ IF q = <<>> THEN TaskQueue = NULL
     ELSE q[1] = TaskQueue /\ Right[q[Len(q)]] = NULL
  /\ \A k \in 2 .. Len(q) : q[k] = Right[q[k - 1]]

\* The sequences that have room for every task once.
Chains == UNION {[1 .. n -> Task] : n \in 0 .. Cardinality(Task)}

Chain == CHOOSE q \in Chains : IsChain(q)

(***************************************************************************)
(* IsRunning, which AddTask trusts, looks at three pointers only; they say *)
(* exactly whether the task can be reached from the head.  The chain has   *)
(* no cycle and ends.                                                      *)
(***************************************************************************)
IsRunningMeansQueued ==
  fault \/ \E q \in Chains :
             /\ IsChain(q)
             /\ \A t \in Task : IsRunning(t) <=> \E k \in DOMAIN q : q[k] = t

\* The task the innermost call of DoEvents is inside of.
Running == IF frames # <<>> /\ Top.pc = "run" THEN Top.selected ELSE NULL

Schedule == INSTANCE TaskSchedule WITH
  NoTask <- NULL,
  Window <- TaskQueueSelectLength,
  waiting <- Chain,
  priority <- Priority,
  running <- Running

\* AddTask and DoEvents implement the priority window of TaskSchedule.
ImplementsSchedule == Schedule!Spec
===============================================================================
