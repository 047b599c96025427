----------------------------- MODULE TaskSchedule -----------------------------
(***************************************************************************)
(* What the task queue of LavoroL promises to a caller, with no pointers:  *)
(* tasks wait in a sequence, the newest first; a call of DoEvents takes,   *)
(* among the Window newest, one whose priority number is smallest (the     *)
(* newest of those), lets it run once, and then drops it.  A task that is  *)
(* already waiting is not added again.  Module LTask implements this.      *)
(***************************************************************************)
EXTENDS Naturals, Sequences, SequencesExt

CONSTANTS
  Task,        \* the task objects there can be
  NoTask,      \* not a task
  Priorities,  \* the priority numbers in use
  Window       \* how many of the newest tasks are compared

VARIABLES
  waiting,     \* the tasks that wait, the newest first
  priority,    \* the priority number of each task
  running      \* the task that runs, or NoTask

vars == <<waiting, priority, running>>

Waits(t) == t \in ToSet(waiting)

Init ==
  /\ waiting = <<>>
  /\ priority \in [Task -> Priorities]
  /\ running = NoTask

\* A new task object gets its priority while nobody waits for it.
Create(t, p) ==
  /\ ~Waits(t)
  /\ t # running
  /\ priority' = [priority EXCEPT ![t] = p]
  /\ UNCHANGED <<waiting, running>>

Add(t) ==
  /\ ~Waits(t)
  /\ waiting' = <<t>> \o waiting
  /\ UNCHANGED <<priority, running>>

\* waiting[k] is the first of the window with the smallest priority number.
Favoured(k) ==
  /\ k \in (1 .. Window) \cap DOMAIN waiting
  /\ \A j \in (1 .. Window) \cap DOMAIN waiting :
        \/ priority[waiting[k]] < priority[waiting[j]]
        \/ /\ priority[waiting[k]] = priority[waiting[j]]
           /\ k <= j

Start ==
  /\ running = NoTask
  /\ \E k \in DOMAIN waiting : Favoured(k) /\ running' = waiting[k]
  /\ UNCHANGED <<waiting, priority>>

Finish ==
  /\ running # NoTask
  /\ \E k \in DOMAIN waiting : waiting[k] = running /\ waiting' = RemoveAt(waiting, k)
  /\ running' = NoTask
  /\ UNCHANGED priority

Next ==
  \/ \E t \in Task : Add(t) \/ (\E p \in Priorities : Create(t, p))
  \/ Start
  \/ Finish

Spec == Init /\ [][Next]_vars
===============================================================================
