-------------------------------- MODULE LTask ---------------------------------
(***************************************************************************)
(* The cooperative task queue of LavoroL (src/src/ltask.hpp, ltask.cpp): a *)
(* doubly linked list of LTask objects, AddTask, which pushes a task that  *)
(* is not queued yet, and DoEvents, which every polling loop of LSocket    *)
(* calls: it scans the first TaskQueueSelectLength tasks, runs the best,   *)
(* unlinks it and deletes it.                                              *)
(*                                                                         *)
(* Task objects are addresses: an address that was deleted can be handed   *)
(* out again.  The callers of AddTask and the bodies of Run are external   *)
(* (the repository has the base class only); a body may create and add     *)
(* tasks and wait on a socket, which calls DoEvents again: MaxDepth bounds *)
(* the nesting, and 1 stands for task bodies that never wait on a socket.  *)
(*                                                                         *)
(* An operator whose name ends in _Bug is a wrong version of the one that  *)
(* follows it; no run uses it unless it is put in the place of that one,   *)
(* to see that a property notices.                                         *)
(***************************************************************************)
EXTENDS Naturals, Sequences

CONSTANTS
  Task,                   \* addresses an LTask can be placed at
  NULL,                   \* the null pointer
  Priorities,             \* the values of the UINT16 Priority in use
  TaskQueueSelectLength,  \* how many tasks DoEvents compares (4 in the code)
  MaxDepth                \* bound on the nesting of DoEvents calls

ASSUME TaskAssumption ==
  /\ NULL \notin Task
  /\ Priorities \subseteq Nat
  /\ TaskQueueSelectLength \in Nat \ {0}
  /\ MaxDepth \in Nat \ {0}

VARIABLES
  TaskQueue,  \* the head of the list
  Left,       \* Left[t]: the neighbour nearer to the head
  Right,      \* Right[t]: the neighbour farther from the head
  Priority,   \* Priority[t], set by the constructor
  live,       \* the addresses that hold a constructed, undeleted task
  frames,     \* the active calls of DoEvents, the innermost first
  runs,       \* history: how often Run was entered since t was constructed
  fault,      \* history: a deleted task has been used
  stolen      \* history: a call removed a task that an outer call still uses

vars == <<TaskQueue, Left, Right, Priority, live, frames, runs, fault, stolen>>

Pointer == Task \cup {NULL}

\* An activation of DoEvents: its locals i, taskQueue (the cursor) and
\* selectedTask, and whether it still scans or is inside selectedTask->Run().
Frame == [pc : {"scan", "run"}, i : 0 .. TaskQueueSelectLength,
          cursor : Pointer, selected : Pointer]

Init ==
  /\ TaskQueue = NULL
  /\ Left = [t \in Task |-> NULL]
  /\ Right = [t \in Task |-> NULL]
  /\ Priority \in [Task -> Priorities]
  /\ live = {}
  /\ frames = <<>>
  /\ runs = [t \in Task |-> 0]
  /\ fault = FALSE
  /\ stolen = FALSE

-------------------------------------------------------------------------------
(* The operations of a client: they happen in the program outside DoEvents, *)
(* or inside the Run of the innermost call.                                 *)

Top == Head(frames)

ClientActs == ~fault /\ (frames # <<>> => Top.pc = "run")

IsRunning_Bug(t) == Left[t] # NULL \/ Right[t] # NULL

IsRunning(t) == Left[t] # NULL \/ Right[t] # NULL \/ TaskQueue = t

\* new LTask(p), at a free address.
Construct(t, p) ==
  /\ ClientActs
  /\ t \notin live
  /\ live' = live \cup {t}
  /\ Left' = [Left EXCEPT ![t] = NULL]
  /\ Right' = [Right EXCEPT ![t] = NULL]
  /\ Priority' = [Priority EXCEPT ![t] = p]
  /\ runs' = [runs EXCEPT ![t] = 0]
  /\ UNCHANGED <<TaskQueue, frames, fault, stolen>>

\* Forgets Prior->Left = this.
Enqueue_Bug(t) ==
  /\ TaskQueue' = t
  /\ Right' = [Right EXCEPT ![t] = TaskQueue]
  /\ Left' = Left

Enqueue(t) ==
  /\ TaskQueue' = t
  /\ Right' = [Right EXCEPT ![t] = TaskQueue]
  /\ Left' = [u \in Task |-> IF u = TaskQueue THEN t ELSE Left[u]]

\* Does not ask whether the task is queued already.
AddTask_Bug(t) ==
  /\ ClientActs
  /\ t \in live
  /\ Enqueue(t)
  /\ UNCHANGED <<Priority, live, frames, runs, fault, stolen>>

AddTask(t) ==
  /\ ClientActs
  /\ t \in live
  /\ ~IsRunning(t)
  /\ Enqueue(t)
  /\ UNCHANGED <<Priority, live, frames, runs, fault, stolen>>

-------------------------------------------------------------------------------
(* DoEvents.                                                                *)

MayCall == frames # <<>> => Len(frames) < MaxDepth /\ Top.pc = "run"

Call ==
  /\ ~fault
  /\ MayCall
  /\ frames' = <<[pc |-> "scan", i |-> 0, cursor |-> TaskQueue, selected |-> NULL]>>
               \o frames
  /\ UNCHANGED <<TaskQueue, Left, Right, Priority, live, runs, fault, stolen>>

Scanning == ~fault /\ frames # <<>> /\ Top.pc = "scan"

\* A step that dereferences t touches memory that was freed.
UsesDeleted(t) == t \notin live

\* Prefers the oldest of equals.
Better_Bug(t) == Top.selected = NULL \/ Priority[Top.selected] >= Priority[t]

Better(t) == Top.selected = NULL \/ Priority[Top.selected] > Priority[t]

\* One task too many.
InWindow_Bug == Top.i <= TaskQueueSelectLength /\ Top.cursor # NULL

InWindow == Top.i < TaskQueueSelectLength /\ Top.cursor # NULL

\* One iteration of the selection loop.
Scan ==
  /\ Scanning
  /\ InWindow
  /\ frames' = [frames EXCEPT ![1] =
                  [pc |-> "scan",
                   i |-> Top.i + 1,
                   cursor |-> Right[Top.cursor],
                   selected |-> IF Better(Top.cursor) THEN Top.cursor ELSE Top.selected]]
  /\ fault' = UsesDeleted(Top.cursor)
  /\ UNCHANGED <<TaskQueue, Left, Right, Priority, live, runs, stolen>>

\* selectedTask->Run() is entered ...
EnterRun ==
  /\ Scanning
  /\ ~InWindow
  /\ Top.selected # NULL
  /\ frames' = [frames EXCEPT ![1] = [Top EXCEPT !.pc = "run"]]
  /\ runs' = [runs EXCEPT ![Top.selected] = @ + 1]
  /\ fault' = UsesDeleted(Top.selected)
  /\ UNCHANGED <<TaskQueue, Left, Right, Priority, live, stolen>>

\* ... or there was nothing to select.
Nothing ==
  /\ Scanning
  /\ ~InWindow
  /\ Top.selected = NULL
  /\ frames' = Tail(frames)
  /\ UNCHANGED <<TaskQueue, Left, Right, Priority, live, runs, fault, stolen>>

\* Forgets that the head of the list may be the one that goes.
Dequeue_Bug(t) ==
  /\ Right' = [u \in Task |-> IF u = t THEN NULL
                              ELSE IF u = Left[t] THEN Right[t] ELSE Right[u]]
  /\ Left' = [u \in Task |-> IF u = t THEN NULL
                             ELSE IF u = Right[t] THEN Left[t] ELSE Left[u]]
  /\ UNCHANGED TaskQueue

Dequeue(t) ==
  LET L == Left[t]
      R == Right[t]
  IN  /\ Right' = [u \in Task |-> IF u = t THEN NULL
                                  ELSE IF u = L THEN R ELSE Right[u]]
      /\ Left' = [u \in Task |-> IF u = t THEN NULL
                                 ELSE IF u = R THEN L ELSE Left[u]]
      /\ TaskQueue' = IF t = TaskQueue THEN R ELSE TaskQueue

\* An outer call still refers to t.
HeldOutside(t) ==
  \E k \in 2 .. Len(frames) : t = frames[k].selected

\* Leaves the task that ran in the list.
FinishRun_Bug ==
  /\ ~fault
  /\ frames # <<>>
  /\ Top.pc = "run"
  /\ frames' = Tail(frames)
  /\ UNCHANGED <<TaskQueue, Left, Right, Priority, live, runs, fault, stolen>>

\* Run returns: the task is unlinked and deleted.
FinishRun ==
  /\ ~fault
  /\ frames # <<>>
  /\ Top.pc = "run"
  /\ Dequeue(Top.selected)
  /\ live' = live \ {Top.selected}
  /\ frames' = Tail(frames)
  /\ fault' = UsesDeleted(Top.selected)
  /\ stolen' = (stolen \/ HeldOutside(Top.selected))
  /\ UNCHANGED <<Priority, runs>>

DoEvents == Call \/ Scan \/ EnterRun \/ Nothing \/ FinishRun

Next ==
  \/ \E t \in Task : AddTask(t) \/ (\E p \in Priorities : Construct(t, p))
  \/ DoEvents

Spec == Init /\ [][Next]_vars

(***************************************************************************)
(* The polling loops call DoEvents in every iteration and a task body that *)
(* returns lets DoEvents finish; nothing is assumed of the clients.        *)
(***************************************************************************)
FairSpec == Spec /\ WF_vars(DoEvents)

-------------------------------------------------------------------------------
(* Properties.                                                              *)

TypeOK ==
  /\ TaskQueue \in Pointer
  /\ Left \in [Task -> Pointer]
  /\ Right \in [Task -> Pointer]
  /\ Priority \in [Task -> Priorities]
  /\ live \subseteq Task
  /\ frames \in Seq(Frame)
  /\ runs \in [Task -> Nat]
  /\ fault \in BOOLEAN
  /\ stolen \in BOOLEAN

(***************************************************************************)
(* Enqueue and Dequeue keep the list doubly linked: the two pointers of    *)
(* neighbours agree, only live tasks are linked, and the only task with no *)
(* left neighbour that has a right one is the head.                        *)
(***************************************************************************)
RightAgrees == \A t \in Task : Right[t] # NULL => Left[Right[t]] = t

LeftAgrees == \A t \in Task : Left[t] # NULL => Right[Left[t]] = t

HeadIsFirst ==
  /\ TaskQueue # NULL => TaskQueue \in live /\ Left[TaskQueue] = NULL
  /\ \A t \in Task : Left[t] = NULL /\ Right[t] # NULL => TaskQueue = t

OnlyLiveLinked == \A t \in Task \ live : Left[t] = NULL /\ Right[t] = NULL

Linked == RightAgrees /\ LeftAgrees /\ HeadIsFirst /\ OnlyLiveLinked

(***************************************************************************)
(* A body that never waits on a socket is run once and deleted afterwards: *)
(* no step of DoEvents touches a deleted task, and only the selected task  *)
(* of a call that is inside Run has been run.                              *)
(***************************************************************************)
RunsOnce ==
  /\ ~fault
  /\ \A t \in Task : t \in live /\ runs[t] # 0 =>
        /\ runs[t] = 1
        /\ \E k \in DOMAIN frames : frames[k].pc = "run" /\ frames[k].selected = t

(***************************************************************************)
(* With bodies that wait on a socket the list stays linked until a deleted *)
(* task is used, and that (or a second Run of a task) takes an inner call  *)
(* that ran the task of an outer one, which DoEvents leaves in the list.   *)
(***************************************************************************)
LinkedUntilFault == fault \/ Linked

RunBy(t) == {k \in DOMAIN frames : frames[k].pc = "run" /\ frames[k].selected = t}

FaultOnlyByReentry ==
  \/ stolen
  \/ /\ ~fault
     /\ \A t \in live : runs[t] > 1 =>
           \E j, k \in RunBy(t) : j # k

(***************************************************************************)
(* Once the clients stop adding tasks, the polling loops empty the queue:  *)
(* every queued task is selected at last, however low its priority.        *)
(***************************************************************************)
Drains == <>[][\A t \in Task : ~AddTask(t)]_vars => <>[](TaskQueue = NULL)
===============================================================================
