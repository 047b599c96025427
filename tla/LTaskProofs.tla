----------------------------- MODULE LTaskProofs ------------------------------
(***************************************************************************)
(* Proofs about LTask and LTaskQueue.  For any set of tasks and priorities *)
(* and any nesting depth: the list stays linked until a deleted task is    *)
(* used, and that takes an inner call that ran the task of an outer one.   *)
(* For any finite set of tasks: the linked list is the sequence of the     *)
(* tasks for which IsRunning holds, at any nesting depth, and as long as   *)
(* no Run waits on a socket AddTask and DoEvents implement TaskSchedule.   *)
(***************************************************************************)
EXTENDS LTaskQueue, SequenceTheorems, FiniteSetTheorems, WellFoundedInduction, TLAPS

USE DEF Pointer

\* A call pushes its frame in front of the others.
LEMMA PushFrame ==
  ASSUME NEW f \in Frame, NEW s \in Seq(Frame)
  PROVE  /\ <<f>> \o s \in Seq(Frame)
         /\ Len(<<f>> \o s) = Len(s) + 1
         /\ DOMAIN (<<f>> \o s) = 1 .. Len(s) + 1
         /\ (<<f>> \o s)[1] = f
         /\ \A k \in 2 .. Len(s) + 1 : (<<f>> \o s)[k] = s[k - 1]
<1>1. <<f>> \in Seq(Frame) /\ Len(<<f>>) = 1 /\ <<f>>[1] = f
  OBVIOUS
<1> QED  BY <1>1, ConcatProperties, LenProperties

\* A call that returns uncovers the frame below its own.
LEMMA PopFrame ==
  ASSUME NEW s \in Seq(Frame), s # <<>>
  PROVE  /\ Tail(s) \in Seq(Frame)
         /\ Len(Tail(s)) = Len(s) - 1
         /\ DOMAIN Tail(s) = 1 .. Len(s) - 1
         /\ \A k \in 1 .. Len(s) - 1 : Tail(s)[k] = s[k + 1]
BY HeadTailProperties, LenProperties

\* The innermost call is the first frame, and changing it keeps the others.
LEMMA TopFrame ==
  ASSUME NEW s \in Seq(Frame), s # <<>>, NEW f \in Frame
  PROVE  /\ Head(s) = s[1] /\ Head(s) \in Frame
         /\ Len(s) \in Nat /\ Len(s) >= 1 /\ DOMAIN s = 1 .. Len(s)
         /\ [s EXCEPT ![1] = f] \in Seq(Frame)
         /\ Len([s EXCEPT ![1] = f]) = Len(s)
         /\ DOMAIN [s EXCEPT ![1] = f] = 1 .. Len(s)
         /\ [s EXCEPT ![1] = f][1] = f
         /\ \A k \in 2 .. Len(s) : [s EXCEPT ![1] = f][k] = s[k]
BY ExceptSeq, LenProperties, HeadTailProperties

-------------------------------------------------------------------------------
\* A call that runs has selected a task; a call that scans may have none yet.
RunningSelected ==
  \A k \in DOMAIN frames : frames[k].pc = "run" => frames[k].selected \in Task

Typed == TypeOK /\ RunningSelected

LEMMA InitTyped == ASSUME Init PROVE Typed
<1>1. frames \in Seq(Frame) /\ DOMAIN frames = {}
  BY EmptySeq, LenProperties DEF Init
<1>2. RunningSelected
  BY <1>1 DEF RunningSelected
<1>3. TypeOK
  BY <1>1, TaskAssumption DEF Init, TypeOK
<1> QED  BY <1>2, <1>3 DEF Typed

LEMMA TopSelected ==
  ASSUME Typed, frames # <<>>, Top.pc = "run"
  PROVE  Top.selected \in Task
<1>1. Head(frames) = frames[1] /\ 1 \in DOMAIN frames
  BY HeadTailProperties, LenProperties, EmptySeq DEF Typed, TypeOK
<1> QED  BY <1>1 DEF Typed, RunningSelected, Top

LEMMA NextTyped == ASSUME Typed, [Next]_vars PROVE Typed'
<1> USE TaskAssumption
<1>1. ASSUME NEW t \in Task, AddTask(t) PROVE Typed'
  BY <1>1 DEF Typed, TypeOK, RunningSelected, AddTask, Enqueue
<1>2. ASSUME NEW t \in Task, NEW p \in Priorities, Construct(t, p) PROVE Typed'
  BY <1>2 DEF Typed, TypeOK, RunningSelected, Construct
<1>3. CASE Call
  <2> DEFINE f == [pc |-> "scan", i |-> 0, cursor |-> TaskQueue, selected |-> NULL]
  <2>1. f \in Frame
    BY DEF Typed, TypeOK, Frame
  <2>2. frames' = <<f>> \o frames
    BY <1>3 DEF Call
  <2>3. frames' \in Seq(Frame) /\ DOMAIN frames' = 1 .. Len(frames) + 1 /\ frames'[1] = f
        /\ \A k \in 2 .. Len(frames) + 1 : frames'[k] = frames[k - 1]
    BY <2>1, <2>2, PushFrame DEF Typed, TypeOK
  <2>4. RunningSelected'
    <3> SUFFICES ASSUME NEW k \in 1 .. Len(frames) + 1, frames'[k].pc = "run"
                 PROVE  frames'[k].selected \in Task
      BY <2>3 DEF RunningSelected
    <3>1. k # 1
      BY <2>3
    <3>2. k - 1 \in DOMAIN frames /\ frames'[k] = frames[k - 1]
      BY <2>3, <3>1, LenProperties DEF Typed, TypeOK
    <3> QED  BY <3>2 DEF Typed, RunningSelected
  <2> QED  BY <1>3, <2>3, <2>4 DEF Typed, TypeOK, Call
<1>4. CASE Scan
  <2> DEFINE f == [pc |-> "scan", i |-> Top.i + 1, cursor |-> Right[Top.cursor],
                   selected |-> IF Better(Top.cursor) THEN Top.cursor ELSE Top.selected]
  <2>1. frames \in Seq(Frame) /\ frames # <<>> /\ Top \in Frame
    BY <1>4, TopFrame DEF Scan, Scanning, Typed, TypeOK, Top
  <2>2. f \in Frame
    BY <1>4, <2>1 DEF Scan, InWindow, Typed, TypeOK, Frame
  <2>3. frames' = [frames EXCEPT ![1] = f]
    BY <1>4 DEF Scan
  <2>4. frames' \in Seq(Frame) /\ DOMAIN frames' = 1 .. Len(frames) /\ frames'[1] = f
        /\ DOMAIN frames = 1 .. Len(frames)
        /\ \A k \in 2 .. Len(frames) : frames'[k] = frames[k]
    BY <2>1, <2>2, <2>3, TopFrame
  <2>5. ASSUME NEW k \in DOMAIN frames', frames'[k].pc = "run"
        PROVE  frames'[k].selected \in Task
    <3>1. k # 1 /\ k \in 2 .. Len(frames)
      BY <2>1, <2>4, <2>5, LenProperties
    <3> QED  BY <2>4, <2>5, <3>1 DEF Typed, RunningSelected
  <2>6. fault' \in BOOLEAN
    BY <1>4 DEF Scan, UsesDeleted
  <2> QED  BY <1>4, <2>4, <2>5, <2>6 DEF Typed, TypeOK, RunningSelected, Scan
<1>5. CASE EnterRun
  <2> DEFINE f == [Top EXCEPT !.pc = "run"]
  <2>1. frames \in Seq(Frame) /\ frames # <<>> /\ Top \in Frame
    BY <1>5, TopFrame DEF EnterRun, Scanning, Typed, TypeOK, Top
  <2>2. f \in Frame /\ f.selected \in Task /\ f.selected = Top.selected
    BY <1>5, <2>1 DEF EnterRun, Frame
  <2>3. frames' = [frames EXCEPT ![1] = f]
    BY <1>5 DEF EnterRun
  <2>4. frames' \in Seq(Frame) /\ DOMAIN frames' = 1 .. Len(frames) /\ frames'[1] = f
        /\ DOMAIN frames = 1 .. Len(frames)
        /\ \A k \in 2 .. Len(frames) : frames'[k] = frames[k]
    BY <2>1, <2>2, <2>3, TopFrame
  <2>5. ASSUME NEW k \in DOMAIN frames', frames'[k].pc = "run"
        PROVE  frames'[k].selected \in Task
    <3>1. CASE k = 1
      BY <2>2, <2>4, <3>1
    <3>2. CASE k # 1
      <4>1. k \in 2 .. Len(frames)
        BY <2>1, <2>4, <2>5, <3>2, LenProperties
      <4> QED  BY <2>4, <2>5, <4>1 DEF Typed, RunningSelected
    <3> QED  BY <3>1, <3>2
  <2>6. fault' \in BOOLEAN /\ runs' \in [Task -> Nat]
    BY <1>5, <2>2 DEF EnterRun, UsesDeleted, Typed, TypeOK
  <2> QED  BY <1>5, <2>4, <2>5, <2>6 DEF Typed, TypeOK, RunningSelected, EnterRun
<1>6. ASSUME frames # <<>>, frames' = Tail(frames)
      PROVE  frames' \in Seq(Frame) /\ RunningSelected'
  <2>1. frames \in Seq(Frame)
    BY DEF Typed, TypeOK
  <2>2. frames' \in Seq(Frame) /\ DOMAIN frames' = 1 .. Len(frames) - 1
        /\ \A k \in 1 .. Len(frames) - 1 : frames'[k] = frames[k + 1]
    BY <1>6, <2>1, PopFrame
  <2>3. \A k \in DOMAIN frames' : k + 1 \in DOMAIN frames
    BY <2>1, <2>2, LenProperties
  <2> QED  BY <2>2, <2>3 DEF Typed, RunningSelected
<1>7. CASE Nothing
  BY <1>6, <1>7 DEF Typed, TypeOK, Nothing, Scanning
<1>8. CASE FinishRun
  <2>1. Top.selected \in Task
    BY <1>8, TopSelected DEF FinishRun
  <2>2. /\ Left' \in [Task -> Pointer]
        /\ Right' \in [Task -> Pointer]
        /\ TaskQueue' \in Pointer
    BY <1>8, <2>1 DEF FinishRun, Dequeue, Typed, TypeOK
  <2>3. fault' \in BOOLEAN /\ stolen' \in BOOLEAN
    BY <1>8 DEF FinishRun, UsesDeleted, HeldOutside, Typed, TypeOK
  <2> QED  BY <1>6, <1>8, <2>2, <2>3 DEF Typed, TypeOK, FinishRun
<1>9. CASE UNCHANGED vars
  BY <1>9 DEF vars, Typed, TypeOK, RunningSelected
<1> QED  BY <1>1, <1>2, <1>3, <1>4, <1>5, <1>7, <1>8, <1>9 DEF Next, DoEvents

(***************************************************************************)
(* Every state of every behaviour is well typed: no loop of DoEvents runs  *)
(* past the window, and a call inside Run has a task to run.               *)
(***************************************************************************)
THEOREM TypeCorrect == Spec => []TypeOK
<1>1. Init => Typed
  BY InitTyped
<1>2. Typed /\ [Next]_vars => Typed'
  BY NextTyped
<1>3. Typed => TypeOK
  BY DEF Typed
<1> QED  BY <1>1, <1>2, <1>3, PTL DEF Spec

-------------------------------------------------------------------------------
LEMMA EnqueueLinked ==
  ASSUME TypeOK, Linked, NEW t \in live, ~IsRunning(t), Enqueue(t), live' = live
  PROVE  Linked'
<1> USE TaskAssumption DEF TypeOK
<1>1. TaskQueue' = t /\ t \in Task /\ t # TaskQueue /\ Left[t] = NULL /\ Right[t] = NULL
  BY DEF Enqueue, IsRunning
<1>2. /\ \A u \in Task : Right'[u] = IF u = t THEN TaskQueue ELSE Right[u]
      /\ \A u \in Task : Left'[u] = IF u = TaskQueue THEN t ELSE Left[u]
  BY DEF Enqueue
<1>3. RightAgrees'
  BY <1>1, <1>2 DEF Linked, RightAgrees, LeftAgrees, HeadIsFirst
<1>4. LeftAgrees'
  BY <1>1, <1>2 DEF Linked, RightAgrees, LeftAgrees, HeadIsFirst
<1>5. HeadIsFirst'
  BY <1>1, <1>2 DEF Linked, RightAgrees, LeftAgrees, HeadIsFirst
<1>6. OnlyLiveLinked'
  BY <1>1, <1>2 DEF Linked, OnlyLiveLinked, HeadIsFirst
<1> QED  BY <1>3, <1>4, <1>5, <1>6 DEF Linked

LEMMA DequeueLinked ==
  ASSUME TypeOK, Linked, NEW t \in live, Dequeue(t), live' = live \ {t}
  PROVE  Linked'
<1> USE TaskAssumption DEF TypeOK
<1> DEFINE L == Left[t]
           R == Right[t]
<1>1. /\ t \in Task /\ L \in Pointer /\ R \in Pointer
      /\ TaskQueue' = IF t = TaskQueue THEN R ELSE TaskQueue
      /\ \A u \in Task : Right'[u] = IF u = t THEN NULL ELSE IF u = L THEN R ELSE Right[u]
      /\ \A u \in Task : Left'[u] = IF u = t THEN NULL ELSE IF u = R THEN L ELSE Left[u]
  BY DEF Dequeue
<1>2. /\ L # NULL => L \in live /\ Right[L] = t
      /\ R # NULL => R \in live /\ Left[R] = t
      /\ L = NULL /\ R # NULL => TaskQueue = t
      /\ TaskQueue = t => L = NULL
  BY <1>1 DEF Linked, RightAgrees, LeftAgrees, HeadIsFirst, OnlyLiveLinked
<1>3. ASSUME NEW u \in Task, Right'[u] # NULL PROVE Left'[Right'[u]] = u
  <2>1. u # t
    BY <1>1, <1>3
  <2>2. CASE u = L
    BY <1>1, <1>2, <1>3, <2>1, <2>2 DEF Linked, LeftAgrees, RightAgrees
  <2>3. CASE u # L
    <3>1. Right'[u] = Right[u] /\ Right[u] \in Task /\ Left[Right[u]] = u
      BY <1>1, <1>3, <2>1, <2>3 DEF Linked, RightAgrees
    <3>2. Right[u] # t /\ Right[u] # R
      BY <1>2, <1>3, <2>1, <2>3, <3>1
    <3> QED  BY <1>1, <3>1, <3>2
  <2> QED  BY <2>2, <2>3
<1>4. ASSUME NEW u \in Task, Left'[u] # NULL PROVE Right'[Left'[u]] = u
  <2>1. u # t
    BY <1>1, <1>4
  <2>2. CASE u = R
    BY <1>1, <1>2, <1>4, <2>1, <2>2 DEF Linked, LeftAgrees, RightAgrees
  <2>3. CASE u # R
    <3>1. Left'[u] = Left[u] /\ Left[u] \in Task /\ Right[Left[u]] = u
      BY <1>1, <1>4, <2>1, <2>3 DEF Linked, LeftAgrees
    <3>2. Left[u] # t /\ Left[u] # L
      BY <1>2, <1>4, <2>1, <2>3, <3>1
    <3> QED  BY <1>1, <3>1, <3>2
  <2> QED  BY <2>2, <2>3
<1>5. HeadIsFirst'
  <2>1. TaskQueue' # NULL => TaskQueue' \in live' /\ Left'[TaskQueue'] = NULL
    BY <1>1, <1>2 DEF Linked, LeftAgrees, HeadIsFirst
  <2>2. ASSUME NEW u \in Task, Left'[u] = NULL, Right'[u] # NULL PROVE TaskQueue' = u
    BY <1>1, <1>2, <2>2 DEF Linked, RightAgrees, LeftAgrees, HeadIsFirst
  <2> QED  BY <2>1, <2>2 DEF HeadIsFirst
<1>6. OnlyLiveLinked'
  BY <1>1, <1>2 DEF Linked, OnlyLiveLinked
<1> QED  BY <1>3, <1>4, <1>5, <1>6 DEF Linked, RightAgrees, LeftAgrees

LEMMA ConstructLinked ==
  ASSUME TypeOK, Linked, NEW t \in Task, NEW p \in Priorities, Construct(t, p)
  PROVE  Linked'
<1>1. Left' = Left /\ Right' = Right
  BY DEF Construct, TypeOK, Linked, OnlyLiveLinked
<1> QED
  BY <1>1 DEF Construct, Linked, RightAgrees, LeftAgrees, HeadIsFirst, OnlyLiveLinked

(***************************************************************************)
(* The list built by AddTask and taken apart by DoEvents stays doubly      *)
(* linked for as long as no deleted task has been used, however deeply     *)
(* task bodies nest calls of DoEvents.                                     *)
(***************************************************************************)
THEOREM StaysLinked == Spec => []LinkedUntilFault
<1>1. Init => LinkedUntilFault
  BY DEF Init, LinkedUntilFault, Linked, RightAgrees, LeftAgrees, HeadIsFirst, OnlyLiveLinked
<1>2. ASSUME Typed, LinkedUntilFault, [Next]_vars PROVE LinkedUntilFault'
  <2>1. ASSUME NEW t \in Task, AddTask(t) PROVE LinkedUntilFault'
    BY <1>2, <2>1, EnqueueLinked DEF LinkedUntilFault, AddTask, ClientActs, Typed
  <2>2. ASSUME NEW t \in Task, NEW p \in Priorities, Construct(t, p)
        PROVE  LinkedUntilFault'
    BY <1>2, <2>2, ConstructLinked DEF LinkedUntilFault, Construct, ClientActs, Typed
  <2>3. CASE FinishRun
    BY <1>2, <2>3, DequeueLinked DEF LinkedUntilFault, FinishRun, UsesDeleted, Typed
  <2>4. ASSUME ~fault, UNCHANGED <<TaskQueue, Left, Right, live>> PROVE LinkedUntilFault'
    BY <1>2, <2>4
    DEF LinkedUntilFault, Linked, RightAgrees, LeftAgrees, HeadIsFirst, OnlyLiveLinked
  <2>5. CASE Call \/ Scan \/ EnterRun \/ Nothing
    BY <2>4, <2>5 DEF Call, Scan, EnterRun, Nothing, Scanning
  <2>6. CASE UNCHANGED vars
    BY <1>2, <2>6 DEF vars, LinkedUntilFault, Linked, RightAgrees, LeftAgrees,
                      HeadIsFirst, OnlyLiveLinked
  <2> QED  BY <1>2, <2>1, <2>2, <2>3, <2>5, <2>6 DEF Next, DoEvents
<1>3. Spec => []Typed
  BY InitTyped, NextTyped, PTL DEF Spec
<1> QED  BY <1>1, <1>2, <1>3, PTL DEF Spec

-------------------------------------------------------------------------------
(***************************************************************************)
(* Why a deleted task can only be used after a re-entrant call: as long as *)
(* no call removed the task of an outer one, every task a call refers to   *)
(* is live, only the innermost call scans, and each run of a live task is  *)
(* the run of a call that is still active.                                 *)
(***************************************************************************)
SelectedLive ==
  \A k \in DOMAIN frames : frames[k].selected # NULL => frames[k].selected \in live

ScanAtTop ==
  \A k \in DOMAIN frames : frames[k].pc = "scan" =>
    k = 1 /\ (frames[k].cursor # NULL => frames[k].cursor \in live)

RunsActive ==
  \A t \in live : /\ runs[t] > 0 => \E j \in RunBy(t) : TRUE
                  /\ runs[t] > 1 => \E j, k \in RunBy(t) : j # k

Reentry == stolen \/ (~fault /\ SelectedLive /\ ScanAtTop /\ RunsActive)

\* The step of a call that pops its frame: what is left shifts by one place.
LEMMA PopReentry ==
  ASSUME Typed, SelectedLive, ScanAtTop, RunsActive, frames # <<>>,
         frames' = Tail(frames), NEW S \in SUBSET Task, live' = live \ S, runs' = runs,
         \A k \in DOMAIN frames : k # 1 => frames[k].selected \notin S,
         \A t \in live' : 1 \notin RunBy(t)
  PROVE  SelectedLive' /\ ScanAtTop' /\ RunsActive'
<1>1. frames \in Seq(Frame) /\ Len(frames) \in Nat /\ DOMAIN frames = 1 .. Len(frames)
  BY LenProperties DEF Typed, TypeOK
<1>2. DOMAIN frames' = 1 .. Len(frames) - 1
      /\ \A k \in 1 .. Len(frames) - 1 : frames'[k] = frames[k + 1]
  BY <1>1, PopFrame
<1>3. \A k \in DOMAIN frames' : k + 1 \in DOMAIN frames /\ k + 1 # 1 /\ frames'[k] = frames[k + 1]
  BY <1>1, <1>2
<1>4. SelectedLive'
  BY <1>3 DEF SelectedLive
<1>5. ScanAtTop'
  BY <1>3 DEF ScanAtTop
<1>6. ASSUME NEW t \in live', NEW j \in RunBy(t)
      PROVE  j \in Nat /\ j - 1 \in RunBy(t)'
  <2>1. j \in 2 .. Len(frames)
    BY <1>1, <1>6 DEF RunBy
  <2>2. j - 1 \in DOMAIN frames' /\ frames'[j - 1] = frames[j]
    BY <1>1, <1>2, <2>1
  <2> QED  BY <1>6, <2>1, <2>2 DEF RunBy
<1>7. ASSUME NEW t \in live'
      PROVE  /\ runs'[t] > 0 => \E j \in RunBy(t)' : TRUE
             /\ runs'[t] > 1 => \E j, k \in RunBy(t)' : j # k
  <2>1. CASE \E j, k \in RunBy(t) : j # k
    <3>1. PICK j \in RunBy(t), k \in RunBy(t) : j # k
      BY <2>1
    <3>2. j - 1 \in RunBy(t)' /\ k - 1 \in RunBy(t)' /\ j - 1 # k - 1
      BY <1>6, <3>1
    <3> QED  BY <3>2
  <2>2. CASE ~(\E j, k \in RunBy(t) : j # k)
    BY <1>6, <2>2 DEF RunsActive
  <2> QED  BY <2>1, <2>2
<1> QED  BY <1>4, <1>5, <1>7 DEF RunsActive

LEMMA NextReentry ==
  ASSUME Typed, LinkedUntilFault, Reentry, [Next]_vars
  PROVE  Reentry'
<1> USE TaskAssumption
<1>a. /\ frames \in Seq(Frame) /\ Len(frames) \in Nat /\ DOMAIN frames = 1 .. Len(frames)
      /\ frames # <<>> => 1 \in DOMAIN frames /\ Top = frames[1] /\ Top \in Frame
  BY LenProperties, TopFrame DEF Typed, TypeOK, Top
<1>1. ASSUME NEW t \in Task, AddTask(t) PROVE Reentry'
  BY <1>1 DEF AddTask, Reentry, SelectedLive, ScanAtTop, RunsActive, RunBy
<1>2. ASSUME NEW t \in Task, NEW p \in Priorities, Construct(t, p) PROVE Reentry'
  <2>1. CASE stolen
    BY <1>2, <2>1 DEF Construct, Reentry
  <2>2. CASE ~stolen
    <3>1. SelectedLive' /\ ScanAtTop' /\ ~fault'
      BY <1>2, <2>2 DEF Construct, Reentry, SelectedLive, ScanAtTop
    <3>2. \A u \in live' : runs'[u] = 0 \/ (u \in live /\ runs'[u] = runs[u])
      BY <1>2 DEF Construct, Typed, TypeOK
    <3>3. \A u \in Task : RunBy(u)' = RunBy(u)
      BY <1>2 DEF Construct, RunBy
    <3>4. live' \subseteq Task
      BY <1>2 DEF Construct, Typed, TypeOK
    <3>5. RunsActive'
      BY <2>2, <3>2, <3>3, <3>4 DEF Reentry, RunsActive
    <3> QED  BY <3>1, <3>5 DEF Reentry
  <2> QED  BY <2>1, <2>2
<1>3. CASE Call
  <2> DEFINE f == [pc |-> "scan", i |-> 0, cursor |-> TaskQueue, selected |-> NULL]
  <2>1. f \in Frame
    BY DEF Typed, TypeOK, Frame
  <2>2. /\ DOMAIN frames' = 1 .. Len(frames) + 1 /\ frames'[1] = f
        /\ \A k \in 2 .. Len(frames) + 1 : frames'[k] = frames[k - 1]
        /\ live' = live /\ runs' = runs /\ fault' = fault /\ stolen' = stolen /\ ~fault
    BY <1>3, <1>a, <2>1, PushFrame DEF Call
  <2>3. TaskQueue # NULL => TaskQueue \in live
    BY <2>2 DEF LinkedUntilFault, Linked, HeadIsFirst
  <2>4. CASE stolen
    BY <2>2, <2>4 DEF Reentry
  <2>5. CASE ~stolen
    <3>1. \A k \in DOMAIN frames' : k = 1 \/ (k - 1 \in DOMAIN frames /\ frames'[k] = frames[k - 1])
      BY <1>a, <2>2
    <3>2. \A k \in DOMAIN frames : k + 1 \in DOMAIN frames' /\ frames'[k + 1] = frames[k]
      BY <1>a, <2>2
    <3>3. SelectedLive'
      BY <2>2, <2>5, <3>1 DEF Reentry, SelectedLive
    <3>4. \A k \in DOMAIN frames : frames[k].pc # "scan"
      BY <1>3, <1>a, <2>5 DEF Call, MayCall, Reentry, ScanAtTop
    <3>5. ScanAtTop'
      BY <2>2, <2>3, <3>1, <3>4 DEF ScanAtTop
    <3>6. \A t \in live : \A j \in RunBy(t) : j \in Nat /\ j + 1 \in RunBy(t)'
      BY <1>a, <3>2 DEF RunBy
    <3>7. \A j, k \in Nat : j # k => j + 1 # k + 1
      OBVIOUS
    <3>8. \A t \in live : (\E j, k \in RunBy(t) : j # k) => (\E j, k \in RunBy(t)' : j # k)
      BY <3>6, <3>7
    <3>9. \A t \in live : (\E j \in RunBy(t) : TRUE) => (\E j \in RunBy(t)' : TRUE)
      BY <3>6
    <3>10. RunsActive'
      BY <2>2, <2>5, <3>8, <3>9 DEF Reentry, RunsActive
    <3> QED  BY <2>2, <2>5, <3>3, <3>5, <3>10 DEF Reentry
  <2> QED  BY <2>4, <2>5
<1>4. CASE Scan
  <2> DEFINE f == [pc |-> "scan", i |-> Top.i + 1, cursor |-> Right[Top.cursor],
                   selected |-> IF Better(Top.cursor) THEN Top.cursor ELSE Top.selected]
  <2>1. f \in Frame /\ frames # <<>> /\ Top.cursor \in Task
    BY <1>4, <1>a DEF Scan, Scanning, InWindow, Typed, TypeOK, Frame
  <2>2. /\ DOMAIN frames' = DOMAIN frames /\ frames'[1] = f
        /\ \A k \in DOMAIN frames : k # 1 => frames'[k] = frames[k]
        /\ live' = live /\ runs' = runs /\ stolen' = stolen
    <3>1. \A k \in DOMAIN frames : k # 1 => k \in 2 .. Len(frames)
      BY <1>a
    <3> QED  BY <1>4, <1>a, <2>1, <3>1, TopFrame DEF Scan
  <2>3. CASE stolen
    BY <2>2, <2>3 DEF Reentry
  <2>4. CASE ~stolen
    <3>1. Top.cursor \in live /\ Top.pc = "scan" /\ (Top.selected # NULL => Top.selected \in live)
      BY <1>4, <1>a, <2>1, <2>4 DEF Scan, Scanning, Reentry, ScanAtTop, SelectedLive
    <3>2. ~fault'
      BY <1>4, <3>1 DEF Scan, UsesDeleted
    <3>3. Right[Top.cursor] # NULL => Right[Top.cursor] \in live
      BY <1>4, <2>1, <3>1 DEF Scan, Scanning, LinkedUntilFault, Linked, RightAgrees,
                             OnlyLiveLinked, Typed, TypeOK
    <3>4. SelectedLive' /\ ScanAtTop'
      BY <2>2, <2>4, <3>1, <3>3 DEF Reentry, SelectedLive, ScanAtTop
    <3>5. \A t \in live : RunBy(t)' = RunBy(t)
      BY <1>a, <2>1, <2>2, <3>1 DEF RunBy
    <3>6. RunsActive'
      BY <2>2, <2>4, <3>5 DEF Reentry, RunsActive
    <3> QED  BY <3>2, <3>4, <3>6 DEF Reentry
  <2> QED  BY <2>3, <2>4
<1>5. CASE EnterRun
  <2> DEFINE f == [Top EXCEPT !.pc = "run"]
  <2>0. PICK u \in Task : u = Top.selected
    BY <1>5, <1>a DEF EnterRun, Scanning, Frame
  <2>1. f \in Frame /\ frames # <<>> /\ Top.pc = "scan"
    BY <1>5, <1>a DEF EnterRun, Scanning, Frame
  <2>2. /\ DOMAIN frames' = DOMAIN frames /\ frames'[1] = f
        /\ \A k \in DOMAIN frames : k # 1 => frames'[k] = frames[k]
        /\ live' = live /\ stolen' = stolen
        /\ \A t \in Task : runs'[t] = IF t = u THEN runs[t] + 1 ELSE runs[t]
        /\ \A t \in Task : runs[t] \in Nat
    <3>1. \A k \in DOMAIN frames : k # 1 => k \in 2 .. Len(frames)
      BY <1>a
    <3> QED  BY <1>5, <1>a, <2>0, <2>1, <3>1, TopFrame DEF EnterRun, Typed, TypeOK
  <2>3. f.pc = "run" /\ f.selected = u
    BY <1>a, <2>0, <2>1 DEF Frame
  <2>4. CASE stolen
    BY <2>2, <2>4 DEF Reentry
  <2>5. CASE ~stolen
    <3>1. u \in live
      BY <1>a, <2>0, <2>1, <2>5 DEF Reentry, SelectedLive
    <3>2. ~fault'
      BY <1>5, <2>0, <3>1 DEF EnterRun, UsesDeleted
    <3>3. SelectedLive' /\ ScanAtTop'
      BY <2>2, <2>3, <2>5, <3>1 DEF Reentry, SelectedLive, ScanAtTop
    <3>4. \A t \in live : 1 \notin RunBy(t) /\ \A j \in RunBy(t) : j \in RunBy(t)'
      BY <1>a, <2>1, <2>2 DEF RunBy
    <3>5. 1 \in RunBy(u)'
      BY <1>a, <2>1, <2>2, <2>3 DEF RunBy
    <3>6. RunsActive'
      <4> SUFFICES ASSUME NEW t \in live
                   PROVE  /\ runs'[t] > 0 => \E j \in RunBy(t)' : TRUE
                          /\ runs'[t] > 1 => \E j, k \in RunBy(t)' : j # k
        BY <2>2 DEF RunsActive
      <4>1. t \in Task
        BY DEF Typed, TypeOK
      <4>2. CASE t = u
        <5>1. runs'[t] > 1 => runs[t] > 0
          BY <2>2, <4>1, <4>2
        <5>2. runs[t] > 0 => \E j \in RunBy(t)' : j # 1
          BY <2>5, <3>4 DEF Reentry, RunsActive
        <5> QED  BY <3>5, <4>2, <5>1, <5>2
      <4>3. CASE t # u
        BY <2>2, <2>5, <3>4, <4>1, <4>3 DEF Reentry, RunsActive
      <4> QED  BY <4>2, <4>3
    <3> QED  BY <3>2, <3>3, <3>6 DEF Reentry
  <2> QED  BY <2>4, <2>5
<1>6. CASE Nothing
  <2>1. /\ frames # <<>> /\ Top.pc = "scan" /\ frames' = Tail(frames)
        /\ live' = live \ {} /\ runs' = runs /\ fault' = fault /\ stolen' = stolen /\ ~fault
    BY <1>6 DEF Nothing, Scanning
  <2>2. \A t \in live' : 1 \notin RunBy(t)
    BY <1>a, <2>1 DEF RunBy
  <2>3. CASE stolen
    BY <2>1, <2>3 DEF Reentry
  <2>4. CASE ~stolen
    <3>1. /\ {} \in SUBSET Task
          /\ \A k \in DOMAIN frames : k # 1 => frames[k].selected \notin {}
      OBVIOUS
    <3>2. SelectedLive /\ ScanAtTop /\ RunsActive
      BY <2>4 DEF Reentry
    <3>3. SelectedLive' /\ ScanAtTop' /\ RunsActive'
      BY <2>1, <2>2, <3>1, <3>2, PopReentry
    <3> QED  BY <2>1, <3>3 DEF Reentry
  <2> QED  BY <2>3, <2>4
<1>7. CASE FinishRun
  <2>1. /\ frames # <<>> /\ Top.pc = "run" /\ frames' = Tail(frames)
        /\ live' = live \ {Top.selected} /\ runs' = runs
        /\ fault' = (Top.selected \notin live)
        /\ stolen' = (stolen \/ HeldOutside(Top.selected))
    BY <1>7 DEF FinishRun, UsesDeleted
  <2>2. Top.selected \in Task
    BY <2>1, TopSelected
  <2>3. CASE stolen'
    BY <2>3 DEF Reentry
  <2>4. CASE ~stolen'
    <3>1. ~stolen /\ ~HeldOutside(Top.selected)
      BY <2>1, <2>4
    <3>2. \A k \in DOMAIN frames : k # 1 => frames[k].selected \notin {Top.selected}
      <4>1. \A k \in DOMAIN frames : k # 1 => k \in 2 .. Len(frames)
        BY <1>a
      <4> QED  BY <3>1, <4>1 DEF HeldOutside
    <3>3. \A t \in live' : 1 \notin RunBy(t)
      BY <1>a, <2>1 DEF RunBy
    <3>4. Top.selected \in live
      BY <1>a, <2>1, <2>2, <3>1 DEF Reentry, SelectedLive
    <3>5. SelectedLive' /\ ScanAtTop' /\ RunsActive'
      BY <2>1, <2>2, <3>1, <3>2, <3>3, PopReentry DEF Reentry
    <3> QED  BY <2>1, <3>4, <3>5 DEF Reentry
  <2> QED  BY <2>3, <2>4
<1>8. CASE UNCHANGED vars
  BY <1>8 DEF vars, Reentry, SelectedLive, ScanAtTop, RunsActive, RunBy
<1> QED  BY <1>1, <1>2, <1>3, <1>4, <1>5, <1>6, <1>7, <1>8 DEF Next, DoEvents

(***************************************************************************)
(* A deleted task is used, or a task runs a second time before its first   *)
(* run ended, only after a Run has called DoEvents and that call took the  *)
(* task of an outer call, which is still in the list.                      *)
(***************************************************************************)
THEOREM ReentryOnly == Spec => []FaultOnlyByReentry
<1>1. Init => Reentry
  BY EmptySeq, LenProperties DEF Init, Reentry, SelectedLive, ScanAtTop, RunsActive, RunBy
<1>2. Typed /\ LinkedUntilFault /\ Reentry /\ [Next]_vars => Reentry'
  BY NextReentry
<1>3. Spec => []Typed
  BY InitTyped, NextTyped, PTL DEF Spec
<1>4. Reentry => FaultOnlyByReentry
  BY DEF Reentry, FaultOnlyByReentry, RunsActive
<1> QED  BY <1>1, <1>2, <1>3, <1>4, StaysLinked, PTL DEF Spec

(***************************************************************************)
(* When no Run waits on a socket, there is at most one call of DoEvents.   *)
(***************************************************************************)
Flat == ~stolen /\ Len(frames) <= 1

LEMMA FlatCalls == ASSUME MaxDepth = 1 PROVE Spec => []Flat
<1>1. Init => Flat
  BY EmptySeq DEF Init, Flat
<1>2. ASSUME Typed, Flat, [Next]_vars PROVE Flat'
  <2> USE DEF Flat
  <2>0. frames \in Seq(Frame) /\ Len(frames) \in Nat /\ DOMAIN frames = 1 .. Len(frames)
    BY <1>2, LenProperties DEF Typed, TypeOK
  <2>1. ASSUME NEW t \in Task, AddTask(t) \/ \E p \in Priorities : Construct(t, p) PROVE Flat'
    <3>1. frames' = frames /\ stolen' = stolen
      BY <2>1 DEF AddTask, Construct
    <3> QED  BY <1>2, <3>1
  <2>2. CASE Call
    <3>1. frames = <<>>
      BY <1>2, <2>0, <2>2 DEF Call, MayCall
    <3>2. [pc |-> "scan", i |-> 0, cursor |-> TaskQueue, selected |-> NULL] \in Frame
      BY <1>2, TaskAssumption DEF Typed, TypeOK, Frame
    <3>3. Len(frames') = Len(frames) + 1 /\ stolen' = stolen
      BY <2>0, <2>2, <3>2, PushFrame DEF Call
    <3>4. Len(frames) = 0
      BY <3>1, EmptySeq
    <3> QED  BY <1>2, <3>3, <3>4
  <2>3. CASE Scan \/ EnterRun
    <3>1. frames # <<>> /\ 1 \in DOMAIN frames
      BY <2>0, <2>3, TopFrame DEF Scan, EnterRun, Scanning
    <3>2. PICK f : frames' = [frames EXCEPT ![1] = f]
      BY <2>3 DEF Scan, EnterRun
    <3>3. Len(frames') = Len(frames)
      BY NextTyped, <1>2, <2>0, <3>1, <3>2, LenProperties DEF Typed, TypeOK
    <3> QED  BY <1>2, <2>3, <3>3 DEF Scan, EnterRun
  <2>4. CASE Nothing
    BY <1>2, <2>0, <2>4, PopFrame DEF Nothing, Scanning
  <2>5. CASE FinishRun
    <3>1. ~HeldOutside(Top.selected)
      BY <1>2, <2>0 DEF HeldOutside
    <3>2. Len(frames') = Len(frames) - 1 /\ ~stolen'
      BY <1>2, <2>0, <2>5, <3>1, PopFrame DEF FinishRun
    <3> QED  BY <1>2, <2>0, <3>2
  <2>6. CASE UNCHANGED vars
    BY <1>2, <2>6 DEF vars
  <2> HIDE DEF Flat
  <2> QED  BY <1>2, <2>1, <2>2, <2>3, <2>4, <2>5, <2>6 DEF Next, DoEvents
<1>3. Spec => []Typed
  BY InitTyped, NextTyped, PTL DEF Spec
<1> QED  BY <1>1, <1>2, <1>3, PTL DEF Spec

(***************************************************************************)
(* When no Run waits on a socket, DoEvents never uses a deleted task, and  *)
(* runs every task at most once.                                           *)
(***************************************************************************)
THEOREM FlatRunsOnce == ASSUME MaxDepth = 1 PROVE Spec => []RunsOnce
<1>1. ASSUME Typed, Reentry, Flat PROVE RunsOnce
  <2>1. Len(frames) \in Nat /\ DOMAIN frames = 1 .. Len(frames)
    BY <1>1, LenProperties DEF Typed, TypeOK
  <2>2. \A j, k \in DOMAIN frames : j = k
    BY <1>1, <2>1 DEF Flat
  <2>3. ASSUME NEW t \in Task, t \in live, runs[t] # 0
        PROVE  runs[t] = 1 /\ \E k \in DOMAIN frames :
                                frames[k].pc = "run" /\ frames[k].selected = t
    <3>1. runs[t] \in Nat
      BY <1>1 DEF Typed, TypeOK
    <3> QED  BY <1>1, <2>2, <2>3, <3>1 DEF Flat, Reentry, RunsActive, RunBy
  <2> QED  BY <1>1, <2>3 DEF Flat, Reentry, RunsOnce
<1>2. Spec => []Typed
  BY InitTyped, NextTyped, PTL DEF Spec
<1>3. Init => Reentry
  BY EmptySeq, LenProperties DEF Init, Reentry, SelectedLive, ScanAtTop, RunsActive, RunBy
<1>4. Typed /\ LinkedUntilFault /\ Reentry /\ [Next]_vars => Reentry'
  BY NextReentry
<1> QED  BY <1>1, <1>2, <1>3, <1>4, FlatCalls, StaysLinked, PTL DEF Spec

HIDE DEF Pointer

-------------------------------------------------------------------------------
(* The list as a sequence.                                                 *)

\* q lists the queued tasks from the head on, each once.
Distinct(q) == \A j, k \in 1 .. Len(q) : q[j] = q[k] => j = k

Holds(q, t) == \E k \in 1 .. Len(q) : q[k] = t

IsQueue(q) ==
  /\ q \in Seq(Task)
  /\ IsChain(q)
  /\ Distinct(q)
  /\ \A t \in Task : IsRunning(t) <=> Holds(q, t)

-------------------------------------------------------------------------------
(* Sequences of tasks.                                                      *)

LEMMA Members ==
  ASSUME NEW q \in Seq(Task)
  PROVE  /\ Len(q) \in Nat /\ DOMAIN q = 1 .. Len(q)
         /\ \A k \in 1 .. Len(q) : q[k] \in Task
         /\ q = <<>> <=> Len(q) = 0
BY LenProperties, EmptySeq, ElementOfSeq

\* AddTask puts a task in front of the others.
LEMMA PutFirst ==
  ASSUME NEW t \in Task, NEW q \in Seq(Task)
  PROVE  /\ <<t>> \o q \in Seq(Task)
         /\ Len(<<t>> \o q) = Len(q) + 1
         /\ (<<t>> \o q)[1] = t
         /\ \A k \in 2 .. Len(q) + 1 : (<<t>> \o q)[k] = q[k - 1]
<1>1. <<t>> \in Seq(Task) /\ Len(<<t>>) = 1 /\ <<t>>[1] = t
  OBVIOUS
<1> QED
  BY <1>1, ConcatProperties, LenProperties

\* DoEvents takes a task out of the middle.
Without(q, i) == SubSeq(q, 1, i - 1) \o SubSeq(q, i + 1, Len(q))

LEMMA TakeOut ==
  ASSUME NEW q \in Seq(Task), NEW i \in 1 .. Len(q)
  PROVE  /\ Without(q, i) \in Seq(Task)
         /\ Len(Without(q, i)) = Len(q) - 1
         /\ \A k \in 1 .. Len(q) - 1 :
              Without(q, i)[k] = IF k < i THEN q[k] ELSE q[k + 1]
<1> DEFINE a == SubSeq(q, 1, i - 1)
           b == SubSeq(q, i + 1, Len(q))
<1>1. Len(q) \in Nat /\ \A k \in 1 .. Len(q) : q[k] \in Task
  BY Members
<1>2. a \in Seq(Task) /\ Len(a) = i - 1 /\ \A k \in 1 .. i - 1 : a[k] = q[k]
  <2>1. \A k \in 1 .. i - 1 : q[k] \in Task
    BY <1>1
  <2> QED
    BY <1>1, <2>1, SubSeqProperties
<1>3. b \in Seq(Task) /\ Len(b) = Len(q) - i /\ \A k \in 1 .. Len(q) - i : b[k] = q[k + i]
  <2>1. \A k \in i + 1 .. Len(q) : q[k] \in Task
    BY <1>1
  <2> QED
    BY <1>1, <2>1, SubSeqProperties
<1> HIDE DEF a, b
<1>4. /\ a \o b \in Seq(Task)
      /\ Len(a \o b) = Len(a) + Len(b)
      /\ \A k \in 1 .. Len(a) + Len(b) : (a \o b)[k] = IF k <= Len(a) THEN a[k] ELSE b[k - Len(a)]
  BY <1>2, <1>3, ConcatProperties
<1>5. Without(q, i) = a \o b
  BY DEF Without, a, b
<1>6. ASSUME NEW k \in 1 .. Len(q) - 1
      PROVE  (a \o b)[k] = IF k < i THEN q[k] ELSE q[k + 1]
  <2>1. CASE k < i
    BY <1>1, <1>2, <1>3, <1>4, <2>1
  <2>2. CASE k >= i
    <3>1. k - Len(a) \in 1 .. Len(q) - i /\ (k - Len(a)) + i = k + 1
      BY <1>1, <1>2, <2>2
    <3>2. (a \o b)[k] = b[k - Len(a)]
      BY <1>1, <1>2, <1>3, <1>4, <2>2, SMTT(30)
    <3>3. b[k - Len(a)] = q[k + 1]
      BY <1>3, <3>1
    <3> QED
      BY <1>1, <2>2, <3>2, <3>3
  <2>3. k < i \/ k >= i
    BY <1>1
  <2> QED
    BY <2>1, <2>2, <2>3
<1> QED
  BY <1>1, <1>2, <1>3, <1>4, <1>5, <1>6, SMTT(30)

\* A list that holds no task twice is no longer than there are tasks.
LEMMA Fits ==
  ASSUME NEW q \in Seq(Task), Distinct(q)
  PROVE  q \in Chains
<1>1. Len(q) \in Nat /\ DOMAIN q = 1 .. Len(q) /\ q \in [1 .. Len(q) -> Task]
  BY LenProperties
<1>2. q \in Injection(1 .. Len(q), Task)
  BY <1>1 DEF Distinct, Injection, IsInjective
<1>3. Cardinality(1 .. Len(q)) <= Cardinality(Task)
  BY <1>2, TasksFinite, FS_Injection
<1>4. Cardinality(1 .. Len(q)) = Len(q)
  BY <1>1, FS_Interval, SMTT(30)
<1>5. Cardinality(Task) \in Nat
  BY TasksFinite, FS_CardinalityType
<1> QED
  BY <1>1, <1>3, <1>4, <1>5 DEF Chains

-------------------------------------------------------------------------------
(* There is one chain only.                                                 *)

LEMMA Least ==
  ASSUME NEW T \in SUBSET Nat, T # {}
  PROVE  \E x \in T : \A y \in T : x <= y
<1> DEFINE R == OpToRel(<, Nat)
<1>1. IsWellFoundedOn(R, Nat)
  BY NatLessThanWellFounded
<1>2. \A x, y \in T : <<y, x>> \in R <=> y < x
  BY DEF OpToRel
<1> HIDE DEF R
<1>3. PICK x \in T : \A y \in T : ~(<<y, x>> \in R)
  BY <1>1, WFMin
<1>4. \A y \in T : ~(y < x)
  BY <1>2, <1>3, Zenon
<1> QED
  BY <1>4

\* Two chains of a state go along together, ...
LEMMA Along ==
  ASSUME TypeOK, NEW q \in Seq(Task), NEW s \in Seq(Task), IsChain(q), IsChain(s)
  PROVE  \A k \in 1 .. Len(q) : k <= Len(s) /\ s[k] = q[k]
<1>1. /\ Len(q) \in Nat /\ \A k \in 1 .. Len(q) : q[k] \in Task
      /\ Len(s) \in Nat /\ \A k \in 1 .. Len(s) : s[k] \in Task
      /\ (q = <<>> <=> Len(q) = 0) /\ (s = <<>> <=> Len(s) = 0)
  BY Members
<1> DEFINE T == {k \in 1 .. Len(q) : ~(k <= Len(s) /\ s[k] = q[k])}
<1> SUFFICES ASSUME T # {} PROVE FALSE
  OBVIOUS
<1>2. PICK k \in T : \A j \in T : k <= j
  <2>1. T \in SUBSET Nat
    BY <1>1
  <2> HIDE DEF T
  <2> QED
    BY <2>1, Least
<1>3. CASE k = 1
  <2>1. q # <<>> /\ q[1] = TaskQueue /\ q[1] \in Task
    BY <1>1, <1>3 DEF IsChain
  <2>2. s # <<>> /\ s[1] = TaskQueue
    BY <2>1, TaskAssumption DEF IsChain
  <2> QED
    BY <1>1, <1>2, <1>3, <2>1, <2>2
<1>4. CASE k > 1
  <2>1. k - 1 \in 1 .. Len(q) /\ k - 1 \notin T
    BY <1>1, <1>2, <1>4
  <2>2. k - 1 <= Len(s) /\ s[k - 1] = q[k - 1] /\ s # <<>>
    BY <1>1, <1>4, <2>1
  <2>3. q[k] = Right[q[k - 1]] /\ q[k] # NULL
    BY <1>1, <1>2, <1>4, TaskAssumption DEF IsChain
  <2>4. k - 1 # Len(s)
    BY <2>2, <2>3 DEF IsChain
  <2>5. k \in 2 .. Len(s)
    BY <1>1, <1>4, <2>1, <2>2, <2>4
  <2>6. s[k] = Right[s[k - 1]]
    BY <2>5 DEF IsChain
  <2> QED
    BY <1>1, <1>2, <2>2, <2>3, <2>5, <2>6
<1> QED
  BY <1>1, <1>2, <1>3, <1>4

\* ... so the chain the mapping chooses is the queue.
LEMMA ChainIsQueue == ASSUME NEW q PROVE TypeOK /\ IsQueue(q) => Chain = q
<1> SUFFICES ASSUME TypeOK, IsQueue(q) PROVE Chain = q
  OBVIOUS
<1>1. q \in Chains /\ IsChain(q) /\ q \in Seq(Task)
  BY Fits DEF IsQueue
<1>2. Chain \in Chains /\ IsChain(Chain)
  BY <1>1 DEF Chain
<1>3. Chain \in Seq(Task)
  <2>1. PICK n \in 0 .. Cardinality(Task) : Chain \in [1 .. n -> Task]
    BY <1>2 DEF Chains
  <2>2. n \in Nat
    OBVIOUS
  <2> HIDE DEF Chain
  <2> QED
    BY <2>1, <2>2
<1> HIDE DEF Chain
<1>4. PICK s : s = Chain
  OBVIOUS
<1>5. s \in Seq(Task) /\ IsChain(s)
  BY <1>2, <1>3, <1>4
<1>6. /\ \A k \in 1 .. Len(q) : k <= Len(s) /\ s[k] = q[k]
      /\ \A k \in 1 .. Len(s) : k <= Len(q) /\ q[k] = s[k]
  BY <1>1, <1>5, Along
<1>7. Len(q) \in Nat /\ Len(s) \in Nat
  BY <1>1, <1>5, LenProperties
<1>8. Len(q) = Len(s)
  <2>1. Len(q) > 0 => Len(q) \in 1 .. Len(q)
    BY <1>7
  <2>2. Len(s) > 0 => Len(s) \in 1 .. Len(s)
    BY <1>7
  <2> QED
    BY <1>6, <1>7, <2>1, <2>2
<1> QED
  BY <1>1, <1>4, <1>5, <1>6, <1>8, SeqEqual

LEMMA NextChainIsQueue == ASSUME NEW q PROVE (TypeOK /\ IsQueue(q))' => (Chain = q)'
BY ChainIsQueue, PTL

-------------------------------------------------------------------------------
(* What a step does to the queue.                                           *)

LEMMA SameQueue ==
  ASSUME NEW q, IsQueue(q), UNCHANGED <<TaskQueue, Left, Right>>
  PROVE  IsQueue(q)'
BY DEF IsQueue, IsChain, IsRunning

LEMMA InitQueue == ASSUME Init PROVE IsQueue(<<>>)
<1>1. <<>> \in Seq(Task) /\ Len(<<>>) = 0
  BY EmptySeq
<1>2. \A t \in Task : ~IsRunning(t)
  BY TaskAssumption DEF Init, IsRunning
<1> QED
  BY <1>1, <1>2 DEF Init, IsQueue, IsChain, Distinct, Holds

\* The neighbours of a task in the list are those in the queue.
LEMMA Neighbours ==
  ASSUME TypeOK, Linked, NEW q, IsQueue(q), NEW i \in 1 .. Len(q)
  PROVE  /\ Left[q[i]] = IF i = 1 THEN NULL ELSE q[i - 1]
         /\ Right[q[i]] = IF i = Len(q) THEN NULL ELSE q[i + 1]
         /\ q[i] = TaskQueue <=> i = 1
<1> USE TaskAssumption
<1>1. /\ Len(q) \in Nat /\ \A k \in 1 .. Len(q) : q[k] \in Task
      /\ q # <<>> /\ q[1] = TaskQueue /\ Right[q[Len(q)]] = NULL
      /\ \A k \in 2 .. Len(q) : q[k] = Right[q[k - 1]]
  BY Members DEF IsQueue, IsChain
<1>2. Right[q[i]] = IF i = Len(q) THEN NULL ELSE q[i + 1]
  <2>1. i # Len(q) => i + 1 \in 2 .. Len(q) /\ (i + 1) - 1 = i
    BY <1>1
  <2> QED
    BY <1>1, <2>1
<1>3. Left[q[i]] = IF i = 1 THEN NULL ELSE q[i - 1]
  <2>1. CASE i = 1
    BY <1>1, <2>1 DEF Linked, HeadIsFirst
  <2>2. CASE i # 1
    <3>1. i \in 2 .. Len(q) /\ i - 1 \in 1 .. Len(q)
      BY <1>1, <2>2
    <3>2. q[i] = Right[q[i - 1]] /\ q[i - 1] \in Task /\ q[i] \in Task
      BY <1>1, <3>1
    <3> QED
      BY <2>2, <3>2 DEF Linked, RightAgrees
  <2> QED
    BY <2>1, <2>2
<1>4. q[i] = TaskQueue <=> i = 1
  <2>1. 1 \in 1 .. Len(q)
    BY <1>1
  <2> QED
    BY <1>1, <2>1 DEF IsQueue, Distinct
<1> QED
  BY <1>2, <1>3, <1>4

LEMMA EnqueueQueue ==
  ASSUME TypeOK, Linked, NEW q, IsQueue(q), NEW t \in Task, ~IsRunning(t), Enqueue(t)
  PROVE  IsQueue(<<t>> \o q)'
<1> USE TaskAssumption
<1> DEFINE s == <<t>> \o q
<1>1. q \in Seq(Task) /\ IsChain(q) /\ Distinct(q) /\ Len(q) \in Nat
      /\ (q = <<>> <=> Len(q) = 0) /\ \A k \in 1 .. Len(q) : q[k] \in Task
  BY Members DEF IsQueue
<1>2. s \in Seq(Task) /\ Len(s) = Len(q) + 1 /\ s[1] = t
      /\ \A k \in 2 .. Len(q) + 1 : s[k] = q[k - 1]
  BY <1>1, PutFirst
<1>3. \A k \in 2 .. Len(q) + 1 : k - 1 \in 1 .. Len(q)
  BY <1>1
<1>4. ~Holds(q, t)
  BY DEF IsQueue
<1>5. \A u \in Task : Holds(s, u) <=> u = t \/ Holds(q, u)
  <2>1. 1 \in 1 .. Len(s)
    BY <1>1, <1>2
  <2>2. \A k \in 1 .. Len(q) : k + 1 \in 2 .. Len(q) + 1 /\ (k + 1) - 1 = k /\ k + 1 \in 1 .. Len(s)
    BY <1>1, <1>2
  <2>3. \A k \in 1 .. Len(s) : k = 1 \/ k \in 2 .. Len(q) + 1
    BY <1>1, <1>2
  <2> HIDE DEF s
  <2> QED
    BY <1>2, <1>3, <2>1, <2>2, <2>3, ZenonT(40) DEF Holds
<1>6. Distinct(s)
  <2>1. \A k \in 1 .. Len(s) : k = 1 \/ k \in 2 .. Len(q) + 1
    BY <1>1, <1>2
  <2>2. \A k \in 2 .. Len(q) + 1 : s[k] # t
    BY <1>2, <1>3, <1>4 DEF Holds
  <2>3. \A j, k \in 2 .. Len(q) + 1 : s[j] = s[k] => j = k
    <3>1. \A j, k \in 2 .. Len(q) + 1 : s[j] = s[k] => j - 1 = k - 1
      BY <1>1, <1>2, <1>3, SMTT(30) DEF Distinct
    <3>2. \A j, k \in 2 .. Len(q) + 1 : j - 1 = k - 1 => j = k
      BY <1>1
    <3> QED
      BY <3>1, <3>2
  <2> HIDE DEF s
  <2> QED
    BY <1>2, <2>1, <2>2, <2>3 DEF Distinct
<1>7. /\ TaskQueue' = t /\ t # TaskQueue /\ Right[t] = NULL /\ Left[t] = NULL
      /\ Right'[t] = TaskQueue
      /\ \A u \in Task : u # t => Right'[u] = Right[u]
      /\ \A u \in Task : Left'[u] = IF u = TaskQueue THEN t ELSE Left[u]
  BY DEF Enqueue, IsRunning, TypeOK
<1>8. \A k \in 1 .. Len(q) : Right'[q[k]] = Right[q[k]]
  BY <1>1, <1>4, <1>7 DEF Holds
<1>9. IsChain(s)'
  <2>1. CASE q = <<>>
    <3>1. TaskQueue = NULL
      BY <1>1, <2>1 DEF IsChain
    <3>2. Len(s) = 1
      BY <1>1, <1>2, <2>1
    <3>3. s # <<>>
      BY <3>2, EmptySeq
    <3> HIDE DEF s
    <3>4. Right'[s[Len(s)]] = NULL /\ s[1] = TaskQueue'
      BY <1>2, <1>7, <3>1, <3>2
    <3>5. \A k \in 2 .. Len(s) : FALSE
      BY <3>2
    <3> QED
      BY <3>3, <3>4, <3>5 DEF IsChain
  <2>2. CASE q # <<>>
    <3>1. q[1] = TaskQueue /\ Right[q[Len(q)]] = NULL /\ Len(q) \in 1 .. Len(q)
      BY <1>1, <2>2 DEF IsChain
    <3>2. s[Len(s)] = q[Len(q)]
      <4>1. Len(s) \in 2 .. Len(q) + 1 /\ Len(s) - 1 = Len(q)
        BY <1>1, <1>2, <3>1
      <4> QED
        BY <1>2, <4>1
    <3>3. Right'[s[Len(s)]] = NULL
      BY <1>8, <3>1, <3>2
    <3>4. ASSUME NEW k \in 2 .. Len(s) PROVE s[k] = Right'[s[k - 1]]
      <4>1. CASE k = 2
        BY <1>1, <1>2, <1>7, <3>1, <4>1
      <4>2. CASE k > 2
        <5>1. k - 1 \in 2 .. Len(q) /\ k - 1 \in 2 .. Len(q) + 1 /\ k \in 2 .. Len(q) + 1
          BY <1>1, <1>2, <4>2
        <5>2. s[k] = q[k - 1] /\ s[k - 1] = q[(k - 1) - 1]
          BY <1>2, <5>1
        <5>3. q[k - 1] = Right[q[(k - 1) - 1]]
          BY <1>1, <5>1 DEF IsChain
        <5> QED
          BY <1>3, <1>8, <5>1, <5>2, <5>3
      <4> QED
        BY <4>1, <4>2
    <3>5. s # <<>>
      BY <1>1, <1>2, EmptySeq
    <3> HIDE DEF s
    <3> QED
      BY <1>2, <1>7, <3>3, <3>4, <3>5 DEF IsChain
  <2> QED
    BY <2>1, <2>2
<1>10. ASSUME NEW u \in Task PROVE IsRunning(u)' <=> u = t \/ IsRunning(u)
  <2>1. TaskQueue # NULL => TaskQueue \in Task /\ IsRunning(TaskQueue)
    BY DEF IsRunning, TypeOK, Pointer
  <2> QED
    BY <1>7, <2>1 DEF IsRunning
<1>11. \A u \in Task : IsRunning(u)' <=> Holds(s, u)
  BY <1>5, <1>10 DEF IsQueue
<1> HIDE DEF s
<1>12. IsQueue(s)'
  BY <1>2, <1>6, <1>9, <1>11 DEF IsQueue, Distinct, Holds
<1> QED
  BY <1>12 DEF s

LEMMA DequeueQueue ==
  ASSUME TypeOK, Linked, NEW q, IsQueue(q), NEW i \in 1 .. Len(q), Dequeue(q[i])
  PROVE  IsQueue(Without(q, i))'
<1> USE TaskAssumption
<1> DEFINE s == Without(q, i)
           t == q[i]
           L == IF i = 1 THEN NULL ELSE q[i - 1]
           R == IF i = Len(q) THEN NULL ELSE q[i + 1]
<1>1. q \in Seq(Task) /\ IsChain(q) /\ Distinct(q) /\ Len(q) \in Nat
      /\ \A k \in 1 .. Len(q) : q[k] \in Task
  BY Members DEF IsQueue
<1>2. s \in Seq(Task) /\ Len(s) = Len(q) - 1
      /\ \A k \in 1 .. Len(q) - 1 : s[k] = IF k < i THEN q[k] ELSE q[k + 1]
  BY <1>1, TakeOut
<1>3. /\ t \in Task /\ Left[t] = L /\ Right[t] = R
      /\ TaskQueue' = IF i = 1 THEN R ELSE TaskQueue
      /\ \A u \in Task : Right'[u] = IF u = t THEN NULL ELSE IF u = L THEN R ELSE Right[u]
      /\ \A u \in Task : Left'[u] = IF u = t THEN NULL ELSE IF u = R THEN L ELSE Left[u]
  <2>1. t \in Task /\ Left[t] = L /\ Right[t] = R /\ (t = TaskQueue <=> i = 1)
    BY <1>1, Neighbours
  <2> HIDE DEF t, L, R
  <2>2. Dequeue(t)
    BY DEF t
  <2> QED
    BY <2>1, <2>2 DEF Dequeue
<1>4. /\ t # L /\ t # R
      /\ L # NULL => L \in Task /\ Right[L] = t
      /\ R # NULL => R \in Task /\ Left[R] = t
  <2>1. ASSUME i # 1 PROVE L # t /\ L \in Task /\ Right[L] = t
    <3>1. i - 1 \in 1 .. Len(q) /\ i - 1 # i /\ i - 1 # Len(q) /\ (i - 1) + 1 = i
      BY <1>1, <2>1
    <3>2. Right[q[i - 1]] = q[i] /\ q[i - 1] \in Task /\ q[i - 1] # q[i]
      BY <1>1, <3>1, Neighbours DEF Distinct
    <3> QED
      BY <2>1, <3>2
  <2>2. ASSUME i # Len(q) PROVE R # t /\ R \in Task /\ Left[R] = t
    <3>1. i + 1 \in 1 .. Len(q) /\ i + 1 # i /\ i + 1 # 1 /\ (i + 1) - 1 = i
      BY <1>1, <2>2
    <3>2. Left[q[i + 1]] = q[i] /\ q[i + 1] \in Task /\ q[i + 1] # q[i]
      BY <1>1, <3>1, Neighbours DEF Distinct
    <3> QED
      BY <2>2, <3>2
  <2>3. (i = 1 => L = NULL) /\ (i = Len(q) => R = NULL)
    OBVIOUS
  <2>4. t # NULL
    BY <1>3
  <2> HIDE DEF t, L, R
  <2> QED
    BY <2>1, <2>2, <2>3, <2>4
<1>5. Distinct(s)
  <2>1. ASSUME NEW j \in 1 .. Len(s), NEW k \in 1 .. Len(s), s[j] = s[k] PROVE j = k
    <3> DEFINE at(n) == IF n < i THEN n ELSE n + 1
    <3>1. at(j) \in 1 .. Len(q) /\ at(k) \in 1 .. Len(q)
      BY <1>1, <1>2
    <3>2. s[j] = q[at(j)] /\ s[k] = q[at(k)]
      BY <1>1, <1>2
    <3>3. at(j) = at(k) => j = k
      BY <1>1, <1>2
    <3> HIDE DEF at, s
    <3> QED
      BY <1>1, <2>1, <3>1, <3>2, <3>3 DEF Distinct
  <2> HIDE DEF s
  <2> QED
    BY <2>1 DEF Distinct
<1>6. \A u \in Task : Holds(s, u) <=> u # t /\ Holds(q, u)
  <2>1. ASSUME NEW k \in 1 .. Len(s) PROVE s[k] # t /\ \E j \in 1 .. Len(q) : q[j] = s[k]
    <3>1. CASE k < i
      <4>1. k \in 1 .. Len(q) /\ s[k] = q[k] /\ k # i
        BY <1>1, <1>2, <3>1
      <4> QED
        BY <1>1, <4>1 DEF Distinct
    <3>2. CASE k >= i
      <4>1. k + 1 \in 1 .. Len(q) /\ s[k] = q[k + 1] /\ k + 1 # i
        BY <1>1, <1>2, <3>2
      <4> QED
        BY <1>1, <4>1 DEF Distinct
    <3> QED
      BY <1>1, <1>2, <3>1, <3>2
  <2>2. ASSUME NEW j \in 1 .. Len(q), j # i PROVE \E k \in 1 .. Len(s) : s[k] = q[j]
    <3>1. CASE j < i
      <4>1. j \in 1 .. Len(s) /\ s[j] = q[j]
        BY <1>1, <1>2, <3>1, SMTT(30)
      <4> QED
        BY <4>1
    <3>2. CASE j > i
      <4>1. j - 1 \in 1 .. Len(s) /\ j - 1 \in 1 .. Len(q) - 1 /\ ~(j - 1 < i) /\ (j - 1) + 1 = j
        BY <1>1, <1>2, <3>2
      <4>2. s[j - 1] = q[j]
        BY <1>2, <4>1
      <4> QED
        BY <4>1, <4>2
    <3> QED
      BY <1>1, <2>2, <3>1, <3>2
  <2> HIDE DEF s
  <2> QED
    BY <2>1, <2>2 DEF Holds
<1>7. ASSUME NEW k \in 1 .. Len(q), k # i
      PROVE  Right'[q[k]] = IF k = i - 1 THEN R ELSE Right[q[k]]
  <2>1. q[k] # t /\ q[k] \in Task
    BY <1>1, <1>7 DEF Distinct
  <2>2. q[k] = L <=> k = i - 1
    <3>1. i # 1 => i - 1 \in 1 .. Len(q)
      BY <1>1
    <3>2. CASE i = 1
      BY <1>1, <2>1, <3>2
    <3>3. CASE i # 1
      BY <1>1, <3>1, <3>3 DEF Distinct
    <3> QED
      BY <3>2, <3>3
  <2> HIDE DEF t, L, R
  <2> QED
    BY <1>3, <2>1, <2>2
<1>8. IsChain(s)'
  <2>1. CASE Len(q) = 1
    <3>1. s = <<>> /\ TaskQueue' = NULL
      <4>1. i = 1 /\ Len(s) = 0
        BY <1>1, <1>2, <2>1
      <4> QED
        BY <1>2, <1>3, <2>1, <4>1, Members
    <3>2. \A k \in 2 .. Len(s) : FALSE
      BY <1>1, <1>2, <2>1
    <3> HIDE DEF s
    <3> QED
      BY <3>1, <3>2 DEF IsChain
  <2>2. CASE Len(q) > 1
    <3>1. s # <<>>
      BY <1>1, <1>2, <2>2, EmptySeq
    <3>2. q[1] = TaskQueue /\ \A k \in 2 .. Len(q) : q[k] = Right[q[k - 1]]
      BY <1>1, <2>2, EmptySeq DEF IsChain
    <3>3. s[1] = TaskQueue'
      <4>1. s[1] = IF i = 1 THEN q[2] ELSE q[1]
        BY <1>1, <1>2, <2>2
      <4>2. i = 1 => R = q[2]
        BY <2>2
      <4> QED
        BY <1>3, <3>2, <4>1, <4>2
    <3>4. Right'[s[Len(s)]] = NULL
      <4>1. CASE i = Len(q)
        <5>1. Len(s) = i - 1 /\ i - 1 \in 1 .. Len(q) - 1 /\ i - 1 < i /\ i - 1 # i
              /\ i - 1 \in 1 .. Len(q)
          BY <1>1, <1>2, <2>2, <4>1
        <5>2. s[Len(s)] = q[i - 1]
          BY <1>2, <5>1
        <5>3. Right'[q[i - 1]] = R
          BY <1>7, <5>1
        <5> QED
          BY <4>1, <5>2, <5>3
      <4>2. CASE i # Len(q)
        <5>1. Len(s) \in 1 .. Len(q) - 1 /\ ~(Len(s) < i) /\ Len(s) + 1 = Len(q)
              /\ Len(q) \in 1 .. Len(q) /\ Len(q) # i - 1
          BY <1>1, <1>2, <2>2, <4>2
        <5>2. s[Len(s)] = q[Len(q)]
          BY <1>2, <5>1
        <5>3. Right'[q[Len(q)]] = Right[q[Len(q)]] /\ Right[q[Len(q)]] = NULL
          BY <1>1, <1>7, <4>2, <5>1, Neighbours
        <5> QED
          BY <5>2, <5>3
      <4> QED
        BY <4>1, <4>2
    <3>5. ASSUME NEW k \in 2 .. Len(s) PROVE s[k] = Right'[s[k - 1]]
      <4>0. k \in 1 .. Len(q) - 1 /\ k - 1 \in 1 .. Len(q) - 1 /\ k \in 2 .. Len(q)
            /\ k + 1 \in 2 .. Len(q) /\ k - 1 \in 1 .. Len(q)
        BY <1>1, <1>2
      <4>1. CASE k < i
        <5>1. s[k] = q[k] /\ s[k - 1] = q[k - 1]
          BY <1>2, <4>0, <4>1, SMTT(30)
        <5>2. Right'[q[k - 1]] = Right[q[k - 1]]
          BY <1>7, <4>0, <4>1, SMTT(30)
        <5> QED
          BY <3>2, <4>0, <5>1, <5>2
      <4>2. CASE k = i
        <5>1. s[k] = q[i + 1] /\ s[k - 1] = q[i - 1]
          BY <1>2, <4>0, <4>2
        <5>2. Right'[q[i - 1]] = R
          BY <1>7, <4>0, <4>2, SMTT(30)
        <5>3. i # Len(q)
          BY <1>1, <4>0, <4>2
        <5> QED
          BY <5>1, <5>2, <5>3
      <4>3. CASE k > i
        <5>1. s[k] = q[k + 1] /\ s[k - 1] = q[k]
          <6>1. ~(k < i) /\ ~(k - 1 < i) /\ (k - 1) + 1 = k
            BY <1>1, <4>0, <4>3
          <6> QED
            BY <1>2, <4>0, <6>1
        <5>2. Right'[q[k]] = Right[q[k]]
          <6>1. k # i /\ k # i - 1 /\ k \in 1 .. Len(q)
            BY <1>1, <4>0, <4>3
          <6> QED
            BY <1>7, <6>1
        <5>3. q[k + 1] = Right[q[k]]
          <6>1. (k + 1) - 1 = k
            BY <4>0
          <6> QED
            BY <3>2, <4>0, <6>1
        <5> QED
          BY <5>1, <5>2, <5>3
      <4> QED
        BY <1>1, <4>0, <4>1, <4>2, <4>3
    <3> HIDE DEF s
    <3> QED
      BY <3>1, <3>3, <3>4, <3>5 DEF IsChain
  <2> QED
    BY <1>1, <2>1, <2>2
<1>9. ASSUME NEW u \in Task PROVE IsRunning(u)' <=> u # t /\ IsRunning(u)
  <2>1. Left'[u] = IF u = t THEN NULL ELSE IF u = R THEN L ELSE Left[u]
    BY <1>3
  <2>2. Right'[u] = IF u = t THEN NULL ELSE IF u = L THEN R ELSE Right[u]
    BY <1>3
  <2>3. (i = 1 => L = NULL) /\ (i = 1 <=> t = TaskQueue)
    BY <1>1, Neighbours
  <2>4. Left[u] = t => u = R
    BY <1>3 DEF Linked, LeftAgrees
  <2>5. Right[u] = t => u = L
    BY <1>3 DEF Linked, RightAgrees
  <2>6. L = NULL => i = 1
    BY <1>1, <1>3, Members
  <2> HIDE DEF t, L, R
  <2>7. CASE u = t
    BY <1>3, <1>4, <2>1, <2>2, <2>3, <2>7 DEF IsRunning
  <2>8. CASE u # t
    <3>1. CASE u = R
      <4>1. Left[u] # NULL /\ Left'[u] = L
        BY <1>3, <1>4, <2>1, <2>8, <3>1
      <4>2. L = NULL => TaskQueue' = u
        BY <1>3, <2>6, <3>1
      <4> QED
        BY <2>8, <4>1, <4>2 DEF IsRunning
    <3>2. CASE u # R /\ u = L
      <4>1. Right[u] # NULL /\ L # NULL /\ Left'[u] = Left[u]
        BY <1>3, <1>4, <2>1, <2>8, <3>2
      <4>2. Left[u] = NULL => TaskQueue = u
        BY <4>1 DEF Linked, HeadIsFirst
      <4>3. TaskQueue' = TaskQueue
        BY <1>3, <2>3, <4>1
      <4> QED
        BY <2>8, <4>1, <4>2, <4>3 DEF IsRunning
    <3>3. CASE u # R /\ u # L
      BY <1>3, <1>4, <2>1, <2>2, <2>3, <2>8, <3>3 DEF IsRunning
    <3> QED
      BY <3>1, <3>2, <3>3
  <2> QED
    BY <2>7, <2>8
<1>10. \A u \in Task : IsRunning(u)' <=> Holds(s, u)
  BY <1>6, <1>9 DEF IsQueue
<1> HIDE DEF s
<1>11. IsQueue(s)'
  BY <1>2, <1>5, <1>8, <1>10 DEF IsQueue, Distinct, Holds
<1> QED
  BY <1>11 DEF s

\* A new task is not in the list, and a task that is not keeps it as it is.
LEMMA ConstructQueue ==
  ASSUME TypeOK, Linked, NEW q, IsQueue(q),
         NEW t \in Task, NEW p \in Priorities, Construct(t, p)
  PROVE  /\ ~Holds(q, t) /\ UNCHANGED <<TaskQueue, Left, Right>>
         /\ IsQueue(q)'
<1>1. Left[t] = NULL /\ Right[t] = NULL /\ TaskQueue # t
  BY TaskAssumption DEF Construct, Linked, OnlyLiveLinked, HeadIsFirst
<1>2. UNCHANGED <<TaskQueue, Left, Right>>
  BY <1>1 DEF Construct, TypeOK
<1> QED
  BY <1>1, <1>2, SameQueue DEF IsQueue, IsRunning

LEMMA AbsentQueue ==
  ASSUME TypeOK, Linked, NEW q, IsQueue(q), NEW t \in Task, ~Holds(q, t), Dequeue(t)
  PROVE  IsQueue(q)'
<1>1. Left[t] = NULL /\ Right[t] = NULL /\ TaskQueue # t
  BY DEF IsQueue, IsRunning
<1>2. UNCHANGED <<TaskQueue, Left, Right>>
  <2>1. /\ \A u \in Task : Right'[u] = Right[u]
        /\ \A u \in Task : Left'[u] = Left[u]
    BY <1>1, TaskAssumption DEF Dequeue
  <2>2. /\ Right = [u \in Task |-> Right[u]] /\ Right' = [u \in Task |-> Right'[u]]
        /\ Left = [u \in Task |-> Left[u]] /\ Left' = [u \in Task |-> Left'[u]]
    BY DEF Dequeue, TypeOK
  <2> QED
    BY <1>1, <2>1, <2>2 DEF Dequeue
<1> QED
  BY <1>2, SameQueue

-------------------------------------------------------------------------------
Queued == fault \/ \E q : IsQueue(q)

LEMMA NextQueued ==
  ASSUME Typed, LinkedUntilFault, Queued, [Next]_vars
  PROVE  Queued'
<1>1. CASE fault
  <2>1. fault' = fault
    BY <1>1 DEF Next, DoEvents, AddTask, Construct, ClientActs, Call, Scan, EnterRun,
                Nothing, Scanning, FinishRun, vars
  <2> QED
    BY <1>1, <2>1 DEF Queued
<1>2. CASE ~fault
  <2>1. Linked /\ TypeOK
    BY <1>2 DEF LinkedUntilFault, Typed
  <2>2. PICK q : IsQueue(q)
    BY <1>2 DEF Queued
  <2>3. ASSUME NEW t \in Task, AddTask(t) PROVE Queued'
    BY <2>1, <2>2, <2>3, EnqueueQueue DEF AddTask, Queued
  <2>4. ASSUME NEW t \in Task, NEW p \in Priorities, Construct(t, p) PROVE Queued'
    BY <2>1, <2>2, <2>4, ConstructQueue DEF Queued
  <2>5. CASE FinishRun
    <3>1. PICK t \in Task : t = Top.selected /\ Dequeue(t)
      BY <2>5, TopSelected DEF FinishRun
    <3>2. CASE Holds(q, t)
      <4>1. PICK i \in 1 .. Len(q) : q[i] = t
        BY <3>2 DEF Holds
      <4>2. Dequeue(q[i])
        BY <3>1, <4>1
      <4> QED
        BY <2>1, <2>2, <4>2, DequeueQueue DEF Queued
    <3>3. CASE ~Holds(q, t)
      BY <2>1, <2>2, <3>1, <3>3, AbsentQueue DEF Queued
    <3> QED
      BY <3>2, <3>3
  <2>6. ASSUME UNCHANGED <<TaskQueue, Left, Right>> PROVE Queued'
    BY <2>2, <2>6, SameQueue DEF Queued
  <2>7. CASE Call \/ Scan \/ EnterRun \/ Nothing \/ UNCHANGED vars
    BY <2>6, <2>7 DEF Call, Scan, EnterRun, Nothing, vars
  <2> QED
    BY <2>3, <2>4, <2>5, <2>7 DEF Next, DoEvents
<1> QED
  BY <1>1, <1>2

(***************************************************************************)
(* The three pointers IsRunning looks at say, at any depth of nested calls *)
(* and as long as no deleted task has been used, whether a task can be     *)
(* reached from the head, and the chain of tasks from there ends: AddTask  *)
(* never queues a task twice and DoEvents never walks in a circle.         *)
(***************************************************************************)
THEOREM PointersTellQueue == Spec => []IsRunningMeansQueued
<1>1. Init => Queued
  BY InitQueue DEF Queued
<1>2. Typed /\ LinkedUntilFault /\ Queued /\ [Next]_vars => Queued'
  BY NextQueued
<1>3. Spec => []Typed
  BY InitTyped, NextTyped, PTL DEF Spec
<1>4. Queued => IsRunningMeansQueued
  <2>1. ASSUME NEW q, IsQueue(q)
        PROVE  /\ q \in Chains /\ IsChain(q)
               /\ \A t \in Task : IsRunning(t) <=> \E k \in DOMAIN q : q[k] = t
    BY <2>1, Fits, Members DEF IsQueue, Holds
  <2> QED
    BY <2>1 DEF Queued, IsRunningMeansQueued
<1> QED
  BY <1>1, <1>2, <1>3, <1>4, StaysLinked, PTL DEF Spec

-------------------------------------------------------------------------------
(***************************************************************************)
(* What the only call of DoEvents knows of the queue q: it has compared    *)
(* the first i tasks and stands before the next; once it runs a task, that *)
(* task is still queued.                                                   *)
(***************************************************************************)
\* q[k] is, among the first n, the first with the smallest number.
BestOf(q, n, k) ==
  \A j \in 1 .. n :
    \/ Priority[q[k]] < Priority[q[j]]
    \/ Priority[q[k]] = Priority[q[j]] /\ k <= j

Compared(q, f) ==
  /\ f.i <= Len(q)
  /\ f.cursor = IF f.i = Len(q) THEN NULL ELSE q[f.i + 1]
  /\ IF f.i = 0 THEN f.selected = NULL
     ELSE \E k \in 1 .. f.i : f.selected = q[k] /\ BestOf(q, f.i, k)

CallKnows(q) ==
  frames # <<>> => IF Top.pc = "scan" THEN Compared(q, Top) ELSE Holds(q, Top.selected)

\* The invariants at hand in a step with one call at most.
Calm == Typed /\ Linked /\ SelectedLive /\ Flat /\ ~fault

\* The queue, as it is after the step, and what the call knows of it then.
Known(q) == IsQueue(q) /\ CallKnows(q)

LEMMA TheCall ==
  ASSUME Calm, frames # <<>>
  PROVE  /\ frames \in Seq(Frame) /\ Len(frames) = 1 /\ DOMAIN frames = 1 .. 1
         /\ Top = frames[1] /\ Top \in Frame /\ Tail(frames) = <<>>
         /\ Top.pc = "run" => Top.selected \in live /\ Top.selected \in Task
<1>1. frames \in Seq(Frame)
  BY DEF Calm, Typed, TypeOK
<1>2. Len(frames) = 1 /\ DOMAIN frames = 1 .. 1 /\ Top = frames[1] /\ Top \in Frame
  <2>1. Len(frames) \in Nat /\ Len(frames) # 0 /\ DOMAIN frames = 1 .. Len(frames)
    BY <1>1, LenProperties, EmptySeq
  <2>2. Len(frames) = 1
    BY <2>1 DEF Calm, Flat
  <2> QED
    BY <1>1, <2>1, <2>2, HeadTailProperties DEF Top
<1>3. Tail(frames) \in Seq(Frame) /\ Len(Tail(frames)) = 0
  BY <1>1, <1>2, PopFrame
<1>4. Top.pc = "run" => Top.selected \in live /\ Top.selected \in Task
  BY <1>2, TopSelected, TaskAssumption DEF Calm, SelectedLive
<1> QED
  BY <1>1, <1>2, <1>3, <1>4, EmptySeq

LEMMA SetTop ==
  ASSUME Calm, frames # <<>>, NEW f \in Frame, frames' = [frames EXCEPT ![1] = f]
  PROVE  frames' # <<>> /\ Top' = f
<1>1. frames' \in Seq(Frame) /\ Len(frames') = 1 /\ frames'[1] = f
  BY TheCall, TopFrame
<1>2. frames' # <<>>
  BY <1>1, EmptySeq
<1> QED
  BY <1>1, <1>2, HeadTailProperties DEF Top

LEMMA AddKnown ==
  ASSUME Calm, NEW q, Known(q), NEW t \in Task, AddTask(t)
  PROVE  Known(<<t>> \o q)' /\ ~Holds(q, t)
<1>1. IsQueue(<<t>> \o q)' /\ ~Holds(q, t) /\ q \in Seq(Task)
  BY EnqueueQueue DEF Calm, Typed, Known, AddTask, IsQueue
<1>2. ASSUME frames # <<>>
      PROVE  Top.pc = "run" /\ Holds(<<t>> \o q, Top.selected)
  <2>1. Top.pc = "run"
    BY <1>2 DEF AddTask, ClientActs
  <2>2. PICK k \in 1 .. Len(q) : q[k] = Top.selected
    BY <1>2, <2>1 DEF Known, CallKnows, Holds
  <2>3. /\ k + 1 \in 1 .. Len(<<t>> \o q)
        /\ (<<t>> \o q)[k + 1] = q[k]
    <3>1. Len(q) \in Nat
      BY <1>1, Members
    <3>2. k + 1 \in 2 .. Len(q) + 1 /\ (k + 1) - 1 = k
      BY <3>1
    <3> QED
      BY <1>1, <3>1, <3>2, PutFirst
  <2> QED
    BY <2>1, <2>2, <2>3 DEF Holds
<1>3. frames' = frames /\ Top' = Top
  BY DEF AddTask, Top
<1>4. PICK s : s = <<t>> \o q
  OBVIOUS
<1>5. IsQueue(s)' /\ (frames # <<>> => Top.pc = "run" /\ Holds(s, Top.selected))
  BY <1>1, <1>2, <1>4
<1>6. Known(s)'
  BY <1>3, <1>5 DEF Known, CallKnows, Holds
<1> QED
  BY <1>1, <1>4, <1>6

LEMMA ConstructKnown ==
  ASSUME Calm, NEW q, Known(q), NEW t \in Task, NEW p \in Priorities, Construct(t, p)
  PROVE  Known(q)' /\ ~Holds(q, t) /\ UNCHANGED <<TaskQueue, Left, Right>>
<1>1. ~Holds(q, t) /\ UNCHANGED <<TaskQueue, Left, Right>> /\ IsQueue(q)'
  BY ConstructQueue DEF Calm, Typed, Known
<1>2. frames' = frames /\ Top' = Top /\ (frames # <<>> => Top.pc = "run")
  BY DEF Construct, ClientActs, Top
<1>3. CallKnows(q)'
  BY <1>2 DEF Known, CallKnows, Holds
<1> QED
  BY <1>1, <1>3 DEF Known

LEMMA CallKnown ==
  ASSUME Calm, NEW q, Known(q), MaxDepth = 1, Call
  PROVE  Known(q)' /\ frames = <<>> /\ frames' # <<>> /\ Top'.pc = "scan"
<1> USE TaskAssumption
<1> DEFINE f == [pc |-> "scan", i |-> 0, cursor |-> TaskQueue, selected |-> NULL]
<1>1. frames = <<>>
  BY TheCall DEF Call, MayCall
<1>2. f \in Frame
  BY DEF Calm, Typed, TypeOK, Frame, Pointer
<1>3. frames' = <<f>> \o frames /\ UNCHANGED <<TaskQueue, Left, Right, Priority>>
  BY DEF Call
<1>4. Top' = f /\ frames' # <<>>
  <2>1. frames \in Seq(Frame)
    BY DEF Calm, Typed, TypeOK
  <2>2. frames' \in Seq(Frame) /\ Len(frames') = Len(frames) + 1 /\ frames'[1] = f
    BY <1>2, <1>3, <2>1, PushFrame
  <2>3. frames' # <<>>
    BY <1>1, <2>2, EmptySeq, SMTT(30)
  <2> QED
    BY <2>2, <2>3, HeadTailProperties DEF Top
<1>5. Compared(q, f)
  <2>1. q \in Seq(Task) /\ Len(q) \in Nat /\ (q = <<>> <=> Len(q) = 0)
    BY Members DEF Known, IsQueue
  <2>2. TaskQueue = IF Len(q) = 0 THEN NULL ELSE q[1]
    BY <2>1 DEF Known, IsQueue, IsChain
  <2>3. f.i = 0 /\ f.cursor = TaskQueue /\ f.selected = NULL
    OBVIOUS
  <2> HIDE DEF f
  <2> QED
    BY <2>1, <2>2, <2>3 DEF Compared
<1>6. IsQueue(q)'
  BY <1>3, SameQueue DEF Known
<1>7. f.pc = "scan"
  OBVIOUS
<1> HIDE DEF f
<1>8. CallKnows(q)'
  BY <1>3, <1>4, <1>5, <1>7 DEF CallKnows, Compared, BestOf
<1> QED
  BY <1>1, <1>4, <1>6, <1>7, <1>8 DEF Known

LEMMA ScanKnown ==
  ASSUME Calm, NEW q, Known(q), Scan
  PROVE  Known(q)' /\ frames # <<>> /\ Top.pc = "scan" /\ frames' # <<>> /\ Top'.pc = "scan"
<1> USE TaskAssumption
<1> DEFINE f == [pc |-> "scan", i |-> Top.i + 1, cursor |-> Right[Top.cursor],
                 selected |-> IF Better(Top.cursor) THEN Top.cursor ELSE Top.selected]
           n == Top.i
<1>1. /\ frames # <<>> /\ Top.pc = "scan" /\ Top \in Frame
      /\ Top.i < TaskQueueSelectLength /\ Top.cursor # NULL
      /\ UNCHANGED <<TaskQueue, Left, Right, Priority>>
  BY TheCall DEF Scan, Scanning, InWindow
<1>2. q \in Seq(Task) /\ Len(q) \in Nat /\ \A k \in 1 .. Len(q) : q[k] \in Task
  BY Members DEF Known, IsQueue
<1>3. Compared(q, Top) /\ n \in Nat
  BY <1>1 DEF Known, CallKnows, Frame
<1>4. n + 1 \in 1 .. Len(q) /\ Top.cursor = q[n + 1] /\ q[n + 1] \in Task
  <2>1. n <= Len(q) /\ n # Len(q) /\ Top.cursor = q[n + 1]
    BY <1>1, <1>3 DEF Compared
  <2>2. n + 1 \in 1 .. Len(q)
    BY <1>2, <1>3, <2>1
  <2> QED
    BY <1>2, <2>1, <2>2
<1>5. Right[q[n + 1]] = IF n + 1 = Len(q) THEN NULL ELSE q[n + 1 + 1]
  BY <1>4, Neighbours DEF Calm, Typed, Known
<1>6. Priority \in [Task -> Priorities] /\ Priorities \subseteq Nat
  BY DEF Calm, Typed, TypeOK
<1>7. \E k \in 1 .. n + 1 : f.selected = q[k] /\ BestOf(q, n + 1, k)
  <2>1. CASE n = 0
    <3>1. f.selected = q[1]
      BY <1>3, <1>4, <2>1 DEF Better, Compared
    <3>2. BestOf(q, 1, 1)
      <4>1. \A j \in 1 .. 1 : j = 1
        OBVIOUS
      <4> QED
        BY <4>1 DEF BestOf
    <3> QED
      BY <2>1, <3>1, <3>2
  <2>2. CASE n # 0
    <3>1. PICK k \in 1 .. n : Top.selected = q[k] /\ BestOf(q, n, k)
      BY <1>3, <2>2 DEF Compared
    <3>2. q[k] \in Task /\ Priority[q[k]] \in Nat /\ Priority[q[n + 1]] \in Nat
          /\ \A j \in 1 .. n : Priority[q[j]] \in Nat
      <4>1. \A j \in 1 .. n : j \in 1 .. Len(q)
        BY <1>2, <1>3, <1>4
      <4> QED
        BY <1>2, <1>4, <1>6, <4>1
    <3>3. Better(Top.cursor) <=> Priority[q[k]] > Priority[q[n + 1]]
      BY <1>4, <3>1, <3>2 DEF Better
    <3>4. \A j \in 1 .. n + 1 : j \in 1 .. n \/ j = n + 1
      BY <1>3
    <3>5. CASE Priority[q[k]] > Priority[q[n + 1]]
      <4>1. f.selected = q[n + 1]
        BY <1>4, <3>3, <3>5
      <4>2. \A j \in 1 .. n : Priority[q[n + 1]] < Priority[q[j]]
        BY <3>1, <3>2, <3>5 DEF BestOf
      <4>3. BestOf(q, n + 1, n + 1)
        BY <1>3, <3>4, <4>2 DEF BestOf
      <4> HIDE DEF f
      <4> QED
        BY <1>3, <4>1, <4>3
    <3>6. CASE ~(Priority[q[k]] > Priority[q[n + 1]])
      <4>1. f.selected = q[k]
        BY <3>1, <3>3, <3>6
      <4>2. BestOf(q, n + 1, k)
        BY <1>3, <3>1, <3>2, <3>4, <3>6 DEF BestOf
      <4>3. k \in 1 .. n + 1
        BY <1>3
      <4> HIDE DEF f
      <4> QED
        BY <4>1, <4>2, <4>3
    <3> QED
      BY <3>5, <3>6
  <2> QED
    BY <2>1, <2>2
<1>8. f \in Frame
  <2>1. f.selected \in Pointer
    BY <1>1, <1>4 DEF Frame, Pointer
  <2>2. Right[Top.cursor] \in Pointer
    BY <1>4 DEF Calm, Typed, TypeOK
  <2>3. Top.i + 1 \in 0 .. TaskQueueSelectLength
    BY <1>1, <1>3
  <2> QED
    BY <2>1, <2>2, <2>3 DEF Frame
<1>9. frames' # <<>> /\ Top' = f
  BY <1>1, <1>8, SetTop DEF Scan
<1>10. Compared(q, f)
  <2>1. f.i = n + 1 /\ f.cursor = Right[q[n + 1]] /\ f.pc = "scan"
    BY <1>4
  <2>2. n + 1 # 0 /\ n + 1 <= Len(q)
    BY <1>2, <1>3, <1>4
  <2> HIDE DEF f, n
  <2> QED
    BY <1>5, <1>7, <2>1, <2>2 DEF Compared
<1>11. IsQueue(q)'
  BY <1>1, SameQueue DEF Known
<1>12. f.pc = "scan"
  OBVIOUS
<1> HIDE DEF f
<1>13. CallKnows(q)'
  BY <1>1, <1>9, <1>10, <1>12 DEF CallKnows, Compared, BestOf
<1> QED
  BY <1>1, <1>9, <1>11, <1>12, <1>13 DEF Known

LEMMA EnterKnown ==
  ASSUME Calm, NEW q, Known(q), EnterRun
  PROVE  /\ Known(q)' /\ UNCHANGED <<TaskQueue, Left, Right, Priority>>
         /\ frames # <<>> /\ Top.pc = "scan"
         /\ frames' # <<>> /\ Top'.pc = "run" /\ Top'.selected = Top.selected
         /\ \E k \in 1 .. Len(q) :
              /\ k <= TaskQueueSelectLength /\ Top.selected = q[k]
              /\ \A j \in 1 .. Len(q) : j <= TaskQueueSelectLength =>
                   \/ Priority[q[k]] < Priority[q[j]]
                   \/ Priority[q[k]] = Priority[q[j]] /\ k <= j
<1> USE TaskAssumption
<1>1. /\ frames # <<>> /\ Top.pc = "scan" /\ Top \in Frame /\ Top.selected # NULL
      /\ ~(Top.i < TaskQueueSelectLength /\ Top.cursor # NULL)
      /\ UNCHANGED <<TaskQueue, Left, Right, Priority>>
  BY TheCall DEF EnterRun, Scanning, InWindow
<1>2. q \in Seq(Task) /\ Len(q) \in Nat /\ \A k \in 1 .. Len(q) : q[k] \in Task
  BY Members DEF Known, IsQueue
<1>3. Compared(q, Top) /\ Top.i \in Nat /\ Top.i <= TaskQueueSelectLength
  BY <1>1 DEF Known, CallKnows, Frame
<1>4. Top.i = TaskQueueSelectLength \/ Top.i = Len(q)
  <2>1. CASE Top.cursor = NULL
    <3>1. ASSUME Top.i # Len(q) PROVE FALSE
      <4>1. Top.i + 1 \in 1 .. Len(q) /\ Top.cursor = q[Top.i + 1]
        BY <1>2, <1>3, <3>1 DEF Compared
      <4> QED
        BY <1>2, <2>1, <4>1
    <3> QED
      BY <3>1
  <2>2. CASE ~(Top.i < TaskQueueSelectLength)
    BY <1>3, <2>2
  <2> QED
    BY <1>1, <2>1, <2>2
<1>5. PICK k \in 1 .. Top.i : Top.selected = q[k] /\ BestOf(q, Top.i, k)
  BY <1>1, <1>3 DEF Compared
<1>6. k \in 1 .. Len(q) /\ k <= TaskQueueSelectLength
  BY <1>2, <1>3 DEF Compared
<1>7. \A j \in 1 .. Len(q) : j <= TaskQueueSelectLength => j \in 1 .. Top.i
  BY <1>2, <1>3, <1>4
<1>8. frames' # <<>> /\ Top'.pc = "run" /\ Top'.selected = Top.selected
  <2>1. [Top EXCEPT !.pc = "run"] \in Frame
    BY <1>1 DEF Frame
  <2>2. frames' = [frames EXCEPT ![1] = [Top EXCEPT !.pc = "run"]]
    BY DEF EnterRun
  <2>3. frames' # <<>> /\ Top' = [Top EXCEPT !.pc = "run"]
    BY <1>1, <2>1, <2>2, SetTop
  <2> QED
    BY <1>1, <2>3 DEF Frame
<1>9. IsQueue(q)'
  BY <1>1, SameQueue DEF Known
<1>10. CallKnows(q)'
  BY <1>5, <1>6, <1>8 DEF CallKnows, Holds
<1> QED
  BY <1>1, <1>5, <1>6, <1>7, <1>8, <1>9, <1>10 DEF Known, BestOf

LEMMA NothingKnown ==
  ASSUME Calm, NEW q, Known(q), Nothing
  PROVE  /\ Known(q)' /\ UNCHANGED <<TaskQueue, Left, Right, Priority>>
         /\ frames # <<>> /\ Top.pc = "scan" /\ frames' = <<>>
<1>1. /\ frames # <<>> /\ Top.pc = "scan" /\ frames' = <<>>
      /\ UNCHANGED <<TaskQueue, Left, Right, Priority>>
  BY TheCall DEF Nothing, Scanning
<1>2. IsQueue(q)' /\ CallKnows(q)'
  BY <1>1, SameQueue DEF Known, CallKnows
<1> QED
  BY <1>1, <1>2 DEF Known

LEMMA FinishKnown ==
  ASSUME Calm, NEW q, Known(q), FinishRun
  PROVE  /\ frames # <<>> /\ Top.pc = "run" /\ Top.selected \in Task
         /\ frames' = <<>> /\ Priority' = Priority
         /\ \E i \in 1 .. Len(q) : q[i] = Top.selected /\ Known(Without(q, i))'
<1>1. /\ frames # <<>> /\ Top.pc = "run" /\ Top.selected \in Task
      /\ frames' = <<>> /\ Priority' = Priority /\ Dequeue(Top.selected)
  BY TheCall DEF FinishRun
<1>2. PICK i \in 1 .. Len(q) : q[i] = Top.selected
  BY <1>1 DEF Known, CallKnows, Holds
<1>3. IsQueue(Without(q, i))'
  <2>1. Dequeue(q[i])
    BY <1>1, <1>2
  <2> QED
    BY <2>1, DequeueQueue DEF Calm, Typed, Known
<1>4. CallKnows(Without(q, i))'
  BY <1>1 DEF CallKnows
<1> QED
  BY <1>1, <1>2, <1>3, <1>4 DEF Known

LEMMA StutterKnown ==
  ASSUME NEW q, Known(q), UNCHANGED vars
  PROVE  Known(q)'
<1>1. IsQueue(q)'
  BY SameQueue DEF Known, vars
<1>2. CallKnows(q)'
  BY DEF Known, CallKnows, Compared, BestOf, Holds, Top, vars
<1> QED
  BY <1>1, <1>2 DEF Known

-------------------------------------------------------------------------------
(* Each step of LTask as a step of TaskSchedule.                            *)

LEMMA InitSchedule ==
  ASSUME Init
  PROVE  Known(<<>>) /\ Schedule!Init
<1>1. IsQueue(<<>>) /\ TypeOK
  BY InitQueue, InitTyped DEF Typed
<1>2. frames = <<>>
  BY DEF Init
<1>3. Chain = <<>>
  BY <1>1, ChainIsQueue
<1> QED
  BY <1>1, <1>2, <1>3 DEF Known, CallKnows, Running, Init, Schedule!Init

LEMMA AddSchedule ==
  ASSUME Calm, NEW q, Known(q), Chain = q, NEW t \in Task, AddTask(t),
         \A s : IsQueue(s)' => Chain' = s
  PROVE  Schedule!Add(t) /\ \E s : Known(s)'
<1>1. Known(<<t>> \o q)' /\ ~Holds(q, t)
  BY AddKnown
<1>2. Chain' = <<t>> \o q
  BY <1>1 DEF Known
<1>3. ~Schedule!Waits(t)
  <2>1. DOMAIN q = 1 .. Len(q)
    BY Members DEF Known, IsQueue
  <2> QED
    BY <1>1, <2>1 DEF Schedule!Waits, Schedule!ToSet, Holds
<1>4. Priority' = Priority /\ Running' = Running
  BY DEF AddTask, Running, Top
<1> QED
  BY <1>1, <1>2, <1>3, <1>4 DEF Schedule!Add

LEMMA ConstructSchedule ==
  ASSUME Calm, NEW q, Known(q), Chain = q, NEW t \in Task, NEW p \in Priorities,
         Construct(t, p), \A s : IsQueue(s)' => Chain' = s
  PROVE  Schedule!Create(t, p) /\ \E s : Known(s)'
<1>1. Known(q)' /\ ~Holds(q, t)
  BY ConstructKnown
<1>2. Chain' = q
  BY <1>1 DEF Known
<1>3. ~Schedule!Waits(t)
  <2>1. DOMAIN q = 1 .. Len(q)
    BY Members DEF Known, IsQueue
  <2> QED
    BY <1>1, <2>1 DEF Schedule!Waits, Schedule!ToSet, Holds
<1>4. Running' = Running /\ t # Running
  <2>1. Running' = Running
    BY DEF Construct, Running, Top
  <2>2. t \notin live
    BY DEF Construct
  <2> QED
    BY <2>1, <2>2, TheCall, TaskAssumption DEF Running
<1> QED
  BY <1>1, <1>2, <1>3, <1>4 DEF Schedule!Create, Construct

LEMMA EnterSchedule ==
  ASSUME Calm, NEW q, Known(q), Chain = q, EnterRun, \A s : IsQueue(s)' => Chain' = s
  PROVE  Schedule!Start /\ \E s : Known(s)'
<1>1. Known(q)' /\ Priority' = Priority /\ Running = NULL /\ Running' = Top.selected
  BY EnterKnown DEF Running
<1>2. Chain' = q
  BY <1>1 DEF Known
<1>3. /\ DOMAIN q = 1 .. Len(q) /\ Len(q) \in Nat
  BY Members DEF Known, IsQueue
<1>4. PICK k \in 1 .. Len(q) :
              /\ k <= TaskQueueSelectLength /\ Top.selected = q[k]
              /\ \A j \in 1 .. Len(q) : j <= TaskQueueSelectLength =>
                   \/ Priority[q[k]] < Priority[q[j]]
                   \/ Priority[q[k]] = Priority[q[j]] /\ k <= j
  BY EnterKnown
<1>5. Schedule!Favoured(k)
  <2>1. \A j \in Int : j \in (1 .. TaskQueueSelectLength) \cap DOMAIN q
                       <=> j \in 1 .. Len(q) /\ j <= TaskQueueSelectLength
    BY <1>3, TaskAssumption
  <2>2. (1 .. TaskQueueSelectLength) \cap DOMAIN q \subseteq Int
    OBVIOUS
  <2> QED
    BY <1>3, <1>4, <2>1, <2>2 DEF Schedule!Favoured
<1>6. k \in DOMAIN Chain /\ Running' = Chain[k]
  BY <1>1, <1>3, <1>4
<1> QED
  BY <1>1, <1>2, <1>5, <1>6 DEF Schedule!Start

LEMMA FinishSchedule ==
  ASSUME Calm, NEW q, Known(q), Chain = q, FinishRun, \A s : IsQueue(s)' => Chain' = s
  PROVE  Schedule!Finish /\ \E s : Known(s)'
<1>1. /\ Running \in Task /\ Running' = NULL /\ Priority' = Priority
      /\ \E i \in 1 .. Len(q) : q[i] = Running /\ Known(Without(q, i))'
  BY FinishKnown DEF Running
<1>2. PICK i \in 1 .. Len(q) : q[i] = Running /\ Known(Without(q, i))'
  BY <1>1
<1>3. Chain' = Without(q, i)
  BY <1>2 DEF Known
<1>4. i \in DOMAIN q
  BY Members DEF Known, IsQueue
<1>5. Chain' = Schedule!RemoveAt(Chain, i)
  BY <1>3 DEF Schedule!RemoveAt, Without
<1>6. Running # NULL
  BY <1>1, TaskAssumption
<1> QED
  BY <1>1, <1>2, <1>4, <1>5, <1>6 DEF Schedule!Finish

LEMMA StepSchedule ==
  ASSUME Calm, NEW q, Known(q), Chain = q, MaxDepth = 1, [Next]_vars,
         \A s : IsQueue(s)' => Chain' = s
  PROVE  [Schedule!Next]_(Schedule!vars) /\ \E s : Known(s)'
<1>1. ASSUME NEW t \in Task, AddTask(t)
      PROVE  [Schedule!Next]_(Schedule!vars) /\ \E s : Known(s)'
  BY <1>1, AddSchedule DEF Schedule!Next
<1>2. ASSUME NEW t \in Task, NEW p \in Priorities, Construct(t, p)
      PROVE  [Schedule!Next]_(Schedule!vars) /\ \E s : Known(s)'
  BY <1>2, ConstructSchedule DEF Schedule!Next
<1>3. CASE EnterRun
  BY <1>3, EnterSchedule DEF Schedule!Next
<1>4. CASE FinishRun
  BY <1>4, FinishSchedule DEF Schedule!Next
<1>5. ASSUME Known(q)', Priority' = Priority, Running' = Running
      PROVE  [Schedule!Next]_(Schedule!vars) /\ \E s : Known(s)'
  BY <1>5 DEF Known, Schedule!vars
<1>6. CASE Call
  BY <1>5, <1>6, CallKnown DEF Running, Call
<1>7. CASE Scan
  BY <1>5, <1>7, ScanKnown DEF Running, Scan
<1>8. CASE Nothing
  BY <1>5, <1>8, NothingKnown DEF Running
<1>9. CASE UNCHANGED vars
  BY <1>5, <1>9, StutterKnown DEF Running, Top, vars
<1> QED
  BY <1>1, <1>2, <1>3, <1>4, <1>6, <1>7, <1>8, <1>9 DEF Next, DoEvents

(***************************************************************************)
(* The list, the scan of DoEvents with its locals and the unlinking that   *)
(* follows a Run are together the priority window of TaskSchedule: the     *)
(* task that runs is the best of the newest TaskQueueSelectLength in the   *)
(* list, it stays there while it runs, and nothing else leaves the list.   *)
(***************************************************************************)
THEOREM ListImplementsSchedule == ASSUME MaxDepth = 1 PROVE Spec => ImplementsSchedule
<1> DEFINE KnownQueue == \E q : Known(q)
<1>1. Init => KnownQueue /\ Schedule!Init
  BY InitSchedule
<1>2. ASSUME Typed, LinkedUntilFault, Reentry, Flat, KnownQueue, [Next]_vars, Typed',
             \A s : IsQueue(s)' => Chain' = s
      PROVE  KnownQueue' /\ [Schedule!Next]_(Schedule!vars)
  <2>1. Calm
    BY <1>2 DEF Calm, LinkedUntilFault, Reentry, Flat
  <2>2. PICK q : Known(q)
    BY <1>2
  <2>3. Chain = q
    BY <1>2, <2>2, ChainIsQueue DEF Typed, Known
  <2> QED
    BY <1>2, <2>1, <2>2, <2>3, StepSchedule
<1>3. TypeOK' => \A s : IsQueue(s)' => Chain' = s
  BY NextChainIsQueue
<1>4. Typed' => TypeOK'
  BY DEF Typed
<1>5. Spec => []Typed
  BY InitTyped, NextTyped, PTL DEF Spec
<1>6. Init => Reentry
  BY EmptySeq, LenProperties DEF Init, Reentry, SelectedLive, ScanAtTop, RunsActive, RunBy
<1>7. Typed /\ LinkedUntilFault /\ Reentry /\ [Next]_vars => Reentry'
  BY NextReentry
<1> HIDE DEF KnownQueue
<1> QED
  BY <1>1, <1>2, <1>3, <1>4, <1>5, <1>6, <1>7, StaysLinked, FlatCalls, PTL
  DEF Spec, ImplementsSchedule, Schedule!Spec
===============================================================================
