------------------------------- MODULE Pyramids -------------------------------
(***************************************************************************)
(* The program Pyramids (src/src/packages/ACM/Pyramids.cpp): how many      *)
(* ordered trees have the nodes S[0], S[1], ... on a walk around them?     *)
(* The recursion F remembers its results in R and marks them in P with the *)
(* number of the line, before it computes them; the tables are static and  *)
(* are never cleared, not between lines and not between runs of the        *)
(* program.                                                                *)
(*                                                                         *)
(* A step is what a call of F does between two calls.  The operands of its *)
(* sum, the result so far and two calls, come in any order: C++ leaves it  *)
(* to the compiler.                                                        *)
(*                                                                         *)
(* Operators with a name in _Bug are wrong versions of the one that        *)
(* follows; nothing uses them.                                             *)
(***************************************************************************)
EXTENDS Integers, Sequences, FiniteSets

CONSTANTS
  Texts,    \* the lines typed, as sequences of characters
  MaxTexts, \* bound on the lines typed one after the other
  Room,     \* the length of S, with its terminator (400 in the code)
  Modulus   \* of the answers (1000000000 in the code)

ASSUME PyramidsAssumption ==
  /\ Room \in Nat \ {0}
  /\ \A t \in Texts : t \in Seq(STRING) /\ t # <<>> /\ Len(t) < Room
  /\ MaxTexts \in Nat
  /\ Modulus \in Nat /\ Modulus > 1

VARIABLES
  S,       \* the line
  P,       \* the line number that a result was computed for, by l and r
  R,       \* the results
  MarkNum, \* the number of the line
  calls,   \* the calls of F that have begun, the innermost one last
  answer   \* what was printed for S

pyramids == <<S, P, R, MarkNum, calls, answer>>

Position == 0 .. Room - 1

InitPyramids ==
  /\ S = <<>>
  /\ P = [l \in Position |-> [r \in Position |-> 0]]
  /\ R = [l \in Position |-> [r \in Position |-> 0]]
  /\ MarkNum = 0
  /\ calls = <<>>
  /\ answer = 0

-------------------------------------------------------------------------------
\* What the sum is made of; an operand has NoValue before it is evaluated.
Operands == {"before", "first", "rest"}
NoValue == -1
Nothing == [o \in Operands |-> NoValue]

\* v becomes the operand o of the sum of the last call of c.
WithOperand(c, o, v) == [c EXCEPT ![Len(c)].sum[o] = v]

\* The result v goes to the caller's sum as the operand o, or is printed.
Give(v, o, callers) ==
  IF callers = <<>>
  THEN answer' = v /\ calls' = <<>>
  ELSE calls' = WithOperand(callers, o, v) /\ UNCHANGED answer

\* F(l, r) is called for the operand o: it knows the result, or its loop begins.
F(l, r, o, callers, mark) ==
  \/ /\ l = r
     /\ Give(1, o, callers) /\ UNCHANGED <<P, R>>
  \/ /\ l # r /\ P[l][r] = mark
     /\ Give(R[l][r], o, callers) /\ UNCHANGED <<P, R>>
  \/ /\ l # r /\ P[l][r] # mark
     /\ P' = [P EXCEPT ![l][r] = mark]
     /\ R' = [R EXCEPT ![l][r] = 0]
     /\ calls' = Append(callers, [l |-> l, r |-> r, k |-> l + 1, sum |-> Nothing, for |-> o])
     /\ UNCHANGED answer

\* The innermost call, and those that wait for it.
Call == calls[Len(calls)]
Callers == SubSeq(calls, 1, Len(calls) - 1)

\* The first subtree may end before k: the node is there again.
NodeAgain == Call.k <= Call.r /\ S[Call.k + 1] = S[Call.l + 1]

\* Forgets that the tables are those of another line.
NewMark_Bug == IF MarkNum = 0 THEN 1 ELSE MarkNum

NewMark == MarkNum + 1

\* A line is typed; an empty one ends the program, which the next run goes on
\* from.
Ask ==
  /\ calls = <<>> /\ MarkNum < MaxTexts
  /\ \E text \in Texts : S' = text /\ F(0, Len(text) - 1, "before", <<>>, NewMark)
  /\ MarkNum' = NewMark

\* One of the operands that have NoValue yet.
Evaluate ==
  /\ calls # <<>> /\ NodeAgain
  /\ \/ /\ Call.sum["before"] = NoValue
        /\ Give(R[Call.l][Call.r], "before", calls) /\ UNCHANGED <<P, R>>
     \/ /\ Call.sum["first"] = NoValue
        /\ F(Call.l + 1, Call.k - 1, "first", calls, MarkNum)
     \/ /\ Call.sum["rest"] = NoValue
        /\ F(Call.k, Call.r, "rest", calls, MarkNum)
  /\ UNCHANGED <<S, MarkNum>>

Add ==
  /\ calls # <<>> /\ NodeAgain
  /\ \A o \in Operands : Call.sum[o] # NoValue
  /\ LET sum == Call.sum
     IN  R' = [R EXCEPT ![Call.l][Call.r] = (sum["before"] + sum["first"] * sum["rest"]) % Modulus]
  /\ calls' = [calls EXCEPT ![Len(calls)].k = @ + 1, ![Len(calls)].sum = Nothing]
  /\ UNCHANGED <<S, P, MarkNum, answer>>

Skip ==
  /\ calls # <<>> /\ ~NodeAgain /\ Call.k <= Call.r
  /\ calls' = [calls EXCEPT ![Len(calls)].k = @ + 1]
  /\ UNCHANGED <<S, P, R, MarkNum, answer>>

\* The loop has ended.
GiveBack ==
  /\ calls # <<>> /\ Call.k > Call.r
  /\ Give(R[Call.l][Call.r], Call.for, Callers)
  /\ UNCHANGED <<S, P, R, MarkNum>>

PyramidsStep == Ask \/ Evaluate \/ Add \/ Skip \/ GiveBack

PyramidsEnds == calls = <<>> /\ MarkNum = MaxTexts

-------------------------------------------------------------------------------
(* Properties.                                                              *)

\* The places j and k of a walk with the depths d are the same node: it was not
\* left for the node above in between.
SamePlace(d, j, k) == d[j] = d[k] /\ \A m \in j .. k : d[m] >= d[j]

\* The walks around a tree whose nodes, in the order of the walk, are s[l] ... s[r]:
\* an ordered tree is given by the depths of the nodes.  It goes one node down
\* or up at a time, and where it is at a node again it finds the same character.
Walks(s, l, r) ==
  {d \in [l .. r -> 0 .. (r - l) \div 2] :
     /\ l <= r /\ d[l] = 0 /\ d[r] = 0
     /\ \A k \in l + 1 .. r : d[k] = d[k - 1] + 1 \/ d[k] = d[k - 1] - 1
     /\ \A j, k \in l .. r : j < k /\ SamePlace(d, j, k) => s[j + 1] = s[k + 1]}

\* Each line is answered with the number of trees whose walk it is, whatever
\* lines were answered before it, and in whatever order the sums were evaluated.
CountsTrees ==
  S # <<>> /\ calls = <<>> => answer = Cardinality(Walks(S, 0, Len(S) - 1)) % Modulus
===============================================================================
