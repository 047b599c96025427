-------------------------------- MODULE AntTSP --------------------------------
(***************************************************************************)
(* The program AntTSP (src/src/packages/AntTSP/AntTSP.cpp): in each round  *)
(* m ants walk through n cities, one step each in turn; the shortest walk  *)
(* through all of them is kept.  A round counts only when a walk through   *)
(* all cities is known, and the program ends after nc that count.          *)
(*                                                                         *)
(* An ant goes to the city that is best by pheromone and distance, both    *)
(* floating-point numbers; here to any city it can go to.                  *)
(*                                                                         *)
(* Operators with a name in _Bug are wrong versions of the one that        *)
(* follows; nothing uses them.                                             *)
(***************************************************************************)
EXTENDS Integers, Sequences, FiniteSets

CONSTANTS
  Tasks,  \* what is typed: n, m, nc and len, the distances between cities
  NoTour  \* the length 1e+100

\* Atoi has no sign, and a walk through n cities, of fewer than n distances, is
\* shorter than NoTour.
ASSUME AntAssumption ==
  /\ NoTour \in Nat
  /\ \A t \in Tasks :
       /\ t.n \in Nat /\ t.m \in Nat /\ t.nc \in Nat
       /\ \A c, d \in 0 .. t.n - 1 : t.len[<<c, d>>] \in Nat /\ t.n * t.len[<<c, d>>] < NoTour

VARIABLES
  task,   \* n, m, nc and len
  start,  \* the city each ant starts in
  path,   \* where each ant has been in this round
  b_can,  \* the cities each can go to
  t_len,  \* the length of its walk
  ant,    \* the loops over the ants: the next one
  b_ok,   \* whether an ant has moved in this turn
  NC,     \* the rounds that count
  sol,    \* the length of the shortest walk
  best,   \* best_tour
  antsAt, \* prompt, reuse, walk, score, done, or fault
  scored  \* history: the walks through all cities, in all rounds

ants == <<task, start, path, b_can, t_len, ant, b_ok, NC, sol, best, antsAt, scored>>

NoTask == [n |-> 0, m |-> 0, nc |-> 0, len |-> <<>>]

InitAnts ==
  /\ task = NoTask
  /\ start = <<>> /\ path = <<>> /\ b_can = <<>> /\ t_len = <<>>
  /\ ant = 0
  /\ b_ok = FALSE
  /\ NC = 0
  /\ sol = NoTour
  /\ best = <<>>
  /\ antsAt = "prompt"
  /\ scored = {}

Ants == 0 .. task.m - 1
Cities == 0 .. task.n - 1

-------------------------------------------------------------------------------
\* The input is read and the ants are placed at random; random(0) divides by 0.
AntsInput ==
  /\ antsAt = "prompt"
  /\ task' \in Tasks
  /\ IF task'.n = 0 /\ task'.m > 0
     THEN /\ antsAt' = "fault"
          /\ UNCHANGED <<start, path, b_can, t_len>>
     ELSE /\ start' \in [Ants' -> Cities']
          /\ path' = [k \in Ants' |-> <<>>]
          /\ b_can' = [k \in Ants' |-> Cities']
          /\ t_len' = [k \in Ants' |-> 0]
          /\ antsAt' = "reuse"
  /\ UNCHANGED <<ant, b_ok, NC, sol, best, scored>>

\* The city of the ant itself can be visited again.
Reused_Bug(k) == b_can[k] \cup {path[k][j] : j \in DOMAIN path[k]}

\* reuse(): the cities of the last walk can be visited, but where it starts.
Reused(k) == (b_can[k] \cup {path[k][j] : j \in DOMAIN path[k]}) \ {start[k]}

\* The length of the walk is not set to 0.
NewLength_Bug(k) == t_len[k]

NewLength(k) == 0

\* A round starts, or the program prints and ends.
Reuse ==
  /\ antsAt = "reuse"
  /\ IF NC < task.nc
     THEN /\ b_can' = [k \in Ants |-> Reused(k)]
          /\ path' = [k \in Ants |-> <<start[k]>>]
          /\ t_len' = [k \in Ants |-> NewLength(k)]
          /\ antsAt' = "walk"
          /\ ant' = 0 /\ b_ok' = FALSE
     ELSE /\ antsAt' = "done"
          /\ UNCHANGED <<b_can, path, t_len, ant, b_ok>>
  /\ UNCHANGED <<task, start, NC, sol, best, scored>>

\* next() and step(t) of an ant that can go somewhere.
Walk ==
  /\ antsAt = "walk" /\ ant < task.m
  /\ \E t \in b_can[ant] :
       /\ t_len' = [t_len EXCEPT ![ant] = @ + task.len[<<path[ant][Len(path[ant])], t>>]]
       /\ path' = [path EXCEPT ![ant] = Append(@, t)]
       /\ b_can' = [b_can EXCEPT ![ant] = @ \ {t}]
  /\ b_ok' = TRUE
  /\ ant' = ant + 1
  /\ UNCHANGED <<task, start, NC, sol, best, antsAt, scored>>

\* next() returns -1.
Stay ==
  /\ antsAt = "walk" /\ ant < task.m
  /\ b_can[ant] = {}
  /\ ant' = ant + 1
  /\ UNCHANGED <<task, start, path, b_can, t_len, b_ok, NC, sol, best, antsAt, scored>>

\* Every ant had its turn: they go on until none has moved.
Turn ==
  /\ antsAt = "walk" /\ ant = task.m
  /\ antsAt' = IF b_ok THEN "walk" ELSE "score"
  /\ ant' = 0
  /\ b_ok' = FALSE
  /\ UNCHANGED <<task, start, path, b_can, t_len, NC, sol, best, scored>>

\* step() leaves pheromone, and the walk is compared with the shortest one.
Score ==
  /\ antsAt = "score" /\ ant < task.m
  /\ IF Len(path[ant]) = task.n
     THEN /\ scored' = scored \cup {path[ant]}
          /\ IF t_len[ant] < sol
             THEN sol' = t_len[ant] /\ best' = path[ant]
             ELSE UNCHANGED <<sol, best>>
     ELSE UNCHANGED <<scored, sol, best>>
  /\ ant' = ant + 1
  /\ UNCHANGED <<task, start, path, b_can, t_len, b_ok, NC, antsAt>>

\* The round counts when best_tour_length == n.
Round ==
  /\ antsAt = "score" /\ ant = task.m
  /\ NC' = IF Len(best) = task.n THEN NC + 1 ELSE NC
  /\ antsAt' = "reuse"
  /\ ant' = 0
  /\ UNCHANGED <<task, start, path, b_can, t_len, b_ok, sol, best, scored>>

AntsStep == AntsInput \/ Reuse \/ Walk \/ Stay \/ Turn \/ Score \/ Round

AntsEnd == antsAt \in {"done", "fault"}

-------------------------------------------------------------------------------
(* Properties.                                                              *)

\* The length of a walk, from its cities.
Length(walk) ==
  LET total[k \in DOMAIN walk] ==
        IF k = 1 THEN 0 ELSE total[k - 1] + task.len[<<walk[k - 1], walk[k]>>]
  IN  IF walk = <<>> THEN 0 ELSE total[Len(walk)]

\* What is kept, and printed in the end, is a walk through every city once,
\* with its length, and no ant has made a shorter one in any round.
KeepsShortest ==
  IF best = <<>> THEN scored = {} /\ sol = NoTour
  ELSE /\ Len(best) = task.n /\ {best[k] : k \in DOMAIN best} = Cities
       /\ sol = Length(best)
       /\ \A walk \in scored : sol <= Length(walk)

\* With an ant and a city to walk through every round counts, and the program
\* ends; without an ant no round does.
AntsComeBack ==
  antsAt = "reuse" /\ task.m > 0 ~> antsAt = "done"
===============================================================================
