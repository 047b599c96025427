---------------------------- MODULE LSocketProofs -----------------------------
(***************************************************************************)
(* Proofs about LSocket, for every size of the requests, every limit of    *)
(* the polls and every number of bytes and commands.  Every step of the    *)
(* firmware, the peer, the operation and the command is looked at in each  *)
(* of the lemmas NextTyped to NextAccepting.                               *)
(***************************************************************************)
EXTENDS LSocket, TLAPS

-------------------------------------------------------------------------------
(* The inductive invariant.                                                 *)

\* A request is held only after its operation called, and one socket connects
\* and transmits once.  A Receive that the firmware still holds when the next one
\* begins was given up, which closes the socket, or ended by a late answer; that
\* of an accepted connection stays when its socket is deleted.
Held ==
  /\ pc \in {"configure", "mapping"} => pending = {}
  /\ pc = "none" => pending \subseteq {"receive"}
  /\ op # "receive" => "receive" \notin pending
  /\ op = "connect" => "transmit" \notin pending
  /\ op \in pending /\ pc \notin Waiting =>
       \/ "late" \in odd \/ pc \in {"delete", "none"}
       \/ op = "receive" /\ pc = "begin" /\ Closed
  /\ callback => pending \subseteq {"receive"} /\ ~listening

\* The counter of an operation: it is up until an answer came or the operation
\* was given up.
Counted ==
  /\ pc = "leave" => TCPEventStatus = 0
  /\ pc = "call" /\ (callback \/ "late" \notin odd) => TCPEventStatus >= 1
  /\ pc = "call" /\ op = "receive" => ~Closed
  /\ pc \in {"test", "poll", "check"} /\ op = "receive" /\ ~Closed =>
       \/ TCPEventStatus >= 1
       \/ ~callback /\ ("late" \in odd \/ "receive" \notin pending)
  /\ pc = "leave" /\ op = "receive" /\ ~Closed =>
       ~callback /\ ("late" \in odd \/ "receive" \notin pending)

\* What is in the buffer of a Receive, and that trouble is noted.
Buffered ==
  /\ op = "receive" /\ pc = "call" /\ "late" \notin odd =>
       received = 0 /\ fragment = Request
  /\ op = "receive" /\ pc \in Waiting /\ "late" \notin odd =>
       IF "receive" \in pending
       THEN received = 0 /\ fragment = (IF Closed THEN 0 ELSE Request)
       ELSE token["iotoken"].status = "error" \/ fragment \in {0, received}
  /\ odd = {} =>
       /\ ~Closed
       /\ \A t \in {"token", "iotoken"} : token[t].status = "ok"
       /\ op = "receive" /\ pc \in {"delete", "none"} => "receive" \notin pending
       /\ op = "receive" /\ pc \in Waiting /\ "receive" \notin pending =>
            fragment = received

\* A socket that was accepted has delivered nothing before its first Receive is
\* given up, and is closed then.
Accepting ==
  callback /\ "fin" \notin odd =>
    /\ delivered <= Request
    /\ "late" \notin odd
    /\ delivered = 0 \/ (Closed /\ pc \in {"begin", "delete"})

IInv ==
  TypeOK /\ EventsClosed /\ Held /\ Counted /\ CounterIsOperation /\ Buffered /\ Conserved
    /\ Accepting

\* A socket starts with tokens nobody has used.
LEMMA FreshTokens == NoTokens \in [{"token", "iotoken"} -> Tokens]
<1>1. NoToken \in Tokens
  BY SMTT(30) DEF NoToken, Tokens
<1> QED
  BY <1>1 DEF NoTokens

\* Every step keeps the types.
LEMMA NextTyped ==
  ASSUME TypeOK, [Next]_vars
  PROVE  TypeOK'
<1> USE SocketAssumption DEF TypeOK, Ops, Tokens, Waiting, Trouble, TokenOf, console,
      network, buffer, history
<1>1. CASE Arrive
  <2>1. CASE sent < MaxBytes
    <3>1. inbox' \in 0 .. MaxBytes /\ sent' \in 0 .. MaxBytes /\ inbox' <= sent'
      BY <1>1, <2>1 DEF Arrive
    <3>2. odd' = odd
      BY <1>1, <2>1 DEF Arrive
    <3> QED
      BY <1>1, <2>1, <3>1, <3>2 DEF Arrive
  <2>2. CASE ~(sent < MaxBytes)
    <3>1. inbox' \in 0 .. MaxBytes /\ inbox' <= MaxBytes /\ sent' = sent /\ sent = MaxBytes
      BY <1>1, <2>2 DEF Arrive
    <3>2. odd' \subseteq Trouble
      BY <1>1, <2>2 DEF Arrive
    <3> QED
      BY <1>1, <2>2, <3>1, <3>2 DEF Arrive
  <2> QED
    BY <2>1, <2>2
<1>2. CASE PeerCloses
  BY <1>2 DEF PeerCloses
<1>3. CASE Accepted
  <2>1. /\ listening' \in BOOLEAN /\ callback' \in BOOLEAN /\ Closed' \in BOOLEAN
       /\ fin' \in BOOLEAN /\ leaked' \in BOOLEAN
    BY <1>3, FreshTokens DEF Accepted, Fresh
  <2>2. /\ commands' \in 0 .. MaxCommands /\ TCPEventStatus' \in Nat
       /\ TCPAcceptStatus' \in 0 .. 1 /\ Counter' \in Nat /\ delivered' \in Nat
    BY <1>3, FreshTokens DEF Accepted, Fresh
  <2>3. /\ fragment' \in 0 .. Request /\ received' \in 0 .. Request
       /\ inbox' \in 0 .. MaxBytes /\ sent' \in 0 .. MaxBytes /\ inbox' <= sent'
    BY <1>3, FreshTokens DEF Accepted, Fresh
  <2>4. token' \in [{"token", "iotoken"} -> Tokens]
    BY <1>3, FreshTokens DEF Accepted, Fresh
  <2>5. /\ main' \in {"idle", "connect", "accept", "key", "spin"} /\ op' \in Ops
       /\ pc' \in {"none", "configure", "mapping", "begin", "call", "delete"} \cup Waiting
       /\ pending' \subseteq Ops /\ odd' \subseteq Trouble
    BY <1>3, FreshTokens DEF Accepted, Fresh
  <2>6. callback' => main' \in {"key", "spin"} /\ op' = "receive"
    BY <1>3, FreshTokens DEF Accepted, Fresh
  <2>7. (pc' = "none") <=> (main' = "idle" \/ (main' \in {"key", "spin"} /\ ~callback'))
    BY <1>3, FreshTokens DEF Accepted, Fresh
  <2> QED
    BY <2>1, <2>2, <2>3, <2>4, <2>5, <2>6, <2>7
<1>4. ASSUME NEW o \in Ops, Complete(o) PROVE TypeOK'
  BY <1>4 DEF Complete, CompleteOk, CompleteError, Late, Signal, Finished
<1>5. CASE Begin
  <2>1. /\ listening' \in BOOLEAN /\ callback' \in BOOLEAN /\ Closed' \in BOOLEAN
       /\ fin' \in BOOLEAN /\ leaked' \in BOOLEAN
    BY <1>5 DEF Begin, BeginFails, Leak, Return, Start, NoToken
  <2>2. /\ commands' \in 0 .. MaxCommands /\ TCPEventStatus' \in Nat
       /\ TCPAcceptStatus' \in 0 .. 1 /\ Counter' \in Nat /\ delivered' \in Nat
    BY <1>5 DEF Begin, BeginFails, Leak, Return, Start, NoToken
  <2>3. /\ fragment' \in 0 .. Request /\ received' \in 0 .. Request
       /\ inbox' \in 0 .. MaxBytes /\ sent' \in 0 .. MaxBytes /\ inbox' <= sent'
    BY <1>5 DEF Begin, BeginFails, Leak, Return, Start, NoToken
  <2>4. token' \in [{"token", "iotoken"} -> Tokens]
    BY <1>5 DEF Begin, BeginFails, Leak, Return, Start, NoToken
  <2>5. /\ main' \in {"idle", "connect", "accept", "key", "spin"} /\ op' \in Ops
       /\ pc' \in {"none", "configure", "mapping", "begin", "call", "delete"} \cup Waiting
       /\ pending' \subseteq Ops /\ odd' \subseteq Trouble
    BY <1>5 DEF Begin, BeginFails, Leak, Return, Start, NoToken
  <2>6. callback' => main' \in {"key", "spin"} /\ op' = "receive"
    BY <1>5 DEF Begin, BeginFails, Leak, Return, Start, NoToken
  <2>7. (pc' = "none") <=> (main' = "idle" \/ (main' \in {"key", "spin"} /\ ~callback'))
    BY <1>5 DEF Begin, BeginFails, Leak, Return, Start, NoToken
  <2> QED
    BY <2>1, <2>2, <2>3, <2>4, <2>5, <2>6, <2>7
<1>6. CASE BeginClosed
  BY <1>6 DEF BeginClosed, Return
<1>7. CASE Call
  BY <1>7 DEF Call
<1>8. CASE Refused
  BY <1>8 DEF Refused, CloseEvent, Leak, Return
<1>9. CASE CallFin
  BY <1>9 DEF CallFin, HandOn, CloseEvent, Return
<1>10. CASE Test
  BY <1>10 DEF Test
<1>11. CASE Poll
  BY <1>11 DEF Poll
<1>12. CASE PollFails
  BY <1>12 DEF PollFails, CloseEvent, Leak, Return
<1>13. CASE CheckError
  <2>1. /\ listening' \in BOOLEAN /\ callback' \in BOOLEAN /\ Closed' \in BOOLEAN
       /\ fin' \in BOOLEAN /\ leaked' \in BOOLEAN
    BY <1>13 DEF CheckError, Finished, GiveUp
  <2>2. /\ commands' \in 0 .. MaxCommands /\ TCPEventStatus' \in Nat
       /\ TCPAcceptStatus' \in 0 .. 1 /\ Counter' \in Nat /\ delivered' \in Nat
    BY <1>13 DEF CheckError, Finished, GiveUp
  <2>3. /\ fragment' \in 0 .. Request /\ received' \in 0 .. Request
       /\ inbox' \in 0 .. MaxBytes /\ sent' \in 0 .. MaxBytes /\ inbox' <= sent'
    BY <1>13 DEF CheckError, Finished, GiveUp
  <2>4. token' \in [{"token", "iotoken"} -> Tokens]
    BY <1>13 DEF CheckError, Finished, GiveUp
  <2>5. /\ main' \in {"idle", "connect", "accept", "key", "spin"} /\ op' \in Ops
       /\ pc' \in {"none", "configure", "mapping", "begin", "call", "delete"} \cup Waiting
       /\ pending' \subseteq Ops /\ odd' \subseteq Trouble
    BY <1>13 DEF CheckError, Finished, GiveUp
  <2>6. callback' => main' \in {"key", "spin"} /\ op' = "receive"
    BY <1>13 DEF CheckError, Finished, GiveUp
  <2>7. (pc' = "none") <=> (main' = "idle" \/ (main' \in {"key", "spin"} /\ ~callback'))
    BY <1>13 DEF CheckError, Finished, GiveUp
  <2> QED
    BY <2>1, <2>2, <2>3, <2>4, <2>5, <2>6, <2>7
<1>14. CASE CheckTries
  <2>1. /\ listening' \in BOOLEAN /\ callback' \in BOOLEAN /\ Closed' \in BOOLEAN
       /\ fin' \in BOOLEAN /\ leaked' \in BOOLEAN
    BY <1>14 DEF CheckTries, Finished, GiveUp
  <2>2. /\ commands' \in 0 .. MaxCommands /\ TCPEventStatus' \in Nat
       /\ TCPAcceptStatus' \in 0 .. 1 /\ Counter' \in Nat /\ delivered' \in Nat
    BY <1>14 DEF CheckTries, Finished, GiveUp
  <2>3. /\ fragment' \in 0 .. Request /\ received' \in 0 .. Request
       /\ inbox' \in 0 .. MaxBytes /\ sent' \in 0 .. MaxBytes /\ inbox' <= sent'
    BY <1>14 DEF CheckTries, Finished, GiveUp
  <2>4. token' \in [{"token", "iotoken"} -> Tokens]
    BY <1>14 DEF CheckTries, Finished, GiveUp
  <2>5. /\ main' \in {"idle", "connect", "accept", "key", "spin"} /\ op' \in Ops
       /\ pc' \in {"none", "configure", "mapping", "begin", "call", "delete"} \cup Waiting
       /\ pending' \subseteq Ops /\ odd' \subseteq Trouble
    BY <1>14 DEF CheckTries, Finished, GiveUp
  <2>6. callback' => main' \in {"key", "spin"} /\ op' = "receive"
    BY <1>14 DEF CheckTries, Finished, GiveUp
  <2>7. (pc' = "none") <=> (main' = "idle" \/ (main' \in {"key", "spin"} /\ ~callback'))
    BY <1>14 DEF CheckTries, Finished, GiveUp
  <2> QED
    BY <2>1, <2>2, <2>3, <2>4, <2>5, <2>6, <2>7
<1>15. CASE Leave
  <2>1. /\ listening' \in BOOLEAN /\ callback' \in BOOLEAN /\ Closed' \in BOOLEAN
       /\ fin' \in BOOLEAN /\ leaked' \in BOOLEAN
    BY <1>15 DEF Leave, HandOn, CloseEvent, Length, Return
  <2>2. /\ commands' \in 0 .. MaxCommands /\ TCPEventStatus' \in Nat
       /\ TCPAcceptStatus' \in 0 .. 1 /\ Counter' \in Nat /\ delivered' \in Nat
    BY <1>15 DEF Leave, HandOn, CloseEvent, Length, Return
  <2>3. /\ fragment' \in 0 .. Request /\ received' \in 0 .. Request
       /\ inbox' \in 0 .. MaxBytes /\ sent' \in 0 .. MaxBytes /\ inbox' <= sent'
    BY <1>15 DEF Leave, HandOn, CloseEvent, Length, Return
  <2>4. token' \in [{"token", "iotoken"} -> Tokens]
    BY <1>15 DEF Leave, HandOn, CloseEvent, Length, Return
  <2>5. /\ main' \in {"idle", "connect", "accept", "key", "spin"} /\ op' \in Ops
       /\ pc' \in {"none", "configure", "mapping", "begin", "call", "delete"} \cup Waiting
       /\ pending' \subseteq Ops /\ odd' \subseteq Trouble
    BY <1>15 DEF Leave, HandOn, CloseEvent, Length, Return
  <2>6. callback' => main' \in {"key", "spin"} /\ op' = "receive"
    BY <1>15 DEF Leave, HandOn, CloseEvent, Length, Return
  <2>7. (pc' = "none") <=> (main' = "idle" \/ (main' \in {"key", "spin"} /\ ~callback'))
    BY <1>15 DEF Leave, HandOn, CloseEvent, Length, Return
  <2> QED
    BY <2>1, <2>2, <2>3, <2>4, <2>5, <2>6, <2>7
<1>16. CASE StartCommand
  <2>1. /\ listening' \in BOOLEAN /\ callback' \in BOOLEAN /\ Closed' \in BOOLEAN
       /\ fin' \in BOOLEAN /\ leaked' \in BOOLEAN
    BY <1>16, FreshTokens DEF StartCommand, Fresh
  <2>2. /\ commands' \in 0 .. MaxCommands /\ TCPEventStatus' \in Nat
       /\ TCPAcceptStatus' \in 0 .. 1 /\ Counter' \in Nat /\ delivered' \in Nat
    BY <1>16, FreshTokens DEF StartCommand, Fresh
  <2>3. /\ fragment' \in 0 .. Request /\ received' \in 0 .. Request
       /\ inbox' \in 0 .. MaxBytes /\ sent' \in 0 .. MaxBytes /\ inbox' <= sent'
    BY <1>16, FreshTokens DEF StartCommand, Fresh
  <2>4. token' \in [{"token", "iotoken"} -> Tokens]
    BY <1>16, FreshTokens DEF StartCommand, Fresh
  <2>5. /\ main' \in {"idle", "connect", "accept", "key", "spin"} /\ op' \in Ops
       /\ pc' \in {"none", "configure", "mapping", "begin", "call", "delete"} \cup Waiting
       /\ pending' \subseteq Ops /\ odd' \subseteq Trouble
    BY <1>16, FreshTokens DEF StartCommand, Fresh
  <2>6. callback' => main' \in {"key", "spin"} /\ op' = "receive"
    BY <1>16, FreshTokens DEF StartCommand, Fresh
  <2>7. (pc' = "none") <=> (main' = "idle" \/ (main' \in {"key", "spin"} /\ ~callback'))
    BY <1>16, FreshTokens DEF StartCommand, Fresh
  <2> QED
    BY <2>1, <2>2, <2>3, <2>4, <2>5, <2>6, <2>7
<1>17. CASE Configure
  BY <1>17 DEF Configure, Configured
<1>18. CASE WaitForMapping
  BY <1>18 DEF WaitForMapping, Configured
<1>19. CASE Spin
  BY <1>19 DEF Spin, vars
<1>20. CASE EndAccept
  BY <1>20 DEF EndAccept
<1>21. CASE Delete
  <2>1. /\ listening' \in BOOLEAN /\ callback' \in BOOLEAN /\ Closed' \in BOOLEAN
       /\ fin' \in BOOLEAN /\ leaked' \in BOOLEAN
    BY <1>21 DEF Delete
  <2>2. /\ commands' \in 0 .. MaxCommands /\ TCPEventStatus' \in Nat
       /\ TCPAcceptStatus' \in 0 .. 1 /\ Counter' \in Nat /\ delivered' \in Nat
    BY <1>21 DEF Delete
  <2>3. /\ fragment' \in 0 .. Request /\ received' \in 0 .. Request
       /\ inbox' \in 0 .. MaxBytes /\ sent' \in 0 .. MaxBytes /\ inbox' <= sent'
    BY <1>21 DEF Delete
  <2>4. token' \in [{"token", "iotoken"} -> Tokens]
    BY <1>21 DEF Delete
  <2>5. /\ main' \in {"idle", "connect", "accept", "key", "spin"} /\ op' \in Ops
       /\ pc' \in {"none", "configure", "mapping", "begin", "call", "delete"} \cup Waiting
       /\ pending' \subseteq Ops /\ odd' \subseteq Trouble
    BY <1>21 DEF Delete
  <2>6. callback' => main' \in {"key", "spin"} /\ op' = "receive"
    BY <1>21 DEF Delete
  <2>7. (pc' = "none") <=> (main' = "idle" \/ (main' \in {"key", "spin"} /\ ~callback'))
    BY <1>21 DEF Delete
  <2> QED
    BY <2>1, <2>2, <2>3, <2>4, <2>5, <2>6, <2>7
<1>22. CASE Prompt
  BY <1>22 DEF Prompt, vars
<1>23. CASE Key
  BY <1>23 DEF Key
<1>24. CASE UNCHANGED vars
  BY <1>24 DEF vars
<1> QED
  BY <1>1, <1>2, <1>3, <1>4, <1>5, <1>6, <1>7, <1>8, <1>9, <1>10, <1>11, <1>12, <1>13,
     <1>14, <1>15, <1>16, <1>17, <1>18, <1>19, <1>20, <1>21, <1>22, <1>23, <1>24
  DEF Next, Firmware, Program, Operation

\* Every step keeps what is said of the requests the firmware holds and of the
\* counter of the operation.
LEMMA NextHeld ==
  ASSUME TypeOK, Held, Counted, [Next]_vars
  PROVE  (Held /\ Counted)'
<1> USE SocketAssumption DEF TypeOK, Held, Counted, Ops, Waiting, Tokens, TokenOf,
      console, network, buffer, history
<1>1. CASE Arrive
  BY <1>1 DEF Arrive
<1>2. CASE PeerCloses
  BY <1>2 DEF PeerCloses
<1>3. CASE Accepted
  <2>1. CASE callback' = TRUE /\ op' = "receive" /\ pc' = "begin" /\ Fresh
    BY <1>3, <2>1 DEF Accepted, Fresh
  <2>2. CASE UNCHANGED <<callback, op, pc, token, pending, Counter, Closed, buffer, network,
                         delivered, odd>>
    BY <1>3, <2>2 DEF Accepted
  <2> QED
    BY <1>3, <2>1, <2>2 DEF Accepted
<1>4. ASSUME NEW o \in Ops, Complete(o) PROVE (Held /\ Counted)'
  BY <1>4 DEF Complete, CompleteOk, CompleteError, Late, Signal, Finished
<1>5. CASE Begin
  BY <1>5 DEF Begin, BeginFails, Leak, Return, Start, NoToken
<1>6. CASE BeginClosed
  BY <1>6 DEF BeginClosed, Return
<1>7. CASE Call
  BY <1>7 DEF Call
<1>8. CASE Refused
  BY <1>8 DEF Refused, CloseEvent, Leak, Return
<1>9. CASE CallFin
  BY <1>9 DEF CallFin, HandOn, CloseEvent, Return
<1>10. CASE Test
  BY <1>10 DEF Test
<1>11. CASE Poll
  BY <1>11 DEF Poll
<1>12. CASE PollFails
  BY <1>12 DEF PollFails, CloseEvent, Leak, Return
<1>13. CASE CheckError
  BY <1>13 DEF CheckError, Finished, GiveUp
<1>14. CASE CheckTries
  BY <1>14 DEF CheckTries, Finished, GiveUp
<1>15. CASE Leave
  BY <1>15 DEF Leave, HandOn, CloseEvent, Length, Return
<1>16. CASE StartCommand
  BY <1>16 DEF StartCommand, Fresh, NoTokens, NoToken
<1>17. CASE Configure
  BY <1>17 DEF Configure, Configured
<1>18. CASE WaitForMapping
  BY <1>18 DEF WaitForMapping, Configured
<1>19. CASE Spin
  BY <1>19 DEF Spin, vars
<1>20. CASE EndAccept
  BY <1>20 DEF EndAccept
<1>21. CASE Delete
  BY <1>21 DEF Delete
<1>22. CASE Prompt
  BY <1>22 DEF Prompt, vars
<1>23. CASE Key
  BY <1>23 DEF Key
<1>24. CASE UNCHANGED vars
  BY <1>24 DEF vars
<1> QED
  BY <1>1, <1>2, <1>3, <1>4, <1>5, <1>6, <1>7, <1>8, <1>9, <1>10, <1>11, <1>12, <1>13,
     <1>14, <1>15, <1>16, <1>17, <1>18, <1>19, <1>20, <1>21, <1>22, <1>23, <1>24
  DEF Next, Firmware, Program, Operation

\* Every step keeps the event of a token that nobody waits for closed.
LEMMA NextEventsClosed ==
  ASSUME TypeOK, EventsClosed, [Next]_vars
  PROVE  EventsClosed'
<1> USE SocketAssumption DEF TypeOK, EventsClosed, Ops, Tokens, Waiting, TokenOf,
      console, network, buffer, history
<1>1. CASE Arrive
  BY <1>1 DEF Arrive
<1>2. CASE PeerCloses
  BY <1>2 DEF PeerCloses
<1>3. CASE Accepted
  <2>1. CASE callback' = TRUE /\ op' = "receive" /\ pc' = "begin" /\ Fresh
    BY <1>3, <2>1 DEF Accepted, Fresh, NoTokens, NoToken
  <2>2. CASE UNCHANGED <<callback, op, pc, token, pending, Counter, Closed, buffer, network,
                         delivered, odd>>
    BY <1>3, <2>2 DEF Accepted
  <2> QED
    BY <1>3, <2>1, <2>2 DEF Accepted
<1>4. ASSUME NEW o \in Ops, Complete(o) PROVE EventsClosed'
  BY <1>4 DEF Complete, CompleteOk, CompleteError, Late, Signal, Finished
<1>5. CASE Begin
  BY <1>5 DEF Begin, BeginFails, Leak, Return, Start, NoToken
<1>6. CASE BeginClosed
  BY <1>6 DEF BeginClosed, Return
<1>7. CASE Call
  BY <1>7 DEF Call
<1>8. CASE Refused
  BY <1>8 DEF Refused, CloseEvent, Leak, Return
<1>9. CASE CallFin
  BY <1>9 DEF CallFin, HandOn, CloseEvent, Return
<1>10. CASE Test
  BY <1>10 DEF Test
<1>11. CASE Poll
  BY <1>11 DEF Poll
<1>12. CASE PollFails
  BY <1>12 DEF PollFails, CloseEvent, Leak, Return
<1>13. CASE CheckError
  BY <1>13 DEF CheckError, Finished, GiveUp
<1>14. CASE CheckTries
  BY <1>14 DEF CheckTries, Finished, GiveUp
<1>15. CASE Leave
  BY <1>15 DEF Leave, HandOn, CloseEvent, Length, Return
<1>16. CASE StartCommand
  BY <1>16 DEF StartCommand, Fresh, NoTokens, NoToken
<1>17. CASE Configure
  BY <1>17 DEF Configure, Configured
<1>18. CASE WaitForMapping
  BY <1>18 DEF WaitForMapping, Configured
<1>19. CASE Spin
  BY <1>19 DEF Spin, vars
<1>20. CASE EndAccept
  BY <1>20 DEF EndAccept
<1>21. CASE Delete
  BY <1>21 DEF Delete
<1>22. CASE Prompt
  BY <1>22 DEF Prompt, vars
<1>23. CASE Key
  BY <1>23 DEF Key
<1>24. CASE UNCHANGED vars
  BY <1>24 DEF vars
<1> QED
  BY <1>1, <1>2, <1>3, <1>4, <1>5, <1>6, <1>7, <1>8, <1>9, <1>10, <1>11, <1>12, <1>13,
     <1>14, <1>15, <1>16, <1>17, <1>18, <1>19, <1>20, <1>21, <1>22, <1>23, <1>24
  DEF Next, Firmware, Program, Operation

\* Every step keeps the counter at most at one while no operation left it up.
LEMMA NextCounter ==
  ASSUME TypeOK, Held, Counted, CounterIsOperation, EventsClosed, [Next]_vars
  PROVE  CounterIsOperation'
<1> USE SocketAssumption DEF TypeOK, EventsClosed, Held, Counted, Ops, Tokens, Waiting,
      TokenOf, console, network, buffer, history, CounterIsOperation
<1>1. CASE Arrive
  BY <1>1 DEF Arrive
<1>2. CASE PeerCloses
  BY <1>2 DEF PeerCloses
<1>3. CASE Accepted
  <2>1. CASE callback' = TRUE /\ op' = "receive" /\ pc' = "begin" /\ Fresh
    BY <1>3, <2>1 DEF Accepted, Fresh
  <2>2. CASE UNCHANGED <<callback, op, pc, token, pending, Counter, Closed, buffer, network,
                         delivered, odd>>
    BY <1>3, <2>2 DEF Accepted
  <2> QED
    BY <1>3, <2>1, <2>2 DEF Accepted
<1>4. ASSUME NEW o \in Ops, Complete(o) PROVE CounterIsOperation'
  BY <1>4 DEF Complete, CompleteOk, CompleteError, Late, Signal, Finished
<1>5. CASE Begin
  BY <1>5 DEF Begin, BeginFails, Leak, Return, Start, NoToken
<1>6. CASE BeginClosed
  BY <1>6 DEF BeginClosed, Return
<1>7. CASE Call
  BY <1>7 DEF Call
<1>8. CASE Refused
  BY <1>8 DEF Refused, CloseEvent, Leak, Return
<1>9. CASE CallFin
  BY <1>9 DEF CallFin, HandOn, CloseEvent, Return
<1>10. CASE Test
  BY <1>10 DEF Test
<1>11. CASE Poll
  BY <1>11 DEF Poll
<1>12. CASE PollFails
  BY <1>12 DEF PollFails, CloseEvent, Leak, Return
<1>13. CASE CheckError
  BY <1>13 DEF CheckError, Finished, GiveUp
<1>14. CASE CheckTries
  BY <1>14 DEF CheckTries, Finished, GiveUp
<1>15. CASE Leave
  BY <1>15 DEF Leave, HandOn, CloseEvent, Length, Return
<1>16. CASE StartCommand
  BY <1>16 DEF StartCommand, Fresh, NoTokens, NoToken
<1>17. CASE Configure
  BY <1>17 DEF Configure, Configured
<1>18. CASE WaitForMapping
  BY <1>18 DEF WaitForMapping, Configured
<1>19. CASE Spin
  BY <1>19 DEF Spin, vars
<1>20. CASE EndAccept
  BY <1>20 DEF EndAccept
<1>21. CASE Delete
  BY <1>21 DEF Delete
<1>22. CASE Prompt
  BY <1>22 DEF Prompt, vars
<1>23. CASE Key
  BY <1>23 DEF Key
<1>24. CASE UNCHANGED vars
  BY <1>24 DEF vars
<1> QED
  BY <1>1, <1>2, <1>3, <1>4, <1>5, <1>6, <1>7, <1>8, <1>9, <1>10, <1>11, <1>12, <1>13,
     <1>14, <1>15, <1>16, <1>17, <1>18, <1>19, <1>20, <1>21, <1>22, <1>23, <1>24
  DEF Next, Firmware, Program, Operation

\* Every step keeps the buffer of a Receive what the firmware put into it.
LEMMA NextBuffered ==
  ASSUME TypeOK, Held, Counted, Buffered, [Next]_vars
  PROVE  Buffered'
<1> USE SocketAssumption DEF TypeOK, EventsClosed, Held, Counted, Ops, Tokens, Waiting,
      TokenOf, console, network, buffer, history, Buffered
<1>1. CASE Arrive
  BY <1>1 DEF Arrive
<1>2. CASE PeerCloses
  BY <1>2 DEF PeerCloses
<1>3. CASE Accepted
  BY <1>3 DEF Accepted, Fresh, NoTokens, NoToken
<1>4. ASSUME NEW o \in Ops, Complete(o) PROVE Buffered'
  BY <1>4 DEF Complete, CompleteOk, CompleteError, Late, Signal, Finished
<1>5. CASE Begin
  BY <1>5 DEF Begin, BeginFails, Leak, Return, Start, NoToken
<1>6. CASE BeginClosed
  BY <1>6 DEF BeginClosed, Return
<1>7. CASE Call
  BY <1>7 DEF Call
<1>8. CASE Refused
  BY <1>8 DEF Refused, CloseEvent, Leak, Return
<1>9. CASE CallFin
  BY <1>9 DEF CallFin, HandOn, CloseEvent, Return
<1>10. CASE Test
  BY <1>10 DEF Test
<1>11. CASE Poll
  BY <1>11 DEF Poll
<1>12. CASE PollFails
  BY <1>12 DEF PollFails, CloseEvent, Leak, Return
<1>13. CASE CheckError
  BY <1>13 DEF CheckError, Finished, GiveUp
<1>14. CASE CheckTries
  BY <1>14 DEF CheckTries, Finished, GiveUp
<1>15. CASE Leave
  BY <1>15 DEF Leave, HandOn, CloseEvent, Length, Return
<1>16. CASE StartCommand
  BY <1>16 DEF StartCommand, Fresh, NoTokens, NoToken
<1>17. CASE Configure
  BY <1>17 DEF Configure, Configured
<1>18. CASE WaitForMapping
  BY <1>18 DEF WaitForMapping, Configured
<1>19. CASE Spin
  BY <1>19 DEF Spin, vars
<1>20. CASE EndAccept
  BY <1>20 DEF EndAccept
<1>21. CASE Delete
  BY <1>21 DEF Delete
<1>22. CASE Prompt
  BY <1>22 DEF Prompt, vars
<1>23. CASE Key
  BY <1>23 DEF Key
<1>24. CASE UNCHANGED vars
  BY <1>24 DEF vars
<1> QED
  BY <1>1, <1>2, <1>3, <1>4, <1>5, <1>6, <1>7, <1>8, <1>9, <1>10, <1>11, <1>12, <1>13,
     <1>14, <1>15, <1>16, <1>17, <1>18, <1>19, <1>20, <1>21, <1>22, <1>23, <1>24
  DEF Next, Firmware, Program, Operation

\* Every step keeps the account of the bytes.
LEMMA NextConserved ==
  ASSUME TypeOK, Held, Counted, Buffered, Conserved, [Next]_vars
  PROVE  Conserved'
<1> USE SocketAssumption DEF TypeOK, EventsClosed, Held, Counted, Ops, Tokens, Waiting,
      TokenOf, console, network, buffer, history, Buffered, Conserved
<1>1. CASE Arrive
  BY <1>1 DEF Arrive
<1>2. CASE PeerCloses
  BY <1>2 DEF PeerCloses
<1>3. CASE Accepted
  <2>1. CASE Fresh
    BY <2>1 DEF Fresh
  <2>2. CASE UNCHANGED <<callback, op, pc, token, pending, Counter, Closed, buffer, network,
                         delivered, odd>>
    BY <2>2
  <2> QED
    BY <1>3, <2>1, <2>2 DEF Accepted
<1>4. ASSUME NEW o \in Ops, Complete(o) PROVE Conserved'
  <2> DEFINE account == sent = inbox + delivered +
               (IF op = "receive" /\ pc \in {"call"} \cup Waiting THEN received ELSE 0)
  <2>e. Conserved' <=> (odd' = {} => account')
    OBVIOUS
  <2> SUFFICES ASSUME odd' = {} PROVE account'
    BY <2>e, Zenon
  <2>a. "error" \notin odd' /\ "late" \notin odd'
    OBVIOUS
  <2>b. o \in pending /\ (CompleteOk(o) \/ CompleteError(o))
    BY <1>4 DEF Complete
  <2>c. CompleteOk(o)
    BY <2>a, <2>b DEF CompleteError
  <2>d. odd' = odd \cup Late(o)
    BY <2>c DEF CompleteOk
  <2>1. o = op /\ odd = {} /\ CompleteOk(o) /\ o \in pending
    BY <2>a, <2>b, <2>c, <2>d DEF Late
  <2>2. UNCHANGED <<pc, op, sent, delivered>>
    BY <1>4 DEF Complete
  <2>3. op = "receive" => pc \in Waiting
    BY <2>1
  <2>f. op' = op /\ pc' = pc
    BY <2>2
  <2>4. CASE op = "receive"
    <3>1. received = 0
      BY <2>1, <2>3, <2>4
    <3>2. inbox' + received' = inbox
      BY <2>1, <2>4 DEF CompleteOk
    <3>3. inbox' \in Nat /\ received' \in Nat
      BY <2>1, <2>4 DEF CompleteOk
    <3>4. sent = inbox + delivered
      BY <2>1, <2>3, <2>4, <3>1
    <3>6. sent' = sent /\ delivered' = delivered /\ delivered \in Nat
      BY <2>2
    <3>5. sent' = inbox' + delivered' + received'
      <4> HIDE DEF TypeOK, EventsClosed, Held, Counted, Buffered, Conserved, account, network, buffer
      <4> QED
        BY <3>2, <3>3, <3>4, <3>6, SMTT(30)
    <3> QED
      BY <2>f, <2>3, <2>4, <3>5
  <2>5. CASE op # "receive"
    BY <2>1, <2>2, <2>5 DEF CompleteOk
  <2> QED
    BY <2>4, <2>5
<1>5. CASE Begin
  BY <1>5 DEF Begin, BeginFails, Leak, Return, Start, NoToken
<1>6. CASE BeginClosed
  BY <1>6 DEF BeginClosed, Return
<1>7. CASE Call
  BY <1>7 DEF Call
<1>8. CASE Refused
  BY <1>8 DEF Refused, CloseEvent, Leak, Return
<1>9. CASE CallFin
  BY <1>9 DEF CallFin, HandOn, CloseEvent, Return
<1>10. CASE Test
  BY <1>10 DEF Test
<1>11. CASE Poll
  BY <1>11 DEF Poll
<1>12. CASE PollFails
  BY <1>12 DEF PollFails, CloseEvent, Leak, Return
<1>13. CASE CheckError
  BY <1>13 DEF CheckError, Finished, GiveUp
<1>14. CASE CheckTries
  BY <1>14 DEF CheckTries, Finished, GiveUp
<1>15. CASE Leave
  <2> SUFFICES ASSUME odd' = {} PROVE Conserved'
    BY DEF Conserved
  <2>1. odd = {} /\ UNCHANGED <<inbox, sent, received>> /\ pc = "leave" /\ pc' \notin {"call"} \cup Waiting
    BY <1>15 DEF Leave, Return
  <2>2. sent = inbox + delivered + (IF op = "receive" THEN received ELSE 0) /\ delivered <= MaxBytes
    BY <2>1
  <2>3. delivered' = delivered + (IF op = "receive" THEN received ELSE 0)
    <3>1. CASE op # "receive"
      BY <1>15, <3>1 DEF Leave
    <3>2. CASE op = "receive"
      <4>1. Length = received
        BY <2>1, <3>2 DEF Length
      <4> QED
        BY <1>15, <2>2, <3>2, <4>1 DEF Leave, HandOn
    <3> QED
      BY <3>1, <3>2
  <2> QED
    BY <2>1, <2>2, <2>3
<1>16. CASE StartCommand
  BY <1>16 DEF StartCommand, Fresh, NoTokens, NoToken
<1>17. CASE Configure
  BY <1>17 DEF Configure, Configured
<1>18. CASE WaitForMapping
  BY <1>18 DEF WaitForMapping, Configured
<1>19. CASE Spin
  BY <1>19 DEF Spin, vars
<1>20. CASE EndAccept
  BY <1>20 DEF EndAccept
<1>21. CASE Delete
  BY <1>21 DEF Delete
<1>22. CASE Prompt
  BY <1>22 DEF Prompt, vars
<1>23. CASE Key
  BY <1>23 DEF Key
<1>24. CASE UNCHANGED vars
  BY <1>24 DEF vars
<1> QED
  BY <1>1, <1>2, <1>3, <1>4, <1>5, <1>6, <1>7, <1>8, <1>9, <1>10, <1>11, <1>12, <1>13,
     <1>14, <1>15, <1>16, <1>17, <1>18, <1>19, <1>20, <1>21, <1>22, <1>23, <1>24
  DEF Next, Firmware, Program, Operation

\* Every step keeps what is said of an accepted connection.
LEMMA NextAccepting ==
  ASSUME TypeOK, Held, Counted, Buffered, Accepting, [Next]_vars
  PROVE  Accepting'
<1> USE SocketAssumption DEF TypeOK, EventsClosed, Held, Counted, Ops, Tokens, Waiting,
      TokenOf, console, network, buffer, history, Buffered, Accepting
<1>1. CASE Arrive
  BY <1>1 DEF Arrive
<1>2. CASE PeerCloses
  BY <1>2 DEF PeerCloses
<1>3. CASE Accepted
  <2>1. CASE callback' = TRUE /\ op' = "receive" /\ pc' = "begin" /\ Fresh
    BY <1>3, <2>1 DEF Accepted, Fresh
  <2>2. CASE UNCHANGED <<callback, op, pc, token, pending, Counter, Closed, buffer, network,
                         delivered, odd>>
    BY <1>3, <2>2 DEF Accepted
  <2> QED
    BY <1>3, <2>1, <2>2 DEF Accepted
<1>4. ASSUME NEW o \in Ops, Complete(o) PROVE Accepting'
  BY <1>4 DEF Complete, CompleteOk, CompleteError, Late, Signal, Finished
<1>5. CASE Begin
  BY <1>5 DEF Begin, BeginFails, Leak, Return, Start, NoToken
<1>6. CASE BeginClosed
  BY <1>6 DEF BeginClosed, Return
<1>7. CASE Call
  BY <1>7 DEF Call
<1>8. CASE Refused
  BY <1>8 DEF Refused, CloseEvent, Leak, Return
<1>9. CASE CallFin
  BY <1>9 DEF CallFin, HandOn, CloseEvent, Return
<1>10. CASE Test
  BY <1>10 DEF Test
<1>11. CASE Poll
  BY <1>11 DEF Poll
<1>12. CASE PollFails
  BY <1>12 DEF PollFails, CloseEvent, Leak, Return
<1>13. CASE CheckError
  BY <1>13 DEF CheckError, Finished, GiveUp
<1>14. CASE CheckTries
  BY <1>14 DEF CheckTries, Finished, GiveUp
<1>15. CASE Leave
  BY <1>15 DEF Leave, HandOn, CloseEvent, Length, Return
<1>16. CASE StartCommand
  BY <1>16 DEF StartCommand, Fresh, NoTokens, NoToken
<1>17. CASE Configure
  BY <1>17 DEF Configure, Configured
<1>18. CASE WaitForMapping
  BY <1>18 DEF WaitForMapping, Configured
<1>19. CASE Spin
  BY <1>19 DEF Spin, vars
<1>20. CASE EndAccept
  BY <1>20 DEF EndAccept
<1>21. CASE Delete
  BY <1>21 DEF Delete
<1>22. CASE Prompt
  BY <1>22 DEF Prompt, vars
<1>23. CASE Key
  BY <1>23 DEF Key
<1>24. CASE UNCHANGED vars
  BY <1>24 DEF vars
<1> QED
  BY <1>1, <1>2, <1>3, <1>4, <1>5, <1>6, <1>7, <1>8, <1>9, <1>10, <1>11, <1>12, <1>13,
     <1>14, <1>15, <1>16, <1>17, <1>18, <1>19, <1>20, <1>21, <1>22, <1>23, <1>24
  DEF Next, Firmware, Program, Operation

-------------------------------------------------------------------------------
(* The invariant, and what follows from it.                                 *)

LEMMA InitIInv == Init => IInv
<1> SUFFICES ASSUME Init PROVE IInv
  OBVIOUS
<1> USE SocketAssumption DEF Init, Ops, Waiting, TokenOf
<1>1. TypeOK
  <2>1. token \in [{"token", "iotoken"} -> Tokens]
    BY FreshTokens
  <2>2. /\ listening \in BOOLEAN /\ callback \in BOOLEAN /\ Closed \in BOOLEAN
       /\ fin \in BOOLEAN /\ leaked \in BOOLEAN
    OBVIOUS
  <2>3. /\ commands \in 0 .. MaxCommands /\ TCPEventStatus \in Nat
       /\ TCPAcceptStatus \in 0 .. 1 /\ Counter \in Nat /\ delivered \in Nat
       /\ fragment \in 0 .. Request /\ received \in 0 .. Request
       /\ inbox \in 0 .. MaxBytes /\ sent \in 0 .. MaxBytes /\ inbox <= sent
    OBVIOUS
  <2>4. /\ callback => main \in {"key", "spin"} /\ op = "receive"
       /\ (pc = "none") <=> (main = "idle" \/ (main \in {"key", "spin"} /\ ~callback))
    OBVIOUS
  <2> QED
    BY <2>1, <2>2, <2>3, <2>4 DEF TypeOK
<1>2. EventsClosed /\ Held /\ Counted /\ CounterIsOperation
  BY DEF EventsClosed, Held, Counted, CounterIsOperation, NoTokens, NoToken
<1>3. Buffered /\ Conserved /\ Accepting
  BY DEF Buffered, Conserved, Accepting, NoTokens, NoToken
<1> QED
  BY <1>1, <1>2, <1>3 DEF IInv

LEMMA NextIInv == IInv /\ [Next]_vars => IInv'
BY NextTyped, NextHeld, NextEventsClosed, NextCounter, NextBuffered, NextConserved,
   NextAccepting DEF IInv

LEMMA Invariant == Spec => []IInv
BY InitIInv, NextIInv, PTL DEF Spec

\* The variables keep their types, for any length of a request, any limit of
\* the polls, any number of bytes and of commands: the counter of all sockets
\* never gets below zero, and no fragment is longer than the buffer it was given.
THEOREM TypeCorrect == Spec => []TypeOK
BY Invariant, PTL DEF IInv

\* No event is open that nobody waits for: every way out of Connect, Transmit
\* and Receive closes it, so that no notification finds its socket deleted.
THEOREM NoEventLeft == Spec => []EventsClosed
BY Invariant, PTL DEF IInv

\* The one counter of all sockets stands for the operation that runs, until
\* an operation that failed between Start and its loop has left it up.
THEOREM CounterCountsOperation == Spec => []CounterIsOperation
BY Invariant, PTL DEF IInv

\* As long as nothing goes wrong a connection delivers what its peer sent, no
\* byte twice and none lost between two fragments.
THEOREM NoByteLost == Spec => []Conserved
BY Invariant, PTL DEF IInv

\* Of an accepted connection one fragment is shown, however much the peer
\* sends: its Receive cannot be told of the answer, runs to the limit of the
\* polls and closes the socket.
THEOREM OneFragmentShown == Spec => []AcceptShowsOneFragment
<1>1. IInv => AcceptShowsOneFragment
  BY DEF IInv, Accepting, AcceptShowsOneFragment
<1> QED
  BY Invariant, <1>1, PTL

-------------------------------------------------------------------------------
(* What a Receive hands on.                                                 *)

\* What a step may add to the bytes the reader got.
Delivers ==
  \/ delivered' \in {delivered, 0}
  \/ delivered' = delivered + received
  \/ odd' \cap {"fin", "late"} # {}

LEMMA StepDelivers == ASSUME IInv, [Next]_vars PROVE Delivers
<1> USE DEF IInv, TypeOK, Delivers, console, network, buffer, history
<1>1. CASE Leave
  <2>1. CASE op # "receive"
    BY <1>1, <2>1 DEF Leave, Return
  <2>2. CASE op = "receive" /\ "late" \in odd
    BY <1>1, <2>2 DEF Leave
  <2>3. CASE op = "receive" /\ "late" \notin odd
    <3>1. Length = 0 \/ Length = received
      BY <1>1, <2>3 DEF Leave, Length, Held, Counted, Buffered, Waiting
    <3> QED
      BY <1>1, <2>3, <3>1 DEF Leave, HandOn
  <2> QED
    BY <2>1, <2>2, <2>3
<1>2. CASE CallFin
  BY <1>2 DEF CallFin
<1>3. CASE Accepted \/ StartCommand
  BY <1>3 DEF Accepted, StartCommand, Fresh
<1>4. ASSUME NEW o \in Ops, Complete(o) PROVE Delivers
  BY <1>4 DEF Complete
<1>5. CASE Begin \/ BeginClosed \/ Call \/ Refused \/ PollFails
  BY <1>5 DEF Begin, BeginClosed, Call, Refused, PollFails
<1>6. CASE Test \/ Poll \/ CheckError \/ CheckTries
  BY <1>6 DEF Test, Poll, CheckError, CheckTries
<1>7. CASE Arrive \/ PeerCloses \/ Configure \/ WaitForMapping \/ EndAccept \/ Delete \/ Key
  BY <1>7 DEF Arrive, PeerCloses, Configure, WaitForMapping, EndAccept, Delete, Key
<1>8. CASE Spin \/ Prompt \/ UNCHANGED vars
  BY <1>8 DEF Spin, Prompt, vars
<1> QED
  BY <1>1, <1>2, <1>3, <1>4, <1>5, <1>6, <1>7, <1>8 DEF Next, Firmware, Program, Operation

\* A Receive hands its reader the bytes the firmware put into its buffer, all
\* or none of them, unless it met an immediate FIN or a late answer.
THEOREM HandsOnWhatCame == Spec => DeliversWhatCame
<1>1. IInv /\ [Next]_vars => [Delivers]_vars
  BY StepDelivers
<1> QED
  BY Invariant, <1>1, PTL DEF Spec, DeliversWhatCame, Delivers
===============================================================================
