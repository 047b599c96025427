------------------------------- MODULE LSocket --------------------------------
(***************************************************************************)
(* The TCP sockets of LavoroL (src/src/lsocket.hpp, lsocket.cpp) as the    *)
(* console commands connect and accept use them (src/main.cpp).  An        *)
(* operation hands the firmware a token, and polls until the one counter   *)
(* TCPEventStatus is back at zero: the notification of the token's event   *)
(* counts it down, and so does the loop on an error or after               *)
(* SOCKET_MAX_TRIES polls.  Connect uses one token of the socket, Transmit *)
(* and Receive share another.                                              *)
(*                                                                         *)
(* The firmware is external: it takes or refuses requests, and completes   *)
(* them at any time, early, late or never, also after the program stopped  *)
(* waiting; it then writes the token it was given and signals the event    *)
(* the token names at that moment.  In the notification of an accepted     *)
(* connection other notifications wait (both are at TPL_CALLBACK).  A peer *)
(* may go on sending for ever; the first MaxBytes of it are counted.       *)
(*                                                                         *)
(* Operators with a name in _Bug are wrong versions of the one that        *)
(* follows them, for checking that the properties notice.                  *)
(***************************************************************************)
EXTENDS Integers

CONSTANTS
  Request,      \* bytes a Receive asks for (96 in the code)
  MaxTries,     \* SOCKET_MAX_TRIES (40000 in the code)
  MaxBytes,     \* bytes of a connection that are counted, and the firmware's window
  MaxCommands   \* bound on the commands that are run

ASSUME SocketAssumption ==
  /\ Request \in Nat \ {0}
  /\ MaxTries \in Nat
  /\ MaxBytes \in Nat
  /\ MaxCommands \in Nat

VARIABLES
  main,            \* the console: idle, or where connect or accept is
  commands,        \* how many commands were started
  TCPEventStatus,  \* the counter
  TCPAcceptStatus, \* set when an accepted connection was read
  listening,       \* the firmware holds the accept token
  pc,              \* where the socket operation is, "none" if there is none
  op,              \* which: connect, transmit or receive
  callback,        \* the operation runs in the accept notification
  token,           \* the status and the event of the two tokens
  pending,         \* the requests the firmware holds
  Counter,         \* the polls of the loop
  Closed,          \* the socket's flag
  fragment,        \* FragmentLength of the receive
  received,        \* what the firmware put into the buffer in this receive
  inbox,           \* bytes that arrived and were not taken
  sent,            \* bytes the peer sent, as far as they are counted
  fin,             \* the peer closed
  delivered,       \* history: bytes this socket's reader got, as far as counted
  leaked,          \* history: an operation left the counter up, none has waited since
  odd              \* history: the kinds of trouble this socket had

vars == <<main, commands, TCPEventStatus, TCPAcceptStatus, listening, pc, op, callback,
          token, pending, Counter, Closed, fragment, received, inbox, sent, fin,
          delivered, leaked, odd>>

\* Groups for UNCHANGED.
console == <<main, commands, TCPAcceptStatus, listening>>
network == <<inbox, sent, fin>>
buffer  == <<fragment, received>>
history == <<delivered, leaked, odd>>

Ops == {"connect", "transmit", "receive"}

\* The token of an operation.
TokenOf(o) == IF o = "connect" THEN "token" ELSE "iotoken"

\* What can go wrong: refused (a call of the firmware failed), poll (Poll
\* failed), timeout, error (a token got an error), fin (Receive itself said
\* that the peer had closed), late (an answer to an operation given up before);
\* and many: the peer sent more than is counted.
Trouble == {"refused", "poll", "timeout", "error", "fin", "late", "many"}

NoToken == [status |-> "ok", event |-> "none"]
NoTokens == [t \in {"token", "iotoken"} |-> NoToken]

Init ==
  /\ main = "idle" /\ commands = 0
  /\ TCPEventStatus = 0 /\ TCPAcceptStatus = 0
  /\ listening = FALSE
  /\ pc = "none" /\ op = "connect" /\ callback = FALSE
  /\ token = NoTokens /\ pending = {}
  /\ Counter = 0 /\ Closed = FALSE
  /\ fragment = 0 /\ received = 0
  /\ inbox = 0 /\ sent = 0 /\ fin = FALSE
  /\ delivered = 0 /\ leaked = FALSE /\ odd = {}

\* What a new socket starts with: the flags of the object, and a connection on
\* which nothing has happened yet.
Fresh ==
  /\ token' = NoTokens /\ pending' = {}
  /\ Counter' = 0 /\ Closed' = FALSE
  /\ fragment' = 0 /\ received' = 0
  /\ inbox' = 0 /\ sent' = 0 /\ fin' = FALSE
  /\ delivered' = 0 /\ odd' = {}

-------------------------------------------------------------------------------
(* The counter.                                                             *)

Start == TCPEventStatus' = TCPEventStatus + 1

\* Counts down also at zero.
Finished_Bug == TCPEventStatus - 1

Finished == IF TCPEventStatus > 0 THEN TCPEventStatus - 1 ELSE 0

-------------------------------------------------------------------------------
(* The firmware and the peer.                                               *)

\* The event of a token is signalled: TCPCompletionTokenEvent runs, unless
\* the event is closed or the program itself is in a notification.
Signal(t) ==
  TCPEventStatus' =
    IF token[t].event = "open" /\ ~callback THEN Finished ELSE TCPEventStatus

\* The answer to a request nobody waits for any more.
Late(o) == IF o # op THEN {"late"} ELSE {}

CompleteOk(o) ==
  /\ token' = [token EXCEPT ![TokenOf(o)].status = "ok"]
  /\ odd' = odd \cup Late(o)
  /\ IF o = "receive"
     THEN \E n \in 1 .. Request :
            /\ n <= inbox
            /\ fragment' = n
            /\ received' = n
            /\ inbox' = inbox - n
     ELSE UNCHANGED <<buffer, inbox>>

CompleteError(o) ==
  /\ token' = [token EXCEPT ![TokenOf(o)].status = "error"]
  /\ odd' = odd \cup Late(o) \cup {"error"}
  /\ UNCHANGED <<buffer, inbox>>

\* A request is completed: with data, as far as it is a receive, or an error.
Complete(o) ==
  /\ o \in pending
  /\ pending' = pending \ {o}
  /\ Signal(TokenOf(o))
  /\ CompleteOk(o) \/ CompleteError(o)
  /\ UNCHANGED <<console, pc, op, callback, Counter, Closed, sent, fin, delivered, leaked>>

Connected == pc \notin {"none", "configure", "mapping"}

\* A byte arrives when there is room for it in the window, of any number.
Arrive ==
  /\ Connected /\ ~fin
  /\ inbox < MaxBytes
  /\ inbox' = inbox + 1
  /\ IF sent < MaxBytes
     THEN sent' = sent + 1 /\ UNCHANGED odd
     ELSE odd' = odd \cup {"many"} /\ UNCHANGED sent
  /\ UNCHANGED <<console, TCPEventStatus, pc, op, callback, token, pending, Counter,
                 Closed, buffer, fin, delivered, leaked>>

PeerCloses ==
  /\ Connected /\ ~fin
  /\ fin' = TRUE
  /\ UNCHANGED <<console, TCPEventStatus, pc, op, callback, token, pending, Counter,
                 Closed, buffer, inbox, sent, history>>

-------------------------------------------------------------------------------
(* Connect, Transmit and Receive.                                           *)

\* The operation returns: what its caller does next.
\*   connect   true: Transmit; false: delete
\*   transmit  the result is ignored: Receive
\*   receive   bytes: the reader uses them and asks for more, unless they end
\*             the text; nothing: the reader is at its end
Return(o, result) ==
  \/ /\ o = "connect"
     /\ op' = IF result THEN "transmit" ELSE op
     /\ pc' = IF result THEN "begin" ELSE "delete"
  \/ /\ o = "transmit"
     /\ op' = "receive"
     /\ pc' = "begin"
  \/ /\ o = "receive"
     /\ op' = op
     /\ pc' \in IF ~result THEN {"delete"}
                ELSE IF callback THEN {"begin"} ELSE {"begin", "delete"}

\* The reader gets n bytes; enough of them are counted to see one too many.
HandOn(n) == delivered' = IF delivered > MaxBytes + Request THEN delivered ELSE delivered + n

CloseEvent(t) == token' = [token EXCEPT ![t].event = "closed"]

\* The counter is up and nobody will count it down.
Leak(kind) == leaked' = TRUE /\ odd' = odd \cup {kind}

\* Every operation counts up before it makes the event, as Receive does.
BeginFails_Bug ==
  /\ Start
  /\ odd' = odd \cup {"refused"}
  /\ leaked' = (leaked \/ op = "receive")

\* The event cannot be created.  Receive has counted up before it tries, and
\* the others have not.
BeginFails ==
  IF op = "receive"
  THEN Start /\ Leak("refused")
  ELSE /\ odd' = odd \cup {"refused"}
       /\ UNCHANGED <<TCPEventStatus, leaked>>

\* Child is there and not Closed: the token is cleared, the event is made.
Begin ==
  /\ pc = "begin"
  /\ ~(op = "receive" /\ Closed)
  /\ Counter' = 0
  /\ fragment' = IF op = "receive" THEN Request ELSE fragment
  /\ received' = 0
  /\ \/ /\ token' = [token EXCEPT ![TokenOf(op)] = [status |-> "ok", event |-> "open"]]
        /\ Start
        /\ pc' = "call"
        /\ UNCHANGED <<op, leaked, odd>>
     \/ /\ token' = [token EXCEPT ![TokenOf(op)] = NoToken]
        /\ BeginFails
        /\ Return(op, FALSE)
  /\ UNCHANGED <<console, callback, pending, Closed, network, delivered>>

\* A Receive on a closed socket.
BeginClosed ==
  /\ pc = "begin"
  /\ op = "receive" /\ Closed
  /\ Return(op, FALSE)
  /\ UNCHANGED <<console, TCPEventStatus, callback, token, pending, Counter, Closed,
                 buffer, network, history>>

\* The firmware takes the request ...
Call ==
  /\ pc = "call"
  /\ pending' = pending \cup {op}
  /\ pc' = "test"
  /\ UNCHANGED <<console, TCPEventStatus, op, callback, token, Counter, Closed,
                 buffer, network, history>>

\* ... or refuses it.
Refused ==
  /\ pc = "call"
  /\ CloseEvent(TokenOf(op))
  /\ Leak("refused")
  /\ Return(op, FALSE)
  /\ UNCHANGED <<console, TCPEventStatus, callback, pending, Counter, Closed,
                 buffer, network, delivered>>

\* Receive finds that the peer has closed and nothing is left; it returns
\* FragmentLength, which nobody has changed.
CallFin ==
  /\ pc = "call" /\ op = "receive"
  /\ fin /\ inbox = 0
  /\ CloseEvent("iotoken")
  /\ Closed' = TRUE
  /\ HandOn(fragment)
  /\ leaked' = TRUE
  /\ odd' = odd \cup {"fin"}
  /\ Return(op, fragment > 0)
  /\ UNCHANGED <<console, TCPEventStatus, callback, pending, Counter, buffer, network>>

\* while (TCPCompletionTokenEventRunning())
Test ==
  /\ pc = "test"
  /\ pc' = IF TCPEventStatus > 0 THEN "poll" ELSE "leave"
  /\ UNCHANGED <<console, TCPEventStatus, op, callback, token, pending, Counter, Closed,
                 buffer, network, history>>

Poll ==
  /\ pc = "poll"
  /\ pc' = "check"
  /\ UNCHANGED <<console, TCPEventStatus, op, callback, token, pending, Counter, Closed,
                 buffer, network, history>>

\* Leaves the event of the token open.
PollFails_Bug ==
  /\ pc = "poll"
  /\ Leak("poll")
  /\ Return(op, FALSE)
  /\ UNCHANGED <<console, TCPEventStatus, callback, token, pending, Counter, Closed,
                 buffer, network, delivered>>

PollFails ==
  /\ pc = "poll"
  /\ CloseEvent(TokenOf(op))
  /\ Leak("poll")
  /\ Return(op, FALSE)
  /\ UNCHANGED <<console, TCPEventStatus, callback, pending, Counter, Closed,
                 buffer, network, delivered>>

\* Receive gives up: a fragment that is still as long as it was asked for is
\* taken for one that nobody has filled.  The wrong version leaves the socket open.
GiveUp_Bug ==
  IF op = "receive"
  THEN fragment' = (IF fragment = Request THEN 0 ELSE fragment) /\ UNCHANGED Closed
  ELSE UNCHANGED <<Closed, fragment>>

GiveUp ==
  IF op = "receive"
  THEN /\ fragment' = IF fragment = Request THEN 0 ELSE fragment
       /\ Closed' = TRUE
  ELSE UNCHANGED <<Closed, fragment>>

\* The end of an iteration.
CheckError ==
  /\ pc = "check"
  /\ token[TokenOf(op)].status = "error"
  /\ TCPEventStatus' = Finished
  /\ GiveUp
  /\ pc' = "test"
  /\ UNCHANGED <<console, op, callback, token, pending, Counter, received, network,
                 history>>

\* Waits for as long as there is no answer.
CheckTries_Bug ==
  /\ pc = "check"
  /\ token[TokenOf(op)].status # "error"
  /\ pc' = "test"
  /\ UNCHANGED <<console, TCPEventStatus, op, callback, token, pending, Counter, Closed,
                 buffer, network, history>>

CheckTries ==
  /\ pc = "check"
  /\ token[TokenOf(op)].status # "error"
  /\ Counter' = Counter + 1
  /\ IF Counter + 1 > MaxTries
     THEN TCPEventStatus' = Finished /\ GiveUp /\ odd' = odd \cup {"timeout"}
     ELSE UNCHANGED <<TCPEventStatus, Closed, fragment, odd>>
  /\ pc' = "test"
  /\ UNCHANGED <<console, op, callback, token, pending, received, network, delivered,
                 leaked>>

\* What Receive makes of the token; the wrong versions do not look at its
\* status, and return the length that was asked for.
Length_Bug == fragment
Length_RequestBug == IF token["iotoken"].status = "error" THEN 0 ELSE Request
Length == IF token["iotoken"].status = "error" THEN 0 ELSE fragment

\* The loop is over: only Receive asks for the status of the token.
Leave ==
  /\ pc = "leave"
  /\ CloseEvent(TokenOf(op))
  /\ IF op = "receive"
     THEN HandOn(Length) /\ Return(op, Length > 0)
     ELSE Return(op, TRUE) /\ UNCHANGED delivered
  /\ leaked' = FALSE
  /\ UNCHANGED <<console, TCPEventStatus, callback, pending, Counter, Closed,
                 buffer, network, odd>>

-------------------------------------------------------------------------------
(* The console commands.                                                    *)

\* A command makes its socket; the firmware may have no child for it.
StartCommand ==
  /\ main = "idle"
  /\ commands < MaxCommands
  /\ commands' = commands + 1
  /\ op' = "connect"
  /\ Fresh
  /\ \/ /\ main' = "connect"
        /\ pc' \in {"configure", "delete"}
        /\ UNCHANGED TCPAcceptStatus
     \/ /\ TCPAcceptStatus' = 0
        /\ \/ main' = "accept" /\ pc' = "configure"
           \/ main' = "key" /\ pc' = "none"
  /\ UNCHANGED <<TCPEventStatus, listening, callback, leaked>>

\* The socket is configured, at once or when its address is there, or access
\* is denied.  Connect goes on to its token; Accept asks to be told of a
\* connection, and its result is ignored.
Configured ==
  \/ /\ main = "connect"
     /\ pc' \in {"begin", "delete"}
     /\ UNCHANGED <<main, listening>>
  \/ /\ main = "accept"
     /\ main' = "key"
     /\ pc' = "none"
     /\ listening' \in BOOLEAN

Configure ==
  /\ pc = "configure"
  /\ \/ Configured
     \/ pc' = "mapping" /\ UNCHANGED <<main, listening>>
  /\ UNCHANGED <<commands, TCPEventStatus, TCPAcceptStatus, op, callback, token, pending,
                 Counter, Closed, buffer, network, history>>

\* The address is not there yet, or it is.
WaitForMapping ==
  /\ pc = "mapping"
  /\ UNCHANGED <<commands, TCPEventStatus, TCPAcceptStatus, op, callback, token, pending,
                 Counter, Closed, buffer, network, history>>
  /\ \/ Configured
     \/ UNCHANGED <<main, listening, pc>>

\* Press any key to quit.
Key ==
  /\ main = "key" /\ ~callback
  /\ main' = "spin"
  /\ UNCHANGED <<commands, TCPEventStatus, TCPAcceptStatus, listening, pc, op, callback,
                 token, pending, Counter, Closed, buffer, network, history>>

\* while (!TCPAcceptStatus)
Spin ==
  /\ main = "spin" /\ ~callback
  /\ TCPAcceptStatus = 0
  /\ UNCHANGED vars

EndAccept ==
  /\ main = "spin" /\ ~callback
  /\ TCPAcceptStatus = 1
  /\ main' = "idle"
  /\ listening' = FALSE
  /\ UNCHANGED <<commands, TCPEventStatus, TCPAcceptStatus, pc, op, callback, token,
                 pending, Counter, Closed, buffer, network, history>>

\* The accept token is signalled.  On an error nothing more happens; otherwise
\* the notification makes a socket and reads all of the connection.
Accepted ==
  /\ listening
  /\ main \in {"key", "spin"}
  /\ listening' = FALSE
  /\ \/ /\ callback' = TRUE
        /\ op' = "receive"
        /\ pc' = "begin"
        /\ Fresh
     \/ UNCHANGED <<callback, op, pc, token, pending, Counter, Closed, buffer, network,
                    delivered, odd>>
  /\ UNCHANGED <<main, commands, TCPEventStatus, TCPAcceptStatus, leaked>>

\* The command, or the notification, deletes its socket.  That of a connection
\* that was accepted has Handle cleared and does not destroy the child: a request
\* that was given up stays with the firmware.
Delete ==
  /\ pc = "delete"
  /\ pc' = "none"
  /\ pending' = IF callback THEN pending ELSE {}
  /\ IF callback
     THEN TCPAcceptStatus' = 1 /\ callback' = FALSE /\ UNCHANGED main
     ELSE main' = "idle" /\ UNCHANGED <<TCPAcceptStatus, callback>>
  /\ UNCHANGED <<commands, TCPEventStatus, listening, op, token, Counter, Closed, buffer,
                 network, history>>

\* The prompt, when no more commands are wanted.
Prompt ==
  /\ main = "idle"
  /\ commands = MaxCommands
  /\ UNCHANGED vars

-------------------------------------------------------------------------------

Firmware == Arrive \/ PeerCloses \/ Accepted \/ \E o \in Ops : Complete(o)

Operation ==
  \/ Begin \/ BeginClosed \/ Call \/ Refused \/ CallFin
  \/ Test \/ Poll \/ PollFails \/ CheckError \/ CheckTries \/ Leave

Program ==
  \/ Operation \/ StartCommand \/ Configure \/ WaitForMapping
  \/ Spin \/ EndAccept \/ Delete \/ Prompt

Next == Firmware \/ Program \/ Key

Spec == Init /\ [][Next]_vars

\* The processor goes on with the operation it is in; the firmware, the peer
\* and the user owe it nothing.
FairSpec == Spec /\ WF_vars(Operation \/ EndAccept \/ Delete)

-------------------------------------------------------------------------------
(* Properties.                                                              *)

Waiting == {"test", "poll", "check", "leave"}
Tokens == [status : {"ok", "error"}, event : {"none", "open", "closed"}]

\* The variables have their types; a notification reads only while the accept
\* command waits, an operation is there exactly when a command or the
\* notification runs one, and a fragment is never longer than the buffer it
\* was given (Receive passes BufferSize, which is ReaderBufferSize - 32).
TypeOK ==
  /\ main \in {"idle", "connect", "accept", "key", "spin"}
  /\ commands \in 0 .. MaxCommands
  /\ TCPEventStatus \in Nat
  /\ TCPAcceptStatus \in 0 .. 1
  /\ listening \in BOOLEAN
  /\ pc \in {"none", "configure", "mapping", "begin", "call", "delete"} \cup Waiting
  /\ op \in Ops
  /\ callback \in BOOLEAN
  /\ token \in [{"token", "iotoken"} -> Tokens]
  /\ pending \subseteq Ops
  /\ Counter \in Nat
  /\ Closed \in BOOLEAN
  /\ fragment \in 0 .. Request /\ received \in 0 .. Request
  /\ inbox \in 0 .. MaxBytes /\ sent \in 0 .. MaxBytes /\ inbox <= sent
  /\ fin \in BOOLEAN
  /\ delivered \in Nat
  /\ leaked \in BOOLEAN
  /\ odd \subseteq Trouble
  /\ callback => main \in {"key", "spin"} /\ op = "receive"
  /\ (pc = "none") <=> (main = "idle" \/ (main \in {"key", "spin"} /\ ~callback))

\* TCPEventStatus counts the operation that runs and nothing else, unless an
\* operation has left it up and no later one has waited it down: an operation
\* that starts on a counter above zero runs to its time limit even when its
\* answer came at once (lsocket.cpp:15-31, shared by all sockets).
CounterIsOperation ==
  ~leaked => /\ TCPEventStatus <= (IF pc \in {"call"} \cup Waiting THEN 1 ELSE 0)
             /\ pc = "call" /\ "late" \notin odd => TCPEventStatus = 1

\* The event of a token is open only while its own operation runs: every return
\* of Connect, Transmit and Receive has closed it, so that no notification can
\* come for a socket that is deleted.
EventsClosed ==
  \A t \in {"token", "iotoken"} :
    token[t].event = "open" => pc \in {"call"} \cup Waiting /\ t = TokenOf(op)

\* A Receive hands its reader exactly the bytes the firmware put into the
\* buffer; but it hands on none of them after an error or a timeout that found
\* the fragment full, and after an immediate FIN, or when a late answer to a
\* Transmit ends its wait, it hands on bytes nobody received.
DeliversWhatCame ==
  [][ \/ delivered' \in {delivered, 0}
      \/ delivered' = delivered + received
      \/ odd' \cap {"fin", "late"} # {} ]_vars

\* No byte is lost or made up between the peer and the reader of a connect as
\* long as nothing goes wrong: what the peer has sent was delivered, is in the
\* fragment of the Receive that runs, or still waits in the firmware.
Conserved ==
  odd = {} =>
    sent = inbox + delivered +
           (IF op = "receive" /\ pc \in {"call"} \cup Waiting THEN received ELSE 0)

\* A connection that was accepted is read in a notification, where the
\* notification of the token waits: its first Receive runs to the time limit
\* and closes the socket (lsocket.hpp:481-491), so that however much the peer
\* sends no more than one fragment of it is shown.
AcceptShowsOneFragment ==
  callback /\ odd \cap {"fin", "late"} = {} => delivered <= Request

(***************************************************************************)
(* Connect, Transmit and Receive end, each of them, whatever the firmware, *)
(* the peer and the user do: the wait is bounded by SOCKET_MAX_TRIES polls,*)
(* also when the counter was left up.  The command or the notification     *)
(* they are part of ends, too, unless the peer never stops sending: the    *)
(* loop that shows a page (main.cpp:452-470) has no limit of its own.      *)
(***************************************************************************)
InOperation == pc \in {"call"} \cup Waiting

OperationsEnd ==
  /\ InOperation ~> ~InOperation
  /\ (pc = "begin" ~> pc = "none") \/ []<><<Arrive>>_vars

\* What accept tells the user (main.cpp:493): "Press any key to quit."  After
\* a key was pressed the command comes to its end.
PressAnyKeyQuits == main = "spin" ~> main = "idle"
===============================================================================
