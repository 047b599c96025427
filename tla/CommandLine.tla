------------------------------ MODULE CommandLine -----------------------------
(***************************************************************************)
(* How a command gets its arguments.  ConsoleMode (src/main.cpp) fills the *)
(* one buffer szLine from the keyboard (Input, gnu-efi lib/console.c) or   *)
(* from a batch file (ReadLine, src/src/lreader.hpp), and every command    *)
(* finds its arguments in the buffer by position: cp, mv and addline write *)
(* terminators over spaces and look behind the first one; connect reads    *)
(* numbers with one character behind each.  Nothing clears the buffer      *)
(* between two lines.                                                      *)
(*                                                                         *)
(* The name of a command is one character here, whatever its length.       *)
(*                                                                         *)
(* Operators with a name in _Bug are wrong versions of the one that        *)
(* follows; nothing uses them.                                             *)
(***************************************************************************)
EXTENDS Integers, Sequences

CONSTANTS
  MAX_PATH,   \* characters of szLine (256 in the code)
  Letters,    \* the characters of arguments
  Octets,     \* numbers of an address (4 in the code)
  Fresh,      \* characters that memory may be full of before it is used
  FileLines,  \* external: lines of batch files, as sequences of characters
  MaxLines    \* bound on the lines taken one after the other

\* Commands that cut at the first space, at every space, nowhere, and into numbers.
Op == {"cp", "mv", "cd", "connect"}

Space == "space"
CR == "cr"
NUL == "nul"

Dot == "dot"
Digit == [c \in {"0", "1", "2"} |-> CASE c = "0" -> 0 [] c = "1" -> 1 [] c = "2" -> 2]

Char == Op \cup Letters \cup DOMAIN Digit \cup {Space, CR, Dot}

ASSUME LineAssumption ==
  /\ MAX_PATH \in Nat /\ MAX_PATH > 2
  /\ Octets \in Nat /\ Octets > 0
  /\ FileLines \subseteq Seq(Char)
  /\ NUL \notin Char
  /\ Fresh \subseteq Char \cup {NUL}
  /\ MaxLines \in Nat

VARIABLES
  szLine,    \* the buffer, from szLine[0]
  len,      \* Len of IInput: where the next key goes
  lineAt,    \* prompt, keys, command, or lost behind the end of the buffer
  words,     \* the arguments of the last command
  RemoteAddress, \* where connect goes
  RemotePort,
  lines,     \* history: lines taken
  entered,   \* history: what the user or the file meant the line to be
  underflow  \* history: ReadLine found a CR in front of the buffer

line == <<szLine, len, lineAt, words, RemoteAddress, RemotePort, lines, entered, underflow>>
remote == <<RemoteAddress, RemotePort>>

Index == 0 .. MAX_PATH - 1

\* The arguments of a line that has none, or whose command takes none.
None == [op |-> NUL, first |-> <<>>, second |-> <<>>]

\* new CHAR16[MAX_PATH], which is not initialised.
InitLine ==
  /\ \E c \in Fresh : szLine = [k \in Index |-> c]
  /\ len = 0
  /\ lineAt = "prompt"
  /\ words = None
  /\ RemoteAddress = [i \in 1 .. Octets |-> 0] /\ RemotePort = 80
  /\ lines = 0
  /\ entered = <<>>
  /\ underflow = FALSE

-------------------------------------------------------------------------------
(* Strings in the buffer.                                                   *)

\* Where the string at k ends: its terminator, or the end of the buffer when
\* there is none (what follows szLine is then part of it; it is left out).
End(s, k) ==
  CHOOSE e \in k .. MAX_PATH :
    /\ e = MAX_PATH \/ s[e] = NUL
    /\ \A j \in k .. e - 1 : s[j] # NUL

StrLen(s) == End(s, 0)

StringAt(s, k) == IF k >= MAX_PATH THEN <<>> ELSE [j \in 1 .. End(s, k) - k |-> s[k + j - 1]]

-------------------------------------------------------------------------------
(* Taking a line.                                                           *)

\* Input(L"$>> ", szLine, MAX_PATH)
Prompt ==
  /\ lineAt = "prompt" /\ lines < MaxLines
  /\ lineAt' = "keys"
  /\ len' = 0
  /\ entered' = <<>>
  /\ underflow' = FALSE
  /\ words' = None
  /\ UNCHANGED <<szLine, remote, lines>>

\* A key with a character, after which the string ends; keys that the buffer
\* has no room for are dropped.
Key(c) ==
  /\ lineAt = "keys" /\ len < MAX_PATH - 1
  /\ szLine' = [szLine EXCEPT ![len] = c, ![len + 1] = NUL]
  /\ len' = len + 1
  /\ entered' = Append(entered, c)
  /\ UNCHANGED <<lineAt, words, remote, lines, underflow>>

Backspace ==
  /\ lineAt = "keys" /\ len > 0
  /\ len' = len - 1
  /\ entered' = SubSeq(entered, 1, Len(entered) - 1)
  /\ UNCHANGED <<szLine, lineAt, words, remote, lines, underflow>>

\* Enter, or an error of ReadKeyStroke, which ends the line as well.
Enter_Bug ==
  /\ lineAt = "keys"
  /\ lineAt' = "command"
  /\ lines' = lines + 1
  /\ UNCHANGED <<szLine, len, words, remote, entered, underflow>>

Enter ==
  /\ lineAt = "keys"
  /\ szLine' = [szLine EXCEPT ![len] = NUL]
  /\ lineAt' = "command"
  /\ lines' = lines + 1
  /\ UNCHANGED <<len, words, remote, entered, underflow>>

WithoutCR(text) ==
  IF text # <<>> /\ text[Len(text)] = CR THEN SubSeq(text, 1, Len(text) - 1) ELSE text

\* Batch->Reader.ReadLine(szLine) of a line: its characters are stored and a CR
\* before the end is replaced.  Of an empty line the CR is looked for in the
\* memory in front of szLine, and when it is there the terminator goes there,
\* too.  A longer line than szLine is written over what follows.
ReadLine(text) ==
  /\ lineAt = "prompt" /\ lines < MaxLines
  /\ lines' = lines + 1
  /\ entered' = WithoutCR(text)
  /\ words' = None
  /\ LET stored == [k \in Index |-> IF k < Len(text) THEN text[k + 1] ELSE szLine[k]]
     IN  \/ /\ Len(text) < MAX_PATH
            /\ szLine' = [stored EXCEPT ![Len(entered')] = NUL]
            /\ lineAt' = "command" /\ underflow' = FALSE
         \/ /\ text = <<>>
            /\ lineAt' = "command" /\ underflow' = TRUE
            /\ UNCHANGED szLine
         \/ /\ Len(text) >= MAX_PATH
            /\ szLine' = stored
            /\ lineAt' = "lost" /\ underflow' = FALSE
  /\ UNCHANGED <<len, remote>>

-------------------------------------------------------------------------------
(* The arguments.                                                           *)

\* szLine + 3 of cp, mv and cd, szLine + 8 of addline: behind the name and the
\* character that follows it.
First == 2

\* The spaces of the string at First that cp, mv and addline overwrite.
Spaces(s) == {k \in First .. End(s, First) - 1 : s[k] = Space}

Cuts(s) ==
  CASE s[0] = "mv" -> Spaces(s)
    [] s[0] = "cp" -> {k \in Spaces(s) : \A j \in Spaces(s) : k <= j}
    [] OTHER -> {}

Terminated(s) == [k \in Index |-> IF k \in Cuts(s) THEN NUL ELSE s[k]]

\* Looks at the terminator for the second argument.
Second_Bug(s) == StringAt(s, StrLen(s))

\* szLine + StrLen(szLine) + 1
Second(s) == StringAt(s, StrLen(s) + 1)

\* connect: where the number at k ends, and its value.
NumberEnd(s, k) ==
  CHOOSE e \in k .. MAX_PATH :
    /\ e = MAX_PATH \/ s[e] \notin DOMAIN Digit
    /\ \A j \in k .. e - 1 : s[j] \in DOMAIN Digit

Number(s, k) ==
  LET value[n \in 0 .. NumberEnd(s, k) - k] ==
        IF n = 0 THEN 0 ELSE 10 * value[n - 1] + Digit[s[k + n - 1]]
  IN  value[NumberEnd(s, k) - k]

\* Where the numbers begin: each skips the character behind it, whatever it is,
\* also the terminator.  Behind szLine no number is looked for.
NumberAt(s) ==
  LET at[i \in 0 .. Octets] ==
        IF i = 0 THEN First
        ELSE LET e == NumberEnd(s, at[i - 1]) IN IF e < MAX_PATH THEN e + 1 ELSE MAX_PATH
  IN  at

\* The numbers of the address are bytes; without a port the last one is kept.
Connect(s) ==
  LET at == NumberAt(s)
      port == at[Octets]
  IN  /\ RemoteAddress' = [i \in 1 .. Octets |-> Number(s, at[i - 1]) % 256]
      /\ RemotePort' = IF NumberEnd(s, port) > port THEN Number(s, port) ELSE RemotePort

\* The command is carried out, if the line names one.
Command ==
  /\ lineAt = "command"
  /\ szLine' = IF szLine[0] \in Op THEN Terminated(szLine) ELSE szLine
  /\ words' = IF szLine[0] \in Op
              THEN [op |-> szLine[0], first |-> StringAt(szLine', First),
                    second |-> Second(szLine')]
              ELSE None
  /\ IF szLine[0] = "connect" THEN Connect(szLine) ELSE UNCHANGED remote
  /\ lineAt' = "prompt"
  /\ UNCHANGED <<len, lines, entered, underflow>>

\* The keys of lines that name a command; the others have no arguments.  Lines
\* with connect are read from batch files.
Keys == IF len = 0 THEN Op \ {"connect"} ELSE Letters \cup {Space}

LineStep ==
  \/ Prompt
  \/ \E c \in Keys : Key(c)
  \/ Backspace
  \/ Enter
  \/ \E text \in FileLines : ReadLine(text)
  \/ Command

LineEnds == lineAt = "lost" \/ (lineAt = "prompt" /\ lines = MaxLines)

-------------------------------------------------------------------------------
(* Properties.                                                              *)

\* The words of a text, cut at its first space or at every one.
Words(text, every) ==
  LET spaces == {k \in DOMAIN text : text[k] = Space}
      a == CHOOSE k \in spaces : \A j \in spaces : k <= j
      later == spaces \ {a}
      b == IF every /\ later # {} THEN CHOOSE k \in later : \A j \in later : k <= j
           ELSE Len(text) + 1
  IN  IF spaces = {} THEN <<text>>
      ELSE <<SubSeq(text, 1, a - 1), SubSeq(text, a + 1, b - 1)>>

\* Numbers as they are written, and a line with connect.
Numerals == UNION {[1 .. n -> DOMAIN Digit] : n \in 1 .. 2}

ValueOf(numeral) ==
  IF Len(numeral) = 1 THEN Digit[numeral[1]] ELSE 10 * Digit[numeral[1]] + Digit[numeral[2]]

ConnectLine(address, port) ==
  LET text[i \in 0 .. Octets] ==
        IF i = 0 THEN <<>> ELSE text[i - 1] \o (IF i = 1 THEN <<>> ELSE <<Dot>>) \o address[i]
  IN  <<"connect", Space>> \o text[Octets] \o (IF port = <<>> THEN <<>> ELSE <<Space>> \o port)

\* connect goes to the address it was given, and to the port if it was given one.
ConnectsAsEntered ==
  words.op = "connect" =>
    \A address \in [1 .. Octets -> Numerals], port \in Numerals \cup {<<>>} :
      entered = ConnectLine(address, port) =>
        /\ RemoteAddress = [i \in 1 .. Octets |-> ValueOf(address[i])]
        /\ port # <<>> => RemotePort = ValueOf(port)

\* A command has the arguments that were entered last, whatever was entered,
\* taken back or cut before, and whether they were typed or read from a batch
\* file; an empty line is no command.  Only a second argument that was not
\* entered, a port that was not, and an empty line behind a CR come from somewhere
\* else.
ArgumentsAsEntered ==
  /\ words.op # NUL /\ ~underflow => entered # <<>> /\ words.op = entered[1]
  /\ words.op # NUL /\ Len(entered) >= First =>
       LET meant == SubSeq(entered, First + 1, Len(entered))
           cut == IF words.op \in {"cd", "connect"} THEN <<meant>> ELSE Words(meant, words.op = "mv")
       IN  /\ words.first = cut[1]
           /\ Len(cut) = 2 => words.second = cut[2]
  /\ ConnectsAsEntered
===============================================================================
