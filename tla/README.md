# LavoroL in TLA+

LavoroL is a small operating system that runs as one UEFI application: a file
browser (screen mode), a console with file and network commands, and a few demo
programs.  This directory models its control: the task queue, the buffered
readers, the commands that change files, the TCP sockets, the file browser and
the console loop by turns, the command line, the viewer, the fonts and the demo
programs.  TLC checks the models on small instances, and TLAPS proves theorems
about the task queue, the reader, the file commands, the sockets, the file browser,
the nested batch files, the command line, the viewer, the fonts, Box and AntTSP for
every value of their constants.

    tlc -config MCLTask.cfg MCLTask            # one run; see "The runs"
    tlapm LTaskProofs.tla                      # the proofs of one module

Paths below are relative to the repository (`src/...` is the program's own
source directory, `main.cpp` lies above it).

## 1. Inventory

There is one processor and one thread.  What interleaves with it are firmware
notifications (functions that run when an event is signalled, at TPL_CALLBACK),
the firmware's network driver, the peer, the user, and power cuts; what recurs
is DoEvents, which a task can reach again from its own Run.

| component | state | operations | interacts with | correct when |
|---|---|---|---|---|
| Task queue (`src/ltask.hpp`, `ltask.cpp`) | `TaskQueue`, `Left`, `Right`, `Priority` of each task | `AddTask`, `DoEvents`, `Enqueue`, `Dequeue`, `IsRunning` | every polling loop of LSocket calls `DoEvents`; a task's `Run` may poll a socket | linked both ways; each task runs once and is deleted after it ran; the queue drains |
| Byte reader (`src/lreader.hpp`) | `buffer`, `size`, `current`, `IsText` | `Next`, `Current`, `Read`, `ReadLine`, `Reset` | `LFileReader`, `LSocketReader` fill it | the client gets the bytes of the device, each once and in order |
| Byte writer (`src/lwriter.hpp`) | `buffer`, `current` | `Write`, `Flush`, `Reset` | `LFileWriter`, `LSocketWriter` | nothing lost or doubled at a flush |
| File object (`src/lfile.hpp`, `lfile.cpp`) | the firmware handle | open, `SetPosition`, `Delete`, close | the firmware's file system | see the commands |
| File commands (`main.cpp` 547-742) | the volume | `rm`, `cp`, `mv`, `addline`, `mkdir`, `cat`, `ls` | reader, writer, file object | no command loses data it was not asked to delete |
| TCP sockets (`src/lsocket.hpp`, `lsocket.cpp`) | `TCPEventStatus` (one counter for all sockets), `TCPAcceptStatus`, two tokens, `Closed` | `Connect`, `Transmit`, `Receive`, `Accept`, the two notifications | the commands `connect` and `accept` | every operation ends; the counter counts what is outstanding; the reader gets what was received |
| Explorer, screen mode (`main.cpp` 777-1231) | page, active index, entries, `FileInterface`, `szCurrentPath` | keys | volumes, bitmaps, fonts | the index names an entry; the path belongs to the volume |
| Command line (`main.cpp` 280-770, `Input` of gnu-efi's `lib/console.c`, `ReadLine`) | `szLine`, never cleared | a line typed or read; the cutting of arguments | console | a command has the arguments that were entered |
| Console and main loop (`main.cpp` 280-775, 1236-1289) | `szLine`, `szPath`, the batch file | the command loop, nested `batch`, `end`, `quit`, F12 | all of the above | quit quits; a batch ends |
| Volumes (`src/lfs.cpp`) | `FileInterfaces`, `AssetsFileInterface` | start-up only | explorer, file object | |
| Screens and bitmaps (`src/lscreen.*`, `lbitmap.hpp`) | pixel buffers | `GetBuffer`, `SetBuffer`, `Fill`, `Scale`, `Draw`, load | explorer | a picture is shown whole, in its place and without holes |
| Fonts (`src/lfont.*`) | the glyphs, the place of the next one | `LoadBitmap`, `DrawText` | explorer | each character is one glyph; no glyph over another |
| Box, Pyramids, AntTSP (`src/packages`) | `e`, `p`; the static `P`, `R`; the ants | one main each | console | the result is the one defined |
| Graphics demos (`filldemo`, `printmodes` in `main.cpp`) | | draw, print | console | |
| gnu-efi, `elf.h` | | vendored | | not part of the program |

Hard behaviour, and what is hard to test about it, is listed line by line under
"hazards" in `PROJECT.json`.  The main ones: DoEvents nested in a task; one
counter shared by every socket operation and counted down by notifications and
by the loop that waits for them; tokens completed after the program has given
up; reads of a notification during which no other notification runs; reads and
writes that fail in the middle of `mv`; bytes at the seam of two reads.

## 2. Modules

| module | models | built on |
|---|---|---|
| `TaskSchedule` | abstract: what AddTask and DoEvents promise, with a sequence and no pointers | |
| `LTask` | the task queue, pointer by pointer | |
| `LTaskQueue` | the linked list as a sequence (`Chain`), and the refinement mapping `Schedule` from LTask to TaskSchedule | LTask, TaskSchedule |
| `MCLTask` | instances | LTaskQueue |
| `LTaskProofs` | theorems about LTask and LTaskQueue, the refinement included | LTaskQueue |
| `LReader` | LReader with both ReadBuffers, under the reading loops of the program | |
| `MCLReader` | instance | LReader |
| `LReaderProofs` | theorems about LReader | LReader |
| `ShellFiles` | rm, cp, mv, addline with LFile, LFileReader, LFileWriter and the volume | the reader as the byte stream that LReader shows it to be |
| `MCShellFiles` | instances | ShellFiles |
| `ShellFilesProofs` | theorems about ShellFiles | ShellFiles |
| `LSocket` | the sockets, their notifications, and the commands connect and accept | the reader's requests as LReader makes them |
| `MCLSocket` | instances | LSocket |
| `LSocketProofs` | theorems about LSocket | LSocket |
| `Volumes` | the volume in use, the current path and the mode, shared by the next two | |
| `Explorer` | screen mode: pages, keys, the directory loop and its arrays | Volumes |
| `Console` | console mode: lines, cd, ls, cat, nested batch files, quit, end | Volumes |
| `Desktop` | efi_main: the two modes by turns | Explorer, Console |
| `BatchMeaning` | what a line of the console means, nested batch files included | Desktop |
| `DesktopProofs` | theorems about Desktop and BatchMeaning | BatchMeaning |
| `MCDesktop` | three volumes, batch files and lines | BatchMeaning |
| `CommandLine` | szLine: Input and ReadLine fill it, the commands cut it | |
| `Box` | the search for a box and its table of edges | |
| `Pyramids` | the recursion with its static tables, call by call | |
| `AcmProofs` | theorems about Box and Pyramids | Box, Pyramids |
| `AntTSP` | rounds, walks and scores of the ants | |
| `ToolsProofs` | theorems about CommandLine and AntTSP | CommandLine, AntTSP |
| `Screens` | pixel buffers: GetBuffer, SetBuffer, Scale, Draw, as operators | |
| `Viewer` | how a .bmp file is loaded, scaled and placed | Screens |
| `Fonts` | LoadBitmap cuts glyphs, DrawText places them | |
| `GraphicsProofs` | theorems about Fonts and Viewer | Fonts, Viewer |
| `MCTools` | instance: one of CommandLine, Box, Pyramids, AntTSP, Viewer and Fonts at work | those |

An operator whose name ends in `_Bug` (or `_...Bug`) is a wrong version of the
definition that follows it.  No run uses one; put in the place of the definition
it breaks the property named for it under "mutants" in `PROJECT.json`, which
shows that the property depends on the code.

### LTask

`TaskQueue`, `Left`, `Right` and `Priority` are the fields of the code; `live`
is the set of addresses that hold a constructed task.  An address that was
deleted may be handed out again, as an allocator does.  `frames` is the stack of
active DoEvents calls, the innermost first, each with its locals (`i`, the
cursor, `selectedTask`).  `Construct` and `AddTask` are what a client does,
outside DoEvents or inside a `Run`; `Call`, `Scan` (one iteration of the loop),
`EnterRun`, `Nothing` and `FinishRun` (Dequeue and delete) are DoEvents.  A use
of a deleted task sets `fault` and stops the model: what happens after is
undefined in C++.  `stolen` remembers that a call deleted a task an outer call
still holds.

The repository has no subclass of LTask and no caller of AddTask, so the clients
are external: any client that adds live tasks only, at any moment the program
runs.  `MaxDepth` bounds the nesting; 1 stands for bodies that wait on no socket.

`LTaskQueue` reads the pointers as a sequence: `Chain` follows Right from
TaskQueue to NULL.  It is what the mapping gives TaskSchedule for its queue, and
IsRunningMeansQueued says that the tasks in it are those whose IsRunning is true.

### LReader

The reader is a record of its fields; the methods are operators on it, with the
recursion of Next and Current unfolded (`NextByte`, `AfterCurrent`, `Filled`,
`Settled`).  `pos` is the device's position, `client` says which device, whether
SetText was called, and which of the program's four loops reads.  A file returns
as much as it has and was asked for, a connection any number of bytes that
arrived; each call may fail.  The buffer starts with any bytes, because the code
does not initialise it.

### ShellFiles

One command runs, from any volume with two paths.  `pc` follows the code: open,
open the copy, the Next() before the loop, the loop, flush, delete, destructors.
Every open, read, write, delete and seek may fail, and a write may be short.
The reader is a sequence of bytes that were read and not delivered, which LReader
justifies (GetsPrefix, GetsAll); the writer has its buffer and flushes when it is
full.  A CHAR16 is written as its low byte.  A handle that is NULL halts the
program where the code dereferences it.

A power cut may come in any state.  What it leaves is `images`, not `fs`: a
firmware may keep what Open, Write and Delete give it in memory and write it to
the disk when it likes, one path before another, and only Close of a handle (or
Flush, which the program never calls, `lfile.cpp:45`) makes it do so.  So each path
has the set of all contents it had since its handle was last closed: `Cached` adds
to it, `WrittenBack` is the Close in the destructors.  That Close writes
everything back is what UEFI promises.  Half of one Write on the disk and damage to
the file system itself are not modelled.
MoveKeepsData says what follows: between the Delete of the source
(`main.cpp:674`) and the Close of the copy (`main.cpp:678`), where `pc` is
`close`, a power cut can lose both files with such a firmware, and at no other
moment.

### LSocket

`pc` and `op` follow one operation at a time: `begin` (the token is cleared and
the event made), `call` (the firmware takes or refuses it), `test`, `poll` and
`check` (the loop), `leave`.  `Return` says what the caller does next.  The
firmware is external: `Complete` answers a request it holds at any moment, also
one the program has given up, writes the token and signals the event the token
names *now*; `Signal` counts TCPEventStatus down unless the event is closed or
the program is itself inside a notification (`callback`), where an event of the
same level waits.  `Accepted` is the accept notification; it makes a socket of
its own and reads it to the end.  `StartCommand`, `Configure`, `WaitForMapping`,
`Key`, `Spin`, `EndAccept` and `Delete` are the commands connect and accept.
The socket that accept made has no Handle any more when it is deleted
(`main.cpp:122`), so its child is not destroyed and the firmware keeps a request
that had timed out.  `Leave` closes the event and leaves out that CloseEvent
fails (`lsocket.hpp:320`, `392`, `506`): UEFI's CloseEvent always succeeds.
`Arrive` has no end: a peer may send for ever, and `MaxBytes` is how much of it
waits in the firmware at a time and how much is counted (`many` says that the
counting has stopped).
`odd`, `leaked` and `delivered` are history variables: they are never read by
the program.

### Volumes, Explorer, Console, Desktop

`mode` says which of ScreenMode and ConsoleMode runs; `off` is the end of
efi_main, `halted` a use of a NULL handle, of memory outside an array, or of a
stack that is full, and `reading` a loop over a directory read that fails each
time.  `Listing` is the file system: the entries of each folder.  A path is a
sequence of names, the root the empty one.

Explorer has the locals of ScreenMode.  `pc` is `draw` (the top of the loop),
`list` (the directory loop, an entry a step) or `key`; one action per group of
keys.  `stale` remembers that an index off the list was used; after that the
names may be anything, and the model lets an index before the arrays give any
volume, the viewer or a halt.  A read of the directory that fails is tried for
ever (`reading`), the one that would find its end included (`ListEndFails`).
The viewer page is drawn anew only when a file is active; with a folder active, or
no volume in use, the code shows again what it showed last (`KeepsViewer`,
`main.cpp:1042-1044` and `1100-1102`), which can be a file of another folder or volume.
ShowsActive is about the first case, and says of the second only that it is a file.

Console keeps the calls of ConsoleMode as a stack of the lines left to each.
`CarryOut` is the if-chain, `Check` the end of the loop body, `Returns` what
becomes of the value of a call.  `CutLine` is a read of the batch file that
fails: the rest of the file is lost, and what was read of the line, here any
line, is carried out.  `log` is a history variable for the comparison with
`Meaning` of BatchMeaning, a recursive function that says what a line means
without a stack.

Each module leaves the other one's locals alone; Desktop joins them over the
variables of Volumes.  The keys that ReadKeyStroke may repeat when it fails (its
status is not looked at) are among the keys that may come at any time.

### CommandLine

`szLine` is the buffer with its fixed length, `Key`, `Backspace` and `Enter` are
Input, `ReadLine` is the reader's, and `Command` is what the branches of
ConsoleMode do with the buffer: `Terminated` writes the terminators over spaces,
`Second` looks behind the first one, `Connect` reads the numbers, each of which
skips one character.  Nothing clears the buffer, so what an argument is may come
from an earlier line; that is what ArgumentsAsEntered is about.  The name of a
command is one character, whatever its length, and the characters of arguments
are members of a small set.  ReadLine of a line longer than the buffer ends the
model (`lost`): the code writes over what follows.

### Box, Pyramids, AntTSP

`Place`, `Fits` and `Return` are the calls and returns of `box`, and `Check` is
`check` for one way of turning the rectangles; `Table` is the table of the code.
`F` of Pyramids begins a call of `F`, on the stack `calls`: it knows its result, or it
marks the interval in `P` and begins its loop.  A step is what the code does between
two calls: `Evaluate` takes one of the three operands of the sum (the result so far
and two calls) in any order, as C++ leaves the order to the compiler; `Add` and
`Skip` go on with the next place, `GiveBack` returns.  `Walks` is what is counted, from
the problem and not from the program: an ordered tree is the depths of its nodes
along the walk around it, which go down or up by one and have the same character
wherever the walk is at the same node.  `Room` is the length of S, 400 in the code,
and `Modulus` 1000000000; results stay below it and their products in 64 bits, so
neither `%` nor `ll_t` needs a width.  MarkNum is an int, one
more for each line; that it overflows after 2^31 lines is not modelled.  In AntTSP the ants take turns: `Walk`
and `Stay` are `next` and `step` of one ant, `Turn` the end of a turn, `Score`
and `Round` what the main loop does with the walks.  Pheromone and distance are
floating-point numbers; an ant may go to any city it has not been in, which
includes the one that the code chooses.

### Screens, Viewer, Fonts

A screen is a record of its width, height and buffer; `PlaceOf` is the place of
a pixel, and the comparison of SetBuffer with the length of the buffer, and
nothing else, keeps pixels inside.  A pixel of the viewer is the place in the
picture it comes from, so that PictureShown can say which one should be where.
`InFile` is how a .bmp file has its pixels and `PixelRead` how the program reads
them; they differ when rows are padded.  A file is assumed to have 24 bits a pixel
and its last row first: the code does not look at BitsPerPixel (`lbitmap.hpp:26`) or the sign
of the height, and the pictures of the repository are of that kind.  A picture of a font is the columns it
has ink in, which is all that LoadBitmap looks at; a glyph is a width and a
height, which is all that the places of DrawText depend on.

## 3. The runs

| run | configuration | shows |
|---|---|---|
| `ltask` | `MCLTask.cfg` | 3 tasks, 2 priorities, window 2, no nesting: IsRunningMeansQueued, RunsOnce; implements TaskSchedule; Drains |
| `ltask_nested` | `MCLTaskNested.cfg` | the same with nesting of 2: LinkedUntilFault, FaultOnlyByReentry. The fault is reachable: a nested DoEvents selects the task that runs |
| `lreader` | `MCLReader.cfg` | all data of up to 5 bytes over null, newline and a letter, a buffer of 4, file reads of 3 and socket reads of up to 2: Window, GetsPrefix, GetsAll |
| `shell_files` | `MCShellFiles.cfg` | files of up to 4 bytes, reads of 2, a writer of 3: CopyKeepsSource, MoveKeepsData, CopiesExactly, AppendKeeps, AppendsExactly, Ends |
| `shell_move` | `MCShellMove.cfg` | **violated**: MoveNeverLosesFile (a failed read, and mv deletes the source) |
| `shell_copy` | `MCShellCopy.cfg` | **violated**: CopyIsEqual (cp onto a longer file keeps its tail) |
| `lsocket` | `MCLSocket.cfg` | two commands, requests of 2 bytes, a peer that may send for ever and 3 of its bytes counted, a limit of 1 poll: CounterIsOperation, EventsClosed, DeliversWhatCame, Conserved, AcceptShowsOneFragment, OperationsEnd |
| `accept_key` | `MCLSocketKey.cfg` | **violated**: PressAnyKeyQuits (after the key, accept waits for a connection) |
| `desktop` | `MCDesktop.cfg` | three volumes, one of them empty, folders two deep, arrays of 3, nesting of 3: ListIsFolder, PathExists, ShowsActive, ScreenFailsOnlyBy, BatchInOrder, ComesBack |
| `tools` | `MCTools.cfg` | the parts that share no state, one in each behaviour: ArgumentsAsEntered, BoxDecides, CountsTrees, KeepsShortest, AntsComeBack, PictureShown, GlyphsCutApart, GlyphsDrawnApart |
| `desktop_quit` | `MCDesktopQuit.cfg` | **violated**: QuitQuits (quit in a batch file ends that file only) |
| `desktop_ls` | `MCDesktopLs.cfg` | **violated**: LsLists (Escape in a folder of another volume, then ls) |

**Bounds.**  Three tasks and a window of two give tasks inside and outside the
window, and a head, a middle and a tail; two nested calls are what a stolen task
takes.  Data of five bytes in a buffer of four needs up to five reads and has
every position of a null byte or a newline relative to the seams.  A read size
of 2 and a writer of 3 never flush where a read ends, except at 6; files of four
bytes cross both.  A limit of one poll (40000 in the code) only shortens the
wait: a timeout is possible at every point at which it is in the code, and so is
an answer before it.  Three bytes counted are more than one request; the bytes
behind them still come and are read, so that nothing ends because of the bound.
Two commands are what it takes for a leaked counter to
reach the next one.  The folders of `MCListing` are of every kind the explorer
tells apart: longer, as long and shorter than the active index of the folder
they are entered from, empty, longer than the arrays, and with a name that does
not fit into the buffer.  On the empty volume the index stands on the number of a
volume, and Enter puts that into the path.  `MaxPath` only stops the user from typing relative
paths for ever; three calls of ConsoleMode have a batch file in a batch file.
In `tools`, a buffer of 8 characters holds the longest line that fits, one that
does not, and what an earlier line has left behind a shorter one; two lines are
enough for that.  The rectangles of `MCRectangles` are boxes of one, two and
three lengths, turned and mixed, and six that fail for one side, for one pair too
many and for all; the search goes through all orders of them.  The lines of
Pyramids are all over two letters up to four and some of five and seven, answered
two after another so that the tables of the first are those of the second; seven
equal letters are the walks of five trees, so that the remainder by a `Modulus` of 3 is
not the number itself.  An ASSUME of MCTools compares Walks with the trees themselves,
built as a label and a sequence of subtrees.  Up to
three cities, two ants and two rounds have an ant that stays, one used again, and
walks that differ with the direction.  The pictures have widths with and without
padding, the viewers are smaller and larger in each direction, and up to eight
times smaller; what is left out, a ratio of 0, needs a picture a hundred times
as large.  Nine columns of ink are all pictures of up to four characters two
columns wide.  Texts of four characters on screens of 5 and 8 columns break a
line at every place in a text.

**Fairness.**  `FairSpec` of LTask: weak fairness of DoEvents, because the
polling loops call it in every iteration and a body that returns lets it go on;
nothing is assumed of the clients.  `Spec` of ShellFiles: weak fairness of the
command's own steps (it is straight-line code; calls of the firmware return).
`FairSpec` of LSocket: weak fairness of the operation's own steps and of the
deletion of sockets; the firmware, the peer and the user owe nothing, so that
each operation ends by SOCKET_MAX_TRIES alone, which is the first half of
OperationsEnd.  The second half is about the command or the notification the
operation is part of: it ends, or the peer goes on sending for ever.  The loop
that shows a page (`main.cpp:452-470`) has no limit of its own, and a peer that
never stops keeps it going without one operation timing out.  The accept command ends only with
its notification; that is the subject of `accept_key`.  `Spec` of Desktop: weak
fairness of the drawing loop and of the batch steps, which wait for nobody; the
user owes no key and no line.  A directory read that fails for good is a step to
`reading`, so that fairness does not assume that reads succeed.  `Spec` of
MCTools: weak fairness of AntTSP once it has been started, which waits for
nobody; the other parts are not asked to end.

**Deadlock** is checked in every run but `ltask_nested` (where the model stops at
a fault, as undefined behaviour has no next state) and the two violation runs of
ShellFiles do not reach one.  `Prompt`, `Spin`, `Stopped` and `Finished` are the
places where the program really rests or loops without changing anything; `Ended` of
MCTools is the end of a part, where the program goes back to the console.

## 4. What the code does that its texts do not say

* `mv` loses the file when a read or a write of the copy fails (`shell_move`).
* `cp` onto a longer file leaves its tail (`shell_copy`).
* "Press any key to quit." does not quit accept (`accept_key`).
* `quit` in a batch file does not exit the system (`desktop_quit`).
* `ls` after Escape halts the program when the explorer was in a folder of
  another volume (`desktop_ls`).

Weaker facts that hold are checked instead and say where the limit is:
MoveKeepsData (no loss without a fault, also by a power cut, but for the moments
between the Delete of the source and the Close of the copy), CopiesExactly,
ShowsActive (with a file active, the page shows that file),
DeliversWhatCame (what Receive hands on, except after an immediate FIN, where it
hands on as many stale bytes as it asked for, and after the late answer to a
Transmit that had timed out), AcceptShowsOneFragment (a connection that is
accepted shows at most one fragment, after the full time limit),
ScreenFailsOnlyBy (what makes the explorer halt or hang: a failing firmware, an
index off the list, a folder too long, a name too long), ArgumentsAsEntered (what a command
gets is what was entered; a second argument, or a port, that was not entered may
be left from an earlier line, and an empty line may find a CR in front of the
buffer), PictureShown (all of it where rows are not padded; of a padded file
only the row that is read first is right, and a column rounded up to one behind
the last shows in the first column of the next row), and AntsComeBack (with at
least one ant; without one no round ever counts).

## 5. Proofs

`LTaskProofs` proves, for every set of tasks, priorities, window and nesting:

* `TypeCorrect`: Spec => []TypeOK.  The inductive invariant `Typed` adds that a
  call inside Run has selected a task.
* `StaysLinked`: Spec => []LinkedUntilFault.  The parts of Linked are proved one
  by one over Enqueue and Dequeue (lemmas that say what these do to the pointers
  of neighbours).  HeadIsFirst and OnlyLiveLinked are in the invariant because
  Enqueue needs them: without the first a push could meet a head that has a left
  neighbour, without the second a reused address could still be linked.
* `ReentryOnly`: Spec => []FaultOnlyByReentry, by `Reentry`: as long as no task
  was stolen, every task that a call has selected or scans is live, a call that
  scans is the innermost, and each run is accounted for by a frame.
* `FlatRunsOnce`: MaxDepth = 1 gives Spec => []RunsOnce; with one frame the task
  of an outer call cannot be stolen.

The assumptions are those of `TaskAssumption` (NULL is no task, the window and
the nesting are positive).

Its second part goes from the pointers to the sequence, for any finite set of tasks
(`TasksFinite`, which the first part does not use: there is room for so many only):

* `PointersTellQueue`: Spec => []IsRunningMeansQueued, at any nesting depth.  The
  invariant `Queued` is that some sequence q is the list (`IsQueue`): it follows
  Right from the head to NULL, holds no task twice, and holds exactly the tasks
  for which IsRunning says so.  A lemma for each operation says which sequence it
  is afterwards: `<<t>> \o q` after Enqueue, q without its i-th task after
  Dequeue, q itself after Construct, and after the Dequeue of a task that is not
  in it, which is what a stolen task that was created again is.
* `ListImplementsSchedule`: MaxDepth = 1 gives Spec => ImplementsSchedule, the
  refinement of TaskSchedule.  The mapping chooses the chain, so the proof needs
  that there is one only (`ChainIsQueue`, by the least place at which two chains
  of a state differ).  The invariant `Known` adds to IsQueue what the call of
  DoEvents has in its locals (`Compared`): i tasks were compared, the cursor is
  at the next one, and selectedTask is the first of the best of them; and that
  the task that runs is still in the list.  Construct is a step `Create`, AddTask
  `Add`, EnterRun `Start` and FinishRun `Finish`; the other steps change nothing
  that TaskSchedule sees.

`LReaderProofs` proves, for every data, buffer size and fragmentation:

* `TypeCorrect` and `StaysInWindow`: Spec => []TypeOK and Spec => []Window, from
  `Typed`, which is both: the window is what bounds the index that Next, Current
  and the read leave behind, and the size is only of use with it.
* `DeliversInOrder`: Spec => []GetsPrefix, from `Placed`: the client stands at
  pos - size + current of the device, minus where it started, with one byte more
  for the loop that peeks; what is left in the buffer is data[pos - size + 1 ..
  pos].  GetsPrefix alone is not inductive, since it says nothing of the bytes
  that were read and not delivered.
* `DeliversAll`: Spec => []GetsAll, from `Ended`: a loop that is done has seen
  the end of the reader, and a reader that ends without a failure has come to the
  end of the data, or the text to its null byte, or SetPosition was called at the end (`stuck`: the
  reader does not go on after that).

The lemmas follow the code: what Fill, Next and Current do to a reader, stated
for each once, and a lemma for each loop.  `ReaderAssumption`: the reserve is
positive and smaller than the buffer, and a byte is a number of 0 .. 255.

`ShellFilesProofs` proves, for all files, paths, texts, sizes of the buffers and
faults.  IInv is the conjunction of

* `Typed`: TypeOK but for `images`, which has `DiskOK`, and which objects are open at
  which place of the code;
* `InTransit`: the source is as it was until mv deletes it, the reader holds the
  bytes in front of its position, and the writer those behind what is written,
  up to where the reader goes on (`SourceThere`, `ReaderHolds`, `WriterHolds`);
* `Imaged`: what a power cut may leave, for mv without a fault.  Until the
  Delete nothing but the source as it was can be at its path (`SourceOnDisk`),
  and once the copy is closed its only image is the file itself (`CopyOnDisk`),
  of which CopyHolds says that it starts with the source.  Between the two there is nothing to prove, and
  MoveKeepsData does not claim anything of the disk there;
* `CopyHolds`: without a fault the destination is the source, as far as it is
  written, over the old contents (`Stored`), and from the delete on the reader is
  at its end and the writer empty;
* `Counting` and `Adding`: addline counts the bytes of the file before it writes
  (`Counting`), and from there on the file is what it was with the start of
  the line behind it, the rest of which waits in the writer (`Grown`, `Pending`).

From it `TypeCorrect`, `SourceSurvivesCopy` (CopyKeepsSource), `MoveLosesNothing`
(MoveKeepsData), `CopiesAll` (CopiesExactly), `AppendLosesNothing` (AppendKeeps)
and `AppendsAll` (AppendsExactly).  None of these is inductive: they speak of the
files, and a step that empties the writer keeps them only when the writer holds
what the invariant says.  `ShellAssumption`: the sizes are positive, a file is a
sequence of bytes, and no file is `Absent`.

`LSocketProofs` proves, for any number of bytes, commands and polls.  IInv is
TypeOK, EventsClosed, `Held` (which token the firmware may hold, and for which
place of the program), `Counted` (where the counter is one, where it is the
leaked one), CounterIsOperation, `Buffered` (what the buffer of a Receive has at
each place), Conserved and `Accepting` (what the notification has received and
shown).  `Held` is what the rest needs: an answer of the firmware touches the
state of the operation that runs only if the token is that operation's.  From it
`TypeCorrect`, `NoEventLeft`, `CounterCountsOperation`, `NoByteLost`,
`OneFragmentShown` and `HandsOnWhatCame` (the action property DeliversWhatCame).

`DesktopProofs` proves, for any file systems, lengths of the arrays, typed lines,
batch files and depth of their nesting, over the steps of both modes:

* `TypeCorrect`, `ListsTheFolder` (ListIsFolder), `StaysInFolders` (PathExists),
  `ShowsTheActive` (ShowsActive) and `FailsOnlyBy` (ScreenFailsOnlyBy).
* The invariant adds to them where the mode that does not run stands (`Apart`,
  `Fresh`), that the arrays hold the beginning of the folder while it is listed
  (`Lists`), and all of it from then on, on every page, until the path or the
  volume changes, after which the explorer is the next to be drawn (`Holds`);
  `Shows` is what ShowsActive says of an active file, also for a page that waits to be
  drawn, and `Viewed` that whatever is in the viewer is a file.  ListIsFolder and
  PathExists need each other: the path is extended by a name of the list, and the
  list is read at the path.
* `BatchesInOrder` (BatchInOrder), in three parts.  First, what lines mean:
  Meaning is a recursive function on all lines, paths and depths, and nothing says
  that its equation has a solution.  `Meant` is the least set of pairs of a call and
  an outcome that is closed under the equation; by induction over depth and length
  (`CallsInduction`, from the least element of a set of numbers) each call has one
  outcome in it (`MeansOne`), which gives the solution (`Solved`) and what Meaning is
  line by line (`MeaningIs`).  Second, the stack: `Remains` says that the calls of the
  console, one after the other from the innermost, each carried out as Meaning says,
  lead from what was carried out, and the path that is now, to what the user's line
  means.  `TopRemains` takes the innermost call off and puts one on, `TakesLine` is a
  line being carried out: a cd changes the path the rest starts from, batch puts the
  lines of its file on top, end and quit drop the rest of their file.  Third, the
  invariant `Order`: what was carried out is a beginning of the meaning, and what
  Remains of the stack is the rest.  BatchInOrder alone is not inductive, as it says
  nothing of the lines that are left to the outer calls and of the path that they
  will be carried out in.  The depth of the stack is the depth of the recursion:
  where a batch file cannot be called any more, Meaning means nothing and the
  program has halted.

`VolumesAssumption` says what the firmware's file system is: a volume has a
root, and a folder that is an entry can be opened below the folder it is in.

`GraphicsProofs` proves, for any pictures, lists of characters, glyphs, sizes, screens
and lengths of texts, about the two parts of Fonts and about Viewer each by itself
(CuttingSpec, DrawingSpec and ViewerSpec, whose steps are those of the run `tools`):

* `CutsApart` (GlyphsCutApart).  The invariant `CutInv` says what LoadBitmap knows in
  the middle of a picture (`Scanned`): the glyphs cut so far end in front of the one
  that is being cut, which has only narrow gaps, and all ink further left is in one of
  them.  That minWidth and maxWidth exist at all rests on the least and the greatest
  element of a set of columns (lemmas `Least` and `Greatest`, by well-foundedness).
* `DrawsApart` (GlyphsDrawnApart).  Lemma `Sizes` is the arithmetic: the ratio is
  rounded down and the scaled height up, and still no glyph is higher than FontSize.
  `DrawInv` says that each glyph is a line above currentY, or in its line and ends
  before currentX, unless a CR went back over it (`Passed`).

`FontAssumption` says that a picture has columns from 0 on and ink in one of them, that
a list of characters is not empty, and that the font has a highest glyph.

* `ShowsThePicture` (PictureShown).  PictureShown speaks of the viewer that is drawn;
  `ViewerInv` adds what is in the buffers before that: the picture as it was read
  (`Loaded`: all of it, or the row that is read first when rows are padded) and the
  scaled one (`ScaledToFit`).  SetBuffer has only the comparison with the length of
  the buffer, so the proof is about places: a place is a row and a column in one way
  (`OnePlace`, `ColumnRow`), a scaled column is at most one behind the last (`Within`)
  and so lands at the start of the next row, which Shows allows for, and every column
  of the scaled picture is that of some column (`Onto`), so that no hole is left
  (`WrittenIs`).  The ratio is one at which both lengths fit (`FittingIs`).

`ViewerAssumption` says that pictures and viewers have at least one row and one column.

`ToolsProofs` proves, about CommandLine and AntTSP each by itself (LineSpec and
AntsSpec, whose steps are those of the run `tools`), for any length of the buffer, any
batch files and any number of octets, and for any cities, ants, rounds and distances:

* `HasItsArguments` (ArgumentsAsEntered).  The buffer is never cleared, and `LineInv`
  does not say what it holds behind the line: only that it begins with the line
  (`Begins`), followed by a terminator when a command is carried out.  That the first
  terminator behind an argument is the one that the command or the end of the line put
  there is then a fact about cutting (`CutsAsMeant`); that connect finds each of its
  numbers, and skips no more than the dot between them, one about the recursive
  functions NumberAt and Number (`ConnectReads`), which lemmas `UpTo` and `Recursion`
  bring down to the least place where they would differ.
* `KeepsTheShortest` (KeepsShortest).  KeepsShortest says nothing of the ants.  The
  invariant adds that a city an ant cannot go to is one it has been in (`Covered`),
  also between two rounds, where reuse() makes the walk of the last one free again;
  and that each step of a walk used up one of the cities (`Walked`), so that a walk
  as long as there are cities, which is what the code tests, went through all of
  them (`WholeWalk`), without a look at the walk itself.  That t_len is the length
  rests on what one step adds to the recursive function Length (`LengthAppend`): the
  function exists and is unique by the least place where it would not.

`LineAssumption` says that the buffer has room for a name and an argument and that an
address has a number (the code reads four): without one, connect would read the port
where the address begins.

`AntAssumption` says that distances are not negative (Atoi knows no sign) and that a
walk through n cities is shorter than the 1e+100 that sol starts with: n times the
longest distance is.  That one distance is shorter would not do, as then no walk
might be kept.

`AcmProofs` proves `DecidesBoxes` (BoxDecides) about Box by itself (BoxSpec), for any
six rectangles with whole sides, in three parts:

* The search.  `BoxInv` says that no order of the rectangles that comes before the
  place of the search fits (`Tried`: up to some face it is as in p, and there it has a
  smaller rectangle, or one below i).  Place skips only rectangles that are on a face
  (`Placed`), Return leaves behind exactly the orders that begin with p; so the answer
  is whether any order fits, and Return that forgets to free its rectangle breaks
  Placed.
* The table (`FitsWhenFilled`).  Its 24 entries that are edges come to twelve
  equations (`Edges`), and the rectangles of an order can be turned to meet them
  exactly when there are x, y and z such that faces 0 and 5 are x by y, 1 and 4
  y by z, and 2 and 3 x by z.
* The counts (`Counted`).  Such an order exists exactly when each of the three pairs has
  as many rectangles as faces, also when pairs are the same (a cube, a square prism):
  the faces of a pair are matched with its rectangles by one bijection for all pairs
  that are the same.

`BoxAssumption` says that an input is six pairs of whole numbers.

It also proves `CountsAllTrees` (CountsTrees) about Pyramids by itself (PyramidsSpec),
for lines of any length and any number of them, in two parts:

* The walks.  A walk is at most as deep as half its length (`DownBound`, `UpBound`), so
  that the bound in Walks leaves out none (`WalksAreAll`) and there are finitely many.
  `Before` are the walks whose first subtree ends before the place k.  From k to
  k + 1 nothing is added where S[k] is not the character of the node (`OtherNode`);
  where it is, the walks that are cut in two at k are added, and these are matched
  one to one with a walk around the first subtree and one around the rest
  (`SubWalk`, `RestWalk`, `JoinedWalk`), so their number is the product (`SumStep`).
  The remainder may be taken at each sum (`SumOfRests`).
* The calls.  `PyramidsInv` says of each call that R has the number of the walks in
  Before for the place of its loop (`CallRight`), that an operand it has already is
  right, whenever it was evaluated, that each call is what its caller asks for and
  shorter than all calls around it (`Nested`), and that a result marked with the number
  of the line is right or is being computed (`Remembered`).  CountsTrees alone is not
  inductive: an answer is right because of what R holds of shorter intervals, and
  R holds half a sum under a mark that is already that of the line.  Nobody reads it
  there, as the calls inside are for shorter intervals: this is also why the order of
  the operands does not matter, since no call writes to R[l][r] of a call around it.
  A new line is a mark that is in no place of P, whatever the lines before have left.

`PyramidsAssumption` says that a line is not empty (an empty one ends the program) and
fits into S with its terminator, and that the modulus is more than one.

Each `tlapm` run (`LTaskProofs`, `LReaderProofs`, `ShellFilesProofs`, `LSocketProofs`, `DesktopProofs`,
`GraphicsProofs`, `ToolsProofs`, `AcmProofs`) checks every obligation from nothing within
five minutes.

Only model-checked: Drains, Ends, OperationsEnd, ComesBack and AntsComeBack, which are
liveness, and that the walks which Pyramids counts are the trees of the problem
(`WalksAreTrees` of MCTools), as trees are recursive.

## 6. Not modelled

See "components" in `PROJECT.json`.  Most lines of the repository are not the
program's: gnu-efi 3.0.18 and `elf.h` are vendored, of some 35,000 lines of C all
but about 3,700.  Of the library only what the program rests on and could go
wrong is modelled, the line editor `Input`; the rest of it is the start-up code,
wrappers of firmware calls and definitions.

Of the program's own code:

* the handle database of the firmware: a child of the TCP service that could not
  be configured is destroyed twice (`lsocket.hpp:182`);
* the wait for an address in Accept, which ignores the errors of GetModeData
  (`lsocket.hpp:557`), and that Connect returns true after an error of its token
  (`lsocket.hpp:326`): the model has them as what the firmware may do, no
  property says more;
* the lengths of paths: `szCurrentPath` and `szPath` are appended to without a
  look at MAX_PATH (`main.cpp:1176`);
* the table of fonts (`lfont.cpp:51`), the start of the graphics and Paint
  (`lscreen.cpp:15`), the buffer of the help page (`main.cpp:876`), masks;
* `filldemo` and `printmodes`, the Windows test harness under `_TEST_`;
* AddTask called from a notification: there is no such caller.

## 7. What is left

1. LTask with AddTask from a firmware notification, statement by statement, if
   the program ever gets one.
2. The lengths of paths, as counters beside the sequences of Volumes.
3. The handle database, with LSocket's destructor and the service binding.
