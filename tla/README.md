# HurryUp_Agent in TLA+

TLA+ modules that model the agent in `src/Src/HurryUp_Agent`, TLC configurations
that check them on small instances, and TLAPS proofs for all instances. Paths below
without a directory are in `src/Src/HurryUp_Agent/`.

## The system

The agent runs on a device, keeps one TCP connection to a server, sends what it
knows of the device, and carries out what the server asks. `main` builds
singletons and starts threads with `std::async`; the futures it returns keep the
process alive.

| component | state | operations | talks to |
|---|---|---|---|
| `CMessage` | two queues, a mutex each | Push/Pop of either | everybody |
| `CCommunication` | `clientSocket`, `connected`, `messageBuffers`, `connectionMutex` | `Connect`, `Disconnect`, `Live`; threads `Send`, `Recv` | kernel, server, `CMessage` |
| `CMatch` | none (one packet at a time) | thread `MatchMessage`, a handler per protocol | `CMessage`, all that follow |
| `CCollector` | `time`, `timeMutex` | `init`, `setTime`; thread `SetInterval` | `CMessage`, `CDevice` |
| `CMonitoring` | `monitoringLists`, `wdCountLists`, `wdKeyPathLists`, `monitoringMutex` | `AddMonitoringTarget`, `RemoveMonitoringTarget`; thread `StartMonitoring` | inotify, `CMessage` |
| `CDevice` | lists of processes, descriptors, services | `collectAllData` and getters, no lock | `/proc`, shell |
| `CExecutor`, `CPolicy`, `CInspection` | a script and its directory | `Execute` | network, shell, file system |
| `CEnvironment` | configuration | `Init` | a file |
| `CUtils` | none | `Split`, `FindFileEndPosition`, `GeneratorStringNumber`, `Exec` ... | |
| `core::CCircularQueue` (`src/Inc/cppcore/200_Common/CircularQueue.h`) | a ring of items, four indices | `Push`, `Pop`, `Count`, no lock | nobody: a container the agent carries and does not instantiate |

What is hard about each, and what makes it correct:

* `CCommunication`. Two threads find the connection dead at the same time; a read
  is blocked on a connection that was replaced; `Disconnect` takes no lock;
  `clientSocket` keeps a number that the kernel gives to somebody else; a frame
  is cut by a read or by the end of its connection. Correct: no socket leaks,
  messages leave in order and once, requests arrive in order and once, garbage is
  bounded, and the queue drains.
* `CMonitoring`. The reader uses maps and entries without the mutex; counts,
  watch descriptors and entries must agree when a step fails; files shrink and
  move; events are merged, late, or early. Correct: counts match, what is listed
  is watched and heard, the reader survives, lines are reported once, in order,
  without gaps and in the end.
* `CMatch` and `CCollector`. Handlers run in threads of their own and only the
  destructor of a future keeps requests apart; the timer sleeps with its mutex
  held; `init` races the first requests. Correct: every request is answered once,
  in order, before the next is taken, and in the end, unless its handler throws.
* Connection and dispatch together. A request is cut or lost with its connection;
  its answer goes back on whichever connection there is. Correct: an answer is to a
  request the server made, once and in order, and every request that was received
  is settled.
* `CDevice`. Lists are cleared and refilled by one thread while another does the
  same, or copies them; processes vanish between the open of a file and its read; a
  directory stays open for each process. Correct: no list without its process, scans
  that do not overlap leave nothing of each other, what stays open is known, and a scan
  is lost only to a process that ended or an open that was refused.
* `CCircularQueue`. Every test is of indices that others have moved since; indices
  wrap; slots are filled and read out of order. Correct: never overrun, no slot in
  two hands, items out once and in order, no refusal without cause, no thread stuck.
* `CExecutor` and its users. Each step of a script's life may fail; directories and
  descriptors stay; names are made of the second. Correct: a call runs only its own
  scripts, reports true only when they were run, and ends.

`PROJECT.json` lists the hazards at their lines, with the properties that watch them.

## Modules

| module | models | role |
|---|---|---|
| `Message` | `CMessage.cpp` | the queues, as operators of the modules that use them |
| `Communication` | `CCommunication.cpp`, the start in `main.cpp` | Connect, Send, Recv, Disconnect at the level of system calls |
| `Link` | - | abstract: two reliable FIFO channels |
| `CommunicationProofs` | - | theorems about the sockets and the order of messages |
| `Framing` | - | extends `Communication` with the invariant of the streams that `Recv` cuts into packets |
| `FramingProofs` | - | theorems about the framing; the steps of `Link` |
| `Agent` | the start in `main.cpp`, the ways between `CMatch`, `CCollector`, `CMessage` and `CCommunication` | `Communication` composed with the dispatcher and the timer |
| `AgentProofs` | - | `Agent` implements `Communication`, whose theorems hold of it; whose the answers are; the steps of `Service` |
| `Monitoring` | `CMonitoring.cpp`, `FindFileEndPosition` | registry of files, inotify, the reader |
| `MonitoringProofs` | - | theorems about `Monitoring` |
| `Dispatch` | `CMatch.cpp`, `CCollector.cpp` | dispatcher, handlers, timer |
| `DispatchProofs` | - | theorems about `Dispatch` |
| `Service` | - | abstract: each request with data is settled once, in order |
| `Executor` | `CExecutor.cpp`, `CPolicy.cpp`, `CInspection.cpp`, their handlers, `GeneratorStringNumber`, `Exec` | one call of `Execute` after the other |
| `ExecutorProofs` | - | theorems about `Executor` |
| `Device` | `CDevice.cpp` | `collectAllData` in two threads, `/proc` entry by entry |
| `DeviceProofs` | - | theorems about `Device` |
| `CircularQueue` | `CircularQueue.h` of `cppcore` | `Push` and `Pop`, access by access |
| `CircularQueueProofs` | - | theorems about `CircularQueue` |
| `MCAgent`, `MCMonitoring`, `MCDispatch`, `MCExecutor`, `MCDevice`, `MCCircularQueue` | - | instances for TLC |

Definitions that begin with the name of another one and end in what is wrong
with it (`CloseOldForgotten`, `AddWatchUnchecked` ...) are never used in a
specification. Each is a plausible mistake in the code; put in place of the
definition it is named after, it makes a property fail, which shows that the
property depends on the code.

### Communication

A step is one system call or one access to a member another thread can see.
`pc[t]` says where thread `t` (`main`, `send`, `recv`) stands; `sending` and
`reading` are the locals of `Send` and `Recv` that outlive a step. `clientSocket`,
`connected`, `connectionMutex` and `messageBuffers` are the members. `Lock`,
`CloseOld`, `Socket`, `ConnectSocket` and `CheckConnected` are lines 30, 31, 33,
40 and 42-47 of `Connect`; `CheckLive` is `while (!Live())` in both threads.

The kernel is external: `fdTable` says what each descriptor number stands for,
`Socket` gets the lowest free number or fails, `connect` succeeds only on a fresh
socket, a read keeps the connection it started on (`reading`), a write to a
connection that was reset kills the process (`killed`: nobody handles `SIGPIPE`).
The server may close a connection, stop and start; the network may reset a
connection and lose what was under way. With `OtherThreads` the rest of the agent
opens and closes files by number, so that a stale `clientSocket` may name one.

A byte stream is a sequence of tokens: a marker is two tokens, a packet is two, so
reads can cut both. `Payload` has the unsigned length of line 136. A packet made
of text the server did not send so is `Garbage`: its `protocol` is uninitialised.

### Agent

`Agent` extends `Communication` (through `Framing`), where any component may push or pop at any time,
and says who does: `Take` is the dispatcher at `PopReceiveMessage`, `Reply` the push
of the `RESPONSE`, `NoReply` a handler that throws or a packet without handler,
`TimerReport` a message of the timer. Of `CMatch` there is here what `Dispatch` is
shown to implement (`Service`): one request at a time, settled once. `answerOf`
records what each pushed message answers, `failed` the requests whose handler threw.
`Garbage` may be answered, since its `protocol` is whatever is in memory.
`Communication` is checked through the runs of `Agent`, which contain it.

### Monitoring

A file is its sequence of lines; an offset counts lines; every new line of a file
has the next number, so `reported` shows repetition, disorder and gaps. `handler`
says where the thread that runs Add or Remove stands (requests are serial: the
dispatcher waits for its handler), `reader` where `StartMonitoring` stands. The
watch descriptors of inotify are never reused, equal `IN_MODIFY` neighbours are
merged, events go to the queue only if the directory is watched. An entry freed
while the reader holds it (`dangling`) kills the process, ends the reader, or
passes; arbitrary data in the freed memory is not modelled, nor is the damage that
two threads can do to the nodes of a `std::map`. `wdCountLists` is 0 for a
missing key, which the code cannot tell apart from a present key with 0 unless a
count reaches 0 without its key being erased: `CountMatchesTargets` excludes it.

### Dispatch

`working` is the set of handlers that still run for the packet `current`, `stage`
where a handler with data stands: its call, or its response. `Joined` is the
destructor of `result` at the end of the loop's body. The timer is its own thread;
`TimerSleep` takes `timeMutex` and `TimerWake` gives it back, `setTime` needs it
free. `FdLists` is the number of descriptor lists in `CDevice`, constant here. A
handler that calls `Exec` may throw (`ReqThrow`): its request gets no `RESPONSE`,
and `answers` records that. `collectAllData` may stop the timer (`TimerCollect`):
`Exec` throws there too, and the scan of `/proc` reads for ever from a process that
has ended.

### Executor

`executors[c]` is the object that the handler of call `c` makes (it is never
deleted), with what the server has under its name; `call` is the one that runs, and
`pc` where its `Execute` stands. There is one at a time: `Dispatch` shows that the
dispatcher waits. `savePath` is the second that `GeneratorStringNumber` seeds
`rand()` with (the model takes ten digits of two seconds to differ, and the clock
not to be set back), `dirs` what is in `/tmp/hurryup/policy`, where every entry
remembers the call whose archive it came from. Each step may fail or be the last
one of the process (`Kill`); `dirs` outlives it, `open` does not. A descriptor that
is not closed matters only by making later steps fail, which they may always do.
An archive is `damaged` when a read fails, ends early, or the flag before it was
cut; `tar` fails on a damaged one but may have extracted some of it.

### Device

`pc[t]` says where `collectAllData` stands in thread `t`: that of
`CCollector::init` or that of `SetInterval`. A part of `deviceInfo` and an entry of
a list is the number of the scan that wrote it, so that a mixture shows. `/proc` is
the set `alive`, which changes at any time; `readdir` goes up through it, or through
what it had read ahead (`entries`), so that a process may have ended before its files
are opened. `status`, `cmdline` and `sched` are opened, read and closed one after the
other (:274-308); `gone` says that the process of the open file has ended, so that the
read fails even if its number has been given to another. `files` counts the descriptors
of `/proc` that `CDevice` has open, and `fdDirs` those of the directories that
`collectFdInfo` never closes (:337); pipes, the socket of `getifaddrs` and the file of
the host name are closed by the function that opens them and not counted. Any thread of
the agent may have the last descriptor, so that an open may be refused at any time. A
scan whose `status` or `sched` was not opened reads its line for ever (`spin`, :277,
:306) with `/proc` open; one whose process ended after the open does so with that file
open as well (`spinOpen`). `disturbed` records, for a scan, that a process ended while it
was in `/proc`, or that an open was refused to it. `Exec` throws (`thrown`);
`getnameinfo` ends the process (`NetworkExit`). What a getter copies leaves no trace in the members;
that the race of a copy with a scan, or of two scans, may end the process is
`DataRace`, and otherwise their steps interleave.

### CircularQueue

A step is one access to a member that other threads see. Loads are taken in program
order: the code does not ask for it, and on a machine that reorders loads (ARM) the
test for a full ring at :72 may see a front index older than its back index. Indices
are natural numbers here, and the code sees them modulo `Modulus` (`Same`,
`Distance`, `Slot`), so that wrapping is in the model while a history can name every
item. `NotLapped` bounds what others may do between the load and the exchange of one
turn: fewer than 2^32 less the capacity operations; beyond it a compare-and-exchange
would take an old index for the new one (ABA), as the code does.

## Runs

| run | shows | bounds |
|---|---|---|
| `AgentSockets` | types, no leak, order of messages | 2 reports, 3 connections, 1 failure, 2 descriptors, foreign files |
| `AgentFrames` | framing, whose the answers are, the inductive invariant | 2 requests, 3 connections, 1 failure, 1 handler that throws |
| `AgentReliable` | the connection implements `Link`; the agent, as the server sees it, implements `Service` | 3 requests, 1 report, no failure |
| `AgentLive` | the queue drains, a request is settled | 1 request, 1 report, 1 failure, 1 handler that throws; the 5 connections are never used up |
| `MonitoringRegistry` | types, counts, watches, order of lines | 2 files in a directory, 3 requests, 3 file operations of any kind |
| `MonitoringAppend` | reader survives, no gaps, all reported, while files only grow and stay listed | 2 directories, 2 requests, 4 lines |
| `DispatchRequests` | types, complete and ordered answers, implements `Service` | 2 requests, 2 descriptor lists |
| `ExecutorScripts` | types, own scripts only, what true means, what stays open, every call ends | 2 calls, archives of up to 3 scripts, 3 seconds, 1 restart |
| `DeviceScan` | types, lists with their processes, clean scans, every open descriptor, an undisturbed scan ends | 2 processes, 1 that starts or ends, 2 scans in either or both threads, 3 descriptors |
| `CircularQueueWrap` | types, order of the indices, exclusive slots, order of items, right refusals, progress | 3 threads, 2 slots, 3 pushes, 2 pops, indices that wrap (modulo 8, from 6) |

Why the bounds are enough: two descriptors are what the agent's socket and one
foreign file or a second socket need, and each of the reconnect races needs one
lost connection and two threads that reconnect, so three connections or four;
framing goes wrong with the rest of one frame and the start of the next; a count
goes wrong with an Add, a second Add and a Remove; an order needs two answers, an
overlap two handlers; a collision of names needs two calls, a wrong result or detail
an archive with two scripts of a kind; lists mix with two scans and two processes,
one process that ends is enough to lose a scan over each of its files and to leave
`/proc` and that file open, and with three descriptors what one scan reads or keeps may
leave the other none; a ring of two
slots is full after two pushes, the third item goes where the first one was, and an
old index needs a thread that sleeps while two others push and pop. What the theorems cover holds for all values; a number of a process that is given to
another takes two changes, and is in the theorems about `Device` only.

Violations, each against what the repository says (quoted in `PROJECT.json`):

| run | what happens |
|---|---|
| `MonitoringShared` | the count of a directory is used as its watch descriptor: a Remove stops the watch of another directory |
| `MonitoringEditor` | a file that shrank ends the reader with `std::length_error` |

The models contain other behaviour that a maintainer should know of, for which no run
is kept: an event that comes between `inotify_add_watch` and the insertion into
`wdKeyPathLists` leaves an empty name there, and the directory is not heard again
(`ReaderLookup`, `AddKeys`); `CCollector::init` overwrites an interval set before
it runs (`CollectorInit`); `MODULE` has no handler (`Handlers`); a negative
interval stops the timer with its mutex held and, at the next change, the
dispatcher (`TimerWake`); a policy whose scripts fail is reported as carried out
(`RunPolicyScript`); an inspection reports the result of the last script only
(`RunInspectionScript`); `Disconnect` takes no mutex and may close the
connection that the other thread has just made (`Disconnect`, `DisconnectClose`); the
half of a frame that a lost connection leaves in `messageBuffers` becomes, with the
first frame of the next one, a request the server never made (`RecvFrame`); an answer
may go back on another connection than its request came by (`Agent`); the directory
of each process stays open until no descriptor is left, and then the timer's scan
never ends (`OpenFds`, `NotOpened`); a scan that a process leaves in the middle never ends
either, and keeps `/proc` and perhaps `status` or `sched` open (`NotRead`); every network interface is reported with the
same constant hardware address (`CDevice.cpp:122-129`, which is data here); the socket of a missing file and the stream of every
directory stay open (`NotExists`, `OpenDirectory`); a handler whose `Exec` throws
never answers (`ReqThrow`).

`CHECK_DEADLOCK FALSE` stands where the process can die (`Agent`, `Executor`,
`Device`), where the timer can stop (`Dispatch`), and where the bounds end every
behaviour (`Monitoring`, `Executor`, `Device`, `CircularQueue`).

### Fairness

* `Communication`: each thread runs (WF). `Lock` is strongly fair: the other
  thread sleeps five seconds before each `Connect` (:66, :101), so a waiting
  thread finds the mutex free and is woken. `MatchPop` is weakly fair. Nothing is
  assumed of server or network.
* `Agent`: besides, the dispatcher takes what is there and a handler ends (WF).
* `Monitoring`: the handler and the reader run (WF). Programs that write owe nothing.
* `Dispatch`: threads run, scripts end (WF). `ReqChangeInterval` is strongly fair:
  between two sleeps the timer builds and pushes its messages without the mutex,
  long enough for a waiter to take it. A negative interval is left out of the run: the
  mutex would never be free again.
* `Executor`: the clock runs, and each step of `Execute` is taken (WF): scripts end,
  and the file server ends the connection, since no `recv` has a timeout.
* `Device`: a scan goes on with its steps, whatever processes do. `FairSpec` has the weak
  fairness of `Scan(t)` written out, which TLC checks faster: `Scan(t)` can be taken at
  every label of `Running` and at no other, and only it and the end of the process move `pc[t]` from
  there.
* `CircularQueue`: a thread in a call runs (WF); nobody has to call.

Liveness is claimed under the conditions in the properties: `PushedIsTaken` and
`RequestIsSettled` not after the process died or while the server is away; `ScanEnds`
unless a process ends while that scan is in `/proc`, or the open of `status` or `sched` is
refused to it (changes before the scan, processes that start and what befalls the other
scan excuse nothing); `CallEnds` if the file server ends the connection, so that the
missing timeout of `recv` is outside it; `SlotsAreGivenBack` for a thread
that has its slot (one that has none yet may lose every exchange to the others);
`AllReported` for lines beyond the entry's size, if an event of the file is queued and its directory is known.
An append that comes while the file is being listed is reported with the next one.

## Proofs

Assumptions: only the named `ASSUME`s on the constants (descriptors and bounds are
natural numbers, the files are a finite set, no directory has the empty name). A
theorem that needs more says so in an `ASSUME` of its own, a condition on the
constants that some run meets.

`CommunicationProofs`:

* `TypeCorrect`: `Spec => []TypeOK`, one lemma per group of actions.
* `SocketsAccounted`: `Spec => []NoSocketLeak`. `NoSocketLeak` is not inductive: it
  does not say who may be at `Socket`. The strengthening is `MutexHeld` (a thread
  is inside `Connect` exactly if it holds the mutex) and `SocketInv` (an open
  socket is the one `clientSocket` names and then nobody is between the close and
  `socket()`; an unconnected one belongs to a thread at `connect` or to a failed
  attempt at its check). `Disconnect`, which ignores the mutex, only closes.
* `MessagesInOrder`: `Spec => []SentInOrder`, from `SendInv`: the queue holds the
  last messages pushed, consecutively; the one in hand and those written precede it.
* `InductiveInvariant`: `Spec => []IInv`, these strengthenings together.

`FramingProofs`, about the bytes between the server and `messageBuffers`:

* `DeliveredInOrder`, `SpoiledByReconnect`: `Spec => []RequestsInOrder` and
  `Spec => []GarbagePerReconnect`, for any requests, connections and failures. Neither
  is inductive: both say what was delivered, and what will be depends on what is under
  way. `StreamInv` therefore speaks of streams: `messageBuffers` alone, and with what
  each connection that can still be read has for it. In every such stream an end marker
  is the end of a whole frame (`FramesWhole`), requests are in the order of their
  connections and of their numbers (`StreamInOrder`), what was delivered precedes them
  (`StreamFollows`), and between a frame that broke off and the next end marker lies a
  change of connections, so that each lost connection spoils at most one packet
  (`BreaksBetween`). A read moves tokens from one part of a stream to the other, a
  reset cuts a stream short, `RecvFrame` takes a frame from its front, `ServerSend`
  puts one at its end. `OriginInv` says which connection brought what is in the buffer,
  `MainFirst` and `BeforeFirst` that nobody reads before `main` has connected.
* `FramesArriveWhole`: `Spec => []FramesIntact`, from `OneConnection`: as long as there
  was one connection, its stream is exactly what is left of the server's frames.
* `StepsOfLink`: if there are no failures and no other threads (the constants of
  `AgentReliable`) and the server is up, every step is one of `Link` or a stutter.
  `Reliable` says that `main`'s connection stays and nobody reconnects, `InSequence`
  that the messages written are the first ones pushed, without gaps.

`AgentProofs`: every step of `Agent` is a step of `Communication` or leaves it alone
(`AgentImplementsCommunication`), so that `AgentKeepsSockets`, `AgentWritesInOrder` and
`AgentDeliversInOrder` follow from the theorems above. `AgentTypeCorrect` shows that
each pushed message has its entry in `answerOf`. `AnswersBelongToRequests` is
`AgentSpec => []AnswersAreOwn`: `SettledOnce` says that the answers, in the order they
were pushed, are to packets taken before the one in hand, in their order, and that no
failed request has one; messages are written in the order they were pushed, and what
was taken is the first part of what the framing delivered. `AgentInductive` puts
the whole invariant together, which `AgentFrames` also checks. `AgentIsService`: with no
failure, no other threads and no handler that throws (the constants of
`AgentReliable`), and the server up, every step of the agent is one of `Service` as the
server sees it, or a stutter. The packet taken at p is then request p, all that were
handled have been answered (`NoneFailed`), so the next message that is written is a
report or answers the least request not yet settled.

`MonitoringProofs`:

* `CountsCorrect`: `Spec => []CountMatchesTargets`, for any number of files and
  directories, by `RegistryInv`: which files are listed while a handler is at each
  of its steps, and `Cardinality` of the listed files of a directory when one is
  added or removed.
* `MonitoringTypeCorrect`: `Spec => []TypeOK`, one lemma per thread.
* `LinesReportedInOrder`: `Spec => []ReportedInOrder`, under any requests, rotations
  and editors. The strengthening is `Ordered`, per file: its lines go up, no number is
  later than the last one written, and whatever lies beyond the entry's offset is
  later than everything reported. `AddOpen` and a read put the offset at the end,
  where nothing lies beyond; a program that cuts the file and writes it again
  writes later lines.
* `GrowingFilesReported`: if requests only add files and programs only append to them
  (`OnlyGrowing`, a condition on the constants, which `MonitoringAppend` meets),
  `Spec => [](ReaderSurvives /\ ReportedWithoutGaps)`. `GrowInv` says that a file is
  its lines from 1 on, that a listed entry is open and its offset not beyond the end,
  and that what was reported ends at the offset. `MonitoringEditor` shows that
  `ReaderSurvives` needs the condition. `ReaderGoesOn` is its first half by itself.
* `WatchesKept`: `Spec => []ListedIsWatched` if all files are in one directory
  (`OneDirectory`, as in `MonitoringRegistry`) or no two files share one
  (`OwnDirectories`). For a second file of a directory Add notes the count where the
  watch descriptor belongs; `Harmless` says that to remove what an entry notes can end
  no watch but that of its own directory: with one directory there is no other, and
  with a directory for each file no count is noted. `WatchInv` adds that every watch is
  of some file's directory and every counted directory has one. With two directories,
  one of which holds two files, the property is false (`MonitoringShared`).

`DispatchProofs`:

* `AnsweredInOrder`: `Spec => []AnswersInOrder`, from `OrderInv`: the queue holds
  the last requests, consecutively, and no answer belongs to a request after the
  packet in hand.
* `AnsweredCompletely`: `Spec => []AnsweredWhenIdle`, from `CompleteInv`: requests
  before the one in hand have all their messages, and that one has those of the
  handlers that have ended. `DispatchTypeCorrect`: `Spec => []TypeOK`.
* `DispatchIsService`: `Spec => ServiceOf!ServiceSafety`. The first outcome of a request
  is the push of its `RESPONSE` or the throw of its handler, and there is no second: the
  outcomes are those of the requests with data before the one in hand, and of that one
  once its handler has ended, so that each settles the least that is outstanding.

`ExecutorProofs`:

* `ExecutorTypeCorrect`, `OnlyOwnScripts`: `Spec => []TypeOK` and
  `Spec => []ScriptsAreOwn`, for any names of scripts and any number of calls,
  seconds and restarts. `ScriptsAreOwn` needs to know why a directory is new, which
  is `OwnInv`: no directory is named after a second later than the one in which a
  call begins, the clock has passed that second when `sleep(1)` returns, and from then
  on all that is in the call's directory is its own.
* `DescriptorsHeld`: `Spec => []HeldDescriptors`, from `HeldInv`: what the running
  call has open at each of its steps, and that no other call runs.
* `ResponsesTellTheTruth`: `Spec => []TrueMeansDone`, from `DoneInv`: an archive that
  is not damaged at its extraction exists; then all its scripts, and no others, are in
  the directory; those that remain and those that were run are together the ones the
  request is for; the detail is of one that was run.

`DeviceProofs`, for any processes, descriptors, scans and changes:

* `DeviceTypeCorrect` and `DescriptorsAccounted`: what is open is one directory for each
  process whose descriptors were read, `/proc` for each scan in it or lost in it, and one
  file for each scan that reads a process or was lost over one.
* `ListsHaveOwners`: `Spec => []OwnersListed`.
* `LoneScansAreClean`: `Spec => []UpToDate`, from `LoneInv`: while no scans have overlapped
  at most one runs, its lists hold only entries of its own, up to the process in hand, and
  the parts it has passed carry its number.
* `ScansLostForReason`: a scan is in `spin` or `spinOpen` only if it is `disturbed`, from
  `ReasonInv`: while a scan in `/proc` is not, the processes it has read ahead are all
  alive, and the file it has open is not `gone`. It is the safety half of `ScanEnds`.

`CircularQueueProofs`: `QueueTypeCorrect`, `NeverOverrun`, `SlotsAreExclusive`,
`ItemsInOrder` and `RefusalsAreRight`, for any threads, capacity, modulus and seed.
The invariant says between which indices each thread's own index lies while it has a
slot, that no two that fill, or that empty, have the same one, that published slots
hold their items, and that an index that was loaded and could still be exchanged has
room or an item behind it. Equal DWORDs are equal indices because all lie within the
capacity or `NotLapped`, which is where the assumption on the modulus is used.

Model-checked only: liveness (`PushedIsTaken`, `RequestIsSettled`, `AllReported`,
`CallEnds`, `ScanEnds`, `SlotsAreGivenBack`) and the fairness conjuncts of `LinkSpec`
and `ServiceSpec`, whose steps are proved: fairness and `ENABLED` are out of the
prover's reach. `Service` counts outcomes beside the sets of requests, so that a
second answer shows although sets hold no element twice.

## Not modelled

* What is data: the contents of the JSON payloads in `protocol.h`, `Split` and the
  conversions and time stamps of `CUtils`, the text that `CDevice` cuts out of files
  and of the output of commands, logging.
* `CEnvironment` reads a file before any thread starts; `CModule` is empty;
  `EndMonitoring` is never called.
* `src/Inc` are the headers of prebuilt libraries (`cppcore`, `protocol`): about
  11,700 of the 14,300 lines of code in the repository. Nearly all of them declare
  functions, structures and constants whose code is not in the repository, so that
  there is nothing to translate; what the agent calls of them is modelled where it is
  called. A few containers are templates with their code in the header, and the agent
  instantiates none of them. `CCircularQueue` is modelled as the one whose protocol is
  the most involved and is defined for any number of threads. `CLockFreeQueue` is not:
  its `Pop` deletes a node that another `Push` or `Pop` may have loaded, so that with
  two threads at one end its behaviour is undefined. `CSafeQueue` and `TSyncQueue` are a
  `std::queue` under a lock.
* Memory exhaustion; loads out of program order; arbitrary results of data races
  beyond those named above. Five hazards in `PROJECT.json` have no property, with the
  reason noted there: the maps of `CMonitoring`, the first interval of `CCollector`, a
  write outside an array in `CDevice`, the copies its getters make, and the missing
  timeout of `recv` in `CExecutor`.

## Plan

1. `Message`, `Communication`, `Link`, `CommunicationProofs`: done.
2. `Monitoring`, `MonitoringProofs`: done; left is the refinement of an abstract log
   stream.
3. `Dispatch`, `Service`, `DispatchProofs`: done.
4. `Executor`, `ExecutorProofs`: done.
5. `Device`, `DeviceProofs`: done.
6. `Framing`, `FramingProofs`, `Agent`, `AgentProofs`: done. To the connection,
   monitoring is one more component that pushes.
7. `CircularQueue`, `CircularQueueProofs`: done.
8. The steps of the refinements of `Link` and `Service`: done.
9. Left: what `Monitoring` promises while files share directories and are rotated,
   beyond the order of lines.
