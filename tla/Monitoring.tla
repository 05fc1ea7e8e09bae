----------------------------- MODULE Monitoring -----------------------------
(***************************************************************************)
(* CMonitoring: which log files are watched, and the thread that turns     *)
(* their growth into MONITORING_LOG messages.  Requests to add and remove  *)
(* files run one after the other, in the thread of CMatch that holds       *)
(* monitoringMutex; the thread of StartMonitoring reads the same three     *)
(* maps and the same entries without taking it.                            *)
(*                                                                         *)
(* A file is its sequence of lines, and an offset counts lines.  inotify   *)
(* is modelled by what the calls return: watch descriptors that are never  *)
(* used twice, and a queue of events in which equal neighbours are merged. *)
(***************************************************************************)
EXTENDS Integers, Sequences, FiniteSets

CONSTANTS
  Paths,         \* the files the server may name
  Dirs,          \* the directories they are in
  Dir,           \* the directory of each file
  Calls,         \* the requests the server makes: a subset of {"add", "remove"}
  FileOps,       \* what other programs do to the files
  MaxCalls,      \* bound: requests in a behaviour
  MaxOps,        \* bound: file operations in a behaviour
  MaxWatches     \* bound: watch descriptors the kernel hands out

ASSUME DirAssumption == IsFiniteSet(Paths) /\ Dir \in [Paths -> Dirs]
ASSUME BoundsAssumption ==
  /\ MaxCalls \in Nat /\ MaxOps \in Nat /\ MaxWatches \in Nat
  /\ Calls \subseteq {"add", "remove"}
  /\ FileOps \subseteq {"append", "truncate", "moveAway", "moveIn", "create"}

VARIABLES
  \* members of CMonitoring
  monitoringLists,   \* the listed paths
  entry,             \* the ST_MONITORING_EVENT of a path
  wdCountLists,      \* files listed per directory, 0 for a missing key
  wdKeyPathLists,    \* the directory of a watch descriptor
  \* the handler of a request
  handler, path, wd, calls,
  \* the thread of StartMonitoring
  reader, batch, used, dangling, crashed,
  \* inotify
  watches, queue, nextWd,
  \* the files, and the lines reported
  content, exists, lines, ops, reported

registry == <<monitoringLists, entry, wdCountLists, wdKeyPathLists>>
request  == <<handler, path, wd, calls>>
thread   == <<reader, batch, used, dangling, crashed>>
inotify  == <<watches, queue, nextWd>>
files    == <<content, exists, lines, ops>>
vars == <<registry, request, thread, inotify, files, reported>>

Wds == 1 .. MaxWatches
NoDir == "absent"      \* no key in the map
Empty == "empty"       \* the empty string operator[] puts in
NoWd == -1
NoLine == 0            \* a line of NUL bytes
Entries == [wd : Int, size : Nat \cup {-1}, open : BOOLEAN]

ASSUME NoDirAssumption == NoDir \notin Dirs

Init ==
  /\ monitoringLists = {}
  /\ entry = [p \in Paths |-> [wd |-> NoWd, size |-> 0, open |-> FALSE]]
  /\ wdCountLists = [d \in Dirs |-> 0]
  /\ wdKeyPathLists = [w \in Wds |-> NoDir]
  /\ handler = "idle" /\ path \in Paths /\ wd = NoWd /\ calls = 0
  /\ reader = "read" /\ batch = <<>> /\ used \in Paths
  /\ dangling = FALSE /\ crashed = FALSE
  /\ watches = [w \in Wds |-> NoDir] /\ queue = <<>> /\ nextWd = 1
  /\ content = [p \in Paths |-> <<>>]
  /\ exists = [p \in Paths |-> TRUE]
  /\ lines = [p \in Paths |-> 0]
  /\ ops = 0
  /\ reported = [p \in Paths |-> <<>>]

(* std::ifstream(path), and FindFileEndPosition of it. *)
EndPosition(p) == IF exists[p] THEN Len(content[p]) ELSE -1

(***************************************************************************)
(* AddMonitoringTarget.                                                    *)
(***************************************************************************)
Request(call, p) ==
  /\ ~crashed
  /\ call \in Calls /\ calls < MaxCalls
  /\ handler = "idle"
  /\ calls' = calls + 1
  /\ path' = p

(* Mutant: a file that is listed already is counted again. *)
AddMonitoringTargetAgain(p) ==
  /\ Request("add", p)
  /\ LET known == wdCountLists[Dir[p]] > 0
         listed == p \in monitoringLists
     IN  /\ wd' = IF exists[p] /\ known THEN wdCountLists[Dir[p]] ELSE NoWd
         /\ handler' = IF ~exists[p] \/ (known /\ listed) THEN "idle"
                       ELSE IF known THEN "open" ELSE "watch"
         /\ wdCountLists' = IF exists[p] /\ known
                              THEN [wdCountLists EXCEPT ![Dir[p]] = @ + 1]
                              ELSE wdCountLists
  /\ UNCHANGED <<monitoringLists, entry, wdKeyPathLists, thread, inotify, files,
                 reported>>

(* Up to line 58.  The value of wdCountLists, a count, becomes the watch   *)
(* descriptor of a file whose directory is watched already.                *)
AddMonitoringTarget(p) ==
  /\ Request("add", p)
  /\ LET known == wdCountLists[Dir[p]] > 0
         listed == p \in monitoringLists
     IN  /\ wd' = IF exists[p] /\ known THEN wdCountLists[Dir[p]] ELSE NoWd
         /\ handler' = IF ~exists[p] \/ (known /\ listed) THEN "idle"
                       ELSE IF known THEN "open" ELSE "watch"
         /\ wdCountLists' = IF exists[p] /\ known /\ ~listed
                              THEN [wdCountLists EXCEPT ![Dir[p]] = @ + 1]
                              ELSE wdCountLists
  /\ UNCHANGED <<monitoringLists, entry, wdKeyPathLists, thread, inotify, files,
                 reported>>

(* Mutant: the error of inotify_add_watch is not looked at. *)
AddWatchUnchecked ==
  /\ handler = "watch" /\ ~crashed
  /\ \/ /\ \E w \in Wds :
             /\ \/ watches[w] = Dir[path]
                \/ w = nextWd /\ \A x \in Wds : watches[x] # Dir[path]
             /\ wd' = w
             /\ watches' = [watches EXCEPT ![w] = Dir[path]]
             /\ nextWd' = IF w = nextWd THEN w + 1 ELSE nextWd
     \/ wd' = NoWd /\ UNCHANGED <<watches, nextWd>>
  /\ handler' = "keys"
  /\ UNCHANGED <<registry, path, calls, thread, queue, files, reported>>

(* inotify_add_watch: the descriptor of the directory, a new one if it has *)
(* none; or an error, and the request fails.                               *)
AddWatch ==
  /\ handler = "watch" /\ ~crashed
  /\ \/ /\ \E w \in Wds :
             /\ \/ watches[w] = Dir[path]
                \/ w = nextWd /\ \A x \in Wds : watches[x] # Dir[path]
             /\ wd' = w
             /\ watches' = [watches EXCEPT ![w] = Dir[path]]
             /\ nextWd' = IF w = nextWd THEN w + 1 ELSE nextWd
        /\ handler' = "keys"
     \/ handler' = "idle" /\ UNCHANGED <<wd, watches, nextWd>>
  /\ UNCHANGED <<registry, path, calls, thread, queue, files, reported>>

(* std::map::insert leaves a key that is there alone. *)
AddKeys ==
  /\ handler = "keys" /\ ~crashed
  /\ wdCountLists' = [wdCountLists EXCEPT ![Dir[path]] = 1]
  /\ wdKeyPathLists' = [wdKeyPathLists EXCEPT
                          ![wd] = IF @ = NoDir THEN Dir[path] ELSE @]
  /\ handler' = IF path \in monitoringLists THEN "idle" ELSE "open"
  /\ UNCHANGED <<monitoringLists, entry, path, wd, calls, thread, inotify,
                 files, reported>>

(* Mutant: the size is one too many. *)
AddOpenBeyond ==
  /\ handler = "open" /\ ~crashed
  /\ entry' = [entry EXCEPT ![path] = [wd |-> wd, size |-> EndPosition(path) + 1,
                                       open |-> exists[path]]]
  /\ handler' = "list"
  /\ UNCHANGED <<monitoringLists, wdCountLists, wdKeyPathLists, path, wd, calls,
                 thread, inotify, files, reported>>

(* The new entry, before it is listed: nobody else can see it yet. *)
AddOpen ==
  /\ handler = "open" /\ ~crashed
  /\ entry' = [entry EXCEPT ![path] = [wd |-> wd, size |-> EndPosition(path),
                                       open |-> exists[path]]]
  /\ handler' = "list"
  /\ UNCHANGED <<monitoringLists, wdCountLists, wdKeyPathLists, path, wd, calls,
                 thread, inotify, files, reported>>

AddList ==
  /\ handler = "list" /\ ~crashed
  /\ monitoringLists' = monitoringLists \cup {path}
  /\ handler' = "idle"
  /\ UNCHANGED <<entry, wdCountLists, wdKeyPathLists, path, wd, calls, thread,
                 inotify, files, reported>>

(***************************************************************************)
(* RemoveMonitoringTarget.                                                 *)
(***************************************************************************)
RemoveMonitoringTarget(p) ==
  /\ Request("remove", p)
  /\ IF exists[p] /\ p \in monitoringLists
       THEN /\ entry' = [entry EXCEPT ![p].open = FALSE]
            /\ handler' = "count"
       ELSE UNCHANGED <<entry, handler>>
  /\ UNCHANGED <<monitoringLists, wdCountLists, wdKeyPathLists, wd, thread,
                 inotify, files, reported>>

(* A count of 0, if there were one, would be left alone. *)
RemoveCount ==
  /\ handler = "count" /\ ~crashed
  /\ wdCountLists[Dir[path]] # 1
  /\ wdCountLists' = [wdCountLists EXCEPT ![Dir[path]] = IF @ > 1 THEN @ - 1 ELSE @]
  /\ handler' = "free"
  /\ UNCHANGED <<monitoringLists, entry, wdKeyPathLists, path, wd, calls,
                 thread, inotify, files, reported>>

(* Mutant: the watch goes with any file of the directory. *)
RemoveWatchEarly ==
  /\ handler = "count" /\ ~crashed
  /\ wdCountLists[Dir[path]] >= 1
  /\ LET w == entry[path].wd IN
       IF w \in Wds /\ watches[w] # NoDir
         THEN /\ watches' = [watches EXCEPT ![w] = NoDir]
              /\ wdKeyPathLists' = [wdKeyPathLists EXCEPT ![w] = NoDir]
              /\ wdCountLists' = [wdCountLists EXCEPT ![Dir[path]] = 0]
              /\ handler' = "free"
         ELSE /\ handler' = "idle"
              /\ UNCHANGED <<watches, wdKeyPathLists, wdCountLists>>
  /\ UNCHANGED <<monitoringLists, entry, path, wd, calls, thread, queue, nextWd,
                 files, reported>>

(* The last file of its directory: inotify_rm_watch of the descriptor in   *)
(* the entry.  When it fails the request ends here.                        *)
RemoveWatch ==
  /\ handler = "count" /\ ~crashed
  /\ wdCountLists[Dir[path]] = 1
  /\ LET w == entry[path].wd IN
       IF w \in Wds /\ watches[w] # NoDir
         THEN /\ watches' = [watches EXCEPT ![w] = NoDir]
              /\ wdKeyPathLists' = [wdKeyPathLists EXCEPT ![w] = NoDir]
              /\ wdCountLists' = [wdCountLists EXCEPT ![Dir[path]] = 0]
              /\ handler' = "free"
         ELSE /\ handler' = "idle"
              /\ UNCHANGED <<watches, wdKeyPathLists, wdCountLists>>
  /\ UNCHANGED <<monitoringLists, entry, path, wd, calls, thread, queue, nextWd,
                 files, reported>>

(* free(monitoringEvent), which the reader may be using, and the erase. *)
RemoveFree ==
  /\ handler = "free" /\ ~crashed
  /\ monitoringLists' = monitoringLists \ {path}
  /\ dangling' = (dangling \/ (reader \in {"modify", "move"} /\ used = path))
  /\ handler' = "idle"
  /\ UNCHANGED <<entry, wdCountLists, wdKeyPathLists, path, wd, calls, reader,
                 batch, used, crashed, inotify, files, reported>>

(***************************************************************************)
(* StartMonitoring.                                                        *)
(***************************************************************************)
ReaderRead ==
  /\ reader = "read" /\ ~crashed
  /\ queue # <<>>
  /\ batch' = queue /\ queue' = <<>>
  /\ reader' = "event"
  /\ UNCHANGED <<registry, request, used, dangling, crashed, watches, nextWd,
                 files, reported>>

(* wdKeyPathLists[event->wd] puts the empty string in for a descriptor it  *)
(* does not know; the path made of it is never listed.                     *)
ReaderLookup ==
  /\ reader = "event" /\ ~crashed
  /\ batch # <<>>
  /\ LET event == Head(batch)
         found == /\ wdKeyPathLists[event.wd] = Dir[event.path]
                  /\ event.path \in monitoringLists
     IN  /\ wdKeyPathLists' = [wdKeyPathLists EXCEPT
                                 ![event.wd] = IF @ = NoDir THEN Empty ELSE @]
         /\ used' = event.path
         /\ reader' = IF found THEN event.kind ELSE "event"
         /\ batch' = IF found THEN batch ELSE Tail(batch)
  /\ UNCHANGED <<monitoringLists, entry, wdCountLists, request, dangling,
                 crashed, inotify, files, reported>>

ReaderBatchDone ==
  /\ reader = "event" /\ ~crashed
  /\ batch = <<>>
  /\ reader' = "read"
  /\ UNCHANGED <<registry, request, batch, used, dangling, crashed, inotify,
                 files, reported>>

(* Mutant: the rest of the batch is forgotten. *)
NextBatch == reader' = "event" /\ batch' = <<>>

NextEvent == reader' = "event" /\ batch' = Tail(batch)

(* Mutant: the file that was moved in is read from its start. *)
ReaderMoveFromStart ==
  /\ reader = "move" /\ ~crashed /\ ~dangling
  /\ entry' = [entry EXCEPT ![used].open = exists[used], ![used].size = 0]
  /\ NextEvent
  /\ UNCHANGED <<monitoringLists, wdCountLists, wdKeyPathLists, request, used,
                 dangling, crashed, inotify, files, reported>>

(* IN_MOVE: the file is opened again; its size stays. *)
ReaderMove ==
  /\ reader = "move" /\ ~crashed /\ ~dangling
  /\ entry' = [entry EXCEPT ![used].open = exists[used]]
  /\ NextEvent
  /\ UNCHANGED <<monitoringLists, wdCountLists, wdKeyPathLists, request, used,
                 dangling, crashed, inotify, files, reported>>

(* Mutant: the first new line is skipped. *)
LinesAfter(p, from, to) ==
  IF from = -1 THEN (IF to > from THEN <<NoLine>> ELSE <<>>)
  ELSE SubSeq(content[p], from + 2, to)

(* The lines between two offsets.  seekg(-1) fails, and so do the reads    *)
(* that follow: the buffer stays filled with NUL bytes.                    *)
LinesBetween(p, from, to) ==
  IF from = -1 THEN (IF to > from THEN <<NoLine>> ELSE <<>>)
  ELSE SubSeq(content[p], from + 1, to)

(* IN_MODIFY: an open file is opened again, tellg gives its end (-1 for a  *)
(* file that is not open), and what lies beyond the old size is reported.  *)
(* message.resize of a negative length throws, and ends the thread.        *)
ReaderModify ==
  /\ reader = "modify" /\ ~crashed /\ ~dangling
  /\ LET open == entry[used].open /\ exists[used]
         size == IF open THEN Len(content[used]) ELSE -1
         old  == entry[used].size
     IN  IF size < old
           THEN /\ reader' = "dead"
                /\ entry' = [entry EXCEPT ![used].open = open]
                /\ UNCHANGED <<batch, reported>>
           ELSE /\ entry' = [entry EXCEPT ![used].open = open,
                                          ![used].size = size]
                /\ reported' = [reported EXCEPT
                                  ![used] = @ \o LinesBetween(used, old, size)]
                /\ NextEvent
  /\ UNCHANGED <<monitoringLists, wdCountLists, wdKeyPathLists, request, used,
                 dangling, crashed, inotify, files>>

(* The entry was freed: the process dies, an exception ends the thread, or *)
(* what is left in the memory makes the event pass without a line.         *)
ReaderDangling ==
  /\ reader \in {"modify", "move"} /\ ~crashed /\ dangling
  /\ dangling' = FALSE
  /\ crashed' \in BOOLEAN
  /\ NextEvent \/ (reader' = "dead" /\ UNCHANGED batch)
  /\ UNCHANGED <<registry, request, used, inotify, files, reported>>

(***************************************************************************)
(* Other programs.  An event goes to the watch of the directory, if any;   *)
(* an IN_MODIFY is merged with an equal one at the end of the queue (moves *)
(* differ in their cookies).                                               *)
(***************************************************************************)
Notify(kind, p) ==
  queue' =
    IF \E w \in Wds : watches[w] = Dir[p]
      THEN LET event == [wd |-> CHOOSE w \in Wds : watches[w] = Dir[p],
                         kind |-> kind, path |-> p]
           IN  IF kind = "modify" /\ queue # <<>> /\ queue[Len(queue)] = event
                 THEN queue ELSE Append(queue, event)
      ELSE queue

FileOp(op) ==
  /\ op \in FileOps /\ ops < MaxOps
  /\ ops' = ops + 1
  /\ UNCHANGED <<registry, request, thread, watches, nextWd, reported>>

AppendLine(p) ==
  /\ FileOp("append")
  /\ exists[p]
  /\ lines' = [lines EXCEPT ![p] = @ + 1]
  /\ content' = [content EXCEPT ![p] = Append(@, lines[p] + 1)]
  /\ Notify("modify", p)
  /\ UNCHANGED exists

Truncate(p) ==
  /\ FileOp("truncate")
  /\ exists[p] /\ content[p] # <<>>
  /\ content' = [content EXCEPT ![p] = <<>>]
  /\ Notify("modify", p)
  /\ UNCHANGED <<exists, lines>>

(* An editor moves the file out of the way ... *)
MoveAway(p) ==
  /\ FileOp("moveAway")
  /\ exists[p]
  /\ exists' = [exists EXCEPT ![p] = FALSE]
  /\ Notify("move", p)
  /\ UNCHANGED <<content, lines>>

(* ... and makes it anew: its lines are appended afterwards. *)
Create(p) ==
  /\ FileOp("create")
  /\ ~exists[p]
  /\ exists' = [exists EXCEPT ![p] = TRUE]
  /\ content' = [content EXCEPT ![p] = <<>>]
  /\ UNCHANGED <<lines, queue>>

(* Or it moves a finished copy over it: some old lines and a new one. *)
MoveIn(p) ==
  /\ FileOp("moveIn")
  /\ exists' = [exists EXCEPT ![p] = TRUE]
  /\ lines' = [lines EXCEPT ![p] = @ + 1]
  /\ \E k \in 0 .. Len(content[p]) :
       content' = [content EXCEPT ![p] = Append(SubSeq(@, 1, k), lines[p] + 1)]
  /\ Notify("move", p)

-----------------------------------------------------------------------------
Handler ==
  \/ AddWatch \/ AddKeys \/ AddOpen \/ AddList
  \/ RemoveCount \/ RemoveWatch \/ RemoveFree

StartMonitoring ==
  \/ ReaderRead \/ ReaderLookup \/ ReaderBatchDone \/ ReaderMove
  \/ ReaderModify \/ ReaderDangling

OtherPrograms ==
  \E p \in Paths :
    AppendLine(p) \/ Truncate(p) \/ MoveAway(p) \/ Create(p) \/ MoveIn(p)

Next ==
  \/ \E p \in Paths : AddMonitoringTarget(p) \/ RemoveMonitoringTarget(p)
  \/ Handler
  \/ StartMonitoring
  \/ OtherPrograms

Spec == Init /\ [][Next]_vars

(* Both threads keep running; nothing obliges the server or the programs   *)
(* that write the files.                                                   *)
FairSpec == Spec /\ WF_vars(Handler) /\ WF_vars(StartMonitoring)

-----------------------------------------------------------------------------
(* The type of every variable. *)
TypeOK ==
  /\ monitoringLists \subseteq Paths
  /\ entry \in [Paths -> Entries]
  /\ wdCountLists \in [Dirs -> Nat]
  /\ wdKeyPathLists \in [Wds -> Dirs \cup {NoDir, Empty}]
  /\ handler \in {"idle", "watch", "keys", "open", "list", "count", "free"}
  /\ path \in Paths /\ wd \in Int /\ calls \in 0 .. MaxCalls
  /\ handler = "keys" => wd \in Wds
  /\ reader \in {"read", "event", "modify", "move", "dead"}
  /\ used \in Paths /\ dangling \in BOOLEAN /\ crashed \in BOOLEAN
  /\ watches \in [Wds -> Dirs \cup {NoDir}] /\ nextWd \in 1 .. MaxWatches + 1
  /\ \A events \in {queue, batch} :
       events \in Seq([wd : Wds, kind : {"modify", "move"}, path : Paths])
  /\ content \in [Paths -> Seq(Nat)] /\ exists \in [Paths -> BOOLEAN]
  /\ lines \in [Paths -> Nat] /\ ops \in 0 .. MaxOps
  /\ reported \in [Paths -> Seq(Nat)]

(* What a step of a handler knows of the file it is about (the theorem on  *)
(* the counts rests on it).                                                *)
HandlerInv ==
  /\ handler \in {"open", "list"} => path \notin monitoringLists
  /\ handler \in {"count", "free"} => path \in monitoringLists
  /\ handler \in {"watch", "keys"} => wdCountLists[Dir[path]] = 0

ListedIn(d) == {p \in monitoringLists : Dir[p] = d}

(* The count of a directory is the number of its files that are listed,    *)
(* whatever fails on the way (CMonitoring.cpp:52-56, 66, 120-138): it      *)
(* decides whether a Remove takes the watch away from the other files.     *)
CountMatchesTargets ==
  \A d \in Dirs :
    LET here(labels) == IF handler \in labels /\ Dir[path] = d THEN 1 ELSE 0
    IN  wdCountLists[d] + here({"free"})
          = Cardinality(ListedIn(d)) + here({"open", "list"})

(* Between requests the directory of every listed file is watched: no      *)
(* Remove stops the watch of a directory that is still needed              *)
(* (CMonitoring.cpp:49, 127-137).                                          *)
ListedIsWatched ==
  handler = "idle" =>
    \A p \in monitoringLists : \E w \in Wds : watches[w] = Dir[p]

(* The thread of StartMonitoring is not ended by an exception, nor the     *)
(* process by a freed entry (CMonitoring.cpp:140, 173-240).                *)
ReaderSurvives == reader # "dead" /\ ~crashed

(* No line is reported twice or after a later one, over any sequence of    *)
(* requests, events and editors (CMonitoring.cpp:80, 173-191, 210-236).    *)
ReportedInOrder ==
  \A p \in Paths : \A i, j \in 1 .. Len(reported[p]) :
    i < j /\ reported[p][j] # NoLine => reported[p][i] < reported[p][j]

(* What is reported of a file has no gap, when events arrive late, merged, *)
(* or before the file is listed (CMonitoring.cpp:80, 210-218).             *)
ReportedWithoutGaps ==
  \A p \in Paths : \A i \in 2 .. Len(reported[p]) :
    reported[p][i] = reported[p][i - 1] + 1

(* A line of a listed file is reported in the end if an event of the file  *)
(* is waiting, however the events were merged and whatever the reader was  *)
(* doing when they came (CMonitoring.cpp:153-246).                         *)
Unreported(p, n) ==
  /\ p \in monitoringLists
  /\ \E i \in 1 .. Len(queue) :
       queue[i].path = p /\ wdKeyPathLists[queue[i].wd] = Dir[p]
  /\ \E i \in 1 .. Len(content[p]) : content[p][i] = n /\ i > entry[p].size

AllReported ==
  \A p \in Paths, n \in 1 .. MaxOps :
    Unreported(p, n)
      ~> \E i \in 1 .. Len(reported[p]) : reported[p][i] = n
=============================================================================
