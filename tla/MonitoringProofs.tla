--------------------------- MODULE MonitoringProofs ---------------------------
(***************************************************************************)
(* Theorems about Monitoring: the counts that decide which watches are     *)
(* taken away are right, every variable keeps its type, and lines are      *)
(* reported in order, for any files, directories, requests and failures;   *)
(* and of files that only grow, every line from the first reported one on. *)
(***************************************************************************)
EXTENDS Monitoring, FiniteSetTheorems, SequenceTheorems, TLAPS

(* The types the counts depend on. *)
RegistryType ==
  /\ monitoringLists \subseteq Paths
  /\ wdCountLists \in [Dirs -> Nat]
  /\ path \in Paths

(* Before a file is counted and not listed, or the other way round.        *)
Pending(d) ==
  IF Dir[path] # d THEN 0
  ELSE IF handler = "free" THEN -1
  ELSE IF handler \in {"open", "list"} THEN 1 ELSE 0

CountInv == \A d \in Dirs :
  wdCountLists[d] = Cardinality(ListedIn(d)) + Pending(d)

RegistryInv == RegistryType /\ HandlerInv /\ CountInv

(* The listed files of a directory are finitely many.                      *)
LEMMA ListedFinite ==
  ASSUME monitoringLists \subseteq Paths, NEW d \in Dirs
  PROVE  IsFiniteSet(ListedIn(d)) /\ Cardinality(ListedIn(d)) \in Nat
<1>1. ListedIn(d) \in SUBSET Paths
  BY DEF ListedIn
<1>2. IsFiniteSet(ListedIn(d))
  BY <1>1, FS_Subset, DirAssumption
<1> QED
  BY <1>2, FS_CardinalityType

(* The invariant in the terms of the property.                             *)
LEMMA CountIsMatch == RegistryInv => CountMatchesTargets
<1> SUFFICES ASSUME RegistryInv, NEW d \in Dirs
             PROVE  LET here(labels) ==
                          IF handler \in labels /\ Dir[path] = d THEN 1 ELSE 0
                    IN  wdCountLists[d] + here({"free"})
                          = Cardinality(ListedIn(d)) + here({"open", "list"})
  BY DEF CountMatchesTargets
<1>1. wdCountLists[d] \in Nat /\ Cardinality(ListedIn(d)) \in Nat
  BY ListedFinite DEF RegistryInv, RegistryType
<1>2. wdCountLists[d] = Cardinality(ListedIn(d)) + Pending(d)
  BY DEF RegistryInv, CountInv
<1> QED
  BY <1>1, <1>2 DEF Pending

(* At first nothing is listed and nothing is counted.                      *)
LEMMA RegistryInit == Init => RegistryInv
<1> SUFFICES ASSUME Init PROVE RegistryInv
  OBVIOUS
<1>1. RegistryType /\ HandlerInv
  BY DEF Init, RegistryType, HandlerInv
<1>2. \A d \in Dirs : ListedIn(d) = {}
  BY DEF Init, ListedIn
<1>3. Cardinality({}) = 0
  BY FS_EmptySet
<1>4. \A d \in Dirs : wdCountLists[d] = 0 /\ Pending(d) = 0
  BY DEF Init, Pending
<1>5. \A d \in Dirs : Cardinality(ListedIn(d)) = 0
  BY <1>2, <1>3
<1>6. CountInv
  BY <1>4, <1>5 DEF CountInv
<1> QED
  BY <1>1, <1>6 DEF RegistryInv

(* A step that lists and removes no file keeps the listed files of every   *)
(* directory.                                                              *)
LEMMA SameListed ==
  ASSUME UNCHANGED monitoringLists, NEW d \in Dirs
  PROVE  ListedIn(d)' = ListedIn(d)
  BY DEF ListedIn

(* A step that touches neither the lists nor the handler keeps all of it:  *)
(* the reader and the other programs.                                      *)
LEMMA RegistrySame ==
  ASSUME RegistryInv, UNCHANGED <<monitoringLists, wdCountLists, handler, path>>
  PROVE  RegistryInv'
<1>1. RegistryType' /\ HandlerInv'
  BY DEF RegistryInv, RegistryType, HandlerInv
<1>2. CountInv'
  BY SameListed DEF RegistryInv, CountInv, Pending
<1> QED
  BY <1>1, <1>2 DEF RegistryInv

(* The steps of AddMonitoringTarget (:23-87).                              *)
LEMMA RegistryAdd ==
  ASSUME RegistryInv,
         \/ \E p \in Paths : AddMonitoringTarget(p)
         \/ AddWatch \/ AddKeys \/ AddOpen \/ AddList
  PROVE  RegistryInv'
<1> USE DirAssumption DEF RegistryInv, RegistryType, HandlerInv, CountInv, Pending
<1>f. \A d \in Dirs : IsFiniteSet(ListedIn(d)) /\ Cardinality(ListedIn(d)) \in Nat
  BY ListedFinite
<1>1. ASSUME NEW p \in Paths, AddMonitoringTarget(p) PROVE RegistryInv'
  BY <1>1, <1>f, SameListed DEF AddMonitoringTarget, Request
<1>2. CASE AddWatch
  BY <1>2, <1>f, SameListed DEF AddWatch, registry
<1>3. CASE AddKeys
  <2>1. Cardinality(ListedIn(Dir[path])) = 0
    BY <1>3, <1>f DEF AddKeys
  <2>2. ListedIn(Dir[path]) = {}
    BY <2>1, <1>f, FS_EmptySet
  <2>3. path \notin monitoringLists
    BY <2>2 DEF ListedIn
  <2> QED
    BY <1>3, <1>f, <2>1, <2>3, SameListed DEF AddKeys
<1>4. CASE AddOpen
  BY <1>4, <1>f, SameListed DEF AddOpen
<1>5. CASE AddList
  <2>1. ListedIn(Dir[path])' = ListedIn(Dir[path]) \cup {path}
    BY <1>5 DEF AddList, ListedIn
  <2>2. path \notin ListedIn(Dir[path])
    BY <1>5 DEF AddList, ListedIn
  <2>3. Cardinality(ListedIn(Dir[path])') = Cardinality(ListedIn(Dir[path])) + 1
    BY <2>1, <2>2, <1>f, FS_AddElement
  <2>4. \A d \in Dirs : d # Dir[path] => ListedIn(d)' = ListedIn(d)
    BY <1>5 DEF AddList, ListedIn
  <2> QED
    BY <1>5, <1>f, <2>3, <2>4 DEF AddList
<1> QED
  BY <1>1, <1>2, <1>3, <1>4, <1>5

(* The steps of RemoveMonitoringTarget (:89-151).                          *)
LEMMA RegistryRemove ==
  ASSUME RegistryInv,
         \/ \E p \in Paths : RemoveMonitoringTarget(p)
         \/ RemoveCount \/ RemoveWatch \/ RemoveFree
  PROVE  RegistryInv'
<1> USE DirAssumption DEF RegistryInv, RegistryType, HandlerInv, CountInv, Pending
<1>f. \A d \in Dirs : IsFiniteSet(ListedIn(d)) /\ Cardinality(ListedIn(d)) \in Nat
  BY ListedFinite
<1>1. ASSUME NEW p \in Paths, RemoveMonitoringTarget(p) PROVE RegistryInv'
  BY <1>1, <1>f, SameListed DEF RemoveMonitoringTarget, Request
<1>2. CASE RemoveCount
  <2>1. path \in ListedIn(Dir[path])
    BY <1>2 DEF RemoveCount, ListedIn
  <2>2. Cardinality(ListedIn(Dir[path])) # 0
    BY <2>1, <1>f, FS_EmptySet
  <2>3. wdCountLists[Dir[path]] > 1
    BY <1>2, <2>2, <1>f DEF RemoveCount
  <2> QED
    BY <1>2, <1>f, <2>3, SameListed DEF RemoveCount
<1>3. CASE RemoveWatch
  BY <1>3, <1>f, SameListed DEF RemoveWatch
<1>4. CASE RemoveFree
  <2>1. ListedIn(Dir[path])' = ListedIn(Dir[path]) \ {path}
    BY <1>4 DEF RemoveFree, ListedIn
  <2>2. path \in ListedIn(Dir[path])
    BY <1>4 DEF RemoveFree, ListedIn
  <2>3. Cardinality(ListedIn(Dir[path])') = Cardinality(ListedIn(Dir[path])) - 1
    <3>1. IsFiniteSet(ListedIn(Dir[path]))
      BY <1>f
    <3>2. Cardinality(ListedIn(Dir[path]) \ {path})
            = Cardinality(ListedIn(Dir[path])) - 1
      BY <3>1, <2>2, FS_RemoveElement
    <3> QED
      BY <2>1, <3>2
  <2>4. \A d \in Dirs : d # Dir[path] => ListedIn(d)' = ListedIn(d)
    BY <1>4 DEF RemoveFree, ListedIn
  <2> QED
    BY <1>4, <1>f, <2>3, <2>4 DEF RemoveFree
<1> QED
  BY <1>1, <1>2, <1>3, <1>4

(* RegistryInv is inductive.                                               *)
LEMMA RegistryNext == RegistryInv /\ [Next]_vars => RegistryInv'
<1> SUFFICES ASSUME RegistryInv, [Next]_vars PROVE RegistryInv'
  OBVIOUS
<1>1. CASE StartMonitoring
  BY <1>1, RegistrySame DEF StartMonitoring, ReaderRead, ReaderLookup,
     ReaderBatchDone, ReaderMove, ReaderModify, ReaderDangling, registry, request
<1>2. CASE OtherPrograms
  BY <1>2, RegistrySame DEF OtherPrograms, AppendLine, Truncate, MoveAway,
     Create, MoveIn, FileOp, registry, request
<1>3. CASE UNCHANGED vars
  BY <1>3, RegistrySame DEF vars, registry, request
<1> QED
  BY <1>1, <1>2, <1>3, RegistryAdd, RegistryRemove DEF Next, Handler

(* The count of a directory is the number of its listed files, whatever is *)
(* requested and fails, for any files and directories                      *)
(* (CMonitoring.cpp:52-56, 66, 120-138).                                   *)
THEOREM CountsCorrect == Spec => []CountMatchesTargets
  BY RegistryInit, RegistryNext, CountIsMatch, PTL DEF Spec

-----------------------------------------------------------------------------
(* The types, by the part of the state that a step works on.               *)
Events == [wd : Wds, kind : {"modify", "move"}, path : Paths]

HandlerType ==
  /\ monitoringLists \subseteq Paths
  /\ wdCountLists \in [Dirs -> Nat]
  /\ handler \in {"idle", "watch", "keys", "open", "list", "count", "free"}
  /\ path \in Paths /\ wd \in Int /\ calls \in 0 .. MaxCalls
  /\ handler = "keys" => wd \in Wds

SharedType ==
  /\ entry \in [Paths -> Entries]
  /\ wdKeyPathLists \in [Wds -> Dirs \cup {NoDir, Empty}]

ReaderType ==
  /\ reader \in {"read", "event", "modify", "move", "dead"}
  /\ batch \in Seq(Events)
  /\ reader \in {"modify", "move"} => batch # <<>>
  /\ used \in Paths /\ dangling \in BOOLEAN /\ crashed \in BOOLEAN

WatchesType ==
  watches \in [Wds -> Dirs \cup {NoDir}] /\ nextWd \in 1 .. MaxWatches + 1

FilesType ==
  /\ queue \in Seq(Events)
  /\ content \in [Paths -> Seq(Nat)] /\ exists \in [Paths -> BOOLEAN]
  /\ lines \in [Paths -> Nat] /\ ops \in 0 .. MaxOps

Types ==
  /\ HandlerType /\ SharedType /\ ReaderType /\ WatchesType /\ FilesType
  /\ reported \in [Paths -> Seq(Nat)]

LEMMA TypesAreTypeOK == Types => TypeOK
BY DEF Types, HandlerType, SharedType, ReaderType, WatchesType, FilesType, TypeOK, Events

LEMMA TypeInit == Init => Types
<1> SUFFICES ASSUME Init PROVE Types
  OBVIOUS
<1> USE BoundsAssumption, DirAssumption DEF Init
<1>1. HandlerType
  BY DEF HandlerType, NoWd
<1>2. SharedType
  <2>1. [wd |-> NoWd, size |-> 0, open |-> FALSE] \in Entries
    BY DEF Entries, NoWd
  <2> QED
    BY <2>1 DEF SharedType
<1>3. ReaderType
  <2>1. <<>> \in Seq(Events)
    OBVIOUS
  <2>2. /\ reader = "read" /\ batch = <<>> /\ used \in Paths
        /\ dangling = FALSE /\ crashed = FALSE
    OBVIOUS
  <2> QED
    BY <2>1, <2>2 DEF ReaderType
<1>4. WatchesType
  BY DEF WatchesType
<1>5. FilesType /\ reported \in [Paths -> Seq(Nat)]
  <2>1. <<>> \in Seq(Nat) /\ <<>> \in Seq(Events)
    OBVIOUS
  <2> QED
    BY <2>1 DEF FilesType
<1> QED
  BY <1>1, <1>2, <1>3, <1>4, <1>5 DEF Types

(* AddMonitoringTarget (:23-87). *)
LEMMA TypeAdd ==
  ASSUME Types,
         \/ \E p \in Paths : AddMonitoringTarget(p)
         \/ AddWatch \/ AddKeys \/ AddOpen \/ AddList
  PROVE  Types'
<1> USE BoundsAssumption, DirAssumption
<1>1. ASSUME UNCHANGED <<thread, queue, files, reported>>
      PROVE  ReaderType' /\ FilesType' /\ (reported \in [Paths -> Seq(Nat)])'
  BY <1>1 DEF Types, ReaderType, FilesType, thread, files
<1>2. ASSUME NEW p \in Paths, AddMonitoringTarget(p) PROVE Types'
  <2>1. /\ wd' \in Int /\ handler' \in {"idle", "open", "watch"}
        /\ wdCountLists' \in [Dirs -> Nat]
        /\ calls' \in 0 .. MaxCalls /\ path' \in Paths
    BY <1>2 DEF AddMonitoringTarget, Request, Types, HandlerType, NoWd
  <2>2. UNCHANGED <<monitoringLists, entry, wdKeyPathLists, thread, inotify,
                    files, reported>>
    BY <1>2 DEF AddMonitoringTarget
  <2> QED
    BY <1>1, <2>1, <2>2 DEF Types, HandlerType, SharedType, WatchesType, inotify
<1>3. CASE AddWatch
  <2>1. UNCHANGED <<registry, path, calls, thread, queue, files, reported>>
    BY <1>3 DEF AddWatch
  <2>2. CASE handler' = "idle" /\ UNCHANGED <<wd, watches, nextWd>>
    BY <1>1, <2>1, <2>2 DEF Types, HandlerType, SharedType, WatchesType, registry
  <2>3. ASSUME NEW w \in Wds, wd' = w, handler' = "keys",
               watches' = [watches EXCEPT ![w] = Dir[path]],
               nextWd' = IF w = nextWd THEN w + 1 ELSE nextWd
        PROVE  Types'
    <3>1. WatchesType'
      BY <2>3 DEF Types, HandlerType, WatchesType, Wds
    <3>2. HandlerType'
      BY <2>1, <2>3 DEF Types, HandlerType, Wds, registry
    <3> QED
      BY <1>1, <2>1, <3>1, <3>2 DEF Types, SharedType, registry
  <2> QED
    BY <1>3, <2>2, <2>3 DEF AddWatch
<1>4. CASE AddKeys
  <2>1. wdKeyPathLists' \in [Wds -> Dirs \cup {NoDir, Empty}]
    BY <1>4 DEF AddKeys, Types, SharedType, HandlerType
  <2>2. HandlerType'
    BY <1>4 DEF AddKeys, Types, HandlerType
  <2> QED
    BY <1>1, <1>4, <2>1, <2>2 DEF AddKeys, Types, SharedType, WatchesType, inotify
<1>5. CASE AddOpen
  <2>1. [wd |-> wd, size |-> EndPosition(path), open |-> exists[path]] \in Entries
    BY DEF Types, HandlerType, FilesType, Entries, EndPosition
  <2> QED
    BY <1>1, <1>5, <2>1 DEF AddOpen, Types, HandlerType, SharedType, WatchesType,
       inotify
<1>6. CASE AddList
  BY <1>1, <1>6 DEF AddList, Types, HandlerType, SharedType, WatchesType, inotify
<1> QED
  BY <1>2, <1>3, <1>4, <1>5, <1>6

(* RemoveMonitoringTarget (:89-151). *)
LEMMA TypeRemove ==
  ASSUME Types,
         \/ \E p \in Paths : RemoveMonitoringTarget(p)
         \/ RemoveCount \/ RemoveWatch \/ RemoveFree
  PROVE  Types'
<1> USE BoundsAssumption, DirAssumption
<1>1. ASSUME UNCHANGED <<reader, batch, used, crashed, queue, files, reported>>,
             dangling' \in BOOLEAN
      PROVE  ReaderType' /\ FilesType' /\ (reported \in [Paths -> Seq(Nat)])'
  BY <1>1 DEF Types, ReaderType, FilesType, files
<1>t. dangling \in BOOLEAN
  BY DEF Types, ReaderType
<1>2. ASSUME NEW p \in Paths, RemoveMonitoringTarget(p) PROVE Types'
  <2>1. entry' \in [Paths -> Entries] /\ handler' \in {"count", handler}
    <3>1. entry \in [Paths -> Entries] /\ entry[p] \in Entries
      BY DEF Types, SharedType
    <3>2. [entry[p] EXCEPT !.open = FALSE] \in Entries
      BY <3>1 DEF Entries
    <3>3. CASE exists[p] /\ p \in monitoringLists
      <4>1. entry' = [entry EXCEPT ![p] = [entry[p] EXCEPT !.open = FALSE]]
        BY <1>2, <3>1, <3>3 DEF RemoveMonitoringTarget
      <4> QED
        BY <1>2, <3>1, <3>2, <3>3, <4>1 DEF RemoveMonitoringTarget
    <3>4. CASE ~(exists[p] /\ p \in monitoringLists)
      BY <1>2, <3>1, <3>4 DEF RemoveMonitoringTarget
    <3> QED
      BY <3>3, <3>4
  <2>2. /\ calls' \in 0 .. MaxCalls /\ path' \in Paths
        /\ UNCHANGED <<monitoringLists, wdCountLists, wdKeyPathLists, wd, thread,
                       inotify, files, reported>>
    BY <1>2 DEF RemoveMonitoringTarget, Request, Types, HandlerType
  <2> QED
    BY <1>1, <1>t, <2>1, <2>2 DEF Types, HandlerType, SharedType, WatchesType,
       thread, inotify
<1>3. CASE RemoveCount
  BY <1>1, <1>t, <1>3 DEF RemoveCount, Types, HandlerType, SharedType, WatchesType,
     thread, inotify
<1>4. CASE RemoveWatch
  <2>1. /\ UNCHANGED <<monitoringLists, entry, path, wd, calls, thread, queue, nextWd,
                       files, reported>>
        /\ handler' \in {"idle", "free"}
    BY <1>4 DEF RemoveWatch
  <2>2. /\ watches' \in [Wds -> Dirs \cup {NoDir}]
        /\ wdKeyPathLists' \in [Wds -> Dirs \cup {NoDir, Empty}]
        /\ wdCountLists' \in [Dirs -> Nat]
    <3> DEFINE w == entry[path].wd
    <3>1. CASE w \in Wds /\ watches[w] # NoDir
      <4>1. /\ watches' = [watches EXCEPT ![w] = NoDir]
            /\ wdKeyPathLists' = [wdKeyPathLists EXCEPT ![w] = NoDir]
            /\ wdCountLists' = [wdCountLists EXCEPT ![Dir[path]] = 0]
        BY <1>4, <3>1 DEF RemoveWatch
      <4> HIDE DEF w
      <4> QED
        BY <4>1 DEF Types, HandlerType, SharedType, WatchesType
    <3>2. CASE ~(w \in Wds /\ watches[w] # NoDir)
      <4>1. UNCHANGED <<watches, wdKeyPathLists, wdCountLists>>
        BY <1>4, <3>2 DEF RemoveWatch
      <4> QED
        BY <4>1 DEF Types, HandlerType, SharedType, WatchesType
    <3> QED
      BY <3>1, <3>2
  <2> QED
    BY <1>1, <1>t, <2>1, <2>2 DEF Types, HandlerType, SharedType, WatchesType, thread
<1>5. CASE RemoveFree
  BY <1>1, <1>t, <1>5 DEF RemoveFree, Types, HandlerType, SharedType, WatchesType,
     inotify
<1> QED
  BY <1>2, <1>3, <1>4, <1>5

LEMMA NextEventType ==
  ASSUME Types, reader \in {"modify", "move"}, NextEvent
  PROVE  batch' \in Seq(Events) /\ reader' = "event"
BY HeadTailProperties DEF Types, ReaderType, NextEvent

(* What is reported are lines of the file, or one of NUL bytes.            *)
LEMMA LinesType ==
  ASSUME Types, NEW p \in Paths, NEW from \in Int, NEW to \in Int,
         from >= -1, to <= Len(content[p])
  PROVE  LinesBetween(p, from, to) \in Seq(Nat)
<1>1. CASE from = -1
  BY <1>1 DEF LinesBetween, NoLine
<1>2. CASE from # -1
  <2>1. content[p] \in Seq(Nat)
    BY DEF Types, FilesType
  <2>2. \A i \in from + 1 .. to : content[p][i] \in Nat
    BY <1>2, <2>1, SMTT(40)
  <2>3. SubSeq(content[p], from + 1, to) \in Seq(Nat)
    BY <2>2, SubSeqProperties
  <2> QED
    BY <1>2, <2>3 DEF LinesBetween
<1> QED
  BY <1>1, <1>2

(* StartMonitoring (:153-246). *)
LEMMA TypeReader == Types /\ StartMonitoring => Types'
<1> SUFFICES ASSUME Types, StartMonitoring PROVE Types'
  OBVIOUS
<1>1. ASSUME UNCHANGED <<registry, request, inotify, files, reported>>, ReaderType'
      PROVE  Types'
  BY <1>1 DEF Types, HandlerType, SharedType, WatchesType, FilesType, registry,
     request, inotify, files
<1>t. /\ used \in Paths /\ dangling \in BOOLEAN /\ crashed \in BOOLEAN
      /\ batch \in Seq(Events)
  BY DEF Types, ReaderType
<1>2. CASE ReaderRead
  <2>1. ReaderType'
    BY <1>2, <1>t DEF ReaderRead, ReaderType, Types, FilesType
  <2>2. queue' \in Seq(Events)
    BY <1>2 DEF ReaderRead
  <2> QED
    BY <1>2, <2>1, <2>2 DEF ReaderRead, Types, HandlerType, SharedType, WatchesType,
       FilesType, registry, request, files
<1>3. CASE ReaderLookup
  <2> DEFINE event == Head(batch)
  <2>1. event \in Events /\ Tail(batch) \in Seq(Events) /\ batch # <<>>
    BY <1>3, <1>t, HeadTailProperties DEF ReaderLookup
  <2>2. /\ wdKeyPathLists' = [wdKeyPathLists EXCEPT
                                ![event.wd] = IF @ = NoDir THEN Empty ELSE @]
        /\ used' = event.path
        /\ \/ reader' = event.kind /\ batch' = batch
           \/ reader' = "event" /\ batch' = Tail(batch)
        /\ UNCHANGED <<monitoringLists, entry, wdCountLists, request, dangling,
                       crashed, inotify, files, reported>>
    BY <1>3 DEF ReaderLookup
  <2>3. event.wd \in Wds /\ event.kind \in {"modify", "move"} /\ event.path \in Paths
    BY <2>1 DEF Events
  <2> HIDE DEF event
  <2>4. ReaderType'
    BY <1>t, <2>1, <2>2, <2>3 DEF ReaderType
  <2>5. SharedType'
    BY <2>2, <2>3 DEF SharedType, Types
  <2> QED
    BY <2>2, <2>4, <2>5 DEF Types, HandlerType, WatchesType, FilesType, request,
       inotify, files
<1>4. CASE ReaderBatchDone
  BY <1>1, <1>4, <1>t DEF ReaderBatchDone, ReaderType
<1>5. CASE ReaderMove
  <2>1. ReaderType'
    BY <1>5, <1>t, NextEventType DEF ReaderMove, ReaderType
  <2>2. SharedType'
    BY <1>5, <1>t DEF ReaderMove, Types, SharedType, Entries, FilesType
  <2> QED
    BY <1>5, <2>1, <2>2 DEF ReaderMove, Types, HandlerType, WatchesType, FilesType,
       request, inotify, files
<1>6. CASE ReaderModify
  <2> DEFINE open == entry[used].open /\ exists[used]
             size == IF open THEN Len(content[used]) ELSE -1
             old == entry[used].size
  <2>1. /\ open \in BOOLEAN /\ size \in Nat \cup {-1} /\ old \in Nat \cup {-1}
        /\ size <= Len(content[used])
    BY <1>t DEF Types, SharedType, FilesType, Entries
  <2>2. UNCHANGED <<monitoringLists, wdCountLists, wdKeyPathLists, request, used,
                    dangling, crashed, inotify, files>>
    BY <1>6 DEF ReaderModify
  <2>3. CASE size < old
    <3>1. /\ reader' = "dead" /\ batch' = batch /\ reported' = reported
          /\ entry' = [entry EXCEPT ![used].open = open]
      BY <1>6, <2>3 DEF ReaderModify
    <3> HIDE DEF open, size, old
    <3>2. SharedType' /\ ReaderType'
      BY <1>t, <2>1, <2>2, <3>1 DEF Types, SharedType, Entries, ReaderType
    <3> QED
      BY <2>2, <3>1, <3>2 DEF Types, HandlerType, WatchesType, FilesType,
         request, inotify, files
  <2>4. CASE ~(size < old)
    <3>1. /\ NextEvent
          /\ entry' = [entry EXCEPT ![used].open = open, ![used].size = size]
          /\ reported' = [reported EXCEPT
                            ![used] = @ \o LinesBetween(used, old, size)]
      BY <1>6, <2>4 DEF ReaderModify
    <3> HIDE DEF open, size, old
    <3>2. SharedType'
      BY <1>t, <2>1, <2>2, <3>1 DEF Types, SharedType, Entries
    <3>3. ReaderType'
      BY <1>6, <1>t, <2>2, <3>1, NextEventType DEF ReaderModify, ReaderType
    <3>4. LinesBetween(used, old, size) \in Seq(Nat)
      BY <1>t, <2>1, <2>4, LinesType
    <3>5. reported' \in [Paths -> Seq(Nat)]
      <4>1. reported[used] \in Seq(Nat)
        BY <1>t DEF Types
      <4>2. reported[used] \o LinesBetween(used, old, size) \in Seq(Nat)
        BY <3>4, <4>1, ConcatProperties
      <4> QED
        BY <3>1, <4>2 DEF Types
    <3> QED
      BY <2>2, <3>1, <3>2, <3>3, <3>5 DEF Types, HandlerType, WatchesType, FilesType,
         request, inotify, files
  <2> QED
    BY <2>3, <2>4
<1>7. CASE ReaderDangling
  BY <1>1, <1>7, <1>t, NextEventType DEF ReaderDangling, ReaderType
<1> QED
  BY <1>2, <1>3, <1>4, <1>5, <1>6, <1>7 DEF StartMonitoring

(* An event goes to the watch of its directory. *)
LEMMA NotifyType ==
  ASSUME Types, NEW kind \in {"modify", "move"}, NEW p \in Paths, Notify(kind, p)
  PROVE  queue' \in Seq(Events)
<1>1. queue \in Seq(Events)
  BY DEF Types, FilesType
<1>2. CASE \E w \in Wds : watches[w] = Dir[p]
  <2> DEFINE event == [wd |-> CHOOSE w \in Wds : watches[w] = Dir[p],
                       kind |-> kind, path |-> p]
  <2>1. event \in Events
    BY <1>2 DEF Events
  <2>2. queue' = queue \/ queue' = Append(queue, event)
    BY <1>2 DEF Notify
  <2> HIDE DEF event
  <2> QED
    BY <1>1, <2>1, <2>2, AppendProperties
<1>3. CASE ~\E w \in Wds : watches[w] = Dir[p]
  BY <1>1, <1>3 DEF Notify
<1> QED
  BY <1>2, <1>3

LEMMA TypePrograms == Types /\ OtherPrograms => Types'
<1> SUFFICES ASSUME Types, OtherPrograms PROVE Types'
  OBVIOUS
<1> USE BoundsAssumption
<1>1. PICK p \in Paths :
        AppendLine(p) \/ Truncate(p) \/ MoveAway(p) \/ Create(p) \/ MoveIn(p)
  BY DEF OtherPrograms
<1>2. /\ UNCHANGED <<registry, request, thread, watches, nextWd, reported>>
      /\ ops' \in 0 .. MaxOps
  BY <1>1, SMTT(40) DEF AppendLine, Truncate, MoveAway, Create, MoveIn, FileOp, Types, FilesType
<1>3. ASSUME FilesType' PROVE Types'
  BY <1>2, <1>3 DEF Types, HandlerType, SharedType, ReaderType, WatchesType,
     registry, request, thread
<1>t. /\ queue \in Seq(Events) /\ content \in [Paths -> Seq(Nat)]
      /\ exists \in [Paths -> BOOLEAN] /\ lines \in [Paths -> Nat]
      /\ content[p] \in Seq(Nat) /\ lines[p] + 1 \in Nat
  BY DEF Types, FilesType
<1>4. CASE AppendLine(p)
  <2>1. Append(content[p], lines[p] + 1) \in Seq(Nat)
    BY <1>t, AppendProperties
  <2>2. queue' \in Seq(Events)
    BY <1>4, NotifyType DEF AppendLine
  <2> QED
    BY <1>2, <1>3, <1>4, <1>t, <2>1, <2>2 DEF AppendLine, FilesType
<1>5. CASE Truncate(p)
  <2>1. <<>> \in Seq(Nat)
    OBVIOUS
  <2>2. queue' \in Seq(Events)
    BY <1>5, NotifyType DEF Truncate
  <2> QED
    BY <1>2, <1>3, <1>5, <1>t, <2>1, <2>2 DEF Truncate, FilesType
<1>6. CASE MoveAway(p)
  <2>1. queue' \in Seq(Events)
    BY <1>6, NotifyType DEF MoveAway
  <2> QED
    BY <1>2, <1>3, <1>6, <1>t, <2>1 DEF MoveAway, FilesType
<1>7. CASE Create(p)
  <2>1. <<>> \in Seq(Nat)
    OBVIOUS
  <2> QED
    BY <1>2, <1>3, <1>7, <1>t, <2>1 DEF Create, FilesType
<1>8. CASE MoveIn(p)
  <2>1. PICK k \in 0 .. Len(content[p]) :
          content' = [content EXCEPT ![p] = Append(SubSeq(@, 1, k), lines[p] + 1)]
    BY <1>8 DEF MoveIn
  <2>2. Append(SubSeq(content[p], 1, k), lines[p] + 1) \in Seq(Nat)
    <3>1. \A i \in 1 .. k : content[p][i] \in Nat
      BY <1>t, SMTT(40)
    <3>2. SubSeq(content[p], 1, k) \in Seq(Nat)
      BY <1>t, <3>1, SubSeqProperties
    <3> QED
      BY <1>t, <3>2, AppendProperties
  <2>3. queue' \in Seq(Events)
    BY <1>8, NotifyType DEF MoveIn
  <2> QED
    BY <1>2, <1>3, <1>8, <1>t, <2>1, <2>2, <2>3 DEF MoveIn, FilesType
<1> QED
  BY <1>1, <1>4, <1>5, <1>6, <1>7, <1>8

LEMMA TypeNext == Types /\ [Next]_vars => Types'
<1> SUFFICES ASSUME Types, [Next]_vars PROVE Types'
  OBVIOUS
<1>1. CASE UNCHANGED vars
  BY <1>1, SMTT(40) DEF vars, Types, HandlerType, SharedType, ReaderType, WatchesType,
     FilesType, registry, request, thread, inotify, files
<1> QED
  BY <1>1, TypeAdd, TypeRemove, TypeReader, TypePrograms DEF Next, Handler

(* Every variable keeps its type; in particular the offset of an entry is  *)
(* that of a line or -1, and an event is of a watch there was              *)
(* (CMonitoring.cpp:23-246).                                               *)
THEOREM MonitoringTypeCorrect == Spec => []TypeOK
  BY TypeInit, TypeNext, TypesAreTypeOK, PTL DEF Spec

-----------------------------------------------------------------------------
(* The order of what is reported.  c is the content of a file, n the last  *)
(* line written to it, r what is reported of it, and s the offset of its   *)
(* entry: what lies beyond s is newer than everything reported.            *)
Ordered(c, n, r, s) ==
  /\ \A i \in 1 .. Len(c) : 0 < c[i] /\ c[i] <= n
  /\ \A i, j \in 1 .. Len(c) : i < j => c[i] < c[j]
  /\ \A j \in 1 .. Len(r) : r[j] <= n
  /\ s >= 0 => \A i \in 1 .. Len(c), j \in 1 .. Len(r) : i > s => r[j] < c[i]
  /\ \A i, j \in 1 .. Len(r) : i < j /\ r[j] # NoLine => r[i] < r[j]

OrderInv ==
  \A p \in Paths : Ordered(content[p], lines[p], reported[p], entry[p].size)

(* The lines of a file that lie beyond an offset.                          *)
LEMMA RestOfLines ==
  ASSUME NEW c \in Seq(Nat), NEW s \in 0 .. Len(c)
  PROVE  /\ SubSeq(c, s + 1, Len(c)) \in Seq(Nat)
         /\ Len(SubSeq(c, s + 1, Len(c))) = Len(c) - s
         /\ \A i \in 1 .. Len(c) - s : SubSeq(c, s + 1, Len(c))[i] = c[s + i]
<1> DEFINE a == s + 1
           b == Len(c)
           m == SubSeq(c, a, b)
<1>1. a \in Int /\ b \in Int /\ a <= b + 1 /\ b - a + 1 = b - s
  OBVIOUS
<1>2. \A i \in a .. b : c[i] \in Nat
  OBVIOUS
<1>3. \A i \in 1 .. b - s : a + i - 1 = s + i
  OBVIOUS
<1> HIDE DEF a, b
<1>4. /\ m \in Seq(Nat)
      /\ Len(m) = IF a <= b THEN b - a + 1 ELSE 0
      /\ \A i \in 1 .. b - a + 1 : m[i] = c[a + i - 1]
  BY <1>1, <1>2, SubSeqProperties
<1> HIDE DEF m
<1>5. Len(m) = b - s
  <2>1. CASE a <= b
    BY <1>1, <1>4, <2>1
  <2>2. CASE ~(a <= b)
    BY <1>1, <1>4, <2>2
  <2> QED
    BY <2>1, <2>2
<1>6. ASSUME NEW i \in 1 .. b - s PROVE m[i] = c[s + i]
  BY <1>1, <1>3, <1>4
<1> QED
  BY <1>4, <1>5, <1>6 DEF a, b, m

(* What is reported, and more of it.                                       *)
LEMMA JoinedLines ==
  ASSUME NEW r \in Seq(Nat), NEW m \in Seq(Nat)
  PROVE  /\ Len(r \o m) = Len(r) + Len(m)
         /\ \A i \in 1 .. Len(r) : (r \o m)[i] = r[i]
         /\ \A i \in Len(r) + 1 .. Len(r) + Len(m) : (r \o m)[i] = m[i - Len(r)]
<1> DEFINE q == r \o m
           k == Len(r)
           n == Len(m)
<1>1. k \in Nat /\ n \in Nat
  OBVIOUS
<1>2. /\ Len(q) = k + n
      /\ \A i \in 1 .. k + n : q[i] = IF i <= k THEN r[i] ELSE m[i - k]
  BY ConcatProperties
<1> HIDE DEF q, k, n
<1>3. ASSUME NEW i \in 1 .. k PROVE q[i] = r[i]
  <2>1. i \in 1 .. k + n /\ i <= k
    BY <1>1
  <2> QED
    BY <1>2, <2>1
<1>4. ASSUME NEW i \in k + 1 .. k + n PROVE q[i] = m[i - k]
  <2>1. i \in 1 .. k + n /\ ~(i <= k)
    BY <1>1
  <2> QED
    BY <1>2, <2>1
<1> QED
  BY <1>2, <1>3, <1>4 DEF q, k, n

(* An offset at the end of the file, or at no place at all.                *)
LEMMA OrderedAtEnd ==
  ASSUME NEW c \in Seq(Nat), NEW n \in Nat, NEW r \in Seq(Nat), NEW s \in Int,
         NEW e \in {-1, Len(c)}, Ordered(c, n, r, s)
  PROVE  Ordered(c, n, r, e)
BY DEF Ordered

(* A line is appended to the file.                                         *)
LEMMA OrderedAppend ==
  ASSUME NEW c \in Seq(Nat), NEW n \in Nat, NEW r \in Seq(Nat), NEW s \in Int,
         Ordered(c, n, r, s)
  PROVE  Ordered(Append(c, n + 1), n + 1, r, s)
<1> DEFINE d == Append(c, n + 1)
<1>1. /\ Len(d) = Len(c) + 1 /\ d[Len(c) + 1] = n + 1
      /\ \A i \in 1 .. Len(c) : d[i] = c[i]
  BY AppendProperties
<1> HIDE DEF d
<1>2. \A i \in 1 .. Len(d) : i \in 1 .. Len(c) \/ i = Len(c) + 1
  BY <1>1
<1>3. /\ \A i \in 1 .. Len(d) : 0 < d[i] /\ d[i] <= n + 1
      /\ \A i, j \in 1 .. Len(d) : i < j => d[i] < d[j]
  <2>1. /\ \A i \in 1 .. Len(c) : c[i] \in Nat /\ 0 < c[i] /\ c[i] <= n
        /\ \A i, j \in 1 .. Len(c) : i < j => c[i] < c[j]
    BY DEF Ordered
  <2>2. ASSUME NEW i \in 1 .. Len(d) PROVE 0 < d[i] /\ d[i] <= n + 1
    <3>1. CASE i = Len(c) + 1
      BY <1>1, <3>1
    <3>2. CASE i \in 1 .. Len(c)
      BY <1>1, <2>1, <3>2, SMTT(40)
    <3> QED
      BY <1>2, <3>1, <3>2
  <2>3. ASSUME NEW i \in 1 .. Len(d), NEW j \in 1 .. Len(d), i < j
        PROVE  d[i] < d[j]
    <3>1. i \in 1 .. Len(c) /\ d[i] = c[i]
      BY <1>1, <2>3, SMTT(40)
    <3>2. CASE j = Len(c) + 1
      BY <1>1, <2>1, <3>1, <3>2
    <3>3. CASE j \in 1 .. Len(c)
      BY <1>1, <2>1, <2>3, <3>1, <3>3
    <3> QED
      BY <1>2, <3>2, <3>3
  <2> QED
    BY <2>2, <2>3
<1>4. \A j \in 1 .. Len(r) : r[j] <= n + 1 /\ r[j] < n + 1
  BY DEF Ordered
<1>5. s >= 0 => \A i \in 1 .. Len(d), j \in 1 .. Len(r) : i > s => r[j] < d[i]
  BY <1>1, <1>2, <1>4 DEF Ordered
<1>6. Ordered(d, n + 1, r, s)
  BY <1>3, <1>4, <1>5 DEF Ordered
<1> QED
  BY <1>6 DEF d

(* The file is cut after k lines.                                          *)
LEMMA OrderedPrefix ==
  ASSUME NEW c \in Seq(Nat), NEW n \in Nat, NEW r \in Seq(Nat), NEW s \in Int,
         NEW k \in 0 .. Len(c), Ordered(c, n, r, s)
  PROVE  SubSeq(c, 1, k) \in Seq(Nat) /\ Ordered(SubSeq(c, 1, k), n, r, s)
<1> DEFINE d == SubSeq(c, 1, k)
<1>1. \A i \in 1 .. k : c[i] \in Nat
  OBVIOUS
<1>2. /\ d \in Seq(Nat) /\ Len(d) = k
      /\ \A i \in 1 .. k : d[i] = c[i]
  BY <1>1, SubSeqProperties
<1> HIDE DEF d
<1>o. \A i \in 1 .. Len(d) : i \in 1 .. Len(c) /\ d[i] = c[i]
  BY <1>2
<1>3. Ordered(d, n, r, s)
  <2>1. /\ \A i \in 1 .. Len(c) : 0 < c[i] /\ c[i] <= n
        /\ \A i, j \in 1 .. Len(c) : i < j => c[i] < c[j]
        /\ s >= 0 => \A i \in 1 .. Len(c), j \in 1 .. Len(r) : i > s => r[j] < c[i]
        /\ \A j \in 1 .. Len(r) : r[j] <= n
        /\ \A i, j \in 1 .. Len(r) : i < j /\ r[j] # NoLine => r[i] < r[j]
    BY DEF Ordered
  <2>2. \A i \in 1 .. Len(d) : 0 < d[i] /\ d[i] <= n
    BY <1>o, <2>1
  <2>3. ASSUME NEW i \in 1 .. Len(d), NEW j \in 1 .. Len(d), i < j
        PROVE  d[i] < d[j]
    BY <1>o, <2>1, <2>3
  <2>4. ASSUME s >= 0, NEW i \in 1 .. Len(d), NEW j \in 1 .. Len(r), i > s
        PROVE  r[j] < d[i]
    BY <1>o, <2>1, <2>4
  <2> QED
    BY <2>1, <2>2, <2>3, <2>4 DEF Ordered
<1> QED
  BY <1>2, <1>3 DEF d

(* A line of NUL bytes is reported.                                        *)
LEMMA OrderedNul ==
  ASSUME NEW c \in Seq(Nat), NEW n \in Nat, NEW r \in Seq(Nat), NEW s \in Int,
         NEW e \in {-1, Len(c)}, Ordered(c, n, r, s)
  PROVE  Ordered(c, n, r \o <<NoLine>>, e)
<1> DEFINE q == r \o <<NoLine>>
<1>1. /\ Len(q) = Len(r) + 1 /\ q[Len(r) + 1] = NoLine
      /\ \A i \in 1 .. Len(r) : q[i] = r[i]
  <2>1. <<NoLine>> \in Seq(Nat) /\ Len(<<NoLine>>) = 1 /\ <<NoLine>>[1] = NoLine
    BY DEF NoLine
  <2>2. /\ Len(q) = Len(r) + Len(<<NoLine>>)
        /\ \A i \in 1 .. Len(r) : q[i] = r[i]
        /\ \A i \in Len(r) + 1 .. Len(r) + Len(<<NoLine>>) :
             q[i] = <<NoLine>>[i - Len(r)]
    BY <2>1, JoinedLines
  <2> HIDE DEF q, NoLine
  <2> QED
    BY <2>1, <2>2
<1> HIDE DEF q
<1>2. \A i \in 1 .. Len(q) : i \in 1 .. Len(r) \/ i = Len(r) + 1
  BY <1>1
<1>3. /\ \A j \in 1 .. Len(q) : q[j] <= n
      /\ \A i, j \in 1 .. Len(q) : i < j /\ q[j] # NoLine => q[i] < q[j]
  <2>1. /\ \A j \in 1 .. Len(r) : r[j] <= n
        /\ \A i, j \in 1 .. Len(r) : i < j /\ r[j] # NoLine => r[i] < r[j]
    BY DEF Ordered
  <2>2. ASSUME NEW j \in 1 .. Len(q) PROVE q[j] <= n
    BY <1>1, <1>2, <2>1, SMTT(40) DEF NoLine
  <2>3. ASSUME NEW i \in 1 .. Len(q), NEW j \in 1 .. Len(q), i < j, q[j] # NoLine
        PROVE  q[i] < q[j]
    <3>1. i \in 1 .. Len(r) /\ j \in 1 .. Len(r)
      BY <1>1, <1>2, <2>3
    <3> QED
      BY <1>1, <2>1, <2>3, <3>1
  <2> QED
    BY <2>2, <2>3
<1>4. Ordered(c, n, q, e)
  BY <1>3 DEF Ordered
<1> QED
  BY <1>4 DEF q

(* The lines beyond the offset are reported.                               *)
LEMMA OrderedRest ==
  ASSUME NEW c \in Seq(Nat), NEW n \in Nat, NEW r \in Seq(Nat),
         NEW s \in 0 .. Len(c), Ordered(c, n, r, s)
  PROVE  Ordered(c, n, r \o SubSeq(c, s + 1, Len(c)), Len(c))
<1> DEFINE m == SubSeq(c, s + 1, Len(c))
           q == r \o m
<1>1. /\ m \in Seq(Nat) /\ Len(m) = Len(c) - s
      /\ \A i \in 1 .. Len(c) - s : m[i] = c[s + i]
  BY RestOfLines
<1> HIDE DEF m
<1>2. /\ Len(q) = Len(r) + Len(m)
      /\ \A i \in 1 .. Len(r) : q[i] = r[i]
      /\ \A i \in Len(r) + 1 .. Len(r) + Len(m) : q[i] = m[i - Len(r)]
  BY <1>1, JoinedLines
<1> HIDE DEF q
<1>3. ASSUME NEW i \in 1 .. Len(q), ~(i \in 1 .. Len(r))
      PROVE  /\ i - Len(r) \in 1 .. Len(c) - s
             /\ s + (i - Len(r)) \in 1 .. Len(c)
             /\ s + (i - Len(r)) > s
             /\ q[i] = c[s + (i - Len(r))]
  <2> DEFINE k == i - Len(r)
  <2>1. i \in Len(r) + 1 .. Len(r) + Len(m) /\ k \in 1 .. Len(c) - s
    BY <1>1, <1>2, <1>3
  <2>2. q[i] = m[k]
    BY <1>2, <2>1
  <2> HIDE DEF k
  <2>3. m[k] = c[s + k]
    BY <1>1, <2>1
  <2>4. s + k \in 1 .. Len(c) /\ s + k > s
    BY <2>1
  <2>5. /\ k \in 1 .. Len(c) - s /\ s + k \in 1 .. Len(c) /\ s + k > s
        /\ q[i] = c[s + k]
    BY <2>1, <2>2, <2>3, <2>4
  <2> QED
    BY <2>5 DEF k
<1>o. /\ \A i \in 1 .. Len(c) : c[i] <= n
      /\ \A i, j \in 1 .. Len(c) : i < j => c[i] < c[j]
      /\ \A j \in 1 .. Len(r) : r[j] <= n
      /\ \A i \in 1 .. Len(c), j \in 1 .. Len(r) : i > s => r[j] < c[i]
      /\ \A i, j \in 1 .. Len(r) : i < j /\ r[j] # NoLine => r[i] < r[j]
  BY DEF Ordered
<1>4. ASSUME NEW j \in 1 .. Len(q) PROVE q[j] <= n
  <2>1. CASE j \in 1 .. Len(r)
    BY <1>2, <1>o, <2>1
  <2>2. CASE ~(j \in 1 .. Len(r))
    BY <1>3, <1>o, <2>2
  <2> QED
    BY <2>1, <2>2
<1>5. ASSUME NEW i \in 1 .. Len(q), NEW j \in 1 .. Len(q), i < j, q[j] # NoLine
      PROVE  q[i] < q[j]
  <2>1. CASE j \in 1 .. Len(r)
    <3>1. i \in 1 .. Len(r) /\ q[i] = r[i] /\ q[j] = r[j]
      BY <1>2, <1>5, <2>1
    <3> QED
      BY <1>5, <1>o, <2>1, <3>1
  <2>2. CASE j \notin 1 .. Len(r) /\ i \in 1 .. Len(r)
    <3>1. q[i] = r[i] /\ q[j] = c[s + (j - Len(r))]
      BY <1>2, <1>3, <2>2
    <3>2. s + (j - Len(r)) \in 1 .. Len(c) /\ s + (j - Len(r)) > s
      BY <1>3, <2>2
    <3> QED
      BY <1>o, <2>2, <3>1, <3>2
  <2>3. CASE j \notin 1 .. Len(r) /\ i \notin 1 .. Len(r)
    <3>1. q[i] = c[s + (i - Len(r))] /\ q[j] = c[s + (j - Len(r))]
      BY <1>3, <2>3
    <3>2. s + (i - Len(r)) < s + (j - Len(r))
      BY <1>5
    <3>3. s + (i - Len(r)) \in 1 .. Len(c) /\ s + (j - Len(r)) \in 1 .. Len(c)
      BY <1>3, <2>3
    <3> QED
      BY <1>o, <3>1, <3>2, <3>3
  <2> QED
    BY <2>1, <2>2, <2>3
<1>6. Ordered(c, n, q, Len(c))
  BY <1>4, <1>5 DEF Ordered
<1> QED
  BY <1>6 DEF q, m

(* Nothing is in the files, and nothing is reported, at first.             *)
LEMMA OrderInit == Init => OrderInv
<1> SUFFICES ASSUME Init, NEW p \in Paths
             PROVE  Ordered(content[p], lines[p], reported[p], entry[p].size)
  BY DEF OrderInv
<1>1. content[p] = <<>> /\ reported[p] = <<>>
  BY DEF Init
<1> QED
  BY <1>1 DEF Ordered

(* A step that touches no file, keeps the offsets and reports nothing.     *)
LEMMA OrderSame ==
  ASSUME OrderInv, UNCHANGED <<content, lines, reported>>,
         \A p \in Paths : entry'[p].size = entry[p].size
  PROVE  OrderInv'
BY DEF OrderInv

(* IN_MODIFY (:205-240).                                                   *)
LEMMA OrderModify == Types /\ OrderInv /\ ReaderModify => OrderInv'
<1> SUFFICES ASSUME Types, OrderInv, ReaderModify PROVE OrderInv'
  OBVIOUS
<1> DEFINE open == entry[used].open /\ exists[used]
           size == IF open THEN Len(content[used]) ELSE -1
           old == entry[used].size
<1>1. /\ used \in Paths /\ entry \in [Paths -> Entries]
      /\ size \in {-1, Len(content[used])} /\ old \in Nat \cup {-1}
      /\ content[used] \in Seq(Nat) /\ reported \in [Paths -> Seq(Nat)]
      /\ lines[used] \in Nat
  BY DEF Types, ReaderType, SharedType, FilesType, Entries
<1>2. UNCHANGED <<content, lines>>
  BY DEF ReaderModify, files
<1>3. CASE size < old
  <2>1. reported' = reported /\ entry' = [entry EXCEPT ![used].open = open]
    BY <1>3 DEF ReaderModify
  <2> HIDE DEF open, size, old
  <2>2. \A p \in Paths : entry'[p].size = entry[p].size
    BY <1>1, <2>1 DEF Entries
  <2> QED
    BY <1>2, <2>1, <2>2, OrderSame
<1>4. CASE ~(size < old)
  <2>1. /\ entry' = [entry EXCEPT ![used].open = open, ![used].size = size]
        /\ reported' = [reported EXCEPT
                          ![used] = @ \o LinesBetween(used, old, size)]
    BY <1>4 DEF ReaderModify
  <2>2. Ordered(content[used], lines[used], reported[used], old)
    BY <1>1 DEF OrderInv
  <2>3. Ordered(content[used], lines[used],
                reported[used] \o LinesBetween(used, old, size), size)
    <3> HIDE DEF open, size, old
    <3>1. CASE old = -1 /\ size > old
      <4>1. LinesBetween(used, old, size) = <<NoLine>>
        BY <3>1 DEF LinesBetween
      <4>2. reported[used] \in Seq(Nat)
        BY <1>1
      <4> QED
        <5>1. Ordered(content[used], lines[used], reported[used] \o <<NoLine>>, size)
          BY <1>1, <2>2, <4>2, OrderedNul, SMTT(40)
        <5> QED
          BY <4>1, <5>1
    <3>2. CASE old = -1 /\ ~(size > old)
      <4>1. LinesBetween(used, old, size) = <<>>
        BY <3>2 DEF LinesBetween
      <4>2. reported[used] \o <<>> = reported[used]
        BY <1>1, ConcatProperties
      <4> QED
        BY <1>1, <2>2, <4>1, <4>2, OrderedAtEnd
    <3>3. CASE old # -1
      <4>1. size = Len(content[used]) /\ old \in 0 .. Len(content[used])
        BY <1>1, <1>4, <3>3
      <4>2. LinesBetween(used, old, size)
              = SubSeq(content[used], old + 1, Len(content[used]))
        BY <3>3, <4>1 DEF LinesBetween
      <4>3. reported[used] \in Seq(Nat)
        BY <1>1
      <4> QED
        BY <1>1, <2>2, <4>1, <4>2, <4>3, OrderedRest
    <3> QED
      BY <3>1, <3>2, <3>3
  <2> HIDE DEF open, size, old
  <2>4. /\ entry'[used].size = size
        /\ reported'[used] = reported[used] \o LinesBetween(used, old, size)
        /\ \A p \in Paths \ {used} : /\ entry'[p] = entry[p]
                                     /\ reported'[p] = reported[p]
    BY <1>1, <2>1 DEF Entries
  <2> QED
    BY <1>2, <2>3, <2>4 DEF OrderInv
<1> QED
  BY <1>3, <1>4

(* The other steps of the two threads: AddOpen takes the end of the file,  *)
(* and nothing else moves an offset.                                       *)
LEMMA OrderThreads ==
  ASSUME Types, OrderInv,
         \/ \E p \in Paths : AddMonitoringTarget(p) \/ RemoveMonitoringTarget(p)
         \/ Handler \/ StartMonitoring
  PROVE  OrderInv'
<1>t. /\ entry \in [Paths -> Entries] /\ used \in Paths /\ path \in Paths
      /\ \A p \in Paths : entry[p] \in Entries
  BY DEF Types, SharedType, HandlerType, ReaderType
<1>1. ASSUME UNCHANGED <<entry, files, reported>> PROVE OrderInv'
  BY <1>1, OrderSame DEF files
<1>2. ASSUME NEW p \in Paths, RemoveMonitoringTarget(p) PROVE OrderInv'
  <2>1. \/ entry' = entry
        \/ entry' = [entry EXCEPT ![p].open = FALSE]
    BY <1>2 DEF RemoveMonitoringTarget
  <2>2. \A x \in Paths : entry'[x].size = entry[x].size
    BY <1>t, <2>1 DEF Entries
  <2> QED
    BY <1>2, <2>2, OrderSame DEF RemoveMonitoringTarget, files
<1>3. CASE AddOpen
  <2>1. /\ entry' = [entry EXCEPT ![path] =
                       [wd |-> wd, size |-> EndPosition(path), open |-> exists[path]]]
        /\ UNCHANGED <<content, lines, reported>>
    BY <1>3 DEF AddOpen, files
  <2>2. entry'[path].size = EndPosition(path)
    BY <1>t, <2>1
  <2>3. \A x \in Paths \ {path} : entry'[x] = entry[x]
    BY <1>t, <2>1
  <2>4. Ordered(content[path], lines[path], reported[path], EndPosition(path))
    <3>1. EndPosition(path) \in {-1, Len(content[path])}
      BY DEF EndPosition
    <3>2. /\ content[path] \in Seq(Nat) /\ lines[path] \in Nat
          /\ reported[path] \in Seq(Nat) /\ entry[path].size \in Int
      BY <1>t DEF Types, FilesType, Entries
    <3> QED
      BY <1>t, <3>1, <3>2, OrderedAtEnd DEF OrderInv
  <2> QED
    BY <2>1, <2>2, <2>3, <2>4 DEF OrderInv
<1>4. CASE ReaderMove
  <2>1. entry' = [entry EXCEPT ![used].open = exists[used]]
    BY <1>4 DEF ReaderMove
  <2>2. \A x \in Paths : entry'[x].size = entry[x].size
    BY <1>t, <2>1 DEF Entries
  <2> QED
    BY <1>4, <2>2, OrderSame DEF ReaderMove, files
<1>5. ASSUME NEW p \in Paths, AddMonitoringTarget(p) PROVE OrderInv'
  BY <1>1, <1>5 DEF AddMonitoringTarget
<1>6. CASE AddWatch \/ AddKeys \/ AddList \/ RemoveCount \/ RemoveWatch \/ RemoveFree
  BY <1>1, <1>6 DEF AddWatch, AddKeys, AddList, RemoveCount, RemoveWatch, RemoveFree,
     registry
<1>7. CASE ReaderRead \/ ReaderLookup \/ ReaderBatchDone \/ ReaderDangling
  BY <1>1, <1>7 DEF ReaderRead, ReaderLookup, ReaderBatchDone, ReaderDangling, registry
<1> QED
  BY <1>2, <1>3, <1>4, <1>5, <1>6, <1>7, OrderModify DEF Handler, StartMonitoring

(* Whatever other programs do to a file, a new line is newer.              *)
LEMMA OrderPrograms == Types /\ OrderInv /\ OtherPrograms => OrderInv'
<1> SUFFICES ASSUME Types, OrderInv, OtherPrograms PROVE OrderInv'
  OBVIOUS
<1>1. PICK p \in Paths :
        AppendLine(p) \/ Truncate(p) \/ MoveAway(p) \/ Create(p) \/ MoveIn(p)
  BY DEF OtherPrograms
<1>2. UNCHANGED <<entry, reported>>
  BY <1>1 DEF AppendLine, Truncate, MoveAway, Create, MoveIn, FileOp, registry
<1>t. /\ content \in [Paths -> Seq(Nat)] /\ content[p] \in Seq(Nat)
      /\ lines \in [Paths -> Nat] /\ lines[p] \in Nat
      /\ reported[p] \in Seq(Nat) /\ entry[p].size \in Int
  BY DEF Types, FilesType, SharedType, Entries
<1>3. Ordered(content[p], lines[p], reported[p], entry[p].size)
  BY DEF OrderInv
<1>4. ASSUME NEW c, NEW n, content' = [content EXCEPT ![p] = c],
             lines' = [lines EXCEPT ![p] = n],
             Ordered(c, n, reported[p], entry[p].size)
      PROVE  OrderInv'
  BY <1>2, <1>t, <1>4 DEF OrderInv
<1>5. lines = [lines EXCEPT ![p] = lines[p]]
  BY <1>t
<1>6. CASE AppendLine(p)
  <2>1. /\ content' = [content EXCEPT ![p] = Append(content[p], lines[p] + 1)]
        /\ lines' = [lines EXCEPT ![p] = lines[p] + 1]
    BY <1>6, <1>t DEF AppendLine
  <2> QED
    BY <1>3, <1>4, <1>t, <2>1, OrderedAppend
<1>7. CASE Truncate(p) \/ Create(p)
  <2>1. content' = [content EXCEPT ![p] = <<>>] /\ lines' = lines
    BY <1>7 DEF Truncate, Create
  <2>2. Ordered(<<>>, lines[p], reported[p], entry[p].size)
    BY <1>3 DEF Ordered
  <2> QED
    BY <1>4, <1>5, <2>1, <2>2
<1>8. CASE MoveAway(p)
  BY <1>2, <1>8 DEF MoveAway, OrderInv
<1>9. CASE MoveIn(p)
  <2>1. PICK k \in 0 .. Len(content[p]) :
          content' = [content EXCEPT ![p] = Append(SubSeq(content[p], 1, k), lines[p] + 1)]
    BY <1>9, <1>t DEF MoveIn
  <2>2. lines' = [lines EXCEPT ![p] = lines[p] + 1]
    BY <1>9 DEF MoveIn
  <2> DEFINE d == SubSeq(content[p], 1, k)
  <2>3. d \in Seq(Nat) /\ Ordered(d, lines[p], reported[p], entry[p].size)
    BY <1>3, <1>t, OrderedPrefix
  <2>4. content' = [content EXCEPT ![p] = Append(d, lines[p] + 1)]
    BY <2>1
  <2> HIDE DEF d
  <2>5. Ordered(Append(d, lines[p] + 1), lines[p] + 1, reported[p], entry[p].size)
    BY <1>t, <2>3, OrderedAppend
  <2> QED
    BY <1>4, <2>2, <2>4, <2>5
<1> QED
  BY <1>1, <1>6, <1>7, <1>8, <1>9

LEMMA OrderNext == Types /\ OrderInv /\ [Next]_vars => OrderInv'
<1> SUFFICES ASSUME Types, OrderInv, [Next]_vars PROVE OrderInv'
  OBVIOUS
<1>1. CASE UNCHANGED vars
  BY <1>1, OrderSame DEF vars, registry, files
<1> QED
  BY <1>1, OrderThreads, OrderPrograms DEF Next

LEMMA OrderIsReported == OrderInv => ReportedInOrder
BY DEF OrderInv, Ordered, ReportedInOrder

(* No line is reported twice or after a later one, for any files, any      *)
(* sequence of requests and whatever other programs do to the files        *)
(* (CMonitoring.cpp:80, 173-191, 210-236).                                 *)
THEOREM LinesReportedInOrder == Spec => []ReportedInOrder
<1>1. Init => Types /\ OrderInv
  BY TypeInit, OrderInit
<1>2. (Types /\ OrderInv) /\ [Next]_vars => (Types /\ OrderInv)'
  BY TypeNext, OrderNext
<1> QED
  BY <1>1, <1>2, OrderIsReported, PTL DEF Spec

-----------------------------------------------------------------------------
(* Files that only grow, and are never removed from the list.  Then a file *)
(* is its lines from 1 on, and an entry of the list is open.               *)
OnlyGrowing == FileOps \subseteq {"append"} /\ Calls \subseteq {"add"}

(* r is a stretch of lines that ends where the offset s is.                *)
Gapless(r, s) ==
  /\ \A i \in 2 .. Len(r) : r[i] = r[i - 1] + 1
  /\ Len(r) > 0 => r[Len(r)] = s

Whole(c, n) == Len(c) = n /\ \A i \in 1 .. n : c[i] = i

GrowPath(p) ==
  /\ exists[p] /\ Whole(content[p], lines[p])
  /\ entry[p].size \in 0 .. lines[p]
  /\ p \in monitoringLists => entry[p].open
  /\ p \notin monitoringLists => reported[p] = <<>>
  /\ Gapless(reported[p], entry[p].size)

GrowControl ==
  /\ handler \notin {"count", "free"} /\ ~dangling /\ ~crashed /\ reader # "dead"
  /\ reader \in {"modify", "move"} => used \in monitoringLists
  /\ handler = "list" => entry[path].open

GrowInv == GrowControl /\ \A p \in Paths : GrowPath(p)

(* The lines beyond the offset go on where the reported ones end.          *)
LEMMA GaplessRest ==
  ASSUME NEW c \in Seq(Nat), NEW n \in Nat, Whole(c, n),
         NEW r \in Seq(Nat), NEW s \in 0 .. n, Gapless(r, s)
  PROVE  Gapless(r \o SubSeq(c, s + 1, n), n)
<1> DEFINE m == SubSeq(c, s + 1, n)
           q == r \o m
<1>1. /\ m \in Seq(Nat) /\ Len(m) = n - s
      /\ \A i \in 1 .. n - s : m[i] = s + i
  <2>1. n = Len(c) /\ s \in 0 .. Len(c)
    BY DEF Whole
  <2>2. /\ m \in Seq(Nat) /\ Len(m) = n - s
        /\ \A i \in 1 .. n - s : m[i] = c[s + i]
    BY <2>1, RestOfLines
  <2>3. \A i \in 1 .. n - s : s + i \in 1 .. n /\ c[s + i] = s + i
    BY DEF Whole
  <2> HIDE DEF m
  <2> QED
    BY <2>2, <2>3
<1> HIDE DEF m
<1>2. /\ Len(q) = Len(r) + Len(m)
      /\ \A i \in 1 .. Len(r) : q[i] = r[i]
      /\ \A i \in Len(r) + 1 .. Len(r) + Len(m) : q[i] = m[i - Len(r)]
  BY <1>1, JoinedLines
<1> HIDE DEF q
<1>3. ASSUME NEW i \in 1 .. Len(q), ~(i \in 1 .. Len(r))
      PROVE  q[i] = s + (i - Len(r))
  <2>1. i - Len(r) \in 1 .. n - s /\ i \in Len(r) + 1 .. Len(r) + Len(m)
    BY <1>1, <1>2, <1>3
  <2> QED
    BY <1>1, <1>2, <2>1
<1>4. \A i \in 1 .. Len(r) : q[i] = r[i]
  BY <1>2
<1>o. /\ \A i \in 2 .. Len(r) : r[i] = r[i - 1] + 1
      /\ Len(r) > 0 => r[Len(r)] = s
  BY DEF Gapless
<1>5. ASSUME NEW i \in 2 .. Len(q) PROVE q[i] = q[i - 1] + 1
  <2>0. i \in 1 .. Len(q) /\ i - 1 \in 1 .. Len(q)
    BY <1>1, <1>2
  <2>1. CASE i <= Len(r)
    <3>1. i \in 2 .. Len(r) /\ i \in 1 .. Len(r) /\ i - 1 \in 1 .. Len(r)
      BY <2>1
    <3> QED
      BY <1>4, <1>o, <3>1
  <2>2. CASE i = Len(r) + 1
    <3>1. i - 1 = Len(r) /\ Len(r) \in 1 .. Len(r) /\ Len(r) > 0 /\ i \notin 1 .. Len(r)
      BY <2>2
    <3>2. q[i - 1] = s
      BY <1>4, <1>o, <3>1
    <3>3. q[i] = s + (i - Len(r)) /\ i - Len(r) = 1
      BY <1>3, <2>0, <2>2, <3>1
    <3> QED
      BY <3>2, <3>3
  <2>3. CASE i > Len(r) + 1
    <3>1. q[i] = s + (i - Len(r)) /\ q[i - 1] = s + ((i - 1) - Len(r))
      BY <1>3, <2>0, <2>3, SMTT(40)
    <3> QED
      BY <3>1
  <2> QED
    BY <2>1, <2>2, <2>3
<1>6. ASSUME Len(q) > 0 PROVE q[Len(q)] = n
  <2>1. CASE s = n
    <3>1. Len(q) = Len(r) /\ Len(r) \in 1 .. Len(r)
      BY <1>1, <1>2, <1>6, <2>1
    <3> QED
      BY <1>4, <1>o, <1>6, <2>1, <3>1
  <2>2. CASE s # n
    <3>1. /\ Len(q) \in 1 .. Len(q) /\ ~(Len(q) \in 1 .. Len(r))
          /\ Len(q) - Len(r) = n - s
      BY <1>1, <1>2, <2>2
    <3>2. q[Len(q)] = s + (Len(q) - Len(r))
      BY <1>3, <3>1
    <3>3. s + (n - s) = n
      OBVIOUS
    <3> QED
      BY <3>1, <3>2, <3>3
  <2> QED
    BY <2>1, <2>2
<1>7. Gapless(q, n)
  BY <1>5, <1>6 DEF Gapless
<1> QED
  BY <1>7 DEF q, m

LEMMA GrowInit == Init => GrowInv
<1> SUFFICES ASSUME Init PROVE GrowInv
  OBVIOUS
<1>1. GrowControl
  BY DEF Init, GrowControl
<1>2. ASSUME NEW p \in Paths PROVE GrowPath(p)
  <2>1. /\ exists[p] /\ content[p] = <<>> /\ lines[p] = 0 /\ reported[p] = <<>>
        /\ entry[p].size = 0 /\ p \notin monitoringLists
    BY DEF Init
  <2> QED
    BY <2>1 DEF GrowPath, Whole, Gapless
<1> QED
  BY <1>1, <1>2 DEF GrowInv

(* A step that touches no file, no entry and no list.                      *)
LEMMA GrowSame ==
  ASSUME GrowInv, GrowControl',
         UNCHANGED <<exists, content, lines, monitoringLists, reported>>,
         \A p \in Paths : /\ entry'[p].size = entry[p].size
                          /\ entry[p].open => entry'[p].open
  PROVE  GrowInv'
BY DEF GrowInv, GrowPath

(* AddMonitoringTarget (:23-87); there is nothing to remove.               *)
LEMMA GrowHandler ==
  ASSUME OnlyGrowing, Types, HandlerInv, GrowInv,
         \/ \E p \in Paths : AddMonitoringTarget(p) \/ RemoveMonitoringTarget(p)
         \/ Handler
  PROVE  GrowInv'
<1>t. /\ entry \in [Paths -> Entries] /\ path \in Paths /\ wd \in Int
      /\ \A p \in Paths : entry[p] \in Entries
  BY DEF Types, SharedType, HandlerType
<1>1. ASSUME NEW p \in Paths, AddMonitoringTarget(p) PROVE GrowInv'
  <2>1. /\ UNCHANGED <<entry, exists, content, lines, monitoringLists, reported, thread>>
        /\ handler' \in {"idle", "open", "watch"}
    BY <1>1 DEF AddMonitoringTarget, files
  <2> QED
    BY <2>1, GrowSame DEF GrowInv, GrowControl, thread
<1>2. ASSUME NEW p \in Paths, RemoveMonitoringTarget(p) PROVE FALSE
  BY <1>2 DEF RemoveMonitoringTarget, Request, OnlyGrowing
<1>3. CASE AddWatch \/ AddKeys
  <2>1. /\ UNCHANGED <<entry, exists, content, lines, monitoringLists, reported, thread>>
        /\ handler' \in {"idle", "open", "keys"}
    BY <1>3 DEF AddWatch, AddKeys, files, registry
  <2> QED
    BY <2>1, GrowSame DEF GrowInv, GrowControl, thread
<1>4. CASE AddOpen
  <2>1. path \notin monitoringLists
    BY <1>4 DEF AddOpen, HandlerInv
  <2>2. exists[path] /\ Len(content[path]) = lines[path] /\ reported[path] = <<>>
    BY <1>t, <2>1 DEF GrowInv, GrowPath, Whole
  <2>3. EndPosition(path) = lines[path]
    BY <2>2 DEF EndPosition
  <2>4. /\ entry' = [entry EXCEPT ![path] = [wd |-> wd, size |-> EndPosition(path),
                                            open |-> exists[path]]]
        /\ handler' = "list"
        /\ UNCHANGED <<exists, content, lines, monitoringLists, reported, thread, path>>
    BY <1>4 DEF AddOpen, files
  <2>5. /\ entry'[path].size = lines[path] /\ entry'[path].open
        /\ \A p \in Paths \ {path} : entry'[p] = entry[p]
    BY <1>t, <2>2, <2>3, <2>4
  <2>6. GrowControl'
    BY <2>4, <2>5 DEF GrowInv, GrowControl, thread
  <2>7. ASSUME NEW p \in Paths PROVE GrowPath(p)'
    <3>1. CASE p = path
      <4>1. lines[path] \in Nat
        BY <1>t DEF Types, FilesType
      <4>2. Gapless(<<>>, lines[path])
        BY DEF Gapless
      <4> QED
        BY <1>t, <2>1, <2>2, <2>4, <2>5, <3>1, <4>1, <4>2 DEF GrowInv, GrowPath
    <3>2. CASE p # path
      BY <2>4, <2>5, <3>2 DEF GrowInv, GrowPath
    <3> QED
      BY <3>1, <3>2
  <2> QED
    BY <2>6, <2>7 DEF GrowInv
<1>5. CASE AddList
  <2>1. /\ monitoringLists' = monitoringLists \cup {path} /\ handler' = "idle"
        /\ handler = "list"
        /\ UNCHANGED <<entry, exists, content, lines, reported, thread, path>>
    BY <1>5 DEF AddList, files
  <2>2. entry[path].open
    BY <2>1 DEF GrowInv, GrowControl
  <2> QED
    BY <2>1, <2>2 DEF GrowInv, GrowControl, GrowPath, thread
<1>6. CASE RemoveCount \/ RemoveWatch \/ RemoveFree
  BY <1>6 DEF RemoveCount, RemoveWatch, RemoveFree, GrowInv, GrowControl
<1> QED
  BY <1>1, <1>2, <1>3, <1>4, <1>5, <1>6 DEF Handler

(* StartMonitoring (:153-246): an open file that grew is read on.          *)
LEMMA GrowReader == Types /\ GrowInv /\ StartMonitoring => GrowInv'
<1> SUFFICES ASSUME Types, GrowInv, StartMonitoring PROVE GrowInv'
  OBVIOUS
<1>t. /\ entry \in [Paths -> Entries] /\ used \in Paths
      /\ \A p \in Paths : entry[p] \in Entries
      /\ content[used] \in Seq(Nat) /\ lines[used] \in Nat
      /\ reported \in [Paths -> Seq(Nat)] /\ reported[used] \in Seq(Nat)
  BY DEF Types, SharedType, ReaderType, FilesType
<1>1. CASE ReaderRead \/ ReaderBatchDone
  <2>1. /\ UNCHANGED <<entry, exists, content, lines, monitoringLists, reported,
                       request, dangling, crashed>>
        /\ reader' \in {"read", "event"}
    BY <1>1 DEF ReaderRead, ReaderBatchDone, files, registry
  <2> QED
    BY <2>1, GrowSame DEF GrowInv, GrowControl, request
<1>2. CASE ReaderLookup
  <2>1. /\ UNCHANGED <<entry, exists, content, lines, monitoringLists, reported,
                       request, dangling, crashed>>
        /\ \/ reader' = "event"
           \/ reader' = Head(batch).kind /\ used' \in monitoringLists
    BY <1>2 DEF ReaderLookup, files
  <2>2. Head(batch).kind # "dead"
    <3>1. batch \in Seq(Events) /\ batch # <<>>
      BY <1>2 DEF ReaderLookup, Types, ReaderType
    <3>2. Head(batch) \in Events
      BY <3>1, HeadTailProperties
    <3> QED
      BY <3>2 DEF Events
  <2> QED
    BY <2>1, <2>2, GrowSame DEF GrowInv, GrowControl, request
<1>3. CASE ReaderMove
  <2>1. /\ entry' = [entry EXCEPT ![used].open = exists[used]]
        /\ reader' = "event" /\ used \in monitoringLists
        /\ UNCHANGED <<exists, content, lines, monitoringLists, reported,
                       request, dangling, crashed>>
    BY <1>3 DEF ReaderMove, NextEvent, files, GrowInv, GrowControl
  <2>2. exists[used]
    BY <1>t DEF GrowInv, GrowPath
  <2>3. \A p \in Paths : /\ entry'[p].size = entry[p].size
                         /\ entry[p].open => entry'[p].open
    BY <1>t, <2>1, <2>2 DEF Entries
  <2>4. GrowControl'
    BY <1>t, <2>1, <2>3 DEF GrowInv, GrowControl, request, Types, HandlerType
  <2> QED
    BY <2>1, <2>3, <2>4, GrowSame
<1>4. CASE ReaderModify
  <2> DEFINE open == entry[used].open /\ exists[used]
             size == IF open THEN Len(content[used]) ELSE -1
             old == entry[used].size
  <2>1. used \in monitoringLists
    BY <1>4 DEF ReaderModify, GrowInv, GrowControl
  <2>2. /\ open /\ size = lines[used] /\ old \in 0 .. lines[used]
        /\ Whole(content[used], lines[used]) /\ Gapless(reported[used], old)
    BY <1>t, <2>1 DEF GrowInv, GrowPath, Whole
  <2>3. ~(size < old) /\ old # -1
    <3> HIDE DEF open, size, old
    <3> QED
      BY <1>t, <2>2
  <2>4. /\ entry' = [entry EXCEPT ![used].open = open, ![used].size = size]
        /\ reported' = [reported EXCEPT ![used] = @ \o LinesBetween(used, old, size)]
        /\ reader' = "event"
        /\ UNCHANGED <<exists, content, lines, monitoringLists, request, used,
                       dangling, crashed>>
    BY <1>4, <2>3 DEF ReaderModify, NextEvent, files
  <2> HIDE DEF open, size, old
  <2>5. LinesBetween(used, old, size) = SubSeq(content[used], old + 1, lines[used])
    BY <2>2, <2>3 DEF LinesBetween
  <2>6. Gapless(reported[used] \o SubSeq(content[used], old + 1, lines[used]),
                lines[used])
    BY <1>t, <2>2, GaplessRest
  <2>7. /\ entry'[used].size = lines[used] /\ entry'[used].open
        /\ \A p \in Paths \ {used} : entry'[p] = entry[p] /\ reported'[p] = reported[p]
        /\ reported'[used]
             = reported[used] \o SubSeq(content[used], old + 1, lines[used])
    BY <1>t, <2>2, <2>4, <2>5 DEF Entries
  <2>8. GrowControl'
    BY <2>4, <2>7 DEF GrowInv, GrowControl, request, Types, HandlerType
  <2>9. ASSUME NEW p \in Paths PROVE GrowPath(p)'
    <3>1. CASE p = used
      <4>1. lines[used] \in 0 .. lines[used]
        BY <1>t
      <4> QED
        BY <1>t, <2>1, <2>2, <2>4, <2>6, <2>7, <3>1, <4>1 DEF GrowInv, GrowPath
    <3>2. CASE p # used
      BY <2>4, <2>7, <3>2 DEF GrowInv, GrowPath
    <3> QED
      BY <3>1, <3>2
  <2> QED
    BY <2>8, <2>9 DEF GrowInv
<1>5. CASE ReaderDangling
  BY <1>5 DEF ReaderDangling, GrowInv, GrowControl
<1> QED
  BY <1>1, <1>2, <1>3, <1>4, <1>5 DEF StartMonitoring

(* Other programs append lines.                                            *)
LEMMA GrowPrograms ==
  ASSUME OnlyGrowing, Types, GrowInv, OtherPrograms
  PROVE  GrowInv'
<1>1. PICK p \in Paths : AppendLine(p)
  BY DEF OtherPrograms, Truncate, MoveAway, Create, MoveIn, FileOp, OnlyGrowing
<1>t. /\ content \in [Paths -> Seq(Nat)] /\ content[p] \in Seq(Nat)
      /\ lines \in [Paths -> Nat] /\ lines[p] \in Nat
  BY DEF Types, FilesType
<1>2. /\ lines' = [lines EXCEPT ![p] = @ + 1]
      /\ content' = [content EXCEPT ![p] = Append(@, lines[p] + 1)]
      /\ UNCHANGED <<exists, registry, request, thread, reported>>
  BY <1>1 DEF AppendLine, FileOp
<1>3. Whole(Append(content[p], lines[p] + 1), lines[p] + 1)
  <2>1. Whole(content[p], lines[p])
    BY DEF GrowInv, GrowPath
  <2> DEFINE c == content[p]
             n == lines[p]
  <2> HIDE DEF c, n
  <2>2. c \in Seq(Nat) /\ n \in Nat /\ Whole(c, n)
    BY <1>t, <2>1 DEF c, n
  <2>3. /\ Len(Append(c, n + 1)) = n + 1
        /\ \A i \in 1 .. n : Append(c, n + 1)[i] = c[i]
        /\ Append(c, n + 1)[n + 1] = n + 1
    BY <2>2, AppendProperties DEF Whole
  <2>4. Whole(Append(c, n + 1), n + 1)
    BY <2>2, <2>3 DEF Whole
  <2> QED
    BY <2>4 DEF c, n
<1>4. GrowControl'
  BY <1>2 DEF GrowInv, GrowControl, registry, request, thread
<1>5. ASSUME NEW x \in Paths PROVE GrowPath(x)'
  <2>1. CASE x = p
    <3>1. content'[p] = Append(content[p], lines[p] + 1) /\ lines'[p] = lines[p] + 1
      BY <1>2, <1>t
    <3>2. entry[p].size \in 0 .. lines[p] + 1
      BY <1>t DEF GrowInv, GrowPath
    <3> QED
      BY <1>2, <1>3, <2>1, <3>1, <3>2 DEF GrowInv, GrowPath, registry
  <2>2. CASE x # p
    <3>1. content'[x] = content[x] /\ lines'[x] = lines[x]
      BY <1>2, <1>t, <2>2
    <3> QED
      BY <1>2, <3>1 DEF GrowInv, GrowPath, registry
  <2> QED
    BY <2>1, <2>2
<1> QED
  BY <1>4, <1>5 DEF GrowInv

LEMMA GrowNext ==
  ASSUME OnlyGrowing, Types, HandlerInv, GrowInv, [Next]_vars
  PROVE  GrowInv'
<1>1. CASE UNCHANGED vars
  BY <1>1 DEF vars, registry, request, thread, files, GrowInv, GrowControl, GrowPath
<1> QED
  BY <1>1, GrowHandler, GrowReader, GrowPrograms DEF Next

LEMMA GrowIsReported == GrowInv => ReaderSurvives /\ ReportedWithoutGaps
BY DEF GrowInv, GrowControl, GrowPath, Gapless, ReaderSurvives, ReportedWithoutGaps

(* Of files that are only appended to, and that the server never removes,  *)
(* what is reported has no gap and the thread never ends, whenever the     *)
(* events come, for any files, directories and requests                    *)
(* (CMonitoring.cpp:80, 205-236).  A truncation, a rotation or a Remove is *)
(* what it takes to break either.                                          *)
THEOREM GrowingFilesReported ==
  ASSUME OnlyGrowing
  PROVE  Spec => [](ReaderSurvives /\ ReportedWithoutGaps)
<1> DEFINE Inv == Types /\ RegistryInv /\ GrowInv
<1>1. Init => Inv
  BY TypeInit, RegistryInit, GrowInit
<1>2. Inv /\ [Next]_vars => Inv'
  BY OnlyGrowing, TypeNext, RegistryNext, GrowNext DEF RegistryInv
<1>3. Inv => ReaderSurvives /\ ReportedWithoutGaps
  BY GrowIsReported
<1> QED
  BY <1>1, <1>2, <1>3, PTL DEF Spec

-----------------------------------------------------------------------------
(***************************************************************************)
(* The watches.  For a file whose directory has one already, the count of  *)
(* the directory is noted in place of the watch descriptor.  That does no  *)
(* harm where any descriptor will do, since there is one directory, or     *)
(* where it never happens, since every file has a directory of its own.    *)
(***************************************************************************)
OneDirectory == \A p, q \in Paths : Dir[p] = Dir[q]
OwnDirectories == \A p, q \in Paths : Dir[p] = Dir[q] => p = q

(* All that RemoveWatch can do for p with w is to end the watch of the     *)
(* directory of p.                                                         *)
Harmless(w, p, held, next) ==
  \/ OneDirectory
  \/ w < next /\ (w \in Wds => held[w] \in {NoDir, Dir[p]})

InForce(p) == p \in monitoringLists \/ (handler = "list" /\ p = path)

WatchInv ==
  /\ \A w \in Wds : w >= nextWd => watches[w] = NoDir
  /\ \A w \in Wds : watches[w] # NoDir => \E p \in Paths : watches[w] = Dir[p]
  /\ \A d \in Dirs : wdCountLists[d] > 0 => \E w \in Wds : watches[w] = d
  /\ handler = "keys" => wd < nextWd /\ watches[wd] = Dir[path]
  /\ handler = "open" => Harmless(wd, path, watches, nextWd)
  /\ \A p \in Paths : InForce(p) => Harmless(entry[p].wd, p, watches, nextWd)

WatchFacts == Types /\ RegistryInv /\ (OneDirectory \/ OwnDirectories) /\ WatchInv

LEMMA WatchInit == Init => WatchInv
  BY DEF Init, WatchInv, InForce

(* The reader and the other programs touch neither the watches nor what    *)
(* the requests are about.                                                 *)
LEMMA WatchSame ==
  ASSUME WatchFacts,
         UNCHANGED <<monitoringLists, wdCountLists, handler, path, wd, watches, nextWd>>,
         \A p \in Paths : entry'[p].wd = entry[p].wd
  PROVE  WatchInv'
<1>1. \A w, p : Harmless(w, p, watches', nextWd') = Harmless(w, p, watches, nextWd)
  OBVIOUS
<1>2. \A p : InForce(p)' = InForce(p)
  BY DEF InForce
<1>3. \A p \in Paths : InForce(p) => Harmless(entry[p].wd, p, watches, nextWd)
  BY DEF WatchFacts, WatchInv
<1>4. \A p \in Paths : InForce(p)' => Harmless(entry'[p].wd, p, watches', nextWd')
  BY <1>1, <1>2, <1>3
<1>5. handler' = "open" => Harmless(wd', path', watches', nextWd')
  BY <1>1 DEF WatchFacts, WatchInv, Harmless
<1> QED
  BY <1>4, <1>5 DEF WatchFacts, WatchInv

LEMMA WatchReader ==
  ASSUME WatchFacts, StartMonitoring
  PROVE  WatchInv'
<1>1. UNCHANGED <<monitoringLists, wdCountLists, handler, path, wd, watches, nextWd>>
  BY DEF StartMonitoring, ReaderRead, ReaderLookup, ReaderBatchDone, ReaderMove,
         ReaderModify, ReaderDangling, registry, request, inotify
<1>2. \A p \in Paths : entry'[p].wd = entry[p].wd
  <2>1. entry \in [Paths -> Entries] /\ used \in Paths
    BY DEF WatchFacts, Types, SharedType, ReaderType
  <2>2. CASE ReaderMove
    BY <2>1, <2>2 DEF ReaderMove, Entries
  <2>3. CASE ReaderModify
    <3> DEFINE open == entry[used].open /\ exists[used]
               size == IF open THEN Len(content[used]) ELSE -1
    <3>1. entry[used] \in [wd : Int, size : Nat \cup {-1}, open : BOOLEAN]
      BY <2>1 DEF Entries
    <3>2. \/ entry' = [entry EXCEPT ![used].open = open]
          \/ entry' = [entry EXCEPT ![used].open = open, ![used].size = size]
      BY <2>3 DEF ReaderModify
    <3> HIDE DEF open, size
    <3>3. entry'[used].wd = entry[used].wd
      BY <2>1, <3>1, <3>2
    <3>4. \A p \in Paths : p # used => entry'[p] = entry[p]
      BY <2>1, <3>2
    <3> QED
      BY <3>3, <3>4
  <2>4. CASE ~ReaderMove /\ ~ReaderModify
    BY <2>4 DEF StartMonitoring, ReaderRead, ReaderLookup, ReaderBatchDone,
                ReaderDangling, registry
  <2> QED
    BY <2>2, <2>3, <2>4
<1> QED
  BY <1>1, <1>2, WatchSame

LEMMA WatchPrograms ==
  ASSUME WatchFacts, OtherPrograms \/ UNCHANGED vars
  PROVE  WatchInv'
<1>1. /\ UNCHANGED <<monitoringLists, wdCountLists, handler, path, wd, watches, nextWd>>
      /\ entry' = entry
  BY DEF OtherPrograms, AppendLine, Truncate, MoveAway, Create, MoveIn, FileOp,
         vars, registry, request, inotify
<1> QED
  BY <1>1, WatchSame

(* A directory that is counted has a file that is listed, so another file  *)
(* that is not listed shares it.                                           *)
LEMMA CountedIsShared ==
  ASSUME WatchFacts, handler = "idle", NEW p \in Paths \ monitoringLists,
         wdCountLists[Dir[p]] > 0
  PROVE  OneDirectory
<1>1. Dir[p] \in Dirs /\ Pending(Dir[p]) = 0
  BY DirAssumption DEF Pending
<1>2. wdCountLists[Dir[p]] = Cardinality(ListedIn(Dir[p])) + 0
  BY <1>1 DEF WatchFacts, RegistryInv, CountInv
<1>3. IsFiniteSet(ListedIn(Dir[p])) /\ Cardinality(ListedIn(Dir[p])) \in Nat
  BY <1>1, ListedFinite DEF WatchFacts, RegistryInv, RegistryType
<1>4. ListedIn(Dir[p]) # {}
  BY <1>2, <1>3, FS_EmptySet
<1>5. PICK q \in monitoringLists : Dir[q] = Dir[p]
  BY <1>4 DEF ListedIn
<1>6. q \in Paths /\ q # p
  BY <1>5 DEF WatchFacts, RegistryInv, RegistryType
<1> QED
  BY <1>5, <1>6 DEF WatchFacts, OwnDirectories

LEMMA WatchRequest ==
  ASSUME WatchFacts, NEW p \in Paths,
         AddMonitoringTarget(p) \/ RemoveMonitoringTarget(p)
  PROVE  WatchInv'
<1>t. /\ entry \in [Paths -> Entries] /\ wdCountLists \in [Dirs -> Nat]
      /\ Dir[p] \in Dirs /\ handler = "idle"
  BY DirAssumption DEF WatchFacts, Types, SharedType, HandlerType,
     AddMonitoringTarget, RemoveMonitoringTarget, Request
<1>1. UNCHANGED <<monitoringLists, watches, nextWd>>
  BY DEF AddMonitoringTarget, RemoveMonitoringTarget, inotify
<1>2. \A q \in Paths : entry'[q].wd = entry[q].wd
  BY <1>t DEF AddMonitoringTarget, RemoveMonitoringTarget, Entries
<1>3. \A d \in Dirs : wdCountLists'[d] > 0 => wdCountLists[d] > 0
  BY <1>t DEF AddMonitoringTarget, RemoveMonitoringTarget
<1>4. handler' \in {"idle", "watch", "open", "count"}
  BY <1>t DEF AddMonitoringTarget, RemoveMonitoringTarget
<1>5. handler' = "open" => OneDirectory
  <2> SUFFICES ASSUME handler' = "open" PROVE OneDirectory
    OBVIOUS
  <2>1. p \notin monitoringLists /\ wdCountLists[Dir[p]] > 0
    BY <1>t DEF AddMonitoringTarget, RemoveMonitoringTarget
  <2> QED
    BY <1>t, <2>1, CountedIsShared
<1>6. \A q : InForce(q)' => InForce(q)
  BY <1>1, <1>4 DEF InForce
<1>7. \A w, q : Harmless(w, q, watches', nextWd') = Harmless(w, q, watches, nextWd)
  BY <1>1
<1>8. \A q \in Paths : InForce(q)' => Harmless(entry'[q].wd, q, watches', nextWd')
  BY <1>2, <1>6, <1>7 DEF WatchFacts, WatchInv
<1>9. handler' = "open" => Harmless(wd', path', watches', nextWd')
  BY <1>5 DEF Harmless, OneDirectory
<1> QED
  BY <1>1, <1>3, <1>4, <1>8, <1>9 DEF WatchFacts, WatchInv

LEMMA WatchAdd ==
  ASSUME WatchFacts, AddWatch \/ AddKeys \/ AddOpen \/ AddList
  PROVE  WatchInv'
<1>t. /\ entry \in [Paths -> Entries] /\ wdCountLists \in [Dirs -> Nat]
      /\ path \in Paths /\ Dir[path] \in Dirs /\ wd \in Int
      /\ watches \in [Wds -> Dirs \cup {NoDir}] /\ nextWd \in Nat
      /\ handler = "keys" => wd \in Wds
  BY DirAssumption, BoundsAssumption
     DEF WatchFacts, Types, SharedType, HandlerType, WatchesType
<1>w. /\ \A w \in Wds : w >= nextWd => watches[w] = NoDir
      /\ \A w \in Wds : watches[w] # NoDir => \E p \in Paths : watches[w] = Dir[p]
      /\ \A d \in Dirs : wdCountLists[d] > 0 => \E w \in Wds : watches[w] = d
      /\ handler = "keys" => wd < nextWd /\ watches[wd] = Dir[path]
      /\ handler = "open" => Harmless(wd, path, watches, nextWd)
      /\ \A p \in Paths : InForce(p) => Harmless(entry[p].wd, p, watches, nextWd)
  BY DEF WatchFacts, WatchInv
<1>1. CASE AddWatch
  <2>1. /\ UNCHANGED <<monitoringLists, entry, wdCountLists, path>>
        /\ handler = "watch" /\ handler' \in {"keys", "idle"}
    BY <1>1 DEF AddWatch, registry
  <2>2. \A p : InForce(p)' => InForce(p)
    BY <2>1 DEF InForce
  <2>3. CASE UNCHANGED <<wd, watches, nextWd>> /\ handler' = "idle"
    <3>1. \A w, p : Harmless(w, p, watches', nextWd') = Harmless(w, p, watches, nextWd)
      BY <2>3
    <3>2. \A p \in Paths : InForce(p)' => Harmless(entry'[p].wd, p, watches', nextWd')
      BY <1>w, <2>1, <2>2, <3>1
    <3> QED
      BY <1>w, <2>1, <2>3, <3>2 DEF WatchInv
  <2>4. CASE handler' = "keys"
    <3>1. PICK w \in Wds :
            /\ \/ watches[w] = Dir[path]
               \/ w = nextWd /\ \A x \in Wds : watches[x] # Dir[path]
            /\ wd' = w
            /\ watches' = [watches EXCEPT ![w] = Dir[path]]
            /\ nextWd' = IF w = nextWd THEN w + 1 ELSE nextWd
      BY <1>1, <2>1, <2>4 DEF AddWatch
    <3>2. w \in Nat /\ Dir[path] # NoDir
      BY <1>t, NoDirAssumption DEF Wds
    <3>3. w <= nextWd /\ (watches[w] = NoDir \/ watches[w] = Dir[path])
      BY <1>t, <1>w, <3>1, <3>2
    <3>4. /\ nextWd' \in Nat /\ nextWd <= nextWd' /\ w < nextWd'
          /\ watches'[w] = Dir[path]
          /\ \A x \in Wds : x # w => watches'[x] = watches[x]
      BY <1>t, <3>1, <3>2, <3>3
    <3>5. \A x \in Wds : watches[x] # NoDir => watches'[x] = watches[x]
      BY <3>3, <3>4
    <3>6. \A x \in Wds : x >= nextWd' => watches'[x] = NoDir
      BY <1>t, <1>w, <3>2, <3>4 DEF Wds
    <3>7. \A x \in Wds : watches'[x] # NoDir => \E p \in Paths : watches'[x] = Dir[p]
      BY <1>t, <1>w, <3>4
    <3>8. \A d \in Dirs : wdCountLists[d] > 0 => \E x \in Wds : watches'[x] = d
      BY <1>w, <3>5, NoDirAssumption
    <3>9. ASSUME NEW p \in Paths, Harmless(entry[p].wd, p, watches, nextWd)
          PROVE  Harmless(entry[p].wd, p, watches', nextWd')
      <4>1. CASE OneDirectory
        BY <4>1 DEF Harmless, OneDirectory
      <4>2. CASE ~OneDirectory
        <5>1. /\ entry[p].wd < nextWd /\ entry[p].wd \in Int
              /\ entry[p].wd \in Wds => watches[entry[p].wd] \in {NoDir, Dir[p]}
          BY <1>t, <3>9, <4>2 DEF Harmless, Entries
        <5>2. entry[p].wd < nextWd'
          BY <1>t, <3>4, <5>1
        <5>3. CASE entry[p].wd = w
          <6>1. w # nextWd
            BY <1>t, <5>1, <5>3
          <6>2. watches'[w] = watches[w]
            BY <3>1, <3>4, <6>1
          <6> QED
            BY <2>1, <5>1, <5>2, <5>3, <6>2 DEF Harmless
        <5>4. CASE entry[p].wd # w
          BY <2>1, <3>4, <5>1, <5>2, <5>4 DEF Harmless
        <5> QED
          BY <5>3, <5>4
      <4> QED
        BY <4>1, <4>2
    <3>10. \A p \in Paths : InForce(p)' => Harmless(entry[p].wd, p, watches', nextWd')
      BY <1>w, <2>2, <3>9
    <3> QED
      BY <2>1, <2>4, <3>1, <3>4, <3>6, <3>7, <3>8, <3>10 DEF WatchInv, Harmless
  <2> QED
    BY <1>1, <2>3, <2>4 DEF AddWatch
<1>2. CASE AddKeys
  <2>1. /\ UNCHANGED <<monitoringLists, entry, path, wd, watches, nextWd>>
        /\ wdCountLists' = [wdCountLists EXCEPT ![Dir[path]] = 1]
        /\ handler = "keys" /\ handler' \in {"idle", "open"}
    BY <1>2 DEF AddKeys, inotify
  <2>2. \A w, p : Harmless(w, p, watches', nextWd') = Harmless(w, p, watches, nextWd)
    BY <2>1
  <2>3. \A p : InForce(p)' => InForce(p)
    BY <2>1 DEF InForce
  <2>4. Harmless(wd, path, watches, nextWd)
    BY <1>w, <2>1 DEF Harmless
  <2>5. handler' = "open" => Harmless(wd', path', watches', nextWd')
    BY <2>1, <2>4 DEF Harmless
  <2>6. \A d \in Dirs : wdCountLists'[d] > 0 => \E w \in Wds : watches[w] = d
    BY <1>t, <1>w, <2>1
  <2>7. \A p \in Paths : InForce(p)' => Harmless(entry'[p].wd, p, watches', nextWd')
    BY <1>w, <2>1, <2>2, <2>3
  <2> QED
    BY <1>w, <2>1, <2>5, <2>6, <2>7 DEF WatchInv
<1>3. CASE AddOpen
  <2>1. /\ UNCHANGED <<monitoringLists, wdCountLists, path, wd, watches, nextWd>>
        /\ handler = "open" /\ handler' = "list"
        /\ entry'[path].wd = wd
        /\ \A p \in Paths : p # path => entry'[p] = entry[p]
    BY <1>t, <1>3 DEF AddOpen, inotify
  <2>2. \A w, p : Harmless(w, p, watches', nextWd') = Harmless(w, p, watches, nextWd)
    BY <2>1
  <2>3. \A p : InForce(p)' => p = path \/ InForce(p)
    BY <2>1 DEF InForce
  <2>4. \A p \in Paths : InForce(p)' => Harmless(entry'[p].wd, p, watches', nextWd')
    BY <1>w, <2>1, <2>2, <2>3
  <2> QED
    BY <1>w, <2>1, <2>4 DEF WatchInv
<1>4. CASE AddList
  <2>1. /\ UNCHANGED <<entry, wdCountLists, path, wd, watches, nextWd>>
        /\ handler = "list" /\ handler' = "idle"
        /\ monitoringLists' = monitoringLists \cup {path}
    BY <1>4 DEF AddList, inotify
  <2>2. \A w, p : Harmless(w, p, watches', nextWd') = Harmless(w, p, watches, nextWd)
    BY <2>1
  <2>3. \A p : InForce(p)' => InForce(p)
    BY <2>1 DEF InForce
  <2>4. \A p \in Paths : InForce(p)' => Harmless(entry'[p].wd, p, watches', nextWd')
    BY <1>w, <2>1, <2>2, <2>3
  <2> QED
    BY <1>w, <2>1, <2>4 DEF WatchInv
<1> QED
  BY <1>1, <1>2, <1>3, <1>4

LEMMA WatchRemove ==
  ASSUME WatchFacts, RemoveCount \/ RemoveWatch \/ RemoveFree
  PROVE  WatchInv'
<1>t. /\ wdCountLists \in [Dirs -> Nat]
      /\ path \in Paths /\ Dir[path] \in Dirs
      /\ watches \in [Wds -> Dirs \cup {NoDir}]
  BY DirAssumption DEF WatchFacts, Types, HandlerType, WatchesType
<1>w. /\ \A w \in Wds : w >= nextWd => watches[w] = NoDir
      /\ \A w \in Wds : watches[w] # NoDir => \E p \in Paths : watches[w] = Dir[p]
      /\ \A d \in Dirs : wdCountLists[d] > 0 => \E w \in Wds : watches[w] = d
      /\ \A p \in Paths : InForce(p) => Harmless(entry[p].wd, p, watches, nextWd)
  BY DEF WatchFacts, WatchInv
<1>1. /\ UNCHANGED <<entry, path, nextWd>>
      /\ handler \in {"count", "free"} /\ handler' \in {"free", "idle"}
      /\ monitoringLists' \subseteq monitoringLists
  BY DEF RemoveCount, RemoveWatch, RemoveFree, inotify
<1>2. \A p : InForce(p)' => InForce(p)
  BY <1>1 DEF InForce
<1>3. CASE UNCHANGED watches /\ \A d \in Dirs : wdCountLists'[d] > 0 => wdCountLists[d] > 0
  <2>1. \A w, p : Harmless(w, p, watches', nextWd') = Harmless(w, p, watches, nextWd)
    BY <1>1, <1>3
  <2>2. \A p \in Paths : InForce(p)' => Harmless(entry'[p].wd, p, watches', nextWd')
    BY <1>w, <1>1, <1>2, <2>1
  <2> QED
    BY <1>w, <1>1, <1>3, <2>2 DEF WatchInv
<1>4. CASE RemoveWatch /\ watches' # watches
  <2> DEFINE w == entry[path].wd
  <2>1. /\ w \in Wds /\ watches[w] # NoDir
        /\ watches' = [watches EXCEPT ![w] = NoDir]
        /\ wdCountLists' = [wdCountLists EXCEPT ![Dir[path]] = 0]
        /\ handler = "count"
    BY <1>4 DEF RemoveWatch
  <2>2. InForce(path)
    BY <2>1 DEF WatchFacts, RegistryInv, HandlerInv, InForce
  <2>3. watches[w] = Dir[path]
    <3>1. CASE OneDirectory
      BY <1>t, <1>w, <2>1, <3>1 DEF OneDirectory
    <3>2. CASE ~OneDirectory
      BY <1>t, <1>w, <2>1, <2>2, <3>2 DEF Harmless
    <3> QED
      BY <3>1, <3>2
  <2> HIDE DEF w
  <2>4. \A x \in Wds : watches'[x] = NoDir \/ watches'[x] = watches[x]
    BY <1>t, <2>1
  <2>5. \A x \in Wds : watches[x] # Dir[path] => watches'[x] = watches[x]
    BY <1>t, <2>1, <2>3
  <2>6. \A d \in Dirs : wdCountLists'[d] > 0 => \E x \in Wds : watches'[x] = d
    BY <1>t, <1>w, <2>1, <2>5
  <2>7. \A x, p : Harmless(x, p, watches, nextWd) => Harmless(x, p, watches', nextWd')
    BY <1>1, <2>4 DEF Harmless, OneDirectory
  <2>8. \A p \in Paths : InForce(p)' => Harmless(entry'[p].wd, p, watches', nextWd')
    BY <1>w, <1>1, <1>2, <2>7
  <2>9. /\ \A x \in Wds : x >= nextWd' => watches'[x] = NoDir
        /\ \A x \in Wds : watches'[x] # NoDir => \E p \in Paths : watches'[x] = Dir[p]
    BY <1>w, <1>1, <2>4
  <2> QED
    BY <1>1, <2>6, <2>8, <2>9 DEF WatchInv
<1>5. RemoveCount \/ RemoveFree => watches' = watches
  BY DEF RemoveCount, RemoveFree, inotify
<1>6. watches' = watches => \A d \in Dirs : wdCountLists'[d] > 0 => wdCountLists[d] > 0
  BY <1>t DEF RemoveCount, RemoveWatch, RemoveFree
<1> QED
  BY <1>3, <1>4, <1>5, <1>6

(* The directory of every listed file is watched between requests, for any *)
(* files, requests and failures, if all are in one directory or each is in *)
(* its own (CMonitoring.cpp:49, 127-137).  With two files in one of two    *)
(* directories it is false: see the run MonitoringShared.                  *)
THEOREM WatchesKept ==
  ASSUME OneDirectory \/ OwnDirectories
  PROVE  Spec => []ListedIsWatched
<1> DEFINE Inv == Types /\ RegistryInv /\ WatchInv
<1>1. Init => Inv
  BY TypeInit, RegistryInit, WatchInit
<1>2. Inv /\ [Next]_vars => Inv'
  BY OneDirectory \/ OwnDirectories, TypeNext, RegistryNext, WatchReader,
     WatchPrograms, WatchRequest, WatchAdd, WatchRemove DEF Next, Handler, WatchFacts
<1>3. Inv => ListedIsWatched
  <2> SUFFICES ASSUME Inv, handler = "idle", NEW p \in monitoringLists
               PROVE  \E w \in Wds : watches[w] = Dir[p]
    BY DEF ListedIsWatched
  <2>1. p \in Paths /\ Dir[p] \in Dirs /\ Pending(Dir[p]) = 0
    BY DirAssumption DEF RegistryInv, RegistryType, Pending
  <2>2. IsFiniteSet(ListedIn(Dir[p])) /\ Cardinality(ListedIn(Dir[p])) \in Nat
    BY <2>1, ListedFinite DEF RegistryInv, RegistryType
  <2>3. p \in ListedIn(Dir[p])
    BY DEF ListedIn
  <2>4. Cardinality(ListedIn(Dir[p])) # 0
    BY <2>2, <2>3, FS_EmptySet
  <2>5. wdCountLists[Dir[p]] = Cardinality(ListedIn(Dir[p])) + 0
    BY <2>1 DEF RegistryInv, CountInv
  <2>6. wdCountLists[Dir[p]] > 0
    BY <2>2, <2>4, <2>5
  <2> QED
    BY <2>1, <2>6 DEF WatchInv
<1> QED
  BY <1>1, <1>2, <1>3, PTL DEF Spec

(* While files only grow and are never removed, no exception ends the      *)
(* thread and no freed entry the process (CMonitoring.cpp:140, 173-240).   *)
THEOREM ReaderGoesOn ==
  ASSUME OnlyGrowing
  PROVE  Spec => []ReaderSurvives
  BY OnlyGrowing, GrowingFilesReported, PTL
=============================================================================
