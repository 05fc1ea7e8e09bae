---------------------------- MODULE DeviceProofs ----------------------------
(***************************************************************************)
(* Theorems about Device, for any processes, descriptors and scans: the    *)
(* types and the descriptors that are open, that a list of descriptors has *)
(* its process, that scans which do not overlap leave nothing of each      *)
(* other, and why a scan is lost.                                          *)
(***************************************************************************)
EXTENDS Device, FiniteSetTheorems, TLAPS

(* The calls that stand, with program counters p, at a label of a set. *)
CallsAt(p, labels) == {t \in Threads : p[t] \in labels}

(* What a call has open at a label, but for the directories it leaves. *)
Held(label) == (IF label \in ProcOpen THEN 1 ELSE 0)
                 + (IF label \in FileOpen THEN 1 ELSE 0)

(* Types need the count of the descriptors: close takes one away. *)
Inv == TypeOK /\ FilesAccounted

LEMMA CallsAtFinite ==
  ASSUME NEW p, NEW S
  PROVE  IsFiniteSet(CallsAt(p, S)) /\ Cardinality(CallsAt(p, S)) \in Nat
<1>1. IsFiniteSet({"init"}) /\ IsFiniteSet(Threads)
  <2>1. IsFiniteSet({"init"})
    BY FS_Singleton
  <2>2. Threads = {"init"} \cup {"timer"}
    BY DEF Threads
  <2> QED
    BY <2>1, <2>2, FS_AddElement
<1>2. CallsAt(p, S) \subseteq Threads
  BY DEF CallsAt
<1> QED
  BY <1>1, <1>2, FS_Subset, FS_CardinalityType

(* A call that moves into a set of labels is one more there, one that      *)
(* moves out of it one less.                                               *)
LEMMA CallsAtMove ==
  ASSUME TypeOK, NEW S, NEW t \in Threads, NEW to \in Labels,
         pc' = [pc EXCEPT ![t] = to]
  PROVE  /\ (pc[t] \in S <=> to \in S) =>
              Cardinality(CallsAt(pc', S)) = Cardinality(CallsAt(pc, S))
         /\ pc[t] \in S /\ to \notin S =>
              Cardinality(CallsAt(pc', S)) = Cardinality(CallsAt(pc, S)) - 1
         /\ pc[t] \notin S /\ to \in S =>
              Cardinality(CallsAt(pc', S)) = Cardinality(CallsAt(pc, S)) + 1
<1>1. pc \in [Threads -> Labels]
  BY DEF TypeOK
<1>2. CASE pc[t] \in S /\ to \in S
  <2>1. CallsAt(pc', S) = CallsAt(pc, S)
    BY <1>1, <1>2 DEF CallsAt
  <2> QED
    BY <1>2, <2>1
<1>3. CASE pc[t] \in S /\ to \notin S
  <2>1. CallsAt(pc', S) = CallsAt(pc, S) \ {t} /\ t \in CallsAt(pc, S)
    BY <1>1, <1>3 DEF CallsAt
  <2> QED
    BY <1>3, <2>1, CallsAtFinite, FS_RemoveElement
<1>4. CASE pc[t] \notin S /\ to \in S
  <2>1. CallsAt(pc', S) = CallsAt(pc, S) \cup {t} /\ t \notin CallsAt(pc, S)
    BY <1>1, <1>4 DEF CallsAt
  <2> QED
    BY <1>4, <2>1, CallsAtFinite, FS_AddElement
<1>5. CASE pc[t] \notin S /\ to \notin S
  <2>1. CallsAt(pc', S) = CallsAt(pc, S)
    BY <1>1, <1>5 DEF CallsAt
  <2> QED
    BY <1>5, <2>1
<1> QED
  BY <1>2, <1>3, <1>4, <1>5

LEMMA FilesByCalls ==
  /\ FilesAccounted <=> files = fdDirs + Cardinality(CallsAt(pc, ProcOpen))
                                       + Cardinality(CallsAt(pc, FileOpen))
  /\ FilesAccounted' <=> files' = fdDirs' + Cardinality(CallsAt(pc', ProcOpen))
                                          + Cardinality(CallsAt(pc', FileOpen))
BY DEF FilesAccounted, CallsAt

(* No call has anything open when the program starts, or has died. *)
LEMMA NothingHeld ==
  ASSUME NEW p, \A t \in Threads : p[t] = "idle"
  PROVE  Cardinality(CallsAt(p, ProcOpen)) = 0 /\ Cardinality(CallsAt(p, FileOpen)) = 0
<1>1. CallsAt(p, ProcOpen) = {} /\ CallsAt(p, FileOpen) = {}
  BY DEF CallsAt, ProcOpen, FileOpen, InProc, Entry
<1> QED
  BY <1>1, FS_EmptySet

(* A step whose opens and closes are those between its two labels, and the *)
(* directories it leaves, is accounted for.                                *)
LEMMA StepAccounted ==
  ASSUME Inv, NEW t \in Threads, NEW to \in Labels,
         pc' = [pc EXCEPT ![t] = to], files' \in Int, fdDirs' \in Nat,
         files' - fdDirs' = (files - fdDirs) + Held(to) - Held(pc[t])
  PROVE  FilesAccounted' /\ files' >= 0
<1>1. pc \in [Threads -> Labels] /\ files \in Int /\ fdDirs \in Nat
  BY BoundsAssumption DEF Inv, TypeOK
<1>2. /\ Cardinality(CallsAt(pc, ProcOpen)) \in Nat
      /\ Cardinality(CallsAt(pc', ProcOpen)) \in Nat
      /\ Cardinality(CallsAt(pc, FileOpen)) \in Nat
      /\ Cardinality(CallsAt(pc', FileOpen)) \in Nat
  BY CallsAtFinite
<1>3. Cardinality(CallsAt(pc', ProcOpen)) - Cardinality(CallsAt(pc, ProcOpen)) =
        (IF to \in ProcOpen THEN 1 ELSE 0) - (IF pc[t] \in ProcOpen THEN 1 ELSE 0)
  <2>1. /\ (pc[t] \in ProcOpen <=> to \in ProcOpen) =>
             Cardinality(CallsAt(pc', ProcOpen)) = Cardinality(CallsAt(pc, ProcOpen))
        /\ pc[t] \in ProcOpen /\ to \notin ProcOpen =>
             Cardinality(CallsAt(pc', ProcOpen)) = Cardinality(CallsAt(pc, ProcOpen)) - 1
        /\ pc[t] \notin ProcOpen /\ to \in ProcOpen =>
             Cardinality(CallsAt(pc', ProcOpen)) = Cardinality(CallsAt(pc, ProcOpen)) + 1
    BY CallsAtMove DEF Inv
  <2> QED
    BY <1>2, <2>1
<1>4. Cardinality(CallsAt(pc', FileOpen)) - Cardinality(CallsAt(pc, FileOpen)) =
        (IF to \in FileOpen THEN 1 ELSE 0) - (IF pc[t] \in FileOpen THEN 1 ELSE 0)
  <2>1. /\ (pc[t] \in FileOpen <=> to \in FileOpen) =>
             Cardinality(CallsAt(pc', FileOpen)) = Cardinality(CallsAt(pc, FileOpen))
        /\ pc[t] \in FileOpen /\ to \notin FileOpen =>
             Cardinality(CallsAt(pc', FileOpen)) = Cardinality(CallsAt(pc, FileOpen)) - 1
        /\ pc[t] \notin FileOpen /\ to \in FileOpen =>
             Cardinality(CallsAt(pc', FileOpen)) = Cardinality(CallsAt(pc, FileOpen)) + 1
    BY CallsAtMove DEF Inv
  <2> QED
    BY <1>2, <2>1
<1>5. files = fdDirs + Cardinality(CallsAt(pc, ProcOpen))
                     + Cardinality(CallsAt(pc, FileOpen))
  BY FilesByCalls DEF Inv
<1>6. files' = fdDirs' + Cardinality(CallsAt(pc', ProcOpen))
                       + Cardinality(CallsAt(pc', FileOpen))
  <2>1. Held(to) \in Int /\ Held(pc[t]) \in Int
    BY DEF Held
  <2>2. Held(to) - Held(pc[t]) =
          (Cardinality(CallsAt(pc', ProcOpen)) - Cardinality(CallsAt(pc, ProcOpen)))
          + (Cardinality(CallsAt(pc', FileOpen)) - Cardinality(CallsAt(pc, FileOpen)))
    <3>1. Held(to) - Held(pc[t]) =
            ((IF to \in ProcOpen THEN 1 ELSE 0) - (IF pc[t] \in ProcOpen THEN 1 ELSE 0))
            + ((IF to \in FileOpen THEN 1 ELSE 0) - (IF pc[t] \in FileOpen THEN 1 ELSE 0))
      BY DEF Held
    <3> QED
      BY <1>3, <1>4, <3>1
  <2> QED
    BY <1>1, <1>2, <1>5, <2>1, <2>2
<1> QED
  BY <1>2, <1>6, FilesByCalls

(* A step of a call that keeps the types and the accounts. *)
LEMMA StepInv ==
  ASSUME Inv, NEW t \in Threads, NEW to \in Labels,
         pc' = [pc EXCEPT ![t] = to], UNCHANGED <<device, killed>>,
         deviceInfo' \in [Parts -> 0 .. MaxScans],
         processInfo' \in Seq(Entries),
         fdInfo' \in [Pids -> 0 .. MaxScans],
         scan' \in [Threads -> 0 .. MaxScans],
         pid' \in [Threads -> Pids \cup {0}],
         entries' \in [Threads -> SUBSET Pids],
         gone' \in [Threads -> BOOLEAN], disturbed' \in [Threads -> BOOLEAN],
         scans' \in 0 .. MaxScans, overlapped' \in BOOLEAN,
         to # "idle" => scan'[t] \in Scans,
         to \in Entry => pid'[t] \in Pids,
         \A u \in Threads \ {t} : scan'[u] = scan[u] /\ pid'[u] = pid[u],
         files' \in Int, files' <= MaxFiles, fdDirs' \in Nat,
         files' - fdDirs' = (files - fdDirs) + Held(to) - Held(pc[t])
  PROVE  Inv'
<1>1. FilesAccounted' /\ files' >= 0
  BY StepAccounted
<1>2. pc \in [Threads -> Labels] /\ pc' \in [Threads -> Labels]
  BY DEF Inv, TypeOK
<1>3. \A u \in Threads :
        /\ pc'[u] # "idle" => scan'[u] \in Scans
        /\ pc'[u] \in Entry => pid'[u] \in Pids
  BY <1>2 DEF Inv, TypeOK
<1>4. files' \in 0 .. MaxFiles
  BY <1>1, BoundsAssumption
<1>5. /\ killed' \in BOOLEAN /\ alive' \subseteq Pids /\ changes' \in 0 .. MaxChanges
  BY DEF Inv, TypeOK, device
<1>6. TypeOK'
  BY <1>2, <1>3, <1>4, <1>5 DEF TypeOK
<1> QED
  BY <1>1, <1>6 DEF Inv

(* The steps of a call that neither open nor close anything. *)
LEMMA PlainStep ==
  ASSUME Inv, NEW t \in Threads, NEW from \in Labels, NEW to \in Labels,
         Step(t, from, to), UNCHANGED <<scan, pid, entries, system, device, scans>>,
         from # "idle", Held(from) = Held(to),
         to \in Entry => from \in Entry,
         gone' \in [Threads -> BOOLEAN], disturbed' \in [Threads -> BOOLEAN],
         deviceInfo' \in [Parts -> 0 .. MaxScans],
         processInfo' \in Seq(Entries),
         fdInfo' \in [Pids -> 0 .. MaxScans],
         overlapped' \in BOOLEAN
  PROVE  Inv'
<1>1. pc' = [pc EXCEPT ![t] = to] /\ pc[t] = from
  BY DEF Step
<1>2. /\ scan' \in [Threads -> 0 .. MaxScans]
      /\ pid' \in [Threads -> Pids \cup {0}]
      /\ entries' \in [Threads -> SUBSET Pids]
      /\ scans' \in 0 .. MaxScans
      /\ scan'[t] \in Scans
      /\ to \in Entry => pid'[t] \in Pids
      /\ \A u \in Threads \ {t} : scan'[u] = scan[u] /\ pid'[u] = pid[u]
  BY <1>1 DEF Inv, TypeOK
<1>3. /\ files' \in Int /\ files' <= MaxFiles /\ fdDirs' \in Nat
      /\ UNCHANGED <<device, killed>>
  BY BoundsAssumption DEF Inv, TypeOK, system
<1>4. files' - fdDirs' = (files - fdDirs) + Held(to) - Held(pc[t])
  <2>1. Held(to) \in Int /\ Held(pc[t]) = Held(to)
    BY <1>1 DEF Held
  <2>2. files' - fdDirs' = files - fdDirs /\ files - fdDirs \in Int
    BY BoundsAssumption DEF Inv, TypeOK, system
  <2> QED
    BY <2>1, <2>2
<1> QED
  BY <1>1, <1>2, <1>3, <1>4, StepInv

(* Every step of a scan keeps the invariant. *)
LEMMA CollectInv ==
  ASSUME Inv, NEW t \in Threads,
         collectModelName(t) \/ collectNetworkInfo(t) \/ collectOsInfo(t)
           \/ collectServiceInfo(t)
  PROVE  Inv'
<1>1. PICK from \in {"model", "network", "os", "services"},
           to \in {"network", "os", "proc", "idle", "thrown"} :
        Step(t, from, to)
  BY DEF collectModelName, collectNetworkInfo, collectOsInfo,
         collectServiceInfo, Throws
<1>2. \/ deviceInfo' = deviceInfo
      \/ \E part \in Parts : Write(t, part)
  BY DEF collectModelName, collectNetworkInfo, collectOsInfo,
         collectServiceInfo, Throws, Parts
<1>3. deviceInfo' \in [Parts -> 0 .. MaxScans]
  BY <1>2 DEF Write, Inv, TypeOK
<1>4. UNCHANGED <<processInfo, fdInfo, call, system, device, scans, overlapped>>
  BY DEF collectModelName, collectNetworkInfo, collectOsInfo,
         collectServiceInfo, Throws
<1>5. /\ from \in Labels /\ to \in Labels /\ from # "idle"
      /\ Held(from) = Held(to) /\ to \notin Entry
  BY <1>1 DEF Labels, Running, InProc, Entry, Lost, Held, ProcOpen, FileOpen
<1>6. /\ processInfo' \in Seq(Entries)
      /\ fdInfo' \in [Pids -> 0 .. MaxScans]
      /\ overlapped' \in BOOLEAN
      /\ gone' \in [Threads -> BOOLEAN] /\ disturbed' \in [Threads -> BOOLEAN]
      /\ UNCHANGED <<scan, pid, entries, system, device, scans>>
  BY <1>4 DEF Inv, TypeOK, call
<1> QED
  BY <1>1, <1>3, <1>5, <1>6, PlainStep

(* An entry a scan writes has the type of an entry. *)
LEMMA EntryTyped ==
  ASSUME Inv, NEW t \in Threads, pc[t] \in Entry
  PROVE  pid[t] \in Pids /\ scan[t] \in Scans
BY DEF Inv, TypeOK, Entry

(* The steps in /proc that open and close nothing and succeed. *)
LEMMA ScanPlainInv ==
  ASSUME Inv, NEW t \in Threads,
         \/ NoProc(t) \/ ClearFds(t) \/ NoFds(t)
         \/ ReadNoLogs(t) \/ ReadLogs(t) \/ PushProcess(t)
  PROVE  Inv'
<1> DEFINE Rest == UNCHANGED <<scan, pid, entries, system, device, scans>>
<1>1. /\ processInfo \in Seq(Entries)
      /\ fdInfo \in [Pids -> 0 .. MaxScans]
      /\ deviceInfo \in [Parts -> 0 .. MaxScans]
  BY DEF Inv, TypeOK
<1>2. /\ Rest /\ UNCHANGED deviceInfo
      /\ overlapped' \in BOOLEAN
      /\ gone' \in [Threads -> BOOLEAN] /\ disturbed' \in [Threads -> BOOLEAN]
  BY DEF Inv, TypeOK, NoProc, ClearFds, NoFds, ReadNoLogs, ReadLogs,
         PushProcess, call, members
<1>3. PICK from \in {"proc", "clearFds", "fds", "readFds", "push"},
           to \in {"services", "next", "push"} :
        /\ Step(t, from, to)
        /\ from = "proc" <=> to = "services"
        /\ from = "clearFds" => to = "next"
  BY DEF NoProc, ClearFds, NoFds, ReadNoLogs, ReadLogs, PushProcess
<1>4. /\ from \in Labels /\ to \in Labels /\ from # "idle"
      /\ Held(from) = Held(to)
      /\ to \in Entry => from \in Entry
  BY <1>3 DEF Labels, Running, InProc, Entry, Lost, Held, ProcOpen, FileOpen
<1>5. fdInfo' \in [Pids -> 0 .. MaxScans]
  <2>1. CASE ReadLogs(t)
    <3>1. pid[t] \in Pids /\ scan[t] \in Scans
      BY <2>1, EntryTyped DEF ReadLogs, Step, Entry
    <3> QED
      BY <1>1, <2>1, <3>1, BoundsAssumption DEF ReadLogs, Scans
  <2>2. CASE ClearFds(t)
    BY <2>2, BoundsAssumption DEF ClearFds, Never
  <2>3. CASE ~ReadLogs(t) /\ ~ClearFds(t)
    BY <1>1, <2>3 DEF NoProc, NoFds, ReadNoLogs, PushProcess, members
  <2> QED
    BY <2>1, <2>2, <2>3
<1>6. processInfo' \in Seq(Entries)
  <2>1. CASE PushProcess(t)
    <3>1. [pid |-> pid[t], scan |-> scan[t]] \in Entries
      BY <2>1, EntryTyped DEF PushProcess, Step, Entry, Entries
    <3> QED
      BY <1>1, <2>1, <3>1 DEF PushProcess
  <2>2. CASE ~PushProcess(t)
    BY <1>1, <2>2 DEF NoProc, ClearFds, NoFds, ReadNoLogs, ReadLogs, members
  <2> QED
    BY <2>1, <2>2
<1> QED
  BY <1>1, <1>2, <1>3, <1>4, <1>5, <1>6, PlainStep

(* The steps at the files of a process. *)
ReadFiles(t) == ReadStatus(t) \/ ReadCmdline(t) \/ ReadSched(t)

(* Where they lead, what they change, and what they open or close. *)
LEMMA ReadFilesStep ==
  ASSUME Inv, NEW t \in Threads, ReadFiles(t)
  PROVE  /\ \E from \in {"status", "readStatus", "cmdline", "readCmdline",
                         "sched", "readSched"},
               to \in {"readStatus", "cmdline", "readCmdline", "sched",
                       "readSched", "fds", "spin", "spinOpen"} :
              /\ Step(t, from, to)
              /\ files' \in Int /\ files' <= MaxFiles
              /\ files' = files + Held(to) - Held(from)
         /\ gone' \in [Threads -> BOOLEAN] /\ disturbed' \in [Threads -> BOOLEAN]
         /\ UNCHANGED <<members, scan, pid, entries, killed, fdDirs, device, scans,
                        overlapped>>
<1> USE DEF Held, ProcOpen, FileOpen, InProc, Entry
<1>1. /\ files \in Int /\ files <= MaxFiles /\ MaxFiles \in Int
      /\ gone \in [Threads -> BOOLEAN] /\ disturbed \in [Threads -> BOOLEAN]
      /\ pc \in [Threads -> Labels]
  BY BoundsAssumption DEF Inv, TypeOK
<1>2. ASSUME NEW from \in {"status", "cmdline", "sched"},
             NEW to \in {"readStatus", "readCmdline", "readSched"},
             OpenFile(t, from, to)
      PROVE  /\ files' \in Int /\ files' <= MaxFiles
             /\ files' = files + Held(to) - Held(from)
             /\ Step(t, from, to) /\ gone' \in [Threads -> BOOLEAN]
             /\ disturbed' \in [Threads -> BOOLEAN]
             /\ UNCHANGED <<members, scan, pid, entries, killed, fdDirs, device,
                            scans, overlapped>>
  BY <1>1, <1>2 DEF OpenFile
<1>3. ASSUME NEW from \in {"readStatus", "readCmdline", "readSched"},
             NEW to \in {"cmdline", "sched", "fds"},
             CloseFile(t, from, to)
      PROVE  /\ files' \in Int /\ files' <= MaxFiles
             /\ files' = files + Held(to) - Held(from)
             /\ Step(t, from, to) /\ gone' \in [Threads -> BOOLEAN]
             /\ disturbed' \in [Threads -> BOOLEAN]
             /\ UNCHANGED <<members, scan, pid, entries, killed, fdDirs, device,
                            scans, overlapped>>
  BY <1>1, <1>3 DEF CloseFile
<1>4. ASSUME NEW from \in {"status", "sched"}, NotOpened(t, from)
      PROVE  /\ files' \in Int /\ files' <= MaxFiles
             /\ files' = files + Held("spin") - Held(from)
             /\ Step(t, from, "spin") /\ gone' \in [Threads -> BOOLEAN]
             /\ disturbed' \in [Threads -> BOOLEAN]
             /\ UNCHANGED <<members, scan, pid, entries, killed, fdDirs, device,
                            scans, overlapped>>
  BY <1>1, <1>4 DEF NotOpened, system
<1>5. ASSUME NEW from \in {"readStatus", "readSched"}, NotRead(t, from)
      PROVE  /\ files' \in Int /\ files' <= MaxFiles
             /\ files' = files + Held("spinOpen") - Held(from)
             /\ Step(t, from, "spinOpen") /\ gone' \in [Threads -> BOOLEAN]
             /\ disturbed' \in [Threads -> BOOLEAN]
             /\ UNCHANGED <<members, scan, pid, entries, killed, fdDirs, device,
                            scans, overlapped>>
  BY <1>1, <1>5 DEF NotRead, system, call
<1> HIDE DEF Held, ProcOpen, FileOpen, InProc, Entry
<1>6. CASE ReadStatus(t)
  BY <1>2, <1>3, <1>4, <1>5, <1>6 DEF ReadStatus
<1>7. CASE ReadCmdline(t)
  <2>1. CASE Step(t, "cmdline", "sched")
              /\ UNCHANGED <<members, call, system, device, scans, overlapped>>
    <3>1. Held("cmdline") = Held("sched") /\ Held("sched") \in Int
      BY DEF Held, ProcOpen, FileOpen, InProc, Entry
    <3> QED
      BY <1>1, <2>1, <3>1 DEF system, call
  <2> QED
    BY <1>2, <1>3, <1>7, <2>1 DEF ReadCmdline
<1>8. CASE ReadSched(t)
  BY <1>2, <1>3, <1>4, <1>5, <1>8 DEF ReadSched
<1> QED
  BY <1>6, <1>7, <1>8 DEF ReadFiles

LEMMA FilesInv ==
  ASSUME Inv, NEW t \in Threads, ReadFiles(t)
  PROVE  Inv'
<1>1. PICK from \in {"status", "readStatus", "cmdline", "readCmdline",
                     "sched", "readSched"},
           to \in {"readStatus", "cmdline", "readCmdline", "sched",
                   "readSched", "fds", "spin", "spinOpen"} :
        /\ Step(t, from, to)
        /\ files' \in Int /\ files' <= MaxFiles
        /\ files' = files + Held(to) - Held(from)
  BY ReadFilesStep
<1>2. /\ gone' \in [Threads -> BOOLEAN] /\ disturbed' \in [Threads -> BOOLEAN]
      /\ UNCHANGED <<members, scan, pid, entries, killed, fdDirs, device, scans,
                     overlapped>>
  BY ReadFilesStep
<1>3. pc[t] = from /\ pc' = [pc EXCEPT ![t] = to] /\ from \in Entry /\ to \in Labels
  BY <1>1 DEF Step, Entry, Labels, Running, InProc, Lost
<1>4. pid[t] \in Pids /\ scan[t] \in Scans
  BY <1>3, EntryTyped
<1>5. files' - fdDirs' = (files - fdDirs) + Held(to) - Held(pc[t]) /\ fdDirs' \in Nat
  <2>1. fdDirs \in Nat /\ files \in Int /\ Held(to) \in Int /\ Held(from) \in Int
    BY BoundsAssumption DEF Inv, TypeOK, Held
  <2> QED
    BY <1>1, <1>2, <1>3, <2>1
<1>6. /\ deviceInfo' \in [Parts -> 0 .. MaxScans]
      /\ processInfo' \in Seq(Entries)
      /\ fdInfo' \in [Pids -> 0 .. MaxScans]
      /\ scan' \in [Threads -> 0 .. MaxScans]
      /\ pid' \in [Threads -> Pids \cup {0}]
      /\ entries' \in [Threads -> SUBSET Pids]
      /\ scans' \in 0 .. MaxScans /\ overlapped' \in BOOLEAN
  BY <1>2 DEF Inv, TypeOK, members
<1> QED
  BY <1>1, <1>2, <1>3, <1>4, <1>5, <1>6, StepInv

(* A call that begins. *)
LEMMA BeginInv ==
  ASSUME Inv, NEW t \in Threads, collectAllData(t)
  PROVE  Inv'
<1>1. pc' = [pc EXCEPT ![t] = "model"] /\ pc[t] = "idle"
  BY DEF collectAllData, Step
<1>2. /\ scans' = scans + 1 /\ scans' \in Scans
      /\ scan' = [scan EXCEPT ![t] = scans']
      /\ UNCHANGED <<processInfo, fdInfo, pid, entries, gone, disturbed, system,
                     device>>
  BY BoundsAssumption DEF collectAllData, Inv, TypeOK, Scans
<1>3. /\ deviceInfo' = [deviceInfo EXCEPT !["name"] = scans']
      /\ overlapped' = (overlapped \/ \E u \in Threads : pc[u] \in Running)
  BY <1>2 DEF collectAllData, collectNameInfo
<1>4. overlapped' \in BOOLEAN
  <2>1. overlapped \in BOOLEAN
    BY DEF Inv, TypeOK
  <2> QED
    BY <1>3, <2>1
<1>5. /\ scan' \in [Threads -> 0 .. MaxScans]
      /\ deviceInfo' \in [Parts -> 0 .. MaxScans] /\ scans' \in 0 .. MaxScans
  <2>1. Scans \subseteq 0 .. MaxScans
    BY BoundsAssumption DEF Scans
  <2>2. scans' \in 0 .. MaxScans
    BY <1>2, <2>1
  <2>3. scan' \in [Threads -> 0 .. MaxScans]
    BY <1>2, <2>2 DEF Inv, TypeOK
  <2>4. deviceInfo' \in [Parts -> 0 .. MaxScans]
    BY <1>3, <2>2 DEF Inv, TypeOK
  <2> QED
    BY <2>2, <2>3, <2>4
<1>6. /\ scan'[t] \in Scans
      /\ \A u \in Threads \ {t} : scan'[u] = scan[u] /\ pid'[u] = pid[u]
  BY <1>2 DEF Inv, TypeOK
<1>7. /\ processInfo' \in Seq(Entries) /\ fdInfo' \in [Pids -> 0 .. MaxScans]
      /\ pid' \in [Threads -> Pids \cup {0}]
      /\ entries' \in [Threads -> SUBSET Pids]
      /\ gone' \in [Threads -> BOOLEAN] /\ disturbed' \in [Threads -> BOOLEAN]
      /\ files' \in Int /\ files' <= MaxFiles /\ fdDirs' \in Nat
      /\ UNCHANGED <<device, killed>>
  BY <1>2, BoundsAssumption DEF Inv, TypeOK, system
<1>8. /\ "model" \in Labels /\ "model" \notin Entry
      /\ Held("model") = 0 /\ Held(pc[t]) = 0
  BY <1>1 DEF Labels, Running, InProc, Entry, Lost, Held, ProcOpen, FileOpen
<1>9. files' - fdDirs' = (files - fdDirs) + Held("model") - Held(pc[t])
  BY <1>2, <1>7, <1>8 DEF system
<1> QED
  BY <1>1, <1>4, <1>5, <1>6, <1>7, <1>8, <1>9, StepInv

(* The steps that open or close a directory, and the next entry. *)
LEMMA DirectoryInv ==
  ASSUME Inv, NEW t \in Threads,
         OpenProc(t) \/ LastEntry(t) \/ OpenFds(t) \/ NextEntry(t)
  PROVE  Inv'
<1>1. PICK from \in {"proc", "next", "fds"},
           to \in {"clearFds", "services", "readFds", "status"} :
        /\ Step(t, from, to)
        /\ \/ from = "proc" /\ to = "clearFds" /\ OpenProc(t)
           \/ from = "next" /\ to = "services" /\ LastEntry(t)
           \/ from = "fds" /\ to = "readFds" /\ OpenFds(t)
           \/ from = "next" /\ to = "status" /\ NextEntry(t)
  BY DEF OpenProc, LastEntry, OpenFds, NextEntry
<1>2. pc' = [pc EXCEPT ![t] = to] /\ pc[t] = from /\ to \in Labels
  BY <1>1 DEF Step, Labels, Running, InProc, Entry
<1>3. UNCHANGED <<deviceInfo, fdInfo, scan, gone, killed, device, scans, overlapped>>
  BY DEF OpenProc, LastEntry, OpenFds, NextEntry, members, system, call
<1>4. processInfo' \in Seq(Entries)
  <2>1. processInfo' = processInfo \/ processInfo' = <<>>
    BY DEF OpenProc, LastEntry, OpenFds, NextEntry, members
  <2>2. processInfo \in Seq(Entries) /\ <<>> \in Seq(Entries)
    BY DEF Inv, TypeOK
  <2> QED
    BY <2>1, <2>2
<1>5. files \in Int /\ files <= MaxFiles /\ fdDirs \in Nat /\ MaxFiles \in Int
  BY BoundsAssumption DEF Inv, TypeOK
<1>6. /\ files' \in Int /\ files' <= MaxFiles /\ fdDirs' \in Nat
      /\ files' - fdDirs' = (files - fdDirs) + Held(to) - Held(pc[t])
  <2>1. CASE OpenProc(t) /\ from = "proc" /\ to = "clearFds"
    <3>1. Held(from) = 0 /\ Held(to) = 1
      BY <2>1 DEF Held, ProcOpen, FileOpen, InProc, Entry
    <3>2. files < MaxFiles /\ files' = files + 1 /\ fdDirs' = fdDirs
      BY <2>1 DEF OpenProc
    <3> QED
      BY <1>2, <1>5, <3>1, <3>2
  <2>2. CASE LastEntry(t) /\ from = "next" /\ to = "services"
    <3>1. Held(from) = 1 /\ Held(to) = 0
      BY <2>2 DEF Held, ProcOpen, FileOpen, InProc, Entry
    <3>2. files' = files - 1 /\ fdDirs' = fdDirs
      BY <2>2 DEF LastEntry
    <3> QED
      BY <1>2, <1>5, <3>1, <3>2
  <2>3. CASE OpenFds(t) /\ from = "fds" /\ to = "readFds"
    <3>1. Held(from) = 1 /\ Held(to) = 1
      BY <2>3 DEF Held, ProcOpen, FileOpen, InProc, Entry
    <3>2. files < MaxFiles /\ files' = files + 1 /\ fdDirs' = fdDirs + 1
      BY <2>3 DEF OpenFds
    <3> QED
      BY <1>2, <1>5, <3>1, <3>2
  <2>4. CASE NextEntry(t) /\ from = "next" /\ to = "status"
    <3>1. Held(from) = 1 /\ Held(to) = 1
      BY <2>4 DEF Held, ProcOpen, FileOpen, InProc, Entry
    <3>2. files' = files /\ fdDirs' = fdDirs
      BY <2>4 DEF NextEntry, system
    <3> QED
      BY <1>2, <1>5, <3>1, <3>2
  <2> QED
    BY <1>1, <2>1, <2>2, <2>3, <2>4
<1>7. /\ pid' \in [Threads -> Pids \cup {0}]
      /\ entries' \in [Threads -> SUBSET Pids]
      /\ disturbed' \in [Threads -> BOOLEAN]
      /\ to \in Entry => pid'[t] \in Pids
      /\ \A u \in Threads \ {t} : pid'[u] = pid[u]
  <2>1. CASE NextEntry(t)
    <3>1. PICK read \in {entries[t], alive} :
            \E p \in read : /\ pid' = [pid EXCEPT ![t] = p]
                            /\ entries' = [entries EXCEPT ![t] = read]
      BY <2>1 DEF NextEntry
    <3>2. PICK p \in read : pid' = [pid EXCEPT ![t] = p]
                            /\ entries' = [entries EXCEPT ![t] = read]
      BY <3>1
    <3>3. read \subseteq Pids /\ p \in Pids
      BY <3>1, <3>2 DEF Inv, TypeOK
    <3>4. disturbed' = disturbed
      BY <2>1 DEF NextEntry
    <3> QED
      BY <3>2, <3>3, <3>4 DEF Inv, TypeOK
  <2>2. CASE LastEntry(t) /\ to = "services"
    <3>1. /\ pid' = [pid EXCEPT ![t] = 0] /\ entries' = [entries EXCEPT ![t] = {}]
          /\ disturbed' = [disturbed EXCEPT ![t] = FALSE] /\ to \notin Entry
      BY <2>2 DEF LastEntry, Leave, Entry
    <3> QED
      BY <3>1 DEF Inv, TypeOK
  <2>3. CASE OpenProc(t) /\ to = "clearFds"
    <3>1. UNCHANGED <<pid, entries, disturbed>> /\ to \notin Entry
      BY <2>3 DEF OpenProc, call, Entry
    <3> QED
      BY <3>1 DEF Inv, TypeOK
  <2>4. CASE OpenFds(t) /\ from = "fds"
    <3>1. UNCHANGED <<pid, entries, disturbed>> /\ pc[t] \in Entry
      BY <1>2, <2>4 DEF OpenFds, call, Entry
    <3>2. pid[t] \in Pids
      BY <3>1, EntryTyped
    <3> QED
      BY <3>1, <3>2 DEF Inv, TypeOK
  <2> QED
    BY <1>1, <2>1, <2>2, <2>3, <2>4
<1>8. /\ scan'[t] \in Scans /\ \A u \in Threads \ {t} : scan'[u] = scan[u]
      /\ scan' \in [Threads -> 0 .. MaxScans]
      /\ deviceInfo' \in [Parts -> 0 .. MaxScans]
      /\ fdInfo' \in [Pids -> 0 .. MaxScans] /\ gone' \in [Threads -> BOOLEAN]
      /\ scans' \in 0 .. MaxScans /\ overlapped' \in BOOLEAN
      /\ UNCHANGED <<device, killed>>
  BY <1>1, <1>2, <1>3 DEF Inv, TypeOK
<1> QED
  BY <1>2, <1>4, <1>6, <1>7, <1>8, StepInv

(* The process dies. *)
LEMMA DieInv ==
  ASSUME Inv, Die
  PROVE  Inv'
<1> USE DEF Die
<1>1. TypeOK'
  <2>1. /\ processInfo' \in Seq(Entries) /\ killed' \in BOOLEAN
        /\ overlapped' \in BOOLEAN
    <3>1. overlapped \in BOOLEAN
      BY DEF Inv, TypeOK
    <3> QED
      BY <3>1
  <2>2. /\ deviceInfo' \in [Parts -> 0 .. MaxScans]
        /\ fdInfo' \in [Pids -> 0 .. MaxScans]
        /\ scan' \in [Threads -> 0 .. MaxScans]
        /\ files' \in 0 .. MaxFiles /\ fdDirs' \in Nat
    BY BoundsAssumption DEF Never
  <2>3. /\ pc' \in [Threads -> Labels] /\ pid' \in [Threads -> Pids \cup {0}]
        /\ entries' \in [Threads -> SUBSET Pids]
        /\ gone' \in [Threads -> BOOLEAN] /\ disturbed' \in [Threads -> BOOLEAN]
    BY DEF Labels
  <2>4. \A t \in Threads : pc'[t] = "idle"
    OBVIOUS
  <2>5. \A t \in Threads : pc'[t] \notin Entry
    BY <2>4 DEF Entry
  <2> QED
    BY <2>1, <2>2, <2>3, <2>4, <2>5 DEF Inv, TypeOK, device
<1>2. FilesAccounted'
  <2>1. \A t \in Threads : pc'[t] = "idle"
    OBVIOUS
  <2> QED
    BY <2>1, NothingHeld, FilesByCalls
<1> QED
  BY <1>1, <1>2 DEF Inv

(* Processes start or end. *)
LEMMA ChangeInv ==
  ASSUME Inv, ProcessChange
  PROVE  Inv'
<1>1. /\ UNCHANGED <<members, pc, scan, pid, entries, system, scans, overlapped>>
      /\ changes' \in 0 .. MaxChanges
  BY BoundsAssumption DEF ProcessChange, Inv, TypeOK
<1>2. /\ alive' \subseteq Pids
      /\ gone' \in [Threads -> BOOLEAN] /\ disturbed' \in [Threads -> BOOLEAN]
  <2>1. PICK p \in Pids :
          IF p \in alive
          THEN /\ alive' = alive \ {p}
               /\ gone' = [t \in Threads |->
                            gone[t] \/ (pc[t] \in FileOpen /\ pid[t] = p)]
               /\ disturbed' = [t \in Threads |-> disturbed[t] \/ pc[t] \in InProc]
          ELSE alive' = alive \cup {p} /\ UNCHANGED <<gone, disturbed>>
    BY DEF ProcessChange
  <2>2. /\ alive \subseteq Pids /\ gone \in [Threads -> BOOLEAN]
        /\ disturbed \in [Threads -> BOOLEAN]
    BY DEF Inv, TypeOK
  <2>3. \A t \in Threads : /\ (gone[t] \/ (pc[t] \in FileOpen /\ pid[t] = p)) \in BOOLEAN
                          /\ (disturbed[t] \/ pc[t] \in InProc) \in BOOLEAN
    BY <2>2
  <2> QED
    BY <2>1, <2>2, <2>3
<1>3. TypeOK'
  BY <1>1, <1>2 DEF Inv, TypeOK, members, system
<1>4. FilesAccounted'
  BY <1>1 DEF Inv, FilesAccounted, system
<1> QED
  BY <1>3, <1>4 DEF Inv

LEMMA InvInit == Init => Inv
<1> SUFFICES ASSUME Init PROVE Inv
  OBVIOUS
<1> USE DEF Init, Parts, Never, Threads
<1>1. TypeOK
  <2>1. processInfo \in Seq(Entries)
    OBVIOUS
  <2>2. /\ deviceInfo \in [Parts -> 0 .. MaxScans]
        /\ fdInfo \in [Pids -> 0 .. MaxScans]
        /\ scan \in [Threads -> 0 .. MaxScans]
    BY BoundsAssumption
  <2>3. /\ pc \in [Threads -> Labels] /\ pid \in [Threads -> Pids \cup {0}]
        /\ entries \in [Threads -> SUBSET Pids]
        /\ gone \in [Threads -> BOOLEAN] /\ disturbed \in [Threads -> BOOLEAN]
    BY DEF Labels
  <2>4. \A t \in Threads : pc[t] = "idle" /\ pc[t] \notin Entry
    BY DEF Entry
  <2>5. /\ files \in 0 .. MaxFiles /\ fdDirs \in Nat
        /\ changes \in 0 .. MaxChanges /\ scans \in 0 .. MaxScans
    BY BoundsAssumption
  <2>6. killed \in BOOLEAN /\ overlapped \in BOOLEAN /\ alive \subseteq Pids
    OBVIOUS
  <2> QED
    BY <2>1, <2>2, <2>3, <2>4, <2>5, <2>6 DEF TypeOK
<1>2. FilesAccounted
  <2>1. \A t \in Threads : pc[t] = "idle"
    OBVIOUS
  <2> QED
    BY <2>1, NothingHeld, FilesByCalls
<1> QED
  BY <1>1, <1>2 DEF Inv

(* Every step keeps the invariant. *)
LEMMA InvNext == Inv /\ [Next]_vars => Inv'
<1> SUFFICES ASSUME Inv, [Next]_vars PROVE Inv'
  OBVIOUS
<1>1. CASE \E t \in Threads : collectAllData(t)
  BY <1>1, BeginInv
<1>2. ASSUME NEW t \in Threads, Scan(t) PROVE Inv'
  BY <1>2, CollectInv, ScanPlainInv, FilesInv, DirectoryInv
     DEF Scan, collectProcessInfo, ReadFiles
<1>3. CASE (\E t \in Threads : NetworkExit(t)) \/ DataRace
  BY <1>3, DieInv DEF NetworkExit, DataRace
<1>4. CASE ProcessChange
  BY <1>4, ChangeInv
<1>5. CASE UNCHANGED vars
  <2>1. TypeOK'
    BY <1>5 DEF Inv, TypeOK, vars, members, system, device, call
  <2>2. FilesAccounted'
    BY <1>5 DEF Inv, FilesAccounted, vars, system
  <2> QED
    BY <2>1, <2>2 DEF Inv
<1> QED
  BY <1>1, <1>2, <1>3, <1>4, <1>5 DEF Next

(* Every variable of Device keeps its type, for any processes and bounds   *)
(* (CDevice.h:8-11): in particular no more descriptors are closed than are *)
(* open, and what a scan writes is of a process and of a scan there was.   *)
THEOREM DeviceTypeCorrect == Spec => []TypeOK
<1>1. Inv => TypeOK
  BY DEF Inv
<1> QED
  BY <1>1, InvInit, InvNext, PTL DEF Spec

(* The descriptors that are open are one directory for each process whose  *)
(* descriptors were read, /proc for each scan in it or lost in it, and one *)
(* file for each scan that reads a process or was lost over a file it had  *)
(* opened (CDevice.cpp:255, 274-307, 320, 337).                            *)
THEOREM DescriptorsAccounted == Spec => []FilesAccounted
<1>1. Inv => FilesAccounted
  BY DEF Inv
<1> QED
  BY <1>1, InvInit, InvNext, PTL DEF Spec
-----------------------------------------------------------------------------
(* A step of a call that leaves the lists, and is not the one that lists a *)
(* process or empties the descriptors, leaves every list its owner.        *)
LEMMA OwnersPlain ==
  ASSUME Inv, OwnersListed, NEW t \in Threads, NEW to \in Labels,
         pc' = [pc EXCEPT ![t] = to], pc[t] \notin {"clearFds", "push"},
         UNCHANGED <<processInfo, fdInfo>>,
         \A u \in Threads \ {t} : pid'[u] = pid[u]
  PROVE  OwnersListed'
<1> SUFFICES ASSUME NEW p \in Pids, fdInfo'[p] # Never
             PROVE  \/ Listed(p)'
                    \/ \E u \in Threads :
                         pc'[u] = "clearFds" \/ (pc'[u] = "push" /\ pid'[u] = p)
  BY DEF OwnersListed
<1>1. CASE Listed(p)
  BY <1>1 DEF Listed
<1>2. CASE ~Listed(p)
  <2>1. PICK u \in Threads : pc[u] = "clearFds" \/ (pc[u] = "push" /\ pid[u] = p)
    BY <1>2 DEF OwnersListed
  <2>2. pc'[u] = pc[u] /\ pid'[u] = pid[u]
    BY <2>1 DEF Inv, TypeOK
  <2> QED
    BY <2>1, <2>2
<1> QED
  BY <1>1, <1>2

LEMMA OwnersNext == Inv /\ OwnersListed /\ [Next]_vars => OwnersListed'
<1> SUFFICES ASSUME Inv, OwnersListed, [Next]_vars PROVE OwnersListed'
  OBVIOUS
<1> USE DEF Labels, Running, InProc, Entry, Lost
<1>1. ASSUME NEW t \in Threads,
             \/ collectAllData(t) \/ collectModelName(t) \/ collectNetworkInfo(t)
             \/ collectOsInfo(t) \/ collectServiceInfo(t) \/ NoProc(t)
             \/ NextEntry(t) \/ LastEntry(t) \/ NoFds(t) \/ OpenFds(t)
             \/ ReadNoLogs(t)
      PROVE  OwnersListed'
  <2>1. PICK from \in Labels \ {"clearFds", "push"}, to \in Labels :
          Step(t, from, to)
    BY <1>1 DEF collectAllData, collectModelName, collectNetworkInfo,
                collectOsInfo, collectServiceInfo, NoProc, NextEntry,
                LastEntry, NoFds, OpenFds, ReadNoLogs, Throws
  <2>2. UNCHANGED <<processInfo, fdInfo>>
    BY <1>1 DEF collectAllData, collectModelName, collectNetworkInfo,
                collectOsInfo, collectServiceInfo, NoProc, NextEntry,
                LastEntry, NoFds, OpenFds, ReadNoLogs, members
  <2>3. \A u \in Threads \ {t} : pid'[u] = pid[u]
    <3>1. pid' = pid \/ \E p : pid' = [pid EXCEPT ![t] = p]
      BY <1>1 DEF collectAllData, collectModelName, collectNetworkInfo,
                  collectOsInfo, collectServiceInfo, NoProc, NextEntry,
                  LastEntry, Leave, NoFds, OpenFds, ReadNoLogs, call
    <3> QED
      BY <3>1 DEF Inv, TypeOK
  <2> QED
    BY <2>1, <2>2, <2>3, OwnersPlain DEF Step
<1>2. ASSUME NEW t \in Threads, OpenProc(t) PROVE OwnersListed'
  <2>1. pc'[t] = "clearFds"
    BY <1>2 DEF OpenProc, Step, Inv, TypeOK
  <2> QED
    BY <2>1 DEF OwnersListed
<1>3. ASSUME NEW t \in Threads, ClearFds(t) PROVE OwnersListed'
  BY <1>3 DEF ClearFds, OwnersListed
<1>4. ASSUME NEW t \in Threads, ReadLogs(t) PROVE OwnersListed'
  <2>1. /\ pc' = [pc EXCEPT ![t] = "push"] /\ pc[t] = "readFds"
        /\ \A p \in Pids : p # pid[t] => fdInfo'[p] = fdInfo[p]
        /\ processInfo' = processInfo /\ pid' = pid
    BY <1>4 DEF ReadLogs, Step, Inv, TypeOK, call
  <2> SUFFICES ASSUME NEW p \in Pids, fdInfo'[p] # Never
               PROVE  \/ Listed(p)'
                      \/ \E u \in Threads :
                           pc'[u] = "clearFds" \/ (pc'[u] = "push" /\ pid'[u] = p)
    BY DEF OwnersListed
  <2>2. CASE p = pid[t]
    BY <2>1, <2>2 DEF Inv, TypeOK
  <2>3. CASE p # pid[t] /\ Listed(p)
    BY <2>1, <2>3 DEF Listed
  <2>4. CASE p # pid[t] /\ ~Listed(p)
    <3>1. PICK u \in Threads : pc[u] = "clearFds" \/ (pc[u] = "push" /\ pid[u] = p)
      BY <2>1, <2>4 DEF OwnersListed
    <3>2. pc'[u] = pc[u] /\ pid'[u] = pid[u]
      BY <2>1, <3>1 DEF Inv, TypeOK
    <3> QED
      BY <3>1, <3>2
  <2> QED
    BY <2>2, <2>3, <2>4
<1>5. ASSUME NEW t \in Threads, PushProcess(t) PROVE OwnersListed'
  <2>1. /\ pc' = [pc EXCEPT ![t] = "next"] /\ pc[t] = "push"
        /\ processInfo' = Append(processInfo, [pid |-> pid[t], scan |-> scan[t]])
        /\ fdInfo' = fdInfo /\ pid' = pid
    BY <1>5 DEF PushProcess, Step, call
  <2>2. processInfo \in Seq(Entries)
    BY DEF Inv, TypeOK
  <2>3. /\ Len(processInfo') = Len(processInfo) + 1
        /\ \A i \in 1 .. Len(processInfo) : processInfo'[i] = processInfo[i]
        /\ processInfo'[Len(processInfo) + 1].pid = pid[t]
    BY <2>1, <2>2
  <2>4. Len(processInfo) \in Nat
    BY <2>2
  <2> SUFFICES ASSUME NEW p \in Pids, fdInfo'[p] # Never
               PROVE  \/ Listed(p)'
                      \/ \E u \in Threads :
                           pc'[u] = "clearFds" \/ (pc'[u] = "push" /\ pid'[u] = p)
    BY DEF OwnersListed
  <2>5. CASE p = pid[t]
    BY <2>3, <2>4, <2>5 DEF Listed
  <2>6. CASE Listed(p)
    BY <2>3, <2>4, <2>6 DEF Listed
  <2>7. CASE p # pid[t] /\ ~Listed(p)
    <3>1. PICK u \in Threads : pc[u] = "clearFds" \/ (pc[u] = "push" /\ pid[u] = p)
      BY <2>1, <2>7 DEF OwnersListed
    <3>2. u # t
      BY <2>1, <2>7, <3>1
    <3>3. pc'[u] = pc[u] /\ pid'[u] = pid[u]
      BY <2>1, <3>2 DEF Inv, TypeOK
    <3> QED
      BY <3>1, <3>3
  <2> QED
    BY <2>5, <2>6, <2>7
<1>6. CASE (\E t \in Threads : NetworkExit(t)) \/ DataRace
  BY <1>6 DEF NetworkExit, DataRace, Die, OwnersListed
<1>7. CASE ProcessChange \/ UNCHANGED vars
  <2>1. UNCHANGED <<members, pc, pid>>
    BY <1>7 DEF ProcessChange, vars, call
  <2> QED
    BY <2>1 DEF OwnersListed, Listed, members
<1>8. ASSUME NEW t \in Threads, ReadFiles(t) PROVE OwnersListed'
  <2>1. PICK from \in {"status", "readStatus", "cmdline", "readCmdline",
                       "sched", "readSched"},
             to \in {"readStatus", "cmdline", "readCmdline", "sched",
                     "readSched", "fds", "spin", "spinOpen"} : Step(t, from, to)
    BY <1>8, ReadFilesStep
  <2>2. UNCHANGED <<processInfo, fdInfo, pid>>
    BY <1>8, ReadFilesStep DEF members
  <2> QED
    BY <2>1, <2>2, OwnersPlain DEF Step
<1> QED
  BY <1>1, <1>2, <1>3, <1>4, <1>5, <1>6, <1>7, <1>8
     DEF Next, Scan, collectProcessInfo, ReadFiles

(* Each list of descriptors has its process in the list of processes,      *)
(* whichever scans overlap or are lost (CDevice.cpp:262-263, 316, 372).    *)
THEOREM ListsHaveOwners == Spec => []OwnersListed
<1>1. Init => OwnersListed
  BY DEF Init, OwnersListed
<1> QED
  BY <1>1, InvInit, InvNext, OwnersNext, PTL DEF Spec
-----------------------------------------------------------------------------
(* What a scan that runs alone has written when it is at a label, ...      *)
Collected(label) ==
  {"name"}
    \cup (IF label = "model" THEN {} ELSE {"modelName"})
    \cup (IF label \in {"model", "network"} THEN {} ELSE {"networkInfo"})
    \cup (IF label \in {"model", "network", "os"} THEN {} ELSE {"osInfo"})

(* ... and what it has listed: processes up to the one in hand.            *)
ListedSoFar(t) ==
  /\ FromOneScan(scan[t])
  /\ \A i \in 1 .. Len(processInfo) :
       IF pc[t] = "next" THEN processInfo[i].pid <= pid[t]
                         ELSE processInfo[i].pid < pid[t]

(* While no two scans have overlapped, at most one runs, and all it has    *)
(* come to is its own.                                                     *)
LoneInv ==
  ~killed /\ ~overlapped =>
    /\ \A t, u \in Threads : pc[t] \in Running /\ pc[u] \in Running => t = u
    /\ \A t \in Threads : pc[t] \in Running =>
         /\ scan[t] = scans
         /\ \A part \in Collected(pc[t]) : deviceInfo[part] = scans
    /\ \A t \in Threads : pc[t] = "clearFds" => processInfo = <<>>
    /\ \A t \in Threads : pc[t] \in InProc \ {"clearFds"} => ListedSoFar(t)
    /\ (\A t \in Threads : pc[t] # "clearFds") => \E n \in 0 .. scans : FromOneScan(n)
    /\ (\A t \in Threads : pc[t] = "idle") /\ scans > 0 =>
         \A part \in Parts : deviceInfo[part] = scans

LEMMA LoneInit == Init => LoneInv
<1> SUFFICES ASSUME Init PROVE LoneInv
  OBVIOUS
<1>1. \A t \in Threads : pc[t] \notin Running /\ pc[t] # "clearFds"
  BY DEF Init, Running, InProc, Entry
<1>2. \A t \in Threads : pc[t] \notin InProc
  BY <1>1 DEF Running
<1>3. scans = 0 /\ processInfo = <<>> /\ \A p \in Pids : fdInfo[p] = Never
  BY DEF Init
<1>4. FromOneScan(0)
  BY <1>3 DEF FromOneScan
<1>5. \E n \in 0 .. scans : FromOneScan(n)
  BY <1>3, <1>4
<1> QED
  BY <1>1, <1>2, <1>3, <1>5 DEF LoneInv

(* A step of the only call that runs: what is to be shown is about it.     *)
LEMMA LoneStep ==
  ASSUME Inv, NEW t \in Threads, NEW to \in Labels,
         pc' = [pc EXCEPT ![t] = to],
         \A u \in Threads \ {t} : pc[u] \notin Running,
         to \in Running => /\ scan'[t] = scans'
                          /\ \A part \in Collected(to) : deviceInfo'[part] = scans',
         to = "clearFds" => processInfo' = <<>>,
         to \in InProc \ {"clearFds"} => ListedSoFar(t)',
         to # "clearFds" => \E n \in 0 .. scans' : FromOneScan(n)',
         to = "idle" /\ scans' > 0 => \A part \in Parts : deviceInfo'[part] = scans'
  PROVE  LoneInv'
<1>1. pc'[t] = to /\ \A u \in Threads : pc'[u] \in Running => u = t
  BY DEF Inv, TypeOK
<1>2. InProc \subseteq Running /\ "clearFds" \in InProc
  BY DEF InProc, Running, Entry
<1>3. \A u \in Threads : pc'[u] \in Running =>
        scan'[u] = scans' /\ \A part \in Collected(pc'[u]) : deviceInfo'[part] = scans'
  BY <1>1
<1>4. \A u \in Threads : pc'[u] = "clearFds" => processInfo' = <<>>
  BY <1>1, <1>2
<1>5. \A u \in Threads : pc'[u] \in InProc \ {"clearFds"} => ListedSoFar(u)'
  BY <1>1, <1>2
<1>6. (\A u \in Threads : pc'[u] # "clearFds") =>
        \E n \in 0 .. scans' : FromOneScan(n)'
  BY <1>1
<1>7. (\A u \in Threads : pc'[u] = "idle") /\ scans' > 0 =>
        \A part \in Parts : deviceInfo'[part] = scans'
  BY <1>1
<1> QED
  BY <1>1, <1>3, <1>4, <1>5, <1>6, <1>7 DEF LoneInv
(* Processes are numbered. *)
LEMMA PidsAreNat ==
  ASSUME Inv
  PROVE  /\ processInfo \in Seq(Entries)
         /\ \A i \in 1 .. Len(processInfo) : processInfo[i].pid \in Nat
         /\ \A t \in Threads : pid[t] \in Nat
<1>1. processInfo \in Seq(Entries) /\ pid \in [Threads -> Pids \cup {0}]
  BY DEF Inv, TypeOK
<1>2. \A e \in Entries : e.pid \in Nat
  BY PidsAssumption DEF Entries
<1>3. \A i \in 1 .. Len(processInfo) : processInfo[i] \in Entries
  BY <1>1
<1>4. \A t \in Threads : pid[t] \in Nat
  <2>1. \A p \in Pids : p \in Nat
    BY PidsAssumption
  <2> QED
    BY <1>1, <2>1
<1> QED
  BY <1>1, <1>2, <1>3, <1>4

(* What is known of the only call that runs. *)
LEMMA LoneNow ==
  ASSUME Inv, LoneInv, ~killed, ~overlapped, NEW t \in Threads, pc[t] \in Running
  PROVE  /\ \A u \in Threads \ {t} : pc[u] \notin Running
         /\ scan[t] = scans /\ scans \in Scans
         /\ \A part \in Collected(pc[t]) : deviceInfo[part] = scans
         /\ pc[t] = "clearFds" => processInfo = <<>>
         /\ pc[t] \in InProc \ {"clearFds"} => ListedSoFar(t)
         /\ pc[t] # "clearFds" => \E n \in 0 .. scans : FromOneScan(n)
<1>1. \A u \in Threads \ {t} : pc[u] \notin Running
  BY DEF LoneInv
<1>2. pc[t] # "idle"
  BY DEF Running, InProc, Entry
<1>3. scan[t] = scans /\ scans \in Scans
  <2>1. scan[t] \in Scans
    BY <1>2 DEF Inv, TypeOK
  <2> QED
    BY <2>1 DEF LoneInv
<1>4. pc[t] # "clearFds" => \A u \in Threads : pc[u] # "clearFds"
  BY <1>1 DEF Running, InProc, Entry
<1> QED
  BY <1>1, <1>3, <1>4 DEF LoneInv

(* The steps outside /proc, and those that end in or leave it, which keep  *)
(* the lists.                                                              *)
LEMMA LoneCollect ==
  ASSUME Inv, LoneInv, ~killed, ~overlapped', NEW t \in Threads,
         \/ collectAllData(t) \/ collectModelName(t) \/ collectNetworkInfo(t)
         \/ collectOsInfo(t) \/ collectServiceInfo(t) \/ NoProc(t)
  PROVE  LoneInv'
<1> USE DEF Labels, Lost
<1>1. CASE collectAllData(t)
  <2>1. /\ pc' = [pc EXCEPT ![t] = "model"] /\ pc[t] = "idle"
        /\ scans' = scans + 1 /\ scan' = [scan EXCEPT ![t] = scans + 1]
        /\ deviceInfo' = [deviceInfo EXCEPT !["name"] = scans + 1]
        /\ UNCHANGED <<processInfo, fdInfo>>
    BY <1>1 DEF collectAllData, Step, collectNameInfo
  <2>2. ~overlapped /\ \A u \in Threads : pc[u] \notin Running
    BY <1>1 DEF collectAllData
  <2>3. scan'[t] = scans' /\ deviceInfo'["name"] = scans' /\ scans \in Nat
    BY <2>1 DEF Inv, TypeOK, Parts
  <2>4. \A part \in Collected("model") : deviceInfo'[part] = scans'
    BY <2>3 DEF Collected
  <2>5. PICK n \in 0 .. scans : FromOneScan(n)
    BY <2>2 DEF LoneInv, Running, InProc, Entry
  <2>6. FromOneScan(n)' /\ n \in 0 .. scans'
    BY <2>1, <2>3, <2>5, SMTT(40) DEF FromOneScan
  <2>7. "model" \notin InProc /\ "model" \in Labels
    BY DEF InProc, Running, Entry
  <2> QED
    BY <2>1, <2>2, <2>3, <2>4, <2>6, <2>7, LoneStep
<1>2. ASSUME ~collectAllData(t) PROVE LoneInv'
  <2>1. UNCHANGED <<processInfo, fdInfo, scan, scans, overlapped>>
    BY <1>2 DEF collectModelName, collectNetworkInfo, collectOsInfo,
                collectServiceInfo, NoProc, Throws, members, call
  <2>2. PICK from \in {"model", "network", "os", "services", "proc"},
             to \in {"network", "os", "proc", "services", "idle", "thrown"} :
          /\ Step(t, from, to)
          /\ \/ to = "thrown"
             \/ /\ from = "model" /\ to = "network" /\ Write(t, "modelName")
             \/ /\ from = "network" /\ to = "os" /\ Write(t, "networkInfo")
             \/ /\ from = "os" /\ to = "proc" /\ Write(t, "osInfo")
             \/ /\ from = "services" /\ to = "idle" /\ Write(t, "serviceList")
             \/ /\ from = "proc" /\ to = "services" /\ UNCHANGED deviceInfo
    BY <1>2 DEF collectModelName, collectNetworkInfo, collectOsInfo,
                collectServiceInfo, NoProc, Throws, members
  <2>3. pc[t] = from /\ pc' = [pc EXCEPT ![t] = to]
    BY <2>2 DEF Step
  <2>4. from \in Running /\ to \in Labels /\ from # "clearFds" /\ to \notin InProc
    BY <2>2 DEF Running, InProc, Entry
  <2>5. /\ \A u \in Threads \ {t} : pc[u] \notin Running
        /\ scan[t] = scans
        /\ \A part \in Collected(from) : deviceInfo[part] = scans
        /\ \E n \in 0 .. scans : FromOneScan(n)
    BY <2>1, <2>3, <2>4, LoneNow
  <2>6. \E n \in 0 .. scans' : FromOneScan(n)'
    BY <2>1, <2>5 DEF FromOneScan
  <2>7. deviceInfo \in [Parts -> 0 .. MaxScans]
    BY DEF Inv, TypeOK
  <2>8. to \in Running => \A part \in Collected(to) : deviceInfo'[part] = scans'
    BY <2>1, <2>2, <2>5, <2>7 DEF Collected, Write, Parts, Running, InProc, Entry
  <2>9. to = "idle" => \A part \in Parts : deviceInfo'[part] = scans'
    BY <2>1, <2>2, <2>5, <2>7 DEF Collected, Write, Parts
  <2>10. to # "clearFds"
    BY <2>2
  <2>11. scan'[t] = scans'
    BY <2>1, <2>5
  <2> QED
    BY <2>3, <2>4, <2>5, <2>6, <2>8, <2>9, <2>10, <2>11, LoneStep
<1> QED
  BY <1>1, <1>2

(* The steps in /proc that keep the lists.                                 *)
LEMMA LoneScanKeeps ==
  ASSUME Inv, LoneInv, ~killed, ~overlapped', NEW t \in Threads,
         \/ NextEntry(t) \/ LastEntry(t) \/ ReadFiles(t) \/ NoFds(t)
         \/ OpenFds(t) \/ ReadNoLogs(t)
  PROVE  LoneInv'
<1>1. UNCHANGED <<deviceInfo, processInfo, fdInfo, scan, scans, overlapped>>
  <2>1. CASE ReadFiles(t)
    BY <2>1, ReadFilesStep DEF members
  <2>2. CASE ~ReadFiles(t)
    BY <2>2 DEF NextEntry, LastEntry, NoFds, OpenFds, ReadNoLogs, members, call
  <2> QED
    BY <2>1, <2>2
<1>2. PICK from \in Entry \cup {"next"}, to \in Labels \ {"clearFds", "idle", "proc",
                                                       "model", "network", "os"} :
        Step(t, from, to)
  <2> USE DEF Labels, Running, InProc, Entry, Lost
  <2>1. CASE ReadFiles(t)
    BY <2>1, ReadFilesStep
  <2>2. CASE ~ReadFiles(t)
    BY <2>2 DEF NextEntry, LastEntry, NoFds, OpenFds, ReadNoLogs
  <2> QED
    BY <2>1, <2>2
<1>3. pc[t] = from /\ pc' = [pc EXCEPT ![t] = to]
  BY <1>2 DEF Step
<1>4. /\ from \in Running /\ from \in InProc \ {"clearFds"} /\ to \in Labels
      /\ to # "clearFds" /\ to # "idle"
  BY <1>2 DEF Labels, Running, InProc, Entry, Lost
<1>5. /\ \A u \in Threads \ {t} : pc[u] \notin Running
      /\ scan[t] = scans /\ scans \in Scans
      /\ \A part \in Collected(from) : deviceInfo[part] = scans
      /\ ListedSoFar(t)
  BY <1>1, <1>3, <1>4, LoneNow
<1>6. FromOneScan(scan[t])'
  BY <1>1, <1>5 DEF ListedSoFar, FromOneScan
<1>7. \E n \in 0 .. scans' : FromOneScan(n)'
  <2>1. scans' \in 0 .. scans' /\ scan'[t] = scans'
    BY <1>1, <1>5 DEF Scans
  <2> QED
    BY <1>6, <2>1
<1>8. \A part \in Collected(to) : deviceInfo'[part] = scans'
  BY <1>1, <1>2, <1>5 DEF Collected, Entry
<1>9. to \in InProc \ {"clearFds"} => ListedSoFar(t)'
  <2>1. /\ \A i \in 1 .. Len(processInfo) : processInfo[i].pid \in Nat
        /\ pid[t] \in Nat
    BY PidsAreNat
  <2>2. pc'[t] = to /\ pc[t] = from
    BY <1>3 DEF Inv, TypeOK
  <2>3. CASE NextEntry(t)
    <3>1. PICK p \in entries[t] \cup alive : p > pid[t] /\ pid' = [pid EXCEPT ![t] = p]
      BY <2>3 DEF NextEntry
    <3>2. pid'[t] = p /\ p \in Nat
      BY <3>1, PidsAssumption DEF Inv, TypeOK
    <3>3. \A i \in 1 .. Len(processInfo) : processInfo[i].pid <= pid[t]
      BY <1>5, <2>1, <2>2 DEF ListedSoFar
    <3>4. \A i \in 1 .. Len(processInfo) : processInfo[i].pid < pid'[t]
      BY <2>1, <3>1, <3>2, <3>3
    <3>5. \A i \in 1 .. Len(processInfo') : processInfo'[i].pid < pid'[t]
      BY <1>1, <3>4
    <3>6. \A i \in 1 .. Len(processInfo') : processInfo'[i].pid <= pid'[t]
      BY <1>1, <2>1, <3>2, <3>5
    <3> QED
      BY <1>6, <3>5, <3>6 DEF ListedSoFar
  <2>4. CASE LastEntry(t)
    <3>1. pc' = [pc EXCEPT ![t] = "services"]
      BY <2>4 DEF LastEntry, Step
    <3>2. to = "services"
      BY <2>2, <3>1 DEF Inv, TypeOK
    <3> QED
      BY <3>2 DEF InProc, Entry
  <2>5. CASE ReadFiles(t) \/ NoFds(t) \/ OpenFds(t) \/ ReadNoLogs(t)
    <3>1. pid' = pid /\ pc[t] # "next"
      <4>1. CASE ReadFiles(t)
        BY <4>1, ReadFilesStep DEF Step
      <4>2. CASE NoFds(t) \/ OpenFds(t) \/ ReadNoLogs(t)
        BY <4>2 DEF NoFds, OpenFds, ReadNoLogs, Step, call
      <4> QED
        BY <2>5, <4>1, <4>2
    <3>2. \A i \in 1 .. Len(processInfo) : processInfo[i].pid < pid[t]
      BY <1>5, <3>1 DEF ListedSoFar
    <3>3. \A i \in 1 .. Len(processInfo') :
            processInfo'[i].pid < pid'[t] /\ processInfo'[i].pid <= pid'[t]
      BY <1>1, <2>1, <3>1, <3>2
    <3> QED
      BY <1>6, <3>3 DEF ListedSoFar
  <2> QED
    BY <2>3, <2>4, <2>5
<1>10. scan'[t] = scans'
  BY <1>1, <1>5
<1> QED
  BY <1>3, <1>4, <1>5, <1>7, <1>8, <1>9, <1>10, LoneStep
(* The steps that change the lists.                                        *)
LEMMA LoneLists ==
  ASSUME Inv, LoneInv, ~killed, ~overlapped', NEW t \in Threads,
         OpenProc(t) \/ ClearFds(t) \/ ReadLogs(t) \/ PushProcess(t)
  PROVE  LoneInv'
<1>1. UNCHANGED <<deviceInfo, scan, pid, scans, overlapped>>
  BY DEF OpenProc, ClearFds, ReadLogs, PushProcess, call
<1>2. PICK from \in {"proc", "clearFds", "readFds", "push"},
           to \in {"clearFds", "next", "push"} :
        Step(t, from, to)
  BY DEF OpenProc, ClearFds, ReadLogs, PushProcess
<1>3. pc[t] = from /\ pc' = [pc EXCEPT ![t] = to]
  BY <1>2 DEF Step
<1>4. from \in Running /\ to \in Labels /\ to \in Running /\ to # "idle"
  BY <1>2 DEF Labels, Running, InProc, Entry, Lost
<1>5. /\ \A u \in Threads \ {t} : pc[u] \notin Running
      /\ scan[t] = scans /\ scans \in Scans
      /\ \A part \in Collected(from) : deviceInfo[part] = scans
      /\ from = "clearFds" => processInfo = <<>>
      /\ from \in InProc \ {"clearFds"} => ListedSoFar(t)
  BY <1>1, <1>3, <1>4, LoneNow
<1>6. scan'[t] = scans' /\ \A part \in Collected(to) : deviceInfo'[part] = scans'
  BY <1>1, <1>2, <1>5 DEF Collected
<1>7. pc'[t] = to
  BY <1>3 DEF Inv, TypeOK
<1>8. /\ to = "clearFds" => processInfo' = <<>>
      /\ to \in InProc \ {"clearFds"} => ListedSoFar(t)'
  <2>1. CASE OpenProc(t)
    <3>1. processInfo' = <<>> /\ pc' = [pc EXCEPT ![t] = "clearFds"]
      BY <2>1 DEF OpenProc, Step
    <3>2. to = "clearFds"
      BY <1>7, <3>1 DEF Inv, TypeOK
    <3> QED
      BY <3>1, <3>2
  <2>2. CASE ClearFds(t)
    <3>1. /\ pc' = [pc EXCEPT ![t] = "next"] /\ pc[t] = "clearFds"
          /\ processInfo' = processInfo /\ fdInfo' = [p \in Pids |-> Never]
      BY <2>2 DEF ClearFds, Step
    <3>2. to = "next" /\ processInfo' = <<>>
      BY <1>3, <1>5, <1>7, <3>1 DEF Inv, TypeOK
    <3>3. FromOneScan(scan[t])' /\ Len(processInfo') = 0
      BY <3>1, <3>2 DEF FromOneScan
    <3> QED
      BY <3>2, <3>3 DEF ListedSoFar
  <2>3. CASE ReadLogs(t)
    <3>1. /\ pc' = [pc EXCEPT ![t] = "push"] /\ pc[t] = "readFds"
          /\ processInfo' = processInfo
          /\ fdInfo' = [fdInfo EXCEPT ![pid[t]] = IF @ = Never THEN scan[t] ELSE @]
      BY <2>3 DEF ReadLogs, Step
    <3>2. ListedSoFar(t) /\ to = "push"
      BY <1>3, <1>5, <1>7, <3>1 DEF Inv, TypeOK, InProc, Entry
    <3>3. \A p \in Pids : fdInfo'[p] \in {Never, scan'[t]}
      BY <1>1, <3>1, <3>2 DEF ListedSoFar, FromOneScan, Inv, TypeOK
    <3>4. FromOneScan(scan[t])'
      BY <1>1, <3>1, <3>2, <3>3 DEF ListedSoFar, FromOneScan
    <3>5. \A i \in 1 .. Len(processInfo') : processInfo'[i].pid < pid'[t]
      BY <1>1, <3>1, <3>2 DEF ListedSoFar
    <3> QED
      BY <1>7, <3>2, <3>4, <3>5 DEF ListedSoFar
  <2>4. CASE PushProcess(t)
    <3>1. /\ pc' = [pc EXCEPT ![t] = "next"] /\ pc[t] = "push"
          /\ processInfo' = Append(processInfo, [pid |-> pid[t], scan |-> scan[t]])
          /\ fdInfo' = fdInfo
      BY <2>4 DEF PushProcess, Step
    <3>2. ListedSoFar(t) /\ to = "next"
      BY <1>3, <1>5, <1>7, <3>1 DEF Inv, TypeOK, InProc, Entry
    <3>3. /\ processInfo \in Seq(Entries) /\ pid[t] \in Nat
          /\ \A i \in 1 .. Len(processInfo) : processInfo[i].pid \in Nat
      BY PidsAreNat
    <3>4. /\ Len(processInfo') = Len(processInfo) + 1 /\ Len(processInfo) \in Nat
          /\ \A i \in 1 .. Len(processInfo) : processInfo'[i] = processInfo[i]
          /\ processInfo'[Len(processInfo) + 1] = [pid |-> pid[t], scan |-> scan[t]]
      BY <3>1, <3>3
    <3>5. \A i \in 1 .. Len(processInfo) : processInfo[i].pid < pid[t]
      BY <3>1, <3>2 DEF ListedSoFar
    <3>6. \A i \in 1 .. Len(processInfo') :
            i \in 1 .. Len(processInfo) \/ i = Len(processInfo) + 1
      BY <3>4
    <3>7. \A i \in 1 .. Len(processInfo') : processInfo'[i].scan = scan[t]
      BY <3>2, <3>4, <3>6 DEF ListedSoFar, FromOneScan
    <3>8. \A i, j \in 1 .. Len(processInfo') :
            i < j => processInfo'[i].pid < processInfo'[j].pid
      <4> SUFFICES ASSUME NEW i \in 1 .. Len(processInfo'),
                          NEW j \in 1 .. Len(processInfo'), i < j
                   PROVE  processInfo'[i].pid < processInfo'[j].pid
        OBVIOUS
      <4>1. i \in 1 .. Len(processInfo)
        BY <3>4
      <4>2. CASE j \in 1 .. Len(processInfo)
        BY <3>2, <3>4, <4>1, <4>2 DEF ListedSoFar, FromOneScan
      <4>3. CASE j = Len(processInfo) + 1
        BY <3>4, <3>5, <4>1, <4>3
      <4> QED
        BY <3>6, <4>2, <4>3
    <3>9. \A i \in 1 .. Len(processInfo') : processInfo'[i].pid <= pid[t]
      BY <3>3, <3>4, <3>5, <3>6
    <3>10. FromOneScan(scan[t])'
      BY <1>1, <3>1, <3>2, <3>7, <3>8 DEF ListedSoFar, FromOneScan
    <3> QED
      BY <1>1, <1>7, <3>2, <3>9, <3>10 DEF ListedSoFar
  <2> QED
    BY <2>1, <2>2, <2>3, <2>4
<1>9. to # "clearFds" => \E n \in 0 .. scans' : FromOneScan(n)'
  <2>1. to # "clearFds" => FromOneScan(scan[t])'
    BY <1>2, <1>8 DEF ListedSoFar, InProc, Entry
  <2>2. scan'[t] \in 0 .. scans'
    BY <1>1, <1>5 DEF Scans
  <2> QED
    BY <2>1, <2>2
<1> QED
  BY <1>3, <1>4, <1>5, <1>6, <1>8, <1>9, LoneStep

(* Every step keeps the invariant of scans that run alone.                 *)
LEMMA LoneNext == Inv /\ LoneInv /\ [Next]_vars => LoneInv'
<1> SUFFICES ASSUME Inv, LoneInv, [Next]_vars, ~killed', ~overlapped'
             PROVE  LoneInv'
  BY DEF LoneInv
<1>1. CASE \E t \in Threads : collectAllData(t) \/ Scan(t)
  <2>1. PICK t \in Threads : collectAllData(t) \/ Scan(t)
    BY <1>1
  <2>2. ~killed
    BY <2>1 DEF collectAllData, Scan, collectProcessInfo, collectModelName,
      collectNetworkInfo, collectOsInfo, collectServiceInfo, Throws, OpenProc,
      NoProc, ClearFds, NextEntry, LastEntry, ReadStatus, ReadCmdline, ReadSched,
      OpenFile, CloseFile, NotOpened, NotRead, NoFds, OpenFds, ReadNoLogs,
      ReadLogs, PushProcess, Step
  <2> QED
    BY <2>1, <2>2, LoneCollect, LoneScanKeeps, LoneLists
       DEF Scan, collectProcessInfo, ReadFiles
<1>2. CASE (\E t \in Threads : NetworkExit(t)) \/ DataRace
  BY <1>2 DEF NetworkExit, DataRace, Die
<1>3. CASE ProcessChange \/ UNCHANGED vars
  <2>1. UNCHANGED <<members, pc, scan, pid, killed, scans, overlapped>>
    BY <1>3 DEF ProcessChange, vars, system, call
  <2> QED
    BY <2>1 DEF LoneInv, ListedSoFar, FromOneScan, members
<1> QED
  BY <1>1, <1>2, <1>3 DEF Next

(* As long as no two scans overlap, what the last one left is its own, and *)
(* the lists are of one scan (CDevice.cpp:136, 195, 232-263).              *)
THEOREM LoneScansAreClean == Spec => []UpToDate
<1>1. LoneInv => UpToDate
  <2> SUFFICES ASSUME LoneInv, ~killed, ~overlapped, scans > 0,
                      \A t \in Threads : pc[t] = "idle"
               PROVE  /\ \A part \in Parts : deviceInfo[part] = scans
                      /\ \E n \in 0 .. scans : FromOneScan(n)
    BY DEF UpToDate
  <2> QED
    BY DEF LoneInv
<1> QED
  BY <1>1, InvInit, InvNext, LoneInit, LoneNext, PTL DEF Spec
-----------------------------------------------------------------------------
(* A scan is at an endless loop only if it was disturbed ... *)
LostForReason ==
  \A t \in Threads : pc[t] \in {"spin", "spinOpen"} => disturbed[t]

(* ... for until then all it has read of /proc is there. *)
Undisturbed(t) ==
  /\ entries[t] \subseteq alive
  /\ pc[t] \in Entry => pid[t] \in alive
  /\ pc[t] \in FileOpen => ~gone[t]

Reason(t) ==
  /\ pc[t] \in {"spin", "spinOpen"} => disturbed[t]
  /\ pc[t] \notin ProcOpen => entries[t] = {}
  /\ pc[t] \in InProc /\ ~disturbed[t] => Undisturbed(t)

ReasonInv == \A t \in Threads : Reason(t)

(* A step of a call concerns no other. *)
LEMMA ReasonStep ==
  ASSUME Inv, ReasonInv, NEW t \in Threads, NEW to,
         pc' = [pc EXCEPT ![t] = to], alive' = alive,
         \A u \in Threads \ {t} :
           /\ pid'[u] = pid[u] /\ entries'[u] = entries[u]
           /\ gone'[u] = gone[u] /\ disturbed'[u] = disturbed[u],
         to \in {"spin", "spinOpen"} => disturbed'[t],
         to \notin ProcOpen => entries'[t] = {},
         to \in InProc /\ ~disturbed'[t] =>
           /\ entries'[t] \subseteq alive
           /\ to \in Entry => pid'[t] \in alive
           /\ to \in FileOpen => ~gone'[t]
  PROVE  ReasonInv'
<1>1. pc \in [Threads -> Labels]
  BY DEF Inv, TypeOK
<1>2. ASSUME NEW u \in Threads \ {t} PROVE Reason(u)'
  <2>1. pc'[u] = pc[u] /\ Reason(u)
    BY <1>1 DEF ReasonInv
  <2> QED
    BY <2>1 DEF Reason, Undisturbed
<1>3. Reason(t)'
  <2>1. pc'[t] = to
    BY <1>1
  <2> QED
    BY <2>1 DEF Reason, Undisturbed
<1> QED
  BY <1>2, <1>3 DEF ReasonInv

(* The steps that change nothing of what a call has read. *)
LEMMA ReasonPlain ==
  ASSUME Inv, ReasonInv, NEW t \in Threads, NEW from, NEW to, Step(t, from, to),
         UNCHANGED <<pid, entries, gone, disturbed, alive>>,
         to \notin {"spin", "spinOpen"}, to \notin FileOpen,
         to \in ProcOpen => to \in InProc,
         to \in Entry => from \in Entry,
         to \notin ProcOpen => from \notin ProcOpen
  PROVE  ReasonInv'
<1>1. pc' = [pc EXCEPT ![t] = to] /\ pc[t] = from
  BY DEF Step
<1>2. Reason(t)
  BY DEF ReasonInv
<1>3. to \notin ProcOpen => entries[t] = {}
  BY <1>1, <1>2 DEF Reason
<1>4. to \in InProc /\ ~disturbed[t] =>
        entries[t] \subseteq alive /\ (to \in Entry => pid[t] \in alive)
  <2>1. CASE from \in InProc
    BY <1>1, <1>2, <2>1 DEF Reason, Undisturbed
  <2>2. CASE from \notin InProc /\ from \notin {"spin", "spinOpen"}
    <3>1. from \notin ProcOpen /\ from \notin Entry
      BY <2>2 DEF ProcOpen, InProc
    <3> QED
      BY <1>1, <1>2, <3>1 DEF Reason
  <2>3. CASE from \in {"spin", "spinOpen"}
    BY <1>1, <1>2, <2>3 DEF Reason
  <2> QED
    BY <2>1, <2>2, <2>3
<1> QED
  BY <1>1, <1>3, <1>4, ReasonStep

LEMMA ReasonNext == Inv /\ ReasonInv /\ [Next]_vars => ReasonInv'
<1> SUFFICES ASSUME Inv, ReasonInv, [Next]_vars PROVE ReasonInv'
  OBVIOUS
<1>1. ASSUME NEW t \in Threads,
             \/ collectAllData(t) \/ collectModelName(t) \/ collectNetworkInfo(t)
             \/ collectOsInfo(t) \/ collectServiceInfo(t) \/ OpenProc(t)
             \/ NoProc(t) \/ ClearFds(t) \/ NoFds(t) \/ OpenFds(t)
             \/ ReadNoLogs(t) \/ ReadLogs(t) \/ PushProcess(t)
      PROVE  ReasonInv'
  <2>1. UNCHANGED <<pid, entries, gone, disturbed, alive>>
    BY <1>1 DEF collectAllData, collectModelName, collectNetworkInfo,
                collectOsInfo, collectServiceInfo, OpenProc, NoProc, ClearFds,
                NoFds, OpenFds, ReadNoLogs, ReadLogs, PushProcess, call, device
  <2>2. PICK from \in {"idle", "model", "network", "os", "proc", "services",
                       "clearFds", "fds", "readFds", "push"},
             to \in {"model", "network", "os", "proc", "services", "idle", "thrown",
                     "clearFds", "next", "readFds", "push"} :
          /\ Step(t, from, to)
          /\ to \in {"readFds", "push"} => from \in {"fds", "readFds"}
          /\ to \in {"model", "network", "os", "proc", "services", "idle", "thrown"} =>
               from \in {"idle", "model", "network", "os", "proc", "services"}
    BY <1>1 DEF collectAllData, collectModelName, collectNetworkInfo,
                collectOsInfo, collectServiceInfo, Throws, OpenProc, NoProc,
                ClearFds, NoFds, OpenFds, ReadNoLogs, ReadLogs, PushProcess
  <2>3. /\ to \notin {"spin", "spinOpen"} /\ to \notin FileOpen
        /\ to \in ProcOpen => to \in InProc
        /\ to \in Entry => from \in Entry
        /\ to \notin ProcOpen => from \notin ProcOpen
    BY <2>2 DEF ProcOpen, FileOpen, InProc, Entry
  <2> QED
    BY <2>1, <2>2, <2>3, ReasonPlain
<1>2. ASSUME NEW t \in Threads, NextEntry(t) PROVE ReasonInv'
  <2>1. PICK read \in {entries[t], alive} : \E p \in read :
          /\ pid' = [pid EXCEPT ![t] = p] /\ entries' = [entries EXCEPT ![t] = read]
          /\ pc[t] = "next" /\ pc' = [pc EXCEPT ![t] = "status"]
          /\ UNCHANGED <<gone, disturbed, alive>>
    BY <1>2 DEF NextEntry, Step, device
  <2>2. Reason(t) /\ pc[t] \in InProc
    BY <2>1 DEF ReasonInv, InProc
  <2>3. ~disturbed[t] => entries'[t] \subseteq alive /\ pid'[t] \in alive
    BY <2>1, <2>2 DEF Reason, Undisturbed, Inv, TypeOK
  <2>4. /\ "status" \in ProcOpen /\ "status" \notin FileOpen
        /\ "status" \notin {"spin", "spinOpen"}
    BY DEF ProcOpen, FileOpen, InProc, Entry
  <2>5. \A u \in Threads \ {t} :
          /\ pid'[u] = pid[u] /\ entries'[u] = entries[u]
          /\ gone'[u] = gone[u] /\ disturbed'[u] = disturbed[u]
    BY <2>1 DEF Inv, TypeOK
  <2>6. "status" \in InProc /\ ~disturbed'[t] =>
          /\ entries'[t] \subseteq alive
          /\ "status" \in Entry => pid'[t] \in alive
          /\ "status" \in FileOpen => ~gone'[t]
    BY <2>1, <2>3, <2>4
  <2>7. pc' = [pc EXCEPT ![t] = "status"] /\ alive' = alive
    BY <2>1
  <2> QED
    BY <2>4, <2>5, <2>6, <2>7, ReasonStep
<1>3. ASSUME NEW t \in Threads, LastEntry(t) PROVE ReasonInv'
  <2>1. /\ pid' = [pid EXCEPT ![t] = 0] /\ entries' = [entries EXCEPT ![t] = {}]
        /\ disturbed' = [disturbed EXCEPT ![t] = FALSE]
        /\ pc' = [pc EXCEPT ![t] = "services"] /\ UNCHANGED <<gone, alive>>
    BY <1>3 DEF LastEntry, Leave, Step, device
  <2>2. entries'[t] = {} /\ "services" \notin InProc
    BY <2>1 DEF Inv, TypeOK, InProc, Entry
  <2>3. \A u \in Threads \ {t} : /\ pid'[u] = pid[u] /\ entries'[u] = entries[u]
                                 /\ disturbed'[u] = disturbed[u]
    BY <2>1 DEF Inv, TypeOK
  <2> QED
    BY <2>1, <2>2, <2>3, ReasonStep
<1>4. ASSUME NEW t \in Threads, NEW from \in {"status", "cmdline", "sched"},
             NEW to \in {"readStatus", "readCmdline", "readSched"},
             OpenFile(t, from, to)
      PROVE  ReasonInv'
  <2>1. /\ gone' = [gone EXCEPT ![t] = FALSE] /\ pid[t] \in alive
        /\ pc[t] = from /\ pc' = [pc EXCEPT ![t] = to]
        /\ UNCHANGED <<pid, entries, disturbed, alive>>
    BY <1>4 DEF OpenFile, Step, device
  <2>2. Reason(t) /\ from \in InProc /\ to \in ProcOpen /\ to \notin {"spin", "spinOpen"}
    BY DEF ReasonInv, ProcOpen, InProc, Entry
  <2>3. ~gone'[t] /\ \A u \in Threads \ {t} : gone'[u] = gone[u]
    BY <2>1 DEF Inv, TypeOK
  <2> QED
    BY <2>1, <2>2, <2>3, ReasonStep DEF Reason, Undisturbed
<1>5. ASSUME NEW t \in Threads, NEW from \in {"readStatus", "readCmdline", "readSched"},
             NEW to \in {"cmdline", "sched", "fds"},
             CloseFile(t, from, to)
      PROVE  ReasonInv'
  <2>1. /\ gone' = [gone EXCEPT ![t] = FALSE]
        /\ pc[t] = from /\ pc' = [pc EXCEPT ![t] = to]
        /\ UNCHANGED <<pid, entries, disturbed, alive>>
    BY <1>5 DEF CloseFile, Step, device
  <2>2. /\ Reason(t) /\ from \in InProc /\ from \in Entry
        /\ to \in ProcOpen /\ to \notin {"spin", "spinOpen"} /\ to \notin FileOpen
    BY DEF ReasonInv, ProcOpen, FileOpen, InProc, Entry
  <2>3. \A u \in Threads \ {t} : gone'[u] = gone[u]
    BY <2>1 DEF Inv, TypeOK
  <2> QED
    BY <2>1, <2>2, <2>3, ReasonStep DEF Reason, Undisturbed
<1>6. ASSUME NEW t \in Threads, NEW from \in {"status", "sched"}, NotOpened(t, from)
      PROVE  ReasonInv'
  <2>1. /\ disturbed' = [disturbed EXCEPT ![t] = @ \/ pid[t] \in alive]
        /\ pc[t] = from /\ pc' = [pc EXCEPT ![t] = "spin"]
        /\ UNCHANGED <<pid, entries, gone, alive>>
    BY <1>6 DEF NotOpened, Step, device
  <2>2. /\ Reason(t) /\ from \in InProc /\ from \in Entry
        /\ "spin" \in ProcOpen /\ "spin" \notin InProc
    BY DEF ReasonInv, ProcOpen, InProc, Entry
  <2>3. disturbed[t] \/ pid[t] \in alive
    BY <2>1, <2>2 DEF Reason, Undisturbed
  <2>4. disturbed'[t] /\ \A u \in Threads \ {t} : disturbed'[u] = disturbed[u]
    BY <2>1, <2>3 DEF Inv, TypeOK
  <2> QED
    BY <2>1, <2>2, <2>4, ReasonStep
<1>7. ASSUME NEW t \in Threads, NEW from \in {"readStatus", "readSched"}, NotRead(t, from)
      PROVE  ReasonInv'
  <2>1. /\ gone[t] /\ pc[t] = from /\ pc' = [pc EXCEPT ![t] = "spinOpen"]
        /\ UNCHANGED <<pid, entries, gone, disturbed, alive>>
    BY <1>7 DEF NotRead, Step, call, device
  <2>2. /\ Reason(t) /\ from \in InProc /\ from \in FileOpen
        /\ "spinOpen" \in ProcOpen /\ "spinOpen" \notin InProc
    BY DEF ReasonInv, ProcOpen, FileOpen, InProc, Entry
  <2>3. disturbed[t]
    BY <2>1, <2>2 DEF Reason, Undisturbed
  <2> QED
    BY <2>1, <2>2, <2>3, ReasonStep
<1>8. ASSUME NEW t \in Threads, ReadFiles(t) PROVE ReasonInv'
  <2>1. CASE ReadStatus(t)
    BY <1>4, <1>5, <1>6, <1>7, <2>1 DEF ReadStatus
  <2>2. CASE ReadCmdline(t)
    <3>1. CASE Step(t, "cmdline", "sched")
                /\ UNCHANGED <<members, call, system, device, scans, overlapped>>
      <4>1. UNCHANGED <<pid, entries, gone, disturbed, alive>>
        BY <3>1 DEF call, device
      <4>2. /\ "sched" \notin {"spin", "spinOpen"} /\ "sched" \notin FileOpen
            /\ "sched" \in InProc /\ "sched" \in ProcOpen
            /\ "cmdline" \in Entry
        BY DEF ProcOpen, FileOpen, InProc, Entry
      <4> QED
        BY <3>1, <4>1, <4>2, ReasonPlain
    <3> QED
      BY <1>4, <1>5, <2>2, <3>1 DEF ReadCmdline
  <2>3. CASE ReadSched(t)
    BY <1>4, <1>5, <1>6, <1>7, <2>3 DEF ReadSched
  <2> QED
    BY <1>8, <2>1, <2>2, <2>3 DEF ReadFiles
<1>9. CASE (\E t \in Threads : NetworkExit(t)) \/ DataRace
  <2>1. \A t \in Threads : pc'[t] = "idle" /\ entries'[t] = {}
    BY <1>9 DEF NetworkExit, DataRace, Die
  <2> QED
    BY <2>1 DEF ReasonInv, Reason, InProc, Entry
<1>10. CASE ProcessChange
  <2>1. UNCHANGED <<pc, pid, entries>>
    BY <1>10 DEF ProcessChange
  <2>2. PICK p \in Pids :
          IF p \in alive
          THEN /\ alive' = alive \ {p}
               /\ gone' = [t \in Threads |->
                            gone[t] \/ (pc[t] \in FileOpen /\ pid[t] = p)]
               /\ disturbed' = [t \in Threads |-> disturbed[t] \/ pc[t] \in InProc]
          ELSE alive' = alive \cup {p} /\ UNCHANGED <<gone, disturbed>>
    BY <1>10 DEF ProcessChange
  <2>3. CASE p \in alive
    <3>1. \A t \in Threads : /\ pc[t] \in InProc => disturbed'[t]
                             /\ disturbed[t] => disturbed'[t]
      BY <2>2, <2>3
    <3> QED
      BY <2>1, <3>1 DEF ReasonInv, Reason
  <2>4. CASE p \notin alive
    BY <2>1, <2>2, <2>4 DEF ReasonInv, Reason, Undisturbed
  <2> QED
    BY <2>3, <2>4
<1>11. CASE UNCHANGED vars
  <2>1. UNCHANGED <<pc, pid, entries, gone, disturbed, alive>>
    BY <1>11 DEF vars, call, device
  <2> QED
    BY <2>1 DEF ReasonInv, Reason, Undisturbed
<1> QED
  BY <1>1, <1>2, <1>3, <1>8, <1>9, <1>10, <1>11
     DEF Next, Scan, collectProcessInfo, ReadFiles

(* The loops over status and sched are endless for a scan only if a        *)
(* process ended while it was in /proc, or an open was refused to it: what *)
(* ScanEnds says, but for that a thread goes on (CDevice.cpp:277-306).     *)
THEOREM ScansLostForReason == Spec => []LostForReason
<1>1. Init => ReasonInv
  <2> SUFFICES ASSUME Init PROVE ReasonInv
    OBVIOUS
  <2>1. \A t \in Threads : pc[t] = "idle" /\ entries[t] = {}
    BY DEF Init
  <2> QED
    BY <2>1 DEF ReasonInv, Reason, InProc, Entry
<1>2. ReasonInv => LostForReason
  BY DEF ReasonInv, Reason, LostForReason
<1> QED
  BY <1>1, <1>2, InvInit, InvNext, ReasonNext, PTL DEF Spec
=============================================================================
