------------------------------- MODULE Device -------------------------------
(***************************************************************************)
(* CDevice: what the agent knows of its device.  collectAllData runs in    *)
(* the thread that CCollector::init starts and, every third time, in the   *)
(* thread of SetInterval; handlers and timer copy the members meanwhile.   *)
(* No member is protected by a lock.                                       *)
(*                                                                         *)
(* A part of deviceInfo, and an entry of a list, is the number of the scan *)
(* that wrote it.  The kernel is /proc: processes end and start while they *)
(* are read, and descriptors run out.  Of the descriptors those of /proc   *)
(* are counted, which stay open over several steps or for good; a pipe of  *)
(* popen, the socket of getifaddrs and the file of the host name are given *)
(* back by the function that asks for them.                                *)
(***************************************************************************)
EXTENDS Integers, Sequences, FiniteSets

CONSTANTS
  Pids,          \* the processes there may be
  MaxFiles,      \* the descriptors CDevice may have open at a time, at most
  MaxScans,      \* bound: calls of collectAllData in a behaviour
  MaxChanges     \* bound: processes that start or end

ASSUME PidsAssumption == IsFiniteSet(Pids) /\ Pids \subseteq Nat \ {0}
ASSUME BoundsAssumption ==
  MaxFiles \in Nat \ {0} /\ MaxScans \in Nat /\ MaxChanges \in Nat

VARIABLES
  \* members of CDevice
  deviceInfo, processInfo, fdInfo,
  \* the calls of collectAllData: where each stands, the number of the scan,
  \* the entry of /proc in hand, and the entries that readdir has read ahead
  pc, scan, pid, entries,
  \* the kernel: whether the file a call has open is of a process that ended
  gone,
  \* the process: descriptors in use, and whether it has ended
  files, killed,
  \* the device
  alive, changes,
  \* histories
  scans, fdDirs, overlapped, disturbed

members == <<deviceInfo, processInfo, fdInfo>>
system  == <<files, killed, fdDirs>>
device  == <<alive, changes>>
call    == <<scan, pid, entries, gone, disturbed>>
vars == <<members, pc, call, system, device, scans, overlapped>>

Threads == {"init", "timer"}
Scans == 1 .. MaxScans
Never == 0             \* what the constructor leaves

Parts == {"name", "modelName", "networkInfo", "osInfo", "serviceList"}

Init ==
  /\ deviceInfo = [part \in Parts |-> Never]
  /\ processInfo = <<>>
  /\ fdInfo = [p \in Pids |-> Never]
  /\ pc = [t \in Threads |-> "idle"]
  /\ scan = [t \in Threads |-> Never]
  /\ pid = [t \in Threads |-> 0] /\ entries = [t \in Threads |-> {}]
  /\ gone = [t \in Threads |-> FALSE] /\ disturbed = [t \in Threads |-> FALSE]
  /\ files = 0 /\ killed = FALSE
  /\ alive \in SUBSET Pids /\ changes = 0
  /\ scans = 0 /\ fdDirs = 0 /\ overlapped = FALSE

(* The process ends: nothing of it is left. *)
Die ==
  /\ killed' = TRUE
  /\ deviceInfo' = [part \in Parts |-> Never]
  /\ processInfo' = <<>>
  /\ fdInfo' = [p \in Pids |-> Never]
  /\ pc' = [t \in Threads |-> "idle"]
  /\ scan' = [t \in Threads |-> Never]
  /\ pid' = [t \in Threads |-> 0] /\ entries' = [t \in Threads |-> {}]
  /\ gone' = [t \in Threads |-> FALSE] /\ disturbed' = [t \in Threads |-> FALSE]
  /\ files' = 0 /\ fdDirs' = 0
  /\ UNCHANGED <<device, scans, overlapped>>

(* The labels between the first step of collectAllData and its return: in  *)
(* the directory /proc, and before and after it.                           *)
Entry ==
  {"status", "readStatus", "cmdline", "readCmdline", "sched", "readSched",
   "fds", "readFds", "push"}
InProc == Entry \cup {"clearFds", "next"}
Running ==
  InProc \cup {"model", "network", "os", "proc", "services"}

(* A call that never returns: it looks for a line in a file that it could  *)
(* not open, or could not read, or has left with an exception.             *)
Lost == {"spin", "spinOpen", "thrown"}
Labels == Running \cup Lost \cup {"idle"}

(* The calls that have a file of the process in hand open, and that have   *)
(* the directory /proc open.                                               *)
FileOpen == {"readStatus", "readCmdline", "readSched", "spinOpen"}
ProcOpen == InProc \cup {"spin", "spinOpen"}

Step(t, from, to) ==
  /\ ~killed
  /\ pc[t] = from
  /\ pc' = [pc EXCEPT ![t] = to]

Write(t, part) == deviceInfo' = [deviceInfo EXCEPT ![part] = scan[t]]

collectNameInfo(n) == deviceInfo' = [deviceInfo EXCEPT !["name"] = n]

(* popen fails, and Exec throws: the exception leaves the thread.          *)
Throws(t, from) == Step(t, from, "thrown") /\ UNCHANGED deviceInfo

(***************************************************************************)
(* collectAllData: init calls it once, SetInterval every third time.       *)
(* Its first step sets the name, which cannot fail.                        *)
(***************************************************************************)
collectAllData(t) ==
  /\ Step(t, "idle", "model")
  /\ scans < MaxScans
  /\ t = "init" => scan[t] = Never
  /\ scans' = scans + 1
  /\ scan' = [scan EXCEPT ![t] = scans + 1]
  /\ collectNameInfo(scans + 1)
  /\ overlapped' = (overlapped \/ \E u \in Threads : pc[u] \in Running)
  /\ UNCHANGED <<processInfo, fdInfo, pid, entries, gone, disturbed, system, device>>

collectModelName(t) ==
  /\ \/ Step(t, "model", "network") /\ Write(t, "modelName")
     \/ Throws(t, "model")
  /\ UNCHANGED <<processInfo, fdInfo, call, system, device, scans, overlapped>>

(* Mutant: interfaces that are there are not collected again. *)
collectNetworkInfoOnce(t) ==
  /\ Step(t, "network", "os")
  /\ IF deviceInfo["networkInfo"] = Never THEN Write(t, "networkInfo")
                                          ELSE UNCHANGED deviceInfo
  /\ UNCHANGED <<processInfo, fdInfo, call, system, device, scans, overlapped>>

(* The interfaces are in a map of the thread until the member is cleared   *)
(* and filled.                                                             *)
collectNetworkInfo(t) ==
  /\ Step(t, "network", "os")
  /\ Write(t, "networkInfo")
  /\ UNCHANGED <<processInfo, fdInfo, call, system, device, scans, overlapped>>

(* getifaddrs or getnameinfo fails: exit(EXIT_FAILURE).                    *)
NetworkExit(t) == ~killed /\ pc[t] = "network" /\ Die

collectOsInfo(t) ==
  /\ \/ Step(t, "os", "proc") /\ Write(t, "osInfo")
     \/ Throws(t, "os")
  /\ UNCHANGED <<processInfo, fdInfo, call, system, device, scans, overlapped>>

(***************************************************************************)
(* collectProcessInfo.                                                     *)
(***************************************************************************)
OpenProc(t) ==
  /\ Step(t, "proc", "clearFds")
  /\ files < MaxFiles
  /\ files' = files + 1
  /\ processInfo' = <<>>
  /\ UNCHANGED <<deviceInfo, fdInfo, call, killed, fdDirs, device,
                 scans, overlapped>>

(* opendir fails, for want of memory or of a descriptor that another       *)
(* thread has at the moment: the lists of an earlier scan stay.            *)
NoProc(t) ==
  /\ Step(t, "proc", "services")
  /\ UNCHANGED <<members, call, system, device, scans, overlapped>>

ClearFds(t) ==
  /\ Step(t, "clearFds", "next")
  /\ fdInfo' = [p \in Pids |-> Never]
  /\ UNCHANGED <<deviceInfo, processInfo, call, system, device, scans, overlapped>>

(* readdir goes up through the processes there are, or were when it read a *)
(* stretch of the directory ahead: such a process may have ended since.    *)
NextEntry(t) ==
  /\ Step(t, "next", "status")
  /\ \E read \in {entries[t], alive} : \E p \in read :
       /\ p > pid[t]
       /\ \A q \in read : q > pid[t] => p <= q
       /\ pid' = [pid EXCEPT ![t] = p]
       /\ entries' = [entries EXCEPT ![t] = read]
  /\ UNCHANGED <<members, scan, gone, disturbed, system, device, scans, overlapped>>

Leave(t) ==
  /\ pid' = [pid EXCEPT ![t] = 0] /\ entries' = [entries EXCEPT ![t] = {}]
  /\ disturbed' = [disturbed EXCEPT ![t] = FALSE]

(* Mutant: closedir is missing. *)
LastEntryOpen(t) ==
  /\ Step(t, "next", "services")
  /\ \A q \in alive : q <= pid[t]
  /\ Leave(t)
  /\ UNCHANGED <<members, scan, gone, system, device, scans, overlapped>>

LastEntry(t) ==
  /\ Step(t, "next", "services")
  /\ \A q \in alive : q <= pid[t]
  /\ files' = files - 1
  /\ Leave(t)
  /\ UNCHANGED <<members, scan, gone, killed, fdDirs, device, scans, overlapped>>

(***************************************************************************)
(* The files of a process, one after the other.  An open succeeds while    *)
(* the process is there; it is refused when descriptors run out, for which *)
(* any thread of the agent may be the reason.  A read of a file that is    *)
(* open fails once the process has ended.                                  *)
(***************************************************************************)
OpenFile(t, from, to) ==
  /\ Step(t, from, to)
  /\ pid[t] \in alive /\ files < MaxFiles
  /\ files' = files + 1
  /\ gone' = [gone EXCEPT ![t] = FALSE]
  /\ UNCHANGED <<members, scan, pid, entries, disturbed, killed, fdDirs, device,
                 scans, overlapped>>

CloseFile(t, from, to) ==
  /\ Step(t, from, to)
  /\ files' = files - 1
  /\ gone' = [gone EXCEPT ![t] = FALSE]
  /\ UNCHANGED <<members, scan, pid, entries, disturbed, killed, fdDirs, device,
                 scans, overlapped>>

(* The loops that look for a line of status and sched never end if the     *)
(* file was not opened or is not read: getline leaves the buffer.  What is *)
(* open stays open.  (A kernel that was built without /proc/pid/sched      *)
(* never lets a scan end; it is taken to be there.)                        *)
NotOpened(t, from) ==
  /\ Step(t, from, "spin")
  /\ disturbed' = [disturbed EXCEPT ![t] = @ \/ pid[t] \in alive]
  /\ UNCHANGED <<members, scan, pid, entries, gone, system, device, scans, overlapped>>

NotRead(t, from) ==
  /\ Step(t, from, "spinOpen") /\ gone[t]
  /\ UNCHANGED <<members, call, system, device, scans, overlapped>>

ReadStatus(t) ==
  \/ OpenFile(t, "status", "readStatus") \/ NotOpened(t, "status")
  \/ ~gone[t] /\ CloseFile(t, "readStatus", "cmdline")
  \/ NotRead(t, "readStatus")

(* Mutant: cmdline is searched for a line, as the other files are; it has  *)
(* none for a process without arguments.                                   *)
ReadCmdlineLoop(t) ==
  \/ OpenFile(t, "cmdline", "readCmdline") \/ NotOpened(t, "cmdline")
  \/ CloseFile(t, "readCmdline", "sched")
  \/ /\ Step(t, "readCmdline", "spinOpen")
     /\ UNCHANGED <<members, call, system, device, scans, overlapped>>

(* One line of cmdline is read, or none: a failure is not noticed.         *)
ReadCmdline(t) ==
  \/ OpenFile(t, "cmdline", "readCmdline")
  \/ /\ Step(t, "cmdline", "sched")
     /\ UNCHANGED <<members, call, system, device, scans, overlapped>>
  \/ CloseFile(t, "readCmdline", "sched")

ReadSched(t) ==
  \/ OpenFile(t, "sched", "readSched") \/ NotOpened(t, "sched")
  \/ ~gone[t] /\ CloseFile(t, "readSched", "fds")
  \/ NotRead(t, "readSched")

(* collectFdInfo returns -1: the process is listed all the same.           *)
NoFds(t) ==
  /\ Step(t, "fds", "push")
  /\ UNCHANGED <<members, call, system, device, scans, overlapped>>

(* Mutant: opendir of fd is taken to succeed. *)
OpenFdsUnchecked(t) ==
  /\ Step(t, "fds", "readFds")
  /\ pid[t] \in alive
  /\ files' = files + 1 /\ fdDirs' = fdDirs + 1
  /\ UNCHANGED <<members, call, killed, device, scans, overlapped>>

(* collectFdInfo opens the directory, and never closes it.                 *)
OpenFds(t) ==
  /\ Step(t, "fds", "readFds")
  /\ pid[t] \in alive /\ files < MaxFiles
  /\ files' = files + 1 /\ fdDirs' = fdDirs + 1
  /\ UNCHANGED <<members, call, killed, device, scans, overlapped>>

(* Mutant: an empty list is put into the map, too. *)
ReadNoLogsKept(t) ==
  /\ Step(t, "readFds", "next")
  /\ fdInfo' = [fdInfo EXCEPT ![pid[t]] = IF @ = Never THEN scan[t] ELSE @]
  /\ UNCHANGED <<deviceInfo, processInfo, call, system, device, scans, overlapped>>

(* No log among the descriptors: collectFdInfo returns 0.                  *)
ReadNoLogs(t) ==
  /\ Step(t, "readFds", "next")
  /\ UNCHANGED <<members, call, system, device, scans, overlapped>>

(* What is a log is left open: a descriptor that closes before readlink is *)
(* judged by what is in the buffer.  insert leaves a key that is there.    *)
ReadLogs(t) ==
  /\ Step(t, "readFds", "push")
  /\ fdInfo' = [fdInfo EXCEPT ![pid[t]] = IF @ = Never THEN scan[t] ELSE @]
  /\ UNCHANGED <<deviceInfo, processInfo, call, system, device, scans, overlapped>>

PushProcess(t) ==
  /\ Step(t, "push", "next")
  /\ processInfo' = Append(processInfo, [pid |-> pid[t], scan |-> scan[t]])
  /\ UNCHANGED <<deviceInfo, fdInfo, call, system, device, scans, overlapped>>

collectProcessInfo(t) ==
  \/ OpenProc(t) \/ NoProc(t) \/ ClearFds(t) \/ NextEntry(t)
  \/ LastEntry(t) \/ ReadStatus(t) \/ ReadCmdline(t) \/ ReadSched(t)
  \/ NoFds(t) \/ OpenFds(t) \/ ReadNoLogs(t) \/ ReadLogs(t) \/ PushProcess(t)

(***************************************************************************)
(* collectServiceInfo, and the return of collectAllData.                   *)
(***************************************************************************)
collectServiceInfo(t) ==
  /\ \/ Step(t, "services", "idle") /\ Write(t, "serviceList")
     \/ Throws(t, "services")
  /\ UNCHANGED <<processInfo, fdInfo, call, system, device, scans, overlapped>>

(***************************************************************************)
(* A getter copies a member while a scan changes it, or two scans change   *)
(* it at once.  The copy leaves no trace here, and changes that overlap    *)
(* take effect in one order or the other; or the process dies of it.  (A   *)
(* call that begins changes the name.)                                     *)
(***************************************************************************)
Changing ==
  {"idle", "model", "network", "os", "proc", "clearFds", "readFds", "push", "services"}

DataRace ==
  /\ ~killed
  /\ \E t \in Threads : pc[t] \in Changing
  /\ Die

(* Processes start and end.  A file stays that of the process that ended,  *)
(* even if its number is given to another.                                 *)
ProcessChange ==
  /\ ~killed /\ changes < MaxChanges
  /\ changes' = changes + 1
  /\ \E p \in Pids :
       IF p \in alive
       THEN /\ alive' = alive \ {p}
            /\ gone' = [t \in Threads |->
                         gone[t] \/ (pc[t] \in FileOpen /\ pid[t] = p)]
            /\ disturbed' = [t \in Threads |-> disturbed[t] \/ pc[t] \in InProc]
       ELSE alive' = alive \cup {p} /\ UNCHANGED <<gone, disturbed>>
  /\ UNCHANGED <<members, pc, scan, pid, entries, system, scans, overlapped>>

-----------------------------------------------------------------------------
Scan(t) ==
  \/ collectModelName(t) \/ collectNetworkInfo(t) \/ collectOsInfo(t)
  \/ collectProcessInfo(t) \/ collectServiceInfo(t)

Next ==
  \/ \E t \in Threads : collectAllData(t) \/ Scan(t)
  \/ \E t \in Threads : NetworkExit(t)
  \/ DataRace \/ ProcessChange

Spec == Init /\ [][Next]_vars

(* A thread that has begun a scan goes on with it.  This is                *)
(* WF_vars(Scan(t)) written out: a call that is at a label of Running has  *)
(* a step, and only its own steps and the end of the process move it.      *)
Goes(t) == pc'[t] # pc[t]

FairSpec ==
  Spec /\ \A t \in Threads : []<>(pc[t] \notin Running) \/ []<><<Goes(t)>>_pc

-----------------------------------------------------------------------------
Entries == [pid : Pids, scan : Scans]

(* The type of every variable. *)
TypeOK ==
  /\ deviceInfo \in [Parts -> 0 .. MaxScans]
  /\ processInfo \in Seq(Entries)
  /\ fdInfo \in [Pids -> 0 .. MaxScans]
  /\ pc \in [Threads -> Labels]
  /\ scan \in [Threads -> 0 .. MaxScans]
  /\ pid \in [Threads -> Pids \cup {0}]
  /\ entries \in [Threads -> SUBSET Pids]
  /\ gone \in [Threads -> BOOLEAN] /\ disturbed \in [Threads -> BOOLEAN]
  /\ \A t \in Threads :
       /\ pc[t] # "idle" => scan[t] \in Scans
       /\ pc[t] \in Entry => pid[t] \in Pids
  /\ files \in 0 .. MaxFiles /\ killed \in BOOLEAN
  /\ alive \subseteq Pids /\ changes \in 0 .. MaxChanges
  /\ scans \in 0 .. MaxScans /\ fdDirs \in Nat /\ overlapped \in BOOLEAN

Listed(p) == \E i \in 1 .. Len(processInfo) : processInfo[i].pid = p

(* A list of descriptors is never there without its process, whichever     *)
(* scans overlap and wherever they are lost: the server gets both, in two  *)
(* messages.  Only between the two steps that fill or empty the lists can  *)
(* a reader see one without the other (CDevice.cpp:262-263, 316, 372).     *)
OwnersListed ==
  \A p \in Pids : fdInfo[p] # Never =>
    \/ Listed(p)
    \/ \E t \in Threads : pc[t] = "clearFds" \/ (pc[t] = "push" /\ pid[t] = p)

(* All entries of the lists come from one scan, and each process is listed *)
(* once and in order.                                                      *)
FromOneScan(n) ==
  /\ \A i \in 1 .. Len(processInfo) : processInfo[i].scan = n
  /\ \A i, j \in 1 .. Len(processInfo) :
       i < j => processInfo[i].pid < processInfo[j].pid
  /\ \A p \in Pids : fdInfo[p] \in {Never, n}

(* While no two scans overlap, what the last one that came to its end left *)
(* is all its own, but for the lists, which are those of one scan: no      *)
(* process is listed twice, and no list of descriptors belongs to a        *)
(* process of another time, however many processes come and go and         *)
(* whatever fails (CDevice.cpp:136, 195, 232-263).                         *)
UpToDate ==
  ~killed /\ ~overlapped /\ (\A t \in Threads : pc[t] = "idle") /\ scans > 0 =>
    /\ \A part \in Parts : deviceInfo[part] = scans
    /\ \E n \in 0 .. scans : FromOneScan(n)

(* What is open at any time: for good, one directory for every process     *)
(* whose descriptors were ever read; /proc for each scan that is in it; a  *)
(* file of the process in hand for each scan that reads one.  A scan that  *)
(* is lost for want of a line keeps its /proc, and its status or sched, if *)
(* that was opened; one that returns or throws keeps nothing but the       *)
(* directories (CDevice.cpp:255, 274-307, 320, 337-376).                   *)
FilesAccounted ==
  files = fdDirs + Cardinality({t \in Threads : pc[t] \in ProcOpen})
                 + Cardinality({t \in Threads : pc[t] \in FileOpen})

(* A scan ends, by its return or an exception, whatever the other scan     *)
(* does, whatever was lost before and whichever processes start, unless a  *)
(* process ends while this scan is in /proc, or the open of status or      *)
(* sched is refused to it though the process is there: nothing else makes  *)
(* its loops endless (CDevice.cpp:267-318).                                *)
ScanEnds ==
  \A t \in Threads :
    pc[t] \in Running ~> pc[t] \in {"idle", "thrown"} \/ killed \/ disturbed[t]
=============================================================================
