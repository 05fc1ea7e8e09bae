------------------------------ MODULE Executor ------------------------------
(***************************************************************************)
(* CExecutor, CPolicy and CInspection: the scripts that the server asks    *)
(* the agent to download and run.                                          *)
(*                                                                         *)
(* Execute is called by the handlers of CMatch, which run one after the    *)
(* other.  A step is one exchange with the file server, the shell or the   *)
(* file system, each of which may fail; Exec may also throw.  Between any  *)
(* two steps the process may be killed and started again, and the files    *)
(* of /tmp stay.                                                           *)
(***************************************************************************)
EXTENDS Integers

CONSTANTS
  PolicyScripts,      \* names that match P-U-[0-9]{2}(.sh)$
  InspectionScripts,  \* names that match U-[0-9]{2}(.sh)$
  MaxRequests,        \* bound: requests in a behaviour
  MaxSeconds,         \* bound: seconds in a behaviour
  MaxRestarts         \* bound: restarts of the process

ASSUME ExecutorAssumption ==
  /\ MaxRequests \in Nat /\ MaxSeconds \in Nat \ {0} /\ MaxRestarts \in Nat

Kinds == {"POLICY_REQUEST", "INSPECTION_REQUEST"}
Scripts == PolicyScripts \cup InspectionScripts
Matching(kind) ==
  IF kind = "POLICY_REQUEST" THEN PolicyScripts ELSE InspectionScripts

Calls == 1 .. MaxRequests

VARIABLES
  pc,          \* where Execute stands
  executors,   \* the objects, one per request (CMatch.cpp:155, 178)
  call,        \* the object whose Execute runs, or ran last
  began,       \* the second in which it began
  damaged,     \* what it has received is not what the server has
  remaining,   \* the matching entries that readdir has not returned yet
  \* the rest of the machine
  now,         \* seconds, as time(NULL) gives them
  dirs,        \* what is in the directories of /tmp/hurryup/policy
  open,        \* <<call, kind>> of the open descriptors
  restarts,
  ran          \* history: the runs of scripts

local == <<began, damaged, remaining>>
vars == <<pc, executors, call, local, now, dirs, open, restarts, ran>>

NoPath == 0      \* savePath = ""
Nothing == ""    \* stInspectionResult as constructed

Entries == [owner : Calls, script : Scripts]
Runs == [call : Calls, owner : Calls, script : Scripts, succeeded : BOOLEAN]

Objects ==
  [kind : Kinds \cup {"none"}, exists : BOOLEAN, scripts : SUBSET Scripts,
   savePath : 0 .. MaxSeconds, detail : Scripts \cup {Nothing},
   result : {"none", "running", "true", "false", "exception", "lost"}]

Object(k, exists, scripts, result) ==
  [kind |-> k, exists |-> exists, scripts |-> scripts,
   savePath |-> NoPath, detail |-> Nothing, result |-> result]
Unborn == Object("none", FALSE, {}, "none")

Init ==
  /\ pc = "idle" /\ executors = [c \in Calls |-> Unborn] /\ call = 0
  /\ began = 0 /\ damaged = FALSE /\ remaining = {}
  /\ now = 1 /\ dirs = [d \in {} |-> {}] /\ open = {} /\ restarts = 0
  /\ ran = {}

This == executors[call]
kind == This.kind
Socket == <<call, "socket">>
File == <<call, "file">>
Directory == <<call, "directory">>

(* Execute ends: the handler pushes its RESPONSE, or the exception ends    *)
(* the handler and is never looked at.                                     *)
End(result) ==
  /\ executors' = [executors EXCEPT ![call].result = result]
  /\ pc' = "idle"
Return(result) == End(IF result THEN "true" ELSE "false")
Throw == End("exception")

(* The process ends, by an action of this thread or of another one.        *)
Die ==
  /\ pc' = "dead"
  /\ open' = {}
  /\ executors' = [c \in Calls |-> IF executors[c].result = "running"
                      THEN [executors[c] EXCEPT !.result = "lost"]
                      ELSE executors[c]]

-----------------------------------------------------------------------------
(* Mutant: Execute does not sleep before it begins. *)
SleepNot ==
  /\ pc = "sleep"
  /\ pc' = "connect"
  /\ UNCHANGED <<executors, call, local, now, dirs, open, restarts, ran>>

(* The server has an archive with any scripts, or no such file. *)
NewExecutor ==
  /\ pc = "idle" /\ call < MaxRequests /\ now < MaxSeconds
  /\ call' = call + 1
  /\ \E k \in Kinds, exists \in BOOLEAN, scripts \in SUBSET Scripts :
       /\ exists \/ scripts = {}
       /\ executors' = [executors EXCEPT
                           ![call'] = Object(k, exists, scripts, "running")]
  /\ began' = now /\ damaged' = FALSE /\ remaining' = {}
  /\ pc' = "sleep"
  /\ UNCHANGED <<now, dirs, open, restarts, ran>>

(* sleep(1): the second is a later one when it returns. *)
Sleep ==
  /\ pc = "sleep" /\ now > began
  /\ pc' = "connect"
  /\ UNCHANGED <<executors, call, local, now, dirs, open, restarts, ran>>

(* A failed connect closes the socket before DownloadFile returns. *)
Connect ==
  /\ pc = "connect"
  /\ \/ /\ open' = open \cup {Socket}
        /\ pc' = "check"
        /\ UNCHANGED executors
     \/ Return(FALSE) /\ UNCHANGED open
  /\ UNCHANGED <<call, local, now, dirs, restarts, ran>>

(***************************************************************************)
(* The four bytes that say whether the file exists.  When fewer come, or   *)
(* none, check[3] is uninitialised, and the rest of them will be taken for *)
(* the start of the file.                                                  *)
(***************************************************************************)
NotExists ==
  /\ Return(FALSE)
  /\ UNCHANGED <<damaged, dirs, open>>

(* Mutant: the directory is not made. *)
CreateFileOnly(short) ==
  /\ executors' = [executors EXCEPT ![call].savePath = now]
  /\ open' = open \cup {File}
  /\ damaged' = (short \/ ~This.exists)
  /\ pc' = "receive"
  /\ UNCHANGED dirs

(* The directory is named after the second; fopen may return NULL. *)
CreateFile(short) ==
  \/ /\ executors' = [executors EXCEPT ![call].savePath = now]
     /\ dirs' = IF now \in DOMAIN dirs THEN dirs
                ELSE [d \in DOMAIN dirs \cup {now} |->
                        IF d = now THEN {} ELSE dirs[d]]
     /\ open' = open \cup {File}
     /\ damaged' = (short \/ ~This.exists)
     /\ pc' = "receive"
  \/ Die /\ UNCHANGED <<damaged, dirs>>

Check ==
  /\ pc = "check"
  /\ \E short, check \in BOOLEAN :
       /\ short \/ check = This.exists
       /\ IF check THEN CreateFile(short) ELSE NotExists
  /\ UNCHANGED <<call, began, remaining, now, restarts, ran>>

(* recv returned -1: fwrite gets the size 2^64 - 1, and the loop goes on. *)
ReceiveError ==
  /\ pc = "receive"
  /\ damaged' = TRUE
  /\ UNCHANGED <<pc, executors, call, began, remaining, now, dirs, open,
                 restarts, ran>>

(* Mutant: the socket stays open. *)
ReceiveEndOpen ==
  /\ pc = "receive"
  /\ \E early \in BOOLEAN : damaged' = (damaged \/ early)
  /\ open' = open \ {File}
  /\ pc' = "extract"
  /\ UNCHANGED <<executors, call, began, remaining, now, dirs, restarts, ran>>

(* Mutant: the end of the connection does not end the loop. *)
ReceiveEndMissed ==
  /\ pc = "receive"
  /\ damaged' = TRUE
  /\ UNCHANGED <<pc, executors, call, began, remaining, now, dirs, open,
                 restarts, ran>>

(* recv returned 0, after all of the file or before its end. *)
ReceiveEnd ==
  /\ pc = "receive"
  /\ \E early \in BOOLEAN : damaged' = (damaged \/ early)
  /\ open' = open \ {File, Socket}
  /\ pc' = "extract"
  /\ UNCHANGED <<executors, call, began, remaining, now, dirs, restarts, ran>>

(***************************************************************************)
(* ExtractFile: tar, and chmod (ChangeGrant).  tar writes over files of    *)
(* the same name, and fails on an archive that is damaged.                 *)
(***************************************************************************)
Unpack(scripts) ==
  dirs' = [dirs EXCEPT ![This.savePath] =
             {e \in @ : e.script \notin scripts} \cup
             {[owner |-> call, script |-> s] : s \in scripts}]

(* Mutant: the exit status of tar is not looked at. *)
ExtractFileUnchecked ==
  /\ pc = "extract"
  /\ \E scripts \in SUBSET This.scripts : Unpack(scripts)
  /\ pc' = "opendir"
  /\ UNCHANGED <<executors, call, local, now, open, restarts, ran>>

ExtractFile ==
  /\ pc = "extract"
  /\ \/ /\ ~damaged
        /\ Unpack(This.scripts)
        /\ pc' = "opendir"
        /\ UNCHANGED executors
     \/ /\ \E scripts \in SUBSET This.scripts : Unpack(scripts)
        /\ Return(FALSE) \/ Throw
  /\ UNCHANGED <<call, local, now, open, restarts, ran>>

(* The stream of opendir is never closed. *)
OpenDirectory ==
  /\ pc = "opendir"
  /\ \/ /\ open' = open \cup {Directory}
        /\ remaining' = {e \in dirs[This.savePath] : e.script \in Matching(kind)}
        /\ pc' = "scripts"
        /\ UNCHANGED executors
     \/ Return(FALSE) /\ UNCHANGED <<open, remaining>>
  /\ UNCHANGED <<call, began, damaged, now, dirs, restarts, ran>>

-----------------------------------------------------------------------------
Run(e, succeeded) ==
  /\ remaining' = remaining \ {e}
  /\ ran' = ran \cup {[call |-> call, owner |-> e.owner, script |-> e.script,
                       succeeded |-> succeeded]}

(* CPolicy: the result of a script is assigned to the variable of the      *)
(* block, and not to the one that Execute returns.                         *)
RunPolicyScript(e) ==
  /\ kind = "POLICY_REQUEST"
  /\ \E succeeded \in BOOLEAN : Run(e, succeeded)
  /\ UNCHANGED <<pc, executors>>

(* CInspection: a failure ends Execute; otherwise what the script wrote is *)
(* read over what the one before it wrote, if it can be read.              *)
RunInspectionScript(e) ==
  /\ kind = "INSPECTION_REQUEST"
  /\ \/ Run(e, FALSE) /\ Return(FALSE)
     \/ /\ Run(e, TRUE)
        /\ executors' \in {executors, [executors EXCEPT ![call].detail = e.script]}
        /\ UNCHANGED pc

RunScript ==
  /\ pc = "scripts"
  /\ \E e \in remaining : RunPolicyScript(e) \/ RunInspectionScript(e)
  /\ UNCHANGED <<call, began, damaged, now, dirs, open, restarts>>

(* popen fails, for a script or for rm. *)
ScriptThrows ==
  /\ pc = "scripts"
  /\ remaining # {} \/ kind = "INSPECTION_REQUEST"
  /\ Throw
  /\ UNCHANGED <<call, local, now, dirs, open, restarts, ran>>

(* CPolicy: RemoveFile is not called. *)
EndPolicy ==
  /\ pc = "scripts" /\ remaining = {} /\ kind = "POLICY_REQUEST"
  /\ Return(TRUE)
  /\ UNCHANGED <<call, local, now, dirs, open, restarts, ran>>

(* RemoveFile may fail half way. *)
RemoveFile ==
  /\ pc = "scripts" /\ remaining = {} /\ kind = "INSPECTION_REQUEST"
  /\ \/ /\ dirs' = [d \in DOMAIN dirs \ {This.savePath} |-> dirs[d]]
        /\ Return(TRUE)
     \/ /\ \E left \in SUBSET dirs[This.savePath] :
             dirs' = [dirs EXCEPT ![This.savePath] = left]
        /\ Return(FALSE)
  /\ UNCHANGED <<call, local, now, open, restarts, ran>>

-----------------------------------------------------------------------------
Tick ==
  /\ now < MaxSeconds
  /\ now' = now + 1
  /\ UNCHANGED <<pc, executors, call, local, dirs, open, restarts, ran>>

(* The process is killed, by SIGPIPE or otherwise. *)
Kill ==
  /\ pc # "dead" /\ restarts < MaxRestarts
  /\ Die
  /\ UNCHANGED <<call, local, now, dirs, restarts, ran>>

Restart ==
  /\ pc = "dead" /\ restarts < MaxRestarts
  /\ restarts' = restarts + 1
  /\ pc' = "idle"
  /\ UNCHANGED <<executors, call, local, now, dirs, open, ran>>

Execute ==
  \/ Sleep \/ Connect \/ Check \/ ReceiveEnd \/ ExtractFile
  \/ OpenDirectory \/ RunScript \/ ScriptThrows \/ EndPolicy \/ RemoveFile

Next ==
  \/ NewExecutor \/ Execute \/ ReceiveError
  \/ Tick \/ Kill \/ Restart

Spec == Init /\ [][Next]_vars

(***************************************************************************)
(* The clock runs, scripts end, and the file server sends what it has and  *)
(* ends the connection: no call has a timeout.                             *)
(***************************************************************************)
FairSpec == Spec /\ WF_vars(Tick) /\ WF_vars(Execute)

-----------------------------------------------------------------------------
Working == {"receive", "extract", "opendir", "scripts"}

DirsType == \E D \in SUBSET (1 .. MaxSeconds) : dirs \in [D -> SUBSET Entries]

(* The type of every variable; Execute works in a directory that exists.   *)
TypeOK ==
  /\ pc \in {"idle", "sleep", "connect", "check", "dead"} \cup Working
  /\ executors \in [Calls -> Objects]
  /\ call \in 0 .. MaxRequests /\ (pc \notin {"idle", "dead"} => call > 0)
  /\ began \in 0 .. MaxSeconds /\ damaged \in BOOLEAN /\ remaining \subseteq Entries
  /\ now \in 1 .. MaxSeconds /\ restarts \in 0 .. MaxRestarts
  /\ DirsType
  /\ open \subseteq Calls \X {"socket", "file", "directory"}
  /\ ran \subseteq Runs
  /\ pc \in Working => This.savePath \in DOMAIN dirs

(* Execute runs the scripts of its own archive only, although directories  *)
(* are named after the second, are left behind by policies, failures and   *)
(* crashes, and are not emptied (CUtils.cpp:93, CPolicy.cpp:16, 54).       *)
ScriptsAreOwn == \A r \in ran : r.owner = r.call

(* Its inductive strengthening: nothing that is there was named after the  *)
(* second in which a call makes its directory, and what is in that         *)
(* directory is its own.                                                   *)
OwnInv ==
  /\ \A d \in DOMAIN dirs : d <= now
  /\ began <= now
  /\ pc \in {"sleep", "connect", "check"} => \A d \in DOMAIN dirs : d <= began
  /\ pc \in {"connect", "check"} => began < now
  /\ pc \in Working => \A e \in dirs[This.savePath] : e.owner = call
  /\ pc = "scripts" => \A e \in remaining : e.owner = call

(* A RESPONSE that says true: the archive came whole, and all scripts in   *)
(* it that the request is for were run; those of an inspection succeeded,  *)
(* its detail was written by one of them, and nothing of it is left        *)
(* (CPolicy.cpp:18-59, CInspection.cpp:19-64).                             *)
TrueMeansDone ==
  \A c \in Calls :
    LET x == executors[c]
        mine == {r \in ran : r.call = c}
    IN  x.result = "true" =>
          /\ x.exists
          /\ {r.script : r \in mine} = x.scripts \cap Matching(x.kind)
          /\ x.kind = "INSPECTION_REQUEST" =>
               /\ \A r \in mine : r.succeeded
               /\ x.detail \in {Nothing} \cup {r.script : r \in mine}
               /\ x.savePath \notin DOMAIN dirs

(* What a call that has ended still holds: the stream of its directory,    *)
(* and the socket only if it was told that the file does not exist         *)
(* (CExecutor.cpp:34-38, 87-90, 108-109; CPolicy.cpp:28).                  *)
HeldDescriptors ==
  \A d \in open :
    LET x == executors[d[1]] IN
    x.result # "running" =>
      \/ d[2] = "directory"
      \/ d[2] = "socket" /\ x.result = "false" /\ x.savePath = NoPath

(* Execute returns or throws, or the process is killed (CMatch.cpp:156,    *)
(* 179): the dispatcher waits for it before it takes another request.      *)
CallEnds == (pc \notin {"idle", "dead"}) ~> (pc \in {"idle", "dead"})
=============================================================================
