--------------------------- MODULE ExecutorProofs ---------------------------
(***************************************************************************)
(* Execute runs the scripts of its own archive only, for any scripts,      *)
(* requests, failures, seconds and restarts.                               *)
(*                                                                         *)
(* The argument is about seconds.  A directory that is there was named     *)
(* after a second that is not later than the one in which a call begins;   *)
(* the call sleeps, and names its own directory after a later one.         *)
(*                                                                         *)
(* On it rest two more results: what a call leaves open, and that a call   *)
(* which reports true has done its work.                                   *)
(***************************************************************************)
EXTENDS Executor, TLAPS

OwnIInv == TypeOK /\ OwnInv /\ ScriptsAreOwn

Results == {"none", "running", "true", "false", "exception", "lost"}

(* While Execute runs, it is that of one of the objects. *)
LEMMA CallIsAnObject ==
  ASSUME TypeOK, pc \notin {"idle", "dead"}
  PROVE  call \in Calls /\ executors[call] \in Objects
BY ExecutorAssumption DEF TypeOK, Calls

(* The end of a call changes the result of its object only. *)
LEMMA EndKeepsType ==
  ASSUME TypeOK, call \in Calls, NEW result \in Results, End(result)
  PROVE  executors' \in [Calls -> Objects] /\ pc' = "idle"
BY DEF TypeOK, End, Objects, Results

(* So does the end of the process. *)
LEMMA DieKeepsType ==
  ASSUME TypeOK, Die
  PROVE  executors' \in [Calls -> Objects] /\ pc' = "dead" /\ open' = {}
BY DEF TypeOK, Die, Objects

(* No call runs, and no directory or run is new. *)
LEMMA OwnEnded ==
  ASSUME OwnIInv, executors' \in [Calls -> Objects], pc' \in {"idle", "dead"},
         open' \subseteq open, damaged' \in BOOLEAN, remaining' \subseteq Entries,
         restarts' \in 0 .. MaxRestarts,
         ran' \subseteq Runs, \A r \in ran' : r.owner = r.call,
         DirsType',
         DOMAIN dirs' \subseteq DOMAIN dirs,
         UNCHANGED <<call, began, now>>
  PROVE  OwnIInv'
<1>1. TypeOK'
  BY DEF OwnIInv, TypeOK, Working
<1>2. OwnInv'
  BY DEF OwnIInv, OwnInv, Working
<1> QED
  BY <1>1, <1>2 DEF OwnIInv, ScriptsAreOwn

LEMMA OwnInit == Init => OwnIInv
<1> SUFFICES ASSUME Init PROVE OwnIInv
  OBVIOUS
<1>1. Unborn \in Objects
  BY ExecutorAssumption DEF Unborn, Object, Objects, NoPath
<1>2. DirsType
  <2>1. {} \in SUBSET (1 .. MaxSeconds) /\ dirs \in [{} -> SUBSET Entries]
    BY DEF Init
  <2> QED
    BY <2>1 DEF DirsType
<1>3. damaged \in BOOLEAN
  BY DEF Init
<1>4. TypeOK
  BY <1>1, <1>2, <1>3, ExecutorAssumption DEF Init, TypeOK, Working
<1> QED
  BY <1>4 DEF OwnIInv, Init, OwnInv, ScriptsAreOwn, Working

LEMMA OwnNewExecutor == OwnIInv /\ NewExecutor => OwnIInv'
<1> SUFFICES ASSUME OwnIInv, NewExecutor PROVE OwnIInv'
  OBVIOUS
<1>1. PICK k \in Kinds, exists \in BOOLEAN, scripts \in SUBSET Scripts :
        executors' = [executors EXCEPT
                        ![call'] = Object(k, exists, scripts, "running")]
  BY DEF NewExecutor
<1>2. call' \in 0 .. MaxRequests /\ call' > 0 /\ call' = call + 1
  BY ExecutorAssumption DEF NewExecutor, OwnIInv, TypeOK
<1>3. Object(k, exists, scripts, "running") \in Objects
  BY ExecutorAssumption DEF Object, Objects, NoPath
<1>4. executors' \in [Calls -> Objects]
  BY <1>1, <1>3 DEF OwnIInv, TypeOK
<1>5. DirsType' /\ damaged' \in BOOLEAN
  BY DEF NewExecutor, OwnIInv, TypeOK, DirsType
<1>6. TypeOK'
  BY <1>2, <1>4, <1>5 DEF NewExecutor, OwnIInv, TypeOK, Working
<1>7. OwnInv'
  BY DEF NewExecutor, OwnIInv, OwnInv, TypeOK, Working
<1>8. ScriptsAreOwn'
  BY DEF NewExecutor, OwnIInv, ScriptsAreOwn
<1> QED
  BY <1>6, <1>7, <1>8 DEF OwnIInv

LEMMA OwnSleep == OwnIInv /\ Sleep => OwnIInv'
<1> SUFFICES ASSUME OwnIInv, Sleep PROVE OwnIInv'
  OBVIOUS
<1>1. DirsType' /\ damaged' \in BOOLEAN
  BY DEF Sleep, local, OwnIInv, TypeOK, DirsType
<1>2. TypeOK'
  BY <1>1 DEF Sleep, local, OwnIInv, TypeOK, Working
<1>3. OwnInv' /\ ScriptsAreOwn'
  BY DEF Sleep, local, OwnIInv, OwnInv, TypeOK, Working, ScriptsAreOwn
<1> QED
  BY <1>2, <1>3 DEF OwnIInv

(* A call that returns or throws and leaves the directories as they are. *)
LEMMA OwnReturns ==
  ASSUME OwnIInv, call \in Calls, NEW result \in Results, End(result),
         UNCHANGED <<call, local, now, dirs, open, restarts, ran>>
  PROVE  OwnIInv'
<1>1. executors' \in [Calls -> Objects] /\ pc' = "idle"
  BY EndKeepsType DEF OwnIInv
<1>2. DirsType' /\ damaged' \in BOOLEAN
  BY DEF local, OwnIInv, TypeOK, DirsType
<1> QED
  BY <1>1, <1>2, OwnEnded DEF local, OwnIInv, TypeOK, ScriptsAreOwn

LEMMA OwnConnect == OwnIInv /\ Connect => OwnIInv'
<1> SUFFICES ASSUME OwnIInv, Connect PROVE OwnIInv'
  OBVIOUS
<1>1. call \in Calls
  BY CallIsAnObject DEF Connect, OwnIInv
<1>2. CASE Return(FALSE) /\ UNCHANGED open
  BY <1>1, <1>2, OwnReturns DEF Connect, Return, Results
<1>3. CASE open' = open \cup {Socket} /\ pc' = "check" /\ UNCHANGED executors
  <2>1. DirsType' /\ damaged' \in BOOLEAN
    BY DEF Connect, local, OwnIInv, TypeOK, DirsType
  <2>2. TypeOK'
    BY <1>1, <1>3, <2>1 DEF Connect, local, OwnIInv, TypeOK, Working, Socket
  <2>3. OwnInv' /\ ScriptsAreOwn'
    BY <1>3 DEF Connect, local, OwnIInv, OwnInv, Working, ScriptsAreOwn
  <2> QED
    BY <2>2, <2>3 DEF OwnIInv
<1> QED
  BY <1>2, <1>3 DEF Connect

(* The directory is named after this second: it is new, and empty. *)
LEMMA OwnCheck == OwnIInv /\ Check => OwnIInv'
<1> SUFFICES ASSUME OwnIInv, Check PROVE OwnIInv'
  OBVIOUS
<1>1. call \in Calls /\ executors[call] \in Objects
  BY CallIsAnObject DEF Check, OwnIInv
<1>2. UNCHANGED <<call, began, remaining, now, restarts, ran>> /\ pc = "check"
  BY DEF Check
<1>3. CASE NotExists
  BY <1>1, <1>2, <1>3, OwnReturns DEF NotExists, Return, Results, local
<1>4. ASSUME NEW short \in BOOLEAN, CreateFile(short) PROVE OwnIInv'
  <2>1. CASE Die /\ UNCHANGED <<damaged, dirs>>
    <3>1. DirsType' /\ damaged' \in BOOLEAN
      BY <2>1 DEF OwnIInv, TypeOK, DirsType
    <3> QED
      BY <1>2, <2>1, <3>1, DieKeepsType, OwnEnded
      DEF OwnIInv, TypeOK, ScriptsAreOwn
  <2>2. CASE /\ executors' = [executors EXCEPT ![call].savePath = now]
             /\ dirs' = IF now \in DOMAIN dirs THEN dirs
                        ELSE [d \in DOMAIN dirs \cup {now} |->
                                IF d = now THEN {} ELSE dirs[d]]
             /\ open' = open \cup {File}
             /\ damaged' = (short \/ ~This.exists)
             /\ pc' = "receive"
    <3>1. now \notin DOMAIN dirs
      BY <1>2 DEF OwnIInv, OwnInv, TypeOK
    <3>2. damaged' \in BOOLEAN
      BY <2>2
    <3>3. /\ executors' \in [Calls -> Objects]
          /\ executors'[call].savePath = now
      BY <1>1, <2>2 DEF OwnIInv, TypeOK, Objects
    <3>4. dirs' = [d \in DOMAIN dirs \cup {now} |->
                     IF d = now THEN {} ELSE dirs[d]]
      BY <2>2, <3>1
    <3>5. PICK D \in SUBSET (1 .. MaxSeconds) : dirs \in [D -> SUBSET Entries]
      BY DEF OwnIInv, TypeOK, DirsType
    <3>6. dirs' \in [D \cup {now} -> SUBSET Entries]
      BY <3>4, <3>5
    <3>7. DirsType'
      BY <3>6 DEF OwnIInv, TypeOK, DirsType
    <3>8. TypeOK'
      BY <1>1, <1>2, <2>2, <3>2, <3>3, <3>4, <3>7
      DEF OwnIInv, TypeOK, Working, File, This
    <3>9. OwnInv'
      BY <1>2, <2>2, <3>3, <3>4 DEF OwnIInv, OwnInv, TypeOK, Working, This
    <3> QED
      BY <1>2, <3>8, <3>9 DEF OwnIInv, ScriptsAreOwn
  <2> QED
    BY <1>4, <2>1, <2>2 DEF CreateFile
<1> QED
  BY <1>3, <1>4 DEF Check

LEMMA OwnReceive == OwnIInv /\ (ReceiveError \/ ReceiveEnd) => OwnIInv'
<1> SUFFICES ASSUME OwnIInv, ReceiveError \/ ReceiveEnd PROVE OwnIInv'
  OBVIOUS
<1>1. /\ UNCHANGED <<executors, call, began, remaining, now, dirs, restarts, ran>>
      /\ pc = "receive" /\ pc' \in {"receive", "extract"}
      /\ open' \subseteq open
  BY DEF ReceiveError, ReceiveEnd
<1>2. damaged' \in BOOLEAN
  BY DEF ReceiveError, ReceiveEnd
<1>3. DirsType'
  BY <1>1 DEF OwnIInv, TypeOK, DirsType
<1>4. TypeOK'
  BY <1>1, <1>2, <1>3 DEF OwnIInv, TypeOK, Working, This
<1>5. OwnInv' /\ ScriptsAreOwn'
  BY <1>1 DEF OwnIInv, OwnInv, Working, This, ScriptsAreOwn
<1> QED
  BY <1>4, <1>5 DEF OwnIInv

(* What tar writes belongs to the call. *)
LEMMA UnpackIsOwn ==
  ASSUME OwnIInv, pc \in Working, NEW scripts \in SUBSET This.scripts,
         Unpack(scripts)
  PROVE  /\ DirsType' /\ DOMAIN dirs' = DOMAIN dirs
         /\ \A e \in dirs'[This.savePath] : e.owner = call
<1>1. call \in Calls /\ This \in Objects
  BY CallIsAnObject DEF OwnIInv, Working, This
<1>2. PICK D \in SUBSET (1 .. MaxSeconds) : dirs \in [D -> SUBSET Entries]
  BY DEF OwnIInv, TypeOK, DirsType
<1>3. This.savePath \in D
  BY <1>2 DEF OwnIInv, TypeOK
<1> DEFINE new == {e \in dirs[This.savePath] : e.script \notin scripts} \cup
                  {[owner |-> call, script |-> s] : s \in scripts}
<1>4. new \subseteq Entries
  BY <1>1, <1>2, <1>3 DEF Objects, Entries
<1>5. \A e \in new : e.owner = call
  BY DEF OwnIInv, OwnInv
<1>6. dirs' = [dirs EXCEPT ![This.savePath] = new]
  BY DEF Unpack
<1> HIDE DEF new
<1>7. dirs' \in [D -> SUBSET Entries] /\ dirs'[This.savePath] = new
  BY <1>2, <1>3, <1>4, <1>6
<1> QED
  BY <1>2, <1>5, <1>7 DEF DirsType

LEMMA OwnExtractFile == OwnIInv /\ ExtractFile => OwnIInv'
<1> SUFFICES ASSUME OwnIInv, ExtractFile PROVE OwnIInv'
  OBVIOUS
<1>1. call \in Calls /\ executors[call] \in Objects
  BY CallIsAnObject DEF ExtractFile, OwnIInv
<1>2. /\ UNCHANGED <<call, local, now, open, restarts, ran>>
      /\ pc \in Working
  BY DEF ExtractFile, Working
<1>3. damaged' \in BOOLEAN
  BY <1>2 DEF local, OwnIInv, TypeOK
<1>4. CASE Unpack(This.scripts) /\ pc' = "opendir" /\ UNCHANGED executors
  <2>1. /\ DirsType' /\ DOMAIN dirs' = DOMAIN dirs
        /\ \A e \in dirs'[This.savePath] : e.owner = call
    BY <1>2, <1>4, UnpackIsOwn
  <2>2. TypeOK'
    BY <1>2, <1>3, <1>4, <2>1 DEF local, OwnIInv, TypeOK, Working, This
  <2>3. OwnInv' /\ ScriptsAreOwn'
    BY <1>2, <1>4, <2>1 DEF local, OwnIInv, OwnInv, Working, This, ScriptsAreOwn
  <2> QED
    BY <2>2, <2>3 DEF OwnIInv
<1>5. ASSUME NEW scripts \in SUBSET This.scripts, Unpack(scripts),
             NEW result \in Results, End(result)
      PROVE  OwnIInv'
  <2>1. DirsType' /\ DOMAIN dirs' = DOMAIN dirs
    BY <1>2, <1>5, UnpackIsOwn
  <2>2. executors' \in [Calls -> Objects] /\ pc' = "idle"
    BY <1>1, <1>5, EndKeepsType DEF OwnIInv
  <2> QED
    BY <1>2, <1>3, <2>1, <2>2, OwnEnded
    DEF local, OwnIInv, TypeOK, ScriptsAreOwn
<1> QED
  BY <1>4, <1>5 DEF ExtractFile, Return, Throw, Results

(* readdir returns what tar wrote. *)
LEMMA OwnOpenDirectory == OwnIInv /\ OpenDirectory => OwnIInv'
<1> SUFFICES ASSUME OwnIInv, OpenDirectory PROVE OwnIInv'
  OBVIOUS
<1>1. call \in Calls
  BY CallIsAnObject DEF OpenDirectory, OwnIInv
<1>2. /\ UNCHANGED <<call, began, damaged, now, dirs, restarts, ran>>
      /\ pc = "opendir"
  BY DEF OpenDirectory
<1>3. CASE Return(FALSE) /\ UNCHANGED <<open, remaining>>
  BY <1>1, <1>2, <1>3, OwnReturns DEF Return, Results, local
<1>4. CASE /\ open' = open \cup {Directory}
           /\ remaining' = {e \in dirs[This.savePath] : e.script \in Matching(kind)}
           /\ pc' = "scripts"
           /\ UNCHANGED executors
  <2>1. DirsType' /\ damaged' \in BOOLEAN
    BY <1>2 DEF OwnIInv, TypeOK, DirsType
  <2>2. remaining' \subseteq dirs[This.savePath]
    BY <1>4
  <2>3. remaining' \subseteq Entries
    BY <1>2, <2>2 DEF OwnIInv, TypeOK, DirsType, Working
  <2>4. TypeOK'
    BY <1>1, <1>2, <1>4, <2>1, <2>3
    DEF OwnIInv, TypeOK, Working, Directory, This
  <2>5. OwnInv' /\ ScriptsAreOwn'
    BY <1>2, <1>4, <2>2 DEF OwnIInv, OwnInv, Working, This, ScriptsAreOwn
  <2> QED
    BY <2>4, <2>5 DEF OwnIInv
<1> QED
  BY <1>3, <1>4 DEF OpenDirectory

(* A script that is run is one of the directory's, hence its call's own. *)
LEMMA OwnRunScript == OwnIInv /\ RunScript => OwnIInv'
<1> SUFFICES ASSUME OwnIInv, RunScript PROVE OwnIInv'
  OBVIOUS
<1>1. call \in Calls /\ executors[call] \in Objects
  BY CallIsAnObject DEF RunScript, OwnIInv
<1>2. /\ UNCHANGED <<call, began, damaged, now, dirs, open, restarts>>
      /\ pc = "scripts"
  BY DEF RunScript
<1>3. PICK e \in remaining : RunPolicyScript(e) \/ RunInspectionScript(e)
  BY DEF RunScript
<1>4. e \in Entries /\ e.owner = call
  BY <1>2 DEF OwnIInv, OwnInv, TypeOK
<1>5. DirsType' /\ damaged' \in BOOLEAN
  BY <1>2 DEF OwnIInv, TypeOK, DirsType
<1>6. ASSUME NEW succeeded \in BOOLEAN, Run(e, succeeded)
      PROVE  /\ remaining' \subseteq remaining
             /\ ran' \subseteq Runs
             /\ \A r \in ran' : r.owner = r.call
  <2> DEFINE new == [call |-> call, owner |-> e.owner, script |-> e.script,
                     succeeded |-> succeeded]
  <2>1. new \in Runs /\ new.owner = new.call
    BY <1>1, <1>4 DEF Runs, Entries
  <2>2. ran' = ran \cup {new} /\ remaining' \subseteq remaining
    BY <1>6 DEF Run
  <2> HIDE DEF new
  <2> QED
    BY <2>1, <2>2 DEF OwnIInv, TypeOK, ScriptsAreOwn
<1>7. /\ remaining' \subseteq remaining
      /\ ran' \subseteq Runs
      /\ \A r \in ran' : r.owner = r.call
  BY <1>3, <1>6 DEF RunPolicyScript, RunInspectionScript
<1>8. CASE Return(FALSE)
  <2>1. executors' \in [Calls -> Objects] /\ pc' = "idle"
    BY <1>1, <1>8, EndKeepsType DEF Return, OwnIInv, Results
  <2> QED
    BY <1>2, <1>5, <1>7, <2>1, OwnEnded DEF OwnIInv, TypeOK
<1>9. CASE /\ executors' \in {executors, [executors EXCEPT ![call].detail = e.script]}
           /\ UNCHANGED pc
  <2>1. /\ executors' \in [Calls -> Objects]
        /\ executors'[call].savePath = executors[call].savePath
    BY <1>1, <1>4, <1>9 DEF OwnIInv, TypeOK, Objects, Entries
  <2>2. TypeOK'
    BY <1>2, <1>5, <1>7, <1>9, <2>1 DEF OwnIInv, TypeOK, Working, This
  <2>3. OwnInv'
    BY <1>2, <1>7, <1>9, <2>1 DEF OwnIInv, OwnInv, Working, This
  <2> QED
    BY <1>7, <2>2, <2>3 DEF OwnIInv, ScriptsAreOwn
<1> QED
  BY <1>3, <1>8, <1>9 DEF RunPolicyScript, RunInspectionScript

LEMMA OwnEnd == OwnIInv /\ (ScriptThrows \/ EndPolicy) => OwnIInv'
<1> SUFFICES ASSUME OwnIInv, ScriptThrows \/ EndPolicy PROVE OwnIInv'
  OBVIOUS
<1>1. call \in Calls
  BY CallIsAnObject DEF ScriptThrows, EndPolicy, OwnIInv
<1> QED
  BY <1>1, OwnReturns DEF ScriptThrows, EndPolicy, Throw, Return, Results

LEMMA OwnRemoveFile == OwnIInv /\ RemoveFile => OwnIInv'
<1> SUFFICES ASSUME OwnIInv, RemoveFile PROVE OwnIInv'
  OBVIOUS
<1>1. call \in Calls
  BY CallIsAnObject DEF RemoveFile, OwnIInv
<1>2. UNCHANGED <<call, local, now, open, restarts, ran>>
  BY DEF RemoveFile
<1>3. damaged' \in BOOLEAN
  BY <1>2 DEF local, OwnIInv, TypeOK
<1>4. PICK D \in SUBSET (1 .. MaxSeconds) : dirs \in [D -> SUBSET Entries]
  BY DEF OwnIInv, TypeOK, DirsType
<1>5. DirsType' /\ DOMAIN dirs' \subseteq DOMAIN dirs
  <2>1. CASE dirs' = [d \in DOMAIN dirs \ {This.savePath} |-> dirs[d]]
    <3>1. dirs' \in [D \ {This.savePath} -> SUBSET Entries]
      BY <1>4, <2>1
    <3> QED
      BY <1>4, <3>1 DEF DirsType
  <2>2. ASSUME NEW left \in SUBSET dirs[This.savePath],
               dirs' = [dirs EXCEPT ![This.savePath] = left]
        PROVE  DirsType' /\ DOMAIN dirs' \subseteq DOMAIN dirs
    <3>1. dirs' \in [D -> SUBSET Entries]
      BY <1>4, <2>2
    <3> QED
      BY <1>4, <3>1 DEF DirsType
  <2> QED
    BY <2>1, <2>2 DEF RemoveFile
<1>6. executors' \in [Calls -> Objects] /\ pc' = "idle"
  <2>1. PICK result \in Results : End(result)
    BY DEF RemoveFile, Return, Results
  <2> QED
    BY <1>1, <2>1, EndKeepsType DEF OwnIInv
<1> QED
  BY <1>2, <1>3, <1>5, <1>6, OwnEnded DEF local, OwnIInv, TypeOK, ScriptsAreOwn

(* Seconds pass: what was there stays older. *)
LEMMA OwnTick == OwnIInv /\ Tick => OwnIInv'
<1> SUFFICES ASSUME OwnIInv, Tick PROVE OwnIInv'
  OBVIOUS
<1>1. DirsType' /\ damaged' \in BOOLEAN
  BY DEF Tick, local, OwnIInv, TypeOK, DirsType
<1>2. TypeOK'
  BY <1>1, ExecutorAssumption DEF Tick, local, OwnIInv, TypeOK, Working, This
<1>3. \A d \in DOMAIN dirs : d \in Int
  BY DEF OwnIInv, TypeOK, DirsType
<1>4. OwnInv' /\ ScriptsAreOwn'
  BY <1>3 DEF Tick, local, OwnIInv, OwnInv, TypeOK, Working, This, ScriptsAreOwn
<1> QED
  BY <1>2, <1>4 DEF OwnIInv

LEMMA OwnKill == OwnIInv /\ (Kill \/ Restart) => OwnIInv'
<1> SUFFICES ASSUME OwnIInv, Kill \/ Restart PROVE OwnIInv'
  OBVIOUS
<1>1. UNCHANGED <<call, local, now, dirs, ran>>
  BY DEF Kill, Restart
<1>2. DirsType' /\ damaged' \in BOOLEAN
  BY <1>1 DEF local, OwnIInv, TypeOK, DirsType
<1>3. /\ executors' \in [Calls -> Objects] /\ pc' \in {"idle", "dead"}
      /\ open' \subseteq open /\ restarts' \in 0 .. MaxRestarts
  BY DieKeepsType, ExecutorAssumption DEF Kill, Restart, OwnIInv, TypeOK
<1> QED
  BY <1>1, <1>2, <1>3, OwnEnded DEF local, OwnIInv, TypeOK, ScriptsAreOwn

LEMMA OwnUnchanged == OwnIInv /\ UNCHANGED vars => OwnIInv'
<1> SUFFICES ASSUME OwnIInv, UNCHANGED vars PROVE OwnIInv'
  OBVIOUS
<1>1. DirsType' /\ damaged' \in BOOLEAN
  BY DEF vars, local, OwnIInv, TypeOK, DirsType
<1>2. TypeOK'
  BY <1>1 DEF vars, local, OwnIInv, TypeOK, Working, This
<1>3. OwnInv' /\ ScriptsAreOwn'
  BY DEF vars, local, OwnIInv, OwnInv, Working, This, ScriptsAreOwn
<1> QED
  BY <1>2, <1>3 DEF OwnIInv

(* The invariant is inductive. *)
LEMMA OwnNext == OwnIInv /\ [Next]_vars => OwnIInv'
BY OwnNewExecutor, OwnSleep, OwnConnect, OwnCheck, OwnReceive, OwnExtractFile,
   OwnOpenDirectory, OwnRunScript, OwnEnd, OwnRemoveFile, OwnTick, OwnKill,
   OwnUnchanged DEF Next, Execute

(* Every variable of Executor keeps its type, and Execute works in a       *)
(* directory that exists (CExecutor.cpp:70-134).                           *)
THEOREM ExecutorTypeCorrect == Spec => []TypeOK
<1>1. OwnIInv => TypeOK
  BY DEF OwnIInv
<1> QED
  BY <1>1, OwnInit, OwnNext, PTL DEF Spec

(* Execute runs the scripts of its own archive only, whatever earlier      *)
(* calls and earlier processes have left behind (CUtils.cpp:93,            *)
(* CPolicy.cpp:16, CInspection.cpp:17).                                    *)
THEOREM OnlyOwnScripts == Spec => []ScriptsAreOwn
<1>1. OwnIInv => ScriptsAreOwn
  BY DEF OwnIInv
<1> QED
  BY <1>1, OwnInit, OwnNext, PTL DEF Spec

-----------------------------------------------------------------------------
(***************************************************************************)
(* Descriptors.  The object of the call that runs is the only one that is  *)
(* running, and its socket and file are open at most until the end of the  *)
(* download.                                                               *)
(***************************************************************************)
Ended == {"idle", "dead"}

HeldInv ==
  /\ \A c \in Calls :
       executors[c].result = "running" <=> c = call /\ pc \notin Ended
  /\ pc \in {"sleep", "connect", "check"} => This.savePath = NoPath
  /\ \A d \in open :
       /\ d[1] <= call
       /\ d[1] = call /\ pc \notin Ended =>
            /\ d[2] = "socket" => pc \in {"check", "receive"}
            /\ d[2] = "file" => pc = "receive"

HeldIInv == TypeOK /\ HeldInv /\ HeldDescriptors

LEMMA HeldInit == Init => HeldInv /\ HeldDescriptors
BY DEF Init, HeldInv, HeldDescriptors, Unborn, Object, Ended

(* A call that returns or throws after its download, or before it. *)
LEMMA HeldEnds ==
  ASSUME HeldIInv, call \in Calls, pc \notin Ended, pc # "receive",
         NEW result \in {"true", "false", "exception"}, End(result),
         pc = "check" => result = "false",
         UNCHANGED <<call, open>>
  PROVE  HeldInv' /\ HeldDescriptors'
<1>1. /\ \A c \in Calls : c # call => executors'[c] = executors[c]
      /\ executors'[call].result = result
      /\ executors'[call].savePath = executors[call].savePath
      /\ pc' = "idle"
  BY DEF End, HeldIInv, TypeOK, Objects
<1>2. HeldInv'
  BY <1>1 DEF HeldIInv, HeldInv, Ended
<1>3. ASSUME NEW d \in open
      PROVE  executors'[d[1]].result # "running" =>
               \/ d[2] = "directory"
               \/ d[2] = "socket" /\ executors'[d[1]].result = "false"
                                  /\ executors'[d[1]].savePath = NoPath
  <2>1. d[1] \in Calls /\ d[2] \in {"socket", "file", "directory"}
    BY DEF HeldIInv, TypeOK
  <2>2. CASE d[1] = call
    BY <1>1, <2>1, <2>2 DEF HeldIInv, HeldInv, This
  <2>3. CASE d[1] # call
    BY <1>1, <2>1, <2>3 DEF HeldIInv, HeldDescriptors
  <2> QED
    BY <2>2, <2>3
<1> QED
  BY <1>2, <1>3 DEF HeldDescriptors

(* The process ends. *)
LEMMA HeldDies ==
  ASSUME HeldIInv, Die, UNCHANGED call
  PROVE  HeldInv' /\ HeldDescriptors'
<1>1. open' = {} /\ pc' = "dead" /\ executors' \in [Calls -> Objects]
  BY DieKeepsType DEF HeldIInv
<1>2. \A c \in Calls : executors'[c].result # "running"
  BY DEF Die, HeldIInv, TypeOK, Objects
<1> QED
  BY <1>1, <1>2 DEF HeldInv, HeldDescriptors, Ended

(* A step of the call that runs, or of the clock. *)
LEMMA HeldGoes ==
  ASSUME HeldIInv, call \in Calls, pc \notin Ended, pc' \notin Ended,
         UNCHANGED call,
         \A c \in Calls : /\ executors'[c].result = executors[c].result
                          /\ c # call => executors'[c] = executors[c],
         pc' \in {"sleep", "connect", "check"} => executors'[call].savePath = NoPath,
         \A d \in open' :
           /\ d \in open \/ d[1] = call
           /\ d[1] = call =>
                /\ d[2] = "socket" => pc' \in {"check", "receive"}
                /\ d[2] = "file" => pc' = "receive"
  PROVE  HeldInv' /\ HeldDescriptors'
<1>1. HeldInv'
  BY DEF HeldIInv, HeldInv, TypeOK, This
<1>2. HeldDescriptors'
  <2> SUFFICES ASSUME NEW d \in open', executors'[d[1]].result # "running"
               PROVE  \/ d[2] = "directory"
                      \/ d[2] = "socket" /\ executors'[d[1]].result = "false"
                                         /\ executors'[d[1]].savePath = NoPath
    BY DEF HeldDescriptors
  <2>1. d[1] # call
    BY DEF HeldIInv, HeldInv
  <2>2. d \in open /\ d[1] \in Calls
    BY <2>1 DEF HeldIInv, TypeOK
  <2> QED
    BY <2>1, <2>2 DEF HeldIInv, HeldDescriptors
<1> QED
  BY <1>1, <1>2

LEMMA HeldNewExecutor == HeldIInv /\ NewExecutor => HeldInv' /\ HeldDescriptors'
<1> SUFFICES ASSUME HeldIInv, NewExecutor PROVE HeldInv' /\ HeldDescriptors'
  OBVIOUS
<1>1. /\ pc = "idle" /\ pc' = "sleep" /\ call' = call + 1 /\ call' \in Calls
      /\ open' = open
  BY ExecutorAssumption DEF NewExecutor, HeldIInv, TypeOK, Calls
<1>2. PICK k \in Kinds, exists \in BOOLEAN, scripts \in SUBSET Scripts :
        executors' = [executors EXCEPT
                        ![call'] = Object(k, exists, scripts, "running")]
  BY DEF NewExecutor
<1>3. /\ executors'[call'].result = "running" /\ executors'[call'].savePath = NoPath
      /\ \A c \in Calls : c # call' => executors'[c] = executors[c]
  BY <1>1, <1>2 DEF HeldIInv, TypeOK, Object
<1>4. \A d \in open : d[1] <= call /\ d[1] \in Calls /\ d[1] # call'
  BY <1>1, ExecutorAssumption DEF HeldIInv, HeldInv, TypeOK, Calls
<1>5. HeldInv'
  BY <1>1, <1>3, <1>4, ExecutorAssumption DEF HeldIInv, HeldInv, Ended, This, Calls, TypeOK
<1>6. HeldDescriptors'
  BY <1>1, <1>3, <1>4 DEF HeldIInv, HeldDescriptors
<1> QED
  BY <1>5, <1>6

LEMMA HeldConnect == HeldIInv /\ Connect => HeldInv' /\ HeldDescriptors'
<1> SUFFICES ASSUME HeldIInv, Connect PROVE HeldInv' /\ HeldDescriptors'
  OBVIOUS
<1>1. call \in Calls /\ pc = "connect" /\ UNCHANGED call
  BY CallIsAnObject DEF Connect, HeldIInv
<1>2. CASE Return(FALSE) /\ UNCHANGED open
  BY <1>1, <1>2, HeldEnds DEF Return, Ended
<1>3. CASE open' = open \cup {Socket} /\ pc' = "check" /\ UNCHANGED executors
  <2>1. ASSUME NEW d \in open'
        PROVE  /\ d \in open \/ d[1] = call
               /\ d[1] = call => d[2] # "file"
    BY <1>1, <1>3 DEF Socket, HeldIInv, HeldInv, Ended
  <2>2. executors[call].savePath = NoPath
    BY <1>1 DEF HeldIInv, HeldInv, This
  <2> QED
    BY <1>1, <1>3, <2>1, <2>2, HeldGoes DEF Ended
<1> QED
  BY <1>2, <1>3 DEF Connect

LEMMA HeldCheck == HeldIInv /\ Check => HeldInv' /\ HeldDescriptors'
<1> SUFFICES ASSUME HeldIInv, Check PROVE HeldInv' /\ HeldDescriptors'
  OBVIOUS
<1>1. call \in Calls /\ pc = "check" /\ UNCHANGED call
  BY CallIsAnObject DEF Check, HeldIInv
<1>2. CASE NotExists
  BY <1>1, <1>2, HeldEnds DEF NotExists, Return, Ended
<1>3. CASE Die
  BY <1>1, <1>3, HeldDies
<1>4. CASE /\ executors' = [executors EXCEPT ![call].savePath = now]
           /\ open' = open \cup {File} /\ pc' = "receive"
  <2>1. \A c \in Calls : /\ executors'[c].result = executors[c].result
                         /\ c # call => executors'[c] = executors[c]
    BY <1>4 DEF HeldIInv, TypeOK, Objects
  <2>2. \A d \in open' : d \in open \/ d[1] = call
    BY <1>4 DEF File
  <2> QED
    BY <1>1, <1>4, <2>1, <2>2, HeldGoes DEF Ended
<1> QED
  BY <1>2, <1>3, <1>4 DEF Check, CreateFile

LEMMA HeldExecute ==
  HeldIInv /\ (Execute \/ ReceiveError) => HeldInv' /\ HeldDescriptors'
<1> SUFFICES ASSUME HeldIInv, Execute \/ ReceiveError
             PROVE  HeldInv' /\ HeldDescriptors'
  OBVIOUS
<1>1. CASE Sleep
  <2>1. call \in Calls
    BY <1>1, CallIsAnObject DEF Sleep, HeldIInv
  <2>2. executors[call].savePath = NoPath
    BY <1>1 DEF Sleep, HeldIInv, HeldInv, This
  <2>3. \A d \in open : d[1] = call => d[2] \notin {"socket", "file"}
    BY <1>1 DEF Sleep, HeldIInv, HeldInv, Ended
  <2> QED
    BY <1>1, <2>1, <2>2, <2>3, HeldGoes DEF Sleep, Ended
<1>2. CASE ReceiveError \/ ReceiveEnd
  <2>1. /\ call \in Calls /\ pc = "receive" /\ UNCHANGED <<call, executors>>
    BY <1>2, CallIsAnObject DEF ReceiveError, ReceiveEnd, HeldIInv
  <2>2. CASE ReceiveError
    BY <2>1, <2>2, HeldGoes DEF ReceiveError, Ended
  <2>3. CASE ReceiveEnd
    <3>1. open' = open \ {File, Socket} /\ pc' = "extract"
      BY <2>3 DEF ReceiveEnd
    <3>2. ASSUME NEW d \in open', d[1] = call PROVE d[2] \notin {"socket", "file"}
      <4>1. d = <<d[1], d[2]>>
        BY <3>1 DEF HeldIInv, TypeOK
      <4> QED
        BY <3>1, <3>2, <4>1 DEF File, Socket
    <3> QED
      BY <2>1, <3>1, <3>2, HeldGoes DEF Ended
  <2> QED
    BY <1>2, <2>2, <2>3
<1>3. CASE ExtractFile
  <2>1. call \in Calls /\ pc = "extract" /\ UNCHANGED <<call, open>>
    BY <1>3, CallIsAnObject DEF ExtractFile, HeldIInv
  <2>2. CASE pc' = "opendir" /\ UNCHANGED executors
    <3>1. \A d \in open : d[1] = call => d[2] \notin {"socket", "file"}
      BY <2>1 DEF HeldIInv, HeldInv, Ended
    <3> QED
      BY <2>1, <2>2, <3>1, HeldGoes DEF Ended
  <2>3. CASE Return(FALSE) \/ Throw
    BY <2>1, <2>3, HeldEnds DEF Return, Throw, Ended
  <2> QED
    BY <1>3, <2>2, <2>3 DEF ExtractFile
<1>4. CASE OpenDirectory
  <2>1. call \in Calls /\ pc = "opendir" /\ UNCHANGED call
    BY <1>4, CallIsAnObject DEF OpenDirectory, HeldIInv
  <2>2. CASE open' = open \cup {Directory} /\ pc' = "scripts" /\ UNCHANGED executors
    <3>1. \A d \in open' : /\ d \in open \/ d[1] = call
                           /\ d[1] = call => d[2] \notin {"socket", "file"}
      BY <2>1, <2>2 DEF HeldIInv, HeldInv, Ended, Directory
    <3> QED
      BY <2>1, <2>2, <3>1, HeldGoes DEF Ended
  <2>3. CASE Return(FALSE) /\ UNCHANGED open
    BY <2>1, <2>3, HeldEnds DEF Return, Ended
  <2> QED
    BY <1>4, <2>2, <2>3 DEF OpenDirectory
<1>5. CASE RunScript
  <2>1. call \in Calls /\ pc = "scripts" /\ UNCHANGED <<call, open>>
    BY <1>5, CallIsAnObject DEF RunScript, HeldIInv
  <2>2. CASE Return(FALSE)
    BY <2>1, <2>2, HeldEnds DEF Return, Ended
  <2>3. ASSUME NEW e \in remaining,
               executors' \in {executors, [executors EXCEPT ![call].detail = e.script]},
               UNCHANGED pc
        PROVE  HeldInv' /\ HeldDescriptors'
    <3>1. \A c \in Calls : /\ executors'[c].result = executors[c].result
                           /\ c # call => executors'[c] = executors[c]
      BY <2>3 DEF HeldIInv, TypeOK, Objects
    <3>2. \A d \in open : d[1] = call => d[2] \notin {"socket", "file"}
      BY <2>1 DEF HeldIInv, HeldInv, Ended
    <3> QED
      BY <2>1, <2>3, <3>1, <3>2, HeldGoes DEF Ended
  <2> QED
    BY <1>5, <2>2, <2>3 DEF RunScript, RunPolicyScript, RunInspectionScript
<1>6. CASE ScriptThrows \/ EndPolicy \/ RemoveFile
  <2>1. call \in Calls /\ pc = "scripts" /\ UNCHANGED <<call, open>>
    BY <1>6, CallIsAnObject DEF ScriptThrows, EndPolicy, RemoveFile, HeldIInv
  <2>2. PICK result \in {"true", "false", "exception"} : End(result)
    BY <1>6 DEF ScriptThrows, EndPolicy, RemoveFile, Return, Throw
  <2> QED
    BY <2>1, <2>2, HeldEnds DEF Ended
<1> QED
  BY <1>1, <1>2, <1>3, <1>4, <1>5, <1>6, HeldConnect, HeldCheck DEF Execute

LEMMA HeldNext == HeldIInv /\ [Next]_vars => HeldInv' /\ HeldDescriptors'
<1> SUFFICES ASSUME HeldIInv, [Next]_vars PROVE HeldInv' /\ HeldDescriptors'
  OBVIOUS
<1>1. CASE Tick \/ UNCHANGED vars
  BY <1>1 DEF Tick, vars, HeldIInv, HeldInv, HeldDescriptors, This
<1>2. CASE Kill
  BY <1>2, HeldDies DEF Kill
<1>3. CASE Restart
  BY <1>3 DEF Restart, HeldIInv, HeldInv, HeldDescriptors, Ended
<1> QED
  BY <1>1, <1>2, <1>3, HeldNewExecutor, HeldExecute DEF Next

(* What a call that has ended still holds is the stream of its directory,  *)
(* or its socket if the file server had no such file, after any failures   *)
(* and restarts (CExecutor.cpp:34-38, 87-90, 108-109).                     *)
THEOREM DescriptorsHeld == Spec => []HeldDescriptors
<1>1. Spec => [](HeldInv /\ HeldDescriptors)
  BY ExecutorTypeCorrect, HeldInit, HeldNext, PTL DEF Spec, HeldIInv
<1> QED
  BY <1>1, PTL

-----------------------------------------------------------------------------
(***************************************************************************)
(* What a RESPONSE that says true means.  The directory of a call is empty *)
(* until tar fills it with all of an archive that came whole; from then on *)
(* the scripts of the archive are those that were run and those that       *)
(* readdir has still to return.                                            *)
(***************************************************************************)
Download == {"sleep", "connect", "check", "receive", "extract", "opendir"}

RanBy(c, s) == \E r \in ran : r.call = c /\ r.script = s

Waits(s) == \E e \in remaining : e.script = s

Unpacked(s) == \E e \in dirs[This.savePath] : e.script = s

(* TrueMeansDone of one call. *)
Done(c) ==
  executors[c].result = "true" =>
    /\ executors[c].exists
    /\ \A s : RanBy(c, s) <=>
              s \in executors[c].scripts \cap Matching(executors[c].kind)
    /\ executors[c].kind = "INSPECTION_REQUEST" =>
         /\ \A r \in ran : r.call = c => r.succeeded
         /\ executors[c].detail = Nothing \/ RanBy(c, executors[c].detail)
         /\ executors[c].savePath \notin DOMAIN dirs

PathsInv ==
  /\ \A c \in Calls : executors[c].savePath <= now
  /\ pc \in {"sleep", "connect", "check"} =>
       \A c \in Calls : executors[c].savePath <= began

DownloadInv ==
  /\ \A r \in ran : r.call <= call
  /\ pc \in Download =>
       This.detail = Nothing /\ \A r \in ran : r.call # call
  /\ pc \in {"receive", "extract"} =>
       /\ dirs[This.savePath] = {}
       /\ ~damaged => This.exists
  /\ pc = "opendir" =>
       This.exists /\ \A s : Unpacked(s) <=> s \in This.scripts

ScriptsInv ==
  pc = "scripts" =>
    /\ This.exists
    /\ \A s : s \in This.scripts \cap Matching(kind) <=> Waits(s) \/ RanBy(call, s)
    /\ kind = "INSPECTION_REQUEST" =>
         /\ \A r \in ran : r.call = call => r.succeeded
         /\ This.detail = Nothing \/ RanBy(call, This.detail)

DoneInv ==
  /\ PathsInv /\ DownloadInv /\ ScriptsInv
  /\ \A c \in Calls : Done(c)

DoneIInv == OwnIInv /\ HeldInv /\ DoneInv

LEMMA DoneIsTrueMeansDone ==
  ASSUME \A c \in Calls : Done(c)
  PROVE  TrueMeansDone
<1> SUFFICES ASSUME NEW c \in Calls, executors[c].result = "true"
             PROVE  LET x == executors[c]
                        mine == {r \in ran : r.call = c}
                    IN  /\ x.exists
                        /\ {r.script : r \in mine} = x.scripts \cap Matching(x.kind)
                        /\ x.kind = "INSPECTION_REQUEST" =>
                             /\ \A r \in mine : r.succeeded
                             /\ x.detail \in {Nothing} \cup {r.script : r \in mine}
                             /\ x.savePath \notin DOMAIN dirs
  BY DEF TrueMeansDone
<1> DEFINE mine == {r \in ran : r.call = c}
<1>1. \A s : s \in {r.script : r \in mine} <=> RanBy(c, s)
  BY DEF RanBy
<1>2. Done(c)
  OBVIOUS
<1>3. {r.script : r \in mine} = executors[c].scripts \cap Matching(executors[c].kind)
  BY <1>1, <1>2 DEF Done
<1> QED
  BY <1>1, <1>2, <1>3 DEF Done

LEMMA DoneInit == Init => DoneInv
BY ExecutorAssumption DEF Init, DoneInv, PathsInv, DownloadInv, ScriptsInv, Done,
   Unborn, Object, NoPath, Download

(* A call that was done stays so, while others run their scripts and make  *)
(* or remove their directories.                                            *)
LEMMA DoneStays ==
  ASSUME NEW c \in Calls, Done(c), executors'[c] = executors[c],
         ran \subseteq ran', \A r \in ran' : r \in ran \/ r.call # c,
         executors[c].savePath \in DOMAIN dirs' => executors[c].savePath \in DOMAIN dirs
  PROVE  Done(c)'
<1>1. \A s : RanBy(c, s)' <=> RanBy(c, s)
  BY DEF RanBy
<1> QED
  BY <1>1 DEF Done, Matching

(* A step of the call that runs, which is not done before it ends.         *)
LEMMA OthersStayDone ==
  ASSUME DoneIInv, call \in Calls, pc \notin Ended,
         \A c \in Calls : c # call => executors'[c] = executors[c],
         executors'[call].result # "true",
         ran \subseteq ran', \A r \in ran' : r \in ran \/ r.call = call,
         DOMAIN dirs' \subseteq DOMAIN dirs \cup {now},
         pc # "check" => DOMAIN dirs' \subseteq DOMAIN dirs
  PROVE  \A c \in Calls : Done(c)'
<1> SUFFICES ASSUME NEW c \in Calls PROVE Done(c)'
  OBVIOUS
<1>1. CASE c = call
  BY <1>1 DEF Done
<1>2. CASE c # call
  <2>1. executors[c].savePath \in DOMAIN dirs' => executors[c].savePath \in DOMAIN dirs
    <3>1. CASE pc = "check"
      <4>1. executors[c].savePath <= began /\ began < now
        BY <3>1 DEF DoneIInv, DoneInv, PathsInv, OwnIInv, OwnInv
      <4>2. executors[c].savePath \in Int /\ began \in Int /\ now \in Int
        BY ExecutorAssumption DEF DoneIInv, OwnIInv, TypeOK, Objects
      <4> QED
        BY <4>1, <4>2
    <3> QED
      BY <3>1
  <2> QED
    BY <1>2, <2>1, DoneStays DEF DoneIInv, DoneInv
<1> QED
  BY <1>1, <1>2

(* The end of a call, or of the process, that is not a success.            *)
LEMMA DoneFails ==
  ASSUME DoneIInv, call \in Calls, pc \notin Ended, pc' \in Ended,
         \A c \in Calls : /\ executors'[c].savePath = executors[c].savePath
                          /\ c # call => executors'[c] = executors[c],
         executors'[call].result # "true",
         ran \subseteq ran', \A r \in ran' : r \in ran \/ r.call = call,
         DOMAIN dirs' \subseteq DOMAIN dirs, UNCHANGED <<call, now>>
  PROVE  DoneInv'
<1>1. \A c \in Calls : Done(c)'
  BY OthersStayDone
<1>2. PathsInv'
  BY DEF DoneIInv, DoneInv, PathsInv, Ended
<1>3. call \in Int
  BY ExecutorAssumption DEF Calls
<1>4. DownloadInv' /\ ScriptsInv'
  BY <1>3 DEF DoneIInv, DoneInv, DownloadInv, ScriptsInv, Ended, Download
<1> QED
  BY <1>1, <1>2, <1>4 DEF DoneInv

LEMMA EndIs ==
  ASSUME DoneIInv, call \in Calls, NEW result, End(result)
  PROVE  /\ pc' = "idle" /\ executors'[call].result = result
         /\ \A c \in Calls : c # call => executors'[c] = executors[c]
         /\ \A c \in Calls :
              /\ executors'[c].savePath = executors[c].savePath
              /\ executors'[c].exists = executors[c].exists
              /\ executors'[c].scripts = executors[c].scripts
              /\ executors'[c].kind = executors[c].kind
              /\ executors'[c].detail = executors[c].detail
  BY DEF End, DoneIInv, OwnIInv, TypeOK, Objects

LEMMA DoneDies ==
  ASSUME DoneIInv, Die, UNCHANGED <<call, now, dirs, ran>>
  PROVE  DoneInv'
<1>0. call' = call /\ now' = now /\ dirs' = dirs /\ ran' = ran
  OBVIOUS
<1>1. /\ pc' = "dead"
      /\ \A c \in Calls :
           /\ executors'[c].savePath = executors[c].savePath
           /\ (executors'[c].result = "true") =>
                  (executors'[c] = executors[c])
  BY DEF Die, DoneIInv, OwnIInv, TypeOK, Objects
<1>2. ASSUME NEW c \in Calls PROVE Done(c)'
  <2>1. CASE executors'[c].result = "true"
    <3>1. Done(c)
      BY DEF DoneIInv, DoneInv
    <3> QED
      BY <1>0, <1>1, <2>1, <3>1, DoneStays
  <2>2. CASE executors'[c].result # "true"
    BY <2>2 DEF Done
  <2> QED
    BY <2>1, <2>2
<1>3. PathsInv'
  BY <1>0, <1>1 DEF DoneIInv, DoneInv, PathsInv
<1>4. DownloadInv' /\ ScriptsInv'
  BY <1>0, <1>1 DEF DoneIInv, DoneInv, DownloadInv, ScriptsInv, Download
<1> QED
  BY <1>2, <1>3, <1>4 DEF DoneInv

LEMMA RunningCall ==
  ASSUME DoneIInv, pc \notin Ended
  PROVE  /\ call \in Calls /\ call \in Int
         /\ executors[call].result = "running"
         /\ executors[call].kind \in Kinds \cup {"none"}
BY CallIsAnObject DEF DoneIInv, OwnIInv, HeldInv, Ended, Calls, Objects

LEMMA DoneNewExecutor == DoneIInv /\ NewExecutor => DoneInv'
<1> SUFFICES ASSUME DoneIInv, NewExecutor PROVE DoneInv'
  OBVIOUS
<1>1. PICK k \in Kinds, exists \in BOOLEAN, scripts \in SUBSET Scripts :
        executors' = [executors EXCEPT
                         ![call'] = Object(k, exists, scripts, "running")]
  BY DEF NewExecutor
<1>2. /\ call' = call + 1 /\ call' \in Calls /\ call \in Int
      /\ now' = now /\ now \in Int /\ now > 0
      /\ dirs' = dirs /\ ran' = ran /\ pc' = "sleep" /\ began' = now
  BY ExecutorAssumption DEF NewExecutor, DoneIInv, OwnIInv, TypeOK, Calls
<1>3. executors'[call'] = Object(k, exists, scripts, "running")
  BY <1>1, <1>2 DEF DoneIInv, OwnIInv, TypeOK
<1>4. \A c \in Calls : c # call' => executors'[c] = executors[c]
  BY <1>1, <1>2 DEF DoneIInv, OwnIInv, TypeOK
<1>5. ASSUME NEW c \in Calls PROVE Done(c)'
  <2>1. CASE c = call'
    BY <1>3, <2>1 DEF Done, Object
  <2>2. CASE c # call'
    BY <1>2, <1>4, <2>2, DoneStays DEF DoneIInv, DoneInv
  <2> QED
    BY <2>1, <2>2
<1>6. PathsInv'
  <2>1. ASSUME NEW c \in Calls PROVE executors'[c].savePath <= now
    <3>1. CASE c = call'
      BY <1>2, <1>3, <3>1 DEF Object, NoPath
    <3>2. CASE c # call'
      BY <1>4, <3>2 DEF DoneIInv, DoneInv, PathsInv
    <3> QED
      BY <3>1, <3>2
  <2> QED
    BY <1>2, <2>1 DEF PathsInv
<1>7. DownloadInv'
  <2>1. \A r \in ran : r.call <= call /\ r.call \in Int
    BY DEF DoneIInv, DoneInv, DownloadInv, OwnIInv, TypeOK, Runs, Calls
  <2> QED
    BY <1>2, <1>3, <2>1 DEF DownloadInv, Download, This, Object
<1>8. ScriptsInv'
  BY <1>2 DEF ScriptsInv
<1> QED
  BY <1>5, <1>6, <1>7, <1>8 DEF DoneInv

(* What the call does before it runs the scripts. *)
LEMMA DoneDownloads ==
  ASSUME DoneIInv, Sleep \/ Connect \/ ReceiveError \/ ReceiveEnd
  PROVE  DoneInv'
<1>0. pc \notin Ended
  BY DEF Sleep, Connect, ReceiveError, ReceiveEnd, Ended
<1>1. /\ call \in Calls /\ executors[call].result = "running"
      /\ call' = call /\ now' = now /\ began' = began
      /\ dirs' = dirs /\ ran' = ran
  BY <1>0, RunningCall DEF Sleep, Connect, ReceiveError, ReceiveEnd, local
<1>2. CASE Return(FALSE) /\ Connect
  <2>1. End("false")
    BY <1>2 DEF Return
  <2> QED
    BY <1>0, <1>1, <2>1, EndIs, DoneFails DEF Ended
<1>3. CASE executors' = executors
  <2>1. \A c \in Calls : Done(c)'
    BY <1>0, <1>1, <1>3, OthersStayDone
  <2>2. PathsInv' /\ ScriptsInv'
    BY <1>1, <1>3 DEF DoneIInv, DoneInv, PathsInv, ScriptsInv,
       Sleep, Connect, ReceiveError, ReceiveEnd, Return, End, Ended
  <2>3. DownloadInv'
    BY <1>1, <1>3 DEF DoneIInv, DoneInv, DownloadInv, This, Download,
       Sleep, Connect, ReceiveError, ReceiveEnd, Return, End, OwnIInv, TypeOK
  <2> QED
    BY <2>1, <2>2, <2>3 DEF DoneInv
<1> QED
  BY <1>2, <1>3 DEF Sleep, Connect, ReceiveError, ReceiveEnd

(* The directory is new, and so it is empty. *)
LEMMA DoneCheck == DoneIInv /\ Check => DoneInv'
<1> SUFFICES ASSUME DoneIInv, Check PROVE DoneInv'
  OBVIOUS
<1>1. PICK short \in BOOLEAN, check \in BOOLEAN :
        IF check THEN CreateFile(short) ELSE NotExists
  BY DEF Check
<1>2. /\ pc = "check" /\ pc \notin Ended
      /\ call' = call /\ now' = now /\ began' = began /\ ran' = ran
  BY DEF Check, Ended
<1>3. call \in Calls /\ executors[call].result = "running"
  BY <1>2, RunningCall
<1>4. CASE NotExists
  <2>1. End("false") /\ dirs' = dirs
    BY <1>4 DEF NotExists, Return
  <2> QED
    BY <1>2, <1>3, <2>1, EndIs, DoneFails DEF Ended
<1>5. CASE Die /\ UNCHANGED <<damaged, dirs>>
  BY <1>2, <1>5, DoneDies
<1>6. CASE /\ executors' = [executors EXCEPT ![call].savePath = now]
           /\ dirs' = IF now \in DOMAIN dirs THEN dirs
                      ELSE [d \in DOMAIN dirs \cup {now} |->
                              IF d = now THEN {} ELSE dirs[d]]
           /\ damaged' = (short \/ ~This.exists)
           /\ pc' = "receive"
  <2>1. /\ now \notin DOMAIN dirs /\ now \in Int
        /\ \A c \in Calls : executors[c].savePath \in Int
    <3>1. /\ \A d \in DOMAIN dirs : d <= began
          /\ began < now /\ began \in Int /\ now \in Int
      BY <1>2, ExecutorAssumption DEF DoneIInv, OwnIInv, OwnInv, TypeOK
    <3>2. DOMAIN dirs \subseteq Int
      BY ExecutorAssumption DEF DoneIInv, OwnIInv, TypeOK, DirsType
    <3>3. \A c \in Calls : executors[c].savePath \in Int
      BY ExecutorAssumption DEF DoneIInv, OwnIInv, TypeOK, Objects
    <3> QED
      BY <3>1, <3>2, <3>3
  <2>2. dirs' = [d \in DOMAIN dirs \cup {now} |-> IF d = now THEN {} ELSE dirs[d]]
    BY <1>6, <2>1
  <2>3. /\ \A c \in Calls : c # call => executors'[c] = executors[c]
        /\ executors'[call].savePath = now
        /\ executors'[call].result = "running"
        /\ executors'[call].detail = executors[call].detail
        /\ executors'[call].exists = executors[call].exists
    BY <1>3, <1>6 DEF DoneIInv, OwnIInv, TypeOK, Objects
  <2>4. \A c \in Calls : Done(c)'
    BY <1>2, <1>3, <2>2, <2>3, OthersStayDone
  <2>5. PathsInv'
    <3>1. ASSUME NEW c \in Calls PROVE executors'[c].savePath <= now
      BY <2>1, <2>3 DEF DoneIInv, DoneInv, PathsInv
    <3> QED
      BY <1>2, <1>6, <3>1 DEF PathsInv
  <2>6. DownloadInv'
    <3>1. dirs'[now] = {}
      BY <2>2
    <3>2. This.detail = Nothing /\ \A r \in ran : r.call # call
      BY <1>2 DEF DoneIInv, DoneInv, DownloadInv, Download
    <3>3. \A r \in ran : r.call <= call
      BY DEF DoneIInv, DoneInv, DownloadInv
    <3> QED
      BY <1>2, <1>6, <2>3, <3>1, <3>2, <3>3 DEF DownloadInv, This
  <2>7. ScriptsInv'
    BY <1>6 DEF ScriptsInv
  <2> QED
    BY <2>4, <2>5, <2>6, <2>7 DEF DoneInv
<1> QED
  BY <1>1, <1>4, <1>5, <1>6 DEF CreateFile

(* tar fills it with all of an archive that came whole, or the call fails. *)
LEMMA DoneExtractFile == DoneIInv /\ ExtractFile => DoneInv'
<1> SUFFICES ASSUME DoneIInv, ExtractFile PROVE DoneInv'
  OBVIOUS
<1>1. /\ pc = "extract" /\ pc \notin Ended
      /\ call' = call /\ now' = now /\ began' = began /\ ran' = ran
  BY DEF ExtractFile, Ended, local
<1>2. call \in Calls /\ executors[call].result = "running"
  BY <1>1, RunningCall
<1>3. DOMAIN dirs' = DOMAIN dirs
  BY DEF ExtractFile, Unpack
<1>4. CASE End("false") \/ End("exception")
  BY <1>1, <1>2, <1>3, <1>4, EndIs, DoneFails DEF Ended
<1>5. CASE /\ ~damaged /\ Unpack(This.scripts)
           /\ pc' = "opendir" /\ executors' = executors
  <2>1. \A c \in Calls : Done(c)'
    BY <1>1, <1>2, <1>3, <1>5, OthersStayDone
  <2>2. PathsInv' /\ ScriptsInv'
    BY <1>1, <1>5 DEF DoneIInv, DoneInv, PathsInv, ScriptsInv
  <2>3. DownloadInv'
    <3>1. dirs[This.savePath] = {} /\ This.exists /\ This.savePath \in DOMAIN dirs
      BY <1>1, <1>5 DEF DoneIInv, DoneInv, DownloadInv, OwnIInv, TypeOK, Working
    <3>2. dirs'[This.savePath] = {[owner |-> call, script |-> s] : s \in This.scripts}
      BY <1>5, <3>1 DEF Unpack
    <3>3. \A s : Unpacked(s)' <=> s \in This.scripts
      <4>1. This' = This
        BY <1>1, <1>5 DEF This
      <4>2. ASSUME NEW s, Unpacked(s)' PROVE s \in This.scripts
        <5>1. PICK e \in {[owner |-> call, script |-> x] : x \in This.scripts} :
                e.script = s
          BY <3>2, <4>1, <4>2 DEF Unpacked
        <5> QED
          BY <5>1
      <4>3. ASSUME NEW s \in This.scripts PROVE Unpacked(s)'
        <5>1. [owner |-> call, script |-> s] \in dirs'[This'.savePath]
          BY <3>2, <4>1
        <5>2. [owner |-> call, script |-> s].script = s
          OBVIOUS
        <5> QED
          BY <5>1, <5>2 DEF Unpacked
      <4> QED
        BY <4>2, <4>3
    <3>4. /\ \A r \in ran : r.call <= call
          /\ This.detail = Nothing /\ \A r \in ran : r.call # call
      BY <1>1 DEF DoneIInv, DoneInv, DownloadInv, Download
    <3> QED
      BY <1>1, <1>5, <3>1, <3>3, <3>4 DEF DownloadInv, This
  <2> QED
    BY <2>1, <2>2, <2>3 DEF DoneInv
<1> QED
  BY <1>4, <1>5 DEF ExtractFile, Return, Throw

LEMMA DoneOpenDirectory == DoneIInv /\ OpenDirectory => DoneInv'
<1> SUFFICES ASSUME DoneIInv, OpenDirectory PROVE DoneInv'
  OBVIOUS
<1>1. /\ pc = "opendir" /\ pc \notin Ended /\ dirs' = dirs
      /\ call' = call /\ now' = now /\ began' = began /\ ran' = ran
  BY DEF OpenDirectory, Ended
<1>2. call \in Calls /\ executors[call].result = "running"
  BY <1>1, RunningCall
<1>3. CASE End("false")
  BY <1>1, <1>2, <1>3, EndIs, DoneFails DEF Ended
<1>4. CASE /\ remaining' = {e \in dirs[This.savePath] : e.script \in Matching(kind)}
           /\ pc' = "scripts" /\ executors' = executors
  <2>1. \A c \in Calls : Done(c)'
    BY <1>1, <1>2, <1>4, OthersStayDone
  <2>2. PathsInv' /\ DownloadInv'
    BY <1>1, <1>4 DEF DoneIInv, DoneInv, PathsInv, DownloadInv, Download
  <2>3. ScriptsInv'
    <3>1. /\ This.exists /\ \A s : Unpacked(s) <=> s \in This.scripts
          /\ This.detail = Nothing /\ \A r \in ran : r.call # call
      BY <1>1 DEF DoneIInv, DoneInv, DownloadInv, Download
    <3>2. \A s : Waits(s)' <=> s \in This.scripts \cap Matching(kind)
      BY <1>4, <3>1 DEF Waits, Unpacked
    <3>3. \A s : ~RanBy(call, s)'
      BY <1>1, <3>1 DEF RanBy
    <3>4. UNCHANGED <<This, kind, call, ran>>
      BY <1>1, <1>4 DEF This, kind
    <3> QED
      BY <3>1, <3>2, <3>3, <3>4 DEF ScriptsInv, Matching
  <2> QED
    BY <2>1, <2>2, <2>3 DEF DoneInv
<1> QED
  BY <1>3, <1>4 DEF OpenDirectory, Return

(* The script moves from those that wait to those that were run. *)
LEMMA DoneRunScript == DoneIInv /\ RunScript => DoneInv'
<1> SUFFICES ASSUME DoneIInv, RunScript PROVE DoneInv'
  OBVIOUS
<1>1. PICK e \in remaining : RunPolicyScript(e) \/ RunInspectionScript(e)
  BY DEF RunScript
<1>2. /\ pc = "scripts" /\ pc \notin Ended /\ dirs' = dirs
      /\ call' = call /\ now' = now /\ began' = began
  BY DEF RunScript, Ended
<1>3. /\ call \in Calls /\ call \in Int /\ executors[call].result = "running"
      /\ call <= call
  BY <1>2, RunningCall
<1>4. \A f \in remaining : f \in Entries /\ f.owner = call
  BY <1>2 DEF DoneIInv, OwnIInv, OwnInv, TypeOK
<1>5. ASSUME NEW ok \in BOOLEAN, Run(e, ok)
      PROVE  /\ ran \subseteq ran'
             /\ \A r \in ran' : r \in ran \/ (r.call = call /\ r.succeeded = ok)
             /\ \A s : Waits(s)' \/ RanBy(call, s)' <=> Waits(s) \/ RanBy(call, s)
             /\ \A s : RanBy(call, s) => RanBy(call, s)'
             /\ RanBy(call, e.script)'
  <2> DEFINE new == [call |-> call, owner |-> e.owner, script |-> e.script,
                     succeeded |-> ok]
  <2>1. ran' = ran \cup {new} /\ remaining' = remaining \ {e}
    BY <1>5 DEF Run
  <2>2. new.call = call /\ new.script = e.script /\ new.succeeded = ok
    OBVIOUS
  <2> HIDE DEF new
  <2>3. \A s : RanBy(call, s)' <=> RanBy(call, s) \/ s = e.script
    BY <1>2, <2>1, <2>2 DEF RanBy
  <2>4. \A s : Waits(s) <=> Waits(s)' \/ s = e.script
    BY <2>1 DEF Waits
  <2> QED
    BY <2>1, <2>2, <2>3, <2>4
<1>6. CASE /\ Run(e, FALSE) /\ End("false")
  <2>1. ran \subseteq ran' /\ \A r \in ran' : r \in ran \/ r.call = call
    BY <1>5, <1>6
  <2> QED
    BY <1>2, <1>3, <1>6, <2>1, EndIs, DoneFails DEF Ended
<1>7. ASSUME NEW ok \in BOOLEAN, Run(e, ok), pc' = pc,
             kind = "INSPECTION_REQUEST" => ok,
             executors' \in {executors, [executors EXCEPT ![call].detail = e.script]}
      PROVE  DoneInv'
  <2>1. /\ \A c \in Calls : c # call => executors'[c] = executors[c]
        /\ \A c \in Calls : executors'[c].savePath = executors[c].savePath
        /\ executors'[call].result = "running"
        /\ executors'[call].exists = executors[call].exists
        /\ executors'[call].kind = executors[call].kind
        /\ executors'[call].scripts = executors[call].scripts
        /\ executors'[call].detail \in {executors[call].detail, e.script}
    BY <1>3, <1>7 DEF DoneIInv, OwnIInv, TypeOK, Objects
  <2>2. \A r \in ran' : r \in ran \/ (r.call = call /\ r.succeeded = ok)
    BY <1>5, <1>7
  <2>3. \A c \in Calls : Done(c)'
    BY <1>2, <1>3, <1>5, <1>7, <2>1, <2>2, OthersStayDone
  <2>4. PathsInv'
    BY <1>2, <1>7, <2>1 DEF DoneIInv, DoneInv, PathsInv
  <2>5. DownloadInv'
    BY <1>2, <1>3, <1>7, <2>2 DEF DoneIInv, DoneInv, DownloadInv, Download
  <2>6. ScriptsInv'
    <3>1. /\ This'.exists = This.exists /\ kind' = kind
          /\ This'.scripts = This.scripts
          /\ This'.detail \in {This.detail, e.script}
      BY <1>2, <2>1 DEF This, kind
    <3>2. /\ This.exists
          /\ \A s : s \in This.scripts \cap Matching(kind) <=>
                    Waits(s) \/ RanBy(call, s)
          /\ kind = "INSPECTION_REQUEST" =>
               /\ \A r \in ran : r.call = call => r.succeeded
               /\ This.detail = Nothing \/ RanBy(call, This.detail)
      BY <1>2 DEF DoneIInv, DoneInv, ScriptsInv
    <3>3. \A s : s \in (This.scripts \cap Matching(kind))' <=>
                   Waits(s)' \/ RanBy(call, s)'
      <4>1. (This.scripts \cap Matching(kind))' = This.scripts \cap Matching(kind)
        BY <3>1 DEF Matching
      <4> QED
        BY <1>5, <1>7, <3>2, <4>1
    <3>4. ASSUME kind = "INSPECTION_REQUEST"
          PROVE  /\ \A r \in ran' : r.call = call => r.succeeded
                 /\ \/ This'.detail = Nothing
                    \/ \E r \in ran' : r.call = call /\ r.script = This'.detail
      <4>1. \A r \in ran' : r.call = call => r.succeeded
        BY <1>7, <2>2, <3>2, <3>4
      <4>2. This.detail = Nothing \/ RanBy(call, This.detail)
        BY <3>2, <3>4
      <4>3. ran \subseteq ran' /\ \E r \in ran' : r.call = call /\ r.script = e.script
        BY <1>2, <1>5, <1>7 DEF RanBy
      <4> QED
        BY <3>1, <4>1, <4>2, <4>3 DEF RanBy
    <3> QED
      BY <1>2, <3>1, <3>2, <3>3, <3>4 DEF ScriptsInv, RanBy
  <2> QED
    BY <2>3, <2>4, <2>5, <2>6 DEF DoneInv
<1>8. CASE RunPolicyScript(e)
  <2>1. PICK ok \in BOOLEAN : Run(e, ok)
    BY <1>8 DEF RunPolicyScript
  <2> QED
    BY <1>7, <1>8, <2>1 DEF RunPolicyScript
<1>9. CASE RunInspectionScript(e)
  BY <1>6, <1>7, <1>9 DEF RunInspectionScript, Return
<1> QED
  BY <1>1, <1>8, <1>9

(* A call ends with success: no script waits. *)
LEMMA DoneSucceeds ==
  ASSUME DoneIInv, pc = "scripts", remaining = {}, End("true"),
         DOMAIN dirs' \subseteq DOMAIN dirs,
         kind = "INSPECTION_REQUEST" => This.savePath \notin DOMAIN dirs',
         UNCHANGED <<call, now, ran>>
  PROVE  DoneInv'
<1>1. call \in Calls /\ executors[call].result = "running"
  BY RunningCall DEF Ended
<1>2. /\ pc' = "idle" /\ executors'[call].result = "true"
      /\ \A c \in Calls : c # call => executors'[c] = executors[c]
      /\ \A c \in Calls :
           /\ executors'[c].savePath = executors[c].savePath
           /\ executors'[c].exists = executors[c].exists
           /\ executors'[c].scripts = executors[c].scripts
           /\ executors'[c].kind = executors[c].kind
           /\ executors'[c].detail = executors[c].detail
  BY <1>1, EndIs
<1>3. Done(call)'
  <2>1. /\ This.exists
        /\ \A s : s \in This.scripts \cap Matching(kind) <=> RanBy(call, s)
        /\ kind = "INSPECTION_REQUEST" =>
             /\ \A r \in ran : r.call = call => r.succeeded
             /\ This.detail = Nothing \/ RanBy(call, This.detail)
    BY DEF DoneIInv, DoneInv, ScriptsInv, Waits
  <2>2. call' = call /\ ran' = ran
    OBVIOUS
  <2> QED
    BY <1>1, <1>2, <2>1, <2>2 DEF Done, RanBy, This, kind, Matching
<1>4. ASSUME NEW c \in Calls, c # call PROVE Done(c)'
  BY <1>2, <1>4, DoneStays DEF DoneIInv, DoneInv
<1>5. PathsInv'
  BY <1>2 DEF DoneIInv, DoneInv, PathsInv
<1>6. DownloadInv' /\ ScriptsInv'
  BY <1>2 DEF DoneIInv, DoneInv, DownloadInv, ScriptsInv, Download
<1> QED
  BY <1>2, <1>3, <1>4, <1>5, <1>6 DEF DoneInv

LEMMA DoneEnds ==
  ASSUME DoneIInv, ScriptThrows \/ EndPolicy \/ RemoveFile
  PROVE  DoneInv'
<1>1. /\ pc = "scripts" /\ pc \notin Ended /\ ran' = ran
      /\ call' = call /\ now' = now /\ DOMAIN dirs' \subseteq DOMAIN dirs
  BY DEF ScriptThrows, EndPolicy, RemoveFile, Ended
<1>2. call \in Calls
  BY <1>1, RunningCall
<1>3. CASE End("false") \/ End("exception")
  BY <1>1, <1>2, <1>3, EndIs, DoneFails DEF Ended
<1>4. CASE End("true") /\ EndPolicy
  BY <1>1, <1>4, DoneSucceeds DEF EndPolicy
<1>5. CASE /\ RemoveFile /\ End("true")
           /\ dirs' = [d \in DOMAIN dirs \ {This.savePath} |-> dirs[d]]
  BY <1>1, <1>5, DoneSucceeds DEF RemoveFile
<1> QED
  BY <1>3, <1>4, <1>5 DEF ScriptThrows, EndPolicy, RemoveFile, Return, Throw

LEMMA DoneNext == DoneIInv /\ [Next]_vars => DoneInv'
<1> SUFFICES ASSUME DoneIInv, [Next]_vars PROVE DoneInv'
  OBVIOUS
<1>1. CASE Tick
  <2>1. now \in Int /\ \A c \in Calls : executors[c].savePath \in Int
    BY ExecutorAssumption DEF DoneIInv, OwnIInv, TypeOK, Objects
  <2>2. \A c \in Calls : Done(c)'
    BY <1>1, DoneStays DEF Tick, DoneIInv, DoneInv
  <2> QED
    BY <1>1, <2>1, <2>2 DEF Tick, local, DoneIInv, DoneInv, PathsInv,
       DownloadInv, ScriptsInv, This, kind, Unpacked, Waits, RanBy, Matching
<1>2. CASE Restart \/ UNCHANGED vars
  <2>1. /\ UNCHANGED <<executors, call, local, now, dirs, ran>>
        /\ pc' = pc \/ pc' = "idle"
    BY <1>2 DEF Restart, vars
  <2>2. \A c \in Calls : Done(c)'
    BY <2>1, DoneStays DEF DoneIInv, DoneInv
  <2> QED
    BY <2>1, <2>2 DEF local, DoneIInv, DoneInv, PathsInv, Download,
       DownloadInv, ScriptsInv, This, kind, Unpacked, Waits, RanBy, Matching
<1>3. CASE Kill
  BY <1>3, DoneDies DEF Kill
<1> QED
  BY <1>1, <1>2, <1>3, DoneNewExecutor, DoneDownloads, DoneCheck,
     DoneExtractFile, DoneOpenDirectory, DoneRunScript, DoneEnds
     DEF Next, Execute

(* A RESPONSE that says true: the archive came whole, and exactly its      *)
(* scripts of that kind were run; an inspection's succeeded, its detail is *)
(* from one of them, and its directory is gone (CPolicy.cpp:18-59,         *)
(* CInspection.cpp:19-64).                                                 *)
THEOREM ResponsesTellTheTruth == Spec => []TrueMeansDone
<1>1. Spec => [](TypeOK /\ OwnInv /\ ScriptsAreOwn)
  BY OwnInit, OwnNext, PTL DEF Spec, OwnIInv
<1>2. Spec => [](HeldInv /\ HeldDescriptors)
  BY ExecutorTypeCorrect, HeldInit, HeldNext, PTL DEF Spec, HeldIInv
<1>3. TypeOK /\ OwnInv /\ ScriptsAreOwn /\ HeldInv /\ DoneInv /\ [Next]_vars => DoneInv'
  BY DoneNext DEF DoneIInv, OwnIInv
<1>4. Spec => []DoneInv
  BY <1>1, <1>2, <1>3, DoneInit, PTL DEF Spec
<1>5. DoneInv => TrueMeansDone
  BY DoneIsTrueMeansDone DEF DoneInv
<1> QED
  BY <1>4, <1>5, PTL
=============================================================================
