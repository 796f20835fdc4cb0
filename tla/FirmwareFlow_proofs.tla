------------------------- MODULE FirmwareFlow_proofs ------------------------
(***************************************************************************)
(* Proofs about FirmwareFlow, for any versions, packages, flows, requests  *)
(* and restarts, on devices with one slot and with two.                    *)
(***************************************************************************)
EXTENDS FirmwareFlow, TLAPS

(***************************************************************************)
(* The inductive invariant: the types, part by part, ...                   *)
(***************************************************************************)
RowTypes  == task \in Task \cup {NoTask} /\ comps \in SUBSET Versions /\ files \in SUBSET Versions
FlowTypes == flows \in [FlowIds -> Flow]
PrefTypes == savedBell \in BOOLEAN /\ nightSwitch \in BOOLEAN /\ autoSwitch \in BOOLEAN /\ bell \in BOOLEAN
ProcTypes ==
    /\ isChecking \in {"no", "yes", "expired"} /\ nightAlarm \in BOOLEAN
    /\ init \in {"restore", "boot", "up"} /\ reason \in {"PROCESS_INIT", "DEVICE_REBOOT"}
\* The installer that has no job works for nobody.
JobTypes ==
    /\ installer = Nobody \/ installer \in [job : Components, flow : FlowIds \cup {0}]
    /\ installed \in SUBSET Components
SlotTypes ==
    /\ ab \in BOOLEAN /\ running \in Versions \cup {None}
    /\ rebootReq \in [how : {"no", "reboot", "updater"}, vers : SUBSET Versions]
    /\ updaterResult \in [Versions -> {"none", "pass", "fail"}]
NoteTypes ==
    /\ notices \in SUBSET [vers : SUBSET Versions, status : {"UPDATING", "INSTALL_SUCCESS"}]
    /\ crossed \in BOOLEAN
BoundTypes == requests \in 0 .. MaxRequests /\ restarts \in 0 .. MaxRestarts

(* ... what a check inserts is a version, ...                              *)
Filling == {"insert", "insertTask"}
FillsOne == \A f \in FlowIds : flows[f].pc \in Filling => flows[f].vers # {}

(* ... the rows are of one version while no flows have crossed: a check    *)
(* that fills them found them empty, and an install that finds its         *)
(* packages read both rows of the same version, ...                        *)
One(S) == \A v, w \in S : v = w
RowsOf(f) ==
    /\ One(flows[f].vers)
    /\ flows[f].pc \in Filling => /\ task = NoTask /\ files = {} /\ comps \subseteq flows[f].vers
                                  /\ flows[f].pc = "insert" => comps = {}
    /\ flows[f].pc = "write" =>
          flows[f].vers # {} /\ (flows[f].vers \subseteq files => comps = flows[f].vers)
    /\ flows[f].pc = "legal" =>
          /\ flows[f].vers # {}
          /\ flows[f].tid # None /\ flows[f].vers \subseteq files => flows[f].vers = {flows[f].tid}
RowsAgree ==
    ~crossed =>
       /\ One(comps) /\ (task # NoTask => comps \subseteq {task.ver})
       /\ \A f \in FlowIds : RowsOf(f)
       /\ \A f, g \in FlowIds : flows[f].pc \in Filling /\ flows[g].pc \in Filling => f = g

(* ... an install that goes well has nothing left out: each package is     *)
(* installed, still to do, or the one the installer works on for it.  The  *)
(* installer is done with a package before the next is begun: a report     *)
(* that comes between them follows a timeout, and then not all is well,    *)
(* ...                                                                     *)
Packages(v) == {v} \X (1 .. NumComponents)
Installs(f) ==
    /\ flows[f].pc \in {"next", "ready"} =>
          installer.flow # f /\ Packages(flows[f].tid) \subseteq installed \cup flows[f].todo
    /\ flows[f].pc = "ready" => flows[f].progress # "INSTALL_SUCCESS"
    /\ flows[f].pc = "done" => Packages(flows[f].tid) \subseteq installed
    /\ flows[f].pc = "wait" =>
          /\ flows[f].progress = "INSTALL_SUCCESS"
                => installer.flow # f /\ Packages(flows[f].tid) \subseteq installed \cup flows[f].todo
          /\ installer.flow = f
                => Packages(flows[f].tid) \subseteq installed \cup flows[f].todo \cup {installer.job}
NothingLeftOut ==
    \A f \in FlowIds :
       /\ flows[f].pc = "updater" => ~ab
       /\ ab /\ ~crossed /\ flows[f].ok /\ flows[f].tid # None => Installs(f)

(* ... and the updater tells the truth.                                    *)
UpdaterIsTruthful ==
    \A v \in Versions : updaterResult[v] = "pass" \/ running = v => Packages(v) \subseteq installed

FlowInv ==
    /\ RowTypes /\ FlowTypes /\ PrefTypes /\ ProcTypes /\ JobTypes /\ SlotTypes /\ NoteTypes /\ BoundTypes
    /\ FillsOne /\ RowsAgree /\ NothingLeftOut /\ UpdaterIsTruthful
    /\ SuccessIsInstalled /\ NoticeIsTruthful

(* Beside it: a slot nobody has is idle, and the installer works for       *)
(* nobody but an install that has begun and is not over.                   *)
Working == {"next", "ready", "wait", "done", "after", "after2", "apply", "rebooting"}
JobIsOfInstall ==
    \A f \in FlowIds : /\ flows[f].kind = "none" => flows[f].pc = "idle"
                       /\ installer.flow = f => flows[f].pc \in Working

-----------------------------------------------------------------------------
(* The operators the specification is built from                           *)

(* A row has a version, no row has none.                                   *)
LEMMA TaskFacts ==
    /\ NoTask.ver = None /\ NoTask.status = "INIT" /\ NoTask \notin Task
    /\ RowTypes => /\ task # NoTask => task \in Task /\ task.ver \in Versions /\ task.ver # None
                   /\ task.status # "INIT" => task # NoTask
<1>1. NoTask.ver = None /\ NoTask.status = "INIT"
  BY DEF NoTask
<1>2. NoTask \notin Task
  BY <1>1, FlowAssumption DEF Task
<1>3. ASSUME RowTypes, task # NoTask PROVE task \in Task /\ task.ver \in Versions /\ task.ver # None
  BY <1>3, FlowAssumption DEF RowTypes, Task
<1>4. QED BY <1>1, <1>2, <1>3

(* The rows stay as they are but for a status or a mode.                   *)
RowsStay ==
    /\ UNCHANGED <<comps, files>> /\ task'.ver = task.ver
    /\ task = NoTask => task' = NoTask
    /\ task # NoTask => task' # NoTask
RowsClear == task' = NoTask /\ comps' = {} /\ files' = {}

(* A new status is written to the row of the version, if it is there.      *)
LEMMA UpdateEffect ==
    ASSUME RowTypes, NEW tid, NEW status \in Status, UpdateStatusByTaskId(tid, status)
    PROVE  /\ task' \in Task \cup {NoTask} /\ task'.ver = task.ver
           /\ task = NoTask => task' = NoTask
           /\ task # NoTask => task' # NoTask
           /\ task' = task \/ (task'.status = status /\ task.ver = tid /\ task # NoTask)
<1>1. CASE task.ver = tid /\ task # NoTask
  <2>1. task \in Task /\ task' = [task EXCEPT !.status = status]
    BY <1>1, TaskFacts DEF UpdateStatusByTaskId, isExistTask
  <2>2. task' \in Task /\ task'.ver = task.ver /\ task'.status = status
    BY <2>1 DEF Task
  <2>3. QED BY <1>1, <2>2, TaskFacts
<1>2. CASE ~(task.ver = tid /\ task # NoTask)
  <2>1. task' = task
    BY <1>2 DEF UpdateStatusByTaskId, isExistTask
  <2>2. QED BY <2>1 DEF RowTypes
<1>3. QED BY <1>1, <1>2

(* Clearing leaves empty tables.                                           *)
LEMMA ClearEffect == ASSUME ClearFirmwareInfo PROVE RowsClear /\ RowTypes'
BY DEF ClearFirmwareInfo, RowsClear, RowTypes

Others(f) == \A g \in FlowIds \ {f} : flows'[g] = flows[g]

(* One flow is replaced.                                                   *)
LEMMA SetEffect ==
    ASSUME FlowTypes, NEW f \in FlowIds, NEW r \in Flow, Set(f, r)
    PROVE  FlowTypes' /\ flows'[f] = r /\ Others(f)
BY DEF FlowTypes, Set, Others

(* The fields of a flow.                                                   *)
LEMMA FlowFields ==
    ASSUME NEW r \in Flow
    PROVE  /\ r.kind \in Kind /\ r.pc \in Pc /\ r.order \in Order /\ r.mode \in Mode
           /\ r.vers \in SUBSET Versions /\ r.tid \in Versions \cup {None}
           /\ r.todo \in SUBSET Components /\ r.ok \in BOOLEAN
           /\ r.progress \in {"INSTALLING", "INSTALL_SUCCESS", "INSTALL_FAIL"} /\ r.late \in BOOLEAN
BY DEF Flow

(* The fields of a flow that is none.                                      *)
LEMMA IdleFields ==
    /\ IdleFlow \in Flow /\ IdleFlow.kind = "none" /\ IdleFlow.pc = "idle" /\ IdleFlow.vers = {}
    /\ IdleFlow.late = FALSE /\ IdleFlow.tid = None
BY DEF IdleFlow, Flow, Kind, Pc, Order, Mode

(* A flow goes on with its next operation.                                 *)
LEMMA GotoEffect ==
    ASSUME FlowTypes, NEW f \in FlowIds, NEW pc \in Pc, Goto(f, pc)
    PROVE  /\ FlowTypes' /\ Others(f) /\ flows'[f].pc = pc
           /\ UNCHANGED <<flows[f].kind, flows[f].vers, flows[f].tid, flows[f].todo, flows[f].ok,
                          flows[f].progress>>
<1> DEFINE r == [flows[f] EXCEPT !.pc = pc]
<1>1. flows[f] \in Flow
  BY DEF FlowTypes
<1>2. /\ r \in Flow /\ r.pc = pc /\ r.kind = flows[f].kind /\ r.vers = flows[f].vers
      /\ r.tid = flows[f].tid /\ r.todo = flows[f].todo /\ r.ok = flows[f].ok
      /\ r.progress = flows[f].progress
  BY <1>1 DEF Flow
<1> HIDE DEF r
<1>3. Set(f, r)
  BY DEF Goto, r
<1>4. QED BY <1>2, <1>3, SetEffect

(* A flow that ends leaves nothing but the half of a callback.             *)
LEMMA FinishEffect ==
    ASSUME FlowTypes, NEW f \in FlowIds, Finish(f)
    PROVE  /\ FlowTypes' /\ Others(f) /\ flows'[f].pc = "idle" /\ flows'[f].vers = {}
           /\ flows'[f].kind = "none"
<1> DEFINE late == flows[f].late
           tid == IF flows[f].late THEN flows[f].tid ELSE None
           r == [IdleFlow EXCEPT !.late = late, !.tid = tid]
<1>1. late \in BOOLEAN /\ tid \in Versions \cup {None}
  BY FlowFields DEF FlowTypes
<1>2. Set(f, r)
  BY DEF Finish
<1> HIDE DEF late, tid
<1>3. r \in Flow /\ r.pc = "idle" /\ r.vers = {} /\ r.kind = "none"
  BY <1>1 DEF IdleFlow, Flow, Kind, Pc, Order, Mode
<1> HIDE DEF r
<1>4. QED BY <1>2, <1>3, SetEffect

(* A new flow takes a slot nobody has.                                     *)
LEMMA NewEffect ==
    ASSUME FlowTypes, NEW r \in Flow, New(r)
    PROVE  FlowTypes' /\ \E f \in FlowIds : flows[f].kind = "none" /\ flows'[f] = r /\ Others(f)
<1>1. PICK f \in FlowIds : flows[f].kind = "none" /\ Set(f, r)
  BY DEF New, Free
<1>2. QED BY <1>1, SetEffect

(* The record of a new flow.                                               *)
LEMMA NewFlows ==
    ASSUME NEW kind \in Kind, NEW pc \in Pc
    PROVE  LET r == [IdleFlow EXCEPT !.kind = kind, !.pc = pc]
           IN  r \in Flow /\ r.pc = pc /\ r.vers = {}
BY DEF IdleFlow, Flow, Order, Mode

(* A process that starts has no flows.                                     *)
LEMMA RestartEffect ==
    ASSUME NEW why \in {"PROCESS_INIT", "DEVICE_REBOOT"}, Restart(why)
    PROVE  FlowTypes' /\ ProcTypes' /\ \A f \in FlowIds : flows'[f].pc = "idle" /\ flows'[f].vers = {}
BY IdleFields DEF Restart, FlowTypes, ProcTypes

-----------------------------------------------------------------------------
(* The steps that take nothing away that the invariant is about             *)

Rules == /\ FillsOne /\ RowsAgree /\ NothingLeftOut /\ UpdaterIsTruthful
         /\ SuccessIsInstalled /\ NoticeIsTruthful

(* Where the invariant says something of a flow.                           *)
Watched == Filling \cup {"write", "legal", "updater", "next", "ready", "wait", "done"}
SameFlow(f) ==
    UNCHANGED <<flows[f].pc, flows[f].vers, flows[f].tid, flows[f].todo, flows[f].ok, flows[f].progress>>
Calm(f) == SameFlow(f) \/ (flows'[f].pc \notin Watched /\ (~crossed => One(flows'[f].vers)))

Quiet ==
    /\ RowsStay \/ RowsClear
    /\ task'.status = "INSTALL_SUCCESS" => task.status = "INSTALL_SUCCESS"
    /\ \A f \in FlowIds : Calm(f)
    /\ installer' = installer \/ installer'.flow = 0
    /\ installed \subseteq installed'
    /\ UNCHANGED <<running, updaterResult>> \/ UpdaterIsTruthful'
    /\ UNCHANGED notices \/ NoticeIsTruthful'
    /\ UNCHANGED <<ab, crossed>>

(* The rows of a flow stay those of one version.                           *)
LEMMA CalmRows ==
    ASSUME FlowTypes, NEW f \in FlowIds, Calm(f), ~crossed, RowsOf(f), RowsStay \/ RowsClear
    PROVE  RowsOf(f)'
<1>1. CASE flows'[f].pc \notin Watched /\ One(flows'[f].vers)
  BY <1>1 DEF RowsOf, Watched, Filling
<1>2. CASE SameFlow(f)
  <2>1. One(flows'[f].vers)
    BY <1>2 DEF RowsOf, SameFlow
  <2>2. CASE RowsStay
    BY <1>2, <2>1, <2>2 DEF RowsOf, RowsStay, SameFlow
  <2>3. CASE RowsClear
    <3>1. flows'[f].pc \in Filling => task' = NoTask /\ files' = {} /\ comps' \subseteq flows'[f].vers
                                      /\ comps' = {}
      BY <2>3 DEF RowsClear
    <3>2. flows[f].pc \in {"write", "legal"} => flows[f].vers # {} /\ ~(flows[f].vers \subseteq files')
      BY <2>3 DEF RowsOf, RowsClear
    <3>3. QED BY <1>2, <2>1, <3>1, <3>2 DEF RowsOf, SameFlow
  <2>4. QED BY <2>2, <2>3
<1>3. QED BY <1>1, <1>2 DEF Calm

(* What is installed does not go away, and no new job is anybody's.        *)
LEMMA CalmInstalls ==
    ASSUME FlowTypes, NEW f \in FlowIds, SameFlow(f), Installs(f), installed \subseteq installed',
           installer' = installer \/ installer'.flow # f
    PROVE  Installs(f)'
BY DEF Installs, SameFlow, Packages

(* Such a step keeps the rules.                                            *)
LEMMA QuietKeeps == ASSUME RowTypes, FlowTypes, Rules, Quiet PROVE Rules'
<1>1. /\ FillsOne /\ RowsAgree /\ NothingLeftOut /\ UpdaterIsTruthful /\ SuccessIsInstalled
      /\ NoticeIsTruthful
  BY DEF Rules
<1>2. /\ RowsStay \/ RowsClear
      /\ \A f \in FlowIds : Calm(f)
      /\ installed \subseteq installed'
      /\ UNCHANGED <<running, updaterResult>> \/ UpdaterIsTruthful'
      /\ UNCHANGED notices \/ NoticeIsTruthful'
      /\ UNCHANGED <<ab, crossed>>
  BY DEF Quiet
<1>3. FillsOne'
  BY <1>1, <1>2 DEF FillsOne, Calm, SameFlow, Watched
<1>4. RowsAgree'
  <2> SUFFICES ASSUME ~crossed
               PROVE  /\ One(comps') /\ (task' # NoTask => comps' \subseteq {task'.ver})
                      /\ \A f \in FlowIds : RowsOf(f)'
                      /\ \A f, g \in FlowIds : flows'[f].pc \in Filling /\ flows'[g].pc \in Filling => f = g
    BY <1>2 DEF RowsAgree
  <2>1. One(comps') /\ (task' # NoTask => comps' \subseteq {task'.ver})
    BY <1>1, <1>2 DEF RowsAgree, RowsStay, RowsClear, One
  <2>2. \A f \in FlowIds : RowsOf(f)'
    BY <1>1, <1>2, CalmRows DEF RowsAgree
  <2>3. \A f \in FlowIds : flows'[f].pc \in Filling => flows[f].pc \in Filling
    BY <1>2 DEF Calm, SameFlow, Watched
  <2>4. QED BY <1>1, <2>1, <2>2, <2>3 DEF RowsAgree
<1>5. NothingLeftOut'
  <2> SUFFICES ASSUME NEW f \in FlowIds
               PROVE  /\ flows'[f].pc = "updater" => ~ab
                      /\ ab /\ ~crossed /\ flows'[f].ok /\ flows'[f].tid # None => Installs(f)'
    BY <1>2 DEF NothingLeftOut
  <2>1. CASE flows'[f].pc \notin Watched
    BY <2>1 DEF Installs, Watched
  <2>2. CASE SameFlow(f)
    <3>1. installer' = installer \/ installer'.flow # f
      BY FlowAssumption DEF Quiet
    <3>2. Installs(f) => Installs(f)'
      BY <1>2, <2>2, <3>1, CalmInstalls
    <3>3. QED BY <1>1, <2>2, <3>2 DEF NothingLeftOut, SameFlow
  <2>3. QED BY <1>2, <2>1, <2>2 DEF Calm
<1>6. UpdaterIsTruthful' /\ NoticeIsTruthful'
  <2>1. UpdaterIsTruthful'
    BY <1>1, <1>2 DEF UpdaterIsTruthful, Packages
  <2>2. NoticeIsTruthful'
    BY <1>1, <1>2 DEF NoticeIsTruthful, IsInstalled
  <2>3. QED BY <2>1, <2>2
<1>7. SuccessIsInstalled'
  <2>1. comps' \subseteq comps
    BY <1>2 DEF RowsStay, RowsClear
  <2>2. ASSUME ab, ~crossed, task'.status = "INSTALL_SUCCESS", NEW v \in comps' PROVE IsInstalled(v)'
    <3>1. task.status = "INSTALL_SUCCESS" /\ v \in comps
      BY <2>1, <2>2 DEF Quiet
    <3>2. IsInstalled(v)
      BY <1>1, <2>2, <3>1 DEF SuccessIsInstalled
    <3>3. QED BY <1>2, <3>2 DEF IsInstalled
  <2>3. QED BY <1>2, <2>2 DEF SuccessIsInstalled
<1>8. QED BY <1>3, <1>4, <1>5, <1>6, <1>7 DEF Rules

(* One flow moves, calmly; or none does.                                   *)
LEMMA CalmFlows ==
    /\ \A f \in FlowIds : Others(f) /\ Calm(f) => \A g \in FlowIds : Calm(g)
    /\ UNCHANGED flows => \A g \in FlowIds : Calm(g)
    /\ (\A f \in FlowIds : flows'[f].pc = "idle" /\ flows'[f].vers = {}) => \A g \in FlowIds : Calm(g)
BY DEF Others, Calm, SameFlow, Watched, Filling, One

(* The installs of the other flows stay as they are.                       *)
LEMMA InstallsStay ==
    ASSUME FlowTypes, NothingLeftOut, NEW f \in FlowIds, \A g \in FlowIds \ {f} : SameFlow(g),
           UNCHANGED ab, crossed => crossed', installed \subseteq installed',
           installer' = installer \/ installer'.flow \in {0, f},
           flows'[f].pc = "updater" => ~ab,
           ab /\ ~crossed' /\ flows'[f].ok /\ flows'[f].tid # None => Installs(f)'
    PROVE  NothingLeftOut'
<1> SUFFICES ASSUME NEW g \in FlowIds
             PROVE  /\ flows'[g].pc = "updater" => ~ab
                    /\ ab /\ ~crossed' /\ flows'[g].ok /\ flows'[g].tid # None => Installs(g)'
  BY DEF NothingLeftOut
<1>1. CASE g = f
  BY <1>1
<1>2. CASE g # f
  <2>1. installer' = installer \/ installer'.flow # g
    BY <1>2, FlowAssumption
  <2>2. Installs(g) => Installs(g)'
    BY <1>2, <2>1, CalmInstalls
  <2>3. QED BY <1>2, <2>2 DEF NothingLeftOut, SameFlow
<1>3. QED BY <1>1, <1>2

(* A part of the types whose variables stay.                               *)
LEMMA TypesStay ==
    /\ RowTypes /\ UNCHANGED <<task, comps, files>> => RowTypes'
    /\ FlowTypes /\ UNCHANGED flows => FlowTypes'
    /\ PrefTypes /\ UNCHANGED <<savedBell, nightSwitch, autoSwitch, bell>> => PrefTypes'
    /\ ProcTypes /\ UNCHANGED <<isChecking, nightAlarm, init, reason>> => ProcTypes'
    /\ JobTypes /\ UNCHANGED <<installer, installed>> => JobTypes'
    /\ SlotTypes /\ UNCHANGED <<ab, running, rebootReq, updaterResult>> => SlotTypes'
    /\ NoteTypes /\ UNCHANGED <<notices, crossed>> => NoteTypes'
    /\ BoundTypes /\ UNCHANGED <<requests, restarts>> => BoundTypes'
BY DEF RowTypes, FlowTypes, PrefTypes, ProcTypes, JobTypes, SlotTypes, NoteTypes, BoundTypes

(* Rows that stay, stay in the sense above.                                *)
LEMMA SameRows ==
    UNCHANGED <<task, comps, files>> =>
        RowsStay /\ (task'.status = "INSTALL_SUCCESS" => task.status = "INSTALL_SUCCESS")
BY DEF RowsStay

(* The types and the rules together.                                       *)
Typed == /\ RowTypes /\ FlowTypes /\ PrefTypes /\ ProcTypes /\ JobTypes /\ SlotTypes /\ NoteTypes
         /\ BoundTypes

(* They are the invariant.                                                 *)
LEMMA FlowInvParts == FlowInv <=> Typed /\ Rules
BY DEF FlowInv, Typed, Rules

(* A quiet step needs nothing but its types.                               *)
LEMMA QuietInv == ASSUME FlowInv, Quiet, Typed' PROVE FlowInv'
<1>1. RowTypes /\ FlowTypes /\ Rules
  BY FlowInvParts DEF Typed
<1>2. Rules'
  BY <1>1, QuietKeeps
<1>3. QED BY <1>2, FlowInvParts DEF FlowInv, Typed, Rules

(* The bounds of requests and of accidents are kept.                       *)
LEMMA RequestEffect == ASSUME BoundTypes, Request \/ Accident PROVE BoundTypes'
BY FlowAssumption DEF BoundTypes, Request, Accident

-----------------------------------------------------------------------------
(* Checks                                                                  *)

\* A check starts: a new flow asks.
LEMMA StartCheckStep ==
    ASSUME FlowInv, NEW kind \in {"check", "auto"}, StartCheck(kind) PROVE FlowInv'
<1>1. Typed
  BY FlowInvParts
<1>2. /\ Request /\ isChecking' = "yes" /\ New([IdleFlow EXCEPT !.kind = kind, !.pc = "request"])
      /\ UNCHANGED <<task, comps, files, savedBell, nightSwitch, autoSwitch, bell, nightAlarm, init,
                     reason, installer, installed, ab, running, rebootReq, updaterResult, notices,
                     crossed>>
  BY DEF StartCheck, database, prefs, device, history
<1>3. PICK f \in FlowIds : FlowTypes' /\ flows'[f].pc = "request" /\ flows'[f].vers = {} /\ Others(f)
  <2> DEFINE r == [IdleFlow EXCEPT !.kind = kind, !.pc = "request"]
  <2>1. kind \in Kind /\ "request" \in Pc
    BY DEF Kind, Pc
  <2>2. r \in Flow /\ r.pc = "request" /\ r.vers = {}
    BY <2>1, NewFlows
  <2>3. New(r)
    BY <1>2
  <2> HIDE DEF r
  <2>4. QED BY <1>1, <2>2, <2>3, NewEffect DEF Typed
<1>4. \A g \in FlowIds : Calm(g)
  BY <1>3, CalmFlows DEF Calm, Watched, Filling, One
<1>5. Quiet
  BY <1>2, <1>4, SameRows DEF Quiet
<1>6. Typed'
  BY <1>1, <1>2, <1>3, TypesStay, RequestEffect DEF Typed, ProcTypes
<1>7. QED BY <1>5, <1>6, QuietInv

\* The flag of a check expires.
LEMMA CheckExpiresStep == ASSUME FlowInv, CheckExpires PROVE FlowInv'
<1>1. Typed
  BY FlowInvParts
<1>2. /\ isChecking' = "expired"
      /\ UNCHANGED <<task, comps, files, savedBell, nightSwitch, autoSwitch, bell, flows, nightAlarm,
                     init, reason, installer, installed, ab, running, rebootReq, updaterResult,
                     notices, crossed, requests, restarts>>
  BY DEF CheckExpires, database, prefs, device, history, bounds
<1>3. Quiet
  BY <1>2, CalmFlows, SameRows DEF Quiet
<1>4. Typed'
  BY <1>1, <1>2, TypesStay DEF Typed, ProcTypes
<1>5. QED BY <1>3, <1>4, QuietInv

\* The answer of the server reaches its flow.
LEMMA OnCheckCallbackStep == ASSUME FlowInv, NEW f \in FlowIds, OnCheckCallback(f) PROVE FlowInv'
<1>1. Typed /\ flows[f] \in Flow
  BY FlowInvParts DEF Typed, FlowTypes
<1>2. /\ isChecking' = "no"
      /\ UNCHANGED <<task, comps, files, savedBell, nightSwitch, autoSwitch, bell, nightAlarm, init,
                     reason, installer, installed, ab, running, rebootReq, updaterResult, notices,
                     crossed, requests, restarts>>
  BY DEF OnCheckCallback, database, prefs, device, history, bounds
<1>3. FlowTypes' /\ Others(f) /\ flows'[f].pc \in {"idle", "afterCheck", "result"} /\ One(flows'[f].vers)
  <2>1. CASE Finish(f)
    BY <1>1, <2>1, FinishEffect DEF Typed, One
  <2>2. ASSUME NEW offer \in {{}} \cup {{v} : v \in Versions}, NEW pc \in {"afterCheck", "result"},
               Set(f, [flows[f] EXCEPT !.vers = offer, !.pc = pc])
        PROVE  FlowTypes' /\ Others(f) /\ flows'[f].pc = pc /\ One(flows'[f].vers)
    <3> DEFINE r == [flows[f] EXCEPT !.vers = offer, !.pc = pc]
    <3>1. offer \in SUBSET Versions /\ pc \in Pc /\ One(offer)
      BY <2>2 DEF Pc, One
    <3>2. r \in Flow /\ r.pc = pc /\ r.vers = offer
      BY <1>1, <3>1 DEF Flow
    <3>3. QED BY <1>1, <2>2, <3>1, <3>2, SetEffect DEF Typed
  <2>3. QED BY <2>1, <2>2 DEF OnCheckCallback
<1>4. \A g \in FlowIds : Calm(g)
  BY <1>3, CalmFlows DEF Calm, Watched, Filling
<1>5. Quiet
  BY <1>2, <1>4, SameRows DEF Quiet
<1>6. Typed'
  BY <1>1, <1>2, <1>3, TypesStay DEF Typed, ProcTypes
<1>7. QED BY <1>5, <1>6, QuietInv

\* A new version is to be inserted: the rows are cleared for it.
LEMMA ClearsForInsert ==
    ASSUME FlowInv, NEW f \in FlowIds, RowsClear, flows'[f].pc = "insert", flows[f].vers # {},
           UNCHANGED flows[f].vers, Others(f), crossed' \/ (~crossed /\ Settled), crossed => crossed',
           flows[f].pc = "result", UNCHANGED <<installer, installed, ab, running, updaterResult, notices>>
    PROVE  Rules'
<1>1. /\ FillsOne /\ RowsAgree /\ NothingLeftOut /\ UpdaterIsTruthful /\ NoticeIsTruthful
      /\ FlowTypes
  BY DEF FlowInv
<1>2. \A g \in FlowIds \ {f} : Calm(g) /\ SameFlow(g)
  BY DEF Others, Calm, SameFlow
<1>3. FillsOne'
  BY <1>1, <1>2 DEF FillsOne, SameFlow
<1>4. RowsAgree'
  <2> SUFFICES ASSUME ~crossed'
               PROVE  /\ One(comps') /\ (task' # NoTask => comps' \subseteq {task'.ver})
                      /\ \A g \in FlowIds : RowsOf(g)'
                      /\ \A g, h \in FlowIds : flows'[g].pc \in Filling /\ flows'[h].pc \in Filling => g = h
    BY DEF RowsAgree
  <2>1. ~crossed /\ \A g \in FlowIds : flows[g].pc \notin Filling
    BY DEF Settled, Filling
  <2>2. One(comps') /\ (task' # NoTask => comps' \subseteq {task'.ver})
    BY DEF RowsClear, One
  <2>3. \A g \in FlowIds \ {f} : RowsOf(g)'
    BY <1>1, <1>2, <2>1, CalmRows DEF RowsAgree
  <2>4. RowsOf(f)'
    BY <1>1, <2>1 DEF RowsAgree, RowsOf, RowsClear
  <2>5. QED BY <1>2, <2>1, <2>2, <2>3, <2>4 DEF SameFlow
<1>5. NothingLeftOut'
  BY <1>1, <1>2, InstallsStay DEF Installs
<1>6. UpdaterIsTruthful' /\ NoticeIsTruthful'
  BY <1>1 DEF UpdaterIsTruthful, NoticeIsTruthful, IsInstalled
<1>7. SuccessIsInstalled'
  BY DEF SuccessIsInstalled, RowsClear
<1>8. QED BY <1>3, <1>4, <1>5, <1>6, <1>7 DEF Rules

\* The answer is applied: known, or the rows are cleared.
LEMMA HandleCheckResultStep == ASSUME FlowInv, NEW f \in FlowIds, HandleCheckResult(f) PROVE FlowInv'
<1>1. Typed /\ flows[f] \in Flow /\ flows[f].pc = "result" /\ Rules
  BY FlowInvParts DEF Typed, FlowTypes, HandleCheckResult, At
<1>2. UNCHANGED <<savedBell, nightSwitch, autoSwitch, bell, isChecking, nightAlarm, init, reason,
                  installer, installed, ab, running, rebootReq, updaterResult, notices, requests,
                  restarts>>
  BY DEF HandleCheckResult, prefs, process, device, bounds
<1>3. /\ crossed' \in BOOLEAN /\ (crossed => crossed')
      /\ flows[f].vers \in {{}, comps} => crossed' = crossed
      /\ crossed' \/ flows[f].vers \in {{}, comps} \/ Settled
  BY <1>1 DEF HandleCheckResult, Typed, NoteTypes
<1>4. CASE flows[f].vers # {} /\ comps = flows[f].vers
  <2>1. UNCHANGED <<task, comps, files>> /\ Goto(f, "afterCheck") /\ crossed' = crossed
    BY <1>3, <1>4 DEF HandleCheckResult, database
  <2>2. FlowTypes' /\ Others(f) /\ flows'[f].pc = "afterCheck" /\ flows'[f].vers = flows[f].vers
    BY <1>1, <2>1, GotoEffect DEF Typed, Pc
  <2>3. Calm(f)
    BY <1>1, <2>2 DEF Calm, Watched, Filling, Rules, RowsAgree, RowsOf
  <2>4. Quiet
    BY <1>2, <2>1, <2>2, <2>3, CalmFlows, SameRows DEF Quiet
  <2>5. Typed'
    BY <1>1, <1>2, <2>1, <2>2, TypesStay DEF Typed
  <2>6. QED BY <2>4, <2>5, QuietInv
<1>5. CASE ~(flows[f].vers # {} /\ comps = flows[f].vers)
  <2>1. RowsClear /\ RowTypes' /\ Goto(f, IF flows[f].vers = {} THEN "afterCheck" ELSE "insert")
    BY <1>5, ClearEffect DEF HandleCheckResult
  <2>2. CASE flows[f].vers = {}
    <3>1. FlowTypes' /\ Others(f) /\ flows'[f].pc = "afterCheck" /\ flows'[f].vers = {} /\ crossed' = crossed
      BY <1>1, <1>3, <2>1, <2>2, GotoEffect DEF Typed, Pc
    <3>2. Calm(f)
      BY <3>1 DEF Calm, Watched, Filling, One
    <3>3. task'.status # "INSTALL_SUCCESS"
      BY <2>1, TaskFacts DEF RowsClear
    <3>4. Quiet
      BY <1>2, <2>1, <3>1, <3>2, <3>3, CalmFlows DEF Quiet
    <3>5. Typed'
      BY <1>1, <1>2, <2>1, <3>1, TypesStay DEF Typed
    <3>6. QED BY <3>4, <3>5, QuietInv
  <2>3. CASE flows[f].vers # {}
    <3>1. FlowTypes' /\ Others(f) /\ flows'[f].pc = "insert" /\ UNCHANGED flows[f].vers
      BY <1>1, <2>1, <2>3, GotoEffect DEF Typed, Pc
    <3>2. crossed' \/ (~crossed /\ Settled)
      BY <1>3, <1>5, <2>3
    <3>3. Rules'
      BY <1>1, <1>2, <1>3, <2>1, <2>3, <3>1, <3>2, ClearsForInsert
    <3>4. Typed'
      BY <1>1, <1>2, <1>3, <2>1, <3>1, TypesStay DEF Typed, NoteTypes
    <3>5. QED BY <3>3, <3>4, FlowInvParts DEF FlowInv, Typed, Rules
  <2>4. QED BY <2>2, <2>3
<1>6. QED BY <1>4, <1>5

\* The component rows are inserted: nobody else fills the empty tables.
LEMMA InsertComponentsStep == ASSUME FlowInv, NEW f \in FlowIds, InsertComponents(f) PROVE FlowInv'
<1>1. Typed /\ flows[f] \in Flow /\ flows[f].pc = "insert" /\ Rules
  BY FlowInvParts DEF Typed, FlowTypes, InsertComponents, At
<1>2. /\ comps' = comps \cup flows[f].vers
      /\ UNCHANGED <<task, files, savedBell, nightSwitch, autoSwitch, bell, isChecking, nightAlarm, init,
                     reason, installer, installed, ab, running, rebootReq, updaterResult, notices,
                     crossed, requests, restarts>>
  BY DEF InsertComponents, prefs, process, device, history, bounds
<1>3. FlowTypes' /\ Others(f) /\ flows'[f].pc = "insertTask" /\ flows'[f].vers = flows[f].vers
  BY <1>1, GotoEffect DEF Typed, Pc, InsertComponents
<1>4. Typed'
  <2>1. RowTypes'
    BY <1>1, <1>2, FlowFields DEF Typed, RowTypes
  <2>2. QED BY <1>1, <1>2, <1>3, <2>1, TypesStay DEF Typed
<1>5. \A g \in FlowIds \ {f} : SameFlow(g)
  BY <1>3 DEF Others, SameFlow
<1>6. FillsOne'
  BY <1>1, <1>3, <1>5 DEF Rules, FillsOne, SameFlow, Filling
<1>7. ~crossed => /\ task = NoTask /\ files = {} /\ comps' = flows[f].vers /\ One(flows[f].vers)
                  /\ \A g \in FlowIds \ {f} : flows[g].pc \notin Filling
  BY <1>1, <1>2 DEF Rules, RowsAgree, RowsOf, Filling
<1>8. RowsAgree'
  <2> SUFFICES ASSUME ~crossed
               PROVE  /\ One(comps') /\ (task' # NoTask => comps' \subseteq {task'.ver})
                      /\ \A g \in FlowIds : RowsOf(g)'
                      /\ \A g, h \in FlowIds : flows'[g].pc \in Filling /\ flows'[h].pc \in Filling => g = h
    BY <1>2 DEF RowsAgree
  <2>1. RowsOf(f)'
    BY <1>2, <1>3, <1>7 DEF RowsOf, Filling
  <2>2. ASSUME NEW g \in FlowIds \ {f} PROVE RowsOf(g)'
    <3>1. RowsOf(g) /\ flows[g].pc \notin Filling /\ files' = {}
      BY <1>1, <1>2, <1>7 DEF Rules, RowsAgree
    <3>2. flows[g].vers # {} => ~(flows[g].vers \subseteq files')
      BY <3>1
    <3>3. QED BY <1>5, <3>1, <3>2 DEF RowsOf, SameFlow
  <2>3. QED BY <1>2, <1>5, <1>7, <2>1, <2>2 DEF SameFlow
<1>9. NothingLeftOut'
  BY <1>1, <1>2, <1>3, <1>5, InstallsStay DEF Typed, Rules, Installs
<1>10. UpdaterIsTruthful' /\ NoticeIsTruthful'
  BY <1>1, <1>2 DEF Rules, UpdaterIsTruthful, NoticeIsTruthful, IsInstalled
<1>11. SuccessIsInstalled'
  <2>1. ~crossed => task'.status = "INIT"
    BY <1>2, <1>7, TaskFacts
  <2>2. QED BY <1>2, <2>1 DEF SuccessIsInstalled
<1>12. QED BY <1>4, <1>6, <1>8, <1>9, <1>10, <1>11 DEF FlowInv, Typed, Rules

\* The task row is inserted, unless there is one.
LEMMA InsertTaskStep == ASSUME FlowInv, NEW f \in FlowIds, InsertTask(f) PROVE FlowInv'
<1> DEFINE v == CHOOSE w \in flows[f].vers : TRUE
<1>1. Typed /\ flows[f] \in Flow /\ flows[f].pc = "insertTask" /\ Rules
  BY FlowInvParts DEF Typed, FlowTypes, InsertTask, At
<1>2. /\ task' = IF task # NoTask THEN task
                 ELSE [ver |-> v, status |-> "CHECK_VERSION_SUCCESS", mode |-> "MANUAL"]
      /\ UNCHANGED <<comps, files, savedBell, nightSwitch, autoSwitch, bell, isChecking, nightAlarm, init,
                     reason, installer, installed, ab, running, rebootReq, updaterResult, notices,
                     crossed, requests, restarts>>
  BY DEF InsertTask, prefs, process, device, history, bounds, isExistTask
<1>3. FlowTypes' /\ Others(f) /\ flows'[f].pc = "afterCheck" /\ flows'[f].vers = flows[f].vers
  BY <1>1, GotoEffect DEF Typed, Pc, InsertTask
<1>4. v \in flows[f].vers /\ v \in Versions
  BY <1>1, FlowFields DEF Rules, FillsOne, Filling
<1> HIDE DEF v
<1>5. /\ task' = task \/ (task' \in Task /\ task'.ver = v /\ task'.status = "CHECK_VERSION_SUCCESS")
      /\ task' # NoTask
  BY <1>1, <1>2, <1>4, TaskFacts DEF Task, Status, Mode
<1>6. Typed'
  <2>1. RowTypes'
    BY <1>1, <1>2, <1>5 DEF Typed, RowTypes
  <2>2. QED BY <1>1, <1>2, <1>3, <2>1, TypesStay DEF Typed
<1>7. \A g \in FlowIds \ {f} : SameFlow(g)
  BY <1>3 DEF Others, SameFlow
<1>8. FillsOne'
  BY <1>1, <1>3, <1>7 DEF Rules, FillsOne, SameFlow, Filling
<1>9. ~crossed => /\ task = NoTask /\ comps \subseteq {v} /\ One(flows[f].vers)
                  /\ \A g \in FlowIds \ {f} : flows[g].pc \notin Filling
  BY <1>1, <1>4 DEF Rules, RowsAgree, RowsOf, Filling, One
<1>10. RowsAgree'
  <2> SUFFICES ASSUME ~crossed
               PROVE  /\ One(comps') /\ (task' # NoTask => comps' \subseteq {task'.ver})
                      /\ \A g \in FlowIds : RowsOf(g)'
                      /\ \A g, h \in FlowIds : flows'[g].pc \in Filling /\ flows'[h].pc \in Filling => g = h
    BY <1>2 DEF RowsAgree
  <2>1. RowsOf(f)'
    BY <1>3, <1>9 DEF RowsOf, Filling
  <2>2. \A g \in FlowIds \ {f} : RowsOf(g)'
    BY <1>1, <1>2, <1>7, <1>9 DEF Rules, RowsAgree, RowsOf, SameFlow
  <2>3. task'.ver = v
    BY <1>5, <1>9
  <2>4. One(comps') /\ comps' \subseteq {task'.ver}
    BY <1>2, <1>9, <2>3 DEF One
  <2>5. \A g \in FlowIds : flows'[g].pc \notin Filling
    BY <1>3, <1>7, <1>9 DEF SameFlow, Filling
  <2>6. QED BY <2>1, <2>2, <2>4, <2>5
<1>11. NothingLeftOut'
  BY <1>1, <1>2, <1>3, <1>7, InstallsStay DEF Typed, Rules, Installs
<1>12. UpdaterIsTruthful' /\ NoticeIsTruthful'
  BY <1>1, <1>2 DEF Rules, UpdaterIsTruthful, NoticeIsTruthful, IsInstalled
<1>13. SuccessIsInstalled'
  <2>1. CASE task' = task
    BY <1>1, <1>2, <2>1 DEF Rules, SuccessIsInstalled, IsInstalled
  <2>2. CASE task'.status = "CHECK_VERSION_SUCCESS"
    BY <2>2 DEF SuccessIsInstalled
  <2>3. QED BY <1>5, <2>1, <2>2
<1>14. QED BY <1>6, <1>8, <1>10, <1>11, <1>12, <1>13 DEF FlowInv, Typed, Rules

\* The flow of a check ends, or the automatic one goes on to the download.
LEMMA GetStepAfterCheckStep == ASSUME FlowInv, NEW f \in FlowIds, GetStepAfterCheck(f) PROVE FlowInv'
<1>1. Typed /\ Rules
  BY FlowInvParts
<1>2. UNCHANGED <<task, comps, files, savedBell, nightSwitch, autoSwitch, bell, isChecking, init,
                  reason, installer, installed, ab, running, rebootReq, updaterResult, notices,
                  crossed, requests, restarts>>
  BY DEF GetStepAfterCheck, database, prefs, device, history, bounds
<1>3. nightAlarm' \in BOOLEAN
  BY <1>1 DEF GetStepAfterCheck, SetNightUpgradeAlarm, Typed, ProcTypes
<1>4. FlowTypes' /\ Others(f) /\ Calm(f)
  <2>1. CASE Finish(f)
    BY <1>1, <2>1, FinishEffect DEF Typed, Calm, Watched, Filling, One
  <2>2. CASE Goto(f, "dlSubmitted")
    <3>1. FlowTypes' /\ Others(f) /\ flows'[f].pc = "dlSubmitted" /\ flows'[f].vers = flows[f].vers
      BY <1>1, <2>2, GotoEffect DEF Typed, Pc
    <3>2. QED BY <1>1, <3>1 DEF Calm, Watched, Filling, Rules, RowsAgree, RowsOf
  <2>3. QED BY <2>1, <2>2 DEF GetStepAfterCheck
<1>5. Quiet
  BY <1>2, <1>4, CalmFlows, SameRows DEF Quiet
<1>6. Typed'
  BY <1>1, <1>2, <1>3, <1>4, TypesStay DEF Typed, ProcTypes
<1>7. QED BY <1>5, <1>6, QuietInv

-----------------------------------------------------------------------------
(* Downloads and the requests of the user                                  *)

\* A download is asked for.
LEMMA DoDownloadStep == ASSUME FlowInv, DoDownload PROVE FlowInv'
<1> DEFINE r == [IdleFlow EXCEPT !.kind = "download", !.pc = "dlSubmitted"]
<1>1. Typed
  BY FlowInvParts
<1>2. /\ Request /\ New(r)
      /\ UNCHANGED <<task, comps, files, savedBell, nightSwitch, autoSwitch, bell, isChecking,
                     nightAlarm, init, reason, installer, installed, ab, running, rebootReq,
                     updaterResult, notices, crossed>>
  BY DEF DoDownload, database, prefs, process, device, history
<1>3. r \in Flow /\ r.pc = "dlSubmitted" /\ r.vers = {}
  BY NewFlows DEF Kind, Pc
<1> HIDE DEF r
<1>4. PICK f \in FlowIds : FlowTypes' /\ flows'[f] = r /\ Others(f)
  BY <1>1, <1>2, <1>3, NewEffect DEF Typed
<1>5. \A g \in FlowIds : Calm(g)
  BY <1>3, <1>4, CalmFlows DEF Calm, Watched, Filling, One
<1>6. Quiet
  BY <1>2, <1>5, SameRows DEF Quiet
<1>7. Typed'
  BY <1>1, <1>2, <1>4, TypesStay, RequestEffect DEF Typed
<1>8. QED BY <1>6, <1>7, QuietInv

\* The installer works on for nobody.
LEMMA DisownEffect ==
    ASSUME JobTypes, installer' = [installer EXCEPT !.flow = 0], UNCHANGED installed
    PROVE  JobTypes' /\ installer'.flow = 0
<1>1. CASE installer = Nobody
  <2>1. installer' = Nobody /\ Nobody.flow = 0
    BY <1>1 DEF Nobody
  <2>2. QED BY <2>1 DEF JobTypes
<1>2. CASE installer \in [job : Components, flow : FlowIds \cup {0}]
  BY <1>2 DEF JobTypes
<1>3. QED BY <1>1, <1>2 DEF JobTypes

\* The download starts, or without component rows the process ends.
LEMMA DownloadStartStep == ASSUME FlowInv, NEW f \in FlowIds, DownloadStart(f) PROVE FlowInv'
<1>1. Typed /\ Rules /\ flows[f] \in Flow
  BY FlowInvParts DEF Typed, FlowTypes
<1>2. UNCHANGED <<comps, files, savedBell, nightSwitch, autoSwitch, installed, ab, running, rebootReq,
                  updaterResult, bell, notices, crossed, requests, restarts>>
  BY DEF DownloadStart, prefs, history, bounds
<1>3. CASE comps = {}
  <2>1. Restart("PROCESS_INIT") /\ installer' = [installer EXCEPT !.flow = 0] /\ UNCHANGED task
    BY <1>3 DEF DownloadStart
  <2>2. FlowTypes' /\ ProcTypes' /\ \A g \in FlowIds : Calm(g)
    BY <2>1, RestartEffect, CalmFlows
  <2>3. JobTypes' /\ installer'.flow = 0
    BY <1>1, <1>2, <2>1, DisownEffect DEF Typed
  <2>4. Quiet
    BY <1>2, <2>1, <2>2, <2>3, SameRows DEF Quiet
  <2>5. Typed'
    BY <1>1, <1>2, <2>1, <2>2, <2>3, TypesStay DEF Typed
  <2>6. QED BY <2>4, <2>5, QuietInv
<1>4. CASE comps # {}
  <2> DEFINE r == [flows[f] EXCEPT !.pc = "dl", !.vers = comps]
  <2>1. Set(f, r) /\ UpdateStatusByTaskId(task.ver, "DOWNLOADING")
        /\ UNCHANGED <<isChecking, nightAlarm, init, reason, installer>>
    BY <1>4 DEF DownloadStart, process
  <2>2. comps \in SUBSET Versions /\ "dl" \in Pc /\ "DOWNLOADING" \in Status
    BY <1>1 DEF Typed, RowTypes, Pc, Status
  <2>3. r \in Flow /\ r.pc = "dl" /\ r.vers = comps
    BY <1>1, <2>2 DEF Flow
  <2> HIDE DEF r
  <2>4. FlowTypes' /\ Others(f) /\ flows'[f].pc = "dl" /\ flows'[f].vers = comps
    BY <1>1, <2>1, <2>3, SetEffect DEF Typed
  <2>5. RowTypes' /\ RowsStay /\ (task' = task \/ task'.status = "DOWNLOADING")
    BY <1>1, <1>2, <2>1, <2>2, UpdateEffect DEF Typed, RowTypes, RowsStay
  <2>6. Calm(f)
    BY <1>1, <2>4 DEF Calm, Watched, Filling, Rules, RowsAgree
  <2>7. Quiet
    BY <1>2, <2>1, <2>4, <2>5, <2>6, CalmFlows DEF Quiet
  <2>8. Typed'
    BY <1>1, <1>2, <2>1, <2>4, <2>5, TypesStay DEF Typed
  <2>9. QED BY <2>7, <2>8, QuietInv
<1>5. QED BY <1>3, <1>4

\* A download succeeds: its packages are on disk.
LEMMA DownloadSucceeds ==
    ASSUME FlowInv, NEW f \in FlowIds, Settled, flows[f].pc = "dl", Finish(f),
           files' = files \cup flows[f].vers, UpdateStatusByTaskId(task.ver, "DOWNLOAD_SUCCESS"),
           crossed' \in BOOLEAN, crossed => crossed', Reading(flows[f].vers) => crossed',
           UNCHANGED <<comps, installer, installed, ab, running, updaterResult, notices>>
    PROVE  Rules' /\ RowTypes' /\ FlowTypes'
<1>1. Typed /\ Rules /\ flows[f] \in Flow
  BY FlowInvParts DEF Typed, FlowTypes
<1>2. FlowTypes' /\ Others(f) /\ flows'[f].pc = "idle" /\ flows'[f].vers = {}
  BY <1>1, FinishEffect DEF Typed
<1>3. /\ task' \in Task \cup {NoTask} /\ task'.ver = task.ver
      /\ task = NoTask => task' = NoTask
      /\ task # NoTask => task' # NoTask
      /\ task' = task \/ task'.status = "DOWNLOAD_SUCCESS"
  <2>1. "DOWNLOAD_SUCCESS" \in Status
    BY DEF Status
  <2>2. QED BY <1>1, <2>1, UpdateEffect DEF Typed
<1>4. RowTypes'
  BY <1>1, <1>3, FlowFields DEF Typed, RowTypes
<1>5. \A g \in FlowIds \ {f} : SameFlow(g)
  BY <1>2 DEF Others, SameFlow
<1>6. FillsOne'
  BY <1>1, <1>2, <1>5 DEF Rules, FillsOne, SameFlow, Filling
<1>7. \A g \in FlowIds : flows'[g].pc \notin Filling
  BY <1>2, <1>5 DEF Settled, Filling, SameFlow
<1>8. RowsAgree'
  <2> SUFFICES ASSUME ~crossed'
               PROVE  /\ One(comps') /\ (task' # NoTask => comps' \subseteq {task'.ver})
                      /\ \A g \in FlowIds : RowsOf(g)'
                      /\ \A g, h \in FlowIds : flows'[g].pc \in Filling /\ flows'[h].pc \in Filling => g = h
    BY DEF RowsAgree
  <2>1. ~crossed /\ RowsAgree /\ \A g \in FlowIds : RowsOf(g)
    BY <1>1 DEF Rules, RowsAgree
  <2>2. One(comps') /\ (task' # NoTask => comps' \subseteq {task'.ver})
    BY <1>3, <2>1 DEF RowsAgree, One
  <2>3. RowsOf(f)'
    BY <1>2 DEF RowsOf, One, Filling
  <2>4. ASSUME NEW g \in FlowIds \ {f} PROVE RowsOf(g)'
    <3>1. RowsOf(g) /\ One(flows[f].vers) /\ One(flows[g].vers)
      BY <2>1 DEF RowsOf
    <3>2. CASE flows[g].pc \in {"write", "legal"}
      <4>1. flows[g].vers # flows[f].vers /\ flows[g].vers # {}
        BY <3>1, <3>2 DEF Reading, RowsOf
      <4>2. flows[g].vers \subseteq files' => flows[g].vers \subseteq files
        BY <3>1, <4>1 DEF One
      <4>3. QED BY <1>5, <1>7, <3>1, <3>2, <4>1, <4>2 DEF RowsOf, SameFlow
    <3>3. CASE flows[g].pc \notin {"write", "legal"}
      BY <1>5, <1>7, <3>1, <3>3 DEF RowsOf, SameFlow
    <3>4. QED BY <3>2, <3>3
  <2>5. QED BY <1>7, <2>2, <2>3, <2>4
<1>9. NothingLeftOut'
  BY <1>1, <1>2, <1>5, InstallsStay DEF Typed, Rules, Installs
<1>10. UpdaterIsTruthful' /\ NoticeIsTruthful'
  BY <1>1 DEF Rules, UpdaterIsTruthful, NoticeIsTruthful, IsInstalled
<1>11. SuccessIsInstalled'
  <2>1. CASE task' = task
    BY <1>1, <2>1 DEF Rules, SuccessIsInstalled, IsInstalled
  <2>2. CASE task'.status = "DOWNLOAD_SUCCESS"
    BY <2>2 DEF SuccessIsInstalled
  <2>3. QED BY <1>3, <2>1, <2>2
<1>12. QED BY <1>2, <1>4, <1>6, <1>8, <1>9, <1>10, <1>11 DEF Rules

\* The download ends.
LEMMA OnDownloadCallbackStep == ASSUME FlowInv, NEW f \in FlowIds, OnDownloadCallback(f) PROVE FlowInv'
<1>1. Typed
  BY FlowInvParts
<1>2. /\ Settled /\ flows[f].pc = "dl" /\ Finish(f)
      /\ UNCHANGED <<savedBell, nightSwitch, autoSwitch, bell, isChecking, init, reason, installer,
                     installed, ab, running, rebootReq, updaterResult, notices, requests, restarts>>
  BY DEF OnDownloadCallback, At, prefs, device, bounds
<1>3. FlowTypes' /\ Others(f) /\ Calm(f)
  BY <1>1, <1>2, FinishEffect DEF Typed, Calm, Watched, Filling, One
<1>4. CASE /\ files' = files \cup flows[f].vers
           /\ UpdateStatusByTaskId(task.ver, "DOWNLOAD_SUCCESS")
           /\ DownloadSuccessProcess
           /\ crossed' = (crossed \/ Reading(flows[f].vers))
  <2>1. crossed' \in BOOLEAN /\ (crossed => crossed') /\ (Reading(flows[f].vers) => crossed')
    BY <1>1, <1>4 DEF Typed, NoteTypes
  <2>2. nightAlarm' \in BOOLEAN /\ UNCHANGED comps
    BY <1>1, <1>4 DEF DownloadSuccessProcess, SetNightUpgradeAlarm, Typed, ProcTypes
  <2>3. Rules' /\ RowTypes' /\ FlowTypes'
    BY <1>2, <1>4, <2>1, <2>2, DownloadSucceeds
  <2>4. Typed'
    BY <1>1, <1>2, <2>1, <2>2, <2>3, TypesStay DEF Typed, ProcTypes, NoteTypes
  <2>5. QED BY <2>3, <2>4 DEF FlowInv, Typed, Rules
<1>5. CASE UpdateStatusByTaskId(task.ver, "DOWNLOAD_PAUSE") /\ UNCHANGED <<comps, files, nightAlarm, crossed>>
  <2>1. "DOWNLOAD_PAUSE" \in Status
    BY DEF Status
  <2>2. RowTypes' /\ RowsStay /\ (task' = task \/ task'.status = "DOWNLOAD_PAUSE")
    BY <1>1, <1>5, <2>1, UpdateEffect DEF Typed, RowTypes, RowsStay
  <2>3. Quiet
    BY <1>2, <1>3, <1>5, <2>2, CalmFlows DEF Quiet
  <2>4. Typed'
    BY <1>1, <1>2, <1>3, <1>5, <2>2, TypesStay DEF Typed
  <2>5. QED BY <2>3, <2>4, QuietInv
<1>6. CASE DownloadFailProcess /\ UNCHANGED crossed
  <2>1. UNCHANGED nightAlarm /\ (UNCHANGED <<task, comps, files>> \/ RowsClear) /\ RowTypes'
    BY <1>1, <1>6, ClearEffect, TypesStay DEF DownloadFailProcess, database, Typed
  <2>2. task'.status = "INSTALL_SUCCESS" => task.status = "INSTALL_SUCCESS"
    BY <2>1, TaskFacts DEF RowsClear
  <2>3. RowsStay \/ RowsClear
    BY <2>1, SameRows
  <2>4. Quiet
    BY <1>2, <1>3, <1>6, <2>2, <2>3, CalmFlows DEF Quiet
  <2>5. Typed'
    BY <1>1, <1>2, <1>3, <1>6, <2>1, TypesStay DEF Typed
  <2>6. QED BY <2>4, <2>5, QuietInv
<1>7. QED BY <1>4, <1>5, <1>6 DEF OnDownloadCallback

\* A download is cancelled.
LEMMA DoCancelStep == ASSUME FlowInv, DoCancel PROVE FlowInv'
<1>1. Typed
  BY FlowInvParts
<1>2. /\ Request /\ UpdateStatusByTaskId(task.ver, "CHECK_VERSION_SUCCESS")
      /\ UNCHANGED <<comps, files, savedBell, nightSwitch, autoSwitch, bell, isChecking, nightAlarm,
                     init, reason, installer, installed, ab, running, rebootReq, updaterResult,
                     notices, crossed>>
  BY DEF DoCancel, prefs, process, device, history
<1>3. /\ flows' = [f \in FlowIds |-> flows'[f]]
      /\ \A f \in FlowIds : flows'[f] = IdleFlow \/ flows'[f] = flows[f]
  BY DEF DoCancel
<1>4. FlowTypes' /\ \A f \in FlowIds : Calm(f)
  <2>1. ASSUME NEW f \in FlowIds PROVE flows'[f] \in Flow /\ Calm(f)
    <3>1. CASE flows'[f] = IdleFlow
      BY <3>1, IdleFields DEF Calm, Watched, Filling, One
    <3>2. CASE flows'[f] = flows[f]
      BY <1>1, <3>2 DEF Calm, SameFlow, Typed, FlowTypes
    <3>3. QED BY <1>3, <3>1, <3>2
  <2>2. QED BY <1>3, <2>1 DEF FlowTypes
<1>5. "CHECK_VERSION_SUCCESS" \in Status
  BY DEF Status
<1>6. RowTypes' /\ RowsStay /\ (task' = task \/ task'.status = "CHECK_VERSION_SUCCESS")
  BY <1>1, <1>2, <1>5, UpdateEffect DEF Typed, RowTypes, RowsStay
<1>7. Quiet
  BY <1>2, <1>4, <1>6 DEF Quiet
<1>8. Typed'
  BY <1>1, <1>2, <1>4, <1>6, TypesStay, RequestEffect DEF Typed
<1>9. QED BY <1>7, <1>8, QuietInv

\* An error is cleared.
LEMMA DoClearErrorStep == ASSUME FlowInv, DoClearError PROVE FlowInv'
<1>1. Typed
  BY FlowInvParts
<1>2. /\ ClearFirmwareInfo
      /\ UNCHANGED <<savedBell, nightSwitch, autoSwitch, bell, flows, isChecking, nightAlarm, init,
                     reason, installer, installed, ab, running, rebootReq, updaterResult, notices,
                     crossed, requests, restarts>>
  BY DEF DoClearError, prefs, process, device, history, bounds
<1>3. RowsClear /\ RowTypes' /\ task'.status # "INSTALL_SUCCESS"
  BY <1>2, ClearEffect, TaskFacts DEF RowsClear
<1>4. Quiet
  BY <1>2, <1>3, CalmFlows DEF Quiet
<1>5. Typed'
  BY <1>1, <1>2, <1>3, TypesStay DEF Typed
<1>6. QED BY <1>4, <1>5, QuietInv

\* The switches are set.
LEMMA SetUpgradePolicyStep ==
    ASSUME FlowInv, NEW night \in BOOLEAN, NEW auto \in BOOLEAN, SetUpgradePolicy(night, auto)
    PROVE  FlowInv'
<1>1. Typed
  BY FlowInvParts
<1>2. /\ Request /\ autoSwitch' = auto
      /\ UNCHANGED <<task, comps, files, savedBell, bell, flows, isChecking, init, reason, installer,
                     installed, ab, running, rebootReq, updaterResult, notices, crossed>>
  BY DEF SetUpgradePolicy, database, device, history
<1>3. nightSwitch' \in BOOLEAN /\ nightAlarm' \in BOOLEAN
  BY <1>1 DEF SetUpgradePolicy, DoAutoUpgradeSwitchChanged, Typed, PrefTypes, ProcTypes
<1>4. Quiet
  BY <1>2, CalmFlows, SameRows DEF Quiet
<1>5. Typed'
  BY <1>1, <1>2, <1>3, TypesStay, RequestEffect DEF Typed, PrefTypes, ProcTypes
<1>6. QED BY <1>4, <1>5, QuietInv

-----------------------------------------------------------------------------
(* Installs                                                                *)

\* The boot sound before and after an upgrade.
LEMMA BellEffect ==
    ASSUME PrefTypes, NEW mode, ProcessBeforeUpgrade(mode) \/ ProcessAfterUpgrade(mode)
    PROVE  savedBell' \in BOOLEAN /\ bell' \in BOOLEAN
BY DEF PrefTypes, ProcessBeforeUpgrade, ProcessAfterUpgrade

\* A night install takes a free slot.
NightStarts ==
    \E f \in FlowIds : flows[f].kind = "none" /\ flows'[f].pc = "submitted" /\ flows'[f].mode = "NIGHT"

\* A new flow of an install.
LEMMA SubmitEffect ==
    ASSUME FlowTypes, NEW pc \in {"apply", "submitted"}, NEW order \in Order, NEW t \in Task,
           SubmitFlow(pc, order, t)
    PROVE  /\ FlowTypes' /\ \A f \in FlowIds : Calm(f)
           /\ pc = "submitted" /\ t.mode = "NIGHT" => NightStarts
<1> DEFINE r == [IdleFlow EXCEPT !.kind = "install", !.pc = pc, !.order = order, !.mode = t.mode]
<1>1. pc \in Pc /\ t.mode \in Mode
  BY DEF Pc, Task
<1>2. r \in Flow /\ r.pc = pc /\ r.vers = {} /\ r.mode = t.mode
  BY <1>1 DEF IdleFlow, Flow, Kind
<1>3. New(r)
  BY DEF SubmitFlow
<1> HIDE DEF r
<1>4. PICK f \in FlowIds : FlowTypes' /\ flows[f].kind = "none" /\ flows'[f] = r /\ Others(f)
  BY <1>2, <1>3, NewEffect
<1>5. Calm(f)
  BY <1>2, <1>4 DEF Calm, Watched, Filling, One
<1>6. pc = "submitted" /\ t.mode = "NIGHT" => NightStarts
  BY <1>2, <1>4 DEF NightStarts
<1>7. QED BY <1>4, <1>5, <1>6, CalmFlows

\* Whatever way to install a request takes, it is quiet.
LEMMA DoInstallEffect ==
    ASSUME Typed, NEW t \in Task, task # NoTask, t.ver = task.ver,
           t.status = "INSTALL_SUCCESS" => task.status = "INSTALL_SUCCESS",
           NEW order \in Order, DoInstall(t, order)
    PROVE  /\ RowTypes' /\ FlowTypes' /\ savedBell' \in BOOLEAN /\ bell' \in BOOLEAN
           /\ RowsStay \/ RowsClear
           /\ task'.status = "INSTALL_SUCCESS" => task.status = "INSTALL_SUCCESS"
           /\ \A f \in FlowIds : Calm(f)
           /\ UNCHANGED savedBell \/ NightStarts
<1>1. ASSUME task' = t, UNCHANGED <<comps, files>>
      PROVE  RowTypes' /\ RowsStay /\ (task'.status = "INSTALL_SUCCESS" => task.status = "INSTALL_SUCCESS")
  BY <1>1, TaskFacts DEF Typed, RowTypes, RowsStay
<1>2. CASE task' = t /\ UNCHANGED <<comps, files, flows, savedBell, bell>>
  BY <1>1, <1>2, TypesStay, CalmFlows DEF Typed, PrefTypes
<1>3. CASE task' = t /\ SubmitFlow("apply", order, t) /\ UNCHANGED <<comps, files, savedBell, bell>>
  BY <1>1, <1>3, SubmitEffect DEF Typed, PrefTypes
<1>4. CASE ClearFirmwareInfo /\ UNCHANGED <<flows, savedBell, bell>>
  <2>1. RowsClear /\ RowTypes' /\ task'.status # "INSTALL_SUCCESS"
    BY <1>4, ClearEffect, TaskFacts DEF RowsClear
  <2>2. QED BY <1>4, <2>1, TypesStay, CalmFlows DEF Typed, PrefTypes
<1>5. CASE /\ task' = t /\ SubmitFlow("submitted", order, t)
           /\ ProcessBeforeUpgrade(t.mode) /\ UNCHANGED <<comps, files>>
  <2>1. savedBell' \in BOOLEAN /\ bell' \in BOOLEAN /\ (UNCHANGED savedBell \/ t.mode = "NIGHT")
    BY <1>5, BellEffect DEF Typed, ProcessBeforeUpgrade
  <2>2. QED BY <1>1, <1>5, <2>1, SubmitEffect DEF Typed
<1>6. QED BY <1>2, <1>3, <1>4, <1>5 DEF DoInstall

\* The row as a request reads it.
LEMMA NewMode ==
    ASSUME RowTypes, task # NoTask
    PROVE  /\ \A m \in Mode : LET t == [task EXCEPT !.mode = m]
                              IN  t \in Task /\ t.ver = task.ver /\ t.status = task.status
           /\ LET t == [task EXCEPT !.status = "DOWNLOAD_SUCCESS"]
              IN  t \in Task /\ t.ver = task.ver /\ t.status = "DOWNLOAD_SUCCESS"
<1>1. task \in Task /\ "DOWNLOAD_SUCCESS" \in Status
  BY TaskFacts DEF Status
<1>2. ASSUME NEW m \in Mode
      PROVE  LET t == [task EXCEPT !.mode = m]
             IN  t \in Task /\ t.ver = task.ver /\ t.status = task.status
  BY <1>1 DEF Task
<1>3. LET t == [task EXCEPT !.status = "DOWNLOAD_SUCCESS"]
      IN  t \in Task /\ t.ver = task.ver /\ t.status = "DOWNLOAD_SUCCESS"
  BY <1>1 DEF Task
<1>4. QED BY <1>2, <1>3

\* The user asks for an upgrade.
LEMMA UpgradeStep == ASSUME FlowInv, Upgrade PROVE FlowInv'
<1> DEFINE t == [task EXCEPT !.mode = "MANUAL"]
<1>1. Typed
  BY FlowInvParts
<1>2. PICK order \in Order : DoInstall(t, order)
  BY DEF Upgrade
<1>3. /\ Request /\ task # NoTask
      /\ UNCHANGED <<nightSwitch, autoSwitch, isChecking, nightAlarm, init, reason, installer, installed,
                     ab, running, rebootReq, updaterResult, notices, crossed>>
  BY DEF Upgrade, isExistTask, process, history
<1>4. t \in Task /\ t.ver = task.ver /\ t.status = task.status
  BY <1>1, <1>3, NewMode DEF Typed, Mode
<1> HIDE DEF t
<1>5. /\ RowTypes' /\ FlowTypes' /\ savedBell' \in BOOLEAN /\ bell' \in BOOLEAN
      /\ RowsStay \/ RowsClear
      /\ task'.status = "INSTALL_SUCCESS" => task.status = "INSTALL_SUCCESS"
      /\ \A f \in FlowIds : Calm(f)
  BY <1>1, <1>2, <1>3, <1>4, DoInstallEffect
<1>6. Quiet
  BY <1>3, <1>5 DEF Quiet
<1>7. Typed'
  BY <1>1, <1>3, <1>5, TypesStay, RequestEffect DEF Typed, PrefTypes
<1>8. QED BY <1>6, <1>7, QuietInv

\* The night alarm asks for one.
LEMMA HandleNightUpgradeStep == ASSUME FlowInv, HandleNightUpgrade PROVE FlowInv'
<1> DEFINE t == [task EXCEPT !.mode = "NIGHT"]
<1>1. Typed
  BY FlowInvParts
<1>2. /\ Request /\ nightAlarm' = FALSE
      /\ UNCHANGED <<nightSwitch, autoSwitch, isChecking, init, reason, installer, installed,
                     ab, running, rebootReq, updaterResult, notices, crossed>>
  BY DEF HandleNightUpgrade, history
<1>3. /\ RowTypes' /\ FlowTypes' /\ savedBell' \in BOOLEAN /\ bell' \in BOOLEAN
      /\ RowsStay \/ RowsClear
      /\ task'.status = "INSTALL_SUCCESS" => task.status = "INSTALL_SUCCESS"
      /\ \A f \in FlowIds : Calm(f)
  <2>1. CASE nightSwitch /\ task.status = "DOWNLOAD_SUCCESS"
    <3>1. DoInstall(t, "INSTALL") /\ task # NoTask /\ "INSTALL" \in Order
      BY <2>1, TaskFacts DEF HandleNightUpgrade, Order
    <3>2. t \in Task /\ t.ver = task.ver /\ t.status = task.status
      BY <1>1, <3>1, NewMode DEF Typed, Mode
    <3> HIDE DEF t
    <3>3. QED BY <1>1, <3>1, <3>2, DoInstallEffect
  <2>2. CASE ~(nightSwitch /\ task.status = "DOWNLOAD_SUCCESS")
    <3>1. UNCHANGED <<task, comps, files, flows, savedBell, bell>>
      BY <2>2 DEF HandleNightUpgrade
    <3>2. QED BY <1>1, <3>1, TypesStay, SameRows, CalmFlows DEF Typed, PrefTypes
  <2>3. QED BY <2>1, <2>2
<1>4. Quiet
  BY <1>2, <1>3 DEF Quiet
<1>5. Typed'
  BY <1>1, <1>2, <1>3, TypesStay, RequestEffect DEF Typed, PrefTypes, ProcTypes
<1>6. QED BY <1>4, <1>5, QuietInv

\* A step of one flow that changes no more of the rows than a status.
LEMMA FlowMoves ==
    ASSUME FlowInv, NEW f \in FlowIds, Others(f), RowsStay, flows'[f].pc \notin Filling,
           ~crossed => RowsOf(f)',
           installed \subseteq installed', installer' = installer \/ installer'.flow \in {0, f},
           flows'[f].pc = "updater" => ~ab,
           ab /\ ~crossed /\ flows'[f].ok /\ flows'[f].tid # None => Installs(f)',
           task'.status = "INSTALL_SUCCESS" /\ ab /\ ~crossed => \A v \in comps : IsInstalled(v),
           UNCHANGED <<ab, running, updaterResult, notices, crossed>>
    PROVE  Rules'
<1>1. Typed /\ Rules
  BY FlowInvParts
<1>2. \A g \in FlowIds \ {f} : SameFlow(g) /\ Calm(g)
  BY DEF Others, SameFlow, Calm
<1>3. FillsOne'
  BY <1>1, <1>2 DEF Rules, FillsOne, SameFlow
<1>4. RowsAgree'
  <2> SUFFICES ASSUME ~crossed
               PROVE  /\ One(comps') /\ (task' # NoTask => comps' \subseteq {task'.ver})
                      /\ \A g \in FlowIds : RowsOf(g)'
                      /\ \A g, h \in FlowIds : flows'[g].pc \in Filling /\ flows'[h].pc \in Filling => g = h
    BY DEF RowsAgree
  <2>1. One(comps') /\ (task' # NoTask => comps' \subseteq {task'.ver})
    BY <1>1 DEF Rules, RowsAgree, RowsStay, One
  <2>2. \A g \in FlowIds \ {f} : RowsOf(g)'
    BY <1>1, <1>2, CalmRows DEF Typed, Rules, RowsAgree
  <2>3. \A g \in FlowIds : flows'[g].pc \in Filling => flows[g].pc \in Filling
    BY <1>2 DEF SameFlow
  <2>4. QED BY <1>1, <2>1, <2>2, <2>3 DEF Rules, RowsAgree
<1>5. NothingLeftOut'
  BY <1>1, <1>2, InstallsStay DEF Typed, Rules
<1>6. UpdaterIsTruthful' /\ NoticeIsTruthful'
  BY <1>1 DEF Rules, UpdaterIsTruthful, NoticeIsTruthful, IsInstalled
<1>7. SuccessIsInstalled'
  BY DEF SuccessIsInstalled, IsInstalled, RowsStay
<1>8. QED BY <1>3, <1>4, <1>5, <1>6, <1>7 DEF Rules

\* The executor reads the component rows.
LEMMA QueryComponentsStep == ASSUME FlowInv, NEW f \in FlowIds, QueryComponents(f) PROVE FlowInv'
<1> DEFINE pc == IF comps = {} THEN "after" ELSE "write"
           r == [flows[f] EXCEPT !.vers = comps, !.pc = pc]
<1>1. Typed /\ Rules /\ flows[f] \in Flow
  BY FlowInvParts DEF Typed, FlowTypes
<1>2. /\ Set(f, r)
      /\ UNCHANGED <<task, comps, files, savedBell, nightSwitch, autoSwitch, bell, isChecking,
                     nightAlarm, init, reason, installer, installed, ab, running, rebootReq,
                     updaterResult, notices, crossed, requests, restarts>>
  BY DEF QueryComponents, database, prefs, process, device, history, bounds
<1>3. pc \in {"after", "write"} /\ pc \in Pc /\ (pc = "write" => comps # {}) /\ comps \in SUBSET Versions
  BY <1>1 DEF Typed, RowTypes, Pc
<1> HIDE DEF pc
<1>4. r \in Flow /\ r.pc = pc /\ r.vers = comps
  BY <1>1, <1>3 DEF Flow
<1> HIDE DEF r
<1>5. FlowTypes' /\ Others(f) /\ flows'[f].pc = pc /\ flows'[f].vers = comps
  BY <1>1, <1>2, <1>4, SetEffect DEF Typed
<1>6. ~crossed => RowsOf(f)'
  BY <1>1, <1>2, <1>3, <1>5 DEF RowsOf, Rules, RowsAgree, Filling
<1>7. Rules'
  <2>1. RowsStay /\ (task'.status = "INSTALL_SUCCESS" /\ ab /\ ~crossed => \A v \in comps : IsInstalled(v))
    BY <1>1, <1>2, SameRows DEF Rules, SuccessIsInstalled
  <2>2. Installs(f)' /\ flows'[f].pc # "updater" /\ flows'[f].pc \notin Filling
    BY <1>3, <1>5 DEF Installs, Filling
  <2>3. QED BY <1>2, <1>5, <1>6, <2>1, <2>2, FlowMoves
<1>8. Typed'
  BY <1>1, <1>2, <1>5, TypesStay DEF Typed
<1>9. QED BY <1>7, <1>8 DEF FlowInv, Typed, Rules

\* It reads the task row and writes the status.
LEMMA WriteInstallingStep == ASSUME FlowInv, NEW f \in FlowIds, WriteInstalling(f) PROVE FlowInv'
<1> DEFINE st == IF ab THEN "INSTALLING" ELSE "UPDATING"
           r == [flows[f] EXCEPT !.tid = task.ver, !.pc = "legal"]
<1>1. Typed /\ Rules /\ flows[f] \in Flow /\ flows[f].pc = "write"
  BY FlowInvParts DEF Typed, FlowTypes, WriteInstalling, At
<1>2. /\ UpdateStatusByTaskId(task.ver, st) /\ Set(f, r)
      /\ UNCHANGED <<comps, files, savedBell, nightSwitch, autoSwitch, bell, isChecking,
                     nightAlarm, init, reason, installer, installed, ab, running, rebootReq,
                     updaterResult, notices, crossed, requests, restarts>>
  BY DEF WriteInstalling, prefs, process, device, history, bounds
<1>3. st \in Status /\ st # "INSTALL_SUCCESS"
  BY DEF Status
<1> HIDE DEF st
<1>4. RowTypes' /\ RowsStay /\ (task' = task \/ task'.status = st)
  BY <1>1, <1>2, <1>3, UpdateEffect DEF Typed, RowTypes, RowsStay
<1>5. task.ver \in Versions \cup {None} /\ "legal" \in Pc
  BY <1>1, TaskFacts DEF Typed, Pc
<1>6. r \in Flow /\ r.pc = "legal" /\ r.vers = flows[f].vers /\ r.tid = task.ver
  BY <1>1, <1>5 DEF Flow
<1> HIDE DEF r
<1>7. FlowTypes' /\ Others(f) /\ flows'[f].pc = "legal" /\ flows'[f].vers = flows[f].vers
      /\ flows'[f].tid = task.ver
  BY <1>1, <1>2, <1>6, SetEffect DEF Typed
<1>8. ASSUME ~crossed PROVE RowsOf(f)'
  <2>1. RowsOf(f) /\ flows[f].vers # {} /\ (flows[f].vers \subseteq files => comps = flows[f].vers)
    BY <1>1, <1>8 DEF Rules, RowsAgree, RowsOf
  <2>2. task # NoTask => comps \subseteq {task.ver}
    BY <1>1, <1>8 DEF Rules, RowsAgree
  <2>3. task.ver # None /\ flows[f].vers \subseteq files => flows[f].vers = {task.ver}
    BY <2>1, <2>2, TaskFacts
  <2>4. One(flows'[f].vers)
    BY <1>7, <2>1 DEF RowsOf
  <2>5. QED BY <1>2, <1>7, <2>1, <2>3, <2>4 DEF RowsOf, Filling
<1>9. Rules'
  <2>1. task'.status = "INSTALL_SUCCESS" /\ ab /\ ~crossed => \A v \in comps : IsInstalled(v)
    BY <1>1, <1>3, <1>4 DEF Rules, SuccessIsInstalled
  <2>2. Installs(f)' /\ flows'[f].pc # "updater" /\ flows'[f].pc \notin Filling
    BY <1>7 DEF Installs, Filling
  <2>3. QED BY <1>2, <1>4, <1>7, <1>8, <2>1, <2>2, FlowMoves
<1>10. Typed'
  BY <1>1, <1>2, <1>4, <1>7, TypesStay DEF Typed
<1>11. QED BY <1>9, <1>10 DEF FlowInv, Typed, Rules

\* It looks at the package files.
LEMMA StartInstallStep ==
    ASSUME FlowInv, JobIsOfInstall, NEW f \in FlowIds, StartInstall(f) PROVE FlowInv'
<1>1. Typed /\ Rules /\ flows[f] \in Flow /\ flows[f].pc = "legal"
  BY FlowInvParts DEF Typed, FlowTypes, StartInstall, At
<1>2. UNCHANGED <<task, comps, files, savedBell, nightSwitch, autoSwitch, bell, isChecking,
                  nightAlarm, init, reason, installer, installed, ab, running, rebootReq,
                  updaterResult, notices, crossed, requests, restarts>>
  BY DEF StartInstall, database, prefs, process, device, history, bounds
<1>3. RowsStay /\ (task'.status = "INSTALL_SUCCESS" /\ ab /\ ~crossed => \A v \in comps : IsInstalled(v))
  BY <1>1, <1>2, SameRows DEF Rules, SuccessIsInstalled
<1>4. CASE IsUpgradePackagesReady(flows[f].vers)
  <2> DEFINE pc == IF ab THEN "next" ELSE "updater"
             todo == flows[f].vers \X (1 .. NumComponents)
             r == [flows[f] EXCEPT !.todo = todo, !.vers = {}, !.pc = pc]
  <2>1. Set(f, r)
    BY <1>4 DEF StartInstall
  <2>2. pc \in Pc /\ pc \in {"next", "updater"} /\ (pc = "updater" => ~ab)
    BY DEF Pc
  <2>3. todo \in SUBSET Components
    BY <1>1, FlowFields DEF Components
  <2> HIDE DEF pc, todo
  <2>4. r \in Flow /\ r.pc = pc /\ r.vers = {} /\ r.todo = todo /\ r.tid = flows[f].tid
    BY <1>1, <2>2, <2>3 DEF Flow
  <2> HIDE DEF r
  <2>5. FlowTypes' /\ Others(f) /\ flows'[f].pc = pc /\ flows'[f].vers = {} /\ flows'[f].todo = todo
        /\ flows'[f].tid = flows[f].tid
    BY <1>1, <2>1, <2>4, SetEffect DEF Typed
  <2>6. ASSUME ~crossed, flows[f].tid # None PROVE Installs(f)'
    <3>1. flows[f].vers = {flows[f].tid}
      BY <1>1, <1>4, <2>6 DEF Rules, RowsAgree, RowsOf, IsUpgradePackagesReady
    <3>2. todo = Packages(flows[f].tid)
      BY <3>1 DEF todo, Packages
    <3>3. installer'.flow # f
      BY <1>1, <1>2 DEF JobIsOfInstall, Working
    <3>4. QED BY <2>2, <2>5, <3>2, <3>3 DEF Installs, Packages
  <2>7. RowsOf(f)' /\ flows'[f].pc \notin Filling
    BY <2>2, <2>5 DEF RowsOf, Filling, One
  <2>8. Rules'
    BY <1>2, <1>3, <2>2, <2>5, <2>6, <2>7, FlowMoves
  <2>9. QED BY <1>1, <1>2, <2>5, <2>8, TypesStay DEF FlowInv, Typed, Rules
<1>5. CASE ~IsUpgradePackagesReady(flows[f].vers)
  <2> DEFINE r == [flows[f] EXCEPT !.ok = FALSE, !.pc = "done"]
  <2>1. Set(f, r) /\ "done" \in Pc
    BY <1>5 DEF StartInstall, Pc
  <2>2. r \in Flow /\ r.pc = "done" /\ r.ok = FALSE /\ r.vers = flows[f].vers
    BY <1>1, <2>1 DEF Flow
  <2> HIDE DEF r
  <2>3. FlowTypes' /\ Others(f) /\ flows'[f].pc = "done" /\ flows'[f].ok = FALSE
        /\ flows'[f].vers = flows[f].vers
    BY <1>1, <2>1, <2>2, SetEffect DEF Typed
  <2>4. ~crossed => RowsOf(f)'
    BY <1>1, <2>3 DEF RowsOf, Filling, Rules, RowsAgree
  <2>5. flows'[f].pc \notin Filling /\ flows'[f].pc # "updater"
    BY <2>3 DEF Filling
  <2>6. Rules'
    BY <1>2, <1>3, <2>3, <2>4, <2>5, FlowMoves
  <2>7. QED BY <1>1, <1>2, <2>3, <2>6, TypesStay DEF FlowInv, Typed, Rules
<1>6. QED BY <1>4, <1>5

\* The result of the package before is forgotten.
LEMMA InitInstallProgressStep == ASSUME FlowInv, NEW f \in FlowIds, InitInstallProgress(f) PROVE FlowInv'
<1>1. Typed /\ Rules /\ flows[f] \in Flow /\ flows[f].pc = "next"
  BY FlowInvParts DEF Typed, FlowTypes, InitInstallProgress, At
<1>2. UNCHANGED <<task, comps, files, savedBell, nightSwitch, autoSwitch, bell, isChecking,
                  nightAlarm, init, reason, installer, installed, ab, running, rebootReq,
                  updaterResult, notices, crossed, requests, restarts>>
  BY DEF InitInstallProgress, database, prefs, process, device, history, bounds
<1>3. RowsStay /\ (task'.status = "INSTALL_SUCCESS" /\ ab /\ ~crossed => \A v \in comps : IsInstalled(v))
  BY <1>1, <1>2, SameRows DEF Rules, SuccessIsInstalled
<1> DEFINE r == [flows[f] EXCEPT !.progress = "INSTALLING", !.pc = "ready"]
<1>4. "ready" \in Pc
  BY DEF Pc
<1>5. /\ r \in Flow /\ r.pc = "ready" /\ r.ok = flows[f].ok /\ r.vers = flows[f].vers /\ r.kind = flows[f].kind
      /\ r.tid = flows[f].tid /\ r.todo = flows[f].todo /\ r.progress = "INSTALLING"
  BY <1>1, <1>4 DEF Flow
<1>6. Set(f, r)
  BY DEF InitInstallProgress
<1> HIDE DEF r
<1>7. FlowTypes' /\ Others(f) /\ flows'[f] = r
  BY <1>1, <1>5, <1>6, SetEffect DEF Typed
<1>8. ~crossed => RowsOf(f)'
  BY <1>1, <1>5, <1>7 DEF RowsOf, Filling, Rules, RowsAgree
<1>9. flows'[f].pc \notin Filling /\ flows'[f].pc # "updater"
  BY <1>5, <1>7 DEF Filling
<1>10. ASSUME ab, ~crossed, flows'[f].ok, flows'[f].tid # None PROVE Installs(f)'
  <2>1. Installs(f)
    BY <1>1, <1>5, <1>7, <1>10 DEF Rules, NothingLeftOut
  <2>2. QED BY <1>1, <1>2, <1>5, <1>7, <2>1 DEF Installs, Packages
<1>11. Rules'
  BY <1>2, <1>3, <1>7, <1>8, <1>9, <1>10, FlowMoves
<1>12. QED BY <1>1, <1>2, <1>7, <1>11, TypesStay DEF FlowInv, Typed, Rules

\* The next package goes to the installer, or is refused.
LEMMA DoSysInstallStep == ASSUME FlowInv, NEW f \in FlowIds, DoSysInstall(f) PROVE FlowInv'
<1>1. Typed /\ Rules /\ flows[f] \in Flow /\ flows[f].pc = "ready"
  BY FlowInvParts DEF Typed, FlowTypes, DoSysInstall, At
<1>2. UNCHANGED <<task, comps, files, savedBell, nightSwitch, autoSwitch, bell, isChecking,
                  nightAlarm, init, reason, installed, ab, running, rebootReq,
                  updaterResult, notices, crossed, requests, restarts>>
  BY DEF DoSysInstall, database, prefs, process, history, bounds
<1>3. RowsStay /\ (task'.status = "INSTALL_SUCCESS" /\ ab /\ ~crossed => \A v \in comps : IsInstalled(v))
  BY <1>1, <1>2, SameRows DEF Rules, SuccessIsInstalled
<1> DEFINE rest(c) == [flows[f] EXCEPT !.todo = @ \ {c}]
<1>4. PICK c \in flows[f].todo :
        \/ Set(f, [rest(c) EXCEPT !.ok = FALSE, !.pc = "next"]) /\ UNCHANGED installer
        \/ installer' = [job |-> c, flow |-> f] /\ Set(f, [rest(c) EXCEPT !.pc = "wait"])
  BY DEF DoSysInstall
<1>5. c \in Components /\ "wait" \in Pc /\ "next" \in Pc
  BY <1>1, FlowFields DEF Pc
<1>6. /\ rest(c) \in Flow /\ rest(c).todo = flows[f].todo \ {c}
      /\ rest(c).progress = flows[f].progress /\ rest(c).vers = flows[f].vers
      /\ rest(c).tid = flows[f].tid /\ rest(c).ok = flows[f].ok
  BY <1>1 DEF Flow
<1> HIDE DEF rest
<1>7. CASE Set(f, [rest(c) EXCEPT !.ok = FALSE, !.pc = "next"]) /\ UNCHANGED installer
  <2> DEFINE r == [rest(c) EXCEPT !.ok = FALSE, !.pc = "next"]
  <2>1. r \in Flow /\ r.pc = "next" /\ r.ok = FALSE /\ r.vers = flows[f].vers
    BY <1>5, <1>6 DEF Flow
  <2>2. Set(f, r)
    BY <1>7
  <2> HIDE DEF r
  <2>3. FlowTypes' /\ Others(f) /\ flows'[f].pc = "next" /\ flows'[f].ok = FALSE
        /\ flows'[f].vers = flows[f].vers
    BY <1>1, <2>1, <2>2, SetEffect DEF Typed
  <2>4. ~crossed => RowsOf(f)'
    BY <1>1, <2>3 DEF RowsOf, Filling, Rules, RowsAgree
  <2>5. flows'[f].pc \notin Filling /\ flows'[f].pc # "updater"
    BY <2>3 DEF Filling
  <2>6. Rules'
    BY <1>2, <1>3, <1>7, <2>3, <2>4, <2>5, FlowMoves
  <2>7. QED BY <1>1, <1>2, <1>7, <2>3, <2>6, TypesStay DEF FlowInv, Typed, Rules
<1>8. CASE installer' = [job |-> c, flow |-> f] /\ Set(f, [rest(c) EXCEPT !.pc = "wait"])
  <2> DEFINE r == [rest(c) EXCEPT !.pc = "wait"]
  <2>1. /\ r \in Flow /\ r.pc = "wait" /\ r.ok = flows[f].ok /\ r.vers = flows[f].vers
        /\ r.tid = flows[f].tid /\ r.todo = flows[f].todo \ {c} /\ r.progress = flows[f].progress
    BY <1>5, <1>6 DEF Flow
  <2>2. Set(f, r)
    BY <1>8
  <2> HIDE DEF r
  <2>3. FlowTypes' /\ Others(f) /\ flows'[f] = r
    BY <1>1, <2>1, <2>2, SetEffect DEF Typed
  <2>4. ~crossed => RowsOf(f)'
    BY <1>1, <2>1, <2>3 DEF RowsOf, Filling, Rules, RowsAgree
  <2>5. flows'[f].pc \notin Filling /\ flows'[f].pc # "updater"
    BY <2>1, <2>3 DEF Filling
  <2>6. installer'.job = c /\ installer'.flow = f /\ JobTypes'
    BY <1>1, <1>2, <1>5, <1>8 DEF Typed, JobTypes
  <2>7. ASSUME ab, ~crossed, flows'[f].ok, flows'[f].tid # None PROVE Installs(f)'
    <3>1. /\ Packages(flows[f].tid) \subseteq installed \cup flows[f].todo
          /\ flows[f].progress # "INSTALL_SUCCESS"
      BY <1>1, <2>1, <2>3, <2>7 DEF Rules, NothingLeftOut, Installs
    <3>2. Packages(flows[f].tid) \subseteq installed \cup (flows[f].todo \ {c}) \cup {c}
      BY <3>1
    <3>3. QED BY <1>2, <2>1, <2>3, <2>6, <3>1, <3>2 DEF Installs, Packages
  <2>8. Rules'
    BY <1>2, <1>3, <2>3, <2>4, <2>5, <2>6, <2>7, FlowMoves
  <2>9. QED BY <1>1, <1>2, <2>3, <2>6, <2>8, TypesStay DEF FlowInv, Typed, Rules
<1>9. QED BY <1>4, <1>7, <1>8

\* The wait for the installer ends, with its success or not.
LEMMA WaitInstallResultStep == ASSUME FlowInv, NEW f \in FlowIds, WaitInstallResult(f) PROVE FlowInv'
<1>1. Typed /\ Rules /\ flows[f] \in Flow /\ flows[f].pc = "wait"
  BY FlowInvParts DEF Typed, FlowTypes, WaitInstallResult, At
<1>2. UNCHANGED <<task, comps, files, savedBell, nightSwitch, autoSwitch, bell, isChecking,
                  nightAlarm, init, reason, installer, installed, ab, running, rebootReq,
                  updaterResult, notices, crossed, requests, restarts>>
  BY DEF WaitInstallResult, database, prefs, process, device, history, bounds
<1>3. RowsStay /\ (task'.status = "INSTALL_SUCCESS" /\ ab /\ ~crossed => \A v \in comps : IsInstalled(v))
  BY <1>1, <1>2, SameRows DEF Rules, SuccessIsInstalled
<1>4. /\ FlowTypes' /\ Others(f) /\ flows'[f].pc = "next" /\ flows'[f].vers = flows[f].vers
      /\ flows'[f].tid = flows[f].tid /\ flows'[f].todo = flows[f].todo
      /\ flows'[f].ok => flows[f].ok /\ flows[f].progress = "INSTALL_SUCCESS"
  <2>1. CASE flows[f].progress = "INSTALL_SUCCESS" /\ Goto(f, "next")
    BY <1>1, <2>1, GotoEffect DEF Typed, Pc
  <2>2. CASE Set(f, [flows[f] EXCEPT !.ok = FALSE, !.pc = "next"])
    <3> DEFINE r == [flows[f] EXCEPT !.ok = FALSE, !.pc = "next"]
    <3>1. "next" \in Pc
      BY DEF Pc
    <3>2. /\ r \in Flow /\ r.pc = "next" /\ r.ok = FALSE /\ r.vers = flows[f].vers
          /\ r.tid = flows[f].tid /\ r.todo = flows[f].todo
      BY <1>1, <3>1 DEF Flow
    <3> HIDE DEF r
    <3>3. Set(f, r)
      BY <2>2 DEF r
    <3>4. QED BY <1>1, <3>2, <3>3, SetEffect DEF Typed
  <2>3. QED BY <2>1, <2>2 DEF WaitInstallResult
<1>5. ~crossed => RowsOf(f)'
  BY <1>1, <1>4 DEF RowsOf, Filling, Rules, RowsAgree
<1>6. flows'[f].pc \notin Filling /\ flows'[f].pc # "updater"
  BY <1>4 DEF Filling
<1>7. ASSUME ab, ~crossed, flows'[f].ok, flows'[f].tid # None PROVE Installs(f)'
  <2>1. installer.flow # f /\ Packages(flows[f].tid) \subseteq installed \cup flows[f].todo
    BY <1>1, <1>4, <1>7 DEF Rules, NothingLeftOut, Installs
  <2>2. QED BY <1>2, <1>4, <2>1 DEF Installs, Packages
<1>8. Rules'
  BY <1>2, <1>3, <1>4, <1>5, <1>6, <1>7, FlowMoves
<1>9. QED BY <1>1, <1>2, <1>4, <1>8, TypesStay DEF FlowInv, Typed, Rules

\* Nothing is left to install.
LEMMA PerformInstallEndStep == ASSUME FlowInv, NEW f \in FlowIds, PerformInstallEnd(f) PROVE FlowInv'
<1>1. Typed /\ Rules /\ flows[f] \in Flow /\ flows[f].pc = "next" /\ flows[f].todo = {}
  BY FlowInvParts DEF Typed, FlowTypes, PerformInstallEnd, At
<1>2. UNCHANGED <<task, comps, files, savedBell, nightSwitch, autoSwitch, bell, isChecking,
                  nightAlarm, init, reason, installer, installed, ab, running, rebootReq,
                  updaterResult, notices, crossed, requests, restarts>>
  BY DEF PerformInstallEnd, database, prefs, process, device, history, bounds
<1>3. RowsStay /\ (task'.status = "INSTALL_SUCCESS" /\ ab /\ ~crossed => \A v \in comps : IsInstalled(v))
  BY <1>1, <1>2, SameRows DEF Rules, SuccessIsInstalled
<1>4. /\ FlowTypes' /\ Others(f) /\ flows'[f].pc = "done" /\ flows'[f].vers = flows[f].vers
      /\ flows'[f].tid = flows[f].tid /\ flows'[f].ok = flows[f].ok
  BY <1>1, GotoEffect DEF PerformInstallEnd, Typed, Pc
<1>5. ~crossed => RowsOf(f)'
  BY <1>1, <1>4 DEF RowsOf, Filling, Rules, RowsAgree
<1>6. flows'[f].pc \notin Filling /\ flows'[f].pc # "updater"
  BY <1>4 DEF Filling
<1>7. ASSUME ab, ~crossed, flows'[f].ok, flows'[f].tid # None PROVE Installs(f)'
  <2>1. Packages(flows[f].tid) \subseteq installed
    BY <1>1, <1>4, <1>7 DEF Rules, NothingLeftOut, Installs
  <2>2. QED BY <1>2, <1>4, <2>1 DEF Installs, Packages
<1>8. Rules'
  BY <1>2, <1>3, <1>4, <1>5, <1>6, <1>7, FlowMoves
<1>9. QED BY <1>1, <1>2, <1>4, <1>8, TypesStay DEF FlowInv, Typed, Rules


\* The updater is asked to install, by a reboot, or refuses.
LEMMA DoUpdaterInstallStep == ASSUME FlowInv, NEW f \in FlowIds, DoUpdaterInstall(f) PROVE FlowInv'
<1>1. Typed /\ Rules /\ flows[f] \in Flow /\ flows[f].pc = "updater"
  BY FlowInvParts DEF Typed, FlowTypes, DoUpdaterInstall, At
<1>2. UNCHANGED <<task, comps, files, savedBell, nightSwitch, autoSwitch, bell, isChecking,
                  nightAlarm, init, reason, installer, installed, ab, running,
                  updaterResult, notices, crossed, requests, restarts>>
  BY DEF DoUpdaterInstall, database, prefs, process, history, bounds
<1>3. RowsStay /\ (task'.status = "INSTALL_SUCCESS" /\ ab /\ ~crossed => \A v \in comps : IsInstalled(v))
  BY <1>1, <1>2, SameRows DEF Rules, SuccessIsInstalled
<1>4. ~ab
  BY <1>1 DEF Rules, NothingLeftOut
<1>5. FlowTypes' /\ Others(f) /\ flows'[f].pc = "done" /\ flows'[f].vers = flows[f].vers
  <2> DEFINE r(ok) == [flows[f] EXCEPT !.todo = {}, !.ok = ok, !.pc = "done"]
             q == [flows[f] EXCEPT !.todo = {}, !.pc = "done"]
  <2>1. "done" \in Pc
    BY DEF Pc
  <2>2. q \in Flow /\ q.pc = "done" /\ q.vers = flows[f].vers
    BY <1>1, <2>1 DEF Flow
  <2>3. r(FALSE) \in Flow /\ r(FALSE).pc = "done" /\ r(FALSE).vers = flows[f].vers
    BY <1>1, <2>1 DEF Flow
  <2>4. Set(f, q) \/ Set(f, r(FALSE))
    BY DEF DoUpdaterInstall
  <2> HIDE DEF q, r
  <2>5. QED BY <1>1, <2>2, <2>3, <2>4, SetEffect DEF Typed
<1>6. rebootReq' \in [how : {"no", "reboot", "updater"}, vers : SUBSET Versions]
  <2> DEFINE vs == {c[1] : c \in flows[f].todo}
  <2>1. vs \in SUBSET Versions
    BY <1>1, FlowFields DEF Components
  <2> HIDE DEF vs
  <2>2. [how |-> "updater", vers |-> vs] \in [how : {"no", "reboot", "updater"}, vers : SUBSET Versions]
    BY <2>1
  <2>3. rebootReq' = [how |-> "updater", vers |-> vs] \/ UNCHANGED rebootReq
    BY DEF DoUpdaterInstall, vs
  <2>4. QED BY <1>1, <2>2, <2>3 DEF Typed, SlotTypes
<1>7. SlotTypes'
  BY <1>1, <1>2, <1>6 DEF Typed, SlotTypes
<1>8. ~crossed => RowsOf(f)'
  BY <1>1, <1>5 DEF RowsOf, Filling, Rules, RowsAgree
<1>9. flows'[f].pc \notin Filling /\ flows'[f].pc # "updater"
  BY <1>5 DEF Filling
<1>10. Rules'
  BY <1>2, <1>3, <1>4, <1>5, <1>8, <1>9, FlowMoves
<1>11. QED BY <1>1, <1>2, <1>5, <1>7, <1>10, TypesStay DEF FlowInv, Typed, Rules

\* All packages of a version are there: the two ways to say it.
LEMMA PackagesInstalled == \A v : Packages(v) \subseteq installed <=> IsInstalled(v)
BY DEF Packages, IsInstalled

\* The outcome of the install is written to its row.
LEMMA HandleInstallResultStep == ASSUME FlowInv, NEW f \in FlowIds, HandleInstallResult(f) PROVE FlowInv'
<1> DEFINE st == CASE flows[f].ok        -> "INSTALL_SUCCESS"
                   [] ~flows[f].ok /\ ab -> "INSTALL_FAIL"
                   [] OTHER              -> "UPDATE_FAIL"
           r == [flows[f] EXCEPT !.pc = "after", !.vers = {}, !.ok = TRUE, !.progress = "INSTALLING"]
<1>1. Typed /\ Rules /\ flows[f] \in Flow /\ flows[f].pc = "done"
  BY FlowInvParts DEF Typed, FlowTypes, HandleInstallResult, At
<1>2. /\ UpdateStatusByTaskId(flows[f].tid, st) /\ Set(f, r)
      /\ UNCHANGED <<comps, files, savedBell, nightSwitch, autoSwitch, bell, isChecking,
                     nightAlarm, init, reason, installer, installed, ab, running, rebootReq,
                     updaterResult, notices, crossed, requests, restarts>>
  BY DEF HandleInstallResult, prefs, process, device, history, bounds
<1>3. st \in Status /\ (st = "INSTALL_SUCCESS" => flows[f].ok)
  <2>1. st \in {"INSTALL_SUCCESS", "INSTALL_FAIL", "UPDATE_FAIL"} /\ (st = "INSTALL_SUCCESS" => flows[f].ok)
    <3>1. CASE flows[f].ok
      BY <3>1
    <3>2. CASE ~flows[f].ok /\ ab
      BY <3>2
    <3>3. CASE ~flows[f].ok /\ ~ab
      BY <3>3
    <3>4. QED BY <3>1, <3>2, <3>3
  <2>2. QED BY <2>1 DEF Status
<1> HIDE DEF st
<1>4. /\ RowTypes' /\ RowsStay
      /\ task' = task \/ (task'.status = st /\ task.ver = flows[f].tid /\ task # NoTask)
  BY <1>1, <1>2, <1>3, UpdateEffect DEF Typed, RowTypes, RowsStay
<1>5. r \in Flow /\ r.pc = "after" /\ r.vers = {}
  <2>1. "after" \in Pc
    BY DEF Pc
  <2>2. QED BY <1>1, <2>1 DEF Flow
<1> HIDE DEF r
<1>6. FlowTypes' /\ Others(f) /\ flows'[f].pc = "after" /\ flows'[f].vers = {}
  BY <1>1, <1>2, <1>5, SetEffect DEF Typed
<1>7. RowsOf(f)' /\ Installs(f)' /\ flows'[f].pc \notin Filling /\ flows'[f].pc # "updater"
  BY <1>6 DEF RowsOf, Installs, Filling, One
<1>8. ASSUME task'.status = "INSTALL_SUCCESS", ab, ~crossed, NEW v \in comps PROVE IsInstalled(v)
  <2>1. CASE task' = task
    BY <1>1, <1>8, <2>1 DEF Rules, SuccessIsInstalled
  <2>2. CASE task'.status = st /\ task.ver = flows[f].tid /\ task # NoTask
    <3>1. flows[f].ok /\ flows[f].tid # None
      BY <1>1, <1>3, <1>8, <2>2, TaskFacts DEF Typed
    <3>2. Packages(flows[f].tid) \subseteq installed
      BY <1>1, <1>8, <3>1 DEF Rules, NothingLeftOut, Installs
    <3>3. v = flows[f].tid
      BY <1>1, <1>8, <2>2 DEF Rules, RowsAgree
    <3>4. QED BY <3>2, <3>3, PackagesInstalled
  <2>3. QED BY <1>4, <2>1, <2>2
<1>9. Rules'
  BY <1>2, <1>4, <1>6, <1>7, <1>8, FlowMoves
<1>10. QED BY <1>1, <1>2, <1>4, <1>6, <1>9, TypesStay DEF FlowInv, Typed, Rules

\* The end of an install: the installer's job is nobody's.
LEMMA FinishInstallEffect ==
    ASSUME Typed, NEW f \in FlowIds, FinishInstall(f), UNCHANGED installed
    PROVE  /\ FlowTypes' /\ JobTypes' /\ \A g \in FlowIds : Calm(g)
           /\ installer' = installer \/ installer'.flow = 0
<1>1. FlowTypes' /\ Others(f) /\ flows'[f].pc = "idle" /\ flows'[f].vers = {}
  BY FinishEffect DEF FinishInstall, Typed
<1>2. Calm(f)
  BY <1>1 DEF Calm, Watched, Filling, One
<1>3. JobTypes' /\ (installer' = installer \/ installer'.flow = 0)
  <2>1. installer' = [installer EXCEPT !.flow = IF installer.flow = f THEN 0 ELSE installer.flow]
    BY DEF FinishInstall
  <2>2. CASE installer.flow = f
    <3>1. installer' = [installer EXCEPT !.flow = 0]
      BY <2>1, <2>2
    <3>2. QED BY <3>1, DisownEffect DEF Typed
  <2>3. CASE installer.flow # f
    <3>1. installer' = [installer EXCEPT !.flow = installer.flow]
      BY <2>1, <2>3
    <3>2. installer' = installer
      BY <3>1 DEF Typed, JobTypes, Nobody
    <3>3. QED BY <3>2, TypesStay DEF Typed
  <2>4. QED BY <2>2, <2>3
<1>4. QED BY <1>1, <1>2, <1>3, CalmFlows

\* The flow looks at the status it wrote: success, or everything is cleared.
LEMMA GetStepAfterInstallStep == ASSUME FlowInv, NEW f \in FlowIds, GetStepAfterInstall(f) PROVE FlowInv'
<1>1. Typed /\ Rules /\ flows[f] \in Flow
  BY FlowInvParts DEF Typed, FlowTypes
<1>2. UNCHANGED <<nightSwitch, autoSwitch, isChecking, nightAlarm, init, reason, installed, ab, running,
                  rebootReq, updaterResult, notices, crossed, requests, restarts>>
  BY DEF GetStepAfterInstall, process, history, bounds
<1>3. CASE task.status = "INSTALL_SUCCESS"
  <2>1. Goto(f, "after2") /\ UNCHANGED <<task, comps, files, savedBell, bell, installer>>
    BY <1>3 DEF GetStepAfterInstall, database
  <2>2. FlowTypes' /\ Others(f) /\ flows'[f].pc = "after2" /\ flows'[f].vers = flows[f].vers
    BY <1>1, <2>1, GotoEffect DEF Typed, Pc
  <2>3. Calm(f)
    BY <1>1, <2>2 DEF Calm, Watched, Filling, Rules, RowsAgree, RowsOf
  <2>4. Quiet
    BY <1>2, <2>1, <2>2, <2>3, CalmFlows, SameRows DEF Quiet
  <2>5. Typed'
    BY <1>1, <1>2, <2>1, <2>2, TypesStay DEF Typed
  <2>6. QED BY <2>4, <2>5, QuietInv
<1>4. CASE task.status # "INSTALL_SUCCESS"
  <2>1. ProcessAfterUpgrade(flows[f].mode) /\ ClearFirmwareInfo /\ FinishInstall(f)
    BY <1>4 DEF GetStepAfterInstall
  <2>2. /\ FlowTypes' /\ JobTypes' /\ \A g \in FlowIds : Calm(g)
        /\ installer' = installer \/ installer'.flow = 0
    BY <1>1, <1>2, <2>1, FinishInstallEffect
  <2>3. RowsClear /\ RowTypes' /\ task'.status # "INSTALL_SUCCESS"
    BY <2>1, ClearEffect, TaskFacts DEF RowsClear
  <2>4. PrefTypes'
    BY <1>1, <1>2, <2>1, BellEffect DEF Typed, PrefTypes
  <2>5. Quiet
    BY <1>2, <2>2, <2>3 DEF Quiet
  <2>6. Typed'
    BY <1>1, <1>2, <2>2, <2>3, <2>4, TypesStay DEF Typed
  <2>7. QED BY <2>5, <2>6, QuietInv
<1>5. QED BY <1>3, <1>4

\* It looks again, and applies or ends.
LEMMA GetApplyStepStep == ASSUME FlowInv, NEW f \in FlowIds, GetApplyStep(f) PROVE FlowInv'
<1>1. Typed /\ Rules /\ flows[f] \in Flow
  BY FlowInvParts DEF Typed, FlowTypes
<1>2. UNCHANGED <<task, comps, files, savedBell, nightSwitch, autoSwitch, bell, isChecking, nightAlarm,
                  init, reason, installed, ab, running, rebootReq, updaterResult, notices, crossed,
                  requests, restarts>>
  BY DEF GetApplyStep, database, prefs, process, history, bounds
<1>3. /\ FlowTypes' /\ JobTypes' /\ \A g \in FlowIds : Calm(g)
      /\ installer' = installer \/ installer'.flow = 0
  <2>1. CASE Goto(f, "apply") /\ UNCHANGED installer
    <3>1. FlowTypes' /\ Others(f) /\ flows'[f].pc = "apply" /\ flows'[f].vers = flows[f].vers
      BY <1>1, <2>1, GotoEffect DEF Typed, Pc
    <3>2. Calm(f)
      BY <1>1, <3>1 DEF Calm, Watched, Filling, Rules, RowsAgree, RowsOf
    <3>3. QED BY <1>1, <1>2, <2>1, <3>1, <3>2, CalmFlows, TypesStay DEF Typed
  <2>2. CASE FinishInstall(f)
    BY <1>1, <1>2, <2>2, FinishInstallEffect
  <2>3. QED BY <2>1, <2>2 DEF GetApplyStep
<1>4. Quiet
  BY <1>2, <1>3, SameRows DEF Quiet
<1>5. Typed'
  BY <1>1, <1>2, <1>3, TypesStay DEF Typed
<1>6. QED BY <1>4, <1>5, QuietInv

\* The apply asks for a reboot.
LEMMA DoApplyStep == ASSUME FlowInv, NEW f \in FlowIds, DoApply(f) PROVE FlowInv'
<1>1. Typed /\ Rules /\ flows[f] \in Flow
  BY FlowInvParts DEF Typed, FlowTypes
<1>2. UNCHANGED <<task, comps, files, savedBell, nightSwitch, autoSwitch, bell, isChecking, nightAlarm,
                  init, reason, installed, ab, running, updaterResult, notices, crossed,
                  requests, restarts>>
  BY DEF DoApply, database, prefs, process, history, bounds
<1>3. /\ FlowTypes' /\ JobTypes' /\ \A g \in FlowIds : Calm(g)
      /\ installer' = installer \/ installer'.flow = 0
  <2>1. CASE Goto(f, "rebooting") /\ UNCHANGED installer
    <3>1. FlowTypes' /\ Others(f) /\ flows'[f].pc = "rebooting" /\ flows'[f].vers = flows[f].vers
      BY <1>1, <2>1, GotoEffect DEF Typed, Pc
    <3>2. Calm(f)
      BY <1>1, <3>1 DEF Calm, Watched, Filling, Rules, RowsAgree, RowsOf
    <3>3. QED BY <1>1, <1>2, <2>1, <3>1, <3>2, CalmFlows, TypesStay DEF Typed
  <2>2. CASE FinishInstall(f)
    BY <1>1, <1>2, <2>2, FinishInstallEffect
  <2>3. QED BY <2>1, <2>2 DEF DoApply
<1>4. SlotTypes'
  <2>1. rebootReq' = rebootReq \/ rebootReq' = [Stay EXCEPT !.how = "reboot"]
    BY DEF DoApply
  <2>2. [Stay EXCEPT !.how = "reboot"] \in [how : {"no", "reboot", "updater"}, vers : SUBSET Versions]
    BY DEF Stay
  <2>3. QED BY <1>1, <1>2, <2>1, <2>2 DEF Typed, SlotTypes
<1>5. Quiet
  BY <1>2, <1>3, SameRows DEF Quiet
<1>6. Typed'
  BY <1>1, <1>2, <1>3, <1>4, TypesStay DEF Typed
<1>7. QED BY <1>5, <1>6, QuietInv

-----------------------------------------------------------------------------
(* The installer, the end of the process, the reboot and the next start    *)

\* The installer reports to the flow it works for, or to nobody.
LEMMA InstallerReportStep == ASSUME FlowInv, InstallerReport PROVE FlowInv'
<1>1. Typed /\ Rules
  BY FlowInvParts
<1>2. /\ Settled
      /\ UNCHANGED <<task, comps, files, savedBell, nightSwitch, autoSwitch, bell, isChecking, nightAlarm,
                     init, reason, ab, running, rebootReq, updaterResult, notices, crossed, requests,
                     restarts>>
  BY DEF InstallerReport, database, prefs, process, history, bounds
<1>3. installer.job \in Components /\ \E f \in FlowIds \cup {0} : f = installer.flow
  BY <1>1 DEF Typed, JobTypes, InstallerReport
<1> PICK f \in FlowIds \cup {0} : f = installer.flow
  BY <1>3
<1> DEFINE Tell(status) == IF f = 0 THEN UNCHANGED flows
                           ELSE Set(f, [flows[f] EXCEPT !.progress = status, !.late = TRUE])
<1>4. PICK status \in {"INSTALLING", "INSTALL_FAIL", "INSTALL_SUCCESS"} :
        /\ Tell(status)
        /\ status = "INSTALLING" => f # 0 /\ installer' = installer
        /\ status # "INSTALLING" => installer' = Nobody
        /\ status = "INSTALL_SUCCESS" => installed' = installed \cup {installer.job}
        /\ status # "INSTALL_SUCCESS" => installed' = installed
  BY DEF InstallerReport
<1>5. /\ installed \subseteq installed' /\ JobTypes'
      /\ installer' = installer \/ installer'.flow = 0
  <2>1. Nobody.flow = 0
    BY DEF Nobody
  <2>2. installer' = installer \/ installer' = Nobody
    BY <1>4
  <2>3. installed \subseteq installed' /\ installed' \subseteq installed \cup {installer.job}
    BY <1>4
  <2>4. JobTypes'
    BY <1>1, <1>3, <2>2, <2>3 DEF Typed, JobTypes
  <2>5. QED BY <2>1, <2>2, <2>3, <2>4
<1>6. CASE f = 0
  <2>1. UNCHANGED flows
    BY <1>4, <1>6
  <2>2. Quiet
    BY <1>2, <1>5, <2>1, CalmFlows, SameRows DEF Quiet
  <2>3. Typed'
    BY <1>1, <1>2, <1>5, <2>1, TypesStay DEF Typed
  <2>4. QED BY <2>2, <2>3, QuietInv
<1>7. CASE f # 0
  <2> DEFINE r == [flows[f] EXCEPT !.progress = status, !.late = TRUE]
  <2>1. f \in FlowIds /\ Set(f, r) /\ flows[f] \in Flow
    BY <1>1, <1>3, <1>4, <1>7 DEF Typed, FlowTypes
  <2>2. /\ r \in Flow /\ r.pc = flows[f].pc /\ r.vers = flows[f].vers /\ r.tid = flows[f].tid
        /\ r.todo = flows[f].todo /\ r.ok = flows[f].ok /\ r.progress = status
    BY <2>1 DEF Flow
  <2> HIDE DEF r
  <2>3. FlowTypes' /\ Others(f) /\ flows'[f] = r
    BY <1>1, <2>1, <2>2, SetEffect DEF Typed
  <2>4. flows'[f].pc \notin Filling /\ (flows'[f].pc = "updater" => ~ab)
    BY <1>1, <1>2, <2>1, <2>2, <2>3 DEF Settled, Filling, Rules, NothingLeftOut
  <2>5. RowsStay /\ (task'.status = "INSTALL_SUCCESS" /\ ab /\ ~crossed => \A v \in comps : IsInstalled(v))
    BY <1>1, <1>2, SameRows DEF Rules, SuccessIsInstalled
  <2>6. ~crossed => RowsOf(f)'
    <3>1. ~crossed => RowsOf(f)
      BY <1>1, <2>1 DEF Rules, RowsAgree
    <3>2. QED BY <1>2, <2>2, <2>3, <3>1 DEF RowsOf
  <2>7. ASSUME ab, ~crossed, flows'[f].ok, flows'[f].tid # None PROVE Installs(f)'
    <3>1. Installs(f)
      BY <1>1, <2>1, <2>2, <2>3, <2>7 DEF Rules, NothingLeftOut
    <3>2. installer.flow = f
      OBVIOUS
    <3>3. ASSUME flows[f].pc = "wait", status = "INSTALL_SUCCESS"
          PROVE  installer'.flow # f /\ Packages(flows[f].tid) \subseteq installed' \cup flows[f].todo
      <4>1. f # 0 /\ installer' = Nobody
        BY <1>4, <2>1, <3>3, FlowAssumption
      <4>2. installer'.flow # f
        BY <4>1 DEF Nobody
      <4>3. QED BY <1>4, <3>1, <3>2, <3>3, <4>2 DEF Installs
    <3>4. ASSUME flows[f].pc = "wait", installer'.flow = f
          PROVE  Packages(flows[f].tid) \subseteq installed' \cup flows[f].todo \cup {installer'.job}
      <4>1. f # 0
        BY <2>1, FlowAssumption
      <4>2. installer' = installer
        BY <1>5, <3>4, <4>1
      <4>3. QED BY <1>5, <3>1, <3>2, <3>4, <4>2 DEF Installs
    <3>5. flows[f].pc \notin {"next", "ready"}
      BY <3>1, <3>2 DEF Installs
    <3>6. flows[f].pc = "done" => Packages(flows[f].tid) \subseteq installed'
      BY <1>5, <3>1 DEF Installs
    <3>7. QED BY <2>2, <2>3, <3>3, <3>4, <3>5, <3>6 DEF Installs, Packages
  <2>8. Rules'
    BY <1>2, <1>5, <2>1, <2>3, <2>4, <2>5, <2>6, <2>7, FlowMoves
  <2>9. QED BY <1>1, <1>2, <1>5, <2>3, <2>8, TypesStay DEF FlowInv, Typed, Rules
<1>8. QED BY <1>6, <1>7

\* The second half of a callback writes INSTALLING, if it finds its row.
LEMMA HandleInstallProgressStep ==
    ASSUME FlowInv, NEW f \in FlowIds, HandleInstallProgress(f) PROVE FlowInv'
<1> DEFINE r == [flows[f] EXCEPT !.late = FALSE]
<1>1. Typed /\ flows[f] \in Flow
  BY FlowInvParts DEF Typed, FlowTypes
<1>2. UNCHANGED <<comps, files, savedBell, nightSwitch, autoSwitch, bell, isChecking, nightAlarm, init,
                  reason, installer, installed, ab, running, rebootReq, updaterResult, notices, crossed,
                  requests, restarts>>
  BY DEF HandleInstallProgress, prefs, process, device, history, bounds
<1>3. RowTypes' /\ RowsStay /\ (task'.status = "INSTALL_SUCCESS" => task.status = "INSTALL_SUCCESS")
  <2>1. CASE UpdateStatusByTaskId(flows[f].tid, "INSTALLING")
    <3>1. "INSTALLING" \in Status
      BY DEF Status
    <3>2. QED BY <1>1, <1>2, <2>1, <3>1, UpdateEffect DEF Typed, RowTypes, RowsStay
  <2>2. CASE UNCHANGED task
    BY <1>1, <1>2, <2>2, TypesStay, SameRows DEF Typed
  <2>3. QED BY <2>1, <2>2 DEF HandleInstallProgress
<1>4. FlowTypes' /\ Others(f) /\ Calm(f)
  <2>1. CASE Set(f, IdleFlow)
    <3>1. FlowTypes' /\ Others(f) /\ flows'[f] = IdleFlow
      BY <1>1, <2>1, IdleFields, SetEffect DEF Typed
    <3>2. QED BY <3>1, IdleFields DEF Calm, Watched, Filling, One
  <2>2. CASE Set(f, r)
    <3>1. /\ r \in Flow /\ r.pc = flows[f].pc /\ r.vers = flows[f].vers /\ r.tid = flows[f].tid
          /\ r.todo = flows[f].todo /\ r.ok = flows[f].ok /\ r.progress = flows[f].progress
      BY <1>1 DEF Flow
    <3> HIDE DEF r
    <3>2. FlowTypes' /\ Others(f) /\ flows'[f] = r
      BY <1>1, <2>2, <3>1, SetEffect DEF Typed
    <3>3. QED BY <3>1, <3>2 DEF Calm, SameFlow
  <2>3. QED BY <2>1, <2>2 DEF HandleInstallProgress
<1>5. Quiet
  BY <1>2, <1>3, <1>4, CalmFlows DEF Quiet
<1>6. Typed'
  BY <1>1, <1>2, <1>3, <1>4, TypesStay DEF Typed
<1>7. QED BY <1>5, <1>6, QuietInv

\* The process ends and starts again.
LEMMA ProcessEndStep == ASSUME FlowInv, ProcessEnd PROVE FlowInv'
<1>1. Typed
  BY FlowInvParts
<1>2. /\ Accident /\ Restart("PROCESS_INIT") /\ installer' = [installer EXCEPT !.flow = 0]
      /\ UNCHANGED <<task, comps, files, savedBell, nightSwitch, autoSwitch, bell, installed, ab, running,
                     rebootReq, updaterResult, notices, crossed>>
  BY DEF ProcessEnd, database, prefs, history
<1>3. FlowTypes' /\ ProcTypes' /\ \A f \in FlowIds : Calm(f)
  BY <1>2, RestartEffect, CalmFlows
<1>4. JobTypes' /\ installer'.flow = 0 /\ BoundTypes'
  BY <1>1, <1>2, DisownEffect, RequestEffect DEF Typed
<1>5. Quiet
  BY <1>2, <1>3, <1>4, SameRows DEF Quiet
<1>6. Typed'
  BY <1>1, <1>2, <1>3, <1>4, TypesStay DEF Typed
<1>7. QED BY <1>5, <1>6, QuietInv

\* The upgrade is terminated: the next process forgets everything.
LEMMA DoTerminateUpgradeStep == ASSUME FlowInv, DoTerminateUpgrade PROVE FlowInv'
<1>1. Typed
  BY FlowInvParts
<1>2. /\ Request /\ Restart("PROCESS_INIT") /\ installer' = [installer EXCEPT !.flow = 0]
      /\ ClearFirmwareInfo /\ savedBell' = FALSE /\ nightSwitch' = FALSE /\ autoSwitch' = FALSE
      /\ UNCHANGED <<bell, installed, ab, running, rebootReq, updaterResult, notices, crossed>>
  BY DEF DoTerminateUpgrade, ResetEnvironment, history
<1>3. FlowTypes' /\ ProcTypes' /\ \A f \in FlowIds : Calm(f)
  BY <1>2, RestartEffect, CalmFlows
<1>4. JobTypes' /\ installer'.flow = 0 /\ BoundTypes'
  BY <1>1, <1>2, DisownEffect, RequestEffect DEF Typed
<1>5. RowsClear /\ RowTypes' /\ task'.status # "INSTALL_SUCCESS"
  BY <1>2, ClearEffect, TaskFacts DEF RowsClear
<1>6. Quiet
  BY <1>2, <1>3, <1>4, <1>5 DEF Quiet
<1>7. PrefTypes'
  BY <1>1, <1>2 DEF Typed, PrefTypes
<1>8. Typed'
  BY <1>1, <1>2, <1>3, <1>4, <1>5, <1>7, TypesStay DEF Typed
<1>9. QED BY <1>6, <1>8, QuietInv

\* The device reboots, perhaps through the updater.
LEMMA RebootStep == ASSUME FlowInv, Reboot PROVE FlowInv'
<1>1. Typed /\ Rules
  BY FlowInvParts
<1>2. /\ Restart("DEVICE_REBOOT") /\ installer' = Nobody /\ rebootReq' = Stay
      /\ UNCHANGED <<task, comps, files, savedBell, nightSwitch, autoSwitch, bell, ab, notices, crossed>>
  BY DEF Reboot, database, prefs, history
<1>3. FlowTypes' /\ ProcTypes' /\ \A f \in FlowIds : Calm(f)
  BY <1>2, RestartEffect, CalmFlows
<1>4. BoundTypes'
  BY <1>1, RequestEffect, TypesStay DEF Reboot, bounds, Typed
<1>5. rebootReq.vers \in SUBSET Versions
  BY <1>1 DEF Typed, SlotTypes
<1>6. /\ installed \subseteq installed' /\ installed' \in SUBSET Components
      /\ running' \in Versions \cup {None} /\ updaterResult' \in [Versions -> {"none", "pass", "fail"}]
      /\ UpdaterIsTruthful'
  <2>1. CASE /\ running' \in rebootReq.vers
             /\ updaterResult' = [v \in Versions |-> IF v \in rebootReq.vers THEN "pass" ELSE "none"]
             /\ installed' = installed \cup (rebootReq.vers \X (1 .. NumComponents))
    <3>1. installed' \in SUBSET Components
      BY <1>1, <1>5, <2>1 DEF Typed, JobTypes, Components
    <3>2. running' \in Versions \cup {None} /\ updaterResult' \in [Versions -> {"none", "pass", "fail"}]
      BY <1>5, <2>1
    <3>3. ASSUME NEW v \in Versions, updaterResult'[v] = "pass" \/ running' = v
          PROVE  Packages(v) \subseteq installed'
      <4>1. v \in rebootReq.vers
        BY <2>1, <3>3
      <4>2. QED BY <2>1, <4>1 DEF Packages
    <3>4. UpdaterIsTruthful'
      BY <3>3 DEF UpdaterIsTruthful, Packages
    <3>5. QED BY <2>1, <3>1, <3>2, <3>4
  <2>2. CASE /\ updaterResult' = [v \in Versions |-> IF v \in rebootReq.vers THEN "fail" ELSE "none"]
             /\ UNCHANGED <<running, installed>>
    <3>1. updaterResult' \in [Versions -> {"none", "pass", "fail"}]
      BY <2>2
    <3>2. \A v \in Versions : updaterResult'[v] # "pass"
      BY <2>2
    <3>3. UpdaterIsTruthful'
      BY <1>1, <2>2, <3>2 DEF Rules, UpdaterIsTruthful, Packages
    <3>4. QED BY <1>1, <2>2, <3>1, <3>3 DEF Typed, JobTypes, SlotTypes
  <2>3. CASE UNCHANGED <<running, updaterResult, installed>>
    BY <1>1, <2>3 DEF Typed, JobTypes, SlotTypes, Rules, UpdaterIsTruthful, Packages
  <2>4. QED BY <2>1, <2>2, <2>3 DEF Reboot
<1>7. JobTypes' /\ installer'.flow = 0
  BY <1>2, <1>6 DEF JobTypes, Nobody
<1>8. SlotTypes'
  <2>1. Stay \in [how : {"no", "reboot", "updater"}, vers : SUBSET Versions]
    BY DEF Stay
  <2>2. QED BY <1>1, <1>2, <1>6, <2>1 DEF Typed, SlotTypes
<1>9. Quiet
  BY <1>2, <1>3, <1>6, <1>7, SameRows DEF Quiet
<1>10. Typed'
  BY <1>1, <1>2, <1>3, <1>4, <1>7, <1>8, TypesStay DEF Typed
<1>11. QED BY <1>9, <1>10, QuietInv

\* The init thread goes on with what the rows say.
LEMMA RestoreUpdateStep == ASSUME FlowInv, RestoreUpdate
                           PROVE  FlowInv' /\ (UNCHANGED savedBell \/ NightStarts)
<1>1. Typed
  BY FlowInvParts
<1>2. /\ init' = NextInit
      /\ UNCHANGED <<nightSwitch, autoSwitch, isChecking, reason, installer, installed, ab, running,
                     rebootReq, updaterResult, notices, crossed, requests, restarts>>
  BY DEF RestoreUpdate, history, bounds
<1>3. /\ RowTypes' /\ FlowTypes' /\ savedBell' \in BOOLEAN /\ bell' \in BOOLEAN /\ nightAlarm' \in BOOLEAN
      /\ RowsStay \/ RowsClear
      /\ task'.status = "INSTALL_SUCCESS" => task.status = "INSTALL_SUCCESS"
      /\ \A f \in FlowIds : Calm(f)
      /\ UNCHANGED savedBell \/ NightStarts
  <2>1. CASE task.status = "DOWNLOADING"
    <3>1. /\ UpdateStatusByTaskId(task.ver, "DOWNLOAD_PAUSE")
          /\ UNCHANGED <<comps, files, flows, savedBell, bell, nightAlarm>>
      BY <2>1 DEF RestoreUpdate, HandleBootDownloadOnStatusProcess
    <3>2. "DOWNLOAD_PAUSE" \in Status
      BY DEF Status
    <3>3. RowTypes' /\ RowsStay /\ (task'.status = "INSTALL_SUCCESS" => task.status = "INSTALL_SUCCESS")
      BY <1>1, <3>1, <3>2, UpdateEffect DEF Typed, RowTypes, RowsStay
    <3>4. QED BY <1>1, <3>1, <3>3, TypesStay, CalmFlows DEF Typed, PrefTypes, ProcTypes
  <2>2. CASE task.status = "DOWNLOAD_SUCCESS"
    <3>1. /\ UNCHANGED <<task, comps, files, flows, savedBell, bell>>
          /\ nightAlarm' \in BOOLEAN
      BY <2>2 DEF RestoreUpdate, HandleBootDownloadedStatusProcess, SetNightUpgradeAlarm, database
    <3>2. QED BY <1>1, <3>1, TypesStay, SameRows, CalmFlows DEF Typed, PrefTypes
  <2>3. CASE task.status = "INSTALLING"
    <3> DEFINE t == [task EXCEPT !.status = "DOWNLOAD_SUCCESS"]
    <3>1. /\ DoInstall(t, "INSTALL_AND_APPLY") /\ UNCHANGED nightAlarm
          /\ task # NoTask /\ "INSTALL_AND_APPLY" \in Order
      BY <2>3, TaskFacts DEF RestoreUpdate, HandleBootInstallOnStatusProcess, Order
    <3>2. t \in Task /\ t.ver = task.ver /\ t.status = "DOWNLOAD_SUCCESS"
      BY <1>1, <3>1, NewMode DEF Typed
    <3> HIDE DEF t
    <3>3. QED BY <1>1, <3>1, <3>2, DoInstallEffect DEF Typed, ProcTypes
  <2>4. CASE task.status \notin {"DOWNLOADING", "DOWNLOAD_SUCCESS", "INSTALLING"}
    <3>1. UNCHANGED <<task, comps, files, flows, savedBell, bell, nightAlarm>>
      BY <2>4 DEF RestoreUpdate, database
    <3>2. QED BY <1>1, <3>1, TypesStay, SameRows, CalmFlows DEF Typed, PrefTypes, ProcTypes
  <2>5. QED BY <2>1, <2>2, <2>3, <2>4
<1>4. Quiet
  BY <1>2, <1>3 DEF Quiet
<1>5. PrefTypes' /\ ProcTypes'
  BY <1>1, <1>2, <1>3 DEF Typed, PrefTypes, ProcTypes, NextInit
<1>6. Typed'
  BY <1>1, <1>2, <1>3, <1>5, TypesStay DEF Typed
<1>7. QED BY <1>3, <1>4, <1>6, QuietInv

\* After a reboot the client is told, from the row or from the updater.
LEMMA HandleBootCompleteStep == ASSUME FlowInv, HandleBootComplete PROVE FlowInv'
<1>1. Typed /\ Rules
  BY FlowInvParts
<1>2. /\ init' = "up"
      /\ UNCHANGED <<nightSwitch, autoSwitch, flows, isChecking, nightAlarm, reason, installer, installed,
                     ab, running, rebootReq, updaterResult, crossed, requests, restarts>>
  BY DEF HandleBootComplete, bounds
<1>3. ProcTypes' /\ \A f \in FlowIds : Calm(f)
  BY <1>1, <1>2, CalmFlows DEF Typed, ProcTypes
<1>4. CASE task.status \notin {"UPDATING", "INSTALL_SUCCESS"}
  <2>1. UNCHANGED <<task, comps, files, savedBell, bell, notices>>
    BY <1>4 DEF HandleBootComplete, database
  <2>2. Quiet
    BY <1>2, <1>3, <2>1, SameRows DEF Quiet
  <2>3. Typed'
    BY <1>1, <1>2, <1>3, <2>1, TypesStay DEF Typed
  <2>4. QED BY <2>2, <2>3, QuietInv
<1>5. CASE task.status \in {"UPDATING", "INSTALL_SUCCESS"}
  <2> DEFINE n == [vers |-> comps, status |-> task.status]
  <2>1. ProcessAfterUpgrade(task.mode) /\ ClearFirmwareInfo
    BY <1>5 DEF HandleBootComplete, HandleBootUpdateFail, HandleBootUpdateSuccess
  <2>2. RowsClear /\ RowTypes' /\ task'.status # "INSTALL_SUCCESS" /\ PrefTypes'
    BY <1>1, <1>2, <2>1, ClearEffect, TaskFacts, BellEffect DEF RowsClear, Typed, PrefTypes
  <2>3. \/ UNCHANGED notices
        \/ notices' = notices \cup {n} /\ (task.status = "UPDATING" => GetUpdaterResult)
    BY <1>5 DEF HandleBootComplete, HandleBootUpdateFail, HandleBootUpdateSuccess
  <2>4. n \in [vers : SUBSET Versions, status : {"UPDATING", "INSTALL_SUCCESS"}]
    BY <1>1, <1>5 DEF Typed, RowTypes
  <2>5. n.vers = comps /\ n.status = task.status
    OBVIOUS
  <2> HIDE DEF n
  <2>6. NoteTypes'
    BY <1>1, <1>2, <2>3, <2>4 DEF Typed, NoteTypes
  <2>7. ASSUME notices' = notices \cup {n}, task.status = "UPDATING" => GetUpdaterResult
        PROVE  NoticeIsTruthful'
    <3>1. ASSUME task.status = "UPDATING", NEW v \in comps PROVE IsInstalled(v)
      <4>1. v \in Versions /\ (updaterResult[v] = "pass" \/ running = v)
        BY <1>1, <2>7, <3>1 DEF GetUpdaterResult, Typed, RowTypes
      <4>2. Packages(v) \subseteq installed
        BY <1>1, <4>1 DEF Rules, UpdaterIsTruthful
      <4>3. QED BY <4>2, PackagesInstalled
    <3>2. ASSUME ab, ~crossed, NEW v \in comps PROVE IsInstalled(v)
      BY <1>1, <1>5, <3>1, <3>2 DEF Rules, SuccessIsInstalled
    <3>3. (ab /\ ~crossed) \/ n.status = "UPDATING" => \A v \in n.vers : IsInstalled(v)
      BY <2>5, <3>1, <3>2
    <3>4. \A m \in notices' : (ab /\ ~crossed) \/ m.status = "UPDATING" => \A v \in m.vers : IsInstalled(v)
      BY <1>1, <2>7, <3>3 DEF Rules, NoticeIsTruthful
    <3>5. QED BY <1>2, <3>4 DEF NoticeIsTruthful, IsInstalled
  <2>8. Quiet
    BY <1>2, <1>3, <2>2, <2>3, <2>7 DEF Quiet
  <2>9. Typed'
    BY <1>1, <1>2, <1>3, <2>2, <2>6, TypesStay DEF Typed
  <2>10. QED BY <2>8, <2>9, QuietInv
<1>6. QED BY <1>4, <1>5

-----------------------------------------------------------------------------
(* The theorems                                                            *)

\* The invariant holds when the first process starts.
LEMMA FlowInvInit == ASSUME Init PROVE FlowInv
<1>1. \A f \in FlowIds : flows[f] = IdleFlow
  BY DEF Init
<1>2. RowTypes /\ (task.status # "INSTALL_SUCCESS") /\ One(comps) /\ (task # NoTask => comps \subseteq {task.ver})
  <2>1. CASE task = NoTask /\ comps = {} /\ files = {}
    BY <2>1, TaskFacts DEF RowTypes, One
  <2>2. ASSUME NEW v \in Versions, comps = {v}, files = {v},
               task = [ver |-> v, status |-> "DOWNLOAD_SUCCESS", mode |-> "MANUAL"]
        PROVE  RowTypes /\ (task.status # "INSTALL_SUCCESS") /\ One(comps) /\ comps \subseteq {task.ver}
    BY <2>2 DEF RowTypes, One, Task, Status, Mode
  <2>3. QED BY <2>1, <2>2 DEF Init
<1>3. FlowTypes
  BY IdleFields DEF Init, FlowTypes
<1>4. PrefTypes /\ ProcTypes /\ JobTypes /\ NoteTypes
  BY DEF Init, PrefTypes, ProcTypes, JobTypes, NoteTypes
<1>5. BoundTypes
  BY FlowAssumption DEF Init, BoundTypes
<1>6. SlotTypes
  <2>1. Stay \in [how : {"no", "reboot", "updater"}, vers : SUBSET Versions]
    BY DEF Stay
  <2>2. QED BY <2>1 DEF Init, SlotTypes
<1>7. FillsOne
  BY <1>1, IdleFields DEF FillsOne, Filling
<1>8. RowsAgree
  <2>1. \A f \in FlowIds : RowsOf(f) /\ flows[f].pc \notin Filling
    BY <1>1, IdleFields DEF RowsOf, Filling, One
  <2>2. QED BY <1>2, <2>1 DEF RowsAgree
<1>9. NothingLeftOut
  BY <1>1, IdleFields DEF NothingLeftOut, Installs
<1>10. UpdaterIsTruthful
  BY FlowAssumption DEF Init, UpdaterIsTruthful
<1>11. SuccessIsInstalled /\ NoticeIsTruthful
  BY <1>2 DEF Init, SuccessIsInstalled, NoticeIsTruthful
<1>12. QED BY <1>2, <1>3, <1>4, <1>5, <1>6, <1>7, <1>8, <1>9, <1>10, <1>11 DEF FlowInv

\* Every step keeps it.
LEMMA FlowInvStep == ASSUME FlowInv, JobIsOfInstall, [Next]_vars PROVE FlowInv'
<1>1. CASE DoCheck
  BY <1>1, StartCheckStep DEF DoCheck
<1>2. CASE DoAutoUpgrade
  BY <1>2, StartCheckStep DEF DoAutoUpgrade
<1>3. CASE CheckExpires
  BY <1>3, CheckExpiresStep
<1>4. CASE DoDownload
  BY <1>4, DoDownloadStep
<1>5. CASE DoCancel
  BY <1>5, DoCancelStep
<1>6. CASE DoClearError
  BY <1>6, DoClearErrorStep
<1>7. CASE \E night, auto \in BOOLEAN : SetUpgradePolicy(night, auto)
  BY <1>7, SetUpgradePolicyStep
<1>8. CASE Upgrade
  BY <1>8, UpgradeStep
<1>9. CASE HandleNightUpgrade
  BY <1>9, HandleNightUpgradeStep
<1>10. ASSUME NEW f \in FlowIds, CheckStep(f) PROVE FlowInv'
  BY <1>10, OnCheckCallbackStep, HandleCheckResultStep, InsertComponentsStep, InsertTaskStep,
     GetStepAfterCheckStep DEF CheckStep
<1>11. ASSUME NEW f \in FlowIds, InstallStep(f) PROVE FlowInv'
  BY <1>11, QueryComponentsStep, WriteInstallingStep, StartInstallStep,
     InitInstallProgressStep, DoSysInstallStep, WaitInstallResultStep, PerformInstallEndStep,
     DoUpdaterInstallStep, HandleInstallResultStep,
     GetStepAfterInstallStep, GetApplyStepStep, DoApplyStep DEF InstallStep
<1>12. ASSUME NEW f \in FlowIds, DownloadStart(f) PROVE FlowInv'
  BY <1>12, DownloadStartStep
<1>13. ASSUME NEW f \in FlowIds, OnDownloadCallback(f) PROVE FlowInv'
  BY <1>13, OnDownloadCallbackStep
<1>14. ASSUME NEW f \in FlowIds, HandleInstallProgress(f) PROVE FlowInv'
  BY <1>14, HandleInstallProgressStep
<1>15. CASE InstallerReport
  BY <1>15, InstallerReportStep
<1>16. CASE ProcessEnd
  BY <1>16, ProcessEndStep
<1>17. CASE DoTerminateUpgrade
  BY <1>17, DoTerminateUpgradeStep
<1>18. CASE Reboot
  BY <1>18, RebootStep
<1>19. CASE RestoreUpdate
  BY <1>19, RestoreUpdateStep
<1>20. CASE HandleBootComplete
  BY <1>20, HandleBootCompleteStep
<1>21. CASE UNCHANGED vars
  <2>1. UNCHANGED <<task, comps, files, savedBell, nightSwitch, autoSwitch, bell, flows, isChecking,
                    nightAlarm, init, reason, installer, installed, ab, running, rebootReq,
                    updaterResult, notices, crossed, requests, restarts>>
    BY <1>21 DEF vars, database, prefs, process, device, history, bounds
  <2>2. Quiet
    BY <2>1, CalmFlows, SameRows DEF Quiet
  <2>3. Typed'
    BY <2>1, FlowInvParts, TypesStay DEF Typed
  <2>4. QED BY <2>2, <2>3, QuietInv
<1>22. QED
  BY <1>1, <1>2, <1>3, <1>4, <1>5, <1>6, <1>7, <1>8, <1>9, <1>10, <1>11, <1>12, <1>13, <1>14, <1>15,
     <1>16, <1>17, <1>18, <1>19, <1>20, <1>21 DEF Next

-----------------------------------------------------------------------------
(* Whom the installer works for                                            *)

\* A record is set for one flow.
LEMMA SetMoves ==
    ASSUME FlowTypes, NEW f \in FlowIds, NEW r, Set(f, r)
    PROVE  Others(f) /\ flows'[f] = r
BY DEF FlowTypes, Set, Others

\* One flow moves: it was busy, or is a new one in an idle slot, and its
\* job does not outlast the install.
LEMMA OneMoves ==
    ASSUME JobIsOfInstall, NEW f \in FlowIds, Others(f),
           flows'[f].kind = "none" => flows'[f].pc = "idle",
           installer' = installer \/ installer'.flow \in {0, f},
           installer'.flow = f => flows'[f].pc \in Working
    PROVE  JobIsOfInstall'
BY FlowAssumption DEF JobIsOfInstall, Others

\* A busy flow without a job goes on, or ends.
LEMMA IdleMoves ==
    ASSUME JobIsOfInstall, NEW f \in FlowIds, Others(f), UNCHANGED installer,
           flows[f].pc \notin Working,
           flows'[f].pc = "idle" \/ (flows[f].pc # "idle" /\ UNCHANGED flows[f].kind)
    PROVE  JobIsOfInstall'
BY OneMoves DEF JobIsOfInstall

\* A new flow takes an idle slot.
LEMMA NewMoves ==
    ASSUME FlowTypes, JobIsOfInstall, UNCHANGED installer, NEW r \in Flow, r.kind # "none", New(r)
    PROVE  JobIsOfInstall'
<1>1. PICK f \in FlowIds : flows[f].kind = "none" /\ flows'[f] = r /\ Others(f)
  BY NewEffect
<1>2. installer'.flow # f
  BY <1>1 DEF JobIsOfInstall, Working
<1>3. QED BY <1>1, <1>2, OneMoves

\* An install is asked for: a new flow, or none.
LEMMA DoInstallJobs ==
    ASSUME FlowTypes, JobIsOfInstall, UNCHANGED installer, NEW t, t.mode \in Mode, NEW order \in Order,
           DoInstall(t, order)
    PROVE  JobIsOfInstall'
<1>1. CASE UNCHANGED flows
  BY <1>1 DEF JobIsOfInstall
<1>2. ASSUME NEW pc \in Pc, SubmitFlow(pc, order, t) PROVE JobIsOfInstall'
  <2> DEFINE r == [IdleFlow EXCEPT !.kind = "install", !.pc = pc, !.order = order, !.mode = t.mode]
  <2>1. r \in Flow /\ r.kind # "none"
    BY <1>2 DEF IdleFlow, Flow, Kind
  <2>2. New(r)
    BY <1>2 DEF SubmitFlow
  <2> HIDE DEF r
  <2>3. QED BY <2>1, <2>2, NewMoves
<1>3. "apply" \in Pc /\ "submitted" \in Pc
  BY DEF Pc
<1>4. QED BY <1>1, <1>2, <1>3 DEF DoInstall

\* The process ends, and with it who waited for the installer.
LEMMA RestartJobs ==
    ASSUME JobTypes, NEW why, Restart(why), installer' = [installer EXCEPT !.flow = 0] \/ installer' = Nobody
    PROVE  JobIsOfInstall'
<1>1. installer'.flow = 0
  BY DEF JobTypes, Nobody
<1>2. \A f \in FlowIds : flows'[f].pc = "idle"
  BY IdleFields DEF Restart
<1>3. QED BY <1>1, <1>2, FlowAssumption DEF JobIsOfInstall

\* A check and a download have no job.
LEMMA CheckJobs ==
    ASSUME Typed, JobIsOfInstall, NEW f \in FlowIds,
           CheckStep(f) \/ DownloadStart(f) \/ OnDownloadCallback(f)
    PROVE  JobIsOfInstall'
<1>1. /\ flows[f].pc \in {"request", "result", "insert", "insertTask", "afterCheck", "dlSubmitted", "dl"}
      /\ flows[f].pc \notin Working /\ flows[f].pc # "idle" /\ FlowTypes /\ flows[f] \in Flow
  BY DEF CheckStep, OnCheckCallback, HandleCheckResult, InsertComponents, InsertTask, GetStepAfterCheck,
         DownloadStart, OnDownloadCallback, At, Working, Typed, FlowTypes
<1>2. ASSUME NEW pc \in Pc, Goto(f, pc) PROVE Others(f) /\ UNCHANGED flows[f].kind
  BY <1>1, <1>2, GotoEffect
<1>3. ASSUME Finish(f) PROVE Others(f) /\ flows'[f].pc = "idle"
  BY <1>1, <1>3, FinishEffect
<1>4. {"insert", "insertTask", "afterCheck", "dlSubmitted", "result", "dl"} \subseteq Pc
  BY DEF Pc
<1>5. CASE OnCheckCallback(f)
  <2>1. UNCHANGED installer
    BY <1>5 DEF OnCheckCallback, device
  <2>2. ASSUME NEW offer, NEW pc, Set(f, [flows[f] EXCEPT !.vers = offer, !.pc = pc])
        PROVE  Others(f) /\ UNCHANGED flows[f].kind
    BY <1>1, <2>2 DEF Set, Others, FlowTypes, Flow
  <2>3. Others(f) /\ (flows'[f].pc = "idle" \/ UNCHANGED flows[f].kind)
    BY <1>3, <1>5, <2>2 DEF OnCheckCallback
  <2>4. QED BY <1>1, <2>1, <2>3, IdleMoves
<1>6. CASE HandleCheckResult(f)
  <2>1. UNCHANGED installer /\ \E pc \in Pc : Goto(f, pc)
    BY <1>4, <1>6 DEF HandleCheckResult, device
  <2>2. QED BY <1>1, <1>2, <2>1, IdleMoves
<1>7. CASE InsertComponents(f) \/ InsertTask(f)
  <2>1. UNCHANGED installer /\ \E pc \in Pc : Goto(f, pc)
    BY <1>4, <1>7 DEF InsertComponents, InsertTask, device
  <2>2. QED BY <1>1, <1>2, <2>1, IdleMoves
<1>8. CASE GetStepAfterCheck(f)
  <2>1. UNCHANGED installer /\ (Finish(f) \/ \E pc \in Pc : Goto(f, pc))
    BY <1>4, <1>8 DEF GetStepAfterCheck, device
  <2>2. QED BY <1>1, <1>2, <1>3, <2>1, IdleMoves
<1>9. CASE DownloadStart(f)
  <2>1. CASE comps = {}
    <3>1. Restart("PROCESS_INIT") /\ installer' = [installer EXCEPT !.flow = 0]
      BY <1>9, <2>1 DEF DownloadStart
    <3>2. QED BY <3>1, RestartJobs DEF Typed
  <2>2. CASE comps # {}
    <3>1. UNCHANGED installer /\ Set(f, [flows[f] EXCEPT !.pc = "dl", !.vers = comps])
      BY <1>9, <2>2 DEF DownloadStart
    <3>2. Others(f) /\ UNCHANGED flows[f].kind
      BY <1>1, <3>1 DEF Set, Others, FlowTypes, Flow
    <3>3. QED BY <1>1, <3>1, <3>2, IdleMoves
  <2>3. QED BY <2>1, <2>2
<1>10. CASE OnDownloadCallback(f)
  <2>1. UNCHANGED installer /\ Finish(f)
    BY <1>10 DEF OnDownloadCallback, device
  <2>2. QED BY <1>1, <1>3, <2>1, IdleMoves
<1>11. QED BY <1>5, <1>6, <1>7, <1>8, <1>9, <1>10 DEF CheckStep

\* An install that ends gives its job back.
LEMMA FinishJobs ==
    ASSUME Typed, JobIsOfInstall, NEW f \in FlowIds, FinishInstall(f) PROVE JobIsOfInstall'
<1>1. Others(f) /\ flows'[f].pc = "idle"
  BY FinishEffect DEF FinishInstall, Typed
<1>2. CASE installer = Nobody
  <2>1. installer'.flow = 0
    BY <1>2, FlowAssumption DEF FinishInstall, Nobody
  <2>2. QED BY <1>1, <2>1, FlowAssumption, OneMoves
<1>3. CASE installer \in [job : Components, flow : FlowIds \cup {0}]
  <2>1. installer'.flow = IF installer.flow = f THEN 0 ELSE installer.flow
    BY <1>3 DEF FinishInstall
  <2>2. installer'.flow # f /\ \A g \in FlowIds : installer'.flow = g => installer.flow = g
    BY <2>1, FlowAssumption
  <2>3. QED BY <1>1, <2>2 DEF JobIsOfInstall, Others
<1>4. QED BY <1>2, <1>3 DEF Typed, JobTypes

\* An install that begins and goes on keeps its job to its end.
LEMMA InstallJobs ==
    ASSUME Typed, JobIsOfInstall, NEW f \in FlowIds, InstallStep(f) PROVE JobIsOfInstall'
<1>1. FlowTypes /\ flows[f] \in Flow
  BY DEF Typed, FlowTypes
<1>2. CASE QueryComponents(f) \/ WriteInstalling(f) \/ StartInstall(f) \/ DoUpdaterInstall(f)
  <2>1. flows[f].pc \in {"submitted", "write", "legal", "updater"} /\ UNCHANGED installer
    BY <1>2 DEF QueryComponents, WriteInstalling, StartInstall, DoUpdaterInstall, At, device
  <2>2. Others(f) /\ UNCHANGED flows[f].kind
    <3>1. CASE QueryComponents(f)
      BY <1>1, <3>1 DEF QueryComponents, Set, Others, FlowTypes, Flow
    <3>2. CASE WriteInstalling(f)
      BY <1>1, <3>2 DEF WriteInstalling, Set, Others, FlowTypes, Flow
    <3>3. CASE StartInstall(f)
      BY <1>1, <3>3 DEF StartInstall, Set, Others, FlowTypes, Flow
    <3>4. CASE DoUpdaterInstall(f)
      BY <1>1, <3>4 DEF DoUpdaterInstall, Set, Others, FlowTypes, Flow
    <3>5. QED BY <1>2, <3>1, <3>2, <3>3, <3>4
  <2>3. QED BY <2>1, <2>2, IdleMoves DEF Working
<1>3. ASSUME Others(f), UNCHANGED flows[f].kind, flows[f].pc # "idle", flows'[f].pc \in Working,
             installer' = installer \/ installer'.flow = f
      PROVE  JobIsOfInstall'
  <2>1. flows'[f].kind # "none"
    BY <1>3 DEF JobIsOfInstall
  <2>2. QED BY <1>3, <2>1, OneMoves
<1>4. CASE InitInstallProgress(f) \/ WaitInstallResult(f) \/ HandleInstallResult(f)
  <2>1. flows[f].pc \in {"next", "wait", "done"} /\ UNCHANGED installer
    BY <1>4 DEF InitInstallProgress, WaitInstallResult, HandleInstallResult, At, device
  <2>2. Others(f) /\ UNCHANGED flows[f].kind /\ flows'[f].pc \in {"ready", "next", "after"}
    <3>1. CASE InitInstallProgress(f)
      BY <1>1, <3>1 DEF InitInstallProgress, Set, Others, FlowTypes, Flow
    <3>2. CASE WaitInstallResult(f)
      <4>1. CASE Goto(f, "next")
        BY <1>1, <4>1, GotoEffect DEF Pc
      <4>2. CASE Set(f, [flows[f] EXCEPT !.ok = FALSE, !.pc = "next"])
        <5> DEFINE r == [flows[f] EXCEPT !.ok = FALSE, !.pc = "next"]
        <5>1. r.kind = flows[f].kind /\ r.pc = "next" /\ Set(f, r)
          BY <1>1, <4>2 DEF Flow
        <5> HIDE DEF r
        <5>2. QED BY <1>1, <5>1, SetMoves
      <4>3. QED BY <3>2, <4>1, <4>2 DEF WaitInstallResult
    <3>3. CASE HandleInstallResult(f)
      BY <1>1, <3>3 DEF HandleInstallResult, Set, Others, FlowTypes, Flow
    <3>4. QED BY <1>4, <3>1, <3>2, <3>3
  <2>3. QED BY <1>3, <2>1, <2>2 DEF Working
<1>5. CASE DoSysInstall(f)
  <2>1. PICK c \in flows[f].todo :
          \/ Set(f, [[flows[f] EXCEPT !.todo = @ \ {c}] EXCEPT !.ok = FALSE, !.pc = "next"])
             /\ UNCHANGED installer
          \/ installer' = [job |-> c, flow |-> f]
             /\ Set(f, [[flows[f] EXCEPT !.todo = @ \ {c}] EXCEPT !.pc = "wait"])
    BY <1>5 DEF DoSysInstall
  <2>2. Others(f) /\ UNCHANGED flows[f].kind /\ flows'[f].pc \in {"next", "wait"}
    <3> DEFINE rest == [flows[f] EXCEPT !.todo = @ \ {c}]
    <3>1. rest \in Flow /\ rest.kind = flows[f].kind
      BY <1>1 DEF Flow
    <3>2. \/ Set(f, [rest EXCEPT !.ok = FALSE, !.pc = "next"])
          \/ Set(f, [rest EXCEPT !.pc = "wait"])
      BY <2>1
    <3> HIDE DEF rest
    <3>3. CASE Set(f, [rest EXCEPT !.ok = FALSE, !.pc = "next"])
      <4> DEFINE r == [rest EXCEPT !.ok = FALSE, !.pc = "next"]
      <4>1. r.kind = flows[f].kind /\ r.pc = "next" /\ Set(f, r)
        BY <3>1, <3>3 DEF Flow
      <4> HIDE DEF r
      <4>2. QED BY <1>1, <4>1, SetMoves
    <3>4. CASE Set(f, [rest EXCEPT !.pc = "wait"])
      <4> DEFINE r == [rest EXCEPT !.pc = "wait"]
      <4>1. r.kind = flows[f].kind /\ r.pc = "wait" /\ Set(f, r)
        BY <3>1, <3>4 DEF Flow
      <4> HIDE DEF r
      <4>2. QED BY <1>1, <4>1, SetMoves
    <3>5. QED BY <3>2, <3>3, <3>4
  <2>3. flows[f].pc = "ready" /\ (installer' = installer \/ installer'.flow = f)
    BY <1>5, <2>1 DEF DoSysInstall, At
  <2>4. QED BY <1>3, <2>2, <2>3 DEF Working
<1>6. CASE PerformInstallEnd(f) \/ GetStepAfterInstall(f) \/ GetApplyStep(f) \/ DoApply(f)
  <2>1. flows[f].pc # "idle"
    BY <1>6 DEF PerformInstallEnd, GetStepAfterInstall, GetApplyStep, DoApply, At
  <2>2. ASSUME NEW pc \in {"done", "after2", "apply", "rebooting"}, Goto(f, pc), UNCHANGED installer
        PROVE  JobIsOfInstall'
    <3>1. pc \in Pc /\ pc \in Working
      BY DEF Pc, Working
    <3>2. QED BY <1>1, <1>3, <2>1, <2>2, <3>1, GotoEffect
  <2>3. CASE FinishInstall(f)
    BY <2>3, FinishJobs
  <2>4. QED BY <1>6, <2>2, <2>3 DEF PerformInstallEnd, GetStepAfterInstall, GetApplyStep, DoApply, device
<1>7. QED BY <1>2, <1>4, <1>5, <1>6 DEF InstallStep

\* A callback changes no flow's place.
LEMMA CallbackJobs ==
    ASSUME Typed, JobIsOfInstall,
           InstallerReport \/ \E f \in FlowIds : HandleInstallProgress(f)
    PROVE  JobIsOfInstall'
<1>1. CASE InstallerReport
  <2>1. installer' = installer \/ installer' = Nobody
    BY <1>1 DEF InstallerReport
  <2>2. PICK f \in FlowIds \cup {0} : f = installer.flow
    BY <1>1 DEF Typed, JobTypes, InstallerReport
  <2>3. f = 0 => UNCHANGED flows
    BY <1>1, <2>2 DEF InstallerReport
  <2>4. f # 0 => \E status : Set(f, [flows[f] EXCEPT !.progress = status, !.late = TRUE])
    BY <1>1, <2>2 DEF InstallerReport
  <2>5. \A g \in FlowIds : UNCHANGED <<flows[g].kind, flows[g].pc>>
    <3>1. CASE f = 0
      BY <2>3, <3>1
    <3>2. CASE f # 0
      <4>1. f \in FlowIds /\ flows[f] \in Flow
        BY <2>2, <3>2 DEF Typed, FlowTypes
      <4>2. PICK status : Set(f, [flows[f] EXCEPT !.progress = status, !.late = TRUE])
        BY <2>4, <3>2
      <4>3. Others(f) /\ UNCHANGED <<flows[f].kind, flows[f].pc>>
        <5> DEFINE r == [flows[f] EXCEPT !.progress = status, !.late = TRUE]
        <5>1. r.kind = flows[f].kind /\ r.pc = flows[f].pc /\ Set(f, r)
          BY <4>1, <4>2 DEF Flow
        <5> HIDE DEF r
        <5>2. QED BY <4>1, <5>1, SetMoves DEF Typed
      <4>4. QED BY <4>1, <4>3 DEF Others
    <3>3. QED BY <3>1, <3>2
  <2>6. QED BY <2>1, <2>5, FlowAssumption DEF JobIsOfInstall, Nobody
<1>2. ASSUME NEW f \in FlowIds, HandleInstallProgress(f) PROVE JobIsOfInstall'
  <2>1. UNCHANGED installer
    BY <1>2 DEF HandleInstallProgress, device
  <2>2. CASE flows[f].kind = "none"
    <3>1. Others(f) /\ flows'[f].pc = "idle"
      BY <1>2, <2>2, IdleFields DEF HandleInstallProgress, Set, Others, Typed, FlowTypes
    <3>2. flows[f].pc \notin Working
      BY <2>2 DEF JobIsOfInstall, Working
    <3>3. QED BY <2>1, <3>1, <3>2, IdleMoves
  <2>3. CASE flows[f].kind # "none"
    <3>1. Set(f, [flows[f] EXCEPT !.late = FALSE])
      BY <1>2, <2>3 DEF HandleInstallProgress
    <3>2. \A g \in FlowIds : UNCHANGED <<flows[g].kind, flows[g].pc>>
      BY <3>1 DEF Typed, FlowTypes, Flow, Set
    <3>3. QED BY <2>1, <3>2 DEF JobIsOfInstall
  <2>4. QED BY <2>2, <2>3
<1>3. QED BY <1>1, <1>2

\* Every step keeps it.
LEMMA JobsStep == ASSUME Typed, JobIsOfInstall, [Next]_vars PROVE JobIsOfInstall'
<1>1. CASE DoCheck \/ DoAutoUpgrade \/ DoDownload
  <2>1. \E kind \in {"check", "auto", "download"}, pc \in {"request", "dlSubmitted"} :
           New([IdleFlow EXCEPT !.kind = kind, !.pc = pc])
    BY <1>1 DEF DoCheck, DoAutoUpgrade, StartCheck, DoDownload
  <2>2. UNCHANGED installer
    BY <1>1 DEF DoCheck, DoAutoUpgrade, StartCheck, DoDownload, device
  <2>3. ASSUME NEW kind \in {"check", "auto", "download"}, NEW pc \in {"request", "dlSubmitted"},
               New([IdleFlow EXCEPT !.kind = kind, !.pc = pc])
        PROVE  JobIsOfInstall'
    <3> DEFINE r == [IdleFlow EXCEPT !.kind = kind, !.pc = pc]
    <3>1. r \in Flow /\ r.kind # "none"
      BY DEF IdleFlow, Flow, Kind, Pc, Order, Mode
    <3>2. New(r)
      BY <2>3
    <3> HIDE DEF r
    <3>3. QED BY <2>2, <3>1, <3>2, NewMoves DEF Typed
  <2>4. QED BY <2>1, <2>3
<1>2. CASE UNCHANGED <<flows, installer>>
  BY <1>2 DEF JobIsOfInstall
<1>3. CASE CheckExpires \/ DoClearError \/ HandleBootComplete
           \/ \E night, auto \in BOOLEAN : SetUpgradePolicy(night, auto)
  BY <1>2, <1>3 DEF CheckExpires, DoClearError, HandleBootComplete, SetUpgradePolicy, device
<1>4. CASE DoCancel
  <2>1. /\ UNCHANGED installer
        /\ \A f \in FlowIds : flows'[f] = flows[f] \/ (flows[f].pc = "dl" /\ flows'[f] = IdleFlow)
    BY <1>4 DEF DoCancel, At, device
  <2>2. QED BY <2>1, IdleFields DEF JobIsOfInstall, Working
<1>5. ASSUME NEW mode \in Mode, NEW status \in Status, NEW order \in Order, task # NoTask,
             DoInstall([task EXCEPT !.mode = mode], order) \/ DoInstall([task EXCEPT !.status = status], order),
             UNCHANGED installer
      PROVE  JobIsOfInstall'
  <2> DEFINE t == [task EXCEPT !.mode = mode]
             u == [task EXCEPT !.status = status]
  <2>1. t.mode \in Mode /\ u.mode \in Mode
    BY <1>5, TaskFacts DEF Typed, Task
  <2>2. DoInstall(t, order) \/ DoInstall(u, order)
    BY <1>5
  <2> HIDE DEF t, u
  <2>3. QED BY <1>5, <2>1, <2>2, DoInstallJobs DEF Typed
<1>6. CASE Upgrade \/ HandleNightUpgrade \/ RestoreUpdate
  <2>1. "MANUAL" \in Mode /\ "NIGHT" \in Mode /\ "DOWNLOAD_SUCCESS" \in Status /\ Order # {}
        /\ "INSTALL" \in Order /\ "INSTALL_AND_APPLY" \in Order
    BY DEF Mode, Status, Order
  <2>2. UNCHANGED installer
    BY <1>6 DEF Upgrade, HandleNightUpgrade, RestoreUpdate
  <2>3. CASE Upgrade
    BY <1>5, <2>1, <2>2, <2>3 DEF Upgrade, isExistTask
  <2>4. CASE HandleNightUpgrade
    <3>1. \/ UNCHANGED flows
          \/ task.status = "DOWNLOAD_SUCCESS" /\ DoInstall([task EXCEPT !.mode = "NIGHT"], "INSTALL")
      BY <2>4 DEF HandleNightUpgrade
    <3>2. QED BY <1>2, <1>5, <2>1, <2>2, <3>1, TaskFacts
  <2>5. CASE RestoreUpdate
    <3>1. \/ UNCHANGED flows
          \/ /\ task.status = "INSTALLING"
             /\ DoInstall([task EXCEPT !.status = "DOWNLOAD_SUCCESS"], "INSTALL_AND_APPLY")
      BY <2>5 DEF RestoreUpdate, HandleBootDownloadOnStatusProcess, HandleBootDownloadedStatusProcess,
                  HandleBootInstallOnStatusProcess
    <3>2. QED BY <1>2, <1>5, <2>1, <2>2, <3>1, TaskFacts
  <2>6. QED BY <1>6, <2>3, <2>4, <2>5
<1>7. ASSUME NEW f \in FlowIds, CheckStep(f) \/ DownloadStart(f) \/ OnDownloadCallback(f)
      PROVE  JobIsOfInstall'
  BY <1>7, CheckJobs
<1>8. ASSUME NEW f \in FlowIds, InstallStep(f) PROVE JobIsOfInstall'
  BY <1>8, InstallJobs
<1>9. CASE InstallerReport \/ \E f \in FlowIds : HandleInstallProgress(f)
  BY <1>9, CallbackJobs
<1>10. CASE ProcessEnd \/ DoTerminateUpgrade \/ Reboot
  BY <1>10, RestartJobs DEF ProcessEnd, DoTerminateUpgrade, Reboot, Typed
<1>11. CASE UNCHANGED vars
  BY <1>2, <1>11 DEF vars, device
<1>12. QED
  BY <1>1, <1>3, <1>4, <1>6, <1>7, <1>8, <1>9, <1>10, <1>11 DEF Next

\* The inductive invariant is one.
LEMMA FlowInvHolds == Spec => []FlowInv
<1>1. Init => FlowInv /\ JobIsOfInstall
  <2>1. Init => JobIsOfInstall
    BY IdleFields, FlowAssumption DEF Init, JobIsOfInstall, Nobody
  <2>2. QED BY <2>1, FlowInvInit
<1>2. FlowInv /\ JobIsOfInstall /\ [Next]_vars => (FlowInv /\ JobIsOfInstall)'
  BY FlowInvStep, JobsStep, FlowInvParts
<1>3. QED BY <1>1, <1>2, PTL DEF Spec

(* Rows, flows, preferences, the installer's job and the reboot request    *)
(* stay in their types: no update by a taskId makes a row out of nothing.  *)
THEOREM FlowTypesHold == Spec => []TypeOK
<1>1. FlowInv => TypeOK
  <2> SUFFICES ASSUME FlowInv PROVE TypeOK
    OBVIOUS
  <2>1. Typed
    BY FlowInvParts
  <2>2. installer \in [job : Components \cup {None}, flow : FlowIds \cup {0}]
    BY <2>1 DEF Typed, JobTypes, Nobody
  <2>3. QED BY <2>1, <2>2 DEF Typed, RowTypes, FlowTypes, PrefTypes, ProcTypes, JobTypes, SlotTypes,
              NoteTypes, BoundTypes, TypeOK
<1>2. QED BY <1>1, FlowInvHolds, PTL

(* On a device with two slots HandleInstallResult writes INSTALL_SUCCESS   *)
(* only to the row of a version the installer has reported every package   *)
(* of, however many flows, callbacks and restarts there are, unless flows  *)
(* have crossed.                                                           *)
THEOREM SuccessIsReal == Spec => []SuccessIsInstalled
<1>1. FlowInv => SuccessIsInstalled
  BY DEF FlowInv
<1>2. QED BY <1>1, FlowInvHolds, PTL

(* HandleBootComplete announces only versions that are installed.          *)
THEOREM NoticesAreTruthful == Spec => []NoticeIsTruthful
<1>1. FlowInv => NoticeIsTruthful
  BY DEF FlowInv
<1>2. QED BY <1>1, FlowInvHolds, PTL

\* The boot sound after an upgrade: remembered or on again.
LEMMA RestoresBell ==
    ASSUME NEW mode, ProcessAfterUpgrade(mode) PROVE UNCHANGED savedBell \/ bell'
BY DEF ProcessAfterUpgrade

\* A step forgets a saved boot sound only where the property says so.
LEMMA BellStep ==
    ASSUME FlowInv, [Next]_vars
    PROVE  UNCHANGED savedBell \/ bell' \/ init' = "restore" \/ NightStarts
<1>1. Typed
  BY FlowInvParts
<1>2. CASE DoCheck \/ DoAutoUpgrade \/ CheckExpires \/ DoDownload \/ DoCancel \/ DoClearError
  BY <1>2 DEF DoCheck, DoAutoUpgrade, StartCheck, CheckExpires, DoDownload, DoCancel, DoClearError, prefs
<1>3. CASE \E night, auto \in BOOLEAN : SetUpgradePolicy(night, auto)
  BY <1>3 DEF SetUpgradePolicy
<1>4. CASE Upgrade
  <2> DEFINE t == [task EXCEPT !.mode = "MANUAL"]
  <2>1. task # NoTask /\ \E order \in Order : DoInstall(t, order)
    BY <1>4 DEF Upgrade, isExistTask
  <2>2. t \in Task /\ t.ver = task.ver /\ t.status = task.status
    BY <1>1, <2>1, NewMode DEF Typed, Mode
  <2> HIDE DEF t
  <2>3. QED BY <1>1, <2>1, <2>2, DoInstallEffect
<1>5. CASE HandleNightUpgrade
  <2> DEFINE t == [task EXCEPT !.mode = "NIGHT"]
  <2>1. UNCHANGED savedBell \/ (DoInstall(t, "INSTALL") /\ task # NoTask)
    BY <1>5, TaskFacts DEF HandleNightUpgrade
  <2>2. task # NoTask => t \in Task /\ t.ver = task.ver /\ t.status = task.status
    BY <1>1, NewMode DEF Typed, Mode
  <2>3. "INSTALL" \in Order
    BY DEF Order
  <2> HIDE DEF t
  <2>4. QED BY <1>1, <2>1, <2>2, <2>3, DoInstallEffect
<1>6. ASSUME NEW f \in FlowIds, CheckStep(f) PROVE UNCHANGED savedBell
  BY <1>6 DEF CheckStep, OnCheckCallback, HandleCheckResult, InsertComponents, InsertTask,
              GetStepAfterCheck, prefs
<1>7. ASSUME NEW f \in FlowIds, InstallStep(f) PROVE UNCHANGED savedBell \/ bell'
  <2>1. CASE GetStepAfterInstall(f)
    BY <2>1, RestoresBell DEF GetStepAfterInstall
  <2>2. CASE QueryComponents(f) \/ WriteInstalling(f) \/ StartInstall(f) \/ InitInstallProgress(f)
             \/ DoSysInstall(f)
    BY <2>2 DEF QueryComponents, WriteInstalling, StartInstall, InitInstallProgress, DoSysInstall, prefs
  <2>3. CASE WaitInstallResult(f) \/ PerformInstallEnd(f) \/ DoUpdaterInstall(f) \/ HandleInstallResult(f)
    BY <2>3 DEF WaitInstallResult, PerformInstallEnd, DoUpdaterInstall, HandleInstallResult, prefs
  <2>4. CASE GetApplyStep(f) \/ DoApply(f)
    BY <2>4 DEF GetApplyStep, DoApply, prefs
  <2>5. QED BY <1>7, <2>1, <2>2, <2>3, <2>4 DEF InstallStep
<1>8. ASSUME NEW f \in FlowIds, DownloadStart(f) \/ OnDownloadCallback(f) \/ HandleInstallProgress(f)
      PROVE  UNCHANGED savedBell
  BY <1>8 DEF DownloadStart, OnDownloadCallback, HandleInstallProgress, prefs
<1>9. CASE InstallerReport \/ ProcessEnd \/ Reboot
  BY <1>9 DEF InstallerReport, ProcessEnd, Reboot, prefs
<1>10. CASE DoTerminateUpgrade
  BY <1>10 DEF DoTerminateUpgrade, Restart
<1>11. CASE RestoreUpdate
  BY <1>11, RestoreUpdateStep
<1>12. CASE HandleBootComplete
  BY <1>12, RestoresBell DEF HandleBootComplete
<1>13. CASE UNCHANGED vars
  BY <1>13 DEF vars, prefs
<1>14. QED
  BY <1>2, <1>3, <1>4, <1>5, <1>6, <1>7, <1>8, <1>9, <1>10, <1>11, <1>12, <1>13 DEF Next

(* A boot sound that a night upgrade switched off stays remembered until   *)
(* it is on again; only the termination of the upgrade and another night   *)
(* install forget it.                                                      *)
THEOREM MutedBellStaysOwed == Spec => MutedBellIsOwed
<1> DEFINE A == (savedBell /\ ~bell /\ ~bell') =>
                   \/ savedBell'
                   \/ init' = "restore"
                   \/ \E f \in FlowIds : /\ flows[f].kind = "none"
                                         /\ flows'[f].pc = "submitted" /\ flows'[f].mode = "NIGHT"
<1>1. FlowInv /\ [Next]_vars => [A]_vars
  BY BellStep DEF NightStarts
<1>2. QED BY <1>1, FlowInvHolds, PTL DEF Spec, MutedBellIsOwed
=============================================================================
