----------------------- MODULE ServiceLifecycle_proofs ----------------------
(***************************************************************************)
(* Proofs about ServiceLifecycle, for any number of clients, processes,    *)
(* calls and unlock events, with and without faults.                       *)
(***************************************************************************)
EXTENDS ServiceLifecycle, TLAPS

(* The compare-exchange of TryNotifyUnlocked counts the initialisations.   *)
OnceInv == inits = IF initialized THEN 1 ELSE 0

(* No interleaving of OnStart with unlock events initialises the business  *)
(* of one service process twice, also when queries or subscriptions fail.  *)
THEOREM UnlockInitializesOnce == Spec => []InitializedOnce
<1>1. Init => OnceInv
  BY DEF Init, OnceInv
<1>2. OnceInv /\ [Next]_vars => OnceInv'
  <2> SUFFICES ASSUME OnceInv, [Next]_vars PROVE OnceInv'
      OBVIOUS
  <2>1. CASE UNCHANGED <<initialized, inits>>
      BY <2>1 DEF OnceInv
  <2>2. CASE TryNotifyUnlocked
      BY <2>2 DEF TryNotifyUnlocked, OnceInv
  <2>3. CASE ProcessEnds
      BY <2>3 DEF ProcessEnds, OnceInv
  <2>4. QED
    <3>1. CASE OnStart
        BY <2>1, <3>1 DEF OnStart, observer
    <3>2. CASE MainNext
        BY <2>1, <2>2, <3>2
        DEF MainNext, StartCheck, RegisterUserUnlockListener, StartRecheck,
            MainTry, MainInit, InitBusinessAfterUnlock, Publish, observer
    <3>3. CASE OnReceiveEvent
        BY <2>1, <3>3 DEF OnReceiveEvent
    <3>4. ASSUME NEW n \in TaskIds, TaskNext(n) PROVE OnceInv'
        BY <2>1, <2>2, <3>4 DEF TaskNext, TaskTry, TaskInit, InitBusinessAfterUnlock
    <3>5. CASE UnregisterUserUnlockListener
        BY <2>1, <3>5 DEF UnregisterUserUnlockListener
    <3>6. ASSUME NEW c \in Clients,
                 \/ ClientStarts(c) \/ ClientDies(c)
                 \/ RegisterUpdateCallback(c) \/ ClientUnregisters(c)
          PROVE  OnceInv'
        BY <2>1, <3>6
        DEF ClientStarts, ClientDies, RegisterUpdateCallback, ClientUnregisters, observer
    <3>7. ASSUME NEW c \in Clients, NEW p \in 1..MaxProcesses,
                 InsertClientProxy(c, p) \/ OnRemoteDied(c, p)
          PROVE  OnceInv'
        BY <2>1, <3>7 DEF InsertClientProxy, OnRemoteDied, observer
    <3>8. CASE DelayInit \/ OnNetChanged \/ DoAutoUpgrade \/ FirmwareWorks
               \/ TimePasses
        BY <2>1, <3>8
        DEF DelayInit, OnNetChanged, DoAutoUpgrade, FirmwareWorks, TimePasses,
            observer
    <3>9. CASE LoopNext
        BY <2>1, <2>3, <3>9 DEF LoopNext, IdleCheck, PreExit, SAExit, observer
    <3>10. CASE Kill
        BY <2>3, <3>10 DEF Kill
    <3>11. CASE UNCHANGED vars
        BY <2>1, <3>11 DEF vars, observer
    <3>12. QED
        BY <3>1, <3>2, <3>3, <3>4, <3>5, <3>6, <3>7, <3>8, <3>9, <3>10, <3>11 DEF Next
<1>3. OnceInv => InitializedOnce
  BY DEF OnceInv, InitializedOnce
<1>4. QED
  BY <1>1, <1>2, <1>3, PTL DEF Spec

-----------------------------------------------------------------------------
(* The registry of client callbacks                                        *)

(* Processes of a client are numbered in the order of their births.        *)
RegistryTypes ==
    /\ MaxProcesses \in Nat
    /\ process \in [Clients -> Nat]
    /\ born \in [Clients -> Nat]
    /\ clientProxyMap \in [Clients -> Nat]

(* Nothing is known of a process that has not started yet.                 *)
KnownIsBorn ==
    \A c \in Clients :
       /\ process[c] <= born[c]
       /\ clientProxyMap[c] <= born[c]
       /\ \A p \in Nat : <<c, p>> \in calls => p <= born[c]

(* A registered process is watched while it lives; once it is dead its     *)
(* notice is on the way, or it died before it could be watched.            *)
RegisteredIsWatched ==
    \A c \in Clients :
       clientProxyMap[c] # 0 =>
          IF process[c] = clientProxyMap[c]
          THEN <<c, clientProxyMap[c]>> \in watched
          ELSE <<c, clientProxyMap[c]>> \in notices \cup deaf

RegistryInv == RegistryTypes /\ KnownIsBorn /\ RegisteredIsWatched

registryVars == <<process, born, clientProxyMap, calls, watched, notices, deaf>>

\* The service starts in a state of the registry invariant.
LEMMA RegistryInit == Init => RegistryInv
BY LifecycleAssumption
DEF Init, RegistryInv, RegistryTypes, KnownIsBorn, RegisteredIsWatched

(* A step that touches none of the registry's variables keeps it.          *)
LEMMA RegistryStutter ==
    ASSUME RegistryInv, UNCHANGED registryVars PROVE RegistryInv'
BY DEF RegistryInv, RegistryTypes, KnownIsBorn, RegisteredIsWatched, registryVars

(* The end of the process empties the registry.                            *)
LEMMA RegistryEnds ==
    ASSUME RegistryInv, ProcessEnds PROVE RegistryInv'
BY DEF RegistryInv, RegistryTypes, KnownIsBorn, RegisteredIsWatched, ProcessEnds

(* Removing the entry of one client leaves those of the others alone.      *)
LEMMA UnregisterEffect ==
    ASSUME RegistryInv, NEW c \in Clients, UnregisterUpdateCallback(c)
    PROVE  /\ clientProxyMap' = [clientProxyMap EXCEPT ![c] = 0]
           /\ \A d \in Clients \ {c}, p \in Nat :
                 <<d, p>> \in watched => <<d, p>> \in watched'
BY DEF RegistryInv, RegistryTypes, UnregisterUpdateCallback

\* The start and the death of a client process keep the registry invariant.
LEMMA RegistryClients ==
    ASSUME RegistryInv, NEW c \in Clients,
           ClientStarts(c) \/ ClientDies(c)
    PROVE  RegistryInv'
<1>1. CASE ClientStarts(c)
  <2>1. /\ process' = [process EXCEPT ![c] = born[c] + 1]
        /\ born' = [born EXCEPT ![c] = born[c] + 1]
      BY <1>1 DEF ClientStarts, RegistryInv, RegistryTypes
  <2>2. RegistryTypes' /\ KnownIsBorn'
      BY <1>1, <2>1 DEF ClientStarts, RegistryInv, RegistryTypes, KnownIsBorn, registry
  <2>3. RegisteredIsWatched'
      BY <1>1, <2>1
      DEF ClientStarts, RegistryInv, RegistryTypes, KnownIsBorn, RegisteredIsWatched,
          registry
  <2>4. QED
      BY <2>2, <2>3 DEF RegistryInv
<1>2. CASE ClientDies(c)
  <2>1. RegistryTypes' /\ KnownIsBorn'
      BY <1>2 DEF ClientDies, RegistryInv, RegistryTypes, KnownIsBorn
  <2>2. RegisteredIsWatched'
      BY <1>2 DEF ClientDies, RegistryInv, RegistryTypes, RegisteredIsWatched
  <2>3. QED
      BY <2>1, <2>2 DEF RegistryInv
<1>3. QED
  BY <1>1, <1>2

(* The two halves of a registration, with anything between them.           *)
LEMMA RegistryCalls ==
    ASSUME RegistryInv, NEW c \in Clients, NEW p \in 1..MaxProcesses,
           RegisterUpdateCallback(c) \/ InsertClientProxy(c, p)
    PROVE  RegistryInv'
<1>1. CASE RegisterUpdateCallback(c)
  <2>1. RegistryTypes' /\ KnownIsBorn'
      BY <1>1, UnregisterEffect
      DEF RegisterUpdateCallback, RegistryInv, RegistryTypes, KnownIsBorn
  <2>2. RegisteredIsWatched'
      BY <1>1, UnregisterEffect
      DEF RegisterUpdateCallback, RegistryInv, RegistryTypes, RegisteredIsWatched
  <2>3. QED
      BY <2>1, <2>2 DEF RegistryInv
<1>2. CASE InsertClientProxy(c, p)
  <2>1. RegistryTypes' /\ KnownIsBorn'
      BY <1>2 DEF InsertClientProxy, RegistryInv, RegistryTypes, KnownIsBorn, world
  <2>2. RegisteredIsWatched'
      BY <1>2
      DEF InsertClientProxy, AddDeathRecipient, RegistryInv, RegistryTypes,
          RegisteredIsWatched, world
  <2>3. QED
      BY <2>1, <2>2 DEF RegistryInv
<1>3. QED
  BY <1>1, <1>2

\* A removal of a callback, by the client or by its death recipient, keeps the invariant.
LEMMA RegistryRemovals ==
    ASSUME RegistryInv, NEW c \in Clients, NEW p \in 1..MaxProcesses,
           ClientUnregisters(c) \/ OnRemoteDied(c, p)
    PROVE  RegistryInv'
<1>1. RegistryTypes' /\ KnownIsBorn'
  BY UnregisterEffect
  DEF ClientUnregisters, OnRemoteDied, RegistryInv, RegistryTypes, KnownIsBorn, world
<1>2. RegisteredIsWatched'
  BY UnregisterEffect
  DEF ClientUnregisters, OnRemoteDied, RegistryInv, RegistryTypes,
      RegisteredIsWatched, world
<1>3. QED
  BY <1>1, <1>2 DEF RegistryInv

\* Every step of the service keeps the registry invariant.
LEMMA RegistryInductive == RegistryInv /\ [Next]_vars => RegistryInv'
<1> SUFFICES ASSUME RegistryInv, [Next]_vars PROVE RegistryInv'
    OBVIOUS
<1>1. CASE \/ OnStart \/ MainNext \/ OnReceiveEvent
           \/ \E n \in TaskIds : TaskNext(n)
           \/ UnregisterUserUnlockListener
  <2>1. UNCHANGED registryVars
      BY <1>1
      DEF OnStart, MainNext, StartCheck, RegisterUserUnlockListener, StartRecheck,
          MainTry, MainInit, Publish, OnReceiveEvent, TaskNext, TaskTry, TaskInit,
          UnregisterUserUnlockListener, registry, world, registryVars
  <2>2. QED
      BY <2>1, RegistryStutter
<1>2. ASSUME NEW c \in Clients, ClientStarts(c) \/ ClientDies(c) PROVE RegistryInv'
  BY <1>2, RegistryClients
<1>3. ASSUME NEW c \in Clients, RegisterUpdateCallback(c) \/ ClientUnregisters(c)
      PROVE  RegistryInv'
  <2>1. 1 \in 1..MaxProcesses
      BY LifecycleAssumption
  <2>2. QED
      BY <1>3, <2>1, RegistryCalls, RegistryRemovals
<1>4. ASSUME NEW c \in Clients, NEW p \in 1..MaxProcesses,
             InsertClientProxy(c, p) \/ OnRemoteDied(c, p)
      PROVE  RegistryInv'
  BY <1>4, RegistryCalls, RegistryRemovals
<1>5. CASE \/ DelayInit \/ OnNetChanged \/ DoAutoUpgrade \/ FirmwareWorks
           \/ TimePasses \/ IdleCheck \/ PreExit
  <2>1. UNCHANGED registryVars
      BY <1>5
      DEF DelayInit, OnNetChanged, DoAutoUpgrade, FirmwareWorks, TimePasses,
          IdleCheck, PreExit, registry, world, registryVars
  <2>2. QED
      BY <2>1, RegistryStutter
<1>6. CASE SAExit \/ Kill
  <2>1. ProcessEnds \/ UNCHANGED registryVars
      BY <1>6 DEF SAExit, Kill, registry, world, registryVars
  <2>2. QED
      BY <2>1, RegistryStutter, RegistryEnds
<1>7. CASE UNCHANGED vars
  <2>1. UNCHANGED registryVars
      BY <1>7 DEF vars, registry, world, registryVars
  <2>2. QED
      BY <2>1, RegistryStutter
<1>8. QED
  BY <1>1, <1>2, <1>3, <1>4, <1>5, <1>6, <1>7 DEF Next, LoopNext

(* However calls, deaths, restarts and late notices of any number of       *)
(* clients interleave, a dead client whose callback is still registered    *)
(* has its notice on the way, unless it died before it was watched.        *)
THEOREM DeadClientsAreNoticed == Spec => []DeadClientIsNoticed
<1>1. RegistryInv => DeadClientIsNoticed
  BY DEF RegistryInv, RegisteredIsWatched, DeadClientIsNoticed
<1>2. QED
  BY <1>1, RegistryInit, RegistryInductive, PTL DEF Spec

-----------------------------------------------------------------------------
(* The next automatic upgrade                                              *)

(* A timer that fired stands only for a time that is past.                 *)
StaleIsPast == alarm = "stale" => due \notin Future

(* Without a timer a future time is one of a process that has not handled  *)
(* its first event, or the timer service failed.                           *)
UnarmedIsEarly ==
    alarm = "none" /\ due \in Future => Faults \/ delayInit \/ ~looper

(* From PreExit on the policy is the planned one.                          *)
ExitIsPlanned == loop \in {"exit", "exited"} => policy = planned

AlarmInv ==
    /\ alarm \in {"none", "set", "stale"}
    /\ StaleIsPast /\ UnarmedIsEarly /\ ExitIsPlanned

(* A refresh leaves a running timer for a time that lies ahead.            *)
LEMMA RefreshArms ==
    ASSUME AlarmInv, HandleNetChange
    PROVE  /\ alarm' \in {"none", "set", "stale"}
           /\ due' \in Future => alarm' = "set" \/ (Faults /\ alarm' = "none")
<1>1. ASSUME NEW times, RegisterAutoUpgradeTime(times)
      PROVE  /\ alarm' \in {"none", "set", "stale"}
             /\ due' \in Future => alarm' = "set" \/ (Faults /\ alarm' = "none")
  BY <1>1 DEF RegisterAutoUpgradeTime, RegisterAlarm, RegisterTimer
<1>2. CASE KeepAutoUpgradeTime
  BY <1>2 DEF KeepAutoUpgradeTime, RegisterAlarm, RegisterTimer, AlarmInv, StaleIsPast
<1>3. QED
  BY <1>1, <1>2 DEF HandleNetChange

\* Every step keeps the alarm invariant.
LEMMA AlarmInductive == AlarmInv /\ [Next]_vars => AlarmInv'
<1> SUFFICES ASSUME AlarmInv, [Next]_vars PROVE AlarmInv'
    OBVIOUS
<1> USE DEF AlarmInv, StaleIsPast, UnarmedIsEarly, ExitIsPlanned
<1>1. CASE UNCHANGED <<due, alarm, delayInit, looper, loop, policy, planned>>
  BY <1>1
<1>2. ASSUME UNCHANGED <<alarm, loop, policy, planned>>, InitBusinessAfterUnlock
      PROVE  AlarmInv'
  BY <1>2 DEF InitBusinessAfterUnlock, InitFirmware, Future, Delays
<1>3. CASE ProcessEnds /\ loop' \in {"wait", "exited"} /\ (loop' = "exited" => loop = "exit")
  BY <1>3 DEF ProcessEnds
<1>4. CASE OnStart
  BY <1>4 DEF OnStart, upgrade, world
<1>5. CASE MainNext
  <2>1. CASE MainInit
      BY <1>2, <2>1 DEF MainInit, InitBusinessAfterUnlock, InitFirmware, world
  <2>2. CASE MainNext /\ ~MainInit
      BY <1>1, <2>2
      DEF MainNext, StartCheck, RegisterUserUnlockListener, StartRecheck, MainTry,
          Publish, world, idling, upgrade
  <2>3. QED
      BY <1>5, <2>1, <2>2
<1>6. ASSUME NEW n \in TaskIds, TaskNext(n) PROVE AlarmInv'
  <2>1. CASE TaskTry(n)
      BY <1>1, <2>1 DEF TaskTry, world, idling, upgrade
  <2>2. CASE TaskInit(n)
      BY <1>2, <2>2 DEF TaskInit, InitBusinessAfterUnlock, InitFirmware, world
  <2>3. QED
      BY <1>6, <2>1, <2>2 DEF TaskNext
<1>7. CASE OnReceiveEvent \/ UnregisterUserUnlockListener
  BY <1>1, <1>7 DEF OnReceiveEvent, UnregisterUserUnlockListener, world, idling, upgrade
<1>8. ASSUME NEW c \in Clients,
             \/ ClientStarts(c) \/ ClientDies(c)
             \/ RegisterUpdateCallback(c) \/ ClientUnregisters(c)
      PROVE  AlarmInv'
  BY <1>1, <1>8
  DEF ClientStarts, ClientDies, RegisterUpdateCallback, ClientUnregisters, world,
      idling, upgrade
<1>9. ASSUME NEW c \in Clients, NEW p \in 1..MaxProcesses,
             InsertClientProxy(c, p) \/ OnRemoteDied(c, p)
      PROVE  AlarmInv'
  BY <1>1, <1>9 DEF InsertClientProxy, OnRemoteDied, world, idling, upgrade
<1>10. CASE DelayInit \/ OnNetChanged
  BY <1>10, RefreshArms DEF DelayInit, OnNetChanged, HandleEvent, world
<1>11. CASE DoAutoUpgrade
  BY <1>11
  DEF DoAutoUpgrade, GetStepAfterInit, CalculateAutoUpgradeTime,
      RegisterAutoUpgradeTime, RegisterAlarm, RegisterTimer, Future, Delays, world
<1>12. CASE FirmwareWorks
  BY <1>1, <1>12 DEF FirmwareWorks, world
<1>13. CASE TimePasses
  BY <1>13 DEF TimePasses, Future, Delays, world
<1>14. CASE IdleCheck \/ PreExit
  BY <1>14 DEF IdleCheck, PreExit, UpdateStartupPolicy, upgrade, world
<1>15. CASE SAExit \/ Kill
  BY <1>1, <1>3, <1>15 DEF SAExit, Kill, world, upgrade
<1>16. CASE UNCHANGED vars
  BY <1>1, <1>16 DEF vars, world, idling, upgrade
<1>17. QED
  BY <1>4, <1>5, <1>6, <1>7, <1>8, <1>9, <1>10, <1>11, <1>12, <1>13, <1>14, <1>15,
     <1>16
  DEF Next, LoopNext

(* Whatever restarts, network changes, failed checks and refused upgrades  *)
(* came before, the next automatic upgrade has a running timer or, after   *)
(* an exit, the start policy that was computed for it; only a failure of   *)
(* the timer service leaves it without.                                    *)
THEOREM UpgradesAreAwaited == Spec => []NextUpgradeIsAwaited
<1>1. Init => AlarmInv
  BY DEF Init, AlarmInv, StaleIsPast, UnarmedIsEarly, ExitIsPlanned, Future, Delays
<1>2. AlarmInv => NextUpgradeIsAwaited
  BY DEF AlarmInv, StaleIsPast, UnarmedIsEarly, ExitIsPlanned, NextUpgradeIsAwaited
<1>3. QED
  BY <1>1, <1>2, AlarmInductive, PTL DEF Spec

-----------------------------------------------------------------------------
(* The types                                                               *)

(* The observer and OnStart.                                               *)
ObserverTypes ==
    /\ up \in BOOLEAN /\ unlocked \in BOOLEAN /\ subscribed \in BOOLEAN
    /\ initialized \in BOOLEAN /\ unsubscribe \in BOOLEAN
    /\ main \in {"off", "check", "register", "recheck", "try", "init", "publish", "on"}
    /\ tasks \in [TaskIds -> {"none", "try", "init", "done"}]
    /\ inits \in Nat

(* The registry: no client has more processes than the bound.              *)
ClientTypes ==
    /\ isRemoteIdle \in BOOLEAN /\ called \in 0..MaxCalls
    /\ process \in [Clients -> 0..MaxProcesses]
    /\ born \in [Clients -> 0..MaxProcesses]
    /\ clientProxyMap \in [Clients -> 0..MaxProcesses]
    /\ calls \subseteq Clients \X (1..MaxProcesses)
    /\ watched \subseteq Clients \X (1..MaxProcesses)
    /\ notices \subseteq Clients \X (1..MaxProcesses)
    /\ deaf \subseteq Clients \X (1..MaxProcesses)

(* The idle loop: a delay of less than 30 s never becomes the policy.      *)
LoopTypes ==
    /\ looper \in BOOLEAN /\ busy \in BOOLEAN /\ needRetry \in BOOLEAN /\ delayInit \in BOOLEAN
    /\ due \in Future \cup {"past", "unset"} /\ planned \in Delays
    /\ alarm \in {"none", "set", "stale"}
    /\ loop \in {"wait", "schedule", "exit", "exited"}
    /\ policy \in {"none", "near", "far"}

observerVars == <<up, main, unlocked, observer>>
clientVars == <<registry, process, born, called>>
loopVars == <<idling, policy>>

(* A part whose variables a step leaves alone keeps its types.             *)
LEMMA TypesStay ==
    /\ ObserverTypes /\ UNCHANGED observerVars => ObserverTypes'
    /\ ClientTypes /\ UNCHANGED clientVars => ClientTypes'
    /\ LoopTypes /\ UNCHANGED loopVars => LoopTypes'
<1>1. ObserverTypes /\ UNCHANGED observerVars => ObserverTypes'
  BY DEF ObserverTypes, observerVars, observer
<1>2. ClientTypes /\ UNCHANGED clientVars => ClientTypes'
  BY DEF ClientTypes, clientVars, registry
<1>3. LoopTypes /\ UNCHANGED loopVars => LoopTypes'
  BY DEF LoopTypes, loopVars, idling, upgrade
<1>4. QED BY <1>1, <1>2, <1>3

(* The compare-exchange sets the flag.                                     *)
LEMMA TryTypes ==
    ASSUME ObserverTypes, TryNotifyUnlocked
    PROVE  /\ initialized' \in BOOLEAN /\ subscribed' \in BOOLEAN /\ unsubscribe' \in BOOLEAN
           /\ inits' \in Nat
<1>1. inits' \in Nat
  BY DEF ObserverTypes, TryNotifyUnlocked
<1>2. QED BY <1>1 DEF ObserverTypes, TryNotifyUnlocked

(* OnStart, the tasks of the unlock events and the unsubscription keep the *)
(* types of the observer.                                                  *)
LEMMA ObserverSteps ==
    ASSUME ObserverTypes,
           \/ OnStart \/ MainNext \/ OnReceiveEvent
           \/ \E n \in TaskIds : TaskNext(n)
           \/ UnregisterUserUnlockListener \/ ProcessEnds
    PROVE  ObserverTypes'
<1> USE DEF ObserverTypes
<1>1. CASE OnStart
  BY <1>1 DEF OnStart, observer, world
<1>2. CASE MainNext
  <2>1. CASE StartCheck \/ StartRecheck \/ Publish
    BY <2>1 DEF StartCheck, StartRecheck, Publish, observer, world
  <2>2. CASE RegisterUserUnlockListener
    BY <2>2, LifecycleAssumption DEF RegisterUserUnlockListener, world
  <2>3. CASE MainTry
    BY <2>3, TryTypes DEF MainTry, world
  <2>4. CASE MainInit
    BY <2>4 DEF MainInit, InitBusinessAfterUnlock, world
  <2>5. QED BY <1>2, <2>1, <2>2, <2>3, <2>4 DEF MainNext
<1>3. CASE OnReceiveEvent
  BY <1>3 DEF OnReceiveEvent
<1>4. ASSUME NEW n \in TaskIds, TaskNext(n) PROVE ObserverTypes'
  <2>1. CASE TaskTry(n)
    <3>1. tasks' \in [TaskIds -> {"none", "try", "init", "done"}]
      BY <2>1 DEF TaskTry
    <3>2. QED BY <2>1, <3>1, TryTypes DEF TaskTry, world
  <2>2. CASE TaskInit(n)
    BY <2>2 DEF TaskInit, InitBusinessAfterUnlock, world
  <2>3. QED BY <1>4, <2>1, <2>2 DEF TaskNext
<1>5. CASE UnregisterUserUnlockListener
  BY <1>5 DEF UnregisterUserUnlockListener, world
<1>6. CASE ProcessEnds
  BY <1>6 DEF ProcessEnds, NoTasks
<1>7. QED BY <1>1, <1>2, <1>3, <1>4, <1>5, <1>6

(* Removing an entry keeps the types of the map and of the recipients.     *)
LEMMA UnregisterTypes ==
    ASSUME ClientTypes, NEW c \in Clients, UnregisterUpdateCallback(c)
    PROVE  /\ isRemoteIdle' \in BOOLEAN
           /\ clientProxyMap' \in [Clients -> 0..MaxProcesses]
           /\ watched' \subseteq Clients \X (1..MaxProcesses)
<1>1. 0 \in 0..MaxProcesses
  BY LifecycleAssumption
<1>2. isRemoteIdle' \in BOOLEAN
  BY DEF ClientTypes, UnregisterUpdateCallback
<1>3. clientProxyMap' \in [Clients -> 0..MaxProcesses] /\ watched' \subseteq watched
  BY <1>1 DEF ClientTypes, UnregisterUpdateCallback
<1>4. QED BY <1>2, <1>3 DEF ClientTypes

(* The steps of the clients and of their death recipients keep the types   *)
(* of the registry.                                                        *)
LEMMA ClientSteps ==
    ASSUME ClientTypes,
           \/ \E c \in Clients :
                 \/ ClientStarts(c) \/ ClientDies(c)
                 \/ RegisterUpdateCallback(c) \/ ClientUnregisters(c)
                 \/ \E p \in 1..MaxProcesses : InsertClientProxy(c, p) \/ OnRemoteDied(c, p)
           \/ ProcessEnds
    PROVE  ClientTypes'
<1> USE LifecycleAssumption DEF ClientTypes
<1>1. ASSUME NEW c \in Clients, ClientStarts(c) PROVE ClientTypes'
  <2>1. born[c] + 1 \in 0..MaxProcesses
    BY <1>1 DEF ClientStarts
  <2>2. born' = [born EXCEPT ![c] = born[c] + 1] /\ process' = [process EXCEPT ![c] = born[c] + 1]
    BY <1>1 DEF ClientStarts
  <2>3. QED BY <1>1, <2>1, <2>2 DEF ClientStarts, registry
<1>2. ASSUME NEW c \in Clients, ClientDies(c) PROVE ClientTypes'
  BY <1>2 DEF ClientDies
<1>3. ASSUME NEW c \in Clients, RegisterUpdateCallback(c) PROVE ClientTypes'
  <2>1. called' \in 0..MaxCalls /\ <<c, process[c]>> \in Clients \X (1..MaxProcesses)
    BY <1>3 DEF RegisterUpdateCallback
  <2>2. QED BY <1>3, <2>1, UnregisterTypes DEF RegisterUpdateCallback
<1>4. ASSUME NEW c \in Clients, ClientUnregisters(c) PROVE ClientTypes'
  BY <1>4, UnregisterTypes DEF ClientUnregisters, world
<1>5. ASSUME NEW c \in Clients, NEW p \in 1..MaxProcesses, InsertClientProxy(c, p)
      PROVE  ClientTypes'
  <2>1. <<c, p>> \in Clients \X (1..MaxProcesses) /\ p \in 0..MaxProcesses
    OBVIOUS
  <2>2. /\ watched' \subseteq watched \cup {<<c, p>>} /\ calls' \subseteq calls
        /\ deaf' \subseteq deaf \cup {<<c, p>>} /\ isRemoteIdle' = FALSE
        /\ UNCHANGED <<notices, process, born, called>>
    BY <1>5 DEF InsertClientProxy, AddDeathRecipient, world
  <2>3. clientProxyMap' \in [Clients -> 0..MaxProcesses]
    BY <1>5, <2>1 DEF InsertClientProxy
  <2>4. QED BY <2>1, <2>2, <2>3
<1>6. ASSUME NEW c \in Clients, NEW p \in 1..MaxProcesses, OnRemoteDied(c, p)
      PROVE  ClientTypes'
  BY <1>6, UnregisterTypes DEF OnRemoteDied, world
<1>7. CASE ProcessEnds
  BY <1>7 DEF ProcessEnds
<1>8. QED BY <1>1, <1>2, <1>3, <1>4, <1>5, <1>6, <1>7

(* A refresh of the alarm, by an event or by an automatic upgrade, saves a *)
(* time and sets or drops the timer.                                       *)
LEMMA RefreshTypes ==
    ASSUME LoopTypes, HandleEvent \/ GetStepAfterInit
    PROVE  /\ due' \in Future \cup {"past", "unset"} /\ alarm' \in {"none", "set", "stale"}
           /\ needRetry' \in BOOLEAN
<1>1. ASSUME NEW times \in SUBSET (Future \cup {"past"}), RegisterAutoUpgradeTime(times)
      PROVE  due' \in Future \cup {"past", "unset"} /\ alarm' \in {"none", "set", "stale"}
  BY <1>1 DEF RegisterAutoUpgradeTime, RegisterAlarm, RegisterTimer
<1>2. CASE HandleEvent
  <2>1. {"now"} \in SUBSET (Future \cup {"past"}) /\ {"past", "now", "near"} \in SUBSET (Future \cup {"past"})
    BY DEF Future, Delays
  <2>2. CASE KeepAutoUpgradeTime /\ UNCHANGED needRetry
    BY <2>2 DEF KeepAutoUpgradeTime, RegisterAlarm, RegisterTimer, LoopTypes
  <2>3. QED BY <1>1, <1>2, <2>1, <2>2 DEF HandleEvent, HandleNetChange, LoopTypes
<1>3. CASE GetStepAfterInit
  <2>1. CalculateAutoUpgradeTime \in SUBSET (Future \cup {"past"})
    BY DEF Future, Delays, CalculateAutoUpgradeTime
  <2>2. QED BY <1>1, <1>3, <2>1 DEF GetStepAfterInit, LoopTypes
<1>4. QED BY <1>2, <1>3

(* The initialisation, the alarm, the firmware, the clock, the idle loop   *)
(* and the end of the process keep the types of the idle loop.             *)
LEMMA LoopSteps ==
    ASSUME LoopTypes,
           \/ OnStart \/ (InitBusinessAfterUnlock /\ UNCHANGED policy)
           \/ DelayInit \/ OnNetChanged \/ DoAutoUpgrade
           \/ FirmwareWorks \/ TimePasses \/ LoopNext \/ Kill
    PROVE  LoopTypes'
<1>1. CASE OnStart
  BY <1>1 DEF OnStart, LoopTypes, Delays, upgrade, world
<1>2. CASE InitBusinessAfterUnlock /\ UNCHANGED policy
  BY <1>2 DEF InitBusinessAfterUnlock, InitFirmware, LoopTypes
<1>3. CASE DelayInit \/ OnNetChanged
  BY <1>3, RefreshTypes DEF DelayInit, OnNetChanged, LoopTypes, world
<1>4. CASE DoAutoUpgrade
  <2>1. CASE GetStepAfterInit
    BY <1>4, <2>1, RefreshTypes DEF DoAutoUpgrade, GetStepAfterInit, LoopTypes, world
  <2>2. QED BY <1>4, <2>1 DEF DoAutoUpgrade, LoopTypes, world
<1>5. CASE FirmwareWorks
  BY <1>5 DEF FirmwareWorks, LoopTypes, world
<1>6. CASE TimePasses
  BY <1>6 DEF TimePasses, LoopTypes, Future, Delays, world
<1>7. CASE IdleCheck
  <2>1. TaskManage \in Delays
    BY DEF TaskManage, GetAutoUpgradeScheduleTask, LoopTypes, Future, Delays
  <2>2. QED BY <1>7, <2>1 DEF IdleCheck, LoopTypes, upgrade, world
<1>8. CASE PreExit
  BY <1>8 DEF PreExit, UpdateStartupPolicy, LoopTypes, Delays, upgrade
<1>9. CASE ProcessEnds /\ loop' \in {"wait", "exited"}
  BY <1>9 DEF ProcessEnds, LoopTypes
<1>10. CASE SAExit \/ Kill
  BY <1>9, <1>10 DEF SAExit, Kill, LoopTypes, upgrade, world
<1>11. QED BY <1>1, <1>2, <1>3, <1>4, <1>5, <1>6, <1>7, <1>8, <1>10 DEF LoopNext

(* Every step keeps the types.                                             *)
LEMMA TypesInductive ==
    ASSUME ObserverTypes, ClientTypes, LoopTypes, [Next]_vars
    PROVE  ObserverTypes' /\ ClientTypes' /\ LoopTypes'
<1>1. CASE OnStart
  <2>1. UNCHANGED clientVars
    BY <1>1 DEF OnStart, world, clientVars
  <2>2. QED BY <1>1, <2>1, TypesStay, ObserverSteps, LoopSteps
<1>2. CASE MainNext \/ \E n \in TaskIds : TaskNext(n)
  <2>1. UNCHANGED clientVars /\ (UNCHANGED loopVars \/ (InitBusinessAfterUnlock /\ UNCHANGED policy))
    BY <1>2
    DEF MainNext, StartCheck, RegisterUserUnlockListener, StartRecheck, MainTry, MainInit, Publish,
        TaskNext, TaskTry, TaskInit, world, clientVars, loopVars
  <2>2. QED BY <1>2, <2>1, TypesStay, ObserverSteps, LoopSteps
<1>3. CASE OnReceiveEvent \/ UnregisterUserUnlockListener
  <2>1. UNCHANGED <<clientVars, loopVars>>
    BY <1>3 DEF OnReceiveEvent, UnregisterUserUnlockListener, world, clientVars, loopVars
  <2>2. QED BY <1>3, <2>1, TypesStay, ObserverSteps
<1>4. ASSUME NEW c \in Clients,
             \/ ClientStarts(c) \/ ClientDies(c)
             \/ RegisterUpdateCallback(c) \/ ClientUnregisters(c)
             \/ \E p \in 1..MaxProcesses : InsertClientProxy(c, p) \/ OnRemoteDied(c, p)
      PROVE  ObserverTypes' /\ ClientTypes' /\ LoopTypes'
  <2>1. UNCHANGED <<observerVars, loopVars>>
    BY <1>4
    DEF ClientStarts, ClientDies, RegisterUpdateCallback, ClientUnregisters, InsertClientProxy,
        OnRemoteDied, world, observerVars, loopVars
  <2>2. QED BY <1>4, <2>1, TypesStay, ClientSteps
<1>5. CASE DelayInit \/ OnNetChanged \/ DoAutoUpgrade \/ FirmwareWorks \/ TimePasses
           \/ IdleCheck \/ PreExit
  <2>1. UNCHANGED <<observerVars, clientVars>>
    BY <1>5
    DEF DelayInit, OnNetChanged, DoAutoUpgrade, FirmwareWorks, TimePasses, IdleCheck, PreExit,
        world, observerVars, clientVars
  <2>2. QED BY <1>5, <2>1, TypesStay, LoopSteps DEF LoopNext
<1>6. CASE SAExit \/ Kill
  <2>1. ProcessEnds \/ UNCHANGED <<observerVars, clientVars>>
    BY <1>6 DEF SAExit, Kill, world, observerVars, clientVars
  <2>2. QED BY <1>6, <2>1, TypesStay, ObserverSteps, ClientSteps, LoopSteps DEF LoopNext
<1>7. CASE UNCHANGED vars
  <2>1. UNCHANGED <<observerVars, clientVars, loopVars>>
    BY <1>7 DEF vars, world, observerVars, clientVars, loopVars
  <2>2. QED BY <2>1, TypesStay
<1>8. QED BY <1>1, <1>2, <1>3, <1>4, <1>5, <1>6, <1>7 DEF Next, LoopNext

(* Every variable keeps its type: no client has more processes or calls    *)
(* than the bounds, every delay is one of the three the code tells apart,  *)
(* and the start policy is never one of less than 30 s.                    *)
THEOREM LifecycleTypes == Spec => []TypeOK
<1>1. Init => ObserverTypes /\ ClientTypes /\ LoopTypes
  <2> SUFFICES ASSUME Init PROVE ObserverTypes /\ ClientTypes /\ LoopTypes
    OBVIOUS
  <2>1. ObserverTypes
    BY DEF Init, NoTasks, ObserverTypes
  <2>2. ClientTypes
    BY LifecycleAssumption DEF Init, ClientTypes
  <2>3. LoopTypes
    BY DEF Init, LoopTypes, Delays
  <2>4. QED BY <2>1, <2>2, <2>3
<1>2. ObserverTypes /\ ClientTypes /\ LoopTypes => TypeOK
  <2> SUFFICES ASSUME ObserverTypes, ClientTypes, LoopTypes PROVE TypeOK
    OBVIOUS
  <2>1. {up, unlocked, subscribed, initialized, unsubscribe, looper, isRemoteIdle,
         busy, needRetry, delayInit} \subseteq BOOLEAN
    BY DEF ObserverTypes, ClientTypes, LoopTypes
  <2>2. {process, born, clientProxyMap} \subseteq [Clients -> 0..MaxProcesses]
    BY DEF ClientTypes
  <2>3. \A S \in {calls, watched, notices, deaf} : S \subseteq Clients \X (1..MaxProcesses)
    BY DEF ClientTypes
  <2>4. QED BY <2>1, <2>2, <2>3 DEF TypeOK, ObserverTypes, ClientTypes, LoopTypes
<1>3. QED
  BY <1>1, <1>2, TypesInductive, PTL DEF Spec
=============================================================================
