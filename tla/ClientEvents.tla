---------------------------- MODULE ClientEvents ----------------------------
(***************************************************************************)
(* How an application hears of events: the listeners of its updaters in    *)
(* either JavaScript binding, the kit that keeps the callbacks of the      *)
(* process and the proxy of the service, and the service that forgets its  *)
(* callbacks when it ends.                                                 *)
(*                                                                         *)
(* One native object exists per UpgradeInfo: the online updater, and the   *)
(* local updater.  Threads: the JS thread (in the ANI binding whoever holds *)
(* the updater's mutex), a worker with a call of its own, the thread that  *)
(* gets death notices.  The kit's lock is not held between GetService and  *)
(* the call, so these are steps of their own.                              *)
(***************************************************************************)
EXTENDS Integers, Sequences, SequencesExt, FiniteSets

CONSTANTS
    Subscriptions,   \* what the application subscribes: classification and function
    maxRetryTimes,   \* how often an updater tries to register its callback
    retryMaxTimes,   \* how often the kit reconnects after a death notice
    MaxGen,          \* bound: processes of the service
    MaxQueue,        \* bound: events on their way to the listeners
    MaxListeners     \* bound: listeners, per updater

None == "none"
Nobody == [c |-> None, h |-> None]

ASSUME SubscriptionsAssumption == \A s \in Subscriptions : s = [c |-> s.c, h |-> s.h] /\ s # Nobody
ASSUME TriesAssumption == maxRetryTimes \in Nat \ {0} /\ retryMaxTimes \in Nat
ASSUME BoundsAssumption == MaxGen \in Nat \ {0} /\ MaxQueue \in Nat /\ MaxListeners \in [{"online", "local"} -> Nat]

Updaters == {"online", "local"}
Classes == {s.c : s \in Subscriptions}
Handlers == {s.h : s \in Subscriptions}
Listener == Subscriptions
NoEvent == [u |-> None, c |-> None]

VARIABLES
    binding,     \* "napi" or "ani"
    unlocked,    \* the user has unlocked the device, or an extension is loaded
    created,     \* the application has got the local updater
    listeners,   \* per updater, in the order they were added
    queue,       \* events the JS thread has not published yet
    event,       \* the event that is being published
    held,        \* the listener whose handler runs, its mutex held
    js,          \* the call the JS thread makes: pc, op, updater, class, tries, proxy
    worker,      \* the proxy a worker is about to call, or 0
    proxy,       \* remoteServer_: the process it stands for, or 0
    recipients,  \* the processes whose death the kit will be told of
    cbMap,       \* remoteUpdateCallbackMap_
    retryTimes,
    notices,     \* death notices not handled yet
    gen, up,     \* the service: its process, and whether it runs
    reg,         \* clientProxyMap_: the updaters registered with it
    \* History, read by the properties only.
    why,         \* per updater, why its callback is not in the map
    missed,      \* a registration at a reconnect was refused
    unfinished   \* the unregistrations that failed

appVars == <<created, listeners, event, held, js>>
kitVars == <<proxy, recipients, cbMap, retryTimes>>
svcVars == <<gen, up, reg>>
vars == <<binding, unlocked, appVars, queue, worker, kitVars, notices, svcVars, why, missed, unfinished>>

Idle == [pc |-> "idle", op |-> None, u |-> None, c |-> None, tries |-> 0, got |-> 0]

Init ==
    /\ binding \in {"napi", "ani"} /\ unlocked \in BOOLEAN
    /\ created = FALSE /\ listeners = [u \in Updaters |-> <<>>]
    /\ queue = <<>> /\ event = NoEvent /\ held = Nobody /\ js = Idle /\ worker = 0
    /\ proxy = 0 /\ recipients = {} /\ cbMap = {} /\ retryTimes = 0 /\ notices = {}
    /\ gen = 0 /\ up = FALSE /\ reg = {}
    /\ why = [u \in Updaters |-> None] /\ missed = FALSE /\ unfinished = {}
-----------------------------------------------------------------------------
(***************************************************************************)
(* The service, as a client sees it.                                       *)
(***************************************************************************)
\* CallbackEnter for a call that is not exempt: without an extension the
\* user must have unlocked; the caller has the permission.
CallbackEnter == unlocked

ServiceDies ==
    /\ up
    /\ up' = FALSE /\ reg' = {}
    /\ notices' = notices \cup ({gen} \cap recipients) /\ recipients' = recipients \ {gen}
    /\ UNCHANGED <<binding, unlocked, appVars, queue, worker, proxy, cbMap, retryTimes, gen, why, missed, unfinished>>

\* Something else starts the service.
ServiceStarts ==
    /\ ~up /\ gen < MaxGen
    /\ gen' = gen + 1 /\ up' = TRUE /\ reg' = {}
    /\ UNCHANGED <<binding, unlocked, appVars, queue, worker, kitVars, notices, why, missed, unfinished>>

UserUnlocks ==
    /\ ~unlocked /\ unlocked' = TRUE
    /\ UNCHANGED <<binding, appVars, queue, worker, kitVars, notices, svcVars, why, missed, unfinished>>

\* CallbackToHap with a callback registered.  napi_send_event may fail, and
\* the event is gone: that is the step nobody takes.
ServiceEvent(u, c) ==
    /\ up /\ u \in reg /\ Len(queue) < MaxQueue /\ MaxListeners[u] > 0
    /\ queue' = Append(queue, [u |-> u, c |-> c])
    /\ UNCHANGED <<binding, unlocked, appVars, worker, kitVars, notices, svcVars, why, missed, unfinished>>
-----------------------------------------------------------------------------
(***************************************************************************)
(* The kit.                                                                *)
(***************************************************************************)
\* Mutant: the callbacks are not registered again.
Connect_mut(g) ==
    /\ \/ up /\ g = gen
       \/ ~up /\ gen < MaxGen /\ g = gen + 1
    /\ gen' = g /\ up' = TRUE
    /\ proxy' = g /\ recipients' = recipients \cup {g}
    /\ UNCHANGED <<reg, missed>>

\* ResetRemoteService and the base class's ResetService forget the proxy.
NoProxy == 0

\* A new proxy: of the process that runs, or of one it loads.  It gets a
\* death recipient, and the callbacks of the map are registered with it:
\* whether the service took them is not looked at.
Connect(g) ==
    /\ \/ up /\ g = gen
       \/ ~up /\ gen < MaxGen /\ g = gen + 1
    /\ gen' = g /\ up' = TRUE
    /\ proxy' = g /\ recipients' = recipients \cup {g}
    /\ reg' = reg \cup (IF CallbackEnter THEN cbMap ELSE {})
    /\ missed' = (cbMap # {} /\ ~CallbackEnter)

\* The service cannot be loaded.
CannotConnect == ~up /\ proxy' = NoProxy /\ UNCHANGED <<recipients, gen, up, reg, missed>>

Processes == 1..MaxGen
GetService(g) ==
    \/ proxy # NoProxy /\ g = proxy /\ UNCHANGED <<proxy, recipients, gen, up, reg, missed>>
    \/ proxy = NoProxy /\ Connect(g)
NoService == proxy = NoProxy /\ CannotConnect

\* A death notice: the proxy is dropped, whichever process it stands for,
\* and the service is looked up again, but only so many times in all.
ResetService(g) ==
    /\ g \in notices /\ notices' = notices \ {g}
    /\ IF cbMap # {} /\ retryTimes < retryMaxTimes
       THEN /\ retryTimes' = retryTimes + 1
            /\ (\E n \in Processes : Connect(n)) \/ CannotConnect
       ELSE /\ proxy' = NoProxy
            /\ UNCHANGED <<retryTimes, recipients, gen, up, reg, missed>>
    /\ UNCHANGED <<binding, unlocked, appVars, queue, worker, cbMap, why, unfinished>>

\* Any other call of the kit, by a worker: it gets the service and calls it,
\* and drops the proxy, whichever it is by then, if the call fails.
WorkerGetService ==
    /\ worker = 0
    /\ \E g \in Processes : GetService(g) /\ worker' = g
    /\ UNCHANGED <<binding, unlocked, appVars, queue, cbMap, retryTimes, notices, why, unfinished>>

Answers(g) == up /\ gen = g /\ CallbackEnter

WorkerCalls ==
    /\ worker # 0 /\ worker' = 0
    /\ proxy' = IF Answers(worker) THEN proxy ELSE NoProxy
    /\ UNCHANGED <<binding, unlocked, appVars, queue, recipients, cbMap, retryTimes, notices,
                   svcVars, why, missed, unfinished>>
-----------------------------------------------------------------------------
(***************************************************************************)
(* The listeners.                                                          *)
(***************************************************************************)
Same(l, c, h) == l.h = h /\ (binding = "napi" => l.c = c)

\* FindSessionByHandle.
Sub(u, c, h) == \E l \in ToSet(listeners[u]) : Same(l, c, h)

\* The classification of a listener is compared before its mutex is taken;
\* ANI has one mutex per updater.
SameClass(l, c) == l.c = c

\* A call by the running handler waits for the mutex the handler is called
\* under: FindSessionByHandle stops at the listener it looks for, Unsubscribe
\* visits them all.
Blocks(op, u, c, h) ==
    /\ held # Nobody /\ event.u = u
    /\ \/ binding = "ani"
       \/ /\ SameClass(held, c)
          /\ op = "on" => \A i \in DOMAIN listeners[u] :
                            listeners[u][i] = [c |-> c, h |-> h]
                                => \E j \in 1..i : listeners[u][j] = held
Stuck(op, u, c) == js' = [Idle EXCEPT !.pc = "stuck", !.op = op, !.u = u, !.c = c]

\* The JS thread may call: from the application, or from a handler.
MayCall == js.pc \in {"idle", "handler"}
Done == IF held = Nobody THEN Idle ELSE [Idle EXCEPT !.pc = "handler"]
Start(op, u) == js' = [Idle EXCEPT !.pc = "get", !.op = op, !.u = u]

\* getLocalUpdater: Init registers the callback, the first time only.
GetLocalUpdater ==
    /\ MayCall /\ ~created /\ created' = TRUE
    /\ IF binding = "napi" THEN Start("init", "local") ELSE UNCHANGED js
    /\ UNCHANGED <<binding, unlocked, listeners, event, held, queue, worker, kitVars, notices, svcVars,
                   why, missed, unfinished>>

\* Whether an on and an off call the kit.
RegistersWhen(u) == u = "online" /\ (binding = "ani" => listeners[u] = <<>>)
UnregistersWhen(u, left) == u = "online" /\ (binding = "ani" => left = <<>>)

\* on: the online updater registers, in ANI with its first listener only;
\* the local updater's RegisterCallback does nothing.
On(u, c, h) ==
    /\ MayCall /\ (u = "local" => created)
    /\ \/ Blocks("on", u, c, h) /\ Stuck("on", u, c) /\ UNCHANGED listeners
       \/ /\ ~Blocks("on", u, c, h) /\ ~Sub(u, c, h) /\ Len(listeners[u]) < MaxListeners[u]
          /\ listeners' = [listeners EXCEPT ![u] = Append(@, [c |-> c, h |-> h])]
          /\ IF RegistersWhen(u) THEN Start("on", u) ELSE UNCHANGED js
    /\ UNCHANGED <<binding, unlocked, created, event, held, queue, worker, kitVars, notices, svcVars,
                   why, missed, unfinished>>

\* What is left when the listeners of the handlers are erased: the others,
\* in their order.
Unsubscribe(u, c, hs, left) ==
    LET stay == {i \in DOMAIN listeners[u] : \A h \in hs : ~Same(listeners[u][i], c, h)}
    IN  \E from \in [DOMAIN left -> stay] :
          /\ \A j, k \in DOMAIN left : j < k => from[j] < from[k]
          /\ stay = {from[k] : k \in DOMAIN left}
          /\ \A k \in DOMAIN left : left[k] = listeners[u][from[k]]

\* off, of one handler or of all: NAPI unregisters the callback whether or
\* not listeners are left, ANI only when none is.
Off(u, c, hs) ==
    /\ MayCall /\ (u = "local" => created)
    /\ \/ (\E h \in hs : Blocks("off", u, c, h)) /\ Stuck("off", u, c) /\ UNCHANGED <<listeners, why>>
       \/ /\ \A h \in hs : ~Blocks("off", u, c, h)
          /\ \E left \in BoundedSeq(Listener, Len(listeners[u])) :
               /\ Unsubscribe(u, c, hs, left)
               /\ listeners' = [listeners EXCEPT ![u] = left]
               /\ IF UnregistersWhen(u, left)
                  THEN Start("off", u) /\ why' = [why EXCEPT ![u] = "off"]
                  ELSE UNCHANGED <<js, why>>
    /\ UNCHANGED <<binding, unlocked, created, event, held, queue, worker, kitVars, notices, svcVars,
                   missed, unfinished>>

\* RegisterCallback tries again, the others do not.
Again == IF js.op = "on" /\ js.tries + 1 < maxRetryTimes
                  THEN [js EXCEPT !.pc = "get", !.tries = @ + 1] ELSE Done

CallGetService ==
    /\ js.pc = "get"
    /\ \/ /\ \E g \in Processes : GetService(g) /\ js' = [js EXCEPT !.pc = "ipc", !.got = g]
          /\ UNCHANGED <<why, unfinished>>
       \/ /\ NoService
          /\ js' = Again
          /\ why' = IF js.op # "off" /\ js.u \notin cbMap THEN [why EXCEPT ![js.u] = "failed"] ELSE why
          /\ unfinished' = IF js.op = "off" THEN unfinished \cup {js.u} ELSE unfinished
    /\ UNCHANGED <<binding, unlocked, created, listeners, event, held, queue, worker, cbMap, retryTimes, notices>>

\* Mutant: the map gets the callback only if the service did.
RegisterUpdateCallback_mut ==
    /\ js.pc = "ipc" /\ js.op \in {"on", "init"}
    /\ why' = [why EXCEPT ![js.u] = None] /\ unfinished' = unfinished \ {js.u}
    /\ \/ Answers(js.got) /\ cbMap' = cbMap \cup {js.u} /\ reg' = reg \cup {js.u} /\ js' = Done /\ UNCHANGED proxy
       \/ ~Answers(js.got) /\ proxy' = NoProxy /\ js' = Again /\ UNCHANGED <<cbMap, reg>>
    /\ UNCHANGED <<binding, unlocked, created, listeners, event, held, queue, worker, recipients, retryTimes,
                   notices, gen, up, missed>>

\* The map gets the callback whether or not the service did.
RegisterUpdateCallback ==
    /\ js.pc = "ipc" /\ js.op \in {"on", "init"}
    /\ cbMap' = cbMap \cup {js.u} /\ why' = [why EXCEPT ![js.u] = None] /\ unfinished' = unfinished \ {js.u}
    /\ \/ Answers(js.got) /\ reg' = reg \cup {js.u} /\ js' = Done /\ UNCHANGED proxy
       \/ ~Answers(js.got) /\ proxy' = NoProxy /\ js' = Again /\ UNCHANGED reg
    /\ UNCHANGED <<binding, unlocked, created, listeners, event, held, queue, worker, recipients, retryTimes,
                   notices, gen, up, missed>>

UnregisterUpdateCallback ==
    /\ js.pc = "ipc" /\ js.op = "off"
    /\ cbMap' = cbMap \ {js.u} /\ js' = Done
    /\ \/ Answers(js.got) /\ reg' = reg \ {js.u} /\ UNCHANGED <<proxy, unfinished>>
       \/ ~Answers(js.got) /\ proxy' = NoProxy /\ unfinished' = unfinished \cup {js.u} /\ UNCHANGED reg
    /\ UNCHANGED <<binding, unlocked, created, listeners, event, held, queue, worker, recipients, retryTimes,
                   notices, gen, up, why, missed>>
-----------------------------------------------------------------------------
(***************************************************************************)
(* The events.                                                             *)
(***************************************************************************)
\* Mutant: every listener is told of every event.
IsSubscribeEvent_mut(l, c) == TRUE

\* ANI does not look at the classification.
IsSubscribeEvent(l, c) == binding = "napi" => SameClass(l, c)

\* The walk over the listeners goes on behind the i-th.
NotifyAfter(i, e) ==
    LET later == {j \in (i + 1)..Len(listeners[e.u]) : IsSubscribeEvent(listeners[e.u][j], e.c)}
    IN  \/ later = {} /\ held' = Nobody /\ event' = NoEvent /\ js' = Idle
        \/ /\ \E j \in later : (\A k \in later : j <= k) /\ held' = listeners[e.u][j]
           /\ event' = e /\ js' = [Idle EXCEPT !.pc = "handler"]

\* PublishToJS, on the JS thread; in ANI CallbackEventInfo.
PublishToJS ==
    /\ js.pc = "idle" /\ queue # <<>>
    /\ queue' = Tail(queue)
    /\ NotifyAfter(0, Head(queue))
    /\ UNCHANGED <<binding, unlocked, created, listeners, worker, kitVars, notices, svcVars, why, missed, unfinished>>

HandlerReturns ==
    /\ js.pc = "handler"
    /\ \E i \in DOMAIN listeners[event.u] : listeners[event.u][i] = held /\ NotifyAfter(i, event)
    /\ UNCHANGED <<binding, unlocked, created, listeners, queue, worker, kitVars, notices,
                   svcVars, why, missed, unfinished>>

Next ==
    \/ ServiceDies \/ ServiceStarts \/ UserUnlocks
    \/ \E u \in Updaters, c \in Classes : ServiceEvent(u, c)
    \/ \E g \in Processes : ResetService(g)
    \/ WorkerGetService \/ WorkerCalls
    \/ GetLocalUpdater
    \/ \E u \in Updaters, s \in Subscriptions : On(u, s.c, s.h)
    \/ \E u \in Updaters, s \in Subscriptions : Off(u, s.c, {s.h})
    \/ \E u \in Updaters, c \in Classes : Off(u, c, Handlers)
    \/ CallGetService \/ RegisterUpdateCallback \/ UnregisterUpdateCallback
    \/ PublishToJS \/ HandlerReturns

Spec == Init /\ [][Next]_vars
-----------------------------------------------------------------------------
TypeOK ==
    /\ binding \in {"napi", "ani"} /\ unlocked \in BOOLEAN /\ created \in BOOLEAN
    /\ \A u \in Updaters : listeners[u] \in Seq(Listener) /\ Len(listeners[u]) <= MaxListeners[u]
    /\ Len(queue) <= MaxQueue /\ held \in Listener \cup {Nobody}
    /\ js.pc \in {"idle", "handler", "get", "ipc", "stuck"} /\ js.tries \in 0..(maxRetryTimes - 1)
    /\ js.got \in 0..MaxGen /\ worker \in 0..MaxGen /\ proxy \in 0..MaxGen /\ gen \in 0..MaxGen
    /\ recipients \subseteq Processes /\ notices \subseteq Processes
    /\ cbMap \subseteq Updaters /\ reg \subseteq Updaters /\ unfinished \subseteq Updaters
    /\ retryTimes \in 0..retryMaxTimes

\* A handler runs only while it is subscribed to the event it is told of:
\* none is called after off has returned, and the walk over the listeners
\* never stands on one that was removed.
HandlerIsSubscribed ==
    held # Nobody => /\ held \in ToSet(listeners[event.u])
                     /\ binding = "napi" => held.c = event.c

\* The JS thread blocks itself only in a handler that calls on or off for
\* the updater it is told of and, in NAPI, the classification.
StuckOnlyByOwnCall ==
    js.pc = "stuck" => /\ held # Nobody /\ js.u = event.u
                       /\ binding = "napi" => js.c = held.c

\* While the kit holds a proxy of the service that runs, the service knows
\* every callback of the kit, unless it refused them when the kit connected.
WantedIsRegistered ==
    (up /\ proxy = gen) => cbMap \subseteq reg \/ missed

\* The service holds a callback the kit does not have only after an off
\* whose call to the service failed.
StaleOnlyAfterFailedOff == reg \subseteq cbMap \cup unfinished

\* An updater with listeners, and the local updater once the application
\* has it, is in the map of the kit, or it was told off
\* (in NAPI, where off unregisters those that are left), or the service
\* could not be loaded.  The ANI local updater never registers.
SilenceIsExplained ==
    \A u \in Updaters :
        ((listeners[u] # <<>> \/ (u = "local" /\ created)) /\ js.pc \in {"idle", "handler"})
            => \/ u \in cbMap
               \/ why[u] = "failed"
               \/ why[u] = "off" /\ binding = "napi"
               \/ u = "local" /\ binding = "ani"

\* Handlers run for those who are subscribed, and only a handler's own on or
\* off blocks the JS thread.
HandlerInv == TypeOK /\ HandlerIsSubscribed /\ StuckOnlyByOwnCall

\* The callbacks of the kit and those of the service agree, over deaths of the
\* service, late death notices and calls that fail, but for a service that
\* refused them when the kit connected and an off that never arrived.
RegistrationsAgree == WantedIsRegistered /\ StaleOnlyAfterFailedOff
=============================================================================
