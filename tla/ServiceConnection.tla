------------------------- MODULE ServiceConnection -------------------------
(***************************************************************************)
(* ShadowsocksConnection and the parts of ShadowsockConnector it calls: an *)
(* activity binding to the service of the other process, which may die and *)
(* be created again at any time.                                           *)
(*                                                                         *)
(* The framework posts onServiceConnected and onServiceDisconnected to the *)
(* activity's main thread, and forgets what it has posted when the client  *)
(* unbinds. binderDied runs on a binder thread, in no particular order to  *)
(* them, and posts onBinderDied. onServiceConnected is split at its calls  *)
(* into the other process. Processes of the service are numbered; 0 is no  *)
(* process.                                                                *)
(***************************************************************************)
EXTENDS Naturals, Sequences, FiniteSets

CONSTANT MaxProc    \* bound on the processes the service runs in; the last one stays
ASSUME ProcAssumption == MaxProc \in Nat \ {0}

VARIABLES
    \* the service's process
    proc, up, svcState, callbackAt,
    \* the framework: binding, process published to the client, active connection
    bound, published, attached,
    events,             \* posted to the client's main thread
    links, deaths,      \* linkToDeath in force; binderDied about to run
    \* ShadowsocksConnection
    connectionActive, callback, callbackRegistered, service, binder,
    pc,                 \* where onServiceConnected is
    \* ShadowsockConnector and the activity
    shadowsockState, connectState, destroyed, crashed,
    \* history
    orphanTask,         \* the activity was destroyed while onBinderDied was posted
    lateDeath           \* binderDied ran when another process was connected

procVars == <<proc, up, svcState, callbackAt>>
frameVars == <<bound, published, attached>>
connVars == <<connectionActive, callback, callbackRegistered, service, binder>>
uiVars == <<shadowsockState, connectState, destroyed, crashed, orphanTask, lateDeath>>
vars == <<procVars, frameVars, events, links, deaths, connVars, pc, uiVars>>

Procs == 1..MaxProc
SvcStates == {"Stopped", "Connected", "Stopping"}

TypeOK ==
    /\ proc \in 0..MaxProc /\ up \in BOOLEAN /\ svcState \in SvcStates /\ callbackAt \in 0..MaxProc
    /\ bound \in BOOLEAN /\ published \in 0..MaxProc /\ attached \in 0..MaxProc
    /\ events \in Seq({"connected", "disconnected", "died"} \X (0..MaxProc))
    /\ links \subseteq Procs /\ deaths \subseteq Procs
    /\ connectionActive \in BOOLEAN /\ callback \in BOOLEAN /\ callbackRegistered \in BOOLEAN
    /\ service \in 0..MaxProc /\ binder \in 0..MaxProc
    /\ pc \in {"idle", "attached", "registered"}
    /\ shadowsockState \in SvcStates \cup {"Idle"} /\ connectState \in {"Stopped", "Connected"}
    /\ destroyed \in BOOLEAN /\ crashed \in {"no", "check", "deadObject"}
    /\ orphanTask \in BOOLEAN /\ lateDeath \in BOOLEAN

Init ==
    /\ proc = 0 /\ up = FALSE /\ svcState = "Stopped" /\ callbackAt = 0
    /\ bound = FALSE /\ published = 0 /\ attached = 0
    /\ events = <<>> /\ links = {} /\ deaths = {}
    /\ connectionActive = FALSE /\ callback = FALSE /\ callbackRegistered = FALSE
    /\ service = 0 /\ binder = 0 /\ pc = "idle"
    /\ shadowsockState = "Idle" /\ connectState = "Stopped"
    /\ destroyed = FALSE /\ crashed = "no"
    /\ orphanTask = FALSE /\ lateDeath = FALSE

Alive(n) == up /\ n = proc
MainFree == pc = "idle" /\ crashed = "no"

-----------------------------------------------------------------------------
(* The service's process and the framework *)

ServiceCreated ==
    /\ ~up /\ proc < MaxProc /\ (bound \/ proc = 0)
    /\ proc' = proc + 1 /\ up' = TRUE /\ svcState' = "Stopped" /\ callbackAt' = 0
    /\ UNCHANGED <<frameVars, events, links, deaths, connVars, pc, uiVars>>

Publish ==
    /\ bound /\ up /\ published # proc
    /\ published' = proc
    /\ events' = Append(events, <<"connected", proc>>)
    /\ UNCHANGED <<procVars, bound, attached, links, deaths, connVars, pc, uiVars>>

ServiceDies ==
    /\ up /\ proc < MaxProc
    /\ up' = FALSE /\ callbackAt' = 0
    /\ links' = links \ {proc} /\ deaths' = deaths \cup (links \cap {proc})
    /\ \/ /\ bound /\ published = proc
          /\ published' = 0 /\ events' = Append(events, <<"disconnected", proc>>)
       \/ ~(bound /\ published = proc) /\ UNCHANGED <<published, events>>
    /\ UNCHANGED <<proc, svcState, bound, attached, connVars, pc, uiVars>>

\* A state change reaches the callback if it is registered (ServiceBinder has
\* the details).
StateChanged ==
    /\ up /\ crashed = "no"
    /\ \E s \in SvcStates \ {svcState} :
        /\ svcState' = s
        /\ shadowsockState' = IF callbackAt = proc /\ callback THEN s ELSE shadowsockState
    /\ UNCHANGED <<proc, up, callbackAt, frameVars, events, links, deaths, connVars, pc, connectState,
                   destroyed, crashed, orphanTask, lateDeath>>

-----------------------------------------------------------------------------
(* connect, disconnect *)

\* connect, called with the fields connectionActive and callback as given.
Connect(active, hasCallback) ==
    /\ connectionActive' = TRUE
    /\ callback' = TRUE
    /\ crashed' = IF ~active /\ hasCallback THEN "check" ELSE crashed

\* initConnection, in onCreate of the activity.
Create ==
    /\ MainFree /\ ~destroyed /\ ~connectionActive
    /\ Connect(connectionActive, callback)
    /\ bound' = TRUE
    /\ UNCHANGED <<procVars, published, attached, events, links, deaths, callbackRegistered, service,
                   binder, pc, shadowsockState, connectState, destroyed, orphanTask, lateDeath>>

\* What is left of tasks when the framework drops what it posted.
OnlyDied(tasks) ==
    [i \in 1..Cardinality({j \in DOMAIN tasks : tasks[j][1] = "died"}) |-> <<"died", 0>>]

\* Mutant: disconnect leaves the callback registered in the service.
DisconnectSilently(tasks) ==
    /\ callbackAt' = callbackAt
    /\ callbackRegistered' = FALSE
    /\ published' = 0 /\ attached' = 0
    /\ events' = OnlyDied(tasks)
    /\ links' = links \ {binder}
    /\ binder' = 0 /\ service' = 0

\* Mutant: disconnect keeps the flag.
DisconnectFlagged(tasks) ==
    /\ callbackAt' = IF callbackRegistered /\ service # 0 /\ Alive(service) THEN 0 ELSE callbackAt
    /\ callbackRegistered' = callbackRegistered
    /\ published' = 0 /\ attached' = 0
    /\ events' = OnlyDied(tasks)
    /\ links' = links \ {binder}
    /\ binder' = 0 /\ service' = 0

\* disconnect, except for connectionActive and callback, which onBinderDied
\* sets again at once. The framework drops what it posted for the connection.
Disconnect(tasks) ==
    /\ callbackAt' = IF callbackRegistered /\ service # 0 /\ Alive(service) THEN 0 ELSE callbackAt
    /\ callbackRegistered' = FALSE
    /\ published' = 0 /\ attached' = 0
    /\ events' = OnlyDied(tasks)
    /\ links' = links \ {binder}
    /\ binder' = 0 /\ service' = 0

\* onDestroy of the activity.
Destroy ==
    /\ MainFree /\ ~destroyed /\ connectionActive
    /\ destroyed' = TRUE
    /\ Disconnect(events)
    /\ bound' = FALSE /\ connectionActive' = FALSE /\ callback' = FALSE
    /\ orphanTask' = \E i \in DOMAIN events : events[i][1] = "died"
    /\ UNCHANGED <<proc, up, svcState, deaths, pc, shadowsockState, connectState, crashed, lateDeath>>

\* Mutant: onBinderDied connects again without disconnecting.
OnBinderDiedConnects ==
    /\ MainFree /\ events # <<>> /\ Head(events)[1] = "died"
    /\ events' = Tail(events)
    /\ Connect(connectionActive, callback)
    /\ UNCHANGED <<procVars, frameVars, links, deaths, callbackRegistered, service, binder, pc,
                   shadowsockState, connectState, destroyed, orphanTask, lateDeath>>

\* onBinderDied of ShadowsockConnector: disconnect, then connect.
OnBinderDied ==
    /\ MainFree /\ events # <<>> /\ Head(events)[1] = "died"
    /\ Disconnect(Tail(events))
    /\ Connect(FALSE, FALSE)
    /\ bound' = TRUE
    /\ UNCHANGED <<proc, up, svcState, deaths, pc, shadowsockState, connectState, destroyed,
                   orphanTask, lateDeath>>

-----------------------------------------------------------------------------
(* Callbacks of the framework *)

\* The service died before the framework got to deliver its binder.
ConnectedTooLate ==
    /\ MainFree /\ events # <<>> /\ Head(events)[1] = "connected" /\ ~Alive(Head(events)[2])
    /\ events' = Tail(events)
    /\ UNCHANGED <<procVars, frameVars, links, deaths, connVars, pc, uiVars>>

\* onServiceConnected: the fields.
OnServiceConnected ==
    /\ MainFree /\ events # <<>> /\ Head(events)[1] = "connected" /\ Alive(Head(events)[2])
    /\ events' = Tail(events)
    /\ attached' = Head(events)[2] /\ binder' = Head(events)[2] /\ service' = Head(events)[2]
    /\ pc' = "attached"
    /\ UNCHANGED <<procVars, bound, published, links, deaths, connectionActive, callback,
                   callbackRegistered, uiVars>>

\* onServiceConnected: linkToDeath, the check and registerCallback; a dead
\* process makes them throw a RemoteException, which is ignored.
RegisterCallback ==
    /\ pc = "attached" /\ crashed = "no"
    /\ pc' = "registered"
    /\ \/ ~Alive(attached) /\ UNCHANGED <<links, callbackAt, callbackRegistered, crashed>>
       \/ /\ Alive(attached)
          /\ links' = links \cup {attached}
          /\ \/ callbackRegistered /\ crashed' = "check" /\ UNCHANGED <<callbackAt, callbackRegistered>>
             \/ /\ ~callbackRegistered
                /\ callbackAt' = attached /\ callbackRegistered' = TRUE
                /\ UNCHANGED crashed
    /\ UNCHANGED <<proc, up, svcState, frameVars, events, deaths, connectionActive, callback, service,
                   binder, shadowsockState, connectState, destroyed, orphanTask, lateDeath>>

\* Mutant: the connector does not read the state on a new connection.
ReportConnectedBlind ==
    /\ pc = "registered" /\ crashed = "no" /\ callback /\ Alive(attached)
    /\ pc' = "idle"
    /\ UNCHANGED <<procVars, frameVars, events, links, deaths, connVars, shadowsockState, connectState,
                   destroyed, crashed, orphanTask, lateDeath>>

\* onServiceConnected: callback!!.onServiceConnected reads the state, and no
\* one catches the exception of a dead process.
ReportConnected ==
    /\ pc = "registered" /\ crashed = "no"
    /\ pc' = "idle"
    /\ \/ /\ ~callback
          /\ crashed' = "check" /\ UNCHANGED <<shadowsockState, connectState>>
       \/ /\ callback /\ ~Alive(attached)
          /\ crashed' = "deadObject" /\ UNCHANGED <<shadowsockState, connectState>>
       \/ /\ callback /\ Alive(attached)
          /\ shadowsockState' = svcState
          /\ connectState' = IF svcState = "Stopping" THEN connectState ELSE svcState
          /\ UNCHANGED crashed
    /\ UNCHANGED <<procVars, frameVars, events, links, deaths, connVars, destroyed, orphanTask, lateDeath>>

\* onServiceDisconnected, for the connection the framework has active.
OnServiceDisconnected ==
    /\ MainFree /\ events # <<>> /\ Head(events)[1] = "disconnected"
    /\ events' = Tail(events)
    /\ \/ attached # Head(events)[2] /\ UNCHANGED <<attached, callbackRegistered, service, binder, connectState>>
       \/ /\ attached = Head(events)[2]
          /\ attached' = 0 /\ callbackRegistered' = FALSE /\ service' = 0 /\ binder' = 0
          /\ connectState' = IF callback THEN "Stopped" ELSE connectState
    /\ UNCHANGED <<procVars, bound, published, links, deaths, connectionActive, callback, pc,
                   shadowsockState, destroyed, crashed, orphanTask, lateDeath>>

\* Mutant: binderDied posts onBinderDied after the callback is gone, too.
BinderDiedPosts(n) ==
    /\ n \in deaths /\ crashed = "no"
    /\ deaths' = deaths \ {n}
    /\ service' = 0 /\ callbackRegistered' = FALSE
    /\ events' = Append(events, <<"died", 0>>)
    /\ lateDeath' = (lateDeath \/ attached \notin {0, n})
    /\ UNCHANGED <<procVars, frameVars, links, connectionActive, callback, binder, pc, shadowsockState,
                   connectState, destroyed, crashed, orphanTask>>

\* binderDied, on a binder thread.
BinderDied(n) ==
    /\ n \in deaths /\ crashed = "no"
    /\ deaths' = deaths \ {n}
    /\ service' = 0 /\ callbackRegistered' = FALSE
    /\ events' = IF callback THEN Append(events, <<"died", 0>>) ELSE events
    /\ lateDeath' = (lateDeath \/ attached \notin {0, n})
    /\ UNCHANGED <<procVars, frameVars, links, connectionActive, callback, binder, pc, shadowsockState,
                   connectState, destroyed, crashed, orphanTask>>

-----------------------------------------------------------------------------
MainStep ==
    \/ OnBinderDied
    \/ ConnectedTooLate
    \/ OnServiceConnected
    \/ RegisterCallback
    \/ ReportConnected
    \/ OnServiceDisconnected

Next ==
    \/ ServiceCreated
    \/ Publish
    \/ ServiceDies
    \/ StateChanged
    \/ Create
    \/ Destroy
    \/ MainStep
    \/ \E n \in Procs : BinderDied(n)

\* The framework creates and publishes a bound service, and both kinds of
\* threads of the client run; a death is not obliged to happen.
Fairness ==
    /\ WF_vars(ServiceCreated) /\ WF_vars(Publish) /\ WF_vars(MainStep)
    /\ \A n \in Procs : WF_vars(BinderDied(n))

Spec == Init /\ [][Next]_vars
FairSpec == Spec /\ Fairness

-----------------------------------------------------------------------------
(* Properties *)

\* check(!callbackRegistered) in onServiceConnected, check(callback == null)
\* in connect and callback!! never fail, in whatever order a death is reported.
ChecksHold == crashed # "check"

\* A connection that believes itself registered with the process that runs
\* has read that process's state, and the callback is really in its list.
RegisteredIsTrue ==
    callbackRegistered /\ pc = "idle" /\ Alive(service) =>
        callbackAt = proc /\ shadowsockState = svcState

\* A connection that was closed has left nothing in the service's callback
\* list, unless a death notification of an earlier process came in late.
NoLeakedCallback == ~connectionActive /\ ~lateDeath => callbackAt = 0

\* A destroyed activity is not bound again, unless onBinderDied was already
\* posted when it was destroyed.
DestroyedStaysUnbound == destroyed /\ ~orphanTask => ~bound

\* After the last death an active connection ends up registered with the
\* process that lives, whatever order the deaths are reported in.
Reconnects ==
    <>[](crashed # "no" \/ ~connectionActive
            \/ (Alive(service) /\ callbackRegistered /\ callbackAt = proc))
=============================================================================
