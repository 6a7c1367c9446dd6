-------------------------- MODULE NetworkListener --------------------------
(***************************************************************************)
(* DefaultNetworkListener, the actor that follows the system's default     *)
(* network, and the part of VpnService that hands this network to the VPN  *)
(* interface.                                                              *)
(*                                                                         *)
(* The system calls Callback on the main thread on API 26 to 30 and on     *)
(* ConnectivityThread elsewhere; the actor is unconfined and takes one     *)
(* message at a time, so its listener runs on the thread that sent the     *)
(* message. Writing underlyingNetwork and telling the interface are two    *)
(* steps, which startVpn's own three steps (active, builder, establish)    *)
(* can interleave with only if Callback is off the main thread. The case   *)
(* of a metered profile on API 28, where the system is told of no network  *)
(* at all, is left out.                                                    *)
(***************************************************************************)
EXTENDS Naturals, Sequences

CONSTANTS
    Networks, NoNet,
    MaxPending          \* bound on the callbacks the system has outstanding
ASSUME NetAssumption == NoNet \notin Networks
ASSUME PendingAssumption == MaxPending \in Nat \ {0}

VARIABLES
    onMain,             \* Callback runs on the main thread
    sysNet, registered, callbacks,      \* the system
    listening, fallback, network, pendingRequests,  \* the actor; one key, the service
    applying,           \* the listener is between the write and the test of active
    underlyingNetwork, active, builderNet,          \* VpnService
    pc,                 \* the connecting job
    established, vpnNet,                \* the interface
    raced               \* history: told the interface before it was there

sysVars == <<sysNet, registered, callbacks>>
actorVars == <<listening, fallback, network, pendingRequests>>
vpnVars == <<active, builderNet, established, vpnNet>>
vars == <<onMain, sysVars, actorVars, applying, underlyingNetwork, vpnVars, pc, raced>>

MaybeNet == Networks \cup {NoNet}

TypeOK ==
    /\ onMain \in BOOLEAN /\ sysNet \in MaybeNet /\ registered \in BOOLEAN
    /\ callbacks \in Seq({"Put", "Update", "Lost"} \X Networks)
    /\ listening \in BOOLEAN /\ fallback \in BOOLEAN /\ network \in MaybeNet
    /\ pendingRequests \in BOOLEAN /\ applying \in BOOLEAN
    /\ underlyingNetwork \in MaybeNet /\ active \in BOOLEAN /\ builderNet \in MaybeNet
    /\ pc \in {"idle", "listening", "getting", "ready", "active", "built", "up"}
    /\ established \in BOOLEAN /\ vpnNet \in MaybeNet /\ raced \in BOOLEAN

Init ==
    /\ onMain \in BOOLEAN /\ sysNet \in MaybeNet /\ registered = FALSE /\ callbacks = <<>>
    /\ listening = FALSE /\ fallback = FALSE /\ network = NoNet /\ pendingRequests = FALSE
    /\ applying = FALSE /\ underlyingNetwork = NoNet /\ active = FALSE /\ builderNet = NoNet
    /\ pc = "idle" /\ established = FALSE /\ vpnNet = NoNet /\ raced = FALSE

\* startVpn does not suspend between active and establish.
InStartVpn == pc \in {"active", "built"}

-----------------------------------------------------------------------------
(* The system *)

\* The default network changes. Another network is announced by onAvailable;
\* onLost for the one it replaces may follow.
NetworkChanges ==
    /\ Len(callbacks) + 2 <= MaxPending
    /\ \E n \in MaybeNet \ {sysNet} :
        /\ sysNet' = n
        /\ LET put == IF n = NoNet THEN <<>> ELSE <<<<"Put", n>>>>
               lost == IF sysNet = NoNet THEN <<>> ELSE <<<<"Lost", sysNet>>>>
           IN  \/ registered /\ callbacks' = callbacks \o put \o lost
               \/ registered /\ n # NoNet /\ callbacks' = callbacks \o put
               \/ ~registered /\ UNCHANGED callbacks
    /\ UNCHANGED <<onMain, registered, actorVars, applying, underlyingNetwork, vpnVars, pc, raced>>

CapabilitiesChange ==
    /\ registered /\ sysNet # NoNet /\ Len(callbacks) < MaxPending
    /\ callbacks' = Append(callbacks, <<"Update", sysNet>>)
    /\ UNCHANGED <<onMain, sysNet, registered, actorVars, applying, underlyingNetwork, vpnVars, pc, raced>>

-----------------------------------------------------------------------------
(* The actor *)

\* Mutant: Callback is registered without the main thread's handler.
CanDeliverAnytime(kind) == callbacks # <<>> /\ callbacks[1][1] = kind /\ ~applying

\* Callback can send, and the actor take, a message.
CanDeliver(kind) ==
    /\ callbacks # <<>> /\ callbacks[1][1] = kind
    /\ ~applying /\ (onMain => ~InStartVpn)

\* All listeners are called with net: the first step of the setter.
Notify(net) ==
    IF listening
    THEN underlyingNetwork' = net /\ applying' = TRUE
    ELSE UNCHANGED <<underlyingNetwork, applying>>

\* Mutant: Put forgets the pending requests.
PutForgets ==
    /\ CanDeliver("Put")
    /\ callbacks' = Tail(callbacks)
    /\ network' = callbacks[1][2]
    /\ Notify(network')
    /\ UNCHANGED <<onMain, sysNet, registered, listening, fallback, pendingRequests, vpnVars, pc, raced>>

Put ==
    /\ CanDeliver("Put")
    /\ callbacks' = Tail(callbacks)
    /\ network' = callbacks[1][2]
    /\ pendingRequests' = FALSE
    /\ pc' = IF pendingRequests /\ pc = "getting" THEN "ready" ELSE pc
    /\ Notify(network')
    /\ UNCHANGED <<onMain, sysNet, registered, listening, fallback, vpnVars, raced>>

Update ==
    /\ CanDeliver("Update")
    /\ callbacks' = Tail(callbacks)
    /\ IF network = callbacks[1][2] THEN Notify(network) ELSE UNCHANGED <<underlyingNetwork, applying>>
    /\ UNCHANGED <<onMain, sysNet, registered, actorVars, vpnVars, pc, raced>>

\* Mutant: Lost does not compare the network.
LostAny ==
    /\ CanDeliver("Lost")
    /\ callbacks' = Tail(callbacks)
    /\ network' = NoNet /\ Notify(NoNet)
    /\ UNCHANGED <<onMain, sysNet, registered, listening, fallback, pendingRequests, vpnVars, pc, raced>>

Lost ==
    /\ CanDeliver("Lost")
    /\ callbacks' = Tail(callbacks)
    /\ IF network = callbacks[1][2]
       THEN network' = NoNet /\ Notify(NoNet)
       ELSE UNCHANGED <<network, underlyingNetwork, applying>>
    /\ UNCHANGED <<onMain, sysNet, registered, listening, fallback, pendingRequests, vpnVars, pc, raced>>

\* Mutant: the setter does not tell an active VPN.
ApplySilently ==
    /\ applying
    /\ applying' = FALSE
    /\ UNCHANGED <<onMain, sysVars, actorVars, underlyingNetwork, vpnVars, pc, raced>>

\* The second step of the setter; the system ignores it while this app has
\* no VPN interface.
Apply ==
    /\ applying
    /\ applying' = FALSE
    /\ vpnNet' = IF active /\ established THEN underlyingNetwork ELSE vpnNet
    /\ raced' = (raced \/ (pc = "built" /\ underlyingNetwork # builderNet))
    /\ UNCHANGED <<onMain, sysVars, actorVars, underlyingNetwork, active, builderNet, established, pc>>

-----------------------------------------------------------------------------
(* The service's main thread *)

MainFree == onMain => ~applying

\* preInit: Start(this). The first listener registers Callback, which fails
\* on some API 23 devices; the system then announces the network it has.
Start ==
    /\ pc = "idle" /\ ~applying
    /\ pc' = "listening" /\ listening' = TRUE
    /\ \/ listening /\ UNCHANGED <<registered, callbacks, fallback>>
       \/ ~listening /\ ~onMain /\ fallback' = TRUE /\ UNCHANGED <<registered, callbacks>>
       \/ /\ ~listening
          /\ registered' = TRUE
          /\ callbacks' = IF sysNet = NoNet THEN <<>> ELSE <<<<"Put", sysNet>>>>
          /\ UNCHANGED fallback
    /\ IF network # NoNet
       THEN underlyingNetwork' = network /\ applying' = TRUE
       ELSE UNCHANGED <<underlyingNetwork, applying>>
    /\ UNCHANGED <<onMain, sysNet, network, pendingRequests, vpnVars, raced>>

\* openConnection while custom rules are fetched: Get, answered at once if a
\* network is known or the actor could not listen.
Get ==
    /\ pc = "listening" /\ ~applying
    /\ IF fallback \/ network # NoNet
       THEN pc' = "ready" /\ UNCHANGED pendingRequests
       ELSE pc' = "getting" /\ pendingRequests' = TRUE
    /\ UNCHANGED <<onMain, sysVars, listening, fallback, network, applying, underlyingNetwork, vpnVars, raced>>

\* startVpn: active = true.
Activate ==
    /\ pc \in {"listening", "ready"} /\ MainFree
    /\ pc' = "active" /\ active' = TRUE
    /\ UNCHANGED <<onMain, sysVars, actorVars, applying, underlyingNetwork, builderNet, established, vpnNet, raced>>

\* startVpn: builder.setUnderlyingNetworks.
Build ==
    /\ pc = "active"
    /\ pc' = "built" /\ builderNet' = underlyingNetwork
    /\ UNCHANGED <<onMain, sysVars, actorVars, applying, underlyingNetwork, active, established, vpnNet, raced>>

\* startVpn: builder.establish.
Establish ==
    /\ pc = "built"
    /\ pc' = "up" /\ established' = TRUE /\ vpnNet' = builderNet
    /\ UNCHANGED <<onMain, sysVars, actorVars, applying, underlyingNetwork, active, builderNet, raced>>

\* killProcesses, from any suspension point of the job or afterwards. Its
\* Stop carries the coroutine as the key, which no listener has, so the actor
\* keeps the listener and Callback stays registered.
KillProcesses ==
    /\ pc # "idle" /\ ~InStartVpn /\ MainFree
    /\ pc' = "idle" /\ active' = FALSE /\ established' = FALSE /\ vpnNet' = NoNet /\ builderNet' = NoNet
    /\ raced' = FALSE
    /\ UNCHANGED <<onMain, sysVars, actorVars, applying, underlyingNetwork>>

-----------------------------------------------------------------------------
Next ==
    \/ NetworkChanges
    \/ CapabilitiesChange
    \/ Put
    \/ Update
    \/ Lost
    \/ Apply
    \/ Start
    \/ Get
    \/ Activate
    \/ Build
    \/ Establish
    \/ KillProcesses

\* The thread that runs Callback, and the listener it calls, keep running.
Fairness == WF_vars(Put) /\ WF_vars(Update) /\ WF_vars(Lost) /\ WF_vars(Apply)

Spec == Init /\ [][Next]_vars
FairSpec == Spec /\ Fairness

-----------------------------------------------------------------------------
(* Properties *)

\* When every callback has been handled the actor and the service hold the
\* system's network, although onLost of a network may come after onAvailable
\* of the next and the listener outlives the connection.
CaughtUp == registered /\ callbacks = <<>> => network = sysNet /\ underlyingNetwork = sysNet

\* The interface uses the network the service holds whenever the setter is
\* not running. With Callback off the main thread this fails if the network
\* changed between builder and establish, the window the comment in startVpn
\* asks about, until the next change or the end of the connection.
Followed == established /\ ~applying /\ ~raced => vpnNet = underlyingNetwork

\* That window does not exist when Callback runs on the main thread.
NoRaceOnMain == onMain => ~raced

\* A Get that waits for a network returns once the system has one for long
\* enough.
GetAnswered ==
    (pc = "getting" /\ sysNet # NoNet) ~> (pc # "getting" \/ sysNet = NoNet)
=============================================================================
