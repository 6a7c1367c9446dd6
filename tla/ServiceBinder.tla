--------------------------- MODULE ServiceBinder ---------------------------
(***************************************************************************)
(* BaseService.Binder, the interface of the service to other processes and *)
(* to its own notification: the list of callbacks, the broadcasts of state *)
(* changes, the bandwidth listeners and the looper coroutine that polls    *)
(* for them.                                                               *)
(*                                                                         *)
(* Calls of remote clients run on binder threads. registerCallback and     *)
(* getState take effect there; startListeningForBandwidth and              *)
(* stopListeningForBandwidth only post a coroutine to the main thread. The *)
(* main thread broadcasts a new state before it assigns it, and binder     *)
(* threads may run in between. The notification calls on the main thread,  *)
(* where the same launches run inline.                                     *)
(***************************************************************************)
EXTENDS Naturals, Sequences

CONSTANTS
    Clients,    \* serviceCallbacks of connections; recycled when forgotten
    Notif,      \* the callback of the notification
    MaxQueue    \* bound on posted coroutines, and on undelivered callbacks

ASSUME NotifAssumption == Notif \notin Clients
ASSUME QueueAssumption == MaxQueue \in Nat \ {0}

VARIABLES
    state, changing,   \* Data.state; the state being broadcast, or "none"
    callbacks,         \* the RemoteCallbackList
    listeners, looper, \* bandwidthListeners; whether looper is a job
    queue,             \* coroutines posted to the service's main thread
    closed,            \* onDestroy has closed the binder
    notif, screenOn,   \* the notification; the screen
    pc, inbox, view,   \* per client: protocol step, callbacks in flight, last state seen
    late               \* history: read the old state after missing the new one

clientVars == <<pc, inbox, view, late>>
vars == <<state, changing, callbacks, listeners, looper, queue, closed, notif, screenOn, clientVars>>

States == {"Stopped", "Connected", "Stopping"}
Tasks == {"start", "stop"} \X Clients

TypeOK ==
    /\ state \in States /\ changing \in States \cup {"none"}
    /\ callbacks \subseteq Clients \cup {Notif} /\ listeners \subseteq Clients \cup {Notif}
    /\ looper \in BOOLEAN /\ queue \in Seq(Tasks \cup ({"broadcast"} \X States))
    /\ closed \in BOOLEAN /\ notif \in {"none", "quiet", "registered"} /\ screenOn \in BOOLEAN
    /\ pc \in [Clients -> {"out", "registered", "listening", "in", "leaving", "gone"}]
    /\ inbox \in [Clients -> Seq(States)] /\ view \in [Clients -> States \cup {"Idle"}]
    /\ late \in [Clients -> BOOLEAN]

Init ==
    /\ state = "Stopped" /\ changing = "none" /\ callbacks = {} /\ listeners = {}
    /\ looper = FALSE /\ queue = <<>> /\ closed = FALSE /\ notif = "none" /\ screenOn \in BOOLEAN
    /\ pc = [c \in Clients |-> "out"] /\ inbox = [c \in Clients |-> <<>>]
    /\ view = [c \in Clients |-> "Idle"] /\ late = [c \in Clients |-> FALSE]

-----------------------------------------------------------------------------
(* State changes *)

\* The order of states ServiceRunner establishes (its property StateOrder).
Follows(s) ==
    CASE s = "Stopped"   -> {"Connected", "Stopping"}
      [] s = "Connected" -> {"Stopping"}
      [] s = "Stopping"  -> {"Stopped"}

Broadcast(s) ==
    /\ inbox' = [c \in Clients |-> IF c \in callbacks THEN Append(inbox[c], s) ELSE inbox[c]]
    /\ late' = [c \in Clients |-> late[c] /\ c \notin callbacks]

InboxesHaveRoom == \A c \in Clients : Len(inbox[c]) < MaxQueue

\* changeState on the main thread: the broadcast. The coroutine that continues
\* an onRevoke is posted after the broadcast of its Stopping.
ChangeBroadcast ==
    /\ changing = "none" /\ ~closed /\ InboxesHaveRoom
    /\ \A i \in DOMAIN queue : queue[i][1] # "broadcast"
    /\ \E s \in Follows(state) : changing' = s /\ Broadcast(s)
    /\ UNCHANGED <<state, callbacks, listeners, looper, queue, closed, notif, screenOn, pc, view>>

\* The assignment that follows.
ChangeAssign ==
    /\ changing # "none"
    /\ state' = changing /\ changing' = "none"
    /\ UNCHANGED <<callbacks, listeners, looper, queue, closed, notif, screenOn, clientVars>>

\* changeState(Stopping) by onRevoke on a binder thread: the broadcast is
\* posted, the assignment is not.
RevokeChanges ==
    /\ changing = "none" /\ ~closed /\ Len(queue) < MaxQueue /\ state \in {"Stopped", "Connected"}
    /\ queue' = Append(queue, <<"broadcast", "Stopping">>) /\ state' = "Stopping"
    /\ UNCHANGED <<changing, callbacks, listeners, looper, closed, notif, screenOn, clientVars>>

-----------------------------------------------------------------------------
(* Coroutines on the service's main thread *)

StartListeningHere(c) ==
    /\ listeners' = listeners \cup {c}
    /\ looper' = (looper \/ listeners = {})

\* Mutant: the looper is cancelled with the first listener that leaves.
StopListeningHereAny(c) ==
    /\ listeners' = listeners \ {c}
    /\ looper' = (looper /\ c \notin listeners)

StopListeningHere(c) ==
    /\ listeners' = listeners \ {c}
    /\ looper' = (looper /\ listeners # {c})

\* The next posted coroutine; after close the binder's scope runs none.
RunPosted ==
    /\ queue # <<>> /\ changing = "none"
    /\ queue' = Tail(queue)
    /\ LET kind == Head(queue)[1]
           arg == Head(queue)[2]
       IN  \/ closed /\ UNCHANGED <<listeners, looper, inbox, late>>
           \/ ~closed /\ kind = "start" /\ StartListeningHere(arg) /\ UNCHANGED <<inbox, late>>
           \/ ~closed /\ kind = "stop" /\ StopListeningHere(arg) /\ UNCHANGED <<inbox, late>>
           \/ ~closed /\ kind = "broadcast" /\ Broadcast(arg) /\ UNCHANGED <<listeners, looper>>
    /\ UNCHANGED <<state, changing, callbacks, closed, notif, screenOn, pc, view>>

\* onDestroy of the service.
Close ==
    /\ ~closed /\ changing = "none" /\ notif = "none" /\ state = "Stopped"
    /\ closed' = TRUE /\ callbacks' = {}
    /\ UNCHANGED <<state, changing, listeners, looper, queue, notif, screenOn, clientVars>>

-----------------------------------------------------------------------------
(* The notification *)

\* updateCallback(screenOn)
UpdateCallback(on) ==
    \/ /\ on
       /\ callbacks' = callbacks \cup {Notif} /\ StartListeningHere(Notif)
       /\ notif' = "registered"
    \/ /\ ~on /\ notif = "registered"
       /\ callbacks' = callbacks \ {Notif} /\ StopListeningHere(Notif)
       /\ notif' = "quiet"
    \/ /\ ~on /\ notif # "registered"
       /\ notif' = "quiet"
       /\ UNCHANGED <<callbacks, listeners, looper>>

NotificationShown ==
    /\ notif = "none" /\ changing = "none" /\ ~closed /\ state = "Stopped"
    /\ UpdateCallback(screenOn)
    /\ UNCHANGED <<state, changing, queue, closed, screenOn, clientVars>>

NotificationDestroyed ==
    /\ notif # "none" /\ changing = "none" /\ state = "Stopping"
    /\ notif' = "none"
    /\ callbacks' = callbacks \ {Notif}
    /\ \/ notif = "registered" /\ StopListeningHere(Notif)
       \/ notif # "registered" /\ UNCHANGED <<listeners, looper>>
    /\ UNCHANGED <<state, changing, queue, closed, screenOn, clientVars>>

\* ACTION_SCREEN_ON and ACTION_SCREEN_OFF, acted upon only when Connected.
ScreenToggles ==
    /\ changing = "none"
    /\ screenOn' = ~screenOn
    /\ \/ notif # "none" /\ state = "Connected" /\ UpdateCallback(~screenOn)
       \/ /\ notif = "none" \/ state # "Connected"
          /\ UNCHANGED <<callbacks, listeners, looper, notif>>
    /\ UNCHANGED <<state, changing, queue, closed, clientVars>>

-----------------------------------------------------------------------------
(* Clients: onServiceConnected, serviceCallback and disconnect of a connection *)

Register(c) ==
    /\ pc[c] = "out"
    /\ callbacks' = IF closed THEN callbacks ELSE callbacks \cup {c}
    /\ pc' = [pc EXCEPT ![c] = "registered"]
    /\ UNCHANGED <<state, changing, listeners, looper, queue, closed, notif, screenOn, inbox, view, late>>

StartListening(c) ==
    /\ pc[c] = "registered" /\ Len(queue) < MaxQueue
    /\ queue' = Append(queue, <<"start", c>>)
    /\ pc' = [pc EXCEPT ![c] = "listening"]
    /\ UNCHANGED <<state, changing, callbacks, listeners, looper, closed, notif, screenOn, inbox, view, late>>

\* Mutant: the state is not read when the service is connected.
ReadStateNever(c) ==
    /\ pc[c] = "listening"
    /\ pc' = [pc EXCEPT ![c] = "in"]
    /\ UNCHANGED <<state, changing, callbacks, listeners, looper, queue, closed, notif, screenOn, inbox, view, late>>

\* getState, which answers Idle once the binder is closed. A client that
\* registered after the broadcast and reads before the assignment is late.
ReadState(c) ==
    /\ pc[c] = "listening"
    /\ pc' = [pc EXCEPT ![c] = "in"]
    /\ view' = [view EXCEPT ![c] = IF closed THEN "Idle" ELSE state]
    /\ late' = [late EXCEPT ![c] = changing # "none" /\ inbox[c] = <<>>]
    /\ UNCHANGED <<state, changing, callbacks, listeners, looper, queue, closed, notif, screenOn, inbox>>

\* serviceCallback.stateChanged, one at a time and in order, after the main
\* thread of the client is done with onServiceConnected.
Receive(c) ==
    /\ pc[c] = "in" /\ inbox[c] # <<>>
    /\ view' = [view EXCEPT ![c] = Head(inbox[c])]
    /\ inbox' = [inbox EXCEPT ![c] = Tail(@)]
    /\ UNCHANGED <<state, changing, callbacks, listeners, looper, queue, closed, notif, screenOn, pc, late>>

\* disconnect sends the oneway calls unregisterCallback and stopListening.
Disconnect(c) ==
    /\ pc[c] = "in"
    /\ pc' = [pc EXCEPT ![c] = "leaving"]
    /\ UNCHANGED <<state, changing, callbacks, listeners, looper, queue, closed, notif, screenOn, inbox, view, late>>

Forget(c) ==
    /\ callbacks' = callbacks \ {c}
    /\ pc' = [pc EXCEPT ![c] = "gone"] /\ inbox' = [inbox EXCEPT ![c] = <<>>]
    /\ late' = [late EXCEPT ![c] = FALSE]
    /\ UNCHANGED <<state, changing, listeners, looper, closed, notif, screenOn, view>>

\* Mutant: unregisterCallback does not stop listening.
UnregisteredOnly(c) == pc[c] = "leaving" /\ Forget(c) /\ UNCHANGED queue

Unregistered(c) ==
    /\ pc[c] = "leaving" /\ Len(queue) < MaxQueue
    /\ queue' = Append(queue, <<"stop", c>>)
    /\ Forget(c)

\* The process of a registered client dies: onCallbackDied.
ClientDies(c) ==
    /\ pc[c] \in {"registered", "listening", "in"} /\ Len(queue) < MaxQueue
    /\ queue' = IF c \in callbacks THEN Append(queue, <<"stop", c>>) ELSE queue
    /\ Forget(c)

\* A new connection reuses the identity of one nobody remembers.
Recycle(c) ==
    /\ pc[c] = "gone" /\ c \notin listeners /\ \A i \in DOMAIN queue : queue[i][2] # c
    /\ pc' = [pc EXCEPT ![c] = "out"] /\ view' = [view EXCEPT ![c] = "Idle"]
    /\ UNCHANGED <<state, changing, callbacks, listeners, looper, queue, closed, notif, screenOn, inbox, late>>

-----------------------------------------------------------------------------
Service == ChangeBroadcast \/ ChangeAssign \/ RevokeChanges \/ RunPosted \/ Close
Notification == NotificationShown \/ NotificationDestroyed \/ ScreenToggles
Client(c) ==
    \/ Register(c)
    \/ StartListening(c)
    \/ ReadState(c)
    \/ Receive(c)
    \/ Disconnect(c)
    \/ Unregistered(c)
    \/ ClientDies(c)
    \/ Recycle(c)

Next == Service \/ Notification \/ \E c \in Clients : Client(c)

\* The main thread gets to whatever is posted, though it may be in the middle
\* of a state change again and again; oneway transactions arrive, though
\* MaxQueue may keep them waiting.
Fairness ==
    /\ SF_vars(RunPosted) /\ WF_vars(ChangeAssign)
    /\ \A c \in Clients : WF_vars(Receive(c)) /\ SF_vars(Unregistered(c))

Spec == Init /\ [][Next]_vars
FairSpec == Spec /\ Fairness

-----------------------------------------------------------------------------
(* Properties *)

\* The looper exists exactly while somebody listens, so the assertion
\* check(looper == null) of startListeningForBandwidth and the looper!! of
\* stopListeningForBandwidth never fail.
LooperIffListeners == ~closed => (looper <=> listeners # {})

\* Once the posted coroutines have run, the looper works only for callbacks
\* that are still registered: no client that left or died keeps it busy.
NoGhostListener == ~closed /\ queue = <<>> => listeners \subseteq callbacks

\* A client that has worked off its callbacks shows the state of the service,
\* unless it registered and read between a broadcast and its assignment.
ViewInSync ==
    ~closed /\ changing = "none" /\ queue = <<>> =>
        \A c \in Clients : pc[c] = "in" /\ inbox[c] = <<>> /\ ~late[c] => view[c] = state

\* A client that disconnects is forgotten by the list and by the looper.
LeaverForgotten ==
    \A c \in Clients : pc[c] = "leaving" ~> c \notin callbacks \cup listeners \/ closed
=============================================================================
