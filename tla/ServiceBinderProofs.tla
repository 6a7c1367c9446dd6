------------------------ MODULE ServiceBinderProofs ------------------------
(***************************************************************************)
(* LooperIffListeners, NoGhostListener and ViewInSync for any number of    *)
(* clients and of posted coroutines.                                       *)
(*                                                                         *)
(* The last two speak of an empty queue, and are kept true by what is      *)
(* still in it: whoever is polled for without being registered has a stop  *)
(* posted after every start (GhostInv), and whoever does not show the      *)
(* state announced last has it in the inbox, or the broadcast of it is     *)
(* posted (ViewInv).                                                       *)
(***************************************************************************)
EXTENDS ServiceBinder, TLAPS

\* A registered connection is in the list; one that is not yet or no longer
\* registered is not, and nothing is in flight to it.
MemberInv ==
    \A c \in Clients :
        /\ pc[c] \in {"registered", "listening", "in", "leaving"} => c \in callbacks \/ closed
        /\ pc[c] \in {"out", "gone"} => c \notin callbacks /\ inbox[c] = <<>>

\* The notification is listened for only while it is registered.
NotifInv ==
    /\ Notif \in listeners => notif = "registered"
    /\ notif = "registered" => Notif \in callbacks \/ closed

IsStop(t, c) == t[1] = "stop" /\ t[2] = c
IsStart(t, c) == t[1] = "start" /\ t[2] = c
IsBroadcast(t) == t[1] = "broadcast"

\* A client that is not registered has a stop posted if it is listened for,
\* and after every start.
GhostInv ==
    ~closed =>
    \A c \in Clients \ callbacks :
        /\ c \in listeners => \E j \in 1..Len(queue) : IsStop(queue[j], c)
        /\ \A i \in 1..Len(queue) :
            IsStart(queue[i], c) => \E j \in (i+1)..Len(queue) : IsStop(queue[j], c)

\* The state that was announced last, and whether its broadcast is posted.
Announced == IF changing = "none" THEN state ELSE changing
Pending == \E i \in 1..Len(queue) : IsBroadcast(queue[i])

\* A posted broadcast is that of Stopping, which the state already is.
PendingInv ==
    /\ \A i \in 1..Len(queue) : IsBroadcast(queue[i]) => queue[i][2] = "Stopping"
    /\ Pending => state = "Stopping" /\ changing = "none"

ViewInv ==
    ~closed /\ ~Pending =>
    \A c \in Clients :
        /\ pc[c] \in {"registered", "listening", "in"} /\ inbox[c] # <<>> =>
            inbox[c][Len(inbox[c])] = Announced
        /\ pc[c] = "in" /\ inbox[c] = <<>> /\ ~late[c] => view[c] = Announced

IInv == TypeOK /\ LooperIffListeners /\ MemberInv /\ NotifInv /\ GhostInv /\ PendingInv /\ ViewInv

\* A new binder has neither callbacks nor listeners, and its clients are out.
LEMMA InitInv == Init => IInv
<1> SUFFICES ASSUME Init PROVE IInv
  OBVIOUS
<1>1. TypeOK
  <2>1. queue = <<>> /\ queue \in Seq(Tasks \cup ({"broadcast"} \X States))
    BY DEF Init
  <2>2. inbox \in [Clients -> Seq(States)]
    BY DEF Init
  <2>3. view \in [Clients -> States \cup {"Idle"}] /\ late \in [Clients -> BOOLEAN]
        /\ pc \in [Clients -> {"out", "registered", "listening", "in", "leaving", "gone"}]
    BY DEF Init
  <2> QED BY <2>1, <2>2, <2>3 DEF Init, TypeOK, States
<1>2. LooperIffListeners
  <2>1. ~looper /\ listeners = {}
    BY DEF Init
  <2> QED BY <2>1 DEF LooperIffListeners
<1>3. MemberInv /\ NotifInv
  BY DEF Init, MemberInv, NotifInv
<1>4. GhostInv /\ PendingInv /\ ViewInv
  BY DEF Init, GhostInv, PendingInv, Pending, ViewInv
<1> QED BY <1>1, <1>2, <1>3, <1>4 DEF IInv

\* Every step keeps the types.
LEMMA TypeStep == TypeOK /\ [Next]_vars => TypeOK'
<1> SUFFICES ASSUME TypeOK, [Next]_vars PROVE TypeOK'
  OBVIOUS
<1> DEFINE Q == Seq(Tasks \cup ({"broadcast"} \X States))
<1>0. queue # <<>> => Tail(queue) \in Q
  BY DEF TypeOK
<1>1. CASE UNCHANGED vars
  BY <1>1 DEF vars, clientVars, TypeOK
<1>2. CASE ChangeBroadcast
  <2>1. PICK s \in Follows(state) : changing' = s /\ Broadcast(s)
    BY <1>2 DEF ChangeBroadcast
  <2>2. s \in States
    BY <2>1 DEF Follows, TypeOK, States
  <2>3. inbox' \in [Clients -> Seq(States)] /\ late' \in [Clients -> BOOLEAN]
    BY <2>1, <2>2 DEF Broadcast, TypeOK
  <2> QED BY <1>2, <2>1, <2>2, <2>3 DEF ChangeBroadcast, TypeOK
<1>3. CASE ChangeAssign
  BY <1>3 DEF ChangeAssign, clientVars, TypeOK
<1>4. CASE RevokeChanges
  <2>1. <<"broadcast", "Stopping">> \in Tasks \cup ({"broadcast"} \X States)
    BY DEF States
  <2>2. queue' \in Q
    BY <1>4, <2>1 DEF RevokeChanges, TypeOK
  <2> QED BY <1>4, <2>2 DEF RevokeChanges, clientVars, TypeOK, States
<1>5. CASE RunPosted
  <2>1. queue' \in Q
    BY <1>5, <1>0 DEF RunPosted
  <2>2. Head(queue) \in Tasks \cup ({"broadcast"} \X States)
    BY <1>5 DEF RunPosted, TypeOK
  <2>3. CASE closed /\ UNCHANGED <<listeners, looper, inbox, late>>
    BY <1>5, <2>1, <2>3 DEF RunPosted, TypeOK
  <2>4. CASE Head(queue)[1] = "start" /\ StartListeningHere(Head(queue)[2]) /\ UNCHANGED <<inbox, late>>
    <3>1. Head(queue)[2] \in Clients
      BY <2>2, <2>4 DEF Tasks
    <3> QED BY <1>5, <2>1, <2>4, <3>1 DEF RunPosted, TypeOK, StartListeningHere
  <2>5. CASE Head(queue)[1] = "stop" /\ StopListeningHere(Head(queue)[2]) /\ UNCHANGED <<inbox, late>>
    BY <1>5, <2>1, <2>5 DEF RunPosted, TypeOK, StopListeningHere
  <2>6. CASE Head(queue)[1] = "broadcast" /\ Broadcast(Head(queue)[2]) /\ UNCHANGED <<listeners, looper>>
    <3>1. Head(queue)[2] \in States
      BY <2>2, <2>6 DEF Tasks
    <3>2. inbox' \in [Clients -> Seq(States)] /\ late' \in [Clients -> BOOLEAN]
      BY <2>6, <3>1 DEF Broadcast, TypeOK
    <3> QED BY <1>5, <2>1, <2>6, <3>2 DEF RunPosted, TypeOK
  <2> QED BY <1>5, <2>3, <2>4, <2>5, <2>6 DEF RunPosted
<1>6. CASE Close
  BY <1>6 DEF Close, clientVars, TypeOK
<1>7. CASE NotificationShown
  BY <1>7 DEF NotificationShown, UpdateCallback, StartListeningHere, StopListeningHere, clientVars, TypeOK
<1>8. CASE NotificationDestroyed
  BY <1>8 DEF NotificationDestroyed, StopListeningHere, clientVars, TypeOK
<1>9. CASE ScreenToggles
  BY <1>9 DEF ScreenToggles, UpdateCallback, StartListeningHere, StopListeningHere, clientVars, TypeOK
<1>10. ASSUME NEW c \in Clients, Client(c) PROVE TypeOK'
  <2>0. <<"start", c>> \in Tasks \cup ({"broadcast"} \X States)
        /\ <<"stop", c>> \in Tasks \cup ({"broadcast"} \X States)
    BY DEF Tasks
  <2>1. CASE Register(c)
    BY <2>1 DEF Register, TypeOK
  <2>2. CASE StartListening(c)
    <3>1. queue' \in Q
      BY <2>0, <2>2 DEF StartListening, TypeOK
    <3> QED BY <2>2, <3>1 DEF StartListening, TypeOK
  <2>3. CASE ReadState(c)
    BY <2>3 DEF ReadState, TypeOK
  <2>4. CASE Receive(c)
    <3>1. Head(inbox[c]) \in States /\ Tail(inbox[c]) \in Seq(States)
      BY <2>4 DEF Receive, TypeOK
    <3> QED BY <2>4, <3>1 DEF Receive, TypeOK
  <2>5. CASE Disconnect(c)
    BY <2>5 DEF Disconnect, TypeOK
  <2>6. CASE Unregistered(c)
    <3>1. queue' \in Q
      BY <2>0, <2>6 DEF Unregistered, TypeOK
    <3> QED BY <2>6, <3>1 DEF Unregistered, Forget, TypeOK
  <2>7. CASE ClientDies(c)
    <3>1. queue' \in Q
      BY <2>0, <2>7 DEF ClientDies, TypeOK
    <3> QED BY <2>7, <3>1 DEF ClientDies, Forget, TypeOK
  <2>8. CASE Recycle(c)
    BY <2>8 DEF Recycle, TypeOK
  <2> QED BY <1>10, <2>1, <2>2, <2>3, <2>4, <2>5, <2>6, <2>7, <2>8 DEF Client
<1> QED BY <1>1, <1>2, <1>3, <1>4, <1>5, <1>6, <1>7, <1>8, <1>9, <1>10 DEF Next, Service, Notification

\* The first element of the queue is taken off: the others move up by one.
LEMMA TailElements ==
  ASSUME NEW S, NEW q \in Seq(S), q # <<>>
  PROVE  /\ Head(q) = q[1] /\ Len(q) \in Nat \ {0} /\ Len(Tail(q)) = Len(q) - 1
         /\ \A i \in 1..Len(Tail(q)) : Tail(q)[i] = q[i + 1]
  OBVIOUS

\* A coroutine is posted: the others stay where they are.
LEMMA AppendElements ==
  ASSUME NEW S, NEW q \in Seq(S), NEW t
  PROVE  /\ Len(q) \in Nat /\ Len(Append(q, t)) = Len(q) + 1
         /\ \A i \in 1..Len(q) : Append(q, t)[i] = q[i]
         /\ Append(q, t)[Len(q) + 1] = t
  OBVIOUS

\* The looper lives exactly while there are listeners.
LEMMA LooperStep == TypeOK /\ LooperIffListeners /\ [Next]_vars => LooperIffListeners'
<1> SUFFICES ASSUME TypeOK, LooperIffListeners, [Next]_vars PROVE LooperIffListeners'
  OBVIOUS
<1>1. ASSUME NEW c, StartListeningHere(c), closed' = closed PROVE LooperIffListeners'
  BY <1>1 DEF StartListeningHere, LooperIffListeners, TypeOK
<1>2. ASSUME NEW c, StopListeningHere(c), closed' = closed PROVE LooperIffListeners'
  BY <1>2 DEF StopListeningHere, LooperIffListeners, TypeOK
<1>3. CASE UNCHANGED <<listeners, looper, closed>>
  BY <1>3 DEF LooperIffListeners
<1>4. CASE Service
  <2>1. CASE ChangeBroadcast
    BY <1>3, <2>1 DEF ChangeBroadcast
  <2>2. CASE ChangeAssign
    BY <1>3, <2>2 DEF ChangeAssign
  <2>3. CASE RevokeChanges
    BY <1>3, <2>3 DEF RevokeChanges
  <2>4. CASE RunPosted
    BY <1>1, <1>2, <1>3, <2>4 DEF RunPosted
  <2>5. CASE Close
    BY <2>5 DEF Close, LooperIffListeners
  <2> QED BY <1>4, <2>1, <2>2, <2>3, <2>4, <2>5 DEF Service
<1>5. CASE Notification
  <2>1. ASSUME NEW on, UpdateCallback(on), closed' = closed PROVE LooperIffListeners'
    BY <1>1, <1>2, <1>3, <2>1 DEF UpdateCallback
  <2>2. CASE NotificationShown
    BY <2>1, <2>2 DEF NotificationShown
  <2>3. CASE NotificationDestroyed
    BY <1>2, <1>3, <2>3 DEF NotificationDestroyed
  <2>4. CASE ScreenToggles
    BY <1>3, <2>1, <2>4 DEF ScreenToggles
  <2> QED BY <1>5, <2>2, <2>3, <2>4 DEF Notification
<1>6. ASSUME NEW c \in Clients, Client(c) PROVE LooperIffListeners'
  BY <1>3, <1>6 DEF Client, Register, StartListening, ReadState, Receive, Disconnect, Unregistered,
     ClientDies, Forget, Recycle
<1> QED BY <1>3, <1>4, <1>5, <1>6 DEF Next, vars

\* The list of callbacks follows the clients and the notification.
LEMMA MemberStep == TypeOK /\ MemberInv /\ NotifInv /\ [Next]_vars => MemberInv' /\ NotifInv'
<1> SUFFICES ASSUME TypeOK, MemberInv, NotifInv, [Next]_vars PROVE MemberInv' /\ NotifInv'
  OBVIOUS
<1> USE NotifAssumption
<1>1. CASE UNCHANGED vars
  BY <1>1 DEF vars, clientVars, MemberInv, NotifInv
<1>2. ASSUME NEW s, Broadcast(s), UNCHANGED <<pc, callbacks, closed>> PROVE MemberInv'
  BY <1>2 DEF Broadcast, MemberInv
<1>3. CASE ChangeBroadcast
  BY <1>2, <1>3 DEF ChangeBroadcast, NotifInv
<1>4. CASE ChangeAssign
  BY <1>4 DEF ChangeAssign, clientVars, MemberInv, NotifInv
<1>5. CASE RevokeChanges
  BY <1>5 DEF RevokeChanges, clientVars, MemberInv, NotifInv
<1>6. CASE RunPosted
  <2>1. Head(queue) \in Tasks \cup ({"broadcast"} \X States)
    BY <1>6 DEF RunPosted, TypeOK
  <2>2. CASE closed /\ UNCHANGED <<listeners, looper, inbox, late>>
    BY <1>6, <2>2 DEF RunPosted, MemberInv, NotifInv
  <2>3. CASE Head(queue)[1] = "start" /\ StartListeningHere(Head(queue)[2]) /\ UNCHANGED <<inbox, late>>
    <3>1. Head(queue)[2] \in Clients
      BY <2>1, <2>3 DEF Tasks
    <3> QED BY <1>6, <2>3, <3>1 DEF RunPosted, StartListeningHere, MemberInv, NotifInv
  <2>4. CASE Head(queue)[1] = "stop" /\ StopListeningHere(Head(queue)[2]) /\ UNCHANGED <<inbox, late>>
    BY <1>6, <2>4 DEF RunPosted, StopListeningHere, MemberInv, NotifInv
  <2>5. CASE Head(queue)[1] = "broadcast" /\ Broadcast(Head(queue)[2]) /\ UNCHANGED <<listeners, looper>>
    BY <1>2, <1>6, <2>5 DEF RunPosted, NotifInv
  <2> QED BY <1>6, <2>2, <2>3, <2>4, <2>5 DEF RunPosted
<1>7. CASE Close
  BY <1>7 DEF Close, clientVars, MemberInv, NotifInv
<1>8. ASSUME NEW on, UpdateCallback(on), UNCHANGED <<closed, clientVars>> PROVE MemberInv' /\ NotifInv'
  BY <1>8 DEF UpdateCallback, StartListeningHere, StopListeningHere, clientVars, MemberInv, NotifInv
<1>9. CASE NotificationShown
  BY <1>8, <1>9 DEF NotificationShown
<1>10. CASE NotificationDestroyed
  BY <1>10 DEF NotificationDestroyed, StopListeningHere, clientVars, MemberInv, NotifInv
<1>11. CASE ScreenToggles
  BY <1>8, <1>11 DEF ScreenToggles, clientVars, MemberInv, NotifInv
<1>12. ASSUME NEW c \in Clients, Client(c) PROVE MemberInv' /\ NotifInv'
  <2>1. CASE Register(c)
    BY <2>1 DEF Register, MemberInv, NotifInv, TypeOK
  <2>2. CASE StartListening(c)
    BY <2>2 DEF StartListening, MemberInv, NotifInv, TypeOK
  <2>3. CASE ReadState(c)
    BY <2>3 DEF ReadState, MemberInv, NotifInv, TypeOK
  <2>4. CASE Receive(c)
    BY <2>4 DEF Receive, MemberInv, NotifInv, TypeOK
  <2>5. CASE Disconnect(c)
    BY <2>5 DEF Disconnect, MemberInv, NotifInv, TypeOK
  <2>6. CASE Unregistered(c) \/ ClientDies(c)
    BY <2>6 DEF Unregistered, ClientDies, Forget, MemberInv, NotifInv, TypeOK
  <2>7. CASE Recycle(c)
    BY <2>7 DEF Recycle, MemberInv, NotifInv, TypeOK
  <2> QED BY <1>12, <2>1, <2>2, <2>3, <2>4, <2>5, <2>6, <2>7 DEF Client
<1> QED BY <1>1, <1>3, <1>4, <1>5, <1>6, <1>7, <1>9, <1>10, <1>11, <1>12
        DEF Next, Service, Notification

\* What GhostInv says of one client.
Ghost(c) ==
    /\ c \in listeners => \E j \in 1..Len(queue) : IsStop(queue[j], c)
    /\ \A i \in 1..Len(queue) :
        IsStart(queue[i], c) => \E j \in (i+1)..Len(queue) : IsStop(queue[j], c)

\* GhostInv, client by client.
LEMMA GhostOf == GhostInv <=> (~closed => \A c \in Clients \ callbacks : Ghost(c))
  BY DEF GhostInv, Ghost

\* A coroutine posted by somebody else keeps the promise made to c.
LEMMA GhostAppend ==
  ASSUME TypeOK, NEW c, Ghost(c), NEW t, ~IsStart(t, c), queue' = Append(queue, t),
         listeners' = listeners
  PROVE  Ghost(c)'
<1>1. /\ Len(queue) \in Nat /\ Len(queue') = Len(queue) + 1
      /\ \A i \in 1..Len(queue) : queue'[i] = queue[i]
      /\ queue'[Len(queue) + 1] = t
  BY AppendElements DEF TypeOK
<1> QED BY SMTT(30), <1>1 DEF Ghost, IsStart

\* The stop that a client posts when it leaves is after everything else.
LEMMA GhostStop ==
  ASSUME TypeOK, NEW c, queue' = Append(queue, <<"stop", c>>)
  PROVE  Ghost(c)'
<1>1. /\ Len(queue) \in Nat /\ Len(queue') = Len(queue) + 1
      /\ queue'[Len(queue) + 1] = <<"stop", c>>
  BY AppendElements DEF TypeOK
<1>2. IsStop(queue'[Len(queue')], c) /\ ~IsStart(queue'[Len(queue')], c)
  BY <1>1 DEF IsStop, IsStart
<1> QED BY <1>1, <1>2 DEF Ghost

\* The first coroutine runs, and if it starts listening for c a stop is left.
LEMMA GhostRun ==
  ASSUME TypeOK, NEW c, Ghost(c), queue # <<>>, queue' = Tail(queue),
         c \in listeners' => /\ c \in listeners \/ IsStart(Head(queue), c)
                             /\ ~IsStop(Head(queue), c)
  PROVE  Ghost(c)'
<1>1. /\ Head(queue) = queue[1] /\ Len(queue) \in Nat \ {0} /\ Len(queue') = Len(queue) - 1
      /\ \A i \in 1..Len(queue') : queue'[i] = queue[i + 1]
  BY TailElements DEF TypeOK
<1>2. ASSUME NEW j \in 2..Len(queue), IsStop(queue[j], c)
      PROVE  j - 1 \in 1..Len(queue') /\ IsStop(queue'[j - 1], c)
  BY <1>1, <1>2
<1>3. ASSUME c \in listeners' PROVE \E j \in 1..Len(queue') : IsStop(queue'[j], c)
  <2>1. \E j \in 2..Len(queue) : IsStop(queue[j], c)
    BY <1>1, <1>3 DEF Ghost
  <2> QED BY <1>2, <2>1
<1>4. ASSUME NEW i \in 1..Len(queue'), IsStart(queue'[i], c)
      PROVE  \E j \in (i+1)..Len(queue') : IsStop(queue'[j], c)
  <2>1. IsStart(queue[i + 1], c) /\ i + 1 \in 1..Len(queue)
    BY <1>1, <1>4
  <2>2. PICK j \in (i+2)..Len(queue) : IsStop(queue[j], c)
    BY <2>1 DEF Ghost
  <2>3. j - 1 \in (i+1)..Len(queue')
    BY <1>1, <2>2
  <2> QED BY <1>1, <1>2, <2>2, <2>3
<1> QED BY <1>3, <1>4 DEF Ghost

\* Who is listened for and not registered has a stop posted.
LEMMA GhostStep == TypeOK /\ MemberInv /\ GhostInv /\ [Next]_vars => GhostInv'
<1> SUFFICES ASSUME TypeOK, MemberInv, ~closed => \A c \in Clients \ callbacks : Ghost(c),
                    [Next]_vars, ~closed', NEW c \in Clients, c \notin callbacks'
             PROVE  Ghost(c)'
  BY GhostOf DEF GhostInv, Ghost
<1> USE NotifAssumption
<1>1. ASSUME c \notin callbacks, ~closed, queue' = queue, c \in listeners' => c \in listeners
      PROVE  Ghost(c)'
  BY <1>1 DEF Ghost
<1>2. CASE UNCHANGED vars
  BY <1>1, <1>2 DEF vars
<1>3. CASE ChangeBroadcast
  BY <1>1, <1>3 DEF ChangeBroadcast
<1>4. CASE ChangeAssign
  BY <1>1, <1>4 DEF ChangeAssign
<1>5. CASE RevokeChanges
  <2>1. ~IsStart(<<"broadcast", "Stopping">>, c)
    BY DEF IsStart
  <2> QED BY <1>5, <2>1, GhostAppend DEF RevokeChanges
<1>6. CASE RunPosted
  <2>1. Ghost(c) /\ ~closed /\ queue # <<>> /\ queue' = Tail(queue)
    BY <1>6 DEF RunPosted
  <2>2. c \in listeners' => (c \in listeners \/ IsStart(Head(queue), c)) /\ ~IsStop(Head(queue), c)
    <3>1. CASE Head(queue)[1] = "start" /\ StartListeningHere(Head(queue)[2])
      BY <3>1 DEF StartListeningHere, IsStart, IsStop
    <3>2. CASE Head(queue)[1] = "stop" /\ StopListeningHere(Head(queue)[2])
      BY <3>2 DEF StopListeningHere, IsStart, IsStop
    <3>3. CASE Head(queue)[1] = "broadcast" /\ UNCHANGED listeners
      BY <3>3 DEF IsStart, IsStop
    <3> QED BY <1>6, <2>1, <3>1, <3>2, <3>3 DEF RunPosted
  <2> QED BY <2>1, <2>2, GhostRun
<1>7. CASE Close
  BY <1>7 DEF Close
<1>8. ASSUME NEW on, UpdateCallback(on), UNCHANGED <<queue, closed>> PROVE Ghost(c)'
  BY <1>1, <1>8 DEF UpdateCallback, StartListeningHere, StopListeningHere
<1>9. CASE NotificationShown
  BY <1>8, <1>9 DEF NotificationShown
<1>10. CASE NotificationDestroyed
  BY <1>1, <1>10 DEF NotificationDestroyed, StopListeningHere
<1>11. CASE ScreenToggles
  BY <1>1, <1>8, <1>11 DEF ScreenToggles
<1>12. ASSUME NEW d \in Clients, Client(d) PROVE Ghost(c)'
  <2>1. CASE Register(d)
    BY <1>1, <2>1 DEF Register
  <2>2. CASE StartListening(d)
    <3>1. c # d
      BY <2>2 DEF StartListening, MemberInv
    <3>2. ~IsStart(<<"start", d>>, c)
      BY <3>1 DEF IsStart
    <3> QED BY <2>2, <3>2, GhostAppend DEF StartListening
  <2>3. CASE ReadState(d) \/ Receive(d) \/ Disconnect(d) \/ Recycle(d)
    BY <1>1, <2>3 DEF ReadState, Receive, Disconnect, Recycle
  <2>4. CASE queue' = Append(queue, <<"stop", d>>) /\ Forget(d)
    <3>1. CASE c = d
      BY <2>4, <3>1, GhostStop
    <3>2. CASE c # d
      <4>1. ~IsStart(<<"stop", d>>, c)
        BY DEF IsStart
      <4> QED BY <2>4, <3>2, <4>1, GhostAppend DEF Forget
    <3> QED BY <3>1, <3>2
  <2>5. CASE ClientDies(d) /\ queue' = queue
    <3>1. d \notin callbacks
      <4>1. d \in callbacks => queue' = Append(queue, <<"stop", d>>)
        BY <2>5 DEF ClientDies
      <4>2. queue' = Append(queue, <<"stop", d>>) => Len(queue') = Len(queue) + 1 /\ Len(queue) \in Nat
        BY AppendElements DEF TypeOK
      <4> QED BY <2>5, <4>1, <4>2
    <3> QED BY <1>1, <2>5, <3>1 DEF ClientDies, Forget
  <2> QED BY <1>12, <2>1, <2>2, <2>3, <2>4, <2>5 DEF Client, Unregistered, ClientDies
<1> QED BY <1>2, <1>3, <1>4, <1>5, <1>6, <1>7, <1>9, <1>10, <1>11, <1>12
        DEF Next, Service, Notification

\* The only broadcast that is posted is the one of a revocation.
LEMMA PendingStep == TypeOK /\ PendingInv /\ [Next]_vars => PendingInv'
<1> SUFFICES ASSUME TypeOK, PendingInv, [Next]_vars PROVE PendingInv'
  OBVIOUS
<1>1. CASE queue' = queue /\ UNCHANGED <<state, changing>>
  BY <1>1 DEF PendingInv, Pending
<1>2. ASSUME NEW t, ~IsBroadcast(t), queue' = Append(queue, t), UNCHANGED <<state, changing>>
      PROVE  PendingInv'
  <2>1. /\ Len(queue) \in Nat /\ Len(queue') = Len(queue) + 1
        /\ \A i \in 1..Len(queue) : queue'[i] = queue[i]
        /\ queue'[Len(queue) + 1] = t
    BY <1>2, AppendElements DEF TypeOK
  <2>2. \A i \in 1..Len(queue') : IsBroadcast(queue'[i]) => i \in 1..Len(queue) /\ queue'[i] = queue[i]
    BY <1>2, <2>1
  <2> QED BY <1>2, <2>2 DEF PendingInv, Pending
<1>3. CASE ChangeBroadcast
  <2>1. ~Pending
    BY <1>3 DEF ChangeBroadcast, Pending, IsBroadcast, TypeOK
  <2> QED BY <1>3, <2>1 DEF ChangeBroadcast, PendingInv, Pending
<1>4. CASE ChangeAssign
  <2>1. ~Pending
    BY <1>4 DEF ChangeAssign, PendingInv
  <2> QED BY <1>4, <2>1 DEF ChangeAssign, PendingInv, Pending
<1>5. CASE RevokeChanges
  <2>1. /\ Len(queue) \in Nat /\ Len(queue') = Len(queue) + 1
        /\ \A i \in 1..Len(queue) : queue'[i] = queue[i]
        /\ queue'[Len(queue) + 1] = <<"broadcast", "Stopping">>
    BY <1>5, AppendElements DEF RevokeChanges, TypeOK
  <2>2. \A i \in 1..Len(queue') : i \in 1..Len(queue) \/ i = Len(queue) + 1
    BY <2>1
  <2>3. \A i \in 1..Len(queue') : IsBroadcast(queue'[i]) => queue'[i][2] = "Stopping"
    BY <2>1, <2>2 DEF PendingInv
  <2> QED BY <1>5, <2>3 DEF RevokeChanges, PendingInv
<1>6. CASE RunPosted
  <2>1. /\ Len(queue) \in Nat \ {0} /\ Len(queue') = Len(queue) - 1
        /\ \A i \in 1..Len(queue') : queue'[i] = queue[i + 1]
    BY <1>6, TailElements DEF RunPosted, TypeOK
  <2>2. \A i \in 1..Len(queue') : i + 1 \in 1..Len(queue)
    BY <2>1
  <2>3. \A i \in 1..Len(queue') : IsBroadcast(queue'[i]) => queue'[i][2] = "Stopping"
    BY <2>1, <2>2 DEF PendingInv
  <2>4. Pending' => Pending
    BY <2>1, <2>2 DEF Pending
  <2> QED BY <1>6, <2>3, <2>4 DEF RunPosted, PendingInv
<1>7. CASE Close
  BY <1>1, <1>7 DEF Close
<1>8. CASE Notification
  BY <1>1, <1>8 DEF Notification, NotificationShown, NotificationDestroyed, ScreenToggles
<1>9. ASSUME NEW c \in Clients, Client(c) PROVE PendingInv'
  <2>1. ~IsBroadcast(<<"start", c>>) /\ ~IsBroadcast(<<"stop", c>>)
    BY DEF IsBroadcast
  <2> QED BY SMTT(30), <1>1, <1>2, <1>9, <2>1 DEF Client, Register, StartListening, ReadState, Receive,
             Disconnect, Unregistered, ClientDies, Forget, Recycle
<1>10. CASE UNCHANGED vars
  BY <1>1, <1>10 DEF vars
<1> QED BY <1>3, <1>4, <1>5, <1>6, <1>7, <1>8, <1>9, <1>10 DEF Next, Service

\* What ViewInv says of one client.
InStep(c) ==
    /\ pc[c] \in {"registered", "listening", "in"} /\ inbox[c] # <<>> =>
        inbox[c][Len(inbox[c])] = Announced
    /\ pc[c] = "in" /\ inbox[c] = <<>> /\ ~late[c] => view[c] = Announced

\* A broadcast reaches everybody who is registered.
LEMMA BroadcastReaches ==
  ASSUME TypeOK, MemberInv, ~closed, NEW s, Broadcast(s), pc' = pc, Announced' = s,
         NEW c \in Clients
  PROVE  InStep(c)'
<1>1. CASE c \in callbacks
  <2>1. inbox'[c] = Append(inbox[c], s) /\ inbox[c] \in Seq(States)
    BY <1>1 DEF Broadcast, TypeOK
  <2>2. inbox'[c] # <<>> /\ inbox'[c][Len(inbox'[c])] = s
    BY <2>1
  <2> QED BY <2>2 DEF InStep
<1>2. CASE c \notin callbacks
  BY <1>2 DEF MemberInv, InStep
<1> QED BY <1>1, <1>2

\* Whoever has nothing under way shows the state announced last.
LEMMA ViewStep == TypeOK /\ MemberInv /\ PendingInv /\ ViewInv /\ [Next]_vars => ViewInv'
<1> SUFFICES ASSUME TypeOK, MemberInv, PendingInv,
                    ~closed /\ ~Pending => \A c \in Clients : InStep(c),
                    [Next]_vars, ~closed', ~Pending', NEW c \in Clients
             PROVE  InStep(c)'
  BY SMTT(30) DEF ViewInv, InStep
<1>0. closed' = FALSE => closed = FALSE
  BY DEF TypeOK, Next, Service, Notification, ChangeBroadcast, ChangeAssign, RevokeChanges, RunPosted,
     Close, NotificationShown, NotificationDestroyed, ScreenToggles, Client, Register, StartListening,
     ReadState, Receive, Disconnect, Unregistered, ClientDies, Forget, Recycle, vars
<1>1. ~closed
  BY <1>0 DEF TypeOK
<1>2. ASSUME queue' = queue PROVE ~Pending
  BY <1>2 DEF Pending
<1>3. ASSUME NEW t, queue' = Append(queue, t) PROVE ~Pending /\ ~IsBroadcast(t)
  <2>1. /\ Len(queue) \in Nat /\ Len(queue') = Len(queue) + 1
        /\ \A i \in 1..Len(queue) : queue'[i] = queue[i]
        /\ queue'[Len(queue) + 1] = t
    BY <1>3, AppendElements DEF TypeOK
  <2>2. Len(queue) + 1 \in 1..Len(queue') /\ \A i \in 1..Len(queue) : i \in 1..Len(queue')
    BY <2>1
  <2> QED BY <2>1, <2>2 DEF Pending
<1>4. CASE ~Pending /\ UNCHANGED <<state, changing, clientVars>>
  BY <1>1, <1>4 DEF clientVars, InStep, Announced
<1>5. CASE UNCHANGED vars
  BY <1>2, <1>4, <1>5 DEF vars
<1>6. CASE ChangeBroadcast
  <2>1. PICK s \in Follows(state) : changing' = s /\ Broadcast(s)
    BY <1>6 DEF ChangeBroadcast
  <2>2. s # "none"
    BY <2>1 DEF Follows, TypeOK, States
  <2> QED BY <1>1, <1>6, <2>1, <2>2, BroadcastReaches DEF ChangeBroadcast, Announced
<1>7. CASE ChangeAssign
  <2>1. Announced' = Announced
    BY <1>7 DEF ChangeAssign, Announced
  <2> QED BY <1>1, <1>2, <1>7, <2>1 DEF ChangeAssign, clientVars, InStep
<1>8. CASE RevokeChanges
  <2>1. IsBroadcast(<<"broadcast", "Stopping">>)
    BY DEF IsBroadcast
  <2> QED BY <1>3, <1>8, <2>1 DEF RevokeChanges
<1>9. CASE RunPosted
  <2>0. /\ Head(queue) = queue[1] /\ Len(queue) \in Nat \ {0} /\ Len(queue') = Len(queue) - 1
        /\ \A i \in 1..Len(queue') : queue'[i] = queue[i + 1]
    BY <1>9, TailElements DEF RunPosted, TypeOK
  <2>1. CASE ~IsBroadcast(Head(queue))
    <3>1. ~Pending
      <4>1. SUFFICES ASSUME NEW i \in 1..Len(queue), IsBroadcast(queue[i]) PROVE FALSE
        BY DEF Pending
      <4>2. i # 1
        BY <2>0, <2>1, <4>1
      <4>3. i - 1 \in 1..Len(queue') /\ queue'[i - 1] = queue[i]
        BY <2>0, <4>2
      <4> QED BY <4>1, <4>3 DEF Pending
    <3> QED BY <1>1, <1>4, <1>9, <2>1, <3>1 DEF RunPosted, clientVars, IsBroadcast
  <2>2. CASE IsBroadcast(Head(queue))
    <3>1. Head(queue)[2] = "Stopping" /\ state = "Stopping" /\ changing = "none"
      BY <2>0, <2>2 DEF PendingInv, Pending
    <3>2. Broadcast("Stopping") /\ UNCHANGED <<state, changing, pc>>
      BY <1>1, <1>9, <2>2, <3>1 DEF RunPosted, IsBroadcast
    <3> QED BY <1>1, <3>1, <3>2, BroadcastReaches DEF Announced
  <2> QED BY <2>1, <2>2
<1>10. CASE Close
  BY <1>10 DEF Close
<1>11. CASE Notification
  BY <1>2, <1>4, <1>11 DEF Notification, NotificationShown, NotificationDestroyed, ScreenToggles
<1>12. ASSUME NEW d \in Clients, Client(d) PROVE InStep(c)'
  <2>1. ~Pending
    BY <1>2, <1>3, <1>12 DEF Client, Register, StartListening, ReadState, Receive, Disconnect,
       Unregistered, ClientDies, Forget, Recycle
  <2>2. Announced' = Announced
    BY <1>12 DEF Announced, Client, Register, StartListening, ReadState, Receive, Disconnect,
       Unregistered, ClientDies, Forget, Recycle
  <2>3. InStep(c)
    BY <1>1, <2>1
  <2>4. CASE Register(d)
    BY <2>2, <2>3, <2>4 DEF Register, InStep, MemberInv, TypeOK
  <2>5. CASE StartListening(d)
    BY <2>2, <2>3, <2>5 DEF StartListening, InStep, TypeOK
  <2>6. CASE ReadState(d)
    BY <1>1, <2>2, <2>3, <2>6 DEF ReadState, InStep, Announced, TypeOK
  <2>7. CASE Receive(d)
    <3>1. CASE c = d
      <4>1. inbox[c] \in Seq(States) /\ inbox[c] # <<>> /\ pc[c] = "in"
            /\ inbox'[c] = Tail(inbox[c]) /\ view'[c] = Head(inbox[c]) /\ pc'[c] = "in"
        BY <2>7, <3>1 DEF Receive, TypeOK
      <4>2. inbox[c][Len(inbox[c])] = Announced
        BY <2>3, <4>1 DEF InStep
      <4>3. /\ Head(inbox[c]) = inbox[c][1] /\ Len(inbox[c]) \in Nat \ {0}
            /\ Len(inbox'[c]) = Len(inbox[c]) - 1 /\ inbox'[c] \in Seq(States)
            /\ \A i \in 1..Len(inbox'[c]) : inbox'[c][i] = inbox[c][i + 1]
        BY <4>1, TailElements
      <4>4. CASE inbox'[c] = <<>>
        <5>1. Len(inbox[c]) = 1
          BY <4>3, <4>4
        <5> QED BY <2>2, <4>1, <4>2, <4>3, <4>4, <5>1 DEF InStep
      <4>5. CASE inbox'[c] # <<>>
        <5>1. Len(inbox'[c]) \in 1..Len(inbox'[c])
          BY <4>3, <4>5
        <5>2. inbox'[c][Len(inbox'[c])] = Announced
          BY SMTT(30), <4>2, <4>3, <5>1
        <5> QED BY <2>2, <4>5, <5>2 DEF InStep
      <4> QED BY <4>4, <4>5
    <3>2. CASE c # d
      BY <2>2, <2>3, <2>7, <3>2 DEF Receive, InStep, TypeOK
    <3> QED BY <3>1, <3>2
  <2>8. CASE Disconnect(d)
    BY <2>2, <2>3, <2>8 DEF Disconnect, InStep, TypeOK
  <2>9. CASE Forget(d)
    BY <2>2, <2>3, <2>9 DEF Forget, InStep, TypeOK
  <2>10. CASE Recycle(d)
    BY <2>2, <2>3, <2>10 DEF Recycle, InStep, TypeOK
  <2> QED BY <1>12, <2>4, <2>5, <2>6, <2>7, <2>8, <2>9, <2>10 DEF Client, Unregistered, ClientDies
<1> QED BY <1>5, <1>6, <1>7, <1>8, <1>9, <1>10, <1>11, <1>12 DEF Next, Service

\* The invariant holds in every behaviour of the binder.
THEOREM BinderInvariant == Spec => []IInv
<1>1. IInv /\ [Next]_vars => IInv'
  BY TypeStep, LooperStep, MemberStep, GhostStep, PendingStep, ViewStep DEF IInv
<1> QED BY InitInv, <1>1, PTL DEF Spec

\* The looper of the bandwidth listeners exists exactly while somebody
\* listens: check(looper == null) and looper!! never fail.
THEOREM LooperIsExact == Spec => []LooperIffListeners
<1>1. IInv => LooperIffListeners
  BY DEF IInv
<1> QED BY <1>1, BinderInvariant, PTL

\* No callback that was unregistered, or whose process died, is polled for
\* once the posted coroutines have run.
THEOREM NobodyHaunts == Spec => []NoGhostListener
<1>1. IInv => NoGhostListener
  <2> SUFFICES ASSUME IInv, ~closed, queue = <<>>, NEW c \in listeners PROVE c \in callbacks
    BY DEF NoGhostListener
  <2>1. c \in Clients \cup {Notif}
    BY DEF IInv, TypeOK
  <2>2. CASE c = Notif
    BY <2>2 DEF IInv, NotifInv
  <2>3. CASE c \in Clients
    BY <2>3 DEF IInv, GhostInv
  <2> QED BY <2>1, <2>2, <2>3
<1> QED BY <1>1, BinderInvariant, PTL

\* A client that has worked off its callbacks shows the state of the service,
\* unless it registered and read between a broadcast and its assignment.
THEOREM ViewsAgree == Spec => []ViewInSync
<1>1. IInv => ViewInSync
  <2> SUFFICES ASSUME IInv, ~closed, changing = "none", queue = <<>>, NEW c \in Clients,
                      pc[c] = "in", inbox[c] = <<>>, ~late[c]
               PROVE  view[c] = state
    BY DEF ViewInSync
  <2>1. ~Pending
    BY DEF Pending
  <2> QED BY <2>1 DEF IInv, ViewInv, Announced
<1> QED BY <1>1, BinderInvariant, PTL
============================================================================
