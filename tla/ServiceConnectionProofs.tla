---------------------- MODULE ServiceConnectionProofs ----------------------
(***************************************************************************)
(* ChecksHold, RegisteredIsTrue, NoLeakedCallback and                      *)
(* DestroyedStaysUnbound for any number of processes of the service.       *)
(*                                                                         *)
(* The assertions of onServiceConnected hold because of the order in which *)
(* the framework posts: a connection is followed by the disconnection of   *)
(* the same process before anything else is posted for another (EventInv), *)
(* so a process that is connected has not been registered with yet.        *)
(* binderDied comes from another thread at any time, and only ever takes a *)
(* registration away.                                                      *)
(***************************************************************************)
EXTENDS ServiceConnection, FiniteSetTheorems, TLAPS

Event == {"connected", "disconnected", "died"} \X (0..MaxProc)

IsDied(e) == e[1] = "died"
IsConnected(e, n) == e = <<"connected", n>>
IsDisconnected(e, n) == e = <<"disconnected", n>>

\* Nothing but onBinderDied is posted at the places I of q.
Quiet(q, I) == \A i \in I : IsDied(q[i])

\* n is the process the framework told of last up to place k of q: it is the
\* one published, or its disconnection is the next thing that is told.
Current(q, pub, n, k) ==
    \/ pub = n /\ Quiet(q, (k+1)..Len(q))
    \/ \E j \in (k+1)..Len(q) : IsDisconnected(q[j], n) /\ Quiet(q, (k+1)..(j-1))

\* What is posted tells of processes in turn, and of a death only afterwards.
EventInv ==
    /\ attached # 0 => Current(events, published, attached, 0)
    /\ \A i \in 1..Len(events) : \A n \in 0..MaxProc :
        IsConnected(events[i], n) => n # 0 /\ n <= proc /\ Current(events, published, n, i)
    /\ \A i \in 1..Len(events) : \A n \in 0..MaxProc :
        IsDisconnected(events[i], n) => n # 0 /\ n <= proc /\ ~Alive(n)

\* What the framework holds for the connection, and the deaths it reports.
BindInv ==
    /\ bound = connectionActive /\ callback = connectionActive
    /\ published # 0 => bound /\ Alive(published)
    /\ ~bound => Quiet(events, 1..Len(events)) /\ pc = "idle" /\ attached = 0
    /\ attached <= proc
    /\ pc # "idle" => attached # 0
    /\ \A n \in links \cup deaths : n <= proc
    /\ \A n \in deaths : ~Alive(n)
    /\ up => proc # 0

\* What the client and the service believe of the registration.
CallbackInv ==
    /\ service # 0 => service = attached
    /\ callbackRegistered => attached # 0
    /\ pc = "attached" => ~callbackRegistered
    /\ callbackAt # 0 => Alive(callbackAt)
    /\ pc # "idle" /\ Alive(attached) /\ ~lateDeath => service = attached
    /\ callbackRegistered /\ Alive(attached) => callbackAt = attached
    /\ callbackAt # 0 /\ ~lateDeath => callbackRegistered /\ service = callbackAt
    /\ callbackRegistered /\ Alive(attached) /\ pc = "idle" => shadowsockState = svcState

\* Nothing is posted to an activity that was destroyed in time.
DestroyInv == destroyed /\ ~orphanTask => ~bound /\ events = <<>>

IInv == TypeOK /\ ChecksHold /\ EventInv /\ BindInv /\ CallbackInv /\ DestroyInv

-----------------------------------------------------------------------------
(* The queue of the main thread *)

\* The first event is taken off: the others move up by one.
LEMMA TailElements ==
  ASSUME NEW S, NEW q \in Seq(S), q # <<>>
  PROVE  /\ Head(q) = q[1] /\ Head(q) \in S /\ Tail(q) \in Seq(S)
         /\ Len(q) \in Nat \ {0} /\ Len(Tail(q)) = Len(q) - 1
         /\ \A i \in 1..Len(Tail(q)) : Tail(q)[i] = q[i + 1]
  OBVIOUS

\* An event is posted: the others stay where they are.
LEMMA AppendElements ==
  ASSUME NEW S, NEW q \in Seq(S), NEW t \in S
  PROVE  /\ Append(q, t) \in Seq(S)
         /\ Len(q) \in Nat /\ Len(Append(q, t)) = Len(q) + 1
         /\ \A i \in 1..Len(q) : Append(q, t)[i] = q[i]
         /\ Append(q, t)[Len(q) + 1] = t
  OBVIOUS

\* unbindService leaves nothing but onBinderDied posted, and nothing at all
\* if that was not.
LEMMA OnlyDiedElements ==
  ASSUME NEW q \in Seq(Event)
  PROVE  /\ OnlyDied(q) \in Seq(Event)
         /\ \A i \in 1..Len(OnlyDied(q)) : IsDied(OnlyDied(q)[i])
         /\ (\A i \in DOMAIN q : q[i][1] # "died") => OnlyDied(q) = <<>>
<1> DEFINE D == {j \in DOMAIN q : q[j][1] = "died"}
<1>1. IsFiniteSet(D) /\ Cardinality(D) \in Nat
  <2>1. IsFiniteSet(1..Len(q))
    BY FS_Interval
  <2>2. D \subseteq 1..Len(q)
    OBVIOUS
  <2> QED BY <2>1, <2>2, FS_Subset, FS_CardinalityType
<1> DEFINE n == Cardinality(D)
<1>2. OnlyDied(q) = [i \in 1..n |-> <<"died", 0>>]
  BY DEF OnlyDied
<1>3. n \in Nat
  BY <1>1
<1>4. ASSUME \A i \in DOMAIN q : q[i][1] # "died" PROVE n = 0
  <2>1. D = {}
    BY <1>4
  <2> QED BY <2>1, FS_EmptySet
<1>5. <<"died", 0>> \in Event
  BY ProcAssumption DEF Event
<1> HIDE DEF n
<1>6. OnlyDied(q) \in Seq(Event) /\ Len(OnlyDied(q)) = n
  BY <1>2, <1>3, <1>5
<1>7. \A i \in 1..n : OnlyDied(q)[i] = <<"died", 0>>
  BY <1>2
<1>8. n = 0 => OnlyDied(q) = <<>>
  BY <1>6
<1> QED BY <1>4, <1>6, <1>7, <1>8 DEF IsDied

\* onBinderDied posted after it does not change which process is current.
LEMMA CurrentAppendDied ==
  ASSUME NEW q \in Seq(Event), NEW e \in Event, IsDied(e), NEW pub, NEW n, NEW k \in 0..Len(q),
         Current(q, pub, n, k)
  PROVE  Current(Append(q, e), pub, n, k)
<1>1. /\ Len(q) \in Nat /\ Len(Append(q, e)) = Len(q) + 1
      /\ \A i \in 1..Len(q) : Append(q, e)[i] = q[i]
      /\ Append(q, e)[Len(q) + 1] = e
  BY AppendElements
<1>2. CASE pub = n /\ Quiet(q, (k+1)..Len(q))
  BY <1>1, <1>2 DEF Current, Quiet
<1>3. CASE \E j \in (k+1)..Len(q) : IsDisconnected(q[j], n) /\ Quiet(q, (k+1)..(j-1))
  BY <1>1, <1>3 DEF Current, Quiet
<1> QED BY <1>2, <1>3 DEF Current

\* A process that is not published has its disconnection posted already.
LEMMA CurrentAppend ==
  ASSUME NEW q \in Seq(Event), NEW e \in Event, NEW pub, NEW pub2, NEW n, n # pub,
         NEW k \in 0..Len(q), Current(q, pub, n, k)
  PROVE  Current(Append(q, e), pub2, n, k)
<1>1. /\ Len(q) \in Nat /\ Len(Append(q, e)) = Len(q) + 1
      /\ \A i \in 1..Len(q) : Append(q, e)[i] = q[i]
  BY AppendElements
<1> QED BY <1>1 DEF Current, Quiet

\* The disconnection of the process that was published.
LEMMA CurrentAppendDisconnected ==
  ASSUME NEW q \in Seq(Event), NEW n \in 0..MaxProc, NEW pub2,
         NEW k \in 0..Len(q), Current(q, n, n, k)
  PROVE  Current(Append(q, <<"disconnected", n>>), pub2, n, k)
<1> DEFINE e == <<"disconnected", n>>
<1>0. e \in Event /\ IsDisconnected(e, n)
  BY DEF Event, IsDisconnected
<1> HIDE DEF e
<1>1. /\ Len(q) \in Nat /\ Len(Append(q, e)) = Len(q) + 1
      /\ \A i \in 1..Len(q) : Append(q, e)[i] = q[i]
      /\ Append(q, e)[Len(q) + 1] = e
  BY <1>0, AppendElements
<1>2. CASE Quiet(q, (k+1)..Len(q))
  <2>1. Len(q) + 1 \in (k+1)..Len(Append(q, e))
    BY <1>1
  <2>2. Quiet(Append(q, e), (k+1)..(Len(q) + 1 - 1))
    BY <1>1, <1>2 DEF Quiet
  <2> QED BY <1>0, <1>1, <2>1, <2>2 DEF Current, e
<1>3. CASE \E j \in (k+1)..Len(q) : IsDisconnected(q[j], n) /\ Quiet(q, (k+1)..(j-1))
  <2>1. Current(Append(q, e), pub2, n, k)
    BY <1>1, <1>3 DEF Current, Quiet
  <2> QED BY <2>1 DEF e
<1> QED BY <1>2, <1>3 DEF Current

\* The first event is taken off, and was not about this process.
LEMMA CurrentTail ==
  ASSUME NEW q \in Seq(Event), q # <<>>, NEW pub, NEW n, NEW k \in 1..Len(q), Current(q, pub, n, k)
  PROVE  Current(Tail(q), pub, n, k - 1)
<1>1. /\ Len(q) \in Nat \ {0} /\ Len(Tail(q)) = Len(q) - 1
      /\ \A i \in 1..Len(Tail(q)) : Tail(q)[i] = q[i + 1]
  BY TailElements
<1>2. CASE pub = n /\ Quiet(q, (k+1)..Len(q))
  <2>1. Quiet(Tail(q), (k-1+1)..Len(Tail(q)))
    BY <1>1, <1>2 DEF Quiet
  <2> QED BY <1>2, <2>1 DEF Current
<1>3. CASE \E j \in (k+1)..Len(q) : IsDisconnected(q[j], n) /\ Quiet(q, (k+1)..(j-1))
  <2>1. PICK j \in (k+1)..Len(q) : IsDisconnected(q[j], n) /\ Quiet(q, (k+1)..(j-1))
    BY <1>3
  <2>2. j - 1 \in (k-1+1)..Len(Tail(q)) /\ IsDisconnected(Tail(q)[j - 1], n)
    BY <1>1, <2>1
  <2>3. Quiet(Tail(q), (k-1+1)..(j-1-1))
    BY <1>1, <2>1 DEF Quiet
  <2> QED BY <2>2, <2>3 DEF Current
<1> QED BY <1>2, <1>3 DEF Current

\* The first event is onBinderDied, and taken off.
LEMMA CurrentSkip ==
  ASSUME NEW q \in Seq(Event), q # <<>>, IsDied(Head(q)), NEW pub, NEW n, Current(q, pub, n, 0)
  PROVE  Current(q, pub, n, 1)
<1>1. Head(q) = q[1] /\ Len(q) \in Nat \ {0}
  BY TailElements
<1>2. ~IsDisconnected(q[1], n)
  BY <1>1 DEF IsDied, IsDisconnected
<1>3. CASE pub = n /\ Quiet(q, (0+1)..Len(q))
  BY <1>1, <1>3 DEF Current, Quiet
<1>4. CASE \E j \in (0+1)..Len(q) : IsDisconnected(q[j], n) /\ Quiet(q, (0+1)..(j-1))
  <2>1. PICK j \in (0+1)..Len(q) : IsDisconnected(q[j], n) /\ Quiet(q, (0+1)..(j-1))
    BY <1>4
  <2>2. j \in (1+1)..Len(q)
    BY <1>1, <1>2, <2>1
  <2>3. Quiet(q, (1+1)..(j-1))
    BY <2>1, <2>2 DEF Quiet
  <2> QED BY <2>1, <2>2, <2>3 DEF Current
<1> QED BY <1>3, <1>4 DEF Current

\* The next thing told of the current process can only be its disconnection.
LEMMA CurrentHead ==
  ASSUME NEW q \in Seq(Event), q # <<>>, ~IsDied(Head(q)), NEW pub, NEW n, Current(q, pub, n, 0)
  PROVE  IsDisconnected(Head(q), n)
<1>1. Head(q) = q[1] /\ Len(q) \in Nat \ {0}
  BY TailElements
<1>2. ~Quiet(q, (0+1)..Len(q))
  BY <1>1 DEF Quiet
<1>3. PICK j \in (0+1)..Len(q) : IsDisconnected(q[j], n) /\ Quiet(q, (0+1)..(j-1))
  BY <1>2 DEF Current
<1>4. j = 1
  BY <1>1, <1>3 DEF Quiet
<1> QED BY <1>1, <1>3, <1>4

-----------------------------------------------------------------------------
(* The invariant *)

\* Before the activity is created nothing is bound, posted or registered.
LEMMA InitInv == Init => IInv
<1> SUFFICES ASSUME Init PROVE IInv
  OBVIOUS
<1> USE ProcAssumption DEF Init
<1>1. events = <<>> /\ Len(events) = 0 /\ events \in Seq({"connected", "disconnected", "died"} \X (0..MaxProc))
  OBVIOUS
<1>2. TypeOK
  <2>1. 0 \in 0..MaxProc
    OBVIOUS
  <2> QED BY <1>1, <2>1 DEF TypeOK, SvcStates
<1>3. ChecksHold /\ DestroyInv
  BY DEF ChecksHold, DestroyInv
<1>4. EventInv
  BY <1>1 DEF EventInv
<1>5. BindInv
  <2>1. Quiet(events, 1..Len(events))
    BY <1>1 DEF Quiet
  <2>2. attached <= proc
    OBVIOUS
  <2> QED BY <2>1, <2>2 DEF BindInv
<1>6. CallbackInv
  BY DEF CallbackInv
<1> QED BY <1>2, <1>3, <1>4, <1>5, <1>6 DEF IInv

\* Every step keeps the types.
LEMMA TypeStep == TypeOK /\ BindInv /\ [Next]_vars => TypeOK'
<1> SUFFICES ASSUME TypeOK, BindInv, [Next]_vars PROVE TypeOK'
  OBVIOUS
<1> USE ProcAssumption DEF TypeOK, procVars, frameVars, connVars, uiVars, Procs
<1>0. events \in Seq(Event)
  BY DEF Event
<1>a. ASSUME NEW e \in Event, events' = Append(events, e) PROVE events' \in Seq(Event)
  BY <1>0, <1>a, AppendElements
<1>b. events # <<>> => Head(events) \in Event /\ Head(events)[2] \in 0..MaxProc /\ Tail(events) \in Seq(Event)
  BY <1>0, TailElements DEF Event
<1>c. <<"died", 0>> \in Event /\ \A n \in 0..MaxProc : <<"connected", n>> \in Event /\ <<"disconnected", n>> \in Event
  BY DEF Event
<1>1. CASE UNCHANGED vars
  BY <1>1 DEF vars
<1>2. CASE ServiceCreated
  BY <1>2 DEF ServiceCreated, SvcStates
<1>3. CASE Publish
  <2>1. events' \in Seq(Event)
    BY <1>3, <1>a, <1>c DEF Publish
  <2> QED BY <1>3, <2>1 DEF Publish, Event
<1>4. CASE ServiceDies
  <2>1. events' \in Seq(Event)
    BY <1>0, <1>4, <1>a, <1>c DEF ServiceDies
  <2>2. published' \in 0..MaxProc /\ callbackAt' \in 0..MaxProc
    BY <1>4 DEF ServiceDies
  <2>3. links' \subseteq Procs /\ deaths' \subseteq Procs
    BY <1>4 DEF ServiceDies
  <2>4. up' \in BOOLEAN /\ UNCHANGED <<proc, svcState, bound, attached, connVars, pc, uiVars>>
    BY <1>4 DEF ServiceDies
  <2> QED BY <2>1, <2>2, <2>3, <2>4 DEF Event
<1>5. CASE StateChanged
  BY <1>5 DEF StateChanged
<1>6. CASE Create
  BY <1>6 DEF Create, Connect
<1>7. ASSUME NEW tasks \in Seq(Event), Disconnect(tasks)
      PROVE  /\ events' \in Seq(Event) /\ callbackAt' \in 0..MaxProc /\ callbackRegistered' \in BOOLEAN
             /\ published' \in 0..MaxProc /\ attached' \in 0..MaxProc /\ links' \subseteq Procs
             /\ binder' \in 0..MaxProc /\ service' \in 0..MaxProc
  <2>1. events' \in Seq(Event)
    BY <1>7, OnlyDiedElements DEF Disconnect
  <2>2. 0 \in 0..MaxProc
    OBVIOUS
  <2> QED BY <1>7, <2>1, <2>2 DEF Disconnect
<1>8. CASE Destroy
  BY <1>0, <1>7, <1>8 DEF Destroy, Event
<1>9. CASE OnBinderDied
  BY <1>b, <1>7, <1>9 DEF OnBinderDied, Connect, Event
<1>10. CASE ConnectedTooLate
  BY <1>b, <1>10 DEF ConnectedTooLate, Event
<1>11. CASE OnServiceConnected
  BY <1>b, <1>11 DEF OnServiceConnected, Event
<1>12. CASE RegisterCallback
  <2>1. Alive(attached) => attached \in Procs
    BY <1>12 DEF Alive, BindInv
  <2>2. links' \subseteq Procs /\ callbackAt' \in 0..MaxProc
    BY <1>12, <2>1 DEF RegisterCallback
  <2>3. /\ callbackRegistered' \in BOOLEAN /\ crashed' \in {"no", "check", "deadObject"}
        /\ pc' = "registered"
        /\ UNCHANGED <<proc, up, svcState, frameVars, events, deaths, connectionActive, callback,
                       service, binder, shadowsockState, connectState, destroyed, orphanTask, lateDeath>>
    BY <1>12 DEF RegisterCallback
  <2> QED BY <2>2, <2>3
<1>13. CASE ReportConnected
  BY <1>13 DEF ReportConnected, SvcStates
<1>14. CASE OnServiceDisconnected
  <2>1. attached' \in 0..MaxProc /\ service' \in 0..MaxProc /\ binder' \in 0..MaxProc
    BY <1>14 DEF OnServiceDisconnected
  <2>2. callbackRegistered' \in BOOLEAN /\ connectState' \in {"Stopped", "Connected"}
    BY <1>14 DEF OnServiceDisconnected
  <2>3. events' \in Seq(Event)
    BY <1>b, <1>14 DEF OnServiceDisconnected
  <2> QED BY <1>14, <2>1, <2>2, <2>3 DEF OnServiceDisconnected, Event
<1>15. ASSUME NEW n \in Procs, BinderDied(n) PROVE TypeOK'
  <2>1. events' \in Seq(Event)
    BY <1>0, <1>15, <1>a, <1>c DEF BinderDied
  <2>2. lateDeath' \in BOOLEAN /\ service' \in 0..MaxProc
    BY <1>15 DEF BinderDied
  <2> QED BY ZenonT(30), <1>15, <2>1, <2>2 DEF BinderDied, Event
<1> QED BY <1>1, <1>2, <1>3, <1>4, <1>5, <1>6, <1>8, <1>9, <1>10, <1>11, <1>12, <1>13, <1>14, <1>15
        DEF Next, MainStep

\* Nothing is posted and no process is connected or published.
LEMMA EventSame ==
  ASSUME TypeOK, EventInv, UNCHANGED <<events, published, attached>>, proc <= proc', proc' \in Nat,
         \A n \in 0..proc : Alive(n)' => Alive(n)
  PROVE  EventInv'
  BY DEF EventInv, TypeOK

\* The order of the events when the first one is taken off, up to what is
\* attached after it.
LEMMA EventTail ==
  ASSUME TypeOK, EventInv, events # <<>>, events' = Tail(events), UNCHANGED <<published, procVars>>,
         attached' # 0 => Current(events, published, attached', 1)
  PROVE  EventInv'
<1>0. events \in Seq(Event)
  BY DEF TypeOK, Event
<1>1. /\ Len(events) \in Nat \ {0} /\ Len(events') = Len(events) - 1
      /\ \A i \in 1..Len(events') : events'[i] = events[i + 1] /\ i + 1 \in 1..Len(events)
  BY <1>0, TailElements
<1>2. ASSUME attached' # 0 PROVE Current(events', published', attached', 0)
  <2>1. 1 \in 1..Len(events)
    BY <1>1
  <2>2. Current(Tail(events), published, attached', 1 - 1)
    BY <1>0, <1>2, <2>1, CurrentTail
  <2> QED BY <2>2
<1>3. ASSUME NEW i \in 1..Len(events'), NEW n \in 0..MaxProc, IsConnected(events'[i], n)
      PROVE  n # 0 /\ n <= proc' /\ Current(events', published', n, i)
  <2>1. n # 0 /\ n <= proc /\ Current(events, published, n, i + 1)
    BY <1>1, <1>3 DEF EventInv
  <2>2. Current(Tail(events), published, n, i + 1 - 1)
    BY <1>0, <1>1, <2>1, CurrentTail
  <2>3. i + 1 - 1 = i
    OBVIOUS
  <2> QED BY <2>1, <2>2, <2>3 DEF procVars
<1>4. ASSUME NEW i \in 1..Len(events'), NEW n \in 0..MaxProc, IsDisconnected(events'[i], n)
      PROVE  n # 0 /\ n <= proc' /\ ~Alive(n)'
  BY <1>1, <1>4 DEF EventInv, Alive, procVars
<1> QED BY <1>2, <1>3, <1>4 DEF EventInv

\* An event is posted that keeps what was current so.
LEMMA EventAppend ==
  ASSUME TypeOK, EventInv, NEW e \in Event, events' = Append(events, e),
         attached' = attached, proc' = proc, up' => up,
         \A n \in 1..MaxProc : \A k \in 0..Len(events) :
            Current(events, published, n, k) => Current(events', published', n, k),
         \A n \in 0..MaxProc : IsConnected(e, n) =>
            n # 0 /\ n <= proc /\ Current(events', published', n, Len(events) + 1),
         \A n \in 0..MaxProc : IsDisconnected(e, n) => n # 0 /\ n <= proc /\ ~Alive(n)'
  PROVE  EventInv'
<1>0. events \in Seq(Event)
  BY DEF TypeOK, Event
<1>1. /\ Len(events) \in Nat /\ Len(events') = Len(events) + 1
      /\ \A i \in 1..Len(events) : events'[i] = events[i]
      /\ events'[Len(events) + 1] = e
  BY <1>0, AppendElements
<1>2. \A i \in 1..Len(events') : i \in 1..Len(events) \/ i = Len(events) + 1
  BY <1>1
<1>3. \A i \in 1..Len(events) : i \in 0..Len(events)
  BY <1>1
<1>4. ASSUME attached' # 0 PROVE Current(events', published', attached', 0)
  <2>1. attached \in 1..MaxProc /\ 0 \in 0..Len(events)
    BY <1>1, <1>4, ProcAssumption DEF TypeOK
  <2> QED BY <1>4, <2>1 DEF EventInv
<1>5. ASSUME NEW i \in 1..Len(events'), NEW n \in 0..MaxProc, IsConnected(events'[i], n)
      PROVE  n # 0 /\ n <= proc' /\ Current(events', published', n, i)
  <2>1. CASE i \in 1..Len(events)
    <3>1. n # 0 /\ n <= proc /\ Current(events, published, n, i)
      BY <1>1, <1>5, <2>1 DEF EventInv
    <3>2. n \in 1..MaxProc
      BY <3>1, ProcAssumption
    <3> QED BY <1>3, <2>1, <3>1, <3>2
  <2>2. CASE i = Len(events) + 1
    BY <1>1, <1>5, <2>2
  <2> QED BY <1>2, <2>1, <2>2
<1>6. ASSUME NEW i \in 1..Len(events'), NEW n \in 0..MaxProc, IsDisconnected(events'[i], n)
      PROVE  n # 0 /\ n <= proc' /\ ~Alive(n)'
  <2>1. CASE i \in 1..Len(events)
    BY <1>1, <1>6, <2>1 DEF EventInv, Alive
  <2>2. CASE i = Len(events) + 1
    BY <1>1, <1>6, <2>2
  <2> QED BY <1>2, <2>1, <2>2
<1> QED BY <1>4, <1>5, <1>6 DEF EventInv

\* unbindService: only onBinderDied is left, and nothing is published.
LEMMA EventDropped ==
  ASSUME TypeOK, NEW tasks \in Seq(Event), Disconnect(tasks)
  PROVE  EventInv' /\ Quiet(events', 1..Len(events'))
<1>1. \A i \in 1..Len(events') : IsDied(events'[i])
  BY OnlyDiedElements DEF Disconnect
<1>2. \A i \in 1..Len(events') : \A n : ~IsConnected(events'[i], n) /\ ~IsDisconnected(events'[i], n)
  BY <1>1 DEF IsDied, IsConnected, IsDisconnected
<1>3. attached' = 0
  BY DEF Disconnect
<1> QED BY <1>1, <1>2, <1>3 DEF EventInv, Quiet

\* The conjuncts of the invariant other than the types.
Rest == ChecksHold /\ EventInv /\ BindInv /\ CallbackInv /\ DestroyInv

\* A new process is not the one the client knows of, dead or alive.
LEMMA ServiceCreatedInv == TypeOK /\ Rest /\ ServiceCreated => Rest'
<1> SUFFICES ASSUME TypeOK, Rest, ServiceCreated PROVE Rest'
  OBVIOUS
<1> USE ProcAssumption DEF Rest, ServiceCreated, procVars, frameVars, connVars, uiVars
<1>1. /\ proc \in Nat /\ proc' = proc + 1 /\ published = 0
      /\ \A n \in 0..proc : ~Alive(n)'
  BY DEF TypeOK, BindInv, Alive
<1>2. EventInv'
  BY <1>1, EventSame
<1>3. \A n \in links \cup deaths : n \in 0..proc
  BY DEF TypeOK, BindInv, Procs
<1>4. attached \in 0..proc
  BY DEF TypeOK, BindInv
<1>5. BindInv'
  BY <1>1, <1>3, <1>4 DEF BindInv
<1>6. CallbackInv'
  BY <1>1, <1>4 DEF CallbackInv
<1> QED BY <1>2, <1>5, <1>6 DEF ChecksHold, DestroyInv

\* onServiceConnected is posted only when nothing is published, so every
\* earlier process has its disconnection posted before it.
LEMMA PublishInv == TypeOK /\ Rest /\ Publish => Rest'
<1> SUFFICES ASSUME TypeOK, Rest, Publish PROVE Rest'
  OBVIOUS
<1> USE ProcAssumption DEF Rest, Publish, procVars, frameVars, connVars, uiVars
<1>1. published = 0 /\ proc \in 1..MaxProc /\ Alive(proc)
  BY DEF TypeOK, BindInv, Alive
<1> DEFINE e == <<"connected", proc>>
<1>2. e \in Event /\ events \in Seq(Event) /\ ~IsDied(e)
  BY <1>1 DEF Event, IsDied, TypeOK
<1>3. ASSUME NEW n \in 1..MaxProc, NEW k \in 0..Len(events), Current(events, published, n, k)
      PROVE  Current(events', published', n, k)
  <2>1. n # published
    BY <1>1
  <2> QED BY <1>2, <1>3, <2>1, CurrentAppend
<1>4. Current(events', published', proc, Len(events) + 1)
  <2>1. Len(events') = Len(events) + 1 /\ Len(events) \in Nat
    BY <1>2, AppendElements
  <2> QED BY <2>1 DEF Current, Quiet
<1>5. \A n \in 0..MaxProc : IsConnected(e, n) => n = proc
  BY DEF IsConnected
<1>6. \A n \in 0..MaxProc : ~IsDisconnected(e, n)
  BY DEF IsDisconnected
<1>7. EventInv'
  <2> HIDE DEF e
  <2>1. events' = Append(events, e)
    BY DEF e
  <2>2. proc # 0 /\ proc <= proc
    BY <1>1
  <2> QED BY <1>2, <1>3, <1>4, <1>5, <1>6, <2>1, <2>2, EventAppend
<1>8. BindInv'
  BY <1>1 DEF BindInv, Alive, TypeOK
<1>9. CallbackInv'
  BY DEF CallbackInv, Alive
<1> QED BY <1>7, <1>8, <1>9 DEF ChecksHold, DestroyInv, BindInv

\* A death takes the callback list along, and posts the disconnection of the
\* process that was published.
LEMMA ServiceDiesInv == TypeOK /\ Rest /\ ServiceDies => Rest'
<1> SUFFICES ASSUME TypeOK, Rest, ServiceDies PROVE Rest'
  OBVIOUS
<1> USE ProcAssumption DEF Rest, procVars, frameVars, connVars, uiVars
<1>0. \A n : ~Alive(n)'
  BY DEF ServiceDies, Alive
<1>a. events \in Seq(Event) /\ proc \in 1..MaxProc
  BY DEF Event, TypeOK, BindInv, ServiceDies
<1>1. EventInv' /\ published' = 0 /\ (~bound => events' = events)
  <2>1. CASE bound /\ published = proc /\ published' = 0 /\ events' = Append(events, <<"disconnected", proc>>)
    <3> DEFINE e == <<"disconnected", proc>>
    <3>1. e \in Event /\ \A n \in 0..MaxProc : ~IsConnected(e, n) /\ (IsDisconnected(e, n) => n = proc)
      BY <1>a DEF Event, IsConnected, IsDisconnected
    <3>2. ASSUME NEW n \in 1..MaxProc, NEW k \in 0..Len(events), Current(events, published, n, k)
          PROVE  Current(events', published', n, k)
      <4>1. CASE n = published
        BY <1>a, <2>1, <3>2, <4>1, CurrentAppendDisconnected
      <4>2. CASE n # published
        BY <1>a, <2>1, <3>1, <3>2, <4>2, CurrentAppend
      <4> QED BY <4>1, <4>2
    <3>3. events' = Append(events, e) /\ attached' = attached /\ proc' = proc /\ (up' => up)
      BY <2>1 DEF ServiceDies
    <3>4. proc # 0 /\ proc <= proc
      BY <1>a
    <3> HIDE DEF e
    <3>5. EventInv'
      BY <1>0, <3>1, <3>2, <3>3, <3>4, EventAppend
    <3> QED BY <2>1, <3>5
  <2>2. CASE ~(bound /\ published = proc) /\ UNCHANGED <<published, events>>
    <3>1. published = 0
      BY <2>2 DEF BindInv, Alive
    <3>2. EventInv'
      BY <1>0, <1>a, <2>2, EventSame DEF ServiceDies
    <3> QED BY <2>2, <3>1, <3>2
  <2> QED BY <2>1, <2>2 DEF ServiceDies
<1>2. \A n \in links' \cup deaths' : n <= proc'
  BY <1>a DEF ServiceDies, BindInv
<1>3. UNCHANGED <<proc, svcState, bound, attached, connVars, pc, uiVars>> /\ ~up' /\ callbackAt' = 0
  BY DEF ServiceDies
<1>4. BindInv'
  BY <1>0, <1>1, <1>2, <1>3 DEF BindInv
<1>5. CallbackInv'
  BY <1>0, <1>3 DEF CallbackInv
<1> QED BY <1>1, <1>3, <1>4, <1>5 DEF ChecksHold, DestroyInv

\* A connection that is registered is told of the change.
LEMMA StateChangedInv == TypeOK /\ Rest /\ StateChanged => Rest'
<1> SUFFICES ASSUME TypeOK, Rest, StateChanged PROVE Rest'
  OBVIOUS
<1> USE DEF Rest, StateChanged, procVars, frameVars, connVars, uiVars
<1>1. EventInv' /\ BindInv' /\ ChecksHold' /\ DestroyInv'
  BY DEF EventInv, BindInv, ChecksHold, DestroyInv, Alive
<1>2. callbackRegistered /\ Alive(attached) => callbackAt = proc /\ callback
  BY DEF CallbackInv, BindInv, Alive, TypeOK
<1>3. CallbackInv'
  BY <1>2 DEF CallbackInv, Alive
<1> QED BY <1>1, <1>3

\* connect finds no callback: check(callback == null) holds.
LEMMA CreateInv == TypeOK /\ Rest /\ Create => Rest'
<1> SUFFICES ASSUME TypeOK, Rest, Create PROVE Rest'
  OBVIOUS
<1> USE DEF Rest, Create, Connect, MainFree, procVars
<1>1. crashed' = crashed /\ ~bound
  BY DEF BindInv, TypeOK
<1>2. EventInv' /\ ChecksHold' /\ DestroyInv' /\ CallbackInv'
  BY <1>1 DEF EventInv, ChecksHold, DestroyInv, CallbackInv, Alive
<1>3. BindInv'
  BY <1>1 DEF BindInv, Alive
<1> QED BY <1>2, <1>3

\* What disconnect does to the registration.
LEMMA DisconnectInv ==
  ASSUME TypeOK, Rest, NEW tasks \in Seq(Event), Disconnect(tasks), pc = "idle",
         UNCHANGED <<proc, up, deaths, pc, lateDeath>>
  PROVE  /\ CallbackInv'
         /\ \A n \in links' \cup deaths' : n <= proc'
         /\ \A n \in deaths' : ~Alive(n)'
<1>1. callbackAt' # 0 => Alive(callbackAt)' /\ lateDeath'
  BY DEF Rest, CallbackInv, Disconnect, Alive
<1>2. CallbackInv'
  BY <1>1 DEF CallbackInv, Disconnect
<1>3. \A n \in links' \cup deaths' : n <= proc'
  BY DEF Rest, BindInv, Disconnect
<1>4. \A n \in deaths' : ~Alive(n)'
  BY DEF Rest, BindInv, Alive
<1> QED BY <1>2, <1>3, <1>4

\* onDestroy leaves neither a binding nor, if nothing was posted, a task.
LEMMA DestroyStep == TypeOK /\ Rest /\ Destroy => Rest'
<1> SUFFICES ASSUME TypeOK, Rest, Destroy PROVE Rest'
  OBVIOUS
<1> USE DEF Destroy, MainFree
<1>0. events \in Seq(Event)
  BY DEF Event, TypeOK
<1>1. EventInv' /\ Quiet(events', 1..Len(events'))
  BY <1>0, EventDropped
<1>2. /\ CallbackInv' /\ \A n \in links' \cup deaths' : n <= proc'
      /\ \A n \in deaths' : ~Alive(n)'
  BY <1>0, DisconnectInv
<1>3. attached' = 0 /\ published' = 0 /\ ~bound' /\ ~connectionActive' /\ ~callback' /\ pc' = "idle"
      /\ bound' = FALSE /\ connectionActive' = FALSE /\ callback' = FALSE
  BY DEF Disconnect
<1>4. attached' <= proc' /\ (up' => proc' # 0)
  BY <1>3 DEF TypeOK, Rest, BindInv
<1>5. BindInv'
  BY <1>1, <1>2, <1>3, <1>4 DEF BindInv
<1>6. DestroyInv'
  <2>1. ~orphanTask' => events' = <<>>
    BY <1>0, OnlyDiedElements DEF Disconnect
  <2> QED BY <1>3, <2>1 DEF DestroyInv
<1>7. ChecksHold'
  BY DEF Rest, ChecksHold
<1> QED BY <1>1, <1>2, <1>5, <1>6, <1>7 DEF Rest

\* onBinderDied disconnects before it connects.
LEMMA OnBinderDiedInv == TypeOK /\ Rest /\ OnBinderDied => Rest'
<1> SUFFICES ASSUME TypeOK, Rest, OnBinderDied PROVE Rest'
  OBVIOUS
<1> USE DEF OnBinderDied, MainFree
<1>0. events \in Seq(Event) /\ Tail(events) \in Seq(Event) /\ events # <<>>
  BY TailElements DEF Event, TypeOK
<1>1. EventInv' /\ Quiet(events', 1..Len(events'))
  BY <1>0, EventDropped
<1>2. /\ CallbackInv' /\ \A n \in links' \cup deaths' : n <= proc'
      /\ \A n \in deaths' : ~Alive(n)'
  BY <1>0, DisconnectInv
<1>3. /\ attached' = 0 /\ published' = 0 /\ pc' = "idle"
      /\ bound' = TRUE /\ connectionActive' = TRUE /\ callback' = TRUE /\ crashed' = crashed
  BY DEF Disconnect, Connect
<1>4. attached' <= proc' /\ (up' => proc' # 0)
  BY <1>3 DEF TypeOK, Rest, BindInv
<1>5. BindInv'
  BY <1>1, <1>2, <1>3, <1>4 DEF BindInv
<1>6. DestroyInv'
  BY <1>0 DEF Rest, DestroyInv
<1>7. ChecksHold'
  BY <1>3 DEF Rest, ChecksHold
<1> QED BY <1>1, <1>2, <1>5, <1>6, <1>7 DEF Rest

\* While something is posted by the framework the service is bound, and what
\* is left of the queue is quiet if it was.
LEMMA BoundWhileTold ==
  ASSUME TypeOK, BindInv, events # <<>>, ~IsDied(Head(events))
  PROVE  bound /\ connectionActive /\ callback
<1>0. events \in Seq(Event)
  BY DEF Event, TypeOK
<1>1. Head(events) = events[1] /\ 1 \in 1..Len(events)
  BY <1>0, TailElements
<1>2. bound
  BY <1>1 DEF BindInv, Quiet
<1> QED BY <1>2 DEF BindInv, TypeOK

\* A binder that is dead already is not handed to the client.
LEMMA ConnectedTooLateInv == TypeOK /\ Rest /\ ConnectedTooLate => Rest'
<1> SUFFICES ASSUME TypeOK, Rest, ConnectedTooLate PROVE Rest'
  OBVIOUS
<1> USE DEF ConnectedTooLate
<1>0. events \in Seq(Event) /\ events # <<>> /\ ~IsDied(Head(events))
  BY DEF Event, TypeOK, IsDied
<1>1. bound /\ connectionActive /\ callback
  BY <1>0, BoundWhileTold DEF Rest
<1>2. attached = 0
  <2>1. ~IsDisconnected(Head(events), attached)
    BY DEF IsDisconnected
  <2> QED BY <1>0, <2>1, CurrentHead DEF Rest, EventInv
<1>3. EventInv'
  BY <1>0, <1>2, EventTail DEF Rest, frameVars
<1>4. BindInv'
  BY <1>1 DEF Rest, BindInv, Alive, procVars, frameVars, connVars
<1>5. CallbackInv' /\ ChecksHold'
  BY DEF Rest, CallbackInv, ChecksHold, Alive, procVars, frameVars, connVars, uiVars
<1>6. DestroyInv'
  BY <1>1 DEF Rest, DestroyInv, uiVars, frameVars
<1> QED BY <1>3, <1>4, <1>5, <1>6 DEF Rest

\* onServiceConnected comes only when no process is attached, hence when
\* nothing is registered.
LEMMA OnServiceConnectedInv == TypeOK /\ Rest /\ OnServiceConnected => Rest'
<1> SUFFICES ASSUME TypeOK, Rest, OnServiceConnected PROVE Rest'
  OBVIOUS
<1> USE DEF OnServiceConnected
<1>0. events \in Seq(Event) /\ events # <<>> /\ ~IsDied(Head(events))
  BY DEF Event, TypeOK, IsDied
<1>1. bound /\ connectionActive /\ callback
  BY <1>0, BoundWhileTold DEF Rest
<1>2. attached = 0
  <2>1. ~IsDisconnected(Head(events), attached)
    BY DEF IsDisconnected
  <2> QED BY <1>0, <2>1, CurrentHead DEF Rest, EventInv
<1>3. PICK n \in 0..MaxProc : IsConnected(Head(events), n) /\ n = Head(events)[2]
  <2>1. Head(events) \in Event
    BY <1>0, TailElements
  <2> QED BY <2>1 DEF Event, IsConnected
<1>4. n # 0 /\ n <= proc /\ Current(events, published, n, 1)
  <2>1. Head(events) = events[1] /\ 1 \in 1..Len(events)
    BY <1>0, TailElements
  <2> QED BY <1>3, <2>1 DEF Rest, EventInv
<1>5. EventInv'
  BY <1>0, <1>3, <1>4, EventTail DEF Rest
<1>6. BindInv'
  BY <1>1, <1>3, <1>4 DEF Rest, BindInv, Alive, procVars
<1>7. ~callbackRegistered /\ (callbackAt # 0 => lateDeath)
  BY <1>2 DEF Rest, CallbackInv
<1>8. CallbackInv'
  BY <1>7 DEF Rest, CallbackInv, Alive, procVars, uiVars
<1>9. DestroyInv' /\ ChecksHold'
  BY <1>1 DEF Rest, DestroyInv, ChecksHold, uiVars
<1> QED BY <1>5, <1>6, <1>8, <1>9 DEF Rest

\* check(!callbackRegistered) holds, and the callback is put into the list of
\* the process attached.
LEMMA RegisterCallbackInv == TypeOK /\ Rest /\ RegisterCallback => Rest'
<1> SUFFICES ASSUME TypeOK, Rest, RegisterCallback PROVE Rest'
  OBVIOUS
<1> USE DEF frameVars
<1>1. pc = "attached" /\ pc' = "registered" /\ crashed = "no"
      /\ UNCHANGED <<proc, up, svcState, frameVars, events, deaths, connectionActive, callback, service,
                     binder, shadowsockState, connectState, destroyed, orphanTask, lateDeath>>
  BY DEF RegisterCallback
<1>2. ~callbackRegistered /\ attached # 0 /\ bound
  BY <1>1 DEF Rest, CallbackInv, BindInv
<1>3. /\ crashed' = crashed /\ links' \subseteq links \cup {attached}
      /\ \/ ~Alive(attached) /\ callbackAt' = callbackAt /\ callbackRegistered' = callbackRegistered
         \/ Alive(attached) /\ callbackAt' = attached /\ callbackRegistered'
  BY <1>2 DEF RegisterCallback
<1>4. EventInv' /\ ChecksHold' /\ DestroyInv'
  BY <1>1, <1>3 DEF Rest, EventInv, ChecksHold, DestroyInv, Alive
<1>5. \A n \in links' \cup deaths' : n <= proc'
  BY <1>1, <1>3 DEF Rest, BindInv
<1>6. BindInv'
  BY <1>1, <1>2, <1>5 DEF Rest, BindInv, Alive
<1>7. CallbackInv'
  BY <1>1, <1>2, <1>3 DEF Rest, CallbackInv, Alive
<1> QED BY <1>4, <1>6, <1>7 DEF Rest

\* callback!! holds: the connection is not closed inside onServiceConnected.
LEMMA ReportConnectedInv == TypeOK /\ Rest /\ ReportConnected => Rest'
<1> SUFFICES ASSUME TypeOK, Rest, ReportConnected PROVE Rest'
  OBVIOUS
<1> USE DEF ReportConnected, procVars, frameVars, connVars
<1>1. callback
  BY DEF Rest, BindInv, TypeOK
<1>2. crashed' # "check"
  BY <1>1
<1>3. EventInv' /\ ChecksHold' /\ DestroyInv'
  BY <1>2 DEF Rest, EventInv, ChecksHold, DestroyInv, Alive
<1>4. BindInv'
  BY DEF Rest, BindInv, Alive
<1>5. CallbackInv'
  BY <1>1 DEF Rest, CallbackInv, Alive
<1> QED BY <1>3, <1>4, <1>5 DEF Rest

\* onServiceDisconnected is about the process attached, which is dead.
LEMMA OnServiceDisconnectedInv == TypeOK /\ Rest /\ OnServiceDisconnected => Rest'
<1> SUFFICES ASSUME TypeOK, Rest, OnServiceDisconnected PROVE Rest'
  OBVIOUS
<1> USE DEF MainFree
<1>0. /\ events \in Seq(Event) /\ events # <<>> /\ ~IsDied(Head(events)) /\ pc = "idle"
      /\ events' = Tail(events)
      /\ UNCHANGED <<procVars, bound, published, links, deaths, connectionActive, callback, pc,
                     shadowsockState, destroyed, crashed, orphanTask, lateDeath>>
  BY DEF Event, TypeOK, IsDied, OnServiceDisconnected
<1>1. bound /\ connectionActive /\ callback
  BY <1>0, BoundWhileTold DEF Rest
<1>2. PICK n \in 0..MaxProc : IsDisconnected(Head(events), n) /\ n = Head(events)[2]
  <2>1. Head(events) \in Event
    BY <1>0, TailElements
  <2> QED BY <2>1 DEF Event, IsDisconnected, OnServiceDisconnected
<1>3. ~Alive(n)
  <2>1. Head(events) = events[1] /\ 1 \in 1..Len(events)
    BY <1>0, TailElements
  <2> QED BY <1>2, <2>1 DEF Rest, EventInv
<1>4. attached # 0 => attached = n
  <2>1. attached # 0 => IsDisconnected(Head(events), attached)
    BY <1>0, CurrentHead DEF Rest, EventInv
  <2> QED BY <1>2, <2>1 DEF IsDisconnected
<1>5. attached' = 0 /\ ~callbackRegistered' /\ service' = 0
  BY <1>2, <1>4 DEF OnServiceDisconnected, Rest, CallbackInv
<1>6. callbackAt # 0 => lateDeath
  BY <1>3, <1>4 DEF Rest, CallbackInv
<1>7. EventInv'
  BY <1>0, <1>5, EventTail DEF Rest
<1>8. BindInv'
  <2>1. attached' <= proc'
    BY <1>0, <1>5 DEF TypeOK, procVars
  <2> QED BY <1>0, <1>1, <1>5, <2>1 DEF Rest, BindInv, Alive, procVars
<1>9. CallbackInv'
  BY <1>0, <1>5, <1>6 DEF Rest, CallbackInv, Alive, procVars
<1>10. DestroyInv' /\ ChecksHold'
  BY <1>0, <1>1 DEF Rest, DestroyInv, ChecksHold
<1> QED BY <1>7, <1>8, <1>9, <1>10 DEF Rest

\* binderDied takes a registration away that is already void, or is late.
LEMMA BinderDiedInv == ASSUME NEW d \in Procs PROVE TypeOK /\ Rest /\ BinderDied(d) => Rest'
<1> SUFFICES ASSUME TypeOK, Rest, BinderDied(d) PROVE Rest'
  OBVIOUS
<1> USE ProcAssumption DEF procVars, frameVars
<1>0. /\ events \in Seq(Event) /\ d \in deaths /\ deaths' = deaths \ {d}
      /\ service' = 0 /\ ~callbackRegistered'
      /\ lateDeath' = (lateDeath \/ attached \notin {0, d})
      /\ UNCHANGED <<procVars, frameVars, links, connectionActive, callback, binder, pc,
                     shadowsockState, connectState, destroyed, crashed, orphanTask>>
  BY DEF Event, TypeOK, BinderDied
<1>1. ~Alive(d)
  BY <1>0 DEF Rest, BindInv
<1>2. EventInv' /\ (bound \/ events' = events)
  <2>1. CASE callback
    <3>1. bound /\ events' = Append(events, <<"died", 0>>)
      BY <2>1 DEF Rest, BindInv, TypeOK, BinderDied
    <3> DEFINE e == <<"died", 0>>
    <3>2. e \in Event /\ IsDied(e) /\ \A n \in 0..MaxProc : ~IsConnected(e, n) /\ ~IsDisconnected(e, n)
      BY DEF Event, IsDied, IsConnected, IsDisconnected
    <3>3. events' = Append(events, e)
      BY <3>1
    <3> HIDE DEF e
    <3>4. ASSUME NEW n \in 1..MaxProc, NEW k \in 0..Len(events), Current(events, published, n, k)
          PROVE  Current(events', published', n, k)
      BY <1>0, <3>2, <3>3, <3>4, CurrentAppendDied
    <3>5. EventInv'
      BY <1>0, <3>2, <3>3, <3>4, EventAppend DEF Rest
    <3> QED BY <3>1, <3>5
  <2>2. CASE ~callback
    <3>1. events' = events
      BY <2>2 DEF BinderDied
    <3> QED BY <1>0, <3>1 DEF Rest, EventInv, Alive
  <2> QED BY <2>1, <2>2
<1>3. BindInv'
  BY <1>0, <1>2 DEF Rest, BindInv, Alive
<1>4. CallbackInv'
  BY <1>0, <1>1 DEF Rest, CallbackInv, Alive
<1>5. DestroyInv' /\ ChecksHold'
  BY <1>0, <1>2 DEF Rest, DestroyInv, ChecksHold
<1> QED BY <1>2, <1>3, <1>4, <1>5 DEF Rest

\* A stuttering step.
LEMMA Unchanged == Rest /\ UNCHANGED vars => Rest'
  BY DEF Rest, vars, procVars, frameVars, connVars, uiVars, ChecksHold, EventInv, BindInv, CallbackInv,
     DestroyInv, Alive

-----------------------------------------------------------------------------
(* Theorems *)

\* The invariant holds in every behaviour of the connection, for any number
\* of processes of the service.
THEOREM ConnectionInvariant == Spec => []IInv
<1>1. TypeOK /\ Rest /\ [Next]_vars => Rest'
  BY ServiceCreatedInv, PublishInv, ServiceDiesInv, StateChangedInv, CreateInv, DestroyStep,
     OnBinderDiedInv, ConnectedTooLateInv, OnServiceConnectedInv, RegisterCallbackInv,
     ReportConnectedInv, OnServiceDisconnectedInv, BinderDiedInv, Unchanged DEF Next, MainStep
<1>2. IInv <=> TypeOK /\ Rest
  BY DEF IInv, Rest
<1>3. IInv /\ [Next]_vars => IInv'
  <2>1. TypeOK /\ Rest /\ [Next]_vars => TypeOK'
    BY TypeStep DEF Rest
  <2>2. IInv' <=> TypeOK' /\ Rest'
    BY DEF IInv, Rest
  <2> QED BY <1>1, <1>2, <2>1, <2>2
<1> QED BY InitInv, <1>3, PTL DEF Spec

\* check(!callbackRegistered) of onServiceConnected, check(callback == null) of
\* connect and callback!! never fail, whatever the order of the reports.
THEOREM AssertionsHold == Spec => []ChecksHold
<1>1. IInv => ChecksHold
  BY DEF IInv
<1> QED BY <1>1, ConnectionInvariant, PTL

\* callbackRegistered and a service that lives mean that the callback is in its
\* list and the state shown is its state.
THEOREM RegistrationIsTrue == Spec => []RegisteredIsTrue
<1>1. IInv => RegisteredIsTrue
  <2> SUFFICES ASSUME IInv, callbackRegistered, pc = "idle", Alive(service)
               PROVE  callbackAt = proc /\ shadowsockState = svcState
    BY DEF RegisteredIsTrue
  <2>1. service # 0
    BY DEF IInv, BindInv, Alive
  <2>2. service = attached /\ service = proc
    BY <2>1 DEF IInv, CallbackInv, Alive
  <2> QED BY <2>2 DEF IInv, CallbackInv
<1> QED BY <1>1, ConnectionInvariant, PTL

\* disconnect leaves no callback behind in the service, unless binderDied was
\* late by a connection.
THEOREM NothingIsLeaked == Spec => []NoLeakedCallback
<1>1. IInv => NoLeakedCallback
  BY DEF IInv, BindInv, CallbackInv, NoLeakedCallback, TypeOK
<1> QED BY <1>1, ConnectionInvariant, PTL

\* A destroyed activity is bound again only by an onBinderDied that was posted
\* before onDestroy.
THEOREM DestroyedIsUnbound == Spec => []DestroyedStaysUnbound
<1>1. IInv => DestroyedStaysUnbound
  BY DEF IInv, DestroyInv, DestroyedStaysUnbound
<1> QED BY <1>1, ConnectionInvariant, PTL
============================================================================
