------------------------ MODULE ServiceRunnerProofs ------------------------
(***************************************************************************)
(* Proofs about ServiceRunner, for any bounds on jobs, stops and starts.   *)
(*                                                                         *)
(* TypeCorrect and StopperAlways hold in every behaviour. The others are   *)
(* about undisturbed ones, in which no start has met a connecting job and  *)
(* no revocation another stop; races records both. IInv says what is true  *)
(* there: CoroutineInv, how the connecting job, the stopping coroutines    *)
(* and the fields that refer to them go together, and ResourceInv, which   *)
(* resources are held and open at each point of the job and the clean-up.  *)
(* Neither is inductive without the other: the clean-up closes what the    *)
(* fields hold, and only the order of the coroutines keeps those complete. *)
(* DormantInv adds what holds while the service is not started. The same   *)
(* invariant carries the refinement at the end: an undisturbed service     *)
(* implements ServiceLifecycle.                                            *)
(***************************************************************************)
EXTENDS ServiceRunner, TLAPS

HeldNone == \A k \in Kinds : held[k] = NoJob

\* The fields while job j has not acquired anything, and when it has it all.
Early(j) ==
    \A k \in Kinds : held[k] = IF k \in {"proxy", "notification"} THEN j ELSE NoJob

Full(j) ==
    \A k \in Kinds : held[k] = j /\ (k # "proxy" => <<k, j>> \in open)

\* Facts about coroutines alone.
CoroutineInv ==
    /\ revoke = "idle"
    /\ \A j \in Jobs : jobPc[j] # "idle" =>
        connectingJob = j /\ state \in {"Stopped", "Stopping"}
    /\ \A j \in Jobs : cancelled[j] => jobPc[j] # "idle" /\ state = "Stopping"
    /\ \A s \in Stops : stopPc[s] # "idle" => state = "Stopping"
    /\ \A s, t \in Stops : stopPc[s] # "idle" /\ stopPc[t] # "idle" => s = t
    /\ \A s \in Stops : stopPc[s] = "cleaning" => NoJobRuns
    /\ \A s \in Stops : stopPc[s] = "joining" =>
        \A j \in Jobs : jobPc[j] # "idle" => cancelled[j] /\ joined[s] = j

\* Facts about fields and open resources.
ResourceInv ==
    /\ \A s \in Stops : closing[s] # {} => stopPc[s] = "cleaning"
    /\ \A s \in Stops : stopPc[s] = "cleaning" => HeldNone /\ ~receiver
    /\ \A j \in Jobs : jobPc[j] \in {"queued", "preInit", "acl"} =>
        Early(j) /\ <<"notification", j>> \in open
    /\ \A j \in Jobs : jobPc[j] = "sendFd" => Full(j)
    /\ \A r \in open : held[r[1]] = r[2] \/ \E s \in Stops : r \in closing[s]
    /\ state = "Connected" => \E j \in Jobs : Full(j)
    /\ state = "Stopped" /\ NoJobRuns => HeldNone /\ ~receiver
    /\ alive /\ (state = "Connected" \/ (state = "Stopped" /\ ~NoJobRuns)) => receiver

IInv ==
    /\ TypeOK
    /\ state \in {"Stopped", "Connected", "Stopping"}
    /\ StoppingHasStopper
    /\ Undisturbed => CoroutineInv /\ ResourceInv

-----------------------------------------------------------------------------
(* Types *)

FieldMaps == [Kinds -> Jobs \cup {NoJob}]
Resources == SUBSET (Kinds \X Jobs)

\* What stopRunner may change keeps its type.
StopTypes ==
    /\ state \in States /\ held \in FieldMaps /\ receiver \in BOOLEAN
    /\ open \in Resources /\ cancelled \in [Jobs -> BOOLEAN]
    /\ stopPc \in [Stops -> {"idle", "joining", "cleaning"}]
    /\ restart \in [Stops -> BOOLEAN]
    /\ joined \in [Stops -> Jobs \cup {NoJob}]
    /\ closing \in [Stops -> Resources]

LEMMA OwnedType == \A h : Owned(h) \in Resources
  BY DEF Owned, Resources

LEMMA CleanUpType ==
  ASSUME TypeOK, NEW s \in Stops, NEW h \in FieldMaps, NEW o \in Resources, CleanUp(s, h, o)
  PROVE  /\ stopPc' \in [Stops -> {"idle", "joining", "cleaning"}]
         /\ closing' \in [Stops -> Resources]
         /\ open' \in Resources /\ held' \in FieldMaps /\ receiver' \in BOOLEAN
<1>1. {r \in Owned(h) : r[1] \in AsyncKinds} \in Resources
  BY OwnedType DEF Resources
<1>2. open' \in Resources
  BY DEF CleanUp, Resources
<1>3. stopPc' \in [Stops -> {"idle", "joining", "cleaning"}] /\ closing' \in [Stops -> Resources]
  BY <1>1 DEF TypeOK, CleanUp, Resources
<1>4. held' \in FieldMaps
  BY DEF CleanUp, FieldMaps
<1>5. receiver' \in BOOLEAN
  BY DEF CleanUp, FieldMaps
<1> QED BY <1>2, <1>3, <1>4, <1>5

LEMMA LaunchStopType ==
  ASSUME TypeOK, NEW caller, NEW again \in BOOLEAN, NEW h \in FieldMaps, NEW o \in Resources,
         LaunchStop(caller, again, h, o), state' \in States
  PROVE  StopTypes'
<1>1. PICK s \in Stops : StopCoroutine(s, caller, again, h, o)
  BY DEF LaunchStop
<1>2. CASE CleanUp(s, h, o) /\ UNCHANGED <<joined, cancelled>>
  BY <1>1, <1>2, CleanUpType DEF TypeOK, StopTypes, Resources, StopCoroutine
<1>3. CASE Running(connectingJob) /\ connectingJob # caller
  <2>1. connectingJob \in Jobs
    BY <1>3 DEF TypeOK, Running
  <2>2. /\ stopPc' = [stopPc EXCEPT ![s] = "joining"]
        /\ joined' = [joined EXCEPT ![s] = connectingJob]
        /\ cancelled' = [cancelled EXCEPT ![connectingJob] = TRUE]
        /\ restart' = [restart EXCEPT ![s] = again]
        /\ held' = h /\ open' = o /\ UNCHANGED <<closing, receiver>>
    BY <1>1, <1>3 DEF StopCoroutine
  <2> QED BY <2>1, <2>2 DEF TypeOK, StopTypes, Resources, FieldMaps
<1> QED BY <1>1, <1>2, <1>3 DEF StopCoroutine

LEMMA StopRunnerType ==
  ASSUME TypeOK, NEW caller, NEW again \in BOOLEAN, NEW h \in FieldMaps, NEW o \in Resources,
         StopRunner(caller, again, h, o)
  PROVE  StopTypes'
<1>1. CASE state = "Stopping"
  BY <1>1 DEF StopRunner, TypeOK, StopTypes, FieldMaps, Resources, stopVars
<1>2. CASE state # "Stopping"
  BY <1>2, LaunchStopType DEF StopRunner, States
<1> QED BY <1>1, <1>2

LEMMA StopHereType ==
  ASSUME TypeOK, NEW again \in BOOLEAN, StopRunner(NoJob, again, held, open)
  PROVE  StopTypes'
<1>1. held \in FieldMaps /\ open \in Resources
  BY DEF TypeOK, FieldMaps, Resources
<1> QED BY <1>1, StopRunnerType

LEMMA AcquisitionKinds == \A i \in Steps : Acquisition[i] \in Kinds \ {"proxy", "notification"}
<1> SUFFICES ASSUME NEW i \in Steps PROVE Acquisition[i] \in Kinds \ {"proxy", "notification"}
  OBVIOUS
<1>1. i = 1 \/ i = 2 \/ i = 3 \/ i = 4 \/ i = 5
  BY DEF Steps
<1> QED BY <1>1 DEF Acquisition, Kinds, SyncKinds, AsyncKinds, Listeners

LEMMA AfterType ==
  ASSUME TypeOK, NEW j \in Jobs, NEW n \in 0..5
  PROVE  HeldAfter(j, n) \in FieldMaps /\ OpenAfter(j, n) \in Resources
<1>1. AcquiredKinds(n) \subseteq Kinds
  BY AcquisitionKinds DEF AcquiredKinds
<1>2. HeldAfter(j, n) \in FieldMaps
  BY DEF HeldAfter, FieldMaps, TypeOK
<1>3. OpenAfter(j, n) \in Resources
  BY <1>1 DEF OpenAfter, Resources, TypeOK
<1> QED BY <1>2, <1>3

LEMMA DeliveredType == TypeOK /\ Delivered => startsPending' \in Nat /\ UNCHANGED <<alive, started>>
  BY DEF TypeOK, Delivered

LEMMA TypeStep == TypeOK /\ [Next]_vars => TypeOK'
<1> SUFFICES ASSUME TypeOK, [Next]_vars PROVE TypeOK'
  OBVIOUS
<1> USE DEF serviceVars, dataVars, jobVars, stopVars
<1> DEFINE Rest ==
        /\ alive \in BOOLEAN /\ started \in BOOLEAN /\ startsPending \in Nat
        /\ connectingJob \in Jobs \cup {NoJob}
        /\ jobPc \in [Jobs -> {"idle", "queued", "preInit", "acl", "sendFd"}]
        /\ fatal \in SUBSET Jobs
        /\ revoke \in {"idle", "checked", "changed"}
        /\ races \in SUBSET Races
<1>0. (StopTypes /\ Rest)' => TypeOK'
  BY DEF TypeOK, StopTypes, FieldMaps, Resources
<1>a. Rest
  BY DEF TypeOK
<1>1. CASE StartService
  BY <1>1 DEF StartService, TypeOK
<1>2. CASE OnStartUnprepared
  BY <1>0, <1>a, <1>2, StopHereType, DeliveredType DEF OnStartUnprepared
<1>3. CASE OnStartIgnored
  BY <1>3 DEF OnStartIgnored, Delivered, TypeOK
<1>4. ASSUME NEW j \in Jobs, OnStartNoProfile(j) PROVE TypeOK'
  <2>1. [held EXCEPT !["notification"] = j] \in FieldMaps
    BY DEF TypeOK, FieldMaps
  <2>2. open \cup {<<"notification", j>>} \in Resources
    BY DEF TypeOK, Resources, Kinds, SyncKinds
  <2>3. StopTypes'
    BY <1>4, <2>1, <2>2, StopRunnerType DEF OnStartNoProfile
  <2> QED BY <1>0, <1>4, <1>a, <2>3 DEF OnStartNoProfile, Delivered, RacesOfStart
<1>5. ASSUME NEW j \in Jobs, OnStartCommand(j) PROVE TypeOK'
  <2>1. open \cup {<<"notification", j>>} \in SUBSET (Kinds \X Jobs)
    BY DEF TypeOK, Kinds, SyncKinds
  <2>2. races' \in SUBSET Races
    BY <1>5 DEF OnStartCommand, RacesOfStart, TypeOK
  <2>3. held' \in [Kinds -> Jobs \cup {NoJob}]
    BY <1>5 DEF OnStartCommand, TypeOK
  <2> QED BY <1>5, <2>1, <2>2, <2>3, DeliveredType DEF OnStartCommand, TypeOK
<1>6. ASSUME NEW j \in Jobs, JobStep(j) PROVE TypeOK'
  <2>1. CASE JobBegin(j) \/ JobFlatten(j) \/ JobConnected(j) \/ JobCancelled(j)
    <3>1. /\ jobPc' \in [Jobs -> {"idle", "queued", "preInit", "acl", "sendFd"}]
          /\ cancelled' \in [Jobs -> BOOLEAN] /\ connectingJob' \in Jobs \cup {NoJob}
          /\ state' \in States
      BY <2>1 DEF JobBegin, JobFlatten, JobConnected, JobCancelled, TypeOK, States
    <3> QED BY <2>1, <3>1 DEF JobBegin, JobFlatten, JobConnected, JobCancelled, TypeOK
  <2>2. CASE JobStartProcesses(j)
    BY <2>2, AfterType DEF JobStartProcesses, TypeOK, FieldMaps, Resources
  <2>3. ASSUME NEW h \in FieldMaps, NEW o \in Resources, JobThrows(j, h, o) PROVE TypeOK'
    BY <1>0, <1>a, <2>3, StopRunnerType DEF JobThrows
  <2>4. CASE JobStartFails(j)
    BY <2>3, <2>4, AfterType DEF JobStartFails
  <2>5. CASE JobSendFdFails(j)
    BY <2>3, <2>5 DEF JobSendFdFails, TypeOK, FieldMaps, Resources
  <2> QED BY <1>6, <2>1, <2>2, <2>4, <2>5 DEF JobStep
<1>7. ASSUME NEW j \in Jobs, PoolFatal(j) PROVE TypeOK'
  BY <1>7 DEF PoolFatal, TypeOK
<1>8. ASSUME NEW j \in Jobs, FatalDelivered(j) PROVE TypeOK'
  BY <1>0, <1>8, <1>a, StopHereType DEF FatalDelivered
<1>9. ASSUME NEW s \in Stops, StopStep(s) PROVE TypeOK'
  <2>1. CASE StopJoined(s)
    <3>1. held \in FieldMaps /\ open \in Resources
      BY DEF TypeOK, FieldMaps, Resources
    <3> QED BY <2>1, <3>1, CleanUpType DEF StopJoined, TypeOK, FieldMaps, Resources
  <2>2. CASE StopFinish(s)
    <3>1. startsPending' \in Nat /\ started' \in BOOLEAN
      <4>1. CASE restart[s]
        BY <2>2, <4>1 DEF StopFinish, TypeOK
      <4>2. CASE ~restart[s]
        BY <2>2, <4>2 DEF StopFinish, TypeOK
      <4> QED BY <4>1, <4>2
    <3> QED BY <2>2, <3>1 DEF StopFinish, TypeOK, States
  <2>3. ASSUME NEW kinds, ClosePart(s, kinds) PROVE TypeOK'
    BY <2>3 DEF ClosePart, TypeOK
  <2> QED BY <1>9, <2>1, <2>2, <2>3 DEF StopStep, PoolClosed, ListenersClosed
<1>10. CASE CloseReceived
  BY <1>0, <1>10, <1>a, StopHereType DEF CloseReceived
<1>11. CASE ReloadReceived
  <2>1. CASE state = "Stopped"
    BY <1>11, <2>1 DEF ReloadReceived, TypeOK
  <2>2. CASE state # "Stopped"
    BY <1>0, <1>11, <1>a, <2>2, StopHereType DEF ReloadReceived
  <2> QED BY <2>1, <2>2
<1>12. CASE OnRevoke
  BY <1>0, <1>12, <1>a, StopHereType DEF OnRevoke
<1>13. CASE RevokeCheck \/ RevokeChange
  BY <1>13 DEF RevokeCheck, RevokeChange, TypeOK, States, Races
<1>14. CASE RevokeLaunch
  <2>1. held \in FieldMaps /\ open \in Resources /\ state' \in States
    BY <1>14 DEF TypeOK, FieldMaps, Resources, RevokeLaunch
  <2>2. StopTypes'
    BY <1>14, <2>1, LaunchStopType DEF RevokeLaunch
  <2> QED BY <1>0, <1>14, <1>a, <2>2 DEF RevokeLaunch
<1>15. CASE OnDestroy
  BY <1>15 DEF OnDestroy, TypeOK
<1>16. CASE UNCHANGED vars
  BY <1>16 DEF vars, TypeOK
<1> QED
  BY <1>1, <1>2, <1>3, <1>4, <1>5, <1>6, <1>7, <1>8, <1>9, <1>10, <1>11, <1>12, <1>13, <1>14,
     <1>15, <1>16 DEF Next, Deliver, RevokeStep

\* The fields of BaseService.Data, the coroutines and the resources always
\* have the types the code gives them.
THEOREM TypeCorrect == Spec => []TypeOK
<1>1. Init => TypeOK
  <2> SUFFICES ASSUME Init PROVE TypeOK
    OBVIOUS
  <2>1. StopTypes
    BY DEF Init, StopTypes, States, FieldMaps, Resources
  <2> QED BY <2>1 DEF Init, TypeOK, StopTypes, FieldMaps, Resources
<1> QED BY <1>1, TypeStep, PTL DEF Spec

-----------------------------------------------------------------------------
(* A stopping service has a stopper *)

LEMMA LaunchStopRuns ==
  ASSUME TypeOK, NEW caller, NEW again, NEW h, NEW o, LaunchStop(caller, again, h, o)
  PROVE  ~NoStopRuns'
<1>1. PICK s \in Stops : StopCoroutine(s, caller, again, h, o)
  BY DEF LaunchStop
<1>2. stopPc'[s] \in {"joining", "cleaning"}
  BY <1>1 DEF StopCoroutine, CleanUp, TypeOK
<1> QED BY <1>2 DEF NoStopRuns

LEMMA StopRunnerStopper ==
  ASSUME TypeOK, StoppingHasStopper, NEW caller, NEW again, NEW h, NEW o,
         StopRunner(caller, again, h, o), revoke' = revoke
  PROVE  StoppingHasStopper'
<1>1. CASE state = "Stopping"
  BY <1>1 DEF StopRunner, StoppingHasStopper, NoStopRuns, stopVars
<1>2. CASE state # "Stopping"
  BY <1>2, LaunchStopRuns DEF StopRunner, StoppingHasStopper
<1> QED BY <1>1, <1>2

LEMMA StopperStep == TypeOK /\ StoppingHasStopper /\ [Next]_vars => StoppingHasStopper'
<1> SUFFICES ASSUME TypeOK, StoppingHasStopper, [Next]_vars PROVE StoppingHasStopper'
  OBVIOUS
<1> USE DEF serviceVars, dataVars, jobVars, stopVars
<1>0. UNCHANGED <<state, stopPc, revoke>> => StoppingHasStopper'
  BY DEF StoppingHasStopper, NoStopRuns
<1>1. CASE StartService \/ OnStartIgnored \/ OnDestroy \/ UNCHANGED vars
  BY <1>0, <1>1 DEF StartService, OnStartIgnored, OnDestroy, vars
<1>2. CASE OnStartUnprepared \/ CloseReceived \/ OnRevoke
  BY <1>2, StopRunnerStopper DEF OnStartUnprepared, CloseReceived, OnRevoke
<1>3. ASSUME NEW j \in Jobs, OnStartNoProfile(j) \/ OnStartCommand(j) PROVE StoppingHasStopper'
  BY <1>0, <1>3, StopRunnerStopper DEF OnStartNoProfile, OnStartCommand
<1>4. ASSUME NEW j \in Jobs, JobStep(j) PROVE StoppingHasStopper'
  <2>1. CASE JobBegin(j) \/ JobFlatten(j) \/ JobStartProcesses(j) \/ JobCancelled(j)
    BY <1>0, <2>1 DEF JobBegin, JobFlatten, JobStartProcesses, JobCancelled
  <2>2. CASE JobConnected(j)
    BY <2>2 DEF JobConnected, StoppingHasStopper
  <2>3. ASSUME NEW h, NEW o, JobThrows(j, h, o) PROVE StoppingHasStopper'
    BY <2>3, StopRunnerStopper DEF JobThrows
  <2>4. CASE JobStartFails(j) \/ JobSendFdFails(j)
    BY <2>3, <2>4 DEF JobStartFails, JobSendFdFails
  <2> QED BY <1>4, <2>1, <2>2, <2>4 DEF JobStep
<1>5. ASSUME NEW j \in Jobs, PoolFatal(j) \/ FatalDelivered(j) PROVE StoppingHasStopper'
  BY <1>0, <1>5, StopRunnerStopper DEF PoolFatal, FatalDelivered
<1>6. ASSUME NEW s \in Stops, StopStep(s) PROVE StoppingHasStopper'
  <2>1. CASE StopJoined(s)
    <3>1. stopPc'[s] = "cleaning"
      BY <2>1 DEF StopJoined, CleanUp, TypeOK
    <3> QED BY <3>1 DEF StoppingHasStopper, NoStopRuns
  <2>2. CASE StopFinish(s)
    BY <2>2 DEF StopFinish, StoppingHasStopper
  <2>3. CASE PoolClosed(s) \/ ListenersClosed(s)
    BY <1>0, <2>3 DEF PoolClosed, ListenersClosed, ClosePart
  <2> QED BY <1>6, <2>1, <2>2, <2>3 DEF StopStep
<1>7. CASE ReloadReceived
  BY <1>0, <1>7, StopRunnerStopper DEF ReloadReceived
<1>8. CASE RevokeCheck \/ RevokeChange
  BY <1>8 DEF RevokeCheck, RevokeChange, StoppingHasStopper, NoStopRuns
<1>9. CASE RevokeLaunch
  BY <1>9, LaunchStopRuns DEF RevokeLaunch, StoppingHasStopper
<1> QED
  BY <1>1, <1>2, <1>3, <1>4, <1>5, <1>6, <1>7, <1>8, <1>9 DEF Next, Deliver, RevokeStep

\* Under every schedule a service that is Stopping has a coroutine, or the
\* binder thread about to launch one, that will move it on.
THEOREM StopperAlways == Spec => []StoppingHasStopper
<1>1. Init => StoppingHasStopper
  BY DEF Init, StoppingHasStopper
<1> QED BY <1>1, TypeCorrect, StopperStep, PTL DEF Spec

-----------------------------------------------------------------------------
(* Sessions that do not overlap *)

\* An uncancelled job and a stop coroutine never meet.
LEMMA RunningJobIsAlone ==
  ASSUME IInv, Undisturbed, NEW j \in Jobs, jobPc[j] # "idle", ~cancelled[j]
  PROVE  state = "Stopped" /\ NoStopRuns
<1>1. NoStopRuns
  <2> SUFFICES ASSUME NEW s \in Stops, stopPc[s] # "idle" PROVE FALSE
    BY DEF NoStopRuns
  <2>1. stopPc[s] \in {"joining", "cleaning"}
    BY DEF IInv, TypeOK
  <2> QED BY <2>1 DEF IInv, CoroutineInv, NoJobRuns
<1> QED BY <1>1 DEF IInv, CoroutineInv, StoppingHasStopper

\* What stopRunner does to the coroutines and the fields when sessions do not
\* overlap, whoever calls it.
LEMMA StopRunnerSerial ==
  ASSUME IInv, Undisturbed,
         NEW caller \in Jobs \cup {NoJob}, NEW again \in BOOLEAN,
         NEW h \in FieldMaps, NEW o \in Resources,
         StopRunner(caller, again, h, o),
         \/ caller = NoJob /\ jobPc' = jobPc /\ connectingJob' = connectingJob
         \/ /\ caller \in Jobs /\ jobPc[caller] # "idle" /\ ~cancelled[caller]
            /\ jobPc' = [jobPc EXCEPT ![caller] = "idle"] /\ connectingJob' = NoJob,
         revoke' = revoke, alive' = alive,
         \A r \in o : h[r[1]] = r[2] \/ \E s \in Stops : r \in closing[s],
         (h = held /\ o = open) \/ caller \in Jobs \/ (state = "Stopped" /\ NoJobRuns)
  PROVE  CoroutineInv' /\ ResourceInv' /\ state' = "Stopping"
<1>1. CASE state = "Stopping"
  <2>1. caller = NoJob
    BY <1>1, RunningJobIsAlone, NoJobAssumption
  <2>2. UNCHANGED <<state, held, open, receiver, cancelled, stopVars, jobPc, connectingJob>>
    BY <1>1, <2>1, NoJobAssumption DEF StopRunner
  <2> QED
    BY <1>1, <2>2 DEF IInv, CoroutineInv, ResourceInv, stopVars, NoJobRuns, HeldNone, Early, Full
<1>2. CASE state # "Stopping"
  <2>1. PICK s \in Stops : StopCoroutine(s, caller, again, h, o)
    BY <1>2 DEF StopRunner, LaunchStop
  <2>2. state' = "Stopping"
    BY <1>2 DEF StopRunner
  <2>3. NoStopRuns /\ (\A t \in Stops : closing[t] = {}) /\ (\A j \in Jobs : ~cancelled[j])
    BY <1>2 DEF IInv, CoroutineInv, ResourceInv, NoStopRuns
  <2>4. CASE Running(connectingJob) /\ connectingJob # caller
    <3>1. connectingJob \in Jobs /\ jobPc[connectingJob] # "idle"
      BY <2>4 DEF Running, IInv, TypeOK
    <3>2. caller = NoJob
      BY <2>4, NoJobAssumption DEF IInv, CoroutineInv
    <3>3. h = held /\ o = open /\ jobPc' = jobPc /\ connectingJob' = connectingJob
      BY <3>1, <3>2, NoJobAssumption DEF NoJobRuns
    <3>4. /\ stopPc' = [stopPc EXCEPT ![s] = "joining"]
          /\ joined' = [joined EXCEPT ![s] = connectingJob]
          /\ cancelled' = [cancelled EXCEPT ![connectingJob] = TRUE]
          /\ held' = held /\ open' = open /\ UNCHANGED <<closing, receiver>>
      BY <2>1, <2>4, <3>3 DEF StopCoroutine
    <3>5. CoroutineInv'
      BY <2>2, <2>3, <3>1, <3>3, <3>4 DEF IInv, CoroutineInv, TypeOK, NoStopRuns, NoJobRuns
    <3>6. ResourceInv'
      BY <2>2, <2>3, <3>1, <3>3, <3>4
      DEF IInv, ResourceInv, TypeOK, NoStopRuns, NoJobRuns, HeldNone, Early, Full
    <3> QED BY <2>2, <3>5, <3>6
  <2>5. CASE ~Running(connectingJob) \/ connectingJob = caller
    <3>1. CleanUp(s, h, o) /\ UNCHANGED <<joined, cancelled>>
      BY <2>1, <2>5 DEF StopCoroutine
    <3>2. \A j \in Jobs : jobPc'[j] = "idle"
      BY <2>5, NoJobAssumption DEF IInv, CoroutineInv, TypeOK, Running
    <3>3. /\ stopPc' = [stopPc EXCEPT ![s] = "cleaning"]
          /\ closing' = [closing EXCEPT ![s] = {r \in Owned(h) : r[1] \in AsyncKinds}]
          /\ open' = o \ {r \in Owned(h) : r[1] \in SyncKinds}
          /\ held' = [k \in Kinds |-> NoJob]
          /\ receiver' = FALSE
      BY <3>1 DEF CleanUp
    <3>4. CoroutineInv'
      BY <2>2, <2>3, <3>1, <3>2, <3>3 DEF IInv, CoroutineInv, TypeOK, NoStopRuns, NoJobRuns
    <3>5. \A r \in open' : r \in closing'[s]
      <4> SUFFICES ASSUME NEW r \in open' PROVE r \in closing'[s]
        OBVIOUS
      <4>1. r \in o /\ r \in Kinds \X Jobs /\ h[r[1]] = r[2]
        BY <2>3, <3>3 DEF Resources
      <4>2. r \in Owned(h) /\ r[1] \notin SyncKinds
        BY <3>3, <4>1 DEF Owned
      <4>3. r[1] \in AsyncKinds
        BY <4>1, <4>2 DEF Kinds
      <4> QED BY <3>3, <4>2, <4>3 DEF IInv, TypeOK
    <3>6. \A t \in Stops : closing'[t] # {} => stopPc'[t] = "cleaning"
      BY <2>3, <3>3 DEF IInv, TypeOK
    <3>7. HeldNone'
      BY <3>3 DEF HeldNone
    <3>8. ResourceInv'
      BY <2>2, <3>2, <3>3, <3>5, <3>6, <3>7 DEF ResourceInv
    <3> QED BY <2>2, <3>4, <3>8
  <2> QED BY <2>4, <2>5
<1> QED BY <1>1, <1>2

LEMMA StopHereSerial ==
  ASSUME IInv, Undisturbed, NEW again \in BOOLEAN, StopRunner(NoJob, again, held, open),
         jobPc' = jobPc, connectingJob' = connectingJob, revoke' = revoke, alive' = alive
  PROVE  CoroutineInv' /\ ResourceInv' /\ state' = "Stopping"
<1>1. held \in FieldMaps /\ open \in Resources
  BY DEF IInv, TypeOK, FieldMaps, Resources
<1>2. \A r \in open : held[r[1]] = r[2] \/ \E s \in Stops : r \in closing[s]
  BY DEF IInv, ResourceInv
<1> QED BY <1>1, <1>2, StopRunnerSerial

LEMMA RacesGrow == Next => races \subseteq races'
<1> SUFFICES ASSUME Next PROVE races \subseteq races'
  OBVIOUS
<1>1. ASSUME NEW j \in Jobs, JobStep(j) PROVE races' = races
  BY <1>1 DEF JobStep, JobBegin, JobFlatten, JobStartProcesses, JobStartFails, JobConnected,
     JobSendFdFails, JobCancelled, JobThrows
<1>2. ASSUME NEW s \in Stops, StopStep(s) PROVE races' = races
  BY <1>2 DEF StopStep, StopJoined, StopFinish, PoolClosed, ListenersClosed, ClosePart
<1>3. ASSUME NEW j \in Jobs, PoolFatal(j) \/ FatalDelivered(j) PROVE races' = races
  BY <1>3 DEF PoolFatal, FatalDelivered
<1>4. CASE Deliver
  BY <1>4 DEF Deliver, OnStartUnprepared, OnStartIgnored, OnStartNoProfile, OnStartCommand
<1>5. CASE StartService \/ CloseReceived \/ ReloadReceived \/ OnRevoke \/ RevokeCheck
           \/ RevokeStep \/ OnDestroy
  BY <1>5 DEF StartService, CloseReceived, ReloadReceived, OnRevoke, RevokeCheck, RevokeStep,
     RevokeChange, RevokeLaunch, OnDestroy
<1> QED BY <1>1, <1>2, <1>3, <1>4, <1>5 DEF Next

\* Steps that leave the fields, the coroutines and the state alone.
LEMMA SerialFrame ==
  ASSUME IInv, Undisturbed, UNCHANGED <<dataVars, jobVars, stopVars, revoke, alive>>
  PROVE  CoroutineInv' /\ ResourceInv'
<1> USE DEF dataVars, jobVars, stopVars
<1>1. /\ NoJobRuns' = NoJobRuns /\ HeldNone' = HeldNone
      /\ \A j \in Jobs : Early(j)' = Early(j) /\ Full(j)' = Full(j)
  BY DEF NoJobRuns, HeldNone, Early, Full
<1>2. CoroutineInv'
  BY <1>1 DEF IInv, CoroutineInv
<1>3. ResourceInv'
  BY <1>1 DEF IInv, ResourceInv
<1> QED BY <1>2, <1>3

LEMMA StartSerial ==
  ASSUME IInv, Undisturbed, Undisturbed', NEW j \in Jobs, OnStartCommand(j)
  PROVE  CoroutineInv' /\ ResourceInv'
<1>1. "overlap" \notin RacesOfStart
  BY DEF OnStartCommand, Undisturbed
<1>2. NoJobRuns
  BY <1>1 DEF RacesOfStart, Races
<1>3. NoStopRuns /\ (\A t \in Stops : closing[t] = {}) /\ (\A i \in Jobs : ~cancelled[i])
  BY DEF OnStartCommand, IInv, CoroutineInv, ResourceInv, NoStopRuns
<1>4. HeldNone /\ open = {}
  BY <1>2, <1>3, NoJobAssumption DEF OnStartCommand, IInv, ResourceInv, HeldNone, TypeOK
<1>5. jobPc' = [i \in Jobs |-> IF i = j THEN "queued" ELSE "idle"]
  BY <1>2 DEF OnStartCommand, IInv, TypeOK, NoJobRuns
<1>6. CoroutineInv'
  BY <1>3, <1>5 DEF OnStartCommand, IInv, CoroutineInv, stopVars, NoStopRuns
<1>7. held' = [k \in Kinds |-> IF k \in {"proxy", "notification"} THEN j ELSE NoJob]
  BY <1>4 DEF OnStartCommand, HeldNone, IInv, TypeOK, Kinds, SyncKinds, AsyncKinds, Listeners
<1>8. open' = {<<"notification", j>>}
  BY <1>4 DEF OnStartCommand
<1>9. ResourceInv'
  <2>1. Early(j)'
    BY <1>7 DEF Early
  <2>2. \A r \in open' : held'[r[1]] = r[2]
    BY <1>7, <1>8 DEF Kinds, SyncKinds
  <2> QED BY <1>3, <1>5, <2>1, <2>2 DEF OnStartCommand, ResourceInv, NoStopRuns, NoJobRuns, stopVars
<1> QED BY <1>6, <1>9

LEMMA NoProfileSerial ==
  ASSUME IInv, Undisturbed, Undisturbed', NEW j \in Jobs, OnStartNoProfile(j)
  PROVE  CoroutineInv' /\ ResourceInv' /\ state' = "Stopping"
<1> DEFINE h == [held EXCEPT !["notification"] = j]
           o == open \cup {<<"notification", j>>}
<1>1. "overlap" \notin RacesOfStart
  BY DEF OnStartNoProfile, Undisturbed
<1>2. NoJobRuns /\ state = "Stopped"
  BY <1>1 DEF RacesOfStart, Races, OnStartNoProfile
<1>3. \A t \in Stops : closing[t] = {}
  BY <1>2 DEF IInv, CoroutineInv, ResourceInv
<1>4. HeldNone /\ open = {}
  BY <1>2, <1>3, NoJobAssumption DEF IInv, ResourceInv, HeldNone, TypeOK
<1>5. h \in FieldMaps
  BY DEF IInv, TypeOK, FieldMaps
<1>6. o \in Resources
  BY <1>4 DEF Resources, Kinds, SyncKinds
<1>7. \A r \in o : h[r[1]] = r[2]
  BY <1>4 DEF IInv, TypeOK, Kinds, SyncKinds
<1>8. StopRunner(NoJob, FALSE, h, o)
  BY DEF OnStartNoProfile
<1>9. UNCHANGED <<jobPc, connectingJob, revoke, alive>>
  BY DEF OnStartNoProfile, Delivered
<1> HIDE DEF h, o
<1> QED BY <1>2, <1>5, <1>6, <1>7, <1>8, <1>9, StopRunnerSerial

\* The acquisitions of a job that had acquired nothing.
LEMMA AcquiredAll == AcquiredKinds(5) = Kinds \ {"proxy", "notification"}
<1>1. AcquiredKinds(5) = {Acquisition[i] : i \in Steps}
  BY DEF AcquiredKinds, Steps
<1>2. \A k \in Kinds \ {"proxy", "notification"} : \E i \in Steps : Acquisition[i] = k
  <2> SUFFICES ASSUME NEW k \in Kinds \ {"proxy", "notification"}
               PROVE  \E i \in Steps : Acquisition[i] = k
    OBVIOUS
  <2>1. 1 \in Steps /\ 2 \in Steps /\ 3 \in Steps /\ 4 \in Steps /\ 5 \in Steps
    BY DEF Steps
  <2>2. k \in {Acquisition[1], Acquisition[2], Acquisition[3], Acquisition[4], Acquisition[5]}
    BY DEF Acquisition, Kinds, SyncKinds, AsyncKinds, Listeners
  <2> QED BY <2>1, <2>2
<1> QED BY <1>1, <1>2, AcquisitionKinds

LEMMA JobFailSerial ==
  ASSUME IInv, Undisturbed, NEW j \in Jobs, JobStartFails(j) \/ JobSendFdFails(j)
  PROVE  CoroutineInv' /\ ResourceInv' /\ state' = "Stopping"
<1>1. jobPc[j] # "idle" /\ ~cancelled[j]
  BY DEF JobStartFails, JobSendFdFails
<1>2. NoStopRuns /\ \A t \in Stops : closing[t] = {}
  BY <1>1, RunningJobIsAlone DEF IInv, ResourceInv, NoStopRuns
<1>3. ASSUME NEW h \in FieldMaps, NEW o \in Resources, JobThrows(j, h, o),
             \A r \in o : h[r[1]] = r[2]
      PROVE  CoroutineInv' /\ ResourceInv' /\ state' = "Stopping"
  <2>1. /\ StopRunner(j, FALSE, h, o) /\ revoke' = revoke /\ alive' = alive
        /\ jobPc' = [jobPc EXCEPT ![j] = "idle"] /\ connectingJob' = NoJob
    BY <1>3 DEF JobThrows, serviceVars
  <2>2. \A r \in o : h[r[1]] = r[2] \/ \E s \in Stops : r \in closing[s]
    BY <1>3
  <2>3. j \in Jobs \cup {NoJob} /\ FALSE \in BOOLEAN
    OBVIOUS
  <2>4. j \in Jobs /\ jobPc[j] # "idle" /\ ~cancelled[j]
    BY <1>1
  <2> QED BY ONLY IInv, Undisturbed, h \in FieldMaps, o \in Resources, <2>1, <2>2, <2>3, <2>4, StopRunnerSerial
<1>4. \A r \in open : r \in Kinds \X Jobs /\ held[r[1]] = r[2]
  BY <1>2 DEF IInv, ResourceInv, TypeOK
<1>5. CASE JobSendFdFails(j)
  BY <1>3, <1>4, <1>5 DEF JobSendFdFails, IInv, TypeOK, FieldMaps, Resources
<1>6. CASE JobStartFails(j)
  <2>1. PICK n \in 0..5 : JobThrows(j, HeldAfter(j, n), OpenAfter(j, n))
    BY <1>6 DEF JobStartFails
  <2>2. Early(j)
    BY <1>6 DEF JobStartFails, IInv, ResourceInv
  <2>3. AcquiredKinds(n) \subseteq Kinds \ {"proxy", "notification"}
    BY AcquisitionKinds DEF AcquiredKinds
  <2>4. \A r \in OpenAfter(j, n) : HeldAfter(j, n)[r[1]] = r[2]
    <3> SUFFICES ASSUME NEW r \in OpenAfter(j, n) PROVE HeldAfter(j, n)[r[1]] = r[2]
      OBVIOUS
    <3>1. CASE r \in open
      <4>1. held[r[1]] = r[2] /\ r[1] \in Kinds /\ r[2] \in Jobs
        BY <1>4, <3>1
      <4>2. r[1] \in {"proxy", "notification"}
        BY <2>2, <4>1, NoJobAssumption DEF Early
      <4> QED BY <2>3, <4>1, <4>2 DEF HeldAfter
    <3>2. CASE r \notin open
      BY <2>3, <3>2 DEF HeldAfter, OpenAfter
    <3> QED BY <3>1, <3>2
  <2> QED BY <1>3, <2>1, <2>4, AfterType DEF IInv
<1> QED BY <1>5, <1>6

LEMMA JobSerial ==
  ASSUME IInv, Undisturbed, NEW j \in Jobs, JobStep(j)
  PROVE  CoroutineInv' /\ ResourceInv' /\ state' \in {"Stopped", "Connected", "Stopping"}
<1> USE DEF serviceVars, dataVars, stopVars
<1>0. state \in {"Stopped", "Connected", "Stopping"}
  BY SMTT(30) DEF IInv
<1>1. ASSUME jobPc[j] # "idle", ~cancelled[j]
      PROVE  /\ state = "Stopped" /\ NoStopRuns
             /\ \A i \in Jobs : i # j => jobPc[i] = "idle"
             /\ \A i \in Jobs : ~cancelled[i]
             /\ \A t \in Stops : closing[t] = {}
  <2>1. state = "Stopped" /\ NoStopRuns
    BY <1>1, RunningJobIsAlone
  <2> QED BY <1>1, <2>1 DEF IInv, CoroutineInv, ResourceInv, NoStopRuns
<1>2. CASE JobBegin(j) \/ JobFlatten(j)
  <2>1. jobPc[j] \in {"queued", "preInit"} /\ ~cancelled[j] /\ jobPc[j] # "idle"
    BY <1>2 DEF JobBegin, JobFlatten
  <2>2. /\ \E pc \in {"preInit", "acl"} : jobPc' = [jobPc EXCEPT ![j] = pc]
        /\ UNCHANGED <<dataVars, connectingJob, cancelled, stopVars, revoke, alive>>
    BY <1>2 DEF JobBegin, JobFlatten
  <2>3. CoroutineInv'
    BY <1>1, <2>1, <2>2 DEF IInv, CoroutineInv, TypeOK, NoStopRuns, NoJobRuns
  <2>4. ResourceInv'
    <3>1. /\ HeldNone' = HeldNone /\ ~NoJobRuns /\ ~NoJobRuns'
          /\ \A i \in Jobs : Early(i)' = Early(i) /\ Full(i)' = Full(i)
      BY <1>1, <2>1, <2>2 DEF IInv, TypeOK, NoJobRuns, HeldNone, Early, Full
    <3> QED BY <1>1, <2>1, <2>2, <3>1 DEF IInv, ResourceInv, TypeOK, NoStopRuns
  <2> QED BY <1>0, <2>2, <2>3, <2>4
<1>3. CASE JobStartProcesses(j)
  <2>1. jobPc[j] \in {"preInit", "acl"} /\ jobPc[j] # "idle" /\ ~cancelled[j]
    BY <1>3 DEF JobStartProcesses
  <2>2. /\ jobPc' = [jobPc EXCEPT ![j] = "sendFd"]
        /\ UNCHANGED <<state, receiver, connectingJob, cancelled, stopVars, revoke, alive>>
    BY <1>3 DEF JobStartProcesses
  <2>3. CoroutineInv'
    BY <1>1, <2>1, <2>2 DEF IInv, CoroutineInv, TypeOK, NoStopRuns, NoJobRuns
  <2>4. Early(j) /\ \A r \in open : r \in Kinds \X Jobs /\ held[r[1]] = r[2]
    BY <1>1, <2>1 DEF IInv, ResourceInv, TypeOK
  <2>5. held' = [k \in Kinds |-> j]
    BY <1>3, <2>4, AcquiredAll DEF JobStartProcesses, HeldAfter, Early
  <2>6. open' = open \cup {<<k, j>> : k \in Kinds \ {"proxy", "notification"}}
    BY <1>3, AcquiredAll DEF JobStartProcesses, OpenAfter
  <2>7. <<"notification", j>> \in open
    BY <1>1, <2>1 DEF IInv, ResourceInv
  <2>8. Full(j)'
    BY <2>5, <2>6, <2>7 DEF Full
  <2>9. \A r \in open' : held'[r[1]] = r[2]
    BY <2>4, <2>5, <2>6, NoJobAssumption DEF Early
  <2>10. ResourceInv'
    BY <1>1, <2>1, <2>2, <2>8, <2>9 DEF IInv, ResourceInv, TypeOK, NoStopRuns, NoJobRuns
  <2> QED BY <1>0, <2>2, <2>3, <2>10
<1>4. CASE JobConnected(j)
  <2>1. jobPc[j] = "sendFd" /\ jobPc[j] # "idle" /\ ~cancelled[j]
    BY <1>4 DEF JobConnected
  <2>2. /\ jobPc' = [i \in Jobs |-> "idle"] /\ state' = "Connected" /\ connectingJob' = NoJob
        /\ UNCHANGED <<held, open, receiver, cancelled, stopVars, revoke, alive>>
    BY ZenonT(30), <1>1, <1>4, <2>1 DEF JobConnected, IInv, TypeOK
  <2>3. Full(j) /\ \A r \in open : held[r[1]] = r[2]
    BY <1>1, <2>1 DEF IInv, ResourceInv
  <2>4. CoroutineInv'
    BY <1>1, <2>1, <2>2 DEF IInv, CoroutineInv, NoStopRuns, NoJobRuns
  <2>5. ResourceInv'
    <3>1. Full(j)' /\ NoJobRuns' /\ ~NoJobRuns
      BY <2>1, <2>2, <2>3 DEF Full, NoJobRuns
    <3> QED BY <1>1, <2>1, <2>2, <2>3, <3>1 DEF IInv, ResourceInv, NoStopRuns
  <2> QED BY <2>2, <2>4, <2>5
<1>5. CASE JobCancelled(j)
  <2>1. jobPc[j] # "idle" /\ cancelled[j] /\ state = "Stopping"
    BY <1>5 DEF JobCancelled, IInv, CoroutineInv
  <2>2. /\ jobPc' = [jobPc EXCEPT ![j] = "idle"] /\ cancelled' = [cancelled EXCEPT ![j] = FALSE]
        /\ UNCHANGED <<state, held, open, receiver, stopVars, revoke, alive>>
    BY <1>5 DEF JobCancelled
  <2>3. \A i \in Jobs : jobPc'[i] = "idle"
    BY <2>1, <2>2 DEF IInv, CoroutineInv, TypeOK
  <2>4. CoroutineInv'
    BY <2>1, <2>2, <2>3 DEF IInv, CoroutineInv, TypeOK, NoJobRuns
  <2>5. ResourceInv'
    <3>1. HeldNone' = HeldNone
      BY <2>2 DEF HeldNone
    <3> QED BY <2>1, <2>2, <2>3, <3>1 DEF IInv, ResourceInv
  <2> QED BY <2>1, <2>2, <2>4, <2>5
<1> QED BY <1>2, <1>3, <1>4, <1>5, JobFailSerial DEF JobStep

LEMMA StopSerial ==
  ASSUME IInv, Undisturbed, NEW s \in Stops, StopStep(s)
  PROVE  CoroutineInv' /\ ResourceInv' /\ state' \in {"Stopped", "Stopping"}
<1> USE DEF serviceVars, dataVars, jobVars, stopVars
<1>1. CASE StopJoined(s)
  <2>1. stopPc[s] = "joining" /\ state = "Stopping" /\ \A t \in Stops : t # s => stopPc[t] = "idle"
    BY SMTT(30), <1>1 DEF StopJoined, IInv, CoroutineInv
  <2>2. \A t \in Stops : closing[t] = {}
    BY SMTT(30), <2>1 DEF IInv, ResourceInv
  <2>3. NoJobRuns
    BY <1>1, NoJobAssumption DEF StopJoined, Running, IInv, CoroutineInv, NoJobRuns
  <2>4. /\ stopPc' = [stopPc EXCEPT ![s] = "cleaning"]
        /\ closing' = [closing EXCEPT ![s] = {r \in Owned(held) : r[1] \in AsyncKinds}]
        /\ open' = open \ {r \in Owned(held) : r[1] \in SyncKinds}
        /\ held' = [k \in Kinds |-> NoJob]
        /\ receiver' = FALSE
        /\ UNCHANGED <<state, jobVars, revoke, alive>>
    BY <1>1 DEF StopJoined, CleanUp
  <2>5. CoroutineInv'
    BY <2>1, <2>3, <2>4 DEF IInv, CoroutineInv, TypeOK, NoJobRuns
  <2>6. \A r \in open' : r \in closing'[s]
    <3> SUFFICES ASSUME NEW r \in open' PROVE r \in closing'[s]
      OBVIOUS
    <3>1. r \in open /\ r \in Kinds \X Jobs /\ held[r[1]] = r[2]
      BY SMTT(30), <2>2, <2>4 DEF IInv, TypeOK, ResourceInv
    <3>2. r \in Owned(held) /\ r[1] \notin SyncKinds
      BY <2>4, <3>1 DEF Owned
    <3> QED BY <2>4, <3>1, <3>2 DEF Kinds, IInv, TypeOK
  <2>7. HeldNone' /\ \A t \in Stops : closing'[t] # {} => stopPc'[t] = "cleaning"
    BY SMTT(30), <2>2, <2>4 DEF HeldNone, IInv, TypeOK
  <2>8. ResourceInv'
    BY <2>1, <2>3, <2>4, <2>6, <2>7 DEF ResourceInv, NoJobRuns
  <2> QED BY SMTT(30), <2>1, <2>4, <2>5, <2>8
<1>2. CASE StopFinish(s)
  <2>1. /\ stopPc[s] = "cleaning" /\ closing[s] = {} /\ NoJobRuns /\ HeldNone /\ ~receiver
        /\ \A t \in Stops : t # s => stopPc[t] = "idle" /\ closing[t] = {}
    BY <1>2 DEF StopFinish, IInv, CoroutineInv, ResourceInv
  <2>2. /\ stopPc' = [t \in Stops |-> "idle"] /\ state' = "Stopped"
        /\ UNCHANGED <<held, receiver, open, jobVars, closing, revoke, alive>>
    BY <1>2, <2>1 DEF StopFinish, IInv, TypeOK
  <2>3. CoroutineInv'
    BY <2>1, <2>2 DEF IInv, CoroutineInv, NoJobRuns
  <2>4. ResourceInv'
    BY <2>1, <2>2 DEF IInv, ResourceInv, NoJobRuns, HeldNone
  <2> QED BY SMTT(30), <2>2, <2>3, <2>4
<1>3. ASSUME NEW kinds, ClosePart(s, kinds)
      PROVE  CoroutineInv' /\ ResourceInv' /\ state' \in {"Stopped", "Stopping"}
  <2>1. /\ stopPc[s] = "cleaning" /\ state = "Stopping" /\ NoJobRuns /\ HeldNone
        /\ \A t \in Stops : t # s => closing[t] = {}
    BY <1>3 DEF ClosePart, IInv, CoroutineInv, ResourceInv
  <2>2. /\ closing' = [closing EXCEPT ![s] = {r \in @ : r[1] \notin kinds}]
        /\ open' = open \ {r \in closing[s] : r[1] \in kinds}
        /\ UNCHANGED <<state, held, receiver, jobVars, stopPc, joined, revoke, alive>>
    BY SMTT(30), <1>3 DEF ClosePart
  <2>3. CoroutineInv'
    BY <2>2 DEF IInv, CoroutineInv, NoJobRuns
  <2>4. \A r \in open' : held'[r[1]] = r[2] \/ \E t \in Stops : r \in closing'[t]
    BY <2>1, <2>2 DEF IInv, ResourceInv, TypeOK
  <2>5. \A t \in Stops : closing'[t] # {} => stopPc'[t] = "cleaning"
    BY SMTT(30), <2>1, <2>2 DEF IInv, ResourceInv, TypeOK
  <2>6. ResourceInv'
    BY <2>1, <2>2, <2>4, <2>5 DEF IInv, ResourceInv, NoJobRuns, HeldNone
  <2> QED BY SMTT(30), <2>1, <2>2, <2>3, <2>6
<1> QED BY <1>1, <1>2, <1>3 DEF StopStep, PoolClosed, ListenersClosed

LEMMA SerialStep ==
  ASSUME IInv, Undisturbed, Undisturbed', Next
  PROVE  CoroutineInv' /\ ResourceInv'
<1> USE DEF serviceVars, dataVars, jobVars, stopVars
<1>1. CASE StartService \/ OnStartIgnored
  BY <1>1, SerialFrame DEF StartService, OnStartIgnored, Delivered
<1>2. CASE OnStartUnprepared \/ CloseReceived \/ OnRevoke
  BY <1>2, StopHereSerial DEF OnStartUnprepared, CloseReceived, OnRevoke, Delivered
<1>3. ASSUME NEW j \in Jobs, PoolFatal(j) \/ FatalDelivered(j) PROVE CoroutineInv' /\ ResourceInv'
  BY <1>3, SerialFrame, StopHereSerial DEF PoolFatal, FatalDelivered
<1>4. CASE ReloadReceived
  <2>1. CASE state = "Stopped"
    BY <1>4, <2>1, SerialFrame DEF ReloadReceived
  <2>2. CASE state # "Stopped"
    BY <1>4, <2>2, StopHereSerial DEF ReloadReceived
  <2> QED BY <2>1, <2>2
<1>5. CASE RevokeCheck \/ RevokeStep
  BY <1>5 DEF RevokeCheck, RevokeStep, RevokeChange, RevokeLaunch, Undisturbed, IInv, CoroutineInv
<1>6. CASE OnDestroy
  <2>1. /\ NoJobRuns' = NoJobRuns /\ HeldNone' = HeldNone
        /\ \A j \in Jobs : Early(j)' = Early(j) /\ Full(j)' = Full(j)
    BY <1>6 DEF OnDestroy, NoJobRuns, HeldNone, Early, Full
  <2>2. CoroutineInv'
    BY <1>6, <2>1 DEF OnDestroy, IInv, CoroutineInv
  <2>3. ResourceInv'
    BY <1>6, <2>1 DEF OnDestroy, IInv, ResourceInv
  <2> QED BY <2>2, <2>3
<1> QED
  BY <1>1, <1>2, <1>3, <1>4, <1>5, <1>6, StartSerial, NoProfileSerial, JobSerial, StopSerial
  DEF Next, Deliver

\* The states BaseService.Data really takes: Idle and Connecting do not occur.
LEMMA StateStep == IInv /\ [Next]_vars => state' \in {"Stopped", "Connected", "Stopping"}
<1> SUFFICES ASSUME IInv, [Next]_vars PROVE state' \in {"Stopped", "Connected", "Stopping"}
  OBVIOUS
<1> USE DEF serviceVars, dataVars, jobVars, stopVars
<1>0. state \in {"Stopped", "Connected", "Stopping"}
  BY DEF IInv
<1>1. ASSUME NEW caller, NEW again, NEW h, NEW o, StopRunner(caller, again, h, o)
      PROVE  state' = "Stopping"
  BY SMTT(30), <1>1 DEF StopRunner
<1>2. ASSUME NEW j \in Jobs, JobStep(j) PROVE state' \in {"Stopped", "Connected", "Stopping"}
  BY <1>0, <1>1, <1>2 DEF JobStep, JobBegin, JobFlatten, JobStartProcesses, JobStartFails,
     JobConnected, JobSendFdFails, JobCancelled, JobThrows
<1>3. ASSUME NEW s \in Stops, StopStep(s) PROVE state' \in {"Stopped", "Connected", "Stopping"}
  BY <1>0, <1>3 DEF StopStep, StopJoined, StopFinish, PoolClosed, ListenersClosed, ClosePart
<1>4. ASSUME NEW j \in Jobs, PoolFatal(j) \/ FatalDelivered(j)
      PROVE  state' \in {"Stopped", "Connected", "Stopping"}
  BY <1>0, <1>1, <1>4 DEF PoolFatal, FatalDelivered
<1>5. CASE Deliver
  BY <1>0, <1>1, <1>5 DEF Deliver, OnStartUnprepared, OnStartIgnored, OnStartNoProfile, OnStartCommand
<1>6. CASE StartService \/ CloseReceived \/ ReloadReceived \/ OnRevoke \/ RevokeCheck
           \/ RevokeStep \/ OnDestroy
  BY <1>0, <1>1, <1>6 DEF StartService, CloseReceived, ReloadReceived, OnRevoke, RevokeCheck,
     RevokeStep, RevokeChange, RevokeLaunch, OnDestroy
<1>7. CASE UNCHANGED vars
  BY <1>0, <1>7 DEF vars
<1> QED BY <1>2, <1>3, <1>4, <1>5, <1>6, <1>7 DEF Next

\* The invariant is inductive.
THEOREM Inductive == Spec => []IInv
<1>1. Init => IInv
  <2> SUFFICES ASSUME Init PROVE IInv
    OBVIOUS
  <2>1. TypeOK /\ StoppingHasStopper /\ state = "Stopped"
    <3>1. StopTypes
      BY DEF Init, StopTypes, States, FieldMaps, Resources
    <3> QED BY <3>1 DEF Init, TypeOK, StopTypes, FieldMaps, Resources, StoppingHasStopper
  <2>2. CoroutineInv
    BY DEF Init, CoroutineInv, NoJobRuns
  <2>3. ResourceInv
    BY DEF Init, ResourceInv, NoJobRuns, HeldNone
  <2> QED BY <2>1, <2>2, <2>3 DEF IInv
<1>2. IInv /\ [Next]_vars => IInv'
  <2> SUFFICES ASSUME IInv, [Next]_vars PROVE IInv'
    OBVIOUS
  <2>1. TypeOK' /\ StoppingHasStopper'
    BY TypeStep, StopperStep DEF IInv
  <2>2. ASSUME Undisturbed' PROVE CoroutineInv' /\ ResourceInv'
    <3>1. CASE UNCHANGED vars
      BY <2>2, <3>1, SerialFrame DEF vars, serviceVars, Undisturbed
    <3>2. CASE Next
      <4>1. Undisturbed
        BY <2>2, <3>2, RacesGrow DEF Undisturbed
      <4> QED BY <2>2, <3>2, <4>1, SerialStep
    <3> QED BY <3>1, <3>2
  <2> QED BY <2>1, <2>2, StateStep DEF IInv
<1> QED BY <1>1, <1>2, PTL DEF Spec

-----------------------------------------------------------------------------
(* What clients and reviewers rely on *)

\* What is open is held by a field or awaited by a clean-up; without either
\* nothing is open.
LEMMA NothingOpen ==
  ASSUME IInv, Undisturbed, HeldNone, \A s \in Stops : closing[s] = {}
  PROVE  open = {}
<1>1. SUFFICES ASSUME NEW r \in open PROVE FALSE
  OBVIOUS
<1>2. r[1] \in Kinds /\ r[2] \in Jobs
  BY DEF IInv, TypeOK
<1>3. held[r[1]] = r[2]
  BY DEF IInv, ResourceInv
<1>4. held[r[1]] = NoJob
  BY <1>2 DEF HeldNone
<1> QED BY <1>2, <1>3, <1>4, NoJobAssumption

\* When the clean-up of stopRunner ends, nothing of the session is left.
LEMMA FinishIsClean ==
  ASSUME IInv, Undisturbed, NEW s \in Stops, StopFinish(s)
  PROVE  state = "Stopping" /\ NoJobRuns /\ HeldNone /\ open = {}
<1>1. /\ state = "Stopping" /\ NoJobRuns /\ HeldNone
      /\ \A t \in Stops : closing[t] = {}
  BY DEF StopFinish, IInv, CoroutineInv, ResourceInv
<1> QED BY <1>1, NothingOpen

\* While no start overlaps a connecting job and no onRevoke the main thread,
\* stopRunner never runs twice at once and connectingJob is the one job that
\* cancelAndJoin has to stop.
THEOREM SerialCoroutines == Spec => [](OneStopAtATime /\ ConnectingJobIsTheJob)
<1>1. IInv => OneStopAtATime /\ ConnectingJobIsTheJob
  BY DEF IInv, CoroutineInv, OneStopAtATime, ConnectingJobIsTheJob
<1> QED BY <1>1, Inductive, PTL

\* Under the same condition the clean-up of stopRunner can reach every process
\* pool, socket listener, tun interface and notification that is open.
THEOREM NoLeak == Spec => []NothingLeaks
<1>1. IInv => NothingLeaks
  BY DEF IInv, ResourceInv, NothingLeaks
<1> QED BY <1>1, Inductive, PTL

\* Under the same condition Stopped tells the truth: a service that is not
\* connecting has nothing open and no receiver registered.
THEOREM StateIsTrue == Spec => []StoppedIsClean
<1>1. IInv => StoppedIsClean
  <2> SUFFICES ASSUME IInv, Undisturbed, state = "Stopped", NoJobRuns PROVE open = {} /\ ~receiver
    BY SMTT(30) DEF StoppedIsClean
  <2>1. HeldNone /\ ~receiver /\ \A s \in Stops : closing[s] = {}
    BY DEF IInv, CoroutineInv, ResourceInv
  <2> QED BY <2>1, NothingOpen
<1> QED BY <1>1, Inductive, PTL

\* So does Connected: the pool, the listeners, the tun interface, the
\* notification and the proxy of one connecting job are held and open.
THEOREM ConnectedIsComplete == Spec => []ConnectedIsServed
<1>1. IInv => ConnectedIsServed
  BY DEF IInv, ResourceInv, ConnectedIsServed, Full
<1> QED BY <1>1, Inductive, PTL

\* Under the same condition a service that connects or is connected has its
\* receiver registered, so that Core.stopService cannot be lost.
THEOREM CloseIsHeard == Spec => []CloseReaches
<1>1. IInv => CloseReaches
  BY DEF IInv, ResourceInv, CloseReaches
<1> QED BY <1>1, Inductive, PTL

\* Under the same condition clients see the states in the order Stopped,
\* Connected, Stopping, Stopped, a failed attempt skipping Connected.
THEOREM StatesInOrder == Spec => StateOrder
<1> DEFINE Ordered == Undisturbed' /\ state' # state =>
        <<state, state'>> \in {<<"Stopped", "Connected">>, <<"Connected", "Stopping">>,
                               <<"Stopped", "Stopping">>, <<"Stopping", "Stopped">>}
<1>1. IInv /\ [Next]_vars => Ordered
  <2> SUFFICES ASSUME IInv, Next, Undisturbed', state' # state PROVE Ordered
    BY DEF vars, dataVars
  <2> USE DEF serviceVars, dataVars, jobVars, stopVars
  <2>0. Undisturbed /\ state \in {"Stopped", "Connected", "Stopping"}
    BY RacesGrow DEF Undisturbed, IInv
  <2>1. ASSUME NEW caller, NEW again, NEW h, NEW o, StopRunner(caller, again, h, o) PROVE Ordered
    BY <2>0, <2>1 DEF StopRunner
  <2>2. ASSUME NEW j \in Jobs, JobConnected(j) PROVE Ordered
    <3>1. state = "Stopped" /\ state' = "Connected"
      BY SMTT(30), <2>0, <2>2, RunningJobIsAlone DEF JobConnected
    <3> QED BY <3>1
  <2>3. ASSUME NEW j \in Jobs, JobStep(j) PROVE Ordered
    BY <2>1, <2>2, <2>3 DEF JobStep, JobBegin, JobFlatten, JobStartProcesses, JobStartFails,
       JobSendFdFails, JobCancelled, JobThrows
  <2>4. ASSUME NEW s \in Stops, StopStep(s) PROVE Ordered
    <3>1. CASE StopFinish(s)
      <4>1. state = "Stopping" /\ state' = "Stopped"
        BY <2>0, <3>1 DEF StopFinish, IInv, CoroutineInv
      <4> QED BY SMTT(30), <4>1
    <3> QED BY <2>4, <3>1 DEF StopStep, StopJoined, PoolClosed, ListenersClosed, ClosePart
  <2>5. CASE Deliver
    BY <2>1, <2>5 DEF Deliver, OnStartUnprepared, OnStartIgnored, OnStartNoProfile, OnStartCommand
  <2>6. CASE RevokeCheck \/ RevokeStep
    BY <2>0, <2>6 DEF RevokeCheck, RevokeStep, RevokeChange, RevokeLaunch, Undisturbed, IInv,
       CoroutineInv
  <2>7. ASSUME NEW j \in Jobs, PoolFatal(j) \/ FatalDelivered(j) PROVE Ordered
    BY <2>1, <2>7 DEF PoolFatal, FatalDelivered
  <2>8. CASE StartService \/ CloseReceived \/ ReloadReceived \/ OnRevoke \/ OnDestroy
    BY <2>1, <2>8 DEF StartService, CloseReceived, ReloadReceived, OnRevoke, OnDestroy
  <2> QED BY <2>3, <2>4, <2>5, <2>6, <2>7, <2>8 DEF Next
<1> QED BY <1>1, Inductive, PTL DEF Spec, StateOrder

-----------------------------------------------------------------------------
(* The end of the instance *)

\* Once stopSelf has been called, and until the next start, there is nothing
\* that onDestroy could cut off.
Dormant == NoJobRuns /\ open = {} /\ HeldNone
DormantInv == races = {} /\ (~started \/ ~alive) => Dormant

LEMMA DormantFrame == Dormant /\ UNCHANGED <<dataVars, jobVars>> => Dormant'
  BY DEF Dormant, NoJobRuns, HeldNone, dataVars, jobVars

LEMMA DormantCleanUp ==
  ASSUME Dormant, NEW s, CleanUp(s, held, open), jobPc' = jobPc
  PROVE  Dormant'
  BY DEF Dormant, CleanUp, NoJobRuns, HeldNone

LEMMA DormantStop ==
  ASSUME TypeOK, Dormant, NEW again, StopRunner(NoJob, again, held, open), jobPc' = jobPc
  PROVE  Dormant'
<1>1. CASE state = "Stopping"
  BY <1>1 DEF StopRunner, Dormant, NoJobRuns, HeldNone
<1>2. CASE state # "Stopping"
  <2>1. PICK s \in Stops : StopCoroutine(s, NoJob, again, held, open)
    BY <1>2 DEF StopRunner, LaunchStop
  <2>2. CleanUp(s, held, open)
    BY <2>1 DEF StopCoroutine, Running, Dormant, NoJobRuns, TypeOK
  <2> QED BY <2>2, DormantCleanUp
<1> QED BY <1>1, <1>2

LEMMA DormantStep == IInv /\ DormantInv /\ [Next]_vars => DormantInv'
<1> SUFFICES ASSUME IInv, DormantInv, [Next]_vars, races' = {}, ~started' \/ ~alive'
             PROVE  Dormant'
  BY DEF DormantInv
<1> USE DEF serviceVars, dataVars, jobVars, stopVars
<1>0. CASE UNCHANGED vars
  BY <1>0, DormantFrame DEF vars, DormantInv
<1>1. CASE Next
  <2>0. races = {} /\ Undisturbed /\ TypeOK
    BY <1>1, RacesGrow DEF Undisturbed, IInv
  <2>1. CASE StartService \/ OnStartIgnored
    BY <2>0, <2>1, DormantFrame DEF StartService, OnStartIgnored, Delivered, DormantInv
  <2>2. CASE OnStartUnprepared \/ CloseReceived \/ OnRevoke
    BY <2>0, <2>2, DormantStop DEF OnStartUnprepared, CloseReceived, OnRevoke, Delivered, DormantInv
  <2>3. ASSUME NEW j \in Jobs, OnStartNoProfile(j) \/ OnStartCommand(j) PROVE FALSE
    <3>1. Delivered /\ races' = races \cup RacesOfStart
      BY ZenonT(30), <2>3 DEF OnStartNoProfile, OnStartCommand
    <3>2. ~started
      BY <3>1 DEF Delivered
    <3>3. "lateStart" \in RacesOfStart
      BY <3>2 DEF RacesOfStart, Races
    <3> QED BY <3>1, <3>3
  <2>4. ASSUME NEW j \in Jobs, JobStep(j) PROVE FALSE
    <3>1. jobPc[j] # "idle"
      BY ZenonT(30), <2>4 DEF JobStep, JobBegin, JobFlatten, JobStartProcesses, JobStartFails, JobConnected,
         JobSendFdFails, JobCancelled
    <3>2. UNCHANGED <<started, alive>>
      BY <2>4 DEF JobStep, JobBegin, JobFlatten, JobStartProcesses, JobStartFails, JobConnected,
         JobSendFdFails, JobCancelled, JobThrows
    <3> QED BY <2>0, <3>1, <3>2 DEF DormantInv, Dormant, NoJobRuns
  <2>5. ASSUME NEW j \in Jobs, PoolFatal(j) \/ FatalDelivered(j) PROVE Dormant'
    BY ZenonT(30), <2>0, <2>5, DormantFrame, DormantStop DEF PoolFatal, FatalDelivered, DormantInv
  <2>6. ASSUME NEW s \in Stops, StopStep(s) PROVE Dormant'
    <3>1. CASE StopJoined(s)
      BY <2>0, <3>1, DormantCleanUp DEF StopJoined, DormantInv
    <3>2. CASE StopFinish(s)
      <4>1. NoJobRuns /\ HeldNone /\ open = {}
        BY <2>0, <3>2, FinishIsClean
      <4> QED BY ZenonT(30), <3>2, <4>1, DormantFrame DEF StopFinish, Dormant, NoJobRuns, HeldNone
    <3>3. CASE PoolClosed(s) \/ ListenersClosed(s)
      BY <2>0, <3>3 DEF PoolClosed, ListenersClosed, ClosePart, DormantInv, Dormant, NoJobRuns, HeldNone
    <3> QED BY <2>6, <3>1, <3>2, <3>3 DEF StopStep
  <2>7. CASE ReloadReceived
    <3>1. CASE state = "Stopped"
      BY <2>0, <2>7, <3>1, DormantFrame DEF ReloadReceived, DormantInv
    <3>2. CASE state # "Stopped"
      <4>1. StopRunner(NoJob, TRUE, held, open) /\ UNCHANGED <<started, alive, jobPc>>
        BY <2>7, <3>2 DEF ReloadReceived
      <4> QED BY <2>0, <4>1, DormantStop DEF DormantInv
    <3> QED BY <3>1, <3>2
  <2>8. CASE RevokeCheck \/ RevokeStep
    BY <2>0, <2>8 DEF RevokeCheck, RevokeStep, RevokeChange, RevokeLaunch, IInv, CoroutineInv
  <2>9. CASE OnDestroy
    BY <2>0, <2>9 DEF OnDestroy, DormantInv, Dormant, NoJobRuns, HeldNone
  <2> QED BY <1>1, <2>1, <2>2, <2>3, <2>4, <2>5, <2>6, <2>7, <2>8, <2>9 DEF Next, Deliver
<1> QED BY <1>0, <1>1

\* When no start was accepted after stopSelf and nothing else overlapped,
\* onDestroy cuts off neither a connecting job nor an open resource.
THEOREM DestroyIsClean == Spec => []DestroyedIsClean
<1>1. Init => DormantInv
  BY DEF Init, DormantInv, Dormant, NoJobRuns, HeldNone
<1>2. DormantInv => DestroyedIsClean
  BY DEF DormantInv, Dormant, DestroyedIsClean
<1> QED BY <1>1, <1>2, Inductive, DormantStep, PTL DEF Spec

-----------------------------------------------------------------------------
(* The service implements ServiceLifecycle *)

LifecycleStep == [Lifecycle!Next]_(Lifecycle!lifecycleVars)

\* A step that leaves the phase alone and opens nothing is allowed: it keeps
\* what is open, or it is a Release.
LEMMA PhaseKept ==
  ASSUME Phase' = Phase, open' = open \/ (Phase = "stopping" /\ open' \subseteq open)
  PROVE  LifecycleStep
<1>1. CASE (open' # {}) <=> (open # {})
  BY <1>1 DEF LifecycleStep, Lifecycle!lifecycleVars
<1>2. CASE open' = {} /\ open # {}
  BY <1>2 DEF LifecycleStep, Lifecycle!Next, Lifecycle!Release
<1> QED BY <1>1, <1>2

\* The same in terms of the service's own variables.
LEMMA Unmoved ==
  ASSUME state' = state, NoJobRuns' <=> NoJobRuns,
         open' = open \/ (state = "Stopping" /\ open' \subseteq open)
  PROVE  LifecycleStep
<1>1. Phase' = Phase
  BY DEF Phase
<1>2. state = "Stopping" => Phase = "stopping"
  BY DEF Phase
<1> QED BY <1>1, <1>2, PhaseKept

\* stopRunner takes any other phase to stopping, and opens nothing that was not
\* open before.
LEMMA StopMaps ==
  ASSUME IInv, NEW caller, NEW again, NEW h, NEW o, StopRunner(caller, again, h, o),
         state # "Stopping", o # {} => open # {}
  PROVE  LifecycleStep
<1>1. state' = "Stopping"
  BY DEF StopRunner
<1>2. PICK s \in Stops : StopCoroutine(s, caller, again, h, o)
  BY DEF StopRunner, LaunchStop
<1>3. open' \subseteq o
  BY <1>2 DEF StopCoroutine, CleanUp
<1>4. Phase # "stopping" /\ Phase' = "stopping"
  BY <1>1 DEF Phase
<1>5. (open' # {}) \in {open # {}, FALSE}
  BY <1>3
<1> QED BY <1>4, <1>5 DEF LifecycleStep, Lifecycle!Next, Lifecycle!Stop

\* A stop that no connecting job asks for.
LEMMA StopHereMaps ==
  ASSUME IInv, NEW again, StopRunner(NoJob, again, held, open), jobPc' = jobPc
  PROVE  LifecycleStep
<1>1. CASE state = "Stopping"
  BY <1>1, Unmoved DEF StopRunner, NoJobRuns
<1>2. CASE state # "Stopping"
  BY <1>2, StopMaps
<1> QED BY <1>1, <1>2

\* A connecting job has its notification open from the beginning.
LEMMA ConnectingUses ==
  ASSUME IInv, Undisturbed, NEW j \in Jobs, jobPc[j] # "idle" PROVE open # {}
<1>1. jobPc[j] \in {"queued", "preInit", "acl", "sendFd"}
  BY DEF IInv, TypeOK
<1>2. <<"notification", j>> \in open
  BY <1>1 DEF IInv, ResourceInv, Full, Kinds, SyncKinds
<1> QED BY <1>2

\* An accepted start finds a service that is down, and takes it to connecting
\* or, without a profile, to stopping.
LEMMA StartMaps ==
  ASSUME IInv, Undisturbed', NEW j \in Jobs, OnStartNoProfile(j) \/ OnStartCommand(j), Undisturbed
  PROVE  LifecycleStep
<1>1. state = "Stopped" /\ races' = races \cup RacesOfStart
  BY Zenon DEF OnStartNoProfile, OnStartCommand
<1>2. NoJobRuns
  <2>1. "overlap" \notin RacesOfStart
    BY <1>1 DEF Undisturbed
  <2> QED BY <2>1 DEF RacesOfStart, Races
<1>3. open = {} /\ HeldNone
  <2>1. HeldNone /\ \A s \in Stops : closing[s] = {}
    BY <1>1, <1>2 DEF IInv, CoroutineInv, ResourceInv
  <2> QED BY <2>1, NothingOpen
<1>4. Phase = "down"
  BY <1>1, <1>2 DEF Phase
<1>5. CASE OnStartCommand(j)
  <2>1. state' = "Stopped" /\ ~NoJobRuns' /\ open' # {}
    BY <1>1, <1>5 DEF OnStartCommand, NoJobRuns, IInv, TypeOK
  <2>2. Phase' = "connecting"
    BY <2>1 DEF Phase
  <2> QED BY <1>4, <2>1, <2>2 DEF LifecycleStep, Lifecycle!Next, Lifecycle!Start
<1>6. CASE OnStartNoProfile(j)
  <2> DEFINE h == [held EXCEPT !["notification"] = j]
             o == open \cup {<<"notification", j>>}
  <2>1. state' = "Stopping" /\ \E s \in Stops : StopCoroutine(s, NoJob, FALSE, h, o)
    BY <1>1, <1>6 DEF OnStartNoProfile, StopRunner, LaunchStop
  <2>2. ~Running(connectingJob)
    BY <1>2 DEF Running, NoJobRuns, IInv, TypeOK
  <2>3. open' = o \ {r \in Owned(h) : r[1] \in SyncKinds}
    BY <2>1, <2>2 DEF StopCoroutine, CleanUp
  <2>4. <<"notification", j>> \in Owned(h)
    <3>1. h["notification"] = j
      BY DEF IInv, TypeOK, Kinds, SyncKinds
    <3> QED BY <3>1 DEF Owned, Kinds, SyncKinds
  <2>5. open' = {}
    BY <1>3, <2>3, <2>4 DEF SyncKinds
  <2>6. Phase' = "stopping"
    BY <2>1 DEF Phase
  <2> QED BY <1>4, <2>5, <2>6 DEF LifecycleStep, Lifecycle!Next, Lifecycle!Stop
<1> QED BY <1>5, <1>6

\* The steps of the connecting job: it goes on unseen, is up, or stops.
LEMMA JobMaps ==
  ASSUME IInv, Undisturbed, NEW j \in Jobs, JobStep(j)
  PROVE  LifecycleStep
<1> USE DEF serviceVars, dataVars, jobVars, stopVars
<1>1. jobPc[j] # "idle"
  BY Zenon DEF JobStep, JobBegin, JobFlatten, JobStartProcesses, JobStartFails, JobConnected,
     JobSendFdFails, JobCancelled
<1>2. open # {} /\ ~NoJobRuns
  BY <1>1, ConnectingUses DEF NoJobRuns
<1>3. CASE JobBegin(j) \/ JobFlatten(j)
  <2>1. state' = state /\ open' = open
    BY <1>3 DEF JobBegin, JobFlatten
  <2>2. ~NoJobRuns'
    BY <1>3 DEF JobBegin, JobFlatten, NoJobRuns, IInv, TypeOK
  <2> QED BY <1>2, <2>1, <2>2, Unmoved
<1>4. CASE JobStartProcesses(j)
  <2>1. state' = state /\ ~NoJobRuns'
    BY <1>4 DEF JobStartProcesses, NoJobRuns, IInv, TypeOK
  <2>2. open' # {}
    BY <1>2, <1>4 DEF JobStartProcesses, OpenAfter
  <2>3. Phase' = Phase
    BY <1>2, <2>1 DEF Phase
  <2> QED BY <1>2, <2>2, <2>3 DEF LifecycleStep, Lifecycle!lifecycleVars
<1>5. CASE JobConnected(j)
  <2>1. state = "Stopped" /\ state' = "Connected" /\ open' = open
    BY <1>1, <1>5, RunningJobIsAlone DEF JobConnected
  <2>2. Phase = "connecting" /\ Phase' = "up"
    BY <1>2, <2>1 DEF Phase
  <2> QED BY <1>2, <2>1, <2>2 DEF LifecycleStep, Lifecycle!Next, Lifecycle!Establish
<1>6. ASSUME NEW h, NEW o, StopRunner(j, FALSE, h, o), ~cancelled[j] PROVE LifecycleStep
  <2>1. state = "Stopped"
    BY <1>1, <1>6, RunningJobIsAlone
  <2> QED BY <1>2, <1>6, <2>1, StopMaps
<1>7. CASE JobStartFails(j) \/ JobSendFdFails(j)
  BY <1>6, <1>7 DEF JobStartFails, JobSendFdFails, JobThrows
<1>8. CASE JobCancelled(j)
  <2>1. state = "Stopping" /\ state' = state /\ open' = open
    BY <1>8 DEF JobCancelled, IInv, CoroutineInv
  <2>2. Phase' = Phase
    BY <2>1 DEF Phase
  <2> QED BY <2>1, <2>2, PhaseKept
<1> QED BY <1>3, <1>4, <1>5, <1>7, <1>8 DEF JobStep

\* The steps of the stop coroutine: it gives back what is open, and ends when
\* nothing is.
LEMMA StopStepMaps ==
  ASSUME IInv, Undisturbed, NEW s \in Stops, StopStep(s)
  PROVE  LifecycleStep
<1> USE DEF serviceVars, dataVars, jobVars, stopVars
<1>1. CASE StopFinish(s)
  <2>1. state = "Stopping" /\ NoJobRuns /\ open = {}
    BY <1>1, FinishIsClean
  <2>2. state' = "Stopped" /\ NoJobRuns' /\ open' = open
    BY <1>1, <2>1 DEF StopFinish, NoJobRuns
  <2>3. Phase = "stopping" /\ Phase' = "down"
    BY <2>1, <2>2 DEF Phase
  <2> QED BY <2>1, <2>2, <2>3 DEF LifecycleStep, Lifecycle!Next, Lifecycle!Finish
<1>2. CASE StopJoined(s)
  <2>1. state = "Stopping" /\ state' = state /\ jobPc' = jobPc
    BY <1>2 DEF StopJoined, IInv, CoroutineInv
  <2>2. open' \subseteq open
    BY <1>2 DEF StopJoined, CleanUp
  <2> QED BY <2>1, <2>2, Unmoved DEF NoJobRuns
<1>3. ASSUME NEW kinds, ClosePart(s, kinds) PROVE LifecycleStep
  <2>1. closing[s] # {}
    BY <1>3 DEF ClosePart
  <2>2. state = "Stopping"
    BY <2>1 DEF IInv, CoroutineInv, ResourceInv
  <2>3. state' = state /\ jobPc' = jobPc /\ open' \subseteq open
    BY <1>3 DEF ClosePart
  <2> QED BY <2>2, <2>3, Unmoved DEF NoJobRuns
<1> QED BY <1>1, <1>2, <1>3 DEF StopStep, PoolClosed, ListenersClosed

\* Every step of an undisturbed service is a step of the lifecycle or is not
\* seen there.
LEMMA StepMaps == IInv /\ [Next /\ Undisturbed']_vars => LifecycleStep
<1> SUFFICES ASSUME IInv, [Next /\ Undisturbed']_vars PROVE LifecycleStep
  OBVIOUS
<1> USE DEF serviceVars, dataVars, jobVars, stopVars
<1>0. CASE UNCHANGED vars
  BY <1>0, Unmoved DEF vars, NoJobRuns
<1>1. CASE Next /\ Undisturbed'
  <2>0. Undisturbed
    BY <1>1, RacesGrow DEF Undisturbed
  <2>1. CASE StartService \/ OnStartIgnored \/ OnDestroy
    BY <2>1, Unmoved DEF StartService, OnStartIgnored, OnDestroy, NoJobRuns
  <2>2. CASE OnStartUnprepared \/ CloseReceived \/ OnRevoke
    BY <2>2, StopHereMaps DEF OnStartUnprepared, CloseReceived, OnRevoke
  <2>3. ASSUME NEW j \in Jobs, OnStartNoProfile(j) \/ OnStartCommand(j) PROVE LifecycleStep
    BY <1>1, <2>0, <2>3, StartMaps
  <2>4. ASSUME NEW j \in Jobs, JobStep(j) PROVE LifecycleStep
    BY <2>0, <2>4, JobMaps
  <2>5. ASSUME NEW j \in Jobs, PoolFatal(j) PROVE LifecycleStep
    BY <2>5, Unmoved DEF PoolFatal, NoJobRuns
  <2>6. ASSUME NEW j \in Jobs, FatalDelivered(j) PROVE LifecycleStep
    BY <2>6, StopHereMaps DEF FatalDelivered
  <2>7. ASSUME NEW s \in Stops, StopStep(s) PROVE LifecycleStep
    BY <2>0, <2>7, StopStepMaps
  <2>8. CASE ReloadReceived
    <3>1. CASE state = "Stopped"
      BY <2>8, <3>1, Unmoved DEF ReloadReceived, NoJobRuns
    <3>2. CASE state # "Stopped"
      BY <2>8, <3>2, StopHereMaps DEF ReloadReceived
    <3> QED BY <3>1, <3>2
  <2>9. CASE RevokeCheck
    BY <1>1, <2>9 DEF RevokeCheck, Undisturbed
  <2>10. CASE RevokeStep
    BY <2>0, <2>10 DEF RevokeStep, RevokeChange, RevokeLaunch, IInv, CoroutineInv
  <2> QED BY <1>1, <2>1, <2>2, <2>3, <2>4, <2>5, <2>6, <2>7, <2>8, <2>9, <2>10 DEF Next, Deliver
<1> QED BY <1>0, <1>1

\* The service whose starts and revocations do not overlap implements the
\* lifecycle its clients may think of, in all that the lifecycle says about
\* safety: each step of onStartCommand, of the connecting job and of stopRunner
\* is a step of ServiceLifecycle or is not seen there at all.
THEOREM ImplementsLifecycle ==
  SerialSpec => Lifecycle!Init /\ [][Lifecycle!Next]_(Lifecycle!lifecycleVars)
<1>1. Init => Lifecycle!Init
  BY DEF Init, Lifecycle!Init, Phase, NoJobRuns
<1>2. SerialSpec => Init /\ [][Next /\ Undisturbed']_vars
  BY PTL DEF SerialSpec
<1>3. [Next /\ Undisturbed']_vars => [Next]_vars
  OBVIOUS
<1> QED BY <1>1, <1>2, <1>3, Inductive, StepMaps, PTL DEF Spec, LifecycleStep
=============================================================================
