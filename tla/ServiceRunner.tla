--------------------------- MODULE ServiceRunner ---------------------------
(***************************************************************************)
(* The start/stop machinery of the background VPN service: one instance of *)
(* VpnService with the BaseService.Interface and BaseService.Data it is    *)
(* built on, from its creation to after its onDestroy.                     *)
(*                                                                         *)
(* Everything but onRevoke runs on the main thread, so a step is what runs *)
(* between two suspension points: connecting jobs suspend in preInit, in   *)
(* the flattening of the custom ACL and in sendFd; stop coroutines suspend *)
(* in cancelAndJoin and while their clean-up scope waits for its children. *)
(* onRevoke runs on a binder thread and is split where a main-thread step  *)
(* can fall between its check, its assignment and its launch.              *)
(*                                                                         *)
(* An element of Jobs names one accepted onStartCommand: the connecting    *)
(* job it launched, the ProxyInstance and notification it created and the  *)
(* resources that job acquires. Identities are recycled once nothing       *)
(* refers to them, so Jobs and Stops bound concurrency, not history.       *)
(***************************************************************************)
EXTENDS Naturals

CONSTANTS
    Jobs,        \* identities of connecting jobs
    Stops,       \* identities of stop coroutines
    NoJob,       \* the null reference
    MaxPending   \* bound on start intents in flight before a client sends one more

ASSUME NoJobAssumption == NoJob \notin Jobs
ASSUME PendingAssumption == MaxPending \in Nat \ {0}

VARIABLES
    \* the service as the ActivityManager sees it
    alive,          \* onDestroy has not run
    started,        \* startService since the last stopSelf
    startsPending,  \* start intents not yet delivered to onStartCommand
    \* BaseService.Data and the fields of VpnService
    state, held, receiver, connectingJob,
    \* what is really open, whether or not a field still refers to it
    open,
    \* connecting jobs
    jobPc, cancelled,
    \* stop coroutines
    stopPc, restart, joined, closing,
    \* other sources of stopRunner
    fatal,          \* pools whose guard has posted onFatal
    revoke,         \* program counter of the binder thread inside onRevoke
    \* history: the overlaps that have happened so far
    races

serviceVars == <<alive, started, startsPending>>
dataVars    == <<state, held, receiver, open>>
jobVars     == <<connectingJob, jobPc, cancelled>>
stopVars    == <<stopPc, restart, joined, closing>>
vars == <<serviceVars, dataVars, jobVars, stopVars, fatal, revoke, races>>

States == {"Idle", "Connecting", "Connected", "Stopping", "Stopped"}

\* Fields released at once by the clean-up, and fields whose shutdown the
\* clean-up scope waits for.
SyncKinds  == {"proxy", "notification", "conn"}
Listeners  == {"worker", "trafficMonitor", "localDns"}
AsyncKinds == {"processes"} \cup Listeners
Kinds      == SyncKinds \cup AsyncKinds

\* The order in which a connecting job acquires its resources.
Acquisition == <<"processes", "worker", "trafficMonitor", "localDns", "conn">>
Steps == 1..5

Races == {"overlap", "revoke", "lateStart"}

TypeOK ==
    /\ alive \in BOOLEAN /\ started \in BOOLEAN /\ startsPending \in Nat
    /\ state \in States /\ held \in [Kinds -> Jobs \cup {NoJob}]
    /\ receiver \in BOOLEAN
    /\ connectingJob \in Jobs \cup {NoJob}
    /\ open \in SUBSET (Kinds \X Jobs)
    /\ jobPc \in [Jobs -> {"idle", "queued", "preInit", "acl", "sendFd"}]
    /\ cancelled \in [Jobs -> BOOLEAN]
    /\ stopPc \in [Stops -> {"idle", "joining", "cleaning"}]
    /\ restart \in [Stops -> BOOLEAN]
    /\ joined \in [Stops -> Jobs \cup {NoJob}]
    /\ closing \in [Stops -> SUBSET (Kinds \X Jobs)]
    /\ fatal \in SUBSET Jobs
    /\ revoke \in {"idle", "checked", "changed"}
    /\ races \in SUBSET Races

Init ==
    /\ alive = TRUE /\ started = FALSE /\ startsPending = 0
    /\ state = "Stopped" /\ held = [k \in Kinds |-> NoJob]
    /\ receiver = FALSE
    /\ connectingJob = NoJob /\ open = {}
    /\ jobPc = [j \in Jobs |-> "idle"] /\ cancelled = [j \in Jobs |-> FALSE]
    /\ stopPc = [s \in Stops |-> "idle"] /\ restart = [s \in Stops |-> FALSE]
    /\ joined = [s \in Stops |-> NoJob] /\ closing = [s \in Stops |-> {}]
    /\ fatal = {} /\ revoke = "idle" /\ races = {}

-----------------------------------------------------------------------------
Running(j) == j # NoJob /\ jobPc[j] # "idle"
NoJobRuns == \A j \in Jobs : jobPc[j] = "idle"
NoStopRuns == \A s \in Stops : stopPc[s] = "idle"

\* What the fields of h refer to.
Owned(h) == {r \in Kinds \X Jobs : h[r[1]] = r[2]}

\* No field, coroutine or open resource refers to j any more.
Fresh(j) ==
    /\ jobPc[j] = "idle" /\ connectingJob # j /\ j \notin fatal
    /\ \A k \in Kinds : held[k] # j /\ <<k, j>> \notin open
    /\ \A s \in Stops : joined[s] # j

\* Mutant: the tun interface is forgotten without being closed.
CleanUpForgetsConn(s, h, o) ==
    /\ stopPc' = [stopPc EXCEPT ![s] = "cleaning"]
    /\ closing' = [closing EXCEPT ![s] = {r \in Owned(h) : r[1] \in AsyncKinds}]
    /\ open' = o \ {r \in Owned(h) : r[1] \in SyncKinds \ {"conn"}}
    /\ held' = [k \in Kinds |-> NoJob]
    /\ receiver' = FALSE

\* The clean-up scope of stopRunner up to its first suspension, started with
\* the fields h and the open resources o.
CleanUp(s, h, o) ==
    /\ stopPc' = [stopPc EXCEPT ![s] = "cleaning"]
    /\ closing' = [closing EXCEPT ![s] = {r \in Owned(h) : r[1] \in AsyncKinds}]
    /\ open' = o \ {r \in Owned(h) : r[1] \in SyncKinds}
    /\ held' = [k \in Kinds |-> NoJob]
    /\ receiver' = FALSE

\* The coroutine stopRunner launches: it cancels and joins connectingJob, and
\* falls through to the clean-up when there is none to wait for. The job that
\* itself calls stopRunner ends within the same main-thread message.
StopCoroutine(s, caller, again, h, o) ==
    /\ stopPc[s] = "idle"
    /\ restart' = [restart EXCEPT ![s] = again]
    /\ \/ /\ Running(connectingJob) /\ connectingJob # caller
          /\ stopPc' = [stopPc EXCEPT ![s] = "joining"]
          /\ joined' = [joined EXCEPT ![s] = connectingJob]
          /\ cancelled' = [cancelled EXCEPT ![connectingJob] = TRUE]
          /\ held' = h /\ open' = o
          /\ UNCHANGED <<closing, receiver>>
       \/ /\ ~Running(connectingJob) \/ connectingJob = caller
          /\ CleanUp(s, h, o)
          /\ UNCHANGED <<joined, cancelled>>

LaunchStop(caller, again, h, o) ==
    \E s \in Stops : StopCoroutine(s, caller, again, h, o)

\* Mutant: the coroutine is launched only when there is a job to cancel.
StopRunnerNeedsJob(caller, again, h, o) ==
    /\ state' = "Stopping"
    /\ \/ state # "Stopping" /\ connectingJob # NoJob /\ LaunchStop(caller, again, h, o)
       \/ /\ state = "Stopping" \/ connectingJob = NoJob
          /\ held' = h /\ open' = o /\ UNCHANGED <<receiver, cancelled, stopVars>>

\* stopRunner(again) called on the main thread by the job caller (or by no
\* job), when the caller has already changed the fields to h and o.
StopRunner(caller, again, h, o) ==
    \/ /\ state = "Stopping"
       /\ held' = h /\ open' = o
       /\ UNCHANGED <<state, receiver, cancelled, stopVars>>
    \/ /\ state # "Stopping"
       /\ state' = "Stopping"
       /\ LaunchStop(caller, again, h, o)

-----------------------------------------------------------------------------
(* Start requests *)

\* Core.startService, the BootReceiver, the system's always-on VPN.
StartService ==
    /\ alive /\ startsPending < MaxPending
    /\ startsPending' = startsPending + 1
    /\ started' = TRUE
    /\ UNCHANGED <<alive, dataVars, jobVars, stopVars, fatal, revoke, races>>

Delivered ==
    /\ alive /\ startsPending > 0
    /\ startsPending' = startsPending - 1
    /\ UNCHANGED <<alive, started>>

\* onStartCommand in VPN mode without the user's consent, or in another mode.
OnStartUnprepared ==
    /\ Delivered
    /\ StopRunner(NoJob, FALSE, held, open)
    /\ UNCHANGED <<connectingJob, jobPc, fatal, revoke, races>>

OnStartIgnored ==
    /\ Delivered
    /\ state # "Stopped"
    /\ UNCHANGED <<dataVars, jobVars, stopVars, fatal, revoke, races>>

RacesOfStart ==
    {r \in Races : \/ r = "overlap" /\ ~NoJobRuns
                   \/ r = "lateStart" /\ ~started}

\* No current profile: a notification is shown only to be able to stop.
OnStartNoProfile(j) ==
    /\ Delivered
    /\ state = "Stopped" /\ Fresh(j)
    /\ StopRunner(NoJob, FALSE, [held EXCEPT !["notification"] = j],
                  open \cup {<<"notification", j>>})
    /\ races' = races \cup RacesOfStart
    /\ UNCHANGED <<connectingJob, jobPc, fatal, revoke>>

\* Mutant: the receiver is not registered.
OnStartCommandDeaf(j) ==
    /\ Delivered
    /\ state = "Stopped" /\ Fresh(j)
    /\ held' = [held EXCEPT !["proxy"] = j, !["trafficMonitor"] = NoJob, !["notification"] = j]
    /\ open' = open \cup {<<"notification", j>>}
    /\ connectingJob' = j
    /\ jobPc' = [jobPc EXCEPT ![j] = "queued"]
    /\ races' = races \cup RacesOfStart
    /\ UNCHANGED <<state, receiver, cancelled, stopVars, fatal, revoke>>

OnStartCommand(j) ==
    /\ Delivered
    /\ state = "Stopped" /\ Fresh(j)
    /\ held' = [held EXCEPT !["proxy"] = j, !["trafficMonitor"] = NoJob,
                            !["notification"] = j]
    /\ open' = open \cup {<<"notification", j>>}
    /\ receiver' = TRUE
    /\ connectingJob' = j
    /\ jobPc' = [jobPc EXCEPT ![j] = "queued"]
    /\ races' = races \cup RacesOfStart
    /\ UNCHANGED <<state, cancelled, stopVars, fatal, revoke>>

-----------------------------------------------------------------------------
(* The connecting job *)

\* Executable.killAll and the call of preInit.
JobBegin(j) ==
    /\ jobPc[j] = "queued" /\ ~cancelled[j]
    /\ jobPc' = [jobPc EXCEPT ![j] = "preInit"]
    /\ UNCHANGED <<serviceVars, dataVars, connectingJob, cancelled, stopVars, fatal, revoke, races>>

\* A profile with custom rules flattens the ACL on the IO dispatcher.
JobFlatten(j) ==
    /\ jobPc[j] = "preInit" /\ ~cancelled[j]
    /\ jobPc' = [jobPc EXCEPT ![j] = "acl"]
    /\ UNCHANGED <<serviceVars, dataVars, connectingJob, cancelled, stopVars, fatal, revoke, races>>

\* The fields and the open resources after the first n acquisitions of j.
AcquiredKinds(n) == {Acquisition[i] : i \in {m \in Steps : m <= n}}
HeldAfter(j, n) == [k \in Kinds |-> IF k \in AcquiredKinds(n) THEN j ELSE held[k]]
OpenAfter(j, n) == open \cup {<<k, j>> : k \in AcquiredKinds(n)}

\* The pool is created and startProcesses runs up to the first delay of sendFd.
JobStartProcesses(j) ==
    /\ jobPc[j] \in {"preInit", "acl"} /\ ~cancelled[j]
    /\ held["proxy"] # NoJob
    /\ held' = HeldAfter(j, 5) /\ open' = OpenAfter(j, 5)
    /\ jobPc' = [jobPc EXCEPT ![j] = "sendFd"]
    /\ UNCHANGED <<serviceVars, state, receiver, connectingJob, cancelled, stopVars, fatal, revoke, races>>

\* The catch and the finally of a job that failed with h and o acquired.
JobThrows(j, h, o) ==
    /\ StopRunner(j, FALSE, h, o)
    /\ jobPc' = [jobPc EXCEPT ![j] = "idle"]
    /\ connectingJob' = NoJob
    /\ UNCHANGED <<serviceVars, fatal, revoke, races>>

\* flatten throws, data.proxy is null, or one of the acquisitions throws.
JobStartFails(j) ==
    /\ jobPc[j] \in {"preInit", "acl"} /\ ~cancelled[j]
    /\ \E n \in 0..5 :
        /\ n = 0 => jobPc[j] = "acl"
        /\ held["proxy"] = NoJob => n <= 2
        /\ JobThrows(j, HeldAfter(j, n), OpenAfter(j, n))

\* Mutant: a job that was cancelled in sendFd goes on to Connected.
JobConnectedLate(j) ==
    /\ jobPc[j] = "sendFd"
    /\ <<"conn", j>> \in open /\ \E i \in Jobs : <<"processes", i>> \in open
    /\ held["proxy"] # NoJob
    /\ state' = "Connected"
    /\ jobPc' = [jobPc EXCEPT ![j] = "idle"]
    /\ connectingJob' = NoJob
    /\ cancelled' = [cancelled EXCEPT ![j] = FALSE]
    /\ UNCHANGED <<serviceVars, held, receiver, open, stopVars, fatal, revoke, races>>

\* tun2socks takes the descriptor of the tun interface.
JobConnected(j) ==
    /\ jobPc[j] = "sendFd" /\ ~cancelled[j]
    /\ <<"conn", j>> \in open /\ \E i \in Jobs : <<"processes", i>> \in open
    /\ held["proxy"] # NoJob
    /\ state' = "Connected"
    /\ jobPc' = [jobPc EXCEPT ![j] = "idle"]
    /\ connectingJob' = NoJob
    /\ UNCHANGED <<serviceVars, held, receiver, open, cancelled, stopVars, fatal, revoke, races>>

\* The retries of sendFd are used up, or data.proxy is null when it returns.
JobSendFdFails(j) ==
    /\ jobPc[j] = "sendFd" /\ ~cancelled[j]
    /\ JobThrows(j, held, open)

\* Mutant: flattening the ACL swallows the cancellation.
JobCancelledNotInAcl(j) ==
    /\ jobPc[j] \notin {"idle", "acl"} /\ cancelled[j]
    /\ connectingJob' = IF jobPc[j] = "queued" THEN connectingJob ELSE NoJob
    /\ jobPc' = [jobPc EXCEPT ![j] = "idle"]
    /\ cancelled' = [cancelled EXCEPT ![j] = FALSE]
    /\ UNCHANGED <<serviceVars, dataVars, stopVars, fatal, revoke, races>>

\* A cancelled job resumes with a CancellationException; the finally block
\* runs unless the job was cancelled before its body began.
JobCancelled(j) ==
    /\ jobPc[j] # "idle" /\ cancelled[j]
    /\ connectingJob' = IF jobPc[j] = "queued" THEN connectingJob ELSE NoJob
    /\ jobPc' = [jobPc EXCEPT ![j] = "idle"]
    /\ cancelled' = [cancelled EXCEPT ![j] = FALSE]
    /\ UNCHANGED <<serviceVars, dataVars, stopVars, fatal, revoke, races>>

-----------------------------------------------------------------------------
(* The stop coroutine *)

\* Mutant: the stop waits for the finally block of the job, not for the job.
StopJoinedByField(s) ==
    /\ stopPc[s] = "joining" /\ connectingJob = NoJob
    /\ CleanUp(s, held, open)
    /\ joined' = [joined EXCEPT ![s] = NoJob]
    /\ UNCHANGED <<serviceVars, state, jobVars, restart, fatal, revoke, races>>

StopJoined(s) ==
    /\ stopPc[s] = "joining" /\ ~Running(joined[s])
    /\ CleanUp(s, held, open)
    /\ joined' = [joined EXCEPT ![s] = NoJob]
    /\ UNCHANGED <<serviceVars, state, jobVars, restart, fatal, revoke, races>>

\* Children of the clean-up scope end: the pool once its processes are dead,
\* the socket listeners once their threads have sent on closeChannel.
ClosePart(s, kinds) ==
    /\ \E r \in closing[s] : r[1] \in kinds
    /\ closing' = [closing EXCEPT ![s] = {r \in @ : r[1] \notin kinds}]
    /\ open' = open \ {r \in closing[s] : r[1] \in kinds}
    /\ UNCHANGED <<serviceVars, state, held, receiver, jobVars, stopPc, restart, joined, fatal, revoke, races>>

PoolClosed(s) == ClosePart(s, {"processes"})
ListenersClosed(s) == ClosePart(s, Listeners)

\* Mutant: the clean-up is launched but not waited for.
StopFinishEarly(s) ==
    /\ stopPc[s] = "cleaning"
    /\ stopPc' = [stopPc EXCEPT ![s] = "idle"]
    /\ state' = "Stopped"
    /\ startsPending' = IF restart[s] /\ alive THEN startsPending + 1 ELSE startsPending
    /\ started' = restart[s]
    /\ restart' = [restart EXCEPT ![s] = FALSE]
    /\ UNCHANGED <<alive, held, receiver, open, jobVars, joined, closing, fatal, revoke, races>>

\* Mutant: the service stops itself whether or not it should restart.
StopFinishAlways(s) ==
    /\ stopPc[s] = "cleaning" /\ closing[s] = {}
    /\ stopPc' = [stopPc EXCEPT ![s] = "idle"]
    /\ state' = "Stopped"
    /\ started' = FALSE
    /\ restart' = [restart EXCEPT ![s] = FALSE]
    /\ UNCHANGED <<alive, startsPending, held, receiver, open, jobVars, joined, closing, fatal, revoke, races>>

StopFinish(s) ==
    /\ stopPc[s] = "cleaning" /\ closing[s] = {}
    /\ stopPc' = [stopPc EXCEPT ![s] = "idle"]
    /\ state' = "Stopped"
    /\ \/ /\ restart[s]
          /\ startsPending' = IF alive THEN startsPending + 1 ELSE startsPending
          /\ started' = TRUE
       \/ /\ ~restart[s]
          /\ started' = FALSE
          /\ UNCHANGED startsPending
    /\ restart' = [restart EXCEPT ![s] = FALSE]
    /\ UNCHANGED <<alive, held, receiver, open, jobVars, joined, closing, fatal, revoke, races>>

-----------------------------------------------------------------------------
(* Other calls of stopRunner *)

\* Mutant: stopSelf is called before the clean-up.
CloseReceivedStopsSelf ==
    /\ receiver
    /\ StopRunner(NoJob, FALSE, held, open)
    /\ started' = FALSE
    /\ UNCHANGED <<alive, startsPending, connectingJob, jobPc, fatal, revoke, races>>

\* Action.CLOSE, delivered only while the receiver is registered.
CloseReceived ==
    /\ receiver
    /\ StopRunner(NoJob, FALSE, held, open)
    /\ UNCHANGED <<serviceVars, connectingJob, jobPc, fatal, revoke, races>>

\* Action.RELOAD: forceLoad.
ReloadReceived ==
    /\ receiver
    /\ \/ /\ state = "Stopped" /\ startsPending < MaxPending
          /\ startsPending' = startsPending + 1
          /\ started' = TRUE
          /\ UNCHANGED <<alive, dataVars, jobVars, stopVars>>
       \/ /\ state \in {"Connecting", "Connected"}
          /\ StopRunner(NoJob, TRUE, held, open)
          /\ UNCHANGED <<serviceVars, connectingJob, jobPc>>
    /\ UNCHANGED <<fatal, revoke, races>>

\* A guard of the pool of j cannot restart its process and posts onFatal.
PoolFatal(j) ==
    /\ <<"processes", j>> \in open /\ j \notin fatal
    /\ fatal' = fatal \cup {j}
    /\ UNCHANGED <<serviceVars, dataVars, jobVars, stopVars, revoke, races>>

FatalDelivered(j) ==
    /\ j \in fatal
    /\ fatal' = fatal \ {j}
    /\ StopRunner(NoJob, FALSE, held, open)
    /\ UNCHANGED <<serviceVars, connectingJob, jobPc, revoke, races>>

Established == \E j \in Jobs : <<"conn", j>> \in open

\* onRevoke when no main-thread step falls inside it.
OnRevoke ==
    /\ Established /\ revoke = "idle"
    /\ StopRunner(NoJob, FALSE, held, open)
    /\ UNCHANGED <<serviceVars, connectingJob, jobPc, fatal, revoke, races>>

\* onRevoke otherwise: the test of state, its assignment and the start of the
\* coroutine on the main thread are separate steps.
RevokeCheck ==
    /\ Established /\ revoke = "idle" /\ state # "Stopping"
    /\ revoke' = "checked"
    /\ races' = races \cup {"revoke"}
    /\ UNCHANGED <<serviceVars, dataVars, jobVars, stopVars, fatal>>

RevokeChange ==
    /\ revoke = "checked"
    /\ revoke' = "changed"
    /\ state' = "Stopping"
    /\ UNCHANGED <<serviceVars, held, receiver, open, jobVars, stopVars, fatal, races>>

RevokeLaunch ==
    /\ revoke = "changed"
    /\ revoke' = "idle"
    /\ LaunchStop(NoJob, FALSE, held, open)
    /\ UNCHANGED <<serviceVars, state, connectingJob, jobPc, fatal, races>>

\* stopSelf has taken effect and nothing is bound: onDestroy. The framework
\* drops the receivers the instance leaves behind.
OnDestroy ==
    /\ alive /\ ~started /\ startsPending = 0
    /\ alive' = FALSE
    /\ receiver' = FALSE
    /\ UNCHANGED <<started, startsPending, state, held, open, jobVars, stopVars, fatal, revoke, races>>

-----------------------------------------------------------------------------
Deliver ==
    \/ OnStartUnprepared
    \/ OnStartIgnored
    \/ \E j \in Jobs : OnStartNoProfile(j) \/ OnStartCommand(j)

JobStep(j) ==
    \/ JobBegin(j)
    \/ JobFlatten(j)
    \/ JobStartProcesses(j)
    \/ JobStartFails(j)
    \/ JobConnected(j)
    \/ JobSendFdFails(j)
    \/ JobCancelled(j)

StopStep(s) ==
    \/ StopJoined(s)
    \/ StopFinish(s)
    \/ PoolClosed(s)
    \/ ListenersClosed(s)

RevokeStep == RevokeChange \/ RevokeLaunch

Next ==
    \/ StartService
    \/ Deliver
    \/ \E j \in Jobs : JobStep(j) \/ PoolFatal(j) \/ FatalDelivered(j)
    \/ \E s \in Stops : StopStep(s)
    \/ CloseReceived
    \/ ReloadReceived
    \/ OnRevoke
    \/ RevokeCheck
    \/ RevokeStep
    \/ OnDestroy

\* The looper delivers every intent and resumes every coroutine; nothing
\* obliges a user, the system or a process to ask for anything. That a pool
\* is joined is not taken for granted (see CloseJoins of GuardedProcessPool).
Fairness ==
    /\ WF_vars(Deliver)
    /\ \A j \in Jobs : WF_vars(JobStep(j)) /\ WF_vars(FatalDelivered(j))
    /\ \A s \in Stops : WF_vars(StopJoined(s) \/ ListenersClosed(s) \/ StopFinish(s))
    /\ WF_vars(RevokeStep)

\* Every pool that a clean-up closes is joined.
PoolsJoin ==
    \A s \in Stops : (\E r \in closing[s] : r[1] = "processes") ~>
                     (\A r \in closing[s] : r[1] # "processes")

Spec == Init /\ [][Next]_vars
FairSpec == Spec /\ Fairness

\* No start overlapped a connecting job and no onRevoke overlapped the main
\* thread: the schedules the source is written for.
Undisturbed == races \cap {"overlap", "revoke"} = {}

\* The behaviours in which clients serialise their starts and the system
\* revokes the VPN without overlapping the main thread, with pools that are
\* joined.
SerialSpec ==
    /\ Init /\ [][Next /\ Undisturbed']_vars
    /\ WF_vars(Deliver /\ Undisturbed')
    /\ \A j \in Jobs : WF_vars(JobStep(j)) /\ WF_vars(FatalDelivered(j))
    /\ \A s \in Stops : WF_vars(StopStep(s))

-----------------------------------------------------------------------------
(* Properties *)

\* A service that is Stopping always has a coroutine (or the binder thread
\* about to launch one) that will move it on; the early return of stopRunner
\* for state Stopping relies on it. This holds under every schedule.
StoppingHasStopper ==
    state = "Stopping" => ~NoStopRuns \/ revoke = "changed"

\* Two clean-ups never run at once: the test of state at the head of
\* stopRunner is enough to serialise every main-thread caller.
OneStopAtATime ==
    Undisturbed => \A s, t \in Stops :
        stopPc[s] # "idle" /\ stopPc[t] # "idle" => s = t

\* connectingJob refers to the only connecting job there is, so that
\* cancelling it in stopRunner stops all connecting.
ConnectingJobIsTheJob ==
    Undisturbed => \A j \in Jobs : jobPc[j] # "idle" => connectingJob = j

\* Every open pool, listener, tun interface and notification can still be
\* reached by the clean-up: a field refers to it or a clean-up waits for it.
NothingLeaks ==
    Undisturbed => \A r \in open : held[r[1]] = r[2] \/ \E s \in Stops : r \in closing[s]

\* A service that says Stopped and is not connecting holds nothing open and
\* has no receiver left.
StoppedIsClean ==
    Undisturbed /\ state = "Stopped" /\ NoJobRuns =>
        open = {} /\ ~receiver

\* A service that says Connected has everything the connecting job acquired,
\* from one and the same job, and all of it is still open.
ConnectedIsServed ==
    Undisturbed /\ state = "Connected" =>
        \E j \in Jobs : \A k \in Kinds : held[k] = j /\ (k # "proxy" => <<k, j>> \in open)

\* While the service connects or is connected a CLOSE broadcast reaches it:
\* Core.stopService is never lost on a running service.
CloseReaches ==
    Undisturbed /\ alive /\ state # "Stopping" /\ (state = "Connected" \/ ~NoJobRuns)
        => receiver

\* When no start was accepted after stopSelf, a destroyed service has nothing
\* running and nothing open.
DestroyedIsClean ==
    races = {} /\ ~alive => NoJobRuns /\ open = {}

\* The states clients see change only along Stopped, Connected, Stopping,
\* Stopped (or Stopped, Stopping, Stopped for a failed attempt).
StateOrder ==
    [][Undisturbed' /\ state' # state =>
        <<state, state'>> \in {<<"Stopped", "Connected">>, <<"Connected", "Stopping">>,
                               <<"Stopped", "Stopping">>, <<"Stopping", "Stopped">>}]_vars

\* Every stop coroutine ends, whatever it has to cancel, join and close, as
\* long as the pool it closes is joined.
StopCompletes == PoolsJoin => \A s \in Stops : stopPc[s] # "idle" ~> stopPc[s] = "idle"

\* A reload of a connected service (stopRunner(true)) hands the service a new
\* start once the old session is gone, if its pool is joined.
RestartStarts ==
    PoolsJoin => \A s \in Stops : stopPc[s] # "idle" /\ restart[s] ~> startsPending > 0 \/ ~alive

\* Every accepted start is settled: the connecting job ends.
JobEnds == \A j \in Jobs : jobPc[j] # "idle" ~> jobPc[j] = "idle"

\* The session as its clients may think of it.
Phase ==
    IF state = "Connected" THEN "up"
    ELSE IF state = "Stopping" THEN "stopping"
    ELSE IF NoJobRuns THEN "down" ELSE "connecting"

Lifecycle == INSTANCE ServiceLifecycle WITH phase <- Phase, using <- (open # {})

\* Sessions that do not overlap follow the lifecycle: nothing of the old
\* session is left when the service is down again, and every attempt and every
\* stop is carried through.
LifecycleSpec == Lifecycle!Spec

\* The comment "ensure stop connecting first": once a stop coroutine is past
\* cancelAndJoin no connecting job runs.
StopEndsConnecting ==
    (\E s \in Stops : stopPc[s] = "cleaning") => NoJobRuns
=============================================================================
