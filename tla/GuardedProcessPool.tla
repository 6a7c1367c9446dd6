------------------------- MODULE GuardedProcessPool -------------------------
(***************************************************************************)
(* GuardedProcessPool: the native processes of a session (sslocal, the     *)
(* plugin, tun2socks), each supervised by the looper coroutine of a Guard. *)
(* A looper restarts its process when it exits and kills it when the pool  *)
(* is closed; close lets the caller's scope join all loopers.              *)
(*                                                                         *)
(* Loopers and close run on the main thread. Beside them there are, for    *)
(* every guard, the operating system's process and the daemon thread that  *)
(* waits for its exit and sends the code on the rendezvous exitChannel.    *)
(* handed marks a code that a send has passed to a suspended receive whose *)
(* coroutine has not been dispatched yet: a coroutine cancelled at that    *)
(* moment resumes with the cancellation, and the code is lost.             *)
(***************************************************************************)
EXTENDS Naturals

CONSTANTS
    Guards,      \* the commands start is called with
    SdkInts      \* the values of Build.VERSION.SDK_INT considered

ASSUME SdkAssumption == SdkInts \subseteq Nat

VARIABLES
    sdk,         \* Build.VERSION.SDK_INT
    active,      \* the pool's job has not been cancelled
    closer,      \* the child that close launches in the caller's scope
    pc,          \* the looper of each guard
    callback,    \* whether the guard has an onRestartCallback
    process, doomed,  \* the current process; whether it must die
    thread, handed,   \* its daemon thread; a code on its way to the looper
    fatal,       \* guards that have posted onFatal
    lost         \* history: guards that began to kill a process nobody reports on

vars == <<sdk, active, closer, pc, callback, process, doomed, thread, handed, fatal, lost>>

Waits == {"waiting", "termWait", "killWait", "lastWait"}

TypeOK ==
    /\ sdk \in SdkInts /\ active \in BOOLEAN /\ closer \in {"none", "joining", "joined"}
    /\ pc \in [Guards -> Waits \cup {"new", "callback", "done"}]
    /\ callback \in [Guards -> BOOLEAN]
    /\ process \in [Guards -> {"none", "alive", "exited"}] /\ doomed \in [Guards -> BOOLEAN]
    /\ thread \in [Guards -> {"none", "waitFor", "sending"}] /\ handed \in [Guards -> BOOLEAN]
    /\ fatal \subseteq Guards /\ lost \subseteq Guards

Init ==
    /\ sdk \in SdkInts /\ active = TRUE /\ closer = "none"
    /\ pc = [g \in Guards |-> "new"]
    /\ callback = [g \in Guards |-> FALSE]
    /\ process = [g \in Guards |-> "none"] /\ doomed = [g \in Guards |-> FALSE]
    /\ thread = [g \in Guards |-> "none"] /\ handed = [g \in Guards |-> FALSE]
    /\ fatal = {} /\ lost = {}

-----------------------------------------------------------------------------
\* The process of g will be reported on: its thread runs.
Watched(g) == thread[g] # "none"

\* The finally block of a looper with a running process, up to its first
\* suspension: SIGTERM and half a second before API 24, destroy afterwards,
\* with a second to comply from API 26 on.
FirstWait == IF sdk < 24 THEN "termWait" ELSE IF sdk < 26 THEN "lastWait" ELSE "killWait"

CleanUp(gs) ==
    /\ pc' = [g \in Guards |-> IF g \in gs THEN FirstWait ELSE pc[g]]
    /\ doomed' = [g \in Guards |-> doomed[g] \/ (g \in gs /\ FirstWait = "lastWait")]
    /\ handed' = [g \in Guards |-> handed[g] /\ g \notin gs]
    /\ lost' = lost \cup {g \in gs : ~Watched(g)}

\* start of the pool: the process is created, its looper runs to its receive.
Start(g) ==
    /\ active /\ pc[g] = "new"
    /\ pc' = [pc EXCEPT ![g] = "waiting"]
    /\ process' = [process EXCEPT ![g] = "alive"] /\ thread' = [thread EXCEPT ![g] = "waitFor"]
    /\ \E b \in BOOLEAN : callback' = [callback EXCEPT ![g] = b]
    /\ UNCHANGED <<sdk, active, closer, doomed, handed, fatal, lost>>

\* A process may exit at any time; once killed it has to.
ProcessExits(g) ==
    /\ process[g] = "alive"
    /\ process' = [process EXCEPT ![g] = "exited"]
    /\ UNCHANGED <<sdk, active, closer, pc, callback, doomed, thread, handed, fatal, lost>>

\* waitFor returns and the thread blocks in send.
ThreadSends(g) ==
    /\ thread[g] = "waitFor" /\ process[g] = "exited"
    /\ thread' = [thread EXCEPT ![g] = "sending"]
    /\ UNCHANGED <<sdk, active, closer, pc, callback, process, doomed, handed, fatal, lost>>

\* The send meets a suspended receive; the looper is dispatched later.
Rendezvous(g) ==
    /\ thread[g] = "sending" /\ pc[g] \in Waits
    /\ thread' = [thread EXCEPT ![g] = "none"] /\ handed' = [handed EXCEPT ![g] = TRUE]
    /\ UNCHANGED <<sdk, active, closer, pc, callback, process, doomed, fatal, lost>>

\* The looper restarts its process, and calls onRestartCallback if there is one
\* before it starts a thread for the new process.
Restart(g) ==
    /\ active /\ pc[g] = "waiting" /\ handed[g]
    /\ handed' = [handed EXCEPT ![g] = FALSE]
    /\ process' = [process EXCEPT ![g] = "alive"]
    /\ pc' = [pc EXCEPT ![g] = IF callback[g] THEN "callback" ELSE "waiting"]
    /\ thread' = [thread EXCEPT ![g] = IF callback[g] THEN "none" ELSE "waitFor"]
    /\ UNCHANGED <<sdk, active, closer, callback, doomed, fatal, lost>>

\* Mutant: the failure is only logged.
RestartFailsSilently(g) ==
    /\ active /\ pc[g] = "waiting" /\ handed[g]
    /\ handed' = [handed EXCEPT ![g] = FALSE]
    /\ pc' = [pc EXCEPT ![g] = "done"]
    /\ UNCHANGED <<sdk, active, closer, callback, process, doomed, thread, fatal, lost>>

\* The process cannot be started again: onFatal is posted. This is the only
\* way to leave the loop with running = false, so nothing is killed.
RestartFails(g) ==
    /\ active /\ pc[g] = "waiting" /\ handed[g]
    /\ handed' = [handed EXCEPT ![g] = FALSE]
    /\ pc' = [pc EXCEPT ![g] = "done"]
    /\ fatal' = fatal \cup {g}
    /\ UNCHANGED <<sdk, active, closer, callback, process, doomed, thread, lost>>

CallbackReturns(g) ==
    /\ pc[g] = "callback"
    /\ pc' = [pc EXCEPT ![g] = "waiting"] /\ thread' = [thread EXCEPT ![g] = "waitFor"]
    /\ UNCHANGED <<sdk, active, closer, callback, process, doomed, handed, fatal, lost>>

\* The callback gives up with an IOException, as sendFd does after its retries.
CallbackFails(g) ==
    /\ pc[g] = "callback"
    /\ fatal' = fatal \cup {g}
    /\ CleanUp({g})
    /\ UNCHANGED <<sdk, active, closer, callback, process, thread>>

\* close: cancelling the pool's job resumes every suspended looper with the
\* cancellation at once, except those that have been dispatched already.
Close ==
    /\ active
    /\ active' = FALSE /\ closer' = "joining"
    /\ CleanUp({g \in Guards : pc[g] \in {"waiting", "callback"} /\ ~handed[g]})
    /\ UNCHANGED <<sdk, callback, process, thread, fatal>>

\* A looper that was handed an exit code finds itself cancelled.
ResumeCancelled(g) ==
    /\ ~active /\ pc[g] = "waiting" /\ handed[g]
    /\ CleanUp({g})
    /\ UNCHANGED <<sdk, active, closer, callback, process, thread, fatal>>

\* withTimeoutOrNull expires; a code handed over too late is lost with it.
Destroy(g, next, kills) ==
    /\ pc' = [pc EXCEPT ![g] = next]
    /\ doomed' = [doomed EXCEPT ![g] = @ \/ kills]
    /\ handed' = [handed EXCEPT ![g] = FALSE]
    /\ lost' = IF Watched(g) THEN lost ELSE lost \cup {g}
    /\ UNCHANGED <<sdk, active, closer, callback, process, thread, fatal>>

TermTimeout(g) == pc[g] = "termWait" /\ Destroy(g, "lastWait", TRUE)

\* Mutant: the process that did not comply is not killed.
KillTimeoutSpares(g) == pc[g] = "killWait" /\ Destroy(g, "lastWait", FALSE)

\* Mutant: the exit of the killed process is not waited for.
KillTimeoutLeaves(g) == pc[g] = "killWait" /\ Destroy(g, "done", TRUE)

KillTimeout(g) == pc[g] = "killWait" /\ Destroy(g, "lastWait", TRUE)

\* The exit code of the killed process arrives.
CleanedUp(g) ==
    /\ pc[g] \in Waits \ {"waiting"} /\ handed[g]
    /\ pc' = [pc EXCEPT ![g] = "done"] /\ handed' = [handed EXCEPT ![g] = FALSE]
    /\ UNCHANGED <<sdk, active, closer, callback, process, doomed, thread, fatal, lost>>

\* The child of the caller's scope has joined the pool's job.
Joined ==
    /\ closer = "joining" /\ \A g \in Guards : pc[g] \in {"new", "done"}
    /\ closer' = "joined"
    /\ UNCHANGED <<sdk, active, pc, callback, process, doomed, thread, handed, fatal, lost>>

-----------------------------------------------------------------------------
Looper(g) ==
    \/ Restart(g)
    \/ RestartFails(g)
    \/ CallbackReturns(g)
    \/ CallbackFails(g)
    \/ ResumeCancelled(g)
    \/ TermTimeout(g)
    \/ KillTimeout(g)
    \/ CleanedUp(g)

Daemon(g) == ThreadSends(g) \/ Rendezvous(g)

Next ==
    \/ Close
    \/ Joined
    \/ \E g \in Guards : Start(g) \/ ProcessExits(g) \/ Daemon(g) \/ Looper(g)

\* Coroutines and threads are scheduled, timeouts expire, sendFd's retries are
\* bounded, and a process that was killed for good dies.
Fairness ==
    /\ WF_vars(Joined)
    /\ \A g \in Guards :
        /\ WF_vars(Daemon(g))
        /\ WF_vars(Looper(g))
        /\ WF_vars(doomed[g] /\ ProcessExits(g))

Spec == Init /\ [][Next]_vars
FairSpec == Spec /\ Fairness

-----------------------------------------------------------------------------
(* Properties *)

\* A looper that has ended leaves neither a process nor a thread behind, so
\* that the join of close means the processes are gone.
NoOrphan ==
    \A g \in Guards : pc[g] = "done" => process[g] # "alive" /\ thread[g] = "none"

\* No process is started once the pool is closed.
NoStartAfterClose ==
    [][~active => \A g \in Guards : process'[g] = "alive" => process[g] = "alive"]_vars

\* A process that exits while the pool is open is replaced, or the pool reports
\* that it cannot: no guard of an open pool waits for ever on a dead process.
RestartOrFatal ==
    \A g \in Guards : pc[g] = "waiting" /\ process[g] = "exited" ~>
        process[g] = "alive" \/ g \in fatal \/ ~active

\* close is joined unless some guard set out to kill a process whose exit
\* nobody will report.
CloseJoinsUnlessLost == closer = "joining" ~> closer = "joined" \/ lost # {}

\* The clean-up "cannot be cancelled" and kills the process "if it's still
\* alive": once closed, the pool is joined.
CloseJoins == closer = "joining" ~> closer = "joined"
=============================================================================
