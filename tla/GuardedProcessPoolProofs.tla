---------------------- MODULE GuardedProcessPoolProofs ----------------------
(***************************************************************************)
(* NoOrphan and NoStartAfterClose for any set of guards on any API levels. *)
(* NoOrphan is not inductive: a looper ends on the strength of an exit     *)
(* code it was handed, so the invariant follows the code from the process  *)
(* through the thread's send to the looper.                                *)
(***************************************************************************)
EXTENDS GuardedProcessPool, TLAPS

ExitCodeInv ==
    \A g \in Guards :
        /\ thread[g] = "sending" => process[g] = "exited"
        /\ handed[g] => process[g] = "exited" /\ thread[g] = "none" /\ pc[g] \in Waits
        /\ pc[g] \in {"new", "callback", "done"} => thread[g] = "none"

IInv == TypeOK /\ ExitCodeInv /\ NoOrphan

LEMMA InitInv == Init => IInv
  BY DEF Init, IInv, TypeOK, ExitCodeInv, NoOrphan, Waits

\* Loopers gs, none of them ended, enter their finally block.
LEMMA CleanUpInv ==
  ASSUME IInv, NEW gs \in SUBSET Guards, CleanUp(gs),
         \A g \in gs : pc[g] \in {"waiting", "callback"},
         active' \in BOOLEAN, closer' \in {"none", "joining", "joined"},
         fatal' \subseteq Guards, UNCHANGED <<sdk, callback, process, thread>>
  PROVE  IInv'
<1>1. FirstWait \in Waits \ {"waiting"}
  BY DEF FirstWait, Waits
<1>2. pc' \in [Guards -> Waits \cup {"new", "callback", "done"}]
  BY <1>1 DEF CleanUp, IInv, TypeOK
<1>3. doomed' \in [Guards -> BOOLEAN] /\ handed' \in [Guards -> BOOLEAN] /\ lost' \subseteq Guards
  BY DEF CleanUp, IInv, TypeOK
<1>4. TypeOK'
  BY <1>2, <1>3 DEF IInv, TypeOK
<1>5. \A g \in Guards : /\ pc'[g] = IF g \in gs THEN FirstWait ELSE pc[g]
                        /\ handed'[g] => handed[g] /\ g \notin gs
  BY DEF CleanUp
<1>6. ExitCodeInv'
  BY <1>1, <1>5 DEF IInv, ExitCodeInv, Waits
<1>7. NoOrphan'
  BY <1>1, <1>5 DEF IInv, NoOrphan, Waits
<1> QED BY <1>4, <1>6, <1>7 DEF IInv

LEMMA NextInv == IInv /\ [Next]_vars => IInv'
<1> SUFFICES ASSUME IInv, [Next]_vars PROVE IInv'
  OBVIOUS
<1>1. CASE UNCHANGED vars
  BY <1>1 DEF vars, IInv, TypeOK, ExitCodeInv, NoOrphan
<1>2. CASE Close
  <2>1. {g \in Guards : pc[g] \in {"waiting", "callback"} /\ ~handed[g]} \in SUBSET Guards
    OBVIOUS
  <2> QED BY <1>2, <2>1, CleanUpInv DEF Close, IInv, TypeOK
<1>3. CASE Joined
  BY <1>3 DEF Joined, IInv, TypeOK, ExitCodeInv, NoOrphan
<1>4. ASSUME NEW g \in Guards, Start(g) PROVE IInv'
  BY <1>4 DEF Start, IInv, TypeOK, ExitCodeInv, NoOrphan, Waits
<1>5. ASSUME NEW g \in Guards, ProcessExits(g) PROVE IInv'
  BY <1>5 DEF ProcessExits, IInv, TypeOK, ExitCodeInv, NoOrphan
<1>6. ASSUME NEW g \in Guards, Daemon(g) PROVE IInv'
  <2>1. CASE ThreadSends(g)
    BY <2>1 DEF ThreadSends, IInv, TypeOK, ExitCodeInv, NoOrphan
  <2>2. CASE Rendezvous(g)
    BY <2>2 DEF Rendezvous, IInv, TypeOK, ExitCodeInv, NoOrphan, Waits
  <2> QED BY <1>6, <2>1, <2>2 DEF Daemon
<1>7. ASSUME NEW g \in Guards, Looper(g) PROVE IInv'
  <2>1. CASE Restart(g)
    BY <2>1 DEF Restart, IInv, TypeOK, ExitCodeInv, NoOrphan, Waits
  <2>2. CASE RestartFails(g)
    BY <2>2 DEF RestartFails, IInv, TypeOK, ExitCodeInv, NoOrphan, Waits
  <2>3. CASE CallbackReturns(g)
    BY <2>3 DEF CallbackReturns, IInv, TypeOK, ExitCodeInv, NoOrphan, Waits
  <2>4. CASE CallbackFails(g)
    BY <2>4, CleanUpInv DEF CallbackFails, IInv, TypeOK
  <2>5. CASE ResumeCancelled(g)
    BY <2>5, CleanUpInv DEF ResumeCancelled, IInv, TypeOK
  <2>6. CASE TermTimeout(g) \/ KillTimeout(g)
    <3>1. pc' = [pc EXCEPT ![g] = "lastWait"] /\ handed' = [handed EXCEPT ![g] = FALSE]
          /\ doomed' = [doomed EXCEPT ![g] = TRUE] /\ lost' \subseteq Guards
          /\ UNCHANGED <<sdk, active, closer, callback, process, thread, fatal>>
      BY <2>6 DEF TermTimeout, KillTimeout, Destroy, IInv, TypeOK
    <3> QED BY <3>1 DEF IInv, TypeOK, ExitCodeInv, NoOrphan, Waits
  <2>7. CASE CleanedUp(g)
    BY <2>7 DEF CleanedUp, IInv, TypeOK, ExitCodeInv, NoOrphan, Waits
  <2> QED BY <1>7, <2>1, <2>2, <2>3, <2>4, <2>5, <2>6, <2>7 DEF Looper
<1> QED BY <1>1, <1>2, <1>3, <1>4, <1>5, <1>6, <1>7 DEF Next

\* A looper of GuardedProcessPool ends only when its process is dead and its
\* daemon thread has returned, whatever the API level and the schedule.
THEOREM NoOrphans == Spec => []NoOrphan
<1>1. IInv => NoOrphan
  BY DEF IInv
<1> QED BY <1>1, InitInv, NextInv, PTL DEF Spec

\* After close no looper brings a process back to life: each restart is behind
\* a receive that a cancelled coroutine does not return from.
THEOREM ClosedStaysClosed == Spec => NoStartAfterClose
<1>1. ASSUME TypeOK, [Next]_vars, ~active, NEW g \in Guards, process'[g] = "alive"
      PROVE  process[g] = "alive"
  <2>1. CASE UNCHANGED vars
    BY <1>1, <2>1 DEF vars
  <2>2. CASE Joined
    BY <1>1, <2>2 DEF Joined
  <2>3. ASSUME NEW h \in Guards, ProcessExits(h) \/ Daemon(h) \/ Looper(h)
        PROVE  process' = process \/ process' = [process EXCEPT ![h] = "exited"]
    BY <1>1, <2>3 DEF ProcessExits, Daemon, ThreadSends, Rendezvous, Looper, Restart,
       RestartFails, CallbackReturns, CallbackFails, ResumeCancelled, TermTimeout, KillTimeout,
       Destroy, CleanedUp
  <2>4. ASSUME NEW h \in Guards, process' = [process EXCEPT ![h] = "exited"]
        PROVE  process[g] = "alive"
    BY <1>1, <2>4 DEF TypeOK
  <2> QED BY <1>1, <2>1, <2>2, <2>3, <2>4 DEF Next, Close, Start
<1>2. TypeOK /\ [Next]_vars =>
        [~active => \A g \in Guards : process'[g] = "alive" => process[g] = "alive"]_vars
  BY <1>1
<1>3. IInv => TypeOK
  BY DEF IInv
<1> QED BY <1>2, <1>3, InitInv, NextInv, PTL DEF Spec, NoStartAfterClose
=============================================================================
