-------------------------- MODULE ServiceLifecycle --------------------------
(***************************************************************************)
(* What the VPN service promises its clients: one session at a time, which *)
(* connects, is up, and is torn down completely before it is down again.   *)
(* ServiceRunner implements it as long as starts do not overlap.           *)
(***************************************************************************)
VARIABLES
    phase,  \* "down", "connecting", "up" or "stopping"
    using   \* some process, socket, tun interface or notification is open

lifecycleVars == <<phase, using>>

Init == phase = "down" /\ using = FALSE

Start ==
    /\ phase = "down"
    /\ phase' = "connecting" /\ using' = TRUE

Establish ==
    /\ phase = "connecting" /\ using
    /\ phase' = "up" /\ UNCHANGED using

\* Stopping gives back at once what needs no waiting for.
Stop ==
    /\ phase # "stopping"
    /\ phase' = "stopping" /\ using' \in {using, FALSE}

Release ==
    /\ phase = "stopping" /\ using
    /\ using' = FALSE /\ UNCHANGED phase

Finish ==
    /\ phase = "stopping" /\ ~using
    /\ phase' = "down" /\ UNCHANGED using

Next == Start \/ Establish \/ Stop \/ Release \/ Finish

\* An attempt to connect is settled, and a stop is carried through.
Fairness ==
    /\ WF_lifecycleVars(Establish \/ (phase = "connecting" /\ Stop))
    /\ WF_lifecycleVars(Release)
    /\ WF_lifecycleVars(Finish)

Spec == Init /\ [][Next]_lifecycleVars /\ Fairness
=============================================================================
