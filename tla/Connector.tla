----------------------------- MODULE Connector -----------------------------
(***************************************************************************)
(* The main screen: SpinActivity, its SpinViewModel and the connector      *)
(* (BaseConnector, ShadowsockConnector) that starts and stops the service. *)
(* A toggle is a chain of callbacks: a ten-second animation, which an ad   *)
(* may cut short, a LiveData that waits for the activity to be started, a *)
(* poll of the service's state for ten seconds, another LiveData and a     *)
(* delay of 300 ms.  The button is disabled at the start of the chain and  *)
(* enabled at its end, and the chain can be cut almost anywhere: the       *)
(* activity is recreated, which cancels its coroutines and delivers every  *)
(* LiveData again to the new one; the app is left for longer than three    *)
(* seconds; a second chain is started by linkVpn, which does not look at   *)
(* the button.                                                             *)
(*                                                                         *)
(* All of this is on the main thread of the app's process, and each action *)
(* is what one message of its looper does.  The service is in another      *)
(* process; what its binder tells is the state it is in when the message   *)
(* arrives.  Which server is chosen, the time shown and what is drawn are  *)
(* left out.                                                               *)
(***************************************************************************)
EXTENDS Naturals

CONSTANT
    MaxEvents \* bound on the times the app is left, the activity is recreated or
              \* reopened, and the service stops or dies by itself, taken together

ASSUME BoundAssumption == MaxEvents \in Nat

VARIABLES
    screen, \* what is in front: the main screen, what covers it, or another app
    model,  \* SpinViewModel and its LiveData
    con,    \* BaseConnector, ShadowsockConnector and its connection
    svc,    \* the state the service is in
    left    \* how many of these may still happen

vars == <<screen, model, con, svc, left>>

Toggle == {"none", "connect", "disconnect"}
ConnectState == {"Stopped", "Connecting", "Connected", "Stopping"}

NewModel == [clickable |-> TRUE, mConnectJob |-> "null", forConnect |-> "none",
             ad |-> "none", toggle |-> "none", toggleNew |-> FALSE,
             result |-> FALSE, resultNew |-> FALSE, settling |-> FALSE]

\* Every variable has its type.
TypeOK ==
    /\ screen \in [front : {"home", "perm", "ad", "list", "dialog", "other", "away"},
                   under : {"home", "perm", "ad", "list", "dialog", "other"},
                   needExec : BOOLEAN,   \* needExecBackgroundTask
                   refresh : BOOLEAN]    \* nativeAdRefreshBa
    /\ model \in [clickable : BOOLEAN,
                  mConnectJob : {"null", "running", "ended"}, forConnect : Toggle,
                  ad : Toggle,           \* showConnectAd
                  toggle : Toggle, toggleNew : BOOLEAN,      \* doToggleConnection
                  result : BOOLEAN, resultNew : BOOLEAN,     \* startResultActivity
                  settling : BOOLEAN]    \* the coroutine its observer launches
    /\ con \in [state : ConnectState,
                poll : BOOLEAN, start : BOOLEAN,     \* the two coroutines of connectServiceJob
                shadowsockState : {"Idle", "Stopped", "Connected", "Stopping"},
                link : {"bound", "dead", "binding"},
                told : BOOLEAN, stale : BOOLEAN]
    /\ svc \in {"Stopped", "Starting", "Connected", "Stopping"}
    /\ left \in 0 .. MaxEvents

Started == screen.front \in {"home", "perm"}

\* A LiveData is delivered before anything else when the activity is started.
Idle == ~(Started /\ (model.toggleNew \/ model.resultNew))

AtHome == screen.front = "home" /\ Idle

World == [model |-> model, con |-> con, svc |-> svc]
Becomes(w) == model' = w.model /\ con' = w.con /\ svc' = w.svc

-----------------------------------------------------------------------------
(* BaseConnector *)

\* The setter of state.  stale: Connected was set before the service died, and
\* neither has it been set since nor has the next process been seen Stopping.
SetState(w, s) == [w EXCEPT !.con.state = s, !.con.stale = FALSE]

canStop == con.state = "Connected"

isConnected(w) == w.con.shadowsockState = "Connected"

\* Core.stopService: a broadcast, received while the service connects or is
\* connected.
stop(w) ==
    [w EXCEPT !.svc = IF @ \in {"Starting", "Connected"} THEN "Stopping" ELSE @]

\* BaseConnector's destroyConnectJob: the poll ends, and so does a start that
\* has not been run yet.
CancelConnectService(w) == [w EXCEPT !.con.poll = FALSE, !.con.start = FALSE]

connectServiceInternal(w) ==
    [w EXCEPT !.con.poll = TRUE, !.con.start = TRUE]

\* The callback SpinViewModel.doToggleConnection hands to the connector.
OnStartResult(w, forConnect, connected) ==
    IF forConnect = "connect" /\ ~connected
    THEN [w EXCEPT !.model.clickable = TRUE]
    ELSE [w EXCEPT !.model.result = TRUE, !.model.resultNew = TRUE]

disconnectServiceInternal(w) ==
    OnStartResult(SetState(stop(w), "Stopped"), "disconnect", FALSE)

doToggleConnection(w, forConnect) ==
    IF forConnect = "connect" THEN connectServiceInternal(w)
                              ELSE disconnectServiceInternal(w)

\* The IO coroutine: start() starts the service, if there is a server to use.
\* The time the intent takes is part of the time the coroutine does.
Start ==
    /\ con.start
    /\ con' = [con EXCEPT !.start = FALSE]
    /\ svc' \in {svc, IF svc = "Stopped" THEN "Starting" ELSE svc}
    /\ UNCHANGED <<screen, model, left>>

\* The poll sees Connected, or gives up after ten seconds.
PollEnds ==
    /\ con.poll
    /\ Becomes(IF isConnected(World)
               THEN OnStartResult([SetState(World, "Connected") EXCEPT !.con.poll = FALSE],
                                  "connect", TRUE)
               ELSE OnStartResult(SetState(stop(CancelConnectService(World)), "Stopped"),
                                  "connect", FALSE))
    /\ UNCHANGED <<screen, left>>

-----------------------------------------------------------------------------
(* SpinViewModel *)

prepareToggleConnection(w, forConnect) ==
    [SetState(w, IF forConnect = "connect" THEN "Connecting" ELSE "Stopping")
        EXCEPT !.model.clickable = FALSE, !.model.mConnectJob = "running",
               !.model.forConnect = forConnect]

\* Nothing happens without a network or when the service is connected; without
\* permission the system asks for it.
openConnection(scr) ==
    \/ UNCHANGED <<model, con, svc>> /\ screen' = scr
    \/ /\ ~isConnected(World)
       /\ \/ Becomes(prepareToggleConnection(World, "connect")) /\ screen' = scr
          \/ UNCHANGED <<model, con, svc>> /\ screen' = [scr EXCEPT !.front = "perm"]

closeConnection(scr) ==
    Becomes(prepareToggleConnection(World, "disconnect")) /\ screen' = scr

\* The button.
toggleConnection ==
    /\ AtHome /\ model.clickable
    /\ IF canStop THEN closeConnection(screen) ELSE openConnection(screen)
    /\ UNCHANGED left

\* The answer to the question for permission.
PermissionResult ==
    /\ screen.front = "perm" /\ Idle
    /\ screen' = [screen EXCEPT !.front = "home"]
    /\ \/ Becomes(prepareToggleConnection(World, "connect"))
       \/ UNCHANGED <<model, con, svc>>
    /\ UNCHANGED left

\* getVpnPlan, when the app has come to the foreground.
linkVpn ==
    /\ AtHome /\ screen.refresh
    /\ LET scr == [screen EXCEPT !.refresh = FALSE] IN
       \/ ~canStop /\ openConnection(scr)
       \/ UNCHANGED <<model, con, svc>> /\ screen' = scr
    /\ UNCHANGED left

\* The list of servers, and its dialog when the state is Connected.
OpenList ==
    /\ AtHome /\ model.clickable
    /\ screen' = [screen EXCEPT !.front = "list"]
    /\ UNCHANGED <<model, con, svc, left>>

onNewConnection ==
    /\ screen.front = "list" /\ con.state = "Connected"
    /\ screen' = [screen EXCEPT !.front = "dialog"]
    /\ UNCHANGED <<model, con, svc, left>>

\* onActivityResult with the chosen action, or without one.
onActivityResult ==
    LET scr == [screen EXCEPT !.front = "home"] IN
    /\ \/ screen.front = "list" /\ con.state # "Connected" /\ openConnection(scr)
       \/ screen.front = "dialog" /\ closeConnection(scr)
       \/ /\ screen.front \in {"list", "dialog", "other"}
          /\ screen' = scr /\ UNCHANGED <<model, con, svc>>
    /\ UNCHANGED left

\* The observer of doToggleConnection is called at once if the activity is
\* started, and when it starts otherwise.
SetToggle(w, forConnect, started) ==
    LET v == [w EXCEPT !.model.toggle = forConnect] IN
    IF started THEN doToggleConnection([v EXCEPT !.model.toggleNew = FALSE], forConnect)
               ELSE [v EXCEPT !.model.toggleNew = TRUE]

\* The animation ends.  mConnectJob is kept.
AnimationEnds ==
    /\ AtHome /\ model.mConnectJob = "running"
    /\ Becomes(SetToggle([World EXCEPT !.model.mConnectJob = "ended", !.model.forConnect = "none"],
                         model.forConnect, TRUE))
    /\ UNCHANGED <<screen, left>>

\* An ad is there before that: it is shown, or it cannot be and the toggle
\* goes on at once.
AnimationFindsAd ==
    LET w == [World EXCEPT !.model.mConnectJob = "null", !.model.forConnect = "none",
                        !.model.ad = model.forConnect] IN
    /\ AtHome /\ model.mConnectJob = "running"
    /\ \/ Becomes(w) /\ screen' = [screen EXCEPT !.front = "ad"]
       \/ Becomes(SetToggle(w, model.forConnect, TRUE)) /\ UNCHANGED screen
    /\ UNCHANGED left

AdDismissed ==
    /\ screen.front = "ad"
    /\ screen' = [screen EXCEPT !.front = "home"]
    /\ Becomes(SetToggle(World, model.ad, FALSE))
    /\ UNCHANGED left

\* What waited for the activity to be started: in the order the observers
\* were added.
Deliver ==
    /\ ~Idle
    /\ LET w == [World EXCEPT !.model.resultNew = FALSE,
                              !.model.settling = @ \/ model.resultNew]
       IN  Becomes(IF model.toggleNew THEN SetToggle(w, model.toggle, TRUE) ELSE w)
    /\ UNCHANGED <<screen, left>>

\* The coroutine of startResultActivity's observer, 300 ms later.  Two of them
\* are one here: the second only enables the button again.
Settle ==
    /\ model.settling
    /\ model' = [model EXCEPT !.settling = FALSE, !.clickable = TRUE]
    /\ screen' = IF screen.front = "home" THEN [screen EXCEPT !.front = "other"] ELSE screen
    /\ UNCHANGED <<con, svc, left>>

\* resumeConnection
resumeConnection(w) ==
    IF w.con.state = "Connecting" THEN SetState(w, "Stopped")
    ELSE IF w.con.state = "Stopping" THEN SetState(w, "Connected")
    ELSE w

\* Mutant: the toggle is undone, the button stays disabled.
interceptToggleConnectionForgets(w) ==
    IF w.model.mConnectJob = "null" THEN w
    ELSE [resumeConnection(w) EXCEPT !.model.mConnectJob = "null",
                                     !.model.forConnect = "none"]

interceptToggleConnection(w) ==
    IF w.model.mConnectJob = "null" THEN w
    ELSE [resumeConnection(w) EXCEPT !.model.mConnectJob = "null",
                                     !.model.forConnect = "none", !.model.clickable = TRUE]

-----------------------------------------------------------------------------
(* The activity and the app *)

\* Another app comes to the front.
Away ==
    /\ screen.front # "away" /\ Idle /\ left > 0
    /\ screen' = [screen EXCEPT !.front = "away", !.under = screen.front]
    /\ left' = left - 1
    /\ UNCHANGED <<model, con, svc>>

\* Hot.onHotBackground, three seconds later: an ad is closed.
LongAway ==
    /\ screen.front = "away" /\ ~screen.needExec
    /\ screen' = [screen EXCEPT !.needExec = TRUE,
                                !.under = IF @ = "ad" THEN "home" ELSE @]
    /\ IF screen.under = "ad" THEN Becomes(SetToggle(World, model.ad, FALSE))
                              ELSE UNCHANGED <<model, con, svc>>
    /\ UNCHANGED left

\* Hot.onHotForeground runs mAdTask before the activity is started.
Return ==
    /\ screen.front = "away"
    /\ screen' = [screen EXCEPT !.front = screen.under, !.under = "home", !.needExec = FALSE, !.refresh = TRUE]
    /\ Becomes(IF screen.needExec THEN interceptToggleConnection(World) ELSE World)
    /\ UNCHANGED left

\* onDestroy of the activity and of the model: the coroutines of the activity
\* are cancelled and the connection is closed.
onDestroy(w) ==
    interceptToggleConnection(
        [CancelConnectService(w) EXCEPT !.model.settling = FALSE,
            !.con.link = "binding", !.con.shadowsockState = "Idle", !.con.told = FALSE])

\* The new activity observes the LiveData of the old one's model, which still
\* have their values; not being resumed it cannot show the ad.
Redeliver(w) ==
    LET r == [w EXCEPT !.model.resultNew = FALSE, !.model.settling = w.model.result]
        t == IF r.model.toggle = "none" THEN r ELSE SetToggle(r, r.model.toggle, TRUE)
    IN  IF t.model.ad = "none" THEN t ELSE SetToggle(t, t.model.ad, TRUE)

\* onCreate of the new activity: getVpnPlan may link at once, before anything
\* is delivered to it.
onCreate(w, v) ==
    \/ v = w /\ screen' = screen
    \/ /\ w.con.state # "Connected"
       /\ \/ v = prepareToggleConnection(w, "connect") /\ screen' = screen
          \/ v = w /\ screen' = [screen EXCEPT !.front = "perm"]

Created(w) == {w, prepareToggleConnection(w, "connect")}

\* A configuration change.
Recreate ==
    /\ screen.front = "home" /\ left > 0
    /\ LET w == onDestroy(World) IN
       \E v \in Created(w) : onCreate(w, v) /\ Becomes(Redeliver(v))
    /\ left' = left - 1

\* The activity is finished and opened again, with a new model; the state of
\* BaseConnector is static.
Reopen ==
    /\ AtHome /\ left > 0
    /\ LET w == [onDestroy(World) EXCEPT !.model = NewModel] IN
       \E v \in Created(w) : onCreate(w, v) /\ Becomes(v)
    /\ left' = left - 1

-----------------------------------------------------------------------------
(* The service, as its binder shows it *)

\* The state the service reports: it is Stopped while it connects.
Shown == IF svc = "Starting" THEN "Stopped" ELSE svc

\* The connecting job ends, or a stop does.
ServiceGoesOn ==
    /\ \/ svc = "Starting" /\ svc' \in {"Connected", "Stopping"}
       \/ svc = "Stopping" /\ svc' = "Stopped"
    /\ UNCHANGED <<screen, model, con, left>>

\* A revocation, a fatal error or a click in the notification.
ServiceStopsItself ==
    /\ svc = "Connected" /\ left > 0
    /\ svc' = "Stopping"
    /\ left' = left - 1
    /\ UNCHANGED <<screen, model, con>>

ServiceDies ==
    /\ con.link = "bound" /\ left > 0
    /\ svc' = "Stopped"
    /\ con' = [con EXCEPT !.link = "dead", !.told = FALSE, !.stale = con.state = "Connected"]
    /\ left' = left - 1
    /\ UNCHANGED <<screen, model>>

\* ShadowsockConnector.stateChanged
stateChanged ==
    /\ con.link = "bound" /\ con.shadowsockState # Shown
    /\ con' = [con EXCEPT !.shadowsockState = Shown]
    /\ UNCHANGED <<screen, model, svc, left>>

\* The framework tells of the death.
onServiceDisconnected ==
    /\ con.link = "dead" /\ ~con.told
    /\ Becomes([SetState(World, "Stopped") EXCEPT !.con.told = TRUE])
    /\ UNCHANGED <<screen, left>>

\* Unbinds and binds again.
onBinderDied ==
    /\ con.link = "dead"
    /\ con' = [con EXCEPT !.link = "binding", !.told = FALSE]
    /\ UNCHANGED <<screen, model, svc, left>>

\* Mutant: only a connected service is taken notice of.
onServiceConnectedUp ==
    /\ con.link = "binding"
    /\ LET w == [World EXCEPT !.con.link = "bound", !.con.shadowsockState = Shown,
                            !.con.stale = @ /\ Shown # "Stopping"] IN
       Becomes(IF Shown = "Connected" THEN SetState(w, "Connected") ELSE w)
    /\ UNCHANGED <<screen, left>>

onServiceConnected ==
    /\ con.link = "binding"
    /\ LET w == [World EXCEPT !.con.link = "bound", !.con.shadowsockState = Shown,
                            !.con.stale = @ /\ Shown # "Stopping"] IN
       Becomes(IF Shown = "Stopping" THEN w ELSE SetState(w, Shown))
    /\ UNCHANGED <<screen, left>>

-----------------------------------------------------------------------------

Init ==
    /\ screen = [front |-> "home", under |-> "home", needExec |-> FALSE, refresh |-> TRUE]
    /\ model = NewModel
    /\ con = [state |-> "Stopped", poll |-> FALSE, start |-> FALSE,
              shadowsockState |-> "Idle", link |-> "binding", told |-> FALSE, stale |-> FALSE]
    /\ svc \in {"Stopped", "Connected"}
    /\ left = MaxEvents

User == toggleConnection \/ linkVpn \/ OpenList \/ onNewConnection \/ Away \/ LongAway
            \/ Recreate \/ Reopen

ScreenGoesOn == PermissionResult \/ onActivityResult \/ AdDismissed \/ Return
Animation == AnimationEnds \/ AnimationFindsAd
ServiceEvent == ServiceGoesOn \/ ServiceStopsItself \/ ServiceDies
Told == stateChanged \/ onServiceDisconnected \/ onBinderDied \/ onServiceConnected

Next ==
    \/ User \/ ScreenGoesOn \/ Animation \/ ServiceEvent \/ Told
    \/ Start \/ PollEnds \/ Deliver \/ Settle

Spec == Init /\ [][Next]_vars

\* The looper runs what is posted to it, the animator is driven by frames, the
\* user comes back, closes the ad and answers, and the framework tells of a
\* death and binds.  Nothing is asked of the service.
Fairness ==
    /\ WF_vars(ScreenGoesOn) /\ WF_vars(Animation)
    /\ WF_vars(PollEnds) /\ WF_vars(Deliver) /\ WF_vars(Settle)
    /\ WF_vars(onBinderDied) /\ WF_vars(onServiceConnected)

FairSpec == Spec /\ Fairness

-----------------------------------------------------------------------------

\* The button is never disabled for good: wherever the chain that a toggle
\* started is cut, something enables the button again.
ClickableReturns == ~model.clickable ~> model.clickable

\* That the service died does not stay hidden: whichever of the two reports of
\* the death comes first, the state the screen shows is set anew, unless the
\* connection made after it finds the next process Stopping.
CrashIsShown == con.stale ~> ~con.stale
=============================================================================
