----------------------- MODULE NetworkListenerProofs -----------------------
(***************************************************************************)
(* For any set of networks: the VPN interface follows the network that the *)
(* service holds, the window of startVpn is closed when Callback runs on   *)
(* the main thread, and the service ends up with the system's network.     *)
(*                                                                         *)
(* Followed is not inductive: establish copies what builder was given      *)
(* earlier. PhaseInv says what holds at each point of startVpn, and that   *)
(* the setter is never half done there if it runs on the same thread.      *)
(* CaughtUp speaks only of an empty queue of callbacks; QueueInv says what *)
(* any queue leads to: its last Put decides, unless a loss follows it.     *)
(***************************************************************************)
EXTENDS NetworkListener, TLAPS

PhaseInv ==
    /\ established <=> pc = "up"
    /\ pc \in {"active", "built", "up"} => active
    /\ onMain /\ InStartVpn => ~applying
    /\ pc = "built" /\ ~applying /\ ~raced => builderNet = underlyingNetwork

BoolInv == onMain \in BOOLEAN /\ applying \in BOOLEAN /\ raced \in BOOLEAN
           /\ active \in BOOLEAN /\ established \in BOOLEAN

IInv == BoolInv /\ PhaseInv /\ Followed /\ NoRaceOnMain

\* The state after Init: no interface and nothing running.
LEMMA InitIInv == Init => IInv
BY DEF Init, IInv, BoolInv, PhaseInv, Followed, NoRaceOnMain, InStartVpn

\* Steps of the system leave the service and its interface alone.
LEMMA SystemStep == ASSUME IInv, NetworkChanges \/ CapabilitiesChange PROVE IInv'
<1>1. UNCHANGED <<onMain, actorVars, applying, underlyingNetwork, vpnVars, pc, raced>>
    <2>1. CASE NetworkChanges BY <2>1, Zenon DEF NetworkChanges
    <2>2. CASE CapabilitiesChange BY <2>2, Zenon DEF CapabilitiesChange
    <2> QED BY <2>1, <2>2
<1> QED BY <1>1 DEF actorVars, vpnVars, IInv, BoolInv, PhaseInv, Followed, NoRaceOnMain, InStartVpn

\* A message to the actor starts the setter or leaves the service alone, and
\* on the main thread it is not delivered within startVpn.
LEMMA ActorStep == ASSUME IInv, Put \/ Update \/ Lost PROVE IInv'
<1> USE DEF CanDeliver, Notify, actorVars, vpnVars, IInv, BoolInv, PhaseInv, Followed, NoRaceOnMain,
            InStartVpn
<1>1. CASE Put BY <1>1 DEF Put
<1>2. CASE Update BY <1>2 DEF Update
<1>3. CASE Lost BY <1>3 DEF Lost
<1> QED BY <1>1, <1>2, <1>3

\* The second half of the setter reaches an interface that is there, and is
\* recorded in raced if it comes between builder and establish.
LEMMA ApplyStep == ASSUME IInv, Apply PROVE IInv'
BY DEF Apply, sysVars, actorVars, IInv, BoolInv, PhaseInv, Followed, NoRaceOnMain, InStartVpn

\* One step for each point of the connecting job and for killProcesses.
LEMMA ServiceStep ==
    ASSUME IInv, Start \/ Get \/ Activate \/ Build \/ Establish \/ KillProcesses PROVE IInv'
<1> USE DEF MainFree, sysVars, actorVars, vpnVars, IInv, BoolInv, PhaseInv, Followed, NoRaceOnMain,
            InStartVpn
<1>1. CASE Start BY <1>1 DEF Start
<1>2. CASE Get BY <1>2 DEF Get
<1>3. CASE Activate BY <1>3 DEF Activate
<1>4. CASE Build BY <1>4 DEF Build
<1>5. CASE Establish BY <1>5 DEF Establish
<1>6. CASE KillProcesses BY <1>6 DEF KillProcesses
<1> QED BY <1>1, <1>2, <1>3, <1>4, <1>5, <1>6

\* The invariant holds always.
THEOREM Inductive == Spec => []IInv
<1>1. ASSUME IInv, [Next]_vars PROVE IInv'
    <2>1. CASE Next BY <1>1, <2>1, SystemStep, ActorStep, ApplyStep, ServiceStep DEF Next
    <2>2. CASE UNCHANGED vars
        BY <1>1, <2>2 DEF vars, vpnVars, IInv, BoolInv, PhaseInv, Followed, NoRaceOnMain, InStartVpn
    <2> QED BY <1>1, <2>1, <2>2
<1> QED BY <1>1, InitIInv, PTL DEF Spec

\* Whenever the setter is not running, and did not run into the window of
\* startVpn, the interface uses the network the service holds.
THEOREM InterfaceFollows == Spec => []Followed
<1>1. IInv => Followed BY DEF IInv
<1> QED BY <1>1, Inductive, PTL

\* The setter cannot run in that window when Callback is on the main thread.
THEOREM MainThreadIsSafe == Spec => []NoRaceOnMain
<1>1. IInv => NoRaceOnMain BY DEF IInv
<1> QED BY <1>1, Inductive, PTL

-----------------------------------------------------------------------------
(* The service catches up with the system *)

NoPutFrom(i) == \A k \in i..Len(callbacks) : callbacks[k][1] # "Put"
LostFrom(i, n) == \E k \in i..Len(callbacks) : callbacks[k] = <<"Lost", n>>

\* What the actor's network will be when every callback outstanding is handled:
\* the network of the last Put, or the one it has if there is none, unless that
\* network is lost afterwards.
Heading(n) ==
    \/ \E i \in 1..Len(callbacks) : callbacks[i] = <<"Put", n>> /\ NoPutFrom(i + 1) /\ ~LostFrom(i + 1, n)
    \/ network = n /\ NoPutFrom(1) /\ ~LostFrom(1, n)

HeadingNowhere ==
    \/ \E i \in 1..Len(callbacks), m \in Networks :
            callbacks[i] = <<"Put", m>> /\ NoPutFrom(i + 1) /\ LostFrom(i + 1, m)
    \/ NoPutFrom(1) /\ (network = NoNet \/ LostFrom(1, network))

QueueInv ==
    /\ registered => listening /\ IF sysNet = NoNet THEN HeadingNowhere ELSE Heading(sysNet)
    /\ ~registered => callbacks = <<>> /\ network = NoNet
    /\ underlyingNetwork = network

CInv == TypeOK /\ QueueInv

Messages == {"Put", "Update", "Lost"} \X Networks

\* Every variable of the actor, the service and the system keeps its type.
LEMMA TypeStep == ASSUME TypeOK, [Next]_vars PROVE TypeOK'
<1> USE DEF TypeOK, sysVars, actorVars, vpnVars, MaybeNet
<1>1. ASSUME NEW net \in MaybeNet, Notify(net)
      PROVE  underlyingNetwork' \in MaybeNet /\ applying' \in BOOLEAN
  BY <1>1 DEF Notify
<1>2. ASSUME NEW kind, CanDeliver(kind)
      PROVE  callbacks[1][2] \in Networks /\ Tail(callbacks) \in Seq(Messages)
  BY <1>2 DEF CanDeliver, Messages
<1>3. CASE NetworkChanges
  <2>1. PICK n \in MaybeNet \ {sysNet} :
          /\ sysNet' = n
          /\ LET put == IF n = NoNet THEN <<>> ELSE <<<<"Put", n>>>>
                 lost == IF sysNet = NoNet THEN <<>> ELSE <<<<"Lost", sysNet>>>>
             IN  \/ registered /\ callbacks' = callbacks \o put \o lost
                 \/ registered /\ n # NoNet /\ callbacks' = callbacks \o put
                 \/ ~registered /\ UNCHANGED callbacks
    BY <1>3 DEF NetworkChanges
  <2> DEFINE put == IF n = NoNet THEN <<>> ELSE <<<<"Put", n>>>>
             lost == IF sysNet = NoNet THEN <<>> ELSE <<<<"Lost", sysNet>>>>
  <2>2. /\ <<>> \in Seq(Messages)
        /\ \A kind \in {"Put", "Update", "Lost"}, m \in Networks : <<<<kind, m>>>> \in Seq(Messages)
    BY DEF Messages
  <2>3. put \in Seq(Messages) /\ lost \in Seq(Messages)
    BY <2>2, Zenon
  <2>4. callbacks' = (callbacks \o put) \o lost \/ callbacks' = callbacks \o put \/ callbacks' = callbacks
    BY <2>1, Zenon
  <2> HIDE DEF put, lost
  <2>5. callbacks' \in Seq(Messages)
    <3>1. callbacks \in Seq(Messages)
      BY DEF Messages
    <3>2. callbacks \o put \in Seq(Messages)
      BY <2>3, <3>1
    <3>3. (callbacks \o put) \o lost \in Seq(Messages)
      BY <2>3, <3>2
    <3> QED BY <2>4, <3>1, <3>2, <3>3, Zenon
  <2>6. sysNet' \in MaybeNet
    BY <2>1
  <2> QED BY <1>3, <2>5, <2>6 DEF NetworkChanges, Messages
<1>4. CASE CapabilitiesChange
  <2>1. callbacks' \in Seq(Messages)
    BY <1>4 DEF CapabilitiesChange, Messages
  <2> QED BY <1>4, <2>1 DEF CapabilitiesChange, Messages
<1>5. CASE Put
  <2>1. callbacks' \in Seq(Messages) /\ network' \in Networks
    BY <1>2, <1>5 DEF Put
  <2>2. underlyingNetwork' \in MaybeNet /\ applying' \in BOOLEAN
    BY <1>1, <1>5, <2>1 DEF Put
  <2> QED BY <1>5, <2>1, <2>2 DEF Put, Messages
<1>6. CASE Update
  <2>1. callbacks' \in Seq(Messages)
    BY <1>2, <1>6 DEF Update
  <2>2. underlyingNetwork' \in MaybeNet /\ applying' \in BOOLEAN
    BY <1>1, <1>6 DEF Update
  <2> QED BY <1>6, <2>1, <2>2 DEF Update, Messages
<1>7. CASE Lost
  <2>1. callbacks' \in Seq(Messages)
    BY <1>2, <1>7 DEF Lost
  <2>2. underlyingNetwork' \in MaybeNet /\ applying' \in BOOLEAN /\ network' \in MaybeNet
    BY <1>1, <1>7 DEF Lost
  <2> QED BY <1>7, <2>1, <2>2 DEF Lost, Messages
<1>8. CASE Start
  <2>1. callbacks' \in Seq(Messages) /\ registered' \in BOOLEAN /\ fallback' \in BOOLEAN
    <3>1. sysNet # NoNet => <<<<"Put", sysNet>>>> \in Seq(Messages)
      BY DEF Messages
    <3>2. <<>> \in Seq(Messages) /\ callbacks \in Seq(Messages)
      BY DEF Messages
    <3> QED BY <1>8, <3>1, <3>2 DEF Start
  <2>2. underlyingNetwork' \in MaybeNet /\ applying' \in BOOLEAN
    BY <1>8 DEF Start
  <2> QED BY <1>8, <2>1, <2>2 DEF Start, Messages
<1>9. CASE Apply
  <2>1. raced' \in BOOLEAN
    BY <1>9, Zenon DEF Apply
  <2>2. vpnNet' \in MaybeNet /\ applying' \in BOOLEAN
    BY <1>9 DEF Apply
  <2> QED BY <1>9, <2>1, <2>2 DEF Apply
<1>10. CASE Get
  <2>1. pc' \in {"ready", "getting"} /\ pendingRequests' \in BOOLEAN
    BY <1>10 DEF Get
  <2> QED BY <1>10, <2>1 DEF Get
<1>b. CASE Activate \/ Build
  BY <1>b DEF Activate, Build
<1>11. CASE Establish
  BY <1>11 DEF Establish
<1>a. CASE KillProcesses
  BY <1>a DEF KillProcesses
<1>12. CASE UNCHANGED vars
  BY <1>12 DEF vars
<1> QED BY <1>3, <1>4, <1>5, <1>6, <1>7, <1>8, <1>9, <1>10, <1>11, <1>12, <1>a, <1>b DEF Next

\* The actor takes the first callback.
LEMMA TakenFirst ==
  ASSUME callbacks \in Seq(Messages), callbacks # <<>>, callbacks' = Tail(callbacks)
  PROVE  /\ Len(callbacks) \in Nat \ {0} /\ Len(callbacks') = Len(callbacks) - 1
         /\ \A k \in 1..Len(callbacks') : callbacks'[k] = callbacks[k + 1]
  OBVIOUS

\* What follows callback i moves up by one, and so does callback i unless it is
\* the one that is taken.
LEMMA MovesUp ==
  ASSUME callbacks \in Seq(Messages), callbacks # <<>>, callbacks' = Tail(callbacks),
         NEW i \in 1..Len(callbacks)
  PROVE  /\ i > 1 => i - 1 \in 1..Len(callbacks') /\ callbacks'[i - 1] = callbacks[i]
         /\ NoPutFrom(i + 1) => NoPutFrom(i)'
         /\ \A n : LostFrom(i + 1, n) <=> LostFrom(i, n)'
<1>1. /\ Len(callbacks) \in Nat \ {0} /\ Len(callbacks') = Len(callbacks) - 1
      /\ \A k \in 1..Len(callbacks') : callbacks'[k] = callbacks[k + 1]
  BY TakenFirst
<1>2. i > 1 => i - 1 \in 1..Len(callbacks') /\ callbacks'[i - 1] = callbacks[i]
  BY <1>1
<1>3. NoPutFrom(i + 1) => NoPutFrom(i)'
  BY <1>1 DEF NoPutFrom
<1>4. ASSUME NEW n PROVE LostFrom(i + 1, n) <=> LostFrom(i, n)'
  <2>1. ASSUME NEW k \in (i + 1)..Len(callbacks), callbacks[k] = <<"Lost", n>> PROVE LostFrom(i, n)'
    <3>1. k - 1 \in i..Len(callbacks') /\ callbacks'[k - 1] = callbacks[k]
      BY <1>1
    <3> QED BY <2>1, <3>1 DEF LostFrom
  <2>2. ASSUME NEW k \in i..Len(callbacks'), callbacks'[k] = <<"Lost", n>> PROVE LostFrom(i + 1, n)
    <3>1. k + 1 \in (i + 1)..Len(callbacks) /\ callbacks'[k] = callbacks[k + 1]
      BY <1>1
    <3> QED BY <2>2, <3>1 DEF LostFrom
  <2> QED BY <2>1, <2>2 DEF LostFrom
<1> QED BY <1>2, <1>3, <1>4

\* What the actor does with a callback is what Heading expects of it.
LEMMA HandledQueue == ASSUME TypeOK, QueueInv, Put \/ Update \/ Lost PROVE QueueInv'
<1> DEFINE m == callbacks[1]
<1>1. /\ callbacks # <<>> /\ callbacks' = Tail(callbacks)
      /\ UNCHANGED <<sysNet, registered, listening>>
      /\ \/ m[1] = "Put" /\ network' = m[2]
         \/ m[1] = "Update" /\ network' = network
         \/ m[1] = "Lost" /\ network' = IF network = m[2] THEN NoNet ELSE network
  BY DEF Put, Update, Lost, CanDeliver, actorVars
<1>2. callbacks \in Seq(Messages) /\ Len(callbacks) \in Nat \ {0}
  BY <1>1 DEF TypeOK, Messages
<1>3. m = <<m[1], m[2]>> /\ m[2] \in Networks /\ m[2] # NoNet
  BY <1>1, <1>2, NetAssumption DEF Messages
<1>4. registered /\ listening
  BY <1>1 DEF QueueInv, TypeOK
<1>5. underlyingNetwork' = network'
  <2>1. underlyingNetwork = network
    BY DEF QueueInv
  <2>2. CASE Put BY <1>4, <2>2 DEF Put, Notify
  <2>3. CASE Update BY <1>4, <2>1, <2>3 DEF Update, Notify, actorVars
  <2>4. CASE Lost BY <1>4, <2>1, <2>4 DEF Lost, Notify
  <2> QED BY <2>2, <2>3, <2>4
<1>6. /\ 1 \in 1..Len(callbacks) /\ (NoPutFrom(2) => NoPutFrom(1)')
      /\ \A n : LostFrom(2, n) <=> LostFrom(1, n)'
  <2>1. 1 \in 1..Len(callbacks) /\ 1 + 1 = 2
    BY <1>2
  <2> QED BY <1>1, <1>2, <2>1, MovesUp
<1>7. /\ NoPutFrom(1) => NoPutFrom(2) /\ m[1] # "Put"
      /\ \A n : LostFrom(1, n) <=> m = <<"Lost", n>> \/ LostFrom(2, n)
  BY <1>2 DEF NoPutFrom, LostFrom
<1>8. ASSUME NEW n \in Networks, Heading(n) PROVE Heading(n)'
  <2>1. ASSUME NEW i \in 1..Len(callbacks), callbacks[i] = <<"Put", n>>, NoPutFrom(i + 1),
               ~LostFrom(i + 1, n)
        PROVE  Heading(n)'
    <3>1. CASE i = 1
      <4>1. network' = n /\ NoPutFrom(2) /\ ~LostFrom(2, n)
        BY <1>1, <2>1, <3>1
      <4> QED BY <1>6, <4>1 DEF Heading
    <3>2. CASE i > 1
      <4>1. /\ i - 1 \in 1..Len(callbacks') /\ callbacks'[i - 1] = <<"Put", n>>
            /\ NoPutFrom(i)' /\ ~LostFrom(i, n)' /\ (i - 1) + 1 = i
        BY <1>1, <1>2, <2>1, <3>2, MovesUp
      <4> QED BY <4>1 DEF Heading
    <3> QED BY <1>2, <3>1, <3>2
  <2>2. ASSUME network = n, NoPutFrom(1), ~LostFrom(1, n) PROVE Heading(n)'
    <3>1. network' = n
      BY <1>1, <1>3, <1>7, <2>2
    <3> QED BY <1>6, <1>7, <2>2, <3>1 DEF Heading
  <2> QED BY <1>8, <2>1, <2>2 DEF Heading
<1>9. ASSUME HeadingNowhere PROVE HeadingNowhere'
  <2>1. ASSUME NEW i \in 1..Len(callbacks), NEW n \in Networks, callbacks[i] = <<"Put", n>>,
               NoPutFrom(i + 1), LostFrom(i + 1, n)
        PROVE  HeadingNowhere'
    <3>1. CASE i = 1
      <4>1. network' = n /\ NoPutFrom(2) /\ LostFrom(2, n)
        BY <1>1, <2>1, <3>1
      <4> QED BY <1>6, <4>1 DEF HeadingNowhere
    <3>2. CASE i > 1
      <4>1. /\ i - 1 \in 1..Len(callbacks') /\ callbacks'[i - 1] = <<"Put", n>>
            /\ NoPutFrom(i)' /\ LostFrom(i, n)' /\ (i - 1) + 1 = i
        BY <1>1, <1>2, <2>1, <3>2, MovesUp
      <4> QED BY <4>1 DEF HeadingNowhere
    <3> QED BY <1>2, <3>1, <3>2
  <2>2. ASSUME NoPutFrom(1), network = NoNet \/ LostFrom(1, network) PROVE HeadingNowhere'
    <3>1. network' = NoNet \/ (network' = network /\ LostFrom(2, network))
      BY <1>1, <1>3, <1>7, <2>2
    <3> QED BY <1>6, <1>7, <2>2, <3>1 DEF HeadingNowhere
  <2> QED BY <1>9, <2>1, <2>2 DEF HeadingNowhere
<1> QED BY <1>1, <1>4, <1>5, <1>8, <1>9 DEF QueueInv, TypeOK, MaybeNet

\* What the system announces leads to the network it has now.
LEMMA AnnouncedQueue ==
  ASSUME TypeOK, QueueInv, NetworkChanges \/ CapabilitiesChange PROVE QueueInv'
<1>1. callbacks \in Seq(Messages) /\ Len(callbacks) \in Nat
  BY DEF TypeOK, Messages
<1>2. UNCHANGED <<registered, listening, network, underlyingNetwork>>
  BY DEF NetworkChanges, CapabilitiesChange, actorVars
<1>3. CASE ~registered
  BY <1>2, <1>3 DEF QueueInv, NetworkChanges, CapabilitiesChange
<1>4. CASE registered /\ CapabilitiesChange
  <2>1. sysNet # NoNet /\ sysNet \in Networks /\ Heading(sysNet) /\ sysNet' = sysNet
    BY <1>4 DEF CapabilitiesChange, QueueInv, TypeOK, MaybeNet
  <2>2. /\ Len(callbacks') = Len(callbacks) + 1
        /\ \A k \in 1..Len(callbacks) : callbacks'[k] = callbacks[k]
        /\ callbacks'[Len(callbacks) + 1] = <<"Update", sysNet>>
    BY <1>1, <1>4, <2>1 DEF CapabilitiesChange, Messages
  <2>3. ASSUME NEW i \in 1..(Len(callbacks) + 1)
        PROVE  (NoPutFrom(i) => NoPutFrom(i)') /\ (LostFrom(i, sysNet)' => LostFrom(i, sysNet))
    <3>1. \A k \in i..Len(callbacks') :
            (k \in i..Len(callbacks) /\ callbacks'[k] = callbacks[k]) \/ callbacks'[k] = <<"Update", sysNet>>
      BY <1>1, <2>2
    <3>2. \A k \in i..Len(callbacks') : callbacks'[k] = <<"Lost", sysNet>> => k \in i..Len(callbacks)
      BY <3>1
    <3>3. NoPutFrom(i) => NoPutFrom(i)'
      BY <3>1 DEF NoPutFrom
    <3> QED BY <2>1, <3>1, <3>2, <3>3 DEF LostFrom
  <2>4. Heading(sysNet)'
    <3>1. ASSUME NEW i \in 1..Len(callbacks), callbacks[i] = <<"Put", sysNet>>, NoPutFrom(i + 1),
                 ~LostFrom(i + 1, sysNet)
          PROVE  Heading(sysNet)'
      <4>1. i + 1 \in 1..(Len(callbacks) + 1) /\ i \in 1..Len(callbacks')
        BY <1>1, <2>2
      <4>2. callbacks'[i] = <<"Put", sysNet'>> /\ NoPutFrom(i + 1)' /\ ~LostFrom(i + 1, sysNet)'
        BY <2>1, <2>2, <2>3, <3>1, <4>1
      <4> QED BY <4>1, <4>2 DEF Heading
    <3>2. ASSUME network = sysNet, NoPutFrom(1), ~LostFrom(1, sysNet) PROVE Heading(sysNet)'
      <4>1. 1 \in 1..(Len(callbacks) + 1)
        BY <1>1
      <4>2. NoPutFrom(1)' /\ ~LostFrom(1, sysNet)'
        BY <2>3, <3>2, <4>1
      <4> QED BY <1>2, <2>1, <3>2, <4>2 DEF Heading
    <3> QED BY <2>1, <3>1, <3>2 DEF Heading
  <2> QED BY <1>2, <1>4, <2>1, <2>4 DEF QueueInv
<1>5. CASE registered /\ NetworkChanges /\ sysNet' # NoNet
  <2> DEFINE n == sysNet'
             put == <<<<"Put", n>>>>
             lost == IF sysNet = NoNet THEN <<>> ELSE <<<<"Lost", sysNet>>>>
  <2>1. /\ n \in Networks /\ n # sysNet
        /\ callbacks' = (callbacks \o put) \o lost \/ callbacks' = callbacks \o put
    BY <1>5 DEF NetworkChanges, MaybeNet
  <2>2. /\ callbacks \o put \in Seq(Messages) /\ Len(callbacks \o put) = Len(callbacks) + 1
        /\ (callbacks \o put)[Len(callbacks) + 1] = <<"Put", n>>
    BY <1>1, <2>1 DEF Messages
  <2>3. /\ Len(callbacks) + 1 \in 1..Len(callbacks')
        /\ callbacks'[Len(callbacks) + 1] = <<"Put", n>>
        /\ \A k \in (Len(callbacks) + 2)..Len(callbacks') : callbacks'[k] = <<"Lost", sysNet>>
    <3>1. CASE callbacks' = callbacks \o put
      BY <1>1, <2>2, <3>1
    <3>2. CASE callbacks' = (callbacks \o put) \o lost /\ sysNet = NoNet
      <4>1. callbacks' = callbacks \o put
        BY <2>2, <3>2
      <4> QED BY <3>1, <4>1
    <3>3. CASE callbacks' = (callbacks \o put) \o lost /\ sysNet # NoNet
      <4>1. lost = <<<<"Lost", sysNet>>>> /\ lost \in Seq(Messages) /\ Len(lost) = 1
        BY <3>3 DEF TypeOK, MaybeNet, Messages
      <4> HIDE DEF put, lost
      <4>2. Len(callbacks') = Len(callbacks) + 2
        BY <1>1, <2>2, <3>3, <4>1
      <4>3. callbacks'[Len(callbacks) + 1] = <<"Put", n>>
        BY <1>1, <2>2, <3>3, <4>1
      <4>4. callbacks'[Len(callbacks) + 2] = <<"Lost", sysNet>>
        BY <1>1, <2>2, <3>3, <4>1
      <4> QED BY <1>1, <4>2, <4>3, <4>4
    <3> QED BY <2>1, <3>1, <3>2, <3>3
  <2>4. PICK l \in Nat : l = Len(callbacks) + 1
    BY <1>1
  <2>5. NoPutFrom(l + 1)' /\ ~LostFrom(l + 1, sysNet)'
    <3>1. \A k \in (l + 1)..Len(callbacks') : callbacks'[k] = <<"Lost", sysNet>>
      BY <1>1, <2>3, <2>4
    <3>2. \A k \in (l + 1)..Len(callbacks') : callbacks'[k][1] # "Put" /\ callbacks'[k] # <<"Lost", n>>
      BY <2>1, <3>1
    <3> QED BY <3>2 DEF NoPutFrom, LostFrom
  <2>6. Heading(sysNet)'
    BY <2>3, <2>4, <2>5 DEF Heading
  <2> QED BY <1>2, <1>5, <2>6 DEF QueueInv
<1>6. CASE registered /\ NetworkChanges /\ sysNet' = NoNet
  <2>1. sysNet \in Networks /\ Heading(sysNet) /\ callbacks' = (callbacks \o <<>>) \o <<<<"Lost", sysNet>>>>
    BY <1>6 DEF NetworkChanges, QueueInv, TypeOK, MaybeNet
  <2>2. /\ Len(callbacks') = Len(callbacks) + 1
        /\ \A k \in 1..Len(callbacks) : callbacks'[k] = callbacks[k]
        /\ callbacks'[Len(callbacks) + 1] = <<"Lost", sysNet>>
    <3>1. callbacks \o <<>> = callbacks /\ <<<<"Lost", sysNet>>>> \in Seq(Messages)
      BY <1>1, <2>1 DEF Messages
    <3>2. callbacks' = callbacks \o <<<<"Lost", sysNet>>>>
      BY <2>1, <3>1
    <3> QED BY <1>1, <3>1, <3>2
  <2>3. ASSUME NEW i \in 1..(Len(callbacks) + 1)
        PROVE  (NoPutFrom(i) => NoPutFrom(i)') /\ \E k \in i..Len(callbacks') : callbacks'[k] = <<"Lost", sysNet>>
    <3>1. \A k \in i..Len(callbacks') :
            (k \in i..Len(callbacks) /\ callbacks'[k] = callbacks[k]) \/ callbacks'[k] = <<"Lost", sysNet>>
      BY <1>1, <2>2
    <3>2. NoPutFrom(i) => NoPutFrom(i)'
      BY <3>1 DEF NoPutFrom
    <3>3. Len(callbacks) + 1 \in i..Len(callbacks')
      BY <1>1, <2>2
    <3> QED BY <2>2, <3>2, <3>3
  <2>4. PICK m \in Networks : m = sysNet
    BY <2>1
  <2>5. HeadingNowhere'
    <3>1. ASSUME NEW i \in 1..Len(callbacks), callbacks[i] = <<"Put", sysNet>>, NoPutFrom(i + 1)
          PROVE  HeadingNowhere'
      <4>1. i + 1 \in 1..(Len(callbacks) + 1) /\ i \in 1..Len(callbacks')
        BY <1>1, <2>2
      <4>2. callbacks'[i] = <<"Put", m>> /\ NoPutFrom(i + 1)' /\ LostFrom(i + 1, m)'
        BY <2>2, <2>3, <2>4, <3>1, <4>1 DEF LostFrom
      <4> QED BY <4>1, <4>2 DEF HeadingNowhere
    <3>2. ASSUME network = sysNet, NoPutFrom(1) PROVE HeadingNowhere'
      <4>1. 1 \in 1..(Len(callbacks) + 1)
        BY <1>1
      <4>2. NoPutFrom(1)' /\ LostFrom(1, m)' /\ network' = m
        BY <1>2, <2>3, <2>4, <3>2, <4>1 DEF LostFrom
      <4> QED BY <4>2 DEF HeadingNowhere
    <3> QED BY <2>1, <3>1, <3>2 DEF Heading
  <2> QED BY <1>2, <1>6, <2>5 DEF QueueInv
<1> QED BY <1>3, <1>4, <1>5, <1>6 DEF QueueInv, TypeOK

\* The first listener registers Callback, and the system announces what it has.
LEMMA StartQueue == ASSUME TypeOK, QueueInv, Start PROVE QueueInv'
<1>1. UNCHANGED <<sysNet, network>> /\ listening' /\ underlyingNetwork' = network'
  BY DEF Start, QueueInv
<1>2. CASE UNCHANGED <<registered, callbacks>>
  BY <1>1, <1>2 DEF QueueInv, Heading, HeadingNowhere, NoPutFrom, LostFrom
<1>3. CASE ~listening /\ registered' /\ callbacks' = IF sysNet = NoNet THEN <<>> ELSE <<<<"Put", sysNet>>>>
  <2>1. network = NoNet
    BY <1>3 DEF QueueInv
  <2>2. CASE sysNet = NoNet
    <3>1. callbacks' = <<>> /\ sysNet' = NoNet
      BY <1>1, <1>3, <2>2
    <3>2. NoPutFrom(1)'
      BY <3>1 DEF NoPutFrom
    <3>3. HeadingNowhere'
      BY <1>1, <2>1, <3>2 DEF HeadingNowhere
    <3> QED BY <1>1, <1>3, <3>1, <3>3 DEF QueueInv
  <2>3. CASE sysNet # NoNet
    <3>1. Len(callbacks') = 1 /\ callbacks'[1] = <<"Put", sysNet'>> /\ sysNet' # NoNet
      BY <1>1, <1>3, <2>3
    <3>2. NoPutFrom(2)' /\ ~LostFrom(2, sysNet)'
      BY <3>1 DEF NoPutFrom, LostFrom
    <3>3. 1 \in 1..Len(callbacks') /\ 1 + 1 = 2
      BY <3>1
    <3>4. Heading(sysNet)'
      BY <3>1, <3>2, <3>3 DEF Heading
    <3> QED BY <1>1, <1>3, <3>1, <3>4 DEF QueueInv
  <2> QED BY <2>2, <2>3
<1> QED BY <1>2, <1>3 DEF Start, TypeOK

\* Along every behaviour the queue of callbacks leads to the system's network.
THEOREM QueueInductive == Spec => []CInv
<1>1. Init => CInv
  <2> SUFFICES ASSUME Init PROVE CInv
    OBVIOUS
  <2>1. TypeOK
    <3>1. callbacks \in Seq({"Put", "Update", "Lost"} \X Networks)
      BY DEF Init
    <3> QED BY <3>1, Zenon DEF Init, TypeOK, MaybeNet
  <2>2. QueueInv
    BY DEF Init, QueueInv
  <2> QED BY <2>1, <2>2 DEF CInv
<1>2. ASSUME CInv, [Next]_vars PROVE CInv'
  <2>1. TypeOK'
    BY <1>2, TypeStep DEF CInv
  <2>2. ASSUME UNCHANGED <<sysNet, registered, callbacks, listening, network, underlyingNetwork>>
        PROVE  QueueInv'
    <3>1. QueueInv
      BY <1>2 DEF CInv
    <3>2. (HeadingNowhere' <=> HeadingNowhere) /\ (Heading(sysNet)' <=> Heading(sysNet))
      BY <2>2 DEF Heading, HeadingNowhere, NoPutFrom, LostFrom
    <3> QED BY <2>2, <3>1, <3>2 DEF QueueInv
  <2>3. ASSUME Apply \/ Get \/ Activate \/ Build \/ Establish \/ KillProcesses PROVE QueueInv'
    <3>1. UNCHANGED <<sysNet, registered, callbacks, listening, network, underlyingNetwork>>
      BY <2>3 DEF Apply, Get, Activate, Build, Establish, KillProcesses, sysVars, actorVars
    <3> QED BY <2>2, <3>1
  <2>4. ASSUME UNCHANGED vars PROVE QueueInv'
    <3>1. UNCHANGED <<sysNet, registered, callbacks, listening, network, underlyingNetwork>>
      BY <2>4 DEF vars, sysVars, actorVars
    <3> QED BY <2>2, <3>1
  <2>5. QueueInv'
    BY <1>2, <2>3, <2>4, HandledQueue, AnnouncedQueue, StartQueue DEF Next, CInv
  <2> QED BY <2>1, <2>5 DEF CInv
<1> QED BY <1>1, <1>2, PTL DEF Spec

\* When every callback has been handled the actor and the service hold the
\* network the system has, however changes and losses were interleaved.
THEOREM ServiceCatchesUp == Spec => []CaughtUp
<1>1. CInv => CaughtUp
  <2> SUFFICES ASSUME CInv, registered, callbacks = <<>> PROVE network = sysNet /\ underlyingNetwork = sysNet
    BY DEF CaughtUp
  <2>1. \A i : i \notin 1..Len(callbacks)
    OBVIOUS
  <2> QED BY <2>1 DEF CInv, QueueInv, Heading, HeadingNowhere, LostFrom
<1> QED BY <1>1, QueueInductive, PTL
=============================================================================
