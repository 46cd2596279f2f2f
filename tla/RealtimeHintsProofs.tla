------------------------ MODULE RealtimeHintsProofs ------------------------
(***************************************************************************)
(* A tab of RealtimeHints has one live socket at most, whatever timers and *)
(* late close events there are, every variable keeps its type, and a tab   *)
(* that is connected shows, or is about to be told of, all it was promised *)
(* by the catch-up and by the hints.                                       *)
(***************************************************************************)
EXTENDS RealtimeHints, TLAPS

\* A socket that has not been let go of, whether or not it still carries messages.
Kept(s) == near[s] \in {"connecting", "open", "closing"}

\* It is the one the client holds, the client has not been disposed, and no timer is
\* going to open another one next to it.
SocketInv == \A s \in Socket : Kept(s) => s = ws /\ mounted /\ ~reconnectTimer

\* Timers belong to a mounted tab, and the auth timer to a client that waits.
TimerInv ==
    /\ reconnectTimer => mounted
    /\ authTimer # None => ~isAuthenticated

AuthInv == isAuthenticated => ws # None /\ near[ws] = "open"

IInv == TypeOK /\ SocketInv /\ TimerInv /\ AuthInv

-----------------------------------------------------------------------------
(* Types, one group of variables at a time.                                *)

BackendTypes ==
    /\ hint \in [Change -> {"none", "due", "sent", "lost"}]
    /\ listener \in [Instance -> {"down", "subscribed", "on"}]
    /\ queue \in [Instance -> Seq(Change)] /\ unheard \in [Instance -> SUBSET Change]

WireTypes ==
    /\ near \in [Socket -> {"none", "connecting", "open", "closing", "disposed"}]
    /\ far \in [Socket -> {"none", "pending", "registered"}]
    /\ at \in [Socket -> Instance]
    /\ down \in [Socket -> Seq(Change \cup {"auth_ok"})]
    /\ cut \in [Socket -> BOOLEAN]
    /\ before \in [Socket -> SUBSET Change]

TabTypes ==
    /\ mounted \in BOOLEAN /\ isAuthenticated \in BOOLEAN /\ reconnectTimer \in BOOLEAN
    /\ ws \in Socket \cup {None} /\ authTimer \in Socket \cup {None}
    /\ fresh \subseteq Change /\ tokenless \in BOOLEAN

LEMMA Types == TypeOK <=> BackendTypes /\ WireTypes /\ TabTypes /\ faults \in 0..MaxFaults
  BY DEF TypeOK, BackendTypes, WireTypes, TabTypes

LEMMA InitIInv ==
    ASSUME ConstantsAssumption, Init
    PROVE  IInv
<1>1. TypeOK
  <2>1. BackendTypes
    BY DEF Init, BackendTypes
  <2>2. cut \in [Socket -> BOOLEAN]
    BY Zenon DEF Init
  <2>3. WireTypes
    BY <2>2 DEF Init, WireTypes
  <2>4. mounted \in BOOLEAN /\ isAuthenticated \in BOOLEAN /\ reconnectTimer \in BOOLEAN
    BY Zenon DEF Init
  <2>5. tokenless \in BOOLEAN
    BY Zenon DEF Init
  <2>6. TabTypes
    BY <2>4, <2>5 DEF Init, TabTypes
  <2>7. faults \in 0..MaxFaults
    BY DEF ConstantsAssumption, Init
  <2>8. QED
    BY <2>1, <2>3, <2>6, <2>7, Types
<1>2. SocketInv /\ TimerInv /\ AuthInv
  BY DEF Init, SocketInv, TimerInv, AuthInv, Kept
<1>3. QED
  BY <1>1, <1>2 DEF IInv

LEMMA FaultType ==
    ASSUME ConstantsAssumption, TypeOK, Fault
    PROVE  faults' \in 0..MaxFaults
  BY DEF ConstantsAssumption, TypeOK, Fault

LEMMA NotifyTypes ==
    ASSUME BackendTypes, NEW x \in Change, Notify(x)
    PROVE  queue' \in [Instance -> Seq(Change)] /\ unheard' \in [Instance -> SUBSET Change]
<1>1. \A i \in Instance : Append(queue[i], x) \in Seq(Change)
  BY DEF BackendTypes
<1>2. QED
  BY <1>1 DEF BackendTypes, Notify

LEMMA DeafTypes ==
    ASSUME BackendTypes, NEW i \in Instance, Deaf(i)
    PROVE  /\ listener' \in [Instance -> {"down", "subscribed", "on"}]
           /\ queue' \in [Instance -> Seq(Change)] /\ unheard' \in [Instance -> SUBSET Change]
<1>1. {queue[i][n] : n \in DOMAIN queue[i]} \subseteq Change
  BY DEF BackendTypes
<1>2. QED
  BY <1>1 DEF BackendTypes, Deaf

LEMMA OpenSocketTypes ==
    ASSUME WireTypes, NEW s \in Socket, NEW i \in Instance, OpenSocket(s, i)
    PROVE  /\ near' \in [Socket -> {"none", "connecting", "open", "closing", "disposed"}]
           /\ at' \in [Socket -> Instance]
           /\ down' \in [Socket -> Seq(Change \cup {"auth_ok"})]
           /\ cut' \in [Socket -> BOOLEAN]
           /\ ws' \in Socket \cup {None} /\ authTimer' \in Socket \cup {None}
           /\ isAuthenticated' \in BOOLEAN /\ reconnectTimer' \in BOOLEAN
           /\ tokenless' \in BOOLEAN /\ UNCHANGED faults
<1>1. << >> \in Seq(Change \cup {"auth_ok"})
  OBVIOUS
<1>2. cut' \in [Socket -> BOOLEAN]
  BY ZenonT(30) DEF WireTypes, OpenSocket
<1>3. QED
  BY <1>1, <1>2 DEF WireTypes, OpenSocket

LEMMA BackendStepTypes ==
    ASSUME ConstantsAssumption, TypeOK,
           \/ \E x \in Change : Commit(x) \/ HintAfterwards(x)
           \/ \E i \in Instance : Listen(i) \/ AttachHandlers(i) \/ NotificationUnhandled(i) \/ ListenerEnds(i)
    PROVE  TypeOK'
<1>1. BackendTypes /\ WireTypes /\ TabTypes /\ faults \in 0..MaxFaults
  BY Types
<1>2. UNCHANGED <<wire, tab>>
  BY DEF Commit, HintAfterwards, Listen, AttachHandlers, NotificationUnhandled, ListenerEnds
<1>3. WireTypes' /\ TabTypes'
  BY <1>1, <1>2 DEF WireTypes, TabTypes, wire, tab
<1>4. faults' \in 0..MaxFaults
  BY <1>1, FaultType
     DEF Commit, HintAfterwards, Listen, AttachHandlers, NotificationUnhandled, ListenerEnds
<1>5. BackendTypes'
  <2>1. ASSUME NEW x \in Change, Commit(x) \/ HintAfterwards(x)
        PROVE  BackendTypes'
    <3>1. hint' \in [Change -> {"none", "due", "sent", "lost"}] /\ listener' = listener
      BY <1>1, <2>1 DEF Commit, HintAfterwards, BackendTypes
    <3>2. Notify(x) \/ UNCHANGED <<queue, unheard>>
      BY <2>1 DEF Commit, HintAfterwards
    <3>3. QED
      BY <1>1, <3>1, <3>2, NotifyTypes DEF BackendTypes
  <2>2. ASSUME NEW i \in Instance, Listen(i) \/ AttachHandlers(i)
        PROVE  BackendTypes'
    BY <1>1, <2>2 DEF Listen, AttachHandlers, BackendTypes
  <2>3. ASSUME NEW i \in Instance, NotificationUnhandled(i)
        PROVE  BackendTypes'
    <3>1. Tail(queue[i]) \in Seq(Change) /\ Head(queue[i]) \in Change
      BY <1>1, <2>3 DEF NotificationUnhandled, BackendTypes
    <3>2. QED
      BY <1>1, <2>3, <3>1 DEF NotificationUnhandled, BackendTypes
  <2>4. ASSUME NEW i \in Instance, ListenerEnds(i)
        PROVE  BackendTypes'
    BY <1>1, <2>4, DeafTypes DEF ListenerEnds, BackendTypes
  <2>5. QED
    BY <2>1, <2>2, <2>3, <2>4
<1>6. QED
  BY <1>3, <1>4, <1>5 DEF TypeOK, BackendTypes, WireTypes, TabTypes

LEMMA WireStepTypes ==
    ASSUME ConstantsAssumption, TypeOK,
           \/ \E i \in Instance : Broadcast(i) \/ Restart(i)
           \/ \E s \in Socket :
                 Authenticate(s) \/ FarTimeout(s) \/ FarGivesUp(s) \/ FarCloses(s) \/ Cut(s) \/ Opened(s)
    PROVE  TypeOK'
<1>1. BackendTypes /\ WireTypes /\ TabTypes /\ faults \in 0..MaxFaults
  BY Types
<1>2. TabTypes'
  <2>1. UNCHANGED tab
    BY DEF Broadcast, Restart, Authenticate, FarTimeout, FarGivesUp, FarCloses, FarEnds, Cut, Opened
  <2>2. QED
    BY <1>1, <2>1 DEF TabTypes, tab
<1>3. faults' \in 0..MaxFaults
  BY <1>1, FaultType DEF Broadcast, Restart, Authenticate, FarTimeout, FarGivesUp, FarCloses, Cut, Opened
<1>4. BackendTypes' /\ WireTypes'
  <2>1. ASSUME NEW i \in Instance, Broadcast(i)
        PROVE  BackendTypes' /\ WireTypes'
    <3>1. queue[i] \in Seq(Change) /\ queue[i] # << >>
      BY <1>1, <2>1 DEF BackendTypes, Broadcast
    <3>2. Tail(queue[i]) \in Seq(Change) /\ Head(queue[i]) \in Change
      BY <3>1
    <3>3. queue' \in [Instance -> Seq(Change)]
      BY <1>1, <2>1, <3>2 DEF BackendTypes, Broadcast
    <3>4. \A s \in Socket : Append(down[s], Head(queue[i])) \in Seq(Change \cup {"auth_ok"})
      BY <1>1, <3>2 DEF WireTypes
    <3>5. down' \in [Socket -> Seq(Change \cup {"auth_ok"})]
      BY <1>1, <2>1, <3>4 DEF WireTypes, Broadcast
    <3>6. QED
      BY <1>1, <2>1, <3>3, <3>5 DEF BackendTypes, WireTypes, Broadcast
  <2>2. ASSUME NEW i \in Instance, Restart(i)
        PROVE  BackendTypes' /\ WireTypes'
    <3>1. BackendTypes'
      BY <1>1, <2>2, DeafTypes DEF BackendTypes, Restart
    <3>2. QED
      BY <1>1, <2>2, <3>1 DEF WireTypes, Restart
  <2>3. ASSUME NEW s \in Socket, Authenticate(s)
        PROVE  BackendTypes' /\ WireTypes'
    <3>1. Committed \subseteq Change
      BY DEF Committed
    <3>2. Append(down[s], "auth_ok") \in Seq(Change \cup {"auth_ok"})
      BY <1>1 DEF WireTypes
    <3>3. QED
      BY <1>1, <2>3, <3>1, <3>2 DEF BackendTypes, WireTypes, Authenticate, backend
  <2>4. ASSUME NEW s \in Socket, FarEnds(s)
        PROVE  BackendTypes' /\ WireTypes'
    BY <1>1, <2>4 DEF BackendTypes, WireTypes, FarEnds, backend
  <2>5. ASSUME NEW s \in Socket, Cut(s)
        PROVE  BackendTypes' /\ WireTypes'
    <3>1. cut' \in [Socket -> BOOLEAN]
      BY <1>1, <2>5, ZenonT(30) DEF WireTypes, Cut
    <3>2. << >> \in Seq(Change \cup {"auth_ok"})
      OBVIOUS
    <3>3. QED
      BY <1>1, <2>5, <3>1, <3>2 DEF BackendTypes, WireTypes, Cut, backend
  <2>6. ASSUME NEW s \in Socket, Opened(s)
        PROVE  BackendTypes' /\ WireTypes'
    BY <1>1, <2>6 DEF BackendTypes, WireTypes, Opened, backend
  <2>7. QED
    BY <2>1, <2>2, <2>3, <2>4, <2>5, <2>6 DEF FarTimeout, FarGivesUp, FarCloses
<1>5. QED
  BY <1>2, <1>3, <1>4 DEF TypeOK, BackendTypes, WireTypes, TabTypes

LEMMA TabStepTypes ==
    ASSUME ConstantsAssumption, TypeOK,
           \/ Mount \/ Unmount \/ AuthTimeout \/ Reconnect
           \/ \E s \in Socket : Receive(s) \/ NearCloses(s) \/ NearBreaks(s)
    PROVE  TypeOK'
<1>1. BackendTypes /\ WireTypes /\ TabTypes /\ faults \in 0..MaxFaults
  BY Types
<1>2. BackendTypes'
  <2>1. UNCHANGED backend
    BY DEF Mount, Unmount, AuthTimeout, Reconnect, Receive, NearCloses, NearBreaks, Closed
  <2>2. QED
    BY <1>1, <2>1 DEF BackendTypes, backend
<1>3. faults' \in 0..MaxFaults
  BY <1>1, FaultType, OpenSocketTypes
     DEF Mount, Unmount, AuthTimeout, Reconnect, NoToken, Receive, NearCloses, NearBreaks
<1>4. WireTypes' /\ TabTypes'
  <2>1. CASE Mount
    BY <1>1, <2>1, OpenSocketTypes DEF WireTypes, TabTypes, Mount, NoToken
  <2>2. CASE Reconnect
    BY <1>1, <2>2, OpenSocketTypes DEF WireTypes, TabTypes, Reconnect, NoToken
  <2>3. CASE Unmount
    BY <1>1, <2>3 DEF WireTypes, TabTypes, Unmount, Detached
  <2>4. CASE AuthTimeout
    BY <1>1, <2>4 DEF WireTypes, TabTypes, AuthTimeout
  <2>5. ASSUME NEW s \in Socket, Receive(s)
        PROVE  WireTypes' /\ TabTypes'
    <3>1. down[s] \in Seq(Change \cup {"auth_ok"}) /\ down[s] # << >>
      BY <1>1, <2>5 DEF WireTypes, Receive
    <3>2. Tail(down[s]) \in Seq(Change \cup {"auth_ok"})
      BY <3>1
    <3>3. WireTypes'
      BY <1>1, <2>5, <3>2 DEF WireTypes, Receive
    <3>4. \A topics : Refetched(topics) \subseteq Change
      BY DEF Refetched, Committed
    <3>5. fresh' \subseteq Change
      BY <1>1, <2>5, <3>4 DEF TabTypes, Receive, CatchUp
    <3>6. QED
      BY <1>1, <2>5, <3>3, <3>5 DEF TabTypes, Receive
  <2>6. ASSUME NEW s \in Socket, Closed(s)
        PROVE  WireTypes' /\ TabTypes'
    <3>1. << >> \in Seq(Change \cup {"auth_ok"})
      OBVIOUS
    <3>2. WireTypes'
      BY <1>1, <2>6, <3>1 DEF WireTypes, Closed
    <3>3. reconnectTimer' \in BOOLEAN
      BY <1>1, <2>6 DEF TabTypes, Closed, ScheduleReconnect
    <3>4. QED
      BY <1>1, <2>6, <3>2, <3>3 DEF TabTypes, Closed
  <2>7. QED
    BY <2>1, <2>2, <2>3, <2>4, <2>5, <2>6 DEF NearCloses, NearBreaks
<1>5. QED
  BY <1>2, <1>3, <1>4 DEF TypeOK, BackendTypes, WireTypes, TabTypes

LEMMA TypeStep ==
    ASSUME ConstantsAssumption, TypeOK, [Next]_vars
    PROVE  TypeOK'
<1>1. CASE UNCHANGED vars
  BY <1>1 DEF TypeOK, vars, backend, wire, tab
<1>2. CASE Next
  BY <1>2, BackendStepTypes, WireStepTypes, TabStepTypes DEF Next, ListenerStep, SocketStep
<1>3. QED
  BY <1>1, <1>2

-----------------------------------------------------------------------------
(* The socket of the tab.                                                  *)

\* The variables that SocketInv, TimerInv and AuthInv are about.
client == <<near, mounted, ws, isAuthenticated, reconnectTimer, authTimer>>

LEMMA ClientUntouched ==
    ASSUME SocketInv, TimerInv, AuthInv, UNCHANGED client
    PROVE  SocketInv' /\ TimerInv' /\ AuthInv'
  BY DEF client, SocketInv, TimerInv, AuthInv, Kept

\* A socket is opened only when none is kept.
LEMMA OpenSocketClient ==
    ASSUME TypeOK, NEW s \in Socket, NEW i \in Instance, OpenSocket(s, i),
           \A q \in Socket : ~Kept(q), mounted'
    PROVE  SocketInv' /\ TimerInv' /\ AuthInv'
  BY DEF TypeOK, OpenSocket, SocketInv, TimerInv, AuthInv, Kept

\* None is opened without a token, and no timer is left.
LEMMA NoTokenClient ==
    ASSUME TypeOK, NoToken, \A q \in Socket : ~Kept(q)
    PROVE  SocketInv' /\ TimerInv' /\ AuthInv'
  BY DEF NoToken, SocketInv, TimerInv, AuthInv, Kept

LEMMA OpenedClient ==
    ASSUME IInv, NEW s \in Socket, Opened(s)
    PROVE  SocketInv' /\ TimerInv' /\ AuthInv'
<1>1. UNCHANGED <<mounted, ws, isAuthenticated, reconnectTimer, authTimer>>
  BY DEF Opened, tab
<1>2. Kept(s) /\ \A q \in Socket : Kept(q)' => Kept(q)
  BY DEF IInv, TypeOK, Opened, Kept
<1>3. SocketInv' /\ TimerInv'
  BY <1>1, <1>2 DEF IInv, SocketInv, TimerInv
<1>4. AuthInv'
  BY <1>1 DEF IInv, TypeOK, AuthInv, Opened
<1>5. QED
  BY <1>3, <1>4

LEMMA UnmountClient ==
    ASSUME ConstantsAssumption, IInv, Unmount
    PROVE  SocketInv' /\ TimerInv' /\ AuthInv'
<1>1. ASSUME NEW q \in Socket
      PROVE  ~Kept(q)'
  BY DEF IInv, TypeOK, SocketInv, Unmount, Detached, Kept
<1>2. QED
  BY <1>1 DEF Unmount, SocketInv, TimerInv, AuthInv

LEMMA AuthTimeoutClient ==
    ASSUME ConstantsAssumption, IInv, AuthTimeout
    PROVE  SocketInv' /\ TimerInv' /\ AuthInv'
<1>1. authTimer \in Socket /\ ~isAuthenticated
  BY DEF IInv, TypeOK, TimerInv, AuthTimeout
<1>2. \A q \in Socket : Kept(q)' => Kept(q)
  BY <1>1 DEF IInv, TypeOK, AuthTimeout, Kept
<1>3. QED
  BY <1>1, <1>2 DEF IInv, SocketInv, TimerInv, AuthInv, AuthTimeout

LEMMA ReceiveClient ==
    ASSUME ConstantsAssumption, IInv, NEW s \in Socket, Receive(s)
    PROVE  SocketInv' /\ TimerInv' /\ AuthInv'
<1>1. Kept(s) /\ s = ws /\ near[ws] = "open" /\ ws # None
  BY DEF ConstantsAssumption, IInv, SocketInv, Receive, Kept
<1>2. UNCHANGED <<near, mounted, ws, reconnectTimer>>
  BY DEF Receive
<1>3. TimerInv' /\ AuthInv'
  BY <1>1, <1>2 DEF IInv, TimerInv, AuthInv, Receive
<1>4. SocketInv'
  BY <1>2 DEF IInv, SocketInv, Kept
<1>5. QED
  BY <1>3, <1>4

\* The close event of a kept socket leaves none behind; that of a detached one
\* changes nothing for the socket that has taken its place.
LEMMA ClosedClient ==
    ASSUME ConstantsAssumption, IInv, NEW s \in Socket, Closed(s), near[s] # "none"
    PROVE  SocketInv' /\ TimerInv' /\ AuthInv'
<1>1. \A q \in Socket : Kept(q)' => Kept(q) /\ q # s
  BY DEF IInv, TypeOK, Closed, Kept
<1>2. UNCHANGED <<mounted, ws>>
  BY DEF Closed
<1>3. CASE near[s] = "disposed"
  <2>1. UNCHANGED <<isAuthenticated, authTimer, reconnectTimer>>
    BY <1>3 DEF Closed
  <2>2. AuthInv'
    BY <1>2, <1>3, <2>1 DEF IInv, TypeOK, AuthInv, Closed
  <2>3. QED
    BY <1>1, <1>2, <2>1, <2>2 DEF IInv, SocketInv, TimerInv
<1>4. CASE near[s] # "disposed"
  <2>1. Kept(s) /\ s = ws /\ mounted
    BY <1>4 DEF IInv, TypeOK, SocketInv, Kept
  <2>2. \A q \in Socket : ~Kept(q)'
    BY <1>1, <2>1 DEF IInv, SocketInv
  <2>3. ~isAuthenticated' /\ authTimer' = None
    BY <1>4 DEF Closed
  <2>4. QED
    BY <1>2, <2>1, <2>2, <2>3 DEF SocketInv, TimerInv, AuthInv
<1>5. QED
  BY <1>3, <1>4

LEMMA ClientStep ==
    ASSUME ConstantsAssumption, IInv, [Next]_vars
    PROVE  SocketInv' /\ TimerInv' /\ AuthInv'
<1>1. CASE UNCHANGED vars
  BY <1>1, ClientUntouched DEF IInv, vars, wire, tab, client
<1>2. ASSUME NEW x \in Change, Commit(x) \/ HintAfterwards(x)
      PROVE  SocketInv' /\ TimerInv' /\ AuthInv'
  BY <1>2, ClientUntouched DEF IInv, Commit, HintAfterwards, wire, tab, client
<1>3. ASSUME NEW i \in Instance,
             ListenerStep(i) \/ NotificationUnhandled(i) \/ ListenerEnds(i) \/ Restart(i)
      PROVE  SocketInv' /\ TimerInv' /\ AuthInv'
  BY <1>3, ClientUntouched
     DEF IInv, ListenerStep, Listen, AttachHandlers, Broadcast, NotificationUnhandled, ListenerEnds,
         Restart, wire, tab, client
<1>4. ASSUME NEW s \in Socket,
             Authenticate(s) \/ FarTimeout(s) \/ FarCloses(s) \/ FarGivesUp(s) \/ Cut(s)
      PROVE  SocketInv' /\ TimerInv' /\ AuthInv'
  BY <1>4, ClientUntouched
     DEF IInv, Authenticate, FarTimeout, FarCloses, FarGivesUp, FarEnds, Cut, tab, client
<1>5. ASSUME NEW s \in Socket, NearCloses(s) \/ NearBreaks(s)
      PROVE  SocketInv' /\ TimerInv' /\ AuthInv'
  BY <1>5, ClosedClient DEF NearCloses, NearBreaks
<1>6. CASE Mount
  <2>1. \A q \in Socket : ~Kept(q)
    BY <1>6 DEF IInv, SocketInv, Mount
  <2>2. QED
    BY <1>6, <2>1, OpenSocketClient, NoTokenClient DEF IInv, Mount
<1>7. CASE Reconnect
  <2>1. mounted' /\ \A q \in Socket : ~Kept(q)
    BY <1>7 DEF IInv, SocketInv, TimerInv, Reconnect
  <2>2. QED
    BY <1>7, <2>1, OpenSocketClient, NoTokenClient DEF IInv, Reconnect
<1>8. QED
  BY <1>1, <1>2, <1>3, <1>4, <1>5, <1>6, <1>7, OpenedClient, UnmountClient, AuthTimeoutClient,
     ReceiveClient DEF Next, SocketStep

-----------------------------------------------------------------------------
(* What a live socket has been promised.                                   *)

\* Both ends of the socket believe in it, and the network carries.
Live(s) == near[s] = "open" /\ far[s] = "registered" /\ ~cut[s]

Among(x, messages) == \E n \in DOMAIN messages : messages[n] = x

\* x is promised to socket s by a hint.
Promised(s, x) ==
    /\ x \notin before[s] /\ hint[x] = "sent" /\ x \in Addressed /\ Topic[x] \in HintTopics
    /\ x \notin unheard[at[s]]

\* Nothing is sent to a tab before it has been let in, and it does not think it has.
Silent(s) ==
    /\ near[s] = "connecting" => far[s] = "none" /\ down[s] = <<>>
    /\ near[s] = "open" /\ far[s] = "pending" => down[s] = <<>> /\ ~isAuthenticated

LinkInv == \A s \in Socket : Silent(s)

\* What the catch-up promises is shown, what a hint promises is shown or on its way.
AsPromised(s, x) ==
    /\ x \in before[s] => hint[x] # "none"
    /\ isAuthenticated /\ x \in before[s] /\ Topic[x] \in CatchUpTopics => x \in fresh
    /\ Promised(s, x) => x \in fresh \/ Among(x, queue[at[s]]) \/ Among(x, down[s])

HintInv == \A s \in Socket, x \in Change : Live(s) => AsPromised(s, x)

\* A message put behind the others is among them.
LEMMA AmongAppend ==
    ASSUME NEW S, NEW q \in Seq(S), NEW e \in S, NEW x
    PROVE  Among(x, Append(q, e)) <=> Among(x, q) \/ x = e
<1>1. DOMAIN Append(q, e) = 1..(Len(q) + 1) /\ DOMAIN q = 1..Len(q) /\ Len(q) \in Nat
  OBVIOUS
<1>2. Append(q, e)[Len(q) + 1] = e /\ \A n \in 1..Len(q) : Append(q, e)[n] = q[n]
  OBVIOUS
<1>3. QED
  BY <1>1, <1>2 DEF Among

\* A message stays when another one is taken.
LEMMA AmongTail ==
    ASSUME NEW S, NEW q \in Seq(S), q # << >>, NEW x, Among(x, q)
    PROVE  x = Head(q) \/ Among(x, Tail(q))
<1>1. PICK n \in DOMAIN q : q[n] = x
  BY DEF Among
<1>2. n \in 1..Len(q) /\ Len(q) \in Nat
  BY <1>1
<1>3. CASE n = 1
  BY <1>1, <1>3
<1>4. CASE n # 1
  <2>1. n - 1 \in 1..(Len(q) - 1) /\ n = (n - 1) + 1
    BY <1>2, <1>4
  <2>2. DOMAIN Tail(q) = 1..(Len(q) - 1)
    OBVIOUS
  <2>3. Tail(q)[n - 1] = q[n]
    BY <2>1, <2>2
  <2>4. QED
    BY <1>1, <2>1, <2>2, <2>3 DEF Among
<1>5. QED
  BY <1>3, <1>4

LEMMA LinkStep ==
    ASSUME ConstantsAssumption, IInv, LinkInv, [Next]_vars
    PROVE  LinkInv'
<1> SUFFICES ASSUME NEW q \in Socket
             PROVE  Silent(q)'
  BY DEF LinkInv
<1>1. Silent(q)
  BY DEF LinkInv
<1>2. CASE UNCHANGED <<near, far, down, isAuthenticated>>
  BY <1>1, <1>2 DEF Silent
<1>3. ASSUME NEW x \in Change, Commit(x) \/ HintAfterwards(x)
      PROVE  Silent(q)'
  BY <1>2, <1>3 DEF Commit, HintAfterwards, wire, tab
<1>4. ASSUME NEW i \in Instance,
             Listen(i) \/ AttachHandlers(i) \/ NotificationUnhandled(i) \/ ListenerEnds(i)
      PROVE  Silent(q)'
  BY <1>2, <1>4 DEF Listen, AttachHandlers, NotificationUnhandled, ListenerEnds, wire, tab
<1>5. ASSUME NEW i \in Instance, Broadcast(i)
      PROVE  Silent(q)'
  <2>1. UNCHANGED <<near, far, isAuthenticated>>
    BY <1>5 DEF Broadcast, tab
  <2>2. far[q] # "registered" \/ near[q] # "open" => down[q]' = down[q]
    BY <1>5 DEF Broadcast, Receivers
  <2>3. QED
    BY <1>1, <2>1, <2>2 DEF Silent
<1>6. ASSUME NEW i \in Instance, Restart(i)
      PROVE  Silent(q)'
  <2>1. UNCHANGED <<near, down, isAuthenticated>> /\ (far[q]' = far[q] \/ far[q]' = "none")
    BY <1>6 DEF Restart, tab
  <2>2. QED
    BY <1>1, <2>1 DEF Silent
<1>7. ASSUME NEW s \in Socket, Authenticate(s)
      PROVE  Silent(q)'
  <2>1. UNCHANGED <<near, isAuthenticated>> /\ far[s] = "pending"
    BY <1>7 DEF Authenticate, tab
  <2>2. IF q = s THEN far[q]' = "registered" ELSE far[q]' = far[q] /\ down[q]' = down[q]
    BY <1>7 DEF Authenticate, IInv, TypeOK
  <2>3. QED
    BY <1>1, <2>1, <2>2 DEF Silent
<1>8. ASSUME NEW s \in Socket, FarEnds(s)
      PROVE  Silent(q)'
  <2>1. UNCHANGED <<near, down, isAuthenticated>> /\ (far[q]' = far[q] \/ far[q]' = "none")
    BY <1>8 DEF FarEnds, IInv, TypeOK, tab
  <2>2. QED
    BY <1>1, <2>1 DEF Silent
<1>9. ASSUME NEW s \in Socket, Cut(s)
      PROVE  Silent(q)'
  <2>1. UNCHANGED <<near, far, isAuthenticated>> /\ (down[q]' = down[q] \/ down[q]' = << >>)
    BY <1>9 DEF Cut, IInv, TypeOK, tab
  <2>2. QED
    BY <1>1, <2>1 DEF Silent
<1>10. ASSUME NEW s \in Socket, Opened(s)
       PROVE  Silent(q)'
  <2>1. UNCHANGED <<down, isAuthenticated>> /\ near[s] = "connecting" /\ near[q]' = IF q = s THEN "open" ELSE near[q]
    BY <1>10 DEF Opened, IInv, TypeOK, tab
  <2>2. ~isAuthenticated
    BY <2>1 DEF IInv, AuthInv, SocketInv, Kept
  <2>3. q # s => far[q]' = far[q]
    BY <1>10 DEF Opened, IInv, TypeOK
  <2>4. QED
    BY <1>1, <2>1, <2>2, <2>3 DEF Silent
<1>11. ASSUME NEW s \in Socket, Receive(s)
       PROVE  Silent(q)'
  <2>1. UNCHANGED <<near, far>> /\ near[s] = "open" /\ down[s] # << >>
    BY <1>11 DEF Receive
  <2>2. q # s => near[q] \notin {"connecting", "open"}
    BY <2>1 DEF IInv, SocketInv, Kept
  <2>3. QED
    BY <1>1, <2>1, <2>2 DEF Silent
<1>12. ASSUME NEW s \in Socket, Closed(s)
       PROVE  Silent(q)'
  <2>1. UNCHANGED far /\ (isAuthenticated' => isAuthenticated)
    BY <1>12 DEF Closed
  <2>2. IF q = s THEN near[q]' = "none" ELSE near[q]' = near[q] /\ down[q]' = down[q]
    BY <1>12 DEF Closed, IInv, TypeOK
  <2>3. QED
    BY <1>1, <2>1, <2>2 DEF Silent
<1>13. ASSUME NEW s \in Socket, NEW i \in Instance, OpenSocket(s, i), UNCHANGED far
       PROVE  Silent(q)'
  <2>1. far[s] = "none" /\ ~isAuthenticated'
    BY <1>13 DEF OpenSocket
  <2>2. IF q = s THEN near[q]' = "connecting" /\ down[q]' = << >> ELSE near[q]' = near[q] /\ down[q]' = down[q]
    BY <1>13 DEF OpenSocket, IInv, TypeOK
  <2>3. QED
    BY <1>1, <1>13, <2>1, <2>2 DEF Silent
<1>14. CASE Unmount
  <2>1. UNCHANGED <<far, down>> /\ ~isAuthenticated' /\ (near[q]' = near[q] \/ near[q]' = "disposed")
    BY <1>14 DEF Unmount, Detached
  <2>2. QED
    BY <1>1, <2>1 DEF Silent
<1>15. CASE AuthTimeout
  <2>1. UNCHANGED <<far, down, isAuthenticated>> /\ (near[q]' = near[q] \/ near[q]' = "closing")
    BY <1>15 DEF AuthTimeout, IInv, TypeOK
  <2>2. QED
    BY <1>1, <2>1 DEF Silent
<1>16. CASE Mount \/ Reconnect
  <2>1. CASE NoToken
    <3>1. UNCHANGED <<near, far, down>> /\ ~isAuthenticated'
      BY <1>16, <2>1 DEF Mount, Reconnect, NoToken
    <3>2. QED
      BY <1>1, <3>1 DEF Silent
  <2>2. QED
    BY <1>13, <1>16, <2>1 DEF Mount, Reconnect
<1>17. CASE UNCHANGED vars
  BY <1>2, <1>17 DEF vars, wire, tab
<1>18. QED
  BY <1>3, <1>4, <1>5, <1>6, <1>7, <1>8, <1>9, <1>10, <1>11, <1>12, <1>14, <1>15, <1>16, <1>17
     DEF Next, ListenerStep, SocketStep, FarTimeout, FarCloses, FarGivesUp, NearCloses, NearBreaks

\* What was kept before a step is kept after one that forgets nothing.
LEMMA Stays ==
    ASSUME NEW s \in Socket, NEW x \in Change, AsPromised(s, x),
           before[s]' = before[s], isAuthenticated' => isAuthenticated,
           hint[x] # "none" => hint[x]' # "none", fresh \subseteq fresh',
           Promised(s, x)' =>
               /\ Promised(s, x)
               /\ Among(x, queue[at[s]]) \/ Among(x, down[s]) =>
                      x \in fresh' \/ Among(x, queue[at[s]])' \/ Among(x, down[s])'
    PROVE  AsPromised(s, x)'
  BY DEF AsPromised

\* Of a notification an instance has it in its queue, or does not hear it.
LEMMA NotifyReaches ==
    ASSUME TypeOK, NEW y \in Change, Notify(y), NEW i \in Instance, NEW x \in Change
    PROVE  /\ y \in unheard[i]' \/ Among(y, queue[i])'
           /\ Among(x, queue[i]) => Among(x, queue[i])'
           /\ unheard[i] \subseteq unheard[i]'
<1>1. queue[i] \in Seq(Change)
  BY DEF TypeOK
<1>2. queue[i]' = IF listener[i] = "down" THEN queue[i] ELSE Append(queue[i], y)
  BY DEF Notify
<1>3. unheard[i]' = unheard[i] \cup IF listener[i] = "down" THEN {y} ELSE {}
  BY DEF Notify
<1>4. Among(x, Append(queue[i], y)) <=> Among(x, queue[i]) \/ x = y
  BY <1>1, AmongAppend
<1>5. Among(y, Append(queue[i], y))
  BY <1>1, AmongAppend
<1>6. Among(x, queue[i])' <=> Among(x, queue[i]')
  BY DEF Among
<1>7. Among(y, queue[i])' <=> Among(y, queue[i]')
  BY DEF Among
<1>8. QED
  BY <1>2, <1>3, <1>4, <1>5, <1>6, <1>7

\* An instance that goes deaf has heard nothing of what was in its queue.
LEMMA DeafUnheard ==
    ASSUME TypeOK, NEW i \in Instance, Deaf(i), NEW j \in Instance, NEW x \in Change
    PROVE  /\ Among(x, queue[j]) => x \in unheard[j]' \/ Among(x, queue[j])'
           /\ unheard[j] \subseteq unheard[j]'
<1>1. CASE j # i
  BY <1>1 DEF TypeOK, Deaf, Among
<1>2. CASE j = i
  BY <1>2 DEF TypeOK, Deaf, Among
<1>3. QED
  BY <1>1, <1>2

LEMMA BackendKeeps ==
    ASSUME ConstantsAssumption, IInv, NEW s \in Socket, NEW x \in Change, AsPromised(s, x),
           \/ \E y \in Change : Commit(y) \/ HintAfterwards(y)
           \/ \E i \in Instance : Listen(i) \/ AttachHandlers(i) \/ NotificationUnhandled(i) \/ ListenerEnds(i)
    PROVE  AsPromised(s, x)'
<1>1. TypeOK /\ at[s] \in Instance
  BY DEF IInv, TypeOK
<1>2. UNCHANGED <<near, far, at, down, cut, before, isAuthenticated, fresh>>
  BY DEF Commit, HintAfterwards, Listen, AttachHandlers, NotificationUnhandled, ListenerEnds, wire, tab
<1>3. Among(x, down[s])' <=> Among(x, down[s])
  BY <1>2 DEF Among
<1>4. CASE \E y \in Change : Commit(y) \/ HintAfterwards(y)
  <2>1. PICK y \in Change : Commit(y) \/ HintAfterwards(y)
    BY <1>4
  <2>2. /\ hint[y] = "none" \/ hint[y] = "due"
        /\ hint[y]' # "none" /\ (x # y => hint[x]' = hint[x])
    <3>1. CASE Commit(y)
      BY <1>1, <3>1 DEF TypeOK, Commit
    <3>2. CASE HintAfterwards(y)
      BY <1>1, <3>2 DEF TypeOK, HintAfterwards
    <3>3. QED
      BY <2>1, <3>1, <3>2
  <2>3. Notify(y) \/ (hint[y]' # "sent" /\ UNCHANGED <<queue, unheard>>)
    <3>1. CASE Commit(y)
      BY <1>1, <3>1 DEF TypeOK, Commit
    <3>2. CASE HintAfterwards(y)
      BY <1>1, <3>2 DEF TypeOK, HintAfterwards
    <3>3. QED
      BY <2>1, <3>1, <3>2
  <2>4. /\ Among(x, queue[at[s]]) => Among(x, queue[at[s]])'
        /\ unheard[at[s]] \subseteq unheard[at[s]]'
    BY <1>1, <1>2, <2>3, NotifyReaches DEF Among
  <2>5. CASE x = y
    <3>1. x \in before[s]' => x \in before[s] /\ hint[x]' # "none"
      BY <1>2, <2>2, <2>5
    <3>2. Promised(s, x)' => Among(x, queue[at[s]])'
      BY <1>1, <1>2, <2>3, <2>5, NotifyReaches DEF Promised, Among
    <3>3. QED
      BY <1>2, <3>1, <3>2 DEF AsPromised
  <2>6. CASE x # y
    <3>1. Promised(s, x)' => Promised(s, x)
      BY <1>2, <2>2, <2>4, <2>6 DEF Promised
    <3>2. QED
      BY <1>2, <1>3, <2>2, <2>4, <2>6, <3>1, Stays
  <2>7. QED
    BY <2>5, <2>6
<1>5. ASSUME NEW i \in Instance,
             Listen(i) \/ AttachHandlers(i) \/ NotificationUnhandled(i) \/ ListenerEnds(i)
      PROVE  AsPromised(s, x)'
  <2>1. hint' = hint
    BY <1>5 DEF Listen, AttachHandlers, NotificationUnhandled, ListenerEnds
  <2>2. /\ Among(x, queue[at[s]]) => x \in unheard[at[s]]' \/ Among(x, queue[at[s]])'
        /\ unheard[at[s]] \subseteq unheard[at[s]]'
    <3>1. CASE Listen(i) \/ AttachHandlers(i)
      BY <1>2, <3>1 DEF Listen, AttachHandlers, Among
    <3>2. CASE ListenerEnds(i)
      BY <1>1, <1>2, <3>2, DeafUnheard DEF ListenerEnds, Among
    <3>3. CASE NotificationUnhandled(i)
      <4>1. CASE at[s] # i
        BY <1>1, <1>2, <3>3, <4>1 DEF NotificationUnhandled, TypeOK, Among
      <4>2. CASE at[s] = i
        <5>1. queue[i] \in Seq(Change) /\ queue[i] # << >>
          BY <1>1, <3>3 DEF NotificationUnhandled, TypeOK
        <5>2. Among(x, queue[i]) => x = Head(queue[i]) \/ Among(x, Tail(queue[i]))
          BY <5>1, AmongTail
        <5>3. queue[i]' = Tail(queue[i]) /\ unheard[i]' = unheard[i] \cup {Head(queue[i])}
          BY <1>1, <3>3 DEF NotificationUnhandled, TypeOK
        <5>4. QED
          BY <1>2, <4>2, <5>2, <5>3 DEF Among
      <4>3. QED
        BY <4>1, <4>2
    <3>4. QED
      BY <1>5, <3>1, <3>2, <3>3
  <2>3. Promised(s, x)' => Promised(s, x) /\ x \notin unheard[at[s]]'
    BY <1>2, <2>1, <2>2 DEF Promised
  <2>4. QED
    BY <1>2, <1>3, <2>1, <2>2, <2>3, Stays
<1>6. QED
  BY <1>4, <1>5

LEMMA BroadcastKeeps ==
    ASSUME ConstantsAssumption, IInv, NEW s \in Socket, NEW x \in Change, Live(s), AsPromised(s, x),
           NEW i \in Instance, Broadcast(i)
    PROVE  AsPromised(s, x)'
<1>1. UNCHANGED <<hint, unheard, at, before, isAuthenticated, fresh>>
  BY DEF Broadcast, tab
<1>2. queue[i] \in Seq(Change) /\ queue[i] # << >> /\ down[s] \in Seq(Change \cup {"auth_ok"})
  BY DEF IInv, TypeOK, Broadcast
<1>3. Head(queue[i]) \in Change
  BY <1>2
<1>4. down[s]' = IF s \in Receivers(i, Head(queue[i])) THEN Append(down[s], Head(queue[i])) ELSE down[s]
  BY DEF Broadcast
<1>5. Among(x, Append(down[s], Head(queue[i]))) <=> Among(x, down[s]) \/ x = Head(queue[i])
  BY <1>2, <1>3, AmongAppend
<1>6. Among(x, down[s]) => Among(x, down[s])'
  BY <1>4, <1>5 DEF Among
<1>7. x \in Addressed /\ Among(x, queue[at[s]]) => Among(x, queue[at[s]])' \/ Among(x, down[s])'
  <2>1. CASE at[s] # i
    <3>1. queue[at[s]]' = queue[at[s]]
      BY <1>1, <2>1 DEF IInv, TypeOK, Broadcast
    <3>2. QED
      BY <3>1 DEF Among
  <2>2. CASE at[s] = i
    <3>1. queue[i]' = Tail(queue[i])
      BY DEF IInv, TypeOK, Broadcast
    <3>2. Among(x, queue[i]) => x = Head(queue[i]) \/ Among(x, Tail(queue[i]))
      BY <1>2, AmongTail
    <3>3. x \in Addressed /\ x = Head(queue[i]) => s \in Receivers(i, Head(queue[i]))
      BY <2>2 DEF Receivers, Live
    <3>4. x \in Addressed /\ x = Head(queue[i]) => Among(x, down[s])'
      BY <1>4, <1>5, <3>3 DEF Among
    <3>5. QED
      BY <1>1, <2>2, <3>1, <3>2, <3>4 DEF Among
  <2>3. QED
    BY <2>1, <2>2
<1>8. Promised(s, x)' => Promised(s, x) /\ x \in Addressed
  BY <1>1 DEF Promised
<1>9. QED
  BY <1>1, <1>6, <1>7, <1>8, Stays

LEMMA ReceiveKeeps ==
    ASSUME ConstantsAssumption, IInv, NEW s \in Socket, NEW x \in Change, AsPromised(s, x), Receive(s)
    PROVE  AsPromised(s, x)'
<1>1. UNCHANGED <<hint, unheard, queue, at, before>>
  BY DEF Receive, backend
<1>2. down[s] \in Seq(Change \cup {"auth_ok"}) /\ down[s] # << >> /\ down[s]' = Tail(down[s])
  BY DEF IInv, TypeOK, Receive
<1>3. Among(x, down[s]) => x = Head(down[s]) \/ Among(x, down[s])'
  <2>1. Among(x, down[s]) => x = Head(down[s]) \/ Among(x, Tail(down[s]))
    BY <1>2, AmongTail
  <2>2. Among(x, Tail(down[s])) => Among(x, down[s])'
    BY <1>2 DEF Among
  <2>3. QED
    BY <2>1, <2>2
<1>4. Among(x, queue[at[s]])' <=> Among(x, queue[at[s]])
  BY <1>1 DEF Among
<1>5. Promised(s, x)' <=> Promised(s, x)
  BY <1>1 DEF Promised
<1>6. fresh \subseteq fresh'
  BY DEF Receive
<1>7. CASE Head(down[s]) = "auth_ok"
  <2>1. fresh' = fresh \cup CatchUp /\ x # Head(down[s])
    BY <1>7 DEF Receive, ConstantsAssumption
  <2>2. x \in before[s] /\ Topic[x] \in CatchUpTopics => x \in fresh'
    BY <2>1 DEF AsPromised, CatchUp, Refetched, Committed
  <2>3. QED
    BY <1>1, <1>3, <1>4, <1>5, <1>6, <2>1, <2>2 DEF AsPromised
<1>8. CASE Head(down[s]) # "auth_ok"
  <2>1. fresh' = fresh \cup Refetched({Topic[Head(down[s])]} \cap HintTopics) /\ UNCHANGED isAuthenticated
    BY <1>8 DEF Receive
  <2>2. Promised(s, x) /\ x = Head(down[s]) => x \in fresh'
    BY <2>1 DEF Promised, Refetched, Committed
  <2>3. QED
    BY <1>1, <1>3, <1>4, <1>5, <1>6, <2>1, <2>2, Stays
<1>9. QED
  BY <1>7, <1>8

LEMMA AuthenticateKeeps ==
    ASSUME ConstantsAssumption, IInv, LinkInv, NEW s \in Socket, NEW x \in Change,
           Authenticate(s), Live(s)'
    PROVE  AsPromised(s, x)'
<1>1. near[s] = "open" /\ far[s] = "pending" /\ UNCHANGED <<hint, isAuthenticated>>
  BY DEF Authenticate, Live, backend, tab
<1>2. before[s]' = Committed /\ ~isAuthenticated'
  BY <1>1 DEF IInv, TypeOK, LinkInv, Silent, Authenticate
<1>3. QED
  BY <1>1, <1>2 DEF AsPromised, Promised, Committed

\* What does not touch a live socket, its instance or what the tab shows.
LEMMA ElsewhereKeeps ==
    ASSUME NEW s \in Socket, NEW x \in Change, AsPromised(s, x),
           UNCHANGED <<hint, fresh>>, isAuthenticated' => isAuthenticated,
           at[s]' = at[s], before[s]' = before[s], down[s]' = down[s],
           queue[at[s]]' = queue[at[s]], unheard[at[s]]' = unheard[at[s]]
    PROVE  AsPromised(s, x)'
  BY DEF AsPromised, Promised, Among

LEMMA HintStep ==
    ASSUME ConstantsAssumption, IInv, LinkInv, HintInv, [Next]_vars
    PROVE  HintInv'
<1> SUFFICES ASSUME NEW s \in Socket, NEW x \in Change, Live(s)'
             PROVE  AsPromised(s, x)'
  BY DEF HintInv
<1>1. Live(s) => AsPromised(s, x)
  BY DEF HintInv
<1>2. CASE UNCHANGED vars
  BY <1>1, <1>2, ElsewhereKeeps DEF vars, backend, wire, tab, Live
<1>3. ASSUME \/ \E y \in Change : Commit(y) \/ HintAfterwards(y)
             \/ \E i \in Instance :
                   Listen(i) \/ AttachHandlers(i) \/ NotificationUnhandled(i) \/ ListenerEnds(i)
      PROVE  AsPromised(s, x)'
  <2>1. UNCHANGED <<near, far, cut>>
    BY <1>3 DEF Commit, HintAfterwards, Listen, AttachHandlers, NotificationUnhandled, ListenerEnds, wire
  <2>2. QED
    BY <1>1, <1>3, <2>1, BackendKeeps DEF Live
<1>4. ASSUME NEW i \in Instance, Broadcast(i)
      PROVE  AsPromised(s, x)'
  <2>1. Live(s)
    BY <1>4 DEF Broadcast, Live
  <2>2. QED
    BY <1>1, <1>4, <2>1, BroadcastKeeps
<1>5. ASSUME NEW i \in Instance, Restart(i)
      PROVE  AsPromised(s, x)'
  <2>1. at[s] # i /\ Live(s) /\ before[s]' = before[s]
    BY <1>5 DEF Restart, Live
  <2>2. queue[at[s]]' = queue[at[s]] /\ unheard[at[s]]' = unheard[at[s]] /\ at[s]' = at[s]
    BY <1>5, <2>1 DEF IInv, TypeOK, Restart, Deaf
  <2>3. UNCHANGED <<hint, fresh, isAuthenticated, down>>
    BY <1>5 DEF Restart, tab
  <2>4. QED
    BY <1>1, <2>1, <2>2, <2>3, ElsewhereKeeps
<1>6. ASSUME NEW q \in Socket, Authenticate(q)
      PROVE  AsPromised(s, x)'
  <2>1. CASE q = s
    BY <1>6, <2>1, AuthenticateKeeps
  <2>2. CASE q # s
    <3>1. Live(s) /\ before[s]' = before[s] /\ down[s]' = down[s]
      BY <1>6, <2>2 DEF IInv, TypeOK, Authenticate, Live
    <3>2. UNCHANGED <<hint, fresh, isAuthenticated, at, queue, unheard>>
      BY <1>6 DEF Authenticate, tab, backend
    <3>3. QED
      BY <1>1, <3>1, <3>2, ElsewhereKeeps
  <2>3. QED
    BY <2>1, <2>2
<1>7. ASSUME NEW q \in Socket, FarEnds(q)
      PROVE  AsPromised(s, x)'
  <2>1. Live(s) /\ before[s]' = before[s]
    BY <1>7 DEF IInv, TypeOK, FarEnds, Live
  <2>2. UNCHANGED <<hint, fresh, isAuthenticated, at, down, queue, unheard>>
    BY <1>7 DEF FarEnds, tab, backend
  <2>3. QED
    BY <1>1, <2>1, <2>2, ElsewhereKeeps
<1>8. ASSUME NEW q \in Socket, Cut(q)
      PROVE  AsPromised(s, x)'
  <2>1. Live(s) /\ down[s]' = down[s]
    BY <1>8 DEF IInv, TypeOK, Cut, Live
  <2>2. UNCHANGED <<hint, fresh, isAuthenticated, at, before, queue, unheard>>
    BY <1>8 DEF Cut, tab, backend
  <2>3. QED
    BY <1>1, <2>1, <2>2, ElsewhereKeeps
<1>9. ASSUME NEW q \in Socket, Opened(q)
      PROVE  AsPromised(s, x)'
  <2>1. Live(s)
    BY <1>9 DEF IInv, TypeOK, Opened, Live
  <2>2. UNCHANGED <<hint, fresh, isAuthenticated, at, before, down, queue, unheard>>
    BY <1>9 DEF Opened, tab, backend
  <2>3. QED
    BY <1>1, <2>1, <2>2, ElsewhereKeeps
<1>10. ASSUME NEW q \in Socket, Receive(q)
       PROVE  AsPromised(s, x)'
  <2>1. Live(s) /\ near[q] = "open"
    BY <1>10 DEF Receive, Live
  <2>2. q = s
    BY <2>1 DEF IInv, SocketInv, Kept, Live
  <2>3. QED
    BY <1>1, <1>10, <2>1, <2>2, ReceiveKeeps
<1>11. ASSUME NEW q \in Socket, Closed(q)
       PROVE  AsPromised(s, x)'
  <2>1. Live(s) /\ down[s]' = down[s]
    BY <1>11 DEF IInv, TypeOK, Closed, Live
  <2>2. UNCHANGED <<hint, fresh, at, before, queue, unheard>> /\ (isAuthenticated' => isAuthenticated)
    BY <1>11 DEF Closed, backend
  <2>3. QED
    BY <1>1, <2>1, <2>2, ElsewhereKeeps
<1>12. ASSUME NEW q \in Socket, NEW i \in Instance, OpenSocket(q, i),
              UNCHANGED <<backend, far, before, fresh>>
       PROVE  AsPromised(s, x)'
  <2>1. Live(s) /\ down[s]' = down[s] /\ at[s]' = at[s]
    BY <1>12 DEF IInv, TypeOK, OpenSocket, Live
  <2>2. UNCHANGED <<hint, fresh, before, queue, unheard>> /\ ~isAuthenticated'
    BY <1>12 DEF OpenSocket, backend
  <2>3. QED
    BY <1>1, <2>1, <2>2, ElsewhereKeeps
<1>13. CASE Unmount
  <2>1. Live(s)
    BY <1>13 DEF Unmount, Detached, Live
  <2>2. UNCHANGED <<hint, fresh, at, before, down, queue, unheard>> /\ ~isAuthenticated'
    BY <1>13 DEF Unmount, backend
  <2>3. QED
    BY <1>1, <2>1, <2>2, ElsewhereKeeps
<1>14. CASE AuthTimeout
  <2>1. Live(s)
    BY <1>14 DEF IInv, TypeOK, AuthTimeout, Live
  <2>2. UNCHANGED <<hint, fresh, isAuthenticated, at, before, down, queue, unheard>>
    BY <1>14 DEF AuthTimeout, backend
  <2>3. QED
    BY <1>1, <2>1, <2>2, ElsewhereKeeps
<1>15. CASE Mount \/ Reconnect
  <2>1. CASE NoToken
    <3>1. Live(s) /\ UNCHANGED <<at, before, down, hint, fresh, queue, unheard>> /\ ~isAuthenticated'
      BY <1>15, <2>1 DEF Mount, Reconnect, NoToken, Live, backend
    <3>2. QED
      BY <1>1, <3>1, ElsewhereKeeps
  <2>2. QED
    BY <1>12, <1>15, <2>1 DEF Mount, Reconnect
<1>16. QED
  BY <1>2, <1>3, <1>4, <1>5, <1>6, <1>7, <1>8, <1>9, <1>10, <1>11, <1>13, <1>14, <1>15
     DEF Next, ListenerStep, SocketStep, FarTimeout, FarCloses, FarGivesUp, NearCloses, NearBreaks

-----------------------------------------------------------------------------
(* The theorems.                                                           *)

\* The inductive invariant holds of every reachable state.
THEOREM InductiveInvariant ==
    ASSUME ConstantsAssumption
    PROVE  Spec => []IInv
<1>1. Init => IInv
  BY InitIInv
<1>2. IInv /\ [Next]_vars => IInv'
  BY TypeStep, ClientStep DEF IInv
<1>3. QED
  BY <1>1, <1>2, PTL DEF Spec

\* Every variable of the client, the sockets and the backend keeps its type.
THEOREM TypeCorrectness ==
    ASSUME ConstantsAssumption
    PROVE  Spec => []TypeOK
<1>1. IInv => TypeOK
  BY DEF IInv
<1>2. QED
  BY <1>1, InductiveInvariant, PTL

\* Whatever mounts, close events, timeouts and reconnects there are, NmmWsClient keeps one
\* live socket at most, and believes itself connected on no other.
THEOREM OneSocketLives ==
    ASSUME ConstantsAssumption
    PROVE  Spec => []OneLiveSocket
<1>1. IInv => OneLiveSocket
  <2>1. ASSUME IInv, NEW s \in Socket, NEW q \in Socket, {near[s], near[q]} \subseteq {"connecting", "open"}
        PROVE  s = q
    BY <2>1 DEF IInv, SocketInv, Kept
  <2>2. QED
    BY <2>1 DEF IInv, AuthInv, OneLiveSocket
<1>2. QED
  BY <1>1, InductiveInvariant, PTL

\* Of what was committed before a connected tab was let in, the catch-up has shown what it
\* covers; of what came later, a hint has or is on its way to, as far as hints go, unless
\* the instance of the tab did not hear it.
THEOREM HintsAreNotMissed ==
    ASSUME ConstantsAssumption
    PROVE  Spec => []ConnectedTabsMissOnlyTheUnheard
<1>1. Init => LinkInv /\ HintInv
  BY DEF Init, LinkInv, Silent, HintInv, Live
<1>2. IInv /\ LinkInv /\ HintInv /\ [Next]_vars => LinkInv' /\ HintInv'
  BY LinkStep, HintStep
<1>3. HintInv => ConnectedTabsMissOnlyTheUnheard
  <2> SUFFICES ASSUME HintInv, NEW s \in Socket, NEW x \in Committed, Connected(s)
               PROVE  /\ x \in before[s] => (Topic[x] \in CatchUpTopics => x \in fresh)
                      /\ x \notin before[s] =>
                            (Promised(s, x) => x \in fresh \cup Underway(s))
    BY DEF ConnectedTabsMissOnlyTheUnheard, Promised
  <2>1. x \in Change /\ AsPromised(s, x) /\ isAuthenticated
    BY DEF Committed, HintInv, Connected, Live
  <2>2. QED
    BY <2>1 DEF AsPromised, Among, Underway
<1>4. QED
  BY <1>1, <1>2, <1>3, InductiveInvariant, PTL DEF Spec
=============================================================================
