--------------------------- MODULE RealtimeHints ---------------------------
(***************************************************************************)
(* How a browser tab learns that what it shows is out of date. A writer    *)
(* notifies PostgreSQL's channel in the transaction of its change_log row; *)
(* every backend instance listens on a connection of its own and sends the *)
(* hint to the WebSockets that have authenticated with it; the tab         *)
(* refetches what the hint names. A tab whose socket breaks opens another  *)
(* and refetches the most visible data when it is let in. An instance      *)
(* whose listener breaks listens again, and nobody is told what it did not *)
(* hear. Tabs share nothing but the loop over the registry: one is here.   *)
(***************************************************************************)
EXTENDS Integers, Sequences

CONSTANTS
    Instance,   \* backend processes
    Socket,     \* slots for the sockets of the tab, used again
    Change,     \* what is committed
    HintOf,     \* "inside" the transaction, "after" it, or "never"
    Addressed,  \* the changes clientShouldReceive lets pass to this user
    Topic,      \* the query namespace that shows a change
    HintTopics,     \* the namespaces that handleNotifyHint knows
    CatchUpTopics,  \* the namespaces that handleCatchUp refetches
    MaxFaults,  \* bound: broken connections, restarts and slow answers
    None

ASSUME ConstantsAssumption ==
    /\ HintOf \in [Change -> {"inside", "after", "never"}]
    /\ Addressed \subseteq Change
    /\ MaxFaults \in Nat
    /\ None \notin Socket /\ "auth_ok" \notin Change

VARIABLES
    hint,       \* of a change: "none" before it is committed, "due", "sent" or "lost"
    listener,   \* of an instance: "down", "subscribed" (LISTEN has been answered) or "on"
    queue,      \* notifications on their way to an instance
    unheard,    \* history: the changes no notification of which an instance has handled
    near,       \* the tab's end of a socket: "none", "connecting", "open", "closing", or
                \* "disposed": closing, and its onclose set to null
    far,        \* the instance's end: "none", "pending" or "registered"
    at,         \* the instance of a socket
    down,       \* messages to the tab: "auth_ok" and changes
    cut,        \* the network carries nothing any more, and nobody has noticed
    before,     \* history: what had been committed when the socket was let in
    mounted,    \* the dashboard is mounted: ~isDisposed
    ws,         \* the tab's socket, or None
    isAuthenticated,
    reconnectTimer,     \* TRUE when it is set
    authTimer,  \* the socket it watches, or None
    fresh,      \* the changes that are in what the tab shows
    tokenless,  \* history: an attempt to open a socket has found no token
    faults

backend == <<hint, listener, queue, unheard>>
wire    == <<near, far, at, down, cut, before>>
tab     == <<mounted, ws, isAuthenticated, reconnectTimer, authTimer, fresh, tokenless>>
vars    == <<backend, wire, tab, faults>>

Init ==
    /\ hint = [x \in Change |-> "none"]
    /\ listener = [i \in Instance |-> "down"]
    /\ queue = [i \in Instance |-> <<>>]
    /\ unheard = [i \in Instance |-> {}]
    /\ near = [s \in Socket |-> "none"] /\ far = [s \in Socket |-> "none"]
    /\ at \in [Socket -> Instance]
    /\ down = [s \in Socket |-> <<>>]
    /\ cut = [s \in Socket |-> FALSE]
    /\ before = [s \in Socket |-> {}]
    /\ mounted = FALSE /\ ws = None /\ isAuthenticated = FALSE
    /\ reconnectTimer = FALSE /\ authTimer = None
    /\ fresh = {} /\ tokenless = FALSE
    /\ faults = 0

Committed == {x \in Change : hint[x] # "none"}

Fault == faults < MaxFaults /\ faults' = faults + 1

-----------------------------------------------------------------------------
(* PostgreSQL and the listeners.                                           *)

\* pg_notify, delivered when the transaction commits, to whoever listens then.
Notify(x) ==
    /\ queue' = [i \in Instance |-> IF listener[i] = "down" THEN queue[i] ELSE Append(queue[i], x)]
    /\ unheard' = [i \in Instance |-> unheard[i] \cup IF listener[i] = "down" THEN {x} ELSE {}]

\* The change and, when its writer calls writeChangeLogEntry in the same transaction, its hint.
Commit(x) ==
    /\ hint[x] = "none"
    /\ \/ HintOf[x] = "inside" /\ hint' = [hint EXCEPT ![x] = "sent"] /\ Notify(x)
       \/ HintOf[x] = "after" /\ hint' = [hint EXCEPT ![x] = "due"] /\ UNCHANGED <<queue, unheard>>
       \/ HintOf[x] = "never" /\ hint' = [hint EXCEPT ![x] = "lost"] /\ UNCHANGED <<queue, unheard>>
    /\ UNCHANGED <<listener, wire, tab, faults>>

\* The second transaction of the routes, after the answer. Its failure is swallowed.
HintAfterwards(x) ==
    /\ hint[x] = "due"
    /\ \/ hint' = [hint EXCEPT ![x] = "sent"] /\ Notify(x)
       \/ hint' = [hint EXCEPT ![x] = "lost"] /\ UNCHANGED <<queue, unheard>>
    /\ UNCHANGED <<listener, wire, tab, faults>>

\* connectAndListen up to the answer to LISTEN. An attempt that fails is tried again.
Listen(i) ==
    /\ listener[i] = "down"
    /\ listener' = [listener EXCEPT ![i] = "subscribed"]
    /\ UNCHANGED <<hint, queue, unheard, wire, tab, faults>>

\* The code behind the await: on('notification'), on('end').
AttachHandlers(i) ==
    /\ listener[i] = "subscribed"
    /\ listener' = [listener EXCEPT ![i] = "on"]
    /\ UNCHANGED <<hint, queue, unheard, wire, tab, faults>>

\* A notification that comes with the answer to LISTEN finds no handler.
NotificationUnhandled(i) ==
    /\ listener[i] = "subscribed" /\ queue[i] # <<>>
    /\ queue' = [queue EXCEPT ![i] = Tail(@)]
    /\ unheard' = [unheard EXCEPT ![i] = @ \cup {Head(queue[i])}]
    /\ UNCHANGED <<hint, listener, wire, tab, faults>>

Deaf(i) ==
    /\ listener' = [listener EXCEPT ![i] = "down"]
    /\ queue' = [queue EXCEPT ![i] = <<>>]
    /\ unheard' = [unheard EXCEPT ![i] = @ \cup {queue[i][n] : n \in DOMAIN queue[i]}]

\* The connection ends; on('end') schedules the next attempt.
ListenerEnds(i) ==
    /\ listener[i] # "down" /\ Fault
    /\ Deaf(i)
    /\ UNCHANGED <<hint, wire, tab>>

\* broadcast: every registered connection the user of which may see the change.
Receivers(i, x) ==
    {s \in Socket : at[s] = i /\ far[s] = "registered" /\ near[s] = "open" /\ ~cut[s] /\ x \in Addressed}

Broadcast(i) ==
    /\ listener[i] = "on" /\ queue[i] # <<>>
    /\ queue' = [queue EXCEPT ![i] = Tail(@)]
    /\ LET x == Head(queue[i])
       IN  down' = [s \in Socket |-> IF s \in Receivers(i, x) THEN Append(down[s], x) ELSE down[s]]
    /\ UNCHANGED <<hint, listener, unheard, near, far, at, cut, before, tab, faults>>

-----------------------------------------------------------------------------
(* The instance's end of a socket.                                         *)

\* The auth message: the connection is registered, and told so.
Authenticate(s) ==
    /\ far[s] = "pending" /\ ~cut[s]
    /\ far' = [far EXCEPT ![s] = "registered"]
    /\ down' = [down EXCEPT ![s] = IF near[s] = "open" THEN Append(@, "auth_ok") ELSE @]
    /\ before' = [before EXCEPT ![s] = Committed]
    /\ UNCHANGED <<backend, near, at, cut, tab, faults>>

FarEnds(s) ==
    /\ far[s] # "none"
    /\ far' = [far EXCEPT ![s] = "none"]
    /\ before' = [before EXCEPT ![s] = {}]
    /\ UNCHANGED <<backend, near, at, down, cut, tab>>

\* A connection nobody answers on: the heartbeat finds that no pong came, or
\* the auth message has not come in time.
FarTimeout(s) == cut[s] /\ FarEnds(s) /\ UNCHANGED faults

\* The same when the tab is merely slow, or its token is refused (4004).
FarGivesUp(s) == ~cut[s] /\ Fault /\ FarEnds(s)

\* The close event: the tab has closed its end.
FarCloses(s) == near[s] \in {"closing", "disposed", "none"} /\ ~cut[s] /\ FarEnds(s) /\ UNCHANGED faults

\* The process ends and another takes its place.
Restart(i) ==
    /\ Fault
    /\ Deaf(i)
    /\ far' = [s \in Socket |-> IF at[s] = i THEN "none" ELSE far[s]]
    /\ before' = [s \in Socket |-> IF at[s] = i THEN {} ELSE before[s]]
    /\ UNCHANGED <<hint, near, at, down, cut, tab>>

\* The network breaks without telling either end; what is under way is gone.
Cut(s) ==
    /\ near[s] = "open" /\ ~cut[s] /\ Fault
    /\ cut' = [cut EXCEPT ![s] = TRUE]
    /\ down' = [down EXCEPT ![s] = <<>>]
    /\ UNCHANGED <<backend, near, far, at, before, tab>>

-----------------------------------------------------------------------------
(* The tab: NmmWsClient and useSyncEngine.                                 *)

\* _openSocket: the timers are cleared, whatever socket there was is let go.
OpenSocket(s, i) ==
    /\ near[s] = "none" /\ far[s] = "none"
    /\ near' = [near EXCEPT ![s] = "connecting"]
    /\ at' = [at EXCEPT ![s] = i]
    /\ down' = [down EXCEPT ![s] = <<>>]
    /\ cut' = [cut EXCEPT ![s] = FALSE]
    /\ ws' = s /\ authTimer' = s
    /\ isAuthenticated' = FALSE /\ reconnectTimer' = FALSE
    /\ tokenless' = FALSE /\ UNCHANGED faults

\* Its early return: the token is in the storage that all windows share, and the user has
\* signed out in another. The timers are cleared and none is set.
NoToken ==
    /\ Fault
    /\ isAuthenticated' = FALSE /\ reconnectTimer' = FALSE /\ authTimer' = None
    /\ tokenless' = TRUE
    /\ UNCHANGED <<near, at, down, cut, ws>>

\* The layout mounts: reset, connect.
Mount ==
    /\ ~mounted /\ mounted' = TRUE
    /\ NoToken \/ \E s \in Socket, i \in Instance : OpenSocket(s, i)
    /\ UNCHANGED <<backend, far, before, fresh>>

\* FAULTY: the socket keeps its onclose.
StillAttached == "closing"

\* ws.onclose = null; ws.close()
Detached == "disposed"

\* The layout unmounts: dispose.
Unmount ==
    /\ mounted /\ mounted' = FALSE
    /\ near' = [s \in Socket |-> IF s = ws /\ near[s] # "none" THEN Detached ELSE near[s]]
    /\ ws' = None /\ isAuthenticated' = FALSE
    /\ reconnectTimer' = FALSE /\ authTimer' = None /\ tokenless' = FALSE
    /\ UNCHANGED <<backend, far, at, down, cut, before, fresh, faults>>

\* The handshake succeeds; onopen sends the token, which is on its way while far is
\* "pending".
Opened(s) ==
    /\ near[s] = "connecting"
    /\ near' = [near EXCEPT ![s] = "open"]
    /\ far' = [far EXCEPT ![s] = "pending"]
    /\ UNCHANGED <<backend, at, down, cut, before, tab, faults>>

Refetched(topics) == {x \in Committed : Topic[x] \in topics}

\* FAULTY: a tab that is let in again refetches nothing.
NoCatchUp == {}

\* handleCatchUp
CatchUp == Refetched(CatchUpTopics)

\* onmessage
Receive(s) ==
    /\ near[s] = "open" /\ ~cut[s] /\ down[s] # <<>>
    /\ down' = [down EXCEPT ![s] = Tail(@)]
    /\ \/ /\ Head(down[s]) = "auth_ok"
          /\ isAuthenticated' = TRUE /\ authTimer' = None
          /\ fresh' = fresh \cup CatchUp
       \/ /\ Head(down[s]) # "auth_ok"
          /\ fresh' = fresh \cup Refetched({Topic[Head(down[s])]} \cap HintTopics)
          /\ UNCHANGED <<isAuthenticated, authTimer>>
    /\ UNCHANGED <<backend, near, far, at, cut, before, mounted, ws, reconnectTimer, tokenless, faults>>

\* The auth timer closes the socket it was set for: no answer can come, or it is late.
AuthTimeout ==
    /\ authTimer # None /\ authTimer' = None
    /\ near[authTimer] \in {"connecting", "open"}
    /\ IF near[authTimer] = "open" /\ (cut[authTimer] \/ far[authTimer] = "none")
       THEN UNCHANGED faults ELSE Fault
    /\ near' = [near EXCEPT ![authTimer] = "closing"]
    /\ UNCHANGED <<backend, far, at, down, cut, before,
                   mounted, ws, isAuthenticated, reconnectTimer, fresh, tokenless>>

\* FAULTY: a socket that closes is not replaced.
ReconnectNever == UNCHANGED reconnectTimer

\* _scheduleReconnect
ScheduleReconnect == reconnectTimer' = (mounted \/ reconnectTimer)

\* onclose, unless it is detached.
Closed(s) ==
    /\ near' = [near EXCEPT ![s] = "none"]
    /\ down' = [down EXCEPT ![s] = <<>>]
    /\ IF near[s] = "disposed"
       THEN UNCHANGED <<isAuthenticated, authTimer, reconnectTimer>>
       ELSE isAuthenticated' = FALSE /\ authTimer' = None /\ ScheduleReconnect
    /\ UNCHANGED <<backend, far, at, cut, before, mounted, ws, fresh, tokenless>>

\* The tab's own close, or the end of the other side, is through.
NearCloses(s) ==
    /\ near[s] \in {"closing", "disposed"} \/ (near[s] = "open" /\ far[s] = "none" /\ ~cut[s])
    /\ Closed(s) /\ UNCHANGED faults

\* A connection that cannot be opened, or is found broken.
NearBreaks(s) ==
    /\ near[s] = "connecting" \/ (near[s] = "open" /\ cut[s])
    /\ Fault /\ Closed(s)

\* The reconnect timer fires.
Reconnect ==
    /\ reconnectTimer
    /\ NoToken \/ \E s \in Socket, i \in Instance : OpenSocket(s, i)
    /\ UNCHANGED <<backend, far, before, mounted, fresh>>

-----------------------------------------------------------------------------
ListenerStep(i) == Listen(i) \/ AttachHandlers(i) \/ Broadcast(i)

SocketStep(s) ==
    \/ Authenticate(s) \/ FarTimeout(s) \/ FarCloses(s)
    \/ Opened(s) \/ Receive(s) \/ NearCloses(s)

Next ==
    \/ Mount \/ Unmount \/ AuthTimeout \/ Reconnect
    \/ \E x \in Change : Commit(x) \/ HintAfterwards(x)
    \/ \E i \in Instance : ListenerStep(i) \/ NotificationUnhandled(i) \/ ListenerEnds(i) \/ Restart(i)
    \/ \E s \in Socket : SocketStep(s) \/ FarGivesUp(s) \/ Cut(s) \/ NearBreaks(s)

Spec == Init /\ [][Next]_vars

\* Processes and timers run; what breaks once may break again, as far as MaxFaults goes.
Fairness ==
    /\ \A i \in Instance : WF_vars(ListenerStep(i))
    /\ \A s \in Socket : WF_vars(SocketStep(s))
    /\ WF_vars(AuthTimeout) /\ WF_vars(Reconnect)

FairSpec == Spec /\ Fairness

-----------------------------------------------------------------------------
(* Properties.                                                             *)

\* Every variable has its type.
TypeOK ==
    /\ hint \in [Change -> {"none", "due", "sent", "lost"}]
    /\ listener \in [Instance -> {"down", "subscribed", "on"}]
    /\ queue \in [Instance -> Seq(Change)] /\ unheard \in [Instance -> SUBSET Change]
    /\ near \in [Socket -> {"none", "connecting", "open", "closing", "disposed"}]
    /\ far \in [Socket -> {"none", "pending", "registered"}]
    /\ at \in [Socket -> Instance]
    /\ down \in [Socket -> Seq(Change \cup {"auth_ok"})]
    /\ cut \in [Socket -> BOOLEAN]
    /\ before \in [Socket -> SUBSET Change]
    /\ mounted \in BOOLEAN /\ isAuthenticated \in BOOLEAN /\ reconnectTimer \in BOOLEAN
    /\ ws \in Socket \cup {None} /\ authTimer \in Socket \cup {None}
    /\ fresh \subseteq Change /\ tokenless \in BOOLEAN /\ faults \in 0..MaxFaults

Connected(s) == isAuthenticated /\ s = ws /\ near[s] = "open" /\ far[s] = "registered" /\ ~cut[s]

Underway(s) == {queue[at[s]][n] : n \in DOMAIN queue[at[s]]} \cup {down[s][n] : n \in DOMAIN down[s]}

\* A connected tab shows every change, or a hint is under way to it: of what was
\* committed before it was let in, by the catch-up that onmessage fires, as far as the
\* catch-up goes; of what came later, as far as hints go, unless its instance was not
\* listening (wsClient.ts, connectionRegistry.ts, pgListener.ts).
ConnectedTabsMissOnlyTheUnheard ==
    \A s \in Socket, x \in Committed : Connected(s) =>
        IF x \in before[s]
        THEN Topic[x] \in CatchUpTopics => x \in fresh
        ELSE /\ hint[x] = "sent" /\ x \in Addressed /\ Topic[x] \in HintTopics
             /\ x \notin unheard[at[s]]
             => x \in fresh \cup Underway(s)

\* "Single persistent connection per application instance" (wsClient.ts): a tab never has
\* two sockets that live, whatever timers and late close events a remount leaves behind,
\* and believes itself connected on no other.
OneLiveSocket ==
    /\ \A s, q \in Socket : {near[s], near[q]} \subseteq {"connecting", "open"} => s = q
    /\ isAuthenticated => ws # None /\ near[ws] = "open"

\* Every instance listens again, the registry forgets connections that are cut, and a tab
\* that stays mounted is let in again, unless an attempt of it finds no token: that one is
\* its last until the layout mounts anew (pgListener.ts, wsServer.ts, wsClient.ts).
EverythingReconnects ==
    /\ \A i \in Instance : <>[](listener[i] = "on")
    /\ \A s \in Socket : <>[](cut[s] => far[s] = "none")
    /\ <>[](mounted /\ ~tokenless) => <>[]isAuthenticated
=============================================================================
