------------------------------ MODULE LiveFeed ------------------------------
(***************************************************************************)
(* How the screens of the household follow the state of a feature store:   *)
(* ConnectionRegistry.broadcast (realtime.py), the /api/ws endpoint        *)
(* (api.py), and the kiosk's AppSocket with a hook on top of it that also  *)
(* applies the answers of its own GETs and POSTs (usePrivacy.ts; useLists, *)
(* useDisplay, useTimers and useCameraActivity have the same shape).       *)
(*                                                                         *)
(* The state of the store is a version number, and so is everything that   *)
(* carries it.  Every send is an await: broadcasts of different changes,   *)
(* greetings and requests interleave between sends, and a broadcast goes   *)
(* through a copy of a set, in no particular order.  A socket delivers in  *)
(* order what it delivers; HTTP answers travel on connections of their     *)
(* own.  The store is persisted, so that a restart keeps its version.      *)
(***************************************************************************)
EXTENDS Integers, Sequences, FiniteSets, FiniteSetsExt

CONSTANTS
  Screens,     \* kiosks
  Conns,       \* slots for WebSocket connections
  None, Backend,
  MaxVersion,  \* bound: changes of the store
  MaxBreaks,   \* bound: connections that break, and restarts
  MaxGets,     \* bound: GETs of one screen the backend has not read yet
  MaxAnswers   \* bound: answers to one screen on their way

ASSUME FeedAssumption ==
  /\ None \notin Conns /\ Backend \notin Screens
  /\ MaxVersion \in Nat /\ MaxBreaks \in Nat /\ MaxGets \in Nat \ {0}
  /\ MaxAnswers \in Nat \ {0}

VARIABLES
  version,   \* the state of the store
  registry,  \* ConnectionRegistry._sockets
  endpoint,  \* websocket_endpoint of a connection: "none", "accepting",
             \* "greeting" (registered) or "serving"
  path,      \* the network: "none", "up", "half" (open for both ends, and
             \* nothing gets through) or "down"
  wire,      \* pushes on their way
  told,      \* history: the latest version a connection that is up delivered
  casts,     \* broadcast calls under way, by the version they carry
  socket,    \* AppSocket.ws
  status,    \* AppSocket.status
  gets,      \* GETs the backend has not read yet
  answers,   \* HTTP answers on their way
  shown,     \* what the hook renders
  breaks     \* bound

server == <<version, registry, endpoint, casts>>
network == <<path, wire, told, breaks>>
browser == <<socket, status, shown>>
http == <<gets, answers>>
vars == <<server, network, browser, http>>

Versions == 0 .. MaxVersion
Casts == 1 .. MaxVersion
Idle == [todo |-> {}, by |-> None]

\* With the bookkeeping: a screen that calls itself live has a socket, and the
\* registry names only connections whose endpoint runs.
TypeOK ==
  /\ version \in Versions
  /\ registry \subseteq Conns
  /\ endpoint \in [Conns -> {"none", "accepting", "greeting", "serving"}]
  /\ path \in [Conns -> {"none", "up", "half", "down"}]
  /\ wire \in [Conns -> Seq(Versions)]
  /\ told \in [Conns -> Versions]
  /\ casts \in [Casts -> {Idle} \cup [todo : SUBSET Conns, by : Screens \cup {Backend}]]
  /\ socket \in [Screens -> Conns \cup {None}]
  /\ status \in [Screens -> {"connecting", "live", "offline"}]
  /\ gets \in [Screens -> 0 .. MaxGets]
  /\ answers \in [Screens -> SUBSET Versions]
  /\ \A s \in Screens : Cardinality(answers[s]) <= MaxAnswers
  /\ shown \in [Screens -> Versions]
  /\ breaks \in 0 .. MaxBreaks
  /\ \A s \in Screens : status[s] = "live" => socket[s] # None
  /\ \A c \in registry : endpoint[c] \in {"greeting", "serving"}

\* A page is loaded: every hook asks once (the effect on mount).
Init ==
  /\ version = 0 /\ registry = {} /\ breaks = 0
  /\ endpoint = [c \in Conns |-> "none"] /\ path = [c \in Conns |-> "none"]
  /\ wire = [c \in Conns |-> <<>>] /\ told = [c \in Conns |-> 0]
  /\ casts = [k \in Casts |-> Idle]
  /\ socket = [s \in Screens |-> None] /\ status = [s \in Screens |-> "connecting"]
  /\ gets = [s \in Screens |-> 1] /\ answers = [s \in Screens |-> {}]
  /\ shown = [s \in Screens |-> 0]

InUse(c) == \E s \in Screens : socket[s] = c

Push(c, v) == wire' = [wire EXCEPT ![c] = IF path[c] = "up" THEN Append(@, v) ELSE @]

\* refresh(); a GET above the bound counts as one that was lost.
Refresh(s) == gets' = [gets EXCEPT ![s] = IF @ < MaxGets THEN @ + 1 ELSE @]

\* An HTTP answer carries the state at the time.
Answer(s) ==
  /\ Cardinality(answers[s]) < MaxAnswers
  /\ answers' = [answers EXCEPT ![s] = @ \cup {version}]

-----------------------------------------------------------------------------
(***************************************************************************)
(* The kiosk.                                                              *)
(***************************************************************************)

\* open(), on the first subscription or from the reconnect timer.
Open(s, c) ==
  /\ socket[s] = None
  /\ path[c] = "none" /\ endpoint[c] = "none"
  /\ \A k \in Casts : c \notin casts[k].todo
  /\ socket' = [socket EXCEPT ![s] = c]
  /\ status' = [status EXCEPT ![s] = "connecting"]
  /\ path' = [path EXCEPT ![c] = "up"]
  /\ endpoint' = [endpoint EXCEPT ![c] = "accepting"]
  /\ UNCHANGED <<version, registry, casts, wire, told, breaks, shown, http>>

\* The open event, which may come before the endpoint runs on from accept():
\* every subscriber reconciles.
Opened(s) ==
  /\ status[s] = "connecting" /\ socket[s] # None /\ path[socket[s]] = "up"
  /\ status' = [status EXCEPT ![s] = "live"]
  /\ Refresh(s)
  /\ UNCHANGED <<server, network, socket, shown, answers>>

\* A push is rendered.
Deliver(s) ==
  LET c == socket[s]
  IN  /\ c # None /\ status[s] = "live" /\ path[c] = "up" /\ wire[c] # <<>>
      /\ shown' = [shown EXCEPT ![s] = Head(wire[c])]
      /\ told' = [told EXCEPT ![c] = Max({@, Head(wire[c])})]
      /\ wire' = [wire EXCEPT ![c] = Tail(@)]
      /\ UNCHANGED <<server, path, breaks, socket, status, http>>

\* Mutant: no heartbeat, only the close event.
CloseOnEvent(s) ==
  LET c == socket[s]
  IN  /\ c # None /\ path[c] = "down"
      /\ socket' = [socket EXCEPT ![s] = None]
      /\ status' = [status EXCEPT ![s] = "offline"]
      /\ path' = [path EXCEPT ![c] = IF endpoint[c] = "none" THEN "none" ELSE @]
      /\ UNCHANGED <<server, wire, told, breaks, shown, http>>

\* Mutant: the close is not reported, the screen still looks live.
CloseSilently(s) ==
  LET c == socket[s]
  IN  /\ c # None /\ path[c] \in {"half", "down"}
      /\ socket' = [socket EXCEPT ![s] = None]
      /\ path' = [path EXCEPT ![c] = IF endpoint[c] = "none" THEN "none" ELSE @]
      /\ UNCHANGED <<server, wire, told, breaks, status, shown, http>>

\* The close event, or the heartbeat's own close() on a socket that has been
\* quiet for too long; the reconnect is scheduled.
Close(s) ==
  LET c == socket[s]
  IN  /\ c # None /\ path[c] \in {"half", "down"}
      /\ socket' = [socket EXCEPT ![s] = None]
      /\ status' = [status EXCEPT ![s] = "offline"]
      /\ path' = [path EXCEPT ![c] = IF endpoint[c] = "none" THEN "none" ELSE @]
      /\ UNCHANGED <<server, wire, told, breaks, shown, http>>

\* An answer to refresh(), lock(), unlock() or undo() is rendered.
Render(s) ==
  /\ \E v \in answers[s] :
       /\ shown' = [shown EXCEPT ![s] = v]
       /\ answers' = [answers EXCEPT ![s] = @ \ {v}]
  /\ UNCHANGED <<server, network, socket, status, gets>>

\* Offline: keep the last known state.
Lose(s) ==
  /\ \/ /\ gets[s] > 0 /\ gets' = [gets EXCEPT ![s] = @ - 1]
        /\ UNCHANGED answers
     \/ /\ \E v \in answers[s] : answers' = [answers EXCEPT ![s] = @ \ {v}]
        /\ UNCHANGED gets
  /\ UNCHANGED <<server, network, browser>>

-----------------------------------------------------------------------------
(***************************************************************************)
(* The backend.                                                            *)
(***************************************************************************)

\* Mutant: the socket is registered when it has been greeted.
GreetFirst(c) ==
  /\ \/ /\ endpoint[c] = "accepting"
        /\ endpoint' = [endpoint EXCEPT ![c] = "greeting"]
        /\ Push(c, version)
        /\ UNCHANGED registry
     \/ /\ endpoint[c] = "greeting"
        /\ endpoint' = [endpoint EXCEPT ![c] = "serving"]
        /\ registry' = registry \cup {c}
        /\ UNCHANGED wire
  /\ UNCHANGED <<version, casts, path, told, breaks, browser, http>>

\* websocket_endpoint: registered, then, after other sends, told the state.
Greet(c) ==
  /\ \/ /\ endpoint[c] = "accepting"
        /\ endpoint' = [endpoint EXCEPT ![c] = "greeting"]
        /\ registry' = registry \cup {c}
        /\ UNCHANGED wire
     \/ /\ endpoint[c] = "greeting"
        /\ endpoint' = [endpoint EXCEPT ![c] = "serving"]
        /\ Push(c, version)
        /\ UNCHANGED registry
  /\ UNCHANGED <<version, casts, path, told, breaks, browser, http>>

\* The endpoint notices that the socket is gone; finally, it is forgotten.
Disconnect(c) ==
  /\ endpoint[c] # "none" /\ path[c] \in {"half", "down"}
  /\ endpoint' = [endpoint EXCEPT ![c] = "none"]
  /\ registry' = registry \ {c}
  /\ path' = [path EXCEPT ![c] = IF InUse(c) THEN @ ELSE "none"]
  /\ UNCHANGED <<version, casts, wire, told, breaks, browser, http>>

\* A request of a screen, a timer or a sensor changes the store, which then
\* awaits its broadcast over a copy of the registry.
Change(who) ==
  /\ version < MaxVersion
  /\ version' = version + 1
  /\ casts' = [casts EXCEPT ![version'] = [todo |-> registry, by |-> who]]
  /\ UNCHANGED <<registry, endpoint, network, browser, http>>

\* One send of a broadcast: a socket that is known to be gone, or found to be
\* gone now, raises and is discarded.
Send(k, c) ==
  /\ c \in casts[k].todo
  /\ casts' = [casts EXCEPT ![k].todo = @ \ {c}]
  /\ \/ /\ endpoint[c] # "none"
        /\ Push(c, k)
        /\ UNCHANGED registry
     \/ /\ endpoint[c] = "none" \/ path[c] = "down"
        /\ registry' = registry \ {c}
        /\ UNCHANGED wire
  /\ UNCHANGED <<version, endpoint, path, told, breaks, browser, http>>

\* The broadcast is over; the handler answers with the state as it is now.
Respond(k) ==
  /\ casts[k] # Idle /\ casts[k].todo = {}
  /\ casts' = [casts EXCEPT ![k] = Idle]
  /\ IF casts[k].by = Backend THEN UNCHANGED answers ELSE Answer(casts[k].by)
  /\ UNCHANGED <<version, registry, endpoint, network, browser, gets>>

\* get_privacy and its like.
Serve(s) ==
  /\ gets[s] > 0
  /\ gets' = [gets EXCEPT ![s] = @ - 1]
  /\ Answer(s)
  /\ UNCHANGED <<server, network, browser>>

-----------------------------------------------------------------------------
(***************************************************************************)
(* The network and the machine.                                            *)
(***************************************************************************)
Break(c) ==
  /\ breaks < MaxBreaks /\ breaks' = breaks + 1
  /\ path[c] = "up"
  /\ path' \in {[path EXCEPT ![c] = "half"], [path EXCEPT ![c] = "down"]}
  /\ wire' = [wire EXCEPT ![c] = <<>>] /\ told' = [told EXCEPT ![c] = 0]
  /\ UNCHANGED <<server, browser, http>>

Restart ==
  /\ breaks < MaxBreaks /\ breaks' = breaks + 1
  /\ registry' = {} /\ endpoint' = [c \in Conns |-> "none"]
  /\ casts' = [k \in Casts |-> Idle]
  /\ path' = [c \in Conns |-> CASE ~InUse(c) -> "none"
                              [] path[c] = "half" -> "half"
                              [] OTHER -> "down"]
  /\ wire' = [c \in Conns |-> <<>>] /\ told' = [c \in Conns |-> 0]
  /\ gets' = [s \in Screens |-> 0] /\ answers' = [s \in Screens |-> {}]
  /\ UNCHANGED <<version, browser>>

Kiosk(s) == (\E c \in Conns : Open(s, c)) \/ Opened(s) \/ Deliver(s) \/ Close(s)
EventLoop(c) == Greet(c) \/ Disconnect(c) \/ \E k \in Casts : Send(k, c)

Next ==
  \/ \E s \in Screens : Kiosk(s) \/ Render(s) \/ Lose(s) \/ Serve(s)
  \/ \E c \in Conns : EventLoop(c) \/ Break(c)
  \/ \E who \in Screens \cup {Backend} : Change(who)
  \/ \E k \in Casts : Respond(k)
  \/ Restart

Spec == Init /\ [][Next]_vars

(***************************************************************************)
(* The event loop resumes every coroutine that can run, a socket that is   *)
(* up delivers, and the browser's timers and events fire.  Nothing is      *)
(* assumed of HTTP, of changes or of breaks.                               *)
(***************************************************************************)
Fairness ==
  /\ \A s \in Screens : WF_vars(Kiosk(s))
  /\ \A c \in Conns : WF_vars(EventLoop(c))

FairSpec == Spec /\ Fairness

-----------------------------------------------------------------------------
(***************************************************************************)
(* Properties.                                                             *)
(***************************************************************************)

\* The greeting is sent, and no push to this screen is on its way or to come.
Settled(s) ==
  LET c == socket[s]
  IN  /\ c # None /\ status[s] = "live" /\ path[c] = "up" /\ endpoint[c] = "serving"
      /\ wire[c] = <<>> /\ \A k \in Casts : c \notin casts[k].todo

\* No change falls between the greeting and the broadcasts: a connection with
\* nothing left to deliver has delivered the present state.
ToldEverything == \A s \in Screens : Settled(s) => told[socket[s]] = version

\* When connections stop breaking and the store stops changing, every screen
\* has a connection in the end that delivered the present state, also after a
\* connection that broke without telling either end; and only the connections
\* in use are registered.
EventuallyTold ==
  /\ \A s \in Screens : <>[](status[s] = "live" /\ told[socket[s]] = version)
  /\ <>[](registry = {socket[s] : s \in Screens})

\* Every screen converges: with nothing under way it renders the present
\* state.
ScreensConverge ==
  \A s \in Screens :
    Settled(s) /\ gets[s] = 0 /\ answers[s] = {} => shown[s] = version
=============================================================================
