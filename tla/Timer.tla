-------------------------------- MODULE Timer --------------------------------
(***************************************************************************)
(* The timer list of the stack (core/iowa_timer.c), the registration       *)
(* timers that live in it, and the two loops of iowa_step that hold        *)
(* pointers while they call the application: registration_step over the    *)
(* servers and coreTimerStep over the timers.                              *)
(*                                                                         *)
(* Registration.tla lets an armed timer fire at any moment; here time is   *)
(* explicit and a loop takes one step for each element it visits, two when *)
(* the visit calls the application's event callback, so that the           *)
(* application can act in between.                                         *)
(***************************************************************************)
EXTENDS Integers, FiniteSets, SequencesExt

CONSTANTS
  NULL,           \* the nil pointer
  Server,         \* the servers the application may declare
  Lifetimes,      \* the lifetimes a Server may ask for
  MaxTxWait,      \* coapPeerGetMaxTxWait()
  ExchangeWait,   \* the delay of the registration exchange timer
  DisableTimeout, \* the disable timeout of every server
  MaxSleep,       \* the timeout iowa_step() was called with
  MaxTime,        \* bound: the clock stops there
  Removes         \* whether the event callback may remove a server

ASSUME NULLAssumption == NULL \notin Server \cup Server \X {"exchange", "update", "lifetime"}
ASSUME LifetimesAssumption == Lifetimes \subseteq Nat
ASSUME DelaysAssumption ==
  MaxTxWait \in Nat /\ ExchangeWait \in Nat \ {0} /\ DisableTimeout \in Nat \ {0}
ASSUME BoundsAssumption == MaxSleep \in Nat /\ MaxTime \in Nat /\ Removes \in BOOLEAN

VARIABLES
  state,        \* lwm2mContextP->state
  currentTime,  \* contextP->currentTime
  timeout,      \* contextP->timeout
  timers,       \* contextP->timerList and the servers' pointers into it
  serverList,   \* lwm2mContextP->serverList
  status,       \* runtime.status; "disabled" is STATE_DISCONNECTED with the flag
  lifetime,     \* the lifetime of each server
  walk          \* the loop iowa_step is in, and the pointers it holds

vars == <<state, currentTime, timeout, timers, serverList, status, lifetime, walk>>

\* The exchange timer shares runtime.updateTimerP with the update timer.
Timer == Server \X {"exchange", "update", "lifetime"}
Owner(t) == t[1]
Kind(t) == t[2]

Status == {"absent", "DISCONNECTED", "disabled", "WAITING_CONNECTION", "REGISTERING",
           "REGISTERED", "UPDATE_PENDING", "FAILED"}

-----------------------------------------------------------------------------
(* The linked list                                                         *)

Index(list, e) == CHOOSE i \in DOMAIN list : list[i] = e

First(list) == IF list = <<>> THEN NULL ELSE list[1]

\* nextP
Successor(list, e) ==
  LET i == Index(list, e) IN IF i = Len(list) THEN NULL ELSE list[i + 1]

\* iowa_utils_list_remove: nothing happens if e is not in the list.
IOWA_UTILS_LIST_REMOVE(list, e) == RemoveFirst(list, e)

\* What is left when the element after parent, or the head, becomes the one
\* after e.
Unlink(list, parent, e) ==
  LET upto == IF parent = NULL THEN <<>> ELSE SubSeq(list, 1, Index(list, parent))
  IN  upto \o SubSeq(list, Index(list, e) + 1, Len(list))

-----------------------------------------------------------------------------
(* Timers: list is the linked list, time the execution times (0 once       *)
(* freed), armed the pointers the servers hold.                            *)

coreTimerNew(T, t, delay) ==
  [list |-> <<t>> \o T.list, time |-> [T.time EXCEPT ![t] = currentTime + delay],
   armed |-> T.armed \cup {t}]

\* coreTimerDelete, when the pointer is not nil.
coreTimerDelete(T, t) ==
  IF t \in T.armed
  THEN [T EXCEPT !.list = IOWA_UTILS_LIST_REMOVE(@, t), !.armed = @ \ {t}, !.time[t] = 0]
  ELSE T

coreTimerReset(T, t, delay) == [T EXCEPT !.time[t] = currentTime + delay]

\* coreTimerNew or, for a timer that exists, coreTimerReset.
Arm(T, t, delay) ==
  IF t \in T.armed THEN coreTimerReset(T, t, delay) ELSE coreTimerNew(T, t, delay)

\* lwm2m_server_close
CloseTimers(T, s) ==
  coreTimerDelete(coreTimerDelete(coreTimerDelete(T, <<s, "exchange">>),
                                  <<s, "update">>), <<s, "lifetime">>)

\* A disabled server is closed and the timer that enables it again is armed.
DisableTimers(T, s) ==
  coreTimerNew(CloseTimers(T, s), <<s, "lifetime">>, DisableTimeout)

prv_getUpdateDelay(l) == IF MaxTxWait < l THEN l - MaxTxWait ELSE l \div 2

\* Mutant: the update timer is created first.
ArmRegistrationTimers_UpdateFirst(T, s) ==
  Arm(Arm(T, <<s, "update">>, prv_getUpdateDelay(lifetime[s])),
      <<s, "lifetime">>, lifetime[s])

\* The lifetime timer, then the update timer: new ones go to the head.
ArmRegistrationTimers(T, s) ==
  Arm(Arm(T, <<s, "lifetime">>, lifetime[s]),
      <<s, "update">>, prv_getUpdateDelay(lifetime[s]))

-----------------------------------------------------------------------------
(* Between two passes: commSelect, the security sessions, the application  *)

Selecting == walk.pc = "select"

Idle == [pc |-> "select", calling |-> FALSE, ok |-> FALSE, server |-> NULL,
         timer |-> NULL, parent |-> NULL, next |-> NULL]

Init ==
  /\ state = "INITIAL"
  /\ currentTime = 0
  /\ timeout = 0
  /\ timers = [list |-> <<>>, time |-> [t \in Timer |-> 0], armed |-> {}]
  /\ serverList = <<>>
  /\ status = [s \in Server |-> "absent"]
  /\ lifetime \in [Server -> Lifetimes]
  /\ walk = Idle

\* The clock moves while the stack waits, by any amount.
Tick ==
  /\ Selecting
  /\ \E time \in currentTime + 1 .. MaxTime : currentTime' = time
  /\ UNCHANGED <<state, timeout, timers, serverList, status, lifetime, walk>>

\* A server changes its status and its timers while the stack is in commSelect.
Answered(s, newStatus, T) ==
  /\ Selecting
  /\ status' = [status EXCEPT ![s] = newStatus]
  /\ timers' = T
  /\ UNCHANGED <<state, currentTime, timeout, serverList, lifetime, walk>>

\* prv_register: the request is sent and its timer armed, or the server fails.
HandshakeDone(s) ==
  /\ status[s] = "WAITING_CONNECTION"
  /\ \/ Answered(s, "REGISTERING", coreTimerNew(timers, <<s, "exchange">>, ExchangeWait))
     \/ Answered(s, "FAILED", timers)

\* Mutant: the exchange timer survives the reply.
RegistrationReply_KeepsExchangeTimer(s) ==
  /\ status[s] = "REGISTERING"
  /\ IF prv_getUpdateDelay(lifetime[s]) > 0
     THEN Answered(s, "REGISTERED", ArmRegistrationTimers(timers, s))
     ELSE Answered(s, "FAILED", CloseTimers(timers, s))

\* prv_handleRegistrationReply: a success that can be armed, or a failure.
RegistrationReply(s) ==
  LET T == coreTimerDelete(timers, <<s, "exchange">>) IN
  /\ status[s] = "REGISTERING"
  /\ \/ /\ prv_getUpdateDelay(lifetime[s]) > 0
        /\ Answered(s, "REGISTERED", ArmRegistrationTimers(T, s))
     \/ Answered(s, "FAILED", CloseTimers(T, s))

\* prv_handleRegistrationUpdateReply: a success, a failure, or no reply.
RegistrationUpdateReply(s) ==
  /\ status[s] = "UPDATE_PENDING"
  /\ \/ /\ prv_getUpdateDelay(lifetime[s]) > 0
        /\ Answered(s, "REGISTERED", ArmRegistrationTimers(timers, s))
     \/ Answered(s, "FAILED", CloseTimers(timers, s))
     \/ Answered(s, "REGISTERED", timers)

\* A Server writes the lifetime of s.
WriteLifetime(s, l) ==
  /\ Selecting
  /\ status[s] \in {"REGISTERED", "UPDATE_PENDING"}
  /\ lifetime' = [lifetime EXCEPT ![s] = l]
  /\ UNCHANGED <<state, currentTime, timeout, timers, serverList, status, walk>>

\* iowa_client_add_server, between two passes or from the event callback.
iowa_client_add_server(s) ==
  /\ Selecting \/ walk.calling
  /\ status[s] = "absent"
  /\ serverList' = <<s>> \o serverList
  /\ status' = [status EXCEPT ![s] = "DISCONNECTED"]
  /\ UNCHANGED <<state, currentTime, timeout, timers, lifetime, walk>>

\* iowa_client_remove_server, between two passes or from the event callback.
iowa_client_remove_server(s) ==
  /\ Selecting \/ (Removes /\ walk.calling)
  /\ status[s] # "absent"
  /\ serverList' = IOWA_UTILS_LIST_REMOVE(serverList, s)
  /\ status' = [status EXCEPT ![s] = "absent"]
  /\ timers' = CloseTimers(timers, s)
  /\ UNCHANGED <<state, currentTime, timeout, lifetime, walk>>

-----------------------------------------------------------------------------
(* registration_step                                                       *)

\* iowa_step() begins a pass: in STATE_INITIAL lwm2m_step visits no server.
StepBegin ==
  /\ Selecting
  /\ state' = IF serverList = <<>> THEN state ELSE "DEVICE_MANAGEMENT"
  /\ timeout' = IF state = "INITIAL" /\ serverList # <<>> THEN 0 ELSE MaxSleep
  /\ walk' = IF state = "INITIAL"
             THEN [Idle EXCEPT !.pc = "timers", !.timer = First(timers.list)]
             ELSE [Idle EXCEPT !.pc = "servers", !.server = First(serverList)]
  /\ UNCHANGED <<currentTime, timers, serverList, status, lifetime>>

\* The visit of the server the loop is at calls the application, or goes on to
\* the next server; ok says that its result is not an error.
ServerVisited(newStatus, T, event, ok) ==
  LET s == walk.server IN
  /\ walk.pc = "servers" /\ s # NULL /\ ~walk.calling
  /\ status' = [status EXCEPT ![s] = newStatus]
  /\ timers' = T
  /\ walk' = [walk EXCEPT !.ok = @ \/ ok, !.calling = event,
                          !.server = IF event THEN s ELSE Successor(serverList, s)]
  /\ UNCHANGED <<state, currentTime, serverList, lifetime>>

\* prv_initiateServerConnection for a server to register: a handshake begins;
\* or it is plain and prv_register sends its request, or fails, in that same
\* call; or it cannot be connected, which is not an event.
VisitDisconnected ==
  LET s == walk.server IN
  /\ s # NULL /\ status[s] = "DISCONNECTED"
  /\ \/ ServerVisited("WAITING_CONNECTION", timers, TRUE, TRUE) /\ timeout' = 0
     \/ /\ ServerVisited("REGISTERING",
                         coreTimerNew(timers, <<s, "exchange">>, ExchangeWait), TRUE, TRUE)
        /\ UNCHANGED timeout
     \/ \E event \in BOOLEAN : ServerVisited("FAILED", timers, event, event) /\ timeout' = 0

\* A registered server: nothing to do, a reconnection, an update sent or not,
\* or the first half of lwm2m_server_close when it is disabled.  When its
\* deregistration cannot be allocated, it is closed without an event.
VisitRegistered ==
  LET s == walk.server IN
  /\ s # NULL /\ status[s] = "REGISTERED"
  /\ \/ ServerVisited("REGISTERED", timers, FALSE, TRUE) /\ timeout' \in {timeout, 0}
     \/ /\ \E next \in {"UPDATE_PENDING", "REGISTERED", "disabled"} :
             ServerVisited(next, timers, TRUE, TRUE)
        /\ UNCHANGED timeout
     \/ /\ ServerVisited("REGISTERED", DisableTimers(timers, s), FALSE, TRUE)
        /\ UNCHANGED timeout

VisitOther ==
  LET s == walk.server IN
  /\ s # NULL
  /\ status[s] \in {"disabled", "WAITING_CONNECTION", "REGISTERING", "UPDATE_PENDING", "FAILED"}
  /\ ServerVisited(status[s], timers, FALSE, status[s] # "FAILED")
  /\ UNCHANGED timeout

\* The application's callback returns to the loop, which reads the server it
\* was at: a disabled one is closed and its timer armed.
ServerEventReturns ==
  LET s == walk.server IN
  /\ walk.pc = "servers" /\ walk.calling
  /\ s \in ToSet(serverList)
  /\ timers' = IF status[s] = "disabled"
               THEN DisableTimers(timers, s) ELSE timers
  /\ walk' = [walk EXCEPT !.calling = FALSE, !.server = Successor(serverList, s)]
  /\ UNCHANGED <<state, currentTime, timeout, serverList, status, lifetime>>

\* registration_step returns and coreTimerStep begins; but an error, also the
\* one of an empty list, resets the servers and ends iowa_step.
ServersVisited ==
  /\ walk.pc = "servers" /\ walk.server = NULL
  /\ IF walk.ok
     THEN /\ walk' = [Idle EXCEPT !.pc = "timers", !.timer = First(timers.list)]
          /\ UNCHANGED <<state, timeout, status>>
     ELSE /\ state' = "INITIAL"
          /\ timeout' = 0
          /\ status' = [s \in Server |-> IF s \in ToSet(serverList) THEN "DISCONNECTED"
                                         ELSE status[s]]
          /\ walk' = Idle
  /\ UNCHANGED <<currentTime, timers, serverList, lifetime>>


-----------------------------------------------------------------------------
(* coreTimerStep                                                           *)

AtTimer == walk.pc = "timers" /\ walk.timer # NULL /\ ~walk.calling

\* Mutant: a timer that is late is not run.
Due_Exactly == timers.time[walk.timer] = currentTime

Due == timers.time[walk.timer] <= currentTime

\* The pointer of a timer is nil while its callback runs.
Fired == [timers EXCEPT !.armed = @ \ {walk.timer}, !.time[walk.timer] = 0]

\* Mutant: the step keeps the timeout it was given.
SkipTimer_KeepsTimeout ==
  /\ AtTimer /\ ~Due
  /\ walk' = [walk EXCEPT !.parent = walk.timer, !.timer = Successor(timers.list, walk.timer)]
  /\ UNCHANGED <<state, currentTime, timeout, timers, serverList, status, lifetime>>

\* A timer that is not due bounds the time the stack may wait.
SkipTimer ==
  LET delay == timers.time[walk.timer] - currentTime IN
  /\ AtTimer /\ ~Due
  /\ timeout' = IF delay < timeout THEN delay ELSE timeout
  /\ walk' = [walk EXCEPT !.parent = walk.timer, !.timer = Successor(timers.list, walk.timer)]
  /\ UNCHANGED <<state, currentTime, timers, serverList, status, lifetime>>

\* The callback of a timer tells the application the new status of its server.
CallsBack(newStatus, T) ==
  /\ AtTimer /\ Due
  /\ status' = [status EXCEPT ![Owner(walk.timer)] = newStatus]
  /\ timers' = T
  /\ walk' = [walk EXCEPT !.calling = TRUE, !.next = Successor(timers.list, walk.timer)]
  /\ UNCHANGED <<state, currentTime, serverList, lifetime>>

\* prv_handleRegistrationExchangeTimer
ExchangeTimer ==
  /\ AtTimer /\ Kind(walk.timer) = "exchange"
  /\ CallsBack("FAILED", CloseTimers(Fired, Owner(walk.timer)))
  /\ timeout' = 0

\* prv_handleClientUpdateTimer on a registered server: sent or not.
UpdateTimer ==
  /\ AtTimer /\ Kind(walk.timer) = "update"
  /\ status[Owner(walk.timer)] = "REGISTERED"
  /\ \E next \in {"UPDATE_PENDING", "REGISTERED"} : CallsBack(next, Fired)
  /\ UNCHANGED timeout

\* prv_handleClientLifetimeTimer on a server that is not disabled.
LifetimeTimer ==
  /\ AtTimer /\ Kind(walk.timer) = "lifetime"
  /\ status[Owner(walk.timer)] # "disabled"
  /\ CallsBack("FAILED", CloseTimers(Fired, Owner(walk.timer)))
  /\ timeout' = 0

\* The callbacks that do not call the application: the end of a disable, and the
\* update timer of a server that is not registered.
SilentTimer ==
  LET t == walk.timer
      s == Owner(t)
  IN
  /\ AtTimer /\ Due
  /\ \/ /\ Kind(t) = "lifetime" /\ status[s] = "disabled"
        /\ status' = [status EXCEPT ![s] = "DISCONNECTED"]
        /\ timeout' = 0
     \/ /\ Kind(t) = "update" /\ status[s] # "REGISTERED"
        /\ UNCHANGED <<state, status, timeout>>
  /\ timers' = [Fired EXCEPT !.list = Unlink(@, walk.parent, t)]
  /\ walk' = [walk EXCEPT !.timer = Successor(timers.list, t)]
  /\ UNCHANGED <<state, currentTime, serverList, lifetime>>

\* The callback returns: the timer is unlinked, which writes in its parent, and
\* freed, and the loop goes on with the next one it had read before.
TimerEventReturns ==
  /\ walk.pc = "timers" /\ walk.calling
  /\ walk.parent = NULL \/ walk.parent \in ToSet(timers.list)
  /\ timers' = [timers EXCEPT !.list = Unlink(@, walk.parent, walk.timer)]
  /\ walk' = [walk EXCEPT !.calling = FALSE, !.timer = walk.next, !.next = NULL]
  /\ UNCHANGED <<state, currentTime, timeout, serverList, status, lifetime>>

\* commSelect begins.
TimersVisited ==
  /\ walk.pc = "timers" /\ walk.timer = NULL
  /\ walk' = Idle
  /\ UNCHANGED <<state, currentTime, timeout, timers, serverList, status, lifetime>>

-----------------------------------------------------------------------------

RegistrationStep ==
  VisitDisconnected \/ VisitRegistered \/ VisitOther \/ ServerEventReturns

coreTimerStep ==
  SkipTimer \/ ExchangeTimer \/ UpdateTimer \/ LifetimeTimer \/ SilentTimer
  \/ TimerEventReturns

Next ==
  \/ StepBegin \/ RegistrationStep \/ ServersVisited \/ coreTimerStep \/ TimersVisited
  \/ Tick
  \/ \E s \in Server :
       \/ HandshakeDone(s) \/ RegistrationReply(s) \/ RegistrationUpdateReply(s)
       \/ \E l \in Lifetimes : WriteLifetime(s, l)
       \/ iowa_client_add_server(s) \/ iowa_client_remove_server(s)

Spec == Init /\ [][Next]_vars

-----------------------------------------------------------------------------
(* Safety                                                                  *)

TypeOK ==
  /\ state \in {"INITIAL", "DEVICE_MANAGEMENT"}
  /\ currentTime \in 0..MaxTime
  /\ timeout \in Nat
  /\ timers \in [list : Seq(Timer), time : [Timer -> Nat], armed : SUBSET Timer]
  /\ serverList \in Seq(Server)
  /\ status \in [Server -> Status]
  /\ lifetime \in [Server -> Lifetimes]
  /\ walk \in [pc : {"select", "servers", "timers"}, calling : BOOLEAN, ok : BOOLEAN,
               server : Server \cup {NULL}, timer : Timer \cup {NULL},
               parent : Timer \cup {NULL}, next : Timer \cup {NULL}]

\* The loops read the elements they hold after the application was called: each
\* is still allocated.  The lifetime timer's callback deletes the update timer
\* of its server, so this needs that timer to be neither the one the loop is to
\* visit next nor its parent.
HeldPointersAreLive ==
  /\ walk.pc = "servers" /\ walk.server # NULL => walk.server \in ToSet(serverList)
  /\ walk.pc = "timers" =>
       \A t \in {walk.timer, walk.parent, walk.next} \ {NULL} : t \in ToSet(timers.list)

\* The timers in the list are those some server points to, each once, but for
\* the one whose callback is running: no pointer dangles and no timer is lost.
ListedAreArmed ==
  /\ ToSet(timers.list) =
       timers.armed \cup (IF walk.calling /\ walk.pc = "timers" THEN {walk.timer} ELSE {})
  /\ Len(timers.list) = Cardinality(ToSet(timers.list))

\* The timers of a server are those of its status.  While a disabled server is
\* being closed it still has those of a registered one.
TimersOfStatus ==
  \A s \in Server :
    LET kinds == {Kind(t) : t \in {u \in timers.armed : Owner(u) = s}}
        closing == walk.pc = "servers" /\ walk.calling /\ walk.server = s
        registered == {{"lifetime"}, {"lifetime", "update"}}
    IN CASE status[s] = "REGISTERING" -> kinds = {"exchange"}
         [] status[s] \in {"REGISTERED", "UPDATE_PENDING"} -> kinds \in registered
         [] status[s] = "disabled" -> IF closing THEN kinds \in registered
                                                ELSE kinds = {"lifetime"}
         [] OTHER -> kinds = {}

\* The list, the pointers of the servers and their statuses agree.
TimersAreOwned == ListedAreArmed /\ TimersOfStatus

-----------------------------------------------------------------------------
(* What a step may never do                                                *)

\* The stack goes to commSelect with a timeout that ends no later than the first
\* of its timers, and no timer is overdue: each one was visited, although the
\* callbacks armed and deleted timers while the loop was on its way.
SleepEndsInTime ==
  [][walk.pc = "timers" /\ walk'.pc = "select" =>
       \A t \in timers'.armed :
         /\ timers'.time[t] > currentTime
         /\ timeout' <= timers'.time[t] - currentTime]_vars

=============================================================================
