------------------------------ MODULE Observe ------------------------------
(***************************************************************************)
(* Observations and their attributes (lwm2m/iowa_observe.c,                *)
(* lwm2m/iowa_attributes.c, the Observe part of lwm2m/iowa_management.c).  *)
(*                                                                         *)
(* One Object, whose Instances have one numeric Resource each.  A Server   *)
(* observes an Instance or its Resource and writes attributes at any of    *)
(* the three levels.  Time is the age of each observation: how long ago    *)
(* its lastTime is.  A pass of observe_step is one step; told, the value   *)
(* the Server was last given, is not in the code.                          *)
(***************************************************************************)
EXTENDS Integers, Sequences, FiniteSets, FiniteSetsExt, Lists

CONSTANTS
  NULL,
  NServer,      \* how many LwM2M Servers are on contextP->lwm2mContextP->serverList
  Token,        \* the tokens a Server picks for its observations
  Instance,     \* the Instances of the Object
  Values,       \* the values of the Resource
  Targets,      \* the URIs they observe with each of them
  Queries,      \* the Write-Attributes they send: a URI and its attributes
  MaxAge,       \* ages are not told apart from this one on
  MaxSleep,     \* the timeout the application gives to iowa_step
  Faults        \* what may go wrong

ALL == "all"
Server == 1..NServer
Uri == [inst : Instance \cup {ALL}, res : {"value", ALL}]
Numeric == {"gt", "lt", "st"}
Attributes == {"pmin", "pmax"} \cup Numeric

ASSUME UriAssumption == NULL \notin Values /\ Targets \in [Token -> SUBSET [inst : Instance, res : {"value", ALL}]]
ASSUME ValueAssumption == Values \subseteq Int /\ Values # {} /\ NServer \in Nat
ASSUME TimeAssumption == MaxAge \in Nat /\ MaxSleep \in Nat \ {0}
ASSUME QueryAssumption ==
  \A query \in Queries : query.uri \in Uri /\ query.options \in Seq(STRING \X (Int \cup {NULL}))
ASSUME FaultAssumption == Faults \subseteq {"malloc", "read", "large", "remove"}

VARIABLES
  observedList,    \* runtime.observedList of each server, head first
  attributesList,  \* runtime.attributesList: the attributes of the URIs that have some
  registered,      \* the servers in STATE_REG_REGISTERED or STATE_REG_UPDATE_PENDING
  instance,        \* what a read of each Instance meets
  value,           \* the value of the Resource of each Instance
  insideCallback,  \* CONTEXT_FLAG_INSIDE_CALLBACK
  timeout,         \* contextP->timeout after the last pass
  stale            \* the servers of which a refused write has changed attributes

vars == <<observedList, attributesList, registered, instance, value, insideCallback, timeout, stale>>

-----------------------------------------------------------------------------
(* Attributes                                                              *)

\* prv_attributesSetFromInheritance: what near does not set comes from far.
Inherit(near, far) ==
  [a \in DOMAIN near \cup DOMAIN far |-> IF a \in DOMAIN near THEN near[a] ELSE far[a]]

Only(set, names) == [a \in DOMAIN set \cap names |-> set[a]]
Without(set, names) == [a \in DOMAIN set \ names |-> set[a]]

\* prv_attributesRetrieve: each attribute may be set or cleared once; a period
\* or a step is not negative.  An option is <<name, value>>, NULL to clear.
prv_attributesRetrieve(options) ==
  LET given == {o[1] : o \in Range(options)}
      set == {o \in Range(options) : o[2] # NULL} IN
  IF \/ Cardinality(given) < Len(options) \/ ~(given \subseteq Attributes)
     \/ \E o \in set : o[1] \notin {"lt", "gt"} /\ o[2] < 0
  THEN NULL
  ELSE [set |-> [a \in {o[1] : o \in set} |-> (CHOOSE o \in set : o[1] = a)[2]],
        clear |-> {o[1] : o \in Range(options) \ set}]

NoAttribute == [a \in {} |-> 0]

\* attributesGet with inheritance: the Resource's, then the Instance's, then the
\* Object's; pmax is ignored below pmin.
attributesGet(list, u) ==
  LET at(v) == IF v \in DOMAIN list THEN list[v] ELSE NoAttribute
      found == Inherit(IF u.res = ALL THEN NoAttribute ELSE at(u),
                       Inherit(at([u EXCEPT !.res = ALL]), at([inst |-> ALL, res |-> ALL]))) IN
  IF {"pmin", "pmax"} \subseteq DOMAIN found /\ found["pmax"] < found["pmin"]
  THEN Without(found, {"pmax"})
  ELSE found

\* The Resource type is numeric, so what is left of the rules on it is the
\* level, lt + 2 st < gt, and pmin <= pmax.
Refusal(u, set) ==
  LET numeric == DOMAIN set \cap Numeric # {}
      step == IF "st" \in DOMAIN set THEN set["st"] ELSE 0 IN
  CASE numeric /\ u.res = ALL -> "4.05"
    [] ~(numeric /\ u.res = ALL) /\ {"lt", "gt"} \subseteq DOMAIN set /\ set["lt"] + 2 * step >= set["gt"] -> "4.00"
    [] {"pmin", "pmax"} \subseteq DOMAIN set /\ set["pmin"] > set["pmax"] -> "4.00"
    [] OTHER -> NULL

\* attributesWrite on what a URI has stored, NULL for none: what it has after,
\* and the error.  The stored pmax is not merged before the rules are checked,
\* and what is cleared stays cleared when they refuse.
attributesWrite(stored, u, write) ==
  LET cleared == IF stored = NULL THEN NoAttribute ELSE Without(stored, write.clear)
      merged == Inherit(write.set, Without(cleared, {"pmax"}))
      error == Refusal(u, merged) IN
  IF stored # NULL /\ cleared = NoAttribute /\ write.set = NoAttribute
  THEN [stored |-> NULL, error |-> NULL]
  ELSE [stored |-> IF error = NULL THEN Inherit(merged, cleared)
                   ELSE IF stored = NULL THEN NULL ELSE cleared,
        error |-> error]

\* Mutant: the Instance's attributes are not inherited.
observe_updateObserve_OwnLevel(list, o) ==
  LET found == attributesGet([v \in {v \in DOMAIN list : v = o.uri} |-> list[v]], o.uri) IN
  [o EXCEPT !.attributes = found]

\* observe_updateObserve: timeAttrP and uriAttrP, from the attributes of the URI.
\* A pmin of zero is none.
observe_updateObserve(list, o) ==
  LET found == attributesGet(list, o.uri) IN
  [o EXCEPT !.attributes =
     IF "pmin" \in DOMAIN found /\ found["pmin"] = 0 THEN Without(found, {"pmin"}) ELSE found]

-----------------------------------------------------------------------------
(* Observations                                                            *)

\* lwm2m_observed_t.  lastValue is that of an observed Resource.
IsObservation(o) ==
  /\ o.token \in Token /\ o.uri \in Targets[o.token] /\ o.update \in BOOLEAN
  /\ DOMAIN o.attributes \subseteq Attributes /\ \A a \in DOMAIN o.attributes : o.attributes[a] \in Int
  /\ o.age \in 0..MaxAge /\ {o.lastValue, o.told} \subseteq Values \cup {NULL}

Observations(s) == {observedList[s][k] : k \in DOMAIN observedList[s]}
Has(o, a) == a \in DOMAIN o.attributes
Readable(o) == instance[o.uri.inst] = "there"
Current(o) == value[o.uri.inst]

\* TEST_THRESHOLD(T, N, P).
Crosses(threshold, new, previous) ==
  \/ new < threshold /\ previous >= threshold
  \/ new > threshold /\ previous <= threshold

\* Whether a change is to be notified: any change of an Instance, and of a
\* Resource the one its attributes ask for.
Notable(o) ==
  \/ o.uri.res = ALL
  \/ DOMAIN o.attributes \cap Numeric = {}
  \/ \E a \in DOMAIN o.attributes \cap {"gt", "lt"} :
       Crosses(o.attributes[a], Current(o), o.lastValue)
  \/ Has(o, "st") /\ (\/ Current(o) - o.lastValue >= o.attributes["st"]
                      \/ o.lastValue - Current(o) >= o.attributes["st"])

\* The change is looked at: it is flagged and the application lets it.
Changed(o) == o.update /\ ~insideCallback

PminElapsed(o) == Has(o, "pmin") => o.age >= o.attributes["pmin"]

\* pmax is ignored when it is smaller than pmin.
KeepsPmax(o) ==
  Has(o, "pmax") /\ (Has(o, "pmin") => o.attributes["pmax"] >= o.attributes["pmin"])

PmaxElapsed(o) == KeepsPmax(o) /\ o.age >= o.attributes["pmax"]

\* Whether observe_step reads the Resource, and then whether it ends the pass.
Reads(o) == IF Changed(o) THEN PminElapsed(o) ELSE PmaxElapsed(o)
EndsPass(o) == Reads(o) /\ ~Readable(o)

\* The allocations of a notification: they succeed, or one of them fails before
\* lastTime is set, or after.
Allocations == {"succeed"} \cup (IF "malloc" \in Faults THEN {"fail early", "fail late"} ELSE {})

\* prv_checkAndSendNotification: lastValue is set before the payload is
\* serialized, and lastTime before the message is allocated.
prv_checkAndSendNotification(o, allocations) ==
  [o EXCEPT !.lastValue = IF o.uri.res = ALL THEN @ ELSE Current(o),
            !.age = IF allocations = "fail early" THEN @ ELSE 0,
            !.told = IF allocations = "succeed" THEN Current(o) ELSE NULL,
            !.update = @ /\ allocations # "succeed"]

\* Mutant: a change is dropped while notifications are locked.
Visited_Unlocked(o, allocations) ==
  IF o.update
  THEN [(IF PminElapsed(o) /\ Notable(o) /\ ~insideCallback
         THEN prv_checkAndSendNotification(o, allocations) ELSE o) EXCEPT !.update = FALSE]
  ELSE IF PmaxElapsed(o) THEN prv_checkAndSendNotification(o, allocations) ELSE o

\* Mutant: a change that is not notified stays flagged.
Visited_StaysFlagged(o, allocations) ==
  IF Changed(o)
  THEN IF PminElapsed(o) /\ Notable(o) THEN prv_checkAndSendNotification(o, allocations) ELSE o
  ELSE IF PmaxElapsed(o) THEN prv_checkAndSendNotification(o, allocations) ELSE o

\* What a pass leaves of an observation that does not end it.
Visited(o, allocations) ==
  IF Changed(o)
  THEN [(IF PminElapsed(o) /\ Notable(o) THEN prv_checkAndSendNotification(o, allocations) ELSE o)
         EXCEPT !.update = FALSE]
  ELSE IF PmaxElapsed(o) THEN prv_checkAndSendNotification(o, allocations) ELSE o

\* Mutant: the whole period, wherever in it the pass is.
Sleep_Whole(o) == o.attributes["pmax"]

\* How long the pass lets select sleep for an observation.
Sleep(o) == o.attributes["pmax"] - o.age

-----------------------------------------------------------------------------
(* The stack                                                               *)

Init ==
  /\ observedList = [s \in Server |-> << >>]
  /\ attributesList = [s \in Server |-> [u \in {} |-> NoAttribute]]
  /\ registered = Server
  /\ instance = [i \in Instance |-> "there"]
  /\ value \in [Instance -> Values]
  /\ insideCallback = FALSE
  /\ timeout = 0
  /\ stale = {}

\* The observations in the order of the pass: server by server, from the head.
Cells == UNION {{s} \X DOMAIN observedList[s] : s \in Server}
NotAfter(c, d) == c[1] < d[1] \/ (c[1] = d[1] /\ c[2] <= d[2])
At(c) == observedList[c[1]][c[2]]

\* A read that fails ends the pass: what is left of it is not looked at.
Before(ends) == {c \in Cells : \A d \in ends : ~NotAfter(d, c)}
Reached == Before({d \in Cells : EndsPass(At(d))})

\* Whether observe_step notifies an observation that does not end the pass.
Notifies(o) == IF Changed(o) THEN PminElapsed(o) /\ Notable(o) ELSE PmaxElapsed(o)

\* What a pass may leave of the observations it looks at: each notification allocates.
Left(reached, notified) ==
  {[c \in reached |-> Visited(At(c), IF c \in notified THEN allocations[c] ELSE "succeed")] :
     allocations \in [notified -> Allocations]}
Passes == UNION {Left(reached, {c \in reached : Notifies(At(c))}) : reached \in {Reached}}

\* observe_step, one pass.
observe_step ==
  /\ UNCHANGED <<attributesList, registered, instance, value, insideCallback, stale>>
  /\ \E left \in Passes :
       /\ observedList' = [s \in Server |-> [k \in DOMAIN observedList[s] |->
            IF <<s, k>> \in DOMAIN left THEN left[<<s, k>>] ELSE observedList[s][k]]]
       /\ timeout' = Min({MaxSleep} \cup {Sleep(o) : o \in {n \in Range(left) : KeepsPmax(n)}})

\* commSelect sleeps, for no longer than the pass let it.
Tick ==
  /\ timeout > 0
  /\ timeout' = timeout - 1
  /\ observedList' = [s \in Server |-> [k \in DOMAIN observedList[s] |->
       [observedList[s][k] EXCEPT !.age = Min({@ + 1, MaxAge})]]]
  /\ UNCHANGED <<attributesList, registered, instance, value, insideCallback, stale>>

\* Anything else wakes commSelect up, or comes before iowa_step is called.
Awake == timeout' = 0

-----------------------------------------------------------------------------
(* What the Servers send                                                   *)

Position(s, t) == {k \in DOMAIN observedList[s] : observedList[s][k].token = t}

\* The observation of a request, from the one with its token if there is one:
\* only its update flag stays.
Requested(s, t, u) ==
  LET update == \E k \in Position(s, t) : observedList[s][k].update IN
  observe_updateObserve(attributesList[s],
    [token |-> t, uri |-> u, update |-> update, attributes |-> NoAttribute, age |-> 0,
     lastValue |-> IF u.res = ALL THEN NULL ELSE value[u.inst], told |-> value[u.inst]])

\* What observe_handleRequest leaves of the list.
Listed(s, t, u) ==
  IF Position(s, t) = {} THEN <<Requested(s, t, u)>> \o observedList[s]
  ELSE [k \in DOMAIN observedList[s] |->
          IF k \in Position(s, t) THEN Requested(s, t, u) ELSE observedList[s][k]]

Removed(s, t) == Sublist(observedList[s], DOMAIN observedList[s] \ Position(s, t))

\* Mutant: a refreshed observation is listed a second time.
observe_handleRequest_Twice(s, t, u) ==
  {<<Requested(s, t, u)>> \o observedList[s]}

\* observe_handleRequest of a new or refreshed observation: an allocation that
\* fails removes it.
observe_handleRequest(s, t, u) ==
  {Listed(s, t, u)} \cup (IF "malloc" \in Faults THEN {Removed(s, t)} ELSE {})

\* dm_handleRequest of a Read with the Observe option: when the response turns
\* out to be too large, the head of the list is removed.
Observe(s, t, u) ==
  /\ s \in registered /\ instance[u.inst] = "there"
  /\ \/ \E list \in observe_handleRequest(s, t, u) : observedList' = [observedList EXCEPT ![s] = list]
     \/ "large" \in Faults /\ observedList' = [observedList EXCEPT ![s] = Tail(Listed(s, t, u))]
  /\ Awake
  /\ UNCHANGED <<attributesList, registered, instance, value, insideCallback, stale>>

\* observe_cancel: the Server cancels, or resets a notification.
observe_cancel(s, t) ==
  /\ s \in registered /\ Position(s, t) # {}
  /\ observedList' = [observedList EXCEPT ![s] = Removed(s, t)]
  /\ Awake
  /\ UNCHANGED <<attributesList, registered, instance, value, insideCallback, stale>>

\* The observations a Write-Attributes at u changes.
Concerns(u, o) ==
  IF u.res # ALL THEN o.uri = u ELSE u.inst = ALL \/ o.uri.inst = u.inst

\* observe_setParameters, when no allocation fails.
observe_setParameters(s, u, list) ==
  [k \in DOMAIN observedList[s] |->
     IF Concerns(u, observedList[s][k]) THEN observe_updateObserve(list, observedList[s][k])
     ELSE observedList[s][k]]

\* What an allocation that fails in observe_updateObserve leaves: that of the
\* numeric attributes comes first, that of the periods after they are set.
Failed(list, o) ==
  LET new == observe_updateObserve(list, o)
      numbers(x) == Only(x.attributes, Numeric)
      periods(x) == Without(x.attributes, Numeric) IN
  (IF numbers(o) = NoAttribute /\ numbers(new) # NoAttribute THEN {o} ELSE {})
  \cup (IF periods(o) = NoAttribute /\ periods(new) # NoAttribute
        THEN {[o EXCEPT !.attributes = numbers(new)]} ELSE {})

\* The first allocation that fails ends observe_setParameters.
observe_setParametersFails(s, u, list) ==
  LET old == observedList[s]
      new == observe_setParameters(s, u, list) IN
  UNION {{[k \in DOMAIN old |-> IF k < f THEN new[k] ELSE IF k = f THEN left ELSE old[k]] :
            left \in Failed(list, old[f])} : f \in {k \in DOMAIN old : Concerns(u, old[k])}}

\* dm_handleRequest of a Write-Attributes.
WriteAttributes(s, query) ==
  LET u == query.uri
      write == prv_attributesRetrieve(query.options)
      stored == IF u \in DOMAIN attributesList[s] THEN attributesList[s][u] ELSE NULL
      result == attributesWrite(stored, u, write)
      others == [v \in DOMAIN attributesList[s] \ {u} |-> attributesList[s][v]]
      list == IF result.stored = NULL THEN others
              ELSE [v \in DOMAIN others \cup {u} |-> IF v = u THEN result.stored ELSE others[v]] IN
  /\ s \in registered /\ write # NULL
  /\ u.inst # ALL => instance[u.inst] # "absent"
  /\ attributesList' = [attributesList EXCEPT ![s] = list]
  /\ \/ /\ result.error # NULL
        /\ UNCHANGED observedList
        /\ stale' = IF list = attributesList[s] THEN stale ELSE stale \cup {s}
     \/ /\ result.error = NULL
        /\ observedList' = [observedList EXCEPT ![s] = observe_setParameters(s, u, list)]
        /\ UNCHANGED stale
     \/ /\ result.error = NULL /\ "malloc" \in Faults
        /\ \E left \in observe_setParametersFails(s, u, list) :
             observedList' = [observedList EXCEPT ![s] = left]
        /\ stale' = stale \cup {s}
  /\ Awake
  /\ UNCHANGED <<registered, instance, value, insideCallback>>

\* observe_clear: the observations of an Instance, of every server.
observe_clear(i) ==
  [s \in Server |-> Sublist(observedList[s],
     {k \in DOMAIN observedList[s] : observedList[s][k].uri.inst # i})]

\* object_delete: a Server deletes an Instance.
DeleteInstance(i) ==
  /\ registered # {} /\ instance[i] # "absent"
  /\ instance' = [instance EXCEPT ![i] = "absent"]
  /\ observedList' = observe_clear(i)
  /\ Awake
  /\ UNCHANGED <<attributesList, registered, value, insideCallback, stale>>

-----------------------------------------------------------------------------
(* What the application does                                               *)

\* lwm2m_resource_value_changed: flag what observes the Resource.
lwm2m_resource_value_changed(i) ==
  [s \in Server |-> [k \in DOMAIN observedList[s] |->
     IF observedList[s][k].uri.inst = i
     THEN [observedList[s][k] EXCEPT !.update = TRUE] ELSE observedList[s][k]]]

\* iowa_client_object_resource_changed, once the value has changed.
ResourceChanged(i, v) ==
  /\ instance[i] # "absent" /\ v # value[i]
  /\ value' = [value EXCEPT ![i] = v]
  /\ observedList' = lwm2m_resource_value_changed(i)
  /\ Awake
  /\ UNCHANGED <<attributesList, registered, instance, insideCallback, stale>>

\* clientNotificationLock.
clientNotificationLock(enter) ==
  /\ insideCallback # enter /\ insideCallback' = enter
  /\ Awake
  /\ UNCHANGED <<observedList, attributesList, registered, instance, value, stale>>

\* objectRemoveInstance: an Instance is removed, its observations are not.
objectRemoveInstance(i) ==
  /\ "remove" \in Faults /\ instance[i] # "absent"
  /\ instance' = [instance EXCEPT ![i] = "absent"]
  /\ Awake
  /\ UNCHANGED <<observedList, attributesList, registered, value, insideCallback, stale>>

\* objectAddInstance, and the data callback of the Object fails or works again.
InstanceBecomes(i, x) ==
  /\ instance[i] # x /\ x # "absent"
  /\ x = "failing" => instance[i] = "there" /\ "read" \in Faults
  /\ instance' = [instance EXCEPT ![i] = x]
  /\ Awake
  /\ UNCHANGED <<observedList, attributesList, registered, value, insideCallback, stale>>

\* lwm2m_server_close, and the server registered again.
lwm2m_server_close(s) ==
  /\ s \in registered /\ registered' = registered \ {s}
  /\ observedList' = [observedList EXCEPT ![s] = << >>]
  /\ attributesList' = [attributesList EXCEPT ![s] = [u \in {} |-> NoAttribute]]
  /\ stale' = stale \ {s}
  /\ Awake
  /\ UNCHANGED <<instance, value, insideCallback>>

Registers(s) ==
  /\ s \notin registered /\ registered' = registered \cup {s}
  /\ Awake
  /\ UNCHANGED <<observedList, attributesList, instance, value, insideCallback, stale>>

-----------------------------------------------------------------------------

Next ==
  \/ observe_step
  \/ Tick
  \/ \E s \in Server :
       \/ \E t \in Token : observe_cancel(s, t) \/ \E u \in Targets[t] : Observe(s, t, u)
       \/ \E query \in Queries : WriteAttributes(s, query)
       \/ lwm2m_server_close(s)
       \/ Registers(s)
  \/ \E i \in Instance :
       \/ DeleteInstance(i)
       \/ objectRemoveInstance(i)
       \/ \E v \in Values : ResourceChanged(i, v)
       \/ \E x \in {"there", "failing"} : InstanceBecomes(i, x)
  \/ \E enter \in BOOLEAN : clientNotificationLock(enter)

Spec == Init /\ [][Next]_vars

\* A change interrupts commSelect, and the application calls iowa_step again: no
\* more is asked of it.
Due == ~insideCallback /\ \E c \in Cells : At(c).update /\ c \in Reached
FairSpec == Spec /\ WF_vars(Due /\ observe_step)

-----------------------------------------------------------------------------
(* Safety                                                                  *)

\* The variables keep their types; a server that is not registered has no
\* observation and no attributes; no two observations of a server have a token
\* in common, by which notifications and cancellations find them.
TypeOK ==
  /\ DOMAIN observedList = Server /\ DOMAIN attributesList = Server
  /\ \A s \in Server : \A o \in Observations(s) : IsObservation(o)
  /\ \A s \in Server : \A u \in DOMAIN attributesList[s] :
       u \in Uri /\ DOMAIN attributesList[s][u] \subseteq Attributes
  /\ registered \subseteq Server /\ stale \subseteq Server
  /\ instance \in [Instance -> {"there", "failing", "absent"}]
  /\ value \in [Instance -> Values]
  /\ insideCallback \in BOOLEAN
  /\ timeout \in (-MaxAge)..MaxSleep
  /\ \A s \in Server \ registered : observedList[s] = << >> /\ DOMAIN attributesList[s] = {}
  /\ \A s \in Server, t \in Token : Cardinality(Position(s, t)) <= 1

\* The nearest level at which an attribute of a URI is written, if there is one.
Nearest(s, u, a) ==
  LET levels == <<u, [u EXCEPT !.res = ALL], [inst |-> ALL, res |-> ALL]>>
      with == {k \in DOMAIN levels :
                 levels[k] \in DOMAIN attributesList[s] /\ a \in DOMAIN attributesList[s][levels[k]]} IN
  IF with = {} THEN {} ELSE {attributesList[s][levels[Min(with)]][a]}

\* An observation goes by the attributes its Server has written, the nearest level
\* first, however they were written, cleared and refused since: observe_step looks
\* at the copies observe_updateObserve made.  A pmin of zero and a pmax below pmin
\* are none.  Only a write that is refused, or fails half way, leaves them behind.
AttributesAreThoseWritten ==
  \A s \in Server \ stale : \A o \in Observations(s) : \A a \in Attributes :
    LET written == Nearest(s, o.uri, a) IN
    IF Has(o, a) THEN written = {o.attributes[a]}
    ELSE \/ written = {}
         \/ a = "pmin" /\ written = {0}
         \/ a = "pmax" /\ \E p \in Nearest(s, o.uri, "pmin"), q \in written : q < p

\* The value that the thresholds and the step are compared with is the one the
\* Server was last given, unless a notification could not be allocated.
LastValueWasTold ==
  \A s \in Server : \A o \in Observations(s) :
    o.uri.res # ALL /\ o.told # NULL => o.lastValue = o.told

\* What an observation keeps agrees with what its Server wrote and was told.
ObservationsAgree == AttributesAreThoseWritten /\ LastValueWasTold

AllReadable == \A s \in Server : \A o \in Observations(s) : Readable(o)

\* No pmax passes while select sleeps: when time has gone by up to the timeout of
\* a pass that nothing cut short, no observation is older than its pmax.
PmaxIsKept ==
  timeout > 0 /\ AllReadable =>
    \A s \in Server : \A o \in Observations(s) : KeepsPmax(o) => o.age < o.attributes["pmax"]

\* What a step does to an observation: P of it and of the one of its token after.
Stays(P(_, _)) ==
  \A s \in Server : \A k \in DOMAIN observedList[s], j \in DOMAIN observedList'[s] :
    observedList[s][k].token = observedList'[s][j].token => P(observedList[s][k], observedList'[s][j])

\* A change that the stack is done with was told the Server, unless the periods or
\* the thresholds of its observation say otherwise, or an allocation failed.
\* (A change during pmin is dropped, not put off.)
ToldOrUnwanted(o, n) ==
  o.update /\ ~n.update =>
    \/ n.told \in {Current(o), NULL}
    \/ ~insideCallback /\ (~PminElapsed(o) \/ ~Notable(o))

\* Two notifications of an observation are at least its pmin apart.
LaterThanPmin(o, n) ==
  (n.age < o.age \/ n.told # o.told) /\ ~PminElapsed(o) => ~observe_step

\* What is told is told when its attributes ask for it.
NotificationsAreDue == [][Stays(ToldOrUnwanted) /\ Stays(LaterThanPmin)]_vars

-----------------------------------------------------------------------------
(* Liveness                                                                *)

NoneIsFlagged == \A s \in Server : \A o \in Observations(s) : ~o.update

\* Every change is looked at in the end, if the application does not keep the
\* notifications locked and what is observed can be read again: an observation
\* whose read fails holds up all the others only that long.
ChangeIsSeen ==
  <>[](~insideCallback /\ AllReadable) => []<>NoneIsFlagged

=============================================================================
