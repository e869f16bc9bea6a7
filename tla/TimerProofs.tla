---------------------------- MODULE TimerProofs ----------------------------
(***************************************************************************)
(* Proofs about Timer, for any servers, lifetimes and delays, when the     *)
(* event callback of the application removes no server: the timer list and *)
(* the pointers of the servers agree, and neither loop of iowa_step reads  *)
(* what one of its callbacks freed.                                        *)
(*                                                                         *)
(* What makes it inductive is the order of the list.  The update timer of  *)
(* a server is before its lifetime timer and never ends after it: when     *)
(* coreTimerStep runs the lifetime timer, whose callback deletes the       *)
(* update timer, the latter was visited and would be due, so it was run.   *)
(***************************************************************************)
EXTENDS Timer, ListProofs

-----------------------------------------------------------------------------
(* The inductive invariant                                                 *)

TimerData == [list : Seq(Timer), time : [Timer -> Nat], armed : SUBSET Timer]

Ordered(list) ==
  \A s \in Server : \A i, j \in DOMAIN list :
    list[i] = <<s, "update">> /\ list[j] = <<s, "lifetime">> => i < j

\* The list holds the armed timers and those of x, each once, in order.
Sound(T, x) ==
  /\ T \in TimerData
  /\ Distinct(T.list) /\ Ordered(T.list)
  /\ ToSet(T.list) = T.armed \cup x
  /\ T.armed \cap x = {}

\* The update timer of a server does not end after its lifetime timer.
Timely(T) ==
  \A s \in Server :
    <<s, "update">> \in T.armed /\ <<s, "lifetime">> \in T.armed
      => T.time[<<s, "update">>] <= T.time[<<s, "lifetime">>]

\* The timers of a server in status x, closing when it is disabled and its
\* callback has not returned yet.
Owns(armed, s, x, closing) ==
  /\ <<s, "exchange">> \in armed <=> x = "REGISTERING"
  /\ <<s, "lifetime">> \in armed <=> x \in {"REGISTERED", "UPDATE_PENDING", "disabled"}
  /\ <<s, "update">> \in armed =>
       x \in {"REGISTERED", "UPDATE_PENDING"} \/ (x = "disabled" /\ closing)

Closing(s) == walk.pc = "servers" /\ walk.calling /\ walk.server = s

\* The timer whose callback is running.
Running == IF walk.pc = "timers" /\ walk.calling THEN {walk.timer} ELSE {}

\* The element that follows the first k ones.
After(list, k) == IF k = Len(list) THEN NULL ELSE list[k + 1]

ServersWalk(k) ==
  /\ k \in 0..Len(serverList)
  /\ walk.server = After(serverList, k)
  /\ walk.calling => k < Len(serverList) /\ walk.ok
  /\ ~walk.ok => \A i \in 1..k : status[serverList[i]] = "FAILED"

\* No timer already visited is due, and the timeout ends before each of them.
TimersWalk(k) ==
  /\ k \in 0..Len(timers.list)
  /\ walk.parent = IF k = 0 THEN NULL ELSE timers.list[k]
  /\ walk.timer = After(timers.list, k)
  /\ walk.calling => k < Len(timers.list) /\ walk.next = After(timers.list, k + 1)
  /\ ~walk.calling => walk.next = NULL
  /\ \A i \in 1..k : /\ timers.time[timers.list[i]] > currentTime
                     /\ timeout <= timers.time[timers.list[i]] - currentTime

TimersInv ==
  /\ Sound(timers, Running) /\ Timely(timers)
  /\ \A s \in Server : Owns(timers.armed, s, status[s], Closing(s))

ServersInv ==
  /\ Distinct(serverList)
  /\ \A s \in Server : s \in ToSet(serverList) <=> status[s] # "absent"

WalkInv ==
  /\ walk.pc = "select" => ~walk.calling
  /\ walk.pc = "servers" => \E k \in Nat : ServersWalk(k)
  /\ walk.pc = "timers" => \E k \in Nat : TimersWalk(k)

TimerInv == TypeOK /\ TimersInv /\ ServersInv /\ WalkInv

-----------------------------------------------------------------------------
(* The operations on a timer                                               *)

LEMMA TimerIs ==
  /\ \A s \in Server : \A k \in {"exchange", "update", "lifetime"} :
       <<s, k>> \in Timer /\ Owner(<<s, k>>) = s /\ Kind(<<s, k>>) = k
  /\ \A t \in Timer : /\ Owner(t) \in Server /\ Kind(t) \in {"exchange", "update", "lifetime"}
                      /\ t = <<Owner(t), Kind(t)>>
  /\ NULL \notin Timer /\ NULL \notin Server
BY NULLAssumption DEF Timer, Owner, Kind

\* A new timer goes to the head.  A lifetime timer is created first.
LEMMA NewTimer ==
  ASSUME NEW T, Sound(T, {}), NEW t \in Timer, t \notin T.armed,
         NEW delay \in Nat, currentTime \in Nat,
         Kind(t) = "lifetime" => <<Owner(t), "update">> \notin T.armed
  PROVE  LET N == coreTimerNew(T, t, delay) IN
         /\ Sound(N, {}) /\ N.armed = T.armed \cup {t}
         /\ N.time = [T.time EXCEPT ![t] = currentTime + delay]
<1> DEFINE N == coreTimerNew(T, t, delay)
           list == <<t>> \o T.list
           time == [T.time EXCEPT ![t] = currentTime + delay]
           armed == T.armed \cup {t}
<1>1. /\ T \in TimerData /\ T.list \in Seq(Timer) /\ T.time \in [Timer -> Nat]
      /\ T.armed \subseteq Timer
      /\ Distinct(T.list) /\ Ordered(T.list) /\ ToSet(T.list) = T.armed
  BY DEF Sound, TimerData
<1>2. N = [list |-> list, time |-> time, armed |-> armed]
  BY DEF coreTimerNew
<1>3. time \in [Timer -> Nat] /\ armed \subseteq Timer
  BY <1>1
<1>4. Len(T.list) \in Nat /\ DOMAIN T.list = 1..Len(T.list)
  BY <1>1, LenProperties
<1>5. /\ list \in Seq(Timer) /\ Len(list) = Len(T.list) + 1 /\ list[1] = t
      /\ \A j \in 1..Len(T.list) : list[j + 1] = T.list[j]
      /\ ToSet(list) = T.armed \cup {t}
      /\ Distinct(list)
  BY <1>1, AddHeadProperties
<1> HIDE DEF list, time, armed
<1>6. DOMAIN list = 1..Len(T.list) + 1
  BY <1>5, LenProperties
<1>7. \A j \in DOMAIN list : j = 1 \/ (j - 1 \in DOMAIN T.list /\ list[j] = T.list[j - 1])
  BY <1>4, <1>5, <1>6
<1>8. ASSUME NEW s \in Server, NEW i \in DOMAIN list, NEW j \in DOMAIN list,
             list[i] = <<s, "update">>, list[j] = <<s, "lifetime">>
      PROVE  i < j
  <2>1. CASE i = 1 /\ j # 1
    BY <1>4, <1>6, <2>1
  <2>2. CASE i # 1 /\ j # 1
    <3>1. /\ i - 1 \in DOMAIN T.list /\ T.list[i - 1] = <<s, "update">>
          /\ j - 1 \in DOMAIN T.list /\ T.list[j - 1] = <<s, "lifetime">>
      BY <1>7, <1>8, <2>2
    <3>2. i - 1 < j - 1
      BY <1>1, <3>1 DEF Ordered
    <3> QED
      BY <1>4, <1>6, <3>2
  <2>3. CASE j = 1
    <3>1. t = <<s, "lifetime">>
      BY <1>5, <1>8, <2>3
    <3>2. <<s, "update">> \notin T.armed /\ <<s, "update">> # t
      BY <3>1, TimerIs
    <3>3. list[i] \in ToSet(list)
      BY DEF ToSet
    <3> QED
      BY <1>5, <1>8, <3>2, <3>3
  <2> QED
    BY <2>1, <2>2, <2>3
<1>9. Ordered(list)
  BY <1>8 DEF Ordered
<1>10. N \in TimerData /\ N.list = list /\ N.time = time /\ N.armed = armed
  BY <1>2, <1>3, <1>5 DEF TimerData
<1> HIDE DEF N
<1>11. Sound(N, {})
  BY <1>1, <1>5, <1>9, <1>10 DEF Sound, armed
<1> QED
  BY <1>10, <1>11 DEF N, time, armed

\* The timer of a registration request.
LEMMA ExchangeTimers ==
  ASSUME NEW T, Sound(T, {}), Timely(T), NEW s \in Server,
         <<s, "exchange">> \notin T.armed, currentTime \in Nat
  PROVE  LET N == coreTimerNew(T, <<s, "exchange">>, ExchangeWait) IN
         /\ Sound(N, {}) /\ Timely(N)
         /\ N.armed = T.armed \cup {<<s, "exchange">>}
<1> DEFINE N == coreTimerNew(T, <<s, "exchange">>, ExchangeWait)
<1>1. <<s, "exchange">> \in Timer /\ Kind(<<s, "exchange">>) # "lifetime"
  BY TimerIs
<1>2. ExchangeWait \in Nat
  BY DelaysAssumption
<1>3. /\ Sound(N, {}) /\ N.armed = T.armed \cup {<<s, "exchange">>}
      /\ N.time = [T.time EXCEPT ![<<s, "exchange">>] = currentTime + ExchangeWait]
  BY <1>1, <1>2, NewTimer
<1> HIDE DEF N
<1>4. T.time \in [Timer -> Nat]
  BY DEF Sound, TimerData
<1>5. Timely(N)
  BY <1>3, <1>4, TimerIs DEF Timely
<1> QED
  BY <1>3, <1>5 DEF N

\* What a list keeps when an element is removed.
LEMMA RemovedTimer ==
  ASSUME NEW list \in Seq(Timer), Distinct(list), Ordered(list), NEW t
  PROVE  LET rest == IOWA_UTILS_LIST_REMOVE(list, t) IN
         /\ rest \in Seq(Timer) /\ Distinct(rest) /\ Ordered(rest)
         /\ ToSet(rest) = ToSet(list) \ {t}
<1> DEFINE rest == IOWA_UTILS_LIST_REMOVE(list, t)
<1>1. rest \in Seq(Timer) /\ Distinct(rest) /\ ToSet(rest) = ToSet(list) \ {t}
  BY RemoveFirstProperties DEF IOWA_UTILS_LIST_REMOVE
<1>2. Len(list) \in Nat /\ DOMAIN list = 1..Len(list)
  BY LenProperties
<1>3. CASE t \notin ToSet(list)
  BY <1>1, <1>3, RemoveFirstNone DEF IOWA_UTILS_LIST_REMOVE
<1>4. CASE t \in ToSet(list)
  <2>1. PICK k \in 1..Len(list) : list[k] = t
    BY <1>2, <1>4 DEF ToSet
  <2>2. rest = RemoveAt(list, k)
    BY <2>1, RemoveFirstAt DEF IOWA_UTILS_LIST_REMOVE
  <2>3. /\ Len(rest) = Len(list) - 1
        /\ \A j \in 1..Len(list) - 1 : rest[j] = IF j < k THEN list[j] ELSE list[j + 1]
    BY <2>2, RemoveAtProperties
  <2> HIDE DEF rest
  <2>4. DOMAIN rest = 1..Len(list) - 1
    BY <1>1, <2>3, LenProperties
  <2>5. ASSUME NEW s \in Server, NEW i \in DOMAIN rest, NEW j \in DOMAIN rest,
               rest[i] = <<s, "update">>, rest[j] = <<s, "lifetime">>
        PROVE  i < j
    <3> DEFINE a == IF i < k THEN i ELSE i + 1
               b == IF j < k THEN j ELSE j + 1
    <3>1. a \in DOMAIN list /\ b \in DOMAIN list
      BY <1>2, <2>4
    <3>2. list[a] = <<s, "update">> /\ list[b] = <<s, "lifetime">>
      BY <2>3, <2>4, <2>5
    <3>3. a < b
      BY <3>1, <3>2 DEF Ordered
    <3> QED
      BY <1>2, <2>4, <3>3
  <2>6. Ordered(rest)
    BY <2>5 DEF Ordered
  <2> QED
    BY <1>1, <2>6 DEF rest
<1> QED
  BY <1>3, <1>4

\* coreTimerDelete takes a timer off the list and the pointer to it, and leaves
\* the times of the others.
LEMMA DeletedTimer ==
  ASSUME NEW T, NEW x, Sound(T, x), NEW t \in Timer
  PROVE  LET N == coreTimerDelete(T, t) IN
         /\ Sound(N, x) /\ N.armed = T.armed \ {t}
         /\ \A u \in Timer \ {t} : N.time[u] = T.time[u]
         /\ N.list = IF t \in T.armed THEN IOWA_UTILS_LIST_REMOVE(T.list, t) ELSE T.list
<1> DEFINE N == coreTimerDelete(T, t)
           list == IOWA_UTILS_LIST_REMOVE(T.list, t)
           armed == T.armed \ {t}
           time == [T.time EXCEPT ![t] = 0]
<1>1. /\ T \in TimerData /\ T.list \in Seq(Timer) /\ T.time \in [Timer -> Nat]
      /\ T.armed \subseteq Timer
      /\ Distinct(T.list) /\ Ordered(T.list) /\ ToSet(T.list) = T.armed \cup x
      /\ T.armed \cap x = {}
  BY DEF Sound, TimerData
<1>2. CASE t \notin T.armed
  BY <1>1, <1>2 DEF coreTimerDelete
<1>3. CASE t \in T.armed
  <2>1. /\ list \in Seq(Timer) /\ Distinct(list) /\ Ordered(list)
        /\ ToSet(list) = ToSet(T.list) \ {t}
    BY <1>1, RemovedTimer
  <2>2. time \in [Timer -> Nat] /\ armed \subseteq Timer
        /\ \A u \in Timer \ {t} : time[u] = T.time[u]
    BY <1>1
  <2>3. N = [T EXCEPT !.list = list, !.armed = armed, !.time = time]
    BY <1>1, <1>3 DEF coreTimerDelete, TimerData
  <2> HIDE DEF list, time, N
  <2>4. N \in TimerData /\ N.list = list /\ N.time = time /\ N.armed = armed
    BY <1>1, <2>1, <2>2, <2>3 DEF TimerData
  <2>5. Sound(N, x)
    BY <1>1, <1>3, <2>1, <2>4 DEF Sound
  <2> QED
    BY <1>3, <2>2, <2>4, <2>5 DEF N, list
<1> QED
  BY <1>2, <1>3

\* Timely is kept by what only deletes timers.
LEMMA StaysTimely ==
  ASSUME NEW T, NEW N, Timely(T), N.armed \subseteq T.armed,
         \A u \in N.armed : N.time[u] = T.time[u]
  PROVE  Timely(N)
BY DEF Timely

\* lwm2m_server_close takes the three timers of its server.
LEMMA ClosedTimers ==
  ASSUME NEW T, NEW x, Sound(T, x), NEW s \in Server
  PROVE  LET N == CloseTimers(T, s) IN
         /\ Sound(N, x)
         /\ Timely(T) => Timely(N)
         /\ N.armed = T.armed \ {<<s, "exchange">>, <<s, "update">>, <<s, "lifetime">>}
         /\ \A u \in Timer : Owner(u) # s => N.time[u] = T.time[u]
<1> DEFINE A == coreTimerDelete(T, <<s, "exchange">>)
           B == coreTimerDelete(A, <<s, "update">>)
           N == coreTimerDelete(B, <<s, "lifetime">>)
<1>1. /\ <<s, "exchange">> \in Timer /\ <<s, "update">> \in Timer /\ <<s, "lifetime">> \in Timer
      /\ \A u \in Timer : Owner(u) # s =>
           u \notin {<<s, "exchange">>, <<s, "update">>, <<s, "lifetime">>}
  BY TimerIs
<1>2. /\ Sound(A, x) /\ A.armed = T.armed \ {<<s, "exchange">>}
      /\ \A u \in Timer \ {<<s, "exchange">>} : A.time[u] = T.time[u]
  BY <1>1, DeletedTimer
<1> HIDE DEF A
<1>3. /\ Sound(B, x) /\ B.armed = A.armed \ {<<s, "update">>}
      /\ \A u \in Timer \ {<<s, "update">>} : B.time[u] = A.time[u]
  BY <1>1, <1>2, DeletedTimer
<1> HIDE DEF B
<1>4. /\ Sound(N, x) /\ N.armed = B.armed \ {<<s, "lifetime">>}
      /\ \A u \in Timer \ {<<s, "lifetime">>} : N.time[u] = B.time[u]
  BY <1>1, <1>3, DeletedTimer
<1>5. CloseTimers(T, s) = N
  BY DEF CloseTimers, A, B
<1> HIDE DEF N
<1>6. N.armed = T.armed \ {<<s, "exchange">>, <<s, "update">>, <<s, "lifetime">>}
  BY <1>2, <1>3, <1>4
<1>7. \A u \in Timer \ {<<s, "exchange">>, <<s, "update">>, <<s, "lifetime">>} : N.time[u] = T.time[u]
  BY <1>2, <1>3, <1>4
<1>8. ASSUME Timely(T) PROVE Timely(N)
  <2>1. N.armed \subseteq Timer
    BY <1>4 DEF Sound, TimerData
  <2> QED
    BY <1>6, <1>7, <1>8, <2>1, StaysTimely
<1> QED
  BY <1>1, <1>4, <1>5, <1>6, <1>7, <1>8

\* Arming a timer: it is in the list from then on, and ends after the delay.
LEMMA ArmedTimer ==
  ASSUME NEW T, Sound(T, {}), NEW t \in Timer, NEW delay \in Nat, currentTime \in Nat,
         Kind(t) = "lifetime" /\ t \notin T.armed => <<Owner(t), "update">> \notin T.armed
  PROVE  LET N == Arm(T, t, delay) IN
         /\ Sound(N, {}) /\ N.armed = T.armed \cup {t}
         /\ N.time = [T.time EXCEPT ![t] = currentTime + delay]
<1>1. CASE t \notin T.armed
  BY <1>1, NewTimer DEF Arm
<1>2. CASE t \in T.armed
  <2> DEFINE time == [T.time EXCEPT ![t] = currentTime + delay]
             N == [T EXCEPT !.time = time]
  <2>1. T \in TimerData
    BY DEF Sound
  <2>2. time \in [Timer -> Nat]
    BY <2>1 DEF TimerData
  <2>3. Arm(T, t, delay) = N
    BY <1>2, <2>1 DEF Arm, coreTimerReset, TimerData
  <2> HIDE DEF time
  <2>4. N \in TimerData /\ N.list = T.list /\ N.time = time /\ N.armed = T.armed
    BY <2>1, <2>2 DEF TimerData
  <2> HIDE DEF N
  <2> QED
    BY <1>2, <2>3, <2>4 DEF Sound, time
<1> QED
  BY <1>1, <1>2

\* The update of a registration is due no later than its end.
LEMMA UpdateDelay ==
  ASSUME NEW l \in Nat
  PROVE  prv_getUpdateDelay(l) \in Nat /\ prv_getUpdateDelay(l) <= l
BY DelaysAssumption DEF prv_getUpdateDelay

\* A registration, or an update of one, arms both timers.
LEMMA RegistrationTimers ==
  ASSUME NEW T, Sound(T, {}), Timely(T), NEW s \in Server,
         currentTime \in Nat, lifetime \in [Server -> Lifetimes],
         <<s, "lifetime">> \in T.armed \/ <<s, "update">> \notin T.armed
  PROVE  LET N == ArmRegistrationTimers(T, s) IN
         /\ Sound(N, {}) /\ Timely(N)
         /\ N.armed = T.armed \cup {<<s, "lifetime">>, <<s, "update">>}
<1>a. PICK d : d = prv_getUpdateDelay(lifetime[s])
  OBVIOUS
<1>b. PICK A : A = Arm(T, <<s, "lifetime">>, lifetime[s])
  OBVIOUS
<1>c. PICK N : N = Arm(A, <<s, "update">>, d)
  OBVIOUS
<1>1. /\ <<s, "update">> \in Timer /\ <<s, "lifetime">> \in Timer
      /\ Owner(<<s, "lifetime">>) = s /\ Kind(<<s, "update">>) # "lifetime"
  BY TimerIs
<1>2. /\ lifetime[s] \in Nat /\ d \in Nat
      /\ d <= lifetime[s]
  BY <1>a, UpdateDelay, LifetimesAssumption
<1>3. /\ Sound(A, {}) /\ A.armed = T.armed \cup {<<s, "lifetime">>}
      /\ A.time = [T.time EXCEPT ![<<s, "lifetime">>] = currentTime + lifetime[s]]
  <2>1. \A e \in Nat :
          LET U == Arm(T, <<s, "lifetime">>, e) IN
          /\ Sound(U, {}) /\ U.armed = T.armed \cup {<<s, "lifetime">>}
          /\ U.time = [T.time EXCEPT ![<<s, "lifetime">>] = currentTime + e]
    BY <1>1, ArmedTimer
  <2> QED
    BY <1>2, <1>b, <2>1
<1>4. /\ Sound(N, {}) /\ N.armed = A.armed \cup {<<s, "update">>}
      /\ N.time = [A.time EXCEPT ![<<s, "update">>] = currentTime + d]
  <2>1. \A e \in Nat :
          LET U == Arm(A, <<s, "update">>, e) IN
          /\ Sound(U, {}) /\ U.armed = A.armed \cup {<<s, "update">>}
          /\ U.time = [A.time EXCEPT ![<<s, "update">>] = currentTime + e]
    <3>1. Sound(A, {})
      BY <1>3
    <3>2. /\ Kind(<<s, "update">>) = "lifetime" /\ <<s, "update">> \notin A.armed
                 => <<Owner(<<s, "update">>), "update">> \notin A.armed
          /\ <<s, "update">> \in Timer
      BY <1>1
    <3> QED
      BY <3>1, <3>2, ArmedTimer
  <2> QED
    BY <1>2, <1>c, <2>1
<1>5. ArmRegistrationTimers(T, s) = N
  BY <1>a, <1>b, <1>c DEF ArmRegistrationTimers
<1>6. T.time \in [Timer -> Nat] /\ A.time \in [Timer -> Nat]
  BY <1>3 DEF Sound, TimerData
<1>7. ASSUME NEW v \in Server, <<v, "update">> \in N.armed, <<v, "lifetime">> \in N.armed
      PROVE  N.time[<<v, "update">>] <= N.time[<<v, "lifetime">>]
  <2>1. <<v, "update">> \in Timer /\ <<v, "lifetime">> \in Timer
    BY TimerIs
  <2>2. CASE v = s
    <3>1. /\ N.time[<<s, "update">>] = currentTime + d
          /\ N.time[<<s, "lifetime">>] = currentTime + lifetime[s]
      BY <1>1, <1>3, <1>4, <1>6
    <3> QED
      BY <1>2, <2>2, <3>1
  <2>3. CASE v # s
    <3>1. /\ N.time[<<v, "update">>] = T.time[<<v, "update">>]
          /\ N.time[<<v, "lifetime">>] = T.time[<<v, "lifetime">>]
      BY <1>3, <1>4, <1>6, <2>1, <2>3
    <3>2. <<v, "update">> \in T.armed /\ <<v, "lifetime">> \in T.armed
      BY <1>3, <1>4, <1>7, <2>3
    <3> QED
      BY <3>1, <3>2 DEF Timely
  <2> QED
    BY <2>2, <2>3
<1> QED
  BY <1>3, <1>4, <1>5, <1>7 DEF Timely

\* A disabled server has the timer that enables it again.
LEMMA DisabledTimers ==
  ASSUME NEW T, Sound(T, {}), Timely(T), NEW s \in Server, currentTime \in Nat
  PROVE  LET N == DisableTimers(T, s) IN
         /\ Sound(N, {}) /\ Timely(N)
         /\ N.armed = (T.armed \ {<<s, "exchange">>, <<s, "update">>}) \cup {<<s, "lifetime">>}
<1> DEFINE C == CloseTimers(T, s)
           N == coreTimerNew(C, <<s, "lifetime">>, DisableTimeout)
<1>1. /\ <<s, "update">> \in Timer /\ <<s, "lifetime">> \in Timer
      /\ Owner(<<s, "lifetime">>) = s /\ DisableTimeout \in Nat
  BY TimerIs, DelaysAssumption
<1>2. /\ Sound(C, {}) /\ Timely(C)
      /\ C.armed = T.armed \ {<<s, "exchange">>, <<s, "update">>, <<s, "lifetime">>}
  BY ClosedTimers
<1> HIDE DEF C
<1>3. <<s, "lifetime">> \notin C.armed /\ <<s, "update">> \notin C.armed
  BY <1>2
<1>4. /\ Sound(N, {}) /\ N.armed = C.armed \cup {<<s, "lifetime">>}
      /\ N.time = [C.time EXCEPT ![<<s, "lifetime">>] = currentTime + DisableTimeout]
  BY <1>1, <1>2, <1>3, NewTimer
<1>5. DisableTimers(T, s) = N
  BY DEF DisableTimers, C
<1> HIDE DEF N
<1>6. C.time \in [Timer -> Nat] /\ C.armed \subseteq Timer
  BY <1>2 DEF Sound, TimerData
<1>7. Timely(N)
  BY <1>1, <1>2, <1>3, <1>4, <1>6, TimerIs DEF Timely
<1> QED
  BY <1>2, <1>4, <1>5, <1>7

-----------------------------------------------------------------------------
(* The elements the loops hold                                             *)

LEMMA ListWalk ==
  ASSUME NEW S, NULL \notin S, NEW list \in Seq(S)
  PROVE  /\ First(list) = After(list, 0)
         /\ \A k \in 0..Len(list) :
              /\ After(list, k) \in S \cup {NULL}
              /\ After(list, k) = NULL <=> k = Len(list)
              /\ k < Len(list) => /\ k + 1 \in 1..Len(list)
                                  /\ After(list, k) = list[k + 1]
                                  /\ After(list, k) \in ToSet(list)
         /\ Distinct(list) =>
              \A k \in 1..Len(list) : /\ Index(list, list[k]) = k
                                      /\ Successor(list, list[k]) = After(list, k)
<1>1. Len(list) \in Nat /\ DOMAIN list = 1..Len(list)
  BY LenProperties
<1>2. \A k \in 1..Len(list) : list[k] \in S
  BY ElementOfSeq
<1>3. First(list) = After(list, 0)
  <2>1. list = <<>> <=> 0 = Len(list)
    BY EmptySeq
  <2> QED
    BY <2>1 DEF First, After
<1>4. ASSUME NEW k \in 0..Len(list)
      PROVE  /\ After(list, k) \in S \cup {NULL}
             /\ After(list, k) = NULL <=> k = Len(list)
             /\ k < Len(list) => /\ k + 1 \in 1..Len(list)
                                 /\ After(list, k) = list[k + 1]
                                 /\ After(list, k) \in ToSet(list)
  <2>1. CASE k = Len(list)
    BY <1>1, <2>1 DEF After
  <2>2. CASE k # Len(list)
    <3>1. k + 1 \in 1..Len(list)
      BY <2>2, LenProperties
    <3>2. After(list, k) = list[k + 1]
      BY <2>2 DEF After
    <3>3. list[k + 1] \in ToSet(list) /\ list[k + 1] \in S
      BY <1>1, <1>2, <3>1 DEF ToSet
    <3> QED
      BY <2>2, <3>1, <3>2, <3>3
  <2> QED
    BY <2>1, <2>2
<1>5. ASSUME Distinct(list), NEW k \in 1..Len(list)
      PROVE  /\ Index(list, list[k]) = k
             /\ Successor(list, list[k]) = After(list, k)
  <2>1. Index(list, list[k]) = k
    BY <1>1, <1>5 DEF Index, Distinct
  <2> QED
    BY <2>1 DEF Successor, After
<1> QED
  BY <1>3, <1>4, <1>5

\* When the loop comes back to the timer it ran, the list is spliced where the
\* timer is.
LEMMA Unlinked ==
  ASSUME NEW list \in Seq(Timer), Distinct(list), NEW k \in Nat, k < Len(list),
         NEW parent, parent = IF k = 0 THEN NULL ELSE list[k]
  PROVE  Unlink(list, parent, list[k + 1]) = IOWA_UTILS_LIST_REMOVE(list, list[k + 1])
<1>1. Len(list) \in Nat /\ k + 1 \in 1..Len(list)
  BY LenProperties
<1>2. Index(list, list[k + 1]) = k + 1
  BY <1>1, ListWalk, TimerIs
<1>3. IOWA_UTILS_LIST_REMOVE(list, list[k + 1])
        = SubSeq(list, 1, k) \o SubSeq(list, k + 1 + 1, Len(list))
  <2>1. PICK i : i = k + 1
    OBVIOUS
  <2>2. i - 1 = k
    BY <2>1
  <2>3. RemoveFirst(list, list[i]) = RemoveAt(list, i)
    BY <1>1, <2>1, RemoveFirstAt
  <2>4. RemoveAt(list, i) = SubSeq(list, 1, k) \o SubSeq(list, i + 1, Len(list))
    BY <2>2 DEF RemoveAt
  <2> QED
    BY <2>1, <2>3, <2>4, Zenon DEF IOWA_UTILS_LIST_REMOVE
<1>4. CASE k = 0
  <2>1. SubSeq(list, 1, k) = <<>>
    BY <1>4, SubSeqEmpty
  <2> QED
    BY <1>2, <1>3, <1>4, <2>1 DEF Unlink
<1>5. CASE k # 0
  <2>1. k \in 1..Len(list)
    BY <1>1, <1>5
  <2>2. parent = list[k] /\ Index(list, parent) = k /\ parent \in Timer
    BY <1>5, <2>1, ListWalk, TimerIs, ElementOfSeq
  <2>3. parent # NULL
    BY <2>2, TimerIs
  <2> QED
    BY <1>2, <1>3, <2>2, <2>3 DEF Unlink
<1> QED
  BY <1>4, <1>5

\* The elements around the one that was unlinked.
LEMMA WalkAfterUnlink ==
  ASSUME NEW list \in Seq(Timer), Distinct(list), NEW k \in Nat, k < Len(list)
  PROVE  LET rest == IOWA_UTILS_LIST_REMOVE(list, list[k + 1]) IN
         /\ rest \in Seq(Timer)
         /\ Len(rest) = Len(list) - 1
         /\ \A j \in 1..k : rest[j] = list[j]
         /\ After(rest, k) = After(list, k + 1)
<1>1. Len(list) \in Nat /\ k + 1 \in 1..Len(list)
  BY LenProperties
<1> DEFINE rest == IOWA_UTILS_LIST_REMOVE(list, list[k + 1])
<1>2. rest = RemoveAt(list, k + 1)
  BY <1>1, RemoveFirstAt DEF IOWA_UTILS_LIST_REMOVE
<1> HIDE DEF rest
<1>3. /\ rest \in Seq(Timer) /\ Len(rest) = Len(list) - 1
      /\ \A j \in 1..Len(list) - 1 : rest[j] = IF j < k + 1 THEN list[j] ELSE list[j + 1]
  BY <1>1, <1>2, RemoveAtProperties
<1>4. \A j \in 1..k : rest[j] = list[j]
  BY <1>1, <1>3
<1>5. After(rest, k) = After(list, k + 1)
  BY <1>1, <1>3 DEF After
<1> QED
  BY <1>3, <1>4, <1>5 DEF rest

-----------------------------------------------------------------------------
(* Between two passes                                                      *)

LEMMA InitTimers == Init => TimerInv
<1> SUFFICES ASSUME Init PROVE TimerInv
  OBVIOUS
<1>1. TypeOK
  BY BoundsAssumption DEF Init, TypeOK, Idle, Status
<1>2. TimersInv
  <2>1. <<>> \in Seq(Timer) /\ DOMAIN <<>> = {}
    OBVIOUS
  <2>2. ToSet(<<>>) = {} /\ Distinct(<<>>) /\ Ordered(<<>>)
    BY <2>1 DEF ToSet, Distinct, Ordered
  <2>3. Running = {}
    BY DEF Init, Idle, Running
  <2>4. timers \in TimerData
    BY <1>1 DEF TypeOK, TimerData
  <2>5. Sound(timers, Running)
    BY <2>2, <2>3, <2>4 DEF Init, Sound
  <2>6. Timely(timers) /\ \A s \in Server : Owns(timers.armed, s, status[s], Closing(s))
    BY DEF Init, Timely, Owns
  <2> QED
    BY <2>5, <2>6 DEF TimersInv
<1>3. ServersInv
  <2>1. DOMAIN <<>> = {}
    OBVIOUS
  <2> QED
    BY <2>1 DEF Init, ServersInv, Distinct, ToSet
<1>4. WalkInv
  BY DEF Init, Idle, WalkInv
<1> QED
  BY <1>1, <1>2, <1>3, <1>4 DEF TimerInv

\* The timers of the servers but s.
Others(armed, s) == {t \in armed : Owner(t) # s}

\* The statuses and the timers of the servers but s are as they were.
LEMMA OthersOwn ==
  ASSUME NEW A, NEW B, NEW s \in Server, NEW v \in Server, v # s,
         A \subseteq Timer, B \subseteq Timer, Others(A, s) = Others(B, s),
         NEW x, NEW c, Owns(A, v, x, c)
  PROVE  Owns(B, v, x, c)
<1>1. \A k \in {"exchange", "update", "lifetime"} : <<v, k>> \in A <=> <<v, k>> \in B
  BY TimerIs DEF Others
<1> QED
  BY <1>1 DEF Owns

\* The timers of s in the new set are those of its new status.
LEMMA AllOwn ==
  ASSUME TypeOK, TimersInv, TypeOK', NEW s \in Server, NEW x, NEW T,
         timers' = T, status' = [status EXCEPT ![s] = x],
         Others(T.armed, s) = Others(timers.armed, s),
         \A v \in Server \ {s} : Closing(v)' = Closing(v),
         Owns(T.armed, s, x, Closing(s)')
  PROVE  \A v \in Server : Owns(timers.armed, v, status[v], Closing(v))'
<1> SUFFICES ASSUME NEW v \in Server
             PROVE  Owns(timers'.armed, v, status'[v], Closing(v)')
  BY DEF Owns
<1>1. status \in [Server -> Status] /\ timers.armed \subseteq Timer /\ T.armed \subseteq Timer
  BY DEF TypeOK
<1>2. CASE v = s
  BY <1>1, <1>2
<1>3. CASE v # s
  <2>1. Owns(timers.armed, v, status[v], Closing(v))
    BY DEF TimersInv
  <2>2. status'[v] = status[v] /\ Closing(v)' = Closing(v)
    BY <1>1, <1>3
  <2> QED
    BY <1>1, <1>3, <2>1, <2>2, OthersOwn
<1> QED
  BY <1>2, <1>3

\* A server that is answered while the stack waits.
LEMMA AnswersKeep ==
  ASSUME TimerInv, NEW s \in Server, status[s] # "absent",
         NEW x \in Status \ {"absent"}, NEW T, Answered(s, x, T),
         Sound(T, {}), Timely(T), Others(T.armed, s) = Others(timers.armed, s),
         Owns(T.armed, s, x, FALSE)
  PROVE  TimerInv'
<1>1. /\ walk.pc = "select" /\ ~walk.calling /\ walk' = walk /\ serverList' = serverList
      /\ timers' = T /\ status' = [status EXCEPT ![s] = x]
  BY DEF Answered, Selecting, TimerInv, WalkInv
<1>2. TypeOK'
  <2>1. T \in [list : Seq(Timer), time : [Timer -> Nat], armed : SUBSET Timer]
    BY DEF Sound, TimerData
  <2> QED
    BY <1>1, <2>1 DEF Answered, TimerInv, TypeOK
<1>3. \A v \in Server : Closing(v) = FALSE /\ Closing(v)' = FALSE
  BY <1>1 DEF Closing
<1>4. Running' = {}
  BY <1>1 DEF Running
<1>5. \A v \in Server : Owns(timers.armed, v, status[v], Closing(v))'
  BY <1>1, <1>2, <1>3, AllOwn DEF TimerInv
<1>6. TimersInv'
  BY <1>1, <1>4, <1>5 DEF TimersInv, Sound, Timely
<1>7. ServersInv'
  <2>1. status \in [Server -> Status]
    BY DEF TimerInv, TypeOK
  <2>2. \A v \in Server : status'[v] # "absent" <=> status[v] # "absent"
    BY <1>1, <2>1
  <2> QED
    BY <1>1, <2>2 DEF TimerInv, ServersInv
<1>8. WalkInv'
  BY <1>1 DEF WalkInv
<1> QED
  BY <1>2, <1>6, <1>7, <1>8 DEF TimerInv

\* What the timers of a server are in each of its statuses.
LEMMA OwnedTimers ==
  ASSUME TimerInv, NEW s \in Server, ~walk.calling
  PROVE  /\ Sound(timers, {}) /\ Timely(timers) /\ timers.armed \subseteq Timer
         /\ currentTime \in Nat /\ lifetime \in [Server -> Lifetimes]
         /\ Owns(timers.armed, s, status[s], FALSE)
         /\ <<s, "lifetime">> \in timers.armed \/ <<s, "update">> \notin timers.armed
<1>1. Running = {} /\ Closing(s) = FALSE
  BY DEF Running, Closing
<1>2. /\ Sound(timers, {}) /\ Timely(timers) /\ timers.armed \subseteq Timer
      /\ Owns(timers.armed, s, status[s], FALSE)
  BY <1>1 DEF TimerInv, TimersInv, TypeOK
<1> QED
  BY <1>2, BoundsAssumption DEF TimerInv, TypeOK, Owns

LEMMA HandshakeKeeps ==
  ASSUME TimerInv, NEW s \in Server, HandshakeDone(s)
  PROVE  TimerInv'
<1>1. /\ Sound(timers, {}) /\ Timely(timers) /\ timers.armed \subseteq Timer
      /\ currentTime \in Nat
      /\ Owns(timers.armed, s, "WAITING_CONNECTION", FALSE)
  BY OwnedTimers DEF HandshakeDone, Answered, Selecting, TimerInv, WalkInv
<1>2. CASE Answered(s, "FAILED", timers)
  <2>1. Owns(timers.armed, s, "FAILED", FALSE)
    BY <1>1 DEF Owns
  <2> QED
    BY <1>1, <1>2, <2>1, AnswersKeep DEF HandshakeDone, Status
<1>3. CASE Answered(s, "REGISTERING", coreTimerNew(timers, <<s, "exchange">>, ExchangeWait))
  <2>1. PICK T : T = coreTimerNew(timers, <<s, "exchange">>, ExchangeWait)
    OBVIOUS
  <2>2. <<s, "exchange">> \notin timers.armed
    BY <1>1 DEF Owns
  <2>3. /\ Sound(T, {}) /\ Timely(T)
        /\ T.armed = timers.armed \cup {<<s, "exchange">>}
    BY <1>1, <2>1, <2>2, ExchangeTimers
  <2>5. Others(T.armed, s) = Others(timers.armed, s)
    BY <2>3, TimerIs DEF Others
  <2>6. Owns(T.armed, s, "REGISTERING", FALSE)
    BY <1>1, <2>3 DEF Owns
  <2> QED
    BY <1>3, <2>1, <2>3, <2>5, <2>6, AnswersKeep DEF HandshakeDone, Status
<1> QED
  BY <1>2, <1>3 DEF HandshakeDone

\* A registration that is refused, or a server that is closed.
LEMMA ClosedKeeps ==
  ASSUME TimerInv, NEW s \in Server, status[s] # "absent", NEW T, Sound(T, {}),
         Timely(T), Others(T.armed, s) = Others(timers.armed, s),
         Answered(s, "FAILED", CloseTimers(T, s))
  PROVE  TimerInv'
<1>1. PICK N : N = CloseTimers(T, s)
  OBVIOUS
<1>2. /\ Sound(N, {}) /\ Timely(N)
      /\ N.armed = T.armed \ {<<s, "exchange">>, <<s, "update">>, <<s, "lifetime">>}
  BY <1>1, ClosedTimers
<1>3. Others(N.armed, s) = Others(timers.armed, s)
  BY <1>2, TimerIs DEF Others
<1>4. Owns(N.armed, s, "FAILED", FALSE)
  BY <1>2 DEF Owns
<1> QED
  BY <1>1, <1>2, <1>3, <1>4, AnswersKeep DEF Status

\* A registration that is accepted.
LEMMA RegisteredKeeps ==
  ASSUME TimerInv, NEW s \in Server, status[s] # "absent",
         NEW T, Sound(T, {}), Timely(T), Others(T.armed, s) = Others(timers.armed, s),
         <<s, "exchange">> \notin T.armed,
         <<s, "lifetime">> \in T.armed \/ <<s, "update">> \notin T.armed,
         Answered(s, "REGISTERED", ArmRegistrationTimers(T, s))
  PROVE  TimerInv'
<1>1. PICK N : N = ArmRegistrationTimers(T, s)
  OBVIOUS
<1>2. currentTime \in Nat /\ lifetime \in [Server -> Lifetimes]
  BY BoundsAssumption DEF TimerInv, TypeOK
<1>3. /\ Sound(N, {}) /\ Timely(N)
      /\ N.armed = T.armed \cup {<<s, "lifetime">>, <<s, "update">>}
  BY <1>1, <1>2, RegistrationTimers
<1>4. Others(N.armed, s) = Others(timers.armed, s)
  BY <1>3, TimerIs DEF Others
<1>5. Owns(N.armed, s, "REGISTERED", FALSE)
  BY <1>3 DEF Owns
<1> QED
  BY <1>1, <1>3, <1>4, <1>5, AnswersKeep DEF Status

LEMMA RegistrationReplyKeeps ==
  ASSUME TimerInv, NEW s \in Server, RegistrationReply(s)
  PROVE  TimerInv'
<1>1. PICK T : T = coreTimerDelete(timers, <<s, "exchange">>)
  OBVIOUS
<1>2. /\ Sound(timers, {}) /\ Timely(timers) /\ timers.armed \subseteq Timer
      /\ Owns(timers.armed, s, "REGISTERING", FALSE) /\ status[s] # "absent"
  BY OwnedTimers DEF RegistrationReply, Answered, Selecting, TimerInv, WalkInv
<1>3. <<s, "exchange">> \in Timer
  BY TimerIs
<1>4. /\ Sound(T, {}) /\ T.armed = timers.armed \ {<<s, "exchange">>}
      /\ \A u \in Timer \ {<<s, "exchange">>} : T.time[u] = timers.time[u]
  BY <1>1, <1>2, <1>3, DeletedTimer
<1>5. Timely(T)
  BY <1>2, <1>4, StaysTimely
<1>6. Others(T.armed, s) = Others(timers.armed, s)
  BY <1>4, TimerIs DEF Others
<1>7. <<s, "exchange">> \notin T.armed /\ <<s, "update">> \notin T.armed
  BY <1>2, <1>4 DEF Owns
<1>8. \/ Answered(s, "REGISTERED", ArmRegistrationTimers(T, s))
      \/ Answered(s, "FAILED", CloseTimers(T, s))
  BY <1>1 DEF RegistrationReply
<1> QED
  BY <1>2, <1>4, <1>5, <1>6, <1>7, <1>8, ClosedKeeps, RegisteredKeeps

LEMMA UpdateReplyKeeps ==
  ASSUME TimerInv, NEW s \in Server, RegistrationUpdateReply(s)
  PROVE  TimerInv'
<1>1. /\ Sound(timers, {}) /\ Timely(timers)
      /\ Owns(timers.armed, s, "UPDATE_PENDING", FALSE) /\ status[s] # "absent"
      /\ <<s, "lifetime">> \in timers.armed
  BY OwnedTimers DEF RegistrationUpdateReply, Answered, Selecting, TimerInv, WalkInv, Owns
<1>2. <<s, "exchange">> \notin timers.armed /\ Owns(timers.armed, s, "REGISTERED", FALSE)
  BY <1>1 DEF Owns
<1>3. \/ Answered(s, "REGISTERED", ArmRegistrationTimers(timers, s))
      \/ Answered(s, "FAILED", CloseTimers(timers, s))
      \/ Answered(s, "REGISTERED", timers)
  BY DEF RegistrationUpdateReply
<1>4. CASE Answered(s, "REGISTERED", timers)
  BY <1>1, <1>2, <1>4, AnswersKeep DEF Status
<1> QED
  BY <1>1, <1>2, <1>3, <1>4, ClosedKeeps, RegisteredKeeps

LEMMA SelectingKeeps ==
  ASSUME TimerInv, Tick \/ \E s \in Server, l \in Lifetimes : WriteLifetime(s, l)
  PROVE  TimerInv'
<1>1. /\ walk.pc = "select" /\ walk' = walk /\ timers' = timers
      /\ serverList' = serverList /\ status' = status
  BY DEF Tick, WriteLifetime, Selecting
<1>2. TypeOK'
  BY BoundsAssumption DEF Tick, WriteLifetime, TimerInv, TypeOK
<1>3. TimersInv' /\ ServersInv' /\ WalkInv'
  BY <1>1 DEF TimerInv, TimersInv, ServersInv, WalkInv, Running, Closing
<1> QED
  BY <1>2, <1>3 DEF TimerInv

\* The application may add a server while the stack waits or calls it: the list
\* gets a new head, before the server whose callback is running.
LEMMA AddServerKeeps ==
  ASSUME TimerInv, NEW s \in Server, iowa_client_add_server(s)
  PROVE  TimerInv'
<1>1. /\ status[s] = "absent" /\ serverList' = <<s>> \o serverList
      /\ status' = [status EXCEPT ![s] = "DISCONNECTED"]
      /\ walk' = walk /\ timers' = timers /\ currentTime' = currentTime /\ timeout' = timeout
      /\ walk.pc = "select" \/ walk.calling
  BY DEF iowa_client_add_server, Selecting
<1>2. /\ status \in [Server -> Status] /\ serverList \in Seq(Server)
      /\ Distinct(serverList) /\ s \notin ToSet(serverList)
  BY <1>1 DEF TimerInv, TypeOK, ServersInv
<1>3. /\ serverList' \in Seq(Server) /\ Len(serverList') = Len(serverList) + 1
      /\ \A j \in 1..Len(serverList) : serverList'[j + 1] = serverList[j]
      /\ ToSet(serverList') = ToSet(serverList) \cup {s}
      /\ Distinct(serverList')
  BY <1>1, <1>2, AddHeadProperties
<1>4. TypeOK'
  BY <1>1, <1>2, <1>3 DEF iowa_client_add_server, TimerInv, TypeOK, Status
<1>5. TimersInv'
  <2>1. Running' = Running /\ \A v \in Server : Closing(v)' = Closing(v)
    BY <1>1 DEF Running, Closing
  <2>2. Owns(timers.armed, s, "DISCONNECTED", Closing(s)')
    BY <1>1, <2>1 DEF TimerInv, TimersInv, Owns
  <2>3. \A v \in Server : Owns(timers.armed, v, status[v], Closing(v))'
    BY <1>1, <1>4, <2>1, <2>2, AllOwn DEF TimerInv
  <2> QED
    BY <1>1, <2>1, <2>3 DEF TimerInv, TimersInv, Sound, Timely
<1>6. ServersInv'
  BY <1>1, <1>2, <1>3 DEF TimerInv, ServersInv
<1>7. ASSUME walk.pc = "servers" PROVE \E k \in Nat : ServersWalk(k)'
  <2>1. PICK k \in Nat : ServersWalk(k)
    BY <1>7 DEF TimerInv, WalkInv
  <2>2. walk.calling /\ walk.ok /\ k < Len(serverList)
    BY <1>1, <1>7, <2>1 DEF ServersWalk
  <2>3. Len(serverList) \in Nat /\ walk.server = After(serverList, k)
    BY <1>2, <2>1, LenProperties DEF ServersWalk
  <2>4. After(serverList', k + 1) = After(serverList, k)
    BY <1>3, <2>2, <2>3 DEF After
  <2>5. ServersWalk(k + 1)'
    BY <1>1, <1>3, <2>2, <2>3, <2>4 DEF ServersWalk
  <2> QED
    BY <2>5
<1>8. WalkInv'
  BY <1>1, <1>7 DEF TimerInv, WalkInv, TimersWalk
<1> QED
  BY <1>4, <1>5, <1>6, <1>8 DEF TimerInv

\* It may remove one only while the stack waits.
LEMMA RemoveServerKeeps ==
  ASSUME TimerInv, ~Removes, NEW s \in Server, iowa_client_remove_server(s)
  PROVE  TimerInv'
<1>1. PICK T : T = CloseTimers(timers, s)
  OBVIOUS
<1>2. /\ walk.pc = "select" /\ ~walk.calling /\ walk' = walk
      /\ serverList' = RemoveFirst(serverList, s)
      /\ status' = [status EXCEPT ![s] = "absent"] /\ timers' = T
  BY <1>1 DEF iowa_client_remove_server, Selecting, TimerInv, WalkInv, IOWA_UTILS_LIST_REMOVE
<1>3. Sound(timers, {}) /\ Timely(timers)
  BY <1>2, OwnedTimers
<1>4. /\ Sound(T, {}) /\ Timely(T)
      /\ T.armed = timers.armed \ {<<s, "exchange">>, <<s, "update">>, <<s, "lifetime">>}
  BY <1>1, <1>3, ClosedTimers
<1>5. /\ status \in [Server -> Status] /\ serverList \in Seq(Server) /\ Distinct(serverList)
  BY DEF TimerInv, TypeOK, ServersInv
<1>6. /\ serverList' \in Seq(Server) /\ Distinct(serverList')
      /\ ToSet(serverList') = ToSet(serverList) \ {s}
  BY <1>2, <1>5, RemoveFirstProperties
<1>7. TypeOK'
  <2>1. T \in [list : Seq(Timer), time : [Timer -> Nat], armed : SUBSET Timer]
    BY <1>4 DEF Sound, TimerData
  <2> QED
    BY <1>2, <1>5, <1>6, <2>1 DEF iowa_client_remove_server, TimerInv, TypeOK, Status
<1>8. TimersInv'
  <2>1. Running' = {} /\ \A v \in Server : Closing(v) = FALSE /\ Closing(v)' = FALSE
    BY <1>2 DEF Running, Closing
  <2>2. Owns(T.armed, s, "absent", FALSE)
    BY <1>4 DEF Owns
  <2>3. Others(T.armed, s) = Others(timers.armed, s)
    BY <1>4, TimerIs DEF Others
  <2>4. \A v \in Server : Owns(timers.armed, v, status[v], Closing(v))'
    BY <1>2, <1>7, <2>1, <2>2, <2>3, AllOwn DEF TimerInv
  <2> QED
    BY <1>2, <1>4, <2>1, <2>4 DEF TimersInv, Sound, Timely
<1>9. ServersInv'
  BY <1>2, <1>5, <1>6 DEF TimerInv, ServersInv
<1>10. WalkInv'
  BY <1>2 DEF WalkInv
<1> QED
  BY <1>7, <1>8, <1>9, <1>10 DEF TimerInv

LEMMA StepBeginKeeps == TimerInv /\ StepBegin => TimerInv'
<1> SUFFICES ASSUME TimerInv, StepBegin PROVE TimerInv'
  OBVIOUS
<1>1. /\ walk.pc = "select" /\ ~walk.calling
      /\ timers' = timers /\ serverList' = serverList /\ status' = status
      /\ ~walk'.calling /\ ~walk'.ok
      /\ \/ walk' = [Idle EXCEPT !.pc = "timers", !.timer = First(timers.list)]
         \/ walk' = [Idle EXCEPT !.pc = "servers", !.server = First(serverList)]
  BY DEF StepBegin, Selecting, TimerInv, WalkInv, Idle
<1>2. timers.list \in Seq(Timer) /\ serverList \in Seq(Server)
  BY DEF TimerInv, TypeOK
<1>3. /\ First(timers.list) = After(timers.list, 0) /\ First(timers.list) \in Timer \cup {NULL}
      /\ First(serverList) = After(serverList, 0) /\ First(serverList) \in Server \cup {NULL}
      /\ 0 \in 0..Len(timers.list) /\ 0 \in 0..Len(serverList)
  BY <1>2, ListWalk, TimerIs, LenProperties
<1>4. TypeOK'
  BY <1>1, <1>3, BoundsAssumption DEF StepBegin, Idle, TimerInv, TypeOK
<1>5. TimersInv' /\ ServersInv'
  BY <1>1 DEF TimerInv, TimersInv, ServersInv, Running, Closing
<1>6. ASSUME walk' = [Idle EXCEPT !.pc = "timers", !.timer = First(timers.list)]
      PROVE  WalkInv'
  <2>1. /\ walk'.pc = "timers" /\ walk'.timer = After(timers'.list, 0)
        /\ walk'.parent = NULL /\ walk'.next = NULL
    BY <1>1, <1>3, <1>6 DEF Idle
  <2>2. TimersWalk(0)'
    BY <1>1, <1>3, <2>1 DEF TimersWalk
  <2>3. \E k \in Nat : TimersWalk(k)'
    BY <2>2
  <2> QED
    BY <2>1, <2>3 DEF WalkInv
<1>7. ASSUME walk' = [Idle EXCEPT !.pc = "servers", !.server = First(serverList)]
      PROVE  WalkInv'
  <2>1. walk'.pc = "servers" /\ walk'.server = After(serverList', 0)
    BY <1>1, <1>3, <1>7 DEF Idle
  <2>2. ServersWalk(0)'
    BY <1>1, <1>3, <2>1 DEF ServersWalk
  <2>3. \E k \in Nat : ServersWalk(k)'
    BY <2>2
  <2> QED
    BY <2>1, <2>3 DEF WalkInv
<1> QED
  BY <1>1, <1>4, <1>5, <1>6, <1>7 DEF TimerInv

-----------------------------------------------------------------------------
(* registration_step                                                       *)

\* The server the loop is at.
LEMMA VisitedServer ==
  ASSUME TimerInv, walk.pc = "servers", walk.server # NULL
  PROVE  /\ walk.server \in Server /\ walk.server \in ToSet(serverList)
         /\ status[walk.server] \in Status \ {"absent"}
<1>1. PICK k \in Nat : ServersWalk(k)
  BY DEF TimerInv, WalkInv
<1>2. serverList \in Seq(Server) /\ status \in [Server -> Status]
  BY DEF TimerInv, TypeOK
<1>3. k \in 0..Len(serverList) /\ walk.server = After(serverList, k)
  BY <1>1 DEF ServersWalk
<1>4. k < Len(serverList)
  BY <1>2, <1>3, ListWalk, TimerIs, LenProperties
<1>5. walk.server \in Server /\ walk.server \in ToSet(serverList)
  BY <1>2, <1>3, <1>4, ListWalk, TimerIs
<1> QED
  BY <1>2, <1>5 DEF TimerInv, ServersInv

\* The loop visits a server: only a failed one leaves the result an error.
LEMMA VisitKeeps ==
  ASSUME TimerInv, NEW s, s = walk.server, NEW x \in Status \ {"absent"}, NEW T,
         NEW event \in BOOLEAN, NEW ok \in BOOLEAN, ServerVisited(x, T, event, ok),
         timeout' \in Nat, event => ok, ~ok => x = "FAILED",
         Sound(T, {}), Timely(T), Others(T.armed, s) = Others(timers.armed, s),
         Owns(T.armed, s, x, event)
  PROVE  TimerInv'
<1>1. /\ walk.pc = "servers" /\ s # NULL /\ ~walk.calling
      /\ status' = [status EXCEPT ![s] = x] /\ timers' = T /\ serverList' = serverList
      /\ walk' = [walk EXCEPT !.ok = @ \/ ok, !.calling = event,
                              !.server = IF event THEN s ELSE Successor(serverList, s)]
      /\ state' = state /\ currentTime' = currentTime /\ lifetime' = lifetime
  BY DEF ServerVisited
<1>2. /\ walk \in [pc : {"select", "servers", "timers"}, calling : BOOLEAN, ok : BOOLEAN,
                   server : Server \cup {NULL}, timer : Timer \cup {NULL},
                   parent : Timer \cup {NULL}, next : Timer \cup {NULL}]
      /\ status \in [Server -> Status] /\ serverList \in Seq(Server) /\ Distinct(serverList)
  BY DEF TimerInv, TypeOK, ServersInv
<1>3. s \in Server /\ s \in ToSet(serverList) /\ status[s] # "absent"
  BY <1>1, VisitedServer
<1>4. PICK k \in Nat : ServersWalk(k)
  BY <1>1 DEF TimerInv, WalkInv
<1>5. k <= Len(serverList) /\ Len(serverList) \in Nat /\ s = After(serverList, k)
  BY <1>2, <1>4, LenProperties DEF ServersWalk
<1>6. k + 1 \in 1..Len(serverList) /\ s = serverList[k + 1] /\ k < Len(serverList)
  BY <1>1, <1>2, <1>5, ListWalk, TimerIs
<1>7. Successor(serverList, s) = After(serverList, k + 1)
  BY <1>2, <1>6, ListWalk, TimerIs
<1>8. After(serverList, k + 1) \in Server \cup {NULL}
  BY <1>2, <1>5, <1>6, ListWalk, TimerIs
<1>9. /\ walk'.pc = "servers" /\ walk'.calling = event /\ walk'.ok = (walk.ok \/ ok)
      /\ walk'.server = IF event THEN s ELSE After(serverList, k + 1)
      /\ walk' \in [pc : {"select", "servers", "timers"}, calling : BOOLEAN, ok : BOOLEAN,
                    server : Server \cup {NULL}, timer : Timer \cup {NULL},
                    parent : Timer \cup {NULL}, next : Timer \cup {NULL}]
  BY <1>1, <1>2, <1>3, <1>7, <1>8
<1>10. TypeOK'
  <2>1. T \in [list : Seq(Timer), time : [Timer -> Nat], armed : SUBSET Timer]
    BY DEF Sound, TimerData
  <2>2. status' \in [Server -> Status]
    BY <1>1, <1>2
  <2> QED
    BY <1>1, <1>9, <2>1, <2>2 DEF TimerInv, TypeOK
<1>11. TimersInv'
  <2>1. Running' = {}
    BY <1>9 DEF Running
  <2>2. \A v \in Server \ {s} : Closing(v) = FALSE /\ Closing(v)' = FALSE
    BY <1>1, <1>9 DEF Closing
  <2>3. Closing(s)' = event
    BY <1>9 DEF Closing
  <2>4. \A v \in Server : Owns(timers.armed, v, status[v], Closing(v))'
    BY <1>1, <1>3, <1>10, <2>2, <2>3, AllOwn DEF TimerInv
  <2> QED
    BY <1>1, <2>1, <2>4 DEF TimersInv, Sound, Timely
<1>12. ServersInv'
  BY <1>1, <1>2, <1>3 DEF TimerInv, ServersInv
<1>13. CASE event
  <2>1. ServersWalk(k)'
    BY <1>1, <1>4, <1>5, <1>6, <1>9, <1>13 DEF ServersWalk
  <2>2. WalkInv'
    BY <1>9, <2>1 DEF WalkInv
  <2> QED
    BY <1>10, <1>11, <1>12, <2>2 DEF TimerInv
<1>14. CASE ~event
  <2>1. ASSUME ~walk'.ok, NEW i \in 1..k + 1
        PROVE  status'[serverList[i]] = "FAILED"
    <3>1. x = "FAILED" /\ ~walk.ok
      BY <1>9, <2>1
    <3>2. CASE i = k + 1
      BY <1>1, <1>2, <1>3, <1>6, <3>1, <3>2
    <3>3. CASE i # k + 1
      <4>1. i \in 1..k /\ i \in 1..Len(serverList)
        BY <1>6, <3>3
      <4>2. status[serverList[i]] = "FAILED"
        BY <1>4, <3>1, <4>1 DEF ServersWalk
      <4>3. serverList[i] # s
        BY <1>2, <1>6, <3>3, <4>1, LenProperties DEF Distinct
      <4>4. serverList[i] \in Server
        BY <1>2, <4>1, ElementOfSeq
      <4> QED
        BY <1>1, <1>2, <4>2, <4>3, <4>4
    <3> QED
      BY <3>2, <3>3
  <2>2. k + 1 \in 0..Len(serverList)
    BY <1>5, <1>6
  <2>3. ServersWalk(k + 1)'
    BY <1>1, <1>9, <1>14, <2>1, <2>2 DEF ServersWalk
  <2>4. WalkInv'
    BY <1>9, <2>3 DEF WalkInv
  <2> QED
    BY <1>10, <1>11, <1>12, <2>4 DEF TimerInv
<1> QED
  BY <1>13, <1>14

LEMMA VisitDisconnectedKeeps == TimerInv /\ VisitDisconnected => TimerInv'
<1> SUFFICES ASSUME TimerInv, VisitDisconnected PROVE TimerInv'
  OBVIOUS
<1>1. PICK s : s = walk.server
  OBVIOUS
<1>2. s # NULL /\ status[s] = "DISCONNECTED" /\ walk.pc = "servers" /\ ~walk.calling
  BY <1>1 DEF VisitDisconnected, ServerVisited
<1>3. s \in Server
  BY <1>1, <1>2, VisitedServer
<1>4. /\ Sound(timers, {}) /\ Timely(timers) /\ currentTime \in Nat
      /\ Owns(timers.armed, s, "DISCONNECTED", FALSE)
  BY <1>2, <1>3, OwnedTimers
<1>5. timeout \in Nat
  BY DEF TimerInv, TypeOK
<1>6. CASE ServerVisited("WAITING_CONNECTION", timers, TRUE, TRUE) /\ timeout' = 0
  <2>1. Owns(timers.armed, s, "WAITING_CONNECTION", TRUE)
    BY <1>4 DEF Owns
  <2> QED
    BY <1>1, <1>4, <1>6, <2>1, VisitKeeps DEF Status
<1>7. CASE /\ ServerVisited("REGISTERING",
                            coreTimerNew(timers, <<s, "exchange">>, ExchangeWait), TRUE, TRUE)
           /\ UNCHANGED timeout
  <2>1. PICK T : T = coreTimerNew(timers, <<s, "exchange">>, ExchangeWait)
    OBVIOUS
  <2>2. <<s, "exchange">> \notin timers.armed
    BY <1>4 DEF Owns
  <2>3. /\ Sound(T, {}) /\ Timely(T)
        /\ T.armed = timers.armed \cup {<<s, "exchange">>}
    BY <1>3, <1>4, <2>1, <2>2, ExchangeTimers
  <2>4. Others(T.armed, s) = Others(timers.armed, s)
    BY <1>3, <2>3, TimerIs DEF Others
  <2>5. Owns(T.armed, s, "REGISTERING", TRUE)
    BY <1>4, <2>3 DEF Owns
  <2> QED
    BY <1>1, <1>5, <1>7, <2>1, <2>3, <2>4, <2>5, VisitKeeps DEF Status
<1>8. ASSUME NEW event \in BOOLEAN, ServerVisited("FAILED", timers, event, event), timeout' = 0
      PROVE  TimerInv'
  <2>1. Owns(timers.armed, s, "FAILED", event)
    BY <1>4 DEF Owns
  <2> QED
    BY <1>1, <1>4, <1>8, <2>1, VisitKeeps DEF Status
<1> QED
  BY <1>1, <1>6, <1>7, <1>8 DEF VisitDisconnected

LEMMA VisitRegisteredKeeps == TimerInv /\ VisitRegistered => TimerInv'
<1> SUFFICES ASSUME TimerInv, VisitRegistered PROVE TimerInv'
  OBVIOUS
<1>1. PICK s : s = walk.server
  OBVIOUS
<1>2. s # NULL /\ status[s] = "REGISTERED" /\ walk.pc = "servers" /\ ~walk.calling
  BY <1>1 DEF VisitRegistered, ServerVisited
<1>3. s \in Server
  BY <1>1, <1>2, VisitedServer
<1>4. /\ Sound(timers, {}) /\ Timely(timers) /\ currentTime \in Nat
      /\ Owns(timers.armed, s, "REGISTERED", FALSE)
  BY <1>2, <1>3, OwnedTimers
<1>5. timeout \in Nat
  BY DEF TimerInv, TypeOK
<1>6. CASE /\ ServerVisited("REGISTERED", timers, FALSE, TRUE)
           /\ timeout' \in {timeout, 0}
  <2>1. timeout' \in Nat
    BY <1>5, <1>6
  <2> QED
    BY <1>1, <1>4, <1>6, <2>1, VisitKeeps DEF Status
<1>7. ASSUME NEW x \in {"UPDATE_PENDING", "REGISTERED", "disabled"},
             ServerVisited(x, timers, TRUE, TRUE), UNCHANGED timeout
      PROVE  TimerInv'
  <2>1. Owns(timers.armed, s, x, TRUE)
    BY <1>4, <1>7 DEF Owns
  <2> QED
    BY <1>1, <1>4, <1>5, <1>7, <2>1, VisitKeeps DEF Status
<1>8. CASE /\ ServerVisited("REGISTERED", DisableTimers(timers, s), FALSE, TRUE)
           /\ UNCHANGED timeout
  <2>1. PICK T : T = DisableTimers(timers, s)
    OBVIOUS
  <2>2. /\ Sound(T, {}) /\ Timely(T)
        /\ T.armed = (timers.armed \ {<<s, "exchange">>, <<s, "update">>})
                       \cup {<<s, "lifetime">>}
    BY <1>3, <1>4, <2>1, DisabledTimers
  <2>3. Others(T.armed, s) = Others(timers.armed, s)
    BY <1>3, <2>2, TimerIs DEF Others
  <2>4. Owns(T.armed, s, "REGISTERED", FALSE)
    BY <2>2 DEF Owns
  <2> QED
    BY <1>1, <1>5, <1>8, <2>1, <2>2, <2>3, <2>4, VisitKeeps DEF Status
<1> QED
  BY <1>1, <1>6, <1>7, <1>8 DEF VisitRegistered

LEMMA VisitOtherKeeps == TimerInv /\ VisitOther => TimerInv'
<1> SUFFICES ASSUME TimerInv, VisitOther PROVE TimerInv'
  OBVIOUS
<1>1. PICK s, x, ok : s = walk.server /\ x = status[s] /\ ok = (status[s] # "FAILED")
  OBVIOUS
<1>2. /\ s # NULL /\ x \in Status \ {"absent"} /\ walk.pc = "servers" /\ ~walk.calling
      /\ ServerVisited(x, timers, FALSE, ok) /\ timeout' = timeout
  BY <1>1 DEF VisitOther, ServerVisited, Status
<1>3. s \in Server
  BY <1>1, <1>2, VisitedServer
<1>4. Sound(timers, {}) /\ Timely(timers) /\ Owns(timers.armed, s, x, FALSE)
  BY <1>1, <1>2, <1>3, OwnedTimers
<1>5. timeout \in Nat /\ ok \in BOOLEAN /\ (~ok => x = "FAILED")
  BY <1>1 DEF TimerInv, TypeOK
<1> QED
  BY <1>1, <1>2, <1>4, <1>5, VisitKeeps

LEMMA ServerEventKeeps == TimerInv /\ ServerEventReturns => TimerInv'
<1> SUFFICES ASSUME TimerInv, ServerEventReturns PROVE TimerInv'
  OBVIOUS
<1>1. PICK s, x : s = walk.server /\ x = status[s]
  OBVIOUS
<1>2. PICK T : T = IF x = "disabled" THEN DisableTimers(timers, s) ELSE timers
  OBVIOUS
<1>3. /\ walk.pc = "servers" /\ walk.calling /\ s \in ToSet(serverList)
      /\ timers' = T
      /\ walk' = [walk EXCEPT !.calling = FALSE, !.server = Successor(serverList, s)]
      /\ state' = state /\ currentTime' = currentTime /\ timeout' = timeout
      /\ serverList' = serverList /\ status' = status /\ lifetime' = lifetime
  BY <1>1, <1>2 DEF ServerEventReturns
<1>4. /\ walk \in [pc : {"select", "servers", "timers"}, calling : BOOLEAN, ok : BOOLEAN,
                   server : Server \cup {NULL}, timer : Timer \cup {NULL},
                   parent : Timer \cup {NULL}, next : Timer \cup {NULL}]
      /\ status \in [Server -> Status] /\ serverList \in Seq(Server) /\ Distinct(serverList)
      /\ currentTime \in Nat
  BY BoundsAssumption DEF TimerInv, TypeOK, ServersInv
<1>5. PICK k \in Nat : ServersWalk(k)
  BY <1>3 DEF TimerInv, WalkInv
<1>6. /\ k < Len(serverList) /\ Len(serverList) \in Nat /\ s = After(serverList, k)
      /\ walk.ok
  BY <1>1, <1>3, <1>4, <1>5, LenProperties DEF ServersWalk
<1>7. /\ k + 1 \in 1..Len(serverList) /\ s = serverList[k + 1]
      /\ Successor(serverList, s) = After(serverList, k + 1)
      /\ After(serverList, k + 1) \in Server \cup {NULL} /\ s \in Server
  <2>1. k + 1 \in 1..Len(serverList) /\ s = serverList[k + 1] /\ s \in Server
    BY <1>4, <1>6, ElementOfSeq DEF After
  <2> QED
    BY <1>4, <2>1, ListWalk, TimerIs
<1>8. /\ walk'.pc = "servers" /\ ~walk'.calling /\ walk'.ok
      /\ walk'.server = After(serverList, k + 1)
      /\ walk' \in [pc : {"select", "servers", "timers"}, calling : BOOLEAN, ok : BOOLEAN,
                    server : Server \cup {NULL}, timer : Timer \cup {NULL},
                    parent : Timer \cup {NULL}, next : Timer \cup {NULL}]
  BY <1>3, <1>4, <1>6, <1>7
<1>9. /\ Sound(timers, {}) /\ Timely(timers) /\ timers.armed \subseteq Timer
      /\ Owns(timers.armed, s, x, TRUE)
  <2>1. Running = {} /\ Closing(s) = TRUE
    BY <1>1, <1>3 DEF Running, Closing
  <2> QED
    BY <1>1, <1>7, <2>1 DEF TimerInv, TimersInv, TypeOK
<1>10. /\ Sound(T, {}) /\ Timely(T) /\ Others(T.armed, s) = Others(timers.armed, s)
       /\ Owns(T.armed, s, x, FALSE)
  <2>1. CASE x = "disabled"
    <3>1. /\ Sound(T, {}) /\ Timely(T)
          /\ T.armed = (timers.armed \ {<<s, "exchange">>, <<s, "update">>})
                         \cup {<<s, "lifetime">>}
      BY <1>2, <1>4, <1>7, <1>9, <2>1, DisabledTimers
    <3>2. Others(T.armed, s) = Others(timers.armed, s)
      BY <1>7, <3>1, TimerIs DEF Others
    <3>3. Owns(T.armed, s, x, FALSE)
      BY <2>1, <3>1 DEF Owns
    <3> QED
      BY <3>1, <3>2, <3>3
  <2>2. CASE x # "disabled"
    BY <1>2, <1>9, <2>2 DEF Owns
  <2> QED
    BY <2>1, <2>2
<1>11. TypeOK'
  <2>1. T \in [list : Seq(Timer), time : [Timer -> Nat], armed : SUBSET Timer]
    BY <1>10 DEF Sound, TimerData
  <2> QED
    BY <1>3, <1>8, <2>1 DEF TimerInv, TypeOK
<1>12. TimersInv'
  <2>1. Running' = {} /\ Closing(s)' = FALSE
    BY <1>8 DEF Running, Closing
  <2>2. \A v \in Server \ {s} : Closing(v) = FALSE /\ Closing(v)' = FALSE
    BY <1>1, <1>8 DEF Closing
  <2>3. status' = [status EXCEPT ![s] = x]
    BY <1>1, <1>3, <1>4
  <2>4. \A v \in Server : Owns(timers.armed, v, status[v], Closing(v))'
    <3>1. TypeOK /\ TimersInv /\ TypeOK' /\ timers' = T
      BY <1>3, <1>11 DEF TimerInv
    <3>2. Owns(T.armed, s, x, Closing(s)') /\ Others(T.armed, s) = Others(timers.armed, s)
      BY <1>10, <2>1
    <3>3. s \in Server /\ \A v \in Server \ {s} : Closing(v)' = Closing(v)
      BY <1>7, <2>2
    <3> QED
      BY <2>3, <3>1, <3>2, <3>3, AllOwn
  <2> QED
    BY <1>3, <1>10, <2>1, <2>4 DEF TimersInv, Sound, Timely
<1>13. ServersInv'
  BY <1>3 DEF TimerInv, ServersInv
<1>14. WalkInv'
  <2>1. ServersWalk(k + 1)'
    BY <1>3, <1>6, <1>7, <1>8 DEF ServersWalk
  <2> QED
    BY <1>8, <2>1 DEF WalkInv
<1> QED
  BY <1>11, <1>12, <1>13, <1>14 DEF TimerInv

\* When the loop ends on an error, each server it visited was a failed one and
\* has no timer: none is lost when the servers are reset.
LEMMA ServersVisitedKeeps == TimerInv /\ ServersVisited => TimerInv'
<1> SUFFICES ASSUME TimerInv, ServersVisited PROVE TimerInv'
  OBVIOUS
<1>1. /\ walk.pc = "servers" /\ walk.server = NULL
      /\ currentTime' = currentTime /\ timers' = timers /\ serverList' = serverList
      /\ lifetime' = lifetime
  BY DEF ServersVisited
<1>2. /\ status \in [Server -> Status] /\ serverList \in Seq(Server)
      /\ timers.list \in Seq(Timer)
  BY DEF TimerInv, TypeOK
<1>3. PICK k \in Nat : ServersWalk(k)
  BY <1>1 DEF TimerInv, WalkInv
<1>4. /\ k \in 0..Len(serverList) /\ After(serverList, k) = NULL
      /\ walk.calling => k < Len(serverList)
      /\ ~walk.ok => \A i \in 1..k : status[serverList[i]] = "FAILED"
  BY <1>1, <1>3 DEF ServersWalk
<1>5. k = Len(serverList)
  BY <1>2, <1>4, ListWalk, TimerIs
<1>6. ~walk.calling
  BY <1>3, <1>4, <1>5
<1>7. \A s \in Server : Closing(s) = FALSE
  BY <1>6 DEF Closing
<1>8. Running = {}
  BY <1>6 DEF Running
<1>9. CASE walk.ok
  <2>1. /\ walk' = [Idle EXCEPT !.pc = "timers", !.timer = First(timers.list)]
        /\ state' = state /\ timeout' = timeout /\ status' = status
    BY <1>9 DEF ServersVisited
  <2>2. /\ First(timers.list) = After(timers.list, 0)
        /\ First(timers.list) \in Timer \cup {NULL} /\ 0 \in 0..Len(timers.list)
    BY <1>2, ListWalk, TimerIs, LenProperties
  <2>3. /\ walk'.pc = "timers" /\ walk'.timer = After(timers'.list, 0) /\ ~walk'.calling
        /\ walk'.parent = NULL /\ walk'.next = NULL
    BY <1>1, <2>1, <2>2 DEF Idle
  <2>4. TypeOK'
    BY <1>1, <2>1, <2>2 DEF Idle, TimerInv, TypeOK
  <2>5. \A s \in Server : Closing(s)' = FALSE
    BY <2>3 DEF Closing
  <2>6. Running' = {}
    BY <2>3 DEF Running
  <2>7. TimersInv' /\ ServersInv'
    BY <1>1, <1>7, <1>8, <2>1, <2>5, <2>6
    DEF TimerInv, TimersInv, ServersInv, Sound, Timely, Owns
  <2>8. TimersWalk(0)'
    BY <1>1, <2>2, <2>3 DEF TimersWalk
  <2>9. WalkInv'
    BY <2>3, <2>8 DEF WalkInv
  <2> QED
    BY <2>4, <2>7, <2>9 DEF TimerInv
<1>10. CASE ~walk.ok
  <2>1. /\ state' = "INITIAL" /\ timeout' = 0 /\ walk' = Idle
        /\ status' = [s \in Server |-> IF s \in ToSet(serverList) THEN "DISCONNECTED"
                                       ELSE status[s]]
    BY <1>10 DEF ServersVisited
  <2>2. \A s \in ToSet(serverList) : status[s] = "FAILED"
    BY <1>2, <1>4, <1>5, <1>10, LenProperties DEF ToSet
  <2>3. TypeOK'
    BY <1>1, <1>2, <2>1 DEF Idle, TimerInv, TypeOK, Status
  <2>4. \A s \in Server : Closing(s)' = FALSE
    BY <2>1 DEF Closing, Idle
  <2>5. Running' = {}
    BY <2>1 DEF Running, Idle
  <2>6. ASSUME NEW s \in Server
        PROVE  Owns(timers'.armed, s, status'[s], Closing(s)')
    <3>1. Owns(timers.armed, s, status[s], FALSE)
      BY <1>7 DEF TimerInv, TimersInv
    <3>2. CASE s \in ToSet(serverList)
      BY <1>1, <2>1, <2>2, <2>4, <3>1, <3>2 DEF Owns
    <3>3. CASE s \notin ToSet(serverList)
      BY <1>1, <2>1, <2>4, <3>1, <3>3
    <3> QED
      BY <3>2, <3>3
  <2>7. TimersInv'
    BY <1>1, <1>8, <2>5, <2>6 DEF TimerInv, TimersInv, Sound, Timely, Owns
  <2>8. ServersInv'
    BY <1>1, <1>2, <2>1 DEF TimerInv, ServersInv
  <2>9. WalkInv'
    BY <2>1 DEF WalkInv, Idle
  <2> QED
    BY <2>3, <2>7, <2>8, <2>9 DEF TimerInv
<1> QED
  BY <1>9, <1>10

-----------------------------------------------------------------------------
(* coreTimerStep                                                           *)

\* The timer the loop is at, after k others, and whether its callback runs.
AtTimerAfter(k, t) ==
  /\ TimersWalk(k)
  /\ k < Len(timers.list) /\ k + 1 \in 1..Len(timers.list)
  /\ t = walk.timer /\ t = timers.list[k + 1] /\ t \in Timer /\ t \in ToSet(timers.list)
  /\ Successor(timers.list, t) = After(timers.list, k + 1)
  /\ After(timers.list, k + 1) \in Timer \cup {NULL}
  /\ walk.parent = IF k = 0 THEN NULL ELSE timers.list[k]

LEMMA VisitedTimer ==
  ASSUME TimerInv, walk.pc = "timers", walk.timer # NULL
  PROVE  \E k \in Nat, t \in Timer : AtTimerAfter(k, t)
<1>1. PICK k \in Nat : TimersWalk(k)
  BY DEF TimerInv, WalkInv
<1>2. timers.list \in Seq(Timer) /\ Distinct(timers.list) /\ NULL \notin Timer
  BY TimerIs DEF TimerInv, TypeOK, TimersInv, Sound
<1>3. /\ k \in 0..Len(timers.list) /\ walk.timer = After(timers.list, k)
      /\ walk.parent = IF k = 0 THEN NULL ELSE timers.list[k]
  BY <1>1 DEF TimersWalk
<1>4. Len(timers.list) \in Nat /\ k <= Len(timers.list) /\ k # Len(timers.list)
  BY <1>2, <1>3, ListWalk, LenProperties
<1>5. /\ k < Len(timers.list) /\ k + 1 \in 1..Len(timers.list) /\ k + 1 \in 0..Len(timers.list)
  BY <1>1, <1>4
<1>6. /\ walk.timer = timers.list[k + 1] /\ walk.timer \in Timer
      /\ walk.timer \in ToSet(timers.list)
  BY <1>2, <1>3, <1>5, ListWalk, ElementOfSeq
<1>7. /\ Successor(timers.list, walk.timer) = After(timers.list, k + 1)
      /\ After(timers.list, k + 1) \in Timer \cup {NULL}
  BY <1>2, <1>5, <1>6, ListWalk
<1> QED
  BY <1>1, <1>3, <1>5, <1>6, <1>7 DEF AtTimerAfter

LEMMA SkipTimerKeeps == TimerInv /\ SkipTimer => TimerInv'
<1> SUFFICES ASSUME TimerInv, SkipTimer PROVE TimerInv'
  OBVIOUS
<1>1. walk.pc = "timers" /\ walk.timer # NULL /\ ~walk.calling
  BY DEF SkipTimer, AtTimer
<1>2. PICK k \in Nat, t \in Timer : AtTimerAfter(k, t)
  BY <1>1, VisitedTimer
<1>3. /\ timeout \in Nat /\ currentTime \in Nat /\ timers.time[t] \in Nat
      /\ currentTime < timers.time[t]
      /\ timeout' = IF timers.time[t] - currentTime < timeout
                    THEN timers.time[t] - currentTime ELSE timeout
      /\ walk' = [walk EXCEPT !.parent = t, !.timer = After(timers.list, k + 1)]
      /\ state' = state /\ currentTime' = currentTime /\ timers' = timers
      /\ serverList' = serverList /\ status' = status /\ lifetime' = lifetime
  BY <1>1, <1>2, BoundsAssumption DEF SkipTimer, AtTimerAfter, Due, TimerInv, TypeOK
<1>4. /\ timeout' \in Nat /\ timeout' <= timeout
      /\ timeout' <= timers.time[t] - currentTime
  BY <1>3
<1>5. /\ walk \in [pc : {"select", "servers", "timers"}, calling : BOOLEAN, ok : BOOLEAN,
                   server : Server \cup {NULL}, timer : Timer \cup {NULL},
                   parent : Timer \cup {NULL}, next : Timer \cup {NULL}]
      /\ timers.time \in [Timer -> Nat] /\ timers.list \in Seq(Timer)
  BY DEF TimerInv, TypeOK
<1>6. /\ walk'.pc = "timers" /\ ~walk'.calling /\ walk'.parent = t
      /\ walk'.timer = After(timers.list, k + 1) /\ walk'.next = walk.next
      /\ walk' \in [pc : {"select", "servers", "timers"}, calling : BOOLEAN, ok : BOOLEAN,
                    server : Server \cup {NULL}, timer : Timer \cup {NULL},
                    parent : Timer \cup {NULL}, next : Timer \cup {NULL}]
  BY <1>1, <1>2, <1>3, <1>5 DEF AtTimerAfter
<1>7. TypeOK'
  BY <1>3, <1>4, <1>6 DEF TimerInv, TypeOK
<1>8. TimersInv' /\ ServersInv'
  <2>1. Running = {} /\ Running' = {}
    BY <1>1, <1>6 DEF Running
  <2>2. \A s \in Server : Closing(s) = FALSE /\ Closing(s)' = FALSE
    BY <1>1, <1>6 DEF Closing
  <2> QED
    BY <1>3, <2>1, <2>2 DEF TimerInv, TimersInv, ServersInv, Sound, Timely, Owns
<1>9. TimersWalk(k + 1)'
  <2>1. /\ \A i \in 1..k : /\ timers.time[timers.list[i]] > currentTime
                           /\ timeout <= timers.time[timers.list[i]] - currentTime
        /\ walk.next = NULL
    BY <1>1, <1>2 DEF AtTimerAfter, TimersWalk
  <2>2. \A i \in 1..k : timers.list[i] \in Timer
    BY <1>2, <1>5, LenProperties, ElementOfSeq DEF AtTimerAfter
  <2>3. ASSUME NEW i \in 1..k + 1
        PROVE  /\ timers.time[timers.list[i]] > currentTime
               /\ timeout' <= timers.time[timers.list[i]] - currentTime
    <3>1. CASE i = k + 1
      BY <1>2, <1>3, <1>4, <3>1 DEF AtTimerAfter
    <3>2. CASE i # k + 1
      <4>1. i \in 1..k
        BY <3>2
      <4>2. timers.time[timers.list[i]] \in Nat
        BY <1>5, <2>2, <4>1
      <4> QED
        BY <1>3, <1>4, <2>1, <4>1, <4>2
    <3> QED
      BY <3>1, <3>2
  <2>4. k + 1 \in 0..Len(timers.list) /\ k + 1 # 0 /\ t = timers.list[k + 1]
    BY <1>2 DEF AtTimerAfter
  <2> QED
    BY <1>3, <1>6, <2>1, <2>3, <2>4 DEF TimersWalk
<1>10. WalkInv'
  BY <1>6, <1>9 DEF WalkInv
<1> QED
  BY <1>7, <1>8, <1>10 DEF TimerInv

\* While the callback of a timer runs, no server points to it, and it is listed.
LEMMA FiredTimer ==
  ASSUME TimerInv, AtTimer, NEW t \in Timer, t = walk.timer, t \in ToSet(timers.list)
  PROVE  /\ t \in timers.armed
         /\ Sound(Fired, {t}) /\ Timely(Fired)
         /\ Fired.list = timers.list /\ Fired.armed = timers.armed \ {t}
         /\ \A u \in Timer \ {t} : Fired.time[u] = timers.time[u]
<1>1. Running = {}
  BY DEF AtTimer, Running
<1>2. /\ timers \in TimerData /\ Distinct(timers.list) /\ Ordered(timers.list)
      /\ ToSet(timers.list) = timers.armed /\ timers.armed \subseteq Timer
      /\ Timely(timers) /\ timers.time \in [Timer -> Nat] /\ timers.list \in Seq(Timer)
  BY <1>1 DEF TimerInv, TimersInv, Sound, TimerData
<1> DEFINE armed == timers.armed \ {t}
           time == [timers.time EXCEPT ![t] = 0]
<1>3. Fired = [timers EXCEPT !.armed = armed, !.time = time]
  BY <1>2 DEF Fired, TimerData
<1>4. /\ time \in [Timer -> Nat] /\ armed \subseteq Timer
      /\ \A u \in Timer \ {t} : time[u] = timers.time[u]
  BY <1>2
<1> HIDE DEF time
<1>5. Fired \in TimerData /\ Fired.list = timers.list /\ Fired.armed = armed /\ Fired.time = time
  BY <1>2, <1>3, <1>4 DEF TimerData
<1>6. Sound(Fired, {t})
  BY <1>2, <1>5 DEF Sound
<1>7. Timely(Fired)
  BY <1>2, <1>4, <1>5, StaysTimely
<1> QED
  BY <1>2, <1>4, <1>5, <1>6, <1>7

\* The callback of a timer that is due calls the application, and leaves the
\* other timers.
LEMMA CallsBackKeeps ==
  ASSUME TimerInv, AtTimer, Due, NEW t \in Timer, NEW s \in Server, NEW k \in Nat,
         AtTimerAfter(k, t), s = Owner(t), NEW x \in Status \ {"absent"},
         status[s] # "absent", CallsBack(x, Fired), timeout' \in {timeout, 0},
         Owns(timers.armed \ {t}, s, x, FALSE)
  PROVE  TimerInv'
<1>1. /\ walk.pc = "timers" /\ ~walk.calling
      /\ status' = [status EXCEPT ![s] = x] /\ timers' = Fired
      /\ walk' = [walk EXCEPT !.calling = TRUE, !.next = After(timers.list, k + 1)]
      /\ state' = state /\ currentTime' = currentTime /\ serverList' = serverList
      /\ lifetime' = lifetime
  BY DEF AtTimer, CallsBack, AtTimerAfter
<1>2. /\ t \in timers.armed /\ Sound(Fired, {t}) /\ Timely(Fired)
      /\ Fired.list = timers.list /\ Fired.armed = timers.armed \ {t}
      /\ \A u \in Timer \ {t} : Fired.time[u] = timers.time[u]
  BY FiredTimer DEF AtTimerAfter
<1>3. /\ walk \in [pc : {"select", "servers", "timers"}, calling : BOOLEAN, ok : BOOLEAN,
                   server : Server \cup {NULL}, timer : Timer \cup {NULL},
                   parent : Timer \cup {NULL}, next : Timer \cup {NULL}]
      /\ timeout \in Nat /\ status \in [Server -> Status] /\ timers.list \in Seq(Timer)
  BY DEF TimerInv, TypeOK
<1>4. /\ walk'.pc = "timers" /\ walk'.calling /\ walk'.parent = walk.parent
      /\ walk'.timer = t /\ walk'.next = After(timers.list, k + 1)
      /\ walk' \in [pc : {"select", "servers", "timers"}, calling : BOOLEAN, ok : BOOLEAN,
                    server : Server \cup {NULL}, timer : Timer \cup {NULL},
                    parent : Timer \cup {NULL}, next : Timer \cup {NULL}]
  BY <1>1, <1>3 DEF AtTimerAfter
<1>5. TypeOK'
  <2>1. Fired \in [list : Seq(Timer), time : [Timer -> Nat], armed : SUBSET Timer]
    BY <1>2 DEF Sound, TimerData
  <2>2. status' \in [Server -> Status] /\ timeout' \in Nat
    BY <1>1, <1>3
  <2> QED
    BY <1>1, <1>4, <2>1, <2>2 DEF TimerInv, TypeOK
<1>6. TimersInv'
  <2>1. Running' = {t}
    BY <1>4 DEF Running
  <2>2. \A v \in Server : Closing(v) = FALSE /\ Closing(v)' = FALSE
    BY <1>1, <1>4 DEF Closing
  <2>3. Others(Fired.armed, s) = Others(timers.armed, s)
    BY <1>2 DEF Others
  <2>4. \A v \in Server : Owns(timers.armed, v, status[v], Closing(v))'
    <3>1. PICK T : T = Fired
      OBVIOUS
    <3>2. /\ TypeOK /\ TimersInv /\ TypeOK' /\ timers' = T
          /\ status' = [status EXCEPT ![s] = x]
      BY <1>1, <1>5, <3>1 DEF TimerInv
    <3>3. Owns(T.armed, s, x, Closing(s)') /\ Others(T.armed, s) = Others(timers.armed, s)
      BY <1>2, <2>2, <2>3, <3>1
    <3> QED
      BY <2>2, <3>2, <3>3, AllOwn
  <2> QED
    BY <1>1, <1>2, <2>1, <2>4 DEF TimersInv, Sound, Timely
<1>7. ServersInv'
  BY <1>1, <1>3 DEF TimerInv, ServersInv
<1>8. TimersWalk(k)'
  <2>1. /\ k \in 0..Len(timers.list) /\ k < Len(timers.list) /\ k + 1 \in 1..Len(timers.list)
        /\ t = After(timers.list, k) /\ t = timers.list[k + 1]
        /\ walk.parent = IF k = 0 THEN NULL ELSE timers.list[k]
        /\ \A i \in 1..k : /\ timers.time[timers.list[i]] > currentTime
                           /\ timeout <= timers.time[timers.list[i]] - currentTime
    BY DEF AtTimerAfter, TimersWalk
  <2>2. ASSUME NEW i \in 1..k
        PROVE  /\ Fired.time[timers.list[i]] > currentTime
               /\ timeout' <= Fired.time[timers.list[i]] - currentTime
    <3>1. i \in 1..Len(timers.list) /\ i # k + 1
      BY <1>3, <2>1, LenProperties
    <3>2. timers.list[i] \in Timer \ {t}
      <4>1. timers.list[i] \in Timer
        BY <1>3, <3>1, ElementOfSeq
      <4>2. Distinct(timers.list)
        BY DEF TimerInv, TimersInv, Sound
      <4> QED
        BY <1>3, <2>1, <3>1, <4>1, <4>2, LenProperties DEF Distinct
    <3>3. /\ Fired.time[timers.list[i]] = timers.time[timers.list[i]]
          /\ timers.time[timers.list[i]] \in Nat /\ currentTime \in Nat
      BY <1>2, <3>2, BoundsAssumption DEF TimerInv, TypeOK
    <3> QED
      BY <1>3, <2>1, <3>3
  <2> QED
    BY <1>1, <1>2, <1>4, <2>1, <2>2 DEF TimersWalk
<1>9. WalkInv'
  BY <1>4, <1>8 DEF WalkInv
<1> QED
  BY <1>5, <1>6, <1>7, <1>9 DEF TimerInv

\* The timer the loop is at, its server and what the latter owns.
LEMMA RunTimer ==
  ASSUME TimerInv, AtTimer
  PROVE  \E k \in Nat, t \in Timer :
           /\ AtTimerAfter(k, t) /\ t \in timers.armed /\ Owner(t) \in Server
           /\ t = <<Owner(t), Kind(t)>>
           /\ Sound(timers, {}) /\ Timely(timers)
           /\ Owns(timers.armed, Owner(t), status[Owner(t)], FALSE)
<1>1. PICK k \in Nat, t \in Timer : AtTimerAfter(k, t)
  BY VisitedTimer DEF AtTimer
<1>2. Owner(t) \in Server /\ t = <<Owner(t), Kind(t)>>
  BY TimerIs
<1>3. t \in timers.armed
  BY <1>1, FiredTimer DEF AtTimerAfter
<1>4. /\ Sound(timers, {}) /\ Timely(timers)
      /\ Owns(timers.armed, Owner(t), status[Owner(t)], FALSE)
  BY <1>2, OwnedTimers DEF AtTimer
<1> QED
  BY <1>1, <1>2, <1>3, <1>4

\* Closing a server whose only timer is the one that runs.
LEMMA NothingToClose ==
  ASSUME NEW T, NEW s \in Server, <<s, "exchange">> \notin T.armed,
         <<s, "update">> \notin T.armed, <<s, "lifetime">> \notin T.armed
  PROVE  CloseTimers(T, s) = T
BY DEF CloseTimers, coreTimerDelete

LEMMA ExchangeTimerKeeps == TimerInv /\ ExchangeTimer => TimerInv'
<1> SUFFICES ASSUME TimerInv, ExchangeTimer PROVE TimerInv'
  OBVIOUS
<1>1. AtTimer /\ Due /\ timeout' = 0
  BY DEF ExchangeTimer, CallsBack
<1>2. PICK k \in Nat, t \in Timer :
        /\ AtTimerAfter(k, t) /\ t \in timers.armed /\ Owner(t) \in Server
        /\ t = <<Owner(t), Kind(t)>>
        /\ Owns(timers.armed, Owner(t), status[Owner(t)], FALSE)
  BY <1>1, RunTimer
<1>3. PICK s \in Server : s = Owner(t)
  BY <1>2
<1>4. t = <<s, "exchange">> /\ status[s] = "REGISTERING"
  BY <1>2, <1>3 DEF ExchangeTimer, AtTimerAfter, Owns
<1>5. Owns(timers.armed \ {t}, s, "FAILED", FALSE)
  BY <1>2, <1>3, <1>4 DEF Owns
<1>6. Fired.armed = timers.armed \ {t}
  BY <1>1, <1>2, FiredTimer DEF AtTimerAfter
<1>7. CloseTimers(Fired, s) = Fired
  BY <1>5, <1>6, NothingToClose DEF Owns
<1>8. CallsBack("FAILED", Fired)
  BY <1>2, <1>3, <1>7 DEF ExchangeTimer, AtTimerAfter
<1> QED
  BY <1>1, <1>2, <1>3, <1>4, <1>5, <1>8, CallsBackKeeps DEF Status

LEMMA UpdateTimerKeeps == TimerInv /\ UpdateTimer => TimerInv'
<1> SUFFICES ASSUME TimerInv, UpdateTimer PROVE TimerInv'
  OBVIOUS
<1>1. PICK x \in {"UPDATE_PENDING", "REGISTERED"} : CallsBack(x, Fired)
  BY DEF UpdateTimer
<1>2. AtTimer /\ Due /\ timeout' = timeout
  BY <1>1 DEF UpdateTimer, CallsBack
<1>3. PICK k \in Nat, t \in Timer :
        /\ AtTimerAfter(k, t) /\ t \in timers.armed /\ Owner(t) \in Server
        /\ t = <<Owner(t), Kind(t)>>
        /\ Owns(timers.armed, Owner(t), status[Owner(t)], FALSE)
  BY <1>2, RunTimer
<1>4. PICK s \in Server : s = Owner(t)
  BY <1>3
<1>5. t = <<s, "update">> /\ status[s] = "REGISTERED"
  BY <1>3, <1>4 DEF UpdateTimer, AtTimerAfter
<1>6. Owns(timers.armed \ {t}, s, x, FALSE)
  BY <1>3, <1>4, <1>5 DEF Owns
<1> QED
  BY <1>1, <1>2, <1>3, <1>4, <1>5, <1>6, CallsBackKeeps DEF Status

\* The lifetime of a registration ends after its update timer ran: that one was
\* due too and is before it in the list.
LEMMA LifetimeTimerKeeps == TimerInv /\ LifetimeTimer => TimerInv'
<1> SUFFICES ASSUME TimerInv, LifetimeTimer PROVE TimerInv'
  OBVIOUS
<1>1. AtTimer /\ Due /\ timeout' = 0
  BY DEF LifetimeTimer, CallsBack
<1>2. PICK k \in Nat, t \in Timer :
        /\ AtTimerAfter(k, t) /\ t \in timers.armed /\ Owner(t) \in Server
        /\ t = <<Owner(t), Kind(t)>>
        /\ Sound(timers, {}) /\ Timely(timers)
        /\ Owns(timers.armed, Owner(t), status[Owner(t)], FALSE)
  BY <1>1, RunTimer
<1>3. PICK s \in Server : s = Owner(t)
  BY <1>2
<1>4. t = <<s, "lifetime">> /\ status[s] \in {"REGISTERED", "UPDATE_PENDING"}
  BY <1>2, <1>3 DEF LifetimeTimer, AtTimerAfter, Owns
<1>5. <<s, "update">> \notin timers.armed
  <2>1. SUFFICES ASSUME <<s, "update">> \in timers.armed PROVE FALSE
    OBVIOUS
  <2>2. timers.time[<<s, "update">>] <= timers.time[t]
    BY <1>2, <1>4, <2>1 DEF Timely
  <2>3. timers.time[t] <= currentTime
    BY <1>1, <1>2 DEF Due, AtTimerAfter
  <2>4. PICK p \in DOMAIN timers.list : timers.list[p] = <<s, "update">>
    BY <1>2, <2>1 DEF Sound, ToSet
  <2>5. timers.list \in Seq(Timer) /\ timers.time \in [Timer -> Nat] /\ currentTime \in Nat
    BY BoundsAssumption DEF TimerInv, TypeOK
  <2>6. k + 1 \in DOMAIN timers.list /\ timers.list[k + 1] = <<s, "lifetime">>
    BY <1>2, <1>4, <2>5, LenProperties DEF AtTimerAfter
  <2>7. p < k + 1
    BY <1>2, <2>4, <2>6 DEF Sound, Ordered
  <2>8. p \in 1..k
    BY <2>4, <2>5, <2>7, LenProperties
  <2>9. timers.time[<<s, "update">>] > currentTime
    BY <1>2, <2>4, <2>8 DEF AtTimerAfter, TimersWalk
  <2>10. timers.time[<<s, "update">>] \in Nat /\ timers.time[t] \in Nat
    BY <1>2, <2>5, TimerIs
  <2> QED
    BY <2>2, <2>3, <2>5, <2>9, <2>10
<1>6. Owns(timers.armed \ {t}, s, "FAILED", FALSE)
  BY <1>2, <1>3, <1>4, <1>5 DEF Owns
<1>7. Fired.armed = timers.armed \ {t}
  BY <1>1, <1>2, FiredTimer DEF AtTimerAfter
<1>8. CloseTimers(Fired, s) = Fired
  BY <1>5, <1>6, <1>7, NothingToClose DEF Owns
<1>9. CallsBack("FAILED", Fired)
  BY <1>2, <1>3, <1>8 DEF LifetimeTimer, AtTimerAfter
<1> QED
  BY <1>1, <1>2, <1>3, <1>4, <1>6, <1>9, CallsBackKeeps DEF Status

\* The end of a disable, or an update timer that has nothing to do: the timer is
\* unlinked at once.
LEMMA SilentTimerKeeps == TimerInv /\ SilentTimer => TimerInv'
<1> SUFFICES ASSUME TimerInv, SilentTimer PROVE TimerInv'
  OBVIOUS
<1>1. AtTimer /\ walk.pc = "timers" /\ ~walk.calling
  BY DEF SilentTimer, AtTimer
<1>2. PICK k \in Nat, t \in Timer :
        /\ AtTimerAfter(k, t) /\ t \in timers.armed /\ Owner(t) \in Server
        /\ t = <<Owner(t), Kind(t)>>
        /\ Owns(timers.armed, Owner(t), status[Owner(t)], FALSE)
  BY <1>1, RunTimer
<1>3. PICK s \in Server : s = Owner(t)
  BY <1>2
<1>4. PICK x : x = IF Kind(t) = "lifetime" THEN "DISCONNECTED" ELSE status[s]
  OBVIOUS
<1>5. PICK list : list = IOWA_UTILS_LIST_REMOVE(timers.list, t)
  OBVIOUS
<1>6. /\ timeout \in Nat /\ status \in [Server -> Status] /\ timers.list \in Seq(Timer)
      /\ timers.time \in [Timer -> Nat] /\ Distinct(timers.list)
      /\ walk \in [pc : {"select", "servers", "timers"}, calling : BOOLEAN, ok : BOOLEAN,
                   server : Server \cup {NULL}, timer : Timer \cup {NULL},
                   parent : Timer \cup {NULL}, next : Timer \cup {NULL}]
  BY DEF TimerInv, TypeOK, TimersInv, Sound
<1>7. /\ k < Len(timers.list) /\ k + 1 \in 1..Len(timers.list) /\ t = timers.list[k + 1]
      /\ walk.parent = IF k = 0 THEN NULL ELSE timers.list[k]
      /\ t = walk.timer /\ walk.next = NULL
      /\ \A i \in 1..k : /\ timers.time[timers.list[i]] > currentTime
                         /\ timeout <= timers.time[timers.list[i]] - currentTime
  BY <1>1, <1>2 DEF AtTimerAfter, TimersWalk
<1>8. Unlink(timers.list, walk.parent, t) = list
  <2>1. /\ timers.list \in Seq(Timer) /\ Distinct(timers.list) /\ k < Len(timers.list)
        /\ walk.parent = IF k = 0 THEN NULL ELSE timers.list[k]
    BY <1>6, <1>7
  <2>2. Unlink(timers.list, walk.parent, timers.list[k + 1])
          = IOWA_UTILS_LIST_REMOVE(timers.list, timers.list[k + 1])
    BY <2>1, Unlinked
  <2> QED
    BY <1>5, <1>7, <2>2
<1>9. /\ t \in timers.armed /\ Sound(Fired, {t}) /\ Timely(Fired)
      /\ Fired.list = timers.list /\ Fired.armed = timers.armed \ {t}
      /\ \A u \in Timer \ {t} : Fired.time[u] = timers.time[u]
  BY <1>1, <1>2, FiredTimer DEF AtTimerAfter
<1>10. PICK T : T = [Fired EXCEPT !.list = list]
  OBVIOUS
<1>11. /\ timers' = T /\ walk' = [walk EXCEPT !.timer = After(timers.list, k + 1)]
       /\ timeout' \in {timeout, 0} /\ status' = [status EXCEPT ![s] = x]
       /\ state' = state /\ currentTime' = currentTime /\ serverList' = serverList
       /\ lifetime' = lifetime
  <2>1. timers' = T
    BY <1>7, <1>8, <1>9, <1>10 DEF SilentTimer
  <2>2. walk' = [walk EXCEPT !.timer = After(timers.list, k + 1)]
    BY <1>2, <1>7 DEF SilentTimer, AtTimerAfter
  <2>3. timeout' \in {timeout, 0} /\ status' = [status EXCEPT ![s] = x]
    BY <1>3, <1>4, <1>6, <1>7 DEF SilentTimer
  <2> QED
    BY <2>1, <2>2, <2>3 DEF SilentTimer
<1>12. /\ list \in Seq(Timer) /\ Distinct(list) /\ Ordered(list)
       /\ ToSet(list) = timers.armed \ {t} /\ Len(list) = Len(timers.list) - 1
       /\ \A j \in 1..k : list[j] = timers.list[j]
       /\ After(list, k) = After(timers.list, k + 1)
  <2>1. Ordered(timers.list) /\ ToSet(timers.list) = timers.armed
    BY <1>9 DEF Sound
  <2>2. /\ list \in Seq(Timer) /\ Distinct(list) /\ Ordered(list)
        /\ ToSet(list) = ToSet(timers.list) \ {t}
    BY <1>5, <1>6, <2>1, RemovedTimer
  <2>3. /\ Len(list) = Len(timers.list) - 1
        /\ \A j \in 1..k : list[j] = timers.list[j]
        /\ After(list, k) = After(timers.list, k + 1)
    <3>1. timers.list \in Seq(Timer) /\ Distinct(timers.list) /\ k < Len(timers.list)
      BY <1>6, <1>7
    <3>2. list = IOWA_UTILS_LIST_REMOVE(timers.list, timers.list[k + 1])
      BY <1>5, <1>7
    <3> QED
      BY <3>1, <3>2, WalkAfterUnlink
  <2> QED
    BY <2>1, <2>2, <2>3
<1>13. /\ Sound(T, {}) /\ Timely(T) /\ T.list = list /\ T.armed = timers.armed \ {t}
       /\ \A u \in Timer \ {t} : T.time[u] = timers.time[u]
  <2>1. /\ T \in TimerData /\ T.list = list /\ T.armed = Fired.armed /\ T.time = Fired.time
    BY <1>9, <1>10, <1>12 DEF Sound, TimerData
  <2>2. Sound(T, {})
    BY <1>9, <1>12, <2>1 DEF Sound
  <2>3. Timely(T)
    BY <1>9, <2>1, StaysTimely
  <2> QED
    BY <1>9, <2>1, <2>2, <2>3
<1>14. x \in Status \ {"absent"} /\ status[s] # "absent" /\ Owns(T.armed, s, x, FALSE)
  <2>1. CASE Kind(t) = "lifetime"
    BY <1>2, <1>3, <1>4, <1>7, <1>13, <2>1 DEF SilentTimer, Owns, Status
  <2>2. CASE Kind(t) # "lifetime"
    <3>1. t = <<s, "update">> /\ x = status[s] /\ status[s] \in {"REGISTERED", "UPDATE_PENDING"}
      BY <1>2, <1>3, <1>4, <1>7, <2>2 DEF SilentTimer, Owns
    <3> QED
      BY <1>2, <1>3, <1>13, <3>1 DEF Owns, Status
  <2> QED
    BY <2>1, <2>2
<1>15. /\ walk'.pc = "timers" /\ ~walk'.calling /\ walk'.parent = walk.parent
       /\ walk'.timer = After(timers.list, k + 1) /\ walk'.next = NULL
       /\ walk' \in [pc : {"select", "servers", "timers"}, calling : BOOLEAN, ok : BOOLEAN,
                     server : Server \cup {NULL}, timer : Timer \cup {NULL},
                     parent : Timer \cup {NULL}, next : Timer \cup {NULL}]
  BY <1>1, <1>2, <1>6, <1>7, <1>11 DEF AtTimerAfter
<1>16. TypeOK'
  <2>1. T \in [list : Seq(Timer), time : [Timer -> Nat], armed : SUBSET Timer]
    BY <1>13 DEF Sound, TimerData
  <2>2. status' \in [Server -> Status] /\ timeout' \in Nat
    BY <1>6, <1>11, <1>14
  <2> QED
    BY <1>11, <1>15, <2>1, <2>2 DEF TimerInv, TypeOK
<1>17. TimersInv'
  <2>1. Running' = {} /\ \A v \in Server : Closing(v) = FALSE /\ Closing(v)' = FALSE
    BY <1>1, <1>15 DEF Running, Closing
  <2>2. Others(T.armed, s) = Others(timers.armed, s)
    BY <1>3, <1>13 DEF Others
  <2>3. \A v \in Server : Owns(timers.armed, v, status[v], Closing(v))'
    <3>1. TypeOK /\ TimersInv
      BY DEF TimerInv
    <3>2. timers' = T /\ status' = [status EXCEPT ![s] = x]
      BY <1>11
    <3> QED
      BY <1>14, <1>16, <2>1, <2>2, <3>1, <3>2, AllOwn
  <2> QED
    BY <1>11, <1>13, <2>1, <2>3 DEF TimersInv, Sound, Timely
<1>18. ServersInv'
  BY <1>6, <1>11, <1>14 DEF TimerInv, ServersInv
<1>19. TimersWalk(k)'
  <2>1. ASSUME NEW i \in 1..k
        PROVE  /\ T.time[list[i]] > currentTime
               /\ timeout' <= T.time[list[i]] - currentTime
    <3>1. i \in 1..Len(timers.list) /\ i # k + 1
      BY <1>6, <1>7, LenProperties
    <3>2. timers.list[i] \in Timer \ {t}
      <4>1. timers.list[i] \in Timer
        BY <1>6, <3>1, ElementOfSeq
      <4>2. /\ timers.list \in Seq(Timer) /\ Distinct(timers.list)
            /\ k + 1 \in 1..Len(timers.list) /\ t = timers.list[k + 1]
        BY <1>6, <1>7
      <4> QED
        BY <4>2, <3>1, <4>1, LenProperties DEF Distinct
    <3>3. /\ T.time[list[i]] = timers.time[timers.list[i]]
          /\ timers.time[timers.list[i]] \in Nat /\ currentTime \in Nat
      BY <1>6, <1>12, <1>13, <3>2, BoundsAssumption DEF TimerInv, TypeOK
    <3>4. /\ timers.time[timers.list[i]] > currentTime
          /\ timeout <= timers.time[timers.list[i]] - currentTime
          /\ timeout \in Nat /\ timeout' \in {timeout, 0}
      BY <1>6, <1>7, <1>11
    <3> QED
      BY <3>3, <3>4
  <2>2. k \in 0..Len(list)
    BY <1>6, <1>7, <1>12, LenProperties
  <2>3. walk'.parent = IF k = 0 THEN NULL ELSE list[k]
    BY <1>7, <1>12, <1>15
  <2> QED
    BY <1>11, <1>12, <1>13, <1>15, <2>1, <2>2, <2>3 DEF TimersWalk
<1>20. WalkInv'
  BY <1>15, <1>19 DEF WalkInv
<1> QED
  BY <1>16, <1>17, <1>18, <1>20 DEF TimerInv

\* The callback returned: the timer that ran is unlinked, and the loop goes on
\* with the one it had read, which is still the next one.
LEMMA TimerEventKeeps == TimerInv /\ TimerEventReturns => TimerInv'
<1> SUFFICES ASSUME TimerInv, TimerEventReturns PROVE TimerInv'
  OBVIOUS
<1>1. walk.pc = "timers" /\ walk.calling
  BY DEF TimerEventReturns
<1>2. PICK k \in Nat : TimersWalk(k)
  BY <1>1 DEF TimerInv, WalkInv
<1>3. /\ timeout \in Nat /\ timers.list \in Seq(Timer) /\ timers \in TimerData
      /\ timers.time \in [Timer -> Nat]
      /\ walk \in [pc : {"select", "servers", "timers"}, calling : BOOLEAN, ok : BOOLEAN,
                   server : Server \cup {NULL}, timer : Timer \cup {NULL},
                   parent : Timer \cup {NULL}, next : Timer \cup {NULL}]
  BY DEF TimerInv, TypeOK, TimerData
<1>4. PICK t : t = walk.timer
  OBVIOUS
<1>5. Running = {t}
  BY <1>1, <1>4 DEF Running
<1>6. /\ Distinct(timers.list) /\ Ordered(timers.list) /\ Timely(timers)
      /\ ToSet(timers.list) = timers.armed \cup {t} /\ t \notin timers.armed
  BY <1>5 DEF TimerInv, TimersInv, Sound
<1>7. /\ k < Len(timers.list) /\ k \in 0..Len(timers.list) /\ t = After(timers.list, k)
      /\ walk.parent = IF k = 0 THEN NULL ELSE timers.list[k]
      /\ walk.next = After(timers.list, k + 1)
      /\ \A i \in 1..k : /\ timers.time[timers.list[i]] > currentTime
                         /\ timeout <= timers.time[timers.list[i]] - currentTime
  BY <1>1, <1>2, <1>4 DEF TimersWalk
<1>8. t = timers.list[k + 1] /\ t \in Timer
  <2>1. Len(timers.list) \in Nat /\ k + 1 \in 1..Len(timers.list) /\ k # Len(timers.list)
    BY <1>2, <1>3, <1>7, LenProperties
  <2> QED
    BY <1>3, <1>7, <2>1, ElementOfSeq DEF After
<1>9. PICK list : list = IOWA_UTILS_LIST_REMOVE(timers.list, t)
  OBVIOUS
<1>10. Unlink(timers.list, walk.parent, t) = list
  <2>1. /\ timers.list \in Seq(Timer) /\ Distinct(timers.list) /\ k < Len(timers.list)
        /\ walk.parent = IF k = 0 THEN NULL ELSE timers.list[k]
    BY <1>3, <1>6, <1>7
  <2>2. Unlink(timers.list, walk.parent, timers.list[k + 1])
          = IOWA_UTILS_LIST_REMOVE(timers.list, timers.list[k + 1])
    BY <2>1, Unlinked
  <2> QED
    BY <1>8, <1>9, <2>2
<1>11. /\ list \in Seq(Timer) /\ Distinct(list) /\ Ordered(list)
       /\ ToSet(list) = timers.armed /\ Len(list) = Len(timers.list) - 1
       /\ \A j \in 1..k : list[j] = timers.list[j]
       /\ After(list, k) = After(timers.list, k + 1)
  <2>1. /\ list \in Seq(Timer) /\ Distinct(list) /\ Ordered(list)
        /\ ToSet(list) = ToSet(timers.list) \ {t}
    BY <1>3, <1>6, <1>9, RemovedTimer
  <2>2. /\ Len(list) = Len(timers.list) - 1
        /\ \A j \in 1..k : list[j] = timers.list[j]
        /\ After(list, k) = After(timers.list, k + 1)
    <3>1. timers.list \in Seq(Timer) /\ Distinct(timers.list) /\ k < Len(timers.list)
      BY <1>3, <1>6, <1>7
    <3>2. list = IOWA_UTILS_LIST_REMOVE(timers.list, timers.list[k + 1])
      BY <1>8, <1>9
    <3> QED
      BY <3>1, <3>2, WalkAfterUnlink
  <2> QED
    BY <1>6, <2>1, <2>2
<1>12. /\ timers' = [timers EXCEPT !.list = list]
       /\ walk' = [walk EXCEPT !.calling = FALSE, !.timer = After(timers.list, k + 1),
                               !.next = NULL]
       /\ state' = state /\ currentTime' = currentTime /\ timeout' = timeout
       /\ serverList' = serverList /\ status' = status /\ lifetime' = lifetime
  BY <1>3, <1>4, <1>7, <1>10 DEF TimerEventReturns, TimerData
<1>13. /\ timers' \in TimerData /\ timers'.list = list /\ timers'.armed = timers.armed
       /\ timers'.time = timers.time
  BY <1>3, <1>11, <1>12 DEF TimerData
<1>14. /\ walk'.pc = "timers" /\ ~walk'.calling /\ walk'.parent = walk.parent
       /\ walk'.timer = After(timers.list, k + 1) /\ walk'.next = NULL
       /\ walk' \in [pc : {"select", "servers", "timers"}, calling : BOOLEAN, ok : BOOLEAN,
                     server : Server \cup {NULL}, timer : Timer \cup {NULL},
                     parent : Timer \cup {NULL}, next : Timer \cup {NULL}]
  BY <1>1, <1>3, <1>7, <1>12
<1>15. TypeOK'
  BY <1>12, <1>13, <1>14 DEF TimerInv, TypeOK, TimerData
<1>16. TimersInv'
  <2>1. Running' = {} /\ \A v \in Server : Closing(v) = FALSE /\ Closing(v)' = FALSE
    BY <1>1, <1>14 DEF Running, Closing
  <2>2. Sound(timers, Running)'
    BY <1>6, <1>11, <1>13, <2>1 DEF Sound, TimerData
  <2>3. Timely(timers)' /\ \A v \in Server : Owns(timers.armed, v, status[v], Closing(v))'
    BY <1>6, <1>12, <1>13, <2>1 DEF TimerInv, TimersInv, Timely, Owns
  <2> QED
    BY <2>2, <2>3 DEF TimersInv
<1>17. ServersInv'
  BY <1>12 DEF TimerInv, ServersInv
<1>18. TimersWalk(k)'
  <2>1. k \in 0..Len(list)
    BY <1>2, <1>3, <1>7, <1>11, LenProperties
  <2>2. walk'.parent = IF k = 0 THEN NULL ELSE list[k]
    BY <1>2, <1>7, <1>11, <1>14
  <2>3. \A i \in 1..k : /\ timers.time[list[i]] > currentTime
                        /\ timeout <= timers.time[list[i]] - currentTime
    BY <1>7, <1>11
  <2> QED
    BY <1>11, <1>12, <1>13, <1>14, <2>1, <2>2, <2>3 DEF TimersWalk
<1>19. WalkInv'
  BY <1>14, <1>18 DEF WalkInv
<1> QED
  BY <1>15, <1>16, <1>17, <1>19 DEF TimerInv

LEMMA TimersVisitedKeeps == TimerInv /\ TimersVisited => TimerInv'
<1> SUFFICES ASSUME TimerInv, TimersVisited PROVE TimerInv'
  OBVIOUS
<1>1. /\ walk.pc = "timers" /\ walk.timer = NULL /\ walk' = Idle
      /\ state' = state /\ currentTime' = currentTime /\ timeout' = timeout
      /\ timers' = timers /\ serverList' = serverList /\ status' = status
      /\ lifetime' = lifetime
  BY DEF TimersVisited
<1>2. PICK k \in Nat : TimersWalk(k)
  BY <1>1 DEF TimerInv, WalkInv
<1>3. ~walk.calling
  BY <1>1, <1>2, ListWalk, TimerIs DEF TimerInv, TypeOK, TimersWalk
<1>4. walk'.pc = "select" /\ ~walk'.calling
  BY <1>1 DEF Idle
<1>5. Running = {} /\ Running' = {}
  BY <1>3, <1>4 DEF Running
<1>6. \A s \in Server : Closing(s) = FALSE /\ Closing(s)' = FALSE
  BY <1>3, <1>4 DEF Closing
<1>7. TypeOK'
  BY <1>1 DEF Idle, TimerInv, TypeOK
<1>8. TimersInv' /\ ServersInv' /\ WalkInv'
  BY <1>1, <1>4, <1>5, <1>6 DEF TimerInv, TimersInv, ServersInv, WalkInv, Sound, Timely, Owns
<1> QED
  BY <1>7, <1>8 DEF TimerInv

-----------------------------------------------------------------------------
(* The theorems: the event callback removes no server                      *)

LEMMA NextTimers ==
  ASSUME ~Removes, TimerInv, [Next]_vars
  PROVE  TimerInv'
<1>1. CASE UNCHANGED vars
  <2>1. TypeOK'
    BY <1>1 DEF vars, TimerInv, TypeOK
  <2>2. TimersInv' /\ ServersInv' /\ WalkInv'
    BY <1>1 DEF vars, TimerInv, TimersInv, ServersInv, WalkInv, ServersWalk, TimersWalk,
                Running, Closing
  <2> QED
    BY <2>1, <2>2 DEF TimerInv
<1>2. CASE RegistrationStep \/ ServersVisited
  BY <1>2, VisitDisconnectedKeeps, VisitRegisteredKeeps, VisitOtherKeeps, ServerEventKeeps,
     ServersVisitedKeeps DEF RegistrationStep
<1>3. CASE coreTimerStep \/ TimersVisited
  BY <1>3, SkipTimerKeeps, ExchangeTimerKeeps, UpdateTimerKeeps, LifetimeTimerKeeps,
     SilentTimerKeeps, TimerEventKeeps, TimersVisitedKeeps DEF coreTimerStep
<1>4. CASE StepBegin
  BY <1>4, StepBeginKeeps
<1>5. CASE Tick \/ \E s \in Server, l \in Lifetimes : WriteLifetime(s, l)
  BY <1>5, SelectingKeeps
<1>6. ASSUME NEW s \in Server,
             \/ HandshakeDone(s) \/ RegistrationReply(s) \/ RegistrationUpdateReply(s)
             \/ iowa_client_add_server(s) \/ iowa_client_remove_server(s)
      PROVE  TimerInv'
  BY <1>6, HandshakeKeeps, RegistrationReplyKeeps, UpdateReplyKeeps, AddServerKeeps,
     RemoveServerKeeps
<1> QED
  BY <1>1, <1>2, <1>3, <1>4, <1>5, <1>6 DEF Next

\* What makes the invariants inductive: every state of coreTimerStep and of
\* registration_step, between two steps of their loops too.
THEOREM AlwaysTimerInv ==
  ASSUME Removes = FALSE
  PROVE  Spec => []TimerInv
<1>1. TimerInv /\ [Next]_vars => TimerInv'
  BY NextTimers
<1> QED
  BY <1>1, InitTimers, PTL DEF Spec

\* The lists, the timers and what the loops hold keep their types.
THEOREM TimerTypes ==
  ASSUME Removes = FALSE
  PROVE  Spec => []TypeOK
<1>1. TimerInv => TypeOK
  BY DEF TimerInv
<1> QED
  BY <1>1, AlwaysTimerInv, PTL

\* Neither registration_step nor coreTimerStep reads a server or a timer that its
\* callback, or the application in it, freed.
THEOREM LoopsHoldLivePointers ==
  ASSUME Removes = FALSE
  PROVE  Spec => []HeldPointersAreLive
<1>1. ASSUME TimerInv PROVE HeldPointersAreLive
  <2>1. ASSUME walk.pc = "servers", walk.server # NULL
        PROVE  walk.server \in ToSet(serverList)
    BY <1>1, <2>1, VisitedServer
  <2>2. ASSUME walk.pc = "timers",
               NEW t \in {walk.timer, walk.parent, walk.next} \ {NULL}
        PROVE  t \in ToSet(timers.list)
    <3>1. PICK k \in Nat : TimersWalk(k)
      BY <1>1, <2>2 DEF TimerInv, WalkInv
    <3>2. timers.list \in Seq(Timer) /\ Len(timers.list) \in Nat
      BY <1>1, LenProperties DEF TimerInv, TypeOK
    <3>3. CASE t = walk.timer
      <4>1. k \in 0..Len(timers.list) /\ t = After(timers.list, k) /\ t # NULL
        BY <2>2, <3>1, <3>3 DEF TimersWalk
      <4> QED
        BY <3>2, <4>1, ListWalk, TimerIs
    <3>4. CASE t = walk.parent
      <4>1. k \in 1..Len(timers.list) /\ t = timers.list[k]
        BY <2>2, <3>1, <3>2, <3>4 DEF TimersWalk
      <4> QED
        BY <3>2, <4>1, LenProperties DEF ToSet
    <3>5. CASE t = walk.next
      <4>1. walk.calling /\ k < Len(timers.list) /\ t = After(timers.list, k + 1) /\ t # NULL
        BY <2>2, <3>1, <3>5 DEF TimersWalk
      <4>2. k + 1 \in 0..Len(timers.list)
        BY <3>1, <3>2, <4>1
      <4> QED
        BY <3>2, <4>1, <4>2, ListWalk, TimerIs
    <3> QED
      BY <2>2, <3>3, <3>4, <3>5
  <2> QED
    BY <2>1, <2>2 DEF HeldPointersAreLive
<1> QED
  BY <1>1, AlwaysTimerInv, PTL

LEMMA ListIsArmed ==
  ASSUME TimerInv
  PROVE  ListedAreArmed
<1>1. timers.list \in Seq(Timer) /\ Distinct(timers.list)
  BY DEF TimerInv, TypeOK, TimersInv, Sound
<1>2. Len(timers.list) = Cardinality(ToSet(timers.list))
  BY <1>1, DistinctLength
<1>3. ToSet(timers.list) =
        timers.armed \cup (IF walk.calling /\ walk.pc = "timers" THEN {walk.timer} ELSE {})
  BY DEF TimerInv, TimersInv, Sound, Running
<1> QED
  BY <1>2, <1>3 DEF ListedAreArmed

\* The kinds of the timers a server has.
LEMMA KindsOf ==
  ASSUME NEW armed \in SUBSET Timer, NEW s \in Server
  PROVE  LET kinds == {Kind(t) : t \in {u \in armed : Owner(u) = s}} IN
         /\ kinds \subseteq {"exchange", "update", "lifetime"}
         /\ \A k \in {"exchange", "update", "lifetime"} : k \in kinds <=> <<s, k>> \in armed
<1> DEFINE kinds == {Kind(t) : t \in {u \in armed : Owner(u) = s}}
<1>1. kinds \subseteq {"exchange", "update", "lifetime"}
  BY TimerIs
<1>2. ASSUME NEW k \in {"exchange", "update", "lifetime"}, <<s, k>> \in armed
      PROVE  k \in kinds
  <2>1. Kind(<<s, k>>) = k /\ Owner(<<s, k>>) = s
    BY TimerIs
  <2> QED
    BY <1>2, <2>1
<1>3. ASSUME NEW k \in {"exchange", "update", "lifetime"}, k \in kinds
      PROVE  <<s, k>> \in armed
  <2>1. PICK t \in armed : Owner(t) = s /\ Kind(t) = k
    BY <1>3
  <2> QED
    BY <2>1, TimerIs
<1> QED
  BY <1>1, <1>2, <1>3

\* No timer is lost or dangling, and the timers of a server are those of its
\* status, between any two steps of the loops.
THEOREM TimersAreAlwaysOwned ==
  ASSUME Removes = FALSE
  PROVE  Spec => []TimersAreOwned
<1>1. ASSUME TimerInv PROVE TimersOfStatus
  <2> DEFINE kinds(s) == {Kind(t) : t \in {u \in timers.armed : Owner(u) = s}}
             registered == {{"lifetime"}, {"lifetime", "update"}}
             closing(s) == walk.pc = "servers" /\ walk.calling /\ walk.server = s
  <2>1. SUFFICES ASSUME NEW s \in Server
                 PROVE  CASE status[s] = "REGISTERING" -> kinds(s) = {"exchange"}
                          [] status[s] \in {"REGISTERED", "UPDATE_PENDING"} ->
                               kinds(s) \in registered
                          [] status[s] = "disabled" ->
                               IF closing(s) THEN kinds(s) \in registered
                                             ELSE kinds(s) = {"lifetime"}
                          [] OTHER -> kinds(s) = {}
    BY DEF TimersOfStatus
  <2>2. Owns(timers.armed, s, status[s], closing(s))
    BY <1>1 DEF TimerInv, TimersInv, Closing
  <2>3. timers.armed \in SUBSET Timer
    BY <1>1 DEF TimerInv, TypeOK
  <2>4. /\ kinds(s) \subseteq {"exchange", "update", "lifetime"}
        /\ \A k \in {"exchange", "update", "lifetime"} : k \in kinds(s) <=> <<s, k>> \in timers.armed
    BY <2>3, KindsOf
  <2> HIDE DEF kinds, closing
  <2>5. CASE status[s] = "REGISTERING"
    <3>1. kinds(s) = {"exchange"}
      BY <2>2, <2>4, <2>5 DEF Owns
    <3> QED
      BY <2>5, <3>1
  <2>6. CASE status[s] \in {"REGISTERED", "UPDATE_PENDING"}
    <3>1. kinds(s) \in registered
      BY <2>2, <2>4, <2>6 DEF Owns
    <3> QED
      BY <2>6, <3>1
  <2>7. CASE status[s] = "disabled"
    <3>1. IF closing(s) THEN kinds(s) \in registered ELSE kinds(s) = {"lifetime"}
      BY <2>2, <2>4, <2>7 DEF Owns
    <3> QED
      BY <2>7, <3>1
  <2>8. CASE status[s] \notin {"REGISTERING", "REGISTERED", "UPDATE_PENDING", "disabled"}
    <3>1. kinds(s) = {}
      BY <2>2, <2>4, <2>8 DEF Owns
    <3> QED
      BY <2>8, <3>1
  <2> QED
    BY <2>5, <2>6, <2>7, <2>8
<1>2. TimerInv => TimersAreOwned
  BY <1>1, ListIsArmed DEF TimersAreOwned
<1> QED
  BY <1>2, AlwaysTimerInv, PTL

\* iowa_step leaves the loops only past the last timer.
LEMMA OnlyVisitedTimersEnd ==
  ASSUME [Next]_vars, walk.pc = "timers", walk'.pc = "select", TypeOK
  PROVE  TimersVisited
<1>1. CASE UNCHANGED vars
  BY <1>1 DEF vars
<1>2. CASE RegistrationStep \/ ServersVisited \/ StepBegin \/ Tick
  BY <1>2 DEF RegistrationStep, VisitDisconnected, VisitRegistered, VisitOther, ServerVisited,
              ServerEventReturns, ServersVisited, StepBegin, Tick, Selecting
<1>3. CASE coreTimerStep
  <2>1. walk'.pc = walk.pc
    BY <1>3 DEF coreTimerStep, SkipTimer, ExchangeTimer, UpdateTimer, LifetimeTimer, CallsBack,
                SilentTimer, TimerEventReturns, TypeOK
  <2> QED
    BY <2>1
<1>4. ASSUME NEW s \in Server,
             \/ HandshakeDone(s) \/ RegistrationReply(s) \/ RegistrationUpdateReply(s)
             \/ \E l \in Lifetimes : WriteLifetime(s, l)
             \/ iowa_client_add_server(s) \/ iowa_client_remove_server(s)
      PROVE  walk' = walk
  BY <1>4 DEF HandshakeDone, RegistrationReply, RegistrationUpdateReply, Answered,
              WriteLifetime, iowa_client_add_server, iowa_client_remove_server
<1> QED
  BY <1>1, <1>2, <1>3, <1>4 DEF Next

\* commSelect is given a timeout that no timer outlives: each of them was visited.
THEOREM SleepAlwaysEndsInTime ==
  ASSUME Removes = FALSE
  PROVE  Spec => SleepEndsInTime
<1> DEFINE InTime == walk.pc = "timers" /\ walk'.pc = "select" =>
             \A t \in timers'.armed :
               /\ timers'.time[t] > currentTime
               /\ timeout' <= timers'.time[t] - currentTime
<1>1. ASSUME TimerInv, [Next]_vars PROVE InTime
  <2>1. SUFFICES ASSUME walk.pc = "timers", walk'.pc = "select", NEW t \in timers'.armed
                 PROVE  /\ timers'.time[t] > currentTime
                        /\ timeout' <= timers'.time[t] - currentTime
    OBVIOUS
  <2>2. walk.timer = NULL /\ timers' = timers /\ timeout' = timeout
    BY <1>1, <2>1, OnlyVisitedTimersEnd DEF TimersVisited, TimerInv
  <2>3. PICK k \in Nat : TimersWalk(k)
    BY <1>1, <2>1 DEF TimerInv, WalkInv
  <2>4. timers.list \in Seq(Timer) /\ ToSet(timers.list) = timers.armed \cup Running
    BY <1>1 DEF TimerInv, TypeOK, TimersInv, Sound
  <2>5. k = Len(timers.list)
    BY <2>2, <2>3, <2>4, ListWalk, TimerIs DEF TimersWalk
  <2>6. PICK i \in 1..k : timers.list[i] = t
    BY <2>1, <2>2, <2>4, <2>5, LenProperties DEF ToSet
  <2> QED
    BY <2>2, <2>3, <2>6 DEF TimersWalk
<1>2. TimerInv /\ [Next]_vars => [InTime]_vars
  BY <1>1
<1> QED
  BY <1>2, AlwaysTimerInv, PTL DEF Spec, SleepEndsInTime

=============================================================================
