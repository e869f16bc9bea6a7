--------------------------- MODULE SessionProofs ---------------------------
(***************************************************************************)
(* Proofs about Session, for any servers, bindings and faults: the links   *)
(* between sockets, channels, sessions, peers and servers; that what the   *)
(* loops of iowa_step hold is live; and that the peer, the session and the *)
(* library agree, wherever the platform closes a connection.  What is said *)
(* of channels is for a commChannelDelete that is not short of memory.     *)
(***************************************************************************)
EXTENDS Session, ListProofs

-----------------------------------------------------------------------------
(* The inductive invariant                                                 *)

Context ==
  [sessionList : Seq(Session), session : [Session -> SessionRecord \cup {None}],
   channelArray : Seq(Channel), open : SUBSET Conn,
   peer : [Server -> Session \cup {None}], status : [Server -> Status]]

IsLive(c, s) == c.session[s] # None

\* The list holds each live session once.
ListInv(c) ==
  /\ Distinct(c.sessionList)
  /\ \A s \in Session : s \in ToSet(c.sessionList) <=> IsLive(c, s)

\* Each live session but the orphan is that of the peer of its server.
PeerInv(c, orphan) ==
  /\ \A v \in Server : c.peer[v] # None =>
       c.peer[v] # orphan /\ IsLive(c, c.peer[v]) /\ c.session[c.peer[v]].owner = v
  /\ \A s \in Session : IsLive(c, s) /\ s # orphan => c.peer[c.session[s].owner] = s

\* A channel and its session call one another their own.
ChannelInv(c) ==
  /\ \A ch \in Channels(c) : IsLive(c, ch.userData) /\ c.session[ch.userData].channelP = ch.connP
  /\ \A i, j \in DOMAIN c.channelArray :
       c.channelArray[i].connP = c.channelArray[j].connP => i = j
  /\ \A s \in Session : IsLive(c, s) /\ c.session[s].channelP # None =>
       [connP |-> c.session[s].channelP, userData |-> s] \in Channels(c)
  /\ c.open = {ch.connP : ch \in Channels(c)}

\* The memory for a smaller array is there.
Shrinks == "shrink" \notin Faults

Linked(c, orphan) ==
  c \in Context /\ ListInv(c) /\ PeerInv(c, orphan) /\ (Shrinks => ChannelInv(c))

\* The peer is told of the state, and a library with nothing to do holds
\* nothing, unless the platform closed the connection halfway.
Agrees(r) ==
  /\ r.told = "CONNECTED" <=> r.state \in {"CONNECTED", "DISCONNECTING"} \/ r.cut = "DISCONNECTING"
  /\ r.state \in {"DISCONNECTED", "INIT_HANDSHAKE"} => (r.engine = "none" <=> r.cut = "NEVER")
  /\ r.state \notin {"DISCONNECTED", "INIT_HANDSHAKE"} => r.cut = "NEVER"
  /\ r.state = "CONNECTION_FAILED" \/ r.owner \notin Secure => r.engine = "none"
  /\ r.state = "DISCONNECTING" => r.engine # "none"

\* The sessions agree, all but one.
Agreed(c, but) == \A s \in Session \ {but} : IsLive(c, s) => Agrees(c.session[s])

Entry == [connP : Conn, owner : Session]

LoopInv ==
  /\ program \in [library : Libraries, mode : [Server -> SecurityMode]]
  /\ pc \in {"closed", "idle", "security", "lwm2m", "select", "dispatch", "closing"}
  /\ current \in Session \cup {None}
  /\ pc = "security" /\ current # None => IsLive(ctx, current)
  /\ connArray \in Seq(Entry)
  /\ pc \notin {"select", "dispatch"} => connArray = << >>

\* What select noted is still the session's, or has no channel any more.
NotedInv ==
  \A i \in DOMAIN connArray : \A ch \in Channels(ctx) :
    ch.connP = connArray[i].connP => ch.userData = connArray[i].owner

SessionInv ==
  /\ Linked(ctx, None) /\ LoopInv
  /\ Shrinks => NotedInv
  /\ Agreed(ctx, None)

-----------------------------------------------------------------------------
(* The context, field by field                                             *)

\* The one session of d that differs from c's is s, which is r.
Put(c, d, s, r) ==
  /\ d \in Context /\ d.session = [c.session EXCEPT ![s] = r]
  /\ d.sessionList = c.sessionList /\ d.channelArray = c.channelArray /\ d.open = c.open
  /\ d.peer = c.peer /\ d.status = c.status

LEMMA RecordIs ==
  ASSUME NEW c \in Context, NEW s \in Session, IsLive(c, s)
  PROVE  c.session[s] \in SessionRecord
<1>1. c.session \in [Session -> SessionRecord \cup {None}]
  BY DEF Context
<1> QED
  BY <1>1 DEF IsLive

LEMMA PutIs ==
  ASSUME NEW c \in Context, NEW s \in Session, NEW r \in SessionRecord
  PROVE  Put(c, [c EXCEPT !.session[s] = r], s, r)
  BY DEF Context, Put

LEMMA SetStateIs ==
  ASSUME NEW c \in Context, NEW s \in Session, IsLive(c, s), NEW st \in State
  PROVE  Put(c, SetState(c, s, st), s, [c.session[s] EXCEPT !.state = st])
<1>1. c.session[s] \in SessionRecord
  BY RecordIs
<1>2. PICK r : r = [c.session[s] EXCEPT !.state = st]
  OBVIOUS
<1>3. r \in SessionRecord
  BY <1>1, <1>2 DEF SessionRecord
<1>4. SetState(c, s, st) = [c EXCEPT !.session[s] = r]
  BY <1>2 DEF SetState
<1> QED
  BY <1>2, <1>3, <1>4, PutIs

LEMMA SetEngineIs ==
  ASSUME NEW c \in Context, NEW s \in Session, IsLive(c, s), NEW e \in Engine
  PROVE  Put(c, SetEngine(c, s, e), s, [c.session[s] EXCEPT !.engine = e, !.tries = 0])
<1>1. c.session[s] \in SessionRecord
  BY RecordIs
<1>2. PICK r : r = [c.session[s] EXCEPT !.engine = e, !.tries = 0]
  OBVIOUS
<1>3. r \in SessionRecord
  <2>1. 0 \in 0..MaxRetransmit
    BY RetransmitIsNat
  <2> QED
    BY <1>1, <1>2, <2>1 DEF SessionRecord
<1>4. SetEngine(c, s, e) = [c EXCEPT !.session[s] = r]
  BY <1>2 DEF SetEngine, Context
<1> QED
  BY <1>2, <1>3, <1>4, PutIs

LEMMA SetToldIs ==
  ASSUME NEW c \in Context, NEW s \in Session, IsLive(c, s), NEW told \in {"NOTHING", "CONNECTED", "DISCONNECTED"}
  PROVE  Put(c, [c EXCEPT !.session[s].told = told], s, [c.session[s] EXCEPT !.told = told])
<1>1. c.session[s] \in SessionRecord
  BY RecordIs
<1>2. PICK r : r = [c.session[s] EXCEPT !.told = told]
  OBVIOUS
<1>3. r \in SessionRecord
  BY <1>1, <1>2 DEF SessionRecord
<1>4. [c EXCEPT !.session[s].told = told] = [c EXCEPT !.session[s] = r]
  BY <1>2
<1> QED
  BY <1>2, <1>3, <1>4, PutIs

LEMMA ChannelsAre ==
  ASSUME NEW c \in Context
  PROVE  /\ Channels(c) = ToSet(c.channelArray)
         /\ \A ch \in Channels(c) : ch \in Channel /\ ch.connP \in Conn /\ ch.userData \in Session
<1>1. PICK list : list = c.channelArray
  OBVIOUS
<1>2. list \in Seq(Channel)
  BY <1>1 DEF Context
<1>3. \A i \in DOMAIN list : list[i] \in Channel
  BY <1>2, LenProperties
<1>4. \A ch \in Channel : ch.connP \in Conn /\ ch.userData \in Session
  BY DEF Channel
<1> QED
  BY <1>1, <1>3, <1>4 DEF Channels, ToSet

\* A change of a session that leaves its server and its channel alone.
LEMMA PutKeeps ==
  ASSUME NEW c, NEW d, NEW s \in Session, NEW r \in SessionRecord, NEW orphan,
         Linked(c, orphan), IsLive(c, s), Put(c, d, s, r),
         r.owner = c.session[s].owner, r.channelP = c.session[s].channelP
  PROVE  /\ Linked(d, orphan) /\ d.session[s] = r /\ Channels(d) = Channels(c)
         /\ \A x \in Session : IsLive(d, x) <=> IsLive(c, x)
         /\ \A x \in Session \ {s} : d.session[x] = c.session[x]
<1>1. c \in Context /\ d \in Context /\ DOMAIN c.session = Session
  BY DEF Linked, Context, Put
<1>2. d.session[s] = r /\ \A x \in Session \ {s} : d.session[x] = c.session[x]
  BY <1>1 DEF Put
<1>3. \A x \in Session : IsLive(d, x) <=> IsLive(c, x)
  BY <1>2, NoneIsNoRecord DEF IsLive
<1>4. \A x \in Session : d.session[x].owner = c.session[x].owner
                         /\ d.session[x].channelP = c.session[x].channelP
  BY <1>2
<1>5. Channels(d) = Channels(c)
  BY DEF Channels, Put
<1>6. ListInv(d)
  BY <1>3 DEF Linked, ListInv, Put
<1>7. PeerInv(d, orphan)
  <2>1. c.peer \in [Server -> Session \cup {None}]
    BY <1>1 DEF Context
  <2> QED
    BY <1>3, <1>4, <2>1 DEF Linked, PeerInv, Put
<1>8. ASSUME ChannelInv(c) PROVE ChannelInv(d)
  <2>1. \A ch \in Channels(c) : ch.userData \in Session
    BY <1>1, ChannelsAre
  <2> QED
    BY <1>3, <1>4, <1>5, <1>8, <2>1 DEF ChannelInv, Put
<1> QED
  BY <1>1, <1>2, <1>3, <1>5, <1>6, <1>7, <1>8 DEF Linked

\* The one session that is not what it was is s, which is r.
Changed(c, d, s, r) ==
  /\ d.session[s] = r /\ Channels(d) = Channels(c)
  /\ \A x \in Session : IsLive(d, x) <=> IsLive(c, x)
  /\ \A x \in Session \ {s} : d.session[x] = c.session[x]

LEMMA PutChanges ==
  ASSUME NEW c, Linked(c, None), NEW d, NEW s \in Session, IsLive(c, s), NEW r \in SessionRecord,
         Put(c, d, s, r), r.owner = c.session[s].owner, r.channelP = c.session[s].channelP
  PROVE  Linked(d, None) /\ Changed(c, d, s, r)
  BY PutKeeps DEF Changed

\* What an operation for the server v leaves alone.
Keeps(c, d, v) ==
  /\ Channels(d) \subseteq Channels(c)
  /\ \A x \in Session : IsLive(d, x) => IsLive(c, x)
  /\ \A x \in Session : IsLive(c, x) /\ c.session[x].owner # v => d.session[x] = c.session[x]

LEMMA KeepsMore ==
  ASSUME NEW c, NEW d, NEW e, NEW v, Keeps(c, d, v), Keeps(d, e, v)
  PROVE  Keeps(c, e, v)
  BY DEF Keeps, IsLive

LEMMA PutAgrees ==
  ASSUME NEW c, NEW d, NEW s \in Session, NEW but, Agreed(c, but), but \in {s, None},
         Agrees(d.session[s]), \A x \in Session \ {s} : d.session[x] = c.session[x]
  PROVE  Agreed(d, None)
  BY DEF Agreed, IsLive

-----------------------------------------------------------------------------
(* Channels                                                                *)

\* d is c without the channel of the connection k, the others being in order.
Gone(c, d, k) ==
  /\ Channels(d) = {ch \in Channels(c) : ch.connP # k}
  /\ d.open = IF commChannelFind(c, k) = {} THEN c.open ELSE c.open \ {k}
  /\ \E at \in [DOMAIN d.channelArray -> DOMAIN c.channelArray] :
       \A i, j \in DOMAIN d.channelArray :
         /\ d.channelArray[i] = c.channelArray[at[i]]
         /\ at[i] = at[j] => i = j

\* What a removal of the channel of a connection leaves.
LEMMA ChannelDeleted ==
  ASSUME NEW c \in Context, NEW k \in Conn \cup {None}, NEW d \in commChannelDelete(c, k)
  PROVE  /\ d \in Context
         /\ d.session = c.session /\ d.sessionList = c.sessionList
         /\ d.peer = c.peer /\ d.status = c.status
         /\ Channels(d) \subseteq Channels(c)
         /\ Shrinks => Gone(c, d, k)
<1>1. CASE d = c /\ (commChannelFind(c, k) = {} \/ ~Shrinks)
  <2>1. commChannelFind(c, k) = {} => Channels(c) = {ch \in Channels(c) : ch.connP # k}
    BY DEF commChannelFind
  <2>2. \E at \in [DOMAIN d.channelArray -> DOMAIN c.channelArray] :
          \A i, j \in DOMAIN d.channelArray :
            /\ d.channelArray[i] = c.channelArray[at[i]]
            /\ at[i] = at[j] => i = j
    <3>1. PICK at : at = [i \in DOMAIN c.channelArray |-> i]
      OBVIOUS
    <3>2. /\ at \in [DOMAIN d.channelArray -> DOMAIN c.channelArray]
          /\ \A i \in DOMAIN c.channelArray : at[i] = i
      BY <1>1, <3>1
    <3> QED
      BY <1>1, <3>2
  <2> QED
    BY <1>1, <2>1, <2>2 DEF Gone
<1>2. CASE /\ commChannelFind(c, k) # {}
           /\ d = iowa_system_connection_close([c EXCEPT !.channelArray = ChannelsBut(c, k)], k)
  <2>1. PICK kept : kept = {i \in DOMAIN c.channelArray : c.channelArray[i].connP # k}
    OBVIOUS
  <2>2. c.channelArray \in Seq(Channel) /\ kept \in SUBSET DOMAIN c.channelArray
    BY <2>1 DEF Context
  <2>3. PICK list : list = ChannelsBut(c, k)
    OBVIOUS
  <2>4. list = Sublist(c.channelArray, kept)
    BY <2>1, <2>3 DEF ChannelsBut
  <2>5. /\ list \in Seq(Channel) /\ ToSet(list) = {c.channelArray[i] : i \in kept}
        /\ \E at \in [DOMAIN list -> kept] :
             \A i, j \in DOMAIN list : list[i] = c.channelArray[at[i]] /\ (at[i] = at[j] => i = j)
    BY <2>2, <2>4, SublistElements
  <2>6. /\ d \in Context /\ d.channelArray = list /\ d.open = c.open \ {k}
        /\ d.session = c.session /\ d.sessionList = c.sessionList
        /\ d.peer = c.peer /\ d.status = c.status
    BY <1>2, <2>3, <2>5 DEF iowa_system_connection_close, Context
  <2>7. Channels(d) = ToSet(list)
    BY <2>6, ChannelsAre
  <2>8. ToSet(list) = {ch \in Channels(c) : ch.connP # k}
    BY <2>1, <2>5 DEF Channels
  <2>9. \E at \in [DOMAIN d.channelArray -> DOMAIN c.channelArray] :
          \A i, j \in DOMAIN d.channelArray :
            /\ d.channelArray[i] = c.channelArray[at[i]]
            /\ at[i] = at[j] => i = j
    <3>1. PICK at \in [DOMAIN list -> kept] :
            \A i, j \in DOMAIN list : list[i] = c.channelArray[at[i]] /\ (at[i] = at[j] => i = j)
      BY <2>5
    <3>2. at \in [DOMAIN list -> DOMAIN c.channelArray]
      BY <2>2
    <3> QED
      BY <2>6, <3>1, <3>2
  <2> QED
    BY <1>2, <2>6, <2>7, <2>8, <2>9 DEF Gone
<1> QED
  BY <1>1, <1>2 DEF commChannelDelete, May, Shrinks

\* A session without its channel.
LEMMA ChannelLost ==
  ASSUME NEW c, Linked(c, None), NEW s \in Session, IsLive(c, s),
         NEW r \in SessionRecord, r.owner = c.session[s].owner, r.channelP = None,
         NEW k, k = c.session[s].channelP,
         NEW d \in Context, d.session = [c.session EXCEPT ![s] = r],
         d.sessionList = c.sessionList, d.peer = c.peer,
         Shrinks => Gone(c, d, k)
  PROVE  Linked(d, None)
<1>1. c \in Context /\ DOMAIN c.session = Session
  BY DEF Linked, Context
<1>2. d.session[s] = r /\ \A x \in Session \ {s} : d.session[x] = c.session[x]
  BY <1>1
<1>3. \A x \in Session : IsLive(d, x) <=> IsLive(c, x)
  BY <1>2, NoneIsNoRecord DEF IsLive
<1>4. \A x \in Session : d.session[x].owner = c.session[x].owner
  BY <1>2
<1>5. ListInv(d)
  BY <1>3 DEF Linked, ListInv
<1>6. PeerInv(d, None)
  <2>1. c.peer \in [Server -> Session \cup {None}]
    BY <1>1 DEF Context
  <2> QED
    BY <1>3, <1>4, <2>1 DEF Linked, PeerInv
<1>7. ASSUME Shrinks PROVE ChannelInv(d)
  <2>1. ChannelInv(c)
    BY <1>7 DEF Linked
  <2>2. \A ch \in Channels(c) : ch.connP \in Conn /\ ch.userData \in Session
    BY <1>1, ChannelsAre
  <2>3. \A x, y \in Channels(c) : x.connP = y.connP => x = y
    BY <2>1 DEF ChannelInv, Channels
  <2>4. \A ch \in Channels(c) : ch.connP = k <=> ch.userData = s
    <3> SUFFICES ASSUME NEW ch \in Channels(c) PROVE ch.connP = k <=> ch.userData = s
      OBVIOUS
    <3>1. ch.userData = s => ch.connP = k
      BY <2>1 DEF ChannelInv
    <3>2. ASSUME ch.connP = k PROVE ch.userData = s
      <4>1. k # None
        BY <2>2, <3>2, NoneIsOutside
      <4>2. PICK own : own = [connP |-> k, userData |-> s]
        OBVIOUS
      <4>3. own \in Channels(c)
        BY <2>1, <4>1, <4>2 DEF ChannelInv
      <4>4. own = ch
        BY <2>3, <3>2, <4>2, <4>3
      <4> QED
        BY <4>2, <4>4
    <3> QED
      BY <3>1, <3>2
  <2>5. Channels(d) = {ch \in Channels(c) : ch.connP # k}
    BY <1>7 DEF Gone
  <2>6. \A ch \in Channels(d) : IsLive(d, ch.userData) /\ d.session[ch.userData].channelP = ch.connP
    BY <1>2, <1>3, <2>1, <2>2, <2>4, <2>5 DEF ChannelInv
  <2>7. \A i, j \in DOMAIN d.channelArray :
          d.channelArray[i].connP = d.channelArray[j].connP => i = j
    <3>1. PICK at \in [DOMAIN d.channelArray -> DOMAIN c.channelArray] :
            \A i, j \in DOMAIN d.channelArray :
              /\ d.channelArray[i] = c.channelArray[at[i]]
              /\ at[i] = at[j] => i = j
      BY <1>7 DEF Gone
    <3> QED
      BY <2>1, <3>1 DEF ChannelInv
  <2>8. \A x \in Session : IsLive(d, x) /\ d.session[x].channelP # None =>
          [connP |-> d.session[x].channelP, userData |-> x] \in Channels(d)
    <3> SUFFICES ASSUME NEW x \in Session, IsLive(d, x), d.session[x].channelP # None
                 PROVE  [connP |-> d.session[x].channelP, userData |-> x] \in Channels(d)
      OBVIOUS
    <3>1. x # s /\ d.session[x] = c.session[x] /\ IsLive(c, x)
      BY <1>2, <1>3
    <3>2. PICK own : own = [connP |-> c.session[x].channelP, userData |-> x]
      OBVIOUS
    <3>3. own \in Channels(c) /\ own.userData = x
      BY <2>1, <3>1, <3>2 DEF ChannelInv
    <3> QED
      BY <2>4, <2>5, <3>1, <3>2, <3>3
  <2>9. d.open = {ch.connP : ch \in Channels(d)}
    <3>1. c.open = {ch.connP : ch \in Channels(c)}
      BY <2>1 DEF ChannelInv
    <3>2. d.open = c.open \ {k}
      BY <1>7, <3>1 DEF Gone, commChannelFind
    <3> QED
      BY <2>5, <3>1, <3>2
  <2> QED
    BY <2>6, <2>7, <2>8, <2>9 DEF ChannelInv
<1> QED
  BY <1>5, <1>6, <1>7 DEF Linked

-----------------------------------------------------------------------------
(* Freeing and closing                                                     *)

\* d is c, where the session s has lost its channel: its record is r.
Lost(c, d, s, r) ==
  /\ d.session = [c.session EXCEPT ![s] = r]
  /\ d.sessionList = c.sessionList /\ d.peer = c.peer /\ d.status = c.status
  /\ Channels(d) \subseteq Channels(c)
  /\ r.owner = c.session[s].owner /\ r.channelP = None
  /\ r.state = "DISCONNECTED" /\ r.told = c.session[s].told /\ r.cut = c.session[s].cut
  /\ r.engine = IF c.session[s].state = "CONNECTED" /\ r.owner \in Secure THEN "none"
                ELSE c.session[s].engine

LEMMA ChannelIsLost ==
  ASSUME NEW c, Linked(c, None), NEW s \in Session, IsLive(c, s), NEW d \in LoseChannel(c, s)
  PROVE  Linked(d, None) /\ \E r \in SessionRecord : Lost(c, d, s, r)
<1>1. c \in Context /\ c.session[s] \in SessionRecord /\ DOMAIN c.session = Session
  BY RecordIs DEF Linked, Context
<1>2. PICK q : q = c.session[s]
  OBVIOUS
<1>3. PICK b : b = IF q.state = "CONNECTED" /\ Secured(c, s)
                   THEN iowa_user_security_disconnect(c, s) ELSE c
  OBVIOUS
<1>4. PICK p \in SessionRecord :
        /\ Put(c, b, s, p) /\ p.owner = q.owner /\ p.channelP = q.channelP /\ p.told = q.told
        /\ p.cut = q.cut
        /\ p.engine = IF q.state = "CONNECTED" /\ q.owner \in Secure THEN "none" ELSE q.engine
  <2>1. CASE q.state = "CONNECTED" /\ Secured(c, s)
    <3>1. PICK p : p = [q EXCEPT !.engine = "none", !.tries = 0]
      OBVIOUS
    <3>2. Put(c, b, s, p)
      BY <1>1, <1>2, <1>3, <2>1, <3>1, SetEngineIs DEF iowa_user_security_disconnect, Engine
    <3>3. 0 \in 0..MaxRetransmit
      BY RetransmitIsNat
    <3>4. /\ p \in SessionRecord /\ p.owner = q.owner /\ p.channelP = q.channelP /\ p.told = q.told
          /\ p.cut = q.cut /\ p.engine = "none"
      BY <1>1, <1>2, <3>1, <3>3 DEF SessionRecord, Engine
    <3> QED
      BY <1>2, <2>1, <3>2, <3>4 DEF Secured
  <2>2. CASE ~(q.state = "CONNECTED" /\ Secured(c, s))
    <3>1. b = c /\ ~(q.state = "CONNECTED" /\ q.owner \in Secure)
      BY <1>2, <1>3, <2>2 DEF Secured
    <3>2. c.session = [c.session EXCEPT ![s] = q]
      BY <1>1, <1>2 DEF Context
    <3> QED
      BY <1>1, <1>2, <3>1, <3>2 DEF Put
  <2> QED
    BY <2>1, <2>2
<1>5. /\ Linked(b, None) /\ b.session[s] = p /\ Channels(b) = Channels(c) /\ IsLive(b, s)
      /\ \A x \in Session \ {s} : b.session[x] = c.session[x]
  <2>1. Put(c, b, s, p) /\ p.owner = c.session[s].owner /\ p.channelP = c.session[s].channelP
    BY <1>2, <1>4
  <2> QED
    BY <2>1, PutKeeps
<1>6. b \in Context /\ DOMAIN b.session = Session
  BY <1>5 DEF Linked, Context
<1>7. PICK k : k = q.channelP
  OBVIOUS
<1>8. k \in Conn \cup {None}
  BY <1>1, <1>2, <1>7 DEF SessionRecord
<1>9. PICK e \in commChannelDelete(b, k) :
        d = SetState([e EXCEPT !.session[s].channelP = None], s, "DISCONNECTED")
  BY <1>2, <1>3, <1>7 DEF LoseChannel
<1>10. /\ e \in Context
       /\ e.session = b.session /\ e.sessionList = b.sessionList
       /\ e.peer = b.peer /\ e.status = b.status
       /\ Channels(e) \subseteq Channels(b)
       /\ Shrinks => Gone(b, e, k)
  BY <1>6, <1>8, <1>9, ChannelDeleted
<1>11. PICK r : r = [p EXCEPT !.channelP = None, !.state = "DISCONNECTED"]
  OBVIOUS
<1>12. /\ r \in SessionRecord /\ r.owner = p.owner /\ r.channelP = None
       /\ r.state = "DISCONNECTED" /\ r.told = p.told /\ r.cut = p.cut /\ r.engine = p.engine
  BY <1>4, <1>11 DEF SessionRecord, State
<1>13. d = [e EXCEPT !.session[s] = r]
  BY <1>5, <1>6, <1>9, <1>10, <1>11 DEF SetState, Context
<1>14. Put(e, d, s, r)
  BY <1>10, <1>12, <1>13, PutIs
<1>15. /\ d \in Context /\ d.session = [b.session EXCEPT ![s] = r]
       /\ d.sessionList = b.sessionList /\ d.peer = b.peer /\ d.status = b.status
       /\ d.channelArray = e.channelArray /\ d.open = e.open /\ Channels(d) = Channels(e)
  BY <1>10, <1>14 DEF Put, Channels
<1>16. Linked(d, None)
  <2>1. b.session[s].owner = r.owner /\ k = b.session[s].channelP
    BY <1>4, <1>5, <1>7, <1>12
  <2>2. Shrinks => Gone(b, d, k)
    BY <1>10, <1>15 DEF Gone
  <2> QED
    BY <1>5, <1>12, <1>15, <2>1, <2>2, ChannelLost
<1>17. d.session = [c.session EXCEPT ![s] = r]
  BY <1>1, <1>4, <1>5, <1>6, <1>15 DEF Put
<1>18. Lost(c, d, s, r)
  BY <1>2, <1>4, <1>5, <1>10, <1>12, <1>15, <1>17 DEF Lost, Put
<1> QED
  BY <1>12, <1>16, <1>18

\* The deletion of a session that has no channel and no peer.
LEMMA SessionDeleted ==
  ASSUME NEW c, NEW s \in Session, Linked(c, s), IsLive(c, s), c.session[s].channelP = None,
         NEW d, d = securityDeleteSession(c, s)
  PROVE  /\ Linked(d, None) /\ d.session = [c.session EXCEPT ![s] = None]
         /\ d.channelArray = c.channelArray /\ d.open = c.open
         /\ d.peer = c.peer /\ d.status = c.status
<1>1. c \in Context /\ DOMAIN c.session = Session
  BY DEF Linked, Context
<1>2. PICK rest : rest = RemoveFirst(c.sessionList, s)
  OBVIOUS
<1>3. rest \in Seq(Session) /\ Distinct(rest) /\ ToSet(rest) = ToSet(c.sessionList) \ {s}
  <2>1. c.sessionList \in Seq(Session) /\ Distinct(c.sessionList)
    BY <1>1 DEF Linked, ListInv, Context
  <2> QED
    BY <1>2, <2>1, RemoveFirstProperties
<1>4. /\ d \in Context /\ d.sessionList = rest /\ d.session = [c.session EXCEPT ![s] = None]
      /\ d.channelArray = c.channelArray /\ d.open = c.open
      /\ d.peer = c.peer /\ d.status = c.status
  BY <1>1, <1>2, <1>3 DEF securityDeleteSession, Context
<1>5. ~IsLive(d, s) /\ \A x \in Session \ {s} : d.session[x] = c.session[x]
  BY <1>1, <1>4 DEF IsLive
<1>6. ListInv(d)
  BY <1>3, <1>4, <1>5 DEF Linked, ListInv, IsLive
<1>7. PeerInv(d, None)
  <2>1. c.peer \in [Server -> Session \cup {None}]
    BY <1>1 DEF Context
  <2> QED
    BY <1>4, <1>5, <2>1 DEF Linked, PeerInv, IsLive
<1>8. ASSUME ChannelInv(c) PROVE ChannelInv(d)
  <2>1. Channels(d) = Channels(c)
    BY <1>4 DEF Channels
  <2>2. \A ch \in Channels(c) : ch.userData \in Session \ {s}
    BY <1>1, <1>8, ChannelsAre, NoneIsOutside DEF ChannelInv
  <2> QED
    BY <1>4, <1>5, <1>8, <2>1, <2>2 DEF ChannelInv, IsLive
<1> QED
  BY <1>4, <1>6, <1>7, <1>8 DEF Linked

LEMMA StatusSet ==
  ASSUME NEW c, NEW orphan, Linked(c, orphan), NEW v \in Server, NEW st \in Status,
         NEW d, d = SetStatus(c, v, st)
  PROVE  /\ Linked(d, orphan) /\ d.session = c.session /\ d.peer = c.peer
         /\ Channels(d) = Channels(c)
<1>1. c \in Context
  BY DEF Linked
<1>2. /\ d \in Context /\ d.session = c.session /\ d.sessionList = c.sessionList
      /\ d.channelArray = c.channelArray /\ d.open = c.open /\ d.peer = c.peer
  BY <1>1 DEF SetStatus, Context
<1>3. ListInv(d) /\ PeerInv(d, orphan)
  BY <1>2 DEF Linked, ListInv, PeerInv, IsLive
<1>4. Channels(d) = Channels(c) /\ (ChannelInv(c) => ChannelInv(d))
  BY <1>2 DEF ChannelInv, IsLive, Channels
<1> QED
  BY <1>2, <1>3, <1>4 DEF Linked

\* Without the peer of v: its session is gone, the others are as they were.
Without(c, d, v) ==
  /\ Linked(d, None) /\ Channels(d) \subseteq Channels(c)
  /\ \A x \in Session : IsLive(d, x) =>
       IsLive(c, x) /\ d.session[x] = c.session[x] /\ c.session[x].owner # v
  /\ \A x \in Session : IsLive(c, x) /\ c.session[x].owner # v => d.session[x] = c.session[x]

LEMMA PeerDeleted ==
  ASSUME NEW c, Linked(c, None), NEW v \in Server, NEW d \in coapPeerDelete(c, v)
  PROVE  Without(c, d, v) /\ d.peer[v] = None /\ d.status = c.status
<1>1. c \in Context /\ DOMAIN c.session = Session /\ c.peer \in [Server -> Session \cup {None}]
  BY DEF Linked, Context
<1>2. PeerInv(c, None)
  BY DEF Linked
<1>3. CASE c.peer[v] = None
  <2>1. d = c
    BY <1>3 DEF coapPeerDelete
  <2>2. \A x \in Session : IsLive(c, x) => c.session[x].owner # v
    BY <1>2, <1>3, NoneIsOutside DEF PeerInv
  <2> QED
    BY <1>3, <2>1, <2>2 DEF Without
<1>4. CASE c.peer[v] # None
  <2>1. PICK s \in Session : s = c.peer[v]
    BY <1>1, <1>4
  <2>2. IsLive(c, s) /\ c.session[s].owner = v
    BY <1>2, <1>4, <2>1 DEF PeerInv
  <2>3. PICK e \in LoseChannel(c, s) : d = [securityDeleteSession(e, s) EXCEPT !.peer[v] = None]
    BY <1>4, <2>1 DEF coapPeerDelete
  <2>4. PICK r \in SessionRecord : Lost(c, e, s, r)
    BY <2>2, <2>3, ChannelIsLost
  <2>5. Linked(e, None)
    BY <2>2, <2>3, ChannelIsLost
  <2>6. e \in Context /\ e.session[s] = r /\ \A x \in Session \ {s} : e.session[x] = c.session[x]
    BY <1>1, <2>4, <2>5 DEF Lost, Linked
  <2>7. PICK f : f = [e EXCEPT !.peer[v] = None]
    OBVIOUS
  <2>8. /\ f \in Context /\ f.session = e.session /\ f.sessionList = e.sessionList
        /\ f.channelArray = e.channelArray /\ f.open = e.open /\ f.status = e.status
        /\ f.peer = [e.peer EXCEPT ![v] = None]
    BY <2>6, <2>7 DEF Context
  <2>9. Linked(f, s)
    <3>1. ListInv(f) /\ (ChannelInv(e) => ChannelInv(f))
      BY <2>5, <2>8 DEF Linked, ListInv, ChannelInv, Channels, IsLive
    <3>2. PeerInv(f, s)
      <4>1. e.peer = c.peer /\ r.owner = v /\ PeerInv(e, None)
        BY <2>2, <2>4, <2>5 DEF Lost, Linked
      <4>2. f.peer[v] = None /\ \A w \in Server \ {v} : f.peer[w] = e.peer[w]
        BY <1>1, <2>8, <4>1
      <4>3. e.peer[v] = s /\ e.session[s].owner = v
        BY <2>1, <2>6, <4>1
      <4>4. \A x \in Session : IsLive(e, x) => e.session[x].owner \in Server
        BY <2>6, RecordIs DEF SessionRecord
      <4>5. \A x \in Session : f.session[x] = e.session[x] /\ (IsLive(f, x) <=> IsLive(e, x))
        BY <2>8 DEF IsLive
      <4>6. \A x \in Session : IsLive(f, x) /\ x # s => f.peer[f.session[x].owner] = x
        <5> SUFFICES ASSUME NEW x \in Session, IsLive(f, x), x # s
                     PROVE  f.peer[f.session[x].owner] = x
          OBVIOUS
        <5>1. e.peer[e.session[x].owner] = x /\ x # None
          BY <4>1, <4>5, NoneIsOutside DEF PeerInv
        <5>2. e.session[x].owner \in Server \ {v}
          BY <4>3, <4>4, <4>5, <5>1
        <5> QED
          BY <4>2, <4>5, <5>1, <5>2
      <4>7. \A w \in Server : f.peer[w] # None =>
              f.peer[w] # s /\ IsLive(f, f.peer[w]) /\ f.session[f.peer[w]].owner = w
        <5> SUFFICES ASSUME NEW w \in Server, f.peer[w] # None
                     PROVE  f.peer[w] # s /\ IsLive(f, f.peer[w]) /\ f.session[f.peer[w]].owner = w
          OBVIOUS
        <5>1. w # v /\ f.peer[w] = e.peer[w] /\ e.peer[w] # None
          BY <4>2
        <5>2. IsLive(e, e.peer[w]) /\ e.session[e.peer[w]].owner = w
          BY <4>1, <5>1 DEF PeerInv
        <5> QED
          BY <2>8, <4>3, <5>1, <5>2 DEF IsLive
      <4> QED
        BY <4>6, <4>7 DEF PeerInv
    <3> QED
      BY <2>5, <2>8, <3>1, <3>2 DEF Linked
  <2>10. d = securityDeleteSession(f, s)
    BY <2>3, <2>6, <2>7 DEF securityDeleteSession, Context
  <2>11. IsLive(f, s) /\ f.session[s].channelP = None
    BY <2>4, <2>6, <2>8, NoneIsNoRecord DEF IsLive, Lost
  <2>12. /\ Linked(d, None) /\ d.session = [f.session EXCEPT ![s] = None]
         /\ d.channelArray = f.channelArray /\ d.peer = f.peer /\ d.status = f.status
    BY <2>9, <2>10, <2>11, SessionDeleted
  <2>13. ~IsLive(d, s) /\ \A x \in Session \ {s} : d.session[x] = c.session[x]
    BY <2>6, <2>8, <2>12 DEF IsLive, Context
  <2>14. \A x \in Session \ {s} : IsLive(c, x) => c.session[x].owner # v
    BY <1>2, <2>1, NoneIsOutside DEF PeerInv
  <2>15. Channels(d) \subseteq Channels(c)
    BY <2>4, <2>8, <2>12 DEF Lost, Channels
  <2>16. d.peer[v] = None /\ d.status = c.status
    BY <1>1, <2>4, <2>8, <2>12 DEF Lost
  <2>17. Without(c, d, v)
    BY <2>2, <2>12, <2>13, <2>14, <2>15 DEF Without, IsLive
  <2> QED
    BY <2>16, <2>17
<1> QED
  BY <1>3, <1>4

LEMMA RegistrationFailing ==
  ASSUME NEW c, Linked(c, None), NEW v \in Server, NEW d \in prv_serverRegistrationFailing(c, v)
  PROVE  Without(c, d, v) /\ d.peer[v] = None
<1>1. PICK e \in coapPeerDelete(c, v) : d = SetStatus(e, v, "FAILED")
  BY DEF prv_serverRegistrationFailing
<1>2. Without(c, e, v) /\ e.peer[v] = None
  BY <1>1, PeerDeleted
<1>3. Linked(e, None)
  BY <1>2 DEF Without
<1>4. /\ Linked(d, None) /\ d.session = e.session /\ d.peer = e.peer
      /\ Channels(d) = Channels(e)
  <2>1. "FAILED" \in Status
    BY DEF Status
  <2> QED
    BY <1>1, <1>3, <2>1, StatusSet
<1> QED
  BY <1>2, <1>4 DEF Without, IsLive

LEMMA WithoutKeeps ==
  ASSUME NEW c, NEW d, NEW v, Without(c, d, v)
  PROVE  /\ Linked(d, None) /\ Keeps(c, d, v)
         /\ \A but : Agreed(c, but) /\ (but \in Session => c.session[but].owner = v) => Agreed(d, None)
<1>1. Linked(d, None) /\ Keeps(c, d, v)
  BY DEF Without, Keeps
<1>2. ASSUME NEW but, Agreed(c, but), but \in Session => c.session[but].owner = v
      PROVE  Agreed(d, None)
  BY <1>2 DEF Without, Agreed
<1> QED
  BY <1>1, <1>2

-----------------------------------------------------------------------------
(* Events                                                                  *)

\* The peer of s is told, and what its server makes of it.
LEMMA EventTold ==
  ASSUME NEW c, Linked(c, None), NEW s \in Session, IsLive(c, s), NEW v, v = c.session[s].owner,
         NEW r \in SessionRecord, NEW t, Linked(t, None), Changed(c, t, s, r),
         NEW d, d = t \/ d = SetStatus(t, v, "REGISTERED") \/ d \in prv_serverRegistrationFailing(t, v)
  PROVE  /\ Linked(d, None) /\ Keeps(c, d, v)
         /\ Agreed(c, s) /\ Agrees(r) => Agreed(d, None)
<1>1. c \in Context /\ c.session[s] \in SessionRecord
  BY RecordIs DEF Linked
<1>2. v \in Server
  BY <1>1 DEF SessionRecord
<1>6. /\ t.session[s] = r /\ Channels(t) = Channels(c)
      /\ \A x \in Session : IsLive(t, x) <=> IsLive(c, x)
      /\ \A x \in Session \ {s} : t.session[x] = c.session[x]
  BY DEF Changed
<1>7. Keeps(c, t, v)
  BY <1>6 DEF Keeps
<1>8. Agreed(c, s) /\ Agrees(r) => Agreed(t, None)
  BY <1>6 DEF Agreed
<1>9. CASE d = t
  BY <1>6, <1>7, <1>8, <1>9
<1>10. CASE d = SetStatus(t, v, "REGISTERED")
  <2>1. "REGISTERED" \in Status
    BY DEF Status
  <2>2. Linked(d, None) /\ d.session = t.session /\ Channels(d) = Channels(t)
    <3>1. Linked(t, None)
      BY <1>6
    <3> QED
      BY <1>2, <1>10, <2>1, <3>1, StatusSet
  <2> QED
    BY <1>7, <1>8, <2>2 DEF Keeps, Agreed, IsLive
<1>11. CASE d \in prv_serverRegistrationFailing(t, v)
  <2>1. Without(t, d, v)
    BY <1>2, <1>6, <1>11, RegistrationFailing
  <2>2. Linked(d, None) /\ Keeps(t, d, v) /\ (Agreed(t, None) => Agreed(d, None))
    BY <2>1, WithoutKeeps, NoneIsOutside
  <2>3. Keeps(c, d, v)
    BY <1>7, <2>2, KeepsMore
  <2> QED
    BY <1>8, <2>2, <2>3
<1> QED
  BY <1>9, <1>10, <1>11

LEMMA ConnectedIs ==
  ASSUME NEW c, Linked(c, None), NEW s \in Session, IsLive(c, s), NEW d \in Connected(c, s)
  PROVE  /\ Linked(d, None) /\ Keeps(c, d, c.session[s].owner)
         /\ /\ Agreed(c, s) /\ c.session[s].state = "CONNECTED"
            /\ c.session[s].owner \in Secure \/ c.session[s].engine = "none"
            /\ c.session[s].cut = "NEVER"
            => Agreed(d, None)
<1>1. PICK v : v = c.session[s].owner
  OBVIOUS
<1>2. PICK t : t = [c EXCEPT !.session[s].told = "CONNECTED"]
  OBVIOUS
<1>3. d = t \/ d = SetStatus(t, v, "REGISTERED") \/ d \in prv_serverRegistrationFailing(t, v)
  BY <1>1, <1>2 DEF Connected
<1>4. c \in Context /\ c.session[s] \in SessionRecord
  BY RecordIs DEF Linked
<1>5. PICK r : r = [c.session[s] EXCEPT !.told = "CONNECTED"]
  OBVIOUS
<1>6. r \in SessionRecord /\ r.owner = c.session[s].owner /\ r.channelP = c.session[s].channelP
  BY <1>4, <1>5 DEF SessionRecord
<1>7. Linked(t, None) /\ Changed(c, t, s, r)
  <2>1. Put(c, t, s, r)
    BY <1>2, <1>4, <1>5, SetToldIs
  <2> QED
    BY <1>6, <2>1, PutChanges
<1>8. /\ c.session[s].state = "CONNECTED" /\ c.session[s].cut = "NEVER"
      /\ c.session[s].owner \in Secure \/ c.session[s].engine = "none"
      => Agrees(r)
  BY <1>4, <1>5 DEF SessionRecord, Agrees
<1>9. Linked(d, None) /\ Keeps(c, d, v) /\ (Agreed(c, s) /\ Agrees(r) => Agreed(d, None))
  BY <1>1, <1>3, <1>6, <1>7, EventTold
<1> QED
  BY <1>1, <1>8, <1>9

LEMMA DisconnectedIs ==
  ASSUME NEW c, Linked(c, None), NEW s \in Session, IsLive(c, s), NEW d \in Disconnected(c, s)
  PROVE  /\ Linked(d, None) /\ Keeps(c, d, c.session[s].owner)
         /\ /\ Agreed(c, s) /\ c.session[s].state \notin {"CONNECTED", "DISCONNECTING"}
            /\ c.session[s].engine = "none" /\ c.session[s].cut = "NEVER"
            => Agreed(d, None)
<1>1. PICK v : v = c.session[s].owner
  OBVIOUS
<1>2. PICK t : t = [c EXCEPT !.session[s].told = "DISCONNECTED"]
  OBVIOUS
<1>3. d = t \/ d = SetStatus(t, v, "REGISTERED") \/ d \in prv_serverRegistrationFailing(t, v)
  BY <1>1, <1>2 DEF Disconnected
<1>4. c \in Context /\ c.session[s] \in SessionRecord
  BY RecordIs DEF Linked
<1>5. PICK r : r = [c.session[s] EXCEPT !.told = "DISCONNECTED"]
  OBVIOUS
<1>6. r \in SessionRecord /\ r.owner = c.session[s].owner /\ r.channelP = c.session[s].channelP
  BY <1>4, <1>5 DEF SessionRecord
<1>7. Linked(t, None) /\ Changed(c, t, s, r)
  <2>1. Put(c, t, s, r)
    BY <1>2, <1>4, <1>5, SetToldIs
  <2> QED
    BY <1>6, <2>1, PutChanges
<1>8. /\ c.session[s].state \notin {"CONNECTED", "DISCONNECTING"}
      /\ c.session[s].engine = "none" /\ c.session[s].cut = "NEVER"
      => Agrees(r)
  BY <1>4, <1>5 DEF SessionRecord, Agrees
<1>9. Linked(d, None) /\ Keeps(c, d, v) /\ (Agreed(c, s) /\ Agrees(r) => Agreed(d, None))
  BY <1>1, <1>3, <1>6, <1>7, EventTold
<1> QED
  BY <1>1, <1>8, <1>9

\* What is left of the record of a session whose channel is closed.
Ended(r) == IF r.state = "CONNECTED" THEN r ELSE [r EXCEPT !.state = "DISCONNECTED"]

\* A closed channel, and the event of a session that was connected.
LEMMA SecurityDisconnected ==
  ASSUME NEW c, Linked(c, None), NEW s \in Session, IsLive(c, s), NEW d \in securityDisconnect(c, s)
  PROVE  /\ Linked(d, None) /\ Keeps(c, d, c.session[s].owner)
         /\ Agreed(c, s) /\ Agrees(Ended(c.session[s])) => Agreed(d, None)
<1>1. c.session[s] \in SessionRecord /\ DOMAIN c.session = Session
  BY RecordIs DEF Linked, Context
<1>2. PICK e \in LoseChannel(c, s) :
        IF c.session[s].state = "CONNECTED" THEN d \in Disconnected(e, s) ELSE d = e
  BY DEF securityDisconnect, Then
<1>3. Linked(e, None)
  BY ChannelIsLost
<1>4. PICK r \in SessionRecord : Lost(c, e, s, r)
  BY ChannelIsLost
<1>5. e.session[s] = r /\ \A x \in Session \ {s} : e.session[x] = c.session[x]
  BY <1>1, <1>4 DEF Lost
<1>6. IsLive(e, s)
  BY <1>5, NoneIsNoRecord DEF IsLive
<1>7. Keeps(c, e, c.session[s].owner)
  BY <1>4, <1>5 DEF Keeps, Lost, IsLive
<1>8. Agreed(c, s) => Agreed(e, s)
  BY <1>5 DEF Agreed, IsLive
<1>9. CASE c.session[s].state = "CONNECTED"
  <2>1. d \in Disconnected(e, s)
    BY <1>2, <1>9
  <2>2. /\ Linked(d, None) /\ Keeps(e, d, e.session[s].owner)
        /\ /\ Agreed(e, s) /\ e.session[s].state \notin {"CONNECTED", "DISCONNECTING"}
           /\ e.session[s].engine = "none" /\ e.session[s].cut = "NEVER"
           => Agreed(d, None)
    BY <1>3, <1>6, <2>1, DisconnectedIs
  <2>3. r.owner = c.session[s].owner /\ r.state = "DISCONNECTED"
    BY <1>4 DEF Lost
  <2>4. Agrees(Ended(c.session[s])) => r.engine = "none" /\ r.cut = "NEVER"
    BY <1>4, <1>9 DEF Lost, Agrees, Ended
  <2> QED
    BY <1>5, <1>7, <1>8, <2>2, <2>3, <2>4, KeepsMore
<1>10. CASE c.session[s].state # "CONNECTED"
  <2>1. d = e
    BY <1>2, <1>10
  <2>2. Agrees(Ended(c.session[s])) => Agrees(r)
    <3>1. PICK q : q = Ended(c.session[s])
      OBVIOUS
    <3>2. /\ q.owner = c.session[s].owner /\ q.told = c.session[s].told /\ q.state = "DISCONNECTED"
          /\ q.engine = c.session[s].engine /\ q.cut = c.session[s].cut
      BY <1>1, <1>10, <3>1 DEF Ended, SessionRecord
    <3>3. /\ r.owner = c.session[s].owner /\ r.told = c.session[s].told /\ r.state = "DISCONNECTED"
          /\ r.engine = c.session[s].engine /\ r.cut = c.session[s].cut
      BY <1>4, <1>10 DEF Lost
    <3> QED
      BY <3>1, <3>2, <3>3 DEF Agrees
  <2>3. Agreed(e, s) /\ Agrees(r) => Agreed(e, None)
    BY <1>5, PutAgrees
  <2> QED
    BY <1>3, <1>7, <1>8, <1>10, <2>1, <2>2, <2>3
<1> QED
  BY <1>9, <1>10

-----------------------------------------------------------------------------
(* The bindings                                                            *)

\* What a step for the server v makes of the links and of the sessions.
Served(c, d, v) ==
  Linked(d, None) /\ Keeps(c, d, v) /\ (Agreed(c, None) => Agreed(d, None))

LEMMA ServedMore ==
  ASSUME NEW c, NEW d, NEW e, NEW v, Served(c, d, v), Served(d, e, v)
  PROVE  Served(c, e, v)
<1>1. Keeps(c, e, v)
  BY KeepsMore DEF Served
<1> QED
  BY <1>1 DEF Served

LEMMA ServedSame ==
  ASSUME NEW c, Linked(c, None), NEW v
  PROVE  Served(c, c, v)
  BY DEF Served, Keeps

LEMMA ChangedKeeps ==
  ASSUME NEW c, NEW d, NEW s \in Session, NEW r, Changed(c, d, s, r)
  PROVE  /\ Keeps(c, d, c.session[s].owner)
         /\ Agreed(c, None) => Agreed(c, s)
         /\ Agreed(c, s) => Agreed(d, s)
         /\ Agreed(d, s) /\ Agrees(r) => Agreed(d, None)
         /\ IsLive(c, s) /\ Agreed(c, None) => Agrees(c.session[s])
<1>1. Keeps(c, d, c.session[s].owner)
  BY DEF Changed, Keeps
<1>2. /\ Agreed(c, None) => Agreed(c, s)
      /\ Agreed(c, s) => Agreed(d, s)
      /\ IsLive(c, s) /\ Agreed(c, None) => Agrees(c.session[s])
  BY NoneIsOutside DEF Changed, Agreed
<1>3. Agreed(d, s) /\ Agrees(r) => Agreed(d, None)
  BY DEF Changed, Agreed
<1> QED
  BY <1>1, <1>2, <1>3

\* A record of the same session, of the state st and the engine e.
Of(r, c, s, st, e) ==
  /\ r \in SessionRecord /\ r.owner = c.session[s].owner /\ r.told = c.session[s].told
  /\ r.state = st /\ r.engine = e /\ r.cut = c.session[s].cut

LEMMA StateSet ==
  ASSUME NEW c, Linked(c, None), NEW s \in Session, IsLive(c, s), NEW st \in State,
         NEW d, d = SetState(c, s, st)
  PROVE  /\ Linked(d, None) /\ IsLive(d, s)
         /\ \E r \in SessionRecord : Changed(c, d, s, r) /\ Of(r, c, s, st, c.session[s].engine)
<1>1. c \in Context /\ c.session[s] \in SessionRecord
  BY RecordIs DEF Linked
<1>2. PICK r : r = [c.session[s] EXCEPT !.state = st]
  OBVIOUS
<1>3. r \in SessionRecord /\ r.owner = c.session[s].owner /\ r.channelP = c.session[s].channelP
  BY <1>1, <1>2 DEF SessionRecord
<1>4. Of(r, c, s, st, c.session[s].engine)
  BY <1>1, <1>2, <1>3 DEF SessionRecord, Of
<1>5. PICK e : e = d
  OBVIOUS
<1>6. Put(c, e, s, r)
  BY <1>1, <1>2, <1>5, SetStateIs
<1>7. Linked(e, None) /\ Changed(c, e, s, r)
  BY <1>3, <1>6, PutChanges
<1> QED
  BY <1>3, <1>4, <1>5, <1>7 DEF Changed

LEMMA EngineSet ==
  ASSUME NEW c, Linked(c, None), NEW s \in Session, IsLive(c, s), NEW g \in Engine,
         NEW d, d = SetEngine(c, s, g)
  PROVE  /\ Linked(d, None) /\ IsLive(d, s)
         /\ \E r \in SessionRecord : Changed(c, d, s, r) /\ Of(r, c, s, c.session[s].state, g)
<1>1. c \in Context /\ c.session[s] \in SessionRecord /\ 0 \in 0..MaxRetransmit
  BY RecordIs, RetransmitIsNat DEF Linked
<1>2. PICK r : r = [c.session[s] EXCEPT !.engine = g, !.tries = 0]
  OBVIOUS
<1>3. r \in SessionRecord /\ r.owner = c.session[s].owner /\ r.channelP = c.session[s].channelP
  BY <1>1, <1>2 DEF SessionRecord
<1>4. Of(r, c, s, c.session[s].state, g)
  BY <1>1, <1>2, <1>3 DEF SessionRecord, Of
<1>5. PICK e : e = d
  OBVIOUS
<1>6. Put(c, e, s, r)
  BY <1>1, <1>2, <1>5, SetEngineIs
<1>7. Linked(e, None) /\ Changed(c, e, s, r)
  BY <1>3, <1>6, PutChanges
<1> QED
  BY <1>3, <1>4, <1>5, <1>7 DEF Changed

\* The engine and the state of a session are set.
LEMMA BothSet ==
  ASSUME NEW c, Linked(c, None), NEW s \in Session, IsLive(c, s), NEW g \in Engine, NEW st \in State,
         NEW d, d = SetState(SetEngine(c, s, g), s, st)
  PROVE  /\ Linked(d, None) /\ IsLive(d, s)
         /\ \E r \in SessionRecord : Changed(c, d, s, r) /\ Of(r, c, s, st, g)
<1>1. PICK e : e = SetEngine(c, s, g)
  OBVIOUS
<1>2. Linked(e, None) /\ IsLive(e, s)
  BY <1>1, EngineSet
<1>3. PICK q \in SessionRecord : Changed(c, e, s, q) /\ Of(q, c, s, c.session[s].state, g)
  BY <1>1, EngineSet
<1>4. PICK f : f = d
  OBVIOUS
<1>5. f = SetState(e, s, st)
  BY <1>1, <1>4
<1>6. Linked(f, None) /\ IsLive(f, s)
  BY <1>2, <1>5, StateSet
<1>7. PICK r \in SessionRecord : Changed(e, f, s, r) /\ Of(r, e, s, st, e.session[s].engine)
  BY <1>2, <1>5, StateSet
<1>8. Changed(c, f, s, r) /\ Of(r, c, s, st, g)
  BY <1>3, <1>7 DEF Changed, Of
<1> QED
  BY <1>4, <1>6, <1>8

\* The library lets go of a session, and its peer is told.
LEMMA SessionEnds ==
  ASSUME NEW c, Linked(c, None), NEW s \in Session, IsLive(c, s), NEW st \in {"DISCONNECTED", "CONNECTION_FAILED"},
         c.session[s].state \in {"DISCONNECTED", "INIT_HANDSHAKE"} => c.session[s].engine = "none",
         NEW d \in Disconnected(SetState(iowa_user_security_disconnect(c, s), s, st), s)
  PROVE  Served(c, d, c.session[s].owner)
<1>1. PICK e : e = SetState(SetEngine(c, s, "none"), s, st)
  OBVIOUS
<1>2. "none" \in Engine /\ st \in State
  BY DEF Engine, State
<1>3. Linked(e, None) /\ IsLive(e, s)
  BY <1>1, <1>2, BothSet
<1>4. PICK r \in SessionRecord : Changed(c, e, s, r) /\ Of(r, c, s, st, "none")
  BY <1>1, <1>2, BothSet
<1>5. d \in Disconnected(e, s)
  BY <1>1 DEF iowa_user_security_disconnect
<1>6. /\ Linked(d, None) /\ Keeps(e, d, e.session[s].owner)
      /\ /\ Agreed(e, s) /\ e.session[s].state \notin {"CONNECTED", "DISCONNECTING"}
         /\ e.session[s].engine = "none" /\ e.session[s].cut = "NEVER"
         => Agreed(d, None)
  BY <1>3, <1>5, DisconnectedIs
<1>7. /\ e.session[s].owner = c.session[s].owner /\ e.session[s].state = st
      /\ e.session[s].engine = "none" /\ e.session[s].cut = c.session[s].cut
  BY <1>4 DEF Changed, Of
<1>8. /\ Keeps(c, e, c.session[s].owner)
      /\ Agreed(c, None) => Agreed(e, s) /\ Agrees(c.session[s])
  BY <1>4, ChangedKeeps
<1>9. Keeps(c, d, c.session[s].owner)
  BY <1>6, <1>7, <1>8, KeepsMore
<1>10. Agreed(c, None) => Agreed(d, None)
  BY <1>6, <1>7, <1>8 DEF Agrees
<1> QED
  BY <1>6, <1>8, <1>9, <1>10 DEF Served

LEMMA ConnectionFails ==
  ASSUME NEW c, Linked(c, None), NEW s \in Session, IsLive(c, s), NEW d \in prv_connectionFailing(c, s),
         c.session[s].state \in {"DISCONNECTED", "INIT_HANDSHAKE"} => c.session[s].engine = "none"
  PROVE  Served(c, d, c.session[s].owner)
<1>1. PICK st \in {"DISCONNECTED", "CONNECTION_FAILED"} : st = "CONNECTION_FAILED"
  OBVIOUS
<1>2. d \in Disconnected(SetState(iowa_user_security_disconnect(c, s), s, st), s)
  BY <1>1 DEF prv_connectionFailing
<1> QED
  BY <1>2, SessionEnds

\* A session that is connected now.
LEMMA SetConnected ==
  ASSUME NEW c, Linked(c, None), NEW s \in Session, IsLive(c, s),
         c.session[s].owner \notin Secure \/ c.session[s].state \in {"HANDSHAKING", "HANDSHAKE_DONE"},
         NEW d \in Connected(SetState(c, s, "CONNECTED"), s)
  PROVE  Served(c, d, c.session[s].owner)
<1>1. PICK e : e = SetState(c, s, "CONNECTED")
  OBVIOUS
<1>2. "CONNECTED" \in State
  BY DEF State
<1>3. Linked(e, None) /\ IsLive(e, s)
  BY <1>1, <1>2, StateSet
<1>4. PICK r \in SessionRecord : Changed(c, e, s, r) /\ Of(r, c, s, "CONNECTED", c.session[s].engine)
  BY <1>1, <1>2, StateSet
<1>5. d \in Connected(e, s)
  BY <1>1
<1>6. /\ Linked(d, None) /\ Keeps(e, d, e.session[s].owner)
      /\ /\ Agreed(e, s) /\ e.session[s].state = "CONNECTED"
         /\ e.session[s].owner \in Secure \/ e.session[s].engine = "none"
         /\ e.session[s].cut = "NEVER"
         => Agreed(d, None)
  BY <1>3, <1>5, ConnectedIs
<1>7. /\ e.session[s].owner = c.session[s].owner
      /\ e.session[s].state = "CONNECTED" /\ e.session[s].engine = c.session[s].engine
      /\ e.session[s].cut = c.session[s].cut
  BY <1>4 DEF Changed, Of
<1>8. /\ Keeps(c, e, c.session[s].owner)
      /\ Agreed(c, None) => Agreed(e, s) /\ Agrees(c.session[s])
  BY <1>4, ChangedKeeps
<1>9. Keeps(c, d, c.session[s].owner)
  BY <1>6, <1>7, <1>8, KeepsMore
<1>10. Agreed(c, None) => Agreed(d, None)
  BY <1>6, <1>7, <1>8 DEF Agrees
<1> QED
  BY <1>6, <1>9, <1>10 DEF Served

\* A session of a secure server whose handshake goes on: no other has a library.
LEMMA HandshakeOf ==
  ASSUME NEW c, NEW d, NEW s \in Session, IsLive(c, s), NEW r \in SessionRecord,
         Linked(d, None), Changed(c, d, s, r), NEW st, NEW g, Of(r, c, s, st, g),
         c.session[s].owner \in Secure \/ c.session[s].engine # "none",
         \/ st = c.session[s].state /\ st \in {"HANDSHAKING", "CONNECTED"}
         \/ c.session[s].state = "INIT_HANDSHAKE" /\ c.session[s].engine = "none" /\ st = "HANDSHAKING"
         \/ c.session[s].state = "HANDSHAKING" /\ st = "HANDSHAKE_DONE"
         \/ c.session[s].state = "CONNECTED" /\ st = "DISCONNECTING" /\ g = "closing"
  PROVE  Served(c, d, c.session[s].owner)
<1>1. /\ Keeps(c, d, c.session[s].owner)
      /\ Agreed(c, None) => Agreed(d, s) /\ Agrees(c.session[s])
      /\ Agreed(d, s) /\ Agrees(r) => Agreed(d, None)
  BY ChangedKeeps
<1>2. Agrees(c.session[s]) => Agrees(r)
  BY DEF Of, Agrees
<1> QED
  BY <1>1, <1>2 DEF Served

LEMMA RetransmittedIs ==
  ASSUME NEW c, Linked(c, None), NEW s \in Session, IsLive(c, s), NEW d \in Retransmitted(c, s)
  PROVE  /\ Linked(d, None) /\ IsLive(d, s)
         /\ \E r \in SessionRecord :
              /\ Changed(c, d, s, r) /\ r.engine \in {c.session[s].engine, "none"}
              /\ Of(r, c, s, c.session[s].state, r.engine)
<1>1. c \in Context /\ c.session[s] \in SessionRecord
  BY RecordIs DEF Linked
<1>2. CASE c.session[s].tries < MaxRetransmit /\ d = [c EXCEPT !.session[s].tries = @ + 1]
  <2>1. PICK q : q = c.session[s]
    OBVIOUS
  <2>2. q.tries + 1 \in 0..MaxRetransmit
    <3>1. q.tries \in 0..MaxRetransmit /\ q.tries < MaxRetransmit
      BY <1>1, <1>2, <2>1 DEF SessionRecord
    <3> QED
      BY <3>1, RetransmitIsNat
  <2>3. PICK r : r = [q EXCEPT !.tries = q.tries + 1]
    OBVIOUS
  <2>4. /\ r \in SessionRecord /\ r.owner = q.owner /\ r.channelP = q.channelP
        /\ r.told = q.told /\ r.state = q.state /\ r.engine = q.engine /\ r.cut = q.cut
    BY <1>1, <2>1, <2>2, <2>3 DEF SessionRecord
  <2>5. PICK e : e = d
    OBVIOUS
  <2>6. e = [c EXCEPT !.session[s] = r]
    BY <1>2, <2>1, <2>3, <2>5
  <2>7. Put(c, e, s, r)
    BY <1>1, <2>4, <2>6, PutIs
  <2>8. Linked(e, None) /\ Changed(c, e, s, r)
    BY <2>1, <2>4, <2>7, PutChanges
  <2>9. IsLive(e, s)
    BY <2>8 DEF Changed
  <2> QED
    BY <2>1, <2>4, <2>5, <2>8, <2>9 DEF Of
<1>3. CASE d = SetEngine(c, s, "none")
  <2>1. "none" \in Engine
    BY DEF Engine
  <2>2. Linked(d, None) /\ IsLive(d, s)
    BY <1>3, <2>1, EngineSet
  <2>3. PICK r \in SessionRecord : Changed(c, d, s, r) /\ Of(r, c, s, c.session[s].state, "none")
    BY <1>3, <2>1, EngineSet
  <2> QED
    BY <2>2, <2>3 DEF Of
<1> QED
  BY <1>2, <1>3 DEF Retransmitted

LEMMA HandshakeStarts ==
  ASSUME NEW c, Linked(c, None), NEW s \in Session, IsLive(c, s), c.session[s].owner \in Secure,
         c.session[s].state = "INIT_HANDSHAKE", c.session[s].engine = "none",
         NEW d, d = SetState(SetEngine(c, s, "handshake"), s, "HANDSHAKING")
  PROVE  Served(c, d, c.session[s].owner)
<1>1. "handshake" \in Engine /\ "HANDSHAKING" \in State
  BY DEF Engine, State
<1>2. PICK e : e = d
  OBVIOUS
<1>3. Linked(e, None)
  BY <1>1, <1>2, BothSet
<1>4. PICK r \in SessionRecord : Changed(c, e, s, r) /\ Of(r, c, s, "HANDSHAKING", "handshake")
  BY <1>1, <1>2, BothSet
<1>5. Served(c, e, c.session[s].owner)
  BY <1>3, <1>4, HandshakeOf
<1> QED
  BY <1>2, <1>5

LEMMA TinydtlsSteps ==
  ASSUME NEW c, Linked(c, None), NEW s \in Session, IsLive(c, s), c.session[s].owner \in Secure,
         NEW due \in BOOLEAN, NEW d \in TinydtlsStep(c, s, due)
  PROVE  Served(c, d, c.session[s].owner)
<1>1. CASE /\ c.session[s].state = "INIT_HANDSHAKE" /\ c.session[s].engine = "none"
           /\ d \in {SetState(SetEngine(c, s, "handshake"), s, "HANDSHAKING")}
                    \cup May("dtls", prv_connectionFailing(c, s))
  BY <1>1, HandshakeStarts, ConnectionFails DEF May
<1>2. CASE c.session[s].state = "HANDSHAKING" /\ d \in prv_connectionFailing(c, s)
  BY <1>2, ConnectionFails
<1>3. CASE c.session[s].state = "HANDSHAKING" /\ d \in Connected(SetState(c, s, "CONNECTED"), s)
  BY <1>3, SetConnected
<1>4. CASE c.session[s].state = "HANDSHAKING" /\ d \in Retransmitted(c, s)
  <2>1. Linked(d, None)
    BY <1>4, RetransmittedIs
  <2>2. PICK r \in SessionRecord : Changed(c, d, s, r) /\ Of(r, c, s, "HANDSHAKING", r.engine)
    BY <1>4, RetransmittedIs
  <2> QED
    BY <1>4, <2>1, <2>2, HandshakeOf
<1>5. CASE d = c
  BY <1>5, ServedSame
<1> QED
  BY <1>1, <1>2, <1>3, <1>4, <1>5 DEF TinydtlsStep

LEMMA MbedtlsConnects ==
  ASSUME NEW c, Linked(c, None), NEW s \in Session, IsLive(c, s), c.session[s].owner \in Secure,
         c.session[s].state = "HANDSHAKING",
         NEW due \in BOOLEAN, NEW d \in prv_mbedtlsConnect(c, s, due)
  PROVE  Served(c, d, c.session[s].owner)
<1>1. CASE ~due
  BY <1>1, ServedSame DEF prv_mbedtlsConnect
<1>2. CASE due
  <2>1. PICK e \in Retransmitted(c, s) :
          d \in IF e.session[s].engine = "none" THEN prv_connectionFailing(e, s) ELSE {e}
    BY <1>2 DEF prv_mbedtlsConnect, Then
  <2>2. Linked(e, None) /\ IsLive(e, s)
    BY RetransmittedIs
  <2>3. PICK r \in SessionRecord : Changed(c, e, s, r) /\ Of(r, c, s, "HANDSHAKING", r.engine)
    BY RetransmittedIs
  <2>4. /\ Served(c, e, c.session[s].owner) /\ e.session[s].owner = c.session[s].owner
        /\ e.session[s].state = "HANDSHAKING"
    BY <2>2, <2>3, HandshakeOf DEF Changed, Of
  <2>5. CASE d = e
    BY <2>4, <2>5
  <2>6. CASE d \in prv_connectionFailing(e, s)
    <3>1. Served(e, d, e.session[s].owner)
      BY <2>2, <2>4, <2>6, ConnectionFails
    <3> QED
      BY <2>4, <3>1, ServedMore
  <2> QED
    BY <2>1, <2>5, <2>6
<1> QED
  BY <1>1, <1>2

LEMMA MbedtlsSteps ==
  ASSUME NEW c, Linked(c, None), NEW s \in Session, IsLive(c, s), c.session[s].owner \in Secure,
         NEW due \in BOOLEAN, NEW d \in MbedtlsStep(c, s, due)
  PROVE  Served(c, d, c.session[s].owner)
<1>1. CASE /\ c.session[s].state = "DISCONNECTING"
           /\ d \in Disconnected(SetState(iowa_user_security_disconnect(c, s), s, "DISCONNECTED"), s)
  <2>1. PICK st \in {"DISCONNECTED", "CONNECTION_FAILED"} : st = "DISCONNECTED"
    OBVIOUS
  <2> QED
    BY <1>1, <2>1, SessionEnds
<1>2. CASE /\ c.session[s].state = "INIT_HANDSHAKE" /\ c.session[s].engine = "none"
           /\ d \in {SetState(SetEngine(c, s, "handshake"), s, "HANDSHAKING")}
                    \cup May("dtls", prv_connectionFailing(c, s))
  BY <1>2, HandshakeStarts, ConnectionFails DEF May
<1>3. CASE c.session[s].state = "HANDSHAKING" /\ d \in prv_mbedtlsConnect(c, s, due)
  BY <1>3, MbedtlsConnects
<1>4. CASE c.session[s].state = "HANDSHAKE_DONE" /\ d \in Connected(SetState(c, s, "CONNECTED"), s)
  BY <1>4, SetConnected
<1>5. CASE d = c
  BY <1>5, ServedSame
<1> QED
  BY <1>1, <1>2, <1>3, <1>4, <1>5 DEF MbedtlsStep

-----------------------------------------------------------------------------
(* Incoming data                                                           *)

LEMMA EngineMoves ==
  ASSUME NEW c, Linked(c, None), NEW s \in Session, IsLive(c, s),
         c.session[s].owner \in Secure \/ c.session[s].engine # "none",
         c.session[s].state \in {"HANDSHAKING", "CONNECTED"}, NEW g \in Engine,
         NEW d, d = SetEngine(c, s, g)
  PROVE  Served(c, d, c.session[s].owner)
<1>1. PICK e : e = d
  OBVIOUS
<1>2. Linked(e, None)
  BY <1>1, EngineSet
<1>3. PICK r \in SessionRecord : Changed(c, e, s, r) /\ Of(r, c, s, c.session[s].state, g)
  BY <1>1, EngineSet
<1>4. Served(c, e, c.session[s].owner)
  BY <1>2, <1>3, HandshakeOf
<1> QED
  BY <1>1, <1>4

\* A packet of a handshake: only the library of a secure session has one.
LEMMA HandshakePacket ==
  ASSUME NEW c, Linked(c, None), NEW s \in Session, IsLive(c, s), c.session[s].state = "HANDSHAKING",
         NEW d \in TinydtlsPacket(c, s) \cup MbedtlsPacket(c, s)
  PROVE  Served(c, d, c.session[s].owner)
<1>1. CASE d = c
  BY <1>1, ServedSame
<1>2. CASE d \in prv_connectionFailing(c, s)
  BY <1>2, ConnectionFails
<1>3. CASE c.session[s].engine = "handshake" /\ \E g \in {"connected", "closing", "none"} : d = SetEngine(c, s, g)
  BY <1>3, EngineMoves DEF Engine
<1>4. CASE c.session[s].engine = "handshake" /\ d = SetState(SetEngine(c, s, "connected"), s, "HANDSHAKE_DONE")
  <2>1. "connected" \in Engine /\ "HANDSHAKE_DONE" \in State
    BY DEF Engine, State
  <2>2. PICK e : e = d
    OBVIOUS
  <2>3. Linked(e, None)
    BY <1>4, <2>1, <2>2, BothSet
  <2>4. PICK r \in SessionRecord : Changed(c, e, s, r) /\ Of(r, c, s, "HANDSHAKE_DONE", "connected")
    BY <1>4, <2>1, <2>2, BothSet
  <2>5. Served(c, e, c.session[s].owner)
    BY <1>4, <2>3, <2>4, HandshakeOf
  <2> QED
    BY <2>2, <2>5
<1> QED
  BY <1>1, <1>2, <1>3, <1>4 DEF TinydtlsPacket, MbedtlsPacket

LEMMA WithoutServed ==
  ASSUME NEW c, NEW d, NEW v, Without(c, d, v)
  PROVE  Served(c, d, v)
<1>1. PICK but : but = None
  OBVIOUS
<1>2. Linked(d, None) /\ Keeps(c, d, v) /\ (Agreed(c, but) => Agreed(d, None))
  BY <1>1, WithoutKeeps, NoneIsOutside
<1> QED
  BY <1>1, <1>2 DEF Served

LEMMA DataArrives ==
  ASSUME NEW c, Linked(c, None), NEW s \in Session, IsLive(c, s), NEW d \in CommData(c, s)
  PROVE  Served(c, d, c.session[s].owner)
<1>1. CASE c.session[s].state = "HANDSHAKING" /\ d \in TinydtlsPacket(c, s) \cup MbedtlsPacket(c, s)
  BY <1>1, HandshakePacket
<1>2. CASE d = c
  BY <1>2, ServedSame
<1>3. CASE c.session[s].state = "CONNECTED" /\ c.session[s].owner \in Secure /\ d = SetEngine(c, s, "none")
  BY <1>3, EngineMoves DEF Engine
<1>4. CASE c.session[s].state = "CONNECTED" /\ c.session[s].owner \in Secure 
                /\ d = SetState(SetEngine(c, s, "closing"), s, "DISCONNECTING")
  <2>1. "closing" \in Engine /\ "DISCONNECTING" \in State
    BY DEF Engine, State
  <2>2. PICK e : e = d
    OBVIOUS
  <2>3. Linked(e, None)
    BY <1>4, <2>1, <2>2, BothSet
  <2>4. PICK r \in SessionRecord : Changed(c, e, s, r) /\ Of(r, c, s, "DISCONNECTING", "closing")
    BY <1>4, <2>1, <2>2, BothSet
  <2>5. Served(c, e, c.session[s].owner)
    BY <1>4, <2>3, <2>4, HandshakeOf
  <2> QED
    BY <2>2, <2>5
<1>5. CASE d \in prv_serverRegistrationFailing(c, c.session[s].owner)
  <2>1. c.session[s].owner \in Server
    BY RecordIs DEF Linked, SessionRecord
  <2> QED
    BY <1>5, <2>1, RegistrationFailing, WithoutServed
<1> QED
  BY <1>1, <1>2, <1>3, <1>4, <1>5
  DEF CommData, DataAvailable, securityRecv, Secured, TinydtlsClosed, MbedtlsClosed

-----------------------------------------------------------------------------
(* Connecting                                                              *)

Joined(c, d) == Linked(d, None) /\ (Agreed(c, None) => Agreed(d, None))

LEMMA ChannelMade ==
  ASSUME NEW c, Linked(c, None), NEW s \in Session, IsLive(c, s), c.session[s].channelP = None,
         NEW k \in Conn \ c.open,
         NEW d, d = ChannelAdded(c, s, k)
  PROVE  /\ Joined(c, d) /\ IsLive(d, s) /\ d.peer = c.peer
         /\ d.session[s].state = c.session[s].state
<1>1. c \in Context /\ c.session[s] \in SessionRecord /\ DOMAIN c.session = Session
  BY RecordIs DEF Linked, Context
<1>2. PICK q : q = c.session[s]
  OBVIOUS
<1>3. PICK r : r = [q EXCEPT !.channelP = k]
  OBVIOUS
<1>4. /\ r \in SessionRecord /\ r.owner = q.owner /\ r.channelP = k
      /\ r.told = q.told /\ r.state = q.state /\ r.engine = q.engine /\ r.cut = q.cut
  BY <1>1, <1>2, <1>3 DEF SessionRecord
<1>5. PICK own : own = [connP |-> k, userData |-> s]
  OBVIOUS
<1>6. own \in Channel /\ own.connP = k /\ own.userData = s
  BY <1>5 DEF Channel
<1>7. PICK list : list = c.channelArray
  OBVIOUS
<1>8. PICK longer : longer = Append(list, own)
  OBVIOUS
<1>9. list \in Seq(Channel)
  BY <1>1, <1>7 DEF Context
<1>10. /\ longer \in Seq(Channel) /\ Len(longer) = Len(list) + 1 /\ Len(list) \in Nat
       /\ longer[Len(list) + 1] = own /\ \A i \in 1..Len(list) : longer[i] = list[i]
  BY <1>6, <1>8, <1>9, AppendProperties, LenProperties
<1>11. PICK e : e = d
  OBVIOUS
<1>12. /\ e \in Context /\ e.session = [c.session EXCEPT ![s] = r]
       /\ e.channelArray = longer /\ e.open = c.open \cup {k}
       /\ e.sessionList = c.sessionList /\ e.peer = c.peer /\ e.status = c.status
  BY <1>1, <1>2, <1>3, <1>4, <1>5, <1>7, <1>8, <1>10, <1>11 DEF ChannelAdded, Context
<1>13. e.session[s] = r /\ \A x \in Session \ {s} : e.session[x] = c.session[x]
  BY <1>1, <1>12
<1>14. \A x \in Session : IsLive(e, x) <=> IsLive(c, x)
  BY <1>4, <1>13, NoneIsNoRecord DEF IsLive
<1>15. ListInv(e)
  BY <1>12, <1>14 DEF Linked, ListInv
<1>16. PeerInv(e, None)
  <2>1. \A x \in Session : e.session[x].owner = c.session[x].owner
    BY <1>2, <1>4, <1>13
  <2>2. c.peer \in [Server -> Session \cup {None}]
    BY <1>1 DEF Context
  <2> QED
    BY <1>12, <1>14, <2>1, <2>2 DEF Linked, PeerInv
<1>17. ASSUME ChannelInv(c) PROVE ChannelInv(e)
  <2>1. DOMAIN list = 1..Len(list) /\ DOMAIN longer = 1..(Len(list) + 1)
    BY <1>9, <1>10, LenProperties
  <2>2. Channels(e) = Channels(c) \cup {own}
    BY <1>7, <1>10, <1>12, <2>1 DEF Channels
  <2>3. \A ch \in Channels(c) : ch.connP # k /\ ch.userData \in Session \ {s}
    BY <1>1, <1>17, ChannelsAre, NoneIsOutside DEF ChannelInv
  <2>4. \A ch \in Channels(e) : IsLive(e, ch.userData) /\ e.session[ch.userData].channelP = ch.connP
    BY <1>4, <1>6, <1>13, <1>14, <1>17, <2>2, <2>3 DEF ChannelInv
  <2>5. \A i, j \in DOMAIN longer : longer[i].connP = longer[j].connP => i = j
    <3>1. \A i \in DOMAIN list : longer[i] = list[i] /\ longer[i].connP # k
      BY <1>7, <1>10, <2>1, <2>3 DEF Channels
    <3>2. \A i, j \in DOMAIN list : longer[i].connP = longer[j].connP => i = j
      BY <1>7, <1>17, <3>1 DEF ChannelInv
    <3>3. \A i \in DOMAIN longer : i \in DOMAIN list \/ i = Len(list) + 1
      BY <1>10, <2>1
    <3> QED
      BY <1>6, <1>10, <3>1, <3>2, <3>3
  <2>6. \A x \in Session : IsLive(e, x) /\ e.session[x].channelP # None =>
          [connP |-> e.session[x].channelP, userData |-> x] \in Channels(e)
    BY <1>4, <1>5, <1>13, <1>14, <1>17, <2>2 DEF ChannelInv
  <2>7. e.open = {ch.connP : ch \in Channels(e)}
    BY <1>6, <1>12, <1>17, <2>2 DEF ChannelInv
  <2> QED
    BY <1>12, <2>4, <2>5, <2>6, <2>7 DEF ChannelInv
<1>18. Linked(e, None)
  BY <1>12, <1>15, <1>16, <1>17 DEF Linked
<1>19. Agreed(c, None) => Agreed(e, None)
  BY <1>2, <1>4, <1>13, <1>14, NoneIsOutside DEF Agreed, Agrees
<1> QED
  BY <1>2, <1>4, <1>11, <1>12, <1>13, <1>14, <1>18, <1>19 DEF Joined

LEMMA NewSessionIs ==
  ASSUME NEW v \in Server
  PROVE  /\ NewSession(v) \in SessionRecord /\ NewSession(v).owner = v /\ NewSession(v).channelP = None
         /\ Agrees(NewSession(v))
<1>1. 0 \in 0..MaxRetransmit
  BY RetransmitIsNat
<1> QED
  BY <1>1 DEF NewSession, SessionRecord, State, Engine, Agrees

\* A new session, which nobody points to yet.
LEMMA SessionMade ==
  ASSUME NEW c, Linked(c, None), NEW v \in Server, NEW s \in Session \ Live(c),
         NEW d, d = SessionAdded(c, s, v)
  PROVE  /\ Linked(d, s) /\ d.session = [c.session EXCEPT ![s] = NewSession(v)]
         /\ Head(d.sessionList) = s /\ d.sessionList # c.sessionList /\ d.peer = c.peer
<1>1. c \in Context /\ DOMAIN c.session = Session /\ ~IsLive(c, s)
  BY DEF Linked, Context, Live, IsLive
<1>2. PICK r \in SessionRecord : r = NewSession(v)
  BY NewSessionIs
<1>3. r.channelP = None /\ r # None
  BY <1>2, NewSessionIs, NoneIsNoRecord
<1>4. PICK list : list = c.sessionList
  OBVIOUS
<1>5. list \in Seq(Session) /\ Distinct(list) /\ s \notin ToSet(list)
  BY <1>1, <1>4 DEF Linked, ListInv, Context
<1>6. PICK longer : longer = <<s>> \o list
  OBVIOUS
<1>7. /\ longer \in Seq(Session) /\ Len(longer) = Len(list) + 1 /\ Len(list) \in Nat
      /\ longer[1] = s /\ ToSet(longer) = ToSet(list) \cup {s} /\ Distinct(longer)
  BY <1>5, <1>6, AddHeadProperties, LenProperties
<1>8. Head(longer) = s /\ longer # list
  BY <1>7
<1>9. PICK e : e = d
  OBVIOUS
<1>10. /\ e \in Context /\ e.session = [c.session EXCEPT ![s] = r] /\ e.sessionList = longer
       /\ e.channelArray = c.channelArray /\ e.open = c.open /\ e.peer = c.peer
  BY <1>1, <1>2, <1>4, <1>6, <1>7, <1>9 DEF SessionAdded, Context
<1>11. IsLive(e, s) /\ \A x \in Session \ {s} : e.session[x] = c.session[x]
  BY <1>1, <1>3, <1>10 DEF IsLive
<1>12. ListInv(e)
  BY <1>4, <1>7, <1>10, <1>11 DEF Linked, ListInv, IsLive
<1>13. PeerInv(e, s)
  <2>1. c.peer \in [Server -> Session \cup {None}] /\ PeerInv(c, None)
    BY <1>1 DEF Context, Linked
  <2>2. \A w \in Server : e.peer[w] # None =>
          e.peer[w] # s /\ IsLive(e, e.peer[w]) /\ e.session[e.peer[w]].owner = w
    <3> SUFFICES ASSUME NEW w \in Server, e.peer[w] # None
                 PROVE  e.peer[w] # s /\ IsLive(e, e.peer[w]) /\ e.session[e.peer[w]].owner = w
      OBVIOUS
    <3>1. PICK x \in Session : x = c.peer[w]
      BY <1>10, <2>1
    <3>2. IsLive(c, x) /\ c.session[x].owner = w
      BY <1>10, <2>1, <3>1 DEF PeerInv
    <3>3. x # s
      BY <1>1, <3>2
    <3> QED
      BY <1>10, <1>11, <3>1, <3>2, <3>3 DEF IsLive
  <2>3. \A x \in Session : IsLive(e, x) /\ x # s => e.peer[e.session[x].owner] = x
    BY <1>10, <1>11, <2>1, NoneIsOutside DEF PeerInv, IsLive
  <2> QED
    BY <2>2, <2>3 DEF PeerInv
<1>14. ASSUME ChannelInv(c) PROVE ChannelInv(e)
  <2>1. Channels(e) = Channels(c)
    BY <1>10 DEF Channels
  <2>2. \A ch \in Channels(c) : ch.userData \in Session \ {s}
    BY <1>1, <1>14, ChannelsAre DEF ChannelInv
  <2> QED
    BY <1>3, <1>10, <1>11, <1>14, <2>1, <2>2 DEF ChannelInv, IsLive
<1>15. Linked(e, s)
  BY <1>10, <1>12, <1>13, <1>14 DEF Linked
<1> QED
  BY <1>2, <1>4, <1>8, <1>9, <1>10, <1>15

\* The new session gets the peer of v.
LEMMA PeerMade ==
  ASSUME NEW c, NEW s \in Session, Linked(c, s), IsLive(c, s), NEW v \in Server,
         c.session[s].owner = v, c.peer[v] = None,
         NEW d, d = [c EXCEPT !.peer[v] = s]
  PROVE  Linked(d, None) /\ d.session = c.session /\ d.peer[v] = s
<1>1. c \in Context /\ c.peer \in [Server -> Session \cup {None}]
  BY DEF Linked, Context
<1>2. PICK e : e = d
  OBVIOUS
<1>3. /\ e \in Context /\ e.session = c.session /\ e.sessionList = c.sessionList
      /\ e.channelArray = c.channelArray /\ e.open = c.open
      /\ e.peer = [c.peer EXCEPT ![v] = s]
  BY <1>1, <1>2 DEF Context
<1>4. ListInv(e) /\ (ChannelInv(c) => ChannelInv(e))
  BY <1>3 DEF Linked, ListInv, ChannelInv, Channels, IsLive
<1>5. e.peer[v] = s /\ \A w \in Server \ {v} : e.peer[w] = c.peer[w]
  BY <1>1, <1>3
<1>6. PeerInv(c, s)
  BY DEF Linked
<1>7. \A x \in Session : IsLive(e, x) <=> IsLive(c, x)
  BY <1>3 DEF IsLive
<1>8. \A w \in Server : e.peer[w] # None => IsLive(e, e.peer[w]) /\ e.session[e.peer[w]].owner = w
  <2> SUFFICES ASSUME NEW w \in Server, e.peer[w] # None
               PROVE  IsLive(e, e.peer[w]) /\ e.session[e.peer[w]].owner = w
    OBVIOUS
  <2>1. CASE w = v
    BY <1>3, <1>5, <1>7, <2>1
  <2>2. CASE w # v
    <3>1. c.peer[w] # None /\ e.peer[w] = c.peer[w]
      BY <1>5, <2>2
    <3>2. IsLive(c, c.peer[w]) /\ c.session[c.peer[w]].owner = w
      BY <1>6, <3>1 DEF PeerInv
    <3> QED
      BY <1>3, <3>1, <3>2 DEF IsLive
  <2> QED
    BY <2>1, <2>2
<1>9. \A x \in Session : IsLive(e, x) => e.peer[e.session[x].owner] = x
  <2> SUFFICES ASSUME NEW x \in Session, IsLive(e, x)
               PROVE  e.peer[e.session[x].owner] = x
    OBVIOUS
  <2>1. CASE x = s
    BY <1>3, <1>5, <2>1
  <2>2. CASE x # s
    <3>1. c.peer[c.session[x].owner] = x /\ x # None
      BY <1>6, <1>7, <2>2, NoneIsOutside DEF PeerInv
    <3>2. c.session[x].owner \in Server \ {v}
      <4>1. c.session[x] \in SessionRecord
        BY <1>1, <1>7, RecordIs
      <4> QED
        BY <3>1, <4>1 DEF SessionRecord
    <3> QED
      BY <1>3, <1>5, <3>1, <3>2
  <2> QED
    BY <2>1, <2>2
<1>10. PeerInv(e, None)
  BY <1>8, <1>9 DEF PeerInv
<1> QED
  BY <1>2, <1>3, <1>4, <1>5, <1>10 DEF Linked

LEMMA PeerCreated ==
  ASSUME NEW c, Linked(c, None), NEW v \in Server, c.peer[v] = None, NEW d \in coapPeerCreate(c, v)
  PROVE  Joined(c, d)
<1>1. CASE d = c
  BY <1>1 DEF Joined
<1>2. CASE \E e \in securityClientNewSession(c, v) :
             /\ e # c
             /\ \/ d = [e EXCEPT !.peer[v] = Head(e.sessionList)]
                \/ d = securityDeleteSession(e, Head(e.sessionList))
  <2>1. PICK e \in securityClientNewSession(c, v) :
          /\ e # c
          /\ \/ d = [e EXCEPT !.peer[v] = Head(e.sessionList)]
             \/ d = securityDeleteSession(e, Head(e.sessionList))
    BY <1>2
  <2>2. PICK s \in Session \ Live(c) : e = SessionAdded(c, s, v)
    <3> DEFINE Outcome(made) ==
                 IF made THEN {SessionAdded(c, s, v) : s \in Session \ Live(c)} ELSE {c}
               All == UNION {Outcome(made) : made \in UserCreate(v)}
    <3>1. \A made : e \in Outcome(made) =>
            e = c \/ \E s \in Session \ Live(c) : e = SessionAdded(c, s, v)
      BY Zenon
    <3>2. e \in IF ~(program.mode[v] = "NONE" <=> v \notin Secure) THEN {c}
               ELSE May("create", {c}) \cup All
      BY <2>1 DEF securityClientNewSession
    <3> HIDE DEF Outcome
    <3>3. e \in All => \E made : e \in Outcome(made)
      OBVIOUS
    <3> HIDE DEF All
    <3>4. e \in All
      BY <2>1, <3>2 DEF May
    <3> QED
      BY <2>1, <3>1, <3>3, <3>4, Zenon
  <2>3. PICK f : f = e
    OBVIOUS
  <2>4. /\ Linked(f, s) /\ f.session = [c.session EXCEPT ![s] = NewSession(v)]
        /\ Head(f.sessionList) = s /\ f.peer = c.peer
    BY <2>2, <2>3, SessionMade
  <2>5. DOMAIN c.session = Session /\ c.session[s] = None
    BY <2>2 DEF Linked, Context, Live
  <2>6. f.session[s] = NewSession(v) /\ \A x \in Session \ {s} : f.session[x] = c.session[x]
    BY <2>4, <2>5
  <2>7. IsLive(f, s) /\ f.session[s].owner = v /\ f.session[s].channelP = None
    BY <2>6, NewSessionIs, NoneIsNoRecord DEF IsLive
  <2>8. CASE d = [f EXCEPT !.peer[v] = s]
    <3>1. PICK g : g = d
      OBVIOUS
    <3>2. Linked(g, None) /\ g.session = f.session
      <4>1. Linked(f, s) /\ f.peer[v] = None /\ g = [f EXCEPT !.peer[v] = s]
        BY <2>4, <2>8, <3>1
      <4> QED
        BY <2>7, <4>1, PeerMade
    <3>3. Agreed(c, None) => Agreed(g, None)
      BY <2>6, <3>2, NewSessionIs, NoneIsOutside DEF Agreed, IsLive
    <3> QED
      BY <3>1, <3>2, <3>3 DEF Joined
  <2>9. CASE d = securityDeleteSession(f, s)
    <3>1. PICK g : g = d
      OBVIOUS
    <3>2. Linked(g, None) /\ g.session = [f.session EXCEPT ![s] = None]
      <4>1. Linked(f, s) /\ g = securityDeleteSession(f, s)
        BY <2>4, <2>9, <3>1
      <4> QED
        BY <2>7, <4>1, SessionDeleted
    <3>3. \A x \in Session : g.session[x] = c.session[x]
      BY <2>4, <2>5, <2>6, <3>2
    <3>4. Agreed(c, None) => Agreed(g, None)
      BY <3>3 DEF Agreed, IsLive
    <3> QED
      BY <3>1, <3>2, <3>4 DEF Joined
  <2> QED
    BY <2>1, <2>3, <2>4, <2>8, <2>9
<1> QED
  BY <1>1, <1>2 DEF coapPeerCreate, May

LEMMA ServedJoins ==
  ASSUME NEW c, NEW d, NEW v, Served(c, d, v)
  PROVE  Joined(c, d)
  BY DEF Served, Joined

LEMMA JoinedMore ==
  ASSUME NEW c, NEW d, NEW e, Joined(c, d), Joined(d, e)
  PROVE  Joined(c, e)
  BY DEF Joined

LEMMA ChannelCreated ==
  ASSUME NEW c, Linked(c, None), NEW s \in Session, IsLive(c, s), c.session[s].channelP = None,
         NEW d \in commChannelCreate(c, s)
  PROVE  /\ Joined(c, d) /\ IsLive(d, s) /\ d.peer = c.peer
         /\ d.session[s].state = c.session[s].state
<1>1. CASE d = c
  BY <1>1 DEF Joined
<1>2. CASE \E k \in Conn \ c.open : d = ChannelAdded(c, s, k)
  <2>1. PICK k \in Conn \ c.open : d = ChannelAdded(c, s, k)
    BY <1>2
  <2> QED
    BY <2>1, ChannelMade
<1>3. d = c \/ \E k \in Conn \ c.open : d = ChannelAdded(c, s, k)
  <2> DEFINE Outcome(k, made) == IF k # None /\ made THEN {ChannelAdded(c, s, k)} ELSE {c}
  <2>1. \A k, made : d \in Outcome(k, made) => d = c \/ (k # None /\ d = ChannelAdded(c, s, k))
    BY Zenon
  <2>2. d \in UNION {Outcome(k, made) : k \in iowa_system_connection_open(c), made \in prv_channelNew}
    BY DEF commChannelCreate
  <2> HIDE DEF Outcome
  <2>3. \E k \in iowa_system_connection_open(c) : \E made : d \in Outcome(k, made)
    BY <2>2
  <2> QED
    BY <2>1, <2>3 DEF iowa_system_connection_open, May
<1> QED
  BY <1>1, <1>2, <1>3

LEMMA SecurityConnects ==
  ASSUME NEW c, Linked(c, None), NEW s \in Session, IsLive(c, s), NEW d \in securityConnect(c, s)
  PROVE  Joined(c, d)
<1>1. PICK e : /\ e \in IF c.session[s].channelP = None THEN commChannelCreate(c, s) ELSE {c}
               /\ \/ d = e
                  \/ d = SetState(e, s, "INIT_HANDSHAKE") /\ e.session[s].state = "DISCONNECTED"
                  \/ d \in Connected(SetState(e, s, "CONNECTED"), s) /\ e.session[s].owner \notin Secure
  BY DEF securityConnect, Then, Secured
<1>2. Joined(c, e) /\ IsLive(e, s)
  BY <1>1, ChannelCreated DEF Joined
<1>3. Linked(e, None)
  BY <1>2 DEF Joined
<1>4. CASE d = e
  BY <1>2, <1>4
<1>5. CASE d = SetState(e, s, "INIT_HANDSHAKE") /\ e.session[s].state = "DISCONNECTED"
  <2>1. "INIT_HANDSHAKE" \in State
    BY DEF State
  <2>2. PICK f : f = d
    OBVIOUS
  <2>3. Linked(f, None)
    BY <1>2, <1>3, <1>5, <2>1, <2>2, StateSet
  <2>4. PICK r \in SessionRecord :
          Changed(e, f, s, r) /\ Of(r, e, s, "INIT_HANDSHAKE", e.session[s].engine)
    BY <1>2, <1>3, <1>5, <2>1, <2>2, StateSet
  <2>5. /\ Agreed(e, None) => Agreed(f, s) /\ Agrees(e.session[s])
        /\ Agreed(f, s) /\ Agrees(r) => Agreed(f, None)
    BY <1>2, <2>4, ChangedKeeps
  <2>6. Agrees(e.session[s]) => Agrees(r)
    BY <1>5, <2>4 DEF Of, Agrees
  <2> QED
    BY <1>2, <2>2, <2>3, <2>5, <2>6 DEF Joined
<1>6. CASE d \in Connected(SetState(e, s, "CONNECTED"), s) /\ e.session[s].owner \notin Secure
  <2>1. Served(e, d, e.session[s].owner)
    BY <1>2, <1>3, <1>6, SetConnected
  <2> QED
    BY <1>2, <2>1, ServedJoins, JoinedMore
<1> QED
  BY <1>1, <1>4, <1>5, <1>6

LEMMA StatusJoins ==
  ASSUME NEW c, Linked(c, None), NEW v \in Server, NEW st \in Status
  PROVE  Joined(c, SetStatus(c, v, st))
<1>1. PICK d : d = SetStatus(c, v, st)
  OBVIOUS
<1>2. Linked(d, None) /\ d.session = c.session
  BY <1>1, StatusSet
<1> QED
  BY <1>1, <1>2 DEF Joined, Agreed, IsLive

LEMMA UnconnectedJoins ==
  ASSUME NEW c, Linked(c, None), NEW v \in Server, NEW d \in Unconnected(c, v)
  PROVE  Joined(c, d)
<1>1. PICK e \in coapPeerDelete(c, v) : d = e \/ d = SetStatus(e, v, "FAILED")
  BY DEF Unconnected
<1>2. Joined(c, e)
  BY <1>1, PeerDeleted, WithoutServed, ServedJoins
<1>3. Linked(e, None) /\ "FAILED" \in Status
  BY <1>2 DEF Joined, Status
<1>4. Joined(e, SetStatus(e, v, "FAILED"))
  BY <1>3, StatusJoins
<1> QED
  BY <1>1, <1>2, <1>4, JoinedMore

LEMMA ServerConnects ==
  ASSUME NEW c, Linked(c, None), NEW v \in Server, NEW d \in prv_initiateServerConnection(c, v)
  PROVE  Joined(c, d)
<1>1. PICK p \in (IF c.peer[v] = None THEN coapPeerCreate(c, v) ELSE {c}) :
        \/ d \in Unconnected(p, v)
        \/ p.peer[v] # None /\ \E e \in securityConnect(p, p.peer[v]) : d = e \/ d \in Unconnected(e, v)
  BY DEF prv_initiateServerConnection, Then
<1>2. Joined(c, p)
  BY <1>1, PeerCreated DEF Joined
<1>3. Linked(p, None)
  BY <1>2 DEF Joined
<1>4. CASE d \in Unconnected(p, v)
  BY <1>2, <1>3, <1>4, UnconnectedJoins, JoinedMore
<1>5. CASE p.peer[v] # None /\ \E e \in securityConnect(p, p.peer[v]) : d = e \/ d \in Unconnected(e, v)
  <2>1. PICK s \in Session : s = p.peer[v] /\ IsLive(p, s)
    BY <1>3, <1>5 DEF Linked, PeerInv, Context
  <2>2. PICK e \in securityConnect(p, s) : d = e \/ d \in Unconnected(e, v)
    BY <1>5, <2>1
  <2>3. Joined(p, e)
    BY <1>3, <2>1, <2>2, SecurityConnects
  <2>4. Linked(e, None)
    BY <2>3 DEF Joined
  <2>5. Joined(e, d)
    BY <2>2, <2>4, UnconnectedJoins DEF Joined
  <2> QED
    BY <1>2, <2>3, <2>5, JoinedMore
<1> QED
  BY <1>1, <1>4, <1>5

-----------------------------------------------------------------------------
(* The steps                                                               *)

LEMMA NoChannels ==
  ASSUME NEW c, c.channelArray = << >>
  PROVE  Channels(c) = {}
  BY DEF Channels

LEMMA InitInv == Init => SessionInv
<1> SUFFICES ASSUME Init PROVE SessionInv
  OBVIOUS
<1>1. PICK c : c = ctx
  OBVIOUS
<1>2. /\ c.sessionList = << >> /\ c.session = [s \in Session |-> None] /\ c.channelArray = << >>
      /\ c.open = {} /\ c.peer = [v \in Server |-> None] /\ c.status = [v \in Server |-> "DISCONNECTED"]
  BY <1>1 DEF Init
<1>3. c \in Context
  <2>1. << >> \in Seq(Session) /\ << >> \in Seq(Channel) /\ "DISCONNECTED" \in Status
    BY EmptySeq DEF Status
  <2> QED
    BY <1>1, <2>1 DEF Init, Context
<1>4. ListInv(c)
  <2>1. ToSet(<< >>) = {} /\ Distinct(<< >>)
    BY DEF ToSet, Distinct
  <2> QED
    BY <1>2, <2>1 DEF ListInv, IsLive
<1>5. PeerInv(c, None) /\ Agreed(c, None)
  BY <1>2 DEF PeerInv, Agreed, IsLive
<1>6. ChannelInv(c)
  BY <1>2, NoChannels DEF ChannelInv, IsLive
<1>7. LoopInv
  <2>1. << >> \in Seq(Entry)
    BY EmptySeq
  <2> QED
    BY <2>1 DEF Init, LoopInv
<1>8. NotedInv
  BY DEF Init, NotedInv
<1> QED
  BY <1>1, <1>3, <1>4, <1>5, <1>6, <1>7, <1>8 DEF SessionInv, Linked

LEMMA ContextStep ==
  ASSUME SessionInv, Joined(ctx, ctx'), LoopInv', Shrinks => NotedInv'
  PROVE  SessionInv'
  BY DEF SessionInv, Joined

LEMMA ContextSame ==
  ASSUME Linked(ctx, None), ctx' = ctx
  PROVE  Joined(ctx, ctx')
  BY DEF Joined

\* A step during which select has noted nothing.
LEMMA NothingNoted ==
  ASSUME connArray' = << >>
  PROVE  NotedInv' /\ connArray' \in Seq(Entry)
<1>1. << >> \in Seq(Entry)
  BY EmptySeq
<1> QED
  BY <1>1 DEF NotedInv

\* A step that makes no channel.
LEMMA NotedStays ==
  ASSUME NotedInv, connArray' = connArray, Channels(ctx') \subseteq Channels(ctx)
  PROVE  NotedInv'
  BY DEF NotedInv

LEMMA HeadIsLive ==
  ASSUME NEW c, Linked(c, None)
  PROVE  HeadP(c) \in Session \cup {None} /\ (HeadP(c) # None => IsLive(c, HeadP(c)))
<1>1. PICK list : list = c.sessionList
  OBVIOUS
<1>2. list \in Seq(Session)
  BY <1>1 DEF Linked, Context
<1>3. CASE list = << >>
  BY <1>1, <1>3 DEF HeadP
<1>4. CASE list # << >>
  <2>1. Head(list) = list[1] /\ 1 \in DOMAIN list /\ list[1] \in Session
    BY <1>2, <1>4, LenProperties, ElementOfSeq
  <2>2. Head(list) \in ToSet(list)
    BY <2>1 DEF ToSet
  <2> QED
    BY <1>1, <1>4, <2>1, <2>2 DEF HeadP, Linked, ListInv
<1> QED
  BY <1>3, <1>4

\* The session that follows a live one is live, and is another one.
LEMMA NextIsLive ==
  ASSUME NEW c, Linked(c, None), NEW s \in Session, IsLive(c, s)
  PROVE  /\ NextP(c, s) \in Session \cup {None}
         /\ NextP(c, s) # None => IsLive(c, NextP(c, s)) /\ NextP(c, s) # s
<1>1. PICK list : list = c.sessionList
  OBVIOUS
<1>2. list \in Seq(Session) /\ Distinct(list) /\ s \in ToSet(list)
  BY <1>1 DEF Linked, Context, ListInv
<1>3. PICK i : i = CHOOSE j \in DOMAIN list : list[j] = s
  OBVIOUS
<1>4. i \in DOMAIN list /\ list[i] = s
  BY <1>2, <1>3 DEF ToSet
<1>5. NextP(c, s) = IF i = Len(list) THEN None ELSE list[i + 1]
  BY <1>1, <1>3 DEF NextP
<1>6. CASE i = Len(list)
  BY <1>5, <1>6
<1>7. CASE i # Len(list)
  <2>1. i + 1 \in DOMAIN list /\ i + 1 # i
    BY <1>2, <1>4, <1>7, LenProperties
  <2>2. list[i + 1] \in Session /\ list[i + 1] # s /\ list[i + 1] \in ToSet(list)
    <3>1. list[i + 1] \in Session
      BY <1>2, <2>1, LenProperties, ElementOfSeq
    <3>2. list[i + 1] # s
      BY <1>2, <1>4, <2>1 DEF Distinct
    <3> QED
      BY <2>1, <3>1, <3>2 DEF ToSet
  <2> QED
    BY <1>1, <1>5, <1>7, <2>2 DEF Linked, ListInv
<1> QED
  BY <1>6, <1>7

\* It stays when only the server of the first is served.
LEMMA NextStays ==
  ASSUME NEW c, Linked(c, None), NEW s \in Session, IsLive(c, s),
         NEW d, Keeps(c, d, c.session[s].owner), NextP(c, s) # None
  PROVE  IsLive(d, NextP(c, s))
<1>1. PICK x \in Session : x = NextP(c, s) /\ x # s /\ IsLive(c, x)
  BY NextIsLive
<1>2. c.peer[c.session[x].owner] = x /\ c.peer[c.session[s].owner] = s
  BY <1>1, NoneIsOutside DEF Linked, PeerInv
<1>3. c.session[x].owner # c.session[s].owner
  BY <1>1, <1>2
<1> QED
  BY <1>1, <1>3 DEF Keeps, IsLive

LEMMA Stepped ==
  ASSUME NEW c, Linked(c, None), NEW s \in Session, IsLive(c, s), NEW due \in BOOLEAN,
         NEW d \in IF Secured(c, s) THEN iowa_user_security_step(c, s, due) ELSE {c}
  PROVE  Served(c, d, c.session[s].owner)
<1>1. CASE d = c
  BY <1>1, ServedSame
<1>2. CASE c.session[s].owner \in Secure /\ d \in TinydtlsStep(c, s, due)
  BY <1>2, TinydtlsSteps
<1>3. CASE c.session[s].owner \in Secure /\ d \in MbedtlsStep(c, s, due)
  BY <1>3, MbedtlsSteps
<1> QED
  BY <1>1, <1>2, <1>3 DEF Secured, iowa_user_security_step

LEMMA LinkedNow == SessionInv => Linked(ctx, None) /\ LoopInv /\ connArray \in Seq(Entry)
  BY DEF SessionInv, LoopInv

\* A step that leaves the context and the noted channels alone.
LEMMA SameContext ==
  ASSUME SessionInv, ctx' = ctx, connArray' = connArray, LoopInv'
  PROVE  SessionInv'
<1>1. Joined(ctx, ctx')
  BY LinkedNow, ContextSame
<1>2. Shrinks => NotedInv'
  BY NotedStays DEF SessionInv
<1> QED
  BY <1>1, <1>2, ContextStep

LEMMA QuietSteps ==
  ASSUME SessionInv,
         iowa_init \/ iowa_step \/ iowa_close \/ securityStepEnds \/ commSelectEnds
  PROVE  SessionInv'
<1>1. ctx' = ctx /\ connArray' = connArray
  BY DEF iowa_init, iowa_step, iowa_close, securityStepEnds, commSelectEnds
<1>2. Linked(ctx, None) /\ LoopInv
  BY LinkedNow
<1>3. CASE iowa_step
  <2>1. HeadP(ctx) \in Session \cup {None} /\ (HeadP(ctx) # None => IsLive(ctx, HeadP(ctx)))
    BY <1>2, HeadIsLive
  <2>2. LoopInv'
    BY <1>1, <1>2, <1>3, <2>1 DEF LoopInv, iowa_step, IsLive
  <2> QED
    BY <1>1, <2>2, SameContext
<1>4. CASE iowa_init \/ iowa_close \/ securityStepEnds \/ commSelectEnds
  <2>1. LoopInv'
    BY <1>1, <1>2, <1>4 DEF LoopInv, iowa_init, iowa_close, securityStepEnds, commSelectEnds
  <2> QED
    BY <1>1, <2>1, SameContext
<1> QED
  BY <1>3, <1>4

LEMMA SecuritySteps ==
  ASSUME SessionInv, NEW due \in BOOLEAN, securityStep(due)
  PROVE  SessionInv'
<1>1. Linked(ctx, None) /\ LoopInv
  BY LinkedNow
<1>2. PICK s \in Session : s = current /\ IsLive(ctx, s)
  BY <1>1 DEF LoopInv, securityStep
<1>3. Served(ctx, ctx', ctx.session[s].owner)
  <2>1. ctx' \in IF Secured(ctx, s) THEN iowa_user_security_step(ctx, s, due) ELSE {ctx}
    BY <1>2 DEF securityStep
  <2> QED
    BY <1>1, <1>2, <2>1, Stepped
<1>4. Joined(ctx, ctx')
  BY <1>3, ServedJoins
<1>5. Keeps(ctx, ctx', ctx.session[s].owner)
  BY <1>3 DEF Served
<1>6. current' = NextP(ctx, s)
  BY <1>2 DEF securityStep, SavedNext
<1>7. current' \in Session \cup {None}
  BY <1>1, <1>2, <1>6, NextIsLive
<1>8. current' # None => IsLive(ctx', current')
  BY <1>1, <1>2, <1>5, <1>6, NextStays
<1>9. connArray = << >> /\ connArray' = << >> /\ pc' = "security" /\ program' = program
  BY <1>1 DEF LoopInv, securityStep
<1>10. NotedInv' /\ connArray' \in Seq(Entry)
  BY <1>9, NothingNoted
<1>11. LoopInv'
  BY <1>1, <1>7, <1>8, <1>9, <1>10 DEF LoopInv
<1> QED
  BY <1>4, <1>10, <1>11, ContextStep

\* What the loop holds after a step at which it walks no list and select has
\* noted nothing.
LEMMA LoopAtRest ==
  ASSUME LoopInv, connArray' = << >>, UNCHANGED <<program, current>>,
         pc' \in {"closed", "idle", "lwm2m", "select", "dispatch", "closing"}
  PROVE  LoopInv' /\ NotedInv'
<1>1. NotedInv' /\ connArray' \in Seq(Entry)
  BY NothingNoted
<1> QED
  BY <1>1 DEF LoopInv

LEMMA ServerDeleted ==
  ASSUME NEW c, Linked(c, None), NEW v \in Server, NEW e \in coapPeerDelete(c, v), NEW st \in Status
  PROVE  Joined(c, e) /\ Joined(c, SetStatus(e, v, st))
<1>1. Joined(c, e)
  BY PeerDeleted, WithoutServed, ServedJoins
<1>2. Joined(e, SetStatus(e, v, st))
  BY <1>1, StatusJoins DEF Joined
<1> QED
  BY <1>1, <1>2, JoinedMore

LEMMA ServerSteps ==
  ASSUME SessionInv, NEW v \in Server,
         ConnectServer(v) \/ ReconnectServer(v) \/ RegistrationFails(v) \/ ResetServer(v) \/ coapClose(v)
  PROVE  SessionInv'
<1>1. Linked(ctx, None) /\ LoopInv
  BY LinkedNow
<1>2. /\ pc \in {"lwm2m", "idle", "closing"} /\ pc' = pc
      /\ UNCHANGED <<program, current, connArray>>
  BY DEF ConnectServer, ReconnectServer, RegistrationFails, ResetServer, coapClose
<1>3. connArray' = << >>
  BY <1>1, <1>2 DEF LoopInv
<1>4. LoopInv' /\ NotedInv'
  BY <1>1, <1>2, <1>3, LoopAtRest
<1>5. "WAITING_CONNECTION" \in Status /\ "DISCONNECTED" \in Status
  BY DEF Status
<1>6. Joined(ctx, ctx')
  <2>1. CASE ConnectServer(v)
    <3>1. PICK c : c = SetStatus(ctx, v, "WAITING_CONNECTION")
      OBVIOUS
    <3>2. Joined(ctx, c) /\ ctx' \in prv_initiateServerConnection(c, v)
      BY <1>1, <1>5, <2>1, <3>1, StatusJoins DEF ConnectServer
    <3>3. Joined(c, ctx')
      BY <3>2, ServerConnects DEF Joined
    <3> QED
      BY <3>2, <3>3, JoinedMore
  <2>2. CASE ReconnectServer(v)
    BY <1>1, <2>2, ServerConnects DEF ReconnectServer
  <2>3. CASE RegistrationFails(v)
    BY <1>1, <2>3, RegistrationFailing, WithoutServed, ServedJoins DEF RegistrationFails
  <2>4. CASE ResetServer(v)
    <3>1. PICK e \in coapPeerDelete(ctx, v) : ctx' = SetStatus(e, v, "DISCONNECTED")
      BY <2>4 DEF ResetServer
    <3> QED
      BY <1>1, <1>5, <3>1, ServerDeleted
  <2>5. CASE coapClose(v)
    BY <1>1, <1>5, <2>5, ServerDeleted DEF coapClose
  <2> QED
    BY <2>1, <2>2, <2>3, <2>4, <2>5
<1> QED
  BY <1>4, <1>6, ContextStep

\* iowa_close frees the channels when no session is left.
LEMMA CloseEnds ==
  ASSUME SessionInv, iowa_closeEnds
  PROVE  SessionInv'
<1>1. Linked(ctx, None) /\ LoopInv
  BY LinkedNow
<1>2. connArray' = << >> /\ pc' = "closed" /\ UNCHANGED <<program, current>>
  BY <1>1 DEF LoopInv, iowa_closeEnds
<1>3. LoopInv' /\ NotedInv'
  BY <1>1, <1>2, LoopAtRest
<1>4. PICK c : c = ctx
  OBVIOUS
<1>5. c \in Context /\ PeerInv(c, None) /\ ListInv(c) /\ (Shrinks => ChannelInv(c))
  BY <1>1, <1>4 DEF Linked
<1>6. PICK d : d = ctx'
  OBVIOUS
<1>7. /\ d \in Context /\ d.session = c.session /\ d.sessionList = c.sessionList /\ d.peer = c.peer
      /\ d.channelArray = << >> /\ d.open = c.open \ {ch.connP : ch \in Channels(c)}
  <2>1. PICK off : off = [v \in Server |-> "DISCONNECTED"]
    OBVIOUS
  <2>2. off \in [Server -> Status]
    BY <2>1 DEF Status
  <2>3. PICK t : t = [c EXCEPT !.status = off]
    OBVIOUS
  <2>4. /\ t \in Context /\ t.session = c.session /\ t.sessionList = c.sessionList /\ t.peer = c.peer
        /\ t.channelArray = c.channelArray /\ t.open = c.open
    BY <1>5, <2>2, <2>3 DEF Context
  <2>5. Channels(t) = Channels(c)
    BY <2>4 DEF Channels
  <2>6. d = [t EXCEPT !.channelArray = <<>>, !.open = @ \ {ch.connP : ch \in Channels(t)}]
    BY <1>4, <1>6, <2>1, <2>3 DEF iowa_closeEnds, commClose
  <2>7. << >> \in Seq(Channel)
    BY EmptySeq
  <2> QED
    BY <2>4, <2>5, <2>6, <2>7 DEF Context
<1>8. \A s \in Session : ~IsLive(d, s)
  <2> SUFFICES ASSUME NEW s \in Session, IsLive(c, s) PROVE FALSE
    BY <1>7 DEF IsLive
  <2>1. c.session[s].owner \in Server
    BY <1>5, RecordIs DEF SessionRecord
  <2>2. c.peer[c.session[s].owner] = s
    BY <1>5, NoneIsOutside DEF PeerInv
  <2> QED
    BY <1>4, <2>1, <2>2, NoneIsOutside DEF iowa_closeEnds
<1>9. ListInv(d) /\ PeerInv(d, None) /\ Agreed(d, None)
  BY <1>5, <1>7, <1>8 DEF ListInv, PeerInv, Agreed, IsLive
<1>10. ChannelInv(c) => ChannelInv(d)
  <2>1. Channels(d) = {}
    BY <1>7, NoChannels
  <2> QED
    BY <1>7, <1>8, <2>1 DEF ChannelInv
<1>11. Joined(c, d)
  BY <1>5, <1>7, <1>9, <1>10 DEF Joined, Linked
<1> QED
  BY <1>3, <1>4, <1>6, <1>11, ContextStep

\* What select is given is what the channels are.
LEMMA SelectStarts ==
  ASSUME SessionInv, commSelect
  PROVE  SessionInv'
<1>1. Linked(ctx, None) /\ LoopInv
  BY LinkedNow
<1>2. PICK list : list = ctx.channelArray
  OBVIOUS
<1>3. list \in Seq(Channel)
  BY <1>1, <1>2 DEF Linked, Context
<1>4. PICK noted : noted = connArray'
  OBVIOUS
<1>5. noted = [i \in DOMAIN list |-> [connP |-> list[i].connP, owner |-> list[i].userData]]
  BY <1>2, <1>4 DEF commSelect
<1>6. \A i \in DOMAIN list : list[i].connP \in Conn /\ list[i].userData \in Session
  <2>1. \A i \in DOMAIN list : list[i] \in Channel
    BY <1>3, LenProperties, ElementOfSeq
  <2> QED
    BY <2>1 DEF Channel
<1>7. noted \in Seq(Entry)
  <2>1. PICK n \in Nat : DOMAIN list = 1..n
    BY <1>3, LenProperties
  <2>2. noted \in [1..n -> Entry]
    BY <1>5, <1>6, <2>1 DEF Entry
  <2> QED
    BY <2>2, SeqDef
<1>8. LoopInv'
  BY <1>1, <1>4, <1>7 DEF commSelect, LoopInv
<1>9. Joined(ctx, ctx')
  BY <1>1, ContextSame DEF commSelect
<1>10. ASSUME Shrinks PROVE NotedInv'
  <2>1. \A i, j \in DOMAIN list : list[i].connP = list[j].connP => i = j
    BY <1>1, <1>2, <1>10 DEF Linked, ChannelInv
  <2>2. Channels(ctx') = {list[i] : i \in DOMAIN list}
    BY <1>2 DEF commSelect, Channels
  <2>3. /\ DOMAIN noted = DOMAIN list
        /\ \A i \in DOMAIN list : noted[i].connP = list[i].connP /\ noted[i].owner = list[i].userData
    BY <1>5
  <2>4. \A i \in DOMAIN noted : \A ch \in Channels(ctx') :
          ch.connP = noted[i].connP => ch.userData = noted[i].owner
    BY <2>1, <2>2, <2>3
  <2> QED
    BY <1>4, <2>4 DEF NotedInv
<1> QED
  BY <1>8, <1>9, <1>10, ContextStep

\* Entries that were noted before.
LEMMA NotedFewer ==
  ASSUME NotedInv, Channels(ctx') \subseteq Channels(ctx),
         \A i \in DOMAIN connArray' : \E j \in DOMAIN connArray : connArray'[i] = connArray[j]
  PROVE  NotedInv'
  BY DEF NotedInv

LEMMA SelectAnswers ==
  ASSUME SessionInv, iowa_system_connection_select
  PROVE  SessionInv'
<1>1. Linked(ctx, None) /\ LoopInv /\ connArray \in Seq(Entry)
  BY LinkedNow
<1>2. ctx' = ctx /\ UNCHANGED <<program, current>> /\ pc' \in {"dispatch", "idle"}
  BY DEF iowa_system_connection_select
<1>3. Joined(ctx, ctx')
  BY <1>1, <1>2, ContextSame
<1>4. CASE pc' = "idle" /\ connArray' = <<>>
  BY <1>1, <1>2, <1>3, <1>4, LoopAtRest, ContextStep
<1>5. CASE pc' = "dispatch" /\ \E ready \in SUBSET DOMAIN connArray : connArray' = Sublist(connArray, ready)
  <2>1. PICK ready \in SUBSET DOMAIN connArray : connArray' = Sublist(connArray, ready)
    BY <1>5
  <2>2. PICK noted : noted = connArray
    OBVIOUS
  <2>3. PICK left : left = Sublist(noted, ready)
    OBVIOUS
  <2>4. left \in Seq(Entry) /\ ToSet(left) = {noted[i] : i \in ready}
    BY <1>1, <2>1, <2>2, <2>3, SublistElements
  <2>5. \A i \in DOMAIN left : \E j \in DOMAIN noted : left[i] = noted[j]
    BY <2>1, <2>2, <2>4 DEF ToSet
  <2>6. connArray' = left
    BY <2>1, <2>2, <2>3
  <2>7. LoopInv'
    BY <1>1, <1>2, <1>5, <2>4, <2>6 DEF LoopInv
  <2>8. Shrinks => NotedInv'
    BY <1>2, <2>2, <2>5, <2>6, NotedFewer DEF SessionInv
  <2> QED
    BY <1>3, <2>7, <2>8, ContextStep
<1> QED
  BY <1>4, <1>5 DEF iowa_system_connection_select

LEMMA Dispatches ==
  ASSUME SessionInv, Dispatch
  PROVE  SessionInv'
<1>1. Linked(ctx, None) /\ LoopInv /\ connArray \in Seq(Entry)
  BY LinkedNow
<1>2. UNCHANGED <<program, pc, current>> /\ pc = "dispatch" /\ connArray # <<>> /\ connArray' = Tail(connArray)
  BY DEF Dispatch
<1>3. Joined(ctx, ctx') /\ Channels(ctx') \subseteq Channels(ctx)
  <2>1. CASE ctx' = ctx
    BY <1>1, <2>1, ContextSame
  <2>2. CASE \E s \in Live(ctx) : ctx' \in CommData(ctx, s)
    <3>1. PICK s \in Session : IsLive(ctx, s) /\ ctx' \in CommData(ctx, s)
      BY <2>2 DEF Live, IsLive
    <3>2. Served(ctx, ctx', ctx.session[s].owner)
      BY <1>1, <3>1, DataArrives
    <3>3. Joined(ctx, ctx')
      BY <3>2, ServedJoins
    <3>4. Channels(ctx') \subseteq Channels(ctx)
      BY <3>2 DEF Served, Keeps
    <3> QED
      BY <3>3, <3>4
  <2> QED
    BY <2>1, <2>2 DEF Dispatch
<1>4. PICK noted : noted = connArray
  OBVIOUS
<1>5. PICK left : left = Tail(noted)
  OBVIOUS
<1>6. left \in Seq(Entry) /\ \A i \in DOMAIN left : \E j \in DOMAIN noted : left[i] = noted[j]
  <2>1. noted \in Seq(Entry) /\ noted # << >>
    BY <1>1, <1>2, <1>4
  <2>2. /\ left \in Seq(Entry) /\ Len(left) = Len(noted) - 1
        /\ \A i \in 1..Len(left) : left[i] = noted[i + 1]
    BY <1>5, <2>1, HeadTailProperties
  <2>3. Len(noted) \in Nat /\ DOMAIN noted = 1..Len(noted) /\ DOMAIN left = 1..Len(left)
    BY <2>1, <2>2, LenProperties
  <2>4. \A i \in DOMAIN left : i + 1 \in DOMAIN noted
    BY <2>2, <2>3
  <2> QED
    BY <2>2, <2>3, <2>4
<1>7. connArray' = left
  BY <1>2, <1>4, <1>5
<1>8. LoopInv'
  BY <1>1, <1>2, <1>6, <1>7 DEF LoopInv
<1>9. Shrinks => NotedInv'
  BY <1>3, <1>4, <1>6, <1>7, NotedFewer DEF SessionInv
<1> QED
  BY <1>3, <1>8, <1>9, ContextStep

\* A session that was disconnected has no channel, if it is still there.
LEMMA NoChannelLeft ==
  ASSUME NEW c, Linked(c, None), NEW s \in Session, IsLive(c, s), NEW d \in securityDisconnect(c, s),
         Shrinks
  PROVE  \A ch \in Channels(d) : ch.userData # s
<1>1. PICK e \in LoseChannel(c, s) :
        IF c.session[s].state = "CONNECTED" THEN d \in Disconnected(e, s) ELSE d = e
  BY DEF securityDisconnect, Then
<1>2. Linked(e, None)
  BY ChannelIsLost
<1>3. PICK r \in SessionRecord : Lost(c, e, s, r)
  BY ChannelIsLost
<1>4. DOMAIN c.session = Session
  BY DEF Linked, Context
<1>5. e.session[s] = r /\ r.channelP = None
  BY <1>3, <1>4 DEF Lost
<1>6. IsLive(e, s)
  BY <1>5, NoneIsNoRecord DEF IsLive
<1>7. \A ch \in Channels(e) : ch.userData # s
  <2>1. e \in Context /\ ChannelInv(e)
    BY <1>2 DEF Linked
  <2> QED
    BY <1>5, <2>1, ChannelsAre, NoneIsOutside DEF ChannelInv
<1>8. Channels(d) \subseteq Channels(e)
  <2>1. CASE d = e
    BY <2>1
  <2>2. CASE d \in Disconnected(e, s)
    <3>1. Keeps(e, d, e.session[s].owner)
      BY <1>2, <1>6, <2>2, DisconnectedIs
    <3> QED
      BY <3>1 DEF Keeps
  <2> QED
    BY <1>1, <2>1, <2>2
<1> QED
  BY <1>7, <1>8

\* A close halfway is noted in the record of the session.
LEMMA NotedIs ==
  ASSUME NEW c, Linked(c, None), NEW s \in Session, IsLive(c, s), NEW b, b = Noted(c, s)
  PROVE  /\ Linked(b, None) /\ IsLive(b, s) /\ Keeps(c, b, c.session[s].owner)
         /\ b.session[s].owner = c.session[s].owner
         /\ Agreed(c, None) => Agreed(b, s) /\ Agrees(Ended(b.session[s]))
<1>1. c \in Context /\ c.session[s] \in SessionRecord
  BY RecordIs DEF Linked
<1>2. PICK q : q = c.session[s]
  OBVIOUS
<1>3. PICK r : r = IF q.engine # "none" /\ q.state \in Halfway THEN [q EXCEPT !.cut = q.state] ELSE q
  OBVIOUS
<1>4. /\ r \in SessionRecord /\ r.owner = q.owner /\ r.channelP = q.channelP
      /\ r.told = q.told /\ r.state = q.state /\ r.engine = q.engine
      /\ r.cut = IF q.engine # "none" /\ q.state \in Halfway THEN q.state ELSE q.cut
  BY <1>1, <1>2, <1>3 DEF SessionRecord
<1>5. b = [c EXCEPT !.session[s] = r]
  <2>1. CASE q.engine # "none" /\ q.state \in Halfway
    BY <1>1, <1>2, <1>3, <2>1 DEF Noted
  <2>2. CASE ~(q.engine # "none" /\ q.state \in Halfway)
    BY <1>1, <1>2, <1>3, <2>2 DEF Noted, Context
  <2> QED
    BY <2>1, <2>2
<1>6. Put(c, b, s, r)
  BY <1>1, <1>4, <1>5, PutIs
<1>7. Linked(b, None) /\ Changed(c, b, s, r)
  BY <1>2, <1>4, <1>6, PutChanges
<1>8. b.session[s] = r /\ IsLive(b, s)
  BY <1>4, <1>7, NoneIsNoRecord DEF Changed, IsLive
<1>9. /\ Keeps(c, b, c.session[s].owner)
      /\ Agreed(c, None) => Agreed(b, s) /\ Agrees(q)
  BY <1>2, <1>7, ChangedKeeps
<1>10. Agrees(q) => Agrees(Ended(r))
  <2>1. CASE r.state = "CONNECTED"
    BY <1>4, <2>1 DEF Agrees, Ended, Halfway
  <2>2. CASE r.state # "CONNECTED"
    <3>1. PICK e : e = Ended(r)
      OBVIOUS
    <3>2. /\ e.owner = r.owner /\ e.told = r.told /\ e.state = "DISCONNECTED"
          /\ e.engine = r.engine /\ e.cut = r.cut
      BY <1>4, <2>2, <3>1 DEF Ended, SessionRecord
    <3>3. Agrees(q) => Agrees(e)
      BY <1>1, <1>2, <1>4, <2>2, <3>2 DEF Agrees, Halfway, SessionRecord, State
    <3> QED
      BY <3>1, <3>3
  <2> QED
    BY <2>1, <2>2
<1> QED
  BY <1>2, <1>4, <1>7, <1>8, <1>9, <1>10

\* The platform reports a closed connection.
LEMMA ConnectionCloses ==
  ASSUME SessionInv, NEW k \in Conn, iowa_connection_closed(k)
  PROVE  SessionInv'
<1>1. Linked(ctx, None) /\ LoopInv
  BY LinkedNow
<1>2. PICK ch \in commChannelFind(ctx, k) :
        /\ ctx.session[ch.userData] # None
        /\ ctx' \in Then(securityDisconnect(Noted(ctx, ch.userData), ch.userData),
                         LAMBDA d : commChannelDelete(d, k))
  BY DEF iowa_connection_closed
<1>3. ch \in Channels(ctx) /\ ch.connP = k
  BY <1>2 DEF commChannelFind
<1>4. PICK s \in Session : s = ch.userData /\ IsLive(ctx, s)
  <2>1. ch.userData \in Session
    BY <1>1, <1>3, ChannelsAre DEF Linked
  <2> QED
    BY <1>2, <2>1 DEF IsLive
<1>14. PICK b : b = Noted(ctx, s)
  OBVIOUS
<1>15. /\ Linked(b, None) /\ IsLive(b, s) /\ Keeps(ctx, b, ctx.session[s].owner)
       /\ b.session[s].owner = ctx.session[s].owner
       /\ Agreed(ctx, None) => Agreed(b, s) /\ Agrees(Ended(b.session[s]))
  BY <1>1, <1>4, <1>14, NotedIs
<1>5. PICK d \in securityDisconnect(b, s) : ctx' \in commChannelDelete(d, k)
  BY <1>2, <1>4, <1>14 DEF Then
<1>6. Linked(d, None) /\ Keeps(ctx, d, ctx.session[s].owner) /\ (Agreed(ctx, None) => Agreed(d, None))
  <2>1. /\ Linked(d, None) /\ Keeps(b, d, b.session[s].owner)
        /\ Agreed(b, s) /\ Agrees(Ended(b.session[s])) => Agreed(d, None)
    BY <1>5, <1>15, SecurityDisconnected
  <2> QED
    BY <1>15, <2>1, KeepsMore
<1>7. d \in Context /\ Channels(d) \subseteq Channels(ctx)
  BY <1>6 DEF Linked, Keeps
<1>8. /\ ctx' \in Context
      /\ ctx'.session = d.session /\ ctx'.sessionList = d.sessionList
      /\ ctx'.peer = d.peer /\ ctx'.status = d.status
      /\ Channels(ctx') \subseteq Channels(d)
  <2>1. PICK e : e = ctx'
    OBVIOUS
  <2>2. e \in commChannelDelete(d, k)
    BY <1>5, <2>1
  <2>3. /\ e \in Context
        /\ e.session = d.session /\ e.sessionList = d.sessionList
        /\ e.peer = d.peer /\ e.status = d.status
        /\ Channels(e) \subseteq Channels(d)
    BY <1>7, <2>2, ChannelDeleted
  <2> QED
    BY <2>1, <2>3
<1>9. ASSUME Shrinks PROVE ctx' = d
  <2>1. ChannelInv(ctx)
    BY <1>1, <1>9 DEF Linked
  <2>2. \A x \in Channels(ctx) : x.connP = k => x = ch
    BY <1>3, <2>1 DEF ChannelInv, Channels
  <2>3. \A x \in Channels(d) : x.userData # s
    BY <1>5, <1>9, <1>15, NoChannelLeft
  <2>4. commChannelFind(d, k) = {}
    BY <1>4, <1>7, <2>2, <2>3 DEF commChannelFind
  <2> QED
    BY <1>5, <2>4 DEF commChannelDelete
<1>10. Linked(ctx', None)
  <2>1. ListInv(ctx') /\ PeerInv(ctx', None)
    BY <1>6, <1>8 DEF Linked, ListInv, PeerInv, IsLive
  <2>2. Shrinks => ChannelInv(ctx')
    BY <1>6, <1>9 DEF Linked
  <2> QED
    BY <1>8, <2>1, <2>2 DEF Linked
<1>11. Agreed(d, None) => Agreed(ctx', None)
  BY <1>8 DEF Agreed, IsLive
<1>12. LoopInv'
  BY <1>1 DEF LoopInv, iowa_connection_closed
<1>13. NotedInv => NotedInv'
  BY <1>7, <1>8, NotedStays DEF iowa_connection_closed
<1> QED
  BY <1>6, <1>10, <1>11, <1>12, <1>13 DEF SessionInv

LEMMA StutterInv ==
  ASSUME SessionInv, UNCHANGED vars
  PROVE  SessionInv'
<1>1. LoopInv'
  BY LinkedNow DEF LoopInv, vars
<1> QED
  BY <1>1, SameContext DEF vars

-----------------------------------------------------------------------------
(* What the run checks                                                     *)

\* The links, the two loops of iowa_step and the agreement of the states are
\* kept by every step, for any servers, bindings and faults.
THEOREM AlwaysSessionInv == Spec => []SessionInv
<1>1. Init => SessionInv
  BY InitInv
<1>2. SessionInv /\ [Next]_vars => SessionInv'
  <2> SUFFICES ASSUME SessionInv, [Next]_vars PROVE SessionInv'
    OBVIOUS
  <2>1. CASE iowa_init \/ iowa_step \/ iowa_close \/ securityStepEnds \/ commSelectEnds
    BY <2>1, QuietSteps
  <2>2. CASE \E due \in BOOLEAN : securityStep(due)
    BY <2>2, SecuritySteps
  <2>3. CASE \E v \in Server : ConnectServer(v) \/ ReconnectServer(v) \/ RegistrationFails(v)
                               \/ ResetServer(v) \/ coapClose(v)
    BY <2>3, ServerSteps
  <2>4. CASE iowa_closeEnds
    BY <2>4, CloseEnds
  <2>5. CASE commSelect
    BY <2>5, SelectStarts
  <2>6. CASE iowa_system_connection_select
    BY <2>6, SelectAnswers
  <2>7. CASE Dispatch
    BY <2>7, Dispatches
  <2>8. CASE \E k \in Conn : iowa_connection_closed(k)
    BY <2>8, ConnectionCloses
  <2>9. CASE UNCHANGED vars
    BY <2>9, StutterInv
  <2> QED
    BY <2>1, <2>2, <2>3, <2>4, <2>5, <2>6, <2>7, <2>8, <2>9 DEF Next
<1> QED
  BY <1>1, <1>2, PTL DEF Spec

LEMMA TypesHold == SessionInv => TypeOK
  BY DEF SessionInv, Linked, LoopInv, Context, Entry, TypeOK

LEMMA ConnectionsCounted ==
  ASSUME NEW c, Linked(c, None), Shrinks
  PROVE  Len(c.channelArray) = Cardinality(c.open)
<1>1. PICK list : list = c.channelArray
  OBVIOUS
<1>2. list \in Seq(Channel) /\ ChannelInv(c)
  BY <1>1 DEF Linked, Context
<1>3. PICK conns : conns = [i \in DOMAIN list |-> list[i].connP]
  OBVIOUS
<1>4. PICK n \in Nat : DOMAIN list = 1..n /\ Len(list) = n
  BY <1>2, LenProperties
<1>5. \A i \in DOMAIN list : list[i].connP \in Conn
  <2>1. \A i \in DOMAIN list : list[i] \in Channel
    BY <1>2, LenProperties, ElementOfSeq
  <2> QED
    BY <2>1 DEF Channel
<1>6. conns \in [1..n -> Conn]
  BY <1>3, <1>4, <1>5
<1>7. conns \in Seq(Conn) /\ Len(conns) = n
  <2>1. conns \in Seq(Conn)
    BY <1>4, <1>6, SeqDef
  <2> QED
    BY <1>4, <1>6, <2>1, LenProperties
<1>8. Distinct(conns)
  BY <1>1, <1>2, <1>3 DEF Distinct, ChannelInv
<1>9. c.open = ToSet(conns)
  BY <1>1, <1>2, <1>3 DEF ToSet, ChannelInv, Channels
<1> QED
  BY <1>1, <1>4, <1>7, <1>8, <1>9, DistinctLength

LEMMA ChannelsOwned ==
  ASSUME SessionInv, Shrinks
  PROVE  ChannelsAreOwned
<1>1. PICK c : c = ctx
  OBVIOUS
<1>2. Linked(c, None) /\ c \in Context /\ ChannelInv(c)
  BY <1>1 DEF SessionInv, Linked
<1>3. c.open = {ch.connP : ch \in Channels(c)}
  BY <1>2 DEF ChannelInv
<1>4. Len(c.channelArray) = Cardinality(c.open)
  BY <1>2, ConnectionsCounted
<1>5. PICK owners : owners = {x \in Live(c) : c.session[x].channelP # None}
  OBVIOUS
<1>6. \A ch \in Channels(c) :
        /\ ch.userData \in owners
        /\ ch = [connP |-> c.session[ch.userData].channelP, userData |-> ch.userData]
  <2> SUFFICES ASSUME NEW ch \in Channels(c)
               PROVE  /\ ch.userData \in owners
                      /\ ch = [connP |-> c.session[ch.userData].channelP, userData |-> ch.userData]
    OBVIOUS
  <2>1. ch \in Channel /\ ch.connP \in Conn /\ ch.userData \in Session
    BY <1>2, ChannelsAre
  <2>2. IsLive(c, ch.userData) /\ c.session[ch.userData].channelP = ch.connP
    BY <1>2 DEF ChannelInv
  <2>3. ch.userData \in owners
    BY <1>5, <2>1, <2>2, NoneIsOutside DEF Live, IsLive
  <2>4. ch = [connP |-> ch.connP, userData |-> ch.userData]
    BY <2>1 DEF Channel
  <2> QED
    BY <2>2, <2>3, <2>4
<1>7. \A s \in owners : [connP |-> c.session[s].channelP, userData |-> s] \in Channels(c)
  BY <1>2, <1>5 DEF ChannelInv, Live, IsLive
<1>8. Channels(c) = {[connP |-> c.session[s].channelP, userData |-> s] : s \in owners}
  BY <1>6, <1>7
<1> QED
  BY <1>1, <1>3, <1>4, <1>5, <1>8 DEF ChannelsAreOwned

LEMMA PeersHold ==
  ASSUME SessionInv
  PROVE  SessionsArePeers
<1>1. PICK c : c = ctx
  OBVIOUS
<1>2. c \in Context /\ ListInv(c) /\ PeerInv(c, None)
  BY <1>1 DEF SessionInv, Linked
<1>3. PICK list : list = c.sessionList
  OBVIOUS
<1>4. list \in Seq(Session) /\ Distinct(list)
  BY <1>2, <1>3 DEF Context, ListInv
<1>5. ToSet(list) \subseteq Session
  BY <1>4, LenProperties, ElementOfSeq DEF ToSet
<1>6. Live(c) = ToSet(list)
  BY <1>2, <1>3, <1>5 DEF Live, IsLive, ListInv
<1>7. Len(list) = Cardinality(Live(c))
  BY <1>4, <1>6, DistinctLength
<1>8. c.peer \in [Server -> Session \cup {None}]
  BY <1>2 DEF Context
<1>9. \A v \in Server : c.peer[v] # None => c.peer[v] \in Live(c) /\ c.session[c.peer[v]].owner = v
  BY <1>2, <1>8 DEF PeerInv, Live, IsLive
<1>10. \A s \in Live(c) : s # None /\ c.session[s].owner \in Server /\ c.peer[c.session[s].owner] = s
  <2> SUFFICES ASSUME NEW s \in Session, IsLive(c, s)
               PROVE  s # None /\ c.session[s].owner \in Server /\ c.peer[c.session[s].owner] = s
    BY DEF Live, IsLive
  <2>1. c.session[s].owner \in Server
    BY <1>2, RecordIs DEF SessionRecord
  <2> QED
    BY <1>2, <2>1, NoneIsOutside DEF PeerInv
<1>11. Live(c) = {c.peer[v] : v \in Server} \ {None}
  BY <1>9, <1>10
<1> QED
  BY <1>1, <1>3, <1>6, <1>7, <1>9, <1>11 DEF SessionsArePeers, ToSet

\* Every variable always has a value of its type, and the live sessions are
\* those of the list and of the peers.
THEOREM SessionsAreAlwaysPeers == Spec => [](TypeOK /\ SessionsArePeers)
<1>1. SessionInv => TypeOK /\ SessionsArePeers
  BY TypesHold, PeersHold
<1> QED
  BY <1>1, AlwaysSessionInv, PTL

\* With the memory for a smaller array at each removal of a channel, sockets,
\* channels, sessions, peers and servers always point at one another.
THEOREM LinksAlwaysAgree ==
  ASSUME Shrinks
  PROVE  Spec => []LinksAgree
<1>1. SessionInv => LinksAgree
  BY TypesHold, PeersHold, ChannelsOwned DEF LinksAgree
<1> QED
  BY <1>1, AlwaysSessionInv, PTL

\* The peer and the library always agree with the session on its state, but
\* for the sessions whose connection the platform closed halfway; for any
\* servers, bindings and faults.
THEOREM StatesAlwaysAgree == Spec => []StatesAgree
<1>1. SessionInv => StatesAgree
  <2> SUFFICES ASSUME SessionInv PROVE StatesAgree
    OBVIOUS
  <2>1. \A s \in Live(ctx) : Agrees(ctx.session[s])
    BY NoneIsOutside DEF SessionInv, Agreed, Live, IsLive
  <2> QED
    BY <2>1 DEF Agrees, StatesAgree, ToldOfItsState, HandshakeCanStart
<1> QED
  BY <1>1, AlwaysSessionInv, PTL

\* securityStep never holds a session that was freed; and what select noted
\* still goes to the session that had the connection.
THEOREM WalkIsAlwaysLive == Spec => []WalkIsLive
<1>1. SessionInv => WalkIsLive
  BY DEF SessionInv, LoopInv, WalkIsLive, Live, IsLive
<1> QED
  BY <1>1, AlwaysSessionInv, PTL

THEOREM HeldIsAlwaysLive ==
  ASSUME Shrinks
  PROVE  Spec => []HeldIsLive
<1>1. SessionInv => HeldIsLive
  BY DEF SessionInv, LoopInv, NotedInv, commChannelFind, HeldIsLive, WalkIsLive, DataFindsItsOwner,
         Live, IsLive
<1> QED
  BY <1>1, AlwaysSessionInv, PTL

=============================================================================
