------------------------------ MODULE Forwarder ------------------------------
(***************************************************************************)
(* The forwarder core around the connection table: the UDP listener hands  *)
(* each message to the message processor (spec 4.7), which consults the    *)
(* content store, the Pending Interest Table (processor/metis_PIT.h, kept  *)
(* in a matching-rules table, processor/metis_MatchingRulesTable.h) and    *)
(* the FIB (spec 4.4).  A connection whose socket fails is marked down and *)
(* announces itself with a ConnectionClosed missive, which the messenger   *)
(* (messenger/metis_Messenger.h) delivers in a later dispatcher cycle; the *)
(* connection manager then removes it from the table and sweeps the FIB    *)
(* and the PIT (spec 3).  PIT entries expire through one one-shot          *)
(* dispatcher timer armed for the earliest expiry (spec 4.3).              *)
(*                                                                         *)
(* The PIT, FIB, processor, content store, messenger and connection        *)
(* manager code is not in this repository: their steps follow the headers *)
(* and the spec.  Time is relative: an entry keeps the ticks left before   *)
(* it expires, and the timer the ticks left before it fires.               *)
(***************************************************************************)
EXTENDS UdpListener, Integers, Sequences

LOCAL Seqs == INSTANCE SequencesExt
LOCAL Sets == INSTANCE FiniteSetsExt

CONSTANTS
    Names,      \* name prefixes a route or a packet may carry: sequences
    Packets,    \* interests and content objects a datagram may hold
    None,       \* an absent KeyId or ContentObjectHash restriction
    Lifetime,   \* the interest lifetime, in ticks
    CsCapacity, \* content store capacity, in objects
    MaxEvents   \* bound on configuration operations and socket failures

VARIABLES
    configured, \* pairs given to add_* by configuration (Connections)
    pit,        \* match key -> [ingress, egress, expiry]
    fib,        \* prefix -> set of nexthop connection ids
    cs,         \* cached content objects
    missives,   \* the messenger's queue of ConnectionClosed missives
    down,       \* ids of connections whose socket failed (is_up() false)
    timer,      \* ticks until the PIT expiry timer fires, or NoTimer
    asked,      \* history: <<pair, interest>> the processor received
    sent,       \* <<pair, packet>> the last step sent on a connection
    events      \* configuration operations and socket failures so far

fwdVars == <<pit, fib, cs, missives, down, timer, asked, sent, events>>
vars == <<tableVars, aborted, nextConnectionId, udpVars, configured, fwdVars>>

C == INSTANCE Connections

NoTimer == -1

Interests == {p \in Packets : p.type = "interest"}
Objects == {p \in Packets : p.type = "object"}

-----------------------------------------------------------------------------
(***************************************************************************)
(* The matching-rules table: an interest lives in the most restrictive of  *)
(* three hash tables (ContentObjectHash, then KeyId, then Name); a content *)
(* object is looked up in all three.                                       *)
(***************************************************************************)

\* Mutant: every interest stored in the Name table.
BestKeyByName(i) == <<"name", i.name, None>>

\* metisMatchingRulesTable_AddToBestTable / _RemoveFromBest: the key of the
\* most restrictive table the interest has a field for.
BestKey(i) ==
    IF i.hash # None THEN <<"hash", i.name, i.hash>>
    ELSE IF i.keyid # None THEN <<"keyid", i.name, i.keyid>>
    ELSE <<"name", i.name, None>>

\* metisMatchingRulesTable_GetUnion: the keys an object has in the three tables.
ObjectKeys(o) ==
    {<<"name", o.name, None>>, <<"keyid", o.name, o.keyid>>, <<"hash", o.name, o.hash>>}

\* metisMatchingRulesTable_Get on a store indexed by AddToAllTables: the
\* cached objects under the interest's best key.
CsGet(i) == {o \in cs : BestKey(i) \in ObjectKeys(o)}

-----------------------------------------------------------------------------
\* Mutant: a timer started one tick late.
StartTimerLate(delay) == delay + 1

\* Mutant: a timer start that never arms the event.
StartTimerNever(delay) == NoTimer

\* metisDispatcher_StartTimer on the one-shot timer metisDispatcher_CreateTimer
\* made: it fires once, after delay.
StartTimer(delay) == delay

\* metisMessenger_Send: the missive is queued for a later dispatcher cycle.
MessengerSend(q, m) == Append(q, m)

\* Arm the expiry timer on a new or extended entry, unless it is running: the
\* one-shot timer CreateTimer made is idle until StartTimer is called again.
ArmTimer == IF timer = NoTimer THEN StartTimer(Lifetime) ELSE timer

\* A connection the processor may send on: in the table and up.
Usable(c) == FindById(c) # NoConnection /\ c \notin down

\* Sends of packet p on the usable connections of cs.
SendOn(conns, p) ==
    {<<storageTableById[c], p>> : c \in {x \in conns : Usable(x)}}

\* Longest-prefix match: the nexthops of the longest routed prefix of name.
FibLookup(name) ==
    LET routed == {p \in Names : Seqs!IsPrefix(p, name) /\ fib[p] # {}} IN
    IF routed = {} THEN {}
    ELSE fib[CHOOSE p \in routed : \A q \in routed : Len(q) <= Len(p)]

\* metisPIT_RemoveInterest: unconditionally remove the entry under key k.
PitRemoveInterest(k) == [x \in DOMAIN pit \ {k} |-> pit[x]]

(***************************************************************************)
(* metisPIT_ReceiveInterest (spec 4.3): a new entry, a new ingress added   *)
(* to an existing one (extending its expiry if the interest outlives it), *)
(* or a retransmission from a connection already in the ingress set.      *)
(***************************************************************************)
PitVerdict(k, conn) ==
    IF k \notin DOMAIN pit THEN "new"
    ELSE IF conn \notin pit[k].ingress /\ pit[k].expiry < Lifetime THEN "extended"
    ELSE "aggregated"

PitEntry(k, conn) ==
    IF k \notin DOMAIN pit
    THEN [ingress |-> {conn}, egress |-> {}, expiry |-> Lifetime]
    ELSE [pit[k] EXCEPT !.ingress = @ \cup {conn},
                        !.expiry = IF conn \in pit[k].ingress THEN @ ELSE Lifetime]

\* metisPIT_SatisfyInterest: the reverse paths of every entry, in any of the
\* three tables, that the object matches.
SatisfyInterest(o) == UNION {pit[k].ingress : k \in ObjectKeys(o) \cap DOMAIN pit}

(***************************************************************************)
(* process_interest (spec 4.7): the content store first; then the PIT;    *)
(* then the FIB: no route removes the entry (NoRoute); otherwise the       *)
(* interest goes to every usable nexthop not yet in the egress set, unless *)
(* its hop limit reaches 0 when decremented.                               *)
(***************************************************************************)
ProcessInterest(conn, pair, i) ==
    LET k == BestKey(i)
        e == PitEntry(k, conn)
        nh == FibLookup(i.name)
        out == {c \in nh \ e.egress : Usable(c) /\ i.hop > 1}
    IN
    /\ asked' = asked \cup {<<pair, i>>}
    /\ UNCHANGED <<fib, missives, down, events>>
    /\ IF CsGet(i) # {}
       THEN /\ \E o \in CsGet(i) : sent' = {<<pair, o>>}
            /\ UNCHANGED <<pit, cs, timer>>
       ELSE /\ UNCHANGED cs
            /\ CASE PitVerdict(k, conn) = "aggregated" ->
                      /\ pit' = MapPut(pit, k, e)
                      /\ sent' = {}
                      /\ UNCHANGED timer
                 [] nh = {} ->
                      /\ pit' = PitRemoveInterest(k)
                      /\ sent' = {}
                      /\ timer' = ArmTimer
                 [] OTHER ->
                      /\ pit' = MapPut(pit, k, [e EXCEPT !.egress = @ \cup out])
                      /\ sent' = SendOn(out, i)
                      /\ timer' = ArmTimer

(***************************************************************************)
(* process_object (spec 4.7): metisPIT_SatisfyInterest takes the matching  *)
(* entries of all three tables and returns their ingress connections; an   *)
(* unsolicited object is dropped, otherwise it is sent on every usable     *)
(* reverse path and put in the content store (LRU tail evicted when full). *)
(***************************************************************************)
ProcessObject(o) ==
    LET matched == ObjectKeys(o) \cap DOMAIN pit
        rev == SatisfyInterest(o)
    IN
    /\ UNCHANGED <<fib, missives, down, timer, asked, events>>
    /\ IF rev = {}
       THEN /\ sent' = {}
            /\ UNCHANGED <<pit, cs>>
       ELSE /\ pit' = [k \in DOMAIN pit \ matched |-> pit[k]]
            /\ sent' = SendOn(rev, o)
            /\ \/ /\ o \in cs \/ Cardinality(cs) < CsCapacity
                  /\ cs' = cs \cup {o}
               \/ /\ o \notin cs /\ Cardinality(cs) = CsCapacity
                  /\ \E victim \in cs : cs' = (cs \ {victim}) \cup {o}

OnMessage(conn, pair, p) ==
    IF p.type = "interest" THEN ProcessInterest(conn, pair, p) ELSE ProcessObject(p)

-----------------------------------------------------------------------------
FwdInit ==
    /\ pit = EmptyMap
    /\ fib = [p \in Names |-> {}]
    /\ cs = {}
    /\ missives = << >>
    /\ down = {}
    /\ timer = NoTimer
    /\ asked = {}
    /\ sent = {}
    /\ events = 0

Init == C!Init /\ FwdInit

(***************************************************************************)
(* A readable event on a UDP listener (_readcb); when it hands a message  *)
(* to the forwarder, the processor runs on it within the same callback.   *)
(***************************************************************************)
Receive(l, peer, kind) ==
    /\ ReadCallback(l, peer, kind)
    /\ UNCHANGED configured
    /\ IF framesReceived' > framesReceived
       THEN \E p \in Packets :
              OnMessage(lastReceived'.conn, lastReceived'.pair, p)
       ELSE UNCHANGED fwdVars

ListenerCreate(l) ==
    /\ CreateInet(l) \/ CreateInet6(l)
    /\ UNCHANGED <<configured, fwdVars>>

ListenerDestroy(l) ==
    /\ Destroy(l)
    /\ UNCHANGED <<configured, fwdVars>>

ReceiveRecvError(l) ==
    /\ ReadCallbackRecvError(l)
    /\ UNCHANGED <<configured, fwdVars>>

ConfigAddConnection(pair) ==
    /\ events < MaxEvents
    /\ events' = events + 1
    /\ C!ConfigAddConnection(pair)
    /\ UNCHANGED <<pit, fib, cs, missives, down, timer, asked, sent>>

(***************************************************************************)
(* add route (spec 4.4): rejected (UnknownConnection) unless the id is in  *)
(* the connection table; remove route drops one nexthop.                   *)
(***************************************************************************)
AddRoute(prefix, c) ==
    /\ ~aborted
    /\ events < MaxEvents
    /\ events' = events + 1
    /\ FindById(c) # NoConnection
    /\ fib' = [fib EXCEPT ![prefix] = @ \cup {c}]
    /\ sent' = {}
    /\ UNCHANGED <<tableVars, aborted, nextConnectionId, udpVars, configured,
                   pit, cs, missives, down, timer, asked>>

RemoveRoute(prefix, c) ==
    /\ ~aborted
    /\ events < MaxEvents
    /\ events' = events + 1
    /\ c \in fib[prefix]
    /\ fib' = [fib EXCEPT ![prefix] = @ \ {c}]
    /\ sent' = {}
    /\ UNCHANGED <<tableVars, aborted, nextConnectionId, udpVars, configured,
                   pit, cs, missives, down, timer, asked>>

(***************************************************************************)
(* A connection's socket fails: it is no longer up and it sends a          *)
(* ConnectionClosed missive through the messenger.                         *)
(***************************************************************************)
ConnectionFails(c) ==
    /\ ~aborted
    /\ events < MaxEvents
    /\ events' = events + 1
    /\ Usable(c)
    /\ down' = down \cup {c}
    /\ missives' = MessengerSend(missives, c)
    /\ sent' = {}
    /\ UNCHANGED <<tableVars, aborted, nextConnectionId, udpVars, configured,
                   pit, fib, cs, timer, asked>>

(***************************************************************************)
(* The messenger's deferred cycle delivers the oldest missive; the         *)
(* connection manager removes the connection (RemoveById) and sweeps its   *)
(* id from every FIB nexthop set and every PIT entry, dropping entries     *)
(* left with no ingress.                                                   *)
(***************************************************************************)
DeliverMissive ==
    LET c == Head(missives)
        swept == [k \in DOMAIN pit |->
                    [pit[k] EXCEPT !.ingress = @ \ {c}, !.egress = @ \ {c}]]
    IN
    /\ ~aborted
    /\ missives # << >>
    /\ missives' = Tail(missives)
    /\ RemoveById(c)
    /\ fib' = [p \in Names |-> fib[p] \ {c}]
    /\ pit' = [k \in {x \in DOMAIN swept : swept[x].ingress # {}} |-> swept[k]]
    /\ down' = down \ {c}
    /\ sent' = {}
    /\ UNCHANGED <<aborted, nextConnectionId, udpVars, configured, cs, timer, asked, events>>

(***************************************************************************)
(* Time passes while the expiry timer runs: every entry and the timer are  *)
(* one tick nearer.  When the timer fires, the expired entries go and the  *)
(* timer is started again for the earliest remaining expiry (spec 4.3).    *)
(***************************************************************************)
Tick ==
    /\ ~aborted
    /\ timer > 0
    /\ timer' = timer - 1
    /\ pit' = [k \in DOMAIN pit |-> [pit[k] EXCEPT !.expiry = IF @ > 0 THEN @ - 1 ELSE 0]]
    /\ sent' = {}
    /\ UNCHANGED <<tableVars, aborted, nextConnectionId, udpVars, configured,
                   fib, cs, missives, down, asked, events>>

TimerFire ==
    LET live == {k \in DOMAIN pit : pit[k].expiry > 0} IN
    /\ ~aborted
    /\ timer = 0
    /\ pit' = [k \in live |-> pit[k]]
    /\ timer' = IF live = {} THEN NoTimer
                ELSE StartTimer(Sets!Min({pit[k].expiry : k \in live}))
    /\ sent' = {}
    /\ UNCHANGED <<tableVars, aborted, nextConnectionId, udpVars, configured,
                   fib, cs, missives, down, asked, events>>

\* The content store's own expiry or eviction of a cached object.
CsEvict(o) ==
    /\ ~aborted
    /\ cs' = cs \ {o}
    /\ sent' = {}
    /\ UNCHANGED <<tableVars, aborted, nextConnectionId, udpVars, configured,
                   pit, fib, missives, down, timer, asked, events>>

Next ==
    \/ \E l \in Locals : ListenerCreate(l) \/ ListenerDestroy(l) \/ ReceiveRecvError(l)
    \/ \E l \in Locals, peer \in Peers, kind \in DatagramKinds : Receive(l, peer, kind)
    \/ \E pair \in Pairs : ConfigAddConnection(pair)
    \/ \E prefix \in Names, c \in ConnectionIds : AddRoute(prefix, c) \/ RemoveRoute(prefix, c)
    \/ \E c \in ConnectionIds : ConnectionFails(c)
    \/ DeliverMissive
    \/ Tick
    \/ TimerFire
    \/ \E o \in cs : CsEvict(o)

(***************************************************************************)
(* The dispatcher runs every due timer and every scheduled event: the      *)
(* clock advances while the expiry timer is armed, the timer callback runs *)
(* once due, and the messenger's deferred cycle runs.  Packet arrivals and *)
(* configuration get no fairness.                                          *)
(***************************************************************************)
Fairness == WF_vars(Tick) /\ WF_vars(TimerFire) /\ WF_vars(DeliverMissive)

Spec == Init /\ [][Next]_vars /\ Fairness

-----------------------------------------------------------------------------
Keys == {BestKey(i) : i \in Interests}
Entries == [ingress : SUBSET ConnectionIds, egress : SUBSET ConnectionIds,
            expiry : 0 .. Lifetime]

TypeOK ==
    /\ C!TypeOK
    /\ DOMAIN pit \subseteq Keys
    /\ \A k \in DOMAIN pit : pit[k] \in Entries
    /\ fib \in [Names -> SUBSET ConnectionIds]
    /\ cs \subseteq Objects /\ Cardinality(cs) <= CsCapacity
    /\ missives \in Seq(ConnectionIds)
    /\ down \subseteq ConnectionIds
    /\ timer \in {NoTimer} \cup 0 .. Lifetime
    /\ events \in 0 .. MaxEvents

\* CCNx matching: an object answers an interest with the same name whose
\* KeyId and ContentObjectHash restrictions, where present, it meets.
Answers(o, i) ==
    /\ o.name = i.name
    /\ i.keyid \in {None, o.keyid}
    /\ i.hash \in {None, o.hash}

\* The listener's tagging law of Connections, checked with the forwarder
\* consuming the messages: every message _readcb hands on carries a live
\* connection of its sender as its ingress.
IngressIsLiveSender == C!IngressIsLiveSender

ObjectsOnlyToRequesters ==
    [][\A s \in sent' :
          s[2].type = "object" => \E a \in asked' : a[1] = s[1] /\ Answers(s[2], a[2])]_vars

(***************************************************************************)
(* Every pending interest ends: an entry in the PIT is eventually removed, *)
(* satisfied, swept or expired, unless the process has ended.  It needs   *)
(* the one-shot expiry timer to be started again after each firing and    *)
(* after the PIT goes from empty to non-empty.                             *)
(***************************************************************************)
PendingInterestsEnd ==
    \A k \in Keys : (k \in DOMAIN pit /\ ~aborted) ~> (k \notin DOMAIN pit \/ aborted)

=============================================================================
