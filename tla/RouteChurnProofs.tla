--------------------------- MODULE RouteChurnProofs ---------------------------
(***************************************************************************)
(* Proofs about the churn plugin, for every set of peers, prefixes, origins *)
(* and routes and every number of messages.  First, what it calls the active *)
(* routes of its peers are the tables the peers announce, and it knows which *)
(* sessions exchange their tables.  Then what it counts: the counters of the *)
(* run, of the peers and of the prefixes agree, no mass of events and no     *)
(* route time is lost, and ordinary churn is churn.                         *)
(***************************************************************************)
EXTENDS RouteChurn, NaturalFacts, FiniteSetTheorems, TLAPS

\* The state of the plugin.
RouteState(digests) ==
  [initialized : BOOLEAN, active : BOOLEAN, route : digests \cup {NoDigest},
   active_since : Nat, last_order : Int]
PeerData(ks) ==
  [established : BOOLEAN, sync_active : BOOLEAN, sync_started : Nat,
   baseline_complete : BOOLEAN, last_any_order : Int, active_route_ids : SUBSET ks]
Phase == {"unknown", "down", "resync", "dumped", "settled"}

TruthTypes ==
  /\ options \in Options /\ keys \in RouteKeys
  /\ table \in [keys -> Digest \cup {NoRoute}]
  /\ phase \in [Peer -> Phase]
  /\ changed \in [Peer -> Int] /\ sent \in [keys -> Int] /\ trusted \in [Peer -> BOOLEAN]
  /\ dumped \subseteq keys
  /\ messages \in 0..MaxMessages /\ overtaken \in 0..MaxOvertaken /\ now \in Times

PluginTypes ==
  /\ peers \in [Peer -> PeerData(keys)]
  /\ \A p \in Peer : peers[p].active_route_ids \subseteq KeysOf(p)
  /\ routes \in [keys -> RouteState(Digest)]
  /\ \A k \in keys : routes[k].active => routes[k].route \in Digest
  /\ current_rib_dump_peers \subseteq Peer

\* What the order check compares: the plugin's order of a key is that of the last
\* message about it, or of a later one that ended the session of its peer.
OrderInv ==
  /\ \A p \in Peer : changed[p] <= now
  /\ \A k \in keys :
       /\ routes[k].last_order <= OrderKey(now, FALSE)
       /\ sent[k] <= routes[k].last_order
       /\ routes[k].initialized \/ (routes[k].last_order = Never /\ ~routes[k].active)
       /\ sent[k] < routes[k].last_order =>
            routes[k].last_order <= OrderKey(changed[k[1]], FALSE)

TableInv ==
  /\ \A k \in keys :
       /\ k \in peers[k[1]].active_route_ids <=> routes[k].active
       /\ trusted[k[1]] /\ routes[k].initialized =>
            table[k] = IF routes[k].active THEN routes[k].route ELSE NoRoute
  /\ \A p \in Peer : phase[p] = "down" => peers[p].active_route_ids = {}

Inv == TruthTypes /\ PluginTypes /\ OrderInv /\ TableInv

-----------------------------------------------------------------------------
(* Keys, orders and times.                                                 *)

LEMMA KeyFacts ==
  ASSUME keys \in RouteKeys
  PROVE  /\ keys \subseteq Peer \X Prefix
         /\ \A k \in keys : k[1] \in Peer /\ k[2] \in Prefix /\ k = <<k[1], k[2]>>
         /\ \A p \in Peer : KeysOf(p) = {k \in keys : k[1] = p}
         /\ PeersOf(keys) \subseteq Peer
<1>1. keys \subseteq Peer \X Prefix
  BY ChurnAssumption
<1> QED
  BY <1>1 DEF KeysOf, PeersOf

LEMMA OrderFacts ==
  ASSUME NEW t \in Nat, NEW late \in BOOLEAN
  PROVE  /\ OrderKey(t, late) \in Nat
         /\ OrderKey(t, TRUE) = 2 * t /\ OrderKey(t, FALSE) = 2 * t + 1
         /\ OrderKey(t, late) = 2 * t \/ OrderKey(t, late) = 2 * t + 1
BY DEF OrderKey

LEMMA TimeFacts ==
  /\ Times \subseteq Nat
  /\ \A o \in Options : o.warmup \in Nat /\ o.grace \in Nat /\ o.assume_complete \in BOOLEAN
BY ChurnAssumption

\* The condition under which an announcement repeats the route held determines the
\* whole route.
LEMMA NoChangeSameRoute ==
  ASSUME NEW d \in Digest, NEW e \in Digest, ChangeMask(d, e) = {}
  PROVE  d = e
<1>1. d.as_path = e.as_path /\ d.origin_set = e.origin_set /\ d.attributes = e.attributes
  BY DEF ChangeMask
<1> QED
  BY <1>1, ChurnAssumption

-----------------------------------------------------------------------------
(* What a message does to the truth and the plugin's tables.               *)

\* The route of k becomes d, or none, and the order of k that of the message.
Accepts(k, order, d) ==
  /\ \E r \in RouteState(Digest) :
       /\ r.initialized /\ r.last_order = order
       /\ IF d = NoRoute THEN ~r.active ELSE r.active /\ r.route = d
       /\ routes' = [routes EXCEPT ![k] = r]
  /\ peers' \in [Peer -> PeerData(keys)]
  /\ \A q \in Peer : peers'[q].active_route_ids =
       IF q # k[1] THEN peers[q].active_route_ids
       ELSE IF d = NoRoute THEN peers[q].active_route_ids \ {k}
            ELSE peers[q].active_route_ids \cup {k}

\* The order check drops the message or lets it pass.
Decides(k, order, d) ==
  \/ /\ order < routes[k].last_order
     /\ UNCHANGED <<routes, peers>>
  \/ /\ ~(order < routes[k].last_order)
     /\ Accepts(k, order, d)

\* An announcement or a withdrawal of k.
UpdateStep(k, t, late, d) ==
  /\ k \in keys /\ d \in Digest \cup {NoRoute}
  /\ phase[k[1]] # "down"
  /\ Receive(k[1], t, OrderKey(t, late))
  /\ Update(k, t, OrderKey(t, late), d)
  /\ Decides(k, OrderKey(t, late), d)
  /\ UNCHANGED <<setup, current_rib_dump_peers>>

\* An element of a dump about k.
DumpStep(k, t, late) ==
  /\ k \in keys
  /\ phase[k[1]] # "down" /\ table[k] # NoRoute
  /\ Receive(k[1], t, OrderKey(t, late))
  /\ sent' = [sent EXCEPT ![k] = Later(@, OrderKey(t, late))]
  /\ dumped' \subseteq keys
  /\ phase' \in [Peer -> Phase] /\ \A q \in Peer : phase'[q] = "down" => phase[q] = "down"
  /\ Decides(k, OrderKey(t, late), table[k])
  /\ current_rib_dump_peers' \subseteq Peer
  /\ UNCHANGED <<table, changed, trusted, setup>>

\* The session of p ends, or begins anew.
SessionStep(p, t) ==
  /\ Receive(p, t, OrderKey(t, FALSE))
  /\ \E state \in Phase : SessionChange(p, t, state, KeysOf(p))
  /\ routes' = ResetRoutes(p, OrderKey(t, FALSE))
  /\ peers' \in [Peer -> PeerData(keys)]
  /\ \A q \in Peer : peers'[q].active_route_ids =
       IF q = p THEN {} ELSE peers[q].active_route_ids
  /\ UNCHANGED <<setup, current_rib_dump_peers>>

\* Any other message of p.
OtherStep(p, t) ==
  /\ \E order \in Int : Receive(p, t, order)
  /\ phase' \in [Peer -> Phase] /\ \A q \in Peer : phase'[q] = "down" => phase[q] = "down"
  /\ changed' = changed \/ changed' = [changed EXCEPT ![p] = t]
  /\ trusted' \in [Peer -> BOOLEAN] /\ \A q \in Peer : trusted'[q] => trusted[q]
  /\ dumped' = {}
  /\ peers' \in [Peer -> PeerData(keys)]
  /\ \A q \in Peer : peers'[q].active_route_ids = peers[q].active_route_ids
  /\ UNCHANGED <<setup, table, sent, routes, current_rib_dump_peers>>

LEMMA SyncFacts ==
  ASSUME TruthTypes, PluginTypes, NEW p \in Peer, NEW t \in Nat
  PROVE  SyncActive(p, t) \in BOOLEAN /\ BaselineComplete(p, t) \in BOOLEAN
<1>1. /\ peers[p].sync_active \in BOOLEAN /\ peers[p].baseline_complete \in BOOLEAN
      /\ peers[p].sync_started \in Nat
      /\ options.grace \in Nat
  BY TimeFacts DEF TruthTypes, PluginTypes, PeerData
<1>2. SyncExpired(p, t) \in BOOLEAN
  BY <1>1 DEF SyncExpired
<1> QED
  BY <1>1, <1>2 DEF SyncActive, BaselineComplete

\* The peer after an accepted update of one of its keys.
LEMMA AcceptedPeer ==
  ASSUME TruthTypes, PluginTypes, NEW p \in Peer, NEW t \in Nat, NEW order \in Int,
         NEW ids \in SUBSET keys,
         peers' = [peers EXCEPT ![p] = AfterUpdate(p, t, order, ids)]
  PROVE  /\ peers' \in [Peer -> PeerData(keys)]
         /\ peers'[p].active_route_ids = ids
         /\ \A q \in Peer : q # p => peers'[q].active_route_ids = peers[q].active_route_ids
<1>1. peers \in [Peer -> PeerData(keys)] /\ peers[p] \in PeerData(keys)
  BY DEF PluginTypes
<1>2. Later(peers[p].last_any_order, order) \in Int
  BY <1>1 DEF Later, PeerData
<1>3. /\ AfterUpdate(p, t, order, ids) \in PeerData(keys)
      /\ AfterUpdate(p, t, order, ids).active_route_ids = ids
  BY <1>1, <1>2, SyncFacts DEF AfterUpdate, PeerData
<1> QED
  BY <1>1, <1>3

LEMMA AnnouncementIsUpdate ==
  ASSUME Inv, NEW p \in Peer, NEW x \in Prefix, NEW d \in Digest, Announcement(p, x, d)
  PROVE  \E t \in Times, late \in BOOLEAN : UpdateStep(<<p, x>>, t, late, d)
<1> DEFINE k == <<p, x>>
<1>1. PICK t \in Times, late \in BOOLEAN :
        /\ k \in keys /\ phase[p] # "down"
        /\ Receive(p, t, OrderKey(t, late))
        /\ Update(k, t, OrderKey(t, late), d)
        /\ UNCHANGED setup
        /\ \/ /\ RouteEventIsLate(k, OrderKey(t, late))
              /\ UNCHANGED plugin
           \/ /\ ~RouteEventIsLate(k, OrderKey(t, late))
              /\ routes' = [routes EXCEPT ![k] =
                    IF AnnouncementOutcome(k, d, t) = "duplicate_announcements"
                    THEN [@ EXCEPT !.last_order = OrderKey(t, late)]
                    ELSE Installed(d, t, OrderKey(t, late))]
              /\ peers' = [peers EXCEPT ![p] =
                    AfterUpdate(p, t, OrderKey(t, late), peers[p].active_route_ids \cup {k})]
              /\ UNCHANGED current_rib_dump_peers
  BY DEF Announcement, CountLate, rib_dump
<1> DEFINE order == OrderKey(t, late)
<1>2. order \in Int /\ t \in Nat /\ k[1] = p
  <2>1. t \in Nat
    BY TimeFacts
  <2>2. OrderKey(t, late) \in Nat
    BY <2>1, OrderFacts
  <2> QED
    BY <2>1, <2>2
<1>3. /\ peers[p] \in PeerData(keys) /\ peers[p].active_route_ids \subseteq keys
      /\ routes[k] \in RouteState(Digest) /\ routes \in [keys -> RouteState(Digest)]
      /\ peers \in [Peer -> PeerData(keys)]
      /\ routes[k].active => routes[k].route \in Digest
      /\ routes[k].initialized \/ ~routes[k].active
  BY <1>1 DEF Inv, PluginTypes, PeerData, OrderInv
<1>4. d # NoRoute
  BY ChurnAssumption
<1>5. ASSUME ~RouteEventIsLate(k, order),
             routes' = [routes EXCEPT ![k] =
                IF AnnouncementOutcome(k, d, t) = "duplicate_announcements"
                THEN [@ EXCEPT !.last_order = order]
                ELSE Installed(d, t, order)],
             peers' = [peers EXCEPT ![p] =
                AfterUpdate(p, t, order, peers[p].active_route_ids \cup {k})]
      PROVE  Accepts(k, order, d)
  <2>1. \E r \in RouteState(Digest) :
          /\ r.initialized /\ r.last_order = order /\ r.active = TRUE /\ r.route = d
          /\ routes' = [routes EXCEPT ![k] = r]
    <3>1. CASE AnnouncementOutcome(k, d, t) = "duplicate_announcements"
      <4>1. routes[k].active /\ ChangeMask(routes[k].route, d) = {}
        BY <3>1, <1>3 DEF AnnouncementOutcome, RouteState
      <4>2. routes[k].route = d
        BY <4>1, <1>3, NoChangeSameRoute
      <4> DEFINE r == [routes[k] EXCEPT !.last_order = order]
      <4>3. r \in RouteState(Digest) /\ r.initialized /\ r.last_order = order /\ r.active = TRUE
            /\ r.route = d
        BY <4>1, <4>2, <1>2, <1>3 DEF RouteState
      <4> QED
        BY <1>5, <3>1, <4>3
    <3>2. CASE AnnouncementOutcome(k, d, t) # "duplicate_announcements"
      <4> DEFINE r == Installed(d, t, order)
      <4>1. Later(t, options.warmup) \in Nat
        BY <1>2, TimeFacts DEF Later, Inv, TruthTypes
      <4>2. r \in RouteState(Digest) /\ r.initialized /\ r.last_order = order /\ r.active = TRUE
            /\ r.route = d
        BY <4>1, <1>2 DEF RouteState, Installed
      <4> QED
        BY <1>5, <3>2, <4>2
    <3> QED
      BY <3>1, <3>2
  <2>4. /\ peers' \in [Peer -> PeerData(keys)]
        /\ peers'[p].active_route_ids = peers[p].active_route_ids \cup {k}
        /\ \A q \in Peer : q # p => peers'[q].active_route_ids = peers[q].active_route_ids
    <3>1. peers[p].active_route_ids \cup {k} \in SUBSET keys
      BY <1>1, <1>3
    <3> QED
      BY <3>1, <1>2, <1>5, AcceptedPeer DEF Inv
  <2> QED
    BY <2>1, <2>4, <1>2, <1>4 DEF Accepts
<1>6. Decides(k, order, d)
  BY <1>1, <1>5 DEF Decides, RouteEventIsLate, plugin
<1>7. UNCHANGED <<setup, current_rib_dump_peers>>
  BY <1>1 DEF plugin, rib_dump
<1> QED
  BY <1>1, <1>2, <1>6, <1>7 DEF UpdateStep

LEMMA WithdrawalIsUpdate ==
  ASSUME Inv, NEW p \in Peer, NEW x \in Prefix, Withdrawal(p, x)
  PROVE  \E t \in Times, late \in BOOLEAN : UpdateStep(<<p, x>>, t, late, NoRoute)
<1> DEFINE k == <<p, x>>
<1>1. PICK t \in Times, late \in BOOLEAN :
        /\ k \in keys /\ phase[p] # "down"
        /\ Receive(p, t, OrderKey(t, late))
        /\ Update(k, t, OrderKey(t, late), NoRoute)
        /\ UNCHANGED setup
        /\ \/ /\ RouteEventIsLate(k, OrderKey(t, late))
              /\ UNCHANGED plugin
           \/ /\ ~RouteEventIsLate(k, OrderKey(t, late))
              /\ routes' = [routes EXCEPT ![k] =
                    [@ EXCEPT !.initialized = TRUE, !.active = FALSE,
                              !.last_order = OrderKey(t, late)]]
              /\ peers' = [peers EXCEPT ![p] =
                    AfterUpdate(p, t, OrderKey(t, late), peers[p].active_route_ids \ {k})]
              /\ UNCHANGED current_rib_dump_peers
  BY DEF Withdrawal, CountLate, rib_dump
<1> DEFINE order == OrderKey(t, late)
<1>2. order \in Int /\ t \in Nat /\ k[1] = p
  <2>1. t \in Nat
    BY TimeFacts
  <2>2. OrderKey(t, late) \in Nat
    BY <2>1, OrderFacts
  <2> QED
    BY <2>1, <2>2
<1>3. /\ peers[p] \in PeerData(keys) /\ peers[p].active_route_ids \subseteq keys
      /\ routes[k] \in RouteState(Digest) /\ routes \in [keys -> RouteState(Digest)]
      /\ peers \in [Peer -> PeerData(keys)]
  BY <1>1 DEF Inv, PluginTypes, PeerData, OrderInv
<1>5. ASSUME ~RouteEventIsLate(k, order),
             routes' = [routes EXCEPT ![k] =
                [@ EXCEPT !.initialized = TRUE, !.active = FALSE, !.last_order = order]],
             peers' = [peers EXCEPT ![p] =
                AfterUpdate(p, t, order, peers[p].active_route_ids \ {k})]
      PROVE  Accepts(k, order, NoRoute)
  <2>1. \E r \in RouteState(Digest) :
          /\ r.initialized /\ r.last_order = order /\ r.active = FALSE
          /\ routes' = [routes EXCEPT ![k] = r]
    <3> DEFINE r == [routes[k] EXCEPT !.initialized = TRUE, !.active = FALSE,
                                      !.last_order = order]
    <3>1. r \in RouteState(Digest) /\ r.initialized /\ r.last_order = order /\ r.active = FALSE
      BY <1>2, <1>3 DEF RouteState
    <3> QED
      BY <1>5, <3>1
  <2>4. /\ peers' \in [Peer -> PeerData(keys)]
        /\ peers'[p].active_route_ids = peers[p].active_route_ids \ {k}
        /\ \A q \in Peer : q # p => peers'[q].active_route_ids = peers[q].active_route_ids
    <3>1. peers[p].active_route_ids \ {k} \in SUBSET keys
      BY <1>1, <1>3
    <3> QED
      BY <3>1, <1>2, <1>5, AcceptedPeer DEF Inv
  <2> QED
    BY <2>1, <2>4, <1>2 DEF Accepts
<1>6. Decides(k, order, NoRoute)
  BY <1>1, <1>5 DEF Decides, RouteEventIsLate, plugin
<1>7. UNCHANGED <<setup, current_rib_dump_peers>>
  BY <1>1 DEF plugin, rib_dump
<1> QED
  BY <1>1, <1>2, <1>6, <1>7 DEF UpdateStep

LEMMA RibElementIsDump ==
  ASSUME Inv, NEW p \in Peer, NEW x \in Prefix, RibElement(p, x)
  PROVE  \E t \in Times, late \in BOOLEAN : DumpStep(<<p, x>>, t, late)
<1> DEFINE k == <<p, x>>
           known(order) == [peers EXCEPT ![p] = AfterElement(k, order)]
           read(position, t) ==
             IF position = "start" \/ current_rib_dump_timestamp # t THEN {p}
             ELSE current_rib_dump_peers \cup {p}
<1>0. PICK t \in Times, late \in BOOLEAN, position \in RibPosition(<<p, x>>) :
        /\ k \in keys /\ phase[p] # "down" /\ table[k] # NoRoute
        /\ Receive(p, t, OrderKey(t, late))
        /\ sent' = [sent EXCEPT ![k] = Later(@, OrderKey(t, late))]
        /\ dumped' = IF position = "end" THEN {} ELSE dumped \cup {k}
        /\ phase' = IF position # "end" THEN phase
                    ELSE [q \in Peer |-> IF q \in PeersOf(dumped \cup {k})
                                         THEN "dumped" ELSE phase[q]]
        /\ UNCHANGED <<table, changed, trusted, setup>>
        /\ HandleRib(k, t, OrderKey(t, late), position)
  BY DEF RibElement
<1>1. /\ k \in keys /\ phase[p] # "down" /\ table[k] # NoRoute
      /\ Receive(p, t, OrderKey(t, late))
      /\ sent' = [sent EXCEPT ![k] = Later(@, OrderKey(t, late))]
      /\ dumped' = IF position = "end" THEN {} ELSE dumped \cup {k}
      /\ phase' = IF position # "end" THEN phase
                  ELSE [q \in Peer |-> IF q \in PeersOf(dumped \cup {k})
                                       THEN "dumped" ELSE phase[q]]
      /\ UNCHANGED <<table, changed, trusted, setup>>
      /\ \/ /\ RouteEventIsLate(k, OrderKey(t, late))
            /\ UNCHANGED plugin
         \/ /\ ~RouteEventIsLate(k, OrderKey(t, late))
            /\ routes' = [routes EXCEPT ![k] = Installed(table[k], t, OrderKey(t, late))]
            /\ peers' = IF position = "end" THEN AfterDump(known(OrderKey(t, late)), read(position, t))
                         ELSE known(OrderKey(t, late))
            /\ current_rib_dump_peers' = IF position = "end" THEN {} ELSE read(position, t)
  BY <1>0 DEF HandleRib, CountLate
<1> DEFINE order == OrderKey(t, late)
<1>2. order \in Int /\ t \in Nat /\ k[1] = p
  <2>1. t \in Nat
    BY TimeFacts
  <2>2. OrderKey(t, late) \in Nat
    BY <2>1, OrderFacts
  <2> QED
    BY <2>1, <2>2
<1>3. /\ peers[p] \in PeerData(keys) /\ peers[p].active_route_ids \subseteq keys
      /\ routes[k] \in RouteState(Digest) /\ routes \in [keys -> RouteState(Digest)]
      /\ peers \in [Peer -> PeerData(keys)]
      /\ table[k] \in Digest
      /\ phase \in [Peer -> Phase] /\ dumped \subseteq keys
      /\ current_rib_dump_peers \subseteq Peer
  BY <1>1 DEF Inv, PluginTypes, TruthTypes, PeerData
<1>4. ASSUME routes' = [routes EXCEPT ![k] = Installed(table[k], t, order)],
             peers' = IF position = "end" THEN AfterDump(known(order), read(position, t))
                      ELSE known(order)
      PROVE  Accepts(k, order, table[k])
  <2>1. \E r \in RouteState(Digest) :
          /\ r.initialized /\ r.last_order = order /\ r.active = TRUE /\ r.route = table[k]
          /\ routes' = [routes EXCEPT ![k] = r]
    <3> DEFINE r == Installed(table[k], t, order)
    <3>1. Later(t, options.warmup) \in Nat
      BY <1>2, TimeFacts DEF Later, Inv, TruthTypes
    <3>2. r \in RouteState(Digest) /\ r.initialized /\ r.last_order = order /\ r.active = TRUE
          /\ r.route = table[k]
      BY <3>1, <1>2, <1>3 DEF RouteState, Installed
    <3> QED
      BY <1>4, <3>2
  <2>2. /\ known(order) \in [Peer -> PeerData(keys)]
        /\ known(order)[p].active_route_ids = peers[p].active_route_ids \cup {k}
        /\ \A q \in Peer : q # p => known(order)[q] = peers[q]
    <3>1. Later(peers[p].last_any_order, order) \in Int
      BY <1>2, <1>3 DEF Later, PeerData
    <3>2. /\ AfterElement(k, order) \in PeerData(keys)
          /\ AfterElement(k, order).active_route_ids = peers[p].active_route_ids \cup {k}
      BY <1>1, <1>3, <3>1 DEF PeerData, AfterElement
    <3> QED
      BY <1>3, <3>2
  <2> HIDE DEF known, read
  <2>3. ASSUME NEW q \in Peer
        PROVE  /\ peers'[q] \in PeerData(keys)
               /\ peers'[q].active_route_ids = known(order)[q].active_route_ids
    <3> DEFINE ended == [known(order)[q] EXCEPT !.baseline_complete = TRUE,
                                                !.sync_active = FALSE]
    <3>1. peers'[q] = known(order)[q] \/ peers'[q] = ended
      BY <1>4 DEF AfterDump
    <3>2. known(order)[q] \in PeerData(keys)
      BY <2>2
    <3>3. ended \in PeerData(keys) /\ ended.active_route_ids = known(order)[q].active_route_ids
      BY <3>2 DEF PeerData
    <3> HIDE DEF ended
    <3> QED
      BY <3>1, <3>2, <3>3
  <2>4. peers' \in [Peer -> PeerData(keys)]
    <3>1. peers' = [q \in Peer |-> peers'[q]]
      BY <1>4, <2>2 DEF AfterDump
    <3> QED
      BY <2>3, <3>1
  <2>5. table[k] # NoRoute
    BY <1>1
  <2> QED
    BY <2>1, <2>2, <2>3, <2>4, <2>5, <1>2 DEF Accepts
<1> HIDE DEF known
<1>5. Decides(k, order, table[k])
  BY <1>1, <1>4 DEF Decides, RouteEventIsLate, plugin
<1>6. current_rib_dump_peers' \subseteq Peer
  BY <1>1, <1>3 DEF plugin, rib_dump
<1>7. dumped' \subseteq keys
  BY <1>1, <1>3
<1>8. phase' \in [Peer -> Phase] /\ \A q \in Peer : phase'[q] = "down" => phase[q] = "down"
  BY <1>1, <1>3 DEF Phase
<1> QED
  BY <1>1, <1>2, <1>5, <1>6, <1>7, <1>8 DEF DumpStep

LEMMA PeerDownIsSession ==
  ASSUME Inv, NEW p \in Peer, PeerDown(p)
  PROVE  \E t \in Times : SessionStep(p, t)
<1>1. PICK t \in Times :
        /\ Receive(p, t, OrderKey(t, FALSE))
        /\ SessionChange(p, t, "down", KeysOf(p))
        /\ routes' = ResetRoutes(p, OrderKey(t, FALSE))
        /\ peers' = [peers EXCEPT ![p] =
              [@ EXCEPT !.last_any_order = OrderKey(t, FALSE), !.established = FALSE,
                        !.sync_active = FALSE, !.baseline_complete = FALSE,
                        !.active_route_ids = {}]]
        /\ UNCHANGED <<setup, current_rib_dump_peers>>
  BY DEF PeerDown, ResetPeerRoutes, rib_dump
<1>2. OrderKey(t, FALSE) \in Int
  BY TimeFacts DEF OrderKey
<1>3. peers \in [Peer -> PeerData(keys)] /\ peers[p] \in PeerData(keys)
  BY DEF Inv, PluginTypes
<1> DEFINE new == [peers[p] EXCEPT !.last_any_order = OrderKey(t, FALSE), !.established = FALSE,
                        !.sync_active = FALSE, !.baseline_complete = FALSE,
                        !.active_route_ids = {}]
<1>4. new \in PeerData(keys) /\ new.active_route_ids = {}
  BY <1>2, <1>3 DEF PeerData
<1>5. peers' = [peers EXCEPT ![p] = new]
  BY <1>1
<1> HIDE DEF new
<1>6. /\ peers' \in [Peer -> PeerData(keys)]
      /\ \A q \in Peer : peers'[q].active_route_ids =
           IF q = p THEN {} ELSE peers[q].active_route_ids
  BY <1>3, <1>4, <1>5
<1>7. "down" \in Phase
  BY DEF Phase
<1> QED
  BY <1>1, <1>6, <1>7 DEF SessionStep

LEMMA PeerUpIsSession ==
  ASSUME Inv, NEW p \in Peer, PeerUp(p)
  PROVE  \E t \in Times : SessionStep(p, t)
<1>1. PICK t \in Times :
        /\ phase[p] = "down" \/ peers[p].established
        /\ Receive(p, t, OrderKey(t, FALSE))
        /\ SessionChange(p, t, "resync", KeysOf(p))
        /\ \/ routes' = ResetRoutes(p, OrderKey(t, FALSE))
           \/ /\ ~(peers[p].established /\ peers[p].active_route_ids # {})
              /\ UNCHANGED routes
        /\ peers' = [peers EXCEPT ![p] =
              [@ EXCEPT !.last_any_order = OrderKey(t, FALSE), !.established = TRUE,
                        !.sync_active = TRUE, !.baseline_complete = FALSE, !.sync_started = t,
                        !.active_route_ids = IF peers[p].established THEN {}
                                             ELSE peers[p].active_route_ids]]
        /\ UNCHANGED <<setup, current_rib_dump_peers>>
  BY DEF PeerUp, ResetPeerRoutes, rib_dump
<1>2. OrderKey(t, FALSE) \in Int /\ t \in Nat
  BY TimeFacts DEF OrderKey
<1>3. /\ peers \in [Peer -> PeerData(keys)] /\ peers[p] \in PeerData(keys)
      /\ routes \in [keys -> RouteState(Digest)]
      /\ phase[p] = "down" => peers[p].active_route_ids = {}
  BY DEF Inv, PluginTypes, TableInv
<1>4. peers[p].established \/ peers[p].active_route_ids = {}
  BY <1>1, <1>3
<1> DEFINE new == [peers[p] EXCEPT !.last_any_order = OrderKey(t, FALSE), !.established = TRUE,
                        !.sync_active = TRUE, !.baseline_complete = FALSE, !.sync_started = t,
                        !.active_route_ids = IF peers[p].established THEN {}
                                             ELSE peers[p].active_route_ids]
<1>5. new \in PeerData(keys) /\ new.active_route_ids = {}
  <2>1. (IF peers[p].established THEN {} ELSE peers[p].active_route_ids) = {}
    BY <1>4
  <2> QED
    BY <1>2, <1>3, <2>1 DEF PeerData
<1>6. peers' = [peers EXCEPT ![p] = new]
  BY <1>1
<1> HIDE DEF new
<1>7. /\ peers' \in [Peer -> PeerData(keys)]
      /\ \A q \in Peer : peers'[q].active_route_ids =
           IF q = p THEN {} ELSE peers[q].active_route_ids
  BY <1>3, <1>5, <1>6
<1>8. routes' = ResetRoutes(p, OrderKey(t, FALSE))
  <2> SUFFICES ASSUME ~(peers[p].established /\ peers[p].active_route_ids # {}),
                      UNCHANGED routes
               PROVE  routes' = ResetRoutes(p, OrderKey(t, FALSE))
    BY <1>1
  <2>1. peers[p].active_route_ids = {}
    BY <1>4
  <2>2. ResetRoutes(p, OrderKey(t, FALSE)) = [k \in keys |-> routes[k]]
    BY <2>1 DEF ResetRoutes
  <2> QED
    BY <2>2, <1>3
<1>9. "resync" \in Phase
  BY DEF Phase
<1> QED
  BY <1>1, <1>7, <1>8, <1>9 DEF SessionStep

LEMMA EndOfRibIsOther ==
  ASSUME Inv, NEW p \in Peer, EndOfRib(p)
  PROVE  \E t \in Times : OtherStep(p, t)
<1>1. PICK t \in Times :
        /\ phase[p] \in {"resync", "dumped", "settled"}
        /\ Receive(p, t, OrderKey(t, FALSE))
        /\ SessionChange(p, t, "settled", {})
        /\ peers' = [peers EXCEPT ![p] =
              [@ EXCEPT !.last_any_order = OrderKey(t, FALSE), !.sync_active = FALSE,
                        !.baseline_complete = TRUE]]
        /\ UNCHANGED <<setup, routes, current_rib_dump_peers>>
  BY DEF EndOfRib, rib_dump
<1>2. OrderKey(t, FALSE) \in Int /\ t \in Nat
  BY TimeFacts DEF OrderKey
<1>3. /\ peers \in [Peer -> PeerData(keys)] /\ peers[p] \in PeerData(keys)
      /\ phase \in [Peer -> Phase] /\ trusted \in [Peer -> BOOLEAN]
      /\ table \in [keys -> Digest \cup {NoRoute}]
  BY DEF Inv, TruthTypes, PluginTypes
<1> DEFINE new == [peers[p] EXCEPT !.last_any_order = OrderKey(t, FALSE), !.sync_active = FALSE,
                        !.baseline_complete = TRUE]
<1>4. new \in PeerData(keys) /\ new.active_route_ids = peers[p].active_route_ids
  BY <1>2, <1>3 DEF PeerData
<1>5. peers' = [peers EXCEPT ![p] = new]
  BY <1>1
<1> HIDE DEF new
<1>6. /\ peers' \in [Peer -> PeerData(keys)]
      /\ \A q \in Peer : peers'[q].active_route_ids = peers[q].active_route_ids
  BY <1>3, <1>4, <1>5
<1>7. phase' \in [Peer -> Phase] /\ \A q \in Peer : phase'[q] = "down" => phase[q] = "down"
  BY <1>1, <1>3 DEF SessionChange, Phase
<1>8. table' = table
  <2>1. table' = [k \in keys |-> table[k]]
    BY <1>1 DEF SessionChange
  <2> QED
    BY <2>1, <1>3
<1>9. changed' = [changed EXCEPT ![p] = t] /\ UNCHANGED <<sent, trusted>> /\ dumped' = {}
  BY <1>1 DEF SessionChange, DumpIsOver
<1> QED
  BY <1>1, <1>2, <1>3, <1>6, <1>7, <1>8, <1>9 DEF OtherStep

LEMMA LateSessionMessageIsOther ==
  ASSUME Inv, NEW p \in Peer, LateSessionMessage(p)
  PROVE  \E t \in Times : OtherStep(p, t)
<1>1. PICK t \in Times :
        /\ Receive(p, t, OrderKey(t, TRUE))
        /\ trusted' = [trusted EXCEPT ![p] = FALSE]
        /\ dumped' = {}
        /\ UNCHANGED <<setup, table, phase, changed, sent, plugin>>
  BY DEF LateSessionMessage, DumpIsOver
<1>2. OrderKey(t, TRUE) \in Int
  BY TimeFacts DEF OrderKey
<1>3. /\ peers \in [Peer -> PeerData(keys)]
      /\ phase \in [Peer -> Phase] /\ trusted \in [Peer -> BOOLEAN]
  BY DEF Inv, TruthTypes, PluginTypes
<1> QED
  BY <1>1, <1>2, <1>3 DEF OtherStep, plugin, rib_dump

-----------------------------------------------------------------------------
(* Each of those steps preserves the invariant.                            *)

LEMMA ReceiveFacts ==
  ASSUME TruthTypes, NEW p, NEW t \in Times, NEW order, Receive(p, t, order)
  PROVE  /\ messages' \in 0..MaxMessages /\ overtaken' \in 0..MaxOvertaken
         /\ now' = t /\ now <= t /\ t \in Nat /\ now \in Nat
<1>1. messages \in 0..MaxMessages /\ overtaken \in 0..MaxOvertaken /\ now \in Times
  BY DEF TruthTypes
<1>2. /\ messages < MaxMessages /\ messages' = messages + 1
      /\ t >= now /\ now' = t
      /\ overtaken' = overtaken \/ (overtaken < MaxOvertaken /\ overtaken' = overtaken + 1)
  BY DEF Receive
<1>3. MaxMessages \in Nat /\ MaxOvertaken \in Nat
  BY ChurnAssumption
<1> QED
  BY <1>1, <1>2, <1>3, TimeFacts

\* The route of k and its peer after a message about k.
Decided(k, order, d) ==
  \/ /\ order < routes[k].last_order
     /\ routes'[k] = routes[k]
     /\ peers' = peers
  \/ /\ ~(order < routes[k].last_order)
     /\ routes'[k].initialized /\ routes'[k].last_order = order
     /\ IF d = NoRoute THEN ~routes'[k].active ELSE routes'[k].active /\ routes'[k].route = d
     /\ peers'[k[1]].active_route_ids =
          IF d = NoRoute THEN peers[k[1]].active_route_ids \ {k}
          ELSE peers[k[1]].active_route_ids \cup {k}

\* The routes and the peers after a message about k.
LEMMA DecidesFacts ==
  ASSUME Inv, NEW k \in keys, NEW order \in Int, NEW d \in Digest \cup {NoRoute},
         Decides(k, order, d)
  PROVE  /\ routes' \in [keys -> RouteState(Digest)]
         /\ peers' \in [Peer -> PeerData(keys)]
         /\ \A j \in keys : j # k => routes'[j] = routes[j]
         /\ \A q \in Peer : q # k[1] =>
              peers'[q].active_route_ids = peers[q].active_route_ids
         /\ Decided(k, order, d)
<1>1. /\ routes \in [keys -> RouteState(Digest)] /\ peers \in [Peer -> PeerData(keys)]
      /\ k[1] \in Peer
  BY KeyFacts DEF Inv, PluginTypes, TruthTypes
<1>2. CASE order < routes[k].last_order /\ UNCHANGED <<routes, peers>>
  BY <1>1, <1>2 DEF Decided
<1>3. CASE ~(order < routes[k].last_order) /\ Accepts(k, order, d)
  <2>1. PICK r \in RouteState(Digest) :
          /\ r.initialized /\ r.last_order = order
          /\ IF d = NoRoute THEN ~r.active ELSE r.active /\ r.route = d
          /\ routes' = [routes EXCEPT ![k] = r]
    BY <1>3 DEF Accepts
  <2>2. routes'[k] = r /\ routes' \in [keys -> RouteState(Digest)]
        /\ \A j \in keys : j # k => routes'[j] = routes[j]
    BY <1>1, <2>1
  <2>3. /\ peers' \in [Peer -> PeerData(keys)]
        /\ \A q \in Peer : peers'[q].active_route_ids =
             IF q # k[1] THEN peers[q].active_route_ids
             ELSE IF d = NoRoute THEN peers[q].active_route_ids \ {k}
                  ELSE peers[q].active_route_ids \cup {k}
    BY <1>3 DEF Accepts
  <2> QED
    BY <1>1, <1>3, <2>1, <2>2, <2>3 DEF Decided
<1> QED
  BY <1>2, <1>3 DEF Decides

\* The types of the plugin's tables after a message about k.
LEMMA DecidesTypes ==
  ASSUME Inv, NEW k \in keys, NEW order \in Int, NEW d \in Digest \cup {NoRoute},
         Decides(k, order, d), keys' = keys, current_rib_dump_peers' \subseteq Peer
  PROVE  PluginTypes'
<1>1. /\ k[1] \in Peer /\ KeysOf(k[1]) \subseteq keys /\ k \in KeysOf(k[1])
      /\ \A p \in Peer : KeysOf(p)' = KeysOf(p)
  BY KeyFacts DEF Inv, TruthTypes, KeysOf
<1>2. /\ \A p \in Peer : peers[p].active_route_ids \subseteq KeysOf(p)
      /\ \A j \in keys : routes[j].active => routes[j].route \in Digest
  BY DEF Inv, PluginTypes
<1>3. ASSUME NEW p \in Peer
      PROVE  peers'[p].active_route_ids \subseteq KeysOf(p)
  <2>1. CASE p # k[1]
    BY <2>1, <1>2, DecidesFacts
  <2>2. CASE p = k[1]
    <3>1. peers[p].active_route_ids \subseteq KeysOf(p) /\ k \in KeysOf(p)
      BY <1>1, <1>2, <2>2
    <3>2. \/ peers' = peers
          \/ peers'[p].active_route_ids = peers[p].active_route_ids \ {k}
          \/ peers'[p].active_route_ids = peers[p].active_route_ids \cup {k}
      BY <2>2, DecidesFacts DEF Decided
    <3> QED
      BY <3>1, <3>2
  <2> QED
    BY <2>1, <2>2
<1>4. ASSUME NEW j \in keys, routes'[j].active
      PROVE  routes'[j].route \in Digest
  <2>1. CASE j # k
    BY <2>1, <1>2, <1>4, DecidesFacts
  <2>2. CASE j = k
    <3>1. \/ routes'[k] = routes[k]
          \/ d # NoRoute /\ routes'[k].active /\ routes'[k].route = d
      BY <1>4, <2>2, DecidesFacts DEF Decided
    <3> QED
      BY <1>2, <1>4, <2>2, <3>1
  <2> QED
    BY <2>1, <2>2
<1>5. routes' \in [keys' -> RouteState(Digest)] /\ peers' \in [Peer -> PeerData(keys')]
  BY DecidesFacts
<1> QED
  BY <1>1, <1>3, <1>4, <1>5 DEF PluginTypes

LEMMA UpdateStepInv ==
  ASSUME Inv, NEW k, NEW t \in Times, NEW late \in BOOLEAN, NEW d, UpdateStep(k, t, late, d)
  PROVE  Inv'
<1>0. PICK order \in Nat :
        /\ order = OrderKey(t, late)
        /\ order = 2 * t \/ order = 2 * t + 1
  <2>1. t \in Nat
    BY TimeFacts
  <2> QED
    BY <2>1, OrderFacts
<1>1. /\ k \in keys /\ d \in Digest \cup {NoRoute} /\ phase[k[1]] # "down"
      /\ Receive(k[1], t, order) /\ Update(k, t, order, d) /\ Decides(k, order, d)
      /\ options' = options /\ keys' = keys
      /\ current_rib_dump_peers' = current_rib_dump_peers
  BY <1>0 DEF UpdateStep, setup
<1>2. /\ messages' \in 0..MaxMessages /\ overtaken' \in 0..MaxOvertaken
      /\ now' = t /\ now <= t /\ t \in Nat /\ now \in Nat
  BY <1>1, ReceiveFacts DEF Inv
<1>3. order \in Int
  OBVIOUS
<1>4. /\ k[1] \in Peer /\ \A j \in keys : j[1] \in Peer
      /\ keys \in RouteKeys /\ options \in Options
      /\ table \in [keys -> Digest \cup {NoRoute}] /\ phase \in [Peer -> Phase]
      /\ changed \in [Peer -> Int] /\ sent \in [keys -> Int] /\ trusted \in [Peer -> BOOLEAN]
  BY <1>1, KeyFacts DEF Inv, TruthTypes
<1>5. /\ \/ /\ order < sent[k] /\ table' = table /\ sent' = sent
         \/ /\ ~(order < sent[k])
            /\ table' = [table EXCEPT ![k] = d] /\ sent' = [sent EXCEPT ![k] = order]
      /\ trusted' = [trusted EXCEPT ![k[1]] =
                       @ /\ (order < 2 * t + 1 => changed[k[1]] < t)]
      /\ dumped' = {} /\ phase' = phase /\ changed' = changed
  BY <1>1 DEF Update, DumpIsOver, OrderKey
<1>6. TruthTypes'
  <2>1. table' \in [keys -> Digest \cup {NoRoute}] /\ sent' \in [keys -> Int]
    BY <1>1, <1>0, <1>3, <1>4, <1>5
  <2>2. trusted' \in [Peer -> BOOLEAN]
    <3>1. (trusted[k[1]] /\ (order < 2 * t + 1 => changed[k[1]] < t)) \in BOOLEAN
      OBVIOUS
    <3> QED
      BY <1>4, <1>5, <3>1
  <2>3. now' \in Times
    BY <1>2
  <2> QED
    BY <1>1, <1>2, <1>4, <1>5, <2>1, <2>2, <2>3 DEF TruthTypes
<1>7. PluginTypes'
  <2>1. current_rib_dump_peers' \subseteq Peer
    BY <1>1 DEF Inv, PluginTypes
  <2> QED
    BY <1>1, <1>0, <1>3, <2>1, DecidesTypes
<1>8. /\ routes' \in [keys -> RouteState(Digest)]
      /\ peers' \in [Peer -> PeerData(keys)]
      /\ \A j \in keys : j # k => routes'[j] = routes[j]
      /\ \A q \in Peer : q # k[1] => peers'[q].active_route_ids = peers[q].active_route_ids
      /\ Decided(k, order, d)
  <2>1. k \in keys /\ order \in Int /\ d \in Digest \cup {NoRoute} /\ Decides(k, order, d)
    BY <1>1, <1>3
  <2>2. routes' \in [keys -> RouteState(Digest)] /\ peers' \in [Peer -> PeerData(keys)]
    BY <2>1, DecidesFacts
  <2>3. \A j \in keys : j # k => routes'[j] = routes[j]
    BY <2>1, DecidesFacts
  <2>4. \A q \in Peer : q # k[1] => peers'[q].active_route_ids = peers[q].active_route_ids
    BY <2>1, DecidesFacts
  <2>5. Decided(k, order, d)
    BY <2>1, DecidesFacts
  <2> QED
    BY <2>2, <2>3, <2>4, <2>5
<1>9. /\ \A p \in Peer : changed[p] <= now
      /\ \A j \in keys :
          /\ routes[j].last_order \in Int /\ sent[j] \in Int /\ changed[j[1]] \in Int
          /\ routes[j].last_order <= 2 * now + 1
          /\ sent[j] <= routes[j].last_order
          /\ routes[j].initialized \/ (routes[j].last_order = Never /\ ~routes[j].active)
          /\ sent[j] < routes[j].last_order => routes[j].last_order <= 2 * changed[j[1]] + 1
  <2>1. \A j \in keys : routes[j].last_order \in Int
    BY DEF Inv, PluginTypes, RouteState
  <2> QED
    BY <1>4, <2>1 DEF Inv, OrderInv, OrderKey
<1>10. OrderInv'
  <2>1. \A p \in Peer : changed[p] <= t
    BY <1>2, <1>4, <1>9
  <2>2. ASSUME NEW j \in keys
        PROVE  /\ routes'[j].last_order <= 2 * t + 1
               /\ sent'[j] <= routes'[j].last_order
               /\ routes'[j].initialized \/ (routes'[j].last_order = Never /\ ~routes'[j].active)
               /\ (sent'[j] < routes'[j].last_order =>
                     routes'[j].last_order <= 2 * changed[j[1]] + 1)
    <3>1. CASE j # k
      <4>1. routes'[j] = routes[j] /\ sent'[j] = sent[j]
        BY <3>1, <1>4, <1>5, <1>8
      <4> QED
        BY <4>1, <1>2, <1>9
    <3>2. CASE j = k /\ order < routes[k].last_order
      <4>1. routes'[k] = routes[k]
        BY <3>2, <1>8, <1>0, <1>3, <1>9 DEF Decided
      <4>2. sent'[k] = sent[k] \/ (sent'[k] = order /\ sent[k] <= order)
        BY <1>1, <1>0, <1>3, <1>4, <1>5
      <4>3. /\ routes[k].last_order <= 2 * now + 1 /\ sent[k] <= routes[k].last_order
            /\ sent[k] \in Int /\ routes[k].last_order \in Int
            /\ routes[k].initialized \/ (routes[k].last_order = Never /\ ~routes[k].active)
            /\ sent[k] < routes[k].last_order => routes[k].last_order <= 2 * changed[k[1]] + 1
        BY <1>1, <1>9
      <4>4. \/ sent'[k] = sent[k]
            \/ sent[k] < routes[k].last_order
            \/ order = routes[k].last_order
        BY <4>2, <4>3, <1>0, <1>3, <3>2
      <4>5. sent'[k] <= routes[k].last_order
        BY <4>2, <4>3, <1>0, <1>3, <3>2
      <4>6. sent'[k] < routes[k].last_order => routes[k].last_order <= 2 * changed[k[1]] + 1
        BY <4>2, <4>3, <4>4, <1>0, <1>3, <3>2
      <4> QED
        BY <3>2, <4>1, <4>3, <4>5, <4>6, <1>2
    <3>3. CASE j = k /\ ~(order < routes[k].last_order)
      <4>1. routes'[k].initialized /\ routes'[k].last_order = order
        BY <3>3, <1>8 DEF Decided
      <4>2. sent[k] <= order /\ sent[k] \in Int
        BY <1>1, <1>0, <1>3, <1>9, <3>3
      <4>3. sent'[k] = order
        BY <1>1, <1>0, <1>3, <1>4, <1>5, <4>2
      <4> QED
        BY <3>3, <4>1, <4>3, <1>2, <1>0, <1>3
    <3> QED
      BY <3>1, <3>2, <3>3
  <2> QED
    BY <1>1, <1>2, <1>5, <2>1, <2>2 DEF OrderInv, OrderKey
<1>11. TableInv'
  <2>1. /\ \A j \in keys :
             /\ j \in peers[j[1]].active_route_ids <=> routes[j].active
             /\ (trusted[j[1]] /\ routes[j].initialized =>
                   table[j] = IF routes[j].active THEN routes[j].route ELSE NoRoute)
        /\ \A p \in Peer : phase[p] = "down" => peers[p].active_route_ids = {}
    BY DEF Inv, TableInv
  <2>2. ASSUME NEW j \in keys
        PROVE  /\ j \in peers'[j[1]].active_route_ids <=> routes'[j].active
               /\ (trusted'[j[1]] /\ routes'[j].initialized =>
                     table'[j] = IF routes'[j].active THEN routes'[j].route ELSE NoRoute)
    <3>1. trusted'[j[1]] => trusted[j[1]]
      BY <1>4, <1>5
    <3>2. CASE j # k
      <4>1. routes'[j] = routes[j] /\ table'[j] = table[j]
        BY <3>2, <1>4, <1>5, <1>8
      <4>2. j \in peers'[j[1]].active_route_ids <=> j \in peers[j[1]].active_route_ids
        <5>1. CASE j[1] # k[1]
          BY <5>1, <1>4, <1>8
        <5>2. CASE j[1] = k[1]
          BY <5>2, <3>2, <1>8 DEF Decided
        <5> QED
          BY <5>1, <5>2
      <4> QED
        BY <2>1, <3>1, <4>1, <4>2
    <3>3. CASE j = k /\ order < routes[k].last_order
      <4>1. routes'[k] = routes[k] /\ peers' = peers
        BY <3>3, <1>8, <1>0, <1>3, <1>9 DEF Decided
      <4>2. ASSUME trusted'[k[1]], routes[k].initialized
            PROVE  table'[k] = table[k]
        \* A dropped message is older than what was sent about the key: the session has
        \* not ended since, for a trusted peer.
        <5>1. order < 2 * t + 1 => changed[k[1]] < t
          BY <1>4, <1>5, <4>2
        <5>2. /\ routes[k].last_order <= 2 * now + 1
              /\ sent[k] \in Int /\ routes[k].last_order \in Int /\ changed[k[1]] \in Int
              /\ sent[k] <= routes[k].last_order
              /\ sent[k] < routes[k].last_order => routes[k].last_order <= 2 * changed[k[1]] + 1
          BY <1>1, <1>9
        <5>3. order = 2 * t
          BY <1>2, <1>0, <1>3, <3>3, <5>2
        <5>4. changed[k[1]] < t
          BY <1>2, <1>3, <5>1, <5>3
        <5>5. ~(sent[k] < routes[k].last_order)
          BY <5>2, <5>3, <5>4, <1>2, <3>3
        <5>6. order < sent[k]
          BY <5>2, <5>5, <1>0, <1>3, <3>3
        <5> QED
          BY <5>6, <1>5
      <4> QED
        BY <2>1, <3>1, <3>3, <4>1, <4>2, <1>1
    <3>4. CASE j = k /\ ~(order < routes[k].last_order)
      <4>1. /\ IF d = NoRoute THEN ~routes'[k].active
               ELSE routes'[k].active /\ routes'[k].route = d
            /\ peers'[k[1]].active_route_ids =
                 IF d = NoRoute THEN peers[k[1]].active_route_ids \ {k}
                 ELSE peers[k[1]].active_route_ids \cup {k}
        BY <3>4, <1>8 DEF Decided
      <4>2. ~(order < sent[k])
        BY <1>1, <1>0, <1>3, <1>9, <3>4
      <4>3. table'[k] = d
        BY <1>1, <1>4, <1>5, <4>2
      <4> QED
        BY <3>4, <4>1, <4>3
    <3> QED
      BY <3>2, <3>3, <3>4
  <2>3. ASSUME NEW p \in Peer, phase'[p] = "down"
        PROVE  peers'[p].active_route_ids = {}
    BY <2>1, <2>3, <1>1, <1>5, <1>8
  <2> QED
    BY <1>1, <2>2, <2>3 DEF TableInv
<1> QED
  BY <1>6, <1>7, <1>10, <1>11 DEF Inv

LEMMA DumpStepInv ==
  ASSUME Inv, NEW k, NEW t \in Times, NEW late \in BOOLEAN, DumpStep(k, t, late)
  PROVE  Inv'
<1>0. PICK order \in Nat :
        /\ order = OrderKey(t, late)
        /\ order = 2 * t \/ order = 2 * t + 1
  <2>1. t \in Nat
    BY TimeFacts
  <2> QED
    BY <2>1, OrderFacts
<1> DEFINE d == table[k]
<1>1. /\ k \in keys /\ phase[k[1]] # "down" /\ d # NoRoute
      /\ Receive(k[1], t, order)
      /\ sent' = [sent EXCEPT ![k] = Later(@, order)]
      /\ dumped' \subseteq keys
      /\ phase' \in [Peer -> Phase] /\ \A q \in Peer : phase'[q] = "down" => phase[q] = "down"
      /\ Decides(k, order, d)
      /\ current_rib_dump_peers' \subseteq Peer
      /\ UNCHANGED <<table, changed, trusted, setup>>
      /\ options' = options /\ keys' = keys
  BY <1>0 DEF DumpStep, setup
<1>2. /\ messages' \in 0..MaxMessages /\ overtaken' \in 0..MaxOvertaken
      /\ now' = t /\ now <= t /\ t \in Nat /\ now \in Nat
  BY <1>1, ReceiveFacts DEF Inv
<1>3. order \in Int
  OBVIOUS
<1>4. /\ k[1] \in Peer /\ \A j \in keys : j[1] \in Peer
      /\ keys \in RouteKeys /\ options \in Options
      /\ table \in [keys -> Digest \cup {NoRoute}]
      /\ changed \in [Peer -> Int] /\ sent \in [keys -> Int] /\ trusted \in [Peer -> BOOLEAN]
      /\ d \in Digest \cup {NoRoute}
  BY <1>1, KeyFacts DEF Inv, TruthTypes
<1>5. /\ sent' \in [keys -> Int] /\ \A j \in keys : j # k => sent'[j] = sent[j]
      /\ sent'[k] = IF sent[k] < order THEN order ELSE sent[k]
  BY <1>1, <1>3, <1>4 DEF Later
<1>6. TruthTypes'
  <2>1. now' \in Times
    BY <1>2
  <2> QED
    BY <1>1, <1>2, <1>4, <1>5, <2>1 DEF TruthTypes
<1> HIDE DEF d
<1>7. PluginTypes'
  BY <1>1, <1>3, <1>4, DecidesTypes
<1>8. /\ routes' \in [keys -> RouteState(Digest)]
      /\ peers' \in [Peer -> PeerData(keys)]
      /\ \A j \in keys : j # k => routes'[j] = routes[j]
      /\ \A q \in Peer : q # k[1] => peers'[q].active_route_ids = peers[q].active_route_ids
      /\ Decided(k, order, d)
  <2>1. k \in keys /\ order \in Int /\ d \in Digest \cup {NoRoute} /\ Decides(k, order, d)
    BY <1>1, <1>3, <1>4
  <2>2. routes' \in [keys -> RouteState(Digest)] /\ peers' \in [Peer -> PeerData(keys)]
    BY <2>1, DecidesFacts
  <2>3. \A j \in keys : j # k => routes'[j] = routes[j]
    BY <2>1, DecidesFacts
  <2>4. \A q \in Peer : q # k[1] => peers'[q].active_route_ids = peers[q].active_route_ids
    BY <2>1, DecidesFacts
  <2>5. Decided(k, order, d)
    BY <2>1, DecidesFacts
  <2> QED
    BY <2>2, <2>3, <2>4, <2>5
<1>9. /\ \A p \in Peer : changed[p] <= now
      /\ \A j \in keys :
          /\ routes[j].last_order \in Int /\ sent[j] \in Int /\ changed[j[1]] \in Int
          /\ routes[j].last_order <= 2 * now + 1
          /\ sent[j] <= routes[j].last_order
          /\ routes[j].initialized \/ (routes[j].last_order = Never /\ ~routes[j].active)
          /\ sent[j] < routes[j].last_order => routes[j].last_order <= 2 * changed[j[1]] + 1
  <2>1. \A j \in keys : routes[j].last_order \in Int
    BY DEF Inv, PluginTypes, RouteState
  <2> QED
    BY <1>4, <2>1 DEF Inv, OrderInv, OrderKey
<1>10. OrderInv'
  <2>1. \A p \in Peer : changed[p] <= t
    BY <1>2, <1>4, <1>9
  <2>2. ASSUME NEW j \in keys
        PROVE  /\ routes'[j].last_order <= 2 * t + 1
               /\ sent'[j] <= routes'[j].last_order
               /\ routes'[j].initialized \/ (routes'[j].last_order = Never /\ ~routes'[j].active)
               /\ (sent'[j] < routes'[j].last_order =>
                     routes'[j].last_order <= 2 * changed[j[1]] + 1)
    <3>1. CASE j # k
      <4>1. routes'[j] = routes[j] /\ sent'[j] = sent[j]
        BY <3>1, <1>4, <1>5, <1>8
      <4> QED
        BY <4>1, <1>2, <1>9
    <3>2. CASE j = k /\ order < routes[k].last_order
      <4>1. routes'[k] = routes[k]
        BY <3>2, <1>8, <1>0, <1>3, <1>9 DEF Decided
      <4>2. /\ routes[k].last_order <= 2 * now + 1 /\ sent[k] <= routes[k].last_order
            /\ sent[k] \in Int /\ routes[k].last_order \in Int
            /\ routes[k].initialized \/ (routes[k].last_order = Never /\ ~routes[k].active)
            /\ sent[k] < routes[k].last_order => routes[k].last_order <= 2 * changed[k[1]] + 1
        BY <1>1, <1>9
      <4>3. sent'[k] <= routes[k].last_order
        BY <4>2, <1>3, <1>5, <3>2
      <4>4. sent'[k] < routes[k].last_order => routes[k].last_order <= 2 * changed[k[1]] + 1
        BY <4>2, <1>3, <1>5, <3>2
      <4> QED
        BY <3>2, <4>1, <4>2, <4>3, <4>4, <1>2
    <3>3. CASE j = k /\ ~(order < routes[k].last_order)
      <4>1. routes'[k].initialized /\ routes'[k].last_order = order
        BY <3>3, <1>8 DEF Decided
      <4>2. sent[k] <= order /\ sent[k] \in Int
        BY <1>1, <1>3, <1>9, <3>3
      <4>3. sent'[k] = order
        BY <1>3, <1>5, <4>2
      <4> QED
        BY <3>3, <4>1, <4>3, <1>0, <1>2, <1>3
    <3> QED
      BY <3>1, <3>2, <3>3
  <2> QED
    BY <1>1, <1>2, <2>1, <2>2 DEF OrderInv, OrderKey
<1>11. TableInv'
  <2>1. /\ \A j \in keys :
             /\ j \in peers[j[1]].active_route_ids <=> routes[j].active
             /\ (trusted[j[1]] /\ routes[j].initialized =>
                   table[j] = IF routes[j].active THEN routes[j].route ELSE NoRoute)
        /\ \A p \in Peer : phase[p] = "down" => peers[p].active_route_ids = {}
    BY DEF Inv, TableInv
  <2>2. ASSUME NEW j \in keys
        PROVE  /\ j \in peers'[j[1]].active_route_ids <=> routes'[j].active
               /\ (trusted[j[1]] /\ routes'[j].initialized =>
                     table[j] = IF routes'[j].active THEN routes'[j].route ELSE NoRoute)
    <3>1. CASE j # k
      <4>1. routes'[j] = routes[j]
        BY <3>1, <1>8
      <4>2. j \in peers'[j[1]].active_route_ids <=> j \in peers[j[1]].active_route_ids
        <5>1. CASE j[1] # k[1]
          BY <5>1, <1>4, <1>8
        <5>2. CASE j[1] = k[1]
          BY <5>2, <3>1, <1>8 DEF Decided
        <5> QED
          BY <5>1, <5>2
      <4> QED
        BY <2>1, <4>1, <4>2
    <3>2. CASE j = k /\ order < routes[k].last_order
      <4>1. routes'[k] = routes[k] /\ peers' = peers
        BY <3>2, <1>8, <1>0, <1>3, <1>9 DEF Decided
      <4> QED
        BY <2>1, <3>2, <4>1, <1>1
    <3>3. CASE j = k /\ ~(order < routes[k].last_order)
      <4>1. /\ routes'[k].active /\ routes'[k].route = table[k]
            /\ peers'[k[1]].active_route_ids = peers[k[1]].active_route_ids \cup {k}
        BY <3>3, <1>1, <1>8 DEF Decided, d
      <4> QED
        BY <3>3, <4>1
    <3> QED
      BY <3>1, <3>2, <3>3
  <2>3. ASSUME NEW p \in Peer, phase'[p] = "down"
        PROVE  peers'[p].active_route_ids = {}
    BY <2>1, <2>3, <1>1, <1>8
  <2> QED
    BY <1>1, <2>2, <2>3 DEF TableInv
<1> QED
  BY <1>6, <1>7, <1>10, <1>11 DEF Inv

LEMMA SessionStepInv ==
  ASSUME Inv, NEW p \in Peer, NEW t \in Times, SessionStep(p, t)
  PROVE  Inv'
<1> DEFINE order == 2 * t + 1
<1>1. /\ Receive(p, t, OrderKey(t, FALSE))
      /\ routes' = [k \in keys |-> IF k \in peers[p].active_route_ids
                      THEN [routes[k] EXCEPT !.active = FALSE, !.last_order = order]
                      ELSE routes[k]]
      /\ peers' \in [Peer -> PeerData(keys)]
      /\ \A q \in Peer : peers'[q].active_route_ids =
           IF q = p THEN {} ELSE peers[q].active_route_ids
      /\ options' = options /\ keys' = keys
      /\ current_rib_dump_peers' = current_rib_dump_peers
  BY DEF SessionStep, setup, ResetRoutes, OrderKey
<1>2. /\ messages' \in 0..MaxMessages /\ overtaken' \in 0..MaxOvertaken
      /\ now' = t /\ now <= t /\ t \in Nat /\ now \in Nat
  BY <1>1, ReceiveFacts DEF Inv
<1>3. PICK state \in Phase :
        /\ phase' = [phase EXCEPT ![p] = state]
        /\ changed' = [changed EXCEPT ![p] = t]
        /\ table' = [k \in keys |-> IF k \in KeysOf(p) THEN NoRoute ELSE table[k]]
        /\ dumped' = {} /\ sent' = sent /\ trusted' = trusted
  BY DEF SessionStep, SessionChange, DumpIsOver
<1>4. /\ keys \in RouteKeys /\ options \in Options
      /\ table \in [keys -> Digest \cup {NoRoute}] /\ phase \in [Peer -> Phase]
      /\ changed \in [Peer -> Int] /\ sent \in [keys -> Int] /\ trusted \in [Peer -> BOOLEAN]
      /\ \A k \in keys : k[1] \in Peer
      /\ \A k \in keys : k \in KeysOf(p) <=> k[1] = p
      /\ \A k \in keys, q \in Peer : k \in KeysOf(q) => k[1] = q
  BY KeyFacts DEF Inv, TruthTypes
<1>5. TruthTypes'
  <2>1. now' \in Times
    BY <1>2
  <2>2. phase' \in [Peer -> Phase] /\ changed' \in [Peer -> Int]
    BY <1>2, <1>3, <1>4
  <2>3. table' \in [keys -> Digest \cup {NoRoute}]
    BY <1>3, <1>4
  <2>4. dumped' \subseteq keys'
    BY <1>3
  <2> QED
    BY <1>1, <1>2, <1>3, <1>4, <2>1, <2>2, <2>3, <2>4 DEF TruthTypes
<1>6. /\ routes \in [keys -> RouteState(Digest)] /\ peers \in [Peer -> PeerData(keys)]
      /\ \A q \in Peer : peers[q].active_route_ids \subseteq KeysOf(q)
      /\ \A k \in keys : routes[k].active => routes[k].route \in Digest
  BY DEF Inv, PluginTypes
<1>7. /\ \A k \in keys :
           /\ k \in peers[k[1]].active_route_ids <=> routes[k].active
           /\ (trusted[k[1]] /\ routes[k].initialized =>
                 table[k] = IF routes[k].active THEN routes[k].route ELSE NoRoute)
      /\ \A q \in Peer : phase[q] = "down" => peers[q].active_route_ids = {}
  BY DEF Inv, TableInv
\* A route of the session is inactive now, and has the order of the message if it was
\* active; any other is as before.
<1>8. ASSUME NEW k \in keys
      PROVE  /\ routes'[k] \in RouteState(Digest)
             /\ routes'[k].initialized = routes[k].initialized
             /\ routes'[k].route = routes[k].route
             /\ k[1] = p => ~routes'[k].active
             /\ k[1] # p => routes'[k] = routes[k]
             /\ \/ routes'[k] = routes[k]
                \/ k[1] = p /\ routes[k].active /\ routes'[k].last_order = order
  <2>1. routes[k] \in RouteState(Digest) /\ k[1] \in Peer /\ order \in Int
    BY <1>2, <1>4, <1>6
  <2>2. CASE k \in peers[p].active_route_ids
    <3> DEFINE r == [routes[k] EXCEPT !.active = FALSE, !.last_order = order]
    <3>1. routes'[k] = r
      BY <1>1, <2>2
    <3>2. /\ r \in RouteState(Digest) /\ r.initialized = routes[k].initialized
          /\ r.route = routes[k].route /\ r.active = FALSE /\ r.last_order = order
      BY <2>1 DEF RouteState
    <3>3. k[1] = p /\ routes[k].active
      BY <2>2, <1>4, <1>6, <1>7
    <3> HIDE DEF r
    <3> QED
      BY <3>1, <3>2, <3>3
  <2>3. CASE k \notin peers[p].active_route_ids
    <3>1. routes'[k] = routes[k]
      BY <1>1, <2>3
    <3>2. k[1] = p => ~routes[k].active
      BY <2>3, <1>7
    <3> QED
      BY <2>1, <3>1, <3>2
  <2> QED
    BY <2>2, <2>3
<1>9. PluginTypes'
  <2>1. routes' \in [keys -> RouteState(Digest)]
    <3>1. routes' = [k \in keys |-> routes'[k]]
      BY <1>1
    <3> QED
      BY <1>8, <3>1
  <2>2. \A k \in keys : routes'[k].active => routes'[k].route \in Digest
    BY <1>6, <1>8
  <2>3. \A q \in Peer : peers'[q].active_route_ids \subseteq KeysOf(q)
    BY <1>1, <1>6
  <2>4. \A q \in Peer : KeysOf(q)' = KeysOf(q)
    BY <1>1 DEF KeysOf
  <2>5. current_rib_dump_peers' \subseteq Peer
    BY <1>1 DEF Inv, PluginTypes
  <2> QED
    BY <1>1, <2>1, <2>2, <2>3, <2>4, <2>5 DEF PluginTypes
<1>10. OrderInv'
  <2>1. /\ \A q \in Peer : changed[q] <= now
        /\ \A k \in keys :
             /\ routes[k].last_order \in Int /\ sent[k] \in Int /\ changed[k[1]] \in Int
             /\ routes[k].last_order <= 2 * now + 1
             /\ sent[k] <= routes[k].last_order
             /\ routes[k].initialized \/ (routes[k].last_order = Never /\ ~routes[k].active)
             /\ sent[k] < routes[k].last_order => routes[k].last_order <= 2 * changed[k[1]] + 1
    <3>1. \A k \in keys : routes[k].last_order \in Int
      BY <1>6 DEF RouteState
    <3> QED
      BY <1>4, <3>1 DEF Inv, OrderInv, OrderKey
  <2>2. \A q \in Peer : changed'[q] <= t
    BY <1>2, <1>3, <1>4, <2>1
  <2>3. ASSUME NEW k \in keys
        PROVE  /\ routes'[k].last_order <= 2 * t + 1
               /\ sent[k] <= routes'[k].last_order
               /\ routes'[k].initialized \/ (routes'[k].last_order = Never /\ ~routes'[k].active)
               /\ (sent[k] < routes'[k].last_order =>
                     routes'[k].last_order <= 2 * changed'[k[1]] + 1)
    <3>1. /\ routes[k].last_order \in Int /\ sent[k] \in Int /\ changed[k[1]] \in Int
          /\ routes[k].last_order <= 2 * now + 1
          /\ sent[k] <= routes[k].last_order
          /\ routes[k].initialized \/ (routes[k].last_order = Never /\ ~routes[k].active)
          /\ sent[k] < routes[k].last_order => routes[k].last_order <= 2 * changed[k[1]] + 1
      BY <2>1
    <3>2. CASE routes'[k] = routes[k]
      <4>1. changed'[k[1]] \in Int /\ changed[k[1]] <= changed'[k[1]]
        BY <1>2, <1>3, <1>4, <2>1
      <4> QED
        BY <3>1, <3>2, <4>1, <1>2
    <3>3. CASE k[1] = p /\ routes[k].active /\ routes'[k].last_order = order
      <4>1. changed'[k[1]] = t
        BY <3>3, <1>3, <1>4
      <4>2. routes'[k].initialized
        BY <3>1, <3>3, <1>8
      <4> QED
        BY <3>1, <3>3, <4>1, <4>2, <1>2
    <3> QED
      BY <3>2, <3>3, <1>8
  <2> QED
    BY <1>1, <1>2, <1>3, <2>2, <2>3 DEF OrderInv, OrderKey
<1>11. TableInv'
  <2>1. ASSUME NEW k \in keys
        PROVE  /\ k \in peers'[k[1]].active_route_ids <=> routes'[k].active
               /\ (trusted[k[1]] /\ routes'[k].initialized =>
                     table'[k] = IF routes'[k].active THEN routes'[k].route ELSE NoRoute)
    <3>1. CASE k[1] = p
      BY <3>1, <1>1, <1>3, <1>4, <1>8
    <3>2. CASE k[1] # p
      <4>1. routes'[k] = routes[k]
        BY <3>2, <1>8
      <4>2. table'[k] = table[k]
        BY <3>2, <1>3, <1>4
      <4>3. peers'[k[1]].active_route_ids = peers[k[1]].active_route_ids
        BY <3>2, <1>1, <1>4
      <4> QED
        BY <4>1, <4>2, <4>3, <1>7
    <3> QED
      BY <3>1, <3>2
  <2>2. ASSUME NEW q \in Peer, phase'[q] = "down"
        PROVE  peers'[q].active_route_ids = {}
    <3>1. CASE q = p
      BY <3>1, <1>1
    <3>2. CASE q # p
      <4>1. phase'[q] = phase[q]
        BY <3>2, <1>3, <1>4
      <4> QED
        BY <2>2, <3>2, <4>1, <1>1, <1>7
    <3> QED
      BY <3>1, <3>2
  <2> QED
    BY <1>1, <1>3, <2>1, <2>2 DEF TableInv
<1> QED
  BY <1>5, <1>9, <1>10, <1>11 DEF Inv

LEMMA OtherStepInv ==
  ASSUME Inv, NEW p \in Peer, NEW t \in Times, OtherStep(p, t)
  PROVE  Inv'
<1>1. /\ \E order \in Int : Receive(p, t, order)
      /\ phase' \in [Peer -> Phase] /\ \A q \in Peer : phase'[q] = "down" => phase[q] = "down"
      /\ changed' = changed \/ changed' = [changed EXCEPT ![p] = t]
      /\ trusted' \in [Peer -> BOOLEAN] /\ \A q \in Peer : trusted'[q] => trusted[q]
      /\ dumped' = {}
      /\ peers' \in [Peer -> PeerData(keys)]
      /\ \A q \in Peer : peers'[q].active_route_ids = peers[q].active_route_ids
      /\ options' = options /\ keys' = keys /\ table' = table /\ sent' = sent
      /\ routes' = routes /\ current_rib_dump_peers' = current_rib_dump_peers
  BY DEF OtherStep, setup
<1>2. /\ messages' \in 0..MaxMessages /\ overtaken' \in 0..MaxOvertaken
      /\ now' = t /\ now <= t /\ t \in Nat /\ now \in Nat
  BY <1>1, ReceiveFacts DEF Inv
<1>3. /\ keys \in RouteKeys /\ changed \in [Peer -> Int] /\ \A k \in keys : k[1] \in Peer
      /\ \A k \in keys : routes[k].last_order \in Int /\ sent[k] \in Int
  BY KeyFacts DEF Inv, TruthTypes, PluginTypes, RouteState
<1>4. TruthTypes'
  <2>1. now' \in Times /\ changed' \in [Peer -> Int]
    BY <1>1, <1>2, <1>3
  <2> QED
    BY <1>1, <1>2, <2>1 DEF TruthTypes, Inv
<1>5. PluginTypes'
  BY <1>1 DEF PluginTypes, Inv, KeysOf
<1>6. OrderInv'
  <2>1. /\ \A q \in Peer : changed[q] <= now
        /\ \A k \in keys :
             /\ routes[k].last_order <= 2 * now + 1
             /\ sent[k] <= routes[k].last_order
             /\ routes[k].initialized \/ (routes[k].last_order = Never /\ ~routes[k].active)
             /\ sent[k] < routes[k].last_order => routes[k].last_order <= 2 * changed[k[1]] + 1
    BY DEF Inv, OrderInv, OrderKey
  <2>2. \A q \in Peer : changed'[q] \in Int /\ changed[q] <= changed'[q] /\ changed'[q] <= t
    BY <1>1, <1>2, <1>3, <2>1
  <2>3. ASSUME NEW k \in keys
        PROVE  /\ routes[k].last_order <= 2 * t + 1
               /\ sent[k] <= routes[k].last_order
               /\ routes[k].initialized \/ (routes[k].last_order = Never /\ ~routes[k].active)
               /\ (sent[k] < routes[k].last_order =>
                     routes[k].last_order <= 2 * changed'[k[1]] + 1)
    BY <1>2, <1>3, <2>1, <2>2
  <2> QED
    BY <1>1, <1>2, <2>2, <2>3 DEF OrderInv, OrderKey
<1>7. TableInv'
  BY <1>1, <1>3 DEF Inv, TableInv
<1> QED
  BY <1>4, <1>5, <1>6, <1>7 DEF Inv

-----------------------------------------------------------------------------
(* The table the plugin holds.                                             *)

LEMMA InitInv == Init => Inv
<1> SUFFICES ASSUME Init PROVE Inv
  OBVIOUS
<1>1. /\ options \in Options /\ keys \in RouteKeys
      /\ table \in [keys -> Digest \cup {NoRoute}]
      /\ phase = [p \in Peer |-> "unknown"]
      /\ changed = [p \in Peer |-> Never] /\ sent = [k \in keys |-> Never]
      /\ trusted = [p \in Peer |-> TRUE] /\ dumped = {}
      /\ messages = 0 /\ overtaken = 0 /\ now = 0
      /\ peers = [p \in Peer |-> NewPeer]
      /\ routes = [k \in keys |-> NewRoute]
      /\ current_rib_dump_peers = {}
  BY DEF Init
<1>2. MaxMessages \in Nat /\ MaxOvertaken \in Nat /\ 0 \in Times /\ Never \in Int
  BY ChurnAssumption DEF Never
<1>3. TruthTypes
  BY <1>1, <1>2 DEF TruthTypes, Phase
<1>4. PluginTypes
  <2>1. NewPeer \in PeerData(keys) /\ NewPeer.active_route_ids = {}
    BY <1>1, <1>2, TimeFacts DEF NewPeer, PeerData
  <2>2. NewRoute \in RouteState(Digest) /\ NewRoute.active = FALSE
    BY <1>2 DEF NewRoute, RouteState
  <2> QED
    BY <1>1, <2>1, <2>2 DEF PluginTypes
<1>5. OrderInv
  <2>1. \A k \in keys : k[1] \in Peer
    BY <1>1, KeyFacts
  <2> QED
    BY <1>1, <2>1 DEF OrderInv, OrderKey, Never, NewRoute
<1>6. TableInv
  <2>1. \A k \in keys : k[1] \in Peer
    BY <1>1, KeyFacts
  <2> QED
    BY <1>1, <2>1 DEF TableInv, NewPeer, NewRoute
<1> QED
  BY <1>3, <1>4, <1>5, <1>6 DEF Inv

LEMMA NextInv == Inv /\ [Next]_vars => Inv'
<1> SUFFICES ASSUME Inv, [Next]_vars PROVE Inv'
  OBVIOUS
<1>1. CASE UNCHANGED vars
  BY <1>1 DEF vars, setup, truth, clock, plugin, rib_dump, stats, Inv, TruthTypes, PluginTypes, OrderInv,
              TableInv, KeysOf
<1>2. CASE Message
  <2>1. PICK p \in PeersOf(keys) :
          \/ \E x \in Prefix :
               Withdrawal(p, x) \/ RibElement(p, x) \/ \E d \in Routes[<<p, x>>] : Announcement(p, x, d)
          \/ PeerDown(p) \/ PeerUp(p) \/ EndOfRib(p) \/ LateSessionMessage(p)
    BY <1>2 DEF Message
  <2>2. p \in Peer
    BY KeyFacts DEF Inv, TruthTypes
  <2>3. ASSUME NEW x \in Prefix, NEW d \in Routes[<<p, x>>], Announcement(p, x, d)
        PROVE  Inv'
    <3>1. d \in Digest
      BY <2>2, ChurnAssumption
    <3> QED
      BY <2>2, <2>3, <3>1, AnnouncementIsUpdate, UpdateStepInv
  <2>4. ASSUME NEW x \in Prefix, Withdrawal(p, x)
        PROVE  Inv'
    BY <2>2, <2>4, WithdrawalIsUpdate, UpdateStepInv
  <2>5. ASSUME NEW x \in Prefix, RibElement(p, x)
        PROVE  Inv'
    BY <2>2, <2>5, RibElementIsDump, DumpStepInv
  <2>6. CASE PeerDown(p)
    BY <2>2, <2>6, PeerDownIsSession, SessionStepInv
  <2>7. CASE PeerUp(p)
    BY <2>2, <2>7, PeerUpIsSession, SessionStepInv
  <2>8. CASE EndOfRib(p)
    BY <2>2, <2>8, EndOfRibIsOther, OtherStepInv
  <2>9. CASE LateSessionMessage(p)
    BY <2>2, <2>9, LateSessionMessageIsOther, OtherStepInv
  <2> QED
    BY <2>1, <2>3, <2>4, <2>5, <2>6, <2>7, <2>8, <2>9
<1> QED
  BY <1>1, <1>2 DEF Next

THEOREM Invariant == Spec => []Inv
<1> QED
  BY InitInv, NextInv, PTL DEF Spec

\* For every number of messages, of peers, prefixes and routes: once the plugin has heard of
\* a prefix of a peer it holds the route the peer announces, or none, through session ends
\* it saw or missed, dumps, and updates that overtook each other (handle_announcement,
\* handle_withdrawal, handle_rib, reset_peer_routes and route_event_is_late).
THEOREM TablesAreTracked == Spec => []TableFollowsTruth
<1>1. Inv => TableFollowsTruth
  BY DEF Inv, TableInv, TableFollowsTruth
<1> QED
  BY <1>1, Invariant, PTL

-----------------------------------------------------------------------------
(* Sessions: what the plugin knows of them.                                *)

\* A peer that exchanges its table anew is known to do so, until the grace period is over.
PeerSession(p) ==
  /\ peers[p].sync_active => phase[p] \in {"resync", "dumped"}
  /\ phase[p] = "resync" =>
       \/ peers[p].sync_active /\ peers[p].sync_started = changed[p]
       \/ options.grace > 0 /\ now - changed[p] > options.grace
  /\ phase[p] = "settled" => peers[p].baseline_complete

\* A route that the plugin has not heard of is one of a session it saw nothing of.
KeyHeard(k) ==
  table[k] # NoRoute /\ ~routes[k].initialized =>
    phase[k[1]] = "unknown" /\ ~peers[k[1]].baseline_complete

\* The peers read so far are peers that the present dump told of, or of an earlier dump.
DumpInv ==
  /\ last_dump \in Int /\ current_rib_dump_timestamp \in Int
  /\ current_rib_dump_timestamp <= last_dump
  /\ \A k \in dumped : routes[k].initialized
  /\ dump # "closed" =>
       /\ last_dump = now
       /\ current_rib_dump_timestamp = last_dump => current_rib_dump_peers \subseteq PeersOf(dumped)

SessionInv ==
  /\ \A p \in Peer : PeerSession(p)
  /\ \A k \in keys : KeyHeard(k)
  /\ DumpInv

\* A step that the session of p, as the plugin knows it, does not notice.
Unnoticed(p) ==
  /\ phase'[p] = phase[p] /\ changed'[p] = changed[p]
  /\ peers'[p].sync_active = peers[p].sync_active
  /\ peers'[p].sync_started = peers[p].sync_started
  /\ peers'[p].baseline_complete = peers[p].baseline_complete

LEMMA UnnoticedSession ==
  ASSUME Inv, NEW p \in Peer, PeerSession(p), Unnoticed(p), options' = options,
         NEW t \in Times, NEW q, NEW o, Receive(q, t, o)
  PROVE  PeerSession(p)'
<1>1. now' = t /\ now <= t /\ t \in Nat /\ now \in Nat
  BY ReceiveFacts DEF Inv
<1>2. changed[p] \in Int /\ options.grace \in Nat
  BY TimeFacts DEF Inv, TruthTypes
<1>3. now - changed[p] > options.grace => t - changed[p] > options.grace
  BY <1>1, <1>2
<1> QED
  BY <1>1, <1>3 DEF PeerSession, Unnoticed

\* A key of which nothing is heard.
LEMMA UnheardKey ==
  ASSUME NEW k \in keys, KeyHeard(k), routes'[k].initialized = routes[k].initialized,
         table'[k] = NoRoute \/ table'[k] = table[k],
         \/ table'[k] = NoRoute
         \/ /\ phase'[k[1]] = phase[k[1]]
            /\ peers'[k[1]].baseline_complete = peers[k[1]].baseline_complete
  PROVE  KeyHeard(k)'
BY DEF KeyHeard

\* Any message that is no element of a dump.
LEMMA NoDump ==
  ASSUME DumpInv, DumpIsOver, UNCHANGED rib_dump
  PROVE  DumpInv'
BY DEF DumpInv, DumpIsOver, rib_dump

UpdateOutcome(k, d, t) ==
  IF d = NoRoute THEN WithdrawalOutcome(k, t) ELSE AnnouncementOutcome(k, d, t)

\* An announcement or a withdrawal of k, and what the counters of its peer make of it.
Hears(k, t, late, d) ==
  LET p == k[1]
      order == OrderKey(t, late)
      o == UpdateOutcome(k, d, t)
  IN  /\ k \in keys /\ d \in Digest \cup {NoRoute}
      /\ Receive(p, t, order) /\ Update(k, t, order, d)
      /\ UNCHANGED <<setup, rib_dump>>
      /\ \/ /\ RouteEventIsLate(k, order)
            /\ UNCHANGED <<peers, routes>>
            /\ peer_stats' = [peer_stats EXCEPT ![p] =
                  Tally(@, (RawTally(t) \cap PeerCounter) \cup {"out_of_order"})]
         \/ /\ ~RouteEventIsLate(k, order)
            /\ \E ids : peers' = [peers EXCEPT ![p] = AfterUpdate(p, t, order, ids)]
            /\ \E r : r.initialized = TRUE /\ routes' = [routes EXCEPT ![k] = r]
            /\ peer_stats' = [peer_stats EXCEPT ![p] = Tally(@, RawTally(t) \cup PeerTally(o))]

LEMMA AnnouncementHears ==
  ASSUME Inv, NEW p \in Peer, NEW x \in Prefix, NEW d \in Digest, Announcement(p, x, d)
  PROVE  \E t \in Times, late \in BOOLEAN : Hears(<<p, x>>, t, late, d)
<1> DEFINE k == <<p, x>>
<1>1. PICK t \in Times, late \in BOOLEAN :
        /\ k \in keys
        /\ Receive(p, t, OrderKey(t, late))
        /\ Update(k, t, OrderKey(t, late), d)
        /\ UNCHANGED setup
        /\ \/ /\ RouteEventIsLate(k, OrderKey(t, late))
              /\ UNCHANGED plugin
              /\ peer_stats' = [peer_stats EXCEPT ![p] =
                    Tally(@, (RawTally(t) \cap PeerCounter) \cup {"out_of_order"})]
           \/ /\ ~RouteEventIsLate(k, OrderKey(t, late))
              /\ routes' = [routes EXCEPT ![k] =
                    IF AnnouncementOutcome(k, d, t) = "duplicate_announcements"
                    THEN [@ EXCEPT !.last_order = OrderKey(t, late)]
                    ELSE Installed(d, t, OrderKey(t, late))]
              /\ peers' = [peers EXCEPT ![p] =
                    AfterUpdate(p, t, OrderKey(t, late), peers[p].active_route_ids \cup {k})]
              /\ peer_stats' = [peer_stats EXCEPT ![p] =
                    Tally(@, RawTally(t) \cup PeerTally(AnnouncementOutcome(k, d, t)))]
              /\ UNCHANGED rib_dump
  BY ZenonT(40) DEF Announcement, CountLate, CountUpdate
<1>2. UpdateOutcome(k, d, t) = AnnouncementOutcome(k, d, t) /\ k[1] = p
  BY ChurnAssumption DEF UpdateOutcome
<1> DEFINE r == IF AnnouncementOutcome(k, d, t) = "duplicate_announcements"
                THEN [routes[k] EXCEPT !.last_order = OrderKey(t, late)]
                ELSE Installed(d, t, OrderKey(t, late))
<1>3. r.initialized = TRUE
  <2>1. routes[k] \in RouteState(Digest) /\ (routes[k].initialized \/ ~routes[k].active)
    BY <1>1 DEF Inv, PluginTypes, OrderInv
  <2>2. CASE AnnouncementOutcome(k, d, t) = "duplicate_announcements"
    <3>1. routes[k].active
      BY <2>1, <2>2 DEF AnnouncementOutcome, RouteState
    <3> QED
      BY <2>1, <2>2, <3>1 DEF RouteState
  <2>3. CASE AnnouncementOutcome(k, d, t) # "duplicate_announcements"
    BY <2>3 DEF Installed
  <2> QED
    BY <2>2, <2>3
<1>4. UNCHANGED plugin => UNCHANGED <<peers, routes, rib_dump>>
  BY DEF plugin
<1>5. ~RouteEventIsLate(k, OrderKey(t, late)) => routes' = [routes EXCEPT ![k] = r]
  BY <1>1
<1> HIDE DEF r
<1>6. /\ k \in keys /\ d \in Digest \cup {NoRoute}
      /\ Receive(k[1], t, OrderKey(t, late)) /\ Update(k, t, OrderKey(t, late), d)
      /\ UNCHANGED <<setup, rib_dump>>
  BY <1>1, <1>2, <1>4
<1>7. ASSUME RouteEventIsLate(k, OrderKey(t, late))
      PROVE  Hears(k, t, late, d)
  <2>1. /\ UNCHANGED <<peers, routes>>
        /\ peer_stats' = [peer_stats EXCEPT ![k[1]] =
               Tally(@, (RawTally(t) \cap PeerCounter) \cup {"out_of_order"})]
    BY <1>1, <1>2, <1>4, <1>7
  <2> HIDE DEF k
  <2> QED
    BY <1>6, <1>7, <2>1, Zenon DEF Hears
<1>8. ASSUME ~RouteEventIsLate(k, OrderKey(t, late))
      PROVE  Hears(k, t, late, d)
  <2>1. peers' = [peers EXCEPT ![k[1]] =
           AfterUpdate(k[1], t, OrderKey(t, late), peers[p].active_route_ids \cup {k})]
    BY <1>1, <1>2, <1>8
  <2>2. peer_stats' = [peer_stats EXCEPT ![k[1]] =
               Tally(@, RawTally(t) \cup PeerTally(UpdateOutcome(k, d, t)))]
    BY <1>1, <1>2, <1>8
  <2>3. routes' = [routes EXCEPT ![k] = r]
    BY <1>5, <1>8
  <2> HIDE DEF k
  <2> QED
    BY <1>3, <1>6, <1>8, <2>1, <2>2, <2>3, Zenon DEF Hears
<1> QED
  BY <1>7, <1>8

LEMMA WithdrawalHears ==
  ASSUME Inv, NEW p \in Peer, NEW x \in Prefix, Withdrawal(p, x)
  PROVE  \E t \in Times, late \in BOOLEAN : Hears(<<p, x>>, t, late, NoRoute)
<1> DEFINE k == <<p, x>>
<1>1. PICK t \in Times, late \in BOOLEAN :
        /\ k \in keys
        /\ Receive(p, t, OrderKey(t, late))
        /\ Update(k, t, OrderKey(t, late), NoRoute)
        /\ UNCHANGED setup
        /\ \/ /\ RouteEventIsLate(k, OrderKey(t, late))
              /\ UNCHANGED plugin
              /\ peer_stats' = [peer_stats EXCEPT ![p] =
                    Tally(@, (RawTally(t) \cap PeerCounter) \cup {"out_of_order"})]
           \/ /\ ~RouteEventIsLate(k, OrderKey(t, late))
              /\ routes' = [routes EXCEPT ![k] =
                    [@ EXCEPT !.initialized = TRUE, !.active = FALSE, !.last_order = OrderKey(t, late)]]
              /\ peers' = [peers EXCEPT ![p] =
                    AfterUpdate(p, t, OrderKey(t, late), peers[p].active_route_ids \ {k})]
              /\ peer_stats' = [peer_stats EXCEPT ![p] =
                    Tally(@, RawTally(t) \cup PeerTally(WithdrawalOutcome(k, t)))]
              /\ UNCHANGED rib_dump
  BY DEF Withdrawal, CountLate, CountUpdate
<1>2. UpdateOutcome(k, NoRoute, t) = WithdrawalOutcome(k, t) /\ k[1] = p
  BY DEF UpdateOutcome
<1> DEFINE r == [routes[k] EXCEPT !.initialized = TRUE, !.active = FALSE, !.last_order = OrderKey(t, late)]
<1>3. r.initialized = TRUE
  <2>1. routes[k] \in RouteState(Digest)
    BY <1>1 DEF Inv, PluginTypes
  <2> QED
    BY <2>1 DEF RouteState
<1>4. UNCHANGED plugin => UNCHANGED <<peers, routes, rib_dump>>
  BY DEF plugin
<1>5. ~RouteEventIsLate(k, OrderKey(t, late)) => routes' = [routes EXCEPT ![k] = r]
  BY <1>1
<1> HIDE DEF r
<1>6. /\ k \in keys /\ NoRoute \in Digest \cup {NoRoute}
      /\ Receive(k[1], t, OrderKey(t, late)) /\ Update(k, t, OrderKey(t, late), NoRoute)
      /\ UNCHANGED <<setup, rib_dump>>
  BY <1>1, <1>2, <1>4
<1>7. ASSUME RouteEventIsLate(k, OrderKey(t, late))
      PROVE  Hears(k, t, late, NoRoute)
  <2>1. /\ UNCHANGED <<peers, routes>>
        /\ peer_stats' = [peer_stats EXCEPT ![k[1]] =
               Tally(@, (RawTally(t) \cap PeerCounter) \cup {"out_of_order"})]
    BY <1>1, <1>2, <1>4, <1>7
  <2> HIDE DEF k
  <2> QED
    BY <1>6, <1>7, <2>1, Zenon DEF Hears
<1>8. ASSUME ~RouteEventIsLate(k, OrderKey(t, late))
      PROVE  Hears(k, t, late, NoRoute)
  <2>1. peers' = [peers EXCEPT ![k[1]] =
           AfterUpdate(k[1], t, OrderKey(t, late), peers[p].active_route_ids \ {k})]
    BY <1>1, <1>2, <1>8
  <2>2. peer_stats' = [peer_stats EXCEPT ![k[1]] =
               Tally(@, RawTally(t) \cup PeerTally(UpdateOutcome(k, NoRoute, t)))]
    BY <1>1, <1>2, <1>8
  <2>3. routes' = [routes EXCEPT ![k] = r]
    BY <1>5, <1>8
  <2> HIDE DEF k
  <2> QED
    BY <1>3, <1>6, <1>8, <2>1, <2>2, <2>3, Zenon DEF Hears
<1> QED
  BY <1>7, <1>8

LEMMA HearsSession ==
  ASSUME Inv, SessionInv, NEW k, NEW t \in Times, NEW late \in BOOLEAN, NEW d, Hears(k, t, late, d)
  PROVE  SessionInv'
<1> DEFINE p == k[1]
           order == OrderKey(t, late)
<1>1. /\ k \in keys /\ p \in Peer /\ Receive(p, t, order)
      /\ options' = options /\ keys' = keys /\ UNCHANGED rib_dump
      /\ phase' = phase /\ changed' = changed /\ DumpIsOver
      /\ \A j \in keys : j # k => table'[j] = table[j]
  BY KeyFacts DEF Hears, setup, Update, Inv, TruthTypes
<1>2. /\ now' = t /\ now <= t /\ t \in Nat /\ now \in Nat /\ order \in Nat
      /\ peers \in [Peer -> PeerData(keys)] /\ routes \in [keys -> RouteState(Digest)]
      /\ options.grace \in Nat /\ changed[p] \in Int
  BY <1>1, ReceiveFacts, OrderFacts, TimeFacts DEF Inv, PluginTypes, TruthTypes
<1>3. \A q \in Peer : PeerSession(q)
  BY DEF SessionInv
<1>4. \A j \in keys : KeyHeard(j) /\ j[1] \in Peer
  BY KeyFacts DEF SessionInv, Inv, TruthTypes
<1>5. DumpInv'
  BY <1>1, NoDump DEF SessionInv
<1>6. CASE RouteEventIsLate(k, order) /\ UNCHANGED <<peers, routes>>
  <2>1. routes[k].initialized
    <3>1. order < routes[k].last_order
      BY <1>6 DEF RouteEventIsLate
    <3>2. routes[k].initialized \/ routes[k].last_order = -1
      BY <1>1 DEF Inv, OrderInv, Never
    <3> QED
      BY <1>2, <3>1, <3>2
  <2>2. ASSUME NEW q \in Peer
        PROVE  PeerSession(q)'
    <3>1. Unnoticed(q)
      BY <1>1, <1>6 DEF Unnoticed
    <3> QED
      BY <1>1, <1>3, <3>1, UnnoticedSession
  <2>3. ASSUME NEW j \in keys
        PROVE  KeyHeard(j)'
    <3>1. CASE j = k
      BY <1>6, <2>1, <3>1 DEF KeyHeard
    <3>2. CASE j # k
      BY <1>1, <1>4, <1>6, <3>2, UnheardKey
    <3> QED
      BY <3>1, <3>2
  <2> QED
    BY <1>1, <1>5, <2>2, <2>3 DEF SessionInv
<1>7. ASSUME NEW ids, peers' = [peers EXCEPT ![p] = AfterUpdate(p, t, order, ids)],
             NEW r, r.initialized = TRUE, routes' = [routes EXCEPT ![k] = r]
      PROVE  SessionInv'
  <2>1. /\ peers'[p].sync_active = SyncActive(p, t)
        /\ peers'[p].baseline_complete = BaselineComplete(p, t)
        /\ peers'[p].sync_started = peers[p].sync_started
        /\ \A q \in Peer : q # p => peers'[q] = peers[q]
        /\ peers[p].sync_started \in Nat
    BY <1>1, <1>2, <1>7 DEF AfterUpdate, PeerData
  <2>2. PeerSession(p)'
    <3>1. SyncActive(p, t) => peers[p].sync_active
      BY DEF SyncActive
    <3>2. ASSUME phase[p] = "resync"
          PROVE  \/ SyncActive(p, t) /\ peers[p].sync_started = changed[p]
                 \/ options.grace > 0 /\ t - changed[p] > options.grace
      <4>1. CASE peers[p].sync_active /\ peers[p].sync_started = changed[p]
        BY <4>1 DEF SyncActive, SyncExpired
      <4>2. CASE options.grace > 0 /\ now - changed[p] > options.grace
        BY <4>2, <1>2
      <4> QED
        BY <1>1, <1>3, <3>2, <4>1, <4>2 DEF PeerSession
    <3>3. phase[p] = "settled" => BaselineComplete(p, t)
      BY <1>1, <1>3 DEF PeerSession, BaselineComplete
    <3> QED
      BY <1>1, <1>2, <1>3, <2>1, <3>1, <3>2, <3>3 DEF PeerSession
  <2>3. ASSUME NEW q \in Peer, q # p
        PROVE  PeerSession(q)'
    <3>1. Unnoticed(q)
      BY <1>1, <2>1, <2>3 DEF Unnoticed
    <3> QED
      BY <1>1, <1>3, <3>1, UnnoticedSession
  <2>4. ASSUME NEW j \in keys
        PROVE  KeyHeard(j)'
    <3>1. CASE j = k
      <4>1. routes'[k].initialized = TRUE
        BY <1>1, <1>2, <1>7
      <4> QED
        BY <3>1, <4>1 DEF KeyHeard
    <3>2. CASE j # k
      <4>1. routes'[j] = routes[j] /\ table'[j] = table[j] /\ j[1] \in Peer /\ KeyHeard(j)
        BY <1>1, <1>2, <1>4, <1>7, <3>2
      <4>2. CASE j[1] # p
        BY <1>1, <2>1, <4>1, <4>2, UnheardKey
      <4>3. CASE j[1] = p
        <5>1. ASSUME phase[p] = "unknown"
              PROVE  BaselineComplete(p, t) = peers[p].baseline_complete
          <6>1. ~peers[p].sync_active /\ peers[p].baseline_complete \in BOOLEAN
            BY <1>1, <1>2, <1>3, <5>1 DEF PeerSession, PeerData
          <6> QED
            BY <6>1 DEF BaselineComplete, SyncExpired
        <5> QED
          BY <1>1, <2>1, <4>1, <4>3, <5>1 DEF KeyHeard
      <4> QED
        BY <4>2, <4>3
    <3> QED
      BY <3>1, <3>2
  <2> QED
    BY <1>1, <1>5, <2>2, <2>3, <2>4 DEF SessionInv
<1> QED
  BY <1>6, <1>7 DEF Hears

LEMMA RibElementSession ==
  ASSUME Inv, SessionInv, NEW p \in Peer, NEW x \in Prefix, RibElement(p, x)
  PROVE  SessionInv'
<1> DEFINE k == <<p, x>>
           sending == dumped \cup {k}
           known(order) == [peers EXCEPT ![p] = AfterElement(k, order)]
           read(position, t) ==
             IF position = "start" \/ current_rib_dump_timestamp # t THEN {p}
             ELSE current_rib_dump_peers \cup {p}
<1>1. PICK t \in Times, late \in BOOLEAN, position \in RibPosition(<<p, x>>) :
        /\ k \in keys
        /\ IF dump = "closed" THEN t > last_dump ELSE t = now /\ k \notin dumped
        /\ Receive(p, t, OrderKey(t, late))
        /\ dump' = CASE position = "start" -> x [] position = "middle" -> "body" [] OTHER -> "closed"
        /\ dumped' = IF position = "end" THEN {} ELSE sending
        /\ phase' = IF position # "end" THEN phase
                    ELSE [q \in Peer |-> IF q \in PeersOf(sending) THEN "dumped" ELSE phase[q]]
        /\ last_dump' = t
        /\ UNCHANGED <<table, changed, setup>>
        /\ HandleRib(k, t, OrderKey(t, late), position)
  BY DEF RibElement
<1> DEFINE order == OrderKey(t, late)
<1>2. \/ RouteEventIsLate(k, order) /\ UNCHANGED plugin
      \/ /\ routes' = [routes EXCEPT ![k] = Installed(table[k], t, order)]
         /\ peers' = IF position = "end" THEN AfterDump(known(order), read(position, t)) ELSE known(order)
         /\ current_rib_dump_peers' = IF position = "end" THEN {} ELSE read(position, t)
         /\ current_rib_dump_timestamp' = t
  BY <1>1 DEF HandleRib, CountLate
<1>3. /\ options' = options /\ keys' = keys
      /\ now' = t /\ now <= t /\ t \in Nat /\ now \in Nat /\ order \in Nat
      /\ peers \in [Peer -> PeerData(keys)] /\ routes \in [keys -> RouteState(Digest)]
      /\ phase \in [Peer -> Phase] /\ dumped \subseteq keys /\ current_rib_dump_peers \subseteq Peer
  BY <1>1, ReceiveFacts, OrderFacts, TimeFacts DEF Inv, PluginTypes, TruthTypes, setup
<1>4. /\ \A q \in Peer : PeerSession(q)
      /\ \A j \in keys : KeyHeard(j) /\ j[1] \in Peer
      /\ DumpInv /\ p \in PeersOf(sending)
  <2>1. p \in PeersOf(sending)
    BY DEF PeersOf
  <2> QED
    BY <2>1, KeyFacts DEF SessionInv, Inv, TruthTypes
<1>5. /\ last_dump \in Int /\ current_rib_dump_timestamp \in Int /\ current_rib_dump_timestamp <= last_dump
      /\ last_dump <= t
      /\ \A j \in dumped : routes[j].initialized
      /\ dump # "closed" =>
           /\ last_dump = t
           /\ current_rib_dump_timestamp = t => current_rib_dump_peers \subseteq PeersOf(dumped)
  <2>1. DumpInv
    BY <1>4
  <2>2. last_dump <= t
    BY <1>1, <1>3, <2>1 DEF DumpInv
  <2> QED
    BY <1>1, <2>1, <2>2 DEF DumpInv
\* The peers read are those of the dump.
<1>6. position # "start" => dump # "closed"
  BY DEF RibPosition
<1>7. PeersOf(dumped) \subseteq PeersOf(sending)
  BY DEF PeersOf
<1>8. read(position, t) \subseteq PeersOf(sending)
  BY <1>4, <1>5, <1>6, <1>7
<1>9. position = "end" => \A j \in keys : table[j] # NoRoute => j \in sending
  BY DEF RibPosition
\* What the step does to the sessions.
<1>10. /\ routes'[k].initialized
       /\ \A j \in keys : j # k => routes'[j] = routes[j]
  <2>1. CASE RouteEventIsLate(k, order) /\ UNCHANGED plugin
    <3>1. order < routes[k].last_order
      BY <2>1 DEF RouteEventIsLate
    <3>2. routes[k].initialized \/ routes[k].last_order = -1
      BY <1>1 DEF Inv, OrderInv, Never
    <3>3. routes' = routes
      BY <2>1 DEF plugin
    <3> QED
      BY <1>3, <3>1, <3>2, <3>3
  <2>2. CASE routes' = [routes EXCEPT ![k] = Installed(table[k], t, order)]
    <3>1. Installed(table[k], t, order).initialized = TRUE
      BY DEF Installed
    <3> QED
      BY <1>1, <1>3, <2>2, <3>1
  <2> QED
    BY <1>2, <2>1, <2>2
<1>11. ASSUME NEW q \in Peer
       PROVE  /\ peers'[q].sync_started = peers[q].sync_started
              /\ \/ /\ peers'[q].sync_active = peers[q].sync_active
                    /\ peers'[q].baseline_complete = peers[q].baseline_complete
                 \/ /\ position = "end" /\ q \in PeersOf(sending)
                    /\ peers'[q].sync_active = FALSE
  <2>1. CASE UNCHANGED plugin
    BY <2>1 DEF plugin
  <2>2. CASE peers' = IF position = "end" THEN AfterDump(known(order), read(position, t)) ELSE known(order)
    <3>1. /\ known(order)[q].sync_started = peers[q].sync_started
          /\ known(order)[q].sync_active = peers[q].sync_active
          /\ known(order)[q].baseline_complete = peers[q].baseline_complete
          /\ {"sync_active", "sync_started"} \subseteq DOMAIN known(order)[q]
      BY <1>3 DEF AfterElement, PeerData
    <3> HIDE DEF known, read
    <3>2. CASE position # "end"
      BY <2>2, <3>1, <3>2
    <3>3. CASE position = "end" /\ q \notin read(position, t)
      BY <2>2, <3>1, <3>3 DEF AfterDump
    <3>4. CASE position = "end" /\ q \in read(position, t)
      <4>1. peers'[q] = [known(order)[q] EXCEPT !.baseline_complete = TRUE, !.sync_active = FALSE]
        BY <2>2, <3>4 DEF AfterDump
      <4>2. peers'[q].sync_active = FALSE /\ peers'[q].sync_started = known(order)[q].sync_started
        BY <3>1, <4>1
      <4> QED
        BY <1>8, <3>1, <3>4, <4>2
    <3> QED
      BY <3>2, <3>3, <3>4
  <2> QED
    BY <1>2, <2>1, <2>2
<1> HIDE DEF read, known, order
<1>12. ASSUME NEW q \in Peer
       PROVE  PeerSession(q)'
  <2>1. CASE position = "end" /\ q \in PeersOf(sending)
    <3>1. phase'[q] = "dumped"
      BY <1>1, <2>1
    <3> QED
      BY <3>1 DEF PeerSession
  <2>2. CASE ~(position = "end" /\ q \in PeersOf(sending))
    <3>1. phase'[q] = phase[q] /\ changed'[q] = changed[q]
      BY <1>1, <2>2
    <3>2. Unnoticed(q)
      BY <1>11, <2>2, <3>1 DEF Unnoticed
    <3> QED
      BY <1>1, <1>3, <1>4, <3>2, UnnoticedSession
  <2> QED
    BY <2>1, <2>2
<1>13. ASSUME NEW j \in keys
       PROVE  KeyHeard(j)'
  <2>1. CASE j \in sending
    BY <1>5, <1>10, <2>1 DEF KeyHeard
  <2>2. CASE j \notin sending /\ position = "end"
    <3>1. table'[j] = NoRoute
      BY <1>1, <1>9, <2>2
    <3> QED
      BY <3>1 DEF KeyHeard
  <2>3. CASE j \notin sending /\ position # "end"
    <3>1. /\ routes'[j] = routes[j] /\ table'[j] = table[j] /\ phase'[j[1]] = phase[j[1]]
          /\ peers'[j[1]].baseline_complete = peers[j[1]].baseline_complete
      BY <1>1, <1>4, <1>10, <1>11, <2>3
    <3> QED
      BY <1>4, <3>1, UnheardKey
  <2> QED
    BY <2>1, <2>2, <2>3
<1>14. DumpInv'
  <2>1. \A j \in dumped' : routes'[j].initialized
    <3>1. \A j \in sending : routes'[j].initialized
      BY <1>3, <1>5, <1>10
    <3> QED
      BY <1>1, <3>1
  <2>0. PeersOf(dumped)' = PeersOf(dumped')
    BY DEF PeersOf
  <2> HIDE DEF sending
  <2>2. CASE UNCHANGED plugin
    <3>1. UNCHANGED <<current_rib_dump_peers, current_rib_dump_timestamp>>
      BY <2>2 DEF plugin, rib_dump
    <3>2. ASSUME dump' # "closed", current_rib_dump_timestamp = t
          PROVE  current_rib_dump_peers \subseteq PeersOf(dumped')
      <4>1. position # "end" /\ dumped' = sending
        BY <1>1, <3>2
      <4>2. dump # "closed"
        BY <1>1, <1>3, <1>5, <3>2
      <4> QED
        BY <1>5, <1>7, <3>2, <4>1, <4>2
    <3> QED
      BY <1>1, <1>3, <1>5, <2>0, <2>1, <3>1, <3>2 DEF DumpInv
  <2>3. CASE /\ current_rib_dump_peers' = IF position = "end" THEN {} ELSE read(position, t)
             /\ current_rib_dump_timestamp' = t
    <3>1. current_rib_dump_peers' \subseteq PeersOf(dumped')
      BY <1>1, <1>8, <2>3
    <3> QED
      BY <1>1, <1>3, <2>0, <2>1, <2>3, <3>1 DEF DumpInv
  <2> QED
    BY <1>2, <2>2, <2>3
<1> QED
  BY <1>3, <1>12, <1>13, <1>14 DEF SessionInv

\* The beginning or the end of a session, or its end-of-RIB mark.
LEMMA SessionChangeSession ==
  ASSUME Inv, SessionInv, NEW p \in Peer, NEW t \in Times, NEW o, Receive(p, t, o),
         NEW state, NEW ks, SessionChange(p, t, state, ks),
         options' = options, keys' = keys, UNCHANGED rib_dump,
         \A k \in keys : routes'[k].initialized = routes[k].initialized,
         \A q \in Peer : q # p => peers'[q] = peers[q],
         ks = KeysOf(p) \/ \A k \in KeysOf(p) : table[k] = NoRoute \/ routes[k].initialized,
         PeerSession(p)'
  PROVE  SessionInv'
<1>1. /\ phase \in [Peer -> Phase] /\ changed \in [Peer -> Int]
      /\ \A k \in keys : k[1] \in Peer
      /\ phase' = [phase EXCEPT ![p] = state] /\ changed' = [changed EXCEPT ![p] = t]
      /\ table' = [k \in keys |-> IF k \in ks THEN NoRoute ELSE table[k]]
      /\ DumpIsOver
  BY KeyFacts DEF SessionChange, Inv, TruthTypes
<1>2. ASSUME NEW q \in Peer, q # p
      PROVE  PeerSession(q)'
  <2>1. Unnoticed(q)
    BY <1>1, <1>2 DEF Unnoticed
  <2> QED
    BY <2>1, UnnoticedSession DEF SessionInv
<1>3. ASSUME NEW k \in keys
      PROVE  KeyHeard(k)'
  <2>1. KeyHeard(k) /\ (table'[k] = NoRoute \/ table'[k] = table[k]) /\ k[1] \in Peer
    BY <1>1 DEF SessionInv
  <2>2. CASE k[1] # p
    <3>1. phase'[k[1]] = phase[k[1]] /\ peers'[k[1]] = peers[k[1]]
      BY <1>1, <2>1, <2>2
    <3> QED
      BY <2>1, <3>1, UnheardKey
  <2>3. CASE k[1] = p
    <3>1. k \in KeysOf(p)
      BY <2>3 DEF KeysOf
    <3>2. table'[k] = NoRoute \/ routes'[k].initialized
      BY <1>1, <2>1, <3>1
    <3> QED
      BY <3>2 DEF KeyHeard
  <2> QED
    BY <2>2, <2>3
<1>4. DumpInv'
  BY <1>1, NoDump DEF SessionInv
<1> QED
  BY <1>2, <1>3, <1>4 DEF SessionInv

LEMMA ResetInitialized ==
  ASSUME Inv, NEW p \in Peer, NEW order, routes' = ResetRoutes(p, order) \/ UNCHANGED routes
  PROVE  \A k \in keys : routes'[k].initialized = routes[k].initialized
<1> SUFFICES ASSUME NEW k \in keys, routes' = ResetRoutes(p, order)
             PROVE  routes'[k].initialized = routes[k].initialized
  OBVIOUS
<1>1. routes[k] \in RouteState(Digest)
  BY DEF Inv, PluginTypes
<1> QED
  BY <1>1 DEF ResetRoutes, RouteState

LEMMA PeerDownSession ==
  ASSUME Inv, SessionInv, NEW p \in Peer, PeerDown(p)
  PROVE  SessionInv'
<1>1. PICK t \in Times :
        /\ Receive(p, t, OrderKey(t, FALSE))
        /\ SessionChange(p, t, "down", KeysOf(p))
        /\ routes' = ResetRoutes(p, OrderKey(t, FALSE))
        /\ peers' = [peers EXCEPT ![p] =
              [@ EXCEPT !.last_any_order = OrderKey(t, FALSE), !.established = FALSE,
                        !.sync_active = FALSE, !.baseline_complete = FALSE,
                        !.active_route_ids = {}]]
        /\ options' = options /\ keys' = keys /\ UNCHANGED rib_dump
  BY DEF PeerDown, ResetPeerRoutes, setup
<1>2. /\ peers \in [Peer -> PeerData(keys)] /\ phase \in [Peer -> Phase]
  BY DEF Inv, PluginTypes, TruthTypes
<1>3. PeerSession(p)'
  <2>1. peers'[p].sync_active = FALSE /\ phase'[p] = "down"
    BY <1>1, <1>2 DEF PeerData, SessionChange
  <2> QED
    BY <2>1 DEF PeerSession
<1>4. \A k \in keys : routes'[k].initialized = routes[k].initialized
  BY <1>1, ResetInitialized
<1>5. \A q \in Peer : q # p => peers'[q] = peers[q]
  BY <1>1, <1>2
<1> QED
  BY <1>1, <1>3, <1>4, <1>5, SessionChangeSession

LEMMA PeerUpSession ==
  ASSUME Inv, SessionInv, NEW p \in Peer, PeerUp(p)
  PROVE  SessionInv'
<1>1. PICK t \in Times :
        /\ Receive(p, t, OrderKey(t, FALSE))
        /\ SessionChange(p, t, "resync", KeysOf(p))
        /\ routes' = ResetRoutes(p, OrderKey(t, FALSE)) \/ UNCHANGED routes
        /\ peers' = [peers EXCEPT ![p] =
              [@ EXCEPT !.last_any_order = OrderKey(t, FALSE), !.established = TRUE,
                        !.sync_active = TRUE, !.baseline_complete = FALSE, !.sync_started = t,
                        !.active_route_ids = IF peers[p].established THEN {}
                                             ELSE peers[p].active_route_ids]]
        /\ options' = options /\ keys' = keys /\ UNCHANGED rib_dump
  BY DEF PeerUp, ResetPeerRoutes, setup
<1>2. /\ peers \in [Peer -> PeerData(keys)] /\ phase \in [Peer -> Phase] /\ changed \in [Peer -> Int]
  BY DEF Inv, PluginTypes, TruthTypes
<1>3. PeerSession(p)'
  <2>1. /\ peers'[p].sync_active = TRUE /\ peers'[p].sync_started = t
        /\ phase'[p] = "resync" /\ changed'[p] = t
    BY <1>1, <1>2 DEF PeerData, SessionChange
  <2> QED
    BY <2>1 DEF PeerSession
<1>4. \A k \in keys : routes'[k].initialized = routes[k].initialized
  BY <1>1, ResetInitialized
<1>5. \A q \in Peer : q # p => peers'[q] = peers[q]
  BY <1>1, <1>2
<1> QED
  BY <1>1, <1>3, <1>4, <1>5, SessionChangeSession

LEMMA EndOfRibSession ==
  ASSUME Inv, SessionInv, NEW p \in Peer, EndOfRib(p)
  PROVE  SessionInv'
<1>1. PICK t \in Times :
        /\ phase[p] \in {"resync", "dumped", "settled"}
        /\ Receive(p, t, OrderKey(t, FALSE))
        /\ SessionChange(p, t, "settled", {})
        /\ peers' = [peers EXCEPT ![p] =
              [@ EXCEPT !.last_any_order = OrderKey(t, FALSE), !.sync_active = FALSE,
                        !.baseline_complete = TRUE]]
        /\ options' = options /\ keys' = keys /\ UNCHANGED <<routes, rib_dump>>
  BY DEF EndOfRib, setup
<1>2. /\ peers \in [Peer -> PeerData(keys)] /\ phase \in [Peer -> Phase]
  BY DEF Inv, PluginTypes, TruthTypes
<1>3. PeerSession(p)'
  <2>1. peers'[p].sync_active = FALSE /\ peers'[p].baseline_complete = TRUE /\ phase'[p] = "settled"
    BY <1>1, <1>2 DEF PeerData, SessionChange
  <2> QED
    BY <2>1 DEF PeerSession
<1>4. \A k \in KeysOf(p) : table[k] = NoRoute \/ routes[k].initialized
  BY <1>1 DEF SessionInv, KeyHeard, KeysOf
<1>5. \A q \in Peer : q # p => peers'[q] = peers[q]
  BY <1>1, <1>2
<1> QED
  BY <1>1, <1>3, <1>4, <1>5, SessionChangeSession

LEMMA LateSessionMessageSession ==
  ASSUME Inv, SessionInv, NEW p \in Peer, LateSessionMessage(p)
  PROVE  SessionInv'
<1>1. PICK t \in Times :
        /\ Receive(p, t, OrderKey(t, TRUE)) /\ DumpIsOver
        /\ UNCHANGED <<setup, table, phase, changed, plugin>>
  BY DEF LateSessionMessage
<1>2. options' = options /\ keys' = keys /\ UNCHANGED <<peers, routes, rib_dump>>
  BY <1>1 DEF setup, plugin
<1>3. ASSUME NEW q \in Peer
      PROVE  PeerSession(q)'
  <2>1. Unnoticed(q)
    BY <1>1, <1>2 DEF Unnoticed
  <2> QED
    BY <1>1, <1>2, <2>1, UnnoticedSession DEF SessionInv
<1>4. ASSUME NEW k \in keys
      PROVE  KeyHeard(k)'
  BY <1>1, <1>2 DEF SessionInv, KeyHeard
<1>5. DumpInv'
  BY <1>1, <1>2, NoDump DEF SessionInv
<1> QED
  BY <1>2, <1>3, <1>4, <1>5 DEF SessionInv

LEMMA InitSession == Init => SessionInv
<1> SUFFICES ASSUME Init PROVE SessionInv
  OBVIOUS
<1>1. /\ keys \in RouteKeys /\ options \in Options
      /\ phase = [p \in Peer |-> "unknown"] /\ peers = [p \in Peer |-> NewPeer]
      /\ dump = "closed" /\ dumped = {} /\ last_dump = Never /\ current_rib_dump_timestamp = Never
      /\ \A k \in keys : options.assume_complete => table[k] = NoRoute
  BY DEF Init
<1>2. \A k \in keys : k[1] \in Peer
  BY <1>1, KeyFacts
<1>3. ASSUME NEW p \in Peer
      PROVE  PeerSession(p) /\ (~options.assume_complete => ~peers[p].baseline_complete)
  BY <1>1 DEF PeerSession, NewPeer
<1>4. \A k \in keys : KeyHeard(k)
  BY <1>1, <1>2, <1>3 DEF KeyHeard
<1>5. DumpInv
  BY <1>1 DEF DumpInv, Never
<1> QED
  BY <1>3, <1>4, <1>5 DEF SessionInv

LEMMA NextSession == Inv /\ SessionInv /\ [Next]_vars => SessionInv'
<1> SUFFICES ASSUME Inv, SessionInv, [Next]_vars PROVE SessionInv'
  OBVIOUS
<1>1. CASE UNCHANGED vars
  BY <1>1 DEF vars, setup, truth, clock, plugin, rib_dump, stats, SessionInv, PeerSession, KeyHeard, DumpInv,
              PeersOf
<1>2. CASE Message
  <2>1. PICK p \in PeersOf(keys) :
          \/ \E x \in Prefix :
               Withdrawal(p, x) \/ RibElement(p, x) \/ \E d \in Routes[<<p, x>>] : Announcement(p, x, d)
          \/ PeerDown(p) \/ PeerUp(p) \/ EndOfRib(p) \/ LateSessionMessage(p)
    BY <1>2 DEF Message
  <2>2. p \in Peer
    BY KeyFacts DEF Inv, TruthTypes
  <2>3. ASSUME NEW x \in Prefix, NEW d \in Routes[<<p, x>>], Announcement(p, x, d)
        PROVE  SessionInv'
    <3>1. d \in Digest
      BY <2>2, ChurnAssumption
    <3> QED
      BY <2>2, <2>3, <3>1, AnnouncementHears, HearsSession
  <2>4. ASSUME NEW x \in Prefix, Withdrawal(p, x)
        PROVE  SessionInv'
    BY <2>2, <2>4, WithdrawalHears, HearsSession
  <2>5. ASSUME NEW x \in Prefix, RibElement(p, x)
        PROVE  SessionInv'
    BY <2>2, <2>5, RibElementSession
  <2> QED
    BY <2>1, <2>2, <2>3, <2>4, <2>5, PeerDownSession, PeerUpSession, EndOfRibSession,
       LateSessionMessageSession
<1> QED
  BY <1>1, <1>2 DEF Next

-----------------------------------------------------------------------------
(* Folds and sums over finite sets.                                        *)

\* The element of a set that a fold takes.
Chosen(s) == CHOOSE x \in s : TRUE

\* it folds the sets below S with the step F.
IsFold(it, F, base, S) ==
  it = [s \in SUBSET S |-> IF s = {} THEN base ELSE F[<<Chosen(s), it[s \ {Chosen(s)}]>>]]

\* A nonempty finite set without the element chosen is a smaller set.
LEMMA ChosenFacts ==
  ASSUME NEW s, IsFiniteSet(s), s # {}
  PROVE  /\ Chosen(s) \in s
         /\ IsFiniteSet(s \ {Chosen(s)})
         /\ Cardinality(s) \in Nat /\ Cardinality(s) - 1 \in Nat
         /\ Cardinality(s \ {Chosen(s)}) = Cardinality(s) - 1
<1>1. Chosen(s) \in s
  BY DEF Chosen
<1>2. Cardinality(s) \in Nat /\ Cardinality(s) # 0
  BY FS_CardinalityType, FS_EmptySet
<1>3. /\ IsFiniteSet(s \ {Chosen(s)})
      /\ Cardinality(s \ {Chosen(s)}) = Cardinality(s) - 1
  BY <1>1, FS_RemoveElement
<1> QED
  BY <1>1, <1>2, <1>3

\* A fold over a finite set is defined.
LEMMA FoldExists ==
  ASSUME NEW S, IsFiniteSet(S), NEW F, NEW base
  PROVE  \E it : IsFold(it, F, base, S)
<1> DEFINE Sub(n) == {s \in SUBSET S : Cardinality(s) <= n}
           Upto(n, it) == it = [s \in Sub(n) |->
             IF s = {} THEN base ELSE F[<<Chosen(s), it[s \ {Chosen(s)}]>>]]
           E == {n \in Nat : \E it : Upto(n, it)}
<1>1. \A s \in SUBSET S : IsFiniteSet(s) /\ Cardinality(s) \in Nat
                          /\ Cardinality(s) <= Cardinality(S) /\ (Cardinality(s) = 0 <=> s = {})
  BY FS_Subset, FS_CardinalityType, FS_EmptySet
<1>2. 0 \in E
  <2> DEFINE it == [s \in Sub(0) |-> base]
  <2>1. \A s \in Sub(0) : s = {}
    BY <1>1
  <2>2. Upto(0, it)
    BY <2>1
  <2> QED
    BY <2>2
<1>3. ASSUME NEW n \in Nat, n \in E
      PROVE  n + 1 \in E
  <2>1. PICK it : Upto(n, it)
    BY <1>3
  <2> DEFINE down(s) == s \ {Chosen(s)}
             new == [s \in Sub(n + 1) |->
                      IF s = {} THEN base ELSE F[<<Chosen(s), it[down(s)]>>]]
  <2>2. ASSUME NEW s \in Sub(n + 1), s # {}
        PROVE  down(s) \in Sub(n) /\ down(s) \in Sub(n + 1)
    BY <1>1, <2>2, ChosenFacts
  <2>3. ASSUME NEW s \in Sub(n)
        PROVE  s \in Sub(n + 1) /\ new[s] = it[s]
    <3>1. s \in Sub(n + 1)
      BY <1>1
    <3>2. it[s] = IF s = {} THEN base ELSE F[<<Chosen(s), it[down(s)]>>]
      BY <2>1
    <3>3. new[s] = IF s = {} THEN base ELSE F[<<Chosen(s), it[down(s)]>>]
      BY <3>1
    <3> QED
      BY <3>1, <3>2, <3>3
  <2>4. new = [s \in Sub(n + 1) |->
                IF s = {} THEN base ELSE F[<<Chosen(s), new[down(s)]>>]]
    <3>1. \A s \in Sub(n + 1) : s # {} => it[down(s)] = new[down(s)]
      BY <2>2, <2>3
    <3> HIDE DEF Sub
    <3> QED
      BY <3>1
  <2>5. Upto(n + 1, new)
    BY <2>4
  <2> HIDE DEF Upto
  <2> QED
    BY <2>5
<1> HIDE DEF E
<1>4. Cardinality(S) \in E
  BY <1>1, <1>2, <1>3, NatSetInduction
<1>5. PICK it : Upto(Cardinality(S), it)
  BY <1>4 DEF E
<1>6. Sub(Cardinality(S)) = SUBSET S
  BY <1>1
<1> QED
  BY <1>5, <1>6 DEF IsFold

\* Subsets of a finite set all belong to a set that has the empty one and each one
\* whose remainder it has.
LEMMA SubsetInduction ==
  ASSUME NEW S, IsFiniteSet(S), NEW A, {} \in A,
         \A s \in SUBSET S : s # {} /\ s \ {Chosen(s)} \in A => s \in A
  PROVE  \A s \in SUBSET S : s \in A
<1> DEFINE B == {n \in Nat : \A s \in SUBSET S : Cardinality(s) = n => s \in A}
<1>1. \A s \in SUBSET S : IsFiniteSet(s) /\ Cardinality(s) \in Nat /\ (Cardinality(s) = 0 <=> s = {})
  BY FS_Subset, FS_CardinalityType, FS_EmptySet
<1>2. 0 \in B
  BY <1>1
<1>3. ASSUME NEW n \in Nat, n \in B
      PROVE  n + 1 \in B
  <2> SUFFICES ASSUME NEW s \in SUBSET S, Cardinality(s) = n + 1 PROVE s \in A
    OBVIOUS
  <2>1. s # {}
    BY <1>1
  <2>2. s \ {Chosen(s)} \in SUBSET S /\ Cardinality(s \ {Chosen(s)}) = n
    BY <1>1, <2>1, ChosenFacts
  <2> QED
    BY <1>3, <2>1, <2>2
<1> HIDE DEF B
<1>4. \A n \in Nat : n \in B
  BY <1>2, <1>3, NatSetInduction
<1> QED
  BY <1>1, <1>4 DEF B


\* The partial sums of h below S.
PartialSums(it, h, S) ==
  \A s \in SUBSET S : it[s] \in Int /\ it[s] = IF s = {} THEN 0 ELSE h[Chosen(s)] + it[s \ {Chosen(s)}]

LEMMA SumIsFold ==
  ASSUME NEW S, IsFiniteSet(S), NEW h \in [S -> Int]
  PROVE  \E it : SumOver(h, S) = it[S] /\ PartialSums(it, h, S)
<1> DEFINE F == [q \in S \X Int |-> h[q[1]] + q[2]]
           Equation(it) == it = [s \in SUBSET S |-> IF s = {} THEN 0
                                  ELSE h[CHOOSE x \in s : TRUE] + it[s \ {CHOOSE x \in s : TRUE}]]
<1>1. PICK it : IsFold(it, F, 0, S)
  BY FoldExists
<1>2. \A x \in S, r \in Int : F[<<x, r>>] = h[x] + r /\ F[<<x, r>>] \in Int
  OBVIOUS
<1> HIDE DEF F
<1>3. \A s \in SUBSET S : s # {} => Chosen(s) \in S /\ s \ {Chosen(s)} \in SUBSET S
  BY DEF Chosen
<1>4. \A s \in SUBSET S : it[s] \in Int
  <2> DEFINE A == {s \in SUBSET S : it[s] \in Int}
  <2>1. {} \in A
    BY <1>1 DEF IsFold
  <2>2. \A s \in SUBSET S : s # {} /\ s \ {Chosen(s)} \in A => s \in A
    <3> SUFFICES ASSUME NEW s \in SUBSET S, s # {}, it[s \ {Chosen(s)}] \in Int
                 PROVE  it[s] \in Int
      OBVIOUS
    <3>1. it[s] = F[<<Chosen(s), it[s \ {Chosen(s)}]>>]
      BY <1>1 DEF IsFold
    <3> QED
      BY <1>2, <1>3, <3>1
  <2> HIDE DEF A
  <2>3. \A s \in SUBSET S : s \in A
    BY <2>1, <2>2, SubsetInduction
  <2> QED
    BY <2>3 DEF A
<1>5. it = [s \in SUBSET S |-> IF s = {} THEN 0 ELSE h[Chosen(s)] + it[s \ {Chosen(s)}]]
  <2>1. \A s \in SUBSET S : s # {} => 
          F[<<Chosen(s), it[s \ {Chosen(s)}]>>] = h[Chosen(s)] + it[s \ {Chosen(s)}]
    BY <1>2, <1>3, <1>4
  <2> QED
    BY <1>1, <2>1 DEF IsFold
<1>6. Equation(it)
  BY <1>5 DEF Chosen
<1> DEFINE sum == CHOOSE g : Equation(g)
<1>7. Equation(sum)
  BY <1>6, Zenon
<1>8. SumOver(h, S) = sum[S]
  BY Zenon DEF SumOver, MapThenSumSet, MapThenFoldSet
<1> HIDE DEF sum
<1>9. \A s \in SUBSET S : sum[s] = IF s = {} THEN 0 ELSE h[Chosen(s)] + sum[s \ {Chosen(s)}]
  BY <1>7 DEF Chosen
<1>10. \A s \in SUBSET S : sum[s] \in Int
  <2> DEFINE A == {s \in SUBSET S : sum[s] \in Int}
  <2>1. {} \in A
    <3>1. {} \in SUBSET S /\ sum[{}] = 0
      BY <1>9
    <3> QED
      BY <3>1
  <2>2. \A s \in SUBSET S : s # {} /\ s \ {Chosen(s)} \in A => s \in A
    <3> SUFFICES ASSUME NEW s \in SUBSET S, s # {}, sum[s \ {Chosen(s)}] \in Int
                 PROVE  sum[s] \in Int
      OBVIOUS
    <3>1. sum[s] = h[Chosen(s)] + sum[s \ {Chosen(s)}] /\ h[Chosen(s)] \in Int
      BY <1>3, <1>9
    <3> QED
      BY <3>1
  <2> HIDE DEF A
  <2>3. \A s \in SUBSET S : s \in A
    BY <2>1, <2>2, SubsetInduction
  <2> QED
    BY <2>3 DEF A
<1> QED
  BY <1>8, <1>9, <1>10 DEF PartialSums

\* Sums are integers, the sum of a sum of functions is the sum of their sums.
LEMMA SumType ==
  ASSUME NEW S, IsFiniteSet(S), NEW h \in [S -> Int]
  PROVE  SumOver(h, S) \in Int
<1>1. PICK H : SumOver(h, S) = H[S] /\ PartialSums(H, h, S)
  BY SumIsFold
<1> QED
  BY <1>1 DEF PartialSums

LEMMA SumPlus ==
  ASSUME NEW S, IsFiniteSet(S), NEW f \in [S -> Int], NEW g \in [S -> Int], NEW h \in [S -> Int],
         \A x \in S : h[x] = f[x] + g[x]
  PROVE  SumOver(h, S) = SumOver(f, S) + SumOver(g, S)
<1>1. PICK F : SumOver(f, S) = F[S] /\ PartialSums(F, f, S)
  BY SumIsFold
<1>2. PICK G : SumOver(g, S) = G[S] /\ PartialSums(G, g, S)
  BY SumIsFold
<1>3. PICK H : SumOver(h, S) = H[S] /\ PartialSums(H, h, S)
  BY SumIsFold
<1> DEFINE A == {s \in SUBSET S : H[s] = F[s] + G[s]}
<1>4. {} \in A
  <2>1. {} \in SUBSET S
    OBVIOUS
  <2>2. F[{}] = 0 /\ G[{}] = 0 /\ H[{}] = 0
    BY <1>1, <1>2, <1>3, <2>1 DEF PartialSums
  <2> QED
    BY <2>2
<1>5. ASSUME NEW s \in SUBSET S, s # {}, s \ {Chosen(s)} \in A
      PROVE  s \in A
  <2>1. Chosen(s) \in S /\ s \ {Chosen(s)} \in SUBSET S
    BY <1>5 DEF Chosen
  <2> DEFINE r == s \ {Chosen(s)}
             c == Chosen(s)
  <2>2. /\ H[s] = h[c] + H[r] /\ F[s] = f[c] + F[r] /\ G[s] = g[c] + G[r]
        /\ H[r] \in Int /\ F[r] \in Int /\ G[r] \in Int
    BY <1>1, <1>2, <1>3, <1>5, <2>1 DEF PartialSums
  <2>3. h[c] = f[c] + g[c] /\ f[c] \in Int /\ g[c] \in Int /\ H[r] = F[r] + G[r]
    BY <2>1, <1>5
  <2> HIDE DEF c, r
  <2> QED
    BY <2>2, <2>3
<1> HIDE DEF A
<1>6. \A s \in SUBSET S : s \in A
  BY <1>4, <1>5, SubsetInduction
<1> QED
  BY <1>1, <1>2, <1>3, <1>6 DEF A

\* The sum over the elements of T of one each.
LEMMA SumCount ==
  ASSUME NEW S, IsFiniteSet(S), NEW T \in SUBSET S
  PROVE  SumOver([x \in S |-> IF x \in T THEN 1 ELSE 0], S) = Cardinality(T)
<1> DEFINE h == [x \in S |-> IF x \in T THEN 1 ELSE 0]
<1>1. h \in [S -> Int] /\ \A x \in S : h[x] = IF x \in T THEN 1 ELSE 0
  OBVIOUS
<1> HIDE DEF h
<1>2. PICK H : SumOver(h, S) = H[S] /\ PartialSums(H, h, S)
  BY <1>1, SumIsFold
<1> DEFINE A == {s \in SUBSET S : H[s] = Cardinality(s \cap T)}
<1>3. \A s \in SUBSET S : IsFiniteSet(s \cap T) /\ Cardinality(s \cap T) \in Nat
  BY FS_Subset, FS_CardinalityType
<1>4. {} \in A
  <2>1. {} \cap T = {}
    OBVIOUS
  <2> QED
    BY <1>2, <2>1, FS_EmptySet DEF PartialSums
<1>5. ASSUME NEW s \in SUBSET S, s # {}, s \ {Chosen(s)} \in A
      PROVE  s \in A
  <2> DEFINE c == Chosen(s)
             r == s \ {c}
  <2>1. c \in s /\ c \in S /\ r \in SUBSET S
    BY <1>5 DEF Chosen
  <2>2. H[s] = h[c] + H[r] /\ H[r] = Cardinality(r \cap T)
    BY <1>2, <1>5 DEF PartialSums
  <2>3. c \in T => r \cap T = (s \cap T) \ {c} /\ c \in s \cap T
    BY <2>1
  <2>4. c \notin T => r \cap T = s \cap T
    BY <2>1
  <2>5. c \in T => Cardinality(r \cap T) = Cardinality(s \cap T) - 1
    <3> SUFFICES ASSUME c \in T PROVE Cardinality(r \cap T) = Cardinality(s \cap T) - 1
      OBVIOUS
    <3>1. IsFiniteSet(s \cap T) /\ c \in s \cap T /\ r \cap T = (s \cap T) \ {c}
      BY <1>3, <2>3
    <3> HIDE DEF c, r
    <3>2. Cardinality((s \cap T) \ {c}) = Cardinality(s \cap T) - 1
      BY <3>1, FS_RemoveElement
    <3> QED
      BY <3>1, <3>2
  <2> HIDE DEF c, r
  <2>6. h[c] = IF c \in T THEN 1 ELSE 0
    BY <1>1, <2>1
  <2>7. Cardinality(s \cap T) \in Nat
    BY <1>3
  <2>8. H[s] = Cardinality(s \cap T)
    <3>1. CASE c \in T
      BY <2>2, <2>5, <2>6, <2>7, <3>1
    <3>2. CASE c \notin T
      BY <2>2, <2>4, <2>6, <2>7, <3>2
    <3> QED
      BY <3>1, <3>2
  <2> QED
    BY <2>8
<1> HIDE DEF A
<1>6. \A s \in SUBSET S : s \in A
  BY <1>4, <1>5, SubsetInduction
<1>7. S \cap T = T
  OBVIOUS
<1> QED
  BY <1>2, <1>6, <1>7 DEF A, h

\* One term of a sum changes: the sum changes by as much.
LEMMA SumChange ==
  ASSUME NEW S, IsFiniteSet(S), NEW f \in [S -> Int], NEW g \in [S -> Int], NEW y \in S,
         \A x \in S : x # y => g[x] = f[x]
  PROVE  SumOver(g, S) = SumOver(f, S) + (g[y] - f[y])
<1> DEFINE n == g[y] - f[y]
           h == [x \in S |-> IF x = y THEN n ELSE 0]
<1>1. n \in Int /\ h \in [S -> Int] /\ \A x \in S : h[x] = IF x = y THEN n ELSE 0
  OBVIOUS
<1>2. \A x \in S : g[x] = f[x] + h[x]
  OBVIOUS
<1> HIDE DEF h, n
<1>3. SumOver(g, S) = SumOver(f, S) + SumOver(h, S)
  BY <1>1, <1>2, SumPlus
<1>4. PICK H : SumOver(h, S) = H[S] /\ PartialSums(H, h, S)
  BY <1>1, SumIsFold
<1> DEFINE A == {s \in SUBSET S : H[s] = IF y \in s THEN n ELSE 0}
<1>5. {} \in A
  <2>1. {} \in SUBSET S /\ H[{}] = 0
    BY <1>4 DEF PartialSums
  <2> QED
    BY <2>1
<1>6. ASSUME NEW s \in SUBSET S, s # {}, s \ {Chosen(s)} \in A
      PROVE  s \in A
  <2> DEFINE c == Chosen(s)
             r == s \ {c}
  <2>1. c \in s /\ c \in S /\ r \in SUBSET S /\ (y \in r <=> y \in s /\ y # c)
    BY <1>6 DEF Chosen
  <2>2. H[s] = h[c] + H[r] /\ H[r] = IF y \in r THEN n ELSE 0
    BY <1>4, <1>6 DEF PartialSums
  <2>3. h[c] = IF c = y THEN n ELSE 0
    BY <1>1, <2>1
  <2> HIDE DEF c, r
  <2>4. H[s] = IF y \in s THEN n ELSE 0
    BY <2>1, <2>2, <2>3, <1>1
  <2> QED
    BY <2>4
<1> HIDE DEF A
<1>7. \A s \in SUBSET S : s \in A
  BY <1>5, <1>6, SubsetInduction
<1>8. SumOver(h, S) = n
  BY <1>4, <1>7 DEF A
<1> QED
  BY <1>3, <1>8 DEF n

-----------------------------------------------------------------------------
(* The types of the counters.                                              *)

Ledger == [mass : [ASN -> [OriginCounter -> Nat]], unknown : Nat]

CounterTypes ==
  /\ total \in [TotalCounter -> Nat]
  /\ peer_stats \in [Peer -> [PeerCounter -> Nat]]
  /\ prefix_stats \in [Prefix -> [PrefixCounter -> Nat]]
  /\ ledger \in Ledger

LEMMA AddFacts ==
  ASSUME NEW C, NEW c \in [C -> Nat], NEW names, NEW n \in Nat
  PROVE  /\ Add(c, names, n) \in [C -> Nat]
         /\ \A i \in C : Add(c, names, n)[i] = c[i] + IF i \in names THEN n ELSE 0
BY DEF Add

LEMMA TallyFacts ==
  ASSUME NEW C, NEW c \in [C -> Nat], NEW names
  PROVE  /\ Tally(c, names) \in [C -> Nat]
         /\ \A i \in C : Tally(c, names)[i] = c[i] + IF i \in names THEN 1 ELSE 0
BY AddFacts DEF Tally

\* Credits to the counters names[a] of each origin a.
CreditNamed(l, origins, mass, names) == CreditEach(l, origins, mass, LAMBDA a : names[a])

LEMMA ShareType ==
  ASSUME NEW origins \in SUBSET ASN, origins # {}, NEW mass \in Nat
  PROVE  mass \div Cardinality(origins) \in Nat
<1>1. IsFiniteSet(origins)
  BY ChurnAssumption, FS_Subset
<1>2. Cardinality(origins) \in Nat /\ Cardinality(origins) # 0
  BY <1>1, FS_CardinalityType, FS_EmptySet
<1> DEFINE c == Cardinality(origins)
<1> HIDE DEF c
<1>3. c \in Nat \ {0}
  BY <1>2 DEF c
<1>4. mass \div c \in Nat
  BY <1>3
<1> QED
  BY <1>4 DEF c

LEMMA CreditNamedType ==
  ASSUME NEW l \in Ledger, NEW origins \in SUBSET ASN, NEW mass \in Nat, NEW names
  PROVE  CreditNamed(l, origins, mass, names) \in Ledger
<1>1. l.mass \in [ASN -> [OriginCounter -> Nat]] /\ l.unknown \in Nat
      /\ l = [mass |-> l.mass, unknown |-> l.unknown]
  BY DEF Ledger
<1>2. CASE origins = {}
  <2>1. CreditNamed(l, origins, mass, names) = [l EXCEPT !.unknown = @ + 1]
    BY <1>2 DEF CreditNamed, CreditEach
  <2> QED
    BY <1>1, <2>1 DEF Ledger
<1>3. CASE origins # {}
  <2> DEFINE share == mass \div Cardinality(origins)
             m == [a \in ASN |-> IF a \in origins THEN Add(l.mass[a], names[a], share) ELSE l.mass[a]]
  <2>1. share \in Nat
    BY <1>3, ShareType
  <2>2. CreditNamed(l, origins, mass, names) = [l EXCEPT !.mass = m]
    BY <1>3 DEF CreditNamed, CreditEach
  <2> HIDE DEF share
  <2>3. m \in [ASN -> [OriginCounter -> Nat]]
    <3>1. \A a \in ASN : l.mass[a] \in [OriginCounter -> Nat]
      BY <1>1
    <3>2. \A a \in ASN : Add(l.mass[a], names[a], share) \in [OriginCounter -> Nat]
      BY <2>1, <3>1, AddFacts
    <3> QED
      BY <3>1, <3>2
  <2> HIDE DEF m
  <2> QED
    BY <1>1, <2>2, <2>3 DEF Ledger
<1> QED
  BY <1>2, <1>3

\* Every credit is one of these.
LEMMA CreditIsNamed ==
  ASSUME NEW l, NEW origins, NEW mass, NEW names
  PROVE  Credit(l, origins, mass, names) = CreditNamed(l, origins, mass, [a \in origins |-> names])
BY DEF Credit, CreditNamed, CreditEach

LEMMA CreditType ==
  ASSUME NEW l \in Ledger, NEW origins \in SUBSET ASN, NEW mass \in Nat, NEW names
  PROVE  Credit(l, origins, mass, names) \in Ledger
BY CreditIsNamed, CreditNamedType

LEMMA CreditReplacementType ==
  ASSUME NEW l \in Ledger, NEW old, NEW new, NEW mask,
         old.origin_set \in SUBSET ASN, new.origin_set \in SUBSET ASN
  PROVE  CreditReplacement(l, old, new, mask) \in Ledger
<1> DEFINE names(others, direction) ==
             [a \in ASN |-> {"ordinary", "replacements"} \cup (mask \cap {"as_path", "attributes"}) \cup
                            IF a \in others THEN {} ELSE {direction}]
           side(x, origins, others, mass, direction) ==
             CreditEach(x, origins, mass, LAMBDA a :
               {"ordinary", "replacements"} \cup (mask \cap {"as_path", "attributes"}) \cup
               IF a \in others THEN {} ELSE {direction})
<1>1. ASSUME NEW x \in Ledger, NEW origins \in SUBSET ASN, NEW others, NEW mass \in Nat, NEW direction
      PROVE  side(x, origins, others, mass, direction) \in Ledger
  <2>1. side(x, origins, others, mass, direction) =
          CreditNamed(x, origins, mass, names(others, direction))
    BY DEF CreditNamed, CreditEach
  <2> HIDE DEF side, names
  <2> QED
    BY <2>1, CreditNamedType
<1>2. CreditReplacement(l, old, new, mask) = SplitReplacement(l, old.origin_set, new.origin_set, side)
  BY DEF CreditReplacement
<1>3. Whole \in Nat /\ Whole \div 2 \in Nat
  BY ChurnAssumption
<1> HIDE DEF side
<1>4. \/ CreditReplacement(l, old, new, mask) = side(l, new.origin_set, old.origin_set, Whole, "origin_in")
      \/ CreditReplacement(l, old, new, mask) = side(l, old.origin_set, new.origin_set, Whole, "origin_out")
      \/ CreditReplacement(l, old, new, mask) =
           side(side(l, old.origin_set, new.origin_set, Whole \div 2, "origin_out"),
                new.origin_set, old.origin_set, Whole \div 2, "origin_in")
  BY <1>2 DEF SplitReplacement
<1> QED
  BY <1>1, <1>3, <1>4

LEMMA CreditSyncReplacementType ==
  ASSUME NEW l \in Ledger, NEW old, NEW new,
         old.origin_set \in SUBSET ASN, new.origin_set \in SUBSET ASN
  PROVE  CreditSyncReplacement(l, old, new) \in Ledger
<1> DEFINE side(x, origins, others, mass, direction) == Credit(x, origins, mass, {"reset"})
<1>1. ASSUME NEW x \in Ledger, NEW origins \in SUBSET ASN, NEW others, NEW mass \in Nat, NEW direction
      PROVE  side(x, origins, others, mass, direction) \in Ledger
  BY CreditType
<1>2. CreditSyncReplacement(l, old, new) = SplitReplacement(l, old.origin_set, new.origin_set, side)
  BY DEF CreditSyncReplacement
<1>3. Whole \in Nat /\ Whole \div 2 \in Nat
  BY ChurnAssumption
<1> HIDE DEF side
<1>4. \/ CreditSyncReplacement(l, old, new) = side(l, new.origin_set, old.origin_set, Whole, "origin_in")
      \/ CreditSyncReplacement(l, old, new) = side(l, old.origin_set, new.origin_set, Whole, "origin_out")
      \/ CreditSyncReplacement(l, old, new) =
           side(side(l, old.origin_set, new.origin_set, Whole \div 2, "origin_out"),
                new.origin_set, old.origin_set, Whole \div 2, "origin_in")
  BY <1>2 DEF SplitReplacement
<1> QED
  BY <1>1, <1>3, <1>4

LEMMA RouteOrigins ==
  ASSUME Inv, NEW k \in keys
  PROVE  routes[k].route.origin_set \in SUBSET ASN /\ routes[k].active_since \in Nat
<1>1. routes[k] \in RouteState(Digest)
  BY DEF Inv, PluginTypes
<1>2. routes[k].route \in Digest \cup {NoDigest} /\ routes[k].active_since \in Nat
  BY <1>1 DEF RouteState
<1>3. \A d \in Digest : d.origin_set \in SUBSET ASN
  BY ChurnAssumption
<1>4. NoDigest.origin_set = {}
  BY DEF NoDigest
<1> QED
  BY <1>2, <1>3, <1>4

LEMMA CloseExposureType ==
  ASSUME Inv, NEW l \in Ledger, NEW k \in keys, NEW t \in Nat
  PROVE  CloseExposure(l, k, t) \in Ledger
<1>1. options.warmup \in Nat
  BY TimeFacts DEF Inv, TruthTypes
<1>2. AnalysisTime(routes[k].active_since, t) \in Nat
  BY <1>1, RouteOrigins DEF AnalysisTime, Elapsed, Later
<1> DEFINE e == AnalysisTime(routes[k].active_since, t)
<1>3. Whole * e \in Nat
  <2> HIDE DEF e
  <2>1. e \in Nat
    BY <1>2 DEF e
  <2> QED
    BY <2>1, ChurnAssumption
<1>4. Credit(l, routes[k].route.origin_set, Whole * e, {"seconds"}) \in Ledger
  <2> HIDE DEF e
  <2> QED
    BY <1>3, RouteOrigins, CreditType
<1> QED
  BY <1>4 DEF CloseExposure

LEMMA AnnouncementLedgerType ==
  ASSUME Inv, ledger \in Ledger, NEW k \in keys, NEW d \in Digest, NEW t \in Nat, NEW o
  PROVE  AnnouncementLedger(k, d, t, o) \in Ledger
<1> DEFINE raw == CreditRaw(ledger, d, Scored(t))
           closed == IF o = "duplicate_announcements" THEN raw ELSE CloseExposure(raw, k, t)
<1>1. d.origin_set \in SUBSET ASN /\ Whole \in Nat
  BY ChurnAssumption
<1>2. raw \in Ledger
  BY <1>1, CreditType DEF CreditRaw
<1> HIDE DEF raw
<1>3. closed \in Ledger
  BY <1>2, CloseExposureType
<1> HIDE DEF closed
<1>4. /\ \A n : Credit(closed, d.origin_set, Whole, n) \in Ledger
      /\ \A m : CreditReplacement(closed, routes[k].route, d, m) \in Ledger
      /\ CreditSyncReplacement(closed, routes[k].route, d) \in Ledger
  BY <1>1, <1>3, RouteOrigins, CreditType, CreditReplacementType, CreditSyncReplacementType
<1> QED
  BY <1>3, <1>4 DEF AnnouncementLedger, closed, raw

LEMMA WithdrawalLedgerType ==
  ASSUME Inv, ledger \in Ledger, NEW k \in keys, NEW t \in Nat, NEW o
  PROVE  WithdrawalLedger(k, t, o) \in Ledger
<1> DEFINE closed == CloseExposure(ledger, k, t)
<1>1. closed \in Ledger
  BY CloseExposureType
<1> HIDE DEF closed
<1>2. \A n : Credit(closed, routes[k].route.origin_set, Whole, n) \in Ledger
  BY <1>1, RouteOrigins, CreditType, ChurnAssumption
<1> QED
  BY <1>1, <1>2 DEF WithdrawalLedger, closed

LEMMA FiniteKeys ==
  ASSUME Inv
  PROVE  \A s \in SUBSET keys : IsFiniteSet(s)
<1>1. IsFiniteSet(Peer \X Prefix)
  BY ChurnAssumption, FS_Product
<1>2. keys \subseteq Peer \X Prefix
  BY KeyFacts DEF Inv, TruthTypes
<1> QED
  BY <1>1, <1>2, FS_Subset

\* What a reset does to the ledger for one route.
ResetOne(k, x, t) ==
  LET closed == CloseExposure(x, k, t)
  IN  IF Scored(t) THEN Credit(closed, routes[k].route.origin_set, Whole, {"reset"}) ELSE closed

\* A reset takes the active routes of the peer one after the other.
LEMMA ResetLedgerIsFold ==
  ASSUME Inv, ledger \in Ledger, NEW p \in Peer, NEW t \in Nat
  PROVE  \E f :
           /\ ResetLedger(ledger, p, t) = f[peers[p].active_route_ids]
           /\ \A s \in SUBSET peers[p].active_route_ids :
                /\ f[s] \in Ledger
                /\ f[s] = IF s = {} THEN ledger ELSE ResetOne(Chosen(s), f[s \ {Chosen(s)}], t)
<1> DEFINE ids == peers[p].active_route_ids
           F == [q \in ids \X Ledger |-> ResetOne(q[1], q[2], t)]
           Equation(it) == it = [s \in SUBSET ids |-> IF s = {} THEN ledger
             ELSE ResetOne(CHOOSE x \in s : TRUE, it[s \ {CHOOSE x \in s : TRUE}], t)]
<1>1. ids \subseteq keys /\ IsFiniteSet(ids)
  BY FiniteKeys DEF Inv, PluginTypes, PeerData
<1>2. \A k \in keys, x \in Ledger : ResetOne(k, x, t) \in Ledger
  <2> SUFFICES ASSUME NEW k \in keys, NEW x \in Ledger PROVE ResetOne(k, x, t) \in Ledger
    OBVIOUS
  <2>1. CloseExposure(x, k, t) \in Ledger
    BY CloseExposureType
  <2>2. Credit(CloseExposure(x, k, t), routes[k].route.origin_set, Whole, {"reset"}) \in Ledger
    BY <2>1, RouteOrigins, CreditType, ChurnAssumption
  <2> QED
    BY <2>1, <2>2 DEF ResetOne
<1>3. PICK it : IsFold(it, F, ledger, ids)
  BY <1>1, FoldExists
<1> DEFINE fold == CHOOSE g : Equation(g)
<1>4. \A k \in ids, x \in Ledger : F[<<k, x>>] = ResetOne(k, x, t)
  OBVIOUS
<1> HIDE DEF F
<1>5. \A s \in SUBSET ids : s # {} => Chosen(s) \in ids /\ s \ {Chosen(s)} \in SUBSET ids
  BY DEF Chosen
<1> HIDE DEF ids
<1>6. \A s \in SUBSET ids : it[s] \in Ledger
  <2> DEFINE A == {s \in SUBSET ids : it[s] \in Ledger}
  <2>1. {} \in A
    BY <1>3 DEF IsFold
  <2>2. \A s \in SUBSET ids : s # {} /\ s \ {Chosen(s)} \in A => s \in A
    <3> SUFFICES ASSUME NEW s \in SUBSET ids, s # {}, it[s \ {Chosen(s)}] \in Ledger
                 PROVE  it[s] \in Ledger
      OBVIOUS
    <3>1. it[s] = F[<<Chosen(s), it[s \ {Chosen(s)}]>>]
      BY <1>3 DEF IsFold
    <3> QED
      BY <1>1, <1>2, <1>4, <1>5, <3>1
  <2> HIDE DEF A
  <2>3. \A s \in SUBSET ids : s \in A
    BY <1>1, <2>1, <2>2, SubsetInduction
  <2> QED
    BY <2>3 DEF A
<1>7. Equation(it)
  <2>1. \A s \in SUBSET ids : s # {} =>
          F[<<Chosen(s), it[s \ {Chosen(s)}]>>] = ResetOne(Chosen(s), it[s \ {Chosen(s)}], t)
    BY <1>4, <1>5, <1>6
  <2>2. it = [s \in SUBSET ids |-> IF s = {} THEN ledger
                ELSE ResetOne(Chosen(s), it[s \ {Chosen(s)}], t)]
    BY <1>3, <2>1 DEF IsFold
  <2> QED
    BY <2>2 DEF Chosen
<1>8. Equation(fold)
  BY <1>7, Zenon
<1>9. ResetLedger(ledger, p, t) = fold[ids]
  BY Zenon DEF ResetLedger, FoldSet, MapThenFoldSet, ResetOne, ids
<1> HIDE DEF fold
<1>10. \A s \in SUBSET ids :
         fold[s] = IF s = {} THEN ledger ELSE ResetOne(Chosen(s), fold[s \ {Chosen(s)}], t)
  BY <1>8 DEF Chosen
<1>11. \A s \in SUBSET ids : fold[s] \in Ledger
  <2> DEFINE A == {s \in SUBSET ids : fold[s] \in Ledger}
  <2>1. {} \in A
    <3>1. {} \in SUBSET ids /\ fold[{}] = ledger
      BY <1>10
    <3> QED
      BY <3>1
  <2>2. \A s \in SUBSET ids : s # {} /\ s \ {Chosen(s)} \in A => s \in A
    <3> SUFFICES ASSUME NEW s \in SUBSET ids, s # {}, fold[s \ {Chosen(s)}] \in Ledger
                 PROVE  fold[s] \in Ledger
      OBVIOUS
    <3>1. fold[s] = ResetOne(Chosen(s), fold[s \ {Chosen(s)}], t)
      BY <1>10
    <3> QED
      BY <1>1, <1>2, <1>5, <3>1
  <2> HIDE DEF A
  <2>3. \A s \in SUBSET ids : s \in A
    BY <1>1, <2>1, <2>2, SubsetInduction
  <2> QED
    BY <2>3 DEF A
<1> QED
  BY <1>9, <1>10, <1>11 DEF ids

LEMMA ResetLedgerType ==
  ASSUME Inv, ledger \in Ledger, NEW p \in Peer, NEW t \in Nat
  PROVE  ResetLedger(ledger, p, t) \in Ledger
<1>1. PICK f : /\ ResetLedger(ledger, p, t) = f[peers[p].active_route_ids]
               /\ \A s \in SUBSET peers[p].active_route_ids : f[s] \in Ledger
  BY ResetLedgerIsFold
<1> QED
  BY <1>1

-----------------------------------------------------------------------------
(* What the counters of a prefix, a peer and the whole run tell.           *)

One(condition) == IF condition THEN 1 ELSE 0

OutcomesOf(c) == OrdinarySum(c) + SyncSum(c) + NoChangeSum(c) + c["cold_starts"] +
                 c["unscored_announcements"] + c["unscored_withdrawals"] +
                 c["rib_baselines"] + c["out_of_order"]
InducedOf(c) == SyncSum(c) + c["session_reset_withdrawals"]
OrdinaryOf(c) == c["ordinary"]

LEMMA MeasureTypes ==
  /\ \A c \in [PrefixCounter -> Nat] :
       /\ OutcomesOf(c) \in Nat /\ OrdinarySum(c) \in Nat /\ SyncSum(c) \in Nat
       /\ InducedOf(c) \in Nat /\ OrdinaryOf(c) \in Nat
  /\ \A c \in [PeerCounter -> Nat] : SyncSum(c) \in Nat /\ OrdinaryOf(c) \in Nat
<1>1. /\ Ordinary \cup SyncOutcome \cup NoChange \subseteq PrefixCounter
      /\ {"cold_starts", "unscored_announcements", "unscored_withdrawals", "rib_baselines",
          "out_of_order", "session_reset_withdrawals", "ordinary"} \subseteq PrefixCounter
      /\ SyncOutcome \cup {"ordinary"} \subseteq PeerCounter
  BY DEF PrefixCounter, PeerCounter, Outcome
<1>2. ASSUME NEW c \in [PrefixCounter -> Nat]
      PROVE  /\ OrdinarySum(c) \in Nat /\ SyncSum(c) \in Nat /\ NoChangeSum(c) \in Nat
             /\ c["cold_starts"] \in Nat /\ c["unscored_announcements"] \in Nat
             /\ c["unscored_withdrawals"] \in Nat /\ c["rib_baselines"] \in Nat
             /\ c["out_of_order"] \in Nat /\ c["session_reset_withdrawals"] \in Nat
             /\ c["ordinary"] \in Nat
  BY <1>1 DEF OrdinarySum, SyncSum, NoChangeSum, Ordinary, SyncOutcome, NoChange
<1>3. \A c \in [PrefixCounter -> Nat] :
        /\ OutcomesOf(c) \in Nat /\ OrdinarySum(c) \in Nat /\ SyncSum(c) \in Nat
        /\ InducedOf(c) \in Nat /\ OrdinaryOf(c) \in Nat
  BY <1>2 DEF OutcomesOf, InducedOf, OrdinaryOf
<1>4. \A c \in [PeerCounter -> Nat] : SyncSum(c) \in Nat /\ OrdinaryOf(c) \in Nat
  BY <1>1 DEF SyncSum, SyncOutcome, OrdinaryOf
<1> QED
  BY <1>3, <1>4

\* An update that comes to the outcome o.
LEMMA PrefixUpdateMeasures ==
  ASSUME NEW c \in [PrefixCounter -> Nat], NEW o \in Outcome, NEW extra,
         extra \subseteq {"raw_total", "raw_scored", "as_path", "origin_set", "attributes"}
  PROVE  LET d == Tally(c, PrefixTally(o) \cup extra)
         IN  /\ OutcomesOf(d) = OutcomesOf(c) + 1
             /\ OrdinarySum(d) = OrdinarySum(c) + One(o \in Ordinary)
             /\ SyncSum(d) = SyncSum(c) + One(o \in SyncOutcome)
             /\ InducedOf(d) = InducedOf(c) + One(o \in SyncOutcome)
             /\ OrdinaryOf(d) = OrdinaryOf(c) + One(o \in Ordinary)
<1> DEFINE names == PrefixTally(o) \cup extra
           d == Tally(c, names)
<1>1. /\ \A i \in Outcome : i \in names <=> i = o
      /\ "ordinary" \in names <=> o \in Ordinary
      /\ "rib_baselines" \notin names /\ "out_of_order" \notin names
      /\ "session_reset_withdrawals" \notin names
  BY DEF PrefixTally, OrdinaryToo, Outcome, Ordinary, SyncOutcome, NoChange
<1>2. \A i \in PrefixCounter : c[i] \in Nat /\ d[i] = c[i] + IF i \in names THEN 1 ELSE 0
  BY TallyFacts
<1> HIDE DEF d, names
<1>3. /\ \A i \in Outcome : c[i] \in Nat /\ d[i] = c[i] + One(i = o)
      /\ d["rib_baselines"] = c["rib_baselines"] /\ d["out_of_order"] = c["out_of_order"]
      /\ d["session_reset_withdrawals"] = c["session_reset_withdrawals"]
      /\ d["ordinary"] = c["ordinary"] + One(o \in Ordinary)
      /\ c["rib_baselines"] \in Nat /\ c["out_of_order"] \in Nat
      /\ c["session_reset_withdrawals"] \in Nat /\ c["ordinary"] \in Nat
  BY <1>1, <1>2 DEF PrefixCounter, One
<1>4. /\ OrdinarySum(d) = OrdinarySum(c) + One(o \in Ordinary)
      /\ SyncSum(d) = SyncSum(c) + One(o \in SyncOutcome)
      /\ NoChangeSum(d) = NoChangeSum(c) + One(o \in NoChange)
      /\ OrdinarySum(c) \in Nat /\ SyncSum(c) \in Nat /\ NoChangeSum(c) \in Nat
  BY <1>3 DEF One, OrdinarySum, SyncSum, NoChangeSum, Outcome, Ordinary, SyncOutcome, NoChange
<1>5. /\ d["cold_starts"] = c["cold_starts"] + One(o = "cold_starts")
      /\ d["unscored_announcements"] = c["unscored_announcements"] + One(o = "unscored_announcements")
      /\ d["unscored_withdrawals"] = c["unscored_withdrawals"] + One(o = "unscored_withdrawals")
      /\ c["cold_starts"] \in Nat /\ c["unscored_announcements"] \in Nat
      /\ c["unscored_withdrawals"] \in Nat
  BY <1>3 DEF One, Outcome
<1>6. One(o \in Ordinary) + One(o \in SyncOutcome) + One(o \in NoChange) + One(o = "cold_starts") +
      One(o = "unscored_announcements") + One(o = "unscored_withdrawals") = 1
  BY DEF One, Outcome, Ordinary, SyncOutcome, NoChange
<1> DEFINE a1 == One(o \in Ordinary)
           a2 == One(o \in SyncOutcome)
           a3 == One(o \in NoChange)
           a4 == One(o = "cold_starts")
           a5 == One(o = "unscored_announcements")
           a6 == One(o = "unscored_withdrawals")
<1>7. a1 \in Nat /\ a2 \in Nat /\ a3 \in Nat /\ a4 \in Nat /\ a5 \in Nat /\ a6 \in Nat
  BY DEF One
<1>8. a1 + a2 + a3 + a4 + a5 + a6 = 1
  BY <1>6
<1>9. /\ OrdinarySum(d) = OrdinarySum(c) + a1 /\ SyncSum(d) = SyncSum(c) + a2
      /\ NoChangeSum(d) = NoChangeSum(c) + a3 /\ d["cold_starts"] = c["cold_starts"] + a4
      /\ d["unscored_announcements"] = c["unscored_announcements"] + a5
      /\ d["unscored_withdrawals"] = c["unscored_withdrawals"] + a6
      /\ d["ordinary"] = c["ordinary"] + a1
  BY <1>3, <1>4, <1>5
<1> HIDE DEF a1, a2, a3, a4, a5, a6
<1>10. OutcomesOf(d) = OutcomesOf(c) + 1
  <2> DEFINE x1 == OrdinarySum(c)
             x2 == SyncSum(c)
             x3 == NoChangeSum(c)
             x4 == c["cold_starts"]
             x5 == c["unscored_announcements"]
             x6 == c["unscored_withdrawals"]
             x7 == c["rib_baselines"]
             x8 == c["out_of_order"]
  <2>1. /\ x1 \in Nat /\ x2 \in Nat /\ x3 \in Nat /\ x4 \in Nat
        /\ x5 \in Nat /\ x6 \in Nat /\ x7 \in Nat /\ x8 \in Nat
    BY <1>3, <1>4, <1>5
  <2>2. /\ OutcomesOf(c) = x1 + x2 + x3 + x4 + x5 + x6 + x7 + x8
        /\ OutcomesOf(d) = (x1 + a1) + (x2 + a2) + (x3 + a3) + (x4 + a4) + (x5 + a5) + (x6 + a6) + x7 + x8
    BY <1>3, <1>9, Zenon DEF OutcomesOf
  <2> HIDE DEF x1, x2, x3, x4, x5, x6, x7, x8
  <2> QED
    BY <1>7, <1>8, <2>1, <2>2
<1>11. InducedOf(d) = InducedOf(c) + a2 /\ OrdinaryOf(d) = OrdinaryOf(c) + a1
  BY <1>3, <1>4, <1>7, <1>9 DEF InducedOf, OrdinaryOf
<1> QED
  BY <1>9, <1>10, <1>11 DEF d, names, a1, a2

\* An element of a dump, a late update or a late element.
LEMMA PrefixSingleMeasures ==
  ASSUME NEW c \in [PrefixCounter -> Nat], NEW o \in {"rib_baselines", "out_of_order"}, NEW extra,
         extra \subseteq {"raw_total", "raw_scored", "late_rib_resyncs"}
  PROVE  LET d == Tally(c, extra \cup {o})
         IN  /\ OutcomesOf(d) = OutcomesOf(c) + 1
             /\ OrdinarySum(d) = OrdinarySum(c) /\ SyncSum(d) = SyncSum(c)
             /\ InducedOf(d) = InducedOf(c) /\ OrdinaryOf(d) = OrdinaryOf(c)
<1> DEFINE names == extra \cup {o}
           d == Tally(c, names)
<1>1. /\ \A i \in Outcome \cup {"ordinary", "session_reset_withdrawals"} : i \notin names
      /\ "rib_baselines" \in names <=> o = "rib_baselines"
      /\ "out_of_order" \in names <=> o = "out_of_order"
  BY DEF Outcome, Ordinary, SyncOutcome, NoChange
<1>2. \A i \in PrefixCounter : c[i] \in Nat /\ d[i] = c[i] + IF i \in names THEN 1 ELSE 0
  BY TallyFacts
<1> HIDE DEF d, names
<1>3. /\ \A i \in Outcome \cup {"ordinary", "session_reset_withdrawals"} : d[i] = c[i] /\ c[i] \in Nat
      /\ d["rib_baselines"] = c["rib_baselines"] + One(o = "rib_baselines")
      /\ d["out_of_order"] = c["out_of_order"] + One(o = "out_of_order")
      /\ c["rib_baselines"] \in Nat /\ c["out_of_order"] \in Nat
  BY <1>1, <1>2 DEF PrefixCounter, One
<1>4. /\ OrdinarySum(d) = OrdinarySum(c) /\ SyncSum(d) = SyncSum(c)
      /\ NoChangeSum(d) = NoChangeSum(c)
      /\ d["session_reset_withdrawals"] = c["session_reset_withdrawals"]
      /\ d["ordinary"] = c["ordinary"] /\ d["cold_starts"] = c["cold_starts"]
      /\ d["unscored_announcements"] = c["unscored_announcements"]
      /\ d["unscored_withdrawals"] = c["unscored_withdrawals"]
      /\ OrdinarySum(c) \in Nat /\ SyncSum(c) \in Nat /\ NoChangeSum(c) \in Nat
      /\ c["cold_starts"] \in Nat /\ c["unscored_announcements"] \in Nat
      /\ c["unscored_withdrawals"] \in Nat
  BY <1>3 DEF OrdinarySum, SyncSum, NoChangeSum, Outcome, Ordinary, SyncOutcome, NoChange
<1>5. \/ d["rib_baselines"] = c["rib_baselines"] + 1 /\ d["out_of_order"] = c["out_of_order"]
      \/ d["rib_baselines"] = c["rib_baselines"] /\ d["out_of_order"] = c["out_of_order"] + 1
  BY <1>3 DEF One
<1>6. OutcomesOf(d) = OutcomesOf(c) + 1
  <2> DEFINE x == OrdinarySum(c) + SyncSum(c) + NoChangeSum(c) + c["cold_starts"] +
                  c["unscored_announcements"] + c["unscored_withdrawals"]
  <2>1. x \in Nat
    BY <1>4
  <2>2. OutcomesOf(c) = x + c["rib_baselines"] + c["out_of_order"]
        /\ OutcomesOf(d) = x + d["rib_baselines"] + d["out_of_order"]
    BY <1>4, Zenon DEF OutcomesOf
  <2> HIDE DEF x
  <2> QED
    BY <1>3, <1>5, <2>1, <2>2
<1>7. InducedOf(d) = InducedOf(c) /\ OrdinaryOf(d) = OrdinaryOf(c)
  BY <1>4 DEF InducedOf, OrdinaryOf
<1> QED
  BY <1>4, <1>6, <1>7 DEF d, names

\* A peer's counters, by an update that comes to the outcome o.
LEMMA PeerUpdateMeasures ==
  ASSUME NEW c \in [PeerCounter -> Nat], NEW o \in Outcome, NEW t
  PROVE  LET d == Tally(c, RawTally(t) \cup PeerTally(o))
         IN  /\ SyncSum(d) = SyncSum(c) + One(o \in SyncOutcome)
             /\ OrdinaryOf(d) = OrdinaryOf(c) + One(o \in Ordinary)
<1> DEFINE names == RawTally(t) \cup PeerTally(o)
           d == Tally(c, names)
<1>1. /\ \A i \in SyncOutcome : i \in names <=> i = o
      /\ "ordinary" \in names <=> o \in Ordinary
  BY DEF RawTally, PeerTally, OrdinaryToo, Outcome, Ordinary, SyncOutcome, NoChange
<1>2. \A i \in PeerCounter : c[i] \in Nat /\ d[i] = c[i] + IF i \in names THEN 1 ELSE 0
  BY TallyFacts
<1> HIDE DEF d, names
<1>3. /\ \A i \in SyncOutcome : c[i] \in Nat /\ d[i] = c[i] + One(i = o)
      /\ d["ordinary"] = c["ordinary"] + One(o \in Ordinary)
  BY <1>1, <1>2 DEF PeerCounter, One
<1>4. SyncSum(d) = SyncSum(c) + One(o \in SyncOutcome)
  BY <1>3 DEF One, SyncSum, SyncOutcome
<1> QED
  BY <1>3, <1>4 DEF OrdinaryOf, d, names

\* Other counters of a peer.
LEMMA PeerOtherMeasures ==
  ASSUME NEW c \in [PeerCounter -> Nat], NEW names, NEW n \in Nat,
         names \cap (SyncOutcome \cup {"ordinary"}) = {}
  PROVE  LET d == Add(c, names, n)
         IN  SyncSum(d) = SyncSum(c) /\ OrdinaryOf(d) = OrdinaryOf(c)
<1> DEFINE d == Add(c, names, n)
<1>1. \A i \in PeerCounter : c[i] \in Nat /\ d[i] = c[i] + IF i \in names THEN n ELSE 0
  BY AddFacts
<1> HIDE DEF d
<1>2. \A i \in SyncOutcome \cup {"ordinary"} : d[i] = c[i]
  BY <1>1 DEF PeerCounter
<1> QED
  BY <1>2 DEF SyncSum, OrdinaryOf, SyncOutcome, d

\* The sums over all prefixes and over all peers when the counters of one change.
LEMMA PrefixSums ==
  ASSUME NEW f \in [Prefix -> [PrefixCounter -> Nat]], NEW x \in Prefix,
         NEW c \in [PrefixCounter -> Nat]
  PROVE  LET g == [f EXCEPT ![x] = c]
         IN  /\ Over(g, Prefix, OutcomesOf) = Over(f, Prefix, OutcomesOf) + (OutcomesOf(c) - OutcomesOf(f[x]))
             /\ Over(g, Prefix, OrdinarySum) = Over(f, Prefix, OrdinarySum) + (OrdinarySum(c) - OrdinarySum(f[x]))
             /\ Over(g, Prefix, SyncSum) = Over(f, Prefix, SyncSum) + (SyncSum(c) - SyncSum(f[x]))
             /\ Over(g, Prefix, InducedOf) = Over(f, Prefix, InducedOf) + (InducedOf(c) - InducedOf(f[x]))
<1> DEFINE g == [f EXCEPT ![x] = c]
<1>1. g[x] = c /\ (\A i \in Prefix : i # x => g[i] = f[i])
      /\ \A i \in Prefix : f[i] \in [PrefixCounter -> Nat] /\ g[i] \in [PrefixCounter -> Nat]
  OBVIOUS
<1> HIDE DEF g
<1>2. IsFiniteSet(Prefix)
  BY ChurnAssumption
<1>3. Over(g, Prefix, OutcomesOf) = Over(f, Prefix, OutcomesOf) + (OutcomesOf(c) - OutcomesOf(f[x]))
  <2> DEFINE F == [i \in Prefix |-> OutcomesOf(f[i])]
             G == [i \in Prefix |-> OutcomesOf(g[i])]
  <2>1. /\ F \in [Prefix -> Int] /\ G \in [Prefix -> Int]
        /\ F[x] = OutcomesOf(f[x]) /\ G[x] = OutcomesOf(c)
        /\ \A i \in Prefix : i # x => G[i] = F[i]
    BY <1>1, MeasureTypes
  <2> HIDE DEF F, G
  <2>2. SumOver(G, Prefix) = SumOver(F, Prefix) + (G[x] - F[x])
    BY <1>2, <2>1, SumChange
  <2> QED
    BY <2>1, <2>2 DEF Over, F, G
<1>4. Over(g, Prefix, OrdinarySum) = Over(f, Prefix, OrdinarySum) + (OrdinarySum(c) - OrdinarySum(f[x]))
  <2> DEFINE F == [i \in Prefix |-> OrdinarySum(f[i])]
             G == [i \in Prefix |-> OrdinarySum(g[i])]
  <2>1. /\ F \in [Prefix -> Int] /\ G \in [Prefix -> Int]
        /\ F[x] = OrdinarySum(f[x]) /\ G[x] = OrdinarySum(c)
        /\ \A i \in Prefix : i # x => G[i] = F[i]
    BY <1>1, MeasureTypes
  <2> HIDE DEF F, G
  <2>2. SumOver(G, Prefix) = SumOver(F, Prefix) + (G[x] - F[x])
    BY <1>2, <2>1, SumChange
  <2> QED
    BY <2>1, <2>2 DEF Over, F, G
<1>5. Over(g, Prefix, SyncSum) = Over(f, Prefix, SyncSum) + (SyncSum(c) - SyncSum(f[x]))
  <2> DEFINE F == [i \in Prefix |-> SyncSum(f[i])]
             G == [i \in Prefix |-> SyncSum(g[i])]
  <2>1. /\ F \in [Prefix -> Int] /\ G \in [Prefix -> Int]
        /\ F[x] = SyncSum(f[x]) /\ G[x] = SyncSum(c)
        /\ \A i \in Prefix : i # x => G[i] = F[i]
    BY <1>1, MeasureTypes
  <2> HIDE DEF F, G
  <2>2. SumOver(G, Prefix) = SumOver(F, Prefix) + (G[x] - F[x])
    BY <1>2, <2>1, SumChange
  <2> QED
    BY <2>1, <2>2 DEF Over, F, G
<1>6. Over(g, Prefix, InducedOf) = Over(f, Prefix, InducedOf) + (InducedOf(c) - InducedOf(f[x]))
  <2> DEFINE F == [i \in Prefix |-> InducedOf(f[i])]
             G == [i \in Prefix |-> InducedOf(g[i])]
  <2>1. /\ F \in [Prefix -> Int] /\ G \in [Prefix -> Int]
        /\ F[x] = InducedOf(f[x]) /\ G[x] = InducedOf(c)
        /\ \A i \in Prefix : i # x => G[i] = F[i]
    BY <1>1, MeasureTypes
  <2> HIDE DEF F, G
  <2>2. SumOver(G, Prefix) = SumOver(F, Prefix) + (G[x] - F[x])
    BY <1>2, <2>1, SumChange
  <2> QED
    BY <2>1, <2>2 DEF Over, F, G
<1> QED
  BY <1>3, <1>4, <1>5, <1>6 DEF g

LEMMA PeerSums ==
  ASSUME NEW f \in [Peer -> [PeerCounter -> Nat]], NEW p \in Peer,
         NEW c \in [PeerCounter -> Nat]
  PROVE  LET g == [f EXCEPT ![p] = c]
         IN  /\ Over(g, Peer, SyncSum) = Over(f, Peer, SyncSum) + (SyncSum(c) - SyncSum(f[p]))
             /\ Over(g, Peer, OrdinaryOf) = Over(f, Peer, OrdinaryOf) + (OrdinaryOf(c) - OrdinaryOf(f[p]))
<1> DEFINE g == [f EXCEPT ![p] = c]
<1>1. g[p] = c /\ (\A i \in Peer : i # p => g[i] = f[i])
      /\ \A i \in Peer : f[i] \in [PeerCounter -> Nat] /\ g[i] \in [PeerCounter -> Nat]
  OBVIOUS
<1> HIDE DEF g
<1>2. IsFiniteSet(Peer)
  BY ChurnAssumption
<1>3. Over(g, Peer, SyncSum) = Over(f, Peer, SyncSum) + (SyncSum(c) - SyncSum(f[p]))
  <2> DEFINE F == [i \in Peer |-> SyncSum(f[i])]
             G == [i \in Peer |-> SyncSum(g[i])]
  <2>1. /\ F \in [Peer -> Int] /\ G \in [Peer -> Int]
        /\ F[p] = SyncSum(f[p]) /\ G[p] = SyncSum(c)
        /\ \A i \in Peer : i # p => G[i] = F[i]
    BY <1>1, MeasureTypes
  <2> HIDE DEF F, G
  <2>2. SumOver(G, Peer) = SumOver(F, Peer) + (G[p] - F[p])
    BY <1>2, <2>1, SumChange
  <2> QED
    BY <2>1, <2>2 DEF Over, F, G
<1>4. Over(g, Peer, OrdinaryOf) = Over(f, Peer, OrdinaryOf) + (OrdinaryOf(c) - OrdinaryOf(f[p]))
  <2> DEFINE F == [i \in Peer |-> OrdinaryOf(f[i])]
             G == [i \in Peer |-> OrdinaryOf(g[i])]
  <2>1. /\ F \in [Peer -> Int] /\ G \in [Peer -> Int]
        /\ F[p] = OrdinaryOf(f[p]) /\ G[p] = OrdinaryOf(c)
        /\ \A i \in Peer : i # p => G[i] = F[i]
    BY <1>1, MeasureTypes
  <2> HIDE DEF F, G
  <2>2. SumOver(G, Peer) = SumOver(F, Peer) + (G[p] - F[p])
    BY <1>2, <2>1, SumChange
  <2> QED
    BY <2>1, <2>2 DEF Over, F, G
<1> QED
  BY <1>3, <1>4 DEF g

LEMMA OverTypes ==
  ASSUME NEW f \in [Prefix -> [PrefixCounter -> Nat]], NEW e \in [Peer -> [PeerCounter -> Nat]]
  PROVE  /\ Over(f, Prefix, OutcomesOf) \in Int /\ Over(f, Prefix, OrdinarySum) \in Int
         /\ Over(f, Prefix, SyncSum) \in Int /\ Over(f, Prefix, InducedOf) \in Int
         /\ Over(e, Peer, SyncSum) \in Int /\ Over(e, Peer, OrdinaryOf) \in Int
<1>1. IsFiniteSet(Prefix) /\ IsFiniteSet(Peer)
  BY ChurnAssumption
<1>2. \A i \in Prefix : f[i] \in [PrefixCounter -> Nat]
  OBVIOUS
<1>3. \A i \in Peer : e[i] \in [PeerCounter -> Nat]
  OBVIOUS
<1>4. /\ [i \in Prefix |-> OutcomesOf(f[i])] \in [Prefix -> Int]
      /\ [i \in Prefix |-> OrdinarySum(f[i])] \in [Prefix -> Int]
      /\ [i \in Prefix |-> SyncSum(f[i])] \in [Prefix -> Int]
      /\ [i \in Prefix |-> InducedOf(f[i])] \in [Prefix -> Int]
      /\ [i \in Peer |-> SyncSum(e[i])] \in [Peer -> Int]
      /\ [i \in Peer |-> OrdinaryOf(e[i])] \in [Peer -> Int]
  BY <1>2, <1>3, MeasureTypes
<1> QED
  BY <1>1, <1>4, SumType DEF Over

-----------------------------------------------------------------------------
(* The counters of the whole run, of the peers and of the prefixes balance. *)

Balanced ==
  /\ total["raw_total"] + total["rib_elements"] = Over(prefix_stats, Prefix, OutcomesOf)
  /\ total["ordinary"] = Over(prefix_stats, Prefix, OrdinarySum)
  /\ total["ordinary"] = Over(peer_stats, Peer, OrdinaryOf)
  /\ total["session_induced"] = Over(prefix_stats, Prefix, InducedOf)
  /\ Over(prefix_stats, Prefix, SyncSum) = Over(peer_stats, Peer, SyncSum)
  /\ \A x \in Prefix : OrdinaryOf(prefix_stats[x]) = OrdinarySum(prefix_stats[x])

CounterInv == CounterTypes /\ Balanced

\* The counters c of prefix x, e of peer p and the totals w after a step that adds n
\* outcomes, m ordinary changes and s of a synchronization.
Balances(x, p, c, e, w, n, m, s) ==
  /\ c \in [PrefixCounter -> Nat] /\ e \in [PeerCounter -> Nat] /\ w \in [TotalCounter -> Nat]
  /\ OutcomesOf(c) = OutcomesOf(prefix_stats[x]) + n
  /\ OrdinarySum(c) = OrdinarySum(prefix_stats[x]) + m
  /\ OrdinaryOf(c) = OrdinaryOf(prefix_stats[x]) + m
  /\ SyncSum(c) = SyncSum(prefix_stats[x]) + s
  /\ InducedOf(c) = InducedOf(prefix_stats[x]) + s
  /\ SyncSum(e) = SyncSum(peer_stats[p]) + s
  /\ OrdinaryOf(e) = OrdinaryOf(peer_stats[p]) + m
  /\ w["raw_total"] + w["rib_elements"] = total["raw_total"] + total["rib_elements"] + n
  /\ w["ordinary"] = total["ordinary"] + m
  /\ w["session_induced"] = total["session_induced"] + s

LEMMA BalanceStep ==
  ASSUME CounterInv, NEW x \in Prefix, NEW p \in Peer, NEW c, NEW e,
         NEW n \in Nat, NEW m \in Nat, NEW s \in Nat,
         Balances(x, p, c, e, total', n, m, s),
         prefix_stats' = [prefix_stats EXCEPT ![x] = c],
         peer_stats' = [peer_stats EXCEPT ![p] = e],
         ledger' \in Ledger
  PROVE  CounterInv'
<1>1. /\ total \in [TotalCounter -> Nat] /\ peer_stats \in [Peer -> [PeerCounter -> Nat]]
      /\ prefix_stats \in [Prefix -> [PrefixCounter -> Nat]]
      /\ c \in [PrefixCounter -> Nat] /\ e \in [PeerCounter -> Nat]
      /\ total' \in [TotalCounter -> Nat]
  BY DEF CounterInv, CounterTypes, Balances
<1>2. CounterTypes'
  BY <1>1 DEF CounterTypes
<1> DEFINE a1 == Over(prefix_stats, Prefix, OutcomesOf)
           a2 == Over(prefix_stats, Prefix, OrdinarySum)
           a3 == Over(prefix_stats, Prefix, SyncSum)
           a4 == Over(prefix_stats, Prefix, InducedOf)
           a5 == Over(peer_stats, Peer, SyncSum)
           a6 == Over(peer_stats, Peer, OrdinaryOf)
<1>3. a1 \in Int /\ a2 \in Int /\ a3 \in Int /\ a4 \in Int /\ a5 \in Int /\ a6 \in Int
  BY <1>1, OverTypes
<1>4. /\ OutcomesOf(prefix_stats[x]) \in Nat /\ OrdinarySum(prefix_stats[x]) \in Nat
      /\ SyncSum(prefix_stats[x]) \in Nat /\ InducedOf(prefix_stats[x]) \in Nat
      /\ SyncSum(peer_stats[p]) \in Nat /\ OrdinaryOf(peer_stats[p]) \in Nat
  BY <1>1, MeasureTypes
<1>5. /\ OutcomesOf(c) - OutcomesOf(prefix_stats[x]) = n
      /\ OrdinarySum(c) - OrdinarySum(prefix_stats[x]) = m
      /\ SyncSum(c) - SyncSum(prefix_stats[x]) = s
      /\ InducedOf(c) - InducedOf(prefix_stats[x]) = s
      /\ SyncSum(e) - SyncSum(peer_stats[p]) = s
      /\ OrdinaryOf(e) - OrdinaryOf(peer_stats[p]) = m
  BY <1>4 DEF Balances
<1>6. /\ Over(prefix_stats', Prefix, OutcomesOf) = a1 + n
      /\ Over(prefix_stats', Prefix, OrdinarySum) = a2 + m
      /\ Over(prefix_stats', Prefix, SyncSum) = a3 + s
      /\ Over(prefix_stats', Prefix, InducedOf) = a4 + s
  BY <1>1, <1>5, PrefixSums
<1>7. /\ Over(peer_stats', Peer, SyncSum) = a5 + s
      /\ Over(peer_stats', Peer, OrdinaryOf) = a6 + m
  BY <1>1, <1>5, PeerSums
<1>8. /\ total["raw_total"] + total["rib_elements"] = a1
      /\ total["ordinary"] = a2 /\ total["ordinary"] = a6
      /\ total["session_induced"] = a4 /\ a3 = a5
      /\ \A i \in Prefix : OrdinaryOf(prefix_stats[i]) = OrdinarySum(prefix_stats[i])
  BY DEF CounterInv, Balanced
<1>9. \A i \in Prefix : OrdinaryOf(prefix_stats'[i]) = OrdinarySum(prefix_stats'[i])
  <2>1. OrdinaryOf(c) = OrdinarySum(c)
    BY <1>8 DEF Balances
  <2> QED
    BY <1>1, <1>8, <2>1
<1> HIDE DEF a1, a2, a3, a4, a5, a6
<1>10. /\ total'["raw_total"] + total'["rib_elements"] = a1 + n
       /\ total'["ordinary"] = a2 + m /\ total'["ordinary"] = a6 + m
       /\ total'["session_induced"] = a4 + s /\ a3 + s = a5 + s
  BY <1>8 DEF Balances
<1>11. Balanced'
  BY <1>6, <1>7, <1>9, <1>10 DEF Balanced
<1> QED
  BY <1>2, <1>11 DEF CounterInv

\* The totals when the counters in names count one more.
LEMMA TotalFacts ==
  ASSUME total \in [TotalCounter -> Nat], NEW names
  PROVE  LET w == Tally(total, names)
         IN  /\ w \in [TotalCounter -> Nat]
             /\ w["raw_total"] = total["raw_total"] + One("raw_total" \in names)
             /\ w["rib_elements"] = total["rib_elements"] + One("rib_elements" \in names)
             /\ w["ordinary"] = total["ordinary"] + One("ordinary" \in names)
             /\ w["session_induced"] = total["session_induced"] + One("session_induced" \in names)
             /\ total["raw_total"] \in Nat /\ total["rib_elements"] \in Nat
             /\ total["ordinary"] \in Nat /\ total["session_induced"] \in Nat
<1>1. {"raw_total", "rib_elements", "ordinary", "session_induced"} \subseteq TotalCounter
  BY DEF TotalCounter
<1> QED
  BY <1>1, TallyFacts DEF One

LEMMA CountLateBalances ==
  ASSUME CounterInv, NEW p \in Peer, NEW x \in Prefix, NEW t, NEW names,
         names = RawTally(t) \/ names = {"rib_elements"},
         CountLate(p, x, names)
  PROVE  CounterInv'
<1> DEFINE peer == (names \cap PeerCounter) \cup {"out_of_order"}
           prefix == (names \cap PrefixCounter) \cup {"out_of_order"}
           c == Tally(prefix_stats[x], prefix)
           e == Tally(peer_stats[p], peer)
<1>1. /\ total' = Tally(total, names \cup {"route_order_violations"})
      /\ peer_stats' = [peer_stats EXCEPT ![p] = e]
      /\ prefix_stats' = [prefix_stats EXCEPT ![x] = c]
      /\ ledger' = ledger
  BY DEF CountLate
<1>2. /\ total \in [TotalCounter -> Nat] /\ peer_stats[p] \in [PeerCounter -> Nat]
      /\ prefix_stats[x] \in [PrefixCounter -> Nat] /\ ledger \in Ledger
  BY DEF CounterInv, CounterTypes
<1>3. /\ names \subseteq {"raw_total", "raw_scored", "rib_elements"}
      /\ ("raw_total" \in names) # ("rib_elements" \in names)
  BY DEF RawTally
<1>4. names \cap PrefixCounter \subseteq {"raw_total", "raw_scored", "late_rib_resyncs"}
  BY <1>3 DEF PrefixCounter, Outcome, Ordinary, SyncOutcome, NoChange
<1>5. /\ c \in [PrefixCounter -> Nat]
      /\ OutcomesOf(c) = OutcomesOf(prefix_stats[x]) + 1
      /\ OrdinarySum(c) = OrdinarySum(prefix_stats[x]) /\ SyncSum(c) = SyncSum(prefix_stats[x])
      /\ InducedOf(c) = InducedOf(prefix_stats[x]) /\ OrdinaryOf(c) = OrdinaryOf(prefix_stats[x])
  <2> DEFINE extra == names \cap PrefixCounter
             old == prefix_stats[x]
             o == "out_of_order"
  <2>1. extra \subseteq {"raw_total", "raw_scored", "late_rib_resyncs"} /\ old \in [PrefixCounter -> Nat]
        /\ o \in {"rib_baselines", "out_of_order"}
    BY <1>2, <1>4
  <2> HIDE DEF extra, old, o
  <2>2. LET d == Tally(old, extra \cup {o})
        IN  /\ OutcomesOf(d) = OutcomesOf(old) + 1
            /\ OrdinarySum(d) = OrdinarySum(old) /\ SyncSum(d) = SyncSum(old)
            /\ InducedOf(d) = InducedOf(old) /\ OrdinaryOf(d) = OrdinaryOf(old)
    BY <2>1, PrefixSingleMeasures
  <2>3. Tally(old, extra \cup {o}) \in [PrefixCounter -> Nat]
    BY <2>1, TallyFacts
  <2> QED
    BY <2>2, <2>3 DEF extra, old, o
<1>6. /\ e \in [PeerCounter -> Nat]
      /\ SyncSum(e) = SyncSum(peer_stats[p]) /\ OrdinaryOf(e) = OrdinaryOf(peer_stats[p])
  <2>1. peer \cap (SyncOutcome \cup {"ordinary"}) = {}
    BY <1>3 DEF SyncOutcome
  <2> HIDE DEF peer
  <2> QED
    BY <1>2, <2>1, PeerOtherMeasures, TallyFacts DEF Tally
<1>7. /\ total' \in [TotalCounter -> Nat]
      /\ total'["raw_total"] + total'["rib_elements"] = total["raw_total"] + total["rib_elements"] + 1
      /\ total'["ordinary"] = total["ordinary"]
      /\ total'["session_induced"] = total["session_induced"]
      /\ total["ordinary"] \in Nat /\ total["session_induced"] \in Nat
  <2> DEFINE all == names \cup {"route_order_violations"}
  <2>1. /\ ("raw_total" \in all) # ("rib_elements" \in all)
        /\ "ordinary" \notin all /\ "session_induced" \notin all
    BY <1>3
  <2> HIDE DEF all
  <2>2. total' = Tally(total, all)
    BY <1>1 DEF all
  <2> QED
    BY <1>2, <2>1, <2>2, TotalFacts DEF One
<1> HIDE DEF c, e
<1>8. Balances(x, p, c, e, total', 1, 0, 0)
  <2>1. /\ OrdinarySum(prefix_stats[x]) \in Nat /\ SyncSum(prefix_stats[x]) \in Nat
        /\ InducedOf(prefix_stats[x]) \in Nat /\ OrdinaryOf(prefix_stats[x]) \in Nat
        /\ SyncSum(peer_stats[p]) \in Nat /\ OrdinaryOf(peer_stats[p]) \in Nat
    BY <1>2, MeasureTypes
  <2> QED
    BY <1>5, <1>6, <1>7, <2>1 DEF Balances
<1> QED
  BY <1>1, <1>2, <1>8, BalanceStep

\* What an update that comes to the outcome o adds to the totals.
LEMMA CountUpdateTotals ==
  ASSUME CounterInv, NEW p, NEW x, NEW t, NEW order, NEW o \in Outcome, NEW mask,
         CountUpdate(p, x, t, order, o, mask)
  PROVE  /\ total' \in [TotalCounter -> Nat]
         /\ total'["raw_total"] + total'["rib_elements"] = total["raw_total"] + total["rib_elements"] + 1
         /\ total'["ordinary"] = total["ordinary"] + One(o \in Ordinary)
         /\ total'["session_induced"] = total["session_induced"] + One(o \in SyncOutcome)
<1> DEFINE all == RawTally(t) \cup CrossPrefix(p, order) \cup TotalTally(o)
<1>1. total' = Tally(total, all)
  BY DEF CountUpdate
<1>2. total \in [TotalCounter -> Nat]
  BY DEF CounterInv, CounterTypes
<1>3. /\ "raw_total" \in all /\ "rib_elements" \notin all
      /\ ("ordinary" \in all <=> o \in Ordinary)
      /\ ("session_induced" \in all <=> o \in SyncOutcome)
  BY DEF RawTally, CrossPrefix, TotalTally, OrdinaryToo, Outcome, Ordinary, SyncOutcome, NoChange
<1> HIDE DEF all
<1> QED
  BY <1>1, <1>2, <1>3, TotalFacts DEF One

LEMMA CountUpdateBalances ==
  ASSUME CounterInv, NEW p \in Peer, NEW x \in Prefix, NEW t, NEW order, NEW o \in Outcome,
         NEW mask, mask \subseteq {"as_path", "origin_set", "attributes"},
         CountUpdate(p, x, t, order, o, mask), ledger' \in Ledger
  PROVE  CounterInv'
<1> DEFINE extra == RawTally(t) \cup IF o = "replacements" THEN mask ELSE {}
           c == Tally(prefix_stats[x], PrefixTally(o) \cup extra)
           e == Tally(peer_stats[p], RawTally(t) \cup PeerTally(o))
           m == One(o \in Ordinary)
           s == One(o \in SyncOutcome)
<1>1. /\ peer_stats' = [peer_stats EXCEPT ![p] = e]
      /\ prefix_stats' = [prefix_stats EXCEPT ![x] = c]
  <2>1. RawTally(t) \cup PrefixTally(o) \cup (IF o = "replacements" THEN mask ELSE {})
          = PrefixTally(o) \cup extra
    OBVIOUS
  <2> HIDE DEF extra
  <2> QED
    BY <2>1 DEF CountUpdate
<1>2. /\ total \in [TotalCounter -> Nat] /\ peer_stats[p] \in [PeerCounter -> Nat]
      /\ prefix_stats[x] \in [PrefixCounter -> Nat]
  BY DEF CounterInv, CounterTypes
<1>3. extra \subseteq {"raw_total", "raw_scored", "as_path", "origin_set", "attributes"}
  BY DEF RawTally
<1> HIDE DEF extra
<1>4. /\ c \in [PrefixCounter -> Nat]
      /\ OutcomesOf(c) = OutcomesOf(prefix_stats[x]) + 1
      /\ OrdinarySum(c) = OrdinarySum(prefix_stats[x]) + m /\ SyncSum(c) = SyncSum(prefix_stats[x]) + s
      /\ InducedOf(c) = InducedOf(prefix_stats[x]) + s /\ OrdinaryOf(c) = OrdinaryOf(prefix_stats[x]) + m
  <2> DEFINE old == prefix_stats[x]
             names == PrefixTally(o) \cup extra
  <2>1. old \in [PrefixCounter -> Nat]
    BY <1>2
  <2> HIDE DEF old
  <2>2. LET d == Tally(old, PrefixTally(o) \cup extra)
        IN  /\ OutcomesOf(d) = OutcomesOf(old) + 1
            /\ OrdinarySum(d) = OrdinarySum(old) + m /\ SyncSum(d) = SyncSum(old) + s
            /\ InducedOf(d) = InducedOf(old) + s /\ OrdinaryOf(d) = OrdinaryOf(old) + m
    BY <1>3, <2>1, PrefixUpdateMeasures
  <2>3. Tally(old, names) \in [PrefixCounter -> Nat]
    <3> HIDE DEF names
    <3> QED
      BY <2>1, TallyFacts
  <2> QED
    BY <2>2, <2>3 DEF old
<1>5. /\ e \in [PeerCounter -> Nat]
      /\ SyncSum(e) = SyncSum(peer_stats[p]) + s /\ OrdinaryOf(e) = OrdinaryOf(peer_stats[p]) + m
  BY <1>2, PeerUpdateMeasures, TallyFacts
<1>7. /\ total' \in [TotalCounter -> Nat]
      /\ total'["raw_total"] + total'["rib_elements"] = total["raw_total"] + total["rib_elements"] + 1
      /\ total'["ordinary"] = total["ordinary"] + m
      /\ total'["session_induced"] = total["session_induced"] + s
  BY CountUpdateTotals
<1>8. m \in Nat /\ s \in Nat
  BY DEF One
<1> HIDE DEF c, e, m, s
<1>9. Balances(x, p, c, e, total', 1, m, s)
  BY <1>4, <1>5, <1>7 DEF Balances
<1> QED
  BY <1>1, <1>8, <1>9, BalanceStep

LEMMA HandleRibBalances ==
  ASSUME CounterInv, Inv, NEW k \in keys, NEW t \in Nat, NEW order, NEW position,
         HandleRib(k, t, order, position)
  PROVE  CounterInv'
<1> DEFINE p == k[1]
           x == k[2]
<1>1. p \in Peer /\ x \in Prefix
  BY KeyFacts DEF Inv, TruthTypes
<1>2. CASE RouteEventIsLate(k, order)
  <2>1. CountLate(p, x, {"rib_elements"})
    BY <1>2 DEF HandleRib
  <2> QED
    BY <1>1, <2>1, CountLateBalances
<1>3. CASE ~RouteEventIsLate(k, order)
  <2> DEFINE extra == IF routes[k].active /\ Scored(t) THEN {"late_rib_resyncs"} ELSE {}
             old == prefix_stats[x]
             o == "rib_baselines"
             c == Tally(old, extra \cup {o})
             e == peer_stats[p]
             all == {"rib_elements"} \cup CrossPrefix(p, order)
  <2>1. /\ total' = Tally(total, all)
        /\ peer_stats' = peer_stats
        /\ prefix_stats' = [prefix_stats EXCEPT ![x] = c]
        /\ ledger' = CloseExposure(ledger, k, t)
    <3>1. {o} \cup extra = extra \cup {o}
      OBVIOUS
    <3> HIDE DEF extra
    <3> QED
      BY <1>3, <3>1 DEF HandleRib, extra
  <2>2. /\ total \in [TotalCounter -> Nat] /\ e \in [PeerCounter -> Nat]
        /\ peer_stats \in [Peer -> [PeerCounter -> Nat]]
        /\ old \in [PrefixCounter -> Nat] /\ ledger \in Ledger
    BY <1>1 DEF CounterInv, CounterTypes
  <2>3. extra \subseteq {"raw_total", "raw_scored", "late_rib_resyncs"}
        /\ o \in {"rib_baselines", "out_of_order"}
    OBVIOUS
  <2>4. /\ "raw_total" \notin all /\ "rib_elements" \in all
        /\ "ordinary" \notin all /\ "session_induced" \notin all
    BY DEF CrossPrefix
  <2>5. ledger' \in Ledger
    BY <2>1, <2>2, CloseExposureType
  <2>6. peer_stats' = [peer_stats EXCEPT ![p] = e]
    BY <2>1, <2>2
  <2>7. /\ OrdinarySum(old) \in Nat /\ SyncSum(old) \in Nat
        /\ InducedOf(old) \in Nat /\ OrdinaryOf(old) \in Nat
        /\ SyncSum(e) \in Nat /\ OrdinaryOf(e) \in Nat
    BY <2>2, MeasureTypes
  <2> HIDE DEF extra, all, old, o, e
  <2>8. /\ total' \in [TotalCounter -> Nat]
        /\ total'["raw_total"] + total'["rib_elements"] = total["raw_total"] + total["rib_elements"] + 1
        /\ total'["ordinary"] = total["ordinary"] + 0
        /\ total'["session_induced"] = total["session_induced"] + 0
    <3>1. /\ total' \in [TotalCounter -> Nat]
          /\ total'["raw_total"] = total["raw_total"] + 0
          /\ total'["rib_elements"] = total["rib_elements"] + 1
          /\ total'["ordinary"] = total["ordinary"] + 0
          /\ total'["session_induced"] = total["session_induced"] + 0
          /\ total["raw_total"] \in Nat /\ total["rib_elements"] \in Nat
      BY <2>1, <2>2, <2>4, TotalFacts DEF One
    <3> QED
      BY <3>1
  <2>9. /\ OutcomesOf(c) = OutcomesOf(old) + 1
        /\ OrdinarySum(c) = OrdinarySum(old) /\ SyncSum(c) = SyncSum(old)
        /\ InducedOf(c) = InducedOf(old) /\ OrdinaryOf(c) = OrdinaryOf(old)
    BY <2>2, <2>3, PrefixSingleMeasures
  <2>10. c \in [PrefixCounter -> Nat]
    BY <2>2, TallyFacts
  <2> HIDE DEF c
  <2>11. Balances(x, p, c, e, total', 1, 0, 0)
    BY <2>2, <2>7, <2>8, <2>9, <2>10 DEF Balances, old, e
  <2> QED
    BY <1>1, <2>1, <2>5, <2>6, <2>11, BalanceStep
<1> QED
  BY <1>2, <1>3

LEMMA AnnouncementBalances ==
  ASSUME CounterInv, Inv, NEW p \in Peer, NEW x \in Prefix, NEW d \in Digest, Announcement(p, x, d)
  PROVE  CounterInv'
<1> DEFINE k == <<p, x>>
<1>1. PICK t \in Times, late \in BOOLEAN :
        LET order == OrderKey(t, late)
            o == AnnouncementOutcome(k, d, t)
            mask == IF o \in {"replacements", "sync_replacements"} THEN ChangeMask(routes[k].route, d) ELSE {}
        IN  /\ k \in keys
            /\ IF RouteEventIsLate(k, order)
               THEN CountLate(p, x, RawTally(t))
               ELSE CountUpdate(p, x, t, order, o, mask) /\ ledger' = AnnouncementLedger(k, d, t, o)
  BY DEF Announcement
<1> DEFINE order == OrderKey(t, late)
           o == AnnouncementOutcome(k, d, t)
           mask == IF o \in {"replacements", "sync_replacements"} THEN ChangeMask(routes[k].route, d) ELSE {}
<1>2. CASE RouteEventIsLate(k, order)
  <2>1. CountLate(p, x, RawTally(t))
    BY <1>1, <1>2
  <2> QED
    BY <2>1, CountLateBalances
<1>3. CASE ~RouteEventIsLate(k, order)
  <2>1. k \in keys /\ CountUpdate(p, x, t, order, o, mask) /\ ledger' = AnnouncementLedger(k, d, t, o)
    BY <1>1, <1>3
  <2>2. t \in Nat /\ ledger \in Ledger
    BY TimeFacts DEF CounterInv, CounterTypes
  <2>3. o \in Outcome
    BY DEF AnnouncementOutcome, Outcome, Ordinary, SyncOutcome, NoChange
  <2>4. mask \subseteq {"as_path", "origin_set", "attributes"}
    BY DEF ChangeMask
  <2>5. ledger' \in Ledger
    BY <2>1, <2>2, AnnouncementLedgerType
  <2> HIDE DEF o, mask, order
  <2> QED
    BY <2>1, <2>3, <2>4, <2>5, CountUpdateBalances
<1> QED
  BY <1>2, <1>3

LEMMA WithdrawalBalances ==
  ASSUME CounterInv, Inv, NEW p \in Peer, NEW x \in Prefix, Withdrawal(p, x)
  PROVE  CounterInv'
<1> DEFINE k == <<p, x>>
<1>1. PICK t \in Times, late \in BOOLEAN :
        LET order == OrderKey(t, late)
            o == WithdrawalOutcome(k, t)
        IN  /\ k \in keys
            /\ IF RouteEventIsLate(k, order)
               THEN CountLate(p, x, RawTally(t))
               ELSE CountUpdate(p, x, t, order, o, {}) /\ ledger' = WithdrawalLedger(k, t, o)
  BY DEF Withdrawal
<1> DEFINE order == OrderKey(t, late)
           o == WithdrawalOutcome(k, t)
<1>2. CASE RouteEventIsLate(k, order)
  <2>1. CountLate(p, x, RawTally(t))
    BY <1>1, <1>2
  <2> QED
    BY <2>1, CountLateBalances
<1>3. CASE ~RouteEventIsLate(k, order)
  <2>1. k \in keys /\ CountUpdate(p, x, t, order, o, {}) /\ ledger' = WithdrawalLedger(k, t, o)
    BY <1>1, <1>3
  <2>2. t \in Nat /\ ledger \in Ledger
    BY TimeFacts DEF CounterInv, CounterTypes
  <2>3. o \in Outcome
    BY DEF WithdrawalOutcome, Outcome, Ordinary, SyncOutcome, NoChange
  <2>4. ledger' \in Ledger
    BY <2>1, <2>2, WithdrawalLedgerType
  <2> HIDE DEF o, order
  <2> QED
    BY <2>1, <2>3, <2>4, CountUpdateBalances
<1> QED
  BY <1>2, <1>3

\* A session ends: the counters of the prefixes it resets.
LEMMA PrefixResetMeasures ==
  ASSUME NEW c \in [PrefixCounter -> Nat], NEW n \in Nat
  PROVE  LET d == Add(c, {"session_reset_withdrawals"}, n)
         IN  /\ d \in [PrefixCounter -> Nat]
             /\ OutcomesOf(d) = OutcomesOf(c) /\ OrdinarySum(d) = OrdinarySum(c)
             /\ SyncSum(d) = SyncSum(c) /\ OrdinaryOf(d) = OrdinaryOf(c)
             /\ InducedOf(d) = InducedOf(c) + n
<1> DEFINE d == Add(c, {"session_reset_withdrawals"}, n)
<1>1. d \in [PrefixCounter -> Nat]
      /\ \A i \in PrefixCounter :
           c[i] \in Nat /\ d[i] = c[i] + IF i = "session_reset_withdrawals" THEN n ELSE 0
  BY AddFacts
<1> HIDE DEF d
<1>2. /\ \A i \in Outcome \cup {"ordinary", "rib_baselines", "out_of_order"} : d[i] = c[i]
      /\ d["session_reset_withdrawals"] = c["session_reset_withdrawals"] + n
      /\ c["session_reset_withdrawals"] \in Nat
  BY <1>1 DEF PrefixCounter, Outcome, Ordinary, SyncOutcome, NoChange
<1>3. OrdinarySum(d) = OrdinarySum(c) /\ SyncSum(d) = SyncSum(c) /\ NoChangeSum(d) = NoChangeSum(c)
  BY <1>2 DEF OrdinarySum, SyncSum, NoChangeSum, Outcome, Ordinary, SyncOutcome, NoChange
<1>4. OutcomesOf(d) = OutcomesOf(c) /\ OrdinaryOf(d) = OrdinaryOf(c)
  BY <1>2, <1>3 DEF OutcomesOf, OrdinaryOf, Outcome
<1>5. InducedOf(d) = InducedOf(c) + n
  <2>1. SyncSum(c) \in Nat
    BY MeasureTypes
  <2> QED
    BY <1>2, <1>3, <2>1 DEF InducedOf
<1> QED
  BY <1>1, <1>3, <1>4, <1>5 DEF d

\* The prefixes of the routes that a session end makes inactive after the warm-up.
ResetPrefixes(p, t) == {x \in Prefix : Scored(t) /\ <<p, x>> \in peers[p].active_route_ids}

LEMMA ResetPrefixesCount ==
  ASSUME Inv, NEW p \in Peer, NEW t
  PROVE  /\ Cardinality(peers[p].active_route_ids) \in Nat
         /\ ResetPrefixes(p, t) \in SUBSET Prefix
         /\ Cardinality(ResetPrefixes(p, t)) =
              IF Scored(t) THEN Cardinality(peers[p].active_route_ids) ELSE 0
<1> DEFINE ids == peers[p].active_route_ids
<1>1. ids \subseteq keys /\ \A k \in ids : k[1] = p /\ k[2] \in Prefix /\ k = <<k[1], k[2]>>
  BY KeyFacts DEF Inv, TruthTypes, PluginTypes
<1>2. IsFiniteSet(ids) /\ Cardinality(ids) \in Nat
  BY <1>1, FiniteKeys, FS_CardinalityType
<1>3. CASE ~Scored(t)
  <2>1. ResetPrefixes(p, t) = {}
    BY <1>3 DEF ResetPrefixes
  <2> QED
    BY <1>2, <1>3, <2>1, FS_EmptySet
<1>4. CASE Scored(t)
  <2> DEFINE f == [k \in ids |-> k[2]]
             T == ResetPrefixes(p, t)
  <2>1. \A k \in ids : f[k] \in T
    BY <1>1, <1>4 DEF ResetPrefixes
  <2>2. \A k, j \in ids : f[k] = f[j] => k = j
    BY <1>1
  <2>3. \A x \in T : \E k \in ids : f[k] = x
    <3> SUFFICES ASSUME NEW x \in T PROVE \E k \in ids : f[k] = x
      OBVIOUS
    <3>1. <<p, x>> \in ids
      BY DEF ResetPrefixes
    <3>2. f[<<p, x>>] = x
      BY <3>1
    <3> QED
      BY <3>1, <3>2
  <2>4. f \in [ids -> T]
    BY <2>1
  <2> HIDE DEF f, T
  <2>5. f \in Bijection(ids, T)
    BY <2>2, <2>3, <2>4 DEF Bijection, Injection, Surjection, IsInjective
  <2>6. ExistsBijection(ids, T)
    BY <2>5 DEF ExistsBijection
  <2>7. Cardinality(T) = Cardinality(ids)
    BY <1>2, <2>6, FS_Bijection
  <2> QED
    BY <1>2, <1>4, <2>7 DEF T, ResetPrefixes
<1> QED
  BY <1>3, <1>4

LEMMA ResetBalances ==
  ASSUME CounterInv, Inv, NEW p \in Peer, NEW t, NEW names, names = {"ups"} \/ names = {"downs"},
         ResetCounters(p, t, names), ledger' \in Ledger
  PROVE  CounterInv'
<1> DEFINE ids == peers[p].active_route_ids
           affected == Cardinality(ids)
           T == ResetPrefixes(p, t)
           n == IF Scored(t) THEN affected ELSE 0
           one(x) == IF x \in T THEN 1 ELSE 0
           first == Tally(peer_stats[p], names \cup {"session_resets"})
           e == Add(first, {"session_reset_routes"}, affected)
<1>1. /\ total' = Add(total, {"session_induced"}, n)
      /\ peer_stats' = [peer_stats EXCEPT ![p] = e]
      /\ prefix_stats' = [x \in Prefix |-> Add(prefix_stats[x], {"session_reset_withdrawals"}, one(x))]
  <2>1. \A x \in Prefix : one(x) = IF Scored(t) /\ <<p, x>> \in ids THEN 1 ELSE 0
    BY DEF ResetPrefixes
  <2>2. [x \in Prefix |-> Add(prefix_stats[x], {"session_reset_withdrawals"},
           IF Scored(t) /\ <<p, x>> \in ids THEN 1 ELSE 0)] =
        [x \in Prefix |-> Add(prefix_stats[x], {"session_reset_withdrawals"}, one(x))]
    BY <2>1
  <2> HIDE DEF one
  <2> QED
    BY <2>2 DEF ResetCounters
<1>2. /\ total \in [TotalCounter -> Nat] /\ peer_stats \in [Peer -> [PeerCounter -> Nat]]
      /\ prefix_stats \in [Prefix -> [PrefixCounter -> Nat]]
      /\ peer_stats[p] \in [PeerCounter -> Nat]
  BY DEF CounterInv, CounterTypes
<1>3. affected \in Nat /\ n \in Nat /\ T \in SUBSET Prefix /\ Cardinality(T) = n
  BY ResetPrefixesCount
<1> HIDE DEF n, affected, T
<1>4. /\ total' \in [TotalCounter -> Nat]
      /\ total'["raw_total"] = total["raw_total"] /\ total'["rib_elements"] = total["rib_elements"]
      /\ total'["ordinary"] = total["ordinary"]
      /\ total'["session_induced"] = total["session_induced"] + n
  <2>1. /\ total' \in [TotalCounter -> Nat]
        /\ \A i \in TotalCounter :
             total[i] \in Nat /\ total'[i] = total[i] + IF i = "session_induced" THEN n ELSE 0
    BY <1>1, <1>2, <1>3, AddFacts
  <2> QED
    BY <2>1 DEF TotalCounter
<1>5. /\ e \in [PeerCounter -> Nat]
      /\ SyncSum(e) = SyncSum(peer_stats[p]) /\ OrdinaryOf(e) = OrdinaryOf(peer_stats[p])
  <2> DEFINE all == names \cup {"session_resets"}
  <2>1. all \cap (SyncOutcome \cup {"ordinary"}) = {}
        /\ {"session_reset_routes"} \cap (SyncOutcome \cup {"ordinary"}) = {}
    BY DEF SyncOutcome
  <2> HIDE DEF all
  <2>2. /\ first \in [PeerCounter -> Nat]
        /\ SyncSum(first) = SyncSum(peer_stats[p]) /\ OrdinaryOf(first) = OrdinaryOf(peer_stats[p])
    BY <1>2, <2>1, TallyFacts, PeerOtherMeasures, SMTT(40) DEF Tally, all
  <2> HIDE DEF first
  <2> QED
    BY <1>3, <2>1, <2>2, AddFacts, PeerOtherMeasures
<1> HIDE DEF e
<1>6. /\ Over(peer_stats', Peer, SyncSum) = Over(peer_stats, Peer, SyncSum)
      /\ Over(peer_stats', Peer, OrdinaryOf) = Over(peer_stats, Peer, OrdinaryOf)
      /\ peer_stats' \in [Peer -> [PeerCounter -> Nat]]
  <2>1. /\ Over(peer_stats', Peer, SyncSum) =
             Over(peer_stats, Peer, SyncSum) + (SyncSum(e) - SyncSum(peer_stats[p]))
        /\ Over(peer_stats', Peer, OrdinaryOf) =
             Over(peer_stats, Peer, OrdinaryOf) + (OrdinaryOf(e) - OrdinaryOf(peer_stats[p]))
    BY <1>1, <1>2, <1>5, PeerSums
  <2>2. /\ Over(peer_stats, Peer, SyncSum) \in Int /\ Over(peer_stats, Peer, OrdinaryOf) \in Int
        /\ SyncSum(peer_stats[p]) \in Nat /\ OrdinaryOf(peer_stats[p]) \in Nat
    BY <1>2, OverTypes, MeasureTypes
  <2>3. SyncSum(e) - SyncSum(peer_stats[p]) = 0 /\ OrdinaryOf(e) - OrdinaryOf(peer_stats[p]) = 0
    BY <1>5, <2>2
  <2>4. /\ Over(peer_stats', Peer, SyncSum) = Over(peer_stats, Peer, SyncSum) + 0
        /\ Over(peer_stats', Peer, OrdinaryOf) = Over(peer_stats, Peer, OrdinaryOf) + 0
    BY <2>1, <2>3
  <2>5. peer_stats' \in [Peer -> [PeerCounter -> Nat]]
    BY <1>1, <1>2, <1>5
  <2> QED
    BY <2>2, <2>4, <2>5
<1>7. ASSUME NEW x \in Prefix
      PROVE  /\ prefix_stats'[x] \in [PrefixCounter -> Nat] /\ one(x) \in Nat
             /\ OutcomesOf(prefix_stats'[x]) = OutcomesOf(prefix_stats[x])
             /\ OrdinarySum(prefix_stats'[x]) = OrdinarySum(prefix_stats[x])
             /\ SyncSum(prefix_stats'[x]) = SyncSum(prefix_stats[x])
             /\ OrdinaryOf(prefix_stats'[x]) = OrdinaryOf(prefix_stats[x])
             /\ InducedOf(prefix_stats'[x]) = InducedOf(prefix_stats[x]) + one(x)
  <2>1. prefix_stats[x] \in [PrefixCounter -> Nat] /\ one(x) \in Nat
    BY <1>2
  <2>2. prefix_stats'[x] = Add(prefix_stats[x], {"session_reset_withdrawals"}, one(x))
    BY <1>1
  <2> HIDE DEF one
  <2> QED
    BY <2>1, <2>2, PrefixResetMeasures
<1> DEFINE ones == [x \in Prefix |-> one(x)]
<1>8. /\ Over(prefix_stats', Prefix, OutcomesOf) = Over(prefix_stats, Prefix, OutcomesOf)
      /\ Over(prefix_stats', Prefix, OrdinarySum) = Over(prefix_stats, Prefix, OrdinarySum)
      /\ Over(prefix_stats', Prefix, SyncSum) = Over(prefix_stats, Prefix, SyncSum)
  <2> HIDE DEF one
  <2>1. /\ [x \in Prefix |-> OutcomesOf(prefix_stats'[x])] = [x \in Prefix |-> OutcomesOf(prefix_stats[x])]
        /\ [x \in Prefix |-> OrdinarySum(prefix_stats'[x])] = [x \in Prefix |-> OrdinarySum(prefix_stats[x])]
        /\ [x \in Prefix |-> SyncSum(prefix_stats'[x])] = [x \in Prefix |-> SyncSum(prefix_stats[x])]
    BY <1>7
  <2> QED
    BY <2>1, Zenon DEF Over
<1>9. Over(prefix_stats', Prefix, InducedOf) = Over(prefix_stats, Prefix, InducedOf) + n
  <2> DEFINE F == [x \in Prefix |-> InducedOf(prefix_stats[x])]
             G == [x \in Prefix |-> InducedOf(prefix_stats'[x])]
  <2>1. SumOver(ones, Prefix) = n
    BY <1>3, SumCount, ChurnAssumption
  <2>2. ones \in [Prefix -> Int] /\ \A x \in Prefix : ones[x] = one(x)
    OBVIOUS
  <2> HIDE DEF one, ones
  <2>3. F \in [Prefix -> Int] /\ G \in [Prefix -> Int]
    BY <1>2, <1>7, MeasureTypes
  <2>4. \A x \in Prefix : G[x] = F[x] + ones[x]
    BY <1>7, <2>2
  <2> HIDE DEF F, G
  <2>5. SumOver(G, Prefix) = SumOver(F, Prefix) + SumOver(ones, Prefix)
    BY <2>2, <2>3, <2>4, SumPlus, ChurnAssumption
  <2> QED
    BY <2>1, <2>5 DEF Over, F, G
<1>10. CounterTypes'
  <2> HIDE DEF one
  <2>1. prefix_stats' \in [Prefix -> [PrefixCounter -> Nat]]
    BY <1>1, <1>7
  <2> QED
    BY <1>4, <1>6, <2>1 DEF CounterTypes
<1>11. Balanced'
  <2> HIDE DEF one, ones
  <2>1. \A x \in Prefix : OrdinaryOf(prefix_stats'[x]) = OrdinarySum(prefix_stats'[x])
    BY <1>7 DEF CounterInv, Balanced
  <2> QED
    BY <1>4, <1>6, <1>8, <1>9, <2>1 DEF CounterInv, Balanced
<1> QED
  BY <1>10, <1>11 DEF CounterInv

\* A message that only counts for its peer and in other totals.
LEMMA PeerOnlyBalances ==
  ASSUME CounterInv, Inv, NEW p \in PeersOf(keys), NEW names, NEW all,
         names \cap (SyncOutcome \cup {"ordinary"}) = {},
         all \cap {"raw_total", "rib_elements", "ordinary", "session_induced"} = {},
         total' = Tally(total, all), prefix_stats' = prefix_stats, ledger' = ledger,
         peer_stats' = [peer_stats EXCEPT ![p] = Tally(@, names)]
  PROVE  CounterInv'
<1>1. PICK k \in keys : k[1] = p /\ k[1] \in Peer /\ k[2] \in Prefix
  BY KeyFacts DEF PeersOf, Inv, TruthTypes
<1> DEFINE x == k[2]
           c == prefix_stats[x]
           old == peer_stats[p]
           e == Tally(old, names)
<1>2. x \in Prefix /\ p \in Peer
  BY <1>1
<1>3. /\ total \in [TotalCounter -> Nat] /\ old \in [PeerCounter -> Nat]
      /\ c \in [PrefixCounter -> Nat] /\ ledger \in Ledger
      /\ prefix_stats' = [prefix_stats EXCEPT ![x] = c]
      /\ peer_stats' = [peer_stats EXCEPT ![p] = e]
  BY <1>2 DEF CounterInv, CounterTypes
<1> HIDE DEF x
<1>4. /\ OutcomesOf(c) \in Nat /\ OrdinarySum(c) \in Nat /\ SyncSum(c) \in Nat
      /\ InducedOf(c) \in Nat /\ OrdinaryOf(c) \in Nat
      /\ SyncSum(old) \in Nat /\ OrdinaryOf(old) \in Nat
  BY <1>3, MeasureTypes
<1> HIDE DEF old
<1>5. e \in [PeerCounter -> Nat] /\ SyncSum(e) = SyncSum(old) /\ OrdinaryOf(e) = OrdinaryOf(old)
  BY <1>3, TallyFacts, PeerOtherMeasures DEF Tally
<1>6. /\ total' \in [TotalCounter -> Nat]
      /\ total'["raw_total"] = total["raw_total"] + 0
      /\ total'["rib_elements"] = total["rib_elements"] + 0
      /\ total'["ordinary"] = total["ordinary"] + 0
      /\ total'["session_induced"] = total["session_induced"] + 0
      /\ total["raw_total"] \in Nat /\ total["rib_elements"] \in Nat
  <2>1. /\ "raw_total" \notin all /\ "rib_elements" \notin all
        /\ "ordinary" \notin all /\ "session_induced" \notin all
    OBVIOUS
  <2> QED
    BY <1>3, <2>1, TotalFacts DEF One
<1>7. total'["raw_total"] + total'["rib_elements"] = total["raw_total"] + total["rib_elements"] + 0
  BY <1>6
<1> HIDE DEF c, e
<1>8. Balances(x, p, c, e, total', 0, 0, 0)
  BY <1>3, <1>4, <1>5, <1>6, <1>7 DEF Balances, c, old
<1> QED
  BY <1>2, <1>3, <1>8, BalanceStep

LEMMA ResetPeerRoutesBalances ==
  ASSUME CounterInv, Inv, NEW p \in Peer, NEW t \in Times, NEW order, NEW names,
         names = {"ups"} \/ names = {"downs"}, ResetPeerRoutes(p, t, order, names)
  PROVE  CounterInv'
<1>1. t \in Nat /\ ledger \in Ledger
  BY TimeFacts DEF CounterInv, CounterTypes
<1>2. ledger' \in Ledger
  BY <1>1, ResetLedgerType DEF ResetPeerRoutes
<1>3. ResetCounters(p, t, names)
  BY DEF ResetPeerRoutes
<1> QED
  BY <1>2, <1>3, ResetBalances

\* Nothing is counted in the totals.
LEMMA NoTally ==
  ASSUME total \in [TotalCounter -> Nat]
  PROVE  total = Tally(total, {})
BY DEF Tally, Add

LEMMA PeerUpBalances ==
  ASSUME CounterInv, Inv, NEW p \in PeersOf(keys), PeerUp(p)
  PROVE  CounterInv'
<1>1. p \in Peer
  BY KeyFacts DEF Inv, TruthTypes
<1>2. PICK t \in Times :
        IF peers[p].established /\ peers[p].active_route_ids # {}
        THEN ResetPeerRoutes(p, t, OrderKey(t, FALSE), {"ups"})
        ELSE /\ peer_stats' = [peer_stats EXCEPT ![p] = Tally(@, {"ups"})]
             /\ UNCHANGED <<total, prefix_stats, ledger, routes>>
  BY DEF PeerUp
<1>3. CASE peers[p].established /\ peers[p].active_route_ids # {}
  <2>1. ResetPeerRoutes(p, t, OrderKey(t, FALSE), {"ups"})
    BY <1>2, <1>3
  <2> QED
    BY <1>1, <2>1, ResetPeerRoutesBalances
<1>4. CASE ~(peers[p].established /\ peers[p].active_route_ids # {})
  <2>1. /\ peer_stats' = [peer_stats EXCEPT ![p] = Tally(@, {"ups"})]
        /\ total' = Tally(total, {}) /\ prefix_stats' = prefix_stats /\ ledger' = ledger
    BY <1>2, <1>4, NoTally DEF CounterInv, CounterTypes
  <2>2. {"ups"} \cap (SyncOutcome \cup {"ordinary"}) = {}
    BY DEF SyncOutcome
  <2> QED
    BY <2>1, <2>2, PeerOnlyBalances
<1> QED
  BY <1>3, <1>4

LEMMA EndOfRibBalances ==
  ASSUME CounterInv, Inv, NEW p \in PeersOf(keys), EndOfRib(p)
  PROVE  CounterInv'
<1>1. /\ peer_stats' = [peer_stats EXCEPT ![p] = Tally(@, {"end_of_ribs"})]
      /\ total' = Tally(total, {}) /\ prefix_stats' = prefix_stats /\ ledger' = ledger
  BY NoTally DEF CounterInv, CounterTypes, EndOfRib
<1>2. {"end_of_ribs"} \cap (SyncOutcome \cup {"ordinary"}) = {}
  BY DEF SyncOutcome
<1> QED
  BY <1>1, <1>2, PeerOnlyBalances

LEMMA LateSessionMessageBalances ==
  ASSUME CounterInv, Inv, NEW p \in PeersOf(keys), LateSessionMessage(p)
  PROVE  CounterInv'
<1>1. /\ peer_stats' = [peer_stats EXCEPT ![p] = Tally(@, {"out_of_order"})]
      /\ total' = Tally(total, {"peer_order_violations"})
      /\ prefix_stats' = prefix_stats /\ ledger' = ledger
  BY DEF LateSessionMessage
<1>2. {"out_of_order"} \cap (SyncOutcome \cup {"ordinary"}) = {}
  BY DEF SyncOutcome
<1>3. {"peer_order_violations"} \cap {"raw_total", "rib_elements", "ordinary", "session_induced"} = {}
  OBVIOUS
<1> QED
  BY <1>1, <1>2, <1>3, PeerOnlyBalances

LEMMA InitCounters == Init => CounterInv
<1> SUFFICES ASSUME Init PROVE CounterInv
  OBVIOUS
<1>1. /\ total = Zero(TotalCounter)
      /\ peer_stats = [p \in Peer |-> Zero(PeerCounter)]
      /\ prefix_stats = [x \in Prefix |-> Zero(PrefixCounter)]
      /\ ledger = [mass |-> [a \in ASN |-> Zero(OriginCounter)], unknown |-> 0]
  BY DEF Init
<1>2. \A names : Zero(names) \in [names -> Nat] /\ \A i \in names : Zero(names)[i] = 0
  BY DEF Zero
<1>3. CounterTypes
  <2>1. \A a \in ASN : Zero(OriginCounter) \in [OriginCounter -> Nat]
    BY <1>2
  <2> QED
    BY <1>1, <1>2, <2>1 DEF CounterTypes, Ledger
<1>4. /\ \A x \in Prefix : /\ OutcomesOf(prefix_stats[x]) = 0 /\ OrdinarySum(prefix_stats[x]) = 0
                             /\ SyncSum(prefix_stats[x]) = 0 /\ InducedOf(prefix_stats[x]) = 0
                             /\ OrdinaryOf(prefix_stats[x]) = 0
  <2> SUFFICES ASSUME NEW x \in Prefix
               PROVE  /\ OutcomesOf(prefix_stats[x]) = 0 /\ OrdinarySum(prefix_stats[x]) = 0
                      /\ SyncSum(prefix_stats[x]) = 0 /\ InducedOf(prefix_stats[x]) = 0
                      /\ OrdinaryOf(prefix_stats[x]) = 0
    OBVIOUS
  <2> DEFINE c == prefix_stats[x]
  <2>1. \A i \in PrefixCounter : c[i] = 0
    BY <1>1, <1>2
  <2> HIDE DEF c
  <2>2. \A i \in Outcome \cup {"ordinary", "rib_baselines", "out_of_order",
                               "session_reset_withdrawals"} : c[i] = 0
    BY <2>1 DEF PrefixCounter
  <2>3. OrdinarySum(c) = 0 /\ SyncSum(c) = 0 /\ NoChangeSum(c) = 0
    BY <2>2 DEF OrdinarySum, SyncSum, NoChangeSum, Outcome, Ordinary, SyncOutcome, NoChange
  <2>4. OutcomesOf(c) = 0 /\ InducedOf(c) = 0 /\ OrdinaryOf(c) = 0
    BY <2>2, <2>3 DEF OutcomesOf, InducedOf, OrdinaryOf, Outcome
  <2> QED
    BY <2>3, <2>4 DEF c
<1>5. \A p \in Peer : SyncSum(peer_stats[p]) = 0 /\ OrdinaryOf(peer_stats[p]) = 0
  BY <1>1, <1>2 DEF SyncSum, OrdinaryOf, PeerCounter, SyncOutcome
<1>6. /\ Over(prefix_stats, Prefix, OutcomesOf) = 0 /\ Over(prefix_stats, Prefix, OrdinarySum) = 0
      /\ Over(prefix_stats, Prefix, SyncSum) = 0 /\ Over(prefix_stats, Prefix, InducedOf) = 0
      /\ Over(peer_stats, Peer, SyncSum) = 0 /\ Over(peer_stats, Peer, OrdinaryOf) = 0
  <2>1. /\ [x \in Prefix |-> OutcomesOf(prefix_stats[x])] = [x \in Prefix |-> 0]
        /\ [x \in Prefix |-> OrdinarySum(prefix_stats[x])] = [x \in Prefix |-> 0]
        /\ [x \in Prefix |-> SyncSum(prefix_stats[x])] = [x \in Prefix |-> 0]
        /\ [x \in Prefix |-> InducedOf(prefix_stats[x])] = [x \in Prefix |-> 0]
        /\ [p \in Peer |-> SyncSum(peer_stats[p])] = [p \in Peer |-> 0]
        /\ [p \in Peer |-> OrdinaryOf(peer_stats[p])] = [p \in Peer |-> 0]
    BY <1>4, <1>5
  <2>2. SumOver([x \in Prefix |-> 0], Prefix) = 0 /\ SumOver([p \in Peer |-> 0], Peer) = 0
    <3>1. /\ [x \in Prefix |-> IF x \in {} THEN 1 ELSE 0] = [x \in Prefix |-> 0]
          /\ [p \in Peer |-> IF p \in {} THEN 1 ELSE 0] = [p \in Peer |-> 0]
      OBVIOUS
    <3>2. /\ SumOver([x \in Prefix |-> IF x \in {} THEN 1 ELSE 0], Prefix) = Cardinality({})
          /\ SumOver([p \in Peer |-> IF p \in {} THEN 1 ELSE 0], Peer) = Cardinality({})
      BY SumCount, ChurnAssumption
    <3> QED
      BY <3>1, <3>2, FS_EmptySet, Zenon
  <2> QED
    BY <2>1, <2>2, Zenon DEF Over
<1>7. total["raw_total"] = 0 /\ total["rib_elements"] = 0 /\ total["ordinary"] = 0
      /\ total["session_induced"] = 0
  BY <1>1, <1>2 DEF TotalCounter
<1>8. Balanced
  <2>1. total["raw_total"] + total["rib_elements"] = 0
    BY <1>7
  <2>2. \A x \in Prefix : OrdinaryOf(prefix_stats[x]) = OrdinarySum(prefix_stats[x])
    BY <1>4
  <2> QED
    BY <1>6, <1>7, <2>1, <2>2, Zenon DEF Balanced
<1> QED
  BY <1>3, <1>8 DEF CounterInv

LEMMA NextCounters == Inv /\ CounterInv /\ [Next]_vars => CounterInv'
<1> SUFFICES ASSUME Inv, CounterInv, [Next]_vars PROVE CounterInv'
  OBVIOUS
<1>1. CASE UNCHANGED vars
  <2>1. total' = total /\ peer_stats' = peer_stats /\ prefix_stats' = prefix_stats /\ ledger' = ledger
    BY <1>1 DEF vars, stats
  <2> QED
    BY <2>1 DEF CounterInv, CounterTypes, Balanced, Over
<1>2. CASE Message
  <2>1. PICK p \in PeersOf(keys) :
          \/ \E x \in Prefix :
               Withdrawal(p, x) \/ RibElement(p, x) \/ \E d \in Routes[<<p, x>>] : Announcement(p, x, d)
          \/ PeerDown(p) \/ PeerUp(p) \/ EndOfRib(p) \/ LateSessionMessage(p)
    BY <1>2 DEF Message
  <2>2. p \in Peer
    BY KeyFacts DEF Inv, TruthTypes
  <2>3. ASSUME NEW x \in Prefix, NEW d \in Routes[<<p, x>>], Announcement(p, x, d)
        PROVE  CounterInv'
    <3>1. d \in Digest
      BY <2>2, ChurnAssumption
    <3> QED
      BY <2>2, <2>3, <3>1, AnnouncementBalances
  <2>4. ASSUME NEW x \in Prefix, Withdrawal(p, x)
        PROVE  CounterInv'
    BY <2>2, <2>4, WithdrawalBalances
  <2>5. ASSUME NEW x \in Prefix, RibElement(p, x)
        PROVE  CounterInv'
    <3>1. PICK t \in Times, late \in BOOLEAN, position \in RibPosition(<<p, x>>) :
            <<p, x>> \in keys /\ HandleRib(<<p, x>>, t, OrderKey(t, late), position)
      BY <2>5 DEF RibElement
    <3>2. t \in Nat
      BY TimeFacts
    <3> QED
      BY <3>1, <3>2, HandleRibBalances
  <2>6. CASE PeerDown(p)
    <3>1. PICK t \in Times : ResetPeerRoutes(p, t, OrderKey(t, FALSE), {"downs"})
      BY <2>6 DEF PeerDown
    <3> QED
      BY <2>2, <3>1, ResetPeerRoutesBalances
  <2>7. CASE PeerUp(p)
    BY <2>7, PeerUpBalances
  <2>8. CASE EndOfRib(p)
    BY <2>8, EndOfRibBalances
  <2>9. CASE LateSessionMessage(p)
    BY <2>9, LateSessionMessageBalances
  <2> QED
    BY <2>1, <2>3, <2>4, <2>5, <2>6, <2>7, <2>8, <2>9
<1> QED
  BY <1>1, <1>2 DEF Next

THEOREM CountersInvariant == Spec => []CounterInv
<1> QED
  BY Invariant, InitCounters, NextCounters, PTL DEF Spec

\* For every number of messages, of peers, prefixes and routes the state of the plugin, of
\* the peers' sessions and of the counters has its type (TypeOK).
THEOREM TypesAreKept == Spec => []TypeOK
<1>1. Inv /\ CounterInv => TypeOK
  BY DEF Inv, TruthTypes, PluginTypes, CounterInv, CounterTypes, Ledger, TypeOK, Phase
<1> QED
  BY <1>1, Invariant, CountersInvariant, PTL

\* Every update and every dump element ends in exactly one way, and the counters of the
\* whole run, of the peers and of the prefixes tell of the same changes, whatever comes
\* (count_raw_update, the mark_* functions, handle_rib and reset_peer_routes).
THEOREM CountersAgree == Spec => []CountersAddUp
<1>1. Balanced => CountersAddUp
  BY Zenon DEF Balanced, CountersAddUp, Over, OutcomesOf, InducedOf, OrdinaryOf
<1> QED
  BY <1>1, CountersInvariant, PTL DEF CounterInv

-----------------------------------------------------------------------------
(* The mass of events.                                                     *)

Given(m) == m["raw"] + m["ordinary"] + m["reset"]
Mass(l) == Over(l.mass, ASN, Given) + Whole * l.unknown
OriginsAgree(l) == \A a \in ASN : l.mass[a]["ordinary"] = OrdinarySum(l.mass[a])

\* l becomes r, which gives the mass of n events more.
Gives(l, r, n) ==
  /\ r \in Ledger
  /\ Mass(r) = Mass(l) + Whole * n
  /\ OriginsAgree(l) => OriginsAgree(r)

LEMMA Distribute ==
  /\ \A w, a, b \in Int : w * (a + b) = w * a + w * b
  /\ \A w \in Int : w * 0 = 0 /\ w * 1 = w
  /\ \A w, a \in Int : w * a \in Int
OBVIOUS

LEMMA DivideProduct ==
  ASSUME NEW q \in Nat, NEW c \in Nat, c # 0
  PROVE  (q * c) \div c = q
BY SMTT(30)

\* The origins of a route share an event, and half of one, without a remainder.
LEMMA Shares ==
  ASSUME NEW d \in Digest \cup {NoDigest}, d.origin_set # {}
  PROVE  /\ Cardinality(d.origin_set) \in Nat \ {0}
         /\ (Whole \div Cardinality(d.origin_set)) \in Nat
         /\ (Whole \div Cardinality(d.origin_set)) * Cardinality(d.origin_set) = Whole
         /\ ((Whole \div 2) \div Cardinality(d.origin_set)) * Cardinality(d.origin_set) = Whole \div 2
         /\ Whole \div 2 \in Nat /\ (Whole \div 2) + (Whole \div 2) = Whole
         /\ \A e \in Nat : (Whole * e) \div Cardinality(d.origin_set)
                             = (Whole \div Cardinality(d.origin_set)) * e
<1>1. d \in Digest
  BY DEF NoDigest
<1>2. IsFiniteSet(d.origin_set)
  BY <1>1, ChurnAssumption, FS_Subset
<1> DEFINE c == Cardinality(d.origin_set)
<1>3. c \in Nat \ {0}
  BY <1>2, FS_CardinalityType, FS_EmptySet
<1>4. PICK n \in 1..Whole : Whole = 2 * (n * c)
  BY <1>1, ChurnAssumption
<1> HIDE DEF c
<1>5. n \in Nat /\ n * c \in Nat /\ Whole \in Nat
  BY <1>3, ChurnAssumption
<1>6. Whole \div 2 = n * c
  BY <1>4, <1>5
<1>7. (n * c) \div c = n
  BY <1>3, <1>5, DivideProduct
<1>8. Whole = (2 * n) * c /\ 2 * n \in Nat
  BY <1>3, <1>4, <1>5
<1>9. Whole \div c = 2 * n
  BY <1>3, <1>8, DivideProduct
<1>10. (Whole \div 2) + (Whole \div 2) = Whole
  BY <1>4, <1>5, <1>6
<1>11. ASSUME NEW e \in Nat
       PROVE  (Whole * e) \div c = (2 * n) * e
  <2> DEFINE m == 2 * n
  <2>1. m \in Nat /\ Whole = m * c
    BY <1>8
  <2> HIDE DEF m
  <2>2. Whole * e = (m * e) * c /\ m * e \in Nat
    BY <1>3, <2>1
  <2>3. ((m * e) * c) \div c = m * e
    BY <1>3, <2>2, DivideProduct
  <2> QED
    BY <2>2, <2>3 DEF m
<1> QED
  BY <1>3, <1>5, <1>6, <1>7, <1>8, <1>9, <1>10, <1>11 DEF c

\* The names of the counters that one event adds its mass to.
EventNames(n) ==
  /\ One("raw" \in n) + One("ordinary" \in n) + One("reset" \in n) = 1
  /\ One("ordinary" \in n) = One("new_routes" \in n) + One("reannouncements" \in n) +
                             One("effective_withdrawals" \in n) + One("replacements" \in n)

LEMMA EventShare ==
  ASSUME NEW c \in [OriginCounter -> Nat], NEW n, EventNames(n), NEW share \in Nat
  PROVE  /\ Given(c) \in Nat
         /\ Given(Add(c, n, share)) = Given(c) + share
         /\ c["ordinary"] = OrdinarySum(c) =>
              Add(c, n, share)["ordinary"] = OrdinarySum(Add(c, n, share))
<1> DEFINE d == Add(c, n, share)
<1>1. \A i \in OriginCounter : c[i] \in Nat /\ d[i] = c[i] + IF i \in n THEN share ELSE 0
  BY AddFacts
<1> HIDE DEF d
<1>2. \A i \in Ordinary \cup {"raw", "ordinary", "reset"} :
        c[i] \in Nat /\ d[i] = c[i] + IF i \in n THEN share ELSE 0
  BY <1>1 DEF OriginCounter
<1>3. Given(c) \in Nat
  BY <1>2 DEF Given
<1>4. Given(d) = Given(c) + share
  BY <1>2 DEF Given, EventNames, One
<1>5. c["ordinary"] = OrdinarySum(c) => d["ordinary"] = OrdinarySum(d)
  BY <1>2 DEF OrdinarySum, Ordinary, EventNames, One
<1> QED
  BY <1>3, <1>4, <1>5 DEF d

\* The sum of the same number for every element of T.
LEMMA SumShares ==
  ASSUME NEW S, IsFiniteSet(S), NEW T \in SUBSET S, NEW n \in Nat
  PROVE  SumOver([x \in S |-> IF x \in T THEN n ELSE 0], S) = n * Cardinality(T)
<1> DEFINE h == [x \in S |-> IF x \in T THEN n ELSE 0]
<1>1. h \in [S -> Int] /\ \A x \in S : h[x] = IF x \in T THEN n ELSE 0
  OBVIOUS
<1> HIDE DEF h
<1>2. PICK H : SumOver(h, S) = H[S] /\ PartialSums(H, h, S)
  BY <1>1, SumIsFold
<1> DEFINE A == {s \in SUBSET S : H[s] = n * Cardinality(s \cap T)}
<1>3. \A s \in SUBSET S : IsFiniteSet(s \cap T) /\ Cardinality(s \cap T) \in Nat
  BY FS_Subset, FS_CardinalityType
<1>4. {} \in A
  <2>1. {} \in SUBSET S /\ {} \cap T = {} /\ n * 0 = 0
    OBVIOUS
  <2>2. H[{}] = 0
    BY <1>2, <2>1 DEF PartialSums
  <2> QED
    BY <2>1, <2>2, FS_EmptySet
<1>5. ASSUME NEW s \in SUBSET S, s # {}, s \ {Chosen(s)} \in A
      PROVE  s \in A
  <2> DEFINE c == Chosen(s)
             r == s \ {c}
             full == Cardinality(s \cap T)
             less == Cardinality(r \cap T)
  <2>1. c \in s /\ c \in S /\ r \in SUBSET S
    BY <1>5 DEF Chosen
  <2>2. H[s] = h[c] + H[r] /\ H[r] = n * less
    BY <1>2, <1>5 DEF PartialSums
  <2>3. full \in Nat /\ less \in Nat
    BY <1>3, <2>1
  <2>4. c \notin T => full = less
    <3>1. c \notin T => r \cap T = s \cap T
      BY <2>1
    <3> QED
      BY <3>1
  <2>5. c \in T => full = less + 1
    <3> SUFFICES ASSUME c \in T PROVE full = less + 1
      OBVIOUS
    <3>1. IsFiniteSet(s \cap T) /\ c \in s \cap T /\ r \cap T = (s \cap T) \ {c}
      BY <1>3, <2>1
    <3>2. Cardinality((s \cap T) \ {c}) = Cardinality(s \cap T) - 1
      <4> HIDE DEF c
      <4> QED
        BY <3>1, FS_RemoveElement
    <3>3. less = full - 1
      BY <3>1, <3>2
    <3> HIDE DEF full, less
    <3> QED
      BY <2>3, <3>3
  <2>6. h[c] = IF c \in T THEN n ELSE 0
    BY <1>1, <2>1
  <2> HIDE DEF c, r, full, less
  <2>7. H[s] = n * full
    <3>1. CASE c \in T
      BY <2>2, <2>3, <2>5, <2>6, <3>1
    <3>2. CASE c \notin T
      BY <2>2, <2>3, <2>4, <2>6, <3>2
    <3> QED
      BY <3>1, <3>2
  <2> QED
    BY <2>7 DEF full
<1> HIDE DEF A
<1>6. \A s \in SUBSET S : s \in A
  BY <1>4, <1>5, SubsetInduction
<1>7. S \cap T = T
  OBVIOUS
<1> QED
  BY <1>2, <1>6, <1>7 DEF A, h

\* The mass that the origins have.
OriginMass(l) == Over(l.mass, ASN, Given)

LEMMA MassTypes ==
  ASSUME NEW l \in Ledger
  PROVE  /\ OriginMass(l) \in Int /\ l.unknown \in Nat /\ Whole * l.unknown \in Int
         /\ Mass(l) = OriginMass(l) + Whole * l.unknown
<1>1. \A a \in ASN : l.mass[a] \in [OriginCounter -> Nat]
  BY DEF Ledger
<1>2. \A c \in [OriginCounter -> Nat] : Given(c) \in Int
  BY DEF Given, OriginCounter
<1>3. [a \in ASN |-> Given(l.mass[a])] \in [ASN -> Int]
  BY <1>1, <1>2
<1>4. OriginMass(l) \in Int
  BY <1>3, SumType, ChurnAssumption DEF OriginMass, Over
<1>5. l.unknown \in Nat /\ Whole * l.unknown \in Int
  BY ChurnAssumption DEF Ledger
<1> QED
  BY <1>4, <1>5 DEF Mass, OriginMass

\* An event whose mass its origins share without a remainder.
LEMMA CreditNamedMass ==
  ASSUME NEW l \in Ledger, NEW origins \in SUBSET ASN, NEW mass \in Nat, NEW names,
         origins # {}, \A a \in origins : EventNames(names[a]),
         (mass \div Cardinality(origins)) * Cardinality(origins) = mass
  PROVE  LET r == CreditNamed(l, origins, mass, names)
         IN  /\ r \in Ledger /\ r.unknown = l.unknown
             /\ OriginMass(r) = OriginMass(l) + mass
             /\ OriginsAgree(l) => OriginsAgree(r)
<1> DEFINE r == CreditNamed(l, origins, mass, names)
           share == mass \div Cardinality(origins)
<1>1. r \in Ledger
  BY CreditNamedType
<1>2. share \in Nat
  BY ShareType
<1>3. r = [l EXCEPT !.mass = [a \in ASN |->
             IF a \in origins THEN Add(l.mass[a], names[a], share) ELSE l.mass[a]]]
  BY DEF CreditNamed, CreditEach
<1>4. share * Cardinality(origins) = mass
  OBVIOUS
<1> HIDE DEF share, r
<1>5. l = [mass |-> l.mass, unknown |-> l.unknown] /\ \A a \in ASN : l.mass[a] \in [OriginCounter -> Nat]
  BY DEF Ledger
<1>6. /\ r.unknown = l.unknown
      /\ \A a \in ASN : r.mass[a] = IF a \in origins THEN Add(l.mass[a], names[a], share) ELSE l.mass[a]
  BY <1>3, <1>5
<1>7. ASSUME NEW a \in ASN
      PROVE  /\ Given(l.mass[a]) \in Nat /\ Given(r.mass[a]) \in Nat
             /\ Given(r.mass[a]) = Given(l.mass[a]) + IF a \in origins THEN share ELSE 0
             /\ l.mass[a]["ordinary"] = OrdinarySum(l.mass[a]) => r.mass[a]["ordinary"] = OrdinarySum(r.mass[a])
  <2>1. l.mass[a] \in [OriginCounter -> Nat]
    BY <1>5
  <2>2. Given(l.mass[a]) \in Nat
    BY <2>1 DEF Given, OriginCounter
  <2>3. CASE a \in origins
    <3>1. EventNames(names[a]) /\ r.mass[a] = Add(l.mass[a], names[a], share)
      BY <1>6, <2>3
    <3> QED
      BY <1>2, <2>1, <2>2, <2>3, <3>1, EventShare
  <2>4. CASE a \notin origins
    BY <1>6, <2>2, <2>4
  <2> QED
    BY <2>3, <2>4
<1>8. OriginsAgree(l) => OriginsAgree(r)
  BY <1>7 DEF OriginsAgree
<1> DEFINE F == [a \in ASN |-> Given(l.mass[a])]
           G == [a \in ASN |-> Given(r.mass[a])]
           H == [a \in ASN |-> IF a \in origins THEN share ELSE 0]
<1>9. F \in [ASN -> Int] /\ G \in [ASN -> Int] /\ H \in [ASN -> Int]
      /\ \A a \in ASN : G[a] = F[a] + H[a]
  BY <1>2, <1>7
<1>10. SumOver(H, ASN) = mass
  <2>1. SumOver(H, ASN) = share * Cardinality(origins)
    BY <1>2, SumShares, ChurnAssumption
  <2> QED
    BY <1>4, <2>1
<1> HIDE DEF F, G, H
<1>11. SumOver(G, ASN) = SumOver(F, ASN) + SumOver(H, ASN)
  BY <1>9, SumPlus, ChurnAssumption
<1>12. OriginMass(r) = OriginMass(l) + mass
  BY <1>10, <1>11 DEF OriginMass, Over, F, G
<1> QED
  BY <1>1, <1>6, <1>8, <1>12 DEF r

\* A whole event, of the origins of a route.
LEMMA CreditGives ==
  ASSUME NEW l \in Ledger, NEW d \in Digest \cup {NoDigest}, NEW names, 
         \A a \in d.origin_set : EventNames(names[a])
  PROVE  Gives(l, CreditNamed(l, d.origin_set, Whole, names), 1)
<1> DEFINE origins == d.origin_set
           r == CreditNamed(l, origins, Whole, names)
<1>1. origins \in SUBSET ASN /\ Whole \in Nat
  BY ChurnAssumption DEF NoDigest
<1>2. r \in Ledger
  BY <1>1, CreditNamedType
<1>3. CASE origins = {}
  <2>1. r = [l EXCEPT !.unknown = @ + 1]
    BY <1>3 DEF CreditNamed, CreditEach
  <2>2. r.mass = l.mass /\ r.unknown = l.unknown + 1
    BY <2>1 DEF Ledger
  <2> HIDE DEF r
  <2>3. OriginMass(r) = OriginMass(l) /\ (OriginsAgree(l) => OriginsAgree(r))
    BY <2>2 DEF OriginMass, OriginsAgree, Over
  <2>4. Whole * r.unknown = Whole * l.unknown + Whole * 1
    <3>1. l.unknown \in Int /\ Whole \in Int
      BY <1>1 DEF Ledger
    <3> QED
      BY <2>2, <3>1, Distribute
  <2>5. /\ OriginMass(l) \in Int /\ Whole * l.unknown \in Int /\ Whole * 1 \in Int
        /\ Mass(l) = OriginMass(l) + Whole * l.unknown /\ Mass(r) = OriginMass(r) + Whole * r.unknown
    BY <1>1, <1>2, MassTypes
  <2>6. Mass(r) = Mass(l) + Whole * 1
    BY <2>3, <2>4, <2>5
  <2> QED
    BY <1>2, <2>3, <2>6 DEF Gives, r
<1>4. CASE origins # {}
  <2>1. (Whole \div Cardinality(origins)) * Cardinality(origins) = Whole
    BY <1>4, Shares
  <2> HIDE DEF origins, r
  <2>2. \A a \in origins : EventNames(names[a])
    BY DEF origins
  <2>3. /\ r.unknown = l.unknown
        /\ OriginMass(r) = OriginMass(l) + Whole
        /\ OriginsAgree(l) => OriginsAgree(r)
    BY <1>1, <1>4, <2>1, <2>2, CreditNamedMass DEF r
  <2>4. /\ OriginMass(l) \in Int /\ Whole * l.unknown \in Int /\ Whole * 1 = Whole
        /\ Mass(l) = OriginMass(l) + Whole * l.unknown /\ Mass(r) = OriginMass(r) + Whole * r.unknown
    BY <1>1, <1>2, MassTypes
  <2>5. Mass(r) = Mass(l) + Whole * 1
    BY <1>1, <2>3, <2>4
  <2> QED
    BY <1>2, <2>3, <2>5 DEF Gives, r, origins
<1> QED
  BY <1>3, <1>4

\* The events that a step gives add up.
LEMMA GivesBoth ==
  ASSUME NEW l \in Ledger, NEW q, NEW r, NEW n \in Nat, NEW m \in Nat, Gives(l, q, n), Gives(q, r, m)
  PROVE  Gives(l, r, n + m)
<1>1. q \in Ledger /\ r \in Ledger /\ Mass(q) = Mass(l) + Whole * n /\ Mass(r) = Mass(q) + Whole * m
      /\ (OriginsAgree(l) => OriginsAgree(r))
  BY DEF Gives
<1>2. Mass(l) \in Int /\ Whole \in Int
  BY MassTypes, ChurnAssumption
<1>3. Whole * (n + m) = Whole * n + Whole * m /\ Whole * n \in Int /\ Whole * m \in Int
  BY <1>2, Distribute
<1>4. Mass(r) = Mass(l) + Whole * (n + m)
  BY <1>1, <1>2, <1>3
<1> QED
  BY <1>1, <1>4 DEF Gives

LEMMA GivesNothing ==
  ASSUME NEW l \in Ledger
  PROVE  Gives(l, l, 0)
<1>1. Mass(l) \in Int /\ Whole * 0 = 0
  BY MassTypes, ChurnAssumption
<1> QED
  BY <1>1 DEF Gives

LEMMA PlainCreditGives ==
  ASSUME NEW l \in Ledger, NEW d \in Digest \cup {NoDigest}, NEW names, EventNames(names)
  PROVE  Gives(l, Credit(l, d.origin_set, Whole, names), 1)
<1> DEFINE each == [a \in d.origin_set |-> names]
<1>1. \A a \in d.origin_set : EventNames(each[a])
  OBVIOUS
<1>2. Credit(l, d.origin_set, Whole, names) = CreditNamed(l, d.origin_set, Whole, each)
  BY CreditIsNamed
<1> HIDE DEF each
<1> QED
  BY <1>1, <1>2, CreditGives

\* The origins of two routes have half an event each.
LEMMA HalvesGive ==
  ASSUME NEW l \in Ledger, NEW old \in Digest \cup {NoDigest}, NEW new \in Digest \cup {NoDigest},
         old.origin_set # {}, new.origin_set # {}, NEW out, NEW in,
         \A a \in old.origin_set : EventNames(out[a]), \A a \in new.origin_set : EventNames(in[a])
  PROVE  Gives(l, CreditNamed(CreditNamed(l, old.origin_set, Whole \div 2, out),
                              new.origin_set, Whole \div 2, in), 1)
<1> DEFINE q == CreditNamed(l, old.origin_set, Whole \div 2, out)
           r == CreditNamed(q, new.origin_set, Whole \div 2, in)
           half == Whole \div 2
<1>1. /\ old.origin_set \in SUBSET ASN /\ new.origin_set \in SUBSET ASN /\ Whole \in Nat
  BY ChurnAssumption DEF NoDigest
<1>2. /\ half \in Nat /\ half + half = Whole
      /\ (half \div Cardinality(old.origin_set)) * Cardinality(old.origin_set) = half
      /\ (half \div Cardinality(new.origin_set)) * Cardinality(new.origin_set) = half
  BY Shares
<1> HIDE DEF half
<1>3. /\ q \in Ledger /\ q.unknown = l.unknown /\ OriginMass(q) = OriginMass(l) + half
      /\ OriginsAgree(l) => OriginsAgree(q)
  BY <1>1, <1>2, CreditNamedMass DEF half
<1> HIDE DEF q
<1>4. /\ r \in Ledger /\ r.unknown = q.unknown /\ OriginMass(r) = OriginMass(q) + half
      /\ OriginsAgree(q) => OriginsAgree(r)
  BY <1>1, <1>2, <1>3, CreditNamedMass DEF half
<1> HIDE DEF r
<1>5. /\ OriginMass(l) \in Int /\ Whole * l.unknown \in Int /\ Whole * 1 = Whole
      /\ Mass(l) = OriginMass(l) + Whole * l.unknown /\ Mass(r) = OriginMass(r) + Whole * r.unknown
  BY <1>1, <1>4, MassTypes
<1>6. Mass(r) = Mass(l) + Whole * 1
  BY <1>1, <1>2, <1>3, <1>4, <1>5
<1>7. Gives(l, r, 1)
  BY <1>3, <1>4, <1>6 DEF Gives
<1> QED
  BY <1>7 DEF r, q, half

LEMMA CreditReplacementGives ==
  ASSUME NEW l \in Ledger, NEW old \in Digest \cup {NoDigest}, NEW new \in Digest \cup {NoDigest}, NEW mask
  PROVE  Gives(l, CreditReplacement(l, old, new, mask), 1)
<1> DEFINE names(others, direction) ==
             [a \in ASN |-> {"ordinary", "replacements"} \cup (mask \cap {"as_path", "attributes"}) \cup
                            IF a \in others THEN {} ELSE {direction}]
           side(x, origins, others, mass, direction) ==
             CreditEach(x, origins, mass, LAMBDA a :
               {"ordinary", "replacements"} \cup (mask \cap {"as_path", "attributes"}) \cup
               IF a \in others THEN {} ELSE {direction})
           r == CreditReplacement(l, old, new, mask)
<1>1. /\ old.origin_set \in SUBSET ASN /\ new.origin_set \in SUBSET ASN
  BY ChurnAssumption DEF NoDigest
<1>2. ASSUME NEW x, NEW origins \in SUBSET ASN, NEW others, NEW mass, NEW direction
      PROVE  side(x, origins, others, mass, direction) = CreditNamed(x, origins, mass, names(others, direction))
  BY DEF CreditNamed, CreditEach
<1>3. ASSUME NEW others, NEW direction \in {"origin_in", "origin_out"}, NEW a \in ASN
      PROVE  EventNames(names(others, direction)[a])
  <2> DEFINE n == names(others, direction)[a]
  <2>1. n = {"ordinary", "replacements"} \cup (mask \cap {"as_path", "attributes"}) \cup
            (IF a \in others THEN {} ELSE {direction})
    OBVIOUS
  <2> HIDE DEF n
  <2>2. /\ "raw" \notin n /\ "ordinary" \in n /\ "reset" \notin n /\ "replacements" \in n
        /\ "new_routes" \notin n /\ "reannouncements" \notin n /\ "effective_withdrawals" \notin n
    BY <2>1
  <2>3. EventNames(n)
    BY <2>2 DEF EventNames, One
  <2> QED
    BY <2>3 DEF n
<1>4. r = SplitReplacement(l, old.origin_set, new.origin_set, side)
  BY DEF CreditReplacement
<1> HIDE DEF side, r, names
<1>5. \/ r = side(l, new.origin_set, old.origin_set, Whole, "origin_in")
      \/ r = side(l, old.origin_set, new.origin_set, Whole, "origin_out")
      \/ /\ old.origin_set # {} /\ new.origin_set # {}
         /\ r = side(side(l, old.origin_set, new.origin_set, Whole \div 2, "origin_out"),
                     new.origin_set, old.origin_set, Whole \div 2, "origin_in")
  BY <1>4 DEF SplitReplacement
<1>6. CASE r = side(l, new.origin_set, old.origin_set, Whole, "origin_in")
  <2> DEFINE n == names(old.origin_set, "origin_in")
  <2>1. r = CreditNamed(l, new.origin_set, Whole, n)
    BY <1>1, <1>2, <1>6
  <2>2. \A a \in new.origin_set : EventNames(n[a])
    BY <1>1, <1>3
  <2> HIDE DEF n
  <2> QED
    BY <2>1, <2>2, CreditGives DEF r
<1>7. CASE r = side(l, old.origin_set, new.origin_set, Whole, "origin_out")
  <2> DEFINE n == names(new.origin_set, "origin_out")
  <2>1. r = CreditNamed(l, old.origin_set, Whole, n)
    BY <1>1, <1>2, <1>7
  <2>2. \A a \in old.origin_set : EventNames(n[a])
    BY <1>1, <1>3
  <2> HIDE DEF n
  <2> QED
    BY <2>1, <2>2, CreditGives DEF r
<1>8. CASE /\ old.origin_set # {} /\ new.origin_set # {}
           /\ r = side(side(l, old.origin_set, new.origin_set, Whole \div 2, "origin_out"),
                       new.origin_set, old.origin_set, Whole \div 2, "origin_in")
  <2> DEFINE out == names(new.origin_set, "origin_out")
             in == names(old.origin_set, "origin_in")
  <2>1. r = CreditNamed(CreditNamed(l, old.origin_set, Whole \div 2, out),
                        new.origin_set, Whole \div 2, in)
    BY <1>1, <1>2, <1>8
  <2>2. (\A a \in old.origin_set : EventNames(out[a])) /\ (\A a \in new.origin_set : EventNames(in[a]))
    BY <1>1, <1>3
  <2> HIDE DEF out, in
  <2> QED
    BY <1>8, <2>1, <2>2, HalvesGive DEF r
<1> QED
  BY <1>5, <1>6, <1>7, <1>8

LEMMA CreditSyncReplacementGives ==
  ASSUME NEW l \in Ledger, NEW old \in Digest \cup {NoDigest}, NEW new \in Digest \cup {NoDigest}
  PROVE  Gives(l, CreditSyncReplacement(l, old, new), 1)
<1> DEFINE side(x, origins, others, mass, direction) == Credit(x, origins, mass, {"reset"})
           names(origins) == [a \in origins |-> {"reset"}]
           r == CreditSyncReplacement(l, old, new)
<1>1. EventNames({"reset"})
  BY DEF EventNames, One
<1>2. r = SplitReplacement(l, old.origin_set, new.origin_set, side)
  BY DEF CreditSyncReplacement
<1>3. ASSUME NEW x, NEW origins, NEW others, NEW mass, NEW direction
      PROVE  side(x, origins, others, mass, direction) = CreditNamed(x, origins, mass, names(origins))
  BY CreditIsNamed
<1>4. \A origins : \A a \in origins : EventNames(names(origins)[a])
  BY <1>1
<1> HIDE DEF side, r, names
<1>5. \/ r = side(l, new.origin_set, old.origin_set, Whole, "origin_in")
      \/ r = side(l, old.origin_set, new.origin_set, Whole, "origin_out")
      \/ /\ old.origin_set # {} /\ new.origin_set # {}
         /\ r = side(side(l, old.origin_set, new.origin_set, Whole \div 2, "origin_out"),
                     new.origin_set, old.origin_set, Whole \div 2, "origin_in")
  BY <1>2 DEF SplitReplacement
<1>6. \/ r = CreditNamed(l, new.origin_set, Whole, names(new.origin_set))
      \/ r = CreditNamed(l, old.origin_set, Whole, names(old.origin_set))
      \/ /\ old.origin_set # {} /\ new.origin_set # {}
         /\ r = CreditNamed(CreditNamed(l, old.origin_set, Whole \div 2, names(old.origin_set)),
                            new.origin_set, Whole \div 2, names(new.origin_set))
  BY <1>3, <1>5
<1>7. Gives(l, CreditNamed(l, new.origin_set, Whole, names(new.origin_set)), 1)
  BY <1>4, CreditGives
<1>8. Gives(l, CreditNamed(l, old.origin_set, Whole, names(old.origin_set)), 1)
  BY <1>4, CreditGives
<1>9. old.origin_set # {} /\ new.origin_set # {} =>
        Gives(l, CreditNamed(CreditNamed(l, old.origin_set, Whole \div 2, names(old.origin_set)),
                             new.origin_set, Whole \div 2, names(new.origin_set)), 1)
  BY <1>4, HalvesGive
<1> QED
  BY <1>6, <1>7, <1>8, <1>9 DEF r

\* Route time is no event.
LEMMA CloseExposureGives ==
  ASSUME Inv, NEW l \in Ledger, NEW k \in keys, NEW t \in Nat
  PROVE  Gives(l, CloseExposure(l, k, t), 0)
<1> DEFINE r == CloseExposure(l, k, t)
           origins == routes[k].route.origin_set
           share == (Whole * AnalysisTime(routes[k].active_since, t)) \div Cardinality(origins)
<1>1. r \in Ledger /\ l \in Ledger
  BY CloseExposureType
<1>2. CASE r = l
  BY <1>2, GivesNothing
<1>3. CASE r # l
  <2>1. /\ origins # {}
        /\ r = Credit(l, origins, Whole * AnalysisTime(routes[k].active_since, t), {"seconds"})
    BY <1>3 DEF CloseExposure
  <2>2. r = [l EXCEPT !.mass = [a \in ASN |->
               IF a \in origins THEN Add(l.mass[a], {"seconds"}, share) ELSE l.mass[a]]]
    BY <2>1 DEF Credit, CreditEach
  <2> HIDE DEF r, share, origins
  <2>3. /\ r.unknown = l.unknown
        /\ \A a \in ASN : r.mass[a] = IF a \in origins THEN Add(l.mass[a], {"seconds"}, share) ELSE l.mass[a]
    BY <2>2 DEF Ledger
  <2>4. ASSUME NEW a \in ASN
        PROVE  /\ Given(r.mass[a]) = Given(l.mass[a])
               /\ r.mass[a]["ordinary"] = l.mass[a]["ordinary"]
               /\ OrdinarySum(r.mass[a]) = OrdinarySum(l.mass[a])
    <3>1. CASE a \notin origins
      BY <2>3, <3>1
    <3>2. CASE a \in origins
      <4>1. \A i \in Ordinary \cup {"raw", "ordinary", "reset"} : r.mass[a][i] = l.mass[a][i]
        <5>1. l.mass[a] \in [OriginCounter -> Nat] /\ r.mass[a] = Add(l.mass[a], {"seconds"}, share)
          BY <2>3, <3>2 DEF Ledger
        <5>2. \A i \in OriginCounter : i # "seconds" => r.mass[a][i] = l.mass[a][i] + 0
          BY <5>1 DEF Add
        <5>3. \A i \in OriginCounter : l.mass[a][i] \in Nat
          BY <5>1
        <5> QED
          BY <5>2, <5>3 DEF OriginCounter, Ordinary
      <4> QED
        BY <4>1 DEF Given, OrdinarySum, Ordinary
    <3> QED
      BY <3>1, <3>2
  <2>5. [a \in ASN |-> Given(r.mass[a])] = [a \in ASN |-> Given(l.mass[a])]
    BY <2>4
  <2>6. OriginMass(r) = OriginMass(l)
    BY <2>5, Zenon DEF OriginMass, Over
  <2>7. OriginsAgree(l) => OriginsAgree(r)
    BY <2>4 DEF OriginsAgree
  <2>8. Mass(r) = Mass(l) /\ Mass(l) \in Int
    BY <1>1, <2>3, <2>6, MassTypes
  <2>9. Whole * 0 = 0
    BY ChurnAssumption
  <2> QED
    BY <1>1, <2>7, <2>8, <2>9 DEF Gives, r
<1> QED
  BY <1>2, <1>3

LEMMA RouteIsDigest ==
  ASSUME Inv, NEW k \in keys
  PROVE  routes[k].route \in Digest \cup {NoDigest}
BY DEF Inv, PluginTypes, RouteState

\* An accepted announcement is an event; the change it makes is another one.
LEMMA AnnouncementLedgerGives ==
  ASSUME Inv, ledger \in Ledger, NEW k \in keys, NEW d \in Digest, NEW t \in Nat,
         NEW o \in Outcome \ {"effective_withdrawals", "sync_withdrawals"}
  PROVE  Gives(ledger, AnnouncementLedger(k, d, t, o), 1 + One(o \in Ordinary \cup SyncOutcome))
<1> DEFINE raw == CreditRaw(ledger, d, Scored(t))
           closed == IF o = "duplicate_announcements" THEN raw ELSE CloseExposure(raw, k, t)
           old == routes[k].route
           r == AnnouncementLedger(k, d, t, o)
<1>1. old \in Digest \cup {NoDigest}
  BY RouteIsDigest
<1>2. Gives(ledger, raw, 1)
  <2> DEFINE n == {"raw"} \cup IF Scored(t) THEN {"raw_scored"} ELSE {}
  <2>1. EventNames(n)
    BY DEF EventNames, One
  <2> HIDE DEF n
  <2>2. Gives(ledger, Credit(ledger, d.origin_set, Whole, n), 1)
    BY <2>1, PlainCreditGives
  <2> QED
    BY <2>2 DEF CreditRaw, n
<1> HIDE DEF raw
<1>3. raw \in Ledger
  BY <1>2 DEF Gives
<1>4. Gives(raw, closed, 0)
  <2>1. Gives(raw, raw, 0) /\ Gives(raw, CloseExposure(raw, k, t), 0)
    BY <1>3, GivesNothing, CloseExposureGives
  <2> QED
    BY <2>1
<1> HIDE DEF closed
<1>5. closed \in Ledger
  BY <1>4 DEF Gives
<1>6. Gives(ledger, closed, 1)
  <2>1. Gives(ledger, closed, 1 + 0)
    BY <1>2, <1>4, GivesBoth
  <2> QED
    BY <2>1
<1>7. ASSUME o \in Ordinary \cup SyncOutcome
      PROVE  Gives(closed, r, 1)
  <2>1. CASE o \in {"new_routes", "reannouncements"}
    <3>1. EventNames({"ordinary", o})
      BY <2>1 DEF EventNames, One
    <3>2. r = Credit(closed, d.origin_set, Whole, {"ordinary", o})
      BY <2>1 DEF AnnouncementLedger, closed, raw
    <3> HIDE DEF r
    <3> QED
      BY <1>5, <3>1, <3>2, PlainCreditGives
  <2>2. CASE o = "sync_announcements"
    <3>1. EventNames({"reset"})
      BY DEF EventNames, One
    <3>2. r = Credit(closed, d.origin_set, Whole, {"reset"})
      BY <2>2 DEF AnnouncementLedger, closed, raw
    <3> HIDE DEF r
    <3> QED
      BY <1>5, <3>1, <3>2, PlainCreditGives
  <2>3. CASE o = "replacements"
    <3>1. r = CreditReplacement(closed, old, d, ChangeMask(old, d))
      BY <2>3 DEF AnnouncementLedger, closed, raw
    <3> HIDE DEF r, old
    <3> QED
      BY <1>1, <1>5, <3>1, CreditReplacementGives
  <2>4. CASE o = "sync_replacements"
    <3>1. r = CreditSyncReplacement(closed, old, d)
      BY <2>4 DEF AnnouncementLedger, closed, raw
    <3> HIDE DEF r, old
    <3> QED
      BY <1>1, <1>5, <3>1, CreditSyncReplacementGives
  <2> QED
    BY <1>7, <2>1, <2>2, <2>3, <2>4 DEF Ordinary, SyncOutcome
<1>8. ASSUME o \notin Ordinary \cup SyncOutcome
      PROVE  r = closed
  BY <1>8 DEF AnnouncementLedger, closed, raw, Ordinary, SyncOutcome
<1> HIDE DEF r
<1>9. CASE o \in Ordinary \cup SyncOutcome
  <2>1. Gives(ledger, r, 1 + 1)
    BY <1>6, <1>7, <1>9, GivesBoth
  <2> QED
    BY <1>9, <2>1 DEF One, r
<1>10. CASE o \notin Ordinary \cup SyncOutcome
  <2>1. 1 + 0 = 1
    OBVIOUS
  <2> QED
    BY <1>6, <1>8, <1>10, <2>1 DEF One, r
<1> QED
  BY <1>9, <1>10

LEMMA WithdrawalLedgerGives ==
  ASSUME Inv, ledger \in Ledger, NEW k \in keys, NEW t \in Nat,
         NEW o \in NoChange \cup {"effective_withdrawals", "sync_withdrawals", "unscored_withdrawals"}
  PROVE  Gives(ledger, WithdrawalLedger(k, t, o), One(o \in Ordinary \cup SyncOutcome))
<1> DEFINE closed == CloseExposure(ledger, k, t)
           old == routes[k].route
           r == WithdrawalLedger(k, t, o)
<1>1. old \in Digest \cup {NoDigest}
  BY RouteIsDigest
<1>2. Gives(ledger, closed, 0)
  BY CloseExposureGives
<1> HIDE DEF closed
<1>3. closed \in Ledger
  BY <1>2 DEF Gives
<1>4. ASSUME o \in {"effective_withdrawals", "sync_withdrawals"}
      PROVE  Gives(closed, r, 1)
  <2> DEFINE n == IF o = "sync_withdrawals" THEN {"reset"} ELSE {"ordinary", o}
  <2>1. EventNames(n)
    BY <1>4 DEF EventNames, One
  <2>2. r = Credit(closed, old.origin_set, Whole, n)
    BY <1>4 DEF WithdrawalLedger, closed
  <2> HIDE DEF n, r, old
  <2> QED
    BY <1>1, <1>3, <2>1, <2>2, PlainCreditGives
<1>5. ASSUME o \notin {"effective_withdrawals", "sync_withdrawals"}
      PROVE  r = closed
  BY <1>5 DEF WithdrawalLedger, closed
<1>6. o \in Ordinary \cup SyncOutcome <=> o \in {"effective_withdrawals", "sync_withdrawals"}
  BY DEF Ordinary, SyncOutcome, NoChange
<1> HIDE DEF r
<1>7. CASE o \in {"effective_withdrawals", "sync_withdrawals"}
  <2>1. Gives(ledger, r, 0 + 1)
    BY <1>2, <1>4, <1>7, GivesBoth
  <2>2. 0 + 1 = 1
    OBVIOUS
  <2> QED
    BY <1>6, <1>7, <2>1, <2>2 DEF One, r
<1>8. CASE o \notin {"effective_withdrawals", "sync_withdrawals"}
  BY <1>2, <1>5, <1>6, <1>8 DEF One, r
<1> QED
  BY <1>7, <1>8

\* A session end after the warm-up is an event of every active route of the peer.
LEMMA ResetLedgerGives ==
  ASSUME Inv, ledger \in Ledger, NEW p \in Peer, NEW t \in Nat
  PROVE  Gives(ledger, ResetLedger(ledger, p, t),
               IF Scored(t) THEN Cardinality(peers[p].active_route_ids) ELSE 0)
<1> DEFINE ids == peers[p].active_route_ids
           n(s) == IF Scored(t) THEN Cardinality(s) ELSE 0
<1>1. ids \subseteq keys /\ IsFiniteSet(ids)
  BY FiniteKeys DEF Inv, PluginTypes, PeerData
<1> HIDE DEF ids
<1>2. PICK f : /\ ResetLedger(ledger, p, t) = f[ids]
               /\ \A s \in SUBSET ids :
                    /\ f[s] \in Ledger
                    /\ f[s] = IF s = {} THEN ledger ELSE ResetOne(Chosen(s), f[s \ {Chosen(s)}], t)
  BY ResetLedgerIsFold DEF ids
<1>3. ASSUME NEW k \in keys, NEW x \in Ledger
      PROVE  Gives(x, ResetOne(k, x, t), One(Scored(t)))
  <2> DEFINE closed == CloseExposure(x, k, t)
  <2>1. Gives(x, closed, 0) /\ closed \in Ledger
    BY CloseExposureGives, CloseExposureType
  <2> HIDE DEF closed
  <2>2. EventNames({"reset"})
    BY DEF EventNames, One
  <2>3. Gives(closed, Credit(closed, routes[k].route.origin_set, Whole, {"reset"}), 1)
    BY <2>1, <2>2, RouteIsDigest, PlainCreditGives
  <2> DEFINE credited == Credit(closed, routes[k].route.origin_set, Whole, {"reset"})
  <2>4. ResetOne(k, x, t) = IF Scored(t) THEN credited ELSE closed
    BY DEF ResetOne, closed
  <2> HIDE DEF credited
  <2>5. Gives(x, credited, 0 + 1)
    BY <2>1, <2>3, GivesBoth DEF credited
  <2>6. 0 + 1 = 1
    OBVIOUS
  <2> QED
    BY <2>1, <2>4, <2>5, <2>6 DEF One
<1> DEFINE A == {s \in SUBSET ids : Gives(ledger, f[s], n(s))}
<1>4. {} \in A
  <2>1. {} \in SUBSET ids /\ f[{}] = ledger /\ n({}) = 0
    BY <1>2, FS_EmptySet
  <2> QED
    BY <2>1, GivesNothing
<1>5. ASSUME NEW s \in SUBSET ids, s # {}, s \ {Chosen(s)} \in A
      PROVE  s \in A
  <2> DEFINE c == Chosen(s)
             r == s \ {Chosen(s)}
  <2>1. IsFiniteSet(s)
    BY <1>1, FS_Subset
  <2>2. /\ c \in s /\ Cardinality(s) \in Nat /\ Cardinality(s) - 1 \in Nat
        /\ Cardinality(r) = Cardinality(s) - 1
    BY <1>5, <2>1, ChosenFacts
  <2>3. f[s] = ResetOne(c, f[r], t) /\ f[r] \in Ledger /\ Gives(ledger, f[r], n(r)) /\ c \in keys
    BY <1>1, <1>2, <1>5, <2>2
  <2> HIDE DEF c, r
  <2>4. Gives(f[r], f[s], One(Scored(t)))
    BY <1>3, <2>3
  <2>5. n(r) \in Nat /\ One(Scored(t)) \in Nat /\ n(r) + One(Scored(t)) = n(s)
    BY <2>2 DEF One
  <2> HIDE DEF n
  <2>6. Gives(ledger, f[s], n(r) + One(Scored(t)))
    BY <2>3, <2>4, <2>5, GivesBoth
  <2> QED
    BY <2>5, <2>6
<1> HIDE DEF A
<1>6. ids \in A
  BY <1>1, <1>4, <1>5, SubsetInduction
<1> QED
  BY <1>2, <1>6 DEF A, ids

-----------------------------------------------------------------------------
(* The events that the counters of a prefix tell of.                       *)

AnnouncementOutcomes ==
  {"new_routes", "reannouncements", "replacements", "sync_announcements", "sync_replacements",
   "duplicate_announcements", "cold_starts", "unscored_announcements"}
AnnouncedOf(c) == OrdinarySum(c) - c["effective_withdrawals"] +
                  SyncSum(c) - c["sync_withdrawals"] +
                  c["duplicate_announcements"] + c["cold_starts"] + c["unscored_announcements"]

LEMMA AnnouncedFacts ==
  ASSUME NEW c \in [PrefixCounter -> Nat]
  PROVE  /\ AnnouncedOf(c) \in Int
         /\ \A i \in AnnouncementOutcomes : c[i] \in Nat
         /\ AnnouncedOf(c) = c["new_routes"] + c["reannouncements"] + c["replacements"] +
                             c["sync_announcements"] + c["sync_replacements"] +
                             c["duplicate_announcements"] + c["cold_starts"] + c["unscored_announcements"]
<1>1. \A i \in Outcome : c[i] \in Nat
  BY DEF PrefixCounter
<1>2. AnnouncementOutcomes \subseteq Outcome
      /\ {"effective_withdrawals", "sync_withdrawals"} \subseteq Outcome
  BY DEF AnnouncementOutcomes, Outcome, Ordinary, SyncOutcome, NoChange
<1>3. /\ c["effective_withdrawals"] \in Nat /\ c["sync_withdrawals"] \in Nat
      /\ \A i \in AnnouncementOutcomes : c[i] \in Nat
  BY <1>1, <1>2
<1>4. /\ c["new_routes"] \in Nat /\ c["reannouncements"] \in Nat /\ c["replacements"] \in Nat
      /\ c["sync_announcements"] \in Nat /\ c["sync_replacements"] \in Nat
      /\ c["duplicate_announcements"] \in Nat /\ c["cold_starts"] \in Nat
      /\ c["unscored_announcements"] \in Nat
  BY <1>3 DEF AnnouncementOutcomes
<1> QED
  BY <1>3, <1>4 DEF AnnouncedOf, OrdinarySum, SyncSum

\* Counters that tell of no announcement leave the number of announcements.
LEMMA AnnouncedSame ==
  ASSUME NEW c \in [PrefixCounter -> Nat], NEW d \in [PrefixCounter -> Nat],
         \A i \in AnnouncementOutcomes : d[i] = c[i]
  PROVE  AnnouncedOf(d) = AnnouncedOf(c)
BY AnnouncedFacts DEF AnnouncementOutcomes

LEMMA AnnouncedTally ==
  ASSUME NEW c \in [PrefixCounter -> Nat], NEW names, NEW o,
         \A i \in AnnouncementOutcomes : i \in names <=> i = o
  PROVE  AnnouncedOf(Tally(c, names)) = AnnouncedOf(c) + One(o \in AnnouncementOutcomes)
<1> DEFINE d == Tally(c, names)
<1>1. AnnouncementOutcomes \subseteq PrefixCounter
  BY DEF AnnouncementOutcomes, PrefixCounter, Outcome, Ordinary, SyncOutcome, NoChange
<1>2. d \in [PrefixCounter -> Nat]
      /\ \A i \in PrefixCounter : c[i] \in Nat /\ d[i] = c[i] + IF i \in names THEN 1 ELSE 0
  BY TallyFacts
<1> HIDE DEF d
<1>3. \A i \in AnnouncementOutcomes : c[i] \in Nat /\ d[i] = c[i] + One(i = o)
  BY <1>1, <1>2 DEF One
<1>4. CASE o \notin AnnouncementOutcomes
  <2>1. \A i \in AnnouncementOutcomes : d[i] = c[i]
    BY <1>3, <1>4 DEF One
  <2>2. AnnouncedOf(d) = AnnouncedOf(c) /\ AnnouncedOf(c) \in Int
    BY <1>2, <2>1, AnnouncedSame, AnnouncedFacts
  <2> QED
    BY <1>4, <2>2 DEF One, d
<1>5. CASE o \in AnnouncementOutcomes
  <2> DEFINE e1 == One("new_routes" = o)
             e2 == One("reannouncements" = o)
             e3 == One("replacements" = o)
             e4 == One("sync_announcements" = o)
             e5 == One("sync_replacements" = o)
             e6 == One("duplicate_announcements" = o)
             e7 == One("cold_starts" = o)
             e8 == One("unscored_announcements" = o)
  <2>1. /\ d["new_routes"] = c["new_routes"] + e1 /\ d["reannouncements"] = c["reannouncements"] + e2
        /\ d["replacements"] = c["replacements"] + e3
        /\ d["sync_announcements"] = c["sync_announcements"] + e4
        /\ d["sync_replacements"] = c["sync_replacements"] + e5
        /\ d["duplicate_announcements"] = c["duplicate_announcements"] + e6
        /\ d["cold_starts"] = c["cold_starts"] + e7
        /\ d["unscored_announcements"] = c["unscored_announcements"] + e8
        /\ c["new_routes"] \in Nat /\ c["reannouncements"] \in Nat /\ c["replacements"] \in Nat
        /\ c["sync_announcements"] \in Nat /\ c["sync_replacements"] \in Nat
        /\ c["duplicate_announcements"] \in Nat /\ c["cold_starts"] \in Nat
        /\ c["unscored_announcements"] \in Nat
    BY <1>3 DEF AnnouncementOutcomes
  <2>2. /\ e1 \in Nat /\ e2 \in Nat /\ e3 \in Nat /\ e4 \in Nat
        /\ e5 \in Nat /\ e6 \in Nat /\ e7 \in Nat /\ e8 \in Nat
    BY DEF One
  <2>3. e1 + e2 + e3 + e4 + e5 + e6 + e7 + e8 = 1
    BY <1>5 DEF One, AnnouncementOutcomes
  <2> HIDE DEF e1, e2, e3, e4, e5, e6, e7, e8
  <2>4. AnnouncedOf(d) = AnnouncedOf(c) + 1
    <3> DEFINE x1 == c["new_routes"]
               x2 == c["reannouncements"]
               x3 == c["replacements"]
               x4 == c["sync_announcements"]
               x5 == c["sync_replacements"]
               x6 == c["duplicate_announcements"]
               x7 == c["cold_starts"]
               x8 == c["unscored_announcements"]
    <3>1. AnnouncedOf(c) = x1 + x2 + x3 + x4 + x5 + x6 + x7 + x8
      BY AnnouncedFacts
    <3>2. AnnouncedOf(d) = d["new_routes"] + d["reannouncements"] + d["replacements"] +
                           d["sync_announcements"] + d["sync_replacements"] +
                           d["duplicate_announcements"] + d["cold_starts"] + d["unscored_announcements"]
      BY <1>2, AnnouncedFacts
    <3>3. AnnouncedOf(d) = (x1 + e1) + (x2 + e2) + (x3 + e3) + (x4 + e4) +
                           (x5 + e5) + (x6 + e6) + (x7 + e7) + (x8 + e8)
      BY <2>1, <3>2
    <3>4. /\ x1 \in Nat /\ x2 \in Nat /\ x3 \in Nat /\ x4 \in Nat
          /\ x5 \in Nat /\ x6 \in Nat /\ x7 \in Nat /\ x8 \in Nat
      BY <2>1
    <3> HIDE DEF x1, x2, x3, x4, x5, x6, x7, x8
    <3> QED
      BY <2>2, <2>3, <3>1, <3>3, <3>4
  <2> QED
    BY <1>5, <2>4 DEF One, d
<1> QED
  BY <1>4, <1>5

LEMMA AnnouncedSum ==
  ASSUME NEW f \in [Prefix -> [PrefixCounter -> Nat]]
  PROVE  /\ Over(f, Prefix, AnnouncedOf) \in Int
         /\ \A x \in Prefix, c \in [PrefixCounter -> Nat] :
              Over([f EXCEPT ![x] = c], Prefix, AnnouncedOf)
                = Over(f, Prefix, AnnouncedOf) + (AnnouncedOf(c) - AnnouncedOf(f[x]))
<1>1. IsFiniteSet(Prefix) /\ \A i \in Prefix : f[i] \in [PrefixCounter -> Nat]
  BY ChurnAssumption
<1> DEFINE F == [i \in Prefix |-> AnnouncedOf(f[i])]
<1>2. F \in [Prefix -> Int]
  BY <1>1, AnnouncedFacts
<1>3. Over(f, Prefix, AnnouncedOf) = SumOver(F, Prefix)
  BY DEF Over
<1>4. ASSUME NEW x \in Prefix, NEW c \in [PrefixCounter -> Nat]
      PROVE  Over([f EXCEPT ![x] = c], Prefix, AnnouncedOf)
                = Over(f, Prefix, AnnouncedOf) + (AnnouncedOf(c) - AnnouncedOf(f[x]))
  <2> DEFINE g == [f EXCEPT ![x] = c]
             G == [i \in Prefix |-> AnnouncedOf(g[i])]
  <2>1. g[x] = c /\ (\A i \in Prefix : i # x => g[i] = f[i])
        /\ \A i \in Prefix : g[i] \in [PrefixCounter -> Nat]
    BY <1>1
  <2> HIDE DEF g
  <2>2. /\ G \in [Prefix -> Int] /\ F[x] = AnnouncedOf(f[x]) /\ G[x] = AnnouncedOf(c)
        /\ \A i \in Prefix : i # x => G[i] = F[i]
    BY <2>1, AnnouncedFacts
  <2> HIDE DEF F, G
  <2>3. SumOver(G, Prefix) = SumOver(F, Prefix) + (G[x] - F[x])
    BY <1>1, <1>2, <2>2, SumChange
  <2> QED
    BY <1>3, <2>2, <2>3 DEF Over, G, g
<1> HIDE DEF F
<1>5. Over(f, Prefix, AnnouncedOf) \in Int
  BY <1>1, <1>2, <1>3, SumType
<1> QED
  BY <1>4, <1>5

-----------------------------------------------------------------------------
(* Every event has given its mass to its origins.                          *)

Changes == total["ordinary"] + total["session_induced"]
MassInv ==
  /\ Mass(ledger) = Whole * (Over(prefix_stats, Prefix, AnnouncedOf) + Changes)
  /\ OriginsAgree(ledger)

\* A step that adds n events, whose mass the ledger gives.
LEMMA MassStep ==
  ASSUME CounterInv, MassInv, NEW n \in Nat, Gives(ledger, ledger', n),
         Over(prefix_stats, Prefix, AnnouncedOf)' + Changes'
           = Over(prefix_stats, Prefix, AnnouncedOf) + Changes + n
  PROVE  MassInv'
<1> DEFINE events == Over(prefix_stats, Prefix, AnnouncedOf) + Changes
<1>1. events \in Int /\ Whole \in Int
  <2>1. prefix_stats \in [Prefix -> [PrefixCounter -> Nat]] /\ Changes \in Int
    BY DEF CounterInv, CounterTypes, Changes, TotalCounter
  <2>2. Over(prefix_stats, Prefix, AnnouncedOf) \in Int
    BY <2>1, AnnouncedSum
  <2> DEFINE sum == Over(prefix_stats, Prefix, AnnouncedOf)
  <2> HIDE DEF sum
  <2>3. sum \in Int /\ Changes \in Int /\ Whole \in Int
    BY <2>1, <2>2, ChurnAssumption DEF sum
  <2>4. sum + Changes \in Int /\ Whole \in Int
    BY <2>3
  <2> QED
    BY <2>4 DEF sum
<1>2. /\ Mass(ledger') = Mass(ledger) + Whole * n /\ Mass(ledger) = Whole * events
      /\ OriginsAgree(ledger')
  BY DEF Gives, MassInv
<1>3. events' = events + n
  OBVIOUS
<1> HIDE DEF events
<1>4. Whole * (events + n) = Whole * events + Whole * n
  BY <1>1, Distribute
<1>5. Mass(ledger') = Whole * events'
  BY <1>2, <1>3, <1>4
<1>6. Mass(ledger)' = Mass(ledger') /\ OriginsAgree(ledger)' = OriginsAgree(ledger')
  BY DEF Mass, OriginsAgree, Over, Given
<1> QED
  BY <1>2, <1>5, <1>6 DEF MassInv, events

\* The counters of one prefix and the totals tell of the events of the step.
LEMMA MassUpdate ==
  ASSUME CounterInv, MassInv, NEW x \in Prefix, NEW c \in [PrefixCounter -> Nat],
         NEW n \in Nat, NEW m \in Nat,
         prefix_stats' = [prefix_stats EXCEPT ![x] = c],
         AnnouncedOf(c) = AnnouncedOf(prefix_stats[x]) + n,
         Changes' = Changes + m, Gives(ledger, ledger', n + m)
  PROVE  MassInv'
<1> DEFINE sum == Over(prefix_stats, Prefix, AnnouncedOf)
<1>1. prefix_stats \in [Prefix -> [PrefixCounter -> Nat]] /\ Changes \in Int
  BY DEF CounterInv, CounterTypes, Changes, TotalCounter
<1>2. /\ sum \in Int /\ AnnouncedOf(prefix_stats[x]) \in Int
      /\ Over(prefix_stats', Prefix, AnnouncedOf) = sum + (AnnouncedOf(c) - AnnouncedOf(prefix_stats[x]))
  BY <1>1, AnnouncedSum, AnnouncedFacts
<1>3. sum' = Over(prefix_stats', Prefix, AnnouncedOf)
  BY DEF Over, AnnouncedOf, OrdinarySum, SyncSum
<1> HIDE DEF sum
<1>4. sum' + Changes' = sum + Changes + (n + m)
  BY <1>1, <1>2, <1>3
<1>5. n + m \in Nat
  OBVIOUS
<1> QED
  BY <1>4, <1>5, MassStep DEF sum

\* A late update or element changes no route and gives nothing.
LEMMA CountLateMass ==
  ASSUME CounterInv, MassInv, NEW p \in Peer, NEW x \in Prefix, NEW t, NEW names,
         names = RawTally(t) \/ names = {"rib_elements"},
         CountLate(p, x, names)
  PROVE  MassInv'
<1> DEFINE prefix == (names \cap PrefixCounter) \cup {"out_of_order"}
           all == names \cup {"route_order_violations"}
           old == prefix_stats[x]
           c == Tally(old, prefix)
<1>1. /\ total' = Tally(total, all) /\ ledger' = ledger
      /\ prefix_stats' = [prefix_stats EXCEPT ![x] = c]
  BY DEF CountLate
<1>2. /\ total \in [TotalCounter -> Nat] /\ old \in [PrefixCounter -> Nat] /\ ledger \in Ledger
  BY DEF CounterInv, CounterTypes
<1>3. /\ \A i \in AnnouncementOutcomes : i \in prefix <=> i = "out_of_order"
      /\ "out_of_order" \notin AnnouncementOutcomes
      /\ "ordinary" \notin all /\ "session_induced" \notin all
  BY DEF AnnouncementOutcomes, RawTally
<1> HIDE DEF prefix, all, old
<1>4. Changes' = Changes + 0
  BY <1>1, <1>2, <1>3, TotalFacts DEF One, Changes
<1>5. c \in [PrefixCounter -> Nat] /\ AnnouncedOf(c) = AnnouncedOf(old) + 0
  <2>1. AnnouncedOf(c) = AnnouncedOf(old) + One("out_of_order" \in AnnouncementOutcomes)
    BY <1>2, <1>3, AnnouncedTally
  <2> QED
    BY <1>2, <1>3, <2>1, TallyFacts DEF One
<1>6. Gives(ledger, ledger', 0 + 0)
  BY <1>1, <1>2, GivesNothing
<1> HIDE DEF c
<1> QED
  BY <1>1, <1>4, <1>5, <1>6, MassUpdate DEF old

\* An accepted update gives what its outcome says.
LEMMA CountUpdateMass ==
  ASSUME CounterInv, MassInv, NEW p \in Peer, NEW x \in Prefix, NEW t, NEW order, NEW o \in Outcome,
         NEW mask, mask \subseteq {"as_path", "origin_set", "attributes"},
         CountUpdate(p, x, t, order, o, mask),
         Gives(ledger, ledger', One(o \in AnnouncementOutcomes) + One(o \in Ordinary \cup SyncOutcome))
  PROVE  MassInv'
<1> DEFINE names == RawTally(t) \cup PrefixTally(o) \cup IF o = "replacements" THEN mask ELSE {}
           old == prefix_stats[x]
           c == Tally(old, names)
           n == One(o \in AnnouncementOutcomes)
           m == One(o \in Ordinary \cup SyncOutcome)
<1>1. prefix_stats' = [prefix_stats EXCEPT ![x] = c]
  BY DEF CountUpdate
<1>2. /\ total \in [TotalCounter -> Nat] /\ old \in [PrefixCounter -> Nat]
  BY DEF CounterInv, CounterTypes
<1>3. \A i \in AnnouncementOutcomes : i \in names <=> i = o
  BY DEF AnnouncementOutcomes, RawTally, PrefixTally, OrdinaryToo
<1> HIDE DEF names, old
<1>4. c \in [PrefixCounter -> Nat] /\ AnnouncedOf(c) = AnnouncedOf(old) + n
  BY <1>2, <1>3, AnnouncedTally, TallyFacts
<1>5. Changes' = Changes + m
  <2>1. /\ total'["ordinary"] = total["ordinary"] + One(o \in Ordinary)
        /\ total'["session_induced"] = total["session_induced"] + One(o \in SyncOutcome)
    BY CountUpdateTotals
  <2>2. total["ordinary"] \in Nat /\ total["session_induced"] \in Nat
    BY <1>2 DEF TotalCounter
  <2>3. One(o \in Ordinary) + One(o \in SyncOutcome) = m
    BY DEF One, Ordinary, SyncOutcome
  <2>4. One(o \in Ordinary) \in Nat /\ One(o \in SyncOutcome) \in Nat
    BY DEF One
  <2> DEFINE a == One(o \in Ordinary)
             b == One(o \in SyncOutcome)
  <2> HIDE DEF a, b, m
  <2>5. a + b = m /\ a \in Nat /\ b \in Nat
    BY <2>3, <2>4 DEF a, b
  <2>6. Changes' = (total["ordinary"] + a) + (total["session_induced"] + b)
    BY <2>1 DEF Changes, a, b
  <2> QED
    BY <2>2, <2>5, <2>6 DEF Changes
<1>6. n \in Nat /\ m \in Nat /\ Gives(ledger, ledger', n + m)
  BY DEF One
<1> HIDE DEF c, n, m
<1> QED
  BY <1>1, <1>4, <1>5, <1>6, MassUpdate DEF old

LEMMA AnnouncementMass ==
  ASSUME CounterInv, MassInv, Inv, NEW p \in Peer, NEW x \in Prefix, NEW d \in Digest,
         Announcement(p, x, d)
  PROVE  MassInv'
<1> DEFINE k == <<p, x>>
<1>1. PICK t \in Times, late \in BOOLEAN :
        LET order == OrderKey(t, late)
            o == AnnouncementOutcome(k, d, t)
            mask == IF o \in {"replacements", "sync_replacements"} THEN ChangeMask(routes[k].route, d) ELSE {}
        IN  /\ k \in keys
            /\ IF RouteEventIsLate(k, order)
               THEN CountLate(p, x, RawTally(t))
               ELSE CountUpdate(p, x, t, order, o, mask) /\ ledger' = AnnouncementLedger(k, d, t, o)
  BY DEF Announcement
<1> DEFINE order == OrderKey(t, late)
           o == AnnouncementOutcome(k, d, t)
           mask == IF o \in {"replacements", "sync_replacements"} THEN ChangeMask(routes[k].route, d) ELSE {}
<1>2. CASE RouteEventIsLate(k, order)
  <2>1. CountLate(p, x, RawTally(t))
    BY <1>1, <1>2
  <2> QED
    BY <2>1, CountLateMass
<1>3. CASE ~RouteEventIsLate(k, order)
  <2>1. k \in keys /\ CountUpdate(p, x, t, order, o, mask) /\ ledger' = AnnouncementLedger(k, d, t, o)
    BY <1>1, <1>3
  <2>2. t \in Nat /\ ledger \in Ledger
    BY TimeFacts DEF CounterInv, CounterTypes
  <2>3. o \in AnnouncementOutcomes
    BY DEF AnnouncementOutcome, AnnouncementOutcomes
  <2>4. mask \subseteq {"as_path", "origin_set", "attributes"}
    BY DEF ChangeMask
  <2> HIDE DEF o, mask, order
  <2>5. o \in Outcome \ {"effective_withdrawals", "sync_withdrawals"}
    BY <2>3 DEF AnnouncementOutcomes, Outcome, Ordinary, SyncOutcome, NoChange
  <2>6. Gives(ledger, ledger', 1 + One(o \in Ordinary \cup SyncOutcome))
    BY <2>1, <2>2, <2>5, AnnouncementLedgerGives
  <2>7. One(o \in AnnouncementOutcomes) = 1
    BY <2>3 DEF One
  <2> QED
    BY <2>1, <2>4, <2>5, <2>6, <2>7, CountUpdateMass
<1> QED
  BY <1>2, <1>3

LEMMA WithdrawalMass ==
  ASSUME CounterInv, MassInv, Inv, NEW p \in Peer, NEW x \in Prefix, Withdrawal(p, x)
  PROVE  MassInv'
<1> DEFINE k == <<p, x>>
<1>1. PICK t \in Times, late \in BOOLEAN :
        LET order == OrderKey(t, late)
            o == WithdrawalOutcome(k, t)
        IN  /\ k \in keys
            /\ IF RouteEventIsLate(k, order)
               THEN CountLate(p, x, RawTally(t))
               ELSE CountUpdate(p, x, t, order, o, {}) /\ ledger' = WithdrawalLedger(k, t, o)
  BY DEF Withdrawal
<1> DEFINE order == OrderKey(t, late)
           o == WithdrawalOutcome(k, t)
<1>2. CASE RouteEventIsLate(k, order)
  <2>1. CountLate(p, x, RawTally(t))
    BY <1>1, <1>2
  <2> QED
    BY <2>1, CountLateMass
<1>3. CASE ~RouteEventIsLate(k, order)
  <2>1. k \in keys /\ CountUpdate(p, x, t, order, o, {}) /\ ledger' = WithdrawalLedger(k, t, o)
    BY <1>1, <1>3
  <2>2. t \in Nat /\ ledger \in Ledger
    BY TimeFacts DEF CounterInv, CounterTypes
  <2>3. o \in NoChange \cup {"effective_withdrawals", "sync_withdrawals", "unscored_withdrawals"}
        /\ o \notin AnnouncementOutcomes /\ o \in Outcome
    BY DEF WithdrawalOutcome, AnnouncementOutcomes, Outcome, Ordinary, SyncOutcome, NoChange
  <2> HIDE DEF o, order
  <2>4. Gives(ledger, ledger', One(o \in Ordinary \cup SyncOutcome))
    BY <2>1, <2>2, <2>3, WithdrawalLedgerGives
  <2>5. One(o \in AnnouncementOutcomes) + One(o \in Ordinary \cup SyncOutcome)
          = One(o \in Ordinary \cup SyncOutcome)
    BY <2>3 DEF One
  <2> QED
    BY <2>1, <2>3, <2>4, <2>5, CountUpdateMass
<1> QED
  BY <1>2, <1>3

LEMMA HandleRibMass ==
  ASSUME CounterInv, MassInv, Inv, NEW k \in keys, NEW t \in Nat, NEW order, NEW position,
         HandleRib(k, t, order, position)
  PROVE  MassInv'
<1> DEFINE p == k[1]
           x == k[2]
<1>1. p \in Peer /\ x \in Prefix
  BY KeyFacts DEF Inv, TruthTypes
<1>2. CASE RouteEventIsLate(k, order)
  <2>1. CountLate(p, x, {"rib_elements"})
    BY <1>2 DEF HandleRib
  <2> QED
    BY <1>1, <2>1, CountLateMass
<1>3. CASE ~RouteEventIsLate(k, order)
  <2> DEFINE names == {"rib_baselines"} \cup IF routes[k].active /\ Scored(t) THEN {"late_rib_resyncs"} ELSE {}
             old == prefix_stats[x]
             c == Tally(old, names)
             all == {"rib_elements"} \cup CrossPrefix(p, order)
  <2>1. /\ total' = Tally(total, all)
        /\ prefix_stats' = [prefix_stats EXCEPT ![x] = c]
        /\ ledger' = CloseExposure(ledger, k, t)
    BY <1>3 DEF HandleRib
  <2>2. /\ total \in [TotalCounter -> Nat] /\ old \in [PrefixCounter -> Nat] /\ ledger \in Ledger
    BY <1>1 DEF CounterInv, CounterTypes
  <2>3. /\ \A i \in AnnouncementOutcomes : i \in names <=> i = "rib_baselines"
        /\ "rib_baselines" \notin AnnouncementOutcomes
        /\ "ordinary" \notin all /\ "session_induced" \notin all
    BY DEF AnnouncementOutcomes, CrossPrefix
  <2> HIDE DEF names, all, old
  <2>4. Changes' = Changes + 0
    BY <2>1, <2>2, <2>3, TotalFacts DEF One, Changes
  <2>5. c \in [PrefixCounter -> Nat] /\ AnnouncedOf(c) = AnnouncedOf(old) + 0
    <3>1. AnnouncedOf(c) = AnnouncedOf(old) + One("rib_baselines" \in AnnouncementOutcomes)
      BY <2>2, <2>3, AnnouncedTally
    <3> QED
      BY <2>2, <2>3, <3>1, TallyFacts DEF One
  <2>6. Gives(ledger, ledger', 0 + 0)
    BY <2>1, <2>2, CloseExposureGives
  <2> HIDE DEF c
  <2> QED
    BY <1>1, <2>1, <2>4, <2>5, <2>6, MassUpdate DEF old
<1> QED
  BY <1>2, <1>3

\* A session end gives the mass of the routes it makes inactive, and counts them.
LEMMA ResetPeerRoutesMass ==
  ASSUME CounterInv, MassInv, Inv, NEW p \in Peer, NEW t \in Times, NEW order, NEW names,
         ResetPeerRoutes(p, t, order, names)
  PROVE  MassInv'
<1> DEFINE affected == Cardinality(peers[p].active_route_ids)
           n == IF Scored(t) THEN affected ELSE 0
           one(x) == IF Scored(t) /\ <<p, x>> \in peers[p].active_route_ids THEN 1 ELSE 0
<1>1. /\ total' = Add(total, {"session_induced"}, n)
      /\ prefix_stats' = [x \in Prefix |-> Add(prefix_stats[x], {"session_reset_withdrawals"}, one(x))]
      /\ ledger' = ResetLedger(ledger, p, t)
  BY DEF ResetPeerRoutes, ResetCounters
<1>2. /\ total \in [TotalCounter -> Nat] /\ ledger \in Ledger /\ t \in Nat
      /\ prefix_stats \in [Prefix -> [PrefixCounter -> Nat]]
  BY TimeFacts DEF CounterInv, CounterTypes
<1>3. n \in Nat /\ \A x \in Prefix : one(x) \in Nat
  BY ResetPrefixesCount
<1>4. Gives(ledger, ledger', n)
  BY <1>1, <1>2, ResetLedgerGives
<1> HIDE DEF n, one
<1>5. Changes' = Changes + n
  <2>1. \A i \in TotalCounter :
          total[i] \in Nat /\ total'[i] = total[i] + IF i = "session_induced" THEN n ELSE 0
    BY <1>1, <1>2, <1>3, AddFacts
  <2>2. /\ total["ordinary"] \in Nat /\ total["session_induced"] \in Nat
        /\ total'["ordinary"] = total["ordinary"] /\ total'["session_induced"] = total["session_induced"] + n
    BY <2>1 DEF TotalCounter
  <2> QED
    BY <1>3, <2>2 DEF Changes
<1>6. ASSUME NEW x \in Prefix
      PROVE  AnnouncedOf(prefix_stats'[x]) = AnnouncedOf(prefix_stats[x])
  <2> DEFINE c == prefix_stats[x]
             d == prefix_stats'[x]
  <2>1. c \in [PrefixCounter -> Nat] /\ d = Add(c, {"session_reset_withdrawals"}, one(x))
    BY <1>1, <1>2
  <2> HIDE DEF c, d
  <2>2. /\ d \in [PrefixCounter -> Nat]
        /\ \A i \in PrefixCounter :
             c[i] \in Nat /\ d[i] = c[i] + IF i = "session_reset_withdrawals" THEN one(x) ELSE 0
    BY <1>3, <2>1, AddFacts
  <2>3. \A i \in AnnouncementOutcomes : i \in PrefixCounter /\ i # "session_reset_withdrawals"
    BY DEF AnnouncementOutcomes, PrefixCounter, Outcome, Ordinary, SyncOutcome, NoChange
  <2>4. \A i \in AnnouncementOutcomes : d[i] = c[i]
    BY <2>2, <2>3
  <2>5. AnnouncedOf(d) = AnnouncedOf(c)
    BY <2>1, <2>2, <2>4, AnnouncedSame
  <2> QED
    BY <2>5 DEF c, d
<1>7. Over(prefix_stats, Prefix, AnnouncedOf)' = Over(prefix_stats, Prefix, AnnouncedOf)
  <2>1. [x \in Prefix |-> AnnouncedOf(prefix_stats'[x])] = [x \in Prefix |-> AnnouncedOf(prefix_stats[x])]
    BY <1>6
  <2>2. Over(prefix_stats', Prefix, AnnouncedOf) = Over(prefix_stats, Prefix, AnnouncedOf)
    BY <2>1, Zenon DEF Over
  <2>3. Over(prefix_stats, Prefix, AnnouncedOf)' = Over(prefix_stats', Prefix, AnnouncedOf)
    BY DEF Over, AnnouncedOf, OrdinarySum, SyncSum
  <2> QED
    BY <2>2, <2>3
<1>8. Over(prefix_stats, Prefix, AnnouncedOf) \in Int /\ Changes \in Int
  <2>1. Over(prefix_stats, Prefix, AnnouncedOf) \in Int
    BY <1>2, AnnouncedSum
  <2>2. Changes \in Int
    BY <1>2 DEF Changes, TotalCounter
  <2> QED
    BY <2>1, <2>2
<1>9. Over(prefix_stats, Prefix, AnnouncedOf)' + Changes'
        = Over(prefix_stats, Prefix, AnnouncedOf) + Changes + n
  <2> DEFINE sum == Over(prefix_stats, Prefix, AnnouncedOf)
  <2>1. sum \in Int /\ sum' = sum
    BY <1>7, <1>8
  <2> HIDE DEF sum
  <2>2. sum' + Changes' = sum + Changes + n
    BY <1>3, <1>5, <1>8, <2>1
  <2> QED
    BY <2>2 DEF sum
<1> QED
  BY <1>3, <1>4, <1>9, MassStep

\* Nothing that the mass speaks of changes.
LEMMA QuietMass ==
  ASSUME MassInv, UNCHANGED <<prefix_stats, ledger>>,
         total'["ordinary"] = total["ordinary"], total'["session_induced"] = total["session_induced"]
  PROVE  MassInv'
BY DEF MassInv, Mass, OriginsAgree, Over, Given, AnnouncedOf, OrdinarySum, SyncSum, Changes

LEMMA InitMass == Init => MassInv
<1> SUFFICES ASSUME Init PROVE MassInv
  OBVIOUS
<1>1. /\ total = Zero(TotalCounter)
      /\ prefix_stats = [x \in Prefix |-> Zero(PrefixCounter)]
      /\ ledger = [mass |-> [a \in ASN |-> Zero(OriginCounter)], unknown |-> 0]
  BY DEF Init
<1>2. \A names : Zero(names) \in [names -> Nat] /\ \A i \in names : Zero(names)[i] = 0
  BY DEF Zero
<1>3. ASSUME NEW a \in ASN
      PROVE  /\ Given(ledger.mass[a]) = 0
             /\ ledger.mass[a]["ordinary"] = OrdinarySum(ledger.mass[a])
  <2> DEFINE c == ledger.mass[a]
  <2>1. \A i \in Ordinary \cup {"raw", "ordinary", "reset"} : c[i] = 0
    BY <1>1, <1>2 DEF OriginCounter
  <2> HIDE DEF c
  <2>2. Given(c) = 0 /\ c["ordinary"] = OrdinarySum(c)
    BY <2>1 DEF Given, OrdinarySum, Ordinary
  <2> QED
    BY <2>2 DEF c
<1>4. \A x \in Prefix : AnnouncedOf(prefix_stats[x]) = 0
  <2> SUFFICES ASSUME NEW x \in Prefix PROVE AnnouncedOf(prefix_stats[x]) = 0
    OBVIOUS
  <2> DEFINE c == prefix_stats[x]
  <2>1. c \in [PrefixCounter -> Nat] /\ \A i \in PrefixCounter : c[i] = 0
    BY <1>1, <1>2
  <2> HIDE DEF c
  <2>2. \A i \in AnnouncementOutcomes : c[i] = 0
    BY <2>1 DEF AnnouncementOutcomes, PrefixCounter, Outcome, Ordinary, SyncOutcome, NoChange
  <2>3. AnnouncedOf(c) = 0
    BY <2>1, <2>2, AnnouncedFacts DEF AnnouncementOutcomes
  <2> QED
    BY <2>3 DEF c
<1>5. \A S : IsFiniteSet(S) => SumOver([x \in S |-> 0], S) = 0
  <2> SUFFICES ASSUME NEW S, IsFiniteSet(S) PROVE SumOver([x \in S |-> 0], S) = 0
    OBVIOUS
  <2>1. [x \in S |-> IF x \in {} THEN 1 ELSE 0] = [x \in S |-> 0]
    OBVIOUS
  <2>2. SumOver([x \in S |-> IF x \in {} THEN 1 ELSE 0], S) = Cardinality({})
    BY SumCount
  <2> QED
    BY <2>1, <2>2, FS_EmptySet, Zenon
<1>6. Over(ledger.mass, ASN, Given) = 0 /\ Over(prefix_stats, Prefix, AnnouncedOf) = 0
  <2>1. /\ [a \in ASN |-> Given(ledger.mass[a])] = [a \in ASN |-> 0]
        /\ [x \in Prefix |-> AnnouncedOf(prefix_stats[x])] = [x \in Prefix |-> 0]
    BY <1>3, <1>4
  <2>2. SumOver([a \in ASN |-> 0], ASN) = 0 /\ SumOver([x \in Prefix |-> 0], Prefix) = 0
    BY <1>5, ChurnAssumption
  <2> QED
    BY <2>1, <2>2, Zenon DEF Over
<1>7. ledger.unknown = 0 /\ Changes = 0
  BY <1>1, <1>2 DEF Changes, TotalCounter
<1>8. Mass(ledger) = 0
  BY <1>6, <1>7, ChurnAssumption DEF Mass
<1>9. Whole * (0 + 0) = 0
  BY ChurnAssumption
<1>10. OriginsAgree(ledger)
  BY <1>3 DEF OriginsAgree
<1> QED
  BY <1>6, <1>7, <1>8, <1>9, <1>10, Zenon DEF MassInv

LEMMA NextMass == Inv /\ CounterInv /\ MassInv /\ [Next]_vars => MassInv'
<1> SUFFICES ASSUME Inv, CounterInv, MassInv, [Next]_vars PROVE MassInv'
  OBVIOUS
<1>1. CASE UNCHANGED vars
  BY <1>1, QuietMass DEF vars, stats
<1>2. CASE Message
  <2>1. PICK p \in PeersOf(keys) :
          \/ \E x \in Prefix :
               Withdrawal(p, x) \/ RibElement(p, x) \/ \E d \in Routes[<<p, x>>] : Announcement(p, x, d)
          \/ PeerDown(p) \/ PeerUp(p) \/ EndOfRib(p) \/ LateSessionMessage(p)
    BY <1>2 DEF Message
  <2>2. p \in Peer
    BY KeyFacts DEF Inv, TruthTypes
  <2>3. ASSUME NEW x \in Prefix, NEW d \in Routes[<<p, x>>], Announcement(p, x, d)
        PROVE  MassInv'
    <3>1. d \in Digest
      BY <2>2, ChurnAssumption
    <3> QED
      BY <2>2, <2>3, <3>1, AnnouncementMass
  <2>4. ASSUME NEW x \in Prefix, Withdrawal(p, x)
        PROVE  MassInv'
    BY <2>2, <2>4, WithdrawalMass
  <2>5. ASSUME NEW x \in Prefix, RibElement(p, x)
        PROVE  MassInv'
    <3>1. PICK t \in Times, late \in BOOLEAN, position \in RibPosition(<<p, x>>) :
            <<p, x>> \in keys /\ HandleRib(<<p, x>>, t, OrderKey(t, late), position)
      BY <2>5 DEF RibElement
    <3>2. t \in Nat
      BY TimeFacts
    <3> QED
      BY <3>1, <3>2, HandleRibMass
  <2>6. CASE PeerDown(p)
    <3>1. PICK t \in Times : ResetPeerRoutes(p, t, OrderKey(t, FALSE), {"downs"})
      BY <2>6 DEF PeerDown
    <3> QED
      BY <2>2, <3>1, ResetPeerRoutesMass
  <2>7. CASE PeerUp(p)
    <3>1. PICK t \in Times :
            \/ ResetPeerRoutes(p, t, OrderKey(t, FALSE), {"ups"})
            \/ UNCHANGED <<total, prefix_stats, ledger>>
      BY <2>7 DEF PeerUp
    <3> QED
      BY <2>2, <3>1, ResetPeerRoutesMass, QuietMass
  <2>8. CASE EndOfRib(p)
    <3>1. UNCHANGED <<total, prefix_stats, ledger>>
      BY <2>8 DEF EndOfRib
    <3> QED
      BY <3>1, QuietMass
  <2>9. CASE LateSessionMessage(p)
    <3>1. total' = Tally(total, {"peer_order_violations"}) /\ UNCHANGED <<prefix_stats, ledger>>
      BY <2>9 DEF LateSessionMessage
    <3>2. total \in [TotalCounter -> Nat]
      BY DEF CounterInv, CounterTypes
    <3>3. total'["ordinary"] = total["ordinary"] /\ total'["session_induced"] = total["session_induced"]
      BY <3>1, <3>2, TotalFacts DEF One
    <3> QED
      BY <3>1, <3>3, QuietMass
  <2> QED
    BY <2>1, <2>3, <2>4, <2>5, <2>6, <2>7, <2>8, <2>9
<1> QED
  BY <1>1, <1>2 DEF Next

\* No event mass is lost or made, whatever comes: every accepted announcement and
\* every change has given its mass to its origins or counts as unattributable, and
\* what an origin got is what its categories got (for_each_origin_share, the mark_*
\* functions, credit_origin_replacement).
THEOREM EventMassIsKept == Spec => []MassIsConserved
<1>1. CounterInv /\ MassInv => MassIsConserved
  <2> SUFFICES ASSUME CounterInv, MassInv PROVE MassIsConserved
    OBVIOUS
  <2> DEFINE sum == Over(prefix_stats, Prefix, AnnouncedOf)
  <2>1. sum \in Int /\ total["ordinary"] \in Int /\ total["session_induced"] \in Int
    <3>1. prefix_stats \in [Prefix -> [PrefixCounter -> Nat]]
          /\ total["ordinary"] \in Int /\ total["session_induced"] \in Int
      BY DEF CounterInv, CounterTypes, TotalCounter
    <3> QED
      BY <3>1, AnnouncedSum
  <2>2. sum + Changes = sum + total["ordinary"] + total["session_induced"]
    <3> HIDE DEF sum
    <3> QED
      BY <2>1 DEF Changes
  <2>3. Mass(ledger) = Whole * (sum + total["ordinary"] + total["session_induced"])
    BY <2>2 DEF MassInv
  <2>4. OriginsAgree(ledger)
    BY DEF MassInv
  <2> QED
    BY <2>3, <2>4, Zenon DEF MassIsConserved, Mass, OriginsAgree, Over, Given, AnnouncedOf
<1> QED
  BY <1>1, Invariant, CountersInvariant, InitMass, NextMass, PTL DEF Spec

-----------------------------------------------------------------------------
(* Route time.                                                             *)

\* The share of origin a in the time that the route of k is held from start to t.
Share(k, a, start, t) ==
  IF routes[k].active /\ a \in routes[k].route.origin_set
  THEN (Whole * AnalysisTime(start, t)) \div Cardinality(routes[k].route.origin_set) ELSE 0
OpenShare(k, a, t) == Share(k, a, routes[k].active_since, t)

ExposureInv ==
  /\ exposed \in [ASN -> Int]
  /\ \A k \in keys : routes[k].active => routes[k].active_since <= Later(now, options.warmup)
  /\ \A a \in ASN : exposed[a] = ledger.mass[a]["seconds"] +
                      SumOver([k \in keys |-> OpenShare(k, a, now)], keys)

LEMMA Intervals ==
  ASSUME options.warmup \in Nat
  PROVE  /\ \A s, t \in Nat : AnalysisTime(s, t) \in Nat
         /\ \A s, n, t \in Nat : s <= Later(n, options.warmup) /\ n <= t =>
              AnalysisTime(s, t) = AnalysisTime(s, n) + AnalysisTime(n, t)
         /\ \A t \in Nat : AnalysisTime(Later(t, options.warmup), t) = 0
BY DEF AnalysisTime, Elapsed, Later

LEMMA ShareFacts ==
  ASSUME Inv, NEW k \in keys, NEW a
  PROVE  /\ \A s, t \in Nat : Share(k, a, s, t) \in Nat
         /\ \A s, n, t \in Nat : s <= Later(n, options.warmup) /\ n <= t =>
              Share(k, a, s, t) = Share(k, a, s, n) + Share(k, a, n, t)
         /\ \A t \in Nat : Share(k, a, Later(t, options.warmup), t) = 0
<1> DEFINE origins == routes[k].route.origin_set
           unit == Whole \div Cardinality(origins)
<1>1. options.warmup \in Nat
  BY TimeFacts DEF Inv, TruthTypes
<1>2. CASE ~routes[k].active \/ a \notin origins
  BY <1>2 DEF Share
<1>3. CASE routes[k].active /\ a \in origins
  <2>1. /\ unit \in Nat
        /\ \A e \in Nat : (Whole * e) \div Cardinality(origins) = unit * e
    BY <1>3, RouteIsDigest, Shares
  <2> HIDE DEF unit
  <2>2. \A s, t \in Nat : Share(k, a, s, t) = unit * AnalysisTime(s, t)
    BY <1>1, <1>3, <2>1, Intervals DEF Share
  <2>3. \A s, t \in Nat : Share(k, a, s, t) \in Nat
    <3>1. \A e \in Nat : unit * e \in Nat
      BY <2>1
    <3>2. \A s, t \in Nat : AnalysisTime(s, t) \in Nat
      BY <1>1, Intervals
    <3>3. \A s, t \in Nat : unit * AnalysisTime(s, t) \in Nat
      BY <3>1, <3>2
    <3> QED
      BY <2>2, <3>3
  <2>4. ASSUME NEW s \in Nat, NEW n \in Nat, NEW t \in Nat, s <= Later(n, options.warmup), n <= t
        PROVE  Share(k, a, s, t) = Share(k, a, s, n) + Share(k, a, n, t)
    <3> DEFINE e1 == AnalysisTime(s, n)
               e2 == AnalysisTime(n, t)
    <3>1. AnalysisTime(s, t) = e1 + e2 /\ e1 \in Nat /\ e2 \in Nat
      BY <1>1, <2>4, Intervals
    <3>2. Share(k, a, s, n) = unit * e1 /\ Share(k, a, n, t) = unit * e2
      BY <2>2
    <3>3. Share(k, a, s, t) = unit * (e1 + e2)
      BY <2>2, <3>1
    <3> HIDE DEF e1, e2
    <3> QED
      BY <2>1, <3>1, <3>2, <3>3, Distribute
  <2>5. ASSUME NEW t \in Nat PROVE Share(k, a, Later(t, options.warmup), t) = 0
    <3>1. Later(t, options.warmup) \in Nat
      BY <1>1 DEF Later
    <3>2. Share(k, a, Later(t, options.warmup), t) = unit * 0
      BY <1>1, <2>2, <3>1, Intervals
    <3> QED
      BY <2>1, <3>2
  <2> QED
    BY <2>3, <2>4, <2>5
<1> QED
  BY <1>2, <1>3

LEMMA NewIntervals ==
  Inv => \A j \in keys : \A b \in ASN : \A s \in Nat : Share(j, b, Later(s, options.warmup), s) = 0
BY ShareFacts

LEMMA OpenShareType ==
  ASSUME Inv, NEW k \in keys, NEW a, NEW t \in Nat
  PROVE  OpenShare(k, a, t) \in Nat
<1>1. routes[k].active_since \in Nat
  BY RouteOrigins
<1> QED
  BY <1>1, ShareFacts DEF OpenShare

LEMMA TimesOfState ==
  ASSUME Inv
  PROVE  now \in Nat /\ options.warmup \in Nat /\ IsFiniteSet(keys)
<1>1. keys \in SUBSET keys
  OBVIOUS
<1> QED
  BY <1>1, TimeFacts, FiniteKeys DEF Inv, TruthTypes

\* A message comes: the time of what is held has passed.
LEMMA TimePasses ==
  ASSUME Inv, CounterInv, ExposureInv, NEW p, NEW t \in Times, NEW o, Receive(p, t, o)
  PROVE  /\ exposed' \in [ASN -> Int]
         /\ \A a \in ASN : exposed'[a] = ledger.mass[a]["seconds"] +
                             SumOver([k \in keys |-> OpenShare(k, a, t)], keys)
<1>1. t \in Nat /\ now \in Nat /\ now <= t /\ IsFiniteSet(keys) /\ options.warmup \in Nat
  BY TimeFacts, TimesOfState DEF Receive
<1>2. exposed' = [a \in ASN |-> exposed[a] +
                    SumOver([k \in keys |-> Share(k, a, now, t)], keys)]
  BY DEF Receive, Share, OpenRoutes
<1>3. ASSUME NEW a \in ASN
      PROVE  /\ exposed'[a] \in Int
             /\ exposed'[a] = ledger.mass[a]["seconds"] + SumOver([k \in keys |-> OpenShare(k, a, t)], keys)
  <2> DEFINE F == [k \in keys |-> OpenShare(k, a, now)]
             G == [k \in keys |-> Share(k, a, now, t)]
             H == [k \in keys |-> OpenShare(k, a, t)]
  <2>1. F \in [keys -> Int] /\ G \in [keys -> Int] /\ H \in [keys -> Int]
    <3>1. \A k \in keys : OpenShare(k, a, now) \in Int /\ OpenShare(k, a, t) \in Int
                          /\ Share(k, a, now, t) \in Int
      BY <1>1, OpenShareType, ShareFacts
    <3> QED
      BY <3>1
  <2>2. \A k \in keys : H[k] = F[k] + G[k]
    <3> SUFFICES ASSUME NEW k \in keys
                 PROVE  OpenShare(k, a, t) = OpenShare(k, a, now) + Share(k, a, now, t)
      OBVIOUS
    <3>1. CASE routes[k].active
      <4>1. routes[k].active_since \in Nat /\ routes[k].active_since <= Later(now, options.warmup)
        BY <3>1, RouteOrigins DEF ExposureInv
      <4> QED
        BY <1>1, <4>1, ShareFacts DEF OpenShare
    <3>2. CASE ~routes[k].active
      BY <3>2 DEF OpenShare, Share
    <3> QED
      BY <3>1, <3>2
  <2>3. exposed'[a] = exposed[a] + SumOver(G, keys)
    BY <1>2
  <2>4. exposed[a] = ledger.mass[a]["seconds"] + SumOver(F, keys)
    BY DEF ExposureInv
  <2> HIDE DEF F, G, H
  <2>5. SumOver(H, keys) = SumOver(F, keys) + SumOver(G, keys)
    BY <1>1, <2>1, <2>2, SumPlus
  <2>6. SumOver(F, keys) \in Int /\ SumOver(G, keys) \in Int
    BY <1>1, <2>1, SumType
  <2>7. ledger.mass[a]["seconds"] \in Nat
    BY DEF CounterInv, CounterTypes, Ledger, OriginCounter
  <2>8. exposed'[a] \in Int /\ exposed'[a] = ledger.mass[a]["seconds"] + SumOver(H, keys)
    BY <2>3, <2>4, <2>5, <2>6, <2>7
  <2> QED
    BY <2>8 DEF H
<1>4. exposed' \in [ASN -> Int]
  BY <1>2, <1>3
<1> QED
  BY <1>3, <1>4

\* A step at time t adds to the ledger what the routes of the keys in T had to come;
\* the routes it stores for them begin at t, or at the end of the warm-up.
Closes(T, t) ==
  /\ \A a \in ASN : ledger'.mass[a]["seconds"] = ledger.mass[a]["seconds"] +
                      SumOver([k \in keys |-> IF k \in T THEN OpenShare(k, a, t) ELSE 0], keys)
  /\ \A k \in keys :
       \/ k \in T /\ (routes'[k].active => routes'[k].active_since = Later(t, options.warmup))
       \/ /\ k \notin T
          /\ routes'[k].active = routes[k].active /\ routes'[k].route = routes[k].route
          /\ routes'[k].active_since = routes[k].active_since

LEMMA ExposureStep ==
  ASSUME Inv, Inv', CounterInv, CounterInv', ExposureInv, UNCHANGED setup,
         NEW p, NEW t \in Times, NEW o, Receive(p, t, o), NEW T, Closes(T, t)
  PROVE  ExposureInv'
<1>1. /\ t \in Nat /\ now \in Nat /\ now <= t /\ now' = t /\ IsFiniteSet(keys)
      /\ options.warmup \in Nat /\ options' = options /\ keys' = keys
  BY TimeFacts, TimesOfState DEF Receive, setup
<1>2. ASSUME NEW k \in keys, routes'[k].active
      PROVE  routes'[k].active_since <= Later(t, options.warmup)
  <2>1. Later(t, options.warmup) \in Nat
    BY <1>1 DEF Later
  <2>2. CASE k \in T
    BY <1>2, <2>1, <2>2 DEF Closes
  <2>3. CASE k \notin T
    <3>1. routes'[k].active_since = routes[k].active_since /\ routes[k].active
      BY <1>2, <2>3 DEF Closes
    <3>2. routes[k].active_since \in Nat /\ routes[k].active_since <= Later(now, options.warmup)
      BY <3>1, RouteOrigins DEF ExposureInv
    <3> QED
      BY <1>1, <3>1, <3>2 DEF Later
  <2> QED
    BY <2>2, <2>3
<1>3. ASSUME NEW k \in keys, NEW a \in ASN
      PROVE  /\ OpenShare(k, a, now)' \in Nat
             /\ OpenShare(k, a, now)' = IF k \in T THEN 0 ELSE OpenShare(k, a, t)
  <2>1. CASE k \notin T
    <3>1. OpenShare(k, a, now)' = OpenShare(k, a, t)
      BY <1>1, <2>1 DEF Closes, OpenShare, Share, AnalysisTime
    <3> QED
      BY <1>1, <2>1, <3>1, OpenShareType
  <2>2. CASE k \in T
    <3>1. (Share(k, a, Later(now, options.warmup), now) = 0)'
      <4>1. (Inv => \A j \in keys : \A b \in ASN : \A s \in Nat : Share(j, b, Later(s, options.warmup), s) = 0)'
        BY NewIntervals, PTL
      <4> QED
        BY <1>1, <4>1
    <3>2. OpenShare(k, a, now)' = 0
      <4>1. CASE routes'[k].active
        <5>1. routes'[k].active_since = Later(t, options.warmup)
          BY <2>2, <4>1 DEF Closes
        <5>2. OpenShare(k, a, now)' = Share(k, a, Later(now, options.warmup), now)'
          BY <1>1, <5>1 DEF OpenShare, Share, AnalysisTime, Later
        <5> QED
          BY <3>1, <5>2
      <4>2. CASE ~routes'[k].active
        BY <4>2 DEF OpenShare, Share
      <4> QED
        BY <4>1, <4>2
    <3> QED
      BY <2>2, <3>2
  <2> QED
    BY <2>1, <2>2
<1>4. ASSUME NEW a \in ASN
      PROVE  exposed'[a] = ledger'.mass[a]["seconds"] + SumOver([k \in keys |-> OpenShare(k, a, now)'], keys)
  <2> DEFINE F == [k \in keys |-> IF k \in T THEN OpenShare(k, a, t) ELSE 0]
             G == [k \in keys |-> OpenShare(k, a, now)']
             H == [k \in keys |-> OpenShare(k, a, t)]
  <2>1. F \in [keys -> Int] /\ G \in [keys -> Int] /\ H \in [keys -> Int]
    <3>1. \A k \in keys : OpenShare(k, a, t) \in Int /\ OpenShare(k, a, now)' \in Int
      BY <1>1, <1>3, OpenShareType
    <3> QED
      BY <3>1
  <2>2. \A k \in keys : H[k] = F[k] + G[k]
    BY <1>1, <1>3, OpenShareType
  <2>3. ledger'.mass[a]["seconds"] = ledger.mass[a]["seconds"] + SumOver(F, keys)
    BY DEF Closes
  <2>4. exposed'[a] = ledger.mass[a]["seconds"] + SumOver(H, keys)
    BY TimePasses
  <2> HIDE DEF F, G, H
  <2>5. SumOver(H, keys) = SumOver(F, keys) + SumOver(G, keys)
    BY <1>1, <2>1, <2>2, SumPlus
  <2>6. SumOver(F, keys) \in Int /\ SumOver(G, keys) \in Int
    BY <1>1, <2>1, SumType
  <2>7. ledger.mass[a]["seconds"] \in Nat
    BY DEF CounterInv, CounterTypes, Ledger, OriginCounter
  <2>8. exposed'[a] = ledger'.mass[a]["seconds"] + SumOver(G, keys)
    BY <2>3, <2>4, <2>5, <2>6, <2>7
  <2> QED
    BY <2>8 DEF G
<1>5. exposed' \in [ASN -> Int]
  BY TimePasses
<1>6. \A a \in ASN : SumOver([k \in keys |-> OpenShare(k, a, now)], keys)'
                       = SumOver([k \in keys |-> OpenShare(k, a, now)'], keys)
  BY <1>1
<1>7. \A k \in keys' : routes'[k].active => routes'[k].active_since <= Later(now, options.warmup)'
  BY <1>1, <1>2 DEF Later
<1> QED
  BY <1>4, <1>5, <1>6, <1>7 DEF ExposureInv

-----------------------------------------------------------------------------
(* The route time in the ledger.                                           *)

Keeps(l, r) == r \in Ledger /\ \A a \in ASN : r.mass[a]["seconds"] = l.mass[a]["seconds"]

LEMMA CreditKeeps ==
  ASSUME NEW l \in Ledger, NEW origins \in SUBSET ASN, NEW mass \in Nat, NEW names,
         \A a \in origins : "seconds" \notin names[a]
  PROVE  Keeps(l, CreditNamed(l, origins, mass, names))
<1> DEFINE r == CreditNamed(l, origins, mass, names)
           share == mass \div Cardinality(origins)
<1>1. r \in Ledger
  BY CreditNamedType
<1>2. CASE origins = {}
  <2>1. r.mass = l.mass
    BY <1>2 DEF CreditNamed, CreditEach, Ledger
  <2> HIDE DEF r
  <2> QED
    BY <1>1, <2>1 DEF Keeps, r
<1>3. CASE origins # {}
  <2>1. share \in Nat
    BY <1>3, ShareType
  <2>2. r = [l EXCEPT !.mass = [a \in ASN |->
               IF a \in origins THEN Add(l.mass[a], names[a], share) ELSE l.mass[a]]]
    BY <1>3 DEF CreditNamed, CreditEach
  <2> HIDE DEF r, share
  <2>3. \A a \in ASN : /\ l.mass[a] \in [OriginCounter -> Nat]
                       /\ r.mass[a] = IF a \in origins THEN Add(l.mass[a], names[a], share) ELSE l.mass[a]
    BY <2>2 DEF Ledger
  <2>4. ASSUME NEW a \in ASN PROVE r.mass[a]["seconds"] = l.mass[a]["seconds"]
    <3>1. CASE a \in origins
      <4> DEFINE c == l.mass[a]
      <4>1. c \in [OriginCounter -> Nat] /\ r.mass[a] = Add(c, names[a], share) /\ "seconds" \notin names[a]
        BY <2>3, <3>1
      <4> HIDE DEF c
      <4>2. \A i \in OriginCounter : c[i] \in Nat /\ Add(c, names[a], share)[i] = c[i] + IF i \in names[a] THEN share ELSE 0
        BY <2>1, <4>1, AddFacts
      <4>3. "seconds" \in OriginCounter
        BY DEF OriginCounter
      <4> QED
        BY <4>1, <4>2, <4>3 DEF c
    <3>2. CASE a \notin origins
      BY <2>3, <3>2
    <3> QED
      BY <3>1, <3>2
  <2> QED
    BY <1>1, <2>4 DEF Keeps, r
<1> QED
  BY <1>2, <1>3

LEMMA KeepsBoth ==
  ASSUME NEW l, NEW q, NEW r, Keeps(l, q), Keeps(q, r)
  PROVE  Keeps(l, r)
BY DEF Keeps

LEMMA PlainCreditKeeps ==
  ASSUME NEW l \in Ledger, NEW origins \in SUBSET ASN, NEW mass \in Nat, NEW names, "seconds" \notin names
  PROVE  Keeps(l, Credit(l, origins, mass, names))
<1> DEFINE each == [a \in origins |-> names]
<1>1. \A a \in origins : "seconds" \notin each[a]
  OBVIOUS
<1>2. Credit(l, origins, mass, names) = CreditNamed(l, origins, mass, each)
  BY CreditIsNamed
<1> HIDE DEF each
<1> QED
  BY <1>1, <1>2, CreditKeeps

LEMMA CreditReplacementKeeps ==
  ASSUME NEW l \in Ledger, NEW old \in Digest \cup {NoDigest}, NEW new \in Digest \cup {NoDigest}, NEW mask
  PROVE  Keeps(l, CreditReplacement(l, old, new, mask))
<1> DEFINE names(others, direction) ==
             [a \in ASN |-> {"ordinary", "replacements"} \cup (mask \cap {"as_path", "attributes"}) \cup
                            IF a \in others THEN {} ELSE {direction}]
           side(x, origins, others, mass, direction) ==
             CreditEach(x, origins, mass, LAMBDA a :
               {"ordinary", "replacements"} \cup (mask \cap {"as_path", "attributes"}) \cup
               IF a \in others THEN {} ELSE {direction})
           r == CreditReplacement(l, old, new, mask)
<1>1. /\ old.origin_set \in SUBSET ASN /\ new.origin_set \in SUBSET ASN
      /\ Whole \in Nat /\ Whole \div 2 \in Nat
  BY ChurnAssumption DEF NoDigest
<1>2. ASSUME NEW x \in Ledger, NEW origins \in SUBSET ASN, NEW others, NEW mass \in Nat,
             NEW direction \in {"origin_in", "origin_out"}
      PROVE  Keeps(x, side(x, origins, others, mass, direction))
  <2> DEFINE n == names(others, direction)
  <2>1. side(x, origins, others, mass, direction) = CreditNamed(x, origins, mass, n)
    BY DEF CreditNamed, CreditEach
  <2>2. \A a \in ASN : "seconds" \notin n[a]
    OBVIOUS
  <2>3. \A a \in origins : "seconds" \notin n[a]
    BY <2>2
  <2> HIDE DEF n, side
  <2> QED
    BY <2>1, <2>3, CreditKeeps
<1>3. r = SplitReplacement(l, old.origin_set, new.origin_set, side)
  BY DEF CreditReplacement
<1> HIDE DEF side, r, names
<1>4. \/ r = side(l, new.origin_set, old.origin_set, Whole, "origin_in")
      \/ r = side(l, old.origin_set, new.origin_set, Whole, "origin_out")
      \/ r = side(side(l, old.origin_set, new.origin_set, Whole \div 2, "origin_out"),
                  new.origin_set, old.origin_set, Whole \div 2, "origin_in")
  BY <1>3 DEF SplitReplacement
<1> DEFINE q == side(l, old.origin_set, new.origin_set, Whole \div 2, "origin_out")
<1>5. Keeps(l, q) /\ q \in Ledger
  <2>1. Keeps(l, q)
    BY <1>1, <1>2
  <2> HIDE DEF q
  <2> QED
    BY <2>1 DEF Keeps
<1> HIDE DEF q
<1>6. Keeps(q, side(q, new.origin_set, old.origin_set, Whole \div 2, "origin_in"))
  BY <1>1, <1>2, <1>5
<1>7. Keeps(l, side(q, new.origin_set, old.origin_set, Whole \div 2, "origin_in"))
  BY <1>5, <1>6, KeepsBoth
<1>8. Keeps(l, r)
  BY <1>1, <1>2, <1>4, <1>7 DEF q
<1> QED
  BY <1>8 DEF r

LEMMA CreditSyncReplacementKeeps ==
  ASSUME NEW l \in Ledger, NEW old \in Digest \cup {NoDigest}, NEW new \in Digest \cup {NoDigest}
  PROVE  Keeps(l, CreditSyncReplacement(l, old, new))
<1> DEFINE side(x, origins, others, mass, direction) == Credit(x, origins, mass, {"reset"})
           r == CreditSyncReplacement(l, old, new)
<1>1. /\ old.origin_set \in SUBSET ASN /\ new.origin_set \in SUBSET ASN
      /\ Whole \in Nat /\ Whole \div 2 \in Nat
  BY ChurnAssumption DEF NoDigest
<1>2. ASSUME NEW x \in Ledger, NEW origins \in SUBSET ASN, NEW others, NEW mass \in Nat, NEW direction
      PROVE  Keeps(x, side(x, origins, others, mass, direction))
  BY PlainCreditKeeps
<1>3. r = SplitReplacement(l, old.origin_set, new.origin_set, side)
  BY DEF CreditSyncReplacement
<1> HIDE DEF side, r
<1>4. \/ r = side(l, new.origin_set, old.origin_set, Whole, "origin_in")
      \/ r = side(l, old.origin_set, new.origin_set, Whole, "origin_out")
      \/ r = side(side(l, old.origin_set, new.origin_set, Whole \div 2, "origin_out"),
                  new.origin_set, old.origin_set, Whole \div 2, "origin_in")
  BY <1>3 DEF SplitReplacement
<1> DEFINE q == side(l, old.origin_set, new.origin_set, Whole \div 2, "origin_out")
<1>5. Keeps(l, q) /\ q \in Ledger
  BY <1>1, <1>2 DEF Keeps
<1> HIDE DEF q
<1>6. Keeps(q, side(q, new.origin_set, old.origin_set, Whole \div 2, "origin_in"))
  BY <1>1, <1>2, <1>5
<1>7. Keeps(l, side(q, new.origin_set, old.origin_set, Whole \div 2, "origin_in"))
  BY <1>5, <1>6, KeepsBoth
<1>8. Keeps(l, r)
  BY <1>1, <1>2, <1>4, <1>7 DEF q
<1> QED
  BY <1>8 DEF r

\* r has what the route of k had to come at t.
ClosesOne(l, r, k, t) ==
  r \in Ledger /\ \A a \in ASN : r.mass[a]["seconds"] = l.mass[a]["seconds"] + OpenShare(k, a, t)

LEMMA CloseExposureCloses ==
  ASSUME Inv, NEW l \in Ledger, NEW k \in keys, NEW t \in Nat
  PROVE  ClosesOne(l, CloseExposure(l, k, t), k, t)
<1> DEFINE r == CloseExposure(l, k, t)
           origins == routes[k].route.origin_set
           elapsed == AnalysisTime(routes[k].active_since, t)
           share == (Whole * elapsed) \div Cardinality(origins)
<1>1. r \in Ledger
  BY CloseExposureType
<1>2. \A a \in ASN : OpenShare(k, a, t) = IF routes[k].active /\ a \in origins THEN share ELSE 0
  BY DEF OpenShare, Share
<1>3. \A a \in ASN : l.mass[a] \in [OriginCounter -> Nat]
  BY DEF Ledger
<1>4. "seconds" \in OriginCounter
  BY DEF OriginCounter
<1>5. CASE ~routes[k].active \/ origins = {} \/ elapsed = 0
  <2>1. r = l
    BY <1>5 DEF CloseExposure
  <2>2. \A a \in ASN : OpenShare(k, a, t) = 0
    <3>1. CASE ~routes[k].active \/ origins = {}
      BY <1>2, <3>1
    <3>2. CASE origins # {} /\ elapsed = 0
      <4>1. /\ Whole \div Cardinality(origins) \in Nat
            /\ \A e \in Nat : (Whole * e) \div Cardinality(origins) = (Whole \div Cardinality(origins)) * e
        BY <3>2, RouteIsDigest, Shares
      <4>2. share = (Whole \div Cardinality(origins)) * 0
        BY <3>2, <4>1
      <4>3. share = 0
        <5> DEFINE unit == Whole \div Cardinality(origins)
        <5>1. unit \in Nat /\ share = unit * 0
          BY <4>1, <4>2
        <5> HIDE DEF unit, share
        <5> QED
          BY <5>1
      <4> HIDE DEF share
      <4> QED
        BY <1>2, <4>3
    <3> QED
      BY <1>5, <3>1, <3>2
  <2> HIDE DEF r
  <2> QED
    BY <1>3, <1>4, <2>1, <2>2 DEF ClosesOne, r
<1>6. CASE routes[k].active /\ origins # {} /\ elapsed # 0
  <2>1. r = Credit(l, origins, Whole * elapsed, {"seconds"})
    BY <1>6 DEF CloseExposure
  <2>2. r = [l EXCEPT !.mass = [a \in ASN |->
               IF a \in origins THEN Add(l.mass[a], {"seconds"}, share) ELSE l.mass[a]]]
    BY <1>6, <2>1 DEF Credit, CreditEach
  <2> HIDE DEF r
  <2>3. \A a \in ASN : r.mass[a] = IF a \in origins THEN Add(l.mass[a], {"seconds"}, share) ELSE l.mass[a]
    <3> HIDE DEF share, origins
    <3> QED
      BY <2>2 DEF Ledger
  <2>4. ASSUME NEW a \in ASN PROVE r.mass[a]["seconds"] = l.mass[a]["seconds"] + OpenShare(k, a, t)
    <3>1. CASE a \in origins
      <4>1. OpenShare(k, a, t) = share
        BY <1>2, <1>6, <3>1
      <4>2. Add(l.mass[a], {"seconds"}, share)["seconds"] = l.mass[a]["seconds"] + share
        <5> HIDE DEF share
        <5> QED
          BY <1>3, <1>4 DEF Add
      <4> HIDE DEF share
      <4> QED
        BY <2>3, <3>1, <4>1, <4>2
    <3>2. CASE a \notin origins
      <4>1. OpenShare(k, a, t) = 0 /\ r.mass[a] = l.mass[a]
        BY <1>2, <2>3, <3>2
      <4> QED
        BY <1>3, <1>4, <4>1
    <3> QED
      BY <3>1, <3>2
  <2> QED
    BY <1>1, <2>4 DEF ClosesOne, r
<1> QED
  BY <1>5, <1>6

LEMMA ClosesThenKeeps ==
  ASSUME NEW l, NEW q, NEW r, NEW k, NEW t, ClosesOne(l, q, k, t), Keeps(q, r)
  PROVE  ClosesOne(l, r, k, t)
BY DEF ClosesOne, Keeps

LEMMA KeepsThenCloses ==
  ASSUME NEW l, NEW q, NEW r, NEW k, NEW t, Keeps(l, q), ClosesOne(q, r, k, t)
  PROVE  ClosesOne(l, r, k, t)
BY DEF ClosesOne, Keeps

LEMMA KeepsItself ==
  ASSUME NEW l \in Ledger
  PROVE  Keeps(l, l)
BY DEF Keeps

LEMMA AnnouncementLedgerCloses ==
  ASSUME Inv, ledger \in Ledger, NEW k \in keys, NEW d \in Digest, NEW t \in Nat,
         NEW o \in AnnouncementOutcomes
  PROVE  IF o = "duplicate_announcements" THEN Keeps(ledger, AnnouncementLedger(k, d, t, o))
         ELSE ClosesOne(ledger, AnnouncementLedger(k, d, t, o), k, t)
<1> DEFINE raw == CreditRaw(ledger, d, Scored(t))
           closed == IF o = "duplicate_announcements" THEN raw ELSE CloseExposure(raw, k, t)
           old == routes[k].route
           r == AnnouncementLedger(k, d, t, o)
<1>1. old \in Digest \cup {NoDigest} /\ d.origin_set \in SUBSET ASN /\ Whole \in Nat
  BY RouteIsDigest, ChurnAssumption
<1>2. Keeps(ledger, raw)
  <2> DEFINE n == {"raw"} \cup IF Scored(t) THEN {"raw_scored"} ELSE {}
  <2>1. "seconds" \notin n
    OBVIOUS
  <2> HIDE DEF n
  <2>2. Keeps(ledger, Credit(ledger, d.origin_set, Whole, n))
    BY <1>1, <2>1, PlainCreditKeeps
  <2> QED
    BY <2>2 DEF CreditRaw, n
<1> HIDE DEF raw
<1>3. raw \in Ledger
  BY <1>2 DEF Keeps
<1>4. CASE o = "duplicate_announcements"
  <2>1. r = raw
    BY <1>4 DEF AnnouncementLedger, raw
  <2> HIDE DEF r
  <2> QED
    BY <1>2, <1>4, <2>1 DEF r
<1>5. CASE o # "duplicate_announcements"
  <2>1. closed = CloseExposure(raw, k, t)
    BY <1>5
  <2>2. ClosesOne(raw, closed, k, t)
    BY <1>3, <2>1, CloseExposureCloses
  <2>3. ClosesOne(ledger, closed, k, t)
    <3> HIDE DEF closed
    <3> QED
      BY <1>2, <2>2, KeepsThenCloses
  <2>4. closed \in Ledger
    BY <2>2 DEF ClosesOne
  <2>5. Keeps(closed, r)
    <3>1. CASE o \in {"new_routes", "reannouncements"}
      <4>1. r = Credit(closed, d.origin_set, Whole, {"ordinary", o}) /\ "seconds" \notin {"ordinary", o}
        BY <3>1 DEF AnnouncementLedger, closed, raw
      <4> HIDE DEF r, closed
      <4> QED
        BY <1>1, <2>4, <4>1, PlainCreditKeeps
    <3>2. CASE o = "sync_announcements"
      <4>1. r = Credit(closed, d.origin_set, Whole, {"reset"}) /\ "seconds" \notin {"reset"}
        BY <3>2 DEF AnnouncementLedger, closed, raw
      <4> HIDE DEF r, closed
      <4> QED
        BY <1>1, <2>4, <4>1, PlainCreditKeeps
    <3>3. CASE o = "replacements"
      <4>1. r = CreditReplacement(closed, old, d, ChangeMask(old, d))
        BY <3>3 DEF AnnouncementLedger, closed, raw
      <4> HIDE DEF r, closed, old
      <4> QED
        BY <1>1, <2>4, <4>1, CreditReplacementKeeps
    <3>4. CASE o = "sync_replacements"
      <4>1. r = CreditSyncReplacement(closed, old, d)
        BY <3>4 DEF AnnouncementLedger, closed, raw
      <4> HIDE DEF r, closed, old
      <4> QED
        BY <1>1, <2>4, <4>1, CreditSyncReplacementKeeps
    <3>5. CASE o \in {"cold_starts", "unscored_announcements"}
      <4>1. r = closed
        BY <3>5 DEF AnnouncementLedger, closed, raw
      <4> HIDE DEF r, closed
      <4> QED
        BY <2>4, <4>1, KeepsItself
    <3> QED
      BY <1>5, <3>1, <3>2, <3>3, <3>4, <3>5 DEF AnnouncementOutcomes
  <2> HIDE DEF closed, r
  <2>6. ClosesOne(ledger, r, k, t)
    BY <2>3, <2>5, ClosesThenKeeps
  <2> QED
    BY <1>5, <2>6 DEF r
<1> QED
  BY <1>4, <1>5

LEMMA WithdrawalLedgerCloses ==
  ASSUME Inv, ledger \in Ledger, NEW k \in keys, NEW t \in Nat, NEW o
  PROVE  ClosesOne(ledger, WithdrawalLedger(k, t, o), k, t)
<1> DEFINE closed == CloseExposure(ledger, k, t)
           origins == routes[k].route.origin_set
           r == WithdrawalLedger(k, t, o)
<1>1. ClosesOne(ledger, closed, k, t)
  BY CloseExposureCloses
<1>2. origins \in SUBSET ASN /\ Whole \in Nat
  BY RouteOrigins, ChurnAssumption
<1> HIDE DEF closed, origins
<1>3. closed \in Ledger
  BY <1>1 DEF ClosesOne
<1>4. Keeps(closed, r)
  <2>1. CASE o = "sync_withdrawals"
    <3>1. r = Credit(closed, origins, Whole, {"reset"}) /\ "seconds" \notin {"reset"}
      BY <2>1 DEF WithdrawalLedger, closed, origins
    <3> HIDE DEF r
    <3> QED
      BY <1>2, <1>3, <3>1, PlainCreditKeeps
  <2>2. CASE o = "effective_withdrawals"
    <3>1. r = Credit(closed, origins, Whole, {"ordinary", o}) /\ "seconds" \notin {"ordinary", o}
      BY <2>2 DEF WithdrawalLedger, closed, origins
    <3> HIDE DEF r
    <3> QED
      BY <1>2, <1>3, <3>1, PlainCreditKeeps
  <2>3. CASE o \notin {"sync_withdrawals", "effective_withdrawals"}
    <3>1. r = closed
      BY <2>3 DEF WithdrawalLedger, closed
    <3> HIDE DEF r
    <3> QED
      BY <1>3, <3>1, KeepsItself
  <2> QED
    BY <2>1, <2>2, <2>3
<1> HIDE DEF r
<1>5. ClosesOne(ledger, r, k, t)
  BY <1>1, <1>4, ClosesThenKeeps
<1> QED
  BY <1>5 DEF r

\* The sum with a single term.
LEMMA SumSingle ==
  ASSUME NEW S, IsFiniteSet(S), NEW h \in [S -> Int], NEW y \in S, \A x \in S : x # y => h[x] = 0
  PROVE  SumOver(h, S) = h[y]
<1> DEFINE zero == [x \in S |-> IF x \in {} THEN 1 ELSE 0]
<1>1. SumOver(zero, S) = 0
  BY SumCount, FS_EmptySet
<1>2. zero \in [S -> Int] /\ \A x \in S : zero[x] = 0
  OBVIOUS
<1> HIDE DEF zero
<1>3. SumOver(h, S) = SumOver(zero, S) + (h[y] - zero[y])
  BY <1>2, SumChange
<1> QED
  BY <1>1, <1>2, <1>3

LEMMA ResetLedgerCloses ==
  ASSUME Inv, ledger \in Ledger, NEW p \in Peer, NEW t \in Nat, NEW a \in ASN
  PROVE  ResetLedger(ledger, p, t).mass[a]["seconds"] = ledger.mass[a]["seconds"] +
           SumOver([k \in keys |-> IF k \in peers[p].active_route_ids THEN OpenShare(k, a, t) ELSE 0], keys)
<1> DEFINE ids == peers[p].active_route_ids
           terms(s) == [k \in keys |-> IF k \in s THEN OpenShare(k, a, t) ELSE 0]
<1>1. ids \subseteq keys /\ IsFiniteSet(ids) /\ IsFiniteSet(keys)
  BY FiniteKeys, TimesOfState DEF Inv, PluginTypes, PeerData
<1> HIDE DEF ids
<1>2. PICK f : /\ ResetLedger(ledger, p, t) = f[ids]
               /\ \A s \in SUBSET ids :
                    /\ f[s] \in Ledger
                    /\ f[s] = IF s = {} THEN ledger ELSE ResetOne(Chosen(s), f[s \ {Chosen(s)}], t)
  BY ResetLedgerIsFold DEF ids
<1>3. ASSUME NEW k \in keys, NEW x \in Ledger
      PROVE  ClosesOne(x, ResetOne(k, x, t), k, t)
  <2> DEFINE closed == CloseExposure(x, k, t)
             origins == routes[k].route.origin_set
  <2>1. ClosesOne(x, closed, k, t)
    BY CloseExposureCloses
  <2>2. origins \in SUBSET ASN /\ Whole \in Nat
    BY RouteOrigins, ChurnAssumption
  <2>3. ResetOne(k, x, t) = IF Scored(t) THEN Credit(closed, origins, Whole, {"reset"}) ELSE closed
    BY DEF ResetOne
  <2> HIDE DEF closed, origins
  <2>4. closed \in Ledger
    BY <2>1 DEF ClosesOne
  <2>5. Keeps(closed, Credit(closed, origins, Whole, {"reset"}))
    BY <2>2, <2>4, PlainCreditKeeps
  <2>6. ClosesOne(x, Credit(closed, origins, Whole, {"reset"}), k, t)
    BY <2>1, <2>5, ClosesThenKeeps
  <2> QED
    BY <2>1, <2>3, <2>6
<1>4. \A s \in SUBSET ids : terms(s) \in [keys -> Int]
  <2>1. \A k \in keys : OpenShare(k, a, t) \in Int
    BY OpenShareType
  <2> QED
    BY <2>1
<1> DEFINE A == {s \in SUBSET ids : f[s].mass[a]["seconds"] = ledger.mass[a]["seconds"] + SumOver(terms(s), keys)}
<1>5. {} \in A
  <2>1. {} \in SUBSET ids /\ f[{}] = ledger
    BY <1>2
  <2>2. terms({}) = [k \in keys |-> IF k \in {} THEN 1 ELSE 0]
    OBVIOUS
  <2>3. SumOver(terms({}), keys) = 0
    BY <1>1, <2>2, SumCount, FS_EmptySet
  <2>4. ledger.mass[a]["seconds"] \in Nat
    BY DEF Ledger, OriginCounter
  <2> HIDE DEF terms
  <2>5. f[{}].mass[a]["seconds"] = ledger.mass[a]["seconds"] + SumOver(terms({}), keys)
    BY <2>1, <2>3, <2>4
  <2> QED
    BY <2>1, <2>5
<1>6. ASSUME NEW s \in SUBSET ids, s # {}, s \ {Chosen(s)} \in A
      PROVE  s \in A
  <2> DEFINE c == Chosen(s)
             r == s \ {Chosen(s)}
  <2>1. c \in s /\ c \in keys /\ r \in SUBSET ids
    BY <1>1, <1>6 DEF Chosen
  <2>2. f[s] = ResetOne(c, f[r], t) /\ f[r] \in Ledger
    BY <1>2, <1>6, <2>1
  <2>3. f[r].mass[a]["seconds"] = ledger.mass[a]["seconds"] + SumOver(terms(r), keys)
    BY <1>6
  <2>4. /\ \A k \in keys : k # c => terms(s)[k] = terms(r)[k]
        /\ terms(s)[c] = OpenShare(c, a, t) /\ terms(r)[c] = 0
    BY <2>1
  <2> HIDE DEF c, r
  <2>5. f[s].mass[a]["seconds"] = f[r].mass[a]["seconds"] + OpenShare(c, a, t)
    BY <1>3, <2>1, <2>2 DEF ClosesOne
  <2>6. terms(s) \in [keys -> Int] /\ terms(r) \in [keys -> Int]
    BY <1>4, <2>1
  <2> HIDE DEF terms
  <2>7. SumOver(terms(s), keys) = SumOver(terms(r), keys) + (OpenShare(c, a, t) - 0)
    BY <1>1, <2>1, <2>4, <2>6, SumChange
  <2>8. SumOver(terms(r), keys) \in Int /\ OpenShare(c, a, t) \in Int /\ ledger.mass[a]["seconds"] \in Nat
    BY <1>1, <2>1, <2>6, SumType, OpenShareType DEF Ledger, OriginCounter
  <2>9. f[s].mass[a]["seconds"] = ledger.mass[a]["seconds"] + SumOver(terms(s), keys)
    BY <2>3, <2>5, <2>7, <2>8
  <2> QED
    BY <2>9
<1> HIDE DEF A
<1>7. ids \in A
  BY <1>1, <1>5, <1>6, SubsetInduction
<1> QED
  BY <1>2, <1>7 DEF A, ids

\* A step that closes the route of k, of the routes of a peer, or none.
LEMMA ClosesKey ==
  ASSUME Inv, CounterInv, NEW k \in keys, NEW t \in Nat, ClosesOne(ledger, ledger', k, t), NEW r,
         routes' = [routes EXCEPT ![k] = r],
         r.active => r.active_since = Later(t, options.warmup)
  PROVE  Closes({k}, t)
<1>1. ASSUME NEW a \in ASN
      PROVE  SumOver([j \in keys |-> IF j \in {k} THEN OpenShare(j, a, t) ELSE 0], keys) = OpenShare(k, a, t)
  <2> DEFINE h == [j \in keys |-> IF j \in {k} THEN OpenShare(j, a, t) ELSE 0]
  <2>1. \A j \in keys : OpenShare(j, a, t) \in Int
    BY OpenShareType
  <2>2. h \in [keys -> Int] /\ h[k] = OpenShare(k, a, t) /\ \A j \in keys : j # k => h[j] = 0
    BY <2>1
  <2>3. IsFiniteSet(keys)
    BY TimesOfState
  <2> HIDE DEF h
  <2>4. SumOver(h, keys) = h[k]
    BY <2>2, <2>3, SumSingle
  <2> QED
    BY <2>2, <2>4 DEF h
<1>2. \A a \in ASN : ledger'.mass[a]["seconds"] = ledger.mass[a]["seconds"] +
        SumOver([j \in keys |-> IF j \in {k} THEN OpenShare(j, a, t) ELSE 0], keys)
  BY <1>1 DEF ClosesOne
<1>3. routes'[k] = r /\ \A j \in keys : j # k => routes'[j] = routes[j]
  BY DEF Inv, PluginTypes
<1> QED
  BY <1>2, <1>3 DEF Closes

\* What a route needs for its time to run on.
Runs(r, q) == r.active = q.active /\ r.route = q.route /\ r.active_since = q.active_since

LEMMA ClosesNone ==
  ASSUME Inv, CounterInv, NEW t \in Nat,
         \A a \in ASN : ledger'.mass[a]["seconds"] = ledger.mass[a]["seconds"],
         \A k \in keys : Runs(routes'[k], routes[k])
  PROVE  Closes({}, t)
<1>1. ASSUME NEW a \in ASN
      PROVE  SumOver([j \in keys |-> IF j \in {} THEN OpenShare(j, a, t) ELSE 0], keys) = 0
  <2>1. [j \in keys |-> IF j \in {} THEN OpenShare(j, a, t) ELSE 0]
          = [j \in keys |-> IF j \in {} THEN 1 ELSE 0]
    OBVIOUS
  <2>2. SumOver([j \in keys |-> IF j \in {} THEN 1 ELSE 0], keys) = Cardinality({})
    BY TimesOfState, SumCount
  <2> QED
    BY <2>1, <2>2, FS_EmptySet, Zenon
<1>2. \A a \in ASN : ledger.mass[a]["seconds"] \in Nat
  BY DEF CounterInv, CounterTypes, Ledger, OriginCounter
<1>3. \A a \in ASN : ledger'.mass[a]["seconds"] = ledger.mass[a]["seconds"] +
        SumOver([j \in keys |-> IF j \in {} THEN OpenShare(j, a, t) ELSE 0], keys)
  BY <1>1, <1>2
<1> QED
  BY <1>3 DEF Closes, Runs

LEMMA ClosesNothing ==
  ASSUME Inv, CounterInv, NEW t \in Nat, UNCHANGED <<ledger, routes>>
  PROVE  Closes({}, t)
<1>1. \A k \in keys : Runs(routes'[k], routes[k])
  BY DEF Runs
<1> QED
  BY <1>1, ClosesNone

LEMMA ResetCloses ==
  ASSUME Inv, CounterInv, NEW p \in Peer, NEW t \in Times, NEW order, NEW names,
         ResetPeerRoutes(p, t, order, names)
  PROVE  Closes(peers[p].active_route_ids, t)
<1> DEFINE ids == peers[p].active_route_ids
<1>1. t \in Nat /\ ledger \in Ledger
  BY TimeFacts DEF CounterInv, CounterTypes
<1>2. ledger' = ResetLedger(ledger, p, t) /\ routes' = ResetRoutes(p, order)
  BY DEF ResetPeerRoutes
<1>3. \A a \in ASN : ledger'.mass[a]["seconds"] = ledger.mass[a]["seconds"] +
        SumOver([k \in keys |-> IF k \in ids THEN OpenShare(k, a, t) ELSE 0], keys)
  BY <1>1, <1>2, ResetLedgerCloses
<1>4. ASSUME NEW k \in keys
      PROVE  IF k \in ids THEN routes'[k].active = FALSE ELSE routes'[k] = routes[k]
  <2>1. routes[k] \in RouteState(Digest)
    BY DEF Inv, PluginTypes
  <2> QED
    BY <1>2, <2>1 DEF ResetRoutes, RouteState
<1> QED
  BY <1>3, <1>4 DEF Closes

\* The receiving part of a step, and the set of the keys it closes.
Steps(p) == \E t \in Times : \E o, T : Receive(p, t, o) /\ Closes(T, t) /\ UNCHANGED setup

LEMMA AnnouncementSteps ==
  ASSUME Inv, CounterInv, NEW p \in Peer, NEW x \in Prefix, NEW d \in Digest, Announcement(p, x, d)
  PROVE  Steps(p)
<1> DEFINE k == <<p, x>>
<1>1. PICK t \in Times, late \in BOOLEAN :
        LET order == OrderKey(t, late)
            o == AnnouncementOutcome(k, d, t)
        IN  /\ k \in keys /\ Receive(p, t, order) /\ UNCHANGED setup
            /\ IF RouteEventIsLate(k, order)
               THEN CountLate(p, x, RawTally(t))
               ELSE /\ ledger' = AnnouncementLedger(k, d, t, o)
                    /\ routes' = [routes EXCEPT ![k] =
                          IF o = "duplicate_announcements" THEN [@ EXCEPT !.last_order = order]
                          ELSE Installed(d, t, order)]
  BY DEF Announcement
<1> DEFINE order == OrderKey(t, late)
           o == AnnouncementOutcome(k, d, t)
<1>2. t \in Nat /\ ledger \in Ledger /\ k \in keys
  BY <1>1, TimeFacts DEF CounterInv, CounterTypes
<1>3. o \in AnnouncementOutcomes
  BY DEF AnnouncementOutcome, AnnouncementOutcomes
<1>4. CASE RouteEventIsLate(k, order)
  <2>1. UNCHANGED <<ledger, routes>>
    BY <1>1, <1>4 DEF CountLate, plugin
  <2>2. Closes({}, t)
    BY <1>2, <2>1, ClosesNothing
  <2> QED
    BY <1>1, <2>2 DEF Steps
<1>5. CASE ~RouteEventIsLate(k, order) /\ o = "duplicate_announcements"
  <2>1. /\ ledger' = AnnouncementLedger(k, d, t, o)
        /\ routes' = [routes EXCEPT ![k] = [@ EXCEPT !.last_order = order]]
    BY <1>1, <1>5
  <2> HIDE DEF o
  <2>2. Keeps(ledger, ledger')
    BY <1>2, <1>3, <1>5, <2>1, AnnouncementLedgerCloses
  <2>3. \A j \in keys : Runs(routes'[j], routes[j])
    <3> SUFFICES ASSUME NEW j \in keys PROVE Runs(routes'[j], routes[j])
      OBVIOUS
    <3>1. routes \in [keys -> RouteState(Digest)] /\ routes[j] \in RouteState(Digest)
      BY DEF Inv, PluginTypes
    <3>2. routes'[j] = routes[j] \/ routes'[j] = [routes[j] EXCEPT !.last_order = order]
      BY <2>1, <3>1
    <3> QED
      BY <3>1, <3>2 DEF Runs, RouteState
  <2>4. Closes({}, t)
    BY <1>2, <2>2, <2>3, ClosesNone DEF Keeps
  <2> QED
    BY <1>1, <2>4 DEF Steps
<1>6. CASE ~RouteEventIsLate(k, order) /\ o # "duplicate_announcements"
  <2> DEFINE r == Installed(d, t, order)
  <2>1. ledger' = AnnouncementLedger(k, d, t, o) /\ routes' = [routes EXCEPT ![k] = r]
    BY <1>1, <1>6
  <2>2. r.active_since = Later(t, options.warmup)
    BY DEF Installed
  <2> HIDE DEF o, r
  <2>3. ClosesOne(ledger, ledger', k, t)
    BY <1>2, <1>3, <1>6, <2>1, AnnouncementLedgerCloses
  <2>4. Closes({k}, t)
    <3> HIDE DEF k
    <3> QED
      BY <1>2, <2>1, <2>2, <2>3, ClosesKey
  <2> QED
    BY <1>1, <2>4 DEF Steps
<1> QED
  BY <1>4, <1>5, <1>6

LEMMA WithdrawalSteps ==
  ASSUME Inv, CounterInv, NEW p \in Peer, NEW x \in Prefix, Withdrawal(p, x)
  PROVE  Steps(p)
<1> DEFINE k == <<p, x>>
<1>1. PICK t \in Times, late \in BOOLEAN :
        LET order == OrderKey(t, late)
        IN  /\ k \in keys /\ Receive(p, t, order) /\ UNCHANGED setup
            /\ IF RouteEventIsLate(k, order)
               THEN CountLate(p, x, RawTally(t))
               ELSE /\ ledger' = WithdrawalLedger(k, t, WithdrawalOutcome(k, t))
                    /\ routes' = [routes EXCEPT ![k] =
                          [@ EXCEPT !.initialized = TRUE, !.active = FALSE, !.last_order = order]]
  BY DEF Withdrawal
<1> DEFINE order == OrderKey(t, late)
<1>2. t \in Nat /\ ledger \in Ledger /\ k \in keys
  BY <1>1, TimeFacts DEF CounterInv, CounterTypes
<1>3. CASE RouteEventIsLate(k, order)
  <2>1. UNCHANGED <<ledger, routes>>
    BY <1>1, <1>3 DEF CountLate, plugin
  <2>2. Closes({}, t)
    BY <1>2, <2>1, ClosesNothing
  <2> QED
    BY <1>1, <2>2 DEF Steps
<1>4. CASE ~RouteEventIsLate(k, order)
  <2> DEFINE r == [routes[k] EXCEPT !.initialized = TRUE, !.active = FALSE, !.last_order = order]
  <2>1. ledger' = WithdrawalLedger(k, t, WithdrawalOutcome(k, t)) /\ routes' = [routes EXCEPT ![k] = r]
    BY <1>1, <1>4
  <2>2. ~r.active
    <3>1. routes[k] \in RouteState(Digest)
      BY <1>2 DEF Inv, PluginTypes
    <3> QED
      BY <3>1 DEF RouteState
  <2> HIDE DEF r
  <2>3. ClosesOne(ledger, ledger', k, t)
    BY <1>2, <2>1, WithdrawalLedgerCloses
  <2>4. Closes({k}, t)
    <3> HIDE DEF k
    <3> QED
      BY <1>2, <2>1, <2>2, <2>3, ClosesKey
  <2> QED
    BY <1>1, <2>4 DEF Steps
<1> QED
  BY <1>3, <1>4

LEMMA RibElementSteps ==
  ASSUME Inv, CounterInv, NEW p \in Peer, NEW x \in Prefix, RibElement(p, x)
  PROVE  Steps(p)
<1> DEFINE k == <<p, x>>
<1>1. PICK t \in Times, late \in BOOLEAN, position \in RibPosition(k) :
        LET order == OrderKey(t, late)
        IN  k \in keys /\ Receive(p, t, order) /\ UNCHANGED setup /\ HandleRib(k, t, order, position)
  BY DEF RibElement
<1> DEFINE order == OrderKey(t, late)
<1>2. t \in Nat /\ ledger \in Ledger /\ k \in keys
  BY <1>1, TimeFacts DEF CounterInv, CounterTypes
<1>3. CASE RouteEventIsLate(k, order)
  <2>1. UNCHANGED <<ledger, routes>>
    BY <1>1, <1>3 DEF HandleRib, CountLate, plugin
  <2>2. Closes({}, t)
    BY <1>2, <2>1, ClosesNothing
  <2> QED
    BY <1>1, <2>2 DEF Steps
<1>4. CASE ~RouteEventIsLate(k, order)
  <2> DEFINE r == Installed(table[k], t, order)
  <2>1. ledger' = CloseExposure(ledger, k, t) /\ routes' = [routes EXCEPT ![k] = r]
    BY <1>1, <1>4 DEF HandleRib
  <2>2. r.active_since = Later(t, options.warmup)
    BY DEF Installed
  <2> HIDE DEF r
  <2>3. ClosesOne(ledger, ledger', k, t)
    BY <1>2, <2>1, CloseExposureCloses
  <2>4. Closes({k}, t)
    <3> HIDE DEF k
    <3> QED
      BY <1>2, <2>1, <2>2, <2>3, ClosesKey
  <2> QED
    BY <1>1, <2>4 DEF Steps
<1> QED
  BY <1>3, <1>4

LEMMA PeerUpSteps ==
  ASSUME Inv, CounterInv, NEW p \in Peer, PeerUp(p)
  PROVE  Steps(p)
<1>1. PICK t \in Times :
        /\ Receive(p, t, OrderKey(t, FALSE)) /\ UNCHANGED setup
        /\ \/ ResetPeerRoutes(p, t, OrderKey(t, FALSE), {"ups"})
           \/ UNCHANGED <<ledger, routes>>
  BY DEF PeerUp
<1>2. t \in Nat
  BY TimeFacts
<1> QED
  BY <1>1, <1>2, ResetCloses, ClosesNothing DEF Steps

LEMMA OtherSteps ==
  ASSUME Inv, CounterInv, NEW p \in Peer, EndOfRib(p) \/ LateSessionMessage(p)
  PROVE  Steps(p)
<1>1. PICK t \in Times : \E o : Receive(p, t, o) /\ UNCHANGED setup /\ UNCHANGED <<ledger, routes>>
  <2>1. CASE EndOfRib(p)
    BY <2>1 DEF EndOfRib
  <2>2. CASE LateSessionMessage(p)
    BY <2>2 DEF LateSessionMessage, plugin
  <2> QED
    BY <2>1, <2>2
<1>2. t \in Nat
  BY TimeFacts
<1> QED
  BY <1>1, <1>2, ClosesNothing DEF Steps

LEMMA InitExposure == Init => ExposureInv
<1> SUFFICES ASSUME Init PROVE ExposureInv
  OBVIOUS
<1>1. /\ exposed = [a \in ASN |-> 0] /\ ledger = [mass |-> [a \in ASN |-> Zero(OriginCounter)], unknown |-> 0]
      /\ routes = [k \in keys |-> NewRoute]
  BY DEF Init
<1>2. \A k \in keys : ~routes[k].active
  BY <1>1 DEF NewRoute
<1>3. IsFiniteSet(keys)
  BY InitInv, TimesOfState
<1>4. ASSUME NEW a \in ASN
      PROVE  ledger.mass[a]["seconds"] = 0 /\ SumOver([k \in keys |-> OpenShare(k, a, now)], keys) = 0
  <2>1. ledger.mass[a]["seconds"] = 0
    BY <1>1 DEF Zero, OriginCounter
  <2>2. [k \in keys |-> OpenShare(k, a, now)] = [k \in keys |-> IF k \in {} THEN 1 ELSE 0]
    BY <1>2 DEF OpenShare, Share
  <2>3. SumOver([k \in keys |-> IF k \in {} THEN 1 ELSE 0], keys) = Cardinality({})
    BY <1>3, SumCount
  <2> QED
    BY <2>1, <2>2, <2>3, FS_EmptySet, Zenon
<1> QED
  BY <1>1, <1>2, <1>4 DEF ExposureInv

LEMMA NextExposure ==
  Inv /\ Inv' /\ CounterInv /\ CounterInv' /\ ExposureInv /\ [Next]_vars => ExposureInv'
<1> SUFFICES ASSUME Inv, Inv', CounterInv, CounterInv', ExposureInv, [Next]_vars PROVE ExposureInv'
  OBVIOUS
<1>1. CASE UNCHANGED vars
  <2>1. /\ options' = options /\ keys' = keys /\ now' = now /\ routes' = routes /\ ledger' = ledger
        /\ exposed' = exposed
    BY <1>1 DEF vars, setup, clock, plugin, stats
  <2>2. \A k \in keys, a \in ASN : OpenShare(k, a, now)' = OpenShare(k, a, now)
    BY <2>1 DEF OpenShare, Share, AnalysisTime
  <2>3. ASSUME NEW a \in ASN
        PROVE  SumOver([k \in keys |-> OpenShare(k, a, now)], keys)'
                 = SumOver([k \in keys |-> OpenShare(k, a, now)], keys)
    <3>1. [k \in keys |-> OpenShare(k, a, now)'] = [k \in keys |-> OpenShare(k, a, now)]
      BY <2>2
    <3>2. SumOver([k \in keys |-> OpenShare(k, a, now)], keys)'
            = SumOver([k \in keys |-> OpenShare(k, a, now)'], keys)
      BY <2>1
    <3> QED
      BY <3>1, <3>2
  <2> QED
    BY <2>1, <2>3 DEF ExposureInv, Later
<1>2. CASE Message
  <2>1. PICK p \in PeersOf(keys) :
          \/ \E x \in Prefix :
               Withdrawal(p, x) \/ RibElement(p, x) \/ \E d \in Routes[<<p, x>>] : Announcement(p, x, d)
          \/ PeerDown(p) \/ PeerUp(p) \/ EndOfRib(p) \/ LateSessionMessage(p)
    BY <1>2 DEF Message
  <2>2. p \in Peer
    BY KeyFacts DEF Inv, TruthTypes
  <2>3. Steps(p)
    <3>1. ASSUME NEW x \in Prefix, NEW d \in Routes[<<p, x>>], Announcement(p, x, d)
          PROVE  Steps(p)
      <4>1. d \in Digest
        BY <2>2, ChurnAssumption
      <4> QED
        BY <2>2, <3>1, <4>1, AnnouncementSteps
    <3>2. ASSUME NEW x \in Prefix, Withdrawal(p, x) \/ RibElement(p, x)
          PROVE  Steps(p)
      BY <2>2, <3>2, WithdrawalSteps, RibElementSteps
    <3>3. CASE PeerDown(p)
      <4>1. PICK t \in Times : /\ Receive(p, t, OrderKey(t, FALSE)) /\ UNCHANGED setup
                               /\ ResetPeerRoutes(p, t, OrderKey(t, FALSE), {"downs"})
        BY <3>3 DEF PeerDown
      <4> QED
        BY <2>2, <4>1, ResetCloses DEF Steps
    <3>4. CASE PeerUp(p) \/ EndOfRib(p) \/ LateSessionMessage(p)
      BY <2>2, <3>4, PeerUpSteps, OtherSteps
    <3> QED
      BY <2>1, <3>1, <3>2, <3>3, <3>4
  <2>4. PICK t \in Times : \E o, T : Receive(p, t, o) /\ Closes(T, t) /\ UNCHANGED setup
    BY <2>3 DEF Steps
  <2> QED
    BY <2>4, ExposureStep
<1> QED
  BY <1>1, <1>2 DEF Next

\* The route time of every origin is the time of the routes the plugin held active,
\* with the shares still open, to the unit: no interval is lost, counted twice or
\* begins before the end of the warm-up (close_exposure, install_route and
\* close_open_exposures).
THEOREM ExposureIsKept == Spec => []ExposureIsExact
<1>1. Inv /\ CounterInv /\ ExposureInv => ExposureIsExact
  <2> SUFFICES ASSUME Inv, CounterInv, ExposureInv, NEW a \in ASN
               PROVE  exposed[a] = ledger.mass[a]["seconds"] +
                        SumOver([k \in keys |-> CloseExposure(ledger, k, now).mass[a]["seconds"]
                                                - ledger.mass[a]["seconds"]], keys)
    BY DEF ExposureIsExact
  <2>1. now \in Nat /\ ledger \in Ledger /\ ledger.mass[a]["seconds"] \in Nat
    BY TimesOfState DEF CounterInv, CounterTypes, Ledger, OriginCounter
  <2>2. ASSUME NEW k \in keys
        PROVE  CloseExposure(ledger, k, now).mass[a]["seconds"] - ledger.mass[a]["seconds"] = OpenShare(k, a, now)
    <3>1. CloseExposure(ledger, k, now).mass[a]["seconds"] = ledger.mass[a]["seconds"] + OpenShare(k, a, now)
      BY <2>1, CloseExposureCloses DEF ClosesOne
    <3>2. OpenShare(k, a, now) \in Nat
      BY <2>1, OpenShareType
    <3> QED
      BY <2>1, <3>1, <3>2
  <2>3. [k \in keys |-> CloseExposure(ledger, k, now).mass[a]["seconds"] - ledger.mass[a]["seconds"]]
          = [k \in keys |-> OpenShare(k, a, now)]
    BY <2>2
  <2>4. exposed[a] = ledger.mass[a]["seconds"] + SumOver([k \in keys |-> OpenShare(k, a, now)], keys)
    BY DEF ExposureInv
  <2> QED
    BY <2>3, <2>4, Zenon
<1> QED
  BY <1>1, Invariant, CountersInvariant, InitExposure, NextExposure, PTL DEF Spec

-----------------------------------------------------------------------------
(* Ordinary churn is churn.                                                *)

Counted(p) == peer_stats'[p]["ordinary"] # peer_stats[p]["ordinary"]
Altered(k) == table'[k] # table[k] /\ phase'[k[1]] = phase[k[1]]
Overrun(p) == options.grace > 0 /\ now' - changed[p] > options.grace
Known(k) == phase[k[1]] = "settled" \/ (phase[k[1]] = "unknown" /\ routes[k].initialized)
\* The step counts ordinary churn of p for a change in its table, and only for one.
Counts(p) ==
  trusted'[p] =>
    /\ Counted(p) => (\E k \in KeysOf(p) : Altered(k)) /\ (phase[p] # "resync" \/ Overrun(p))
    /\ \A k \in KeysOf(p) : Altered(k) /\ Scored(now') /\ Known(k) => Counted(p)

\* The counter of ordinary changes counts the ordinary outcomes.
LEMMA OutcomeCounted ==
  ASSUME CounterTypes, NEW p \in Peer, NEW t \in Nat, NEW o \in Outcome,
         peer_stats' = [peer_stats EXCEPT ![p] = Tally(@, RawTally(t) \cup PeerTally(o))]
  PROVE  Counted(p) <=> o \in Ordinary
<1>1. peer_stats[p] \in [PeerCounter -> Nat] /\ "ordinary" \in PeerCounter
  BY DEF CounterTypes, PeerCounter
<1>2. "ordinary" \in RawTally(t) \cup PeerTally(o) <=> o \in Ordinary
  BY DEF RawTally, PeerTally, OrdinaryToo, Outcome, Ordinary, SyncOutcome, NoChange
<1>3. peer_stats'[p]["ordinary"] = peer_stats[p]["ordinary"] +
        IF "ordinary" \in RawTally(t) \cup PeerTally(o) THEN 1 ELSE 0
  <2>1. peer_stats'[p] = Tally(peer_stats[p], RawTally(t) \cup PeerTally(o))
    BY DEF CounterTypes
  <2> QED
    BY <1>1, <2>1, TallyFacts
<1>4. peer_stats[p]["ordinary"] \in Nat
  BY <1>1
<1> QED
  BY <1>2, <1>3, <1>4 DEF Counted

\* What an accepted update comes to when the plugin holds the table of the peer.
LEMMA OutcomeIsReal ==
  ASSUME Inv, SessionInv, NEW k \in keys, NEW t \in Nat, now <= t, NEW d \in Digest \cup {NoRoute},
         trusted[k[1]]
  PROVE  LET o == UpdateOutcome(k, d, t)
         IN  /\ o \in Outcome
             /\ o \in Ordinary =>
                  /\ table[k] # d
                  /\ phase[k[1]] # "resync" \/ (options.grace > 0 /\ t - changed[k[1]] > options.grace)
             /\ table[k] # d /\ Scored(t) /\ Known(k) => o \in Ordinary
<1> DEFINE p == k[1]
           o == UpdateOutcome(k, d, t)
<1>1. /\ p \in Peer /\ routes[k] \in RouteState(Digest) /\ peers[p] \in PeerData(keys)
      /\ routes[k].active => routes[k].route \in Digest
      /\ routes[k].initialized \/ ~routes[k].active
      /\ routes[k].initialized => table[k] = IF routes[k].active THEN routes[k].route ELSE NoRoute
      /\ options.grace \in Nat /\ changed[p] \in Int /\ now \in Nat
      /\ NoRoute \notin Digest
      /\ PeerSession(p) /\ KeyHeard(k)
  BY KeyFacts, TimeFacts, ChurnAssumption DEF Inv, TruthTypes, PluginTypes, OrderInv, TableInv, SessionInv
<1>2. /\ SyncActive(p, t) \in BOOLEAN /\ BaselineComplete(p, t) \in BOOLEAN /\ Scored(t) \in BOOLEAN
      /\ routes[k].initialized \in BOOLEAN /\ routes[k].active \in BOOLEAN
  BY <1>1, SyncFacts, TimeFacts DEF Inv, TruthTypes, Scored, RouteState
\* A synchronization the plugin does not know of is over, or has overrun.
<1>3. ~SyncActive(p, t) => phase[p] # "resync" \/ (options.grace > 0 /\ t - changed[p] > options.grace)
  <2> SUFFICES ASSUME ~SyncActive(p, t), phase[p] = "resync"
               PROVE  options.grace > 0 /\ t - changed[p] > options.grace
    OBVIOUS
  <2>1. CASE peers[p].sync_active /\ peers[p].sync_started = changed[p]
    BY <2>1 DEF SyncActive, SyncExpired
  <2>2. CASE options.grace > 0 /\ now - changed[p] > options.grace
    BY <1>1, <2>2
  <2> QED
    BY <1>1, <2>1, <2>2 DEF PeerSession
<1>4. Known(k) => ~SyncActive(p, t)
  BY <1>1 DEF Known, PeerSession, SyncActive
<1>5. phase[p] = "settled" => BaselineComplete(p, t)
  BY <1>1 DEF PeerSession, BaselineComplete
<1>6. ~routes[k].initialized /\ ~SyncActive(p, t) /\ BaselineComplete(p, t) => table[k] = NoRoute
  <2> SUFFICES ASSUME ~SyncActive(p, t), BaselineComplete(p, t), phase[p] = "unknown"
               PROVE  peers[p].baseline_complete
    BY <1>1, <1>2 DEF KeyHeard
  <2>1. ~peers[p].sync_active
    BY <1>1 DEF PeerSession
  <2> QED
    BY <2>1 DEF BaselineComplete, SyncExpired
<1> QED
  <2>1. CASE d = NoRoute
    <3>1. o = WithdrawalOutcome(k, t)
      BY <2>1 DEF UpdateOutcome
    <3>2. CASE ~routes[k].initialized
      <4>1. o = "unknown_withdrawals"
        BY <3>1, <3>2 DEF WithdrawalOutcome
      <4>2. Known(k) => table[k] = NoRoute
        BY <1>4, <1>5, <1>6, <3>2 DEF Known
      <4> QED
        BY <2>1, <4>1, <4>2 DEF Outcome, Ordinary, NoChange
    <3>3. CASE routes[k].initialized /\ ~routes[k].active
      <4>1. o = "duplicate_withdrawals"
        BY <3>1, <3>3 DEF WithdrawalOutcome
      <4> QED
        BY <1>1, <2>1, <3>3, <4>1 DEF Outcome, Ordinary, NoChange
    <3>4. CASE routes[k].initialized /\ routes[k].active
      <4>1. o = IF SyncActive(p, t) THEN "sync_withdrawals"
                ELSE IF Scored(t) THEN "effective_withdrawals" ELSE "unscored_withdrawals"
        BY <3>1, <3>4 DEF WithdrawalOutcome
      <4>2. table[k] # d
        BY <1>1, <2>1, <3>4
      <4> QED
        BY <1>2, <1>3, <1>4, <4>1, <4>2 DEF Outcome, Ordinary, SyncOutcome
    <3> QED
      BY <1>2, <3>2, <3>3, <3>4
  <2>2. CASE d # NoRoute
    <3>1. o = AnnouncementOutcome(k, d, t) /\ d \in Digest
      BY <2>2 DEF UpdateOutcome
    <3>2. CASE ~routes[k].initialized
      <4>1. o = IF SyncActive(p, t) THEN "sync_announcements"
                ELSE IF Scored(t) /\ BaselineComplete(p, t) THEN "new_routes" ELSE "cold_starts"
        <5>1. ~routes[k].active
          BY <1>1, <3>2
        <5> QED
          BY <1>2, <3>1, <3>2, <5>1 DEF AnnouncementOutcome
      <4>2. Known(k) => BaselineComplete(p, t)
        BY <1>5, <3>2 DEF Known
      <4> QED
        BY <1>2, <1>3, <1>4, <1>6, <2>2, <3>2, <4>1, <4>2 DEF Outcome, Ordinary, SyncOutcome
    <3>3. CASE routes[k].initialized /\ ~routes[k].active
      <4>1. o = IF SyncActive(p, t) THEN "sync_announcements"
                ELSE IF Scored(t) THEN "reannouncements" ELSE "unscored_announcements"
        BY <3>1, <3>3 DEF AnnouncementOutcome
      <4> QED
        BY <1>1, <1>2, <1>3, <1>4, <2>2, <3>3, <4>1 DEF Outcome, Ordinary, SyncOutcome
    <3>4. CASE routes[k].initialized /\ routes[k].active
      <4>1. table[k] = routes[k].route /\ routes[k].route \in Digest
        BY <1>1, <3>4
      <4>2. CASE ChangeMask(routes[k].route, d) = {}
        <5>1. o = "duplicate_announcements"
          BY <3>1, <3>4, <4>2 DEF AnnouncementOutcome
        <5>2. table[k] = d
          BY <3>1, <4>1, <4>2, NoChangeSameRoute
        <5> QED
          BY <5>1, <5>2 DEF Outcome, Ordinary, NoChange
      <4>3. CASE ChangeMask(routes[k].route, d) # {}
        <5>1. o = IF SyncActive(p, t) THEN "sync_replacements"
                  ELSE IF Scored(t) THEN "replacements" ELSE "unscored_announcements"
          BY <3>1, <3>4, <4>3 DEF AnnouncementOutcome
        <5>2. table[k] # d
          BY <4>1, <4>3 DEF ChangeMask
        <5> QED
          BY <1>2, <1>3, <1>4, <5>1, <5>2 DEF Outcome, Ordinary, SyncOutcome
      <4> QED
        BY <4>2, <4>3
    <3> QED
      BY <1>2, <3>2, <3>3, <3>4
  <2> QED
    BY <2>1, <2>2

LEMMA HearsCounts ==
  ASSUME Inv, SessionInv, CounterTypes,
         NEW k, NEW t \in Times, NEW late \in BOOLEAN, NEW d, Hears(k, t, late, d)
  PROVE  \A q \in Peer : Counts(q)
<1> DEFINE p == k[1]
           order == OrderKey(t, late)
           o == UpdateOutcome(k, d, t)
<1>1. /\ k \in keys /\ p \in Peer /\ d \in Digest \cup {NoRoute} /\ Receive(p, t, order)
      /\ phase' = phase
      /\ IF order < sent[k] THEN table' = table ELSE table' = [table EXCEPT ![k] = d]
      /\ trusted' = [trusted EXCEPT ![p] = @ /\ (order < OrderKey(t, FALSE) => changed[p] < t)]
      /\ \/ /\ RouteEventIsLate(k, order)
            /\ peer_stats' = [peer_stats EXCEPT ![p] =
                  Tally(@, (RawTally(t) \cap PeerCounter) \cup {"out_of_order"})]
         \/ /\ ~RouteEventIsLate(k, order)
            /\ peer_stats' = [peer_stats EXCEPT ![p] = Tally(@, RawTally(t) \cup PeerTally(o))]
  BY KeyFacts DEF Hears, Update, Inv, TruthTypes
<1>2. /\ now' = t /\ now <= t /\ t \in Nat /\ now \in Nat
      /\ order \in Nat /\ (order = 2 * t \/ order = 2 * t + 1)
      /\ OrderKey(t, FALSE) = 2 * t + 1 /\ OrderKey(now, FALSE) = 2 * now + 1
  <2>1. now' = t /\ now <= t /\ t \in Nat /\ now \in Nat
    BY <1>1, ReceiveFacts DEF Inv
  <2> QED
    BY <2>1 DEF OrderKey
<1>3. /\ table \in [keys -> Digest \cup {NoRoute}] /\ trusted \in [Peer -> BOOLEAN]
      /\ changed[p] \in Int /\ sent[k] \in Int /\ routes[k].last_order \in Int
      /\ peer_stats \in [Peer -> [PeerCounter -> Nat]]
  BY <1>1 DEF Inv, TruthTypes, PluginTypes, RouteState, CounterTypes
<1>4. \A j \in keys : j # k => table'[j] = table[j]
  BY <1>1, <1>3
<1>5. ASSUME NEW q \in Peer, q # p
      PROVE  Counts(q)
  <2>1. ~Counted(q)
    BY <1>1, <1>3, <1>5 DEF Counted
  <2>2. \A j \in KeysOf(q) : ~Altered(j)
    BY <1>4, <1>5 DEF Altered, KeysOf
  <2> QED
    BY <2>1, <2>2 DEF Counts
<1>6. Counts(p)
  <2> SUFFICES ASSUME trusted'[p] PROVE Counts(p)
    BY DEF Counts
  <2>1. trusted[p] /\ (order < 2 * t + 1 => changed[p] < t)
    BY <1>1, <1>2, <1>3
  <2>2. KeysOf(p) \subseteq keys /\ k \in KeysOf(p) /\ \A j \in KeysOf(p) : Altered(j) => j = k
    BY <1>1, <1>4 DEF KeysOf, Altered
  <2>3. /\ routes[k].last_order <= 2 * now + 1 /\ sent[k] <= routes[k].last_order
        /\ sent[k] < routes[k].last_order => routes[k].last_order <= 2 * changed[p] + 1
    BY <1>1, <1>2 DEF Inv, OrderInv, OrderKey
  \* A message that changes the table is not late; an accepted one is in the table.
  <2>4. ~RouteEventIsLate(k, order) <=> ~(order < sent[k])
    BY <1>2, <1>3, <2>1, <2>3 DEF RouteEventIsLate
  <2>5. /\ o \in Outcome
        /\ o \in Ordinary =>
             /\ table[k] # d
             /\ phase[p] # "resync" \/ (options.grace > 0 /\ t - changed[p] > options.grace)
        /\ table[k] # d /\ Scored(t) /\ Known(k) => o \in Ordinary
    BY <1>1, <1>2, <2>1, OutcomeIsReal
  <2> HIDE DEF o
  <2>6. CASE RouteEventIsLate(k, order)
    <3>1. ~Altered(k)
      BY <1>1, <2>4, <2>6 DEF Altered
    <3>2. ~Counted(p)
      <4>1. peer_stats'[p] = Tally(peer_stats[p], (RawTally(t) \cap PeerCounter) \cup {"out_of_order"})
        BY <1>1, <1>3, <2>6
      <4>2. "ordinary" \in PeerCounter /\ "ordinary" \notin (RawTally(t) \cap PeerCounter) \cup {"out_of_order"}
        BY DEF PeerCounter, RawTally
      <4>3. peer_stats[p] \in [PeerCounter -> Nat]
        BY <1>1, <1>3
      <4>4. peer_stats'[p]["ordinary"] = peer_stats[p]["ordinary"] + 0
        BY <4>1, <4>2, <4>3, TallyFacts
      <4> QED
        BY <4>2, <4>3, <4>4 DEF Counted
    <3> QED
      BY <2>2, <3>1, <3>2 DEF Counts
  <2>7. CASE ~RouteEventIsLate(k, order)
    <3>1. Counted(p) <=> o \in Ordinary
      BY <1>1, <1>2, <2>5, <2>7, OutcomeCounted
    <3>2. table' = [table EXCEPT ![k] = d]
      BY <1>1, <2>4, <2>7
    <3>3. Altered(k) <=> table[k] # d
      BY <1>1, <1>3, <3>2 DEF Altered
    <3> QED
      BY <1>2, <2>2, <2>5, <3>1, <3>3 DEF Counts, Overrun
  <2> QED
    BY <2>6, <2>7
<1> QED
  BY <1>5, <1>6

\* Counters to which nothing ordinary is added.
LEMMA AddLeavesOrdinary ==
  ASSUME NEW c, "ordinary" \in DOMAIN c, c["ordinary"] \in Nat, NEW names, "ordinary" \notin names, NEW n
  PROVE  /\ DOMAIN Add(c, names, n) = DOMAIN c
         /\ Add(c, names, n)["ordinary"] = c["ordinary"]
BY DEF Add

\* A step that changes no table in a session that goes on, and counts nothing ordinary.
LEMMA QuietCounts ==
  ASSUME CounterTypes, NEW p \in Peer,
         NEW names, "ordinary" \notin names, NEW more, "ordinary" \notin more, NEW n,
         \/ UNCHANGED peer_stats
         \/ peer_stats' = [peer_stats EXCEPT ![p] = Tally(@, names)]
         \/ peer_stats' = [peer_stats EXCEPT ![p] = Add(Tally(@, names), more, n)],
         \A k \in keys : ~(Altered(k) /\ Known(k))
  PROVE  \A q \in Peer : Counts(q)
<1>1. /\ peer_stats \in [Peer -> [PeerCounter -> Nat]] /\ "ordinary" \in PeerCounter
  BY DEF CounterTypes, PeerCounter
<1>2. /\ "ordinary" \in DOMAIN peer_stats[p] /\ peer_stats[p]["ordinary"] \in Nat
  BY <1>1
<1>3. /\ DOMAIN Tally(peer_stats[p], names) = DOMAIN peer_stats[p]
      /\ Tally(peer_stats[p], names)["ordinary"] = peer_stats[p]["ordinary"]
  BY <1>2, AddLeavesOrdinary DEF Tally
<1>4. Add(Tally(peer_stats[p], names), more, n)["ordinary"] = peer_stats[p]["ordinary"]
  <2> DEFINE c == Tally(peer_stats[p], names)
  <2>1. "ordinary" \in DOMAIN c /\ c["ordinary"] \in Nat
    BY <1>2, <1>3
  <2> HIDE DEF c
  <2>2. Add(c, more, n)["ordinary"] = c["ordinary"]
    BY <2>1, AddLeavesOrdinary
  <2> QED
    BY <1>3, <2>2 DEF c
<1>5. peer_stats'[p]["ordinary"] = peer_stats[p]["ordinary"]
  BY <1>1, <1>3, <1>4
<1>6. \A q \in Peer : q # p => peer_stats'[q] = peer_stats[q]
  BY <1>1
<1>7. ASSUME NEW q \in Peer
      PROVE  ~Counted(q)
  BY <1>5, <1>6 DEF Counted
<1> QED
  BY <1>7 DEF Counts, KeysOf

LEMMA SessionCounts ==
  ASSUME Inv, SessionInv, CounterTypes, NEW p \in Peer,
         PeerDown(p) \/ PeerUp(p) \/ EndOfRib(p) \/ LateSessionMessage(p)
  PROVE  \A q \in Peer : Counts(q)
<1>1. /\ table \in [keys -> Digest \cup {NoRoute}] /\ phase \in [Peer -> Phase]
      /\ peer_stats \in [Peer -> [PeerCounter -> Nat]] /\ \A k \in keys : k[1] \in Peer
      /\ "ordinary" \in PeerCounter
  BY KeyFacts DEF Inv, TruthTypes, CounterTypes, PeerCounter
<1>2. \/ /\ table' = table
      \/ /\ \A k \in keys : k[1] # p => table'[k] = table[k]
         /\ (phase[p] # "down" /\ phase'[p] = "down") \/ phase'[p] = "resync"
  <2>1. CASE LateSessionMessage(p)
    BY <2>1 DEF LateSessionMessage
  <2>2. CASE EndOfRib(p)
    <3>1. table' = [k \in keys |-> IF k \in {} THEN NoRoute ELSE table[k]]
      BY <2>2 DEF EndOfRib, SessionChange
    <3> QED
      BY <1>1, <3>1
  <2>3. CASE PeerDown(p)
    <3>1. /\ table' = [k \in keys |-> IF k \in KeysOf(p) THEN NoRoute ELSE table[k]]
          /\ phase' = [phase EXCEPT ![p] = "down"] /\ phase[p] # "down"
      BY <2>3 DEF PeerDown, SessionChange
    <3> QED
      BY <1>1, <3>1 DEF KeysOf
  <2>4. CASE PeerUp(p)
    <3>1. /\ table' = [k \in keys |-> IF k \in KeysOf(p) THEN NoRoute ELSE table[k]]
          /\ phase' = [phase EXCEPT ![p] = "resync"]
      BY <2>4 DEF PeerUp, SessionChange
    <3> QED
      BY <1>1, <3>1 DEF KeysOf
  <2> QED
    BY <2>1, <2>2, <2>3, <2>4
<1>3. ASSUME NEW k \in keys
      PROVE  ~(Altered(k) /\ Known(k))
  BY <1>1, <1>2 DEF Altered, Known
<1> DEFINE names == {"ups", "downs", "end_of_ribs", "out_of_order", "session_resets"}
           more == {"session_reset_routes"}
<1>4. ASSUME NEW sub, sub \subseteq names, NEW n,
             \/ peer_stats' = [peer_stats EXCEPT ![p] = Tally(@, sub)]
             \/ peer_stats' = [peer_stats EXCEPT ![p] = Add(Tally(@, sub), more, n)]
      PROVE  \A q \in Peer : Counts(q)
  <2>1. "ordinary" \notin sub /\ "ordinary" \notin more
    BY <1>4
  <2> HIDE DEF names, more
  <2> QED
    BY <1>3, <1>4, <2>1, QuietCounts
<1>5. CASE LateSessionMessage(p)
  <2>1. peer_stats' = [peer_stats EXCEPT ![p] = Tally(@, {"out_of_order"})]
    BY <1>5 DEF LateSessionMessage
  <2> QED
    BY <1>4, <2>1
<1>6. CASE EndOfRib(p)
  <2>1. peer_stats' = [peer_stats EXCEPT ![p] = Tally(@, {"end_of_ribs"})]
    BY <1>6 DEF EndOfRib
  <2> QED
    BY <1>4, <2>1
<1> DEFINE affected == Cardinality(peers[p].active_route_ids)
<1>7. CASE PeerDown(p)
  <2>1. peer_stats' = [peer_stats EXCEPT ![p] =
          Add(Tally(@, {"downs"} \cup {"session_resets"}), {"session_reset_routes"}, affected)]
    BY <1>7 DEF PeerDown, ResetPeerRoutes, ResetCounters
  <2> QED
    BY <1>4, <2>1
<1>8. CASE PeerUp(p)
  <2>1. \/ peer_stats' = [peer_stats EXCEPT ![p] = Tally(@, {"ups"})]
        \/ peer_stats' = [peer_stats EXCEPT ![p] =
              Add(Tally(@, {"ups"} \cup {"session_resets"}), {"session_reset_routes"}, affected)]
    BY <1>8 DEF PeerUp, ResetPeerRoutes, ResetCounters
  <2> QED
    BY <1>4, <2>1
<1> QED
  BY <1>5, <1>6, <1>7, <1>8

LEMMA RibElementCounts ==
  ASSUME CounterTypes, NEW p \in Peer, NEW x \in Prefix, RibElement(p, x)
  PROVE  \A q \in Peer : Counts(q)
<1>1. /\ table' = table
      /\ \/ UNCHANGED peer_stats
         \/ peer_stats' = [peer_stats EXCEPT ![p] =
               Tally(@, ({"rib_elements"} \cap PeerCounter) \cup {"out_of_order"})]
  BY DEF RibElement, HandleRib, CountLate
<1>2. \A k \in keys : ~(Altered(k) /\ Known(k))
  BY <1>1 DEF Altered
<1>3. "ordinary" \notin ({"rib_elements"} \cap PeerCounter) \cup {"out_of_order"}
  OBVIOUS
<1> QED
  BY <1>1, <1>2, <1>3, QuietCounts

LEMMA NextCounts == Inv /\ SessionInv /\ CounterTypes /\ [Next]_vars => \A q \in Peer : Counts(q)
<1> SUFFICES ASSUME Inv, SessionInv, CounterTypes, [Next]_vars PROVE \A q \in Peer : Counts(q)
  OBVIOUS
<1>1. CASE UNCHANGED vars
  BY <1>1 DEF vars, truth, stats, Counts, Counted, Altered
<1>2. CASE Message
  <2>1. PICK p \in PeersOf(keys) :
          \/ \E x \in Prefix :
               Withdrawal(p, x) \/ RibElement(p, x) \/ \E d \in Routes[<<p, x>>] : Announcement(p, x, d)
          \/ PeerDown(p) \/ PeerUp(p) \/ EndOfRib(p) \/ LateSessionMessage(p)
    BY <1>2 DEF Message
  <2>2. p \in Peer
    BY KeyFacts DEF Inv, TruthTypes
  <2>3. ASSUME NEW x \in Prefix, NEW d \in Routes[<<p, x>>], Announcement(p, x, d)
        PROVE  \A q \in Peer : Counts(q)
    <3>1. d \in Digest
      BY <2>2, ChurnAssumption
    <3> QED
      BY <2>2, <2>3, <3>1, AnnouncementHears, HearsCounts
  <2>4. ASSUME NEW x \in Prefix, Withdrawal(p, x)
        PROVE  \A q \in Peer : Counts(q)
    BY <2>2, <2>4, WithdrawalHears, HearsCounts
  <2>5. ASSUME NEW x \in Prefix, RibElement(p, x)
        PROVE  \A q \in Peer : Counts(q)
    BY <2>2, <2>5, RibElementCounts
  <2> QED
    BY <2>1, <2>2, <2>3, <2>4, <2>5, SessionCounts
<1> QED
  BY <1>1, <1>2 DEF Next

\* Whatever the messages: the plugin counts ordinary churn of a peer exactly when the
\* peer's table changes in a session that goes on, not while it exchanges its table anew
\* (until the grace period is over), and misses no change of a table it knows
\* (handle_announcement, handle_withdrawal, peer_sync_active and handle_rib).
THEOREM ChurnIsCounted == Spec => ChurnIsReal
<1>1. Inv /\ SessionInv /\ CounterTypes /\ [Next]_vars =>
        [\A p \in PeersOf(keys) : trusted'[p] =>
           LET counted == peer_stats'[p]["ordinary"] # peer_stats[p]["ordinary"]
               altered(k) == table'[k] # table[k] /\ phase'[p] = phase[p]
               overrun == options.grace > 0 /\ now' - changed[p] > options.grace
           IN  /\ counted => /\ \E k \in KeysOf(p) : altered(k)
                             /\ phase[p] # "resync" \/ overrun
               /\ \A k \in KeysOf(p) :
                    /\ altered(k) /\ Scored(now')
                    /\ phase[p] = "settled" \/ (phase[p] = "unknown" /\ routes[k].initialized)
                    => counted]_vars
  <2> SUFFICES ASSUME Inv, SessionInv, CounterTypes, [Next]_vars, NEW p \in PeersOf(keys), trusted'[p]
               PROVE  /\ peer_stats'[p]["ordinary"] # peer_stats[p]["ordinary"] =>
                           /\ \E k \in KeysOf(p) : table'[k] # table[k] /\ phase'[p] = phase[p]
                           /\ phase[p] # "resync" \/ (options.grace > 0 /\ now' - changed[p] > options.grace)
                      /\ \A k \in KeysOf(p) :
                           /\ table'[k] # table[k] /\ phase'[p] = phase[p] /\ Scored(now')
                           /\ phase[p] = "settled" \/ (phase[p] = "unknown" /\ routes[k].initialized)
                           => peer_stats'[p]["ordinary"] # peer_stats[p]["ordinary"]
    BY Zenon
  <2>1. p \in Peer
    BY KeyFacts DEF Inv, TruthTypes
  <2>2. Counts(p)
    BY <2>1, NextCounts
  <2>3. \A k \in KeysOf(p) : k[1] = p
    BY DEF KeysOf
  <2> QED
    BY <2>2, <2>3 DEF Counts, Counted, Altered, Overrun, Known
<1>2. Inv /\ CounterInv => CounterTypes
  BY DEF CounterInv
<1> QED
  BY <1>1, <1>2, Invariant, CountersInvariant, InitSession, NextSession, PTL DEF Spec, ChurnIsReal

=============================================================================
