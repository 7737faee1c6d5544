----------------------------- MODULE RouteChurn -----------------------------
(***************************************************************************)
(* The single router churn plugin: it rebuilds, from a router's messages,  *)
(* the table each of its peers announces, and classifies every update of   *)
(* it: ordinary churn, part of a session reset, duplicate, cold start.     *)
(*                                                                         *)
(* Next to the plugin's state the module keeps the truth the messages come *)
(* from: the peers' tables and sessions.  The messages are those of one    *)
(* router.  Their times never decrease, which is all a strict host         *)
(* promises; of two messages with the same time the one ordered first may  *)
(* arrive last ("overtaken").  Times count from the first message.         *)
(***************************************************************************)
EXTENDS Integers, FiniteSets, FiniteSetsExt

CONSTANTS
  Peer, Prefix, ASN,
  Digest,        \* the routes: [as_path, origin_set, path_member_set, attributes]
  NoRoute,       \* the table entry of a prefix the peer does not announce
  Options,       \* configurations: [warmup, grace, assume_complete]
  RouteKeys,     \* sets of keys <<peer, prefix>>, each followed by some run
  Routes,        \* the routes announced under each key
  Times,         \* the times at which messages come
  Whole,         \* the mass of an event, in units that make every origin's share whole
  MaxMessages, MaxOvertaken            \* bounds

ASSUME ChurnAssumption ==
  /\ IsFiniteSet(Peer) /\ IsFiniteSet(Prefix) /\ IsFiniteSet(ASN) /\ IsFiniteSet(Digest)
  /\ NoRoute \notin Digest
  /\ \A d \in Digest : d.origin_set \subseteq ASN
  \* The members of a path follow from the path (derive_path_member_set).
  /\ \A d, e \in Digest : d.as_path = e.as_path /\ d.origin_set = e.origin_set
                             /\ d.attributes = e.attributes => d = e
  /\ Options \subseteq [warmup : Nat, grace : Nat, assume_complete : BOOLEAN]
  /\ RouteKeys \subseteq SUBSET (Peer \X Prefix)
  /\ Routes \in [Peer \X Prefix -> SUBSET Digest]
  /\ Times \subseteq Nat /\ 0 \in Times
  /\ MaxMessages \in Nat /\ MaxOvertaken \in Nat
  \* The two routes of a replacement have one half of its mass each.
  /\ Whole \in Nat
  /\ \A d \in Digest : d.origin_set # {} =>
       \E n \in 1..Whole : Whole = 2 * (n * Cardinality(d.origin_set))

VARIABLES
  options, keys,      \* the configuration and the keys this run is about
  \* The truth: what each peer announces; the state of its session ("unknown":
  \* it was up before the first message) and the time of its last change; the
  \* order of the last message about a key; whether the order in which a peer's
  \* messages arrived still determines its table; a dump being sent, the keys
  \* it has told of, and the time of the last dump.
  table, phase, changed, sent, trusted, dump, dumped, last_dump,
  messages, overtaken, now,
  \* The plugin: PeerData, RouteState, the peers and the time of the dump it reads.
  peers, routes, current_rib_dump_peers, current_rib_dump_timestamp,
  \* Its statistics: global, PeerStats, PrefixStats, PathAsStats counters and
  \* the OriginStats with the unattributable events.
  total, peer_stats, prefix_stats, path_as_stats, ledger,
  exposed             \* history: route time per origin, added up as time passes

setup == <<options, keys>>
truth == <<table, phase, changed, sent, trusted, dump, dumped, last_dump>>
clock == <<messages, overtaken, now>>
rib_dump == <<current_rib_dump_peers, current_rib_dump_timestamp>>
plugin == <<peers, routes, rib_dump>>
stats == <<total, peer_stats, prefix_stats, path_as_stats, ledger>>
vars == <<setup, truth, clock, plugin, stats, exposed>>

Never == -1
NoDigest == [as_path |-> "none", origin_set |-> {}, path_member_set |-> {}, attributes |-> "none"]
PeersOf(ks) == {k[1] : k \in ks}
KeysOf(p) == {k \in keys : k[1] = p}

-----------------------------------------------------------------------------
(* Counters *)

Ordinary == {"new_routes", "reannouncements", "effective_withdrawals", "replacements"}
SyncOutcome == {"sync_announcements", "sync_replacements", "sync_withdrawals"}
NoChange == {"duplicate_announcements", "duplicate_withdrawals", "unknown_withdrawals"}
\* What an update can come to.  The code counts nothing for a change before the
\* end of the warm-up: the two "unscored" counters are kept for the properties.
Outcome == Ordinary \cup SyncOutcome \cup NoChange \cup
           {"cold_starts", "unscored_announcements", "unscored_withdrawals"}

TotalCounter == NoChange \cup
  {"raw_total", "raw_scored", "rib_elements", "ordinary", "session_induced", "cold_starts",
   "route_order_violations", "peer_order_violations", "cross_prefix_observations"}
PeerCounter == SyncOutcome \cup NoChange \cup
  {"raw_total", "raw_scored", "ordinary", "ups", "downs", "session_resets",
   "session_reset_routes", "end_of_ribs", "out_of_order"}
PrefixCounter == Outcome \cup
  {"raw_total", "raw_scored", "ordinary", "rib_baselines", "late_rib_resyncs",
   "session_reset_withdrawals", "out_of_order", "as_path", "origin_set", "attributes"}
PathCounter == {"changed", "added", "removed", "retained", "session_induced"}
OriginCounter == Ordinary \cup
  {"raw", "raw_scored", "ordinary", "reset", "as_path", "attributes", "origin_in",
   "origin_out", "seconds"}

Zero(names) == [c \in names |-> 0]
Add(counters, names, n) == [c \in DOMAIN counters |-> counters[c] + IF c \in names THEN n ELSE 0]
Tally(counters, names) == Add(counters, names, 1)
SumOver(terms, S) == MapThenSumSet(LAMBDA i : terms[i], S)
Over(f, S, value(_)) == SumOver([i \in S |-> value(f[i])], S)

OrdinarySum(c) == c["new_routes"] + c["reannouncements"] + c["effective_withdrawals"] +
                  c["replacements"]
SyncSum(c) == c["sync_announcements"] + c["sync_replacements"] + c["sync_withdrawals"]
NoChangeSum(c) == c["duplicate_announcements"] + c["duplicate_withdrawals"] +
                  c["unknown_withdrawals"]

\* Whether the outcome also counts as a change, per level (mark_* and the ends
\* of handle_announcement and handle_withdrawal).
OrdinaryToo(o) == IF o \in Ordinary THEN {"ordinary"} ELSE {}
PrefixTally(o) == {o} \cup OrdinaryToo(o)
PeerTally(o) == {o} \cup OrdinaryToo(o)
TotalTally(o) == {o} \cup OrdinaryToo(o) \cup
                 IF o \in SyncOutcome THEN {"session_induced"} ELSE {}

-----------------------------------------------------------------------------
(* Mass of events per origin.  An event has the mass Whole, shared evenly by *)
(* the origins of its route.                                                 *)

\* credit_side and for_each_origin_share: counter names may depend on the origin.
CreditEach(l, origins, mass, names(_)) ==
  IF origins = {}
  THEN [l EXCEPT !.unknown = @ + 1]
  ELSE [l EXCEPT !.mass = [a \in ASN |->
         IF a \in origins THEN Add(@[a], names(a), mass \div Cardinality(origins)) ELSE @[a]]]
Credit(l, origins, mass, names) == CreditEach(l, origins, mass, LAMBDA a : names)

CreditRaw(l, d, scored) ==
  Credit(l, d.origin_set, Whole, {"raw"} \cup IF scored THEN {"raw_scored"} ELSE {})

\* The origins of the old and of the new route share a replacement.
SplitReplacement(l, old, new, side(_, _, _, _, _)) ==
  CASE old = new \/ old = {} -> side(l, new, old, Whole, "origin_in")
    [] old # new /\ new = {} -> side(l, old, new, Whole, "origin_out")
    [] OTHER -> side(side(l, old, new, Whole \div 2, "origin_out"),
                     new, old, Whole \div 2, "origin_in")

\* Mutant of CreditReplacement: the new route's origins get the whole mass.
CreditReplacementWhole(l, old, new, mask) ==
  LET side(x, origins, others, mass, direction) ==
        Credit(x, origins, IF direction = "origin_in" THEN Whole ELSE mass,
               {"ordinary", "replacements", direction})
  IN  SplitReplacement(l, old.origin_set, new.origin_set, side)

\* credit_origin_replacement
CreditReplacement(l, old, new, mask) ==
  LET side(x, origins, others, mass, direction) ==
        CreditEach(x, origins, mass, LAMBDA a :
          {"ordinary", "replacements"} \cup (mask \cap {"as_path", "attributes"}) \cup
          IF a \in others THEN {} ELSE {direction})
  IN  SplitReplacement(l, old.origin_set, new.origin_set, side)

\* mark_sync_replacement, at the origins
CreditSyncReplacement(l, old, new) ==
  LET side(x, origins, others, mass, direction) == Credit(x, origins, mass, {"reset"})
  IN  SplitReplacement(l, old.origin_set, new.origin_set, side)

\* credit_path_as_change
InvolvePath(old, new, session) ==
  [a \in ASN |->
    LET in_old == a \in old.path_member_set
        in_new == a \in new.path_member_set
    IN  CASE ~in_old /\ ~in_new -> path_as_stats[a]
          [] (in_old \/ in_new) /\ session -> Tally(path_as_stats[a], {"session_induced"})
          [] OTHER -> Tally(path_as_stats[a], {"changed",
                        CASE ~in_old -> "added" [] ~in_new -> "removed" [] OTHER -> "retained"})]

-----------------------------------------------------------------------------
(* Time *)

Later(a, b) == IF a < b THEN b ELSE a
Elapsed(start, end) == IF end < start THEN 0 ELSE end - start

\* OrderKey: by time, then by the place of the message in its files.
OrderKey(t, late) == 2 * t + IF late THEN 0 ELSE 1

\* is_scored, with observe_time's analysis_start_.
Scored(t) == t >= options.warmup
AnalysisTime(start, end) == Elapsed(Later(start, options.warmup), end)

\* Mutant of CloseExposure: the interval of a route that is gone is added again.
CloseExposureAgain(l, k, t) ==
  LET origins == routes[k].route.origin_set
      elapsed == AnalysisTime(routes[k].active_since, t)
  IN  IF origins = {} \/ elapsed = 0 THEN l
      ELSE Credit(l, origins, Whole * elapsed, {"seconds"})

\* close_exposure: the route time of k, from its installation or the end of the
\* warm-up, goes to its origins.
CloseExposure(l, k, t) ==
  LET origins == routes[k].route.origin_set
      elapsed == AnalysisTime(routes[k].active_since, t)
  IN  IF ~routes[k].active \/ origins = {} \/ elapsed = 0 THEN l
      ELSE Credit(l, origins, Whole * elapsed, {"seconds"})

OpenRoutes == {k \in keys : routes[k].active}

\* A message of peer p with time t and order o arrives, in order or overtaken by
\* one of the peer with the same time: time passes, and with it the
\* route time of what the plugin holds as active.
Receive(p, t, o) ==
  /\ messages < MaxMessages
  /\ messages' = messages + 1
  /\ t >= now
  /\ messages = 0 => t = 0
  /\ now' = t
  /\ \/ /\ o = OrderKey(t, FALSE)
        /\ UNCHANGED overtaken
     \/ /\ o = OrderKey(t, TRUE)
        /\ o < peers[p].last_any_order
        /\ overtaken < MaxOvertaken
        /\ overtaken' = overtaken + 1
  /\ exposed' = [a \in ASN |-> exposed[a] +
       SumOver([k \in keys |->
         LET origins == routes[k].route.origin_set
         IN  IF k \in OpenRoutes /\ a \in origins
             THEN (Whole * AnalysisTime(now, t)) \div Cardinality(origins) ELSE 0], keys)]

-----------------------------------------------------------------------------
(* The order checks and the session *)

\* Mutant of RouteEventIsLate: the peer's latest event counts, not the route's.
PeerEventIsLate(k, o) == o < peers[k[1]].last_any_order

\* route_event_is_late
RouteEventIsLate(k, o) == o < routes[k].last_order

\* route_event_is_late, of an event that is older than another prefix's only.
CrossPrefix(p, o) == IF o < peers[p].last_any_order THEN {"cross_prefix_observations"} ELSE {}

PeerStateEventIsLate(p, o) == o < peers[p].last_any_order

\* Mutant of SyncExpired: the time since the first message is compared.
SyncExpiredSinceStart(p, t) ==
  peers[p].sync_active /\ options.grace > 0 /\ t > options.grace

\* peer_sync_active: past the grace period the synchronization counts as done.
SyncExpired(p, t) ==
  /\ peers[p].sync_active
  /\ options.grace > 0
  /\ t - peers[p].sync_started > options.grace
SyncActive(p, t) == peers[p].sync_active /\ ~SyncExpired(p, t)
BaselineComplete(p, t) == peers[p].baseline_complete \/ SyncExpired(p, t)

\* The peer after an accepted update, with the active routes ids.
AfterUpdate(p, t, o, ids) ==
  [peers[p] EXCEPT !.last_any_order = Later(@, o),
                   !.sync_active = SyncActive(p, t),
                   !.baseline_complete = BaselineComplete(p, t),
                   !.active_route_ids = ids]

\* Mutant of Installed: the new route is not stored.
InstalledWithoutRoute(d, t, o) ==
  [initialized |-> TRUE, active |-> TRUE, route |-> NoDigest,
   active_since |-> Later(t, options.warmup), last_order |-> o]

\* install_route
Installed(d, t, o) ==
  [initialized |-> TRUE, active |-> TRUE, route |-> d,
   active_since |-> Later(t, options.warmup), last_order |-> o]

\* Any other message after the element of a dump: the dump is cut short.
DumpIsOver == dump' = "closed" /\ dumped' = {} /\ UNCHANGED last_dump

\* The truth about a key or a peer's session.  An overtaken update is older than
\* what was sent last about its key; whether a session message overtook it, the
\* updates themselves do not tell.
Update(k, t, o, d) ==
  /\ IF o < sent[k] THEN UNCHANGED <<table, sent>>
     ELSE /\ table' = [table EXCEPT ![k] = d]
          /\ sent' = [sent EXCEPT ![k] = o]
  /\ trusted' = [trusted EXCEPT ![k[1]] = @ /\ (o < OrderKey(t, FALSE) => changed[k[1]] < t)]
  /\ DumpIsOver
  /\ UNCHANGED <<phase, changed>>

SessionChange(p, t, state, ks) ==
  /\ phase' = [phase EXCEPT ![p] = state]
  /\ changed' = [changed EXCEPT ![p] = t]
  /\ table' = [k \in keys |-> IF k \in ks THEN NoRoute ELSE table[k]]
  /\ DumpIsOver
  /\ UNCHANGED <<sent, trusted>>

-----------------------------------------------------------------------------
(* Announcements and withdrawals *)

\* count_raw_update
RawTally(t) == {"raw_total"} \cup IF Scored(t) THEN {"raw_scored"} ELSE {}

\* The counters of a late update: count_raw_update, then route_event_is_late.
CountLate(p, x, names) ==
  /\ total' = Tally(total, names \cup {"route_order_violations"})
  /\ peer_stats' = [peer_stats EXCEPT ![p] = Tally(@, (names \cap PeerCounter) \cup {"out_of_order"})]
  /\ prefix_stats' = [prefix_stats EXCEPT ![x] =
                        Tally(@, (names \cap PrefixCounter) \cup {"out_of_order"})]
  /\ UNCHANGED <<path_as_stats, ledger, plugin>>

\* The counters of an accepted update that came to outcome o with the given
\* changes.
CountUpdate(p, x, t, order, o, mask) ==
  /\ total' = Tally(total, RawTally(t) \cup CrossPrefix(p, order) \cup TotalTally(o))
  /\ peer_stats' = [peer_stats EXCEPT ![p] = Tally(@, RawTally(t) \cup PeerTally(o))]
  /\ prefix_stats' = [prefix_stats EXCEPT ![x] =
       Tally(@, RawTally(t) \cup PrefixTally(o) \cup IF o = "replacements" THEN mask ELSE {})]

\* route_change_mask
ChangeMask(old, new) == {f \in {"as_path", "origin_set", "attributes"} : old[f] # new[f]}

AnnouncementOutcome(k, d, t) ==
  LET p == k[1]
      sync == SyncActive(p, t)
  IN  CASE ~routes[k].initialized ->
             IF sync THEN "sync_announcements"
             ELSE IF Scored(t) /\ BaselineComplete(p, t) THEN "new_routes" ELSE "cold_starts"
        [] routes[k].initialized /\ ~routes[k].active ->
             IF sync THEN "sync_announcements"
             ELSE IF Scored(t) THEN "reannouncements" ELSE "unscored_announcements"
        [] routes[k].active /\ ChangeMask(routes[k].route, d) = {} -> "duplicate_announcements"
        [] OTHER ->
             IF sync THEN "sync_replacements"
             ELSE IF Scored(t) THEN "replacements" ELSE "unscored_announcements"

\* mark_ordinary_* and mark_sync_* of an announcement, at the origins.
AnnouncementLedger(k, d, t, o) ==
  LET raw == CreditRaw(ledger, d, Scored(t))
      closed == IF o = "duplicate_announcements" THEN raw ELSE CloseExposure(raw, k, t)
      old == routes[k].route
  IN  CASE o \in {"new_routes", "reannouncements"} ->
             Credit(closed, d.origin_set, Whole, {"ordinary", o})
        [] o = "sync_announcements" -> Credit(closed, d.origin_set, Whole, {"reset"})
        [] o = "replacements" -> CreditReplacement(closed, old, d, ChangeMask(old, d))
        [] o = "sync_replacements" -> CreditSyncReplacement(closed, old, d)
        [] OTHER -> closed

\* process_message and handle_announcement
Announcement(p, x, d) == \E t \in Times, late \in BOOLEAN :
  LET k == <<p, x>>
      order == OrderKey(t, late)
      o == AnnouncementOutcome(k, d, t)
      old == routes[k].route
      mask == IF o \in {"replacements", "sync_replacements"} THEN ChangeMask(old, d) ELSE {}
  IN  /\ k \in keys /\ phase[p] # "down"
      /\ Receive(p, t, order)
      /\ Update(k, t, order, d)
      /\ IF RouteEventIsLate(k, order)
         THEN CountLate(p, x, RawTally(t))
         ELSE /\ CountUpdate(p, x, t, order, o, mask)
              /\ path_as_stats' = IF "as_path" \in mask
                                  THEN InvolvePath(old, d, o = "sync_replacements")
                                  ELSE path_as_stats
              /\ ledger' = AnnouncementLedger(k, d, t, o)
              /\ routes' = [routes EXCEPT ![k] =
                    IF o = "duplicate_announcements" THEN [@ EXCEPT !.last_order = order]
                    ELSE Installed(d, t, order)]
              /\ peers' = [peers EXCEPT ![p] =
                    AfterUpdate(p, t, order, peers[p].active_route_ids \cup {k})]
              /\ UNCHANGED rib_dump
      /\ UNCHANGED setup

WithdrawalOutcome(k, t) ==
  CASE ~routes[k].initialized -> "unknown_withdrawals"
    [] routes[k].initialized /\ ~routes[k].active -> "duplicate_withdrawals"
    [] OTHER -> IF SyncActive(k[1], t) THEN "sync_withdrawals"
                ELSE IF Scored(t) THEN "effective_withdrawals" ELSE "unscored_withdrawals"

WithdrawalLedger(k, t, o) ==
  LET closed == CloseExposure(ledger, k, t)
      origins == routes[k].route.origin_set
  IN  CASE o = "sync_withdrawals" -> Credit(closed, origins, Whole, {"reset"})
        [] o = "effective_withdrawals" -> Credit(closed, origins, Whole, {"ordinary", o})
        [] OTHER -> closed

\* process_message and handle_withdrawal
Withdrawal(p, x) == \E t \in Times, late \in BOOLEAN :
  LET k == <<p, x>>
      order == OrderKey(t, late)
      o == WithdrawalOutcome(k, t)
  IN  /\ k \in keys /\ phase[p] # "down"
      /\ Receive(p, t, order)
      /\ Update(k, t, order, NoRoute)
      /\ IF RouteEventIsLate(k, order)
         THEN CountLate(p, x, RawTally(t))
         ELSE /\ CountUpdate(p, x, t, order, o, {})
              /\ ledger' = WithdrawalLedger(k, t, o)
              /\ routes' = [routes EXCEPT ![k] =
                    [@ EXCEPT !.initialized = TRUE, !.active = FALSE, !.last_order = order]]
              /\ peers' = [peers EXCEPT ![p] =
                    AfterUpdate(p, t, order, peers[p].active_route_ids \ {k})]
              /\ UNCHANGED <<path_as_stats, rib_dump>>
      /\ UNCHANGED setup

-----------------------------------------------------------------------------
(* RIB dumps *)

\* A dump is a snapshot of all tables: its elements come together and with one
\* time, no two dumps have the same, and those of its first record (one prefix) say
\* Start, the last one says End.
RibPosition(k) ==
  LET whole == {j \in keys : table[j] # NoRoute} \subseteq dumped \cup {k}
  IN  CASE dump = "closed" -> {"start"}
        [] dump = k[2] /\ ~whole -> {"start"}
        [] OTHER -> IF whole THEN {"end"} ELSE {"middle"}

\* The peer of k after an accepted element about k, and the peers when the dump ends that
\* told of the peers in read.
AfterElement(k, o) ==
  [peers[k[1]] EXCEPT !.last_any_order = Later(@, o), !.active_route_ids = @ \cup {k}]
AfterDump(known, read) ==
  [q \in Peer |-> IF q \in read
                 THEN [known[q] EXCEPT !.baseline_complete = TRUE, !.sync_active = FALSE]
                 ELSE known[q]]

\* handle_rib, of the element of a dump that says the given position.
HandleRib(k, t, order, position) ==
  LET p == k[1]
      x == k[2]
      anew == position = "start" \/ current_rib_dump_timestamp # t
      read == IF anew THEN {p} ELSE current_rib_dump_peers \cup {p}
      known == [peers EXCEPT ![p] = AfterElement(k, order)]
  IN  IF RouteEventIsLate(k, order)
      THEN CountLate(p, x, {"rib_elements"})
      ELSE /\ total' = Tally(total, {"rib_elements"} \cup CrossPrefix(p, order))
           /\ prefix_stats' = [prefix_stats EXCEPT ![x] =
                Tally(@, {"rib_baselines"} \cup
                         IF routes[k].active /\ Scored(t) THEN {"late_rib_resyncs"} ELSE {})]
           /\ ledger' = CloseExposure(ledger, k, t)
           /\ routes' = [routes EXCEPT ![k] = Installed(table[k], t, order)]
           /\ peers' = IF position = "end" THEN AfterDump(known, read) ELSE known
           /\ current_rib_dump_peers' = IF position = "end" THEN {} ELSE read
           /\ current_rib_dump_timestamp' = t
           /\ UNCHANGED <<peer_stats, path_as_stats>>

\* process_message: a peer that is up announces the prefix in a dump.
RibElement(p, x) == \E t \in Times, late \in BOOLEAN, position \in RibPosition(<<p, x>>) :
  LET k == <<p, x>>
      order == OrderKey(t, late)
      sending == dumped \cup {k}
  IN  /\ k \in keys /\ phase[p] # "down" /\ table[k] # NoRoute
      /\ IF dump = "closed" THEN t > last_dump ELSE t = now /\ k \notin dumped
      /\ Receive(p, t, order)
      /\ sent' = [sent EXCEPT ![k] = Later(@, order)]
      /\ dump' = CASE position = "start" -> x [] position = "middle" -> "body" [] OTHER -> "closed"
      /\ dumped' = IF position = "end" THEN {} ELSE sending
      /\ phase' = IF position # "end" THEN phase
                  ELSE [q \in Peer |-> IF q \in PeersOf(sending) THEN "dumped" ELSE phase[q]]
      /\ last_dump' = t
      /\ HandleRib(k, t, order, position)
      /\ UNCHANGED <<table, changed, trusted, setup>>

-----------------------------------------------------------------------------
(* Sessions *)

\* reset_peer_routes on the counters and the routes: the active routes of the
\* peer become inactive and carry the order of the session message.
ResetLedger(l, p, t) ==
  FoldSet(LAMBDA k, x :
            LET closed == CloseExposure(x, k, t)
            IN  IF Scored(t) THEN Credit(closed, routes[k].route.origin_set, Whole, {"reset"})
                ELSE closed,
          l, peers[p].active_route_ids)

ResetRoutes(p, order) ==
  [k \in keys |-> IF k \in peers[p].active_route_ids
                  THEN [routes[k] EXCEPT !.active = FALSE, !.last_order = order] ELSE routes[k]]

\* Mutant of ResetCounters: only the first route of the peer is counted.
ResetCountersOnce(p, t, names) ==
  LET affected == Cardinality(peers[p].active_route_ids)
      n == IF Scored(t) /\ affected > 0 THEN 1 ELSE 0
  IN  /\ total' = Add(total, {"session_induced"}, n)
      /\ peer_stats' = [peer_stats EXCEPT ![p] =
            Add(Tally(@, names \cup {"session_resets"}), {"session_reset_routes"}, affected)]
      /\ prefix_stats' = [x \in Prefix |->
            Add(prefix_stats[x], {"session_reset_withdrawals"},
                IF Scored(t) /\ <<p, x>> \in peers[p].active_route_ids THEN 1 ELSE 0)]

ResetCounters(p, t, names) ==
  LET affected == Cardinality(peers[p].active_route_ids)
  IN  /\ total' = Add(total, {"session_induced"}, IF Scored(t) THEN affected ELSE 0)
      /\ peer_stats' = [peer_stats EXCEPT ![p] =
            Add(Tally(@, names \cup {"session_resets"}), {"session_reset_routes"}, affected)]
      /\ prefix_stats' = [x \in Prefix |->
            Add(prefix_stats[x], {"session_reset_withdrawals"},
                IF Scored(t) /\ <<p, x>> \in peers[p].active_route_ids THEN 1 ELSE 0)]

ResetPeerRoutes(p, t, order, names) ==
  /\ ResetCounters(p, t, names)
  /\ ledger' = ResetLedger(ledger, p, t)
  /\ routes' = ResetRoutes(p, order)

\* handle_peer_state, from Established to a state below it: the peer's table is gone.
PeerDown(p) == \E t \in Times :
  LET order == OrderKey(t, FALSE)
  IN  /\ phase[p] # "down"
      /\ Receive(p, t, order)
      /\ SessionChange(p, t, "down", KeysOf(p))
      /\ ResetPeerRoutes(p, t, order, {"downs"})
      /\ peers' = [peers EXCEPT ![p] =
            [@ EXCEPT !.last_any_order = order, !.established = FALSE, !.sync_active = FALSE,
                      !.baseline_complete = FALSE, !.active_route_ids = {}]]
      /\ UNCHANGED <<setup, path_as_stats, rib_dump>>

\* handle_peer_state, to Established.  The end of a session that the plugin knows
\* to be established may have been missed: its routes are reset first.
PeerUp(p) == \E t \in Times :
  LET order == OrderKey(t, FALSE)
  IN  /\ phase[p] = "down" \/ peers[p].established
      /\ Receive(p, t, order)
      /\ SessionChange(p, t, "resync", KeysOf(p))
      /\ IF peers[p].established /\ peers[p].active_route_ids # {}
         THEN ResetPeerRoutes(p, t, order, {"ups"})
         ELSE /\ peer_stats' = [peer_stats EXCEPT ![p] = Tally(@, {"ups"})]
              /\ UNCHANGED <<total, prefix_stats, ledger, routes>>
      /\ peers' = [peers EXCEPT ![p] =
            [@ EXCEPT !.last_any_order = order, !.established = TRUE, !.sync_active = TRUE,
                      !.baseline_complete = FALSE, !.sync_started = t,
                      !.active_route_ids = IF peers[p].established THEN {}
                                           ELSE peers[p].active_route_ids]]
      /\ UNCHANGED <<setup, path_as_stats, rib_dump>>

\* handle_end_of_rib: the peer has sent its whole table in a session whose
\* beginning was seen.
EndOfRib(p) == \E t \in Times :
  LET order == OrderKey(t, FALSE)
  IN  /\ phase[p] \in {"resync", "dumped", "settled"}
      /\ Receive(p, t, order)
      /\ SessionChange(p, t, "settled", {})
      /\ peer_stats' = [peer_stats EXCEPT ![p] = Tally(@, {"end_of_ribs"})]
      /\ peers' = [peers EXCEPT ![p] =
            [@ EXCEPT !.last_any_order = order, !.sync_active = FALSE, !.baseline_complete = TRUE]]
      /\ UNCHANGED <<setup, total, prefix_stats, path_as_stats, ledger, routes,
                     rib_dump>>

\* peer_state_event_is_late: a session or end-of-RIB message that a message of
\* the peer has overtaken is dropped.
LateSessionMessage(p) == \E t \in Times :
  LET order == OrderKey(t, TRUE)
  IN
      /\ Receive(p, t, order)
      /\ PeerStateEventIsLate(p, order)
      /\ trusted' = [trusted EXCEPT ![p] = FALSE]
      /\ total' = Tally(total, {"peer_order_violations"})
      /\ peer_stats' = [peer_stats EXCEPT ![p] = Tally(@, {"out_of_order"})]
      /\ DumpIsOver
      /\ UNCHANGED <<setup, table, phase, changed, sent, plugin, prefix_stats, path_as_stats,
                     ledger>>

-----------------------------------------------------------------------------
(* The specification *)

NewRoute == [initialized |-> FALSE, active |-> FALSE, route |-> NoDigest,
             active_since |-> 0, last_order |-> Never]
NewPeer == [established |-> FALSE, sync_active |-> FALSE, sync_started |-> 0,
            baseline_complete |-> options.assume_complete /\ options.warmup = 0,
            last_any_order |-> Never, active_route_ids |-> {}]

\* The plugin starts amid the life of the sessions: the peers may announce
\* routes it has not heard of, unless the operator says that it is not so.
Init ==
  /\ options \in Options /\ keys \in RouteKeys
  /\ \E d \in Digest \cup {NoRoute} :
       /\ options.assume_complete => d = NoRoute
       /\ table = [k \in keys |-> d]
  /\ phase = [p \in Peer |-> "unknown"]
  /\ changed = [p \in Peer |-> Never] /\ sent = [k \in keys |-> Never]
  /\ trusted = [p \in Peer |-> TRUE] /\ dump = "closed" /\ dumped = {}
  /\ last_dump = Never
  /\ messages = 0 /\ overtaken = 0 /\ now = 0
  /\ peers = [p \in Peer |-> NewPeer]
  /\ routes = [k \in keys |-> NewRoute]
  /\ current_rib_dump_peers = {} /\ current_rib_dump_timestamp = Never
  /\ total = Zero(TotalCounter)
  /\ peer_stats = [p \in Peer |-> Zero(PeerCounter)]
  /\ prefix_stats = [x \in Prefix |-> Zero(PrefixCounter)]
  /\ path_as_stats = [a \in ASN |-> Zero(PathCounter)]
  /\ ledger = [mass |-> [a \in ASN |-> Zero(OriginCounter)], unknown |-> 0]
  /\ exposed = [a \in ASN |-> 0]

Message ==
  \E p \in PeersOf(keys) :
    \/ \E x \in Prefix : Withdrawal(p, x) \/ RibElement(p, x) \/ \E d \in Routes[<<p, x>>] : Announcement(p, x, d)
    \/ PeerDown(p) \/ PeerUp(p) \/ EndOfRib(p) \/ LateSessionMessage(p)

\* The input may end anywhere.
Next == Message \/ (messages = MaxMessages /\ UNCHANGED vars)

Spec == Init /\ [][Next]_vars

-----------------------------------------------------------------------------
(* Properties *)

TypeOK ==
  /\ options \in Options /\ keys \in RouteKeys
  /\ table \in [keys -> Digest \cup {NoRoute}]
  /\ phase \in [Peer -> {"unknown", "down", "resync", "dumped", "settled"}]
  /\ messages \in 0..MaxMessages /\ overtaken \in 0..MaxOvertaken /\ now \in Times
  /\ \A p \in Peer : peers[p].active_route_ids \subseteq KeysOf(p)
  /\ \A k \in keys : routes[k].active => routes[k].route \in Digest
  /\ current_rib_dump_peers \subseteq Peer /\ dumped \subseteq keys
  /\ total \in [TotalCounter -> Nat]
  /\ peer_stats \in [Peer -> [PeerCounter -> Nat]]
  /\ prefix_stats \in [Prefix -> [PrefixCounter -> Nat]]
  /\ ledger.mass \in [ASN -> [OriginCounter -> Nat]]

\* Once the plugin has heard of a prefix of a peer, it holds the route the peer
\* announces, or none when the peer announces none: through session ends it saw
\* or missed, resynchronizations, dumps, and updates that overtook each other
\* (the per-route order check).  What it calls the peer's active routes are
\* those routes.
TableFollowsTruth ==
  \A k \in keys :
    /\ k \in peers[k[1]].active_route_ids <=> routes[k].active
    /\ trusted[k[1]] /\ routes[k].initialized =>
         table[k] = IF routes[k].active THEN routes[k].route ELSE NoRoute

\* Ordinary churn is churn.  It is counted only when a table changes in a session
\* that is not exchanging its table anew (or has overrun the grace period), and it
\* is counted whenever a table the plugin knows changes after the warm-up.
ChurnIsReal ==
  [][\A p \in PeersOf(keys) : trusted'[p] =>
       LET counted == peer_stats'[p]["ordinary"] # peer_stats[p]["ordinary"]
           altered(k) == table'[k] # table[k] /\ phase'[p] = phase[p]
           overrun == options.grace > 0 /\ now' - changed[p] > options.grace
       IN  /\ counted => /\ \E k \in KeysOf(p) : altered(k)
                         /\ phase[p] # "resync" \/ overrun
           /\ \A k \in KeysOf(p) :
                /\ altered(k) /\ Scored(now')
                /\ phase[p] = "settled" \/ (phase[p] = "unknown" /\ routes[k].initialized)
                => counted]_vars

\* The route time of every origin, closed intervals and those still open at the
\* last message, is what one gets by watching the active routes as time passes.
ExposureIsExact ==
  \A a \in ASN :
    exposed[a] = ledger.mass[a]["seconds"] +
      SumOver([k \in keys |-> CloseExposure(ledger, k, now).mass[a]["seconds"]
                              - ledger.mass[a]["seconds"]], keys)

\* No event mass is lost or made: every accepted announcement, ordinary change and
\* session-induced change has given the mass one to its origins, or counts as
\* unattributable; what an origin got is what its categories got.
MassIsConserved ==
  LET given(m) == m["raw"] + m["ordinary"] + m["reset"]
      announced(c) == OrdinarySum(c) - c["effective_withdrawals"] +
                      SyncSum(c) - c["sync_withdrawals"] +
                      c["duplicate_announcements"] + c["cold_starts"] + c["unscored_announcements"]
  IN  /\ Over(ledger.mass, ASN, given) + Whole * ledger.unknown
           = Whole * (Over(prefix_stats, Prefix, announced) + total["ordinary"] +
                      total["session_induced"])
      /\ \A a \in ASN : ledger.mass[a]["ordinary"] = OrdinarySum(ledger.mass[a])

\* Every update and dump element ends in exactly one way, and the counters of the
\* whole run, of the peers and of the prefixes tell of the same changes.
CountersAddUp ==
  LET outcomes(c) == OrdinarySum(c) + SyncSum(c) + NoChangeSum(c) + c["cold_starts"] +
                     c["unscored_announcements"] + c["unscored_withdrawals"] +
                     c["rib_baselines"] + c["out_of_order"]
      induced(c) == SyncSum(c) + c["session_reset_withdrawals"]
      ordinary(c) == c["ordinary"]
  IN  /\ total["raw_total"] + total["rib_elements"] = Over(prefix_stats, Prefix, outcomes)
      /\ total["ordinary"] = Over(prefix_stats, Prefix, OrdinarySum)
      /\ total["ordinary"] = Over(peer_stats, Peer, ordinary)
      /\ total["session_induced"] = Over(prefix_stats, Prefix, induced)
      /\ Over(prefix_stats, Prefix, SyncSum) = Over(peer_stats, Peer, SyncSum)
      /\ \A x \in Prefix : prefix_stats[x]["ordinary"] = OrdinarySum(prefix_stats[x])

\* The comment at single_router_churn.cpp:829: a peer's table counts as complete
\* only after a RIB or end-of-RIB boundary or on the operator's assumption.
BaselineNeedsBoundary ==
  \A p \in PeersOf(keys) :
    peers[p].baseline_complete => options.assume_complete \/ phase[p] \in {"dumped", "settled"}

=============================================================================
