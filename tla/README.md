# Specifications of the OCEAN / DSR agent

`src/dsr` is an ns-2 agent: Dynamic Source Routing (the CMU/Monarch code, `dsragent.cc`) with
OCEAN on top of it (`bank.*`, `monitor.*`, `ocean.h`), which watches whether neighbours forward
what they are given, lists the ones that do not, and makes a neighbour pay in chips for what is
forwarded for it. These modules model the agent, its tables and networks of agents, check them
on small instances with TLC, and prove with TLAPS, for every value of the constants, the safety
properties that the runs check.

## 1. The system

| Component | State | Operations | Talks to |
|---|---|---|---|
| Bank (`bank.cc`) | per neighbour: chips, rating, two forwarding counters | new entry, inc/dec chips and rating, grant to all | called by monitor, forwarding, bank timer |
| Monitor (`monitor.cc`) | packets sent to a next hop and not yet overheard; faulty list; one second-chance timer per listing | cache a packet, judge expired ones, match an overheard one, list, unlist | bank, route cache, ns-2 scheduler |
| Timers (`dsragent.cc:221-268`) | bank, faulty, send-buffer timers | expire | bank, agent |
| Route cache (`mobicache.cc`, filters in `routecache.cc`) | a primary and a secondary array of paths, each with a victim pointer | add, notice used, find (promotes), dead link, delete node | agent, monitor |
| Request table (`requesttable.cc`) | slots with a node's last request number and backoff state, a victim pointer | get, getEntry, insert | agent |
| Send buffer (`dsragent.cc:272-377`) | slots of packets without a route, with their times | put, check (send, ask, time out), drop all at the end | route cache, request table |
| Agent (`dsragent.cc`) | request number, held route error, role, faulty flag | `recv` and its handlers, `tap`, `xmitFailed` | all of the above, link layer |
| Flow state (`flowstruct.cc`, branches of `dsragent.cc`) | flow and default-flow tables, next flow id | create, establish, use, time out, tell of an unknown flow; switched off in this build | agent |

An agent is sequential: ns-2 runs one handler to its end. What is concurrent is everything
around it: several agents, the packets between them, timers, and links that come and go. A
handler therefore is one action here, except where it loops over the send buffer or sends
several packets (then its steps are actions and nothing else runs in between).

**What is hard.** (a) Two nodes keep separate books about each other and only what is overheard
keeps them in step. (b) Listing, unlisting, praise and blame come late, by timers and by packets
cached before. (c) A dead link must leave both caches, and two caches must look like one. (d)
Copies of a request race and arrive late. (e) Errors about errors are nested and unwrapped. (f)
The send buffer, the backoff and the cache must agree on who waits for what. (g) OCEAN's early
drops were put into handlers whose conventions they do not keep. (h) With flow state a packet
carries an id or nothing in place of its route, and each node must make the same of it.
`PROJECT.json` lists the
hazards line by line with the properties that cover them.

## 2. Modules

| Module | Models | Main correspondence |
|---|---|---|
| `Bank` | `BankEntry`, `Bank`, the monitor's rules on an entry | one operator per method; `PositiveEvents`, `NegativeEvents` are the monitor's loops in closed form |
| `Ocean` | one agent's bank, monitor, timers and the calls from `dsragent.cc` | `bankTable`, `sentPacketTable`, `faultyList`, `secondChance`, `bankTimer`, `routes` (a set of paths) |
| `OceanPair` | two agents that relay for each other, their own packets and those of other sources | each is the other's environment; `RelayUnheard` is a lost overhearing; a packet that an agent forwards for another source (`Pass`) goes on at no charge and is overheard all the same (`RelayGratis`) |
| `Paths` | `path.h`, and what a cache may do to a set of paths | pure operators |
| `RouteStore` | what a route cache promises: a set of paths | abstract specification |
| `MobiCache` | the two arrays, slots, victims, promotion, the filters of `routecache.cc` | implements `RouteStore` with the union of the two arrays (proved) |
| `RequestTable` | slots, victim pointer, and the handlers that call it | `table`, `ptr`; copies of requests are on the air for ever |
| `SendBuffer` | the buffer, its check, eviction, time-outs, the backoff | `sendBuf`, `rq`; `loop` and `cursor` are the loop that runs |
| `Network` | several agents: discovery, forwarding, errors, failed transmissions, tap | `air` has a packet per receiver; `todo` is what the running handler still has to route |
| `FlowState` | several agents with flow state on: establishing, ids, default flows, headerless packets, unknown-flow errors, salvaging | `table`, `dflt`, `counter` are the tables of each node; `air` and `todo` as in `Network` |
| `FaultyTimer` | the timer that makes a node faulty by its schedule | `faultyTimeQueue`, `isFaulty` |
| `BankProofs`, `OceanProofs`, `OceanPairProofs`, `MobiCacheProofs`, `RequestTableProofs`, `TimerProofs` (of `SendBuffer` and `FaultyTimer`), `NetworkProofs`, `FlowStateProofs` | theorems | section 5 |
| `MC*` | instances for TLC | section 3 |

`Ocean` extends `Bank` and `Paths`; `OceanPair` extends `Bank`; `MobiCache` instantiates
`RouteStore`, and both use `Paths`, so that the set of paths in `Ocean` and `Network` is the one
that `MobiCache` is proved to implement. (`Network` and `FlowState` leave eviction out: their
caches are larger than what they are given.) `Paths` also has what a lookup may return
(`Shortest`) and `compressPath`.

`Network` and `FlowState` run code that is off in this build, behind global switches of
`dsragent.cc:130-180`. In `Network` the switches are a variable set at the start: with the set
empty it is the build as it is, otherwise nodes answer requests from their cache
(`dsragent_reply_from_cache_on_propagating`) and shorten routes that they overhear
(`dsragent_send_grat_replies`). `FlowState` has `dsragent_enable_flowstate` and
`dsragent_salvage_with_cache` on.

Operators named as mutants (`...Unclamped`, `ShunnedIfFaulty`, ...) are wrong variants of the
definition below them. No specification uses them; each property is known to fail when the
definition it guards is replaced by one of them.

## 3. Runs

| Run | Instance | Properties |
|---|---|---|
| `ocean` | two neighbours, one relay; chips 0..3, ratings -3..1, timeout 0, two cached packets, counters to 2 | `SecondChancePending`, `ThresholdMeansListed`, `CreditFollowsService`, `ListedRelayUnchecked`, `SecondChanceGiven` |
| `ocean_grants` | the same, without fairness | finding `GrantsSkipFaultyList` |
| `pair` | two symmetric agents, two packets each, own or forwarded; a first chip of 1, a cap of 2, counters to 2 | `HeardWasCharged`, `ChipsCovered`, `BlameMeansCredit` |
| `pair_blame` | the same | finding `FirstChipsLeft` |
| `cache` | four nodes, six routes, five overheard ones, caches of two and two | `PathsWellFormed`, `CachedLinksKnown`, `FoundIsShortest`, `AddedRouteFound`, `SearchLosesVictim`, `IsRouteStore` |
| `requests` | three symmetric nodes, table of two, two numbers each | `OneEntryPerNode`, `ForwardedOnce` |
| `send_buffer` | two destinations, two slots, time-out 3, backoff 1..2 | `NobodyForgotten`, `WaitBounded`, `RoutedMeansOverheard`, `OldestDisplaced` |
| `network` | four nodes in a row and a link between two of them that is down at first; one request per node; one relay of each role and three link changes, or replies from caches and gratuitous ones and two link changes | `RoutesSimple`, `SourceHeadsRoute`, `RoutesWereLinks`, `SelfishOffRoutes`, `ErrorsAddressed`, `ErrorPurges` |
| `network_assert` | the same | finding `RecvDisposed` |
| `network_listed` | the same | finding `NoListedRelay` |
| `flow` | two routes that part at a relay, known to all; three packets of one source, the second with one of two ttls; a table of two flows, eight flow ids; one link change, one salvage, two nested errors; from the start, and from a later state with an error about an error about an error on its way | `FlowFollowsRoute`, `DefaultIsNewest`, `NotRevived`, `BlameJust` |
| `faulty_schedule` | every schedule of up to three periods in seven seconds | `FaultyAsScheduled`, `TimerEnds` |

Every passing run also checks its module's `TypeOK` (`TimerTypeOK` in `FaultyTimer`, whose names
let `TimerProofs` extend it beside `SendBuffer`).

**Bounds, and why they are enough.** In `ocean` two blames reach the threshold and one chip is what
a packet costs, so that an account is at its floor, at its cap, and refused; `MaxCached` 2 makes one
overheard packet match two cached ones, and one check judge two; `MaxDelay` 1 gives a packet a
future sending time. In `pair` the cap is one above the first chip and the counters go to the cap:
an account loses a chip to the cap, is emptied, is refused, and then meets counters that are level
although no chip is left. The counters of the code have no bound; the proofs have `MaxCount`
arbitrary. In `cache` two slots suffice for absorption in place, eviction and promotion between full
caches. In `requests` the third node evicts. In `send_buffer` a slot per destination or both slots
for one; the time-out exceeds the longest backoff, as in the code, where it is 30 s against 10 s (an
`ASSUME`). In `network` three link changes break a link under a packet, then break the way back
under its error (nested errors, `MaxErrors` 2), and bring up the link that lets others overhear; a
request may come back to its originator. ns-2 numbers its nodes from 0, and 0 is also what the
header has for "no addressee" of an error that goes with a request (`GRAT_ROUTE_ERROR`):
`Gratuitous` is node A here, and what it does with such errors is checked with the rest. Routes of
16 nodes do not fit, so the branches for a full route never run there. A packet may stay on the air
for ever, which is how one is lost. `MaxAir` only delays new packets of an application; a handler is
never kept from sending. `moves` is bounded lower with the switches on only because gratuitous
replies multiply the states; two changes still let a cached route go stale and a relay be left out.
In `flow` three packets make a flow, use it, and make a second one when the first has timed out or
is broken; both flows can be on the air at once and arrive in either order, and the ttl tells the
default flow from another one with a different hop count. `EndToEnd` 0 makes the first packet the
only one with the route and the id. A table of two is what three packets fill; `FlowIds` 8 is the
least that keeps ids of two generations apart (a half circle, `FlowAssumption`). Three errors about
unknown flows, each about the one before, take more packets than that, so the run has a second
initial state (`LateInit`), reached when the establishing packets of four flows were lost: there the
errors inside are unwrapped one by one, and one of them tells the node itself.

**Fairness.** ns-2 fires every event at its time, so `Ocean`'s `FairSpec` has weak fairness on
`Tick`, on the bank timer and on the second-chance timers, and `FaultyTimer`'s on its expiry.
Nothing else is assumed fair: neighbours need not send, answer, or be heard.

**Deadlock** is checked except in `send_buffer` (the agent's `Terminate` ends it), `network` (the
request numbers and link changes run out), `flow` (so do the packets and the link changes) and
`faulty_schedule` (the timer deletes itself).

## 4. What the properties say

- *Accounts.* Chips move only by service, grant or charge (`CreditFollowsService`). While nothing
  has gone unheard, each agent's own counters bound from below what the other's bank holds for it
  (`ChipsCovered`): its first chips and what it earned, up to the cap, less what it heard
  forwarded. Chips lost to the cap are lost for good, whereas the counters go on, so this is the
  most that holds. Blame is fair (`BlameMeansCredit`) while nothing has gone unheard and the agent
  has heard fewer packets forwarded than an account can hold chips: past that, two counters that
  are level, one of the two reasons for blame, say nothing of chips left, and the code does
  blame a neighbour with which no credit is left. What was heard was charged for, or is a packet
  of another source that was forwarded at no charge, even when others go unheard
  (`HeardWasCharged`): no transmission is counted twice. `gratis` counts the latter.
- *Faulty list.* Exactly one pending second-chance timer per listed node (`SecondChancePending`),
  nobody at the threshold is unlisted (`ThresholdMeansListed`), listing ends
  (`SecondChanceGiven`). A path that a listed node would relay on was learned again since its listing,
  where the code does not look at the list (`ListedRelayUnchecked`): the purge leaves none, the check
  of replies lets none in, and none comes back from what the cache does to its paths.
- *Routes.* Two caches behave as one set of paths (`IsRouteStore`), keep no dead link, find a
  shortest route; a search that promotes a path loses or lengthens no route but those of the primary
  cache's victim, and only when that cache is full (`SearchLosesVictim`). In a network routes stay
  loop-free (`RoutesSimple`), start with their owner and use links that were there
  (`RoutesWereLinks`), packets and their source routes agree (`SourceHeadsRoute`), selfish nodes
  stay off all of them (`SelfishOffRoutes`, which keeps `handleForwarding`'s branch that neither
  sends nor frees from ever running), errors reach whom they tell (`ErrorsAddressed`) and purge
  (`ErrorPurges`).
- *Waiting.* No packet waits longer than the longest interval of the backoff without a request for
  its destination being sent, and one more such interval for each request that was due and was not
  sent because it fell to a refused foreign packet (`NobodyForgotten`; the histories `quiet` and
  `lost` are kept per packet). A packet leaves in time (`WaitBounded`) and waits for a known
  route only if that was overheard (`RoutedMeansOverheard`). The scan of a full buffer
  (`min_index`, slot by slot as in the code) gives up the oldest packet (`OldestDisplaced`).
- *Requests.* `OneEntryPerNode`, `ForwardedOnce`.
- *Flows.* An id, and a packet with the id or with nothing, means the same route at every node
  (`FlowFollowsRoute`): there is no way for a headerless packet to change over to another flow on
  its way, because the ttl disagrees. Its sender has a default flow at that, so the
  unknown-flow error of `xmitFlowFailed` (dsragent.cc:2909-2918) is never sent, and
  `FailExpired` has no such case. Every node's default is the newest flow it knows, in
  whatever order they came (`DefaultIsNewest`); a source does not take up again a flow it gave up
  (`NotRevived`); a link that is reported was down, headerless packets excepted (`BlameJust`).

### Where code and text part

Checked, each by a run that finds the counterexample:

- `ocean_grants`: bank.cc:139 wants no grant for listed nodes; the test looks at the rating, which
  a packet overheard late has raised, so the bank timer's next grant pays a listed node.
- `pair_blame`: monitor.cc:197-198 concludes that chips are left from a counter of packets heard.
  A relay that went unheard took the last chip, and the agent blames a neighbour with which it has
  none left.
- `network_assert`: dsragent.cc:822 asserts `p.pkt == 0`; OCEAN's drops leave it set. ns-2 builds
  usually define `NDEBUG`, so that the assertion is off there; the model runs on in either case.
- `network_listed`: monitor.cc:227-230 wants no route over a listed node to be taken; `tap` and
  `returnSrcRouteToRequestor` cache one without a look at the list.

Noticed while modelling, and in the models as the code has them, without a run of their own:

- `Cache::deleteRoute` does not look at the last node of a path (mobicache.cc:647), so a route
  *to* a listed node stays (`Paths!Forwarders`).
- A packet that a node forwards for another source is cached, and credited to the next hop when
  it is overheard (dsragent.cc:1746-1755, monitor.cc:80-107), but the next hop charges only for
  packets whose source is its previous hop (dsragent.cc:1180-1184): chips
  are earned that nobody pays. `HeardWasCharged` counts these packets apart.
- The forwarding counters go on where an account stops at its cap, so that two counters can be
  level with no chip left; `BlameMeansCredit` excepts it.
- An answer to an old copy of a request sets the table back to its number
  (requesttable.cc:132 from dsragent.cc:900), after which a newer request is forwarded again;
  `ForwardedOnce` excepts it.
- The promotion into a full primary cache drops the victim instead of demoting it
  (mobicache.cc:439-445, where the comment says it is silently migrated); `SearchLosesVictim`
  excepts it.
- A faulty period that starts in the second in which the one before ends is never entered, nor
  any behind it (dsragent.cc:245, 256); `FaultyAsScheduled` promises entry for periods apart.
- A node's own reply comes back to its `recv` with current address 0, and `get_prev_addr` reads
  what lies before the route (hdr_sr.h:267). `Network` lets it read any node. A selfish node
  drops its own replies.
- `last_type` of a request-table entry is read before it is assigned, in the first half second
  (`SendBuffer!StrayRetry`).
- A refused request of a foreign packet moves the backoff on (dsragent.cc:1829-1843): no request
  is sent, and the next one waits for the interval; `NobodyForgotten` counts these.
- Node 0 takes an error without addressee that comes with a request as one to itself, holds
  it and repeats it with its own next request (dsragent.cc:799-802, 2222-2242, dsragent.h:91).
- A held route error goes out with whatever request comes next within its hold time
  (dsragent.cc:1895-1916), when the link may be up again. Nodes then lose a usable route, which
  nothing in the code would prevent and no property forbids.
- A nested error about an unknown flow may tell the node that unwraps it, since an error about an
  error may cross the node that the first one tells. `handlePktWithoutSR` hands such a packet to
  `handlePacketReceipt` at once (dsragent.cc:839-843, `FlowState!ReceiveOwn`). The branch came to
  light when the invariant that no node sends to itself turned out not to be inductive; `Network`,
  where each error tells the source of the one before it, does have that invariant
  (`ErrorsAddressed`).
- A nested error may be unwrapped twice, by a node that overhears and then receives it.
- Gratuitous replies: the hold-down's victim moves on before its slot is taken
  (dsragent.cc:2519-2521), so the time is kept with another route. The model lets a reply be held
  down or not, and no property is about how often one is sent.
- Flow state, all of it behind the switch:
  - with salvaging off, the first unknown flow aborts at `assert(mine)` (dsragent.cc:2658);
  - the id of an unknown default flow is read uninitialised (2143), and the bound of one error
    list looks at the length of the other (2845), as `FlowState!Full` does; no property bounds the
    list;
  - a headerless packet that fails is put down to the default flow of that moment (2914), so a
    link that is up may be declared dead; `BlameJust` excepts it. A failed packet of a flow that
    has timed out is neither sent nor freed (2923-2934);
  - `cleanup` returns at once, so that flows accumulate and `grow` asserts when the table is
    full (flowstruct.cc:118); the ARS table's hits are never used, since a packet without a route has
    index 0 (1001);
  - packets without a source route pass none of OCEAN's checks (1097).

## 5. Proofs

All constants are arbitrary up to the named assumptions of the modules, which TLC evaluates in
every run. They say no more than the code has it: thresholds in order, caps not below the first
chips, natural bounds, null values outside their types; the routes handed to a cache start at the
agent and repeat no id (`CacheAssumption`; the cut-off parts of an overheard route are routes too,
`HeardAssumption`); the longest backoff is shorter than the send buffer's time-out
(`SendBufferAssumption`); nodes are finitely many (`NetworkAssumption`); routes that discovery
offers are simple, and ids outnumber the flows of a full table four times (`FlowAssumption`: 3000
and 2^16 in the code). `PowersOfFour` states a fact of arithmetic that the provers do not know.

| Module | Theorem | States |
|---|---|---|
| `BankProofs` | `TapLoop`, `BlameLoop` | the closed forms of `Bank` are the monitor's loops |
| `OceanProofs` | `TypeCorrect`, `SecondChanceTimers`, `ThresholdListing`, `CreditConserved`, `ListedRelays` | `TypeOK`, `SecondChancePending`, `ThresholdMeansListed`, `CreditFollowsService`, `ListedRelayUnchecked` |
| `OceanPairProofs` | `TypeCorrect`, `HeardIsCharged`, `ChipsCoveredAlways`, `BlameNeedsCredit` | `TypeOK`, `HeardWasCharged`, `ChipsCovered`, `BlameMeansCredit` |
| `MobiCacheProofs` | `TypeCorrect`, `WellFormed`, `LinksKnown`, `ShortestFound`, `AddedFound`, `OnlyVictimLost`, `StoreRefined` | `TypeOK`, `PathsWellFormed`, `CachedLinksKnown`, `FoundIsShortest`, `AddedRouteFound`, `SearchLosesVictim`, `IsRouteStore` |
| `RequestTableProofs` | `TypeCorrect`, `OneEntry`, `ForwardOnce` | `TypeOK`, `OneEntryPerNode`, `ForwardedOnce` |
| `TimerProofs` | `TypeCorrect`, `WaitIsBounded`, `NobodyIsForgotten`, `RoutedIsOverheard`, `OldestIsDisplaced` | `TypeOK`, `WaitBounded`, `NobodyForgotten`, `RoutedMeansOverheard`, `OldestDisplaced` of `SendBuffer` |
| | `FaultyTimerTypes`, `FaultsFollowSchedule` | `TimerTypeOK`, `FaultyAsScheduled` |
| `NetworkProofs` | `TypeCorrect`, `NoRouteRepeats`, `SourceHeads`, `OnlyLinksUsed`, `SelfishAvoided`, `ErrorsFindAddressee`, `ErrorsPurge` | `TypeOK`, `RoutesSimple`, `SourceHeadsRoute`, `RoutesWereLinks`, `SelfishOffRoutes`, `ErrorsAddressed`, `ErrorPurges` |
| `FlowStateProofs` | `TypeCorrect`, `IdMeansRoute`, `NewestIsDefault`, `GivenUpForGood`, `ErrorsAreJust` | `TypeOK`, `FlowFollowsRoute`, `DefaultIsNewest`, `NotRevived`, `BlameJust` |

**Inductive invariants.** Few of the properties are inductive as they stand.

- `OceanProofs`: `FaultyListInv == TypeOK /\ SecondChancePending /\ ThresholdMeansListed`. The type
  alone is not inductive for the second claim, and the threshold claim needs the timers: a second
  chance may lift a node off the list only because its rating is set off the threshold in the same
  step. `NextInv` has a step per action; lemmas such as `JudgedType` and `SendingType` carry what
  the handlers share. `CreditConserved` follows with the invariant. `ListedRelays` adds
  `Clean(routes, Untold)`: no path is relayed by a node of `Untold`, those listed and not learned
  again since. A lemma for each thing that may happen to a set of paths (insertion, lookup, a dead
  link, the purge) shows that it stays clean.
- `OceanPairProofs`: `PairInv == TypeOK /\ ListedKnown /\ BanksAgree`, where `BanksAgree` is: the
  counters stay in their bound; what one heard the other has charged or forwarded at no charge;
  every account is `Covered`, that is, it holds at least its first chips and what it earned, cut
  at the cap, less what it spent. This survives the cap, since an account that loses a chip to the
  cap holds all that it can. The lemma `HeardCovers` joins the two books. Nothing is assumed about
  where the cap is; `BlameNeedsCredit` assumes `INITIAL_CHIPCOUNT > 0` (200 in the code), for with
  no first chip level counters say nothing at the start.
- `MobiCacheProofs`: `IInv` says of every slot that it is empty or holds a simple path of the agent
  whose links are known. The lemmas describe what adding a path does to one half (absorbed in
  place, or a free slot, or the victim's), and what a promotion, a cut and a deletion leave.
  `StoreRefined` is the step simulation: the initial caches are the empty set of paths, and each
  operation adds to, or cuts, or takes from the set of cached paths what `RouteStore` allows; a
  lookup that promotes may lose a path and no more. `OnlyVictimLost` says which: a node
  that was found at a place of some slot is found at no later place afterwards, in the slot that
  absorbed the path or in one that was left alone, unless the victim's path led to it.
- `RequestTableProofs`: `Unique` (two slots of a node are one) is inductive with the type;
  `ForwardedOnce` needs `Recorded`: while the number kept of a node has not gone down, what was
  forwarded is not above it. An eviction of the entry is one way for it to go down.
- `TimerProofs`, send buffer: the loop over the buffer is interrupted by nothing, but it takes many
  steps, so the invariants speak of the slots it has passed (`Swept`). `Timely` gives them the bound
  and a tick more to the others; `Asked` says how a packet stands to the next request for its
  destination (`Awaited`) and that its wait for one, less an interval for each that was lost
  (`Unpaid`), stays in its bound; `Early` covers the replies that put `last_rt_req` back to 0.0;
  `Emptied` says that no passed slot has a route. The scan for the victim is a recursive function;
  that it returns an oldest slot is shown by a least counterexample. Faulty timer: `OnSchedule`, the
  queue is the rest of the schedule, and, if the periods are apart, those that left it are over and
  the next one has not begun while the node is well.
- `NetworkProofs`: one invariant, `IInv == Setup /\ Air /\ Cache /\ Waiting /\ Todo`, gives each
  kind of packet the convention the handlers rely on: a request's route ends at its sender and lacks
  its target, and it carries at most one error; a unicast packet is at its place on a simple route
  from its source to its destination; a reply offers a route that starts at its destination; each
  nested error is for the source of the one before it. `RoutesSimple` alone is not inductive, since
  routes are joined and reversed: what keeps the pieces disjoint is where they start and end.
  `compressPath` is a recursive function, so that its result is shown simple by a least
  counterexample rather than by induction over the route.
- `FlowStateProofs`: `IInv == Flows /\ Air /\ Cache /\ Todo /\ Rest`. Every entry of a flow has the
  route of its source's entry (`Rooted`), so that two entries of an id agree; ids grow and never
  wrap, since each one that is given out leaves an entry in a table that is never cleaned
  (`Counters`), so that the newest is the largest (`Defaults`); a packet without a route is on a
  link of a flow between its source and destination, and its sender has a flow of theirs
  (`HasOne`), and so a default one (`Unrouted`). Entries are never removed, so
  what was true of an entry or a packet stays so.

**Only model-checked.** The liveness properties `SecondChanceGiven` and `TimerEnds`, since fairness
and `ENABLED` are out of the provers' reach, and the four findings, each a counterexample. The
invariants of `Network` and `FlowState` are proved without the runs' bounds on nodes, routes and
traffic, so branches that no instance reaches, such as the ones for a route of full length, are
covered by the proofs.

## 6. Not modelled

- The automatic route shortening table of flow state (`ARSTable`), whose hits are never used.
- Ring-zero search (a request with propagation limit 0) and snooping on source routes
  (`dsragent_ring_zero_search`, `dsragent_snoop_source_routes`): off. Salvaging is in `FlowState`
  only, since it is off in this build and flow state needs it.
- The faulty list inside a request header is set and read nowhere.
- The ttl of packets with a source route, which no route of up to 16 nodes exhausts (`FlowState`
  has it, where it tells flows apart); header sizes, jitter, ARP spacing, traces and statistics.
- `simplecache.cc`, `linkcache.cc`: other caches to link, which no longer can be: neither defines
  `deleteRoute`, pure virtual in `routecache.h:82`.
- `dsr_proto.cc`, `sr_forwarder.cc`, `add_sr.cc` (an earlier prototype of stubs that nothing
  uses), the Tcl scenarios.
- ns-2 itself (scheduler, 802.11, mobility) is modelled from its use and marked external.

## 7. Plan

Done, in this order: Bank, Ocean and their proofs; OceanPair and its proofs; MobiCache against
RouteStore; RequestTable; FaultyTimer; SendBuffer; Network; FlowState; replies from caches and
gratuitous replies in Network; the proofs of RequestTable, SendBuffer, MobiCache with its
refinement, Network, FlowState and FaultyTimer.

Next:

1. Proofs: that the routes of `Ocean` and of each node of `Network` change only as `RouteStore`
   allows, so that the refinement reaches them; a bound on the time a node stays listed, as the
   safe part of `SecondChanceGiven`.
2. Modules: a `RequestTable` with the backoff times of `SendBuffer`, so that an eviction resets
   both; source-route snooping in `Network`.
3. Instances: `Network` with two flows.
