# TLA+ models of alpha-smart-router

These modules model the lock-free core of the router in `src/`, as spec.md
section 1 delimits it: the parts whose correctness depends on how threads
interleave. They also model the control-plane policies around that core
(failover, QoS scoring with the observer, ingress selection with the BGP
oracle simulator), whose correctness depends on long sequences of calls. A single control-plane thread (CP) publishes state. Data-plane
worker threads (DP) read it per packet, without locks:

| Part | Code | State | Operations |
|---|---|---|---|
| SPSC ring | `unnamed/part_007` (spsc_queue.hpp) | `head_`, `tail_`, `buf_[C]` | `with_capacity`, `push` (copy, move), `pop`, observers |
| Packet pool | `src/alpha/mem/spsc_queue.cpp` (packet_pool.cpp part), `unnamed/part_006` | a free ring of `2N` handles, `N` descriptors | constructor (seeding), `acquire`, `release`, `get` |
| Metrics slot | `src/alpha/routing/path_selection.cpp` 16-34 | `seq` (u32), `PathMetrics` payload | `cp::update_metrics`, `dp::load_metrics` (at most 4 tries) |
| Policy binding | `policy_binding.hpp` 34-49, `policy_binding.cpp` | `seq`, `fn`, `state` | `cp::publish_policy`, `cp::clear_policy`, `dp::snapshot_binding`, `dp::select_path` |
| Service registry | `src/alpha/routing/service_registry.cpp` | `map_` (shared_ptr snapshot), `version_`, 5 counters | `add/replace/upsertService` (via `mutate`), `removeService`, `clear`, read queries |
| Policies | `path_selection.cpp` 45-118 | RR `idx_`, LatencyAware `salt_` | `choose` of RoundRobin, FlowHash, LatencyAware |
| Failover policy | `failover_policy.cpp` | `cfg_`; the caller keeps the current path | the constructor, `evaluate` over health, scores and time, `update_config` |
| QoS policy, observer | `qos_policy.cpp` (with `SimpleObserver` of observability.cpp appended) | `cfg_`, the observer's counters | the constructor, `score_path`, `choose_best`, `dscp`, `update_config`, `record` |
| Config loader, constants | `unnamed/part_003` (config_loader.cpp), `constants.hpp` | none: pure defaults | `Loader::load_from_file`, `default_qos` |
| Ingress selector, BGP oracle simulator | `unnamed/part_002`, `bgp_oracle_sim.cpp` | `cfg_`, `pops_`, `oracle_`, `rr_`; the simulator's `routes_` | `loadPops`, `update_config`, `attachOracle`, `chooseIngress` (both overloads), `load_routes`, `serving_pop` |

Interactions:
- The packet pool is an SPSC ring of handles. The RX thread is its consumer (`acquire`) and the TX thread its producer (`release`).
- The policies read the metrics slots through `load_metrics`.
- The policy binding dispatches DP calls to a policy's `choose`.
- The registry is read by DP and written by CP.
- The failover caller reports every decision to the observer; so does the QoS caller, with its scored list.
- The ingress selector consults the attached oracle in RouteInformed mode.
- The config loader supplies the QoS, failover and ingress configurations. The QoS run takes its configuration from it.

Everything else is left out; see "Not modelled" below.

## Modules

| Module | Models | Variables and their code counterparts |
|---|---|---|
| `SpscQueue` | `SpscQueue<T>::push`, `pop` | `head`, `tail`, `buf` (`head_`, `tail_`, `buf_`); `prod`, `cons` (the locals of the push and pop calls in progress: `t`, the value, the result) |
| `BoundedFifo` | abstract specification: a bounded FIFO queue | `queue`, `delivered` |
| `SpscChannel` | the 1P1C test harness of `tests/test_mem.cpp` over `SpscQueue` | ring variables, `sent`, `recv` |
| `PacketPool` | `PacketPool` over an `SpscQueue` of handles | ring variables, `owned` (a bag of handles held by the RX/TX side) |
| `MetricsSlot` | `update_metrics`, `load_metrics` | `seq`, `metrics` (one value per field), `writer`, `readers`, ghosts `version`, `overlap` |
| `PolicyBinding` | publish/clear/snapshot/select | `seq`, `fn`, `state`, `writer`, `readers`, ghosts `ops`, `bound`, `seen` |
| `PolicyBindingRelaxed` | the same calls under the memory orders the code requests | `mem` (the values other threads see), `buf` (the CP thread's stores not yet visible), `writer`, `readers` (with the set `todo` of loads still to perform), ghosts `ops`, `bound`, `seen` |
| `ServiceRegistry` | the registry's mutations, and readers of `version()` and the snapshot queries | `map_`, `version_`, `stats`, `wr` (per writer: pc and locals), `rd` (per reader), ghosts `log`, `pubs` (snapshots published) |
| `PopValidation` | `validateId`, `validateIp`, `validatePops` and the `Pop` descriptor (pure operators, used by the registry's MC module) | none: a string is a record of name, length and whether its characters pass the test |
| `PathSelection` | the three policies | `idx` (`idx_`), `salt` (`salt_`), `lcfg` (`LatencyAwareConfig`), ghosts `last`, `prevRR`, `calls`, `draws` |
| `FailoverPolicy` (`MCFailoverPolicy`) | the constructor, `evaluate` and its caller, `update_config` | `cfg`, `now`, `health`, `lastChange`, `score`, `current`, `obs`; ghosts `lastReason`, `left`, `switchedAt` |
| `SimpleObserver` | `SimpleObserver::record` of a `DecisionEvent` (operators only) | the three counters, as a record |
| `QosPolicy` | the constructor, `score_path`, `choose_best`, `dscp`, `update_config`, and a caller that records | `cfg` (`cfg_`: thresholds, weights and DSCP map), `ctr`; ghost `last` |
| `ConfigLoader` | `load_from_file`, `default_qos`, the named constants (operators only) | none |
| `BgpOracleSim` | `serving_pop`, `load_routes` | `routes_`, `answer`, `loads` |
| `IngressSelector` | the selector, with the simulator attached | `mode`, `strategy`, `pops`, `hasOracle`, `routes`, `rr`, `loads`; ghosts `last`, `prevRR` |

How the actions correspond to the code:
- Every atomic access is one step of its own. So is every plain access that races: a payload field in the seqlocks, a ring slot in the SPSC ring.
- Steps a thread makes on its own locals are folded into the neighbouring shared access.
- For each action, PROJECT.json `map` names the lines it translates.

Specific modules:
- **SpscQueue** splits each call at its shared accesses:
  - `push`: `PushBegin` (load `tail_`, the full test on `head_`), `PushWrite` (the slot store), `PushPublish` (the `tail_` release store).
  - `pop`: `PopBegin`, `PopRead`, `PopPublish`.
  - The failing calls are `PushFull` and `PopEmpty`.
  - With `TriviallyCopyable = FALSE`, a moved-from slot is emptied.
  - `WithCapacity(c)` is the argument checks of `with_capacity` (zero, not a power of two). `RingInit` requires it to return `"ok"`, so every run starts from a queue the code can build.
- **PacketPool**:
  - `Init` runs the constructor's seeding loop, the operator `Seed`. A failed seed push is skipped, since the `assert` is compiled out under `NDEBUG`.
  - `Ring` is `INSTANCE SpscQueue` with capacity `2N`. `Init` requires `Ring!WithCapacity(2N) = "ok"`, because the constructor calls `std::abort` on any other result.
- **PolicyBindingRelaxed**:
  - The CP thread's stores go into `buf`, oldest first. `Flush(k)` makes store k visible. A relaxed store may overtake earlier stores to other locations, never an earlier store to its own location (coherence). A release store waits for every earlier store (`MayBecomeVisible`).
  - The CP thread's own `seq.load(relaxed)` reads its latest store (`OwnSeq`).
  - A DP reader performs `s1 = seq.load(acquire)` first, since nothing after an acquire load may move before it. The relaxed loads of `fn` and `state` may be performed after the acquire `s2` load, so `Load(r, l)` takes the three loads in any order; `Decide` runs the recheck once all three are done.
  - This is an operational under-approximation of the C++ model. Every behaviour it has is one the C++ model allows, and one that ARM or POWER hardware, or the compiler, may produce. On x86 (TSO), stores become visible in order and loads are not reordered, so the counterexample needs a weakly ordered target.
- **ServiceRegistry**:
  - A reader pairs a `version()` read (`ReadVersion`) with one query over `snapshot()` (`Query`), in either order. The ghost `pubs` counts published snapshots. When the pair is complete, `stale` records whether the version read exceeds the number of mutations the snapshot reflects.
  - Snapshots are never written after publication, so a snapshot is modelled by its value.
  - `mutate` is split into `MutateValidate` (the `validateId`/`validatePops` rejection), `MutateLoad` (the `snapshot()` load, the capacity test, the exists test, the copy and its change), `Publish` (`atomic_store`), `BumpVersion` and `BumpCounter`.
  - `removeService` and `clear` share the publication tail.
  - Validation is abstracted to membership of sets of valid ids and lists.
- **PathSelection** translates each loop of the policies into a RECURSIVE operator (`ScanHealthy`, `HealthyPass`, `MinPass`, `ExploreScan`). A read of a candidate is a record `[st ∈ {fail, down, up}, rtt, qos]`: `fail` is a `load_metrics` that returned false. Widths are kept where wrap matters: `idx_` modulo `2^IdxBits`, and `rtt + tie_margin` modulo `2^RttBits`.
  - The exploration draws of `LatencyAwarePolicy::choose` are computed as the code computes them. `XorShift32` is seeded with `flow_hash ^ salt_` (0 becomes 0x9E3779B9). `next_bounded(1'000'000)` gives the roll, and `next_bounded(n)` gives the start. After a deviation, `salt_` grows by 0x9E37.
  - TLC's integers are 32-bit signed, so a `u32` is a word `<<hi, lo>>` of two 16-bit halves. XOR, the shifts, the addition mod 2^32 and the remainder are written on the halves (`WXor`, `WShl`, `WShr`, `WAdd`, `WMod`).
  - The table of draws is held in the ghost variable `draws`. It is set in `Init` and never changes, so TLC computes it once rather than at every call.
  - The hashes are 0, 1, 2, 3 and 0xA5A55A5A; with `salt_` at its initial value, the last gives the zero seed. With `explore_ppm` 500000, some of these roll under the threshold and some do not. The second `load_metrics` reads of a slot stay a free choice, as CP may update the slot between two reads: the exploration scan's (`again`), and the fallback pass's (`fb`, line 96), which reads every slot again when the healthy pass found none.
  - A read that is not healthy is `Failed` or `Down` with no RTT or QoS: nothing reads those fields of such a read in the first pass. A fallback read (`FallbackReadings`) keeps only success and `rtt_us`, the fields the fallback reads.

- **FailoverPolicy**:
  - `Evaluate` follows the branches of `evaluate` in their order. The branches are: no healthy best → nullopt; current Down → `current_down`; no current score → `no_current_score`; margin and `min_hold_ms` → `better_candidate_with_margin`; return to primary after `recovery_hold_ms` → `return_to_primary`.
  - `Best` is the first-maximum scan. `AllowSwitch` keeps the epoch special case.
  - One caller step (`CallEvaluate`) evaluates, applies the decision and records it with the observer.
  - Health changes stamp `last_change` with the current time. Scores change freely. Time ticks.
  - `cfg` starts as the constructor's configuration (`CtorConfig`, from the constants). `UpdateConfig` replaces it with one of `UpdateConfigs`, and the next `evaluate` reads the new one. A configuration change counts as an input change, so it resets the ghost `left`.
  - A path missing from the health vector is the value `Missing`, read as Down.
  - Scores are small naturals. The margin test `s_b >= s_c (1 + pct)` is kept exactly, in percent.
- **QosPolicy**:
  - The doubles are exact rationals, so ties are exact. `normalize_*` maps a value above its target t to t/v.
  - `blend` divides by the weight sum with the `1e-9` floor: an all-zero weight set gives 0. The result is clamped to 1.
  - `choose_best` is two RECURSIVE passes: a strict one, then the fallback.
  - A `Choose` step enumerates every candidate vector of up to 2 paths, every class and both `require_compliance` values.
  - `cfg` is the whole `QoSConfig` as one record. The constructor's value and every `update_config` argument come from `Configs`. `ScorePath` takes the configuration it reads, so a property can rescore the last call's candidates under that call's configuration.
  - `Dscp` is the `dscp_by_class` lookup with its Best Effort default. `TypeOK` checks that every class maps to a 6-bit codepoint.
- **ConfigLoader**:
  - The constants are operators, scaled to small units: latency and jitter in 500 µs, loss in 0.005, weights in tenths. Every default is then a natural, and the QoS scores, which depend only on ratios, are unchanged.
  - `QoSClass` is its underlying enum value: Bulk 0 up to Realtime 3.
  - The hash seed is kept as a name, because only `mix` reads it and `IngressSelector` tabulates `mix`.
- **BgpOracleSim / IngressSelector**:
  - `Preferred` is one comparison of the tie-breaking loop. `BestRoute` is the loop.
  - `IngressSelector` instantiates `BgpOracleSim` with its own `routes`, so the oracle answers from the routes loaded at the time of the call.
  - `mix` is the table `MixOf` of its values.
  - The `clientSrcIp` overload reaches only the oracle, as in the code.

## Runs

| Run | Cfg | Expect | What it shows |
|---|---|---|---|
| spsc_channel | MCSpscChannel.cfg | pass | 7 items through a capacity-4 ring with every push/pop step interleaved. No loss, no duplicate (`NoLossNoDup`). Every pushed item is eventually popped (`EveryItemDelivered`). The ring refines `BoundedFifo` of capacity C-1 under the mapping queue ↦ unread slots plus the value a popping consumer holds (`FifoRefinement`). |
| packet_pool | MCPacketPool.cfg | pass | N = 2, RX acquiring and TX releasing concurrently. Each handle is in exactly one place: free ring, in flight, or owned (`HandleConservation`). A step in which `acquire` returns false happens only when all N handles are held by the application or inside a release (`AcquireFailsOnlyWhenExhausted`); the property is stated on pop's result, so a ring that loses a seed or an empty test that misreads a non-empty ring breaks it. |
| metrics_slot | MCMetricsSlot.cfg | pass | One writer, one reader, 2 fields, 3 updates. `load_metrics` returning true returns a committed payload (`ReadReturnsCommitted`). It fails only when a write overlapped (`NoSpuriousFailure`). It always returns (`ReadTerminates`). |
| policy_binding | MCPolicyBinding.cfg | pass | Policies A, B, with up to 3 publish/clear calls against one DP reader. `select_path` calls `fn(state)` only with the two halves of one policy bound during the call (`SelectCoherent`). It returns 0 only if unbound or overlapped (`NoSpuriousNoPath`). |
| service_registry | MCServiceRegistry.cfg | pass | One writer with 3 calls over ids {s1, s2, invalid} and three PoP lists: one PoP, two PoPs, and three PoPs whose ids repeat out of order. MaxServices = 1, and one reader. The add-then-remove round trip of spec 8 holds (`RemoveUndoesAdd`). `version_` and the five counters account exactly for the completed calls (`CountersMatchCalls`). Every published list meets the PoP rules of spec.md: 1..32 PoPs, unique ids, valid fields (`PublishedListsWellFormed`); the repeat out of order is caught only because `validatePops` sorts the ids before `adjacent_find`. |
| registry_upsert | MCServiceRegistryUpsert.cfg | violation | `upsert` of a present id keeps the old list (`emplace`), while spec 4.4 says insert or replace. |
| registry_capacity | MCServiceRegistryCapacity.cfg | violation | The `>` capacity test admits MaxServices + 1 services. |
| path_selection | MCPathSelection.cfg | pass | Every list of up to 3 candidate reads: the code's loops equal the reference definitions written from spec 4.5 (`RoundRobinMatchesSpec`, `FlowHashMatchesSpec`, `LatencyPrefersHealthy`). Without a healthy read, the result is the first least-RTT candidate of the fallback pass's own second reads, which CP updates may have changed (`LatencyFallbackMinRtt`). An exploration that fires goes to another healthy candidate and advances `salt_` by 0x9E37; any other call leaves `salt_` alone (`ExplorationDeviates`). About 490,000 states. |
| failover | MCFailoverPolicy.cfg | pass | 3 paths, primary 2, scores 1..3, margin 10%, holds 1 and 2, up to 2 input changes in 3 time units. An input change may also be an `update_config` to primary 3 with recovery hold 1, or to return to primary off (`MCUpdateConfigs`). A switch never goes to a Down path (`SwitchTargetsLive`). A Down current path is left at once when a healthy scored one exists (`LeavesDownPath`). With inputs unchanged the caller never switches back to a path it left (`NoFlapWithoutChange`). |
| qos_choose_best | MCQosPolicy.cfg | pass | The configuration `Loader::load_from_file` returns (four classes with their thresholds, weights and DSCP codepoints), and the same configuration with all-zero weights; either may be the constructor's, and `update_config` may install either. Metric values lie between the class targets, and vectors have up to 2 candidates. `choose_best` returns the first eligible candidate of greatest score and falls back rather than return nothing (`ChooseBestMatchesSpec`). With positive weights a compliant path always outscores a non-compliant one (`CompliantScoresHighest`). |
| policy_relaxed | MCPolicyBindingRelaxed.cfg | violation | Under the code's memory orders, `SelectMatchedPair` (spec 4.6: DP never observes a mismatched pair) fails in 15 steps. CP publishes A and then B, and the `state` store of B becomes visible while both odd `seq` stores are still pending. DP then reads `seq` 0, fn A, state B and `seq` 0 again, accepts, and calls A's choose on B's object. |
| ingress_oracle | MCIngressSelector.cfg | pass | Every interleaving of loadPops (lists of 2 and 3 PoPs), update_config, attachOracle, one load_routes of any vector of up to 2 routes (two values per attribute), and 3 chooseIngress calls. The oracle's answer is the best route by the full tie-breaking chain (`OracleAnswerIsBestRoute`). Round robin visits the PoP list in order, whatever oracle and hash choices come between (`RoundRobinRotates`). |

### Further counterexamples

These configurations are not among the runs in PROJECT.json. Each checks one property that the code violates; run them with `tlc -config <cfg> <module>`:

| Cfg | Module | Property | What TLC finds |
|---|---|---|---|
| MCPolicyBindingSwap.cfg | MCPolicyBinding | `NeverNoPathWhileBound` | Spec scenario 6: a CP stalled inside `publish_policy(B)` makes `select_path` return 0 after 4 tries while A was bound. |
| MCPolicyBindingRelaxedSeen.cfg | MCPolicyBindingRelaxed | `SelectSeesPublished` | Spec 5's release/acquire promise fails: DP calls policy A while no publish of A has completed, because A's `fn` and `state` stores became visible before the odd `seq`. DP never synchronised with the release, so A's own fields need not be visible. |
| MCFailoverPolicyZero.cfg | MCFailoverPolicy | `NoFlapWithoutChange` | With scores {0, 1}, a current score of 0 makes the margin 0. The policy then alternates between two paths of score 0 on every call with nothing changing (a code bug at failover_policy.cpp:56). |
| MCServiceRegistryVersion.cfg | MCServiceRegistry | `VersionDescribesSnapshot` | A reader takes `snapshot()` before a publication and reads `version()` after the bump. The (snapshot, version) pair then names an older map with a newer version. Nothing in the repository claims the pairing; this is the stale-cache hazard. |
| MCServiceRegistryTwoWriters.cfg | MCServiceRegistry | `AddsNotLost` | Two writers copy the same snapshot and one add is lost, although the class comment says "Writes are serialized per call". |
| MCPathSelectionTieBreak.cfg | MCPathSelection | `LatencyTieBreakBounded` | With RTTs 0, 2 (QoS match) and 1, the third candidate is chosen: neither the minimum RTT nor the QoS match. |
| MCPathSelectionRotate.cfg | MCPathSelection | `RoundRobinRotates` | At the `idx_` wrap, successive round-robin calls do not start at successive candidates. |
| MCFailoverPolicyDwell.cfg | MCFailoverPolicy | `MinHoldBetweenSwitches` | `min_hold_ms` is measured from the current path's last health change, not from the last switch: two margin switches happen in the same time unit. |
| MCFailoverPolicyObserver.cfg | MCFailoverPolicy | `FailoverTriggersCounted` | `failover_triggers` stays 0: no reason of `evaluate` contains "failover". |
| MCServiceRegistryRegion.cfg | MCServiceRegistry | `SpecValidAddAccepted` | `add(s1, [{region: "r"}])` returns `Invalid`. `validatePops` checks the region with `validateId`, which requires 2 or more characters, while spec.md 3 allows a region of 1..32. The unit tests Registry_Remove_Existing (`region="r"`) and Registry_Clear (service ids "a", "b", PoP id "p") ignore the result of their add, so they remove and clear an empty registry and pass without exercising what they name. |
| MCQosPolicyZeroTarget.cfg | MCQosPolicy | `CompliantScoresHighest` | A zero latency target normalises to 0 ("treat as non-compliant"), but a latency of 0 counts as compliant. A non-compliant path ties and wins. |
| MCIngressSelectorStale.cfg | MCIngressSelector | `IngressIsLoadedPop` | The oracle's PoP is returned without a check against the loaded PoP list. |
| MCIngressSelectorHash.cfg | MCIngressSelector | `HashUsesClient` | `chooseIngress(id, clientSrcIp)` ignores the client under a hash strategy and hashes flow hash 0. |

Each property of a passing run has a mutant in PROJECT.json. A mutant is a plausible bug in the mapped code, and TLC finds the property violated with it:
- a full test that never fires;
- a tail published before the slot store;
- an empty test that strands the last element;
- a ring not doubled;
- a recheck without `s1 == s2`;
- a writer exit that leaves `seq` odd;
- an odd `seq` read that does not count as a try;
- a forgotten `fn` store;
- an erase dropped on the floor;
- an error path that forgets `failures_`;
- a scan that skips its start;
- an ignored `skip_unhealthy`;
- an exploration that skips the health test;
- a deviation that leaves `salt_` alone;
- a `<=` in the fallback;
- a best-path scan that keeps Down paths;
- a margin left out;
- a dropped "no candidate" return;
- a Down current path treated as sticky;
- a blend without the epsilon floor, or without the division by the weight sum;
- `choose_best` without its fallback;
- a route comparison that continues past a worse local-pref;
- `rr_` advanced before the oracle is consulted.

## Bounds and why they suffice

- **SPSC ring.** C = 4 with 7 items: both indices wrap more than once, and the ring is full (3 items) and empty many times.
- **Pool.** N = 2, a ring of 4: every handle can be free, in flight or owned, in every order. N = 4 is out of reach (over 22M states).
- **Seqlocks.**
  - `SeqBits = 4` with 3 updates: seq never wraps. The u32 ABA case needs 2^31 writes inside one read and is a listed hazard.
  - One reader: readers never interact with each other.
  - MaxTries is the code's 4.
- **Registry.**
  - The capacity test depends only on size versus the limit, so `MaxServices = 1` with two valid ids exercises both branches that 128 would.
  - Three calls reach every error path, the add/remove round trip and the capacity overflow (two adds, then a refused call). The violation cfgs keep 4 calls and no reader.
  - One reader, looping forever over version/snapshot pairs: readers do not interact with each other.
  - Ids and lists are symmetric model values.
- **Policies.**
  - Up to 3 candidates covers every scan start and wrap.
  - RTTs 0..3 with margin 1 make `rtt + margin` wrap.
  - `IdxBits = 2` stands for 32: the rotation glitch needs only that n does not divide 2^bits.

- **Failover.**
  - 3 paths: a primary, a best candidate and a third.
  - 3 time units with holds 1 and 2: a hold can be inside or past its limit.
  - 2 input changes: a path can go Down and come back, or be re-scored.
  - The zero-score counterexample needs 0 among the scores.
  - Two replacement configurations: one moves the primary and shortens its recovery hold, so a return to the new primary is tested against the new hold; one turns return to primary off. The counterexample runs keep the constructor's configuration (`NoUpdates`).
- **QoS.**
  - Latencies 8, 20 and 44 (in 500 µs units), jitters 3 and 10, and losses 1 and 5 (in 0.005 units). Each value meets the targets of some classes and not the others, so every pair of classes is told apart on every metric. The zero-target counterexample uses latencies 0 and 8.
  - Two candidates are enough for ties and for the fallback.
  - One call after at most one `update_config`: the state is the call's input, not a history.
- **Ingress.**
  - Route vectors of up to two routes over two values per attribute: every level of the tie-breaking chain decides a comparison in both directions.
  - One `load_routes` keeps the run near 2.5 minutes. The oracle reads only the current routes, so a second load adds no new kind of call.
  - 3 calls: a round-robin choice, an oracle answer, then another round-robin choice.

## Fairness

- DP readers (`load_metrics`, `select_path`) and the SPSC consumer get weak fairness of their own steps. A worker thread that is running keeps executing its call. The code has no blocking in these loops.
- CP writers get no fairness. CP may be preempted anywhere, and that is exactly what makes the 4-try bound observable.
- The registry and policy runs check only safety. The failover caller gets no fairness: nothing in the code makes it call `evaluate` at any rate.

## Not modelled, and why

- **Weak memory in the metrics slot.** `PolicyBindingRelaxed` models weak memory for the policy binding only. The metrics slot has the same orders, with a plain payload (a data race, so undefined behaviour), and is modelled only under SC.
- **Weak memory in the service registry.** The registry is modelled under SC. Under the C++ model, the relaxed `version_.fetch_add` (service_registry.cpp:167) may become visible before the release store of the snapshot (:165) to a relaxed `version()` load (hpp:103). A reader could then see the new version with the old snapshot, in either order of its reads. No property claims the version-first order bounds the snapshot.
- **Registry query results and shared_ptr reclamation.** Each query is one acquire load of the snapshot, followed by reads of an immutable map. Its result is a function of that map, so the model keeps only which snapshot the reader got. Reclamation is done by the standard library. `getPopsAs`, `stats()` and the PopLike adapters are declared in the header but defined nowhere.
- **PolicyBinding policy lifetime.** Destroying a policy object that DP may still be calling is the caller's responsibility (spec 5).
- **SpscQueue::move_from, allocation failure and element lifetimes.**
  - The repository moves only a fresh queue into its owner. It never uses the moved-from queue, which keeps its `head_` and `tail_` while `buf_` is null, so that queue is not modelled.
  - `::operator new[]` throws instead of returning null, inside a `noexcept` function. `AllocationFailed` is therefore unreachable, and `WithCapacity` returns only the argument errors.
  - Slots hold model values. The model does not capture that no `T` is ever constructed in `buf_`. For `unique_ptr`, `push` move-assigns over an uninitialised object.
  - PROJECT.json lists all three as hazards.
- **Concurrent readers of salt_.** `salt_` is a relaxed atomic. Each call of `LatencyAwarePolicy::choose` is one step, so two DP threads that load the same `salt_` and draw in lockstep are not told apart from one thread; this affects only the spread of exploration.
- **Plain-member races of the control-plane policies.** `update_config`, `loadPops` and `attachOracle` assign plain members while another thread may call the policy. This is undefined behaviour, not a state, so each call is one atomic step; PROJECT.json lists the race as a hazard.
- **Config file parsing.** `load_from_file` ignores its path: the parser is a TODO in the code.
- **Callers of `QoSPolicy::dscp`.** `Dscp` models the lookup, but nothing in the repository calls it. Also, `DSCP_AF31` is 0x28 (CS5) rather than AF31's 26; spec.md 6 (wire formats) repeats the value, and PROJECT.json lists it as a hazard.
- **RT OS layer, app and tools.** See PROJECT.json `components`.

## Plan for later sittings

1. The metrics slot under the relaxed model of `PolicyBindingRelaxed`: the torn payload copy.
2. A composed DP worker: acquire a handle, `select_path` over `MetricsSlot` reads, release. This joins PacketPool, PolicyBinding, MetricsSlot and PathSelection.
3. A failover caller fed by the QoS policy's scores, to see the zero-score and zero-target findings interact.
