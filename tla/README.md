# A TLA+ model of AEGIS

AEGIS (`src/aegis/`) is a Python middleware that sits between an LLM agent and
its tools. A caller hands the gateway an `AgentRequest` (content and possibly a
proposed tool call) and gets back a `Decision`. This directory models the core
of that program in TLA+, checks it with TLC on small instances, and proves its
central guarantees with TLAPS for every instance.

- Part 1 is the inventory of the system.
- Part 2 is the plan, with what is done and what is left.
- Part 3 says how the modules correspond to the code.
- Part 4 says what each run checks, and its bounds.
- Part 5 says what is proved, and along which argument.
- Part 6 lists what the documentation says and the code does not do.
- Part 7 says what is not modelled, and why.

Check a run with `tlc -config <run>.cfg <MC module>.tla`, a proof module with
`tlapm <module>.tla`. The lists of components, runs, source lines, hazards and
theorems are in `PROJECT.json`.

## 1. Inventory

Paths are relative to `src/aegis/`.

| Component | State it keeps | Operations |
|---|---|---|
| Gateway pipeline, `gateway.py` | none of its own beyond its private configuration; owns the monitor, telemetry and executor | `process`, `aprocess`, `_process`, `_finalize`, `_commit_behaviour`, `_fail_closed` |
| Behaviour monitor, `monitor/behavior.py` | `_profiles`: an `OrderedDict` agent -> profile (tools seen, bounded deques of call and block times, time of the last sensitive read, call count, last use), under one lock | `observe`, `record_allow`, `record_quarantined`, `record_block`, `_profile`, `_evict_if_needed` |
| Policy engine and enforcement point, `monitor/policy.py`, `monitor/enforcer.py` | none | `check`, `evaluate` |
| Sandbox router, egress filter, executor, `sandbox/` | none | `route`, `inspect`, `is_risky`, `execute` |
| Configuration, `config.py` | tables and thresholds; copied by the gateway | `validate`, fail-closed accessors, loading |
| Requests and decisions, `types.py` | - | - |
| Audit trail, `audit.py` | a logger | `decision_record`, `emit` |
| Telemetry, `telemetry.py` | counters and latency histograms, each lock protected | `incr`, `observe_latency`, `snapshot`, `health`, `prometheus` |
| Input sanitizer, `sanitizer/pipeline.py`, `detectors.py`, `features.py`, `dataset.py` | a process-wide default pipeline | `inspect`, `rule_evaluate`, `normalize_text`, `default` |
| Model artifact, `sanitizer/classifier.py`, `train.py` | two files: the weights and a digest manifest | `save`, `load_model`, `train_default` |
| Intent scrubber, `scrubber/` | an LRU cache of results, under a lock | `scrub`, `scrub_many` |
| LangGraph adapter, `integrations/langgraph_adapter.py` | none | guarded tool node, callbacks |
| Demo server, `demo/server.py` | a gateway shared by the threads of all connections | `do_POST`, `do_GET` |
| Simulated agent, `integrations/simulated_agent.py` | - | `benign_item`, `attack_item`: requests with their ground truth |
| Harness, benchmarks, scripts | - | drive the gateway and measure |

How they interact: one gateway is shared by all caller threads (`aprocess`
moves each request to a worker thread). A request is sanitized, enforced (the
enforcement point calls the monitor's `observe`), perhaps scrubbed and inspected
again, routed to a tier, executed, and finalised: the monitor learns the
outcome, the counters are incremented, the audit record is emitted. Whatever
raises is turned into a BLOCK by `_fail_closed`. All components read the same
private configuration, a copy that the gateway takes when it is built. The detector and
the scrubber read one vocabulary, the one over the whole text and the other line
by line. The demo server gives each connection a thread and calls the shared
gateway from it. The model artifact is shared through the file system by
the training command and every service process.

What is hard about it, and what makes each part correct:

- *Gateway.* Workers interleave between observing, executing and recording; an
  exception may strike before or after the tool ran; the sandbox may overturn
  the verdict of the enforcement point. Correct when nothing the policy
  forbids runs, nothing leaks in protected mode, every request gets one answer,
  and monitor, counters and audit trail say what really happened.
- *Behaviour monitor.* The clock is read before the lock is taken, deques and
  store are bounded, windows have edges. Correct when bounding loses no
  evidence that a window still covers, a reset happens only after idleness, and
  the bound of the store holds without evicting the profile in use.
- *Policy, router, filter, executor.* Three components decide on one call from
  overlapping tables. Correct when no call slips between them.
- *Model artifact.* Saves may be killed half-way, and a service may load in the
  middle. Correct when only complete, endorsed weights are served, and a
  service always ends up with a model.
- *LangGraph adapter.* A model may propose several calls at once, tool functions
  raise, the gateway fails. Correct when a function runs only behind an executed
  decision, every proposed call is answered in order, and the loop goes on.
- *Input sanitizer and scrubber.* Two readers of one vocabulary may disagree, a
  pre-filter may skip what it should not, a cache is filled by threads that
  computed outside its lock. Correct when the fast scrubber answers as the
  simple one, what is flagged below the block threshold is removed, a second pass finds
  nothing more, and the cache keeps what is in use.
- *Configuration.* Objects share mutable containers, and holders change them in
  place. Correct when a gateway's policy changes only through its own holders,
  and starts consistent.
- *Demo server, telemetry.* Connections run side by side over one gateway, may
  never be finished, and carry ill-formed data; a scrape reads the counters and
  the histograms at different times. Correct when the labelled outcomes hold
  whatever was played before, every well-typed post is answered, and a scrape shows
  every answered request.

## 2. Plan

Order of the modules, the most important behaviour first. All are done.

1. `AegisConfig`, `AegisDefaults`, `Sandbox`, `Enforcement`: the pure rules.
2. `BehaviorMonitor`, with `BehaviorHistory` as the abstract monitor, and proofs.
3. `Gateway`: composes 1 and 2 with workers, exceptions, counters and audit.
4. `Guard`: the abstract specification of protected mode; `GatewayProperties`
   states the guarantees and the refinement `ImplementsGuard`.
5. `GatewayProofs`: the pure rules, types, the guarantees, and the refinement.
6. `ModelArtifact`, `ModelHistory`: saving and loading under crashes, and proofs.
7. `AgentLoop`: the LangGraph adapter's loop, composed with the gateway, and
   `AgentLoopProofs`.
8. `Sanitizer`: the rules and both scrubbers; `IntentScrubber`: the shared cache, and
   proofs.
9. `Workload`, `DemoServer`: the demo server over the gateway, with the
   scenarios and the simulated agents' items, and the telemetry it publishes, and
   proofs.
10. `ConfigStore`: configuration objects and their containers, and proofs.

What could follow: a configuration that changes while requests are in flight;
an operator's own egress tools (`Config.egress_tools` different from
`EGRESS_TOOLS`); the histograms of the single stages.

Theorems, in the order of their dependence: the monitor's types and bounds
(`BehaviorMonitorProofs`) and its promises against the history
(`BehaviorHistoryProofs`); the gateway's types, no leak and only permitted calls, what
holds of each request and of the counters and profiles, and the refinement to `Guard`
(`GatewayProofs`); the agent graphs and the demo server, as clients of the gateway
(`AgentLoopProofs`, `DemoServerProofs`); the artifact, the scrubber and the
configuration objects, each on its own. All of these are done. What is left to TLC,
and why, is at the end of part 5.

## 3. Modules and code

| Module | Models |
|---|---|
| `AegisConfig` | `AegisConfig`: `Validate` is `validate`, the accessors give unknown roles and tools the restrictive answer |
| `AegisDefaults` | the default tables, used by the MC modules |
| `Sandbox` | `Route` (router), `Inspect` and `IsRisky` (egress filter), `Execute` (executor), as operators |
| `Enforcement` | `PolicyCheck` (policy engine), and `evaluate` cut at its call of the monitor: `PolicyCheck` before, `Judge` after |
| `BehaviorMonitor` | the monitor as a state machine |
| `BehaviorHistory` | a history next to it: the unbounded profile, and the monitor's promises |
| `Gateway` | the pipeline: one action per stage of `_process` |
| `Guard` | the abstract specification of protected mode |
| `GatewayProperties` | the gateway's guarantees and the refinement |
| `ModelArtifact`, `ModelHistory` | saving and loading the weights, and what a load promises |
| `AgentLoop` | the LangGraph adapter's graph over the gateway |
| `Sanitizer` | documents, the rule detector, both scrubbers, as operators |
| `IntentScrubber` | the scrubber's cache, shared by threads |
| `Workload` | the scenarios of the demo server, the items and texts of the simulated agents |
| `DemoServer` | connections, posts and a scrape over the gateway |
| `ConfigStore` | configuration objects and the containers they share |
| `SampleTexts` | short names for documents |
| `MCBehavior`, `MCGateway`, `MCLoop`, `MCModel`, `MCScrubber`, `MCDemo`, `MCConfig` | the instances TLC checks |
| `BehaviorMonitorProofs`, `BehaviorHistoryProofs`, `GatewayProofs`, `AgentLoopProofs`, `DemoServerProofs`, `ModelHistoryProofs`, `ConfigStoreProofs`, `IntentScrubberProofs` | the proofs |

An operator whose comment begins with *Mutant:* is a plausible faulty variant of
the definition below it. The specifications never use one; putting it in place
of that definition makes a run fail, which shows that the run's properties
notice the mistake.

**Behaviour monitor.** `clock` is `time.monotonic`, `lru` the key order of the
`OrderedDict`, `profiles` its values, `op[t]` what thread `t` is doing. Each
operation is two steps, because the code reads the clock and computes the egress
risk *before* `with self._lock`: `CallObserve`, `CallRecordAllow`,
`CallRecordQuarantined`, `CallRecordBlock` read the clock; `Observe`,
`RecordAllow`, `RecordQuarantined`, `RecordBlock` are the locked sections, each
with the fetch, the TTL reset, the move to the end and the eviction it includes.
Other threads run in between.

*Numbers.* Scores are floats combined by noisy-or. The model keeps the product
of the complements, exactly, as an integer over `Scale`: every signal's weight is
a multiple of 1/20, the rate factor one of 1/(20 rate_limit). Thresholds and
sanitizer scores are hundredths. The comparisons are then exact rational ones;
for the limits 1, 2 and 20 they agree with the float comparisons in every
combination of signals (computed separately). For the limits 3 and 6 one boundary
combination each is decided the other way by float rounding; no run uses those
limits.

**Gateway.** `job[w]` holds the local variables of `_process` in worker `w`:
`Submit` (entry), `Sanitize` (oversize checks, the two inspections),
`EnforcePolicy` / `ObserveAttempt` / `JudgeAttempt` (`evaluate` around the
monitor's call and lock), `Resolve` (monitor-only downgrade, scrub and second
inspection, early returns), `RouteAndExecute`, `CommitBehaviour` / `CommitLocked`
(`_commit_behaviour`), `Account` (one counter at a time, in the code's order),
`Emit`, `CountExfil`, `Return`. `Raise` is an exception in any stage that calls
a component; `FailClosed` is `_fail_closed`, where auditing may raise again.
`effect` is ground truth, kept apart from what the gateway *says* in `answer`,
`audited` and `counters`. An exception *after* the tool ran is one at "commit"
or "emit". The monitor's variables are shared: every gateway step that touches
them is literally a step of `BehaviorMonitor` (this is a theorem).

*Texts and calls.* A text is its length class and the two scores the classifier
and the rules give it; a tool call is its name, the hosts in its address
fields, the hosts anywhere in its arguments, and whether a secret pattern
matches. Nothing else of them reaches a decision. Requests are drawn from a
constant set.

**Agent loop.** `loop[w]` is the graph that runs in worker `w`: its node, its
messages, and in the tool node the position in the batch and the messages made so
far. `AgentNode` is the chat model, which proposes any batch of a given set;
`GuardCall` builds the request on the latest human or tool message and calls
`process`; the gateway's own steps follow (`InGateway`); `CallFunction` calls the
tool function of an executed decision, which may raise; `AnswerWithoutCall` is a
denial, or an executed call without a function. `called` records the function
calls, since the executor's "run" is a simulation and the adapter's is real.

**Model artifact.** `npz` and `manifest` are the two files, identified by content
(a digest stands for the content). `save` is five steps: the write truncates the
file, completes it, the digest is taken *from the file*, the manifest is opened
(empty), then written. `KillSave` ends it anywhere. `default` reads the
manifest, verifies, *opens the file again* to read the weights, and hashes it
once more for `model_source`; whatever it rejects makes it train in memory.
`ModelHistory` remembers with each load the files it started from, and forgets
them (`Disturbed`) when a save touches the files before the load is over.

**Sanitizer and scrubber.** A document is a sequence of lines; a line is the set
of patterns that match it as it stands (`plain`), the set that matches once
obfuscation is undone (`veiled`), and whether it holds invisible characters
(`hidden`). `across` holds what matches over a line break only. `Normalized` and
`Canonicalized` are the two views of the code: the first is matched, the second
is handed back. `RuleHits` applies the simple and the compound rules and
`RuleScore` combines their weights by noisy-or, in hundredths rounded down.
`NaiveScrub` and `FastScrub` are the two scrubbers; the second skips a document
its union of patterns does not match. `IntentScrubber` adds the cache: `Hit` and `Miss` are
`_lru_get`, `Put` is the computation and `_lru_put`; other threads run between
`Miss` and `Put`. That the normalisation works line by line, which the
pre-filter relies on, is read off the code (`features.py:150-157`), and so is the
classification of the texts in `Workload` by the patterns they match; both were
confirmed by running the repository's own functions.

**Demo server.** A post is abstracted to what `do_POST` and `_inspect` branch on:
path, declared length, type of the body and of each field. The checks are in the
code's order, as a sequence of which the first failing one decides; "dropped" is
an exception out of the handler, which closes the connection. `Reading` is a
handler that waits for bytes the client has not sent, or, announced -1, for the end of
the input; a length below -1 makes the read raise, which drops the connection. `Serve` is a step of the
gateway on the connection's thread; the latency sample is taken before the audit
record. `CallDirectly` is a host application that uses the gateway beside the
page, which is how the simulated agents' items enter. `SnapshotCounters` and
`SnapshotLatency` are the two halves of `Telemetry.snapshot`.

*Workload.* Each scenario is a request with the outcome its label names. Their
rule scores are *computed* by `RuleScore` from the patterns in their text, the
classifier's are given: 0 for attacks and hijacks, the weakest help it can be to
the guard; 0 or 13 for a benign item, where 13 is the worst that still harms no
authorized work (part 6); 40 where the false-positive scenario needs a text that looks odd. The items of the simulated agents are the code's
combinations of roles and tools; a generated text is the set of patterns that
remains of it, whatever fills its slots.

**Configuration objects.** Fields fall into four classes (tables, sets,
thresholds, scalars). `objects[i]` says whose container each field of object `i`
refers to, `cells` holds the containers' contents; a copy makes its own, and
`from_dict` keeps the tables of the caller's mapping. `Tune` is any change in
place, consistent or not. `told[i]` is what object `i`'s own holders
have made of it.

## 4. Runs

Eleven runs pass, one shows a disagreement (part 6).

| Run | Instance | Question |
|---|---|---|
| `behavior_scores` | 1 thread, 1 agent, 2 tools, 6 operations, clock to 3 | Does the bounded profile score exactly as the unbounded history, at every edge of the windows and the deque? Are profiles reset only after the TTL? |
| `behavior_store` | 1 thread, 3 agents, room for 2, 5 operations | Is the store bounded, the victim the least recently used, the profile in use safe? |
| `behavior_threads` | 2 threads with stale clocks, 4 operations | Do a block in the window and a burst still raise the score when clock readings reach the lock out of order? |
| `gateway_protected` | protected mode, 2 workers, a role trusted too little for one of its tools, every pair of 18 requests | All safety guarantees, and `ImplementsGuard` |
| `gateway_faults` | 2 workers, up to 2 exceptions | Audit trail and health summary agree with the answers, `ImplementsGuard`, every request is answered (liveness) |
| `gateway_monitor` | monitor-only mode, every pair of 18 requests | What is inspected runs; what leaks is flagged |
| `agent_loop` | 1 agent graph, 2 turns of up to 2 calls, moving clock, 1 exception | Do only guarded calls reach a tool function? Is every call answered, does the loop go on (liveness), and does one graph keep the read-then-egress rule even when the gateway raises? |
| `model_crashes` | 1 service, 2 saves that may be killed, 1 restart, 4 weights | Only endorsed weights are served; a complete save heals the artifact; a started service ends up serving (liveness) |
| `scrubber` | 2 threads, a cache of 2; either 7 documents that differ, or any one of all lines and all pairs of simple lines | Does the scrubber answer as the baseline, whatever the cache does? Is what the rules name below the block threshold removed, and one pass enough? |
| `playground` | the default policy, 10 kinds of traffic of up to 4 requests, up to 2 at a time | Do scenarios and items end as labelled in every order and side by side? Does a scrape show every answer? Is every well-typed post answered (liveness)? |
| `config_objects` | the default and 3 further objects, 2 changes in place | Does a gateway's configuration change only through its own holders, and start consistent? |

What the properties mean is said above each of them. The ones that relate most:

- `ScoreIsExact` compares the score with that of a history that forgets nothing.
- `NoLeak`, `RunsArePermitted`, `BlockWorthyRefused` compare what happened outside (`effect`) with what the policy says about the request.
  Their configuration, `LooseConfig`, lets the role "untrusted" call `read_file`, as an operator's
  table may: no pair of the default tables is below its floor, and the isolation of such
  calls, before anything else is looked at, would never be seen. It is what the
  properties say of them: they run only isolated, and their score is not read.
- `BaselineFromRunsOnly`, `BlocksRemembered` compare the monitor's state with
  what happened, across both workers.
- `CountersMatchAnswers`: at rest the counters are what the answers say; in *every*
  state, so also for a snapshot taken between two increments, no total is behind
  its parts.
- `AuditMatchesAnswers` compares the trail with the returned decisions when
  exceptions strike, also while auditing.
- `HealthShowsErrors`: in every state, so whenever health is read, it reports each
  fail-closed answer.
- `FunctionsAreGuarded`, `NoEgressFunctionAfterRead` relate the functions the
  adapter called to the gateway's effects and to each other.
- `MonitorFlagsLeaks`: what leaked (ground truth) is reported in the answer.
- `ScrubIsReference`, `BandIsRemovable`, `ScrubIsFinal` compare two scrubbers, the
  scrubber with the detector, and the scrubber with itself; `CacheIsLru` compares
  the cache with a history of uses.
- `ScenariosEndRight`, `GroundTruthHolds` compare labels written beside the code
  with what happens, across the histories that the requests leave in one monitor.
- `ScrapeShowsReplies` relates a snapshot taken in two halves to the answers that
  preceded it.
- `HoldersAreIsolated`, `UntunedGatewaysAreValid` relate what an object holds to
  the changes of all others.
- `ImplementsGuard`: `Guard` knows requests, runs and truthful answers only. A
  leak, a run the policy forbids, an answer that claims a run that did not
  happen, or a second answer has no step in `Guard`.

**Bounds, and why they are enough.** `MaxClock`, `MaxOps`, `MaxRequests`,
`MaxFaults`, `MaxSaves`, `MaxRestarts` bound behaviours; `CallTimesMax`,
`BlockTimesMax` stand for the deques' 256 and 64. Windows are one tick and the TTL
two, with a clock of up to four readings: every comparison is met below, at
and above its edge. A rate limit of 1 with deques of 2 reaches the limit, exceeds
it, and overflows the deque. Three agents in a store of two evict. Eighteen
requests have one representative per case that the pipeline tells apart
(refused by RBAC, isolated below the trust floor, harmless and as an attack, guarded and suspicious, attack in the arguments, oversized,
cleanable and stubborn documents, egress inside, to a partner, and outside, with
and without a secret, quarantined by anomaly, ...). Two in flight give every
pairwise interleaving; in a run, all shared state is per agent or a sum,
so a third concurrent request adds depth, not a new kind of step; the agent loop
takes up to four. In the gateway runs without exceptions the clock stands still,
so that all events are within every window, the hardest case for the sequence
rule; the clock's own effects are checked in the monitor's runs and, one tick
far, in `gateway_faults` and `agent_loop`. `MaxTurns` stands for the graph
runtime's own limit. Two exceptions reach
both an exception in the pipeline and one in the fail-closed path. Two saves and
a restart reach a killed save followed by a good one, with a service that loads
before, between and after.

`CacheSize` stands for the cache's 1024: a cache of two with two threads and up
to seven texts fills, evicts, and is filled twice for one text. A document of
two lines has every relation a line can have to a neighbour; the patterns of a
single line are all combined. `HistMax` stands for a histogram's 50 000: two, so
that a sequence of four requests overflows it. `Traffics` splits the demo server's traffic into
kinds, since their product is out of reach: all nine scenarios in sequences of
three, five of them (one per way a scenario ends) in sequences of four, two of
them in parallel with a scrape, and one repeated four times with a scrape anywhere
between; ill-formed posts in parallel with one
exception; each generated text alone, since only its scores reach the monitor;
items of all kinds in pairs, seven of them in triples and in parallel, one
agent's own in sequences of four. Up to four requests of an agent stay below
`rate_limit` (20), as in a run of the page; the burst rule has its own runs. In `config_objects`
`MaxObjects` and `MaxTunes` allow a mapping, what is parsed from it, and a gateway
copied from that, with a change of any of them before and after.

`CHECK_DEADLOCK FALSE` except in `scrubber`: the bounded behaviours end, and a
service that gets no request rests. A scrubber can always be called again.

**Symmetry** is used in `behavior_store` only, whose properties are safety and
name no agent.

**Fairness.** `FairGSpec` assumes weak fairness of each worker's `Step`: a
scheduled Python thread goes on, and every lock is held for a bounded section
that calls nothing blocking, so it is free again. Nothing is assumed of callers
(`Submit`), of exceptions, or of the clock. `FairLSpec` assumes the same of the
graph's thread, and nothing of the chat model. `FairHSpec` of the model artifact
assumes that a service continues its own `default`; nothing of the training
command, which may hang or be killed. `DSpec` assumes weak fairness of each
connection's handler, and nothing of clients, which may keep a connection open for
ever: `PostsAnswered` holds beside such a connection.

## 5. Proofs

| Theorem | Module | Says |
|---|---|---|
| `MonitorTypeCorrect`, `MonitorStoreBounded` | `BehaviorMonitorProofs` | `TypeOK` and `StoreBounded` for any number of agents, threads and any valid configuration |
| `OwnProfileSurvives` | `BehaviorMonitorProofs` | no operation evicts the profile it works on (`OwnProfileKept`), with any number of threads |
| `StoreOrderedByLastUse` | `BehaviorMonitorProofs` | `LruOrderedByLastUse` with one thread |
| `ScoresAreExact`, `ResetsOnlyTheIdle` | `BehaviorHistoryProofs` | `ScoreIsExact` and `ResetOnlyWhenIdle` with one thread, for any agents, clock and length of behaviour |
| `BurstsAreSuspicious`, `BlocksAreRemembered` | `BehaviorHistoryProofs` | `BurstIsSuspicious` and `BlocksNotWashedOut` with any number of threads, in whatever order they take the lock |
| `ProtectedExecutionNeverLeaks`, `NoNetTierBlocksEgress`, `RouteRespectsTrust` | `GatewayProofs` | facts about the pure rules, for every call, tier and configuration |
| `GatewayTypeCorrect` | `GatewayProofs` | the types of gateway and monitor |
| `GatewayImplementsMonitor` | `GatewayProofs` | the gateway uses the monitor only through its operations |
| `GatewayNeverLeaks`, `OnlyPermittedCallsRun` | `GatewayProofs` | `NoLeak` and `RunsArePermitted`, whatever the requests, the number of workers and the exceptions |
| `GatewayImplementsGuard` | `GatewayProofs` | in protected mode the gateway refines `Guard` (`ImplementsGuard`) |
| `AttacksAreRefused` | `GatewayProofs` | `BlockWorthyRefused`, for any tables: the exception it names is the only one |
| `AuditIsComplete`, `CountersAddUp`, `HealthIsHonest` | `GatewayProofs` | `AuditMatchesAnswers`, `CountersMatchAnswers`, `HealthShowsErrors`: what is reported is what was answered |
| `MonitorDeniesNothing`, `MonitorReportsLeaks` | `GatewayProofs` | `MonitorRunsWhatItInspects` and `MonitorFlagsLeaks`: monitor-only mode |
| `BaselineIsTaughtByRuns` | `GatewayProofs` | `BaselineFromRunsOnly`, whatever the workers and the exceptions do |
| `BlocksReachHistory` | `GatewayProofs` | `BlocksRemembered`, where there is room (`RoomForBlocks`) |
| `GraphsImplementGateway` | `AgentLoopProofs` | the graphs use the gateway as its callers may: all of the above holds behind them |
| `FunctionsStayGuarded`, `CallsAreAnswered`, `AttacksStopTheNextCall` | `AgentLoopProofs` | `FunctionsAreGuarded`, `EveryCallAnswered`, `AttackStopsNextCall` (the last under `TrustedRoles`) for any number of graphs, any models, tools and conversations |
| `NoEgressFollowsARead` | `AgentLoopProofs` | `NoEgressFunctionAfterRead` for the same, under `ReadsCount` |
| `ArtifactTypeCorrect` | `ModelHistoryProofs` | the types of files, saver and services |
| `UndisturbedLoadIsEndorsed`, `ArtifactHeals` | `ModelHistoryProofs` | `OnlyEndorsedIsServed` and `CompleteSaveIsServed` for any models, services, saves and restarts |
| `ConfigurationsAreIsolated`, `UntunedGatewaysStayValid` | `ConfigStoreProofs` | `HoldersAreIsolated` and `UntunedGatewaysAreValid` for any mappings, overlays, objects and changes |
| `AnswersAreReference`, `CacheKeepsWhatIsUsed` | `IntentScrubberProofs` | `ScrubIsReference` and `CacheIsLru` for any documents, threads and cache size |
| `BandIsScrubbed`, `ScrubbingIsFinal` | `IntentScrubberProofs` | `BandIsRemovable` and `ScrubIsFinal` for any documents |
| `ServerImplementsGateway` | `DemoServerProofs` | connections and direct callers use the gateway as its callers may: all that is proved of it holds behind them |
| `ScrapesShowReplies` | `DemoServerProofs` | `ScrapeShowsReplies` for any traffic, number of connections and size of the histogram |
| `NoAttackRuns` | `DemoServerProofs` | `AttacksFail`, the safety half of `GroundTruthHolds`, if the attacks are recognised (`AttacksAreRecognized`) |

*Assumptions.* `ConfigIsValid` (what `validate` enforces, and the declared types),
`BoundsAssumption`, `GatewayAssumption`, `LoopAssumption`, `ModelAssumption`,
`StoreAssumption`, `ScrubberAssumption`, `DemoAssumption` (types and ranges of the
constants; `LoopAssumption` and `DemoAssumption` also say that `Requests` has what the
graphs and the posts can ask). TLC
evaluates them in the runs. Some theorems have a hypothesis of their own:

- `Enforce` is protected mode.
- `TrustedRoles`, of `AttacksStopTheNextCall` only: no role of a request is granted an
  unguarded tool above its trust. It holds for the default tables; where it does not,
  such a call is isolated whatever the content scores (part 6).
- `OneThread`: clock readings reach the lock in order. With two threads the order
  of last use can be broken, for the reason that breaks `ResetOnlyWhenIdle` (part 6).
- `RoomForScores`: the deque of calls holds twice `rate_limit`, the deque of blocks three;
  from there on the rate factor and the factor for blocks are at their least, so that
  what overflowed cannot be told. The code's deques hold 256 and 64, its default
  limit is 20.
- `RoomForBurst`, `RoomForRecentBlocks`: finitely many threads, and a place in the deques
  for each of them beyond `rate_limit` and one: a thread that was delayed may push
  an old reading over a recent one. (In Python's thread pools, a few dozen.)
- `ResetTogether`: one thread, or a clock that stays within the TTL. Otherwise a profile may
  be reset although its agent was not idle (part 6), and forgets by that.
- `AttacksAreRecognized`: each item marked as an attack asks for what the policy refuses on
  its request, or sends a secret to an external host. TLC evaluates it on the items
  of `Workload`.
- `ReadsCount`: protected mode; room in the store for the agents and a clock that stays
  within the TTL (otherwise the monitor forgets a read by design) and within
  `sensitive_read_window` (otherwise the read has expired); `anomaly_quarantine` of at
  most 70 and a `no_net` tier without egress. The default thresholds and tiers have
  the last two; a laxer threshold lets a single risky call after a read run, since
  the sequence signal is worth 70.
- `RoomForBlocks`: at most `max_agents` agents, a clock that stays within the TTL, a
  deque as long as the requests are many. Without it the code forgets blocks by design.

*Monitor.* The inductive invariant is `TypeOK /\ StoreBounded`: that the score is
a number and an evicted agent has no history needs the store's order to list
each tracked agent once, and that in turn needs the types. `Touched` moves or
adds the agent at the end; `Evict` drops from the front and, since
`max_agents >= 1` (which `validate` enforces), keeps the end. Hence the bound,
and hence `OwnProfileSurvives`. `LastUseInv` adds, with one thread, that the pending
operation's reading of the clock is at least every `last_seen`: it is what the
operation writes at the end of the order.

*Monitor against history.* `HistoryInv` relates each profile to that of the history
next to it (`Matches`): the same tools and counts, and in the deques the *last* entries of
the history's lists (`LastOf`), by order of arrival. With one thread the
lists are sorted and the last reading is the latest; then the entries that a full deque
dropped are older than all it kept, so that either no entry in the window is missing, or
the window holds enough to put the factor at its least, and the scores are equal
(`ScoreIsExact`). With several threads the lists are not sorted, but nearly: an entry that
follows a later one was read by a thread that was then waiting for the lock, and each thread
waits for one operation at a time. `Orderly` says so: the entries that came after
entry `i` with an older reading are at most as many as the other threads (`Late`). Hence
a deque with that many places to spare keeps an entry of the window, which
is all that `BurstIsSuspicious` and `BlocksNotWashedOut` need.

*Gateway.* The inductive invariant is `TypeInv`, the conjunction of `TypeOK`,
`StoreBounded`, `GatewayTypeOK` and `OpMatchesJob`. The last one says that
the worker's stage and its operation in the monitor agree: a worker at "observe"
has an observe pending, one at "locked" a record, and elsewhere none; without it
a worker could find its thread busy in the monitor or take a result that is
not its own. `GatewayImplementsMonitor` follows since each action then maps
to a step of `BehaviorMonitor` or leaves its variables alone.

`RunsArePermitted` is not inductive: the execution step checks nothing of the
policy itself. `JobPolicy` strengthens it by what each stage has established
about its request (`Cleared`: after enforcement, a job whose verdict is not block
is for a call that `MayExecute`: permitted, above its floor or unguarded and to be
isolated, and not suspicious if guarded); each stage hands that on to the next.
The executor isolates what it is told to (`ExecutionEffect`), which gives the
second conjunct.

`NoLeak` needs no history: in protected mode the executor refuses every call for
which the ground truth would be an exfiltration, which is the lemma
`ProtectedExecutionNeverLeaks`.

*Requests.* `RequestInv` says of every request that one worker owns it or that it is
answered, and what is true of it by its stage. Until the executor
returns it has no effect and its decision reports none (`Early`, `NothingDone`); from then on
the decision says what the execution did (`Sound`) although other workers go on in between;
it has an audit record between `Emit` and `Return` only; and an attack never reaches the executor
(`Stopped`), unless it is a call that the policy check isolates. Once answered, it is `Concluded`: the answer is sound or the fail-closed
one. Audit, monitor-only mode, `BlockWorthyRefused` and the refinement are read off
this. In the refinement an execution is `Guard`'s run (permitted by
`RunsArePermitted`, without a leak by `NoLeak`), the return is its answer,
and every other step is a stutter.

*Counters.* A counter says how often its key was counted, so the proof says for
whom: `TallyInv` claims a tally, which holds the keys counted for each request so far,
and every counter is the number of requests tallied under its key.
A request in flight has the keys that its `todo` list no longer holds; an
answered one has all that its decision reports (`ReportKeys`); a failed one keeps those it
had, and "errors". Since `requests` and the other totals come first in the lists, no
tally holds a part without its total (`TotalsFirst`), which gives `TotalsCoverParts`
in every state; with all requests answered and no fault the tallies are the reports, which
gives the equalities.

*Profiles.* A baseline is written under the monitor's lock, long after the run it
counts. `BaselineInv` therefore counts an agent's runs outside isolation
without those whose record is still pending (`Taught`); a record moves its request
into that set in the step in which it adds to the profile, and a reset or an eviction
only makes the profile smaller. Dually `BlocksInv` counts the
blocked calls whose record has been written (`Noted`): `_commit_behaviour` comes before
the answer, so that every answered block is noted. `StoreKeepsOthers` and `BlocksKept` show that
with `RoomForBlocks` nothing that another agent or thread does removes a block.

*Agent graphs.* `GraphsImplementGateway` needs `LoopInv`, since a graph may ask only
what `Requests` has: its messages and batches are well-formed, the content that it
shows the gateway is that of the last message before the proposal (`LatestContent` searches
the list from its end), and the request it waits for is the one for its current call.
Two graphs never wait for the same request, nor for one whose function was
called (`CallsOK`), which gives `FunctionsAreGuarded` with `GatewayNeverLeaks` and
`OnlyPermittedCallsRun`; `AnsweredUpTo` is the shape of a conversation
in which every proposal has its replies. `AttackStopsNextCall` follows from
`AttacksAreRefused` and `TrustedRoles`, as a called function's request carries the content that
the model saw.

`NoEgressFunctionAfterRead` spans the monitor, the gateway and the graphs. First, `ReadsInv`: an answered
sensitive read is in its agent's profile, and one that ran is on its way there, whatever
stage its worker is at (`TellsRead`) and whatever the others record meanwhile. Second, by
`RiskyAttemptScore` a risky call that is scored with a read in the window keeps at most 30 of 100
in the noisy-or, so `Judge` blocks or quarantines it, and isolation denies it
(`QuarantineHoldsEgress`): `Restrained` says this by the call's stage. `SequenceInv`
joins them: a graph that has called a read's function waited for the answer, hence
the read is in the profile before its next call is even submitted; a risky one is
restrained from its first stage on, and does not run. A second worker that is not
bound to wait breaks exactly this (`NoEgressAfterRead`, part 6).

*Model artifact.* What is served says nothing of the files, so the properties are
not inductive. `SaverInv` says what a save has written by its stage, and that
`saved` models are whole in both files; `LoaderInv` says what an undisturbed load
knows by its stage (`Known`): the files are still those it started from, what it
verified is what the manifest names, and what it read is whole and usable; a load that
retrains started from no complete save. A step of the saver touches a file only
together with `found`, which then says `Disturbed`. That the loader never opens a
missing file (`ArtifactExists`) is needed for the types.

*Configuration objects.* `ObjectInv` says of every object whose containers it
refers to (`Owned`: its own, except that what `from_dict` returned may refer to
the tables of a mapping), hence that only its holders' changes reach it, and that
it holds what they told; a gateway that was not changed is as valid as the copy
that made it. The sharing of `from_dict` is harmless only since mappings' tables are shared
with "parsed" objects alone, which the invariant makes precise.

*Scrubber.* That a document without a master match has no flagged line makes the
fast scrubber equal to the baseline for every document (`FastIsNaive`). The
inductive invariant of the cache is `CacheInv`: every thread holds the result of
its own text, and entry `i` of the cache is that of use `i` of the history
`recent`. A hit moves both to the end; a second insertion of a text changes neither,
which is where the race between two misses is harmless; a first insertion appends to both,
and drops the oldest of both when the cache is full.

`BandIsRemovable` and `ScrubIsFinal` are about the answers, hence about `NaiveScrub` of any
document. A hit that would survive the scrub (a compound rule whose parts are not removed)
weighs at least as much as the block threshold, and one hit is enough to reach
it, since the noisy-or only grows with hits (`Kept`, a loop over the eleven rules, is
unfolded by `KeptStages`, and each factor is monotone); so a document below the threshold has only hits whose patterns are removed.
Scrubbed lines have no flagged pattern and are not hidden, so a second pass leaves
them, and the rules' hits on the scrubbed text are among those on the original.

*Demo server.* A connection holds a request that callers may submit (`ConnInv`), so that
each step of the server is a step of the gateway or leaves it alone. For the scrape,
`SamplesInv` says that the histogram has a sample for each request that was answered, or
is past the audit record, without failing (`Recorded`), or is full: only `Emit` adds to that
set, and it takes a sample in the same step. A reply comes later, and by the tally of
`CountersAddUp` its request is counted; `ScrapeInv` carries both over the second half
of the snapshot. `NoAttackRuns` joins `OnlyPermittedCallsRun` with `GatewayNeverLeaks`, as a
call leaks exactly when it ran and carried a secret outside (`LeaksAreRuns`).

*Only model-checked.*

- The liveness properties: temporal reasoning with fairness and ENABLED is outside
  what the provers handle.
- `ScenariosEndRight`, and of `GroundTruthHolds` that the authorized items run: they
  say that nothing in the histories that the concrete scenarios and items leave
  in one monitor reaches a threshold, with the default tables and up to four requests.
  These are finitely many cases, which TLC enumerates; with longer traffic the
  statements fail (a burst is quarantined, as it should be).

## 6. Where the code and its documentation disagree

One is demonstrated by a run, a short counterexample:

| Run | Statement | What happens |
|---|---|---|
| `found_would_block` | "would_block records whether enforcement *would* have blocked" (`types.py:205-207`) | In monitor-only mode only an exfiltration attempt is added; a call that the tier's capability gate or another egress rule would deny is not flagged. (What leaks is flagged: `MonitorFlagsLeaks`.) |

Five more are properties of the modules that fail under other settings; each has
a short counterexample that TLC finds in seconds:

| Property | Settings | Statement | What happens |
|---|---|---|---|
| `ResetOnlyWhenIdle` | `behavior_scores` with two threads | "a long-idle profile is stale; start fresh" (`behavior.py:84`) | A thread delayed between its clock reading and the lock writes an older `last_seen` over a newer one; the next call resets an agent that was not idle for the TTL. |
| `NoRunBelowFloor` | `gateway_protected` as it is | "a tool call that violates the RBAC matrix or a trust floor but executes" is out of the question (`SECURITY.md:31`) | A call of a low or medium tool below its trust floor runs, isolated (`enforcer.py:55-63`), as `config.py:80-81` says for medium ones. What holds is `RunsArePermitted`: no such call of a guarded tool runs, and none outside isolation. |
| `NoEgressAfterRead` | `gateway_protected` with `SequenceConfig`, `SequenceMix` | "a sensitive read followed within a window by a risky egress" (`behavior.py:12-13`) | A second worker scores the egress after the read has run and before it is recorded. A graph that takes one call at a time keeps the rule (`agent_loop`). |
| `BlockMeansRefused` | `gateway_faults` with `Reads` and one fault | "BLOCK -> refuse execution entirely" (`types.py:42`) | An exception after the executor returned is answered by a BLOCK with `executed` false, although the tool ran. |
| `EveryLabelHolds` | `playground` with `OrderTraffics` | "The scenario list is a claim about how AEGIS behaves" (`test_demo_server.py:134`, with an agent of its own per scenario) | The page plays all scenarios as one agent: after a blocked one the privileged transfer, labelled "allow", is blocked; after two, the shell scenario, labelled "block", is quarantined instead. Neither runs an attack (`ScenariosEndRight`). |

Others were met while modelling, are visible in the model, and have no run:

- `behavior.py:180, 191`: a delayed record moves `last_sensitive_read_at` back
  (same cause as `ResetOnlyWhenIdle` with two threads).
- `behavior.py:46`: a `rate_limit` of 256 or more, which `validate` accepts, can
  never be exceeded because `call_times` keeps 256 entries.
- `behavior.py:80` says stale entries are evicted too; only the cap evicts.
- `behavior.py:8` says the rate window counts blocked attempts too; those denied
  by the policy check or for their size are never observed.
- `gateway.py:34-35` says monitor-only mode never denies a tool; oversized
  requests are blocked in it.
- `enforcer.py:55-63`: a call below the trust floor of an unguarded tool runs
  isolated whatever its injection score, though `config.py:168` says
  `injection_block` blocks outright. No pair of the default tables reaches
  it; `LooseConfig` does, and `BlockWorthyRefused` names the exception.
- `types.py:39` describes a SANITIZE verdict; a decision that scrubbed and allowed
  carries ALLOW.
- `telemetry.py:119`: a request that fails after it was counted is an error and a
  processed request.
- `gateway.py:30-32` says every internal error is audited; one raised while
  auditing leaves no record.
- `langgraph_adapter.py:4-6` says a call is judged with the context that motivated
  it; after a batch of calls only the last result is that context (lines 62-69).
- `server.py:30` bounds the body of a post; a `Content-Length` of -1 passes the
  check of line 190 and the body is read until the client closes its end. Below -1
  the read of line 195 raises, no handler catches it, and the client gets no reply.
- `simulated_agent.py:83` calls its items benign; with a classifier score of 14 or
  more, below every threshold, the first use of an egress tool is routed to a tier
  without egress (novelty and score reach the router's risk limit) and denied.
- `config.py:329-330`: `from_dict` rejects unknown keys, but what it returns refers
  to the caller's own mappings (line 347), so that a later change of them changes
  it unchecked. The gateway's copy is validated.
- `pipeline.py:94`: a save between loading and naming makes `model_source` name
  other content than was loaded.

## 7. Not modelled

- The classifier and its features (`classifier.py` apart from the artifact,
  `FeatureExtractor`): floating-point statistics over character counts and a
  trained weight matrix. The score is an input of the model; every score that the
  thresholds tell apart is represented. Building and splitting the training
  corpus (`dataset.py` from line 280) belongs to it.
- Regular expressions, as such: a line is the set of patterns that match it. What
  the egress filter's expressions and decoders find in arguments is part of the
  abstract call. The *rules* on what was found are all there.
- The histograms of the single stages (they are taken like the total), the
  percentiles, the layout of the Prometheus text.
- A configuration changed while requests are in flight: the gateway's
  configuration is a constant of its model. `ConfigStore` has the changes, without
  requests.
- The JSON log formatter, the static page and its assets, the command lines, the
  seeded random choice of the simulated agents (every choice is allowed instead),
  the scripted chat model of the demo graph (any model is allowed).
- The harness and the scripts: they drive the gateway with one request after the
  other and print statistics; nothing in them is concurrent or keeps state the
  guarantees depend on. Their traffic is in `Workload`.
- Crashes of the gateway process: it persists nothing, a restart is `GInit`.
- Real time: durations are ticks, and nothing is said about latency.
