# vyos-cp: a TLA+ model of the VyOS control plane

vyos-cp is a Go server (with a React front end) that manages a fleet of VyOS
routers through their HTTP API. It keeps devices, users, an audit log, rule
templates, configuration snapshots, VPN metadata and traffic accounting in
PostgreSQL, polls every device in the background, and pushes live events to
browsers over WebSockets. This directory holds TLA+ modules that model its
logic, the TLC configurations that check them on small instances, and proofs
checked by TLAPS.

Paths below are relative to `src/backend/internal/`, those of the console (`pages/`,
`components/`, `.tsx`) to `src/frontend/src/`, unless they start with `src/`.

## 1. Inventory

| part | code | state it keeps | operations | talks to |
|---|---|---|---|---|
| Device write flow | `service/service.go`, `service/nat_zones_rbac.go`, `vyos/client.go` | none of its own: the device's running and startup configuration, its pending commit-confirm, the audit log | `runConfigure`, `runConfigureRedacted`, `UpsertRule`, `DeleteRule`, `pushRuleSetOne`, `UpsertGroup` | device (`Configure`, `Confirm`, `Save`), `store.RecordAudit` |
| Client pool and device records | `service/pool.go`, `service/completeness.go`, `service/quick_actions.go`, `store/store.go` | cache of one client per device; `devices` rows | `Get`, `Invalidate`, `UpdateDevice`, `UpdateDeviceTags`, `DeleteDevice`, `UpdateDeviceStatus`, `RebootDevice` | every other part gets its client here |
| Poller | `poller/poller.go`, `poller/snapshot_tick.go`, `poller/counter_snapshot.go`, `poller/flows.go` | cadence counters, subscribers, throughput rings | `tick`, `pollOne`, `metricsLoop`, `retentionLoop`, `usageRollupLoop` | devices, store, event hub |
| Event hub | `poller/poller.go`, `api/server.go` | map of buffered channels | `Subscribe`, `Unsubscribe`, `broadcast`, `wsHandler` | poller publishes, WebSocket handlers read |
| Throughput collector | `poller/throughput.go`, `poller/raw_counters.go` | previous counters, rings of 60 samples, last persist time | `Collect`, `DueForPersist`, `MarkPersisted`, `RawCounters`, `Rings` | poller, usage accounting |
| Usage accounting | `poller/usage_rollup.go`, `poller/usage_aggregate.go`, `store/usage.go`, `store/usage_aggregate.go` | counter snapshots; hour, day and month buckets | `persistCounterSnapshots`, `runUsageRollup` (`accumulate`), `runDailyMonthlyRollup`, `SetUsage` | store |
| Configuration snapshots | `store/snapshots.go`, `poller/snapshot_tick.go`, `api/snapshots.go`, `diff/diff.go` | one hash chain of snapshots per device | `AppendSnapshot`, list, diff, capture | poller tick and manual POST race |
| VPN profile and peer metadata | `service/vpn_profiles.go`, `service/vpn_peers.go`, `store/vpn_profiles.go`, `store/vpn_peers.go` | metadata rows for objects that live on the device | list (with garbage collection), get, create, update, delete | device, store |
| IPsec configuration | `service/ipsec.go` | none | upsert and delete of IKE/ESP groups and peers, `CreateTunnel` | write flow |
| QoS | `service/qos_snmp.go`, `service/completeness.go`, `vyos/translator/qos.go` | none: policies, bindings, IFBs on the device | `UpsertTrafficPolicy`, `BindTrafficPolicy`, `UnbindTrafficPolicy`, `DeleteTrafficPolicy`, `CleanupOrphanedIFBs` | write flow |
| SNMP | `service/qos_snmp.go`, `vyos/translator/snmp.go`, `src/frontend/src/pages/SNMP.tsx` | none: one subtree on the device; the page's last read of it | `GetSNMPConfig`, `UpsertSNMPConfig` (all of it at once), `DeleteSNMPConfig` | write flow, device records (tags) |
| Console: pages and query cache | `src/frontend/src` (`App.tsx`, `main.tsx`, `pages`, `components`) | one cache of query results per tab, the page, the open dialog, calls in flight | navigation, prefetch, polls, some thirty operations, each with what its success invalidates and closes | the API |
| Panels that ask on their own | `components/GlobalSearch.tsx`, `pages/LiveConfigTab.tsx`, `pages/Audit.tsx`, `components/simulation` | input, result, spinner, error | search, compare, preview, simulate | the API, past the query cache |
| Row editors | `pages/RuleSetEditor.tsx`, `NAT.tsx`, `QoS.tsx`, `Audit.tsx`, `VPNProfileDrawer.tsx`, `TunnelListEditor.tsx` | a numbered list as shown, a draft | add, edit, renumber, remove, save | the API |
| Overview health | `pages/Overview.tsx` | none (computed from two queries) | counts, score, label | query cache |
| Users and roles | `api/server.go`, `api/extras.go`, `store/store.go`, `service/nat_zones_rbac.go` | `users` rows | bootstrap, create, update, delete, `RoleAllows` | store |
| Rule simulation | `simulation/engine.go` | none (pure) | `RunSimulation`, `detectShadows`, `detectRiskyRules` | API |
| Flow records | `poller/flows.go`, `store/flows.go`, `vyos/parse/conntrack.go` | flow snapshots | `collectFlows`, `LatestFlows` | poller |
| Translators and parsers | `vyos/translator`, `vyos/parse` | none (pure) | model to ops and back, op-mode text to records | service, poller |
| Fleet views | `service/overview.go`, `service/search.go`, `service/fleet_health.go`, `service/ipsec_status_detail.go` | none | read-only fan-outs | devices |
| Sealer, templates, CLI helpers | `crypto`, `store/store.go`, `vyos/cli.go` | templates | | |

### How the parts interact

* Every request handler and every poller goroutine gets its `*vyos.Client` from
  the one `ClientPool`. There is no per-device lock above it: two requests that
  write to one device interleave call by call on the device.
* The poller starts one goroutine per device per tick and waits for all of
  them; four more loops (retention, usage rollup, metrics, ticks) run beside it.
  They meet the request handlers in PostgreSQL (snapshots, counters, device
  status) and in memory (throughput state, event subscribers).
* PostgreSQL is used statement by statement. Check-then-act sequences (is there
  an admin left, what is the latest snapshot, which metadata rows are orphans)
  span several statements without a transaction.
* A request's context is cancelled when the browser disconnects and after
  60 seconds (`middleware.Timeout`). Every later call of that request then fails
  without being sent, the audit insert included.
* A page of the console reads through one query cache per tab. A write does not
  change the cache: its success invalidates keys, which fetches them anew. Calls in
  flight outlive the page that made them, and other tabs and administrators are
  seen by polls or not at all.

### What makes each part correct

| part | it must |
|---|---|
| Device write flow | report a success only for a change the confirm timer cannot take back; confirm no change but its own; leave no commit unconfirmed for ever; leave nothing on the device after an answer that says "reverted" |
| Client pool, device rows | hand out no client older than the last finished edit; share one client between callers; keep the fields an edit leaves nil |
| Poller, event hub | never send on a closed channel; never let one subscriber hold up or starve another; never go back to an older status in the row or in a browser; end every tick and every handler |
| Usage accounting | never count a byte twice; never take back a completed hour; days and months that are the sums of their hours |
| Snapshots | insert a row only for a change; one chain of parents in the order of observation; answer a refresh with what the device has |
| VPN metadata | never collect the row of an object that exists; collect the rows of those that do not |
| QoS | never give one IFB to two interfaces; never clean up one in use; leave other interfaces alone |
| SNMP | change the one item the operator edited, although all of the configuration is sent |
| Console | never come to rest on data older than the page's own change; lose no dialog that is saving |
| Panels | show the result of what was asked last; let no spinner turn for ever |
| Row editors | lose no row, give no two rows one number |
| Overview | a label that agrees with the counts beside it |
| Users | never lose the last admin |
| Simulation, diff | agree with first-match semantics; reproduce the new tree from the old one |

### Behaviours that are hard to test

The list is `hazards` in `PROJECT.json`, each at its line: lost answers of
commit-confirm calls, two writers on one device, a fill of the client cache that
races with an invalidation, check-then-act on users, snapshots and metadata,
rollup windows that lose their baseline, subscribers that go away while an event
is being delivered, answers that overtake each other in the browser, saves of a
whole configuration from a stale copy, IFBs that lost one of their three legs.

## 2. Plan

Order: the part through which every change of a router passes comes first, then
the parts that other parts rely on, then the ones that stand alone.

| module | models | state |
|---|---|---|
| `CommitConfirm` | the write flow, several requests on one device | checked, proved |
| `DeviceChanges` | abstract: a change is applied as a whole, then kept or taken back | refined by `CommitConfirm` |
| `ClientPool` | `ClientPool.Get`, `UpdateDevice` and the device row | checked, proved |
| `RowCache` | abstract: a cache looked up and filled in one step, with nothing older than the last finished edit | refined by `ClientPool` |
| `SnapshotChain` | captures of one device and the snapshot table | checked, proved |
| `UserAdmin` | bootstrap, update and delete of users | checked, proved |
| `VPNMetadata` | profiles on the device against rows of metadata | checked, proved |
| `UsageRollup` | counter readings to hours | checked, proved |
| `UsagePeriods` | hours to days and months | checked, proved |
| `RuleSimulation` | `RunSimulation` and the analysis of a rule set | checked, proved |
| `EventHub` | subscribe, broadcast, unsubscribe; WebSocket handlers and browser tabs | checked, proved |
| `Poller` | ticks, status row, events; composes `EventHub` | checked, proved |
| `ConsolePages`, `Console` | the pages as tables; a browser tab over the query cache | checked, proved |
| `ItemStore` | abstract: a store whose items are changed one at a time | refined by `SnmpConfig` |
| `SnmpConfig` | the SNMP page over the SNMP service | checked, proved |
| `LateAnswers` | panels that ask outside the query cache | checked, proved |
| `RowEditors` | the numbered lists | checked, proved |
| `OverviewNumbers` | health score and label | checked, proved |
| `IfbPool` | bindings of traffic policies and their IFBs | checked, proved |
| `ConfigDiff` | the diff of two configuration trees against a reference definition, over bounded trees | later |
| `RetentionLoops` | pruning of old rows and sampling of metrics beside the ticks | later |

Theorems to add: those of the modules still to be written.

## 3. The modules

Each module models one device (or one table): devices share no state but the
tables whose rows are per device; only `Poller` and `EventHub`, where devices share
the lock and the channels, are about several. Most modules have a variable
`faults`, chosen in `Init` from the constant `FaultSets` and never changed: what
may go wrong in a behaviour. One run covers several fault sets, and a property
that needs the absence of a fault says so itself (`"overlap" \notin faults => ...`),
so the conditions of every property are visible where it is stated. `UserAdmin`
has a constant `Faults`, and its property names what a fault may lead to. In `EventHub` and `Poller` anything
that can fail may fail at any time, and no property has a condition; `RuleSimulation` cannot fail. In `IfbPool` and
`SnmpConfig`, too, everything may fail, overlap and get lost; there a history variable (`misled`, `raced`) says that a
request acted on something that was not so any more, which is where a behaviour ends.

Definitions whose comment begins with "Mutant:" are not part of the model. Each is
a plausible mistake in the definition that follows it; `PROJECT.json` pairs it
with the property that finds it.

### CommitConfirm

*State.* `pc[r]` is the call a request's goroutine is in, `ctx[r]` its request
context, `oks[r]` the calls whose success it has seen (the code keeps them in
`err` variables). `inflight` are calls sent and not executed. `running`,
`startup` and `pending` are the device: both configurations and the commit that
waits for its confirmation. `audit` is the table.

*Actions.* `Start` to `Audit` are `runConfigure` (`AfterStrict`) and the older
`UpsertRule`, `DeleteRule`, `pushRuleSetOne`, `UpsertGroup` (`AfterBestEffort`,
which goes on after a failed Confirm). `GiveUp` is any error of a call whose
effect is unknown. `Cancel` is the browser going away or `middleware.Timeout`.
`Accept`, `Refuse`, `Confirm`, `Save`, `Revert`, `Reboot` are the device.

*Assumption on the device.* VyOS refuses a commit while another one waits for
its confirmation, and executes "confirm" on whatever waits. The confirm window
(`CommitConfirmMinutes`, one minute at least, opened after the request began) ends no
sooner than the 60 seconds of the request: `WindowOver`.

*Refinement.* `ImplementsChanges` is `DeviceChanges!Spec` with `kept <- Confirmed` (what the device falls
back to), `trial` the pending commit, `stored <- startup` and `acked` the strict requests that have
reported a success. Any number of requests, each of five calls that may be lost, late or answered
with an error, come to a device that applies, keeps or takes back one change in a step.

### ClientPool

*State.* `row` (two fields stand for the columns), `version` the number of
UPDATEs of the connection settings, `cache` the client, known by the version it
was built from. `read`, `copy` are local variables of the goroutines; `finished`
and `least` record what had returned when a `Get` began and exist only for
`NextCallUsesNewSettings`.

*Actions.* `Lookup`, `ReadRow`, `Fill` are the three phases of `Get` (read lock,
no lock, write lock). `ReadWhole`, `WriteWhole`, `Invalidate` are `UpdateDevice`.

*Refinement.* `ImplementsRowCache` is `RowCache!Spec` with `newest <- version`: `Lookup` that hits and `Fill` that
finds a client are its `Hit`, `Fill` of an empty cache its `Load`, a failed read its `Fail`; the read in between
is no step of it. `loose <- "slow_fill" \in faults` gives up the lower bound of what is loaded.

### SnapshotChain

*State.* `history` is what the device was configured to so far, `rows` the table
in the order of `taken_at`; `cfg`, `latest` are locals of a capture. *Actions.*
`Retrieve`, `Lookup`, `Insert` are `CaptureSnapshot` and `AppendSnapshot`, `Fail` their
logged errors, `Answer` the refresh handler.

### UserAdmin

*State.* `role[u]`, the strongest role of a row, `tokens` who holds a JWT that
passes `requireRole("user.create")`, `pc` and `op` of each handler; `looked[h]`, for the property
only, the admins there were when the handler counted them. *Actions.* One per statement:
`CountUsers`, `InsertFirst` (bootstrap), `BeginUpdate`, `BeginDelete`,
`ListUsers`, `CountAdmins`, `Write`. A dropped error of `ListUsers` lets the
delete pass; an error of `CountAdmins` reads as 0 and refuses.

*The property.* The guards do not keep the last admin: two handlers can each remove one of two, and a failed `ListUsers`
lets the last one be deleted. `LastAdminGuarded` holds with both: the last admin goes in no other way. The request that
takes it was overtaken (an admin it counted is gone, or its target was made an admin since), or it is a delete that counted nobody.
Two bootstraps that overlap both succeed (section 6); no property forbids that, as with the code as it is there is none to state.

### VPNMetadata

*State.* `device`, `used`: profiles on the device and those a peer references;
`rows`: the table; `seen`, `orphans`: what a request has read and is about to
delete. *Actions.* `ReadConfig`, `ReadRows`, `CollectOrphan` are every read
(`listDeviceVPNProfiles`), `Configure`, `StoreRow` the write, `AddOutside`,
`RemoveOutside`, `ChangePeer` the CLI and the IPsec page.

### UsageRollup and UsagePeriods

`UsageRollup`: `counter` is the device's, `raw` the collector's memory, `snaps`
the readings stored, `usage` the hours stored, `job` the rows the running
iteration has yet to write, `readAt` the time at which it read the readings: the look-back starts there, not with an hour;
`passed` counts what really passed, for `NeverOverCounts`. `accumulate` and `usageDelta` are the code's functions, `Upsert` is the
`ON CONFLICT ... DO UPDATE` of `SetUsage`.
`UsagePeriods`: `hourly` is what `UsageRollup` stores (any change of the current
and the prior hour), `pending` the totals of a pass, `fresh` says that an
iteration ended in this hour. `MCUsage` checks the two side by side, as its instances `Hours`
and `Periods`: a behaviour is one of readings and hours or one of hours, days and months (`half`).

*A completed hour.* The look-back is two hours from the time of the pass, and the baseline of an hour is the last reading before it. A
pass late in an hour is more than two hours after the baseline of the prior one, and replaces that hour's total by a smaller one:
`HoursAreFinal` is the comment's promise and is violated without any failure (run `usage_late`). `HoursKept` says what is true: only a pass
in the last reading interval of its hour (`~SeesBaseline`) ever takes anything back.

### RuleSimulation

*State.* `rules` and `pkt` are the arguments, `trace` the status of each rule evaluated so
far, `matched` the place of the matching rule. *Actions.* `RunSimulation` is one
round of the loop. `detectShadows`, `detectRiskyRules` and what they call are
operators on `rules`.

A specification of addresses or ports is a set, perhaps negated; how it is parsed is
left out, and so is the finding `broad_src`, which tells `0.0.0.0/0` from an
empty address. Two meanings of "matches" are kept apart: `matchRule`, the simulation's,
and `Applies`, the device's, in which groups, MACs, source ports and all
lists of countries restrict a rule. The second one is not in the repository's code;
its comments state it. A claim that a rule is dead is checked against both.

### EventHub and Poller

*State of the hub.* `subs` is the map of subscribers, `channel` and `queue` what
each entry's channel is and holds. `cast`, `todo` are a broadcast that holds the
read lock; `writer` is the goroutine whose `Lock` call keeps new readers out, as
`sync.RWMutex` does. `pc`, `filter`, `tab` are the WebSocket handlers, `conn` and
`view` the browser: whose connection a tab listens to, and the last event of each
device it was given. `last` and `due` exist for `KeepsUp`. A handler is a
goroutine with at most one channel; it may serve one connection after another.

*Actions of the hub.* `Broadcast`, `Offer`, `EndBroadcast` are `broadcast`: the lock, the
`select` for each subscriber in the order of the map (any order), the unlock. `Lock`,
`Subscribe`, `Forward`, `Leave`, `Unsubscribe`, `Close` are `wsHandler` and
what it calls; `Connect` and `Lose` are `connectWS` and the network.

*Composition.* `Poller` extends `EventHub` and decides who broadcasts what and
when; the hub's other steps are `Connection`. Every step of `Poller` is a step of
the hub or leaves it alone (lemma `PollerIsHub`). `Tick` starts one goroutine per
device, `Ask` is the call of the device and the UPDATE of its row, `Tell` the
status event, `Measure` the later ones; one event stands for counters and
throughput. A goroutine is named by its device and the parity of its tick, so
that the goroutines of two ticks could overlap if `Tick` did not wait. Events
carry a time: twice the number of the tick, and one more for the later event.

A stop of the process takes the hub's state with it and leaves the rows as they
are; it is not an action.

### ConsolePages and Console

`ConsolePages` has no state: per route a page with the keys it mounts and polls and its
operations, and per operation the dialog it is submitted from, what keeps its button
disabled, the data it changes, the keys its success invalidates and the dialogs its
success closes. `ForgottenTable` lists the keys a success handler should have
invalidated and does not; `TablesAssumption` states that there are no others.

*State of the tab.* `server[k]` counts the changes of what a key reads, `data[k]` is the
version in the cache, `fetch[k]` the version the server had when the GET in flight was
sent. `writes` are the calls in flight, `dialog` the open dialog and which opening of it
this is, `floor[k]` the newest own change the page was told of.

*Actions.* `Navigate`, `SignIn`, `SignOut` unmount a page with its dialog, not its calls;
`Hover` is `prefetchForPath`; `Poll`, `Answer`, `FailFetch` the cache; `OpenDialog`,
`CloseDialog`, `Submit`, `Apply`, `Succeed`, `Refuse` the life of an operation; `Outside`
anybody else.

*Assumption on TanStack Query* (version 5, configured in `main.tsx`): an invalidated key that is
mounted is fetched at once and the GET in flight is given up, unless the key has no data
yet, when it is joined; other invalidated keys are fetched when they are mounted. The
queries that open dialogs and drawers mount of their own are left out.

### SnmpConfig and ItemStore

*State.* `server` is the device's subtree as items (a community, user, view, or trap
target of version 2 or 3), `cache` the page's last read, `modal` the dialog, `writes` the calls in flight; `wrapped` is the shape of the
device's answers. An item has what its dialog shows (`value`) and a `rest`: fields the page carries and no dialog
holds, fields the decoder drops, or no leaf at all, in which case the encoder drops the item.
*Actions.* `Save`, `Delete`, `DeleteAll` send, `Apply` is the replacing commit with the check of the
production tag, `Succeed`, `LoseAnswer`, `Refuse` its outcomes. The page tells trap targets apart by their address
only (`Alike`): an edit or a delete is about both versions of it (`InPlace`), and an edit may turn one into the other.
An answer that is wrapped in its last path segment decodes to nothing (`Answer`).

*Refinement.* `WritesOneItem` is `ItemStore!Spec` with `items <- server`: a step changes one item (or
wipes all by "Delete all") and leaves the others as they were, or as a trip to the page
and back wears them (`Worn`), but for the trap target of the other version, which may go. It ends with `raced`: a click on a list that is
not what the device has (not read yet, wrapped, under way, or changed outside), or an answer that is lost.

### LateAnswers, RowEditors, OverviewNumbers

Each is one small machine with a table of the places in the console that differ only
in a few choices. `LateAnswers`: `flights` are requests with the input they are of, `shown`
the input whose result is on the screen. `RowEditors`: `rows` are the rows as they are, `seen` as
the page shows them, a row is its number and the edit that made it; its place in the list is left out,
as no step depends on it. `OverviewNumbers`: the
configuration and the tunnels change on the device and are read at different times.

### IfbPool

*State.* `legs` are the three facts on the device that make up a binding in both directions:
the interface's redirect, the declaration of the IFB, the policy on either. `trial` is what the device falls back to if the
change it runs is not confirmed, and the interfaces that change is about. `request[r]` is a request
with what it has read and what it has yet to read. `wraps` is the shape of the device's answers: the two readers that know one shape
only see nothing in the other (`Legible`). *Actions.* `BindTrafficPolicy` to `CleanupOrphanedIFBs`
begin a request, `Retrieve` and `FailRetrieve` are its calls, `Configure`, `Confirm`, `FailConfirm` and `GiveUp` are `runConfigure`,
`TakeBack` is the device's timer, also long after the request has answered.

*The properties.* `misled` says that a request configured something else than it would have, had it read the legs at that
moment: it read before another request's commit, it read what was on trial and has been taken back, or a read failed and mattered.
The behaviour ends there. Until then, whatever overlaps, fails or is taken back, no two interfaces share an IFB, no redirect leads to an IFB that
looks free, and a change touches the interfaces it is about. That a request can be misled, and what follows, is in section 6.

*Assumptions on the device.* It deletes what is not there without an error, refuses a commit in which a
policy that does not exist is bound, refuses a commit while another one is on trial, and the kernel's IFBs are fixed. The confirm window is
not zero. Reboots are left to `CommitConfirm`.

## 4. What is checked

| run | question | bounds |
|---|---|---|
| `commit` | Is a reported success confirmed, and kept until a reboot? Does a failed confirm revert? Does a request confirm only its own commit? Does the device look as if changes were applied, kept and taken back as a whole? | two strict requests and one best-effort one; all faults, none, and two subsets |
| `commit_best_effort` | (violated) Does a failed Confirm of `UpsertRule` leave nothing behind? | one request |
| `pool` | Is the client that `Get` returns new enough, and the cached one right when nothing is being edited? Does the pool look like a cache filled in one step? | two callers without end, two editors, one tagger |
| `snapshot` | Does each row differ from its parent; is the table one chain; is the answer to a refresh current? | poller and one handler, two configurations, three changes |
| `users` | Is there a way to lose the last admin that is not a request overtaken by another one, or a delete whose look failed? | three users, two handlers, all faults |
| `vpn` | Are only orphans collected, and are they collected? | one profile, two requests without end |
| `usage` | Is any byte counted twice, any hour reduced but by a pass at the end of an hour? Do days and months equal the sums of their hours? | three hours of two slots, with failures two; a reading in every two slots at least; one interface, one byte, one reboot; two months of two days of two hours, with failures one and the first hour of the next |
| `usage_late` | (violated) Is no hour ever reduced if nothing fails? | as `usage`, without failures |
| `rules` | Is the rule reported the first match? Is a rule reported as shadowed dead, in the simulation and on the device? Is an open management port always reported? | every pair of a rule with one restricted field and one with at most two; triples of five common rules; packets with equal addresses and equal ports, and one truth value for country and groups |
| `poller` | Is nothing sent on a closed channel? Does a subscriber with room get the last event? Do rows and tabs only move forward? Does every tick and every handler end? | one device, two handlers, one tab, channels of one event, two ticks |
| `console` | Does a page ever settle on data older than its own change? Is a dialog lost while it saves? | every page as the first one; one navigation; three acts (openings, calls, failures, changes by others) |
| `parts` | Does an SNMP save change one item? Is a result that of the last request? Does a row get lost or renumbered? Does the label agree with the counts? Does an IFB serve one interface? | a user and the trap targets of both versions at one address, two saves; two inputs, four turns; seven lists, three edits; two peers, three changes; two interfaces, two IFBs, two policies, two requests at once and three in all |

*Why the bounds are enough.* Two requests that race for a commit are the
smallest case in which one can confirm, save or revert what is the other's;
the third finds the device in a state two others left. In `pool` the second caller
makes two fills meet, and the second editor lets an edit of the tags write
back connection settings it read before the first editor's. `snapshot` needs
two configurations to return to an earlier one, and three changes so that the
chain has a grandparent. `vpn` has one profile because no guard or statement
relates two profiles. In `usage` the scale is shrunk and the
ratios are kept that matter: the look-back is two hours; a month is more than one
day; the look-back of days is two days and two hours. In `rules` a field that the
analysis forgot shows in a pair of rules that differ in that field, and one more
restricted field in the later rule covers the relations between two fields; the
triples are for what lies between two rules (a jump, a disabled rule). In `poller` the second
handler is the new connection beside the old one, and a channel of one event is
full after one; a second tick is needed to overtake the first.
Two devices with two handlers have 2.9 million states, more than a run should have;
the safety theorems below hold for any number of them. In `console` an own change, a GET sent
before it and a second call or opening are three acts, and the pages meet only over one
navigation; of each page the keys are kept that its own operations change. The
five modules of `parts` share nothing; a behaviour is one of one of them. The user and one of the trap targets
see the other one paid for, or not; two inputs and four turns bring an answer back after its input was left and taken up
again; two IFBs of which one is taken tell the picked one from the first; a third request acts on what the first left after the second
was taken back (four were checked once, with the same result).

*Deadlock.* `snapshot`, `vpn` and `poller` are checked for it. In `commit`,
`commit_best_effort` and `pool` the requests end and nothing follows; `users` when nobody who may sign in is left,
`usage` ends at the bound of time, `rules` at the end of the rule set; `console` and `parts` at the bound
of what a user does.

*Conditions of the properties.* `ConfirmsOwnCommit` holds unless the device
executes calls of callers that are gone ("late"); `AckedIsConfirmed` unless it
reboots; `PlainFailureReverts` only if a failed call never took effect.
`NextCallUsesNewSettings` holds unless a whole `UpdateDevice` fits between a
`Get`'s read and its fill ("slow_fill"), `FreshWhenQuiet` if moreover no UPDATE loses its
answer. `ReportedIsDead` excludes an earlier rule that jumps or names a source port (two of
the findings). `OneChain`, `NoDuplicateInARow` and `AnswerIsCurrent` hold for captures
that do not overlap, `CollectsOnlyOrphans` for requests that do not. In `usage`,
`HoursKept` is about passes that are not in the last reading interval of an hour, and needs nothing to fail. `LastAdminGuarded` has no condition. `ShowsOwnChanges` is about the keys that are not in
`ForgottenTable` and whose first GET was not under way, and about calls that were answered.
`WritesOneItem` promises nothing once a click met a list that was not what the device has or an answer was
lost (`raced`). `PanelIsTrue` asks the user to wait for each answer, but for the two panels that take care of
late ones, and no failure that leaves the old result without a sign. `RowsAreKept`
excepts numbers that are typed, lists that had changed or were not read when the dialog opened, and the
counted names of matchers. `OneInterfacePerIfb` and `OthersUntouched` hold until a request is misled
by what it has read (`misled`).

*Fairness.* No fairness for users, for the device's answers or for faults. `vpn`: a request's goroutine goes on (`WF` of `Progress`), and the
VPN page lists again every 30 seconds (`SF` of `List`, because other requests
may keep a request slot busy). `poller`: a poll goes on (`SF` of `PollStep`: its
calls have a deadline of 15 seconds, and an `RWMutex` lets the readers that wait
in when a writer leaves), and so does a handler on its way out (`SF` of
`Leaving`: `middleware.Timeout` ends the request after 60 seconds, and each writer that waits has
its turn). Strong fairness is needed because other goroutines may take the
lock in between. Neither ticks, nor `Forward`, nor the browser are assumed to be fair. All other properties are safety properties and
their runs assume no fairness.

## 5. What is proved

The proof modules extend the modules they are about; `PartsProofs` has those of `RuleSimulation`,
`MCParts` and `MCUsage`, whose instances (`Hours`, `Periods`, `Snmp`, `Late`, ...) its theorems speak of. The theorems hold for any
number of requests, callers, users, profiles, captures, rules, devices, handlers,
tabs or ticks, for channels of any capacity and for every set of faults the
constants allow.

| theorem | argument |
|---|---|
| `CommitConfirmProofs!SuccessIsKept`, `SuccessIsConfirmed` | `IInv`: a live request that saw its Configure succeed finds its change confirmed or as the commit that is pending (`OwnCommitInReach`). Without it one could not tell that a successful "confirm" was about the request's own change. The timer keeps it because the window does not end before the context does, a second commit because the device refuses it. |
| `CommitConfirmProofs!ConfirmsOwn` | `InStep`: as long as nothing is executed late, a message in flight belongs to the call its request is in, and a Confirm in flight of a live request means its commit is still pending; no second commit can come in between. It holds with lost answers, crashes and reboots. |
| `CommitConfirmProofs!FailureReverts` | `PendingIsRunning`, a part of `IInv`: `running` is the pending commit's change plus what its timer restores. `SeenSoFar` and `RequestsKnow`: without faults a change seen but not confirmed is not in the latter. The Confirm of another request could only break that by confirming a commit not its own, which `InStep` excludes. |
| `CommitConfirmProofs!DeviceIsAsPromised` | Step simulation with the mapping of section 3. `PendingIsRunning` splits `running` into what is kept and what is on trial, so that "confirm", the timer and a reboot are one step each; a report finds its change kept because of `OwnCommitInReach`, and nobody unlearns a success (`OksGrow`). |
| `ClientPoolProofs!NextCallIsFresh`, `QuietIsFresh` | `IInv`: what a `Get` has read lies between the last finished edit and now, and so does the cache; an `Invalidate` that would strand an older read is excluded by the condition of the property. |
| `SnapshotChainProofs!ParentChain` | `IInv`: between lookup and insert the latest row seen differs from what was retrieved. It needs no lock: rows are only appended. |
| `ClientPoolProofs!ClientIsShared` | A step property of the typed state: only `Fill` and `Invalidate` touch the cache, and `Fill` looks first. |
| `ClientPoolProofs!FillsInOneStep` | Step simulation: `NewEnough`, a part of `IInv`, bounds what a `Fill` puts into the cache from below, `InOrder` from above; a `Fill` that finds a client in the cache returns that one and drops its own. |
| `SnapshotChainProofs!NoDuplicates`, `Chain` | `InTurn`: at most one capture is between its retrieve and its insert, so the row it looked up is still the last one; `Observed`: rows and retrieved configurations are places of one history, so a different configuration was seen strictly later. |
| `SnapshotChainProofs!AnswersAreCurrent` | `AnswersOwn`: a handler that is about to answer has its own configuration in the last row, inserted or found there; it was in force at the place `Observed` names. |
| `UserAdminProofs!GuardHolds` | `SawAnother`: a request that is about to remove an admin saw another one when it looked, or a target that was none, or its `ListUsers` failed. Only such a write takes an admin (`OnlyRemovalsTake`); if it takes the last one, the other one it saw has gone since, or the target became one since: it was overtaken. For any number of overlapping handlers and all faults. |
| `VPNMetadataProofs!OnlyOrphansGo` | `IInv`: a request that has read the device covers every profile with a row, until its orphans are deleted; only overlapping requests or a profile re-added outside break that. |
| `PartsProofs!ReportsFirstMatch`, `NeverMatches`, `IsDead` | `IInv` is the loop's invariant: `matched` is the only match among the rules evaluated. A rule that shadows another one matches what that one matches (`ShadowMatches`), so the loop never gets to the second one with a match; `ShadowEnds` is the same for the device. |
| `PollerProofs!NeverSendsOnClosed` | `HubInv`, part of `IInv`: the map of subscribers does not change while a reader holds the lock, so whom a broadcast has yet to reach is still subscribed, and a subscriber's channel is closed only after it left the map. |
| `PollerProofs!SubscribersKeepUp` | `KeepsUp` is inductive with `IInv`: what a goroutine broadcasts is the last event of its device, as no other goroutine is about the same device (`PollInv`). |
| `ConsoleProofs!ShowsOwn` | `IInv`: a GET in flight is never older than the newest change the page was told of (`NoOlderThanServer`), because the success of the change gives up the older one. It holds for every table of pages that meets `RefreshAssumption`. |
| `ConsoleProofs!StaysOpen` | `OneLockedSave`, the rest of `IInv`: a locked dialog has one call in flight at most, of this opening, and no other operation closes it (`LockAssumption`). |
| `PollerProofs!NothingGoesBack` | `OrderInv`, the rest of `IInv`: channels are sorted, not ahead of `last` and not behind what the tab shows; a new connection begins with an empty channel. |
| `PartsProofs!CountsNoMore` | A ledger of credited slots (`Ledger`): a stored reading credits what passed since the reading before it was taken to the slot of its own, and two readings that follow each other never differ by more than that, reset or no reset (`Fits`, `Account`). What an hour of a scope has been computed as is a sum over slots of that hour (`Credited`), hours have no slot in common, and the credit of an interface is no more than what passed. The ledger is not in the code and not in the model: the invariant says that there is one, and each step of the program says how it grows (`LedgerStep`). |
| `PartsProofs!TakesNothingBack` | On top of the ledger, `Recorded`: in every `ReadingGap` slots of the retention there is a reading, and what an hour that may still be written holds is part of what the stored readings say of it (`Recent`). A pass that sees the baseline (`SeesBaseline`) has all readings of the last two hours, and the one before them, within its look-back, so no difference of such an hour is lost (`KeepsRecent`). |
| `PartsProofs!ComputesWholePeriods` | The look-back reaches the start of the prior period (`LooksBackFarEnough`, from `Clock`), so the hours it reads of a period that is written are all of it (`RollIsWhole`). |
| `PartsProofs!TotalsAgree` | `UpToDate`: periods that no iteration writes any more agree with their hours, and so do, as an iteration goes on, the days and then the months of the current and prior period or the rows about to be written. A first form of it read `a \/ b \/ (c => d)` where `(a \/ b \/ c) => d` was meant; TLC accepted it, the proof did not. |
| `PartsProofs!ShowsLastAnswer` | `LateAnswers!IInv`: of a user who waits, and in the panels that take care of late answers, only the last request can be under way, a search has none while its timer runs, and the spinner says which. |
| `PartsProofs!NumbersAgree` | Arithmetic of the score over the two loads and two counts, and the cardinality of a difference (`CountOfDifference`). |
| `PartsProofs!KeepsInterfacesApart`, `LeavesOthersAlone` | `IfbPool!IInv`: what the device runs and what its timer restores both have the interfaces apart, and differ only in the interfaces the change on trial is about. A request that is not misled does what it would do with the legs as they are, or, on a device whose answer it cannot read, with none, so the IFB it picks is free in fact; for each operation a lemma says what it leaves of the legs (`BindBothLegs`, `UnbindLegs`, `DeleteLegs`, `CleanUpLegs`, together `ConfigureLegs`). |
| `PartsProofs!KeepsRows` | `RowEditors!IInv`: no two rows share the edit that made them, and the number in a dialog nobody typed into is free, or its own row's, as long as the list is the one the dialog was opened over. That a new number is free is a lemma of its own (`NumberIsFree`): above the greatest, which finitely many rows have (`GreatestNatural`), or a multiple that one row more than there are would have to take (pigeonhole). A first form of `IInv` did not say that the rows a dialog was opened over are older than every later edit; TLC accepted it, but it was not inductive. |
| `PartsProofs!ImplementsItemStore` | Step simulation with `items <- server`: `SnmpConfig!IInv` says that until a race at most one call is in flight and that it differs from the device in one item and those alike (`OneAway`), so its commit is one step of `ItemStore` (`SnmpRefines`). |
| `PartsProofs!ReportsHoles` | A rule that lets through every packet of a protocol to a port has no condition left that `ExposedMgmt` or `AllowAny` would need; each restriction has a packet that fails it (`Restricting`, `Varied`). |

Assumptions on constants are the named `ASSUME`s of the modules; TLC evaluates
them in every run. The proofs of type correctness carry `faults` along, as the
conditions of the properties depend on it.

*Hypotheses.* Some theorems need more than the code's own conditions, which the properties state:

* `CountsNoMore` has no fault `no_counters`. With it the property is false, see section 6.
* `TakesNothingBack` has `Lookback >= 2 * SlotsPerHour`, what the code is configured to (`usage_rollup.go:120`).
* `ReportsHoles` has `Restricting`, `Varied` and `MgmtPorts \subseteq Ports`. The first is not met by all rules: the
  analysis takes a range over all addresses for a restriction (`simulation/engine.go:413-415`). The second says that there are packets
  enough to tell, among them packets in no group. `MCRuleSimulation` checks that its rules and packets meet both.

*Induction.* The provers cannot instantiate the induction theorems of the library, which take an operator. Sums over
finite sets are needed nevertheless (`SumOf`: what `MapThenSumSet` adds up). `PartsProofs` gets there through least elements:
a set of natural numbers has a least member (`LeastNatural`) and a set of finite sets has one that is
minimal (`SmallestSet`); the smallest set for which a law of sums fails cannot be. Splitting a sum, bounding it by groups
and covering it (`SumSplits`, `SumOfGroups`, `SumOfCover`) all follow like this.

*What TLC checked of the inductive invariants.* `IInv` of `ClientPool`, `CommitConfirm`, `IfbPool`, `LateAnswers`, `OverviewNumbers`, `RowEditors`, `SnmpConfig`,
`UsagePeriods` and `UserAdmin` was run through TLC as an invariant before it was proved, on the instances of `pool`, `commit`, `parts`, `usage` and `users`.
`Ledger` cannot be: it quantifies over functions on all slots.

*Only model-checked:* liveness (`OrphansGo`, `NobodyStuck`), which is out of
the prover's reach. Every other property of the passing runs is a theorem.

## 6. Where code and comments disagree

`findings` in `PROJECT.json` quotes the comments. Two have a run of their own
(`commit_best_effort`, `usage_late`). The others are behaviours of the models that the
conditions of a property exclude, where widening `FaultSets` or dropping the condition
shows them, or differences that a definition states:

| disagreement | model |
|---|---|
| a lost answer of Confirm is reported as "reverted" | `CommitConfirm`, `{"answer"}`, `FailedConfirmReverts` |
| a fill caches an old client after `UpdateDevice` returned | `ClientPool`, `{"slow_fill"}`, `NextCallUsesNewSettings` |
| an UPDATE with a lost answer leaves the old client cached | `ClientPool`, `{"lost_answer"}`, `FreshWhenQuiet` |
| overlapping captures insert duplicates | `SnapshotChain`, `{"overlap"}`, `NoDuplicateInARow` |
| a failed capture answers with an old row | `SnapshotChain`, `{"fail"}`, `AnswerIsCurrent` |
| two handlers each remove one of two admins | `UserAdmin`, `LastAdminGuarded` without `Overtaken` |
| a failed `ListUsers` lets the last admin be deleted | `UserAdmin`, `LastAdminGuarded` without its last disjunct |
| two bootstraps both succeed | `UserAdmin`: `CountUsers`, `CountUsers`, `InsertFirst`, `InsertFirst` of two handlers |
| orphan collection takes the row of a new profile | `VPNMetadata`, `{"overlap"}`, `CollectsOnlyOrphans` |
| an hour loses its first difference to a pass late in the next hour | `UsageRollup`, `HoursAreFinal` (run `usage_late`) |
| an answer without counters is counted as a reset | `UsageRollup`, `{"no_counters"}`, `NeverOverCounts` |
| a list of countries restricts only a rule that drops | `RuleSimulation`: `matchRule` against `Applies` |
| a rule for one source port "shadows" others | `RuleSimulation`, `ReportedIsDead` without `sport.any` |
| a rule that jumps "shadows" others | `RuleSimulation`, `ReportedIsDead` without the condition on `jump` |
| groups, MACs and source ports do not count in a simulation | `RuleSimulation`: `matchRule` against `Applies` |
| the row stays "online" when a device times out | `Poller`, the second disjunct of `Ask` |
| no ping is ever answered; live connections end after 60 seconds | `EventHub`: `Lose` leaves `pc` alone, `Leave` |
| overlapping binds share an IFB, a delete unbinds another policy's binding | `IfbPool`, both properties without the condition on `misled` |
| dropped read errors hand out an IFB in use | `IfbPool`, the same, with `FailRetrieve` |
| a bind picks an IFB freed on trial, and the trial is taken back | `IfbPool`, the same: `Configure`, `Retrieve`, `FailConfirm`, `TakeBack`, `Configure` |
| an unbind leaves redirect and IFB behind, a delete the bindings, where the answer has the other shape | `IfbPool`: `Legible` |
| the clean-up takes the wrapping key "input" for an orphan | `IfbPool`: `NothingToDo` |
| an edit of an SNMP user drops its passwords | `SnmpConfig`: `Save` sends no hidden rest |
| a save from an SNMP page that has not read, or read a wrapped answer, wipes the rest | `SnmpConfig`: `Cfg`, `Answer`, `raced` |
| an edit or delete of a trap target is about both versions at its address | `SnmpConfig`: `Alike`, `InPlace` |
| the port of a listen-address is lost at the next save | `SnmpConfig`: `Decoded` and the rest `"extra"` |
| hits of an earlier search replace those of a later one | `LateAnswers`, `PanelIsTrue` without `patient` |
| the wizard and the reboot dialog can be left while they submit | `ConsolePages`: `LockTable` |
| an import "will overwrite" a template and is refused; its groups are never listed; zone types; priority 0; spelling of md5 | text and pure functions of a page, not a part of the model's state |
| the fleet's throughput keeps the samples of devices that went offline | not a part of the model's state |

## 7. What is not modelled

Each part with its reason is in `components` of `PROJECT.json`. In short: text
(translators, parsers, the CLI preview) is tested by the repository's unit tests and carries no
state; fleet views and the usage API only read; of the console, what is drawn, the
validation of fields, charts, and code that no route reaches; encryption is a library call;
the copies outside `src/backend` and `src/frontend` are not part of the
program. The diff of configurations and the loops that prune rows and sample metrics are planned
(section 2), and so are two checks on values read earlier: the production tag in `UpsertSNMPConfig` and the
pre-shared key that `UpsertPeer` reads and sets again. What a peer's use of a profile does to a delete (`service/vpn_profiles.go:402`) is
left to the commit check of VyOS.

The wall clock of several hosts, PostgreSQL's isolation below single statements and
the contents of configurations are abstracted: statements are atomic, as
PostgreSQL makes them, and a configuration is a set of changes or a model value.
