# GB10sor: TLA+ models of the direct two-node run and of the patched engine

GB10sor runs model servers on small clusters of GB10 machines.  Its most
delicate part is the *direct pair*: two nodes that are normally connected
through a switch lend their fast interfaces to one benchmark or serving run,
which reconfigures them for a direct cable, opens firewall rules between them,
starts containers on both, and must give everything back, whatever dies on the
way.  Its largest part in lines are patches of the inference engine that runs
in those containers.  These modules model both, check them with TLC and prove
much of them with TLAPS.

Paths below are relative to `src/scripts/`; `engram.py`, `weight_utils.py` and
`deepseek_v4_backend.py` are in
`src/runtime-patches/deepseek-v41-nvidia-sglang-da64c5c/`.

## 1. The system

| component | state it keeps | operations | made correct by |
|---|---|---|---|
| rollback lease (`deuces-direct-lease.py`) | `lease-*.json` receipts; a transient systemd timer and service | prepare, arm, check, disarm | an acknowledged lease fires by its deadline, or was given up for a returned network |
| state root (`deuces-direct-state.py`) | write-once receipt files, one flock | publish, read, lock | a name is written once; one writer at a time |
| guard (`deuces-direct-guard.py`) | receipts of both protocols on one node | stage, accept-*, cleanup-resources, finalize, recover, restore | no network write before both nodes are proved stopped |
| network (`deuces-direct-network.py`) | phase receipts; NetworkManager profiles; iptables rules | enter-idle, direct-ready, install/remove firewall, restore | what was borrowed is exactly returned |
| cleanup bridge (`deuces-direct-cleanup.py`) | none of its own; packets, ssh transport to the other guard | closure packets, cleanup and verification of links and models | a positive record is true and stays true |
| frontend (`deuces-direct-frontend.py`) | its state dir; three systemd units | plan, stage, launch, controller, finalizer | the finalizer runs only behind an ended controller |
| model script (`deuces-direct-model.sh`) | NetworkManager profiles, EXIT trap | profiles, link test, payload, trap | its trap never pulls the network from under a payload |
| replication (`deuces-direct-replicate.py`) | none | deliver the declaration to both guards before the acknowledgement | no container before both guards know of it |
| resource parent, declaration channel (`deuces-resource-parent.py`, `deuces-declaration-channel.py`) | offer, ack and result files | offer, acknowledge, wait, verify | the child runs only what the parent acknowledged |
| owned container, adapter (`deuces-owned-container.py`, `deuces-owned-adapter.sh`) | slot directories and receipts, a per-container guard timer | stage, arm, start, cleanup, disarm | a container never outlives its deadline |
| link server (`deuces-link-server.py`) | slot directory with phase files, a systemd unit | start, execute, stop, recover | canceled means never started again |
| snapshot and phase validators (`deuces-direct-snapshot.py`, `deuces-direct-phase.py`) | none | observe the node; decide whether what is seen may be touched | every state the network code can stop in is accepted by a restore, no foreign one is |
| link transport, tools (`deuces-link-server-transport.py`, `deuces-direct-tools.py`, `deuces-link-smoke.sh`) | none on the head | one ssh dispatch per action of a slot; realise a package, stage, test, prove stopped | a passed result is not contradicted by a request still on its way |
| inventory, recipe | none | compare documents | input checking |
| cluster weight hash (`cluster-weight-hash*.sh`) | marker files in a state directory, a transient service on each node | start, poll, worker, stop | a printed hash vouches for one tree and a worker that is gone |
| Ray restoration (`*-switch-*model.sh`) | none; Ray services of 4 or 8 nodes | stop and restore around a run | separate subsystem |
| acceptance coordinators, profiles, builds, docs | none or configuration | – | separate or static |
| model runtime patches: Engram (`engram.py`) | per-slot token history; n-gram hash tables, one per layer, shared by the ranks of a node or split over them | admit, extend, decode, verify, commit; draw primes; open, attach, load, look up | every token is hashed with its own text and served the checkpoint's row |
| model runtime patches: weights (`weight_utils.py`) | the model's files on disk, a lock file, a window of shards in flight | download under the lock, iterate, prefetch, dump copies | nobody loads half a model; loading is ordered, bounded and complete |
| model runtime patches: attention backend (`deepseek_v4_backend.py`) | compressor ring, compressed cache, candidate masks, captured graph metadata | prefill, decode, verify, capture, replay | a row attends its own request's pairs; a replay reads its own batch |

`PROJECT.json` lists all of them under "components", with what is modelled of
each, and under "hazards" the places of the code where an order of events, a
crash or a boundary can go wrong.

### How the parts interact

    frontend launch ---submit---> controller unit (model script)
         |  calls                      | calls enter-idle .. accept-inventory
         v                             v
       guard(head) <--ssh/local--> guard(worker)      one flock per node
         ^  ^                          ^
         |  '-- rollback timer(head): recover = finalize on both nodes
         |      rollback timer(worker): recover = cleanup and restore itself
       finalizer unit: finalize on both nodes, then disarm both leases

The guards communicate by receipts on disk, never by memory: every handler
reads the receipts, checks them against the observed system, changes the
system, and writes its own receipt.  The hard behaviours are

* three processes (finalizer, two timers) may finish the same run at once;
* a handler started over ssh goes on after its caller died, or starts late; so
  does a plain ssh command of the controller, which takes no lock at all;
* a handler may die between a mutation and its receipt, or between a write-once
  intent and the mutation;
* a lock that is busy for five seconds refuses, and refusing ends a one-shot
  process;
* systemd acts on a dispatched request when it likes;
* the two nodes' clocks differ, and what one says of its lease reaches the
  other after a relay of unknown length;
* in the engine, state outlives the request it was computed for: slots, pages,
  rings and captured tensors are reused without being cleared.

## 2. The modules

| module | models | composes |
|---|---|---|
| `DirectLease` | one node's lease against a real-time clock and systemd | – |
| `DirectLeaseProofs` | TLAPS: its inductive invariant and four safety properties | extends `DirectLease` |
| `DirectNetwork` | one node's network, command by command, between the armed pair and the restored port | `DirectPair` takes its handlers as calls |
| `DirectNetworkProofs` | TLAPS: its inductive invariants and four properties | extends `DirectNetwork` |
| `DirectStage` | what precedes the run: staging, arming, pairing, the controller's gate, two clocks | ends where `DirectPair` begins |
| `DirectStageProofs` | TLAPS: the inductive invariants of both, `EntersProtected`, and two properties of the transport | extends `DirectStage`, `LinkTransport` |
| `BorrowedPair` | abstract: networks are borrowed, used while both are, given back, and let go only then | – |
| `DirectPair` | a whole run on two nodes: five processes, two guards, the payload | implements `BorrowedPair`; the lease appears as ample, short, fired, off |
| `DirectPairProofs` | TLAPS: its inductive invariants, four safety properties, the refinement | extends `DirectPair` |
| `OwnedResource` | abstract: a resource of a run runs at most once, and not at or behind a proof of its stop | – |
| `LinkServer`, `LinkServerProofs` | one link-test slot: callers, its service's lock-free worker, systemd | implements `OwnedResource` |
| `OwnedContainer`, `OwnedContainerProofs` | one container slot: callers, podman, the guard timer and its cleanup | implements `OwnedResource` |
| `WeightHash` | one weight hash: start and its polling, worker, stop, and who writes the weights | implements `OwnedResource` |
| `OwnedRun`, `OwnedRunProofs` | one engine run: parent, declaration channel, replication, the child's launch and cleanup | its slots are `OwnedContainer` and `WeightHash` at the grain of the adapter's calls |
| `LinkTransport` | the head's dispatches to its slots: package client, staging, link test, proof of stop | a slot is `LinkServer`, in short |
| `EngramHistory` | the token history every hash is computed from | – |
| `EngramLayout` | the primes and columns of the tables, the per-rank local store and its verifier | – |
| `EngramTable` | the table of one layer over the ranks: device, shared memory, private shards | – |
| `ShardWindow` | the buffered and the unbuffered shard iterator, the ranks' page-cache prefetch | – |
| `WeightDownload` | processes that share a download directory, its lock and its list of copies | – |
| `PairCompress` | pairs of tokens compressed to latents: ring, pages, drafts, padding | – |
| `LateTail` | the late layers on the tail of a batch, over context-parallel ranks | – |
| `GraphReplay` | captured graph metadata of every runner | – |
| `ModelProofs` | TLAPS: inductive invariants and properties of the weight hash, the history, the table, the window, the download, the graphs, the compressed pairs and the tail | extends the modules of all of them |
| `MCDirectLease`, `MCDirectPair`, `MCDirectNetwork`, `MCLinkServer`, `MCOwnedContainer`, `MCWeightHash`, `MCOwnedRun` | instances, for TLC | |
| `MCStaging` | instance; hosts `DirectStage` and `LinkTransport` | one of them per behaviour |
| `MCModelRuntime` | instance; hosts the eight engine modules | one of them per behaviour |

`OwnedResource` is the contract between `LinkServer`, `OwnedContainer`,
`WeightHash` and `DirectPair`: the
cleanup bridge reads a positive stop receipt of a link slot, a container slot or
a hash slot and takes it for granted that nothing of it runs or will run
(`cleanup_links`, `cleanup_models` in `deuces-direct-cleanup.py`).  `DirectPair`
uses it as the step to a stopped `link` or `slot` that is never left again; the
three modules show that the scripts keep it although requests outlive callers.

### DirectLease

State: the monotonic clock `now`, `deadline` (of `lease-prepared.json`), the
names of the `receipts` written, the guard `handler` that holds the flock with
the step it has reached, a systemd-run `request` on its way, the `timer` and
`service` systemd has, and `saved`, the timer that `lease-armed.json` records.
`lease.prepare`, `arm` (intent, dispatch, readback, check), `check` and
`disarm` (intent, stop, readback) are the actions `Prepare`, `Arm*`, `Check`,
`Disarm*`; `Die` is an exception or a kill at any step.  Network entry and
restore appear by the receipts they leave, because disarming depends on them.
systemd is external: `StartTimer`, `Fire`, `ServiceEnds`, and `ReplaceTimer`
for an operator who restarts the unit.  `promised` is a history variable: the
latest time to which a passed `check(r)` told somebody that no rollback would
start.

### DirectPair

A process (`launcher`, `controller`, `finalizer`, and `head` and `worker`, the
recovery services of the two timers) is a *program*: a sequence of calls
`<<handler, node>>`, read off the scripts in the order they make them.  A guard
handler is an action whose guard `May...` holds the handler's checks.
Short handlers are one step.  `enter-idle`, `firewall-ready`,
`cleanup-resources` and `restore` take long enough for others to arrive: they
are a `Begin...` step that checks, takes the flock and writes the first
receipt, and a finishing step.  Between the two the caller may be killed; on
the head that kills the handler with it, on the worker it leaves an orphan that
goes on.  A call whose caller gave up before it reached the worker is kept in
`late` and may be served at any later time.  That holds for the guard's handlers
(`LockActs`) and for what the controller does over plain ssh and under no lock
(`RawActs`: profiles, link tests, and the mkdir, arm, start and stop of a slot,
`deuces-owned-adapter.sh` 191-208 through `remote`, `deuces-direct-model.sh`
216-231): `Raw` is such a call, in time or late.  Any call may be refused: by its
own condition (`Unacceptable`) or by a busy lock.

Per node: `rc` (receipts), `lease`, `net` (switched, partial, idle, direct),
`fw` (run-owned rules present), `link` and `slot` (the link slots; the declared
container and hash slots), `clean` (how `local-cleanup.json` accounts for the
model).  On the head only: `shared` (replicated barrier, payload attempted,
acknowledgement).

`Promise` maps a run to `BorrowedPair`: a node is lent while its interfaces are
not its baseline's or rules are inserted, something runs on it while a link test
or a container is up, its return begins with the first receipt of a restore
(`restore-started`, or the terminal `restored` and `unchanged` of a restore with
nothing to do), and `disarmed` releases it.  Who returns it, head or worker,
controller's trap, finalizer or timer, and how often it is tried, is what the
abstract specification leaves open.

The model starts where `stage` has succeeded: both guards staged, link slots
prestaged, both leases armed, the pair-armed packet accepted.  The lifecycle of
the guard configs is a variable that never changes, so that one run covers both.

### DirectNetwork

State: the reviewed `original`, the `net` now (services, the four traffic ports
with profile, address, MTU, ARP guard and route, the owned profile and rules,
workload, and one field for everything that has to stay), the write-once
`files` (an intent before and a done receipt behind each command, and the phase
receipts), and the `handler` under the lock as the list of commands it still
has to run.  `Enter`, `DirectReady`, `InstallFirewall` and `Restore` choose that
list the way `entry_intents` and `restore` do.  `Dispatch` writes a command's
intent, runs it (`Effect`) and may be the last thing the handler does;
`Complete` reads it back and writes the done receipt, `Skip` passes over what
need not be done, `Check` compares with a phase, `Refuse` raises, and `Die`
ends the handler between any two steps.  What a restore accepts is decided by
the validators of `deuces-direct-phase.py` (`ValidIdle`, `ValidDirectOrIdle`,
`ValidEntryPartial`, ...).  Dispatcher hooks that outlive the command that woke them
and a change by somebody else (`drift`) interleave with all of it.

So do the remote shells of the model script (`script`), which take no lock.  The
script goes from one shell to the next (`NextShell`; `Shell` lists the commands of
each: the ARP guards sysctl by sysctl, the profile, its activation, the guards
again, and the trap's removal, reset and ARP policy).  When it fails, loses its
connection or is killed, what is left of the shell it waited for may run on
without it (`Strays`), and nothing in the cleanup bridge's proof asks for such a
shell: `ShellStep` needs neither the script nor an open run, and interleaves with
every command of a restore and comes behind it.  `late` remembers that such a shell
has built something up - a guard, a profile, an activation - since a restore began.

### DirectStage

Frontend and controller are programs of calls, as in `DirectPair`.  A call is
asked, served, and answered; its asker may give up at its timeout or die, and
what was asked of the worker or of systemd is then done later (`Late`).  Each
node has its own clock (`Offset`), the lease is a `deadline` and an `elapse` on
that clock, and the pair-armed packet carries what the frontend saw of the
other node's lease (`seen`), discounted as `verify_armed_packet` does
(`Allowance`).  Time is counted in units of 20 s.

### LinkTransport

The head's program of dispatches, in order: realise the package client, stage
both link slots, the link test with its client, the stops, the trap, and the
proof that every slot has stopped; `AfterFailure` says where the script goes on
when one fails.  A dispatch whose asker gave up stays in `jobs` and is served
whenever its slot's lock is free.  A slot is `LinkServer` at the grain of
actions: its bytes, whether it was prepared, attempted and canceled, its lock
and its unit.

### The engine: Engram, weights, attention backend

`EngramHistory`: per slot a row of the last tokens that were hashed, per
request its text and how much of it is processed; batches with prompts in
chunks, several tokens, padding, drafts that are verified and then accepted in
part, and slots released and reused.  `hashed` pairs each hash input with the
text it should have been computed from.

`EngramLayout`: the primes that `build` draws for every column, the offsets, a
local store with holes, and `scripts/verify-deepseek-v41-engram-local.py`'s
acceptance of it.  `EngramTable`: ranks that open, attach to, or privately load
the rows of one layer, die, and look up.  Rows come from the checkpoint or from
local stores, which may hold any rows (`LocalRows`): nothing in the code compares
a store with the rows that the even split of `engram.py` 703-704 gives its rank,
and a hole is loaded as zeros (`Source`).

`ShardWindow`: the window of `buffered_multi_thread_safetensors_weights_iterator`,
its unbuffered sibling, and the prefetch threads of the ranks of a node.
`WeightDownload`: processes that download into one directory under a lock file,
may die at any step, and start again; the copies of the weights for numpy with
the list that is written last.

`PairCompress`: requests in slots with pages of the full pool, the compressor's
ring and the latents; prefill chunks, decode rows, blocks of drafts, judgement,
padding, and slots and pages reused.  The page allocator is external and may give
any free page to any request that lacks one (`PagesFor`).  The invariant asks all
three ways in which the indexer addresses a group, among them the one sequence of
the groups of all requests of the batch (`GroupsOf`).  `LateTail`: candidate masks
and top-k buffers cut to the last `TailLen` rows of every request, with each rank
owning every `cp`-th row; the positions the code takes with `nonzero` are the
elements of a set in ascending order (`Ascending`, `Pick`), and each rank's padding
rows begin behind those of the ranks before it (`PadStart`).  No buffer exists
before the first forward.  `GraphReplay`: for each runner (target, draft with a backend per
step, block, draft-extend, prefill) the capture with warm-up, the filling of
input buffers, the preparation outside and inside the graph, the replay, idle
batches and eager forwards; a value is the name of the batch it was computed
from.

### LinkServer

State: `receipts`, `preparedAt` and `runtime` of the slot directory; `job`, the
step of the action that holds the slot's lock; `request`, a systemd-run request
on its way; the `unit` systemd has, `since` when, the step of its `worker`, and
descendants (`orphans`) that outlive its main process.  `Prepare`, `Start*`,
`WaitSuccess`, `Stop*` are the locked actions of `Server`; `Admit`, `Recheck`,
`Record`, `Limit`, `Limited`, `Guard`, `Exec` are the steps of `execute`, which
runs without the lock because `start` holds it while it waits for the worker.
`Leave` ends a caller at any step.  Time counts whole seconds; the fraction that
`int(remaining)` drops is a choice.  Both memlock modes are initial states.

### OwnedContainer

State: `receipts`, and of `cleanup.json` (the one receipt that is replaced) the
result and the writer; the lock's holder `by` and its step `job`; `asked`,
commands on their way to podman or systemd; the container `box`, its process
`group`, the guard's `timer` and `service`, the `lease`.  Every command is two
steps, asking and the effect (`Arms`, `Creates`, `Starts`, `Stops`, `Removes`),
and a caller may die in between.  `faults` chooses what else happens: commands
that are carried out after their caller died (`stray`), podman calls that fail
(`podman`), a guard killed by its time limit (`guard`).  `Decide` is the
unlocked look of the adapter and the bridge that precedes a cleanup.

### WeightHash

State: the marker `files`; `by` and `job` as above; `poll`, how far the unlocked
polling of `start` is; requests `asked`; the `unit`, its processes (`alive`) and
whether systemd still knows its control group (`cgroup`); the `worker`'s step
and what it has seen (`before`, `candidate`, `after`) of the weights' `content`
and `version` (size and times).  Others rewrite files at any moment.  The two
copies of the script differ in whether a removed control group is derived for a
worker that ended well; `shared` is that choice.  Every locked action may end
at any step (`Leave`), which also stands for every check or query that fails:
under `set -e` both are the same.

### OwnedRun

What `DirectPair` takes as one step, the acknowledged start of the payload, in
detail.  `parent` is where `execute` of `deuces-resource-parent.py` is:
`Terminate`, `Kill`, `SeeOffer`, `Reap` are the branches of its loop, `Anchor`,
`Acknowledge`, `Refuse` the end of an offer, `Conclude` the judgement.  `channel`
is the set of its write-once files.  `callback`, `relay` and `inventory` are the
replication: whom it waits for, which acceptance is under way on a node, which is
done.  The child runs a *program* of calls (`Launch`, then `Closing`), `pc` in
it, `waiting` for a reply; `orders` are the calls on their way, which are served
whether or not somebody still waits.  Per slot `phase`, and whether it has a
tombstone (`canceled`) and a positive last receipt (`proof`).
The two hashes run next to each other in the script; here their starts are
asked for one after the other and their answers awaited together, which only
orders the two requests.  Of a cleanup, inspect, cleanup and the guard's earlier
removal are one call `stop`.  `ChildDies` at any step stands also for the
forwarded SIGTERM that hits the child while its cleanup runs: the cleanup is a
subshell with the traps reset, so the signal ends it.

## 3. What is checked

| run | question | bounds |
|---|---|---|
| `lease` | does an acknowledged lease fire in time, keep what `check` promised, get stopped only for good, and end, in both lifecycles? | clock 0..11, delay 8, slack 2, dispatch timeout 1, least budget 2, reserve 4, one operator restart |
| `pair` | in both lifecycles, with all five processes mortal, early timers and busy locks: is no network written while anything runs, does evidence stay true, is the payload's network kept, is what is disarmed returned? | one remote call late at a time, any handler or plain ssh call of the controller (in the predeclared lifecycle not firewall-ready) |
| `pair_live` | does a borrowed network always come back, and what runs always stop, if launcher and controller die anywhere; and is every step one that `BorrowedPair` allows? | launcher and controller mortal, no late calls |
| `pair_residue` | does a terminal predeclared receipt exclude rules? (no: finding) | one late firewall-ready |
| `network` | does restore accept every state that entry, firewall and script can be killed in, are the two fabrics never up together, is a terminal receipt true, and does a restore give up only for others' doings? | one of the two switch ports disconnected by the fabric's stop, lingering hooks, one foreign change, one lost shell of the script next to the one it waits for |
| `network_gap` | is a node whose entry has begun always taken back? (no: finding) | no disconnects, hooks or foreign changes |
| `staging` | is the first change of a network made only when everything that undoes it stands on both nodes and leaves the launch reserve; and is a passed package or cleanup result not contradicted later? | units of 20 s: delay 8, clock 9, allowance 6, a pause of one unit; clocks 20 apart; two requests given up |
| `link_server` | is the server inside its lease, a stop proof lasting, completion natural, and the slot an owned resource? | lease, reserve and clock of a few seconds, both memlock modes |
| `owned_container` | do positive receipts of container and guard last, is a disarmed slot quiet, and does a started container end? | none: one container, every subset of the three faults |
| `weight_hash` | does the hash vouch for one tree, and is it printed only behind a proven stop? | two files, each written twice at most |
| `owned_run` | is nothing staged before both guards hold the declaration, no model made before both nodes are ready, a positive result final, and does the parent end? | none: two nodes, two containers, two hashes |
| `model_runtime` | does the engine hash, store, look up, download, load, compress, cut and replay with the data of the right request? | below |

Why the bounds are enough.  The system has exactly two nodes and five
processes, so nothing is left out there.  A late call is a loose end of one
dead caller; two at once would need two callers to die around unserved remote
calls, and since every handler rechecks the receipts under the flock, each late
call is judged against a state one late call can already reach; `MaxLate = 1`
leaves out the simultaneous presence of two, and `DirectPairProofs` shows that
the four safety properties do not depend on it.  In `DirectLease`
the constants are scaled down but keep the order that matters
(`MinBudget`, `Slack`, `DispatchTimeout` and `LaunchReserve` are positive,
smaller than `Delay`, and a request can be served on both sides of every one of
them); the proofs remove the bounds.  The same holds for the clock of
`LinkServer`.  In `WeightHash` a torn reading needs two files, one read before
and one after a write, and two writes change a file and change it back; files
are interchangeable, so the run uses symmetry.  `OwnedContainer` and `OwnedRun`
are finite; a run with auxiliary or draft models has two more hash slots, which
behave like the first two.  `owned_run` starts the worker's container first; the
other order mirrors the ranks.

`network` takes the ports, rules and commands from the code; which of the two
switch ports the fabric's stop really disconnects only permutes them, and a
second foreign change meets the same comparisons as the first.  A script loses at
most one connection whose shell runs on while it goes about its trap; with the
shell it waits for when it is killed that makes two shells that nobody waits for,
of which each is a sequence of at most three commands.  The run has 2.4 million
distinct states, `pair` 1.7 million.  `staging` keeps
the proportions of the code's timeouts (call 20 s, accept 40 s, gate 120 s,
enter 180 s, allowance 120 s); the pause bounds how long a program may rest
between two calls, and the property needs it (section 5).

`model_runtime` chooses sizes at which each boundary is crossed: histories of
three-grams over two slots, prompts with an image and one of two tokens, texts
up to five tokens, drafts of two; the two sealed tables in their real sizes,
with a trial-division bound beyond their square root; four ranks for three rows,
so that one owns none; four files for two workers and two ranks, and two
processes that die twice over two shards; two slots with two pages of four
tokens, a ring as long as a draft, chunks up to three; two requests of up to four
rows, a tail of two and one to three ranks; two graph sizes, three draft steps,
and two live batches, which are enough to tell a batch from the one before.

Every property has a mutant in `PROJECT.json`: a changed definition of the
model, the way the code could be wrong, which TLC finds to violate it.

### Properties

Lease, pair and network:

* `ArmedNeverOverdue`, `RollbackKeepsPromise`, `DisarmedNeverFires` - arithmetic
  and interleavings of arming, firing, stopping.
* `ArmedEnds` - liveness of the lease.
* `NoRestoreWhileRunning` - the rule the whole cleanup bridge exists for: from
  the first write of a restore on, the controller is gone and nothing runs on
  *either* node.
* `DisarmedMeansReturned` - a node without its lease has its interfaces
  and its rules back, including under late calls and killed restores.
* `EvidenceStaysTrue` - a never-started tombstone is true, now and later, and a
  positive cleanup record never goes stale, so that a second relay can
  build on it, whatever handler or ssh command is served behind it.  The one
  exception, a mkdir that late, is stated (`MkdirTooLate`) and described below.
* `PayloadKeepsNetwork` - nobody takes the network from under a running link
  test or container, also one that a late ssh command has started.
* `BorrowedReturned`, `RunningCancelled` - liveness of the pair.
* `KeepsPromise` - `DirectPair` implements `BorrowedPair`: nothing starts unless
  both networks are lent and none is being returned, no return begins while
  anything runs, and a node that was let go is never borrowed from again.
* `Restorable` - no command sequence the code can stop in the middle of is one
  that its own partial-state checks refuse, and no remote shell of the script
  makes one that runs on by itself.  Excepted are finding 2 and a port with one of
  the two ARP sysctls set (`ArpKnown`), on which a shell has died.
* `NeverBothFabrics` - the switched fabric and the direct profile are never up
  together, also behind a killed handler and a late activation.
* `RestoredTruthful` - a terminal receipt is written only over the exact
  original network.
* `RestoreGivesUpForOthers` - a restore that has begun refuses only what somebody
  else, dispatcher hooks, its first attempt's intents, or a guard, profile or
  activation by a shell of the dead script account for.
* `EntersProtected` - the first change of a network finds
  guard, tools, slots, armed lease and controller identity on both nodes, and
  both timers, also the one it cannot ask, far enough away.

Slots:

* `OwnedOnce` - `LinkServer` implements `OwnedResource`: the answer of a stop is
  true and stays true, also for a slot whose start is still on its way to
  systemd.  For container and hash the same refinement is proved (section 4).
* `ServerInsideLease` - a late activation cannot carry the server past the
  deadline of `prepare`.
* `StoppedStaysTrue`, `CompletedIsNatural` - what a stop receipt and a
  completed receipt say of the unit, in all interleavings with the worker.
* `PassMeansQuiet`, `StartsOnlyStaged` - of the dispatches: no client runs behind
  a realised package, no server behind a passed cleanup; a link test begins only
  when both slots hold the sealed bytes and the package client is over.
* `PositiveStaysTrue`, `StoppedGuardsNothing`, `DisarmedIsQuiet` - a positive
  `cleanup.json` lasts; the guard is given up only for nothing; behind
  `disarmed.json` no cleanup runs.
* `StartedEnds` - liveness: whoever dies, a started container ends.
* `HashOfOneTree` - `tree.sha256` vouches for a tree that was the expected one
  all through the reading, not only file by file.
* `PrintedIsOver` - the printed hash means a worker that ended well and a
  service proved stopped.
* `StagedMeansReplicated` - with a replication policy, nothing is attempted on a
  node before both guards accepted the declaration and the parent anchored it.
* `NoModelBeforeAllReady` - a container exists only behind armed guards and
  settled hashes of both nodes.
* `PositiveMeansSettled` - a passed `parent-result.json` is final: nothing runs
  or is started by a call that is still on its way.
* `ParentEnds` - liveness: whatever the child does, the parent comes to a result.

Engine:

* `HashedWithOwnText` - every token is hashed with its own predecessors, across
  chunks, batches, padding, rejected drafts and reused slots.
* `StoreHoldsColumns` - the primes fill each table exactly, and a store the
  verifier accepts holds every row of the rank's columns.
* `LookupIsOwnersRow` - each id is answered with the row as its one owner loads
  it, the checkpoint's or zeros where the owner's local store has a hole, in the
  order asked and in every layout.
* `ShardsArrive` - loading is ordered, complete and bounded by the window.
* `LoadsWholeModel` - an interrupted download or dump is never loaded as if it
  were the model.
* `EveryRowAttendsOwnPairs` - each latent a row can attend is of its own
  request's own two tokens.
* `TailServedWithItsOwn` - a tail row is scored under its own mask and attends its
  own selection on every rank, and the gathered rows are the tail in order.
* `ReplayReadsItsBatch` - what a replayed kernel reads and where it writes
  belongs to the batch it was prepared for, or to the dummy slot.

### Fairness, and why the code justifies it

Lease: the clock runs, and systemd fires a due timer (`WF` of `Tick` and
`Fire`).  No handler is assumed to finish.
Pair: each process takes its next step when it can (they are systemd units or
sequential programs with timeouts on every call); a running handler finishes
(each external command has a timeout); a lease's time passes (`Shorten`) and
its timer fires (`Fire`); `RuntimeMaxSec` of the controller unit ends a
controller that does not end by itself (`Die("controller")`).  In `pair_live`
launcher and controller may die, the finalizer and the timers may not: a
transient restore that is killed half way writes `phase-restore-started` once
and refuses a second attempt, and a predeclared removal behind its write-once
intent likewise; both are dead ends for manual recovery by design.
`BorrowedReturned` excepts a slot left half staged for good, which
`never_created_slot` refuses to account for, equally by design.
Container (`StartedEnds`): the lease passes and its timer fires; podman and
systemd carry out what they are asked; the guard's service takes its next step;
a caller ends at the latest by its own time limit (`owned_action`, `command`
timeouts: `WF` of `Die`); and the guard, which waits on `control.lock` while
callers come and go, gets it at last (`SF` of `GuardCleanup`: flock wakes its
waiters, and a run has finitely many callers).  It is stated for `faults = {}`:
a guard killed by its time limit or a failing podman has no one left to retry.
Parent (`ParentEnds`): the parent takes its next step while it lives, its
runtime passes, and its callback ends by `communicate`'s time limit
(`WF` of `ParentStep`, `RuntimeOver`, `CallbackFails`).  Nothing is assumed of
the child, the guards or the nodes.
`LinkServer` and `WeightHash` have no liveness property: their end is systemd's
own `RuntimeMaxSec`.  `DirectNetwork`, `DirectStage`, `LinkTransport` and the
engine modules state safety only and assume no fairness.
Deadlock is not checked in the runs: a run ends, and then nothing more happens.

### Findings

1. `deuces-direct-network.py:109` says a terminal predeclared receipt never
   permits rule residue; `install_firewall` (193-207) looks at no terminal
   receipt, so a late call adds rules behind it. (`pair_residue`)
2. `deuces-direct-network.py:166`: an `enter-idle` killed between
   `phase-transition-started.json` and the intent of the fabric stop leaves a
   node that nothing has touched and no restore accepts: without intents it is
   not partial, and with the receipt it is not unentered. (`network_gap`)

Observed while modelling, without a run of their own:

* `deuces-direct-lease.py:96-98` says the firing worker rechecks the original
  deadline; `recover` (`deuces-direct-guard.py:232-238`) does not.
* `deuces-direct-guard.py:180-181` says a timer can always cancel its local
  resources; on the head `recover` is `finalize`, which needs the other node
  first.
* `deuces-owned-adapter.sh:285-286` says not to overwrite the timer's
  `cleanup.json`; the adapter looks and cleans up under two holds of the lock,
  and the guard's positive receipt may be replaced by a caller's.  What it says
  stays true (`PositiveStaysTrue`).
* The recipe derives auxiliary pins by rank where its validation asks for equal
  pins per role, so that `deepseek-v41-flash-exl3-29bpw` is never accepted.
* A remote shell of the script that outlives its controller can spoil a restore that
  did nothing wrong: the worker's shell of `deuces-direct-model.sh` 502 waits up to
  20 s for its activation and then sets two sysctls.  If these come behind the
  restore's `direct-arp`, `check('idle')` (`deuces-direct-network.py` 320) refuses,
  and the one attempt of the transient lifecycle is spent.  If they come behind the
  terminal receipt, the port stays guarded.  If such a shell dies between the two,
  no restore accepts the port (`deuces-direct-phase.py` 180 knows the original policy
  and the guard, nothing in between).  No receipt is false for it.
* A plain mkdir of `owned_slots_launch` that reaches the worker behind the
  `local-cleanup.json` that found no slot makes `never_created_slot`
  (`deuces-direct-cleanup.py`) refuse from then on: every later relay's
  `cleanup-status` and restore of that node fail, the network stays borrowed, and
  the empty directory is left to manual recovery.  Nothing runs because of it.
* The verifier (`scripts/verify-deepseek-v41-engram-local.py` 21-26) and
  `tests/deepseek-v41-engram-layout.py` 24-39 seal local stores at the boundaries of
  the heads' columns, for four and for eight ranks; `engram.py` 703-704 loads the
  even split of the rows.  The two differ: of layer 1 over four ranks, rank 0 loads
  rows up to 96001541 from a store that ends with row 96000563, and
  `weight_utils.py` 1132-1143 yields the sparse tail as zeros, where 1094-1095 says
  that each rank's verified rows are in its store.  `StoreHoldsColumns` speaks of
  the sealed columns and does not vouch for the rows a rank loads;
  `LookupIsOwnersRow` says that such a hole is answered with zeros, and that it is
  the only thing that can differ from the checkpoint.
* With `online_c128_mtp` on, an idle verify (`verify_bs = 0`,
  `deepseek_v4_backend.py:2275-2280`) would replay the last batch's metadata;
  `GraphReplay` takes it to be off.
* A download that dies before the index exists makes the next start fail once,
  quickly; one that dies inside `weight_names.json` leaves a list that every later
  start refuses, until somebody removes it.

## 4. What is proved

`DirectLeaseProofs` proves, for every value of the constants that satisfies
`LeasePolicy` (natural numbers, a positive least budget; nothing else):

* `TypeCorrect`: `Spec => []TypeOK`;
* `ArmedNeverOverdueHolds`, `RollbackKeepsPromiseHolds`,
  `DisarmedNeverFiresHolds`, `DisarmedMeansReturnedHolds`.

None of the four is inductive.  `LeaseInvariant` proves `LeaseInv`, which
strengthens them in three parts.  `Stopping`: while a disarm is between its
checks and its receipt, the terminal proof it read still stands (the flock lets
no other handler write).  `Timing`: what a dispatch, the request on its way and
the timer carry - at least the least budget, an elapse within `Slack + 1` of
the deadline; a waiting timer is not overdue; the saved timer elapses before
the deadline; every promise lies before the deadline.  `Settled`: what a
disarmed receipt has settled.  Each action of `Next` has its own step; the four
properties follow from the invariant.

`LinkServerProofs` proves for every policy (`SlotPolicy`: natural numbers, a
reserve within the least budget) `SlotInvariant` and from it the slot's types,
`ServerInsideLease`, `StoppedStaysTrue`, `CompletedIsNatural` and `OwnedOnce`.
Its invariant has four parts: `Activation` (one request, one activation, who
waits for whom), `Holder` (what the step under the lock has made sure of, though
the worker ignores the lock), `Timing` (deadline, runtime and activation), and
`Settled` (what completed and stopped receipts settle).  Neither safety
property is inductive: that a stopped slot is never activated later rests on
the request having been served when the unit was seen, and that the server
keeps its lease rests on what the worker compared when it was admitted.

`OwnedContainerProofs` proves for every set of faults `BoxInvariant` and from
it the slot's types, `PositiveStaysTrue`, `StoppedGuardsNothing`,
`DisarmedIsQuiet` and `OwnedOnce`.  `Commands` says which receipts precede a
command that may still be under way, `Guarding` the same of the timer,
`Cleaning` what each step of a cleanup has made sure of, and `Outcome` that a
positive cleanup, a stopped timer and a disarm each settle the slot: canceled,
no container that could still come up, no process left.

`ModelProofs` proves of the weight hash, for every set of files and every number of writes
`HashInvariant` and from it the types, `HashOfOneTree`, `PrintedIsOver` and
`OwnedOnce`.  `Launching` and `Stopping` are as above; `Reading` says that as
long as the versions are those of before, what was read is what is there, and
that versions once different differ for good.

`OwnedRunProofs` proves, from the two ranks being 0 and 1 (`TwoNodes`) and for
either start order, `RunInvariant` and from it the types, `StagedMeansReplicated`,
`NoModelBeforeAllReady` and `PositiveMeansSettled`.  `Programmed` says where the
child is in its program, `Readying` what the calls before that place have made
ready and that no `create` is on its way before; `Replicating` and `Anchoring`
carry the guards' acceptance through the callback and the anchor to the first
attempt (a second look at the same offer, which would start the callback anew, is
excluded because a parent with an anchor but no acknowledgement is stopping);
`Settling` says that nothing runs behind a receipt.  `LaunchCalls` and
`ClosingCalls` give the entries of the two programs the argument uses.

`DirectPairProofs` proves for both lifecycles, every set of mortal processes, any
number of late calls, of handlers or over plain ssh, and timers at any time
`TypeCorrect` and four of the pair's properties.  None is inductive.
`EvidenceKeeps` proves the invariant they share,
`PairInv`: `Resting` (who is not on is at its start; the controller is submitted
once), `Holding` (a long handler's caller, if it still waits, waits in that call),
`Relaying` and `Queued` (a relay's position, and a late call of its, prove what the
calls before have established), `Acknowledged` (acknowledgement before any slot,
and never with a tombstone), `Evident` (records are true, and a declaration never
comes behind one) and `Closed` (what a closure, a pair closure and a restore stand
for).  From it follow `RestoresAlone` (`NoRestoreWhileRunning`) and `EvidenceHolds`
(`EvidenceStaysTrue`).  For the plain ssh commands, `Stepwise` and `Carries` say that
each was sent behind the answers to those before it: while an arm or a start is on its
way, its slot exists and no record accounts for it as absent.

`DisarmedReturned` (`DisarmedMeansReturned`) adds `NetInv`, what the receipts say of
a node's interfaces and rules (`Borrowing`, `Returning`) and that the controller
asks for rules only behind both entries (`Entering`).  Its one hypothesis,
`RulesNeverLate`, excludes a delayed firewall-ready in the predeclared lifecycle;
`NoRuleResidue` shows that it cannot be dropped.  The run's instance satisfies it.

`PayloadServed` (`PayloadKeepsNetwork`) adds `ServingInv`: along the controller's
program the interfaces and rules are taken, used and given back in that order
(`Serving`), and a call that is not the waiting controller's finds a dead run
(`Strays`).  The step that carries it is that the trap's proof (`TrapProof`) covers
every slot, because a slot implies the acknowledgement, and that the payload was
attempted.  What a late ssh command may still start is in `Provided`: as long as a
node could come to run something (`MayRun`: it runs, or a start of its staged
slot or a test of its staged link is on its way), both networks are in place - not
only as long as it does.

`PairBorrows` proves that the run implements `BorrowedPair`, under the same
hypothesis `RulesNeverLate`.  Besides the three invariants it needs `Unwinding`: a
restore under way has written its receipt or has nothing to give back; without
it the step that finishes one could return what nobody has begun to return.
`StepPromised` maps each action to `Borrow`, `Start`, `Stop`, `BeginReturn`,
`Return`, `Release` or a stutter; a step that stops several things at once maps
to one `Stop`.  `PromiseKept` proves that the steps of `BorrowedPair` alone imply its
`PairPromise`, and `PromiseHolds` carries that over to the run.

`DirectStageProofs` proves `EntersProtected` for any clock offsets, delay, launch
reserve and timeouts, under `RelayAssumption`: the launch reserve is positive, and
the allowance covers two status timeouts, the pause between them and the dispatch
reserve (the instance satisfies it, and TLC evaluates it).  The property compares a
timer with the clock of its node, whereas `verify_armed_packet` compares an
observation with the clock of the other; the invariant `StageInv` bridges the two.
`Leased`: an armed timer elapses at most the dispatch reserve before the deadline,
which is never renewed.  `Relayed`: every packet, whether accepted, on its way late
or about to be sent, tells of those deadlines, and its two observations lie at most
the allowance less the dispatch reserve apart (`Sound`).  `Observing` follows the
frontend through its two status calls, where that bound comes from.  `Staged`: what
the frontend was answered stands, so that the gate opens behind all of it, and who
asks for an entry, also late, has passed the gate.

`DirectNetworkProofs` proves `NeverBothFabrics` and `RestoredTruthful` for any ports
that the fabric's stop disconnects, with and without lingering hooks, and any number
of changes by somebody else.  Neither property is inductive: what keeps the fabrics
apart is the order of the commands a handler still has to run.  `Restoring` says of
that rest that the switch side is brought up only by a restore, and, on a node that
was idle, only behind the check of the idle ports, which has either been passed or
is still ahead of the command; and that such a check is passed only when nothing
but the restore and what is left of the script's shells can touch the ports any more.
`OneFabric` then says which side may be up, by the phases: between `idle` and `idle-restored` never the switch side,
otherwise never the direct profile.  `RulesRead` carries what is read before a rule
command to the moment it takes, so that no rule is ever there twice.
`RestoredTruthful` follows because the validators of the terminal phases leave no
field of a snapshot open (`SwitchedIsOriginal`, `PredeclaredIsOriginal`), on a
baseline that `ValidOriginal` accepts (`Reviewing`); that the arp and mtu fields of
the direct port, which `DirectPartly` lets differ, are the guarded ones already is
what the predeclared baseline has to say for it.

`RestorableHolds` and `RestoreGivesUpHolds` need to know what a node looks like that
nobody else has changed, wherever something was killed.  `Story` says it operation by
operation, in the order of the commands: what an entry, the rules' installation, the
model script and a restore have done and what each still has to do (`KeptPredeclared`
for the predeclared lifecycle, `Transiting` for the transient one).  Every command is
one step along it.  The script's shells are part of it: `ShellInv` says which commands
can be left of them at each point, that no shell both adds and activates a profile, and
that behind `idle-restored` there is no profile that one of them could still activate
(`NetworkInvariant` proves it with `NetInv`).  `Restorable` then says that `validate_entry_partial` and
`validate_direct_or_idle` refuse no state the story goes through, except the gap of
finding 2; `RestoreGivesUpForOthers` follows because a restore under way can only move
along it, unless somebody else, a dispatcher hook, an earlier intent or something that
a shell of the script builds up behind its back (`late`) is in its way; from there on the
story is not followed.  What the shells of the trap take back it survives.

`DirectStageProofs` also proves `PassMeansQuiet` and `StartsOnlyStaged` of
`LinkTransport`, for any names of the slots and any number of requests given up
(`TransportAssumption`).  The hard part is what may still be served late.  `Proofs`
says that behind the program's proofs of stop a slot is `Quiet`: it is canceled, and
no unit of it is up or could still come up, so that any request on its way does
nothing.  `Started` says that a start on its way was sent behind those proofs.

`ModelProofs` proves seven properties of the engine modules.

* `LoadsWholeModelHolds`, for any processes (`LoaderAssumption`: none has the name of
  the free lock) and files: `Progress` says what a process knows of the snapshot where
  it stands - who filters without the lock has seen the index if there is one -,
  `Snapshot` that files only come, and `Alone` that only the holder of the lock is
  between taking it and giving it back.
* `ReplayReadsItsBatchHolds`, for any batch sizes, draft steps and batches: what is
  stored for a key fits it (`Stored`), a warm-up's full metadata is raw again when it is
  recorded, so that no graph keeps what it was captured with (`Recording`), and between
  filling and replay the buffers and then the key's metadata hold the batch (`Filled`,
  `Prepared`).
* `LookupIsOwnersRowHolds`, for any rows, ranks, layouts and any local stores
  (`GroupAssumption`; `StoreAssumption` only says that stores hold rows of the
  table): `LoadedBy` says which tensors of
  which rank's rows are there behind each of its steps, `SharedWhole` that a shared
  table is whole once anybody serves; that the rows of the ranks cover the table
  (`OneOwner`), that the ranks' sum is the owner's row (`SumIsRow`), and that the
  gathered answer falls apart again by rank (`SliceIs`), are lemmas.
* `ShardsArriveHolds`, for any files, workers, ranks and threads (`WindowAssumption`):
  `NoneLost` and `Sliding` say where each submitted file is and that the buffered window
  holds exactly the next ones; `ReadBy` accounts for the files of a rank's prefetch.
* `HashedWithOwnTextHolds`, for any n-gram size, slots, blocks and texts
  (`HistoryAssumption`): `OwnRows` says that a row written for its slot's request
  (`warm`) precedes what comes next in the request's text, up to the id that stands for
  an image, and that a block is verified behind such a row.  `GramIs` proves that a run
  behind its own predecessors gets its own n-grams, wherever it lies in the batch;
  `ForwardKeeps` that extend and decode leave such a row, and padding touches none;
  `AcceptedIs` that the window over the old row and the accepted part does, for every
  number of accepted tokens.
* `EveryRowAttendsOwnPairsHolds`, for any sizes of pages, index pages, ring, chunks,
  drafts and batches, and any choice of the allocator (`CompressAssumption`: sizes are
  positive, the ring holds a block of drafts, pages hold whole pairs and whole index
  pages).  The property is not inductive: what a pair is pooled from tomorrow is in
  the ring today, and who else writes to its slot is a matter of the pages.
  `CompressInv` adds to the types that a request has exactly the pages its tokens need,
  drafts included (`Paged`); that a page lies at one place, and two requests have it
  only when the tokens of both that stand fill it (`Apart`), so that no batch writes a
  slot twice or a pair of somebody else's; that every complete pair of a request,
  drafts included, is in its slot (`Written`, which is the property with one address
  instead of three); and that the ring holds the first token of a pair that is cut, and
  every draft, since any of them may be the last that stands (`Remembered`).  A batch is
  taken apart by request: which row is at which index of it, that the row before is the
  request's own or the first of its chunk, and that of the rows that share a place of
  the ring the last one of the request is kept, also in front of padding.  Reading
  needs that an index page lies inside its page (`SlotByTable`), and that the groups of
  a request begin in the sequence of the batch where those of the requests before it
  end (`SlotInBatch`).
* `TailServedWithItsOwnHolds`, for any batch, tail length and group (`TailAssumption`).
  `TailInv` says what the masks, the buffers and their tail rows are at each point of
  the forward, rank by rank.  The rest is arithmetic of positions.  `Ascending` lists a
  set of numbers in order (`AscendingIs`, `AscendingImage`, `AscendingTop`), so that the
  rows of a request on a rank are in order and those in the tail are its last
  (`TailIsLast`): cutting a mask to their number is selecting them (`CutIsTail`).
  `LocalTokenIndices` turns positions of the batch into positions of the rank's rows,
  since a rank owns every `cp`-th.  All blocks have `MaxLocal` rows, so that
  `GatherIndex` finds each row of the tail in its own (`GatheredIsTail`).  Padding rows
  of two ranks are apart because `PadStart` is the sum of the paddings before
  (`PadsApart`).

Their lemmas on `FlattenSeq`, which the batches of `EngramTable`, `EngramHistory`,
`PairCompress` and `LateTail` are built with, need an induction. `SetInduction`
has it for sets: a set that has 0 and with every number the next one has them all,
since the naturals are well-founded.

The refinements of `OwnedResource` are proved step by step as well: the initial
state maps to the abstract one, and every step to `Begin`, `End`, `Prove` or a
stutter.

Only model-checked: liveness (`ArmedEnds`, `StartedEnds`, `ParentEnds`,
`BorrowedReturned`, `RunningCancelled`: fairness is outside the prover's reach);
`StoreHoldsColumns`, whose primes and offsets are computed for the real layout;
and the two findings, which are counterexamples.

## 5. Not modelled, and why

* A reboot: receipts carry the boot id and every handler refuses after one.
* Packet schemas, digests, JSON validation, durations, unit properties: a
  malformed document is a refusal, which every call may meet anyway.
* The on-disk protocol of `publish` (pending file, fsync, hard link): a receipt is
  there or not.
* `DirectPair` takes the lease check of the peer inside `verify_armed_packet` for
  the own lease being ample; `DirectStage` has both.
* `DirectPair` takes an interface as one of four states, so that a late activation
  either finds the profile or fails; what it does to a port in the middle of a
  restore is `DirectNetwork`'s.  There the two rails of `deuces-direct-model.sh` are
  the one the guard's config names, and a shell on the head dies with its script,
  since it is its child.
* The unowned (interactive) path of the model script, `plan`, inventory and recipe
  validation: input checking, or a path without a guard.
* Links: the text of the journal, the plan's addresses.  Containers:
  configuration checks, logs, exec, `deuces-owned-adapter.py`'s evidence.  A slot's
  identity is always its own: a foreign unit or container is a refusal.
* A `disarm` of a container killed behind the stop of its timer, and a `stop` of
  a weight hash killed behind `systemctl stop`: both are in the models, both
  leave a slot that no later call can settle, and nothing unsafe follows.
* Weight hash: the storage under the model (NVMe, read-only NFS mount); a repeated
  stop that refuses a unit which had to be killed is one of the failures any step
  may meet.
* `OwnedRun`: source pins, document checks, evidence archives.  The handshake of
  the declaration channel is its order of write-once files.
* `DirectStage` bounds the rest between two calls (`Pause`).  Nothing in the
  frontend does.  The proof shows which rest matters: only the one between the two
  lease-status calls.  With timeouts of 20 s and the dispatch reserve of 16 s the
  allowance of 120 s covers a pause of 64 s there; a frontend suspended for longer
  could let a peer's timer elapse inside the launch reserve.  However long the
  packet itself is under way, its reader measures that on its own clock.
* Engine: kernels, scores, sparse prefill and window indices, and the quantisation
  (`modelopt_quant.py`) are numerical GPU code, whose correctness is not a matter
  of order or state.  The online ratio-128 compressor is left out.  Scheduler, page
  allocator, prefix cache, graph runner and the layers' order are external: they
  do what their callers in these files rely on (a page belongs to one request or to
  requests that share its text; pages are even and page-aligned prefixes are
  shared; input buffers are filled before a replay; `RingSize >= DraftLen`).
  `refresh_for_breakable_cuda_graph_replay_` does not carry the request-window
  layout over, so request windows and prefill graphs are taken not to be combined.
* Ray restoration, the qualification itself and the 4- and 8-node coordinators:
  sequences of ssh calls per node that drive the parts modelled here.

## 6. Plan

1. *done* `DirectLease`, `DirectPair`, `LinkServer`, `OwnedContainer`, `WeightHash`,
   `OwnedRun`, and the proofs of each.
2. *done* `DirectNetwork`, per mutation; `DirectStage`; `LinkTransport`.
3. *done* the engine: Engram, weights, and the stateful part of the backend.
4. *done* `BorrowedPair`, the promise of a run, and that `DirectPair` keeps it.
5. *done* Proofs of `DirectStage`, `DirectNetwork`, `LinkTransport`, and of the engine:
   the history, the table, the window, the download, the graphs, the compressed pairs
   and the tail.
6. Ray restoration around a run.
