# A verification development for RAMI-Chain

RAMI-Chain (`src/chain`) is a proof-of-work chain in Rust that keeps *every*
valid block for ever as a tree of branches ("universo de ramas") and follows the
heaviest one, and a desktop application that draws the city its ledger describes:
parcels, buildings, traffic, pedestrians, a metro, and houses a visitor walks
into. This directory holds TLA+ models of both, TLC configurations that check
them, and proofs that TLAPS checks.

Paths below are relative to `src/chain/crates/` unless they start with `src/`;
`city/…` and `city3d.js` are under `rami-gui/src/`.

## 1. Inventory

### The city viewer (JavaScript, `rami-gui/src`)

| Component | Source | State it keeps | Operations | What is hard | What makes it correct |
|---|---|---|---|---|---|
| Core | `city3d.js` | `S`: mode, city, camera, walker, solids, quality, light | `setCity`, `setMode`, `setQuality`, `setPose`, frames, VR session, hooks to the modules | groups rebuilt one by one, late answers of the headset, hooks in an order | what collides is what is drawn; what a photo borrows it gives back |
| Streets and traffic | `city3d.js` `buildTraffic`, `updateTraffic` | cars: route, position, turn, patience | one frame moves the cars one after the other | cars that wait for one another, roundabouts, a player on the road | no crash, no wait without end, nobody run over |
| Interiors | `city/umbral.js` | house, floor, guided walk, selection, `localStorage` | enter, leave, lift, furniture, hooks `ciudad`, `modo`, `vr`, `cuadro` | walks of several steps cut by anything | nobody is left inside a house that is gone; furniture is not lost |
| Pedestrians | `city/vida.js` | population, clock, walks kept, job in slices | `cuadro`, hooks `ciudad`, `calidad`, `hora` | the population is rebuilt while the old one walks | the street is a function of the time |
| Memory of the city | `city/memoria.js` | plaques, errands, list, guide | hooks, search of a free spot | signatures in place of comparisons | what it shows is of this city |
| Sound, photo, storm, metro | `city/extras.js` | audio context, photo, storm, trains | buttons, gestures, frames | two handlers for one gesture; light written twice | idempotent light; trains keep apart |
| Translations | `i18n.js` | table | `t` | - | data: not modelled |
| Mirage | `city/espejismo.js` | sky and dust | frames | - | drawing: not modelled |

### The chain (Rust)

| Component | Source | State it keeps | Operations | What is hard | What makes it correct |
|---|---|---|---|---|---|
| Block tree | `rami-core/src/blocktree.rs`, `tiebreak.rs`, `params.rs` | `nodes`, `children`, `tip_state` | `new`, `insert`, `head`, `tips`, `tips_by_work`, `reorg_between`, `locator`, `branch_to` | blocks in any order, forks at interior blocks, rules that depend on the branch, ties | nothing is forgotten; every branch replays; the head is the heaviest; a branch spends a nonce once; a rule does not go back |
| Retarget | `rami-core/src/pow.rs` | none | bits, difficulty, LWMA | truncation, clamps, first window | work of a branch is the sum of its blocks |
| State transition | `rami-core/src/state.rs`, `tx.rs` | accounts, commits, parcels, assets, profiles, fund | `apply_block_con`, `apply_tx` (21 kinds), `apply_tx_sin_rastro` | rejections after a partial change, counters kept incrementally | coins are conserved, counters equal their definition, a rejection leaves no trace |
| City economy | `rami-core/src/ciudad.rs` | part of the state | `tick` | double floors, burned imports | the fund, what is paid and what is burned add up |
| Chain directory | `rami-core/src/store.rs` | `chain.jsonl`, `mempool.jsonl`, `genesis.json` | `init`, `append_*`, `clear_mempool`, `load_*` | crashes, torn and failed writes, two processes on one file | a restart recovers the tree and never invents |
| Node actor | `rami-node/src/lib.rs` | tree, mempool, `seen_tx`, job, directory | one message at a time: frames, mined blocks, ticks, commands | reorganisations, late blocks of the miner, rule activation, failures half-way | the candidate is always admissible and fresh; a transaction never vanishes |
| Miner thread | `rami-node/src/lib.rs` `miner_loop` | local job, epoch | read epoch and job, search, send | epoch and job are read apart | a published job is eventually worked on, no block is sent for ever |
| Branch synchronisation | `rami-node/src/lib.rs` `on_frame`, `pump_peer`, `request_branch` | tips per peer, in-flight slots, rounds, strikes, `bad_blocks` | Tips, GetBranch, Branch | lost or refused answers, deep forks, windows and caps | every valid block reaches every node |
| Presence and chat | `rami-node/src/lib.rs` | last sequence per identity, rates | Presence, Chat | restarts, duplicates, hops | a message is shown once |
| Peer table | `rami-net/src/lib.rs` `central_loop` | peers, `by_node`, pending counter, recent dials | register, close, send, dial | cross dials, full queues | one entry per node, one Disconnected per Connected |
| Tunnel, identities, SHARAMI | `rami-net/src/secure.rs`, `identity.rs`, `sharami.rs` | session keys | handshake, seal, open | cryptography | - |
| Audit ledger | `rami-core/src/ledger.rs`, `src/reference/rami_ledger.py` | none | `verify_ledger` | order of commits and reveals | agrees with the reference |
| Wallet, CLI, panel, updater, city view | `rami-wallet`, `rami-node/src/main.rs`, `http.rs`, `update.rs`, `rami-gui` | keys, files | forms and commands | processes sharing the directory | - |

How they interact. The node is one actor thread that owns the tree, the mempool
and the directory; the network thread, the clock and the miner thread send it
messages. The miner thread reads a shared job (`MiningShared`) that the actor
replaces. The tree is rebuilt from `chain.jsonl` at start. The faucet, the
wallet's CLI and offline mining are other processes that open the same files.

In the viewer everything runs on one thread: the panel's calls, the player's
gestures, the answers of the headset and of the disk, and the frames, in which the
core calls the hooks of its modules in the order they were mounted. What is
interleaved is these callbacks, and what each of them finds is what the others left.

## 2. Modules, and what they stand for

```
Universo
   |  (INSTANCE)
   \-------------------------\                                      Node ------- MCNode, NodeProofs
           Pow -- BlockTree -- BlockTreeRefinement -- MCBlockTree     MinerLoop -- MCMinerLoop, MinerLoopProofs
                                     |                                Vivienda --- MCVivienda, ViviendaProofs
                              BlockTreeProofs                         BranchSync - MCBranchSync

PlanEdificio -- Umbral -- MCUmbral, UmbralProofs           Vias -- Trafico -- MCTrafico
        \                                                     \-- Aceras -- Vecinos -- Vida -- MCVida, VidaProofs
         Piso -- UmbralProofs; Piso, Metro -- MCAlgoritmos     \-- Nucleo -- Memoria, Extras -- Visor -- MCVisor, VisorProofs

Listas: the filter of a list, for Node, Vida and Visor
NatSetInduction: induction and recursion on numbers, what that filter and a sort do to a list, for the proofs
```

`PROJECT.json` maps every definition to the lines it models. The names are those
of the source. A definition whose comment starts with *As it would be* or
*Defect:* is a variant of the one next to it with a plausible bug; no model uses
it, and each one breaks the property that is there to catch it. Lengths and times
are integers in the unit each module names.

### PlanEdificio, Piso and Umbral (`city/umbral.js`)

`PlanEdificio` is `planifica` and its helpers: from the pieces of a building in the
catalogue, the body of the door, the tall body, the stretch of facade free on each
floor, one stretch for all of them (`UnSoloTramo`), the flats per floor, the lift,
the hall; and which flat a visitor is taken to (`EligePiso`, `PisoEnPlanta`).
`Piso` is `construyePiso`, the house of a quarter and the showroom: walls, doors
and furniture as rectangles. `Umbral` is the module at work:

| Model | Code |
|---|---|
| `modo`, `xr`, `ciudad` | `S.mode`, the headset's session, `S.city` |
| `casa` | `casa`: portal, plan, flat due, rooms built with their furniture, the room on view, the height of the cabin |
| `seq`, `Avanza`, `Sigue` | `corre`/`avanza`: a guided walk is a list of steps; the instantaneous ones run in the frame that ends the one before |
| `GanchoCiudad`, `GanchoModo`, `GanchoVr`, `Cuadro` | the hooks the core calls |
| `TeclaF`, `Escape`, `Clic`, `IrAPlanta`, `Recoloca`, `RestauraPiso` | keys, pointer and the panel |
| `almacen`, `perdido` | `localStorage`, and what it refused to keep |

Left out: the test API (`congelar`, `colocar`, immediate rides), what is drawn.

### Vias and Trafico (`city3d.js`)

`Vias` has the streets as data: which of two gives way, what a crossing or a
roundabout takes of each, the zebras, lanes, and where cars turn round. `Trafico`
is `updateTraffic`: a step is a frame of 0.1 s, in which the cars move one after
the other, each seeing what the earlier ones did. A car is a record with the
fields of the source. Left out: oblique crossings, frames skipped far away,
the unblocking of last resort (`city3d.js:4129-4148`), a player on the road while
a car turns round, drawing.

### Aceras, Vecinos and Vida (`city/vida.js`)

`Aceras`: the pavements of a quarter as a grid of nodes, and a shortest walk with
the turns of its crossings. `Vecinos`: who lives and works where, and the day of
each; the position of a pedestrian is a function of the time. `Vida`: the module
frame by frame, with the clock, the walks kept, the crossings announced to the
cars and the population rebuilt in slices. The build keeps in `de` the instant and
the place its warming began at, and how far the clock has gone since: the code has
no such field and reads none, a property needs it. What is warmed ahead is warmed for a
clock that goes forward, so when the hour is moved during a build (`setTimeOfDay`)
the population comes out cold; `NewPopulationComesOutWarm` speaks of the other frames.
Left out: drawing and bodies.

### Nucleo, Memoria, Extras and Visor (`city3d.js`, `city/memoria.js`, `city/extras.js`)

`Nucleo` takes the viewer's state and gives the one after each call. `Memoria` and
`Extras` do the same for their modules, and `Visor` makes actions of them: a
session (`guion`) is a set of calls a player makes in any order, between frames.
Left out: meshes, shaders, the projection of labels, intermediate poses of a
flight, gestures of pan and zoom.

### Metro (`city/extras.js`)

Stations, timetable and the place of each car at each second, as functions.

### Pow and BlockTree (`pow.rs`, `blocktree.rs`, `tiebreak.rs`)

| Model | Code |
|---|---|
| `nodes`, `children`, `tip_state` | the three maps of `BlockTree` |
| `Insert(b)` | `insert`: known hash, parent, height, proof of work, expected bits, rules in force, ledger of the parent (cached if it is a tip, replayed if not), `apply_block_con`, then the three updates |
| `FirmaV2Sobre`, `DubaiSobre`, `ViviendaSobre`, `Ctx` | the rules of a block: inherited from the parent or reached by its own timestamp |
| `Replay`, `ChainTo`, `WalkBack` | `replay_state`, `chain_to` |
| `ObserverHead`, `BetterTip`, `CanonicalBefore` | `head`: a scan of the tips in hash order that keeps the better one, by work and then by `canonical_tip_order` |
| `LwmaNextBits` and the rest of `Pow` | the retarget over the last `LWMA_N + 1` blocks, with its truncations and clamps |

The hash function is a constant: a block carries its hash, and `PowOk` says
which pairs of hash and bits meet the target. The Collatz orbit of a hash is
reduced to whether it converges and to its score, both constants. The ledger is
reduced to the next nonce of each account, and a block carries at most one
transaction. The arithmetic of targets keeps its shape on numbers of
`TargetBytes` digits in base `ByteBase` in place of 32 bytes.

### Universo and BlockTreeRefinement

`Universo` is what the tree promises, with nothing cached: a set of blocks, each
legal after the history it names, and an observer on one of the heaviest
histories. `History`, `Work`, the rules in force and the nonces an account has
spent are recomputed from the blocks every time. `BlockTreeRefinement` maps the
tree onto it: the blocks of `nodes` are the universe and `ObserverHead` is the
observer.

### Node (`rami-node/src/lib.rs`, `store.rs`)

One action per message of the actor, each with everything its handler does:
`NewBlock` (a block of a peer; a `Branch` is a sequence of them), `OnMined`,
`AcceptTx` and `RejectTx`, `Tick`, and the life of the process: `InitChain`,
`Boot`, `Crash`, and the variants in which a write fails (`NewBlockUnsaved`,
`Stop`) or the process dies inside `accept_block` (`CrashAccepting`).
`MinerFinds` is the miner thread, seen from the actor: it works on the last job
it took, published or not. `PassActivation` is the clock reaching the date of
the v2 signature rule.

The tree is the one of `BlockTree` seen from outside: each node keeps the ledger
after its block, which `BranchesReplay` justifies; the head is the highest block,
and among equals the lowest hash. Of the ledger a transaction sees its signer's
nonce and one exclusive purchase (`ClaimParcel` and its like), enough to make two
transactions rivals. A file is a sequence of lines, with `JUNK` for one that does
not parse, and says whether the last line is finished.

### MinerLoop (`miner_loop`, `refresh_candidate`)

The two threads at the grain of their loads and stores: the actor stores the
job, the epoch and the flag one at a time, and the miner reads the flag, the
epoch, the job (under the mutex, whole) and the epoch again before it sends. The
atomics are relaxed, but every job is published through a mutex and each value
read is one of a single counter or flag, so an interleaving of single steps
covers what the threads can see except a flag or an epoch read late, which is
the same as the miner being slower. A job is its header: the same number means
the same head, transactions and second. A chunk of 120 000 nonces is one nonce.

### Vivienda (`state.rs`, housing)

One action per accepted transaction on parcels and units: `ClaimParcel`,
`SellParcel`, `BuyParcel`, `DivideParcel`, `TransferUnit`, `SellUnit`, `BuyUnit`,
with the balances, the amount burned, the fees, and `viviendas_ajenas`, the
counter on which the cap of units per account rests. The activation dates are
`BlockTree`'s subject, so both sets of rules are in force; nonces are `BlockTree`'s
and `Node`'s; a rejected transaction changes nothing (`apply_tx_sin_rastro` is
modelled in `Node`). A unit is its owner and its asked price, 0 when not on sale;
the field `unidades` is the number of units. The log of trades, names and ages
of a parcel are left out: nothing here reads them. `SellUnit` and `SellParcel` treat price 0 as
withdrawing, as the code does.

### BranchSync (`rami-node/src/lib.rs` synchronisation, `rami-net`)

Several nodes, each the actor of `Node` seen by its peers. One action per frame
with everything its handler does: `OnTips`, `OnGetBranch`, `OnBranch`,
`OnNewBlock`, and `OnConnected`, `OnDisconnected`, `Tick`, `Mine`. Requests are
computed as the code does, one after the other on the slots of a peer:
`RequestBranch` (window, cap of active requests, cap of slots, rounds, strikes)
and `PumpPeer`. A link is a sequence of the events one end has yet to handle; a
node that has not handled a `Disconnected` sends to a peer that is gone.
`Close` loses any suffix of the frames of each direction, and `Connect` is the
dial of the configured seeds.

| Model | Code |
|---|---|
| `tree` | the hashes in the tree; every block is valid, so admission is having the parent |
| `Slot` (`age`, `rounds`, `cursor`) | `BranchReq`; `age` is `sent` in windows of `BRANCH_RETRY` |
| `served`, `strikes`, `peer_tips`, `inflight` | the maps by peer |
| `since_tips`, `TIPS_HEARTBEAT`, `PRUNE_AFTER` | `last_tips_at`, 30 s and 120 s, in the same windows |
| `Locator`, `BranchTo` | `locator`, `branch_to` |
| `expelled` | a `Cmd::Drop` on its way to `rami-net` |

Time advances by a whole window, for all windows at once; frames arrive within
one, except by a fault. A fault is a connection lost, a late window or an append
that fails; `MaxFaults` bounds them together. The head is the heaviest tip, the lowest hash among
equals. Left out: invalid blocks, the byte budget of an answer (it only makes a
batch shorter), `Status`, `GetPeers`, grades, the cache of the locator, and the
peer table (both ends of a connection are registered at once).

## 3. Runs

| Run | Instance | Checks | States |
|---|---|---|---|
| `BlockTree` | 6 hashes, height 5, three activation dates of which housing's is before Dubai's, four transactions; a window of one block, fast and slow blocks | `BranchesReplay`, `HeadIsHeaviest`, `ImplementsUniverse` | 10 529 |
| `NodeCrash` | 4 hashes, two accounts, crashes, whole and torn writes | `JobIsSound`, `CrashCostsOnlyTheTail` | 797 385 |
| `NodeTornRestart` | 4 hashes, one transaction, crashes and torn writes | `StartsAgain`, which TLC finds violated | - |
| `NodeTornWrites` | 3 hashes, failed and torn writes | `FaultsAreContained` | 985 703 |
| `MinerLoop` | four jobs, three other refreshes, two nonces | `FoundIsFresh`, `WaitEnds` | 333 978 |
| `Vivienda` | three accounts, two parcels, two units, a cap of one | `CapHolds`, `NobodyLosesUnpaid` | 187 864 |
| `BranchSync` | two nodes, 7 blocks, batches of one, two requests served per window, one fault | `EveryBlockArrives` | 40 102 |
| `Umbral` | a parcel that may be a tower (whole, divided, of another), a lot or nothing, and a house of a quarter it hides | seven properties | 496 344 |
| `Trafico` | a crossing of two streets, a roundabout of two arteries, up to nine cars, some of them abreast, a player on the road | `NoCrash`, `WaitIsBounded`, `PlayerNotHit` | 82 827 |
| `Vida` | three cities over two quarters, four residents, a clock that crosses midnight | seven properties | 8 796 |
| `Visor` | four cities of two parcels, thirteen sessions of up to four calls | six properties | 349 444 |
| `Algoritmos` | an initial state for each input: metro lines, flats, houses, towers, showrooms, streets | six properties | 7 752 |

`NodeTornRestart` is the one run that must find a violation: section 6 says of what.
Each property of the others has a mutant of the code in `PROJECT.json` under which TLC finds it
violated on the same instance: the bounds are large enough for the case the
property is about to happen.

**The tree.** Whatever the order of the blocks, with unknown parents, wrong
heights, wrong bits and failed proof of work among the candidates, every branch
replays and the tree is the abstract universe. The histories explored (`OneFamily`) are of two kinds:
up to three blocks of any date and content on the genesis (`MaxDated`), enough for a
fork at an interior block and for each activation to be crossed before or after it; or
five empty ones, two fast and heavy against three slow and light. Trees
that mix the two are left to the proofs.

**The node.** `JobIsSound`: the candidate is on the current head and, when solved
at once, is admitted by the tree (the sentence of `state.rs` that a transaction
accepted by `apply_tx` never invalidates the block mined). `CrashCostsOnlyTheTail`:
a crash between any two steps, inside `accept_block` too, or half-way through a line,
leaves a file from which the next start recovers the whole tree when no line is torn,
and all of it but two blocks when the torn line is the last one. Those two are the one
whose newline was missing and the one `append_block` wrote behind it on the same line.
With a torn line nothing is promised of the start after another append: see
`NodeTornRestart`. Without a torn line the run explores everything, with one the
histories in which the node knows of one transaction at most (`BusyOrTorn`): what a file
loses is blocks, and one transaction is enough for a block to carry something. `FaultsAreContained` is
what remains with writes that fail or tear: a restart never invents, and a
transaction accepted is pending or in some branch until a rule or another
transaction makes it invalid, or the process dies.

**The miner.** Liveness needs weak fairness on `OnMined` and `Publish` (the
actor's thread runs and takes what is in its channel) and on `MinerNext` (the
miner's thread runs). Nothing forces any other refresh. With this, a miner that
waits for a new epoch gets one.

**Housing.** The cap needs an account at it in one parcel and a unit of another
parcel: two parcels and a cap of one, three accounts. All accounts are alike, so
the run uses their symmetry (no liveness is checked in it).

**Synchronisation.** `EveryBlockArrives` says the trees end up equal. It assumes
that each actor handles what is in its channel and ticks, that `rami-net` dials
and closes, that frames that are not lost arrive, and that time passes; a fault
is never forced and happens once. The constants of the code are scaled down so that
every limit is met: batches of one block (256), two requests per window (128),
four tips (256), one slot (4), four rounds (200).

**Interiors.** Four of the properties say what a visitor finds after any
interleaving of clicks, frames and hooks; `SetCityLeavesNoStaleHouse` and
`FramesKeepVisitorInside` what a step may not do. `FramesKeepVisitorInside`
leaves out one visitor: he flew on foot (`city3d.js:4507`) to a place behind the
building, in line with its door, where nothing holds him to the depth of the room
(`city/umbral.js:1556`). `GuidedWalksEnd` assumes weak
fairness on `CuadroFin`: frames come while the page is visible, and every step of a
walk has a duration. Two floors that are not consecutive, one flat of one's own,
two arrangements of the furniture and one room touched (`MaxArregladas`) are enough
for each mutant.

**Traffic.** The scenes start where the code would put the cars (`WellPlaced`), for
90 s (`Fin`), and one car may be moved once. Cars abreast on the two lanes of a street
are among them; they enter a roundabout one over the other, so `NoCrash` does
not speak of such a pair in the ring (`ALaPar`), and does of it everywhere else. `WaitIsBounded` is 60 s, twice the
patience of the code.

**Pedestrians.** The populations are those of the code's rules for each city, in
two qualities. Steps of the slices and of the walks per frame are free, since the
code cuts them by the clock of the machine. At most two calls change the city
(`MaxCiudades`, `MaxCambios`) and the clock advances a minute (`MaxAvance`).

**Viewer.** Each session mixes the calls that can disturb each other; in one of them the
browser has no audio, in another the headset refuses its session. `SearchEnds`
assumes that a frame after the end of a flight comes, and speaks of a search from
above: the way back from the headset can leave one waiting on foot (section 6).

**Algorithms.** Inputs around the thresholds of the code: the shortest metro line
and those whose timetable rounds, houses from 9 m, towers of one to three wings,
showrooms of up to 13 cars, streets with up to three crossings.

The remaining constants are bounds of the exploration: `MaxHeight`, `MaxLines`
(lines of a file, in the guards of the appends), `MaxJobs` and `MaxOthers`
(candidates and refreshes), `MaxNonce` (width of the nonce, which wraps), `Coins`
(initial balance), `MaxFaults`, `MaxT` (the viewer's clock).

Deadlock is checked in the runs of `MinerLoop`, `Vivienda`, `BranchSync`, `Umbral`
and `Vida`. In the others the system may stop: every block has arrived, no hash is
left, the session or the time is over, or the input is a single state.

## 4. Proofs

Each proof module EXTENDS the module it is about; the theorems hold for every
value of the constants that satisfies the named `ASSUME`s. TLC evaluates those in
every run of the module.

`BlockTreeProofs`, for every set of blocks, parameters and activation dates:

| Theorem | Statement |
|---|---|
| `TypeCorrect` | `Spec => []TypeOK` |
| `TipsCorrect` | `Spec => []TipsAreLeaves` |
| `ReplayCorrect` | `Spec => []BranchesReplay` |
| `MemoryCorrect` | `Spec => NothingIsForgotten` |
| `AdvanceCorrect` | `Spec => []BranchesOnlyAdvance` |
| `HeadCorrect` | `Spec => []HeadIsHeaviest` |

The inductive invariant is
`TreeInv == TypeOK /\ TipsAreLeaves /\ IsTree(nodes) /\ BranchesReplay`.
`IsTree` (a block is one above its parent, and only the genesis has none) is what
makes the walk from a block end at the genesis. `BranchesReplay` is not inductive
alone: that the cached ledger of the parent is the replayed one is used to
show it of the new tip, and `TipsAreLeaves` to know when the parent has one. The
ledgers along a branch are a recursive function, so their existence and
uniqueness is proved by induction on the height; the library's induction theorem
takes an operator, so `NatSetInduction` proves and uses the same principle for a
set of numbers, and adds recursion along `1..n`, the least and the greatest element.
`HeadCorrect` says that the head is a tip of maximal work, not which one among equals: on
ties see section 6. It needs two facts more. The scan reads hashes up to the largest one
there is, so `Bounded` (a bound on hashes and work) has to be shown of every reachable
tree: it has finitely many blocks. And looking at the tips alone is enough because a
block with the most work of the tree is a tip, since a child would have more.

`BlockTreeProofs`: `Refines == Spec => ImplementsUniverse`, the tree
implements `Universo`. Its invariant adds to `TreeInv`, `Bounded` and
`HeadIsHeaviest` the part `Exact(nodes)`: each block's work, rules and bits are the ones
its parent and its own date give. From it every node agrees with its history, by
induction along the branch (`NodesAgree`): the work summed, the rules in force, the
window of the retarget and the nonces spent are those recomputed from the blocks. A
step `Insert(b)` then maps to `Universe!Admit(b)`, with the observer on one of the
heaviest histories, and any other step to a stutter.

`NodeProofs`, for every universe of blocks, lists of transactions, caps and bounds:

| Theorem | Hypothesis | Statement |
|---|---|---|
| `TypeCorrect` | - | `Spec => []TypeOK` |
| `FaultsCorrect` | - | `Spec => []FaultsAreContained` |
| `JobAdmissibleCorrect` | - | `Spec => []JobIsAdmissible` |
| `JobCorrect` | `"fail" \notin Faults` | `Spec => []JobIsSound` |
| `CrashCorrect` | `"fail" \notin Faults` | `Spec => []CrashCostsOnlyTheTail` |

`Faults` is the set of faults the environment may produce: a crash between two
steps, a write that fails, a write that stops half-way. The first three theorems
hold for any of them. The other two are false with failed writes, and the code says
why: a block that could not be appended is in the tree and not in the file, and
`accept_block` returns the error before the candidate is refreshed. `CrashCorrect` has
crashes, the one inside `accept_block` included, and lines torn by them.

`NodeInv` says that a running node has a tree, a file that loads to a part of it, and
a job it would admit; that a node that is not running has no tree; and that
every transaction ever accepted is pending, spent on some branch or of a rule that
is over (`Accounted`). Why it is inductive:
what `load_tree` makes of a file with one line more is what it made of the file, with
that block admitted again (`LoadTreeAppend`), so appending after a torn line only
loses a block; a candidate remains admissible while the tree grows; and a purge of the
mempool drops only what a block of the tree has spent or a rule has ended.
`CrashCorrect` needs more of the file of a running node (`Recoverable`): read again it
gives the tree if no line is bad, or while the bad last one still lacks its newline; if only the
last is bad, all of the tree but two blocks. The line without its newline is why there are
two: a restart reads that block, and the append that follows spoils it and the new one.

`MinerLoopProofs`: `TypeCorrect`, and `FreshCorrect == Spec => FoundIsFresh`. Its invariant says
that the copy of a job taken in the epoch that is still current is the
published one, unless the actor is between the store of the job and that of its epoch.

`ViviendaProofs`, for every set of accounts, finite city, prices, fees and caps:

| Theorem | Statement |
|---|---|
| `TypeCorrect` | `Spec => []TypeOK`: no balance or counter goes below zero |
| `CounterCorrect` | `Spec => []AjenasCorrect` |
| `CapCorrect` | `Spec => []CapHolds` |
| `OwnersPaid` | `Spec => NobodyLosesUnpaid` |
| `ListingHonoured` | `Spec => BuyerGetsWhatWasListed` |

The invariant is `IInv == TypeOK /\ AjenasCorrect /\ CapHolds`. The code compares
a counter with the cap, so `CapHolds`, a statement about the units themselves,
is inductive only together with `AjenasCorrect`. Its steps rest on how the set of
an account's units in parcels of others changes: by one unit when a unit moves, by the
buyer's units when a parcel does.

`UmbralProofs`, for every city, plan of a building, set of rooms and of arrangements:

| Theorem | Statement |
|---|---|
| `TypeCorrect` | `Spec => []TypeOK` |
| `OnlyWalkersInside` | `Spec => []NoHouseOutsideWalk` |
| `LiftAtItsLanding` | `Spec => []LiftIsAtTheLanding` |
| `FurnitureKept` | `Spec => []FurnitureIsKept` |
| `SelectionOfThisRoom` | `Spec => []SelectionIsOfThisRoom` |
| `NoStaleHouse` | `Spec => SetCityLeavesNoStaleHouse` |
| `InsideTheRoom` | `Spec => FramesKeepVisitorInside` |
| `FreeFacades` | `InitPiso /\ [][UNCHANGED caso]_caso => []FlatsHaveAFreeFacade` |
| `ClearShowrooms` | `InitPiso /\ [][UNCHANGED caso]_caso => []ShowroomKeepsClear` |
| `OpenDoors` | `InitPiso /\ [][UNCHANGED caso]_caso => []DoorsAreNotWalledUp` |

`IInv == Dentro /\ Memoria /\ Exterior`. `InsideTheRoom` is about
one frame and uses of it only that who has a house is on foot; it says where a frame leaves
the visitor, him too whom a flight put outside the ground floor. None of the others is inductive by
itself: where the cabin is depends on which step of a guided walk is next
(`EnMarcha`), what a room shows depends on which rooms of the house were built with
what the store had (`Guardada`), and a hook may come in the middle of any of it. The
one assumption that says something of the code is `PlanAssumption`: a plan with a
lift serves at least one floor and has a flat on each, which `planifica` makes so.

The last three are about the plans themselves (`Piso`, `PlanEdificio`), which have no
steps: one input per initial state, the property a fact about what the code draws from
it. The inputs are any building, facade, number of homes and of cars, and any roll the
seed can give.

* `FreeFacades`: the floors kept are a sequence without repeats, made by
  counting them upwards, and the one stretch of facade is inside the stretch of each,
  either because it is the intersection or because only the floors that contain it
  stay; it is 7.5 m or more. The flats of a floor divide it, and the number of a flat is a
  quotient and a remainder by the flats of a floor.
* `ClearShowrooms`: two pedestals differ by a row, 6.2 m, or by a place in it, 6 m, and
  are 5.6 m across; the hall is as deep and as wide as its rows.
* `OpenDoors`: the coordinates of the five rooms follow from the percentages rolled,
  in the plan and in its mirror image; then each wall, fitting and piece of furniture is
  compared with each door.

They assume of the code (`CasosAssumption`, `NadaNoEsSitio`) the ranges of the rolls
(`construyePiso`); that the door of a car dealer is 4 m or more from the ends of its
body, the middle of one 0.28 of a cell wide (`parcelaPartes`); and that the door of a
house has 6 m of facade or more on each side: the narrowest villa is 12 m wide
with its door in the middle, a body made up for a door is as wide, and the wings of the
other buildings leave more. A house with 3.5 m on one side of its door and 4 m on the other would
have the door outside its living room, so the theorem needs such an assumption.

`VidaProofs`, for every list of cities, their populations, hours, places of the
camera, deadlines of a frame and order of calls:

| Theorem | Statement |
|---|---|
| `WalksCorrect` | `Spec => []WalksAreOfThePopulation` |
| `PopulationCorrect` | `Spec => []PopulationIsOfTheCity` |
| `StreetCorrect` | `Spec => StreetIsAFunctionOfTime` |
| `CrossingsCorrect` | `Spec => MarkedCrossingsAreWalked` |
| `WarmCorrect` | `Spec => NewPopulationComesOutWarm` |

`IInv == Datos /\ Guardado /\ AlDia /\ EnObra`: what is kept is of the population
in the street; the signature is that of the parcels there are; and a build under
way is good for that signature (`Bien`): from its phase 4 on its city has it, and once
it warms, whoever is on the list of the warming is either still to be warmed, or kept,
or will not be in the street while the warming is good (`Caldeada`). The last is what
`WarmCorrect` needs, and it is the one that the steps of a build are proved to keep
(`UnPasoIs`), the clock having gone forward between them. A frame is two loops, over the
steps of the build and over the trips of the window; both are recursive functions,
shown to stay in whatever set one step stays in (`TrabajoPasoIn`, `RecorreIs`).
`EnVentanaIs` says that the window, midnight included, has exactly the trips that left
no more than its width before; since no walk is longer than `DMax`, that is all
who may be on their way, and `StreetCorrect` follows from what looking at one trip
does (`Avanza`). The assumptions on the data are those that `viaje`, `rutaDe`
and `fases` make so (`PopulationsAssumption`: departures within the day, no
walk longer than `DMax`, zones with trips of the population), that the clock is a
number (`ClockAssumption`), and that what is warmed ahead is less than a day.

`VisorProofs`, for every list of cities, plan, calendar of storms, script of calls and
frames:

| Theorem | Statement |
|---|---|
| `SpecSoundButtonFlips` | `Spec => SoundButtonFlips` |
| `SpecGivesBackThePose` | `Spec => GivesBackThePose` |
| `SpecStormDarkensOnce` | `Spec => []StormDarkensOnce` |
| `SpecMemoryIsOfTheCity` | `Spec => []MemoryIsOfTheCity` |
| `SpecSolidsAreWhatIsDrawn` | `Spec => []SolidsAreWhatIsDrawn` |

Every call and every hook rewrites a few fields of three large records, so the lemmas
say of each operator which fields it leaves alone (`Solo`) and what it keeps of the
invariant. `Sesion` has what the first three theorems need: the icon says what the sound is, and the
sun kept by the storm is one it has not darkened. With `PoseGuardada` (what the
photo and the measure keep is the pose they were entered with) and `StormDarkensOnce`
itself it is `InvSesion`. The fourth adds `MemOK`: once the map has loaded, the
signature, the errands, their labels and the plaques are those of the city applied, and
before it the signature is that of no city, which is why the first city after the
map, or after a remount, is never skipped. A city is skipped when its signature is the one
kept; the signature drops of every parcel only whether it is on sale, which neither the
errands nor the plaques read, so cities of one signature have the same errands and plaques.
Both are filtered and sorted, which is why that last step needs what `Kept` and
the sort of `NatSetInduction` do to a sequence. The fifth adds `SolOK`: once the
map has loaded, the register is indexed (every solid is in the bin of each square it
touches, and a bin has no number of nobody), holds nothing twice, and is the
landmarks, the buildings drawn and the parcels; the buildings drawn are those of the quality of
now that no parcel of the city applied hides; before the map there are no parcels. It
needs `MemOK` for one thing, that the city that waits for the map is the city of now.
Only a city, a quality, the loading of the map and a remount touch any of it (`Quieto`);
each of them takes the solids of some kinds out of the register and puts a list of the same
kinds in (`Recambio`), so what has to be known is that the list is new: that the planner
numbers the buildings of a quarter without repeating a number, roads over a place included
(`PlantaUno`, `PlantaBarrioSon`, `PlanoEs`), that two quarters share no building, and that
the parcels have a cell each (`ParcelasSon`). `VisorAssumption` says what the node sends (the fields of a parcel,
a kind the viewer knows, no more districts than labels) and that a view that is
not there is told from one that is; `NadaAssumption`, that no audio context is told from one
that runs.

Only model-checked, and why:

* `WaitEnds`, `EveryBlockArrives`, `GuidedWalksEnd`, `WaitIsBounded` (a bound on
  a counter of a car, that rests on all the others moving) and `SearchEnds`: progress.
  Liveness under fairness is out of the prover's reach.
* The properties of `Trafico`, and of `Algoritmos` those of the metro and of the streets
  (`TrainsKeepApart`, `TrainsNeverJump`, `RoutesAndTurnsKeepClear`): facts about distances of
  the map a run builds. They are false of an arbitrary map, and the conditions of a sound map are what
  TLC evaluates.
* `TurnsKeepStreetsApart` and `StaffIsTheNearest`: what the recursive construction of a
  population gives, computed for the populations of a run. For every city it would
  be an induction over data.
* The arithmetic of `Pow`: recursive functions over digits, whose result for every
  input would be an induction over data.

## 5. Not modelled

* Byte sizes of blocks, transactions and answers; frames other than those of the
  synchronisation; invalid blocks on the wire (the tree's runs have them).
* `SetMiner` (going back to an earlier payee's candidate) and the early return of
  `refresh_candidate` when the head's state cannot be replayed, which
  `ReplayCorrect` excludes; `reorg_between` (a query).
* Lines of `chain.jsonl` written by a later version, which `load_blocks` skips, and
  `genesis.json`.
* Other processes on the same directory: faucet, wallet, and the CLI's `mine`,
  which clears `mempool.jsonl`.
* The peer table: what it does to the synchronisation is the loss of a connection.
* Of the viewer: `i18n.js` (data), `city/espejismo.js` (drawing), geometry of
  meshes and shaders, the patina of buildings, boats, the pillars of the metro, which
  `city/extras.js:1074` adds to the solids when the map has loaded: solids of
  another module, which nobody takes out; and, in the headset, the push of
  the cars on whoever stands within 2 m of the ground (`city3d.js:6030-6062`).
* The components marked `not_modelled` in `PROJECT.json`, each with its reason there.

## 6. Where the code and its words differ

Found while modelling. The second row has a run, `NodeTornRestart`. The rows of
`city3d.js:6025`, `city3d.js:3802` and `city/umbral.js:1556` are in the
models, and the properties they touch say what they leave out on their account. The others are
outside what the runs start from, or a reading of the source.

| Where | What the code does | What is said |
|---|---|---|
| `rami-core/src/tiebreak.rs:80` | scores are compared when both orbits converge and hashes otherwise: three tips of equal work can go round, and the head depends on the scan (every node scans in the same order) | "Orden total y determinista" (`tiebreak.rs:77`) |
| `rami-core/src/store.rs:139` | `append_block` writes after a torn line: the first append joins it, the second leaves it in the middle, and no later start succeeds (`StartsAgain`) | "La cadena ya no se «brickea»" (`README.md:444`) |
| `rami-node/src/lib.rs:3832` | the header found is kept with its nonce and compared with a job at nonce 0, so the same header can be mined and sent again; `on_mined` ignores it | "no vuelvas a enviar la misma cabecera" (`lib.rs:3804`) |
| `rami-node/src/lib.rs:2697` | a request over the rate is dropped; the retry starts at the locator, the same batch comes back and is no progress: the branch stands still until its rounds are used up and the honest peer takes a strike | "solo se ralentiza" (`lib.rs:60`) |
| `city3d.js:6025` | `restoreDesktop` goes on foot without calling the hooks: the labels of the errands stay lit, and a flight under way is neither flown nor dropped, so the search of a label waits for it until the player goes up again | "Encendidas si el jugador las quiere y no va a pie" (`city/memoria.js:415`) |
| `city3d.js:6064` | in the headset the hook `cuadro` runs before `updateSun`, so the storm's light is that of the frame before | the order of the desktop's loop |
| `city3d.js:2553` | the index of the rings of assets on sale is not incremented: only the last one shows | - |
| `city3d.js:3802` | two cars that come abreast enter the roundabout one over the other | "ninguna caja se montó en otra" |
| `city/extras.js:243` | nothing resumes a suspended audio context | "lo reanuda el siguiente gesto" |
| `city/extras.js:655` | in the headset the fog's distances are multiplied every frame | - |
| `city/extras.js:1010` | a station with no site falls back without the check of 600 m | - |
| `city/umbral.js:861` | in houses narrower than about 9 m the strip of the door falls on a partition | - |
| `city/umbral.js:1556` | inside a building the depth is clamped to the room only out of the width of the door: who flies on foot to a place behind it, in line with the door, stands outside with the room still on view | `city/umbral.js:1536` walks him inside the rooms |
| showroom | the first row of pedestals is 0.4 m from the back wall: who leaves the lift is inside one, and only a click works | F at its door (`notas/umbral.md:54`) |

Three more of the chain. On a tie `tips_by_work` puts the lowest hash first, which
need not be the head ("la cabeza primero", `blocktree.rs:277`). Only the
`PEER_TIPS_CAP` heaviest tips are announced, so a node that was not there when a
lighter branch grew may never get it (`src/README.md:58`). A valid block whose
append fails is in the tree and in `bad_blocks` (`rami-node/src/lib.rs:2227`).

## 7. Plan

Order of what is left, the most important first.

Proofs:

1. `BranchSync`: a type invariant, and that what a node holds was sent by a node that held
   it. The liveness stays with TLC.

Models:

1. `Ledger`: accounts, commits, reveals, the fund and the burn of `state.rs`,
   with conservation of coins over every kind of transaction and over the
   emission of a block, a nonce per transaction, and a reveal that pays at most
   once. `Vivienda` is then a part of it. Abstract specification: a book of
   payments whose total is fixed. Two or three accounts, one commit each.
2. `City`: `tick` of `ciudad.rs`, its double floors and burned imports, against
   a reference that distributes without rounding and bounds the difference; then
   assets, leases, profiles and the market, on the accounts of `Ledger`.
3. `Lwma`: the retarget against a reference definition over bounded windows
   (clamps, truncation, first window).
4. `BranchSync` with three nodes in a line, so that a branch crosses one that
   relays it.
5. `PeerTable`: `central_loop` of `rami-net`, with cross dials, duplicates, full
   queues; one entry per node and one `Disconnected` per `Connected`. It composes
   with `BranchSync`, whose links assume both ends register together.
6. `Presence`: sequence numbers, rates and hops of presence and chat over three
   nodes.
7. `Directory`: the faucet, the wallet and offline mining on the files of `Node`.
