---------------------------- MODULE BranchSync ----------------------------
(***************************************************************************)
(* rami-node/src/lib.rs: how the blocks of every branch travel between     *)
(* nodes (Tips, GetBranch, Branch, NewBlock), over the connections of      *)
(* rami-net, which deliver frames in order until they are closed.          *)
(*                                                                         *)
(* Every block is valid: a tree is the set of the hashes in it.  The clock *)
(* advances in steps of BRANCH_RETRY, 10 s: a request is active until the  *)
(* next step, and the count of requests served starts again.               *)
(***************************************************************************)
EXTENDS Integers, SequencesExt

CONSTANTS
    Nodes,
    Edges,                   \* pairs {n, m} of nodes that dial each other
    Hashes, GENESIS,
    prev,                    \* parent of each block
    work,                    \* accumulated work of each block
    InitialTrees,            \* trees the nodes may start from
    SYNC_BATCH, SERVE_RATE_MAX, BRANCH_MAX_ROUNDS, PEER_STRIKES_MAX,
    MAX_INFLIGHT_PER_PEER, PEER_TIPS_CAP, LOCATOR_TIPS, BAD_BLOCKS_CAP,
    LOCATOR_DENSE,           \* 8: last blocks of the head's chain in a locator
    TIPS_HEARTBEAT,          \* 3 steps of the clock
    PRUNE_AFTER,             \* 12 steps of the clock
    MaxFaults,               \* bound: connections lost, windows with a frame still on
                             \* its way at the end, appends to chain.jsonl that fail
    None

Links == {<<n, m>> \in Nodes \X Nodes : {n, m} \in Edges}

VARIABLES
    tree,             \* blocks of each node
    bad_blocks,
    peer_tips,        \* <<n, m>>: tips announced to n by m
    inflight,         \* <<n, m>>: tip -> what n has asked of m
    strikes, served,  \* <<n, m>>: counters n keeps of m
    last_tips_sent,
    since_tips,       \* steps since the last whole announcement of each node
    alive,            \* connections open
    expelled,         \* connections a node has told rami-net to close
    chan,             \* <<n, m>>: events of the connection that m has yet to handle
    faults

sync == <<peer_tips, inflight, strikes, served>>
announced == <<last_tips_sent, since_tips>>
vars == <<tree, bad_blocks, sync, announced, alive, expelled, chan, faults>>

----------------------------------------------------------------------------
(* The tree (blocktree.rs).                                                *)

Chain[h \in Hashes] == IF h = GENESIS THEN <<h>> ELSE Append(Chain[prev[h]], h)

Tips(T) == {h \in T : \A x \in T \ {GENESIS} : prev[x] # h}
Heavier(h, x) == work[h] > work[x] \/ (work[h] = work[x] /\ h < x)
TipsByWork(S) == SetToSortSeq(S, Heavier)
Heaviest(S, k) == {h \in S : Cardinality({x \in S : Heavier(x, h)}) < k}
HeadOf(T) == CHOOSE h \in Heaviest(Tips(T), 1) : TRUE

\* Distances from the head that a locator samples: the last LOCATOR_DENSE
\* blocks, then gaps that double.
Sampled(n) ==
    LET dist[k \in 1..n] ==
            IF k = 1 THEN 0
            ELSE dist[k - 1] + (IF k <= LOCATOR_DENSE THEN 1 ELSE 2 ^ (k - LOCATOR_DENSE))
    IN {dist[k] : k \in 1..n} \cap 0..(n - 1)

Locator(T) ==
    LET chain == Chain[HeadOf(T)]
    IN {chain[Len(chain) - d] : d \in Sampled(Len(chain))}
       \cup {GENESIS} \cup Heaviest(Tips(T), LOCATOR_TIPS)

Batch(path) == SubSeq(path, 1, SYNC_BATCH)

\* branch_to: the blocks after the last known one on the way to tip, the
\* SYNC_BATCH oldest of them.
BranchTo(tip, known) ==
    LET chain == Chain[tip]
        fork == CHOOSE i \in DOMAIN chain :
                    /\ chain[i] \in known \cup {GENESIS}
                    /\ \A j \in (i + 1)..Len(chain) : chain[j] \notin known
        path == SubSeq(chain, fork + 1, Len(chain))
        more == Len(path) > SYNC_BATCH
    IN [blocks |-> IF more THEN Batch(path) ELSE path, more |-> more]

----------------------------------------------------------------------------
(* Frames.                                                                 *)

Connected == [type |-> "Connected"]
Disconnected == [type |-> "Disconnected"]
TipsFrame(tips, partial) == [type |-> "Tips", tips |-> tips, partial |-> partial]
GetBranch(tip, known) == [type |-> "GetBranch", tip |-> tip, known |-> known]
Branch(tip, answer) ==
    [type |-> "Branch", tip |-> tip, blocks |-> answer.blocks, more |-> answer.more]
NewBlock(h) == [type |-> "NewBlock", block |-> h]

AnnouncedTips(T) == Heaviest(Tips(T), PEER_TIPS_CAP)

\* What n sends to m now goes out by the connection n knows.
Reaches(n, m) == {n, m} \in alive /\ ~Contains(chan[<<m, n>>], Disconnected)

\* n handles the first event of m, if m is not None, and frames[x] is what it
\* sends to x: announcements go by every open connection.
Emit(n, m, frames) ==
    LET Goes(x, f) == IF f.type \in {"Tips", "NewBlock"} THEN {n, x} \in alive
                                                         ELSE Reaches(n, x)
    IN chan' = [l \in Links |->
                   IF l[1] = n THEN chan[l] \o SelectSeq(frames[l[2]], LAMBDA f : Goes(l[2], f))
                   ELSE IF l = <<m, n>> THEN Tail(chan[l])
                   ELSE chan[l]]

ToAll(frames) == [x \in Nodes |-> frames]
Only(m, frames) == [x \in Nodes |-> IF x = m THEN frames ELSE <<>>]
Then(first, second) == [x \in Nodes |-> first[x] \o second[x]]

\* maybe_broadcast_tips of a node whose tree is now T.
FreshTips(n, T) ==
    IF since_tips[n] >= TIPS_HEARTBEAT THEN <<TipsFrame(AnnouncedTips(T), FALSE)>>
    ELSE LET fresh == AnnouncedTips(T) \ last_tips_sent[n]
         IN IF fresh = {} THEN <<>> ELSE <<TipsFrame(fresh, TRUE)>>

Announced(n, T) ==
    /\ last_tips_sent' = [last_tips_sent EXCEPT ![n] = AnnouncedTips(T)]
    /\ since_tips' = [since_tips EXCEPT ![n] = IF @ >= TIPS_HEARTBEAT THEN 0 ELSE @]

----------------------------------------------------------------------------
(* What n asks of m: q holds n's requests to m, its strikes and the frames *)
(* to send.                                                                *)

Asking(n, m) == [slots |-> inflight[<<n, m>>], strikes |-> strikes[<<n, m>>], out |-> <<>>]

ActiveRequests(slots) == Cardinality({t \in DOMAIN slots : slots[t].age = 0})
ActiveOnly(slots) == Restrict(slots, {t \in DOMAIN slots : slots[t].age = 0})

\* The slots are full: the requests that are not active leave.
Kept(slots) ==
    IF Cardinality(DOMAIN slots) >= 2 * PEER_TIPS_CAP THEN ActiveOnly(slots) ELSE slots

Asked(slots, tip, rounds, cursor) ==
    [t \in DOMAIN slots \cup {tip} |->
        IF t = tip THEN [age |-> 0, rounds |-> rounds, cursor |-> cursor] ELSE slots[t]]

Rounds(old, advanced) == IF advanced THEN 1 ELSE old.rounds + 1

RequestBranch(q, T, tip, force, cursor) ==
    LET existing == tip \in DOMAIN q.slots
        old == IF existing THEN q.slots[tip] ELSE [age |-> 0, rounds |-> 0, cursor |-> None]
        advanced == cursor # None /\ cursor # old.cursor
        rounds == Rounds(old, advanced)
        refused ==
            \/ tip \in T
            \/ old.rounds >= BRANCH_MAX_ROUNDS
            \/ /\ ~(force /\ advanced)
               /\ IF existing THEN old.age = 0
                              ELSE ActiveRequests(q.slots) >= MAX_INFLIGHT_PER_PEER
        kept == Kept(q.slots)
        full == Cardinality(DOMAIN kept) >= 2 * PEER_TIPS_CAP
        asked == Asked(kept, tip, rounds, IF cursor = None THEN old.cursor ELSE cursor)
        struck == rounds >= BRANCH_MAX_ROUNDS
        known == Locator(T) \cup ({cursor} \ {None})
    IN IF refused THEN q
       ELSE IF full THEN [q EXCEPT !.slots = kept]
       ELSE [slots |-> asked,
             strikes |-> q.strikes + (IF struck THEN 1 ELSE 0),
             out |-> IF struck /\ q.strikes + 1 >= PEER_STRIKES_MAX THEN q.out
                     ELSE Append(q.out, GetBranch(tip, known))]

\* The heaviest tips of m that n lacks, up to MAX_INFLIGHT_PER_PEER at a time.
PumpPeer(q, T, tips) ==
    LET Ask(r, tip) == IF ActiveRequests(r.slots) >= MAX_INFLIGHT_PER_PEER THEN r
                       ELSE RequestBranch(r, T, tip, FALSE, None)
    IN FoldLeft(Ask, q, TipsByWork(tips \ T))

\* n's requests to each m in asked are now those of asked[m].
Ask(n, asked) ==
    /\ inflight' = [l \in Links |-> IF l[1] = n /\ l[2] \in DOMAIN asked
                                    THEN asked[l[2]].slots ELSE inflight[l]]
    /\ strikes' = [l \in Links |-> IF l[1] = n /\ l[2] \in DOMAIN asked
                                   THEN asked[l[2]].strikes ELSE strikes[l]]
    /\ expelled' = expelled \cup {{n, m} : m \in {x \in DOMAIN asked :
                       /\ asked[x].strikes > strikes[<<n, x>>]
                       /\ asked[x].strikes >= PEER_STRIKES_MAX
                       /\ Reaches(n, x)}}

----------------------------------------------------------------------------
(* Admission of blocks.                                                    *)

RememberBad(bad, h) == (IF Cardinality(bad) >= BAD_BLOCKS_CAP THEN {} ELSE bad) \cup {h}

\* Defect: an orphan is remembered as a bad block.
OrphanIsBad(b, h) == [b EXCEPT !.all_in_tree = FALSE, !.orphan = TRUE, !.bad = RememberBad(@, h)]
Orphan(b, h) == [b EXCEPT !.all_in_tree = FALSE, !.orphan = TRUE]

\* accept_block of h on a batch so far b; the append of the blocks in fails to
\* chain.jsonl fails, after they entered the tree.
Accept(b, h, fails) ==
    CASE h \in b.bad -> [b EXCEPT !.all_in_tree = FALSE]
      [] h \notin b.bad /\ h \in b.tree -> [b EXCEPT !.cursor = h]
      [] h \notin b.bad \cup b.tree /\ prev[h] \notin b.tree -> Orphan(b, h)
      [] h \notin b.bad \cup b.tree /\ prev[h] \in b.tree /\ h \in fails ->
            [b EXCEPT !.tree = @ \cup {h}, !.bad = RememberBad(@, h), !.all_in_tree = FALSE]
      [] OTHER -> [b EXCEPT !.tree = @ \cup {h}, !.cursor = h, !.accepted = TRUE]

Received(n, blocks, fails) ==
    LET Step(b, h) == Accept(b, h, fails)
    IN FoldLeft(Step, [tree |-> tree[n], bad |-> bad_blocks[n], cursor |-> None,
                       all_in_tree |-> TRUE, orphan |-> FALSE, accepted |-> FALSE], blocks)

\* The appends that fail while n admits blocks.
Failing(n, blocks) ==
    {{}} \cup {{h} : h \in IF faults < MaxFaults THEN Range(blocks) \ tree[n] ELSE {}}

Stored(n, b, fails) ==
    /\ tree' = [tree EXCEPT ![n] = b.tree]
    /\ bad_blocks' = [bad_blocks EXCEPT ![n] = b.bad]
    /\ faults' = faults + Cardinality(fails)

----------------------------------------------------------------------------
(* The events of a connection.  n handles the first event of m.            *)

First(n, m, type) == chan[<<m, n>>] # <<>> /\ Head(chan[<<m, n>>]).type = type

OnConnected(n, m) ==
    /\ First(n, m, "Connected")
    /\ Emit(n, m, Only(m, IF Reaches(n, m) THEN <<TipsFrame(AnnouncedTips(tree[n]), FALSE)>>
                                           ELSE <<>>))
    /\ UNCHANGED <<tree, bad_blocks, sync, announced, alive, expelled, faults>>

OnDisconnected(n, m) ==
    /\ First(n, m, "Disconnected")
    /\ peer_tips' = [peer_tips EXCEPT ![<<n, m>>] = {}]
    /\ inflight' = [inflight EXCEPT ![<<n, m>>] = <<>>]
    /\ strikes' = [strikes EXCEPT ![<<n, m>>] = 0]
    /\ served' = [served EXCEPT ![<<n, m>>] = 0]
    /\ chan' = [chan EXCEPT ![<<m, n>>] = Tail(@)]
    /\ UNCHANGED <<tree, bad_blocks, announced, alive, expelled, faults>>

ForgetInterior(tips, T) == {h \in tips : h \notin T \/ h \in Tips(T)}

OnTips(n, m) ==
    LET frame == Head(chan[<<m, n>>])
        told == Heaviest((IF frame.partial THEN peer_tips[<<n, m>>] ELSE {}) \cup frame.tips,
                         PEER_TIPS_CAP)
    IN /\ First(n, m, "Tips")
       /\ peer_tips' = [peer_tips EXCEPT ![<<n, m>>] = ForgetInterior(told, tree[n])]
       /\ \E q \in {PumpPeer(Asking(n, m), tree[n], ForgetInterior(told, tree[n]))} :
             Ask(n, m :> q) /\ Emit(n, m, Only(m, q.out))
       /\ UNCHANGED <<tree, bad_blocks, served, announced, alive, faults>>

ServeAllowed(count) == count < SERVE_RATE_MAX

\* Refused without an answer over the rate; no answer to a tip n lacks.
OnGetBranch(n, m) ==
    LET frame == Head(chan[<<m, n>>])
        answer == BranchTo(frame.tip, frame.known)
        allowed == ServeAllowed(served[<<n, m>>])
        answered == allowed /\ frame.tip \in tree[n] /\ answer.blocks # <<>>
    IN /\ First(n, m, "GetBranch")
       /\ served' = [served EXCEPT ![<<n, m>>] = IF allowed THEN @ + 1 ELSE @]
       /\ Emit(n, m, Only(m, IF answered THEN <<Branch(frame.tip, answer)>> ELSE <<>>))
       /\ UNCHANGED <<tree, bad_blocks, peer_tips, inflight, strikes, announced,
                      alive, expelled, faults>>

\* What follows a batch: the slot is freed, the branch goes on after the
\* cursor, or it is asked for again.
Continue(q, T, frame, b) ==
    IF frame.tip \in T THEN [q EXCEPT !.slots = Restrict(@, DOMAIN @ \ {frame.tip})]
    ELSE IF frame.tip \notin DOMAIN q.slots THEN q
    ELSE IF frame.more /\ b.all_in_tree THEN RequestBranch(q, T, frame.tip, TRUE, b.cursor)
    ELSE IF frame.more \/ b.orphan THEN RequestBranch(q, T, frame.tip, FALSE, None)
    ELSE q

OnBranch(n, m) ==
    LET frame == Head(chan[<<m, n>>]) IN
    /\ First(n, m, "Branch")
    /\ \E fails \in Failing(n, frame.blocks) :
          \E b \in {Received(n, frame.blocks, fails)} :
          \E q \in {PumpPeer(Continue(Asking(n, m), b.tree, frame, b), b.tree, peer_tips[<<n, m>>])} :
          LET news == IF b.accepted THEN FreshTips(n, b.tree) ELSE <<>>
          IN /\ Stored(n, b, fails)
             /\ Ask(n, m :> q)
             /\ Emit(n, m, Then(ToAll(news), Only(m, q.out)))
             /\ IF b.accepted THEN Announced(n, b.tree) ELSE UNCHANGED announced
    /\ UNCHANGED <<peer_tips, served, alive>>

OnNewBlock(n, m) ==
    LET h == Head(chan[<<m, n>>]).block IN
    /\ First(n, m, "NewBlock")
    /\ \E fails \in Failing(n, <<h>>) :
          \E b \in {Received(n, <<h>>, fails)} :
          \E q \in {IF b.orphan THEN RequestBranch(Asking(n, m), b.tree, h, FALSE, None)
                               ELSE Asking(n, m)} :
          LET news == IF b.accepted THEN FreshTips(n, b.tree) ELSE <<>>
          IN /\ Stored(n, b, fails)
             /\ Ask(n, m :> q)
             /\ Emit(n, m, Then(ToAll(news), Only(m, q.out)))
             /\ IF b.accepted THEN Announced(n, b.tree) ELSE UNCHANGED announced
    /\ UNCHANGED <<peer_tips, served, alive>>

Handle(n, m) ==
    \/ OnConnected(n, m) \/ OnDisconnected(n, m) \/ OnTips(n, m)
    \/ OnGetBranch(n, m) \/ OnBranch(n, m) \/ OnNewBlock(n, m)

----------------------------------------------------------------------------
(* What a node does by itself.                                             *)

Pruned(slots, T) == Restrict(slots, {t \in DOMAIN slots : t \notin T /\ slots[t].age < PRUNE_AFTER})

\* prune_sync_state, then pump_peer for each peer and maybe_broadcast_tips.
Tick(n) ==
    LET T == tree[n]
        tips == [m \in {x \in Nodes : <<n, x>> \in Links} |-> ForgetInterior(peer_tips[<<n, m>>], T)]
    IN \E asked \in {[m \in DOMAIN tips |->
                     PumpPeer([Asking(n, m) EXCEPT !.slots = Pruned(@, T)], T, tips[m])]} :
       /\ peer_tips' = [l \in Links |-> IF l[1] = n THEN tips[l[2]] ELSE peer_tips[l]]
       /\ Ask(n, asked)
       /\ Emit(n, None, Then([x \in Nodes |-> IF x \in DOMAIN asked THEN asked[x].out ELSE <<>>],
                             ToAll(FreshTips(n, T))))
       /\ Announced(n, T)
       /\ UNCHANGED <<tree, bad_blocks, served, alive, faults>>

\* on_mined: a block nobody has yet, on any block of the node's tree on which
\* its miner may have been working; it is not announced if its append fails.
Mine(n, h) ==
    /\ h \notin UNION {tree[x] : x \in Nodes} /\ prev[h] \in tree[n]
    /\ tree' = [tree EXCEPT ![n] = @ \cup {h}]
    /\ \/ /\ Emit(n, None, ToAll(<<NewBlock(h)>> \o FreshTips(n, tree'[n])))
          /\ Announced(n, tree'[n])
          /\ UNCHANGED faults
       \/ /\ faults < MaxFaults
          /\ faults' = faults + 1
          /\ UNCHANGED <<announced, chan>>
    /\ UNCHANGED <<bad_blocks, sync, alive, expelled>>

----------------------------------------------------------------------------
(* rami-net and the clock.                                                 *)

\* rami-net dials the addresses of its configuration that are not connected.
Connect(e) ==
    /\ e \in Edges \ alive
    /\ alive' = alive \cup {e}
    /\ chan' = [l \in Links |-> IF {l[1], l[2]} = e THEN Append(chan[l], Connected) ELSE chan[l]]
    /\ UNCHANGED <<tree, bad_blocks, sync, announced, expelled, faults>>

\* The frames on their way are lost, from some one on in each direction.
Lost(events) ==
    {SubSeq(events, 1, k) :
        k \in {i \in 0..Len(events) :
                  \A j \in (i + 1)..Len(events) :
                      events[j].type \notin {"Connected", "Disconnected"}}}

\* A connection is cut, or closed because one end has expelled the other.
Close(e) ==
    /\ e \in alive /\ (e \in expelled \/ faults < MaxFaults)
    /\ alive' = alive \ {e}
    /\ expelled' = expelled \ {e}
    /\ faults' = IF e \in expelled THEN faults ELSE faults + 1
    /\ \E there \in {l \in Links : {l[1], l[2]} = e} :
          LET back == <<there[2], there[1]>> IN
          \E sent \in Lost(chan[there]), returned \in Lost(chan[back]) :
              chan' = [chan EXCEPT ![there] = Append(sent, Disconnected),
                                   ![back] = Append(returned, Disconnected)]
    /\ UNCHANGED <<tree, bad_blocks, sync, announced>>

\* BRANCH_RETRY goes by; a frame takes less than that, but for a fault.
Time ==
    LET quiet == \A l \in Links : chan[l] = <<>> IN
    /\ quiet \/ faults < MaxFaults
    /\ faults' = IF quiet THEN faults ELSE faults + 1
    /\ inflight' = [l \in Links |-> [t \in DOMAIN inflight[l] |->
                       [inflight[l][t] EXCEPT !.age = IF @ < PRUNE_AFTER THEN @ + 1 ELSE @]]]
    /\ served' = [l \in Links |-> 0]
    /\ since_tips' = [n \in Nodes |-> IF since_tips[n] < TIPS_HEARTBEAT
                                      THEN since_tips[n] + 1 ELSE since_tips[n]]
    /\ UNCHANGED <<tree, bad_blocks, peer_tips, strikes, last_tips_sent, alive,
                   expelled, chan>>

----------------------------------------------------------------------------

Init ==
    /\ tree \in InitialTrees
    /\ bad_blocks = [n \in Nodes |-> {}]
    /\ peer_tips = [l \in Links |-> {}] /\ inflight = [l \in Links |-> <<>>]
    /\ strikes = [l \in Links |-> 0] /\ served = [l \in Links |-> 0]
    /\ last_tips_sent = [n \in Nodes |-> {}]
    /\ since_tips = [n \in Nodes |-> 0]
    /\ alive = {} /\ expelled = {}
    /\ chan = [l \in Links |-> <<>>]
    /\ faults = 0

Next ==
    \/ \E l \in Links : Handle(l[1], l[2])
    \/ \E n \in Nodes : Tick(n)
    \/ \E n \in Nodes, h \in Hashes : Mine(n, h)
    \/ \E e \in Edges : Connect(e) \/ Close(e)
    \/ Time

\* The actors run, rami-net dials, closes what it is told to close and delivers
\* what it does not lose, and time passes.
Fairness ==
    /\ \A l \in Links : WF_vars(Handle(l[1], l[2]))
    /\ \A n \in Nodes : WF_vars(Tick(n))
    /\ \A e \in Edges : WF_vars(Connect(e)) /\ WF_vars(e \in expelled /\ Close(e))
    /\ WF_vars(Time)

Spec == Init /\ [][Next]_vars /\ Fairness

----------------------------------------------------------------------------
(* Properties.                                                             *)

\* "todo bloque válido llega a todos los nodos, no solo la cadena principal":
\* whatever is lost with a connection, late or refused.
EveryBlockArrives == <>[](\A n, m \in Nodes : tree[n] = tree[m])
==========================================================================
