---------------------------- MODULE MinerLoop ----------------------------
(***************************************************************************)
(* rami-node/src/lib.rs: the miner thread and the node actor, which share  *)
(* MiningShared (a flag, a job behind a mutex, an epoch counter) and a     *)
(* channel of blocks found.                                                *)
(*                                                                         *)
(* Each store and each load is a step of its own.  The job is a number:    *)
(* two candidates are the same job when their headers are the same, which  *)
(* happens when the actor rebuilds one on the same head, with the same     *)
(* transactions and in the same second.  A chunk of work tries one nonce.  *)
(***************************************************************************)
EXTENDS Integers, Sequences

CONSTANTS
    MaxJobs,       \* bound: candidates with different headers
    MaxOthers,     \* bound: refreshes whose cause is not a block found
    MaxNonce,      \* width of the nonce, 2^64 - 1 in the code
    WinningNonce   \* the nonce that meets the target, of every job but the last

Jobs == 1..MaxJobs
Nonces == 0..MaxNonce
NoJob == 0
NEVER == -1      \* u64::MAX, an epoch no counter reaches

ASSUME JobsAssumption == MaxJobs \in Nat \ {0} /\ MaxOthers \in Nat /\ MaxNonce \in Nat
\* The last job is never solved: there the bound on jobs stops the mining.
ASSUME WinningAssumption == WinningNonce \in [Jobs \ {MaxJobs} -> Nonces]

Header == [job : Jobs, nonce : Nonces]
NoHeader == [job |-> NoJob, nonce |-> 0]

VARIABLES
    on, job, epoch,    \* MiningShared
    mining_on,         \* the actor's own switch
    actor,             \* the store refresh_candidate does next
    next,              \* the candidate it publishes
    newest,            \* last job built so far
    accepted,          \* jobs whose block accept_block has taken
    queue,             \* Mined messages on their way to the actor
    others,            \* refreshes so far with another cause
    miner,             \* where miner_loop is
    local, cur, local_epoch, wait_new_epoch, last_found,   \* its variables
    sent               \* the epoch and job of every Mined sent, in order

shared == <<on, job, epoch>>
actorVars == <<mining_on, actor, next, newest, accepted, others>>
minerVars == <<miner, local, cur, local_epoch, wait_new_epoch, last_found, sent>>
vars == <<shared, actorVars, queue, minerVars>>

\* spawn: nothing published, and refresh_candidate about to build the first job.
Init ==
    /\ on = FALSE /\ job = NoJob /\ epoch = 0
    /\ mining_on = TRUE /\ actor = "job" /\ next = 1 /\ newest = 1
    /\ accepted = {} /\ queue = <<>> /\ others = 0
    /\ miner = "loop" /\ local = NoHeader /\ cur = 0 /\ local_epoch = NEVER
    /\ wait_new_epoch = FALSE /\ last_found = NoHeader /\ sent = <<>>

----------------------------------------------------------------------------
(* The actor.                                                              *)

\* What build_candidate can return: the same header as the last time while
\* the head has not moved onto its block, or a new one.
Buildable(taken) ==
    ({newest} \ taken) \cup (IF newest < MaxJobs THEN {newest + 1} ELSE {})

\* refresh_candidate decides what to publish; the stores follow one by one.
RefreshCandidate(mining, taken) ==
    IF mining
    THEN /\ actor' = "job"
         /\ next' \in Buildable(taken)
         /\ newest' = next'
    ELSE /\ actor' = "on"
         /\ next' = NoJob
         /\ UNCHANGED newest

\* on_mined: the block is accepted, or was already, and a candidate follows.
OnMined ==
    /\ actor = "idle" /\ queue # <<>>
    /\ queue' = Tail(queue)
    /\ accepted' = accepted \cup {Head(queue)}
    /\ RefreshCandidate(mining_on, accepted')
    /\ UNCHANGED <<shared, mining_on, others, minerVars>>

\* Any other cause of a refresh: a block or a transaction of a peer, the tick,
\* a command that switches the mining on or off.
OtherRefresh ==
    /\ actor = "idle" /\ others < MaxOthers
    /\ others' = others + 1
    /\ mining_on' \in BOOLEAN
    /\ RefreshCandidate(mining_on', accepted)
    /\ UNCHANGED <<shared, accepted, queue, minerVars>>

\* The three stores: job, epoch, on = true; or on = false, no job, epoch.
StoreOn ==
    /\ actor = "on"
    /\ on' = (next # NoJob)
    /\ actor' = IF next # NoJob THEN "idle" ELSE "job"
    /\ UNCHANGED <<job, epoch>>

StoreJob ==
    /\ actor = "job"
    /\ job' = next
    /\ actor' = "epoch"
    /\ UNCHANGED <<on, epoch>>

StoreEpoch ==
    /\ actor = "epoch"
    /\ epoch' = epoch + 1
    /\ actor' = IF next # NoJob THEN "on" ELSE "idle"
    /\ UNCHANGED <<on, job>>

Publish ==
    /\ StoreOn \/ StoreJob \/ StoreEpoch
    /\ UNCHANGED <<mining_on, next, newest, accepted, others, queue, minerVars>>

----------------------------------------------------------------------------
(* The miner thread.                                                       *)

MinerStep(from) == miner = from /\ UNCHANGED <<shared, actorVars>>

ReadOn ==
    /\ MinerStep("loop")
    /\ IF on THEN miner' = "epoch" /\ UNCHANGED <<local, wait_new_epoch>>
             ELSE miner' = "loop" /\ local' = NoHeader /\ wait_new_epoch' = FALSE
    /\ UNCHANGED <<queue, cur, local_epoch, last_found, sent>>

\* cur is read; while waiting for a new epoch nothing else happens.
ReadEpoch ==
    /\ MinerStep("epoch")
    /\ cur' = epoch
    /\ IF wait_new_epoch /\ cur' = local_epoch
       THEN miner' = "loop" /\ UNCHANGED wait_new_epoch
       ELSE /\ wait_new_epoch' = FALSE
            /\ miner' = IF local = NoHeader \/ local_epoch # cur' THEN "take" ELSE "mine"
    /\ UNCHANGED <<queue, local, local_epoch, last_found, sent>>

\* The job is copied under its mutex, maybe after the epoch it belongs to has
\* changed; a header equal to the last one found is not mined again.
TakeJob ==
    LET taken == [job |-> job, nonce |-> 0] IN
    /\ MinerStep("take")
    /\ local_epoch' = cur
    /\ IF job # NoJob /\ taken = last_found
       THEN local' = NoHeader /\ wait_new_epoch' = TRUE
       ELSE local' = taken /\ UNCHANGED wait_new_epoch
    /\ miner' = IF local' = NoHeader THEN "loop" ELSE "mine"
    /\ UNCHANGED <<queue, cur, last_found, sent>>

Wins(h) == h.job # MaxJobs /\ WinningNonce[h.job] = h.nonce

\* One nonce is tried; the next one wraps around.
MineChunk ==
    /\ MinerStep("mine")
    /\ IF Wins(local)
       THEN miner' = "check" /\ UNCHANGED local
       ELSE /\ miner' = "loop"
            /\ local' = [local EXCEPT !.nonce = (@ + 1) % (MaxNonce + 1)]
    /\ UNCHANGED <<queue, cur, local_epoch, wait_new_epoch, last_found, sent>>

\* Defect: a block found on a job already replaced is sent all the same.
CheckEpochNunca ==
    /\ MinerStep("check")
    /\ miner' = "send" /\ last_found' = local
    /\ UNCHANGED <<queue, local, cur, local_epoch, wait_new_epoch, sent>>

\* Defect: the wait after a block dropped is for an epoch after the new one.
CheckEpochAlDia ==
    /\ MinerStep("check")
    /\ IF epoch = local_epoch
       THEN miner' = "send" /\ last_found' = local /\ UNCHANGED <<local, wait_new_epoch>>
       ELSE /\ miner' = "loop" /\ local' = NoHeader /\ wait_new_epoch' = TRUE
            /\ UNCHANGED last_found
    /\ local_epoch' = epoch
    /\ UNCHANGED <<queue, cur, sent>>

\* The epoch is read again; the block is dropped if it has changed.
CheckEpoch ==
    /\ MinerStep("check")
    /\ IF epoch = local_epoch
       THEN miner' = "send" /\ last_found' = local /\ UNCHANGED <<local, wait_new_epoch>>
       ELSE /\ miner' = "loop" /\ local' = NoHeader /\ wait_new_epoch' = TRUE
            /\ UNCHANGED last_found
    /\ UNCHANGED <<queue, cur, local_epoch, sent>>

SendMined ==
    /\ MinerStep("send")
    /\ queue' = Append(queue, local.job)
    /\ sent' = Append(sent, [job |-> local.job, epoch |-> local_epoch])
    /\ miner' = "loop" /\ local' = NoHeader /\ wait_new_epoch' = TRUE
    /\ UNCHANGED <<cur, local_epoch, last_found>>

MinerNext == ReadOn \/ ReadEpoch \/ TakeJob \/ MineChunk \/ CheckEpoch \/ SendMined

Next == OnMined \/ OtherRefresh \/ Publish \/ MinerNext

\* The operating system schedules both threads, and the actor takes every
\* message of its channel; nothing forces any other refresh to come.
Fairness == WF_vars(OnMined) /\ WF_vars(Publish) /\ WF_vars(MinerNext)

Spec == Init /\ [][Next]_vars /\ Fairness

----------------------------------------------------------------------------
(* Properties.                                                             *)

TypeOK ==
    /\ on \in BOOLEAN /\ job \in Jobs \cup {NoJob} /\ epoch \in Nat
    /\ mining_on \in BOOLEAN /\ actor \in {"idle", "on", "job", "epoch"}
    /\ next \in Jobs \cup {NoJob} /\ newest \in Jobs /\ accepted \subseteq Jobs
    /\ queue \in Seq(Jobs) /\ others \in 0..MaxOthers
    /\ miner \in {"loop", "epoch", "take", "mine", "check", "send"}
    /\ local \in Header \cup {NoHeader} /\ last_found \in Header \cup {NoHeader}
    /\ cur \in Nat /\ local_epoch \in Nat \cup {NEVER} /\ wait_new_epoch \in BOOLEAN
    /\ sent \in Seq([job : Jobs, epoch : Nat])

\* When the epoch check lets a block found through, the job mined is the one
\* published, or the actor is between the store of a new job and the store of
\* its epoch: job first and epoch second is what the miner's check relies on.
FoundIsFresh ==
    [][last_found' # last_found => local.job = job \/ actor = "epoch"]_vars

\* A miner that waits for a new epoch gets one: every block sent is answered by
\* a refresh_candidate, also when the block was a duplicate, and a header that
\* TakeJob refuses has its Mined still on the way.
WaitEnds == wait_new_epoch ~> ~wait_new_epoch
==========================================================================
