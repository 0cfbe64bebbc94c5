------------------------- MODULE MinerLoopProofs -------------------------
(***************************************************************************)
(* What the epoch check of the miner thread is worth, whatever the number  *)
(* of jobs, the width of the nonce and the order in which the two threads  *)
(* store and load.                                                         *)
(***************************************************************************)
EXTENDS MinerLoop, TLAPS

\* From the copy of a job on the miner holds one, and the epoch it read for it.
Working ==
    /\ miner \in {"mine", "check", "send"} => local # NoHeader /\ local_epoch \in Nat

\* A job copied in the epoch that is still the current one is the job published:
\* the actor stores the job before the epoch, so a job of the next epoch can be
\* seen with the epoch of the last, never the other way round.
Fresh ==
    /\ local_epoch <= epoch
    /\ miner = "take" => cur <= epoch
    /\ local # NoHeader /\ local_epoch = epoch => local.job = job \/ actor = "epoch"

IInv == TypeOK /\ Working /\ Fresh

\* At the start no job is out and the miner holds none.
LEMMA InitIInv == Init => IInv
<1> SUFFICES ASSUME Init PROVE IInv
  OBVIOUS
<1>1. queue \in Seq(Jobs) /\ sent \in Seq([job : Jobs, epoch : Nat])
  BY DEF Init
<1>2. next \in Jobs /\ newest \in Jobs /\ others \in 0..MaxOthers
  BY JobsAssumption DEF Init, Jobs
<1>3. TypeOK
  BY <1>1, <1>2 DEF Init, TypeOK
<1>4. Working /\ Fresh
  BY DEF Init, Working, Fresh, NEVER
<1>5. QED
  BY <1>3, <1>4 DEF IInv

\* A header that meets the target is of a job, with a nonce.
LEMMA WinningJob == ASSUME NEW h \in Header PROVE h # NoHeader /\ h.job \in Jobs /\ h.nonce \in Nonces
  BY JobsAssumption DEF Header, NoHeader, Jobs, NoJob

\* The actor changes none of the miner's variables, and the epoch only grows.
LEMMA ActorStep ==
    ASSUME IInv, OnMined \/ OtherRefresh \/ Publish
    PROVE  IInv'
<1> USE DEF IInv
<1>1. CASE OnMined
  <2>1. /\ queue # <<>> /\ queue' = Tail(queue) /\ accepted' = accepted \cup {Head(queue)}
        /\ RefreshCandidate(mining_on, accepted') /\ actor = "idle"
        /\ UNCHANGED <<shared, mining_on, others, minerVars>>
    BY <1>1 DEF OnMined
  <2>2. queue' \in Seq(Jobs) /\ accepted' \subseteq Jobs
    BY <2>1 DEF TypeOK
  <2>3. /\ actor' \in {"on", "job"} /\ next' \in Jobs \cup {NoJob} /\ newest' \in Jobs
    BY <2>1, JobsAssumption DEF TypeOK, RefreshCandidate, Buildable, Jobs
  <2>4. QED
    BY <2>1, <2>2, <2>3 DEF TypeOK, Working, Fresh, shared, minerVars
<1>2. CASE OtherRefresh
  <2>1. /\ others < MaxOthers /\ others' = others + 1 /\ mining_on' \in BOOLEAN
        /\ RefreshCandidate(mining_on', accepted) /\ actor = "idle"
        /\ UNCHANGED <<shared, accepted, queue, minerVars>>
    BY <1>2 DEF OtherRefresh
  <2>2. /\ actor' \in {"on", "job"} /\ next' \in Jobs \cup {NoJob} /\ newest' \in Jobs
    BY <2>1, JobsAssumption DEF TypeOK, RefreshCandidate, Buildable, Jobs
  <2>3. others' \in 0..MaxOthers
    BY <2>1, JobsAssumption DEF TypeOK
  <2>4. QED
    BY <2>1, <2>2, <2>3 DEF TypeOK, Working, Fresh, shared, minerVars
<1>3. CASE Publish
  <2>1. /\ StoreOn \/ StoreJob \/ StoreEpoch
        /\ UNCHANGED <<mining_on, next, newest, accepted, others, queue, minerVars>>
    BY <1>3 DEF Publish
  <2>2. TypeOK'
    <3>1. on' \in BOOLEAN
      BY <2>1 DEF TypeOK, StoreOn, StoreJob, StoreEpoch
    <3>2. job' \in Jobs \cup {NoJob} /\ actor' \in {"idle", "on", "job", "epoch"} /\ epoch' \in Nat
      BY <2>1 DEF TypeOK, StoreOn, StoreJob, StoreEpoch
    <3>3. QED
      BY <2>1, <3>1, <3>2 DEF TypeOK, minerVars
  <2>3. Working'
    BY <2>1 DEF Working, minerVars
  <2>4. Fresh'
    BY <2>1 DEF Fresh, TypeOK, StoreOn, StoreJob, StoreEpoch, minerVars, NEVER
  <2>5. QED
    BY <2>2, <2>3, <2>4
<1>4. QED
  BY <1>1, <1>2, <1>3

\* The miner changes nothing the actor publishes.
LEMMA MinerKeeps ==
    ASSUME IInv, MinerNext
    PROVE  IInv'
<1> USE DEF IInv
<1>0. UNCHANGED <<shared, actorVars>>
  BY DEF MinerNext, MinerStep, ReadOn, ReadEpoch, TakeJob, MineChunk, CheckEpoch, SendMined
<1>1. CASE ReadOn
  BY <1>0, <1>1 DEF ReadOn, MinerStep, TypeOK, Working, Fresh, shared, actorVars
<1>2. CASE ReadEpoch
  <2>1. /\ miner = "epoch" /\ cur' = epoch /\ wait_new_epoch' \in {wait_new_epoch, FALSE}
        /\ miner' \in {"loop", "take", "mine"}
        /\ miner' = "mine" => local # NoHeader /\ local_epoch = cur'
        /\ UNCHANGED <<queue, local, local_epoch, last_found, sent>>
    BY <1>2 DEF ReadEpoch, MinerStep
  <2>2. TypeOK'
    <3>1. wait_new_epoch' \in BOOLEAN /\ cur' \in Nat
      BY <2>1 DEF TypeOK
    <3>2. QED
      BY <1>0, <2>1, <3>1 DEF TypeOK, shared, actorVars
  <2>3. Working' /\ Fresh'
    BY <1>0, <2>1 DEF TypeOK, Working, Fresh, shared, actorVars
  <2>4. QED
    BY <2>2, <2>3
<1>3. CASE TakeJob
  <2> DEFINE taken == [job |-> job, nonce |-> 0]
  <2>1. /\ miner = "take" /\ local_epoch' = cur /\ local' \in {NoHeader, taken}
        /\ wait_new_epoch' \in BOOLEAN
        /\ miner' = IF local' = NoHeader THEN "loop" ELSE "mine"
        /\ UNCHANGED <<queue, cur, last_found, sent>>
    BY <1>3 DEF TakeJob, MinerStep, TypeOK
  <2>2. taken \in Header \cup {NoHeader} /\ taken.job = job
    BY JobsAssumption DEF TypeOK, Header, NoHeader, NoJob, Jobs, Nonces
  <2> HIDE DEF taken
  <2>3. QED
    BY <1>0, <2>1, <2>2 DEF TypeOK, Working, Fresh, shared, actorVars
<1>4. CASE MineChunk
  <2>1. miner = "mine" /\ local \in Header
    BY <1>4 DEF MineChunk, MinerStep, Working, TypeOK
  <2>2. /\ miner' \in {"check", "loop"} /\ UNCHANGED <<queue, cur, local_epoch, wait_new_epoch, last_found, sent>>
        /\ local' = local \/ local' = [local EXCEPT !.nonce = (@ + 1) % (MaxNonce + 1)]
    BY <1>4 DEF MineChunk
  <2>3. local' \in Header /\ local'.job = local.job
    <3>1. \A n \in Nonces : (n + 1) % (MaxNonce + 1) \in Nonces
      BY JobsAssumption DEF Nonces
    <3>2. QED
      BY <2>1, <2>2, <3>1 DEF Header
  <2>4. local # NoHeader /\ local' # NoHeader
    BY <2>1, <2>3, WinningJob
  <2>5. QED
    BY <1>0, <2>1, <2>2, <2>3, <2>4 DEF TypeOK, Working, Fresh, shared, actorVars
<1>5. CASE CheckEpoch
  BY <1>0, <1>5 DEF CheckEpoch, MinerStep, TypeOK, Working, Fresh, shared, actorVars
<1>6. CASE SendMined
  <2>1. miner = "send" /\ local \in Header /\ local_epoch \in Nat
    BY <1>6 DEF SendMined, MinerStep, Working, TypeOK
  <2>2. /\ queue' = Append(queue, local.job)
        /\ sent' = Append(sent, [job |-> local.job, epoch |-> local_epoch])
        /\ miner' = "loop" /\ local' = NoHeader /\ wait_new_epoch' = TRUE
        /\ UNCHANGED <<cur, local_epoch, last_found>>
    BY <1>6 DEF SendMined
  <2>3. queue' \in Seq(Jobs) /\ sent' \in Seq([job : Jobs, epoch : Nat])
    BY <2>1, <2>2, WinningJob DEF TypeOK
  <2>4. QED
    BY <1>0, <2>1, <2>2, <2>3 DEF TypeOK, Working, Fresh, shared, actorVars
<1>7. QED
  BY <1>1, <1>2, <1>3, <1>4, <1>5, <1>6 DEF MinerNext

\* Every step of either thread keeps the invariant.
LEMMA StepIInv == IInv /\ [Next]_vars => IInv'
<1> SUFFICES ASSUME IInv, [Next]_vars PROVE IInv'
  OBVIOUS
<1>1. CASE UNCHANGED vars
  BY <1>1 DEF IInv, TypeOK, Working, Fresh, vars, shared, actorVars, minerVars
<1>2. QED
  BY <1>1, ActorStep, MinerKeeps DEF Next

\* Every step of either thread keeps the invariant.
THEOREM InvCorrect == Spec => []IInv
<1>1. QED
  BY InitIInv, StepIInv, PTL DEF Spec

\* The flag, the job, the epoch, the channel and the miner's variables are well
\* formed whatever the interleaving (MiningShared, miner_loop).
THEOREM TypeCorrect == Spec => []TypeOK
<1>1. QED
  BY InvCorrect, PTL DEF IInv

\* miner_loop sends a block only for the job that is published, unless the actor
\* has stored a new job and is about to store its epoch.
THEOREM FreshCorrect == Spec => FoundIsFresh
<1>1. IInv /\ [Next]_vars => [last_found' # last_found => local.job = job \/ actor = "epoch"]_vars
  <2> SUFFICES ASSUME IInv, Next, last_found' # last_found
               PROVE  local.job = job \/ actor = "epoch"
    OBVIOUS
  <2>1. CheckEpoch
    BY DEF Next, OnMined, OtherRefresh, Publish, MinerNext, ReadOn, ReadEpoch, TakeJob, MineChunk,
           SendMined, minerVars
  <2>2. miner = "check" /\ epoch = local_epoch
    BY <2>1 DEF CheckEpoch, MinerStep
  <2>3. QED
    BY <2>2 DEF IInv, Working, Fresh
<1>2. QED
  BY <1>1, InvCorrect, PTL DEF Spec, FoundIsFresh
==========================================================================
