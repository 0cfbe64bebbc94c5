----------------------------- MODULE NodeProofs -----------------------------
(***************************************************************************)
(* Theorems about Node for every universe of blocks, every list of what    *)
(* users sign and peers mine, every cap and every set of faults.           *)
(***************************************************************************)
EXTENDS Node, NatSetInduction, SequenceTheorems

----------------------------------------------------------------------------
(* The ledger.                                                             *)

Result == [ok : BOOLEAN, state : Ledger]

\* What apply_tx leaves is a ledger, accepted or not; the nonces only grow, and
\* an accepted transaction spends its own.
LEMMA ApplyTxFacts ==
    ASSUME NEW st \in Ledger, NEW tx \in Txs
    PROVE  LET result == ApplyTx(st, tx)
           IN /\ result \in Result
              /\ \A a \in Accounts : st.nonces[a] <= result.state.nonces[a]
              /\ result.ok => /\ tx.from \in Accounts /\ tx.nonce \in Nat
                              /\ tx.nonce < result.state.nonces[tx.from]
<1>1. /\ tx.from \in Accounts /\ tx.nonce \in Nat /\ tx.buys \in Items \cup {NoItem}
  BY NodeAssumption DEF Transaction
<1>2. st = [nonces |-> st.nonces, taken |-> st.taken]
      /\ st.nonces \in [Accounts -> Nat] /\ st.taken \in SUBSET Items
  BY DEF Ledger
<1> DEFINE spent == [st EXCEPT !.nonces[tx.from] = @ + 1]
           bought == [spent EXCEPT !.taken = @ \cup ({tx.buys} \ {NoItem})]
<1>3. /\ spent = [nonces |-> [st.nonces EXCEPT ![tx.from] = @ + 1], taken |-> st.taken]
      /\ spent.nonces = [st.nonces EXCEPT ![tx.from] = @ + 1] /\ spent.taken = st.taken
  BY <1>1, <1>2
<1>4. /\ spent.nonces \in [Accounts -> Nat]
      /\ spent.nonces[tx.from] = st.nonces[tx.from] + 1
      /\ \A a \in Accounts : st.nonces[a] <= spent.nonces[a]
  BY <1>1, <1>2, <1>3
<1>5. spent \in Ledger
  BY <1>2, <1>3, <1>4 DEF Ledger
<1> HIDE DEF spent
<1>6. bought.nonces = spent.nonces /\ bought \in Ledger
  <2>1. bought = [nonces |-> spent.nonces, taken |-> spent.taken \cup ({tx.buys} \ {NoItem})]
    BY <1>3
  <2>2. spent.taken \cup ({tx.buys} \ {NoItem}) \in SUBSET Items
    BY <1>1, <1>2, <1>3
  <2>3. QED
    BY <1>4, <2>1, <2>2 DEF Ledger
<1> HIDE DEF bought
<1>7. CASE tx.nonce # st.nonces[tx.from]
  <2>1. ApplyTx(st, tx) = [ok |-> FALSE, state |-> st]
    BY <1>7 DEF ApplyTx
  <2>2. QED
    BY <1>2, <2>1 DEF Result
<1>8. CASE tx.nonce = st.nonces[tx.from] /\ tx.buys \in st.taken
  <2>1. ApplyTx(st, tx) = [ok |-> FALSE, state |-> spent]
    BY <1>8 DEF ApplyTx, spent
  <2>2. QED
    BY <1>4, <1>5, <2>1 DEF Result
<1>9. CASE tx.nonce = st.nonces[tx.from] /\ tx.buys \notin st.taken
  <2>1. ApplyTx(st, tx) = [ok |-> TRUE, state |-> bought]
    BY <1>9 DEF ApplyTx, spent, bought
  <2>2. bought.nonces[tx.from] = tx.nonce + 1
    BY <1>4, <1>6, <1>9
  <2>3. QED
    BY <1>1, <1>4, <1>6, <2>1, <2>2 DEF Result
<1>10. QED
  BY <1>7, <1>8, <1>9

\* apply_tx_sin_rastro accepts what apply_tx accepts, and a rejection leaves the
\* ledger exactly as it was.
LEMMA SinRastro ==
    ASSUME NEW st \in Ledger, NEW tx \in Txs
    PROVE  LET result == ApplyTxSinRastro(st, tx)
           IN /\ result \in Result
              /\ result.ok => result = ApplyTx(st, tx)
              /\ ~ result.ok => result.state = st
<1> DEFINE tried == ApplyTx(st, tx)
<1>1. tried \in Result
  BY ApplyTxFacts
<1>2. CASE tried.ok
  <2>1. ApplyTxSinRastro(st, tx) = tried
    BY <1>2 DEF ApplyTxSinRastro
  <2>2. QED
    BY <1>1, <1>2, <2>1
<1>3. CASE ~ tried.ok
  <2> DEFINE result == ApplyTxSinRastro(st, tx)
  <2>1. result = [tried EXCEPT !.state.nonces[tx.from] = st.nonces[tx.from]]
    BY <1>3 DEF ApplyTxSinRastro
  <2>2. /\ tx.from \in Accounts
        /\ st = [nonces |-> st.nonces, taken |-> st.taken]
        /\ st.nonces \in [Accounts -> Nat]
    BY NodeAssumption DEF Transaction, Ledger
  <2> DEFINE spent == [st EXCEPT !.nonces[tx.from] = @ + 1]
  <2>3. spent = [nonces |-> [st.nonces EXCEPT ![tx.from] = @ + 1], taken |-> st.taken]
    BY <2>2
  <2>4. tried = [ok |-> FALSE, state |-> st] \/ tried = [ok |-> FALSE, state |-> spent]
    BY <1>3 DEF ApplyTx
  <2> HIDE DEF spent, tried
  <2>5. /\ result.ok = FALSE
        /\ result.state = [nonces |-> [tried.state.nonces EXCEPT ![tx.from] = st.nonces[tx.from]],
                           taken |-> st.taken]
    BY <2>1, <2>2, <2>3, <2>4
  <2>6. [tried.state.nonces EXCEPT ![tx.from] = st.nonces[tx.from]] = st.nonces
    BY <2>2, <2>3, <2>4
  <2>7. result = [ok |-> FALSE, state |-> st]
    BY <2>1, <2>2, <2>3, <2>4, <2>5, <2>6
  <2>8. QED
    BY <2>7 DEF Result
<1>4. QED
  BY <1>2, <1>3

\* f does the transactions of txs one after the other from st.
IsApplied(f, st, txs) ==
    /\ f \in [0..Len(txs) -> Result]
    /\ f[0] = [ok |-> TRUE, state |-> st]
    /\ \A i \in 1..Len(txs) : f[i] = ApplyNext(f[i - 1], txs[i])

\* One transaction of a block leaves a result.
LEMMA ApplyNextType ==
    ASSUME NEW acc \in Result, NEW tx \in Txs
    PROVE  ApplyNext(acc, tx) \in Result
BY ApplyTxFacts DEF ApplyNext, Result

\* apply_block_con is that loop.
LEMMA ApplyTxsIs ==
    ASSUME NEW st \in Ledger, NEW txs \in Seq(Txs)
    PROVE  \E f : IsApplied(f, st, txs) /\ ApplyTxs(st, txs) = f[Len(txs)]
<1> DEFINE n == Len(txs)
           a == [ok |-> TRUE, state |-> st]
           Body(f) == [i \in 0..n |-> IF i = 0 THEN a ELSE ApplyNext(f[i - 1], txs[i])]
           step == [i \in 1..n |-> [x \in Result |-> ApplyNext(x, txs[i])]]
           F == CHOOSE f : f = Body(f)
<1>1. n \in Nat /\ a \in Result /\ \A i \in 1..n : txs[i] \in Txs
  BY DEF Result
<1>2. ApplyTxs(st, txs) = F[n]
  BY DEF ApplyTxs
<1>3. step \in [1..n -> [Result -> Result]] /\ \A i \in 1..n, x \in Result : step[i][x] = ApplyNext(x, txs[i])
  BY <1>1, ApplyNextType
<1> HIDE DEF n, a, step
<1>4. PICK f : IsRecursion(f, n, Result, a, step)
  BY <1>1, <1>3, RecursionOverNat
<1>5. /\ f \in [0..n -> Result] /\ f[0] = a
      /\ \A i \in 1..n : i - 1 \in 0..n /\ f[i] = step[i][f[i - 1]]
  BY <1>1, <1>4 DEF IsRecursion
<1>6. \A i \in 1..n : f[i] = ApplyNext(f[i - 1], txs[i])
  BY <1>3, <1>5
<1>7. f = Body(f)
  BY <1>1, <1>5, <1>6
<1>8. F = Body(F)
  <2> HIDE DEF Body
  <2>1. QED
    BY <1>7
<1> HIDE DEF F
<1>9. GoAlike(F, f, n)
  <2>1. \A i \in 0..n : F[i] = IF i = 0 THEN a ELSE ApplyNext(F[i - 1], txs[i])
    BY <1>8
  <2>2. 0 \in 0..n /\ \A i \in 1..n : i \in 0..n /\ i # 0
    BY <1>1
  <2>3. QED
    BY <1>5, <1>6, <2>1, <2>2 DEF GoAlike
<1>10. \A i \in 0..n : F[i] = f[i]
  BY <1>1, <1>9, SameRecursion
<1>11. F[n] = f[n]
  BY <1>1, <1>10
<1>12. IsApplied(f, st, txs)
  BY <1>5, <1>6 DEF IsApplied, n, a
<1>13. QED
  BY <1>2, <1>11, <1>12 DEF n

\* The result of a block is a result, and a block without transactions leaves
\* the ledger alone.
LEMMA ApplyTxsType ==
    ASSUME NEW st \in Ledger, NEW txs \in Seq(Txs)
    PROVE  /\ ApplyTxs(st, txs) \in Result
           /\ txs = <<>> => ApplyTxs(st, txs) = [ok |-> TRUE, state |-> st]
<1>1. PICK f : IsApplied(f, st, txs) /\ ApplyTxs(st, txs) = f[Len(txs)]
  BY ApplyTxsIs
<1>2. QED
  BY <1>1 DEF IsApplied

\* A longer block is the shorter one and one transaction more.
LEMMA ApplyTxsAppend ==
    ASSUME NEW st \in Ledger, NEW txs \in Seq(Txs), NEW tx \in Txs
    PROVE  ApplyTxs(st, Append(txs, tx)) = ApplyNext(ApplyTxs(st, txs), tx)
<1> DEFINE n == Len(txs)
           more == Append(txs, tx)
<1>1. /\ more \in Seq(Txs) /\ Len(more) = n + 1 /\ more[n + 1] = tx /\ n \in Nat
      /\ \A i \in 1..n : more[i] = txs[i]
  BY AppendProperties
<1> HIDE DEF more
<1>2. PICK f : IsApplied(f, st, txs) /\ ApplyTxs(st, txs) = f[n]
  BY ApplyTxsIs
<1>3. PICK g : IsApplied(g, st, more) /\ ApplyTxs(st, more) = g[n + 1]
  BY <1>1, ApplyTxsIs
<1> HIDE DEF n
<1>4. GoAlike(f, g, n)
  <2>1. \A i \in 1..n : i \in 1..(n + 1)
    BY <1>1
  <2>2. QED
    BY <1>1, <1>2, <1>3, <2>1 DEF IsApplied, n, GoAlike
<1>5. \A i \in 0..n : f[i] = g[i]
  <2>1. n \in Nat
    BY <1>1
  <2>2. QED
    BY <1>4, <2>1, SameRecursion
<1>6. f[n] = g[n] /\ n + 1 \in 1..(n + 1) /\ (n + 1) - 1 = n
  BY <1>1, <1>5
<1>7. g[n + 1] = ApplyNext(g[n], tx)
  BY <1>1, <1>3, <1>6 DEF IsApplied
<1>8. QED
  BY <1>2, <1>3, <1>6, <1>7 DEF more

\* A block that applies spends the nonce of every transaction it carries.
LEMMA ApplyTxsSpends ==
    ASSUME NEW st \in Ledger, NEW txs \in Seq(Txs), ApplyTxs(st, txs).ok,
           NEW tx \in ToSet(txs)
    PROVE  tx \in Txs /\ tx.nonce < ApplyTxs(st, txs).state.nonces[tx.from]
<1> DEFINE n == Len(txs)
<1>1. PICK f : IsApplied(f, st, txs) /\ ApplyTxs(st, txs) = f[n]
  BY ApplyTxsIs
<1>2. n \in Nat /\ \A i \in 1..n : txs[i] \in Txs
  OBVIOUS
<1>3. PICK j \in 1..n : tx = txs[j]
  BY DEF ToSet
<1> HIDE DEF n
<1>4. /\ f \in [0..n -> Result]
      /\ \A i \in 1..n : f[i] = ApplyNext(f[i - 1], txs[i])
  BY <1>1 DEF IsApplied, n
<1> DEFINE Spent(i) == f[i].ok /\ j <= i => tx.nonce < f[i].state.nonces[tx.from]
           S == {i \in Nat : i <= n => Spent(i)}
<1>5. 0 \in S
  BY <1>2
<1>6. ASSUME NEW i \in Nat, i \in S PROVE i + 1 \in S
  <2>1. SUFFICES ASSUME i + 1 <= n, f[i + 1].ok, j <= i + 1
                 PROVE  tx.nonce < f[i + 1].state.nonces[tx.from]
    OBVIOUS
  <2>2. i + 1 \in 1..n /\ (i + 1) - 1 = i /\ i \in 0..n /\ Spent(i)
    BY <1>2, <1>6, <2>1
  <2>3. f[i + 1] = ApplyNext(f[i], txs[i + 1])
    BY <1>4, <2>2
  <2>4. f[i].ok /\ f[i + 1] = ApplyTx(f[i].state, txs[i + 1])
    BY <2>1, <2>3 DEF ApplyNext
  <2>5. f[i].state \in Ledger /\ txs[i + 1] \in Txs
    BY <1>2, <1>4, <2>2 DEF Result
  <2>6. /\ \A a \in Accounts : f[i].state.nonces[a] <= f[i + 1].state.nonces[a]
        /\ txs[i + 1].nonce < f[i + 1].state.nonces[txs[i + 1].from]
        /\ f[i + 1] \in Result
    BY <2>1, <2>4, <2>5, ApplyTxFacts
  <2>7. CASE j = i + 1
    BY <1>3, <2>6, <2>7
  <2>8. CASE j # i + 1
    <3>1. tx \in Txs /\ tx.from \in Accounts /\ tx.nonce \in Nat
      BY <1>2, <1>3, NodeAssumption DEF Transaction
    <3>2. tx.nonce < f[i].state.nonces[tx.from]
      BY <1>3, <2>1, <2>2, <2>4, <2>8
    <3>3. f[i].state.nonces[tx.from] \in Nat /\ f[i + 1].state.nonces[tx.from] \in Nat
      BY <2>5, <2>6, <3>1 DEF Ledger, Result
    <3>4. QED
      BY <2>6, <3>1, <3>2, <3>3
  <2>9. QED
    BY <2>7, <2>8
<1>7. Nat \subseteq S
  <2> HIDE DEF S
  <2>1. QED
    BY <1>5, <1>6, InductionOverNat
<1>8. Spent(n)
  BY <1>2, <1>7
<1>9. QED
  BY <1>1, <1>2, <1>3, <1>8

----------------------------------------------------------------------------
(* Trees.                                                                  *)

TreeNode == [block : Block, v2 : BOOLEAN, after : Ledger]

\* The genesis is there, and there is a bound on the heights.
Trees ==
    {t \in UNION {[D -> TreeNode] : D \in SUBSET Hashes} :
        /\ GENESIS \in DOMAIN t
        /\ \E n \in Nat : \A h \in DOMAIN t : t[h].block.height <= n}

\* s is t without some of its blocks.
Part(s, t) == DOMAIN s \subseteq DOMAIN t /\ \A h \in DOMAIN s : s[h] = t[h]

\* A node of a tree and its block.
LEMMA TreeFacts ==
    ASSUME NEW t \in Trees
    PROVE  /\ GENESIS \in DOMAIN t /\ DOMAIN t \subseteq Hashes /\ DOMAIN t \subseteq Nat
           /\ \A h \in DOMAIN t : /\ t[h] \in TreeNode /\ t[h].block \in Block
                                 /\ t[h].v2 \in BOOLEAN /\ t[h].after \in Ledger
                                 /\ t[h].block.height \in Nat
<1>1. GENESIS \in DOMAIN t /\ DOMAIN t \subseteq Hashes /\ t \in [DOMAIN t -> TreeNode]
  BY DEF Trees
<1>2. \A h \in DOMAIN t : t[h] \in TreeNode
  BY <1>1
<1>3. \A n \in TreeNode : n.block \in Block /\ n.v2 \in BOOLEAN /\ n.after \in Ledger
  BY DEF TreeNode
<1>4. \A b \in Block : b.height \in Nat
  BY DEF Block
<1>5. QED
  BY <1>1, <1>2, <1>3, <1>4, NodeAssumption

\* head is a block of the tree: some height is the greatest, and some hash of
\* that height is the lowest.
LEMMA HeadInTree ==
    ASSUME NEW t \in Trees
    PROVE  HeadOf(t) \in DOMAIN t
<1> DEFINE Heights == {t[h].block.height : h \in DOMAIN t}
<1>1. /\ GENESIS \in DOMAIN t /\ DOMAIN t \subseteq Nat
      /\ \A h \in DOMAIN t : t[h].block.height \in Nat
  BY TreeFacts
<1>2. PICK n \in Nat : \A h \in DOMAIN t : t[h].block.height <= n
  BY DEF Trees
<1>3. Heights \subseteq Nat /\ Heights # {} /\ \A x \in Heights : x <= n
  BY <1>1, <1>2
<1>4. PICK top \in Heights : \A x \in Heights : x <= top
  <2> HIDE DEF Heights
  <2>1. QED
    BY <1>3, GreatestOfNaturals
<1> DEFINE Best == {h \in DOMAIN t : t[h].block.height = top}
<1>5. Best \subseteq Nat /\ Best # {}
  BY <1>1
<1>6. PICK h \in Best : \A g \in Best : h <= g
  <2> HIDE DEF Best
  <2>1. QED
    BY <1>5, LeastOfNaturals
<1>7. \A g \in DOMAIN t :
          \/ t[g].block.height < t[h].block.height
          \/ t[g].block.height = t[h].block.height /\ h <= g
  <2>1. TAKE g \in DOMAIN t
  <2>2. t[g].block.height <= top /\ t[g].block.height \in Nat /\ top \in Nat
    BY <1>1, <1>4
  <2>3. QED
    BY <1>6, <2>2
<1>8. QED
  BY <1>6, <1>7 DEF HeadOf

\* insert adds the block to the tree and leaves the rest as it was.
LEMMA InsertedFacts ==
    ASSUME NEW t \in Trees, NEW b \in Block, Admits(t, b)
    PROVE  /\ Inserted(t, b) \in Trees
           /\ DOMAIN Inserted(t, b) = DOMAIN t \cup {b.hash}
           /\ Part(t, Inserted(t, b))
           /\ Inserted(t, b)[b.hash]
                 = [block |-> b, v2 |-> RuleOn(t, b.prev, b.late),
                    after |-> ApplyTxs(t[b.prev].after, b.txs).state]
<1> DEFINE u == Inserted(t, b)
           n == [block |-> b, v2 |-> RuleOn(t, b.prev, b.late),
                 after |-> ApplyTxs(t[b.prev].after, b.txs).state]
<1>1. b.hash \notin DOMAIN t /\ b.prev \in DOMAIN t
  BY DEF Admits
<1>2. b.hash \in Hashes /\ b.txs \in Seq(Txs) /\ b.late \in BOOLEAN /\ b.height \in Nat
  BY DEF Block
<1>3. /\ GENESIS \in DOMAIN t /\ DOMAIN t \subseteq Hashes
      /\ \A h \in DOMAIN t : t[h] \in TreeNode
      /\ t[b.prev].after \in Ledger
      /\ \A h \in DOMAIN t : t[h].block.height \in Nat
  BY <1>1, TreeFacts
<1>4. ApplyTxs(t[b.prev].after, b.txs).state \in Ledger
  BY <1>2, <1>3, ApplyTxsType DEF Result
<1>5. RuleOn(t, b.prev, b.late) \in BOOLEAN
  BY DEF RuleOn
<1>6. n \in TreeNode /\ n.block = b
  BY <1>4, <1>5 DEF TreeNode
<1> HIDE DEF n
<1>7. u = [h \in DOMAIN t \cup {b.hash} |-> IF h = b.hash THEN n ELSE t[h]]
  BY DEF Inserted, n
<1> HIDE DEF u
<1>8. /\ DOMAIN u = DOMAIN t \cup {b.hash} /\ u[b.hash] = n
      /\ \A h \in DOMAIN t : u[h] = t[h]
  BY <1>1, <1>7
<1>9. u \in [DOMAIN u -> TreeNode] /\ DOMAIN u \in SUBSET Hashes /\ GENESIS \in DOMAIN u
  BY <1>2, <1>3, <1>6, <1>7, <1>8
<1>10. \E m \in Nat : \A h \in DOMAIN u : u[h].block.height <= m
  <2>1. PICK k \in Nat : \A h \in DOMAIN t : t[h].block.height <= k
    BY DEF Trees
  <2>2. \A h \in DOMAIN u : u[h].block.height <= k + b.height
    <3>1. TAKE h \in DOMAIN u
    <3>2. CASE h = b.hash
      BY <1>2, <1>6, <1>8, <2>1, <3>2
    <3>3. CASE h \in DOMAIN t
      <4>1. t[h].block.height \in Nat /\ t[h].block.height <= k /\ u[h] = t[h]
        BY <1>3, <1>8, <2>1, <3>3
      <4>2. QED
        BY <1>2, <2>1, <4>1
    <3>4. QED
      BY <1>8, <3>2, <3>3
  <2>3. k + b.height \in Nat
    BY <1>2
  <2>4. QED
    BY <2>2, <2>3
<1>11. u \in Trees
  BY <1>9, <1>10 DEF Trees
<1>12. QED
  BY <1>8, <1>11 DEF u, n, Part

\* The tree a node starts from.
LEMMA NewTreeFacts == NewTree \in Trees /\ DOMAIN NewTree = {GENESIS}
<1> DEFINE g == [block |-> Genesis, v2 |-> FALSE, after |-> EmptyLedger]
<1>1. Genesis \in Block /\ Genesis.height = 0
  BY NodeAssumption DEF Genesis, Block
<1>2. EmptyLedger \in Ledger
  BY DEF EmptyLedger, Ledger
<1>3. g \in TreeNode /\ g.block = Genesis
  BY <1>1, <1>2 DEF TreeNode
<1> HIDE DEF g
<1>4. NewTree = [h \in {GENESIS} |-> g]
  BY DEF NewTree, g
<1>5. NewTree \in [{GENESIS} -> TreeNode] /\ {GENESIS} \in SUBSET Hashes
  BY <1>3, <1>4, NodeAssumption
<1>6. \A h \in DOMAIN NewTree : NewTree[h].block.height <= 0
  BY <1>1, <1>3, <1>4
<1>7. QED
  BY <1>4, <1>5, <1>6 DEF Trees

\* A line of chain.jsonl read again leaves a tree with what was there.
LEMMA ReadmitFacts ==
    ASSUME NEW t \in Trees, NEW line \in Block \cup {JUNK}
    PROVE  Readmit(t, line) \in Trees /\ Part(t, Readmit(t, line))
<1>1. CASE line # JUNK /\ Admits(t, line)
  BY <1>1, InsertedFacts DEF Readmit
<1>2. CASE ~ (line # JUNK /\ Admits(t, line))
  BY <1>2 DEF Readmit, Part
<1>3. QED
  BY <1>1, <1>2

\* A block the node admitted, read again into a part of its tree, gives a
\* part of the tree after it.
LEMMA ReadmitPart ==
    ASSUME NEW s \in Trees, NEW t \in Trees, Part(s, t),
           NEW b \in Block, Admits(t, b)
    PROVE  Part(Readmit(s, b), Inserted(t, b))
<1>1. Part(t, Inserted(t, b)) /\ DOMAIN Inserted(t, b) = DOMAIN t \cup {b.hash}
  BY InsertedFacts
<1>2. CASE b # JUNK /\ Admits(s, b)
  <2>1. Readmit(s, b) = Inserted(s, b)
    BY <1>2 DEF Readmit
  <2>2. s[b.prev] = t[b.prev]
    BY <1>2 DEF Admits, Part
  <2>3. Inserted(s, b)[b.hash] = Inserted(t, b)[b.hash]
    <3>1. Inserted(s, b)[b.hash] = [block |-> b, v2 |-> RuleOn(s, b.prev, b.late),
                                    after |-> ApplyTxs(s[b.prev].after, b.txs).state]
      BY <1>2, InsertedFacts
    <3>2. Inserted(t, b)[b.hash] = [block |-> b, v2 |-> RuleOn(t, b.prev, b.late),
                                    after |-> ApplyTxs(t[b.prev].after, b.txs).state]
      BY InsertedFacts
    <3>3. RuleOn(s, b.prev, b.late) = RuleOn(t, b.prev, b.late)
      BY <2>2 DEF RuleOn
    <3>4. QED
      BY <2>2, <3>1, <3>2, <3>3
  <2>4. DOMAIN Inserted(s, b) = DOMAIN s \cup {b.hash} /\ Part(s, Inserted(s, b))
    BY <1>2, InsertedFacts
  <2>5. QED
    BY <1>1, <2>1, <2>3, <2>4 DEF Part
<1>3. CASE ~ (b # JUNK /\ Admits(s, b))
  BY <1>1, <1>3 DEF Readmit, Part
<1>4. QED
  BY <1>2, <1>3

----------------------------------------------------------------------------
(* Files.                                                                  *)

File(S) == [lines : Seq(S \cup {JUNK}), whole : BOOLEAN]

\* f reads the lines one after the other, from the genesis on.
IsLoaded(f, lines) ==
    /\ f \in [0..Len(lines) -> Trees]
    /\ \A i \in 0..Len(lines) : f[i] = IF i <= 1 THEN NewTree ELSE Readmit(f[i - 1], lines[i])

\* load_tree is that loop.
LEMMA LoadTreeIs ==
    ASSUME NEW file \in File(Block)
    PROVE  \E f : IsLoaded(f, file.lines) /\ LoadTree(file) = f[Len(file.lines)]
<1> DEFINE lines == file.lines
           n == Len(lines)
           Body(f) == [i \in 0..n |-> IF i <= 1 THEN NewTree ELSE Readmit(f[i - 1], lines[i])]
           Step(i, x) == IF i <= 1 THEN NewTree ELSE Readmit(x, lines[i])
           step == [i \in 1..n |-> [x \in Trees |-> Step(i, x)]]
           F == CHOOSE f : f = Body(f)
<1>1. lines \in Seq(Block \cup {JUNK}) /\ n \in Nat /\ NewTree \in Trees
  BY NewTreeFacts DEF File
<1>2. LoadTree(file) = F[n]
  BY DEF LoadTree
<1>3. \A i \in 1..n : lines[i] \in Block \cup {JUNK}
  BY <1>1
<1>4. \A i \in 1..n, x \in Trees : Step(i, x) \in Trees
  BY <1>1, <1>3, ReadmitFacts
<1>5. \A i \in 1..n, x \in Trees : step[i][x] = Step(i, x)
  OBVIOUS
<1>6. step \in [1..n -> [Trees -> Trees]]
  <2> HIDE DEF Step
  <2>1. QED
    BY <1>4
<1> HIDE DEF lines, n, step
<1>7. PICK f : IsRecursion(f, n, Trees, NewTree, step)
  BY <1>1, <1>6, RecursionOverNat
<1>8. /\ f \in [0..n -> Trees] /\ f[0] = NewTree
      /\ \A i \in 1..n : i - 1 \in 0..n /\ f[i] = step[i][f[i - 1]]
  BY <1>1, <1>7 DEF IsRecursion
<1>9. \A i \in 1..n : f[i] = Step(i, f[i - 1])
  BY <1>5, <1>8
<1>10. \A i \in 0..n : f[i] = IF i <= 1 THEN NewTree ELSE Readmit(f[i - 1], lines[i])
  <2>1. \A i \in 0..n : i = 0 \/ i \in 1..n
    BY <1>1
  <2>2. QED
    BY <1>8, <1>9, <2>1
<1>11. f = Body(f)
  <2>1. f = [i \in 0..n |-> f[i]]
    BY <1>8
  <2>2. QED
    BY <1>10, <2>1
<1>12. F = Body(F)
  <2> HIDE DEF Body
  <2>1. QED
    BY <1>11
<1> HIDE DEF F
<1>13. GoAlike(F, f, n)
  <2>1. \A i \in 0..n : F[i] = IF i <= 1 THEN NewTree ELSE Readmit(F[i - 1], lines[i])
    BY <1>12
  <2>2. 0 \in 0..n /\ \A i \in 1..n : i \in 0..n
    BY <1>1
  <2>3. QED
    BY <1>8, <1>10, <2>1, <2>2 DEF GoAlike
<1>14. \A i \in 0..n : F[i] = f[i]
  <2>1. n \in Nat
    BY <1>1
  <2>2. QED
    BY <1>13, <2>1, SameRecursion
<1>15. F[n] = f[n]
  BY <1>1, <1>14
<1>16. IsLoaded(f, lines)
  BY <1>8, <1>10 DEF IsLoaded, n
<1>17. QED
  BY <1>2, <1>15, <1>16 DEF lines, n

\* What is read from a file is a tree.
LEMMA LoadTreeType ==
    ASSUME NEW file \in File(Block)
    PROVE  LoadTree(file) \in Trees
<1>1. PICK f : IsLoaded(f, file.lines) /\ LoadTree(file) = f[Len(file.lines)]
  BY LoadTreeIs
<1>2. Len(file.lines) \in Nat
  BY DEF File
<1>3. QED
  BY <1>1, <1>2 DEF IsLoaded

\* One line more is one block more to read, unless it is the first.
LEMMA LoadTreeAppend ==
    ASSUME NEW file \in File(Block), NEW line \in Block \cup {JUNK},
           NEW longer \in File(Block), longer.lines = Append(file.lines, line)
    PROVE  LoadTree(longer) = IF file.lines = <<>> THEN NewTree
                              ELSE Readmit(LoadTree(file), line)
<1> DEFINE s == file.lines
           t == longer.lines
           n == Len(s)
<1>1. s \in Seq(Block \cup {JUNK}) /\ n \in Nat /\ (s = <<>> <=> n = 0)
  BY DEF File
<1>2. /\ Len(t) = n + 1 /\ t[n + 1] = line
      /\ \A i \in 1..n : t[i] = s[i]
  BY <1>1, AppendProperties
<1>3. PICK f : IsLoaded(f, s) /\ LoadTree(file) = f[n]
  BY LoadTreeIs
<1>4. PICK g : IsLoaded(g, t) /\ LoadTree(longer) = g[n + 1]
  BY <1>2, LoadTreeIs
<1> HIDE DEF s, t, n
<1>5. /\ \A i \in 0..n : f[i] = IF i <= 1 THEN NewTree ELSE Readmit(f[i - 1], s[i])
      /\ \A i \in 0..(n + 1) : g[i] = IF i <= 1 THEN NewTree ELSE Readmit(g[i - 1], t[i])
  BY <1>2, <1>3, <1>4 DEF IsLoaded, n
<1>6. GoAlike(f, g, n)
  <2>1. \A i \in 1..n : i \in 0..n /\ i \in 0..(n + 1)
    BY <1>1
  <2>2. 0 \in 0..n /\ 0 \in 0..(n + 1) /\ 0 <= 1
    BY <1>1
  <2>3. QED
    BY <1>2, <1>5, <2>1, <2>2 DEF GoAlike
<1>7. f[n] = g[n]
  <2>1. n \in Nat
    BY <1>1
  <2>2. \A i \in 0..n : f[i] = g[i]
    BY <1>6, <2>1, SameRecursion
  <2>3. QED
    BY <2>1, <2>2
<1>8. g[n + 1] = IF n = 0 THEN NewTree ELSE Readmit(g[n], line)
  <2>1. n + 1 \in 0..(n + 1) /\ (n + 1) - 1 = n /\ (n + 1 <= 1 <=> n = 0)
    BY <1>1
  <2>2. QED
    BY <1>2, <1>5, <2>1
<1>9. QED
  BY <1>1, <1>3, <1>4, <1>7, <1>8 DEF s

\* The last line replaced by one that does not parse gives no block: what is
\* read is a part of what was read before, all of it but the block of that line.
LEMMA LoadTreeSpoiled ==
    ASSUME NEW file \in File(Block), NEW spoiled \in File(Block),
           spoiled.lines = [file.lines EXCEPT ![Len(file.lines)] = JUNK]
    PROVE  /\ Part(LoadTree(spoiled), LoadTree(file))
           /\ \E last \in DOMAIN LoadTree(file) :
                  DOMAIN LoadTree(file) \subseteq DOMAIN LoadTree(spoiled) \cup {last}
<1> DEFINE s == file.lines
           t == spoiled.lines
           n == Len(s)
<1>1. s \in Seq(Block \cup {JUNK}) /\ n \in Nat
  BY DEF File
<1>2. Len(t) = n /\ \A i \in 1..n : t[i] = IF i = n THEN JUNK ELSE s[i]
  BY <1>1
<1>3. PICK f : IsLoaded(f, s) /\ LoadTree(file) = f[n]
  BY LoadTreeIs
<1>4. PICK g : IsLoaded(g, t) /\ LoadTree(spoiled) = g[n]
  BY <1>2, LoadTreeIs
<1>5. \A i \in 1..n : s[i] \in Block \cup {JUNK}
  BY <1>1
<1> HIDE DEF s, t, n
<1>6. /\ f \in [0..n -> Trees] /\ g \in [0..n -> Trees]
      /\ \A i \in 0..n : f[i] = IF i <= 1 THEN NewTree ELSE Readmit(f[i - 1], s[i])
      /\ \A i \in 0..n : g[i] = IF i <= 1 THEN NewTree ELSE Readmit(g[i - 1], t[i])
  BY <1>2, <1>3, <1>4 DEF IsLoaded, n
<1>7. CASE n <= 1
  <2>1. n \in 0..n
    BY <1>1
  <2>2. f[n] = g[n] /\ f[n] = NewTree
    BY <1>6, <1>7, <2>1
  <2>3. QED
    BY <1>3, <1>4, <2>2, NewTreeFacts DEF Part
<1>8. CASE ~ (n <= 1)
  <2>1. n - 1 \in Nat /\ n - 1 \in 0..n /\ n \in 0..n /\ n \in 1..n
    BY <1>1, <1>8
  <2>2. f[0] = g[0] /\ \A i \in 1..n : i # n /\ f[i - 1] = g[i - 1] => f[i] = g[i]
    <3>1. \A i \in 1..n : i \in 0..n
      BY <1>1
    <3>2. 0 \in 0..n /\ 0 <= 1
      BY <1>1
    <3>3. QED
      BY <1>2, <1>6, <3>1, <3>2
  <2>3. n \in Nat \ {0} /\ f[0] = g[0]
        /\ \A i \in 1..n : i # n /\ f[i - 1] = g[i - 1] => f[i] = g[i]
    BY <1>1, <1>8, <2>2
  <2>4. f[n - 1] = g[n - 1]
    BY <2>3, SameButLast
  <2>5. g[n] = g[n - 1]
    BY <1>2, <1>6, <1>8, <2>1 DEF Readmit
  <2>6. f[n] = Readmit(f[n - 1], s[n]) /\ f[n - 1] \in Trees
    BY <1>6, <1>8, <2>1
  <2>7. Part(f[n - 1], f[n])
    BY <1>5, <2>1, <2>6, ReadmitFacts
  <2>8. \E last \in DOMAIN f[n] : DOMAIN f[n] \subseteq DOMAIN f[n - 1] \cup {last}
    <3>1. CASE s[n] # JUNK /\ Admits(f[n - 1], s[n])
      <4>1. s[n] \in Block /\ f[n] = Inserted(f[n - 1], s[n])
        BY <1>5, <2>1, <2>6, <3>1 DEF Readmit
      <4>2. DOMAIN f[n] = DOMAIN f[n - 1] \cup {s[n].hash}
        BY <2>6, <3>1, <4>1, InsertedFacts
      <4>3. QED
        BY <4>2
    <3>2. CASE ~ (s[n] # JUNK /\ Admits(f[n - 1], s[n]))
      <4>1. f[n] = f[n - 1]
        BY <2>6, <3>2 DEF Readmit
      <4>2. GENESIS \in DOMAIN f[n - 1]
        BY <2>6 DEF Trees
      <4>3. QED
        BY <4>1, <4>2
    <3>3. QED
      BY <3>1, <3>2
  <2>9. QED
    BY <1>3, <1>4, <2>4, <2>5, <2>7, <2>8
<1>9. QED
  BY <1>7, <1>8

\* A part of a part is a part.
LEMMA PartOfPart ==
    ASSUME NEW r, NEW s, NEW t, Part(r, s), Part(s, t)
    PROVE  Part(r, t)
BY DEF Part

\* A genesis alone is part of every tree read from a file.
LEMMA NewTreeIsPart ==
    ASSUME NEW file \in File(Block)
    PROVE  Part(NewTree, LoadTree(file))
<1> DEFINE n == Len(file.lines)
<1>1. PICK f : IsLoaded(f, file.lines) /\ LoadTree(file) = f[n]
  BY LoadTreeIs
<1>2. n \in Nat /\ \A i \in 1..n : file.lines[i] \in Block \cup {JUNK}
  <2>1. file.lines \in Seq(Block \cup {JUNK})
    BY DEF File
  <2>2. QED
    BY <2>1
<1> HIDE DEF n
<1>3. /\ f \in [0..n -> Trees]
      /\ \A i \in 0..n : f[i] = IF i <= 1 THEN NewTree ELSE Readmit(f[i - 1], file.lines[i])
  BY <1>1 DEF IsLoaded, n
<1> DEFINE S == {i \in Nat : i <= n => Part(NewTree, f[i])}
<1>4. 0 \in S
  <2>1. f[0] = NewTree
    BY <1>2, <1>3
  <2>2. QED
    BY <2>1 DEF Part
<1>5. ASSUME NEW i \in Nat, i \in S PROVE i + 1 \in S
  <2>1. SUFFICES ASSUME i + 1 <= n PROVE Part(NewTree, f[i + 1])
    OBVIOUS
  <2>2. i + 1 \in 0..n /\ i + 1 \in 1..n /\ (i + 1) - 1 = i /\ i \in 0..n /\ Part(NewTree, f[i])
    BY <1>2, <1>5, <2>1
  <2>3. f[i + 1] = NewTree \/ f[i + 1] = Readmit(f[i], file.lines[i + 1])
    BY <1>3, <2>2
  <2>4. Part(f[i], Readmit(f[i], file.lines[i + 1]))
    BY <1>2, <1>3, <2>2, ReadmitFacts
  <2>5. Part(NewTree, NewTree)
    BY DEF Part
  <2>6. QED
    BY <2>2, <2>3, <2>4, <2>5, PartOfPart
<1>6. Nat \subseteq S
  <2> HIDE DEF S
  <2>1. QED
    BY <1>4, <1>5, InductionOverNat
<1>7. Part(NewTree, f[n])
  BY <1>2, <1>6
<1>8. QED
  BY <1>1, <1>7

\* A completed write and an interrupted one leave a file of records.
LEMMA WriteTypes ==
    ASSUME NEW S, NEW file \in File(S), NEW record \in S
    PROVE  /\ AppendTo(file, record) \in File(S)
           /\ Interrupted(file, record) \subseteq File(S)
           /\ \A r \in WriteResults(file, record) : r.file \in File(S) /\ r.ok \in BOOLEAN
<1> DEFINE spoiled == [file.lines EXCEPT ![Len(file.lines)] = JUNK]
<1>1. file.lines \in Seq(S \cup {JUNK}) /\ file.whole \in BOOLEAN
  BY DEF File
<1>2. spoiled \in Seq(S \cup {JUNK})
  <2> DEFINE n == Len(file.lines)
             A == S \cup {JUNK}
  <2>1. file.lines \in [1..n -> A] /\ n \in Nat /\ JUNK \in A
    BY <1>1
  <2> HIDE DEF A
  <2>2. spoiled \in [1..n -> A]
    BY <2>1
  <2>3. [1..n -> A] \subseteq Seq(A)
    BY <2>1
  <2>4. QED
    BY <2>2, <2>3 DEF A
<1>3. \A text \in S \cup {JUNK} : Append(file.lines, text) \in Seq(S \cup {JUNK})
  BY <1>1
<1> HIDE DEF spoiled
<1>4. AppendTo(file, record) \in File(S)
  BY <1>2, <1>3 DEF AppendTo, File, spoiled
<1>5. ASSUME NEW f \in Interrupted(file, record) PROVE f \in File(S)
  <2>1. CASE f = file
    BY <2>1
  <2>2. ASSUME NEW text \in {JUNK, record},
               f = [lines |-> IF file.whole THEN Append(file.lines, text) ELSE spoiled,
                    whole |-> FALSE]
        PROVE  f \in File(S)
    BY <1>2, <1>3, <2>2 DEF File
  <2>3. QED
    BY <2>1, <2>2 DEF Interrupted, spoiled
<1>6. ASSUME NEW r \in WriteResults(file, record) PROVE r.file \in File(S) /\ r.ok \in BOOLEAN
  <2>1. CASE r = [file |-> AppendTo(file, record), ok |-> TRUE]
    BY <1>4, <2>1
  <2>2. CASE \E f \in Interrupted(file, record) : r = [file |-> f, ok |-> FALSE]
    <3>1. PICK f \in Interrupted(file, record) : r = [file |-> f, ok |-> FALSE]
      BY <2>2
    <3>2. f \in File(S)
      BY <1>5
    <3>3. QED
      BY <3>1, <3>2
  <2>3. QED
    BY <1>6, <2>1, <2>2 DEF WriteResults
<1>7. QED
  BY <1>4, <1>5, <1>6

\* However the write of an admitted block ends, what the file gives back
\* is part of the tree with the block.
LEMMA WriteKeepsPart ==
    ASSUME NEW file \in File(Block), NEW t \in Trees, Part(LoadTree(file), t),
           NEW b \in Block, Admits(t, b)
    PROVE  /\ Part(LoadTree(AppendTo(file, b)), Inserted(t, b))
           /\ \A f \in Interrupted(file, b) : Part(LoadTree(f), Inserted(t, b))
           /\ \A r \in WriteResults(file, b) : Part(LoadTree(r.file), Inserted(t, b))
<1>1. Part(t, Inserted(t, b)) /\ LoadTree(file) \in Trees
  BY InsertedFacts, LoadTreeType
<1>2. Part(LoadTree(file), Inserted(t, b))
  BY <1>1, PartOfPart
<1>3. Part(NewTree, Inserted(t, b))
  BY <1>2, NewTreeIsPart, PartOfPart
<1>4. file.lines \in Seq(Block \cup {JUNK})
  BY DEF File
<1>5. ASSUME NEW f \in File(Block), NEW text \in {JUNK, b}, f.lines = Append(file.lines, text)
      PROVE  Part(LoadTree(f), Inserted(t, b))
  <2>1. LoadTree(f) = IF file.lines = <<>> THEN NewTree ELSE Readmit(LoadTree(file), text)
    BY <1>5, LoadTreeAppend
  <2>2. Part(Readmit(LoadTree(file), b), Inserted(t, b))
    BY <1>1, ReadmitPart
  <2>3. Readmit(LoadTree(file), JUNK) = LoadTree(file)
    BY DEF Readmit
  <2>4. QED
    BY <1>2, <1>3, <2>1, <2>2, <2>3
<1>6. ASSUME NEW f \in File(Block), f.lines = [file.lines EXCEPT ![Len(file.lines)] = JUNK]
      PROVE  Part(LoadTree(f), Inserted(t, b))
  BY <1>2, <1>6, LoadTreeSpoiled, PartOfPart
<1>7. AppendTo(file, b) \in File(Block) /\ Interrupted(file, b) \subseteq File(Block)
  BY WriteTypes
<1>8. Part(LoadTree(AppendTo(file, b)), Inserted(t, b))
  <2> DEFINE f == AppendTo(file, b)
  <2>1. f.lines = Append(file.lines, b) \/ f.lines = [file.lines EXCEPT ![Len(file.lines)] = JUNK]
    BY DEF AppendTo
  <2> HIDE DEF f
  <2>2. QED
    BY <1>5, <1>6, <1>7, <2>1 DEF f
<1>9. ASSUME NEW f \in Interrupted(file, b) PROVE Part(LoadTree(f), Inserted(t, b))
  <2>1. \/ f = file
        \/ \E text \in {JUNK, b} : f.lines = Append(file.lines, text)
        \/ f.lines = [file.lines EXCEPT ![Len(file.lines)] = JUNK]
    BY <1>9 DEF Interrupted
  <2>2. QED
    BY <1>2, <1>5, <1>6, <1>7, <2>1
<1>10. ASSUME NEW r \in WriteResults(file, b) PROVE Part(LoadTree(r.file), Inserted(t, b))
  <2>1. r.file = AppendTo(file, b) \/ r.file \in Interrupted(file, b)
    BY <1>10 DEF WriteResults
  <2>2. QED
    BY <1>8, <1>9, <2>1
<1>11. QED
  BY <1>8, <1>9, <1>10

----------------------------------------------------------------------------
(* The mempool file.                                                       *)

\* persist_mempool leaves a file of transactions, whichever writes fail.
LEMMA PersistTypes ==
    ASSUME NEW file \in File(Txs), NEW pending \in Seq(Txs)
    PROVE  PersistResults(file, pending) \subseteq File(Txs)
<1> DEFINE n == Len(pending)
           cleared == {EmptyFile} \cup (IF "fail" \in Faults THEN {file} ELSE {})
           Rewritten(files, tx) == {r.file : r \in UNION {WriteResults(g, tx) : g \in files}}
           Body(f) == [i \in 0..n |->
                          IF i = 0 THEN cleared
                          ELSE {r.file : r \in UNION {WriteResults(g, pending[i]) : g \in f[i - 1]}}]
           A == SUBSET File(Txs)
           step == [i \in 1..n |-> [x \in A |-> Rewritten(x, pending[i])]]
           F == CHOOSE f : f = Body(f)
<1>1. n \in Nat /\ \A i \in 1..n : pending[i] \in Txs
  OBVIOUS
<1>2. PersistResults(file, pending) = {g \in F[n] : Len(g.lines) <= MaxLines}
  BY DEF PersistResults
<1>3. cleared \in A
  <2>1. EmptyFile \in File(Txs)
    BY DEF EmptyFile, File
  <2>2. QED
    BY <2>1
<1>4. \A i \in 1..n, x \in A : Rewritten(x, pending[i]) \in A
  <2>1. TAKE i \in 1..n, x \in A
  <2>2. \A g \in x : \A r \in WriteResults(g, pending[i]) : r.file \in File(Txs)
    BY <1>1, WriteTypes
  <2>3. QED
    BY <2>2
<1>5. \A i \in 1..n, x \in A : step[i][x] = Rewritten(x, pending[i])
  OBVIOUS
<1>6. step \in [1..n -> [A -> A]]
  <2> HIDE DEF Rewritten, A
  <2>1. QED
    BY <1>4
<1> HIDE DEF n, A, step, cleared
<1>7. PICK f : IsRecursion(f, n, A, cleared, step)
  BY <1>1, <1>3, <1>6, RecursionOverNat
<1>8. /\ f \in [0..n -> A] /\ f[0] = cleared
      /\ \A i \in 1..n : i - 1 \in 0..n /\ f[i] = step[i][f[i - 1]]
  BY <1>1, <1>7 DEF IsRecursion
<1>9. \A i \in 1..n : f[i] = Rewritten(f[i - 1], pending[i])
  BY <1>5, <1>8
<1>10. f = Body(f)
  <2> HIDE DEF Rewritten
  <2>1. \A i \in 0..n : i = 0 \/ i \in 1..n
    BY <1>1
  <2>2. \A i \in 0..n : f[i] = IF i = 0 THEN cleared ELSE Rewritten(f[i - 1], pending[i])
    BY <1>8, <1>9, <2>1
  <2>3. f = [i \in 0..n |-> IF i = 0 THEN cleared ELSE Rewritten(f[i - 1], pending[i])]
    <3>1. f = [i \in 0..n |-> f[i]]
      BY <1>8
    <3>2. QED
      BY <2>2, <3>1
  <2>4. QED
    BY <2>3 DEF Rewritten
<1>11. F = Body(F)
  <2> HIDE DEF Body
  <2>1. QED
    BY <1>10
<1> HIDE DEF F
<1>12. \A i \in 0..n : F[i] = IF i = 0 THEN cleared ELSE Rewritten(F[i - 1], pending[i])
  <2>1. \A i \in 0..n : Body(F)[i] = IF i = 0 THEN cleared ELSE Rewritten(F[i - 1], pending[i])
    OBVIOUS
  <2> HIDE DEF Body, Rewritten
  <2>2. QED
    BY <1>11, <2>1
<1> HIDE DEF Rewritten, Body
<1>13. GoAlike(F, f, n)
  <2>1. 0 \in 0..n /\ \A i \in 1..n : i \in 0..n /\ i # 0
    BY <1>1
  <2>2. QED
    BY <1>8, <1>9, <1>12, <2>1 DEF GoAlike
<1>14. \A i \in 0..n : F[i] = f[i]
  BY <1>1, <1>13, SameRecursion
<1>15. F[n] \in A
  BY <1>1, <1>8, <1>14
<1>16. QED
  BY <1>2, <1>15 DEF A

----------------------------------------------------------------------------
(* The candidate.                                                          *)

Candidates == [prev : Hashes, height : Nat, txs : Seq(Txs), late : BOOLEAN]

\* A candidate the tree t would admit as a block.
Admissible(c, t) ==
    /\ c.prev \in DOMAIN t
    /\ c.height = t[c.prev].block.height + 1
    /\ \A i \in DOMAIN c.txs : c.txs[i].v2 = RuleOn(t, c.prev, c.late)
    /\ ApplyTxs(t[c.prev].after, c.txs).ok
    /\ Len(c.txs) < MAX_BLOCK_TXS

\* A block half built on the ledger st: its transactions apply one after the
\* other and leave the ledger sim, they are of the rule, and the coinbase fits.
Partial(st, rule) ==
    {acc \in [sim : Ledger, txs : Seq(Txs)] :
        /\ ApplyTxs(st, acc.txs) = [ok |-> TRUE, state |-> acc.sim]
        /\ \A i \in DOMAIN acc.txs : acc.txs[i].v2 = rule
        /\ Len(acc.txs) < MAX_BLOCK_TXS}

\* One more pending transaction, taken or not, leaves such a block.
LEMMA TakeKeeps ==
    ASSUME NEW st \in Ledger, NEW rule, NEW acc \in Partial(st, rule), NEW tx \in Txs
    PROVE  Take(acc, tx, rule) \in Partial(st, rule)
<1> DEFINE result == ApplyTxSinRastro(acc.sim, tx)
           more == Append(acc.txs, tx)
<1>1. /\ acc.sim \in Ledger /\ acc.txs \in Seq(Txs)
      /\ acc = [sim |-> acc.sim, txs |-> acc.txs]
      /\ ApplyTxs(st, acc.txs) = [ok |-> TRUE, state |-> acc.sim]
      /\ \A i \in DOMAIN acc.txs : acc.txs[i].v2 = rule
      /\ Len(acc.txs) \in Nat
  BY DEF Partial
<1>2. /\ result \in Result
      /\ result.ok => result = ApplyTx(acc.sim, tx)
      /\ ~ result.ok => result.state = acc.sim
  BY <1>1, SinRastro
<1>3. ASSUME Len(acc.txs) + 1 < MAX_BLOCK_TXS, tx.v2 = rule, result.ok
      PROVE  [sim |-> result.state, txs |-> more] \in Partial(st, rule)
  <2>1. ApplyTxs(st, more) = ApplyNext(ApplyTxs(st, acc.txs), tx)
    BY <1>1, ApplyTxsAppend
  <2>2. ApplyTxs(st, more) = result
    BY <1>1, <1>2, <1>3, <2>1 DEF ApplyNext
  <2>3. result = [ok |-> TRUE, state |-> result.state] /\ result.state \in Ledger
    BY <1>2, <1>3 DEF Result
  <2>4. /\ more \in Seq(Txs) /\ Len(more) = Len(acc.txs) + 1
        /\ \A i \in DOMAIN more : more[i].v2 = rule
    <3>1. /\ more \in Seq(Txs) /\ Len(more) = Len(acc.txs) + 1
          /\ more[Len(acc.txs) + 1] = tx
          /\ \A i \in 1..Len(acc.txs) : more[i] = acc.txs[i]
      BY <1>1, AppendProperties
    <3> HIDE DEF more
    <3>2. DOMAIN more = 1..(Len(acc.txs) + 1) /\ DOMAIN acc.txs = 1..Len(acc.txs)
      BY <1>1, <3>1
    <3>3. QED
      BY <1>1, <1>3, <3>1, <3>2
  <2> HIDE DEF more, result
  <2>5. QED
    BY <1>3, <2>2, <2>3, <2>4 DEF Partial
<1>4. CASE Len(acc.txs) + 1 < MAX_BLOCK_TXS /\ tx.v2 = rule /\ result.ok
  <2>1. Take(acc, tx, rule) = [sim |-> result.state, txs |-> more]
    BY <1>4 DEF Take
  <2>2. QED
    BY <1>3, <1>4, <2>1
<1>5. CASE ~ (Len(acc.txs) + 1 < MAX_BLOCK_TXS /\ tx.v2 = rule /\ result.ok)
  <2>1. Take(acc, tx, rule) = acc
    BY <1>1, <1>2, <1>5 DEF Take
  <2>2. QED
    BY <2>1
<1>6. QED
  BY <1>4, <1>5

\* The loop of build_candidate ends with such a block.
LEMMA FilledIs ==
    ASSUME NEW st \in Ledger, NEW pending \in Seq(Txs), NEW rule
    PROVE  Filled(st, pending, rule) \in Partial(st, rule)
<1> DEFINE n == Len(pending)
           A == Partial(st, rule)
           a == [sim |-> st, txs |-> <<>>]
           Body(f) == [i \in 0..n |-> IF i = 0 THEN a ELSE Take(f[i - 1], pending[i], rule)]
           step == [i \in 1..n |-> [x \in A |-> Take(x, pending[i], rule)]]
           F == CHOOSE f : f = Body(f)
<1>1. n \in Nat /\ \A i \in 1..n : pending[i] \in Txs
  OBVIOUS
<1>2. Filled(st, pending, rule) = F[n]
  BY DEF Filled
<1>3. a \in A
  <2>1. <<>> \in Seq(Txs) /\ Len(<<>>) = 0
    OBVIOUS
  <2>2. ApplyTxs(st, <<>>) = [ok |-> TRUE, state |-> st]
    BY <2>1, ApplyTxsType
  <2>3. 0 < MAX_BLOCK_TXS
    BY NodeAssumption
  <2>4. PICK e : e = <<>>
    OBVIOUS
  <2>5. /\ [sim |-> st, txs |-> e] \in [sim : Ledger, txs : Seq(Txs)]
        /\ ApplyTxs(st, e) = [ok |-> TRUE, state |-> st]
        /\ DOMAIN e = {} /\ Len(e) < MAX_BLOCK_TXS
    BY <2>1, <2>2, <2>3, <2>4
  <2>6. QED
    BY <2>4, <2>5 DEF Partial
<1>4. \A i \in 1..n, x \in A : Take(x, pending[i], rule) \in A
  BY <1>1, TakeKeeps
<1> HIDE DEF A
<1>5. /\ \A i \in 1..n, x \in A : step[i][x] = Take(x, pending[i], rule)
      /\ step \in [1..n -> [A -> A]]
  BY <1>4
<1> HIDE DEF n, a, step
<1>6. PICK f : IsRecursion(f, n, A, a, step)
  BY <1>1, <1>3, <1>5, RecursionOverNat
<1>7. /\ f \in [0..n -> A] /\ f[0] = a
      /\ \A i \in 1..n : i - 1 \in 0..n /\ f[i] = step[i][f[i - 1]]
  BY <1>1, <1>6 DEF IsRecursion
<1>8. \A i \in 1..n : f[i] = Take(f[i - 1], pending[i], rule)
  BY <1>5, <1>7
<1>9. f = Body(f)
  BY <1>1, <1>7, <1>8
<1>10. F = Body(F)
  <2> HIDE DEF Body
  <2>1. QED
    BY <1>9
<1> HIDE DEF F
<1>11. GoAlike(F, f, n)
  <2>1. \A i \in 0..n : F[i] = IF i = 0 THEN a ELSE Take(F[i - 1], pending[i], rule)
    BY <1>10
  <2>2. 0 \in 0..n /\ \A i \in 1..n : i \in 0..n /\ i # 0
    BY <1>1
  <2>3. QED
    BY <1>7, <1>8, <2>1, <2>2 DEF GoAlike
<1>12. \A i \in 0..n : F[i] = f[i]
  BY <1>1, <1>11, SameRecursion
<1>13. QED
  BY <1>1, <1>2, <1>7, <1>12 DEF A

\* The candidate of a tree is one that tree would admit, whatever waits in the
\* mempool and whatever is rejected on the way.
LEMMA CandidateIsAdmissible ==
    ASSUME NEW t \in Trees, NEW pending \in Seq(Txs), NEW clock \in BOOLEAN
    PROVE  /\ BuildCandidate(t, pending, clock) \in Candidates
           /\ Admissible(BuildCandidate(t, pending, clock), t)
<1> DEFINE h == HeadOf(t)
           rule == RuleOn(t, h, clock)
           filled == Filled(t[h].after, pending, rule)
           c == BuildCandidate(t, pending, clock)
<1>1. h \in DOMAIN t /\ h \in Hashes /\ t[h].after \in Ledger /\ t[h].block.height \in Nat
  BY HeadInTree, TreeFacts
<1>2. filled \in Partial(t[h].after, rule)
  BY <1>1, FilledIs
<1>3. c = [prev |-> h, height |-> t[h].block.height + 1, txs |-> filled.txs, late |-> clock]
  BY DEF BuildCandidate
<1> HIDE DEF c, filled
<1>4. /\ filled.txs \in Seq(Txs) /\ ApplyTxs(t[h].after, filled.txs).ok
      /\ \A i \in DOMAIN filled.txs : filled.txs[i].v2 = rule
      /\ Len(filled.txs) < MAX_BLOCK_TXS
  BY <1>2 DEF Partial
<1>5. c \in Candidates
  BY <1>1, <1>3, <1>4 DEF Candidates
<1>6. Admissible(c, t)
  BY <1>1, <1>3, <1>4 DEF Admissible
<1>7. QED
  BY <1>5, <1>6 DEF c

\* What a tree would admit, a tree with more blocks would.
LEMMA StillAdmissible ==
    ASSUME NEW c, NEW s, NEW t, Admissible(c, s), Part(s, t)
    PROVE  Admissible(c, t)
BY DEF Admissible, Part, RuleOn

----------------------------------------------------------------------------
(* The invariant.                                                          *)

Universes == UNION {[D -> Block] : D \in SUBSET Hashes}

\* tx is pending, spent on some branch of t, or of a rule that is over.
Accounted(tx, pending, t, clock) ==
    \/ tx \in ToSet(pending)
    \/ \E h \in DOMAIN t : t[h].after.nonces[tx.from] > tx.nonce
    \/ ~tx.v2 /\ (clock \/ \E h \in DOMAIN t : t[h].v2)

Shapes ==
    /\ running \in BOOLEAN /\ activated \in BOOLEAN
    /\ universe \in Universes /\ mined \in Block \cup {None}
    /\ mempool \in Seq(Txs) /\ seen_tx \in SUBSET Txs
    /\ chain_file \in File(Block) \cup {None} /\ mempool_file \in File(Txs)

\* A node that runs has a tree its file is a part of, and a job it admits.
Live ==
    running => /\ chain_file \in File(Block) /\ tree \in Trees
               /\ Part(LoadTree(chain_file), tree)
               /\ job \in Candidates /\ Admissible(job, tree)

NodeInv ==
    /\ Shapes
    /\ Live
    /\ ~running => tree = EmptyTree
    /\ \A tx \in seen_tx : Accounted(tx, mempool, tree, activated)

\* A transaction accounted for stays so while the mempool is the same, the
\* tree grows and the clock advances.
LEMMA StaysAccounted ==
    ASSUME NEW tx, NEW pending, NEW s, NEW t, NEW before \in BOOLEAN, NEW clock \in BOOLEAN,
           Accounted(tx, pending, s, before), Part(s, t), before => clock
    PROVE  Accounted(tx, pending, t, clock)
BY DEF Accounted, Part

\* A block put where every block is kept.
LEMMA ExistsType ==
    ASSUME universe \in Universes, NEW b \in Block, Exists(b)
    PROVE  universe' \in Universes
<1>1. PICK D \in SUBSET Hashes : universe \in [D -> Block]
  BY DEF Universes
<1>2. b.hash \in Hashes
  BY DEF Block
<1>3. universe' \in [D \cup {b.hash} -> Block] /\ D \cup {b.hash} \in SUBSET Hashes
  BY <1>1, <1>2 DEF Exists
<1>4. QED
  BY <1>3 DEF Universes

\* What a peer sends is a block.
LEMMA PeersSendBlocks ==
    ASSUME universe \in Universes
    PROVE  FromPeers \subseteq Block
<1>1. PICK D \in SUBSET Hashes : universe \in [D -> Block]
  BY DEF Universes
<1>2. \A h \in DOMAIN universe : h \in Hashes /\ universe[h] \in Block
  BY <1>1
<1>3. ASSUME NEW h \in Hashes, NEW p \in DOMAIN universe, NEW body \in PeerBodies,
             NEW l \in {FALSE, TRUE}
      PROVE  [hash |-> h, prev |-> p, height |-> universe[p].height + 1,
              txs |-> body, late |-> l] \in Block
  <2>1. universe[p] \in Block /\ p \in Hashes
    BY <1>2
  <2>2. universe[p].height \in Nat
    BY <2>1 DEF Block
  <2>3. body \in Seq(Txs)
    BY NodeAssumption
  <2>4. universe[p].height + 1 \in Nat
    BY <2>2
  <2>5. \A n \in Nat : [hash |-> h, prev |-> p, height |-> n, txs |-> body, late |-> l] \in Block
    BY <2>1, <2>3, <2>4 DEF Block
  <2>6. QED
    BY <2>4, <2>5
<1>4. ASSUME NEW b \in FromPeers PROVE b \in Block
  <2>1. CASE \E h \in DOMAIN universe : b = universe[h]
    BY <1>2, <2>1
  <2>2. CASE \E h \in Hashes \ DOMAIN universe, p \in DOMAIN universe, body \in PeerBodies,
                l \in {FALSE, TRUE} :
               b = [hash |-> h, prev |-> p, height |-> universe[p].height + 1,
                    txs |-> body, late |-> l]
    BY <1>3, <2>2
  <2>3. QED
    BY <1>4, <2>1, <2>2 DEF FromPeers
<1>5. QED
  BY <1>4

\* A transaction the new head's block or its branch does not leave pending is
\* spent on a branch (podar_nonces_gastados).
LEMMA PurgedIsAccounted ==
    ASSUME NEW t \in Trees, NEW b \in Block, Admits(t, b), NEW pending \in Seq(Txs),
           NEW clock \in BOOLEAN, NEW tx \in Txs, Accounted(tx, pending, t, clock)
    PROVE  Accounted(tx, Purged(Inserted(t, b), pending, b), Inserted(t, b), clock)
<1> DEFINE u == Inserted(t, b)
           spent == HeadState(u).nonces
           keep == {x \in Txs \ ToSet(b.txs) : x.nonce >= spent[x.from]}
<1>1. u \in Trees /\ Part(t, u) /\ b.hash \in DOMAIN u
      /\ u[b.hash].after = ApplyTxs(t[b.prev].after, b.txs).state
  <2>1. /\ u \in Trees /\ Part(t, u) /\ DOMAIN u = DOMAIN t \cup {b.hash}
        /\ u[b.hash] = [block |-> b, v2 |-> RuleOn(t, b.prev, b.late),
                        after |-> ApplyTxs(t[b.prev].after, b.txs).state]
    BY InsertedFacts
  <2>2. QED
    BY <2>1
<1>2. Accounted(tx, pending, u, clock)
  BY <1>1, StaysAccounted
<1>3. Purged(u, pending, b) = Kept(pending, keep)
  BY DEF Purged
<1>4. ToSet(Purged(u, pending, b)) = ToSet(pending) \cap keep
  BY <1>3, KeptIs
<1>5. HeadOf(u) \in DOMAIN u /\ spent = u[HeadOf(u)].after.nonces
      /\ spent \in [Accounts -> Nat]
  <2>1. HeadOf(u) \in DOMAIN u /\ u[HeadOf(u)].after \in Ledger
    BY <1>1, HeadInTree, TreeFacts
  <2>2. QED
    BY <2>1 DEF HeadState, Ledger
<1>6. tx.from \in Accounts /\ tx.nonce \in Nat
  BY NodeAssumption DEF Transaction
<1> HIDE DEF u, spent
<1>7. CASE tx \in ToSet(b.txs)
  <2>1. t[b.prev].after \in Ledger /\ b.txs \in Seq(Txs)
        /\ ApplyTxs(t[b.prev].after, b.txs).ok
    BY TreeFacts DEF Admits, Block
  <2>2. tx.nonce < u[b.hash].after.nonces[tx.from]
    BY <1>1, <1>7, <2>1, ApplyTxsSpends
  <2>3. u[b.hash].after.nonces[tx.from] \in Nat
    <3>1. u[b.hash].after \in Ledger
      BY <1>1, TreeFacts
    <3>2. QED
      BY <1>6, <3>1 DEF Ledger
  <2>4. QED
    BY <1>1, <1>6, <2>2, <2>3 DEF Accounted, u
<1>8. CASE tx \notin ToSet(b.txs) /\ ~ (tx.nonce >= spent[tx.from])
  <2>1. u[HeadOf(u)].after.nonces[tx.from] > tx.nonce
    BY <1>5, <1>6, <1>8
  <2>2. QED
    BY <1>5, <2>1 DEF Accounted, u
<1>9. CASE tx \notin ToSet(b.txs) /\ tx.nonce >= spent[tx.from]
  <2>1. tx \in ToSet(pending) => tx \in ToSet(Purged(u, pending, b))
    BY <1>4, <1>9
  <2>2. QED
    BY <1>2, <2>1 DEF Accounted, u
<1>10. QED
  BY <1>7, <1>8, <1>9

\* accept_block up to append_block, whichever way the write ends.
LEMMA InsertFacts ==
    ASSUME NodeInv, running, NEW b \in Block, NEW ok, InsertAndAppend(b, ok)
    PROVE  /\ Admits(tree, b) /\ tree' = Inserted(tree, b)
           /\ tree' \in Trees /\ Part(tree, tree')
           /\ chain_file' \in File(Block) /\ Part(LoadTree(chain_file'), tree')
<1>1. /\ chain_file \in File(Block) /\ tree \in Trees
      /\ Part(LoadTree(chain_file), tree)
  BY DEF NodeInv, Live
<1>2. Admits(tree, b) /\ tree' = Inserted(tree, b)
  BY DEF InsertAndAppend
<1>3. PICK write \in WriteResults(chain_file, b) : chain_file' = write.file
  BY DEF InsertAndAppend
<1>4. chain_file' \in File(Block)
  BY <1>1, <1>3, WriteTypes
<1>5. Part(LoadTree(chain_file'), tree')
  BY <1>1, <1>2, <1>3, WriteKeepsPart
<1>6. QED
  BY <1>1, <1>2, <1>4, <1>5, InsertedFacts

\* accept_block, saved or not.
LEMMA AcceptFacts ==
    ASSUME NodeInv, running, NEW b \in Block, AcceptBlock(b) \/ AcceptUnsaved(b)
    PROVE  /\ tree' \in Trees /\ Part(tree, tree')
           /\ chain_file' \in File(Block) /\ Part(LoadTree(chain_file'), tree')
           /\ mempool' \in Seq(Txs) /\ mempool_file' \in File(Txs)
           /\ \A tx \in seen_tx : Accounted(tx, mempool', tree', activated)
<1>1. /\ tree \in Trees /\ mempool \in Seq(Txs) /\ mempool_file \in File(Txs)
      /\ activated \in BOOLEAN /\ seen_tx \in SUBSET Txs
      /\ \A tx \in seen_tx : Accounted(tx, mempool, tree, activated)
  BY DEF NodeInv, Live, Shapes
<1>2. CASE AcceptBlock(b)
  <2>1. InsertAndAppend(b, TRUE) /\ mempool' = Purged(tree', mempool, b)
        /\ mempool_file' \in PersistResults(mempool_file, mempool')
    BY <1>2 DEF AcceptBlock
  <2>2. /\ Admits(tree, b) /\ tree' = Inserted(tree, b)
        /\ tree' \in Trees /\ Part(tree, tree')
        /\ chain_file' \in File(Block) /\ Part(LoadTree(chain_file'), tree')
    BY <2>1, InsertFacts
  <2>3. mempool' \in Seq(Txs)
    <3> DEFINE keep == {tx \in Txs \ ToSet(b.txs) : tx.nonce >= HeadState(tree').nonces[tx.from]}
    <3>1. mempool' = Kept(mempool, keep)
      BY <2>1 DEF Purged
    <3> HIDE DEF keep
    <3>2. mempool' \in Seq(Txs \cap keep)
      BY <1>1, <3>1, KeptIs
    <3>3. QED
      BY <3>2
  <2>4. mempool_file' \in File(Txs)
    BY <1>1, <2>1, <2>3, PersistTypes
  <2>5. \A tx \in seen_tx : Accounted(tx, mempool', tree', activated)
    BY <1>1, <2>1, <2>2, PurgedIsAccounted
  <2>6. QED
    BY <2>2, <2>3, <2>4, <2>5
<1>3. CASE AcceptUnsaved(b)
  <2>1. InsertAndAppend(b, FALSE) /\ mempool' = mempool /\ mempool_file' = mempool_file
    BY <1>3 DEF AcceptUnsaved
  <2>2. /\ tree' \in Trees /\ Part(tree, tree')
        /\ chain_file' \in File(Block) /\ Part(LoadTree(chain_file'), tree')
    BY <2>1, InsertFacts
  <2>3. \A tx \in seen_tx : Accounted(tx, mempool', tree', activated)
    BY <1>1, <2>1, <2>2, StaysAccounted
  <2>4. QED
    BY <1>1, <2>1, <2>2, <2>3
<1>4. QED
  BY <1>2, <1>3

\* Init establishes the invariant.
LEMMA NodeInit == Init => NodeInv
<1> SUFFICES ASSUME Init PROVE NodeInv
  OBVIOUS
<1>1. Genesis \in Block
  BY NodeAssumption DEF Genesis, Block
<1>2. universe \in Universes
  <2>1. universe \in [{GENESIS} -> Block] /\ {GENESIS} \in SUBSET Hashes
    BY <1>1, NodeAssumption DEF Init
  <2>2. QED
    BY <2>1 DEF Universes
<1>3. mempool_file \in File(Txs)
  BY DEF Init, EmptyFile, File
<1>4. <<>> \in Seq(Txs)
  OBVIOUS
<1>5. Shapes
  BY <1>2, <1>3, <1>4 DEF Init, Shapes
<1>6. QED
  BY <1>5 DEF Init, NodeInv, Live

\* Every step keeps the invariant.
LEMMA NodeStep == NodeInv /\ [Next]_vars => NodeInv'
<1> SUFFICES ASSUME NodeInv, [Next]_vars PROVE NodeInv'
  OBVIOUS
<1> USE DEF NodeInv
<1>1. /\ Shapes /\ universe \in Universes /\ mined \in Block \cup {None}
      /\ mempool \in Seq(Txs) /\ seen_tx \in SUBSET Txs /\ activated \in BOOLEAN
      /\ mempool_file \in File(Txs) /\ chain_file \in File(Block) \cup {None}
  BY DEF Shapes
<1>2. CASE InitChain
  <2>1. EmptyFile \in File(Block) /\ Genesis \in Block
    BY NodeAssumption DEF EmptyFile, File, Genesis, Block
  <2>2. chain_file' \in File(Block)
    <3>1. AppendTo(EmptyFile, Genesis) \in File(Block)
          /\ Interrupted(EmptyFile, Genesis) \subseteq File(Block)
      BY <2>1, WriteTypes
    <3>2. QED
      BY <1>2, <3>1 DEF InitChain
  <2>3. Shapes'
    BY <1>2, <2>2 DEF InitChain, Shapes, env
  <2>4. QED
    BY <1>2, <2>3 DEF InitChain, Live, env
<1>3. CASE Boot
  <2>1. chain_file \in File(Block) /\ chain_file' = chain_file /\ mempool_file' = mempool_file
    BY <1>1, <1>3 DEF Boot, disk
  <2>2. tree' \in Trees /\ Part(LoadTree(chain_file'), tree')
    BY <1>3, <2>1, LoadTreeType DEF Boot, Part
  <2>3. mempool' \in Seq(Txs) /\ ToSet(mempool') \subseteq Txs
    <3>1. mempool_file.lines \in Seq(Txs \cup {JUNK})
      BY <1>1 DEF File
    <3>2. mempool' = Kept(mempool_file.lines, Txs)
      BY <1>3 DEF Boot, LoadMempool
    <3>3. mempool' \in Seq((Txs \cup {JUNK}) \cap Txs)
          /\ ToSet(mempool') = ToSet(mempool_file.lines) \cap Txs
      BY <3>1, <3>2, KeptIs
    <3>4. (Txs \cup {JUNK}) \cap Txs = Txs
      OBVIOUS
    <3>5. QED
      BY <3>3, <3>4
  <2>4. job' \in Candidates /\ Admissible(job', tree')
    BY <1>1, <1>3, <2>2, <2>3, CandidateIsAdmissible DEF Boot, RefreshCandidate
  <2>5. Shapes'
    BY <1>1, <1>3, <2>1, <2>3 DEF Boot, Shapes, env
  <2>6. Live'
    BY <2>1, <2>2, <2>4 DEF Live
  <2>7. \A tx \in seen_tx' : Accounted(tx, mempool', tree', activated')
    BY <1>3 DEF Boot, Accounted
  <2>8. QED
    BY <1>3, <2>5, <2>6, <2>7 DEF Boot
<1>4. CASE Crash
  <2>1. Shapes'
    <3>1. <<>> \in Seq(Txs)
      OBVIOUS
    <3>2. QED
      BY <1>4, <3>1 DEF Crash, Stop, Shapes, disk, env
  <2>2. QED
    BY <1>4, <2>1 DEF Crash, Stop, Live
<1>5. CASE MinerFinds
  <2>1. job \in Candidates
    BY <1>5 DEF MinerFinds, Live
  <2>2. PICK h \in Hashes : mined' = BlockOfJob(job, h) /\ Exists(mined')
    BY <1>5 DEF MinerFinds
  <2>3. mined' \in Block
    <3>1. job.prev \in Hashes /\ job.height \in Nat /\ job.txs \in Seq(Txs) /\ job.late \in BOOLEAN
      BY <2>1 DEF Candidates
    <3>2. QED
      BY <2>2, <3>1 DEF BlockOfJob, Block
  <2>4. universe' \in Universes
    BY <1>1, <2>2, <2>3, ExistsType
  <2>5. Shapes'
    BY <1>5, <2>3, <2>4 DEF MinerFinds, Shapes, disk
  <2>6. Live'
    BY <1>5 DEF MinerFinds, Live, disk
  <2>7. QED
    BY <1>5, <2>5, <2>6 DEF MinerFinds
<1>6. CASE OnMined
  <2>1. running /\ mined \in Block /\ mined' = None /\ running' = running
        /\ seen_tx' = seen_tx /\ activated' = activated /\ universe' = universe
    BY <1>1, <1>6 DEF OnMined, env
  <2>2. /\ tree' \in Trees /\ chain_file' \in File(Block) /\ Part(LoadTree(chain_file'), tree')
        /\ mempool' \in Seq(Txs) /\ mempool_file' \in File(Txs)
        /\ \A tx \in seen_tx : Accounted(tx, mempool', tree', activated)
    <3>1. CASE AcceptBlock(mined) \/ AcceptUnsaved(mined)
      BY <2>1, <3>1, AcceptFacts
    <3>2. CASE UNCHANGED <<tree, disk, mempool>>
      BY <1>1, <2>1, <3>2 DEF Live, disk
    <3>3. QED
      BY <1>6, <3>1, <3>2 DEF OnMined
  <2>3. job' \in Candidates /\ Admissible(job', tree')
    BY <1>1, <1>6, <2>2, CandidateIsAdmissible DEF OnMined, RefreshCandidate
  <2>4. QED
    BY <1>1, <2>1, <2>2, <2>3 DEF Shapes, Live
<1>7. CASE Tick
  <2> DEFINE keep == {tx \in Txs : tx.v2}
             valid == Kept(mempool, keep)
             stale == RuleNow(tree, activated) /\ valid # mempool
  <2>1. /\ running /\ running' = running /\ tree' = tree /\ chain_file' = chain_file
        /\ seen_tx' = seen_tx /\ mined' = mined /\ activated' = activated
        /\ universe' = universe
    BY <1>7 DEF Tick, env
  <2>2. /\ mempool' = IF stale THEN valid ELSE mempool
        /\ stale => mempool_file' \in PersistResults(mempool_file, valid)
        /\ ~stale => mempool_file' = mempool_file
        /\ \/ job' = BuildCandidate(tree, mempool', activated)
           \/ ~stale /\ job' = job
    BY <1>7 DEF Tick
  <2>3. valid \in Seq(Txs) /\ ToSet(valid) = ToSet(mempool) \cap keep
    <3>1. valid \in Seq(Txs \cap keep) /\ ToSet(valid) = ToSet(mempool) \cap keep
      BY <1>1, KeptIs
    <3>2. Txs \cap keep \subseteq Txs
      OBVIOUS
    <3> HIDE DEF valid, keep
    <3>3. QED
      BY <3>1, <3>2
  <2> HIDE DEF valid, stale
  <2>4. tree \in Trees /\ Part(LoadTree(chain_file), tree) /\ chain_file \in File(Block)
        /\ job \in Candidates /\ Admissible(job, tree)
    BY <2>1 DEF Live
  <2>5. mempool' \in Seq(Txs) /\ mempool_file' \in File(Txs)
    BY <1>1, <2>2, <2>3, PersistTypes
  <2>6. job' \in Candidates /\ Admissible(job', tree')
    BY <1>1, <2>1, <2>2, <2>4, <2>5, CandidateIsAdmissible
  <2>7. ASSUME NEW tx \in seen_tx PROVE Accounted(tx, mempool', tree', activated')
    <3>1. Accounted(tx, mempool, tree, activated)
      OBVIOUS
    <3>2. CASE ~stale
      BY <2>1, <2>2, <3>1, <3>2
    <3>3. CASE stale
      <4>1. activated \/ tree[HeadOf(tree)].v2
        BY <3>3 DEF stale, RuleNow, RuleOn
      <4>2. HeadOf(tree) \in DOMAIN tree
        BY <2>4, HeadInTree
      <4>3. tx \in Txs /\ (tx \in ToSet(mempool) /\ tx.v2 => tx \in ToSet(valid))
        BY <1>1, <2>3
      <4>4. mempool' = valid
        BY <2>2, <3>3
      <4>5. QED
        BY <2>1, <3>1, <4>1, <4>2, <4>3, <4>4 DEF Accounted
    <3>4. QED
      BY <3>2, <3>3
  <2>8. Shapes' /\ Live'
    BY <1>1, <2>1, <2>4, <2>5, <2>6 DEF Shapes, Live
  <2>9. QED
    BY <2>1, <2>7, <2>8
<1>8. CASE PassActivation
  <2>1. /\ running' = running /\ tree' = tree /\ chain_file' = chain_file /\ mempool' = mempool
        /\ mempool_file' = mempool_file /\ job' = job /\ seen_tx' = seen_tx
        /\ mined' = mined /\ universe' = universe /\ activated' = TRUE
    BY <1>8 DEF PassActivation, disk
  <2>2. \A tx \in seen_tx' : Accounted(tx, mempool', tree', activated')
    BY <2>1 DEF Accounted
  <2>3. Shapes' /\ Live'
    BY <1>1, <2>1 DEF Shapes, Live
  <2>4. QED
    BY <2>1, <2>2, <2>3
<1>9. ASSUME NEW b \in FromPeers, NewBlock(b) PROVE NodeInv'
  <2>1. running /\ b \in Block /\ AcceptBlock(b) /\ Exists(b) /\ running' = running
        /\ seen_tx' = seen_tx /\ mined' = mined /\ activated' = activated
    BY <1>1, <1>9, PeersSendBlocks DEF NewBlock
  <2>2. /\ tree' \in Trees /\ chain_file' \in File(Block) /\ Part(LoadTree(chain_file'), tree')
        /\ mempool' \in Seq(Txs) /\ mempool_file' \in File(Txs)
        /\ \A tx \in seen_tx : Accounted(tx, mempool', tree', activated)
    BY <2>1, AcceptFacts
  <2>3. job' \in Candidates /\ Admissible(job', tree')
    BY <1>1, <1>9, <2>2, CandidateIsAdmissible DEF NewBlock, RefreshCandidate
  <2>4. universe' \in Universes
    BY <1>1, <2>1, ExistsType
  <2>5. QED
    BY <1>1, <2>1, <2>2, <2>3, <2>4 DEF Shapes, Live
<1>10. ASSUME NEW b \in FromPeers, NewBlockUnsaved(b) PROVE NodeInv'
  <2>1. running /\ b \in Block /\ AcceptUnsaved(b) /\ Exists(b) /\ running' = running
        /\ seen_tx' = seen_tx /\ mined' = mined /\ activated' = activated /\ job' = job
    BY <1>1, <1>10, PeersSendBlocks DEF NewBlockUnsaved
  <2>2. /\ tree' \in Trees /\ chain_file' \in File(Block) /\ Part(LoadTree(chain_file'), tree')
        /\ mempool' \in Seq(Txs) /\ mempool_file' \in File(Txs) /\ Part(tree, tree')
        /\ \A tx \in seen_tx : Accounted(tx, mempool', tree', activated)
    BY <2>1, AcceptFacts
  <2>3. job' \in Candidates /\ Admissible(job', tree')
    BY <2>1, <2>2, StillAdmissible DEF Live
  <2>4. universe' \in Universes
    BY <1>1, <2>1, ExistsType
  <2>5. QED
    BY <1>1, <2>1, <2>2, <2>3, <2>4 DEF Shapes, Live
<1>11. ASSUME NEW b \in FromPeers \cup ({mined} \ {None}), CrashAccepting(b) PROVE NodeInv'
  <2>1. b \in Block /\ running /\ Admits(tree, b) /\ Stop /\ Exists(b) /\ activated' = activated
    BY <1>1, <1>11, PeersSendBlocks DEF CrashAccepting
  <2>2. chain_file \in File(Block) /\ tree \in Trees
    BY <2>1 DEF Live
  <2>3. chain_file' \in File(Block)
    <3>1. chain_file' \in Interrupted(chain_file, b) \/ chain_file' = AppendTo(chain_file, b)
      BY <1>11 DEF CrashAccepting
    <3>2. QED
      BY <2>1, <2>2, <3>1, WriteTypes
  <2>4. mempool_file' \in File(Txs)
    <3> DEFINE keep == {tx \in Txs \ ToSet(b.txs) :
                          tx.nonce >= HeadState(Inserted(tree, b)).nonces[tx.from]}
               left == Kept(mempool, keep)
    <3>1. left \in Seq(Txs)
      <4> HIDE DEF keep
      <4>1. left \in Seq(Txs \cap keep)
        BY <1>1, KeptIs
      <4> HIDE DEF left
      <4>2. QED
        BY <4>1
    <3>2. \/ mempool_file' = mempool_file
          \/ \E n \in 0..Len(left) : mempool_file' = [lines |-> SubSeq(left, 1, n), whole |-> TRUE]
      BY <1>11 DEF CrashAccepting, Purged
    <3> HIDE DEF left
    <3>3. ASSUME NEW n \in 0..Len(left) PROVE SubSeq(left, 1, n) \in Seq(Txs \cup {JUNK})
      BY <3>1, SubSeqProperties
    <3>4. \A n \in 0..Len(left) : [lines |-> SubSeq(left, 1, n), whole |-> TRUE] \in File(Txs)
      BY <3>3 DEF File
    <3>5. QED
      BY <1>1, <3>2, <3>4
  <2>5. universe' \in Universes
    BY <1>1, <2>1, ExistsType
  <2>6. Shapes'
    <3>1. <<>> \in Seq(Txs)
      OBVIOUS
    <3>2. QED
      BY <1>1, <2>1, <2>3, <2>4, <2>5, <3>1 DEF Stop, Shapes
  <2>7. QED
    BY <2>1, <2>6 DEF Stop, Live
<1>12. ASSUME NEW tx \in Txs, AcceptTx(tx) PROVE NodeInv'
  <2>1. /\ running /\ running' = running /\ tree' = tree /\ chain_file' = chain_file
        /\ mined' = mined /\ activated' = activated /\ universe' = universe
        /\ mempool' = Append(mempool, tx) /\ seen_tx' \subseteq seen_tx \cup {tx}
        /\ job' = BuildCandidate(tree, mempool', activated)
    BY <1>12 DEF AcceptTx, SeenUnderCap, env
  <2>2. mempool' \in Seq(Txs) /\ ToSet(mempool') = ToSet(mempool) \cup {tx}
    <3>1. /\ mempool' \in Seq(Txs) /\ Len(mempool') = Len(mempool) + 1
          /\ mempool'[Len(mempool) + 1] = tx
          /\ \A i \in 1..Len(mempool) : mempool'[i] = mempool[i]
      BY <1>1, <2>1, AppendProperties
    <3>2. /\ DOMAIN mempool' = 1..(Len(mempool) + 1) /\ DOMAIN mempool = 1..Len(mempool)
          /\ Len(mempool) \in Nat
      BY <1>1, <3>1
    <3>3. QED
      <4>1. \A k : k \in 1..(Len(mempool) + 1) <=> k \in 1..Len(mempool) \/ k = Len(mempool) + 1
        BY <3>2
      <4>2. QED
        BY <3>1, <3>2, <4>1 DEF ToSet
  <2>3. mempool_file' \in File(Txs)
    BY <1>1, <1>12, WriteTypes DEF AcceptTx
  <2>4. tree \in Trees /\ Part(LoadTree(chain_file), tree) /\ chain_file \in File(Block)
    BY <2>1 DEF Live
  <2>5. job' \in Candidates /\ Admissible(job', tree')
    BY <1>1, <2>1, <2>2, <2>4, CandidateIsAdmissible
  <2>6. \A x \in seen_tx' : Accounted(x, mempool', tree', activated')
    BY <2>1, <2>2 DEF Accounted
  <2>7. seen_tx' \in SUBSET Txs
    BY <1>1, <2>1
  <2>8. QED
    BY <1>1, <2>1, <2>2, <2>3, <2>4, <2>5, <2>6, <2>7 DEF Shapes, Live
<1>13. ASSUME NEW tx \in Txs, RejectTx(tx) PROVE NodeInv'
  <2>1. /\ running' = running /\ tree' = tree /\ chain_file' = chain_file /\ mempool' = mempool
        /\ mempool_file' = mempool_file /\ job' = job /\ seen_tx' \subseteq seen_tx
        /\ mined' = mined /\ universe' = universe /\ activated' = activated
    BY <1>13 DEF RejectTx, SeenUnderCap, disk, env
  <2>2. Shapes' /\ Live'
    BY <1>1, <2>1 DEF Shapes, Live
  <2>3. QED
    BY <2>1, <2>2
<1>14. CASE UNCHANGED vars
  <2>1. /\ running' = running /\ tree' = tree /\ chain_file' = chain_file /\ mempool' = mempool
        /\ mempool_file' = mempool_file /\ job' = job /\ seen_tx' = seen_tx
        /\ mined' = mined /\ universe' = universe /\ activated' = activated
    BY <1>14 DEF vars, disk, env
  <2>2. Shapes' /\ Live'
    BY <1>1, <2>1 DEF Shapes, Live
  <2>3. QED
    BY <2>1, <2>2
<1>15. QED
  BY <1>2, <1>3, <1>4, <1>5, <1>6, <1>7, <1>8, <1>9, <1>10, <1>11, <1>12, <1>13, <1>14 DEF Next

\* The invariant holds in every state.
LEMMA NodeInvCorrect == Spec => []NodeInv
<1>1. QED
  BY NodeInit, NodeStep, PTL DEF Spec

\* Type correctness: the files, the tree and what waits are always well formed,
\* whatever the process dies in the middle of.
THEOREM TypeCorrect == Spec => []TypeOK
<1>1. NodeInv => TypeOK
  <2> SUFFICES ASSUME NodeInv PROVE TypeOK
    OBVIOUS
  <2>1. /\ running \in BOOLEAN /\ activated \in BOOLEAN
        /\ mempool \in Seq(Txs) /\ seen_tx \subseteq Txs
        /\ mined # None => mined \in Block
    BY DEF NodeInv, Shapes
  <2>2. \A h \in DOMAIN tree : /\ tree[h].block \in Block /\ tree[h].v2 \in BOOLEAN
                               /\ tree[h].after \in Ledger
    <3>1. CASE running
      BY <3>1, TreeFacts DEF NodeInv, Live
    <3>2. CASE ~running
      BY <3>2 DEF NodeInv, EmptyTree
    <3>3. QED
      BY <3>1, <3>2
  <2>3. chain_file # None => chain_file.lines \in Seq(Block \cup {JUNK})
    BY DEF NodeInv, Shapes, File
  <2>4. mempool_file.lines \in Seq(Txs \cup {JUNK})
    BY DEF NodeInv, Shapes, File
  <2>5. \A h \in DOMAIN universe : universe[h] \in Block
    BY DEF NodeInv, Shapes, Universes
  <2>6. QED
    BY <2>1, <2>2, <2>3, <2>4, <2>5 DEF TypeOK
<1>2. QED
  BY <1>1, NodeInvCorrect, PTL

\* Whatever write failed, was torn or was cut by a crash, a restart invents
\* nothing and no admitted transaction vanishes without a trace (accept_block,
\* append_block, load_tree, podar_nonces_gastados, podar_mempool_por_regla).
THEOREM FaultsCorrect == Spec => []FaultsAreContained
<1>1. NodeInv => FaultsAreContained
  <2> SUFFICES ASSUME NodeInv PROVE FaultsAreContained
    OBVIOUS
  <2>1. RestartNeverInvents
    BY DEF NodeInv, Live, Part, RestartNeverInvents
  <2>2. TxNeverVanishes
    BY DEF NodeInv, Accounted, TxNeverVanishes
  <2>3. QED
    BY <2>1, <2>2 DEF FaultsAreContained
<1>2. QED
  BY <1>1, NodeInvCorrect, PTL

\* The miner never works on a block the node would refuse, failed writes and
\* crashes included (build_candidate, apply_tx_sin_rastro).
THEOREM JobAdmissibleCorrect == Spec => []JobIsAdmissible
<1>1. NodeInv => JobIsAdmissible
  BY DEF NodeInv, Live, Admissible, JobIsAdmissible
<1>2. QED
  BY <1>1, NodeInvCorrect, PTL

----------------------------------------------------------------------------
(* While no write fails (a crash may tear one).                           *)

\* What a write that cannot fail does.
LEMMA WriteSucceeds ==
    ASSUME "fail" \notin Faults, NEW file, NEW record, NEW r \in WriteResults(file, record)
    PROVE  r = [file |-> AppendTo(file, record), ok |-> TRUE]
BY DEF WriteResults

\* The candidate follows the head and the mempool.
LEMMA CandidateFollows ==
    ASSUME NEW t, NEW pending, NEW clock
    PROVE  LET c == BuildCandidate(t, pending, clock)
           IN c.prev = HeadOf(t) /\ c.txs = BuildCandidate(t, pending, c.late).txs
<1> DEFINE c == BuildCandidate(t, pending, clock)
<1>1. c.prev = HeadOf(t) /\ c.late = clock
  BY DEF BuildCandidate
<1> HIDE DEF c
<1>2. c.txs = BuildCandidate(t, pending, c.late).txs
  BY <1>1 DEF c
<1>3. QED
  BY <1>1, <1>2 DEF c

\* Every handler that changes the tree or the mempool refreshes the job.
LEMMA JobFollowsStep ==
    ASSUME "fail" \notin Faults, JobFollowsHead, [Next]_vars
    PROVE  JobFollowsHead'
<1>1. ASSUME NEW b, InsertAndAppend(b, FALSE) PROVE FALSE
  <2>1. PICK write \in WriteResults(chain_file, b) : write.ok = FALSE
    BY <1>1 DEF InsertAndAppend
  <2>2. QED
    BY <2>1, WriteSucceeds
<1>2. CASE RefreshCandidate
  BY <1>2, CandidateFollows DEF RefreshCandidate, JobFollowsHead
<1>3. CASE UNCHANGED <<running, tree, mempool, job>>
  BY <1>3 DEF JobFollowsHead
<1>4. CASE ~running'
  BY <1>4 DEF JobFollowsHead
<1>5. CASE InitChain
  BY <1>3, <1>5 DEF InitChain
<1>6. CASE Boot
  BY <1>2, <1>6 DEF Boot
<1>7. CASE Crash
  BY <1>4, <1>7 DEF Crash, Stop
<1>8. CASE MinerFinds
  BY <1>3, <1>8 DEF MinerFinds
<1>9. CASE OnMined
  BY <1>2, <1>9 DEF OnMined
<1>10. CASE Tick
  <2>1. CASE job' = BuildCandidate(tree, mempool', activated)
    <3>1. tree' = tree
      BY <1>10 DEF Tick
    <3>2. RefreshCandidate
      BY <2>1, <3>1 DEF RefreshCandidate
    <3>3. QED
      BY <1>2, <3>2
  <2>2. CASE job' # BuildCandidate(tree, mempool', activated)
    <3>1. running' = running /\ tree' = tree /\ mempool' = mempool /\ job' = job
      BY <1>10, <2>2 DEF Tick
    <3>2. QED
      BY <1>3, <3>1
  <2>3. QED
    BY <2>1, <2>2
<1>11. CASE PassActivation
  BY <1>3, <1>11 DEF PassActivation
<1>12. ASSUME NEW b, NewBlock(b) PROVE JobFollowsHead'
  BY <1>2, <1>12 DEF NewBlock
<1>13. ASSUME NEW b, NewBlockUnsaved(b) PROVE JobFollowsHead'
  BY <1>1, <1>13 DEF NewBlockUnsaved, AcceptUnsaved
<1>14. ASSUME NEW b, CrashAccepting(b) PROVE JobFollowsHead'
  BY <1>4, <1>14 DEF CrashAccepting, Stop
<1>15. ASSUME NEW tx, AcceptTx(tx) PROVE JobFollowsHead'
  <2>1. tree' = tree /\ job' = BuildCandidate(tree, mempool', activated)
    BY <1>15 DEF AcceptTx
  <2>2. RefreshCandidate
    BY <2>1 DEF RefreshCandidate
  <2>3. QED
    BY <1>2, <2>2
<1>16. ASSUME NEW tx, RejectTx(tx) PROVE JobFollowsHead'
  BY <1>3, <1>16 DEF RejectTx
<1>17. CASE UNCHANGED vars
  BY <1>3, <1>17 DEF vars
<1>18. QED
  BY <1>5, <1>6, <1>7, <1>8, <1>9, <1>10, <1>11, <1>12, <1>13, <1>14, <1>15, <1>16, <1>17 DEF Next

\* Where no write fails, crashes or not, the miner works on the head, on a block
\* the node would admit, with the body that would be chosen again now
\* (refresh_candidate).
THEOREM JobCorrect ==
    ASSUME "fail" \notin Faults
    PROVE  Spec => []JobIsSound
<1>1. Init => JobFollowsHead
  BY DEF Init, JobFollowsHead
<1>2. JobFollowsHead /\ [Next]_vars => JobFollowsHead'
  BY JobFollowsStep
<1>3. Spec => []JobFollowsHead
  BY <1>1, <1>2, PTL DEF Spec
<1>4. QED
  BY <1>3, JobAdmissibleCorrect, PTL DEF JobIsSound

----------------------------------------------------------------------------
(* What a crash costs.                                                     *)

\* load_tree gives back the tree, but for two blocks at most.
LosesTwo(file, t) ==
    \E a, b \in DOMAIN t : DOMAIN t \ DOMAIN LoadTree(file) \subseteq {a, b}

\* The file of a running node: read again it gives the tree, if no line is bad
\* or the last one still lacks its newline; if only the last is bad, two blocks
\* may be missing.
Recoverable(file, t) ==
    /\ file.lines # <<>>
    /\ (\A i \in DOMAIN file.lines : file.lines[i] # JUNK) => LoadTree(file) = t
    /\ file.whole = FALSE => LoadTree(file) = t
    /\ Loads(file) => LosesTwo(file, t)

\* What is read again without loss loses no two blocks.
LEMMA NothingLost ==
    ASSUME NEW file, NEW t \in Trees, LoadTree(file) = t
    PROVE  LosesTwo(file, t)
<1>1. PICK a \in DOMAIN t : TRUE
  BY DEF Trees
<1>2. DOMAIN t \ DOMAIN LoadTree(file) \subseteq {a, a}
  OBVIOUS
<1>3. QED
  BY <1>2 DEF LosesTwo

\* A block appended to a file that ends in a newline: a bad last line becomes
\* an interior one, and a file without bad lines gives the block back.
LEMMA AppendToWhole ==
    ASSUME NEW file \in File(Block), NEW t \in Trees, Recoverable(file, t),
           file.whole = TRUE, NEW b \in Block, Admits(t, b)
    PROVE  Recoverable(AppendTo(file, b), Inserted(t, b))
<1> DEFINE longer == AppendTo(file, b)
           old == file.lines
           new == longer.lines
           n == Len(old)
<1>1. old \in Seq(Block \cup {JUNK}) /\ b # JUNK /\ n \in Nat /\ n > 0
  BY NodeAssumption DEF File, Recoverable
<1>2. longer.whole = TRUE /\ new = Append(old, b) /\ longer \in File(Block)
  BY WriteTypes DEF AppendTo
<1> HIDE DEF longer
<1>3. /\ new \in Seq(Block \cup {JUNK}) /\ Len(new) = n + 1 /\ new[n + 1] = b
      /\ \A i \in 1..n : new[i] = old[i]
  BY <1>1, <1>2, AppendProperties
<1>4. new # <<>> /\ DOMAIN new = 1..(n + 1) /\ DOMAIN old = 1..n
  BY <1>1, <1>3
<1>5. ASSUME \A i \in DOMAIN new : new[i] # JUNK PROVE LoadTree(longer) = Inserted(t, b)
  <2>1. \A i \in DOMAIN old : i \in DOMAIN new /\ old[i] # JUNK
    BY <1>1, <1>3, <1>4, <1>5
  <2>2. LoadTree(file) = t
    BY <2>1 DEF Recoverable
  <2>3. LoadTree(longer) = Readmit(t, b)
    BY <1>1, <1>2, <2>2, LoadTreeAppend DEF Recoverable
  <2>4. QED
    BY <1>1, <2>3 DEF Readmit
<1>6. ASSUME Loads(longer) PROVE LosesTwo(longer, Inserted(t, b))
  <2>1. \A i \in DOMAIN new : new[i] = JUNK => i = n + 1
    BY <1>3, <1>6 DEF Loads
  <2>2. \A i \in DOMAIN new : new[i] # JUNK
    BY <1>1, <1>3, <2>1
  <2>3. QED
    BY <1>5, <2>2, InsertedFacts, NothingLost
<1>7. QED
  BY <1>2, <1>4, <1>5, <1>6 DEF longer, Recoverable

\* A block appended to a torn line spoils it: the block is lost with the one
\* whose newline was missing, if that is what the line held.
LEMMA AppendToTorn ==
    ASSUME NEW file \in File(Block), NEW t \in Trees, Recoverable(file, t),
           file.whole = FALSE, NEW b \in Block, Admits(t, b)
    PROVE  Recoverable(AppendTo(file, b), Inserted(t, b))
<1> DEFINE fused == AppendTo(file, b)
           old == file.lines
           n == Len(old)
<1>1. old \in Seq(Block \cup {JUNK}) /\ n \in Nat /\ n > 0 /\ LoadTree(file) = t
  BY DEF File, Recoverable
<1>2. /\ fused.whole = TRUE /\ fused.lines = [old EXCEPT ![n] = JUNK]
      /\ fused \in File(Block)
  BY WriteTypes DEF AppendTo
<1> HIDE DEF fused
<1>3. fused.lines # <<>> /\ n \in DOMAIN fused.lines /\ fused.lines[n] = JUNK
  BY <1>1, <1>2
<1>4. PICK last \in DOMAIN t : DOMAIN t \subseteq DOMAIN LoadTree(fused) \cup {last}
  BY <1>1, <1>2, LoadTreeSpoiled
<1>5. DOMAIN Inserted(t, b) = DOMAIN t \cup {b.hash}
  BY InsertedFacts
<1>6. DOMAIN Inserted(t, b) \ DOMAIN LoadTree(fused) \subseteq {last, b.hash}
  BY <1>4, <1>5
<1>7. LosesTwo(fused, Inserted(t, b))
  BY <1>4, <1>5, <1>6 DEF LosesTwo
<1>8. QED
  BY <1>2, <1>3, <1>7 DEF fused, Recoverable

\* What every step keeps.
Survives == running => Recoverable(chain_file, tree)

\* accept_block, when no write fails.
LEMMA AcceptSurvives ==
    ASSUME "fail" \notin Faults, NodeInv, Survives, running,
           NEW b \in Block, NEW ok, InsertAndAppend(b, ok)
    PROVE  Survives'
<1>1. chain_file \in File(Block) /\ tree \in Trees /\ chain_file.whole \in BOOLEAN
  BY DEF NodeInv, Live, File
<1>2. Admits(tree, b) /\ tree' = Inserted(tree, b)
  BY DEF InsertAndAppend
<1>3. chain_file' = AppendTo(chain_file, b)
  <2>1. PICK write \in WriteResults(chain_file, b) : chain_file' = write.file
    BY DEF InsertAndAppend
  <2>2. QED
    BY <2>1, WriteSucceeds
<1>4. Recoverable(chain_file, tree)
  BY DEF Survives
<1>5. Recoverable(AppendTo(chain_file, b), Inserted(tree, b))
  BY <1>1, <1>2, <1>4, AppendToWhole, AppendToTorn
<1>6. Recoverable(chain_file', tree')
  BY <1>2, <1>3, <1>5
<1>7. QED
  BY <1>6 DEF Survives

\* Every step keeps it: only a start and an accepted block touch a running
\* node's tree or chain.jsonl.
LEMMA SurvivesStep ==
    ASSUME "fail" \notin Faults, NodeInv, NodeInv', Survives, [Next]_vars
    PROVE  Survives'
<1>1. universe \in Universes /\ mined \in Block \cup {None}
  BY DEF NodeInv, Shapes
<1>2. CASE UNCHANGED <<running, tree, chain_file>>
  BY <1>2 DEF Survives
<1>3. CASE ~running'
  BY <1>3 DEF Survives
<1>4. ASSUME running, NEW b \in Block, AcceptBlock(b) \/ AcceptUnsaved(b) PROVE Survives'
  BY <1>4, AcceptSurvives DEF AcceptBlock, AcceptUnsaved
<1>5. CASE Boot
  <2>1. chain_file' = chain_file /\ tree' = LoadTree(chain_file) /\ Loads(chain_file)
        /\ running'
    BY <1>5 DEF Boot, disk
  <2>2. chain_file.lines # <<>>
    BY <2>1 DEF Loads
  <2>3. tree' \in Trees
    BY <2>1 DEF NodeInv, Live
  <2>4. LosesTwo(chain_file, tree')
    BY <2>1, <2>3, NothingLost
  <2>5. Recoverable(chain_file, tree')
    BY <2>1, <2>2, <2>4 DEF Recoverable
  <2>6. Recoverable(chain_file', tree')
    BY <2>1, <2>5
  <2>7. QED
    BY <2>6 DEF Survives
<1>6. CASE InitChain
  BY <1>3, <1>6 DEF InitChain
<1>7. CASE Crash
  BY <1>3, <1>7 DEF Crash, Stop
<1>8. CASE MinerFinds
  BY <1>2, <1>8 DEF MinerFinds, disk
<1>9. CASE OnMined
  <2>1. running /\ mined \in Block /\ running' = running
    BY <1>1, <1>9 DEF OnMined
  <2>2. CASE AcceptBlock(mined) \/ AcceptUnsaved(mined)
    BY <1>4, <2>1, <2>2
  <2>3. CASE UNCHANGED <<tree, disk, mempool>>
    BY <1>2, <2>1, <2>3 DEF disk
  <2>4. QED
    BY <1>9, <2>2, <2>3 DEF OnMined
<1>10. CASE Tick
  BY <1>2, <1>10 DEF Tick
<1>11. CASE PassActivation
  BY <1>2, <1>11 DEF PassActivation, disk
<1>12. ASSUME NEW b \in FromPeers, NewBlock(b) \/ NewBlockUnsaved(b) PROVE Survives'
  <2>1. running /\ b \in Block /\ (AcceptBlock(b) \/ AcceptUnsaved(b))
    BY <1>1, <1>12, PeersSendBlocks DEF NewBlock, NewBlockUnsaved
  <2>2. QED
    BY <1>4, <2>1
<1>13. ASSUME NEW b, CrashAccepting(b) PROVE Survives'
  BY <1>3, <1>13 DEF CrashAccepting, Stop
<1>14. ASSUME NEW tx \in Txs, AcceptTx(tx) \/ RejectTx(tx) PROVE Survives'
  BY <1>2, <1>14 DEF AcceptTx, RejectTx, disk
<1>15. CASE UNCHANGED vars
  BY <1>2, <1>15 DEF vars, disk
<1>16. QED
  BY <1>5, <1>6, <1>7, <1>8, <1>9, <1>10, <1>11, <1>12, <1>13, <1>14, <1>15 DEF Next

\* However often the process dies, and wherever in accept_block, its writes torn
\* or not: a file without a bad line gives the whole tree back, and one whose
\* last line is bad all of it but two blocks.  (A write that fails while the
\* process lives on is the other fault: it costs the blocks not written, and
\* FaultsCorrect says what it never costs.)
THEOREM CrashCorrect ==
    ASSUME "fail" \notin Faults
    PROVE  Spec => []CrashCostsOnlyTheTail
<1>1. Init => Survives
  BY DEF Init, Survives
<1>2. NodeInv /\ NodeInv' /\ Survives /\ [Next]_vars => Survives'
  BY SurvivesStep
<1>3. Spec => []Survives
  BY <1>1, <1>2, NodeInvCorrect, PTL DEF Spec
<1>4. Survives /\ NodeInv => CrashCostsOnlyTheTail
  <2> SUFFICES ASSUME Survives, NodeInv, running PROVE CrashCostsOnlyTheTail
    BY DEF CrashCostsOnlyTheTail
  <2> DEFINE lines == chain_file.lines
  <2>1. /\ lines \in Seq(Block \cup {JUNK}) /\ Recoverable(chain_file, tree)
        /\ Part(LoadTree(chain_file), tree)
    BY DEF Survives, NodeInv, Live, File
  <2>2. ASSUME JUNK \notin ToSet(lines)
        PROVE  Loads(chain_file) /\ LoadTree(chain_file) = tree
    <3>1. \A i \in DOMAIN lines : lines[i] # JUNK
      BY <2>2 DEF ToSet
    <3>2. lines # <<>>
      BY <2>1 DEF Recoverable
    <3>3. 1 \in DOMAIN lines
      BY <2>1, <3>2
    <3>4. LoadTree(chain_file) = tree
      BY <2>1, <3>1 DEF Recoverable
    <3>5. QED
      BY <3>1, <3>3, <3>4 DEF Loads
  <2>3. ASSUME Loads(chain_file) PROVE LosesTwo(chain_file, tree)
    BY <2>1, <2>3 DEF Recoverable
  <2>4. QED
    BY <2>1, <2>2, <2>3 DEF CrashCostsOnlyTheTail, Part, LosesTwo
<1>5. QED
  BY <1>3, <1>4, NodeInvCorrect, PTL
=============================================================================
