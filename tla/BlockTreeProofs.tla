------------------------- MODULE BlockTreeProofs -------------------------
(***************************************************************************)
(* Theorems about BlockTree for every universe of blocks, every parameter  *)
(* of the retarget, every tie-break score and every activation date.       *)
(*                                                                         *)
(* The walks of the tree are recursive functions of the map of nodes; the  *)
(* lemmas state them for an arbitrary map N, so that they apply to nodes   *)
(* and to nodes' alike.                                                    *)
(***************************************************************************)
EXTENDS BlockTreeRefinement, NatSetInduction, FiniteSetTheorems

\* Every block, whatever its bits, adds at least one unit of work.
LEMMA DifficultyIsPositive ==
    ASSUME NEW bits \in Nat
    PROVE  DifficultyFromBits(bits) \in Nat \ {0}
<1>1. CASE bits = 0
  BY <1>1, MaxTargetAssumption DEF DifficultyFromBits
<1>2. CASE bits # 0
  <2>1. MaxTarget \div bits \in Int
    BY <1>2, MaxTargetAssumption
  <2>2. QED
    BY <1>2, <2>1 DEF DifficultyFromBits, AtLeast
<1>3. QED
  BY <1>1, <1>2

\* The genesis is not its own parent: no block has the zero hash.
LEMMA GenesisFacts ==
    /\ genesis \in Hashes
    /\ GenesisBlock \in Block
    /\ GenesisBlock.prev = ZERO_HASH
    /\ GenesisBlock.height = 0
    /\ ZERO_HASH \notin Hashes
BY GenesisAssumption, HashAssumption DEF genesis, Block, ZERO_HASH

\* Applying a block to a ledger, whether or not it is valid there, leaves a
\* ledger.
LEMMA ApplyBlockType ==
    ASSUME NEW st \in Ledger, NEW b \in Block
    PROVE  ApplyBlock(st, b) \in Ledger
BY DEF ApplyBlock, Ledger, Block

\* The ledger of an empty branch is well formed.
LEMMA EmptyLedgerType == EmptyLedger \in Ledger
BY DEF EmptyLedger, Ledger

----------------------------------------------------------------------------
(* Trees and the walk back to the genesis.                                 *)

\* What a child inherits from its parent in the map of nodes N.
EdgeOK(N, h) ==
    LET p == N[h].block.prev
    IN /\ p \in DOMAIN N
       /\ N[h].block.height = N[p].block.height + 1
       /\ N[h].cum_work > N[p].cum_work
       /\ N[p].firma_v2 => N[h].firma_v2
       /\ N[p].dubai => N[h].dubai
       /\ N[p].vivienda => N[h].vivienda

IsTree(N) ==
    /\ \A h \in DOMAIN N : N[h] \in Node /\ (N[h].vivienda => N[h].dubai)
    /\ genesis \in DOMAIN N
    /\ N[genesis].block.height = 0 /\ N[genesis].block.prev = ZERO_HASH
    /\ \A h \in DOMAIN N : h # genesis => EdgeOK(N, h)

WalkIn(N, h) ==
    LET back[i \in 0..N[h].block.height] ==
            IF i = 0 THEN h ELSE N[back[i - 1]].block.prev
    IN back

\* W follows prev_hash from h for as many steps as h is high.
IsWalk(N, h, W) ==
    W = [i \in 0..N[h].block.height |-> IF i = 0 THEN h ELSE N[W[i - 1]].block.prev]

\* The height of an admitted block is a natural number.
LEMMA HeightType ==
    ASSUME NEW N, IsTree(N), NEW h \in DOMAIN N
    PROVE  N[h].block.height \in Nat
BY DEF IsTree, Node, Block

\* A parent is in the tree, one block lower.
LEMMA ParentBelow ==
    ASSUME NEW N, IsTree(N), NEW h \in DOMAIN N, h # genesis
    PROVE  /\ N[h].block.prev \in DOMAIN N
           /\ N[N[h].block.prev].block.height \in Nat
           /\ N[h].block.height = N[N[h].block.prev].block.height + 1
<1>1. EdgeOK(N, h)
  BY DEF IsTree
<1>2. QED
  BY <1>1, HeightType DEF EdgeOK

\* A walk stays inside the tree and descends one block per step.
LEMMA WalkDescends ==
    ASSUME NEW N, IsTree(N), NEW h \in DOMAIN N, NEW W, IsWalk(N, h, W)
    PROVE  \A i \in 0..N[h].block.height :
              /\ W[i] \in DOMAIN N
              /\ N[W[i]].block.height = N[h].block.height - i
<1> DEFINE H == N[h].block.height
           S == {i \in Nat : i <= H => /\ W[i] \in DOMAIN N
                                       /\ N[W[i]].block.height = H - i}
<1>0. H \in Nat
  BY HeightType
<1>1. 0 \in S
  <2>1. W[0] = h
    BY <1>0 DEF IsWalk
  <2>2. QED
    BY <2>1, <1>0
<1>2. ASSUME NEW i \in Nat, i \in S
      PROVE  i + 1 \in S
  <2>1. SUFFICES ASSUME i + 1 <= H
                 PROVE  /\ W[i + 1] \in DOMAIN N
                        /\ N[W[i + 1]].block.height = H - (i + 1)
    OBVIOUS
  <2>2. W[i] \in DOMAIN N /\ N[W[i]].block.height = H - i
    BY <1>2, <2>1, <1>0
  <2>3. W[i] # genesis
    BY <2>1, <2>2, <1>0 DEF IsTree
  <2>4. EdgeOK(N, W[i])
    BY <2>2, <2>3 DEF IsTree
  <2>5. W[i + 1] = N[W[i]].block.prev
    <3>1. i + 1 \in 0..H /\ i + 1 # 0 /\ (i + 1) - 1 = i
      BY <2>1, <1>0
    <3>2. QED
      BY <3>1 DEF IsWalk
  <2>6. N[W[i + 1]].block.height \in Nat
    BY <2>4, <2>5, HeightType DEF EdgeOK
  <2>7. QED
    BY <2>2, <2>4, <2>5, <2>6, <1>0 DEF EdgeOK
<1>3. Nat \subseteq S
  <2> HIDE DEF S
  <2>1. QED
    BY <1>1, <1>2, InductionOverNat
<1>4. QED
  BY <1>0, <1>3

\* The walk of a block is the block followed by the walk of its parent.
LEMMA WalkOfChild ==
    ASSUME NEW N, IsTree(N), NEW h \in DOMAIN N, h # genesis,
           NEW W, IsWalk(N, N[h].block.prev, W)
    PROVE  IsWalk(N, h, [i \in 0..N[h].block.height |-> IF i = 0 THEN h ELSE W[i - 1]])
<1> DEFINE p == N[h].block.prev
           H == N[h].block.height
           V == [i \in 0..H |-> IF i = 0 THEN h ELSE W[i - 1]]
<1>1. p \in DOMAIN N /\ N[p].block.height = H - 1 /\ H \in Nat /\ H - 1 \in Nat
  BY HeightType, ParentBelow
<1>2. ASSUME NEW i \in 0..H
      PROVE  V[i] = IF i = 0 THEN h ELSE N[V[i - 1]].block.prev
  <2>1. CASE i = 0
    BY <2>1
  <2>2. CASE i = 1
    <3>1. W[0] = p
      BY <1>1 DEF IsWalk
    <3>2. V[0] = h
      BY <1>1
    <3>3. QED
      BY <2>2, <3>1, <3>2
  <2>3. CASE i # 0 /\ i # 1
    <3>1. i - 1 \in 0..(H - 1) /\ i - 1 # 0 /\ i - 1 \in 0..H /\ (i - 1) - 1 = i - 2
      BY <2>3, <1>1
    <3>2. W[i - 1] = N[W[i - 2]].block.prev
      BY <3>1, <1>1 DEF IsWalk
    <3>3. V[i - 1] = W[i - 2]
      BY <3>1
    <3>4. QED
      BY <2>3, <3>2, <3>3
  <2>4. QED
    BY <2>1, <2>2, <2>3
<1>3. V = [i \in 0..H |-> IF i = 0 THEN h ELSE N[V[i - 1]].block.prev]
  BY <1>2
<1> HIDE DEF V
<1>4. IsWalk(N, h, V)
  BY <1>3 DEF IsWalk
<1>5. QED
  BY <1>4 DEF V

\* There is a walk from every block of the tree, so WalkIn is one.
LEMMA WalkExists ==
    ASSUME NEW N, IsTree(N), NEW h \in DOMAIN N
    PROVE  IsWalk(N, h, WalkIn(N, h))
<1> DEFINE S == {n \in Nat : \A x \in DOMAIN N :
                    N[x].block.height = n => \E V : IsWalk(N, x, V)}
<1>1. 0 \in S
  <2>1. SUFFICES ASSUME NEW x \in DOMAIN N, N[x].block.height = 0
                 PROVE  \E V : IsWalk(N, x, V)
    OBVIOUS
  <2> DEFINE V == [i \in 0..0 |-> x]
  <2>2. V = [i \in 0..0 |-> IF i = 0 THEN x ELSE N[V[i - 1]].block.prev]
    OBVIOUS
  <2> HIDE DEF V
  <2>3. QED
    BY <2>1, <2>2 DEF IsWalk
<1>2. ASSUME NEW n \in Nat, n \in S
      PROVE  n + 1 \in S
  <2>1. SUFFICES ASSUME NEW x \in DOMAIN N, N[x].block.height = n + 1
                 PROVE  \E V : IsWalk(N, x, V)
    OBVIOUS
  <2>2. x # genesis
    BY <2>1 DEF IsTree
  <2>3. N[x].block.prev \in DOMAIN N /\ N[N[x].block.prev].block.height = n
    BY <2>1, <2>2, ParentBelow
  <2>4. PICK V : IsWalk(N, N[x].block.prev, V)
    BY <1>2, <2>3
  <2>5. QED
    BY <2>2, <2>4, WalkOfChild
<1>3. Nat \subseteq S
  <2> HIDE DEF S
  <2>1. QED
    BY <1>1, <1>2, InductionOverNat
<1>4. \E V : IsWalk(N, h, V)
  BY <1>3, HeightType
<1>5. WalkIn(N, h) = CHOOSE V : IsWalk(N, h, V)
  BY DEF WalkIn, IsWalk
<1>6. QED
  BY <1>4, <1>5

\* And there is only one.
LEMMA WalkUnique ==
    ASSUME NEW N, IsTree(N), NEW h \in DOMAIN N,
           NEW V, IsWalk(N, h, V), NEW W, IsWalk(N, h, W)
    PROVE  V = W
<1> DEFINE H == N[h].block.height
           S == {i \in Nat : i <= H => V[i] = W[i]}
<1>0. H \in Nat
  BY HeightType
<1>1. 0 \in S
  BY <1>0 DEF IsWalk
<1>2. ASSUME NEW i \in Nat, i \in S
      PROVE  i + 1 \in S
  <2>1. SUFFICES ASSUME i + 1 <= H
                 PROVE  V[i + 1] = W[i + 1]
    OBVIOUS
  <2>2. i + 1 \in 0..H /\ i + 1 # 0 /\ (i + 1) - 1 = i /\ V[i] = W[i]
    BY <1>2, <2>1, <1>0
  <2>3. V[i + 1] = N[V[i]].block.prev
    BY <2>2 DEF IsWalk
  <2>4. W[i + 1] = N[W[i]].block.prev
    BY <2>2 DEF IsWalk
  <2>5. QED
    BY <2>2, <2>3, <2>4
<1>3. Nat \subseteq S
  <2> HIDE DEF S
  <2>1. QED
    BY <1>1, <1>2, InductionOverNat
<1>4. \A i \in 0..H : V[i] = W[i]
  BY <1>0, <1>3
<1>5. V = [i \in 0..H |-> V[i]] /\ W = [i \in 0..H |-> W[i]]
  BY DEF IsWalk
<1>6. QED
  BY <1>4, <1>5

----------------------------------------------------------------------------
(* The chain of a block and the ledgers along it.                          *)

ChainIn(N, h) ==
    LET n == N[h].block.height + 1
    IN [i \in 1..n |-> WalkIn(N, h)[n - i]]

CtxIn(N, h) == Ctx(N[h].firma_v2, N[h].dubai, N[h].vivienda)

IsStates(N, h, A) ==
    A = [i \in 0..(N[h].block.height + 1) |->
            IF i = 0 THEN EmptyLedger
            ELSE ApplyBlock(A[i - 1], N[ChainIn(N, h)[i]].block)]

StatesIn(N, h) ==
    LET after[i \in 0..(N[h].block.height + 1)] ==
            IF i = 0 THEN EmptyLedger
            ELSE ApplyBlock(after[i - 1], N[ChainIn(N, h)[i]].block)
    IN after

ReplayIn(N, h) == StatesIn(N, h)[N[h].block.height + 1]
ReplaysIn(N, h) ==
    \A i \in 1..(N[h].block.height + 1) :
        BlockApplies(StatesIn(N, h)[i - 1], N[ChainIn(N, h)[i]].block, i - 1,
                     CtxIn(N, ChainIn(N, h)[i]))

\* The chain stays inside the tree and ends in its block.
LEMMA ChainType ==
    ASSUME NEW N, IsTree(N), NEW h \in DOMAIN N
    PROVE  /\ ChainIn(N, h) \in [1..(N[h].block.height + 1) -> DOMAIN N]
           /\ ChainIn(N, h)[N[h].block.height + 1] = h
<1> DEFINE H == N[h].block.height
           W == WalkIn(N, h)
<1>1. H \in Nat
  BY HeightType
<1>2. IsWalk(N, h, W)
  BY WalkExists
<1> HIDE DEF W
<1>3. \A i \in 0..H : W[i] \in DOMAIN N
  BY <1>2, WalkDescends
<1>4. W[0] = h
  BY <1>1, <1>2 DEF IsWalk
<1>5. ChainIn(N, h) = [i \in 1..(H + 1) |-> W[(H + 1) - i]]
  BY DEF ChainIn, W
<1>6. \A i \in 1..(H + 1) : (H + 1) - i \in 0..H
  BY <1>1
<1>7. H + 1 \in 1..(H + 1) /\ (H + 1) - (H + 1) = 0
  BY <1>1
<1>8. QED
  BY <1>3, <1>4, <1>5, <1>6, <1>7

\* The chain of a block is its parent's chain followed by the block.
LEMMA ChainOfChild ==
    ASSUME NEW N, IsTree(N), NEW h \in DOMAIN N, h # genesis
    PROVE  \A i \in 1..N[h].block.height :
              ChainIn(N, h)[i] = ChainIn(N, N[h].block.prev)[i]
<1> DEFINE p == N[h].block.prev
           H == N[h].block.height
           W == WalkIn(N, p)
           V == [i \in 0..H |-> IF i = 0 THEN h ELSE W[i - 1]]
<1>1. p \in DOMAIN N /\ H \in Nat /\ H # 0 /\ N[p].block.height = H - 1
  BY HeightType, ParentBelow
<1>2. IsWalk(N, p, W)
  BY <1>1, WalkExists
<1>3. IsWalk(N, h, V)
  <2> HIDE DEF W
  <2>1. QED
    BY <1>2, WalkOfChild
<1>4. WalkIn(N, h) = V
  <2>1. IsWalk(N, h, WalkIn(N, h))
    BY WalkExists
  <2> HIDE DEF V
  <2>2. QED
    BY <2>1, <1>3, WalkUnique
<1>5. SUFFICES ASSUME NEW i \in 1..H
               PROVE  ChainIn(N, h)[i] = ChainIn(N, p)[i]
  OBVIOUS
<1> HIDE DEF W
<1>6. ChainIn(N, p)[i] = W[H - i]
  <2>1. (H - 1) + 1 = H
    BY <1>1
  <2>2. QED
    BY <1>1, <2>1 DEF ChainIn, W
<1>7. ChainIn(N, h)[i] = V[(H + 1) - i]
  <2>1. i \in 1..(H + 1)
    BY <1>1
  <2>2. QED
    BY <1>4, <2>1 DEF ChainIn
<1>8. V[(H + 1) - i] = W[H - i]
  <2>1. (H + 1) - i \in 0..H /\ (H + 1) - i # 0 /\ ((H + 1) - i) - 1 = H - i
    BY <1>1
  <2>2. QED
    BY <2>1
<1>9. QED
  BY <1>6, <1>7, <1>8

\* The ledgers along a branch are those of the parent's branch and one more.
LEMMA StatesOfChild ==
    ASSUME NEW N, IsTree(N), NEW h \in DOMAIN N, h # genesis,
           NEW A, IsStates(N, N[h].block.prev, A)
    PROVE  IsStates(N, h,
              [i \in 0..(N[h].block.height + 1) |->
                  IF i = N[h].block.height + 1
                  THEN ApplyBlock(A[N[h].block.height], N[h].block) ELSE A[i]])
<1> DEFINE p == N[h].block.prev
           H == N[h].block.height
           B == [i \in 0..(H + 1) |->
                    IF i = H + 1 THEN ApplyBlock(A[H], N[h].block) ELSE A[i]]
<1>1. p \in DOMAIN N /\ H \in Nat /\ H # 0 /\ N[p].block.height = H - 1
  BY HeightType, ParentBelow
<1>2. A = [i \in 0..H |-> IF i = 0 THEN EmptyLedger
                          ELSE ApplyBlock(A[i - 1], N[ChainIn(N, p)[i]].block)]
  <2>1. (H - 1) + 1 = H
    BY <1>1
  <2>2. QED
    BY <1>1, <2>1 DEF IsStates
<1>3. ASSUME NEW i \in 0..(H + 1)
      PROVE  B[i] = IF i = 0 THEN EmptyLedger
                    ELSE ApplyBlock(B[i - 1], N[ChainIn(N, h)[i]].block)
  <2>1. CASE i = 0
    <3>1. i \in 0..H /\ i # H + 1
      BY <2>1, <1>1
    <3>2. B[i] = A[i]
      BY <3>1
    <3>3. A[i] = EmptyLedger
      BY <2>1, <3>1, <1>2
    <3>4. QED
      BY <2>1, <3>2, <3>3
  <2>2. CASE i = H + 1
    <3>1. ChainIn(N, h)[i] = h
      BY <2>2, ChainType
    <3>2. i # 0 /\ i - 1 = H /\ H \in 0..(H + 1) /\ H # H + 1
      BY <2>2, <1>1
    <3>3. B[i - 1] = A[H]
      BY <3>2
    <3>4. B[i] = ApplyBlock(A[H], N[h].block)
      BY <2>2
    <3>5. QED
      BY <3>1, <3>2, <3>3, <3>4
  <2>3. CASE i # 0 /\ i # H + 1
    <3>1. i \in 1..H /\ i \in 0..H /\ i - 1 \in 0..(H + 1) /\ i - 1 # H + 1
      BY <2>3, <1>1
    <3>2. ChainIn(N, h)[i] = ChainIn(N, p)[i]
      BY <3>1, ChainOfChild
    <3>3. A[i] = ApplyBlock(A[i - 1], N[ChainIn(N, p)[i]].block)
      BY <3>1, <2>3, <1>2
    <3>4. B[i] = A[i] /\ B[i - 1] = A[i - 1]
      BY <3>1, <2>3
    <3>5. QED
      BY <2>3, <3>2, <3>3, <3>4
  <2>4. QED
    BY <2>1, <2>2, <2>3
<1>4. B = [i \in 0..(H + 1) |-> IF i = 0 THEN EmptyLedger
                                ELSE ApplyBlock(B[i - 1], N[ChainIn(N, h)[i]].block)]
  BY <1>3
<1> HIDE DEF B
<1>5. IsStates(N, h, B)
  BY <1>4 DEF IsStates
<1>6. QED
  BY <1>5 DEF B

\* The ledgers along the branch of the genesis: the empty one and its own.
LEMMA StatesOfGenesis ==
    ASSUME NEW N, IsTree(N)
    PROVE  IsStates(N, genesis,
              [i \in 0..1 |-> IF i = 0 THEN EmptyLedger
                              ELSE ApplyBlock(EmptyLedger, N[genesis].block)])
<1> DEFINE A == [i \in 0..1 |-> IF i = 0 THEN EmptyLedger
                                ELSE ApplyBlock(EmptyLedger, N[genesis].block)]
<1>1. genesis \in DOMAIN N /\ N[genesis].block.height = 0
  BY DEF IsTree
<1>2. ChainIn(N, genesis)[1] = genesis
  BY <1>1, ChainType
<1>3. A = [i \in 0..1 |-> IF i = 0 THEN EmptyLedger
                          ELSE ApplyBlock(A[i - 1], N[ChainIn(N, genesis)[i]].block)]
  BY <1>2
<1> HIDE DEF A
<1>4. IsStates(N, genesis, A)
  BY <1>1, <1>3 DEF IsStates
<1>5. QED
  BY <1>4 DEF A

\* In a tree whose heights can be counted down, what the genesis has and a
\* child takes over from its parent holds of every block.
LEMMA TreeInduction ==
    ASSUME NEW N, IsTree(N), NEW G, genesis \in G,
           \A h \in DOMAIN N : h # genesis /\ N[h].block.prev \in G => h \in G
    PROVE  DOMAIN N \subseteq G
<1> DEFINE S == {n \in Nat : \A x \in DOMAIN N : N[x].block.height = n => x \in G}
<1>1. 0 \in S
  <2>1. SUFFICES ASSUME NEW x \in DOMAIN N, N[x].block.height = 0, x # genesis
                 PROVE  FALSE
    OBVIOUS
  <2>2. EdgeOK(N, x)
    BY <2>1 DEF IsTree
  <2>3. N[N[x].block.prev].block.height \in Nat
    BY <2>2, HeightType DEF EdgeOK
  <2>4. QED
    BY <2>1, <2>2, <2>3 DEF EdgeOK
<1>2. ASSUME NEW n \in Nat, n \in S
      PROVE  n + 1 \in S
  <2>1. SUFFICES ASSUME NEW x \in DOMAIN N, N[x].block.height = n + 1
                 PROVE  x \in G
    OBVIOUS
  <2>2. x # genesis
    BY <2>1 DEF IsTree
  <2>3. N[x].block.prev \in DOMAIN N /\ N[N[x].block.prev].block.height = n
    BY <2>1, <2>2, ParentBelow
  <2>4. QED
    BY <1>2, <2>2, <2>3
<1>3. Nat \subseteq S
  <2> HIDE DEF S
  <2>1. QED
    BY <1>1, <1>2, InductionOverNat
<1>4. QED
  BY <1>3, HeightType

\* Every admitted block has the ledgers of its branch.
LEMMA StatesExist ==
    ASSUME NEW N, IsTree(N), NEW h \in DOMAIN N
    PROVE  IsStates(N, h, StatesIn(N, h))
<1> DEFINE G == {x \in DOMAIN N : \E A : IsStates(N, x, A)}
<1>1. genesis \in G
  <2>1. genesis \in DOMAIN N
    BY DEF IsTree
  <2>2. QED
    BY <2>1, StatesOfGenesis
<1>2. \A x \in DOMAIN N : x # genesis /\ N[x].block.prev \in G => x \in G
  <2>1. SUFFICES ASSUME NEW x \in DOMAIN N, x # genesis,
                        NEW A, IsStates(N, N[x].block.prev, A)
                 PROVE  \E B : IsStates(N, x, B)
    OBVIOUS
  <2>2. QED
    BY <2>1, StatesOfChild
<1>3. DOMAIN N \subseteq G
  <2> HIDE DEF G
  <2>1. QED
    BY <1>1, <1>2, TreeInduction
<1>4. \E A : IsStates(N, h, A)
  BY <1>3
<1>5. StatesIn(N, h) = CHOOSE A : IsStates(N, h, A)
  BY DEF StatesIn, IsStates
<1>6. QED
  BY <1>4, <1>5

\* And no others.
LEMMA StatesUnique ==
    ASSUME NEW N, IsTree(N), NEW h \in DOMAIN N,
           NEW A, IsStates(N, h, A), NEW B, IsStates(N, h, B)
    PROVE  A = B
<1> DEFINE K == N[h].block.height + 1
           S == {i \in Nat : i <= K => A[i] = B[i]}
<1>0. K \in Nat
  BY HeightType
<1>1. 0 \in S
  BY <1>0 DEF IsStates
<1>2. ASSUME NEW i \in Nat, i \in S
      PROVE  i + 1 \in S
  <2>1. SUFFICES ASSUME i + 1 <= K
                 PROVE  A[i + 1] = B[i + 1]
    OBVIOUS
  <2>2. i + 1 \in 0..K /\ i + 1 # 0 /\ (i + 1) - 1 = i /\ A[i] = B[i]
    BY <1>2, <2>1, <1>0
  <2>3. A[i + 1] = ApplyBlock(A[i], N[ChainIn(N, h)[i + 1]].block)
    BY <2>2 DEF IsStates
  <2>4. B[i + 1] = ApplyBlock(B[i], N[ChainIn(N, h)[i + 1]].block)
    BY <2>2 DEF IsStates
  <2>5. QED
    BY <2>2, <2>3, <2>4
<1>3. Nat \subseteq S
  <2> HIDE DEF S
  <2>1. QED
    BY <1>1, <1>2, InductionOverNat
<1>4. \A i \in 0..K : A[i] = B[i]
  BY <1>0, <1>3
<1>5. A = [i \in 0..K |-> A[i]] /\ B = [i \in 0..K |-> B[i]]
  BY DEF IsStates
<1>6. QED
  BY <1>4, <1>5

\* A replay continues the replay of the parent with one block, and stands
\* when the parent's stands and the block applies on top of it.
LEMMA ReplayOfChild ==
    ASSUME NEW N, IsTree(N), NEW h \in DOMAIN N, h # genesis
    PROVE  LET p == N[h].block.prev
           IN /\ ReplayIn(N, h) = ApplyBlock(ReplayIn(N, p), N[h].block)
              /\ ReplaysIn(N, p) /\ BlockApplies(ReplayIn(N, p), N[h].block,
                                                 N[h].block.height, CtxIn(N, h))
                    => ReplaysIn(N, h)
<1> DEFINE p == N[h].block.prev
           H == N[h].block.height
           A == StatesIn(N, p)
           B == [i \in 0..(H + 1) |->
                    IF i = H + 1 THEN ApplyBlock(A[H], N[h].block) ELSE A[i]]
<1>1. p \in DOMAIN N /\ H \in Nat /\ H # 0 /\ N[p].block.height = H - 1 /\ (H - 1) + 1 = H
  BY HeightType, ParentBelow
<1>2. StatesIn(N, h) = B
  <2>1. IsStates(N, p, A)
    BY <1>1, StatesExist
  <2> HIDE DEF A
  <2>2. IsStates(N, h, B)
    BY <2>1, StatesOfChild
  <2>3. IsStates(N, h, StatesIn(N, h))
    BY StatesExist
  <2> HIDE DEF B
  <2>4. QED
    BY <2>2, <2>3, StatesUnique
<1>3. ReplayIn(N, p) = A[H]
  BY <1>1 DEF ReplayIn
<1> HIDE DEF A
<1>4. ReplayIn(N, h) = ApplyBlock(A[H], N[h].block)
  BY <1>1, <1>2 DEF ReplayIn
<1>5. ASSUME ReplaysIn(N, p), BlockApplies(A[H], N[h].block, H, CtxIn(N, h))
      PROVE  ReplaysIn(N, h)
  <2>1. SUFFICES ASSUME NEW i \in 1..(H + 1)
                 PROVE  BlockApplies(B[i - 1], N[ChainIn(N, h)[i]].block, i - 1,
                                     CtxIn(N, ChainIn(N, h)[i]))
    BY <1>2 DEF ReplaysIn
  <2>2. B[i - 1] = A[i - 1]
    BY <1>1
  <2>3. CASE i = H + 1
    <3>1. ChainIn(N, h)[i] = h /\ i - 1 = H
      BY <2>3, <1>1, ChainType
    <3>2. QED
      BY <3>1, <2>2, <1>5
  <2>4. CASE i # H + 1
    <3>1. i \in 1..H
      BY <2>4, <1>1
    <3>2. ChainIn(N, h)[i] = ChainIn(N, p)[i]
      BY <3>1, ChainOfChild
    <3>3. i \in 1..(N[p].block.height + 1)
      BY <3>1, <1>1
    <3>4. BlockApplies(A[i - 1], N[ChainIn(N, p)[i]].block, i - 1,
                       CtxIn(N, ChainIn(N, p)[i]))
      BY <3>3, <1>5 DEF ReplaysIn, A
    <3>5. QED
      BY <2>2, <3>2, <3>4
  <2>5. QED
    BY <2>3, <2>4
<1>6. QED
  BY <1>3, <1>4, <1>5

\* The ledger of a block of the tree is a ledger.
LEMMA ReplayType ==
    ASSUME NEW N, IsTree(N), NEW h \in DOMAIN N
    PROVE  ReplayIn(N, h) \in Ledger
<1> DEFINE G == {x \in DOMAIN N : ReplayIn(N, x) \in Ledger}
<1>1. genesis \in G
  <2> DEFINE A == [i \in 0..1 |-> IF i = 0 THEN EmptyLedger
                                  ELSE ApplyBlock(EmptyLedger, N[genesis].block)]
  <2>1. genesis \in DOMAIN N /\ N[genesis].block.height = 0 /\ N[genesis].block \in Block
    BY DEF IsTree, Node
  <2>2. IsStates(N, genesis, A) /\ IsStates(N, genesis, StatesIn(N, genesis))
    BY <2>1, StatesOfGenesis, StatesExist
  <2>3. A[1] = ApplyBlock(EmptyLedger, N[genesis].block)
    OBVIOUS
  <2> HIDE DEF A
  <2>4. StatesIn(N, genesis) = A
    BY <2>1, <2>2, StatesUnique
  <2>5. A[1] \in Ledger
    BY <2>1, <2>3, ApplyBlockType, EmptyLedgerType
  <2>6. QED
    BY <2>1, <2>4, <2>5 DEF ReplayIn
<1>2. \A x \in DOMAIN N : x # genesis /\ N[x].block.prev \in G => x \in G
  <2>1. SUFFICES ASSUME NEW x \in DOMAIN N, x # genesis, N[x].block.prev \in G
                 PROVE  x \in G
    OBVIOUS
  <2>2. N[x].block \in Block
    BY DEF IsTree, Node
  <2>3. QED
    BY <2>1, <2>2, ReplayOfChild, ApplyBlockType
<1>3. DOMAIN N \subseteq G
  <2> HIDE DEF G
  <2>1. QED
    BY <1>1, <1>2, TreeInduction
<1>4. QED
  BY <1>3

\* Nothing a branch computes changes when the tree grows elsewhere.
LEMMA GrownTree ==
    ASSUME NEW N, IsTree(N), NEW M, IsTree(M),
           DOMAIN N \subseteq DOMAIN M, \A x \in DOMAIN N : M[x] = N[x],
           NEW h \in DOMAIN N
    PROVE  /\ ChainIn(M, h) = ChainIn(N, h)
           /\ ReplayIn(M, h) = ReplayIn(N, h)
           /\ ReplaysIn(M, h) <=> ReplaysIn(N, h)
<1> DEFINE H == N[h].block.height
           W == WalkIn(N, h)
           A == StatesIn(N, h)
<1>1. H \in Nat /\ M[h] = N[h] /\ h \in DOMAIN M
  BY HeightType
<1>2. WalkIn(M, h) = W
  <2>1. IsWalk(N, h, W)
    BY WalkExists
  <2> HIDE DEF W
  <2>2. \A i \in 0..H : W[i] \in DOMAIN N
    BY <2>1, WalkDescends
  <2>3. \A i \in 0..H : i # 0 => M[W[i - 1]] = N[W[i - 1]]
    BY <1>1, <2>2
  <2>4. IsWalk(M, h, W)
    BY <1>1, <2>1, <2>3 DEF IsWalk
  <2>5. IsWalk(M, h, WalkIn(M, h))
    BY <1>1, WalkExists
  <2>6. QED
    BY <1>1, <2>4, <2>5, WalkUnique
<1>3. ChainIn(M, h) = ChainIn(N, h)
  BY <1>1, <1>2 DEF ChainIn
<1>4. \A i \in 1..(H + 1) : ChainIn(N, h)[i] \in DOMAIN N
  BY ChainType
<1>5. StatesIn(M, h) = A
  <2>1. IsStates(N, h, A)
    BY StatesExist
  <2> HIDE DEF A
  <2>2. \A i \in 0..(H + 1) : i # 0 => M[ChainIn(N, h)[i]] = N[ChainIn(N, h)[i]]
    BY <1>1, <1>4
  <2>3. IsStates(M, h, A)
    BY <1>1, <1>3, <2>1, <2>2 DEF IsStates
  <2>4. IsStates(M, h, StatesIn(M, h))
    BY <1>1, StatesExist
  <2>5. QED
    BY <1>1, <2>3, <2>4, StatesUnique
<1>6. ReplayIn(M, h) = ReplayIn(N, h)
  BY <1>1, <1>5 DEF ReplayIn
<1>7. \A i \in 1..(H + 1) : M[ChainIn(N, h)[i]] = N[ChainIn(N, h)[i]]
  BY <1>4
<1>8. ReplaysIn(M, h) <=> ReplaysIn(N, h)
  <2> HIDE DEF A
  <2>1. QED
    BY <1>1, <1>3, <1>5, <1>7 DEF ReplaysIn, CtxIn, A
<1>9. QED
  BY <1>3, <1>6, <1>8

\* The operators of BlockTree are the lemmas' operators on the map nodes.
LEMMA TreeOperators ==
    \A h : /\ ChainTo(h) = ChainIn(nodes, h)
           /\ Replay(h) = ReplayIn(nodes, h)
           /\ Replays(h) <=> ReplaysIn(nodes, h)
<1> TAKE h
<1>1. \A x : ChainTo(x) = ChainIn(nodes, x)
  BY DEF ChainTo, WalkBack, Parent, ChainIn, WalkIn
<1>2. StatesAlong(h) = StatesIn(nodes, h)
  BY <1>1 DEF StatesAlong, StatesIn
<1>3. QED
  BY <1>1, <1>2 DEF Replay, ReplayIn, Replays, ReplaysIn, CtxOf, CtxIn

----------------------------------------------------------------------------
(* The inductive invariant.                                                *)

TreeInv ==
    /\ TypeOK
    /\ TipsAreLeaves
    /\ IsTree(nodes)
    /\ BranchesReplay

\* The tree starts with the genesis alone.
LEMMA InitGenesis ==
    ASSUME Init
    PROVE  /\ IsTree(nodes)
           /\ DOMAIN nodes = {genesis} /\ nodes[genesis].block = GenesisBlock
<1> DEFINE n == nodes[genesis]
<1>1. DOMAIN nodes = {genesis}
  BY DEF Init
<1>2. /\ n.block = GenesisBlock
      /\ n.cum_work = DifficultyFromBits(GenesisBlock.bits)
      /\ n.firma_v2 = (GenesisBlock.timestamp >= FirmaV2Desde)
      /\ n.dubai = (GenesisBlock.timestamp >= DubaiDesde)
      /\ n.vivienda = (GenesisBlock.timestamp >= DubaiDesde
                          /\ GenesisBlock.timestamp >= ViviendaDesde)
      /\ n = [block |-> n.block, cum_work |-> n.cum_work, firma_v2 |-> n.firma_v2,
              dubai |-> n.dubai, vivienda |-> n.vivienda]
  BY DEF Init
<1>3. GenesisBlock.timestamp \in Nat /\ GenesisBlock.bits \in Nat
  BY GenesisFacts, TimeAssumption DEF Block
<1>4. n.firma_v2 \in BOOLEAN /\ n.dubai \in BOOLEAN /\ n.vivienda \in BOOLEAN
  BY <1>2
<1>5. n \in Node
  BY <1>2, <1>3, <1>4, GenesisFacts, DifficultyIsPositive DEF Node
<1>6. n.vivienda => n.dubai
  BY <1>2
<1>7. QED
  BY <1>1, <1>2, <1>5, <1>6, GenesisFacts DEF IsTree

\* insert puts the new block under a block of the tree, with what it inherits.
LEMMA InsertGrowsTree ==
    ASSUME TypeOK, IsTree(nodes), NEW b \in Candidates, Insert(b)
    PROVE  /\ IsTree(nodes')
           /\ DOMAIN nodes' = DOMAIN nodes \cup {b.hash}
           /\ \A x \in DOMAIN nodes : nodes'[x] = nodes[x]
           /\ b.hash \notin DOMAIN nodes /\ b.prev \in DOMAIN nodes
           /\ nodes'[b.hash].block = b
           /\ CtxIn(nodes', b.hash) = CtxSobre(b.prev, b.timestamp)
<1> DEFINE h == b.hash
           p == b.prev
           n == nodes'[h]
<1>1. b \in Block /\ b.hash \in Hashes /\ b.timestamp \in Nat /\ b.bits \in Nat
  BY CandidateAssumption, TimeAssumption DEF Block
<1>2. h \notin DOMAIN nodes /\ p \in DOMAIN nodes /\ h # p
  BY DEF Insert, Admissible
<1>3. DOMAIN nodes' = DOMAIN nodes \cup {h}
  BY DEF Insert, AddNode
<1>4. \A x \in DOMAIN nodes : nodes'[x] = nodes[x]
  BY <1>2 DEF Insert, AddNode
<1>5. n = [block |-> b,
           cum_work |-> WorkOn(b),
           firma_v2 |-> FirmaV2Sobre(p, b.timestamp),
           dubai |-> DubaiSobre(p, b.timestamp),
           vivienda |-> ViviendaSobre(p, b.timestamp)]
  BY DEF Insert, AddNode, NodeOn
<1>6. /\ n.block = b
      /\ n.cum_work = nodes[p].cum_work + DifficultyFromBits(b.bits)
      /\ n.firma_v2 = FirmaV2Sobre(p, b.timestamp)
      /\ n.dubai = DubaiSobre(p, b.timestamp)
      /\ n.vivienda = ViviendaSobre(p, b.timestamp)
  BY <1>5 DEF CumWork, WorkOn
<1>7. /\ nodes[p] \in Node /\ (nodes[p].vivienda => nodes[p].dubai)
      /\ nodes[p].cum_work \in Nat /\ nodes[p].firma_v2 \in BOOLEAN
      /\ nodes[p].dubai \in BOOLEAN /\ nodes[p].vivienda \in BOOLEAN
  BY <1>2 DEF IsTree, Node
<1>8. DifficultyFromBits(b.bits) \in Nat \ {0}
  BY <1>1, DifficultyIsPositive
<1>9. n.cum_work \in Nat /\ n.cum_work > nodes[p].cum_work
  BY <1>6, <1>7, <1>8
<1>10. FirmaV2Sobre(p, b.timestamp) \in BOOLEAN /\ DubaiSobre(p, b.timestamp) \in BOOLEAN
       /\ ViviendaSobre(p, b.timestamp) \in BOOLEAN
  BY DEF FirmaV2Sobre, DubaiSobre, ViviendaSobre
<1>11. n \in Node
  BY <1>1, <1>5, <1>6, <1>9, <1>10 DEF Node
<1>12. /\ nodes[p].firma_v2 => n.firma_v2
       /\ nodes[p].dubai => n.dubai
       /\ nodes[p].vivienda => n.vivienda
       /\ n.vivienda => n.dubai
  BY <1>6, <1>7 DEF FirmaV2Sobre, DubaiSobre, ViviendaSobre
<1>13. b.height = nodes[p].block.height + 1
  BY DEF Insert, Admissible
<1>14. nodes'[p] = nodes[p] /\ p \in DOMAIN nodes'
  BY <1>2, <1>3, <1>4
<1>15. EdgeOK(nodes', h)
  <2>1. n.block.prev = p /\ n.block.height = b.height
    BY <1>6
  <2> HIDE DEF n
  <2>2. QED
    BY <2>1, <1>9, <1>12, <1>13, <1>14 DEF EdgeOK, n
<1>16. \A x \in DOMAIN nodes : x # genesis => EdgeOK(nodes', x)
  BY <1>3, <1>4 DEF IsTree, EdgeOK
<1>17. IsTree(nodes')
  BY <1>3, <1>4, <1>11, <1>12, <1>15, <1>16 DEF IsTree
<1>18. CtxIn(nodes', h) = CtxSobre(p, b.timestamp)
  BY <1>6 DEF CtxIn, CtxSobre
<1>19. QED
  BY <1>2, <1>3, <1>4, <1>6, <1>17, <1>18

\* The invariant holds at the start.
LEMMA InitTreeInv == Init => TreeInv
<1> SUFFICES ASSUME Init PROVE TreeInv
  OBVIOUS
<1>1. IsTree(nodes) /\ DOMAIN nodes = {genesis} /\ nodes[genesis].block = GenesisBlock
  BY InitGenesis
<1>2. DOMAIN children = {} /\ tip_state = [h \in {genesis} |-> ApplyBlock(EmptyLedger, GenesisBlock)]
  BY DEF Init
<1>3. nodes = [x \in DOMAIN nodes |-> nodes[x]] /\ children = [x \in DOMAIN children |-> children[x]]
  BY DEF Init
<1>4. ApplyBlock(EmptyLedger, GenesisBlock) \in Ledger
  BY ApplyBlockType, EmptyLedgerType, GenesisFacts
<1>5. TypeOK
  <2>1. nodes \in [DOMAIN nodes -> Node]
    BY <1>1, <1>3 DEF IsTree
  <2>2. children \in [DOMAIN children -> SUBSET DOMAIN nodes]
    BY <1>2, <1>3
  <2>3. tip_state \in [DOMAIN tip_state -> Ledger]
    BY <1>2, <1>4
  <2>4. QED
    BY <1>1, <1>2, <2>1, <2>2, <2>3, GenesisFacts DEF TypeOK
<1>6. TipsAreLeaves
  BY <1>1, <1>2 DEF TipsAreLeaves, Tips
<1>7. BranchesReplay
  <2> DEFINE A == [i \in 0..1 |-> IF i = 0 THEN EmptyLedger
                                  ELSE ApplyBlock(EmptyLedger, nodes[genesis].block)]
  <2>1. StatesIn(nodes, genesis) = A
    <3>1. IsStates(nodes, genesis, A)
      BY <1>1, StatesOfGenesis
    <3> HIDE DEF A
    <3>2. genesis \in DOMAIN nodes
      BY <1>1
    <3>3. IsStates(nodes, genesis, StatesIn(nodes, genesis))
      BY <1>1, <3>2, StatesExist
    <3>4. QED
      BY <1>1, <3>1, <3>2, <3>3, StatesUnique
  <2>2. nodes[genesis].block.height = 0 /\ nodes[genesis].block.height + 1 = 1
    BY <1>1, GenesisFacts
  <2>3. ReplayIn(nodes, genesis) = tip_state[genesis]
    BY <1>1, <1>2, <2>1, <2>2 DEF ReplayIn
  <2>4. ReplaysIn(nodes, genesis)
    <3>1. GenesisBlock.tx = NoTx
      BY GenesisAssumption
    <3>2. ChainIn(nodes, genesis)[1] = genesis
      BY <1>1, <2>2, ChainType
    <3>3. BlockApplies(EmptyLedger, GenesisBlock, 0, CtxIn(nodes, genesis))
      BY <3>1, GenesisFacts DEF BlockApplies
    <3>4. A[0] = EmptyLedger
      OBVIOUS
    <3> HIDE DEF A
    <3>5. \A i \in 1..1 : i = 1 /\ i - 1 = 0
      OBVIOUS
    <3>6. QED
      BY <1>1, <2>1, <2>2, <3>2, <3>3, <3>4, <3>5 DEF ReplaysIn
  <2>5. QED
    BY <1>1, <1>2, <2>3, <2>4, TreeOperators DEF BranchesReplay, Tips
<1>8. QED
  BY <1>1, <1>5, <1>6, <1>7 DEF TreeInv

\* The state insert applies the new block to is the replay of its parent.
LEMMA ParentStateIsReplay ==
    ASSUME TreeInv, NEW p \in DOMAIN nodes
    PROVE  ParentState(p) = ReplayIn(nodes, p) /\ ParentState(p) \in Ledger
<1>1. ParentState(p) = ReplayIn(nodes, p)
  BY TreeOperators DEF ParentState, TreeInv, BranchesReplay, Tips
<1>2. QED
  BY <1>1, ReplayType DEF TreeInv

\* insert keeps the maps well formed.
LEMMA InsertTypeOK ==
    ASSUME TreeInv, NEW b \in Candidates, Insert(b)
    PROVE  TypeOK'
<1> DEFINE h == b.hash
           p == b.prev
<1>1. IsTree(nodes') /\ DOMAIN nodes' = DOMAIN nodes \cup {h} /\ p \in DOMAIN nodes
  BY InsertGrowsTree DEF TreeInv
<1>2. h \in Hashes /\ b \in Block
  BY CandidateAssumption DEF Block
<1>3. DOMAIN nodes' \subseteq Hashes
  BY <1>1, <1>2 DEF TreeInv, TypeOK
<1>4. nodes' \in [DOMAIN nodes' -> Node]
  <2>1. \A x \in DOMAIN nodes' : nodes'[x] \in Node
    BY <1>1 DEF IsTree
  <2>2. nodes' = [x \in DOMAIN nodes' |-> nodes'[x]]
    BY DEF Insert, AddNode
  <2>3. QED
    BY <2>1, <2>2
<1>5. DOMAIN children' = DOMAIN children \cup {p} /\ DOMAIN children' \subseteq DOMAIN nodes'
  BY <1>1 DEF Insert, AddChild, TreeInv, TypeOK
<1>6. children' \in [DOMAIN children' -> SUBSET DOMAIN nodes']
  <2>1. children' = [x \in DOMAIN children' |->
                        (IF x \in DOMAIN children THEN children[x] ELSE {})
                        \cup (IF x = p THEN {h} ELSE {})]
    BY <1>5 DEF Insert, AddChild
  <2>2. \A x \in DOMAIN children : children[x] \subseteq DOMAIN nodes
    BY DEF TreeInv, TypeOK
  <2>3. \A x \in DOMAIN children' : children'[x] \subseteq DOMAIN nodes'
    BY <1>1, <2>1, <2>2
  <2>4. QED
    BY <2>1, <2>3
<1>7. tip_state' = [x \in (DOMAIN tip_state \ {p}) \cup {h} |->
                       IF x = h THEN ApplyBlock(ParentState(p), b) ELSE tip_state[x]]
  BY DEF Insert, MoveTip
<1>8. ApplyBlock(ParentState(p), b) \in Ledger
  BY <1>1, <1>2, ParentStateIsReplay, ApplyBlockType
<1>9. \A x \in DOMAIN tip_state : tip_state[x] \in Ledger
  BY DEF TreeInv, TypeOK
<1>10. tip_state' \in [DOMAIN tip_state' -> Ledger] /\ DOMAIN tip_state' \subseteq DOMAIN nodes'
  BY <1>1, <1>7, <1>8, <1>9 DEF TreeInv, TypeOK
<1>11. QED
  BY <1>3, <1>4, <1>5, <1>6, <1>10 DEF TypeOK

\* insert keeps a cached ledger for the leaves and for nothing else.
LEMMA InsertTipsAreLeaves ==
    ASSUME TreeInv, NEW b \in Candidates, Insert(b)
    PROVE  TipsAreLeaves'
<1> DEFINE h == b.hash
           p == b.prev
<1>1. /\ DOMAIN nodes' = DOMAIN nodes \cup {h}
      /\ h \notin DOMAIN nodes /\ p \in DOMAIN nodes
      /\ genesis \in DOMAIN nodes
      /\ nodes'[h].block.prev = p
      /\ \A x \in DOMAIN nodes : nodes'[x] = nodes[x]
  BY InsertGrowsTree DEF TreeInv, IsTree
<1>2. Tips' = (Tips \ {p}) \cup {h} /\ DOMAIN children' = DOMAIN children \cup {p}
  BY DEF Insert, AddChild, MoveTip, Tips
<1>3. DOMAIN children \subseteq DOMAIN nodes
  BY DEF TreeInv, TypeOK
<1>4. Tips' = DOMAIN nodes' \ DOMAIN children'
  BY <1>1, <1>2, <1>3 DEF TreeInv, TipsAreLeaves
<1>5. \A c \in DOMAIN nodes : Parent(c)' = Parent(c)
  BY <1>1 DEF Parent
<1>6. Parent(h)' = p
  BY <1>1 DEF Parent
<1>7. DOMAIN children' = {Parent(c)' : c \in DOMAIN nodes' \ {genesis}}
  <2>1. DOMAIN nodes' \ {genesis} = (DOMAIN nodes \ {genesis}) \cup {h}
    BY <1>1
  <2>2. DOMAIN children = {Parent(c) : c \in DOMAIN nodes \ {genesis}}
    BY DEF TreeInv, TipsAreLeaves
  <2>3. QED
    BY <1>2, <1>5, <1>6, <2>1, <2>2
<1>8. SUFFICES ASSUME NEW x \in DOMAIN children'
               PROVE  children'[x] = {c \in DOMAIN nodes' : Parent(c)' = x}
  BY <1>4, <1>7 DEF TipsAreLeaves
<1>9. children'[x] = (IF x \in DOMAIN children THEN children[x] ELSE {})
                     \cup (IF x = p THEN {h} ELSE {})
  BY <1>2, <1>8 DEF Insert, AddChild
<1>10. (IF x \in DOMAIN children THEN children[x] ELSE {}) = {c \in DOMAIN nodes : Parent(c) = x}
  <2>1. CASE x \in DOMAIN children
    BY <2>1 DEF TreeInv, TipsAreLeaves
  <2>2. CASE x \notin DOMAIN children
    <3>1. x \in DOMAIN nodes
      BY <1>1, <1>2, <1>3
    <3>2. \A c \in DOMAIN nodes : c # genesis => Parent(c) # x
      BY <2>2 DEF TreeInv, TipsAreLeaves
    <3>3. Parent(genesis) # x
      BY <3>1, GenesisFacts DEF TreeInv, IsTree, Parent, TypeOK
    <3>4. QED
      BY <2>2, <3>2, <3>3
  <2>3. QED
    BY <2>1, <2>2
<1>11. {c \in DOMAIN nodes' : Parent(c)' = x}
          = {c \in DOMAIN nodes : Parent(c) = x} \cup (IF x = p THEN {h} ELSE {})
  BY <1>1, <1>5, <1>6
<1>12. QED
  BY <1>9, <1>10, <1>11

\* insert keeps every branch replayable, and the ledger it caches the replayed one.
LEMMA InsertBranchesReplay ==
    ASSUME TreeInv, NEW b \in Candidates, Insert(b)
    PROVE  BranchesReplay'
<1> DEFINE h == b.hash
           p == b.prev
<1>1. /\ IsTree(nodes)
      /\ IsTree(nodes')
      /\ DOMAIN nodes' = DOMAIN nodes \cup {h}
      /\ \A x \in DOMAIN nodes : nodes'[x] = nodes[x]
      /\ h \notin DOMAIN nodes /\ p \in DOMAIN nodes /\ h # genesis
      /\ nodes'[h].block = b
      /\ CtxIn(nodes', h) = CtxSobre(p, b.timestamp)
  BY InsertGrowsTree DEF TreeInv, IsTree
<1>2. /\ \A x : Replay(x)' = ReplayIn(nodes', x)
      /\ \A x : Replays(x)' <=> ReplaysIn(nodes', x)
  <2>1. \A x : ChainTo(x)' = ChainIn(nodes', x)
    BY DEF ChainTo, WalkBack, Parent, ChainIn, WalkIn
  <2>2. \A x : StatesAlong(x)' = StatesIn(nodes', x)
    BY <2>1 DEF StatesAlong, StatesIn
  <2>3. QED
    BY <2>1, <2>2 DEF Replay, ReplayIn, Replays, ReplaysIn, CtxOf, CtxIn
<1>3. \A x \in DOMAIN nodes : /\ ReplayIn(nodes', x) = ReplayIn(nodes, x)
                              /\ ReplaysIn(nodes', x)
  <2>1. \A x \in DOMAIN nodes : ReplaysIn(nodes, x)
    BY TreeOperators DEF TreeInv, BranchesReplay
  <2>2. QED
    BY <1>1, <2>1, GrownTree
<1>4. ParentState(p) = ReplayIn(nodes, p)
  BY <1>1, ParentStateIsReplay
<1>5. ReplayIn(nodes', h) = ApplyBlock(ParentState(p), b)
  BY <1>1, <1>3, <1>4, ReplayOfChild
<1>6. ReplaysIn(nodes', h)
  <2>1. BlockApplies(ReplayIn(nodes, p), b, b.height, CtxSobre(p, b.timestamp))
    BY <1>4 DEF Insert, Admissible
  <2>2. BlockApplies(ReplayIn(nodes', p), nodes'[h].block, nodes'[h].block.height,
                     CtxIn(nodes', h))
    BY <1>1, <1>3, <2>1
  <2>3. nodes'[h].block.prev = p /\ h \in DOMAIN nodes'
    BY <1>1
  <2>4. QED
    BY <1>1, <1>3, <2>2, <2>3, ReplayOfChild
<1>7. \A t \in Tips' : tip_state'[t] = ReplayIn(nodes', t)
  <2>1. tip_state' = [x \in (DOMAIN tip_state \ {p}) \cup {h} |->
                         IF x = h THEN ApplyBlock(ParentState(p), b) ELSE tip_state[x]]
    BY DEF Insert, MoveTip
  <2>2. \A t \in Tips : tip_state[t] = ReplayIn(nodes, t) /\ t \in DOMAIN nodes
    BY TreeOperators DEF TreeInv, BranchesReplay, TypeOK, Tips
  <2>3. QED
    BY <1>3, <1>5, <2>1, <2>2 DEF Tips
<1>8. QED
  BY <1>1, <1>2, <1>3, <1>6, <1>7 DEF BranchesReplay

\* Every step keeps the invariant.
LEMMA StepTreeInv == TreeInv /\ [Next]_vars => TreeInv'
<1> SUFFICES ASSUME TreeInv, [Next]_vars PROVE TreeInv'
  OBVIOUS
<1>1. ASSUME NEW b \in Candidates, Insert(b)
      PROVE  TreeInv'
  BY <1>1, InsertTypeOK, InsertTipsAreLeaves, InsertBranchesReplay, InsertGrowsTree
     DEF TreeInv
<1>2. CASE UNCHANGED vars
  <2>1. nodes' = nodes /\ children' = children /\ tip_state' = tip_state
    BY <1>2 DEF vars
  <2>2. TypeOK' /\ TipsAreLeaves' /\ IsTree(nodes')
    BY <2>1 DEF TreeInv, TypeOK, TipsAreLeaves, Tips, Parent
  <2>3. BranchesReplay'
    <3>1. \A x : ChainTo(x)' = ChainTo(x)
      BY <2>1 DEF ChainTo, WalkBack, Parent
    <3>2. \A x : StatesAlong(x)' = StatesAlong(x)
      BY <2>1, <3>1 DEF StatesAlong
    <3>3. \A x : CtxOf(x)' = CtxOf(x)
      BY <2>1 DEF CtxOf
    <3>4. \A x : Replay(x)' = Replay(x) /\ (Replays(x)' <=> Replays(x))
      BY <2>1, <3>1, <3>2, <3>3 DEF Replay, Replays
    <3>5. QED
      BY <2>1, <3>4 DEF TreeInv, BranchesReplay, Tips
  <2>4. QED
    BY <2>2, <2>3 DEF TreeInv
<1>3. QED
  BY <1>1, <1>2 DEF Next

----------------------------------------------------------------------------
(* The fork choice.                                                        *)

\* There is a bound on the hashes and on the work of the blocks of the tree,
\* since there are finitely many: insert adds one at a time.
Bounded == \E n \in Nat : \A h \in DOMAIN nodes : h <= n /\ nodes[h].cum_work <= n

\* The genesis alone is bounded.
LEMMA InitBounded == Init => Bounded
<1> SUFFICES ASSUME Init PROVE Bounded
  OBVIOUS
<1>1. DOMAIN nodes = {genesis} /\ nodes[genesis].cum_work \in Nat /\ genesis \in Nat
  BY InitGenesis, GenesisFacts, HashAssumption DEF IsTree, Node
<1>2. genesis + nodes[genesis].cum_work \in Nat
  BY <1>1
<1>3. QED
  BY <1>1, <1>2 DEF Bounded

\* The block of a step adds one hash and one work, so another bound does.
LEMMA StepBounded == TreeInv /\ Bounded /\ [Next]_vars => Bounded'
<1> SUFFICES ASSUME TreeInv, Bounded, [Next]_vars PROVE Bounded'
  OBVIOUS
<1>1. ASSUME NEW b \in Candidates, Insert(b) PROVE Bounded'
  <2>1. PICK n \in Nat : \A h \in DOMAIN nodes : h <= n /\ nodes[h].cum_work <= n
    BY DEF Bounded
  <2>2. /\ IsTree(nodes') /\ DOMAIN nodes' = DOMAIN nodes \cup {b.hash}
        /\ \A x \in DOMAIN nodes : nodes'[x] = nodes[x]
    BY <1>1, InsertGrowsTree DEF TreeInv
  <2> DEFINE w == nodes'[b.hash].cum_work
  <2>3. w \in Nat /\ b.hash \in Nat
    BY <2>2, CandidateAssumption, HashAssumption DEF IsTree, Node, Block
  <2>4. \A h \in DOMAIN nodes : h \in Nat /\ nodes[h].cum_work \in Nat
    BY HashAssumption DEF TreeInv, TypeOK, Node
  <2> HIDE DEF w
  <2>5. n + w + b.hash \in Nat
    BY <2>3
  <2>6. \A h \in DOMAIN nodes' : h <= n + w + b.hash /\ nodes'[h].cum_work <= n + w + b.hash
    <3>1. TAKE h \in DOMAIN nodes'
    <3>2. CASE h = b.hash
      BY <2>3, <3>2 DEF w
    <3>3. CASE h \in DOMAIN nodes
      <4>1. h \in Nat /\ nodes[h].cum_work \in Nat /\ h <= n /\ nodes[h].cum_work <= n
        BY <2>1, <2>4, <3>3
      <4>2. nodes'[h] = nodes[h]
        BY <2>2, <3>3
      <4>3. QED
        BY <2>3, <4>1, <4>2
    <3>4. QED
      BY <2>2, <3>2, <3>3
  <2>7. QED
    BY <2>5, <2>6 DEF Bounded
<1>2. CASE UNCHANGED vars
  BY <1>2 DEF vars, Bounded
<1>3. QED
  BY <1>1, <1>2 DEF Next

\* A block with the most work is a tip: a child would have more.
LEMMA HeaviestIsTip ==
    ASSUME TreeInv, Bounded
    PROVE  \E t \in Tips : \A h \in DOMAIN nodes : CumWork(h) <= CumWork(t)
<1> DEFINE S == {nodes[h].cum_work : h \in DOMAIN nodes}
<1>1. \A h \in DOMAIN nodes : nodes[h].cum_work \in Nat
  BY DEF TreeInv, TypeOK, Node
<1>2. S \subseteq Nat
  BY <1>1
<1>3. genesis \in DOMAIN nodes
  BY DEF TreeInv, IsTree
<1>4. PICK n \in Nat : \A w \in S : w <= n
  BY DEF Bounded
<1>5. PICK w \in S : \A v \in S : v <= w
  <2>1. S # {}
    BY <1>3
  <2> HIDE DEF S
  <2>2. QED
    BY <1>2, <1>4, <2>1, GreatestOfNaturals
<1>6. PICK t \in DOMAIN nodes : nodes[t].cum_work = w
  BY <1>5
<1>7. t \in Tips
  <2>1. SUFFICES ASSUME t \notin Tips PROVE FALSE
    OBVIOUS
  <2>2. t \in DOMAIN children
    BY <1>6, <2>1 DEF TreeInv, TipsAreLeaves
  <2>3. PICK c \in DOMAIN nodes \ {genesis} : Parent(c) = t
    BY <2>2 DEF TreeInv, TipsAreLeaves
  <2>4. nodes[c].cum_work > nodes[t].cum_work
    BY <2>3 DEF TreeInv, IsTree, EdgeOK, Parent
  <2>5. nodes[c].cum_work <= w
    BY <1>5, <2>3
  <2>6. QED
    BY <1>1, <1>6, <2>3, <2>4, <2>5
<1>8. QED
  BY <1>5, <1>6, <1>7 DEF CumWork

\* The tips have a greatest hash.
LEMMA GreatestTip ==
    ASSUME TreeInv, Bounded
    PROVE  Max(Tips) \in Tips /\ Tips \subseteq Nat \ {0} /\ \A t \in Tips : t <= Max(Tips)
<1>1. Tips \subseteq DOMAIN nodes /\ Tips \subseteq Nat \ {0}
  BY HashAssumption DEF TreeInv, TypeOK, Tips, ZERO_HASH
<1>2. PICK n \in Nat : \A t \in Tips : t <= n
  BY <1>1 DEF Bounded
<1>3. Tips # {}
  BY HeaviestIsTip
<1>4. \E x \in Tips : \A y \in Tips : y <= x
  BY <1>1, <1>2, <1>3, GreatestOfNaturals
<1>5. \E x \in Tips : \A y \in Tips : x >= y
  BY <1>1, <1>4
<1>6. Max(Tips) \in Tips /\ \A y \in Tips : Max(Tips) >= y
  BY <1>5 DEF Max
<1>7. QED
  BY <1>1, <1>6

\* What one step of the scan keeps.
LEMMA BetterTipIs ==
    ASSUME NEW best, NEW tip
    PROVE  BetterTip(best, tip) = IF Replaces(tip, best) THEN tip ELSE best
  BY DEF BetterTip

\* The scan is the recursion its definition states.
LEMMA ScanRecursion ==
    ASSUME TreeInv, Bounded
    PROVE  \A k \in 0..Max(Tips) :
              Scan[k] = IF k = 0 THEN NoTip
                        ELSE IF k \in Tips THEN BetterTip(Scan[k - 1], k) ELSE Scan[k - 1]
<1> DEFINE m == Max(Tips)
           A == Tips \cup {NoTip}
           Body(f) == [k \in 0..m |-> IF k = 0 THEN NoTip
                                      ELSE IF k \in Tips THEN BetterTip(f[k - 1], k) ELSE f[k - 1]]
           step == [k \in 1..m |-> [x \in A |-> IF k \in Tips THEN BetterTip(x, k) ELSE x]]
<1>1. m \in Nat
  BY GreatestTip
<1>2. Scan = CHOOSE f : f = Body(f)
  BY DEF Scan
<1>3. \E f : f = Body(f)
  <2>1. step \in [1..m -> [A -> A]]
    <3>1. \A x \in A, k \in 1..m : BetterTip(x, k) \in {x, k}
      BY BetterTipIs
    <3>2. QED
      BY <3>1
  <2>2. NoTip \in A
    OBVIOUS
  <2>3. \A k \in 1..m, x \in A : step[k][x] = IF k \in Tips THEN BetterTip(x, k) ELSE x
    OBVIOUS
  <2> HIDE DEF step, m, A
  <2>4. \E f : IsRecursion(f, m, A, NoTip, step)
    BY <1>1, <2>1, <2>2, RecursionOverNat
  <2>5. PICK f \in [0..m -> A] : f[0] = NoTip /\ \A k \in 1..m : f[k] = step[k][f[k - 1]]
    BY <2>4 DEF IsRecursion
  <2>6. \A k \in 0..m : k # 0 => k \in 1..m /\ f[k - 1] \in A
    BY <1>1
  <2>7. \A k \in 0..m : f[k] = IF k = 0 THEN NoTip
                               ELSE IF k \in Tips THEN BetterTip(f[k - 1], k) ELSE f[k - 1]
    BY <2>3, <2>5, <2>6
  <2>8. f = Body(f)
    BY <2>5, <2>7
  <2>9. QED
    BY <2>8
<1> HIDE DEF Body
<1>4. Scan = Body(Scan)
  BY <1>2, <1>3
<1>5. QED
  BY <1>4 DEF Body

\* The scan of head ends on a tip, and no block of the tree has more work.
LEMMA HeadHeaviest == ASSUME TreeInv, Bounded PROVE HeadIsHeaviest
<1> DEFINE m == Max(Tips)
           Good(k) == /\ Scan[k] \in Tips \cup {NoTip}
                      /\ \A t \in Tips : t <= k => /\ Scan[k] \in Tips
                                                   /\ nodes[t].cum_work <= nodes[Scan[k]].cum_work
           S == {k \in Nat : k <= m => Good(k)}
<1>1. m \in Nat /\ m \in Tips /\ Tips \subseteq Nat \ {0} /\ \A t \in Tips : t <= m
  BY GreatestTip
<1>2. \A k \in 0..m : Scan[k] = IF k = 0 THEN NoTip
                      ELSE IF k \in Tips THEN BetterTip(Scan[k - 1], k) ELSE Scan[k - 1]
  BY ScanRecursion
<1>3. \A t \in Tips : t \in DOMAIN nodes /\ nodes[t].cum_work \in Nat
  BY DEF TreeInv, TypeOK, Node, Tips
<1>4. NoTip \notin Tips
  BY <1>1 DEF NoTip, ZERO_HASH
<1> HIDE DEF m
<1>5. 0 \in S
  <2>1. Scan[0] = NoTip
    BY <1>1, <1>2
  <2>2. \A t \in Tips : ~ (t <= 0)
    BY <1>1
  <2>3. QED
    BY <2>1, <2>2
<1>6. ASSUME NEW k \in Nat, k \in S PROVE k + 1 \in S
  <2>1. SUFFICES ASSUME k + 1 <= m PROVE Good(k + 1)
    OBVIOUS
  <2>2. Good(k) /\ k + 1 \in 0..m /\ k + 1 # 0 /\ (k + 1) - 1 = k
    BY <1>1, <1>6, <2>1
  <2>3. Scan[k + 1] = IF k + 1 \in Tips THEN BetterTip(Scan[k], k + 1) ELSE Scan[k]
    BY <1>2, <2>2
  <2>4. \A t \in Tips : t <= k + 1 => t <= k \/ t = k + 1
    BY <1>1
  <2>5. CASE k + 1 \notin Tips
    BY <2>2, <2>3, <2>4, <2>5
  <2>6. CASE k + 1 \in Tips
    <3>1. Scan[k + 1] = IF Replaces(k + 1, Scan[k]) THEN k + 1 ELSE Scan[k]
      BY <2>3, <2>6, BetterTipIs
    <3>2. CASE Scan[k] = NoTip
      <4>1. Scan[k + 1] = k + 1
        BY <3>1, <3>2 DEF Replaces
      <4>2. \A t \in Tips : t <= k + 1 => t = k + 1
        BY <1>4, <2>2, <2>4, <3>2
      <4>3. QED
        BY <1>3, <2>6, <4>1, <4>2
    <3>3. CASE Scan[k] \in Tips
      <4>1. CASE Replaces(k + 1, Scan[k])
        <5>1. nodes[Scan[k]].cum_work <= nodes[k + 1].cum_work
          BY <1>3, <1>4, <2>6, <3>3, <4>1 DEF Replaces, CumWork
        <5>2. QED
          BY <1>3, <2>2, <2>4, <2>6, <3>1, <3>3, <4>1, <5>1
      <4>2. CASE ~ Replaces(k + 1, Scan[k])
        <5>1. nodes[k + 1].cum_work <= nodes[Scan[k]].cum_work
          BY <1>3, <2>6, <3>3, <4>2 DEF Replaces, CumWork
        <5>2. QED
          BY <1>3, <2>2, <2>4, <2>6, <3>1, <3>3, <4>2, <5>1
      <4>3. QED
        BY <4>1, <4>2
    <3>4. QED
      BY <2>2, <3>2, <3>3
  <2>7. QED
    BY <2>5, <2>6
<1>7. Nat \subseteq S
  <2> HIDE DEF S
  <2>1. QED
    BY <1>5, <1>6, InductionOverNat
<1>8. Good(m)
  BY <1>1, <1>7
<1>9. ObserverHead = Scan[m]
  BY DEF ObserverHead, m
<1>10. ObserverHead \in Tips /\ \A t \in Tips : nodes[t].cum_work <= nodes[ObserverHead].cum_work
  BY <1>1, <1>8, <1>9
<1>11. PICK t \in Tips : \A h \in DOMAIN nodes : CumWork(h) <= CumWork(t)
  BY HeaviestIsTip
<1>12. ASSUME NEW h \in DOMAIN nodes PROVE CumWork(h) <= CumWork(ObserverHead)
  <2>1. CumWork(h) \in Nat /\ CumWork(t) \in Nat /\ CumWork(ObserverHead) \in Nat
    BY <1>10 DEF CumWork, TreeInv, TypeOK, Node, Tips
  <2>2. QED
    BY <1>10, <1>11, <2>1 DEF CumWork
<1>13. QED
  BY <1>10, <1>12 DEF HeadIsHeaviest

----------------------------------------------------------------------------
(* The theorems.                                                           *)

\* BlockTree::new and insert keep the three maps well formed.
THEOREM TypeCorrect == Spec => []TypeOK
<1>1. TreeInv => TypeOK
  BY DEF TreeInv
<1>2. QED
  BY InitTreeInv, StepTreeInv, <1>1, PTL DEF Spec

\* After every insert the cached states are exactly those of the leaves, and
\* children is the inverse of prev_hash.
THEOREM TipsCorrect == Spec => []TipsAreLeaves
<1>1. TreeInv => TipsAreLeaves
  BY DEF TreeInv
<1>2. QED
  BY InitTreeInv, StepTreeInv, <1>1, PTL DEF Spec

\* Every branch of the tree is valid from the empty ledger, and the state
\* cached for its tip is the one replay_state would compute: forking at an
\* interior block and extending a tip see the same ledger.
THEOREM ReplayCorrect == Spec => []BranchesReplay
<1>1. TreeInv => BranchesReplay
  BY DEF TreeInv
<1>2. QED
  BY InitTreeInv, StepTreeInv, <1>1, PTL DEF Spec

\* insert only adds: no admitted block is forgotten or rewritten.
THEOREM MemoryCorrect == Spec => NothingIsForgotten
<1>1. TreeInv /\ [Next]_vars
         => [\A h \in DOMAIN nodes : h \in DOMAIN nodes' /\ nodes'[h] = nodes[h]]_vars
  <2>1. ASSUME TreeInv, NEW b \in Candidates, Insert(b)
        PROVE  \A h \in DOMAIN nodes : h \in DOMAIN nodes' /\ nodes'[h] = nodes[h]
    BY <2>1, InsertGrowsTree DEF TreeInv
  <2>2. QED
    BY <2>1 DEF Next
<1>2. QED
  BY InitTreeInv, StepTreeInv, <1>1, PTL DEF Spec, NothingIsForgotten

\* Height and work grow along every branch and a rule in force stays in force.
THEOREM AdvanceCorrect == Spec => []BranchesOnlyAdvance
<1>1. ASSUME TreeInv
      PROVE  BranchesOnlyAdvance
  <2>1. SUFFICES ASSUME NEW h \in DOMAIN nodes, NEW a \in DOMAIN nodes,
                        Descends(h, a), a # h
                 PROVE  /\ nodes[a].block.height < nodes[h].block.height
                        /\ nodes[a].cum_work < nodes[h].cum_work
                        /\ nodes[a].firma_v2 => nodes[h].firma_v2
                        /\ nodes[a].dubai => nodes[h].dubai
                        /\ nodes[a].vivienda => nodes[h].vivienda
    BY DEF BranchesOnlyAdvance, CumWork
  <2> DEFINE Before(x) == /\ nodes[x].block.height < nodes[h].block.height
                          /\ nodes[x].cum_work < nodes[h].cum_work
                          /\ nodes[x].firma_v2 => nodes[h].firma_v2
                          /\ nodes[x].dubai => nodes[h].dubai
                          /\ nodes[x].vivienda => nodes[h].vivienda
             S == {x \in DOMAIN nodes : x = h \/ Before(x)}
  <2>2. \A x \in DOMAIN nodes : /\ nodes[x].block.height \in Nat
                                /\ nodes[x].cum_work \in Nat
                                /\ nodes[x].firma_v2 \in BOOLEAN
                                /\ nodes[x].dubai \in BOOLEAN
                                /\ nodes[x].vivienda \in BOOLEAN
    BY <1>1, HeightType DEF TreeInv, IsTree, Node
  <2>3. \A x \in S \ {genesis} : Parent(x) \in S
    <3>1. SUFFICES ASSUME NEW x \in S, x # genesis
                   PROVE  nodes[x].block.prev \in S
      BY DEF Parent
    <3>2. EdgeOK(nodes, x) /\ x \in DOMAIN nodes
      BY <1>1, <3>1 DEF TreeInv, IsTree
    <3>3. nodes[x].block.prev \in DOMAIN nodes
      BY <3>2 DEF EdgeOK
    <3>4. Before(nodes[x].block.prev)
      BY <2>2, <3>1, <3>2, <3>3 DEF EdgeOK
    <3>5. QED
      BY <3>3, <3>4
  <2>4. a \in S
    <3>1. h \in S /\ S \in SUBSET DOMAIN nodes
      OBVIOUS
    <3> HIDE DEF S
    <3>2. QED
      BY <2>1, <2>3, <3>1 DEF Descends
  <2>5. QED
    BY <2>1, <2>4
<1>2. QED
  BY InitTreeInv, StepTreeInv, <1>1, PTL DEF Spec

\* The observer follows a tip, and no block of the tree has more work: looking
\* at the tips alone, in the order of their hashes, is enough (head).
THEOREM HeadCorrect == Spec => []HeadIsHeaviest
<1>1. Spec => [](TreeInv /\ Bounded)
  BY InitTreeInv, StepTreeInv, InitBounded, StepBounded, PTL DEF Spec
<1>2. TreeInv /\ Bounded => HeadIsHeaviest
  BY HeadHeaviest
<1>3. QED
  BY <1>1, <1>2, PTL

(***************************************************************************)
(* The block tree implements the universe of legal histories, for every    *)
(* value of the constants: what a node inherits from its parent, what is   *)
(* cached for the tips and what insert checks is what the history of the   *)
(* block says when it is read from the genesis on.                         *)
(***************************************************************************)

\* The blocks of a map of nodes, and the history of h among them, oldest first.
Blocks(N) == [h \in DOMAIN N |-> N[h].block]
Past(N, h) == [i \in 1..(N[h].block.height + 1) |-> N[ChainIn(N, h)[i]].block]

\* B goes back from h along prev_hash, block by block.
IsBack(u, h, B) ==
    B = [i \in 1..(u[h].height + 1) |-> IF i = 1 THEN u[h] ELSE u[B[i - 1].prev]]

----------------------------------------------------------------------------
(* Histories.                                                              *)

\* The history of a block is a sequence of blocks that ends with it.
LEMMA PastType ==
    ASSUME NEW N, IsTree(N), NEW h \in DOMAIN N
    PROVE  /\ Past(N, h) \in Seq(Block)
           /\ Len(Past(N, h)) = N[h].block.height + 1
           /\ DOMAIN Past(N, h) = 1..(N[h].block.height + 1)
           /\ Past(N, h)[N[h].block.height + 1] = N[h].block
<1> DEFINE n == N[h].block.height + 1
<1>1. n \in Nat \ {0}
  BY HeightType
<1>2. ChainIn(N, h) \in [1..n -> DOMAIN N] /\ ChainIn(N, h)[n] = h
  BY ChainType
<1>3. \A x \in DOMAIN N : N[x].block \in Block
  BY DEF IsTree, Node
<1>4. Past(N, h) = [i \in 1..n |-> N[ChainIn(N, h)[i]].block]
  BY DEF Past
<1> HIDE DEF n
<1>5. Past(N, h) \in [1..n -> Block]
  BY <1>2, <1>3, <1>4
<1>6. Past(N, h)[n] = N[h].block
  BY <1>1, <1>2, <1>4
<1>7. QED
  BY <1>1, <1>5, <1>6 DEF n

\* Among the blocks of the tree, History is the chain that ChainTo walks.
LEMMA HistoryIsPast ==
    ASSUME NEW N, IsTree(N), NEW h \in DOMAIN N
    PROVE  Universe!History(Blocks(N), h) = Past(N, h)
<1> DEFINE u == Blocks(N)
           n == N[h].block.height + 1
           W == WalkIn(N, h)
           B == [i \in 1..n |-> N[W[i - 1]].block]
<1>1. n \in Nat \ {0} /\ u[h].height + 1 = n /\ u[h] = N[h].block /\ n - 1 = N[h].block.height
  BY HeightType DEF Blocks
<1>2. IsWalk(N, h, W)
  BY WalkExists
<1> HIDE DEF W
<1>3. \A i \in 0..(n - 1) : W[i] \in DOMAIN N
  BY <1>1, <1>2, WalkDescends
<1>4. W[0] = h /\ \A i \in 0..(n - 1) : i # 0 => W[i] = N[W[i - 1]].block.prev
  <2>1. 0 \in 0..(n - 1)
    BY <1>1
  <2>2. \A i \in 0..(n - 1) : W[i] = IF i = 0 THEN h ELSE N[W[i - 1]].block.prev
    BY <1>1, <1>2 DEF IsWalk
  <2>3. QED
    BY <2>1, <2>2
<1> DEFINE Body(F) == [i \in 1..n |-> IF i = 1 THEN u[h] ELSE u[F[i - 1].prev]]
<1>5. B = Body(B)
  <2>1. ASSUME NEW i \in 1..n PROVE B[i] = IF i = 1 THEN u[h] ELSE u[B[i - 1].prev]
    <3>1. i - 1 \in 0..(n - 1)
      BY <1>1
    <3>2. CASE i = 1
      BY <1>1, <1>4, <3>2
    <3>3. CASE i # 1
      <4>1. i - 1 \in 1..n /\ i - 1 # 0 /\ i - 1 - 1 \in 0..(n - 1)
        BY <1>1, <3>3
      <4>2. B[i - 1].prev = W[i - 1]
        BY <1>4, <3>1, <4>1
      <4>3. u[W[i - 1]] = N[W[i - 1]].block
        BY <1>3, <3>1 DEF Blocks
      <4>4. QED
        BY <3>3, <4>2, <4>3
    <3>4. QED
      BY <3>2, <3>3
  <2>2. QED
    BY <2>1
<1>6. ASSUME NEW F, F = Body(F) PROVE F = B
  <2> DEFINE S == {i \in Nat : i + 1 <= n => F[i + 1] = B[i + 1]}
  <2>1. \A i \in 1..n : F[i] = IF i = 1 THEN u[h] ELSE u[F[i - 1].prev]
    BY <1>6
  <2>2. \A i \in 1..n : B[i] = IF i = 1 THEN u[h] ELSE u[B[i - 1].prev]
    BY <1>5
  <2> HIDE DEF B, u
  <2>3. 0 \in S
    BY <1>1, <2>1, <2>2
  <2>4. ASSUME NEW i \in Nat, i \in S PROVE i + 1 \in S
    <3>1. SUFFICES ASSUME i + 1 + 1 <= n PROVE F[i + 1 + 1] = B[i + 1 + 1]
      OBVIOUS
    <3>2. i + 1 + 1 \in 1..n /\ i + 1 + 1 # 1 /\ i + 1 + 1 - 1 = i + 1 /\ i + 1 <= n
      BY <1>1, <3>1
    <3>3. F[i + 1] = B[i + 1]
      BY <2>4, <3>2
    <3>4. QED
      BY <2>1, <2>2, <3>2, <3>3
  <2>5. Nat \subseteq S
    <3> HIDE DEF S
    <3>1. QED
      BY <2>3, <2>4, InductionOverNat
  <2>6. \A i \in 1..n : F[i] = B[i]
    <3>1. TAKE i \in 1..n
    <3>2. i - 1 \in Nat /\ (i - 1) + 1 = i /\ i <= n
      BY <1>1
    <3>3. i - 1 \in S
      BY <2>5, <3>2
    <3>4. QED
      BY <3>2, <3>3
  <2>7. F = [i \in 1..n |-> F[i]]
    BY <1>6
  <2>8. B = [i \in 1..n |-> B[i]]
    BY DEF B
  <2>9. QED
    BY <2>6, <2>7, <2>8
<1>7. (CHOOSE F : F = Body(F)) = B
  <2> HIDE DEF Body, B
  <2>1. QED
    BY <1>5, <1>6
<1>8. Universe!History(u, h) = [i \in 1..n |-> (CHOOSE F : F = Body(F))[n + 1 - i]]
  <2> HIDE DEF u
  <2>1. QED
    BY <1>1 DEF Universe!History
<1>9. Universe!History(u, h) = [i \in 1..n |-> B[n + 1 - i]]
  BY <1>7, <1>8
<1>10. ASSUME NEW i \in 1..n PROVE B[n + 1 - i] = Past(N, h)[i]
  <2>1. B[n + 1 - i] = N[W[n - i]].block
    <3> DEFINE j == n + 1 - i
    <3> HIDE DEF n
    <3>1. j \in 1..n /\ j - 1 = n - i
      BY <1>1
    <3> HIDE DEF j
    <3>2. B[j] = N[W[j - 1]].block
      BY <3>1
    <3>3. B[j] = N[W[n - i]].block
      BY <3>1, <3>2
    <3>4. QED
      BY <3>3 DEF j
  <2>2. ChainIn(N, h)[i] = W[n - i]
    BY DEF ChainIn, W
  <2>3. Past(N, h)[i] = N[ChainIn(N, h)[i]].block
    BY DEF Past
  <2>4. QED
    BY <2>1, <2>2, <2>3
<1>11. Past(N, h) = [i \in 1..n |-> Past(N, h)[i]]
  BY DEF Past
<1> HIDE DEF B, n, u
<1>12. QED
  BY <1>9, <1>10, <1>11 DEF u

\* The history of a block is its parent's with the block added.
LEMMA PastOfChild ==
    ASSUME NEW N, IsTree(N), NEW h \in DOMAIN N, h # genesis
    PROVE  Past(N, h) = Append(Past(N, N[h].block.prev), N[h].block)
<1> DEFINE p == N[h].block.prev
           n == N[h].block.height
           P == Past(N, p)
           b == N[h].block
<1>1. p \in DOMAIN N /\ n \in Nat /\ N[p].block.height + 1 = n
  BY HeightType, ParentBelow
<1>2. P \in Seq(Block) /\ Len(P) = n /\ DOMAIN P = 1..n
  BY <1>1, PastType
<1>3. DOMAIN Past(N, h) = 1..(n + 1) /\ Past(N, h)[n + 1] = b
  BY PastType
<1>4. ASSUME NEW i \in 1..n PROVE Past(N, h)[i] = P[i]
  <2>1. ChainIn(N, h)[i] = ChainIn(N, p)[i] /\ i \in 1..(n + 1)
    BY <1>1, ChainOfChild
  <2>2. Past(N, h)[i] = N[ChainIn(N, h)[i]].block
    BY <2>1 DEF Past
  <2>3. P[i] = N[ChainIn(N, p)[i]].block
    BY <1>1 DEF Past
  <2>4. QED
    BY <2>1, <2>2, <2>3
<1>6. b \in Block
  BY DEF IsTree, Node
<1>7. Past(N, h) \in Seq(Block) /\ Len(Past(N, h)) = n + 1
  BY PastType
<1> HIDE DEF P, n, b
<1>8. /\ Append(P, b) \in Seq(Block) /\ Len(Append(P, b)) = n + 1
      /\ \A i \in 1..n : Append(P, b)[i] = P[i]
      /\ Append(P, b)[n + 1] = b
  BY <1>2, <1>6, AppendProperties
<1>9. \A i \in 1..(n + 1) : Past(N, h)[i] = Append(P, b)[i]
  BY <1>1, <1>3, <1>4, <1>8
<1>10. Past(N, h) = Append(P, b)
  BY <1>7, <1>8, <1>9, SeqEqual
<1>11. QED
  BY <1>10 DEF P, b

----------------------------------------------------------------------------
(* What is read off a history grows with it.                               *)

\* T adds up the work of past, block by block.
IsTotal(past, T) ==
    T = [i \in 0..Len(past) |->
            IF i = 0 THEN 0 ELSE T[i - 1] + DifficultyFromBits(past[i].bits)]

\* Every history has a running total of work, and it is a number.
LEMMA TotalExists ==
    ASSUME NEW past \in Seq(Block)
    PROVE  \E T \in [0..Len(past) -> Nat] : IsTotal(past, T)
<1> DEFINE n == Len(past)
           D == [i \in 1..n |-> DifficultyFromBits(past[i].bits)]
           step == [i \in 1..n |-> [x \in Nat |-> x + D[i]]]
<1>1. n \in Nat
  OBVIOUS
<1>2. \A i \in 1..n : D[i] \in Nat
  <2>1. \A x \in Block : DifficultyFromBits(x.bits) \in Nat
    BY DifficultyIsPositive DEF Block
  <2>2. \A i \in 1..n : past[i] \in Block
    OBVIOUS
  <2>3. QED
    BY <2>1, <2>2
<1>3. \A i \in 1..n : D[i] = DifficultyFromBits(past[i].bits)
  OBVIOUS
<1> HIDE DEF n, D
<1>4. step \in [1..n -> [Nat -> Nat]]
  BY <1>2
<1>5. \A i \in 1..n, x \in Nat : step[i][x] = x + D[i]
  OBVIOUS
<1> HIDE DEF step
<1>6. PICK T : IsRecursion(T, n, Nat, 0, step)
  BY <1>1, <1>4, RecursionOverNat
<1>7. T \in [0..n -> Nat] /\ T[0] = 0 /\ \A i \in 1..n : T[i] = step[i][T[i - 1]]
  BY <1>6 DEF IsRecursion
<1>8. \A i \in 0..n : i # 0 => i \in 1..n /\ T[i - 1] \in Nat
  BY <1>1, <1>7
<1>9. \A i \in 0..n : T[i] = IF i = 0 THEN 0
                              ELSE T[i - 1] + DifficultyFromBits(past[i].bits)
  BY <1>3, <1>5, <1>7, <1>8
<1>10. IsTotal(past, T)
  BY <1>7, <1>9 DEF IsTotal, n
<1>11. QED
  BY <1>7, <1>10 DEF n

\* WorkOf is the last value of the running total, whichever way it is reached.
LEMMA WorkIsTotal ==
    ASSUME NEW past \in Seq(Block)
    PROVE  \E T \in [0..Len(past) -> Nat] :
              /\ Universe!WorkOf(past) = T[Len(past)]
              /\ T[0] = 0
              /\ \A i \in 1..Len(past) : T[i] = T[i - 1] + DifficultyFromBits(past[i].bits)
<1> DEFINE n == Len(past)
           U == CHOOSE T : IsTotal(past, T)
<1>1. IsTotal(past, U)
  BY TotalExists
<1>2. Universe!WorkOf(past) = U[n]
  BY DEF Universe!WorkOf, IsTotal
<1> HIDE DEF U
<1>3. PICK T \in [0..n -> Nat] : IsTotal(past, T)
  BY TotalExists
<1> DEFINE S == {i \in Nat : i <= n => U[i] = T[i]}
<1>4. n \in Nat
  OBVIOUS
<1> HIDE DEF n
<1>5. /\ \A i \in 0..n : T[i] = IF i = 0 THEN 0 ELSE T[i - 1] + DifficultyFromBits(past[i].bits)
      /\ \A i \in 0..n : U[i] = IF i = 0 THEN 0 ELSE U[i - 1] + DifficultyFromBits(past[i].bits)
  BY <1>1, <1>3 DEF IsTotal, n
<1>6. 0 \in S
  BY <1>4, <1>5
<1>7. ASSUME NEW i \in Nat, i \in S PROVE i + 1 \in S
  <2>1. SUFFICES ASSUME i + 1 <= n PROVE U[i + 1] = T[i + 1]
    OBVIOUS
  <2>2. i + 1 \in 0..n /\ i + 1 # 0 /\ (i + 1) - 1 = i /\ U[i] = T[i]
    BY <1>4, <1>7, <2>1
  <2>3. QED
    BY <1>5, <2>2
<1>8. Nat \subseteq S
  <2> HIDE DEF S
  <2>1. QED
    BY <1>6, <1>7, InductionOverNat
<1>9. U[n] = T[n]
  BY <1>4, <1>8
<1>10. 0 \in 0..n /\ \A i \in 1..n : i \in 0..n /\ i # 0
  BY <1>4
<1>11. QED
  BY <1>2, <1>3, <1>5, <1>9, <1>10 DEF n

\* The work of a longer history is that of the history and the new block's.
LEMMA WorkGrows ==
    ASSUME NEW past \in Seq(Block), NEW b \in Block
    PROVE  Universe!WorkOf(Append(past, b))
              = Universe!WorkOf(past) + DifficultyFromBits(b.bits)
<1> DEFINE n == Len(past)
           more == Append(past, b)
<1>1. /\ more \in Seq(Block) /\ Len(more) = n + 1 /\ more[n + 1] = b
      /\ \A i \in 1..n : more[i] = past[i]
  BY AppendProperties
<1>2. n \in Nat
  OBVIOUS
<1>3. PICK T \in [0..n -> Nat] : /\ Universe!WorkOf(past) = T[n]
                               /\ T[0] = 0
                               /\ \A i \in 1..n : T[i] = T[i - 1] + DifficultyFromBits(past[i].bits)
  BY WorkIsTotal
<1> HIDE DEF more, n
<1>4. PICK U \in [0..(n + 1) -> Nat] :
          /\ Universe!WorkOf(more) = U[n + 1]
          /\ U[0] = 0
          /\ \A i \in 1..(n + 1) : U[i] = U[i - 1] + DifficultyFromBits(more[i].bits)
  BY <1>1, WorkIsTotal
<1> DEFINE S == {i \in Nat : i <= n => U[i] = T[i]}
<1>5. 0 \in S
  BY <1>3, <1>4
<1>6. ASSUME NEW i \in Nat, i \in S PROVE i + 1 \in S
  <2>1. SUFFICES ASSUME i + 1 <= n PROVE U[i + 1] = T[i + 1]
    OBVIOUS
  <2>2. i + 1 \in 1..n /\ i + 1 \in 1..(n + 1) /\ (i + 1) - 1 = i /\ U[i] = T[i]
    BY <1>2, <1>6, <2>1
  <2>3. more[i + 1] = past[i + 1]
    BY <1>1, <2>2
  <2>4. QED
    BY <1>3, <1>4, <2>2, <2>3
<1>7. Nat \subseteq S
  <2> HIDE DEF S
  <2>1. QED
    BY <1>5, <1>6, InductionOverNat
<1>8. U[n] = T[n] /\ n + 1 \in 1..(n + 1) /\ (n + 1) - 1 = n
  BY <1>2, <1>7
<1>9. U[n + 1] = T[n] + DifficultyFromBits(b.bits)
  BY <1>1, <1>4, <1>8
<1>10. QED
  BY <1>3, <1>4, <1>9 DEF more

\* A history of one block has the block's work.
LEMMA WorkOfOne ==
    ASSUME NEW past \in Seq(Block), Len(past) = 1
    PROVE  Universe!WorkOf(past) = DifficultyFromBits(past[1].bits)
<1>1. PICK T \in [0..1 -> Nat] : /\ Universe!WorkOf(past) = T[1]
                               /\ T[0] = 0
                               /\ \A i \in 1..1 : T[i] = T[i - 1] + DifficultyFromBits(past[i].bits)
  BY WorkIsTotal
<1>2. 1 \in 1..1 /\ 1 - 1 = 0
  OBVIOUS
<1>3. T[1] = T[0] + DifficultyFromBits(past[1].bits)
  BY <1>1, <1>2
<1>4. DifficultyFromBits(past[1].bits) \in Nat
  <2>1. \A x \in Block : DifficultyFromBits(x.bits) \in Nat
    BY DifficultyIsPositive DEF Block
  <2>2. past[1] \in Block
    OBVIOUS
  <2>3. QED
    BY <2>1, <2>2
<1>5. QED
  BY <1>1, <1>3, <1>4

\* A date is reached in a longer history if it was, or by the new block.
LEMMA ReachedGrows ==
    ASSUME NEW past \in Seq(Block), NEW b \in Block, NEW date
    PROVE  Universe!Reached(Append(past, b), date)
              <=> Universe!Reached(past, date) \/ b.timestamp >= date
<1> DEFINE n == Len(past)
           more == Append(past, b)
<1>1. /\ DOMAIN more = 1..(n + 1) /\ more[n + 1] = b /\ DOMAIN past = 1..n /\ n \in Nat
      /\ \A i \in 1..n : more[i] = past[i]
  BY AppendProperties
<1> HIDE DEF more, n
<1>2. \A i \in 1..(n + 1) : i \in 1..n \/ i = n + 1
  BY <1>1
<1>3. n + 1 \in 1..(n + 1) /\ \A i \in 1..n : i \in 1..(n + 1)
  BY <1>1
<1>4. QED
  BY <1>1, <1>2, <1>3 DEF Universe!Reached, more

\* The housing rules come into force with the last block, or were in force.
LEMMA ViviendaGrows ==
    ASSUME NEW past \in Seq(Block), NEW b \in Block
    PROVE  Universe!Vivienda(Append(past, b))
              <=> \/ Universe!Vivienda(past)
                  \/ b.timestamp >= ViviendaDesde /\ Universe!Dubai(Append(past, b))
<1> DEFINE n == Len(past)
           more == Append(past, b)
<1>1. /\ DOMAIN more = 1..(n + 1) /\ more[n + 1] = b /\ DOMAIN past = 1..n /\ n \in Nat
      /\ \A i \in 1..n : more[i] = past[i]
  BY AppendProperties
<1> HIDE DEF more, n
<1>2. \A i \in 1..(n + 1) : i \in 1..n \/ i = n + 1
  BY <1>1
<1>3. n + 1 \in 1..(n + 1) /\ \A i \in 1..n : i \in 1..(n + 1)
  BY <1>1
<1>4. \A i, j \in 1..(n + 1) : j <= i /\ i # n + 1 => i \in 1..n /\ j \in 1..n
  BY <1>1
<1>5. \A j \in 1..(n + 1) : j <= n + 1
  BY <1>1
<1>6. ASSUME Universe!Vivienda(more)
      PROVE  \/ Universe!Vivienda(past)
             \/ b.timestamp >= ViviendaDesde /\ Universe!Dubai(more)
  <2>1. PICK i \in 1..(n + 1), j \in 1..(n + 1) :
            j <= i /\ more[i].timestamp >= ViviendaDesde /\ more[j].timestamp >= DubaiDesde
    BY <1>1, <1>6 DEF Universe!Vivienda
  <2>2. CASE i = n + 1
    BY <1>1, <2>1, <2>2 DEF Universe!Dubai, Universe!Reached
  <2>3. CASE i # n + 1
    BY <1>1, <1>4, <2>1, <2>3 DEF Universe!Vivienda
  <2>4. QED
    BY <2>2, <2>3
<1>7. Universe!Vivienda(past) => Universe!Vivienda(more)
  BY <1>1, <1>3 DEF Universe!Vivienda
<1>8. b.timestamp >= ViviendaDesde /\ Universe!Dubai(more) => Universe!Vivienda(more)
  BY <1>1, <1>3, <1>5 DEF Universe!Vivienda, Universe!Dubai, Universe!Reached
<1>9. QED
  BY <1>6, <1>7, <1>8 DEF more

\* An account has spent one nonce more after a block with a transaction of its.
LEMMA SpentGrows ==
    ASSUME NEW past \in Seq(Block), NEW b \in Block, NEW a
    PROVE  /\ Universe!SpentBy(past, a) \in Nat
           /\ Universe!SpentBy(Append(past, b), a)
                 = Universe!SpentBy(past, a) + (IF b.tx # NoTx /\ b.tx.from = a THEN 1 ELSE 0)
<1> DEFINE n == Len(past)
           more == Append(past, b)
           Of(s) == {i \in DOMAIN s : s[i].tx # NoTx /\ s[i].tx.from = a}
           spends == b.tx # NoTx /\ b.tx.from = a
<1>0. \A s : Universe!SpentBy(s, a) = Cardinality(Of(s))
  <2>1. \A S : Universe!Cardinality(S) = Cardinality(S)
    BY DEF Universe!Cardinality, Cardinality
  <2>2. QED
    BY <2>1 DEF Universe!SpentBy
<1>1. /\ DOMAIN more = 1..(n + 1) /\ more[n + 1] = b /\ DOMAIN past = 1..n /\ n \in Nat
      /\ \A i \in 1..n : more[i] = past[i]
  BY AppendProperties
<1>2. IsFiniteSet(Of(past))
  <2>1. IsFiniteSet(1..n) /\ Of(past) \subseteq 1..n
    BY <1>1, FS_Interval
  <2> HIDE DEF Of
  <2>2. QED
    BY <2>1, FS_Subset
<1>3. Cardinality(Of(past)) \in Nat
  <2> HIDE DEF Of
  <2>1. QED
    BY <1>2, FS_CardinalityType
<1> HIDE DEF more, n
<1>4. \A i : i \in 1..(n + 1) <=> i \in 1..n \/ i = n + 1
  BY <1>1
<1>5. n + 1 \notin Of(past)
  BY <1>1
<1>6. CASE spends
  <2>1. Of(more) = Of(past) \cup {n + 1}
    BY <1>1, <1>4, <1>6
  <2>2. Cardinality(Of(past) \cup {n + 1}) = Cardinality(Of(past)) + 1
    <3> HIDE DEF Of
    <3>1. QED
      BY <1>2, <1>5, FS_AddElement
  <2>3. QED
    BY <1>0, <1>3, <1>6, <2>1, <2>2 DEF more
<1>7. CASE ~ spends
  <2>1. Of(more) = Of(past)
    BY <1>1, <1>4, <1>7
  <2> HIDE DEF Of
  <2>2. QED
    BY <1>0, <1>3, <1>7, <2>1 DEF more
<1>8. QED
  BY <1>6, <1>7

----------------------------------------------------------------------------
(* What a node records is what its history says.                           *)

\* What a child records of work and rules, to the letter.
ExactEdge(N, h) ==
    LET p == N[h].block.prev
        t == N[h].block.timestamp
    IN /\ N[h].cum_work = N[p].cum_work + DifficultyFromBits(N[h].block.bits)
       /\ N[h].firma_v2 = (N[p].firma_v2 \/ t >= FirmaV2Desde)
       /\ N[h].dubai = (N[p].dubai \/ t >= DubaiDesde)
       /\ N[h].vivienda = (N[h].dubai /\ (N[p].vivienda \/ t >= ViviendaDesde))

Exact(N) ==
    /\ N[genesis].block = GenesisBlock
    /\ N[genesis].cum_work = DifficultyFromBits(GenesisBlock.bits)
    /\ N[genesis].firma_v2 = (GenesisBlock.timestamp >= FirmaV2Desde)
    /\ N[genesis].dubai = (GenesisBlock.timestamp >= DubaiDesde)
    /\ N[genesis].vivienda = (/\ GenesisBlock.timestamp >= DubaiDesde
                              /\ GenesisBlock.timestamp >= ViviendaDesde)
    /\ \A h \in DOMAIN N : h # genesis => ExactEdge(N, h)

\* The node of h agrees with its history.
Agrees(N, h) ==
    LET past == Past(N, h)
    IN /\ N[h].cum_work = Universe!WorkOf(past)
       /\ N[h].firma_v2 = Universe!FirmaV2(past)
       /\ N[h].dubai = Universe!Dubai(past)
       /\ N[h].vivienda = Universe!Vivienda(past)
       /\ \A a \in Accounts : ReplayIn(N, h).nonces[a] = Universe!SpentBy(past, a)

\* The genesis is the block the constants name, with its own work and rules.
LEMMA InitExact == Init => Exact(nodes)
<1> SUFFICES ASSUME Init PROVE Exact(nodes)
  OBVIOUS
<1>1. DOMAIN nodes = {genesis}
  BY DEF Init
<1>2. nodes[genesis] = [block |-> GenesisBlock,
                        cum_work |-> DifficultyFromBits(GenesisBlock.bits),
                        firma_v2 |-> GenesisBlock.timestamp >= FirmaV2Desde,
                        dubai |-> GenesisBlock.timestamp >= DubaiDesde,
                        vivienda |-> /\ GenesisBlock.timestamp >= DubaiDesde
                                     /\ GenesisBlock.timestamp >= ViviendaDesde]
  BY DEF Init
<1>3. QED
  BY <1>1, <1>2 DEF Exact

\* insert records in the new node exactly what its parent hands down.
LEMMA StepExact ==
    ASSUME TreeInv, Exact(nodes), NEW b \in Candidates, Insert(b)
    PROVE  Exact(nodes')
<1> DEFINE h == b.hash
           p == b.prev
<1>1. /\ DOMAIN nodes' = DOMAIN nodes \cup {h}
      /\ \A x \in DOMAIN nodes : nodes'[x] = nodes[x]
      /\ h \notin DOMAIN nodes /\ p \in DOMAIN nodes
      /\ IsTree(nodes) /\ genesis \in DOMAIN nodes
  BY InsertGrowsTree DEF TreeInv, IsTree
<1>2. nodes'[h] = [block |-> b,
                   cum_work |-> WorkOn(b),
                   firma_v2 |-> FirmaV2Sobre(p, b.timestamp),
                   dubai |-> DubaiSobre(p, b.timestamp),
                   vivienda |-> ViviendaSobre(p, b.timestamp)]
  BY DEF Insert, AddNode, NodeOn
<1>3. /\ nodes'[h].block = b
      /\ nodes'[h].cum_work = nodes[p].cum_work + DifficultyFromBits(b.bits)
      /\ nodes'[h].firma_v2 = (nodes[p].firma_v2 \/ b.timestamp >= FirmaV2Desde)
      /\ nodes'[h].dubai = (nodes[p].dubai \/ b.timestamp >= DubaiDesde)
      /\ nodes'[h].vivienda = (/\ nodes'[h].dubai
                               /\ nodes[p].vivienda \/ b.timestamp >= ViviendaDesde)
  <2>1. /\ nodes'[h].block = b
        /\ nodes'[h].cum_work = WorkOn(b)
        /\ nodes'[h].firma_v2 = FirmaV2Sobre(p, b.timestamp)
        /\ nodes'[h].dubai = DubaiSobre(p, b.timestamp)
        /\ nodes'[h].vivienda = ViviendaSobre(p, b.timestamp)
    BY <1>2
  <2>2. nodes'[h].vivienda = (/\ DubaiSobre(p, b.timestamp)
                              /\ nodes[p].vivienda \/ b.timestamp >= ViviendaDesde)
    BY <2>1 DEF ViviendaSobre
  <2>3. QED
    BY <2>1, <2>2 DEF WorkOn, CumWork, FirmaV2Sobre, DubaiSobre
<1>4. ExactEdge(nodes', h)
  BY <1>1, <1>3 DEF ExactEdge
<1>5. ASSUME NEW x \in DOMAIN nodes, x # genesis PROVE ExactEdge(nodes', x)
  <2>1. ExactEdge(nodes, x) /\ nodes[x].block.prev \in DOMAIN nodes
    BY <1>1, <1>5, ParentBelow DEF Exact
  <2>2. QED
    BY <1>1, <2>1 DEF ExactEdge
<1>6. QED
  BY <1>1, <1>4, <1>5 DEF Exact

\* The genesis agrees with the history it is.
LEMMA GenesisAgrees ==
    ASSUME NEW N, IsTree(N), Exact(N)
    PROVE  Agrees(N, genesis)
<1> DEFINE past == Past(N, genesis)
           n == N[genesis]
<1>1. genesis \in DOMAIN N /\ n.block = GenesisBlock /\ n.block.height = 0
  BY DEF IsTree, Exact
<1>2. past \in Seq(Block) /\ Len(past) = 1 /\ DOMAIN past = 1..1 /\ past[1] = GenesisBlock
  <2>1. n.block.height + 1 = 1
    BY <1>1
  <2>2. /\ past \in Seq(Block) /\ Len(past) = n.block.height + 1
        /\ DOMAIN past = 1..(n.block.height + 1) /\ past[n.block.height + 1] = n.block
    BY <1>1, PastType
  <2>3. QED
    BY <1>1, <2>1, <2>2
<1> HIDE DEF past
<1>3. \A i \in 1..1 : i = 1
  OBVIOUS
<1>4. \A date : Universe!Reached(past, date) <=> GenesisBlock.timestamp >= date
  BY <1>2, <1>3 DEF Universe!Reached
<1>5. Universe!Vivienda(past) <=> /\ GenesisBlock.timestamp >= DubaiDesde
                                  /\ GenesisBlock.timestamp >= ViviendaDesde
  BY <1>2, <1>3 DEF Universe!Vivienda
<1>6. n.cum_work = Universe!WorkOf(past)
  BY <1>2, WorkOfOne DEF Exact
<1>7. /\ n.firma_v2 = Universe!FirmaV2(past)
      /\ n.dubai = Universe!Dubai(past)
      /\ n.vivienda = Universe!Vivienda(past)
  <2>1. /\ Universe!FirmaV2(past) \in BOOLEAN /\ Universe!Dubai(past) \in BOOLEAN
        /\ Universe!Vivienda(past) \in BOOLEAN
    BY DEF Universe!FirmaV2, Universe!Dubai, Universe!Vivienda, Universe!Reached
  <2>2. n.firma_v2 \in BOOLEAN /\ n.dubai \in BOOLEAN /\ n.vivienda \in BOOLEAN
    BY <1>1 DEF IsTree, Node
  <2>3. /\ n.firma_v2 <=> Universe!FirmaV2(past)
        /\ n.dubai <=> Universe!Dubai(past)
        /\ n.vivienda <=> Universe!Vivienda(past)
    BY <1>4, <1>5 DEF Exact, Universe!FirmaV2, Universe!Dubai
  <2>4. QED
    BY <2>1, <2>2, <2>3
<1>8. ASSUME NEW a \in Accounts PROVE ReplayIn(N, genesis).nonces[a] = Universe!SpentBy(past, a)
  <2> DEFINE A == [i \in 0..1 |-> IF i = 0 THEN EmptyLedger
                                  ELSE ApplyBlock(EmptyLedger, N[genesis].block)]
  <2>1. IsStates(N, genesis, A) /\ IsStates(N, genesis, StatesIn(N, genesis))
    BY <1>1, StatesOfGenesis, StatesExist
  <2>2. A[1] = ApplyBlock(EmptyLedger, GenesisBlock)
    BY <1>1
  <2> HIDE DEF A
  <2>3. ReplayIn(N, genesis) = ApplyBlock(EmptyLedger, GenesisBlock)
    <3>1. StatesIn(N, genesis) = A
      BY <1>1, <2>1, StatesUnique
    <3>2. QED
      BY <1>1, <2>2, <3>1 DEF ReplayIn
  <2>4. GenesisBlock.tx = NoTx
    BY GenesisAssumption
  <2>5. ReplayIn(N, genesis).nonces[a] = 0
    BY <2>3, <2>4 DEF ApplyBlock, EmptyLedger
  <2>6. Universe!SpentBy(past, a) = 0
    <3>1. {i \in DOMAIN past : past[i].tx # NoTx /\ past[i].tx.from = a} = {}
      BY <1>2, <1>3, <2>4
    <3>2. \A S : Universe!Cardinality(S) = Cardinality(S)
      BY DEF Universe!Cardinality, Cardinality
    <3>3. Cardinality({}) = 0
      BY FS_EmptySet
    <3>4. QED
      BY <3>1, <3>2, <3>3 DEF Universe!SpentBy
  <2>7. QED
    BY <2>5, <2>6
<1>9. QED
  BY <1>6, <1>7, <1>8 DEF Agrees, past

\* A child agrees with its history when its parent does.
LEMMA ChildAgrees ==
    ASSUME NEW N, IsTree(N), Exact(N), NEW h \in DOMAIN N, h # genesis,
           Agrees(N, N[h].block.prev)
    PROVE  Agrees(N, h)
<1> DEFINE p == N[h].block.prev
           b == N[h].block
           old == Past(N, p)
           past == Past(N, h)
<1>1. p \in DOMAIN N /\ ExactEdge(N, h) /\ b \in Block
  BY ParentBelow DEF Exact, IsTree, Node
<1>2. old \in Seq(Block) /\ past = Append(old, b)
  BY <1>1, PastType, PastOfChild
<1>3. /\ N[p].cum_work = Universe!WorkOf(old)
      /\ N[p].firma_v2 = Universe!FirmaV2(old)
      /\ N[p].dubai = Universe!Dubai(old)
      /\ N[p].vivienda = Universe!Vivienda(old)
      /\ \A a \in Accounts : ReplayIn(N, p).nonces[a] = Universe!SpentBy(old, a)
  BY DEF Agrees
<1>4. /\ N[h].cum_work = N[p].cum_work + DifficultyFromBits(b.bits)
      /\ N[h].firma_v2 = (N[p].firma_v2 \/ b.timestamp >= FirmaV2Desde)
      /\ N[h].dubai = (N[p].dubai \/ b.timestamp >= DubaiDesde)
      /\ N[h].vivienda = (N[h].dubai /\ (N[p].vivienda \/ b.timestamp >= ViviendaDesde))
  BY <1>1 DEF ExactEdge
<1>5. /\ N[h].firma_v2 \in BOOLEAN /\ N[h].dubai \in BOOLEAN /\ N[h].vivienda \in BOOLEAN
      /\ N[p].firma_v2 \in BOOLEAN /\ N[p].dubai \in BOOLEAN /\ N[p].vivienda \in BOOLEAN
      /\ N[p].vivienda => N[p].dubai
  BY <1>1 DEF IsTree, Node
<1>6. ReplayIn(N, h) = ApplyBlock(ReplayIn(N, p), b)
  BY ReplayOfChild
<1> HIDE DEF p, b, old, past
<1>7. N[h].cum_work = Universe!WorkOf(past)
  BY <1>1, <1>2, <1>3, <1>4, WorkGrows
<1>8. /\ Universe!FirmaV2(past) \in BOOLEAN /\ Universe!Dubai(past) \in BOOLEAN
      /\ Universe!Vivienda(past) \in BOOLEAN
  BY DEF Universe!FirmaV2, Universe!Dubai, Universe!Vivienda, Universe!Reached
<1>9. /\ N[h].firma_v2 = Universe!FirmaV2(past)
      /\ N[h].dubai = Universe!Dubai(past)
  <2>1. /\ Universe!FirmaV2(past) <=> Universe!FirmaV2(old) \/ b.timestamp >= FirmaV2Desde
        /\ Universe!Dubai(past) <=> Universe!Dubai(old) \/ b.timestamp >= DubaiDesde
    BY <1>1, <1>2, ReachedGrows DEF Universe!FirmaV2, Universe!Dubai
  <2>2. QED
    BY <1>3, <1>4, <1>5, <1>8, <2>1
<1>10. N[h].vivienda = Universe!Vivienda(past)
  <2>1. Universe!Vivienda(past) <=> \/ Universe!Vivienda(old)
                                    \/ b.timestamp >= ViviendaDesde /\ Universe!Dubai(past)
    BY <1>1, <1>2, ViviendaGrows
  <2>2. QED
    BY <1>3, <1>4, <1>5, <1>8, <1>9, <2>1
<1>11. ASSUME NEW a \in Accounts PROVE ReplayIn(N, h).nonces[a] = Universe!SpentBy(past, a)
  <2>1. ReplayIn(N, h).nonces[a] = IF b.tx # NoTx /\ a = b.tx.from
                                   THEN ReplayIn(N, p).nonces[a] + 1
                                   ELSE ReplayIn(N, p).nonces[a]
    BY <1>6 DEF ApplyBlock
  <2>2. /\ Universe!SpentBy(old, a) \in Nat
        /\ Universe!SpentBy(past, a)
              = Universe!SpentBy(old, a) + (IF b.tx # NoTx /\ b.tx.from = a THEN 1 ELSE 0)
    BY <1>1, <1>2, SpentGrows
  <2>3. ReplayIn(N, p).nonces[a] = Universe!SpentBy(old, a)
    BY <1>3
  <2>4. QED
    BY <2>1, <2>2, <2>3
<1>12. QED
  BY <1>7, <1>9, <1>10, <1>11 DEF Agrees, past

\* So every node agrees with its history.
LEMMA NodesAgree ==
    ASSUME NEW N, IsTree(N), Exact(N), NEW h \in DOMAIN N
    PROVE  Agrees(N, h)
<1> DEFINE G == {x \in DOMAIN N : Agrees(N, x)}
<1>1. genesis \in G
  <2>1. genesis \in DOMAIN N
    BY DEF IsTree
  <2>2. QED
    BY <2>1, GenesisAgrees
<1>2. \A x \in DOMAIN N : x # genesis /\ N[x].block.prev \in G => x \in G
  BY ChildAgrees
<1>3. DOMAIN N \subseteq G
  <2> HIDE DEF G
  <2>1. QED
    BY <1>1, <1>2, TreeInduction
<1>4. QED
  BY <1>3

----------------------------------------------------------------------------
(* The refinement.                                                         *)

\* What the universe is seen as through the tree.
LEMMA UniverseIs ==
    /\ [h \in DOMAIN nodes |-> nodes[h].block] = Blocks(nodes)
    /\ [h \in DOMAIN nodes |-> nodes[h].block]' = Blocks(nodes')
BY DEF Blocks

\* The retarget of insert reads the same window as the history does.
LEMMA ExpectedIsNextBits ==
    ASSUME TreeInv, NEW p \in DOMAIN nodes
    PROVE  ExpectedBits(p) = Universe!NextBits(Past(nodes, p))
<1> DEFINE past == Past(nodes, p)
           chain == ChainIn(nodes, p)
           n == nodes[p].block.height + 1
           first == AtLeast(n - LWMA_N, 1)
           skipped == IF n > LWMA_N + 1 THEN n - LWMA_N - 1 ELSE 0
           Entry(b) == [timestamp |-> b.timestamp, difficulty |-> DifficultyFromBits(b.bits)]
<1>1. IsTree(nodes) /\ n \in Nat \ {0} /\ LWMA_N \in Nat
  BY HeightType, PowAssumption DEF TreeInv
<1>2. chain \in [1..n -> DOMAIN nodes] /\ chain \in Seq(DOMAIN nodes) /\ Len(chain) = n
  BY <1>1, ChainType
<1>3. ChainTo(p) = chain
  BY TreeOperators
<1>4. past \in Seq(Block) /\ Len(past) = n
  BY <1>1, PastType
<1>5. \A i \in 1..n : past[i] = nodes[chain[i]].block
  BY DEF Past
<1>6. first = skipped + 1 /\ skipped \in Nat /\ skipped < n
  BY <1>1 DEF AtLeast
<1> HIDE DEF past, chain, n, first, skipped
<1>7. /\ SubSeq(chain, first, n) = [i \in 1..(n - skipped) |-> chain[skipped + i]]
      /\ DOMAIN SubSeq(chain, first, n) = 1..(n - skipped)
  <2>1. SubSeq(chain, first, n) = [i \in 1..(1 + n - first) |-> chain[i + first - 1]]
    BY <1>1, <1>2, <1>6
  <2>2. 1 + n - first = n - skipped
    BY <1>1, <1>6
  <2>3. \A i \in 1..(n - skipped) : i + first - 1 = skipped + i
    BY <1>1, <1>6
  <2>4. QED
    BY <2>1, <2>2, <2>3
<1>8. LwmaWindow(p) = [i \in 1..(n - skipped) |-> Entry(nodes[chain[skipped + i]].block)]
  BY <1>2, <1>3, <1>7 DEF LwmaWindow, first
<1>9. \A i \in 1..(n - skipped) : skipped + i \in 1..n
  BY <1>1, <1>6
<1>10. LwmaWindow(p) = [i \in 1..(n - skipped) |-> Entry(past[skipped + i])]
  BY <1>5, <1>8, <1>9
<1>11. Universe!NextBits(past)
          = LwmaNextBits([i \in 1..(n - skipped) |-> Entry(past[skipped + i])], MinDifficulty)
  BY <1>4 DEF Universe!NextBits, skipped
<1>12. QED
  BY <1>10, <1>11 DEF ExpectedBits, past

\* A block insert admits is legal after the history it names.
LEMMA AdmittedIsLegal ==
    ASSUME TreeInv, Exact(nodes), NEW b \in Candidates, Insert(b)
    PROVE  Universe!Legal(Past(nodes, b.prev), b)
<1> DEFINE h == b.hash
           p == b.prev
           past == Past(nodes, p)
           present == Append(past, b)
           ctx == CtxSobre(p, b.timestamp)
<1>1. /\ IsTree(nodes) /\ IsTree(nodes')
      /\ p \in DOMAIN nodes /\ genesis \in DOMAIN nodes
      /\ h \in DOMAIN nodes' /\ h # genesis
      /\ nodes'[h].block = b
      /\ CtxIn(nodes', h) = ctx
  <2>1. TypeOK /\ IsTree(nodes)
    BY DEF TreeInv
  <2>2. genesis \in DOMAIN nodes
    BY <2>1 DEF IsTree
  <2>3. /\ IsTree(nodes') /\ DOMAIN nodes' = DOMAIN nodes \cup {h}
        /\ h \notin DOMAIN nodes /\ p \in DOMAIN nodes
        /\ nodes'[h].block = b /\ CtxIn(nodes', h) = ctx
    BY <2>1, InsertGrowsTree
  <2>4. QED
    BY <2>1, <2>2, <2>3
<1>2. Past(nodes', p) = past
  <2>1. /\ DOMAIN nodes' = DOMAIN nodes \cup {h}
        /\ \A x \in DOMAIN nodes : nodes'[x] = nodes[x]
    BY InsertGrowsTree DEF TreeInv
  <2>2. ChainIn(nodes', p) = ChainIn(nodes, p)
    <3>1. IsTree(nodes) /\ IsTree(nodes') /\ DOMAIN nodes \subseteq DOMAIN nodes' /\ p \in DOMAIN nodes
      BY <1>1, <2>1
    <3>2. QED
      BY ONLY <2>1, <3>1, GrownTree
  <2>3. \A i \in 1..(nodes[p].block.height + 1) :
            nodes'[ChainIn(nodes, p)[i]] = nodes[ChainIn(nodes, p)[i]]
    BY <1>1, <2>1, ChainType
  <2>4. QED
    BY <1>1, <2>1, <2>2, <2>3 DEF Past
<1>3. Past(nodes', h) = present
  BY <1>1, <1>2, PastOfChild
<1>4. Agrees(nodes', h) /\ Agrees(nodes, p)
  BY <1>1, StepExact, NodesAgree
<1>5. /\ b.height = nodes[p].block.height + 1
      /\ <<b.hash, b.bits>> \in PowOk
      /\ b.bits = ExpectedBits(p)
      /\ BlockApplies(ParentState(p), b, b.height, ctx)
  BY DEF Insert, Admissible
<1>6. b.height = Len(past) /\ b.bits = Universe!NextBits(past)
  BY <1>1, <1>5, PastType, ExpectedIsNextBits
<1>7. ASSUME b.tx # NoTx
      PROVE  /\ b.tx.regla = (IF Universe!FirmaV2(present) THEN "v2" ELSE "v1")
             /\ b.tx.kind = "dubai" => Universe!Dubai(present)
             /\ b.tx.kind = "vivienda" => Universe!Vivienda(present)
             /\ b.tx.nonce = Universe!SpentBy(past, b.tx.from)
  <2>1. b.tx.from \in Accounts
    BY <1>7, CandidateAssumption, TxAssumption DEF Block, Transaction
  <2>2. VerifyTx(b.tx, ctx) /\ b.tx.nonce = ParentState(p).nonces[b.tx.from]
    BY <1>5, <1>7 DEF BlockApplies
  <2>3. ParentState(p) = ReplayIn(nodes, p)
    BY <1>1, ParentStateIsReplay
  <2>4. ReplayIn(nodes, p).nonces[b.tx.from] = Universe!SpentBy(past, b.tx.from)
    BY <1>4, <2>1 DEF Agrees
  <2>5. /\ ctx.regla = (IF Universe!FirmaV2(present) THEN "v2" ELSE "v1")
        /\ ctx.dubai = Universe!Dubai(present)
        /\ ctx.vivienda => Universe!Vivienda(present)
    <3> DEFINE n == nodes'[h]
    <3>1. /\ n.firma_v2 = Universe!FirmaV2(present)
          /\ n.dubai = Universe!Dubai(present)
          /\ n.vivienda = Universe!Vivienda(present)
      BY <1>3, <1>4 DEF Agrees
    <3>2. ctx = Ctx(n.firma_v2, n.dubai, n.vivienda)
      BY <1>1 DEF CtxIn
    <3> HIDE DEF n, ctx, present
    <3>3. /\ ctx.regla = (IF n.firma_v2 THEN "v2" ELSE "v1")
          /\ ctx.dubai = n.dubai
          /\ ctx.vivienda = (n.dubai /\ n.vivienda)
      BY <3>2 DEF Ctx, V1, V2
    <3>4. QED
      BY <3>1, <3>3
  <2>6. QED
    BY <2>2, <2>3, <2>4, <2>5 DEF VerifyTx
<1>8. QED
  BY <1>5, <1>6, <1>7 DEF Universe!Legal

\* In a tree whose nodes agree with their histories, the heaviest history
\* is the one with the most accumulated work.
LEMMA HeadIsHeaviestHistory ==
    ASSUME TreeInv, Exact(nodes), HeadIsHeaviest
    PROVE  ObserverHead \in Universe!Heaviest(Blocks(nodes))
<1>1. IsTree(nodes) /\ Tips \subseteq DOMAIN nodes
  BY DEF TreeInv, TypeOK, Tips
<1>2. ASSUME NEW x \in DOMAIN nodes PROVE Universe!Work(Blocks(nodes), x) = CumWork(x)
  <2>1. Universe!History(Blocks(nodes), x) = Past(nodes, x)
    BY <1>1, HistoryIsPast
  <2>2. Agrees(nodes, x)
    BY <1>1, NodesAgree
  <2>3. QED
    BY <2>1, <2>2 DEF Universe!Work, Agrees, CumWork
<1>3. DOMAIN Blocks(nodes) = DOMAIN nodes
  BY DEF Blocks
<1>4. QED
  BY <1>1, <1>2, <1>3 DEF Universe!Heaviest, HeadIsHeaviest

\* What the refinement needs of every state.
RefInv ==
    /\ TreeInv
    /\ Bounded
    /\ Exact(nodes)
    /\ HeadIsHeaviest
    /\ ObserverHead \in Universe!Heaviest(Blocks(nodes))

\* It holds in every state: the fork choice and its place in the universe follow
\* from the rest.
LEMMA RefInvCorrect == Spec => []RefInv
<1>1. Init => TreeInv /\ Bounded /\ Exact(nodes)
  BY InitTreeInv, InitBounded, InitExact
<1>2. TreeInv /\ Bounded /\ Exact(nodes) /\ [Next]_vars => (TreeInv /\ Bounded /\ Exact(nodes))'
  <2>1. SUFFICES ASSUME TreeInv, Bounded, Exact(nodes), [Next]_vars
                 PROVE  TreeInv' /\ Bounded' /\ Exact(nodes')
    OBVIOUS
  <2>2. TreeInv' /\ Bounded'
    BY <2>1, StepTreeInv, StepBounded
  <2>3. ASSUME NEW b \in Candidates, Insert(b) PROVE Exact(nodes')
    BY <2>1, <2>3, StepExact
  <2>4. CASE UNCHANGED vars
    <3>1. nodes' = nodes
      BY <2>4 DEF vars
    <3>2. QED
      BY <2>1, <2>2, <3>1
  <2>5. QED
    BY <2>1, <2>2, <2>3, <2>4 DEF Next
<1>3. TreeInv /\ Bounded => HeadIsHeaviest
  BY HeadHeaviest
<1>4. TreeInv /\ Exact(nodes) /\ HeadIsHeaviest => ObserverHead \in Universe!Heaviest(Blocks(nodes))
  BY HeadIsHeaviestHistory
<1>5. QED
  BY <1>1, <1>2, <1>3, <1>4, PTL DEF Spec, RefInv

\* The genesis alone is the universe's first state.
LEMMA InitRefines == Init /\ RefInv => Universe!Init
<1> SUFFICES ASSUME Init, RefInv PROVE Universe!Init
  OBVIOUS
<1>1. DOMAIN nodes = {genesis} /\ nodes[genesis].block = GenesisBlock
  BY InitGenesis
<1>2. [h \in DOMAIN nodes |-> nodes[h].block] = [h \in {GenesisBlock.hash} |-> GenesisBlock]
  BY <1>1 DEF genesis
<1>3. ObserverHead = GenesisBlock.hash
  BY <1>1 DEF RefInv, TreeInv, TypeOK, HeadIsHeaviest, Tips, genesis
<1>4. QED
  BY <1>2, <1>3 DEF Universe!Init

\* insert admits a legal block and leaves the observer on a heaviest history.
LEMMA InsertRefines ==
    ASSUME RefInv, RefInv', NEW b \in Candidates, Insert(b)
    PROVE  Universe!Admit(b)
<1> DEFINE u == [h \in DOMAIN nodes |-> nodes[h].block]
<1>1. /\ DOMAIN nodes' = DOMAIN nodes \cup {b.hash}
      /\ \A x \in DOMAIN nodes : nodes'[x] = nodes[x]
      /\ b.hash \notin DOMAIN nodes /\ b.prev \in DOMAIN nodes
      /\ nodes'[b.hash].block = b
  BY InsertGrowsTree DEF RefInv, TreeInv
<1>2. DOMAIN u = DOMAIN nodes
  OBVIOUS
<1>3. u' = [h \in DOMAIN u \cup {b.hash} |-> IF h = b.hash THEN b ELSE u[h]]
  BY <1>1
<1>4. u = Blocks(nodes) /\ u' = Blocks(nodes')
  BY UniverseIs
<1>5. Universe!Legal(Universe!History(u, b.prev), b)
  <2>1. Universe!History(u, b.prev) = Past(nodes, b.prev)
    BY <1>1, <1>4, HistoryIsPast DEF RefInv, TreeInv
  <2>2. QED
    BY <2>1, AdmittedIsLegal DEF RefInv
<1>6. ObserverHead' \in Universe!Heaviest(u')
  BY <1>4 DEF RefInv, Blocks
<1>7. QED
  BY <1>1, <1>2, <1>3, <1>5, <1>6 DEF Universe!Admit

\* The block tree implements the universe of legal histories: whatever the
\* order in which the blocks arrive, insert admits a block only if it is legal
\* after the history it names, judged from the blocks alone, and head always
\* follows one of the heaviest histories.
THEOREM Refines == Spec => ImplementsUniverse
<1>1. RefInv /\ RefInv' /\ [Next]_vars => [Universe!Next]_(Universe!vars)
  <2>1. ASSUME RefInv, RefInv', NEW b \in Candidates, Insert(b) PROVE Universe!Next
    BY <2>1, InsertRefines DEF Universe!Next
  <2>2. ASSUME UNCHANGED vars PROVE UNCHANGED Universe!vars
    <3>1. nodes' = nodes /\ tip_state' = tip_state
      BY <2>2 DEF vars
    <3>2. ObserverHead' = ObserverHead
      BY <3>1 DEF ObserverHead, Scan, Tips, BetterTip, Replaces, CumWork
    <3>3. QED
      BY <3>1, <3>2 DEF Universe!vars
  <2>3. QED
    BY <2>1, <2>2 DEF Next
<1>2. Init /\ RefInv => Universe!Init
  BY InitRefines
<1>3. QED
  BY <1>1, <1>2, RefInvCorrect, PTL DEF Spec, ImplementsUniverse, Universe!Spec
==========================================================================
