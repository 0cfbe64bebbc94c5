----------------------- MODULE BlockTreeRefinement -----------------------
(***************************************************************************)
(* The block tree, with its inherited rules, accumulated work and cached   *)
(* ledgers, against the universe of legal histories.                       *)
(***************************************************************************)
EXTENDS BlockTree

Universe == INSTANCE Universo
            WITH universe <- [h \in DOMAIN nodes |-> nodes[h].block],
                 observed <- ObserverHead

\* insert only admits blocks that are legal after the history they name, and
\* head follows one of the heaviest histories, both judged from the blocks
\* alone: the rules inherited from the parent, the work added up block by block
\* and the ledger cached at the tips or replayed never say anything else.
ImplementsUniverse == Universe!Spec
==========================================================================
