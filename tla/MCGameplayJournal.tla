-------------------------- MODULE MCGameplayJournal --------------------------
(***************************************************************************)
(* GameplayJournal for TLC: transactions are interchangeable.              *)
(***************************************************************************)
EXTENDS GameplayJournal, TLC

AnyTx == Permutations(Txs)

=============================================================================
