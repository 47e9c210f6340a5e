------------------------------- MODULE Chain -------------------------------
(***************************************************************************)
(* The blockchain the indexer follows, as the adapters of                  *)
(* internal/infra/chain show it: a block is fetched by number, it names    *)
(* its parent by hash, and the head is a number.  The node is the          *)
(* environment.  It moves from one view of the chain to a longer one,      *)
(* which either extends the old view or replaces its tail (a reorg).       *)
(***************************************************************************)
EXTENDS Naturals, Sequences

CONSTANTS
  Hash,       \* block hashes
  NoHash,     \* the empty string: no hash, or no row
  Parent,     \* Parent[h]: the parent hash that block h carries
  Tx,         \* hashes of the transactions that match the address filter
  TxsOf,      \* TxsOf[h]: the matching transactions of block h
  Chains,     \* the views the node can have: sequences, block n at n + 1
  MaxHeight   \* the highest block number of any view

Height == 0 .. MaxHeight

ASSUME ChainAssumption ==
  /\ NoHash \notin Hash
  /\ Parent \in [Hash -> Hash \cup {NoHash}]
  /\ TxsOf \in [Hash -> SUBSET Tx]
  /\ MaxHeight \in Nat
  /\ Chains \subseteq Seq(Hash)
  /\ \A c \in Chains :
       /\ Len(c) \in 1 .. MaxHeight + 1
       /\ \A i \in 2 .. Len(c) : Parent[c[i]] = c[i - 1]

VARIABLE chain   \* the node's current view

ChainInit == chain \in Chains

(* ChainAdapter.GetLatestBlock, and GetBlock(n) for n <= Latest; GetBlock   *)
(* of a higher number returns nil.                                          *)
Latest == Len(chain) - 1
BlockAt(n) == chain[n + 1]

(* The node adopts a longer view.                                           *)
NodeStep == \E c \in Chains : Len(c) > Len(chain) /\ chain' = c

=============================================================================
