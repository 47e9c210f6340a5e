------------------------------- MODULE Ledger -------------------------------
(***************************************************************************)
(* What the indexer of a chain promises to whoever reads its tables: a     *)
(* ledger of blocks that grows by a child of its last block, skips numbers *)
(* only after it has noted them as gaps, and is cut back at its end one    *)
(* block at a time.  No process, call, crash or rollback shows.            *)
(***************************************************************************)
EXTENDS Naturals

CONSTANTS Hash, NoHash, Parent, Height

VARIABLES
  next,     \* the number after the last one, 0 before the ledger is opened
  entries,  \* entries[n]: the block booked at n, NoHash where there is none
  gaps      \* the numbers noted as gaps

ledger == <<next, entries, gaps>>

Init ==
  /\ next = 0
  /\ entries = [n \in Height |-> NoHash]
  /\ gaps = {}

Booked(n) == n \in Height /\ entries[n] # NoHash

(* The ledger starts above number n.                                        *)
Open(n) ==
  /\ next = 0
  /\ next' = n + 1
  /\ UNCHANGED <<entries, gaps>>

(* The next block is a child of the one booked before it.                   *)
Grow(h) ==
  /\ next > 0 /\ next \in Height \ gaps
  /\ Booked(next - 1) => Parent[h] = entries[next - 1]
  /\ next' = next + 1
  /\ entries' = [entries EXCEPT ![next] = h]
  /\ UNCHANGED gaps

(* Numbers that are not yet passed are noted as gaps.                       *)
Note(S) ==
  /\ next > 0 /\ \A n \in S : n >= next
  /\ gaps' = gaps \cup S
  /\ UNCHANGED <<next, entries>>

(* Only gaps are skipped.                                                   *)
Skip(n) ==
  /\ next > 0 /\ n >= next
  /\ \A m \in next .. n : m \in gaps
  /\ next' = n + 1
  /\ UNCHANGED <<entries, gaps>>

(* The end is cut off after number n: one block, or, across a gap, no two   *)
(* that follow each other.                                                  *)
Cut(n) ==
  /\ n + 1 < next
  /\ \A m \in n + 1 .. next - 1 : ~(Booked(m) /\ Booked(m + 1))
  /\ next' = n + 1
  /\ entries' = [m \in Height |-> IF m <= n THEN entries[m] ELSE NoHash]
  /\ UNCHANGED gaps

Next ==
  \/ \E n \in Height : Open(n) \/ Skip(n) \/ Cut(n)
  \/ \E h \in Hash : Grow(h)
  \/ \E from, to \in Height : Note(from .. to)

Spec == Init /\ [][Next]_ledger

=============================================================================
