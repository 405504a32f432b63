-------------------------------- MODULE Fixtures --------------------------------
(***************************************************************************)
(* Seeded users and keys as the pods of a run share them out               *)
(* (internal/identity/fixtures.go, keypool.go).  Sequences count from 1,   *)
(* pods and the code's indices from 0.                                     *)
(***************************************************************************)
EXTENDS Integers, Sequences

\* How many of index, index + count, index + 2*count ... are below n.
ShardLen(n, index, count) ==
  IF index >= n THEN 0 ELSE (n - 1 - index) \div count + 1

\* Contiguous chunks, the first index rounded down and the length up.
MutShard(s, index, count) ==
  LET first == index * (Len(s) \div count)
      size  == (Len(s) + count - 1) \div count
  IN  SubSeq(s, first + 1, first + size)

\* FixtureState.Shard, ShardUsers and KeyPool.Shard deal out the same way.
Shard(s, index, count) ==
  IF count <= 1 THEN s
  ELSE [k \in 1..ShardLen(Len(s), index, count) |-> s[index + (k - 1) * count + 1]]

\* Round robin over a sequence that is not empty: KeyPool.At, and how each
\* scenario picks a user or an identity.
At(s, i) == s[(i % Len(s)) + 1]

=================================================================================
