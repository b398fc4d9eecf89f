---------------------------- MODULE Sizing_proofs ----------------------------
(* What Sizing's numbers are worth, for every input.                       *)
EXTENDS Sizing, TLAPS

\* Go's int32: the value that is left of n in 32 bits, in two's complement.
Int32(n) == LET low == n % 4294967296 IN IF low < 2147483648 THEN low ELSE low - 4294967296

\* ClaimMB is what the code computes: the product in int32, in MB.
THEOREM ClaimIsProduct == \A mb \in Int : Int32(mb * 1024 * 1024) = ClaimMB(mb) * 1024 * 1024
BY SMTT(60) DEF Int32, ClaimMB

\* A claim below 2 GB has the size that was asked for, and is taken.
THEOREM SmallClaimExact == \A mb \in 1..2047 : ClaimMB(mb) = mb /\ Claimable(mb)
BY DEF ClaimMB, Claimable

\* From 2 GB to 4 GB it is refused, however often it is tried, and from there
\* on it is smaller than what was asked for.
THEOREM LargeClaimWrong ==
    /\ \A mb \in 2048..4096 : ~Claimable(mb)
    /\ \A mb \in Int : mb > 4096 => ClaimMB(mb) < mb
BY SMTT(30) DEF ClaimMB, Claimable

\* A job that asks for GPUs gets no more than it asks for: fewer than 8 as
\* they are; of more, up to 7 are left out.
THEOREM GrantedWithin ==
    \A n \in Nat \ {0} : /\ Granted(n) <= n /\ n - Granted(n) < 8
                         /\ n < 8 => Granted(n) = n
BY SMTT(30) DEF Granted, Asked, GpuPerWorker, WorkerReplicas

\* A job that asks for none gets 8.
THEOREM NoneGetsEight == Granted(0) = 8
BY DEF Granted, Asked, GpuPerWorker, WorkerReplicas

\* The ceiling of a number of bytes, in GB.
LEMMA Ceiling ==
    \A bytes \in Nat :
        /\ ModelSize(bytes) \in Int
        /\ bytes <= ModelSize(bytes) * GB /\ ModelSize(bytes) * GB < bytes + GB
        /\ ModelSize(bytes) = 0 <=> bytes = 0
BY SMTT(30) DEF ModelSize, GB

\* The byte counts that a float64 holds, and divides, exactly.
Exact == {bytes \in Nat : bytes < 2^53}

\* The claim for a model has room for the files at the top level of its
\* repository, but as soon as the files in folders hold a GB, the model does
\* not fit; and with no bytes at the top level the size is zero, which the API
\* server refuses, whatever the folders hold (modelscope.ModelSize).
THEOREM ModelFitsOnlyFlat ==
    \A top \in Exact, folders \in Nat :
        /\ folders = 0 => top + folders <= ModelSize(top) * GB
        /\ folders >= GB => ModelSize(top) * GB < top + folders
        /\ ModelSize(top) = 0 <=> top = 0
  <1> SUFFICES ASSUME NEW top \in Nat, NEW folders \in Nat
               PROVE  /\ folders = 0 => top + folders <= ModelSize(top) * GB
                      /\ folders >= GB => ModelSize(top) * GB < top + folders
                      /\ ModelSize(top) = 0 <=> top = 0
    BY DEF Exact
  <1>1. GB \in Nat
    BY DEF GB
  <1>2. ModelSize(top) * GB \in Int
    BY <1>1, Ceiling
  <1> QED BY <1>1, <1>2, Ceiling
=============================================================================
