------------------------------ MODULE BinPacking ------------------------------
(***************************************************************************)
(* What swift/dataset/packing.py relies on of the external library         *)
(* binpacking: to_constant_volume groups samples into bins of at most      *)
(* packing_length tokens, and gives a sample that is longer a bin of its   *)
(* own.  Which grouping it finds is left open.                             *)
(***************************************************************************)
EXTENDS Integers, FiniteSets, FiniteSetsExt

Total(pack, length) == MapThenSumSet(LAMBDA s : length[s], pack)

(* The groupings of a set of samples.  A function maps each sample to the  *)
(* least sample of its bin.                                                *)
BinPackings(S, length, packing_length) ==
    LET leaders == {f \in [S -> S] : \A s \in S : f[s] <= s /\ f[f[s]] = f[s]}
        bins(f) == {{s \in S : f[s] = r} : r \in {f[s] : s \in S}}
    IN  {b \in {bins(f) : f \in leaders} :
            \A pack \in b : Cardinality(pack) = 1 \/ Total(pack, length) <= packing_length}
=============================================================================
