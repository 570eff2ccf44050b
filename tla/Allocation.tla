------------------------------ MODULE Allocation ------------------------------
(***************************************************************************)
(* allocate_weighted_kangaroos and the budget of run() (src/lib.rs): how   *)
(* many kangaroos there are and how they are shared out among the GPUs.    *)
(***************************************************************************)
EXTENDS KangarooAlgebra, Sequences, FiniteSets

MinPerGpu == 3

(* max_k_for_range; the code's cap for 32 bits and more is the largest u32. *)
MaxKangaroos(rangeBits) == IF TwoTo[rangeBits] > 3 THEN TwoTo[rangeBits] ELSE 3

Capped(requested, rangeBits) ==
  IF requested < MaxKangaroos(rangeBits) THEN requested ELSE MaxKangaroos(rangeBits)

TotalOf(seq) ==
  LET sum[n \in 0 .. Len(seq)] == IF n = 0 THEN 0 ELSE sum[n - 1] + seq[n]
  IN sum[Len(seq)]

(* Mutant: what the divisions leave over is given to nobody. *)
AllocateRoundedDown(total, weights) ==
  LET remaining == total - MinPerGpu * Len(weights)
      w == [i \in DOMAIN weights |-> IF weights[i] > 1 THEN weights[i] ELSE 1]
  IN IF remaining <= 0
     THEN [i \in DOMAIN weights |-> MinPerGpu]
     ELSE [i \in DOMAIN weights |-> MinPerGpu + (remaining * w[i]) \div TotalOf(w)]

(* Everyone gets the minimum and a share of the rest by weight; what the
   divisions leave over goes, one each, to the largest remainders. *)
AllocateWeightedKangaroos(total, weights) ==
  LET remaining == total - MinPerGpu * Len(weights)
      w == [i \in DOMAIN weights |-> IF weights[i] > 1 THEN weights[i] ELSE 1]
      extra == [i \in DOMAIN weights |-> (remaining * w[i]) \div TotalOf(w)]
      rem == [i \in DOMAIN weights |-> (remaining * w[i]) % TotalOf(w)]
      before(i) == Cardinality({j \in DOMAIN weights :
                                  rem[j] > rem[i] \/ (rem[j] = rem[i] /\ j < i)})
      leftovers == remaining - TotalOf(extra)
  IN IF remaining <= 0
     THEN [i \in DOMAIN weights |-> MinPerGpu]
     ELSE [i \in DOMAIN weights |->
             MinPerGpu + extra[i] + (IF before(i) < leftovers THEN 1 ELSE 0)]
=============================================================================
