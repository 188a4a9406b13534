---------------------------- MODULE CostAlgebra ----------------------------
(***************************************************************************)
(* The laws of cost addition that the command path and the tiled datapath  *)
(* rely on, over three 32-bit operands a caller may pass, costs or not.    *)
(***************************************************************************)
EXTENDS CostMath

CONSTANT MaxWord   \* INT32_MAX, four times Inf and a bit more

ASSUME WordAssumption == MaxWord \in Int /\ Inf < MaxWord

Words == MinInt..MaxWord

VARIABLES first, second, third   \* the operands of an ADD3

operands == <<first, second, third>>

(* Sums of the three operands, starting with any of them.                  *)
CheckInit == first \in Words /\ second \in Words /\ third \in Words
CheckNext == first' = second /\ second' = third /\ third' = first
CheckSpec == CheckInit /\ [][CheckNext]_operands

-----------------------------------------------------------------------------
(* MAS invariant 6, accel_cost_add_checked: an operand that is no cost is  *)
(* reported whatever the others are; INF, which absorbs finite costs, does *)
(* not absorb it, and neither does the first sum of an ADD3.               *)
InvalidNeverHidden ==
    first > Inf \/ second > Inf \/ third > Inf
        => CostAdd3Checked(first, second, third) = CostError

(* MAS invariant 6, accel_cost_add_checked: a result is never silently     *)
(* wrong: it is the integer sum, or Inf because an operand or the sum is   *)
(* at least Inf, and what is below INT32_MIN is an error.                  *)
NoSilentUnderflow ==
    LET sum == CostAddChecked(first, second)
    IN  first \in Costs /\ second \in Costs =>
          \/ sum = first + second /\ sum \in Costs
          \/ sum = Inf /\ (first = Inf \/ second = Inf \/ first + second >= Inf)
          \/ sum = CostError /\ first + second < MinInt

(* The projection loop adds a shared vector to rows and minimises, the     *)
(* PBQP reductions minimise first and add after: the two orders agree,     *)
(* errors included (an error compares below every cost).                   *)
MinDistributes ==
    first \in Costs /\ second \in Costs /\ third \in Costs =>
      CostAddChecked(MinCost(first, second), third)
        = MinCost(CostAddChecked(first, third), CostAddChecked(second, third))

(* accel_cost_add, the host's sum: on costs it never falls outside them    *)
(* and never orders two choices the other way round than their costs.      *)
HostSumMonotone ==
    first \in Costs /\ second \in Costs /\ third \in Costs =>
      /\ CostAdd(first, third) \in Costs
      /\ first <= second => CostAdd(first, third) <= CostAdd(second, third)
=============================================================================
