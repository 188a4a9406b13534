------------------------------ MODULE CostMath ------------------------------
(***************************************************************************)
(* The cost algebra of accelerator/src/cost_math.cpp.  A cost is a signed  *)
(* 32-bit integer; Inf stands for ACCEL_INF and MinInt for INT32_MIN.      *)
(* Operands above Inf are not costs: the checked addition rejects them.    *)
(***************************************************************************)
EXTENDS Integers

CONSTANTS Inf,     \* ACCEL_INF, the absorbing cost
          MinInt   \* INT32_MIN, the least representable cost

ASSUME CostAssumption == /\ Inf \in Int
                         /\ MinInt \in Int
                         /\ MinInt < 0
                         /\ 0 < Inf

Costs == MinInt..Inf

(* The -1 return of accel_cost_add_checked: a number that is no cost.      *)
CostError == MinInt - 1

(* Mutants: the underflow test lost; the domain test done after absorption. *)
AddWithoutUnderflow(left, right) ==
    IF left > Inf \/ right > Inf THEN CostError
    ELSE IF left = Inf \/ right = Inf \/ left + right >= Inf THEN Inf
    ELSE IF left + right < MinInt THEN MinInt ELSE left + right

AddAbsorbingFirst(left, right) ==
    IF left = Inf \/ right = Inf \/ left + right >= Inf THEN Inf
    ELSE IF left + right < MinInt THEN CostError ELSE left + right

AddWithoutSaturation(left, right) ==
    IF left > Inf \/ right > Inf THEN CostError
    ELSE IF left = Inf THEN Inf
    ELSE IF left + right < MinInt THEN CostError ELSE left + right

(* accel_cost_add_checked, the addition of the command path.               *)
CostAddChecked(left, right) ==
    IF left > Inf \/ right > Inf THEN CostError
    ELSE IF left = Inf \/ right = Inf \/ left + right >= Inf THEN Inf
    ELSE IF left + right < MinInt THEN CostError ELSE left + right

(* Mutant: the result starts out as zero.                                  *)
AddClampingToZero(left, right) ==
    LET sum == CostAddChecked(left, right)
    IN  IF sum = CostError THEN 0 ELSE sum

(* accel_cost_add, the host's addition: an error leaves the INT32_MIN it   *)
(* stored in the result beforehand.                                        *)
CostAdd(left, right) ==
    LET sum == CostAddChecked(left, right)
    IN  IF sum = CostError THEN MinInt ELSE sum

(* ADD3 is two checked additions, left to right.                           *)
CostAdd3Checked(first, second, third) ==
    LET sum == CostAddChecked(first, second)
    IN  IF sum = CostError THEN CostError ELSE CostAddChecked(sum, third)

MinCost(a, b) == IF b < a THEN b ELSE a
=============================================================================
