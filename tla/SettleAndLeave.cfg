SPECIFICATION Spec
CONSTANTS
  Member = {1, 2, 3, 4}
  Receipt = {5}
  Settlement = {}
  Amount = {5, 8}
  MaxReceipts = 4
INVARIANT OddCentsGoRound
INVARIANT PlanClears
INVARIANT PlanIsMinimal
