SPECIFICATION Spec
CONSTANTS
  Memory = 17
INVARIANTS SwapReverses ShiftsReverse StringsRight FileComesFirst
