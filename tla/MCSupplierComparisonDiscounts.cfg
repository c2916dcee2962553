SPECIFICATION Spec
CONSTANTS
  Minor = 10
  ShareScale = 1000
  Currencies = {"TRY", "USD", "EUR"}
  Base = "TRY"
  Rate <- MCRate
  Projects <- WholeDiscounts
INVARIANTS
  ProportionalDiscountsFit
CHECK_DEADLOCK FALSE
