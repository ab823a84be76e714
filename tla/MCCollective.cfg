SPECIFICATION Spec
CONSTANTS
  Cases <- AllCases
  Unbound <- UnboundNames
  Code <- AllCode
  Progress <- AllProgress
  Sizes <- AllSizes
  Registered <- AllRegistered
  Expected <- AllExpected
INVARIANTS ResultsCorrect SendsStable ExchangesMatch BarrierHolds NeverStuck
