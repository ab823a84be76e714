SPECIFICATION Spec
CONSTANTS
  Cases <- EvenCases
  Unbound <- UnboundNames
  Code <- EvenCode
  Progress <- EvenProgress
  Sizes <- EvenSizes
  Registered <- EvenRegistered
  Expected <- EvenExpected
INVARIANT ResultsCorrect
