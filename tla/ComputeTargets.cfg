SPECIFICATION Spec
CONSTANTS
  IntMax = 15
  Half = 3
  Wide = 16
  Sizes <- SomeSizes
  Iterations <- SomeIterations
INVARIANTS
  StaysInBounds
  ResultsComputed
PROPERTY
  GetsOn
