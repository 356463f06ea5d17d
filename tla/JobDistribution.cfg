SPECIFICATION Spec
CONSTANTS
  Jobs <- SomeJobs
  Policies <- AnyPolicy
INVARIANTS
  TypeOK
  EveryJobGiven
  AllOrNothing
  NeverJoinsGarbage
