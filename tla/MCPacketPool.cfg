CONSTANTS
  PoolCapacity = 2
  NoValue = NoValue
SPECIFICATION Spec
INVARIANT TypeOK
INVARIANT HandleConservation
PROPERTY AcquireFailsOnlyWhenExhausted
