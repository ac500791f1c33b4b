\* Blocks of three bytes, up to four of them, pushes of up to four bytes.
SPECIFICATION Spec
CONSTANTS
  Inc = 3
  MaxBlocks = 4
  MaxPush = 4
  Bytes = 12
INVARIANTS
  TypeOK
  IteratorsAgree
PROPERTY
  ImplementsByteQueue
\* ub stops a run.
CHECK_DEADLOCK FALSE
