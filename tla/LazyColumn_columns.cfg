SPECIFICATION Spec
CONSTANTS
  Frames <- SomeFrames
  Reentered = {"num", "dttm", "chr", "rle"}
  MaxVectors = 3
  MaxPicked = 2
INVARIANTS TypeOK InfoInUse ProblemsAreComplete WarnsOfProblems
PROPERTIES KeepsItsElements
