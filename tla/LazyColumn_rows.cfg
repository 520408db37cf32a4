SPECIFICATION Spec
CONSTANTS
  Frames <- SubsetFrames
  Reentered = {"num", "dttm", "chr", "rle"}
  MaxVectors = 2
  MaxPicked = 2
INVARIANTS ProblemsNameTheirRows
