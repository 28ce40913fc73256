SPECIFICATION ImgSpec
CONSTANTS
  Images = {a, b}
  MaxImages = 2
  MaxQuestions = 2
  MaxRuns = 1
SYMMETRY MCSymmetry
INVARIANTS
  RowsAreTrue
  PayloadIsActive
CHECK_DEADLOCK FALSE
