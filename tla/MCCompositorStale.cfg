\* The position found for one call is returned to a later one.
SPECIFICATION CompSpec
CONSTANTS
  Output = {left, right}
  Call = {c1, c2}
  NoLayer = NoLayer
  NoPoint = NoPoint
  MaxChanges = 0
  MaxBuffered = 2
SYMMETRY Alike
INVARIANT
  AnswersAreFresh
CHECK_DEADLOCK FALSE
