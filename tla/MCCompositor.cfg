\* Two calls that overlap, time out and meet two changes of the outputs.
SPECIFICATION CompSpec
CONSTANTS
  Output = {left, right}
  Call = {c1, c2}
  NoLayer = NoLayer
  NoPoint = NoPoint
  MaxChanges = 2
  MaxBuffered = 2
SYMMETRY Alike
INVARIANTS
  CompTypeOK
  NoCallForgotten
  LayersLetGo
  FailuresAreExplained
  OnlyLateRepliesPanic
CHECK_DEADLOCK FALSE
