CONSTANTS
  Apps = {app, face1, face2}
  Faces = {face1, face2}
  None = None
  MaxLaunches = 2
SPECIFICATION ViewSpec
SYMMETRY Symmetry
INVARIANT OpenedAppIsOnScreen
