SPECIFICATION RigSpec
CONSTANTS
  scene = scene
  wrist = wrist
  Role = {scene, wrist}
  Views = 1
  MinimumPoses = 1
  Poses = 1
  Lenses = 2
  Calibrations = 1
INVARIANTS RigTypes NoMixedRig
PROPERTY LensStays
SYMMETRY Symmetry
CHECK_DEADLOCK FALSE
