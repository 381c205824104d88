SPECIFICATION Spec
CONSTANTS
    Viewer = {1, 2}
    Lost = 2
PROPERTIES OthersKeepWatching StopFreesCamera
