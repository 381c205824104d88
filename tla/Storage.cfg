SPECIFICATION StoreSpec
CONSTANTS
  first = first
  second = second
  third = third
  one = one
  again = again
  Ep = {first, second, third}
  Puller = {one, again}
  Pusher = {"console"}
  Shared = FALSE
  Pushes = 3
  Pulls = 3
INVARIANTS StoreTypes PushedIsWhole  ListedModelIsWhole
SYMMETRY Symmetry
CHECK_DEADLOCK FALSE
