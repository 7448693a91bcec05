CONSTANTS
  p1 = p1
  p2 = p2
  Peers = {p1, p2}
  Texts = {1, 2, 3}
  Scenes <- Reverting
SPECIFICATION Spec
PROPERTY RevertRestores
