CONSTANTS
  p1 = p1
  p2 = p2
  u1 = u1
  u2 = u2
  u3 = u3
  Procs = {p1, p2}
  Users = {u1, u2, u3}
  Home <- MCHome
  Handles = {1, 2, 3, 4, 5, 6}
  Files <- MCFiles
  NoHandle = NoHandle
  Absent = Absent
SPECIFICATION Spec
INVARIANTS
  NeverClosedWhileHeld
  RetiredIsClosedByLastHolder
