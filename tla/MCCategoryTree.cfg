\* Two users, two requests, three levels at most.
CONSTANTS
  u1 = u1
  u2 = u2
  r1 = r1
  r2 = r2
  Work = Work
  work = work
  api = api
  space = space
  User = {u1, u2}
  Request = {r1, r2}
  Name = {Work, work, api, space}
  Blank = {space}
  Lower <- MCLower
  Asked <- MCAsked
  Default <- MCDefault
  MaxLevel = 3
SPECIFICATION Spec
SYMMETRY Symmetry
INVARIANTS
  TypeOK
  ParentOwnsPath
  FiledUnderItsPath
CHECK_DEADLOCK FALSE
