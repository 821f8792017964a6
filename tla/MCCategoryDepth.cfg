\* One user and one request: the listing of a category of the third level.
CONSTANTS
  u1 = u1
  u2 = u2
  r1 = r1
  r2 = r2
  Work = Work
  work = work
  api = api
  space = space
  User = {u1}
  Request = {r1}
  Name = {Work, work, api, space}
  Blank = {space}
  Lower <- MCLower
  Asked <- MCAsked
  Default <- MCDefault
  MaxLevel = 3
SPECIFICATION Spec
INVARIANT ListsEveryCategory
CHECK_DEADLOCK FALSE
