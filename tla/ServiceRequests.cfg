SPECIFICATION Spec
CONSTANTS
  c1 = c1
  c2 = c2
  Clients = {c1, c2}
  Actors = {"ana", "bo"}
  Groups = {"owners", "viewers"}
  GroupsOf <- MCGroupsOf
  Keys = {"k"}
  Names = {"shared"}
  ViewersOf <- MCViewersOf
  Registered = {2}
  PageLimit = 1
  Retention = 2
  Idle = 2
  Absolute = 3
  LoginTtl = 1
  MaxClock = 3
  MaxLogins = 1
  MaxSystems = 3
SYMMETRY Tabs
INVARIANTS RepeatsAreIdempotent SessionsEnd
PROPERTY PagesAreComplete
CHECK_DEADLOCK FALSE
