CONSTANTS
  user = user
  project = project
  up = up
  down = down
  notice = notice
  Users = {user}
  Admins = {}
  Projects = {project}
  EventTypes = {up, down}
  ProjectOf <- MCProjectOf
  LifecycleOf <- MCLifecycleOf
  DedupeKeys = {key}
  NoKey = NoKey
  IdempotencyKeys = {}
  NoIdempotencyKey = NoIdempotencyKey
  Priorities = {3}
  Urgent = 5
  Channels = {InApp}
  InApp = InApp
  Subs = {sub}
  OwnerOf <- MCOwnerOf
  Rules = {}
  InitialRule <- AllOnce
  Unset = Unset
  Workers = {w1}
  NoClaim = NoClaim
  Free = Free
  BatchLimit = 1
  Lease = 0
  RetryDelays <- OneRetry
  QuietStart = 0
  QuietEnd = 0
  Backlog = 0
  Skew = 0
  ManagedUsers = {}
  ManagedProjects = {}
  ManagedSubs = {}
  MaxTime = 3
  MaxEvents = 2
SPECIFICATION Spec
PROPERTIES AllPreservesBoth
CHECK_DEADLOCK FALSE
