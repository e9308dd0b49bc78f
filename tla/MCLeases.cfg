CONSTANTS
  user = user
  project = project
  up = up
  down = down
  notice = notice
  Users = {user}
  Admins = {}
  Projects = {project}
  EventTypes = {up, down}
  ProjectOf <- MCProjectOf
  LifecycleOf <- MCLifecycleOf
  DedupeKeys = {key}
  NoKey = NoKey
  IdempotencyKeys = {}
  NoIdempotencyKey = NoIdempotencyKey
  Priorities = {3}
  Urgent = 5
  Channels = {email}
  InApp = InApp
  Subs = {sub}
  OwnerOf <- MCOwnerOf
  Rules = {}
  InitialRule <- MergedRepeating
  Unset = Unset
  Workers = {w1, w2}
  NoClaim = NoClaim
  Free = Free
  BatchLimit = 2
  Lease = 1
  RetryDelays <- OneRetry
  QuietStart = 0
  QuietEnd = 0
  Backlog = 0
  Skew = 0
  ManagedUsers = {}
  ManagedProjects = {}
  ManagedSubs = {}
  MaxTime = 4
  MaxEvents = 2
SYMMETRY Ticks
SPECIFICATION Spec
INVARIANTS TypeOK TokensDiffer RepeatChain
PROPERTIES ImplementsOutbox
CHECK_DEADLOCK FALSE
