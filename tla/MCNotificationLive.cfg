CONSTANTS
  user = user
  project = project
  up = up
  down = down
  notice = notice
  Users = {user}
  Admins = {}
  Projects = {project}
  EventTypes = {up, down}
  ProjectOf <- MCProjectOf
  LifecycleOf <- MCLifecycleOf
  DedupeKeys = {key}
  NoKey = NoKey
  IdempotencyKeys = {}
  NoIdempotencyKey = NoIdempotencyKey
  Priorities = {3}
  Urgent = 5
  Channels = {email}
  InApp = InApp
  Subs = {sub}
  OwnerOf <- MCOwnerOf
  Rules = {}
  InitialRule <- MergedTwice
  Unset = Unset
  Workers = {w1}
  NoClaim = NoClaim
  Free = Free
  BatchLimit = 1
  Lease = 0
  RetryDelays <- OneRetry
  QuietStart = 0
  QuietEnd = 0
  Backlog = 0
  Skew = 0
  ManagedUsers = {}
  ManagedProjects = {project}
  ManagedSubs = {}
  MaxTime = 6
  MaxEvents = 2
  MaxCrashes = 1
  LastPublish = 2
SPECIFICATION LiveSpec
PROPERTIES EveryDeliverySettles
CHECK_DEADLOCK FALSE
