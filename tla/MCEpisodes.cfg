CONSTANTS
  user = user
  project = project
  up = up
  down = down
  notice = notice
  Users = {user}
  Admins = {}
  Projects = {project}
  EventTypes = {up, down}
  ProjectOf <- MCProjectOf
  LifecycleOf <- MCLifecycleOf
  DedupeKeys = {key}
  NoKey = NoKey
  IdempotencyKeys = {}
  NoIdempotencyKey = NoIdempotencyKey
  Priorities = {3}
  Urgent = 5
  Channels = {email}
  InApp = InApp
  Subs = {sub}
  OwnerOf <- MCOwnerOf
  Rules <- Edits
  InitialRule <- MergedOnce
  Unset = Unset
  Workers = {w1}
  NoClaim = NoClaim
  Free = Free
  BatchLimit = 1
  Lease = 0
  RetryDelays <- OneRetry
  QuietStart = 0
  QuietEnd = 0
  Backlog = 2
  Skew = 1
  ManagedUsers = {user}
  ManagedProjects = {project}
  ManagedSubs = {sub}
  ManagedEvents = 2
  MaxTime = 2
  MaxEvents = 3
SPECIFICATION MCSpec
INVARIANTS EpisodeFence OncePerEpisode RecoveryClosesQueue
CHECK_DEADLOCK FALSE
