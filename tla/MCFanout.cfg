CONSTANTS
  user = user
  project = project
  up = up
  down = down
  notice = notice
  Users = {user, boss}
  Admins = {boss}
  Projects = {project}
  EventTypes = {down, notice}
  ProjectOf <- MCProjectOf
  LifecycleOf <- MCLifecycleOf
  DedupeKeys = {key}
  NoKey = NoKey
  IdempotencyKeys = {}
  NoIdempotencyKey = NoIdempotencyKey
  Priorities = {5}
  Urgent = 5
  Channels = {email, InApp}
  InApp = InApp
  Subs = {sub, watch}
  OwnerOf <- MCOwners
  Rules = {}
  InitialRule <- MCRules
  Unset = Unset
  Workers = {w1}
  NoClaim = NoClaim
  Free = Free
  BatchLimit = 1
  Lease = 1
  RetryDelays <- NoRetry
  QuietStart = 2
  QuietEnd = 3
  Backlog = 0
  Skew = 0
  ManagedUsers = {}
  ManagedProjects = {}
  ManagedSubs = {}
  MaxTime = 3
  MaxEvents = 2
  boss = boss
  watch = watch
SPECIFICATION Spec
INVARIANTS IntervalSpacing
CHECK_DEADLOCK FALSE
