SPECIFICATION SessionsSpec
CONSTANTS
  Sessions = {s1, s2}
  Held = {}
  Settled = {s2}
  MaxTabs = 3
  MaxBoots = 2
  MaxGen = 2
  MaxMoves = 1
  Home = home
  Away = away
  None = none
  Identities = {i1, i2, i3}
  Roles = {primary, worker}
  Primary = primary
  Clients = {w1}
  NoActor = NoActor
  MaxEvents = 2
  MaxQueue = 1
  Chats = {c1, c2}
  Grace = 2
  MaxRetry = 2
  Unread = unread
SYMMETRY Symmetric
INVARIANTS
  AcknowledgedWhereDelivered
  FollowerMissesNothing SleepingTeamWaitIsRight
  TheLineMovesOn
PROPERTIES NoStrayTab NoClickIntoSharedConversation SelectedGoesFirst
CHECK_DEADLOCK FALSE
