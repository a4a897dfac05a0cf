SPECIFICATION Spec
INVARIANTS CacheCurrent StoredIsAuthorized PendingUsable OneConnection
PROPERTY NothingMissed
CONSTANTS
  Caller = {1, 2, 3}
  Value = {"a", "b", "broken"}
  Corrupted = {"broken"}
  Request = {1, 2}
  MaxLogin = 3
  Channel = {"news"}
  EnvChannel = {}
  Message = {1}
  Client = {"c1", "c2"}
  Of <- ChannelOf
