SPECIFICATION Spec
INVARIANTS ScoresFollow LookUpsHold ProfileWhole NothingUnseenDeleted ChunksFollowActor AdminLeft AllowsExactlyTheBlocks
CHECK_DEADLOCK FALSE
CONSTANTS
  Update = {1, 2, 3}
  Rating = {2, 5}
  Link = {1, 2, 3}
  Edit = {"e1", "e2", "e3"}
  Channel = {"c1", "c2"}
  Requester = {"r1", "r2"}
  MaxEvents = 1
  Actor = {"a", "b"}
  Hito = {"h1", "h2"}
  Editor = {1, 2, 3}
  MaxText = 2
  User = {"root", "u"}
  Root = "root"
  Session = {1, 2}
  MaxSteps = 4
  Width = 4
  Entries = 2
