SPECIFICATION Spec
INVARIANT ProgressHonest
PROPERTIES DetailsKept GroupsCurrent VictimsRecovered
CONSTANTS
  Group = {"g1", "g2"}
  BatchSize = 1
  Followed = {"panel1", "panel2"}
  Unfollowed = {"nightly"}
  MaxVersion = 2
  Victim = {"v1"}
  Country = {"AR", "UY"}
  Of <- CountryOf
