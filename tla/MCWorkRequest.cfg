\* Two competing desktops, one paired anew by the same user.
SPECIFICATION Spec
CONSTANTS
  here = here
  there = there
  first = first
  again = again
  other = other
  ann = ann
  bob = bob
  Desktop = {here, there}
  User = {ann, bob}
  Token = {first, again, other}
  DesktopOf <- Paired
  UserOf <- ActsFor
  None = None
  FirstPaired <- AtFirst
  MaxVersion = 5
  MaxChanges = 1
  MaxLate = 1
INVARIANTS
  RunNeedsClaim
  OnlyClaimedRunIsShown
  MaterializedIsReal
  OneAnswerPerKey
