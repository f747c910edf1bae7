SPECIFICATION Spec
CONSTANTS
  alice = alice
  bob = bob
  User = {alice, bob}
  Group = {g1}
  Account = {a1, a2}
  Tx = {t1}
  owner <- AliceOwns
  Day = {1, 2}
  Interval <- Intervals
  MaxVersion = 2
  MaxUses = 1
SYMMETRY Accounts
CHECK_DEADLOCK FALSE
INVARIANTS SharingIndexExact OwnerRemains
