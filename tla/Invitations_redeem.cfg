SPECIFICATION FairSpec
CONSTANTS
  i1 = i1
  i2 = i2
  newcomer = newcomer
  member = member
  category = category
  module = module
  Invitations = {i1, i2}
  EmailOf <- TwoAddresses
  PerksOf <- OnePerkEach
  Members <- OneMember
  Redeemers = {r1, r2}
  MaxAccounts = 3
  MaxFaults = 1
INVARIANT SingleUse
INVARIANT NoOrphans
INVARIANT MembersSurvive
PROPERTY RevokedIsNotRedeemed
PROPERTY EveryRequestEnds
CHECK_DEADLOCK FALSE
