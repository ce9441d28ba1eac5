SPECIFICATION Spec
CONSTANTS
  i1 = i1
  i2 = i2
  newcomer = newcomer
  member = member
  category = category
  module = module
  Invitations = {i1}
  EmailOf <- NewcomerOnly
  PerksOf <- OnePerk
  Members <- NoMember
  Redeemers = {r1, r2}
  MaxAccounts = 1
  MaxFaults = 0
PROPERTY AccountsWithProfileSurvive
CHECK_DEADLOCK FALSE
