SPECIFICATION MembershipSpec
CONSTANTS
  FirstMembers <- MCFirstMembers
  Nobody = "nobody"
  MaxMade = 2
  MaxWishes = 2
  MembershipFaults = {}
  MaxMembershipFaults = 0
CHECK_DEADLOCK FALSE
PROPERTY NextCommitRemoves
