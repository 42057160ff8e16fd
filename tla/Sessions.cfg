CONSTANTS
  t1 = t1
  t2 = t2
  Tabs <- MCTabs
  Accounts <- MCAccounts
  Admins <- MCAdmins
  Families <- MCFamilies
  Browsers <- MCBrowsers
SPECIFICATION FairSpec
INVARIANTS
  SignedInAsAsked
  NoReplay
  NoOrphanSession
  SignedOutFamilyDead
PROPERTIES
  EveryCallSettles
CHECK_DEADLOCK FALSE
