CONSTANTS
  u1 = u1
  o1 = o1
  t1 = t1
  i1 = i1
  k1 = k1
  k2 = k2
  k3 = k3
  r1 = r1
  r2 = r2
  NoEvent = NoEvent
  Nobody = Nobody
  NoFile = NoFile
  RecapIds <- MCRecapIds
  Uploads <- MCUploads
  Requests <- MCRequests
  Events <- MCEvents
  Starts <- MCStarts
  Written <- MCWritten
  CoverIds <- MCCoverIds
  Pictures <- MCPictures
  Owners <- MCOwners
  Tabs <- MCTabs
  Items <- MCItems
  Keys <- MCKeys
  Limit = 1
  MaxPhotos = 2
  MaxTries = 2
  MaxFaults = 1
  SelectionLimit = 2
  MaxSlides = 1
  MaxTime = 1
  MaxVersion = 3
SYMMETRY Symmetry
SPECIFICATION ContentSpec
INVARIANTS
  PublishedIsShown
  NineAtMost
  PhotosHaveFiles
  FilesAreTracked
  AvatarHasFile
  SnapshotIsCurrent
  ListedIffEligible
CHECK_DEADLOCK FALSE
