\* Three pages, the second of which repeats the first; one or two publications; every way to go on past the end.
CONSTANTS
  Listing <- MCListing
  Newest = 4
  Deletable = {2}
  PageSize = 2
  Beyond = {"nothing", "empty", "last", "first"}
  MaxPages = 10
  EmptyLimit = 2
  StaleLimit = 3
  Margin = 0
SPECIFICATION PaginationFairSpec
INVARIANT EndlessPortalIsLeft
PROPERTY SweepReadsAll
PROPERTY SweepResumes
PROPERTY NewsAreSeen
