SPECIFICATION MCSpec
CONSTANTS
  Downloads = {p1, p2}
  MaxOther = 2
  AlbumSize = 3
  Contents = {a, b}
  AlbumItems = {m1, m2}
  AlbumNames = {n1, n2}
  MaxRuns = 2
  Messages = {p1, p2}
  Files = {f1, f2}
  NoMedia = nomedia
  MaxTouches = 2
SYMMETRY DownloadSymmetry
CHECK_DEADLOCK FALSE
INVARIANTS PublicationSafe AlbumHonest GroupResultHonest ArchiveFaithful
