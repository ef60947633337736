CONSTANTS
  d1 = d1
  d2 = d2
  setup = setup
  Docs = {d1, d2, setup}
  Values = {"x", "y"}
  Gone = Gone
  MaxSeq = 3
  Live = Live
  Calls = {c1}
  CatPaths <- MCCatPaths
  Amount <- MCAmount
  Passes = {"x", "y"}
  KeyOf <- MCKeyOf
  None = None
  BatchSize = 2
  Budgets <- MCBudgets
  CategoriesFirst = FALSE
  Descending <- MCDescending
  Rank <- MCRank
  SortValue <- MCSortValue
  Setup = setup
  ConfigOf <- MCConfigOf
  Default = "c1"
  Explicit = {"c2"}
  BucketOf <- MCBucketOf
  Matches = {"x"}
  Absent = Absent
  Limits <- MCLimits
SYMMETRY MCSymmetry
SPECIFICATION Spec
CHECK_DEADLOCK FALSE
INVARIANTS ViewCurrent SummaryCurrent NavigationAgrees
