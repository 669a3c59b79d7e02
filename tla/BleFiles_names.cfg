\* Two names besides the default one, a card with three slots; a restart, a
\* deletion or a format at any point.
SPECIFICATION FilesSpec
CONSTANTS
  Names = {n1, n2}
  Default = d
  CardSlots = 3
SYMMETRY NameSymmetry
INVARIANTS
  NameSurvivesOneCut
  ListsWhatStays
