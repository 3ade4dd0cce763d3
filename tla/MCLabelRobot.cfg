SPECIFICATION Spec
CONSTANTS
  Label <- MCLabel
  Fold <- MCFold
  RepoLabels <- MCRepoLabels
  ClearLabels = {"lgtm"}
  SquashLabel = "squash"
  Handler = {h1, h2}
  Events <- MCEvents
  MaxFaults = 1
  MaxEdits = 1
INVARIANTS
  TypeOK
  AsksAreMet
  OnlyCollaboratorsIntroduce
  SquashFollowsCommits
SYMMETRY MCSymmetry
