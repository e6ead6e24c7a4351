SPECIFICATION Spec
CONSTANTS
  top = top
  a = a
  ab = ab
  c = c
  Paths <- MCPaths
  Above <- MCAbove
  Top = top
  Inside = a
INVARIANTS CopySound OneBroken ExistingKept RemoveSound
