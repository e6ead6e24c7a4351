SPECIFICATION Spec
CONSTANTS
  Reference <- MCReference
  Alphabet <- MCAlphabet
  Bare = "bare"
  Empty = ""
  True = "true"
  Remark = "<path>"
  Unquoted <- MCUnquoted
  Decimal <- MCDecimal
  Inputs <- MCInputs
  Lines <- MCLines
  Shortcuts <- MCShortcuts
  Jobs <- MCJobs
  NoCommand = NoCommand
  Timed = TRUE
INVARIANT CommandsPosted
