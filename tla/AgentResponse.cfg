SPECIFICATION Spec
CONSTANTS
  Messages = {a, b}
  Texts = {x, y}
  NdjsonLimit = 4
  MaxLines = 5
  MaxTextLines = 4
  MaxRules = 3
  Directories <- MCDirectories
  PatternOrder <- MCPatternOrder
INVARIANTS
  ReportedTextIsTheAgentsOwn
PROPERTIES
  RecheckSeesThePolicy
  DecodedTextIsTerminal
  ResponseFollowsTheGrammar
SYMMETRY Symmetry
VIEW View
