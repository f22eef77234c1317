SPECIFICATION Spec
CONSTANTS
  Printable <- MCPrintable
  Blank <- MCBlank
  NewLine = "n"
  Keys <- MCKeys
  MaxLength = 2
  HistoryLimit = 2
  Histories <- MCHistories
  Contexts <- MCContexts
  NoHistory = NoHistory
PROPERTIES
  EditDetaches
