SPECIFICATION ProgramSpec
CONSTANTS
  Null = Null
  NoStruct = NoStruct
  NoHandle = NoHandle
  Addresses = {"a1", "a2"}
  Objects = {"o1", "o2", "o3", "o4"}
  Settings = {"s1", "s2"}
  Handles = {"h1", "h2"}
  Structs = {"p1", "p2"}
  Blocks = {"b1", "b2", "b3"}
  Apis = {"api1", "api2"}
  Results = {"result"}
  Fields = {"shared_data_dir"}
  Classes = {"RimeMenu", "RimeModule"}
  Userdata = {"u"}
  Nothing = Nothing
  Inputs <- MCInputs
  Nullptr = Nullptr
  IntValues = 8
  SizeValues = 16
  Doubles = 8
  MaxAlloc = 7
  Wrapped <- MCWrapped
  Ids = {1, 2, 3}
  Strings <- MCStrings
INVARIANTS
  ProgramTypeOK
  SoleOwner
  SettingsKeepConfig
  NoStaleBorrow
  NoLeak
  SoleHandle
  LibraryOutlivesObjects
  ConversionsSound
  CollectedIsDestroyed
  ErrorsLeaveNothing
  ArgumentsKept
  CallsLeaveNothing
  CodesSeeCharacters
  FunctionsAgree
PROPERTIES
  LeakOnlyByGetConfig
  LostOnlyByRefill
  MisfreedOnlyIfShared
CHECK_DEADLOCK FALSE
