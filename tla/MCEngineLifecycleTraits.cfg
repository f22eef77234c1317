SPECIFICATION EngineSpec
CONSTANTS
  Apis = {"api1", "api2"}
  Results = {"result1", "result2"}
  Fields = {"shared_data_dir", "user_data_dir", "log_dir"}
INVARIANTS
  TraitsReadable
CHECK_DEADLOCK FALSE
