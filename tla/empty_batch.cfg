SPECIFICATION Spec
CONSTANTS
  N = 4
  L = 1
  is_csv_flag = TRUE
  MaxBatch = 4
  Deleted = "trimed"
INVARIANT SizesAgree
CHECK_DEADLOCK FALSE
