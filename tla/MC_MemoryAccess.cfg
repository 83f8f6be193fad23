CONSTANTS
  Texts <- MC_Texts
  Pieces <- MC_Pieces
  Users = {"ann", "bob"}
  TextOf <- MC_TextOf
  MaxCalls = 2
  Levels = {"short_term"}
  MaxRows = 4
  MaxForgotten = 1
  Quota = 1
  GraphEvery = 2
SPECIFICATION AccessSpec
INVARIANTS StoredWhenTold CopiesExplained ImportSound
CHECK_DEADLOCK FALSE
