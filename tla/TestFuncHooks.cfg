\* A module of two exports that leads to two others and is unloaded and loaded at any time.
SPECIFICATION TestSpec
CONSTANTS
  Module = "A"
  Modules = {"A", "B", "C"}
  Images <- MCImages
  Lower <- MCLower
  Filters = {"", "G"}
  Modes = {32, 64}
  Programs <- MCPrograms
  Reach = 100
  Distance = 40
INVARIANTS
  ResolvesLikeLoader
  ResultsFit
  RelocationKeepsMeaning
  EntryIsWhole
CHECK_DEADLOCK FALSE
