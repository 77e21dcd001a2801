SPECIFICATION Spec
CONSTANTS
  Times = {0, 40, 200, 1200}
  Pictures = {1, 2}
  Sounds = {5, 8}
  NULL = NULL
  Lost = Lost
INVARIANTS SoundsGoUp
CHECK_DEADLOCK FALSE
