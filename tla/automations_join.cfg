\* One coordinator whose task lease lapses while its duty lease is renewed.
SPECIFICATION Spec
CONSTANTS
  x = x
  Procs = {p1}
  NOcc = 1
  Autos = {x}
  Setups <- StalledSetups
  MaxConcurrency = 2
CHECK_DEADLOCK FALSE
INVARIANTS QuiescentIsIdle
