\* Two requests are enough for the race.
SPECIFICATION Spec
CONSTANTS
  Requests = {r1, r2}
  Settings <- MCEcho
  Workers = 2
  Nil = Nil
CHECK_DEADLOCK FALSE
INVARIANT EchoesOwnHeaders
