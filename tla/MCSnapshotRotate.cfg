\* Overlapping runs for two guests.
CONSTANTS
  Guests = {100, 200}
  Runs = {timer, person}
  Keep <- MCKeep
  Sundays = {1, 2, 3}
  MaxTime = 3
  MaxStarts = 3
  MaxFaults = 1
SPECIFICATION Spec
INVARIANTS
  TypeOK
  NoPileUp
PROPERTY Rotates
CHECK_DEADLOCK FALSE
