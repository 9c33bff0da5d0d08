CONSTANTS
  ada = ada
  ben = ben
  alice = alice
  work = work
  play = play
  red = red
  s1 = s1
  s2 = s2
  ready = ready
  gone = gone
  idle = idle
  Null = Null
SPECIFICATION Spec
CHECK_DEADLOCK FALSE
INVARIANTS
  
  NonceYieldsOneToken
  ReadOnlyWhatWasShown
PROPERTIES
  WorkerIsCurrent
  
