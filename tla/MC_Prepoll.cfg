\* Three handler structs, two ticks, at most three registrations a tick:
\* enough for S5 (A removes B and registers C) with a struct reused.
CONSTANTS
  Handlers = {ha, hb, hc}
  NoHandler = NoHandler
  MaxRegs = 3
  Ticks = 2
SPECIFICATION Spec
INVARIANT TypeOK
INVARIANT RunsAtMostOnce
PROPERTY EveryRegisteredHandlerRuns
