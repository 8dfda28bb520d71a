\* S5: a handler registered by a callback during the scan, whose fired
\* flag was never written.
CONSTANTS
  Handlers = {ha, hb, hc}
  NoHandler = NoHandler
  MaxRegs = 3
  Ticks = 2
SPECIFICATION Spec
PROPERTY NewHandlersRunThisTick
