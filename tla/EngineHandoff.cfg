CONSTANT MaxServes = 2
SPECIFICATION SpecHandoff
INVARIANT NoEngineWhileInstalling
CHECK_DEADLOCK FALSE
