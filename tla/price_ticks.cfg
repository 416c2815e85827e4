\* The levels of main.cpp: max_price_tick is 10000.
CONSTANT MaxTick = 9999
SPECIFICATION Spec
INVARIANTS
  TickHasOwnLevel
  TextWithinAHundredth
\* The ticks end.
CHECK_DEADLOCK FALSE
