CONSTANTS
  Producers = {p1, p2}
  Consumers = {c1, c2}
  Entries = 4
  Values = {v1}
  NULL = NULL
  None = None
SPECIFICATION FairSpec
INVARIANTS TypeOK ProducersWoken ConsumersWoken EndIsFinal
PROPERTIES ImplementsFifoQueue PushReturns ConsumersEnd
