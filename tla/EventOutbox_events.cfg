SPECIFICATION MCFairSpec
CONSTANTS
  t1 = t1  t2 = t2  t3 = t3  t4 = t4  panel = panel  audit = audit  c1 = c1  w1 = w1  w2 = w2
  None = None
  Txs = {t1, t2, t3, t4}
  Topics = {panel, audit}
  TxTopic <- MCTopic
  EarlyWriters = {t3}
  Poison = {t3}
  Consumers = {c1}
  Workers = {w1, w2}
  ConsumerOf <- MCConsumerOf
  Subs <- MCSubs
  Required <- MCPanelRequired
  Forced = {}
  BatchSize = 1
  MaxFaults = 1
  MaxCrashes = 1
INVARIANTS NoEventSkipped PrunedWereConsumed
PROPERTIES AtLeastOnce CursorsOnlyAdvance
CONSTRAINT PeerIsPlain
ACTION_CONSTRAINT PeerRunsOnce
