SPECIFICATION FairSpec
CONSTANTS
  gui = gui
  loader = loader
  worker = worker
  NoThread = NoThread
  Thread <- AllThreads
  Writer <- TwoWriters
  db_open_delay = 100
  db_open_timeout = 120
INVARIANTS NoLostWakeup
PROPERTIES ImplementsReadersWriter
PROPERTY NoStuckWait
