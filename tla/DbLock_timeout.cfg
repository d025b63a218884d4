SPECIFICATION Spec
CONSTANTS
  gui = gui
  loader = loader
  worker = worker
  NoThread = NoThread
  Thread <- AllThreads
  Writer <- JustWorker
  db_open_delay = 100
  db_open_timeout = 120
PROPERTY WaitsOutTimeout
