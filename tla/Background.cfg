\* The container is what the pipeline's objects reach, asked from the event loop and a worker.
CONSTANTS
  Parts = {"runtime", "parsing", "datasets", "container"}
  Providers <- Raced
  Shared <- SharedRaced
  Needs <- NeedsRaced
  Ports <- PortNames
  Default <- Defaults
  Late <- Lates
  Optional <- OnlyWithRag
  Script <- StartScript
  Main = "main"
  Workers = {"worker"}
  Routes <- SomeRoutes
  Rank <- RankRaced
  MaxAsks = 1
SPECIFICATION PartsSpec
\* Everything that is due may be over.
CHECK_DEADLOCK FALSE
INVARIANTS WiredAsPlugged BootedIsShared SecondOnlyIfRaced
PROPERTIES RuntimeInv  DatasetsInv
