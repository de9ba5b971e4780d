\* Two builds into one output directory, in turn or at the same time, one of which may fail;
\* the sketch and the libraries are edited at any time.
SPECIFICATION Spec
CONSTANTS
  b1 = b1
  b2 = b2
  v1 = v1
  v2 = v2
  l1 = l1
  l2 = l2
  header = header
  main = main
  hex = hex
  elf = elf
  None = None
  Build <- TwoBuilds
  Crashable <- First
  Version <- Versions
  File <- Files
  Part <- Parts
  Library <- Libraries
  Bindings <- BindingsOf
  Exports <- ExportsOf
INVARIANTS
  MarkerCoversOutput
  FirmwareIsOneSketch
  UndisturbedBuildPublishes
