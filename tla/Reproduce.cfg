\* One failure, interruption or death anywhere, one edit, any number of reruns.
SPECIFICATION Spec

CONSTANTS
  run = run  fetch = fetch  hpp = hpp  cpp = cpp  cmake = cmake
  Procs <- MCProcs
  Runner = run
  Sources <- MCSources
  Pipeline <- MCPipeline
  Blocks = 2
  MaxInterrupts = 1
  MaxEdits = 1

INVARIANTS
  VerifiedStaysWhole
  AcceptedIsRecorded

PROPERTIES
  RerunCompletes
