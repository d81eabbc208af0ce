SPECIFICATION Spec
INVARIANT ArchiveRead ImagesChosen WindowsExact PitLaid HeldUnderLock DriversReturn BridgeAnswers ListenerSound
PROPERTY SuccessTrue
SYMMETRY ProcSymmetry
CONSTANTS
  p1 = p1
  p2 = p2
  d1 = d1
  d2 = d2
  gone = gone
  Block = 2
  Word = 16
  MaxExtra = 4
  MiB = 2
  Listed = "meta-data"
  OneMiB = 2
  MaxNonFinal = 3
  BufferBytes = 5
  Pkt = 3
  ContentSizes <- MCContents
  PackedSizes <- MCContents
  Procs = {p1, p2}
  Devices = {d1, d2}
  OdinDevices = {d1, d2}
  Bound = {d1}
  MaxSignals = 2
  Invocations <- MCInvocations
  AppJobs <- MCAppJobs
  Tables <- MCTables
  Guess = 4
  MaxSwitches = 4
  MaxPhones = 2
