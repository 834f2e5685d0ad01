CONSTANTS
  None = None
  Malformed = Malformed
  StoreNames = {"app", "lib", "old", "dev", "seed"}
  MaxManifestBytes = 4
  MaxFrameBytes = 4
  Commands <- MCCommands
  Examinations <- MCExaminations
  Clusters <- MCClusters
  Handwritten <- MCHandwritten
  Pointers <- MCPointers
  Offers <- MCOffers
  Nodes <- MCNodes
  Bundles <- MCBundles
  System = "x86"
  Requisites <- MCRequisites
  Answers <- MCAnswers
  MaxSize = 5
  MaxChanges = 1
  MaxCalls = 2
SPECIFICATION Spec
INVARIANTS RunsWhatWasAuthored EmittedIsAdmitted DelegatesWhole ReportIsBelieved ScriptsRunAsWritten DoctorForesees
CHECK_DEADLOCK FALSE
