CONSTANTS
  Workers = {w1, w2}
  NoWorker = NoWorker
  Revisions = {r1}
  MaxAttempts = 2
  ScanBeat = 1
  ExtractBeat = 2
  MaxVersion <- MCMaxVersion
SPECIFICATION FairSpec
INVARIANTS QueueAgrees TwoCallsPerArtifact ReportMatchesQueue
PROPERTIES ImplementsLifecycle IntakeSettles
