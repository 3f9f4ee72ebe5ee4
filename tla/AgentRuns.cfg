\* Two concurrent runs, one of them meeting Redis failures or expiry; without
\* symmetry, which liveness checking does not allow.
CONSTANTS
  r1 = r1
  r2 = r2
  Runs <- TwoRuns
  MaxStream <- OneStreams
  MaxFaulty = 1
SPECIFICATION Spec
INVARIANTS ShutdownCoversEveryTask TerminalStatusHasEvent GracefulShutdownSettlesRuns
PROPERTIES OnlyShutdownOverrules ImplementsContract ShutdownCompletes EveryTaskEnds
CHECK_DEADLOCK FALSE
