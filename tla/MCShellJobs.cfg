SPECIFICATION Spec
CONSTANTS
  Pids = {p1, p2}
  Shell = Shell
  MaxMembers = 2
  MaxLines = 3
  MaxStops = 2
INVARIANTS RemainingCounts NoneForgotten GroupIsJob TerminalAtPrompt
PROPERTIES ForegroundReturns CleanupEnds
