SPECIFICATION Spec
CONSTANTS
  sara = sara
  omar = omar
  bot = bot
  c1 = c1
  c2 = c2
  f1 = f1
  f2 = f2
  Employees = {sara, omar}
  Nobody = bot
  Conversations = {c1, c2}
  Findings = {f1, f2}
  Requests = {r1, r2}
  Regrades = {"major"}
  Pasts <- MCPasts
  Overrides <- MCOverrides
  MaxVerdicts = 2
  MaxChanges = 1
  MaxRuns = 2
  MaxFaults = 1
VIEW WhatCounts
SYMMETRY RequestsAreAlike
INVARIANTS
  VerdictsAreFair
  SeverityIsADecision
  ScoresAreAverages
  SnapshotIsTheBoard
CHECK_DEADLOCK FALSE
