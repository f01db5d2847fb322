CONSTANTS
  MaxCalls = 2
  Agent = Agent
  Grep = Grep
  Tool = {Agent, Grep}
  Decl <- MCDecl
  Odd = 1
  NoRecord = NoRecord
  Token = {"home", "users", "model", "mark", "text"}
  Stream <- MCStream
  Rule <- MCRule
  Note <- MCNote
  Claims <- MCClaims
  Baseline <- MCBaseline
  NoFile = NoFile
  NoBase = NoBase
  Undeclared = Undeclared
CHECK_DEADLOCK FALSE
SPECIFICATION Both
INVARIANT DivergenceIsTheRuns
