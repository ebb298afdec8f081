SPECIFICATION ApprovalSpec
CONSTANTS
  stix = stix
  api = api
  null = null
  Unset = null
  EntityIds <- MCEntityIds
  TypeOf <- MCTypeOf
  Matches <- MCMatches
  ReviewScore = 5
  ConfirmScore = 8
  MaxAutoMerges = 1
  Sessions <- MCSessions
  Imports <- MCImports
  Todo <- MCTodo
  MaxOperator = 1
  MaxFaults = 2
INVARIANTS AutoMergesAllowed RecordsAgree
PROPERTY UndoSticks
CHECK_DEADLOCK FALSE
