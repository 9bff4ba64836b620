SPECIFICATION Spec
CONSTANTS
  UpperCase <- MCUpperCase
  Blanks = {" ", "nl"}
  Controls = {"nl"}
  MaxSender = 3
  MaxHint = 2
  MaxAccount = 3
  None = None
  NotFound = NotFound
  Ambiguous = Ambiguous
  MaxBytes = 6
  MaxAmount = 3
  MaxTimestamp = 9
  Letters <- MCLetters
  EventIds = {"id"}
  Day <- MCDay
  Thrown = {"network-failure", "account_not_found", "else"}
  MaxLines = 1
  Rows <- MCRows
  Requests <- MCRequests
  Currency <- MCCurrency
  MaxRows = 2
INVARIANTS
  EveryOptionWorks
  AnsweredAsTold
  ChoiceHolds
  ImportedMeansBooked
  BookedAsSent
  CodeIsKept
PROPERTIES
  NewRowsMoveNothing
