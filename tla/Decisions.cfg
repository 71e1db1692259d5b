CONSTANTS
  ApprovalIds = {1, 2, 3}
  MaxApprovals = 2
  MaxQuestions = 5
  Bodies = {"web", "panel"}
  MaxCards = 1
  MaxBlips = 1
  MaxFailures = 1
  None = None
  Unsaved = Unsaved
  Never = Never
  Nobody = Nobody
SPECIFICATION AllSpec
INVARIANTS ConsentIsKept RoutingIsSound
PROPERTIES OpenQuestionsGoLast CardsAreSettled BrainServesTheWorld ToolsKeepTheirMeaning
CHECK_DEADLOCK FALSE
