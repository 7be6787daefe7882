SPECIFICATION Spec
CONSTANTS
  Programs <- AnyProgram
  Jobs <- AnyJob
  Orders <- AnyOrder
INVARIANTS TypeOK NothingLeftBehind TimeoutIsReported SuccessIsReal OutputIsForwarded MailIsTrue
PROPERTIES PromptIsHandled PromisesAreKept
CHECK_DEADLOCK FALSE
