\* Every message of the instance as a response, over as many attempts as the settings
\* give.
CONSTANTS
  Setting <- Settings
  SoftTool <- SoftTools
  ToolTexts <- Texts
  Response <- Responses
  CallsIn <- ParseSoftToolCalls
  MarkdownCalls <- ReadMarkdown
  NormalizeInner <- NormalizeValue
  KeyOrder <- Keys
  Tools <- TheTools
SPECIFICATION RetrySpec
INVARIANTS
  StoreMatchesAnswer
  AnswerIsLastResponse
  CallsAsMeant
  OnlyAllowedCalls
PROPERTIES
  Answered
\* A request is answered.
CHECK_DEADLOCK FALSE
