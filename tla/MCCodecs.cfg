SPECIFICATION MCSpec
CONSTANTS
  Parts = {"frames", "request", "response", "form", "json", "template", "sql", "bulk", "diff", "reflect", "models", "eager", "digest", "seal"}
CHECK_DEADLOCK FALSE
INVARIANTS FramesHold   TemplatesHold SqlHolds   CryptoHolds
