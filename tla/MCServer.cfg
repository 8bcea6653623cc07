SPECIFICATION MCSpec
CONSTANTS
  Parts = {"reactor", "http", "http_one", "web", "rate", "upgrade", "log", "access", "accounts", "tokens", "logins", "logins_fail", "throttle", "cookie", "mail"}
  NONE = NONE
  Redacted = Redacted
CHECK_DEADLOCK FALSE
INVARIANTS ReactorHolds ServerHolds   MailHolds
  
