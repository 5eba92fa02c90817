\* A mailer on a line and one on the internet; three events.
SPECIFICATION Spec
CONSTANTS
  Mailer = {"caller", "answerer"}
  Launched = {"caller"}
  Tcp = {"answerer"}
  Outside = {"mailout", "ftnindex"}
  MaxTasks = 3
  PauseTime = 1
  TossWait = 2
  MaxEvents = 3
  Endless = FALSE
INVARIANT TypeOK OneFtnfido PacketsRemembered
PROPERTY Tossed
