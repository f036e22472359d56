SPECIFICATION Spec
CONSTANTS
  s1 = s1
  nemo = nemo
  l1 = l1
  l2 = l2
  NoOwner = NoOwner
  Screens <- MCScreens
  Logins <- MCLogins
  Genuine <- MCGenuine
  Contracted <- MCContracted
  Budgets <- MCForgottenBudgets
  SerialSpace = 24
  FirstSerial = 20
INVARIANT
  DesktopStillOurs
CHECK_DEADLOCK FALSE
