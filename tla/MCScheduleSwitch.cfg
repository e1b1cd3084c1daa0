CONSTANTS
  Sub = {1, 2}
  Edited = {1}
  Home <- MCHome
  Profile = {"p", "q"}
  Interval = 1
  BackoffMin = 1
  BackoffMax = 2
  Old = 2
  Back = 1
  MaxBody = 1
  None = None
SPECIFICATION Spec
PROPERTY HoldOutlivesSwitch
