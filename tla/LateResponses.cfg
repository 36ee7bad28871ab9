\* Navigation in the explorer of test reports while what it awaits is fetched.
SPECIFICATION ExplorerSpec
CONSTANTS
  Groups = {unit, browser}
  NoGroup = NoGroup
  MaxEntries = 3
  MaxWaiting = 1
PROPERTIES LateResponsesIgnored
CHECK_DEADLOCK FALSE
