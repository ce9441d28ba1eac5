SPECIFICATION WizardFairSpec
CONSTANTS
  Installers = {b1}
  Visitors = {b2}
  Admins = {1, 2}
  NoUser = none
  TTL = 2
  MaxPanelFaults = 1
INVARIANT WizardTypeOK
INVARIANT LeasedStateIsRecent
PROPERTY SetupStartsAtTheEmail
PROPERTY EveryNavigationEnds
PROPERTY InstallationEnds
