SPECIFICATION Spec
CONSTANTS
  Keyboards <- MCKeyboards
  MaxHeld = 2
INVARIANTS OwnedKeysStaySilent BoundsMatchFlash ReportFollowsHands
PROPERTIES EraseNeedsFreshYes CandidateOutlastsDeferral
