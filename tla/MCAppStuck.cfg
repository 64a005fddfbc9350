SPECIFICATION Spec
CONSTANTS
  Keyboards <- MCKeyboards
  MaxHeld = 2
INVARIANTS NothingStuck
