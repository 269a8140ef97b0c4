CONSTANTS
  Slots <- TwoSlots
  NoSlot = NoSlot
  Programs = {a, b, refused}
  ValidPrograms = {a, b}
  DefaultProgram = a
  Preset = Preset
  Nothing = Nothing
SPECIFICATION Spec
INVARIANTS
  ScreensAgree
  UnsavedWorkWasDeclined
PROPERTIES
  SaveFlowReturnsToItsOrigin
  DestructiveNeedsTurn
