CONSTANTS
  UserEnums <- MCUserEnums
  ElementTypes <- MCElementTypes
  Classes <- MCClasses
  VariableTypes <- MCVariableTypes
  CompanionTypes <- MCCompanionTypes
  Avoided <- MCAvoided
SPECIFICATION Spec
INVARIANTS
  ReadsWhatIsHeld
  HoldsItsType
  OneOverloadMatches
  ReferencesLive
