SPECIFICATION Spec
CONSTANTS
  EntryTypes = {0, 1, 2, 3}
  PT_ENTRY_MAX = 3
  AgeModulus = 16
  CallerEntries <- MCCallerEntries
  FactoryStuff <- MCFactoryStuff
  MaxAge = 2
  Endurance = 4
INVARIANTS
  TypeOK
  SomeTableValid
  LoaderAgreesWithBoot
PROPERTIES
  ImplementsRegister
