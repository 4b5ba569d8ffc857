SPECIFICATION PresubmitsSpec
CONSTANTS
  CInputs = {}
  CReserved = {}
  CStatic <- MCStatic
  CCapacity = 3
  CYaml <- MCYaml
  CEnabled <- MCEnabled
  MaxCFails = 0
INVARIANT OwnPresubmits
