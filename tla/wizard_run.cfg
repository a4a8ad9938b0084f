CONSTANTS
  readonly = readonly
  default = default
  Profile = {readonly, default}
  Mine = readonly
  Start <- Found
SPECIFICATION Spec
INVARIANTS
  AllOrNothing
  SecretsWhole
  LocalFilesLast
CHECK_DEADLOCK FALSE
