CONSTANTS
  Name <- Names
  Value <- Values
  Number <- Numerals
  Unset = Unset
  Empty = Empty
  Default = Default
  NoFile = NoFile
  NoRequest = NoRequest
  Config <- Configs
  Env <- Envs
  EnvSlug <- EnvSlugOf
  GoodSlug <- GoodSlugs
  BadSlug <- BadSlugs
  OtherName <- OtherNames
  Reserved <- ReservedNames
  AwsName <- AwsNames
  Token <- Tokens
  Chat <- Chats
  Reply <- Texts
  ProjectCount = 2
SPECIFICATION InstallSpec
INVARIANTS
  EachItsOwn
  WrittenLoads
  InstallationTypeOK
  OwnVariablesSuffice
  CommandGetsWhatItNames
  SourceIsReal
CHECK_DEADLOCK FALSE
