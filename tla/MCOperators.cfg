CONSTANTS
  None = None
  ann = ann  kim = kim  mia = mia  bob = bob
  owner = owner  member = member  keeper = keeper  heir = heir
  stream = stream  ada = ada  label = label
  Key <- MCKey
  SigningKey <- MCSigningKey
  UserId <- MCUserId
  BeneficiaryId <- MCBeneficiaryId
  StreamId <- MCStreamId
  Asset <- MCAsset
  Name <- MCName
  StakeCredential = {}
  Configurations <- MCConfigurations
  StreamRecord <- MCStreamRecord
  MintStreams <- MCMintStreams
  ScheduleDate <- MCScheduleDate
  Day = 2
  Cooldown = 1
  MaxWindow = 1
  MaxStateInteger = 5
  MaxTime = 4
  MaxUsers = 3
  MaxAccess = 4
  MaxStreams = 1
  BuildWindow = 1
SPECIFICATION ScopedSpec
INVARIANTS
  ConfigurationStaysValid
  DailyLimit
  OperatorBuildersAgree
PROPERTIES
  NoClawback
  RenewalIsBounded
CHECK_DEADLOCK FALSE
