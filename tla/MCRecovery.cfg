CONSTANTS
  None = None
  ann = ann  bob = bob  cal = cal  dan = dan
  owner = owner  member = member  heir1 = heir1  heir2 = heir2
  stream1 = stream1  stream2 = stream2
  ada = ada  label = label
  Key <- MCKey
  SigningKey <- MCSigningKey
  UserId <- MCUserId
  BeneficiaryId <- MCBeneficiaryId
  StreamId <- MCStreamId
  Asset <- MCAsset
  Name <- MCName
  StakeCredential = {}
  Configurations <- MCConfigurations
  StreamRecord = {}
  MintStreams <- MCMintStreams
  ScheduleDate <- MCScheduleDate
  Day = 2
  Cooldown = 1
  MaxWindow = 2
  MaxStateInteger = 7
  MaxTime = 6
  MaxUsers = 2
  MaxAccess = 3
  MaxStreams = 2
  BuildWindow = 1
SPECIFICATION DelaySpec
INVARIANTS
  TypeOK
  PaidWithinAccrued
  CrankIsNeverWedged
  StopIsNeverRefused
  ClockIsNear
  DelayIsBounded
  RecoveryBuildsAreAccepted
  EverybodyCanBuild
PROPERTIES
  RecoveryIsOrderly
  CadenceIsKept
CHECK_DEADLOCK FALSE
