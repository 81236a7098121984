CONSTANTS
  None = None
  ann = ann  bob = bob  dan = dan
  owner = owner  spender = spender  heir1 = heir1  heir2 = heir2  stream1 = stream1
  ada = ada  tok = tok  label = label
  MostCoins = 2
  MostValue = 5
  Key <- MCKey
  SigningKey <- MCSigningKey
  UserId <- MCUserId
  BeneficiaryId <- MCBeneficiaryId
  StreamId <- MCStreamId
  Asset <- MCAsset
  AssetOrder <- MCAssetOrder
  Name <- MCName
  StakeCredential = {}
  Configurations <- MCConfigurations
  StreamRecord = {}
  MintStreams <- MCMintStreams
  ScheduleDate = {}
  Coin <- MCDeposit
  Layout <- MCLayout
  MaxCoins = 2
  MaxValue = 5
  Day = 1
  Cooldown = 1
  MaxWindow = 1
  MaxStateInteger = 3
  MaxTime = 2
  MaxUsers = 2
  MaxAccess = 4
  MaxStreams = 1
SPECIFICATION WalletSpec
CONSTRAINT Scope
PROPERTIES
  ReserveStays
  HeirsKeepTheirWorth
  NothingIsLost
  ImplementsAccounts
CHECK_DEADLOCK FALSE
