SPECIFICATION Spec
CONSTANTS
  Actor = {a1, a2}
  Match = {m1, m2}
  Attempt = {f1, f2, f3}
  Human = Human
  User = User
  Remote = Remote
  NoGame = NoGame
  NoKey = NoKey
  NoCall = NoCall
  NoModel = NoModel
  Nobody = Nobody
  Qube = {alice, bob, carol}
  MaxMessages = 4
  MaxPrior = 1
  Model = {opus, llama}
  Local = {llama}
  Genesis = opus
  Work = {search}
  MaxIterations = 2
  MaxChanges = 2
  MaxRestarts = 1
  MaxMoves = 2
  MaxDrops = 1
  MaxCrashes = 1
  Resident = {alice, bob}
  First = alice
  MaxNumber = 5
  MaxSpoken = 2
  MaxChunks = 2
  MaxTroubles = 0
INVARIANTS
  TypeOK
  TurnsAlternate
  
  RecordedModel
  OnceOnly
  PlayedInOrder
  
PROPERTIES
  
  CopiesAgree
CONSTRAINT Bound
SYMMETRY Symmetry
CHECK_DEADLOCK FALSE
