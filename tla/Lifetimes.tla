----------------------------- MODULE Lifetimes -----------------------------
(***************************************************************************)
(* The connection of a client (ClientLife), the modules of a node and a    *)
(* proxy following its remote module (NodeLife), from creation to the end, *)
(* and the value of a parameter changed by clients (ParameterChange).      *)
(* They share nothing and are checked in one run: which of them a          *)
(* behaviour is about is chosen at the beginning, the variables of the     *)
(* other ones keep a dummy value.                                          *)
(***************************************************************************)
EXTENDS ClientLife, NodeLife

VARIABLES subject, dt, value, reply     \* the last three of ParameterChange

Values == INSTANCE DataTypes
Par == INSTANCE ParameterChange WITH Types <- Values!PlainTypes, Wires <- Values!PlainWires,
                                     Readings <- Values!Complete

parameterVars == <<dt, value, reply>>

ClientOff ==
  /\ self = [io |-> Cl!NoLink, running |-> FALSE] /\ at = [t \in Cl!Threads |-> "none"]
  /\ link = [n \in Cl!Links |-> "none"] /\ stack = {} /\ ref = {} /\ request = {} /\ txq = {}
  /\ requests = 0 /\ breaks = 0 /\ closing = FALSE /\ since = {} /\ overtaken = FALSE
NodeOff ==
  /\ cfg = {} /\ known = {} /\ ioDict = FALSE /\ nodeStarts = 0 /\ phase = "off" /\ todos = << >>
  /\ objects = << >> /\ modules = << >> /\ nodeStack = << >> /\ errors = FALSE /\ polled = {}
  /\ running = {} /\ unmarked = {} /\ path = << >> /\ sorted = << >> /\ order = << >> /\ shut = << >>
FollowerOff ==
  /\ remote = << >> /\ feed = << >> /\ wire = "none" /\ io = FALSE /\ online = FALSE /\ lock = NoThread
  /\ cache = << >> /\ reader = "off" /\ parameters = << >> /\ disconnected = FALSE
  /\ proc = [t \in Follower!Threads |-> Follower!Idle]
  /\ shownLate = {} /\ raced = TRUE /\ changes = 0 /\ losses = 0 /\ fails = 0 /\ asks = 0
ParameterOff == dt = {} /\ value = {} /\ reply = {}

LifetimesInit ==
  \/ subject = "client" /\ Cl!Init /\ NodeOff /\ FollowerOff /\ ParameterOff
  \/ subject = "node" /\ Node!Init /\ ClientOff /\ FollowerOff /\ ParameterOff
  \/ subject = "proxy" /\ Follower!Init /\ ClientOff /\ NodeOff /\ ParameterOff
  \/ subject = "parameter" /\ Par!Init /\ ClientOff /\ NodeOff /\ FollowerOff

ClientStep ==
  subject = "client" /\ Cl!Next /\ UNCHANGED <<subject, nodeVars, followerVars, parameterVars>>
NodeStep ==
  subject = "node" /\ Node!Next /\ UNCHANGED <<subject, clientVars, followerVars, parameterVars>>
FollowerStep ==
  subject = "proxy" /\ Follower!Next /\ UNCHANGED <<subject, clientVars, nodeVars, parameterVars>>
ParameterStep ==
  subject = "parameter" /\ Par!Next /\ UNCHANGED <<subject, clientVars, nodeVars, followerVars>>

LifetimesNext == ClientStep \/ NodeStep \/ FollowerStep \/ ParameterStep

lifetimesVars == <<subject, clientVars, nodeVars, followerVars, parameterVars>>

LifetimesSpec == LifetimesInit /\ [][LifetimesNext]_lifetimesVars

-----------------------------------------------------------------------------
\* A change of a parameter does what was asked for, or is refused and changes nothing.
DoesWhatIsAsked ==
  [][subject = "parameter" /\ reply' # Par!NoReply =>
       IF reply'.ok THEN value' \in Par!Asked(dt, reply'.to, value) ELSE value' = value]_lifetimesVars

\* What a client sees of a value is the value, and compatible() is right for the most types.
TypesAgree == subject = "parameter" => Par!ClientSees /\ Par!CompatibleMostly
=============================================================================
