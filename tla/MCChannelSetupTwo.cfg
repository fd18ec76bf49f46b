CONSTANTS
  b1 = b1
  b2 = b2
  echo = echo
  stats = stats
  Bots <- TwoBots
  Channels <- ThreeChannels
  other = other
  Blank = Blank
  NumSlots = 2
  MaxConnects = 2
  Commands <- SetupCommands
SPECIFICATION Spec
CHECK_DEADLOCK FALSE
INVARIANT EveryBotItsChannel
