SPECIFICATION FairSpec
CONSTANTS
  Chats = {c1, c2}
  NoChat = NoChat
  Messages = {m1, m2, m3}
  NoMessage = NoMessage
  Tokens = {t1, bad}
  NoToken = NoToken
  Bad = {bad}
  MaxStarts = 1
  MaxRestarts = 1
INVARIANTS
  OneAtATime
  NothingForgotten
  
PROPERTIES
  EveryMessageSettles
  
CHECK_DEADLOCK FALSE
