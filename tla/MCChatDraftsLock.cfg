SPECIFICATION Spec
CONSTANTS
  c1 = c1
  c2 = c2
  t1 = t1
  t2 = t2
  NoChat = NoChat
  Chats <- TwoChats
  Tasks <- TwoTasks
  x = x
  y = y
  Texts <- TwoTexts
  Rooms <- LockRooms
PROPERTIES
  LockKeepsPermission
SYMMETRY Symmetry
