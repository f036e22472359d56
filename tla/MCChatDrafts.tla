---------------------------- MODULE MCChatDrafts ----------------------------
(***************************************************************************)
(* Model checking ChatDrafts with two calls in progress: one chat that is  *)
(* written in, sent and edited up to the third revision, or two chats for  *)
(* the walk of flush_all over the cache.                                   *)
(***************************************************************************)
EXTENDS ChatDrafts, TLC

CONSTANTS c1, c2, t1, t2, x, y

TwoChats == {c1, c2}
TwoTasks == {t1, t2}
TwoTexts == {x, y}

OneChatSends(c, texts, n) ==
  [chats |-> {c}, sending |-> {c}, texts |-> texts, revisions |-> n]
TwoChatsSaved(text) == [chats |-> TwoChats, sending |-> {}, texts |-> {text}, revisions |-> 2]

MCRooms   == {OneChatSends(c, TwoTexts, 3) : c \in TwoChats} \cup {TwoChatsSaved(text) : text \in TwoTexts}
LockRooms == {OneChatSends(c, {text}, 2) : c \in TwoChats, text \in TwoTexts}

Symmetry == Permutations(TwoTasks) \cup Permutations(TwoChats) \cup Permutations(TwoTexts)
=============================================================================
