-------------------------------- MODULE Escrow --------------------------------
(***************************************************************************)
(* What the chat ledger promises, without turns, messages, the request     *)
(* journal or SQL: an account per chat that holds at most one reservation  *)
(* at a time.  A reservation is taken within the limit, and then settled   *)
(* for what the provider charged, returned, or frozen when nobody knows    *)
(* what was charged.  A frozen account lends nothing until its owner       *)
(* returns the reservation.                                                *)
(***************************************************************************)
EXTENDS Integers

CONSTANTS Chats,
          Amounts   \* the token amounts that occur: a set of naturals

VARIABLE account

Account == [status : {"closed", "open", "frozen"}, limit : Nat, used : Nat, held : Nat]

NoAccount == [status |-> "closed", limit |-> 0, used |-> 0, held |-> 0]

Init ==
  /\ account \in [Chats -> Account]
  /\ \A c \in Chats :
       /\ account[c].status = "closed" => account[c] = NoAccount
       /\ account[c].status = "frozen" => account[c].held > 0
       /\ account[c].held > 0 => account[c].used + account[c].held <= account[c].limit

OpenAccount(c, limit) ==
  /\ account[c].status = "closed"
  /\ account' = [account EXCEPT ![c] = [NoAccount EXCEPT !.status = "open",
                                                        !.limit = limit]]

\* The limit never goes below what is used and held.
SetLimit(c, limit) ==
  /\ account[c].status # "closed"
  /\ limit >= account[c].used + account[c].held
  /\ account' = [account EXCEPT ![c].limit = limit]

\* One reservation at a time, never from a frozen account, never beyond the limit.
Hold(c, n) ==
  /\ n > 0
  /\ account[c].status = "open"
  /\ account[c].held = 0
  /\ account[c].used + n <= account[c].limit
  /\ account' = [account EXCEPT ![c].held = n]

\* An account that holds nothing is not frozen.
Emptied(c, used) ==
  [status |-> "open", limit |-> account[c].limit, used |-> used, held |-> 0]

\* The provider's figure replaces the estimate, even when it is larger.
Settle(c, n) ==
  /\ account[c].held > 0
  /\ account[c].status = "open"
  /\ account' = [account EXCEPT ![c] = Emptied(c, account[c].used + n)]

Return(c) ==
  /\ account[c].held > 0
  /\ account' = [account EXCEPT ![c] = Emptied(c, account[c].used)]

\* A set of reservations is frozen at once: one unknown outcome, or all the
\* requests in flight when the process died.
Freeze(S) ==
  /\ \A c \in S : account[c].held > 0
  /\ account' = [c \in Chats |->
       IF c \in S THEN [account[c] EXCEPT !.status = "frozen"] ELSE account[c]]

CloseAccount(c) ==
  /\ account[c].status # "closed"
  /\ account' = [account EXCEPT ![c] = NoAccount]

Next ==
  \/ \E c \in Chats, n \in Amounts :
       OpenAccount(c, n) \/ SetLimit(c, n) \/ Hold(c, n) \/ Settle(c, n)
  \/ \E c \in Chats : Return(c) \/ CloseAccount(c)
  \/ \E S \in SUBSET Chats : Freeze(S)

Spec == Init /\ [][Next]_account
===============================================================================
