---------------------------- MODULE MCLiveEstimate ----------------------------
(* The line under the editor, and what it is asked to calculate.  Two chats,  *)
(* two texts, four steps of the user; for the plan, small prices, budgets and *)
(* lengths on both sides of every comparison, and texts of up to four bytes.  *)
EXTENDS LiveEstimate, RequestPlan

CONSTANTS A, B, a, b, v, listed

Schedule(p, c, r) == [prompt |-> p, completion |-> c, request |-> r]
Confirmed == {{Schedule(1, 1, 0)}, {Schedule(1, 3, 2)}, {Schedule(2, 0, 1), Schedule(0, 2, 1)}}
FreeChat(router) ==
    [mode |-> "free", router |-> router, unasked |-> FALSE, complete |-> TRUE, prices |-> {Zero}]
PaidChats ==
    {[mode |-> "paid", router |-> FALSE, unasked |-> u, complete |-> c, prices |-> p] :
        u \in BOOLEAN, c \in BOOLEAN, p \in Confirmed}

Router == [length |-> RouterContext, most |-> Unknown, standard |-> TRUE, complete |-> TRUE,
           prices |-> {Zero}]
Model(length, most, complete, prices) ==
    [length |-> length, most |-> most, standard |-> TRUE, complete |-> complete, prices |-> prices]
Models ==
    {Unknown, Model(Unknown, 4, TRUE, {Zero}), Model(2, 4, TRUE, {Zero}),
     Model(12, 1, TRUE, {Schedule(1, 1, 0)}), Model(24, 4, FALSE, {Schedule(1, 1, 0)})}
    \union {Model(length, most, TRUE, p) : length \in {12, 24}, most \in {Unknown, 4},
                p \in Confirmed \union {{Zero}, {Schedule(2, 2, 1)}}}

Budget(state, limit, used, money) ==
    [configured |-> TRUE, state |-> state, tokenLimit |-> limit, completion |-> 9, used |-> used,
     reserved |-> 3, costLimit |-> money, spent |-> 2, costReserved |-> 1]
Budgets ==
    {Budget("ready", 40, 0, 60), Budget("ready", 24, 5, 25), Budget("unknown", 24, 5, 25),
     Budget("exhausted", 24, 21, 25), Budget("exhausted", 24, 5, 3),
     [Budget("ready", 24, 5, 25) EXCEPT !.configured = FALSE]}

Message(turn, role, status, size) == [turn |-> turn, role |-> role, status |-> status, size |-> size]
Turn(turn, asked, answered) ==
    <<Message(turn, "user", "sent", asked), Message(turn, "assistant", "sent", answered)>>
Histories ==
    {PrepareHistory(<<>>),
     PrepareHistory(Turn(1, 1, 2) \o <<Message(2, "user", "failed", 3)>> \o Turn(3, 0, 1))}

MCSnapshots ==
    {s \in [chat : PaidChats \union {FreeChat(FALSE)}, budget : Budgets, model : Models,
            history : Histories, key : {Unknown, 30}] : s.chat.mode = "free" => s.key = Unknown}
    \union [chat : {FreeChat(TRUE)}, budget : Budgets, model : {Router}, history : Histories,
            key : {Unknown}]

\* What one request may cost is decided soundly: the largest completion that fits, the longest
\* history, the line's figures those of the send, the reserve no less than the present price
\* (PlanIsLargest, ContextIsLongest, QuoteHolds, ReserveCoversPrice; src/chat/estimates.py).
\* It does not depend on the state, and is evaluated where a behaviour begins.
PlanChecked == revs.session = 0 => PlanSound
=============================================================================
