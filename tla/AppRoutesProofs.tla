--------------------------- MODULE AppRoutesProofs ---------------------------
(***************************************************************************)
(* Theorems about AppRoutes, for any budgets of operations, seals and      *)
(* failures.                                                               *)
(*                                                                         *)
(* After the steps of an open session, of the manual lock and of the seal, *)
(* every action is brought back to the steps it makes; the invariant and   *)
(* what follows from it at rest come next, and last what a seal leaves to  *)
(* the operation it overtook.                                              *)
(***************************************************************************)
EXTENDS AppRoutesInvariant

-----------------------------------------------------------------------------
(* The steps of an open session, of the manual lock and of the seal.       *)

\* RequestCodeSettings: the operation goes on at "flush" of "settings", the
\* application changes by Moved, Secures.
LEMMA SettingsBeginSafe ==
  ASSUME RoutesInv, left' \in Lefts,
         app.linux /\ ChatFree /\ Free /\ Rests("op"),
         app' = Capture(Moved(Secures(Capture(Moved(app, "epoch"), "op", {"seal"})), "workspace"), "op", {"epoch", "gen"}),
         MovesTo("op", "settings", "flush")
  PROVE  RoutesInv'
<1>1. app \in Apps /\ task \in Taskings
  BY DEF RoutesInv, RoutesType
<1> DEFINE b1 == Moved(app, "epoch")
           b2 == Capture(b1, "op", {"seal"})
           b3 == Secures(b2)
           b4 == Moved(b3, "workspace")
<1>2. app' = Capture(b4, "op", {"epoch", "gen"})
  OBVIOUS
<1> HIDE DEF b1, b2, b3, b4
<1>3. /\ b1 \in Apps
      /\ Kept(b1, app, {})
  BY ONLY <1>1, MovedIs DEF b1
<1>4. \A t, x : Still(b1, t, x) <=> Still(app, t, x) /\ x # "epoch"
  BY ONLY <1>1, MovedIs DEF b1
<1>5. "op" \in Holders /\ {"seal"} \in SUBSET Whats
  BY DEF Holders, Tasks, Whats, Views
<1>6. /\ b2 \in Apps
      /\ Kept(b2, b1, {})
  BY ONLY <1>3, <1>5, CaptureIs DEF b2
<1>7. \A t, x : Still(b2, t, x) <=> (Still(b1, t, x)) \/ (t = "op" /\ x \in {"seal"})
  BY ONLY <1>3, <1>5, CaptureIs DEF b2
<1>8. /\ b3 \in Apps
      /\ Kept(b3, b2, {"security"})
      /\ b3.security = TRUE
  BY ONLY <1>6, SecuresIs DEF b3
<1>9. \A t, x : Still(b3, t, x) <=> Still(b2, t, x)
  BY ONLY <1>6, SecuresIs DEF b3
<1>10. /\ b4 \in Apps
      /\ Kept(b4, b3, {})
  BY ONLY <1>8, MovedIs DEF b4
<1>11. \A t, x : Still(b4, t, x) <=> Still(b3, t, x) /\ x # "workspace"
  BY ONLY <1>8, MovedIs DEF b4
<1>12. "op" \in Holders /\ {"epoch", "gen"} \in SUBSET Whats
  BY DEF Holders, Tasks, Whats, Views
<1>13. /\ app' \in Apps
      /\ Kept(app', b4, {})
  BY ONLY <1>2, <1>10, <1>12, CaptureIs
<1>14. \A t, x : Still(app', t, x) <=> (Still(b4, t, x)) \/ (t = "op" /\ x \in {"epoch", "gen"})
  BY ONLY <1>2, <1>10, <1>12, CaptureIs
<1>15. /\ Kept(app', app, {"security"})
      /\ app'.security = TRUE
  BY ONLY <1>3, <1>6, <1>8, <1>10, <1>13 DEF Kept, Views, Apps
<1>16. \A t, x : Still(app', t, x) <=> (((Still(app, t, x) /\ x # "epoch") \/ (t = "op" /\ x \in {"seal"})) /\ x # "workspace") \/ (t = "op" /\ x \in {"epoch", "gen"})
  BY ONLY <1>4, <1>7, <1>9, <1>11, <1>14 DEF Views
<1>f. /\ app.linux = TRUE /\ app.session = TRUE /\ app.chats = TRUE /\ ~app.security /\ Free
      /\ Rests("op") /\ left' \in Lefts /\ MovesTo("op", "settings", "flush")
  BY <1>1, Zenon DEF Apps, Opened, ChatFree
<1> USE DEF RoutesInv, Kept, MovesTo, MovesBoth, In, Op, Rests, Shows, Offers, Resuming, Locking,
       Busy, Entering, Moving, NoRights, NoView, Onboarding, Views, Whats, Tasks, Holders, Pcs,
       Free, Opened, ChatFree, AuthCall
<1>17. RoutesType'
  BY ONLY RoutesInv, <1>f, <1>1, <1>13, <1>15, <1>16 DEF RoutesType
<1>18. InOrder'
  BY ONLY RoutesInv, <1>f, <1>1, <1>13, <1>15, <1>16 DEF InOrder
<1>19. OneView' /\ HeldViews'
  BY ONLY RoutesInv, <1>f, <1>1, <1>13, <1>15, <1>16 DEF OneView, HeldViews
<1>20. HeldAtWork'
  BY ONLY RoutesInv, <1>f, <1>1, <1>13, <1>15, <1>16 DEF HeldAtWork
<1>21. OldHoldNothing' /\ SessionFlags' /\ SessionViews' /\ Generations' /\ Handovers'
  BY ONLY RoutesInv, <1>f, <1>1, <1>13, <1>15, <1>16 DEF OldHoldNothing, SessionFlags,
        SessionViews, Generations, Handovers, InOrder, HeldAtWork
<1>22. SessionShown' /\ Sealing' /\ Sealed' /\ OpHolds' /\ OpAuth'
  BY ONLY RoutesInv, <1>f, <1>1, <1>13, <1>15, <1>16 DEF SessionShown, Sealing, Sealed, OpHolds,
        OpAuth
<1>23. OpFront' /\ Rights' /\ OpenIs' /\ EntersOpen'
  BY ONLY RoutesInv, <1>f, <1>1, <1>13, <1>15, <1>16 DEF OpFront, Rights, OpenIs, EntersOpen
<1>24. Registered' /\ FirstRun' /\ PageIs'
  BY ONLY RoutesInv, <1>f, <1>1, <1>13, <1>15, <1>16 DEF Registered, FirstRun, PageIs,
        Generations
<1> QED
  BY ONLY <1>17, <1>18, <1>19, <1>20, <1>21, <1>22, <1>23, <1>24

\* BeginCode: the operation goes on at "check" of "begincode", the application
\* changes by CancelGrant.
LEMMA CodeSettingBeginsSafe ==
  ASSUME RoutesInv, left' \in Lefts,
         "codepin" \in app.views /\ ~Busy /\ Free /\ Rests("op"),
         app' = Capture(CancelGrant(app), "op", {"auth", "codepin", "epoch", "seal"}),
         MovesTo("op", "begincode", "check")
  PROVE  RoutesInv'
<1>1. app \in Apps /\ task \in Taskings
  BY DEF RoutesInv, RoutesType
<1> DEFINE b1 == CancelGrant(app)
<1>2. app' = Capture(b1, "op", {"auth", "codepin", "epoch", "seal"})
  OBVIOUS
<1> HIDE DEF b1
<1>3. /\ b1 \in Apps
      /\ Kept(b1, app, {"replacing", "grant", "issue"})
      /\ b1.replacing = FALSE /\ b1.grant = FALSE /\ b1.issue = FALSE
  BY ONLY <1>1, CancelGrantIs DEF b1
<1>4. \A t, x : Still(b1, t, x) <=> Still(app, t, x) /\ x # "auth"
  BY ONLY <1>1, CancelGrantIs DEF b1
<1>5. "op" \in Holders /\ {"auth", "codepin", "epoch", "seal"} \in SUBSET Whats
  BY DEF Holders, Tasks, Whats, Views
<1>6. /\ app' \in Apps
      /\ Kept(app', b1, {})
  BY ONLY <1>2, <1>3, <1>5, CaptureIs
<1>7. \A t, x : Still(app', t, x) <=> (Still(b1, t, x)) \/ (t = "op" /\ x \in {"auth", "codepin", "epoch", "seal"})
  BY ONLY <1>2, <1>3, <1>5, CaptureIs
<1>8. /\ Kept(app', app, {"replacing", "grant", "issue"})
      /\ app'.replacing = FALSE /\ app'.grant = FALSE /\ app'.issue = FALSE
  BY ONLY <1>3, <1>6 DEF Kept, Views, Apps
<1>9. \A t, x : Still(app', t, x) <=> (Still(app, t, x) /\ x # "auth") \/ (t = "op" /\ x \in {"auth", "codepin", "epoch", "seal"})
  BY ONLY <1>4, <1>7 DEF Views
<1> USE <1>1, <1>6, <1>8, <1>9 DEF RoutesInv, Kept, MovesTo, MovesBoth, In, Op, Rests, Shows, Offers, Resuming, Locking,
       Busy, Entering, Moving, NoRights, NoView, Onboarding, Views, Whats, Tasks, Holders, Pcs,
       Free, Opened, ChatFree, AuthCall
<1>10. RoutesType'
  BY DEF RoutesType
<1>11. InOrder'
  BY DEF InOrder
<1>12. OneView' /\ HeldViews'
  BY DEF OneView, HeldViews
<1>13. HeldAtWork'
  BY DEF HeldAtWork
<1>14. OldHoldNothing' /\ SessionFlags' /\ SessionViews' /\ Generations' /\ Handovers'
  BY DEF OldHoldNothing, SessionFlags, SessionViews, Generations, Handovers
<1>15. SessionShown' /\ Sealing' /\ Sealed' /\ OpHolds' /\ OpAuth'
  BY DEF SessionShown, Sealing, Sealed, OpHolds, OpAuth
<1>16. OpFront' /\ Rights' /\ OpenIs' /\ EntersOpen'
  BY DEF OpFront, Rights, OpenIs, EntersOpen, SessionViews
<1>17. Registered' /\ FirstRun' /\ PageIs'
  BY DEF Registered, FirstRun, PageIs, OneView
<1> QED
  BY ONLY <1>10, <1>11, <1>12, <1>13, <1>14, <1>15, <1>16, <1>17

\* CodeIssued: the operation ends, the application changes by Issues,
\* Unissues.
LEMMA IssueUnseenSafe ==
  ASSUME RoutesInv, left' \in Lefts,
         Op("begincode", {"check"}) /\ ~(Still(app, "op", "epoch") /\ Still(app, "op", "codepin")),
         app' = Forget(Unissues(Issues(app)), "op"),
         MovesTo("op", "none", "idle")
  PROVE  RoutesInv'
<1>1. app \in Apps /\ task \in Taskings
  BY DEF RoutesInv, RoutesType
<1> DEFINE b1 == Issues(app)
           b2 == Unissues(b1)
<1>2. app' = Forget(b2, "op")
  OBVIOUS
<1> HIDE DEF b1, b2
<1>3. /\ b1 \in Apps
      /\ Kept(b1, app, {"issue"})
      /\ b1.issue = (Still(app, "op", "auth") /\ app.open)
  BY ONLY <1>1, IssuesIs DEF b1
<1>4. \A t, x : Still(b1, t, x) <=> Still(app, t, x)
  BY ONLY <1>1, IssuesIs DEF b1
<1>5. /\ b2 \in Apps
      /\ Kept(b2, b1, {"issue"})
      /\ b2.issue = FALSE
  BY ONLY <1>3, UnissuesIs DEF b2
<1>6. \A t, x : Still(b2, t, x) <=> Still(b1, t, x)
  BY ONLY <1>3, UnissuesIs DEF b2
<1>7. /\ app' \in Apps
      /\ Kept(app', b2, {})
  BY ONLY <1>2, <1>5, ForgetIs
<1>8. \A t, x : Still(app', t, x) <=> Still(b2, t, x) /\ t # "op"
  BY ONLY <1>2, <1>5, ForgetIs
<1>9. /\ Kept(app', app, {"issue"})
      /\ app'.issue = FALSE
  BY ONLY <1>3, <1>5, <1>7 DEF Kept, Views, Apps
<1>10. \A t, x : Still(app', t, x) <=> Still(app, t, x) /\ t # "op"
  BY ONLY <1>4, <1>6, <1>8 DEF Views
<1> USE <1>1, <1>7, <1>9, <1>10 DEF RoutesInv, Kept, MovesTo, MovesBoth, In, Op, Rests, Shows, Offers, Resuming, Locking,
       Busy, Entering, Moving, NoRights, NoView, Onboarding, Views, Whats, Tasks, Holders, Pcs,
       Free, Opened, ChatFree, AuthCall
<1>11. RoutesType'
  BY DEF RoutesType
<1>12. InOrder'
  BY DEF InOrder
<1>13. OneView' /\ HeldViews'
  BY DEF OneView, HeldViews
<1>14. HeldAtWork'
  BY DEF HeldAtWork
<1>15. OldHoldNothing' /\ SessionFlags' /\ SessionViews' /\ Generations' /\ Handovers'
  BY DEF OldHoldNothing, SessionFlags, SessionViews, Generations, Handovers
<1>16. SessionShown' /\ Sealing' /\ Sealed' /\ OpHolds' /\ OpAuth'
  BY DEF SessionShown, Sealing, Sealed, OpHolds, OpAuth
<1>17. OpFront' /\ Rights' /\ OpenIs' /\ EntersOpen'
  BY DEF OpFront, Rights, OpenIs, EntersOpen
<1>18. Registered' /\ FirstRun' /\ PageIs'
  BY DEF Registered, FirstRun, PageIs
<1> QED
  BY ONLY <1>11, <1>12, <1>13, <1>14, <1>15, <1>16, <1>17, <1>18

\* CodeIssued: the operation ends, the application changes by Issues,
\* ShowCode.
LEMMA IssueShownSafe ==
  ASSUME RoutesInv, left' \in Lefts,
         Op("begincode", {"check"}) /\ Still(app, "op", "epoch") /\ Still(app, "op", "codepin") /\ Still(app, "op", "auth") /\ app.open,
         app' = Forget(ShowCode(Issues(app)), "op"),
         MovesTo("op", "none", "idle")
  PROVE  RoutesInv'
<1>1. app \in Apps /\ task \in Taskings
  BY DEF RoutesInv, RoutesType
<1> DEFINE b1 == Issues(app)
           b2 == ShowCode(b1)
<1>2. app' = Forget(b2, "op")
  OBVIOUS
<1> HIDE DEF b1, b2
<1>3. /\ b1 \in Apps
      /\ Kept(b1, app, {"issue"})
      /\ b1.issue = (Still(app, "op", "auth") /\ app.open)
  BY ONLY <1>1, IssuesIs DEF b1
<1>4. \A t, x : Still(b1, t, x) <=> Still(app, t, x)
  BY ONLY <1>1, IssuesIs DEF b1
<1>5. /\ b2 \in Apps
      /\ Kept(b2, b1, {"page", "views", "token"})
      /\ b2.page = (IF b1.closing THEN b1.page ELSE "codeshow")
      /\ b2.views = (b1.views \ {"step", "entry", "codepin", "codeshow", "sysrec"}) \cup {"codeshow"}
      /\ b2.token = "none"
  BY ONLY <1>3, ShowCodeIs DEF b2
<1>6. \A t, x : Still(b2, t, x) <=> Still(b1, t, x) /\ x \notin {"step", "entry", "codepin", "codeshow", "sysrec"}
  BY ONLY <1>3, ShowCodeIs DEF b2
<1>7. /\ app' \in Apps
      /\ Kept(app', b2, {})
  BY ONLY <1>2, <1>5, ForgetIs
<1>8. \A t, x : Still(app', t, x) <=> Still(b2, t, x) /\ t # "op"
  BY ONLY <1>2, <1>5, ForgetIs
<1>9. /\ Kept(app', app, {"page", "views", "token", "issue"})
      /\ app'.page = (IF app.closing THEN app.page ELSE "codeshow")
      /\ app'.views = (app.views \ {"step", "entry", "codepin", "codeshow", "sysrec"}) \cup {"codeshow"}
      /\ app'.token = "none" /\ app'.issue = (Still(app, "op", "auth") /\ app.open)
  BY ONLY <1>3, <1>5, <1>7 DEF Kept, Views, Apps
<1>10. \A t, x : Still(app', t, x) <=> Still(app, t, x) /\ x \notin {"step", "entry", "codepin", "codeshow", "sysrec"} /\ t # "op"
  BY ONLY <1>4, <1>6, <1>8 DEF Views
<1>f. /\ Op("begincode", {"check"}) /\ Still(app, "op", "epoch") /\ Still(app, "op", "codepin")
      /\ Still(app, "op", "auth") /\ app.open = TRUE /\ left' \in Lefts
      /\ MovesTo("op", "none", "idle")
  BY <1>1, Zenon DEF Apps, Opened, ChatFree
<1> USE DEF RoutesInv, Kept, MovesTo, MovesBoth, In, Op, Rests, Shows, Offers, Resuming, Locking,
       Busy, Entering, Moving, NoRights, NoView, Onboarding, Views, Whats, Tasks, Holders, Pcs,
       Free, Opened, ChatFree, AuthCall
<1>11. RoutesType'
  BY ONLY RoutesInv, <1>f, <1>1, <1>7, <1>9, <1>10 DEF RoutesType
<1>12. InOrder'
  BY ONLY RoutesInv, <1>f, <1>1, <1>7, <1>9, <1>10 DEF InOrder
<1>13. OneView' /\ HeldViews'
  BY ONLY RoutesInv, <1>f, <1>1, <1>7, <1>9, <1>10 DEF OneView, HeldViews
<1>14. HeldAtWork'
  BY ONLY RoutesInv, <1>f, <1>1, <1>7, <1>9, <1>10 DEF HeldAtWork
<1>15. OldHoldNothing' /\ SessionFlags' /\ SessionViews' /\ Generations' /\ Handovers'
  BY ONLY RoutesInv, <1>f, <1>1, <1>7, <1>9, <1>10 DEF OldHoldNothing, SessionFlags,
        SessionViews, Generations, Handovers, HeldViews
<1>16. SessionShown' /\ Sealing' /\ Sealed' /\ OpHolds' /\ OpAuth'
  BY ONLY RoutesInv, <1>f, <1>1, <1>7, <1>9, <1>10 DEF SessionShown, Sealing, Sealed, OpHolds,
        OpAuth, HeldViews, SessionViews
<1>17. OpFront' /\ Rights' /\ OpenIs' /\ EntersOpen'
  BY ONLY RoutesInv, <1>f, <1>1, <1>7, <1>9, <1>10 DEF OpFront, Rights, OpenIs, EntersOpen,
        HeldViews, OneView
<1>18. Registered' /\ FirstRun' /\ PageIs'
  BY ONLY RoutesInv, <1>f, <1>1, <1>7, <1>9, <1>10 DEF Registered, FirstRun, PageIs, Sealing
<1> QED
  BY ONLY <1>11, <1>12, <1>13, <1>14, <1>15, <1>16, <1>17, <1>18

\* CodeIssued: the operation ends, the application changes by Issues.
LEMMA IssueLateSafe ==
  ASSUME RoutesInv, left' \in Lefts,
         Op("begincode", {"check"}) /\ Still(app, "op", "epoch") /\ Still(app, "op", "codepin") /\ ~(Still(app, "op", "auth") /\ app.open),
         app' = Forget(Issues(app), "op"),
         MovesTo("op", "none", "idle")
  PROVE  RoutesInv'
<1>1. app \in Apps /\ task \in Taskings
  BY DEF RoutesInv, RoutesType
<1> DEFINE b1 == Issues(app)
<1>2. app' = Forget(b1, "op")
  OBVIOUS
<1> HIDE DEF b1
<1>3. /\ b1 \in Apps
      /\ Kept(b1, app, {"issue"})
      /\ b1.issue = (Still(app, "op", "auth") /\ app.open)
  BY ONLY <1>1, IssuesIs DEF b1
<1>4. \A t, x : Still(b1, t, x) <=> Still(app, t, x)
  BY ONLY <1>1, IssuesIs DEF b1
<1>5. /\ app' \in Apps
      /\ Kept(app', b1, {})
  BY ONLY <1>2, <1>3, ForgetIs
<1>6. \A t, x : Still(app', t, x) <=> Still(b1, t, x) /\ t # "op"
  BY ONLY <1>2, <1>3, ForgetIs
<1>7. /\ Kept(app', app, {"issue"})
      /\ app'.issue = (Still(app, "op", "auth") /\ app.open)
  BY ONLY <1>3, <1>5 DEF Kept, Views, Apps
<1>8. \A t, x : Still(app', t, x) <=> Still(app, t, x) /\ t # "op"
  BY ONLY <1>4, <1>6 DEF Views
<1>k. Kept(app', app, {"issue"}) /\ (app'.issue => Still(app, "op", "auth") /\ app.open)
  BY ONLY <1>1, <1>5, <1>7 DEF Kept
<1> USE <1>1, <1>5, <1>8, <1>k DEF RoutesInv, Kept, MovesTo, MovesBoth, In, Op, Rests, Shows, Offers, Resuming, Locking,
       Busy, Entering, Moving, NoRights, NoView, Onboarding, Views, Whats, Tasks, Holders, Pcs,
       Free, Opened, ChatFree, AuthCall
<1>9. RoutesType'
  BY DEF RoutesType
<1>10. InOrder'
  BY DEF InOrder
<1>11. OneView' /\ HeldViews'
  BY DEF OneView, HeldViews
<1>12. HeldAtWork'
  BY DEF HeldAtWork
<1>13. OldHoldNothing' /\ SessionFlags' /\ SessionViews' /\ Generations' /\ Handovers'
  BY DEF OldHoldNothing, SessionFlags, SessionViews, Generations, Handovers
<1>14. SessionShown' /\ Sealing' /\ Sealed' /\ OpHolds' /\ OpAuth'
  BY DEF SessionShown, Sealing, Sealed, OpHolds, OpAuth
<1>15. OpFront'
  BY DEF OpFront
<1>16. Rights'
  BY DEF Rights
<1>17. OpenIs'
  BY DEF OpenIs
<1>18. EntersOpen'
  BY DEF EntersOpen
<1>19. Registered'
  BY DEF Registered
<1>20. FirstRun'
  BY DEF FirstRun
<1>21. PageIs'
  BY DEF PageIs
<1> QED
  BY ONLY <1>9, <1>10, <1>11, <1>12, <1>13, <1>14, <1>15, <1>16, <1>17, <1>18, <1>19, <1>20,
        <1>21

\* ConfirmCode: the operation goes on at "check" of "confirm", the application
\* changes in its captures at most.
LEMMA ConfirmBeginsSafe ==
  ASSUME RoutesInv, left' \in Lefts,
         "codeshow" \in app.views /\ ~Busy /\ Free /\ Rests("op"),
         app' = Capture(app, "op", {"auth", "codeshow", "epoch", "seal"}),
         MovesTo("op", "confirm", "check")
  PROVE  RoutesInv'
<1>1. app \in Apps /\ task \in Taskings
  BY DEF RoutesInv, RoutesType
<1>2. app' = Capture(app, "op", {"auth", "codeshow", "epoch", "seal"})
  OBVIOUS
<1>3. "op" \in Holders /\ {"auth", "codeshow", "epoch", "seal"} \in SUBSET Whats
  BY DEF Holders, Tasks, Whats, Views
<1>4. /\ app' \in Apps
      /\ Kept(app', app, {})
  BY ONLY <1>2, <1>1, <1>3, CaptureIs
<1>5. \A t, x : Still(app', t, x) <=> (Still(app, t, x)) \/ (t = "op" /\ x \in {"auth", "codeshow", "epoch", "seal"})
  BY ONLY <1>2, <1>1, <1>3, CaptureIs
<1> USE <1>1, <1>4, <1>5 DEF RoutesInv, Kept, MovesTo, MovesBoth, In, Op, Rests, Shows, Offers, Resuming, Locking,
       Busy, Entering, Moving, NoRights, NoView, Onboarding, Views, Whats, Tasks, Holders, Pcs,
       Free, Opened, ChatFree, AuthCall
<1>6. RoutesType'
  BY DEF RoutesType
<1>7. InOrder'
  BY DEF InOrder
<1>8. OneView' /\ HeldViews'
  BY DEF OneView, HeldViews
<1>9. HeldAtWork'
  BY DEF HeldAtWork
<1>10. OldHoldNothing' /\ SessionFlags' /\ SessionViews' /\ Generations' /\ Handovers'
  BY DEF OldHoldNothing, SessionFlags, SessionViews, Generations, Handovers
<1>11. SessionShown' /\ Sealing' /\ Sealed' /\ OpHolds' /\ OpAuth'
  BY DEF SessionShown, Sealing, Sealed, OpHolds, OpAuth
<1>12. OpFront' /\ Rights' /\ OpenIs' /\ EntersOpen'
  BY DEF OpFront, Rights, OpenIs, EntersOpen, SessionViews
<1>13. Registered' /\ FirstRun' /\ PageIs'
  BY DEF Registered, FirstRun, PageIs
<1> QED
  BY ONLY <1>6, <1>7, <1>8, <1>9, <1>10, <1>11, <1>12, <1>13

\* CodeConfirmed: the operation goes on at "show" of "confirm", the
\* application changes by Consumes, ClearSecret, Unsecures, Moved.
LEMMA ConfirmResumesSafe ==
  ASSUME RoutesInv, left' \in Lefts,
         Op("confirm", {"check"}) /\ Still(app, "op", "auth") /\ app.open /\ app.issue /\ Still(app, "op", "epoch") /\ Still(app, "op", "codeshow"),
         app' = Capture(Moved(Unsecures(ClearSecret(Consumes(app))), "workspace"), "op", {"gen", "workspace"}),
         MovesTo("op", "confirm", "show")
  PROVE  RoutesInv'
<1>1. app \in Apps /\ task \in Taskings
  BY DEF RoutesInv, RoutesType
<1> DEFINE b1 == Consumes(app)
           b2 == ClearSecret(b1)
           b3 == Unsecures(b2)
           b4 == Moved(b3, "workspace")
<1>2. app' = Capture(b4, "op", {"gen", "workspace"})
  OBVIOUS
<1> HIDE DEF b1, b2, b3, b4
<1>3. /\ b1 \in Apps
      /\ Kept(b1, app, {"issue"})
      /\ b1.issue = (app.issue /\ ~(Still(app, "op", "auth") /\ app.open /\ app.issue))
  BY ONLY <1>1, ConsumesIs DEF b1
<1>4. \A t, x : Still(b1, t, x) <=> Still(app, t, x)
  BY ONLY <1>1, ConsumesIs DEF b1
<1>5. /\ b2 \in Apps
      /\ Kept(b2, b1, {"views", "token", "issue"})
      /\ b2.views = b1.views \ {"step", "entry", "codepin", "codeshow", "sysrec"}
      /\ b2.token = "none" /\ b2.issue = FALSE
  BY ONLY <1>3, ClearSecretIs DEF b2
<1>6. \A t, x : Still(b2, t, x) <=> Still(b1, t, x) /\ x \notin {"step", "entry", "codepin", "codeshow", "sysrec"}
  BY ONLY <1>3, ClearSecretIs DEF b2
<1>7. /\ b3 \in Apps
      /\ Kept(b3, b2, {"security"})
      /\ b3.security = FALSE
  BY ONLY <1>5, UnsecuresIs DEF b3
<1>8. \A t, x : Still(b3, t, x) <=> Still(b2, t, x)
  BY ONLY <1>5, UnsecuresIs DEF b3
<1>9. /\ b4 \in Apps
      /\ Kept(b4, b3, {})
  BY ONLY <1>7, MovedIs DEF b4
<1>10. \A t, x : Still(b4, t, x) <=> Still(b3, t, x) /\ x # "workspace"
  BY ONLY <1>7, MovedIs DEF b4
<1>11. "op" \in Holders /\ {"gen", "workspace"} \in SUBSET Whats
  BY DEF Holders, Tasks, Whats, Views
<1>12. /\ app' \in Apps
      /\ Kept(app', b4, {})
  BY ONLY <1>2, <1>9, <1>11, CaptureIs
<1>13. \A t, x : Still(app', t, x) <=> (Still(b4, t, x)) \/ (t = "op" /\ x \in {"gen", "workspace"})
  BY ONLY <1>2, <1>9, <1>11, CaptureIs
<1>14. /\ Kept(app', app, {"views", "token", "security", "issue"})
      /\ app'.views = app.views \ {"step", "entry", "codepin", "codeshow", "sysrec"}
      /\ app'.token = "none" /\ app'.security = FALSE /\ app'.issue = FALSE
  BY ONLY <1>3, <1>5, <1>7, <1>9, <1>12 DEF Kept, Views, Apps
<1>15. \A t, x : Still(app', t, x) <=> (Still(app, t, x) /\ x \notin {"step", "entry", "codepin", "codeshow", "sysrec", "workspace"}) \/ (t = "op" /\ x \in {"gen", "workspace"})
  BY ONLY <1>4, <1>6, <1>8, <1>10, <1>13 DEF Views
<1>f. /\ Op("confirm", {"check"}) /\ Still(app, "op", "auth") /\ app.open = TRUE
      /\ app.issue = TRUE /\ Still(app, "op", "epoch") /\ Still(app, "op", "codeshow")
      /\ left' \in Lefts /\ MovesTo("op", "confirm", "show")
  BY <1>1, Zenon DEF Apps, Opened, ChatFree
<1> USE DEF RoutesInv, Kept, MovesTo, MovesBoth, In, Op, Rests, Shows, Offers, Resuming, Locking,
       Busy, Entering, Moving, NoRights, NoView, Onboarding, Views, Whats, Tasks, Holders, Pcs,
       Free, Opened, ChatFree, AuthCall
<1>16. RoutesType'
  BY ONLY RoutesInv, <1>f, <1>1, <1>12, <1>14, <1>15 DEF RoutesType
<1>17. InOrder'
  BY ONLY RoutesInv, <1>f, <1>1, <1>12, <1>14, <1>15 DEF InOrder
<1>18. OneView' /\ HeldViews'
  BY ONLY RoutesInv, <1>f, <1>1, <1>12, <1>14, <1>15 DEF OneView, HeldViews
<1>19. HeldAtWork'
  BY ONLY RoutesInv, <1>f, <1>1, <1>12, <1>14, <1>15 DEF HeldAtWork
<1>20. OldHoldNothing' /\ SessionFlags' /\ SessionViews' /\ Generations' /\ Handovers'
  BY ONLY RoutesInv, <1>f, <1>1, <1>12, <1>14, <1>15 DEF OldHoldNothing, SessionFlags,
        SessionViews, Generations, Handovers, HeldViews, InOrder, HeldAtWork
<1>21. SessionShown' /\ Sealing' /\ Sealed' /\ OpHolds' /\ OpAuth'
  BY ONLY RoutesInv, <1>f, <1>1, <1>12, <1>14, <1>15 DEF SessionShown, Sealing, Sealed, OpHolds,
        OpAuth, SessionViews, HeldViews, SessionFlags
<1>22. OpFront' /\ Rights' /\ OpenIs' /\ EntersOpen'
  BY ONLY RoutesInv, <1>f, <1>1, <1>12, <1>14, <1>15 DEF OpFront, Rights, OpenIs, EntersOpen,
        OneView
<1>23. Registered' /\ FirstRun' /\ PageIs'
  BY ONLY RoutesInv, <1>f, <1>1, <1>12, <1>14, <1>15 DEF Registered, FirstRun, PageIs,
        SessionViews, HeldViews
<1> QED
  BY ONLY <1>16, <1>17, <1>18, <1>19, <1>20, <1>21, <1>22, <1>23

\* CodeConfirmed: the operation ends, the application changes by Consumes.
LEMMA ConfirmLateSafe ==
  ASSUME RoutesInv, left' \in Lefts,
         Op("confirm", {"check"}) /\ ~(Still(app, "op", "auth") /\ app.open /\ app.issue /\ Still(app, "op", "epoch") /\ Still(app, "op", "codeshow")),
         app' = Forget(Consumes(app), "op"),
         MovesTo("op", "none", "idle")
  PROVE  RoutesInv'
<1>1. app \in Apps /\ task \in Taskings
  BY DEF RoutesInv, RoutesType
<1> DEFINE b1 == Consumes(app)
<1>2. app' = Forget(b1, "op")
  OBVIOUS
<1> HIDE DEF b1
<1>3. /\ b1 \in Apps
      /\ Kept(b1, app, {"issue"})
      /\ b1.issue = (app.issue /\ ~(Still(app, "op", "auth") /\ app.open /\ app.issue))
  BY ONLY <1>1, ConsumesIs DEF b1
<1>4. \A t, x : Still(b1, t, x) <=> Still(app, t, x)
  BY ONLY <1>1, ConsumesIs DEF b1
<1>5. /\ app' \in Apps
      /\ Kept(app', b1, {})
  BY ONLY <1>2, <1>3, ForgetIs
<1>6. \A t, x : Still(app', t, x) <=> Still(b1, t, x) /\ t # "op"
  BY ONLY <1>2, <1>3, ForgetIs
<1>7. /\ Kept(app', app, {"issue"})
      /\ app'.issue = (app.issue /\ ~(Still(app, "op", "auth") /\ app.open /\ app.issue))
  BY ONLY <1>3, <1>5 DEF Kept, Views, Apps
<1>8. \A t, x : Still(app', t, x) <=> Still(app, t, x) /\ t # "op"
  BY ONLY <1>4, <1>6 DEF Views
<1>k. Kept(app', app, {"issue"}) /\ (app'.issue => app.issue)
  BY ONLY <1>1, <1>5, <1>7 DEF Kept
<1> USE <1>1, <1>5, <1>8, <1>k DEF RoutesInv, Kept, MovesTo, MovesBoth, In, Op, Rests, Shows, Offers, Resuming, Locking,
       Busy, Entering, Moving, NoRights, NoView, Onboarding, Views, Whats, Tasks, Holders, Pcs,
       Free, Opened, ChatFree, AuthCall
<1>9. RoutesType'
  BY DEF RoutesType
<1>10. InOrder'
  BY DEF InOrder
<1>11. OneView' /\ HeldViews'
  BY DEF OneView, HeldViews
<1>12. HeldAtWork'
  BY DEF HeldAtWork
<1>13. OldHoldNothing' /\ SessionFlags' /\ SessionViews' /\ Generations' /\ Handovers'
  BY DEF OldHoldNothing, SessionFlags, SessionViews, Generations, Handovers
<1>14. SessionShown' /\ Sealing' /\ Sealed' /\ OpHolds' /\ OpAuth'
  BY DEF SessionShown, Sealing, Sealed, OpHolds, OpAuth
<1>15. OpFront'
  BY DEF OpFront
<1>16. Rights'
  <2>1. (app.grant => app.token = "recovery" /\ ~Busy)'
    BY DEF Rights
  <2>2. (app.issue => "codeshow" \in app.views)'
    BY DEF Rights
  <2>3. (app.pending => app.token = "setup" /\ ~Busy)'
    BY DEF Rights
  <2>4. (app.replacing => "key" \in app.views /\ ~Locking)'
    BY DEF Rights
  <2>5. (task["op"].pc \in {"ask", "read"} => ~app.grant)'
    BY DEF Rights
  <2> QED
    BY ONLY <2>1, <2>2, <2>3, <2>4, <2>5 DEF Rights
<1>17. OpenIs'
  BY DEF OpenIs
<1>18. EntersOpen'
  BY DEF EntersOpen
<1>19. Registered'
  BY DEF Registered
<1>20. FirstRun'
  BY DEF FirstRun
<1>21. PageIs'
  BY DEF PageIs
<1> QED
  BY ONLY <1>9, <1>10, <1>11, <1>12, <1>13, <1>14, <1>15, <1>16, <1>17, <1>18, <1>19, <1>20,
        <1>21

\* CancelCode: the side coroutine goes on at "show", the application changes
\* by Moved, ClearSecret, Unsecures.
LEMMA SettingsCancelledSafe ==
  ASSUME RoutesInv, left' \in Lefts,
         ~app.closing /\ ("codepin" \in app.views \/ "codeshow" \in app.views) /\ Rests("side"),
         app' = Capture(Moved(Unsecures(ClearSecret(Moved(app, "epoch"))), "workspace"), "side", {"gen", "workspace"}),
         MovesTo("side", "cancel", "show")
  PROVE  RoutesInv'
<1>1. app \in Apps /\ task \in Taskings
  BY DEF RoutesInv, RoutesType
<1> DEFINE b1 == Moved(app, "epoch")
           b2 == ClearSecret(b1)
           b3 == Unsecures(b2)
           b4 == Moved(b3, "workspace")
<1>2. app' = Capture(b4, "side", {"gen", "workspace"})
  OBVIOUS
<1> HIDE DEF b1, b2, b3, b4
<1>3. /\ b1 \in Apps
      /\ Kept(b1, app, {})
  BY ONLY <1>1, MovedIs DEF b1
<1>4. \A t, x : Still(b1, t, x) <=> Still(app, t, x) /\ x # "epoch"
  BY ONLY <1>1, MovedIs DEF b1
<1>5. /\ b2 \in Apps
      /\ Kept(b2, b1, {"views", "token", "issue"})
      /\ b2.views = b1.views \ {"step", "entry", "codepin", "codeshow", "sysrec"}
      /\ b2.token = "none" /\ b2.issue = FALSE
  BY ONLY <1>3, ClearSecretIs DEF b2
<1>6. \A t, x : Still(b2, t, x) <=> Still(b1, t, x) /\ x \notin {"step", "entry", "codepin", "codeshow", "sysrec"}
  BY ONLY <1>3, ClearSecretIs DEF b2
<1>7. /\ b3 \in Apps
      /\ Kept(b3, b2, {"security"})
      /\ b3.security = FALSE
  BY ONLY <1>5, UnsecuresIs DEF b3
<1>8. \A t, x : Still(b3, t, x) <=> Still(b2, t, x)
  BY ONLY <1>5, UnsecuresIs DEF b3
<1>9. /\ b4 \in Apps
      /\ Kept(b4, b3, {})
  BY ONLY <1>7, MovedIs DEF b4
<1>10. \A t, x : Still(b4, t, x) <=> Still(b3, t, x) /\ x # "workspace"
  BY ONLY <1>7, MovedIs DEF b4
<1>11. "side" \in Holders /\ {"gen", "workspace"} \in SUBSET Whats
  BY DEF Holders, Tasks, Whats, Views
<1>12. /\ app' \in Apps
      /\ Kept(app', b4, {})
  BY ONLY <1>2, <1>9, <1>11, CaptureIs
<1>13. \A t, x : Still(app', t, x) <=> (Still(b4, t, x)) \/ (t = "side" /\ x \in {"gen", "workspace"})
  BY ONLY <1>2, <1>9, <1>11, CaptureIs
<1>14. /\ Kept(app', app, {"views", "token", "security", "issue"})
      /\ app'.views = app.views \ {"step", "entry", "codepin", "codeshow", "sysrec"}
      /\ app'.token = "none" /\ app'.security = FALSE /\ app'.issue = FALSE
  BY ONLY <1>3, <1>5, <1>7, <1>9, <1>12 DEF Kept, Views, Apps
<1>15. \A t, x : Still(app', t, x) <=> (Still(app, t, x) /\ x \notin {"epoch", "step", "entry", "codepin", "codeshow", "sysrec", "workspace"}) \/ (t = "side" /\ x \in {"gen", "workspace"})
  BY ONLY <1>4, <1>6, <1>8, <1>10, <1>13 DEF Views
<1> USE <1>1, <1>12, <1>14, <1>15 DEF RoutesInv, Kept, MovesTo, MovesBoth, In, Op, Rests, Shows, Offers, Resuming, Locking,
       Busy, Entering, Moving, NoRights, NoView, Onboarding, Views, Whats, Tasks, Holders, Pcs,
       Free, Opened, ChatFree, AuthCall
<1>16. RoutesType'
  BY DEF RoutesType
<1>17. InOrder'
  BY DEF InOrder
<1>18. OneView' /\ HeldViews'
  BY DEF OneView, HeldViews
<1>19. HeldAtWork'
  BY DEF HeldAtWork
<1>20. OldHoldNothing' /\ SessionFlags' /\ SessionViews' /\ Generations' /\ Handovers'
  BY DEF OldHoldNothing, SessionFlags, SessionViews, Generations, Handovers
<1>21. SessionShown' /\ Sealing' /\ Sealed' /\ OpHolds' /\ OpAuth'
  BY DEF SessionShown, Sealing, Sealed, OpHolds, OpAuth, SessionFlags, SessionViews, HeldViews
<1>22. OpFront' /\ Rights' /\ OpenIs' /\ EntersOpen'
  BY DEF OpFront, Rights, OpenIs, EntersOpen, OneView, SessionViews
<1>23. Registered' /\ FirstRun' /\ PageIs'
  BY DEF Registered, FirstRun, PageIs, SessionViews, HeldViews, OpHolds, OneView
<1> QED
  BY ONLY <1>16, <1>17, <1>18, <1>19, <1>20, <1>21, <1>22, <1>23

\* RequestReset: no coroutine moves, the application changes by DialogUp.
LEMMA ResetRequestedSafe ==
  ASSUME RoutesInv, left' \in Lefts,
         ChatFree /\ Free /\ Rests("op") /\ ~app.dialog,
         app' = Capture(DialogUp(app), "dialog", {"epoch", "gen"}),
         UNCHANGED task
  PROVE  RoutesInv'
<1>1. app \in Apps /\ task \in Taskings
  BY DEF RoutesInv, RoutesType
<1> DEFINE b1 == DialogUp(app)
<1>2. app' = Capture(b1, "dialog", {"epoch", "gen"})
  OBVIOUS
<1> HIDE DEF b1
<1>3. /\ b1 \in Apps
      /\ Kept(b1, app, {"dialog"})
      /\ b1.dialog = TRUE
  BY ONLY <1>1, DialogUpIs DEF b1
<1>4. \A t, x : Still(b1, t, x) <=> Still(app, t, x)
  BY ONLY <1>1, DialogUpIs DEF b1
<1>5. "dialog" \in Holders /\ {"epoch", "gen"} \in SUBSET Whats
  BY DEF Holders, Tasks, Whats, Views
<1>6. /\ app' \in Apps
      /\ Kept(app', b1, {})
  BY ONLY <1>2, <1>3, <1>5, CaptureIs
<1>7. \A t, x : Still(app', t, x) <=> (Still(b1, t, x)) \/ (t = "dialog" /\ x \in {"epoch", "gen"})
  BY ONLY <1>2, <1>3, <1>5, CaptureIs
<1>8. /\ Kept(app', app, {"dialog"})
      /\ app'.dialog = TRUE
  BY ONLY <1>3, <1>6 DEF Kept, Views, Apps
<1>9. \A t, x : Still(app', t, x) <=> (Still(app, t, x)) \/ (t = "dialog" /\ x \in {"epoch", "gen"})
  BY ONLY <1>4, <1>7 DEF Views
<1>f. /\ app.session = TRUE /\ app.chats = TRUE /\ ~app.security /\ Free /\ Rests("op")
      /\ ~app.dialog /\ left' \in Lefts /\ UNCHANGED task
  BY <1>1, Zenon DEF Apps, Opened, ChatFree
<1> USE DEF RoutesInv, Kept, MovesTo, MovesBoth, In, Op, Rests, Shows, Offers, Resuming, Locking,
       Busy, Entering, Moving, NoRights, NoView, Onboarding, Views, Whats, Tasks, Holders, Pcs,
       Free, Opened, ChatFree, AuthCall
<1>10. RoutesType'
  BY ONLY RoutesInv, <1>f, <1>1, <1>6, <1>8, <1>9 DEF RoutesType
<1>11. InOrder'
  BY ONLY RoutesInv, <1>f, <1>1, <1>6, <1>8, <1>9 DEF InOrder
<1>12. OneView' /\ HeldViews'
  BY ONLY RoutesInv, <1>f, <1>1, <1>6, <1>8, <1>9 DEF OneView, HeldViews
<1>13. HeldAtWork'
  BY ONLY RoutesInv, <1>f, <1>1, <1>6, <1>8, <1>9 DEF HeldAtWork
<1>14. OldHoldNothing' /\ SessionFlags' /\ SessionViews' /\ Generations' /\ Handovers'
  BY ONLY RoutesInv, <1>f, <1>1, <1>6, <1>8, <1>9 DEF OldHoldNothing, SessionFlags,
        SessionViews, Generations, Handovers
<1>15. SessionShown' /\ Sealing' /\ Sealed' /\ OpHolds' /\ OpAuth'
  BY ONLY RoutesInv, <1>f, <1>1, <1>6, <1>8, <1>9 DEF SessionShown, Sealing, Sealed, OpHolds,
        OpAuth, HeldAtWork
<1>16. OpFront' /\ Rights' /\ OpenIs' /\ EntersOpen'
  BY ONLY RoutesInv, <1>f, <1>1, <1>6, <1>8, <1>9 DEF OpFront, Rights, OpenIs, EntersOpen
<1>17. Registered' /\ FirstRun' /\ PageIs'
  BY ONLY RoutesInv, <1>f, <1>1, <1>6, <1>8, <1>9 DEF Registered, FirstRun, PageIs
<1> QED
  BY ONLY <1>10, <1>11, <1>12, <1>13, <1>14, <1>15, <1>16, <1>17

\* CancelReset: no coroutine moves, the application changes by DialogDown.
LEMMA ResetDroppedSafe ==
  ASSUME RoutesInv, left' \in Lefts,
         app.dialog,
         app' = Forget(DialogDown(app), "dialog"),
         UNCHANGED task
  PROVE  RoutesInv'
<1>1. app \in Apps /\ task \in Taskings
  BY DEF RoutesInv, RoutesType
<1> DEFINE b1 == DialogDown(app)
<1>2. app' = Forget(b1, "dialog")
  OBVIOUS
<1> HIDE DEF b1
<1>3. /\ b1 \in Apps
      /\ Kept(b1, app, {"dialog"})
      /\ b1.dialog = FALSE
  BY ONLY <1>1, DialogDownIs DEF b1
<1>4. \A t, x : Still(b1, t, x) <=> Still(app, t, x)
  BY ONLY <1>1, DialogDownIs DEF b1
<1>5. /\ app' \in Apps
      /\ Kept(app', b1, {})
  BY ONLY <1>2, <1>3, ForgetIs
<1>6. \A t, x : Still(app', t, x) <=> Still(b1, t, x) /\ t # "dialog"
  BY ONLY <1>2, <1>3, ForgetIs
<1>7. /\ Kept(app', app, {"dialog"})
      /\ app'.dialog = FALSE
  BY ONLY <1>3, <1>5 DEF Kept, Views, Apps
<1>8. \A t, x : Still(app', t, x) <=> Still(app, t, x) /\ t # "dialog"
  BY ONLY <1>4, <1>6 DEF Views
<1>f. app.dialog = TRUE /\ left' \in Lefts /\ UNCHANGED task
  BY <1>1, Zenon DEF Apps, Opened, ChatFree
<1> USE DEF RoutesInv, Kept, MovesTo, MovesBoth, In, Op, Rests, Shows, Offers, Resuming, Locking,
       Busy, Entering, Moving, NoRights, NoView, Onboarding, Views, Whats, Tasks, Holders, Pcs,
       Free, Opened, ChatFree, AuthCall
<1>9. RoutesType'
  BY ONLY RoutesInv, <1>f, <1>1, <1>5, <1>7, <1>8 DEF RoutesType
<1>10. InOrder'
  BY ONLY RoutesInv, <1>f, <1>1, <1>5, <1>7, <1>8 DEF InOrder
<1>11. OneView' /\ HeldViews'
  BY ONLY RoutesInv, <1>f, <1>1, <1>5, <1>7, <1>8 DEF OneView, HeldViews
<1>12. HeldAtWork'
  BY ONLY RoutesInv, <1>f, <1>1, <1>5, <1>7, <1>8 DEF HeldAtWork
<1>13. OldHoldNothing' /\ SessionFlags' /\ SessionViews' /\ Generations' /\ Handovers'
  BY ONLY RoutesInv, <1>f, <1>1, <1>5, <1>7, <1>8 DEF OldHoldNothing, SessionFlags,
        SessionViews, Generations, Handovers
<1>14. SessionShown' /\ Sealing' /\ Sealed' /\ OpHolds' /\ OpAuth'
  BY ONLY RoutesInv, <1>f, <1>1, <1>5, <1>7, <1>8 DEF SessionShown, Sealing, Sealed, OpHolds,
        OpAuth
<1>15. OpFront' /\ Rights' /\ OpenIs' /\ EntersOpen'
  BY ONLY RoutesInv, <1>f, <1>1, <1>5, <1>7, <1>8 DEF OpFront, Rights, OpenIs, EntersOpen
<1>16. Registered' /\ FirstRun' /\ PageIs'
  BY ONLY RoutesInv, <1>f, <1>1, <1>5, <1>7, <1>8 DEF Registered, FirstRun, PageIs
<1> QED
  BY ONLY <1>9, <1>10, <1>11, <1>12, <1>13, <1>14, <1>15, <1>16

\* ConfirmReset: the operation goes on at "flush" of "reset", the application
\* changes by DialogDown.
LEMMA ResetBeginsSafe ==
  ASSUME RoutesInv, left' \in Lefts,
         app.dialog /\ Still(app, "dialog", "epoch") /\ Still(app, "dialog", "gen") /\ Free /\ Rests("op"),
         app' = Capture(Forget(DialogDown(app), "dialog"), "op", {"epoch", "gen", "seal"}),
         MovesTo("op", "reset", "flush")
  PROVE  RoutesInv'
<1>1. app \in Apps /\ task \in Taskings
  BY DEF RoutesInv, RoutesType
<1> DEFINE b1 == DialogDown(app)
           b2 == Forget(b1, "dialog")
<1>2. app' = Capture(b2, "op", {"epoch", "gen", "seal"})
  OBVIOUS
<1> HIDE DEF b1, b2
<1>3. /\ b1 \in Apps
      /\ Kept(b1, app, {"dialog"})
      /\ b1.dialog = FALSE
  BY ONLY <1>1, DialogDownIs DEF b1
<1>4. \A t, x : Still(b1, t, x) <=> Still(app, t, x)
  BY ONLY <1>1, DialogDownIs DEF b1
<1>5. /\ b2 \in Apps
      /\ Kept(b2, b1, {})
  BY ONLY <1>3, ForgetIs DEF b2
<1>6. \A t, x : Still(b2, t, x) <=> Still(b1, t, x) /\ t # "dialog"
  BY ONLY <1>3, ForgetIs DEF b2
<1>7. "op" \in Holders /\ {"epoch", "gen", "seal"} \in SUBSET Whats
  BY DEF Holders, Tasks, Whats, Views
<1>8. /\ app' \in Apps
      /\ Kept(app', b2, {})
  BY ONLY <1>2, <1>5, <1>7, CaptureIs
<1>9. \A t, x : Still(app', t, x) <=> (Still(b2, t, x)) \/ (t = "op" /\ x \in {"epoch", "gen", "seal"})
  BY ONLY <1>2, <1>5, <1>7, CaptureIs
<1>10. /\ Kept(app', app, {"dialog"})
      /\ app'.dialog = FALSE
  BY ONLY <1>3, <1>5, <1>8 DEF Kept, Views, Apps
<1>11. \A t, x : Still(app', t, x) <=> (Still(app, t, x) /\ t # "dialog") \/ (t = "op" /\ x \in {"epoch", "gen", "seal"})
  BY ONLY <1>4, <1>6, <1>9 DEF Views
<1>f. /\ app.dialog = TRUE /\ Still(app, "dialog", "epoch") /\ Still(app, "dialog", "gen")
      /\ Free /\ Rests("op") /\ left' \in Lefts /\ MovesTo("op", "reset", "flush")
  BY <1>1, Zenon DEF Apps, Opened, ChatFree
<1> USE DEF RoutesInv, Kept, MovesTo, MovesBoth, In, Op, Rests, Shows, Offers, Resuming, Locking,
       Busy, Entering, Moving, NoRights, NoView, Onboarding, Views, Whats, Tasks, Holders, Pcs,
       Free, Opened, ChatFree, AuthCall
<1>12. RoutesType'
  BY ONLY RoutesInv, <1>f, <1>1, <1>8, <1>10, <1>11 DEF RoutesType
<1>13. InOrder'
  BY ONLY RoutesInv, <1>f, <1>1, <1>8, <1>10, <1>11 DEF InOrder
<1>14. OneView' /\ HeldViews'
  BY ONLY RoutesInv, <1>f, <1>1, <1>8, <1>10, <1>11 DEF OneView, HeldViews
<1>15. HeldAtWork'
  BY ONLY RoutesInv, <1>f, <1>1, <1>8, <1>10, <1>11 DEF HeldAtWork
<1>16. OldHoldNothing' /\ SessionFlags' /\ SessionViews' /\ Generations' /\ Handovers'
  BY ONLY RoutesInv, <1>f, <1>1, <1>8, <1>10, <1>11 DEF OldHoldNothing, SessionFlags,
        SessionViews, Generations, Handovers, HeldAtWork, InOrder
<1>17. SessionShown' /\ Sealing' /\ Sealed' /\ OpHolds' /\ OpAuth'
  BY ONLY RoutesInv, <1>f, <1>1, <1>8, <1>10, <1>11 DEF SessionShown, Sealing, Sealed, OpHolds,
        OpAuth
<1>18. OpFront' /\ Rights' /\ OpenIs' /\ EntersOpen'
  BY ONLY RoutesInv, <1>f, <1>1, <1>8, <1>10, <1>11 DEF OpFront, Rights, OpenIs, EntersOpen,
        Generations
<1>19. Registered' /\ FirstRun' /\ PageIs'
  BY ONLY RoutesInv, <1>f, <1>1, <1>8, <1>10, <1>11 DEF Registered, FirstRun, PageIs,
        Generations
<1> QED
  BY ONLY <1>12, <1>13, <1>14, <1>15, <1>16, <1>17, <1>18, <1>19

\* ResetFlushed: the operation ends, the application changes by Deactivate,
\* Replace, CancelPending, CancelGrant, Replaces, ShowKey.
LEMMA ResetShowsKeySafe ==
  ASSUME RoutesInv, left' \in Lefts,
         Op("reset", {"flush"}) /\ Still(app, "op", "epoch") /\ Still(app, "op", "gen") /\ app.session /\ app.open,
         app' = Forget(ShowKey(Replaces(CancelGrant(CancelPending(Replace(Deactivate(app), "blank"))))), "op"),
         MovesTo("op", "none", "idle")
  PROVE  RoutesInv'
<1>1. app \in Apps /\ task \in Taskings
  BY DEF RoutesInv, RoutesType
<1> DEFINE b1 == Deactivate(app)
           b2 == Replace(b1, "blank")
           b3 == CancelPending(b2)
           b4 == CancelGrant(b3)
           b5 == Replaces(b4)
           b6 == ShowKey(b5)
<1>2. app' = Forget(b6, "op")
  OBVIOUS
<1> HIDE DEF b1, b2, b3, b4, b5, b6
<1>3. /\ b1 \in Apps
      /\ Kept(b1, app, {"session", "security", "deferred", "chats"})
      /\ b1.session = FALSE /\ b1.security = FALSE /\ b1.deferred = FALSE /\ b1.chats = FALSE
  BY ONLY <1>1, DeactivateIs DEF b1
<1>4. \A t, x : Still(b1, t, x) <=> Still(app, t, x) /\ x \notin {"gen", "workspace"}
  BY ONLY <1>1, DeactivateIs DEF b1
<1>5. /\ b2 \in Apps
      /\ Kept(b2, b1, {"page"})
      /\ b2.page = (IF b1.closing THEN b1.page ELSE "blank")
  BY ONLY <1>3, ReplaceIs DEF b2, Views, Pages
<1>6. \A t, x : Still(b2, t, x) <=> Still(b1, t, x)
  BY ONLY <1>3, ReplaceIs DEF b2, Views, Pages
<1>7. /\ b3 \in Apps
      /\ Kept(b3, b2, {"pending"})
      /\ b3.pending = FALSE
  BY ONLY <1>5, CancelPendingIs DEF b3
<1>8. \A t, x : Still(b3, t, x) <=> Still(b2, t, x) /\ x # "auth"
  BY ONLY <1>5, CancelPendingIs DEF b3
<1>9. /\ b4 \in Apps
      /\ Kept(b4, b3, {"replacing", "grant", "issue"})
      /\ b4.replacing = FALSE /\ b4.grant = FALSE /\ b4.issue = FALSE
  BY ONLY <1>7, CancelGrantIs DEF b4
<1>10. \A t, x : Still(b4, t, x) <=> Still(b3, t, x) /\ x # "auth"
  BY ONLY <1>7, CancelGrantIs DEF b4
<1>11. /\ b5 \in Apps
      /\ Kept(b5, b4, {"open", "replacing"})
      /\ b5.open = FALSE /\ b5.replacing = TRUE
  BY ONLY <1>9, ReplacesIs DEF b5
<1>12. \A t, x : Still(b5, t, x) <=> Still(b4, t, x)
  BY ONLY <1>9, ReplacesIs DEF b5
<1>13. /\ b6 \in Apps
      /\ Kept(b6, b5, {"page", "views", "token", "session", "security", "deferred", "chats", "issue"})
      /\ b6.page = (IF b5.closing THEN b5.page ELSE "key") /\ b6.views = {"key"}
      /\ b6.token = "none" /\ b6.session = FALSE /\ b6.security = FALSE
      /\ b6.deferred = FALSE /\ b6.chats = FALSE /\ b6.issue = FALSE
  BY ONLY <1>11, ShowKeyIs DEF b6
<1>14. \A t, x : Still(b6, t, x) <=> Still(b5, t, x) /\ x \notin Views \cup {"gen", "workspace"}
  BY ONLY <1>11, ShowKeyIs DEF b6
<1>15. /\ app' \in Apps
      /\ Kept(app', b6, {})
  BY ONLY <1>2, <1>13, ForgetIs
<1>16. \A t, x : Still(app', t, x) <=> Still(b6, t, x) /\ t # "op"
  BY ONLY <1>2, <1>13, ForgetIs
<1>17. /\ Kept(app', app, {"page", "views", "token", "session", "security", "deferred", "chats", "open", "pending", "replacing", "grant", "issue"})
      /\ app'.page = (IF app.closing THEN (IF app.closing THEN app.page ELSE "blank") ELSE "key")
      /\ app'.views = {"key"} /\ app'.token = "none" /\ app'.session = FALSE
      /\ app'.security = FALSE /\ app'.deferred = FALSE /\ app'.chats = FALSE
      /\ app'.open = FALSE /\ app'.pending = FALSE /\ app'.replacing = TRUE
      /\ app'.grant = FALSE /\ app'.issue = FALSE
  BY ONLY <1>3, <1>5, <1>7, <1>9, <1>11, <1>13, <1>15 DEF Kept, Views, Apps
<1>18. \A t, x : Still(app', t, x) <=> Still(app, t, x) /\ x \notin Views \cup {"gen", "workspace", "auth"} /\ t # "op"
  BY ONLY <1>4, <1>6, <1>8, <1>10, <1>12, <1>14, <1>16 DEF Views
<1>f. /\ Op("reset", {"flush"}) /\ Still(app, "op", "epoch") /\ Still(app, "op", "gen")
      /\ app.session = TRUE /\ app.open = TRUE /\ left' \in Lefts
      /\ MovesTo("op", "none", "idle")
  BY <1>1, Zenon DEF Apps, Opened, ChatFree
<1> USE DEF RoutesInv, Kept, MovesTo, MovesBoth, In, Op, Rests, Shows, Offers, Resuming, Locking,
       Busy, Entering, Moving, NoRights, NoView, Onboarding, Views, Whats, Tasks, Holders, Pcs,
       Free, Opened, ChatFree, AuthCall
<1>19. RoutesType'
  BY ONLY RoutesInv, <1>f, <1>1, <1>15, <1>17, <1>18 DEF RoutesType
<1>20. InOrder'
  BY ONLY RoutesInv, <1>f, <1>1, <1>15, <1>17, <1>18 DEF InOrder
<1>21. OneView' /\ HeldViews'
  BY ONLY RoutesInv, <1>f, <1>1, <1>15, <1>17, <1>18 DEF OneView, HeldViews
<1>22. HeldAtWork'
  BY ONLY RoutesInv, <1>f, <1>1, <1>15, <1>17, <1>18 DEF HeldAtWork
<1>23. OldHoldNothing' /\ SessionFlags' /\ SessionViews' /\ Generations' /\ Handovers'
  BY ONLY RoutesInv, <1>f, <1>1, <1>15, <1>17, <1>18 DEF OldHoldNothing, SessionFlags,
        SessionViews, Generations, Handovers
<1>24. SessionShown' /\ Sealing' /\ Sealed' /\ OpHolds' /\ OpAuth'
  BY ONLY RoutesInv, <1>f, <1>1, <1>15, <1>17, <1>18 DEF SessionShown, Sealing, Sealed, OpHolds,
        OpAuth
<1>25. OpFront' /\ Rights' /\ OpenIs' /\ EntersOpen'
  BY ONLY RoutesInv, <1>f, <1>1, <1>15, <1>17, <1>18 DEF OpFront, Rights, OpenIs, EntersOpen
<1>26. Registered' /\ FirstRun' /\ PageIs'
  BY ONLY RoutesInv, <1>f, <1>1, <1>15, <1>17, <1>18 DEF Registered, FirstRun, PageIs, Sealing
<1> QED
  BY ONLY <1>19, <1>20, <1>21, <1>22, <1>23, <1>24, <1>25, <1>26

\* ResetFlushed: the operation ends, the application changes by Deactivate,
\* Replace, CancelPending, ShowError.
LEMMA ResetErrsSafe ==
  ASSUME RoutesInv, left' \in Lefts,
         Op("reset", {"flush"}) /\ Still(app, "op", "epoch") /\ Still(app, "op", "gen") /\ app.session /\ ~app.open,
         app' = Forget(ShowError(CancelPending(Replace(Deactivate(app), "blank"))), "op"),
         MovesTo("op", "none", "idle")
  PROVE  RoutesInv'
<1>1. app \in Apps /\ task \in Taskings
  BY DEF RoutesInv, RoutesType
<1> DEFINE b1 == Deactivate(app)
           b2 == Replace(b1, "blank")
           b3 == CancelPending(b2)
           b4 == ShowError(b3)
<1>2. app' = Forget(b4, "op")
  OBVIOUS
<1> HIDE DEF b1, b2, b3, b4
<1>3. /\ b1 \in Apps
      /\ Kept(b1, app, {"session", "security", "deferred", "chats"})
      /\ b1.session = FALSE /\ b1.security = FALSE /\ b1.deferred = FALSE /\ b1.chats = FALSE
  BY ONLY <1>1, DeactivateIs DEF b1
<1>4. \A t, x : Still(b1, t, x) <=> Still(app, t, x) /\ x \notin {"gen", "workspace"}
  BY ONLY <1>1, DeactivateIs DEF b1
<1>5. /\ b2 \in Apps
      /\ Kept(b2, b1, {"page"})
      /\ b2.page = (IF b1.closing THEN b1.page ELSE "blank")
  BY ONLY <1>3, ReplaceIs DEF b2, Views, Pages
<1>6. \A t, x : Still(b2, t, x) <=> Still(b1, t, x)
  BY ONLY <1>3, ReplaceIs DEF b2, Views, Pages
<1>7. /\ b3 \in Apps
      /\ Kept(b3, b2, {"pending"})
      /\ b3.pending = FALSE
  BY ONLY <1>5, CancelPendingIs DEF b3
<1>8. \A t, x : Still(b3, t, x) <=> Still(b2, t, x) /\ x # "auth"
  BY ONLY <1>5, CancelPendingIs DEF b3
<1>9. /\ b4 \in Apps
      /\ Kept(b4, b3, {"page", "session", "security", "deferred", "chats"})
      /\ b4.page = (IF b3.closing THEN b3.page ELSE "error") /\ b4.session = FALSE
      /\ b4.security = FALSE /\ b4.deferred = FALSE /\ b4.chats = FALSE
  BY ONLY <1>7, ShowErrorIs DEF b4
<1>10. \A t, x : Still(b4, t, x) <=> Still(b3, t, x) /\ x \notin {"gen", "workspace"}
  BY ONLY <1>7, ShowErrorIs DEF b4
<1>11. /\ app' \in Apps
      /\ Kept(app', b4, {})
  BY ONLY <1>2, <1>9, ForgetIs
<1>12. \A t, x : Still(app', t, x) <=> Still(b4, t, x) /\ t # "op"
  BY ONLY <1>2, <1>9, ForgetIs
<1>13. /\ Kept(app', app, {"page", "session", "security", "deferred", "chats", "pending"})
      /\ app'.page = (IF app.closing THEN (IF app.closing THEN app.page ELSE "blank") ELSE "error")
      /\ app'.session = FALSE /\ app'.security = FALSE /\ app'.deferred = FALSE
      /\ app'.chats = FALSE /\ app'.pending = FALSE
  BY ONLY <1>3, <1>5, <1>7, <1>9, <1>11 DEF Kept, Views, Apps
<1>14. \A t, x : Still(app', t, x) <=> Still(app, t, x) /\ x \notin {"gen", "workspace", "auth"} /\ t # "op"
  BY ONLY <1>4, <1>6, <1>8, <1>10, <1>12 DEF Views
<1>f. /\ Op("reset", {"flush"}) /\ Still(app, "op", "epoch") /\ Still(app, "op", "gen")
      /\ app.session = TRUE /\ ~app.open /\ left' \in Lefts /\ MovesTo("op", "none", "idle")
  BY <1>1, Zenon DEF Apps, Opened, ChatFree
<1> USE DEF RoutesInv, Kept, MovesTo, MovesBoth, In, Op, Rests, Shows, Offers, Resuming, Locking,
       Busy, Entering, Moving, NoRights, NoView, Onboarding, Views, Whats, Tasks, Holders, Pcs,
       Free, Opened, ChatFree, AuthCall
<1>15. RoutesType'
  BY ONLY RoutesInv, <1>f, <1>1, <1>11, <1>13, <1>14 DEF RoutesType
<1>16. InOrder'
  BY ONLY RoutesInv, <1>f, <1>1, <1>11, <1>13, <1>14 DEF InOrder
<1>17. OneView' /\ HeldViews'
  BY ONLY RoutesInv, <1>f, <1>1, <1>11, <1>13, <1>14 DEF OneView, HeldViews
<1>18. HeldAtWork'
  BY ONLY RoutesInv, <1>f, <1>1, <1>11, <1>13, <1>14 DEF HeldAtWork
<1>19. OldHoldNothing' /\ SessionFlags' /\ SessionViews' /\ Generations' /\ Handovers'
  BY ONLY RoutesInv, <1>f, <1>1, <1>11, <1>13, <1>14 DEF OldHoldNothing, SessionFlags,
        SessionViews, Generations, Handovers
<1>20. SessionShown' /\ Sealing' /\ Sealed' /\ OpHolds' /\ OpAuth'
  BY ONLY RoutesInv, <1>f, <1>1, <1>11, <1>13, <1>14 DEF SessionShown, Sealing, Sealed, OpHolds,
        OpAuth
<1>21. OpFront' /\ Rights' /\ OpenIs' /\ EntersOpen'
  BY ONLY RoutesInv, <1>f, <1>1, <1>11, <1>13, <1>14 DEF OpFront, Rights, OpenIs, EntersOpen
<1>22. Registered' /\ FirstRun' /\ PageIs'
  BY ONLY RoutesInv, <1>f, <1>1, <1>11, <1>13, <1>14 DEF Registered, FirstRun, PageIs, Rights,
        OneView, SessionViews, Handovers, Sealing
<1> QED
  BY ONLY <1>15, <1>16, <1>17, <1>18, <1>19, <1>20, <1>21, <1>22

\* OfferFlushed: the operation ends, the application changes by ChatsAway.
LEMMA OfferAwaySafe ==
  ASSUME RoutesInv, left' \in Lefts,
         task["op"].kind \in {"settings", "newpin", "cont"} /\ task["op"].pc = "flush" /\ Still(app, "op", "gen") /\ ~Still(app, "op", "epoch"),
         app' = Forget(ChatsAway(app), "op"),
         MovesTo("op", "none", "idle")
  PROVE  RoutesInv'
<1>1. app \in Apps /\ task \in Taskings
  BY DEF RoutesInv, RoutesType
<1> DEFINE b1 == ChatsAway(app)
<1>2. app' = Forget(b1, "op")
  OBVIOUS
<1> HIDE DEF b1
<1>3. /\ b1 \in Apps
      /\ Kept(b1, app, {"chats"})
      /\ b1.chats = FALSE
  BY ONLY <1>1, ChatsAwayIs DEF b1
<1>4. \A t, x : Still(b1, t, x) <=> Still(app, t, x)
  BY ONLY <1>1, ChatsAwayIs DEF b1
<1>5. /\ app' \in Apps
      /\ Kept(app', b1, {})
  BY ONLY <1>2, <1>3, ForgetIs
<1>6. \A t, x : Still(app', t, x) <=> Still(b1, t, x) /\ t # "op"
  BY ONLY <1>2, <1>3, ForgetIs
<1>7. /\ Kept(app', app, {"chats"})
      /\ app'.chats = FALSE
  BY ONLY <1>3, <1>5 DEF Kept, Views, Apps
<1>8. \A t, x : Still(app', t, x) <=> Still(app, t, x) /\ t # "op"
  BY ONLY <1>4, <1>6 DEF Views
<1> USE <1>1, <1>5, <1>7, <1>8 DEF RoutesInv, Kept, MovesTo, MovesBoth, In, Op, Rests, Shows, Offers, Resuming, Locking,
       Busy, Entering, Moving, NoRights, NoView, Onboarding, Views, Whats, Tasks, Holders, Pcs,
       Free, Opened, ChatFree, AuthCall
<1>9. RoutesType'
  BY DEF RoutesType
<1>10. InOrder'
  BY DEF InOrder
<1>11. OneView' /\ HeldViews'
  BY DEF OneView, HeldViews
<1>12. HeldAtWork'
  BY DEF HeldAtWork
<1>13. OldHoldNothing' /\ SessionFlags' /\ SessionViews' /\ Generations' /\ Handovers'
  BY DEF OldHoldNothing, SessionFlags, SessionViews, Generations, Handovers
<1>14. SessionShown' /\ Sealing' /\ Sealed' /\ OpHolds' /\ OpAuth'
  BY DEF SessionShown, Sealing, Sealed, OpHolds, OpAuth, Handovers
<1>15. OpFront' /\ Rights' /\ OpenIs' /\ EntersOpen'
  BY DEF OpFront, Rights, OpenIs, EntersOpen, Generations
<1>16. Registered' /\ FirstRun' /\ PageIs'
  BY DEF Registered, FirstRun, PageIs
<1> QED
  BY ONLY <1>9, <1>10, <1>11, <1>12, <1>13, <1>14, <1>15, <1>16

\* OfferFlushed: the operation ends, the application changes by ChatsAway,
\* ClearSecret, NewView, Replace.
LEMMA OfferShownSafe ==
  ASSUME RoutesInv, left' \in Lefts,
         task["op"].kind \in {"settings", "newpin", "cont"} /\ task["op"].pc = "flush" /\ Still(app, "op", "gen") /\ Still(app, "op", "epoch"),
         app' = Forget(Replace(NewView(ClearSecret(ChatsAway(app)), "codepin"), "codepin"), "op"),
         MovesTo("op", "none", "idle")
  PROVE  RoutesInv'
<1>1. app \in Apps /\ task \in Taskings
  BY DEF RoutesInv, RoutesType
<1> DEFINE b1 == ChatsAway(app)
           b2 == ClearSecret(b1)
           b3 == NewView(b2, "codepin")
           b4 == Replace(b3, "codepin")
<1>2. app' = Forget(b4, "op")
  OBVIOUS
<1> HIDE DEF b1, b2, b3, b4
<1>3. /\ b1 \in Apps
      /\ Kept(b1, app, {"chats"})
      /\ b1.chats = FALSE
  BY ONLY <1>1, ChatsAwayIs DEF b1
<1>4. \A t, x : Still(b1, t, x) <=> Still(app, t, x)
  BY ONLY <1>1, ChatsAwayIs DEF b1
<1>5. /\ b2 \in Apps
      /\ Kept(b2, b1, {"views", "token", "issue"})
      /\ b2.views = b1.views \ {"step", "entry", "codepin", "codeshow", "sysrec"}
      /\ b2.token = "none" /\ b2.issue = FALSE
  BY ONLY <1>3, ClearSecretIs DEF b2
<1>6. \A t, x : Still(b2, t, x) <=> Still(b1, t, x) /\ x \notin {"step", "entry", "codepin", "codeshow", "sysrec"}
  BY ONLY <1>3, ClearSecretIs DEF b2
<1>7. /\ b3 \in Apps
      /\ Kept(b3, b2, {"views"})
      /\ b3.views = b2.views \cup {"codepin"}
  BY ONLY <1>5, NewViewIs DEF b3, Views, Pages
<1>8. \A t, x : Still(b3, t, x) <=> Still(b2, t, x) /\ x # "codepin"
  BY ONLY <1>5, NewViewIs DEF b3, Views, Pages
<1>9. /\ b4 \in Apps
      /\ Kept(b4, b3, {"page"})
      /\ b4.page = (IF b3.closing THEN b3.page ELSE "codepin")
  BY ONLY <1>7, ReplaceIs DEF b4, Views, Pages
<1>10. \A t, x : Still(b4, t, x) <=> Still(b3, t, x)
  BY ONLY <1>7, ReplaceIs DEF b4, Views, Pages
<1>11. /\ app' \in Apps
      /\ Kept(app', b4, {})
  BY ONLY <1>2, <1>9, ForgetIs
<1>12. \A t, x : Still(app', t, x) <=> Still(b4, t, x) /\ t # "op"
  BY ONLY <1>2, <1>9, ForgetIs
<1>13. /\ Kept(app', app, {"page", "views", "token", "chats", "issue"})
      /\ app'.page = (IF app.closing THEN app.page ELSE "codepin")
      /\ app'.views = (app.views \ {"step", "entry", "codepin", "codeshow", "sysrec"}) \cup {"codepin"}
      /\ app'.token = "none" /\ app'.chats = FALSE /\ app'.issue = FALSE
  BY ONLY <1>3, <1>5, <1>7, <1>9, <1>11 DEF Kept, Views, Apps
<1>14. \A t, x : Still(app', t, x) <=> Still(app, t, x) /\ x \notin {"step", "entry", "codepin", "codeshow", "sysrec"} /\ t # "op"
  BY ONLY <1>4, <1>6, <1>8, <1>10, <1>12 DEF Views
<1> USE <1>1, <1>11, <1>13, <1>14 DEF RoutesInv, Kept, MovesTo, MovesBoth, In, Op, Rests, Shows, Offers, Resuming, Locking,
       Busy, Entering, Moving, NoRights, NoView, Onboarding, Views, Whats, Tasks, Holders, Pcs,
       Free, Opened, ChatFree, AuthCall
<1>v. app.views \subseteq {"step", "entry", "codepin", "codeshow", "sysrec"}
  BY DEF RoutesType, Apps, Generations, SessionViews
<1>15. RoutesType'
  BY DEF RoutesType
<1>16. InOrder'
  BY DEF InOrder
<1>17. OneView'
  <2>1. (\A v, x \in app.views : v = x)'
    BY <1>v DEF OneView, SessionViews, Generations
  <2>2. ("setup" \in app.views <=> app.token # "none")'
    BY <1>v DEF OneView, SessionViews, Generations
  <2> QED
    BY ONLY <2>1, <2>2 DEF OneView
<1>18. HeldViews'
  BY DEF HeldViews
<1>19. HeldAtWork'
  BY DEF HeldAtWork
<1>20. OldHoldNothing' /\ SessionFlags' /\ SessionViews' /\ Generations' /\ Handovers'
  BY DEF OldHoldNothing, SessionFlags, SessionViews, Generations, Handovers
<1>21. SessionShown' /\ Sealing' /\ Sealed' /\ OpHolds' /\ OpAuth'
  BY DEF SessionShown, Sealing, Sealed, OpHolds, OpAuth, Handovers
<1>22. OpFront' /\ Rights' /\ OpenIs' /\ EntersOpen'
  BY DEF OpFront, Rights, OpenIs, EntersOpen, OneView, SessionViews, Generations
<1>23. Registered'
  BY DEF Registered
<1>24. FirstRun'
  BY DEF FirstRun
<1>25. PageIs'
  BY DEF PageIs, Sealing
<1> QED
  BY ONLY <1>15, <1>16, <1>17, <1>18, <1>19, <1>20, <1>21, <1>22, <1>23, <1>24, <1>25

\* OfferFlushed: the operation ends, the application changes by Unsecures.
LEMMA OfferFailsSafe ==
  ASSUME RoutesInv, left' \in Lefts,
         task["op"].kind \in {"settings", "newpin", "cont"} /\ task["op"].pc = "flush" /\ Still(app, "op", "gen"),
         app' = Forget(Unsecures(app), "op"),
         MovesTo("op", "none", "idle")
  PROVE  RoutesInv'
<1>1. app \in Apps /\ task \in Taskings
  BY DEF RoutesInv, RoutesType
<1> DEFINE b1 == Unsecures(app)
<1>2. app' = Forget(b1, "op")
  OBVIOUS
<1> HIDE DEF b1
<1>3. /\ b1 \in Apps
      /\ Kept(b1, app, {"security"})
      /\ b1.security = FALSE
  BY ONLY <1>1, UnsecuresIs DEF b1
<1>4. \A t, x : Still(b1, t, x) <=> Still(app, t, x)
  BY ONLY <1>1, UnsecuresIs DEF b1
<1>5. /\ app' \in Apps
      /\ Kept(app', b1, {})
  BY ONLY <1>2, <1>3, ForgetIs
<1>6. \A t, x : Still(app', t, x) <=> Still(b1, t, x) /\ t # "op"
  BY ONLY <1>2, <1>3, ForgetIs
<1>7. /\ Kept(app', app, {"security"})
      /\ app'.security = FALSE
  BY ONLY <1>3, <1>5 DEF Kept, Views, Apps
<1>8. \A t, x : Still(app', t, x) <=> Still(app, t, x) /\ t # "op"
  BY ONLY <1>4, <1>6 DEF Views
<1> USE <1>1, <1>5, <1>7, <1>8 DEF RoutesInv, Kept, MovesTo, MovesBoth, In, Op, Rests, Shows, Offers, Resuming, Locking,
       Busy, Entering, Moving, NoRights, NoView, Onboarding, Views, Whats, Tasks, Holders, Pcs,
       Free, Opened, ChatFree, AuthCall
<1>9. RoutesType'
  BY DEF RoutesType
<1>10. InOrder'
  BY DEF InOrder
<1>11. OneView' /\ HeldViews'
  BY DEF OneView, HeldViews
<1>12. HeldAtWork'
  BY DEF HeldAtWork
<1>13. OldHoldNothing' /\ SessionFlags' /\ SessionViews' /\ Generations' /\ Handovers'
  BY DEF OldHoldNothing, SessionFlags, SessionViews, Generations, Handovers
<1>14. SessionShown' /\ Sealing' /\ Sealed' /\ OpHolds' /\ OpAuth'
  BY DEF SessionShown, Sealing, Sealed, OpHolds, OpAuth, SessionFlags, Handovers
<1>15. OpFront' /\ Rights' /\ OpenIs' /\ EntersOpen'
  BY DEF OpFront, Rights, OpenIs, EntersOpen, Generations
<1>16. Registered' /\ FirstRun' /\ PageIs'
  BY DEF Registered, FirstRun, PageIs
<1> QED
  BY ONLY <1>9, <1>10, <1>11, <1>12, <1>13, <1>14, <1>15, <1>16

\* OfferFlushed, WorkspaceShown: the side coroutine ends, the application
\* changes in its captures at most.
LEMMA SideEndsSafe ==
  ASSUME RoutesInv, left' \in Lefts,
         \/ task["side"].kind \in {"settings", "newpin", "cont"} /\ task["side"].pc = "flush" /\ ~Still(app, "side", "gen")
         \/ task["side"].pc = "show" /\ ~Still(app, "side", "gen"),
         app' = Forget(app, "side"),
         MovesTo("side", "none", "idle")
  PROVE  RoutesInv'
<1>1. app \in Apps /\ task \in Taskings
  BY DEF RoutesInv, RoutesType
<1>2. app' = Forget(app, "side")
  OBVIOUS
<1>3. /\ app' \in Apps
      /\ Kept(app', app, {})
  BY ONLY <1>2, <1>1, ForgetIs
<1>4. \A t, x : Still(app', t, x) <=> Still(app, t, x) /\ t # "side"
  BY ONLY <1>2, <1>1, ForgetIs
<1> USE <1>1, <1>3, <1>4 DEF RoutesInv, Kept, MovesTo, MovesBoth, In, Op, Rests, Shows, Offers, Resuming, Locking,
       Busy, Entering, Moving, NoRights, NoView, Onboarding, Views, Whats, Tasks, Holders, Pcs,
       Free, Opened, ChatFree, AuthCall
<1>5. RoutesType'
  BY DEF RoutesType
<1>6. InOrder'
  BY DEF InOrder
<1>7. OneView' /\ HeldViews'
  BY DEF OneView, HeldViews
<1>8. HeldAtWork'
  BY DEF HeldAtWork
<1>9. OldHoldNothing' /\ SessionFlags' /\ SessionViews' /\ Generations' /\ Handovers'
  BY DEF OldHoldNothing, SessionFlags, SessionViews, Generations, Handovers
<1>10. SessionShown' /\ Sealing' /\ Sealed' /\ OpHolds' /\ OpAuth'
  BY DEF SessionShown, Sealing, Sealed, OpHolds, OpAuth
<1>11. OpFront' /\ Rights' /\ OpenIs' /\ EntersOpen'
  BY DEF OpFront, Rights, OpenIs, EntersOpen
<1>12. Registered' /\ FirstRun' /\ PageIs'
  BY DEF Registered, FirstRun, PageIs
<1> QED
  BY ONLY <1>5, <1>6, <1>7, <1>8, <1>9, <1>10, <1>11, <1>12

\* OfferFlushed: the side coroutine ends, the application changes by
\* ChatsAway.
LEMMA OfferAwaySideSafe ==
  ASSUME RoutesInv, left' \in Lefts,
         task["side"].kind \in {"settings", "newpin", "cont"} /\ task["side"].pc = "flush" /\ Still(app, "side", "gen") /\ ~Still(app, "side", "epoch"),
         app' = Forget(ChatsAway(app), "side"),
         MovesTo("side", "none", "idle")
  PROVE  RoutesInv'
<1>1. app \in Apps /\ task \in Taskings
  BY DEF RoutesInv, RoutesType
<1> DEFINE b1 == ChatsAway(app)
<1>2. app' = Forget(b1, "side")
  OBVIOUS
<1> HIDE DEF b1
<1>3. /\ b1 \in Apps
      /\ Kept(b1, app, {"chats"})
      /\ b1.chats = FALSE
  BY ONLY <1>1, ChatsAwayIs DEF b1
<1>4. \A t, x : Still(b1, t, x) <=> Still(app, t, x)
  BY ONLY <1>1, ChatsAwayIs DEF b1
<1>5. /\ app' \in Apps
      /\ Kept(app', b1, {})
  BY ONLY <1>2, <1>3, ForgetIs
<1>6. \A t, x : Still(app', t, x) <=> Still(b1, t, x) /\ t # "side"
  BY ONLY <1>2, <1>3, ForgetIs
<1>7. /\ Kept(app', app, {"chats"})
      /\ app'.chats = FALSE
  BY ONLY <1>3, <1>5 DEF Kept, Views, Apps
<1>8. \A t, x : Still(app', t, x) <=> Still(app, t, x) /\ t # "side"
  BY ONLY <1>4, <1>6 DEF Views
<1> USE <1>1, <1>5, <1>7, <1>8 DEF RoutesInv, Kept, MovesTo, MovesBoth, In, Op, Rests, Shows, Offers, Resuming, Locking,
       Busy, Entering, Moving, NoRights, NoView, Onboarding, Views, Whats, Tasks, Holders, Pcs,
       Free, Opened, ChatFree, AuthCall
<1>9. RoutesType'
  BY DEF RoutesType
<1>10. InOrder'
  BY DEF InOrder
<1>11. OneView' /\ HeldViews'
  BY DEF OneView, HeldViews
<1>12. HeldAtWork'
  BY DEF HeldAtWork
<1>13. OldHoldNothing' /\ SessionFlags' /\ SessionViews' /\ Generations' /\ Handovers'
  BY DEF OldHoldNothing, SessionFlags, SessionViews, Generations, Handovers
<1>14. SessionShown' /\ Sealing' /\ Sealed' /\ OpHolds' /\ OpAuth'
  BY DEF SessionShown, Sealing, Sealed, OpHolds, OpAuth, Handovers
<1>15. OpFront' /\ Rights' /\ OpenIs' /\ EntersOpen'
  BY DEF OpFront, Rights, OpenIs, EntersOpen, Generations
<1>16. Registered' /\ FirstRun' /\ PageIs'
  BY DEF Registered, FirstRun, PageIs
<1> QED
  BY ONLY <1>9, <1>10, <1>11, <1>12, <1>13, <1>14, <1>15, <1>16

\* OfferFlushed: the side coroutine ends, the application changes by
\* ChatsAway, ClearSecret, NewView, Replace.
LEMMA OfferShownSideSafe ==
  ASSUME RoutesInv, left' \in Lefts,
         task["side"].kind \in {"settings", "newpin", "cont"} /\ task["side"].pc = "flush" /\ Still(app, "side", "gen") /\ Still(app, "side", "epoch"),
         app' = Forget(Replace(NewView(ClearSecret(ChatsAway(app)), "codepin"), "codepin"), "side"),
         MovesTo("side", "none", "idle")
  PROVE  RoutesInv'
<1>1. app \in Apps /\ task \in Taskings
  BY DEF RoutesInv, RoutesType
<1> DEFINE b1 == ChatsAway(app)
           b2 == ClearSecret(b1)
           b3 == NewView(b2, "codepin")
           b4 == Replace(b3, "codepin")
<1>2. app' = Forget(b4, "side")
  OBVIOUS
<1> HIDE DEF b1, b2, b3, b4
<1>3. /\ b1 \in Apps
      /\ Kept(b1, app, {"chats"})
      /\ b1.chats = FALSE
  BY ONLY <1>1, ChatsAwayIs DEF b1
<1>4. \A t, x : Still(b1, t, x) <=> Still(app, t, x)
  BY ONLY <1>1, ChatsAwayIs DEF b1
<1>5. /\ b2 \in Apps
      /\ Kept(b2, b1, {"views", "token", "issue"})
      /\ b2.views = b1.views \ {"step", "entry", "codepin", "codeshow", "sysrec"}
      /\ b2.token = "none" /\ b2.issue = FALSE
  BY ONLY <1>3, ClearSecretIs DEF b2
<1>6. \A t, x : Still(b2, t, x) <=> Still(b1, t, x) /\ x \notin {"step", "entry", "codepin", "codeshow", "sysrec"}
  BY ONLY <1>3, ClearSecretIs DEF b2
<1>7. /\ b3 \in Apps
      /\ Kept(b3, b2, {"views"})
      /\ b3.views = b2.views \cup {"codepin"}
  BY ONLY <1>5, NewViewIs DEF b3, Views, Pages
<1>8. \A t, x : Still(b3, t, x) <=> Still(b2, t, x) /\ x # "codepin"
  BY ONLY <1>5, NewViewIs DEF b3, Views, Pages
<1>9. /\ b4 \in Apps
      /\ Kept(b4, b3, {"page"})
      /\ b4.page = (IF b3.closing THEN b3.page ELSE "codepin")
  BY ONLY <1>7, ReplaceIs DEF b4, Views, Pages
<1>10. \A t, x : Still(b4, t, x) <=> Still(b3, t, x)
  BY ONLY <1>7, ReplaceIs DEF b4, Views, Pages
<1>11. /\ app' \in Apps
      /\ Kept(app', b4, {})
  BY ONLY <1>2, <1>9, ForgetIs
<1>12. \A t, x : Still(app', t, x) <=> Still(b4, t, x) /\ t # "side"
  BY ONLY <1>2, <1>9, ForgetIs
<1>13. /\ Kept(app', app, {"page", "views", "token", "chats", "issue"})
      /\ app'.page = (IF app.closing THEN app.page ELSE "codepin")
      /\ app'.views = (app.views \ {"step", "entry", "codepin", "codeshow", "sysrec"}) \cup {"codepin"}
      /\ app'.token = "none" /\ app'.chats = FALSE /\ app'.issue = FALSE
  BY ONLY <1>3, <1>5, <1>7, <1>9, <1>11 DEF Kept, Views, Apps
<1>14. \A t, x : Still(app', t, x) <=> Still(app, t, x) /\ x \notin {"step", "entry", "codepin", "codeshow", "sysrec"} /\ t # "side"
  BY ONLY <1>4, <1>6, <1>8, <1>10, <1>12 DEF Views
<1> USE <1>1, <1>11, <1>13, <1>14 DEF RoutesInv, Kept, MovesTo, MovesBoth, In, Op, Rests, Shows, Offers, Resuming, Locking,
       Busy, Entering, Moving, NoRights, NoView, Onboarding, Views, Whats, Tasks, Holders, Pcs,
       Free, Opened, ChatFree, AuthCall
<1>v. app.views \subseteq {"step", "entry", "codepin", "codeshow", "sysrec"}
  BY DEF RoutesType, Apps, Generations, SessionViews
<1>15. RoutesType'
  BY DEF RoutesType
<1>16. InOrder'
  BY DEF InOrder
<1>17. OneView'
  <2>1. (\A v, x \in app.views : v = x)'
    BY <1>v DEF OneView, SessionViews, Generations
  <2>2. ("setup" \in app.views <=> app.token # "none")'
    BY <1>v DEF OneView, SessionViews, Generations
  <2> QED
    BY ONLY <2>1, <2>2 DEF OneView
<1>18. HeldViews'
  BY DEF HeldViews
<1>19. HeldAtWork'
  BY DEF HeldAtWork
<1>20. OldHoldNothing' /\ SessionFlags' /\ SessionViews' /\ Generations' /\ Handovers'
  BY DEF OldHoldNothing, SessionFlags, SessionViews, Generations, Handovers
<1>21. SessionShown' /\ Sealing' /\ Sealed' /\ OpHolds' /\ OpAuth'
  BY DEF SessionShown, Sealing, Sealed, OpHolds, OpAuth, Handovers, SessionViews, SessionFlags,
        HeldViews, Generations
<1>22. OpFront' /\ Rights' /\ OpenIs' /\ EntersOpen'
  BY DEF OpFront, Rights, OpenIs, EntersOpen, OneView, Generations, SessionViews
<1>23. Registered'
  BY DEF Registered, Generations
<1>24. FirstRun'
  BY DEF FirstRun, SessionViews, Generations, HeldViews
<1>25. PageIs'
  BY DEF PageIs, Sealing
<1> QED
  BY ONLY <1>15, <1>16, <1>17, <1>18, <1>19, <1>20, <1>21, <1>22, <1>23, <1>24, <1>25

\* OfferFlushed: the side coroutine ends, the application changes by
\* Unsecures.
LEMMA OfferFailsSideSafe ==
  ASSUME RoutesInv, left' \in Lefts,
         task["side"].kind \in {"settings", "newpin", "cont"} /\ task["side"].pc = "flush" /\ Still(app, "side", "gen"),
         app' = Forget(Unsecures(app), "side"),
         MovesTo("side", "none", "idle")
  PROVE  RoutesInv'
<1>1. app \in Apps /\ task \in Taskings
  BY DEF RoutesInv, RoutesType
<1> DEFINE b1 == Unsecures(app)
<1>2. app' = Forget(b1, "side")
  OBVIOUS
<1> HIDE DEF b1
<1>3. /\ b1 \in Apps
      /\ Kept(b1, app, {"security"})
      /\ b1.security = FALSE
  BY ONLY <1>1, UnsecuresIs DEF b1
<1>4. \A t, x : Still(b1, t, x) <=> Still(app, t, x)
  BY ONLY <1>1, UnsecuresIs DEF b1
<1>5. /\ app' \in Apps
      /\ Kept(app', b1, {})
  BY ONLY <1>2, <1>3, ForgetIs
<1>6. \A t, x : Still(app', t, x) <=> Still(b1, t, x) /\ t # "side"
  BY ONLY <1>2, <1>3, ForgetIs
<1>7. /\ Kept(app', app, {"security"})
      /\ app'.security = FALSE
  BY ONLY <1>3, <1>5 DEF Kept, Views, Apps
<1>8. \A t, x : Still(app', t, x) <=> Still(app, t, x) /\ t # "side"
  BY ONLY <1>4, <1>6 DEF Views
<1> USE <1>1, <1>5, <1>7, <1>8 DEF RoutesInv, Kept, MovesTo, MovesBoth, In, Op, Rests, Shows, Offers, Resuming, Locking,
       Busy, Entering, Moving, NoRights, NoView, Onboarding, Views, Whats, Tasks, Holders, Pcs,
       Free, Opened, ChatFree, AuthCall
<1>9. RoutesType'
  BY DEF RoutesType
<1>10. InOrder'
  BY DEF InOrder
<1>11. OneView' /\ HeldViews'
  BY DEF OneView, HeldViews
<1>12. HeldAtWork'
  BY DEF HeldAtWork
<1>13. OldHoldNothing' /\ SessionFlags' /\ SessionViews' /\ Generations' /\ Handovers'
  BY DEF OldHoldNothing, SessionFlags, SessionViews, Generations, Handovers
<1>14. SessionShown' /\ Sealing' /\ Sealed' /\ OpHolds' /\ OpAuth'
  BY DEF SessionShown, Sealing, Sealed, OpHolds, OpAuth, SessionFlags, Handovers
<1>15. OpFront' /\ Rights' /\ OpenIs' /\ EntersOpen'
  BY DEF OpFront, Rights, OpenIs, EntersOpen, Generations
<1>16. Registered' /\ FirstRun' /\ PageIs'
  BY DEF Registered, FirstRun, PageIs
<1> QED
  BY ONLY <1>9, <1>10, <1>11, <1>12, <1>13, <1>14, <1>15, <1>16

\* WorkspaceShown: the operation ends, the application changes by Loosens,
\* ShowError.
LEMMA ChatsFailSafe ==
  ASSUME RoutesInv, left' \in Lefts,
         task["op"].pc = "show" /\ Still(app, "op", "gen"),
         app' = Forget(ShowError(Loosens(app)), "op"),
         MovesTo("op", "none", "idle")
  PROVE  RoutesInv'
<1>1. app \in Apps /\ task \in Taskings
  BY DEF RoutesInv, RoutesType
<1> DEFINE b1 == Loosens(app)
           b2 == ShowError(b1)
<1>2. app' = Forget(b2, "op")
  OBVIOUS
<1> HIDE DEF b1, b2
<1>3. /\ b1 \in Apps
      /\ Kept(b1, app, {"loose"})
      /\ b1.loose = app.open
  BY ONLY <1>1, LoosensIs DEF b1
<1>4. \A t, x : Still(b1, t, x) <=> Still(app, t, x)
  BY ONLY <1>1, LoosensIs DEF b1
<1>5. /\ b2 \in Apps
      /\ Kept(b2, b1, {"page", "session", "security", "deferred", "chats"})
      /\ b2.page = (IF b1.closing THEN b1.page ELSE "error") /\ b2.session = FALSE
      /\ b2.security = FALSE /\ b2.deferred = FALSE /\ b2.chats = FALSE
  BY ONLY <1>3, ShowErrorIs DEF b2
<1>6. \A t, x : Still(b2, t, x) <=> Still(b1, t, x) /\ x \notin {"gen", "workspace"}
  BY ONLY <1>3, ShowErrorIs DEF b2
<1>7. /\ app' \in Apps
      /\ Kept(app', b2, {})
  BY ONLY <1>2, <1>5, ForgetIs
<1>8. \A t, x : Still(app', t, x) <=> Still(b2, t, x) /\ t # "op"
  BY ONLY <1>2, <1>5, ForgetIs
<1>9. /\ Kept(app', app, {"page", "session", "security", "deferred", "chats", "loose"})
      /\ app'.page = (IF app.closing THEN app.page ELSE "error") /\ app'.session = FALSE
      /\ app'.security = FALSE /\ app'.deferred = FALSE /\ app'.chats = FALSE
      /\ app'.loose = app.open
  BY ONLY <1>3, <1>5, <1>7 DEF Kept, Views, Apps
<1>10. \A t, x : Still(app', t, x) <=> Still(app, t, x) /\ x \notin {"gen", "workspace"} /\ t # "op"
  BY ONLY <1>4, <1>6, <1>8 DEF Views
<1> USE <1>1, <1>7, <1>9, <1>10 DEF RoutesInv, Kept, MovesTo, MovesBoth, In, Op, Rests, Shows, Offers, Resuming, Locking,
       Busy, Entering, Moving, NoRights, NoView, Onboarding, Views, Whats, Tasks, Holders, Pcs,
       Free, Opened, ChatFree, AuthCall
<1>11. RoutesType'
  BY DEF RoutesType
<1>12. InOrder'
  BY DEF InOrder
<1>13. OneView' /\ HeldViews'
  BY DEF OneView, HeldViews
<1>14. HeldAtWork'
  BY DEF HeldAtWork
<1>15. OldHoldNothing' /\ SessionFlags' /\ SessionViews' /\ Generations' /\ Handovers'
  BY DEF OldHoldNothing, SessionFlags, SessionViews, Generations, Handovers
<1>16. SessionShown' /\ Sealing' /\ Sealed' /\ OpHolds' /\ OpAuth'
  BY DEF SessionShown, Sealing, Sealed, OpHolds, OpAuth
<1>17. OpFront' /\ Rights' /\ OpenIs' /\ EntersOpen'
  BY DEF OpFront, Rights, OpenIs, EntersOpen
<1>18. Registered' /\ FirstRun' /\ PageIs'
  BY DEF Registered, FirstRun, PageIs, Sealing, Handovers, Rights, Generations, SessionViews,
        OneView
<1> QED
  BY ONLY <1>11, <1>12, <1>13, <1>14, <1>15, <1>16, <1>17, <1>18

\* WorkspaceShown: the operation ends, the application changes by ChatsUp.
LEMMA ChatsShownSafe ==
  ASSUME RoutesInv, left' \in Lefts,
         task["op"].pc = "show" /\ Still(app, "op", "gen") /\ Still(app, "op", "workspace") /\ app.open,
         app' = Forget(ChatsUp(app), "op"),
         MovesTo("op", "none", "idle")
  PROVE  RoutesInv'
<1>1. app \in Apps /\ task \in Taskings
  BY DEF RoutesInv, RoutesType
<1> DEFINE b1 == ChatsUp(app)
<1>2. app' = Forget(b1, "op")
  OBVIOUS
<1> HIDE DEF b1
<1>3. /\ b1 \in Apps
      /\ Kept(b1, app, {"page", "chats"})
      /\ b1.page = "chats" /\ b1.chats = TRUE
  BY ONLY <1>1, ChatsUpIs DEF b1
<1>4. \A t, x : Still(b1, t, x) <=> Still(app, t, x)
  BY ONLY <1>1, ChatsUpIs DEF b1
<1>5. /\ app' \in Apps
      /\ Kept(app', b1, {})
  BY ONLY <1>2, <1>3, ForgetIs
<1>6. \A t, x : Still(app', t, x) <=> Still(b1, t, x) /\ t # "op"
  BY ONLY <1>2, <1>3, ForgetIs
<1>7. /\ Kept(app', app, {"page", "chats"})
      /\ app'.page = "chats" /\ app'.chats = TRUE
  BY ONLY <1>3, <1>5 DEF Kept, Views, Apps
<1>8. \A t, x : Still(app', t, x) <=> Still(app, t, x) /\ t # "op"
  BY ONLY <1>4, <1>6 DEF Views
<1>f. /\ task["op"].pc = "show" /\ Still(app, "op", "gen") /\ Still(app, "op", "workspace")
      /\ app.open = TRUE /\ left' \in Lefts /\ MovesTo("op", "none", "idle")
  BY <1>1, Zenon DEF Apps, Opened, ChatFree
<1> USE DEF RoutesInv, Kept, MovesTo, MovesBoth, In, Op, Rests, Shows, Offers, Resuming, Locking,
       Busy, Entering, Moving, NoRights, NoView, Onboarding, Views, Whats, Tasks, Holders, Pcs,
       Free, Opened, ChatFree, AuthCall
<1>9. RoutesType'
  BY ONLY RoutesInv, <1>f, <1>1, <1>5, <1>7, <1>8 DEF RoutesType
<1>10. InOrder'
  BY ONLY RoutesInv, <1>f, <1>1, <1>5, <1>7, <1>8 DEF InOrder
<1>11. OneView' /\ HeldViews'
  BY ONLY RoutesInv, <1>f, <1>1, <1>5, <1>7, <1>8 DEF OneView, HeldViews
<1>12. HeldAtWork'
  BY ONLY RoutesInv, <1>f, <1>1, <1>5, <1>7, <1>8 DEF HeldAtWork
<1>13. OldHoldNothing' /\ SessionFlags' /\ SessionViews' /\ Generations' /\ Handovers'
  BY ONLY RoutesInv, <1>f, <1>1, <1>5, <1>7, <1>8 DEF OldHoldNothing, SessionFlags,
        SessionViews, Generations, Handovers
<1>14. SessionShown' /\ Sealing' /\ Sealed' /\ OpHolds' /\ OpAuth'
  BY ONLY RoutesInv, <1>f, <1>1, <1>5, <1>7, <1>8 DEF SessionShown, Sealing, Sealed, OpHolds,
        OpAuth, Handovers, Generations
<1>15. OpFront' /\ Rights' /\ OpenIs' /\ EntersOpen'
  BY ONLY RoutesInv, <1>f, <1>1, <1>5, <1>7, <1>8 DEF OpFront, Rights, OpenIs, EntersOpen,
        Generations
<1>16. Registered' /\ FirstRun' /\ PageIs'
  BY ONLY RoutesInv, <1>f, <1>1, <1>5, <1>7, <1>8 DEF Registered, FirstRun, PageIs, Generations
<1> QED
  BY ONLY <1>9, <1>10, <1>11, <1>12, <1>13, <1>14, <1>15, <1>16

\* WorkspaceShown: the side coroutine ends, the application changes by
\* Loosens, ShowError.
LEMMA ChatsFailSideSafe ==
  ASSUME RoutesInv, left' \in Lefts,
         task["side"].pc = "show" /\ Still(app, "side", "gen"),
         app' = Forget(ShowError(Loosens(app)), "side"),
         MovesTo("side", "none", "idle")
  PROVE  RoutesInv'
<1>1. app \in Apps /\ task \in Taskings
  BY DEF RoutesInv, RoutesType
<1> DEFINE b1 == Loosens(app)
           b2 == ShowError(b1)
<1>2. app' = Forget(b2, "side")
  OBVIOUS
<1> HIDE DEF b1, b2
<1>3. /\ b1 \in Apps
      /\ Kept(b1, app, {"loose"})
      /\ b1.loose = app.open
  BY ONLY <1>1, LoosensIs DEF b1
<1>4. \A t, x : Still(b1, t, x) <=> Still(app, t, x)
  BY ONLY <1>1, LoosensIs DEF b1
<1>5. /\ b2 \in Apps
      /\ Kept(b2, b1, {"page", "session", "security", "deferred", "chats"})
      /\ b2.page = (IF b1.closing THEN b1.page ELSE "error") /\ b2.session = FALSE
      /\ b2.security = FALSE /\ b2.deferred = FALSE /\ b2.chats = FALSE
  BY ONLY <1>3, ShowErrorIs DEF b2
<1>6. \A t, x : Still(b2, t, x) <=> Still(b1, t, x) /\ x \notin {"gen", "workspace"}
  BY ONLY <1>3, ShowErrorIs DEF b2
<1>7. /\ app' \in Apps
      /\ Kept(app', b2, {})
  BY ONLY <1>2, <1>5, ForgetIs
<1>8. \A t, x : Still(app', t, x) <=> Still(b2, t, x) /\ t # "side"
  BY ONLY <1>2, <1>5, ForgetIs
<1>9. /\ Kept(app', app, {"page", "session", "security", "deferred", "chats", "loose"})
      /\ app'.page = (IF app.closing THEN app.page ELSE "error") /\ app'.session = FALSE
      /\ app'.security = FALSE /\ app'.deferred = FALSE /\ app'.chats = FALSE
      /\ app'.loose = app.open
  BY ONLY <1>3, <1>5, <1>7 DEF Kept, Views, Apps
<1>10. \A t, x : Still(app', t, x) <=> Still(app, t, x) /\ x \notin {"gen", "workspace"} /\ t # "side"
  BY ONLY <1>4, <1>6, <1>8 DEF Views
<1> USE <1>1, <1>7, <1>9, <1>10 DEF RoutesInv, Kept, MovesTo, MovesBoth, In, Op, Rests, Shows, Offers, Resuming, Locking,
       Busy, Entering, Moving, NoRights, NoView, Onboarding, Views, Whats, Tasks, Holders, Pcs,
       Free, Opened, ChatFree, AuthCall
<1>11. RoutesType'
  BY DEF RoutesType
<1>12. InOrder'
  BY DEF InOrder
<1>13. OneView' /\ HeldViews'
  BY DEF OneView, HeldViews
<1>14. HeldAtWork'
  BY DEF HeldAtWork
<1>15. OldHoldNothing' /\ SessionFlags' /\ SessionViews' /\ Generations' /\ Handovers'
  BY DEF OldHoldNothing, SessionFlags, SessionViews, Generations, Handovers
<1>16. SessionShown' /\ Sealing' /\ Sealed' /\ OpHolds' /\ OpAuth'
  BY DEF SessionShown, Sealing, Sealed, OpHolds, OpAuth, Handovers, Generations
<1>17. OpFront' /\ Rights' /\ OpenIs' /\ EntersOpen'
  BY DEF OpFront, Rights, OpenIs, EntersOpen
<1>18. Registered' /\ FirstRun' /\ PageIs'
  BY DEF Registered, FirstRun, PageIs, SessionViews, Rights, Handovers, OneView, Sealing,
        Generations
<1> QED
  BY ONLY <1>11, <1>12, <1>13, <1>14, <1>15, <1>16, <1>17, <1>18

\* WorkspaceShown: the side coroutine ends, the application changes by
\* ChatsUp.
LEMMA ChatsShownSideSafe ==
  ASSUME RoutesInv, left' \in Lefts,
         task["side"].pc = "show" /\ Still(app, "side", "gen") /\ Still(app, "side", "workspace") /\ app.open,
         app' = Forget(ChatsUp(app), "side"),
         MovesTo("side", "none", "idle")
  PROVE  RoutesInv'
<1>1. app \in Apps /\ task \in Taskings
  BY DEF RoutesInv, RoutesType
<1> DEFINE b1 == ChatsUp(app)
<1>2. app' = Forget(b1, "side")
  OBVIOUS
<1> HIDE DEF b1
<1>3. /\ b1 \in Apps
      /\ Kept(b1, app, {"page", "chats"})
      /\ b1.page = "chats" /\ b1.chats = TRUE
  BY ONLY <1>1, ChatsUpIs DEF b1
<1>4. \A t, x : Still(b1, t, x) <=> Still(app, t, x)
  BY ONLY <1>1, ChatsUpIs DEF b1
<1>5. /\ app' \in Apps
      /\ Kept(app', b1, {})
  BY ONLY <1>2, <1>3, ForgetIs
<1>6. \A t, x : Still(app', t, x) <=> Still(b1, t, x) /\ t # "side"
  BY ONLY <1>2, <1>3, ForgetIs
<1>7. /\ Kept(app', app, {"page", "chats"})
      /\ app'.page = "chats" /\ app'.chats = TRUE
  BY ONLY <1>3, <1>5 DEF Kept, Views, Apps
<1>8. \A t, x : Still(app', t, x) <=> Still(app, t, x) /\ t # "side"
  BY ONLY <1>4, <1>6 DEF Views
<1>f. /\ task["side"].pc = "show" /\ Still(app, "side", "gen")
      /\ Still(app, "side", "workspace") /\ app.open = TRUE /\ left' \in Lefts
      /\ MovesTo("side", "none", "idle")
  BY <1>1, Zenon DEF Apps, Opened, ChatFree
<1> USE DEF RoutesInv, Kept, MovesTo, MovesBoth, In, Op, Rests, Shows, Offers, Resuming, Locking,
       Busy, Entering, Moving, NoRights, NoView, Onboarding, Views, Whats, Tasks, Holders, Pcs,
       Free, Opened, ChatFree, AuthCall
<1>9. RoutesType'
  BY ONLY RoutesInv, <1>f, <1>1, <1>5, <1>7, <1>8 DEF RoutesType
<1>10. InOrder'
  BY ONLY RoutesInv, <1>f, <1>1, <1>5, <1>7, <1>8 DEF InOrder
<1>11. OneView' /\ HeldViews'
  BY ONLY RoutesInv, <1>f, <1>1, <1>5, <1>7, <1>8 DEF OneView, HeldViews
<1>12. HeldAtWork'
  BY ONLY RoutesInv, <1>f, <1>1, <1>5, <1>7, <1>8 DEF HeldAtWork
<1>13. OldHoldNothing' /\ SessionFlags' /\ SessionViews' /\ Generations' /\ Handovers'
  BY ONLY RoutesInv, <1>f, <1>1, <1>5, <1>7, <1>8 DEF OldHoldNothing, SessionFlags,
        SessionViews, Generations, Handovers
<1>14. SessionShown' /\ Sealing' /\ Sealed' /\ OpHolds' /\ OpAuth'
  BY ONLY RoutesInv, <1>f, <1>1, <1>5, <1>7, <1>8 DEF SessionShown, Sealing, Sealed, OpHolds,
        OpAuth, Handovers, Generations
<1>15. OpFront' /\ Rights' /\ OpenIs' /\ EntersOpen'
  BY ONLY RoutesInv, <1>f, <1>1, <1>5, <1>7, <1>8 DEF OpFront, Rights, OpenIs, EntersOpen,
        Generations
<1>16. Registered' /\ FirstRun' /\ PageIs'
  BY ONLY RoutesInv, <1>f, <1>1, <1>5, <1>7, <1>8 DEF Registered, FirstRun, PageIs, Generations
<1> QED
  BY ONLY <1>9, <1>10, <1>11, <1>12, <1>13, <1>14, <1>15, <1>16

\* WorkspaceShown: the operation goes on at "flush" of "newpin", the
\* application changes by ChatsUp, Secures, Moved.
LEMMA OfferNextSafe ==
  ASSUME RoutesInv, left' \in Lefts,
         task["op"].pc = "show" /\ Still(app, "op", "gen") /\ Still(app, "op", "workspace") /\ app.open /\ app.linux /\ ~app.closing /\ ~app.suspending /\ ~app.background /\ task["op"].kind = "newpin",
         app' = Capture(Moved(Secures(ChatsUp(app)), "workspace"), "op", {"epoch", "gen"}),
         MovesTo("op", "newpin", "flush")
  PROVE  RoutesInv'
<1>1. app \in Apps /\ task \in Taskings
  BY DEF RoutesInv, RoutesType
<1> DEFINE b1 == ChatsUp(app)
           b2 == Secures(b1)
           b3 == Moved(b2, "workspace")
<1>2. app' = Capture(b3, "op", {"epoch", "gen"})
  OBVIOUS
<1> HIDE DEF b1, b2, b3
<1>3. /\ b1 \in Apps
      /\ Kept(b1, app, {"page", "chats"})
      /\ b1.page = "chats" /\ b1.chats = TRUE
  BY ONLY <1>1, ChatsUpIs DEF b1
<1>4. \A t, x : Still(b1, t, x) <=> Still(app, t, x)
  BY ONLY <1>1, ChatsUpIs DEF b1
<1>5. /\ b2 \in Apps
      /\ Kept(b2, b1, {"security"})
      /\ b2.security = TRUE
  BY ONLY <1>3, SecuresIs DEF b2
<1>6. \A t, x : Still(b2, t, x) <=> Still(b1, t, x)
  BY ONLY <1>3, SecuresIs DEF b2
<1>7. /\ b3 \in Apps
      /\ Kept(b3, b2, {})
  BY ONLY <1>5, MovedIs DEF b3
<1>8. \A t, x : Still(b3, t, x) <=> Still(b2, t, x) /\ x # "workspace"
  BY ONLY <1>5, MovedIs DEF b3
<1>9. "op" \in Holders /\ {"epoch", "gen"} \in SUBSET Whats
  BY DEF Holders, Tasks, Whats, Views
<1>10. /\ app' \in Apps
      /\ Kept(app', b3, {})
  BY ONLY <1>2, <1>7, <1>9, CaptureIs
<1>11. \A t, x : Still(app', t, x) <=> (Still(b3, t, x)) \/ (t = "op" /\ x \in {"epoch", "gen"})
  BY ONLY <1>2, <1>7, <1>9, CaptureIs
<1>12. /\ Kept(app', app, {"page", "security", "chats"})
      /\ app'.page = "chats" /\ app'.security = TRUE /\ app'.chats = TRUE
  BY ONLY <1>3, <1>5, <1>7, <1>10 DEF Kept, Views, Apps
<1>13. \A t, x : Still(app', t, x) <=> (Still(app, t, x) /\ x # "workspace") \/ (t = "op" /\ x \in {"epoch", "gen"})
  BY ONLY <1>4, <1>6, <1>8, <1>11 DEF Views
<1>f. /\ task["op"].pc = "show" /\ Still(app, "op", "gen") /\ Still(app, "op", "workspace")
      /\ app.open = TRUE /\ app.linux = TRUE /\ ~app.closing /\ ~app.suspending
      /\ ~app.background /\ task["op"].kind = "newpin" /\ left' \in Lefts
      /\ MovesTo("op", "newpin", "flush")
  BY <1>1, Zenon DEF Apps, Opened, ChatFree
<1> USE DEF RoutesInv, Kept, MovesTo, MovesBoth, In, Op, Rests, Shows, Offers, Resuming, Locking,
       Busy, Entering, Moving, NoRights, NoView, Onboarding, Views, Whats, Tasks, Holders, Pcs,
       Free, Opened, ChatFree, AuthCall
<1>14. RoutesType'
  BY ONLY RoutesInv, <1>f, <1>1, <1>10, <1>12, <1>13 DEF RoutesType
<1>15. InOrder'
  BY ONLY RoutesInv, <1>f, <1>1, <1>10, <1>12, <1>13 DEF InOrder
<1>16. OneView' /\ HeldViews'
  BY ONLY RoutesInv, <1>f, <1>1, <1>10, <1>12, <1>13 DEF OneView, HeldViews
<1>17. HeldAtWork'
  BY ONLY RoutesInv, <1>f, <1>1, <1>10, <1>12, <1>13 DEF HeldAtWork
<1>18. OldHoldNothing' /\ SessionFlags' /\ SessionViews' /\ Generations' /\ Handovers'
  BY ONLY RoutesInv, <1>f, <1>1, <1>10, <1>12, <1>13 DEF OldHoldNothing, SessionFlags,
        SessionViews, Generations, Handovers
<1>19. SessionShown' /\ Sealing' /\ Sealed' /\ OpHolds' /\ OpAuth'
  BY ONLY RoutesInv, <1>f, <1>1, <1>10, <1>12, <1>13 DEF SessionShown, Sealing, Sealed, OpHolds,
        OpAuth
<1>20. OpFront' /\ Rights' /\ OpenIs' /\ EntersOpen'
  BY ONLY RoutesInv, <1>f, <1>1, <1>10, <1>12, <1>13 DEF OpFront, Rights, OpenIs, EntersOpen,
        Generations
<1>21. Registered' /\ FirstRun' /\ PageIs'
  BY ONLY RoutesInv, <1>f, <1>1, <1>10, <1>12, <1>13 DEF Registered, FirstRun, PageIs,
        Generations
<1> QED
  BY ONLY <1>14, <1>15, <1>16, <1>17, <1>18, <1>19, <1>20, <1>21

\* WorkspaceShown: the operation ends and the side coroutine goes on at
\* "flush", the application changes by ChatsUp, Secures, Moved.
LEMMA OfferNextSideSafe ==
  ASSUME RoutesInv, left' \in Lefts,
         task["op"].pc = "show" /\ Still(app, "op", "gen") /\ Still(app, "op", "workspace") /\ app.open /\ app.linux /\ ~app.closing /\ ~app.suspending /\ ~app.background /\ task["op"].kind = "cont",
         app' = Capture(Moved(Secures(Forget(ChatsUp(app), "op")), "workspace"), "side", {"epoch", "gen"}),
         MovesBoth("op", "none", "idle", "side", "cont", "flush")
  PROVE  RoutesInv'
<1>1. app \in Apps /\ task \in Taskings
  BY DEF RoutesInv, RoutesType
<1> DEFINE b1 == ChatsUp(app)
           b2 == Forget(b1, "op")
           b3 == Secures(b2)
           b4 == Moved(b3, "workspace")
<1>2. app' = Capture(b4, "side", {"epoch", "gen"})
  OBVIOUS
<1> HIDE DEF b1, b2, b3, b4
<1>3. /\ b1 \in Apps
      /\ Kept(b1, app, {"page", "chats"})
      /\ b1.page = "chats" /\ b1.chats = TRUE
  BY ONLY <1>1, ChatsUpIs DEF b1
<1>4. \A t, x : Still(b1, t, x) <=> Still(app, t, x)
  BY ONLY <1>1, ChatsUpIs DEF b1
<1>5. /\ b2 \in Apps
      /\ Kept(b2, b1, {})
  BY ONLY <1>3, ForgetIs DEF b2
<1>6. \A t, x : Still(b2, t, x) <=> Still(b1, t, x) /\ t # "op"
  BY ONLY <1>3, ForgetIs DEF b2
<1>7. /\ b3 \in Apps
      /\ Kept(b3, b2, {"security"})
      /\ b3.security = TRUE
  BY ONLY <1>5, SecuresIs DEF b3
<1>8. \A t, x : Still(b3, t, x) <=> Still(b2, t, x)
  BY ONLY <1>5, SecuresIs DEF b3
<1>9. /\ b4 \in Apps
      /\ Kept(b4, b3, {})
  BY ONLY <1>7, MovedIs DEF b4
<1>10. \A t, x : Still(b4, t, x) <=> Still(b3, t, x) /\ x # "workspace"
  BY ONLY <1>7, MovedIs DEF b4
<1>11. "side" \in Holders /\ {"epoch", "gen"} \in SUBSET Whats
  BY DEF Holders, Tasks, Whats, Views
<1>12. /\ app' \in Apps
      /\ Kept(app', b4, {})
  BY ONLY <1>2, <1>9, <1>11, CaptureIs
<1>13. \A t, x : Still(app', t, x) <=> (Still(b4, t, x)) \/ (t = "side" /\ x \in {"epoch", "gen"})
  BY ONLY <1>2, <1>9, <1>11, CaptureIs
<1>14. /\ Kept(app', app, {"page", "security", "chats"})
      /\ app'.page = "chats" /\ app'.security = TRUE /\ app'.chats = TRUE
  BY ONLY <1>3, <1>5, <1>7, <1>9, <1>12 DEF Kept, Views, Apps
<1>15. \A t, x : Still(app', t, x) <=> (Still(app, t, x) /\ x # "workspace" /\ t # "op") \/ (t = "side" /\ x \in {"epoch", "gen"})
  BY ONLY <1>4, <1>6, <1>8, <1>10, <1>13 DEF Views
<1>f. /\ task["op"].pc = "show" /\ Still(app, "op", "gen") /\ Still(app, "op", "workspace")
      /\ app.open = TRUE /\ app.linux = TRUE /\ ~app.closing /\ ~app.suspending
      /\ ~app.background /\ task["op"].kind = "cont" /\ left' \in Lefts
      /\ MovesBoth("op", "none", "idle", "side", "cont", "flush")
  BY <1>1, Zenon DEF Apps, Opened, ChatFree
<1> USE DEF RoutesInv, Kept, MovesTo, MovesBoth, In, Op, Rests, Shows, Offers, Resuming, Locking,
       Busy, Entering, Moving, NoRights, NoView, Onboarding, Views, Whats, Tasks, Holders, Pcs,
       Free, Opened, ChatFree, AuthCall
<1>16. RoutesType'
  BY ONLY RoutesInv, <1>f, <1>1, <1>12, <1>14, <1>15 DEF RoutesType
<1>17. InOrder'
  BY ONLY RoutesInv, <1>f, <1>1, <1>12, <1>14, <1>15 DEF InOrder
<1>18. OneView' /\ HeldViews'
  BY ONLY RoutesInv, <1>f, <1>1, <1>12, <1>14, <1>15 DEF OneView, HeldViews
<1>19. HeldAtWork'
  BY ONLY RoutesInv, <1>f, <1>1, <1>12, <1>14, <1>15 DEF HeldAtWork
<1>20. OldHoldNothing' /\ SessionFlags' /\ SessionViews' /\ Generations' /\ Handovers'
  BY ONLY RoutesInv, <1>f, <1>1, <1>12, <1>14, <1>15 DEF OldHoldNothing, SessionFlags,
        SessionViews, Generations, Handovers
<1>21. SessionShown' /\ Sealing' /\ Sealed' /\ OpHolds' /\ OpAuth'
  BY ONLY RoutesInv, <1>f, <1>1, <1>12, <1>14, <1>15 DEF SessionShown, Sealing, Sealed, OpHolds,
        OpAuth
<1>22. OpFront' /\ Rights' /\ OpenIs' /\ EntersOpen'
  BY ONLY RoutesInv, <1>f, <1>1, <1>12, <1>14, <1>15 DEF OpFront, Rights, OpenIs, EntersOpen,
        Generations
<1>23. Registered' /\ FirstRun' /\ PageIs'
  BY ONLY RoutesInv, <1>f, <1>1, <1>12, <1>14, <1>15 DEF Registered, FirstRun, PageIs,
        Generations
<1> QED
  BY ONLY <1>16, <1>17, <1>18, <1>19, <1>20, <1>21, <1>22, <1>23

\* ManualLock: the manual lock goes on at "ask", the application changes by
\* Shut, Deactivate, LockAccess.
LEMMA LocksSafe ==
  ASSUME RoutesInv, left' \in Lefts,
         app.session /\ app.chats /\ Rests("lock"),
         app' = Capture(LockAccess(Forget(Deactivate(Shut(app)), "lock")), "lock", {"epoch", "gen"}),
         MovesTo("lock", "lock", "ask")
  PROVE  RoutesInv'
<1>1. app \in Apps /\ task \in Taskings
  BY DEF RoutesInv, RoutesType
<1> DEFINE b1 == Shut(app)
           b2 == Deactivate(b1)
           b3 == Forget(b2, "lock")
           b4 == LockAccess(b3)
<1>2. app' = Capture(b4, "lock", {"epoch", "gen"})
  OBVIOUS
<1> HIDE DEF b1, b2, b3, b4
<1>3. /\ b1 \in Apps
      /\ Kept(b1, app, {"open"})
      /\ b1.open = FALSE
  BY ONLY <1>1, ShutIs DEF b1
<1>4. \A t, x : Still(b1, t, x) <=> Still(app, t, x)
  BY ONLY <1>1, ShutIs DEF b1
<1>5. /\ b2 \in Apps
      /\ Kept(b2, b1, {"session", "security", "deferred", "chats"})
      /\ b2.session = FALSE /\ b2.security = FALSE /\ b2.deferred = FALSE /\ b2.chats = FALSE
  BY ONLY <1>3, DeactivateIs DEF b2
<1>6. \A t, x : Still(b2, t, x) <=> Still(b1, t, x) /\ x \notin {"gen", "workspace"}
  BY ONLY <1>3, DeactivateIs DEF b2
<1>7. /\ b3 \in Apps
      /\ Kept(b3, b2, {})
  BY ONLY <1>5, ForgetIs DEF b3
<1>8. \A t, x : Still(b3, t, x) <=> Still(b2, t, x) /\ t # "lock"
  BY ONLY <1>5, ForgetIs DEF b3
<1>9. /\ b4 \in Apps
      /\ Kept(b4, b3, {"open", "loose", "pending", "replacing", "grant", "issue"})
      /\ b4.open = FALSE /\ b4.loose = FALSE /\ b4.pending = FALSE /\ b4.replacing = FALSE
      /\ b4.grant = FALSE /\ b4.issue = FALSE
  BY ONLY <1>7, LockAccessIs DEF b4
<1>10. \A t, x : Still(b4, t, x) <=> Still(b3, t, x) /\ x # "auth"
  BY ONLY <1>7, LockAccessIs DEF b4
<1>11. "lock" \in Holders /\ {"epoch", "gen"} \in SUBSET Whats
  BY DEF Holders, Tasks, Whats, Views
<1>12. /\ app' \in Apps
      /\ Kept(app', b4, {})
  BY ONLY <1>2, <1>9, <1>11, CaptureIs
<1>13. \A t, x : Still(app', t, x) <=> (Still(b4, t, x)) \/ (t = "lock" /\ x \in {"epoch", "gen"})
  BY ONLY <1>2, <1>9, <1>11, CaptureIs
<1>14. /\ Kept(app', app, {"session", "security", "deferred", "chats", "open", "loose", "pending", "replacing", "grant", "issue"})
      /\ app'.session = FALSE /\ app'.security = FALSE /\ app'.deferred = FALSE
      /\ app'.chats = FALSE /\ app'.open = FALSE /\ app'.loose = FALSE
      /\ app'.pending = FALSE /\ app'.replacing = FALSE /\ app'.grant = FALSE
      /\ app'.issue = FALSE
  BY ONLY <1>3, <1>5, <1>7, <1>9, <1>12 DEF Kept, Views, Apps
<1>15. \A t, x : Still(app', t, x) <=> (Still(app, t, x) /\ x \notin {"gen", "workspace", "auth"} /\ t # "lock") \/ (t = "lock" /\ x \in {"epoch", "gen"})
  BY ONLY <1>4, <1>6, <1>8, <1>10, <1>13 DEF Views
<1>f. /\ app.session = TRUE /\ app.chats = TRUE /\ Rests("lock") /\ left' \in Lefts
      /\ MovesTo("lock", "lock", "ask")
  BY <1>1, Zenon DEF Apps, Opened, ChatFree
<1> USE DEF RoutesInv, Kept, MovesTo, MovesBoth, In, Op, Rests, Shows, Offers, Resuming, Locking,
       Busy, Entering, Moving, NoRights, NoView, Onboarding, Views, Whats, Tasks, Holders, Pcs,
       Free, Opened, ChatFree, AuthCall
<1>16. RoutesType'
  BY ONLY RoutesInv, <1>f, <1>1, <1>12, <1>14, <1>15 DEF RoutesType
<1>17. InOrder'
  BY ONLY RoutesInv, <1>f, <1>1, <1>12, <1>14, <1>15 DEF InOrder
<1>18. OneView' /\ HeldViews'
  BY ONLY RoutesInv, <1>f, <1>1, <1>12, <1>14, <1>15 DEF OneView, HeldViews
<1>19. HeldAtWork'
  BY ONLY RoutesInv, <1>f, <1>1, <1>12, <1>14, <1>15 DEF HeldAtWork
<1>20. OldHoldNothing' /\ SessionFlags' /\ SessionViews' /\ Generations' /\ Handovers'
  BY ONLY RoutesInv, <1>f, <1>1, <1>12, <1>14, <1>15 DEF OldHoldNothing, SessionFlags,
        SessionViews, Generations, Handovers
<1>21. SessionShown' /\ Sealing' /\ Sealed' /\ OpHolds' /\ OpAuth'
  BY ONLY RoutesInv, <1>f, <1>1, <1>12, <1>14, <1>15 DEF SessionShown, Sealing, Sealed, OpHolds,
        OpAuth, SessionFlags
<1>22. OpFront' /\ Rights' /\ OpenIs' /\ EntersOpen'
  BY ONLY RoutesInv, <1>f, <1>1, <1>12, <1>14, <1>15 DEF OpFront, Rights, OpenIs, EntersOpen,
        HeldViews, SessionViews
<1>23. Registered' /\ FirstRun' /\ PageIs'
  BY ONLY RoutesInv, <1>f, <1>1, <1>12, <1>14, <1>15 DEF Registered, FirstRun, PageIs, OpHolds,
        Handovers, SessionFlags
<1> QED
  BY ONLY <1>16, <1>17, <1>18, <1>19, <1>20, <1>21, <1>22, <1>23

\* LockAsked: the manual lock ends, the application changes in its captures at
\* most.
LEMMA LockStaleAgainSafe ==
  ASSUME RoutesInv, left' \in Lefts,
         Busy /\ ~AuthCall /\ (app.closing \/ ~Still(app, "lock", "epoch") \/ ~Still(app, "lock", "gen")) /\ task["lock"].pc = "ask_again",
         app' = Forget(app, "lock"),
         MovesTo("lock", "none", "idle")
  PROVE  RoutesInv'
<1>1. app \in Apps /\ task \in Taskings
  BY DEF RoutesInv, RoutesType
<1>2. app' = Forget(app, "lock")
  OBVIOUS
<1>3. /\ app' \in Apps
      /\ Kept(app', app, {})
  BY ONLY <1>2, <1>1, ForgetIs
<1>4. \A t, x : Still(app', t, x) <=> Still(app, t, x) /\ t # "lock"
  BY ONLY <1>2, <1>1, ForgetIs
<1> USE <1>1, <1>3, <1>4 DEF RoutesInv, Kept, MovesTo, MovesBoth, In, Op, Rests, Shows, Offers, Resuming, Locking,
       Busy, Entering, Moving, NoRights, NoView, Onboarding, Views, Whats, Tasks, Holders, Pcs,
       Free, Opened, ChatFree, AuthCall
<1>5. RoutesType'
  BY DEF RoutesType
<1>6. InOrder'
  BY DEF InOrder
<1>7. OneView' /\ HeldViews'
  BY DEF OneView, HeldViews
<1>8. HeldAtWork'
  BY DEF HeldAtWork
<1>9. OldHoldNothing' /\ SessionFlags' /\ SessionViews' /\ Generations' /\ Handovers'
  BY DEF OldHoldNothing, SessionFlags, SessionViews, Generations, Handovers
<1>10. SessionShown' /\ Sealing' /\ Sealed' /\ OpHolds' /\ OpAuth'
  BY DEF SessionShown, Sealing, Sealed, OpHolds, OpAuth
<1>11. OpFront' /\ Rights' /\ OpenIs' /\ EntersOpen'
  BY DEF OpFront, Rights, OpenIs, EntersOpen
<1>12. Registered' /\ FirstRun' /\ PageIs'
  BY DEF Registered, FirstRun, PageIs, Sealing
<1> QED
  BY ONLY <1>5, <1>6, <1>7, <1>8, <1>9, <1>10, <1>11, <1>12

\* LockAsked: the manual lock goes on at "flush", the application changes in
\* its captures at most.
LEMMA LockStaleSafe ==
  ASSUME RoutesInv, left' \in Lefts,
         Busy /\ ~AuthCall /\ (app.closing \/ ~Still(app, "lock", "epoch") \/ ~Still(app, "lock", "gen")) /\ task["lock"].pc = "ask",
         app' = Capture(Forget(app, "lock"), "lock", {"gen"}),
         MovesTo("lock", "lock", "flush")
  PROVE  RoutesInv'
<1>1. app \in Apps /\ task \in Taskings
  BY DEF RoutesInv, RoutesType
<1> DEFINE b1 == Forget(app, "lock")
<1>2. app' = Capture(b1, "lock", {"gen"})
  OBVIOUS
<1> HIDE DEF b1
<1>3. /\ b1 \in Apps
      /\ Kept(b1, app, {})
  BY ONLY <1>1, ForgetIs DEF b1
<1>4. \A t, x : Still(b1, t, x) <=> Still(app, t, x) /\ t # "lock"
  BY ONLY <1>1, ForgetIs DEF b1
<1>5. "lock" \in Holders /\ {"gen"} \in SUBSET Whats
  BY DEF Holders, Tasks, Whats, Views
<1>6. /\ app' \in Apps
      /\ Kept(app', b1, {})
  BY ONLY <1>2, <1>3, <1>5, CaptureIs
<1>7. \A t, x : Still(app', t, x) <=> (Still(b1, t, x)) \/ (t = "lock" /\ x \in {"gen"})
  BY ONLY <1>2, <1>3, <1>5, CaptureIs
<1>8. Kept(app', app, {})
  BY ONLY <1>3, <1>6 DEF Kept, Views, Apps
<1>9. \A t, x : Still(app', t, x) <=> (Still(app, t, x) /\ t # "lock") \/ (t = "lock" /\ x \in {"gen"})
  BY ONLY <1>4, <1>7 DEF Views
<1> USE <1>1, <1>6, <1>8, <1>9 DEF RoutesInv, Kept, MovesTo, MovesBoth, In, Op, Rests, Shows, Offers, Resuming, Locking,
       Busy, Entering, Moving, NoRights, NoView, Onboarding, Views, Whats, Tasks, Holders, Pcs,
       Free, Opened, ChatFree, AuthCall
<1>10. RoutesType'
  BY DEF RoutesType
<1>11. InOrder'
  BY DEF InOrder
<1>12. OneView' /\ HeldViews'
  BY DEF OneView, HeldViews
<1>13. HeldAtWork'
  BY DEF HeldAtWork
<1>14. OldHoldNothing' /\ SessionFlags' /\ SessionViews' /\ Generations' /\ Handovers'
  BY DEF OldHoldNothing, SessionFlags, SessionViews, Generations, Handovers
<1>15. SessionShown' /\ Sealing' /\ Sealed' /\ OpHolds' /\ OpAuth'
  BY DEF SessionShown, Sealing, Sealed, OpHolds, OpAuth
<1>16. OpFront' /\ Rights' /\ OpenIs' /\ EntersOpen'
  BY DEF OpFront, Rights, OpenIs, EntersOpen
<1>17. Registered' /\ FirstRun' /\ PageIs'
  BY DEF Registered, FirstRun, PageIs, Sealing
<1> QED
  BY ONLY <1>10, <1>11, <1>12, <1>13, <1>14, <1>15, <1>16, <1>17

\* LockAsked: the manual lock ends, the application changes by ShowPin.
LEMMA LockPinAgainSafe ==
  ASSUME RoutesInv, left' \in Lefts,
         Busy /\ ~AuthCall /\ ~app.closing /\ Still(app, "lock", "epoch") /\ Still(app, "lock", "gen") /\ task["lock"].pc = "ask_again",
         app' = Forget(ShowPin(app), "lock"),
         MovesTo("lock", "none", "idle")
  PROVE  RoutesInv'
<1>1. app \in Apps /\ task \in Taskings
  BY DEF RoutesInv, RoutesType
<1> DEFINE b1 == ShowPin(app)
<1>2. app' = Forget(b1, "lock")
  OBVIOUS
<1> HIDE DEF b1
<1>3. /\ b1 \in Apps
      /\ Kept(b1, app, {"page", "views", "token", "dialog", "session", "security", "deferred", "chats", "relocked", "issue"})
      /\ b1.page = (IF app.closing THEN app.page ELSE "pin") /\ b1.views = {"pin"}
      /\ b1.token = "none" /\ b1.dialog = FALSE /\ b1.session = FALSE /\ b1.security = FALSE
      /\ b1.deferred = FALSE /\ b1.chats = FALSE /\ b1.relocked = FALSE /\ b1.issue = FALSE
  BY ONLY <1>1, ShowPinIs DEF b1
<1>4. \A t, x : Still(b1, t, x) <=> Still(app, t, x) /\ x \notin Views \cup {"gen", "workspace"}
  BY ONLY <1>1, ShowPinIs DEF b1
<1>5. /\ app' \in Apps
      /\ Kept(app', b1, {})
  BY ONLY <1>2, <1>3, ForgetIs
<1>6. \A t, x : Still(app', t, x) <=> Still(b1, t, x) /\ t # "lock"
  BY ONLY <1>2, <1>3, ForgetIs
<1>7. /\ Kept(app', app, {"page", "views", "token", "dialog", "session", "security", "deferred", "chats", "relocked", "issue"})
      /\ app'.page = (IF app.closing THEN app.page ELSE "pin") /\ app'.views = {"pin"}
      /\ app'.token = "none" /\ app'.dialog = FALSE /\ app'.session = FALSE
      /\ app'.security = FALSE /\ app'.deferred = FALSE /\ app'.chats = FALSE
      /\ app'.relocked = FALSE /\ app'.issue = FALSE
  BY ONLY <1>3, <1>5 DEF Kept, Views, Apps
<1>8. \A t, x : Still(app', t, x) <=> Still(app, t, x) /\ x \notin Views \cup {"gen", "workspace"} /\ t # "lock"
  BY ONLY <1>4, <1>6 DEF Views
<1> USE <1>1, <1>5, <1>7, <1>8 DEF RoutesInv, Kept, MovesTo, MovesBoth, In, Op, Rests, Shows, Offers, Resuming, Locking,
       Busy, Entering, Moving, NoRights, NoView, Onboarding, Views, Whats, Tasks, Holders, Pcs,
       Free, Opened, ChatFree, AuthCall
<1>9. RoutesType'
  BY DEF RoutesType
<1>10. InOrder'
  BY DEF InOrder
<1>11. OneView' /\ HeldViews'
  BY DEF OneView, HeldViews
<1>12. HeldAtWork'
  BY DEF HeldAtWork
<1>13. OldHoldNothing' /\ SessionFlags' /\ SessionViews' /\ Generations' /\ Handovers'
  BY DEF OldHoldNothing, SessionFlags, SessionViews, Generations, Handovers
<1>14. SessionShown' /\ Sealing' /\ Sealed' /\ OpHolds' /\ OpAuth'
  BY DEF SessionShown, Sealing, Sealed, OpHolds, OpAuth, Generations, InOrder
<1>15. OpFront' /\ Rights' /\ OpenIs' /\ EntersOpen'
  BY DEF OpFront, Rights, OpenIs, EntersOpen, Generations
<1>16. Registered' /\ FirstRun' /\ PageIs'
  BY DEF Registered, FirstRun, PageIs
<1> QED
  BY ONLY <1>9, <1>10, <1>11, <1>12, <1>13, <1>14, <1>15, <1>16

\* LockAsked: the manual lock goes on at "flush", the application changes by
\* ShowPin.
LEMMA LockPinSafe ==
  ASSUME RoutesInv, left' \in Lefts,
         Busy /\ ~AuthCall /\ ~app.closing /\ Still(app, "lock", "epoch") /\ Still(app, "lock", "gen") /\ task["lock"].pc = "ask",
         app' = Capture(Forget(ShowPin(app), "lock"), "lock", {"gen"}),
         MovesTo("lock", "lock", "flush")
  PROVE  RoutesInv'
<1>1. app \in Apps /\ task \in Taskings
  BY DEF RoutesInv, RoutesType
<1> DEFINE b1 == ShowPin(app)
           b2 == Forget(b1, "lock")
<1>2. app' = Capture(b2, "lock", {"gen"})
  OBVIOUS
<1> HIDE DEF b1, b2
<1>3. /\ b1 \in Apps
      /\ Kept(b1, app, {"page", "views", "token", "dialog", "session", "security", "deferred", "chats", "relocked", "issue"})
      /\ b1.page = (IF app.closing THEN app.page ELSE "pin") /\ b1.views = {"pin"}
      /\ b1.token = "none" /\ b1.dialog = FALSE /\ b1.session = FALSE /\ b1.security = FALSE
      /\ b1.deferred = FALSE /\ b1.chats = FALSE /\ b1.relocked = FALSE /\ b1.issue = FALSE
  BY ONLY <1>1, ShowPinIs DEF b1
<1>4. \A t, x : Still(b1, t, x) <=> Still(app, t, x) /\ x \notin Views \cup {"gen", "workspace"}
  BY ONLY <1>1, ShowPinIs DEF b1
<1>5. /\ b2 \in Apps
      /\ Kept(b2, b1, {})
  BY ONLY <1>3, ForgetIs DEF b2
<1>6. \A t, x : Still(b2, t, x) <=> Still(b1, t, x) /\ t # "lock"
  BY ONLY <1>3, ForgetIs DEF b2
<1>7. "lock" \in Holders /\ {"gen"} \in SUBSET Whats
  BY DEF Holders, Tasks, Whats, Views
<1>8. /\ app' \in Apps
      /\ Kept(app', b2, {})
  BY ONLY <1>2, <1>5, <1>7, CaptureIs
<1>9. \A t, x : Still(app', t, x) <=> (Still(b2, t, x)) \/ (t = "lock" /\ x \in {"gen"})
  BY ONLY <1>2, <1>5, <1>7, CaptureIs
<1>10. /\ Kept(app', app, {"page", "views", "token", "dialog", "session", "security", "deferred", "chats", "relocked", "issue"})
      /\ app'.page = (IF app.closing THEN app.page ELSE "pin") /\ app'.views = {"pin"}
      /\ app'.token = "none" /\ app'.dialog = FALSE /\ app'.session = FALSE
      /\ app'.security = FALSE /\ app'.deferred = FALSE /\ app'.chats = FALSE
      /\ app'.relocked = FALSE /\ app'.issue = FALSE
  BY ONLY <1>3, <1>5, <1>8 DEF Kept, Views, Apps
<1>11. \A t, x : Still(app', t, x) <=> (Still(app, t, x) /\ x \notin Views \cup {"gen", "workspace"} /\ t # "lock") \/ (t = "lock" /\ x \in {"gen"})
  BY ONLY <1>4, <1>6, <1>9 DEF Views
<1> USE <1>1, <1>8, <1>10, <1>11 DEF RoutesInv, Kept, MovesTo, MovesBoth, In, Op, Rests, Shows, Offers, Resuming, Locking,
       Busy, Entering, Moving, NoRights, NoView, Onboarding, Views, Whats, Tasks, Holders, Pcs,
       Free, Opened, ChatFree, AuthCall
<1>12. RoutesType'
  BY DEF RoutesType
<1>13. InOrder'
  BY DEF InOrder
<1>14. OneView' /\ HeldViews'
  BY DEF OneView, HeldViews
<1>15. HeldAtWork'
  BY DEF HeldAtWork
<1>16. OldHoldNothing' /\ SessionFlags' /\ SessionViews' /\ Generations' /\ Handovers'
  BY DEF OldHoldNothing, SessionFlags, SessionViews, Generations, Handovers
<1>17. SessionShown' /\ Sealing' /\ Sealed' /\ OpHolds' /\ OpAuth'
  BY DEF SessionShown, Sealing, Sealed, OpHolds, OpAuth, InOrder, Generations
<1>18. OpFront' /\ Rights' /\ OpenIs' /\ EntersOpen'
  BY DEF OpFront, Rights, OpenIs, EntersOpen, Generations
<1>19. Registered' /\ FirstRun' /\ PageIs'
  BY DEF Registered, FirstRun, PageIs
<1> QED
  BY ONLY <1>12, <1>13, <1>14, <1>15, <1>16, <1>17, <1>18, <1>19

\* LockAsked: the manual lock ends, the application changes by ShowError.
LEMMA LockErrsAgainSafe ==
  ASSUME RoutesInv, left' \in Lefts,
         Busy /\ ~AuthCall /\ ~app.closing /\ Still(app, "lock", "epoch") /\ Still(app, "lock", "gen") /\ task["lock"].pc = "ask_again",
         app' = Forget(ShowError(app), "lock"),
         MovesTo("lock", "none", "idle")
  PROVE  RoutesInv'
<1>1. app \in Apps /\ task \in Taskings
  BY DEF RoutesInv, RoutesType
<1> DEFINE b1 == ShowError(app)
<1>2. app' = Forget(b1, "lock")
  OBVIOUS
<1> HIDE DEF b1
<1>3. /\ b1 \in Apps
      /\ Kept(b1, app, {"page", "session", "security", "deferred", "chats"})
      /\ b1.page = (IF app.closing THEN app.page ELSE "error") /\ b1.session = FALSE
      /\ b1.security = FALSE /\ b1.deferred = FALSE /\ b1.chats = FALSE
  BY ONLY <1>1, ShowErrorIs DEF b1
<1>4. \A t, x : Still(b1, t, x) <=> Still(app, t, x) /\ x \notin {"gen", "workspace"}
  BY ONLY <1>1, ShowErrorIs DEF b1
<1>5. /\ app' \in Apps
      /\ Kept(app', b1, {})
  BY ONLY <1>2, <1>3, ForgetIs
<1>6. \A t, x : Still(app', t, x) <=> Still(b1, t, x) /\ t # "lock"
  BY ONLY <1>2, <1>3, ForgetIs
<1>7. /\ Kept(app', app, {"page", "session", "security", "deferred", "chats"})
      /\ app'.page = (IF app.closing THEN app.page ELSE "error") /\ app'.session = FALSE
      /\ app'.security = FALSE /\ app'.deferred = FALSE /\ app'.chats = FALSE
  BY ONLY <1>3, <1>5 DEF Kept, Views, Apps
<1>8. \A t, x : Still(app', t, x) <=> Still(app, t, x) /\ x \notin {"gen", "workspace"} /\ t # "lock"
  BY ONLY <1>4, <1>6 DEF Views
<1> USE <1>1, <1>5, <1>7, <1>8 DEF RoutesInv, Kept, MovesTo, MovesBoth, In, Op, Rests, Shows, Offers, Resuming, Locking,
       Busy, Entering, Moving, NoRights, NoView, Onboarding, Views, Whats, Tasks, Holders, Pcs,
       Free, Opened, ChatFree, AuthCall
<1>9. RoutesType'
  BY DEF RoutesType
<1>10. InOrder'
  BY DEF InOrder
<1>11. OneView' /\ HeldViews'
  BY DEF OneView, HeldViews
<1>12. HeldAtWork'
  BY DEF HeldAtWork
<1>13. OldHoldNothing' /\ SessionFlags' /\ SessionViews' /\ Generations' /\ Handovers'
  BY DEF OldHoldNothing, SessionFlags, SessionViews, Generations, Handovers
<1>14. SessionShown' /\ Sealing' /\ Sealed' /\ OpHolds' /\ OpAuth'
  BY DEF SessionShown, Sealing, Sealed, OpHolds, OpAuth, Generations
<1>15. OpFront' /\ Rights' /\ OpenIs' /\ EntersOpen'
  BY DEF OpFront, Rights, OpenIs, EntersOpen, Generations
<1>16. Registered' /\ FirstRun' /\ PageIs'
  BY DEF Registered, FirstRun, PageIs, SessionViews, Generations, Rights
<1> QED
  BY ONLY <1>9, <1>10, <1>11, <1>12, <1>13, <1>14, <1>15, <1>16

\* LockAsked: the manual lock goes on at "flush", the application changes by
\* ShowError.
LEMMA LockErrsSafe ==
  ASSUME RoutesInv, left' \in Lefts,
         Busy /\ ~AuthCall /\ ~app.closing /\ Still(app, "lock", "epoch") /\ Still(app, "lock", "gen") /\ task["lock"].pc = "ask",
         app' = Capture(Forget(ShowError(app), "lock"), "lock", {"gen"}),
         MovesTo("lock", "lock", "flush")
  PROVE  RoutesInv'
<1>1. app \in Apps /\ task \in Taskings
  BY DEF RoutesInv, RoutesType
<1> DEFINE b1 == ShowError(app)
           b2 == Forget(b1, "lock")
<1>2. app' = Capture(b2, "lock", {"gen"})
  OBVIOUS
<1> HIDE DEF b1, b2
<1>3. /\ b1 \in Apps
      /\ Kept(b1, app, {"page", "session", "security", "deferred", "chats"})
      /\ b1.page = (IF app.closing THEN app.page ELSE "error") /\ b1.session = FALSE
      /\ b1.security = FALSE /\ b1.deferred = FALSE /\ b1.chats = FALSE
  BY ONLY <1>1, ShowErrorIs DEF b1
<1>4. \A t, x : Still(b1, t, x) <=> Still(app, t, x) /\ x \notin {"gen", "workspace"}
  BY ONLY <1>1, ShowErrorIs DEF b1
<1>5. /\ b2 \in Apps
      /\ Kept(b2, b1, {})
  BY ONLY <1>3, ForgetIs DEF b2
<1>6. \A t, x : Still(b2, t, x) <=> Still(b1, t, x) /\ t # "lock"
  BY ONLY <1>3, ForgetIs DEF b2
<1>7. "lock" \in Holders /\ {"gen"} \in SUBSET Whats
  BY DEF Holders, Tasks, Whats, Views
<1>8. /\ app' \in Apps
      /\ Kept(app', b2, {})
  BY ONLY <1>2, <1>5, <1>7, CaptureIs
<1>9. \A t, x : Still(app', t, x) <=> (Still(b2, t, x)) \/ (t = "lock" /\ x \in {"gen"})
  BY ONLY <1>2, <1>5, <1>7, CaptureIs
<1>10. /\ Kept(app', app, {"page", "session", "security", "deferred", "chats"})
      /\ app'.page = (IF app.closing THEN app.page ELSE "error") /\ app'.session = FALSE
      /\ app'.security = FALSE /\ app'.deferred = FALSE /\ app'.chats = FALSE
  BY ONLY <1>3, <1>5, <1>8 DEF Kept, Views, Apps
<1>11. \A t, x : Still(app', t, x) <=> (Still(app, t, x) /\ x \notin {"gen", "workspace"} /\ t # "lock") \/ (t = "lock" /\ x \in {"gen"})
  BY ONLY <1>4, <1>6, <1>9 DEF Views
<1> USE <1>1, <1>8, <1>10, <1>11 DEF RoutesInv, Kept, MovesTo, MovesBoth, In, Op, Rests, Shows, Offers, Resuming, Locking,
       Busy, Entering, Moving, NoRights, NoView, Onboarding, Views, Whats, Tasks, Holders, Pcs,
       Free, Opened, ChatFree, AuthCall
<1>12. RoutesType'
  BY DEF RoutesType
<1>13. InOrder'
  BY DEF InOrder
<1>14. OneView' /\ HeldViews'
  BY DEF OneView, HeldViews
<1>15. HeldAtWork'
  BY DEF HeldAtWork
<1>16. OldHoldNothing' /\ SessionFlags' /\ SessionViews' /\ Generations' /\ Handovers'
  BY DEF OldHoldNothing, SessionFlags, SessionViews, Generations, Handovers
<1>17. SessionShown' /\ Sealing' /\ Sealed' /\ OpHolds' /\ OpAuth'
  BY DEF SessionShown, Sealing, Sealed, OpHolds, OpAuth, Generations
<1>18. OpFront' /\ Rights' /\ OpenIs' /\ EntersOpen'
  BY DEF OpFront, Rights, OpenIs, EntersOpen, Generations
<1>19. Registered' /\ FirstRun' /\ PageIs'
  BY DEF Registered, FirstRun, PageIs, SessionViews, Generations, Rights
<1> QED
  BY ONLY <1>12, <1>13, <1>14, <1>15, <1>16, <1>17, <1>18, <1>19

\* LockFlushed: the manual lock ends, the application changes in its captures
\* at most.
LEMMA LockEndsSafe ==
  ASSUME RoutesInv, left' \in Lefts,
         task["lock"].pc = "flush",
         app' = Forget(app, "lock"),
         MovesTo("lock", "none", "idle")
  PROVE  RoutesInv'
<1>1. app \in Apps /\ task \in Taskings
  BY DEF RoutesInv, RoutesType
<1>2. app' = Forget(app, "lock")
  OBVIOUS
<1>3. /\ app' \in Apps
      /\ Kept(app', app, {})
  BY ONLY <1>2, <1>1, ForgetIs
<1>4. \A t, x : Still(app', t, x) <=> Still(app, t, x) /\ t # "lock"
  BY ONLY <1>2, <1>1, ForgetIs
<1> USE <1>1, <1>3, <1>4 DEF RoutesInv, Kept, MovesTo, MovesBoth, In, Op, Rests, Shows, Offers, Resuming, Locking,
       Busy, Entering, Moving, NoRights, NoView, Onboarding, Views, Whats, Tasks, Holders, Pcs,
       Free, Opened, ChatFree, AuthCall
<1>5. RoutesType'
  BY DEF RoutesType
<1>6. InOrder'
  BY DEF InOrder
<1>7. OneView' /\ HeldViews'
  BY DEF OneView, HeldViews
<1>8. HeldAtWork'
  BY DEF HeldAtWork
<1>9. OldHoldNothing' /\ SessionFlags' /\ SessionViews' /\ Generations' /\ Handovers'
  BY DEF OldHoldNothing, SessionFlags, SessionViews, Generations, Handovers
<1>10. SessionShown' /\ Sealing' /\ Sealed' /\ OpHolds' /\ OpAuth'
  BY DEF SessionShown, Sealing, Sealed, OpHolds, OpAuth
<1>11. OpFront' /\ Rights' /\ OpenIs' /\ EntersOpen'
  BY DEF OpFront, Rights, OpenIs, EntersOpen
<1>12. Registered' /\ FirstRun' /\ PageIs'
  BY DEF Registered, FirstRun, PageIs
<1> QED
  BY ONLY <1>5, <1>6, <1>7, <1>8, <1>9, <1>10, <1>11, <1>12

\* LockFlushed: the manual lock goes on at "ask_again", the application
\* changes by Relocks, LockAccess.
LEMMA LocksAgainSafe ==
  ASSUME RoutesInv, left' \in Lefts,
         task["lock"].pc = "flush" /\ Still(app, "lock", "gen") /\ ~app.session,
         app' = Capture(LockAccess(Forget(Relocks(app), "lock")), "lock", {"epoch", "gen"}),
         MovesTo("lock", "lock", "ask_again")
  PROVE  RoutesInv'
<1>1. app \in Apps /\ task \in Taskings
  BY DEF RoutesInv, RoutesType
<1> DEFINE b1 == Relocks(app)
           b2 == Forget(b1, "lock")
           b3 == LockAccess(b2)
<1>2. app' = Capture(b3, "lock", {"epoch", "gen"})
  OBVIOUS
<1> HIDE DEF b1, b2, b3
<1>3. /\ b1 \in Apps
      /\ Kept(b1, app, {"relocked"})
      /\ b1.relocked = (task["op"].kind = "login")
  BY ONLY <1>1, RelocksIs DEF b1
<1>4. \A t, x : Still(b1, t, x) <=> Still(app, t, x)
  BY ONLY <1>1, RelocksIs DEF b1
<1>5. /\ b2 \in Apps
      /\ Kept(b2, b1, {})
  BY ONLY <1>3, ForgetIs DEF b2
<1>6. \A t, x : Still(b2, t, x) <=> Still(b1, t, x) /\ t # "lock"
  BY ONLY <1>3, ForgetIs DEF b2
<1>7. /\ b3 \in Apps
      /\ Kept(b3, b2, {"open", "loose", "pending", "replacing", "grant", "issue"})
      /\ b3.open = FALSE /\ b3.loose = FALSE /\ b3.pending = FALSE /\ b3.replacing = FALSE
      /\ b3.grant = FALSE /\ b3.issue = FALSE
  BY ONLY <1>5, LockAccessIs DEF b3
<1>8. \A t, x : Still(b3, t, x) <=> Still(b2, t, x) /\ x # "auth"
  BY ONLY <1>5, LockAccessIs DEF b3
<1>9. "lock" \in Holders /\ {"epoch", "gen"} \in SUBSET Whats
  BY DEF Holders, Tasks, Whats, Views
<1>10. /\ app' \in Apps
      /\ Kept(app', b3, {})
  BY ONLY <1>2, <1>7, <1>9, CaptureIs
<1>11. \A t, x : Still(app', t, x) <=> (Still(b3, t, x)) \/ (t = "lock" /\ x \in {"epoch", "gen"})
  BY ONLY <1>2, <1>7, <1>9, CaptureIs
<1>12. /\ Kept(app', app, {"open", "loose", "relocked", "pending", "replacing", "grant", "issue"})
      /\ app'.open = FALSE /\ app'.loose = FALSE
      /\ app'.relocked = (task["op"].kind = "login") /\ app'.pending = FALSE
      /\ app'.replacing = FALSE /\ app'.grant = FALSE /\ app'.issue = FALSE
  BY ONLY <1>3, <1>5, <1>7, <1>10 DEF Kept, Views, Apps
<1>13. \A t, x : Still(app', t, x) <=> (Still(app, t, x) /\ x # "auth" /\ t # "lock") \/ (t = "lock" /\ x \in {"epoch", "gen"})
  BY ONLY <1>4, <1>6, <1>8, <1>11 DEF Views
<1> USE <1>1, <1>10, <1>12, <1>13 DEF RoutesInv, Kept, MovesTo, MovesBoth, In, Op, Rests, Shows, Offers, Resuming, Locking,
       Busy, Entering, Moving, NoRights, NoView, Onboarding, Views, Whats, Tasks, Holders, Pcs,
       Free, Opened, ChatFree, AuthCall
<1>v. task["op"].kind = "login" => app'.relocked = TRUE
  OBVIOUS
<1>w. ~Still(app', "op", "auth")
  OBVIOUS
<1>x. Entering' => Op("login", Pcs)'
  BY <1>w DEF Taskings
<1>y. Op("login", Pcs)' => task["op"].kind = "login"
  OBVIOUS
<1>14. RoutesType'
  BY DEF RoutesType
<1>15. InOrder'
  BY DEF InOrder
<1>16. OneView' /\ HeldViews'
  BY DEF OneView, HeldViews
<1>17. HeldAtWork'
  BY DEF HeldAtWork
<1>18. OldHoldNothing' /\ SessionFlags' /\ SessionViews' /\ Generations' /\ Handovers'
  BY DEF OldHoldNothing, SessionFlags, SessionViews, Generations, Handovers
<1>19. SessionShown' /\ Sealing' /\ Sealed' /\ OpHolds' /\ OpAuth'
  BY DEF SessionShown, Sealing, Sealed, OpHolds, OpAuth
<1>20. OpFront'
  BY DEF OpFront
<1>21. Rights'
  BY DEF Rights
<1>22. OpenIs'
  BY DEF OpenIs
<1>23. EntersOpen'
  BY <1>v, <1>x, <1>y DEF EntersOpen
<1>24. Registered' /\ FirstRun' /\ PageIs'
  BY DEF Registered, FirstRun, PageIs
<1> QED
  BY ONLY <1>14, <1>15, <1>16, <1>17, <1>18, <1>19, <1>20, <1>21, <1>22, <1>23, <1>24

\* SystemLock: the seal goes on at "cancel", the application changes by
\* BeginSeal.
LEMMA SealsSafe ==
  ASSUME RoutesInv, left' \in Lefts,
         ~app.closing /\ ~app.suspending,
         app' = Capture(Forget(BeginSeal(app), "dialog"), "seal", {"epoch"}),
         MovesTo("seal", "seal", "cancel")
  PROVE  RoutesInv'
<1>1. app \in Apps /\ task \in Taskings
  BY DEF RoutesInv, RoutesType
<1> DEFINE b1 == BeginSeal(app)
           b2 == Forget(b1, "dialog")
<1>2. app' = Capture(b2, "seal", {"epoch"})
  OBVIOUS
<1> HIDE DEF b1, b2
<1>3. /\ b1 \in Apps
      /\ Kept(b1, app, {"suspending", "page", "views", "token", "dialog", "session", "security", "deferred", "chats", "open", "loose", "pending", "replacing", "grant", "issue"})
      /\ b1.suspending = TRUE /\ b1.page = "blank" /\ b1.views = {} /\ b1.token = "none"
      /\ b1.dialog = FALSE /\ b1.session = FALSE /\ b1.security = FALSE
      /\ b1.deferred = FALSE /\ b1.chats = FALSE /\ b1.open = FALSE /\ b1.loose = FALSE
      /\ b1.pending = FALSE /\ b1.replacing = FALSE /\ b1.grant = FALSE /\ b1.issue = FALSE
  BY ONLY <1>1, BeginSealIs DEF b1
<1>4. \A t, x : Still(b1, t, x) <=> Still(app, t, x) /\ x \notin Views \cup {"auth", "gen", "workspace", "epoch", "seal"}
  BY ONLY <1>1, BeginSealIs DEF b1
<1>5. /\ b2 \in Apps
      /\ Kept(b2, b1, {})
  BY ONLY <1>3, ForgetIs DEF b2
<1>6. \A t, x : Still(b2, t, x) <=> Still(b1, t, x) /\ t # "dialog"
  BY ONLY <1>3, ForgetIs DEF b2
<1>7. "seal" \in Holders /\ {"epoch"} \in SUBSET Whats
  BY DEF Holders, Tasks, Whats, Views
<1>8. /\ app' \in Apps
      /\ Kept(app', b2, {})
  BY ONLY <1>2, <1>5, <1>7, CaptureIs
<1>9. \A t, x : Still(app', t, x) <=> (Still(b2, t, x)) \/ (t = "seal" /\ x \in {"epoch"})
  BY ONLY <1>2, <1>5, <1>7, CaptureIs
<1>10. /\ Kept(app', app, {"suspending", "page", "views", "token", "dialog", "session", "security", "deferred", "chats", "open", "loose", "pending", "replacing", "grant", "issue"})
      /\ app'.suspending = TRUE /\ app'.page = "blank" /\ app'.views = {}
      /\ app'.token = "none" /\ app'.dialog = FALSE /\ app'.session = FALSE
      /\ app'.security = FALSE /\ app'.deferred = FALSE /\ app'.chats = FALSE
      /\ app'.open = FALSE /\ app'.loose = FALSE /\ app'.pending = FALSE
      /\ app'.replacing = FALSE /\ app'.grant = FALSE /\ app'.issue = FALSE
  BY ONLY <1>3, <1>5, <1>8 DEF Kept, Views, Apps
<1>11. \A t, x : Still(app', t, x) <=> (Still(app, t, x) /\ x \notin Views \cup {"auth", "gen", "workspace", "epoch", "seal"} /\ t # "dialog") \/ (t = "seal" /\ x \in {"epoch"})
  BY ONLY <1>4, <1>6, <1>9 DEF Views
<1> USE <1>1, <1>8, <1>10, <1>11 DEF RoutesInv, Kept, MovesTo, MovesBoth, In, Op, Rests, Shows, Offers, Resuming, Locking,
       Busy, Entering, Moving, NoRights, NoView, Onboarding, Views, Whats, Tasks, Holders, Pcs,
       Free, Opened, ChatFree, AuthCall
<1>12. RoutesType'
  BY DEF RoutesType
<1>13. InOrder'
  BY DEF InOrder
<1>14. OneView' /\ HeldViews'
  BY DEF OneView, HeldViews
<1>15. HeldAtWork'
  BY DEF HeldAtWork
<1>16. OldHoldNothing' /\ SessionFlags' /\ SessionViews' /\ Generations' /\ Handovers'
  BY DEF OldHoldNothing, SessionFlags, SessionViews, Generations, Handovers
<1>17. SessionShown' /\ Sealing' /\ Sealed' /\ OpHolds' /\ OpAuth'
  BY DEF SessionShown, Sealing, Sealed, OpHolds, OpAuth
<1>18. OpFront' /\ Rights' /\ OpenIs' /\ EntersOpen'
  BY DEF OpFront, Rights, OpenIs, EntersOpen
<1>19. Registered' /\ FirstRun' /\ PageIs'
  BY DEF Registered, FirstRun, PageIs
<1> QED
  BY ONLY <1>12, <1>13, <1>14, <1>15, <1>16, <1>17, <1>18, <1>19

\* SystemLock: the seal goes on at "flush", the application changes by
\* BeginSeal.
LEMMA SealsFlushesSafe ==
  ASSUME RoutesInv, left' \in Lefts,
         ~app.closing /\ ~app.suspending,
         app' = Capture(Forget(BeginSeal(app), "dialog"), "seal", {"epoch"}),
         MovesTo("seal", "seal", "flush")
  PROVE  RoutesInv'
<1>1. app \in Apps /\ task \in Taskings
  BY DEF RoutesInv, RoutesType
<1> DEFINE b1 == BeginSeal(app)
           b2 == Forget(b1, "dialog")
<1>2. app' = Capture(b2, "seal", {"epoch"})
  OBVIOUS
<1> HIDE DEF b1, b2
<1>3. /\ b1 \in Apps
      /\ Kept(b1, app, {"suspending", "page", "views", "token", "dialog", "session", "security", "deferred", "chats", "open", "loose", "pending", "replacing", "grant", "issue"})
      /\ b1.suspending = TRUE /\ b1.page = "blank" /\ b1.views = {} /\ b1.token = "none"
      /\ b1.dialog = FALSE /\ b1.session = FALSE /\ b1.security = FALSE
      /\ b1.deferred = FALSE /\ b1.chats = FALSE /\ b1.open = FALSE /\ b1.loose = FALSE
      /\ b1.pending = FALSE /\ b1.replacing = FALSE /\ b1.grant = FALSE /\ b1.issue = FALSE
  BY ONLY <1>1, BeginSealIs DEF b1
<1>4. \A t, x : Still(b1, t, x) <=> Still(app, t, x) /\ x \notin Views \cup {"auth", "gen", "workspace", "epoch", "seal"}
  BY ONLY <1>1, BeginSealIs DEF b1
<1>5. /\ b2 \in Apps
      /\ Kept(b2, b1, {})
  BY ONLY <1>3, ForgetIs DEF b2
<1>6. \A t, x : Still(b2, t, x) <=> Still(b1, t, x) /\ t # "dialog"
  BY ONLY <1>3, ForgetIs DEF b2
<1>7. "seal" \in Holders /\ {"epoch"} \in SUBSET Whats
  BY DEF Holders, Tasks, Whats, Views
<1>8. /\ app' \in Apps
      /\ Kept(app', b2, {})
  BY ONLY <1>2, <1>5, <1>7, CaptureIs
<1>9. \A t, x : Still(app', t, x) <=> (Still(b2, t, x)) \/ (t = "seal" /\ x \in {"epoch"})
  BY ONLY <1>2, <1>5, <1>7, CaptureIs
<1>10. /\ Kept(app', app, {"suspending", "page", "views", "token", "dialog", "session", "security", "deferred", "chats", "open", "loose", "pending", "replacing", "grant", "issue"})
      /\ app'.suspending = TRUE /\ app'.page = "blank" /\ app'.views = {}
      /\ app'.token = "none" /\ app'.dialog = FALSE /\ app'.session = FALSE
      /\ app'.security = FALSE /\ app'.deferred = FALSE /\ app'.chats = FALSE
      /\ app'.open = FALSE /\ app'.loose = FALSE /\ app'.pending = FALSE
      /\ app'.replacing = FALSE /\ app'.grant = FALSE /\ app'.issue = FALSE
  BY ONLY <1>3, <1>5, <1>8 DEF Kept, Views, Apps
<1>11. \A t, x : Still(app', t, x) <=> (Still(app, t, x) /\ x \notin Views \cup {"auth", "gen", "workspace", "epoch", "seal"} /\ t # "dialog") \/ (t = "seal" /\ x \in {"epoch"})
  BY ONLY <1>4, <1>6, <1>9 DEF Views
<1> USE <1>1, <1>8, <1>10, <1>11 DEF RoutesInv, Kept, MovesTo, MovesBoth, In, Op, Rests, Shows, Offers, Resuming, Locking,
       Busy, Entering, Moving, NoRights, NoView, Onboarding, Views, Whats, Tasks, Holders, Pcs,
       Free, Opened, ChatFree, AuthCall
<1>12. RoutesType'
  BY DEF RoutesType
<1>13. InOrder'
  BY DEF InOrder
<1>14. OneView' /\ HeldViews'
  BY DEF OneView, HeldViews
<1>15. HeldAtWork'
  BY DEF HeldAtWork
<1>16. OldHoldNothing' /\ SessionFlags' /\ SessionViews' /\ Generations' /\ Handovers'
  BY DEF OldHoldNothing, SessionFlags, SessionViews, Generations, Handovers
<1>17. SessionShown' /\ Sealing' /\ Sealed' /\ OpHolds' /\ OpAuth'
  BY DEF SessionShown, Sealing, Sealed, OpHolds, OpAuth
<1>18. OpFront' /\ Rights' /\ OpenIs' /\ EntersOpen'
  BY DEF OpFront, Rights, OpenIs, EntersOpen
<1>19. Registered' /\ FirstRun' /\ PageIs'
  BY DEF Registered, FirstRun, PageIs
<1> QED
  BY ONLY <1>12, <1>13, <1>14, <1>15, <1>16, <1>17, <1>18, <1>19

\* Hide: the seal goes on at "cancel", the application changes by Backs,
\* BeginSeal.
LEMMA HidesSafe ==
  ASSUME RoutesInv, left' \in Lefts,
         ~app.linux /\ ~app.closing /\ ~app.background /\ ~app.suspending,
         app' = Capture(Forget(BeginSeal(Backs(app)), "dialog"), "seal", {"epoch"}),
         MovesTo("seal", "seal", "cancel")
  PROVE  RoutesInv'
<1>1. app \in Apps /\ task \in Taskings
  BY DEF RoutesInv, RoutesType
<1> DEFINE b1 == Backs(app)
           b2 == BeginSeal(b1)
           b3 == Forget(b2, "dialog")
<1>2. app' = Capture(b3, "seal", {"epoch"})
  OBVIOUS
<1> HIDE DEF b1, b2, b3
<1>3. /\ b1 \in Apps
      /\ Kept(b1, app, {"background"})
      /\ b1.background = TRUE
  BY ONLY <1>1, BacksIs DEF b1
<1>4. \A t, x : Still(b1, t, x) <=> Still(app, t, x)
  BY ONLY <1>1, BacksIs DEF b1
<1>5. /\ b2 \in Apps
      /\ Kept(b2, b1, {"suspending", "page", "views", "token", "dialog", "session", "security", "deferred", "chats", "open", "loose", "pending", "replacing", "grant", "issue"})
      /\ b2.suspending = TRUE /\ b2.page = "blank" /\ b2.views = {} /\ b2.token = "none"
      /\ b2.dialog = FALSE /\ b2.session = FALSE /\ b2.security = FALSE
      /\ b2.deferred = FALSE /\ b2.chats = FALSE /\ b2.open = FALSE /\ b2.loose = FALSE
      /\ b2.pending = FALSE /\ b2.replacing = FALSE /\ b2.grant = FALSE /\ b2.issue = FALSE
  BY ONLY <1>3, BeginSealIs DEF b2
<1>6. \A t, x : Still(b2, t, x) <=> Still(b1, t, x) /\ x \notin Views \cup {"auth", "gen", "workspace", "epoch", "seal"}
  BY ONLY <1>3, BeginSealIs DEF b2
<1>7. /\ b3 \in Apps
      /\ Kept(b3, b2, {})
  BY ONLY <1>5, ForgetIs DEF b3
<1>8. \A t, x : Still(b3, t, x) <=> Still(b2, t, x) /\ t # "dialog"
  BY ONLY <1>5, ForgetIs DEF b3
<1>9. "seal" \in Holders /\ {"epoch"} \in SUBSET Whats
  BY DEF Holders, Tasks, Whats, Views
<1>10. /\ app' \in Apps
      /\ Kept(app', b3, {})
  BY ONLY <1>2, <1>7, <1>9, CaptureIs
<1>11. \A t, x : Still(app', t, x) <=> (Still(b3, t, x)) \/ (t = "seal" /\ x \in {"epoch"})
  BY ONLY <1>2, <1>7, <1>9, CaptureIs
<1>12. /\ Kept(app', app, {"suspending", "background", "page", "views", "token", "dialog", "session", "security", "deferred", "chats", "open", "loose", "pending", "replacing", "grant", "issue"})
      /\ app'.suspending = TRUE /\ app'.background = TRUE /\ app'.page = "blank"
      /\ app'.views = {} /\ app'.token = "none" /\ app'.dialog = FALSE
      /\ app'.session = FALSE /\ app'.security = FALSE /\ app'.deferred = FALSE
      /\ app'.chats = FALSE /\ app'.open = FALSE /\ app'.loose = FALSE
      /\ app'.pending = FALSE /\ app'.replacing = FALSE /\ app'.grant = FALSE
      /\ app'.issue = FALSE
  BY ONLY <1>3, <1>5, <1>7, <1>10 DEF Kept, Views, Apps
<1>13. \A t, x : Still(app', t, x) <=> (Still(app, t, x) /\ x \notin Views \cup {"auth", "gen", "workspace", "epoch", "seal"} /\ t # "dialog") \/ (t = "seal" /\ x \in {"epoch"})
  BY ONLY <1>4, <1>6, <1>8, <1>11 DEF Views
<1> USE <1>1, <1>10, <1>12, <1>13 DEF RoutesInv, Kept, MovesTo, MovesBoth, In, Op, Rests, Shows, Offers, Resuming, Locking,
       Busy, Entering, Moving, NoRights, NoView, Onboarding, Views, Whats, Tasks, Holders, Pcs,
       Free, Opened, ChatFree, AuthCall
<1>14. RoutesType'
  BY DEF RoutesType
<1>15. InOrder'
  BY DEF InOrder
<1>16. OneView' /\ HeldViews'
  BY DEF OneView, HeldViews
<1>17. HeldAtWork'
  BY DEF HeldAtWork
<1>18. OldHoldNothing' /\ SessionFlags' /\ SessionViews' /\ Generations' /\ Handovers'
  BY DEF OldHoldNothing, SessionFlags, SessionViews, Generations, Handovers
<1>19. SessionShown' /\ Sealing' /\ Sealed' /\ OpHolds' /\ OpAuth'
  BY DEF SessionShown, Sealing, Sealed, OpHolds, OpAuth
<1>20. OpFront' /\ Rights' /\ OpenIs' /\ EntersOpen'
  BY DEF OpFront, Rights, OpenIs, EntersOpen
<1>21. Registered' /\ FirstRun' /\ PageIs'
  BY DEF Registered, FirstRun, PageIs
<1> QED
  BY ONLY <1>14, <1>15, <1>16, <1>17, <1>18, <1>19, <1>20, <1>21

\* Hide: the seal goes on at "flush", the application changes by Backs,
\* BeginSeal.
LEMMA HidesFlushesSafe ==
  ASSUME RoutesInv, left' \in Lefts,
         ~app.linux /\ ~app.closing /\ ~app.background /\ ~app.suspending,
         app' = Capture(Forget(BeginSeal(Backs(app)), "dialog"), "seal", {"epoch"}),
         MovesTo("seal", "seal", "flush")
  PROVE  RoutesInv'
<1>1. app \in Apps /\ task \in Taskings
  BY DEF RoutesInv, RoutesType
<1> DEFINE b1 == Backs(app)
           b2 == BeginSeal(b1)
           b3 == Forget(b2, "dialog")
<1>2. app' = Capture(b3, "seal", {"epoch"})
  OBVIOUS
<1> HIDE DEF b1, b2, b3
<1>3. /\ b1 \in Apps
      /\ Kept(b1, app, {"background"})
      /\ b1.background = TRUE
  BY ONLY <1>1, BacksIs DEF b1
<1>4. \A t, x : Still(b1, t, x) <=> Still(app, t, x)
  BY ONLY <1>1, BacksIs DEF b1
<1>5. /\ b2 \in Apps
      /\ Kept(b2, b1, {"suspending", "page", "views", "token", "dialog", "session", "security", "deferred", "chats", "open", "loose", "pending", "replacing", "grant", "issue"})
      /\ b2.suspending = TRUE /\ b2.page = "blank" /\ b2.views = {} /\ b2.token = "none"
      /\ b2.dialog = FALSE /\ b2.session = FALSE /\ b2.security = FALSE
      /\ b2.deferred = FALSE /\ b2.chats = FALSE /\ b2.open = FALSE /\ b2.loose = FALSE
      /\ b2.pending = FALSE /\ b2.replacing = FALSE /\ b2.grant = FALSE /\ b2.issue = FALSE
  BY ONLY <1>3, BeginSealIs DEF b2
<1>6. \A t, x : Still(b2, t, x) <=> Still(b1, t, x) /\ x \notin Views \cup {"auth", "gen", "workspace", "epoch", "seal"}
  BY ONLY <1>3, BeginSealIs DEF b2
<1>7. /\ b3 \in Apps
      /\ Kept(b3, b2, {})
  BY ONLY <1>5, ForgetIs DEF b3
<1>8. \A t, x : Still(b3, t, x) <=> Still(b2, t, x) /\ t # "dialog"
  BY ONLY <1>5, ForgetIs DEF b3
<1>9. "seal" \in Holders /\ {"epoch"} \in SUBSET Whats
  BY DEF Holders, Tasks, Whats, Views
<1>10. /\ app' \in Apps
      /\ Kept(app', b3, {})
  BY ONLY <1>2, <1>7, <1>9, CaptureIs
<1>11. \A t, x : Still(app', t, x) <=> (Still(b3, t, x)) \/ (t = "seal" /\ x \in {"epoch"})
  BY ONLY <1>2, <1>7, <1>9, CaptureIs
<1>12. /\ Kept(app', app, {"suspending", "background", "page", "views", "token", "dialog", "session", "security", "deferred", "chats", "open", "loose", "pending", "replacing", "grant", "issue"})
      /\ app'.suspending = TRUE /\ app'.background = TRUE /\ app'.page = "blank"
      /\ app'.views = {} /\ app'.token = "none" /\ app'.dialog = FALSE
      /\ app'.session = FALSE /\ app'.security = FALSE /\ app'.deferred = FALSE
      /\ app'.chats = FALSE /\ app'.open = FALSE /\ app'.loose = FALSE
      /\ app'.pending = FALSE /\ app'.replacing = FALSE /\ app'.grant = FALSE
      /\ app'.issue = FALSE
  BY ONLY <1>3, <1>5, <1>7, <1>10 DEF Kept, Views, Apps
<1>13. \A t, x : Still(app', t, x) <=> (Still(app, t, x) /\ x \notin Views \cup {"auth", "gen", "workspace", "epoch", "seal"} /\ t # "dialog") \/ (t = "seal" /\ x \in {"epoch"})
  BY ONLY <1>4, <1>6, <1>8, <1>11 DEF Views
<1> USE <1>1, <1>10, <1>12, <1>13 DEF RoutesInv, Kept, MovesTo, MovesBoth, In, Op, Rests, Shows, Offers, Resuming, Locking,
       Busy, Entering, Moving, NoRights, NoView, Onboarding, Views, Whats, Tasks, Holders, Pcs,
       Free, Opened, ChatFree, AuthCall
<1>14. RoutesType'
  BY DEF RoutesType
<1>15. InOrder'
  BY DEF InOrder
<1>16. OneView' /\ HeldViews'
  BY DEF OneView, HeldViews
<1>17. HeldAtWork'
  BY DEF HeldAtWork
<1>18. OldHoldNothing' /\ SessionFlags' /\ SessionViews' /\ Generations' /\ Handovers'
  BY DEF OldHoldNothing, SessionFlags, SessionViews, Generations, Handovers
<1>19. SessionShown' /\ Sealing' /\ Sealed' /\ OpHolds' /\ OpAuth'
  BY DEF SessionShown, Sealing, Sealed, OpHolds, OpAuth
<1>20. OpFront' /\ Rights' /\ OpenIs' /\ EntersOpen'
  BY DEF OpFront, Rights, OpenIs, EntersOpen
<1>21. Registered' /\ FirstRun' /\ PageIs'
  BY DEF Registered, FirstRun, PageIs
<1> QED
  BY ONLY <1>14, <1>15, <1>16, <1>17, <1>18, <1>19, <1>20, <1>21

\* BackToFront: no coroutine moves, the application changes by Fronts.
LEMMA BackSafe ==
  ASSUME RoutesInv, left' \in Lefts,
         app.background /\ ~app.closing,
         app' = Fronts(app),
         UNCHANGED task
  PROVE  RoutesInv'
<1>1. app \in Apps /\ task \in Taskings
  BY DEF RoutesInv, RoutesType
<1>2. app' = Fronts(app)
  OBVIOUS
<1>3. /\ app' \in Apps
      /\ Kept(app', app, {"background"})
      /\ app'.background = FALSE
  BY ONLY <1>2, <1>1, FrontsIs
<1>4. \A t, x : Still(app', t, x) <=> Still(app, t, x)
  BY ONLY <1>2, <1>1, FrontsIs
<1>f. app.background = TRUE /\ ~app.closing /\ left' \in Lefts /\ UNCHANGED task
  BY <1>1, Zenon DEF Apps, Opened, ChatFree
<1> USE DEF RoutesInv, Kept, MovesTo, MovesBoth, In, Op, Rests, Shows, Offers, Resuming, Locking,
       Busy, Entering, Moving, NoRights, NoView, Onboarding, Views, Whats, Tasks, Holders, Pcs,
       Free, Opened, ChatFree, AuthCall
<1>5. RoutesType'
  BY ONLY RoutesInv, <1>f, <1>1, <1>3, <1>4 DEF RoutesType
<1>6. InOrder'
  BY ONLY RoutesInv, <1>f, <1>1, <1>3, <1>4 DEF InOrder
<1>7. OneView' /\ HeldViews'
  BY ONLY RoutesInv, <1>f, <1>1, <1>3, <1>4 DEF OneView, HeldViews
<1>8. HeldAtWork'
  BY ONLY RoutesInv, <1>f, <1>1, <1>3, <1>4 DEF HeldAtWork
<1>9. OldHoldNothing' /\ SessionFlags' /\ SessionViews' /\ Generations' /\ Handovers'
  BY ONLY RoutesInv, <1>f, <1>1, <1>3, <1>4 DEF OldHoldNothing, SessionFlags, SessionViews,
        Generations, Handovers
<1>10. SessionShown' /\ Sealing' /\ Sealed' /\ OpHolds' /\ OpAuth'
  BY ONLY RoutesInv, <1>f, <1>1, <1>3, <1>4 DEF SessionShown, Sealing, Sealed, OpHolds, OpAuth
<1>11. OpFront' /\ Rights' /\ OpenIs' /\ EntersOpen'
  BY ONLY RoutesInv, <1>f, <1>1, <1>3, <1>4 DEF OpFront, Rights, OpenIs, EntersOpen
<1>12. Registered' /\ FirstRun' /\ PageIs'
  BY ONLY RoutesInv, <1>f, <1>1, <1>3, <1>4 DEF Registered, FirstRun, PageIs
<1> QED
  BY ONLY <1>5, <1>6, <1>7, <1>8, <1>9, <1>10, <1>11, <1>12

\* SealCancels: the seal goes on at "flush", the application changes by
\* CancelNative.
LEMMA SealCancelledSafe ==
  ASSUME RoutesInv, left' \in Lefts,
         task["seal"].pc = "cancel",
         app' = CancelNative(app),
         MovesTo("seal", "seal", "flush")
  PROVE  RoutesInv'
<1>1. app \in Apps /\ task \in Taskings
  BY DEF RoutesInv, RoutesType
<1>2. app' = CancelNative(app)
  OBVIOUS
<1>3. /\ app' \in Apps
      /\ Kept(app', app, {"replacing", "grant", "issue", "prompt"})
      /\ app'.replacing = FALSE /\ app'.grant = FALSE /\ app'.issue = FALSE
      /\ app'.prompt = (IF app.prompt = "shown" THEN "cancelled" ELSE app.prompt)
  BY ONLY <1>2, <1>1, CancelNativeIs
<1>4. \A t, x : Still(app', t, x) <=> Still(app, t, x) /\ x # "auth"
  BY ONLY <1>2, <1>1, CancelNativeIs
<1> USE <1>1, <1>3, <1>4 DEF RoutesInv, Kept, MovesTo, MovesBoth, In, Op, Rests, Shows, Offers, Resuming, Locking,
       Busy, Entering, Moving, NoRights, NoView, Onboarding, Views, Whats, Tasks, Holders, Pcs,
       Free, Opened, ChatFree, AuthCall
<1>5. RoutesType'
  BY DEF RoutesType
<1>6. InOrder'
  BY DEF InOrder
<1>7. OneView' /\ HeldViews'
  BY DEF OneView, HeldViews
<1>8. HeldAtWork'
  BY DEF HeldAtWork
<1>9. OldHoldNothing' /\ SessionFlags' /\ SessionViews' /\ Generations' /\ Handovers'
  BY DEF OldHoldNothing, SessionFlags, SessionViews, Generations, Handovers
<1>10. SessionShown' /\ Sealing' /\ Sealed' /\ OpHolds' /\ OpAuth'
  BY DEF SessionShown, Sealing, Sealed, OpHolds, OpAuth
<1>11. OpFront' /\ Rights' /\ OpenIs' /\ EntersOpen'
  BY DEF OpFront, Rights, OpenIs, EntersOpen, OpAuth, Sealed, Sealing
<1>12. Registered' /\ FirstRun' /\ PageIs'
  BY DEF Registered, FirstRun, PageIs, Sealing
<1> QED
  BY ONLY <1>5, <1>6, <1>7, <1>8, <1>9, <1>10, <1>11, <1>12

\* SealFlushed: the seal ends, the application changes by SealEnded.
LEMMA SealStaleBusySafe ==
  ASSUME RoutesInv, left' \in Lefts,
         task["seal"].pc = "flush" /\ Rests("op") /\ Busy /\ (app.closing \/ ~Still(app, "seal", "epoch")),
         app' = Forget(SealEnded(app), "seal"),
         MovesTo("seal", "none", "idle")
  PROVE  RoutesInv'
<1>1. app \in Apps /\ task \in Taskings
  BY DEF RoutesInv, RoutesType
<1> DEFINE b1 == SealEnded(app)
<1>2. app' = Forget(b1, "seal")
  OBVIOUS
<1> HIDE DEF b1
<1>3. /\ b1 \in Apps
      /\ Kept(b1, app, {"suspending"})
      /\ b1.suspending = app.closing
  BY ONLY <1>1, SealEndedIs DEF b1
<1>4. \A t, x : Still(b1, t, x) <=> Still(app, t, x)
  BY ONLY <1>1, SealEndedIs DEF b1
<1>5. /\ app' \in Apps
      /\ Kept(app', b1, {})
  BY ONLY <1>2, <1>3, ForgetIs
<1>6. \A t, x : Still(app', t, x) <=> Still(b1, t, x) /\ t # "seal"
  BY ONLY <1>2, <1>3, ForgetIs
<1>7. /\ Kept(app', app, {"suspending"})
      /\ app'.suspending = app.closing
  BY ONLY <1>3, <1>5 DEF Kept, Views, Apps
<1>8. \A t, x : Still(app', t, x) <=> Still(app, t, x) /\ t # "seal"
  BY ONLY <1>4, <1>6 DEF Views
<1> USE <1>1, <1>5, <1>7, <1>8 DEF RoutesInv, Kept, MovesTo, MovesBoth, In, Op, Rests, Shows, Offers, Resuming, Locking,
       Busy, Entering, Moving, NoRights, NoView, Onboarding, Views, Whats, Tasks, Holders, Pcs,
       Free, Opened, ChatFree, AuthCall
<1>9. RoutesType'
  BY DEF RoutesType
<1>10. InOrder'
  BY DEF InOrder
<1>11. OneView' /\ HeldViews'
  BY DEF OneView, HeldViews
<1>12. HeldAtWork'
  BY DEF HeldAtWork
<1>13. OldHoldNothing' /\ SessionFlags' /\ SessionViews' /\ Generations' /\ Handovers'
  BY DEF OldHoldNothing, SessionFlags, SessionViews, Generations, Handovers
<1>14. SessionShown' /\ Sealing' /\ Sealed' /\ OpHolds' /\ OpAuth'
  BY DEF SessionShown, Sealing, Sealed, OpHolds, OpAuth, HeldAtWork
<1>15. OpFront' /\ Rights' /\ OpenIs' /\ EntersOpen'
  BY DEF OpFront, Rights, OpenIs, EntersOpen
<1>16. Registered' /\ FirstRun' /\ PageIs'
  BY DEF Registered, FirstRun, PageIs, Sealing
<1> QED
  BY ONLY <1>9, <1>10, <1>11, <1>12, <1>13, <1>14, <1>15, <1>16

\* SealFlushed: the seal ends, the application changes by ShowError, Unseals.
LEMMA SealErrsBusySafe ==
  ASSUME RoutesInv, left' \in Lefts,
         task["seal"].pc = "flush" /\ Rests("op") /\ Busy /\ ~app.closing /\ Still(app, "seal", "epoch"),
         app' = Forget(Unseals(ShowError(app)), "seal"),
         MovesTo("seal", "none", "idle")
  PROVE  RoutesInv'
<1>1. app \in Apps /\ task \in Taskings
  BY DEF RoutesInv, RoutesType
<1> DEFINE b1 == ShowError(app)
           b2 == Unseals(b1)
<1>2. app' = Forget(b2, "seal")
  OBVIOUS
<1> HIDE DEF b1, b2
<1>3. /\ b1 \in Apps
      /\ Kept(b1, app, {"page", "session", "security", "deferred", "chats"})
      /\ b1.page = (IF app.closing THEN app.page ELSE "error") /\ b1.session = FALSE
      /\ b1.security = FALSE /\ b1.deferred = FALSE /\ b1.chats = FALSE
  BY ONLY <1>1, ShowErrorIs DEF b1
<1>4. \A t, x : Still(b1, t, x) <=> Still(app, t, x) /\ x \notin {"gen", "workspace"}
  BY ONLY <1>1, ShowErrorIs DEF b1
<1>5. /\ b2 \in Apps
      /\ Kept(b2, b1, {"suspending"})
      /\ b2.suspending = FALSE
  BY ONLY <1>3, UnsealsIs DEF b2
<1>6. \A t, x : Still(b2, t, x) <=> Still(b1, t, x)
  BY ONLY <1>3, UnsealsIs DEF b2
<1>7. /\ app' \in Apps
      /\ Kept(app', b2, {})
  BY ONLY <1>2, <1>5, ForgetIs
<1>8. \A t, x : Still(app', t, x) <=> Still(b2, t, x) /\ t # "seal"
  BY ONLY <1>2, <1>5, ForgetIs
<1>9. /\ Kept(app', app, {"suspending", "page", "session", "security", "deferred", "chats"})
      /\ app'.suspending = FALSE /\ app'.page = (IF app.closing THEN app.page ELSE "error")
      /\ app'.session = FALSE /\ app'.security = FALSE /\ app'.deferred = FALSE
      /\ app'.chats = FALSE
  BY ONLY <1>3, <1>5, <1>7 DEF Kept, Views, Apps
<1>10. \A t, x : Still(app', t, x) <=> Still(app, t, x) /\ x \notin {"gen", "workspace"} /\ t # "seal"
  BY ONLY <1>4, <1>6, <1>8 DEF Views
<1> USE <1>1, <1>7, <1>9, <1>10 DEF RoutesInv, Kept, MovesTo, MovesBoth, In, Op, Rests, Shows, Offers, Resuming, Locking,
       Busy, Entering, Moving, NoRights, NoView, Onboarding, Views, Whats, Tasks, Holders, Pcs,
       Free, Opened, ChatFree, AuthCall
<1>11. RoutesType'
  BY DEF RoutesType
<1>12. InOrder'
  BY DEF InOrder
<1>13. OneView' /\ HeldViews'
  BY DEF OneView, HeldViews
<1>14. HeldAtWork'
  BY DEF HeldAtWork
<1>15. OldHoldNothing' /\ SessionFlags' /\ SessionViews' /\ Generations' /\ Handovers'
  BY DEF OldHoldNothing, SessionFlags, SessionViews, Generations, Handovers, Sealed, Sealing
<1>16. SessionShown' /\ Sealing' /\ Sealed' /\ OpHolds' /\ OpAuth'
  BY DEF SessionShown, Sealing, Sealed, OpHolds, OpAuth, HeldAtWork
<1>17. OpFront' /\ Rights' /\ OpenIs' /\ EntersOpen'
  BY DEF OpFront, Rights, OpenIs, EntersOpen, Sealed, Sealing
<1>18. Registered' /\ FirstRun' /\ PageIs'
  BY DEF Registered, FirstRun, PageIs, Sealed, Sealing, Rights
<1> QED
  BY ONLY <1>11, <1>12, <1>13, <1>14, <1>15, <1>16, <1>17, <1>18

\* SealFlushed: the seal goes on at "init" and the operation goes on at "hold"
\* of "seal", the application changes in its captures at most.
LEMMA SealHoldsSafe ==
  ASSUME RoutesInv, left' \in Lefts,
         task["seal"].pc = "flush" /\ Rests("op") /\ ~Busy,
         app' = app,
         MovesBoth("seal", "seal", "init", "op", "seal", "hold")
  PROVE  RoutesInv'
<1>1. app \in Apps /\ task \in Taskings
  BY DEF RoutesInv, RoutesType
<1>2. app' = app
  OBVIOUS
<1> USE <1>1, <1>2 DEF RoutesInv, Kept, MovesTo, MovesBoth, In, Op, Rests, Shows, Offers, Resuming, Locking,
       Busy, Entering, Moving, NoRights, NoView, Onboarding, Views, Whats, Tasks, Holders, Pcs,
       Free, Opened, ChatFree, AuthCall
<1>3. RoutesType'
  BY DEF RoutesType
<1>4. InOrder'
  BY DEF InOrder
<1>5. OneView' /\ HeldViews'
  BY DEF OneView, HeldViews
<1>6. HeldAtWork'
  BY DEF HeldAtWork
<1>7. OldHoldNothing' /\ SessionFlags' /\ SessionViews' /\ Generations' /\ Handovers'
  BY DEF OldHoldNothing, SessionFlags, SessionViews, Generations, Handovers
<1>8. SessionShown' /\ Sealing' /\ Sealed' /\ OpHolds' /\ OpAuth'
  BY DEF SessionShown, Sealing, Sealed, OpHolds, OpAuth, HeldAtWork
<1>9. OpFront' /\ Rights' /\ OpenIs' /\ EntersOpen'
  BY DEF OpFront, Rights, OpenIs, EntersOpen
<1>10. Registered' /\ FirstRun' /\ PageIs'
  BY DEF Registered, FirstRun, PageIs, Sealing
<1> QED
  BY ONLY <1>3, <1>4, <1>5, <1>6, <1>7, <1>8, <1>9, <1>10

\* SealInitialized: the seal ends and the operation ends, the application
\* changes by SealEnded.
LEMMA SealStaleSafe ==
  ASSUME RoutesInv, left' \in Lefts,
         task["seal"].pc = "init" /\ (app.closing \/ ~Still(app, "seal", "epoch")),
         app' = Forget(SealEnded(app), "seal"),
         MovesBoth("seal", "none", "idle", "op", "none", "idle")
  PROVE  RoutesInv'
<1>1. app \in Apps /\ task \in Taskings
  BY DEF RoutesInv, RoutesType
<1> DEFINE b1 == SealEnded(app)
<1>2. app' = Forget(b1, "seal")
  OBVIOUS
<1> HIDE DEF b1
<1>3. /\ b1 \in Apps
      /\ Kept(b1, app, {"suspending"})
      /\ b1.suspending = app.closing
  BY ONLY <1>1, SealEndedIs DEF b1
<1>4. \A t, x : Still(b1, t, x) <=> Still(app, t, x)
  BY ONLY <1>1, SealEndedIs DEF b1
<1>5. /\ app' \in Apps
      /\ Kept(app', b1, {})
  BY ONLY <1>2, <1>3, ForgetIs
<1>6. \A t, x : Still(app', t, x) <=> Still(b1, t, x) /\ t # "seal"
  BY ONLY <1>2, <1>3, ForgetIs
<1>7. /\ Kept(app', app, {"suspending"})
      /\ app'.suspending = app.closing
  BY ONLY <1>3, <1>5 DEF Kept, Views, Apps
<1>8. \A t, x : Still(app', t, x) <=> Still(app, t, x) /\ t # "seal"
  BY ONLY <1>4, <1>6 DEF Views
<1> USE <1>1, <1>5, <1>7, <1>8 DEF RoutesInv, Kept, MovesTo, MovesBoth, In, Op, Rests, Shows, Offers, Resuming, Locking,
       Busy, Entering, Moving, NoRights, NoView, Onboarding, Views, Whats, Tasks, Holders, Pcs,
       Free, Opened, ChatFree, AuthCall
<1>9. RoutesType'
  BY DEF RoutesType
<1>10. InOrder'
  BY DEF InOrder
<1>11. OneView' /\ HeldViews'
  BY DEF OneView, HeldViews
<1>12. HeldAtWork'
  BY DEF HeldAtWork, InOrder, Sealing
<1>13. OldHoldNothing' /\ SessionFlags' /\ SessionViews' /\ Generations' /\ Handovers'
  BY DEF OldHoldNothing, SessionFlags, SessionViews, Generations, Handovers, Sealing
<1>14. SessionShown' /\ Sealing' /\ Sealed' /\ OpHolds' /\ OpAuth'
  BY DEF SessionShown, Sealing, Sealed, OpHolds, OpAuth, InOrder
<1>15. OpFront' /\ Rights' /\ OpenIs' /\ EntersOpen'
  BY DEF OpFront, Rights, OpenIs, EntersOpen, Sealing
<1>16. Registered' /\ FirstRun' /\ PageIs'
  BY DEF Registered, FirstRun, PageIs, Sealing
<1> QED
  BY ONLY <1>9, <1>10, <1>11, <1>12, <1>13, <1>14, <1>15, <1>16

\* SealInitialized: the seal ends and the operation ends, the application
\* changes by ShowPin, Unseals.
LEMMA SealPinSafe ==
  ASSUME RoutesInv, left' \in Lefts,
         task["seal"].pc = "init" /\ ~app.closing /\ Still(app, "seal", "epoch") /\ app.registered,
         app' = Forget(Unseals(ShowPin(app)), "seal"),
         MovesBoth("seal", "none", "idle", "op", "none", "idle")
  PROVE  RoutesInv'
<1>1. app \in Apps /\ task \in Taskings
  BY DEF RoutesInv, RoutesType
<1> DEFINE b1 == ShowPin(app)
           b2 == Unseals(b1)
<1>2. app' = Forget(b2, "seal")
  OBVIOUS
<1> HIDE DEF b1, b2
<1>3. /\ b1 \in Apps
      /\ Kept(b1, app, {"page", "views", "token", "dialog", "session", "security", "deferred", "chats", "relocked", "issue"})
      /\ b1.page = (IF app.closing THEN app.page ELSE "pin") /\ b1.views = {"pin"}
      /\ b1.token = "none" /\ b1.dialog = FALSE /\ b1.session = FALSE /\ b1.security = FALSE
      /\ b1.deferred = FALSE /\ b1.chats = FALSE /\ b1.relocked = FALSE /\ b1.issue = FALSE
  BY ONLY <1>1, ShowPinIs DEF b1
<1>4. \A t, x : Still(b1, t, x) <=> Still(app, t, x) /\ x \notin Views \cup {"gen", "workspace"}
  BY ONLY <1>1, ShowPinIs DEF b1
<1>5. /\ b2 \in Apps
      /\ Kept(b2, b1, {"suspending"})
      /\ b2.suspending = FALSE
  BY ONLY <1>3, UnsealsIs DEF b2
<1>6. \A t, x : Still(b2, t, x) <=> Still(b1, t, x)
  BY ONLY <1>3, UnsealsIs DEF b2
<1>7. /\ app' \in Apps
      /\ Kept(app', b2, {})
  BY ONLY <1>2, <1>5, ForgetIs
<1>8. \A t, x : Still(app', t, x) <=> Still(b2, t, x) /\ t # "seal"
  BY ONLY <1>2, <1>5, ForgetIs
<1>9. /\ Kept(app', app, {"suspending", "page", "views", "token", "dialog", "session", "security", "deferred", "chats", "relocked", "issue"})
      /\ app'.suspending = FALSE /\ app'.page = (IF app.closing THEN app.page ELSE "pin")
      /\ app'.views = {"pin"} /\ app'.token = "none" /\ app'.dialog = FALSE
      /\ app'.session = FALSE /\ app'.security = FALSE /\ app'.deferred = FALSE
      /\ app'.chats = FALSE /\ app'.relocked = FALSE /\ app'.issue = FALSE
  BY ONLY <1>3, <1>5, <1>7 DEF Kept, Views, Apps
<1>10. \A t, x : Still(app', t, x) <=> Still(app, t, x) /\ x \notin Views \cup {"gen", "workspace"} /\ t # "seal"
  BY ONLY <1>4, <1>6, <1>8 DEF Views
<1>f. /\ task["seal"].pc = "init" /\ ~app.closing /\ Still(app, "seal", "epoch")
      /\ app.registered = TRUE /\ left' \in Lefts
      /\ MovesBoth("seal", "none", "idle", "op", "none", "idle")
  BY <1>1, Zenon DEF Apps, Opened, ChatFree
<1> USE DEF RoutesInv, Kept, MovesTo, MovesBoth, In, Op, Rests, Shows, Offers, Resuming, Locking,
       Busy, Entering, Moving, NoRights, NoView, Onboarding, Views, Whats, Tasks, Holders, Pcs,
       Free, Opened, ChatFree, AuthCall
<1>11. RoutesType'
  BY ONLY RoutesInv, <1>f, <1>1, <1>7, <1>9, <1>10 DEF RoutesType
<1>12. InOrder'
  BY ONLY RoutesInv, <1>f, <1>1, <1>7, <1>9, <1>10 DEF InOrder
<1>13. OneView' /\ HeldViews'
  BY ONLY RoutesInv, <1>f, <1>1, <1>7, <1>9, <1>10 DEF OneView, HeldViews
<1>14. HeldAtWork'
  BY ONLY RoutesInv, <1>f, <1>1, <1>7, <1>9, <1>10 DEF HeldAtWork, InOrder, Sealing
<1>15. OldHoldNothing' /\ SessionFlags' /\ SessionViews' /\ Generations' /\ Handovers'
  BY ONLY RoutesInv, <1>f, <1>1, <1>7, <1>9, <1>10 DEF OldHoldNothing, SessionFlags,
        SessionViews, Generations, Handovers
<1>16. SessionShown' /\ Sealing' /\ Sealed' /\ OpHolds' /\ OpAuth'
  BY ONLY RoutesInv, <1>f, <1>1, <1>7, <1>9, <1>10 DEF SessionShown, Sealing, Sealed, OpHolds,
        OpAuth, InOrder, HeldAtWork
<1>17. OpFront' /\ Rights' /\ OpenIs' /\ EntersOpen'
  BY ONLY RoutesInv, <1>f, <1>1, <1>7, <1>9, <1>10 DEF OpFront, Rights, OpenIs, EntersOpen,
        Sealed, OneView, Sealing
<1>18. Registered' /\ FirstRun' /\ PageIs'
  BY ONLY RoutesInv, <1>f, <1>1, <1>7, <1>9, <1>10 DEF Registered, FirstRun, PageIs
<1> QED
  BY ONLY <1>11, <1>12, <1>13, <1>14, <1>15, <1>16, <1>17, <1>18

\* SealInitialized: the seal ends and the operation ends, the application
\* changes by ShowKey, Unseals.
LEMMA SealKeySafe ==
  ASSUME RoutesInv, left' \in Lefts,
         task["seal"].pc = "init" /\ ~app.closing /\ Still(app, "seal", "epoch") /\ ~app.registered,
         app' = Forget(Unseals(ShowKey(app)), "seal"),
         MovesBoth("seal", "none", "idle", "op", "none", "idle")
  PROVE  RoutesInv'
<1>1. app \in Apps /\ task \in Taskings
  BY DEF RoutesInv, RoutesType
<1> DEFINE b1 == ShowKey(app)
           b2 == Unseals(b1)
<1>2. app' = Forget(b2, "seal")
  OBVIOUS
<1> HIDE DEF b1, b2
<1>3. /\ b1 \in Apps
      /\ Kept(b1, app, {"page", "views", "token", "session", "security", "deferred", "chats", "issue"})
      /\ b1.page = (IF app.closing THEN app.page ELSE "key") /\ b1.views = {"key"}
      /\ b1.token = "none" /\ b1.session = FALSE /\ b1.security = FALSE
      /\ b1.deferred = FALSE /\ b1.chats = FALSE /\ b1.issue = FALSE
  BY ONLY <1>1, ShowKeyIs DEF b1
<1>4. \A t, x : Still(b1, t, x) <=> Still(app, t, x) /\ x \notin Views \cup {"gen", "workspace"}
  BY ONLY <1>1, ShowKeyIs DEF b1
<1>5. /\ b2 \in Apps
      /\ Kept(b2, b1, {"suspending"})
      /\ b2.suspending = FALSE
  BY ONLY <1>3, UnsealsIs DEF b2
<1>6. \A t, x : Still(b2, t, x) <=> Still(b1, t, x)
  BY ONLY <1>3, UnsealsIs DEF b2
<1>7. /\ app' \in Apps
      /\ Kept(app', b2, {})
  BY ONLY <1>2, <1>5, ForgetIs
<1>8. \A t, x : Still(app', t, x) <=> Still(b2, t, x) /\ t # "seal"
  BY ONLY <1>2, <1>5, ForgetIs
<1>9. /\ Kept(app', app, {"suspending", "page", "views", "token", "session", "security", "deferred", "chats", "issue"})
      /\ app'.suspending = FALSE /\ app'.page = (IF app.closing THEN app.page ELSE "key")
      /\ app'.views = {"key"} /\ app'.token = "none" /\ app'.session = FALSE
      /\ app'.security = FALSE /\ app'.deferred = FALSE /\ app'.chats = FALSE
      /\ app'.issue = FALSE
  BY ONLY <1>3, <1>5, <1>7 DEF Kept, Views, Apps
<1>10. \A t, x : Still(app', t, x) <=> Still(app, t, x) /\ x \notin Views \cup {"gen", "workspace"} /\ t # "seal"
  BY ONLY <1>4, <1>6, <1>8 DEF Views
<1> USE <1>1, <1>7, <1>9, <1>10 DEF RoutesInv, Kept, MovesTo, MovesBoth, In, Op, Rests, Shows, Offers, Resuming, Locking,
       Busy, Entering, Moving, NoRights, NoView, Onboarding, Views, Whats, Tasks, Holders, Pcs,
       Free, Opened, ChatFree, AuthCall
<1>11. RoutesType'
  BY DEF RoutesType
<1>12. InOrder'
  BY DEF InOrder
<1>13. OneView' /\ HeldViews'
  BY DEF OneView, HeldViews
<1>14. HeldAtWork'
  BY DEF HeldAtWork, Registered, OpAuth, Sealing, HeldViews, Sealed
<1>15. OldHoldNothing' /\ SessionFlags' /\ SessionViews' /\ Generations' /\ Handovers'
  BY DEF OldHoldNothing, SessionFlags, SessionViews, Generations, Handovers
<1>16. SessionShown' /\ Sealing' /\ Sealed' /\ OpHolds' /\ OpAuth'
  BY DEF SessionShown, Sealing, Sealed, OpHolds, OpAuth, InOrder
<1>17. OpFront' /\ Rights' /\ OpenIs' /\ EntersOpen'
  BY DEF OpFront, Rights, OpenIs, EntersOpen, OneView, Sealed, Sealing, Registered
<1>18. Registered' /\ FirstRun' /\ PageIs'
  BY DEF Registered, FirstRun, PageIs
<1> QED
  BY ONLY <1>11, <1>12, <1>13, <1>14, <1>15, <1>16, <1>17, <1>18

\* SealInitialized: the seal ends and the operation ends, the application
\* changes by ShowError, Unseals.
LEMMA SealErrsSafe ==
  ASSUME RoutesInv, left' \in Lefts,
         task["seal"].pc = "init" /\ ~app.closing /\ Still(app, "seal", "epoch"),
         app' = Forget(Unseals(ShowError(app)), "seal"),
         MovesBoth("seal", "none", "idle", "op", "none", "idle")
  PROVE  RoutesInv'
<1>1. app \in Apps /\ task \in Taskings
  BY DEF RoutesInv, RoutesType
<1> DEFINE b1 == ShowError(app)
           b2 == Unseals(b1)
<1>2. app' = Forget(b2, "seal")
  OBVIOUS
<1> HIDE DEF b1, b2
<1>3. /\ b1 \in Apps
      /\ Kept(b1, app, {"page", "session", "security", "deferred", "chats"})
      /\ b1.page = (IF app.closing THEN app.page ELSE "error") /\ b1.session = FALSE
      /\ b1.security = FALSE /\ b1.deferred = FALSE /\ b1.chats = FALSE
  BY ONLY <1>1, ShowErrorIs DEF b1
<1>4. \A t, x : Still(b1, t, x) <=> Still(app, t, x) /\ x \notin {"gen", "workspace"}
  BY ONLY <1>1, ShowErrorIs DEF b1
<1>5. /\ b2 \in Apps
      /\ Kept(b2, b1, {"suspending"})
      /\ b2.suspending = FALSE
  BY ONLY <1>3, UnsealsIs DEF b2
<1>6. \A t, x : Still(b2, t, x) <=> Still(b1, t, x)
  BY ONLY <1>3, UnsealsIs DEF b2
<1>7. /\ app' \in Apps
      /\ Kept(app', b2, {})
  BY ONLY <1>2, <1>5, ForgetIs
<1>8. \A t, x : Still(app', t, x) <=> Still(b2, t, x) /\ t # "seal"
  BY ONLY <1>2, <1>5, ForgetIs
<1>9. /\ Kept(app', app, {"suspending", "page", "session", "security", "deferred", "chats"})
      /\ app'.suspending = FALSE /\ app'.page = (IF app.closing THEN app.page ELSE "error")
      /\ app'.session = FALSE /\ app'.security = FALSE /\ app'.deferred = FALSE
      /\ app'.chats = FALSE
  BY ONLY <1>3, <1>5, <1>7 DEF Kept, Views, Apps
<1>10. \A t, x : Still(app', t, x) <=> Still(app, t, x) /\ x \notin {"gen", "workspace"} /\ t # "seal"
  BY ONLY <1>4, <1>6, <1>8 DEF Views
<1> USE <1>1, <1>7, <1>9, <1>10 DEF RoutesInv, Kept, MovesTo, MovesBoth, In, Op, Rests, Shows, Offers, Resuming, Locking,
       Busy, Entering, Moving, NoRights, NoView, Onboarding, Views, Whats, Tasks, Holders, Pcs,
       Free, Opened, ChatFree, AuthCall
<1>11. RoutesType'
  BY DEF RoutesType
<1>12. InOrder'
  BY DEF InOrder
<1>13. OneView' /\ HeldViews'
  BY DEF OneView, HeldViews
<1>14. HeldAtWork'
  BY DEF HeldAtWork, InOrder, Sealing
<1>15. OldHoldNothing' /\ SessionFlags' /\ SessionViews' /\ Generations' /\ Handovers'
  BY DEF OldHoldNothing, SessionFlags, SessionViews, Generations, Handovers, Sealing, Sealed
<1>16. SessionShown' /\ Sealing' /\ Sealed' /\ OpHolds' /\ OpAuth'
  BY DEF SessionShown, Sealing, Sealed, OpHolds, OpAuth, InOrder, HeldAtWork
<1>17. OpFront' /\ Rights' /\ OpenIs' /\ EntersOpen'
  BY DEF OpFront, Rights, OpenIs, EntersOpen, Sealed, Sealing
<1>18. Registered' /\ FirstRun' /\ PageIs'
  BY DEF Registered, FirstRun, PageIs, Sealing, Sealed, OneView, Rights
<1> QED
  BY ONLY <1>11, <1>12, <1>13, <1>14, <1>15, <1>16, <1>17, <1>18

\* Close: no coroutine moves, the application changes by BeginSeal,
\* ClosesForGood.
LEMMA ClosesSafe ==
  ASSUME RoutesInv, left' \in Lefts,
         ~app.closing,
         app' = ClosesForGood(Forget(BeginSeal(app), "dialog")),
         UNCHANGED task
  PROVE  RoutesInv'
<1>1. app \in Apps /\ task \in Taskings
  BY DEF RoutesInv, RoutesType
<1> DEFINE b1 == BeginSeal(app)
           b2 == Forget(b1, "dialog")
<1>2. app' = ClosesForGood(b2)
  OBVIOUS
<1> HIDE DEF b1, b2
<1>3. /\ b1 \in Apps
      /\ Kept(b1, app, {"suspending", "page", "views", "token", "dialog", "session", "security", "deferred", "chats", "open", "loose", "pending", "replacing", "grant", "issue"})
      /\ b1.suspending = TRUE /\ b1.page = "blank" /\ b1.views = {} /\ b1.token = "none"
      /\ b1.dialog = FALSE /\ b1.session = FALSE /\ b1.security = FALSE
      /\ b1.deferred = FALSE /\ b1.chats = FALSE /\ b1.open = FALSE /\ b1.loose = FALSE
      /\ b1.pending = FALSE /\ b1.replacing = FALSE /\ b1.grant = FALSE /\ b1.issue = FALSE
  BY ONLY <1>1, BeginSealIs DEF b1
<1>4. \A t, x : Still(b1, t, x) <=> Still(app, t, x) /\ x \notin Views \cup {"auth", "gen", "workspace", "epoch", "seal"}
  BY ONLY <1>1, BeginSealIs DEF b1
<1>5. /\ b2 \in Apps
      /\ Kept(b2, b1, {})
  BY ONLY <1>3, ForgetIs DEF b2
<1>6. \A t, x : Still(b2, t, x) <=> Still(b1, t, x) /\ t # "dialog"
  BY ONLY <1>3, ForgetIs DEF b2
<1>7. /\ app' \in Apps
      /\ Kept(app', b2, {"background", "closing"})
      /\ app'.background = TRUE /\ app'.closing = TRUE
  BY ONLY <1>2, <1>5, ClosesForGoodIs
<1>8. \A t, x : Still(app', t, x) <=> Still(b2, t, x)
  BY ONLY <1>2, <1>5, ClosesForGoodIs
<1>9. /\ Kept(app', app, {"suspending", "background", "closing", "page", "views", "token", "dialog", "session", "security", "deferred", "chats", "open", "loose", "pending", "replacing", "grant", "issue"})
      /\ app'.suspending = TRUE /\ app'.background = TRUE /\ app'.closing = TRUE
      /\ app'.page = "blank" /\ app'.views = {} /\ app'.token = "none" /\ app'.dialog = FALSE
      /\ app'.session = FALSE /\ app'.security = FALSE /\ app'.deferred = FALSE
      /\ app'.chats = FALSE /\ app'.open = FALSE /\ app'.loose = FALSE
      /\ app'.pending = FALSE /\ app'.replacing = FALSE /\ app'.grant = FALSE
      /\ app'.issue = FALSE
  BY ONLY <1>3, <1>5, <1>7 DEF Kept, Views, Apps
<1>10. \A t, x : Still(app', t, x) <=> Still(app, t, x) /\ x \notin Views \cup {"auth", "gen", "workspace", "epoch", "seal"} /\ t # "dialog"
  BY ONLY <1>4, <1>6, <1>8 DEF Views
<1> USE <1>1, <1>7, <1>9, <1>10 DEF RoutesInv, Kept, MovesTo, MovesBoth, In, Op, Rests, Shows, Offers, Resuming, Locking,
       Busy, Entering, Moving, NoRights, NoView, Onboarding, Views, Whats, Tasks, Holders, Pcs,
       Free, Opened, ChatFree, AuthCall
<1>11. RoutesType'
  BY DEF RoutesType
<1>12. InOrder'
  BY DEF InOrder
<1>13. OneView' /\ HeldViews'
  BY DEF OneView, HeldViews
<1>14. HeldAtWork'
  BY DEF HeldAtWork
<1>15. OldHoldNothing' /\ SessionFlags' /\ SessionViews' /\ Generations' /\ Handovers'
  BY DEF OldHoldNothing, SessionFlags, SessionViews, Generations, Handovers
<1>16. SessionShown' /\ Sealing' /\ Sealed' /\ OpHolds' /\ OpAuth'
  BY DEF SessionShown, Sealing, Sealed, OpHolds, OpAuth
<1>17. OpFront' /\ Rights' /\ OpenIs' /\ EntersOpen'
  BY DEF OpFront, Rights, OpenIs, EntersOpen
<1>18. Registered' /\ FirstRun' /\ PageIs'
  BY DEF Registered, FirstRun, PageIs
<1> QED
  BY ONLY <1>11, <1>12, <1>13, <1>14, <1>15, <1>16, <1>17, <1>18

-----------------------------------------------------------------------------
(* The actions.                                                            *)

\* The types, and the tests of the model in the terms of the invariant.
LEMMA StandsIs ==
  ASSUME RoutesInv
  PROVE  /\ app \in Apps /\ task \in Taskings /\ left \in Lefts
         /\ \A t \in Tasks : task[t] = Idle <=> Rests(t)
         /\ \A t \in Tasks, k \in Kinds, p \in Pcs : At(t, k, p) <=> In(t, k, {p})
<1>1. app \in Apps /\ task \in Taskings /\ left \in Lefts
  BY DEF RoutesInv, RoutesType
<1>2. ASSUME NEW t \in Tasks, NEW k \in Kinds, NEW p \in Pcs
      PROVE  At(t, k, p) <=> In(t, k, {p})
  BY <1>1 DEF At, In, Taskings
<1>3. "none" \in Kinds /\ "idle" \in Pcs
  BY DEF Kinds, Pcs
<1>4. \A t \in Tasks : task[t] = Idle <=> Rests(t)
  BY <1>2, <1>3 DEF Rests, At, Idle
<1> QED
  BY <1>1, <1>2, <1>4

\* An update of one coroutine moves that one only.
LEMMA GoesIs ==
  ASSUME task \in Taskings, NEW t \in Tasks, NEW k \in Kinds, NEW p \in Pcs,
         task' = [task EXCEPT ![t] = [kind |-> k, pc |-> p]]
  PROVE  MovesTo(t, k, p)
  BY DEF MovesTo, Taskings

\* A coroutine that ends comes to rest.
LEMMA RestsIs ==
  ASSUME task \in Taskings, NEW t \in Tasks, task' = [task EXCEPT ![t] = Idle]
  PROVE  MovesTo(t, "none", "idle")
  BY GoesIs DEF Idle, Kinds, Pcs

\* An update of two coroutines moves those two only.
LEMMA GoBothIs ==
  ASSUME task \in Taskings, NEW t \in Tasks, NEW k \in Kinds, NEW p \in Pcs,
         NEW u \in Tasks \ {t}, NEW k2 \in Kinds, NEW p2 \in Pcs,
         task' = [task EXCEPT ![t] = [kind |-> k, pc |-> p], ![u] = [kind |-> k2, pc |-> p2]]
  PROVE  MovesBoth(t, k, p, u, k2, p2)
  BY DEF MovesBoth, Taskings

\* Spending from the budget leaves a budget.
LEMMA SpendIs ==
  ASSUME left \in Lefts, NEW what \in {"ops", "seals", "fails"}, Spend(what)
  PROVE  left' \in Lefts
  BY DEF Spend, Lefts

\* So does an answer of the backend, good or bad.
LEMMA AnswersIs ==
  ASSUME left \in Lefts, Answers \/ Fails
  PROVE  left' \in Lefts
  BY SpendIs DEF Answers, Fails

\* Ends: the coroutine rests and its captures go.
LEMMA EndsIs ==
  ASSUME task \in Taskings, NEW t \in Tasks, NEW a, Ends(t, a)
  PROVE  app' = Forget(a, t) /\ MovesTo(t, "none", "idle")
  BY RestsIs DEF Ends

\* Sets: the coroutine goes on at another await.
LEMMA SetsIs ==
  ASSUME task \in Taskings, NEW t \in Tasks, NEW a, NEW k \in Kinds, NEW p \in Pcs, Sets(t, a, k, p)
  PROVE  app' = a /\ MovesTo(t, k, p)
  BY GoesIs DEF Sets

\* Begins: an operation starts only at rest and unsealed, and captures the
\* seal.
LEMMA BeginsIs ==
  ASSUME RoutesInv, NEW k \in Kinds, NEW p \in Pcs, NEW a, NEW W, Begins(k, p, a, W)
  PROVE  /\ Free /\ Rests("op") /\ left' \in Lefts
         /\ app' = Capture(a, "op", W \cup {"seal"}) /\ MovesTo("op", k, p)
  BY StandsIs, SpendIs, SetsIs DEF Begins, Tasks

\* BeginsOr: the same, or what a manual lock in progress makes of it.
LEMMA BeginsOrIs ==
  ASSUME RoutesInv, NEW k \in Kinds, NEW p \in Pcs, NEW a, NEW W, NEW b, BeginsOr(k, p, a, W, b)
  PROVE  /\ Free /\ Rests("op") /\ left' \in Lefts
         /\ \/ Busy /\ app' = b /\ UNCHANGED task
            \/ ~Busy /\ app' = Capture(a, "op", W \cup {"seal"}) /\ MovesTo("op", k, p)
  BY StandsIs, SpendIs, BeginsIs DEF BeginsOr, Tasks

\* RoutesInv is kept by Start.
LEMMA StartSafe ==
  ASSUME RoutesInv, Start
  PROVE  RoutesInv'
<1>1. /\ app.page = "error"
      /\ BeginsOr("start", "ask", app, {"epoch"}, ShowError(app))
  BY DEF Start
<1>2. {"epoch"} \cup {"seal"} = {"epoch", "seal"} /\ "start" \in Kinds /\ "ask" \in Pcs
  BY DEF Kinds, Pcs
<1>3. /\ Free /\ Rests("op") /\ left' \in Lefts
      /\ \/ Busy /\ app' = ShowError(app) /\ UNCHANGED task
         \/ ~Busy /\ app' = Capture(app, "op", {"epoch", "seal"}) /\ MovesTo("op", "start", "ask")
  BY ONLY RoutesInv, <1>1, <1>2, BeginsOrIs
<1> QED
  BY ONLY RoutesInv, <1>1, <1>3, ErrorAgainSafe, StartBeginsSafe

\* RoutesInv is kept by SubmitKey.
LEMMA SubmitKeySafe ==
  ASSUME RoutesInv, SubmitKey
  PROVE  RoutesInv'
<1>1. /\ "key" \in app.views
      /\ BeginsOr("key", "check", CancelPending(app), {"key", "auth"}, app)
  BY DEF SubmitKey
<1>2. {"key", "auth"} \cup {"seal"} = {"auth", "key", "seal"} /\ "key" \in Kinds /\ "check" \in Pcs
  BY DEF Kinds, Pcs
<1>3. /\ Free /\ Rests("op") /\ left' \in Lefts
      /\ \/ Busy /\ app' = app /\ UNCHANGED task
         \/ ~Busy /\ app' = Capture(CancelPending(app), "op", {"auth", "key", "seal"}) /\ MovesTo("op", "key", "check")
  BY ONLY RoutesInv, <1>1, <1>2, BeginsOrIs
<1> QED
  BY ONLY RoutesInv, <1>1, <1>3, NothingSafe, KeyBeginsSafe

\* RoutesInv is kept by SubmitCode.
LEMMA SubmitCodeSafe ==
  ASSUME RoutesInv, SubmitCode
  PROVE  RoutesInv'
<1>1. /\ "entry" \in app.views
      /\ BeginsOr("code", "check", CancelGrant(app), {"epoch", "entry", "auth"}, app)
  BY DEF SubmitCode
<1>2. {"epoch", "entry", "auth"} \cup {"seal"} = {"auth", "entry", "epoch", "seal"} /\ "code" \in Kinds /\ "check" \in Pcs
  BY DEF Kinds, Pcs
<1>3. /\ Free /\ Rests("op") /\ left' \in Lefts
      /\ \/ Busy /\ app' = app /\ UNCHANGED task
         \/ ~Busy /\ app' = Capture(CancelGrant(app), "op", {"auth", "entry", "epoch", "seal"}) /\ MovesTo("op", "code", "check")
  BY ONLY RoutesInv, <1>1, <1>2, BeginsOrIs
<1> QED
  BY ONLY RoutesInv, <1>1, <1>3, NothingSafe, CodeBeginsSafe

\* RoutesInv is kept by BeginCode.
LEMMA BeginCodeSafe ==
  ASSUME RoutesInv, BeginCode
  PROVE  RoutesInv'
<1>1. /\ "codepin" \in app.views
      /\ BeginsOr("begincode", "check", CancelGrant(app), {"epoch", "codepin", "auth"}, app)
  BY DEF BeginCode
<1>2. {"epoch", "codepin", "auth"} \cup {"seal"} = {"auth", "codepin", "epoch", "seal"} /\ "begincode" \in Kinds /\ "check" \in Pcs
  BY DEF Kinds, Pcs
<1>3. /\ Free /\ Rests("op") /\ left' \in Lefts
      /\ \/ Busy /\ app' = app /\ UNCHANGED task
         \/ ~Busy /\ app' = Capture(CancelGrant(app), "op", {"auth", "codepin", "epoch", "seal"}) /\ MovesTo("op", "begincode", "check")
  BY ONLY RoutesInv, <1>1, <1>2, BeginsOrIs
<1> QED
  BY ONLY RoutesInv, <1>1, <1>3, NothingSafe, CodeSettingBeginsSafe

\* RoutesInv is kept by ConfirmCode.
LEMMA ConfirmCodeSafe ==
  ASSUME RoutesInv, ConfirmCode
  PROVE  RoutesInv'
<1>1. /\ "codeshow" \in app.views
      /\ BeginsOr("confirm", "check", app, {"epoch", "codeshow", "auth"}, app)
  BY DEF ConfirmCode
<1>2. {"epoch", "codeshow", "auth"} \cup {"seal"} = {"auth", "codeshow", "epoch", "seal"} /\ "confirm" \in Kinds /\ "check" \in Pcs
  BY DEF Kinds, Pcs
<1>3. /\ Free /\ Rests("op") /\ left' \in Lefts
      /\ \/ Busy /\ app' = app /\ UNCHANGED task
         \/ ~Busy /\ app' = Capture(app, "op", {"auth", "codeshow", "epoch", "seal"}) /\ MovesTo("op", "confirm", "check")
  BY ONLY RoutesInv, <1>1, <1>2, BeginsOrIs
<1> QED
  BY ONLY RoutesInv, <1>1, <1>3, NothingSafe, ConfirmBeginsSafe

\* RoutesInv is kept by RequestRecovery.
LEMMA RequestRecoverySafe ==
  ASSUME RoutesInv, RequestRecovery
  PROVE  RoutesInv'
<1>1. /\ app.linux /\ ("pin" \in app.views \/ "entry" \in app.views)
      /\ BeginsOr("entry", "ask", Moved(app, "epoch"), {"epoch"}, EntryFailed(Moved(app, "epoch")))
  BY DEF RequestRecovery
<1>2. {"epoch"} \cup {"seal"} = {"epoch", "seal"} /\ "entry" \in Kinds /\ "ask" \in Pcs
  BY DEF Kinds, Pcs
<1>3. /\ Free /\ Rests("op") /\ left' \in Lefts
      /\ \/ Busy /\ app' = EntryFailed(Moved(app, "epoch")) /\ UNCHANGED task
         \/ ~Busy /\ app' = Capture(Moved(app, "epoch"), "op", {"epoch", "seal"}) /\ MovesTo("op", "entry", "ask")
  BY ONLY RoutesInv, <1>1, <1>2, BeginsOrIs
<1> QED
  BY ONLY RoutesInv, <1>1, <1>3, EntryBusySafe, EntryBeginsSafe

\* RoutesInv is kept by ContinueSetup.
LEMMA ContinueSetupSafe ==
  ASSUME RoutesInv, ContinueSetup
  PROVE  RoutesInv'
<1>1. /\ "step" \in app.views /\ Opened
      /\ Begins("cont", "prefs", app, {"epoch", "step"})
  BY DEF ContinueSetup
<1>2. {"epoch", "step"} \cup {"seal"} = {"epoch", "seal", "step"} /\ "cont" \in Kinds /\ "prefs" \in Pcs
  BY DEF Kinds, Pcs
<1>3. /\ Free /\ Rests("op") /\ left' \in Lefts
      /\ app' = Capture(app, "op", {"epoch", "seal", "step"}) /\ MovesTo("op", "cont", "prefs")
  BY ONLY RoutesInv, <1>1, <1>2, BeginsIs
<1> QED
  BY ONLY RoutesInv, <1>1, <1>3, ContinueBeginsSafe

\* RoutesInv is kept by ConfirmReset.
LEMMA ConfirmResetSafe ==
  ASSUME RoutesInv, ConfirmReset
  PROVE  RoutesInv'
<1>1. /\ app.dialog /\ Still(app, "dialog", "epoch") /\ Still(app, "dialog", "gen")
      /\ Begins("reset", "flush", Forget(DialogDown(app), "dialog"), {"epoch", "gen"})
  BY DEF ConfirmReset, DialogDown
<1>2. {"epoch", "gen"} \cup {"seal"} = {"epoch", "gen", "seal"} /\ "reset" \in Kinds /\ "flush" \in Pcs
  BY DEF Kinds, Pcs
<1>3. /\ Free /\ Rests("op") /\ left' \in Lefts
      /\ app' = Capture(Forget(DialogDown(app), "dialog"), "op", {"epoch", "gen", "seal"}) /\ MovesTo("op", "reset", "flush")
  BY ONLY RoutesInv, <1>1, <1>2, BeginsIs
<1> QED
  BY ONLY RoutesInv, <1>1, <1>3, ResetBeginsSafe

\* RoutesInv is kept by StartAnswer.
LEMMA StartAnswerSafe ==
  ASSUME RoutesInv, StartAnswer
  PROVE  RoutesInv'
<1>1. Op("start", {"ask"})
  BY StandsIs DEF StartAnswer, Op, Tasks, Kinds, Pcs
<1>2. PICK r \in {"pin", "setup", "error"} :
        /\ InitializeAnswers(r)
        /\ Ends("op", IF Still(app, "op", "epoch") THEN Route(app, r) ELSE app)
  BY DEF StartAnswer
<1>3. /\ left' \in Lefts /\ MovesTo("op", "none", "idle")
      /\ app' = Forget(IF Still(app, "op", "epoch") THEN Route(app, r) ELSE app, "op")
  BY <1>2, StandsIs, AnswersIs, EndsIs DEF InitializeAnswers, Tasks
<1>4. \/ ~Still(app, "op", "epoch") /\ app' = Forget(app, "op")
      \/ Still(app, "op", "epoch") /\ app.registered /\ app' = Forget(ShowPin(app), "op")
      \/ Still(app, "op", "epoch") /\ ~app.registered /\ app' = Forget(ShowKey(app), "op")
      \/ Still(app, "op", "epoch") /\ app' = Forget(ShowError(app), "op")
  BY <1>2, <1>3 DEF InitializeAnswers, Route
<1> QED
  BY ONLY RoutesInv, <1>1, <1>3, <1>4, OpEndsSafe, PinShownSafe, KeyShownSafe, ErrorShownSafe

\* RoutesInv, where a key is refused.
LEMMA KeyRefusedSafe ==
  ASSUME RoutesInv, left' \in Lefts, Op("key", {"check"}) \/ Op("key", {"save"}),
         Ends("op", KeyRefused)
  PROVE  RoutesInv'
<1>1. app' = Forget(KeyRefused, "op") /\ MovesTo("op", "none", "idle")
  BY StandsIs, EndsIs DEF Tasks
<1>2. \/ Still(app, "op", "key") /\ app' = Forget(app, "op")
      \/ ~Still(app, "op", "key") /\ app' = Forget(CancelPending(app), "op")
  BY <1>1 DEF KeyRefused
<1> QED
  BY ONLY RoutesInv, left' \in Lefts, Op("key", {"check"}) \/ Op("key", {"save"}), <1>1, <1>2, OpEndsSafe, PendingDroppedSafe

\* RoutesInv is kept by KeyAnswer.
LEMMA KeyAnswerSafe ==
  ASSUME RoutesInv, KeyAnswer
  PROVE  RoutesInv'
<1>1. Op("key", {"check"}) /\ left' \in Lefts
  BY StandsIs, AnswersIs DEF KeyAnswer, Op, Tasks, Kinds, Pcs
<1>2. CASE Ends("op", KeyRefused)
  BY ONLY RoutesInv, <1>1, <1>2, KeyRefusedSafe
<1>3. CASE /\ Still(app, "op", "auth") /\ Still(app, "op", "key") /\ app.replacing
           /\ Sets("op", app, "key", "save")
  <2>1. app' = app /\ MovesTo("op", "key", "save")
    BY <1>3, StandsIs, SetsIs DEF Tasks, Kinds, Pcs
  <2> QED
    BY ONLY RoutesInv, <1>1, <1>3, <2>1, KeyCheckedSafe
<1>4. CASE /\ Still(app, "op", "auth") /\ Still(app, "op", "key") /\ ~app.replacing
           /\ Ends("op", IF app.registered THEN ShowPin(app) ELSE ShowSetup(Pends(app)))
  <2>1. /\ app' = Forget(IF app.registered THEN ShowPin(app) ELSE ShowSetup(Pends(app)), "op")
        /\ MovesTo("op", "none", "idle")
    BY <1>4, StandsIs, EndsIs DEF Tasks
  <2> QED
    BY ONLY RoutesInv, <1>1, <1>4, <2>1, PinShownSafe, SetupShownSafe
<1> QED
  BY <1>2, <1>3, <1>4 DEF KeyAnswer, Pends

\* Present: the chats are to be shown, or the coroutine ends.
LEMMA PresentIs ==
  ASSUME task \in Taskings, NEW t \in Tasks, NEW a, NEW k \in Kinds, Present(t, a, k)
  PROVE  \/ /\ a.session /\ ~a.deferred /\ ~a.security
            /\ app' = Capture(Moved(a, "workspace"), t, {"gen", "workspace"})
            /\ MovesTo(t, k, "show")
         \/ /\ ~(a.session /\ ~a.deferred /\ ~a.security)
            /\ app' = Forget(a, t) /\ MovesTo(t, "none", "idle")
  BY EndsIs, SetsIs DEF Present, Pcs

\* Enter without the first-run step shows the chats of the new session.
LEMMA EnterIs ==
  ASSUME RoutesInv, NEW a \in Apps, NEW k \in Kinds, Enter(a, FALSE, k)
  PROVE  /\ app' = Capture(Moved(ActivatePresent(a), "workspace"), "op", {"gen", "workspace"})
         /\ MovesTo("op", k, "show")
<1>1. Present("op", ActivatePresent(a), k)
  BY DEF Enter
<1>2. ActivatePresent(a).session /\ ~ActivatePresent(a).deferred /\ ~ActivatePresent(a).security
  BY ActivatePresentIs
<1> QED
  BY <1>1, <1>2, PresentIs, StandsIs DEF Tasks

\* RoutesInv is kept by KeySaved.
LEMMA KeySavedSafe ==
  ASSUME RoutesInv, KeySaved
  PROVE  RoutesInv'
<1>1. Op("key", {"save"}) /\ left' \in Lefts
  BY StandsIs, AnswersIs DEF KeySaved, Op, Tasks, Kinds, Pcs
<1>2. Still(app, "op", "auth") => Still(app, "op", "key")
  BY <1>1 DEF RoutesInv, OpAuth, Op, In, Pcs
<1>3. CASE Ends("op", KeyRefused)
  BY ONLY RoutesInv, <1>1, <1>3, KeyRefusedSafe
<1>4. CASE /\ Still(app, "op", "auth") /\ app.replacing
           /\ IF Still(Reopens(app), "op", "key") THEN Enter(Reopens(app), FALSE, "key")
              ELSE Ends("op", CancelPending(Reopens(app)))
  <2>1. Reopens(app) \in Apps /\ Still(Reopens(app), "op", "key")
    BY <1>2, <1>4, StandsIs, ReopensIs
  <2>2. /\ app' = Capture(Moved(ActivatePresent(Reopens(app)), "workspace"), "op", {"gen", "workspace"})
        /\ MovesTo("op", "key", "show")
    BY <1>4, <2>1, EnterIs DEF Kinds
  <2> QED
    BY ONLY RoutesInv, <1>1, <1>2, <1>4, <2>2, KeyEntersSafe
<1> QED
  BY <1>3, <1>4 DEF KeySaved, Reopens

\* RoutesInv is kept by CancelSetup.
LEMMA CancelSetupSafe ==
  ASSUME RoutesInv, CancelSetup
  PROVE  RoutesInv'
<1>1. /\ "setup" \in app.views /\ app.token = "setup" /\ Free /\ Rests("op") /\ left' \in Lefts
      /\ app' = ShowKey(CancelPending(app)) /\ UNCHANGED task
  BY StandsIs, SpendIs DEF CancelSetup, Tasks
<1> QED
  BY ONLY RoutesInv, <1>1, SetupCancelledSafe

\* RoutesInv is kept by ConfirmSetup.
LEMMA ConfirmSetupSafe ==
  ASSUME RoutesInv, ConfirmSetup
  PROVE  RoutesInv'
<1>1. "setup" \in app.views /\ app.token = "setup"
  BY DEF ConfirmSetup
<1>2. CASE app.linux /\ Begins("setup", "prefs", app, {"setup"})
  <2>1. {"setup"} \cup {"seal"} = {"seal", "setup"} /\ "setup" \in Kinds /\ "prefs" \in Pcs
    BY DEF Kinds, Pcs
  <2>2. /\ Free /\ Rests("op") /\ left' \in Lefts
        /\ app' = Capture(app, "op", {"seal", "setup"}) /\ MovesTo("op", "setup", "prefs")
    BY ONLY RoutesInv, <1>2, <2>1, BeginsIs
  <2> QED
    BY ONLY RoutesInv, <1>1, <1>2, <2>2, SetupBeginsSafe
<1>3. CASE ~app.linux /\ BeginsOr("setup", "hash", app, {"setup", "auth"}, ShowKey(app))
  <2>1. /\ {"setup", "auth"} \cup {"seal"} = {"auth", "seal", "setup"}
        /\ "setup" \in Kinds /\ "hash" \in Pcs
    BY DEF Kinds, Pcs
  <2>2. /\ Free /\ Rests("op") /\ left' \in Lefts
        /\ \/ Busy /\ app' = ShowKey(app) /\ UNCHANGED task
           \/ /\ ~Busy /\ app' = Capture(app, "op", {"auth", "seal", "setup"})
              /\ MovesTo("op", "setup", "hash")
    BY ONLY RoutesInv, <1>3, <2>1, BeginsOrIs
  <2> QED
    BY ONLY RoutesInv, <1>1, <1>3, <2>2, KeyAgainSafe, HashBeginsSafe
<1> QED
  BY <1>2, <1>3 DEF ConfirmSetup

\* Enter with the first-run step: the step is shown, at once or after its
\* stored answer is read.
LEMMA EnterStepIs ==
  ASSUME RoutesInv, NEW a \in Apps, NEW k, Enter(a, TRUE, k),
         NEW free, free <=> (Onboarding(a) /\ ~a.suspending /\ ~a.background /\ ~a.closing /\ a.open)
  PROVE  \/ ~free /\ app' = Forget(ActivateStep(a), "op") /\ MovesTo("op", "none", "idle")
         \/ free /\ app' = Forget(ShowStep(ActivateStep(a)), "op") /\ MovesTo("op", "none", "idle")
         \/ /\ free /\ app' = Capture(Forget(ActivateStep(a), "op"), "op", {"epoch", "seal"})
            /\ MovesTo("op", "resume", "prefs")
<1> DEFINE b == ActivateStep(a)
<1>1. ResumeSetup(b)
  BY DEF Enter
<1>2. /\ b.session /\ b.onboarding = a.onboarding /\ b.handled = a.handled
      /\ b.suspending = a.suspending /\ b.background = a.background /\ b.closing = a.closing
      /\ b.open = a.open
  BY ActivateStepIs DEF Kept
<1> HIDE DEF b
<1>3. \/ ~free /\ Ends("op", b)
      \/ free /\ Ends("op", ShowStep(b))
      \/ free /\ Sets("op", Capture(Forget(b, "op"), "op", {"epoch", "seal"}), "resume", "prefs")
  BY <1>1, <1>2 DEF ResumeSetup, Onboarding
<1>4. "op" \in Tasks /\ "resume" \in Kinds /\ "prefs" \in Pcs
  BY DEF Tasks, Kinds, Pcs
<1> QED
  BY <1>3, <1>4, StandsIs, EndsIs, SetsIs DEF b

\* SetupRefused: back to the key, unless the screen of the setup is gone.
LEMMA SetupRefusedIs ==
  ASSUME RoutesInv, NEW a, SetupRefused(a)
  PROVE  /\ MovesTo("op", "none", "idle")
         /\ \/ Still(a, "op", "setup") /\ app' = Forget(ShowKey(CancelPending(a)), "op")
            \/ ~Still(a, "op", "setup") /\ app' = Forget(CancelPending(a), "op")
  BY StandsIs, EndsIs DEF SetupRefused, Tasks

\* RoutesInv is kept by SetupPrefs.
LEMMA SetupPrefsSafe ==
  ASSUME RoutesInv, SetupPrefs
  PROVE  RoutesInv'
<1>1. Op("setup", {"prefs"}) /\ left' \in Lefts
  BY StandsIs, AnswersIs DEF SetupPrefs, Op, Tasks, Kinds, Pcs
<1>2. Still(Onboards(app), "op", "setup") <=> Still(app, "op", "setup")
  BY StandsIs, OnboardsIs
<1>3. CASE Ends("op", app)
  <2>1. app' = Forget(app, "op") /\ MovesTo("op", "none", "idle")
    BY <1>3, StandsIs, EndsIs DEF Tasks
  <2> QED
    BY ONLY RoutesInv, <1>1, <2>1, OpEndsSafe
<1>4. CASE IF ~Still(Onboards(app), "op", "setup") THEN Ends("op", Onboards(app))
           ELSE IF Busy THEN Ends("op", ShowKey(Onboards(app)))
           ELSE Sets("op", Capture(Onboards(app), "op", {"auth"}), "setup", "hash")
  <2>1. \/ /\ ~Still(app, "op", "setup") /\ app' = Forget(Onboards(app), "op")
           /\ MovesTo("op", "none", "idle")
        \/ /\ Still(app, "op", "setup") /\ Busy /\ app' = Forget(ShowKey(Onboards(app)), "op")
           /\ MovesTo("op", "none", "idle")
        \/ /\ Still(app, "op", "setup") /\ ~Busy /\ app' = Capture(Onboards(app), "op", {"auth"})
           /\ MovesTo("op", "setup", "hash")
    BY <1>2, <1>4, StandsIs, EndsIs, SetsIs DEF Tasks, Kinds, Pcs
  <2> QED
    BY ONLY RoutesInv, <1>1, <2>1, PrefsAloneSafe, PrefsBusySafe, HashNextSafe
<1> QED
  BY <1>3, <1>4 DEF SetupPrefs, Onboards

\* RoutesInv is kept by SetupHashed.
LEMMA SetupHashedSafe ==
  ASSUME RoutesInv, SetupHashed
  PROVE  RoutesInv'
<1>1. Op("setup", {"hash"}) /\ left' \in Lefts
  BY StandsIs, AnswersIs DEF SetupHashed, Op, Tasks, Kinds, Pcs
<1>2. \/ /\ app.pending /\ Still(app, "op", "auth") /\ app' = app
         /\ MovesTo("op", "setup", "store")
      \/ SetupRefused(app)
  BY StandsIs, SetsIs DEF SetupHashed, Tasks, Kinds, Pcs
<1> QED
  BY ONLY RoutesInv, <1>1, <1>2, SetupRefusedIs, StoreNextSafe, SetupFailsSafe, PendingDroppedSafe

\* RoutesInv is kept by SetupStored.
LEMMA SetupStoredSafe ==
  ASSUME RoutesInv, SetupStored
  PROVE  RoutesInv'
<1>1. Op("setup", {"store"}) /\ left' \in Lefts
  BY StandsIs, AnswersIs DEF SetupStored, Op, Tasks, Kinds, Pcs
<1>2. \A x : Still(Registers(app), "op", x) <=> Still(app, "op", x)
  BY StandsIs, RegistersIs
<1>3. \/ SetupRefused(app)
      \/ /\ Still(Registers(app), "op", "auth") /\ Sets("op", Registers(app), "setup", "unlock")
      \/ ~Still(Registers(app), "op", "auth") /\ SetupRefused(Registers(app))
  BY DEF SetupStored, Registers
<1>4. Sets("op", Registers(app), "setup", "unlock") =>
        app' = Registers(app) /\ MovesTo("op", "setup", "unlock")
  BY StandsIs, SetsIs DEF Tasks, Kinds, Pcs
<1> QED
  BY ONLY RoutesInv, <1>1, <1>2, <1>3, <1>4, SetupRefusedIs, UnlockNextSafe, SetupFailsSafe,
     PendingDroppedSafe, StoredLateSafe, StoredLateAloneSafe

\* RoutesInv is kept by SetupUnlocked.
LEMMA SetupUnlockedSafe ==
  ASSUME RoutesInv, SetupUnlocked
  PROVE  RoutesInv'
<1>1. Op("setup", {"unlock"}) /\ left' \in Lefts
  BY StandsIs, AnswersIs DEF SetupUnlocked, Op, Tasks, Kinds, Pcs
<1>2. CASE SetupRefused(app)
  BY ONLY RoutesInv, <1>1, <1>2, SetupRefusedIs, SetupFailsSafe, PendingDroppedSafe
<1>3. CASE ~Still(app, "op", "auth") /\ SetupRefused(LockAccess(app))
  <2>1. Still(LockAccess(app), "op", "setup") <=> Still(app, "op", "setup")
    BY StandsIs, LockAccessIs
  <2> QED
    BY ONLY RoutesInv, <1>1, <1>3, <2>1, SetupRefusedIs, UnlockedLateSafe, UnlockedLateAloneSafe
<1>4. CASE /\ Still(app, "op", "auth")
           /\ IF Still(Opens(CancelPending(app)), "op", "setup")
              THEN Enter(Opens(CancelPending(app)), app.linux, "setup")
              ELSE Ends("op", Opens(CancelPending(app)))
  <2> DEFINE a == CancelPending(app)
             b == Opens(a)
  <2>1. Still(app, "op", "setup") /\ ~app.suspending /\ ~app.background /\ ~app.closing
    BY <1>1, <1>4 DEF RoutesInv, OpAuth, Op, In, Pcs, HeldViews, Holders, Tasks, Views, Sealed,
       Sealing, OpFront
  <2>2. (app.linux => app.onboarding) /\ ~app.handled
    BY <1>1 DEF RoutesInv, FirstRun, Op, In
  <2>3. a \in Apps /\ Kept(a, app, {"pending"}) /\ (Still(a, "op", "setup") <=> Still(app, "op", "setup"))
    BY StandsIs, CancelPendingIs
  <2> HIDE DEF a
  <2>4. b \in Apps /\ Kept(b, a, {"open"}) /\ b.open = TRUE /\ (Still(b, "op", "setup") <=> Still(a, "op", "setup"))
    BY <2>3, OpensIs
  <2> HIDE DEF b
  <2>5. app.linux => /\ Onboarding(b) /\ ~b.suspending /\ ~b.background /\ ~b.closing /\ b.open
    BY <2>1, <2>2, <2>3, <2>4 DEF Kept, Onboarding
  <2>6. IF app.linux THEN Enter(b, TRUE, "setup") ELSE Enter(b, FALSE, "setup")
    BY <1>4, <2>1, <2>3, <2>4 DEF a, b, Enter
  <2>7. CASE app.linux
    <3>1. \/ app' = Forget(ShowStep(ActivateStep(b)), "op") /\ MovesTo("op", "none", "idle")
          \/ /\ app' = Capture(Forget(ActivateStep(b), "op"), "op", {"epoch", "seal"})
             /\ MovesTo("op", "resume", "prefs")
      BY <2>4, <2>5, <2>6, <2>7, EnterStepIs
    <3> QED
      BY ONLY RoutesInv, <1>1, <1>4, <2>1, <2>7, <3>1, SetupEntersStepSafe, SetupEntersStoredSafe DEF a, b
  <2>8. CASE ~app.linux
    <3>1. /\ app' = Capture(Moved(ActivatePresent(b), "workspace"), "op", {"gen", "workspace"})
          /\ MovesTo("op", "setup", "show")
      BY <2>4, <2>6, <2>8, EnterIs DEF Kinds
    <3> QED
      BY ONLY RoutesInv, <1>1, <1>4, <2>1, <2>8, <3>1, SetupEntersSafe DEF a, b
  <2> QED
    BY <2>7, <2>8
<1> QED
  BY <1>2, <1>3, <1>4 DEF SetupUnlocked, Opens

\* RoutesInv is kept by SubmitPin.
LEMMA SubmitPinSafe ==
  ASSUME RoutesInv, SubmitPin
  PROVE  RoutesInv'
<1>1. "pin" \in app.views /\ (Onboarding(app) \/ ~Onboarding(app))
  BY DEF SubmitPin
<1>2. /\ {"pin"} \cup {"seal"} = {"pin", "seal"} /\ "login" \in Kinds
      /\ "verify" \in Pcs /\ "verify_step" \in Pcs
  BY DEF Kinds, Pcs
<1>3. CASE Onboarding(app) /\ BeginsOr("login", "verify_step", app, {"pin"}, app)
  <2>1. /\ Free /\ Rests("op") /\ left' \in Lefts
        /\ \/ Busy /\ app' = app /\ UNCHANGED task
           \/ ~Busy /\ app' = Capture(app, "op", {"pin", "seal"}) /\ MovesTo("op", "login", "verify_step")
    BY ONLY RoutesInv, <1>2, <1>3, BeginsOrIs
  <2> QED
    BY ONLY RoutesInv, <1>1, <1>3, <2>1, NothingSafe, LoginBeginsStepSafe
<1>4. CASE ~Onboarding(app) /\ BeginsOr("login", "verify", app, {"pin"}, app)
  <2>1. /\ Free /\ Rests("op") /\ left' \in Lefts
        /\ \/ Busy /\ app' = app /\ UNCHANGED task
           \/ ~Busy /\ app' = Capture(app, "op", {"pin", "seal"}) /\ MovesTo("op", "login", "verify")
    BY ONLY RoutesInv, <1>2, <1>4, BeginsOrIs
  <2> QED
    BY ONLY RoutesInv, <1>1, <1>4, <2>1, NothingSafe, LoginBeginsSafe
<1> QED
  BY <1>3, <1>4 DEF SubmitPin

\* A login suspended in one of two awaits is in the one or the other.
LEMMA LoginAt ==
  ASSUME RoutesInv, NEW p \in Pcs, NEW q \in Pcs, task["op"].kind = "login", task["op"].pc \in {p, q}
  PROVE  Op("login", {p, q}) /\ (Op("login", {p}) \/ Op("login", {q}))
  BY DEF Op, In

\* RoutesInv is kept by LoginVerified.
LEMMA LoginVerifiedSafe ==
  ASSUME RoutesInv, LoginVerified
  PROVE  RoutesInv'
<1>1. left' \in Lefts /\ Op("login", {"verify", "verify_step"})
  BY StandsIs, AnswersIs DEF LoginVerified, Op, In
<1>2. \/ Ends("op", app)
      \/ Op("login", {"verify"}) /\ Sets("op", Capture(app, "op", {"auth"}), "login", "unlock")
      \/ Op("login", {"verify_step"}) /\ Sets("op", Capture(app, "op", {"auth"}), "login", "unlock_step")
  BY DEF LoginVerified, Op, In
<1>3. "op" \in Tasks /\ "login" \in Kinds /\ "unlock" \in Pcs /\ "unlock_step" \in Pcs
  BY DEF Tasks, Kinds, Pcs
<1> QED
  BY ONLY RoutesInv, <1>1, <1>2, <1>3, StandsIs, EndsIs, SetsIs, OpEndsSafe, VerifiedSafe, VerifiedStepSafe

\* RoutesInv is kept by LoginUnlocked.
LEMMA LoginUnlockedSafe ==
  ASSUME RoutesInv, LoginUnlocked
  PROVE  RoutesInv'
<1>1. left' \in Lefts /\ Op("login", {"unlock", "unlock_step"})
  BY StandsIs, AnswersIs DEF LoginUnlocked, Op, In
<1>2. \/ Ends("op", CancelGrant(Shuts(app)))
      \/ /\ Still(app, "op", "auth")
         /\ Sets("op", OpensLogin(app), "login", IF task["op"].pc = "unlock" THEN "read" ELSE "read_step")
  BY DEF LoginUnlocked, Shuts, OpensLogin
<1>3. "op" \in Tasks /\ "login" \in Kinds /\ "read" \in Pcs /\ "read_step" \in Pcs
  BY DEF Tasks, Kinds, Pcs
<1>4. \/ app' = Forget(CancelGrant(Shuts(app)), "op") /\ MovesTo("op", "none", "idle")
      \/ /\ Still(app, "op", "auth") /\ Op("login", {"unlock"})
         /\ app' = OpensLogin(app) /\ MovesTo("op", "login", "read")
      \/ /\ Still(app, "op", "auth") /\ Op("login", {"unlock_step"})
         /\ app' = OpensLogin(app) /\ MovesTo("op", "login", "read_step")
  BY <1>1, <1>2, <1>3, StandsIs, EndsIs, SetsIs DEF Op, In
<1> QED
  BY ONLY RoutesInv, <1>1, <1>4, LoginFailsSafe, UnlockedSafe, UnlockedStepSafe

\* RoutesInv is kept by LoginRead.
LEMMA LoginReadSafe ==
  ASSUME RoutesInv, LoginRead
  PROVE  RoutesInv'
<1>1. left' \in Lefts /\ Op("login", {"read", "read_step"})
  BY StandsIs, AnswersIs DEF LoginRead, Op, In
<1>2. CASE Ends("op", CancelGrant(Shuts(app))) \/ (~Still(app, "op", "pin") /\ Ends("op", app))
  <2>1. /\ MovesTo("op", "none", "idle")
        /\ \/ app' = Forget(CancelGrant(Shuts(app)), "op")
           \/ ~Still(app, "op", "pin") /\ app' = Forget(app, "op")
    BY <1>2, StandsIs, EndsIs DEF Tasks
  <2> QED
    BY ONLY RoutesInv, <1>1, <2>1, LoginFailsSafe, OpEndsSafe
<1>3. CASE Still(app, "op", "pin") /\ Op("login", {"read"}) /\ Enter(app, FALSE, "login")
  <2>1. /\ app' = Capture(Moved(ActivatePresent(app), "workspace"), "op", {"gen", "workspace"})
        /\ MovesTo("op", "login", "show")
    BY <1>3, StandsIs, EnterIs DEF Kinds
  <2> QED
    BY ONLY RoutesInv, <1>1, <1>3, <2>1, LoginEntersSafe
<1>4. CASE Still(app, "op", "pin") /\ Op("login", {"read_step"}) /\ Enter(app, TRUE, "login")
  <2>1. Onboarding(app) /\ ~app.suspending /\ ~app.background /\ ~app.closing
    BY <1>4 DEF RoutesInv, FirstRun, Sealed, Sealing, OpFront, Views, Op, In
  <2>2. app.open <=> Onboarding(app) /\ ~app.suspending /\ ~app.background /\ ~app.closing /\ app.open
    BY <2>1
  <2>3. \/ ~app.open /\ app' = Forget(ActivateStep(app), "op") /\ MovesTo("op", "none", "idle")
        \/ app.open /\ app' = Forget(ShowStep(ActivateStep(app)), "op") /\ MovesTo("op", "none", "idle")
        \/ /\ app.open /\ app' = Capture(Forget(ActivateStep(app), "op"), "op", {"epoch", "seal"})
           /\ MovesTo("op", "resume", "prefs")
    BY <1>4, <2>2, StandsIs, EnterStepIs
  <2> QED
    BY ONLY RoutesInv, <1>1, <1>4, <2>3, LoginEntersClosedSafe, LoginEntersStepSafe, LoginEntersStoredSafe
<1>5. Still(app, "op", "pin") /\ Enter(app, task["op"].pc = "read_step", "login") =>
        \/ Op("login", {"read"}) /\ Enter(app, FALSE, "login")
        \/ Op("login", {"read_step"}) /\ Enter(app, TRUE, "login")
  BY <1>1 DEF Op, In, Enter
<1> QED
  BY <1>2, <1>3, <1>4, <1>5 DEF LoginRead, Shuts

\* RoutesInv is kept by ResumeStored.
LEMMA ResumeStoredSafe ==
  ASSUME RoutesInv, ResumeStored
  PROVE  RoutesInv'
<1>1. Op("resume", {"prefs"}) /\ left' \in Lefts
  BY StandsIs, AnswersIs DEF ResumeStored, Op, Tasks, Kinds, Pcs
<1> DEFINE b == Onboarded(app)
<1>2. /\ Still(b, "op", "epoch") <=> Still(app, "op", "epoch")
      /\ b.session = app.session /\ b.open = app.open
  BY StandsIs, OnboardedIs DEF Kept
<1>3. \/ Ends("op", IF Still(app, "op", "epoch") /\ app.session /\ app.open THEN ShowStep(app) ELSE app)
      \/ Ends("op", IF Still(b, "op", "epoch") /\ b.session /\ b.open THEN ShowStep(b) ELSE b)
  BY DEF ResumeStored, Onboarded
<1> HIDE DEF b
<1>4. /\ MovesTo("op", "none", "idle")
      /\ \/ Still(app, "op", "epoch") /\ app.session /\ app.open /\ app' = Forget(ShowStep(app), "op")
         \/ ~(Still(app, "op", "epoch") /\ app.session /\ app.open) /\ app' = Forget(app, "op")
         \/ Still(app, "op", "epoch") /\ app.session /\ app.open /\ app' = Forget(ShowStep(b), "op")
         \/ ~(Still(app, "op", "epoch") /\ app.session /\ app.open) /\ app' = Forget(b, "op")
  BY <1>2, <1>3, StandsIs, EndsIs DEF Tasks
<1> QED
  BY ONLY RoutesInv, <1>1, <1>4, StepShownSafe, StepShownSavedSafe, OpEndsSafe, OnboardedAloneSafe DEF b

\* The end of the first-run step: the chats are presented, or its screen is
\* gone.
LEMMA ContinuesIs ==
  ASSUME RoutesInv, NEW b \in Apps, \A x : Still(b, "op", x) <=> Still(app, "op", x),
         b.session = app.session, b.security = app.security,
         IF Still(b, "op", "epoch") /\ Still(b, "op", "step") /\ Opened
         THEN Present("op", Handles(Drop(b, {"step"})), "cont") ELSE Ends("op", b)
  PROVE  \/ /\ Still(app, "op", "epoch") /\ Still(app, "op", "step") /\ Opened
            /\ app' = Capture(Moved(Handles(Drop(b, {"step"})), "workspace"), "op", {"gen", "workspace"})
            /\ MovesTo("op", "cont", "show")
         \/ /\ ~(Still(app, "op", "epoch") /\ Still(app, "op", "step") /\ Opened)
            /\ app' = Forget(b, "op") /\ MovesTo("op", "none", "idle")
<1> DEFINE c == Drop(b, {"step"})
           d == Handles(c)
<1>1. c \in Apps /\ c.session = b.session /\ c.security = b.security
  BY DropIs DEF Kept
<1> HIDE DEF c
<1>2. d \in Apps /\ d.session = c.session /\ d.security = c.security /\ d.deferred = FALSE
  BY <1>1, HandlesIs DEF Kept
<1> HIDE DEF d
<1>3. "op" \in Tasks /\ "cont" \in Kinds
  BY DEF Tasks, Kinds
<1>4. CASE Still(b, "op", "epoch") /\ Still(b, "op", "step") /\ Opened
  <2>1. app.session /\ ~app.security
    BY <1>4 DEF RoutesInv, HeldViews, Holders, Tasks, Views, SessionViews, SessionFlags
  <2> QED
    BY <1>1, <1>2, <1>3, <1>4, <2>1, StandsIs, PresentIs DEF c, d
<1>5. CASE ~(Still(b, "op", "epoch") /\ Still(b, "op", "step") /\ Opened)
  BY <1>3, <1>5, StandsIs, EndsIs
<1> QED
  BY <1>4, <1>5

\* RoutesInv is kept by ContinueStored.
LEMMA ContinueStoredSafe ==
  ASSUME RoutesInv, ContinueStored
  PROVE  RoutesInv'
<1>1. Op("cont", {"prefs"}) /\ left' \in Lefts
  BY StandsIs, AnswersIs DEF ContinueStored, Op, Tasks, Kinds, Pcs
<1>2. PICK saved \in BOOLEAN :
        LET a == [app EXCEPT !.onboarding = @ /\ ~saved] IN
        IF Still(a, "op", "epoch") /\ Still(a, "op", "step") /\ Opened
        THEN Present("op", [Drop(a, {"step"}) EXCEPT !.handled = TRUE, !.deferred = FALSE], "cont")
        ELSE Ends("op", a)
  BY DEF ContinueStored
<1> DEFINE v == app.onboarding /\ ~saved
           a == [app EXCEPT !.onboarding = v]
           Goes(b) == IF Still(b, "op", "epoch") /\ Still(b, "op", "step") /\ Opened
                      THEN Present("op", Handles(Drop(b, {"step"})), "cont")
                      ELSE Ends("op", b)
<1>3. Goes(a)
  BY <1>2 DEF Handles
<1>4. CASE saved = TRUE
  <2>1. v = FALSE
    BY <1>4
  <2>2. a = Onboarded(app)
    BY <2>1, Zenon DEF Onboarded
  <2>3. Goes(Onboarded(app))
    BY <1>3, <2>2
  <2>4. /\ Onboarded(app) \in Apps /\ \A x : Still(Onboarded(app), "op", x) <=> Still(app, "op", x)
        /\ Onboarded(app).session = app.session /\ Onboarded(app).security = app.security
    BY StandsIs, OnboardedIs DEF Kept
  <2> QED
    BY ONLY RoutesInv, <1>1, <2>3, <2>4, ContinuesIs, StepLeftSavedSafe, OnboardedAloneSafe
<1>5. CASE saved = FALSE
  <2>1. v = app.onboarding
    BY <1>5, StandsIs DEF Apps
  <2> HIDE DEF v
  <2>2. a = app
    BY <2>1, StandsIs DEF Apps
  <2>3. Goes(app)
    BY <1>3, <2>2
  <2> QED
    BY ONLY RoutesInv, <1>1, <2>3, StandsIs, ContinuesIs, StepLeftSafe, OpEndsSafe
<1> QED
  BY <1>4, <1>5

\* RoutesInv is kept by EntryAnswer.
LEMMA EntryAnswerSafe ==
  ASSUME RoutesInv, EntryAnswer
  PROVE  RoutesInv'
<1>1. task["op"].kind \in {"entry", "newpin"} /\ task["op"].pc = "ask" /\ left' \in Lefts
  BY StandsIs, AnswersIs DEF EntryAnswer
<1>2. \/ Ends("op", IF Still(app, "op", "epoch") THEN ShowEntry(app) ELSE app)
      \/ Ends("op", IF Still(app, "op", "epoch") THEN EntryFailed(app) ELSE app)
  BY DEF EntryAnswer
<1>3. /\ MovesTo("op", "none", "idle")
      /\ \/ Still(app, "op", "epoch") /\ app' = Forget(ShowEntry(app), "op")
         \/ Still(app, "op", "epoch") /\ app' = Forget(EntryFailed(app), "op")
         \/ ~Still(app, "op", "epoch") /\ app' = Forget(app, "op")
  BY <1>2, StandsIs, EndsIs DEF Tasks
<1> QED
  BY ONLY RoutesInv, <1>1, <1>3, EntryShownSafe, EntryErrsSafe, OpEndsSafe

\* RoutesInv is kept by CodeAnswer.
LEMMA CodeAnswerSafe ==
  ASSUME RoutesInv, CodeAnswer
  PROVE  RoutesInv'
<1>1. Op("code", {"check"}) /\ left' \in Lefts
  BY StandsIs, AnswersIs DEF CodeAnswer, Op, Tasks, Kinds, Pcs
<1>2. Still(app, "op", "auth") => Still(app, "op", "epoch") /\ Still(app, "op", "entry")
  BY <1>1 DEF RoutesInv, OpAuth, Op, In, Pcs
<1>3. \/ Ends("op", app)
      \/ Ends("op", IF ~Still(app, "op", "auth") THEN app
                    ELSE IF Still(app, "op", "epoch") /\ Still(app, "op", "entry")
                         THEN ShowNewPin(Grants(app), "code") ELSE Grants(app))
  BY DEF CodeAnswer, Grants
<1>4. /\ MovesTo("op", "none", "idle")
      /\ \/ app' = Forget(app, "op")
         \/ Still(app, "op", "auth") /\ app' = Forget(ShowNewPin(Grants(app), "code"), "op")
  BY <1>2, <1>3, StandsIs, EndsIs DEF Tasks
<1> QED
  BY ONLY RoutesInv, <1>1, <1>2, <1>4, OpEndsSafe, CodeGrantsSafe

\* RoutesInv is kept by RequestSystemRecovery.
LEMMA RequestSystemRecoverySafe ==
  ASSUME RoutesInv, RequestSystemRecovery
  PROVE  RoutesInv'
<1>1. ("pin" \in app.views \/ "entry" \in app.views) \/ "sysrec" \in app.views
  BY DEF RequestSystemRecovery
<1>2. CASE app.linux /\ "sysrec" \notin app.views
  <2>1. Free /\ Rests("op") /\ left' \in Lefts /\ app' = ShowRecovery(app) /\ UNCHANGED task
    BY <1>2, StandsIs, SpendIs DEF RequestSystemRecovery, Tasks
  <2> QED
    BY ONLY RoutesInv, <1>1, <1>2, <2>1, ExplainedSafe
<1>3. CASE ~(app.linux /\ "sysrec" \notin app.views)
  <2> DEFINE a == ShowRecovery(Moved(app, "epoch"))
  <2>1. BeginsOr("sysrec", "prepare", CancelGrant(a), {"epoch", "sysrec", "auth"}, a)
    BY <1>3 DEF RequestSystemRecovery
  <2> HIDE DEF a
  <2>2. /\ {"epoch", "sysrec", "auth"} \cup {"seal"} = {"auth", "epoch", "seal", "sysrec"}
        /\ "sysrec" \in Kinds /\ "prepare" \in Pcs
    BY DEF Kinds, Pcs
  <2>3. /\ Free /\ Rests("op") /\ left' \in Lefts
        /\ \/ Busy /\ app' = a /\ UNCHANGED task
           \/ /\ ~Busy /\ app' = Capture(CancelGrant(a), "op", {"auth", "epoch", "seal", "sysrec"})
              /\ MovesTo("op", "sysrec", "prepare")
    BY ONLY RoutesInv, <2>1, <2>2, BeginsOrIs
  <2> QED
    BY ONLY RoutesInv, <1>1, <1>3, <2>3, PromptBusySafe, PromptBeginsSafe DEF a
<1> QED
  BY <1>2, <1>3

\* RoutesInv is kept by PromptShown.
LEMMA PromptShownSafe ==
  ASSUME RoutesInv, PromptShown
  PROVE  RoutesInv'
<1>1. Op("sysrec", {"prepare"}) /\ left' \in Lefts
  BY StandsIs, AnswersIs DEF PromptShown, Op, Tasks, Kinds, Pcs
<1>2. IF Still(app, "op", "auth") THEN Sets("op", PromptUp(app), "sysrec", "prompt") ELSE Ends("op", app)
  BY DEF PromptShown, PromptUp
<1>3. \/ /\ Still(app, "op", "auth") /\ app' = PromptUp(app) /\ MovesTo("op", "sysrec", "prompt")
      \/ /\ ~Still(app, "op", "auth") /\ app' = Forget(app, "op") /\ MovesTo("op", "none", "idle")
  BY <1>2, StandsIs, EndsIs, SetsIs DEF Tasks, Kinds, Pcs
<1> QED
  BY ONLY RoutesInv, <1>1, <1>3, PromptNextSafe, OpEndsSafe

\* RoutesInv is kept by PromptConfirmed.
LEMMA PromptConfirmedSafe ==
  ASSUME RoutesInv, PromptConfirmed
  PROVE  RoutesInv'
<1>1. Op("sysrec", {"prompt"}) /\ left' \in Lefts /\ app.prompt = "shown"
  BY StandsIs DEF PromptConfirmed, Op, Tasks, Kinds, Pcs
<1>2. Still(app, "op", "auth") => Still(app, "op", "epoch") /\ Still(app, "op", "sysrec")
  BY <1>1 DEF RoutesInv, OpAuth, Op, In, Pcs
<1>3. Ends("op", IF ~Still(app, "op", "auth") THEN PromptDown(app)
                 ELSE IF Still(app, "op", "epoch") /\ Still(app, "op", "sysrec")
                      THEN ShowNewPin(PromptGives(app), "system") ELSE PromptGives(app))
  BY DEF PromptConfirmed, PromptDown, PromptGives
<1>4. /\ MovesTo("op", "none", "idle")
      /\ \/ ~Still(app, "op", "auth") /\ app' = Forget(PromptDown(app), "op")
         \/ Still(app, "op", "auth") /\ app' = Forget(ShowNewPin(PromptGives(app), "system"), "op")
  BY <1>2, <1>3, StandsIs, EndsIs DEF Tasks
<1> QED
  BY ONLY RoutesInv, <1>1, <1>2, <1>4, PromptOverSafe, PromptGrantsSafe

\* RoutesInv is kept by PromptRefused.
LEMMA PromptRefusedSafe ==
  ASSUME RoutesInv, PromptRefused \/ PromptCancelled
  PROVE  RoutesInv'
<1>1. /\ Op("sysrec", {"prompt"}) /\ left' \in Lefts
      /\ app.prompt = "shown" \/ app.prompt = "cancelled"
  BY StandsIs DEF PromptRefused, PromptCancelled, Op, Tasks, Kinds, Pcs
<1>2. Ends("op", PromptDown(app))
  BY DEF PromptRefused, PromptCancelled, PromptDown
<1>3. app' = Forget(PromptDown(app), "op") /\ MovesTo("op", "none", "idle")
  BY <1>2, StandsIs, EndsIs DEF Tasks
<1> QED
  BY ONLY RoutesInv, <1>1, <1>3, PromptOverSafe

\* RoutesInv is kept by CancelRecovery.
LEMMA CancelRecoverySafe ==
  ASSUME RoutesInv, CancelRecovery
  PROVE  RoutesInv'
<1>1. /\ ("sysrec" \in app.views \/ "entry" \in app.views) \/ app.token = "recovery"
      /\ app.token = "recovery" => Rests("op")
      /\ left' \in Lefts /\ app' = CancelNative(ShowPin(LockAccess(Moved(app, "epoch")))) /\ UNCHANGED task
  BY StandsIs, SpendIs DEF CancelRecovery, Tasks
<1> QED
  BY ONLY RoutesInv, <1>1, RecoveryCancelledSafe

\* RoutesInv is kept by ConfirmRecovery.
LEMMA ConfirmRecoverySafe ==
  ASSUME RoutesInv, ConfirmRecovery
  PROVE  RoutesInv'
<1> DEFINE b == IF app.source = "code" THEN EntryFailed(app) ELSE ShowRecovery(app)
<1>1. /\ "setup" \in app.views /\ app.token = "recovery"
      /\ BeginsOr("newpin", "replace", app, {"epoch", "setup", "auth"}, b)
  BY DEF ConfirmRecovery
<1>2. /\ {"epoch", "setup", "auth"} \cup {"seal"} = {"auth", "epoch", "seal", "setup"}
      /\ "newpin" \in Kinds /\ "replace" \in Pcs
  BY DEF Kinds, Pcs
<1> HIDE DEF b
<1>3. /\ Free /\ Rests("op") /\ left' \in Lefts
      /\ \/ Busy /\ app' = b /\ UNCHANGED task
         \/ /\ ~Busy /\ app' = Capture(app, "op", {"auth", "epoch", "seal", "setup"})
            /\ MovesTo("op", "newpin", "replace")
  BY ONLY RoutesInv, <1>1, <1>2, BeginsOrIs
<1>4. app.source = "code" => b = EntryFailed(app)
  BY ONLY DEF b
<1>5. ~(app.source = "code") => b = ShowRecovery(app)
  BY ONLY DEF b
<1> QED
  BY ONLY RoutesInv, <1>1, <1>3, <1>4, <1>5, NewPinBusyCodeSafe, NewPinBusySafe, NewPinBeginsSafe

\* RoutesInv, where the new PIN of a recovery is refused.
LEMMA RecoveryRefusedSafe ==
  ASSUME RoutesInv, left' \in Lefts, Op("newpin", {"replace"}) \/ Op("newpin", {"read"}),
         RecoveryRefused(LockAccess(app))
  PROVE  RoutesInv'
<1> DEFINE a == LockAccess(app)
           kept == Still(app, "op", "epoch") /\ Still(app, "op", "setup")
<1>1. /\ a.source = app.source
      /\ (Still(a, "op", "epoch") <=> Still(app, "op", "epoch"))
      /\ (Still(a, "op", "setup") <=> Still(app, "op", "setup"))
  BY StandsIs, LockAccessIs DEF Kept
<1>2. RecoveryRefused(a)
  OBVIOUS
<1> HIDE DEF a
<1>3. \/ ~kept /\ app' = Forget(a, "op") /\ MovesTo("op", "none", "idle")
      \/ kept /\ app.source = "code" /\ app' = a /\ MovesTo("op", "newpin", "ask")
      \/ kept /\ ~(app.source = "code") /\ app' = Forget(ShowRecovery(a), "op") /\ MovesTo("op", "none", "idle")
  BY <1>1, <1>2, StandsIs, EndsIs, SetsIs DEF RecoveryRefused, Tasks, Kinds, Pcs
<1> QED
  BY ONLY RoutesInv, left' \in Lefts, Op("newpin", {"replace"}) \/ Op("newpin", {"read"}), <1>3,
     NewPinFailsAloneSafe, NewPinAsksSafe, NewPinFailsSafe DEF a

\* RoutesInv is kept by PinReplaced.
LEMMA PinReplacedSafe ==
  ASSUME RoutesInv, PinReplaced
  PROVE  RoutesInv'
<1>1. Op("newpin", {"replace"}) /\ left' \in Lefts
  BY StandsIs, AnswersIs DEF PinReplaced, Op, Tasks, Kinds, Pcs
<1>2. \/ RecoveryRefused(LockAccess(app))
      \/ Still(app, "op", "auth") /\ app.grant /\ Sets("op", GrantUsed(app), "newpin", "read")
  BY DEF PinReplaced, GrantUsed
<1>3. Sets("op", GrantUsed(app), "newpin", "read") => app' = GrantUsed(app) /\ MovesTo("op", "newpin", "read")
  BY StandsIs, SetsIs DEF Tasks, Kinds, Pcs
<1> QED
  BY ONLY RoutesInv, <1>1, <1>2, <1>3, RecoveryRefusedSafe, NewPinReadsSafe

\* RoutesInv is kept by RecoveryRead.
LEMMA RecoveryReadSafe ==
  ASSUME RoutesInv, RecoveryRead
  PROVE  RoutesInv'
<1>1. Op("newpin", {"read"}) /\ left' \in Lefts
  BY StandsIs, AnswersIs DEF RecoveryRead, Op, Tasks, Kinds, Pcs
<1>2. Still(app, "op", "auth") => Still(app, "op", "epoch") /\ Still(app, "op", "setup")
  BY <1>1 DEF RoutesInv, OpAuth, Op, In, Pcs
<1>3. \/ RecoveryRefused(LockAccess(app))
      \/ Still(app, "op", "auth") /\ Enter(app, FALSE, "newpin")
  BY <1>2 DEF RecoveryRead
<1>4. Enter(app, FALSE, "newpin") =>
        /\ app' = Capture(Moved(ActivatePresent(app), "workspace"), "op", {"gen", "workspace"})
        /\ MovesTo("op", "newpin", "show")
  BY StandsIs, EnterIs DEF Kinds
<1> QED
  BY ONLY RoutesInv, <1>1, <1>2, <1>3, <1>4, RecoveryRefusedSafe, NewPinEntersSafe

\* Offer: the coroutine flushes the chats for the offer of a code, or ends.
LEMMA OfferIs ==
  ASSUME task \in Taskings, NEW a, NEW k \in Kinds, NEW from \in Tasks, NEW to \in Tasks,
         Offer(from, to, a, k),
         NEW goes, goes <=> /\ a.linux /\ ~a.closing /\ ~a.suspending /\ ~a.background
                            /\ a.session /\ a.chats /\ ~a.security
  PROVE  \/ ~goes /\ app' = Forget(a, from) /\ MovesTo(from, "none", "idle")
         \/ /\ goes /\ app' = Capture(Moved(Secures(a), "workspace"), to, {"epoch", "gen"})
            /\ from = to => MovesTo(to, k, "flush")
            /\ from # to => MovesBoth(from, "none", "idle", to, k, "flush")
<1>1. CASE ~goes
  BY <1>1, EndsIs DEF Offer
<1>2. CASE goes
  <2>1. /\ app' = Capture(Moved(Secures(a), "workspace"), to, {"epoch", "gen"})
        /\ task' = [task EXCEPT ![from] = Idle, ![to] = [kind |-> k, pc |-> "flush"]]
    BY <1>2 DEF Offer, Secures
  <2>2. "none" \in Kinds /\ "idle" \in Pcs /\ "flush" \in Pcs
    BY DEF Kinds, Pcs
  <2>3. CASE from = to
    BY <1>2, <2>1, <2>2, <2>3 DEF MovesTo, Taskings
  <2>4. CASE from # to
    BY <1>2, <2>1, <2>2, <2>4, GoBothIs DEF Idle
  <2> QED
    BY <2>3, <2>4
<1> QED
  BY <1>1, <1>2

\* RoutesInv is kept by RequestCodeSettings.
LEMMA RequestCodeSettingsSafe ==
  ASSUME RoutesInv, RequestCodeSettings
  PROVE  RoutesInv'
<1>1. app.linux /\ ChatFree /\ Free /\ Rests("op") /\ left' \in Lefts
  BY StandsIs, SpendIs DEF RequestCodeSettings, Tasks
<1> DEFINE b == Moved(app, "epoch")
           a == Capture(b, "op", {"seal"})
<1>2. b \in Apps /\ Kept(b, app, {})
  BY StandsIs, MovedIs
<1>3. Offer("op", "op", a, "settings")
  BY DEF RequestCodeSettings
<1> HIDE DEF b
<1>4. "op" \in Tasks /\ "op" \in Holders /\ {"seal"} \in SUBSET Whats /\ "settings" \in Kinds
  BY DEF Tasks, Holders, Whats, Kinds
<1>5. Kept(a, b, {})
  BY <1>2, <1>4, CaptureIs
<1> HIDE DEF a
<1>6. TRUE <=> /\ a.linux /\ ~a.closing /\ ~a.suspending /\ ~a.background
               /\ a.session /\ a.chats /\ ~a.security
  BY <1>1, <1>2, <1>5 DEF Kept, ChatFree, Free
<1>7. /\ app' = Capture(Moved(Secures(a), "workspace"), "op", {"epoch", "gen"})
      /\ MovesTo("op", "settings", "flush")
  BY <1>3, <1>4, <1>6, StandsIs, OfferIs
<1> QED
  BY ONLY RoutesInv, <1>1, <1>7, SettingsBeginSafe DEF a, b

\* RoutesInv is kept by CodeIssued.
LEMMA CodeIssuedSafe ==
  ASSUME RoutesInv, CodeIssued
  PROVE  RoutesInv'
<1>1. Op("begincode", {"check"}) /\ left' \in Lefts
  BY StandsIs, AnswersIs DEF CodeIssued, Op, Tasks, Kinds, Pcs
<1> DEFINE a == Issues(app)
           kept == Still(app, "op", "epoch") /\ Still(app, "op", "codepin")
<1>2. \/ Ends("op", app)
      \/ Ends("op", IF ~(Still(a, "op", "epoch") /\ Still(a, "op", "codepin")) THEN Unissues(a)
                    ELSE IF a.issue THEN ShowCode(a) ELSE a)
  BY DEF CodeIssued, Issues, Unseen, Unissues
<1>3. /\ (Still(a, "op", "epoch") <=> Still(app, "op", "epoch"))
      /\ (Still(a, "op", "codepin") <=> Still(app, "op", "codepin"))
      /\ a.issue <=> (Still(app, "op", "auth") /\ app.open)
  BY StandsIs, IssuesIs
<1> HIDE DEF a
<1>4. /\ MovesTo("op", "none", "idle")
      /\ \/ app' = Forget(app, "op")
         \/ ~kept /\ app' = Forget(Unissues(a), "op")
         \/ kept /\ Still(app, "op", "auth") /\ app.open /\ app' = Forget(ShowCode(a), "op")
         \/ kept /\ ~(Still(app, "op", "auth") /\ app.open) /\ app' = Forget(a, "op")
  BY <1>2, <1>3, StandsIs, EndsIs DEF Tasks
<1> QED
  BY ONLY RoutesInv, <1>1, <1>4, OpEndsSafe, IssueUnseenSafe, IssueShownSafe, IssueLateSafe DEF a

\* Resume: from the security screens back to the chats.
LEMMA ResumeIs ==
  ASSUME task \in Taskings, NEW t \in Tasks, NEW a \in Apps, NEW k \in Kinds, Resume(t, a, k),
         a.session, a.security, ~a.deferred
  PROVE  /\ app' = Capture(Moved(Unsecures(a), "workspace"), t, {"gen", "workspace"})
         /\ MovesTo(t, k, "show")
<1> DEFINE b == Unsecures(a)
<1>1. Present(t, b, k)
  BY DEF Resume, Unsecures
<1>2. b.session /\ ~b.security /\ ~b.deferred
  BY UnsecuresIs DEF Kept
<1> QED
  BY <1>1, <1>2, PresentIs

\* RoutesInv is kept by CodeConfirmed.
LEMMA CodeConfirmedSafe ==
  ASSUME RoutesInv, CodeConfirmed
  PROVE  RoutesInv'
<1>1. Op("confirm", {"check"}) /\ left' \in Lefts
  BY StandsIs, AnswersIs DEF CodeConfirmed, Op, Tasks, Kinds, Pcs
<1> DEFINE a == Consumes(app)
           b == ClearSecret(a)
           ok == Still(app, "op", "auth") /\ app.open /\ app.issue
           kept == Still(app, "op", "epoch") /\ Still(app, "op", "codeshow")
<1>2. \/ Ends("op", app)
      \/ IF ok /\ Still(a, "op", "epoch") /\ Still(a, "op", "codeshow") THEN Resume("op", b, "confirm")
         ELSE Ends("op", a)
  BY DEF CodeConfirmed, Consumes
<1>3. /\ a \in Apps /\ Kept(a, app, {"issue"})
      /\ (Still(a, "op", "epoch") <=> Still(app, "op", "epoch"))
      /\ (Still(a, "op", "codeshow") <=> Still(app, "op", "codeshow"))
  BY StandsIs, ConsumesIs
<1> HIDE DEF a
<1>4. b \in Apps /\ b.session = app.session /\ b.security = app.security /\ b.deferred = app.deferred
  BY <1>3, ClearSecretIs DEF Kept
<1> HIDE DEF b
<1>5. kept => app.session /\ app.security /\ ~app.deferred
  BY DEF RoutesInv, HeldViews, Holders, Tasks, Views, SessionViews, SessionFlags
<1>6. ok /\ kept /\ Resume("op", b, "confirm") =>
        /\ app' = Capture(Moved(Unsecures(b), "workspace"), "op", {"gen", "workspace"})
        /\ MovesTo("op", "confirm", "show")
  BY <1>4, <1>5, StandsIs, ResumeIs DEF Tasks, Kinds
<1>7. \/ ok /\ kept /\ Resume("op", b, "confirm")
      \/ MovesTo("op", "none", "idle") /\ app' = Forget(app, "op")
      \/ ~(ok /\ kept) /\ MovesTo("op", "none", "idle") /\ app' = Forget(a, "op")
  BY <1>2, <1>3, StandsIs, EndsIs DEF Tasks
<1> QED
  BY ONLY RoutesInv, <1>1, <1>6, <1>7, OpEndsSafe, ConfirmResumesSafe, ConfirmLateSafe DEF a, b

\* RoutesInv is kept by CancelCode.
LEMMA CancelCodeSafe ==
  ASSUME RoutesInv, CancelCode
  PROVE  RoutesInv'
<1> DEFINE a == Moved(app, "epoch")
           b == ClearSecret(a)
<1>1. /\ ~app.closing /\ ("codepin" \in app.views \/ "codeshow" \in app.views) /\ Rests("side")
      /\ left' \in Lefts /\ Resume("side", b, "cancel")
  BY StandsIs, SpendIs DEF CancelCode, Tasks
<1>2. a \in Apps /\ Kept(a, app, {})
  BY StandsIs, MovedIs
<1> HIDE DEF a
<1>3. b \in Apps /\ b.session = app.session /\ b.security = app.security /\ b.deferred = app.deferred
  BY <1>2, ClearSecretIs DEF Kept
<1> HIDE DEF b
<1>4. app.session /\ app.security /\ ~app.deferred
  BY <1>1 DEF RoutesInv, SessionViews, SessionFlags
<1>5. /\ app' = Capture(Moved(Unsecures(b), "workspace"), "side", {"gen", "workspace"})
      /\ MovesTo("side", "cancel", "show")
  BY <1>1, <1>3, <1>4, StandsIs, ResumeIs DEF Tasks, Kinds
<1> QED
  BY ONLY RoutesInv, <1>1, <1>5, SettingsCancelledSafe DEF a, b

\* RoutesInv is kept by RequestReset.
LEMMA RequestResetSafe ==
  ASSUME RoutesInv, RequestReset
  PROVE  RoutesInv'
<1>1. /\ ChatFree /\ Free /\ Rests("op") /\ ~app.dialog /\ left' \in Lefts
      /\ app' = Capture(DialogUp(app), "dialog", {"epoch", "gen"}) /\ UNCHANGED task
  BY StandsIs, SpendIs DEF RequestReset, DialogUp, Tasks
<1> QED
  BY ONLY RoutesInv, <1>1, ResetRequestedSafe

\* RoutesInv is kept by CancelReset.
LEMMA CancelResetSafe ==
  ASSUME RoutesInv, CancelReset
  PROVE  RoutesInv'
<1>1. app.dialog /\ left' \in Lefts /\ app' = Forget(DialogDown(app), "dialog") /\ UNCHANGED task
  BY StandsIs DEF CancelReset, DialogDown
<1> QED
  BY ONLY RoutesInv, <1>1, ResetDroppedSafe

\* RoutesInv is kept by ResetFlushed.
LEMMA ResetFlushedSafe ==
  ASSUME RoutesInv, ResetFlushed
  PROVE  RoutesInv'
<1>1. Op("reset", {"flush"}) /\ left' \in Lefts
  BY StandsIs, AnswersIs DEF ResetFlushed, Op, Tasks, Kinds, Pcs
<1> DEFINE d == Deactivate(app)
           r == Replace(d, "blank")
           a == CancelPending(r)
           kept == Still(app, "op", "epoch") /\ Still(app, "op", "gen") /\ app.session
<1>2. \/ Ends("op", app)
      \/ Ends("op", IF ~kept THEN app
                    ELSE IF a.open THEN ShowKey(Replaces(CancelGrant(a))) ELSE ShowError(a))
  BY DEF ResetFlushed, Replaces
<1>3. d \in Apps /\ d.open = app.open
  BY StandsIs, DeactivateIs DEF Kept
<1>4. r \in Apps /\ r.open = d.open
  BY <1>3, ReplaceIs DEF Kept, Pages
<1>5. a.open = app.open
  BY <1>3, <1>4, CancelPendingIs DEF Kept
<1> HIDE DEF a
<1>6. /\ MovesTo("op", "none", "idle")
      /\ \/ app' = Forget(app, "op")
         \/ kept /\ app.open /\ app' = Forget(ShowKey(Replaces(CancelGrant(a))), "op")
         \/ kept /\ ~app.open /\ app' = Forget(ShowError(a), "op")
  BY <1>2, <1>5, StandsIs, EndsIs DEF Tasks
<1> QED
  BY ONLY RoutesInv, <1>1, <1>6, OpEndsSafe, ResetShowsKeySafe, ResetErrsSafe DEF a

\* RoutesInv is kept by OfferFlushed.
LEMMA OfferFlushedSafe ==
  ASSUME RoutesInv, OfferFlushed
  PROVE  RoutesInv'
<1> DEFINE away == ChatsAway(app)
           shown == Replace(NewView(ClearSecret(away), "codepin"), "codepin")
<1>1. PICK t \in {"op", "side"} :
        /\ task[t].kind \in {"settings", "newpin", "cont"} /\ task[t].pc = "flush"
        /\ Answers \/ Fails
        /\ \/ Ends(t, IF ~Still(app, t, "gen") THEN app
                      ELSE IF ~Still(app, t, "epoch") THEN away ELSE shown)
           \/ Ends(t, IF Still(app, t, "gen") THEN Unsecures(app) ELSE app)
  BY DEF OfferFlushed, ChatsAway, Unsecures
<1>2. left' \in Lefts
  BY <1>1, StandsIs, AnswersIs
<1> HIDE DEF shown
<1>3. /\ MovesTo(t, "none", "idle")
      /\ \/ ~Still(app, t, "gen") /\ app' = Forget(app, t)
         \/ Still(app, t, "gen") /\ ~Still(app, t, "epoch") /\ app' = Forget(away, t)
         \/ Still(app, t, "gen") /\ Still(app, t, "epoch") /\ app' = Forget(shown, t)
         \/ Still(app, t, "gen") /\ app' = Forget(Unsecures(app), t)
  BY <1>1, StandsIs, EndsIs DEF Tasks
<1>4. CASE t = "op"
  BY ONLY RoutesInv, <1>1, <1>2, <1>3, <1>4, OpEndsSafe, OfferAwaySafe, OfferShownSafe, OfferFailsSafe DEF shown
<1>5. CASE t = "side"
  BY ONLY RoutesInv, <1>1, <1>2, <1>3, <1>5, SideEndsSafe, OfferAwaySideSafe, OfferShownSideSafe, OfferFailsSideSafe DEF shown
<1> QED
  BY <1>1, <1>4, <1>5

\* Forgetting the captures twice is forgetting them once.
LEMMA ForgetTwice ==
  ASSUME NEW a \in Apps, NEW t
  PROVE  Forget(Forget(a, t), t) = Forget(a, t)
  BY DEF Forget, Apps

\* RoutesInv is kept by WorkspaceShown.
LEMMA WorkspaceShownSafe ==
  ASSUME RoutesInv, WorkspaceShown
  PROVE  RoutesInv'
<1> DEFINE A(t, ok) ==
      IF ~Still(app, t, "gen") THEN app
      ELSE IF ~ok \/ ~app.open THEN ShowError(Loosens(app))
      ELSE IF Still(app, t, "workspace") THEN ChatsUp(app) ELSE app
<1>1. PICK t \in {"op", "side"}, ok \in BOOLEAN :
        /\ task[t].pc = "show" /\ (IF ok THEN Answers ELSE Fails)
        /\ CASE task[t].kind = "newpin" -> Offer("op", "op", A(t, ok), "newpin")
             [] task[t].kind = "cont" -> Offer("op", "side", Forget(A(t, ok), "op"), "cont")
             [] OTHER -> Ends(t, A(t, ok))
  BY DEF WorkspaceShown, Loosens, ChatsUp
<1> DEFINE a == A(t, ok)
<1>2. left' \in Lefts
  BY <1>1, StandsIs, AnswersIs
<1>3. Still(app, t, "gen") => Still(app, t, "workspace") /\ ~app.security
  BY <1>1 DEF RoutesInv, Handovers, Shows
<1>4. \/ ~Still(app, t, "gen") /\ a = app
      \/ Still(app, t, "gen") /\ a = ShowError(Loosens(app))
      \/ Still(app, t, "gen") /\ Still(app, t, "workspace") /\ app.open /\ a = ChatsUp(app)
  BY <1>3
<1>5. /\ task[t].kind = "newpin" => Offer("op", "op", a, "newpin")
      /\ task[t].kind = "cont" => Offer("op", "side", Forget(a, "op"), "cont")
      /\ task[t].kind \notin {"newpin", "cont"} => Ends(t, a)
  BY <1>1
<1> HIDE DEF a
<1>6. CASE t = "side"
  <2>1. task["side"].kind \notin {"newpin", "cont"}
    BY <1>1, <1>6 DEF RoutesInv, InOrder, In
  <2>2. app' = Forget(a, "side") /\ MovesTo("side", "none", "idle")
    BY <1>5, <1>6, <2>1, StandsIs, EndsIs DEF Tasks
  <2> QED
    BY ONLY RoutesInv, <1>1, <1>2, <1>4, <1>6, <2>2, SideEndsSafe, ChatsFailSideSafe, ChatsShownSideSafe
<1>7. CASE t = "op" /\ app' = Forget(a, "op") /\ MovesTo("op", "none", "idle")
  BY ONLY RoutesInv, <1>1, <1>2, <1>4, <1>7, OpEndsSafe, ChatsFailSafe, ChatsShownSafe
<1>8. CASE t = "op" /\ task["op"].kind \notin {"newpin", "cont"}
  BY <1>5, <1>7, <1>8, StandsIs, EndsIs DEF Tasks
<1> DEFINE goes == /\ a.linux /\ ~a.closing /\ ~a.suspending /\ ~a.background
                   /\ a.session /\ a.chats /\ ~a.security
<1>9. t = "op" /\ goes => /\ Still(app, "op", "gen") /\ Still(app, "op", "workspace") /\ app.open
                          /\ app.linux /\ ~app.closing /\ ~app.suspending /\ ~app.background
                          /\ a = ChatsUp(app)
  <2>1. t = "op" /\ ~Still(app, "op", "gen") => ~app.session
    BY <1>1 DEF RoutesInv, Generations
  <2>2. ~ShowError(Loosens(app)).session
    BY StandsIs, LoosensIs, ShowErrorIs
  <2>3. Kept(ChatsUp(app), app, {"chats", "page"})
    BY StandsIs, ChatsUpIs
  <2> QED
    BY <1>4, <2>1, <2>2, <2>3 DEF Kept
<1>10. a \in Apps
  <2>1. Loosens(app) \in Apps /\ ChatsUp(app) \in Apps
    BY StandsIs, LoosensIs, ChatsUpIs
  <2> QED
    BY <1>4, <2>1, StandsIs, ShowErrorIs
<1>11. CASE t = "op" /\ task["op"].kind = "newpin"
  <2>1. \/ ~goes /\ app' = Forget(a, "op") /\ MovesTo("op", "none", "idle")
        \/ /\ goes /\ app' = Capture(Moved(Secures(a), "workspace"), "op", {"epoch", "gen"})
           /\ MovesTo("op", "newpin", "flush")
    BY <1>5, <1>11, StandsIs, OfferIs DEF Tasks, Kinds
  <2> QED
    BY ONLY RoutesInv, <1>1, <1>2, <1>7, <1>9, <1>11, <2>1, OfferNextSafe
<1>12. CASE t = "op" /\ task["op"].kind = "cont"
  <2> DEFINE f == Forget(a, "op")
  <2>1. Kept(f, a, {}) /\ Forget(f, "op") = f
    BY <1>10, ForgetIs, ForgetTwice
  <2>2. Offer("op", "side", f, "cont")
    BY <1>5, <1>12
  <2> HIDE DEF f
  <2>3. goes <=> /\ f.linux /\ ~f.closing /\ ~f.suspending /\ ~f.background
                 /\ f.session /\ f.chats /\ ~f.security
    BY <2>1 DEF Kept
  <2> HIDE DEF goes
  <2>4. \/ ~goes /\ app' = f /\ MovesTo("op", "none", "idle")
        \/ /\ goes /\ app' = Capture(Moved(Secures(f), "workspace"), "side", {"epoch", "gen"})
           /\ MovesBoth("op", "none", "idle", "side", "cont", "flush")
    BY <2>1, <2>2, <2>3, StandsIs, OfferIs DEF Tasks, Kinds
  <2> QED
    BY ONLY RoutesInv, <1>1, <1>2, <1>7, <1>9, <1>12, <2>4, OfferNextSideSafe DEF f
<1> QED
  BY <1>1, <1>6, <1>8, <1>11, <1>12

\* AskLock: the manual lock closes the access and captures what it compares.
LEMMA AskLockIs ==
  ASSUME task \in Taskings, NEW a, NEW p \in Pcs, AskLock(a, p)
  PROVE  /\ app' = Capture(LockAccess(Forget(a, "lock")), "lock", {"epoch", "gen"})
         /\ MovesTo("lock", "lock", p)
  BY SetsIs DEF AskLock, Tasks, Kinds

\* RoutesInv is kept by ManualLock.
LEMMA ManualLockSafe ==
  ASSUME RoutesInv, ManualLock
  PROVE  RoutesInv'
<1>1. app.session /\ app.chats /\ Rests("lock") /\ left' \in Lefts
  BY StandsIs, SpendIs DEF ManualLock, Tasks
<1>2. AskLock(Deactivate(Shut(app)), "ask")
  BY DEF ManualLock, Shut
<1>3. /\ app' = Capture(LockAccess(Forget(Deactivate(Shut(app)), "lock")), "lock", {"epoch", "gen"})
      /\ MovesTo("lock", "lock", "ask")
  BY <1>2, StandsIs, AskLockIs DEF Pcs
<1> QED
  BY ONLY RoutesInv, <1>1, <1>3, LocksSafe

\* RoutesInv is kept by LockAsked.
LEMMA LockAskedSafe ==
  ASSUME RoutesInv, LockAsked
  PROVE  RoutesInv'
<1> DEFINE stale == app.closing \/ ~Still(app, "lock", "epoch") \/ ~Still(app, "lock", "gen")
           A(ok) == IF stale THEN app ELSE IF ok THEN ShowPin(app) ELSE ShowError(app)
<1>1. Busy /\ ~AuthCall
  BY DEF LockAsked
<1>2. PICK ok \in BOOLEAN :
        /\ IF ok THEN Answers ELSE Fails
        /\ IF task["lock"].pc = "ask_again" THEN Ends("lock", A(ok))
           ELSE Sets("lock", Capture(Forget(A(ok), "lock"), "lock", {"gen"}), "lock", "flush")
  BY DEF LockAsked
<1>3. left' \in Lefts
  BY <1>2, StandsIs, AnswersIs
<1> DEFINE a == A(ok)
<1>4. (stale => a = app) /\ (~stale => a = ShowPin(app) \/ a = ShowError(app))
  BY ONLY DEF a
<1>5. IF task["lock"].pc = "ask_again" THEN Ends("lock", a)
      ELSE Sets("lock", Capture(Forget(a, "lock"), "lock", {"gen"}), "lock", "flush")
  BY <1>2
<1> HIDE DEF a, stale
<1>6. \/ task["lock"].pc = "ask_again" /\ app' = Forget(a, "lock") /\ MovesTo("lock", "none", "idle")
      \/ /\ task["lock"].pc = "ask" /\ app' = Capture(Forget(a, "lock"), "lock", {"gen"})
         /\ MovesTo("lock", "lock", "flush")
  BY <1>1, <1>5, StandsIs, EndsIs, SetsIs DEF Busy, Tasks, Kinds, Pcs
<1>7. CASE stale
  BY ONLY RoutesInv, <1>1, <1>3, <1>4, <1>6, <1>7, LockStaleSafe, LockStaleAgainSafe DEF stale
<1>8. CASE ~stale
  BY ONLY RoutesInv, <1>1, <1>3, <1>4, <1>6, <1>8, LockPinSafe, LockPinAgainSafe, LockErrsSafe, LockErrsAgainSafe DEF stale
<1> QED
  BY <1>7, <1>8

\* RoutesInv is kept by LockFlushed.
LEMMA LockFlushedSafe ==
  ASSUME RoutesInv, LockFlushed
  PROVE  RoutesInv'
<1>1. task["lock"].pc = "flush" /\ left' \in Lefts
  BY StandsIs, AnswersIs DEF LockFlushed
<1>2. \/ Ends("lock", app)
      \/ Still(app, "lock", "gen") /\ ~app.session /\ AskLock(Relocks(app), "ask_again")
  BY DEF LockFlushed, Relocks
<1>3. \/ app' = Forget(app, "lock") /\ MovesTo("lock", "none", "idle")
      \/ /\ Still(app, "lock", "gen") /\ ~app.session
         /\ app' = Capture(LockAccess(Forget(Relocks(app), "lock")), "lock", {"epoch", "gen"})
         /\ MovesTo("lock", "lock", "ask_again")
  BY <1>2, StandsIs, EndsIs, AskLockIs DEF Tasks, Pcs
<1> QED
  BY ONLY RoutesInv, <1>1, <1>3, LockEndsSafe, LocksAgainSafe

\* Seals: the seal takes the session, the views and the captures, and asks for
\* its own.
LEMMA SealsIs ==
  ASSUME RoutesInv, NEW a, Seals(a)
  PROVE  /\ app' = Capture(Forget(BeginSeal(a), "dialog"), "seal", {"epoch"})
         /\ MovesTo("seal", "seal", "cancel") \/ MovesTo("seal", "seal", "flush")
<1>1. \/ Sets("seal", Capture(Forget(BeginSeal(a), "dialog"), "seal", {"epoch"}), "seal", "cancel")
      \/ Sets("seal", Capture(Forget(BeginSeal(a), "dialog"), "seal", {"epoch"}), "seal", "flush")
  BY DEF Seals
<1>2. "seal" \in Tasks /\ "seal" \in Kinds /\ "cancel" \in Pcs /\ "flush" \in Pcs
  BY DEF Tasks, Kinds, Pcs
<1> QED
  BY <1>1, <1>2, StandsIs, SetsIs

\* RoutesInv is kept by SystemLock.
LEMMA SystemLockSafe ==
  ASSUME RoutesInv, SystemLock
  PROVE  RoutesInv'
<1>1. ~app.closing /\ ~app.suspending /\ left' \in Lefts /\ Seals(app)
  BY StandsIs, SpendIs DEF SystemLock
<1> QED
  BY ONLY RoutesInv, <1>1, SealsIs, SealsSafe, SealsFlushesSafe

\* RoutesInv is kept by Hide.
LEMMA HideSafe ==
  ASSUME RoutesInv, Hide
  PROVE  RoutesInv'
<1>1. /\ ~app.linux /\ ~app.closing /\ ~app.background /\ ~app.suspending
      /\ left' \in Lefts /\ Seals(Backs(app))
  BY StandsIs, SpendIs DEF Hide, Backs
<1> QED
  BY ONLY RoutesInv, <1>1, SealsIs, HidesSafe, HidesFlushesSafe

\* RoutesInv is kept by BackToFront.
LEMMA BackToFrontSafe ==
  ASSUME RoutesInv, BackToFront
  PROVE  RoutesInv'
<1>1. app.background /\ ~app.closing /\ app' = Fronts(app) /\ UNCHANGED task /\ left' \in Lefts
  BY StandsIs DEF BackToFront, Fronts
<1> QED
  BY ONLY RoutesInv, <1>1, BackSafe

\* RoutesInv is kept by SealCancels.
LEMMA SealCancelsSafe ==
  ASSUME RoutesInv, SealCancels
  PROVE  RoutesInv'
<1>1. task["seal"].pc = "cancel" /\ left' \in Lefts
  BY StandsIs DEF SealCancels
<1>2. app' = CancelNative(app) /\ MovesTo("seal", "seal", "flush")
  BY StandsIs, SetsIs DEF SealCancels, Tasks, Kinds, Pcs
<1> QED
  BY ONLY RoutesInv, <1>1, <1>2, SealCancelledSafe

\* SealOver: a seal that was overtaken only ends, the others route to a page.
LEMMA SealOverIs ==
  ASSUME RoutesInv, NEW r, app' = SealOver(r)
  PROVE  \/ (app.closing \/ ~Still(app, "seal", "epoch")) /\ app' = Forget(SealEnded(app), "seal")
         \/ ~app.closing /\ Still(app, "seal", "epoch") /\ app' = Forget(Unseals(Route(app, r)), "seal")
<1> DEFINE stale == app.closing \/ ~Still(app, "seal", "epoch")
<1>1. CASE stale
  BY <1>1 DEF SealOver, SealEnded
<1>2. CASE ~stale
  <2> DEFINE a == Route(app, r)
  <2>1. a.closing = app.closing
    BY StandsIs, ShowKeyIs, ShowPinIs, ShowErrorIs DEF Route, Kept
  <2>2. a.closing = FALSE
    BY <1>2, <2>1, StandsIs DEF Apps
  <2>3. app' = Forget([a EXCEPT !.suspending = a.closing], "seal")
    BY <1>2 DEF SealOver
  <2> HIDE DEF a
  <2>4. [a EXCEPT !.suspending = a.closing] = Unseals(a)
    BY <2>2, Zenon DEF Unseals
  <2> QED
    BY <1>2, <2>3, <2>4 DEF a
<1> QED
  BY <1>1, <1>2

\* RoutesInv is kept by SealFlushed.
LEMMA SealFlushedSafe ==
  ASSUME RoutesInv, SealFlushed
  PROVE  RoutesInv'
<1>1. task["seal"].pc = "flush" /\ Rests("op") /\ left' \in Lefts
  BY StandsIs DEF SealFlushed, Tasks
<1>2. CASE Busy
  <2>1. app' = SealOver("error") /\ MovesTo("seal", "none", "idle")
    BY <1>2, StandsIs, RestsIs DEF SealFlushed, Tasks
  <2>2. Route(app, "error") = ShowError(app)
    BY DEF Route
  <2> QED
    BY ONLY RoutesInv, <1>1, <1>2, <2>1, <2>2, SealOverIs, SealStaleBusySafe, SealErrsBusySafe
<1>3. CASE ~Busy
  <2>1. task["seal"].kind = "seal"
    BY <1>1 DEF RoutesInv, InOrder, In
  <2>2. app' = app /\ MovesBoth("seal", "seal", "init", "op", "seal", "hold")
    BY <1>3, <2>1, StandsIs DEF SealFlushed, MovesBoth, Taskings, Tasks, Kinds, Pcs
  <2> QED
    BY ONLY RoutesInv, <1>1, <1>3, <2>2, SealHoldsSafe
<1> QED
  BY <1>2, <1>3

\* RoutesInv is kept by SealInitialized.
LEMMA SealInitializedSafe ==
  ASSUME RoutesInv, SealInitialized
  PROVE  RoutesInv'
<1>1. task["seal"].pc = "init"
  BY DEF SealInitialized
<1>2. PICK r \in {"pin", "setup", "error"} : InitializeAnswers(r) /\ app' = SealOver(r)
  BY DEF SealInitialized
<1>3. left' \in Lefts
  BY <1>2, StandsIs, AnswersIs DEF InitializeAnswers
<1>4. MovesBoth("seal", "none", "idle", "op", "none", "idle")
  <2>1. task' = [task EXCEPT !["seal"] = [kind |-> "none", pc |-> "idle"],
                             !["op"] = [kind |-> "none", pc |-> "idle"]]
    BY DEF SealInitialized, Idle
  <2>2. "seal" \in Tasks /\ "op" \in Tasks \ {"seal"} /\ "none" \in Kinds /\ "idle" \in Pcs
    BY DEF Tasks, Kinds, Pcs
  <2> QED
    BY <2>1, <2>2, StandsIs, GoBothIs
<1>5. \/ Route(app, r) = ShowPin(app) /\ app.registered
      \/ Route(app, r) = ShowKey(app) /\ ~app.registered
      \/ Route(app, r) = ShowError(app)
  BY <1>2 DEF Route, InitializeAnswers
<1> QED
  BY ONLY RoutesInv, <1>1, <1>2, <1>3, <1>4, <1>5, SealOverIs, SealStaleSafe, SealPinSafe, SealKeySafe, SealErrsSafe

\* RoutesInv is kept by Close.
LEMMA CloseSafe ==
  ASSUME RoutesInv, Close
  PROVE  RoutesInv'
<1>1. /\ ~app.closing /\ left' \in Lefts /\ UNCHANGED task
      /\ app' = ClosesForGood(Forget(BeginSeal(app), "dialog"))
  BY StandsIs, SpendIs DEF Close, ClosesForGood
<1> QED
  BY ONLY RoutesInv, <1>1, ClosesSafe

\* Every step of the application keeps RoutesInv.
LEMMA RoutesStep ==
  ASSUME RoutesInv, [Next]_vars
  PROVE  RoutesInv'
<1>1. CASE OpMoves
  BY <1>1, StartAnswerSafe, KeyAnswerSafe, KeySavedSafe, SetupPrefsSafe, SetupHashedSafe,
     SetupStoredSafe, SetupUnlockedSafe, LoginVerifiedSafe, LoginUnlockedSafe, LoginReadSafe,
     ResumeStoredSafe, ContinueStoredSafe, EntryAnswerSafe, CodeAnswerSafe, PromptShownSafe,
     PromptRefusedSafe, PinReplacedSafe, RecoveryReadSafe, CodeIssuedSafe, CodeConfirmedSafe,
     ResetFlushedSafe, OfferFlushedSafe, WorkspaceShownSafe DEF OpMoves
<1>2. CASE SealMoves \/ LockMoves
  BY <1>2, SealCancelsSafe, SealFlushedSafe, SealInitializedSafe, LockAskedSafe, LockFlushedSafe
  DEF SealMoves, LockMoves
<1>3. CASE UserMoves
  BY <1>3, StartSafe, SubmitKeySafe, CancelSetupSafe, ConfirmSetupSafe, SubmitPinSafe,
     ContinueSetupSafe, RequestRecoverySafe, SubmitCodeSafe, RequestSystemRecoverySafe,
     PromptConfirmedSafe, PromptRefusedSafe, CancelRecoverySafe, ConfirmRecoverySafe,
     RequestCodeSettingsSafe, BeginCodeSafe, ConfirmCodeSafe, CancelCodeSafe, RequestResetSafe,
     CancelResetSafe, ConfirmResetSafe, ManualLockSafe DEF UserMoves
<1>4. CASE SystemLock \/ Hide \/ BackToFront \/ Close
  BY <1>4, SystemLockSafe, HideSafe, BackToFrontSafe, CloseSafe
<1>5. CASE UNCHANGED vars
  BY <1>5, StandsIs, NothingSafe DEF vars
<1> QED
  BY <1>1, <1>2, <1>3, <1>4, <1>5 DEF Next

-----------------------------------------------------------------------------
(* The invariant and the properties of rest.                               *)

\* The application starts in RoutesInv.
LEMMA RoutesInit == Init => RoutesInv
<1> SUFFICES ASSUME Init PROVE RoutesInv
  OBVIOUS
<1>1. PICK linux \in BOOLEAN, known \in BOOLEAN, unchecked \in BOOLEAN :
        app = [linux |-> linux, registered |-> known,
               onboarding |-> linux /\ unchecked, handled |-> FALSE,
               suspending |-> FALSE, background |-> FALSE, closing |-> FALSE,
               page |-> "blank", views |-> {}, token |-> "none", source |-> "system",
               dialog |-> FALSE,
               session |-> FALSE, security |-> FALSE, deferred |-> FALSE, chats |-> FALSE,
               open |-> FALSE, loose |-> FALSE, relocked |-> FALSE, pending |-> FALSE, replacing |-> FALSE,
               grant |-> FALSE, issue |-> FALSE, prompt |-> "none",
               fresh |-> {"op"} \X {"epoch", "seal"}]
  BY DEF Init
<1> DEFINE first == linux /\ unchecked
           held == {"op"} \X {"epoch", "seal"}
<1>2. first \in BOOLEAN
  OBVIOUS
<1>3. held \in SUBSET (Holders \X Whats)
  BY DEF Holders, Tasks, Whats
<1>4. \A t, x : <<t, x>> \in held <=> t = "op" /\ x \in {"epoch", "seal"}
  OBVIOUS
<1> HIDE DEF first, held
<1>5. /\ app \in Apps /\ app.page = "blank" /\ app.views = {} /\ app.token = "none"
      /\ app.fresh = held
  BY <1>1, <1>2, <1>3, ZenonT(60) DEF first, held, Apps, Pages
<1>6. /\ app.suspending = FALSE /\ app.background = FALSE /\ app.closing = FALSE
      /\ app.session = FALSE /\ app.security = FALSE /\ app.deferred = FALSE /\ app.chats = FALSE
      /\ app.handled = FALSE /\ app.dialog = FALSE
  BY <1>1, ZenonT(60)
<1>7. /\ app.open = FALSE /\ app.loose = FALSE /\ app.relocked = FALSE /\ app.pending = FALSE
      /\ app.replacing = FALSE /\ app.grant = FALSE /\ app.issue = FALSE
  BY <1>1, ZenonT(60)
<1>8. \A t, x : Still(app, t, x) <=> t = "op" /\ x \in {"epoch", "seal"}
  BY <1>4, <1>5 DEF Still
<1>9. /\ task \in Taskings
      /\ task["op"].kind = "start" /\ task["op"].pc = "ask"
      /\ \A t \in {"seal", "lock", "side"} : task[t].kind = "none" /\ task[t].pc = "idle"
  BY DEF Init, Taskings, Tasks, Idle, Kinds, Pcs
<1>10. left \in Lefts
  BY BudgetsAssumption DEF Init, Lefts
<1>11. RoutesType /\ InOrder
  BY ONLY <1>5, <1>9, <1>10 DEF RoutesType, InOrder, In, Op
<1> USE <1>5, <1>6, <1>7, <1>8, <1>9 DEF In, Op, Rests, Shows, Offers, Resuming, Locking, Busy,
       Entering, Moving, NoRights, NoView, Onboarding
<1> HIDE <1>1
<1>12. OneView /\ HeldViews /\ HeldAtWork /\ OldHoldNothing
  BY DEF OneView, HeldViews, HeldAtWork, OldHoldNothing, Views, Whats, Tasks, Holders
<1>13. SessionFlags /\ SessionViews /\ Generations /\ Handovers /\ SessionShown
  BY DEF SessionFlags, SessionViews, Generations, Handovers, SessionShown
<1>14. Sealing /\ Sealed /\ OpHolds /\ OpAuth /\ OpFront
  BY DEF Sealing, Sealed, OpHolds, OpAuth, OpFront, Views
<1>15. Rights /\ OpenIs /\ EntersOpen /\ Registered /\ FirstRun /\ PageIs
  BY DEF Rights, OpenIs, EntersOpen, Registered, FirstRun, PageIs
<1> QED
  BY <1>11, <1>12, <1>13, <1>14, <1>15 DEF RoutesInv

\* The inductive invariant of the application: where every coroutine of app.py
\* may be suspended, what it still holds there, and what the page, the session,
\* the access and the unused rights have to do with it, whatever the budgets.
THEOREM RoutesInvariant == Spec => []RoutesInv
<1>1. RoutesInv /\ [Next]_vars => RoutesInv'
  BY RoutesStep
<1> QED
  BY RoutesInit, <1>1, PTL DEF Spec

\* At rest nobody is about to change the page.
LEMMA RestPages ==
  ASSUME RoutesInv, Quiet
  PROVE  /\ \A t \in Tasks : Rests(t)
         /\ ~app.suspending /\ ~Busy /\ ~Locking
         /\ \A t \in {"op", "side"} : ~Shows(t) /\ ~Offers(t)
         /\ ~Resuming /\ ~Entering
         /\ ~app.relocked => ~Moving
<1>1. \A t \in Tasks : Rests(t)
  BY StandsIs DEF Quiet
<1>2. ~app.suspending
  BY <1>1 DEF RoutesInv, Sealing, Quiet, Tasks
<1>3. ~Busy /\ ~Locking /\ ~Resuming /\ ~Entering /\ \A t \in {"op", "side"} : ~Shows(t) /\ ~Offers(t)
  BY <1>1 DEF Tasks, Rests, In, Op, Busy, Locking, Shows, Offers, Resuming, Entering
<1>4. ~app.relocked => ~Moving
  BY <1>3 DEF Moving, RoutesInv, SessionFlags
<1> QED
  BY <1>1, <1>2, <1>3, <1>4

\* RoutesInv has the properties of rest that the runs check.
LEMMA RoutesInvSound == RoutesInv => RoutesSound
<1> SUFFICES ASSUME RoutesInv PROVE RoutesSound
  OBVIOUS
<1>1. TypeOK
  BY DEF RoutesInv, RoutesType, TypeOK, Apps, Taskings, Lefts, Holders, Whats
<1>2. SecretsHaveScreens
  BY DEF RoutesInv, Rights, SecretsHaveScreens
<1>3. OpenForSession
  BY RestPages DEF RoutesInv, OpenIs, OpenForSession
<1>4. ASSUME Quiet, ~app.relocked
      PROVE  /\ app.page # "blank"
             /\ app.page = "newpin" => "setup" \in app.views /\ app.token = "recovery" /\ app.grant
             /\ app.page = "setup" => "setup" \in app.views /\ app.token = "setup" /\ app.pending
             /\ app.page \in Views \ {"setup"} => app.page \in app.views
             /\ app.page = "chats" <=> ChatFree
             /\ app.session => app.page \in {"chats", "step", "codepin", "codeshow"} /\ app.open
  <2> USE <1>4, RestPages
  <2>1. Rests("op") /\ ~app.suspending /\ ~Moving /\ ~Locking /\ ~Shows("op") /\ ~Shows("side")
    BY DEF Tasks
  <2>2. app.page # "blank"
    BY <2>1 DEF RoutesInv, PageIs, Rests, Op, In
  <2>3. app.page = "newpin" => "setup" \in app.views /\ app.token = "recovery" /\ app.grant
    BY <2>1 DEF RoutesInv, PageIs, OneView, Rests, Op, In
  <2>4. app.page = "setup" => "setup" \in app.views /\ app.token = "setup" /\ app.pending
    BY <2>1 DEF RoutesInv, PageIs, OneView, Rests, Op, In
  <2>5. app.page \in Views \ {"setup"} => app.page \in app.views
    BY <2>1 DEF RoutesInv, PageIs, Views
  <2>6. app.session => /\ app.page \in {"chats", "step", "codepin", "codeshow"} /\ app.open
                       /\ app.page = "chats" <=> ChatFree
    BY <2>1 DEF RoutesInv, SessionShown, SessionFlags, ChatFree
  <2>7. ~app.session => (app.page = "chats" <=> ChatFree)
    BY <2>1 DEF RoutesInv, PageIs, ChatFree
  <2> QED
    BY <2>2, <2>3, <2>4, <2>5, <2>6, <2>7
<1>5. PageUsable
  BY <1>4 DEF PageUsable
<1> QED
  BY <1>1, <1>2, <1>3, <1>5 DEF RoutesSound

\* At rest the page shown by app.py is one the user can go on from, the chats are
\* shown exactly in an open session, unused rights have their screen, and the data
\* are open only for a session, after any number of operations and seals.
THEOREM RoutesAlwaysSound == Spec => []RoutesSound
  BY RoutesInvariant, RoutesInvSound, PTL

-----------------------------------------------------------------------------
(* An operation overtaken by a seal.                                       *)

\* An application that differs from the current one in nothing an old
\* operation may not touch, and of which the operation holds at most an
\* access.
Stays(a) ==
    /\ a \in Apps /\ a.page = app.page /\ a.session = app.session /\ a.views = app.views
    /\ \A x \in Whats \ {"auth"} : ~Still(a, "op", x)

\* What an old operation does to the application stays within that.
LEMMA StaysIs ==
  ASSUME NEW a, Stays(a)
  PROVE  /\ Stays(Forget(a, "op")) /\ Stays(Capture(a, "op", {"auth"}))
         /\ Stays(CancelPending(a)) /\ Stays(CancelGrant(a)) /\ Stays(LockAccess(a))
         /\ Stays(Onboards(a)) /\ Stays(Onboarded(a)) /\ Stays(Registers(a))
         /\ Stays(Shuts(a)) /\ Stays(OpensLogin(a)) /\ Stays(PromptDown(a))
         /\ Stays(Issues(a)) /\ Stays(Unissues(a)) /\ Stays(Consumes(a))
<1>1. a \in Apps /\ "op" \in Holders /\ {"auth"} \in SUBSET Whats
  BY DEF Stays, Holders, Tasks, Whats
<1>2. Stays(Forget(a, "op"))
  BY <1>1, ForgetIs DEF Stays, Kept
<1>3. Stays(Capture(a, "op", {"auth"}))
  BY <1>1, CaptureIs DEF Stays, Kept
<1>4. Stays(CancelPending(a))
  BY <1>1, CancelPendingIs DEF Stays, Kept
<1>5. Stays(CancelGrant(a))
  BY <1>1, CancelGrantIs DEF Stays, Kept
<1>6. Stays(LockAccess(a))
  BY <1>1, LockAccessIs DEF Stays, Kept
<1>7. Stays(Onboards(a))
  BY <1>1, OnboardsIs DEF Stays, Kept
<1>8. Stays(Onboarded(a))
  BY <1>1, OnboardedIs DEF Stays, Kept
<1>9. Stays(Registers(a))
  BY <1>1, RegistersIs DEF Stays, Kept
<1>10. Stays(Shuts(a))
  BY <1>1, ShutsIs DEF Stays, Kept
<1>11. Stays(OpensLogin(a))
  BY <1>1, OpensLoginIs DEF Stays, Kept
<1>12. Stays(PromptDown(a))
  BY <1>1, PromptDownIs DEF Stays, Kept
<1>13. Stays(Issues(a))
  <2>1. /\ Issues(a) \in Apps /\ Kept(Issues(a), a, {"issue"})
        /\ \A t, x : Still(Issues(a), t, x) <=> Still(a, t, x)
    BY ONLY <1>1, IssuesIs
  <2> QED
    BY <2>1 DEF Stays, Kept
<1>14. Stays(Unissues(a))
  <2>1. /\ Unissues(a) \in Apps /\ Kept(Unissues(a), a, {"issue"})
        /\ \A t, x : Still(Unissues(a), t, x) <=> Still(a, t, x)
    BY ONLY <1>1, UnissuesIs
  <2> QED
    BY <2>1 DEF Stays, Kept
<1>15. Stays(Consumes(a))
  <2>1. /\ Consumes(a) \in Apps /\ Kept(Consumes(a), a, {"issue"})
        /\ \A t, x : Still(Consumes(a), t, x) <=> Still(a, t, x)
    BY ONLY <1>1, ConsumesIs
  <2> QED
    BY <2>1 DEF Stays, Kept
<1> QED
  BY ONLY <1>2, <1>3, <1>4, <1>5, <1>6, <1>7, <1>8, <1>9, <1>10, <1>11, <1>12, <1>13, <1>14, <1>15

\* An operation overtaken by a seal holds at most an access, and an old one
\* only where the code takes it at once.
LEMMA OldIs ==
  ASSUME RoutesInv, Old("op")
  PROVE  /\ Stays(app) /\ task["op"] # Idle /\ ~Rests("op") /\ task["op"].pc # "hold"
         /\ \A x \in Whats \ {"auth"} : ~Still(app, "op", x)
         /\ Still(app, "op", "auth") /\ task["op"].pc \notin {"show", "flush"} =>
              task["op"].kind \in {"login", "begincode", "confirm"}
<1>1. task["op"] # Idle /\ ~Rests("op") /\ ~Op("seal", {"hold"}) /\ ~Still(app, "op", "seal")
  BY StandsIs DEF Old, Op, At, Tasks, Kinds, Pcs
<1>2. task["op"].pc # "hold"
  BY <1>1 DEF RoutesInv, InOrder, Op, In
<1>3. \A x \in Whats \ {"auth"} : ~Still(app, "op", x)
  BY <1>1 DEF RoutesInv, OldHoldNothing
<1>4. /\ "key" \in Whats \ {"auth"} /\ "setup" \in Whats \ {"auth"} /\ "epoch" \in Whats \ {"auth"}
      /\ task["op"].pc \in Pcs
  BY StandsIs DEF Whats, Views, Taskings, Tasks
<1>5. Still(app, "op", "auth") /\ task["op"].pc \notin {"show", "flush"} =>
        task["op"].kind \in {"login", "begincode", "confirm"}
  BY <1>3, <1>4 DEF RoutesInv, OpAuth, Op, In
<1>6. Stays(app)
  BY <1>3, StandsIs DEF Stays
<1> QED
  BY <1>1, <1>2, <1>3, <1>5, <1>6

\* The other coroutines and the user's other requests do not move a suspended
\* operation.
LEMMA OthersLeaveOp ==
  ASSUME RoutesInv, Old("op"),
         SealMoves \/ LockMoves \/ SystemLock \/ Hide \/ BackToFront \/ Close \/ CancelRecovery
           \/ CancelReset \/ ManualLock
  PROVE  task'["op"] = task["op"]
<1>1. CASE SealMoves
  <2>1. ~SealInitialized
    BY OldIs DEF SealInitialized, RoutesInv, Sealing
  <2>2. ~SealFlushed
    BY OldIs DEF SealFlushed
  <2> QED
    BY <1>1, <2>1, <2>2, StandsIs DEF SealMoves, SealCancels, Sets, Taskings, Tasks
<1>2. CASE LockMoves
  BY <1>2, StandsIs DEF LockMoves, LockAsked, LockFlushed, AskLock, Sets, Ends, Taskings, Tasks
<1>3. CASE SystemLock \/ Hide
  BY <1>3, StandsIs DEF SystemLock, Hide, Seals, Sets, Taskings, Tasks
<1>4. CASE ManualLock
  BY <1>4, StandsIs DEF ManualLock, AskLock, Sets, Taskings, Tasks
<1>5. CASE BackToFront \/ Close \/ CancelRecovery \/ CancelReset
  BY <1>5 DEF BackToFront, Close, CancelRecovery, CancelReset
<1> QED
  BY <1>1, <1>2, <1>3, <1>4, <1>5

\* No request begins an operation while an old one is suspended.
LEMMA OldBeginsNothing ==
  ASSUME RoutesInv, Old("op"), UserMoves, ~PromptConfirmed, ~PromptRefused
  PROVE  task'["op"] = task["op"]
<1>1. task["op"] # Idle
  BY OldIs
<1>2. \A k, p, a, W : ~Begins(k, p, a, W)
  BY <1>1 DEF Begins
<1>3. \A k, p, a, W, b : ~BeginsOr(k, p, a, W, b)
  BY <1>1, <1>2 DEF BeginsOr
<1>4. ~Start /\ ~SubmitKey /\ ~CancelSetup /\ ~ConfirmSetup /\ ~SubmitPin /\ ~ContinueSetup
  BY <1>1, <1>2, <1>3 DEF Start, SubmitKey, CancelSetup, ConfirmSetup, SubmitPin, ContinueSetup
<1>5. ~RequestRecovery /\ ~SubmitCode /\ ~RequestSystemRecovery /\ ~ConfirmRecovery
  BY <1>1, <1>3 DEF RequestRecovery, SubmitCode, RequestSystemRecovery, ConfirmRecovery
<1>6. ~RequestCodeSettings /\ ~BeginCode /\ ~ConfirmCode /\ ~RequestReset /\ ~ConfirmReset
  BY <1>1, <1>2, <1>3 DEF RequestCodeSettings, BeginCode, ConfirmCode, RequestReset, ConfirmReset
<1>7. CancelCode => task'["op"] = task["op"]
  BY StandsIs DEF CancelCode, Resume, Present, Sets, Ends, Taskings, Tasks
<1> QED
  BY <1>4, <1>5, <1>6, <1>7, OthersLeaveOp DEF UserMoves

\* An old operation that ends stays within Stays.
LEMMA OldEnds ==
  ASSUME RoutesInv, Old("op"), NEW a, Stays(a), Ends("op", a)
  PROVE  Stays(app')
<1>1. app' = Forget(a, "op")
  BY DEF Ends
<1> QED
  BY <1>1, StaysIs

\* So does one whose setup is refused.
LEMMA OldRefused ==
  ASSUME RoutesInv, Old("op"), NEW a, Stays(a), SetupRefused(a)
  PROVE  Stays(app')
<1>1. ~Still(a, "op", "setup") /\ Stays(CancelPending(a))
  BY StaysIs DEF Stays, Whats, Views
<1>2. Ends("op", CancelPending(a))
  BY <1>1 DEF SetupRefused
<1> QED
  BY <1>1, <1>2, OldEnds

\* So does one whose recovery is refused.
LEMMA OldFreed ==
  ASSUME RoutesInv, Old("op"), RecoveryRefused(LockAccess(app))
  PROVE  Stays(app')
<1>1. Stays(LockAccess(app)) /\ ~Still(LockAccess(app), "op", "epoch")
  BY OldIs, StaysIs DEF Stays, Whats
<1>2. Ends("op", LockAccess(app))
  BY <1>1 DEF RecoveryRefused
<1> QED
  BY <1>1, <1>2, OldEnds

\* The start and the check of a key, overtaken by a seal.
LEMMA OldKey ==
  ASSUME RoutesInv, Old("op"), StartAnswer \/ KeyAnswer \/ KeySaved
  PROVE  Stays(app')
<1>1. /\ ~Still(app, "op", "epoch") /\ ~Still(app, "op", "key")
      /\ Stays(app) /\ Stays(CancelPending(app))
  BY OldIs, StaysIs DEF Whats, Views
<1>2. ASSUME Ends("op", KeyRefused) PROVE Stays(app')
  BY <1>1, <1>2, OldEnds DEF KeyRefused
<1>3. CASE StartAnswer
  <2>1. Ends("op", app)
    BY <1>1, <1>3 DEF StartAnswer
  <2> QED
    BY <1>1, <2>1, OldEnds
<1>4. CASE KeyAnswer
  BY <1>1, <1>2, <1>4 DEF KeyAnswer
<1>5. CASE KeySaved
  <2>1. task["op"].kind = "key" /\ task["op"].pc = "save"
    BY <1>5 DEF KeySaved, At
  <2>2. ~Still(app, "op", "auth")
    BY <2>1, OldIs
  <2> QED
    BY <1>2, <1>5, <2>2 DEF KeySaved
<1> QED
  BY <1>3, <1>4, <1>5

\* The setup of the PIN, overtaken by a seal.
LEMMA OldSetup ==
  ASSUME RoutesInv, Old("op"), SetupPrefs \/ SetupHashed \/ SetupStored \/ SetupUnlocked
  PROVE  Stays(app')
<1>1. Stays(app) /\ Stays(Onboards(app)) /\ Stays(Registers(app)) /\ Stays(LockAccess(app))
  BY OldIs, StaysIs
<1>2. ~Still(Onboards(app), "op", "setup")
  BY <1>1 DEF Stays, Whats, Views
<1>3. CASE SetupPrefs
  <2>1. Ends("op", app) \/ Ends("op", Onboards(app))
    BY <1>2, <1>3 DEF SetupPrefs, Onboards
  <2> QED
    BY <1>1, <2>1, OldEnds
<1>4. CASE SetupHashed \/ SetupStored \/ SetupUnlocked
  <2>1. task["op"].kind = "setup" /\ task["op"].pc \in {"hash", "store", "unlock"}
    BY <1>4 DEF SetupHashed, SetupStored, SetupUnlocked, At
  <2>2. ~Still(app, "op", "auth")
    BY <2>1, OldIs
  <2>3. ~Still(Registers(app), "op", "auth")
    BY <2>2, StandsIs, RegistersIs
  <2>4. SetupHashed => SetupRefused(app)
    BY <2>2 DEF SetupHashed
  <2>5. SetupStored => SetupRefused(app) \/ SetupRefused(Registers(app))
    BY <2>3 DEF SetupStored, Registers
  <2>6. SetupUnlocked => SetupRefused(app) \/ SetupRefused(LockAccess(app))
    BY <2>2 DEF SetupUnlocked
  <2> QED
    BY <1>1, <1>4, <2>4, <2>5, <2>6, OldRefused
<1> QED
  BY <1>3, <1>4

\* The login, overtaken by a seal.
LEMMA OldLogin ==
  ASSUME RoutesInv, Old("op"), LoginVerified \/ LoginUnlocked \/ LoginRead
  PROVE  Stays(app')
<1>1. /\ ~Still(app, "op", "pin") /\ Stays(app) /\ Stays(Capture(app, "op", {"auth"}))
      /\ Stays(CancelGrant(Shuts(app))) /\ Stays(OpensLogin(app))
  BY OldIs, StaysIs DEF Whats, Views
<1>2. LoginVerified => Ends("op", app) \/ app' = Capture(app, "op", {"auth"})
  BY DEF LoginVerified, Sets
<1>3. LoginUnlocked => Ends("op", CancelGrant(Shuts(app))) \/ app' = OpensLogin(app)
  BY DEF LoginUnlocked, Sets, Shuts, OpensLogin
<1>4. LoginRead => Ends("op", CancelGrant(Shuts(app))) \/ Ends("op", app)
  BY <1>1 DEF LoginRead, Shuts
<1> QED
  BY <1>1, <1>2, <1>3, <1>4, OldEnds

\* The first-run step, overtaken by a seal.
LEMMA OldStep ==
  ASSUME RoutesInv, Old("op"), ResumeStored \/ ContinueStored
  PROVE  Stays(app')
<1>1. Stays(app) /\ Stays(Onboarded(app))
  BY OldIs, StaysIs
<1>2. ~Still(app, "op", "epoch") /\ ~Still(Onboarded(app), "op", "epoch")
  BY <1>1 DEF Stays, Whats
<1>3. CASE ResumeStored
  <2>1. Ends("op", app) \/ Ends("op", Onboarded(app))
    BY <1>2, <1>3 DEF ResumeStored, Onboarded
  <2> QED
    BY <1>1, <2>1, OldEnds
<1>4. CASE ContinueStored
  <2>1. PICK saved \in BOOLEAN :
          LET a == [app EXCEPT !.onboarding = @ /\ ~saved] IN
          IF Still(a, "op", "epoch") /\ Still(a, "op", "step") /\ Opened
          THEN Present("op", [Drop(a, {"step"}) EXCEPT !.handled = TRUE, !.deferred = FALSE], "cont")
          ELSE Ends("op", a)
    BY <1>4 DEF ContinueStored
  <2> DEFINE v == app.onboarding /\ ~saved
             a == [app EXCEPT !.onboarding = v]
  <2>2. ~Still(a, "op", "epoch") => Ends("op", a)
    BY <2>1
  <2>3. CASE saved = TRUE
    <3>1. v = FALSE
      BY <2>3
    <3>2. a = Onboarded(app)
      BY <3>1, Zenon DEF Onboarded
    <3> HIDE DEF a
    <3> QED
      BY <1>1, <1>2, <2>2, <3>2, OldEnds
  <2>4. CASE saved = FALSE
    <3>1. v = app.onboarding
      BY <2>4, StandsIs DEF Apps
    <3> HIDE DEF v
    <3>2. a = app
      BY <3>1, StandsIs DEF Apps
    <3> HIDE DEF a
    <3> QED
      BY <1>1, <1>2, <2>2, <3>2, OldEnds
  <2> QED
    BY <2>3, <2>4
<1> QED
  BY <1>3, <1>4

\* The recoveries, overtaken by a seal.
LEMMA OldRecovery ==
  ASSUME RoutesInv, Old("op"), \/ EntryAnswer \/ CodeAnswer \/ PromptShown \/ PromptConfirmed
                               \/ PromptRefused \/ PromptCancelled \/ PinReplaced \/ RecoveryRead
  PROVE  Stays(app')
<1>1. Stays(app) /\ Stays(PromptDown(app)) /\ ~Still(app, "op", "epoch")
  BY OldIs, StaysIs DEF Whats
<1>2. EntryAnswer => Ends("op", app)
  BY <1>1 DEF EntryAnswer
<1>3. PromptRefused \/ PromptCancelled => Ends("op", PromptDown(app))
  BY DEF PromptRefused, PromptCancelled, PromptDown
<1>4. CASE CodeAnswer \/ PromptShown \/ PromptConfirmed \/ PinReplaced \/ RecoveryRead
  <2>1. /\ task["op"].kind \in {"code", "sysrec", "newpin"}
        /\ task["op"].pc \in {"check", "prepare", "prompt", "replace", "read"}
    <3>1. \/ At("op", "code", "check") \/ At("op", "sysrec", "prepare") \/ At("op", "sysrec", "prompt")
          \/ At("op", "newpin", "replace") \/ At("op", "newpin", "read")
      BY <1>4 DEF CodeAnswer, PromptShown, PromptConfirmed, PinReplaced, RecoveryRead
    <3> QED
      BY ONLY <3>1 DEF At
  <2>2. ~Still(app, "op", "auth")
    BY <2>1, OldIs
  <2>3. CodeAnswer \/ PromptShown => Ends("op", app)
    BY <2>2 DEF CodeAnswer, PromptShown
  <2>4. PromptConfirmed => Ends("op", PromptDown(app))
    BY <2>2 DEF PromptConfirmed, PromptDown
  <2>5. PinReplaced \/ RecoveryRead => RecoveryRefused(LockAccess(app))
    BY <2>2 DEF PinReplaced, RecoveryRead
  <2> QED
    BY <1>1, <1>4, <2>3, <2>4, <2>5, OldEnds, OldFreed
<1> QED
  BY <1>1, <1>2, <1>3, <1>4, OldEnds

\* The recovery code and the reset, overtaken by a seal.
LEMMA OldCode ==
  ASSUME RoutesInv, Old("op"), CodeIssued \/ CodeConfirmed \/ ResetFlushed
  PROVE  Stays(app')
<1>1. /\ Stays(app) /\ Stays(Issues(app)) /\ Stays(Unissues(Issues(app))) /\ Stays(Consumes(app))
      /\ ~Still(app, "op", "epoch")
  BY OldIs, StaysIs DEF Whats
<1>2. ~Still(Issues(app), "op", "epoch") /\ ~Still(Consumes(app), "op", "epoch")
  BY <1>1 DEF Stays, Whats
<1>3. CASE CodeIssued
  <2> DEFINE a == Issues(app)
  <2>1. \/ Ends("op", app)
        \/ Ends("op", IF ~(Still(a, "op", "epoch") /\ Still(a, "op", "codepin")) THEN Unissues(a)
                      ELSE IF a.issue THEN ShowCode(a) ELSE a)
    BY <1>3 DEF CodeIssued, Issues, Unseen, Unissues
  <2> HIDE DEF a
  <2>2. Ends("op", app) \/ Ends("op", Unissues(a))
    BY <1>2, <2>1 DEF a
  <2> QED
    BY <1>1, <2>2, OldEnds DEF a
<1>4. CASE CodeConfirmed
  <2> DEFINE a == Consumes(app)
             ok == Still(app, "op", "auth") /\ app.open /\ app.issue
  <2>1. \/ Ends("op", app)
        \/ IF ok /\ Still(a, "op", "epoch") /\ Still(a, "op", "codeshow")
           THEN Resume("op", ClearSecret(a), "confirm") ELSE Ends("op", a)
    BY <1>4 DEF CodeConfirmed, Consumes
  <2> HIDE DEF ok
  <2>2. Ends("op", app) \/ Ends("op", a)
    BY <1>2, <2>1
  <2> HIDE DEF a
  <2> QED
    BY <1>1, <2>2, OldEnds DEF a
<1>5. CASE ResetFlushed
  <2>1. Ends("op", app)
    BY <1>1, <1>5 DEF ResetFlushed
  <2> QED
    BY <1>1, <2>1, OldEnds
<1> QED
  BY <1>3, <1>4, <1>5

\* The offer of a code, overtaken by a seal.
LEMMA OldOffer ==
  ASSUME RoutesInv, Old("op"), OfferFlushed, task'["op"] # task["op"]
  PROVE  Stays(app')
<1>1. Stays(app) /\ ~Still(app, "op", "gen")
  BY OldIs DEF Whats
<1>2. PICK t \in {"op", "side"} :
        \/ Ends(t, IF ~Still(app, t, "gen") THEN app
                   ELSE IF ~Still(app, t, "epoch") THEN ChatsAway(app)
                   ELSE Replace(NewView(ClearSecret(ChatsAway(app)), "codepin"), "codepin"))
        \/ Ends(t, IF Still(app, t, "gen") THEN Unsecures(app) ELSE app)
  BY DEF OfferFlushed, ChatsAway, Unsecures
<1>3. t = "op"
  BY <1>2, StandsIs, EndsIs DEF MovesTo, Tasks
<1>4. Ends("op", app)
  BY <1>1, <1>2, <1>3
<1> QED
  BY <1>1, <1>4, OldEnds

\* The return to the chats, overtaken by a seal.
LEMMA OldShown ==
  ASSUME RoutesInv, Old("op"), WorkspaceShown, task'["op"] # task["op"]
  PROVE  Stays(app')
<1>1. Stays(app) /\ ~Still(app, "op", "gen")
  BY OldIs DEF Whats
<1> DEFINE A(t, ok) ==
      IF ~Still(app, t, "gen") THEN app
      ELSE IF ~ok \/ ~app.open THEN ShowError(Loosens(app))
      ELSE IF Still(app, t, "workspace") THEN ChatsUp(app) ELSE app
<1>2. PICK t \in {"op", "side"}, ok \in BOOLEAN :
        /\ task[t].pc = "show"
        /\ CASE task[t].kind = "newpin" -> Offer("op", "op", A(t, ok), "newpin")
             [] task[t].kind = "cont" -> Offer("op", "side", Forget(A(t, ok), "op"), "cont")
             [] OTHER -> Ends(t, A(t, ok))
  BY DEF WorkspaceShown, Loosens, ChatsUp
<1> DEFINE a == A(t, ok)
<1>3. /\ task[t].kind = "newpin" => Offer("op", "op", a, "newpin")
      /\ task[t].kind = "cont" => Offer("op", "side", Forget(a, "op"), "cont")
      /\ task[t].kind \notin {"newpin", "cont"} => Ends(t, a)
  BY <1>2
<1>4. t = "op" => a = app
  BY <1>1
<1> HIDE DEF a
<1>5. CASE t = "side"
  <2>1. task["side"].kind \notin {"newpin", "cont"}
    BY <1>2, <1>5 DEF RoutesInv, InOrder, In
  <2> QED
    BY <1>3, <1>5, <2>1, StandsIs, EndsIs DEF MovesTo, Tasks
<1>6. CASE t = "op"
  <2>1. ~app.session
    BY <1>1, <1>2, <1>6 DEF RoutesInv, Generations
  <2>2. ~Forget(app, "op").session /\ Forget(Forget(app, "op"), "op") = Forget(app, "op")
    BY <2>1, StandsIs, ForgetIs, ForgetTwice DEF Kept
  <2>3. Offer("op", "op", app, "newpin") => Ends("op", app)
    BY <2>1 DEF Offer
  <2>4. Offer("op", "side", Forget(app, "op"), "cont") => Ends("op", Forget(app, "op"))
    BY <2>2 DEF Offer
  <2>5. Stays(Forget(app, "op"))
    BY <1>1, StaysIs
  <2> QED
    BY <1>1, <1>3, <1>4, <1>6, <2>3, <2>4, <2>5, OldEnds
<1> QED
  BY <1>5, <1>6

\* No step that moves an old operation changes the page, the session or the
\* views.
LEMMA OldQuietStep ==
  ASSUME RoutesInv, [Next]_vars, Old("op"), task'["op"] # task["op"]
  PROVE  Stays(app')
<1>1. OpMoves \/ PromptConfirmed \/ PromptRefused
  BY OthersLeaveOp, OldBeginsNothing DEF Next, vars
<1>2. CASE OpMoves
  BY <1>2, OldKey, OldSetup, OldLogin, OldStep, OldRecovery, OldCode, OldOffer, OldShown DEF OpMoves
<1> QED
  BY <1>1, <1>2, OldRecovery

\* An operation of app.py that was suspended when a seal began changes neither the
\* page nor the session when it goes on, for any number of operations and seals.
THEOREM OldAlwaysStaysQuiet == Spec => OldStaysQuiet
<1>1. RoutesInv /\ [Next]_vars =>
        [Old("op") /\ task'["op"] # task["op"] =>
            app'.page = app.page /\ app'.session = app.session /\ app'.views = app.views]_vars
  BY OldQuietStep DEF Stays
<1> QED
  BY RoutesInvariant, <1>1, PTL DEF Spec, OldStaysQuiet

=============================================================================
