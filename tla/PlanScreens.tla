----------------------------- MODULE PlanScreens -----------------------------
(***************************************************************************)
(* The calls of PlanActivity about one plan and a list of PlanPages.  What  *)
(* the pages need of the plans, their dates, is no state of the calls.      *)
(***************************************************************************)
EXTENDS PlanActivity

CONSTANTS Ids, Dates, Limit, MaxPageChanges
VARIABLES kind, now, row, walk, pageChanges

P == INSTANCE PlanPages WITH MaxChanges <- MaxPageChanges, changes <- pageChanges

pageVars == <<kind, now, row, walk, pageChanges>>

\* What PlanPages promises: page by page every row that keeps its place is shown
\* once (listMessages, discover, listPublicFriendGroupPlans).
KeptShownOnce == P!KeptShownOnce
===============================================================================
