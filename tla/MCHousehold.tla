---------------------------- MODULE MCHousehold ----------------------------
(***************************************************************************)
(* Two kiosks and three names, two of which are alike; two observers of    *)
(* presence; two device flows for two accounts and one request that        *)
(* refreshes; two mailboxes, Ann's calendar shared into Bob's and a feed   *)
(* whose owner Graph does not report.                                      *)
(***************************************************************************)
EXTENDS Household, TLC

CONSTANTS milk, milks, eggs

MCKey == milk :> 1 @@ milks :> 1 @@ eggs :> 2

Cal(id, owner, default, events) ==
  [id |-> id, owner |-> owner, default |-> default, hidden |-> id = "junk", events |-> events]

MCUsers == <<"ann", "bob">>
MCMailbox ==
  [ann |-> {Cal("main", "ann", TRUE, {"lunch", "camp"}), Cal("school", "ann", FALSE, {"exam"}),
            Cal("junk", "ann", FALSE, {"ad"})},
   bob |-> {Cal("main", "bob", TRUE, {"gym"}), Cal("ofann", "ann", FALSE, {"lunch", "camp"}),
            Cal("feed", "unreported", FALSE, {"exam"})}]
=============================================================================
