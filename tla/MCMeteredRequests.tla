-------------------------- MODULE MCMeteredRequests --------------------------
(***************************************************************************)
(* Two people: the owner-admin and one who signs up while the service      *)
(* runs; the first may also be made a member of the second's organization. *)
(***************************************************************************)
EXTENDS MeteredRequests

MCHomeOf ==
  [ann |-> [tenant |-> "t1", workspace |-> "home"], bob |-> [tenant |-> "t2", workspace |-> "desk"]]
MCAge == [home |-> 1, desk |-> 2]
MCInvitations == {Member("ann", "ORG_MEMBER", MCHomeOf["bob"])}
MCCheckouts == {[id |-> "evt1", tenant |-> "t1", plan |-> "PRO"]}
MCCap == [FREE |-> [m \in Metrics |-> 1], PRO |-> [m \in Metrics |-> 2]]
\* One of the platform, one of the workspace, one that swallows its errors.
MCCallable == {"get_news", "list_alerts", "search_memories"}
MCSurfaces == DOMAIN Program
=============================================================================
