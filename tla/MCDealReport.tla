---------------------------- MODULE MCDealReport ----------------------------
(* An administrator and a salesperson, the records a CRM starts with, and  *)
(* five portals: what crm.item.list declares, and what of that it applies. *)
EXTENDS DealReport

CONSTANTS admin, clerk

Rec(in, owner, column) == [here |-> TRUE, in |-> in, owner |-> owner, column |-> column]

ShapesOfDeals ==
    { Rec({"created", "moved"}, admin, "namesake"), Rec({"moved", "updated"}, clerk, "named"),
      Rec({}, admin, "named"), Gone }

Portal(declares, applies) == [declares |-> declares, applies |-> applies]

PortalsOfDeals ==
    { Portal(Key, Key), Portal(Key, {"created", "moved"}), Portal(Key, {}),
      Portal({"created"}, {"created"}), Portal(Leg, Leg) }

FiltersOfAViewer == { {}, {clerk} }
=============================================================================
