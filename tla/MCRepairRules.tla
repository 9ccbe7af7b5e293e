--------------------------- MODULE MCRepairRules ----------------------------
(* Two items, one with two rows of sn_assets; two policies and two cards.  *)
EXTENDS RepairRules

MCHolds == [r \in {1, 2, 3} |-> IF r = 3 THEN "i2" ELSE "i1"]

Asset(customer, ends, kind) ==
  [valid |-> TRUE, customer |-> customer, begins |-> 1, ends |-> ends, kind |-> kind]
MCAssetData ==
  {Asset("c1", 2, "a"), Asset("c1", 2, "other"), Asset("c1", 1, "a"), Asset("c2", 2, "a"),
   Asset("c1", 2, "semi"), Asset("c1", 0, "a"), [Asset("c1", 2, "a") EXCEPT !.begins = 2]}

Policy(customer, charge, scope, forced) ==
  [active |-> TRUE, customer |-> customer, charge |-> charge, scope |-> scope, forced |-> forced]
MCPolicyData ==
  {Policy("c1", "chargeable", "domestic", FALSE), Policy("c1", "free", "overseas", FALSE),
   Policy("c1", "manual_confirmation", "domestic", FALSE),
   Policy("c1", "chargeable", "domestic", TRUE)}

Card(scope, name, location, address) ==
  [active |-> TRUE, complete |-> TRUE, scope |-> scope, name |-> name, location |-> location,
   code |-> "m1", address |-> address,
   kind |-> IF scope = "domestic" THEN "board_rule" ELSE "scope_default"]
MCCardData ==
  {Card("domestic", "n1", "tianjin", "t1"), Card("domestic", "n2", "tianjin", "t2"),
   Card("domestic", "n2", "beijing", "b1"), Card("overseas", "n1", "beijing", "b1")}

MCDefaultOf == [c \in {"c1"} |-> 2]

MCBoard == [i \in {"i1", "i2"} |-> [code |-> "m1", name |-> IF i = "i1" THEN "n1" ELSE "n3"]]

MCFirstRows ==
  {[r \in 1..3 |-> CASE r = 1 -> data
                      [] r = 2 -> Asset("c1", 2, kind)
                      [] OTHER -> Asset("c1", 2, "a")] :
     data \in MCAssetData, kind \in {"a", "other"}}
MCFirstPolicies ==
  [p \in {1, 2} |-> IF p = 1 THEN Policy("c1", "chargeable", "domestic", FALSE) ELSE Nothing]
MCFirstCards ==
  [k \in {1, 2} |-> IF k = 1 THEN Card("domestic", "n1", "tianjin", "t1") ELSE Nothing]
=============================================================================
