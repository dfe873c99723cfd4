--------------------------- MODULE MCTradeExchange ---------------------------
(* TradeExchange with one item each and one on the ground.                   *)
EXTENDS TradeExchange

MCStartItems == [p \in Players |-> IF p = first THEN {"sword"} ELSE {"ring"}]
MCStartGold  == [p \in Players |-> IF p = first THEN 1 ELSE 0]
\* Gold alone is enough where only one side's goods matter.
MCOneSword   == [p \in Players |-> IF p = first THEN {"sword"} ELSE {}]
MCNoGold     == [p \in Players |-> 0]
MCOneGold    == [p \in Players |-> IF p = second THEN 1 ELSE 0]
MCNoItems    == [p \in Players |-> {}]
=============================================================================
