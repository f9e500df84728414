-------------------------------- MODULE MCSite --------------------------------
EXTENDS Site, TLC

CONSTANTS a, b

Two == {a, b}
AnalysesAndWakes == a :> {"analysis", "lookup", "health"} @@ b :> {"wake"}
===============================================================================
