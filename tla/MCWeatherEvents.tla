--------------------------- MODULE MCWeatherEvents ---------------------------
(* An instance of WeatherEvents for TLC: two conditions, rain under either of *)
(* the dry and wet ones (Open-Meteo reports both), and a few temperatures.    *)
EXTENDS WeatherEvents
W(condition, raining, temperature) ==
    [condition |-> condition, raining |-> raining, temperature |-> temperature]
Start == W("clear", FALSE, 1)
Scenarios == {Start, W("clear", FALSE, 2), W("rain", TRUE, 2)}
Weathers == Scenarios \cup {W("clear", FALSE, 3), W("clear", TRUE, 2)}
=============================================================================
