-------------------------- MODULE MCWeatherStation --------------------------
(* Instances of WeatherStation for TLC. *)
EXTENDS WeatherStation
=============================================================================
