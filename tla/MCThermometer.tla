--------------------------- MODULE MCThermometer ---------------------------
(* Instances of Thermometer for TLC. *)
EXTENDS Thermometer

ThreeChannels == 0 .. 2

Sensor(kind, a, places) ==
  {[kind |-> kind, addr |-> a, channel |-> p.channel, mux |-> p.mux] : p \in places}

OnBus == [channel |-> NoChannel, mux |-> FALSE]
BesideMux == [channel |-> NoChannel, mux |-> TRUE]
OnChannel(c) == [channel |-> c, mux |-> TRUE]

EverySensor ==
  Sensor("shtc3", ADDR_SHTC3, {OnBus})
    \cup UNION {Sensor(s[1], s[2], {OnBus, BesideMux} \cup {OnChannel(c) : c \in ThreeChannels}) :
                  s \in {<<"sht3x", ADDR_SHT3X_1>>, <<"sht3x", ADDR_SHT3X_2>>,
                         <<"aht20", ADDR_AHT20>>, <<"si7021", ADDR_SI7021>>}}
=============================================================================
