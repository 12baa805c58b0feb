------------------------- MODULE MCSequentialIngest -------------------------
(* Messages for TLC: two of one business key, one of the same instant in   *)
(* another zone, one of another type, and one for each way to be refused.  *)
EXTENDS SequentialIngest, TLC

Number(n) == [json |-> "number", is |-> n]
Text(word) == [json |-> "text", is |-> [word |-> word, case |-> "lower", around |-> "blanks"]]

Noon(zone) == [instant |-> 12, zone |-> zone]
Object(fields) == [null |-> FALSE, object |-> fields]
Null == [null |-> TRUE, object |-> <<>>]

Message(device, type, timestamp, metrics) ==
    [decodes |-> TRUE,
     msg |-> [device_id |-> device, type |-> type, timestamp |-> timestamp, metrics |-> metrics]]

Energy(power) ==
    Object("power_w" :> Number(power) @@ "energy_wh" :> Number(7)
           @@ "voltage_v" :> Number(230) @@ "current_ma" :> Number(500))
Weather(temperature) ==
    Object("temperature_c" :> Number(temperature) @@ "humidity_percent" :> Number(120)
           @@ "air_quality_index" :> Number(30))
Payment ==
    Object("amount_minor" :> Number(100) @@ "currency" :> Text("eur")
           @@ "merchant" :> Text("shop") @@ "status" :> Text("completed"))

Values ==
    [reading |-> Message("d", "energy_meter", Noon("UTC"), Energy(-1)),
     corrected |-> Message("d", "energy_meter", Noon("UTC"), Energy(9)),
     elsewhere |-> Message("d", "energy_meter", Noon("+01:00"), Energy(9)),
     payment |-> Message("d", "financial_stream", Noon("UTC"), Payment),
     freezing |-> Message("d", "climate_sensor", Noon("UTC"), Weather(0)),
     solar |-> Message("d", "solar_panel", Noon("UTC"), Energy(9)),
     garbage |-> [decodes |-> FALSE],
     empty |-> Message("d", "grid_meter", Noon("UTC"), Null)]

MessageNames == DOMAIN Values

BothModes == {[BatchSize |-> 0, NumWorkers |-> 0], [BatchSize |-> 2, NumWorkers |-> 1]}

SampleNumbers == {-51, -1, 0, 1, 101, 501}
SampleWords == {"eur", "shop", "completed"}

StoreAndStop == {"storeTransient", "storeTerminal", "shutdown", "deadline"}

\* What TransformerProofs proves for all numbers, on a few.
ASSUME NormalizeSamples == NormalizeIsIdempotent /\ ReadingsAccepted

=============================================================================
