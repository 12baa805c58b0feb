---------------------------- MODULE Transformer ----------------------------
(***************************************************************************)
(* From the value of a Kafka message to an event: the decoding of          *)
(* KafkaConsumer.PollMessage, the checks of Processor.ProcessData and      *)
(* MessageTransformer.Transform with its registry of data types, the       *)
(* payloads' Normalize and Validate, and Classify, which decides whether a *)
(* failure is final.  All of it is computation without state.              *)
(*                                                                         *)
(* A JSON object is a function from some field names to values, a value    *)
(* [json |-> "number", is |-> n] or [json |-> "text", is |-> t].  Numbers  *)
(* are integers, power in milliwatts so that volts times milliamperes is   *)
(* exact; rounding of floats is left out.  A text has a word, a case and   *)
(* perhaps blanks around it, and no "|".  SHA-1 is taken to be injective.  *)
(***************************************************************************)
EXTENDS Integers

CONSTANTS
    DataTypesSupported,   \* the argument of NewMessageTransformer
    Samples,              \* the numbers the properties of Normalize quantify over
    Words                 \* the words of the texts that occur

ASSUME SamplesAssumption == Samples \subseteq Int

-----------------------------------------------------------------------------
(* Data types, domains and the registry.                                   *)

Meters == {"energy_meter", "ev_charger", "grid_meter"}
Climate == {"temperature_sensor", "climate_sensor"}

AllDataTypes ==
    Meters \cup Climate \cup {"motion_sensor", "financial_stream", "solar_panel", "battery"}

ParseDataType(s) == IF s \in AllDataTypes THEN s ELSE "unknown"

typeToDomain ==
    [dt \in AllDataTypes \cup {"unknown"} |->
        IF dt = "unknown" THEN "unknown"
        ELSE IF dt = "financial_stream" THEN "finance" ELSE "energy"]

ParseDomainType(s) == typeToDomain[ParseDataType(s)]

\* What init registers: the payload and the entity of a data type.  Three valid
\* types are not registered.
registry ==
    [dt \in Meters \cup Climate \cup {"financial_stream", "unknown"} |->
        [payload |-> IF dt \in Meters THEN "EnergyReading"
                     ELSE IF dt \in Climate THEN "EnvironmentalSensor"
                     ELSE IF dt = "unknown" THEN "UnknownEvent" ELSE "FinancialTransaction",
         entity_type |-> IF dt \in {"financial_stream", "ev_charger"} THEN "device"
                         ELSE IF dt = "unknown" THEN "unknown" ELSE "sensor",
         source |-> dt]]

domainsSupported == {typeToDomain[dt] : dt \in DataTypesSupported}

isDomainSupported(domain) == DataTypesSupported = {} \/ domain \in domainsSupported

-----------------------------------------------------------------------------
(* Payloads.                                                               *)

EnergyFields == {"power_w", "energy_wh", "voltage_v", "current_ma"}
ClimateFields == {"temperature_c", "humidity_percent", "air_quality_index"}
TextFields == {"currency", "merchant", "status"}

Fields ==
    [EnergyReading |-> EnergyFields,
     EnvironmentalSensor |-> ClimateFields,
     FinancialTransaction |-> TextFields \cup {"amount_minor"},
     UnknownEvent |-> {}]

Texts == [word : Words \cup {""}, case : {"lower", "upper", "mixed"}, around : {"", "blanks"}]
Empty == [word |-> "", case |-> "lower", around |-> ""]
TrimSpace(t) == IF t.word = "" THEN Empty ELSE [word |-> t.word, case |-> t.case, around |-> ""]
InCase(t, c) == [word |-> t.word, case |-> c, around |-> t.around]
ToUpper(t) == InCase(t, IF t.word = "" THEN t.case ELSE "upper")
ToLower(t) == InCase(t, "lower")

\* encoding/json refuses a value of the wrong type and leaves a field that is not
\* in the object at zero.
Json == [json : {"number"}, is : Int] \cup [json : {"text"}, is : Texts]
JsonType(f) == IF f \in TextFields THEN "text" ELSE "number"
Mistyped(payload, object) ==
    \E f \in DOMAIN object \cap Fields[payload] : object[f].json # JsonType(f)
Unmarshalled(payload, object) ==
    [f \in Fields[payload] |->
        IF f \in DOMAIN object THEN object[f].is
        ELSE IF f \in TextFields THEN Empty ELSE 0]

NotNegative(x) == IF x < 0 THEN 0 ELSE x
Clamp(x, low, high) == IF x < low THEN low ELSE IF x > high THEN high ELSE x

\* EnergyReading.Normalize.  The code divides the power by ten and multiplies it
\* again, in float64: apart from the last bit that is the power itself, and not
\* "nearest watt" as normalized_message.go:201 says.
NormalizeEnergy(er) ==
    LET c == [f \in EnergyFields |-> NotNegative(er[f])] IN
    [f \in EnergyFields |->
        IF f = "power_w" /\ c["power_w"] = 0 /\ c["voltage_v"] > 0 /\ c["current_ma"] > 0
        THEN c["voltage_v"] * c["current_ma"]
        ELSE c[f]]

\* EnvironmentalSensor.Normalize.
NormalizeClimate(es) ==
    [f \in ClimateFields |->
        IF f = "temperature_c" THEN Clamp(es[f], -50, 100)
        ELSE IF f = "humidity_percent" THEN Clamp(es[f], 0, 100) ELSE Clamp(es[f], 0, 500)]

\* FinancialTransaction.Normalize.
NormalizeTransaction(ft) ==
    [amount_minor |-> ft.amount_minor,
     currency |-> ToUpper(TrimSpace(ft.currency)),
     merchant |-> TrimSpace(ft.merchant),
     status |-> ToLower(TrimSpace(ft.status))]

Normalize(payload, p) ==
    CASE payload = "EnergyReading" -> NormalizeEnergy(p)
      [] payload = "EnvironmentalSensor" -> NormalizeClimate(p)
      [] payload = "FinancialTransaction" -> NormalizeTransaction(p)
      [] payload = "UnknownEvent" -> p

\* The validator's "required" refuses the zero value, so gte=0 means > 0.
ValidEnergy(er) ==
    /\ \A f \in EnergyFields : er[f] > 0
    /\ er["voltage_v"] <= 500

ValidClimate(es) ==
    /\ \A f \in ClimateFields : es[f] # 0
    /\ es["temperature_c"] \in -50 .. 100
    /\ es["humidity_percent"] \in 0 .. 100
    /\ es["air_quality_index"] \in 0 .. 500

ValidTransaction(ft) ==
    /\ ft["amount_minor"] # 0
    /\ \A f \in TextFields : ft[f] # Empty
    /\ ft["status"] \in [word : {"completed", "failed", "pending"}, case : {"lower"}, around : {""}]

Valid(payload, p) ==
    CASE payload = "EnergyReading" -> ValidEnergy(p)
      [] payload = "EnvironmentalSensor" -> ValidClimate(p)
      [] payload = "FinancialTransaction" -> ValidTransaction(p)
      [] payload = "UnknownEvent" -> TRUE

Transactions(numbers) ==
    [amount_minor : numbers, currency : Texts, merchant : Texts, status : Texts]

\* Normalizing a stored payload again changes nothing, so a redelivered message
\* has the row it had before (the three Normalize methods).
NormalizeIsIdempotent ==
    /\ \A er \in [EnergyFields -> Samples] :
        NormalizeEnergy(NormalizeEnergy(er)) = NormalizeEnergy(er)
    /\ \A es \in [ClimateFields -> Samples] :
        NormalizeClimate(NormalizeClimate(es)) = NormalizeClimate(es)
    /\ \A ft \in Transactions(Samples) :
        NormalizeTransaction(NormalizeTransaction(ft)) = NormalizeTransaction(ft)

\* Which readings become events, put in terms of the reading as sent: a missing or
\* negative power is made up for by voltage and current and a climate value above
\* its range is clamped, but zero and what is clamped to zero is refused.  Of a
\* transaction case and blanks do not matter, but an amount of zero is refused and
\* so is a text of blanks (Normalize followed by Validate).
ReadingsAccepted ==
    /\ \A er \in [EnergyFields -> Samples] :
        ValidEnergy(NormalizeEnergy(er)) <=>
            /\ er["energy_wh"] > 0 /\ er["current_ma"] > 0
            /\ er["voltage_v"] \in 1 .. 500
    /\ \A es \in [ClimateFields -> Samples] :
        ValidClimate(NormalizeClimate(es)) <=>
            /\ es["temperature_c"] # 0
            /\ es["humidity_percent"] > 0 /\ es["air_quality_index"] > 0
    /\ \A ft \in Transactions(Samples) :
        ValidTransaction(NormalizeTransaction(ft)) <=>
            /\ ft.amount_minor # 0
            /\ ft.currency.word # "" /\ ft.merchant.word # ""
            /\ ft.status.word \in {"completed", "failed", "pending"}

-----------------------------------------------------------------------------
(* Errors.                                                                 *)

\* An error is the sentinel it wraps, and the class it was given, if any.
Error(sentinel) == [is |-> sentinel, class |-> "none"]
NewTerminalError(err) == [err EXCEPT !.class = "terminal"]

NoError == Error("nil")

Classify(err) ==
    IF err.class # "none" THEN err.class
    ELSE IF err.is \in {"ErrMissingFieldDeviceID", "ErrMissingFieldType",
                        "ErrMissingFieldTimestamp", "ErrUnknownDataType"}
         THEN "terminal" ELSE "transient"

-----------------------------------------------------------------------------
(* Messages.  A raw message is [decodes, msg]: whether its value is the    *)
(* JSON of a DeviceMessage, and which.  Zero is the zero time; metrics has *)
(* a flag for a null or missing object.                                    *)

Zero == [instant |-> 0, zone |-> "UTC"]

\* ValidateRawMessage.
ValidateRawMessage(msg) ==
    IF msg.device_id = "" THEN Error("ErrMissingFieldDeviceID")
    ELSE IF msg.type = "" THEN Error("ErrMissingFieldType")
    ELSE IF msg.timestamp.instant = 0 THEN Error("ErrMissingFieldTimestamp")
    ELSE NoError

\* Processor.ProcessData, on what PollMessage makes of a fetched message.
ProcessData(raw) ==
    IF raw.decodes THEN ValidateRawMessage(raw.msg) ELSE NewTerminalError(Error("decode"))

\* Mutated form: the key lacks the type.
EventID_noType(msg) == <<msg.device_id, "", msg.timestamp>>

\* The business key, with the timestamp formatted in the zone it came with.  The
\* code hashes the three joined by "|"; as a triple they differ also where texts
\* that contain a "|" join to the same one, which the names here do not.
EventID(msg) == <<msg.device_id, msg.type, msg.timestamp>>

\* The error of Transform, in the order of its steps.
TransformError(msg) ==
    LET dt == ParseDataType(msg.type)
        p == Unmarshalled(registry[dt].payload, msg.metrics.object) IN
    IF ~isDomainSupported(ParseDomainType(msg.type)) THEN Error("ErrUnknownDataType")
    ELSE IF dt \notin DOMAIN registry THEN Error("ErrUnknownDataType")
    ELSE IF Mistyped(registry[dt].payload, msg.metrics.object) THEN Error("unmarshal")
    ELSE IF ~Valid(registry[dt].payload, Normalize(registry[dt].payload, p))
         THEN Error("validation")
    ELSE NoError

\* A null object sets the payload itself to nil, and Normalize is called on it.
Panics(msg) ==
    /\ isDomainSupported(ParseDomainType(msg.type))
    /\ ParseDataType(msg.type) \in DOMAIN registry
    /\ msg.metrics.null

\* Mutated form: Normalize is called on a copy of the payload.
Transform_notNormalized(msg) ==
    LET desc == registry[ParseDataType(msg.type)] IN
    [event_id |-> EventID(msg), domain |-> ParseDomainType(msg.type),
     event_type |-> msg.type, entity_id |-> msg.device_id,
     entity_type |-> desc.entity_type, occurred_at |-> msg.timestamp,
     source |-> desc.source,
     data |-> Unmarshalled(desc.payload, msg.metrics.object)]

\* The event of a message that Transform accepts.
Transform(msg) ==
    LET desc == registry[ParseDataType(msg.type)] IN
    [event_id |-> EventID(msg),
     domain |-> ParseDomainType(msg.type),
     event_type |-> msg.type,
     entity_id |-> msg.device_id,
     entity_type |-> desc.entity_type,
     occurred_at |-> msg.timestamp,
     source |-> desc.source,
     data |-> Normalize(desc.payload, Unmarshalled(desc.payload, msg.metrics.object))]

\* What becomes of a message, in the words of IngestPipeline, or a panic.
KindOf(raw) ==
    IF ProcessData(raw) # NoError
    THEN IF raw.decodes THEN "invalid" ELSE "undecodable"
    ELSE IF Panics(raw.msg) THEN "panics"
    ELSE IF TransformError(raw.msg) = NoError THEN "good"
    ELSE IF Classify(TransformError(raw.msg)) = "terminal" THEN "unknownType" ELSE "badPayload"

=============================================================================
