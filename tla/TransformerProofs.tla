------------------------- MODULE TransformerProofs --------------------------
(* What Normalize does to every reading, not only to the sampled ones.     *)
EXTENDS Transformer, TLAPS

LEMMA ProductIsPositive == ASSUME NEW v \in Int, NEW i \in Int, v > 0, i > 0
                           PROVE  v * i \in Int /\ v * i > 0
OBVIOUS

\* What NormalizeEnergy returns, field by field.
LEMMA NormalizedEnergy ==
    ASSUME NEW er \in [EnergyFields -> Int]
    PROVE  /\ NormalizeEnergy(er) \in [EnergyFields -> Int]
           /\ \A f \in EnergyFields \ {"power_w"} :
                NormalizeEnergy(er)[f] = NotNegative(er[f])
           /\ er["power_w"] > 0 => NormalizeEnergy(er)["power_w"] = er["power_w"]
           /\ (er["power_w"] <= 0 /\ er["voltage_v"] > 0 /\ er["current_ma"] > 0) =>
                NormalizeEnergy(er)["power_w"] = er["voltage_v"] * er["current_ma"]
           /\ (er["power_w"] <= 0 /\ ~(er["voltage_v"] > 0 /\ er["current_ma"] > 0)) =>
                NormalizeEnergy(er)["power_w"] = 0
<1> DEFINE c == [f \in EnergyFields |-> NotNegative(er[f])]
<1>1. {"power_w", "voltage_v", "current_ma", "energy_wh"} = EnergyFields
  BY DEF EnergyFields
<1>2. \A f \in EnergyFields : er[f] \in Int /\ c[f] = NotNegative(er[f]) /\ c[f] \in Int
  BY DEF NotNegative
<1>3. NormalizeEnergy(er) =
        [f \in EnergyFields |->
            IF f = "power_w" /\ c["power_w"] = 0 /\ c["voltage_v"] > 0 /\ c["current_ma"] > 0
            THEN c["voltage_v"] * c["current_ma"] ELSE c[f]]
  BY DEF NormalizeEnergy
<1>4. c["voltage_v"] * c["current_ma"] \in Int
  <2>1. c["voltage_v"] \in Int /\ c["current_ma"] \in Int
    BY <1>1, <1>2
  <2> QED
    BY <2>1
<1>5. NormalizeEnergy(er) \in [EnergyFields -> Int]
  <2> HIDE DEF c
  <2> QED
    BY <1>2, <1>3, <1>4
<1>6. \A f \in EnergyFields \ {"power_w"} : NormalizeEnergy(er)[f] = NotNegative(er[f])
  <2> HIDE DEF c
  <2> QED
    BY <1>2, <1>3
<1>7. NormalizeEnergy(er)["power_w"] =
        IF c["power_w"] = 0 /\ c["voltage_v"] > 0 /\ c["current_ma"] > 0
        THEN c["voltage_v"] * c["current_ma"] ELSE c["power_w"]
  <2> HIDE DEF c
  <2> QED
    BY <1>1, <1>3
<1>8. /\ er["power_w"] > 0 => c["power_w"] = er["power_w"]
      /\ er["power_w"] <= 0 => c["power_w"] = 0
      /\ er["voltage_v"] > 0 => c["voltage_v"] = er["voltage_v"]
      /\ er["voltage_v"] <= 0 => c["voltage_v"] = 0
      /\ er["current_ma"] > 0 => c["current_ma"] = er["current_ma"]
      /\ er["current_ma"] <= 0 => c["current_ma"] = 0
  <2>1. \A f \in EnergyFields : (er[f] > 0 => c[f] = er[f]) /\ (er[f] <= 0 => c[f] = 0)
    BY <1>2 DEF NotNegative
  <2> HIDE DEF c
  <2> QED
    BY <1>1, <2>1
<1> HIDE DEF c
<1>9. er["power_w"] \in Int /\ er["voltage_v"] \in Int /\ er["current_ma"] \in Int
  BY <1>1, <1>2
<1>10. er["power_w"] > 0 => NormalizeEnergy(er)["power_w"] = er["power_w"]
  BY <1>7, <1>8, <1>9
<1>11. (er["power_w"] <= 0 /\ er["voltage_v"] > 0 /\ er["current_ma"] > 0) =>
          NormalizeEnergy(er)["power_w"] = er["voltage_v"] * er["current_ma"]
  BY <1>7, <1>8, <1>9
<1>12. (er["power_w"] <= 0 /\ ~(er["voltage_v"] > 0 /\ er["current_ma"] > 0)) =>
          NormalizeEnergy(er)["power_w"] = 0
  BY <1>7, <1>8, <1>9
<1> QED
  BY <1>5, <1>6, <1>10, <1>11, <1>12

-----------------------------------------------------------------------------
LEMMA SampledReadings ==
    /\ \A er \in [EnergyFields -> Samples] : er \in [EnergyFields -> Int]
    /\ \A es \in [ClimateFields -> Samples] : es \in [ClimateFields -> Int]
BY SamplesAssumption

LEMMA EnergyIsIdempotent ==
    ASSUME NEW er \in [EnergyFields -> Int]
    PROVE  NormalizeEnergy(NormalizeEnergy(er)) = NormalizeEnergy(er)
<1> DEFINE n == NormalizeEnergy(er)
           nn == NormalizeEnergy(n)
<1>1. n \in [EnergyFields -> Int]
  BY NormalizedEnergy
<1>2. nn \in [EnergyFields -> Int]
  <2> HIDE DEF n
  <2> QED
    BY <1>1, NormalizedEnergy
<1>3. {"power_w", "voltage_v", "current_ma", "energy_wh"} = EnergyFields
  BY DEF EnergyFields
<1>4. \A f \in EnergyFields \ {"power_w"} : n[f] = NotNegative(er[f]) /\ nn[f] = NotNegative(n[f])
  <2>1. \A f \in EnergyFields \ {"power_w"} : n[f] = NotNegative(er[f])
    BY NormalizedEnergy
  <2> HIDE DEF n
  <2>2. \A f \in EnergyFields \ {"power_w"} : nn[f] = NotNegative(n[f])
    BY <1>1, NormalizedEnergy
  <2> QED
    BY <2>1, <2>2
<1>5. \A f \in EnergyFields \ {"power_w"} : nn[f] = n[f]
  <2> HIDE DEF n, nn
  <2>1. \A f \in EnergyFields : er[f] \in Int
    OBVIOUS
  <2> QED
    BY <1>4, <2>1 DEF NotNegative
<1>6. nn["power_w"] = n["power_w"]
  <2>1. /\ n["power_w"] > 0 => nn["power_w"] = n["power_w"]
        /\ (n["power_w"] <= 0 /\ ~(n["voltage_v"] > 0 /\ n["current_ma"] > 0)) => nn["power_w"] = 0
    <3> HIDE DEF n
    <3> QED
      BY <1>1, NormalizedEnergy
  <2>2. /\ er["power_w"] > 0 => n["power_w"] = er["power_w"]
        /\ (er["power_w"] <= 0 /\ er["voltage_v"] > 0 /\ er["current_ma"] > 0) =>
             n["power_w"] = er["voltage_v"] * er["current_ma"]
        /\ (er["power_w"] <= 0 /\ ~(er["voltage_v"] > 0 /\ er["current_ma"] > 0)) =>
             n["power_w"] = 0
    BY NormalizedEnergy
  <2>3. /\ er["power_w"] \in Int /\ er["voltage_v"] \in Int /\ er["current_ma"] \in Int
        /\ n["power_w"] \in Int
    <3> HIDE DEF n
    <3> QED
      BY <1>1, <1>3
  <2>4. (er["voltage_v"] > 0 /\ er["current_ma"] > 0) => er["voltage_v"] * er["current_ma"] > 0
    BY <2>3, ProductIsPositive
  <2>5. /\ n["voltage_v"] = NotNegative(er["voltage_v"])
        /\ n["current_ma"] = NotNegative(er["current_ma"])
    <3> HIDE DEF n, nn
    <3> QED
      BY <1>3, <1>4
  <2>6. (n["voltage_v"] > 0 <=> er["voltage_v"] > 0) /\ (n["current_ma"] > 0 <=> er["current_ma"] > 0)
    <3> HIDE DEF n
    <3> QED
      BY <2>3, <2>5 DEF NotNegative
  <2> HIDE DEF n, nn
  <2>7. CASE n["power_w"] > 0
    BY <2>1, <2>7
  <2>8. CASE n["power_w"] <= 0
    <3>1. ~(er["voltage_v"] > 0 /\ er["current_ma"] > 0)
      <4>1. CASE er["power_w"] > 0
        BY <4>1, <2>2, <2>3, <2>8
      <4>2. CASE er["power_w"] <= 0
        BY <4>2, <2>2, <2>3, <2>4, <2>8
      <4> QED
        BY <4>1, <4>2, <2>3
    <3>2. nn["power_w"] = 0
      BY <3>1, <2>1, <2>6, <2>8
    <3>3. n["power_w"] = 0
      BY <3>1, <2>2, <2>3, <2>8
    <3> QED
      BY <3>2, <3>3
  <2> QED
    BY <2>3, <2>7, <2>8
<1> HIDE DEF n, nn
<1>7. \A f \in EnergyFields : nn[f] = n[f]
  BY <1>5, <1>6
<1>8. nn = n
  BY <1>1, <1>2, <1>7
<1> QED
  BY <1>8 DEF n, nn

LEMMA ClimateIsIdempotent ==
    ASSUME NEW es \in [ClimateFields -> Int]
    PROVE  NormalizeClimate(NormalizeClimate(es)) = NormalizeClimate(es)
<1>1. ASSUME NEW x \in Int, NEW low \in Int, NEW high \in Int, low <= high
      PROVE  Clamp(x, low, high) \in Int /\ Clamp(Clamp(x, low, high), low, high) = Clamp(x, low, high)
  BY <1>1 DEF Clamp
<1> DEFINE clamped(f, x) ==
             IF f = "temperature_c" THEN Clamp(x, -50, 100)
             ELSE IF f = "humidity_percent" THEN Clamp(x, 0, 100) ELSE Clamp(x, 0, 500)
<1>2. \A f \in ClimateFields, x \in Int :
         clamped(f, x) \in Int /\ clamped(f, clamped(f, x)) = clamped(f, x)
  <2>1. \A x \in Int :
          /\ Clamp(x, -50, 100) \in Int /\ Clamp(Clamp(x, -50, 100), -50, 100) = Clamp(x, -50, 100)
          /\ Clamp(x, 0, 100) \in Int /\ Clamp(Clamp(x, 0, 100), 0, 100) = Clamp(x, 0, 100)
          /\ Clamp(x, 0, 500) \in Int /\ Clamp(Clamp(x, 0, 500), 0, 500) = Clamp(x, 0, 500)
    BY <1>1
  <2> QED
    BY <2>1
<1>3. \A e \in [ClimateFields -> Int] :
         NormalizeClimate(e) = [f \in ClimateFields |-> clamped(f, e[f])]
  BY DEF NormalizeClimate
<1> HIDE DEF clamped
<1>4. NormalizeClimate(es) \in [ClimateFields -> Int]
  BY <1>2, <1>3
<1>5. \A f \in ClimateFields : NormalizeClimate(NormalizeClimate(es))[f] = NormalizeClimate(es)[f]
  BY <1>2, <1>3, <1>4
<1>6. NormalizeClimate(NormalizeClimate(es)) \in [ClimateFields -> Int]
  BY <1>2, <1>3, <1>4
<1> QED
  BY <1>4, <1>5, <1>6

\* A text settles: once is enough, and only a blank one comes to nothing.
LEMMA TextsAreSettled ==
    ASSUME NEW t \in Texts
    PROVE  LET trimmed == TrimSpace(t)
               upper == ToUpper(trimmed)
               lower == ToLower(trimmed) IN
           /\ trimmed \in Texts /\ upper \in Texts /\ lower \in Texts
           /\ TrimSpace(trimmed) = trimmed
           /\ ToUpper(TrimSpace(upper)) = upper
           /\ ToLower(TrimSpace(lower)) = lower
           /\ trimmed = Empty <=> t.word = ""
           /\ upper = Empty <=> t.word = ""
           /\ lower = [word |-> t.word, case |-> "lower", around |-> ""]
<1> DEFINE r(w, c) == [word |-> w, case |-> c, around |-> ""]
<1>1. t.word \in Words \cup {""} /\ t.case \in {"lower", "upper", "mixed"}
  BY DEF Texts
<1>2. \A w \in Words \cup {""}, c \in {"lower", "upper", "mixed"} : r(w, c) \in Texts
  BY DEF Texts
<1>3. Empty = r("", "lower") /\ \A w, c : w # "" => r(w, c) # Empty
  BY DEF Empty
<1>4. \A w, c : r(w, c).word = w /\ r(w, c).case = c /\ r(w, c).around = ""
  OBVIOUS
<1>5. \A w, c : /\ TrimSpace(r(w, c)) = IF w = "" THEN Empty ELSE r(w, c)
                /\ ToUpper(r(w, c)) = r(w, IF w = "" THEN c ELSE "upper")
                /\ ToLower(r(w, c)) = r(w, "lower")
  BY <1>4, Zenon DEF TrimSpace, ToUpper, ToLower, InCase
<1>6. TrimSpace(t) = IF t.word = "" THEN Empty ELSE r(t.word, t.case)
  BY DEF TrimSpace
<1> HIDE DEF r
<1>7. CASE t.word = ""
  <2>1. TrimSpace(t) = r("", "lower") /\ "" \in Words \cup {""}
    BY <1>3, <1>6, <1>7
  <2>2. /\ TrimSpace(r("", "lower")) = r("", "lower")
        /\ ToUpper(r("", "lower")) = r("", "lower")
        /\ ToLower(r("", "lower")) = r("", "lower")
    BY <1>3, <1>5
  <2> QED
    BY <1>2, <1>3, <1>7, <2>1, <2>2 DEF r
<1>8. CASE t.word # ""
  <2>1. TrimSpace(t) = r(t.word, t.case)
    BY <1>6, <1>8
  <2>2. \A c : /\ TrimSpace(r(t.word, c)) = r(t.word, c)
               /\ ToUpper(r(t.word, c)) = r(t.word, "upper")
               /\ ToLower(r(t.word, c)) = r(t.word, "lower")
               /\ r(t.word, c) # Empty
    BY <1>3, <1>5, <1>8
  <2>3. \A c \in {"lower", "upper", "mixed"} : r(t.word, c) \in Texts
    BY <1>1, <1>2
  <2> QED
    BY <1>1, <1>8, <2>1, <2>2, <2>3 DEF r
<1> QED
  BY <1>7, <1>8

LEMMA TransactionIsIdempotent ==
    ASSUME NEW numbers, NEW ft \in Transactions(numbers)
    PROVE  NormalizeTransaction(NormalizeTransaction(ft)) = NormalizeTransaction(ft)
<1> DEFINE n == NormalizeTransaction(ft)
<1>1. ft.currency \in Texts /\ ft.merchant \in Texts /\ ft.status \in Texts
        /\ ft.amount_minor \in numbers
  BY DEF Transactions
<1>2. n = [amount_minor |-> ft.amount_minor, currency |-> ToUpper(TrimSpace(ft.currency)),
           merchant |-> TrimSpace(ft.merchant), status |-> ToLower(TrimSpace(ft.status))]
  BY DEF NormalizeTransaction
<1> HIDE DEF n
<1>3. n \in Transactions(numbers)
  BY <1>1, <1>2, TextsAreSettled DEF Transactions
<1>4. NormalizeTransaction(n) =
        [amount_minor |-> n.amount_minor, currency |-> ToUpper(TrimSpace(n.currency)),
         merchant |-> TrimSpace(n.merchant), status |-> ToLower(TrimSpace(n.status))]
  BY DEF NormalizeTransaction
<1>5. /\ ToUpper(TrimSpace(n.currency)) = n.currency
      /\ TrimSpace(n.merchant) = n.merchant
      /\ ToLower(TrimSpace(n.status)) = n.status
  BY <1>1, <1>2, TextsAreSettled
<1> QED
  BY <1>2, <1>4, <1>5 DEF n

\* For every reading, not only the sampled ones, a second Normalize changes
\* nothing (the three Normalize methods).
THEOREM NormalizeTwiceIsOnce == NormalizeIsIdempotent
<1>1. \A er \in [EnergyFields -> Samples] :
         NormalizeEnergy(NormalizeEnergy(er)) = NormalizeEnergy(er)
  BY SampledReadings, EnergyIsIdempotent
<1>2. \A es \in [ClimateFields -> Samples] :
         NormalizeClimate(NormalizeClimate(es)) = NormalizeClimate(es)
  BY SampledReadings, ClimateIsIdempotent
<1>3. \A ft \in Transactions(Samples) :
         NormalizeTransaction(NormalizeTransaction(ft)) = NormalizeTransaction(ft)
  BY TransactionIsIdempotent
<1> QED
  BY <1>1, <1>2, <1>3 DEF NormalizeIsIdempotent

-----------------------------------------------------------------------------
LEMMA EnergyAccepted ==
    ASSUME NEW er \in [EnergyFields -> Int]
    PROVE  ValidEnergy(NormalizeEnergy(er)) <=>
              /\ er["energy_wh"] > 0 /\ er["current_ma"] > 0
              /\ er["voltage_v"] \in 1 .. 500
<1> DEFINE n == NormalizeEnergy(er)
<1>1. {"power_w", "voltage_v", "current_ma", "energy_wh"} = EnergyFields
  BY DEF EnergyFields
<1>2. /\ n["voltage_v"] = NotNegative(er["voltage_v"])
      /\ n["current_ma"] = NotNegative(er["current_ma"])
      /\ n["energy_wh"] = NotNegative(er["energy_wh"])
  BY <1>1, NormalizedEnergy
<1>3. /\ er["power_w"] \in Int /\ er["voltage_v"] \in Int /\ er["current_ma"] \in Int
      /\ er["energy_wh"] \in Int
  BY <1>1
<1>4. (er["voltage_v"] > 0 /\ er["current_ma"] > 0) => n["power_w"] > 0
  <2>1. /\ er["power_w"] > 0 => n["power_w"] = er["power_w"]
        /\ (er["power_w"] <= 0 /\ er["voltage_v"] > 0 /\ er["current_ma"] > 0) =>
             n["power_w"] = er["voltage_v"] * er["current_ma"]
    BY NormalizedEnergy
  <2>2. (er["voltage_v"] > 0 /\ er["current_ma"] > 0) => er["voltage_v"] * er["current_ma"] > 0
    BY <1>3, ProductIsPositive
  <2> HIDE DEF n
  <2> QED
    BY <1>3, <2>1, <2>2
<1>5. ValidEnergy(n) <=> /\ n["power_w"] > 0 /\ n["voltage_v"] > 0
                         /\ n["current_ma"] > 0 /\ n["energy_wh"] > 0
                         /\ n["voltage_v"] <= 500
  <2> HIDE DEF n
  <2> QED
    BY <1>1 DEF ValidEnergy
<1> HIDE DEF n
<1>6. ValidEnergy(n) <=>
        /\ er["energy_wh"] > 0 /\ er["current_ma"] > 0
        /\ er["voltage_v"] > 0 /\ er["voltage_v"] <= 500
  BY <1>2, <1>3, <1>4, <1>5 DEF NotNegative
<1>7. er["voltage_v"] \in 1 .. 500 <=> er["voltage_v"] > 0 /\ er["voltage_v"] <= 500
  BY <1>3
<1> QED
  BY <1>6, <1>7 DEF n

LEMMA ClimateAccepted ==
    ASSUME NEW es \in [ClimateFields -> Int]
    PROVE  ValidClimate(NormalizeClimate(es)) <=>
              /\ es["temperature_c"] # 0
              /\ es["humidity_percent"] > 0 /\ es["air_quality_index"] > 0
<1> DEFINE n == NormalizeClimate(es)
<1>1. {"temperature_c", "humidity_percent", "air_quality_index"} = ClimateFields
  BY DEF ClimateFields
<1>2. /\ n["temperature_c"] = Clamp(es["temperature_c"], -50, 100)
      /\ n["humidity_percent"] = Clamp(es["humidity_percent"], 0, 100)
      /\ n["air_quality_index"] = Clamp(es["air_quality_index"], 0, 500)
  BY <1>1 DEF NormalizeClimate
<1>3. /\ es["temperature_c"] \in Int /\ es["humidity_percent"] \in Int
      /\ es["air_quality_index"] \in Int
  BY <1>1
<1>4. ValidClimate(n) <=>
        /\ n["temperature_c"] # 0 /\ n["humidity_percent"] # 0 /\ n["air_quality_index"] # 0
        /\ n["temperature_c"] \in -50 .. 100
        /\ n["humidity_percent"] \in 0 .. 100
        /\ n["air_quality_index"] \in 0 .. 500
  <2> HIDE DEF n
  <2> QED
    BY <1>1 DEF ValidClimate
<1> HIDE DEF n
<1>5. /\ n["temperature_c"] \in -50 .. 100 /\ (n["temperature_c"] # 0 <=> es["temperature_c"] # 0)
      /\ n["humidity_percent"] \in 0 .. 100 /\ (n["humidity_percent"] # 0 <=> es["humidity_percent"] > 0)
      /\ n["air_quality_index"] \in 0 .. 500 /\ (n["air_quality_index"] # 0 <=> es["air_quality_index"] > 0)
  BY <1>2, <1>3 DEF Clamp
<1> QED
  BY <1>4, <1>5 DEF n

LEMMA TransactionAccepted ==
    ASSUME NEW numbers, NEW ft \in Transactions(numbers)
    PROVE  ValidTransaction(NormalizeTransaction(ft)) <=>
              /\ ft.amount_minor # 0
              /\ ft.currency.word # "" /\ ft.merchant.word # ""
              /\ ft.status.word \in {"completed", "failed", "pending"}
<1> DEFINE n == NormalizeTransaction(ft)
<1>1. ft.currency \in Texts /\ ft.merchant \in Texts /\ ft.status \in Texts
  BY DEF Transactions
<1>2. n = [amount_minor |-> ft.amount_minor, currency |-> ToUpper(TrimSpace(ft.currency)),
           merchant |-> TrimSpace(ft.merchant), status |-> ToLower(TrimSpace(ft.status))]
  BY DEF NormalizeTransaction
<1> HIDE DEF n
<1>3. /\ n["currency"] # Empty <=> ft.currency.word # ""
      /\ n["merchant"] # Empty <=> ft.merchant.word # ""
  BY <1>1, <1>2, TextsAreSettled
<1>4. n["status"] = [word |-> ft.status.word, case |-> "lower", around |-> ""]
  BY <1>1, <1>2, TextsAreSettled
<1> DEFINE Written(w) == [word |-> w, case |-> "lower", around |-> ""]
           known == {"completed", "failed", "pending"}
           spelt == [word : known, case : {"lower"}, around : {""}]
<1>5. \A w : /\ Written(w) \in spelt <=> w \in known
             /\ w \in known => Written(w) # Empty
  BY DEF Empty
<1>6. n["status"] = Written(ft.status.word)
  BY <1>4
<1>7. n["amount_minor"] = ft.amount_minor
  BY <1>2
<1> HIDE DEF Written, spelt
<1>8. ValidTransaction(n) <=>
        /\ n["amount_minor"] # 0
        /\ n["currency"] # Empty /\ n["merchant"] # Empty /\ n["status"] # Empty
        /\ n["status"] \in spelt
  BY Zenon DEF ValidTransaction, TextFields, spelt
<1>9. /\ n["status"] \in spelt <=> ft.status.word \in known
      /\ ft.status.word \in known => n["status"] # Empty
  BY <1>5, <1>6, Zenon
<1> HIDE DEF known
<1>10. ValidTransaction(n) <=>
        /\ ft.amount_minor # 0
        /\ ft.currency.word # "" /\ ft.merchant.word # ""
        /\ ft.status.word \in known
  BY <1>3, <1>7, <1>8, <1>9, Zenon
<1> QED
  BY <1>10 DEF n, known

\* For every reading, Normalize followed by Validate accepts exactly those whose
\* required fields, the power excepted, are not zero and not clamped to zero; for
\* every transaction, those with an amount, texts that are not blank and a status
\* of the three, however it is spelt.
THEOREM AcceptanceIsExact == ReadingsAccepted
<1>1. \A er \in [EnergyFields -> Samples] :
         ValidEnergy(NormalizeEnergy(er)) <=>
            /\ er["energy_wh"] > 0 /\ er["current_ma"] > 0
            /\ er["voltage_v"] \in 1 .. 500
  BY SampledReadings, EnergyAccepted
<1>2. \A es \in [ClimateFields -> Samples] :
         ValidClimate(NormalizeClimate(es)) <=>
            /\ es["temperature_c"] # 0
            /\ es["humidity_percent"] > 0 /\ es["air_quality_index"] > 0
  BY SampledReadings, ClimateAccepted
<1>3. \A ft \in Transactions(Samples) :
         ValidTransaction(NormalizeTransaction(ft)) <=>
            /\ ft.amount_minor # 0
            /\ ft.currency.word # "" /\ ft.merchant.word # ""
            /\ ft.status.word \in {"completed", "failed", "pending"}
  BY TransactionAccepted
<1> QED
  BY <1>1, <1>2, <1>3 DEF ReadingsAccepted

=============================================================================
