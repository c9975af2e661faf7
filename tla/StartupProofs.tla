---------------------------- MODULE StartupProofs ----------------------------
(* Proofs about Startup, for every set of files, environments, reports and resend lists. *)
EXTENDS Startup, FramingProofs

-----------------------------------------------------------------------------
(* Type correctness *)

\* Conversion and overrides keep a configuration in shape.
LEMMA LoadedIsConfig ==
  ASSUME NEW raw \in Files, NEW env \in Environments
  PROVE  applyEnvironmentOverrides(toAppConfig(raw), env) \in Config
<1>1. raw \in Config /\ env \in [{"transport", "broker", "device", "password"} -> Texts]
  BY InputAssumption
<1>2. \A t \in Texts : TrimSpace(t) \in Texts /\ ToLower(t) \in Texts /\ ToUpper(t) \in Texts
  BY TextAssumption
<1>3. toAppConfig(raw) \in Config
  <2>1. \A m \in Meter : MeterOf(m) \in Meter
    BY <1>2 DEF Meter, MeterOf
  <2>2. raw.meters \in Seq(Meter)
    BY <1>1 DEF Config
  <2>3. [i \in DOMAIN raw.meters |-> MeterOf(raw.meters[i])] \in Seq(Meter)
    BY <2>1, <2>2
  <2> QED
    BY <1>1, <1>2, <2>3, TextAssumption DEF Config, toAppConfig
<1>4. /\ env.transport \in Texts /\ env.broker \in Texts
      /\ env.device \in Texts /\ env.password \in Texts
  BY <1>1
<1>5. \A t, v \in Texts : Override(t, v) \in Texts
  BY <1>2 DEF Override
<1> DEFINE With(c, t, b, d, p) ==
      [c EXCEPT !.transport = t, !.broker = b, !.device = d, !.password = p]
<1>6. \A c \in Config : \A t, b, d, p \in Texts : With(c, t, b, d, p) \in Config
  BY ZenonT(60) DEF Config
<1>7. ASSUME NEW c \in Config PROVE applyEnvironmentOverrides(c, env) \in Config
  <2> DEFINE transport == IF Blank(env.transport) THEN c.transport
                          ELSE IF ParseTransport(env.transport) THEN "mqtt" ELSE TrimSpace(env.transport)
             password == IF Blank(env.password) THEN c.password ELSE env.password
  <2>1. c.transport \in Texts /\ c.broker \in Texts /\ c.device \in Texts /\ c.password \in Texts
    BY DEF Config
  <2>2. transport \in Texts /\ password \in Texts
    BY <1>2, <1>4, <2>1, TextAssumption
  <2>3. Override(c.broker, env.broker) \in Texts /\ Override(c.device, env.device) \in Texts
    BY <1>4, <1>5, <2>1
  <2>4. applyEnvironmentOverrides(c, env) =
          With(c, transport, Override(c.broker, env.broker), Override(c.device, env.device), password)
    BY DEF applyEnvironmentOverrides
  <2> HIDE DEF transport, password, With
  <2> QED
    BY <1>6, <2>2, <2>3, <2>4
<1> QED
  BY <1>3, <1>7

\* A report has no more frames than a uint16 counts.
LEMMA FramesFit ==
  ASSUME NEW n \in Nat, NEW chunk \in Int
  PROVE  Len(buildFrames(n, chunk)) <= Limit
<1>1. CASE buildFrames(n, chunk) = Refused
  BY <1>1, LimitAssumption DEF Refused
<1>2. CASE buildFrames(n, chunk) # Refused
  <2>1. /\ FrameTotal(n, chunk) \in 1..Limit
        /\ buildFrames(n, chunk) = [k \in 1..FrameTotal(n, chunk) |-> Frame(k - 1, n, chunk)]
    BY <1>2 DEF buildFrames
  <2> QED
    BY <2>1, LimitAssumption
<1> QED
  BY <1>1, <1>2

LEMMA EmptySequence == \A S : <<>> \in Seq(S) /\ Len(<<>>) = 0
OBVIOUS

LEMMA Elements ==
  ASSUME NEW S, NEW s \in Seq(S)
  PROVE  \A i \in 1..Len(s) : s[i] \in S
OBVIOUS

\* MeterIDs has the id of every meter, in its place.
LEMMA MeterIDsAre ==
  ASSUME NEW c \in Config
  PROVE  /\ Len(c.meters) \in Nat /\ Len(MeterIDs(c)) = Len(c.meters)
         /\ \A i \in 1..Len(c.meters) :
              /\ MeterIDs(c)[i] = c.meters[i].id
              /\ c.meters[i].id \in Int /\ c.meters[i].slave \in 0..255
<1>1. c.meters \in Seq(Meter)
  BY DEF Config
<1>2. \A i \in 1..Len(c.meters) : c.meters[i] \in Meter
  BY <1>1
<1>3. \A i \in 1..Len(c.meters) : c.meters[i].id \in Int /\ c.meters[i].slave \in 0..255
  BY <1>2 DEF Meter
<1>4. Len(c.meters) \in Nat
  BY <1>1
<1> HIDE DEF Config
<1>5. Len(MeterIDs(c)) = Len(c.meters) /\ \A i \in 1..Len(c.meters) : MeterIDs(c)[i] = c.meters[i].id
  BY <1>4 DEF MeterIDs, Column
<1> QED
  BY <1>3, <1>4, <1>5

LEMMA TypeInductive == TypeOK /\ [Next]_vars => TypeOK'
<1> SUFFICES ASSUME TypeOK, [Next]_vars PROVE TypeOK'
  OBVIOUS
<1> USE DEF TypeOK, uploads
<1>1. ASSUME NEW raw \in Files, NEW env \in Environments, Load(raw, env) PROVE TypeOK'
  BY <1>1, LoadedIsConfig DEF Load
<1>2. ASSUME NEW raw \in Files, Given(raw) PROVE TypeOK'
  BY <1>2, InputAssumption DEF Given
<1>3. CASE RunRefuses
  BY <1>3 DEF RunRefuses
<1>4. CASE OpenBus
  BY <1>4 DEF OpenBus
<1>5. CASE NewDriver
  <2>1. PICK c \in cfg : Len(devices) < Len(c.meters) /\ devices' = Append(devices, Following(c).slave)
    BY <1>5 DEF NewDriver
  <2>2. c.meters \in Seq(Meter) /\ Len(devices) \in Nat
    BY <2>1 DEF Config
  <2>3. Following(c) \in Meter
    BY <2>1, <2>2 DEF Following
  <2>4. Following(c).slave \in 0..255
    BY <2>3 DEF Meter
  <2> QED
    BY <1>5, <2>1, <2>4 DEF NewDriver
<1>6. CASE UnknownDriver
  BY <1>6, EmptySequence DEF UnknownDriver
<1>7. CASE Start
  <2>1. PICK c \in cfg :
          /\ Len(devices) = Len(c.meters)
          /\ routes' = {<<MeterIDs(c)[i], devices[i]>> :
                          i \in {k \in 1..Len(MeterIDs(c)) :
                                   \A j \in 1..Len(MeterIDs(c)) : MeterIDs(c)[j] = MeterIDs(c)[k] => j <= k}}
    BY <1>7 DEF Start
  <2>2. /\ Len(MeterIDs(c)) = Len(c.meters) /\ Len(c.meters) \in Nat
        /\ \A i \in 1..Len(c.meters) : MeterIDs(c)[i] \in Int
    BY MeterIDsAre
  <2>3. devices \in Seq(0..255)
    OBVIOUS
  <2>4. \A i \in 1..Len(devices) : devices[i] \in 0..255
    BY <2>3, Elements
  <2>5. ASSUME NEW r \in routes' PROVE r \in Int \X (0..255)
    <3>1. PICK i \in 1..Len(c.meters) : r = <<MeterIDs(c)[i], devices[i]>>
      BY <2>1, <2>2
    <3>2. MeterIDs(c)[i] \in Int /\ devices[i] \in 0..255
      BY <2>1, <2>2, <2>4
    <3> QED
      BY <3>1, <3>2
  <2> QED
    BY <1>7, <2>5 DEF Start
<1>8. CASE NeverReady
  BY <1>8 DEF NeverReady
<1>9. CASE Stop
  BY <1>9 DEF Stop
<1>10. ASSUME NEW n \in Sizes, Report(n) PROVE TypeOK'
  <2>1. PICK c \in cfg : frames' = buildFrames(n, c.chunkSize)
    BY <1>10 DEF Report
  <2>2. n \in Nat /\ c.chunkSize \in Int
    BY InputAssumption DEF Config
  <2> QED
    BY <1>10, <2>1, <2>2, FramesFit DEF Report
<1>11. ASSUME NEW list \in Losses, Resend(list) PROVE TypeOK'
  BY <1>11 DEF Resend
<1>12. CASE UNCHANGED vars
  BY <1>12 DEF vars
<1> QED
  BY <1>1, <1>2, <1>3, <1>4, <1>5, <1>6, <1>7, <1>8, <1>9, <1>10, <1>11, <1>12 DEF Next

\* The state of the start-up keeps its shape (config.go:63-73, app.go:16-27).
THEOREM TypeCorrect == Spec => []TypeOK
<1>1. Init => TypeOK
  <2> SUFFICES ASSUME Init PROVE TypeOK
    OBVIOUS
  <2>1. Len(frames) <= Limit
    BY LimitAssumption, EmptySequence DEF Init, Refused
  <2>2. devices \in Seq(0..255) /\ cfg \subseteq Config /\ routes \subseteq Int \X (0..255)
    BY EmptySequence DEF Init
  <2> QED
    BY <2>1, <2>2 DEF Init, TypeOK
<1> QED
  BY <1>1, TypeInductive, PTL DEF Spec

-----------------------------------------------------------------------------
(* The port *)

\* However a start fails, and when Run returns, the serial port is closed (app.go:59-89, 112-121).
THEOREM PortIsNeverLeaked == Spec => []PortNeverLeaks
<1>1. Init => PortNeverLeaks
  BY DEF Init, PortNeverLeaks
<1>2. TypeOK /\ PortNeverLeaks /\ [Next]_vars => PortNeverLeaks'
  BY DEF TypeOK, PortNeverLeaks, Next, vars, uploads, Load, Given, RunRefuses, OpenBus, NewDriver, UnknownDriver,
         Start, NeverReady, Stop, Report, Resend
<1> QED
  BY <1>1, <1>2, TypeCorrect, PTL DEF Spec

-----------------------------------------------------------------------------
(* The devices and the routes *)

\* There is one configuration, and a gateway that has opened its port has validated it.
Validated ==
  /\ \A c, d \in cfg : c = d
  /\ stage \in {"off", "loaded", "opening", "running", "stopped", "failed"}
  /\ stage = "off" => cfg = {} /\ devices = <<>>
  /\ stage \in {"off", "loaded"} => devices = <<>>
  /\ stage \in {"opening", "running", "stopped"} => \A c \in cfg : Validate(c)

\* The drivers are bound to the addresses of the first meters, and the routes lead to them.
Bound ==
  \A c \in cfg :
    /\ stage \in {"loaded", "opening", "running"} =>
         /\ Len(devices) <= Len(c.meters)
         /\ \A i \in 1..Len(devices) : devices[i] = c.meters[i].slave
    /\ stage = "running" =>
         routes = {<<c.meters[i].id, c.meters[i].slave>> : i \in 1..Len(c.meters)}

LEMMA ValidatedInductive == TypeOK /\ Validated /\ [Next]_vars => Validated'
<1> SUFFICES ASSUME TypeOK, Validated, [Next]_vars PROVE Validated'
  OBVIOUS
<1> USE DEF Validated, uploads
<1>1. ASSUME NEW raw \in Files, NEW env \in Environments, Load(raw, env) PROVE Validated'
  <2>1. cfg' = cfg \/ cfg' = {applyEnvironmentOverrides(toAppConfig(raw), env)}
    BY <1>1 DEF Load
  <2>2. stage = "off" /\ stage' \in {"loaded", "failed"} /\ devices' = devices
    BY <1>1 DEF Load
  <2> QED
    BY <2>1, <2>2
<1>2. ASSUME NEW raw \in Files, Given(raw) PROVE Validated'
  BY <1>2 DEF Given
<1>3. CASE RunRefuses
  BY <1>3 DEF RunRefuses
<1>4. CASE OpenBus
  BY <1>4 DEF OpenBus
<1>5. CASE NewDriver
  BY <1>5 DEF NewDriver
<1>6. CASE UnknownDriver
  BY <1>6 DEF UnknownDriver
<1>7. CASE Start
  BY <1>7 DEF Start
<1>8. CASE NeverReady
  BY <1>8 DEF NeverReady
<1>9. CASE Stop
  BY <1>9 DEF Stop
<1>10. ASSUME NEW n \in Sizes, Report(n) PROVE Validated'
  BY <1>10 DEF Report
<1>11. ASSUME NEW list \in Losses, Resend(list) PROVE Validated'
  BY <1>11 DEF Resend
<1>12. CASE UNCHANGED vars
  BY <1>12 DEF vars
<1> QED
  BY <1>1, <1>2, <1>3, <1>4, <1>5, <1>6, <1>7, <1>8, <1>9, <1>10, <1>11, <1>12 DEF Next

LEMMA ValidatedHolds == Spec => []Validated
<1>1. Init => Validated
  BY DEF Init, Validated
<1> QED
  BY <1>1, ValidatedInductive, TypeCorrect, PTL DEF Spec

\* When two meters have no id in common, the map keeps them all.
LEMMA RoutesAreAllMeters ==
  ASSUME NEW c \in Config, Validate(c)
  PROVE  {k \in 1..Len(MeterIDs(c)) :
            \A j \in 1..Len(MeterIDs(c)) : MeterIDs(c)[j] = MeterIDs(c)[k] => j <= k}
         = 1..Len(c.meters)
<1>1. Len(MeterIDs(c)) = Len(c.meters) /\ Len(c.meters) \in Nat
  BY MeterIDsAre
<1>2. Distinct(MeterIDs(c))
  BY DEF Validate, ValidateMeters, MeterIDs
<1>3. \A j, k \in 1..Len(MeterIDs(c)) : MeterIDs(c)[j] = MeterIDs(c)[k] => j = k
  BY <1>2 DEF Distinct
<1> QED
  BY <1>1, <1>3

LEMMA DistinctColumn ==
  ASSUME NEW meters \in Seq(Meter), NEW field, Distinct(Column(meters, field))
  PROVE  \A i, j \in 1..Len(meters) : meters[i][field] = meters[j][field] => i = j
<1>1. Len(meters) \in Nat
  OBVIOUS
<1>2. /\ Len(Column(meters, field)) = Len(meters)
      /\ \A i \in 1..Len(meters) : Column(meters, field)[i] = meters[i][field]
  BY <1>1 DEF Column
<1>3. \A i, j \in 1..Len(meters) : Column(meters, field)[i] = Column(meters, field)[j] => i = j
  BY <1>2 DEF Distinct
<1> QED
  BY <1>2, <1>3

LEMMA BoundInductive == TypeOK /\ Validated /\ Bound /\ [Next]_vars => Bound'
<1> SUFFICES ASSUME TypeOK, Validated, Bound, [Next]_vars PROVE Bound'
  OBVIOUS
<1> USE DEF Bound, uploads
<1>0. \A c \in cfg : c \in Config
  BY DEF TypeOK
<1>1. ASSUME NEW raw \in Files, NEW env \in Environments, Load(raw, env) PROVE Bound'
  <2>1. applyEnvironmentOverrides(toAppConfig(raw), env) \in Config
    BY LoadedIsConfig
  <2>2. \A c \in Config : Len(c.meters) \in Nat
    BY MeterIDsAre
  <2>3. devices' = <<>> /\ stage' \in {"loaded", "failed"}
    BY <1>1 DEF Load, Validated
  <2>4. \A c \in cfg' : c \in Config
    BY <1>0, <1>1, <2>1 DEF Load
  <2> QED
    BY <2>2, <2>3, <2>4, EmptySequence
<1>2. ASSUME NEW raw \in Files, Given(raw) PROVE Bound'
  <2>1. raw \in Config
    BY InputAssumption
  <2>2. Len(raw.meters) \in Nat
    BY <2>1, MeterIDsAre
  <2>3. devices' = <<>> /\ stage' = "loaded" /\ cfg' = {raw}
    BY <1>2 DEF Given, Validated
  <2> QED
    BY <2>2, <2>3, EmptySequence
<1>3. CASE RunRefuses
  BY <1>3 DEF RunRefuses
<1>4. CASE OpenBus
  BY <1>4 DEF OpenBus
<1>5. CASE NewDriver
  <2>1. PICK c \in cfg :
          /\ Len(devices) < Len(c.meters)
          /\ devices' = Append(devices, Following(c).slave)
    BY <1>5 DEF NewDriver
  <2>2. \A d \in cfg : d = c
    BY <2>1 DEF Validated
  <2>3. devices \in Seq(0..255) /\ Len(devices) \in Nat /\ Len(c.meters) \in Nat
    BY <1>0, MeterIDsAre DEF TypeOK
  <2>4. Len(devices') = Len(devices) + 1 /\ Len(devices') <= Len(c.meters)
    BY <2>1, <2>3
  <2>5. stage = "opening"
    BY <1>5 DEF NewDriver
  <2>6. \A i \in 1..Len(devices) : devices[i] = c.meters[i].slave
    BY <2>5
  <2>7. \A i \in 1..Len(devices') :
          devices'[i] = IF i = Len(devices) + 1 THEN c.meters[i].slave ELSE devices[i]
    BY <2>1, <2>3 DEF Following
  <2>8. \A i \in 1..Len(devices') : devices'[i] = c.meters[i].slave
    BY <2>3, <2>4, <2>6, <2>7
  <2>9. stage' = "opening" /\ cfg' = cfg
    BY <1>5, <2>5 DEF NewDriver
  <2> QED
    BY <2>2, <2>4, <2>8, <2>9
<1>6. CASE UnknownDriver
  BY <1>6 DEF UnknownDriver
<1>7. CASE Start
  <2>1. PICK c \in cfg :
          /\ Len(devices) = Len(c.meters)
          /\ routes' = {<<MeterIDs(c)[i], devices[i]>> :
                          i \in {k \in 1..Len(MeterIDs(c)) :
                                   \A j \in 1..Len(MeterIDs(c)) : MeterIDs(c)[j] = MeterIDs(c)[k] => j <= k}}
    BY <1>7 DEF Start
  <2>2. stage = "opening" /\ stage' = "running" /\ cfg' = cfg /\ devices' = devices
    BY <1>7 DEF Start
  <2>3. \A d \in cfg : d = c
    BY <2>1 DEF Validated
  <2>4. routes' = {<<MeterIDs(c)[i], devices[i]>> : i \in 1..Len(c.meters)}
    BY <1>0, <2>1, <2>2, RoutesAreAllMeters DEF Validated
  <2>5. \A i \in 1..Len(c.meters) : devices[i] = c.meters[i].slave /\ MeterIDs(c)[i] = c.meters[i].id
    BY <1>0, <2>1, <2>2, MeterIDsAre
  <2>6. routes' = {<<c.meters[i].id, c.meters[i].slave>> : i \in 1..Len(c.meters)}
    BY <2>4, <2>5
  <2>7. Len(devices') <= Len(c.meters) /\ \A i \in 1..Len(devices') : devices'[i] = c.meters[i].slave
    BY <1>0, <2>1, <2>2, <2>5, MeterIDsAre
  <2> QED
    BY <2>2, <2>3, <2>6, <2>7
<1>8. CASE NeverReady
  BY <1>8 DEF NeverReady
<1>9. CASE Stop
  BY <1>9 DEF Stop
<1>10. ASSUME NEW n \in Sizes, Report(n) PROVE Bound'
  BY <1>10 DEF Report
<1>11. ASSUME NEW list \in Losses, Resend(list) PROVE Bound'
  BY <1>11 DEF Resend
<1>12. CASE UNCHANGED vars
  BY <1>12 DEF vars
<1> QED
  BY <1>1, <1>2, <1>3, <1>4, <1>5, <1>6, <1>7, <1>8, <1>9, <1>10, <1>11, <1>12 DEF Next

\* In a running gateway every configured id leads to one device, at the address the file gives it, and
\* no other id leads there (config.go:276-311, app.go:178-188).
THEOREM RoutesAreRight == Spec => []RoutesReachTheirMeters
<1>1. Init => Bound
  BY DEF Init, Bound
<1>2. Spec => []Bound
  BY <1>1, BoundInductive, ValidatedHolds, TypeCorrect, PTL DEF Spec
<1>3. TypeOK /\ Validated /\ Bound => RoutesReachTheirMeters
  <2> SUFFICES ASSUME TypeOK, Validated, Bound, stage = "running", NEW c \in cfg
               PROVE  /\ \A i \in 1..Len(c.meters) :
                           {r \in routes : r[1] = c.meters[i].id} = {<<c.meters[i].id, c.meters[i].slave>>}
                      /\ \A r, s \in routes : r[2] = s[2] => r = s
    BY DEF RoutesReachTheirMeters
  <2>1. routes = {<<c.meters[i].id, c.meters[i].slave>> : i \in 1..Len(c.meters)}
    BY DEF Bound
  <2>2. ValidateMeters(c.meters)
    BY DEF Validated, Validate
  <2>3. c.meters \in Seq(Meter) /\ Len(c.meters) \in Nat
    BY DEF TypeOK, Config
  <2>4. Distinct(Column(c.meters, "id")) /\ Distinct(Column(c.meters, "slave"))
    BY <2>2 DEF ValidateMeters
  <2>5. \A i, j \in 1..Len(c.meters) : c.meters[i]["id"] = c.meters[j]["id"] => i = j
    BY <2>3, <2>4, DistinctColumn
  <2>6. \A i, j \in 1..Len(c.meters) : c.meters[i]["slave"] = c.meters[j]["slave"] => i = j
    BY <2>3, <2>4, DistinctColumn
  <2>7. \A i, j \in 1..Len(c.meters) :
          /\ c.meters[i].id = c.meters[j].id => i = j
          /\ c.meters[i].slave = c.meters[j].slave => i = j
    BY <2>5, <2>6
  <2> HIDE DEF Bound
  <2> QED
    BY <2>1, <2>7
<1> QED
  BY <1>2, <1>3, ValidatedHolds, TypeCorrect, PTL

-----------------------------------------------------------------------------
(* Reports *)

\* Whatever configuration was accepted, the frames of a report rejoin to it, and a report is refused
\* only if it takes more frames than a uint16 counts (client.go:733-768, config.go:319-321).
THEOREM ReportsAlwaysRejoin == Spec => []ReportsRejoin
<1>1. Init => ReportsRejoin
  BY DEF Init, ReportsRejoin
<1>2. TypeOK /\ Validated /\ ReportsRejoin /\ [Next]_vars => ReportsRejoin'
  <2> SUFFICES ASSUME TypeOK, Validated, ReportsRejoin, [Next]_vars PROVE ReportsRejoin'
    OBVIOUS
  <2>1. ASSUME NEW n \in Sizes, Report(n) PROVE ReportsRejoin'
    <3>1. PICK c \in cfg : frames' = buildFrames(n, c.chunkSize)
      BY <2>1 DEF Report
    <3>2. c \in Config /\ Validate(c) /\ stage = "running"
      BY <2>1 DEF Report, TypeOK, Validated
    <3>3. c.chunkSize \in 1..Limit /\ n \in Nat \ {0}
      BY <3>2, InputAssumption DEF Validate, ValidateUpload
    <3>4. size' = n /\ cfg' = cfg
      BY <2>1 DEF Report
    <3>5. CASE n <= c.chunkSize * Limit
      BY <3>1, <3>3, <3>4, <3>5, ReportRejoins DEF ReportsRejoin
    <3>6. CASE n > c.chunkSize * Limit
      <4>1. frames' = Refused
        BY <3>1, <3>3, <3>6, TooManyFrames
      <4> QED
        BY <3>4, <3>6, <4>1 DEF ReportsRejoin
    <3>7. n \in Nat /\ c.chunkSize * Limit \in Nat
      BY <3>3, LimitAssumption
    <3> QED
      BY <3>5, <3>6, <3>7
  <2>2. ASSUME NEW raw \in Files, NEW env \in Environments, Load(raw, env) PROVE ReportsRejoin'
    BY <2>2 DEF Load, Validated, ReportsRejoin, uploads
  <2>3. ASSUME NEW raw \in Files, Given(raw) PROVE ReportsRejoin'
    BY <2>3 DEF Given, Validated, ReportsRejoin, uploads
  <2>4. ASSUME RunRefuses \/ OpenBus \/ NewDriver \/ UnknownDriver \/ Start \/ NeverReady \/ Stop
        PROVE  ReportsRejoin'
    BY <2>4 DEF RunRefuses, OpenBus, NewDriver, UnknownDriver, Start, NeverReady, Stop, ReportsRejoin, uploads
  <2>5. ASSUME NEW list \in Losses, Resend(list) PROVE ReportsRejoin'
    BY <2>5 DEF Resend, ReportsRejoin
  <2>6. CASE UNCHANGED vars
    BY <2>6 DEF vars, ReportsRejoin, uploads
  <2> QED
    BY <2>1, <2>2, <2>3, <2>4, <2>5, <2>6 DEF Next
<1> QED
  BY <1>1, <1>2, ValidatedHolds, TypeCorrect, PTL DEF Spec

\* In every state a resend was made of the loss list that came for the frames of the last report: it
\* sends each frame the server names once and no other, and a list is refused only if it is empty or
\* names a frame that does not exist (client.go:778-797).
THEOREM ResendsAreTheLoss == Spec => []ResendIsTheLoss
<1>1. Init => ResendIsTheLoss
  BY DEF Init, ResendIsTheLoss
<1>2. ResendIsTheLoss /\ [Next]_vars => ResendIsTheLoss'
  <2> SUFFICES ASSUME ResendIsTheLoss, [Next]_vars PROVE ResendIsTheLoss'
    OBVIOUS
  <2>1. ASSUME NEW list \in Losses, Resend(list) PROVE ResendIsTheLoss'
    <3>1. /\ loss' = list /\ frames' = frames
          /\ resent' = validateLossIndexes(list, Len(frames))
      BY <2>1 DEF Resend
    <3>2. list \in Seq(Int)
      BY InputAssumption
    <3>3. CASE list = <<>> \/ \E i \in 1..Len(list) : list[i] \notin 0..Len(frames) - 1
      <4>1. resent' = Refused
        BY <3>1, <3>2, <3>3, ResendSendsTheLoss
      <4> QED
        BY <3>1, <3>3, <4>1 DEF ResendIsTheLoss
    <3>4. CASE ~(list = <<>> \/ \E i \in 1..Len(list) : list[i] \notin 0..Len(frames) - 1)
      <4>1. /\ resent' \in Seq(0..Len(frames) - 1) /\ resent' # Refused
            /\ \A i, j \in 1..Len(resent') : resent'[i] = resent'[j] => i = j
            /\ ToSet(resent') = ToSet(list)
        BY <3>1, <3>2, <3>4, ResendSendsTheLoss
      <4> QED
        BY <3>1, <4>1 DEF ResendIsTheLoss, Distinct
    <3> QED
      BY <3>3, <3>4
  <2>2. ASSUME NEW n \in Sizes, Report(n) PROVE ResendIsTheLoss'
    BY <2>2 DEF Report, ResendIsTheLoss
  <2>3. CASE UNCHANGED uploads
    BY <2>3 DEF uploads, ResendIsTheLoss
  <2>4. ASSUME NEW raw \in Files, NEW env \in Environments, Load(raw, env) PROVE UNCHANGED uploads
    BY <2>4 DEF Load, uploads
  <2>5. ASSUME NEW raw \in Files, Given(raw) PROVE UNCHANGED uploads
    BY <2>5 DEF Given, uploads
  <2>6. ASSUME RunRefuses \/ OpenBus \/ NewDriver \/ UnknownDriver \/ Start \/ NeverReady \/ Stop
        PROVE  UNCHANGED uploads
    BY <2>6 DEF RunRefuses, OpenBus, NewDriver, UnknownDriver, Start, NeverReady, Stop, uploads
  <2>7. ASSUME UNCHANGED vars PROVE UNCHANGED uploads
    BY <2>7 DEF vars, uploads
  <2> QED
    BY <2>1, <2>2, <2>3, <2>4, <2>5, <2>6, <2>7 DEF Next
<1> QED
  BY <1>1, <1>2, PTL DEF Spec
=============================================================================
