------------------------------- MODULE Startup -------------------------------
(***************************************************************************)
(* From a configuration file to a running gateway: LoadAppConfig and       *)
(* Validate (common/config/config.go), then Application.Run up to the      *)
(* point where the client is made (meter/app/app.go, driver/factory.go,    *)
(* transport/factory.go), and what the accepted configuration decides      *)
(* afterwards: the meter a command or a collector reaches and the frames   *)
(* of a report (module Framing).  Module Lifecycle takes over where the    *)
(* workers start.                                                          *)
(*                                                                         *)
(* A file is the record the YAML decoder fills.  A duration is a set: that *)
(* of its value, in some unit, or empty when the text is no duration.      *)
(***************************************************************************)
EXTENDS Framing

CONSTANTS
  Texts,         \* the texts of files and environments, with and without their spaces and capitals
  Files,         \* the decoded files, of the shape of Config below
  Environments,  \* the environment: transport, broker, device, password; "" is unset
  Sizes,         \* the lengths of the payloads reported
  Losses,        \* the lists of lost frames the server sends
  TrimSpace(_), ToLower(_), ToUpper(_)  \* of package strings

VARIABLES
  stage,    \* "off", "loaded", "opening", "running", "stopped" or "failed"
  cfg,      \* the configuration in memory: a set, empty before there is one
  port,     \* whether the serial port is open
  devices,  \* the slave address each driver made so far is bound to
  routes,   \* devicesByMeterID, as pairs of meter id and slave address
  size,     \* the length of the payload reported last, 0 before the first
  frames,   \* its frames, or Refused
  loss,     \* the loss list answered last
  resent    \* the frames sent again for it, or Refused

vars == <<stage, cfg, port, devices, routes, size, frames, loss, resent>>
uploads == <<size, frames, loss, resent>>

Durations == SUBSET Int
Meter == [id : Int, name : Texts, driver : Texts, slave : 0..255, interval : Durations]
Config ==
  [transport : Texts, portName : Texts, baudRate : Int, dataBits : Int, parity : Texts,
   stopBits : Int, timeout : Durations, meters : Seq(Meter), broker : Texts, device : Texts,
   password : Texts, replyTimeout : Durations, chunkSize : Int, maxRetransmits : Int]

ASSUME TextAssumption ==
  "mqtt" \in Texts /\ \A t \in Texts : {TrimSpace(t), ToLower(t), ToUpper(t)} \subseteq Texts
ASSUME InputAssumption ==
  /\ Files \subseteq Config
  /\ Environments \subseteq [{"transport", "broker", "device", "password"} -> Texts]
  /\ Sizes \subseteq Nat \ {0}
  /\ \A l \in Losses : l \in Seq(Int)

-----------------------------------------------------------------------------
(* config.go *)

Blank(text) == TrimSpace(text) = ""

ParseTransport(text) == ToLower(TrimSpace(text)) \in {"", "mqtt"}

HasDurations(raw) ==
  /\ raw.timeout # {} /\ raw.replyTimeout # {}
  /\ \A i \in 1..Len(raw.meters) : raw.meters[i].interval # {}

\* The file's texts parse: its transport and every duration.
Converts(raw) == ParseTransport(raw.transport) /\ HasDurations(raw)

MeterOf(m) == [m EXCEPT !.name = TrimSpace(@), !.driver = ToLower(TrimSpace(@))]

toAppConfig(raw) ==
  [raw EXCEPT !.transport = "mqtt", !.portName = TrimSpace(@), !.parity = ToUpper(TrimSpace(@)),
              !.meters = [i \in DOMAIN @ |-> MeterOf(@[i])],
              !.broker = TrimSpace(@), !.device = TrimSpace(@)]

Override(text, value) == IF Blank(value) THEN text ELSE TrimSpace(value)

\* An invalid TRANSPORT is kept, for Validate to refuse; the password keeps its spaces.
applyEnvironmentOverrides(c, env) ==
  [c EXCEPT !.transport = IF Blank(env.transport) THEN @
                          ELSE IF ParseTransport(env.transport) THEN "mqtt"
                          ELSE TrimSpace(env.transport),
            !.broker = Override(@, env.broker),
            !.device = Override(@, env.device),
            !.password = IF Blank(env.password) THEN @ ELSE env.password]

Distinct(seq) == \A i, j \in 1..Len(seq) : seq[i] = seq[j] => i = j

Column(meters, field) == [i \in 1..Len(meters) |-> meters[i][field]]

ValidMeter(m) ==
  /\ m.id > 0 /\ m.name # "" /\ m.driver # "" /\ m.slave \in 1..247
  /\ \A d \in m.interval : d > 0

\* Mutant: meter ids may repeat.
ValidateOnlyAddresses(meters) ==
  /\ meters # <<>>
  /\ \A i \in 1..Len(meters) : ValidMeter(meters[i])
  /\ Distinct(Column(meters, "slave")) /\ Distinct(Column(meters, "name"))

ValidateMeters(meters) ==
  /\ meters # <<>>
  /\ \A i \in 1..Len(meters) : ValidMeter(meters[i])
  /\ \A field \in {"id", "slave", "name"} : Distinct(Column(meters, field))

ValidateUpload(c) == c.chunkSize \in 1..Limit /\ c.maxRetransmits > 0

Validate(c) ==
  /\ c.transport = "mqtt"
  /\ c.portName # "" /\ c.baudRate > 0 /\ c.dataBits \in 5..8
  /\ c.parity \in {"N", "E", "O"} /\ c.stopBits \in {1, 2}
  /\ \A d \in c.timeout \cup c.replyTimeout : d > 0
  /\ ValidateMeters(c.meters)
  /\ c.broker # "" /\ c.device # "" /\ ~Blank(c.password)
  /\ ValidateUpload(c)

\* MeterIDs, for the topics and for the check of a command's meter.
MeterIDs(c) == Column(c.meters, "id")

Init ==
  /\ stage = "off" /\ cfg = {} /\ port = FALSE
  /\ devices = <<>> /\ routes = {}
  /\ size = 0 /\ frames = Refused /\ loss = <<>> /\ resent = Refused

\* LoadAppConfig accepts the file, or refuses it.
Load(raw, env) ==
  LET c == applyEnvironmentOverrides(toAppConfig(raw), env)
  IN  /\ stage = "off"
      /\ \/ /\ Converts(raw) /\ Validate(c)
            /\ stage' = "loaded" /\ cfg' = {c}
         \/ /\ ~(Converts(raw) /\ Validate(c))
            /\ stage' = "failed" /\ UNCHANGED cfg
      /\ UNCHANGED <<port, devices, routes, uploads>>

\* app.New by a caller that did not go through LoadAppConfig.
Given(c) ==
  /\ stage = "off" /\ HasDurations(c)
  /\ stage' = "loaded" /\ cfg' = {c}
  /\ UNCHANGED <<port, devices, routes, uploads>>

-----------------------------------------------------------------------------
(* Application.Run, openConfiguredMeters and the factories *)

RunRefuses ==
  /\ stage = "loaded" /\ \E c \in cfg : ~Validate(c)
  /\ stage' = "failed"
  /\ UNCHANGED <<cfg, port, devices, routes, uploads>>

\* OpenBus, which the operating system may refuse.
OpenBus ==
  /\ stage = "loaded" /\ \A c \in cfg : Validate(c)
  /\ \/ stage' = "opening" /\ port' = TRUE
     \/ stage' = "failed" /\ UNCHANGED port
  /\ UNCHANGED <<cfg, devices, routes, uploads>>

\* The meter whose driver is made next.
Following(c) == c.meters[Len(devices) + 1]

Supported(m) == ToLower(TrimSpace(m.driver)) = "qs300"

NewDriver ==
  /\ stage = "opening"
  /\ \E c \in cfg :
       /\ Len(devices) < Len(c.meters)
       /\ Supported(Following(c))
       /\ devices' = Append(devices, Following(c).slave)
  /\ UNCHANGED <<stage, cfg, port, routes, uploads>>

\* Mutant: the bus stays open when a driver cannot be made.
UnknownDriverLeaks ==
  /\ stage = "opening"
  /\ \E c \in cfg : Len(devices) < Len(c.meters) /\ ~Supported(Following(c))
  /\ stage' = "failed" /\ devices' = <<>>
  /\ UNCHANGED <<cfg, port, routes, uploads>>

\* A driver is not supported: what was made is closed, the bus too.
UnknownDriver ==
  /\ stage = "opening"
  /\ \E c \in cfg : Len(devices) < Len(c.meters) /\ ~Supported(Following(c))
  /\ stage' = "failed" /\ devices' = <<>> /\ port' = FALSE
  /\ UNCHANGED <<cfg, routes, uploads>>

\* Every meter has its driver; the client is made and becomes ready.  Of two meters with one id the map
\* would keep the later.
Start ==
  /\ stage = "opening"
  /\ \E c \in cfg :
       LET ids == MeterIDs(c)
       IN  /\ Len(devices) = Len(c.meters)
           /\ c.transport = "mqtt"
           /\ routes' = {<<ids[i], devices[i]>> : i \in {k \in 1..Len(ids) :
                                                          \A j \in 1..Len(ids) : ids[j] = ids[k] => j <= k}}
  /\ stage' = "running"
  /\ UNCHANGED <<cfg, port, devices, uploads>>

\* The client ends, or the program is told to stop, before the client is ready: Run's deferred Close
\* runs closeAll.
NeverReady ==
  /\ stage = "opening" /\ \A c \in cfg : Len(devices) = Len(c.meters)
  /\ stage' = "failed" /\ port' = FALSE
  /\ UNCHANGED <<cfg, devices, routes, uploads>>

\* Run ends and its deferred Close runs closeAll.
Stop ==
  /\ stage = "running"
  /\ stage' = "stopped" /\ port' = FALSE
  /\ UNCHANGED <<cfg, devices, routes, uploads>>

-----------------------------------------------------------------------------
(* Reports *)

Report(n) ==
  /\ stage = "running"
  /\ \E c \in cfg : frames' = buildFrames(n, c.chunkSize)
  /\ size' = n /\ loss' = <<>> /\ resent' = Refused
  /\ UNCHANGED <<stage, cfg, port, devices, routes>>

\* The server asks for some frames again.
Resend(list) ==
  /\ stage = "running" /\ frames # Refused
  /\ loss' = list /\ resent' = validateLossIndexes(list, Len(frames))
  /\ UNCHANGED <<stage, cfg, port, devices, routes, size, frames>>

Next ==
  \/ \E raw \in Files, env \in Environments : Load(raw, env)
  \/ \E raw \in Files : Given(raw)
  \/ RunRefuses \/ OpenBus \/ NewDriver \/ UnknownDriver \/ Start \/ NeverReady \/ Stop
  \/ \E n \in Sizes : Report(n)
  \/ \E list \in Losses : Resend(list)

Spec == Init /\ [][Next]_vars

-----------------------------------------------------------------------------
(* Properties *)

TypeOK ==
  /\ stage \in {"off", "loaded", "opening", "running", "stopped", "failed"}
  /\ cfg \subseteq Config
  /\ port \in BOOLEAN
  /\ devices \in Seq(0..255)
  /\ routes \subseteq Int \X (0..255)
  /\ size \in Sizes \cup {0}
  /\ Len(frames) <= Limit
  /\ loss \in Losses \cup {<<>>}

\* However a start fails, and when Run returns, the serial port is closed; it is open while a driver may
\* use it (app.go:59-89, 112-121).
PortNeverLeaks == port <=> stage \in {"opening", "running"}

\* Once the gateway runs, whichever way its configuration came, every configured meter id leads to one
\* device, every device to one id, and to the address the file gives that id: no command and no
\* collector reaches another meter than the one named, and none is without its meter
\* (config.go:274-306, app.go:164-166).
RoutesReachTheirMeters ==
  stage = "running" =>
    \A c \in cfg :
      /\ \A i \in 1..Len(c.meters) :
           {r \in routes : r[1] = c.meters[i].id} = {<<c.meters[i].id, c.meters[i].slave>>}
      /\ \A r, s \in routes : r[2] = s[2] => r = s

\* Whatever chunk size was accepted, the frames of a report rejoin to it, and a report is refused only
\* if it takes more frames than a uint16 counts (client.go:733-768, config.go:320).
ReportsRejoin ==
  size > 0 =>
    \/ Rejoin(frames, size)
    \/ frames = Refused /\ \E c \in cfg : size > c.chunkSize * Limit

\* A resend sends each frame the server names once and no other; a list that is empty or names a frame
\* that does not exist is refused (client.go:778-795).
ResendIsTheLoss ==
  IF resent = Refused
  THEN loss = <<>> \/ \E i \in 1..Len(loss) : loss[i] \notin 0..Len(frames) - 1
  ELSE /\ Distinct(resent)
       /\ ToSet(resent) = ToSet(loss)
       /\ \A i \in 1..Len(resent) : resent[i] \in 0..Len(frames) - 1
=============================================================================
