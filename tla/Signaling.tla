------------------------------- MODULE Signaling -------------------------------
(***************************************************************************)
(* HttpSignalingClient: the exchange of the SDP offer for an answer over   *)
(* HTTP.  The legacy /offer endpoint is tried first; any failure of it     *)
(* leads to /con_notify and /con_ing_<path>.  Ciphertexts are symbolic: a  *)
(* sealed text names the key it was sealed with, and opening it with       *)
(* another key fails.                                                      *)
(*                                                                         *)
(* Time is counted in units of five seconds by whoever runs the exchange   *)
(* (see ConnectAttempt).  Robot is the peer: what it serves is external.   *)
(***************************************************************************)
EXTENDS Integers, FiniteSets

CONSTANTS
    RequestLimit,   \* SIGNALING_REQUEST_TIMEOUT
    BodyLimit,      \* SIGNALING_BODY_LIMIT, in pieces of a body
    Meetings        \* robots a client meets, with the aes_128_key it is configured with

ASSUME LimitAssumption == RequestLimit \in Nat \ {0} /\ BodyLimit \in Nat \ {0}

VARIABLES
    robot,          \* the robot at target_ip
    deviceKey,      \* aes_128_key of the client, after normalize_optional_key
    step,           \* the await the exchange is in
    spent,          \* time since the request in flight was sent
    body,           \* pieces of the response body read so far
    sealKey,        \* aes_key of the con_ing request: number of the exchange, 0 for none
    answer,         \* the Ok value of the exchange
    hindered        \* history: the network failed a request that the robot serves

signalVars == <<robot, deviceKey, step, spent, body, sealKey, answer, hindered>>

Sends == {"legacy", "notify", "ingest"}

Reads == {"legacyBody", "notifyBody", "ingestBody"}

\* A robot serves /offer, or con_notify with an auth mode (data2) whose data1
\* is sealed with the key of that mode; "reject" is what it answers a second
\* client.
AllRobots == [serves : {"legacy", "notify"}, mode : {0, 2, 3, 7}, sealed : {"plain", "built-in", "device"},
              wrapper : {"pem", "short"}, says : {"answer", "reject", "noise"}]

AllDeviceKeys == {"none", "malformed", "device", "foreign"}

ASSUME MeetingsAssumption == Meetings \subseteq AllRobots \X AllDeviceKeys

NoAnswer == [says |-> "none", offer |-> 0]

SignalTypeOK ==
    /\ robot \in AllRobots /\ deviceKey \in AllDeviceKeys
    /\ step \in Sends \cup Reads \cup {"idle", "ok", "err"}
    /\ spent \in 0..RequestLimit /\ body \in 0..BodyLimit /\ sealKey \in Nat
    /\ answer \in [says : {"answer", "reject", "noise", "none"}, offer : Nat]
    /\ hindered \in BOOLEAN

SignalInit ==
    /\ \E m \in Meetings : robot = m[1] /\ deviceKey = m[2]
    /\ step = "idle" /\ spent = 0 /\ body = 0 /\ sealKey = 0
    /\ answer = NoAnswer /\ hindered = FALSE

-----------------------------------------------------------------------------
(* con_notify. *)

\* aes_gcm_decrypt_with_key: what opens, opens to what was sealed.
Opens(sealed, key) == sealed = key

\* validate_aes128_hex_key: 32 hexadecimal digits, white space aside.
ValidDeviceKey(key) == key # "malformed"

\* decrypt_con_notify_data_with_aes_128_key: there is a key, it is valid, and it fits.
OpensWithDeviceKey(sealed, key) == key # "none" /\ ValidDeviceKey(key) /\ Opens(sealed, key)

\* decode_con_notify_data1: which texts yield a data1.  Mode 0 takes data1 as
\* it is; a sealed text then yields nothing con_notify_public_key can use.
DecodeData1(notify, key) ==
    CASE notify.mode = 0 -> notify.sealed = "plain"
      [] notify.mode = 2 -> Opens(notify.sealed, "built-in")
      [] notify.mode = 3 -> OpensWithDeviceKey(notify.sealed, key)
      [] OTHER -> FALSE

\* con_notify_public_key and rsa_load_public_key: the key is what lies between
\* the ten characters at either end.
LoadsPublicKey(notify) == notify.wrapper = "pem"

\* What the response to con_notify leads to.
Notified(key) == DecodeData1(robot, key) /\ LoadsPublicKey(robot)

-----------------------------------------------------------------------------
(* The exchange. *)

Request(kind) == step' = kind /\ spent' = 0 /\ body' = 0

StartExchange ==
    /\ Request("legacy")
    /\ sealKey' = 0 /\ answer' = NoAnswer /\ hindered' = FALSE
    /\ UNCHANGED <<robot, deviceKey>>

\* The future of the exchange is dropped, and the request in flight with it.
DropExchange ==
    /\ step' = "idle" /\ spent' = 0 /\ body' = 0
    /\ UNCHANGED <<robot, deviceKey, sealKey, answer, hindered>>

\* Whether the robot serves the endpoint a request goes to.
Serves == (step \in {"legacy", "legacyBody"}) = (robot.serves = "legacy")

\* Mutant: the failure of the legacy endpoint ends the exchange.
NoFallback(lost) ==
    /\ step' = "err" /\ spent' = 0 /\ body' = 0 /\ hindered' = (hindered \/ (lost /\ Serves))
    /\ UNCHANGED <<robot, deviceKey, sealKey, answer>>

\* A request failed: the legacy one leads to con_notify, the others end the
\* exchange.  lost tells a failure of the network from a reply; it counts as a
\* hindrance only where the robot would have served the request.
RequestFails(lost) ==
    /\ IF step \in {"legacy", "legacyBody"}
       THEN Request("notify")
       ELSE step' = "err" /\ spent' = 0 /\ body' = 0
    /\ hindered' = (hindered \/ (lost /\ Serves))
    /\ UNCHANGED <<robot, deviceKey, sealKey, answer>>

\* The status line arrives.  A robot serves one of the two methods and refuses
\* the other.
RequestAnswered ==
    /\ step \in Sends
    /\ \/ /\ Serves
          /\ step' = CASE step = "legacy" -> "legacyBody"
                       [] step = "notify" -> "notifyBody"
                       [] step = "ingest" -> "ingestBody"
          /\ UNCHANGED <<robot, deviceKey, spent, body, sealKey, answer, hindered>>
       \/ ~Serves /\ RequestFails(FALSE)

Fits(n) == n <= BodyLimit - body

\* read_response takes another piece of the body.
ReadChunk ==
    /\ step \in Reads
    /\ \E n \in 1..BodyLimit + 1 :
          IF Fits(n)
          THEN body' = body + n /\ UNCHANGED <<robot, deviceKey, step, spent, sealKey, answer, hindered>>
          ELSE RequestFails(TRUE)

\* The body of the legacy endpoint is the answer, whatever it says.
LegacyDone(offer) ==
    /\ step = "legacyBody"
    /\ step' = "ok" /\ answer' = [says |-> robot.says, offer |-> offer]
    /\ UNCHANGED <<robot, deviceKey, spent, body, sealKey, hindered>>

\* The body of con_notify: a fresh key seals the offer, and the public key of
\* the robot seals that key.
NotifyDone(offer) ==
    /\ step = "notifyBody"
    /\ IF Notified(deviceKey)
       THEN Request("ingest") /\ sealKey' = offer
       ELSE step' = "err" /\ spent' = 0 /\ body' = 0 /\ UNCHANGED sealKey
    /\ UNCHANGED <<robot, deviceKey, answer, hindered>>

\* The body of con_ing, sealed by the robot with the key it was sent; a noisy
\* one does not open.
IngestDone ==
    /\ step = "ingestBody"
    /\ IF robot.says = "noise"
       THEN step' = "err" /\ UNCHANGED answer
       ELSE step' = "ok" /\ answer' = [says |-> robot.says, offer |-> sealKey]
    /\ UNCHANGED <<robot, deviceKey, spent, body, sealKey, hindered>>

\* reqwest gives up on a request.
RequestTimesOut ==
    /\ step \in Sends \cup Reads /\ spent = RequestLimit
    /\ RequestFails(TRUE)

\* A connection breaks, a content length is above the limit, or a body is not
\* the text it should be.
RequestBreaks ==
    /\ step \in Sends \cup Reads
    /\ RequestFails(TRUE)

ExchangeStep(offer) ==
    \/ RequestAnswered \/ ReadChunk \/ LegacyDone(offer) \/ NotifyDone(offer) \/ IngestDone
    \/ RequestTimesOut \/ RequestBreaks

-----------------------------------------------------------------------------
(* parse_answer_payload. *)

\* Mutant: a rejection passes for an answer.
ParseAnything == answer.says # "none"

\* A rejection is an error; JSON without a description and text that is not
\* SDP are handed to the SDP parser, which refuses them.
ParseAnswer == answer.says = "answer"

\* A robot that publishes what its mode says, met with the key it needs.
Honest ==
    /\ robot.wrapper = "pem" /\ robot.says # "noise"
    /\ \/ robot.serves = "legacy"
       \/ robot.mode = 0 /\ robot.sealed = "plain"
       \/ robot.mode = 2 /\ robot.sealed = "built-in"
       \/ robot.mode = 3 /\ robot.sealed = "device" /\ deviceKey = "device"

\* An exchange fails only for a reason: with a robot that publishes what the
\* auth mode says and the key of that mode, and no failure of the network at an
\* endpoint the robot serves, one of the two methods of
\* send_sdp_local_with_aes_key returns the answer.  The request to /offer is no
\* reason where the robot serves con_notify: it may be refused, break or run
\* into its timeout, and the fallback still follows.
HonestRobotIsReached == step = "err" => hindered \/ ~Honest

=============================================================================
