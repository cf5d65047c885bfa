------------------------------ MODULE JobKinds ------------------------------
(***************************************************************************)
(* The fixed operations that workers execute, and the limits on their      *)
(* payloads.  A payload is represented by what the code asks of it: its    *)
(* length, the number it spells (NotANumber when it is not an unsigned     *)
(* integer) and the length of its upper-case form, which may be longer.    *)
(***************************************************************************)
EXTENDS Integers

CONSTANTS
  MaxPayloadBytes,  \* 4096 in the code
  MaxDelay          \* 5000 ms in the code

ASSUME PayloadAssumption ==
  /\ MaxPayloadBytes \in Nat
  /\ MaxDelay \in Nat

\* The fixed results, a digest and a note of the delay, fit the limit.
ASSUME ResultsFitAssumption == MaxPayloadBytes >= 64

JobKind == {"delay", "checksum", "uppercase"}

NotANumber == -1

Payload == [bytes : Nat, number : Nat \cup {NotANumber}, upper_bytes : Nat]

\* JobKind::validate_payload, at submission and again in the worker.
validate_payload(kind, p) ==
  IF p.bytes > MaxPayloadBytes THEN "PayloadTooLarge"
  ELSE IF kind = "delay" /\ p.number \notin 0..MaxDelay THEN "InvalidDelay"
  ELSE "ok"

\* Length of the result: "slept:<number>ms" has at most 12 bytes for an
\* admitted delay, a hexadecimal SHA-256 digest has 64.
OutputBytes(kind, p) ==
  CASE kind = "delay" -> 12
    [] kind = "checksum" -> 64
    [] kind = "uppercase" -> p.upper_bytes

\* worker::execute: "ok", or why the worker reports a failure.
execute(kind, p) ==
  IF validate_payload(kind, p) # "ok" THEN validate_payload(kind, p)
  ELSE IF OutputBytes(kind, p) > MaxPayloadBytes THEN "ResultTooLarge"
  ELSE "ok"
=============================================================================
