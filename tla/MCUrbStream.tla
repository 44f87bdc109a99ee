----------------------------- MODULE MCUrbStream -----------------------------
(* Instances of UrbStream for TLC. *)
EXTENDS UrbStream, TLC

CONSTANTS ep, in, out, iso, aux, s1, s2

Single(kind, tokens) ==
  [kind |-> ep :> kind, tokens |-> tokens,
   owner |-> IF kind = "interrupt" THEN ep ELSE None]

(* Devices with one endpoint, of every kind; none compares tokens.         *)
SingleEndpoint ==
  {Single("interrupt", FALSE), Single("generic", FALSE),
   Single("isoIn", FALSE), Single("isoOut", FALSE)}

(* Devices with an ISO-OUT endpoint that compare tokens, or do not.        *)
IsoOutEither == {Single("isoOut", TRUE), Single("isoOut", FALSE)}
IsoOutPlain == {Single("isoOut", FALSE)}

(* A DualSense: reports on an interrupt endpoint, speaker tokens.          *)
InterruptAndIsoOut ==
  {[kind |-> (in :> "interrupt") @@ (out :> "isoOut"), owner |-> in,
    tokens |-> TRUE]}

(* For the larger instance with two workers and their liveness.            *)
IsoInAndGeneric ==
  {[kind |-> (iso :> "isoIn") @@ (aux :> "generic"), owner |-> None,
    tokens |-> FALSE]}
=============================================================================
