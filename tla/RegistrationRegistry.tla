------------------------ MODULE RegistrationRegistry ------------------------
(***************************************************************************)
(* What a virtual bus promises the rest of the server, with no locks, no   *)
(* fences and no waiting: incarnations are admitted once under an address  *)
(* nobody else has, may be published, are used by operations, are          *)
(* withdrawn, and are retired only when no operation uses them.  After the *)
(* registry is sealed nothing is admitted, published or begun.             *)
(***************************************************************************)
EXTENDS Integers

CONSTANTS Procs, Records, Tokens

\* A record names one incarnation: its token, device, address and alias.
Conflict(r, s) == r.dev = s.dev \/ r.devID = s.devID

VARIABLES sealed, used, live, visible, withdrawn, using

vars == <<sealed, used, live, visible, withdrawn, using>>

Init ==
  /\ sealed = FALSE /\ used = {} /\ live = {} /\ visible = {}
  /\ withdrawn = {} /\ using = {}

LiveTokens == {r.token : r \in live}

Admit(r, show) ==
  /\ ~sealed
  /\ r.token \notin used
  /\ \A s \in live : ~Conflict(r, s)
  /\ used' = used \cup {r.token}
  /\ live' = live \cup {r}
  /\ visible' = IF show THEN visible \cup {r.token} ELSE visible
  /\ UNCHANGED <<sealed, withdrawn, using>>

Publish(t) ==
  /\ ~sealed /\ t \in LiveTokens \ withdrawn
  /\ visible' = visible \cup {t}
  /\ UNCHANGED <<sealed, used, live, withdrawn, using>>

Begin(p, t) ==
  /\ ~sealed /\ t \in LiveTokens \ withdrawn
  /\ using' = using \cup {<<p, t>>}
  /\ UNCHANGED <<sealed, used, live, visible, withdrawn>>

End(p, t) ==
  /\ <<p, t>> \in using
  /\ using' = using \ {<<p, t>>}
  /\ UNCHANGED <<sealed, used, live, visible, withdrawn>>

Withdraw(t) ==
  /\ t \in LiveTokens \ withdrawn
  /\ withdrawn' = withdrawn \cup {t}
  /\ visible' = visible \ {t}
  /\ UNCHANGED <<sealed, used, live, using>>

Retire(r) ==
  /\ r \in live /\ r.token \in withdrawn
  /\ \A p \in Procs : <<p, r.token>> \notin using
  /\ live' = live \ {r}
  /\ UNCHANGED <<sealed, used, visible, withdrawn, using>>

\* Sealing withdraws everything that is still live in the same step.
Seal ==
  /\ ~sealed
  /\ sealed' = TRUE
  /\ withdrawn' = withdrawn \cup LiveTokens
  /\ visible' = {}
  /\ UNCHANGED <<used, live, using>>

Next ==
  \/ \E r \in Records, show \in BOOLEAN : Admit(r, show)
  \/ \E t \in Tokens : Publish(t) \/ Withdraw(t)
  \/ \E p \in Procs, t \in Tokens : Begin(p, t) \/ End(p, t)
  \/ \E r \in Records : Retire(r)
  \/ Seal

Spec == Init /\ [][Next]_vars
=============================================================================
