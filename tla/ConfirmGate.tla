------------------------------ MODULE ConfirmGate ------------------------------
(***************************************************************************)
(* The confirmation gate (tools/confirm.rs).  A destructive statement runs *)
(* when its call says so in an argument, or when the person behind the     *)
(* client agrees: the gate then hands out a sealed confirmation, and the   *)
(* client sends it back with the answer.                                   *)
(*                                                                         *)
(* Sealing is ideal: what opens was sealed with the gate's key, unchanged, *)
(* at most Ttl ago by the clock on the wall.  The ledger of spent          *)
(* confirmations lives in memory and drops what is older than Ttl.         *)
(***************************************************************************)
EXTENDS Naturals

CONSTANTS
    Ttl,        \* CONFIRMATION_TTL, in ticks
    KeyFile     \* the key is read from http.state_key_file, not drawn at start

\* Gate::with_key at the start of a process.
NewGate(now, process) ==
    [consumed |-> {}, startedAt |-> now, key |-> IF KeyFile THEN 0 ELSE process]

\* Pending as `ask` seals it; `statement` stands for the tool, the hash of the
\* statement and the target, which a client cannot tell apart.
Seal(gate, nonce, statement, principal, now) ==
    [nonce |-> nonce, statement |-> statement, principal |-> principal,
     issuedAt |-> now, key |-> gate.key]

Opens(gate, pending, now) ==
    /\ pending.key = gate.key
    /\ now - pending.issuedAt <= Ttl

Matches(gate, pending, statement, principal) ==
    /\ pending.statement = statement
    /\ pending.principal = principal
    /\ ~(pending.issuedAt < gate.startedAt)

\* Ledger entries leave in the order they came in, which is that of their times.
Stale(entry, now) == now - entry.at > Ttl
Unexpired(ledger, now) == {entry \in ledger : ~Stale(entry, now)}

Spent(ledger, nonce) == \E entry \in ledger : entry.nonce = nonce

ConsumeUnchecked(gate, nonce, now) ==
    [ok |-> TRUE,
     gate |-> [gate EXCEPT !.consumed = Unexpired(@, now) \union {[nonce |-> nonce, at |-> now]}]]

Consume(gate, nonce, now) ==
    IF Spent(Unexpired(gate.consumed, now), nonce)
    THEN [ok |-> FALSE, gate |-> [gate EXCEPT !.consumed = Unexpired(@, now)]]
    ELSE ConsumeUnchecked(gate, nonce, now)

(***************************************************************************)
(* Gate::check for a destructive statement.  The request carries `confirm` *)
(* (the argument), `pending` (a confirmation sent back, or None), `answer` *)
(* ("accepted", "declined" or "missing") and `elicits`.                    *)
(***************************************************************************)
Check(gate, request, now, None) ==
    LET says(verdict) == [verdict |-> verdict, gate |-> gate]
        p == request.pending
        spent == Consume(gate, p.nonce, now)
        answered ==
            CASE request.answer = "accepted" ->
                    [verdict |-> IF spent.ok THEN "confirmed_elicitation" ELSE "required",
                     gate |-> spent.gate]
              [] request.answer = "declined" -> says("refused")
              [] request.answer = "missing" -> says("ask")
    IN  IF request.confirm THEN says("confirmed_argument")
        ELSE IF p = None THEN says(IF request.elicits THEN "ask" ELSE "required")
        ELSE IF Opens(gate, p, now) /\ Matches(gate, p, request.statement, request.principal)
        THEN answered
        ELSE says("required")
================================================================================
