--------------------------- MODULE IngestRecords ---------------------------
(***************************************************************************)
(* From a source payload to the records the pipeline persists:             *)
(* internal/ingestion/parse.go, idempotency.go and internal/schema.        *)
(*                                                                         *)
(* An event keeps the fields that keys are made of: `id` is the external   *)
(* id, `kind` the payment status of a webhook or the line type of a        *)
(* settlement line.  `valid` says that schema validation and the field     *)
(* conversions accept the event, `fits` that the columns of its tables do: *)
(* validation looks neither at lengths nor at the sign of fee_paise and    *)
(* tax_paise, which the tables CHECK.                                      *)
(***************************************************************************)
EXTENDS Integers, Sequences

Sources == {"webhook", "settlement", "bank", "ledger"}

Transports == {"queue", "landing", "http"}

\* What comes with a webhook to authenticate its body.
Signatures == {"good", "bad", "missing"}

\* source:external_id:event_type.  Only a webhook's event type varies.
IdempotencyKey(source, e) ==
    IF source = "webhook" THEN <<source, e.id, e.kind>> ELSE <<source, e.id>>

\* The unique key of the normalized row, as the migrations declare it.
NormalizedKey(source, e) ==
    CASE source = "webhook"    -> <<"payments", e.id>>
      [] source = "settlement" -> <<"settlement_lines", e.id, e.kind>>
      [] source = "bank"       -> <<"bank_lines", e.id>>
      [] source = "ledger"     -> <<"ledger_lines", e.id>>

RecordFromObject(source, e) ==
    [key |-> IdempotencyKey(source, e), row |-> NormalizedKey(source, e), fits |-> e.fits]

\* VerifyHMAC is asked about webhooks alone, before anything is parsed.
VerifyHMAC(p) == p.source = "webhook" => p.signature = "good"

\* One malformed event rejects the whole payload, and so does an empty one.
Validate(p) == Len(p.events) > 0 /\ \A i \in 1..Len(p.events) : p.events[i].valid

\* Every record of the payload, in its order.
Parse(p) == [i \in 1..Len(p.events) |-> RecordFromObject(p.source, p.events[i])]

\* MySQL takes every record of the payload.
Storable(p) == \A i \in 1..Len(p.events) : Parse(p)[i].fits
=============================================================================
