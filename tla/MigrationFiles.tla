--------------------------- MODULE MigrationFiles ---------------------------
(***************************************************************************)
(* The statements of migrations/000*.up.sql.  A key is named after its     *)
(* table, as MySQL scopes key names, and defined by its columns; a table   *)
(* is defined by the file that creates it, and brings its own keys.        *)
(***************************************************************************)
EXTENDS Sequences, TLC

CreateTable(name, needs, columns, keys) ==
    [needs |-> needs, drops |-> {}, adds |-> name :> columns @@ keys, unique |-> {}]

AlterTable(name, drops, keys, unique) ==
    [needs |-> {name}, drops |-> drops, adds |-> keys, unique |-> unique]

CoreTables == <<
    CreateTable("raw_events", {}, "0001",
        "raw_events.uq_raw_events_idempotency" :> <<"idempotency_key">>),
    CreateTable("payments", {}, "0001", << >>),
    CreateTable("settlement_lines", {}, "0001",
        "settlement_lines.uq_settlement_entity" :> <<"settlement_id", "entity_id", "line_type">>
        @@ "settlement_lines.idx_settlement_candidates" :> <<"payment_method", "settled_at">>),
    CreateTable("bank_lines", {}, "0001",
        "bank_lines.uq_bank_reference" :> <<"reference_id">>),
    CreateTable("ledger_lines", {"payments"}, "0001",
        "ledger_lines.idx_ledger_reference" :> <<"reference_id">>
        @@ "ledger_lines.fk_ledger_payment" :> <<"matched_payment_id">>),
    CreateTable("batch_queue", {}, "0001", << >>),
    CreateTable("match_results", {}, "0001",
        "match_results.idx_match_record" :> <<"record_type", "record_id">>
        @@ "match_results.idx_match_group" :> <<"match_group_id">>),
    CreateTable("exception_log", {}, "0001",
        "exception_log.idx_exception_risk" :> <<"amount_at_risk_paise", "id">>),
    CreateTable("audit_log", {}, "0001",
        "audit_log.uq_audit_hash" :> <<"row_hash">>) >>

LedgerUniqueness == <<
    AlterTable("ledger_lines", {"ledger_lines.idx_ledger_reference"},
        "ledger_lines.uq_ledger_reference" :> <<"reference_id">>,
        {"ledger_lines.uq_ledger_reference"}) >>

MatchingIndexes == <<
    AlterTable("payments", {},
        "payments.idx_payments_method_captured" :> <<"method", "captured_at">>, {}),
    AlterTable("exception_log", {},
        "exception_log.idx_exception_record" :> <<"record_type", "record_id">>, {}) >>

AIExplanationLog == <<
    CreateTable("ai_explanation_log", {}, "0004",
        "ai_explanation_log.idx_ai_explanation_exception" :> <<"exception_id">>) >>

LedgerMatchingIndex == <<
    AlterTable("ledger_lines", {},
        "ledger_lines.idx_ledger_unmatched_booked" :> <<"matched_payment_id", "booked_at">>, {}) >>

ExceptionRecordIndex == <<
    AlterTable("exception_log", {},
        "exception_log.idx_exception_record" :> <<"record_type", "record_id", "id">>, {}) >>

UpFiles == <<CoreTables, LedgerUniqueness, MatchingIndexes,
             AIExplanationLog, LedgerMatchingIndex, ExceptionRecordIndex>>
=============================================================================
