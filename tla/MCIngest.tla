------------------------------ MODULE MCIngest ------------------------------
(* Messages for IngestPipeline.  `posted` and `queued` carry the same      *)
(* webhook, `file` has a bank line of `twoLines`, and the two settlement   *)
(* lines of `lineTypes` differ in their line type alone.  `negative` has   *)
(* an amount the tables refuse, `object` points to a malformed statement,  *)
(* and `unsigned` is a landing webhook without its .sig file.              *)
EXTENDS IngestPipeline

CONSTANTS w1, w2

MCWorkers == {w1, w2}

Item(id, kind) == [id |-> id, kind |-> kind, valid |-> TRUE, fits |-> TRUE]
Malformed(id) == [Item(id, "x") EXCEPT !.valid = FALSE]
NegativeFee(id) == [Item(id, "captured") EXCEPT !.fits = FALSE]

Message(transport, source, signature, events) ==
    [transport |-> transport, source |-> source, signature |-> signature,
     byReference |-> FALSE, events |-> events]

MCPayload ==
    [queued    |-> Message("queue", "webhook", "good", <<Item("p", "captured")>>),
     posted    |-> Message("http", "webhook", "good", <<Item("p", "captured")>>),
     negative  |-> Message("http", "webhook", "good", <<NegativeFee("n")>>),
     twoLines  |-> Message("queue", "bank", "missing", <<Item("a", "x"), Item("b", "x")>>),
     lineTypes |-> Message("queue", "settlement", "missing",
                           <<Item("s", "payment"), Item("s", "refund")>>),
     object    |-> [Message("queue", "bank", "missing", <<Malformed("o")>>)
                       EXCEPT !.byReference = TRUE],
     file      |-> Message("landing", "bank", "missing", <<Item("a", "x")>>),
     unsigned  |-> Message("landing", "webhook", "missing", <<Item("u", "captured")>>)]
=============================================================================
