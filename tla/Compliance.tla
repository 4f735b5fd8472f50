----------------------------- MODULE Compliance -----------------------------
(***************************************************************************)
(* The masked export of crates/synapse-compliance, behind the MCP tool     *)
(* compliance_export.  A text is a sequence of tokens, kept apart by words *)
(* no rule matches; a rule's regular expression is modelled by the kinds   *)
(* of token it matches, wholly or in part.                                 *)
(***************************************************************************)
EXTENDS Integers, Sequences, SequencesExt, FiniteSets, FiniteSetsExt

CONSTANTS CmMaxDocs,     \* bound on documents
          CmTexts,       \* the texts documents may have
          CmFields       \* the field contents a CSV row may have

VARIABLES cmDocs,        \* docs in id order: [ts, text]
          cmRow          \* a row of fields for the CSV writer

cmVars == <<cmDocs, cmRow>>

\* Mutant of Rules.
PhoneBeforeIban == <<"email", "phone", "iban", "credit_card", "tax_id", "passport", "ip", "dob", "address">>

\* PiiMasker::new: the rules in the order they are applied.
Rules == <<"email", "iban", "phone", "credit_card", "tax_id", "passport", "ip", "dob", "address">>

\* The kinds of token the patterns tell apart, with what each matches.  The
\* digits of an IBAN look like a phone or card number, a card number that
\* starts with 0 like a phone number, three parts of an address like a date.
\* The phone pattern has no word boundary: it also takes the digits from a 0
\* inside a card number, a tax number without dots or a passport number, if
\* seven or more follow ("in0").
Whole == {<<"mail", "email">>, <<"iban_no", "iban">>, <<"phone_no", "phone">>, <<"card_no", "credit_card">>,
          <<"card_no_0", "phone">>, <<"card_no_0", "credit_card">>, <<"tax_no", "tax_id">>,
          <<"passport_no", "passport">>, <<"card_in0", "credit_card">>,
          <<"tax_in0", "tax_id">>, <<"passport_in0", "passport">>, <<"ip_addr", "ip">>, <<"date", "dob">>, <<"street", "address">>}
Part == {<<"iban_no", "phone">>, <<"iban_no", "credit_card">>, <<"ip_addr", "dob">>,
         <<"card_in0", "phone">>, <<"tax_in0", "phone">>, <<"passport_in0", "phone">>}

\* One rule over a text: whole matches become placeholders (named by the
\* rule), part matches leave the rest of the token behind.
ApplyRule(text, rule) ==
    FlattenSeq([i \in DOMAIN text |->
        IF <<text[i], rule>> \in Whole THEN <<rule>>
        ELSE IF <<text[i], rule>> \in Part THEN <<"rest", rule>>
        ELSE <<text[i]>>])

\* PiiMasker::mask: the text after every rule, and how often each matched.
MaskedAfter(text) == [n \in 0..Len(Rules) |-> FoldLeft(ApplyRule, text, SubSeq(Rules, 1, n))]
mask(text) == MaskedAfter(text)[Len(Rules)]
Matches(text, rule) == Cardinality({i \in DOMAIN text : <<text[i], rule>> \in Whole \cup Part})
counts(text) == [i \in DOMAIN Rules |-> Matches(MaskedAfter(text)[i - 1], Rules[i])]

\* export_memories: ORDER BY ts, LIMIT only when max_records > 0.
export_memories(max_records) ==
    LET order == SetToSortSeq(DOMAIN cmDocs, LAMBDA a, b : cmDocs[a].ts < cmDocs[b].ts \/ (cmDocs[a].ts = cmDocs[b].ts /\ a < b))
        n == IF max_records > 0 /\ max_records < Len(order) THEN max_records ELSE Len(order) IN
    [k \in 1..n |-> [doc_id |-> order[k], ts |-> cmDocs[order[k]].ts,
                     content_masked |-> mask(cmDocs[order[k]].text), pii_counts |-> counts(cmDocs[order[k]].text)]]

\* Mutant of Escaped.
EscapedWithoutDoubling(f) ==
    IF \E i \in DOMAIN f : f[i] \in {",", "\"", "\n"} THEN <<"\"">> \o f \o <<"\"">> ELSE f

\* csv_writer::Writer::write_row.
Escaped(f) ==
    IF \E i \in DOMAIN f : f[i] \in {",", "\"", "\n"}
    THEN <<"\"">> \o FlattenSeq([i \in DOMAIN f |-> IF f[i] = "\"" THEN <<"\"", "\"">> ELSE <<f[i]>>]) \o <<"\"">>
    ELSE f
write_row(fields) == FlattenSeq([i \in DOMAIN fields |-> IF i = 1 THEN Escaped(fields[i]) ELSE <<",">> \o Escaped(fields[i])]) \o <<"\n">>

\* A behaviour is about the documents or about one row of fields.
BlankRow == <<<<>>, <<>>>>
ComplianceInit == cmDocs = <<>> /\ cmRow \in [1..2 -> CmFields]

\* A put while the export is not running (one SELECT reads a snapshot).
ComplianceNext ==
    /\ cmRow = BlankRow /\ Len(cmDocs) < CmMaxDocs
    /\ \E t \in 0..2, x \in CmTexts : cmDocs' = Append(cmDocs, [ts |-> t, text |-> x])
    /\ UNCHANGED cmRow

-----------------------------------------------------------------------------
\* What stays readable of a token: words, and of a number with an inner 0 the
\* characters before it.
Readable(token) ==
    CASE token = "word" -> <<"word">>
      [] token \in {"card_in0", "tax_in0", "passport_in0"} -> <<"rest">>
      [] OTHER -> <<>>

(* The export leaves no personal token readable, in whole or in part, with  *)
(* one exception against lib.rs:26, "All PII is replaced": the phone rule   *)
(* runs before those for cards, tax and passport numbers and leaves the     *)
(* digits before an inner 0.  No other pair of rules gets in its way: the   *)
(* export keeps every word, makes one placeholder of each token, counts it  *)
(* once and, when limited, exports the oldest documents.                    *)
ExportIsMasked ==
    \A max \in 0..CmMaxDocs : LET out == export_memories(max) IN
        /\ \A k \in DOMAIN out :
              LET text == cmDocs[out[k].doc_id].text
                  masked == out[k].content_masked
                  personal == Cardinality({i \in DOMAIN text : text[i] # "word"}) IN
              /\ SelectSeq(masked, LAMBDA x : x \notin Range(Rules)) = FlattenSeq([i \in DOMAIN text |-> Readable(text[i])])
              /\ Cardinality({i \in DOMAIN masked : masked[i] \in Range(Rules)}) = personal
              /\ FoldLeft(+, 0, out[k].pii_counts) = personal
        /\ \A d \in DOMAIN cmDocs : (\E k \in DOMAIN out : out[k].doc_id = d)
                                    \/ (max > 0 /\ \A k \in DOMAIN out : out[k].ts <= cmDocs[d].ts)

\* A reader of CSV, for reference: the fields and the quoting state after
\* each character.
ReadStep(acc, c) ==
    LET put(x) == [acc EXCEPT !.f = [@ EXCEPT ![Len(acc.f)] = Append(@, x)]] IN
    CASE acc.q = "in" /\ c = "\"" -> [acc EXCEPT !.q = "maybe"]
      [] acc.q = "in" -> put(c)
      [] acc.q = "maybe" /\ c = "\"" -> [put(c) EXCEPT !.q = "in"]
      [] c = "\"" -> [acc EXCEPT !.q = "in"]
      [] c = "," -> [acc EXCEPT !.f = Append(@, <<>>), !.q = "out"]
      [] c = "\n" -> [acc EXCEPT !.rows = @ + 1, !.q = "out"]
      [] OTHER -> put(c)
ReadRow(cs) == FoldLeft(ReadStep, [f |-> <<<<>>>>, q |-> "out", rows |-> 0], cs)

(* A CSV reader finds in the exported row exactly the fields that were      *)
(* written, as one row: separators, quotes and line ends in a masked text   *)
(* do not shift or split the columns after them.                            *)
CsvReadsBack == LET r == ReadRow(write_row(cmRow)) IN r.f = cmRow /\ r.rows = 1 /\ r.q = "out"
=============================================================================
