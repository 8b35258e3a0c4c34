----------------------------- MODULE UrlEncodedForm -----------------------------
(***************************************************************************)
(* FormParser: an urlencoded form.  The callbacks of the QuerystringParser *)
(* of python-multipart, which is external, note messages while it goes     *)
(* through a chunk; the loop of parse() handles them after the chunk.      *)
(* Names and values are sequences of units, cut anywhere.                  *)
(***************************************************************************)
EXTENDS Naturals, Sequences, SequencesExt

CONSTANTS
  Units,
  MaxFields,   \* bound: fields of the body
  MaxLength    \* bound: units of a name or a value

ASSUME FieldsAssumption == MaxFields \in Nat /\ MaxLength \in Nat

VARIABLES
  phase,      \* where parse() is, or the client has gone
  parser,     \* the state of the parser: what it expects next
  sent,       \* history: the fields that the parser has seen, the last one so far
  messages,   \* self.messages, or what is left of the list that parse() goes through
  parse       \* field_name, field_value and items of parse()

encodedVars == <<phase, parser, sent, messages, parse>>

Texts == BoundedSeq(Units, MaxLength)
Pieces == Texts \ {<<>>}
Field == [key : Texts, value : Texts]

EncodedTypeOK ==
  /\ phase \in {"stream", "parsing", "handling", "parsed", "gone", "copied"}
  /\ parser \in {"between", "name", "value"}
  /\ sent \in BoundedSeq(Field, MaxFields)
  /\ messages \in Seq([type : {"start", "name", "data", "end"}, data : Texts])
  /\ parse.name \in Texts /\ parse.value \in Texts
  /\ parse.items \in Seq(Field)

EncodedInit ==
  /\ phase = "stream" /\ parser = "between"
  /\ sent = <<>> /\ messages = <<>>
  /\ parse = [name |-> <<>>, value |-> <<>>, items |-> <<>>]

-----------------------------------------------------------------------------
(* The callbacks.                                                          *)

Notes(type, data) == messages' = Append(messages, [type |-> type, data |-> data])

FieldStart ==
  /\ phase = "parsing" /\ parser = "between" /\ Len(sent) < MaxFields
  /\ parser' = "name"
  /\ sent' = Append(sent, [key |-> <<>>, value |-> <<>>])
  /\ Notes("start", <<>>)
  /\ UNCHANGED <<phase, parse>>

FieldName(piece) ==
  /\ phase = "parsing" /\ parser = "name"
  /\ Len(Last(sent).key) + Len(piece) <= MaxLength
  /\ sent' = [sent EXCEPT ![Len(sent)].key = @ \o piece]
  /\ Notes("name", piece)
  /\ UNCHANGED <<phase, parser, parse>>

\* The = of the field, without a callback.
FieldEquals ==
  /\ phase = "parsing" /\ parser = "name"
  /\ parser' = "value"
  /\ UNCHANGED <<phase, sent, messages, parse>>

FieldData(piece) ==
  /\ phase = "parsing" /\ parser = "value"
  /\ Len(Last(sent).value) + Len(piece) <= MaxLength
  /\ sent' = [sent EXCEPT ![Len(sent)].value = @ \o piece]
  /\ Notes("data", piece)
  /\ UNCHANGED <<phase, parser, parse>>

\* The & behind a field.
FieldEnd ==
  /\ phase = "parsing" /\ parser # "between"
  /\ parser' = "between"
  /\ Notes("end", <<>>)
  /\ UNCHANGED <<phase, sent, parse>>

-----------------------------------------------------------------------------
(* parse().                                                                *)

\* What one message does to field_name, field_value and items.
Handled(locals, message) ==
  CASE message.type = "start" -> [locals EXCEPT !.name = <<>>, !.value = <<>>]
    [] message.type = "name" -> [locals EXCEPT !.name = @ \o message.data]
    [] message.type = "data" -> [locals EXCEPT !.value = @ \o message.data]
    [] message.type = "end" ->
         [locals EXCEPT !.items = Append(@, [key |-> locals.name, value |-> locals.value])]

EncodedChunk ==
  /\ phase = "stream"
  /\ phase' = "parsing"
  /\ UNCHANGED <<parser, sent, messages, parse>>

\* The messages of the chunk are taken, and handled one after the other.
EncodedChunkEnd ==
  /\ phase = "parsing"
  /\ phase' = "handling"
  /\ UNCHANGED <<parser, sent, messages, parse>>

HandleMessage ==
  /\ phase = "handling" /\ messages # <<>>
  /\ parse' = Handled(parse, Head(messages))
  /\ messages' = Tail(messages)
  /\ UNCHANGED <<phase, parser, sent>>

MessagesDone ==
  /\ phase = "handling" /\ messages = <<>>
  /\ phase' = "stream"
  /\ UNCHANGED <<parser, sent, messages, parse>>

\* The empty chunk at the end of the body: finalize() ends a field that has a =, and forgets
\* one that has none.
Finalize ==
  /\ phase = "stream"
  /\ phase' = "parsed" /\ parser' = "between"
  /\ parse' = IF parser = "value" THEN Handled(parse, [type |-> "end"]) ELSE parse
  /\ sent' = IF parser = "name" THEN Front(sent) ELSE sent
  /\ UNCHANGED messages

EncodedDisconnect ==
  /\ phase = "stream"
  /\ phase' = "gone"
  /\ UNCHANGED <<parser, sent, messages, parse>>

EncodedNext ==
  \/ EncodedChunk \/ FieldStart \/ FieldEquals \/ FieldEnd
  \/ \E piece \in Pieces : FieldName(piece) \/ FieldData(piece)
  \/ EncodedChunkEnd \/ HandleMessage \/ MessagesDone \/ Finalize \/ EncodedDisconnect

-----------------------------------------------------------------------------
\* However the body is cut into chunks, parse() has after each of them exactly the fields
\* that have ended, with all of their names and values, and begun the one that has not.
EncodedIntact ==
  phase \in {"stream", "parsed"} =>
    IF parser = "between" THEN parse.items = sent
    ELSE /\ parse.items = Front(sent)
         /\ parse.name = Last(sent).key /\ parse.value = Last(sent).value

=============================================================================
