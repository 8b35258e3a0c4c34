-------------------------------- MODULE Forms --------------------------------
(***************************************************************************)
(* Request.form() for both types of content, and what the endpoint does    *)
(* with the fields of an urlencoded form: it edits a copy of them, which   *)
(* is a MultiDict.                                                         *)
(***************************************************************************)
EXTENDS FormParsing, UrlEncodedForm, MultiDict

VARIABLE content_type

\* A MultiDict takes the names and values of any form.
ASSUME FormsAssumption == Texts \subseteq Keys /\ Texts \subseteq Values

InitForms ==
  /\ Init /\ EncodedInit
  /\ list = <<>> /\ dict = DictOf(list) /\ top = 0
  /\ content_type \in {"multipart", "urlencoded"}
  /\ content_type = "urlencoded" => limits = CHOOSE l \in Limits : TRUE

\* MultiDict(await request.form()); the parser is done with.
Copy ==
  /\ phase = "parsed"
  /\ phase' = "copied"
  /\ list' = parse.items /\ dict' = DictOf(parse.items) /\ top' = Len(parse.items)
  /\ sent' = <<>> /\ parse' = [name |-> <<>>, value |-> <<>>, items |-> <<>>]
  /\ UNCHANGED <<parser, messages>>

NextForms ==
  \/ content_type = "multipart" /\ Next /\ UNCHANGED <<content_type, encodedVars, dictVars>>
  \/ /\ content_type = "urlencoded"
     /\ \/ EncodedNext /\ UNCHANGED dictVars
        \/ Copy
        \/ phase = "copied" /\ Edit /\ UNCHANGED encodedVars
     /\ UNCHANGED <<content_type, vars>>

SpecForms == InitForms /\ [][NextForms]_<<content_type, vars, encodedVars, dictVars>>

-----------------------------------------------------------------------------
\* On its way to the file, and in the form that is returned, an upload is what was sent; so
\* are the fields of an urlencoded form.
FormTrue == FormIntact /\ EncodedTypeOK /\ EncodedIntact

=============================================================================
