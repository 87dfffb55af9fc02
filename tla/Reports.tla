-------------------------------- MODULE Reports --------------------------------
(******************************************************************************)
(* What an application relies on: the callbacks it gets are those the         *)
(* document promises, whatever pieces the document arrives in and whatever    *)
(* the host drops from the buffer in between.                                 *)
(******************************************************************************)
EXTENDS StreamingParser, JsonDocs, SequencesExt

CONSTANTS
  Values,   \* the documents, as abstract values
  Spaces    \* the white space to write them with

Cases == {Document(v, space, Words) : v \in Values, space \in Spaces}

\* The value of Docs in every run of this module.
CaseTexts == {c.text : c \in Cases}

Promised == [text \in CaseTexts |-> (CHOOSE c \in Cases : c.text = text).events]

\* README.md, "Streaming: Parses JSON data as it arrives": the callbacks made so
\* far are the first ones the document promises, with the right depth, token,
\* key, type, index and bytes of the value.  Nothing is reported twice, early,
\* or differently because of where the document was split.
ReportsDocument == IsPrefix(events, Promised[doc])

\* Once the document has arrived and the host goes on calling, every callback
\* the document promises has been made: no byte is waited for in vain.
ReportsAll == <>(events = Promised[doc])
================================================================================
