---------------------------- MODULE EntryTypes -----------------------------
(***************************************************************************)
(* The entry types and their factories (src/assets/static/continusec.js):  *)
(* RawDataEntry, JsonEntry and RedactedJsonEntry, built by the factories'  *)
(* createFromLeafData from one element of a getEntries answer, and what an *)
(* auditor then asks of them: getLeafHash (folded into the tree by         *)
(* verifyEntries) and getData (what each() reads).                         *)
(*                                                                         *)
(* An entry's data is a text: the empty string, raw bytes (a model value), *)
(* the bytes of a digest, or the JSON text of a value (kept as the value,  *)
(* since JSON.parse and JSON.stringify convert one into the other).  The   *)
(* server's element is a record whose leaf_input and extra_data are base64 *)
(* texts or Absent.                                                        *)
(***************************************************************************)
EXTENDS ObjectHash

EmptyText   == [tx |-> "empty"]
RawText(r)  == [tx |-> "raw", v |-> r]
JsonText(o) == [tx |-> "json", v |-> o]
DigestText(d) == [tx |-> "digest", digest |-> d]

\* A field missing from the server's JSON object (b.extra_data == undefined).
Absent == [tx |-> "absent"]

\* An exception thrown by atob or JSON.parse.
Throw == [tx |-> "throw"]

\* btoa on the server and atob here: base64 is a tagged text, which atob
\* strips; atob(undefined) decodes the text "undefined", which is not
\* base64 (9 characters), and throws.
Btoa(text) == [tx |-> "b64", v |-> text]
Atob(field) == IF field = Absent THEN Throw ELSE field.v

\* JSON.parse of an entry's text succeeds only on a JSON text.
Parses(text) == text.tx = "json"

\* The three factories' createFromLeafData(b), or Throw.
CreateFromLeafData(factory, b) ==
    CASE factory = "raw" ->
            [kind |-> "raw", data |-> IF b.leaf_input = Absent THEN EmptyText ELSE Atob(b.leaf_input)]
      [] factory = "json" ->
            [kind |-> "json", data |-> IF b.extra_data = Absent THEN EmptyText ELSE Atob(b.extra_data)]
      [] OTHER ->
            IF b.extra_data = Absent THEN Throw
            ELSE [kind |-> "redacted", data |-> Atob(b.extra_data)]

\* getEntry hands createFromLeafData the answer's text unparsed, where
\* getEntries parses it first; a field of a string reads as undefined.
GetEntryElement(b) == [leaf_input |-> Absent, extra_data |-> Absent]

\* JSON.stringify(undefined): getData of a document shedRedacted rejects.
UndefinedData == [tx |-> "undefined"]

\* getLeafHash throws: JSON.parse of a text that is not JSON.
LeafHashThrows(e) == e.kind # "raw" /\ e.data # EmptyText /\ ~Parses(e.data)

\* getLeafHash: the raw bytes, or (JsonEntry and RedactedJsonEntry alike)
\* the objecthash with standard redaction of the parsed text; the empty
\* text hashes as the empty raw entry.
GetLeafHash(e) ==
    CASE e.kind = "raw" \/ e.data = EmptyText -> LeafMerkleTreeHash(e.data)
      [] ~Parses(e.data) -> Throw
      [] OTHER -> LeafMerkleTreeHash(DigestText(ObjectHashWithStdRedaction(e.data.v)))

\* Fault variant of GetData: RedactedJsonEntry returns its text as stored,
\* like JsonEntry.
GetDataAsStored(e) == e.data

\* getData: the text as stored, or for RedactedJsonEntry
\* JSON.stringify(shedRedactedWithStdRedaction(JSON.parse(data))).
GetData(e) ==
    IF e.kind # "redacted" THEN e.data
    ELSE IF ~Parses(e.data) THEN Throw
    ELSE LET s == RedactedGetData(e.data.v)
         IN  IF s = Undef THEN UndefinedData ELSE JsonText(s)

=============================================================================
