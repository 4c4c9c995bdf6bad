------------------------------- MODULE Metadata -------------------------------
(***************************************************************************)
(* metadata_from_file() of http_audio_server/metadata.cpp on top of        *)
(* Process::exec: what becomes of the tags of a file that ffprobe prints,  *)
(* whatever they are, and when it throws, which leaves Stream::advance()   *)
(* with the chunk of the file before (module Stream, Throw("probe")).      *)
(*                                                                         *)
(* A document is a function from the keys that are present to values.  A   *)
(* key is a field and how it is spelled, a value is a JSON type with the   *)
(* number in it, in tenths, so that there are fractions: the number at the *)
(* beginning of a string, as in "3/12", or NoNumber, as in "A1".           *)
(***************************************************************************)
EXTENDS ProcessExec, Sequences, SequencesExt

CONSTANTS
    Queries,  \* the fields in the order in which they are looked for
    Integral, \* those that are declared int
    Textual,  \* those that are strings; the others are double
    Keys,     \* bound: the keys that files have, <<field, spelling>>
    Values    \* bound: the values, [type, tenths]

NoNumber  == -1000
Spellings == {"UPPER", "lower"}

ASSUME MetadataAssumption ==
    /\ Queries \in Seq(STRING)
    /\ Integral \subseteq ToSet(Queries) /\ Textual \subseteq ToSet(Queries) \ Integral
    /\ Keys \subseteq ToSet(Queries) \X Spellings
    /\ Values \subseteq [type : {"null", "number", "string", "other"}, tenths : Int]

VARIABLES
    caller,    \* of exec(): "metadata_from_file" or "other"
    document,  \* what ffprobe printed, once it has been parsed
    outcome,   \* of metadata_from_file(): "none" before it has one, "result", "thrown"
    fields     \* of struct Metadata

call == <<caller, document, outcome, fields>>

-----------------------------------------------------------------------------
(***************************************************************************)
(* Looking up the fields.                                                  *)
(***************************************************************************)

Text(tenths)   == [type |-> "string", tenths |-> tenths]
Number(tenths) == [type |-> "number", tenths |-> tenths]

\* The initial value of a field: an empty string or -1.
Default(field) == IF field \in Textual THEN [type |-> "string", tenths |-> -2000] ELSE Number(-10)

\* What-if: the case matters.
MatchesLower(field, key) == key = <<field, "lower">>

\* std::regex_match with icase: the whole key, in either spelling.
Matches(field, key) == key[1] = field

\* std::map is sorted: capitals come first.
FirstMatch(keys) == CHOOSE key \in keys : key[2] = "lower" => keys = {key}

\* What-if: every value is dumped and given to std::stold().
ThrowsUnlessNumber(field, value) ==
    field \notin Textual /\ value.type # "null" /\ value.tenths = NoNumber

\* std::stold() of a string without a number in front.
Throws(field, value) ==
    field \notin Textual /\ value.type = "string" /\ value.tenths = NoNumber

\* The conversion to int, which drops the fraction.
Truncated(tenths) == IF tenths < 0 THEN -(10 * ((-tenths) \div 10)) ELSE 10 * (tenths \div 10)

\* get_string() and get_number(): what is not a string is dumped, a JSON number
\* goes through int, and an int field cuts the fraction off.
Converted(field, value) ==
    CASE value.type = "null"   -> Default(field)
      [] field \in Textual     -> Text(value.tenths)
      [] value.type = "other"  -> Default(field)
      [] value.type = "string" /\ field \notin Integral -> Number(value.tenths)
      [] OTHER                 -> Number(Truncated(value.tenths))

\* get_json() takes the value it finds out of the map.  What comes after an
\* exception is not looked up.
LookUp(state, field) ==
    LET matches == {key \in DOMAIN state.data : Matches(field, key)}
        first == FirstMatch(matches)
        value == state.data[first]
    IN  IF state.throws \/ matches = {} THEN state
        ELSE IF Throws(field, value) THEN [state EXCEPT !.throws = TRUE]
        ELSE [data   |-> [key \in DOMAIN state.data \ {first} |-> state.data[key]],
              fields |-> [state.fields EXCEPT ![field] = Converted(field, value)],
              throws |-> FALSE]

Defaults == [field \in ToSet(Queries) |-> Default(field)]

\* What has become of the document and the fields after the first k queries.
LookUps(data) ==
    LET after[k \in 0..Len(Queries)] ==
            IF k = 0 THEN [data |-> data, fields |-> Defaults, throws |-> FALSE]
                     ELSE LookUp(after[k - 1], Queries[k])
    IN  after

LookUpAll(data) == LookUps(data)[Len(Queries)]

-----------------------------------------------------------------------------
(***************************************************************************)
(* The calls.                                                              *)
(***************************************************************************)

NoDocument == <<>>

Init ==
    /\ InitExec
    /\ caller \in {"metadata_from_file", "other"}
    /\ caller = "metadata_from_file" => input = 0
    /\ document = NoDocument /\ outcome = "none" /\ fields = Defaults

\* What-if: the exit code is not looked at.
HasDocumentAlways == TRUE

HasDocument == res = 0

\* json::parse() throws for an output that is not a whole document.
Unreadable == collected["stdout"] = 0 \/ collected["stdout"] # plan["stdout"]

Finish(kind) == outcome' = kind /\ UNCHANGED <<kernel, handle, threads, pc, res, io, caller>>

ExecFailed ==
    /\ ~HasDocument
    /\ Finish("result")
    /\ UNCHANGED <<document, fields>>

ParseThrows ==
    /\ HasDocument /\ Unreadable
    /\ Finish("thrown")
    /\ UNCHANGED <<document, fields>>

ReadDocument(data) ==
    /\ HasDocument /\ ~Unreadable
    /\ document' = data
    /\ LET lookup == LookUpAll(data)
       IN  Finish(IF lookup.throws THEN "thrown" ELSE "result") /\ fields' = lookup.fields

MetadataFromFile ==
    /\ pc = "returned" /\ caller = "metadata_from_file" /\ outcome = "none"
    /\ \/ ExecFailed \/ ParseThrows
       \/ \E keys \in SUBSET Keys : \E data \in [keys -> Values] : ReadDocument(data)

Returned ==
    /\ pc = "returned"
    /\ caller = "metadata_from_file" => outcome # "none"
    /\ UNCHANGED <<vars, call>>

Next == (Exec /\ UNCHANGED call) \/ MetadataFromFile \/ Returned

Spec == Init /\ [][Next]_<<vars, call>> /\ ExecFairness

-----------------------------------------------------------------------------
(***************************************************************************)
(* Properties.                                                             *)
(***************************************************************************)

TypeOK ==
    /\ ExecType
    /\ caller \in {"metadata_from_file", "other"}
    /\ DOMAIN document \subseteq Keys
    /\ outcome \in {"none", "result", "thrown"}
    /\ fields \in [ToSet(Queries) -> [type : {"string", "number"}, tenths : Int]]

\* A field has the value of a tag of that name, in whichever case the file
\* writes it and whatever other tags there are, or is as if there were none;
\* and there are no fields without an ffprobe that ran well.
TagsAreFound ==
    outcome = "result" =>
        \A field \in ToSet(Queries) :
            LET values == {document[key] : key \in {k \in DOMAIN document : k[1] = field}}
            IN  IF values = {} \/ status # 0
                  THEN fields[field] = Default(field)
                  ELSE fields[field] \in {Converted(field, value) : value \in values}

\* What makes metadata_from_file() throw, and a stream lose a chunk, is nothing
\* but an ffprobe that succeeds without a word and a number that is none.
ThrowsForNumbersOnly ==
    outcome = "thrown" =>
        \/ status = 0 /\ plan["stdout"] = 0
        \/ \E key \in DOMAIN document :
               /\ key[1] \notin Textual
               /\ document[key] = Text(NoNumber)
=============================================================================
