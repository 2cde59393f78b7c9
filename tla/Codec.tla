-------------------------------- MODULE Codec -------------------------------
(***************************************************************************)
(* How values are stored (jsonutil.py, timeutil.py).  A dataclass becomes  *)
(* an object without the fields that are left out when they are zero, an   *)
(* instant a text that keeps nine digits of its second, and each comes     *)
(* back by its type.  Files outlive versions: one may lack a field, have   *)
(* one nobody knows, or say null.                                          *)
(*                                                                         *)
(* A type is a record: a kind, and what it is made of.  A number of this   *)
(* module has Width digits behind the point, of which a datetime holds     *)
(* Micro.                                                                  *)
(***************************************************************************)
EXTENDS Integers, Sequences, FiniteSets

CONSTANTS
  Stored,    \* the type of what is stored
  Values,    \* the values of that type that are written
  Width,     \* the digits of a second that are kept, nine in the code
  Micro,     \* those a datetime holds, six in the code
  Depth,     \* how deep the type of what is stored is nested
  Unknown,   \* a key this version does not know
  None       \* null, and a value that is absent

VARIABLES
  value,   \* what the program holds
  file,    \* what is on disk
  edited   \* whether another version has changed a field there since

cvars == <<value, file, edited>>

-----------------------------------------------------------------------------
(* Instants.                                                               *)

WithoutZeros(digits) ==
  LET last == CHOOSE n \in 0 .. Len(digits) :
                /\ n # 0 => digits[n] # 0
                /\ \A i \in n + 1 .. Len(digits) : digits[i] = 0
  IN SubSeq(digits, 1, last)

(* Seconds east of Greenwich, as sign, hours and minutes.                  *)
Offset(seconds) ==
  LET size == IF seconds < 0 THEN -seconds ELSE seconds
  IN [east |-> seconds >= 0, hours |-> size \div 3600, minutes |-> (size % 3600) \div 60]

ParseOffset(o) ==
  (IF o.east THEN 1 ELSE -1) * (o.hours * 3600 + o.minutes * 60)

(* Mutant: the fraction is that of a datetime.                             *)
FormatMicroseconds(t) ==
  [second |-> t.second, fraction |-> WithoutZeros(SubSeq(t.digits, 1, Micro)),
   offset |-> Offset(t.offset)]

FormatTime(t) ==
  [second |-> t.second, fraction |-> WithoutZeros(t.digits), offset |-> Offset(t.offset)]

(* Mutant: the digits are not filled up on the right.                      *)
ParseTimeUnpadded(text) ==
  [second |-> text.second, digits |-> text.fraction, offset |-> ParseOffset(text.offset)]

ParseTime(text) ==
  [second |-> text.second,
   digits |-> SubSeq(text.fraction \o [i \in 1 .. Width |-> 0], 1, Width),
   offset |-> ParseOffset(text.offset)]

-----------------------------------------------------------------------------
(* Values.                                                                 *)

Fields(type) == DOMAIN type.fields

(* The zero values that are left out.                                      *)
IsZero(type, v) ==
  CASE v = None -> TRUE
    [] v # None /\ type.kind = "flag" -> ~v
    [] v # None /\ type.kind = "text" -> v = ""
    [] v # None /\ type.kind = "list" -> v = <<>>
    [] v # None /\ type.kind = "optional" /\ type.of.kind = "list" -> v = <<>>
    [] OTHER -> FALSE

Written(type, v) ==
  { k \in Fields(type) : ~ (type.fields[k].omitempty /\ IsZero(type.fields[k].type, v[k])) }

(* The conversions go through a value by its type: a part of one is the    *)
(* pair of a type and a value.                                             *)
PartsOf(part) ==
  LET type == part[1]
      v == part[2]
  IN CASE v = None -> {}
       [] v # None /\ type.kind = "optional" -> { <<type.of, v>> }
       [] v # None /\ type.kind = "record" ->
            { <<type.fields[k].type, v[k]>> : k \in Fields(type) \cap DOMAIN v }
       [] v # None /\ type.kind = "list" -> { <<type.of, v[i]>> : i \in DOMAIN v }
       [] OTHER -> {}

(* A conversion makes its result of those of the parts.                    *)
Converted(type, v, Make(_, _)) ==
  LET parts[n \in 0 .. Depth] ==
        IF n = 0 THEN { <<type, v>> }
                 ELSE LET above == parts[n - 1] IN above \cup UNION { PartsOf(p) : p \in above }
      made[p \in parts[Depth]] == Make(p, [q \in PartsOf(p) |-> made[q]])
  IN made[<<type, v>>]

PartToJson(part, made) ==
  LET type == part[1]
      v == part[2]
  IN CASE v = None -> None
       [] v # None /\ type.kind = "optional" -> made[<<type.of, v>>]
       [] v # None /\ type.kind = "record" ->
            [k \in Written(type, v) |-> made[<<type.fields[k].type, v[k]>>]]
       [] v # None /\ type.kind = "list" -> [i \in DOMAIN v |-> made[<<type.of, v[i]>>]]
       [] v # None /\ type.kind = "time" -> FormatTime(v)
       [] OTHER -> v

ToJson(type, v) == Converted(type, v, PartToJson)

(* Mutant: null is no list.                                                *)
TakesNullIfOptional(type) == type.kind = "optional"

TakesNull(type) == type.kind \in {"optional", "list"}

(* Whether a value of this type can be made of it.                         *)
PartDecodes(part, made) ==
  IF part[2] = None THEN TakesNull(part[1]) ELSE \A p \in DOMAIN made : made[p]

Decodes(type, json) == Converted(type, json, PartDecodes)

PartFromJson(part, made) ==
  LET type == part[1]
      json == part[2]
  IN CASE json = None -> IF type.kind = "list" THEN <<>> ELSE None
       [] json # None /\ type.kind = "optional" -> made[<<type.of, json>>]
       [] json # None /\ type.kind = "record" ->
            [k \in Fields(type) |-> IF k \in DOMAIN json
                                    THEN made[<<type.fields[k].type, json[k]>>]
                                    ELSE type.fields[k].default]
       [] json # None /\ type.kind = "list" -> [i \in DOMAIN json |-> made[<<type.of, json[i]>>]]
       [] json # None /\ type.kind = "time" -> ParseTime(json)
       [] OTHER -> json

FromJson(type, json) == Converted(type, json, PartFromJson)

-----------------------------------------------------------------------------
Save ==
  /\ file' = ToJson(Stored, value)
  /\ edited' = FALSE
  /\ UNCHANGED value

(* A file that is no value of the type is refused whole.                   *)
Load ==
  /\ Decodes(Stored, file)
  /\ value' = FromJson(Stored, file)
  /\ UNCHANGED <<file, edited>>

(* Another version leaves a field out, has one more, or writes null.       *)
Edit ==
  /\ ~edited
  /\ edited' = TRUE
  /\ \/ \E k \in DOMAIN file : file' = [j \in DOMAIN file \ {k} |-> file[j]]
     \/ file' = [j \in DOMAIN file \cup {Unknown} |-> IF j = Unknown THEN None ELSE file[j]]
     \/ \E k \in DOMAIN file : file' = [file EXCEPT ![k] = None]
  /\ UNCHANGED value

Init ==
  /\ value \in Values
  /\ file = ToJson(Stored, value)
  /\ edited = FALSE

Next == Save \/ Load \/ Edit

-----------------------------------------------------------------------------
(* The value without what the program does not tell apart: no list and an  *)
(* empty one.                                                              *)
PartPlain(part, made) ==
  LET type == part[1]
      v == part[2]
  IN CASE v = None \/ (type.kind = "optional" /\ IsZero(type, v)) -> None
       [] v # None /\ type.kind = "optional" /\ ~IsZero(type, v) -> made[<<type.of, v>>]
       [] v # None /\ type.kind = "record" ->
            [k \in Fields(type) |-> made[<<type.fields[k].type, v[k]>>]]
       [] v # None /\ type.kind = "list" -> [i \in DOMAIN v |-> made[<<type.of, v[i]>>]]
       [] OTHER -> v

Plain(type, v) == Converted(type, v, PartPlain)

(* "reading an artefact and writing it back is lossless": what was written *)
(* is read as it was, to the last digit of its instants, whatever fields   *)
(* were left out; and written again it is the same file.                   *)
RewriteIsLossless ==
  ~edited => /\ Decodes(Stored, file)
             /\ Plain(Stored, value) = Plain(Stored, FromJson(Stored, file))
             /\ ToJson(Stored, FromJson(Stored, file)) = file

(* Of a file of another version a rewrite keeps every field this one       *)
(* knows, and drops the one it does not; a file is refused only for a null *)
(* where there must be a value.                                            *)
OtherVersionsAreKept ==
  edited =>
    IF Decodes(Stored, file)
    THEN LET again == ToJson(Stored, FromJson(Stored, file))
         IN /\ \A k \in Fields(Stored) \cap DOMAIN file :
                 file[k] # None => k \in DOMAIN again /\ again[k] = file[k]
            /\ Unknown \notin DOMAIN again
    ELSE \E k \in Fields(Stored) \cap DOMAIN file :
           file[k] = None /\ Stored.fields[k].type.kind \notin {"optional", "list"}

(* Both, wherever a step is taken: and from every state there is one, an   *)
(* edit of a file that was not edited and a write over one that was.       *)
RecordsAreKeptStep == RewriteIsLossless /\ OtherVersionsAreKept
=============================================================================
