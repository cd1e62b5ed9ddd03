------------------------------- MODULE Layout -------------------------------
(***************************************************************************)
(* Sizes and places (parse-resolver-runtime.cc): the type an enum is       *)
(* stored in, the size of a field, and its offset in a composite.  Only    *)
(* here does the length of a field type matter.  Both products are of      *)
(* int32_t, and lengths may be as large as that: where one does not fit,   *)
(* the code's behaviour is undefined, and so is the size or offset here.   *)
(* TLC's integers are those of int32_t, so bounds beyond them are written  *)
(* as the code compares.                                                   *)
(***************************************************************************)
EXTENDS DynamicApi

CONSTANTS EnumNumbers,     \* values of enums
          FieldBuiltins,   \* builtin types of fields
          FieldLengths,    \* lengths of fields, 1 if it is no array
          MaxFields,       \* bound on the fields of a composite
          MaxEnumValues    \* bound on the values of an enum

LeastInt32    == -2147483647 - 1
GreatestInt32 == 2147483647
ASSUME Int32Assumption ==
  /\ EnumNumbers \subseteq LeastInt32 .. GreatestInt32
  /\ FieldLengths \subseteq 0 .. GreatestInt32

(* A field type with the length of its array, 1 if it is none; the         *)
(* evaluator gives a field index the length 0.                             *)
Long(type, length) == [x \in DOMAIN type \cup {"length"} |->
                         IF x = "length" THEN length ELSE type[x]]

-----------------------------------------------------------------------------
(* ecsact_meta_enum_storage_type *)

ValuesOf(e) == {enum_values[e][i].value : i \in DOMAIN enum_values[e]}

Least(values)    == IF values = {} THEN GreatestInt32 ELSE Min(values)
Greatest(values) == IF values = {} THEN LeastInt32 ELSE Max(values)

StorageTypeOffByOne(values) ==   \* mutant: a bound of an unsigned type
  IF Least(values) < 0
  THEN IF Greatest(values) > 32767 THEN "I32"
       ELSE IF Greatest(values) > 127 THEN "I16" ELSE "I8"
  ELSE IF Greatest(values) > 65535 THEN "U32"
       ELSE IF Greatest(values) > 256 THEN "U16" ELSE "U8"
StorageType(values) ==
  IF Least(values) < 0
  THEN IF Greatest(values) > 32767 THEN "I32"
       ELSE IF Greatest(values) > 127 THEN "I16" ELSE "I8"
  ELSE IF Greatest(values) > 65535 THEN "U32"
       ELSE IF Greatest(values) > 255 THEN "U16" ELSE "U8"

-----------------------------------------------------------------------------
(* builtin_type_size, field_type_size, ecsact_meta_field_offset            *)

BuiltinSize(builtin) == CASE builtin \in {"BOOL", "I8", "U8"} -> 1
                          [] builtin \in {"I16", "U16"}       -> 2
                          [] OTHER                            -> 4

Slots == UNION {{<<c, i>> : i \in DOMAIN fields[c]} : c \in DOMAIN fields}

TypeAt(slot) == fields[slot[1]][slot[2]].type

BaseSize(type, sizes) ==
  CASE type.kind = "BUILTIN"     -> BuiltinSize(type.builtin)
    [] type.kind = "ENUM"        -> BuiltinSize(StorageType(ValuesOf(type.ref)))
    [] type.kind = "FIELD_INDEX" -> sizes[<<type.ref, type.field>>]

(* The product of a length or position and a size, in int32_t: Overflown   *)
(* stands for whatever comes of an overflow, there or in the size.         *)
Overflown == -1
Times(n, size) ==
  IF size = Overflown \/ (size > 0 /\ n > GreatestInt32 \div size)
  THEN Overflown ELSE n * size

FieldTypeSize[slot \in Slots] ==
  Times(TypeAt(slot).length, BaseSize(TypeAt(slot), FieldTypeSize))

Sizes(c) == [i \in DOMAIN fields[c] |-> FieldTypeSize[<<c, i>>]]

LargestFieldSize(c) == Max({0} \cup {Sizes(c)[i] : i \in DOMAIN fields[c]})

(* The sizes of all fields are computed, also of those behind the field.   *)
FieldOffsetPacked(c, i) == Times(i - 1, Sizes(c)[i])   \* mutant: only its own size counts
FieldOffset(c, i) ==
  IF Overflown \in Range(Sizes(c)) THEN Overflown ELSE Times(i - 1, LargestFieldSize(c))

-----------------------------------------------------------------------------
(* A host that fills enums and composites, and makes all other calls but   *)
(* the destruction of packages.  A field type refers to what there is.     *)

AddValueCalls(numbers) ==
  \E e \in DOMAIN enum_values, v \in numbers :
    Len(enum_values[e]) < MaxEnumValues /\ AddEnumValue(e, "v", v)

AddFieldCalls ==
  \E c \in Declared(Composites) :
    /\ Len(fields[c]) < MaxFields
    /\ \/ \E b \in FieldBuiltins, n \in FieldLengths :
            AddField(c, "f", Long(BuiltinType(b), n))
       \/ \E e \in DOMAIN enum_values, n \in FieldLengths :
            AddField(c, "f", Long(EnumType(e), n))
       \/ \E slot \in Slots, n \in FieldLengths \cup {0} :
            AddField(c, "f", Long(FieldIndex(slot[1], slot[2]), n))

LayoutCalls(numbers) == (AddValueCalls(numbers) \/ AddFieldCalls) /\ OnlyRuntime

LayoutNext == \/ CreateCalls \/ SystemCalls \/ TreeCalls \/ SettingCalls \/ AssocCalls
              \/ LayoutCalls(EnumNumbers)

LayoutSpec == ApiInit /\ [][LayoutNext]_api_vars

-----------------------------------------------------------------------------
(* The builtin types that hold a set of values, by the range of each.      *)
Holds(builtin, values) ==
  \A v \in values :
    CASE builtin = "I8"  -> v >= -128 /\ v <= 127
      [] builtin = "I16" -> v >= -32768 /\ v <= 32767
      [] builtin = "I32" -> TRUE
      [] builtin = "U8"  -> v >= 0 /\ v <= 255
      [] builtin = "U16" -> v >= 0 /\ v <= 65535
      [] builtin = "U32" -> v >= 0

(* The negative values of an enum, if any, ask for no more than its        *)
(* greatest one does: else the storage type is too small, as the code      *)
(* looks at the greatest value only.                                       *)
GreatestDecides(values) ==
  \/ Least(values) >= -128
  \/ Least(values) >= -32768 /\ Greatest(values) > 127
  \/ Greatest(values) > 32767

(* The storage type of an enum holds its values, and no type with fewer    *)
(* bytes does (ecsact_meta_enum_storage_type, at the bounds of the types). *)
StorageTypeFits ==
  \A e \in DOMAIN enum_values :
    LET values == ValuesOf(e)
        type   == StorageType(values)
    IN values # {} /\ GreatestDecides(values) =>
         /\ Holds(type, values)
         /\ \A b \in {"I8", "I16", "I32", "U8", "U16", "U32"} :
              Holds(b, values) => BuiltinSize(type) <= BuiltinSize(b)

(* No two fields of a composite share a byte, whatever their types, and    *)
(* also after fields and enum values were added that change every offset,  *)
(* as long as the offset of the later one is computed without an overflow  *)
(* of int32_t: then those before it are, and end there at the latest.      *)
FieldsDoNotOverlap ==
  \A c \in DOMAIN fields : \A i, j \in DOMAIN fields[c] :
    i < j /\ FieldOffset(c, j) # Overflown =>
      /\ FieldOffset(c, i) # Overflown
      /\ FieldOffset(c, i) + Sizes(c)[i] <= FieldOffset(c, j)
=============================================================================
