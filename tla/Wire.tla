-------------------------------- MODULE Wire --------------------------------
(***************************************************************************)
(* The text format all KFS processes talk in: a command or "OK", one       *)
(* "key: value" line per header, an empty line, and for some messages a    *)
(* body of Content-length bytes.  A value is kept as far as a receiver can *)
(* get it wrong: which field of the sender's object it was written from,   *)
(* and its magnitude.  A message's headers are a function from keys to     *)
(* such values, as Properties holds them.                                  *)
(***************************************************************************)
EXTENDS Integers, Sequences, FiniteSets

(***************************************************************************)
(* The C++ types of the fields that travel.  A fixed word, like a lease    *)
(* type, is its own type.                                                  *)
(***************************************************************************)
I64  == "int64_t"
U32  == "uint32_t"
I32  == "int"
Copy == "int, a replica count"
Text == "string"

\* The two instances of every message: fields that fit anywhere and no
\* optional header, or fields at the upper end of their type and every
\* optional header.
Variants == {"small", "large"}

\* What `os << field` writes for a field of type t.
Written(f, t, variant) ==
    <<f, IF variant = "large" /\ t \in {I64, U32, Copy} THEN t
         ELSE IF t \in {I64, U32, Copy, I32, Text} THEN "small" ELSE t>>

\* An object of class cls: a value for each of its fields.
Object(cls, variant) ==
    [f \in {d[1] : d \in cls} |->
        Written(f, (CHOOSE d \in cls : d[1] = f)[2], variant)]

(***************************************************************************)
(* A sender's side of a message: the headers it always writes, as          *)
(* <<key, field>>, those it writes only in some cases, and whether a body  *)
(* follows.                                                                *)
(***************************************************************************)
Message(always, sometimes, body) ==
    [always |-> always, sometimes |-> sometimes, body |-> body]

Headers(msg, obj, variant) ==
    LET hs == msg.always \cup (IF variant = "large" THEN msg.sometimes ELSE {})
    IN  [k \in {h[1] : h \in hs} |-> obj[(CHOOSE h \in hs : h[1] = k)[2]]]

(***************************************************************************)
(* A receiver's side: which field a header goes into, the overload of      *)
(* Properties::getValue that reads it, and whether the parser refuses a    *)
(* message without it.                                                     *)
(***************************************************************************)
Reads(how, key, field) == [how |-> how, key |-> key, field |-> field, must |-> FALSE]
Atoll(key, field)  == Reads("atoll", key, field)
Atoi(key, field)   == Reads("atoi", key, field)
Str(key, field)    == Reads("string", key, field)
Copies(key, field) == Reads("capped", key, field)
Must(r)            == [r EXCEPT !.must = TRUE]

\* Properties::getValue: the default for a missing key; atoi keeps the low
\* 32 bits; a replica count is capped at MAX_REPLICAS_PER_FILE.
getValue(r, hdrs) ==
    CASE r.key \notin DOMAIN hdrs -> <<"", "default">>
      [] r.key \in DOMAIN hdrs /\ r.how = "atoi" /\ hdrs[r.key][2] = I64 ->
            <<hdrs[r.key][1], "low 32 bits">>
      [] r.key \in DOMAIN hdrs /\ r.how = "capped" /\ hdrs[r.key][2] = Copy ->
            <<hdrs[r.key][1], "cap">>
      [] OTHER -> hdrs[r.key]

\* What the parser fills the receiver's object with.
Parsed(reads, hdrs) ==
    [f \in {r.field : r \in reads} |->
        getValue(CHOOSE r \in reads : r.field = f, hdrs)]

Refused(reads, hdrs) == \E r \in reads : r.must /\ r.key \notin DOMAIN hdrs
=============================================================================
