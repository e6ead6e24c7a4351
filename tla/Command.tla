------------------------------- MODULE Command -------------------------------
(***************************************************************************)
(* The arguments of a command.  `group.command:path=x,run` is parsed into   *)
(* a list of details; the handler parses a reference string the same way,  *)
(* which names each argument, its shortcut, whether it is required and its *)
(* default; is_valid() compares the two and get_argument_value() looks an  *)
(* argument up.                                                            *)
(*                                                                         *)
(* Characters are abstracted: an argument as typed is a record of a name   *)
(* and a value, where Bare is "no value", and the reference is a set of    *)
(* records.  What quotes and hexadecimal numbers are turned into is given  *)
(* as functions on the values that have them.                              *)
(***************************************************************************)
EXTENDS Naturals, Sequences

CONSTANTS
  Reference,  \* the arguments of the handler,
              \* [argument, shortcut, required, number, default]
  Alphabet,   \* the names that may be typed, in the order of their letters
  Bare,       \* an argument without `=`
  Empty,      \* the empty string
  True,       \* the string "true"
  Remark,     \* a value in angle brackets
  Unquoted,   \* a value that begins with a single quote -> the same without quotes
  Decimal     \* a value that begins with 0x -> the same number in decimal

ASSUME CommandAssumption ==
  /\ \A r \in Reference : r.required \in BOOLEAN /\ r.number \in BOOLEAN
  /\ Alphabet \in Seq(STRING)
  /\ True # Remark

\* validateSyntax asks for the verdict alone and is not an argument.
Validate == "validateSyntax"

Typed(values) == [name : {Alphabet[i] : i \in 1..Len(Alphabet)}, value : values]

\* parse_command_string(): a missing value becomes "true", and a value that
\* begins with a single quote loses it, and the last one if it is a quote, too.
Parsed(t) ==
  [argument |-> t.name,
   value |-> IF t.value = Bare THEN True
             ELSE IF t.value \in DOMAIN Unquoted THEN Unquoted[t.value]
             ELSE t.value]

IsArgument(t) == t.name # Validate

Places(args) == {i \in 1..Len(args) : IsArgument(args[i])}

IsValidate(args) == \E i \in 1..Len(args) : ~ IsArgument(args[i])

\* A detail speaks of r when it has its name or its shortcut.  An argument
\* without a shortcut has an empty one, which an empty word matches.
Names(r) == {r.argument, r.shortcut}

Help(args) ==
  \E i \in Places(args) :
    args[i].name = "help" /\ Parsed(args[i]).value = True

Recognized(args) ==
  \A i \in Places(args) : \E r \in Reference : args[i].name \in Names(r)

RequiredPresent(args) ==
  \A r \in Reference :
    r.required => \E i \in Places(args) : args[i].name \in Names(r)

\* Two details of one name.  A name and its shortcut are not compared.
NoDuplicate(args) ==
  \A i, j \in Places(args) : i # j => args[i].name # args[j].name

\* is_valid(): the verdict, and the reply of a command that is only validated.
Syntax(args) ==
  Recognized(args) /\ RequiredPresent(args) /\ NoDuplicate(args)

IsValid(args) == ~ Help(args) /\ Syntax(args) /\ ~ IsValidate(args)

-----------------------------------------------------------------------------
\* The details are sorted by name, and the first that speaks of r is taken.
Position(name) == CHOOSE k \in 1..Len(Alphabet) : Alphabet[k] = name

Speaking(args, r) == {i \in Places(args) : args[i].name \in Names(r)}

FirstOf(args, r) ==
  CHOOSE i \in Speaking(args, r) :
    \A j \in Speaking(args, r) :
      Position(args[i].name) <= Position(args[j].name)

\* lookup_argument_value(): an argument with an empty value takes the default
\* of the detail as it was typed, which has none.
Lookup(args, r) ==
  IF Speaking(args, r) = {}
  THEN r.default
  ELSE Parsed(args[FirstOf(args, r)]).value

\* The value of an argument of type int is in decimal, if it began with 0x.
InDecimal(r, value) ==
  IF r.number /\ value \in DOMAIN Decimal THEN Decimal[value] ELSE value

\* Mutant of ArgumentValue: the shortcut is not looked for.
ArgumentValueLong(args, r) ==
  LET value == IF \E i \in Places(args) : args[i].name = r.argument
               THEN Lookup(args, r)
               ELSE r.default
  IN  InDecimal(r, IF value = Remark THEN Empty ELSE value)

\* get_argument_value(): a remark in angle brackets is blank.
ArgumentValue(args, r) ==
  InDecimal(r, IF Lookup(args, r) = Remark THEN Empty ELSE Lookup(args, r))

\* print_options(): what the report says of an argument.
Printed(args, r) ==
  LET value == ArgumentValue(args, r)
  IN  IF value = Empty THEN r.default ELSE value

-----------------------------------------------------------------------------
\* What somebody means who types t for r, and the names he has for r.
Meant(t, r) == InDecimal(r, Parsed(t).value)

NamesTyped(r) == {r.argument, r.shortcut} \ {Empty}

(***************************************************************************)
(* A valid command gives its handler the values of the command line:       *)
(* whatever argument was typed, under either of its names, reaches the     *)
(* handler with the value that was typed, without its quotes and, for a    *)
(* number, in decimal; an empty one stays empty; and an argument that was  *)
(* not typed has its default.  Two kinds of lines are left out, which      *)
(* Command::is_valid() lets pass: of both names of one argument the first  *)
(* in the alphabet is taken, and an empty word, as a comma at the end      *)
(* leaves it, is taken for every argument that has no shortcut.            *)
(***************************************************************************)
Bound(args) ==
  IsValid(args) /\ (\A i \in 1..Len(args) : args[i].name # Empty) =>
    \A r \in Reference :
      LET typed == {i \in 1..Len(args) : args[i].name \in NamesTyped(r)}
      IN  /\ typed = {} /\ r.default # Remark
             => ArgumentValue(args, r) = InDecimal(r, r.default)
          /\ \A i \in typed :
               typed = {i} /\ Parsed(args[i]).value # Remark
               => ArgumentValue(args, r) = Meant(args[i], r)
=============================================================================
