----------------------------- MODULE MCDispatch -----------------------------
(***************************************************************************)
(* Dispatch for TLC: a handler with a required argument that has a         *)
(* shortcut and an optional number that has none, commands of up to two    *)
(* arguments alone in their lines, and lines of two commands.              *)
(***************************************************************************)
EXTENDS Dispatch

MCReference ==
  {[argument |-> "path", shortcut |-> "p", required |-> TRUE,
    number |-> FALSE, default |-> "<path>"],
   [argument |-> "size", shortcut |-> "", required |-> FALSE,
    number |-> TRUE, default |-> "0x10"]}

MCAlphabet == <<"", "help", "p", "path", "size", "validateSyntax", "x">>

MCUnquoted == [v \in {"'v'"} |-> "v"]

MCDecimal == [v \in {"0x10", "0x20"} |-> IF v = "0x10" THEN "16" ELSE "32"]

Input(group, name, args) == [group |-> group, name |-> name, args |-> args]

Word(name, value) == [name |-> name, value |-> value]

Path == <<Word("p", "v")>>

Control ==
  {Input("app", "work", Path), Input("app", "work", <<>>),
   Input("app", "missing", Path), Input("none", "work", Path),
   Input("cloud", "connect", Path), Input("cloud", "listen", Path)}

Arguments ==
  {<<t>> : t \in Typed({"v"})}
    \cup {<<Word("p", v)>> : v \in {"bare", "", "<path>", "'v'", "0x20"}}
    \cup {<<Word("help", "bare")>>}
    \cup {<<t, u>> : t \in {Word("p", "v")}, u \in Typed({"bare"})}
    \cup {<<t, Word("path", "v")>> : t \in {Word("size", "v"), Word("size", "0x20"),
                                           Word("p", "")}}

Pairs == {i \in Control : i.name # "missing" /\ i.args = Path}

MCInputs == Control \cup {Input("app", "work", args) : args \in Arguments}

MCLines ==
  {<<>>} \cup {<<i>> : i \in MCInputs} \cup {<<i, j>> : i \in Control, j \in Pairs}

MCShortcuts == {i \in Pairs : i.name = "connect"}

MCJobs == {i \in Pairs : i.name = "listen"}
=============================================================================
