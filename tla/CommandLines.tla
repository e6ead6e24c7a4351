---------------------------- MODULE CommandLines ----------------------------
(***************************************************************************)
(* What sl promises of the lines that are typed, one after the other: a    *)
(* line is refused before any of its commands has an effect, or they run   *)
(* here, in their order up to the first that fails, or the line is         *)
(* published; it is never both published and run.  Exit code 0 says that   *)
(* all of its commands succeeded here, or that it was published, which the *)
(* job server may have left without an answer.                             *)
(***************************************************************************)
EXTENDS Naturals

VARIABLES
  fate,    \* "open", or where the line went: "here" or "there"
  left,    \* how many of its commands have not run here
  faulty,  \* a word of it is no command of any group
  failed,  \* a command that ran here failed
  code     \* the exit code, "none" before there is one

promised == <<fate, left, faulty, failed, code>>

Init ==
  /\ fate = "open" /\ left = 0 /\ faulty = FALSE /\ failed = FALSE
  /\ code = "0"

\* The next line.
Begin ==
  /\ code # "none"
  /\ fate' = "open" /\ left' \in Nat /\ faulty' \in BOOLEAN
  /\ failed' = FALSE /\ code' = "none"

Refuse ==
  /\ code = "none" /\ fate = "open"
  /\ code' = "1"
  /\ UNCHANGED <<fate, left, faulty, failed>>

RunHere ==
  /\ code = "none" /\ ~ faulty /\ fate # "there" /\ left > 0
  /\ fate' = "here" /\ left' = left - 1
  /\ \/ UNCHANGED <<failed, code>>
     \/ failed' = TRUE /\ code' = "1"
  /\ UNCHANGED faulty

Publish ==
  /\ code = "none" /\ ~ faulty /\ fate = "open"
  /\ fate' = "there"
  /\ UNCHANGED <<left, faulty, failed, code>>

Succeed ==
  /\ code = "none" /\ ~ faulty /\ ~ failed
  /\ fate = "there" \/ left = 0
  /\ code' = "0"
  /\ UNCHANGED <<fate, left, faulty, failed>>

Next == Begin \/ Refuse \/ RunHere \/ Publish \/ Succeed

Spec == Init /\ [][Next]_promised
=============================================================================
