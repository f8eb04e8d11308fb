--------------------------- MODULE CommandChannel ---------------------------
(***************************************************************************)
(* What a host may rely on when it sends commands to a device: those that  *)
(* are accepted are carried out, each once and in the order in which they  *)
(* were accepted, and nothing else is carried out.                         *)
(***************************************************************************)
EXTENDS Integers, Sequences

CONSTANT Commands \* the calls a host may want its device to make

VARIABLES
    accepted, \* the commands accepted so far
    done      \* the calls the device has made

vars == <<accepted, done>>

Init ==
    /\ accepted = << >>
    /\ done = << >>

Accept ==
    /\ \E command \in Commands : accepted' = Append(accepted, command)
    /\ done' = done

CarryOut ==
    /\ Len(done) < Len(accepted)
    /\ done' = Append(done, accepted[Len(done) + 1])
    /\ accepted' = accepted

Next == Accept \/ CarryOut

Spec == Init /\ [][Next]_vars /\ WF_vars(CarryOut)

=============================================================================
