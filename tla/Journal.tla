------------------------------ MODULE Journal ------------------------------
(***************************************************************************)
(* What the log promises its reader: a journal kept in volumes.  Lines go  *)
(* to the end of the current volume, whole, or begin the next one; what is *)
(* in a closed volume is never changed again, and a volume is lost as a    *)
(* whole or not at all; the only line ever taken back is the second of two *)
(* online lines, by a third one.                                           *)
(*                                                                         *)
(* A text is a sequence of bytes, each the number of the line it is from.  *)
(***************************************************************************)
EXTENDS Integers, Sequences

CONSTANT Lens  \* lengths a line may have

VARIABLES
  current,  \* the text of the current volume
  closed,   \* the texts of the closed ones that are left
  online,   \* lengths of the online lines just told, two at most
  told      \* lines told so far

Init == current = <<>> /\ closed = {} /\ online = <<>> /\ told = 0

LineOf(n, len) == [j \in 1..len |-> n]

\* One more line after the text s, or a new volume that begins with it.
GoesOn(s, len) ==
  /\ told' = told + 1
  /\ \/ current' = s \o LineOf(told + 1, len) /\ closed' \subseteq closed
     \/ /\ current' = LineOf(told + 1, len)
        /\ closed' \subseteq closed \cup {s} /\ (s # <<>> => s \in closed')

Other(len) == GoesOn(current, len) /\ online' = <<>>
Online(len) == Len(online) < 2 /\ GoesOn(current, len) /\ online' = Append(online, len)

\* The third online line takes the place of the second, the last line there is.
OnlineAgain(len) ==
  /\ Len(online) = 2 /\ online[2] <= Len(current)
  /\ LET s == SubSeq(current, 1, Len(current) - online[2])
     IN  current = s \o LineOf(told, online[2]) /\ GoesOn(s, len)
  /\ online' = <<online[1], len>>

\* After a restart the last volume may be lost as well.
Restart(len) ==
  /\ told' = told + 1 /\ online' = <<>>
  /\ \/ current' = current \o LineOf(told + 1, len)
     \/ current' = LineOf(told + 1, len)
  /\ closed' \subseteq closed \cup {current}

Next == \E len \in Lens : Other(len) \/ Online(len) \/ OnlineAgain(len) \/ Restart(len)
Spec == Init /\ [][Next]_<<current, closed, online, told>>
=============================================================================
