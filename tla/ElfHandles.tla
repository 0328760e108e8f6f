----------------------------- MODULE ElfHandles -----------------------------
(***************************************************************************)
(* What libelf promises of its descriptors (elf_begin.3, elf_end.3): an    *)
(* object stays open as long as somebody holds a handle for it, or for a   *)
(* member of it that is still open, and is released some time after that.  *)
(* ElfDesc implements this with activation and child counts.               *)
(***************************************************************************)
EXTENDS Naturals

CONSTANTS
  Ids,   \* descriptors
  None

VARIABLES
  open,   \* the descriptors that exist
  refs,   \* how many handles the client has for each
  up      \* the archive that a member belongs to, or None

hvars == <<open, refs, up>>

Members(d) == {m \in open : up[m] = d}

Init ==
  /\ open = {}
  /\ refs = [d \in Ids |-> 0]
  /\ up = [d \in Ids |-> None]

\* A new object, or a member of an open archive.
Open(d, p) ==
  /\ d \in Ids \ open
  /\ p \in {None} \cup open
  /\ open' = open \cup {d}
  /\ refs' = [refs EXCEPT ![d] = 1]
  /\ up' = [up EXCEPT ![d] = p]

\* One more handle for an object that is open.
Retain(d) ==
  /\ d \in open
  /\ refs[d] > 0
  /\ refs' = [refs EXCEPT ![d] = @ + 1]
  /\ UNCHANGED <<open, up>>

\* A handle is given back.
Drop(d) ==
  /\ d \in open
  /\ refs[d] > 0
  /\ refs' = [refs EXCEPT ![d] = @ - 1]
  /\ UNCHANGED <<open, up>>

\* An object without handles and without open members is released.
Collect(d) ==
  /\ d \in open
  /\ refs[d] = 0
  /\ Members(d) = {}
  /\ open' = open \ {d}
  /\ up' = [up EXCEPT ![d] = None]
  /\ UNCHANGED refs

Next ==
  \E d \in Ids :
    \/ \E p \in Ids \cup {None} : Open(d, p)
    \/ Retain(d)
    \/ Drop(d)
    \/ Collect(d)

Spec == Init /\ [][Next]_hvars /\ \A d \in Ids : WF_hvars(Collect(d))
=============================================================================
