--------------------------- MODULE VersionedDocument ---------------------------
(* What an editorial table promises its readers: a document is created once as *)
(* DRAFT, every committed write raises its version by exactly one, and its     *)
(* status moves only along the workflow, one transition per version.  Editors  *)
(* that work from the same version therefore never both succeed.               *)
EXTENDS Naturals, Workflow

CONSTANTS
    Docs,       \* ids of the documents
    Absent,     \* no row yet
    Start,      \* [Docs -> {Absent} \cup [status, version]]: the table at the start
    Editable    \* statuses in which the text may be edited in place

VARIABLE doc    \* [Docs -> {Absent} \cup [status, version]]

Init == doc = Start

Create(d) ==
    /\ doc[d] = Absent
    /\ doc' = [doc EXCEPT ![d] = [status |-> "DRAFT", version |-> 1]]

Edit(d) ==
    /\ doc[d] # Absent
    /\ doc[d].status \in Editable
    /\ doc' = [doc EXCEPT ![d].version = @ + 1]

Move(d, to) ==
    /\ doc[d] # Absent
    /\ validate_transition(doc[d].status, to)
    /\ doc' = [doc EXCEPT ![d] = [status |-> to, version |-> @.version + 1]]

Next ==
    \E d \in Docs :
        \/ Create(d)
        \/ Edit(d)
        \/ \E to \in PublicationStatus : Move(d, to)

Spec == Init /\ [][Next]_doc
================================================================================
