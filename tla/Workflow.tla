-------------------------------- MODULE Workflow --------------------------------
(* The editorial state machine that public event pages and CMS documents       *)
(* share: the states, the table of transitions and the roles of the callers.   *)

PublicationStatus ==
    {"DRAFT", "IN_REVIEW", "APPROVED", "PUBLISHED", "ARCHIVED", "RETRACTED"}

(* Mutant of ALLOWED_TRANSITIONS: a retracted page can be archived again. *)
RetractedReturns ==
    [ DRAFT     |-> {"IN_REVIEW"},
      IN_REVIEW |-> {"APPROVED", "DRAFT"},
      APPROVED  |-> {"PUBLISHED", "DRAFT"},
      PUBLISHED |-> {"ARCHIVED", "RETRACTED"},
      ARCHIVED  |-> {"PUBLISHED", "DRAFT"},
      RETRACTED |-> {"ARCHIVED"} ]

(* from_status -> the states it may be moved to; RETRACTED is terminal. *)
ALLOWED_TRANSITIONS ==
    [ DRAFT     |-> {"IN_REVIEW"},
      IN_REVIEW |-> {"APPROVED", "DRAFT"},
      APPROVED  |-> {"PUBLISHED", "DRAFT"},
      PUBLISHED |-> {"ARCHIVED", "RETRACTED"},
      ARCHIVED  |-> {"PUBLISHED", "DRAFT"},
      RETRACTED |-> {} ]

allowed_next_states(from) == ALLOWED_TRANSITIONS[from]

(* validate_transition raises, and the request ends, unless this holds. *)
validate_transition(from, to) == to \in allowed_next_states(from)

Role == {"ADMIN", "REVIEWER", "ANALYST"}
================================================================================
