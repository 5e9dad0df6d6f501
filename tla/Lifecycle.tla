------------------------------ MODULE Lifecycle ------------------------------
(***************************************************************************)
(* The status machine of a recommendation: which statuses end a plan and   *)
(* which moves the table of services/recommendation_lifecycle.py allows.   *)
(***************************************************************************)
EXTENDS FiniteSets

\* The outcomes that finish a plan.
Terminal == {"TARGET_REACHED", "INVALIDATED", "EXPIRED"}

\* Where each status may go; the three terminal statuses go nowhere.
Transitions ==
  [ DETECTED             |-> {"ANALYZING", "INVALIDATED", "EXPIRED"},
    ANALYZING            |-> {"FORMING", "INVALIDATED", "EXPIRED"},
    FORMING              |-> {"WAITING_CONFIRMATION", "READY", "INVALIDATED", "EXPIRED"},
    WAITING_CONFIRMATION |-> {"READY", "INVALIDATED", "EXPIRED", "TARGET_REACHED"},
    READY                |-> {"ACTIVE", "TARGET_REACHED", "INVALIDATED", "EXPIRED"},
    ACTIVE               |-> {"STRENGTHENING", "WEAKENING"} \cup Terminal,
    STRENGTHENING        |-> {"ACTIVE", "TARGET_REACHED", "WEAKENING", "INVALIDATED"},
    WEAKENING            |-> {"ACTIVE", "INVALIDATED", "EXPIRED"},
    TARGET_REACHED       |-> {},
    INVALIDATED          |-> {},
    EXPIRED              |-> {} ]

Status == DOMAIN Transitions

\* Everything that has not finished: repository.OPEN_STATUSES.
Open == Status \ Terminal

\* assert_recommendation_transition does not raise: repeating the current status
\* is silently accepted, a terminal one included.
Legal(cur, new) == cur = new \/ new \in Transitions[cur]
==============================================================================
