------------------------------ MODULE Decision ------------------------------
(***************************************************************************)
(* What an analysis promises: one verdict, given once.  A reading that is  *)
(* missing refuses the run under its own name; otherwise the run publishes *)
(* a plan that stands, or is refused for what went wrong while asking.     *)
(***************************************************************************)

CONSTANTS
  Readings,           \* what the readings of a run can find
  Shapes,             \* the plans a reply can describe
  Trouble,            \* why a run with every reading can still be refused
  MissingIn(_),       \* the reasons a reading gives for refusing a run
  Sound(_, _),        \* a plan stands on a reading
  StatusFor(_, _)     \* the status its recommendation gets

VARIABLES
  reading,   \* what the readings find
  verdict    \* the verdict, or Undecided
vars == <<reading, verdict>>

Undecided == [kind |-> "undecided"]
Refused(reason) == [kind |-> "refused", reason |-> reason, status |-> "INVALIDATED"]
Published(plan, status) == [kind |-> "published", plan |-> plan, status |-> status]

Init == reading \in Readings /\ verdict = Undecided

Refuse ==
  /\ verdict = Undecided
  /\ \E reason \in (IF MissingIn(reading) = {} THEN Trouble ELSE MissingIn(reading)) :
       verdict' = Refused(reason)
  /\ UNCHANGED reading

Publish ==
  /\ verdict = Undecided /\ MissingIn(reading) = {}
  /\ \E plan \in Shapes :
       Sound(plan, reading) /\ verdict' = Published(plan, StatusFor(plan, reading))
  /\ UNCHANGED reading

Next == Refuse \/ Publish
Spec == Init /\ [][Next]_vars /\ WF_vars(Next)
=============================================================================
